------------------------ MODULE JobDistributionHistory ------------------------
(***************************************************************************)
(* The distribution of jobs with a history variable: whether a connection  *)
(* was ever closed.  Some things hold only as long as all miners stay.     *)
(***************************************************************************)
EXTENDS JobDistribution

VARIABLE left    \* some miner has disconnected

hvars == << vars, left >>

HInit == Init /\ left = FALSE

HNext ==
    \/ SystemNext /\ UNCHANGED left
    \/ (\E s \in Session : Close(s)) /\ left' = TRUE

HSpec == HInit /\ [][HNext]_hvars /\ Fairness

(***************************************************************************)
(* While no miner disconnects the registry settles: however late the       *)
(* sessions register what they have notified, and in whatever order,       *)
(* eventually every miner's work is known to share validation and stays    *)
(* known.  A disconnection may leave the newest job unknown for good.      *)
(***************************************************************************)
RegistrySettles == []~left => <>[](\A s \in Session : WorkKnown(s))
=============================================================================
