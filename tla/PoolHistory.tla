----------------------------- MODULE PoolHistory ------------------------------
(***************************************************************************)
(* The pool with a history variable: whether, since a session registered   *)
(* what it was last notified of, another has registered something else.    *)
(***************************************************************************)
EXTENDS Pool

VARIABLE disturbed

hvars == << vars, disturbed >>

HInit == Init /\ disturbed = [s \in Session |-> FALSE]

HRegister(s) ==
    /\ Register(s)
    /\ disturbed' = [r \in Session |-> r # s /\ (disturbed[r] \/ notified[r] # notified[s])]

HNext ==
    \/ \E s \in Session : HRegister(s)
    \/ OtherNext /\ UNCHANGED disturbed

HSpec == HInit /\ [][HNext]_hvars

-----------------------------------------------------------------------------
\* The share in hand is for the work the miner was last notified of.
OnOwnWork(s) ==
    /\ handling[s] # "idle" /\ ~disturbed[s]
    /\ notified[s] # Work!None /\ share[s].job_id = Work!id(notified[s])

(***************************************************************************)
(* A miner that works on what it was last notified of does not work in     *)
(* vain: its share is judged on that very work, however broadcasts,        *)
(* repeated authorizes, new templates and other sessions came between.     *)
(* Only a session that registers something else after it can make its work *)
(* unknown; one that registers the same again, clean or not, does no harm. *)
(***************************************************************************)
OwnWorkIsKnown ==
    Judged!DistinctIds =>
        \A s \in Session :
            OnOwnWork(s) /\ share[s].context_ok => result[s] = share[s].verdict[notified[s]]

(***************************************************************************)
(* And a block found on it is submitted if the daemon still wants it when  *)
(* the miner is answered: the second lookup finds the job, no notify of    *)
(* the session's own comes in between, and the stale guard lets it pass.   *)
(***************************************************************************)
OwnBlocksAreSubmitted ==
    Judged!DistinctIds =>
        \A s \in Session :
            /\ OnOwnWork(s) /\ handling[s] = "replying" /\ result[s] = "Block"
            /\ Judged!id(tip) = share[s].job_id /\ tip \in Assembled /\ share[s].subscribed
            => \E c \in candidates : c.share = share[s]
=============================================================================
