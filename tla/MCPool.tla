-------------------------------- MODULE MCPool --------------------------------
(***************************************************************************)
(* Two templates, the job of the second not clean, each with a share that  *)
(* is a block on it; two miners; a channel of one slot, so that receivers  *)
(* lag.                                                                    *)
(***************************************************************************)
EXTENDS PoolHistory, PoolClaims

CONSTANTS s1, s2, h1, h2

Offer(name, t, clean) == [job_id |-> name, template |-> t, clean_jobs |-> clean]

TwoMiners == {s1, s2}
Heights == {h1, h2}

Blocks == << Offer(h1, 1, TRUE), Offer(h2, 2, FALSE) >>
Both == {1, 2}

Solution(name, t) ==
    [job_id |-> name, context_ok |-> TRUE, subscribed |-> TRUE,
     verdict |-> [u \in 1 .. 2 |-> IF u = t THEN "Block" ELSE "LowDifficulty"]]

Solutions == {Solution(h1, 1), Solution(h2, 2)}
=============================================================================
