-------------------------- MODULE MCShareSubmission ---------------------------
(***************************************************************************)
(* Two templates, the job of the second not clean; for each a share that   *)
(* is a block on it and nothing on the other; the same from a session that *)
(* never subscribed; a plain share good on the first; and one with a bad   *)
(* extranonce2 or version bits.                                            *)
(***************************************************************************)
EXTENDS ShareSubmissionClaims

CONSTANTS s1, s2, h1, h2

Offer(name, t, clean) == [job_id |-> name, template |-> t, clean_jobs |-> clean]

TwoMiners == {s1, s2}
Heights == {h1, h2}

Blocks == << Offer(h1, 1, TRUE), Offer(h2, 2, FALSE) >>
Both == {1, 2}

Sent(name, ok, t, what) ==
    [job_id |-> name, context_ok |-> ok, subscribed |-> TRUE,
     verdict |-> [u \in 1 .. 2 |-> IF u = t THEN what ELSE "LowDifficulty"]]

MCShares == {Sent(h1, TRUE, 1, "Block"), Sent(h2, TRUE, 2, "Block"),
             [Sent(h1, TRUE, 1, "Block") EXCEPT !.subscribed = FALSE],
             Sent(h1, TRUE, 1, "Accepted"), Sent(h1, FALSE, 1, "Block")}
=============================================================================
