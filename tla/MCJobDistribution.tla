-------------------------- MODULE MCJobDistribution ---------------------------
(***************************************************************************)
(* Three templates, the third at the height of the second; a channel of    *)
(* one or two slots, so that receivers lag; two miners.                    *)
(***************************************************************************)
EXTENDS JobDistributionHistory

CONSTANTS s1, s2, h1, h2

Clean(name, t) == [job_id |-> name, template |-> t, clean_jobs |-> TRUE]

TwoMiners == {s1, s2}
Heights == {h1, h2}

Refresh == << Clean(h1, 1), Clean(h2, 2), Clean(h2, 3) >>
=============================================================================
