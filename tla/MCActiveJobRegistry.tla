------------------------- MODULE MCActiveJobRegistry --------------------------
(***************************************************************************)
(* The registry with room for two jobs, four ids and two templates: an id  *)
(* is evicted and comes back, a template changes under an id, and clean    *)
(* jobs arrive at every fill level.                                        *)
(***************************************************************************)
EXTENDS ActiveJobRegistryHistory, TLC

CONSTANTS a, b, c, d, t, u

MCJobId == {a, b, c, d}
MCTemplate == {t, u}
MCJobs == [job_id : MCJobId, template : MCTemplate, clean_jobs : BOOLEAN]
=============================================================================
