------------------------------ MODULE IssuedJobs ------------------------------
(***************************************************************************)
(* What the registry of active jobs promises, with nothing of how it keeps *)
(* the promise: there is the list of jobs issued since work was last       *)
(* cleaned, and the newest ACTIVE_JOBS_MAX of them are active.             *)
(***************************************************************************)
EXTENDS Naturals, Sequences

CONSTANTS Jobs, ACTIVE_JOBS_MAX

VARIABLE issued

\* The positions of the issued jobs that are still active.
Active == {i \in 1 .. Len(issued) : Len(issued) < i + ACTIVE_JOBS_MAX}

Init == issued = << >>

\* Clean work makes all issued before it worthless.
Clean(job) ==
    /\ job.clean_jobs
    /\ issued' = << job >>

\* A job is issued once for as long as it is active.
Issue(job) ==
    /\ ~job.clean_jobs
    /\ \A i \in Active : issued[i].job_id # job.job_id
    /\ issued' = Append(issued, job)

Next == \E job \in Jobs : Clean(job) \/ Issue(job)

Spec == Init /\ [][Next]_issued
=============================================================================
