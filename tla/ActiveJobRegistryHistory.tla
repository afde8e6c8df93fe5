----------------------- MODULE ActiveJobRegistryHistory -----------------------
(***************************************************************************)
(* The registry with a history variable: the jobs it installed since it    *)
(* last cleared itself.  With it the registry implements IssuedJobs, the   *)
(* specification of what it promises.                                      *)
(***************************************************************************)
EXTENDS ActiveJobRegistry

CONSTANT MaxIssued    \* bounds the history, and with it the checked runs

VARIABLE issued

hvars == << by_id, order, issued >>

HInit == Init /\ issued = << >>

HRegister(job) ==
    \/ /\ RegisterClean(job)
       /\ issued' = << job >>
    \/ /\ RegisterKnown(job)
       /\ UNCHANGED issued
    \/ /\ RegisterNew(job)
       /\ Len(issued) < MaxIssued
       /\ issued' = Append(issued, job)

HNext == \E job \in Jobs : HRegister(job)

HSpec == HInit /\ [][HNext]_hvars

Promise == INSTANCE IssuedJobs

-----------------------------------------------------------------------------
Forgotten == Len(issued) - Len(order)

(***************************************************************************)
(* What a lookup finds is what was promised: the known ids, oldest first,  *)
(* are those of the newest ACTIVE_JOBS_MAX jobs issued since the last      *)
(* clean, and each is answered with the job that was issued under it, not  *)
(* with a namesake issued earlier or later.                                *)
(***************************************************************************)
LookupsAsPromised ==
    /\ Len(order) = IF Len(issued) < ACTIVE_JOBS_MAX THEN Len(issued) ELSE ACTIVE_JOBS_MAX
    /\ \A i \in 1 .. Len(order) : /\ order[i] = issued[Forgotten + i].job_id
                                  /\ get_job(order[i]) = issued[Forgotten + i]

(***************************************************************************)
(* The registry implements its promise: every registration is a step of    *)
(* IssuedJobs or changes nothing there, so a repeated notify neither       *)
(* re-issues an active job nor is ignored when the job is active no more.  *)
(***************************************************************************)
KeepsPromise == Promise!Spec
=============================================================================
