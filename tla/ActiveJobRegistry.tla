-------------------------- MODULE ActiveJobRegistry --------------------------
(***************************************************************************)
(* The registry of recently issued jobs, pool_core's ActiveJobRegistry.    *)
(* It is one value behind one RwLock, shared by every session: a session   *)
(* registers a job after it has written mining.notify, and share           *)
(* validation looks jobs up by the id a miner sends back.                  *)
(*                                                                         *)
(* Each method holds the lock from its first to its last access of the     *)
(* inner maps, so a method is one action.                                  *)
(*                                                                         *)
(* A definition named Slip_... is the one that follows it with a plausible *)
(* slip.  No specification uses it; see the README.                        *)
(***************************************************************************)
EXTENDS Naturals, Sequences, Functions

CONSTANTS
    JobId,             \* the ids jobs carry on the wire
    Template,          \* the work a job stands for: prev hash, coinbase, branch ...
    Jobs,              \* the jobs the pool's job source can produce
    ACTIVE_JOBS_MAX    \* 64 in the code

Job == [job_id : JobId, template : Template, clean_jobs : BOOLEAN]

ASSUME JobsAssumption == Jobs \subseteq Job
ASSUME MaxAssumption  == ACTIVE_JOBS_MAX \in Nat \ {0}

VARIABLES
    by_id,     \* the job registered under each known id
    order      \* the known ids, oldest first

vars == << by_id, order >>

Init ==
    /\ by_id = << >>
    /\ order = << >>

-----------------------------------------------------------------------------
contains(id) == id \in DOMAIN by_id

NoJob == [job_id |-> "none"]

get_job(id) == IF contains(id) THEN by_id[id] ELSE NoJob

Installed(ids, job) ==
    [id \in ids \cup {job.job_id} |-> IF id = job.job_id THEN job ELSE by_id[id]]

\* The ids popped from the front of order to make room for one more.
Evicted == SubSeq(order, 1, (Len(order) + 1) - ACTIVE_JOBS_MAX)

Surviving == SubSeq(order, Len(Evicted) + 1, Len(order))

Slip_WrongField(job) ==
    /\ job.clean_jobs
    /\ order' = << job.template >>
    /\ by_id' = Installed({}, job)

Slip_NotCleared(job) ==
    /\ job.clean_jobs
    /\ order' = Append(order, job.job_id)
    /\ by_id' = Installed(DOMAIN by_id, job)

RegisterClean(job) ==
    /\ job.clean_jobs
    /\ order' = << job.job_id >>
    /\ by_id' = Installed({}, job)

Slip_Refreshed(job) ==
    /\ ~job.clean_jobs
    /\ contains(job.job_id)
    /\ by_id' = Installed(DOMAIN by_id, job)
    /\ UNCHANGED order

\* The job already known under the id stays: its data is not refreshed, nor
\* is its place in the order.
RegisterKnown(job) ==
    /\ ~job.clean_jobs
    /\ contains(job.job_id)
    /\ UNCHANGED vars

Slip_EvictedKept(job) ==
    /\ ~job.clean_jobs
    /\ ~contains(job.job_id)
    /\ order' = Append(Surviving, job.job_id)
    /\ by_id' = Installed(DOMAIN by_id, job)

Slip_NewestEvicted(job) ==
    /\ ~job.clean_jobs
    /\ ~contains(job.job_id)
    /\ LET kept == IF Evicted = << >> THEN order ELSE SubSeq(order, 1, Len(order) - 1) IN
          /\ order' = Append(kept, job.job_id)
          /\ by_id' = Installed(Range(kept), job)

Slip_IssuedTwice(job) ==
    /\ ~job.clean_jobs
    /\ order' = Append(Surviving, job.job_id)
    /\ by_id' = Installed(DOMAIN by_id \ Range(Evicted), job)

RegisterNew(job) ==
    /\ ~job.clean_jobs
    /\ ~contains(job.job_id)
    /\ order' = Append(Surviving, job.job_id)
    /\ by_id' = Installed(DOMAIN by_id \ Range(Evicted), job)

register(job) ==
    \/ RegisterClean(job)
    \/ RegisterKnown(job)
    \/ RegisterNew(job)

Next == \E job \in Jobs : register(job)

Spec == Init /\ [][Next]_vars

-----------------------------------------------------------------------------
TypeOK ==
    /\ order \in Seq(JobId)
    /\ \E known \in SUBSET JobId : by_id \in [known -> Jobs]

(***************************************************************************)
(* The two collections of the registry never drift apart, whatever mixture *)
(* of clean, repeated and new registrations arrives: the queue lists every *)
(* known id once, each job is filed under its own id, and the bound holds. *)
(* An id left behind in one of them would be a leak or an evicted job that *)
(* still validates shares.                                                 *)
(***************************************************************************)
Consistent ==
    /\ Range(order) = DOMAIN by_id
    /\ \A i, j \in DOMAIN order : order[i] = order[j] => i = j
    /\ \A id \in DOMAIN by_id : by_id[id].job_id = id
    /\ Len(order) =< ACTIVE_JOBS_MAX

Lost == DOMAIN by_id \ DOMAIN by_id'

CleanInstalled == \E job \in Jobs : /\ job.clean_jobs
                                    /\ by_id' = [id \in {job.job_id} |-> job]

LeavesInOrder ==
    \/ CleanInstalled
    \/ /\ \A id \in Lost : id = order[1] /\ Len(order) = ACTIVE_JOBS_MAX
       /\ \A id \in DOMAIN by_id \ Lost : by_id'[id] = by_id[id]

(***************************************************************************)
(* A job disappears for one of two reasons only: the step installed a      *)
(* clean job, or it was the oldest of a full registry; and the job filed   *)
(* under an id is replaced only by a clean one.  A miner's job is never    *)
(* dropped, or exchanged for another under the same id, by anything else.  *)
(***************************************************************************)
OldestLeavesFirst == [][LeavesInOrder]_vars

AllClean == \A job \in Jobs : job.clean_jobs

(***************************************************************************)
(* The RPC job source produces clean jobs only (template_mapper.rs), and a *)
(* node may answer the API source so.  With such jobs alone the window is  *)
(* never wider than one job, whatever ACTIVE_JOBS_MAX is: the only job any *)
(* miner's share can be checked against is the one registered last.        *)
(***************************************************************************)
OneJobWhenAllClean == AllClean => Len(order) =< 1
=============================================================================
