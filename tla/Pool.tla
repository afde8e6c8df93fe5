-------------------------------- MODULE Pool ---------------------------------
(***************************************************************************)
(* The running pool: the distribution of jobs and the handling of shares   *)
(* at work on one registry and one daemon, in the sessions of the miners.  *)
(*                                                                         *)
(* A session is one task.  It receives a broadcast or a request only when  *)
(* it awaits either in its select!, so it registers no job while a share   *)
(* of its own is in hand, and takes no share between a notify it has       *)
(* written and its register.  Other sessions and the poller go on.         *)
(*                                                                         *)
(* Slip_... definitions: see ActiveJobRegistry.                            *)
(***************************************************************************)
EXTENDS Naturals, Sequences

CONSTANTS
    Session, JobId, Offers,
    CAPACITY,                       \* see JobDistribution
    Assembled, Shares, MaxShares,   \* see ShareSubmission
    ACTIVE_JOBS_MAX, MAX_RECENT

Offered == [job_id : JobId, template : 1 .. Len(Offers), clean_jobs : BOOLEAN]

ASSUME JobsAssumption ==
    /\ Offers \in Seq(Offered) /\ Offers # << >>
    /\ \A t \in 1 .. Len(Offers) : Offers[t].template = t
    /\ Assembled \subseteq 1 .. Len(Offers)
ASSUME LimitsAssumption ==
    /\ CAPACITY \in Nat \ {0} /\ ACTIVE_JOBS_MAX \in Nat \ {0}
    /\ MAX_RECENT \in Nat \ {0} /\ MaxShares \in Nat

VARIABLES
    tip,                            \* the daemon
    by_id, order,                   \* the registry
    polled, poll_answer,            \* the poller and, per session, its work ...
    task, authorized, notified, fetched, queue, lagged,
    handling, share, result, solved, answer, outcome, found,    \* ... and share
    recent, attempts, candidates

sharedVars   == << tip, by_id, order >>
workVars     == << polled, poll_answer, task, authorized, notified, fetched, queue, lagged >>
shareVars    == << handling, share, result, solved, answer, outcome, found,
                   recent, attempts, candidates >>
vars == << sharedVars, workVars, shareVars >>

Work   == INSTANCE JobDistribution WITH pc <- task, answer <- fetched
Judged == INSTANCE ShareSubmission WITH pc <- handling

ASSUME SharesAssumption == Shares \subseteq Judged!Share

TypeOK == Work!TypeOK /\ Judged!TypeOK

Init == Work!Init /\ Judged!Init

-----------------------------------------------------------------------------
Daemon == Work!NewTemplate /\ UNCHANGED shareVars

Answered  == Work!Poll /\ UNCHANGED shareVars
Compared  == (Work!Unchanged \/ Work!Broadcast) /\ UNCHANGED shareVars

\* No share of the session is in hand.
free(s) == handling[s] = "idle"

Slip_CurrentRegistered(s) ==
    /\ task[s] = "registering"
    /\ task' = [task EXCEPT ![s] = "ready"]
    /\ Work!Registry!register(Offers[tip])
    /\ UNCHANGED << tip, polled, poll_answer, authorized, notified, fetched, queue, lagged,
                    shareVars >>

Connect(s)    == Work!Connect(s) /\ UNCHANGED shareVars
Close(s)      == free(s) /\ Work!Close(s) /\ UNCHANGED shareVars
Authorize(s)  == free(s) /\ Work!Authorize(s) /\ UNCHANGED shareVars
Authorized(s) == Work!Authorized(s) /\ UNCHANGED shareVars
Register(s)   == Work!Register(s) /\ UNCHANGED shareVars
Receive(s)    == free(s) /\ Work!Receive(s) /\ UNCHANGED shareVars

\* mining.submit of an authorized worker; of another it is refused unseen.
Submit(s) ==
    /\ task[s] = "ready" /\ authorized[s]
    /\ Judged!Submit(s)
    /\ UNCHANGED workVars

Handle(s) == Judged!Handle(s) /\ UNCHANGED workVars

OtherNext ==
    \/ Daemon \/ Answered \/ Compared
    \/ \E s \in Session :
          \/ Connect(s) \/ Close(s)
          \/ Authorize(s) \/ Authorized(s) \/ Receive(s)
          \/ Submit(s) \/ Handle(s)

Next == OtherNext \/ \E s \in Session : Register(s)

\* Liveness is a matter of the parts.
Spec == Init /\ [][Next]_vars

-----------------------------------------------------------------------------
(***************************************************************************)
(* The composition keeps to what each of its two parts was studied under:  *)
(* in particular the sessions register nothing but what the daemon has     *)
(* offered by then, which is all that ShareSubmission assumes of them.     *)
(***************************************************************************)
PartsAreImplemented ==
    /\ Work!Init /\ [][Work!Next]_(Work!vars)
    /\ Judged!Init /\ [][Judged!Next]_(Judged!vars)
=============================================================================
