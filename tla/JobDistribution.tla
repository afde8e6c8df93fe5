--------------------------- MODULE JobDistribution ---------------------------
(***************************************************************************)
(* How work reaches miners: the daemon's template, the poller task of      *)
(* main.rs, the tokio broadcast channel, the session tasks of protocol_sv1 *)
(* and the registry they share.                                            *)
(*                                                                         *)
(* Tasks interleave at their awaits.  A template is its position in        *)
(* Offers, the sequence of jobs the daemon's successive templates map to.  *)
(* Offers[t].job_id is the template's height for the RPC job source and    *)
(* the node's own id for the API source, so two templates may share one.   *)
(*                                                                         *)
(* Slip_... definitions: see ActiveJobRegistry.                            *)
(***************************************************************************)
EXTENDS Naturals, Sequences, Functions

CONSTANTS
    Session,           \* connections; a closed one may be reused by a new miner
    JobId,
    Offers,            \* the jobs of the daemon's successive templates
    CAPACITY,          \* of the broadcast channel: 16 in main.rs
    ACTIVE_JOBS_MAX

Template == 1 .. Len(Offers)
None     == 0            \* current_job() returned no job; no notify sent yet

Offered == [job_id : JobId, template : Template, clean_jobs : BOOLEAN]

ASSUME OffersAssumption ==
    /\ Offers \in Seq(Offered) /\ Offers # << >>
    /\ \A t \in Template : Offers[t].template = t
ASSUME CapacityAssumption == CAPACITY \in Nat \ {0}
ASSUME BoundAssumption    == ACTIVE_JOBS_MAX \in Nat \ {0}

id(t) == Offers[t].job_id

VARIABLES
    tip,            \* the template the daemon would answer with
    polled,         \* the template last broadcast (last_job_id and last_height)
    poll_answer,    \* what the poller's current_job() returned, until compared
    pc,             \* where each session task is
    authorized,     \* authorized_worker is Some
    notified,       \* the work last written to the miner (last_notify_job_id)
    answer,         \* what on_authorize's current_job() returned
    queue,          \* broadcasts a session has yet to receive, oldest first
    lagged,         \* some of them were overwritten
    by_id, order    \* the registry

pollVars     == << polled, poll_answer >>
channelVars  == << queue, lagged >>
registryVars == << by_id, order >>
sessionVars  == << pc, authorized, notified, answer >>
vars == << tip, pollVars, sessionVars, channelVars, registryVars >>

Registry == INSTANCE ActiveJobRegistry WITH Jobs <- Range(Offers)

TypeOK ==
    /\ tip \in Template
    /\ polled \in Template \cup {None}
    /\ poll_answer \in Template \cup {None}
    /\ pc \in [Session -> {"closed", "ready", "authorizing", "registering"}]
    /\ authorized \in [Session -> BOOLEAN]
    /\ notified \in [Session -> Template \cup {None}]
    /\ answer \in [Session -> Template \cup {None}]
    /\ queue \in [Session -> Seq(Template)]
    /\ \A s \in Session : Len(queue[s]) =< CAPACITY
    /\ lagged \in [Session -> BOOLEAN]
    /\ Registry!TypeOK

Init ==
    /\ tip = 1
    /\ polled = None
    /\ poll_answer = None
    /\ pc = [s \in Session |-> "closed"]
    /\ authorized = [s \in Session |-> FALSE]
    /\ notified = [s \in Session |-> None]
    /\ answer = [s \in Session |-> None]
    /\ queue = [s \in Session |-> << >>]
    /\ lagged = [s \in Session |-> FALSE]
    /\ Registry!Init

-----------------------------------------------------------------------------
(* The daemon. *)

NewTemplate ==
    /\ tip < Len(Offers)
    /\ tip' = tip + 1
    /\ UNCHANGED << pollVars, sessionVars, channelVars, registryVars >>

-----------------------------------------------------------------------------
(* The poller.  An unanswered poll (None) leaves everything as it was.     *)

Poll ==
    /\ poll_answer = None
    /\ poll_answer' = tip
    /\ UNCHANGED << tip, polled, sessionVars, channelVars, registryVars >>

Slip_SameOnceSent(t, u) == u # None

SameWork(t, u) == u # None /\ id(t) = id(u)

Unchanged ==
    /\ poll_answer # None
    /\ SameWork(poll_answer, polled)
    /\ poll_answer' = None
    /\ UNCHANGED << tip, polled, sessionVars, channelVars, registryVars >>

subscribed(s) == pc[s] # "closed"
full(s) == Len(queue[s]) = CAPACITY

\* broadcast::Sender::send: never waits; a full receiver loses its oldest.
send(t) ==
    /\ queue' = [s \in Session |->
                   IF ~subscribed(s) THEN queue[s]
                   ELSE Append(IF full(s) THEN Tail(queue[s]) ELSE queue[s], t)]
    /\ lagged' = [s \in Session |-> lagged[s] \/ (subscribed(s) /\ full(s))]

Broadcast ==
    /\ poll_answer # None
    /\ ~SameWork(poll_answer, polled)
    /\ polled' = poll_answer
    /\ poll_answer' = None
    /\ send(poll_answer)
    /\ UNCHANGED << tip, sessionVars, registryVars >>

-----------------------------------------------------------------------------
(* A session. *)

Connect(s) ==
    /\ pc[s] = "closed"
    /\ pc' = [pc EXCEPT ![s] = "ready"]
    /\ UNCHANGED << tip, pollVars, authorized, notified, answer, channelVars, registryVars >>

\* The peer is gone: read_line returns 0 or an error, or a write fails.
\* A task between the notify it wrote and register ends only afterwards.
Close(s) ==
    /\ pc[s] \in {"ready", "authorizing"}
    /\ pc' = [pc EXCEPT ![s] = "closed"]
    /\ authorized' = [authorized EXCEPT ![s] = FALSE]
    /\ notified' = [notified EXCEPT ![s] = None]
    /\ answer' = [answer EXCEPT ![s] = None]
    /\ queue' = [queue EXCEPT ![s] = << >>]
    /\ lagged' = [lagged EXCEPT ![s] = FALSE]
    /\ UNCHANGED << tip, pollVars, registryVars >>

\* mining.authorize: the daemon answers on_authorize's current_job() ...
Authorize(s) ==
    /\ pc[s] = "ready"
    /\ pc' = [pc EXCEPT ![s] = "authorizing"]
    /\ \E t \in {tip, None} : answer' = [answer EXCEPT ![s] = t]
    /\ UNCHANGED << tip, pollVars, authorized, notified, channelVars, registryVars >>

\* ... and the answer is received: respond, and notify if there is a job.
Authorized(s) ==
    /\ pc[s] = "authorizing"
    /\ authorized' = [authorized EXCEPT ![s] = TRUE]
    /\ answer' = [answer EXCEPT ![s] = None]
    /\ \/ /\ answer[s] = None
          /\ pc' = [pc EXCEPT ![s] = "ready"]
          /\ UNCHANGED notified
       \/ /\ answer[s] # None
          /\ pc' = [pc EXCEPT ![s] = "registering"]
          /\ notified' = [notified EXCEPT ![s] = answer[s]]
    /\ UNCHANGED << tip, pollVars, channelVars, registryVars >>

Slip_NotRegistered(s) ==
    /\ pc[s] = "registering"
    /\ pc' = [pc EXCEPT ![s] = "ready"]
    /\ UNCHANGED << tip, pollVars, authorized, notified, answer, channelVars, registryVars >>

\* on_notify_sent
Register(s) ==
    /\ pc[s] = "registering"
    /\ pc' = [pc EXCEPT ![s] = "ready"]
    /\ Registry!register(Offers[notified[s]])
    /\ UNCHANGED << tip, pollVars, authorized, notified, answer, channelVars >>

\* job_rx.recv() returned Lagged: the next recv starts at the oldest kept.
Lagged(s) ==
    /\ pc[s] = "ready"
    /\ lagged[s]
    /\ lagged' = [lagged EXCEPT ![s] = FALSE]
    /\ UNCHANGED << tip, pollVars, sessionVars, queue, registryVars >>

receiving(s) == pc[s] = "ready" /\ ~lagged[s] /\ queue[s] # << >>

Slip_OncePerMiner(s, t) == ~authorized[s] \/ notified[s] # None

Slip_OnlyReplaces(s, t) == ~authorized[s] \/ notified[s] = None \/ SameWork(t, notified[s])

unwanted(s, t) == ~authorized[s] \/ SameWork(t, notified[s])

Discard(s) ==
    /\ receiving(s)
    /\ unwanted(s, Head(queue[s]))
    /\ queue' = [queue EXCEPT ![s] = Tail(@)]
    /\ UNCHANGED << tip, pollVars, sessionVars, lagged, registryVars >>

Push(s) ==
    /\ receiving(s)
    /\ ~unwanted(s, Head(queue[s]))
    /\ queue' = [queue EXCEPT ![s] = Tail(@)]
    /\ notified' = [notified EXCEPT ![s] = Head(queue[s])]
    /\ pc' = [pc EXCEPT ![s] = "registering"]
    /\ UNCHANGED << tip, pollVars, authorized, answer, lagged, registryVars >>

Receive(s) == Lagged(s) \/ Discard(s) \/ Push(s)

-----------------------------------------------------------------------------
SystemNext ==
    \/ NewTemplate
    \/ Poll \/ Unchanged \/ Broadcast
    \/ \E s \in Session : \/ Connect(s)
                          \/ Authorize(s) \/ Authorized(s)
                          \/ Register(s)
                          \/ Receive(s)

Next == SystemNext \/ \E s \in Session : Close(s)

(***************************************************************************)
(* Tasks make progress: the poller's timer ticks for ever, and an awaited  *)
(* write or lock completes.  A poll that is never answered again is not    *)
(* excluded by the code, but there is nothing to say of it: Poll is the    *)
(* answered poll.  tokio::select! picks among its ready branches at        *)
(* random, so a session whose miner talks all the time still receives      *)
(* broadcasts: strong fairness of Receive.  Miners and templates come and  *)
(* go as they please.                                                      *)
(***************************************************************************)
Fairness ==
    /\ WF_vars(Poll) /\ WF_vars(Unchanged \/ Broadcast)
    /\ \A s \in Session : /\ WF_vars(Authorized(s)) /\ WF_vars(Register(s))
                          /\ SF_vars(Receive(s))

Spec == Init /\ [][Next]_vars /\ Fairness

-----------------------------------------------------------------------------
Holds(s) == notified[s] # None

\* The newest work the session is certain to be given: the last broadcast it
\* has still to receive, or what it has.
Destined(s) == IF queue[s] = << >> THEN notified[s] ELSE queue[s][Len(queue[s])]

\* Share validation knows the miner's work, once the session has registered it.
WorkKnown(s) == Holds(s) /\ pc[s] = "ready" => Registry!contains(id(notified[s]))

(***************************************************************************)
(* No update is lost, however the poller, the capacity of the channel, lag *)
(* and re-authorization interleave: a miner that has been given work holds *)
(* work at least as new as the last broadcast (or a namesake of it), or    *)
(* the broadcast waits in its queue.  The daemon's answer to an authorize  *)
(* may overtake a broadcast, but never replace its effect by older work.   *)
(***************************************************************************)
NoLostUpdate ==
    \A s \in Session :
        Holds(s) => Destined(s) >= polled \/ SameWork(Destined(s), polled)

(***************************************************************************)
(* With the RPC source all jobs are clean, so whichever sessions register  *)
(* in whatever order, share validation knows the job of one notify only:   *)
(* the last registered.  The 64-job window is then never used.             *)
(***************************************************************************)
AtMostOneActive == Registry!OneJobWhenAllClean

(***************************************************************************)
(* Every miner that was given work and stays ends up, for good, with work  *)
(* of the current id once templates stop changing, wherever the poller and *)
(* its own session were when the last one came.                            *)
(***************************************************************************)
Converges ==
    <>[](\A s \in Session : Holds(s) => id(notified[s]) = id(tip))

(***************************************************************************)
(* README.md:86 gives a miner its work with the answer to its authorize.   *)
(* If the daemon did not answer, it has none, and nothing asks again; then *)
(* a miner that stays gets its work with the next broadcast its session    *)
(* receives, however many others it loses.  One is sent once the daemon    *)
(* has a template of an id that is not the one last broadcast, and does    *)
(* not return to that id before it is polled.                              *)
(***************************************************************************)
NextWorkComes(s) ==
    \/ queue[s] # << >>
    \/ \A t \in tip .. Len(Offers) : ~SameWork(t, polled)

SilenceIsMadeUpFor ==
    \A s \in Session :
        (pc[s] = "authorizing" \/ authorized[s]) /\ NextWorkComes(s)
            ~> Holds(s) \/ ~subscribed(s)
=============================================================================
