------------------------------ MODULE PoolProofs ------------------------------
(***************************************************************************)
(* The composition implements its parts and keeps what they promise; and   *)
(* with the history, a miner's own work is known and its blocks are        *)
(* submitted.  For any sessions, templates, shares and limits.             *)
(***************************************************************************)
EXTENDS PoolHistory, SequenceTheorems, TLAPS

WorkProofs   == INSTANCE JobDistributionProofs WITH pc <- task, answer <- fetched
JudgedProofs == INSTANCE ShareSubmissionProofs WITH pc <- handling

Past == 1 .. tip

None == 0

(***************************************************************************)
(* Nothing on its way to a miner is newer than what the daemon has         *)
(* offered, and a session that registers has something to register.        *)
(***************************************************************************)
NotAhead ==
    /\ tip \in 1 .. Len(Offers)
    /\ poll_answer \in Past \cup {None}
    /\ task \in [Session -> {"closed", "ready", "authorizing", "registering"}]
    /\ notified \in [Session -> Past \cup {None}]
    /\ fetched \in [Session -> Past \cup {None}]
    /\ queue \in [Session -> Seq(Past)]
    /\ \A s \in Session : task[s] = "registering" => notified[s] # None

LEMMA Templates ==
    /\ Len(Offers) \in Nat \ {0}
    /\ \A t \in 1 .. Len(Offers) : Offers[t] \in Offered
BY JobsAssumption, LenProperties, EmptySeq

LEMMA InitNotAhead == Init => NotAhead
BY Templates DEF Init, Work!Init, Work!None, NotAhead, Past, None

\* Session tasks one at a time.
LEMMA OneTask ==
    ASSUME NotAhead, NEW s \in Session, UNCHANGED << tip, poll_answer >>,
           NEW at \in {"closed", "ready", "authorizing", "registering"},
           NEW work \in Past \cup {None}, NEW news \in Past \cup {None},
           NEW waiting \in Seq(Past),
           task' = [task EXCEPT ![s] = at],
           notified' = [notified EXCEPT ![s] = work],
           fetched' = [fetched EXCEPT ![s] = news],
           queue' = [queue EXCEPT ![s] = waiting],
           at = "registering" => work # None
    PROVE  NotAhead'
BY DEF NotAhead, Past

LEMMA DaemonStep == NotAhead /\ Daemon => NotAhead'
<1> SUFFICES ASSUME NotAhead, Daemon PROVE NotAhead'
  OBVIOUS
<1>1. /\ tip \in Nat /\ tip < Len(Offers) /\ tip' = tip + 1
      /\ UNCHANGED << poll_answer, task, notified, fetched, queue >>
  BY Templates DEF Daemon, Work!NewTemplate, Work!pollVars, Work!sessionVars, Work!channelVars,
                   NotAhead
<1>2. Past \subseteq Past' /\ tip' \in 1 .. Len(Offers)
  BY <1>1, Templates DEF Past
<1>3. \A q \in Seq(Past) : q \in Seq(Past')
  <2> TAKE q \in Seq(Past)
  <2>1. q \in [1 .. Len(q) -> Past] /\ Len(q) \in Nat
    BY LenProperties
  <2>2. q \in [1 .. Len(q) -> Past']
    BY <1>2, <2>1
  <2>3. QED
    BY <2>1, <2>2, SeqDef
<1>4. queue' \in [Session -> Seq(Past')]
  BY <1>1, <1>3 DEF NotAhead
<1>5. QED
  BY <1>1, <1>2, <1>4 DEF NotAhead, None

LEMMA PollerStep == NotAhead /\ (Answered \/ Compared) => NotAhead'
<1> SUFFICES ASSUME NotAhead, Answered \/ Compared PROVE NotAhead'
  OBVIOUS
<1>1. CASE Answered \/ (Work!Unchanged /\ UNCHANGED shareVars)
  BY <1>1, Templates
  DEF Answered, Work!Poll, Work!Unchanged, Work!sessionVars, Work!channelVars,
      NotAhead, Past, None, Work!None
<1>2. CASE Work!Broadcast
  <2>1. /\ poll_answer \in Past /\ poll_answer' = None
        /\ UNCHANGED << tip, task, notified, fetched >>
        /\ queue' = [s \in Session |->
                       IF ~Work!subscribed(s) THEN queue[s]
                       ELSE Append(IF Work!full(s) THEN Tail(queue[s]) ELSE queue[s], poll_answer)]
    BY <1>2 DEF Work!Broadcast, Work!send, Work!sessionVars, NotAhead, None, Work!None
  <2>2. ASSUME NEW q \in Seq(Past), q # << >> PROVE Tail(q) \in Seq(Past)
    BY <2>2, HeadTailProperties
  <2>3. ASSUME NEW s \in Session, Work!full(s) PROVE queue[s] # << >>
    BY <2>3, LimitsAssumption, EmptySeq DEF Work!full
  <2>4. ASSUME NEW s \in Session PROVE queue'[s] \in Seq(Past)
    <3> DEFINE kept == IF Work!full(s) THEN Tail(queue[s]) ELSE queue[s]
    <3>1. queue[s] \in Seq(Past) /\ kept \in Seq(Past)
      BY <2>2, <2>3 DEF NotAhead
    <3>2. Append(kept, poll_answer) \in Seq(Past)
      BY <2>1, <3>1, AppendProperties
    <3>3. QED
      BY <2>1, <3>1, <3>2
  <2>5. queue' \in [Session -> Seq(Past)]
    BY <2>1, <2>4
  <2>6. QED
    BY <2>1, <2>5 DEF NotAhead, Past
<1>3. QED
  BY <1>1, <1>2 DEF Compared

LEMMA TaskStep ==
    ASSUME NotAhead, NEW s \in Session,
           \/ Connect(s) \/ Close(s) \/ Authorize(s) \/ Authorized(s)
           \/ Register(s) \/ Receive(s)
    PROVE  NotAhead'
<1>1. /\ notified[s] \in Past \cup {None} /\ fetched[s] \in Past \cup {None}
      /\ queue[s] \in Seq(Past) /\ tip \in Past /\ << >> \in Seq(Past)
      /\ task[s] \in {"closed", "ready", "authorizing", "registering"}
  BY Templates, EmptySeq DEF NotAhead, Past
<1>2. /\ notified = [notified EXCEPT ![s] = notified[s]]
      /\ fetched = [fetched EXCEPT ![s] = fetched[s]]
      /\ queue = [queue EXCEPT ![s] = queue[s]]
      /\ task = [task EXCEPT ![s] = task[s]]
  BY DEF NotAhead
<1>3. CASE Connect(s)
  BY <1>1, <1>2, <1>3, OneTask DEF Connect, Work!Connect, Work!pollVars, Work!channelVars
<1>4. CASE Close(s)
  BY <1>1, <1>2, <1>4, OneTask DEF Close, Work!Close, Work!pollVars, None, Work!None
<1>5. CASE Authorize(s)
  <2>1. PICK t \in {tip, None} : fetched' = [fetched EXCEPT ![s] = t]
    BY <1>5 DEF Authorize, Work!Authorize, None, Work!None
  <2>2. t \in Past \cup {None}
    BY <1>1
  <2>3. /\ task' = [task EXCEPT ![s] = "authorizing"]
        /\ UNCHANGED << tip, poll_answer, notified, queue >>
    BY <1>5 DEF Authorize, Work!Authorize, Work!pollVars, Work!channelVars
  <2>4. QED
    BY <1>1, <1>2, <2>1, <2>2, <2>3, OneTask
<1>6. CASE Authorized(s)
  BY <1>1, <1>2, <1>6, OneTask
  DEF Authorized, Work!Authorized, Work!pollVars, Work!channelVars, None, Work!None
<1>7. CASE Register(s)
  BY <1>1, <1>2, <1>7, OneTask DEF Register, Work!Register, Work!pollVars, Work!channelVars
<1>8. CASE Receive(s)
  <2>1. CASE Work!Lagged(s)
    BY <2>1 DEF Work!Lagged, Work!pollVars, Work!sessionVars, NotAhead, Past
  <2>2. ASSUME Work!receiving(s)
        PROVE  Head(queue[s]) \in Past /\ Tail(queue[s]) \in Seq(Past)
    BY <1>1, <2>2, HeadTailProperties DEF Work!receiving
  <2>3. Head(queue[s]) \in Past => Head(queue[s]) # None
    BY DEF Past, None
  <2>4. CASE Work!Discard(s)
    <3>1. /\ queue' = [queue EXCEPT ![s] = Tail(queue[s])]
          /\ UNCHANGED << tip, poll_answer, task, notified, fetched >>
      BY <2>4 DEF Work!Discard, Work!pollVars, Work!sessionVars
    <3>2. Tail(queue[s]) \in Seq(Past)
      BY <2>2, <2>4 DEF Work!Discard
    <3>3. queue' \in [Session -> Seq(Past)]
      BY <3>1, <3>2 DEF NotAhead
    <3>4. QED
      BY <3>1, <3>3 DEF NotAhead, Past
  <2>5. CASE Work!Push(s)
    BY <1>1, <1>2, <2>2, <2>3, <2>5, OneTask DEF Work!Push, Work!receiving, Work!pollVars
  <2>6. QED
    BY <1>8, <2>1, <2>4, <2>5 DEF Receive, Work!Receive
<1>9. QED
  BY <1>3, <1>4, <1>5, <1>6, <1>7, <1>8

LEMMA StepNotAhead == NotAhead /\ [Next]_vars => NotAhead'
<1> SUFFICES ASSUME NotAhead, [Next]_vars PROVE NotAhead'
  OBVIOUS
<1>1. CASE Daemon \/ Answered \/ Compared
  BY <1>1, DaemonStep, PollerStep
<1>2. ASSUME NEW s \in Session,
             \/ Connect(s) \/ Close(s) \/ Authorize(s) \/ Authorized(s)
             \/ Register(s) \/ Receive(s)
      PROVE  NotAhead'
  BY <1>2, TaskStep
<1>3. ASSUME NEW s \in Session, Submit(s) \/ Handle(s) PROVE NotAhead'
  <2>1. UNCHANGED << tip, workVars >>
    BY <1>3
    DEF Submit, Handle, Judged!Submit, Judged!Handle, Judged!Record, Judged!Reported,
        Judged!JobMissing, Judged!JobFound, Judged!Answered, Judged!Stale,
        Judged!Unbuildable, Judged!SubmitBlock, Judged!Reply
  <2>2. QED
    BY <2>1 DEF workVars, NotAhead, Past
<1>4. CASE UNCHANGED vars
  BY <1>4 DEF vars, sharedVars, workVars, NotAhead, Past
<1>5. QED
  BY <1>1, <1>2, <1>3, <1>4 DEF Next, OtherNext

-----------------------------------------------------------------------------
(* The parts. *)

LEMMA SameRegistry ==
    ASSUME NEW job
    PROVE  Work!Registry!register(job) <=> Judged!Registry!register(job)
BY DEF Work!Registry!register, Judged!Registry!register,
       Work!Registry!RegisterClean, Judged!Registry!RegisterClean,
       Work!Registry!RegisterKnown, Judged!Registry!RegisterKnown,
       Work!Registry!RegisterNew, Judged!Registry!RegisterNew,
       Work!Registry!contains, Judged!Registry!contains,
       Work!Registry!Installed, Judged!Registry!Installed,
       Work!Registry!Surviving, Judged!Registry!Surviving,
       Work!Registry!Evicted, Judged!Registry!Evicted,
       Work!Registry!vars, Judged!Registry!vars,
       Work!Registry!Range, Judged!Registry!Range

LEMMA InitOfParts == Init => Work!Init /\ Judged!Init
BY DEF Init

LEMMA StepOfWork == [Next]_vars => [Work!Next]_(Work!vars)
<1> SUFFICES ASSUME [Next]_vars PROVE [Work!Next]_(Work!vars)
  OBVIOUS
<1>1. CASE Daemon \/ Answered \/ Compared
  BY <1>1 DEF Daemon, Answered, Compared, Work!Next, Work!SystemNext
<1>2. ASSUME NEW s \in Session,
             \/ Connect(s) \/ Close(s) \/ Authorize(s) \/ Authorized(s)
             \/ Register(s) \/ Receive(s)
      PROVE  Work!Next
  BY <1>2
  DEF Connect, Close, Authorize, Authorized, Register, Receive, Work!Next, Work!SystemNext
<1>3. ASSUME NEW s \in Session, Submit(s) \/ Handle(s) PROVE UNCHANGED Work!vars
  <2>1. UNCHANGED << tip, by_id, order, workVars >>
    BY <1>3
    DEF Submit, Handle, Judged!Submit, Judged!Handle, Judged!Record, Judged!Reported,
        Judged!JobMissing, Judged!JobFound, Judged!Answered, Judged!Stale,
        Judged!Unbuildable, Judged!SubmitBlock, Judged!Reply, Judged!registryVars
  <2>2. QED
    BY <2>1 DEF workVars, Work!vars, Work!pollVars, Work!sessionVars, Work!channelVars,
                Work!registryVars
<1>4. CASE UNCHANGED vars
  BY <1>4 DEF vars, sharedVars, workVars, Work!vars, Work!pollVars, Work!sessionVars,
              Work!channelVars, Work!registryVars
<1>5. QED
  BY <1>1, <1>2, <1>3, <1>4 DEF Next, OtherNext

LEMMA StepOfJudged == NotAhead /\ [Next]_vars => [Judged!Next]_(Judged!vars)
<1> SUFFICES ASSUME NotAhead, [Next]_vars PROVE [Judged!Next]_(Judged!vars)
  OBVIOUS
<1>1. CASE Daemon
  BY <1>1
  DEF Daemon, shareVars, Work!NewTemplate, Work!registryVars, Judged!NewTemplate,
      Judged!registryVars, Judged!handlerVars, Judged!Next
<1>2. ASSUME \/ Answered \/ Compared
             \/ \E s \in Session : \/ Connect(s) \/ Close(s) \/ Authorize(s)
                                   \/ Authorized(s) \/ Receive(s)
      PROVE  UNCHANGED Judged!vars
  <2>1. UNCHANGED << tip, by_id, order, shareVars >>
    BY <1>2
    DEF Answered, Compared, Connect, Close, Authorize, Authorized, Receive, Work!Poll,
        Work!Unchanged, Work!Broadcast, Work!Connect, Work!Close, Work!Authorize,
        Work!Authorized, Work!Receive, Work!Lagged, Work!Discard, Work!Push,
        Work!registryVars
  <2>2. QED
    BY <2>1 DEF shareVars, Judged!vars, Judged!registryVars, Judged!handlerVars
<1>3. ASSUME NEW s \in Session, Register(s) PROVE Judged!Next
  <2>1. notified[s] \in 1 .. tip
    BY <1>3 DEF Register, Work!Register, NotAhead, Past, None
  <2>2. Judged!Registry!register(Offers[notified[s]])
    BY <1>3, SameRegistry DEF Register, Work!Register
  <2>3. UNCHANGED << tip, shareVars >>
    BY <1>3 DEF Register, Work!Register
  <2>4. QED
    BY <2>1, <2>2, <2>3 DEF shareVars, Judged!Notified, Judged!handlerVars, Judged!Next
<1>4. ASSUME NEW s \in Session, Submit(s) \/ Handle(s) PROVE Judged!Next
  BY <1>4 DEF Submit, Handle, Judged!Next
<1>5. CASE UNCHANGED vars
  BY <1>5 DEF vars, sharedVars, shareVars, Judged!vars, Judged!registryVars,
              Judged!handlerVars
<1>6. QED
  BY <1>1, <1>2, <1>3, <1>4, <1>5 DEF Next, OtherNext

(***************************************************************************)
(* The composition implements JobDistribution and ShareSubmission, so what *)
(* is proved of either's steps holds of the pool's.  The hard half is the  *)
(* second: that no session registers a job the daemon has yet to offer.    *)
(***************************************************************************)
THEOREM PoolImplementsItsParts == Spec => PartsAreImplemented
<1>1. Init => NotAhead
  BY InitNotAhead
<1>2. NotAhead /\ [Next]_vars => NotAhead'
  BY StepNotAhead
<1>3. QED
  BY <1>1, <1>2, InitOfParts, StepOfWork, StepOfJudged, PTL DEF Spec, PartsAreImplemented

-----------------------------------------------------------------------------
(* What the parts promise holds of the composition. *)

LEMMA WorkConstants ==
    /\ Offers \in Seq(WorkProofs!Offered) /\ Offers # << >>
    /\ \A t \in WorkProofs!Template : Offers[t].template = t
    /\ CAPACITY \in Nat \ {0} /\ ACTIVE_JOBS_MAX \in Nat \ {0}
BY JobsAssumption, LimitsAssumption DEF Offered, WorkProofs!Offered, WorkProofs!Template

LEMMA WorkInit == Work!Init => WorkProofs!Kept
<1>1. Work!Init => WorkProofs!Init
  BY DEF Work!Init, WorkProofs!Init, Work!Registry!Init, WorkProofs!Registry!Init,
         Work!None, WorkProofs!None
<1>2. QED
  BY <1>1, WorkConstants, WorkProofs!InitKept

LEMMA WorkStep == WorkProofs!Kept /\ [Work!Next]_(Work!vars) => WorkProofs!Kept'
<1> SUFFICES ASSUME WorkProofs!Kept, [Work!Next]_(Work!vars) PROVE WorkProofs!Kept'
  OBVIOUS
<1>1. ASSUME NEW job
      PROVE  Work!Registry!register(job) => WorkProofs!Registry!register(job)
  BY DEF Work!Registry!register, WorkProofs!Registry!register,
         Work!Registry!RegisterClean, WorkProofs!Registry!RegisterClean,
         Work!Registry!RegisterKnown, WorkProofs!Registry!RegisterKnown,
         Work!Registry!RegisterNew, WorkProofs!Registry!RegisterNew,
         Work!Registry!contains, WorkProofs!Registry!contains,
         Work!Registry!Installed, WorkProofs!Registry!Installed,
         Work!Registry!Surviving, WorkProofs!Registry!Surviving,
         Work!Registry!Evicted, WorkProofs!Registry!Evicted,
         Work!Registry!vars, WorkProofs!Registry!vars,
         Work!Registry!Range, WorkProofs!Registry!Range
<1> USE DEF Work!pollVars, WorkProofs!pollVars, Work!channelVars, WorkProofs!channelVars,
            Work!registryVars, WorkProofs!registryVars, Work!sessionVars,
            WorkProofs!sessionVars, Work!None, WorkProofs!None
<1>2. CASE Work!NewTemplate \/ Work!Poll \/ Work!Unchanged
  <2>1. WorkProofs!NewTemplate \/ WorkProofs!Poll \/ WorkProofs!Unchanged
    BY <1>2 DEF Work!NewTemplate, WorkProofs!NewTemplate, Work!Poll, WorkProofs!Poll,
                Work!Unchanged, WorkProofs!Unchanged, Work!SameWork, WorkProofs!SameWork,
                Work!id, WorkProofs!id
  <2>2. QED
    BY <2>1, WorkConstants, WorkProofs!StepKept DEF WorkProofs!Next, WorkProofs!SystemNext
<1>3. CASE Work!Broadcast
  <2>1. WorkProofs!Broadcast
    BY <1>3 DEF Work!Broadcast, WorkProofs!Broadcast, Work!send, WorkProofs!send,
                Work!subscribed, WorkProofs!subscribed, Work!full, WorkProofs!full,
                Work!SameWork, WorkProofs!SameWork, Work!id, WorkProofs!id
  <2>2. QED
    BY <2>1, WorkConstants, WorkProofs!StepKept DEF WorkProofs!Next, WorkProofs!SystemNext
<1>4. ASSUME NEW s \in Session,
             Work!Connect(s) \/ Work!Authorize(s) \/ Work!Authorized(s) \/ Work!Close(s)
      PROVE  WorkProofs!Kept'
  <2>1. \/ WorkProofs!Connect(s) \/ WorkProofs!Authorize(s) \/ WorkProofs!Authorized(s)
        \/ WorkProofs!Close(s)
    BY <1>4 DEF Work!Connect, WorkProofs!Connect, Work!Authorize, WorkProofs!Authorize,
                Work!Authorized, WorkProofs!Authorized, Work!Close, WorkProofs!Close
  <2>2. QED
    BY <2>1, WorkConstants, WorkProofs!StepKept DEF WorkProofs!Next, WorkProofs!SystemNext
<1>5. ASSUME NEW s \in Session, Work!Register(s) PROVE WorkProofs!Kept'
  <2>1. WorkProofs!Register(s)
    BY <1>1, <1>5 DEF Work!Register, WorkProofs!Register
  <2>2. QED
    BY <2>1, WorkConstants, WorkProofs!StepKept DEF WorkProofs!Next, WorkProofs!SystemNext
<1>6. ASSUME NEW s \in Session, Work!Receive(s) PROVE WorkProofs!Kept'
  <2>1. WorkProofs!Receive(s)
    BY <1>6 DEF Work!Receive, WorkProofs!Receive, Work!Lagged, WorkProofs!Lagged,
                Work!Discard, WorkProofs!Discard, Work!Push, WorkProofs!Push,
                Work!receiving, WorkProofs!receiving, Work!unwanted, WorkProofs!unwanted,
                Work!SameWork, WorkProofs!SameWork, Work!id, WorkProofs!id
  <2>2. QED
    BY <2>1, WorkConstants, WorkProofs!StepKept DEF WorkProofs!Next, WorkProofs!SystemNext
<1>7. CASE UNCHANGED Work!vars
  BY <1>7, WorkConstants, WorkProofs!StepKept DEF Work!vars, WorkProofs!vars
<1>8. QED
  BY <1>2, <1>3, <1>4, <1>5, <1>6, <1>7 DEF Work!Next, Work!SystemNext

LEMMA WorkPromises ==
    WorkProofs!Kept => Work!TypeOK /\ Work!NoLostUpdate /\ Work!AtMostOneActive
<1>1. WorkProofs!Kept =>
         WorkProofs!TypeOK /\ WorkProofs!NoLostUpdate /\ WorkProofs!AtMostOneActive
  BY WorkConstants, WorkProofs!KeptIsEnough
<1>2. WorkProofs!TypeOK => Work!TypeOK
  BY DEF Work!TypeOK, WorkProofs!TypeOK, Work!Template, WorkProofs!Template, Work!None,
         WorkProofs!None, Work!Registry!TypeOK, WorkProofs!Registry!TypeOK,
         Work!Range, WorkProofs!Range
<1>3. WorkProofs!NoLostUpdate => Work!NoLostUpdate
  BY DEF Work!NoLostUpdate, WorkProofs!NoLostUpdate, Work!Holds, WorkProofs!Holds,
         Work!Destined, WorkProofs!Destined, Work!SameWork, WorkProofs!SameWork,
         Work!id, WorkProofs!id, Work!None, WorkProofs!None
<1>4. WorkProofs!AtMostOneActive => Work!AtMostOneActive
  BY DEF Work!AtMostOneActive, WorkProofs!AtMostOneActive,
         Work!Registry!OneJobWhenAllClean, WorkProofs!Registry!OneJobWhenAllClean,
         Work!Registry!AllClean, WorkProofs!Registry!AllClean, Work!Range, WorkProofs!Range
<1>5. QED
  BY <1>1, <1>2, <1>3, <1>4

LEMMA JudgedConstants ==
    /\ Offers \in Seq(JudgedProofs!Offered) /\ Offers # << >>
    /\ \A t \in JudgedProofs!Template : Offers[t].template = t
    /\ Shares \subseteq JudgedProofs!Share /\ Assembled \subseteq JudgedProofs!Template
    /\ ACTIVE_JOBS_MAX \in Nat \ {0} /\ MAX_RECENT \in Nat \ {0} /\ MaxShares \in Nat
BY JobsAssumption, SharesAssumption, LimitsAssumption
DEF Offered, JudgedProofs!Offered, Judged!Template, JudgedProofs!Template, Judged!Share,
    JudgedProofs!Share, Judged!Verdict, JudgedProofs!Verdict

LEMMA JudgedInit == Judged!Init => JudgedProofs!Kept
<1>1. Judged!Init => JudgedProofs!Init
  BY DEF Judged!Init, JudgedProofs!Init, Judged!Registry!Init, JudgedProofs!Registry!Init,
         Judged!NoShare, JudgedProofs!NoShare, Judged!None, JudgedProofs!None,
         Judged!NoOutcome, JudgedProofs!NoOutcome
<1>2. QED
  BY <1>1, JudgedConstants, JudgedProofs!InitKept

LEMMA JudgedStep == JudgedProofs!Kept /\ [Judged!Next]_(Judged!vars) => JudgedProofs!Kept'
<1> SUFFICES ASSUME JudgedProofs!Kept, [Judged!Next]_(Judged!vars) PROVE JudgedProofs!Kept'
  OBVIOUS
<1> USE DEF Judged!registryVars, JudgedProofs!registryVars, Judged!handlerVars,
         JudgedProofs!handlerVars, Judged!goto, JudgedProofs!goto
<1>1. ASSUME NEW job
      PROVE  Judged!Registry!register(job) => JudgedProofs!Registry!register(job)
  BY DEF Judged!Registry!register, JudgedProofs!Registry!register,
         Judged!Registry!RegisterClean, JudgedProofs!Registry!RegisterClean,
         Judged!Registry!RegisterKnown, JudgedProofs!Registry!RegisterKnown,
         Judged!Registry!RegisterNew, JudgedProofs!Registry!RegisterNew,
         Judged!Registry!contains, JudgedProofs!Registry!contains,
         Judged!Registry!Installed, JudgedProofs!Registry!Installed,
         Judged!Registry!Surviving, JudgedProofs!Registry!Surviving,
         Judged!Registry!Evicted, JudgedProofs!Registry!Evicted, Judged!Registry!vars,
         JudgedProofs!Registry!vars, Judged!Registry!Range, JudgedProofs!Registry!Range
<1>2. CASE Judged!NewTemplate \/ Judged!Notified
  <2>1. JudgedProofs!NewTemplate \/ JudgedProofs!Notified
    BY <1>1, <1>2 DEF Judged!NewTemplate, JudgedProofs!NewTemplate, Judged!Notified,
         JudgedProofs!Notified
  <2>2. QED
    BY <2>1, JudgedConstants, JudgedProofs!StepKept DEF JudgedProofs!Next
<1>3. ASSUME NEW s \in Session, Judged!Submit(s) PROVE JudgedProofs!Kept'
  <2>1. ASSUME NEW sh PROVE Judged!judge(sh) = JudgedProofs!judge(sh)
    BY DEF Judged!judge, JudgedProofs!judge, Judged!Registry!contains,
         JudgedProofs!Registry!contains, Judged!Registry!get_job,
         JudgedProofs!Registry!get_job, Judged!Registry!NoJob, JudgedProofs!Registry!NoJob
  <2>2. Judged!Cardinality(Judged!InHand) = JudgedProofs!Cardinality(JudgedProofs!InHand)
    BY DEF Judged!InHand, JudgedProofs!InHand, Judged!Cardinality, JudgedProofs!Cardinality
  <2>3. \E sh \in Shares : /\ share' = [share EXCEPT ![s] = sh]
                            /\ result' = [result EXCEPT ![s] = JudgedProofs!judge(sh)]
    BY <1>3, <2>1 DEF Judged!Submit
  <2>4. JudgedProofs!Submit(s)
    BY <1>3, <2>2, <2>3 DEF Judged!Submit, JudgedProofs!Submit
  <2>5. QED
    BY <2>4, JudgedConstants, JudgedProofs!StepKept DEF JudgedProofs!Next
<1>4. ASSUME NEW s \in Session, Judged!Handle(s) PROVE JudgedProofs!Kept'
  <2>1. Judged!Record(s) \/ Judged!Reported(s) => JudgedProofs!Record(s) \/ JudgedProofs!Reported(s)
    BY DEF Judged!Record, JudgedProofs!Record, Judged!Reported, JudgedProofs!Reported,
           Judged!attempt, JudgedProofs!attempt, Judged!is_accepted,
           JudgedProofs!is_accepted
  <2>2. Judged!JobMissing(s) \/ Judged!JobFound(s) => JudgedProofs!JobMissing(s) \/ JudgedProofs!JobFound(s)
    BY DEF Judged!JobMissing, JudgedProofs!JobMissing, Judged!JobFound,
           JudgedProofs!JobFound, Judged!Registry!contains, JudgedProofs!Registry!contains,
           Judged!Registry!get_job, JudgedProofs!Registry!get_job
  <2>3. Judged!Answered(s) => JudgedProofs!Answered(s)
    BY DEF Judged!Answered, JudgedProofs!Answered, Judged!current_job,
           JudgedProofs!current_job, Judged!None, JudgedProofs!None,
           Judged!TemplateAnswers, JudgedProofs!TemplateAnswers, Judged!Disturbed,
           JudgedProofs!Disturbed, Judged!Own, JudgedProofs!Own, Judged!Unread,
           JudgedProofs!Unread, Judged!Response, JudgedProofs!Response, Judged!rpc_call,
           JudgedProofs!rpc_call, Judged!get_block_template,
           JudgedProofs!get_block_template, Judged!submit_block, JudgedProofs!submit_block,
           Judged!get_template_current, JudgedProofs!get_template_current, Judged!Ok,
           JudgedProofs!Ok, Judged!Err, JudgedProofs!Err
  <2>4. Judged!Stale(s) \/ Judged!Unbuildable(s) => JudgedProofs!Stale(s) \/ JudgedProofs!Unbuildable(s)
    BY DEF Judged!Stale, JudgedProofs!Stale, Judged!Unbuildable, JudgedProofs!Unbuildable,
           Judged!stale, JudgedProofs!stale, Judged!buildable, JudgedProofs!buildable,
           Judged!id, JudgedProofs!id, Judged!None, JudgedProofs!None, Judged!NotAsked,
           JudgedProofs!NotAsked
  <2>5. Judged!SubmitBlock(s) => JudgedProofs!SubmitBlock(s)
    BY DEF Judged!SubmitBlock, JudgedProofs!SubmitBlock, Judged!stale, JudgedProofs!stale,
           Judged!buildable, JudgedProofs!buildable, Judged!id, JudgedProofs!id,
           Judged!None, JudgedProofs!None, Judged!candidate, JudgedProofs!candidate,
           Judged!classified, JudgedProofs!classified, Judged!Verdicts,
           JudgedProofs!Verdicts, Judged!SubmitAnswers, JudgedProofs!SubmitAnswers,
           Judged!Disturbed, JudgedProofs!Disturbed, Judged!Own, JudgedProofs!Own,
           Judged!Unread, JudgedProofs!Unread, Judged!Response, JudgedProofs!Response,
           Judged!submit_block, JudgedProofs!submit_block, Judged!rpc_call,
           JudgedProofs!rpc_call, Judged!Ok, JudgedProofs!Ok, Judged!Err, JudgedProofs!Err
  <2>6. Judged!Reply(s) => JudgedProofs!Reply(s)
    BY DEF Judged!Reply, JudgedProofs!Reply, Judged!NoShare, JudgedProofs!NoShare,
           Judged!None, JudgedProofs!None, Judged!NoOutcome, JudgedProofs!NoOutcome
  <2>7. JudgedProofs!Handle(s)
    BY <1>4, <2>1, <2>2, <2>3, <2>4, <2>5, <2>6 DEF Judged!Handle, JudgedProofs!Handle
  <2>8. QED
    BY <2>7, JudgedConstants, JudgedProofs!StepKept DEF JudgedProofs!Next
<1>5. CASE UNCHANGED Judged!vars
  BY <1>5, JudgedConstants, JudgedProofs!StepKept DEF Judged!vars, JudgedProofs!vars
<1>6. QED
  BY <1>2, <1>3, <1>4, <1>5 DEF Judged!Next

LEMMA JudgedPromises ==
    JudgedProofs!Kept => /\ Judged!TypeOK /\ Judged!Accounted /\ Judged!SubmittedIsAccepted
                         /\ Judged!BlocksAreSolutions /\ Judged!NotStaleWhenFound
<1>1. JudgedProofs!Kept =>
         /\ JudgedProofs!TypeOK /\ JudgedProofs!Accounted /\ JudgedProofs!SubmittedIsAccepted
         /\ JudgedProofs!BlocksAreSolutions /\ JudgedProofs!NotStaleWhenFound
  BY JudgedConstants, JudgedProofs!KeptIsEnough
<1>2. JudgedProofs!TypeOK => Judged!TypeOK
  BY DEF Judged!TypeOK, JudgedProofs!TypeOK, Judged!Registry!TypeOK,
         JudgedProofs!Registry!TypeOK, Judged!Template, JudgedProofs!Template, Judged!None,
         JudgedProofs!None, Judged!Steps, JudgedProofs!Steps, Judged!Result,
         JudgedProofs!Result, Judged!Verdict, JudgedProofs!Verdict, Judged!NoShare,
         JudgedProofs!NoShare, Judged!Outcome, JudgedProofs!Outcome, Judged!NotAsked,
         JudgedProofs!NotAsked, Judged!NoOutcome, JudgedProofs!NoOutcome, Judged!Attempt,
         JudgedProofs!Attempt, Judged!Verdicts, JudgedProofs!Verdicts, Judged!Range,
         JudgedProofs!Range
<1>3. JudgedProofs!Accounted => Judged!Accounted
  BY DEF Judged!Accounted, JudgedProofs!Accounted, Judged!Newest, JudgedProofs!Newest,
         Judged!Past, JudgedProofs!Past, Judged!attempt, JudgedProofs!attempt,
         Judged!is_accepted, JudgedProofs!is_accepted, Judged!Range, JudgedProofs!Range
<1>4. JudgedProofs!SubmittedIsAccepted => Judged!SubmittedIsAccepted
  BY DEF Judged!SubmittedIsAccepted, JudgedProofs!SubmittedIsAccepted
<1>5. JudgedProofs!BlocksAreSolutions => Judged!BlocksAreSolutions
  BY DEF Judged!BlocksAreSolutions, JudgedProofs!BlocksAreSolutions, Judged!DistinctIds,
         JudgedProofs!DistinctIds, Judged!id, JudgedProofs!id, Judged!Template,
         JudgedProofs!Template
<1>6. JudgedProofs!NotStaleWhenFound => Judged!NotStaleWhenFound
  BY DEF Judged!NotStaleWhenFound, JudgedProofs!NotStaleWhenFound, Judged!DistinctIds,
         JudgedProofs!DistinctIds, Judged!id, JudgedProofs!id, Judged!Template,
         JudgedProofs!Template, Judged!None, JudgedProofs!None
<1>7. QED
  BY <1>1, <1>2, <1>3, <1>4, <1>5, <1>6

LEMMA InitOfPromises == Init => NotAhead /\ WorkProofs!Kept /\ JudgedProofs!Kept
BY InitNotAhead, InitOfParts, WorkInit, JudgedInit

LEMMA StepOfPromises ==
    NotAhead /\ WorkProofs!Kept /\ JudgedProofs!Kept /\ [Next]_vars
        => (NotAhead /\ WorkProofs!Kept /\ JudgedProofs!Kept)'
BY StepNotAhead, StepOfWork, StepOfJudged, WorkStep, JudgedStep

(***************************************************************************)
(* Every variable of the pool keeps to its type, those that two tasks      *)
(* share (the registry, the daemon's template) included.                   *)
(***************************************************************************)
THEOREM PoolTypeOK == Spec => []TypeOK
<1>1. WorkProofs!Kept /\ JudgedProofs!Kept => TypeOK
  BY WorkPromises, JudgedPromises DEF TypeOK
<1>2. QED
  BY <1>1, InitOfPromises, StepOfPromises, PTL DEF Spec

(***************************************************************************)
(* With job distribution and share handling at work on one registry, both  *)
(* keep what was proved of each: no update is lost to a session, one job   *)
(* is active at a time, every share is accounted for, and what is          *)
(* submitted is a block found on a template that was current.              *)
(***************************************************************************)
THEOREM PoolKeepsItsPartsPromises ==
    Spec => [](/\ Work!NoLostUpdate /\ Work!AtMostOneActive
               /\ Judged!Accounted /\ Judged!SubmittedIsAccepted
               /\ Judged!BlocksAreSolutions /\ Judged!NotStaleWhenFound)
<1>1. WorkProofs!Kept /\ JudgedProofs!Kept =>
         /\ Work!NoLostUpdate /\ Work!AtMostOneActive
         /\ Judged!Accounted /\ Judged!SubmittedIsAccepted
         /\ Judged!BlocksAreSolutions /\ Judged!NotStaleWhenFound
  BY WorkPromises, JudgedPromises
<1>2. QED
  BY <1>1, InitOfPromises, StepOfPromises, PTL DEF Spec

-----------------------------------------------------------------------------
(* A miner's own work. *)

\* The registry files what was offered, under its own id.
Filed == \A i \in DOMAIN by_id : by_id[i] \in Range(Offers) /\ by_id[i].job_id = i

OnFile(t) == Offers[t].job_id \in DOMAIN by_id /\ by_id[Offers[t].job_id] = Offers[t]

Held(s) == notified[s] # None /\ ~disturbed[s]

(***************************************************************************)
(* A session without a share may be anywhere; with one, it is nowhere else *)
(* until it has replied.  Once it has registered its work the registry     *)
(* knows it, and from the judgement to the reply nothing of that changes   *)
(* but the daemon's template, which only becomes newer.                    *)
(***************************************************************************)
InHand(s) == handling[s] # "idle" => task[s] = "ready"

Known(s) == Held(s) /\ task[s] # "registering" => OnFile(notified[s])

JudgedOnIt(s) ==
    OnOwnWork(s) /\ share[s].context_ok => result[s] = share[s].verdict[notified[s]]

Solving(s) == OnOwnWork(s) /\ handling[s] \in {"asking", "guarding"} => solved[s] = notified[s]

Guarding(s) ==
    OnOwnWork(s) /\ handling[s] = "guarding" /\ answer[s] # None
        => answer[s] \in Past /\ notified[s] =< answer[s]

Submitted(s) == \E c \in candidates : c.share = share[s]

Concluded(s) ==
    OnOwnWork(s) /\ handling[s] = "replying" /\ result[s] = "Block" =>
        \/ Submitted(s)
        \/ notified[s] < tip
        \/ ~(notified[s] \in Assembled /\ share[s].subscribed)

SessionOK(s) ==
    InHand(s) /\ Known(s) /\ JudgedOnIt(s) /\ Solving(s) /\ Guarding(s) /\ Concluded(s)

HandTypes ==
    /\ DOMAIN handling = Session /\ DOMAIN share = Session /\ DOMAIN result = Session
    /\ DOMAIN solved = Session /\ DOMAIN answer = Session
    /\ disturbed \in [Session -> BOOLEAN]

Distinct == \A t, u \in 1 .. Len(Offers) : Offers[t].job_id = Offers[u].job_id => t = u

HInv == NotAhead /\ HandTypes /\ Filed /\ \A s \in Session : SessionOK(s)

-----------------------------------------------------------------------------
\* A registration leaves the registered job known.
LEMMA Registration ==
    ASSUME Distinct, Filed, NEW t \in 1 .. Len(Offers),
           Work!Registry!register(Offers[t])
    PROVE  Filed' /\ OnFile(t)'
<1> DEFINE job == Offers[t]
<1>1. job \in Range(Offers)
  BY JobsAssumption, LenProperties DEF Range
<1>2. ASSUME NEW ids \in SUBSET DOMAIN by_id,
             by_id' = Work!Registry!Installed(ids, job)
      PROVE  Filed' /\ OnFile(t)'
  BY <1>1, <1>2 DEF Filed, OnFile, Work!Registry!Installed
<1>3. CASE Work!Registry!RegisterClean(job)
  BY <1>2, <1>3 DEF Work!Registry!RegisterClean
<1>4. CASE Work!Registry!RegisterNew(job)
  BY <1>2, <1>4 DEF Work!Registry!RegisterNew
<1>5. CASE Work!Registry!RegisterKnown(job)
  <2>1. job.job_id \in DOMAIN by_id /\ by_id' = by_id
    BY <1>5 DEF Work!Registry!RegisterKnown, Work!Registry!contains, Work!Registry!vars
  <2>2. PICK u \in 1 .. Len(Offers) : by_id[job.job_id] = Offers[u]
    BY <2>1, JobsAssumption, LenProperties DEF Filed, Range
  <2>3. u = t
    BY <2>1, <2>2 DEF Filed, Distinct
  <2>4. QED
    BY <2>1, <2>2, <2>3 DEF Filed, OnFile
<1>6. QED
  BY <1>3, <1>4, <1>5 DEF Work!Registry!register

\* A session whose own task does not step.
LEMMA Elsewhere ==
    ASSUME NotAhead, NotAhead', NEW s \in Session, SessionOK(s),
           task'[s] = task[s], notified'[s] = notified[s], handling'[s] = handling[s],
           share'[s] = share[s], result'[s] = result[s], solved'[s] = solved[s],
           answer'[s] = answer[s],
           tip' >= tip, candidates \subseteq candidates',
           Held(s)' => Held(s),
           Held(s) /\ OnFile(notified[s]) => OnFile(notified[s])' \/ ~Held(s)'
    PROVE  SessionOK(s)'
<1>1. OnOwnWork(s)' => OnOwnWork(s)
  BY DEF OnOwnWork, Held, Work!None, None, Work!id
<1>2. InHand(s)' /\ Known(s)'
  BY DEF SessionOK, InHand, Known, Held
<1>3. JudgedOnIt(s)' /\ Solving(s)'
  BY <1>1 DEF SessionOK, JudgedOnIt, Solving
<1>4. Guarding(s)'
  BY <1>1 DEF SessionOK, Guarding, NotAhead, Past
<1>5. Concluded(s)'
  <2>1. SUFFICES ASSUME OnOwnWork(s)', handling'[s] = "replying", result'[s] = "Block",
                        ~Submitted(s)'
                 PROVE  notified'[s] < tip' \/ ~(notified'[s] \in Assembled /\ share'[s].subscribed)
    BY DEF Concluded
  <2>2. ~Submitted(s)
    BY <2>1 DEF Submitted
  <2>3. notified[s] < tip \/ ~(notified[s] \in Assembled /\ share[s].subscribed)
    BY <1>1, <2>1, <2>2 DEF SessionOK, Concluded
  <2>4. notified[s] \in Int /\ tip \in Int /\ tip' \in Int
    BY DEF NotAhead, Past, None
  <2>5. QED
    BY <2>3, <2>4
<1>6. QED
  BY <1>2, <1>3, <1>4, <1>5 DEF SessionOK

\* A step that touches neither sessions nor the registry.
LEMMA QuietStep ==
    ASSUME HInv, NotAhead', tip' >= tip,
           UNCHANGED << by_id, task, notified, shareVars, disturbed >>
    PROVE  HInv'
<1>1. HandTypes' /\ Filed'
  BY DEF HInv, HandTypes, Filed, shareVars
<1>2. ASSUME NEW s \in Session PROVE SessionOK(s)'
  BY Elsewhere DEF HInv, shareVars, Held, OnFile
<1>3. QED
  BY <1>1, <1>2 DEF HInv

\* A session without a share whose task steps.
LEMMA TaskStepOK ==
    ASSUME HInv, NotAhead', NEW s \in Session,
           \/ Connect(s) \/ Close(s) \/ Authorize(s) \/ Authorized(s) \/ Receive(s),
           UNCHANGED disturbed
    PROVE  HInv'
<1>1. UNCHANGED << tip, by_id, shareVars >>
  BY DEF Connect, Close, Authorize, Authorized, Receive, Work!Connect, Work!Close,
         Work!Authorize, Work!Authorized, Work!Receive, Work!Lagged, Work!Discard,
         Work!Push, Work!registryVars
<1>2. \A r \in Session \ {s} : task'[r] = task[r] /\ notified'[r] = notified[r]
  BY DEF Connect, Close, Authorize, Authorized, Receive, Work!Connect, Work!Close,
         Work!Authorize, Work!Authorized, Work!Receive, Work!Lagged, Work!Discard,
         Work!Push, Work!sessionVars, HInv, NotAhead
<1>3. handling[s] = "idle"
  BY DEF Connect, Close, Authorize, Authorized, Receive, free, Work!Connect,
         Work!Authorized, HInv, SessionOK, InHand
<1>4. \/ notified'[s] = None
      \/ task'[s] = "registering"
      \/ notified'[s] = notified[s] /\ task[s] # "registering"
  BY DEF Connect, Close, Authorize, Authorized, Receive, Work!Connect, Work!Close,
         Work!Authorize, Work!Authorized, Work!Receive, Work!Lagged, Work!Discard,
         Work!Push, Work!receiving, Work!sessionVars, HInv, NotAhead, None, Work!None
<1>5. SessionOK(s)'
  <2>1. handling'[s] = "idle"
    BY <1>1, <1>3 DEF shareVars
  <2>2. Known(s)'
    BY <1>1, <1>4 DEF Known, Held, OnFile, HInv, SessionOK
  <2>3. QED
    BY <2>1, <2>2 DEF SessionOK, InHand, JudgedOnIt, Solving, Guarding, Concluded, OnOwnWork
<1>6. ASSUME NEW r \in Session, r # s PROVE SessionOK(r)'
  <2>1. tip' >= tip
    BY <1>1 DEF HInv, NotAhead
  <2>2. QED
    BY <1>1, <1>2, <1>6, <2>1, Elsewhere DEF HInv, shareVars, Held, OnFile
<1>7. HandTypes' /\ Filed'
  BY <1>1 DEF HInv, HandTypes, Filed, shareVars
<1>8. QED
  BY <1>5, <1>6, <1>7 DEF HInv

LEMMA RegisterStep ==
    ASSUME Distinct, HInv, NotAhead', NEW s \in Session, HRegister(s)
    PROVE  HInv'
<1>1. /\ task[s] = "registering" /\ task' = [task EXCEPT ![s] = "ready"]
      /\ UNCHANGED << tip, notified, shareVars >>
      /\ disturbed' = [r \in Session |-> r # s /\ (disturbed[r] \/ notified[r] # notified[s])]
  BY DEF HRegister, Register, Work!Register
<1>2. notified[s] \in 1 .. Len(Offers) /\ tip' >= tip
  BY <1>1 DEF HInv, NotAhead, Past, None
<1>3. Filed' /\ OnFile(notified[s])'
  BY <1>1, <1>2, Registration DEF HRegister, Register, Work!Register, HInv, OnFile
<1>4. handling'[s] = "idle" /\ task'[s] = "ready"
  BY <1>1 DEF HInv, SessionOK, InHand, shareVars, NotAhead
<1>5. SessionOK(s)'
  BY <1>3, <1>4
  DEF SessionOK, InHand, Known, OnFile, JudgedOnIt, Solving, Guarding, Concluded, OnOwnWork
<1>6. ASSUME NEW r \in Session, r # s PROVE SessionOK(r)'
  <2>1. task'[r] = task[r]
    BY <1>1, <1>6 DEF HInv, NotAhead
  <2>2. Held(r)' => Held(r) /\ notified[r] = notified[s]
    BY <1>1, <1>6 DEF Held, HInv, HandTypes
  <2>3. Held(r)' => OnFile(notified[r])'
    BY <1>1, <1>3, <2>2 DEF OnFile
  <2>4. QED
    BY <1>1, <1>2, <2>1, <2>2, <2>3, Elsewhere DEF HInv, shareVars
<1>7. HandTypes'
  BY <1>1 DEF HInv, HandTypes, shareVars
<1>8. QED
  BY <1>3, <1>5, <1>6, <1>7 DEF HInv

\* What a session finds under the id of its own work.
LEMMA OwnLookup ==
    ASSUME HInv, NEW s \in Session, Held(s), task[s] # "registering"
    PROVE  /\ Judged!Registry!contains(Judged!id(notified[s]))
           /\ Judged!Registry!get_job(Judged!id(notified[s])).template = notified[s]
<1>1. notified[s] \in 1 .. Len(Offers) /\ OnFile(notified[s])
  BY Templates DEF HInv, SessionOK, Known, Held, NotAhead, Past, None
<1>2. Offers[notified[s]].template = notified[s]
  BY <1>1, JobsAssumption
<1>3. QED
  BY <1>1, <1>2
  DEF OnFile, Judged!id, Judged!Registry!contains, Judged!Registry!get_job

\* A session that takes a share, or a step of its handler.
LEMMA ShareStep ==
    ASSUME HInv, NotAhead', NEW s \in Session,
           UNCHANGED << tip, by_id, task, notified, disturbed >>,
           candidates \subseteq candidates',
           HandTypes',
           \A r \in Session \ {s} :
              /\ handling'[r] = handling[r] /\ share'[r] = share[r] /\ result'[r] = result[r]
              /\ solved'[r] = solved[r] /\ answer'[r] = answer[r],
           InHand(s)', JudgedOnIt(s)', Solving(s)', Guarding(s)', Concluded(s)'
    PROVE  HInv'
<1>1. Filed'
  BY DEF HInv, Filed
<1>2. SessionOK(s)'
  BY DEF HInv, SessionOK, Known, Held, OnFile
<1>3. ASSUME NEW r \in Session, r # s PROVE SessionOK(r)'
  <2>1. tip' >= tip
    BY DEF HInv, NotAhead
  <2>2. QED
    BY <1>3, <2>1, Elsewhere DEF HInv, Held, OnFile
<1>4. QED
  BY <1>1, <1>2, <1>3 DEF HInv

LEMMA SubmitStep ==
    ASSUME HInv, NotAhead', NEW s \in Session, Submit(s), UNCHANGED disturbed
    PROVE  HInv'
<1>1. /\ task[s] = "ready" /\ handling' = [handling EXCEPT ![s] = "judged"]
      /\ UNCHANGED << tip, by_id, task, notified, solved, answer, candidates >>
  BY DEF Submit, Judged!Submit, Judged!goto, Judged!registryVars, workVars
<1>2. PICK sh \in Shares : /\ share' = [share EXCEPT ![s] = sh]
                           /\ result' = [result EXCEPT ![s] = Judged!judge(sh)]
  BY DEF Submit, Judged!Submit
<1>3. /\ handling'[s] = "judged" /\ share'[s] = sh /\ result'[s] = Judged!judge(sh)
      /\ HandTypes'
  BY <1>1, <1>2 DEF HInv, HandTypes
<1>4. JudgedOnIt(s)'
  <2>1. SUFFICES ASSUME OnOwnWork(s)', sh.context_ok
                 PROVE  result'[s] = sh.verdict[notified[s]]
    BY <1>1, <1>3 DEF JudgedOnIt
  <2>2. Held(s) /\ sh.job_id = Judged!id(notified[s])
    BY <1>1, <1>3, <2>1 DEF OnOwnWork, Held, None, Work!None, Work!id, Judged!id
  <2>3. QED
    BY <1>1, <1>3, <2>1, <2>2, OwnLookup DEF Judged!judge
<1>5. InHand(s)' /\ Solving(s)' /\ Guarding(s)' /\ Concluded(s)'
  BY <1>1, <1>3 DEF InHand, Solving, Guarding, Concluded
<1>6. \A r \in Session \ {s} :
         /\ handling'[r] = handling[r] /\ share'[r] = share[r] /\ result'[r] = result[r]
         /\ solved'[r] = solved[r] /\ answer'[r] = answer[r]
  BY <1>1, <1>2 DEF HInv, HandTypes
<1>7. QED
  BY <1>1, <1>3, <1>4, <1>5, <1>6, ShareStep

\* Of a step of the handler that is not the reply.
LEMMA HandlerStep ==
    ASSUME HInv, NotAhead', NEW s \in Session,
           UNCHANGED << disturbed, workVars, tip, by_id, share, result >>,
           candidates \subseteq candidates',
           HandTypes', handling[s] # "idle", handling'[s] # "idle",
           \A r \in Session \ {s} :
              handling'[r] = handling[r] /\ solved'[r] = solved[r] /\ answer'[r] = answer[r],
           OnOwnWork(s) /\ handling'[s] \in {"asking", "guarding"} => solved'[s] = notified[s],
           OnOwnWork(s) /\ handling'[s] = "guarding" /\ answer'[s] # None =>
              answer'[s] \in Past /\ notified[s] =< answer'[s],
           OnOwnWork(s) /\ handling'[s] = "replying" /\ result[s] = "Block" =>
              \/ Submitted(s)'
              \/ notified[s] < tip
              \/ ~(notified[s] \in Assembled /\ share[s].subscribed)
    PROVE  HInv'
<1>1. task' = task /\ notified' = notified
  BY DEF workVars
<1>2. OnOwnWork(s)' <=> OnOwnWork(s)
  BY <1>1 DEF OnOwnWork
<1>3. InHand(s)' /\ JudgedOnIt(s)' /\ Solving(s)' /\ Guarding(s)' /\ Concluded(s)'
  BY <1>1, <1>2
  DEF HInv, SessionOK, InHand, JudgedOnIt, Solving, Guarding, Concluded, Past
<1>4. QED
  BY <1>1, <1>3, ShareStep

LEMMA HandleStep ==
    ASSUME Distinct, HInv, NotAhead', NEW s \in Session, Handle(s), UNCHANGED disturbed
    PROVE  HInv'
<1>1. /\ UNCHANGED << disturbed, workVars, tip, by_id >>
      /\ candidates \subseteq candidates'
  BY DEF Handle, Judged!Handle, Judged!Record, Judged!Reported, Judged!JobMissing,
         Judged!JobFound, Judged!Answered, Judged!Stale, Judged!Unbuildable,
         Judged!SubmitBlock, Judged!Reply, Judged!registryVars
<1>2. /\ HandTypes'
      /\ \A r \in Session \ {s} :
            /\ handling'[r] = handling[r] /\ share'[r] = share[r] /\ result'[r] = result[r]
            /\ solved'[r] = solved[r] /\ answer'[r] = answer[r]
  BY DEF Handle, Judged!Handle, Judged!Record, Judged!Reported, Judged!JobMissing,
         Judged!JobFound, Judged!Answered, Judged!Stale, Judged!Unbuildable,
         Judged!SubmitBlock, Judged!Reply, Judged!goto, HInv, HandTypes
<1>3. OnOwnWork(s) => /\ Held(s) /\ task[s] # "registering"
                      /\ share[s].job_id = Judged!id(notified[s])
                      /\ notified[s] \in Past
  BY DEF OnOwnWork, Held, None, Work!None, Work!id, Judged!id, HInv, SessionOK, InHand,
         NotAhead
<1>4. CASE Judged!Record(s) \/ Judged!Reported(s)
  <2>1. /\ handling[s] # "idle" /\ handling'[s] \in {"recorded", "candidate", "replying"}
        /\ handling'[s] = "replying" => result[s] # "Block"
        /\ UNCHANGED << share, result, solved, answer >>
    BY <1>4 DEF Judged!Record, Judged!Reported, Judged!goto, HInv, HandTypes
  <2>2. QED
    BY <1>1, <1>2, <2>1, HandlerStep
<1>5. CASE Judged!JobMissing(s)
  <2>1. ~OnOwnWork(s)
    BY <1>3, <1>5, OwnLookup DEF Judged!JobMissing
  <2>2. /\ handling[s] # "idle" /\ handling'[s] = "replying"
        /\ UNCHANGED << share, result, solved, answer >>
    BY <1>5 DEF Judged!JobMissing, Judged!goto, HInv, HandTypes
  <2>3. QED
    BY <1>1, <1>2, <2>1, <2>2, HandlerStep
<1>6. CASE Judged!JobFound(s)
  <2>1. /\ handling[s] # "idle" /\ handling'[s] = "asking"
        /\ solved'[s] = Judged!Registry!get_job(share[s].job_id).template
        /\ UNCHANGED << share, result, answer >>
    BY <1>6 DEF Judged!JobFound, Judged!goto, HInv, HandTypes
  <2>2. OnOwnWork(s) => solved'[s] = notified[s]
    BY <1>3, <2>1, OwnLookup
  <2>3. QED
    BY <1>1, <1>2, <2>1, <2>2, HandlerStep
<1>7. CASE Judged!Answered(s)
  <2>1. /\ handling[s] = "asking" /\ handling'[s] = "guarding"
        /\ UNCHANGED << share, result, solved >>
    BY <1>7 DEF Judged!Answered, Judged!goto, HInv, HandTypes
  <2>2. answer'[s] \in {tip, None}
    BY <1>7 DEF Judged!Answered, Judged!current_job, Judged!None, None, HInv, HandTypes
  <2>3. tip \in Past
    BY DEF HInv, NotAhead, Past
  <2>4. OnOwnWork(s) => notified[s] =< tip /\ solved[s] = notified[s]
    BY <1>3, <2>1 DEF HInv, SessionOK, Solving, Past
  <2>5. QED
    BY <1>1, <1>2, <2>1, <2>2, <2>3, <2>4, HandlerStep
<1>8. CASE Judged!Stale(s)
  <2>1. /\ handling[s] = "guarding" /\ handling'[s] = "replying"
        /\ UNCHANGED << share, result, solved, answer >>
    BY <1>8 DEF Judged!Stale, Judged!goto, HInv, HandTypes
  <2>2. ASSUME OnOwnWork(s) PROVE notified[s] < tip
    <3>1. answer[s] # None /\ Judged!id(answer[s]) # Judged!id(solved[s])
      BY <1>8 DEF Judged!Stale, Judged!stale, Judged!None, None
    <3>2. solved[s] = notified[s] /\ answer[s] \in Past /\ notified[s] =< answer[s]
      BY <2>1, <2>2, <3>1 DEF HInv, SessionOK, Solving, Guarding
    <3>3. QED
      BY <1>3, <2>2, <3>1, <3>2 DEF HInv, NotAhead, Past
  <2>3. QED
    BY <1>1, <1>2, <2>1, <2>2, HandlerStep
<1>9. CASE Judged!Unbuildable(s)
  <2>1. /\ handling[s] = "guarding" /\ handling'[s] = "replying"
        /\ UNCHANGED << share, result, solved, answer >>
    BY <1>9 DEF Judged!Unbuildable, Judged!goto, HInv, HandTypes
  <2>2. OnOwnWork(s) => ~(notified[s] \in Assembled /\ share[s].subscribed)
    BY <1>9, <2>1 DEF Judged!Unbuildable, Judged!buildable, HInv, SessionOK, Solving
  <2>3. QED
    BY <1>1, <1>2, <2>1, <2>2, HandlerStep
<1>10. CASE Judged!SubmitBlock(s)
  <2>1. /\ handling[s] = "guarding" /\ handling'[s] = "replying"
        /\ UNCHANGED << share, result, solved, answer >>
        /\ candidates' = candidates \cup {Judged!candidate(s)}
    BY <1>10 DEF Judged!SubmitBlock, Judged!goto, HInv, HandTypes
  <2>2. Judged!candidate(s).share = share[s]
    BY DEF Judged!candidate
  <2>3. Submitted(s)'
    BY <2>1, <2>2 DEF Submitted
  <2>4. QED
    BY <1>1, <1>2, <2>1, <2>3, HandlerStep
<1>11. CASE Judged!Reply(s)
  <2>1. handling'[s] = "idle" /\ UNCHANGED << task, notified >>
    BY <1>1, <1>11 DEF Judged!Reply, Judged!goto, HInv, HandTypes, workVars
  <2>2. InHand(s)' /\ JudgedOnIt(s)' /\ Solving(s)' /\ Guarding(s)' /\ Concluded(s)'
    BY <2>1 DEF InHand, JudgedOnIt, Solving, Guarding, Concluded, OnOwnWork
  <2>3. QED
    BY <1>1, <1>2, <2>1, <2>2, ShareStep
<1>12. QED
  BY <1>4, <1>5, <1>6, <1>7, <1>8, <1>9, <1>10, <1>11 DEF Handle, Judged!Handle

LEMMA StepHInv == Distinct /\ HInv /\ [HNext]_hvars => HInv'
<1> SUFFICES ASSUME Distinct, HInv, [HNext]_hvars PROVE HInv'
  OBVIOUS
<1>1. NotAhead'
  BY StepNotAhead DEF HInv, HNext, HRegister, Next, hvars
<1>2. ASSUME NEW s \in Session, HRegister(s) PROVE HInv'
  BY <1>1, <1>2, RegisterStep
<1>3. ASSUME Daemon \/ Answered \/ Compared, UNCHANGED disturbed PROVE HInv'
  <2>1. UNCHANGED << by_id, task, notified, shareVars >>
    BY <1>3
    DEF Daemon, Answered, Compared, Work!NewTemplate, Work!Poll, Work!Unchanged,
        Work!Broadcast, Work!sessionVars, Work!registryVars
  <2>2. tip' >= tip
    BY <1>3
    DEF Daemon, Answered, Compared, Work!NewTemplate, Work!Poll, Work!Unchanged,
        Work!Broadcast, HInv, NotAhead
  <2>3. QED
    BY <1>1, <1>3, <2>1, <2>2, QuietStep
<1>4. ASSUME NEW s \in Session, UNCHANGED disturbed,
             \/ Connect(s) \/ Close(s) \/ Authorize(s) \/ Authorized(s) \/ Receive(s)
      PROVE  HInv'
  BY <1>1, <1>4, TaskStepOK
<1>5. ASSUME NEW s \in Session, UNCHANGED disturbed, Submit(s) \/ Handle(s) PROVE HInv'
  BY <1>1, <1>5, SubmitStep, HandleStep
<1>6. CASE UNCHANGED hvars
  BY <1>1, <1>6, QuietStep DEF hvars, vars, sharedVars, workVars, HInv, NotAhead
<1>7. QED
  BY <1>2, <1>3, <1>4, <1>5, <1>6 DEF HNext, OtherNext

LEMMA InitHInv == HInit => HInv
<1> SUFFICES ASSUME HInit PROVE HInv
  OBVIOUS
<1>1. NotAhead
  BY InitNotAhead DEF HInit
<1>2. HandTypes /\ Filed
  BY DEF HInit, Init, Judged!Init, Judged!Registry!Init, HandTypes, Filed
<1>3. ASSUME NEW s \in Session PROVE SessionOK(s)
  BY <1>3
  DEF HInit, Init, Work!Init, Judged!Init, SessionOK, InHand, Known, Held, JudgedOnIt,
      Solving, Guarding, Concluded, OnOwnWork, None, Work!None
<1>4. QED
  BY <1>1, <1>2, <1>3 DEF HInv

LEMMA SameIds == Judged!DistinctIds <=> Distinct
BY DEF Judged!DistinctIds, Judged!Template, Judged!id, Distinct

(***************************************************************************)
(* With unique ids, a share for the work its miner was last notified of is *)
(* judged on that work unless another session has since registered         *)
(* something else: for any number of miners, templates and broadcasts.     *)
(***************************************************************************)
THEOREM PoolOwnWorkIsKnown == HSpec => []OwnWorkIsKnown
<1>1. HInv => OwnWorkIsKnown
  BY DEF HInv, SessionOK, JudgedOnIt, OwnWorkIsKnown
<1>2. CASE Distinct
  <2>1. Distinct /\ HInv /\ [HNext]_hvars => HInv'
    BY StepHInv
  <2>2. HInv /\ [HNext]_hvars => HInv'
    BY <1>2, <2>1
  <2>3. QED
    BY <1>1, <2>2, InitHInv, PTL DEF HSpec
<1>3. CASE ~Distinct
  <2>1. OwnWorkIsKnown
    BY <1>3, SameIds DEF OwnWorkIsKnown
  <2>2. QED
    BY <2>1, PTL
<1>4. QED
  BY <1>2, <1>3

(***************************************************************************)
(* And a block found on it has been handed to the daemon when the miner is *)
(* answered, if the daemon's template still is the one it solves.          *)
(***************************************************************************)
THEOREM PoolOwnBlocksAreSubmitted == HSpec => []OwnBlocksAreSubmitted
<1>1. Distinct /\ HInv => OwnBlocksAreSubmitted
  <2>1. SUFFICES ASSUME Distinct, HInv, NEW s \in Session,
                        OnOwnWork(s), handling[s] = "replying", result[s] = "Block",
                        Judged!id(tip) = share[s].job_id, tip \in Assembled, share[s].subscribed
                 PROVE  Submitted(s)
    BY DEF OwnBlocksAreSubmitted, Submitted
  <2>2. /\ tip \in 1 .. Len(Offers) /\ notified[s] \in 1 .. Len(Offers)
        /\ Offers[notified[s]].job_id = Offers[tip].job_id
    BY <2>1, Templates
    DEF OnOwnWork, Work!None, None, Work!id, Judged!id, HInv, NotAhead, Past
  <2>3. notified[s] = tip
    BY <2>1, <2>2 DEF Distinct
  <2>4. ~(notified[s] < tip)
    BY <2>2, <2>3
  <2>5. QED
    BY <2>1, <2>3, <2>4 DEF HInv, SessionOK, Concluded
<1>2. CASE Distinct
  <2>1. Distinct /\ HInv /\ [HNext]_hvars => HInv'
    BY StepHInv
  <2>2. HInv /\ [HNext]_hvars => HInv'
    BY <1>2, <2>1
  <2>3. HInv => OwnBlocksAreSubmitted
    BY <1>1, <1>2
  <2>4. QED
    BY <2>2, <2>3, InitHInv, PTL DEF HSpec
<1>3. CASE ~Distinct
  <2>1. OwnBlocksAreSubmitted
    BY <1>3, SameIds DEF OwnBlocksAreSubmitted
  <2>2. QED
    BY <2>1, PTL
<1>4. QED
  BY <1>2, <1>3
=============================================================================
