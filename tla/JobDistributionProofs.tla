------------------------ MODULE JobDistributionProofs -------------------------
(***************************************************************************)
(* No update of work is lost, for any number of sessions, any sequence of  *)
(* templates and any capacity of the channel.                              *)
(***************************************************************************)
EXTENDS JobDistribution, SequenceTheorems, TLAPS

RegistryProofs == INSTANCE ActiveJobRegistryProofs WITH Jobs <- Range(Offers)

(***************************************************************************)
(* NoLostUpdate is not inductive: it needs to know where a session's next  *)
(* work comes from.  Its queue ends with the last broadcast; a session     *)
(* without a subscription has nothing; work was given to an authorized     *)
(* session only; and an answer on its way to an authorize is no older than *)
(* the last broadcast unless a newer broadcast waits behind it.            *)
(***************************************************************************)
PolledByNow == polled =< tip /\ poll_answer =< tip

QueueOK(s) ==
    /\ queue[s] # << >> => queue[s][Len(queue[s])] = polled
    /\ pc[s] = "closed" => queue[s] = << >> /\ notified[s] = None

AnswerOK(s) ==
    pc[s] = "authorizing" /\ answer[s] # None /\ queue[s] = << >> => answer[s] >= polled

WorkOK(s) ==
    /\ Holds(s) => authorized[s]
    /\ pc[s] = "registering" => Holds(s)
    /\ Holds(s) /\ queue[s] = << >> => notified[s] >= polled \/ SameWork(notified[s], polled)

Types ==
    /\ tip \in Template
    /\ polled \in Template \cup {None}
    /\ poll_answer \in Template \cup {None}
    /\ pc \in [Session -> {"closed", "ready", "authorizing", "registering"}]
    /\ authorized \in [Session -> BOOLEAN]
    /\ notified \in [Session -> Template \cup {None}]
    /\ answer \in [Session -> Template \cup {None}]
    /\ queue \in [Session -> Seq(Template)]
    /\ lagged \in [Session -> BOOLEAN]

Bounded == \A s \in Session : Len(queue[s]) =< CAPACITY

IInv ==
    /\ Types
    /\ Bounded
    /\ PolledByNow
    /\ \A s \in Session : QueueOK(s) /\ AnswerOK(s) /\ WorkOK(s)

-----------------------------------------------------------------------------
\* What every step of a session uses of the templates.
LEMMA Templates ==
    /\ Len(Offers) \in Nat
    /\ \A t \in Template : t \in Nat /\ t # None
    /\ \A t \in Template : Offers[t] \in Range(Offers)
BY OffersAssumption, LenProperties DEF Template, None, Range

\* What is left of a queue after its head is taken, and added to by send.
LEMMA AfterHead ==
    ASSUME NEW q \in Seq(Template), q # << >>
    PROVE  /\ Head(q) \in Template
           /\ Tail(q) \in Seq(Template)
           /\ Len(Tail(q)) = Len(q) - 1
           /\ Len(q) \in Nat \ {0}
           /\ Tail(q) # << >> => Tail(q)[Len(Tail(q))] = q[Len(q)]
           /\ Tail(q) = << >> => q[Len(q)] = Head(q)
<1>1. /\ Head(q) \in Template
      /\ Tail(q) \in Seq(Template)
      /\ Len(Tail(q)) = Len(q) - 1
      /\ \A i \in 1 .. Len(Tail(q)) : Tail(q)[i] = q[i + 1]
  BY HeadTailProperties
<1>2. Len(q) \in Nat \ {0}
  BY EmptySeq
<1>3. ASSUME Tail(q) # << >> PROVE Tail(q)[Len(Tail(q))] = q[Len(q)]
  <2>1. Len(Tail(q)) \in 1 .. Len(Tail(q))
    BY <1>1, <1>3, EmptySeq
  <2>2. QED
    BY <1>1, <1>2, <2>1
<1>4. ASSUME Tail(q) = << >> PROVE q[Len(q)] = Head(q)
  <2>1. Len(q) = 1
    BY <1>1, <1>2, <1>4, EmptySeq
  <2>2. QED
    BY <2>1
<1>5. QED
  BY <1>1, <1>2, <1>3, <1>4

LEMMA AfterSend ==
    ASSUME NEW q \in Seq(Template), NEW t \in Template
    PROVE  /\ Append(q, t) \in Seq(Template)
           /\ Append(q, t) # << >>
           /\ Len(Append(q, t)) = Len(q) + 1
           /\ Append(q, t)[Len(Append(q, t))] = t
BY AppendProperties, LenProperties

LEMMA InitIInv == Init => IInv
<1> SUFFICES ASSUME Init PROVE IInv
  OBVIOUS
<1>1. /\ tip = 1 /\ polled = None /\ poll_answer = None
      /\ pc = [s \in Session |-> "closed"]
      /\ authorized = [s \in Session |-> FALSE]
      /\ notified = [s \in Session |-> None]
      /\ answer = [s \in Session |-> None]
      /\ queue = [s \in Session |-> << >>]
      /\ lagged = [s \in Session |-> FALSE]
  BY DEF Init
<1>2. Types
  BY <1>1, EmptySeq, OffersAssumption DEF Types, Template
<1>3. Bounded
  BY <1>1, EmptySeq, CapacityAssumption DEF Bounded
<1>4. PolledByNow
  BY <1>1 DEF PolledByNow, None
<1>5. \A s \in Session : QueueOK(s) /\ AnswerOK(s) /\ WorkOK(s)
  BY <1>1 DEF QueueOK, AnswerOK, WorkOK, Holds
<1>6. QED
  BY <1>2, <1>3, <1>4, <1>5 DEF IInv

\* The conjuncts of IInv that concern session s read nothing of another's.
LEMMA Elsewhere ==
    ASSUME NEW s \in Session, QueueOK(s), AnswerOK(s), WorkOK(s),
           polled' = polled,
           pc'[s] = pc[s], authorized'[s] = authorized[s], notified'[s] = notified[s],
           answer'[s] = answer[s], queue'[s] = queue[s]
    PROVE  QueueOK(s)' /\ AnswerOK(s)' /\ WorkOK(s)'
BY DEF QueueOK, AnswerOK, WorkOK, Holds, SameWork, id

LEMMA ChainStep == IInv /\ NewTemplate => IInv'
<1> SUFFICES ASSUME IInv, NewTemplate PROVE IInv'
  OBVIOUS
<1>1. /\ tip < Len(Offers) /\ tip' = tip + 1
      /\ UNCHANGED << polled, poll_answer, pc, authorized, notified, answer, queue, lagged >>
  BY DEF NewTemplate, pollVars, sessionVars, channelVars
<1>2. Types' /\ Bounded'
  BY <1>1, Templates DEF IInv, Types, Bounded, Template
<1>3. PolledByNow'
  BY <1>1, Templates DEF IInv, PolledByNow, Types, Template, None
<1>4. \A s \in Session : QueueOK(s)' /\ AnswerOK(s)' /\ WorkOK(s)'
  BY <1>1, Elsewhere DEF IInv
<1>5. QED
  BY <1>2, <1>3, <1>4 DEF IInv

LEMMA PollStep == IInv /\ (Poll \/ Unchanged) => IInv'
<1> SUFFICES ASSUME IInv, Poll \/ Unchanged PROVE IInv'
  OBVIOUS
<1>1. /\ poll_answer' \in {tip, None}
      /\ UNCHANGED << tip, polled, pc, authorized, notified, answer, queue, lagged >>
  BY DEF Poll, Unchanged, sessionVars, channelVars
<1>2. Types' /\ Bounded'
  BY <1>1 DEF IInv, Types, Bounded
<1>3. PolledByNow'
  BY <1>1, Templates DEF IInv, PolledByNow, Types, Template, None
<1>4. \A s \in Session : QueueOK(s)' /\ AnswerOK(s)' /\ WorkOK(s)'
  BY <1>1, Elsewhere DEF IInv
<1>5. QED
  BY <1>2, <1>3, <1>4 DEF IInv

LEMMA BroadcastStep == IInv /\ Broadcast => IInv'
<1> SUFFICES ASSUME IInv, Broadcast PROVE IInv'
  OBVIOUS
<1>1. /\ poll_answer # None /\ polled' = poll_answer /\ poll_answer' = None
      /\ UNCHANGED << tip, pc, authorized, notified, answer >>
      /\ queue' = [s \in Session |->
                     IF ~subscribed(s) THEN queue[s]
                     ELSE Append(IF full(s) THEN Tail(queue[s]) ELSE queue[s], poll_answer)]
      /\ lagged' = [s \in Session |-> lagged[s] \/ (subscribed(s) /\ full(s))]
  BY DEF Broadcast, send, sessionVars
<1>2. poll_answer \in Template
  BY <1>1 DEF IInv, Types
<1>3. ASSUME NEW s \in Session
      PROVE  /\ queue'[s] \in Seq(Template)
             /\ Len(queue'[s]) =< CAPACITY
             /\ pc[s] # "closed" => queue'[s] # << >> /\ queue'[s][Len(queue'[s])] = poll_answer
             /\ pc[s] = "closed" => queue'[s] = queue[s]
             /\ lagged'[s] \in BOOLEAN
  <2> DEFINE kept == IF full(s) THEN Tail(queue[s]) ELSE queue[s]
  <2>1. queue[s] \in Seq(Template) /\ Len(queue[s]) =< CAPACITY /\ lagged[s] \in BOOLEAN
    BY DEF IInv, Types, Bounded
  <2>2. kept \in Seq(Template) /\ Len(kept) + 1 =< CAPACITY
    <3>1. CASE full(s)
      <4>1. queue[s] # << >> /\ Len(queue[s]) = CAPACITY
        BY <2>1, <3>1, CapacityAssumption, EmptySeq DEF full
      <4>2. QED
        BY <2>1, <3>1, <4>1, AfterHead, CapacityAssumption
    <3>2. CASE ~full(s)
      BY <2>1, <3>2, CapacityAssumption, LenProperties DEF full
    <3>3. QED
      BY <3>1, <3>2
  <2> HIDE DEF kept
  <2>3. subscribed(s) => queue'[s] = Append(kept, poll_answer)
    BY <1>1 DEF kept
  <2>4. ~subscribed(s) => queue'[s] = queue[s]
    BY <1>1
  <2>5. lagged'[s] \in BOOLEAN
    BY <1>1, <2>1
  <2>6. CASE subscribed(s)
    BY <1>2, <2>2, <2>3, <2>5, <2>6, AfterSend DEF subscribed
  <2>7. CASE ~subscribed(s)
    BY <2>1, <2>4, <2>5, <2>7 DEF subscribed
  <2>8. QED
    BY <2>6, <2>7
<1>4. Types' /\ Bounded'
  <2>1. queue' \in [Session -> Seq(Template)] /\ lagged' \in [Session -> BOOLEAN]
    BY <1>1, <1>3
  <2>2. QED
    BY <1>1, <1>3, <2>1 DEF IInv, Types, Bounded
<1>5. PolledByNow'
  BY <1>1, <1>2, Templates DEF IInv, PolledByNow, Types, Template, None
<1>6. ASSUME NEW s \in Session PROVE QueueOK(s)' /\ AnswerOK(s)' /\ WorkOK(s)'
  <2>1. QueueOK(s) /\ AnswerOK(s) /\ WorkOK(s)
    BY DEF IInv
  <2>2. CASE pc[s] = "closed"
    <3>1. queue[s] = << >> /\ notified[s] = None
      BY <2>1, <2>2 DEF QueueOK
    <3>2. QED
      BY <1>1, <1>3, <2>2, <3>1 DEF QueueOK, AnswerOK, WorkOK, Holds
  <2>3. CASE pc[s] # "closed"
    BY <1>1, <1>3, <2>1, <2>3 DEF QueueOK, AnswerOK, WorkOK, Holds
  <2>4. QED
    BY <2>2, <2>3
<1>7. QED
  BY <1>4, <1>5, <1>6 DEF IInv

-----------------------------------------------------------------------------
(* The steps of a session.  Each leaves the other sessions alone.          *)

LEMMA OneSession ==
    ASSUME IInv, NEW s \in Session, Types', Bounded',
           UNCHANGED << tip, polled, poll_answer >>,
           \A r \in Session \ {s} :
              /\ pc'[r] = pc[r] /\ authorized'[r] = authorized[r]
              /\ notified'[r] = notified[r] /\ answer'[r] = answer[r]
              /\ queue'[r] = queue[r],
           QueueOK(s)', AnswerOK(s)', WorkOK(s)'
    PROVE  IInv'
<1>1. PolledByNow'
  BY DEF IInv, PolledByNow
<1>2. ASSUME NEW r \in Session PROVE QueueOK(r)' /\ AnswerOK(r)' /\ WorkOK(r)'
  <2>1. CASE r = s
    BY <2>1
  <2>2. CASE r # s
    BY <2>2, Elsewhere DEF IInv
  <2>3. QED
    BY <2>1, <2>2
<1>3. QED
  BY <1>1, <1>2 DEF IInv

LEMMA ConnectStep == ASSUME IInv, NEW s \in Session, Connect(s) PROVE IInv'
<1>1. /\ pc[s] = "closed" /\ pc' = [pc EXCEPT ![s] = "ready"]
      /\ UNCHANGED << tip, polled, poll_answer, authorized, notified, answer, queue, lagged >>
  BY DEF Connect, pollVars, channelVars
<1>2. Types /\ Bounded /\ QueueOK(s) /\ WorkOK(s)
  BY DEF IInv
<1>3. Types' /\ Bounded'
  BY <1>1, <1>2 DEF Types, Bounded
<1>4. pc'[s] = "ready" /\ \A r \in Session \ {s} : pc'[r] = pc[r]
  BY <1>1, <1>2 DEF Types
<1>5. QueueOK(s)' /\ AnswerOK(s)' /\ WorkOK(s)'
  BY <1>1, <1>2, <1>4 DEF QueueOK, AnswerOK, WorkOK, Holds, SameWork, id
<1>6. QED
  BY <1>1, <1>3, <1>4, <1>5, OneSession

LEMMA CloseStep == ASSUME IInv, NEW s \in Session, Close(s) PROVE IInv'
<1>1. /\ pc' = [pc EXCEPT ![s] = "closed"]
      /\ authorized' = [authorized EXCEPT ![s] = FALSE]
      /\ notified' = [notified EXCEPT ![s] = None]
      /\ answer' = [answer EXCEPT ![s] = None]
      /\ queue' = [queue EXCEPT ![s] = << >>]
      /\ lagged' = [lagged EXCEPT ![s] = FALSE]
      /\ UNCHANGED << tip, polled, poll_answer >>
  BY DEF Close, pollVars
<1>2. Types /\ Bounded
  BY DEF IInv
<1>3. Types' /\ Bounded'
  BY <1>1, <1>2, EmptySeq, CapacityAssumption DEF Types, Bounded
<1>4. /\ pc'[s] = "closed" /\ notified'[s] = None /\ queue'[s] = << >>
      /\ \A r \in Session \ {s} :
            /\ pc'[r] = pc[r] /\ authorized'[r] = authorized[r]
            /\ notified'[r] = notified[r] /\ answer'[r] = answer[r]
            /\ queue'[r] = queue[r]
  BY <1>1, <1>2 DEF Types
<1>5. QueueOK(s)' /\ AnswerOK(s)' /\ WorkOK(s)'
  BY <1>4 DEF QueueOK, AnswerOK, WorkOK, Holds
<1>6. QED
  BY <1>1, <1>3, <1>4, <1>5, OneSession

\* The daemon's answer is its tip, and polled is never ahead of the tip.
LEMMA AuthorizeStep == ASSUME IInv, NEW s \in Session, Authorize(s) PROVE IInv'
<1>1. PICK t \in {tip, None} : answer' = [answer EXCEPT ![s] = t]
  BY DEF Authorize
<1>2. /\ pc[s] = "ready" /\ pc' = [pc EXCEPT ![s] = "authorizing"]
      /\ UNCHANGED << tip, polled, poll_answer, authorized, notified, queue, lagged >>
  BY DEF Authorize, pollVars, channelVars
<1>3. Types /\ Bounded /\ PolledByNow /\ QueueOK(s) /\ WorkOK(s)
  BY DEF IInv
<1>4. Types' /\ Bounded'
  BY <1>1, <1>2, <1>3 DEF Types, Bounded
<1>5. /\ pc'[s] = "authorizing" /\ answer'[s] = t
      /\ \A r \in Session \ {s} : pc'[r] = pc[r] /\ answer'[r] = answer[r]
  BY <1>1, <1>2, <1>3 DEF Types
<1>6. t # None => t >= polled
  BY <1>1, <1>3, Templates DEF Types, PolledByNow, None, Template
<1>7. QueueOK(s)' /\ AnswerOK(s)' /\ WorkOK(s)'
  BY <1>2, <1>3, <1>5, <1>6 DEF QueueOK, AnswerOK, WorkOK, Holds, SameWork, id
<1>8. QED
  BY <1>2, <1>4, <1>5, <1>7, OneSession

LEMMA AuthorizedStep == ASSUME IInv, NEW s \in Session, Authorized(s) PROVE IInv'
<1>1. /\ pc[s] = "authorizing"
      /\ authorized' = [authorized EXCEPT ![s] = TRUE]
      /\ answer' = [answer EXCEPT ![s] = None]
      /\ UNCHANGED << tip, polled, poll_answer, queue, lagged >>
  BY DEF Authorized, pollVars, channelVars
<1>2. Types /\ Bounded /\ QueueOK(s) /\ AnswerOK(s) /\ WorkOK(s)
  BY DEF IInv
<1>3. CASE /\ answer[s] = None /\ pc' = [pc EXCEPT ![s] = "ready"]
           /\ UNCHANGED notified
  <2>1. Types' /\ Bounded'
    BY <1>1, <1>2, <1>3 DEF Types, Bounded
  <2>2. /\ pc'[s] = "ready" /\ authorized'[s]
        /\ \A r \in Session \ {s} : /\ pc'[r] = pc[r] /\ authorized'[r] = authorized[r]
                                    /\ answer'[r] = answer[r]
    BY <1>1, <1>2, <1>3 DEF Types
  <2>3. QueueOK(s)' /\ AnswerOK(s)' /\ WorkOK(s)'
    BY <1>1, <1>2, <1>3, <2>2 DEF QueueOK, AnswerOK, WorkOK, Holds, SameWork, id
  <2>4. QED
    BY <1>1, <1>3, <2>1, <2>2, <2>3, OneSession
<1>4. CASE /\ answer[s] # None /\ pc' = [pc EXCEPT ![s] = "registering"]
           /\ notified' = [notified EXCEPT ![s] = answer[s]]
  <2>1. Types' /\ Bounded'
    BY <1>1, <1>2, <1>4 DEF Types, Bounded
  <2>2. /\ pc'[s] = "registering" /\ authorized'[s] /\ notified'[s] = answer[s]
        /\ \A r \in Session \ {s} : /\ pc'[r] = pc[r] /\ authorized'[r] = authorized[r]
                                    /\ notified'[r] = notified[r] /\ answer'[r] = answer[r]
    BY <1>1, <1>2, <1>4 DEF Types
  <2>3. QueueOK(s)' /\ AnswerOK(s)' /\ WorkOK(s)'
    BY <1>1, <1>2, <1>4, <2>2 DEF QueueOK, AnswerOK, WorkOK, Holds
  <2>4. QED
    BY <1>1, <2>1, <2>2, <2>3, OneSession
<1>5. QED
  BY <1>3, <1>4 DEF Authorized

LEMMA RegisterStep == ASSUME IInv, NEW s \in Session, Register(s) PROVE IInv'
<1>1. /\ pc[s] = "registering" /\ pc' = [pc EXCEPT ![s] = "ready"]
      /\ UNCHANGED << tip, polled, poll_answer, authorized, notified, answer, queue, lagged >>
  BY DEF Register, pollVars, channelVars
<1>2. Types /\ Bounded /\ QueueOK(s) /\ WorkOK(s)
  BY DEF IInv
<1>3. Types' /\ Bounded'
  BY <1>1, <1>2 DEF Types, Bounded
<1>4. pc'[s] = "ready" /\ \A r \in Session \ {s} : pc'[r] = pc[r]
  BY <1>1, <1>2 DEF Types
<1>5. QueueOK(s)' /\ AnswerOK(s)' /\ WorkOK(s)'
  BY <1>1, <1>2, <1>4 DEF QueueOK, AnswerOK, WorkOK, Holds, SameWork, id
<1>6. QED
  BY <1>1, <1>3, <1>4, <1>5, OneSession

\* What the session received was its last broadcast, or another follows.
LEMMA ReceiveStep == ASSUME IInv, NEW s \in Session, Receive(s) PROVE IInv'
<1>1. Types /\ Bounded /\ QueueOK(s) /\ AnswerOK(s) /\ WorkOK(s)
  BY DEF IInv
<1>2. CASE Lagged(s)
  <2>1. /\ lagged' = [lagged EXCEPT ![s] = FALSE]
        /\ UNCHANGED << tip, polled, poll_answer, pc, authorized, notified, answer, queue >>
    BY <1>2 DEF Lagged, pollVars, sessionVars
  <2>2. Types' /\ Bounded'
    BY <1>1, <2>1 DEF Types, Bounded
  <2>3. QueueOK(s)' /\ AnswerOK(s)' /\ WorkOK(s)'
    BY <1>1, <2>1, Elsewhere
  <2>4. QED
    BY <2>1, <2>2, <2>3, OneSession
<1>3. CASE Discard(s) \/ Push(s)
  <2>1. /\ pc[s] = "ready" /\ queue[s] # << >>
        /\ queue' = [queue EXCEPT ![s] = Tail(queue[s])]
        /\ UNCHANGED << tip, polled, poll_answer, authorized, answer, lagged >>
    BY <1>3 DEF Discard, Push, receiving, pollVars, sessionVars
  <2>2. /\ queue[s] \in Seq(Template)
        /\ Head(queue[s]) \in Template
        /\ Tail(queue[s]) \in Seq(Template)
        /\ Len(Tail(queue[s])) =< CAPACITY
    BY <1>1, <2>1, AfterHead, CapacityAssumption DEF Types, Bounded
  <2>3. /\ Tail(queue[s]) # << >> => Tail(queue[s])[Len(Tail(queue[s]))] = polled
        /\ Tail(queue[s]) = << >> => Head(queue[s]) = polled
    BY <1>1, <2>1, <2>2, AfterHead DEF QueueOK
  <2>4. queue' \in [Session -> Seq(Template)] /\ Bounded'
    BY <1>1, <2>1, <2>2 DEF Types, Bounded
  <2>5. queue'[s] = Tail(queue[s]) /\ \A r \in Session \ {s} : queue'[r] = queue[r]
    BY <1>1, <2>1 DEF Types
  <2>6. polled \in Nat
    BY <1>1, Templates DEF Types, None
  <2>7. CASE Discard(s)
    <3>1. /\ UNCHANGED << pc, notified >>
          /\ ~authorized[s] \/ SameWork(Head(queue[s]), notified[s])
      BY <2>7 DEF Discard, unwanted, sessionVars
    <3>2. Types'
      BY <1>1, <2>1, <2>4, <3>1 DEF Types
    <3>3. Holds(s) => SameWork(Head(queue[s]), notified[s])
      BY <1>1, <3>1 DEF WorkOK
    <3>4. Holds(s) /\ Tail(queue[s]) = << >> => SameWork(notified[s], polled)
      BY <2>2, <2>3, <3>3, Templates DEF SameWork
    <3>5. QueueOK(s)' /\ AnswerOK(s)' /\ WorkOK(s)'
      BY <1>1, <2>1, <2>3, <2>5, <3>1, <3>4
      DEF QueueOK, AnswerOK, WorkOK, Holds, SameWork, id
    <3>6. QED
      BY <2>1, <2>4, <2>5, <3>1, <3>2, <3>5, OneSession
  <2>8. CASE Push(s)
    <3>1. /\ notified' = [notified EXCEPT ![s] = Head(queue[s])]
          /\ pc' = [pc EXCEPT ![s] = "registering"]
          /\ authorized[s]
      BY <2>8 DEF Push, unwanted
    <3>2. Types'
      BY <1>1, <2>1, <2>2, <2>4, <3>1 DEF Types
    <3>3. /\ pc'[s] = "registering" /\ notified'[s] = Head(queue[s])
          /\ \A r \in Session \ {s} : pc'[r] = pc[r] /\ notified'[r] = notified[r]
      BY <1>1, <3>1 DEF Types
    <3>4. notified'[s] # None
      BY <2>2, <3>3, Templates
    <3>5. Tail(queue[s]) = << >> => notified'[s] >= polled
      BY <2>3, <2>6, <3>3
    <3>6. QueueOK(s)' /\ AnswerOK(s)' /\ WorkOK(s)'
      BY <2>1, <2>3, <2>5, <3>1, <3>3, <3>4, <3>5 DEF QueueOK, AnswerOK, WorkOK, Holds
    <3>7. QED
      BY <2>1, <2>4, <2>5, <3>2, <3>3, <3>6, OneSession
  <2>9. QED
    BY <1>3, <2>7, <2>8
<1>4. QED
  BY <1>2, <1>3 DEF Receive

LEMMA StepIInv == IInv /\ [Next]_vars => IInv'
<1> SUFFICES ASSUME IInv, [Next]_vars PROVE IInv'
  OBVIOUS
<1>1. CASE UNCHANGED vars
  <2>1. UNCHANGED << tip, polled, poll_answer, pc, authorized, notified, answer, queue, lagged >>
    BY <1>1 DEF vars, pollVars, sessionVars, channelVars
  <2>2. \A s \in Session : QueueOK(s)' /\ AnswerOK(s)' /\ WorkOK(s)'
    BY <2>1, Elsewhere DEF IInv
  <2>3. QED
    BY <2>1, <2>2 DEF IInv, Types, Bounded, PolledByNow
<1>2. CASE SystemNext
  BY <1>2, ChainStep, PollStep, BroadcastStep, ConnectStep, AuthorizeStep,
     AuthorizedStep, RegisterStep, ReceiveStep DEF SystemNext
<1>3. CASE \E s \in Session : Close(s)
  BY <1>3, CloseStep
<1>4. QED
  BY <1>1, <1>2, <1>3 DEF Next

LEMMA NothingLost == IInv => NoLostUpdate
<1> SUFFICES ASSUME IInv, NEW s \in Session, Holds(s)
             PROVE  Destined(s) >= polled \/ SameWork(Destined(s), polled)
  BY DEF NoLostUpdate
<1>1. CASE queue[s] = << >>
  BY <1>1 DEF IInv, WorkOK, Destined
<1>2. CASE queue[s] # << >>
  <2>1. Destined(s) = polled
    BY <1>2 DEF IInv, QueueOK, Destined
  <2>2. polled \in Nat
    BY Templates DEF IInv, Types, None
  <2>3. QED
    BY <2>1, <2>2
<1>3. QED
  BY <1>1, <1>2

-----------------------------------------------------------------------------
(* The registry inside the pool: every step of the pool is a step of the   *)
(* registry's specification, whose theorems then hold here.                *)

LEMMA RegistryConstants ==
    Range(Offers) \subseteq RegistryProofs!Job /\ ACTIVE_JOBS_MAX \in Nat \ {0}
BY OffersAssumption, BoundAssumption, RangeOfSeq DEF RegistryProofs!Job, Offered

LEMMA RegistryInit == Init => RegistryProofs!Init
BY DEF Init, Registry!Init, RegistryProofs!Init

LEMMA RegistryStep == IInv /\ [Next]_vars => [RegistryProofs!Next]_(RegistryProofs!vars)
<1> SUFFICES ASSUME IInv, [Next]_vars PROVE [RegistryProofs!Next]_(RegistryProofs!vars)
  OBVIOUS
<1>1. ASSUME NEW s \in Session, Register(s) PROVE RegistryProofs!Next
  <2>1. Offers[notified[s]] \in Range(Offers)
    BY <1>1, Templates DEF IInv, Types, WorkOK, Holds, Register
  <2>2. Registry!register(Offers[notified[s]])
    BY <1>1 DEF Register
  <2>3. RegistryProofs!register(Offers[notified[s]])
    BY <2>2
    DEF Registry!register, Registry!RegisterClean, Registry!RegisterKnown, Registry!RegisterNew,
        Registry!contains, Registry!Installed, Registry!Surviving, Registry!Evicted,
        Registry!Range, Registry!vars, RegistryProofs!Range,
        RegistryProofs!register, RegistryProofs!RegisterClean, RegistryProofs!RegisterKnown,
        RegistryProofs!RegisterNew, RegistryProofs!contains, RegistryProofs!Installed,
        RegistryProofs!Surviving, RegistryProofs!Evicted, RegistryProofs!vars
  <2>4. QED
    BY <2>1, <2>3 DEF RegistryProofs!Next
<1>2. CASE /\ Next
           /\ ~ \E s \in Session : Register(s)
  <2>1. UNCHANGED registryVars
    BY <1>2
    DEF Next, SystemNext, NewTemplate, Poll, Unchanged, Broadcast, Connect, Close,
        Authorize, Authorized, Receive, Lagged, Discard, Push
  <2>2. QED
    BY <2>1 DEF registryVars, RegistryProofs!vars
<1>3. CASE UNCHANGED vars
  BY <1>3 DEF vars, registryVars, RegistryProofs!vars
<1>4. QED
  BY <1>1, <1>2, <1>3

LEMMA OneActiveStep ==
    IInv /\ Registry!OneJobWhenAllClean /\ [Next]_vars => Registry!OneJobWhenAllClean'
<1> SUFFICES ASSUME IInv, Registry!OneJobWhenAllClean, [Next]_vars, Registry!AllClean
             PROVE  Len(order') =< 1
  BY DEF Registry!OneJobWhenAllClean, Registry!AllClean
<1>1. CASE RegistryProofs!Next
  <2>1. PICK job \in Range(Offers) : RegistryProofs!register(job)
    BY <1>1 DEF RegistryProofs!Next
  <2>2. job.clean_jobs
    BY DEF Registry!AllClean
  <2>3. order' = << job.job_id >>
    BY <2>1, <2>2 DEF RegistryProofs!register, RegistryProofs!RegisterClean,
                      RegistryProofs!RegisterKnown, RegistryProofs!RegisterNew
  <2>4. QED
    BY <2>3
<1>2. CASE UNCHANGED RegistryProofs!vars
  BY <1>2 DEF RegistryProofs!vars, Registry!OneJobWhenAllClean
<1>3. QED
  BY <1>1, <1>2, RegistryStep

-----------------------------------------------------------------------------
(* All that is kept, and what follows of it.                               *)

Kept == IInv /\ RegistryProofs!IInv /\ Registry!OneJobWhenAllClean

LEMMA InitKept == Init => Kept
<1>1. Init => RegistryProofs!IInv
  BY RegistryConstants, RegistryInit, RegistryProofs!InitIInv
<1>2. Init => Registry!OneJobWhenAllClean
  BY EmptySeq DEF Init, Registry!Init, Registry!OneJobWhenAllClean
<1>3. QED
  BY <1>1, <1>2, InitIInv DEF Kept

LEMMA StepKept == Kept /\ [Next]_vars => Kept'
<1>1. IInv /\ RegistryProofs!IInv /\ [Next]_vars => RegistryProofs!IInv'
  BY RegistryConstants, RegistryStep, RegistryProofs!StepIInv
<1>2. QED
  BY <1>1, StepIInv, OneActiveStep DEF Kept

LEMMA KeptIsEnough == Kept => TypeOK /\ NoLostUpdate /\ AtMostOneActive
<1>1. Kept => TypeOK
  BY DEF Kept, IInv, Types, Bounded, TypeOK, Registry!TypeOK,
         RegistryProofs!IInv, RegistryProofs!TypeOK
<1>2. QED
  BY <1>1, NothingLost DEF Kept, AtMostOneActive

(***************************************************************************)
(* Every variable of the pool stays in its type: queues never outgrow the  *)
(* broadcast channel, and what a session registers is always a job the     *)
(* daemon offered.                                                         *)
(***************************************************************************)
THEOREM DistributionTypeOK == Spec => []TypeOK
BY InitKept, StepKept, KeptIsEnough, PTL DEF Spec

(***************************************************************************)
(* In every run of the pool a miner that was given work holds work at      *)
(* least as new as the last broadcast, or has that broadcast to come:      *)
(* neither the bounded channel, nor lag, nor a mining.authorize that       *)
(* crosses a broadcast loses the newest job.                               *)
(***************************************************************************)
THEOREM DistributionNoLostUpdate == Spec => []NoLostUpdate
BY InitKept, StepKept, KeptIsEnough, PTL DEF Spec

(***************************************************************************)
(* When every offered job is clean, as the RPC mapper makes them, share    *)
(* validation never knows two jobs at a time, whichever sessions register  *)
(* which jobs in which order.                                              *)
(***************************************************************************)
THEOREM DistributionAtMostOneActive == Spec => []AtMostOneActive
BY InitKept, StepKept, KeptIsEnough, PTL DEF Spec
=============================================================================
