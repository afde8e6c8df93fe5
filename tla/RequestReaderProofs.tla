------------------------- MODULE RequestReaderProofs --------------------------
(***************************************************************************)
(* The loop of a session takes only the steps of a request stream, for any *)
(* number of requests and jobs, as long as no line is cut while a job      *)
(* comes in.                                                               *)
(***************************************************************************)
EXTENDS RequestReader, SequenceTheorems, TLAPS

\* Of the segments of lines, one behind the other.
Opens(seg, n)  == seg \in {Whole(n), Front(n)}
Closes(seg, n) == seg \in {Back(n), Newline(n)}

Follows(next, seg) ==
    IF ends_line(seg) THEN Opens(next, seg.request + 1) ELSE Closes(next, seg.request)

due == Len(answers) + 1

(***************************************************************************)
(* What was read and what waits in the socket are the lines of the         *)
(* requests that are due, in order: the first begins with what was read of *)
(* it, and the last is open just if the miner has yet to end it.           *)
(***************************************************************************)
LinesInOrder ==
    /\ partial \in {<< >>, << Front(due) >>}
    /\ socket = << >> =>
          IF partial = << >> THEN cut = "none" /\ sent = Len(answers)
          ELSE cut # "none" /\ sent = due
    /\ socket # << >> =>
          /\ IF partial = << >> THEN Opens(socket[1], due) ELSE Closes(socket[1], due)
          /\ socket[Len(socket)].request = sent
          /\ ends_line(socket[Len(socket)]) <=> cut = "none"
    /\ \A i \in 1 .. Len(socket) - 1 : Follows(socket[i + 1], socket[i])
    /\ \A i, j \in 1 .. Len(socket) : i =< j => socket[i].request =< socket[j].request

\* A line that is open is one of a request, and no job comes out of nothing.
Types == TypeOK /\ (cut # "none" => sent # 0) /\ jobs =< broadcast

-----------------------------------------------------------------------------
LEMMA SegmentTypes ==
    \A n \in 1 .. MaxRequests : {Whole(n), Front(n), Back(n), Newline(n)} \subseteq Segment
BY DEF Whole, Front, Back, Newline, Segment

LEMMA AppendNotEmpty ==
    ASSUME NEW A, NEW q \in Seq(A), NEW x \in A
    PROVE  Append(q, x) # << >>
<1>1. Len(q) \in Nat /\ Len(Append(q, x)) = Len(q) + 1
  BY AppendProperties, LenProperties
<1>2. QED
  BY <1>1, EmptySeq

LEMMA AnswerTypes ==
    ASSUME NEW line \in Seq(Segment), line # << >>
    PROVE  answer_to(line) \in Seq(0 .. MaxRequests)
<1>1. line[1] \in Segment
  BY ElementOfSeq, EmptySeq, LenProperties
<1>2. line[1].request \in 0 .. MaxRequests /\ ParseError \in 0 .. MaxRequests
  BY <1>1, RequestsAssumption DEF Segment, ParseError
<1>3. \A x \in 0 .. MaxRequests : << x >> \in Seq(0 .. MaxRequests)
  OBVIOUS
<1>4. << >> \in Seq(0 .. MaxRequests)
  OBVIOUS
<1>5. CASE line[1].part \in {"whole", "front"}
  BY <1>2, <1>3, <1>5 DEF answer_to
<1>6. CASE line[1].part = "newline"
  BY <1>4, <1>6 DEF answer_to
<1>7. CASE line[1].part = "back"
  BY <1>2, <1>3, <1>7 DEF answer_to
<1>8. QED
  BY <1>1, <1>5, <1>6, <1>7 DEF Segment

LEMMA InitTypes == Init => Types
BY RequestsAssumption DEF Init, Types, TypeOK

LEMMA StepTypes == Types /\ [Next]_vars => Types'
<1> SUFFICES ASSUME Types, [Next]_vars PROVE Types'
  OBVIOUS
<1> USE RequestsAssumption
<1>1. CASE SendWhole
  <2>1. sent' \in 1 .. MaxRequests
    BY <1>1 DEF SendWhole, Types, TypeOK
  <2>2. Whole(sent') \in Segment
    BY <2>1, SegmentTypes
  <2>3. socket' \in Seq(Segment)
    BY <1>1, <2>2 DEF SendWhole, Types, TypeOK
  <2>4. QED
    BY <1>1, <2>1, <2>3 DEF SendWhole, Types, TypeOK
<1>2. CASE SendFront
  <2>1. sent' \in 1 .. MaxRequests
    BY <1>2 DEF SendFront, Types, TypeOK
  <2>2. Front(sent') \in Segment
    BY <2>1, SegmentTypes
  <2>3. socket' \in Seq(Segment)
    BY <1>2, <2>2 DEF SendFront, Types, TypeOK
  <2>4. QED
    BY <1>2, <2>1, <2>3 DEF SendFront, Types, TypeOK
<1>3. CASE SendBack
  <2>1. sent \in 1 .. MaxRequests
    BY <1>3 DEF SendBack, Types, TypeOK
  <2>2. Newline(sent) \in Segment /\ Back(sent) \in Segment
    BY <2>1, SegmentTypes
  <2>3. socket' \in Seq(Segment)
    BY <1>3, <2>2 DEF SendBack, Types, TypeOK
  <2>4. QED
    BY <1>3, <2>3 DEF SendBack, Types, TypeOK
<1>4. CASE BroadcastJob
  <2>1. jobs' \in 0 .. MaxJobs
    BY <1>4 DEF BroadcastJob, Types, TypeOK
  <2>2. QED
    BY <1>4, <2>1 DEF BroadcastJob, Types, TypeOK
<1>5. CASE ReadPart
  BY <1>5, HeadTailProperties DEF ReadPart, Types, TypeOK
<1>6. CASE ReadLine
  <2>1. Head(socket) \in Segment /\ Tail(socket) \in Seq(Segment)
    BY <1>6, HeadTailProperties DEF ReadLine, Types, TypeOK
  <2>2. Append(partial, Head(socket)) \in Seq(Segment) /\ Append(partial, Head(socket)) # << >>
    <3>1. partial \in Seq(Segment)
      BY DEF Types, TypeOK
    <3>2. QED
      BY <2>1, <3>1, AppendProperties, AppendNotEmpty
  <2>3. answers' \in Seq(0 .. MaxRequests)
    <3>1. answer_to(Append(partial, Head(socket))) \in Seq(0 .. MaxRequests)
      BY <2>2, AnswerTypes
    <3>2. QED
      BY <1>6, <3>1, ConcatProperties DEF ReadLine, Types, TypeOK
  <2>4. QED
    BY <1>6, <2>1, <2>3 DEF ReadLine, Types, TypeOK
<1>7. CASE ReceiveJob
  BY <1>7 DEF ReceiveJob, Types, TypeOK
<1>8. CASE UNCHANGED vars
  BY <1>8 DEF vars, Types, TypeOK
<1>9. QED
  BY <1>1, <1>2, <1>3, <1>4, <1>5, <1>6, <1>7, <1>8 DEF Next

(***************************************************************************)
(* The types, whatever lines are cut and jobs received.                    *)
(***************************************************************************)
THEOREM ReaderTypeOK == Spec => []TypeOK
<1>1. Types => TypeOK
  BY DEF Types
<1>2. QED
  BY <1>1, InitTypes, StepTypes, PTL DEF Spec

-----------------------------------------------------------------------------
LEMMA InitLinesInOrder == Init => LinesInOrder
BY DEF Init, LinesInOrder

\* The miner begins a line, or ends the one it has begun.
LEMMA Sent ==
    ASSUME Types, LinesInOrder, NEW seg \in Segment,
           socket' = Append(socket, seg), UNCHANGED << partial, answers >>,
           seg.request = sent', ends_line(seg) <=> cut' = "none",
           \/ cut = "none" /\ Opens(seg, sent + 1) /\ sent' = sent + 1
           \/ cut # "none" /\ Closes(seg, sent) /\ sent' = sent
    PROVE  LinesInOrder'
<1>1. /\ socket \in Seq(Segment) /\ Len(socket) \in Nat /\ sent \in Nat
      /\ \A i \in 1 .. Len(socket) : socket[i] \in Segment /\ socket[i].request \in Nat
  <2>1. socket \in Seq(Segment) /\ Len(socket) \in Nat /\ sent \in Nat
    BY RequestsAssumption DEF Types, TypeOK
  <2>2. \A i \in 1 .. Len(socket) : socket[i] \in Segment
    BY <2>1, ElementOfSeq
  <2>3. \A x \in Segment : x.request \in Nat
    BY RequestsAssumption DEF Segment
  <2>4. QED
    BY <2>1, <2>2, <2>3
<1>2. /\ socket' # << >> /\ Len(socket') = Len(socket) + 1
      /\ \A i \in 1 .. Len(socket) : socket'[i] = socket[i]
      /\ socket'[Len(socket) + 1] = seg
  BY <1>1, AppendProperties
<1>3. socket = << >> <=> Len(socket) = 0
  BY <1>1, EmptySeq
<1>4. IF partial' = << >> THEN Opens(socket'[1], due') ELSE Closes(socket'[1], due')
  <2>1. CASE socket = << >>
    <3>1. socket'[1] = seg
      BY <1>2, <1>3, <2>1
    <3>2. Len(answers) \in Nat
      BY DEF Types, TypeOK
    <3>3. QED
      BY <2>1, <3>1, <3>2 DEF LinesInOrder, due
  <2>2. CASE socket # << >>
    BY <1>1, <1>2, <1>3, <2>2 DEF LinesInOrder, due
  <2>3. QED
    BY <2>1, <2>2
<1>5. \A i \in 1 .. Len(socket') - 1 : Follows(socket'[i + 1], socket'[i])
  <2> SUFFICES ASSUME NEW i \in 1 .. Len(socket) PROVE Follows(socket'[i + 1], socket'[i])
    BY <1>1, <1>2
  <2>1. CASE i = Len(socket)
    <3>1. socket'[i + 1] = seg /\ socket'[i] = socket[Len(socket)] /\ socket # << >>
      BY <1>1, <1>2, <1>3, <2>1
    <3>2. QED
      BY <3>1 DEF LinesInOrder, Follows
  <2>2. CASE i # Len(socket)
    <3>1. i \in 1 .. Len(socket) - 1 /\ i + 1 \in 1 .. Len(socket)
      BY <1>1, <2>2
    <3>2. QED
      BY <1>2, <3>1 DEF LinesInOrder
  <2>3. QED
    BY <2>1, <2>2
<1>6. \A i, j \in 1 .. Len(socket') : i =< j => socket'[i].request =< socket'[j].request
  <2> SUFFICES ASSUME NEW i \in 1 .. Len(socket) + 1, NEW j \in 1 .. Len(socket) + 1, i =< j
               PROVE  socket'[i].request =< socket'[j].request
    BY <1>2
  <2>1. CASE j =< Len(socket)
    <3>1. i \in 1 .. Len(socket) /\ j \in 1 .. Len(socket)
      BY <1>1, <2>1
    <3>2. QED
      BY <1>2, <3>1 DEF LinesInOrder
  <2>2. CASE j = Len(socket) + 1 /\ i =< Len(socket)
    <3>1. i \in 1 .. Len(socket) /\ Len(socket) \in 1 .. Len(socket) /\ socket # << >>
      BY <1>1, <1>3, <2>2
    <3>2. socket[i].request =< sent
      BY <1>1, <3>1 DEF LinesInOrder
    <3>3. QED
      BY <1>1, <1>2, <2>2, <3>1, <3>2
  <2>3. CASE i = Len(socket) + 1
    BY <1>1, <1>2, <2>3
  <2>4. QED
    BY <1>1, <2>1, <2>2, <2>3
<1>7. QED
  BY <1>1, <1>2, <1>4, <1>5, <1>6 DEF LinesInOrder, due

LEMMA SendStep ==
    ASSUME Types, LinesInOrder, SendWhole \/ SendFront \/ SendBack
    PROVE  LinesInOrder'
<1> USE RequestsAssumption
<1>1. CASE SendWhole
  <2>1. sent' = sent + 1 /\ sent' \in 1 .. MaxRequests
    BY <1>1 DEF SendWhole, Types, TypeOK
  <2>2. Whole(sent') \in Segment
    BY <2>1, SegmentTypes
  <2>3. Whole(sent').request = sent' /\ ends_line(Whole(sent')) /\ Opens(Whole(sent'), sent + 1)
    BY <2>1 DEF Whole, ends_line, Opens
  <2>4. QED
    BY <1>1, <2>1, <2>2, <2>3, Sent DEF SendWhole
<1>2. CASE SendFront
  <2>1. sent' = sent + 1 /\ sent' \in 1 .. MaxRequests
    BY <1>2 DEF SendFront, Types, TypeOK
  <2>2. Front(sent') \in Segment
    BY <2>1, SegmentTypes
  <2>3. Front(sent').request = sent' /\ ~ends_line(Front(sent')) /\ Opens(Front(sent'), sent + 1)
    BY <2>1 DEF Front, ends_line, Opens
  <2>4. cut' # "none"
    BY <1>2, CutsAssumption DEF SendFront
  <2>5. QED
    BY <1>2, <2>1, <2>2, <2>3, <2>4, Sent DEF SendFront
<1>3. CASE SendBack
  <2> DEFINE seg == IF cut = "end" THEN Newline(sent) ELSE Back(sent)
  <2>1. sent \in 1 .. MaxRequests
    BY <1>3 DEF SendBack, Types, TypeOK
  <2>2. seg \in Segment
    BY <2>1, SegmentTypes
  <2>3. seg.request = sent /\ ends_line(seg) /\ Closes(seg, sent)
    BY DEF Newline, Back, ends_line, Closes
  <2>4. /\ socket' = Append(socket, seg) /\ cut # "none" /\ cut' = "none"
        /\ UNCHANGED << sent, partial, answers >>
    BY <1>3 DEF SendBack
  <2> HIDE DEF seg
  <2>5. QED
    BY <2>2, <2>3, <2>4, Sent
<1>4. QED
  BY <1>1, <1>2, <1>3

\* What reading the first segment of the socket makes of the ones behind it.
LEMMA Behind ==
    ASSUME Types, LinesInOrder, socket # << >>, socket' = Tail(socket)
    PROVE  /\ Head(socket) = socket[1] /\ Len(socket) \in Nat \ {0}
           /\ Len(socket') = Len(socket) - 1
           /\ socket' = << >> <=> Len(socket) = 1
           /\ \A i \in 1 .. Len(socket') : socket'[i] = socket[i + 1]
           /\ \A i \in 1 .. Len(socket') - 1 : Follows(socket'[i + 1], socket'[i])
           /\ \A i, j \in 1 .. Len(socket') :
                 i =< j => socket'[i].request =< socket'[j].request
<1>1. /\ socket \in Seq(Segment) /\ Len(socket) \in Nat \ {0} /\ Head(socket) = socket[1]
      /\ socket' \in Seq(Segment) /\ Len(socket') = Len(socket) - 1
      /\ \A i \in 1 .. Len(socket') : socket'[i] = socket[i + 1]
  BY HeadTailProperties, EmptySeq DEF Types, TypeOK
<1>2. socket' = << >> <=> Len(socket) = 1
  BY <1>1, EmptySeq
<1>3. ASSUME NEW i \in 1 .. Len(socket') - 1 PROVE Follows(socket'[i + 1], socket'[i])
  <2>1. i + 1 \in 1 .. Len(socket) - 1 /\ i \in 1 .. Len(socket') /\ i + 1 \in 1 .. Len(socket')
    BY <1>1
  <2>2. QED
    BY <1>1, <2>1 DEF LinesInOrder
<1>4. ASSUME NEW i \in 1 .. Len(socket'), NEW j \in 1 .. Len(socket'), i =< j
      PROVE  socket'[i].request =< socket'[j].request
  <2>1. i + 1 \in 1 .. Len(socket) /\ j + 1 \in 1 .. Len(socket) /\ i + 1 =< j + 1
    BY <1>1, <1>4
  <2>2. QED
    BY <1>1, <2>1 DEF LinesInOrder
<1>5. QED
  BY <1>1, <1>2, <1>3, <1>4

LEMMA ReadPartStep == ASSUME Types, LinesInOrder, ReadPart PROVE LinesInOrder'
<1>1. socket # << >> /\ socket' = Tail(socket)
  BY DEF ReadPart
<1>2. partial = << >> /\ socket[1] = Front(due)
  BY <1>1, Behind
  DEF ReadPart, LinesInOrder, Opens, Closes, ends_line, Whole, Front, Back, Newline
<1>3. partial' = << Front(due) >> /\ due' = due /\ UNCHANGED << sent, cut >>
  BY <1>1, <1>2, Behind DEF ReadPart, due
<1>4. CASE socket' = << >>
  <2>1. cut # "none" /\ sent = due
    BY <1>1, <1>2, <1>4, Behind DEF LinesInOrder, ends_line, Front
  <2>2. QED
    BY <1>1, <1>3, <1>4, <2>1, Behind DEF LinesInOrder
<1>5. CASE socket' # << >>
  <2>1. /\ 1 \in 1 .. Len(socket) - 1 /\ 1 \in 1 .. Len(socket')
        /\ Len(socket') \in 1 .. Len(socket')
    BY <1>1, <1>5, Behind
  <2>2. socket'[1] = socket[2] /\ socket'[Len(socket')] = socket[Len(socket)]
    BY <1>1, <2>1, Behind
  <2>3. Closes(socket'[1], due)
    BY <1>2, <2>1, <2>2 DEF LinesInOrder, Follows, ends_line, Front
  <2>4. QED
    BY <1>1, <1>3, <1>5, <2>2, <2>3, Behind DEF LinesInOrder
<1>6. QED
  BY <1>4, <1>5

LEMMA WellFormedAnswer ==
    ASSUME NEW line, line[1].part \in {"whole", "front"}
    PROVE  answer_to(line) = << line[1].request >>
BY Zenon DEF answer_to

\* A line that ends is the one that is due, and is answered as such.
LEMMA LineIsDue ==
    ASSUME Types, LinesInOrder, ReadLine
    PROVE  answers' = Append(answers, due) /\ socket[1].request = due /\ due =< sent
<1>1. socket # << >> /\ socket' = Tail(socket) /\ ends_line(socket[1])
  BY Behind DEF ReadLine
<1>2. /\ Head(socket) = socket[1] /\ Len(socket) \in Nat \ {0}
      /\ 1 \in 1 .. Len(socket) /\ Len(socket) \in 1 .. Len(socket)
  BY <1>1, Behind
<1>3. socket[1].request = due
  BY <1>1 DEF LinesInOrder, Opens, Closes, Whole, Front, Back, Newline
<1>4. socket[1].request =< socket[Len(socket)].request
  BY <1>2 DEF LinesInOrder
<1>5. due =< sent
  BY <1>1, <1>3, <1>4 DEF LinesInOrder
<1> DEFINE line == Append(partial, Head(socket))
<1>6. line[1].part \in {"whole", "front"} /\ line[1].request = due
  <2>1. CASE partial = << >>
    <3>1. socket[1] = Whole(due)
      BY <1>1, <2>1 DEF LinesInOrder, Opens, ends_line, Front
    <3>2. line[1] = Whole(due)
      BY <1>2, <2>1, <3>1
    <3>3. QED
      BY <3>2 DEF Whole
  <2>2. CASE partial = << Front(due) >>
    <3>1. line[1] = Front(due)
      BY <2>2
    <3>2. QED
      BY <3>1 DEF Front
  <2>3. QED
    BY <2>1, <2>2 DEF LinesInOrder
<1> HIDE DEF line
<1>7. answer_to(line) = << due >>
  <2>1. answer_to(line) = << line[1].request >>
    BY <1>6, WellFormedAnswer
  <2>2. QED
    BY <1>6, <2>1
<1>8. answers' = answers \o << due >> /\ answers \in Seq(0 .. MaxRequests)
  BY <1>7 DEF ReadLine, Types, TypeOK, line
<1>9. answers \o << due >> = Append(answers, due)
  BY <1>8 DEF due
<1>10. QED
  BY <1>3, <1>5, <1>8, <1>9

LEMMA ReadLineStep == ASSUME Types, LinesInOrder, ReadLine PROVE LinesInOrder'
<1>1. socket # << >> /\ socket' = Tail(socket) /\ ends_line(socket[1])
  BY Behind DEF ReadLine
<1>2. /\ Len(answers) \in Nat /\ Len(answers') = due /\ due' = due + 1
      /\ partial' = << >> /\ UNCHANGED << sent, cut >>
  BY LineIsDue DEF ReadLine, due, Types, TypeOK
<1>3. CASE socket' = << >>
  <2>1. cut = "none" /\ sent = due
    BY <1>1, <1>3, Behind, LineIsDue DEF LinesInOrder
  <2>2. QED
    BY <1>1, <1>2, <1>3, <2>1, Behind DEF LinesInOrder
<1>4. CASE socket' # << >>
  <2>1. /\ 1 \in 1 .. Len(socket) - 1 /\ 1 \in 1 .. Len(socket')
        /\ Len(socket') \in 1 .. Len(socket')
    BY <1>1, <1>4, Behind
  <2>2. socket'[1] = socket[2] /\ socket'[Len(socket')] = socket[Len(socket)]
    BY <1>1, <2>1, Behind
  <2>3. Opens(socket'[1], due + 1)
    BY <1>1, <2>1, <2>2, LineIsDue DEF LinesInOrder, Follows
  <2>4. QED
    BY <1>1, <1>2, <1>4, <2>2, <2>3, Behind DEF LinesInOrder
<1>5. QED
  BY <1>3, <1>4

-----------------------------------------------------------------------------
LEMMA StepLinesInOrder == Types /\ LinesInOrder /\ [UncutNext]_vars => LinesInOrder'
<1> SUFFICES ASSUME Types, LinesInOrder, [UncutNext]_vars PROVE LinesInOrder'
  OBVIOUS
<1>1. CASE SendWhole \/ SendFront \/ SendBack
  BY <1>1, SendStep
<1>2. CASE BroadcastJob
  BY <1>2 DEF BroadcastJob, LinesInOrder, due
<1>3. CASE ReadPart
  BY <1>3, ReadPartStep
<1>4. CASE ReadLine
  BY <1>4, ReadLineStep
<1>5. CASE partial = << >> /\ ReceiveJob
  BY <1>5 DEF ReceiveJob, LinesInOrder, due
<1>6. CASE UNCHANGED vars
  BY <1>6 DEF vars, LinesInOrder, due
<1>7. QED
  BY <1>1, <1>2, <1>3, <1>4, <1>5, <1>6 DEF UncutNext

LEMMA StepIsStreamStep ==
    Types /\ LinesInOrder /\ [UncutNext]_vars => [Stream!Next]_<< sent, answers >>
<1> SUFFICES ASSUME Types, LinesInOrder, UncutNext
             PROVE  [Stream!Next]_<< sent, answers >>
  BY DEF vars
<1>1. CASE SendWhole \/ SendFront
  BY <1>1 DEF SendWhole, SendFront, Stream!Next, Stream!Send
<1>2. CASE ReadLine
  <2>1. /\ answers' = Append(answers, Len(answers) + 1) /\ Len(answers) + 1 =< sent
        /\ Len(answers) \in Nat /\ sent \in Nat /\ sent' = sent
    BY <1>2, LineIsDue DEF ReadLine, due, Types, TypeOK
  <2>2. QED
    BY <2>1 DEF Stream!Next, Stream!Answer
<1>3. CASE SendBack \/ BroadcastJob \/ ReadPart \/ ReceiveJob
  BY <1>3 DEF SendBack, BroadcastJob, ReadPart, ReceiveJob
<1>4. QED
  BY <1>1, <1>2, <1>3 DEF UncutNext

(***************************************************************************)
(* As long as no line is cut while a job comes in, a session answers every *)
(* request at most once, in the order of the requests, and never answers   *)
(* what was not asked: the steps of AnswersEveryRequest, for any number of *)
(* requests and jobs and wherever lines are cut into segments.             *)
(***************************************************************************)
THEOREM ReaderStepsAreStreamSteps ==
    UncutSpec => Stream!Init /\ [][Stream!Next]_<< sent, answers >>
<1>1. Init => Stream!Init
  BY DEF Init, Stream!Init
<1>2. [UncutNext]_vars => [Next]_vars
  BY DEF UncutNext, Next
<1>3. Types /\ [UncutNext]_vars => Types'
  BY <1>2, StepTypes
<1>4. QED
  BY <1>1, <1>3, InitTypes, InitLinesInOrder, StepLinesInOrder, StepIsStreamStep, PTL
  DEF UncutSpec
=============================================================================
