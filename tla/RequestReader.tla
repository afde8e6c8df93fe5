---------------------------- MODULE RequestReader -----------------------------
(***************************************************************************)
(* The loop of handle_sv1_session around its two sources: the miner's      *)
(* request lines and the broadcast of jobs.  select! drops the branch that *)
(* did not win: a read_line that has consumed part of a line is dropped    *)
(* with that part, and the next read_line starts in the middle of it.      *)
(*                                                                         *)
(* A request is a line that reaches the socket in one segment or in two.   *)
(* The second segment of a line cut before its newline is an empty line.   *)
(* Requests are well-formed; what dispatch_request makes of them is not a  *)
(* matter of this module.                                                  *)
(*                                                                         *)
(* Slip_... definitions: see ActiveJobRegistry.                            *)
(***************************************************************************)
EXTENDS Naturals, Sequences, Functions

CONSTANTS
    MaxRequests,    \* bounds the requests of a run
    MaxJobs,        \* bounds the jobs broadcast in a run
    Cuts            \* where a line may be cut

ASSUME RequestsAssumption == MaxRequests \in Nat /\ MaxJobs \in Nat
ASSUME CutsAssumption     == Cuts \subseteq {"middle", "end"}

VARIABLES
    sent,       \* the requests the miner has begun to send
    cut,        \* where the line being sent was cut, or "none"
    socket,     \* segments that arrived, not yet consumed by read_line
    partial,    \* what the pending read_line has consumed of its line
    jobs,       \* broadcasts yet to be received
    broadcast,  \* how many there were
    answers     \* the answers written: the request's number, or ParseError

vars == << sent, cut, socket, partial, jobs, broadcast, answers >>

ParseError == 0

\* What of a line a segment holds.
Whole(n) == [request |-> n, part |-> "whole"]
Front(n) == [request |-> n, part |-> "front"]
Back(n)  == [request |-> n, part |-> "back"]
Newline(n) == [request |-> n, part |-> "newline"]
Segment == [request : 1 .. MaxRequests, part : {"whole", "front", "back", "newline"}]

ends_line(seg) == seg.part # "front"

TypeOK ==
    /\ sent \in 0 .. MaxRequests
    /\ cut \in Cuts \cup {"none"}
    /\ socket \in Seq(Segment)
    /\ partial \in Seq(Segment)
    /\ jobs \in 0 .. MaxJobs
    /\ broadcast \in 0 .. MaxJobs
    /\ answers \in Seq(0 .. MaxRequests)

Init ==
    /\ sent = 0
    /\ cut = "none"
    /\ socket = << >>
    /\ partial = << >>
    /\ jobs = 0
    /\ broadcast = 0
    /\ answers = << >>

-----------------------------------------------------------------------------
(* The miner and the poller. *)

SendWhole ==
    /\ cut = "none" /\ sent < MaxRequests
    /\ sent' = sent + 1
    /\ socket' = Append(socket, Whole(sent'))
    /\ UNCHANGED << cut, partial, jobs, broadcast, answers >>

SendFront ==
    /\ cut = "none" /\ sent < MaxRequests
    /\ cut' \in Cuts
    /\ sent' = sent + 1
    /\ socket' = Append(socket, Front(sent'))
    /\ UNCHANGED << partial, jobs, broadcast, answers >>

SendBack ==
    /\ cut # "none"
    /\ socket' = Append(socket, IF cut = "end" THEN Newline(sent) ELSE Back(sent))
    /\ cut' = "none"
    /\ UNCHANGED << sent, partial, jobs, broadcast, answers >>

BroadcastJob ==
    /\ broadcast < MaxJobs
    /\ broadcast' = broadcast + 1
    /\ jobs' = jobs + 1
    /\ UNCHANGED << sent, cut, socket, partial, answers >>

-----------------------------------------------------------------------------
(* The session. *)

\* read_line has what arrived of the line, and the line goes on.
ReadPart ==
    /\ socket # << >> /\ ~ends_line(Head(socket))
    /\ partial' = Append(partial, Head(socket))
    /\ socket' = Tail(socket)
    /\ UNCHANGED << sent, cut, jobs, broadcast, answers >>

\* A line whose front is missing is no JSON; an empty one is skipped.
answer_to(line) ==
    CASE line[1].part \in {"whole", "front"} -> << line[1].request >>
      [] line[1].part = "newline"            -> << >>
      [] OTHER                               -> << ParseError >>

ReadLine ==
    /\ socket # << >> /\ ends_line(Head(socket))
    /\ answers' = answers \o answer_to(Append(partial, Head(socket)))
    /\ socket' = Tail(socket)
    /\ partial' = << >>
    /\ UNCHANGED << sent, cut, jobs, broadcast >>

Slip_NothingReceived ==
    /\ jobs' = jobs - 1
    /\ partial' = << >>
    /\ UNCHANGED << sent, cut, socket, broadcast, answers >>

Slip_BufferLost ==
    /\ jobs > 0
    /\ jobs' = jobs - 1
    /\ partial' = << >>
    /\ socket' = << >>
    /\ UNCHANGED << sent, cut, broadcast, answers >>

\* job_rx.recv() wins: the pending read_line is dropped.
ReceiveJob ==
    /\ jobs > 0
    /\ jobs' = jobs - 1
    /\ partial' = << >>
    /\ UNCHANGED << sent, cut, socket, broadcast, answers >>

-----------------------------------------------------------------------------
Next ==
    \/ SendWhole \/ SendFront \/ SendBack \/ BroadcastJob
    \/ ReadPart \/ ReadLine \/ ReceiveJob

\* The same where no job is received while the front of a line is in hand.
UncutNext ==
    \/ SendWhole \/ SendFront \/ SendBack \/ BroadcastJob
    \/ ReadPart \/ ReadLine
    \/ partial = << >> /\ ReceiveJob

(***************************************************************************)
(* select! polls its branches in random order, so a line that is there is  *)
(* read even while jobs keep coming: the session always makes progress.    *)
(* A miner that has begun a line ends it.                                  *)
(***************************************************************************)
Fairness ==
    /\ WF_vars(SendBack)
    /\ SF_vars(ReadPart \/ ReadLine)
    /\ WF_vars(ReceiveJob)

Spec == Init /\ [][Next]_vars /\ Fairness

UncutSpec == Init /\ [][UncutNext]_vars /\ Fairness

-----------------------------------------------------------------------------
Stream == INSTANCE RequestStream

(***************************************************************************)
(* The session is a request stream: as long as no line is cut while a job  *)
(* comes in, every request is answered once, in order, whatever mixture of *)
(* requests, segments and pushed jobs the session meets.                   *)
(***************************************************************************)
AnswersEveryRequest == Stream!Spec
=============================================================================
