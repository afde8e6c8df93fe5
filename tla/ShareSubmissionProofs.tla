------------------------ MODULE ShareSubmissionProofs -------------------------
(***************************************************************************)
(* What reaches submit_block is a solution and was not stale when found,   *)
(* for any sessions, templates, shares and limits, as long as ids are      *)
(* unique.                                                                 *)
(***************************************************************************)
EXTENDS ShareSubmission, SequenceTheorems, TLAPS

RegistryProofs == INSTANCE ActiveJobRegistryProofs WITH Jobs <- Range(Offers)

(***************************************************************************)
(* The argument hangs on the job id: it is all that the judged share, the  *)
(* job read again and the daemon's answer have in common.  The invariant   *)
(* says so of every step of a session, and of every candidate afterwards;  *)
(* uniqueness of ids then makes one template of the three.                 *)
(***************************************************************************)
Solves(sh) == \E t \in Template : id(t) = sh.job_id /\ sh.verdict[t] = "Block"

ShareOK(s) ==
    /\ pc[s] # "idle" => share[s] \in Shares /\ found[s] \in Template /\ found[s] =< tip
    /\ pc[s] # "idle" /\ result[s] = "Block" => Solves(share[s])
    /\ pc[s] \in {"candidate", "asking", "guarding"} => result[s] = "Block"

CandidateStepOK(s) ==
    /\ pc[s] \in {"asking", "guarding"} =>
          solved[s] \in Template /\ id(solved[s]) = share[s].job_id
    /\ pc[s] = "guarding" /\ answer[s] # None => answer[s] >= found[s]

CandidateOK(c) ==
    /\ Solves(c.share)
    /\ id(c.template) = c.share.job_id
    /\ c.answer # None => id(c.answer) = id(c.template) /\ c.answer >= c.found

Honest ==
    {o \in Outcome \cup {NotAsked, NoOutcome} :
        o.logged = "Submitted" <=> o.daemon = "accepted" /\ o.told}

HandlerTypes ==
    /\ tip \in Template
    /\ pc \in [Session -> Steps]
    /\ share \in [Session -> Shares \cup {NoShare}]
    /\ result \in [Session -> Result \cup {"none"}]
    /\ solved \in [Session -> Template \cup {None}]
    /\ answer \in [Session -> Template \cup {None}]
    /\ outcome \in [Session -> Honest]
    /\ found \in [Session -> Template \cup {None}]
    /\ candidates \subseteq [share : Shares, template : Template, found : Template,
                             answer : Template \cup {None}, tip : Template]

LogTypes ==
    /\ recent \in Seq(Attempt) /\ Len(recent) =< MAX_RECENT
    /\ attempts \in Seq(Attempt)

IInv ==
    /\ HandlerTypes
    /\ LogTypes
    /\ RegistryProofs!IInv
    /\ \A s \in Session : ShareOK(s) /\ CandidateStepOK(s)
    /\ \A c \in candidates : CandidateOK(c)

-----------------------------------------------------------------------------
(* The daemon's answers. *)

\* Which answers to submitblock make a client believe the block was taken.
LEMMA AcceptedAnswers ==
    ASSUME NEW verdict \in Verdicts, NEW r \in SubmitAnswers(verdict) \cup Disturbed
    PROVE  submit_block(r).ok <=> verdict = "accepted" /\ r \in SubmitAnswers(verdict)
<1>1. CASE r \in Disturbed
  <2>1. ~rpc_call(r).ok \/ (r \in Own /\ rpc_call(r) = Ok("other"))
    <3>1. CASE ~r.json
      BY <3>1 DEF rpc_call, Err
    <3>2. CASE r \in Own /\ r.error = "absent" /\ r.result \in {"absent", "other"}
      BY <3>2 DEF Own, Response, rpc_call, Ok, Err
    <3>3. QED
      BY <1>1, <3>1, <3>2 DEF Disturbed, Unread
  <2>2. ~submit_block(r).ok
    BY <2>1 DEF submit_block, Ok, Err
  <2>3. ~(verdict = "accepted" /\ r \in SubmitAnswers(verdict))
    BY <1>1 DEF Disturbed, Unread, Own, Response, SubmitAnswers
  <2>4. QED
    BY <2>2, <2>3
<1>2. CASE r \in SubmitAnswers("accepted") /\ verdict = "accepted"
  BY <1>2 DEF SubmitAnswers, Own, Response, submit_block, rpc_call, Ok, Err
<1>3. CASE r \in SubmitAnswers("refused") /\ verdict = "refused"
  BY <1>3 DEF SubmitAnswers, Own, Response, submit_block, rpc_call, Ok, Err
<1>4. CASE r \in SubmitAnswers("failed") /\ verdict = "failed"
  BY <1>4 DEF SubmitAnswers, Own, Response, submit_block, rpc_call, Ok, Err
<1>5. QED
  BY <1>1, <1>2, <1>3, <1>4 DEF Verdicts

LEMMA HonestLog ==
    /\ NotAsked \in Honest /\ NoOutcome \in Honest
    /\ \A verdict \in Verdicts : \A r \in SubmitAnswers(verdict) \cup Disturbed :
          [daemon |-> verdict, told |-> r \in SubmitAnswers(verdict),
           logged |-> classified(submit_block(r))] \in Honest
<1>1. NotAsked \in Honest /\ NoOutcome \in Honest
  BY DEF Honest, NotAsked, NoOutcome
<1>2. ASSUME NEW verdict \in Verdicts, NEW r \in SubmitAnswers(verdict) \cup Disturbed
      PROVE  [daemon |-> verdict, told |-> r \in SubmitAnswers(verdict),
              logged |-> classified(submit_block(r))] \in Honest
  <2> DEFINE told == r \in SubmitAnswers(verdict)
             logged == classified(submit_block(r))
  <2>1. logged = "Submitted" <=> verdict = "accepted" /\ told
    BY <1>2, AcceptedAnswers DEF classified
  <2>2. logged \in {"Submitted", "Rejected", "LocalError"} /\ told \in BOOLEAN
    BY DEF classified
  <2> HIDE DEF told, logged
  <2>3. [daemon |-> verdict, told |-> told, logged |-> logged] \in Honest
    BY <1>2, <2>1, <2>2 DEF Honest, Outcome
  <2>4. QED
    BY <2>3 DEF told, logged
<1>3. QED
  BY <1>1, <1>2

-----------------------------------------------------------------------------
(* The registry and the templates. *)

LEMMA Templates ==
    /\ Len(Offers) \in Nat
    /\ \A t \in Template : t \in Nat /\ t # None
    /\ \A t \in Template : Offers[t] \in Range(Offers) /\ Offers[t].template = t
    /\ \A job \in Range(Offers) : job.template \in Template /\ id(job.template) = job.job_id
<1>1. Len(Offers) \in Nat /\ DOMAIN Offers = Template
  BY OffersAssumption, LenProperties DEF Template
<1>2. ASSUME NEW job \in Range(Offers)
      PROVE  job.template \in Template /\ id(job.template) = job.job_id
  <2>1. PICK t \in Template : job = Offers[t]
    BY <1>1 DEF Range
  <2>2. job.template = t
    BY <2>1, OffersAssumption
  <2>3. QED
    BY <2>1, <2>2 DEF id
<1>3. \A t \in Template : Offers[t] \in Range(Offers) /\ Offers[t].template = t
  BY <1>1, OffersAssumption DEF Range
<1>4. \A t \in Template : t \in Nat /\ t # None
  BY <1>1 DEF Template, None
<1>5. QED
  BY <1>1, <1>2, <1>3, <1>4

LEMMA RegistryConstants ==
    Range(Offers) \subseteq RegistryProofs!Job /\ ACTIVE_JOBS_MAX \in Nat \ {0}
BY OffersAssumption, LimitsAssumption, RangeOfSeq DEF RegistryProofs!Job, Offered

\* What a lookup of a known id finds, in the words of the handler.
LEMMA Lookup ==
    ASSUME RegistryProofs!IInv, NEW i, Registry!contains(i)
    PROVE  /\ Registry!get_job(i).template \in Template
           /\ id(Registry!get_job(i).template) = i
<1>1. i \in DOMAIN by_id /\ Registry!get_job(i) = by_id[i]
  BY DEF Registry!contains, Registry!get_job
<1>2. by_id[i] \in Range(Offers) /\ by_id[i].job_id = i
  BY <1>1 DEF RegistryProofs!IInv, RegistryProofs!TypeOK, RegistryProofs!Consistent
<1>3. QED
  BY <1>1, <1>2, Templates

LEMMA RegistrationStep ==
    ASSUME RegistryProofs!IInv, NEW job \in Range(Offers), Registry!register(job)
    PROVE  RegistryProofs!IInv'
<1>1. RegistryProofs!register(job)
  BY DEF Registry!register, Registry!RegisterClean, Registry!RegisterKnown,
         Registry!RegisterNew, Registry!contains, Registry!Installed, Registry!Surviving,
         Registry!Evicted, Registry!Range, Registry!vars, RegistryProofs!Range,
         RegistryProofs!register, RegistryProofs!RegisterClean,
         RegistryProofs!RegisterKnown, RegistryProofs!RegisterNew,
         RegistryProofs!contains, RegistryProofs!Installed, RegistryProofs!Surviving,
         RegistryProofs!Evicted, RegistryProofs!vars
<1>2. RegistryProofs!Next
  BY <1>1 DEF RegistryProofs!Next
<1>3. QED
  BY <1>2, RegistryConstants, RegistryProofs!StepIInv

LEMMA RegistryStays ==
    ASSUME RegistryProofs!IInv, UNCHANGED registryVars
    PROVE  RegistryProofs!IInv'
<1>1. UNCHANGED RegistryProofs!vars
  BY DEF registryVars, RegistryProofs!vars
<1>2. QED
  BY <1>1, RegistryConstants, RegistryProofs!StepIInv

LEMMA Judgement ==
    ASSUME RegistryProofs!IInv, NEW sh \in Shares
    PROVE  judge(sh) \in Result /\ (judge(sh) = "Block" => Solves(sh))
<1>1. sh.verdict \in [Template -> Verdict]
  BY SharesAssumption DEF Share
<1>2. CASE ~sh.context_ok \/ ~Registry!contains(sh.job_id)
  BY <1>2 DEF judge, Result, Verdict
<1>3. CASE sh.context_ok /\ Registry!contains(sh.job_id)
  <2> DEFINE t == Registry!get_job(sh.job_id).template
  <2>1. t \in Template /\ id(t) = sh.job_id
    BY <1>3, Lookup
  <2>2. judge(sh) = sh.verdict[t]
    BY <1>3 DEF judge
  <2> HIDE DEF t
  <2>3. QED
    BY <1>1, <2>1, <2>2 DEF Result, Solves
<1>4. QED
  BY <1>2, <1>3

-----------------------------------------------------------------------------
LEMMA InitIInv == Init => IInv
<1> SUFFICES ASSUME Init PROVE IInv
  OBVIOUS
<1>1. /\ tip = 1 /\ recent = << >> /\ attempts = << >> /\ candidates = {}
      /\ pc = [s \in Session |-> "idle"]
      /\ share = [s \in Session |-> NoShare]
      /\ result = [s \in Session |-> "none"]
      /\ solved = [s \in Session |-> None]
      /\ answer = [s \in Session |-> None]
      /\ outcome = [s \in Session |-> NoOutcome]
      /\ found = [s \in Session |-> None]
  BY DEF Init
<1>2. HandlerTypes
  <2>1. tip \in Template
    BY <1>1, OffersAssumption, EmptySeq DEF Template
  <2>2. QED
    BY <1>1, <2>1, HonestLog DEF HandlerTypes, Steps
<1>3. LogTypes
  BY <1>1, EmptySeq, LimitsAssumption DEF LogTypes
<1>4. RegistryProofs!Init
  BY DEF Init, Registry!Init, RegistryProofs!Init
<1>5. RegistryProofs!IInv
  BY <1>4, RegistryConstants, RegistryProofs!InitIInv
<1>6. \A s \in Session : ShareOK(s) /\ CandidateStepOK(s)
  BY <1>1 DEF ShareOK, CandidateStepOK
<1>7. QED
  BY <1>1, <1>2, <1>3, <1>5, <1>6 DEF IInv

\* A session in the same place with the same share: nothing to show.
LEMMA Elsewhere ==
    ASSUME NEW s \in Session, ShareOK(s), CandidateStepOK(s), HandlerTypes,
           tip' \in Template, tip' >= tip,
           pc'[s] = pc[s], share'[s] = share[s], result'[s] = result[s],
           solved'[s] = solved[s], answer'[s] = answer[s], found'[s] = found[s]
    PROVE  ShareOK(s)' /\ CandidateStepOK(s)'
<1>1. found[s] \in Template /\ found[s] =< tip => found[s] =< tip'
  BY Templates DEF HandlerTypes
<1>2. ShareOK(s)'
  BY <1>1 DEF ShareOK, Solves
<1>3. CandidateStepOK(s)'
  BY DEF CandidateStepOK, id
<1>4. QED
  BY <1>2, <1>3

LEMMA OthersStep == IInv /\ (NewTemplate \/ Notified) => IInv'
<1> SUFFICES ASSUME IInv, NewTemplate \/ Notified PROVE IInv'
  OBVIOUS
<1>1. /\ UNCHANGED << pc, share, result, solved, answer, outcome, found >>
      /\ UNCHANGED << recent, attempts, candidates >>
  BY DEF NewTemplate, Notified, handlerVars
<1>2. tip' \in Template /\ tip' >= tip
  BY Templates DEF NewTemplate, Notified, IInv, HandlerTypes, Template
<1>3. RegistryProofs!IInv'
  <2>1. ASSUME NEW t \in 1 .. tip, Registry!register(Offers[t]) PROVE RegistryProofs!IInv'
    <3>1. t \in Template
      BY Templates DEF IInv, HandlerTypes, Template
    <3>2. Offers[t] \in Range(Offers)
      BY <3>1, Templates
    <3>3. QED
      BY <2>1, <3>2, RegistrationStep DEF IInv
  <2>2. QED
    BY <2>1, RegistryStays DEF IInv, NewTemplate, Notified
<1>4. HandlerTypes' /\ LogTypes'
  BY <1>1, <1>2 DEF IInv, HandlerTypes, LogTypes
<1>5. \A s \in Session : ShareOK(s)' /\ CandidateStepOK(s)'
  BY <1>1, <1>2, Elsewhere DEF IInv
<1>6. QED
  BY <1>1, <1>3, <1>4, <1>5 DEF IInv

\* What is left to show of a step of session s.
LEMMA OneSession ==
    ASSUME IInv, NEW s \in Session, HandlerTypes', LogTypes',
           UNCHANGED << tip, registryVars >>,
           \A r \in Session \ {s} :
              /\ pc'[r] = pc[r] /\ share'[r] = share[r] /\ result'[r] = result[r]
              /\ solved'[r] = solved[r] /\ answer'[r] = answer[r] /\ found'[r] = found[r],
           ShareOK(s)', CandidateStepOK(s)',
           \A c \in candidates' : CandidateOK(c)
    PROVE  IInv'
<1>1. tip' \in Template /\ tip' >= tip
  BY Templates DEF IInv, HandlerTypes
<1>2. ASSUME NEW r \in Session PROVE ShareOK(r)' /\ CandidateStepOK(r)'
  <2>1. CASE r = s
    BY <2>1
  <2>2. CASE r # s
    BY <1>1, <2>2, Elsewhere DEF IInv
  <2>3. QED
    BY <2>1, <2>2
<1>3. RegistryProofs!IInv'
  BY RegistryStays DEF IInv
<1>4. QED
  BY <1>2, <1>3 DEF IInv

LEMMA SubmitStep == ASSUME IInv, NEW s \in Session, Submit(s) PROVE IInv'
<1>1. PICK sh \in Shares : /\ share' = [share EXCEPT ![s] = sh]
                           /\ result' = [result EXCEPT ![s] = judge(sh)]
  BY DEF Submit
<1>2. /\ pc' = [pc EXCEPT ![s] = "judged"]
      /\ found' = [found EXCEPT ![s] = tip]
      /\ UNCHANGED << tip, registryVars, solved, answer, outcome, recent, attempts, candidates >>
  BY DEF Submit, goto
<1>3. judge(sh) \in Result /\ (judge(sh) = "Block" => Solves(sh))
  BY Judgement DEF IInv
<1>4. HandlerTypes' /\ LogTypes'
  BY <1>1, <1>2, <1>3 DEF IInv, HandlerTypes, LogTypes, Steps
<1>5. /\ pc'[s] = "judged" /\ share'[s] = sh /\ result'[s] = judge(sh) /\ found'[s] = tip
      /\ \A r \in Session \ {s} : /\ pc'[r] = pc[r] /\ share'[r] = share[r]
                                  /\ result'[r] = result[r] /\ found'[r] = found[r]
  BY <1>1, <1>2 DEF IInv, HandlerTypes
<1>6. tip \in Template /\ tip =< tip
  BY Templates DEF IInv, HandlerTypes
<1>7. ShareOK(s)' /\ CandidateStepOK(s)'
  BY <1>2, <1>3, <1>5, <1>6 DEF ShareOK, CandidateStepOK, Solves
<1>8. QED
  BY <1>2, <1>4, <1>5, <1>7, OneSession DEF IInv

LEMMA RecordStep == ASSUME IInv, NEW s \in Session, Record(s) PROVE IInv'
<1>1. /\ pc[s] = "judged" /\ pc' = [pc EXCEPT ![s] = "recorded"]
      /\ recent' = Append(IF Len(recent) >= MAX_RECENT THEN Tail(recent) ELSE recent, attempt(s))
      /\ attempts' = Append(attempts, attempt(s))
      /\ UNCHANGED << tip, registryVars, share, result, solved, answer, outcome, found, candidates >>
  BY DEF Record, goto
<1>2. attempt(s) \in Attempt
  BY <1>1, SharesAssumption DEF IInv, ShareOK, attempt, Attempt, Share, is_accepted
<1>3. LogTypes'
  <2> DEFINE kept == IF Len(recent) >= MAX_RECENT THEN Tail(recent) ELSE recent
  <2>1. kept \in Seq(Attempt) /\ Len(kept) + 1 =< MAX_RECENT
    <3>1. recent \in Seq(Attempt) /\ Len(recent) =< MAX_RECENT /\ Len(recent) \in Nat
      BY LenProperties DEF IInv, LogTypes
    <3>2. CASE Len(recent) >= MAX_RECENT
      <4>1. recent # << >> /\ Len(recent) = MAX_RECENT
        BY <3>1, <3>2, LimitsAssumption, EmptySeq
      <4>2. Tail(recent) \in Seq(Attempt) /\ Len(Tail(recent)) = Len(recent) - 1
        BY <3>1, <4>1, HeadTailProperties
      <4>3. QED
        BY <3>1, <3>2, <4>1, <4>2
    <3>3. CASE ~(Len(recent) >= MAX_RECENT)
      BY <3>1, <3>3, LimitsAssumption
    <3>4. QED
      BY <3>2, <3>3
  <2>2. recent' = Append(kept, attempt(s))
    BY <1>1
  <2> HIDE DEF kept
  <2>3. recent' \in Seq(Attempt) /\ Len(recent') = Len(kept) + 1
    BY <1>2, <2>1, <2>2, AppendProperties
  <2>4. attempts' \in Seq(Attempt)
    BY <1>1, <1>2, AppendProperties DEF IInv, LogTypes
  <2>5. QED
    BY <2>1, <2>3, <2>4 DEF LogTypes
<1>4. HandlerTypes'
  BY <1>1 DEF IInv, HandlerTypes, Steps
<1>5. pc'[s] = "recorded" /\ \A r \in Session \ {s} : pc'[r] = pc[r]
  BY <1>1 DEF IInv, HandlerTypes
<1>6. ShareOK(s)' /\ CandidateStepOK(s)'
  BY <1>1, <1>5 DEF IInv, ShareOK, CandidateStepOK, Solves
<1>7. QED
  BY <1>1, <1>3, <1>4, <1>5, <1>6, OneSession DEF IInv

\* Reported, JobMissing, Stale and Unbuildable do no more than go on.
LEMMA MoveStep ==
    ASSUME IInv, NEW s \in Session,
           Reported(s) \/ JobMissing(s) \/ Stale(s) \/ Unbuildable(s)
    PROVE  IInv'
<1>1. PICK to \in {"candidate", "replying"} :
         /\ pc[s] # "idle" /\ pc' = [pc EXCEPT ![s] = to]
         /\ to = "candidate" => result[s] = "Block"
  BY DEF Reported, JobMissing, Stale, Unbuildable, goto
<1>2. UNCHANGED << tip, registryVars, share, result, solved, answer, found,
                   recent, attempts, candidates >>
  BY DEF Reported, JobMissing, Stale, Unbuildable
<1>3. outcome' \in [Session -> Honest]
  <2>1. CASE Unbuildable(s)
    BY <2>1, HonestLog DEF Unbuildable, IInv, HandlerTypes
  <2>2. CASE Reported(s) \/ JobMissing(s) \/ Stale(s)
    <3>1. UNCHANGED outcome
      BY <2>2 DEF Reported, JobMissing, Stale
    <3>2. QED
      BY <3>1 DEF IInv, HandlerTypes
  <2>3. QED
    BY <2>1, <2>2
<1>4. HandlerTypes' /\ LogTypes'
  BY <1>1, <1>2, <1>3 DEF IInv, HandlerTypes, LogTypes, Steps
<1>5. pc'[s] = to /\ \A r \in Session \ {s} : pc'[r] = pc[r]
  BY <1>1 DEF IInv, HandlerTypes
<1>6. ShareOK(s)' /\ CandidateStepOK(s)'
  BY <1>1, <1>2, <1>5 DEF IInv, ShareOK, CandidateStepOK, Solves
<1>7. QED
  BY <1>2, <1>4, <1>5, <1>6, OneSession DEF IInv

LEMMA JobFoundStep == ASSUME IInv, NEW s \in Session, JobFound(s) PROVE IInv'
<1> DEFINE t == Registry!get_job(share[s].job_id).template
<1>1. /\ pc[s] = "candidate" /\ pc' = [pc EXCEPT ![s] = "asking"]
      /\ solved' = [solved EXCEPT ![s] = t]
      /\ UNCHANGED << tip, registryVars, share, result, answer, outcome, found,
                      recent, attempts, candidates >>
  BY DEF JobFound, goto
<1>2. t \in Template /\ id(t) = share[s].job_id
  BY Lookup DEF IInv, JobFound
<1> HIDE DEF t
<1>3. HandlerTypes' /\ LogTypes'
  BY <1>1, <1>2 DEF IInv, HandlerTypes, LogTypes, Steps
<1>4. /\ pc'[s] = "asking" /\ solved'[s] = t
      /\ \A r \in Session \ {s} : pc'[r] = pc[r] /\ solved'[r] = solved[r]
  BY <1>1 DEF IInv, HandlerTypes
<1>5. ShareOK(s)' /\ CandidateStepOK(s)'
  BY <1>1, <1>2, <1>4 DEF IInv, ShareOK, CandidateStepOK, Solves, id
<1>6. QED
  BY <1>1, <1>3, <1>4, <1>5, OneSession DEF IInv

\* The daemon's answer is its tip, and the share was judged before.
LEMMA AnsweredStep == ASSUME IInv, NEW s \in Session, Answered(s) PROVE IInv'
<1>1. PICK t \in {tip, None} : answer' = [answer EXCEPT ![s] = t]
  BY DEF Answered, current_job
<1>2. /\ pc[s] = "asking" /\ pc' = [pc EXCEPT ![s] = "guarding"]
      /\ UNCHANGED << tip, registryVars, share, result, solved, outcome, found,
                      recent, attempts, candidates >>
  BY DEF Answered, goto
<1>3. HandlerTypes' /\ LogTypes'
  BY <1>1, <1>2 DEF IInv, HandlerTypes, LogTypes, Steps
<1>4. /\ pc'[s] = "guarding" /\ answer'[s] = t
      /\ \A r \in Session \ {s} : pc'[r] = pc[r] /\ answer'[r] = answer[r]
  BY <1>1, <1>2 DEF IInv, HandlerTypes
<1>5. t # None => t >= found[s]
  BY <1>1, <1>2, Templates DEF IInv, HandlerTypes, ShareOK
<1>6. ShareOK(s)' /\ CandidateStepOK(s)'
  BY <1>2, <1>4, <1>5 DEF IInv, ShareOK, CandidateStepOK, Solves, id
<1>7. QED
  BY <1>2, <1>3, <1>4, <1>6, OneSession DEF IInv

LEMMA SubmitBlockStep == ASSUME IInv, NEW s \in Session, SubmitBlock(s) PROVE IInv'
<1>1. /\ pc[s] = "guarding" /\ pc' = [pc EXCEPT ![s] = "replying"]
      /\ ~stale(s)
      /\ candidates' = candidates \cup {candidate(s)}
      /\ UNCHANGED << tip, registryVars, share, result, solved, answer, found, recent, attempts >>
  BY DEF SubmitBlock, goto
<1>2. /\ share[s] \in Shares /\ found[s] \in Template /\ result[s] = "Block"
      /\ Solves(share[s])
      /\ solved[s] \in Template /\ id(solved[s]) = share[s].job_id
      /\ answer[s] # None => answer[s] >= found[s]
  BY <1>1 DEF IInv, ShareOK, CandidateStepOK
<1>3. outcome' \in [Session -> Honest]
  <2>1. PICK verdict \in Verdicts : \E r \in SubmitAnswers(verdict) \cup Disturbed :
           outcome' = [outcome EXCEPT ![s] =
                         [daemon |-> verdict, told |-> r \in SubmitAnswers(verdict),
                          logged |-> classified(submit_block(r))]]
    BY DEF SubmitBlock
  <2>2. PICK o \in Honest : outcome' = [outcome EXCEPT ![s] = o]
    BY <2>1, HonestLog
  <2>3. QED
    BY <2>2 DEF IInv, HandlerTypes
<1>4. HandlerTypes' /\ LogTypes'
  <2>1. candidate(s) \in [share : Shares, template : Template, found : Template,
                          answer : Template \cup {None}, tip : Template]
    BY <1>2 DEF IInv, HandlerTypes, candidate
  <2>2. QED
    BY <1>1, <1>3, <2>1 DEF IInv, HandlerTypes, LogTypes, Steps
<1>5. CandidateOK(candidate(s))
  BY <1>1, <1>2 DEF CandidateOK, candidate, stale
<1>6. \A c \in candidates' : CandidateOK(c)
  BY <1>1, <1>5 DEF IInv
<1>7. pc'[s] = "replying" /\ \A r \in Session \ {s} : pc'[r] = pc[r]
  BY <1>1 DEF IInv, HandlerTypes
<1>8. ShareOK(s)' /\ CandidateStepOK(s)'
  BY <1>1, <1>2, <1>7 DEF IInv, ShareOK, CandidateStepOK, Solves
<1>9. QED
  BY <1>1, <1>4, <1>6, <1>7, <1>8, OneSession

LEMMA ReplyStep == ASSUME IInv, NEW s \in Session, Reply(s) PROVE IInv'
<1>1. /\ pc' = [pc EXCEPT ![s] = "idle"]
      /\ share' = [share EXCEPT ![s] = NoShare]
      /\ result' = [result EXCEPT ![s] = "none"]
      /\ solved' = [solved EXCEPT ![s] = None]
      /\ answer' = [answer EXCEPT ![s] = None]
      /\ outcome' = [outcome EXCEPT ![s] = NoOutcome]
      /\ found' = [found EXCEPT ![s] = None]
      /\ UNCHANGED << tip, registryVars, recent, attempts, candidates >>
  BY DEF Reply, goto
<1>2. HandlerTypes' /\ LogTypes'
  BY <1>1, HonestLog DEF IInv, HandlerTypes, LogTypes, Steps
<1>3. /\ pc'[s] = "idle"
      /\ \A r \in Session \ {s} :
            /\ pc'[r] = pc[r] /\ share'[r] = share[r] /\ result'[r] = result[r]
            /\ solved'[r] = solved[r] /\ answer'[r] = answer[r] /\ found'[r] = found[r]
  BY <1>1 DEF IInv, HandlerTypes
<1>4. ShareOK(s)' /\ CandidateStepOK(s)'
  BY <1>3 DEF ShareOK, CandidateStepOK
<1>5. QED
  BY <1>1, <1>2, <1>3, <1>4, OneSession DEF IInv

LEMMA StepIInv == IInv /\ [Next]_vars => IInv'
<1> SUFFICES ASSUME IInv, [Next]_vars PROVE IInv'
  OBVIOUS
<1>1. CASE UNCHANGED vars
  <2>1. /\ UNCHANGED << tip, pc, share, result, solved, answer, outcome, found >>
        /\ UNCHANGED << recent, attempts, candidates, registryVars >>
    BY <1>1 DEF vars, handlerVars
  <2>2. tip' \in Template /\ tip' >= tip
    BY <2>1, Templates DEF IInv, HandlerTypes
  <2>3. \A s \in Session : ShareOK(s)' /\ CandidateStepOK(s)'
    BY <2>1, <2>2, Elsewhere DEF IInv
  <2>4. RegistryProofs!IInv'
    BY <2>1, RegistryStays DEF IInv
  <2>5. QED
    BY <2>1, <2>3, <2>4 DEF IInv, HandlerTypes, LogTypes
<1>2. CASE \E s \in Session : Submit(s) \/ Handle(s)
  BY <1>2, SubmitStep, RecordStep, MoveStep, JobFoundStep, AnsweredStep, SubmitBlockStep,
     ReplyStep DEF Handle
<1>3. QED
  BY <1>1, <1>2, OthersStep DEF Next

-----------------------------------------------------------------------------
(* The recent-shares buffer. *)

\* A position counted from the start of a suffix, and from the end of the whole.
LEMMA SuffixPosition ==
    ASSUME NEW a \in Int, NEW k \in Int, NEW m \in Int, NEW i \in Int, m - a + 1 = k
    PROVE  a + i - 1 = m - k + i
  OBVIOUS

\* A suffix, by its positions in the whole.
LEMMA SuffixByPosition ==
    ASSUME NEW A, NEW q \in Seq(A), NEW k \in Nat
    PROVE  \A a, m \in Int :
             a >= 1 /\ m = Len(q) /\ m - a + 1 = k =>
               /\ SubSeq(q, a, m) \in Seq(A)
               /\ Len(SubSeq(q, a, m)) = k
               /\ \A i \in 1 .. k : SubSeq(q, a, m)[i] = q[m - k + i]
<1>1. SUFFICES ASSUME NEW a \in Int, NEW m \in Int, a >= 1, m = Len(q), m - a + 1 = k
               PROVE  /\ SubSeq(q, a, m) \in Seq(A)
                      /\ Len(SubSeq(q, a, m)) = k
                      /\ \A i \in 1 .. k : SubSeq(q, a, m)[i] = q[m - k + i]
  OBVIOUS
<1>2. \A i \in a .. m : q[i] \in A
  BY <1>1, ElementOfSeq
<1>3. /\ SubSeq(q, a, m) \in Seq(A)
      /\ Len(SubSeq(q, a, m)) = IF a =< m THEN m - a + 1 ELSE 0
      /\ \A i \in 1 .. m - a + 1 : SubSeq(q, a, m)[i] = q[a + i - 1]
  BY <1>1, <1>2, SubSeqProperties
<1>4. ASSUME NEW i \in 1 .. k
      PROVE  SubSeq(q, a, m)[i] = q[m - k + i]
  <2>1. SubSeq(q, a, m)[i] = q[a + i - 1]
    BY <1>1, <1>3
  <2>2. a + i - 1 = m - k + i
    BY <1>1, SuffixPosition
  <2>3. QED
    BY <2>1, <2>2
<1>5. QED
  BY <1>1, <1>3, <1>4

\* The last n of a sequence, by their positions in it.
LEMMA NewestByPosition ==
    ASSUME NEW A, NEW q \in Seq(A), NEW n \in Nat \ {0}, NEW k \in Nat
    PROVE  k = (IF Len(q) > n THEN n ELSE Len(q)) =>
             /\ Newest(q, n) \in Seq(A) /\ Len(Newest(q, n)) = k
             /\ \A i \in 1 .. k : Newest(q, n)[i] = q[Len(q) - k + i]
<1> DEFINE from == 1 + (IF Len(q) > n THEN Len(q) - n ELSE 0)
<1>1. \A a, m \in Int :
        a >= 1 /\ m = Len(q) /\ m - a + 1 = k =>
          /\ SubSeq(q, a, m) \in Seq(A)
          /\ Len(SubSeq(q, a, m)) = k
          /\ \A i \in 1 .. k : SubSeq(q, a, m)[i] = q[m - k + i]
  BY SuffixByPosition
<1>2. SUFFICES ASSUME k = IF Len(q) > n THEN n ELSE Len(q)
               PROVE  /\ Newest(q, n) \in Seq(A) /\ Len(Newest(q, n)) = k
                      /\ \A i \in 1 .. k : Newest(q, n)[i] = q[Len(q) - k + i]
  OBVIOUS
<1>3. Len(q) \in Int
  BY LenProperties
<1>4. from \in Int /\ from >= 1 /\ Len(q) - from + 1 = k
  BY <1>2, <1>3
<1>5. Newest(q, n) = SubSeq(q, from, Len(q))
  BY DEF Newest
<1> HIDE DEF from
<1>6. /\ SubSeq(q, from, Len(q)) \in Seq(A)
      /\ Len(SubSeq(q, from, Len(q))) = k
      /\ \A i \in 1 .. k : SubSeq(q, from, Len(q))[i] = q[Len(q) - k + i]
  BY <1>1, <1>3, <1>4, Zenon
<1>7. QED
  BY <1>5, <1>6

\* Dropping the oldest of a full buffer keeps it the newest of the history.
LEMMA NewestAppend ==
    ASSUME NEW A, NEW q \in Seq(A), NEW x \in A, NEW n \in Nat \ {0}
    PROVE  Newest(Append(q, x), n)
             = Append(IF Len(Newest(q, n)) >= n THEN Tail(Newest(q, n)) ELSE Newest(q, n), x)
<1> DEFINE old == Newest(q, n)
           new == Newest(Append(q, x), n)
           kept == IF Len(old) >= n THEN Tail(old) ELSE old
           k == IF Len(q) > n THEN n ELSE Len(q)
           l == IF Len(q) + 1 > n THEN n ELSE Len(q) + 1
<1>1. /\ Len(q) \in Nat /\ k \in Nat /\ l \in Nat
      /\ Append(q, x) \in Seq(A) /\ Len(Append(q, x)) = Len(q) + 1
      /\ \A i \in 1 .. Len(q) : Append(q, x)[i] = q[i]
      /\ Append(q, x)[Len(q) + 1] = x
  BY LenProperties, AppendProperties
<1>2. /\ old \in Seq(A) /\ Len(old) = k
      /\ \A i \in 1 .. k : old[i] = q[Len(q) - k + i]
  BY <1>1, NewestByPosition
<1>3. /\ new \in Seq(A) /\ Len(new) = l
      /\ \A i \in 1 .. l : new[i] = Append(q, x)[Len(q) + 1 - l + i]
  <2> DEFINE p == Append(q, x)
  <2>1. p \in Seq(A) /\ Len(p) = Len(q) + 1
    BY <1>1
  <2>2. new = Newest(p, n)
    OBVIOUS
  <2>3. l \in Nat /\ l = IF Len(p) > n THEN n ELSE Len(p)
    BY <1>1, <2>1
  <2>6. \A i : Len(q) + 1 - l + i = Len(p) - l + i
    BY <2>1
  <2> HIDE DEF p, l, new
  <2>4. /\ Newest(p, n) \in Seq(A) /\ Len(Newest(p, n)) = l
        /\ \A i \in 1 .. l : Newest(p, n)[i] = p[Len(p) - l + i]
    BY <2>1, <2>3, NewestByPosition, Zenon
  <2>5. QED
    BY <2>2, <2>4, <2>6 DEF p
<1>0. /\ k = IF Len(q) > n THEN n ELSE Len(q)
      /\ l = IF Len(q) + 1 > n THEN n ELSE Len(q) + 1
  OBVIOUS
<1> HIDE DEF old, new, k, l
<1>4. /\ kept \in Seq(A) /\ Len(kept) = l - 1
      /\ \A i \in 1 .. l - 1 : kept[i] = q[Len(q) + 1 - l + i]
  <2>1. CASE Len(old) >= n
    <3>1. old # << >> /\ k = n /\ l = n /\ Len(q) >= n
      BY <1>0, <1>1, <1>2, <2>1, EmptySeq
    <3>2. /\ Tail(old) \in Seq(A) /\ Len(Tail(old)) = k - 1
          /\ \A i \in 1 .. k - 1 : Tail(old)[i] = old[i + 1]
      BY <1>2, <3>1, HeadTailProperties
    <3>3. ASSUME NEW i \in 1 .. l - 1
          PROVE  kept[i] = q[Len(q) + 1 - l + i]
      <4>1. kept[i] = old[i + 1] /\ i + 1 \in 1 .. k
        BY <1>1, <2>1, <3>1, <3>2
      <4>2. old[i + 1] = q[Len(q) - k + (i + 1)]
        BY <1>2, <4>1
      <4>3. Len(q) - k + (i + 1) = Len(q) + 1 - l + i
        BY <1>1, <3>1
      <4>4. QED
        BY <4>1, <4>2, <4>3
    <3>4. QED
      BY <2>1, <3>1, <3>2, <3>3
  <2>2. CASE ~(Len(old) >= n)
    <3>1. kept = old /\ k = Len(q) /\ l = Len(q) + 1
      BY <1>0, <1>1, <1>2, <2>2
    <3>2. QED
      BY <1>1, <1>2, <3>1
  <2>3. QED
    BY <2>1, <2>2
<1> HIDE DEF kept
<1>5. /\ Append(kept, x) \in Seq(A) /\ Len(Append(kept, x)) = l
      /\ \A i \in 1 .. l - 1 : Append(kept, x)[i] = kept[i]
      /\ Append(kept, x)[l] = x
  BY <1>1, <1>4, AppendProperties
<1>6. l - 1 =< Len(q)
  BY <1>0, <1>1
<1>7. ASSUME NEW i \in 1 .. l
      PROVE  new[i] = Append(kept, x)[i]
  <2>1. CASE i = l
    BY <1>1, <1>3, <1>5, <2>1
  <2>2. CASE i # l
    <3>1. i \in 1 .. l - 1 /\ Len(q) + 1 - l + i \in 1 .. Len(q)
      BY <1>1, <1>6, <2>2
    <3>2. QED
      BY <1>1, <1>3, <1>4, <1>5, <3>1
  <2>3. QED
    BY <2>1, <2>2
<1>8. new = Append(kept, x)
  BY <1>3, <1>5, <1>7, SeqEqual
<1>9. QED
  BY <1>8 DEF old, new, kept

\* Every step but Record leaves alone what was recorded, and of whom.
LEMMA QuietStep ==
    ASSUME IInv, [Next]_vars, \A s \in Session : ~Record(s)
    PROVE  /\ UNCHANGED << recent, attempts >>
           /\ \A s \in Past' : s \in Past /\ share'[s] = share[s] /\ result'[s] = result[s]
<1>1. CASE UNCHANGED vars \/ NewTemplate \/ Notified
  BY <1>1 DEF vars, handlerVars, NewTemplate, Notified, Past
<1>2. ASSUME NEW s \in Session, Submit(s) \/ Handle(s)
      PROVE  /\ UNCHANGED << recent, attempts >>
             /\ \A r \in Past' : r \in Past /\ share'[r] = share[r] /\ result'[r] = result[r]
  <2>1. CASE Submit(s)
    BY <2>1 DEF Submit, goto, Past, IInv, HandlerTypes
  <2>2. CASE Reply(s)
    BY <2>2 DEF Reply, goto, Past, IInv, HandlerTypes
  <2>3. CASE \/ Reported(s) \/ JobMissing(s) \/ JobFound(s) \/ Answered(s)
             \/ Stale(s) \/ Unbuildable(s) \/ SubmitBlock(s)
    <3>1. /\ UNCHANGED << recent, attempts, share, result >>
          /\ pc[s] \in {"recorded", "candidate", "asking", "guarding"}
          /\ \E to \in Steps : pc' = [pc EXCEPT ![s] = to]
      BY <2>3 DEF Reported, JobMissing, JobFound, Answered, Stale, Unbuildable, SubmitBlock,
                  goto, Steps
    <3>2. QED
      BY <3>1 DEF Past, IInv, HandlerTypes
  <2>4. QED
    BY <1>2, <2>1, <2>2, <2>3 DEF Handle
<1>3. QED
  BY <1>1, <1>2 DEF Next

LEMMA AccountedStep == IInv /\ Accounted /\ [Next]_vars => Accounted'
<1> SUFFICES ASSUME IInv, Accounted, [Next]_vars PROVE Accounted'
  OBVIOUS
<1>1. ASSUME NEW s \in Session, Record(s) PROVE Accounted'
  <2>1. /\ pc[s] = "judged" /\ pc' = [pc EXCEPT ![s] = "recorded"]
        /\ recent' = Append(IF Len(recent) >= MAX_RECENT THEN Tail(recent) ELSE recent,
                            attempt(s))
        /\ attempts' = Append(attempts, attempt(s))
        /\ share' = share /\ result' = result
    BY <1>1 DEF Record, goto
  <2>2. attempt(s) \in Attempt
    BY <2>1, SharesAssumption DEF IInv, ShareOK, attempt, Attempt, Share, is_accepted
  <2>3. attempts \in Seq(Attempt) /\ MAX_RECENT \in Nat \ {0}
    BY LimitsAssumption DEF IInv, LogTypes
  <2>4. recent' = Newest(attempts', MAX_RECENT)
    BY <2>1, <2>2, <2>3, NewestAppend DEF Accounted
  <2>5. Range(attempts') = Range(attempts) \cup {attempt(s)}
    <3>1. /\ DOMAIN attempts = 1 .. Len(attempts) /\ Len(attempts) \in Nat
          /\ DOMAIN attempts' = 1 .. Len(attempts) + 1
          /\ \A i \in 1 .. Len(attempts) : attempts'[i] = attempts[i]
          /\ attempts'[Len(attempts) + 1] = attempt(s)
      BY <2>1, <2>2, <2>3, AppendProperties, LenProperties
    <3>2. QED
      BY <3>1 DEF Range
  <2>6. ASSUME NEW r \in Past' PROVE attempt(r)' \in Range(attempts')
    <3>1. attempt(r)' = attempt(r)
      BY <2>1 DEF attempt
    <3>2. r = s \/ r \in Past
      BY <2>1 DEF Past, IInv, HandlerTypes
    <3>3. QED
      BY <2>5, <3>1, <3>2 DEF Accounted
  <2>7. QED
    BY <2>4, <2>6 DEF Accounted
<1>2. CASE \A s \in Session : ~Record(s)
  <2>1. /\ UNCHANGED << recent, attempts >>
        /\ \A s \in Past' : s \in Past /\ share'[s] = share[s] /\ result'[s] = result[s]
    BY <1>2, QuietStep
  <2>2. \A s \in Past' : attempt(s)' = attempt(s)
    BY <2>1 DEF attempt
  <2>3. QED
    BY <2>1, <2>2 DEF Accounted, Newest
<1>3. QED
  BY <1>1, <1>2

LEMMA InitAccounted == Init => Accounted
<1> SUFFICES ASSUME Init PROVE Accounted
  OBVIOUS
<1>1. recent = << >> /\ attempts = << >> /\ Past = {}
  BY DEF Init, Past
<1>2. Newest(<< >>, MAX_RECENT) = << >>
  <2>1. << >> \in Seq(Attempt) /\ Len(<< >>) = 0
    BY EmptySeq
  <2> DEFINE k == IF Len(<< >>) > MAX_RECENT THEN MAX_RECENT ELSE Len(<< >>)
  <2>2. k = 0
    BY <2>1, LimitsAssumption
  <2> HIDE DEF k
  <2>3. Newest(<< >>, MAX_RECENT) \in Seq(Attempt) /\ Len(Newest(<< >>, MAX_RECENT)) = 0
    BY <2>1, <2>2, NewestByPosition, LimitsAssumption DEF k
  <2>4. QED
    BY <2>3, EmptySeq
<1>3. QED
  BY <1>1, <1>2 DEF Accounted

-----------------------------------------------------------------------------
(* All that is kept, and what follows of it.                               *)

Kept == IInv /\ Accounted

LEMMA InitKept == Init => Kept
BY InitIInv, InitAccounted DEF Kept

LEMMA StepKept == Kept /\ [Next]_vars => Kept'
BY StepIInv, AccountedStep DEF Kept

LEMMA KeptIsEnough ==
    Kept => /\ TypeOK /\ Accounted /\ SubmittedIsAccepted
            /\ BlocksAreSolutions /\ NotStaleWhenFound
<1>1. IInv => TypeOK
  BY DEF IInv, HandlerTypes, Honest, LogTypes, TypeOK, Registry!TypeOK,
         RegistryProofs!IInv, RegistryProofs!TypeOK
<1>2. IInv => SubmittedIsAccepted
  BY DEF IInv, HandlerTypes, Honest, SubmittedIsAccepted
<1>3. IInv => BlocksAreSolutions
  BY DEF IInv, HandlerTypes, CandidateOK, Solves, DistinctIds, BlocksAreSolutions
<1>4. IInv => NotStaleWhenFound
  BY DEF IInv, HandlerTypes, CandidateOK, DistinctIds, NotStaleWhenFound
<1>5. QED
  BY <1>1, <1>2, <1>3, <1>4 DEF Kept

(***************************************************************************)
(* Every variable of the share path stays in its type: the recent buffer   *)
(* never outgrows its limit and nothing but a share in hand is recorded.   *)
(***************************************************************************)
THEOREM SubmissionTypeOK == Spec => []TypeOK
BY InitKept, StepKept, KeptIsEnough, PTL DEF Spec

(***************************************************************************)
(* A block is logged as Submitted exactly if the daemon took it and said   *)
(* so: submit_block reads an answer as Ok(true) in no other case.          *)
(***************************************************************************)
THEOREM SubmissionSubmittedIsAccepted == Spec => []SubmittedIsAccepted
BY InitKept, StepKept, KeptIsEnough, PTL DEF Spec

(***************************************************************************)
(* With unique job ids, maybe_submit_block_candidate submits only headers  *)
(* that solve their template, whatever was registered since the share was  *)
(* judged.                                                                 *)
(***************************************************************************)
THEOREM SubmissionBlocksAreSolutions == Spec => []BlocksAreSolutions
BY InitKept, StepKept, KeptIsEnough, PTL DEF Spec

(***************************************************************************)
(* With unique job ids and an answer from current_job(), the stale guard   *)
(* lets no block pass whose template was stale when its share was judged.  *)
(***************************************************************************)
THEOREM SubmissionNotStaleWhenFound == Spec => []NotStaleWhenFound
BY InitKept, StepKept, KeptIsEnough, PTL DEF Spec

(***************************************************************************)
(* RecentSharesBuffer is the newest MAX_RECENT of all attempts, in the     *)
(* order in which any number of sessions recorded them, and every share    *)
(* past its record is among them with the verdict its miner is told.       *)
(***************************************************************************)
THEOREM SubmissionAccounted == Spec => []Accounted
BY InitKept, StepKept, KeptIsEnough, PTL DEF Spec
=============================================================================
