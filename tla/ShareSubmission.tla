--------------------------- MODULE ShareSubmission ----------------------------
(***************************************************************************)
(* What happens to a share: JobAwareShareProcessor judges and records it,  *)
(* and for a block Sv1SessionHandler builds a candidate and submits it.    *)
(*                                                                         *)
(* A session handles one share at a time and is never cancelled on the way *)
(* (dispatch_request is awaited inside a select! arm), but at each of its  *)
(* awaits other sessions may register jobs and the daemon may move on.     *)
(* Which job another session registers is left open: any the daemon has    *)
(* offered so far, as JobDistribution allows.                              *)
(*                                                                         *)
(* Slip_... definitions: see ActiveJobRegistry.                            *)
(***************************************************************************)
EXTENDS Naturals, Sequences, Functions, FiniteSets, DaemonRpc

CONSTANTS
    Session,
    JobId,
    Offers,            \* the jobs of the daemon's successive templates
    Assembled,         \* the templates whose job carries block_assembly
    Shares,            \* what miners submit
    ACTIVE_JOBS_MAX,
    MAX_RECENT,        \* 100 in share_buffer.rs
    MaxShares          \* bounds the shares submitted in a run

Template == 1 .. Len(Offers)
None     == 0            \* current_job() returned no job

Verdict == {"Block", "Accepted", "LowDifficulty", "Rejected"}
Result  == Verdict \cup {"UnknownJob"}

\* A share hashes differently on each template: verdict is what
\* validate_share makes of it.  It is subscribed if its session is: without
\* a mining.subscribe the session has no extranonce1.
Share == [job_id : JobId, context_ok : BOOLEAN, subscribed : BOOLEAN,
          verdict : [Template -> Verdict]]

Offered == [job_id : JobId, template : Template, clean_jobs : BOOLEAN]

ASSUME OffersAssumption ==
    /\ Offers \in Seq(Offered) /\ Offers # << >>
    /\ \A t \in Template : Offers[t].template = t
ASSUME SharesAssumption == Shares \subseteq Share /\ Assembled \subseteq Template
ASSUME LimitsAssumption ==
    /\ ACTIVE_JOBS_MAX \in Nat \ {0}
    /\ MAX_RECENT \in Nat \ {0}
    /\ MaxShares \in Nat

id(t) == Offers[t].job_id

VARIABLES
    tip,             \* the template current_job() would answer with
    by_id, order,    \* the registry
    pc,              \* where each session is with its share
    share,           \* the share in hand
    result,          \* what process_share makes of it
    solved,          \* the template of the job read again for the candidate
    answer,          \* what current_job() answered to the stale guard
    outcome,         \* what became of the candidate, as the log tells it
    recent,          \* RecentSharesBuffer, oldest first
    attempts,        \* history: everything recorded
    found,           \* history: the tip when the share was judged
    candidates       \* history: what reached submit_block

registryVars == << by_id, order >>
handlerVars  == << pc, share, result, solved, answer, outcome, found >>
vars == << tip, registryVars, handlerVars, recent, attempts, candidates >>

Registry == INSTANCE ActiveJobRegistry WITH Jobs <- Range(Offers)

NoShare == [job_id |-> "none"]

Attempt == [job_id : JobId, accepted : BOOLEAN]

\* What the daemon made of the block, whether its own answer arrived, and
\* what the pool's log says.
Outcome == [daemon : Verdicts, told : BOOLEAN, logged : {"Submitted", "Rejected", "LocalError"}]
NotAsked == [daemon |-> "not asked", told |-> FALSE, logged |-> "LocalError"]
NoOutcome == [daemon |-> "not asked", told |-> FALSE, logged |-> "nothing"]

Steps == {"idle", "judged", "recorded", "candidate", "asking", "guarding", "replying"}

TypeOK ==
    /\ tip \in Template
    /\ Registry!TypeOK
    /\ pc \in [Session -> Steps]
    /\ share \in [Session -> Shares \cup {NoShare}]
    /\ result \in [Session -> Result \cup {"none"}]
    /\ solved \in [Session -> Template \cup {None}]
    /\ answer \in [Session -> Template \cup {None}]
    /\ outcome \in [Session -> Outcome \cup {NotAsked, NoOutcome}]
    /\ found \in [Session -> Template \cup {None}]
    /\ recent \in Seq(Attempt) /\ Len(recent) =< MAX_RECENT
    /\ attempts \in Seq(Attempt)
    /\ candidates \subseteq [share : Shares, template : Template, found : Template,
                             answer : Template \cup {None}, tip : Template]

Init ==
    /\ tip = 1
    /\ Registry!Init
    /\ pc = [s \in Session |-> "idle"]
    /\ share = [s \in Session |-> NoShare]
    /\ result = [s \in Session |-> "none"]
    /\ solved = [s \in Session |-> None]
    /\ answer = [s \in Session |-> None]
    /\ outcome = [s \in Session |-> NoOutcome]
    /\ found = [s \in Session |-> None]
    /\ recent = << >>
    /\ attempts = << >>
    /\ candidates = {}

goto(s, from, to) == pc[s] = from /\ pc' = [pc EXCEPT ![s] = to]

-----------------------------------------------------------------------------
(* The rest of the pool.                                                   *)

NewTemplate ==
    /\ tip < Len(Offers)
    /\ tip' = tip + 1
    /\ UNCHANGED << registryVars, handlerVars, recent, attempts, candidates >>

Notified ==
    /\ \E t \in 1 .. tip : Registry!register(Offers[t])
    /\ UNCHANGED << tip, handlerVars, recent, attempts, candidates >>

-----------------------------------------------------------------------------
(* process_share                                                           *)

judge(sh) ==
    IF ~sh.context_ok THEN "Rejected"
    ELSE IF ~Registry!contains(sh.job_id) THEN "UnknownJob"
    ELSE sh.verdict[Registry!get_job(sh.job_id).template]

is_accepted(r) == r \in {"Accepted", "Block"}

InHand == {s \in Session : pc[s] = "judged"}

Submit(s) ==
    /\ Len(attempts) + Cardinality(InHand) < MaxShares
    /\ goto(s, "idle", "judged")
    /\ \E sh \in Shares : /\ share' = [share EXCEPT ![s] = sh]
                          /\ result' = [result EXCEPT ![s] = judge(sh)]
    /\ found' = [found EXCEPT ![s] = tip]
    /\ UNCHANGED << tip, registryVars, solved, answer, outcome, recent, attempts, candidates >>

attempt(s) == [job_id |-> share[s].job_id, accepted |-> is_accepted(result[s])]

Slip_OneTooMany(s) ==
    /\ goto(s, "judged", "recorded")
    /\ recent' = Append(IF Len(recent) > MAX_RECENT THEN Tail(recent) ELSE recent,
                        attempt(s))
    /\ attempts' = Append(attempts, attempt(s))
    /\ UNCHANGED << tip, registryVars, share, result, solved, answer, outcome, found, candidates >>

Slip_FullTakesNone(s) ==
    /\ goto(s, "judged", "recorded")
    /\ recent' = IF Len(recent) >= MAX_RECENT THEN recent ELSE Append(recent, attempt(s))
    /\ attempts' = Append(attempts, attempt(s))
    /\ UNCHANGED << tip, registryVars, share, result, solved, answer, outcome, found, candidates >>

Record(s) ==
    /\ goto(s, "judged", "recorded")
    /\ recent' = Append(IF Len(recent) >= MAX_RECENT THEN Tail(recent) ELSE recent,
                        attempt(s))
    /\ attempts' = Append(attempts, attempt(s))
    /\ UNCHANGED << tip, registryVars, share, result, solved, answer, outcome, found, candidates >>

\* The sink has answered, failed, timed out, or there is none: all the same.
Reported(s) ==
    /\ goto(s, "recorded", IF result[s] = "Block" THEN "candidate" ELSE "replying")
    /\ UNCHANGED << tip, registryVars, share, result, solved, answer, outcome, found,
                    recent, attempts, candidates >>

-----------------------------------------------------------------------------
(* maybe_submit_block_candidate                                            *)

Slip_AskedAgain(s) ==
    /\ ~Registry!contains(share[s].job_id)
    /\ goto(s, "candidate", "candidate")
    /\ UNCHANGED << tip, registryVars, share, result, solved, answer, outcome, found,
                    recent, attempts, candidates >>

JobMissing(s) ==
    /\ ~Registry!contains(share[s].job_id)
    /\ goto(s, "candidate", "replying")
    /\ UNCHANGED << tip, registryVars, share, result, solved, answer, outcome, found,
                    recent, attempts, candidates >>

Slip_CurrentJobBuilt(s) ==
    /\ Registry!contains(share[s].job_id)
    /\ goto(s, "candidate", "asking")
    /\ solved' = [solved EXCEPT ![s] = tip]
    /\ UNCHANGED << tip, registryVars, share, result, answer, outcome, found,
                    recent, attempts, candidates >>

JobFound(s) ==
    /\ Registry!contains(share[s].job_id)
    /\ goto(s, "candidate", "asking")
    /\ solved' = [solved EXCEPT ![s] = Registry!get_job(share[s].job_id).template]
    /\ UNCHANGED << tip, registryVars, share, result, answer, outcome, found,
                    recent, attempts, candidates >>

\* current_job() of either job source: an error is logged and no job.
current_job(r) ==
    {IF fetched.ok THEN tip ELSE None : fetched \in {get_block_template(r), get_template_current(r)}}

Answered(s) ==
    /\ goto(s, "asking", "guarding")
    /\ \E r \in TemplateAnswers \cup Disturbed :
           \E t \in current_job(r) : answer' = [answer EXCEPT ![s] = t]
    /\ UNCHANGED << tip, registryVars, share, result, solved, outcome, found,
                    recent, attempts, candidates >>

Slip_NotCompared(s) == FALSE

Slip_HeldWithoutAnswer(s) == ~(answer[s] # None /\ id(answer[s]) = id(solved[s]))

\* The answer of a job source that is down is no reason to hold a block back.
stale(s) == answer[s] # None /\ id(answer[s]) # id(solved[s])

\* A job without block_assembly cannot be built into a block, and a coinbase
\* that lacks its extranonces, though it can be hashed, cannot be parsed.
buildable(s) == solved[s] \in Assembled /\ share[s].subscribed

classified(submitted) ==
    IF submitted.ok THEN "Submitted"
    ELSE IF Head(submitted.text) = "submitblock rejected" THEN "Rejected"
    ELSE "LocalError"

candidate(s) == [share |-> share[s], template |-> solved[s], found |-> found[s],
                 answer |-> answer[s], tip |-> tip]

Stale(s) ==
    /\ stale(s)
    /\ goto(s, "guarding", "replying")
    /\ UNCHANGED << tip, registryVars, share, result, solved, answer, outcome, found,
                    recent, attempts, candidates >>

Unbuildable(s) ==
    /\ ~stale(s) /\ ~buildable(s)
    /\ goto(s, "guarding", "replying")
    /\ outcome' = [outcome EXCEPT ![s] = NotAsked]
    /\ UNCHANGED << tip, registryVars, share, result, solved, answer, found,
                    recent, attempts, candidates >>

SubmitBlock(s) ==
    /\ ~stale(s) /\ buildable(s)
    /\ goto(s, "guarding", "replying")
    /\ candidates' = candidates \cup {candidate(s)}
    /\ \E verdict \in Verdicts : \E r \in SubmitAnswers(verdict) \cup Disturbed :
          outcome' = [outcome EXCEPT ![s] = [daemon |-> verdict, told |-> r \in SubmitAnswers(verdict),
                                             logged |-> classified(submit_block(r))]]
    /\ UNCHANGED << tip, registryVars, share, result, solved, answer, found,
                    recent, attempts >>

\* Whatever the daemon made of the block, the miner is told the result.
Reply(s) ==
    /\ goto(s, "replying", "idle")
    /\ share' = [share EXCEPT ![s] = NoShare]
    /\ result' = [result EXCEPT ![s] = "none"]
    /\ solved' = [solved EXCEPT ![s] = None]
    /\ answer' = [answer EXCEPT ![s] = None]
    /\ outcome' = [outcome EXCEPT ![s] = NoOutcome]
    /\ found' = [found EXCEPT ![s] = None]
    /\ UNCHANGED << tip, registryVars, recent, attempts, candidates >>

-----------------------------------------------------------------------------
Handle(s) ==
    \/ Record(s) \/ Reported(s)
    \/ JobMissing(s) \/ JobFound(s) \/ Answered(s)
    \/ Stale(s) \/ Unbuildable(s) \/ SubmitBlock(s)
    \/ Reply(s)

Next ==
    \/ NewTemplate
    \/ Notified
    \/ \E s \in Session : Submit(s) \/ Handle(s)

(***************************************************************************)
(* Each await of the handler ends: locks are held for a few statements,    *)
(* and the sink and the daemon are asked by clients that time out after    *)
(* ten seconds (daemon.rs and node_api.rs).                                *)
(***************************************************************************)
Spec == Init /\ [][Next]_vars /\ \A s \in Session : WF_vars(Handle(s))

-----------------------------------------------------------------------------
Newest(q, n) == SubSeq(q, 1 + (IF Len(q) > n THEN Len(q) - n ELSE 0), Len(q))

Past == {s \in Session : pc[s] \notin {"idle", "judged"}}

(***************************************************************************)
(* What GET /v1/pool/shares/recent shows is exactly the newest MAX_RECENT  *)
(* attempts in the order in which concurrent sessions recorded them, and   *)
(* no session goes on to the sink, to a block or to its reply with a share *)
(* that was not recorded with the verdict the miner is told.               *)
(***************************************************************************)
Accounted ==
    /\ recent = Newest(attempts, MAX_RECENT)
    /\ \A s \in Past : attempt(s) \in Range(attempts)

DistinctIds == \A t, u \in Template : id(t) = id(u) => t = u

(***************************************************************************)
(* As long as ids name templates uniquely, what is submitted is a block    *)
(* that was found: the job read a second time for the candidate, after any *)
(* number of registrations by other sessions, has the template on which    *)
(* the share was judged to be a block.                                     *)
(***************************************************************************)
BlocksAreSolutions ==
    DistinctIds => \A c \in candidates : c.share.verdict[c.template] = "Block"

(***************************************************************************)
(* With unique ids and a job source that answers, the stale guard works in *)
(* this sense: a block is submitted only if its template was still the     *)
(* daemon's at some moment after the share was judged.                     *)
(***************************************************************************)
NotStaleWhenFound ==
    DistinctIds => \A c \in candidates : c.answer # None => c.template >= c.found

(***************************************************************************)
(* The log tells what became of a block: Submitted exactly if the daemon   *)
(* took it and its own answer arrived, whatever stands beside a null       *)
(* result, and whichever other server answers in its place.                *)
(***************************************************************************)
SubmittedIsAccepted ==
    \A s \in Session :
        outcome[s].logged = "Submitted" <=> outcome[s].daemon = "accepted" /\ outcome[s].told

(***************************************************************************)
(* Every share is answered, with the sink failing or not, the daemon there *)
(* or not, the job lost meanwhile or not.                                  *)
(***************************************************************************)
EveryShareAnswered == \A s \in Session : pc[s] # "idle" ~> pc[s] = "idle"

StaysGood(sh) ==
    /\ Registry!contains(sh.job_id)
    /\ Registry!get_job(sh.job_id).template \in Assembled /\ sh.subscribed
    /\ id(tip) = sh.job_id

(***************************************************************************)
(* A block found is a block submitted, if only its job stays registered    *)
(* and current while the handler is at work: nothing but another session's *)
(* registration or a new template comes between a solution and the daemon. *)
(***************************************************************************)
FoundBlocksAreSubmitted ==
    \A s \in Session, sh \in Shares :
        (pc[s] = "judged" /\ share[s] = sh /\ result[s] = "Block" /\ []StaysGood(sh))
            ~> (\E c \in candidates : c.share = sh)
=============================================================================
