# A TLA+ development of azcoin-stratum-pool

This directory models the pool server of this repository in TLA+, checks the
models with TLC on small instances and proves the most important results with
TLAPS for every instance. Line references are to the repository's files;
`crates/` is left out of paths below where the file name is unambiguous.

## 1. The system

The pool gets block templates from an AZCOIN daemon, makes Stratum V1 jobs of
them, pushes the jobs to connected miners, judges the shares miners send back,
and submits a block to the daemon when a share solves one. Everything is kept
in memory, and everything runs as tokio tasks that interleave at their awaits:
one poller, one task per connection, and the API server.

| Component | State | Operations | Talks to |
|---|---|---|---|
| `ActiveJobRegistry` (pool_core/services.rs) | map `by_id` and queue `order`, under one lock; at most 64 jobs | `register`, `contains`, `get_job` | registered into by every session, read by the share path |
| Job source (coin_azcoin/job_source.rs, mappers) | none | `current_job()`: a template as a job, or nothing | daemon or Node API; asked by poller, authorize and stale guard |
| Template poller (azcoin-pool/main.rs:78-110) | `last_job_id`, `last_height` | every 5 s: poll, compare, broadcast | tokio broadcast channel of 16 slots |
| Session task (protocol_sv1/server.rs) | `SessionState`, read buffer, broadcast receiver | configure, subscribe, authorize, submit; receive a broadcast; notify | miner's socket; handler callbacks |
| `Sv1SessionHandler` (azcoin-pool/sv1_handler.rs) | none of its own | `on_connect`, `on_authorize`, `on_notify_sent`, `on_submit` | registries, share processor, block submitter |
| `JobAwareShareProcessor` and `RecentSharesBuffer` | last 100 attempts | `process_share`: context checks, job lookup, validation, record, share sink | registry, validator, Node API sink |
| Candidate submission (coin_azcoin/candidate_submit.rs, raw_block_builder.rs, daemon.rs) | none | build the block, `submitblock`, classify the answer | daemon |
| Worker registry, connection counter, extranonce counter | a map, two atomics | register, count, fetch_add | sessions write, API reads |
| Share validator, mappers, coinbase builder | none (pure) | header, coinbase, merkle root, target arithmetic | called by the share path |
| Daemon and node API clients (coin_azcoin/daemon.rs, node_api.rs) | none | a request, and what is made of its answer or of its absence | job source and candidate submission |
| Configuration (common/config.rs, services.rs, main.rs) | none after the start | file, environment and defaults merged; the parts of the pool built from them | everything, once |
| SV2 scaffold (sv2_scaffold) | sums per miner in `AggregationEngine` | its own reading of a template | nothing of the running pool |
| API server, storage, payout types, orchestrator | views and type declarations | read-only or not reached by the pool | - |

What is hard here is not any single function but their order:

- sessions register the jobs they have notified whenever they get round to it,
  in one shared registry that a clean job empties;
- a session has two sources of work, the broadcast queue and the answer to its
  own authorize, that overtake each other; a slow one loses broadcasts;
- the share path awaits between the judgement of a share, its record, the
  second lookup of its job, the stale guard and the daemon;
- the loop of a session drops a pending `read_line` whenever a job arrives;
- a miner may send any request at any time, repeat it, and reconnect.

`PROJECT.json` lists each such hazard at its line with the properties on it.

What makes the components correct: the registry keeps map and queue together
and forgets only what it must (`Consistent`, `OldestLeavesFirst`,
`LookupsAsPromised`); no change of the template is lost on its way to a miner
(`NoLostUpdate`, `Converges`), one that was left without work gets it with the
next change (`SilenceIsMadeUpFor`), and the work a miner holds can be checked
against (`RegistrySettles`); a miner that works on what it was given does not work in
vain (`OwnWorkIsKnown`, `OwnBlocksAreSubmitted`); a share is answered and accounted for
(`EveryShareAnswered`, `Accounted`); a block that is found is submitted, and
nothing else is (`FoundBlocksAreSubmitted`, `BlocksAreSolutions`,
`NotStaleWhenFound`), and the log says of it what the daemon said
(`SubmittedIsAccepted`); a setting takes effect where it is used
(`EnvironmentDecides`); what a miner hashes is what the pool judges
(`MinerHashesTheSameHeader`); a hash is judged by its number (`JudgedByValue`) and the
block built from a share is the one it solved, with a coinbase and a merkle root
a daemon can read (`SolvedBlockIsSound`, `SmallBlocksCommit`), unless the
template itself has a transaction that is none (`OnlyTransactionsSpoilBlocks`); requests are answered once and in order
(`AnswersEveryRequest`); sessions do not share a search space, a mask or a
worker they should not (`OwnSearchSpace`, `OnlyGrantedBitsRolled`,
`CreditedWorkersAreListed`).

## 2. The modules

| Module | Models | Builds on |
|---|---|---|
| `ActiveJobRegistry` | the registry: one action per way through `register` | - |
| `IssuedJobs` | what the registry promises: the newest N jobs issued since the last clean one | - |
| `ActiveJobRegistryHistory` | the registry with the list of issued jobs; refinement of `IssuedJobs` | both |
| `JobDistribution` | daemon, poller, channel, sessions and the registry they share | INSTANCE `ActiveJobRegistry` |
| `JobDistributionHistory` | the same with a history of disconnections | `JobDistribution` |
| `DaemonRpc` | what an HTTP answer becomes in the clients of daemon and node API | - |
| `ShareSubmission` | the way of a share through judgement, record, sink, candidate, guard, daemon and reply | `DaemonRpc`; INSTANCE `ActiveJobRegistry` |
| `Pool` | the running pool: the two above at work on one registry and one daemon; a refinement of both | INSTANCE `JobDistribution`, `ShareSubmission` |
| `PoolHistory` | the same with a history of what other sessions registered | `Pool` |
| `RequestStream` | what a session owes its miner: one answer per request, in order | - |
| `RequestReader` | the `select!` loop with a `read_line` that is dropped; refinement of `RequestStream` | INSTANCE `RequestStream` |
| `ShareTarget` | target, division by the difficulty and comparison, on words of bytes | - |
| `PoolConfig` | config.toml and environment to the parts of the pool | - |
| `JobMapper` | a template of the daemon or the node API to a job: coinbase, branch, decodings that fail | `PoolConfig`, `ShareTarget` |
| `MiningNotify` | `mining.notify`, the header a miner makes of it, and what it sends back | `JobMapper` |
| `BlockCandidate` | the contents: start, template, job, coinbase, header, verdict, raw block | `MiningNotify` |
| `Sv1Session` | the dialogue: configure, subscribe, authorize, submit, (dis)connect | - |
| `...Claims` | what a document says and the program does not do | the module they name |
| `...Proofs` | TLAPS proofs; those about `PoolHistory` are in `PoolProofs`, those about `JobMapper`, `MiningNotify`, `PoolConfig` and `ShareTarget` in `BlockCandidateProofs` | the module they name |
| `MC...` | instances for TLC | the module they name |

**How state and actions correspond to the code.** A module's variables have
the names of the code's fields where there is one. In `JobDistribution` and
`ShareSubmission` the position of a task between two awaits is `pc`, and what it
read before an await is a variable of its own (`poll_answer`, `answer`,
`solved`, `result`): it may be old when it is used. An action is what a task
does from one await to the next. A lock held for a few statements makes them
one action, so `register` is atomic.

A job is `[job_id, template, clean_jobs]`. A template is its position in
`Offers`, the sequence of jobs that the daemon's successive templates map to:
`template_to_job` makes the id of the height and always sets `clean_jobs`
(template_mapper.rs:35, 43), `api_template_to_job` takes both from the node and
leaves `block_assembly` out (api_template_mapper.rs:21, 29, 30). So two
templates may have one id, and `Offers` with equal ids is the RPC source on a
node that refreshes its template within one height.

In `ShareSubmission` a share carries the verdict `validate_share` would reach on
each template; how it comes about is in `BlockCandidate`, which follows one
template and one share and has no concurrency. There a hash is a constructor
(`[sha256d |-> x]`), so that equal hashes are hashes of equal things; the number
a header hashes to is any word, since nonce and ntime vary it. A transaction is
a sequence of items instead of bytes, but what a length in it counts is there
item by item: the digits of the height, the flags and the extranonces in the
script. `ShareTarget` has the byte-wise arithmetic as it is, with the base and
the width of a word as constants.

An operator that may fail returns the set of its results, empty for an error, in
`PoolConfig`, `JobMapper` and what builds on them: the `?` of the code is an
existential over that set. What the code does in a loop is a recursive function
whose argument counts the rounds and whose value is what the loop carries
(`div_target_by_difficulty`, `apply_env_overrides`, `build_merkle_branch`,
`encode_script_num`).

`Sv1Session` takes as inputs the commands `map_request_to_command` makes; a
request that does not parse is answered with an error and changes nothing.

**The composition.** `JobDistribution` has no shares, and `ShareSubmission` lets
any job the daemon has offered be registered at any time (`Notified`). `Pool`
puts them together: the registry and the daemon's template are shared, and a
session is one task, so it takes a share only between two rounds of its
`select!` and receives nothing while a share of its own is in hand
(server.rs:128-130, 169, 206). `PartsAreImplemented` says that each part, seen
alone, then behaves as the module about it says: `Notified` in particular is
what the sessions do, and what is proved of the parts holds of the pool.

**Slip_ definitions.** Beside some definitions stands one named `Slip_...`: the
same with a plausible mistake (a dropped guard, a missing reset, an off-by-one).
No specification uses them. Each is put in the place of its neighbour to see the
property it is meant for fail; `PROJECT.json` pairs them under "mutants". A
property that survived every plausible mistake would say nothing of the code.

## 3. The runs

The runs of `JobDistribution`, `ShareSubmission`, `Pool` and `Sv1Session` use
two sessions: the hazards need one task that is late and one that is not. The
registry, the reader of one session and the contents of a block have no
sessions.

| Run | Configuration | Shows |
|---|---|---|
| `registry` | `MCActiveJobRegistry` | map and queue stay together, oldest leave first, `IssuedJobs` is implemented |
| `distribution` | `MCJobDistribution` | types, `NoLostUpdate`, `AtMostOneActive`, and with fairness `Converges`, `SilenceIsMadeUpFor` and `RegistrySettles` |
| `shares` | `MCShareSubmission` | `Accounted`, `BlocksAreSolutions`, `NotStaleWhenFound`, `SubmittedIsAccepted`, and with fairness `EveryShareAnswered` and `FoundBlocksAreSubmitted` |
| `pool` | `MCPool` | `PartsAreImplemented`, `OwnWorkIsKnown`, `OwnBlocksAreSubmitted` |
| `reader` | `MCRequestReader` | `AnswersEveryRequest`: refinement of `RequestStream`, liveness included |
| `candidate` | `MCBlockCandidate` | `JudgedByValue` for every target, hash and difficulty; `SolvedBlockIsSound`, `SmallBlocksCommit`, `MinerHashesTheSameHeader`, `OnlyTransactionsSpoilBlocks`; `EnvironmentDecides` for every configuration |
| `session` | `MCSv1Session` | `OwnSearchSpace`, `OnlyGrantedBitsRolled`, `CreditedWorkersAreListed` |

Five runs show a disagreement between the program and what its documents say;
each checks one property, which TLC refutes with the behaviour described:

| Run | Property | The disagreement |
|---|---|---|
| `current_block_dropped` | `CurrentBlockIsSubmitted` | README.md:89; a late registration of another session between the two lookups of the job drops a current block (sv1_handler.rs:22). The run is of `Pool`, so the schedule is one of its own poller and sessions |
| `refusal_logged_as_local_error` | `RefusalsAreLoggedAsRejected` | data-flow.md:57; the prefix `PoolError` adds hides the words `strip_prefix` looks for (candidate_submit.rs:102) |
| `merkle_branch_of_two` | `HeadersCommitToTransactions` | template_mapper.rs:123-124; every transaction is taken as one branch element (:127), so with two or more the header has no merkle root of them |
| `api_armed` | `ArmedPoolSubmits` | README.md:77; a pool of the API source is logged as armed, but its jobs have no `block_assembly` and no block is ever submitted (candidate_submit.rs:48) |
| `reader_request_lost` | `RequestsAreAnswered` | vertical-slice-5.md:66; a job that arrives inside a request line loses the part already read (server.rs:130) |

**Bounds.**

- `ACTIVE_JOBS_MAX` is 2 instead of 64, `CAPACITY` 1 instead of 16,
  `MAX_RECENT` 1 instead of 100: the limit is met within a few steps, which is
  what the properties are about. The proofs are for every value.
- `Offers`: three templates, the last two at one height, in the run of the
  distribution (an old, a new and a refreshed one, with one overtaking two
  others); two in those of shares and of the pool, the first clean and the
  second not, so that jobs are added as well as cleared.
- `BASE` 2, `SIZE` 7, `BYTE` 4, `HASH` 4 and `WORD` 2 in `candidate` instead of
  256, 32, 256, 32 and 4: all exponents from 0 to one above `SIZE`, all
  mantissas, all hashes and difficulties 0 to 5 can be tried together; heights 0
  to 20 have one to three digits, with and without the high bit. Templates have
  up to four transactions; the id of the first reads the same in both byte
  orders and the others' do not, so that both outcomes for a miner that takes
  branch elements as sent are met; one template has a transaction whose data does not parse. `MAX_U32` and `MAX_U16` bound what a number in a
  configuration may be; up to two variables are set beside each kind of file.
- `MaxShares` 2 in `shares`, so that the buffer overflows and two sessions
  are on their way at once, and 1 in `pool`, where the shares are few but every
  order of broadcasts, registrations and templates around them is tried;
  `MaxIssued` 4 in the registry's history; `MaxRequests` 4 and `MaxJobs` 2;
  `MaxSubscribes` 4 over `EN1_SPACE` 3, so that the extranonce counter wraps.
- Symmetry (over sessions, users and bits) is used in `session` only, which
  has no liveness; no property names one of them.
- Deadlock is checked except in `reader`, whose miner may stop sending, and in
  `candidate`, which follows one template to its end.

**Fairness.** A tokio task whose await can complete is eventually run, hence
weak fairness of each step of a task. The poller's timer ticks for ever. The
branches of `select!` are polled in random order, so a branch that is ready
again and again is eventually taken: strong fairness of receiving a broadcast in
`JobDistribution` and of reading a line in `RequestReader`, although the other
branch may be ready too. The requests to daemon and sink end because their
clients time out after ten seconds (daemon.rs:56, node_api.rs); in `Answered`
and `SubmitBlock` a timeout is one of the outcomes (`Unread` of `DaemonRpc`). A poll of the daemon may go
unanswered, but not for ever: `Converges` says nothing of a daemon that is gone
for good. `SilenceIsMadeUpFor` speaks of what makes up for an authorize that was
not answered: the next broadcast, which needs a template of another id. `Pool` has no fairness and no liveness: what must happen eventually is
checked of the two parts, whose steps its own implement. Nothing is assumed of miners, except in `RequestReader` that one who
has begun a line ends it, and nothing of when templates come.

`reader` uses `UncutSpec`: no job is received while the session holds the front
of a line. Without that restriction the refinement fails, as
`reader_request_lost` shows.

## 4. The proofs

TLAPS checks, for every value of the constants that satisfies the stated
assumptions:

| Theorem | Says |
|---|---|
| `RegistryTypeOK`, `RegistryConsistent` | the registry's types; map and queue list the same ids, each once, within the bound |
| `RegistryOldestLeavesFirst` | a job leaves for a clean job or as the oldest of a full registry, and is never exchanged |
| `RegistryOneJobWhenAllClean` | with clean jobs only, one job is known |
| `RegistryLookupsAsPromised`, `RegistryKeepsPromise` | the registry holds exactly the newest jobs issued, and implements `IssuedJobs` |
| `DistributionTypeOK`, `DistributionNoLostUpdate`, `DistributionAtMostOneActive` | types, no lost update, one active job, for any number of sessions and templates and any capacity |
| `SubmissionTypeOK`, `SubmissionBlocksAreSolutions`, `SubmissionNotStaleWhenFound` | types and what may be submitted, for any shares, sessions and templates |
| `SubmissionSubmittedIsAccepted` | a candidate is logged as submitted just if the daemon accepted it and said so |
| `SubmissionAccounted` | the recent shares are the newest attempts, in order, for every limit |
| `PoolImplementsItsParts` | the composition is a refinement of `JobDistribution` and of `ShareSubmission` |
| `PoolTypeOK` | its variables have the types of both parts |
| `PoolKeepsItsPartsPromises` | so `NoLostUpdate`, `AtMostOneActive`, `Accounted`, `BlocksAreSolutions`, `NotStaleWhenFound` and `SubmittedIsAccepted` hold of the running pool |
| `PoolOwnWorkIsKnown`, `PoolOwnBlocksAreSubmitted` | with unique ids, a miner's share for its own work is judged on it, and a block on it submitted while it is current, unless another session registers something else |
| `SessionTypeOK`, `SessionOwnSearchSpace`, `SessionCreditedWorkersAreListed`, `SessionOnlyGrantedBitsRolled` | what sessions do not share and what they must agree on, for a counter of any width |
| `ReaderTypeOK`, `ReaderStepsAreStreamSteps` | types; the steps of an uncut session are steps of `RequestStream` |
| `CandidateTypeOK`, `CandidateEnvironmentDecides` | types; which setting counts where it is used, for any file and environment |
| `CandidateJudgedByValue` | a share is judged by the numbers its hash and the two targets stand for, for bytes and words of any width |
| `CandidateSolvedBlockIsSound`, `CandidateSmallBlocksCommit` | the block put together is the one that was solved and, with at most one transaction, commits to what it contains, for any template, height and extranonces |
| `CandidateOnlyTransactionsSpoilBlocks` | a block solved on RPC work with both extranonces in place fails to be put together only for a transaction of the template that does not parse |
| `CandidateMinerHashesTheSameHeader` | the header a miner makes of `mining.notify` is the one that is judged, for a branch of any length, if the miner turns each element round as `notify.rs:12` does; if it takes them as sent, exactly if each reads the same both ways |
| `ComparedByValue`, `DividedByValue`, `TargetByValue` | what the byte-wise comparison, division and shift of `ShareTarget` compute |
| `HexRoundTrip`, `WordsSwappedTwice`, `CoinbaseSays` | what is sent can be read back: numbers of 32 bits, hashes, and a coinbase split around the extranonces |

Assumptions: the limits are positive naturals (`BoundAssumption`,
`CapacityAssumption`, `LimitsAssumption`), `Offers` is a non-empty sequence of
jobs each of which names its own position (`OffersAssumption`), and `Shares`
and `Assembled` are sets of the right things (`SharesAssumption`); the
composition states the same of its own constants. `MaskAssumption`,
`NoneAssumption` and `SpaceAssumption` say that the pool's mask is of the bits
there are, that `None` is nothing else, and that the counter has a width;
`RequestsAssumption` and `CutsAssumption` bound what a miner sends.
`WordAssumption`, `ByteAssumption` and `WordsAssumption` say that there are at
least two values of a byte, more bytes in a target than the six with which the
difficulty-1 target begins (share_validator.rs), and a whole number of words in
a hash.
`InputAssumption` says what can be in a configuration and a template once serde
has read them: values that are texts, bits of bytes, and of a transaction an id
of the length of a hash; if its data parses, its id's bytes reversed are what the
data hashes to. That hashes of different things differ is used once, for the
second half of `CandidateMinerHashesTheSameHeader` (a miner that takes branch
elements as sent).

**The arguments.**

- *Registry.* `TypeOK /\ Consistent` is inductive: that `order` has no
  duplicate is what makes popping the head of `order` remove exactly one id from
  `by_id`, and `Range(order) = DOMAIN by_id` is what makes the length of the
  queue the size of the map. `OldestLeavesFirst` follows from it for each of the
  three ways through `register`. With the history, the invariant adds that
  `order` is the list of ids of the tail of `issued`; a registration of a known
  job is then a stuttering step of `IssuedJobs`, and one of an unknown job finds
  its id inactive there, which is the guard of `Issue`.
- *Distribution.* `NoLostUpdate` alone is not inductive. The strengthening
  says where the next work of a session comes from: a queue that is not empty
  ends with the last broadcast (`QueueOK`); with an empty one, the answer an
  authorize has in hand is at least as new as that broadcast (`AnswerOK`), and
  so is the work held, unless it is the same (`WorkOK`); and what was polled is
  no newer than `tip` (`PolledByNow`). `send` then establishes it for every
  subscriber, full or not, since it only ever drops the oldest.
- *Shares.* The strengthening carries what a session knows from step to step:
  a judged block's job was the one under its id when it was judged; a found job
  is filed under the share's id; an answer of the job source is no older than
  `found`. With unique ids, the same id means the same template, whatever was
  registered in between; with the guard passed, so does the answer's.

  `Accounted` needs only that a record appends to `attempts` and keeps the
  newest of the buffer; the lemmas about suffixes carry it (`SuffixPosition`,
  `NewestAppend`).
- *Pool.* What the composition must show is that a registered job is one the
  daemon has offered by then. `NotAhead` says it of every place a template may
  wait: polled, broadcast, queued, fetched by an authorize, notified. For a
  miner's own work the invariant adds what the registry knows (`Filed`: each job
  under its own id; `Known`: the work of an undisturbed session once it has
  registered it) and what the handler has in hand from one await to the next
  (`JudgedOnIt`, `Solving`, `Guarding`, `Concluded`). Registering the same job
  again keeps it on file only because ids are unique, which is the hypothesis.
- *Session.* The counter modulo its width is kept without a division: the n-th
  subscription has extranonce e with n = k * 2^32 + e for some k (`Counted`), so
  two with one e are a multiple of the width apart. A mask is always among the
  bits last granted (`Granted`), a withdrawn one too.
- *Reader.* What was read and what waits in the socket are the lines of the
  requests that are due, each segment followed by the one that belongs behind it
  (`LinesInOrder`); a line that ends is then the next one due.

- *Candidate.* The invariant (`Kept`) is that whatever the pool has is what its
  code makes of what it was made of: the parts of the loaded configuration, the
  job of the template, the trace of job and share, the block of all three. Each
  step keeps it nearly by definition; the properties then are statements about
  the operators, and the work is there. They compare a loop over bytes, items or
  variables with what it is meant to compute, so they need induction. The
  induction theorems of the library take an operator as a parameter and cannot
  be used; instead the module derives from the one instance that < is well
  founded on Nat that a set of numbers with 0 and closed under successor is Nat
  (`Induct`), hence that recursive functions exist (`FiniteRecursion`,
  `Recursion`), and every loop is unfolded with these. `div_target_by_difficulty`
  keeps: value of the digits so far = quotient so far * difficulty + remainder,
  and the remainder is below the difficulty, hence each quotient digit fits its
  byte. `leq_be` is decided by the first byte that differs (`FirstDifference`,
  `Carried`). Of the environment's thirteen variables the last one that can be
  read for a field decides (`LastOneCounts`), and only the two tokens share a
  field (`NamedOnce`). The coinbase is described item by item from the script
  outward (`ScriptLayout`, `BytesLayout`, `CoinbaseLayout`), so that the two
  placeholders that are searched for are the first of their kind and the height
  stands where a daemon looks for it. The roots that pool and miner make of a
  branch are compared level by level (`RootsAgree`): they are equal just if each
  element is taken as it is.

Only model-checked: all liveness (`Converges`, `RegistrySettles`, `SilenceIsMadeUpFor`,
`EveryShareAnswered`, `FoundBlocksAreSubmitted`, and with it the fairness in
`AnswersEveryRequest`), which is out of the prover's reach, as is anything about
ENABLED. Every invariant a passing run checks is a theorem. `JudgedByValue` says
nothing of exponents below 3 or above the width of a word, where bits do not
stand for a whole number, and `SmallBlocksCommit` nothing of more than one
transaction, where the runs of section 3 show the disagreement.

## 5. What is not modelled

- SHA-256 (a constructor), the digits of hexadecimal and of variable-length
  integers, JSON. Byte orders are modelled (`JobMapper`, `MiningNotify`).
- Which malformed requests `map_request_to_command` rejects and with which code:
  a rejected request changes nothing.
- The POST of a share to the sink: its result is dropped; that it may fail or
  time out is in `Reported`.
- Nothing is persisted, so there is no recovery to model. `storage` holds
  declarations, and so do the payout, round, balance and block types.
- The API server only reads: what it shows of shares and workers is `Accounted`
  and `CreditedWorkersAreListed`.
- The SV2 scaffold, which nothing in the running pool reaches. Its adapter reads
  a template with decoders of its own (template_adapter.rs:70-131); they differ
  from the pool's in the treatment of single digits and blanks, which is left
  out here, so a comparison would be of the pool's reading with itself.
  `AggregationEngine` and `run_pool_flow` are sums and prints of one thread, and
  the orchestrator prints a line.
- HTTP between request and answer. Ports, addresses and credentials are passed
  on as they are.

Other things seen while reading, not kept as runs: a session late with an older
clean job clears the newer job another has registered (services.rs:39, where
data-flow.md:63 has "prior" jobs cleared; `current_block_dropped` shows what
comes of it, and `OwnWorkIsKnown` that nothing else does harm); an nBits exponent below 3 shifts the mantissa up instead of down
(share_validator.rs:220, against :213); heights 1 to 16 are pushed as a number
of one byte and not by their opcode (coinbase_builder.rs:84); `mining.notify`
sends branch elements byte-reversed (notify.rs:12), so the pool judges the header
of a miner only if it turns them round again (`MinerHashesTheSameHeader`); the
data of a template's transactions is only decoded from hex when a job is made
(template_mapper.rs:117) and parsed when a block is found
(raw_block_builder.rs:21), so work is handed out of which no block can be put
together (`OnlyTransactionsSpoilBlocks` has this as its exception); the API's ntime is read
little-endian (api_template_mapper.rs:44); an entry without a txid stands in the
branch by its witness hash, and one with neither is passed over
(template_mapper.rs:128); an authorize answered by a
daemon that is down leaves its miner without work until the template changes
(sv1_handler.rs:131, against README.md:86; `SilenceIsMadeUpFor`); a broadcast waiting in a queue may
replace newer work an authorize was answered with (server.rs:206); the stale
guard compares nothing when the job source does not answer (sv1_handler.rs:27,
against vertical-slice-5.md:69; `NotStaleWhenFound` has this as its
hypothesis); with ids that repeat, the header built for a candidate may not be
the one that was solved (`BlocksAreSolutions` has unique ids as its hypothesis);
a configure for another extension withdraws the version mask silently
(server.rs:311); a new template of the same height is not pushed in RPC mode
(template_mapper.rs:35), as README.md:93, data-flow.md:20 and
vertical-slice-5.md:48 describe and context.md:9 does not; a difficulty of 0 is
told to miners as 0 and judged as 1; a block the daemon took is logged as
LocalError when its answer is lost (candidate_submit.rs:96).

## 6. Plan

Done: the modules above, of the pool and of its parts. Left, in this order:

1. `RequestMapping`: what `map_request_to_command` rejects and the widths it
   enforces, so that every command it lets through is one `process_share` can
   judge.
2. Liveness of the composition: that a miner connected to a daemon that answers
   eventually works on the newest template *and* is credited for it. TLC would
   need a smaller instance than the safety properties do.
3. The SV2 scaffold, `ShareAggregation` and the digits its adapter reads, once
   the pool calls it.
