---------------------------- MODULE BlockCandidate ----------------------------
(***************************************************************************)
(* One deployment and one template on their way to a block: the pool that  *)
(* the configuration yields, the job its source makes of the template, the *)
(* work a miner is sent, the coinbase and the header the share validator   *)
(* rebuilds from the share, the verdict on its hash, and the block put     *)
(* together for the daemon.  ShareSubmission has the interleavings; here   *)
(* are the contents.                                                       *)
(*                                                                         *)
(* Hashing is a constructor: equal hashes are hashes of equal things.  The *)
(* number a header hashes to, which its nonce varies, is any.              *)
(*                                                                         *)
(* Slip_... definitions: see ActiveJobRegistry.                            *)
(***************************************************************************)
EXTENDS MiningNotify, FiniteSets

CONSTANTS
    Cases,         \* a config.toml, an environment and a template each
    Shares         \* what miners may send, with the extranonce1 they have

\* An extranonce is one item, or none in a session that never subscribed.
Share == [extranonce1 : 0 .. 1, extra_nonce2 : 0 .. 1, rolled : Nat,
          version_bits : {None} \cup SUBSET Bits, version_rolling_mask : {None} \cup SUBSET Bits]

ASSUME InputAssumption ==
    /\ \A c \in Cases :
          /\ c.template \in Template
          /\ Texts(c.env, {key[1] : key \in Range(env_keys)})
          /\ Texts(c.file.settings, Fields)
    /\ Shares \subseteq Share

VARIABLES case, pool, job, share, trace, verdict, block, outcome

vars == << case, pool, job, share, trace, verdict, block, outcome >>

template == case.template

NoPool  == [pool |-> "none"]
Refused == [pool |-> "refused"]
NoJob   == [job |-> "none"]
NoShare == [share |-> "none"]
NoTrace == [trace |-> "none"]
NoBlock == [block |-> "none"]

running == pool \notin {NoPool, Refused}

-----------------------------------------------------------------------------
(* share_validator.rs *)

build_coinbase(j, sh) ==
    j.coinbase_part1 \o Items("extranonce1", sh.extranonce1)
        \o Items("extra_nonce2", sh.extra_nonce2) \o j.coinbase_part2

Slip_SidesSwapped(coinbase_hash, branch) ==
    LET root[i \in 0 .. Len(branch)] ==
            IF i = 0 THEN coinbase_hash ELSE double_sha256(<< branch[i], root[i - 1] >>)
    IN  root[Len(branch)]

apply_merkle_branch(coinbase_hash, branch) ==
    LET root[i \in 0 .. Len(branch)] ==
            IF i = 0 THEN coinbase_hash ELSE double_sha256(<< root[i - 1], branch[i] >>)
    IN  root[Len(branch)]

version_refused(sh) ==
    /\ sh.version_bits # None
    /\ ~(sh.version_rolling_mask # None /\ sh.version_bits \subseteq sh.version_rolling_mask)

resolved_version(j, sh) ==
    IF sh.version_bits = None THEN j.version
    ELSE (j.version \ sh.version_rolling_mask) \cup (sh.version_bits \cap sh.version_rolling_mask)

build_block_header(j, sh) ==
    [version |-> resolved_version(j, sh),
     prev_hash |-> j.prev_hash,
     merkle_root |-> apply_merkle_branch(double_sha256(build_coinbase(j, sh)), j.merkle_branch),
     ntime |-> TheOnly(submitted_ntime(hex8(rolled_time(build_mining_notify(j), sh.rolled)))),
     nbits |-> j.nbits]

share_validation_trace(j, sh, hash, diff) ==
    [header |-> build_block_header(j, sh), hash |-> hash,
     block_target |-> nbits_to_target(j.nbits),
     share_target |-> div_target_by_difficulty(diff1_target, diff)]

validate_share(tr) ==
    IF leq_be(tr.hash, tr.block_target) THEN "Block"
    ELSE IF leq_be(tr.hash, tr.share_target) THEN "Accepted"
    ELSE "LowDifficulty"

-----------------------------------------------------------------------------
(* candidate_submit.rs and raw_block_builder.rs *)

\* What deserialize makes of bytes: the script is as long as announced.
deserializes(bytes) ==
    /\ Len(bytes) > 2 /\ bytes[2].kind = "script"
    /\ 3 + bytes[2].n \in DOMAIN bytes
    /\ bytes[3 + bytes[2].n].kind = "sequence"

restore_coinbase_witness(coinbase, t) == [bytes |-> coinbase, witness |-> t.commitment]

build_raw_block(header, coinbase, t) ==
    [header |-> header, coinbase |-> coinbase,
     transactions |-> [i \in DOMAIN t.transactions |-> t.transactions[i].data]]

-----------------------------------------------------------------------------
Init ==
    /\ case \in Cases
    /\ pool = NoPool
    /\ job = NoJob
    /\ share = NoShare
    /\ trace = NoTrace
    /\ verdict = "none"
    /\ block = NoBlock
    /\ outcome = "none"

\* main: a configuration in error ends the process before it starts.
Start ==
    /\ pool = NoPool
    /\ LET loaded == load_config(case.file, case.env)
       IN  pool' = IF loaded = {} THEN Refused ELSE start(TheOnly(loaded))
    /\ UNCHANGED << case, job, share, trace, verdict, block, outcome >>

\* Without a job nothing is sent to miners, now or at a later poll.
Map ==
    /\ running /\ job = NoJob
    /\ job' \in current_job(pool.services.job_source, template)
    /\ UNCHANGED << case, pool, share, trace, verdict, block, outcome >>

Refuse ==
    /\ job # NoJob /\ verdict = "none"
    /\ share' \in Shares
    /\ version_refused(share')
    /\ verdict' = "Rejected"
    /\ UNCHANGED << case, pool, job, trace, block, outcome >>

Judge ==
    /\ job # NoJob /\ verdict = "none"
    /\ share' \in Shares
    /\ ~version_refused(share')
    /\ \E hash \in Word :
           trace' = share_validation_trace(job, share', hash, pool.services.pool_difficulty)
    /\ verdict' = validate_share(trace')
    /\ UNCHANGED << case, pool, job, block, outcome >>

\* An error on the way to a block ends as LocalError: no block_assembly, or
\* a coinbase or a transaction of the template that does not deserialize.
assembles(j, sh, t) ==
    /\ j.block_assembly
    /\ deserializes(build_coinbase(j, sh))
    /\ \A i \in DOMAIN t.transactions : t.transactions[i].parses

Fail ==
    /\ verdict = "Block" /\ outcome = "none"
    /\ ~assembles(job, share, template)
    /\ outcome' = "LocalError"
    /\ UNCHANGED << case, pool, job, share, trace, verdict, block >>

Assemble ==
    /\ verdict = "Block" /\ outcome = "none"
    /\ assembles(job, share, template)
    /\ block' = build_raw_block(build_block_header(job, share),
                                restore_coinbase_witness(build_coinbase(job, share), template),
                                template)
    /\ outcome' = "submitblock attempt"
    /\ UNCHANGED << case, pool, job, share, trace, verdict >>

Next == Start \/ Map \/ Refuse \/ Judge \/ Fail \/ Assemble

Spec == Init /\ [][Next]_vars

-----------------------------------------------------------------------------
TypeOK ==
    /\ case \in Cases
    /\ share \in Shares \cup {NoShare}
    /\ verdict \in {"none", "Rejected", "Block", "Accepted", "LowDifficulty"}
    /\ outcome \in {"none", "LocalError", "submitblock attempt"}
    /\ (block # NoBlock) <=> (outcome = "submitblock attempt")
    /\ trace # NoTrace => /\ trace.header.version \subseteq Bits
                          /\ trace.header.ntime \in 0 .. U32 - 1
                          /\ trace.block_target \in Word
                          /\ trace.share_target \in Word

Value(nbits) == nbits.mantissa * Power(BASE, nbits.exponent - 3)

EasiestShare(diff) == ((BASE * BASE - 1) * Power(BASE, SIZE - 6)) \div (IF diff = 0 THEN 1 ELSE diff)

(***************************************************************************)
(* Bytes, carries and the two comparisons add up to what they stand for: a *)
(* hash is a block exactly if its number is at most the network's target,  *)
(* and else a share exactly if it is at most the one the miner was told,   *)
(* the difficulty-1 target divided by the difficulty of set_difficulty and *)
(* rounded down.  The network's target is of the template's bits as the    *)
(* daemon writes them, in the range in which they stand for a whole number *)
(* of 256 bits.                                                            *)
(***************************************************************************)
JudgedByValue ==
    verdict \in {"Block", "Accepted", "LowDifficulty"} /\ template.bits[1] \in 3 .. SIZE =>
        LET nbits == [exponent |-> template.bits[1], mantissa |-> Number(Tail(template.bits))]
        IN  verdict = IF Number(trace.hash) =< Value(nbits) THEN "Block"
                      ELSE IF Number(trace.hash) =< EasiestShare(pool.listeners.told_difficulty)
                      THEN "Accepted"
                      ELSE "LowDifficulty"

(***************************************************************************)
(* The setting that counts is the environment's if it can be read, else    *)
(* the file's, else the default, and DAEMON__NODE_API_TOKEN wins over      *)
(* AZ_NODE_API_TOKEN: "Env vars take precedence over TOML" (config.rs).    *)
(* Followed here to where it is used: the job source, the sink, the        *)
(* submitter, and the difficulties told and judged by.                     *)
(***************************************************************************)
Readable(variable, field) ==
    variable \in DOMAIN case.env /\ env_value(field, case.env[variable]) # {}

Effective(field, variable) ==
    IF Readable(variable, field) THEN TheOnly(env_value(field, case.env[variable]))
    ELSE IF case.file.found /\ field \in DOMAIN case.file.settings
    THEN TheOnly(toml_value(field, case.file.settings[field]))
    ELSE Default[field]

EffectiveToken ==
    LET given == IF Readable("DAEMON__NODE_API_TOKEN", "node_api_token")
                 THEN Effective("node_api_token", "DAEMON__NODE_API_TOKEN")
                 ELSE Effective("node_api_token", "AZ_NODE_API_TOKEN")
    IN  IF given.is = "blank" THEN None ELSE trim(given)

EnvironmentDecides ==
    running =>
        LET source == pool.services.job_source
            difficulty == Effective("initial_difficulty", "POOL__INITIAL_DIFFICULTY")
            payout == Effective("payout_script_pubkey_hex", "POOL__PAYOUT_SCRIPT_PUBKEY_HEX")
        IN  /\ source.kind = Effective("job_source_mode", "DAEMON__JOB_SOURCE_MODE")
            /\ pool.submitter = [url |-> Effective("url", "DAEMON__URL"),
                                 rpc_user |-> Effective("rpc_user", "DAEMON__RPC_USER"),
                                 rpc_password |-> Effective("rpc_password",
                                                            "DAEMON__RPC_PASSWORD")]
            /\ IF source.kind = "rpc" THEN source.daemon = pool.submitter
               ELSE source.url = pool.submitter.url /\ source.token = EffectiveToken
            /\ pool.listeners.api = << Effective("api_bind", "API__BIND"),
                                       Effective("api_port", "API__PORT") >>
            /\ pool.listeners.stratum = << Effective("stratum_bind", "STRATUM__BIND"),
                                           Effective("stratum_port", "STRATUM__PORT") >>
            /\ {pool.listeners.told_difficulty, pool.services.pool_difficulty} = {difficulty}
            /\ pool.armed <=> payout.is = "hex"
            /\ LET url == Effective("share_api_url", "DAEMON__SHARE_API_URL")
               IN  IF url.is = "blank" THEN pool.services.share_sink = None
                   ELSE pool.services.share_sink = [url |-> url, token |-> EffectiveToken]

\* What a daemon reads: numbers of a script are little-endian with a sign.
HeightRead(bytes) ==
    LET digits == SubSeq(bytes, 4, 3 + bytes[3].n)
    IN  IF digits = << >> THEN 0
        ELSE IF digits[Len(digits)].n >= BYTE \div 2 THEN None
        ELSE LET read[i \in 0 .. Len(digits)] ==
                     IF i = 0 THEN 0 ELSE read[i - 1] * BYTE + digits[Len(digits) + 1 - i].n
             IN  read[Len(digits)]

PairUp(level) ==
    [i \in 1 .. (Len(level) + 1) \div 2 |->
        double_sha256(<< level[2 * i - 1],
                         level[IF 2 * i =< Len(level) THEN 2 * i ELSE 2 * i - 1] >>)]

MerkleRoot(leaves) ==
    LET level[n \in 0 .. Len(leaves)] == IF n = 0 THEN leaves ELSE PairUp(level[n - 1])
        top == CHOOSE n \in 0 .. Len(leaves) :
                   Len(level[n]) = 1 /\ \A k \in 0 .. n - 1 : Len(level[k]) # 1
    IN  level[top][1]

\* The data of a transaction stands for its hash as well.
RootOfBlock == MerkleRoot(<< double_sha256(block.coinbase.bytes) >> \o block.transactions)

(***************************************************************************)
(* A block that leaves the pool is the one that was solved: its header is  *)
(* the header whose hash was judged, of the template's predecessor and     *)
(* bits and, unless the miner rolled it, its time; bits of the version     *)
(* outside the negotiated mask are the template's; its coinbase names the  *)
(* height, pays the configured script, survives being split and joined     *)
(* around the extranonces, and has the witness a commitment calls for.     *)
(* What the coinbase pays, and by which opcode a daemon wants the heights  *)
(* up to 16, is not said here.                                             *)
(***************************************************************************)
SolvedBlockIsSound ==
    block # NoBlock =>
        /\ block.header = trace.header
        /\ Reverse(block.header.prev_hash) = template.previousblockhash
        /\ hex_of_nbits(block.header.nbits) = template.bits
        /\ share.rolled = 0 => block.header.ntime = template.curtime % U32
        /\ share.version_bits # None =>
               /\ block.header.version \ share.version_rolling_mask
                      = template.version \ share.version_rolling_mask
               /\ block.header.version \cap share.version_rolling_mask = share.version_bits
        /\ HeightRead(block.coinbase.bytes) = template.height
        /\ \E i \in DOMAIN block.coinbase.bytes :
               block.coinbase.bytes[i] =
                   Item("payout", Effective("payout_script_pubkey_hex",
                                            "POOL__PAYOUT_SCRIPT_PUBKEY_HEX").n)[1]
        /\ block.coinbase.witness = template.commitment

(***************************************************************************)
(* The header of a block without transactions besides its coinbase, or     *)
(* with one, commits to them; with more see BlockCandidateClaims.          *)
(***************************************************************************)
SmallBlocksCommit ==
    /\ block # NoBlock
    /\ Len(template.transactions) =< 1
    /\ \A i \in DOMAIN template.transactions : template.transactions[i].txid # None
    => block.header.merkle_root = RootOfBlock

(***************************************************************************)
(* The pool judges the header the miner hashed, if the miner turns every   *)
(* element of the branch round as the pool has done before it sent it; the *)
(* miner has only mining.notify, with words swapped and numbers in hex,    *)
(* and sends back a time and version bits; the pool has the job.  A miner  *)
(* that takes the elements as they are sent hashes another header, unless  *)
(* each of them reads the same both ways, as all of no elements do.        *)
(***************************************************************************)
MinerHashesTheSameHeader ==
    trace # NoTrace =>
        LET mined(reading) ==
                mined_header(build_mining_notify(job), build_coinbase(job, share), reading,
                             share.version_bits, share.version_rolling_mask, share.rolled)
        IN  /\ trace.header = mined("reversed")
            /\ trace.header = mined("as sent") <=>
                   \A i \in DOMAIN job.merkle_branch :
                       job.merkle_branch[i] = Reverse(job.merkle_branch[i])

(***************************************************************************)
(* In RPC mode there is work only for an armed pool, and what keeps the    *)
(* block of a subscribed miner from being put together is only ever a      *)
(* transaction of the template: whatever the height, the flags, the payout *)
(* script and the extranonces, the coinbase is one again when its halves   *)
(* are joined.  The data of a transaction is looked into for the first     *)
(* time when a block is found, so work on a template with data that is no  *)
(* transaction is handed out although no block can be made of it.          *)
(***************************************************************************)
OnlyTransactionsSpoilBlocks ==
    job # NoJob /\ pool.services.job_source.kind = "rpc" =>
        /\ pool.armed
        /\ outcome = "LocalError" =>
               \/ 0 \in {share.extranonce1, share.extra_nonce2}
               \/ \E i \in DOMAIN template.transactions : ~template.transactions[i].parses
=============================================================================
