------------------------------- MODULE JobMapper -------------------------------
(***************************************************************************)
(* From what the daemon or the node API offers to a Job: the coinbase and  *)
(* its halves, the merkle branch, and the fields that are only decoded.    *)
(*                                                                         *)
(* Text in hex is the sequence of its bytes.  Of the bytes of a            *)
(* transaction, what a length counts is there item by item.                *)
(*                                                                         *)
(* Slip_... definitions: see ActiveJobRegistry.                            *)
(***************************************************************************)
EXTENDS PoolConfig, ShareTarget, SequencesExt

CONSTANTS
    Bits,          \* of the version field
    BYTE,          \* 256, of heights and times
    HASH           \* 32, the bytes of a hash

ASSUME ByteAssumption == BYTE \in Nat /\ BYTE > 1

U32 == Power(BYTE, 4)

\* The entry of a transaction in getblocktemplate.  Its data is hex when a
\* job is made of it and need not be a transaction.  If it parses as one it
\* stands for its hash, which a txid has in the other byte order.
Entry == {e \in [txid : Seq(Nat) \cup {None}, hash : Seq(Nat) \cup {None}, data : Seq(Nat),
                  parses : BOOLEAN] :
             e.txid # None /\ e.parses => Len(e.txid) = HASH /\ e.data = Reverse(e.txid)}

\* What getblocktemplate and template/current say, each in its words: the
\* node API has no flags, commitment and transactions, and its own time.
Template == [decodable : BOOLEAN, version : SUBSET Bits, previousblockhash : Seq(Nat),
             bits : {b \in Seq(Nat) : \A i \in 2 .. Len(b) : b[i] \in Byte},
             curtime : Nat, ntime : Seq(0 .. BYTE - 1), height : Nat, flags : 0 .. 1,
             commitment : BOOLEAN, transactions : Seq(Entry)]

-----------------------------------------------------------------------------
(* coinbase_builder.rs *)

Item(kind, n) == << [kind |-> kind, n |-> n] >>
Items(kind, n) == [i \in 1 .. n |-> [kind |-> kind, n |-> 0]]

\* The bytes of value, least significant first: what is left after each.
le_bytes(value) ==
    LET remaining[i \in 0 .. value] == IF i = 0 THEN value ELSE remaining[i - 1] \div BYTE
        len == CHOOSE n \in 0 .. value :
                   remaining[n] = 0 /\ \A k \in 0 .. n - 1 : remaining[k] # 0
    IN  [i \in 1 .. len |-> remaining[i - 1] % BYTE]

Slip_SignIgnored(value) == le_bytes(value)

encode_script_num(value) ==
    LET bytes == le_bytes(value)
    IN  IF bytes # << >> /\ bytes[Len(bytes)] >= BYTE \div 2 THEN Append(bytes, 0) ELSE bytes

\* The opcode and the length bytes are one item.
push_data(data) == Item("push", Len(data)) \o data

script_sig(height, flags) ==
    push_data([i \in DOMAIN encode_script_num(height) |->
                 [kind |-> "height", n |-> encode_script_num(height)[i]]])
        \o push_data(flags)

\* Without its witness, in which alone a commitment shows besides an output.
serialize_no_witness(script, payout, commitment) ==
    Item("version", 1) \o Item("script", Len(script)) \o script \o Item("sequence", 0)
        \o Item("payout", payout) \o (IF commitment THEN Item("commitment", 0) ELSE << >>)

-----------------------------------------------------------------------------
(* template_mapper.rs and api_template_mapper.rs *)

PLACEHOLDER == Items("placeholder", 2)

Slip_OnePlaceholderKept(t, payout) ==
    LET script == script_sig(t.height, Items("flags", t.flags) \o PLACEHOLDER)
        bytes == serialize_no_witness(script, payout, t.commitment)
        split_at == CHOOSE i \in DOMAIN bytes : SubSeq(bytes, i, i + 1) = PLACEHOLDER
    IN  << SubSeq(bytes, 1, split_at), SubSeq(bytes, split_at + 2, Len(bytes)) >>

build_coinbase_parts(t, payout) ==
    LET script == script_sig(t.height, Items("flags", t.flags) \o PLACEHOLDER)
        bytes == serialize_no_witness(script, payout, t.commitment)
        split_at == CHOOSE i \in DOMAIN bytes : /\ SubSeq(bytes, i, i + 1) = PLACEHOLDER
                                                /\ \A j \in 1 .. i - 1 : bytes[j] # PLACEHOLDER[1]
    IN  << SubSeq(bytes, 1, split_at - 1), SubSeq(bytes, split_at + 2, Len(bytes)) >>

api_coinbase_parts(t) == << Item("api height", t.height), Item("api end", 0) >>

\* An entry with neither hash, or one of another length, is passed over.
build_merkle_branch(t) ==
    LET hash_of(tx) == IF tx.txid # None THEN tx.txid ELSE tx.hash
        branch[i \in 0 .. Len(t.transactions)] ==
            IF i = 0 THEN << >>
            ELSE LET hash == hash_of(t.transactions[i])
                 IN  IF hash # None /\ Len(hash) = HASH
                     THEN Append(branch[i - 1], Reverse(hash)) ELSE branch[i - 1]
    IN  branch[Len(t.transactions)]

decode_prev_hash(hex) == {Reverse(bytes) : bytes \in {b \in {hex} : Len(b) = HASH}}

decode_bits(hex) ==
    {[exponent |-> b[1], mantissa |-> (b[2] * BASE + b[3]) * BASE + b[4]] :
        b \in {x \in {hex} : Len(x) = 4}}

ntime_to_u32(curtime) == curtime % U32

ntime_hex_to_u32(hex) == {((b[4] * BYTE + b[3]) * BYTE + b[2]) * BYTE + b[1] :
                            b \in {x \in {hex} : Len(x) = 4}}

\* The hex of flags, commitment and transactions, whatever its bytes say.
decoded(t) == t.decodable

\* A field that does not decode, or has another length, fails the template.
template_to_job(t, payout) ==
    {[prev_hash |-> h, coinbase_part1 |-> build_coinbase_parts(t, payout)[1],
      coinbase_part2 |-> build_coinbase_parts(t, payout)[2],
      merkle_branch |-> build_merkle_branch(t), version |-> t.version, nbits |-> n,
      ntime |-> ntime_to_u32(t.curtime), block_assembly |-> TRUE] :
        h \in decode_prev_hash(t.previousblockhash),
        n \in {b \in decode_bits(t.bits) : decoded(t)}}

api_template_to_job(t) ==
    {[prev_hash |-> h, coinbase_part1 |-> api_coinbase_parts(t)[1],
      coinbase_part2 |-> api_coinbase_parts(t)[2],
      merkle_branch |-> << >>, version |-> t.version, nbits |-> n,
      ntime |-> time, block_assembly |-> FALSE] :
        h \in decode_prev_hash(t.previousblockhash),
        n \in {b \in decode_bits(t.bits) : decoded(t)},
        time \in ntime_hex_to_u32(t.ntime)}

-----------------------------------------------------------------------------
(* job_source.rs, of an answering daemon or node *)

rpc_current_job(source, t) ==
    IF source.payout = None THEN {} ELSE template_to_job(t, source.payout)

api_current_job(source, t) == api_template_to_job(t)

current_job(source, t) ==
    IF source.kind = "rpc" THEN rpc_current_job(source, t) ELSE api_current_job(source, t)
=============================================================================
