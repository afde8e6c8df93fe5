----------------------------- MODULE MiningNotify -----------------------------
(***************************************************************************)
(* What a miner is sent, what it makes of it, and what it sends back:      *)
(* mining.notify and mining.submit.  The pool never sees the header a      *)
(* miner hashes, it builds its own; the two must be the same bytes.        *)
(*                                                                         *)
(* A version is the set of its bits, in hex as in the word.                *)
(*                                                                         *)
(* Slip_... definitions: see ActiveJobRegistry.                            *)
(***************************************************************************)
EXTENDS JobMapper

CONSTANT WORD      \* 4, the bytes of a word of a hash

ASSUME WordsAssumption == WORD \in Nat \ {0} /\ HASH \in Nat /\ HASH % WORD = 0

\* "{:08x}" and u32::from_str_radix
hex8(n)       == [i \in 1 .. 4 |-> (n \div Power(BYTE, 4 - i)) % BYTE]
from_hex8(hex) == ((hex[1] * BYTE + hex[2]) * BYTE + hex[3]) * BYTE + hex[4]

hex_of_nbits(nbits) ==
    << nbits.exponent, nbits.mantissa \div Power(BASE, 2), (nbits.mantissa \div BASE) % BASE,
       nbits.mantissa % BASE >>

Slip_WholeReversed(bytes) == Reverse(bytes)

hex_encode_prevhash_sv1(bytes) ==
    [i \in DOMAIN bytes |->
        LET in_word == (i - 1) % WORD IN bytes[(i - in_word) + (WORD - 1 - in_word)]]

hex_encode_reversed(bytes) == Reverse(bytes)

build_mining_notify(job) ==
    [prev_hash |-> hex_encode_prevhash_sv1(job.prev_hash),
     coinb1 |-> job.coinbase_part1, coinb2 |-> job.coinbase_part2,
     merkle_branch |-> [i \in DOMAIN job.merkle_branch |->
                          hex_encode_reversed(job.merkle_branch[i])],
     version |-> job.version, nbits |-> hex_of_nbits(job.nbits), ntime |-> hex8(job.ntime)]

-----------------------------------------------------------------------------
(* The miner, as Stratum V1 has it: words of the previous hash are swapped *)
(* back, the time may be rolled, and comes back as the hex of the number.  *)

swap_words(bytes) ==
    [i \in DOMAIN bytes |-> bytes[((i - 1) \div WORD) * WORD + (WORD - ((i - 1) % WORD))]]

double_sha256(x) == [sha256d |-> x]

rolled_time(notify, rolled) == (from_hex8(notify.ntime) + rolled) % U32

\* In which byte order a miner takes the elements of a branch the pool's
\* sources do not say: "as sent", or each "reversed" first.
taken(reading, hash) == IF reading = "reversed" THEN Reverse(hash) ELSE hash

\* From the hash of the coinbase up, one neighbour per level.
mined_root(coinbase, branch, reading) ==
    LET root[i \in 0 .. Len(branch)] ==
            IF i = 0 THEN double_sha256(coinbase)
            ELSE double_sha256(<< root[i - 1], taken(reading, branch[i]) >>)
    IN  root[Len(branch)]

mined_header(notify, coinbase, reading, version_bits, mask, rolled) ==
    [version |-> IF version_bits = None THEN notify.version
                 ELSE (notify.version \ mask) \cup version_bits,
     prev_hash |-> swap_words(notify.prev_hash),
     merkle_root |-> mined_root(coinbase, notify.merkle_branch, reading),
     ntime |-> rolled_time(notify, rolled),
     nbits |-> TheOnly(decode_bits(notify.nbits))]

\* domain_mapper.rs: the time of a mining.submit
submitted_ntime(hex) == {from_hex8(bytes) : bytes \in {x \in {hex} : Len(x) = 4}}
=============================================================================
