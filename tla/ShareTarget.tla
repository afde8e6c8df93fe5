------------------------------ MODULE ShareTarget ------------------------------
(***************************************************************************)
(* The arithmetic of share_validator.rs on 256-bit numbers as bytes, most  *)
(* significant first: the target an nBits stands for, its division by the  *)
(* difficulty, and the comparison of a hash with a target.                 *)
(*                                                                         *)
(* Slip_... definitions: see ActiveJobRegistry.                            *)
(***************************************************************************)
EXTENDS Naturals, Sequences

CONSTANTS
    BASE,     \* 256
    SIZE      \* 32 bytes

ASSUME WordAssumption == BASE \in Nat \ {0, 1} /\ SIZE \in Nat /\ SIZE > 6

Byte == 0 .. BASE - 1
Word == [1 .. SIZE -> Byte]
Zero == [i \in 1 .. SIZE |-> 0]

\* Recursion is over functions, and a power is one: what is proved here
\* needs the equations of both.
Power(b, k) == LET power[n \in Nat] == IF n = 0 THEN 1 ELSE b * power[n - 1] IN power[k]

Number(bytes) ==
    LET leading[n \in 0 .. Len(bytes)] ==
            IF n = 0 THEN 0 ELSE leading[n - 1] * BASE + bytes[n]
    IN  leading[Len(bytes)]

-----------------------------------------------------------------------------
\* The low four bytes, whatever the shift has pushed beyond them.
low4(v) ==
    [i \in 1 .. SIZE |-> IF i > SIZE - 4 THEN (v \div Power(BASE, SIZE - i)) % BASE ELSE 0]

Slip_OneByteUp(nbits) ==
    IF nbits.exponent =< 3 THEN low4(nbits.mantissa * Power(BASE, 3 - nbits.exponent))
    ELSE [i \in 1 .. SIZE |->
            IF i + nbits.exponent - SIZE \in 0 .. 2
            THEN (nbits.mantissa \div Power(BASE, SIZE + 2 - i - nbits.exponent)) % BASE
            ELSE 0]

\* An exponent below 3 shifts to the left.  One above SIZE wraps byte_offset
\* and leaves the target zero (with overflow checks it would panic).
nbits_to_target(nbits) ==
    IF nbits.exponent =< 3 THEN low4(nbits.mantissa * Power(BASE, 3 - nbits.exponent))
    ELSE IF nbits.exponent > SIZE THEN Zero
    ELSE [i \in 1 .. SIZE |->
            IF i + nbits.exponent - SIZE \in 1 .. 3
            THEN (nbits.mantissa \div Power(BASE, SIZE + 3 - i - nbits.exponent)) % BASE
            ELSE 0]

\* 0x1d00ffff
diff1_target == nbits_to_target([exponent |-> SIZE - 3, mantissa |-> BASE * BASE - 1])

Slip_RemainderKept(target, difficulty) ==
    LET remainder[i \in 0 .. SIZE] ==
            IF i = 0 THEN 0 ELSE remainder[i - 1] * BASE + target[i]
    IN  IF difficulty =< 1 THEN target
        ELSE [i \in 1 .. SIZE |-> (remainder[i - 1] * BASE + target[i]) \div difficulty]

\* Long division; that each quotient fits its byte is part of TypeOK.
div_target_by_difficulty(target, difficulty) ==
    LET remainder[i \in 0 .. SIZE] ==
            IF i = 0 THEN 0 ELSE (remainder[i - 1] * BASE + target[i]) % difficulty
    IN  IF difficulty =< 1 THEN target
        ELSE [i \in 1 .. SIZE |-> (remainder[i - 1] * BASE + target[i]) \div difficulty]

leq_be(a, b) ==
    \/ a = b
    \/ \E i \in 1 .. SIZE : a[i] < b[i] /\ \A j \in 1 .. i - 1 : a[j] = b[j]
=============================================================================
