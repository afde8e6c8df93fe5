------------------------ MODULE BlockCandidateProofs -------------------------
(***************************************************************************)
(* From configuration to block, for every configuration, template and      *)
(* share, and for bytes and targets of every width: which setting counts,  *)
(* that shares are judged by the numbers targets stand for, that the pool  *)
(* judges the header the miner hashed, and that the block put together is  *)
(* the one that was solved.                                                *)
(***************************************************************************)
EXTENDS BlockCandidate, WellFoundedInduction, SequenceTheorems, TLAPS

-----------------------------------------------------------------------------
(***************************************************************************)
(* Induction.  The library proves that < is well founded on Nat with facts *)
(* that take an operator as a parameter; of these only the instance below  *)
(* is used, that every set of numbers that is not empty has a least        *)
(* element.  Everything that has to be proved of every number follows from *)
(* it by way of the set of the numbers it holds of, and so does that a     *)
(* recursive function is there at all.                                     *)
(***************************************************************************)
Below == {p \in Nat \X Nat : p[1] < p[2]}

LEMMA BelowWF == IsWellFoundedOn(Below, Nat)
BY NatLessThanWellFounded DEF OpToRel, Below

\* Every set of numbers that is not empty has a least element.
LEMMA Least ==
    ASSUME NEW T \in SUBSET Nat, T # {}
    PROVE  \E m \in T : \A k \in T : m =< k
<1>1. PICK m \in T : \A k \in T : << k, m >> \notin Below
  BY BelowWF, WFMin
<1>2. ASSUME NEW k \in T PROVE m =< k
  <2>1. << k, m >> \in Nat \X Nat /\ << k, m >> \notin Below
    BY <1>1
  <2>2. ~(k < m)
    BY <2>1 DEF Below
  <2>3. QED
    BY <2>2
<1>3. QED
  BY <1>2

\* A set with 0 that is closed under successor is all of Nat.
LEMMA Induct ==
    ASSUME NEW T \in SUBSET Nat, 0 \in T, \A n \in T : n + 1 \in T
    PROVE  T = Nat
<1> DEFINE U == Nat \ T
<1> SUFFICES ASSUME U # {} PROVE FALSE
  OBVIOUS
<1>1. PICK m \in U : \A k \in U : m =< k
  BY Least
<1>2. m # 0 /\ m - 1 \in Nat
  BY <1>1
<1>3. m - 1 \in T
  BY <1>1, <1>2
<1>4. QED
  BY <1>1, <1>2, <1>3

\* f is defined on 0 .. N by f[0] and by a step.
Recursive(f, N, S, a, step) ==
    /\ f \in [0 .. N -> S] /\ f[0] = a
    /\ \A n \in 1 .. N : f[n] = step[<< n, f[n - 1] >>]

\* There is such a function, whatever the step.
LEMMA FiniteRecursion ==
    ASSUME NEW S, NEW a \in S, NEW N \in Nat, NEW step \in [(1 .. N) \X S -> S]
    PROVE  \E f : Recursive(f, N, S, a, step)
<1> DEFINE Good(n, f) == f[0] = a /\ \A k \in 1 .. n : f[k] = step[<< k, f[k - 1] >>]
           T == {n \in Nat : n =< N => \E f \in [0 .. n -> S] : Good(n, f)}
<1>1. 0 \in T
  <2>1. [k \in 0 .. 0 |-> a] \in [0 .. 0 -> S] /\ Good(0, [k \in 0 .. 0 |-> a])
    OBVIOUS
  <2>2. QED
    BY <2>1
<1>2. ASSUME NEW n \in T PROVE n + 1 \in T
  <2> SUFFICES ASSUME n + 1 =< N PROVE \E f \in [0 .. n + 1 -> S] : Good(n + 1, f)
    OBVIOUS
  <2>1. PICK f \in [0 .. n -> S] : Good(n, f)
    OBVIOUS
  <2> DEFINE g == [k \in 0 .. n + 1 |-> IF k = n + 1 THEN step[<< n + 1, f[n] >>] ELSE f[k]]
  <2>2. step[<< n + 1, f[n] >>] \in S
    OBVIOUS
  <2>3. g \in [0 .. n + 1 -> S]
    BY <2>2
  <2>4. ASSUME NEW k \in 1 .. n + 1 PROVE g[k] = step[<< k, g[k - 1] >>]
    <3>1. k - 1 \in 0 .. n /\ g[k - 1] = f[k - 1]
      OBVIOUS
    <3>2. CASE k = n + 1
      <4>1. g[n + 1] = step[<< n + 1, f[n] >>]
        OBVIOUS
      <4>2. k - 1 = n
        BY <3>2
      <4> HIDE DEF g
      <4>3. QED
        BY <3>1, <3>2, <4>1, <4>2
    <3>3. CASE k \in 1 .. n
      <4>1. g[k] = f[k] /\ f[k] = step[<< k, f[k - 1] >>]
        BY <2>1, <3>3
      <4>2. QED
        BY <3>1, <4>1
    <3>4. QED
      BY <3>2, <3>3
  <2>5. g[0] = a
    BY <2>1
  <2>6. QED
    BY <2>3, <2>4, <2>5
<1>3. N \in T
  <2> HIDE DEF T
  <2>1. T \in SUBSET Nat
    BY DEF T
  <2>2. QED
    BY <1>1, <1>2, <2>1, Induct
<1>4. QED
  BY <1>3 DEF Recursive

\* The same on all of Nat.
RecursiveOnNat(f, S, a, step) ==
    /\ f \in [Nat -> S] /\ f[0] = a
    /\ \A n \in Nat \ {0} : f[n] = step[<< n, f[n - 1] >>]

LEMMA Recursion ==
    ASSUME NEW S, NEW a \in S, NEW step \in [Nat \X S -> S]
    PROVE  \E f : RecursiveOnNat(f, S, a, step)
<1> DEFINE Good(n, f) == f[0] = a /\ \A k \in 1 .. n : f[k] = step[<< k, f[k - 1] >>]
           Parts(n) == {f \in [0 .. n -> S] : Good(n, f)}
           part(n) == CHOOSE f \in Parts(n) : TRUE
<1>1. ASSUME NEW n \in Nat PROVE part(n) \in Parts(n)
  <2> DEFINE cut == [p \in (1 .. n) \X S |-> step[p]]
  <2>1. cut \in [(1 .. n) \X S -> S]
    OBVIOUS
  <2>2. PICK f : Recursive(f, n, S, a, cut)
    BY <2>1, FiniteRecursion, Zenon
  <2>3. ASSUME NEW k \in 1 .. n PROVE cut[<< k, f[k - 1] >>] = step[<< k, f[k - 1] >>]
    BY <2>2 DEF Recursive
  <2>4. f \in Parts(n)
    BY <2>2, <2>3 DEF Recursive
  <2>5. QED
    BY <2>4
<1>2. ASSUME NEW n \in Nat PROVE part(n + 1)[n] = part(n)[n]
  <2> DEFINE f == part(n)
             g == part(n + 1)
             Same == {k \in Nat : k =< n => f[k] = g[k]}
  <2>1. Good(n, f) /\ Good(n + 1, g)
    <3> HIDE DEF part
    <3>1. part(n) \in Parts(n) /\ part(n + 1) \in Parts(n + 1)
      BY <1>1
    <3>2. QED
      BY <3>1
  <2> HIDE DEF f, g
  <2>2. 0 \in Same
    BY <2>1
  <2>3. ASSUME NEW k \in Same PROVE k + 1 \in Same
    <3> SUFFICES ASSUME k + 1 =< n PROVE f[k + 1] = g[k + 1]
      OBVIOUS
    <3>1. (k + 1) - 1 = k /\ k + 1 \in 1 .. n /\ k + 1 \in 1 .. n + 1 /\ f[k] = g[k]
      OBVIOUS
    <3>2. f[k + 1] = step[<< k + 1, f[(k + 1) - 1] >>] /\ g[k + 1] = step[<< k + 1, g[(k + 1) - 1] >>]
      BY <2>1, <3>1
    <3>3. QED
      BY <3>1, <3>2
  <2>4. Same \in SUBSET Nat
    OBVIOUS
  <2> HIDE DEF Same
  <2>5. Same = Nat
    BY <2>2, <2>3, <2>4, Induct
  <2>6. f[n] = g[n]
    BY <2>5 DEF Same
  <2>7. QED
    BY <2>6 DEF f, g
<1> DEFINE h == [n \in Nat |-> part(n)[n]]
<1>3. h \in [Nat -> S]
  <2>1. ASSUME NEW n \in Nat PROVE part(n)[n] \in S
    <3>1. part(n) \in [0 .. n -> S]
      BY <1>1
    <3> HIDE DEF part
    <3>2. QED
      BY <3>1
  <2> HIDE DEF part
  <2>2. QED
    BY <2>1
<1>4. h[0] = a
  BY <1>1
<1>5. ASSUME NEW n \in Nat \ {0} PROVE h[n] = step[<< n, h[n - 1] >>]
  <2>1. n - 1 \in Nat /\ (n - 1) + 1 = n /\ n \in 1 .. n
    OBVIOUS
  <2>2. Good(n, part(n))
    BY <1>1
  <2>3. part(n)[n] = step[<< n, part(n)[n - 1] >>]
    BY <2>1, <2>2
  <2> HIDE DEF part
  <2>4. part(n)[n - 1] = part(n - 1)[n - 1]
    BY <1>2, <2>1
  <2>5. h[n] = part(n)[n] /\ h[n - 1] = part(n - 1)[n - 1]
    BY <2>1
  <2>6. QED
    BY <2>3, <2>4, <2>5
<1> HIDE DEF h
<1>6. QED
  BY <1>3, <1>4, <1>5 DEF RecursiveOnNat

-----------------------------------------------------------------------------
(***************************************************************************)
(* Numbers in base BASE: powers, and the value of a sequence of bytes.     *)
(***************************************************************************)
LEMMA NatTimes == ASSUME NEW a \in Nat, NEW b \in Nat PROVE a * b \in Nat
OBVIOUS

\* Power obeys the equations of its definition.
LEMMA PowerRecursion ==
    ASSUME NEW b \in Nat
    PROVE  /\ Power(b, 0) = 1
           /\ \A k \in Nat : Power(b, k) \in Nat /\ Power(b, k + 1) = b * Power(b, k)
<1> DEFINE Equation(f) == f = [n \in Nat |-> IF n = 0 THEN 1 ELSE b * f[n - 1]]
           step == [p \in Nat \X Nat |-> b * p[2]]
           power == CHOOSE f : Equation(f)
<1>1. \E f : Equation(f)
  <2>1. step \in [Nat \X Nat -> Nat] /\ \A n, m \in Nat : step[<< n, m >>] = b * m
    BY NatTimes
  <2> HIDE DEF step
  <2>2. PICK f : RecursiveOnNat(f, Nat, 1, step)
    BY <2>1, Recursion, Zenon
  <2>3. ASSUME NEW n \in Nat \ {0} PROVE f[n] = b * f[n - 1]
    <3>1. f[n - 1] \in Nat /\ f[n] = step[<< n, f[n - 1] >>]
      BY <2>2 DEF RecursiveOnNat
    <3>2. QED
      BY <2>1, <3>1
  <2>4. Equation(f)
    BY <2>2, <2>3 DEF RecursiveOnNat
  <2>5. QED
    BY <2>4
<1>2. Equation(power)
  BY <1>1
<1>3. \A k : Power(b, k) = power[k]
  BY DEF Power
<1> HIDE DEF power
<1>4. power[0] = 1
  BY <1>2
<1>5. ASSUME NEW k \in Nat PROVE power[k + 1] = b * power[k]
  <2>1. k + 1 \in Nat /\ k + 1 # 0 /\ (k + 1) - 1 = k
    OBVIOUS
  <2>2. QED
    BY <1>2, <2>1
<1> DEFINE Natural == {k \in Nat : power[k] \in Nat}
<1>6. Natural = Nat
  <2>1. 0 \in Natural /\ \A k \in Natural : k + 1 \in Natural
    BY <1>4, <1>5
  <2>2. Natural \in SUBSET Nat
    OBVIOUS
  <2> HIDE DEF Natural
  <2>3. QED
    BY <2>1, <2>2, Induct
<1>7. \A k \in Nat : power[k] \in Nat
  BY <1>6
<1>8. QED
  BY <1>3, <1>4, <1>5, <1>7

\* l has the values of the leading digits of x.
Digits(l, x, n) ==
    /\ l \in [0 .. n -> Nat] /\ l[0] = 0
    /\ \A i \in 1 .. n : l[i] = l[i - 1] * BASE + x[i]

\* Number is the value of all of them.
LEMMA NumberRecursion ==
    ASSUME NEW n \in Nat, NEW x \in [1 .. n -> Nat]
    PROVE  \E l : Digits(l, x, n) /\ Number(x) = l[n]
<1> DEFINE Equation(f) == f = [i \in 0 .. Len(x) |-> IF i = 0 THEN 0 ELSE f[i - 1] * BASE + x[i]]
           step == [p \in (1 .. n) \X Nat |-> p[2] * BASE + x[p[1]]]
           leading == CHOOSE f : Equation(f)
<1>1. Len(x) = n
  OBVIOUS
<1>2. \E f : Equation(f)
  <2>1. \A i \in 1 .. n, m \in Nat : m * BASE \in Nat /\ m * BASE + x[i] \in Nat
    BY NatTimes, WordAssumption
  <2>9. /\ step \in [(1 .. n) \X Nat -> Nat]
        /\ \A i \in 1 .. n, m \in Nat : step[<< i, m >>] = m * BASE + x[i]
    BY <2>1
  <2> HIDE DEF step
  <2>2. PICK f : Recursive(f, n, Nat, 0, step)
    BY <2>9, FiniteRecursion, Zenon
  <2>3. ASSUME NEW i \in 1 .. n PROVE f[i] = f[i - 1] * BASE + x[i]
    <3>1. f[i - 1] \in Nat /\ f[i] = step[<< i, f[i - 1] >>]
      BY <2>2 DEF Recursive
    <3>2. QED
      BY <2>9, <3>1
  <2>4. Equation(f)
    BY <1>1, <2>2, <2>3 DEF Recursive
  <2>5. QED
    BY <2>4
<1>3. Equation(leading)
  BY <1>2
<1>4. Number(x) = leading[n]
  BY <1>1 DEF Number
<1> HIDE DEF leading
<1>5. /\ leading[0] = 0 /\ DOMAIN leading = 0 .. n
      /\ \A i \in 1 .. n : leading[i] = leading[i - 1] * BASE + x[i]
  <2>1. leading = [i \in 0 .. n |-> IF i = 0 THEN 0 ELSE leading[i - 1] * BASE + x[i]]
    BY <1>1, <1>3
  <2>2. DOMAIN leading = 0 .. n /\ leading[0] = 0
    BY <2>1
  <2>3. ASSUME NEW i \in 1 .. n PROVE leading[i] = leading[i - 1] * BASE + x[i]
    <3>1. i \in 0 .. n /\ i # 0
      OBVIOUS
    <3>2. QED
      BY <2>1, <3>1
  <2>4. QED
    BY <2>2, <2>3
<1> DEFINE Natural == {k \in Nat : k =< n => leading[k] \in Nat}
<1>6. Natural = Nat
  <2>1. 0 \in Natural
    BY <1>5
  <2>2. ASSUME NEW k \in Natural PROVE k + 1 \in Natural
    <3> SUFFICES ASSUME k + 1 =< n PROVE leading[k + 1] \in Nat
      OBVIOUS
    <3>1. k + 1 \in 1 .. n /\ (k + 1) - 1 = k /\ leading[k] \in Nat
      OBVIOUS
    <3>2. leading[k + 1] = leading[k] * BASE + x[k + 1]
      BY <1>5, <3>1
    <3>3. leading[k] * BASE \in Nat /\ x[k + 1] \in Nat
      BY <3>1, WordAssumption, NatTimes
    <3>4. QED
      BY <3>2, <3>3
  <2>3. Natural \in SUBSET Nat
    OBVIOUS
  <2> HIDE DEF Natural
  <2>4. QED
    BY <2>1, <2>2, <2>3, Induct
<1>7. \A k \in 0 .. n : leading[k] \in Nat
  BY <1>6
<1> HIDE DEF Equation
<1>9. leading \in [0 .. n -> Nat]
  <2>1. leading = [k \in 0 .. n |-> leading[k]]
    BY <1>1, <1>3 DEF Equation
  <2>2. QED
    BY <2>1, <1>7
<1>8. QED
  BY <1>4, <1>5, <1>9 DEF Digits

-----------------------------------------------------------------------------
(***************************************************************************)
(* Targets are compared as the numbers they stand for.                     *)
(***************************************************************************)
LEMMA Bytes == Byte \subseteq Nat /\ \A x \in Word : x \in [1 .. SIZE -> Nat]
BY WordAssumption DEF Byte, Word

\* One more in front outweighs whatever follows.
LEMMA Carried ==
    ASSUME NEW p \in Nat, NEW q \in Nat, p < q, NEW x \in Byte, NEW y \in Byte
    PROVE  p * BASE + x < q * BASE + y
<1>1. BASE \in Nat /\ x \in Nat /\ y \in Nat /\ x < BASE
  BY WordAssumption DEF Byte
<1> DEFINE d == q - (p + 1)
<1>2. d \in Nat /\ q = p + 1 + d
  OBVIOUS
<1>3. q * BASE = p * BASE + BASE + d * BASE
  BY <1>1, <1>2
<1>4. d * BASE \in Nat /\ p * BASE \in Nat
  BY <1>1, <1>2, NatTimes
<1> HIDE DEF d
<1>5. QED
  BY <1>1, <1>3, <1>4

\* The first byte that differs decides.
LEMMA FirstDifference ==
    ASSUME NEW a \in Word, NEW b \in Word, NEW l, Digits(l, a, SIZE), NEW m, Digits(m, b, SIZE),
           NEW i \in 1 .. SIZE, a[i] < b[i], \A j \in 1 .. i - 1 : a[j] = b[j]
    PROVE  l[SIZE] < m[SIZE]
<1> DEFINE Equal == {k \in Nat : k < i => l[k] = m[k]}
           Less  == {k \in Nat : i + k =< SIZE => l[i + k] < m[i + k]}
<1>0. SIZE \in Nat /\ BASE \in Nat
  BY WordAssumption
<1>1. Equal = Nat
  <2>1. 0 \in Equal
    BY DEF Digits
  <2>2. ASSUME NEW k \in Equal PROVE k + 1 \in Equal
    <3> SUFFICES ASSUME k + 1 < i PROVE l[k + 1] = m[k + 1]
      OBVIOUS
    <3>1. k + 1 \in 1 .. SIZE /\ (k + 1) - 1 = k /\ a[k + 1] = b[k + 1] /\ l[k] = m[k]
      BY <1>0
    <3>2. QED
      BY <3>1 DEF Digits
  <2>3. Equal \in SUBSET Nat
    OBVIOUS
  <2> HIDE DEF Equal
  <2>4. QED
    BY <2>1, <2>2, <2>3, Induct
<1>2. Less = Nat
  <2>1. 0 \in Less
    <3>1. i - 1 \in Nat /\ i - 1 < i
      OBVIOUS
    <3>2. l[i - 1] = m[i - 1]
      BY <1>1, <3>1
    <3>3. a[i] \in Nat /\ b[i] \in Nat
      BY Bytes
    <3>4. l[i - 1] \in Nat
      BY <1>0, <3>1 DEF Digits
    <3>5. l[i - 1] * BASE \in Nat
      BY <1>0, <3>4, NatTimes
    <3>6. l[i] = l[i - 1] * BASE + a[i] /\ m[i] = l[i - 1] * BASE + b[i]
      BY <3>2 DEF Digits
    <3>7. QED
      BY <3>3, <3>5, <3>6
  <2>2. ASSUME NEW k \in Less PROVE k + 1 \in Less
    <3> SUFFICES ASSUME i + (k + 1) =< SIZE PROVE l[i + (k + 1)] < m[i + (k + 1)]
      OBVIOUS
    <3> DEFINE n == i + (k + 1)
    <3>1. n \in 1 .. SIZE /\ n - 1 = i + k /\ n - 1 \in 0 .. SIZE
      BY <1>0
    <3>2. l[n - 1] < m[n - 1]
      BY <1>0, <3>1
    <3> HIDE DEF n
    <3>3. l[n - 1] \in Nat /\ m[n - 1] \in Nat /\ a[n] \in Byte /\ b[n] \in Byte
      BY <3>1 DEF Digits, Word
    <3>4. l[n - 1] * BASE + a[n] < m[n - 1] * BASE + b[n]
      BY <3>2, <3>3, Carried
    <3>5. l[n] < m[n]
      BY <3>1, <3>4 DEF Digits
    <3>6. QED
      BY <3>5 DEF n
  <2>3. Less \in SUBSET Nat
    OBVIOUS
  <2> HIDE DEF Less
  <2>4. QED
    BY <2>1, <2>2, <2>3, Induct
<1> DEFINE k == SIZE - i
<1>3. k \in Less /\ i + k = SIZE
  <2>1. k \in Nat /\ i + k = SIZE
    BY <1>0
  <2>2. QED
    BY <1>2, <2>1
<1> HIDE DEF k
<1>4. QED
  BY <1>0, <1>3

(***************************************************************************)
(* leq_be compares byte by byte, most significant first; for bytes of      *)
(* every width and number that is the comparison of the numbers.           *)
(***************************************************************************)
THEOREM ComparedByValue ==
    ASSUME NEW a \in Word, NEW b \in Word
    PROVE  leq_be(a, b) <=> Number(a) =< Number(b)
<1>1. PICK l : Digits(l, a, SIZE) /\ Number(a) = l[SIZE]
  BY WordAssumption, Bytes, NumberRecursion
<1>2. PICK m : Digits(m, b, SIZE) /\ Number(b) = m[SIZE]
  BY WordAssumption, Bytes, NumberRecursion
<1>3. Number(a) \in Nat /\ Number(b) \in Nat
  BY <1>1, <1>2, WordAssumption DEF Digits
<1>4. ASSUME NEW i \in 1 .. SIZE, a[i] < b[i], \A j \in 1 .. i - 1 : a[j] = b[j]
      PROVE  Number(a) < Number(b)
  BY <1>1, <1>2, <1>4, FirstDifference
<1>5. ASSUME NEW i \in 1 .. SIZE, b[i] < a[i], \A j \in 1 .. i - 1 : b[j] = a[j]
      PROVE  Number(b) < Number(a)
  BY <1>1, <1>2, <1>5, FirstDifference
<1>6. CASE a = b
  BY <1>3, <1>6 DEF leq_be
<1>7. CASE a # b
  <2> DEFINE D == {i \in 1 .. SIZE : a[i] # b[i]}
  <2>1. D # {} /\ D \in SUBSET Nat
    <3>1. \E i \in 1 .. SIZE : a[i] # b[i]
      <4>1. a = [i \in 1 .. SIZE |-> a[i]] /\ b = [i \in 1 .. SIZE |-> b[i]]
        BY DEF Word
      <4>2. QED
        BY <1>7, <4>1
    <3>2. QED
      BY <3>1
  <2>2. PICK i \in D : \A k \in D : i =< k
    BY <2>1, Least
  <2>3. i \in 1 .. SIZE /\ a[i] # b[i] /\ i \in Nat
    OBVIOUS
  <2>4. \A j \in 1 .. i - 1 : a[j] = b[j]
    <3> SUFFICES ASSUME NEW j \in 1 .. i - 1, a[j] # b[j] PROVE FALSE
      OBVIOUS
    <3>1. j \in D /\ j < i
      BY <2>3, WordAssumption
    <3>2. QED
      BY <2>2, <2>3, <3>1
  <2>5. a[i] \in Nat /\ b[i] \in Nat
    BY <2>3, Bytes
  <2>6. CASE a[i] < b[i]
    BY <1>3, <1>4, <2>3, <2>4, <2>6 DEF leq_be
  <2>7. CASE b[i] < a[i]
    <3>1. Number(b) < Number(a)
      BY <1>5, <2>3, <2>4, <2>7
    <3>2. ASSUME leq_be(a, b) PROVE FALSE
      <4>1. PICK k \in 1 .. SIZE : a[k] < b[k] /\ \A j \in 1 .. k - 1 : a[j] = b[j]
        BY <1>7, <3>2 DEF leq_be
      <4>2. Number(a) < Number(b)
        BY <1>4, <4>1
      <4>3. QED
        BY <1>3, <3>1, <4>2
    <3>3. QED
      BY <1>3, <3>1, <3>2
  <2>8. QED
    BY <2>3, <2>5, <2>6, <2>7
<1>8. QED
  BY <1>6, <1>7

-----------------------------------------------------------------------------
(***************************************************************************)
(* Long division.                                                          *)
(***************************************************************************)
LEMMA Divided ==
    ASSUME NEW v \in Nat, NEW d \in Nat \ {0}
    PROVE  /\ v \div d \in Nat /\ v % d \in Nat /\ v % d < d
           /\ v = (v \div d) * d + (v % d)
OBVIOUS

LEMMA QuotientIsUnique ==
    ASSUME NEW q \in Nat, NEW d \in Nat \ {0}, NEW r \in Nat, r < d
    PROVE  (q * d + r) \div d = q
OBVIOUS

\* A remainder and the next byte, divided, are one byte.
LEMMA QuotientFits ==
    ASSUME NEW r \in Nat, NEW d \in Nat \ {0}, r < d, NEW x \in Byte
    PROVE  (r * BASE + x) \in Nat /\ (r * BASE + x) \div d \in Byte
<1>1. BASE \in Nat \ {0} /\ x \in Nat /\ x < BASE
  BY WordAssumption DEF Byte
<1> DEFINE v == r * BASE + x
<1>2. r * BASE \in Nat /\ v \in Nat
  BY <1>1, NatTimes
<1>3. v < d * BASE
  <2> DEFINE e == d - (r + 1)
  <2>1. e \in Nat /\ d = r + 1 + e
    OBVIOUS
  <2>2. d * BASE = r * BASE + BASE + e * BASE
    BY <1>1, <2>1
  <2>3. e * BASE \in Nat
    BY <1>1, <2>1, NatTimes
  <2> HIDE DEF e
  <2>4. QED
    BY <1>1, <1>2, <2>2, <2>3
<1> HIDE DEF v
<1>4. v \div d < BASE /\ v \div d \in Nat
  BY <1>1, <1>2, <1>3
<1>5. QED
  BY <1>1, <1>2, <1>4 DEF v, Byte

(***************************************************************************)
(* div_target_by_difficulty divides byte by byte and carries the           *)
(* remainder: the result is a target again, and its number is the quotient *)
(* rounded down, for every difficulty; 0 counts as 1.                      *)
(***************************************************************************)
THEOREM DividedByValue ==
    ASSUME NEW t \in Word, NEW d \in Nat
    PROVE  /\ div_target_by_difficulty(t, d) \in Word
           /\ Number(div_target_by_difficulty(t, d)) = Number(t) \div (IF d = 0 THEN 1 ELSE d)
<1>0. SIZE \in Nat /\ BASE \in Nat \ {0} /\ Byte \subseteq Nat /\ t \in [1 .. SIZE -> Nat]
  BY WordAssumption, Bytes
<1>1. PICK l : Digits(l, t, SIZE) /\ Number(t) = l[SIZE]
  BY <1>0, NumberRecursion
<1>2. CASE d =< 1
  <2>1. div_target_by_difficulty(t, d) = t
    BY <1>2 DEF div_target_by_difficulty
  <2>2. Number(t) \in Nat
    BY <1>0, <1>1 DEF Digits
  <2>3. Number(t) \div 1 = Number(t) /\ (d = 0 \/ d = 1)
    BY <1>2, <2>2
  <2>4. QED
    BY <2>1, <2>3
<1>3. CASE d > 1
  <2> DEFINE Equation(f) ==
               f = [i \in 0 .. SIZE |-> IF i = 0 THEN 0 ELSE (f[i - 1] * BASE + t[i]) % d]
             step == [p \in (1 .. SIZE) \X (0 .. d - 1) |-> (p[2] * BASE + t[p[1]]) % d]
             r == CHOOSE f : Equation(f)
             q == [i \in 1 .. SIZE |-> (r[i - 1] * BASE + t[i]) \div d]
  <2>1. d \in Nat \ {0} /\ 0 \in 0 .. d - 1
    BY <1>3
  <2>2. \E f : Equation(f)
    <3>1. ASSUME NEW i \in 1 .. SIZE, NEW m \in 0 .. d - 1
          PROVE  (m * BASE + t[i]) % d \in 0 .. d - 1
      <4>1. m \in Nat /\ t[i] \in Nat /\ m * BASE \in Nat
        BY <1>0, <2>1, NatTimes
      <4>2. m * BASE + t[i] \in Nat
        BY <4>1
      <4>3. QED
        BY <2>1, <4>2, Divided
    <3>2. /\ step \in [(1 .. SIZE) \X (0 .. d - 1) -> 0 .. d - 1]
          /\ \A i \in 1 .. SIZE, m \in 0 .. d - 1 : step[<< i, m >>] = (m * BASE + t[i]) % d
      BY <3>1
    <3> HIDE DEF step
    <3>3. PICK f : Recursive(f, SIZE, 0 .. d - 1, 0, step)
      BY <1>0, <2>1, <3>2, FiniteRecursion, Zenon
    <3>4. ASSUME NEW i \in 1 .. SIZE PROVE f[i] = (f[i - 1] * BASE + t[i]) % d
      <4>1. f[i] = step[<< i, f[i - 1] >>]
        BY <3>3 DEF Recursive
      <4>3. f \in [0 .. SIZE -> 0 .. d - 1] /\ i - 1 \in 0 .. SIZE
        BY <1>0, <3>3 DEF Recursive
      <4>4. f[i - 1] \in 0 .. d - 1
        BY <4>3
      <4>2. QED
        BY <3>2, <4>1, <4>4
    <3>5. Equation(f)
      BY <3>3, <3>4 DEF Recursive
    <3>6. QED
      BY <3>5
  <2>3. Equation(r)
    BY <2>2
  <2>4. div_target_by_difficulty(t, d) = q
    BY <1>3, ~(d =< 1), Zenon DEF div_target_by_difficulty
  <2> HIDE DEF r
  <2>5. r[0] = 0 /\ \A i \in 1 .. SIZE : r[i] = (r[i - 1] * BASE + t[i]) % d
    <3>1. r[0] = 0
      BY <1>0, <2>3
    <3>2. ASSUME NEW i \in 1 .. SIZE PROVE r[i] = (r[i - 1] * BASE + t[i]) % d
      <4>1. i \in 0 .. SIZE /\ i # 0
        OBVIOUS
      <4>2. QED
        BY <2>3, <4>1
    <3>3. QED
      BY <3>1, <3>2
  <2> DEFINE Left == {k \in Nat : k =< SIZE => r[k] \in Nat /\ r[k] < d}
  <2>6. Left = Nat
    <3>1. 0 \in Left
      BY <2>1, <2>5
    <3>2. ASSUME NEW k \in Left PROVE k + 1 \in Left
      <4> SUFFICES ASSUME k + 1 =< SIZE PROVE r[k + 1] \in Nat /\ r[k + 1] < d
        OBVIOUS
      <4>1. k + 1 \in 1 .. SIZE /\ (k + 1) - 1 = k /\ r[k] \in Nat
        BY <1>0
      <4>2. r[k] * BASE \in Nat /\ t[k + 1] \in Nat
        BY <1>0, <4>1, NatTimes
      <4>3. r[k + 1] = (r[k] * BASE + t[k + 1]) % d
        BY <2>5, <4>1
      <4>4. QED
        BY <2>1, <4>2, <4>3, Divided
    <3>3. Left \in SUBSET Nat
      OBVIOUS
    <3> HIDE DEF Left
    <3>4. QED
      BY <3>1, <3>2, <3>3, Induct
  <2>7. ASSUME NEW i \in 1 .. SIZE
        PROVE  /\ r[i - 1] \in Nat /\ r[i - 1] < d
               /\ r[i - 1] * BASE + t[i] \in Nat /\ q[i] \in Byte
               /\ r[i - 1] * BASE + t[i] = q[i] * d + r[i]
    <3>1. i - 1 \in Nat /\ i - 1 =< SIZE
      BY <1>0
    <3>2. r[i - 1] \in Nat /\ r[i - 1] < d
      BY <2>6, <3>1
    <3>3. t[i] \in Byte
      BY DEF Word
    <3> DEFINE v == r[i - 1] * BASE + t[i]
    <3>4. v \in Nat /\ v \div d \in Byte
      BY <2>1, <3>2, <3>3, QuotientFits
    <3>5. q[i] = v \div d /\ r[i] = v % d
      BY <2>5
    <3> HIDE DEF v, q
    <3>6. v = q[i] * d + r[i]
      BY <2>1, <3>4, <3>5, Divided
    <3>7. QED
      BY <3>2, <3>4, <3>5, <3>6 DEF v
  <2>8. q \in Word
    BY <2>7 DEF Word
  <2> HIDE DEF q
  <2>9. PICK m : Digits(m, q, SIZE) /\ Number(q) = m[SIZE]
    BY <1>0, <2>8, Bytes, NumberRecursion
  <2> DEFINE Exact == {k \in Nat : k =< SIZE => l[k] = m[k] * d + r[k]}
  <2>10. Exact = Nat
    <3>1. 0 \in Exact
      BY <1>1, <2>1, <2>5, <2>9 DEF Digits
    <3>2. ASSUME NEW k \in Exact PROVE k + 1 \in Exact
      <4> SUFFICES ASSUME k + 1 =< SIZE PROVE l[k + 1] = m[k + 1] * d + r[k + 1]
        OBVIOUS
      <4> DEFINE n == k + 1
      <4>1. n \in 1 .. SIZE /\ n - 1 = k /\ n - 1 \in 0 .. SIZE /\ n \in 0 .. SIZE
        BY <1>0
      <4>2. l[n - 1] = m[n - 1] * d + r[n - 1]
        BY <1>0, <4>1
      <4> HIDE DEF n
      <4>3. l[n - 1] \in Nat /\ m[n - 1] \in Nat /\ t[n] \in Nat /\ q[n] \in Nat
        BY <1>0, <1>1, <2>7, <2>9, <4>1 DEF Digits
      <4>4. /\ l[n] = l[n - 1] * BASE + t[n]
            /\ m[n] = m[n - 1] * BASE + q[n]
        BY <1>1, <2>9, <4>1 DEF Digits
      <4>5. r[n - 1] * BASE + t[n] = q[n] * d + r[n] /\ r[n - 1] \in Nat /\ r[n] \in Nat
        BY <2>6, <2>7, <4>1
      <4> HIDE DEF Exact
      <4>6. l[n] = m[n] * d + r[n]
        <5> DEFINE u == l[n - 1]  w == m[n - 1]  c == r[n - 1]
        <5>1. u * BASE = (w * d) * BASE + c * BASE
          <6>1. w * d \in Nat /\ u = w * d + c /\ c \in Nat
            BY <2>1, <4>2, <4>3, <4>5, NatTimes
          <6>2. \A x, y \in Nat : (x + y) * BASE = x * BASE + y * BASE
            BY <1>0
          <6> HIDE DEF u, w, c
          <6>3. QED
            BY <6>1, <6>2
        <5>2. (w * d) * BASE = (w * BASE) * d
          BY <1>0, <2>1, <4>3
        <5>3. (w * BASE + q[n]) * d = (w * BASE) * d + q[n] * d
          BY <1>0, <2>1, <4>3
        <5>4. /\ (w * BASE) * d \in Nat /\ c * BASE \in Nat /\ q[n] * d \in Nat
              /\ u * BASE \in Nat
          BY <1>0, <2>1, <4>3, <4>5, NatTimes
        <5> HIDE DEF u, w, c
        <5>5. l[n] = u * BASE + t[n] /\ m[n] = w * BASE + q[n] /\ c * BASE + t[n] = q[n] * d + r[n]
          BY <4>4, <4>5 DEF u, w, c
        <5>6. m[n] * d = (w * BASE) * d + q[n] * d
          BY <5>3, <5>5
        <5>7. QED
          BY <4>3, <4>5, <5>1, <5>2, <5>4, <5>5, <5>6
      <4>7. QED
        BY <4>6 DEF n
    <3>3. Exact \in SUBSET Nat
      OBVIOUS
    <3> HIDE DEF Exact
    <3>4. QED
      BY <3>1, <3>2, <3>3, Induct
  <2>11. /\ l[SIZE] = m[SIZE] * d + r[SIZE]
         /\ m[SIZE] \in Nat /\ r[SIZE] \in Nat /\ r[SIZE] < d
    BY <1>0, <2>6, <2>9, <2>10 DEF Digits
  <2>12. l[SIZE] \div d = m[SIZE]
    BY <2>1, <2>11, QuotientIsUnique
  <2>13. QED
    BY <1>1, <2>1, <2>4, <2>8, <2>9, <2>12
<1>4. QED
  BY <1>2, <1>3

-----------------------------------------------------------------------------
(***************************************************************************)
(* The compact form of a target.                                           *)
(***************************************************************************)
LEMMA Powers ==
    /\ Power(BASE, 0) = 1 /\ Power(BASE, 1) = BASE /\ Power(BASE, 2) = BASE * BASE
    /\ Power(BASE, 3) = BASE * BASE * BASE
    /\ \A k \in Nat : Power(BASE, k) \in Nat \ {0} /\ Power(BASE, k + 1) = BASE * Power(BASE, k)
<1>1. BASE \in Nat \ {0, 1}
  BY WordAssumption
<1>2. /\ Power(BASE, 0) = 1
      /\ \A k \in Nat : Power(BASE, k) \in Nat /\ Power(BASE, k + 1) = BASE * Power(BASE, k)
  BY <1>1, PowerRecursion
<1>3. Power(BASE, 0 + 1) = BASE * 1 /\ Power(BASE, 1 + 1) = BASE * Power(BASE, 1)
      /\ Power(BASE, 2 + 1) = BASE * Power(BASE, 2)
  BY <1>2
<1>4. Power(BASE, 1) = BASE
  BY <1>1, <1>3
<1>5. Power(BASE, 2) = BASE * BASE
  BY <1>3, <1>4
<1>6. Power(BASE, 3) = BASE * BASE * BASE
  BY <1>1, <1>3, <1>5
<1> DEFINE Positive == {k \in Nat : Power(BASE, k) # 0}
<1>7. Positive = Nat
  <2>1. 0 \in Positive
    BY <1>2
  <2>2. ASSUME NEW k \in Positive PROVE k + 1 \in Positive
    <3>1. \A a, b \in Nat \ {0} : a * b # 0
      OBVIOUS
    <3>2. QED
      BY <1>1, <1>2, <3>1
  <2>3. Positive \in SUBSET Nat
    OBVIOUS
  <2> HIDE DEF Positive
  <2>4. QED
    BY <2>1, <2>2, <2>3, Induct
<1>8. \A k \in Nat : Power(BASE, k) # 0
  BY <1>7
<1>9. QED
  BY <1>2, <1>4, <1>5, <1>6, <1>8

\* A number of three bytes is what its bytes stand for.
LEMMA ThreeBytes ==
    ASSUME NEW m \in Nat, m < BASE * BASE * BASE
    PROVE  /\ (m \div Power(BASE, 2)) % BASE \in Byte
           /\ (m \div Power(BASE, 1)) % BASE \in Byte
           /\ (m \div Power(BASE, 0)) % BASE \in Byte
           /\ m = (((m \div Power(BASE, 2)) % BASE) * BASE
                   + ((m \div Power(BASE, 1)) % BASE)) * BASE + ((m \div Power(BASE, 0)) % BASE)
<1> DEFINE k == m \div BASE  c == m % BASE  a == k \div BASE  b == k % BASE
<1>1. BASE \in Nat \ {0, 1}
  BY WordAssumption
<1>2. k \in Nat /\ c \in Nat /\ c < BASE /\ m = k * BASE + c
  BY <1>1, Divided
<1>3. a \in Nat /\ b \in Nat /\ b < BASE /\ k = a * BASE + b
  <2> HIDE DEF k
  <2>1. QED
    BY <1>1, <1>2, Divided
<1> HIDE DEF a, b, c, k
<1>4. k * BASE = a * (BASE * BASE) + b * BASE
  BY <1>1, <1>3
<1>5. b * BASE + c \in Nat /\ b * BASE + c < BASE * BASE
  <2> DEFINE e == BASE - (b + 1)
  <2>1. e \in Nat /\ BASE = b + 1 + e
    BY <1>1, <1>3
  <2>2. BASE * BASE = b * BASE + BASE + e * BASE
    BY <1>1, <1>3, <2>1
  <2>3. e * BASE \in Nat /\ b * BASE \in Nat
    BY <1>1, <1>3, <2>1, NatTimes
  <2> HIDE DEF e
  <2>4. QED
    BY <1>1, <1>2, <2>2, <2>3
<1>6. BASE * BASE \in Nat \ {0} /\ a * (BASE * BASE) \in Nat
  <2>1. \A x, y \in Nat \ {0} : x * y \in Nat \ {0}
    OBVIOUS
  <2>2. BASE * BASE \in Nat \ {0}
    BY <1>1, <2>1
  <2>3. QED
    BY <1>3, <2>2, NatTimes
<1>7. m = a * (BASE * BASE) + (b * BASE + c)
  <2>1. b * BASE \in Nat
    BY <1>1, <1>3, NatTimes
  <2>2. QED
    BY <1>2, <1>4, <1>6, <2>1
<1> DEFINE square == BASE * BASE
           low == b * BASE + c
<1>8. square \in Nat \ {0} /\ low \in Nat /\ low < square /\ m = a * square + low
      /\ m < square * BASE
  BY <1>5, <1>6, <1>7
<1> HIDE DEF square, low
<1>9. m \div square = a
  BY <1>3, <1>8, QuotientIsUnique
<1>10. a < BASE
  <2> SUFFICES ASSUME a >= BASE PROVE FALSE
    BY <1>1, <1>3
  <2>1. PICK e \in Nat : a = BASE + e
    <3>1. a - BASE \in Nat /\ a = BASE + (a - BASE)
      BY <1>1, <1>3
    <3>2. QED
      BY <3>1
  <2>2. a * square = square * BASE + e * square
    BY <1>1, <1>8, <2>1
  <2>3. e * square \in Nat /\ square * BASE \in Nat
    BY <1>1, <1>8, <2>1, NatTimes
  <2>4. QED
    BY <1>8, <2>2, <2>3
<1>11. a % BASE = a /\ b = k % BASE /\ c = m % BASE /\ m \div 1 = m
  BY <1>1, <1>3, <1>10 DEF a, b, c, k
<1>12. (m \div Power(BASE, 2)) % BASE = a
  BY <1>9, <1>11, Powers DEF square
<1>13. (m \div Power(BASE, 1)) % BASE = b /\ (m \div Power(BASE, 0)) % BASE = c
  BY <1>11, Powers DEF k
<1>14. a \in Byte /\ b \in Byte /\ c \in Byte
  BY <1>1, <1>2, <1>3, <1>10 DEF Byte
<1>15. QED
  BY <1>2, <1>3, <1>12, <1>13, <1>14

\* Three bytes of a number in an otherwise empty word.
LEMMA ThreeBytesInPlace ==
    ASSUME NEW x \in Word, NEW at \in 0 .. SIZE - 3, NEW m \in Nat,
           \A i \in 1 .. at : x[i] = 0, \A i \in at + 4 .. SIZE : x[i] = 0,
           m = (x[at + 1] * BASE + x[at + 2]) * BASE + x[at + 3]
    PROVE  Number(x) = m * Power(BASE, SIZE - 3 - at)
<1>0. SIZE \in Nat /\ BASE \in Nat \ {0} /\ at \in Nat /\ x \in [1 .. SIZE -> Nat] /\ SIZE - 3 \in Nat
  BY WordAssumption, Bytes
<1>1. PICK l : Digits(l, x, SIZE) /\ Number(x) = l[SIZE]
  BY <1>0, NumberRecursion
<1> DEFINE Before == {k \in Nat : k =< at => l[k] = 0}
           Behind == {k \in Nat : at + 3 + k =< SIZE => l[at + 3 + k] = m * Power(BASE, k)}
<1>2. Before = Nat
  <2>1. 0 \in Before
    BY <1>1 DEF Digits
  <2>2. ASSUME NEW k \in Before PROVE k + 1 \in Before
    <3> SUFFICES ASSUME k + 1 =< at PROVE l[k + 1] = 0
      OBVIOUS
    <3>1. k + 1 \in 1 .. SIZE /\ (k + 1) - 1 = k /\ x[k + 1] = 0 /\ l[k] = 0
      BY <1>0
    <3>2. l[k + 1] = l[k] * BASE + x[k + 1]
      BY <1>1, <3>1 DEF Digits
    <3>3. QED
      BY <1>0, <3>1, <3>2
  <2>3. Before \in SUBSET Nat
    OBVIOUS
  <2> HIDE DEF Before
  <2>4. QED
    BY <2>1, <2>2, <2>3, Induct
<1>3. l[at + 3] = m
  <2>1. l[at] = 0
    <3>1. at \in Before
      BY <1>0, <1>2
    <3>2. QED
      BY <1>0, <3>1
  <2>2. /\ at + 1 \in 1 .. SIZE /\ at + 2 \in 1 .. SIZE /\ at + 3 \in 1 .. SIZE
        /\ (at + 1) - 1 = at /\ (at + 2) - 1 = at + 1 /\ (at + 3) - 1 = at + 2
    BY <1>0
  <2>3. /\ l[at + 1] = l[at] * BASE + x[at + 1]
        /\ l[at + 2] = l[at + 1] * BASE + x[at + 2]
        /\ l[at + 3] = l[at + 2] * BASE + x[at + 3]
    BY <1>1, <2>2 DEF Digits
  <2>4. x[at + 1] \in Nat
    BY <1>0, <2>2
  <2>5. l[at + 1] = x[at + 1]
    BY <1>0, <2>1, <2>3, <2>4
  <2>6. QED
    BY <2>3, <2>5
<1>4. Behind = Nat
  <2>1. 0 \in Behind
    BY <1>0, <1>3, Powers
  <2>2. ASSUME NEW k \in Behind PROVE k + 1 \in Behind
    <3> SUFFICES ASSUME at + 3 + (k + 1) =< SIZE
                 PROVE  l[at + 3 + (k + 1)] = m * Power(BASE, k + 1)
      OBVIOUS
    <3> DEFINE n == at + 3 + (k + 1)
    <3>1. n \in 1 .. SIZE /\ n - 1 = at + 3 + k /\ n \in at + 4 .. SIZE /\ at + 3 + k =< SIZE
      BY <1>0
    <3>2. l[n - 1] = m * Power(BASE, k)
      BY <3>1
    <3> HIDE DEF n
    <3>3. l[n] = l[n - 1] * BASE + x[n] /\ x[n] = 0
      BY <1>1, <3>1 DEF Digits
    <3>4. Power(BASE, k) \in Nat /\ Power(BASE, k + 1) = BASE * Power(BASE, k)
      BY Powers
    <3>5. \A p \in Nat : (m * p) * BASE = m * (BASE * p) /\ (m * p) * BASE \in Nat
      <4>1. ASSUME NEW p \in Nat PROVE (m * p) * BASE = m * (BASE * p)
        BY <1>0
      <4>2. ASSUME NEW p \in Nat PROVE (m * p) * BASE \in Nat
        <5>1. m * p \in Nat
          BY NatTimes
        <5> DEFINE w == m * p
        <5> HIDE DEF w
        <5>2. w \in Nat => w * BASE \in Nat
          BY <1>0, NatTimes
        <5>3. QED
          BY <5>1, <5>2 DEF w
      <4>3. QED
        BY <4>1, <4>2
    <3>6. l[n] = m * Power(BASE, k + 1)
      BY <3>2, <3>3, <3>4, <3>5
    <3>7. QED
      BY <3>6 DEF n
  <2>3. Behind \in SUBSET Nat
    OBVIOUS
  <2> HIDE DEF Behind
  <2>4. QED
    BY <2>1, <2>2, <2>3, Induct
<1> DEFINE k == SIZE - 3 - at
<1>5. k \in Behind /\ at + 3 + k = SIZE
  <2>1. k \in Nat /\ at + 3 + k = SIZE
    BY <1>0
  <2>2. QED
    BY <1>4, <2>1
<1>6. l[SIZE] = m * Power(BASE, k)
  <2>1. l[at + 3 + k] = m * Power(BASE, k)
    <3> HIDE DEF k
    <3>1. QED
      BY <1>0, <1>5
  <2> HIDE DEF k
  <2>2. QED
    BY <1>5, <2>1
<1>7. QED
  BY <1>1, <1>6

\* What decode_bits can give.
Compact == [exponent : Nat, mantissa : 0 .. BASE * BASE * BASE - 1]

LEMMA BytesOfNumber ==
    ASSUME NEW v \in Nat, NEW k \in Nat
    PROVE  (v \div Power(BASE, k)) % BASE \in Byte
<1>1. v \div Power(BASE, k) \in Nat
  BY Powers, Divided
<1>2. QED
  BY <1>1, WordAssumption, Divided DEF Byte

\* Whatever the exponent, nbits_to_target gives as many bytes as a target
\* has.
LEMMA TargetIsWord ==
    ASSUME NEW nbits \in Compact
    PROVE  nbits_to_target(nbits) \in Word
<1> DEFINE e == nbits.exponent  m == nbits.mantissa
<1>0. e \in Nat /\ m \in Nat /\ SIZE \in Nat /\ BASE \in Nat /\ 0 \in Byte
  <2>1. BASE * BASE * BASE \in Nat
    BY WordAssumption, NatTimes
  <2>2. QED
    BY <2>1, WordAssumption DEF Compact, Byte
<1>1. CASE e =< 3
  <2> DEFINE v == m * Power(BASE, 3 - e)
  <2>1. v \in Nat
    <3>1. 3 - e \in Nat
      BY <1>0, <1>1
    <3>2. Power(BASE, 3 - e) \in Nat
      BY <3>1, Powers
    <3>3. QED
      BY <1>0, <3>2, NatTimes
  <2>2. nbits_to_target(nbits) = low4(v)
    BY <1>1 DEF nbits_to_target
  <2> HIDE DEF v
  <2>3. ASSUME NEW i \in 1 .. SIZE PROVE (v \div Power(BASE, SIZE - i)) % BASE \in Byte
    <3>1. SIZE - i \in Nat
      BY <1>0
    <3>2. QED
      BY <2>1, <3>1, BytesOfNumber
  <2>4. low4(v) \in Word
    BY <1>0, <2>3 DEF low4, Word
  <2>5. QED
    BY <2>2, <2>4
<1>2. CASE e > SIZE
  BY <1>0, <1>2, WordAssumption DEF nbits_to_target, Zero, Word
<1>3. CASE e > 3 /\ e =< SIZE
  <2>1. nbits_to_target(nbits) =
           [i \in 1 .. SIZE |-> IF i + e - SIZE \in 1 .. 3
                                THEN (m \div Power(BASE, SIZE + 3 - i - e)) % BASE ELSE 0]
    BY <1>0, <1>3 DEF nbits_to_target
  <2>2. ASSUME NEW i \in 1 .. SIZE, i + e - SIZE \in 1 .. 3
        PROVE  (m \div Power(BASE, SIZE + 3 - i - e)) % BASE \in Byte
    <3>1. SIZE + 3 - i - e \in Nat
      BY <1>0, <2>2
    <3>2. QED
      BY <1>0, <3>1, BytesOfNumber
  <2>3. QED
    BY <1>0, <2>1, <2>2 DEF Word
<1>4. QED
  BY <1>0, <1>1, <1>2, <1>3

(***************************************************************************)
(* With an exponent that leaves the mantissa in place, the target of       *)
(* compact bits is mantissa * 256^(exponent - 3), as consensus has it.     *)
(***************************************************************************)
THEOREM TargetByValue ==
    ASSUME NEW nbits \in Compact, nbits.exponent \in 3 .. SIZE
    PROVE  Number(nbits_to_target(nbits)) = nbits.mantissa * Power(BASE, nbits.exponent - 3)
<1> DEFINE e == nbits.exponent  m == nbits.mantissa  x == nbits_to_target(nbits)  at == SIZE - e
<1>0. /\ e \in Nat /\ m \in Nat /\ m < BASE * BASE * BASE /\ SIZE \in Nat /\ BASE \in Nat \ {0}
      /\ SIZE > 6
  <2>1. BASE * BASE * BASE \in Nat
    BY WordAssumption, NatTimes
  <2>2. QED
    BY <2>1, WordAssumption DEF Compact
<1>1. x \in Word
  BY TargetIsWord
<1>2. at \in 0 .. SIZE - 3 /\ SIZE - 3 - at = e - 3
  BY <1>0
<1>3. /\ x[at + 1] = (m \div Power(BASE, 2)) % BASE
      /\ x[at + 2] = (m \div Power(BASE, 1)) % BASE
      /\ x[at + 3] = (m \div Power(BASE, 0)) % BASE
      /\ \A i \in 1 .. at : x[i] = 0
      /\ \A i \in at + 4 .. SIZE : x[i] = 0
  <2>1. CASE e = 3
    <3>1. x = [i \in 1 .. SIZE |-> IF i > SIZE - 4 THEN (m \div Power(BASE, SIZE - i)) % BASE ELSE 0]
      <4>1. m * Power(BASE, 3 - e) = m
        BY <1>0, <2>1, Powers
      <4>2. x = low4(m * Power(BASE, 3 - e))
        BY <2>1 DEF nbits_to_target
      <4>3. QED
        BY <4>1, <4>2 DEF low4
    <3> HIDE DEF x, e, m
    <3>2. /\ SIZE - 3 \in 1 .. SIZE /\ SIZE - 2 \in 1 .. SIZE /\ SIZE - 1 \in 1 .. SIZE
          /\ SIZE \in 1 .. SIZE
          /\ SIZE - (SIZE - 3) = 3 /\ SIZE - (SIZE - 2) = 2 /\ SIZE - (SIZE - 1) = 1
          /\ SIZE - SIZE = 0
      BY <1>0
    <3>3. /\ x[SIZE - 2] = (m \div Power(BASE, 2)) % BASE
          /\ x[SIZE - 1] = (m \div Power(BASE, 1)) % BASE
          /\ x[SIZE] = (m \div Power(BASE, 0)) % BASE
          /\ x[SIZE - 3] = (m \div Power(BASE, 3)) % BASE
      <4>1. SIZE - 3 > SIZE - 4 /\ SIZE - 2 > SIZE - 4 /\ SIZE - 1 > SIZE - 4 /\ SIZE > SIZE - 4
        BY <1>0
      <4>2. ASSUME NEW i \in 1 .. SIZE, i > SIZE - 4
            PROVE  x[i] = (m \div Power(BASE, SIZE - i)) % BASE
        BY <3>1, <4>2
      <4>3. QED
        BY <3>2, <4>1, <4>2
    <3>4. x[SIZE - 3] = 0
      <4>1. BASE * BASE * BASE \in Nat \ {0}
        BY Powers
      <4>2. m \div (BASE * BASE * BASE) = 0
        <5> DEFINE cube == BASE * BASE * BASE
        <5>1. cube \in Nat \ {0} /\ m < cube
          BY <1>0, <4>1
        <5> HIDE DEF cube
        <5>2. (0 * cube + m) \div cube = 0
          BY <1>0, <5>1, QuotientIsUnique
        <5>3. 0 * cube + m = m
          BY <1>0, <5>1
        <5>4. QED
          BY <5>2, <5>3 DEF cube
      <4>3. QED
        BY <1>0, <3>3, <4>2, Powers
    <3>5. ASSUME NEW i \in 1 .. SIZE - 3 PROVE x[i] = 0
      <4>1. i \in 1 .. SIZE /\ (i = SIZE - 3 \/ ~(i > SIZE - 4))
        BY <1>0
      <4>2. QED
        BY <3>1, <3>4, <4>1
    <3>6. at = SIZE - 3 /\ at + 1 = SIZE - 2 /\ at + 2 = SIZE - 1 /\ at + 3 = SIZE
          /\ at + 4 > SIZE
      BY <1>0, <2>1
    <3>7. QED
      BY <1>0, <3>3, <3>5, <3>6
  <2>2. CASE e # 3
    <3>1. e > 3 /\ e =< SIZE
      BY <1>0, <2>2
    <3>2. x = [i \in 1 .. SIZE |-> IF i + e - SIZE \in 1 .. 3
                                   THEN (m \div Power(BASE, SIZE + 3 - i - e)) % BASE ELSE 0]
      BY <1>0, <3>1 DEF nbits_to_target
    <3> HIDE DEF x, m
    <3>3. ASSUME NEW i \in 1 .. SIZE, i + e - SIZE \in 1 .. 3
          PROVE  x[i] = (m \div Power(BASE, SIZE + 3 - i - e)) % BASE
      BY <3>2, <3>3
    <3>4. ASSUME NEW i \in 1 .. SIZE, ~(i + e - SIZE \in 1 .. 3)
          PROVE  x[i] = 0
      BY <3>2, <3>4
    <3>5. /\ at + 1 \in 1 .. SIZE /\ (at + 1) + e - SIZE \in 1 .. 3 /\ SIZE + 3 - (at + 1) - e = 2
          /\ at + 2 \in 1 .. SIZE /\ (at + 2) + e - SIZE \in 1 .. 3 /\ SIZE + 3 - (at + 2) - e = 1
          /\ at + 3 \in 1 .. SIZE /\ (at + 3) + e - SIZE \in 1 .. 3 /\ SIZE + 3 - (at + 3) - e = 0
      BY <1>0, <3>1
    <3>6. \A i \in 1 .. at : i \in 1 .. SIZE /\ ~(i + e - SIZE \in 1 .. 3)
      BY <1>0
    <3>7. \A i \in at + 4 .. SIZE : i \in 1 .. SIZE /\ ~(i + e - SIZE \in 1 .. 3)
      BY <1>0
    <3> HIDE DEF e, at
    <3>8. /\ x[at + 1] = (m \div Power(BASE, 2)) % BASE
          /\ x[at + 2] = (m \div Power(BASE, 1)) % BASE
          /\ x[at + 3] = (m \div Power(BASE, 0)) % BASE
      BY <3>3, <3>5
    <3>9. QED
      BY <3>4, <3>6, <3>7, <3>8
  <2>3. QED
    BY <2>1, <2>2
<1> HIDE DEF x, m, e, at
<1>4. m = (x[at + 1] * BASE + x[at + 2]) * BASE + x[at + 3]
  BY <1>0, <1>3, ThreeBytes
<1>5. Number(x) = m * Power(BASE, SIZE - 3 - at)
  BY <1>0, <1>1, <1>2, <1>3, <1>4, ThreeBytesInPlace
<1>6. QED
  BY <1>2, <1>5 DEF x, m, e

-----------------------------------------------------------------------------
(***************************************************************************)
(* The configuration: every value is of its field's type, and of the       *)
(* variables that name a field the last one that can be read decides.      *)
(***************************************************************************)
\* The values of a field that the program can hold.
TypedValue(field) ==
    IF field \in {"initial_difficulty", "api_port", "stratum_port"} THEN Nat
    ELSE IF field = "job_source_mode" THEN {"rpc", "api"}
    ELSE Text

Config ==
    {c \in [Fields -> Nat \cup {"rpc", "api"} \cup Text] : \A f \in Fields : c[f] \in TypedValue(f)}

\* The files and environments of the cases.
Written(file, env) == Texts(env, {key[1] : key \in Range(env_keys)}) /\ Texts(file.settings, Fields)

\* Whatever is read from a text is of the field's type.
LEMMA ValuesAreTyped ==
    ASSUME NEW field, NEW text \in Text
    PROVE  toml_value(field, text) \subseteq TypedValue(field)
           /\ env_value(field, text) \subseteq TypedValue(field)
<1>1. trim(text) \in Text
  BY DEF Text, trim
<1>2. ASSUME NEW t \in Text PROVE toml_value(field, t) \subseteq TypedValue(field)
  BY DEF Text, toml_value, TypedValue, numeral, parse_job_source_mode
<1>3. field \in {"rpc_user", "rpc_password", "node_api_token"} => TypedValue(field) = Text
  BY DEF TypedValue
<1>4. QED
  BY <1>1, <1>2, <1>3 DEF env_value

LEMMA TheOnlyIsOne == ASSUME NEW S, S # {} PROVE TheOnly(S) \in S
BY DEF TheOnly

LEMMA FieldsAre ==
    Fields = {"name", "initial_difficulty", "payout_script_pubkey_hex", "api_bind", "api_port",
              "stratum_bind", "stratum_port", "url", "rpc_user", "rpc_password",
              "job_source_mode", "node_api_token", "share_api_url"}
BY DEF Fields, Default

LEMMA DefaultIsTyped == Default \in Config
<1>1. \A f \in Fields : Default[f] \in TypedValue(f)
  <2>1. Spelt("word", 0) \in Text /\ Empty \in Text
    BY DEF Spelt, Empty, Text
  <2>2. \A f \in Fields : Default[f] \in
          IF f \in {"initial_difficulty", "api_port", "stratum_port"} THEN Nat
          ELSE IF f = "job_source_mode" THEN {"rpc", "api"} ELSE {Spelt("word", 0), Empty}
    BY FieldsAre DEF Default
  <2>3. QED
    BY <2>1, <2>2 DEF TypedValue
<1>2. Default = [f \in Fields |-> Default[f]]
  BY DEF Default, Fields
<1>3. \A f \in Fields : TypedValue(f) \subseteq Nat \cup {"rpc", "api"} \cup Text
  BY DEF TypedValue
<1>4. QED
  BY <1>1, <1>2, <1>3 DEF Config

LEMMA KeysAre ==
    /\ Len(env_keys) = 13
    /\ \A k \in 1 .. 13 : env_keys[k][2] \in Fields
BY FieldsAre DEF env_keys

LEMMA OverriddenIsTyped ==
    ASSUME NEW c \in Config, NEW k \in 1 .. 13, NEW env,
           Texts(env, {key[1] : key \in Range(env_keys)})
    PROVE  overridden(c, env_keys[k], env) \in Config
<1> DEFINE f == env_keys[k][2]  v == env_keys[k][1]
<1>1. CASE v \in DOMAIN env /\ env_value(f, env[v]) # {}
  <2>1. env[v] \in Text
    BY <1>1 DEF Texts
  <2>2. TheOnly(env_value(f, env[v])) \in TypedValue(f)
    BY <1>1, <2>1, ValuesAreTyped, TheOnlyIsOne
  <2>3. f \in Fields
    BY KeysAre
  <2>4. TypedValue(f) \subseteq Nat \cup {"rpc", "api"} \cup Text
    BY DEF TypedValue
  <2>5. overridden(c, env_keys[k], env) = [c EXCEPT ![f] = TheOnly(env_value(f, env[v]))]
    BY <1>1 DEF overridden
  <2> HIDE DEF f, v
  <2>6. QED
    BY <2>2, <2>3, <2>4, <2>5 DEF Config
<1>2. CASE ~(v \in DOMAIN env /\ env_value(f, env[v]) # {})
  BY <1>2 DEF overridden
<1>3. QED
  BY <1>1, <1>2

\* a has the configuration after each of the thirteen variables.
Applied(a, config, env) ==
    /\ a \in [0 .. 13 -> Config] /\ a[0] = config
    /\ \A k \in 1 .. 13 : a[k] = overridden(a[k - 1], env_keys[k], env)

LEMMA OverridesApplied ==
    ASSUME NEW c \in Config, NEW env, Texts(env, {key[1] : key \in Range(env_keys)})
    PROVE  \E a : Applied(a, c, env) /\ apply_env_overrides(c, env) = a[13]
<1> DEFINE Equation(f) ==
             f = [k \in 0 .. Len(env_keys) |->
                    IF k = 0 THEN c ELSE overridden(f[k - 1], env_keys[k], env)]
           step == [p \in (1 .. 13) \X Config |-> overridden(p[2], env_keys[p[1]], env)]
           a == CHOOSE f : Equation(f)
<1>1. \E f : Equation(f)
  <2>1. /\ step \in [(1 .. 13) \X Config -> Config]
        /\ \A k \in 1 .. 13, x \in Config : step[<< k, x >>] = overridden(x, env_keys[k], env)
    BY OverriddenIsTyped
  <2> HIDE DEF step
  <2>2. PICK f : Recursive(f, 13, Config, c, step)
    BY <2>1, FiniteRecursion, Zenon
  <2>3. ASSUME NEW k \in 1 .. 13 PROVE f[k] = overridden(f[k - 1], env_keys[k], env)
    <3>1. f[k] = step[<< k, f[k - 1] >>] /\ k - 1 \in 0 .. 13 /\ f \in [0 .. 13 -> Config]
      BY <2>2 DEF Recursive
    <3>2. f[k - 1] \in Config
      BY <3>1
    <3>3. QED
      BY <2>1, <3>1, <3>2
  <2>4. Equation(f)
    BY <2>2, <2>3, KeysAre DEF Recursive
  <2>5. QED
    BY <2>4
<1>2. Equation(a)
  BY <1>1
<1>3. apply_env_overrides(c, env) = a[13]
  BY KeysAre DEF apply_env_overrides, apply_env_overrides_from
<1> HIDE DEF a
<1>4. a[0] = c /\ \A k \in 1 .. 13 : a[k] = overridden(a[k - 1], env_keys[k], env)
  <2>1. a = [k \in 0 .. 13 |-> IF k = 0 THEN c ELSE overridden(a[k - 1], env_keys[k], env)]
    BY <1>2, KeysAre
  <2>2. a[0] = c
    BY <2>1
  <2>3. ASSUME NEW k \in 1 .. 13 PROVE a[k] = overridden(a[k - 1], env_keys[k], env)
    <3>1. k \in 0 .. 13 /\ k # 0
      OBVIOUS
    <3>2. QED
      BY <2>1, <3>1
  <2>4. QED
    BY <2>2, <2>3
<1> DEFINE Typed == {k \in Nat : k =< 13 => a[k] \in Config}
<1>5. Typed = Nat
  <2>1. 0 \in Typed
    BY <1>4
  <2>2. ASSUME NEW k \in Typed PROVE k + 1 \in Typed
    <3> SUFFICES ASSUME k + 1 =< 13 PROVE a[k + 1] \in Config
      OBVIOUS
    <3>1. k + 1 \in 1 .. 13 /\ (k + 1) - 1 = k /\ a[k] \in Config
      OBVIOUS
    <3>2. QED
      BY <1>4, <3>1, OverriddenIsTyped
  <2>3. Typed \in SUBSET Nat
    OBVIOUS
  <2> HIDE DEF Typed
  <2>4. QED
    BY <2>1, <2>2, <2>3, Induct
<1>6. a \in [0 .. 13 -> Config]
  <2>1. a = [k \in 0 .. 13 |-> a[k]]
    BY <1>2, KeysAre
  <2>2. \A k \in 0 .. 13 : a[k] \in Config
    BY <1>5
  <2>3. QED
    BY <2>1, <2>2
<1>7. QED
  BY <1>3, <1>4, <1>6 DEF Applied

\* The k-th variable is set to something that can be read.
Read(k, env) ==
    /\ env_keys[k][1] \in DOMAIN env
    /\ env_value(env_keys[k][2], env[env_keys[k][1]]) # {}

LEMMA LeftAlone ==
    ASSUME NEW a, NEW c, NEW env, Applied(a, c, env), NEW k \in 1 .. 13, NEW f \in Fields,
           env_keys[k][2] # f \/ ~Read(k, env)
    PROVE  a[k][f] = a[k - 1][f]
<1>1. a[k] = overridden(a[k - 1], env_keys[k], env) /\ a[k - 1] \in Config
  <2>1. k - 1 \in 0 .. 13
    OBVIOUS
  <2>2. QED
    BY <2>1 DEF Applied
<1>2. QED
  BY <1>1 DEF overridden, Read, Config

\* A variable that can be read replaces the value of its field.
LEMMA Overwritten ==
    ASSUME NEW a, NEW c, NEW env, Applied(a, c, env), NEW k \in 1 .. 13, Read(k, env)
    PROVE  a[k][env_keys[k][2]] = TheOnly(env_value(env_keys[k][2], env[env_keys[k][1]]))
<1>1. a[k] = overridden(a[k - 1], env_keys[k], env) /\ a[k - 1] \in Config
  <2>1. k - 1 \in 0 .. 13
    OBVIOUS
  <2>2. QED
    BY <2>1 DEF Applied
<1>2. env_keys[k][2] \in DOMAIN a[k - 1]
  BY <1>1, KeysAre DEF Config
<1>3. QED
  BY <1>1, <1>2 DEF overridden, Read

\* From the j-th on nothing is written to the field.
LEMMA LeftAloneSince ==
    ASSUME NEW a, NEW c, NEW env, Applied(a, c, env), NEW f \in Fields, NEW j \in 0 .. 13,
           \A k \in j + 1 .. 13 : env_keys[k][2] # f \/ ~Read(k, env)
    PROVE  a[13][f] = a[j][f]
<1> DEFINE Same == {k \in Nat : j + k =< 13 => a[j + k][f] = a[j][f]}
<1>1. Same = Nat
  <2>1. 0 \in Same
    OBVIOUS
  <2>2. ASSUME NEW k \in Same PROVE k + 1 \in Same
    <3> SUFFICES ASSUME j + (k + 1) =< 13 PROVE a[j + (k + 1)][f] = a[j][f]
      OBVIOUS
    <3> DEFINE n == j + (k + 1)
    <3>1. n \in 1 .. 13 /\ n \in j + 1 .. 13 /\ n - 1 = j + k /\ a[n - 1][f] = a[j][f]
      OBVIOUS
    <3> HIDE DEF n
    <3>2. a[n][f] = a[n - 1][f]
      BY <3>1, LeftAlone
    <3>3. QED
      BY <3>1, <3>2 DEF n
  <2>3. Same \in SUBSET Nat
    OBVIOUS
  <2> HIDE DEF Same
  <2>4. QED
    BY <2>1, <2>2, <2>3, Induct
<1> DEFINE k == 13 - j
<1>2. k \in Same /\ j + k = 13
  <2>1. k \in Nat /\ j + k = 13
    OBVIOUS
  <2>2. QED
    BY <1>1, <2>1
<1> HIDE DEF k
<1>3. QED
  BY <1>2

\* If no variable after the j-th can be read for its field, and one before it
\* only if the j-th can, then the j-th decides.
LEMMA LastOneCounts ==
    ASSUME NEW a, NEW c, NEW env, Applied(a, c, env), NEW j \in 1 .. 13,
           \A i \in 1 .. 13 : i # j /\ env_keys[i][2] = env_keys[j][2]
              => ~Read(i, env) \/ (i < j /\ Read(j, env))
    PROVE  a[13][env_keys[j][2]] =
              IF Read(j, env) THEN TheOnly(env_value(env_keys[j][2], env[env_keys[j][1]]))
              ELSE c[env_keys[j][2]]
<1> DEFINE f == env_keys[j][2]
<1>1. f \in Fields
  BY KeysAre
<1>2. CASE Read(j, env)
  <2>1. \A k \in j + 1 .. 13 : k \in 1 .. 13 /\ k # j /\ ~(k < j)
    OBVIOUS
  <2>2. \A k \in j + 1 .. 13 : env_keys[k][2] # f \/ ~Read(k, env)
    BY <2>1
  <2>3. j \in 0 .. 13
    OBVIOUS
  <2>4. a[13][f] = a[j][f]
    <3> HIDE DEF f
    <3>1. QED
      BY <1>1, <2>2, <2>3, LeftAloneSince
  <2>5. QED
    BY <1>2, <2>4, Overwritten
<1>3. CASE ~Read(j, env)
  <2>1. \A k \in 0 + 1 .. 13 : env_keys[k][2] # f \/ ~Read(k, env)
    BY <1>3
  <2>2. a[13][f] = a[0][f]
    <3>1. 0 \in 0 .. 13
      OBVIOUS
    <3> HIDE DEF f
    <3>2. QED
      BY <1>1, <2>1, <3>1, LeftAloneSince
  <2>3. QED
    BY <1>3, <2>2 DEF Applied
<1>4. QED
  BY <1>2, <1>3

-----------------------------------------------------------------------------
\* The configuration before the environment counts.
Base(file) ==
    [f \in Fields |-> IF file.found /\ f \in DOMAIN file.settings
                      THEN TheOnly(toml_value(f, file.settings[f])) ELSE Default[f]]

LEMMA Loaded ==
    ASSUME NEW file, NEW env, Written(file, env), load_config(file, env) # {}
    PROVE  /\ TheOnly(load_config(file, env)) \in Config
           /\ payout_script_pubkey_bytes(TheOnly(load_config(file, env))) # {}
           /\ \E a : /\ Applied(a, Base(file), env)
                     /\ TheOnly(load_config(file, env)) = a[13]
<1> DEFINE c == TheOnly(load_config(file, env))
           from == IF file.found THEN from_toml(file) ELSE {Default}
<1>1. c \in load_config(file, env)
  BY TheOnlyIsOne
<1>2. PICK base \in from : c = apply_env_overrides(base, env) /\ payout_script_pubkey_bytes(c) # {}
  <2> HIDE DEF c
  <2>1. QED
    BY <1>1 DEF load_config
<1>3. base = Base(file)
  <2>1. CASE file.found
    BY <1>2, <2>1 DEF from_toml, Base
  <2>2. CASE ~file.found
    <3>1. Default = [f \in Fields |-> Default[f]]
      BY DEF Default, Fields
    <3>2. base = Default
      BY <1>2, <2>2
    <3>3. Base(file) = [f \in Fields |-> Default[f]]
      BY <2>2 DEF Base
    <3>4. QED
      BY <3>1, <3>2, <3>3
  <2>3. QED
    BY <2>1, <2>2
<1>4. base \in Config
  <2>1. CASE file.found
    <3>1. \A f \in DOMAIN file.settings : f \in Fields /\ file.settings[f] \in Text
                                          /\ toml_value(f, file.settings[f]) # {}
      BY <1>2, <2>1 DEF Written, Texts, from_toml
    <3>2. \A f \in DOMAIN file.settings : TheOnly(toml_value(f, file.settings[f])) \in TypedValue(f)
      BY <3>1, TheOnlyIsOne, ValuesAreTyped
    <3>3. \A f \in Fields : Default[f] \in TypedValue(f)
      BY DefaultIsTyped DEF Config
    <3>4. \A f \in Fields : base[f] \in TypedValue(f)
      BY <1>3, <3>2, <3>3 DEF Base
    <3>5. \A f \in Fields : TypedValue(f) \subseteq Nat \cup {"rpc", "api"} \cup Text
      BY DEF TypedValue
    <3>6. base = [f \in Fields |-> base[f]]
      BY <1>3 DEF Base
    <3>7. QED
      BY <3>4, <3>5, <3>6 DEF Config
  <2>2. CASE ~file.found
    BY <1>2, <2>2, DefaultIsTyped
  <2>3. QED
    BY <2>1, <2>2
<1>5. PICK a : Applied(a, base, env) /\ c = a[13]
  BY <1>2, <1>4, OverridesApplied DEF Written
<1>6. c \in Config
  <2> HIDE DEF c
  <2>1. QED
    BY <1>5 DEF Applied
<1>7. QED
  BY <1>2, <1>3, <1>5, <1>6

-----------------------------------------------------------------------------
(***************************************************************************)
(* The invariant.  A case, and everything the pool has made of it, are     *)
(* kept; what is proved of a step is only that each value is still what    *)
(* its predecessors give.  What the properties say is then a matter of the *)
(* operators.                                                              *)
(***************************************************************************)
LEMMA ThreeDigits ==
    ASSUME NEW x \in [1 .. 3 -> Byte]
    PROVE  Number(x) = (x[1] * BASE + x[2]) * BASE + x[3]
           /\ Number(x) \in 0 .. BASE * BASE * BASE - 1
<1>1. BASE \in Nat \ {0, 1} /\ x \in [1 .. 3 -> Nat] /\ x[1] \in Byte /\ x[2] \in Byte /\ x[3] \in Byte
  BY WordAssumption DEF Byte
<1>2. PICK l : Digits(l, x, 3) /\ Number(x) = l[3]
  BY <1>1, NumberRecursion
<1>3. l[0] = 0 /\ l[1] = l[0] * BASE + x[1] /\ l[2] = l[1] * BASE + x[2] /\ l[3] = l[2] * BASE + x[3]
  <2>1. 1 \in 1 .. 3 /\ 2 \in 1 .. 3 /\ 3 \in 1 .. 3 /\ 1 - 1 = 0 /\ 2 - 1 = 1 /\ 3 - 1 = 2
    OBVIOUS
  <2>2. QED
    BY <1>2, <2>1 DEF Digits
<1>4. l[1] = x[1]
  BY <1>1, <1>3 DEF Byte
<1>5. Number(x) = (x[1] * BASE + x[2]) * BASE + x[3]
  BY <1>2, <1>3, <1>4
<1> DEFINE p == x[1] * BASE + x[2]
<1>6. p \in Nat /\ p < BASE * BASE
  <2>1. x[1] \in Nat /\ x[1] < BASE
    BY <1>1 DEF Byte
  <2>2. x[1] * BASE + x[2] < BASE * BASE + 0
    BY <1>1, <2>1, Carried, 0 \in Byte DEF Byte
  <2>3. QED
    BY <1>1, <2>1, <2>2, NatTimes DEF Byte
<1>7. BASE * BASE \in Nat
  BY <1>1, NatTimes
<1> HIDE DEF p
<1>8. p * BASE + x[3] < (BASE * BASE) * BASE + 0
  BY <1>1, <1>6, <1>7, Carried, 0 \in Byte DEF Byte
<1>9. p * BASE + x[3] \in Nat /\ (BASE * BASE) * BASE \in Nat
  BY <1>1, <1>6, <1>7, NatTimes DEF Byte
<1>10. QED
  BY <1>5, <1>8, <1>9 DEF p

LEMMA BytesOfBits ==
    ASSUME NEW b \in Seq(Nat), Len(b) = 4, \A i \in 2 .. 4 : b[i] \in Byte
    PROVE  /\ b[1] \in Nat
           /\ Tail(b) \in [1 .. 3 -> Byte]
           /\ Tail(b)[1] = b[2] /\ Tail(b)[2] = b[3] /\ Tail(b)[3] = b[4]
<1>1. b # << >>
  <2>1. Len(<< >>) = 0
    BY EmptySeq, Zenon
  <2>2. SUFFICES ASSUME b = << >> PROVE FALSE
    OBVIOUS
  <2>3. Len(b) = 0
    BY <2>1, <2>2, Zenon
  <2>4. QED
    BY <2>3
<1> DEFINE x == Tail(b)
<1>2. Len(x) = 3 /\ x \in Seq(Nat) /\ \A i \in 1 .. 3 : x[i] = b[i + 1]
  <2>1. x \in Seq(Nat) /\ Len(x) = Len(b) - 1 /\ \A i \in 1 .. Len(x) : x[i] = b[i + 1]
    BY <1>1, HeadTailProperties, Zenon
  <2> HIDE DEF x
  <2>2. QED
    BY <2>1
<1> HIDE DEF x
<1>3. x \in [1 .. 3 -> Nat]
  BY <1>2, LenProperties
<1>4. \A i \in 1 .. 3 : i + 1 \in 2 .. 4
  OBVIOUS
<1>5. x \in [1 .. 3 -> Byte]
  BY <1>2, <1>3, <1>4
<1>6. 1 + 1 = 2 /\ 2 + 1 = 3 /\ 3 + 1 = 4 /\ 1 \in 1 .. 3 /\ 2 \in 1 .. 3 /\ 3 \in 1 .. 3
  OBVIOUS
<1>7. x[1] = b[2] /\ x[2] = b[3] /\ x[3] = b[4]
  BY <1>2, <1>6
<1>8. b[1] \in Nat
  <2>1. 1 \in 1 .. Len(b)
    OBVIOUS
  <2>2. QED
    BY <2>1, ElementOfSeq
<1>9. QED
  BY <1>5, <1>7, <1>8 DEF x

\* The bits of a template, decoded, are an exponent and three bytes.
LEMMA BitsAreCompact ==
    ASSUME NEW t \in Template, NEW nbits \in decode_bits(t.bits)
    PROVE  /\ nbits \in Compact
           /\ nbits = [exponent |-> t.bits[1], mantissa |-> Number(Tail(t.bits))]
           /\ Len(t.bits) = 4
<1>1. /\ t.bits \in Seq(Nat) /\ \A i \in 2 .. Len(t.bits) : t.bits[i] \in Byte
      /\ Len(t.bits) = 4
      /\ nbits = [exponent |-> t.bits[1],
                  mantissa |-> (t.bits[2] * BASE + t.bits[3]) * BASE + t.bits[4]]
  BY DEF Template, decode_bits
<1>2. PICK b : b = t.bits
  OBVIOUS
<1>3. b \in Seq(Nat) /\ Len(b) = 4 /\ \A i \in 2 .. 4 : b[i] \in Byte
  BY <1>1, <1>2
<1>4. /\ b[1] \in Nat /\ Tail(b) \in [1 .. 3 -> Byte]
      /\ Tail(b)[1] = b[2] /\ Tail(b)[2] = b[3] /\ Tail(b)[3] = b[4]
  BY <1>3, BytesOfBits
<1>5. /\ Number(Tail(b)) = (b[2] * BASE + b[3]) * BASE + b[4]
      /\ Number(Tail(b)) \in 0 .. BASE * BASE * BASE - 1
  BY <1>4, ThreeDigits
<1>6. QED
  BY <1>1, <1>2, <1>4, <1>5 DEF Compact

-----------------------------------------------------------------------------
config == TheOnly(load_config(case.file, case.env))

Judgement == {"Block", "Accepted", "LowDifficulty"}

coinbase == build_coinbase(job, share)

\* The pool is the one its configuration gives.
Started == running => load_config(case.file, case.env) # {} /\ pool = start(config)

\* The job is one the pool's job source makes of the template.
Mapped == job # NoJob => running /\ job \in current_job(pool.services.job_source, template)

\* A judged share has the trace of the job and the verdict of the trace.
Judged ==
    /\ verdict \in {"none", "Rejected"} \cup Judgement
    /\ verdict \in Judgement =>
          /\ job # NoJob /\ share \in Shares /\ ~version_refused(share)
          /\ trace.hash \in Word
          /\ trace = share_validation_trace(job, share, trace.hash, pool.services.pool_difficulty)
          /\ verdict = validate_share(trace)
    /\ verdict \notin Judgement => trace = NoTrace

\* Only a block is submitted, the one put together of the judged share.
Submitted ==
    /\ outcome \in {"none", "LocalError", "submitblock attempt"}
    /\ outcome # "none" => verdict = "Block"
    /\ outcome = "LocalError" => ~assembles(job, share, template)
    /\ outcome = "submitblock attempt" =>
          /\ assembles(job, share, template)
          /\ block = build_raw_block(build_block_header(job, share),
                                     restore_coinbase_witness(coinbase, template), template)
    /\ outcome # "submitblock attempt" => block = NoBlock

Kept ==
    case \in Cases /\ share \in Shares \cup {NoShare} /\ Started /\ Mapped /\ Judged /\ Submitted

\* Nothing is there yet.
LEMMA InitKept == Init => Kept
BY DEF Init, Kept, Started, Mapped, Judged, Submitted, running, Judgement

\* A step sets what it sets from what is kept, and leaves the rest.
LEMMA StepKept == Kept /\ [Next]_vars => Kept'
<1> SUFFICES ASSUME Kept, [Next]_vars PROVE Kept'
  OBVIOUS
<1>1. CASE Start
  <2>1. job = NoJob /\ verdict \notin Judgement /\ outcome = "none"
    BY <1>1 DEF Start, Kept, Mapped, Judged, Submitted, running, Judgement
  <2>2. Started'
    BY <1>1 DEF Start, Started, running, config
  <2>3. Mapped' /\ Judged' /\ Submitted'
    BY <1>1, <2>1 DEF Start, Kept, Mapped, Judged, Submitted, Judgement
  <2>4. QED
    BY <1>1, <2>2, <2>3 DEF Start, Kept
<1>2. CASE Map
  <2>1. verdict \notin Judgement /\ outcome = "none"
    BY <1>2 DEF Map, Kept, Judged, Submitted, Judgement
  <2>2. Started' /\ Mapped' /\ Judged' /\ Submitted'
    BY <1>2, <2>1 DEF Map, Kept, Started, Mapped, Judged, Submitted, running, config, template, Judgement
  <2>3. QED
    BY <1>2, <2>2 DEF Map, Kept
<1>3. CASE Refuse
  <2>1. Started' /\ Mapped'
    BY <1>3 DEF Refuse, Kept, Started, Mapped, running, config, template
  <2>2. Judged' /\ Submitted'
    BY <1>3 DEF Refuse, Kept, Judged, Submitted, Judgement
  <2>3. QED
    BY <1>3, <2>1, <2>2 DEF Refuse, Kept
<1>4. CASE Judge
  <2>1. Started' /\ Mapped'
    BY <1>4 DEF Judge, Kept, Started, Mapped, running, config, template
  <2>2. PICK hash \in Word :
           trace' = share_validation_trace(job, share', hash, pool.services.pool_difficulty)
    BY <1>4 DEF Judge
  <2>3. trace'.hash = hash
    BY <2>2 DEF share_validation_trace
  <2>4. verdict' \in Judgement
    BY <1>4 DEF Judge, validate_share, Judgement
  <2>5. Judged'
    BY <1>4, <2>2, <2>3, <2>4 DEF Judge, Judged, Judgement
  <2>6. Submitted'
    BY <1>4 DEF Judge, Kept, Submitted
  <2>7. QED
    BY <1>4, <2>1, <2>5, <2>6 DEF Judge, Kept
<1>5. CASE Fail \/ Assemble
  <2>1. Started' /\ Mapped' /\ Judged'
    BY <1>5 DEF Fail, Assemble, Kept, Started, Mapped, Judged, running, config, template
  <2>2. Submitted'
    BY <1>5 DEF Fail, Assemble, Kept, Submitted, coinbase, template
  <2>3. QED
    BY <1>5, <2>1, <2>2 DEF Fail, Assemble, Kept
<1>6. CASE UNCHANGED vars
  <2>1. Started' /\ Mapped' /\ Judged'
    BY <1>6 DEF vars, Kept, Started, Mapped, Judged, running, config, template
  <2>2. Submitted'
    BY <1>6 DEF vars, Kept, Submitted, coinbase, template
  <2>3. QED
    BY <1>6, <2>1, <2>2 DEF vars, Kept
<1>7. QED
  BY <1>1, <1>2, <1>3, <1>4, <1>5, <1>6 DEF Next

-----------------------------------------------------------------------------
(***************************************************************************)
(* Hexadecimal numbers of 32 bits.                                         *)
(***************************************************************************)
LEMMA CarriedOver ==
    ASSUME NEW b \in Nat, NEW p \in Nat, NEW c \in Nat, p < c, NEW x \in 0 .. b - 1
    PROVE  p * b + x \in Nat /\ c * b \in Nat /\ p * b + x < c * b
<1> DEFINE d == c - (p + 1)
<1>1. d \in Nat /\ c = p + 1 + d
  OBVIOUS
<1>2. c * b = p * b + b + d * b
  BY <1>1
<1>3. d * b \in Nat /\ p * b \in Nat /\ c * b \in Nat
  BY <1>1, NatTimes
<1> HIDE DEF d
<1>4. QED
  BY <1>2, <1>3

LEMMA QuotientBelow ==
    ASSUME NEW n \in Nat, NEW b \in Nat \ {0}, NEW c \in Nat, n < c * b
    PROVE  n \div b < c
<1> DEFINE k == n \div b
<1>1. k \in Nat /\ n % b \in Nat /\ n = k * b + (n % b)
  BY Divided
<1> HIDE DEF k
<1> SUFFICES ASSUME ~(k < c) PROVE FALSE
  BY DEF k
<1> DEFINE e == k - c
<1>2. e \in Nat /\ k = c + e
  BY <1>1
<1>3. k * b = c * b + e * b
  BY <1>2
<1>4. e * b \in Nat /\ c * b \in Nat /\ k * b \in Nat
  BY <1>1, <1>2, NatTimes
<1> HIDE DEF e
<1>5. QED
  BY <1>1, <1>3, <1>4

\* Division by b and by a is division by b * a.
LEMMA DividedTwice ==
    ASSUME NEW n \in Nat, NEW a \in Nat \ {0}, NEW b \in Nat \ {0}
    PROVE  n \div (b * a) = (n \div a) \div b
<1> DEFINE q == n \div a  r == n % a  p == q \div b  s == q % b
<1>1. q \in Nat /\ r \in 0 .. a - 1 /\ n = q * a + r
  <2>1. n \div a \in Nat /\ n % a \in Nat /\ n % a < a /\ n = (n \div a) * a + (n % a)
    BY Divided
  <2>2. QED
    BY <2>1
<1> HIDE DEF q, r
<1>2. p \in Nat /\ s \in Nat /\ s < b /\ q = p * b + s
  BY <1>1, Divided
<1> HIDE DEF p, s
<1>3. s * a + r \in Nat /\ b * a \in Nat /\ s * a + r < b * a
  BY <1>1, <1>2, CarriedOver
<1>4. q * a = p * (b * a) + s * a
  BY <1>1, <1>2
<1>5. p * (b * a) \in Nat /\ s * a \in Nat
  BY <1>1, <1>2, <1>3, NatTimes
<1>6. n = p * (b * a) + (s * a + r)
  BY <1>1, <1>3, <1>4, <1>5
<1>7. b * a # 0
  OBVIOUS
<1> DEFINE low == s * a + r  product == b * a
<1>8. n = p * product + low /\ low \in Nat /\ product \in Nat \ {0} /\ low < product
  BY <1>3, <1>6, <1>7
<1> HIDE DEF low, product
<1>9. n \div product = p
  BY <1>2, <1>8, QuotientIsUnique
<1>10. QED
  BY <1>9 DEF product, p, q

LEMMA BytePowers ==
    /\ BYTE \in Nat \ {0, 1}
    /\ Power(BYTE, 0) = 1 /\ Power(BYTE, 1) = BYTE /\ Power(BYTE, 2) = BYTE * BYTE
    /\ Power(BYTE, 3) = BYTE * Power(BYTE, 2) /\ U32 = BYTE * Power(BYTE, 3)
    /\ Power(BYTE, 2) \in Nat \ {0} /\ Power(BYTE, 3) \in Nat \ {0} /\ U32 \in Nat \ {0}
<1>1. BYTE \in Nat \ {0, 1}
  BY ByteAssumption
<1>2. /\ Power(BYTE, 0) = 1
      /\ \A k \in Nat : Power(BYTE, k) \in Nat /\ Power(BYTE, k + 1) = BYTE * Power(BYTE, k)
  BY <1>1, PowerRecursion
<1>3. /\ Power(BYTE, 0 + 1) = BYTE * 1 /\ Power(BYTE, 1 + 1) = BYTE * Power(BYTE, 1)
      /\ Power(BYTE, 2 + 1) = BYTE * Power(BYTE, 2) /\ Power(BYTE, 3 + 1) = BYTE * Power(BYTE, 3)
  BY <1>2
<1>4. Power(BYTE, 1) = BYTE /\ Power(BYTE, 2) = BYTE * BYTE
  BY <1>1, <1>3
<1>5. Power(BYTE, 3) = BYTE * Power(BYTE, 2) /\ Power(BYTE, 4) = BYTE * Power(BYTE, 3)
  BY <1>3
<1>6. \A x, y \in Nat \ {0} : x * y \in Nat \ {0}
  OBVIOUS
<1>7. Power(BYTE, 2) \in Nat \ {0}
  BY <1>1, <1>4, <1>6
<1>8. Power(BYTE, 3) \in Nat \ {0}
  BY <1>1, <1>5, <1>6, <1>7
<1>9. Power(BYTE, 4) \in Nat \ {0}
  BY <1>1, <1>5, <1>6, <1>8
<1>10. QED
  BY <1>1, <1>2, <1>4, <1>5, <1>7, <1>8, <1>9 DEF U32

\* Four bytes, most significant first, are a number below 2^32 ...
LEMMA FourBytesFit ==
    ASSUME NEW a \in 0 .. BYTE - 1, NEW b \in 0 .. BYTE - 1, NEW c \in 0 .. BYTE - 1,
           NEW d \in 0 .. BYTE - 1
    PROVE  ((a * BYTE + b) * BYTE + c) * BYTE + d \in 0 .. U32 - 1
<1> DEFINE v2 == a * BYTE + b  v3 == v2 * BYTE + c  v4 == v3 * BYTE + d
<1>0. BYTE \in Nat /\ a \in Nat /\ a < BYTE
  BY BytePowers
<1>1. v2 \in Nat /\ v2 < BYTE * BYTE
  BY <1>0, CarriedOver
<1> HIDE DEF v2
<1>2. v3 \in Nat /\ v3 < Power(BYTE, 2) * BYTE
  BY <1>0, <1>1, BytePowers, CarriedOver
<1>3. Power(BYTE, 2) * BYTE = Power(BYTE, 3) /\ Power(BYTE, 3) * BYTE = U32
  BY <1>0, BytePowers
<1> HIDE DEF v3
<1>4. v4 \in Nat /\ v4 < Power(BYTE, 3) * BYTE
  BY <1>0, <1>2, <1>3, BytePowers, CarriedOver
<1> HIDE DEF v4
<1>5. v4 \in 0 .. U32 - 1
  BY <1>3, <1>4, BytePowers
<1>6. QED
  BY <1>5 DEF v4, v3, v2

(***************************************************************************)
(* The eight hexadecimal digits of a number below 2^32, as the pool sends  *)
(* bits, version and time, are read back as that number.                   *)
(***************************************************************************)
THEOREM HexRoundTrip ==
    ASSUME NEW n \in 0 .. U32 - 1
    PROVE  from_hex8(hex8(n)) = n /\ Len(hex8(n)) = 4
<1> DEFINE q1 == n \div BYTE  q2 == q1 \div BYTE  q3 == q2 \div BYTE
<1>0. BYTE \in Nat \ {0} /\ n \in Nat /\ n < Power(BYTE, 3) * BYTE
  <2>1. n \in Nat /\ n < U32 /\ U32 = BYTE * Power(BYTE, 3)
    BY BytePowers
  <2>2. BYTE * Power(BYTE, 3) = Power(BYTE, 3) * BYTE
    BY BytePowers
  <2>3. QED
    BY <2>1, <2>2, BytePowers
<1>1. q1 \in Nat /\ q1 < Power(BYTE, 2) * BYTE /\ n = q1 * BYTE + (n % BYTE)
  <2>1. Power(BYTE, 3) = Power(BYTE, 2) * BYTE
    BY BytePowers
  <2>2. q1 < Power(BYTE, 3)
    BY <1>0, BytePowers, QuotientBelow
  <2>3. q1 \in Nat /\ n = q1 * BYTE + (n % BYTE)
    BY <1>0, Divided
  <2> HIDE DEF q1
  <2>4. QED
    BY <2>1, <2>2, <2>3
<1> HIDE DEF q1
<1>2. q2 \in Nat /\ q2 < BYTE * BYTE /\ q1 = q2 * BYTE + (q1 % BYTE)
  BY <1>0, <1>1, BytePowers, Divided, QuotientBelow
<1> HIDE DEF q2
<1>3. q3 \in Nat /\ q3 < BYTE /\ q2 = q3 * BYTE + (q2 % BYTE)
  BY <1>0, <1>2, Divided, QuotientBelow
<1> HIDE DEF q3
<1>4. n \div Power(BYTE, 0) = n /\ n \div Power(BYTE, 1) = q1
  BY <1>0, BytePowers DEF q1
<1>5. n \div Power(BYTE, 2) = q2
  BY <1>0, BytePowers, DividedTwice DEF q1, q2
<1>6. n \div Power(BYTE, 3) = q3
  <2>1. n \div (BYTE * Power(BYTE, 2)) = (n \div Power(BYTE, 2)) \div BYTE
    BY <1>0, BytePowers, DividedTwice
  <2>2. QED
    BY <1>5, <2>1, BytePowers DEF q3
<1>7. q3 % BYTE = q3
  BY <1>0, <1>3
<1> DEFINE hex == hex8(n)
<1>8. hex = [i \in 1 .. 4 |-> (n \div Power(BYTE, 4 - i)) % BYTE]
  BY DEF hex8
<1> HIDE DEF hex
<1>9. hex[1] = q3 /\ hex[2] = q2 % BYTE /\ hex[3] = q1 % BYTE /\ hex[4] = n % BYTE
  <2>1. 1 \in 1 .. 4 /\ 2 \in 1 .. 4 /\ 3 \in 1 .. 4 /\ 4 \in 1 .. 4
        /\ 4 - 1 = 3 /\ 4 - 2 = 2 /\ 4 - 3 = 1 /\ 4 - 4 = 0
    OBVIOUS
  <2>2. /\ hex[1] = (n \div Power(BYTE, 3)) % BYTE /\ hex[2] = (n \div Power(BYTE, 2)) % BYTE
        /\ hex[3] = (n \div Power(BYTE, 1)) % BYTE /\ hex[4] = (n \div Power(BYTE, 0)) % BYTE
    BY <1>8, <2>1
  <2>3. QED
    BY <2>2, <1>4, <1>5, <1>6, <1>7
<1>10. from_hex8(hex) = ((q3 * BYTE + (q2 % BYTE)) * BYTE + (q1 % BYTE)) * BYTE + (n % BYTE)
  BY <1>9 DEF from_hex8
<1>11. from_hex8(hex) = n
  BY <1>1, <1>2, <1>3, <1>10
<1>12. Len(hex) = 4
  BY <1>8
<1>13. QED
  BY <1>11, <1>12 DEF hex

-----------------------------------------------------------------------------
(***************************************************************************)
(* What follows from the invariant: the running pool, its job and the      *)
(* judged share.                                                           *)
(***************************************************************************)
\* A running pool is that of a configuration without errors.
LEMMA PoolAsConfigured ==
    ASSUME Kept, running
    PROVE  /\ Written(case.file, case.env)
           /\ load_config(case.file, case.env) # {}
           /\ config \in Config /\ payout_script_pubkey_bytes(config) # {}
           /\ \E a : Applied(a, Base(case.file), case.env) /\ config = a[13]
           /\ pool.services = build_pool_services(config)
           /\ pool.submitter = DaemonClient(config)
           /\ pool.armed = (payout_script_pubkey_bytes(config) # {None})
           /\ pool.listeners = listeners(config)
           /\ config.initial_difficulty \in Nat
<1>1. Written(case.file, case.env)
  BY InputAssumption DEF Kept, Written
<1>2. load_config(case.file, case.env) # {} /\ pool = start(config)
  BY DEF Kept, Started
<1>3. /\ config \in Config /\ payout_script_pubkey_bytes(config) # {}
      /\ \E a : Applied(a, Base(case.file), case.env) /\ config = a[13]
  BY <1>1, <1>2, Loaded, Zenon DEF config
<1> HIDE DEF config
<1>4. /\ pool.services = build_pool_services(config)
      /\ pool.submitter = DaemonClient(config)
      /\ pool.armed = (payout_script_pubkey_bytes(config) # {None})
      /\ pool.listeners = listeners(config)
  BY <1>2 DEF start
<1>5. config.initial_difficulty \in Nat
  <2>1. "initial_difficulty" \in Fields /\ TypedValue("initial_difficulty") = Nat
    BY FieldsAre DEF TypedValue
  <2>2. config["initial_difficulty"] \in TypedValue("initial_difficulty")
    BY <1>3, <2>1 DEF Config
  <2>3. QED
    BY <2>1, <2>2
<1>6. QED
  BY <1>1, <1>2, <1>3, <1>4, <1>5

\* The time of a job has 32 bits, whichever mapper made it.
LEMMA TimeFits ==
    ASSUME NEW t \in Template
    PROVE  /\ ntime_to_u32(t.curtime) \in 0 .. U32 - 1
           /\ ntime_hex_to_u32(t.ntime) \subseteq 0 .. U32 - 1
<1>1. U32 \in Nat \ {0}
  BY BytePowers
<1>2. t.curtime % U32 \in 0 .. U32 - 1
  <2>1. t.curtime \in Nat
    BY DEF Template
  <2> HIDE DEF U32
  <2>2. t.curtime % U32 \in Nat /\ t.curtime % U32 < U32
    BY <1>1, <2>1, Divided
  <2>3. QED
    BY <1>1, <2>2
<1>3. ASSUME NEW b \in {x \in {t.ntime} : Len(x) = 4}
      PROVE  ((b[4] * BYTE + b[3]) * BYTE + b[2]) * BYTE + b[1] \in 0 .. U32 - 1
  <2>1. b \in Seq(0 .. BYTE - 1) /\ Len(b) = 4
    BY DEF Template
  <2>2. \A i \in 1 .. 4 : b[i] \in 0 .. BYTE - 1
    BY <2>1, ElementOfSeq
  <2>3. b[1] \in 0 .. BYTE - 1 /\ b[2] \in 0 .. BYTE - 1 /\ b[3] \in 0 .. BYTE - 1
        /\ b[4] \in 0 .. BYTE - 1
    BY <2>2
  <2>4. QED
    BY <2>3, FourBytesFit
<1>4. QED
  BY <1>2, <1>3 DEF ntime_to_u32, ntime_hex_to_u32

\* What of a job is the template's.
LEMMA JobOfTemplate ==
    ASSUME Kept, job # NoJob
    PROVE  /\ running /\ template \in Template
           /\ job.version = template.version /\ job.version \subseteq Bits
           /\ job.prev_hash \in decode_prev_hash(template.previousblockhash)
           /\ job.nbits \in decode_bits(template.bits)
           /\ job.ntime \in 0 .. U32 - 1
           /\ pool.services.job_source.kind = "rpc" =>
                 /\ pool.services.job_source.payout # None
                 /\ job \in template_to_job(template, pool.services.job_source.payout)
           /\ pool.services.job_source.kind # "rpc" => job \in api_template_to_job(template)
<1> DEFINE source == pool.services.job_source
<1>1. running /\ template \in Template /\ job \in current_job(source, template)
  BY InputAssumption DEF Kept, Mapped, template
<1>2. template.version \subseteq Bits
  BY <1>1 DEF Template
<1>3. CASE source.kind = "rpc"
  <2>1. source.payout # None /\ job \in template_to_job(template, source.payout)
    BY <1>1, <1>3 DEF current_job, rpc_current_job
  <2>2. /\ job.version = template.version
        /\ job.prev_hash \in decode_prev_hash(template.previousblockhash)
        /\ job.nbits \in decode_bits(template.bits)
        /\ job.ntime = ntime_to_u32(template.curtime)
    BY <2>1 DEF template_to_job
  <2>3. QED
    BY <1>1, <1>2, <1>3, <2>1, <2>2, TimeFits
<1>4. CASE source.kind # "rpc"
  <2>1. job \in api_template_to_job(template)
    BY <1>1, <1>4 DEF current_job, api_current_job
  <2>2. /\ job.version = template.version
        /\ job.prev_hash \in decode_prev_hash(template.previousblockhash)
        /\ job.nbits \in decode_bits(template.bits)
        /\ job.ntime \in ntime_hex_to_u32(template.ntime)
    BY <2>1 DEF api_template_to_job
  <2>3. QED
    BY <1>1, <1>2, <1>4, <2>1, <2>2, TimeFits
<1>5. QED
  BY <1>3, <1>4

LEMMA TheOnlyElement == ASSUME NEW x PROVE TheOnly({x}) = x
BY DEF TheOnly

\* What comes back from a miner that rolled the time is that time, modulo
\* 2^32.
LEMMA RolledTime ==
    ASSUME NEW j, j.ntime \in 0 .. U32 - 1, NEW rolled \in Nat
    PROVE  /\ rolled_time(build_mining_notify(j), rolled) = (j.ntime + rolled) % U32
           /\ (j.ntime + rolled) % U32 \in 0 .. U32 - 1
           /\ TheOnly(submitted_ntime(hex8((j.ntime + rolled) % U32))) = (j.ntime + rolled) % U32
<1>1. U32 \in Nat \ {0}
  BY BytePowers
<1>2. from_hex8(hex8(j.ntime)) = j.ntime
  BY HexRoundTrip
<1>3. rolled_time(build_mining_notify(j), rolled) = (j.ntime + rolled) % U32
  BY <1>2 DEF rolled_time, build_mining_notify
<1> DEFINE n == (j.ntime + rolled) % U32
<1>4. n \in 0 .. U32 - 1
  <2>1. j.ntime + rolled \in Nat
    <3> HIDE DEF U32
    <3>1. QED
      BY <1>1
  <2> HIDE DEF U32
  <2>2. n \in Nat /\ n < U32
    BY <1>1, <2>1, Divided
  <2>3. QED
    BY <1>1, <2>2
<1> HIDE DEF n
<1>5. Len(hex8(n)) = 4 /\ from_hex8(hex8(n)) = n
  BY <1>4, HexRoundTrip
<1>6. submitted_ntime(hex8(n)) = {n}
  BY <1>5 DEF submitted_ntime
<1>7. QED
  BY <1>3, <1>4, <1>6, TheOnlyElement DEF n

\* The number of the difficulty-1 target.
LEMMA Diff1Value ==
    diff1_target \in Word /\ Number(diff1_target) = (BASE * BASE - 1) * Power(BASE, SIZE - 6)
<1> DEFINE nbits == [exponent |-> SIZE - 3, mantissa |-> BASE * BASE - 1]
<1>1. nbits \in Compact /\ nbits.exponent \in 3 .. SIZE /\ nbits.exponent - 3 = SIZE - 6
  <2>1. SIZE - 3 \in Nat /\ SIZE - 3 \in 3 .. SIZE /\ (SIZE - 3) - 3 = SIZE - 6
    BY WordAssumption
  <2>2. BASE * BASE - 1 \in 0 .. BASE * BASE * BASE - 1
    <3>1. BASE \in Nat \ {0, 1} /\ BASE * BASE \in Nat
      BY WordAssumption, NatTimes
    <3>2. BASE * BASE * BASE \in Nat
      BY <3>1, NatTimes
    <3>3. BASE * BASE * BASE >= BASE * BASE /\ BASE * BASE >= 1
      BY <3>1
    <3>4. QED
      BY <3>1, <3>2, <3>3
  <2>3. QED
    BY <2>1, <2>2 DEF Compact
<1>2. diff1_target = nbits_to_target(nbits)
  BY DEF diff1_target
<1> HIDE DEF nbits
<1>3. diff1_target \in Word
        /\ Number(diff1_target) = nbits.mantissa * Power(BASE, nbits.exponent - 3)
  BY <1>1, <1>2, TargetIsWord, TargetByValue
<1>4. QED
  BY <1>1, <1>3 DEF nbits

LEMMA TraceParts ==
    ASSUME NEW tr, NEW j, NEW sh, NEW hash, NEW d, tr = share_validation_trace(j, sh, hash, d)
    PROVE  /\ tr.header = build_block_header(j, sh) /\ tr.hash = hash
           /\ tr.block_target = nbits_to_target(j.nbits)
           /\ tr.share_target = div_target_by_difficulty(diff1_target, d)
BY DEF share_validation_trace

LEMMA BlockIsSome == ASSUME NEW h, NEW c, NEW t PROVE build_raw_block(h, c, t) # NoBlock
<1> DEFINE txs == [i \in DOMAIN t.transactions |-> t.transactions[i].data]
<1>1. build_raw_block(h, c, t) = [header |-> h, coinbase |-> c, transactions |-> txs]
  BY DEF build_raw_block
<1> HIDE DEF txs
<1>2. QED
  BY <1>1 DEF NoBlock

\* The trace of a judged share, in terms of job and configuration.
LEMMA TraceOfJudged ==
    ASSUME Kept, verdict \in Judgement
    PROVE  /\ job # NoJob /\ share \in Share /\ ~version_refused(share)
           /\ trace.hash \in Word
           /\ trace.header = build_block_header(job, share)
           /\ trace.block_target = nbits_to_target(job.nbits)
           /\ trace.share_target = div_target_by_difficulty(diff1_target, config.initial_difficulty)
           /\ trace.block_target \in Word /\ trace.share_target \in Word
           /\ verdict = validate_share(trace)
<1>1. /\ job # NoJob /\ share \in Shares /\ ~version_refused(share) /\ trace.hash \in Word
      /\ trace = share_validation_trace(job, share, trace.hash, pool.services.pool_difficulty)
      /\ verdict = validate_share(trace)
  BY DEF Kept, Judged
<1>2. share \in Share
  BY <1>1, InputAssumption
<1>3. pool.services.pool_difficulty = config.initial_difficulty /\ config.initial_difficulty \in Nat
  <2>1. running
    BY <1>1, JobOfTemplate
  <2>2. QED
    BY <2>1, PoolAsConfigured DEF build_pool_services, PoolServices
<1>4. /\ trace.header = build_block_header(job, share)
      /\ trace.block_target = nbits_to_target(job.nbits)
      /\ trace.share_target = div_target_by_difficulty(diff1_target, config.initial_difficulty)
  BY <1>1, <1>3, TraceParts
<1>5. job.nbits \in Compact
  BY <1>1, JobOfTemplate, BitsAreCompact
<1>6. trace.block_target \in Word /\ trace.share_target \in Word
  BY <1>3, <1>4, <1>5, TargetIsWord, DividedByValue, Diff1Value
<1>7. QED
  BY <1>1, <1>2, <1>4, <1>6

LEMMA KeptGivesTypeOK == Kept => TypeOK
<1> SUFFICES ASSUME Kept PROVE TypeOK
  OBVIOUS
<1>1. /\ case \in Cases /\ share \in Shares \cup {NoShare}
      /\ verdict \in {"none", "Rejected", "Block", "Accepted", "LowDifficulty"}
      /\ outcome \in {"none", "LocalError", "submitblock attempt"}
  BY DEF Kept, Judged, Submitted, Judgement
<1>2. (block # NoBlock) <=> (outcome = "submitblock attempt")
  BY BlockIsSome DEF Kept, Submitted
<1>3. ASSUME trace # NoTrace
      PROVE  /\ trace.header.version \subseteq Bits /\ trace.header.ntime \in 0 .. U32 - 1
             /\ trace.block_target \in Word /\ trace.share_target \in Word
  <2>1. verdict \in Judgement
    BY <1>3 DEF Kept, Judged
  <2>2. /\ job # NoJob /\ share \in Share /\ trace.header = build_block_header(job, share)
        /\ trace.block_target \in Word /\ trace.share_target \in Word
    BY <2>1, TraceOfJudged
  <2>3. job.version \subseteq Bits /\ job.ntime \in 0 .. U32 - 1
    BY <2>2, JobOfTemplate
  <2>4. resolved_version(job, share) \subseteq Bits
    BY <2>2, <2>3 DEF resolved_version, Share
  <2>5. share.rolled \in Nat
    BY <2>2 DEF Share
  <2>6. TheOnly(submitted_ntime(hex8(rolled_time(build_mining_notify(job), share.rolled))))
          \in 0 .. U32 - 1
    BY <2>3, <2>5, RolledTime
  <2>7. QED
    BY <2>2, <2>4, <2>6 DEF build_block_header
<1>4. QED
  BY <1>1, <1>2, <1>3 DEF TypeOK

\* The three verdicts compare numbers, by the theorems on targets.
LEMMA KeptGivesJudgedByValue == Kept => JudgedByValue
<1> SUFFICES ASSUME Kept, verdict \in Judgement, template.bits[1] \in 3 .. SIZE
             PROVE  LET nbits == [exponent |-> template.bits[1],
                                  mantissa |-> Number(Tail(template.bits))]
                    IN  verdict = IF Number(trace.hash) =< Value(nbits) THEN "Block"
                                  ELSE IF Number(trace.hash)
                                          =< EasiestShare(pool.listeners.told_difficulty)
                                  THEN "Accepted"
                                  ELSE "LowDifficulty"
  BY DEF JudgedByValue, Judgement
<1> DEFINE nbits == [exponent |-> template.bits[1], mantissa |-> Number(Tail(template.bits))]
           d == config.initial_difficulty
<1>1. /\ job # NoJob /\ trace.hash \in Word
      /\ trace.block_target = nbits_to_target(job.nbits)
      /\ trace.share_target = div_target_by_difficulty(diff1_target, d)
      /\ trace.block_target \in Word /\ trace.share_target \in Word
      /\ verdict = validate_share(trace)
  BY TraceOfJudged
<1>2. job.nbits = nbits /\ nbits \in Compact
  BY <1>1, JobOfTemplate, BitsAreCompact
<1>3. nbits.exponent \in 3 .. SIZE
  OBVIOUS
<1>4. Number(trace.block_target) = Value(nbits)
  <2> HIDE DEF nbits
  <2>1. QED
    BY <1>1, <1>2, <1>3, TargetByValue DEF Value
<1>5. d \in Nat /\ pool.listeners.told_difficulty = d
  <2>1. running
    BY <1>1, JobOfTemplate
  <2>2. QED
    BY <2>1, PoolAsConfigured DEF listeners
<1> HIDE DEF d, nbits
<1>6. Number(trace.share_target) = EasiestShare(d)
  BY <1>1, <1>5, DividedByValue, Diff1Value DEF EasiestShare
<1>7. /\ leq_be(trace.hash, trace.block_target) <=> Number(trace.hash) =< Number(trace.block_target)
      /\ leq_be(trace.hash, trace.share_target) <=> Number(trace.hash) =< Number(trace.share_target)
  BY <1>1, ComparedByValue
<1>8. verdict = IF Number(trace.hash) =< Value(nbits) THEN "Block"
                ELSE IF Number(trace.hash) =< EasiestShare(pool.listeners.told_difficulty)
                THEN "Accepted"
                ELSE "LowDifficulty"
  BY <1>1, <1>4, <1>5, <1>6, <1>7 DEF validate_share
<1>9. QED
  BY <1>8 DEF nbits

-----------------------------------------------------------------------------
(***************************************************************************)
(* Which setting counts.                                                   *)
(***************************************************************************)
LEMMA SettingCounts ==
    ASSUME Kept, running, NEW j \in 1 .. 13,
           \A i \in 1 .. 13 : i # j /\ env_keys[i][2] = env_keys[j][2]
              => ~Read(i, case.env) \/ (i < j /\ Read(j, case.env))
    PROVE  config[env_keys[j][2]] = Effective(env_keys[j][2], env_keys[j][1])
<1> DEFINE f == env_keys[j][2]  v == env_keys[j][1]
<1>1. f \in Fields
  BY KeysAre
<1>2. PICK a : Applied(a, Base(case.file), case.env) /\ config = a[13]
  BY PoolAsConfigured
<1>3. a[13][f] = IF Read(j, case.env) THEN TheOnly(env_value(f, case.env[v]))
                 ELSE Base(case.file)[f]
  BY <1>2, LastOneCounts
<1>4. Read(j, case.env) <=> Readable(v, f)
  BY DEF Read, Readable
<1>5. Base(case.file)[f] = IF case.file.found /\ f \in DOMAIN case.file.settings
                           THEN TheOnly(toml_value(f, case.file.settings[f])) ELSE Default[f]
  BY <1>1 DEF Base
<1> HIDE DEF f, v, config
<1>6. config[f] = Effective(f, v)
  BY <1>2, <1>3, <1>4, <1>5 DEF Effective
<1>7. QED
  BY <1>6 DEF f, v

LEMMA KeyNames ==
    /\ env_keys[1] = << "POOL__INITIAL_DIFFICULTY", "initial_difficulty" >>
    /\ env_keys[2] = << "POOL__PAYOUT_SCRIPT_PUBKEY_HEX", "payout_script_pubkey_hex" >>
    /\ env_keys[3] = << "DAEMON__JOB_SOURCE_MODE", "job_source_mode" >>
    /\ env_keys[4] = << "DAEMON__URL", "url" >>
    /\ env_keys[5] = << "DAEMON__RPC_USER", "rpc_user" >>
    /\ env_keys[6] = << "DAEMON__RPC_PASSWORD", "rpc_password" >>
    /\ env_keys[7] = << "AZ_NODE_API_TOKEN", "node_api_token" >>
    /\ env_keys[8] = << "DAEMON__NODE_API_TOKEN", "node_api_token" >>
    /\ env_keys[9] = << "DAEMON__SHARE_API_URL", "share_api_url" >>
    /\ env_keys[10] = << "API__BIND", "api_bind" >>
    /\ env_keys[11] = << "API__PORT", "api_port" >>
    /\ env_keys[12] = << "STRATUM__BIND", "stratum_bind" >>
    /\ env_keys[13] = << "STRATUM__PORT", "stratum_port" >>
BY DEF env_keys

LEMMA NamedOnce ==
    ASSUME NEW i \in 1 .. 13, NEW j \in 1 .. 13, i # j, env_keys[i][2] = env_keys[j][2]
    PROVE  {i, j} = {7, 8}
BY KeyNames

\* Each field has the value the property names; of the two tokens the one of
\* DAEMON__NODE_API_TOKEN wins.
LEMMA SettingsCount ==
    ASSUME Kept, running
    PROVE  /\ config.initial_difficulty = Effective("initial_difficulty", "POOL__INITIAL_DIFFICULTY")
           /\ config.payout_script_pubkey_hex
                = Effective("payout_script_pubkey_hex", "POOL__PAYOUT_SCRIPT_PUBKEY_HEX")
           /\ config.job_source_mode = Effective("job_source_mode", "DAEMON__JOB_SOURCE_MODE")
           /\ config.url = Effective("url", "DAEMON__URL")
           /\ config.rpc_user = Effective("rpc_user", "DAEMON__RPC_USER")
           /\ config.rpc_password = Effective("rpc_password", "DAEMON__RPC_PASSWORD")
           /\ config.share_api_url = Effective("share_api_url", "DAEMON__SHARE_API_URL")
           /\ config.api_bind = Effective("api_bind", "API__BIND")
           /\ config.api_port = Effective("api_port", "API__PORT")
           /\ config.stratum_bind = Effective("stratum_bind", "STRATUM__BIND")
           /\ config.stratum_port = Effective("stratum_port", "STRATUM__PORT")
           /\ bearer_token(config) = EffectiveToken
<1>1. ASSUME NEW j \in 1 .. 13, j \notin {7, 8}
      PROVE  config[env_keys[j][2]] = Effective(env_keys[j][2], env_keys[j][1])
  <2>1. \A i \in 1 .. 13 : i # j => env_keys[i][2] # env_keys[j][2]
    BY <1>1, NamedOnce
  <2>2. QED
    BY <2>1, SettingCounts
<1>2. /\ config[env_keys[1][2]] = Effective(env_keys[1][2], env_keys[1][1])
      /\ config[env_keys[2][2]] = Effective(env_keys[2][2], env_keys[2][1])
      /\ config[env_keys[3][2]] = Effective(env_keys[3][2], env_keys[3][1])
      /\ config[env_keys[4][2]] = Effective(env_keys[4][2], env_keys[4][1])
      /\ config[env_keys[5][2]] = Effective(env_keys[5][2], env_keys[5][1])
      /\ config[env_keys[6][2]] = Effective(env_keys[6][2], env_keys[6][1])
      /\ config[env_keys[9][2]] = Effective(env_keys[9][2], env_keys[9][1])
      /\ config[env_keys[10][2]] = Effective(env_keys[10][2], env_keys[10][1])
      /\ config[env_keys[11][2]] = Effective(env_keys[11][2], env_keys[11][1])
      /\ config[env_keys[12][2]] = Effective(env_keys[12][2], env_keys[12][1])
      /\ config[env_keys[13][2]] = Effective(env_keys[13][2], env_keys[13][1])
  BY <1>1
<1>3. config.node_api_token = IF Readable("DAEMON__NODE_API_TOKEN", "node_api_token")
                              THEN Effective("node_api_token", "DAEMON__NODE_API_TOKEN")
                              ELSE Effective("node_api_token", "AZ_NODE_API_TOKEN")
  <2>1. Read(8, case.env) <=> Readable("DAEMON__NODE_API_TOKEN", "node_api_token")
    BY KeyNames DEF Read, Readable
  <2>2. CASE Read(8, case.env)
    <3>1. \A i \in 1 .. 13 : i # 8 /\ env_keys[i][2] = env_keys[8][2] => i < 8
      BY KeyNames
    <3>2. config[env_keys[8][2]] = Effective(env_keys[8][2], env_keys[8][1])
      BY <2>2, <3>1, SettingCounts
    <3>3. QED
      BY <2>1, <2>2, <3>2, KeyNames
  <2>3. CASE ~Read(8, case.env)
    <3>1. \A i \in 1 .. 13 : i # 7 /\ env_keys[i][2] = env_keys[7][2] => i = 8
      BY KeyNames
    <3>2. config[env_keys[7][2]] = Effective(env_keys[7][2], env_keys[7][1])
      BY <2>3, <3>1, SettingCounts
    <3>3. QED
      BY <2>1, <2>3, <3>2, KeyNames
  <2>4. QED
    BY <2>2, <2>3
<1> HIDE DEF config
<1>4. bearer_token(config) = EffectiveToken
  BY <1>3 DEF bearer_token, EffectiveToken
<1>5. QED
  BY <1>2, <1>4, KeyNames

LEMMA KeptGivesEnvironmentDecides == Kept => EnvironmentDecides
<1> SUFFICES ASSUME Kept, running PROVE EnvironmentDecides
  BY DEF EnvironmentDecides
<1> DEFINE source == pool.services.job_source
           payout == Effective("payout_script_pubkey_hex", "POOL__PAYOUT_SCRIPT_PUBKEY_HEX")
           url == Effective("share_api_url", "DAEMON__SHARE_API_URL")
<1>1. /\ config.job_source_mode \in {"rpc", "api"} /\ config.payout_script_pubkey_hex \in Text
      /\ config \in Config
  <2>1. config \in Config
    BY PoolAsConfigured
  <2>2. "job_source_mode" \in Fields /\ "payout_script_pubkey_hex" \in Fields
    BY FieldsAre
  <2> HIDE DEF config
  <2>3. QED
    BY <2>1, <2>2 DEF Config, TypedValue
<1>2. /\ pool.services = build_pool_services(config)
      /\ pool.submitter = DaemonClient(config)
      /\ pool.armed = (payout_script_pubkey_bytes(config) # {None})
      /\ pool.listeners = listeners(config)
      /\ payout_script_pubkey_bytes(config) # {}
  BY PoolAsConfigured
<1>3. /\ source = build_job_source(config)
      /\ pool.services.pool_difficulty = config.initial_difficulty
      /\ pool.services.share_sink = IF config.share_api_url.is = "blank" THEN None
                                    ELSE [url |-> config.share_api_url,
                                          token |-> bearer_token(config)]
  BY <1>2 DEF build_pool_services, PoolServices
<1> HIDE DEF config
<1>4. /\ source.kind = config.job_source_mode
      /\ source.kind = "rpc" => source.daemon = pool.submitter
      /\ source.kind # "rpc" => source.url = config.url /\ source.token = bearer_token(config)
  BY <1>1, <1>2, <1>3 DEF build_job_source
<1>5. pool.submitter.url = config.url /\
      pool.submitter = [url |-> config.url, rpc_user |-> config.rpc_user,
                        rpc_password |-> config.rpc_password]
  BY <1>2 DEF DaemonClient
<1>6. /\ pool.listeners.api = << config.api_bind, config.api_port >>
      /\ pool.listeners.stratum = << config.stratum_bind, config.stratum_port >>
      /\ pool.listeners.told_difficulty = config.initial_difficulty
  BY <1>2 DEF listeners
<1>7. pool.armed <=> config.payout_script_pubkey_hex.is = "hex"
  <2> DEFINE hex == config.payout_script_pubkey_hex
  <2>1. hex.n \in Nat
    BY <1>1 DEF Text
  <2>2. CASE hex.is = "blank"
    BY <1>2, <2>2 DEF payout_script_pubkey_bytes
  <2>3. CASE hex.is # "blank"
    <3>1. hex.is = "hex" /\ payout_script_pubkey_bytes(config) = {hex.n}
      BY <1>2, <2>3 DEF payout_script_pubkey_bytes
    <3>2. {hex.n} # {None}
      BY <2>1, NoneAssumption
    <3>3. QED
      BY <1>2, <3>1, <3>2
  <2>4. QED
    BY <2>2, <2>3
<1>8. QED
  BY <1>3, <1>4, <1>5, <1>6, <1>7, SettingsCount DEF EnvironmentDecides

-----------------------------------------------------------------------------
(***************************************************************************)
(* What a miner has is what the pool has.                                  *)
(***************************************************************************)
\* The predecessor of a job, reversed, is the template's.
LEMMA HashOfTemplate ==
    ASSUME NEW t \in Template, NEW h \in decode_prev_hash(t.previousblockhash)
    PROVE  /\ h \in [1 .. HASH -> Nat] /\ Reverse(h) = t.previousblockhash
           /\ h = Reverse(t.previousblockhash)
<1>1. /\ t.previousblockhash \in Seq(Nat) /\ Len(t.previousblockhash) = HASH
      /\ h = Reverse(t.previousblockhash)
  BY DEF Template, decode_prev_hash
<1> DEFINE b == t.previousblockhash
<1> HIDE DEF b
<1>2. b \in [1 .. HASH -> Nat] /\ HASH \in Nat /\ Len(b) = HASH
  BY <1>1, WordsAssumption, LenProperties DEF b
<1>3. h = [i \in 1 .. HASH |-> b[(HASH - i) + 1]]
  BY <1>1, <1>2 DEF Reverse, b
<1>4. \A i \in 1 .. HASH : (HASH - i) + 1 \in 1 .. HASH /\ (HASH - ((HASH - i) + 1)) + 1 = i
  BY <1>2
<1>5. h \in [1 .. HASH -> Nat]
  BY <1>2, <1>3, <1>4
<1>6. Len(h) = HASH
  BY <1>2, <1>5
<1>7. Reverse(h) = [i \in 1 .. HASH |-> h[(HASH - i) + 1]]
  BY <1>6 DEF Reverse
<1>8. \A i \in 1 .. HASH : h[(HASH - i) + 1] = b[i]
  BY <1>3, <1>4
<1>9. b = [i \in 1 .. HASH |-> b[i]]
  BY <1>2
<1>10. Reverse(h) = b
  BY <1>7, <1>8, <1>9
<1>11. QED
  BY <1>1, <1>5, <1>10 DEF b

(***************************************************************************)
(* The predecessor's hash is sent with the bytes of each word swapped; a   *)
(* miner that swaps them back has the bytes of the hash in order.          *)
(***************************************************************************)
THEOREM WordsSwappedTwice ==
    ASSUME NEW h \in [1 .. HASH -> Nat]
    PROVE  swap_words(hex_encode_prevhash_sv1(h)) = h
<1>1. WORD \in Nat \ {0} /\ HASH \in Nat /\ HASH % WORD = 0 /\ DOMAIN h = 1 .. HASH
  BY WordsAssumption
<1> DEFINE k == HASH \div WORD
<1>2. k \in Nat /\ HASH = k * WORD
  BY <1>1, Divided
<1> HIDE DEF k
<1> DEFINE e == hex_encode_prevhash_sv1(h)
           s == swap_words(e)
<1>3. e = [i \in 1 .. HASH |->
             h[(i - ((i - 1) % WORD)) + (WORD - 1 - ((i - 1) % WORD))]]
  BY <1>1 DEF hex_encode_prevhash_sv1
<1> HIDE DEF e
<1>4. s = [i \in 1 .. HASH |-> e[((i - 1) \div WORD) * WORD + (WORD - ((i - 1) % WORD))]]
  BY <1>3 DEF swap_words
<1> HIDE DEF s
<1>5. ASSUME NEW i \in 1 .. HASH PROVE s[i] = h[i]
  <2> DEFINE q == (i - 1) \div WORD  r == (i - 1) % WORD  before == q * WORD
             there == before + (WORD - r)
  <2>1. q \in Nat /\ r \in Nat /\ r < WORD /\ i - 1 = q * WORD + r
    <3>1. i - 1 \in Nat
      OBVIOUS
    <3>2. QED
      BY <1>1, <3>1, Divided
  <2>2. before \in Nat /\ i - 1 = before + r
    BY <1>1, <2>1, NatTimes
  <2>3. before + WORD =< HASH
    <3>1. q < k
      <4> SUFFICES ASSUME ~(q < k) PROVE FALSE
        OBVIOUS
      <4> DEFINE d == q - k
      <4>1. d \in Nat /\ q = k + d
        BY <1>2, <2>1
      <4>2. q * WORD = k * WORD + d * WORD
        BY <1>1, <1>2, <2>1, <4>1
      <4>3. d * WORD \in Nat
        BY <1>1, <4>1, NatTimes
      <4> HIDE DEF d, q, r
      <4>4. QED
        BY <1>1, <1>2, <2>1, <4>2, <4>3
    <3> DEFINE d == k - (q + 1)
    <3>2. d \in Nat /\ k = q + 1 + d
      BY <1>2, <2>1, <3>1
    <3>3. k * WORD = q * WORD + WORD + d * WORD
      BY <1>1, <2>1, <3>2
    <3>4. d * WORD \in Nat
      BY <1>1, <3>2, NatTimes
    <3> HIDE DEF d, q, r
    <3>5. QED
      BY <1>1, <1>2, <2>1, <2>2, <3>3, <3>4
  <2>4. s[i] = e[there]
    BY <1>4
  <2> HIDE DEF q, r
  <2>5. there \in 1 .. HASH /\ there - 1 = q * WORD + (WORD - 1 - r)
    BY <1>1, <2>1, <2>2, <2>3
  <2>6. (there - 1) % WORD = WORD - 1 - r
    <3> DEFINE low == WORD - 1 - r
    <3>1. low \in Nat /\ low < WORD
      BY <1>1, <2>1
    <3>2. there - 1 \in Nat
      BY <2>5
    <3>3. (there - 1) \div WORD = q
      <4> HIDE DEF there, before
      <4>1. there - 1 = q * WORD + low
        BY <2>5
      <4> HIDE DEF low
      <4>2. (q * WORD + low) \div WORD = q
        BY <1>1, <2>1, <3>1, QuotientIsUnique
      <4>3. QED
        BY <4>1, <4>2
    <3> HIDE DEF there, low, before
    <3>4. there - 1 = ((there - 1) \div WORD) * WORD + ((there - 1) % WORD)
          /\ (there - 1) % WORD \in Nat
      BY <1>1, <3>2, Divided
    <3>5. q * WORD \in Nat
      BY <1>1, <2>1, NatTimes
    <3>6. QED
      BY <2>5, <3>1, <3>3, <3>4, <3>5 DEF low
  <2>7. e[there] = h[(there - (WORD - 1 - r)) + (WORD - 1 - (WORD - 1 - r))]
    <3> HIDE DEF there
    <3>1. e[there] = h[(there - ((there - 1) % WORD)) + (WORD - 1 - ((there - 1) % WORD))]
      BY <1>3, <2>5
    <3>2. QED
      BY <2>6, <3>1
  <2>8. (there - (WORD - 1 - r)) + (WORD - 1 - (WORD - 1 - r)) = i
    BY <1>1, <2>1, <2>2
  <2>9. QED
    BY <2>4, <2>7, <2>8
<1>6. h = [i \in 1 .. HASH |-> h[i]]
  OBVIOUS
<1>7. s = [i \in 1 .. HASH |-> s[i]]
  BY <1>4
<1>8. s = h
  BY <1>5, <1>6, <1>7
<1>9. QED
  BY <1>8 DEF s, e

\* Compact bits in hexadecimal are read back as they were.
LEMMA BitsRoundTrip ==
    ASSUME NEW nbits \in Compact
    PROVE  decode_bits(hex_of_nbits(nbits)) = {nbits}
<1> DEFINE m == nbits.mantissa  hex == hex_of_nbits(nbits)
<1>1. BASE \in Nat \ {0, 1} /\ m \in Nat /\ m < BASE * BASE * BASE /\ nbits.exponent \in Nat
  <2>1. BASE \in Nat \ {0, 1} /\ BASE * BASE * BASE \in Nat
    BY WordAssumption, NatTimes
  <2>2. m \in 0 .. BASE * BASE * BASE - 1 /\ nbits.exponent \in Nat
    BY DEF Compact
  <2> HIDE DEF m
  <2>3. QED
    BY <2>1, <2>2
<1>2. nbits = [exponent |-> nbits.exponent, mantissa |-> m]
  BY DEF Compact
<1> HIDE DEF m
<1>3. m \div Power(BASE, 2) \in Nat /\ m \div Power(BASE, 2) < BASE
  <2>1. BASE * BASE * BASE = BASE * (BASE * BASE) /\ Power(BASE, 2) = BASE * BASE
    BY <1>1, Powers
  <2>2. Power(BASE, 2) \in Nat \ {0}
    BY Powers
  <2>3. QED
    BY <1>1, <2>1, <2>2, Divided, QuotientBelow
<1>4. (m \div Power(BASE, 2)) % BASE = m \div Power(BASE, 2)
  BY <1>1, <1>3
<1>5. m \div Power(BASE, 1) = m \div BASE /\ m \div Power(BASE, 0) = m
  BY <1>1, Powers
<1>6. m = ((m \div Power(BASE, 2)) * BASE + ((m \div BASE) % BASE)) * BASE + (m % BASE)
  BY <1>1, <1>4, <1>5, ThreeBytes
<1>7. hex = << nbits.exponent, m \div Power(BASE, 2), (m \div BASE) % BASE, m % BASE >>
  BY DEF hex_of_nbits, m
<1> HIDE DEF hex
<1>8. /\ Len(hex) = 4 /\ hex[1] = nbits.exponent /\ hex[2] = m \div Power(BASE, 2)
      /\ hex[3] = (m \div BASE) % BASE /\ hex[4] = m % BASE
  BY <1>7
<1>9. decode_bits(hex) =
        {[exponent |-> hex[1], mantissa |-> (hex[2] * BASE + hex[3]) * BASE + hex[4]]}
  BY <1>8 DEF decode_bits
<1>10. (hex[2] * BASE + hex[3]) * BASE + hex[4] = m
  BY <1>6, <1>8
<1>11. QED
  BY <1>2, <1>8, <1>9, <1>10 DEF hex

(***************************************************************************)
(* Merkle roots from a branch, the pool's and the miner's.                 *)
(***************************************************************************)
\* f has the roots of the first elements of a branch, from the hash of the
\* coinbase on.
Roots(f, hash, branch, n) ==
    /\ f[0] = hash
    /\ \A i \in 1 .. n : f[i] = double_sha256(<< f[i - 1], branch[i] >>)

RootEquation(f, hash, branch, n) ==
    f = [i \in 0 .. n |-> IF i = 0 THEN hash ELSE double_sha256(<< f[i - 1], branch[i] >>)]

\* There is such a function.
LEMMA RootsExist ==
    ASSUME NEW hash, NEW branch, NEW n \in Nat
    PROVE  /\ \E f : RootEquation(f, hash, branch, n)
           /\ \A f : RootEquation(f, hash, branch, n) => Roots(f, hash, branch, n)
<1> DEFINE Equation(f, k) == f = [i \in 0 .. k |-> IF i = 0 THEN hash
                                     ELSE double_sha256(<< f[i - 1], branch[i] >>)]
           T == {k \in Nat : \E f : Equation(f, k)}
<1>1. 0 \in T
  <2>1. Equation([i \in 0 .. 0 |-> hash], 0)
    OBVIOUS
  <2>2. QED
    BY <2>1
<1>2. ASSUME NEW k \in T PROVE k + 1 \in T
  <2>1. PICK f : Equation(f, k)
    OBVIOUS
  <2> DEFINE g == [i \in 0 .. k + 1 |-> IF i = k + 1 THEN double_sha256(<< f[k], branch[k + 1] >>)
                                        ELSE f[i]]
  <2>2. ASSUME NEW i \in 0 .. k + 1
        PROVE  g[i] = IF i = 0 THEN hash ELSE double_sha256(<< g[i - 1], branch[i] >>)
    <3>1. \A m \in 0 .. k : g[m] = f[m]
      OBVIOUS
    <3>2. g[k + 1] = double_sha256(<< f[k], branch[k + 1] >>)
      OBVIOUS
    <3> HIDE DEF g
    <3>3. CASE i = k + 1
      <4>1. i - 1 = k /\ k \in 0 .. k /\ i # 0
        BY <3>3
      <4>2. QED
        BY <3>1, <3>2, <3>3, <4>1
    <3>4. CASE i \in 0 .. k
      <4>1. g[i] = f[i]
        BY <3>1, <3>4
      <4>2. f[i] = IF i = 0 THEN hash ELSE double_sha256(<< f[i - 1], branch[i] >>)
        BY <2>1, <3>4
      <4>3. i # 0 => i - 1 \in 0 .. k
        BY <3>4
      <4>4. QED
        BY <3>1, <4>1, <4>2, <4>3
    <3>5. QED
      BY <3>3, <3>4
  <2>3. g = [i \in 0 .. k + 1 |-> g[i]]
    OBVIOUS
  <2> HIDE DEF g
  <2>4. Equation(g, k + 1)
    BY <2>2, <2>3
  <2>5. k \in Nat
    OBVIOUS
  <2> HIDE DEF Equation
  <2>6. QED
    BY <2>4, <2>5
<1>3. n \in T
  <2> HIDE DEF T
  <2>1. T \in SUBSET Nat
    BY DEF T
  <2>2. QED
    BY <1>1, <1>2, <2>1, Induct
<1>4. ASSUME NEW g, Equation(g, n) PROVE Roots(g, hash, branch, n)
  <2>1. g[0] = hash
    BY <1>4
  <2>2. ASSUME NEW i \in 1 .. n PROVE g[i] = double_sha256(<< g[i - 1], branch[i] >>)
    <3>1. i \in 0 .. n /\ i # 0
      OBVIOUS
    <3>2. QED
      BY <1>4, <3>1
  <2>3. QED
    BY <2>1, <2>2 DEF Roots
<1>5. QED
  BY <1>3, <1>4 DEF RootEquation

\* The pool's root is the last of them.
LEMMA RootOfBranch ==
    ASSUME NEW hash, NEW branch, NEW n \in Nat, Len(branch) = n
    PROVE  \E f : Roots(f, hash, branch, n) /\ apply_merkle_branch(hash, branch) = f[n]
<1> DEFINE root == CHOOSE f : RootEquation(f, hash, branch, n)
<1>1. apply_merkle_branch(hash, branch) = root[n]
  BY Zenon DEF apply_merkle_branch, RootEquation
<1>2. RootEquation(root, hash, branch, n)
  BY RootsExist
<1>3. QED
  BY <1>1, <1>2, RootsExist

\* And so is the miner's, of the elements as the miner takes them.
LEMMA MinedRootOfBranch ==
    ASSUME NEW coinbase_, NEW branch, NEW reading, NEW n \in Nat, Len(branch) = n
    PROVE  \E f : /\ Roots(f, double_sha256(coinbase_), [i \in 1 .. n |-> taken(reading, branch[i])], n)
                  /\ mined_root(coinbase_, branch, reading) = f[n]
<1> DEFINE hash == double_sha256(coinbase_)
           read == [i \in 1 .. n |-> taken(reading, branch[i])]
           Mined(f) == f = [i \in 0 .. n |-> IF i = 0 THEN hash
                               ELSE double_sha256(<< f[i - 1], taken(reading, branch[i]) >>)]
           root == CHOOSE f : Mined(f)
<1>1. mined_root(coinbase_, branch, reading) = root[n]
  BY Zenon DEF mined_root
<1>2. ASSUME NEW f PROVE RootEquation(f, hash, read, n) <=> Mined(f)
  <2>1. \A i \in 1 .. n : read[i] = taken(reading, branch[i])
    OBVIOUS
  <2>2. \A i \in 0 .. n : i = 0 \/ i \in 1 .. n
    OBVIOUS
  <2> HIDE DEF read, hash
  <2>3. [i \in 0 .. n |-> IF i = 0 THEN hash ELSE double_sha256(<< f[i - 1], read[i] >>)]
          = [i \in 0 .. n |-> IF i = 0 THEN hash
                              ELSE double_sha256(<< f[i - 1], taken(reading, branch[i]) >>)]
    BY <2>1, <2>2
  <2>4. QED
    BY <2>3 DEF RootEquation
<1> HIDE DEF Mined, read, hash
<1>3. Mined(root)
  BY <1>2, RootsExist
<1>4. Roots(root, hash, read, n)
  BY <1>2, <1>3, RootsExist
<1>5. QED
  BY <1>1, <1>4 DEF hash, read

\* Hashing is a constructor.
LEMMA PairsHashed ==
    ASSUME NEW a, NEW b, NEW c, NEW d
    PROVE  double_sha256(<< a, b >>) = double_sha256(<< c, d >>) <=> a = c /\ b = d
<1>1. ASSUME NEW x, NEW y, double_sha256(x) = double_sha256(y) PROVE x = y
  <2>1. double_sha256(x).sha256d = x /\ double_sha256(y).sha256d = y
    BY DEF double_sha256
  <2>2. QED
    BY <1>1, <2>1
<1>2. << a, b >> = << c, d >> <=> a = c /\ b = d
  OBVIOUS
<1>3. QED
  BY <1>1, <1>2

\* From one hash on, two branches have one root just if they are the same.
LEMMA RootsAgree ==
    ASSUME NEW n \in Nat, NEW hash, NEW b, NEW c, NEW f, NEW g,
           Roots(f, hash, b, n), Roots(g, hash, c, n)
    PROVE  f[n] = g[n] <=> \A i \in 1 .. n : b[i] = c[i]
<1> DEFINE Same(k) == f[k] = g[k] <=> \A i \in 1 .. k : b[i] = c[i]
           T == {k \in Nat : k =< n => Same(k)}
<1>1. 0 \in T
  BY DEF Roots
<1>2. ASSUME NEW k \in T PROVE k + 1 \in T
  <2> SUFFICES ASSUME k + 1 =< n PROVE Same(k + 1)
    OBVIOUS
  <2>1. k + 1 \in 1 .. n /\ (k + 1) - 1 = k /\ Same(k)
    OBVIOUS
  <2>2. f[k + 1] = double_sha256(<< f[k], b[k + 1] >>) /\ g[k + 1] = double_sha256(<< g[k], c[k + 1] >>)
    BY <2>1 DEF Roots
  <2>3. f[k + 1] = g[k + 1] <=> f[k] = g[k] /\ b[k + 1] = c[k + 1]
    BY <2>2, PairsHashed
  <2>4. 1 .. k + 1 = (1 .. k) \cup {k + 1}
    OBVIOUS
  <2>5. (\A i \in 1 .. k + 1 : b[i] = c[i]) <=> (\A i \in 1 .. k : b[i] = c[i]) /\ b[k + 1] = c[k + 1]
    BY <2>4
  <2>6. QED
    BY <2>1, <2>3, <2>5
<1>3. n \in T
  <2> HIDE DEF T
  <2>1. T \in SUBSET Nat
    BY DEF T
  <2>2. QED
    BY <1>1, <1>2, <2>1, Induct
<1>4. QED
  BY <1>3

LEMMA RootWithoutBranch ==
    ASSUME NEW hash, NEW branch, Len(branch) = 0
    PROVE  apply_merkle_branch(hash, branch) = hash
<1>1. PICK f : Roots(f, hash, branch, 0) /\ apply_merkle_branch(hash, branch) = f[0]
  BY RootOfBranch
<1>2. QED
  BY <1>1 DEF Roots

LEMMA RootWithOneNeighbour ==
    ASSUME NEW hash, NEW branch, Len(branch) = 1
    PROVE  apply_merkle_branch(hash, branch) = double_sha256(<< hash, branch[1] >>)
<1>1. PICK f : Roots(f, hash, branch, 1) /\ apply_merkle_branch(hash, branch) = f[1]
  BY RootOfBranch
<1>2. 1 \in 1 .. 1 /\ 1 - 1 = 0
  OBVIOUS
<1>3. QED
  BY <1>1, <1>2 DEF Roots

\* Turning bytes round twice changes nothing.
LEMMA ReversedTwice ==
    ASSUME NEW s \in Seq(Nat)
    PROVE  Reverse(s) \in Seq(Nat) /\ Reverse(Reverse(s)) = s
<1>1. PICK n \in Nat : Len(s) = n /\ s \in [1 .. n -> Nat]
  BY LenProperties
<1>2. Reverse(s) = [i \in 1 .. n |-> s[(n - i) + 1]]
  BY <1>1 DEF Reverse
<1>3. \A i \in 1 .. n : (n - i) + 1 \in 1 .. n /\ (n - ((n - i) + 1)) + 1 = i
  OBVIOUS
<1> DEFINE r == Reverse(s)
<1>4. r \in [1 .. n -> Nat] /\ \A i \in 1 .. n : r[i] = s[(n - i) + 1]
  BY <1>1, <1>2, <1>3
<1> HIDE DEF r
<1>5. r \in Seq(Nat) /\ Len(r) = n
  BY <1>4
<1>6. Reverse(r) = [i \in 1 .. n |-> r[(n - i) + 1]]
  BY <1>5 DEF Reverse
<1>7. \A i \in 1 .. n : r[(n - i) + 1] = s[i]
  BY <1>3, <1>4
<1>8. s = [i \in 1 .. n |-> s[i]]
  BY <1>1
<1>9. Reverse(r) = s
  BY <1>6, <1>7, <1>8
<1>10. QED
  BY <1>5, <1>9 DEF r

\* The elements of the branch of a template are sequences of bytes.
LEMMA BranchOfBytes ==
    ASSUME NEW t \in Template
    PROVE  build_merkle_branch(t) \in Seq(Seq(Nat))
<1> DEFINE hash_of(tx) == IF tx.txid # None THEN tx.txid ELSE tx.hash
           txs == t.transactions
           N == Len(txs)
           next(before, i) == IF hash_of(txs[i]) # None /\ Len(hash_of(txs[i])) = HASH
                              THEN Append(before, Reverse(hash_of(txs[i]))) ELSE before
           Equation(f) == f = [i \in 0 .. N |-> IF i = 0 THEN << >> ELSE next(f[i - 1], i)]
           branch == CHOOSE f : Equation(f)
           S == Seq(Seq(Nat))
           step == [p \in (1 .. N) \X S |-> next(p[2], p[1])]
<1>1. build_merkle_branch(t) = branch[N]
  BY Zenon DEF build_merkle_branch
<1>2. N \in Nat /\ \A i \in 1 .. N : txs[i] \in Entry
  <2>1. txs \in Seq(Entry)
    BY DEF Template
  <2> HIDE DEF txs
  <2>2. QED
    BY <2>1, LenProperties, ElementOfSeq
<1>3. << >> \in S
  BY EmptySeq
<1>4. ASSUME NEW before \in S, NEW i \in 1 .. N PROVE next(before, i) \in S
  <2> DEFINE hash == hash_of(txs[i])
  <2>1. hash \in Seq(Nat) \cup {None}
    BY <1>2 DEF Entry
  <2> HIDE DEF hash
  <2>2. hash # None => Append(before, Reverse(hash)) \in S
    BY <2>1, ReversedTwice, AppendProperties
  <2> HIDE DEF S
  <2>3. QED
    BY <2>2 DEF hash
<1> HIDE DEF next, N, S, txs
<1>5. step \in [(1 .. N) \X S -> S]
  <2>1. \A p \in (1 .. N) \X S : p[2] \in S /\ p[1] \in 1 .. N
    OBVIOUS
  <2>2. QED
    BY <1>4, <2>1
<1>6. \A i \in 1 .. N, before \in S : step[<< i, before >>] = next(before, i)
  OBVIOUS
<1> HIDE DEF step
<1>7. PICK f : Recursive(f, N, S, << >>, step)
  BY <1>2, <1>3, <1>5, FiniteRecursion
<1>8. Equation(f)
  <2>1. f \in [0 .. N -> S] /\ f[0] = << >> /\ \A n \in 1 .. N : f[n] = step[<< n, f[n - 1] >>]
    BY <1>7 DEF Recursive
  <2>2. ASSUME NEW i \in 0 .. N PROVE f[i] = IF i = 0 THEN << >> ELSE next(f[i - 1], i)
    <3>1. i = 0 \/ (i # 0 /\ i \in 1 .. N /\ i - 1 \in 0 .. N)
      BY <1>2
    <3>2. i # 0 => f[i - 1] \in S
      BY <2>1, <3>1
    <3>3. QED
      BY <1>6, <2>1, <3>1, <3>2
  <2>3. f = [i \in 0 .. N |-> f[i]]
    BY <2>1
  <2>4. QED
    BY <2>2, <2>3
<1>9. Equation(branch)
  BY <1>8
<1> HIDE DEF branch
<1> DEFINE T == {n \in Nat : n =< N => branch[n] \in S}
<1>10. 0 \in T
  BY <1>2, <1>3, <1>9
<1>11. ASSUME NEW n \in T PROVE n + 1 \in T
  <2> SUFFICES ASSUME n + 1 =< N PROVE branch[n + 1] \in S
    OBVIOUS
  <2>1. n + 1 \in 1 .. N /\ n + 1 \in 0 .. N /\ n + 1 # 0 /\ (n + 1) - 1 = n /\ branch[n] \in S
    BY <1>2
  <2>2. branch[n + 1] = next(branch[n], n + 1)
    BY <1>9, <2>1
  <2>3. QED
    BY <1>4, <2>1, <2>2
<1>12. N \in T
  <2>1. T \in SUBSET Nat
    OBVIOUS
  <2> HIDE DEF T
  <2>2. QED
    BY <1>2, <1>10, <1>11, <2>1, Induct
<1>13. QED
  BY <1>1, <1>2, <1>12 DEF S

\* What an element is to a miner that turns it round, and to one that does not.
LEMMA Taken ==
    ASSUME NEW s \in Seq(Nat)
    PROVE  taken("reversed", hex_encode_reversed(s)) = s
           /\ taken("as sent", hex_encode_reversed(s)) = Reverse(s)
BY ReversedTwice DEF taken, hex_encode_reversed

\* A miner comes to the pool's root just if it takes each element for what
\* it is to the pool.
LEMMA RootsCompared ==
    ASSUME NEW coinbase_, NEW b, NEW sent, NEW reading,
           NEW n \in Nat, Len(b) = n, Len(sent) = n
    PROVE  mined_root(coinbase_, sent, reading) = apply_merkle_branch(double_sha256(coinbase_), b)
              <=> \A i \in 1 .. n : taken(reading, sent[i]) = b[i]
<1> DEFINE hash == double_sha256(coinbase_)
           c == [i \in 1 .. n |-> taken(reading, sent[i])]
<1>1. PICK g : Roots(g, hash, c, n) /\ mined_root(coinbase_, sent, reading) = g[n]
  BY MinedRootOfBranch
<1>2. PICK f : Roots(f, hash, b, n) /\ apply_merkle_branch(hash, b) = f[n]
  BY RootOfBranch
<1>3. \A i \in 1 .. n : c[i] = taken(reading, sent[i])
  OBVIOUS
<1> HIDE DEF hash, c
<1>4. g[n] = f[n] <=> \A i \in 1 .. n : c[i] = b[i]
  BY <1>1, <1>2, RootsAgree
<1>5. QED
  BY <1>1, <1>2, <1>3, <1>4 DEF hash

\* With everything else in order, the headers differ just by their roots.
LEMMA KeptGivesMinerHashesTheSameHeader == Kept => MinerHashesTheSameHeader
<1> DEFINE notify == build_mining_notify(job)
           b == job.merkle_branch
           mined(reading) == mined_header(notify, coinbase, reading, share.version_bits,
                                          share.version_rolling_mask, share.rolled)
<1> SUFFICES ASSUME Kept, trace # NoTrace
             PROVE  /\ trace.header = mined("reversed")
                    /\ trace.header = mined("as sent") <=>
                          \A i \in DOMAIN b : b[i] = Reverse(b[i])
  BY DEF MinerHashesTheSameHeader, coinbase
<1>1. verdict \in Judgement
  BY DEF Kept, Judged
<1>2. /\ job # NoJob /\ share \in Share /\ ~version_refused(share)
      /\ trace.header = build_block_header(job, share)
  BY <1>1, TraceOfJudged
<1>3. /\ template \in Template /\ job.nbits \in Compact /\ job.ntime \in 0 .. U32 - 1
      /\ job.prev_hash \in [1 .. HASH -> Nat]
  BY <1>2, JobOfTemplate, BitsAreCompact, HashOfTemplate
<1>4. /\ notify.version = job.version /\ notify.nbits = hex_of_nbits(job.nbits)
      /\ notify.prev_hash = hex_encode_prevhash_sv1(job.prev_hash)
      /\ notify.merkle_branch = [i \in DOMAIN b |-> hex_encode_reversed(b[i])]
  BY DEF build_mining_notify
<1>5. swap_words(notify.prev_hash) = job.prev_hash
  BY <1>3, <1>4, WordsSwappedTwice
<1>6. TheOnly(decode_bits(notify.nbits)) = job.nbits
  BY <1>3, <1>4, BitsRoundTrip, TheOnlyElement
<1>7. /\ share.rolled \in Nat
      /\ TheOnly(submitted_ntime(hex8(rolled_time(notify, share.rolled))))
           = rolled_time(notify, share.rolled)
  <2>1. share.rolled \in Nat
    BY <1>2 DEF Share
  <2>2. QED
    BY <1>3, <2>1, RolledTime
<1>8. resolved_version(job, share) =
        IF share.version_bits = None THEN notify.version
        ELSE (notify.version \ share.version_rolling_mask) \cup share.version_bits
  <2>1. share.version_bits # None => share.version_bits \subseteq share.version_rolling_mask
    BY <1>2 DEF version_refused
  <2>2. QED
    BY <1>4, <2>1 DEF resolved_version
<1>9. b \in Seq(Seq(Nat))
  <2>1. CASE pool.services.job_source.kind = "rpc"
    <3>1. job \in template_to_job(template, pool.services.job_source.payout)
      BY <1>2, <2>1, JobOfTemplate
    <3>2. b = build_merkle_branch(template)
      BY <3>1 DEF template_to_job
    <3>3. QED
      BY <1>3, <3>2, BranchOfBytes
  <2>2. CASE pool.services.job_source.kind # "rpc"
    <3>1. job \in api_template_to_job(template)
      BY <1>2, <2>2, JobOfTemplate
    <3>2. b = << >>
      BY <3>1 DEF api_template_to_job
    <3>3. QED
      BY <3>2, EmptySeq
  <2>3. QED
    BY <2>1, <2>2
<1> HIDE DEF notify, b
<1> DEFINE root == apply_merkle_branch(double_sha256(coinbase), b)
           mined_to(reading) == mined_root(coinbase, notify.merkle_branch, reading)
           sent == notify.merkle_branch
           n == Len(b)
<1>10. /\ n \in Nat /\ DOMAIN b = 1 .. n /\ Len(sent) = n
       /\ \A i \in 1 .. n : /\ taken("reversed", sent[i]) = b[i]
                            /\ taken("as sent", sent[i]) = Reverse(b[i])
  <2>1. DOMAIN b = 1 .. n /\ n \in Nat /\ \A i \in 1 .. n : b[i] \in Seq(Nat)
    BY <1>9, LenProperties, ElementOfSeq
  <2> HIDE DEF n, sent
  <2>2. Len(sent) = n /\ \A i \in 1 .. n : sent[i] = hex_encode_reversed(b[i])
    BY <1>4, <2>1 DEF sent
  <2>3. QED
    BY <2>1, <2>2, Taken
<1>11. ASSUME NEW reading
       PROVE  mined_to(reading) = root <=> \A i \in 1 .. n : taken(reading, sent[i]) = b[i]
  <2>1. n \in Nat /\ Len(b) = n /\ Len(sent) = n
    BY <1>10
  <2> HIDE DEF n, sent
  <2>2. mined_root(coinbase, sent, reading) = apply_merkle_branch(double_sha256(coinbase), b)
           <=> \A i \in 1 .. n : taken(reading, sent[i]) = b[i]
    BY <2>1, RootsCompared
  <2>3. QED
    BY <2>2 DEF sent
<1> HIDE DEF n, root, mined_to
<1>12. /\ mined_to("reversed") = root
       /\ mined_to("as sent") = root <=> \A i \in DOMAIN b : b[i] = Reverse(b[i])
  BY <1>10, <1>11
<1>13. trace.header =
         [version |-> resolved_version(job, share), prev_hash |-> job.prev_hash,
          merkle_root |-> root,
          ntime |-> TheOnly(submitted_ntime(hex8(rolled_time(notify, share.rolled)))),
          nbits |-> job.nbits]
  BY <1>2 DEF build_block_header, coinbase, notify, b, root
<1>14. ASSUME NEW reading
       PROVE  mined(reading) =
         [version |-> IF share.version_bits = None THEN notify.version
                      ELSE (notify.version \ share.version_rolling_mask) \cup share.version_bits,
          prev_hash |-> swap_words(notify.prev_hash),
          merkle_root |-> mined_to(reading),
          ntime |-> rolled_time(notify, share.rolled),
          nbits |-> TheOnly(decode_bits(notify.nbits))]
  BY DEF mined_header, mined_to
<1> HIDE DEF mined
<1>15. ASSUME NEW reading PROVE trace.header = mined(reading) <=> mined_to(reading) = root
  BY <1>5, <1>6, <1>7, <1>8, <1>13, <1>14
<1>16. QED
  BY <1>12, <1>15 DEF mined

-----------------------------------------------------------------------------
(***************************************************************************)
(* Numbers of a script: bytes, the least significant first, and a sign.    *)
(***************************************************************************)
\* The digits d of value, least significant first: r[i] is what is left after i of them.
DigitsOf(value, d, r) ==
    /\ d \in Seq(0 .. BYTE - 1) /\ r \in [0 .. Len(d) -> Nat]
    /\ r[0] = value /\ r[Len(d)] = 0
    /\ \A i \in 1 .. Len(d) : r[i - 1] = r[i] * BYTE + d[i]

LEMMA LessThanBefore ==
    ASSUME NEW m \in Nat \ {0}
    PROVE  m \div BYTE \in Nat /\ m \div BYTE < m
<1>1. BYTE \in Nat \ {0, 1}
  BY BytePowers
<1> DEFINE e == BYTE - 2
<1>2. e \in Nat /\ BYTE = 2 + e
  BY <1>1
<1>3. m * BYTE = m + m + m * e
  BY <1>2
<1>4. m * e \in Nat /\ m * BYTE \in Nat
  BY <1>1, <1>2, NatTimes
<1> HIDE DEF e
<1>5. m < m * BYTE
  BY <1>3, <1>4
<1>6. QED
  BY <1>1, <1>5, Divided, QuotientBelow

\* The bytes of a number, the least significant first, are its digits.
LEMMA LittleEndian ==
    ASSUME NEW value \in Nat
    PROVE  \E r : DigitsOf(value, le_bytes(value), r)
<1> DEFINE Equation(f) == f = [i \in 0 .. value |-> IF i = 0 THEN value ELSE f[i - 1] \div BYTE]
           step == [p \in (1 .. value) \X Nat |-> p[2] \div BYTE]
           remaining == CHOOSE f : Equation(f)
           Ends(n) == remaining[n] = 0 /\ \A k \in 0 .. n - 1 : remaining[k] # 0
           len == CHOOSE n \in 0 .. value : Ends(n)
<1>0. BYTE \in Nat \ {0, 1}
  BY BytePowers
<1>1. \E f : Equation(f)
  <2>1. \A m \in Nat : m \div BYTE \in Nat
    BY <1>0, Divided
  <2>2. /\ step \in [(1 .. value) \X Nat -> Nat]
        /\ \A i \in 1 .. value, m \in Nat : step[<< i, m >>] = m \div BYTE
    BY <2>1
  <2> HIDE DEF step
  <2>3. PICK f : Recursive(f, value, Nat, value, step)
    BY <2>2, FiniteRecursion, Zenon
  <2>4. ASSUME NEW i \in 1 .. value PROVE f[i] = f[i - 1] \div BYTE
    <3>1. f[i - 1] \in Nat /\ f[i] = step[<< i, f[i - 1] >>]
      BY <2>3 DEF Recursive
    <3>2. QED
      BY <2>2, <3>1
  <2>5. Equation(f)
    BY <2>3, <2>4 DEF Recursive
  <2>6. QED
    BY <2>5
<1>2. Equation(remaining)
  BY <1>1
<1>3. le_bytes(value) = [i \in 1 .. len |-> remaining[i - 1] % BYTE]
  BY DEF le_bytes
<1> HIDE DEF remaining
<1>4. remaining[0] = value /\ \A i \in 1 .. value : remaining[i] = remaining[i - 1] \div BYTE
  <2>1. remaining = [i \in 0 .. value |-> IF i = 0 THEN value ELSE remaining[i - 1] \div BYTE]
    BY <1>2
  <2>2. ASSUME NEW i \in 1 .. value PROVE remaining[i] = remaining[i - 1] \div BYTE
    <3>1. i \in 0 .. value /\ i # 0
      OBVIOUS
    <3>2. QED
      BY <2>1, <3>1
  <2>3. remaining[0] = value
    BY <2>1
  <2>4. QED
    BY <2>2, <2>3
<1> HIDE DEF Equation
<1> DEFINE Falling == {i \in Nat : i =< value => remaining[i] \in Nat /\ remaining[i] =< value - i}
<1>5. Falling = Nat
  <2>1. 0 \in Falling
    BY <1>4
  <2>2. ASSUME NEW i \in Falling PROVE i + 1 \in Falling
    <3> SUFFICES ASSUME i + 1 =< value
                 PROVE  remaining[i + 1] \in Nat /\ remaining[i + 1] =< value - (i + 1)
      OBVIOUS
    <3>1. i + 1 \in 1 .. value /\ (i + 1) - 1 = i /\ remaining[i] \in Nat /\ remaining[i] =< value - i
      OBVIOUS
    <3>2. remaining[i + 1] = remaining[i] \div BYTE
      BY <1>4, <3>1
    <3> HIDE DEF Falling
    <3>3. CASE remaining[i] = 0
      <4>1. 0 \div BYTE = 0
        BY <1>0
      <4>2. QED
        BY <3>1, <3>2, <3>3, <4>1
    <3>4. CASE remaining[i] # 0
      BY <3>1, <3>2, <3>4, LessThanBefore
    <3>5. QED
      BY <3>3, <3>4
  <2>3. Falling \in SUBSET Nat
    OBVIOUS
  <2> HIDE DEF Falling
  <2>4. QED
    BY <2>1, <2>2, <2>3, Induct
<1>6. \A i \in 0 .. value : remaining[i] \in Nat /\ remaining[i] =< value - i
  BY <1>5
<1> HIDE DEF Falling
<1> DEFINE Zeros == {n \in 0 .. value : remaining[n] = 0}
<1>7. PICK m \in Zeros : \A k \in Zeros : m =< k
  <2>1. remaining[value] = 0
    BY <1>6
  <2>2. Zeros \in SUBSET Nat /\ Zeros # {}
    BY <2>1
  <2> HIDE DEF Zeros
  <2>3. QED
    BY <2>2, Least
<1>8. len \in 0 .. value /\ Ends(len)
  <2>1. m \in 0 .. value /\ Ends(m)
    BY <1>7
  <2>2. QED
    BY <2>1
<1> HIDE DEF len
<1> DEFINE d == le_bytes(value)  r == [i \in 0 .. len |-> remaining[i]]
<1>9. /\ Len(d) = len /\ \A i \in 1 .. len : d[i] = remaining[i - 1] % BYTE
  BY <1>3, <1>8
<1>10. d \in Seq(0 .. BYTE - 1)
  <2>1. ASSUME NEW i \in 1 .. len PROVE remaining[i - 1] % BYTE \in 0 .. BYTE - 1
    <3>1. remaining[i - 1] \in Nat
      BY <1>6, <1>8
    <3>2. QED
      BY <1>0, <3>1, Divided
  <2>2. QED
    BY <1>3, <1>8, <2>1
<1> HIDE DEF d
<1>11. r \in [0 .. len -> Nat] /\ r[0] = value /\ r[len] = 0
  BY <1>4, <1>6, <1>8
<1>12. ASSUME NEW i \in 1 .. len PROVE r[i - 1] = r[i] * BYTE + d[i]
  <2>1. i - 1 \in 0 .. len /\ i \in 0 .. len /\ i \in 1 .. value /\ i - 1 \in 0 .. value
    BY <1>8
  <2>2. r[i] = remaining[i - 1] \div BYTE /\ r[i - 1] = remaining[i - 1]
    BY <1>4, <2>1
  <2>3. remaining[i - 1] \in Nat
    BY <1>6, <2>1
  <2> HIDE DEF r
  <2>4. QED
    BY <1>0, <1>9, <2>2, <2>3, Divided
<1> HIDE DEF r
<1>13. QED
  BY <1>9, <1>10, <1>11, <1>12 DEF DigitsOf, d

\* As a number of a script, it has the same digits and no sign.
LEMMA ScriptNumber ==
    ASSUME NEW value \in Nat
    PROVE  /\ \E r : DigitsOf(value, encode_script_num(value), r)
           /\ \A n \in {Len(encode_script_num(value))} :
                 n # 0 => encode_script_num(value)[n] < BYTE \div 2
<1> DEFINE d == le_bytes(value)  enc == encode_script_num(value)
<1>0. BYTE \in Nat \ {0, 1} /\ BYTE \div 2 \in Nat \ {0}
  BY BytePowers
<1>1. PICK r : DigitsOf(value, d, r)
  BY LittleEndian
<1>2. enc = IF d # << >> /\ d[Len(d)] >= BYTE \div 2 THEN Append(d, 0) ELSE d
  BY DEF encode_script_num
<1> HIDE DEF d, enc
<1>3. d \in Seq(0 .. BYTE - 1) /\ Len(d) \in Nat
  BY <1>1, LenProperties DEF DigitsOf
<1>4. CASE d # << >> /\ d[Len(d)] >= BYTE \div 2
  <2> DEFINE n == Len(d) + 1  s == [i \in 0 .. n |-> IF i = n THEN 0 ELSE r[i]]
  <2>1. 0 \in 0 .. BYTE - 1
    BY <1>0
  <2>2. /\ enc \in Seq(0 .. BYTE - 1) /\ Len(enc) = n /\ enc[n] = 0
        /\ \A i \in 1 .. Len(d) : enc[i] = d[i]
    BY <1>2, <1>3, <1>4, <2>1, AppendProperties
  <2>3. s \in [0 .. n -> Nat] /\ s[0] = value /\ s[n] = 0
    BY <1>1, <1>3 DEF DigitsOf
  <2>4. ASSUME NEW i \in 1 .. n PROVE s[i - 1] = s[i] * BYTE + enc[i]
    <3>1. CASE i = n
      <4>1. i - 1 = Len(d) /\ i - 1 \in 0 .. n /\ i - 1 # n
        BY <1>3, <3>1
      <4>2. s[i - 1] = 0 /\ s[i] = 0 /\ enc[i] = 0
        BY <1>1, <2>2, <2>3, <3>1, <4>1 DEF DigitsOf
      <4> HIDE DEF s, n
      <4>3. QED
        BY <1>0, <4>2
    <3>2. CASE i # n
      <4>1. i \in 1 .. Len(d) /\ i \in 0 .. n /\ i - 1 \in 0 .. n /\ i - 1 # n
        BY <1>3, <3>2
      <4>2. s[i] = r[i] /\ s[i - 1] = r[i - 1] /\ enc[i] = d[i]
        BY <2>2, <3>2, <4>1
      <4> HIDE DEF s, n
      <4>3. QED
        BY <1>1, <4>1, <4>2 DEF DigitsOf
    <3>3. QED
      BY <3>1, <3>2
  <2>5. DigitsOf(value, enc, s)
    <3> HIDE DEF s
    <3>1. QED
      BY <2>2, <2>3, <2>4 DEF DigitsOf
  <2>6. QED
    BY <1>0, <2>2, <2>5 DEF enc
<1>5. CASE ~(d # << >> /\ d[Len(d)] >= BYTE \div 2)
  <2>1. enc = d
    BY <1>2, <1>5
  <2>2. ASSUME Len(d) # 0 PROVE d[Len(d)] < BYTE \div 2
    <3>1. d # << >>
      BY <2>2, EmptySeq, Zenon
    <3>2. d[Len(d)] \in Nat
      <4>1. Len(d) \in 1 .. Len(d)
        BY <1>3, <2>2
      <4>2. d[Len(d)] \in 0 .. BYTE - 1
        BY <1>3, <4>1, ElementOfSeq
      <4>3. QED
        BY <4>2
    <3>3. QED
      BY <1>0, <1>5, <3>1, <3>2
  <2>3. QED
    BY <1>1, <2>1, <2>2 DEF enc
<1>6. QED
  BY <1>4, <1>5

\* A coinbase that begins with three items, the third of the length of the
\* digits that follow it, is read by a daemon as the height they stand for.
LEMMA ReadBack ==
    ASSUME NEW I, NEW bytes \in Seq(I), NEW height \in Nat,
           NEW enc, enc = encode_script_num(height),
           bytes[3].n = Len(enc), Len(enc) + 3 =< Len(bytes),
           \A i \in 1 .. Len(enc) : bytes[3 + i].n = enc[i]
    PROVE  HeightRead(bytes) = height
<1> DEFINE L == Len(enc)
           digits == SubSeq(bytes, 4, 3 + bytes[3].n)
           Equation(f) == f = [i \in 0 .. Len(digits) |->
                                 IF i = 0 THEN 0
                                 ELSE f[i - 1] * BYTE + digits[Len(digits) + 1 - i].n]
           read == CHOOSE f : Equation(f)
<1>0. BYTE \in Nat \ {0, 1}
  BY BytePowers
<1>1. PICK r : DigitsOf(height, enc, r)
  BY ScriptNumber
<1>2. L # 0 => enc[L] < BYTE \div 2
  BY ScriptNumber
<1>3. /\ L \in Nat /\ enc \in Seq(0 .. BYTE - 1) /\ r \in [0 .. L -> Nat] /\ r[0] = height /\ r[L] = 0
      /\ \A i \in 1 .. L : r[i - 1] = r[i] * BYTE + enc[i]
  BY <1>1, LenProperties DEF DigitsOf
<1>14. ASSUME NEW i \in 1 .. L PROVE enc[i] \in Nat
  <2>1. enc[i] \in 0 .. BYTE - 1
    BY <1>3, ElementOfSeq
  <2>2. QED
    BY <1>0, <2>1
<1>4. /\ Len(digits) = L /\ digits \in Seq(I)
      /\ \A i \in 1 .. L : digits[i].n = enc[i]
  <2>1. Len(bytes) \in Nat /\ \A i \in 1 .. Len(bytes) : bytes[i] \in I
    BY LenProperties, ElementOfSeq
  <2>2. \A i \in 4 .. 3 + L : bytes[i] \in I
    BY <1>3, <2>1
  <2>3. /\ SubSeq(bytes, 4, 3 + L) \in Seq(I)
        /\ Len(SubSeq(bytes, 4, 3 + L)) = IF 4 =< 3 + L THEN (3 + L) - 4 + 1 ELSE 0
        /\ \A i \in 1 .. (3 + L) - 4 + 1 : SubSeq(bytes, 4, 3 + L)[i] = bytes[4 + i - 1]
    <3>1. 4 \in Int /\ 3 + L \in Int
      BY <1>3
    <3>2. QED
      BY <2>2, <3>1, SubSeqProperties
  <2>4. digits = SubSeq(bytes, 4, 3 + L)
    OBVIOUS
  <2> HIDE DEF digits, L
  <2>5. Len(digits) = L /\ digits \in Seq(I)
    BY <1>3, <2>3, <2>4
  <2>6. ASSUME NEW i \in 1 .. L PROVE digits[i].n = enc[i]
    <3>1. i \in 1 .. (3 + L) - 4 + 1 /\ 4 + i - 1 = 3 + i
      BY <1>3
    <3>2. digits[i] = bytes[3 + i]
      BY <2>3, <2>4, <3>1
    <3>3. QED
      BY <3>2 DEF L
  <2>7. QED
    BY <2>5, <2>6
<1>5. HeightRead(bytes) = IF digits = << >> THEN 0
                          ELSE IF digits[Len(digits)].n >= BYTE \div 2 THEN None
                          ELSE read[Len(digits)]
  BY DEF HeightRead
<1> HIDE DEF digits
<1>6. \E f : Equation(f)
  <2> DEFINE step == [p \in (1 .. L) \X Nat |-> p[2] * BYTE + enc[L + 1 - p[1]]]
  <2>1. \A i \in 1 .. L, m \in Nat : m * BYTE + enc[L + 1 - i] \in Nat
    <3>1. \A i \in 1 .. L : L + 1 - i \in 1 .. L
      BY <1>3
    <3> HIDE DEF L
    <3>2. ASSUME NEW i \in 1 .. L, NEW m \in Nat PROVE m * BYTE + enc[L + 1 - i] \in Nat
      <4>1. m * BYTE \in Nat /\ enc[L + 1 - i] \in Nat
        BY <1>0, <1>14, <3>1, NatTimes
      <4>2. QED
        BY <4>1
    <3>3. QED
      BY <3>2
  <2>2. /\ step \in [(1 .. L) \X Nat -> Nat]
        /\ \A i \in 1 .. L, m \in Nat : step[<< i, m >>] = m * BYTE + enc[L + 1 - i]
    <3> HIDE DEF L
    <3>1. QED
      BY <2>1
  <2> HIDE DEF step
  <2>3. PICK f : Recursive(f, L, Nat, 0, step)
    BY <1>3, <2>2, FiniteRecursion, Zenon
  <2> HIDE DEF L
  <2>4. ASSUME NEW i \in 1 .. L PROVE f[i] = f[i - 1] * BYTE + digits[L + 1 - i].n
    <3>1. f[i - 1] \in Nat /\ f[i] = step[<< i, f[i - 1] >>]
      BY <1>3, <2>3 DEF Recursive
    <3>2. L + 1 - i \in 1 .. L
      BY <1>3
    <3>3. QED
      BY <1>4, <2>2, <3>1, <3>2
  <2>5. Equation(f)
    BY <1>3, <1>4, <2>3, <2>4 DEF Recursive
  <2>6. QED
    BY <2>5
<1>7. Equation(read)
  BY <1>6
<1> HIDE DEF read, L
<1>8. read[0] = 0 /\ \A i \in 1 .. L : read[i] = read[i - 1] * BYTE + enc[L + 1 - i]
  <2>1. read = [i \in 0 .. L |-> IF i = 0 THEN 0 ELSE read[i - 1] * BYTE + digits[L + 1 - i].n]
    BY <1>4, <1>7
  <2>2. read[0] = 0
    BY <1>3, <2>1
  <2>3. ASSUME NEW i \in 1 .. L PROVE read[i] = read[i - 1] * BYTE + enc[L + 1 - i]
    <3>1. i \in 0 .. L /\ i # 0 /\ L + 1 - i \in 1 .. L
      BY <1>3
    <3>2. QED
      BY <1>4, <2>1, <3>1
  <2>4. QED
    BY <2>2, <2>3
<1> DEFINE Undone == {i \in Nat : i =< L => read[i] = r[L - i]}
<1>9. Undone = Nat
  <2>1. 0 \in Undone
    BY <1>3, <1>8
  <2>2. ASSUME NEW i \in Undone PROVE i + 1 \in Undone
    <3> SUFFICES ASSUME i + 1 =< L PROVE read[i + 1] = r[L - (i + 1)]
      OBVIOUS
    <3>1. /\ i + 1 \in 1 .. L /\ (i + 1) - 1 = i /\ L + 1 - (i + 1) = L - i /\ L - i \in 1 .. L
          /\ (L - i) - 1 = L - (i + 1) /\ read[i] = r[L - i]
      BY <1>3
    <3>2. read[i + 1] = read[i] * BYTE + enc[L - i]
      BY <1>8, <3>1
    <3>3. r[L - (i + 1)] = r[L - i] * BYTE + enc[L - i]
      BY <1>3, <3>1
    <3> HIDE DEF Undone
    <3>4. QED
      BY <3>1, <3>2, <3>3
  <2>3. Undone \in SUBSET Nat
    OBVIOUS
  <2> HIDE DEF Undone
  <2>4. QED
    BY <2>1, <2>2, <2>3, Induct
<1>10. read[L] = height
  <2>1. L \in Undone /\ L - L = 0
    BY <1>3, <1>9
  <2>2. QED
    BY <1>3, <2>1
<1>11. CASE L = 0
  <2>1. digits = << >>
    BY <1>4, <1>11, EmptySeq
  <2>2. height = 0
    BY <1>3, <1>11
  <2>3. QED
    BY <1>5, <2>1, <2>2
<1>12. CASE L # 0
  <2>1. digits # << >>
    BY <1>4, <1>12, EmptySeq, Zenon
  <2>2. L \in 1 .. L
    BY <1>3, <1>12
  <2>3. digits[Len(digits)].n = enc[L]
    BY <1>4, <2>2
  <2>4. enc[L] \in Nat
    BY <1>14, <2>2
  <2>5. ~(enc[L] >= BYTE \div 2)
    <3>1. BYTE \div 2 \in Nat
      BY <1>0
    <3>2. QED
      BY <1>2, <1>12, <2>4, <3>1
  <2>6. QED
    BY <1>4, <1>5, <1>10, <2>1, <2>3, <2>5
<1>13. QED
  BY <1>11, <1>12

-----------------------------------------------------------------------------
(***************************************************************************)
(* The coinbase, item by item.                                             *)
(***************************************************************************)
Kinds == {"version", "script", "push", "height", "flags", "placeholder", "extranonce1",
          "extra_nonce2", "sequence", "payout", "commitment"}

CoinbaseItem == [kind : Kinds, n : Nat]

LEMMA OneItem ==
    ASSUME NEW kind \in Kinds, NEW n \in Nat
    PROVE  /\ Item(kind, n) \in Seq(CoinbaseItem) /\ Len(Item(kind, n)) = 1
           /\ Item(kind, n)[1] = [kind |-> kind, n |-> n]
BY DEF Item, CoinbaseItem

LEMMA SomeItems ==
    ASSUME NEW kind \in Kinds, NEW n \in Nat
    PROVE  /\ Items(kind, n) \in Seq(CoinbaseItem) /\ Len(Items(kind, n)) = n
           /\ \A i \in 1 .. n : Items(kind, n)[i] = [kind |-> kind, n |-> 0]
BY DEF Items, CoinbaseItem

\* u is s and t, one after the other.
JoinedFrom(s, t, u) ==
    /\ u \in Seq(CoinbaseItem) /\ Len(u) = Len(s) + Len(t)
    /\ Len(s) \in Nat /\ Len(t) \in Nat
    /\ \A i \in 1 .. Len(s) : u[i] = s[i]
    /\ \A i \in 1 .. Len(t) : u[Len(s) + i] = t[i]

LEMMA Joined ==
    ASSUME NEW s \in Seq(CoinbaseItem), NEW t \in Seq(CoinbaseItem)
    PROVE  JoinedFrom(s, t, s \o t)
<1>1. Len(s) \in Nat /\ Len(t) \in Nat
  BY LenProperties
<1>2. /\ s \o t \in Seq(CoinbaseItem) /\ Len(s \o t) = Len(s) + Len(t)
      /\ \A i \in 1 .. Len(s) + Len(t) : (s \o t)[i] =
                     IF i <= Len(s) THEN s[i] ELSE t[i - Len(s)]
  BY ConcatProperties
<1>3. \A i \in 1 .. Len(s) : i \in 1 .. Len(s) + Len(t) /\ i =< Len(s)
  BY <1>1
<1>4. \A i \in 1 .. Len(t) : /\ Len(s) + i \in 1 .. Len(s) + Len(t) /\ ~(Len(s) + i =< Len(s))
                             /\ (Len(s) + i) - Len(s) = i
  BY <1>1
<1>5. \A i \in 1 .. Len(s) : (s \o t)[i] = s[i]
  BY <1>2, <1>3
<1>6. ASSUME NEW i \in 1 .. Len(t) PROVE (s \o t)[Len(s) + i] = t[i]
  BY <1>2, <1>4
<1>7. QED
  BY <1>1, <1>2, <1>5, <1>6 DEF JoinedFrom

\* What is pushed has its length in front.
LEMMA Pushed ==
    ASSUME NEW data \in Seq(CoinbaseItem)
    PROVE  /\ push_data(data) \in Seq(CoinbaseItem) /\ Len(push_data(data)) = Len(data) + 1
           /\ Len(data) \in Nat
           /\ push_data(data)[1] = [kind |-> "push", n |-> Len(data)]
           /\ \A i \in 1 .. Len(data) : push_data(data)[1 + i] = data[i]
<1>1. Len(data) \in Nat
  BY LenProperties
<1> DEFINE head == Item("push", Len(data))
<1>2. /\ head \in Seq(CoinbaseItem) /\ Len(head) = 1
      /\ head[1] = [kind |-> "push", n |-> Len(data)]
  BY <1>1, OneItem DEF Kinds
<1> HIDE DEF head
<1>3. /\ head \o data \in Seq(CoinbaseItem) /\ Len(head \o data) = 1 + Len(data)
      /\ \A i \in 1 .. 1 : (head \o data)[i] = head[i]
      /\ \A i \in 1 .. Len(data) : (head \o data)[1 + i] = data[i]
  <2>1. JoinedFrom(head, data, head \o data)
    BY <1>2, Joined
  <2>2. QED
    BY <1>2, <2>1 DEF JoinedFrom
<1>4. push_data(data) = head \o data
  BY DEF push_data, head
<1>5. QED
  BY <1>1, <1>2, <1>3, <1>4

\* The script of the coinbase: the height and, behind the flags, the places of
\* the extranonces.
ScriptLayout(script, height, flags) ==
    LET enc == encode_script_num(height)
        L == Len(enc)
    IN  /\ L \in Nat /\ script \in Seq(CoinbaseItem) /\ Len(script) = L + flags + 4
        /\ script[1] = [kind |-> "push", n |-> L]
        /\ \A i \in 1 .. L : script[1 + i] = [kind |-> "height", n |-> enc[i]]
        /\ \A i \in 1 .. L + flags + 2 : script[i].kind # "placeholder"
        /\ script[L + flags + 3] = [kind |-> "placeholder", n |-> 0]
        /\ script[L + flags + 4] = [kind |-> "placeholder", n |-> 0]

LEMMA ScriptLaidOut ==
    ASSUME NEW height \in Nat, NEW flags \in 0 .. 1
    PROVE  ScriptLayout(script_sig(height, Items("flags", flags) \o PLACEHOLDER), height, flags)
<1> DEFINE enc == encode_script_num(height)
           L == Len(enc)
           hseq == [i \in DOMAIN enc |-> [kind |-> "height", n |-> enc[i]]]
           fseq == Items("flags", flags) \o PLACEHOLDER
           p1 == push_data(hseq)
           p2 == push_data(fseq)
           script == script_sig(height, fseq)
<1>0. flags \in Nat
  OBVIOUS
<1>1. L \in Nat /\ enc \in Seq(0 .. BYTE - 1) /\ DOMAIN enc = 1 .. L
  <2>1. enc \in Seq(0 .. BYTE - 1)
    BY ScriptNumber DEF DigitsOf
  <2> HIDE DEF enc
  <2>2. QED
    BY <2>1, LenProperties
<1> HIDE DEF enc
<1>2. /\ hseq \in Seq(CoinbaseItem) /\ Len(hseq) = L
      /\ \A i \in 1 .. L : hseq[i] = [kind |-> "height", n |-> enc[i]]
  <2>1. ASSUME NEW i \in 1 .. L PROVE [kind |-> "height", n |-> enc[i]] \in CoinbaseItem
    <3>1. enc[i] \in 0 .. BYTE - 1
      BY <1>1, ElementOfSeq
    <3>2. enc[i] \in Nat
      BY <3>1, BytePowers
    <3>3. QED
      BY <3>2 DEF CoinbaseItem, Kinds
  <2>2. hseq = [i \in 1 .. L |-> [kind |-> "height", n |-> enc[i]]]
    BY <1>1
  <2> HIDE DEF hseq, L
  <2>3. QED
    BY <1>1, <2>1, <2>2
<1> HIDE DEF L
<1>3. /\ fseq \in Seq(CoinbaseItem) /\ Len(fseq) = flags + 2
      /\ \A i \in 1 .. flags : fseq[i].kind = "flags"
      /\ fseq[flags + 1] = [kind |-> "placeholder", n |-> 0]
      /\ fseq[flags + 2] = [kind |-> "placeholder", n |-> 0]
  <2> DEFINE f == Items("flags", flags)
  <2>1. /\ f \in Seq(CoinbaseItem) /\ Len(f) = flags
        /\ \A i \in 1 .. flags : f[i] = [kind |-> "flags", n |-> 0]
    BY <1>0, SomeItems DEF Kinds
  <2>2. /\ PLACEHOLDER \in Seq(CoinbaseItem) /\ Len(PLACEHOLDER) = 2
        /\ PLACEHOLDER[1] = [kind |-> "placeholder", n |-> 0]
        /\ PLACEHOLDER[2] = [kind |-> "placeholder", n |-> 0]
    <3>1. "placeholder" \in Kinds /\ 2 \in Nat /\ 1 \in 1 .. 2 /\ 2 \in 1 .. 2
      BY DEF Kinds
    <3>2. /\ PLACEHOLDER \in Seq(CoinbaseItem) /\ Len(PLACEHOLDER) = 2
          /\ \A i \in 1 .. 2 : PLACEHOLDER[i] = [kind |-> "placeholder", n |-> 0]
      BY <3>1, SomeItems DEF PLACEHOLDER
    <3>3. QED
      BY <3>1, <3>2
  <2> HIDE DEF f
  <2>3. /\ f \o PLACEHOLDER \in Seq(CoinbaseItem) /\ Len(f \o PLACEHOLDER) = flags + 2
        /\ \A i \in 1 .. flags : (f \o PLACEHOLDER)[i] = f[i]
        /\ \A i \in 1 .. 2 : (f \o PLACEHOLDER)[flags + i] = PLACEHOLDER[i]
    <3>1. JoinedFrom(f, PLACEHOLDER, f \o PLACEHOLDER)
      BY <2>1, <2>2, Joined
    <3>2. QED
      BY <2>1, <2>2, <3>1 DEF JoinedFrom
  <2> DEFINE joined == f \o PLACEHOLDER
  <2>4. fseq = joined
    BY DEF f
  <2> HIDE DEF joined, fseq
  <2>5. \A i \in 1 .. flags : joined[i].kind = "flags"
    BY <2>1, <2>3 DEF joined
  <2>6. joined[flags + 1] = PLACEHOLDER[1] /\ joined[flags + 2] = PLACEHOLDER[2]
    BY <2>3 DEF joined
  <2>7. QED
    BY <2>2, <2>3, <2>4, <2>5, <2>6 DEF joined
<1> HIDE DEF hseq, fseq
<1>4. /\ p1 \in Seq(CoinbaseItem) /\ Len(p1) = L + 1
      /\ p1[1] = [kind |-> "push", n |-> L]
      /\ \A i \in 1 .. L : p1[1 + i] = hseq[i]
  BY <1>2, Pushed
<1>5. /\ p2 \in Seq(CoinbaseItem) /\ Len(p2) = flags + 3
      /\ p2[1] = [kind |-> "push", n |-> flags + 2]
      /\ \A i \in 1 .. flags + 2 : p2[1 + i] = fseq[i]
  <2>1. /\ p2 \in Seq(CoinbaseItem) /\ Len(p2) = (flags + 2) + 1
        /\ p2[1] = [kind |-> "push", n |-> flags + 2]
        /\ \A i \in 1 .. flags + 2 : p2[1 + i] = fseq[i]
    BY <1>3, Pushed
  <2>2. QED
    BY <1>0, <2>1
<1>6. script = p1 \o p2
  BY DEF script_sig, enc, hseq
<1> HIDE DEF p1, p2, script
<1>7. /\ script \in Seq(CoinbaseItem) /\ Len(script) = (L + 1) + (flags + 3)
      /\ \A i \in 1 .. L + 1 : script[i] = p1[i]
      /\ \A i \in 1 .. flags + 3 : script[(L + 1) + i] = p2[i]
  <2>1. JoinedFrom(p1, p2, script)
    BY <1>4, <1>5, <1>6, Joined
  <2>2. QED
    BY <1>4, <1>5, <2>1 DEF JoinedFrom
<1>8. Len(script) = L + flags + 4
  BY <1>0, <1>1, <1>7
<1>9. script[1] = [kind |-> "push", n |-> L]
  <2>1. 1 \in 1 .. L + 1
    BY <1>1
  <2>2. QED
    BY <1>4, <1>7, <2>1
<1>10. ASSUME NEW i \in 1 .. L PROVE script[1 + i] = [kind |-> "height", n |-> enc[i]]
  <2>1. 1 + i \in 1 .. L + 1
    BY <1>1
  <2>2. QED
    BY <1>2, <1>4, <1>7, <2>1
<1>11. ASSUME NEW i \in 1 .. flags + 2 PROVE script[L + 2 + i] = fseq[i]
  <2>1. 1 + i \in 1 .. flags + 3 /\ (L + 1) + (1 + i) = L + 2 + i
    BY <1>0, <1>1
  <2>2. script[(L + 1) + (1 + i)] = p2[1 + i]
    BY <1>7, <2>1
  <2>3. QED
    BY <1>5, <2>1, <2>2
<1>12. script[L + 2].kind = "push"
  <2>1. 1 \in 1 .. flags + 3 /\ (L + 1) + 1 = L + 2
    BY <1>0, <1>1
  <2>2. script[(L + 1) + 1] = p2[1]
    BY <1>7, <2>1
  <2>3. QED
    BY <1>5, <2>1, <2>2
<1>13. ASSUME NEW i \in 1 .. L + flags + 2 PROVE script[i].kind # "placeholder"
  <2>1. CASE i = 1
    BY <1>9, <2>1
  <2>2. CASE i \in 2 .. L + 1
    <3>1. i - 1 \in 1 .. L /\ 1 + (i - 1) = i
      BY <1>1, <2>2
    <3>2. script[i] = [kind |-> "height", n |-> enc[i - 1]]
      BY <1>10, <3>1
    <3>3. QED
      BY <3>2
  <2>3. CASE i = L + 2
    BY <1>12, <2>3
  <2>4. CASE i \in L + 3 .. L + flags + 2
    <3>1. i - (L + 2) \in 1 .. flags /\ i - (L + 2) \in 1 .. flags + 2 /\ L + 2 + (i - (L + 2)) = i
      BY <1>0, <1>1, <2>4
    <3>2. script[i] = fseq[i - (L + 2)]
      BY <1>11, <3>1
    <3>3. QED
      BY <1>3, <3>1, <3>2
  <2>5. QED
    BY <1>0, <1>1, <2>1, <2>2, <2>3, <2>4
<1>14. /\ script[L + flags + 3] = [kind |-> "placeholder", n |-> 0]
       /\ script[L + flags + 4] = [kind |-> "placeholder", n |-> 0]
  <2>1. /\ flags + 1 \in 1 .. flags + 2 /\ L + 2 + (flags + 1) = L + flags + 3
        /\ flags + 2 \in 1 .. flags + 2 /\ L + 2 + (flags + 2) = L + flags + 4
    BY <1>0, <1>1
  <2>2. script[L + 2 + (flags + 1)] = fseq[flags + 1] /\ script[L + 2 + (flags + 2)] = fseq[flags + 2]
    BY <1>11, <2>1
  <2>3. QED
    BY <1>3, <2>1, <2>2
<1>15. QED
  BY <1>1, <1>7, <1>8, <1>9, <1>10, <1>13, <1>14 DEF ScriptLayout, script, fseq, L, enc

\* The whole coinbase: gap is where the places of the extranonces begin.
BytesLayout(bytes, height, payout, gap) ==
    LET enc == encode_script_num(height)
        L == Len(enc)
    IN  /\ L \in Nat /\ gap \in Nat /\ L + 5 =< gap
        /\ bytes \in Seq(CoinbaseItem) /\ Len(bytes) >= gap + 3
        /\ bytes[2] = [kind |-> "script", n |-> gap - 1]
        /\ bytes[3] = [kind |-> "push", n |-> L]
        /\ \A i \in 1 .. L : bytes[3 + i] = [kind |-> "height", n |-> enc[i]]
        /\ \A i \in 1 .. gap - 1 : bytes[i].kind # "placeholder"
        /\ bytes[gap] = [kind |-> "placeholder", n |-> 0]
        /\ bytes[gap + 1] = [kind |-> "placeholder", n |-> 0]
        /\ bytes[gap + 2] = [kind |-> "sequence", n |-> 0]
        /\ bytes[gap + 3] = [kind |-> "payout", n |-> payout]

LEMMA BytesLaidOut ==
    ASSUME NEW height \in Nat, NEW flags \in 0 .. 1, NEW payout \in Nat, NEW commitment \in BOOLEAN,
           NEW script, ScriptLayout(script, height, flags)
    PROVE  \E gap \in Nat :
              BytesLayout(serialize_no_witness(script, payout, commitment), height, payout, gap)
<1> DEFINE enc == encode_script_num(height)
           L == Len(enc)
           S == L + flags + 4
           version == Item("version", 1)
           announced == Item("script", S)
           sequence == Item("sequence", 0)
           output == Item("payout", payout)
           other == IF commitment THEN Item("commitment", 0) ELSE << >>
           u1 == version \o announced
           u2 == u1 \o script
           u3 == u2 \o sequence
           u4 == u3 \o output
           u5 == u4 \o other
<1>1. /\ L \in Nat /\ script \in Seq(CoinbaseItem) /\ Len(script) = S
      /\ script[1] = [kind |-> "push", n |-> L]
      /\ \A i \in 1 .. L : script[1 + i] = [kind |-> "height", n |-> enc[i]]
      /\ \A i \in 1 .. S - 2 : script[i].kind # "placeholder"
      /\ script[S - 1] = [kind |-> "placeholder", n |-> 0]
      /\ script[S] = [kind |-> "placeholder", n |-> 0]
      /\ S \in Nat /\ S >= L + 4
  <2>1. /\ L \in Nat /\ script \in Seq(CoinbaseItem) /\ Len(script) = L + flags + 4
        /\ script[1] = [kind |-> "push", n |-> L]
        /\ \A i \in 1 .. L : script[1 + i] = [kind |-> "height", n |-> enc[i]]
        /\ \A i \in 1 .. L + flags + 2 : script[i].kind # "placeholder"
        /\ script[L + flags + 3] = [kind |-> "placeholder", n |-> 0]
        /\ script[L + flags + 4] = [kind |-> "placeholder", n |-> 0]
    BY DEF ScriptLayout
  <2> HIDE DEF L, enc
  <2>2. (L + flags + 4) - 2 = L + flags + 2 /\ (L + flags + 4) - 1 = L + flags + 3
        /\ L + flags + 4 \in Nat /\ L + flags + 4 >= L + 4
    BY <2>1
  <2>3. QED
    BY <2>1, <2>2
<1> HIDE DEF enc, L
<1>2. serialize_no_witness(script, payout, commitment) = u5
  BY <1>1 DEF serialize_no_witness
<1> HIDE DEF S
<1>3. /\ "version" \in Kinds /\ "script" \in Kinds /\ "sequence" \in Kinds /\ "payout" \in Kinds
      /\ "commitment" \in Kinds
  BY DEF Kinds
<1>4. /\ version \in Seq(CoinbaseItem) /\ Len(version) = 1
      /\ version[1] = [kind |-> "version", n |-> 1]
  BY <1>3, OneItem
<1>5. /\ announced \in Seq(CoinbaseItem) /\ Len(announced) = 1
      /\ announced[1] = [kind |-> "script", n |-> S]
  BY <1>1, <1>3, OneItem
<1>6. /\ sequence \in Seq(CoinbaseItem) /\ Len(sequence) = 1
      /\ sequence[1] = [kind |-> "sequence", n |-> 0]
  BY <1>3, OneItem
<1>7. /\ output \in Seq(CoinbaseItem) /\ Len(output) = 1
      /\ output[1] = [kind |-> "payout", n |-> payout]
  BY <1>3, OneItem
<1>8. other \in Seq(CoinbaseItem) /\ Len(other) \in Nat
  <2>1. Item("commitment", 0) \in Seq(CoinbaseItem)
    BY <1>3, OneItem
  <2>2. << >> \in Seq(CoinbaseItem)
    BY EmptySeq
  <2> DEFINE item == Item("commitment", 0)
  <2>3. other \in Seq(CoinbaseItem)
    BY <2>1, <2>2
  <2>4. QED
    BY <2>3, LenProperties
<1> HIDE DEF version, announced, sequence, output, other
<1>9. JoinedFrom(version, announced, u1)
  BY <1>4, <1>5, Joined
<1>10. /\ u1 \in Seq(CoinbaseItem) /\ Len(u1) = 2 /\ u1[1] = version[1] /\ u1[2] = announced[1]
  <2>1. 1 + 1 = 2 /\ 1 \in 1 .. 1
    OBVIOUS
  <2> HIDE DEF u1
  <2>2. QED
    BY <1>4, <1>5, <1>9, <2>1 DEF JoinedFrom
<1> HIDE DEF u1
<1>11. JoinedFrom(u1, script, u2)
  BY <1>1, <1>10, Joined
<1>12. /\ u2 \in Seq(CoinbaseItem) /\ Len(u2) = 2 + S
       /\ u2[1] = version[1] /\ u2[2] = announced[1]
       /\ \A i \in 1 .. S : u2[2 + i] = script[i]
  <2>1. 1 \in 1 .. 2 /\ 2 \in 1 .. 2
    OBVIOUS
  <2> HIDE DEF u2
  <2>2. QED
    BY <1>1, <1>10, <1>11, <2>1 DEF JoinedFrom
<1> HIDE DEF u2
<1>13. JoinedFrom(u2, sequence, u3)
  BY <1>6, <1>12, Joined
<1>14. /\ u3 \in Seq(CoinbaseItem) /\ Len(u3) = 3 + S
       /\ \A i \in 1 .. 2 + S : u3[i] = u2[i]
       /\ u3[3 + S] = [kind |-> "sequence", n |-> 0]
  <2>1. 1 \in 1 .. 1 /\ (2 + S) + 1 = 3 + S
    BY <1>1
  <2> HIDE DEF u3
  <2>2. QED
    BY <1>6, <1>12, <1>13, <2>1 DEF JoinedFrom
<1> HIDE DEF u3
<1>15. JoinedFrom(u3, output, u4)
  BY <1>7, <1>14, Joined
<1>16. /\ u4 \in Seq(CoinbaseItem) /\ Len(u4) = 4 + S
       /\ \A i \in 1 .. 3 + S : u4[i] = u3[i]
       /\ u4[4 + S] = [kind |-> "payout", n |-> payout]
  <2>1. 1 \in 1 .. 1 /\ (3 + S) + 1 = 4 + S
    BY <1>1
  <2> HIDE DEF u4
  <2>2. QED
    BY <1>7, <1>14, <1>15, <2>1 DEF JoinedFrom
<1> HIDE DEF u4
<1>17. JoinedFrom(u4, other, u5)
  BY <1>8, <1>16, Joined
<1>18. /\ u5 \in Seq(CoinbaseItem) /\ Len(u5) >= 4 + S
       /\ \A i \in 1 .. 4 + S : u5[i] = u4[i]
  <2> HIDE DEF u5
  <2>1. u5 \in Seq(CoinbaseItem) /\ Len(u5) = (4 + S) + Len(other)
        /\ \A i \in 1 .. 4 + S : u5[i] = u4[i]
    BY <1>16, <1>17 DEF JoinedFrom
  <2>2. QED
    BY <1>1, <1>8, <2>1
<1> HIDE DEF u5
<1>19. /\ \A i \in 1 .. 2 + S : u5[i] = u2[i]
       /\ u5[3 + S] = [kind |-> "sequence", n |-> 0]
       /\ u5[4 + S] = [kind |-> "payout", n |-> payout]
  <2>1. /\ \A i \in 1 .. 2 + S : i \in 1 .. 3 + S /\ i \in 1 .. 4 + S
        /\ 3 + S \in 1 .. 3 + S /\ 3 + S \in 1 .. 4 + S /\ 4 + S \in 1 .. 4 + S
    BY <1>1
  <2>2. QED
    BY <1>14, <1>16, <1>18, <2>1
<1>20. /\ u5[1] = version[1] /\ u5[2] = announced[1]
       /\ \A i \in 1 .. S : u5[2 + i] = script[i]
  <2>1. 1 \in 1 .. 2 + S /\ 2 \in 1 .. 2 + S /\ \A i \in 1 .. S : 2 + i \in 1 .. 2 + S
    BY <1>1
  <2>2. QED
    BY <1>12, <1>19, <2>1
<1> DEFINE gap == S + 1
<1>21. /\ gap \in Nat /\ L + 5 =< gap /\ Len(u5) >= gap + 3 /\ gap - 1 = S
       /\ gap + 2 = 3 + S /\ gap + 3 = 4 + S
  <2>1. Len(u5) \in Nat
    BY <1>18, LenProperties
  <2>2. QED
    BY <1>1, <1>18, <2>1
<1>22. u5[3] = [kind |-> "push", n |-> L]
  <2>1. 1 \in 1 .. S /\ 2 + 1 = 3
    BY <1>1
  <2>2. QED
    BY <1>1, <1>20, <2>1
<1>23. ASSUME NEW i \in 1 .. L PROVE u5[3 + i] = [kind |-> "height", n |-> enc[i]]
  <2>1. 1 + i \in 1 .. S /\ 2 + (1 + i) = 3 + i
    BY <1>1
  <2>2. u5[2 + (1 + i)] = script[1 + i]
    BY <1>20, <2>1
  <2>3. QED
    BY <1>1, <2>1, <2>2
<1>24. ASSUME NEW i \in 1 .. S PROVE u5[i].kind # "placeholder"
  <2>1. CASE i = 1
    BY <1>4, <1>20, <2>1
  <2>2. CASE i = 2
    BY <1>5, <1>20, <2>2
  <2>3. CASE i \in 3 .. S
    <3>1. i - 2 \in 1 .. S - 2 /\ i - 2 \in 1 .. S /\ 2 + (i - 2) = i
      BY <1>1, <2>3
    <3>2. u5[2 + (i - 2)] = script[i - 2]
      BY <1>20, <3>1
    <3>3. QED
      BY <1>1, <3>1, <3>2
  <2>4. QED
    BY <1>1, <2>1, <2>2, <2>3
<1>25. /\ u5[gap] = [kind |-> "placeholder", n |-> 0]
       /\ u5[gap + 1] = [kind |-> "placeholder", n |-> 0]
  <2>1. /\ S - 1 \in 1 .. S /\ S \in 1 .. S /\ 2 + (S - 1) = gap /\ 2 + S = gap + 1
    BY <1>1
  <2>2. u5[2 + (S - 1)] = script[S - 1] /\ u5[2 + S] = script[S]
    BY <1>20, <2>1
  <2>3. QED
    BY <1>1, <2>1, <2>2
<1> HIDE DEF gap
<1>26. BytesLayout(u5, height, payout, gap)
  BY <1>1, <1>5, <1>18, <1>19, <1>20, <1>21, <1>22, <1>23, <1>24, <1>25 DEF BytesLayout, L, enc
<1>27. QED
  BY <1>2, <1>21, <1>26

\* Split at the places of the extranonces, the coinbase loses nothing else.
LEMMA PartsOfCoinbase ==
    ASSUME NEW t \in Template, NEW payout \in Nat
    PROVE  \E bytes, gap :
              /\ BytesLayout(bytes, t.height, payout, gap)
              /\ build_coinbase_parts(t, payout) =
                   << SubSeq(bytes, 1, gap - 1), SubSeq(bytes, gap + 2, Len(bytes)) >>
<1> DEFINE script == script_sig(t.height, Items("flags", t.flags) \o PLACEHOLDER)
           bytes == serialize_no_witness(script, payout, t.commitment)
           Here(i) == /\ SubSeq(bytes, i, i + 1) = PLACEHOLDER
                      /\ \A j \in 1 .. i - 1 : bytes[j] # PLACEHOLDER[1]
           split_at == CHOOSE i \in DOMAIN bytes : Here(i)
<1>1. t.height \in Nat /\ t.flags \in 0 .. 1 /\ t.commitment \in BOOLEAN
  BY DEF Template
<1>2. ScriptLayout(script, t.height, t.flags)
  BY <1>1, ScriptLaidOut
<1> HIDE DEF script
<1>3. PICK gap \in Nat : BytesLayout(bytes, t.height, payout, gap)
  BY <1>1, <1>2, BytesLaidOut
<1>4. build_coinbase_parts(t, payout) =
        << SubSeq(bytes, 1, split_at - 1), SubSeq(bytes, split_at + 2, Len(bytes)) >>
  BY DEF build_coinbase_parts, script
<1> HIDE DEF bytes
<1>5. /\ bytes \in Seq(CoinbaseItem) /\ gap \in Nat \ {0} /\ gap + 3 =< Len(bytes) /\ Len(bytes) \in Nat
      /\ DOMAIN bytes = 1 .. Len(bytes)
      /\ \A i \in 1 .. gap - 1 : bytes[i].kind # "placeholder"
      /\ bytes[gap] = [kind |-> "placeholder", n |-> 0]
      /\ bytes[gap + 1] = [kind |-> "placeholder", n |-> 0]
  <2>1. /\ bytes \in Seq(CoinbaseItem) /\ Len(bytes) >= gap + 3
        /\ \A i \in 1 .. gap - 1 : bytes[i].kind # "placeholder"
        /\ bytes[gap] = [kind |-> "placeholder", n |-> 0]
        /\ bytes[gap + 1] = [kind |-> "placeholder", n |-> 0]
        /\ Len(encode_script_num(t.height)) \in Nat
        /\ Len(encode_script_num(t.height)) + 5 =< gap
    BY <1>3 DEF BytesLayout
  <2>2. Len(bytes) \in Nat /\ DOMAIN bytes = 1 .. Len(bytes)
    BY <2>1, LenProperties
  <2>3. QED
    BY <2>1, <2>2
<1>6. PLACEHOLDER = [i \in 1 .. 2 |-> [kind |-> "placeholder", n |-> 0]]
  BY DEF PLACEHOLDER, Items
<1>7. ASSUME NEW i \in 1 .. Len(bytes) - 1
      PROVE  /\ SubSeq(bytes, i, i + 1) = [k \in 1 .. 2 |-> bytes[i + k - 1]]
             /\ SubSeq(bytes, i, i + 1)[1] = bytes[i]
  <2>1. (i + 1) - i + 1 = 2 /\ i \in Nat /\ i + 1 - 1 = i /\ 1 \in 1 .. 2
    BY <1>5
  <2>2. SubSeq(bytes, i, i + 1) = [k \in 1 .. 2 |-> bytes[i + k - 1]]
    BY <1>5, <2>1
  <2>3. QED
    BY <2>1, <2>2
<1>8. Here(gap)
  <2>1. gap \in 1 .. Len(bytes) - 1 /\ gap + 1 - 1 = gap /\ gap + 2 - 1 = gap + 1
    BY <1>5
  <2>2. \A k \in 1 .. 2 : bytes[gap + k - 1] = [kind |-> "placeholder", n |-> 0]
    BY <1>5, <2>1
  <2>3. SubSeq(bytes, gap, gap + 1) = PLACEHOLDER
    BY <1>6, <1>7, <2>1, <2>2
  <2>4. \A j \in 1 .. gap - 1 : bytes[j] # PLACEHOLDER[1]
    BY <1>5, <1>6
  <2>5. QED
    BY <2>3, <2>4
<1>9. ASSUME NEW i \in DOMAIN bytes, Here(i) PROVE i = gap
  <2>1. i \in 1 .. Len(bytes)
    BY <1>5
  <2>2. ~(i > gap)
    <3>1. i > gap => gap \in 1 .. i - 1 /\ bytes[gap] = PLACEHOLDER[1]
      BY <1>5, <1>6, <2>1
    <3>2. QED
      BY <1>9, <3>1
  <2>3. ~(i < gap)
    <3> SUFFICES ASSUME i < gap PROVE FALSE
      OBVIOUS
    <3>1. i \in 1 .. Len(bytes) - 1 /\ i \in 1 .. gap - 1
      BY <1>5, <2>1
    <3>2. bytes[i] = PLACEHOLDER[1]
      BY <1>7, <1>9, <3>1
    <3>3. QED
      BY <1>5, <1>6, <3>1, <3>2
  <2>4. QED
    BY <1>5, <2>1, <2>2, <2>3
<1>10. split_at = gap
  <2>1. gap \in DOMAIN bytes
    BY <1>5
  <2> HIDE DEF Here
  <2>2. QED
    BY <1>8, <1>9, <2>1
<1> HIDE DEF split_at
<1>11. QED
  BY <1>3, <1>4, <1>10

\* The coinbase of a share: x items in the place of the two placeholders.
CoinbaseLayout(c, bytes, gap, x) ==
    /\ c \in Seq(CoinbaseItem) /\ Len(c) \in Nat /\ Len(c) + 2 = Len(bytes) + x
    /\ \A i \in 1 .. gap - 1 : c[i] = bytes[i]
    /\ \A i \in 1 .. Len(bytes) - (gap + 1) : c[gap - 1 + x + i] = bytes[gap + 1 + i]

LEMMA CoinbaseLaidOut ==
    ASSUME NEW bytes, NEW height, NEW payout, NEW gap, BytesLayout(bytes, height, payout, gap),
           NEW j, j.coinbase_part1 = SubSeq(bytes, 1, gap - 1),
           j.coinbase_part2 = SubSeq(bytes, gap + 2, Len(bytes)),
           NEW sh \in Share
    PROVE  CoinbaseLayout(build_coinbase(j, sh), bytes, gap, sh.extranonce1 + sh.extra_nonce2)
<1> DEFINE N == Len(bytes)
           e1 == sh.extranonce1
           e2 == sh.extra_nonce2
           part1 == SubSeq(bytes, 1, gap - 1)
           part2 == SubSeq(bytes, gap + 2, N)
           first == Items("extranonce1", e1)
           second == Items("extra_nonce2", e2)
           u1 == part1 \o first
           u2 == u1 \o second
           u3 == u2 \o part2
<1>1. /\ bytes \in Seq(CoinbaseItem) /\ N \in Nat /\ gap \in Nat /\ gap >= 5 /\ gap + 3 =< N
  <2>1. /\ bytes \in Seq(CoinbaseItem) /\ gap \in Nat /\ Len(bytes) >= gap + 3
        /\ Len(encode_script_num(height)) \in Nat /\ Len(encode_script_num(height)) + 5 =< gap
    BY DEF BytesLayout
  <2>2. Len(bytes) \in Nat
    BY <2>1, LenProperties
  <2>3. QED
    BY <2>1, <2>2
<1>2. e1 \in Nat /\ e2 \in Nat
  BY DEF Share
<1>3. build_coinbase(j, sh) = u3
  BY DEF build_coinbase
<1> HIDE DEF e1, e2, N
<1>4. /\ part1 \in Seq(CoinbaseItem) /\ Len(part1) = gap - 1
      /\ \A i \in 1 .. gap - 1 : part1[i] = bytes[i]
  <2>1. \A i \in 1 .. gap - 1 : bytes[i] \in CoinbaseItem
    <3>1. \A i \in 1 .. gap - 1 : i \in 1 .. Len(bytes)
      BY <1>1 DEF N
    <3>2. QED
      BY <1>1, <3>1, ElementOfSeq
  <2>2. 1 \in Int /\ gap - 1 \in Int /\ 1 =< gap - 1 /\ (gap - 1) - 1 + 1 = gap - 1
    BY <1>1
  <2>3. /\ part1 \in Seq(CoinbaseItem)
        /\ Len(part1) = IF 1 <= gap - 1 THEN (gap - 1) - 1 + 1 ELSE 0
        /\ \A i \in 1 .. (gap - 1) - 1 + 1 : part1[i] = bytes[1 + i - 1]
    BY <2>1, <2>2, SubSeqProperties
  <2> HIDE DEF part1
  <2>4. \A i \in 1 .. gap - 1 : 1 + i - 1 = i
    BY <1>1
  <2>5. QED
    BY <2>2, <2>3, <2>4
<1>5. /\ part2 \in Seq(CoinbaseItem) /\ Len(part2) = N - (gap + 1)
      /\ \A i \in 1 .. N - (gap + 1) : part2[i] = bytes[gap + 1 + i]
  <2>1. \A i \in gap + 2 .. N : bytes[i] \in CoinbaseItem
    <3>1. \A i \in gap + 2 .. N : i \in 1 .. Len(bytes)
      BY <1>1 DEF N
    <3>2. QED
      BY <1>1, <3>1, ElementOfSeq
  <2>2. gap + 2 \in Int /\ N \in Int /\ gap + 2 =< N /\ N - (gap + 2) + 1 = N - (gap + 1)
    BY <1>1
  <2>3. /\ part2 \in Seq(CoinbaseItem)
        /\ Len(part2) = IF gap + 2 <= N THEN N - (gap + 2) + 1 ELSE 0
        /\ \A i \in 1 .. N - (gap + 2) + 1 : part2[i] = bytes[(gap + 2) + i - 1]
    BY <2>1, <2>2, SubSeqProperties
  <2> HIDE DEF part2
  <2>4. \A i \in 1 .. N - (gap + 1) : (gap + 2) + i - 1 = gap + 1 + i
    BY <1>1
  <2>5. QED
    BY <2>2, <2>3, <2>4
<1>6. /\ first \in Seq(CoinbaseItem) /\ Len(first) = e1
      /\ second \in Seq(CoinbaseItem) /\ Len(second) = e2
  <2>1. "extranonce1" \in Kinds /\ "extra_nonce2" \in Kinds
    BY DEF Kinds
  <2>2. QED
    BY <1>2, <2>1, SomeItems
<1> HIDE DEF part1, part2, first, second
<1>7. JoinedFrom(part1, first, u1)
  BY <1>4, <1>6, Joined
<1>8. /\ u1 \in Seq(CoinbaseItem) /\ Len(u1) = gap - 1 + e1
      /\ \A i \in 1 .. gap - 1 : u1[i] = part1[i]
  <2> HIDE DEF u1
  <2>1. QED
    BY <1>4, <1>6, <1>7 DEF JoinedFrom
<1> HIDE DEF u1
<1>9. JoinedFrom(u1, second, u2)
  BY <1>6, <1>8, Joined
<1>10. /\ u2 \in Seq(CoinbaseItem) /\ Len(u2) = gap - 1 + (e1 + e2)
       /\ \A i \in 1 .. gap - 1 : u2[i] = u1[i]
  <2>1. \A i \in 1 .. gap - 1 : i \in 1 .. gap - 1 + e1
    BY <1>1, <1>2
  <2>2. (gap - 1 + e1) + e2 = gap - 1 + (e1 + e2)
    BY <1>1, <1>2
  <2> HIDE DEF u2
  <2>3. QED
    BY <1>6, <1>8, <1>9, <2>1, <2>2 DEF JoinedFrom
<1> HIDE DEF u2
<1>11. JoinedFrom(u2, part2, u3)
  BY <1>5, <1>10, Joined
<1>12. /\ u3 \in Seq(CoinbaseItem) /\ Len(u3) = (gap - 1 + (e1 + e2)) + (N - (gap + 1))
       /\ \A i \in 1 .. gap - 1 + (e1 + e2) : u3[i] = u2[i]
       /\ \A i \in 1 .. N - (gap + 1) : u3[gap - 1 + (e1 + e2) + i] = part2[i]
  <2> HIDE DEF u3
  <2>1. QED
    BY <1>5, <1>10, <1>11 DEF JoinedFrom
<1> HIDE DEF u3
<1>13. Len(u3) \in Nat /\ Len(u3) + 2 = N + (e1 + e2)
  <2>1. Len(u3) \in Nat
    BY <1>12, LenProperties
  <2> DEFINE l == Len(u3)
  <2>2. l = (gap - 1 + (e1 + e2)) + (N - (gap + 1))
    BY <1>12
  <2> HIDE DEF l
  <2>3. l + 2 = N + (e1 + e2)
    BY <1>1, <1>2, <2>2
  <2>4. QED
    BY <2>1, <2>3 DEF l
<1>14. \A i \in 1 .. gap - 1 : u3[i] = bytes[i]
  <2>1. \A i \in 1 .. gap - 1 : i \in 1 .. gap - 1 + (e1 + e2)
    BY <1>1, <1>2
  <2>2. QED
    BY <1>4, <1>8, <1>10, <1>12, <2>1
<1>15. \A i \in 1 .. N - (gap + 1) : u3[gap - 1 + (e1 + e2) + i] = bytes[gap + 1 + i]
  BY <1>5, <1>12
<1>16. CoinbaseLayout(u3, bytes, gap, e1 + e2)
  BY <1>12, <1>13, <1>14, <1>15 DEF CoinbaseLayout, N
<1>17. QED
  BY <1>3, <1>16 DEF e1, e2

(***************************************************************************)
(* A daemon that reads the coinbase of any share on an RPC job, for        *)
(* heights of every length, with or without flags and commitment, and      *)
(* whatever the extranonces, finds the template's height and the payout    *)
(* script; with both extranonces in place it can be parsed.                *)
(***************************************************************************)
THEOREM CoinbaseSays ==
    ASSUME NEW t \in Template, NEW payout \in Nat, NEW j \in template_to_job(t, payout),
           NEW sh \in Share
    PROVE  /\ HeightRead(build_coinbase(j, sh)) = t.height
           /\ \E i \in DOMAIN build_coinbase(j, sh) :
                 build_coinbase(j, sh)[i] = [kind |-> "payout", n |-> payout]
           /\ sh.extranonce1 = 1 /\ sh.extra_nonce2 = 1 => deserializes(build_coinbase(j, sh))
<1> DEFINE c == build_coinbase(j, sh)
           x == sh.extranonce1 + sh.extra_nonce2
           enc == encode_script_num(t.height)
           L == Len(enc)
<1>1. PICK bytes, gap :
         /\ BytesLayout(bytes, t.height, payout, gap)
         /\ build_coinbase_parts(t, payout) =
              << SubSeq(bytes, 1, gap - 1), SubSeq(bytes, gap + 2, Len(bytes)) >>
  BY PartsOfCoinbase
<1>2. /\ j.coinbase_part1 = SubSeq(bytes, 1, gap - 1)
      /\ j.coinbase_part2 = SubSeq(bytes, gap + 2, Len(bytes))
  <2> DEFINE parts == build_coinbase_parts(t, payout)
  <2>1. j.coinbase_part1 = parts[1] /\ j.coinbase_part2 = parts[2]
    BY DEF template_to_job
  <2> HIDE DEF parts
  <2>2. parts = << SubSeq(bytes, 1, gap - 1), SubSeq(bytes, gap + 2, Len(bytes)) >>
    BY <1>1 DEF parts
  <2>3. parts[1] = SubSeq(bytes, 1, gap - 1) /\ parts[2] = SubSeq(bytes, gap + 2, Len(bytes))
    BY <2>2
  <2>4. QED
    BY <2>1, <2>3
<1>3. CoinbaseLayout(c, bytes, gap, x)
  BY <1>1, <1>2, CoinbaseLaidOut
<1>4. x \in 0 .. 2 /\ (sh.extranonce1 = 1 /\ sh.extra_nonce2 = 1 => x = 2) /\ t.height \in Nat
  BY DEF Share, Template
<1> HIDE DEF c, x
<1>5. /\ L \in Nat /\ gap \in Nat /\ L + 5 =< gap
      /\ bytes \in Seq(CoinbaseItem) /\ Len(bytes) \in Nat /\ gap + 3 =< Len(bytes)
      /\ bytes[2] = [kind |-> "script", n |-> gap - 1]
      /\ bytes[3] = [kind |-> "push", n |-> L]
      /\ \A i \in 1 .. L : bytes[3 + i] = [kind |-> "height", n |-> enc[i]]
      /\ bytes[gap + 2] = [kind |-> "sequence", n |-> 0]
      /\ bytes[gap + 3] = [kind |-> "payout", n |-> payout]
  <2>1. bytes \in Seq(CoinbaseItem)
    BY <1>1 DEF BytesLayout
  <2>2. Len(bytes) \in Nat
    BY <2>1, LenProperties
  <2>3. /\ L \in Nat /\ gap \in Nat /\ L + 5 =< gap /\ Len(bytes) >= gap + 3
        /\ bytes[2] = [kind |-> "script", n |-> gap - 1]
        /\ bytes[3] = [kind |-> "push", n |-> L]
        /\ \A i \in 1 .. L : bytes[3 + i] = [kind |-> "height", n |-> enc[i]]
        /\ bytes[gap + 2] = [kind |-> "sequence", n |-> 0]
        /\ bytes[gap + 3] = [kind |-> "payout", n |-> payout]
    BY <1>1 DEF BytesLayout
  <2> HIDE DEF L, enc
  <2>4. QED
    BY <2>1, <2>2, <2>3
<1>6. /\ c \in Seq(CoinbaseItem) /\ Len(c) \in Nat /\ Len(c) + 2 = Len(bytes) + x
      /\ DOMAIN c = 1 .. Len(c)
      /\ \A i \in 1 .. gap - 1 : c[i] = bytes[i]
      /\ \A i \in 1 .. Len(bytes) - (gap + 1) : c[gap - 1 + x + i] = bytes[gap + 1 + i]
  <2>1. c \in Seq(CoinbaseItem)
    BY <1>3 DEF CoinbaseLayout
  <2>2. DOMAIN c = 1 .. Len(c)
    BY <2>1, LenProperties
  <2>3. QED
    BY <1>3, <2>1, <2>2 DEF CoinbaseLayout
<1> HIDE DEF L, enc
<1>7. HeightRead(c) = t.height
  <2>1. 3 \in 1 .. gap - 1 /\ \A i \in 1 .. L : 3 + i \in 1 .. gap - 1
    BY <1>5
  <2>2. c[3].n = L
    BY <1>5, <1>6, <2>1
  <2>3. ASSUME NEW i \in 1 .. L PROVE c[3 + i].n = enc[i]
    <3>1. c[3 + i] = bytes[3 + i]
      BY <1>6, <2>1
    <3>2. bytes[3 + i] = [kind |-> "height", n |-> enc[i]]
      BY <1>5
    <3>3. QED
      BY <3>1, <3>2
  <2>4. Len(enc) + 3 =< Len(c) /\ c[3].n = Len(enc) /\ \A i \in 1 .. Len(enc) : c[3 + i].n = enc[i]
    <3>1. L + 3 =< Len(c)
      BY <1>4, <1>5, <1>6
    <3>2. QED
      BY <2>2, <2>3, <3>1 DEF L
  <2>5. c \in Seq(CoinbaseItem) /\ t.height \in Nat /\ enc = encode_script_num(t.height)
    BY <1>4, <1>6 DEF enc
  <2>6. QED
    BY <2>4, <2>5, ReadBack
<1>8. \E i \in DOMAIN c : c[i] = [kind |-> "payout", n |-> payout]
  <2> DEFINE k == gap - 1 + x + 2
  <2>0. /\ Len(bytes) \in Nat /\ Len(c) \in Nat /\ x \in Nat /\ gap \in Nat
        /\ Len(bytes) >= gap + 3 /\ Len(c) + 2 = Len(bytes) + x /\ gap >= 1
    BY <1>4, <1>5, <1>6
  <2>1. 2 \in 1 .. Len(bytes) - (gap + 1) /\ gap + 1 + 2 = gap + 3 /\ k \in 1 .. Len(c)
    <3> DEFINE m == Len(bytes)  n == Len(c)
    <3>1. m \in Nat /\ n \in Nat /\ m >= gap + 3 /\ n + 2 = m + x
      BY <2>0
    <3> HIDE DEF m, n
    <3>2. 2 \in 1 .. m - (gap + 1) /\ gap + 1 + 2 = gap + 3 /\ k \in 1 .. n
      BY <2>0, <3>1
    <3>3. QED
      BY <3>2 DEF m, n
  <2>2. c[k] = bytes[gap + 1 + 2]
    BY <1>6, <2>1
  <2> HIDE DEF k
  <2>3. QED
    BY <1>5, <1>6, <2>1, <2>2
<1>9. ASSUME x = 2 PROVE deserializes(c)
  <2>1. 1 \in 1 .. Len(bytes) - (gap + 1) /\ gap + 1 + 1 = gap + 2 /\ gap - 1 + 2 + 1 = gap + 2
        /\ 3 + (gap - 1) = gap + 2 /\ gap + 2 \in 1 .. Len(c) /\ Len(c) > 2 /\ 2 \in 1 .. gap - 1
    BY <1>5, <1>6, <1>9
  <2>2. c[gap + 2] = bytes[gap + 2]
    <3>1. c[gap - 1 + x + 1] = bytes[gap + 1 + 1]
      BY <1>6, <2>1
    <3>2. gap - 1 + x + 1 = gap + 2
      BY <1>5, <1>9
    <3>3. QED
      BY <2>1, <3>1, <3>2
  <2>3. c[2] = bytes[2]
    BY <1>6, <2>1
  <2>4. c[2].kind = "script" /\ c[2].n = gap - 1 /\ c[gap + 2].kind = "sequence"
    BY <1>5, <2>2, <2>3
  <2>5. QED
    BY <1>6, <2>1, <2>4 DEF deserializes
<1>10. QED
  BY <1>4, <1>7, <1>8, <1>9 DEF c

-----------------------------------------------------------------------------
(***************************************************************************)
(* Merkle roots of blocks of one transaction and of two.                   *)
(***************************************************************************)
\* A single leaf is the root.
LEMMA RootOfOne == ASSUME NEW leaf PROVE MerkleRoot(<< leaf >>) = leaf
<1> DEFINE leaves == << leaf >>
           Equation(f) == f = [n \in 0 .. Len(leaves) |->
                                 IF n = 0 THEN leaves ELSE PairUp(f[n - 1])]
           level == CHOOSE f : Equation(f)
           Top(n) == Len(level[n]) = 1 /\ \A k \in 0 .. n - 1 : Len(level[k]) # 1
           top == CHOOSE n \in 0 .. Len(leaves) : Top(n)
<1>1. Len(leaves) = 1 /\ leaves[1] = leaf
  OBVIOUS
<1>2. MerkleRoot(leaves) = level[top][1]
  BY DEF MerkleRoot
<1> HIDE DEF leaves
<1>3. Equation([n \in 0 .. 1 |-> IF n = 0 THEN leaves ELSE PairUp(leaves)])
  BY <1>1
<1>4. Equation(level)
  BY <1>3
<1> HIDE DEF level
<1>5. level[0] = leaves
  BY <1>1, <1>4
<1>6. Top(0)
  BY <1>1, <1>5
<1>7. \A n \in 0 .. Len(leaves) : Top(n) => n = 0
  <2>1. ASSUME NEW n \in 0 .. Len(leaves), Top(n), n # 0 PROVE FALSE
    <3>1. 0 \in 0 .. n - 1
      BY <1>1, <2>1
    <3>2. QED
      BY <1>1, <1>5, <2>1, <3>1
  <2>2. QED
    BY <2>1
<1>8. top = 0
  <2>1. 0 \in 0 .. Len(leaves)
    BY <1>1
  <2> HIDE DEF Top
  <2>2. QED
    BY <1>6, <1>7, <2>1
<1> HIDE DEF top
<1>9. QED
  BY <1>1, <1>2, <1>5, <1>8 DEF leaves

\* The root of two leaves is their hash.
LEMMA RootOfTwo ==
    ASSUME NEW a, NEW b PROVE MerkleRoot(<< a, b >>) = double_sha256(<< a, b >>)
<1> DEFINE leaves == << a, b >>
           Equation(f) == f = [n \in 0 .. Len(leaves) |->
                                 IF n = 0 THEN leaves ELSE PairUp(f[n - 1])]
           level == CHOOSE f : Equation(f)
           Top(n) == Len(level[n]) = 1 /\ \A k \in 0 .. n - 1 : Len(level[k]) # 1
           top == CHOOSE n \in 0 .. Len(leaves) : Top(n)
           pair == PairUp(leaves)
<1>1. Len(leaves) = 2 /\ leaves[1] = a /\ leaves[2] = b
  OBVIOUS
<1>2. MerkleRoot(leaves) = level[top][1]
  BY DEF MerkleRoot
<1>3. Len(pair) = 1 /\ pair[1] = double_sha256(<< a, b >>)
  <2> HIDE DEF leaves
  <2>1. (Len(leaves) + 1) \div 2 = 1
    BY <1>1
  <2>2. pair = [i \in 1 .. 1 |-> double_sha256(<< leaves[2 * i - 1],
                     leaves[IF 2 * i =< Len(leaves) THEN 2 * i ELSE 2 * i - 1] >>)]
    BY <2>1 DEF PairUp
  <2> HIDE DEF pair
  <2>3. 1 \in 1 .. 1 /\ 2 * 1 - 1 = 1 /\ 2 * 1 = 2 /\ 2 =< Len(leaves)
    BY <1>1
  <2>4. pair[1] = double_sha256(<< leaves[2 * 1 - 1],
                     leaves[IF 2 * 1 =< Len(leaves) THEN 2 * 1 ELSE 2 * 1 - 1] >>)
    BY <2>2, <2>3
  <2>5. pair[1] = double_sha256(<< a, b >>)
    BY <1>1, <2>3, <2>4
  <2>6. Len(pair) = 1
    BY <2>2
  <2>7. QED
    BY <2>5, <2>6
<1> HIDE DEF leaves, pair
<1>4. Equation([n \in 0 .. 2 |-> IF n = 0 THEN leaves ELSE IF n = 1 THEN pair ELSE PairUp(pair)])
  <2> DEFINE g == [n \in 0 .. 2 |-> IF n = 0 THEN leaves ELSE IF n = 1 THEN pair ELSE PairUp(pair)]
  <2>1. g[0] = leaves /\ g[1] = pair /\ g[2] = PairUp(pair)
    OBVIOUS
  <2>2. ASSUME NEW n \in 0 .. 2 PROVE g[n] = IF n = 0 THEN leaves ELSE PairUp(g[n - 1])
    <3>1. n = 0 \/ (n = 1 /\ n - 1 = 0) \/ (n = 2 /\ n - 1 = 1)
      OBVIOUS
    <3> HIDE DEF g
    <3>2. QED
      BY <2>1, <3>1 DEF pair
  <2>3. g = [n \in 0 .. 2 |-> g[n]]
    OBVIOUS
  <2> HIDE DEF g
  <2>4. g = [n \in 0 .. 2 |-> IF n = 0 THEN leaves ELSE PairUp(g[n - 1])]
    BY <2>2, <2>3
  <2>5. QED
    BY <1>1, <2>4 DEF g
<1>5. Equation(level)
  BY <1>4
<1> HIDE DEF level
<1>6. level[0] = leaves /\ level[1] = pair
  <2>1. level = [n \in 0 .. 2 |-> IF n = 0 THEN leaves ELSE PairUp(level[n - 1])]
    BY <1>1, <1>5
  <2>2. level[0] = leaves
    BY <2>1
  <2>3. 1 \in 0 .. 2 /\ 1 - 1 = 0
    OBVIOUS
  <2>4. level[1] = PairUp(level[0])
    BY <2>1, <2>3
  <2>5. QED
    BY <2>2, <2>4 DEF pair
<1>7. Top(1) /\ ~Top(0)
  <2>1. \A k \in 0 .. 1 - 1 : k = 0
    OBVIOUS
  <2>2. QED
    BY <1>1, <1>3, <1>6, <2>1
<1>8. \A n \in 0 .. Len(leaves) : Top(n) => n = 1
  <2>1. ASSUME NEW n \in 0 .. Len(leaves), Top(n), n # 1, n # 0 PROVE FALSE
    <3>1. 1 \in 0 .. n - 1
      BY <1>1, <2>1
    <3>2. QED
      BY <1>3, <1>6, <2>1, <3>1
  <2> HIDE DEF Top
  <2>2. QED
    BY <1>7, <2>1
<1>9. top = 1
  <2>1. 1 \in 0 .. Len(leaves)
    BY <1>1
  <2> HIDE DEF Top
  <2>2. QED
    BY <1>7, <1>8, <2>1
<1> HIDE DEF top
<1>10. QED
  BY <1>2, <1>3, <1>6, <1>9 DEF leaves

\* A branch of one element is hashed once.
\* The branch of at most one transaction is that transaction, if it is one.
LEMMA SmallBranch ==
    ASSUME NEW t \in Template, Len(t.transactions) =< 1,
           \A i \in DOMAIN t.transactions :
               t.transactions[i].txid # None /\ t.transactions[i].parses
    PROVE  /\ Len(t.transactions) = 0 => Len(build_merkle_branch(t)) = 0
           /\ Len(t.transactions) = 1 => /\ Len(build_merkle_branch(t)) = 1
                                         /\ build_merkle_branch(t)[1] = t.transactions[1].data
<1> DEFINE hash_of(tx) == IF tx.txid # None THEN tx.txid ELSE tx.hash
           txs == t.transactions
           next(before, i) == IF hash_of(txs[i]) # None /\ Len(hash_of(txs[i])) = HASH
                              THEN Append(before, Reverse(hash_of(txs[i]))) ELSE before
           Equation(f) == f = [i \in 0 .. Len(txs) |-> IF i = 0 THEN << >> ELSE next(f[i - 1], i)]
           branch == CHOOSE f : Equation(f)
<1>1. build_merkle_branch(t) = branch[Len(txs)]
  BY Zenon DEF build_merkle_branch
<1>2. txs \in Seq(Entry) /\ DOMAIN txs = 1 .. Len(txs)
  <2>1. txs \in Seq(Entry)
    BY DEF Template
  <2> HIDE DEF txs
  <2>2. QED
    BY <2>1, LenProperties
<1>0. Len(txs) =< 1
  OBVIOUS
<1> HIDE DEF branch, next, txs
<1>3. CASE Len(txs) = 0
  <2>1. Equation([i \in 0 .. 0 |-> << >>])
    BY <1>3
  <2>2. Equation(branch)
    BY <2>1 DEF branch
  <2>3. branch[0] = << >>
    BY <1>3, <2>2
  <2>4. Len(build_merkle_branch(t)) = 0
    BY <1>1, <1>3, <2>3, EmptySeq
  <2>5. QED
    BY <1>3, <2>4 DEF txs
<1>4. CASE Len(txs) = 1
  <2> DEFINE g == [i \in 0 .. 1 |-> IF i = 0 THEN << >> ELSE next(<< >>, 1)]
  <2>1. Equation(g)
    <3>1. ASSUME NEW i \in 0 .. 1 PROVE g[i] = IF i = 0 THEN << >> ELSE next(g[i - 1], i)
      <4>1. i = 0 \/ (i = 1 /\ i - 1 = 0)
        OBVIOUS
      <4>2. g[0] = << >> /\ g[1] = next(<< >>, 1)
        OBVIOUS
      <4> HIDE DEF g
      <4>3. QED
        BY <4>1, <4>2
    <3>2. g = [i \in 0 .. 1 |-> g[i]]
      OBVIOUS
    <3> HIDE DEF g
    <3>3. QED
      BY <1>4, <3>1, <3>2
  <2> HIDE DEF g
  <2>2. Equation(branch)
    BY <2>1 DEF branch
  <2>3. branch = [i \in 0 .. 1 |-> IF i = 0 THEN << >> ELSE next(branch[i - 1], i)]
    BY <1>4, <2>2
  <2>4. branch[0] = << >>
    BY <2>3
  <2>5. branch[1] = next(branch[0], 1)
    <3>1. 1 \in 0 .. 1 /\ 1 - 1 = 0
      OBVIOUS
    <3>2. QED
      BY <2>3, <3>1
  <2>6. txs[1] \in Entry /\ txs[1].txid # None /\ txs[1].parses
    <3>1. 1 \in 1 .. Len(txs)
      BY <1>4
    <3>2. QED
      BY <1>2, <3>1, ElementOfSeq DEF txs
  <2>7. Len(txs[1].txid) = HASH /\ txs[1].data = Reverse(txs[1].txid)
    BY <2>6 DEF Entry
  <2>8. branch[1] = Append(<< >>, txs[1].data)
    BY <2>4, <2>5, <2>6, <2>7 DEF next
  <2> DEFINE d == txs[1].data
  <2> HIDE DEF d
  <2>9. Len(Append(<< >>, d)) = 1 /\ Append(<< >>, d)[1] = d
    <3>1. << >> \in Seq({d}) /\ Len(<< >>) = 0
      BY EmptySeq
    <3>2. /\ Len(Append(<< >>, d)) = Len(<< >>) + 1 /\ Append(<< >>, d)[Len(<< >>) + 1] = d
      BY <3>1, AppendProperties
    <3>3. QED
      BY <3>1, <3>2
  <2>10. QED
    BY <1>1, <1>4, <2>8, <2>9 DEF d, txs
<1>5. Len(txs) = 0 \/ Len(txs) = 1
  <2> DEFINE n == Len(txs)
  <2>1. n \in Nat /\ n =< 1
    BY <1>0, <1>2, LenProperties
  <2> HIDE DEF n
  <2>2. n = 0 \/ n = 1
    BY <2>1
  <2>3. QED
    BY <2>2 DEF n
<1>6. QED
  BY <1>3, <1>4, <1>5 DEF txs

-----------------------------------------------------------------------------
(***************************************************************************)
(* What leaves the pool as a block.                                        *)
(***************************************************************************)
\* With work in RPC mode there is a payout script, the configured one.
LEMMA PayoutConfigured ==
    ASSUME Kept, job # NoJob, pool.services.job_source.kind = "rpc"
    PROVE  /\ pool.armed
           /\ pool.services.job_source.payout \in Nat
           /\ pool.services.job_source.payout =
                Effective("payout_script_pubkey_hex", "POOL__PAYOUT_SCRIPT_PUBKEY_HEX").n
<1> DEFINE source == pool.services.job_source
           hex == config.payout_script_pubkey_hex
           bytes == payout_script_pubkey_bytes(config)
<1>1. running /\ source.payout # None
  BY JobOfTemplate
<1>2. /\ source = build_job_source(config) /\ bytes # {} /\ config \in Config
      /\ pool.armed = (bytes # {None})
  BY <1>1, PoolAsConfigured DEF build_pool_services, PoolServices
<1>3. hex = Effective("payout_script_pubkey_hex", "POOL__PAYOUT_SCRIPT_PUBKEY_HEX")
  BY <1>1, SettingsCount
<1>4. hex \in Text
  <2>1. "payout_script_pubkey_hex" \in Fields
    BY FieldsAre
  <2> HIDE DEF config
  <2>2. QED
    BY <1>2, <2>1 DEF Config, TypedValue
<1>5. hex.n \in Nat
  BY <1>4 DEF Text
<1>6. source.payout = TheOnly(bytes)
  BY <1>2 DEF build_job_source
<1>7. bytes = IF hex.is = "blank" THEN {None} ELSE {n \in {hex.n} : hex.is = "hex"}
  BY DEF payout_script_pubkey_bytes
<1> HIDE DEF bytes, hex, source
<1>8. bytes = {hex.n}
  <2>1. hex.is # "blank"
    BY <1>1, <1>6, <1>7, TheOnlyElement
  <2>2. QED
    BY <1>2, <1>7, <2>1
<1>9. source.payout = hex.n /\ pool.armed
  BY <1>2, <1>5, <1>6, <1>8, TheOnlyElement, NoneAssumption
<1>10. QED
  BY <1>3, <1>5, <1>9 DEF source

LEMMA KeptGivesOnlyTransactionsSpoilBlocks == Kept => OnlyTransactionsSpoilBlocks
<1> SUFFICES ASSUME Kept, job # NoJob, pool.services.job_source.kind = "rpc"
             PROVE  /\ pool.armed
                    /\ outcome = "LocalError" =>
                          \/ 0 \in {share.extranonce1, share.extra_nonce2}
                          \/ \E i \in DOMAIN template.transactions :
                                ~template.transactions[i].parses
  BY DEF OnlyTransactionsSpoilBlocks
<1> DEFINE payout == pool.services.job_source.payout
<1>1. pool.armed /\ payout \in Nat
  BY PayoutConfigured
<1>2. template \in Template /\ job \in template_to_job(template, payout)
  BY JobOfTemplate
<1>3. ASSUME outcome = "LocalError",
             \A i \in DOMAIN template.transactions : template.transactions[i].parses
      PROVE  0 \in {share.extranonce1, share.extra_nonce2}
  <2>1. verdict = "Block" /\ ~assembles(job, share, template)
    BY <1>3 DEF Kept, Submitted
  <2>2. share \in Share
    BY <2>1, TraceOfJudged DEF Judgement
  <2>3. job.block_assembly = TRUE
    BY <1>2 DEF template_to_job
  <2>4. ~deserializes(build_coinbase(job, share))
    BY <1>3, <2>1, <2>3 DEF assembles
  <2>5. ~(share.extranonce1 = 1 /\ share.extra_nonce2 = 1)
    BY <1>1, <1>2, <2>2, <2>4, CoinbaseSays
  <2>6. share.extranonce1 \in 0 .. 1 /\ share.extra_nonce2 \in 0 .. 1
    BY <2>2 DEF Share
  <2>7. QED
    BY <2>5, <2>6
<1>4. QED
  BY <1>1, <1>3

\* A block is put together of an RPC job and the judged share.
LEMMA BlockOfShare ==
    ASSUME Kept, block # NoBlock
    PROVE  /\ verdict = "Block" /\ job # NoJob /\ share \in Share /\ ~version_refused(share)
           /\ pool.services.job_source.kind = "rpc"
           /\ job \in template_to_job(template, pool.services.job_source.payout)
           /\ pool.services.job_source.payout \in Nat /\ template \in Template
           /\ trace.header = build_block_header(job, share)
           /\ block.header = build_block_header(job, share)
           /\ block.coinbase.bytes = coinbase /\ block.coinbase.witness = template.commitment
           /\ block.transactions =
                [i \in DOMAIN template.transactions |-> template.transactions[i].data]
           /\ \A i \in DOMAIN template.transactions : template.transactions[i].parses
<1>1. /\ verdict = "Block" /\ assembles(job, share, template)
      /\ block = build_raw_block(build_block_header(job, share),
                                 restore_coinbase_witness(coinbase, template), template)
  BY DEF Kept, Submitted
<1>2. /\ job # NoJob /\ share \in Share /\ ~version_refused(share)
      /\ trace.header = build_block_header(job, share)
  BY <1>1, TraceOfJudged DEF Judgement
<1>3. pool.services.job_source.kind = "rpc"
  <2> SUFFICES ASSUME pool.services.job_source.kind # "rpc" PROVE FALSE
    OBVIOUS
  <2>1. job \in api_template_to_job(template)
    BY <1>2, JobOfTemplate
  <2>2. job.block_assembly = FALSE
    BY <2>1 DEF api_template_to_job
  <2>3. QED
    BY <1>1, <2>2 DEF assembles
<1>4. /\ job \in template_to_job(template, pool.services.job_source.payout)
      /\ pool.services.job_source.payout \in Nat /\ template \in Template
  BY <1>2, <1>3, JobOfTemplate, PayoutConfigured
<1>5. /\ block.header = build_block_header(job, share)
      /\ block.coinbase = restore_coinbase_witness(coinbase, template)
      /\ block.transactions =
           [i \in DOMAIN template.transactions |-> template.transactions[i].data]
  <2>1. \A h, c, t : /\ build_raw_block(h, c, t).header = h /\ build_raw_block(h, c, t).coinbase = c
                     /\ build_raw_block(h, c, t).transactions =
                          [i \in DOMAIN t.transactions |-> t.transactions[i].data]
    BY DEF build_raw_block
  <2> HIDE DEF coinbase, template
  <2>2. QED
    BY <1>1, <2>1
<1>6. block.coinbase.bytes = coinbase /\ block.coinbase.witness = template.commitment
  BY <1>5 DEF restore_coinbase_witness
<1>7. \A i \in DOMAIN template.transactions : template.transactions[i].parses
  BY <1>1 DEF assembles
<1>8. QED
  BY <1>1, <1>2, <1>3, <1>4, <1>5, <1>6, <1>7

\* A digit behind a number is its remainder.
LEMMA OneMoreDigit ==
    ASSUME NEW q \in Nat, NEW x \in 0 .. BASE - 1
    PROVE  /\ q * BASE + x \in Nat /\ (q * BASE + x) \div BASE = q
           /\ (q * BASE + x) % BASE = x
<1> DEFINE n == q * BASE + x
<1>1. BASE \in Nat \ {0} /\ q * BASE \in Nat /\ x \in Nat
  BY WordAssumption, NatTimes
<1>2. n \div BASE = q
  BY <1>1, QuotientIsUnique
<1>3. n \in Nat
  BY <1>1
<1>4. n = (n \div BASE) * BASE + (n % BASE) /\ n % BASE \in Nat
  <2> HIDE DEF n
  <2>1. QED
    BY <1>1, <1>3, Divided
<1>5. q * BASE + x = q * BASE + (n % BASE)
  BY <1>2, <1>4
<1> DEFINE a == q * BASE
           r == n % BASE
<1>6. a + x = a + r /\ a \in Nat /\ r \in Nat
  BY <1>1, <1>4, <1>5
<1> HIDE DEF a, r
<1>7. x = r
  BY <1>1, <1>6
<1>8. QED
  BY <1>2, <1>3, <1>7 DEF r

\* The bits of a header are the template's.
LEMMA BitsBack ==
    ASSUME NEW t \in Template, NEW nbits \in decode_bits(t.bits)
    PROVE  hex_of_nbits(nbits) = t.bits
<1>1. PICK b : b = t.bits
  OBVIOUS
<1>2. /\ b \in Seq(Nat) /\ Len(b) = 4 /\ \A i \in 2 .. 4 : b[i] \in Byte
      /\ nbits = [exponent |-> b[1], mantissa |-> (b[2] * BASE + b[3]) * BASE + b[4]]
  BY <1>1 DEF Template, decode_bits
<1> DEFINE p == b[2] * BASE + b[3]
           m == p * BASE + b[4]
<1>3. BASE \in Nat \ {0, 1} /\ b[2] \in 0 .. BASE - 1 /\ b[3] \in 0 .. BASE - 1 /\ b[4] \in 0 .. BASE - 1
  BY <1>2, WordAssumption DEF Byte
<1>4. b[2] \in Nat /\ b[3] \in 0 .. BASE - 1 /\ b[4] \in 0 .. BASE - 1
  BY <1>3
<1>5. p \in Nat /\ p \div BASE = b[2] /\ p % BASE = b[3]
  BY <1>4, OneMoreDigit
<1> HIDE DEF p
<1>6. m \div BASE = p /\ m % BASE = b[4] /\ m \in Nat
  BY <1>4, <1>5, OneMoreDigit
<1> HIDE DEF m
<1>7. m \div Power(BASE, 2) = b[2]
  <2>1. m \div (BASE * BASE) = (m \div BASE) \div BASE
    BY <1>3, <1>6, DividedTwice
  <2>2. QED
    BY <1>5, <1>6, <2>1, Powers
<1>8. nbits.exponent = b[1] /\ nbits.mantissa = m
  BY <1>2 DEF m, p
<1>9. hex_of_nbits(nbits) = << b[1], b[2], b[3], b[4] >>
  BY <1>5, <1>6, <1>7, <1>8 DEF hex_of_nbits
<1>10. b = << b[1], b[2], b[3], b[4] >>
  <2>1. b = [i \in 1 .. 4 |-> b[i]]
    BY <1>2, LenProperties
  <2>2. QED
    BY <2>1
<1>11. QED
  BY <1>1, <1>9, <1>10

LEMMA KeptGivesSolvedBlockIsSound == Kept => SolvedBlockIsSound
<1> SUFFICES ASSUME Kept, block # NoBlock PROVE SolvedBlockIsSound
  BY DEF SolvedBlockIsSound
<1> DEFINE payout == pool.services.job_source.payout
           text == Effective("payout_script_pubkey_hex", "POOL__PAYOUT_SCRIPT_PUBKEY_HEX")
           header == build_block_header(job, share)
<1>1. /\ job # NoJob /\ share \in Share /\ ~version_refused(share)
      /\ pool.services.job_source.kind = "rpc"
      /\ job \in template_to_job(template, payout) /\ payout \in Nat /\ template \in Template
      /\ trace.header = header /\ block.header = header
      /\ block.coinbase.bytes = coinbase /\ block.coinbase.witness = template.commitment
  BY BlockOfShare
<1>2. /\ header.version = resolved_version(job, share)
      /\ header.prev_hash = job.prev_hash /\ header.nbits = job.nbits
      /\ header.ntime = TheOnly(submitted_ntime(hex8(rolled_time(build_mining_notify(job),
                                                                 share.rolled))))
  BY DEF build_block_header
<1> HIDE DEF header
<1>3. Reverse(block.header.prev_hash) = template.previousblockhash
  BY <1>1, <1>2, JobOfTemplate, HashOfTemplate
<1>4. hex_of_nbits(block.header.nbits) = template.bits
  BY <1>1, <1>2, JobOfTemplate, BitsBack
<1>5. ASSUME share.rolled = 0 PROVE block.header.ntime = template.curtime % U32
  <2>1. job.ntime = template.curtime % U32
    BY <1>1 DEF template_to_job, ntime_to_u32
  <2>2. job.ntime \in 0 .. U32 - 1 /\ share.rolled \in Nat
    BY <1>1, JobOfTemplate DEF Share
  <2>3. header.ntime = (job.ntime + share.rolled) % U32
    BY <1>2, <2>2, RolledTime
  <2>4. (job.ntime + 0) % U32 = job.ntime
    <3>1. U32 \in Nat \ {0}
      BY BytePowers
    <3> HIDE DEF U32
    <3>2. QED
      BY <2>2, <3>1
  <2>5. QED
    BY <1>1, <1>5, <2>1, <2>3, <2>4
<1>6. ASSUME share.version_bits # None
      PROVE  /\ block.header.version \ share.version_rolling_mask
                    = template.version \ share.version_rolling_mask
             /\ block.header.version \cap share.version_rolling_mask = share.version_bits
  <2>1. share.version_bits \subseteq share.version_rolling_mask
    BY <1>1, <1>6 DEF version_refused
  <2>2. header.version = (job.version \ share.version_rolling_mask)
                           \cup (share.version_bits \cap share.version_rolling_mask)
    BY <1>2, <1>6 DEF resolved_version
  <2>3. job.version = template.version
    BY <1>1, JobOfTemplate
  <2>4. QED
    BY <1>1, <2>1, <2>2, <2>3
<1>7. /\ HeightRead(coinbase) = template.height
      /\ \E i \in DOMAIN coinbase : coinbase[i] = [kind |-> "payout", n |-> payout]
  BY <1>1, CoinbaseSays DEF coinbase
<1>8. Item("payout", text.n)[1] = [kind |-> "payout", n |-> payout]
  <2>1. text.n = payout
    BY <1>1, PayoutConfigured
  <2> HIDE DEF text, payout
  <2>2. QED
    BY <2>1 DEF Item
<1>9. QED
  BY <1>1, <1>3, <1>4, <1>5, <1>6, <1>7, <1>8 DEF SolvedBlockIsSound

LEMMA TwoJoined == ASSUME NEW a, NEW b PROVE << a >> \o << b >> = << a, b >>
<1> DEFINE S == {a, b}
           s == << a >>
           t == << b >>
<1>1. s \in Seq(S) /\ t \in Seq(S) /\ Len(s) = 1 /\ Len(t) = 1
      /\ s[1] = a /\ t[1] = b
  OBVIOUS
<1> HIDE DEF S, s, t
<1>2. /\ s \o t \in Seq(S) /\ Len(s \o t) = Len(s) + Len(t)
      /\ \A i \in 1 .. Len(s) + Len(t) : (s \o t)[i] =
                     IF i <= Len(s) THEN s[i] ELSE t[i - Len(s)]
  BY <1>1, ConcatProperties, Zenon
<1> DEFINE u == s \o t
<1>3. u \in Seq(S) /\ Len(u) = 2 /\ u[1] = a /\ u[2] = b
  <2> HIDE DEF u
  <2>1. u \in Seq(S) /\ Len(u) = 1 + 1
    BY <1>1, <1>2 DEF u
  <2>2. \A i \in 1 .. 1 + 1 : u[i] = IF i <= 1 THEN s[i] ELSE t[i - 1]
    BY <1>1, <1>2 DEF u
  <2>3. 1 \in 1 .. 1 + 1 /\ 2 \in 1 .. 1 + 1 /\ 2 - 1 = 1
    OBVIOUS
  <2>4. QED
    BY <1>1, <2>1, <2>2, <2>3
<1> HIDE DEF u
<1>4. u = [i \in 1 .. 2 |-> u[i]]
  BY <1>3, LenProperties
<1>5. u = << a, b >>
  BY <1>3, <1>4
<1>6. QED
  BY <1>5 DEF u, s, t

LEMMA KeptGivesSmallBlocksCommit == Kept => SmallBlocksCommit
<1> SUFFICES ASSUME Kept, block # NoBlock, Len(template.transactions) =< 1,
                    \A i \in DOMAIN template.transactions : template.transactions[i].txid # None
             PROVE  block.header.merkle_root = RootOfBlock
  BY DEF SmallBlocksCommit
<1> DEFINE txs == template.transactions
           hash == double_sha256(coinbase)
           branch == build_merkle_branch(template)
<1>1. /\ template \in Template /\ job \in template_to_job(template, pool.services.job_source.payout)
      /\ block.header = build_block_header(job, share) /\ block.coinbase.bytes = coinbase
      /\ block.transactions = [i \in DOMAIN txs |-> txs[i].data]
      /\ \A i \in DOMAIN txs : txs[i].parses
  BY BlockOfShare
<1>2. job.merkle_branch = branch
  BY <1>1 DEF template_to_job
<1>3. block.header.merkle_root = apply_merkle_branch(hash, branch)
  BY <1>1, <1>2 DEF build_block_header, coinbase
<1>4. RootOfBlock = MerkleRoot(<< hash >> \o block.transactions)
  BY <1>1 DEF RootOfBlock
<1>5. /\ Len(txs) = 0 => Len(branch) = 0
      /\ Len(txs) = 1 => Len(branch) = 1 /\ branch[1] = txs[1].data
  BY <1>1, SmallBranch
<1>6. txs \in Seq(Entry) /\ Len(txs) \in Nat /\ DOMAIN txs = 1 .. Len(txs)
  <2>1. txs \in Seq(Entry)
    BY <1>1 DEF Template
  <2> HIDE DEF txs
  <2>2. QED
    BY <2>1, LenProperties
<1>7. Len(txs) =< 1
  OBVIOUS
<1> HIDE DEF txs, hash, branch
<1>8. CASE Len(txs) = 0
  <2>1. block.transactions = << >>
    BY <1>1, <1>6, <1>8
  <2>2. << hash >> \o << >> = << hash >>
    OBVIOUS
  <2>3. QED
    BY <1>3, <1>4, <1>5, <1>8, <2>1, <2>2, RootOfOne, RootWithoutBranch
<1>9. CASE Len(txs) = 1
  <2> DEFINE d == txs[1].data
  <2>1. block.transactions = << d >>
    BY <1>1, <1>6, <1>9
  <2> HIDE DEF d
  <2>2. << hash >> \o << d >> = << hash, d >>
    BY TwoJoined
  <2>3. RootOfBlock = double_sha256(<< hash, d >>)
    BY <1>4, <2>1, <2>2, RootOfTwo
  <2>4. apply_merkle_branch(hash, branch) = double_sha256(<< hash, d >>)
    BY <1>5, <1>9, RootWithOneNeighbour DEF d
  <2>5. QED
    BY <1>3, <2>3, <2>4
<1>10. QED
  BY <1>6, <1>7, <1>8, <1>9

\* The invariant of the specification.
LEMMA AlwaysKept == Spec => []Kept
<1>1. Init => Kept
  BY InitKept
<1>2. Kept /\ [Next]_vars => Kept'
  BY StepKept
<1>3. QED
  BY <1>1, <1>2, PTL DEF Spec

-----------------------------------------------------------------------------
\* Each property follows from the invariant in the state it is about.

(***************************************************************************)
(* Every value of a case is one the program can hold; targets and hashes   *)
(* have the width of a target, and a time 32 bits.                         *)
(***************************************************************************)
THEOREM CandidateTypeOK == Spec => []TypeOK
BY AlwaysKept, KeptGivesTypeOK, PTL

(***************************************************************************)
(* What validate_share says of a share is what the numbers say.            *)
(***************************************************************************)
THEOREM CandidateJudgedByValue == Spec => []JudgedByValue
BY AlwaysKept, KeptGivesJudgedByValue, PTL

(***************************************************************************)
(* In a running pool every setting followed to its use is the              *)
(* environment's, else the file's, else the default.                       *)
(***************************************************************************)
THEOREM CandidateEnvironmentDecides == Spec => []EnvironmentDecides
BY AlwaysKept, KeptGivesEnvironmentDecides, PTL

(***************************************************************************)
(* A block that build_raw_block puts together has the header that was      *)
(* judged and the coinbase its template calls for.                         *)
(***************************************************************************)
THEOREM CandidateSolvedBlockIsSound == Spec => []SolvedBlockIsSound
BY AlwaysKept, KeptGivesSolvedBlockIsSound, PTL

(***************************************************************************)
(* With at most one transaction besides the coinbase, the header's merkle  *)
(* root is the block's.                                                    *)
(***************************************************************************)
THEOREM CandidateSmallBlocksCommit == Spec => []SmallBlocksCommit
BY AlwaysKept, KeptGivesSmallBlocksCommit, PTL

(***************************************************************************)
(* What a miner that turns the elements of the branch round makes of       *)
(* mining.notify is the header the pool judges, for branches of any        *)
(* length; what one makes that does not is another, as soon as an element  *)
(* reads differently the other way round.                                  *)
(***************************************************************************)
THEOREM CandidateMinerHashesTheSameHeader == Spec => []MinerHashesTheSameHeader
BY AlwaysKept, KeptGivesMinerHashesTheSameHeader, PTL

(***************************************************************************)
(* With work in RPC mode, nothing but data that is no transaction keeps    *)
(* the block of a subscribed miner from being put together.                *)
(***************************************************************************)
THEOREM CandidateOnlyTransactionsSpoilBlocks == Spec => []OnlyTransactionsSpoilBlocks
BY AlwaysKept, KeptGivesOnlyTransactionsSpoilBlocks, PTL

=============================================================================
