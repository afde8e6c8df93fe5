--------------------------- MODULE Sv1SessionProofs ---------------------------
(***************************************************************************)
(* What sessions do not share and what they must agree on, for any number  *)
(* of connections, users, version bits and subscriptions.                  *)
(***************************************************************************)
EXTENDS Sv1Session, FiniteSetTheorems, TLAPS

(***************************************************************************)
(* The n-th subscription got extranonce1 e: the counter is n modulo its    *)
(* width, said without a division.                                         *)
(***************************************************************************)
Counted(n, e) == \E k \in Nat : n = k * EN1_SPACE + e

Spaced ==
    /\ Counted(subscribes + 1, NEXT_EXTRANONCE1)
    /\ \A s \in Session : nth[s] # 0 => extranonce1[s] # None /\ Counted(nth[s], extranonce1[s])

Granted == \A s \in Session : version_rolling[s] \subseteq granted[s]

Credited ==
    /\ \A s \in Session : authorized_worker[s] # None => authorized_worker[s] \in workers
    /\ judged # NoShare => judged.worker \in workers

Inv == TypeOK /\ IsFiniteSet(open) /\ Spaced /\ Granted /\ Credited

-----------------------------------------------------------------------------
\* The counter as it starts, counts on, and wraps.
LEMMA Wrapped ==
    ASSUME NEW e \in 0 .. EN1_SPACE
    PROVE  /\ e % EN1_SPACE \in 0 .. EN1_SPACE - 1
           /\ e % EN1_SPACE = IF e = EN1_SPACE THEN 0 ELSE e
<1>1. EN1_SPACE \in Nat \ {0}
  BY SpaceAssumption
<1>2. QED
  BY <1>1, SMT

LEMMA CountOn ==
    ASSUME NEW n \in Nat, NEW e \in 0 .. EN1_SPACE - 1, Counted(n, e)
    PROVE  Counted(n + 1, (e + 1) % EN1_SPACE)
<1>1. EN1_SPACE \in Nat \ {0} /\ e + 1 \in 0 .. EN1_SPACE
  BY SpaceAssumption
<1>2. PICK k \in Nat : n = k * EN1_SPACE + e
  BY DEF Counted
<1>3. k * EN1_SPACE \in Nat /\ (k + 1) * EN1_SPACE = k * EN1_SPACE + EN1_SPACE
  BY <1>1
<1>4. CASE e + 1 = EN1_SPACE
  <2>1. (e + 1) % EN1_SPACE = 0
    BY <1>1, <1>4, Wrapped
  <2>2. n + 1 = (k + 1) * EN1_SPACE + 0
    BY <1>1, <1>2, <1>3, <1>4
  <2>3. QED
    BY <2>1, <2>2 DEF Counted
<1>5. CASE e + 1 # EN1_SPACE
  <2>1. (e + 1) % EN1_SPACE = e + 1
    BY <1>1, <1>5, Wrapped
  <2>2. n + 1 = k * EN1_SPACE + (e + 1)
    BY <1>1, <1>2, <1>3
  <2>3. QED
    BY <2>1, <2>2 DEF Counted
<1>6. QED
  BY <1>4, <1>5

\* Two subscriptions that got the same extranonce1 are a multiple apart.
LEMMA SameExtranonceFarApart ==
    ASSUME NEW m \in Nat, NEW n \in Nat, NEW e \in 0 .. EN1_SPACE - 1,
           Counted(m, e), Counted(n, e)
    PROVE  ~Apart(m, n)
<1>1. EN1_SPACE \in Nat \ {0}
  BY SpaceAssumption
<1>2. ASSUME NEW j \in Nat, NEW k \in Nat, j < k
      PROVE  k * EN1_SPACE >= j * EN1_SPACE + EN1_SPACE
  <2>1. PICK d \in Nat : k = j + 1 + d
    <3>1. k - j - 1 \in Nat /\ k = j + 1 + (k - j - 1)
      BY <1>2
    <3>2. QED
      BY <3>1
  <2>2. k * EN1_SPACE = j * EN1_SPACE + EN1_SPACE + d * EN1_SPACE
    BY <1>1, <2>1
  <2>3. j * EN1_SPACE \in Nat /\ d * EN1_SPACE \in Nat
    BY <1>1
  <2>4. QED
    BY <1>1, <2>2, <2>3
<1>3. PICK j \in Nat : m = j * EN1_SPACE + e
  BY DEF Counted
<1>4. PICK k \in Nat : n = k * EN1_SPACE + e
  BY DEF Counted
<1>5. j * EN1_SPACE \in Nat /\ k * EN1_SPACE \in Nat
  BY <1>1
<1>6. CASE j = k
  BY <1>3, <1>4, <1>6 DEF Apart
<1>7. CASE j < k
  BY <1>1, <1>2, <1>3, <1>4, <1>5, <1>7 DEF Apart
<1>8. CASE k < j
  BY <1>1, <1>2, <1>3, <1>4, <1>5, <1>8 DEF Apart
<1>9. QED
  BY <1>6, <1>7, <1>8

LEMMA InvOwnSearchSpace == Inv => OwnSearchSpace
<1> SUFFICES ASSUME Inv, NEW s \in open, NEW r \in open,
                    nth[s] # 0, nth[r] # 0, Apart(nth[s], nth[r])
             PROVE  extranonce1[s] # extranonce1[r]
  BY DEF OwnSearchSpace
<1>1. s \in Session /\ r \in Session /\ nth[s] \in Nat /\ nth[r] \in Nat
  BY SpaceAssumption DEF Inv, TypeOK
<1>2. /\ Counted(nth[s], extranonce1[s]) /\ Counted(nth[r], extranonce1[r])
      /\ extranonce1[s] \in 0 .. EN1_SPACE - 1
  BY <1>1 DEF Inv, Spaced, TypeOK
<1>3. QED
  BY <1>1, <1>2, SameExtranonceFarApart

-----------------------------------------------------------------------------
LEMMA InitInv == Init => Inv
<1> SUFFICES ASSUME Init PROVE Inv
  OBVIOUS
<1>1. 1 \in 0 .. EN1_SPACE
  BY SpaceAssumption
<1>2. IsFiniteSet(open) /\ Cardinality(open) = 0
  BY FS_EmptySet DEF Init
<1>3. TypeOK
  BY <1>1, <1>2, Wrapped, SpaceAssumption DEF Init, TypeOK, EN2_SIZE
<1>4. Spaced
  <2>1. Counted(0, 0)
    <3>1. 0 = 0 * EN1_SPACE + 0
      BY SpaceAssumption
    <3>2. QED
      BY <3>1 DEF Counted
  <2>2. 0 \in 0 .. EN1_SPACE - 1
    BY SpaceAssumption
  <2>3. Counted(0 + 1, (0 + 1) % EN1_SPACE)
    BY <2>1, <2>2, CountOn
  <2>4. QED
    BY <2>3 DEF Init, Spaced
<1>5. Granted /\ Credited
  BY DEF Init, Granted, Credited
<1>6. QED
  BY <1>2, <1>3, <1>4, <1>5 DEF Inv

LEMMA ConnectStep == ASSUME Inv, NEW s \in Session, Connect(s) PROVE Inv'
<1>1. IsFiniteSet(open') /\ Cardinality(open') = Cardinality(open) + 1
  BY FS_AddElement DEF Inv, Connect
<1>2. TypeOK'
  BY <1>1 DEF Inv, TypeOK, Connect, sessionVars, historyVars
<1>3. (Spaced /\ Granted /\ Credited)'
  BY DEF Inv, Spaced, Counted, Granted, Credited, Connect, sessionVars, historyVars
<1>4. QED
  BY <1>1, <1>2, <1>3 DEF Inv

LEMMA DisconnectStep == ASSUME Inv, NEW s \in Session, Disconnect(s) PROVE Inv'
<1>1. IsFiniteSet(open') /\ Cardinality(open') = Cardinality(open) - 1
  BY FS_RemoveElement DEF Inv, Disconnect
<1>2. TypeOK'
  BY <1>1, SpaceAssumption DEF Inv, TypeOK, Disconnect, EN2_SIZE
<1>3. Spaced'
  BY DEF Inv, TypeOK, Spaced, Counted, Disconnect
<1>4. (Granted /\ Credited)'
  BY DEF Inv, TypeOK, Granted, Credited, Disconnect
<1>5. QED
  BY <1>1, <1>2, <1>3, <1>4 DEF Inv

LEMMA ConfigureStep == ASSUME Inv, NEW s \in Session, Configure(s) PROVE Inv'
<1>1. PICK cmd \in ConfigureCommand :
         /\ version_rolling' = [version_rolling EXCEPT ![s] =
                                   IF cmd = None THEN {} ELSE negotiate_version_rolling(cmd)]
         /\ granted' = [granted EXCEPT ![s] = told(@, cmd)]
  BY DEF Configure
<1>2. TypeOK'
  <2>1. version_rolling' \in [Session -> SUBSET POOL_MASK]
    BY <1>1 DEF Inv, TypeOK, negotiate_version_rolling
  <2>2. granted' \in [Session -> SUBSET Bits]
    BY <1>1, MaskAssumption DEF Inv, TypeOK, negotiate_version_rolling, told
  <2>3. QED
    BY <2>1, <2>2 DEF Inv, TypeOK, Configure
<1>3. Granted'
  BY <1>1 DEF Inv, TypeOK, Granted, told
<1>4. (IsFiniteSet(open) /\ Spaced /\ Credited)'
  BY DEF Inv, Spaced, Counted, Credited, Configure
<1>5. QED
  BY <1>2, <1>3, <1>4 DEF Inv

LEMMA SubscribeStep == ASSUME Inv, NEW s \in Session, Subscribe(s) PROVE Inv'
<1>1. /\ NEXT_EXTRANONCE1 \in 0 .. EN1_SPACE - 1 /\ NEXT_EXTRANONCE1 + 1 \in 0 .. EN1_SPACE
      /\ subscribes + 1 \in Nat /\ subscribes + 1 \in 0 .. MaxSubscribes
  BY SpaceAssumption DEF Inv, TypeOK, Subscribe
<1>2. TypeOK'
  BY <1>1, Wrapped DEF Inv, TypeOK, Subscribe, EN2_SIZE
<1>3. Counted(subscribes' + 1, NEXT_EXTRANONCE1')
  BY <1>1, CountOn DEF Inv, Spaced, Subscribe
<1>4. ASSUME NEW r \in Session, nth'[r] # 0
      PROVE  extranonce1'[r] # None /\ Counted(nth'[r], extranonce1'[r])
  <2>1. CASE r = s
    BY <1>1, <2>1, NoneAssumption DEF Inv, TypeOK, Spaced, Subscribe
  <2>2. CASE r # s
    BY <1>4, <2>2 DEF Inv, TypeOK, Spaced, Subscribe
  <2>3. QED
    BY <2>1, <2>2
<1>5. Spaced'
  BY <1>3, <1>4 DEF Spaced, Counted
<1>6. (IsFiniteSet(open) /\ Granted /\ Credited)'
  BY DEF Inv, Granted, Credited, Subscribe
<1>7. QED
  BY <1>2, <1>5, <1>6 DEF Inv

LEMMA AuthorizeStep == ASSUME Inv, NEW s \in Session, Authorize(s) PROVE Inv'
<1>1. PICK u \in User : /\ workers' = workers \cup {u}
                        /\ authorized_worker' = [authorized_worker EXCEPT ![s] = u]
  BY DEF Authorize, AuthorizeCommand
<1>2. TypeOK'
  BY <1>1 DEF Inv, TypeOK, Authorize, historyVars
<1>3. Credited'
  BY <1>1 DEF Inv, TypeOK, Credited, Authorize, historyVars
<1>4. (IsFiniteSet(open) /\ Spaced /\ Granted)'
  BY DEF Inv, Spaced, Counted, Granted, Authorize, historyVars
<1>5. QED
  BY <1>2, <1>3, <1>4 DEF Inv

LEMMA SubmitStep ==
    ASSUME Inv, NEW s \in Session, SubmitShare(s)
    PROVE  Inv' /\ (judged'.version_bits # None =>
                       judged'.version_bits \subseteq granted[judged'.session] \cap POOL_MASK)
<1>1. PICK cmd \in SubmitCommand :
         /\ context_accepted(s, cmd)
         /\ judged' = [session |-> s, worker |-> cmd.username, extranonce1 |-> extranonce1[s],
                       version_bits |-> cmd.version_bits]
  BY DEF SubmitShare
<1>2. UNCHANGED << NEXT_EXTRANONCE1, workers, active_connections, open, sessionVars,
                   granted, subscribes, nth >>
  BY DEF SubmitShare
<1>3. judged' \in Judged
  BY <1>1 DEF Judged, SubmitCommand, Inv, TypeOK
<1>4. TypeOK'
  BY <1>2, <1>3 DEF Inv, TypeOK, sessionVars
<1>5. Credited'
  <2>1. cmd.username \in User /\ authorized_worker[s] = cmd.username /\ cmd.username # None
    BY <1>1, NoneAssumption DEF SubmitCommand, context_accepted
  <2>2. judged'.worker \in workers
    BY <1>1, <2>1 DEF Inv, Credited
  <2>3. QED
    BY <1>2, <2>2 DEF Inv, Credited, sessionVars
<1>6. (IsFiniteSet(open) /\ Spaced /\ Granted)'
  BY <1>2 DEF Inv, Spaced, Counted, Granted, sessionVars
<1>7. ASSUME judged'.version_bits # None
      PROVE  judged'.version_bits \subseteq granted[judged'.session] \cap POOL_MASK
  <2>1. cmd.version_bits \subseteq version_rolling[s]
    BY <1>1, <1>7 DEF context_accepted
  <2>2. version_rolling[s] \subseteq granted[s] /\ version_rolling[s] \subseteq POOL_MASK
    BY DEF Inv, TypeOK, Granted
  <2>3. QED
    BY <1>1, <2>1, <2>2
<1>8. QED
  BY <1>4, <1>5, <1>6, <1>7 DEF Inv

LEMMA StepInv == Inv /\ [Next]_vars => Inv'
<1> SUFFICES ASSUME Inv, [Next]_vars PROVE Inv'
  OBVIOUS
<1>1. CASE Next
  BY <1>1, ConnectStep, DisconnectStep, ConfigureStep, SubscribeStep, AuthorizeStep, SubmitStep
  DEF Next
<1>2. CASE UNCHANGED vars
  BY <1>2 DEF vars, sessionVars, historyVars, Inv, TypeOK, Spaced, Counted, Granted, Credited
<1>3. QED
  BY <1>1, <1>2

(***************************************************************************)
(* The types of the session state; the count of connections is the number  *)
(* of connections that are served.                                         *)
(***************************************************************************)
THEOREM SessionTypeOK == Spec => []TypeOK
<1>1. Inv => TypeOK
  BY DEF Inv
<1>2. QED
  BY <1>1, InitInv, StepInv, PTL DEF Spec

(***************************************************************************)
(* No two miners search the same space, for a counter of any width and any *)
(* number of subscriptions, its wrap included.                             *)
(***************************************************************************)
THEOREM SessionOwnSearchSpace == Spec => []OwnSearchSpace
BY InitInv, StepInv, InvOwnSearchSpace, PTL DEF Spec

(***************************************************************************)
(* The worker of a judged share, and the one a session speaks for, is in   *)
(* the list, after any sequence of authorizations.                         *)
(***************************************************************************)
THEOREM SessionCreditedWorkersAreListed == Spec => []CreditedWorkersAreListed
<1>1. Inv => CreditedWorkersAreListed
  BY DEF Inv, TypeOK, Credited, CreditedWorkersAreListed
<1>2. QED
  BY <1>1, InitInv, StepInv, PTL DEF Spec

(***************************************************************************)
(* No share is judged that rolls a version bit its miner was not granted   *)
(* on this connection, or one outside the mask of the pool.                *)
(***************************************************************************)
THEOREM SessionOnlyGrantedBitsRolled == Spec => OnlyGrantedBitsRolled
<1> DEFINE Rolled == judged' # judged /\ judged'.version_bits # None =>
                        judged'.version_bits \subseteq granted[judged'.session] \cap POOL_MASK
<1>1. Inv /\ [Next]_vars => [Rolled]_vars
  <2> SUFFICES ASSUME Inv, Next PROVE Rolled
    OBVIOUS
  <2>1. PICK s \in Session :
           \/ Connect(s) \/ Disconnect(s)
           \/ Configure(s) \/ Subscribe(s) \/ Authorize(s) \/ SubmitShare(s)
    BY DEF Next
  <2>2. CASE SubmitShare(s)
    BY <2>2, SubmitStep
  <2>3. CASE \/ Connect(s) \/ Disconnect(s) \/ Configure(s) \/ Subscribe(s) \/ Authorize(s)
    BY <2>3 DEF Connect, Disconnect, Configure, Subscribe, Authorize, historyVars
  <2>4. QED
    BY <2>1, <2>2, <2>3
<1>2. QED
  BY <1>1, InitInv, StepInv, PTL DEF Spec, OnlyGrantedBitsRolled
=============================================================================
