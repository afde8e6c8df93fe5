------------------------ MODULE ActiveJobRegistryProofs ------------------------
(***************************************************************************)
(* What holds of the registry for every set of ids, templates and jobs and *)
(* every bound: its invariant and how jobs leave it.                       *)
(***************************************************************************)
EXTENDS ActiveJobRegistry, SequenceTheorems, TLAPS

IInv == TypeOK /\ Consistent

\* What making room does to the order: nothing while there is room, and it
\* drops the first id of a full one.
LEMMA MakingRoom ==
    ASSUME IInv
    PROVE  \E m \in Nat, gone \in {0, 1} :
              /\ Len(order) = m + gone
              /\ m < ACTIVE_JOBS_MAX
              /\ gone = 1 => m + 1 = ACTIVE_JOBS_MAX
              /\ Surviving \in Seq(JobId)
              /\ Len(Surviving) = m
              /\ \A i \in 1 .. m : Surviving[i] = order[i + gone]
              /\ Range(Evicted) = IF gone = 0 THEN {} ELSE {order[1]}
<1> DEFINE n == Len(order)
<1>1. /\ n \in Nat
      /\ n =< ACTIVE_JOBS_MAX
      /\ ACTIVE_JOBS_MAX \in Nat \ {0}
      /\ order \in Seq(JobId)
      /\ \A i \in 1 .. n : order[i] \in JobId
  BY MaxAssumption, LenProperties, ElementOfSeq DEF IInv, TypeOK, Consistent
<1>2. CASE n < ACTIVE_JOBS_MAX
  <2>1. Evicted = << >>
    BY <1>1, <1>2, SubSeqEmpty DEF Evicted
  <2>2. Surviving = order
    BY <1>1, <2>1, SubSeqFull DEF Surviving
  <2>3. Range(Evicted) = {}
    BY <2>1 DEF Range
  <2>4. /\ n = n + 0
        /\ \A i \in 1 .. n : Surviving[i] = order[i + 0]
    BY <1>1, <2>2
  <2>5. WITNESS n \in Nat, 0 \in {0, 1}
  <2>6. QED
    BY <1>1, <1>2, <2>2, <2>3, <2>4
<1>3. CASE n = ACTIVE_JOBS_MAX
  <2>1. /\ Evicted \in Seq(JobId)
        /\ Len(Evicted) = 1
        /\ Evicted[1] = order[1]
    BY <1>1, <1>3, SubSeqProperties DEF Evicted
  <2>2. /\ Surviving \in Seq(JobId)
        /\ Len(Surviving) = n - 1
        /\ \A i \in 1 .. n - 1 : Surviving[i] = order[i + 1]
    <3>1. Surviving = SubSeq(order, 2, n)
      BY <2>1 DEF Surviving
    <3>2. \A i \in 2 .. n : order[i] \in JobId
      BY <1>1
    <3>3. /\ SubSeq(order, 2, n) \in Seq(JobId)
          /\ Len(SubSeq(order, 2, n)) = IF 2 =< n THEN n - 2 + 1 ELSE 0
          /\ \A i \in 1 .. n - 2 + 1 : SubSeq(order, 2, n)[i] = order[2 + i - 1]
      BY <1>1, <3>2, SubSeqProperties
    <3>4. \A i \in 1 .. n - 1 : i \in 1 .. n - 2 + 1 /\ 2 + i - 1 = i + 1
      BY <1>1
    <3>5. QED
      BY <1>1, <1>3, <3>1, <3>3, <3>4
  <2>3. Range(Evicted) = {order[1]}
    BY <2>1, RangeEquality
  <2>4. /\ n = (n - 1) + 1
        /\ n - 1 \in Nat
        /\ n - 1 < ACTIVE_JOBS_MAX
        /\ (n - 1) + 1 = ACTIVE_JOBS_MAX
    BY <1>1, <1>3
  <2>5. WITNESS n - 1 \in Nat, 1 \in {0, 1}
  <2>6. QED
    BY <1>1, <2>2, <2>3, <2>4
<1>4. QED
  BY <1>1, <1>2, <1>3

LEMMA InitIInv == Init => IInv
<1> SUFFICES ASSUME Init PROVE IInv
  OBVIOUS
<1>1. order = << >> /\ by_id = << >>
  BY DEF Init
<1>2. order \in Seq(JobId) /\ Len(order) = 0 /\ DOMAIN order = {}
  BY <1>1, EmptySeq
<1>3. by_id \in [{} -> Jobs]
  BY <1>1
<1>4. TypeOK
  BY <1>2, <1>3 DEF TypeOK
<1>5. Range(order) = DOMAIN by_id
  BY <1>2, <1>3 DEF Range
<1>6. QED
  BY <1>2, <1>3, <1>4, <1>5, MaxAssumption DEF IInv, Consistent

\* An accepted clean job is alone in the registry.
LEMMA CleanStep ==
    ASSUME IInv, NEW job \in Jobs, RegisterClean(job)
    PROVE  /\ IInv'
           /\ order' = << job.job_id >>
           /\ by_id' = [id \in {job.job_id} |-> job]
<1>1. job.job_id \in JobId
  BY JobsAssumption DEF Job
<1>2. by_id' = [id \in {job.job_id} |-> job]
  BY DEF RegisterClean, Installed
<1>3. order' = << job.job_id >>
  BY DEF RegisterClean
<1>4. /\ order' \in Seq(JobId)
      /\ Len(order') = 1
      /\ DOMAIN order' = {1}
      /\ order'[1] = job.job_id
  BY <1>1, <1>3
<1>5. TypeOK'
  BY <1>1, <1>2, <1>4 DEF TypeOK
<1>6. Range(order') = {job.job_id}
  BY <1>4 DEF Range
<1>7. Consistent'
  BY <1>2, <1>4, <1>6, MaxAssumption DEF Consistent
<1>8. QED
  BY <1>2, <1>3, <1>5, <1>7 DEF IInv

\* The ids a new job leaves in the registry, and the jobs under them.
LEMMA NewStep ==
    ASSUME IInv, NEW job \in Jobs, RegisterNew(job)
    PROVE  /\ IInv'
           /\ DOMAIN by_id' = (DOMAIN by_id \ Range(Evicted)) \cup {job.job_id}
           /\ \A id \in DOMAIN by_id \ Range(Evicted) : by_id'[id] = by_id[id]
           /\ by_id'[job.job_id] = job
<1>1. /\ job.job_id \in JobId
      /\ job.job_id \notin DOMAIN by_id
      /\ by_id' = Installed(DOMAIN by_id \ Range(Evicted), job)
      /\ order' = Append(Surviving, job.job_id)
  BY JobsAssumption DEF Job, RegisterNew, contains
<1>2. /\ DOMAIN by_id' = (DOMAIN by_id \ Range(Evicted)) \cup {job.job_id}
      /\ \A id \in DOMAIN by_id \ Range(Evicted) : by_id'[id] = by_id[id]
      /\ by_id'[job.job_id] = job
  BY <1>1 DEF Installed
<1>3. PICK m \in Nat, gone \in {0, 1} :
         /\ Len(order) = m + gone
         /\ m < ACTIVE_JOBS_MAX
         /\ gone = 1 => m + 1 = ACTIVE_JOBS_MAX
         /\ Surviving \in Seq(JobId)
         /\ Len(Surviving) = m
         /\ \A i \in 1 .. m : Surviving[i] = order[i + gone]
         /\ Range(Evicted) = IF gone = 0 THEN {} ELSE {order[1]}
  BY MakingRoom
<1>4. /\ DOMAIN order = 1 .. m + gone
      /\ Range(order) = DOMAIN by_id
      /\ \A i, j \in 1 .. m + gone : order[i] = order[j] => i = j
      /\ \A id \in DOMAIN by_id : by_id[id].job_id = id
  <2>1. DOMAIN order = 1 .. Len(order)
    BY LenProperties DEF IInv, TypeOK
  <2>2. DOMAIN order = 1 .. m + gone
    BY <1>3, <2>1
  <2>3. QED
    BY <2>2, Zenon DEF IInv, Consistent
<1>5. /\ order' \in Seq(JobId)
      /\ Len(order') = m + 1
      /\ DOMAIN order' = 1 .. m + 1
      /\ \A i \in 1 .. m : order'[i] = order[i + gone]
      /\ order'[m + 1] = job.job_id
  <2>1. /\ order' \in Seq(JobId)
        /\ Len(order') = m + 1
        /\ \A i \in 1 .. m : order'[i] = Surviving[i]
        /\ order'[m + 1] = job.job_id
    BY <1>1, <1>3, AppendProperties
  <2>2. QED
    BY <1>3, <2>1, LenProperties
<1>6. TypeOK'
  <2>1. PICK known \in SUBSET JobId : by_id \in [known -> Jobs]
    BY DEF IInv, TypeOK
  <2>2. by_id' \in [(known \ Range(Evicted)) \cup {job.job_id} -> Jobs]
    BY <1>1, <2>1 DEF Installed
  <2>3. QED
    BY <1>1, <1>5, <2>2 DEF TypeOK
<1>7. Range(order') = DOMAIN by_id'
  <2>1. ASSUME NEW i \in 1 .. m + 1 PROVE order'[i] \in DOMAIN by_id'
    <3>1. CASE i = m + 1
      BY <1>2, <1>5, <3>1
    <3>2. CASE i \in 1 .. m
      <4>1. i + gone \in 1 .. m + gone /\ order'[i] = order[i + gone]
        BY <1>3, <1>5, <3>2
      <4>2. order'[i] \in DOMAIN by_id
        BY <1>4, <4>1 DEF Range
      <4>3. order'[i] \notin Range(Evicted)
        <5>1. CASE gone = 0
          BY <1>3, <5>1
        <5>2. CASE gone = 1
          <6>1. i + gone # 1 /\ 1 \in 1 .. m + gone
            BY <1>3, <3>2, <5>2
          <6>2. order[i + gone] # order[1]
            BY <1>4, <4>1, <6>1
          <6>3. QED
            BY <1>3, <4>1, <5>2, <6>2
        <5>3. QED
          BY <1>3, <5>1, <5>2
      <4>4. QED
        BY <1>2, <4>2, <4>3
    <3>3. QED
      BY <1>3, <3>1, <3>2
  <2>2. ASSUME NEW id \in DOMAIN by_id'
        PROVE  \E i \in 1 .. m + 1 : order'[i] = id
    <3>1. CASE id = job.job_id
      <4>1. m + 1 \in 1 .. m + 1
        BY <1>3
      <4>2. QED
        BY <1>5, <3>1, <4>1
    <3>2. CASE id \in DOMAIN by_id \ Range(Evicted)
      <4>1. PICK j \in 1 .. m + gone : order[j] = id
        BY <1>4, <3>2 DEF Range
      <4>2. gone = 1 => j # 1
        BY <1>3, <3>2, <4>1
      <4>3. /\ j - gone \in 1 .. m
            /\ j - gone \in 1 .. m + 1
            /\ (j - gone) + gone = j
        BY <1>3, <4>2
      <4>4. order'[j - gone] = id
        BY <1>5, <4>1, <4>3
      <4>5. QED
        BY <4>3, <4>4
    <3>3. QED
      BY <1>2, <3>1, <3>2
  <2>3. QED
    BY <1>5, <2>1, <2>2 DEF Range
<1>8. ASSUME NEW i \in 1 .. m + 1, NEW j \in 1 .. m + 1,
             order'[i] = order'[j], i # j
      PROVE  FALSE
  <2>1. \A k \in 1 .. m : k + gone \in 1 .. m + gone
    BY <1>3
  <2>2. \A k \in 1 .. m : order'[k] # job.job_id
    <3>1. TAKE k \in 1 .. m
    <3>2. order'[k] \in Range(order)
      BY <1>4, <1>5, <2>1 DEF Range
    <3>3. QED
      BY <1>1, <1>4, <3>2
  <2>3. \A k \in 1 .. m + 1 : k = m + 1 \/ k \in 1 .. m
    BY <1>3
  <2>4. i \in 1 .. m /\ j \in 1 .. m
    BY <1>5, <1>8, <2>2, <2>3
  <2>5. i + gone = j + gone
    BY <1>4, <1>5, <1>8, <2>1, <2>4
  <2>6. QED
    BY <1>3, <1>8, <2>4, <2>5
<1>9. \A id \in DOMAIN by_id' : by_id'[id].job_id = id
  BY <1>2, <1>4
<1>10. Consistent'
  BY <1>3, <1>5, <1>7, <1>8, <1>9, MaxAssumption DEF Consistent
<1>11. QED
  BY <1>2, <1>6, <1>10 DEF IInv

LEMMA StepIInv == IInv /\ [Next]_vars => IInv'
<1> SUFFICES ASSUME IInv, [Next]_vars PROVE IInv'
  OBVIOUS
<1>1. ASSUME NEW job \in Jobs, RegisterClean(job) PROVE IInv'
  BY <1>1, CleanStep
<1>2. ASSUME NEW job \in Jobs, RegisterNew(job) PROVE IInv'
  BY <1>2, NewStep
<1>3. CASE UNCHANGED vars
  BY <1>3 DEF vars, IInv, TypeOK, Consistent
<1>4. QED
  BY <1>1, <1>2, <1>3 DEF Next, register, RegisterKnown

(***************************************************************************)
(* The registry has the type declared for it and its two collections agree *)
(* after every sequence of ActiveJobRegistry::register calls.              *)
(***************************************************************************)
THEOREM RegistryTypeOK == Spec => []TypeOK
<1>1. IInv => TypeOK
  BY DEF IInv
<1>2. QED
  BY <1>1, InitIInv, StepIInv, PTL DEF Spec

\* by_id and order list the same ids, once each, at most ACTIVE_JOBS_MAX.
THEOREM RegistryConsistent == Spec => []Consistent
<1>1. IInv => Consistent
  BY DEF IInv
<1>2. QED
  BY <1>1, InitIInv, StepIInv, PTL DEF Spec

(***************************************************************************)
(* No call of register drops a job but by cleaning or as the oldest of a   *)
(* full registry, and none rewrites the job filed under a known id.        *)
(***************************************************************************)
THEOREM RegistryOldestLeavesFirst == Spec => OldestLeavesFirst
<1>1. ASSUME IInv, Next PROVE LeavesInOrder
  <2>1. ASSUME NEW job \in Jobs, RegisterClean(job) PROVE CleanInstalled
    BY <1>1, <2>1, CleanStep DEF RegisterClean, CleanInstalled
  <2>2. ASSUME NEW job \in Jobs, RegisterKnown(job) PROVE LeavesInOrder
    BY <2>2 DEF RegisterKnown, vars, LeavesInOrder, Lost
  <2>3. ASSUME NEW job \in Jobs, RegisterNew(job) PROVE LeavesInOrder
    <3>1. /\ DOMAIN by_id' = (DOMAIN by_id \ Range(Evicted)) \cup {job.job_id}
          /\ \A id \in DOMAIN by_id \ Range(Evicted) : by_id'[id] = by_id[id]
      BY <1>1, <2>3, NewStep
    <3>2. job.job_id \notin DOMAIN by_id
      BY <2>3 DEF RegisterNew, contains
    <3>3. /\ Lost \subseteq Range(Evicted)
          /\ DOMAIN by_id \ Lost \subseteq DOMAIN by_id \ Range(Evicted)
      BY <3>1, <3>2 DEF Lost
    <3>4. \A id \in Range(Evicted) : id = order[1] /\ Len(order) = ACTIVE_JOBS_MAX
      BY <1>1, MakingRoom
    <3>5. QED
      BY <3>1, <3>3, <3>4 DEF LeavesInOrder
  <2>4. QED
    BY <1>1, <2>1, <2>2, <2>3 DEF Next, register, LeavesInOrder
<1>2. IInv /\ [Next]_vars => [LeavesInOrder]_vars
  BY <1>1
<1>3. QED
  BY <1>2, InitIInv, StepIInv, PTL DEF Spec, OldestLeavesFirst

(***************************************************************************)
(* With the jobs of the RPC source, all of them clean, the registry never  *)
(* knows two jobs at a time.                                               *)
(***************************************************************************)
THEOREM RegistryOneJobWhenAllClean == Spec => []OneJobWhenAllClean
<1>1. Init => OneJobWhenAllClean
  BY EmptySeq DEF Init, OneJobWhenAllClean
<1>2. OneJobWhenAllClean /\ [Next]_vars => OneJobWhenAllClean'
  <2>1. ASSUME NEW job \in Jobs, RegisterClean(job) PROVE Len(order') =< 1
    BY <2>1 DEF RegisterClean
  <2>2. AllClean /\ Next => Len(order') =< 1
    BY <2>1 DEF AllClean, Next, register, RegisterKnown, RegisterNew
  <2>3. QED
    BY <2>2 DEF OneJobWhenAllClean, vars, AllClean
<1>3. QED
  BY <1>1, <1>2, PTL DEF Spec
=============================================================================
