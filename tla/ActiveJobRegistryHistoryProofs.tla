-------------------- MODULE ActiveJobRegistryHistoryProofs --------------------
(***************************************************************************)
(* The registry implements IssuedJobs: the history of what it installed    *)
(* determines what every lookup finds.                                     *)
(***************************************************************************)
EXTENDS ActiveJobRegistryHistory, ActiveJobRegistryProofs

HIInv == IInv /\ issued \in Seq(Jobs) /\ LookupsAsPromised

\* Registration steps of the history specification are those of the registry.
LEMMA HistoryStep == [HNext]_hvars => [Next]_vars
BY DEF HNext, HRegister, hvars, Next, register, vars, RegisterKnown

LEMMA InitHIInv == HInit => HIInv
<1> SUFFICES ASSUME HInit PROVE HIInv
  OBVIOUS
<1>1. IInv
  BY InitIInv DEF HInit
<1>2. order = << >> /\ issued = << >>
  BY DEF HInit, Init
<1>3. Len(order) = 0 /\ Len(issued) = 0 /\ issued \in Seq(Jobs)
  BY <1>2, EmptySeq
<1>4. LookupsAsPromised
  BY <1>3, MaxAssumption DEF LookupsAsPromised
<1>5. QED
  BY <1>1, <1>3, <1>4 DEF HIInv

\* Where the history stands to the order after a step that issues a job.
LEMMA IssueKeepsLookups ==
    ASSUME HIInv, NEW job \in Jobs, RegisterNew(job), issued' = Append(issued, job)
    PROVE  LookupsAsPromised' /\ issued' \in Seq(Jobs)
<1> DEFINE L == Len(issued)
           F == L - Len(order)
<1>1. PICK m \in Nat, gone \in {0, 1} :
         /\ Len(order) = m + gone
         /\ m < ACTIVE_JOBS_MAX
         /\ gone = 1 => m + 1 = ACTIVE_JOBS_MAX
         /\ Surviving \in Seq(JobId)
         /\ Len(Surviving) = m
         /\ \A i \in 1 .. m : Surviving[i] = order[i + gone]
         /\ Range(Evicted) = IF gone = 0 THEN {} ELSE {order[1]}
  BY MakingRoom DEF HIInv
<1>2. /\ L \in Nat
      /\ issued' \in Seq(Jobs)
      /\ Len(issued') = L + 1
      /\ \A i \in 1 .. L : issued'[i] = issued[i]
      /\ issued'[L + 1] = job
  BY AppendProperties, LenProperties DEF HIInv
<1>3. /\ Len(order) = IF L < ACTIVE_JOBS_MAX THEN L ELSE ACTIVE_JOBS_MAX
      /\ \A i \in 1 .. Len(order) : /\ order[i] = issued[F + i].job_id
                                    /\ order[i] \in DOMAIN by_id => by_id[order[i]] = issued[F + i]
  BY DEF HIInv, LookupsAsPromised, Forgotten, get_job, contains
<1>4. /\ job.job_id \in JobId
      /\ order' = Append(Surviving, job.job_id)
  BY JobsAssumption DEF Job, RegisterNew
<1>5. /\ Len(order') = m + 1
      /\ \A i \in 1 .. m : order'[i] = order[i + gone]
      /\ order'[m + 1] = job.job_id
  <2>1. /\ Len(order') = m + 1
        /\ \A i \in 1 .. m : order'[i] = Surviving[i]
        /\ order'[m + 1] = job.job_id
    BY <1>1, <1>4, AppendProperties
  <2>2. QED
    BY <1>1, <2>1
<1>6. /\ DOMAIN by_id' = (DOMAIN by_id \ Range(Evicted)) \cup {job.job_id}
      /\ \A id \in DOMAIN by_id \ Range(Evicted) : by_id'[id] = by_id[id]
      /\ by_id'[job.job_id] = job
      /\ IInv'
  BY NewStep DEF HIInv
<1>7. DOMAIN order' = 1 .. m + 1 /\ \A i \in 1 .. m + 1 : order'[i] \in DOMAIN by_id'
  <2>1. DOMAIN order' = 1 .. m + 1
    BY <1>1, <1>5, <1>6, LenProperties DEF IInv, TypeOK
  <2>2. QED
    BY <1>6, <2>1 DEF IInv, Consistent, Range
<1>8. /\ Len(order') = IF Len(issued') < ACTIVE_JOBS_MAX THEN Len(issued') ELSE ACTIVE_JOBS_MAX
      /\ Len(issued') - Len(order') = F + gone
      /\ F \in Nat
  BY <1>1, <1>2, <1>3, <1>5, MaxAssumption
<1>9. ASSUME NEW i \in 1 .. m + 1
      PROVE  /\ order'[i] = issued'[F + gone + i].job_id
             /\ by_id'[order'[i]] = issued'[F + gone + i]
  <2>1. CASE i = m + 1
    <3>1. F + gone + i = L + 1
      BY <1>1, <1>2, <2>1
    <3>2. QED
      BY <1>2, <1>5, <1>6, <2>1, <3>1
  <2>2. CASE i \in 1 .. m
    <3>1. /\ i + gone \in 1 .. Len(order)
          /\ F + (i + gone) = F + gone + i
          /\ F + (i + gone) \in 1 .. L
      <4>1. i + gone \in Nat /\ 1 =< i + gone /\ i + gone =< m + gone
        BY <2>2
      <4>2. Len(order) = m + gone /\ L \in Nat /\ F = L - Len(order) /\ F \in Nat
        BY <1>1, <1>2, <1>8
      <4>3. QED
        BY <4>1, <4>2, <2>2
    <3>2. issued'[F + gone + i] = issued[F + (i + gone)]
      BY <1>2, <3>1
    <3>3. order'[i] = order[i + gone]
      BY <1>5, <2>2
    <3>4. order'[i] # job.job_id
      <4>1. i # m + 1 /\ m + 1 \in 1 .. m + 1
        BY <1>1, <2>2
      <4>2. QED
        BY <1>5, <1>6, <1>7, <4>1 DEF IInv, Consistent
    <3>5. order'[i] \in DOMAIN by_id \ Range(Evicted)
      BY <1>6, <1>7, <3>4
    <3>6. QED
      BY <1>3, <1>6, <3>1, <3>2, <3>3, <3>5
  <2>3. i = m + 1 \/ i \in 1 .. m
    BY <1>9
  <2>4. QED
    BY <2>1, <2>2, <2>3
<1>10. QED
  BY <1>2, <1>5, <1>7, <1>8, <1>9 DEF LookupsAsPromised, Forgotten, get_job, contains

LEMMA StepHIInv == HIInv /\ [HNext]_hvars => HIInv'
<1> SUFFICES ASSUME HIInv, [HNext]_hvars PROVE HIInv'
  OBVIOUS
<1>1. IInv'
  BY HistoryStep, StepIInv DEF HIInv
<1>2. ASSUME NEW job \in Jobs, RegisterClean(job), issued' = << job >>
      PROVE  LookupsAsPromised' /\ issued' \in Seq(Jobs)
  <2>1. /\ order' = << job.job_id >>
        /\ by_id' = [id \in {job.job_id} |-> job]
    BY <1>2, CleanStep DEF HIInv
  <2>2. /\ Len(order') = 1 /\ order'[1] = job.job_id
        /\ Len(issued') = 1 /\ issued'[1] = job
        /\ issued' \in Seq(Jobs)
    BY <1>2, <2>1
  <2>3. \A i \in 1 .. 1 : i = 1 /\ (1 - 1) + i = 1
    OBVIOUS
  <2>4. QED
    BY <2>1, <2>2, <2>3, MaxAssumption DEF LookupsAsPromised, Forgotten, get_job, contains
<1>3. CASE UNCHANGED hvars
  BY <1>1, <1>3 DEF hvars, HIInv, LookupsAsPromised, Forgotten, get_job, contains
<1>4. ASSUME NEW job \in Jobs, HRegister(job) PROVE HIInv'
  <2>1. CASE RegisterKnown(job) /\ UNCHANGED issued
    BY <1>3, <2>1 DEF RegisterKnown, vars, hvars
  <2>2. QED
    BY <1>1, <1>2, <1>4, <2>1, IssueKeepsLookups DEF HRegister, HIInv
<1>5. QED
  BY <1>3, <1>4 DEF HNext

(***************************************************************************)
(* A lookup finds exactly the newest ACTIVE_JOBS_MAX jobs installed since  *)
(* the last clean one, each under its own id.                              *)
(***************************************************************************)
THEOREM RegistryLookupsAsPromised == HSpec => []LookupsAsPromised
<1>1. HIInv => LookupsAsPromised
  BY DEF HIInv
<1>2. QED
  BY <1>1, InitHIInv, StepHIInv, PTL DEF HSpec

\* An id that is active in the history is an id the registry knows.
LEMMA ActiveIsKnown ==
    ASSUME HIInv, NEW i \in Promise!Active
    PROVE  contains(issued[i].job_id)
<1> DEFINE F == Len(issued) - Len(order)
<1>1. /\ Len(issued) \in Nat
      /\ Len(order) \in Nat
      /\ DOMAIN order = 1 .. Len(order)
      /\ Range(order) = DOMAIN by_id
  BY LenProperties DEF HIInv, IInv, TypeOK, Consistent
<1>2. /\ Len(order) = IF Len(issued) < ACTIVE_JOBS_MAX THEN Len(issued) ELSE ACTIVE_JOBS_MAX
      /\ \A j \in 1 .. Len(order) : order[j] = issued[F + j].job_id
  BY DEF HIInv, LookupsAsPromised, Forgotten
<1>3. i \in 1 .. Len(issued) /\ Len(issued) < i + ACTIVE_JOBS_MAX
  BY DEF Promise!Active
<1>4. i - F \in 1 .. Len(order) /\ F + (i - F) = i
  <2>1. CASE Len(issued) < ACTIVE_JOBS_MAX
    <3>1. Len(order) = Len(issued)
      BY <1>2, <2>1
    <3>2. QED
      BY <1>1, <1>3, <3>1
  <2>2. CASE ~(Len(issued) < ACTIVE_JOBS_MAX)
    <3>1. Len(order) = ACTIVE_JOBS_MAX
      BY <1>2, <2>2
    <3>2. ACTIVE_JOBS_MAX \in Nat /\ ACTIVE_JOBS_MAX =< Len(issued)
      BY <1>1, <2>2, MaxAssumption
    <3>3. QED
      BY <1>1, <1>3, <3>1, <3>2
  <2>3. QED
    BY <2>1, <2>2
<1>5. order[i - F] = issued[i].job_id
  BY <1>2, <1>4
<1>6. QED
  BY <1>1, <1>4, <1>5 DEF contains, Range

(***************************************************************************)
(* The registry, whatever its bound and its jobs, implements IssuedJobs:   *)
(* it issues a job exactly when the promise says one may be issued.        *)
(***************************************************************************)
THEOREM RegistryKeepsPromise == HSpec => KeepsPromise
<1>1. HInit => Promise!Init
  BY DEF HInit, Promise!Init
<1>2. HIInv /\ [HNext]_hvars => [Promise!Next]_issued
  <2> SUFFICES ASSUME HIInv, [HNext]_hvars PROVE [Promise!Next]_issued
    OBVIOUS
  <2>1. ASSUME NEW job \in Jobs, HRegister(job), ~UNCHANGED issued
        PROVE  Promise!Clean(job) \/ Promise!Issue(job)
    <3>1. CASE RegisterClean(job) /\ issued' = << job >>
      BY <3>1 DEF RegisterClean, Promise!Clean
    <3>2. CASE RegisterNew(job) /\ issued' = Append(issued, job)
      <4>1. ~job.clean_jobs /\ ~contains(job.job_id)
        BY <3>2 DEF RegisterNew
      <4>2. \A i \in Promise!Active : issued[i].job_id # job.job_id
        BY <4>1, ActiveIsKnown
      <4>3. QED
        BY <3>2, <4>1, <4>2 DEF Promise!Issue
    <3>3. QED
      BY <2>1, <3>1, <3>2 DEF HRegister
  <2>2. CASE UNCHANGED hvars
    BY <2>2 DEF hvars
  <2>3. QED
    BY <2>1, <2>2 DEF HNext, Promise!Next
<1>3. QED
  BY <1>1, <1>2, InitHIInv, StepHIInv, PTL DEF HSpec, KeepsPromise, Promise!Spec
=============================================================================
