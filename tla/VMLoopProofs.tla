---------------------------- MODULE VMLoopProofs ----------------------------
(***************************************************************************)
(* For any number of VMs and any crashes, in every interleaving, vmLoop    *)
(* loses no slot, reproduces a title once at a time and leaves the         *)
(* fuzzing VMs alone.                                                      *)
(***************************************************************************)
EXTENDS VMLoop, FiniteSetTheorems, SequenceTheorems, TLAPS

\* What FuzzingReserved needs to be inductive: every reproduction has
\* instancesPerRepro slots, and the limit was respected when the last one
\* started.
SlotsCounted ==
    /\ reproInstances = Cardinality(JobVMs)
    /\ \A j \in jobs : Cardinality(j.vms) = instancesPerRepro
    /\ jobs # {} => reproInstances <= maxReproVMs

IInv == TypeOK /\ SlotsAccounted /\ OneReproPerTitle /\ SlotsCounted

\* Sizes are natural numbers or integers, and sets of slots are finite.
LEMMA Sizes ==
    /\ Cardinality(VMs) \in Nat
    /\ maxReproVMs \in Int
    /\ instancesPerRepro \in Nat \ {0}
    /\ \A V \in SUBSET VMs : IsFiniteSet(V) /\ Cardinality(V) \in Nat
  <1>1. Cardinality(VMs) \in Nat
    BY VMLoopAssumption, FS_CardinalityType
  <1>2. maxReproVMs \in Int
    BY <1>1, VMLoopAssumption DEF maxReproVMs
  <1>3. instancesPerRepro \in Nat \ {0}
    BY <1>2, VMLoopAssumption DEF instancesPerRepro
  <1>4. \A V \in SUBSET VMs : IsFiniteSet(V) /\ Cardinality(V) \in Nat
    BY VMLoopAssumption, FS_Subset, FS_CardinalityType
  <1> QED BY <1>1, <1>2, <1>3, <1>4

\* Disjoint sets of slots: the size of a union, and of what is left.
LEMMA DisjointSizes ==
    ASSUME NEW A \in SUBSET VMs, NEW B \in SUBSET VMs
    PROVE  /\ A \cap B = {} => Cardinality(A \cup B) = Cardinality(A) + Cardinality(B)
           /\ B \subseteq A => Cardinality(A \ B) = Cardinality(A) - Cardinality(B)
  <1>1. IsFiniteSet(A) /\ IsFiniteSet(B) /\ Cardinality(A) \in Nat /\ Cardinality(B) \in Nat
    BY Sizes
  <1>2. ASSUME A \cap B = {} PROVE Cardinality(A \cup B) = Cardinality(A) + Cardinality(B)
    <2>1. Cardinality(A \cup B) = Cardinality(A) + Cardinality(B) - Cardinality(A \cap B)
      BY <1>1, FS_Union
    <2>2. Cardinality(A \cap B) = 0
      BY <1>2, FS_EmptySet
    <2> QED BY <2>1, <2>2, <1>1
  <1>3. ASSUME B \subseteq A PROVE Cardinality(A \ B) = Cardinality(A) - Cardinality(B)
    <2>1. Cardinality(A \ B) = Cardinality(A) - Cardinality(A \cap B)
      BY <1>1, FS_Difference
    <2>2. A \cap B = B
      BY <1>3
    <2> QED BY <2>1, <2>2
  <1> QED BY <1>2, <1>3

\* The first m elements of a sequence.
LEMMA Prefixes ==
    ASSUME NEW S, NEW q, NEW m \in Nat, \A i \in 1 .. m : q[i] \in S
    PROVE  /\ SubSeq(q, 1, m) \in Seq(S)
           /\ Len(SubSeq(q, 1, m)) = m
           /\ \A i \in 1 .. m : SubSeq(q, 1, m)[i] = q[i]
  <1>1. /\ SubSeq(q, 1, m) \in Seq(S)
        /\ Len(SubSeq(q, 1, m)) = IF 1 <= m THEN m - 1 + 1 ELSE 0
        /\ \A i \in 1 .. m - 1 + 1 : SubSeq(q, 1, m)[i] = q[1 + i - 1]
    BY SubSeqProperties
  <1>2. m - 1 + 1 = m /\ \A i \in 1 .. m : 1 + i - 1 = i
    OBVIOUS
  <1> QED BY <1>1, <1>2

LEMMA InitHolds == Init => IInv
  <1> SUFFICES ASSUME Init PROVE IInv
    OBVIOUS
  <1>1. TypeOK
    <2>1. stopPending \in BOOLEAN /\ shutdown \in BOOLEAN
      BY Zenon DEF Init
    <2>2. /\ pendingRepro \in [Crashes -> 0 .. MaxPending]
          /\ attempts \in [Titles -> 0 .. MaxReproAttempts]
          /\ hubRepros \in 0 .. MaxPending
      BY VMLoopAssumption DEF Init
    <2> QED BY <2>1, <2>2 DEF Init, TypeOK, phaseTriagedHub
  <1>2. JobVMs = {} /\ jobs = {}
    BY DEF Init, JobVMs
  <1>3. SlotsAccounted
    BY <1>2 DEF Init, SlotsAccounted
  <1>4. OneReproPerTitle
    BY DEF Init, OneReproPerTitle
  <1>5. SlotsCounted
    BY <1>2, FS_EmptySet DEF Init, SlotsCounted
  <1> QED BY <1>1, <1>3, <1>4, <1>5 DEF IInv

\* What StartRepro and Released do to the slots of reproductions.
LEMMA StartSlots ==
    ASSUME IInv, NEW V \in SUBSET instances, StartRepro(V)
    PROVE  /\ JobVMs' = JobVMs \cup V
           /\ JobVMs \cap V = {}
           /\ \A j \in jobs : j.vms \cap V = {}
           /\ Len(reproQueue) > 0
           /\ V \subseteq VMs /\ JobVMs \subseteq VMs
  <1>1. JobVMs' = JobVMs \cup V
    <2> DEFINE jn == [crash |-> reproQueue[Len(reproQueue)], vms |-> V]
    <2>1. jobs' = jobs \cup {jn} /\ jn.vms = V
      BY DEF StartRepro
    <2> HIDE DEF jn
    <2> QED BY <2>1 DEF JobVMs
  <1>2. JobVMs \cap V = {}
    BY DEF IInv, SlotsAccounted
  <1>3. \A j \in jobs : j.vms \cap V = {}
    BY <1>2 DEF JobVMs
  <1>4. Len(reproQueue) > 0
    BY DEF StartRepro, canRepro, IInv, TypeOK
  <1>5. V \subseteq VMs /\ JobVMs \subseteq VMs
    BY DEF IInv, TypeOK, SlotsAccounted
  <1> QED BY <1>1, <1>2, <1>3, <1>4, <1>5

LEMMA ReleaseSlots ==
    ASSUME IInv, NEW j \in jobs, Released(j)
    PROVE  /\ JobVMs' = JobVMs \ j.vms
           /\ j.vms \subseteq JobVMs
           /\ JobVMs \subseteq VMs
  <1>1. jobs' = jobs \ {j}
    BY DEF Released
  <1>2. \A k \in jobs : k # j => k.vms \cap j.vms = {}
    BY DEF IInv, SlotsAccounted
  <1>3. JobVMs' = JobVMs \ j.vms
    BY <1>1, <1>2 DEF JobVMs
  <1>4. j.vms \subseteq JobVMs /\ JobVMs \subseteq VMs
    BY DEF JobVMs, IInv, SlotsAccounted
  <1> QED BY <1>3, <1>4

slotVars == <<unbooted, instances, running, jobs>>
queueVars == <<reproducing, reproQueue, jobs>>
countVars == <<reproInstances, jobs>>

\* Steps that leave the variables of an invariant alone keep it.
LEMMA Untouched ==
    ASSUME IInv
    PROVE  /\ UNCHANGED slotVars => SlotsAccounted'
           /\ UNCHANGED queueVars => OneReproPerTitle'
           /\ UNCHANGED countVars => SlotsCounted'
  <1>1. UNCHANGED slotVars => SlotsAccounted'
    BY DEF IInv, slotVars, SlotsAccounted, JobVMs
  <1>2. UNCHANGED queueVars => OneReproPerTitle'
    BY DEF IInv, queueVars, OneReproPerTitle
  <1>3. UNCHANGED countVars => SlotsCounted'
    BY DEF IInv, countVars, SlotsCounted, JobVMs
  <1> QED BY <1>1, <1>2, <1>3

\* The actions that move no slot, no queued crash and no reproduction.
Quiet ==
    \/ PhaseAdvances \/ Top \/ Exit \/ Enqueued \/ Started
    \/ StopRequest \/ Shutdown \/ HubCrash \/ NeedMoreRepros

LEMMA TypeQuiet == TypeOK /\ Quiet => TypeOK'
  <1> SUFFICES ASSUME TypeOK, Quiet PROVE TypeOK'
    OBVIOUS
  <1> USE VMLoopAssumption DEF TypeOK, phaseTriagedHub
  <1>1. CASE PhaseAdvances
    BY <1>1 DEF PhaseAdvances, loopVars
  <1>2. CASE Top
    BY <1>2 DEF Top
  <1>3. CASE Exit
    BY <1>3 DEF Exit
  <1>4. CASE Enqueued
    BY <1>4 DEF Enqueued
  <1>5. CASE Started
    BY <1>5 DEF Started
  <1>6. CASE StopRequest
    BY <1>6 DEF StopRequest
  <1>7. CASE Shutdown
    BY <1>7 DEF Shutdown
  <1>8. CASE HubCrash
    <2>1. HubTitle \in Crashes
      BY DEF Crashes
    <2> QED BY <1>8, <2>1 DEF HubCrash
  <1>9. CASE NeedMoreRepros
    BY <1>9 DEF NeedMoreRepros
  <1> QED BY <1>1, <1>2, <1>3, <1>4, <1>5, <1>6, <1>7, <1>8, <1>9 DEF Quiet

LEMMA QuietStep == IInv /\ Quiet => IInv'
  <1> SUFFICES ASSUME IInv, Quiet PROVE IInv'
    OBVIOUS
  <1>1. UNCHANGED slotVars /\ UNCHANGED queueVars /\ UNCHANGED countVars
    BY DEF Quiet, slotVars, queueVars, countVars, PhaseAdvances, loopVars, Top, Exit, Enqueued,
           Started, StopRequest, Shutdown, HubCrash, NeedMoreRepros
  <1> QED BY <1>1, Untouched, TypeQuiet DEF IInv

\* Enqueue adds a title that is neither queued nor being reproduced.
LEMMA EnqueueStep == ASSUME IInv, NEW c \in Crashes, Enqueue(c) PROVE IInv'
  <1>1. UNCHANGED slotVars /\ UNCHANGED countVars
    BY DEF Enqueue, slotVars, countVars
  <1>2. \/ /\ reproducing' = reproducing \cup {c}
           /\ reproQueue' = Append(reproQueue, c)
        \/ UNCHANGED <<reproducing, reproQueue>>
    BY DEF Enqueue
  <1>3. TypeOK'
    <2>1. pendingRepro' \in [Crashes -> 0 .. MaxPending]
      BY VMLoopAssumption DEF IInv, TypeOK, Enqueue, CanEnqueue
    <2>2. reproQueue' \in Seq(Crashes) /\ reproducing' \subseteq Crashes
      <3>1. reproQueue \in Seq(Crashes) /\ reproducing \subseteq Crashes
        BY DEF IInv, TypeOK
      <3>2. Append(reproQueue, c) \in Seq(Crashes)
        BY <3>1, AppendProperties
      <3> QED BY <1>2, <3>1, <3>2
    <2>3. UNCHANGED <<pc, seen, unbooted, instances, running, jobs, reproInstances, stopPending,
                      shutdown, hubRepros, phase, attempts, reproduced>>
      BY DEF Enqueue
    <2> QED BY <2>1, <2>2, <2>3 DEF IInv, TypeOK
  <1>4. OneReproPerTitle'
    <2>1. CASE UNCHANGED <<reproducing, reproQueue>>
      BY <2>1, Untouched DEF Enqueue, queueVars
    <2>2. CASE reproducing' = reproducing \cup {c} /\ reproQueue' = Append(reproQueue, c)
      <3>1. /\ reproQueue \in Seq(Crashes) /\ c \notin reproducing /\ jobs' = jobs
            /\ jobs \subseteq Jobs
        BY DEF IInv, TypeOK, Enqueue, CanEnqueue
      <3>2. /\ Len(reproQueue') = Len(reproQueue) + 1
            /\ Len(reproQueue) \in Nat
            /\ reproQueue'[Len(reproQueue) + 1] = c
            /\ \A i \in 1 .. Len(reproQueue) : /\ reproQueue'[i] = reproQueue[i]
                                               /\ reproQueue[i] \in Crashes
        BY <2>2, <3>1
      <3>3. \A i \in 1 .. Len(reproQueue) : reproQueue[i] # c
        BY <3>1, <3>2 DEF IInv, OneReproPerTitle
      <3>4. \A j \in jobs : j.crash # c
        BY <3>1 DEF IInv, OneReproPerTitle
      <3>5. \A d \in Crashes : d \in reproducing' <=>
                \/ \E i \in 1 .. Len(reproQueue') : reproQueue'[i] = d
                \/ \E j \in jobs' : j.crash = d
        BY <2>2, <3>1, <3>2 DEF IInv, OneReproPerTitle
      <3>6. \A i, k \in 1 .. Len(reproQueue') : reproQueue'[i] = reproQueue'[k] => i = k
        BY <3>2, <3>3 DEF IInv, OneReproPerTitle
      <3>7. \A i \in 1 .. Len(reproQueue'), j \in jobs' : reproQueue'[i] # j.crash
        BY <3>1, <3>2, <3>4 DEF IInv, OneReproPerTitle
      <3> QED BY <3>1, <3>5, <3>6, <3>7 DEF IInv, OneReproPerTitle
    <2> QED BY <1>2, <2>1, <2>2
  <1> QED BY <1>1, <1>3, <1>4, Untouched DEF IInv

\* A reproduction takes the last queued crash and idle slots.
LEMMA StartReproStep == ASSUME IInv, NEW V \in SUBSET instances, StartRepro(V) PROVE IInv'
  <1> DEFINE jn == [crash |-> reproQueue[Len(reproQueue)], vms |-> V]
             n == Len(reproQueue)
  <1>1. /\ reproQueue \in Seq(Crashes) /\ n \in Nat /\ n > 0 /\ reproQueue[n] \in Crashes
        /\ jobs \subseteq Jobs
    BY StartSlots DEF IInv, TypeOK
  <1>2. /\ reproQueue' \in Seq(Crashes)
        /\ Len(reproQueue') = n - 1
        /\ \A i \in 1 .. n - 1 : reproQueue'[i] = reproQueue[i]
    <2>1. reproQueue' = SubSeq(reproQueue, 1, n - 1)
      BY DEF StartRepro
    <2> HIDE DEF n
    <2>2. n - 1 \in Nat /\ \A i \in 1 .. n - 1 : reproQueue[i] \in Crashes
      BY <1>1 DEF n
    <2> QED BY <2>1, <2>2, Prefixes
  <1>3. /\ jn \in Jobs /\ jn.crash = reproQueue[n] /\ jn.vms = V
        /\ jobs' = jobs \cup {jn}
        /\ instances' = instances \ V
        /\ UNCHANGED <<unbooted, running, reproducing>>
    BY <1>1 DEF StartRepro, Jobs, IInv, TypeOK
  <1> HIDE DEF jn
  <1>4. TypeOK'
    <2>1. reproInstances' \in Nat
      BY Sizes DEF StartRepro, IInv, TypeOK
    <2>2. jobs' \subseteq Jobs /\ instances' \subseteq VMs
      BY <1>1, <1>3 DEF IInv, TypeOK
    <2>3. UNCHANGED <<pc, seen, unbooted, running, pendingRepro, reproducing, stopPending, shutdown,
                      hubRepros, phase, attempts, reproduced>>
      BY DEF StartRepro
    <2> QED BY <1>2, <2>1, <2>2, <2>3 DEF IInv, TypeOK
  <1>5. SlotsAccounted'
    <2>1. \A i, j \in jobs' : i # j => i.vms \cap j.vms = {}
      BY <1>3, StartSlots DEF IInv, SlotsAccounted
    <2> QED BY <1>3, <2>1, StartSlots DEF IInv, SlotsAccounted
  <1>6. OneReproPerTitle'
    <2>1. \A c \in Crashes : c \in reproducing' <=>
              \/ \E i \in 1 .. Len(reproQueue') : reproQueue'[i] = c
              \/ \E j \in jobs' : j.crash = c
      <3>1. ASSUME NEW c \in Crashes
            PROVE  (\E i \in 1 .. n : reproQueue[i] = c) <=>
                       (\E i \in 1 .. n - 1 : reproQueue'[i] = c) \/ c = reproQueue[n]
        <4>1. \A i \in 1 .. n : i \in 1 .. n - 1 \/ i = n
          BY <1>1
        <4> QED BY <1>1, <1>2, <4>1
      <3>2. ASSUME NEW c \in Crashes
            PROVE  (\E j \in jobs' : j.crash = c) <=> (\E j \in jobs : j.crash = c) \/ c = reproQueue[n]
        BY <1>3
      <3> QED BY <1>2, <1>3, <3>1, <3>2 DEF IInv, OneReproPerTitle
    <2>2. \A i, k \in 1 .. Len(reproQueue') : reproQueue'[i] = reproQueue'[k] => i = k
      <3>1. \A i, k \in 1 .. n : reproQueue[i] = reproQueue[k] => i = k
        BY DEF IInv, OneReproPerTitle
      <3>2. \A i \in 1 .. n - 1 : i \in 1 .. n
        BY <1>1
      <3> QED BY <1>2, <3>1, <3>2, Zenon
    <2>3. \A j \in jobs : j.crash # reproQueue[n]
      BY <1>1 DEF IInv, OneReproPerTitle
    <2>4. \A i, j \in jobs' : i.crash = j.crash => i = j
      BY <1>3, <2>3 DEF IInv, OneReproPerTitle
    <2>5. \A i \in 1 .. n - 1 : reproQueue[i] # reproQueue[n]
      BY <1>1 DEF IInv, OneReproPerTitle
    <2>6. \A i \in 1 .. Len(reproQueue'), j \in jobs' : reproQueue'[i] # j.crash
      BY <1>1, <1>2, <1>3, <2>5 DEF IInv, OneReproPerTitle
    <2> QED BY <2>1, <2>2, <2>4, <2>6 DEF OneReproPerTitle
  <1>7. SlotsCounted'
    <2>1. Cardinality(JobVMs') = Cardinality(JobVMs) + Cardinality(V)
      BY StartSlots, DisjointSizes
    <2>2. /\ reproInstances' = reproInstances + instancesPerRepro
          /\ Cardinality(V) = instancesPerRepro
          /\ reproInstances' <= maxReproVMs
      BY DEF StartRepro, canRepro
    <2> QED BY <1>3, <2>1, <2>2 DEF IInv, SlotsCounted
  <1> QED BY <1>4, <1>5, <1>6, <1>7 DEF IInv

\* A slot that is booted, starts to fuzz, or ends a run.
LEMMA MoveStep ==
    ASSUME IInv, NEW v \in VMs, Boot(v) \/ StartInstance(v) \/ RunEnds(v)
    PROVE  IInv'
  <1>1. UNCHANGED queueVars /\ UNCHANGED countVars
    BY DEF queueVars, countVars, Boot, StartInstance, RunEnds, RunDone, RunCrashed, Finished
  <1>2. TypeOK'
    <2>1. CASE Boot(v)
      BY <2>1 DEF IInv, TypeOK, Boot
    <2>2. CASE StartInstance(v)
      BY <2>2 DEF IInv, TypeOK, StartInstance
    <2>3. CASE RunEnds(v)
      <3>1. pendingRepro' \in [Crashes -> 0 .. MaxPending]
        <4>1. CASE RunDone(v)
          BY <4>1 DEF RunDone, IInv, TypeOK
        <4>2. ASSUME NEW t \in Titles, NEW need \in BOOLEAN, RunCrashed(v, t, need)
              PROVE  pendingRepro' \in [Crashes -> 0 .. MaxPending]
          <5>1. t \in Crashes
            BY DEF Crashes
          <5>2. /\ pendingRepro[t] < MaxPending
                /\ \/ pendingRepro' = [pendingRepro EXCEPT ![t] = @ + 1]
                   \/ pendingRepro' = pendingRepro
            BY <4>2 DEF RunCrashed
          <5> QED BY <5>1, <5>2, VMLoopAssumption DEF IInv, TypeOK
        <4> QED BY <2>3, <4>1, <4>2 DEF RunEnds
      <3>2. Finished(v)
        BY <2>3 DEF RunEnds, RunDone, RunCrashed
      <3>3. /\ pc' = "top"
            /\ running' \subseteq VMs /\ instances' \subseteq VMs
            /\ UNCHANGED <<seen, unbooted, reproducing, reproQueue, jobs, reproInstances, shutdown,
                           hubRepros, phase, attempts, reproduced>>
        BY <3>2 DEF Finished, IInv, TypeOK
      <3>4. stopPending' \in BOOLEAN
        BY <3>2, Zenon DEF Finished
      <3> QED BY <3>1, <3>3, <3>4 DEF IInv, TypeOK
    <2> QED BY <2>1, <2>2, <2>3
  <1>3. SlotsAccounted'
    <2>1. JobVMs' = JobVMs /\ jobs' = jobs
      BY <1>1 DEF countVars, JobVMs
    <2>2. \/ /\ v \in unbooted
             /\ unbooted' = unbooted \ {v} /\ instances' = instances \cup {v} /\ running' = running
          \/ /\ v \in instances
             /\ instances' = instances \ {v} /\ running' = running \cup {v} /\ unbooted' = unbooted
          \/ /\ v \in running
             /\ running' = running \ {v} /\ instances' = instances \cup {v} /\ unbooted' = unbooted
      BY DEF Boot, StartInstance, RunEnds, RunDone, RunCrashed, Finished
    <2> QED BY <2>1, <2>2 DEF IInv, SlotsAccounted
  <1> QED BY <1>1, <1>2, <1>3, Untouched DEF IInv

\* A reproduction gives its slots and its title back.
LEMMA ReleaseStep == ASSUME IInv, NEW j \in jobs, ReproEnds(j) PROVE IInv'
  <1>1. Released(j) /\ attempts' \in [Titles -> 0 .. MaxReproAttempts] /\ reproduced' \subseteq Titles
    <2>1. ASSUME NEW r \in BOOLEAN, ReproFailed(j, r)
          PROVE  /\ Released(j) /\ reproduced' \subseteq Titles
                 /\ attempts' \in [Titles -> 0 .. MaxReproAttempts]
      <3>1. Released(j) /\ reproduced' \subseteq Titles
        BY <2>1 DEF ReproFailed, IInv, TypeOK
      <3>2. attempts' \in [Titles -> 0 .. MaxReproAttempts]
        BY <2>1, VMLoopAssumption DEF ReproFailed, IInv, TypeOK
      <3> QED BY <3>1, <3>2
    <2>2. ASSUME NEW r \in BOOLEAN, NEW t \in Titles, ReproSucceeded(j, t, r)
          PROVE  /\ Released(j) /\ reproduced' \subseteq Titles
                 /\ attempts' \in [Titles -> 0 .. MaxReproAttempts]
      BY <2>2 DEF ReproSucceeded, IInv, TypeOK
    <2> QED BY <2>1, <2>2 DEF ReproEnds
  <1>2. /\ j \in Jobs /\ j.vms \subseteq VMs /\ j.crash \in Crashes
        /\ jobs' = jobs \ {j} /\ reproducing' = reproducing \ {j.crash}
        /\ instances' = instances \cup j.vms
        /\ UNCHANGED <<unbooted, running, reproQueue>>
    BY <1>1 DEF Released, IInv, TypeOK, Jobs
  <1>3. SlotsCounted'
    <2>1. Cardinality(JobVMs') = Cardinality(JobVMs) - Cardinality(j.vms)
      BY <1>1, <1>2, ReleaseSlots, DisjointSizes
    <2>2. reproInstances' = reproInstances - instancesPerRepro
      BY <1>1 DEF Released
    <2>3. reproInstances \in Nat
      BY DEF IInv, TypeOK
    <2> QED BY <1>2, <2>1, <2>2, <2>3, Sizes DEF IInv, SlotsCounted
  <1>4. TypeOK'
    <2>1. reproInstances' \in Nat
      <3>1. JobVMs' \subseteq VMs
        BY <1>1, ReleaseSlots
      <3> QED BY <1>3, <3>1, Sizes DEF SlotsCounted
    <2>2. jobs' \subseteq Jobs /\ instances' \subseteq VMs /\ reproducing' \subseteq Crashes
      BY <1>2 DEF IInv, TypeOK
    <2>3. /\ pc' = "top"
          /\ UNCHANGED <<seen, unbooted, running, pendingRepro, reproQueue, stopPending, shutdown,
                         hubRepros, phase>>
      BY <1>1 DEF Released
    <2> QED BY <1>1, <2>1, <2>2, <2>3 DEF IInv, TypeOK
  <1>5. SlotsAccounted'
    <2>1. \A i, k \in jobs' : i # k => i.vms \cap k.vms = {}
      BY <1>2 DEF IInv, SlotsAccounted
    <2> QED BY <1>1, <1>2, <2>1, ReleaseSlots DEF IInv, SlotsAccounted
  <1>6. OneReproPerTitle'
    <2>1. \A k \in jobs' : k \in jobs /\ k.crash # j.crash
      BY <1>2 DEF IInv, OneReproPerTitle
    <2>2. \A i \in 1 .. Len(reproQueue) : reproQueue[i] # j.crash
      BY DEF IInv, OneReproPerTitle
    <2>3. \A c \in Crashes : c \in reproducing' <=>
              \/ \E i \in 1 .. Len(reproQueue') : reproQueue'[i] = c
              \/ \E k \in jobs' : k.crash = c
      BY <1>2, <2>1, <2>2 DEF IInv, OneReproPerTitle
    <2> QED BY <1>2, <2>1, <2>3 DEF IInv, OneReproPerTitle
  <1> QED BY <1>3, <1>4, <1>5, <1>6 DEF IInv

LEMMA InvHolds == Spec => []IInv
  <1>1. IInv /\ [Next]_vars => IInv'
    <2> SUFFICES ASSUME IInv, [Next]_vars PROVE IInv'
      OBVIOUS
    <2>1. CASE Quiet
      BY <2>1, QuietStep
    <2>2. CASE \E c \in Crashes : Enqueue(c)
      BY <2>2, EnqueueStep
    <2>3. CASE \E V \in SUBSET instances : StartRepro(V)
      BY <2>3, StartReproStep
    <2>4. CASE \E v \in VMs : Boot(v) \/ StartInstance(v) \/ RunEnds(v)
      BY <2>4, MoveStep
    <2>5. CASE \E j \in jobs : ReproEnds(j)
      BY <2>5, ReleaseStep
    <2>6. CASE UNCHANGED vars
      <3>1. UNCHANGED slotVars /\ UNCHANGED queueVars /\ UNCHANGED countVars
        BY <2>6 DEF vars, loopVars, slotVars, queueVars, countVars
      <3>2. TypeOK'
        BY <2>6 DEF vars, loopVars, IInv, TypeOK
      <3> QED BY <3>1, <3>2, Untouched DEF IInv
    <2>7. instances \subseteq VMs
      BY DEF IInv, TypeOK
    <2> QED BY <2>1, <2>2, <2>3, <2>4, <2>5, <2>6, <2>7 DEF Next, Loop, Quiet
  <1> QED BY <1>1, InitHolds, PTL DEF Spec

\* The slots reserved for fuzzing are those the reproductions leave.
LEMMA Reserved == IInv => FuzzingReserved
  <1> SUFFICES ASSUME IInv, jobs # {} PROVE Cardinality(VMs \ JobVMs) >= FuzzingVMs
    BY DEF IInv, SlotsCounted, FuzzingReserved
  <1>1. JobVMs \subseteq VMs
    BY DEF IInv, SlotsAccounted
  <1>2. Cardinality(VMs \ JobVMs) = Cardinality(VMs) - Cardinality(JobVMs)
    BY <1>1, DisjointSizes
  <1>3. Cardinality(JobVMs) <= Cardinality(VMs) - FuzzingVMs
    BY DEF IInv, SlotsCounted, maxReproVMs
  <1> QED BY <1>1, <1>2, <1>3, Sizes, VMLoopAssumption

\* For any VMs, crashes and bounds, whatever order the cases of vmLoop's select
\* are taken in: every slot is in exactly one place, a title is reproduced once
\* at a time and never barred for good, and reproductions leave cfg.FuzzingVMs
\* slots to fuzzing.
THEOREM VMLoopSafety == Spec => [](TypeOK /\ SlotsAccounted /\ OneReproPerTitle /\ FuzzingReserved)
  <1>1. IInv => TypeOK /\ SlotsAccounted /\ OneReproPerTitle /\ FuzzingReserved
    BY Reserved DEF IInv
  <1> QED BY <1>1, InvHolds, PTL
=============================================================================
