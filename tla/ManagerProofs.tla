--------------------------- MODULE ManagerProofs ----------------------------
(***************************************************************************)
(* What syz-manager never loses, for any number of programs, VMs and       *)
(* signal elements.  Next to the properties themselves the inductive       *)
(* invariant says that at most one NewInput holds serv.mu, that an input   *)
(* accepted only because its VM is rotated adds nothing to corpusSignal,   *)
(* that the corpus has only valid programs (so loadCorpus never deletes    *)
(* one of them), that with preserve_corpus the disabled records are        *)
(* remembered before anything is deleted, that the phase tells whether the *)
(* corpus has been loaded, and that copies of records wait to be handed    *)
(* out in phaseLoadedCorpus only.                                          *)
(***************************************************************************)
EXTENDS Manager, FiniteSetTheorems, WellFoundedInduction, TLAPS

PendingOne == \A i, j \in pending : i = j

PendingBelow == \A i \in pending : ~i.genuine => Below(i.sig, corpusSignal)

CorpusGood == InCorpus \subseteq Good

DisabledRemembered ==
    PreserveCorpus /\ phase >= phaseLoadedCorpus => db \cap Disabled \subseteq disabledHashes

PhaseChecked == checked <=> phase >= phaseLoadedCorpus

CandidatesPhase == \A c \in candidates : c.copy # 3 => phase = phaseLoadedCorpus

Rest == /\ PendingOne /\ PendingBelow /\ CorpusGood
        /\ CorpusSignalExact /\ CorpusPersisted /\ PhaseChecked /\ DisabledRemembered

IInv == TypeOK /\ Rest /\ CandidatesPhase

-----------------------------------------------------------------------------
(* Signals.                                                                 *)

\* A non-empty set of naturals has a least element.
LEMMA Least ==
    ASSUME NEW T \in SUBSET Nat, T # {}
    PROVE  \E x \in T : \A y \in T : x <= y
  <1>1. PICK x \in T : \A y \in T : ~ (<<y, x>> \in OpToRel(<, Nat))
    BY NatLessThanWellFounded, WFMin
  <1>2. \A y \in T : x <= y
    <2>1. TAKE y \in T
    <2>2. ~ (y < x)
      BY <1>1 DEF OpToRel
    <2>3. QED
      BY <2>2
  <1>3. QED
    BY <1>2

\* The operations of pkg/signal return signals.
LEMMA SignalTypes ==
    ASSUME NEW s \in Signals, NEW t \in Signals, NEW T
    PROVE  /\ NoSignal \in Signals
           /\ Diff(s, t) \in Signals
           /\ Merge(s, t) \in Signals
           /\ Intersection(s, t) \in Signals
           /\ Part(s, T) \in Signals
  BY SignalAssumption DEF Signals, Prios, NoSignal, Diff, Merge, Intersection, Part

\* MergeAll is well defined: a set of inputs has a largest priority.
LEMMA MergeAllType ==
    ASSUME NEW I \in SUBSET Inputs
    PROVE  MergeAll(I) \in Signals
  <1>1. ASSUME NEW e \in Elems
        PROVE  \E k \in Prios : /\ \A i \in I : i.sig[e] <= k
                                /\ k # 0 => \E i \in I : i.sig[e] = k
    <2> DEFINE B == {k \in Nat : \A i \in I : i.sig[e] <= k}
    <2>1. \A i \in I : i.sig[e] \in Prios
      BY <1>1 DEF Inputs, Signals
    <2>2. MaxPrio + 1 \in B
      BY <2>1, SignalAssumption DEF Prios
    <2>3. PICK k \in B : \A y \in B : k <= y
      BY <2>2, Least
    <2>4. k \in Prios
      BY <2>2, <2>3, SignalAssumption DEF Prios
    <2>5. ASSUME k # 0 PROVE \E i \in I : i.sig[e] = k
      <3>1. SUFFICES ASSUME \A i \in I : i.sig[e] # k PROVE FALSE
        OBVIOUS
      <3>2. k - 1 \in Nat
        BY <2>5, <2>3
      <3>3. \A i \in I : i.sig[e] <= k - 1
        BY <3>1, <2>1, <2>3, SignalAssumption DEF Prios
      <3>4. k - 1 \in B
        BY <3>2, <3>3
      <3>5. QED
        BY <3>4, <2>3
    <2>6. QED
      BY <2>3, <2>4, <2>5
  <1>2. QED
    BY <1>1 DEF MergeAll, Signals

\* A signal s with nothing that is new to t is below it.
LEMMA DiffBelow ==
    ASSUME NEW s \in Signals, NEW t \in Signals, Diff(t, s) = NoSignal, NEW e \in Elems
    PROVE  s[e] <= t[e]
  <1>1. s[e] \in Nat /\ t[e] \in Nat
    BY SignalAssumption DEF Signals, Prios
  <1>2. Diff(t, s)[e] = IF t[e] >= s[e] THEN 0 ELSE s[e]
    BY DEF Diff
  <1>3. Diff(t, s)[e] = 0
    BY DEF NoSignal
  <1>4. QED
    BY <1>1, <1>2, <1>3

\* Merging a signal s into one input and into the merge of all inputs alike.
LEMMA MergeGrows ==
    ASSUME NEW c \in [Progs -> Signals], NEW t \in Signals, NEW p \in Progs,
           NEW s \in Signals, IsMergeOf(t, c, Progs)
    PROVE  IsMergeOf(Merge(t, Merge(s, c[p])), [c EXCEPT ![p] = Merge(s, c[p])], Progs)
  <1> DEFINE d == [c EXCEPT ![p] = Merge(s, c[p])]
             m == Merge(s, c[p])
             u == Merge(t, m)
  <1>1. m \in Signals /\ u \in Signals /\ d \in [Progs -> Signals]
    BY SignalTypes
  <1>2. SUFFICES ASSUME NEW e \in Elems
                 PROVE  /\ \A x \in Progs : d[x][e] <= u[e]
                        /\ u[e] # 0 => \E x \in Progs : d[x][e] = u[e]
    BY DEF IsMergeOf
  <1>3. /\ \A x \in Progs : c[x][e] <= t[e]
        /\ t[e] # 0 => \E x \in Progs : c[x][e] = t[e]
    BY DEF IsMergeOf
  <1>4. /\ t[e] \in Nat /\ s[e] \in Nat /\ \A x \in Progs : c[x][e] \in Nat
    BY SignalAssumption DEF Signals, Prios
  <1>5. /\ m[e] = IF s[e] < c[p][e] THEN c[p][e] ELSE s[e]
        /\ u[e] = IF t[e] < m[e] THEN m[e] ELSE t[e]
    BY DEF Merge
  <1>6. \A x \in Progs : d[x] = IF x = p THEN m ELSE c[x]
    OBVIOUS
  <1> HIDE DEF d, m, u
  <1>7. \A x \in Progs : d[x][e] <= u[e]
    BY <1>3, <1>4, <1>5, <1>6
  <1>8. ASSUME u[e] # 0 PROVE \E x \in Progs : d[x][e] = u[e]
    <2>1. CASE t[e] < m[e]
      BY <2>1, <1>5, <1>6
    <2>2. CASE ~(t[e] < m[e])
      <3>1. u[e] = t[e]
        BY <2>2, <1>5
      <3>2. PICK x \in Progs : c[x][e] = t[e]
        BY <3>1, <1>8, <1>3
      <3>3. CASE x = p
        BY <3>1, <3>2, <3>3, <2>2, <1>4, <1>5, <1>6
      <3>4. CASE x # p
        BY <3>1, <3>2, <3>4, <1>6
      <3>5. QED
        BY <3>3, <3>4
    <2>3. QED
      BY <2>1, <2>2
  <1>9. QED
    BY <1>7, <1>8

\* minimizeCorpus keeps, for every element, an input with the largest priority.
LEMMA KeepsMerge ==
    ASSUME corpus \in [Progs -> Signals], NEW K \in Keeps,
           NEW s \in Signals, IsMergeOf(s, corpus, Progs)
    PROVE  /\ K \subseteq InCorpus
           /\ IsMergeOf(s, [p \in Progs |-> IF p \in K THEN corpus[p] ELSE NoSignal], Progs)
  <1> DEFINE new == [p \in Progs |-> IF p \in K THEN corpus[p] ELSE NoSignal]
  <1>1. PICK o \in Orders(InCorpus) : K = {o[i] : i \in Minimize([j \in DOMAIN o |-> corpus[o[j]]])}
    BY DEF Keeps
  <1> DEFINE c == [j \in DOMAIN o |-> corpus[o[j]]]
  <1>2. /\ \A j \in DOMAIN o : o[j] \in InCorpus
        /\ \A x \in InCorpus : \E j \in DOMAIN o : o[j] = x
        /\ DOMAIN o \subseteq Nat
    <2>1. o \in [1 .. Cardinality(InCorpus) -> InCorpus]
      BY DEF Orders
    <2>2. IsFiniteSet(InCorpus)
      BY FS_Subset, ManagerAssumption DEF InCorpus
    <2>3. Cardinality(InCorpus) \in Nat
      BY <2>2, FS_CardinalityType
    <2>4. QED
      BY <2>1, <2>3 DEF Orders
  <1>3. K \subseteq InCorpus
    BY <1>1, <1>2 DEF Minimize
  <1>4. SUFFICES ASSUME NEW e \in Elems
                 PROVE  /\ \A x \in Progs : new[x][e] <= s[e]
                        /\ s[e] # 0 => \E x \in Progs : new[x][e] = s[e]
    BY <1>3 DEF IsMergeOf
  <1>5. /\ \A x \in Progs : corpus[x][e] <= s[e]
        /\ s[e] # 0 => \E x \in Progs : corpus[x][e] = s[e]
    BY DEF IsMergeOf
  <1>6. s[e] \in Nat /\ \A x \in Progs : corpus[x][e] \in Nat
    BY SignalAssumption DEF Signals, Prios
  <1>7. \A x \in Progs : new[x][e] <= s[e]
    BY <1>5, <1>6 DEF NoSignal
  <1>8. ASSUME s[e] # 0 PROVE \E x \in Progs : new[x][e] = s[e]
    <2>1. PICK y \in Progs : corpus[y][e] = s[e]
      BY <1>5, <1>8
    <2>2. y \in InCorpus
      BY <2>1, <1>8 DEF InCorpus, NoSignal
    <2> DEFINE J == {j \in DOMAIN o : corpus[o[j]][e] = s[e]}
    <2>3. J \in SUBSET Nat /\ J # {}
      BY <2>1, <2>2, <1>2
    <2>4. PICK i \in J : \A j \in J : i <= j
      BY <2>3, Least
    <2>5. KeepsFor(c, e, i)
      <3>1. i \in DOMAIN o /\ c[i][e] = s[e] /\ i \in Nat
        BY <2>4, <1>2
      <3>2. ASSUME NEW j \in DOMAIN c
            PROVE  c[j][e] <= c[i][e] /\ (j < i => c[j][e] < c[i][e])
        <4>1. j \in DOMAIN o /\ j \in Nat /\ c[j] = corpus[o[j]] /\ o[j] \in Progs
          BY <1>2 DEF InCorpus
        <4>2. c[j][e] <= s[e] /\ c[j][e] \in Nat
          BY <4>1, <1>5, <1>6
        <4>3. j < i => c[j][e] # s[e]
          BY <4>1, <3>1, <2>4
        <4>4. QED
          BY <4>2, <4>3, <3>1, <1>6
      <3>3. QED
        BY <3>1, <3>2, <1>8 DEF KeepsFor
    <2>6. i \in Minimize(c)
      BY <2>4, <2>5 DEF Minimize
    <2>7. o[i] \in K /\ o[i] \in Progs
      BY <2>6, <1>1, <1>3 DEF InCorpus
    <2>8. QED
      BY <2>7, <2>4
  <1>9. QED
    BY <1>7, <1>8

-----------------------------------------------------------------------------
(* Types.                                                                   *)

LEMMA MinimizeTypes ==
    ASSUME TypeOK, minimizeCorpus
    PROVE  /\ corpus' \in [Progs -> Signals] /\ lastMin' \in Nat
           /\ saturated' \subseteq Calls /\ db' \subseteq Progs /\ unflushed' \subseteq Progs
  <1>1. CASE UNCHANGED <<corpus, lastMin, saturated, db, unflushed>>
    BY <1>1 DEF TypeOK
  <1>2. ASSUME NEW K \in Keeps,
               corpus' = [p \in Progs |-> IF p \in K THEN corpus[p] ELSE NoSignal],
               lastMin' = Cardinality(K),
               \E S \in SUBSET {c \in Calls : InputsOf(c, K) >= SatLimit} :
                  saturated' = saturated \cup S,
               db' = DeleteDropped(K),
               unflushed' = IF phase < phaseTriagedCorpus THEN unflushed ELSE {}
        PROVE  /\ corpus' \in [Progs -> Signals] /\ lastMin' \in Nat
               /\ saturated' \subseteq Calls /\ db' \subseteq Progs /\ unflushed' \subseteq Progs
    <2>1. NoSignal \in Signals
      BY SignalAssumption DEF NoSignal, Signals, Prios
    <2>2. corpus' \in [Progs -> Signals]
      BY <1>2, <2>1 DEF TypeOK
    <2>3. K \subseteq Progs
      <3>1. PICK o \in Orders(InCorpus) :
                K = {o[i] : i \in Minimize([j \in DOMAIN o |-> corpus[o[j]]])}
        BY DEF Keeps
      <3>2. QED
        BY <3>1 DEF Orders, Minimize, InCorpus
    <2>4. lastMin' \in Nat
      BY <1>2, <2>3, FS_Subset, FS_CardinalityType, ManagerAssumption
    <2>5. QED
      BY <1>2, <2>2, <2>4 DEF TypeOK, DeleteDropped
  <1>3. QED
    BY <1>1, <1>2 DEF minimizeCorpus

LEMMA ServePollTypes ==
    ASSUME TypeOK, NEW n \in VMs, NEW new \in Signals, NEW need \in BOOLEAN,
           NEW T, NEW B, NEW I, ServePoll(n, new, need, T, B, I)
    PROVE  /\ phase' \in phaseInit .. phaseTriagedHub
           /\ candidates' \subseteq Candidates
           /\ maxSignal' \in Signals
           /\ fuzzers' \in [VMs -> [reg : BOOLEAN, rotated : BOOLEAN, inputs : SUBSET Inputs,
                                    newMax : Signals, rotSig : Signals]]
  <1>1. phase' \in phaseInit .. phaseTriagedHub /\ candidates' \subseteq Candidates
    BY DEF TypeOK, ServePoll, candidateBatch, PhaseAfterDrain, phaseInit, phaseLoadedCorpus,
           phaseTriagedCorpus, phaseQueriedHub, phaseTriagedHub
  <1> DEFINE diff == Diff(maxSignal, new)
             R == [reg : BOOLEAN, rotated : BOOLEAN, inputs : SUBSET Inputs,
                   newMax : Signals, rotSig : Signals]
  <1>2. diff \in Signals /\ Merge(maxSignal, diff) \in Signals
    BY SignalTypes DEF TypeOK
  <1>3. maxSignal' \in Signals
    BY <1>2 DEF ServePoll
  <1>4. ASSUME NEW m \in VMs PROVE fuzzers'[m] \in R
    <2>1. fuzzers[m] \in R
      BY DEF TypeOK
    <2>2. /\ Part(fuzzers[m].newMax, Elems \ T) \in Signals
          /\ Merge(fuzzers[m].newMax, diff) \in Signals
      <3> HIDE DEF diff
      <3>1. QED
        BY <2>1, <1>2, SignalTypes
    <2>3. \/ fuzzers'[m] = fuzzers[m]
          \/ fuzzers'[m] = [fuzzers[m] EXCEPT !.newMax = Part(@, Elems \ T), !.inputs = @ \ I]
          \/ fuzzers'[m] = [fuzzers[m] EXCEPT !.newMax = Merge(@, diff)]
      BY DEF ServePoll, Unsent
    <2> HIDE DEF diff
    <2>4. QED
      BY <2>1, <2>2, <2>3
  <1>5. fuzzers' = [m \in VMs |-> fuzzers'[m]]
    BY DEF ServePoll
  <1>6. QED
    BY <1>1, <1>3, <1>4, <1>5

LEMMA TypeInit == Init => TypeOK
  <1>1. NoSignal \in Signals
    BY SignalAssumption DEF NoSignal, Signals, Prios
  <1>2. Unregistered \in [reg : BOOLEAN, rotated : BOOLEAN, inputs : SUBSET Inputs,
                          newMax : Signals, rotSig : Signals]
    BY <1>1 DEF Unregistered
  <1>3. 0 \in 0 .. CheckFailLimit - 1 /\ phaseInit \in phaseInit .. phaseTriagedHub
    BY ManagerAssumption DEF phaseInit, phaseTriagedHub
  <1>4. ASSUME Init PROVE TypeOK
    <2>1. confused \in [VMs -> BOOLEAN] /\ checked \in BOOLEAN
      BY <1>4, Zenon DEF Init
    <2>2. fuzzers \in [VMs -> [reg : BOOLEAN, rotated : BOOLEAN, inputs : SUBSET Inputs,
                              newMax : Signals, rotSig : Signals]]
      BY <1>2, <1>4 DEF Init
    <2>3. QED
      BY <1>1, <1>3, <1>4, <2>1, <2>2 DEF Init, TypeOK, VMStates
  <1>5. QED
    BY <1>4

LEMMA TypeStep == TypeOK /\ [Next]_vars => TypeOK'
  <1> SUFFICES ASSUME TypeOK, [Next]_vars PROVE TypeOK'
    OBVIOUS
  <1>s. NoSignal \in Signals
    BY SignalAssumption DEF NoSignal, Signals, Prios
  <1>1. ASSUME NEW n \in VMs, VMStart(n) PROVE TypeOK'
    BY <1>1 DEF TypeOK, VMStart, mgrVars, servVars, VMStates
  <1>2. ASSUME NEW n \in VMs, VMDies(n) PROVE TypeOK'
    BY <1>2, <1>s DEF TypeOK, VMDies, mgrVars, servVars, VMStates
  <1>3. ASSUME NEW n \in VMs, Shutdown(n) PROVE TypeOK'
    BY <1>3, <1>s DEF TypeOK, Shutdown, mgrVars, VMStates, Unregistered
  <1>4. ASSUME NEW n \in VMs, ConnectSnapshot(n) PROVE TypeOK'
    BY <1>4, <1>s, MinimizeTypes DEF TypeOK, ConnectSnapshot, servVars, VMStates
  <1>5. ASSUME NEW n \in VMs, ConnectRegister(n) PROVE TypeOK'
    BY <1>5, <1>s DEF TypeOK, ConnectRegister, Register, PlainFuzzer, mgrVars, VMStates
  <1>6. ASSUME NEW n \in VMs, ConnectRotated(n) PROVE TypeOK'
    <2>d. PICK D \in SUBSET snap[n] :
             \E T \in SplitAway(D) : Register(n, RotatedFuzzer(n, D, T))
      BY <1>6 DEF ConnectRotated
    <2>1. PICK T \in SplitAway(D) : Register(n, RotatedFuzzer(n, D, T))
      BY <2>d
    <2>2. /\ WithoutDropped(D) \in Signals
          /\ Part(WithoutDropped(D), Elems \ T) \in Signals
      BY SignalTypes DEF WithoutDropped, TypeOK
    <2>3. Intersection(corpusSignal, Part(WithoutDropped(D), Elems \ T)) \in Signals
      BY <2>2, SignalTypes DEF TypeOK
    <2>4. RotatedFuzzer(n, D, T) \in [reg : BOOLEAN, rotated : BOOLEAN, inputs : SUBSET Inputs,
                                      newMax : Signals, rotSig : Signals]
      BY <2>2, <2>3 DEF TypeOK, RotatedFuzzer
    <2>5. QED
      BY <2>1, <2>4 DEF TypeOK, Register, mgrVars, VMStates
  <1>7. ASSUME NEW n \in VMs, Check(n) PROVE TypeOK'
    <2>1. /\ db' \subseteq Progs /\ unflushed' \subseteq Progs
          /\ disabledHashes' \subseteq Disabled
      BY <1>7 DEF TypeOK, Check, loadCorpus
    <2>2. candidates' \subseteq Candidates
      <3>1. Loaded(db \cup Seeds) \subseteq Progs
        BY ManagerAssumption DEF TypeOK, Loaded
      <3>2. candidates' = [rec : Loaded(db \cup Seeds), copy : {1, 2}]
        BY <1>7 DEF Check, loadCorpus
      <3>3. QED
        BY <3>1, <3>2 DEF Candidates
    <2>3. phase' \in phaseInit .. phaseTriagedHub /\ checked' \in BOOLEAN
      BY <1>7 DEF Check, loadCorpus, phaseInit, phaseLoadedCorpus, phaseTriagedHub
    <2>4. vm' \in [VMs -> VMStates]
      BY <1>7 DEF TypeOK, Check, VMStates
    <2>5. UNCHANGED <<corpus, lastMin, saturated, checkFailures, corpusSignal, maxSignal,
                      fuzzers, pending, connecting, snap, inflight, held, known, knownMax,
                      missed, confused>>
      BY <1>7 DEF Check
    <2>6. QED
      BY <2>1, <2>2, <2>3, <2>4, <2>5 DEF TypeOK
  <1>8. ASSUME NEW n \in VMs, CheckAgain(n) PROVE TypeOK'
    BY <1>8 DEF TypeOK, CheckAgain, mgrVars, servVars, VMStates
  <1>9. ASSUME NEW n \in VMs, CheckFails(n) PROVE TypeOK'
    <2>1. checkFailures' \in 0 .. CheckFailLimit - 1
      BY <1>9, ManagerAssumption DEF TypeOK, CheckFails
    <2>2. vm' \in [VMs -> VMStates]
      BY <1>9 DEF TypeOK, CheckFails, VMStates
    <2>3. UNCHANGED <<mgrVars, checked, corpusSignal, maxSignal, fuzzers, pending,
                      connecting, snap, inflight, held, known, knownMax, missed, confused>>
      BY <1>9 DEF CheckFails
    <2>4. QED
      BY <2>1, <2>2, <2>3 DEF TypeOK, mgrVars
  <1>10. ASSUME NEW n \in VMs, LatePoll(n) PROVE TypeOK'
    BY <1>10 DEF TypeOK, LatePoll, mgrVars, servVars
  <1>11. ASSUME NEW n \in VMs, NEW new \in Signals, NEW need \in BOOLEAN, Poll(n, new, need)
         PROVE  TypeOK'
    <2>1. PICK T \in SUBSET Present(fuzzers[n].newMax), B \in BatchesFor(n, need),
               I \in SUBSET fuzzers[n].inputs :
             /\ ServePoll(n, new, need, T, B, I)
             /\ held' = [held EXCEPT ![n] = @ \cup {c.rec : c \in B}]
             /\ known' = [known EXCEPT ![n] = Merge(@, MergeAll(I))]
             /\ knownMax' = [knownMax EXCEPT ![n] =
                               Merge(Merge(@, MergeAll(I)),
                                     Merge(new, Part(fuzzers[n].newMax, T)))]
      BY <1>11 DEF Poll
    <2>2. I \in SUBSET Inputs /\ MergeAll(I) \in Signals
      <3>1. I \in SUBSET Inputs
        BY DEF TypeOK
      <3>2. QED
        BY <3>1, MergeAllType
    <2>3. Part(fuzzers[n].newMax, T) \in Signals
      BY SignalTypes DEF TypeOK
    <2>4. /\ Merge(known[n], MergeAll(I)) \in Signals
          /\ Merge(knownMax[n], MergeAll(I)) \in Signals
          /\ Merge(new, Part(fuzzers[n].newMax, T)) \in Signals
      BY <2>2, <2>3, SignalTypes DEF TypeOK
    <2>5. Merge(Merge(knownMax[n], MergeAll(I)), Merge(new, Part(fuzzers[n].newMax, T))) \in Signals
      BY <2>4, SignalTypes
    <2>6. known' \in [VMs -> Signals] /\ knownMax' \in [VMs -> Signals]
      BY <2>1, <2>4, <2>5 DEF TypeOK
    <2>7. held' \in [VMs -> SUBSET Progs]
      BY <2>1, SMTT(20) DEF TypeOK, Candidates, BatchesFor, Batches
    <2>8. UNCHANGED <<corpus, lastMin, saturated, disabledHashes, db, unflushed, checked,
                      checkFailures, corpusSignal, pending, vm, connecting, snap, inflight, missed, confused>>
      BY <2>1, <1>11 DEF ServePoll, Poll
    <2>9. /\ phase' \in phaseInit .. phaseTriagedHub
          /\ candidates' \subseteq Candidates
          /\ maxSignal' \in Signals
          /\ fuzzers' \in [VMs -> [reg : BOOLEAN, rotated : BOOLEAN, inputs : SUBSET Inputs,
                                   newMax : Signals, rotSig : Signals]]
      BY <2>1, ServePollTypes
    <2>10. QED
      BY <2>6, <2>7, <2>8, <2>9 DEF TypeOK
  <1>12. ASSUME NEW n \in VMs, NEW new \in Signals, NEW need \in BOOLEAN,
                StalePoll(n, new, need)
         PROVE  TypeOK'
    <2>1. PICK T, B, I : ServePoll(n, new, need, T, B, I)
      BY <1>12 DEF StalePoll
    <2>2. confused' \in [VMs -> BOOLEAN]
      BY <1>12, Zenon DEF TypeOK, StalePoll
    <2>3. UNCHANGED <<corpus, lastMin, saturated, disabledHashes, db, unflushed, checked,
                      checkFailures, corpusSignal, pending, vm, connecting, snap, held, known, knownMax,
                      missed>>
      BY <2>1, <1>12 DEF ServePoll, StalePoll
    <2>4. inflight' \subseteq VMs
      BY <1>12 DEF StalePoll, TypeOK
    <2>5. /\ phase' \in phaseInit .. phaseTriagedHub
          /\ candidates' \subseteq Candidates
          /\ maxSignal' \in Signals
          /\ fuzzers' \in [VMs -> [reg : BOOLEAN, rotated : BOOLEAN, inputs : SUBSET Inputs,
                                   newMax : Signals, rotSig : Signals]]
      BY <2>1, ServePollTypes
    <2>6. QED
      BY <2>2, <2>3, <2>4, <2>5 DEF TypeOK
  <1>13. ASSUME NEW n \in VMs, NEW p \in Good, NEW s \in Signals, NEW live \in BOOLEAN,
                NewInputRejected(n, p, s, live)
         PROVE  TypeOK'
    <2>1. Merge(known[n], s) \in Signals /\ Merge(knownMax[n], s) \in Signals
      BY SignalTypes DEF TypeOK
    <2>2. /\ known' \in [VMs -> Signals] /\ knownMax' \in [VMs -> Signals]
          /\ inflight' \subseteq VMs
      <3>1. CASE live
        BY <1>13, <2>1, <3>1 DEF TypeOK, NewInputRejected, Learn
      <3>2. CASE ~live
        BY <1>13, <3>2 DEF TypeOK, NewInputRejected
      <3>3. QED
        BY <3>1, <3>2
    <2>3. UNCHANGED <<mgrVars, servVars, vm, connecting, snap, held, missed, confused>>
      BY <1>13 DEF NewInputRejected
    <2>4. QED
      BY <2>2, <2>3 DEF TypeOK, mgrVars, servVars
  <1>14. ASSUME NEW n \in VMs, NEW p \in Good, NEW s \in Signals, NEW live \in BOOLEAN,
                NewInputStore(n, p, s, live)
         PROVE  TypeOK'
    <2>1. p \in Progs
      BY DEF Good
    <2>2. Updated(p, s) \in Signals
      BY <2>1, SignalTypes DEF Updated, TypeOK
    <2>3. Genuine(s) \in BOOLEAN
      BY DEF Genuine
    <2>4. pending' \subseteq PendingInputs
      BY <1>14, <2>1, <2>2, <2>3 DEF NewInputStore, PendingInputs
    <2>5. corpus' \in [Progs -> Signals] /\ db' \subseteq Progs /\ unflushed' \subseteq Progs
      BY <1>14, <2>1, <2>2 DEF NewInputStore, newInput, TypeOK
    <2>6. QED
      BY <1>14, <2>4, <2>5 DEF TypeOK, NewInputStore
  <1>15. ASSUME NEW n \in VMs, NEW p \in held[n], Triaged(n, p) PROVE TypeOK'
    BY <1>15 DEF TypeOK, Triaged, mgrVars, servVars
  <1>16. CASE NewInputMerge
    <2>1. PICK i \in pending :
             /\ pending' = {}
             /\ fuzzers' = Broadcast(i)
             /\ corpusSignal' = NewSignal(i)
             /\ IF i.live /\ vm[i.name] = "up" THEN Learn(i.name, i.orig)
                                               ELSE UNCHANGED <<known, knownMax>>
             /\ missed' = [m \in VMs |-> IF i.genuine /\ m \in connecting
                                         THEN Merge(missed[m], i.orig) ELSE missed[m]]
             /\ confused' = [confused EXCEPT ![i.name] = @ \/ (~i.live /\ fuzzers[i.name].reg)]
             /\ UNCHANGED <<mgrVars, checked, checkFailures, maxSignal, vm, connecting,
                            snap, inflight, held>>
      BY <1>16 DEF NewInputMerge
    <2>2. i \in PendingInputs
      BY DEF TypeOK
    <2>3. /\ i.name \in VMs /\ i.prog \in Progs /\ i.orig \in Signals /\ i.sig \in Signals
      BY <2>2 DEF PendingInputs
    <2>4. Broadcast(i) \in [VMs -> [reg : BOOLEAN, rotated : BOOLEAN, inputs : SUBSET Inputs,
                                    newMax : Signals, rotSig : Signals]]
      <3>1. ASSUME NEW m \in VMs
            PROVE  Broadcast(i)[m] \in [reg : BOOLEAN, rotated : BOOLEAN, inputs : SUBSET Inputs,
                                        newMax : Signals, rotSig : Signals]
        <4>1. fuzzers[m] \in [reg : BOOLEAN, rotated : BOOLEAN, inputs : SUBSET Inputs,
                              newMax : Signals, rotSig : Signals]
          BY DEF TypeOK
        <4>2. Merge(fuzzers[m].rotSig, i.sig) \in Signals
          BY <4>1, <2>3, SignalTypes
        <4>3. [prog |-> i.prog, sig |-> i.orig] \in Inputs
          BY <2>3 DEF Inputs
        <4>4. QED
          BY <4>1, <4>2, <4>3 DEF Broadcast
      <3>2. QED
        BY <3>1 DEF Broadcast
    <2>5. NewSignal(i) \in Signals
      BY <2>3, SignalTypes DEF NewSignal, TypeOK
    <2>6. known' \in [VMs -> Signals] /\ knownMax' \in [VMs -> Signals]
      <3>1. Merge(known[i.name], i.orig) \in Signals /\ Merge(knownMax[i.name], i.orig) \in Signals
        BY <2>3, SignalTypes DEF TypeOK
      <3>2. QED
        BY <2>1, <2>3, <3>1 DEF Learn, TypeOK
    <2>7. missed' \in [VMs -> Signals]
      <3>1. \A m \in VMs : Merge(missed[m], i.orig) \in Signals
        BY <2>3, SignalTypes DEF TypeOK
      <3>2. QED
        BY <2>1, <3>1 DEF TypeOK
    <2>8. confused' \in [VMs -> BOOLEAN]
      BY <2>1, <2>3, Zenon DEF TypeOK
    <2>9. QED
      BY <2>1, <2>4, <2>5, <2>6, <2>7, <2>8 DEF TypeOK, mgrVars
  <1>17. CASE MinimizeAgain
    BY <1>17, MinimizeTypes DEF TypeOK, MinimizeAgain, servVars, vmVars
  <1>18. ASSUME NEW P \in SUBSET HubProgs, addNewCandidates(P) PROVE TypeOK'
    <2>1. candidates' \subseteq Candidates
      <3>1. candidates \subseteq Candidates /\ P \cap Good \subseteq Progs
        BY <1>18, ManagerAssumption DEF TypeOK
      <3>2. candidates' = candidates \cup [rec : P \cap Good, copy : {3}]
        BY <1>18 DEF addNewCandidates
      <3>3. QED
        BY <3>1, <3>2 DEF Candidates
    <2>2. phase' \in phaseInit .. phaseTriagedHub
      BY <1>18 DEF TypeOK, addNewCandidates, phaseInit, phaseTriagedCorpus, phaseQueriedHub,
         phaseTriagedHub
    <2>3. UNCHANGED <<corpus, lastMin, saturated, disabledHashes, db, unflushed, servVars, vmVars>>
      BY <1>18 DEF addNewCandidates
    <2>4. QED
      BY <2>1, <2>2, <2>3 DEF TypeOK, servVars, vmVars
  <1>19. CASE Restart
    <2>1. Unregistered \in [reg : BOOLEAN, rotated : BOOLEAN, inputs : SUBSET Inputs,
                            newMax : Signals, rotSig : Signals]
      BY <1>s DEF Unregistered
    <2>2. 0 \in 0 .. CheckFailLimit - 1 /\ phaseInit \in phaseInit .. phaseTriagedHub
      BY ManagerAssumption DEF phaseInit, phaseTriagedHub
    <2>3. confused' \in [VMs -> BOOLEAN] /\ checked' \in BOOLEAN
      BY <1>19, Zenon DEF Restart
    <2>4. fuzzers' \in [VMs -> [reg : BOOLEAN, rotated : BOOLEAN, inputs : SUBSET Inputs,
                               newMax : Signals, rotSig : Signals]]
      BY <1>19, <2>1 DEF Restart
    <2>5. QED
      BY <1>19, <1>s, <2>2, <2>3, <2>4 DEF TypeOK, Restart, VMStates
  <1>20. CASE UNCHANGED vars
    BY <1>20 DEF TypeOK, vars, mgrVars, servVars, vmVars
  <1>21. QED
    BY <1>1, <1>2, <1>3, <1>4, <1>5, <1>6, <1>7, <1>8, <1>9, <1>10, <1>11, <1>12, <1>13, <1>14,
       <1>15, <1>16, <1>17, <1>18, <1>19, <1>20 DEF Next

-----------------------------------------------------------------------------
(* The invariant.                                                           *)

\* Handlers that leave the corpus alone may still move the phase forward.
LEMMA QuietStep ==
    ASSUME Rest, UNCHANGED <<corpus, db, corpusSignal, pending, checked, disabledHashes>>,
           (phase' >= phaseLoadedCorpus) <=> (phase >= phaseLoadedCorpus)
    PROVE  Rest'
  <1>1. PendingOne' /\ PendingBelow'
    BY DEF Rest, PendingOne, PendingBelow, Below
  <1>2. InCorpus' = InCorpus
    BY DEF InCorpus
  <1>3. CorpusGood' /\ CorpusPersisted'
    BY <1>2 DEF Rest, CorpusGood, CorpusPersisted, Good
  <1>4. CorpusSignalExact'
    BY DEF Rest, CorpusSignalExact
  <1>5. PhaseChecked' /\ DisabledRemembered'
    BY DEF Rest, PhaseChecked, DisabledRemembered
  <1>6. QED
    BY <1>1, <1>3, <1>4, <1>5 DEF Rest

LEMMA MinimizeStep ==
    ASSUME TypeOK, Rest, minimizeCorpus,
           UNCHANGED <<phase, disabledHashes, checked, corpusSignal, pending>>
    PROVE  Rest'
  <1>1. CASE UNCHANGED <<corpus, lastMin, saturated, db, unflushed>>
    BY <1>1, QuietStep
  <1>2. ASSUME NEW K \in Keeps,
               corpus' = [p \in Progs |-> IF p \in K THEN corpus[p] ELSE NoSignal],
               db' = DeleteDropped(K)
        PROVE  Rest'
    <2>1. K \subseteq InCorpus
      <3>1. PICK o \in Orders(InCorpus) :
                K = {o[i] : i \in Minimize([j \in DOMAIN o |-> corpus[o[j]]])}
        BY DEF Keeps
      <3>2. QED
        BY <3>1 DEF Orders, Minimize
    <2>2. InCorpus' \subseteq K
      BY <1>2 DEF InCorpus
    <2>3. \A s \in Signals : IsMergeOf(s, corpus, Progs) => IsMergeOf(s, corpus', Progs)
      BY <1>2, KeepsMerge DEF TypeOK
    <2>4. CorpusSignalExact'
      <3>1. corpusSignal \in Signals /\ \A i \in pending : Merge(corpusSignal, i.sig) \in Signals
        BY SignalTypes DEF TypeOK, PendingInputs
      <3>2. pending = {} => IsMergeOf(corpusSignal, corpus', Progs)
        BY <2>3, <3>1 DEF Rest, CorpusSignalExact
      <3>3. \A i \in pending : IsMergeOf(Merge(corpusSignal, i.sig), corpus', Progs)
        BY <2>3, <3>1 DEF Rest, CorpusSignalExact
      <3>4. QED
        BY <3>2, <3>3 DEF CorpusSignalExact
    <2>5. CorpusPersisted' /\ CorpusGood'
      BY <1>2, <2>1, <2>2 DEF Rest, CorpusPersisted, CorpusGood, DeleteDropped, Good
    <2>6. DisabledRemembered'
      BY <1>2 DEF Rest, DisabledRemembered, DeleteDropped
    <2>7. PendingOne' /\ PendingBelow' /\ PhaseChecked'
      BY DEF Rest, PendingOne, PendingBelow, PhaseChecked, Below
    <2>8. QED
      BY <2>4, <2>5, <2>6, <2>7 DEF Rest
  <1>3. QED
    BY <1>1, <1>2 DEF minimizeCorpus

LEMMA StoreStep ==
    ASSUME TypeOK, Rest, NEW n \in VMs, NEW p \in Good, NEW s \in Signals,
           NEW live \in BOOLEAN, NewInputStore(n, p, s, live)
    PROVE  Rest'
  <1> DEFINE m == Merge(s, corpus[p])
  <1>1. /\ p \in Progs /\ pending = {}
        /\ corpus' = [corpus EXCEPT ![p] = m]
        /\ db' = IF p \in InCorpus THEN db ELSE db \cup {p}
        /\ pending' = {[name |-> n, live |-> live, prog |-> p, orig |-> s,
                        sig |-> m, genuine |-> Genuine(s)]}
        /\ UNCHANGED <<phase, disabledHashes, checked, corpusSignal>>
    BY DEF Good, NewInputStore, Sends, newInput, Updated
  <1>2. IsMergeOf(corpusSignal, corpus, Progs)
    BY <1>1 DEF Rest, CorpusSignalExact
  <1>3. m \in Signals
    BY <1>1, SignalTypes DEF TypeOK
  <1>4. IsMergeOf(Merge(corpusSignal, m), corpus', Progs)
    <2>1. corpus \in [Progs -> Signals] /\ corpusSignal \in Signals
      BY DEF TypeOK
    <2>2. IsMergeOf(Merge(corpusSignal, m), [corpus EXCEPT ![p] = m], Progs)
      BY <2>1, <1>1, <1>2, MergeGrows
    <2>3. QED
      BY <1>1, <2>2
  <1>5. \A i \in pending' : i.sig = m /\ (i.genuine <=> Genuine(s))
    <2> DEFINE i0 == [name |-> n, live |-> live, prog |-> p, orig |-> s,
                      sig |-> m, genuine |-> Genuine(s)]
    <2>1. i0.sig = m
      OBVIOUS
    <2>2. i0.genuine <=> Genuine(s)
      BY Zenon
    <2>3. pending' = {i0}
      BY <1>1
    <2> HIDE DEF i0, m
    <2>4. QED
      BY <2>1, <2>2, <2>3
  <1>6. CorpusSignalExact'
    BY <1>1, <1>4, <1>5 DEF CorpusSignalExact
  <1>7. PendingOne'
    BY <1>1 DEF PendingOne
  <1>8. ~Genuine(s) => Below(m, corpusSignal)
    <2>1. SUFFICES ASSUME ~Genuine(s), NEW e \in Elems PROVE m[e] <= corpusSignal[e]
      BY DEF Below
    <2>2. Diff(corpusSignal, s) = NoSignal
      BY <2>1 DEF Genuine, Empty
    <2>3. corpusSignal \in Signals /\ corpus[p] \in Signals
      BY <1>1 DEF TypeOK
    <2>4. s[e] <= corpusSignal[e]
      BY <2>2, <2>3, DiffBelow
    <2>5. corpus[p][e] <= corpusSignal[e]
      BY <1>1, <1>2 DEF IsMergeOf
    <2>6. m[e] = s[e] \/ m[e] = corpus[p][e]
      BY DEF Merge
    <2>7. QED
      BY <2>4, <2>5, <2>6
  <1>9. PendingBelow'
    BY <1>1, <1>5, <1>8 DEF PendingBelow, Below
  <1>10. CorpusPersisted' /\ CorpusGood'
    <2>1. InCorpus' \subseteq InCorpus \cup {p}
      BY <1>1 DEF InCorpus, TypeOK
    <2>2. QED
      BY <1>1, <2>1 DEF Rest, CorpusPersisted, CorpusGood, Good
  <1>11. DisabledRemembered' /\ PhaseChecked'
    BY <1>1 DEF Rest, DisabledRemembered, PhaseChecked, Good
  <1>12. QED
    BY <1>6, <1>7, <1>9, <1>10, <1>11 DEF Rest

LEMMA MergeStep ==
    ASSUME TypeOK, Rest, NewInputMerge
    PROVE  Rest'
  <1>1. PICK i \in pending :
           /\ pending' = {}
           /\ corpusSignal' = NewSignal(i)
           /\ UNCHANGED <<corpus, db, disabledHashes, phase, checked>>
    BY DEF NewInputMerge, mgrVars
  <1>2. IsMergeOf(Merge(corpusSignal, i.sig), corpus, Progs)
    BY DEF Rest, CorpusSignalExact
  <1>3. IsMergeOf(NewSignal(i), corpus, Progs)
    <2>1. CASE i.genuine
      BY <1>2, <2>1 DEF NewSignal
    <2>2. CASE ~i.genuine
      <3>1. \A e \in Elems : i.sig[e] <= corpusSignal[e]
        BY <2>2 DEF Rest, PendingBelow, Below
      <3>2. \A e \in Elems : i.sig[e] \in Nat /\ corpusSignal[e] \in Nat
        <4>1. i.sig \in Signals /\ corpusSignal \in Signals
          BY DEF TypeOK, PendingInputs
        <4>2. QED
          BY <4>1, SignalAssumption DEF Signals, Prios
      <3>3. \A e \in Elems : Merge(corpusSignal, i.sig)[e] = corpusSignal[e]
        BY <3>1, <3>2 DEF Merge
      <3>4. NewSignal(i) = corpusSignal
        BY <2>2 DEF NewSignal
      <3>5. QED
        BY <1>2, <3>3, <3>4 DEF IsMergeOf
    <2>3. QED
      BY <2>1, <2>2
  <1>4. CorpusSignalExact'
    BY <1>1, <1>3 DEF CorpusSignalExact, IsMergeOf
  <1>5. PendingOne' /\ PendingBelow'
    BY <1>1 DEF PendingOne, PendingBelow
  <1>6. CorpusGood' /\ CorpusPersisted' /\ PhaseChecked' /\ DisabledRemembered'
    BY <1>1 DEF Rest, CorpusGood, CorpusPersisted, InCorpus, PhaseChecked, DisabledRemembered
  <1>7. QED
    BY <1>4, <1>5, <1>6 DEF Rest

LEMMA FreshRest ==
    ASSUME corpus = [p \in Progs |-> NoSignal], corpusSignal = NoSignal, pending = {},
           phase = phaseInit, checked = FALSE
    PROVE  Rest
  <1>1. InCorpus = {}
    BY DEF InCorpus
  <1>2. CorpusSignalExact
    BY DEF CorpusSignalExact, IsMergeOf, NoSignal
  <1>3. PhaseChecked /\ DisabledRemembered
    BY DEF PhaseChecked, DisabledRemembered, phaseInit, phaseLoadedCorpus
  <1>4. QED
    BY <1>1, <1>2, <1>3 DEF Rest, PendingOne, PendingBelow, CorpusGood, CorpusPersisted

LEMMA RestStep == TypeOK /\ Rest /\ [Next]_vars => Rest'
  <1> SUFFICES ASSUME TypeOK, Rest, [Next]_vars PROVE Rest'
    OBVIOUS
  <1> DEFINE core == <<corpus, db, corpusSignal, pending, checked, disabledHashes>>
  <1>1. ASSUME NEW n \in VMs, VMStart(n) \/ VMDies(n) \/ CheckAgain(n) \/ LatePoll(n)
        PROVE  Rest'
    BY <1>1, QuietStep DEF VMStart, VMDies, CheckAgain, LatePoll, mgrVars, servVars
  <1>2. ASSUME NEW n \in VMs, Shutdown(n) \/ CheckFails(n)
        PROVE  Rest'
    BY <1>2, QuietStep DEF Shutdown, CheckFails, mgrVars
  <1>3. ASSUME NEW n \in VMs, ConnectRegister(n) \/ ConnectRotated(n)
        PROVE  Rest'
    BY <1>3, QuietStep DEF ConnectRegister, ConnectRotated, Register, mgrVars
  <1>4. ASSUME NEW n \in VMs, ConnectSnapshot(n)
        PROVE  Rest'
    BY <1>4, MinimizeStep DEF ConnectSnapshot, servVars
  <1>5. ASSUME NEW n \in VMs, Check(n)
        PROVE  Rest'
    <2>1. /\ db' = db \ Broken
          /\ disabledHashes' = IF PreserveCorpus THEN (db \cup Seeds) \cap Disabled ELSE {}
          /\ phase' = phaseLoadedCorpus /\ checked' = TRUE
          /\ UNCHANGED <<corpus, corpusSignal, pending>>
      BY <1>5 DEF Check, loadCorpus
    <2>2. CorpusPersisted' /\ CorpusGood'
      BY <2>1 DEF Rest, CorpusPersisted, CorpusGood, InCorpus, Good
    <2>3. PhaseChecked' /\ DisabledRemembered'
      BY <2>1 DEF PhaseChecked, DisabledRemembered, phaseLoadedCorpus
    <2>4. PendingOne' /\ PendingBelow'
      BY <2>1 DEF Rest, PendingOne, PendingBelow, Below
    <2>5. CorpusSignalExact'
      BY <2>1 DEF Rest, CorpusSignalExact
    <2>6. QED
      BY <2>2, <2>3, <2>4, <2>5 DEF Rest
  <1>6. ASSUME NEW n \in VMs, NEW new \in Signals, NEW need \in BOOLEAN,
               Poll(n, new, need) \/ StalePoll(n, new, need)
        PROVE  Rest'
    <2>1. PICK T, B, I : ServePoll(n, new, need, T, B, I)
      BY <1>6 DEF Poll, StalePoll
    <2>2. UNCHANGED core
      BY <2>1 DEF ServePoll
    <2>3. (phase' >= phaseLoadedCorpus) <=> (phase >= phaseLoadedCorpus)
      BY <2>1 DEF ServePoll, candidateBatch, PhaseAfterDrain, TypeOK, phaseInit,
         phaseLoadedCorpus, phaseTriagedCorpus, phaseQueriedHub, phaseTriagedHub
    <2>4. QED
      BY <2>2, <2>3, QuietStep
  <1>7. ASSUME NEW n \in VMs, NEW p \in Good, NEW s \in Signals, NEW live \in BOOLEAN,
               NewInputRejected(n, p, s, live)
        PROVE  Rest'
    <2>1. UNCHANGED <<core, phase>>
      BY <1>7 DEF NewInputRejected, mgrVars, servVars
    <2>2. QED
      BY <2>1, QuietStep
  <1>8. ASSUME NEW n \in VMs, NEW p \in Good, NEW s \in Signals, NEW live \in BOOLEAN,
               NewInputStore(n, p, s, live)
        PROVE  Rest'
    BY <1>8, StoreStep
  <1>9. ASSUME NEW n \in VMs, NEW p \in held[n], Triaged(n, p)
        PROVE  Rest'
    BY <1>9, QuietStep DEF Triaged, mgrVars, servVars
  <1>10. CASE NewInputMerge
    BY <1>10, MergeStep
  <1>11. CASE MinimizeAgain
    BY <1>11, MinimizeStep DEF MinimizeAgain, servVars
  <1>12. ASSUME NEW P \in SUBSET HubProgs, addNewCandidates(P)
         PROVE  Rest'
    <2>1. UNCHANGED core
      BY <1>12 DEF addNewCandidates, servVars
    <2>2. (phase' >= phaseLoadedCorpus) <=> (phase >= phaseLoadedCorpus)
      <3>1. /\ phase >= phaseTriagedCorpus
            /\ phase' = IF phase = phaseTriagedCorpus THEN phaseQueriedHub ELSE phase
        BY <1>12 DEF addNewCandidates
      <3>2. phase \in phaseInit .. phaseTriagedHub
        BY DEF TypeOK
      <3>3. QED
        BY <3>1, <3>2, SMTT(20) DEF phaseInit, phaseLoadedCorpus, phaseTriagedCorpus,
           phaseQueriedHub, phaseTriagedHub
    <2>3. QED
      BY <2>1, <2>2, QuietStep
  <1>13. CASE Restart
    <2>1. InCorpus' = {}
      BY <1>13 DEF Restart, InCorpus
    <2>2. CorpusSignalExact'
      <3>1. /\ corpus' = [x \in Progs |-> NoSignal]
            /\ corpusSignal' = NoSignal /\ pending' = {}
        BY <1>13 DEF Restart
      <3>2. IsMergeOf(NoSignal, [x \in Progs |-> NoSignal], Progs)
        BY DEF IsMergeOf, NoSignal
      <3>3. QED
        BY <3>1, <3>2 DEF CorpusSignalExact
    <2>3. PhaseChecked' /\ DisabledRemembered'
      BY <1>13 DEF Restart, PhaseChecked, DisabledRemembered, phaseInit, phaseLoadedCorpus
    <2>4. PendingOne' /\ PendingBelow'
      BY <1>13 DEF Restart, PendingOne, PendingBelow
    <2>5. QED
      BY <2>1, <2>2, <2>3, <2>4 DEF Rest, CorpusGood, CorpusPersisted
  <1>14. CASE UNCHANGED vars
    BY <1>14, QuietStep DEF vars, mgrVars, servVars
  <1>15. QED
    BY <1>1, <1>2, <1>3, <1>4, <1>5, <1>6, <1>7, <1>8, <1>9, <1>10, <1>11, <1>12, <1>13, <1>14
       DEF Next

\* loadCorpus fills the list and sets the phase; the phase moves on when the
\* list is empty, and what hub adds later are no copies of records.
LEMMA CandidatesStep == TypeOK /\ CandidatesPhase /\ [Next]_vars => CandidatesPhase'
  <1> SUFFICES ASSUME TypeOK, CandidatesPhase, [Next]_vars PROVE CandidatesPhase'
    OBVIOUS
  <1>1. ASSUME UNCHANGED <<candidates, phase>> PROVE CandidatesPhase'
    BY <1>1 DEF CandidatesPhase
  <1>2. ASSUME NEW n \in VMs,
               VMStart(n) \/ VMDies(n) \/ Shutdown(n) \/ ConnectSnapshot(n) \/ ConnectRegister(n)
                  \/ ConnectRotated(n) \/ CheckAgain(n) \/ CheckFails(n) \/ LatePoll(n)
        PROVE  CandidatesPhase'
    BY <1>1, <1>2 DEF VMStart, VMDies, Shutdown, ConnectSnapshot, ConnectRegister, ConnectRotated,
       Register, CheckAgain, CheckFails, LatePoll, mgrVars
  <1>3. ASSUME NEW n \in VMs, Check(n) PROVE CandidatesPhase'
    BY <1>3 DEF Check, loadCorpus, CandidatesPhase
  <1>4. ASSUME NEW n \in VMs, NEW new \in Signals, NEW need \in BOOLEAN,
               Poll(n, new, need) \/ StalePoll(n, new, need)
        PROVE  CandidatesPhase'
    <2>1. PICK T, B, I : ServePoll(n, new, need, T, B, I)
      BY <1>4 DEF Poll, StalePoll
    <2>2. UNCHANGED <<candidates, phase>> \/ candidateBatch(B)
      BY <2>1 DEF ServePoll
    <2>3. ASSUME candidateBatch(B) PROVE CandidatesPhase'
      BY <2>3 DEF candidateBatch, CandidatesPhase
    <2>4. QED
      BY <1>1, <2>2, <2>3
  <1>5. ASSUME NEW n \in VMs, NEW p \in Good, NEW s \in Signals, NEW live \in BOOLEAN,
               NewInputRejected(n, p, s, live) \/ NewInputStore(n, p, s, live)
        PROVE  CandidatesPhase'
    BY <1>1, <1>5 DEF NewInputRejected, NewInputStore, mgrVars
  <1>6. ASSUME NEW n \in VMs, NEW p \in held[n], Triaged(n, p) PROVE CandidatesPhase'
    BY <1>1, <1>6 DEF Triaged, mgrVars
  <1>7. ASSUME NewInputMerge \/ MinimizeAgain PROVE CandidatesPhase'
    BY <1>1, <1>7 DEF NewInputMerge, MinimizeAgain, mgrVars
  <1>8. ASSUME NEW P \in SUBSET HubProgs, addNewCandidates(P) PROVE CandidatesPhase'
    BY <1>8 DEF addNewCandidates, CandidatesPhase, TypeOK, phaseInit, phaseLoadedCorpus,
       phaseTriagedCorpus, phaseQueriedHub, phaseTriagedHub
  <1>9. CASE Restart
    BY <1>9 DEF Restart, CandidatesPhase
  <1>10. CASE UNCHANGED vars
    BY <1>1, <1>10 DEF vars, mgrVars
  <1>11. QED
    BY <1>2, <1>3, <1>4, <1>5, <1>6, <1>7, <1>8, <1>9, <1>10 DEF Next

LEMMA InvHolds == Spec => []IInv
  <1>1. Init => IInv
    <2>1. Init => CandidatesPhase
      BY DEF Init, CandidatesPhase
    <2>2. QED
      BY <2>1, TypeInit, FreshRest DEF Init, IInv
  <1>2. IInv /\ [Next]_vars => IInv'
    BY TypeStep, RestStep, CandidatesStep DEF IInv
  <1>3. QED
    BY <1>1, <1>2, PTL DEF Spec

\* Whatever VMs, fuzzers and hub do and however their calls interleave with
\* minimization: corpusSignal is exactly what the corpus has, and every input
\* of the corpus is in the database.
THEOREM ManagerSafety ==
    Spec => [](TypeOK /\ CorpusSignalExact /\ CorpusPersisted)
  <1>1. IInv => TypeOK /\ CorpusSignalExact /\ CorpusPersisted
    BY DEF IInv, Rest
  <1>2. QED
    BY <1>1, InvHolds, PTL

\* A step deletes records only as loadCorpus or minimizeCorpus does.
LEMMA DeleteStep ==
    ASSUME IInv, Next
    PROVE  /\ \A c \in candidates : c.copy # 3 /\ c.rec \in db => c.rec \in db'
           /\ PreserveCorpus => db \cap Disabled \subseteq db'
  <1> DEFINE Kept == /\ \A c \in candidates : c.copy # 3 /\ c.rec \in db => c.rec \in db'
                     /\ PreserveCorpus => db \cap Disabled \subseteq db'
  <1>1. ASSUME minimizeCorpus PROVE Kept
    <2>1. CASE phase < phaseLoadedCorpus
      BY <1>1, <2>1 DEF minimizeCorpus
    <2>2. CASE ~(phase < phaseLoadedCorpus)
      <3>1. phase >= phaseLoadedCorpus
        BY <2>2 DEF IInv, TypeOK, phaseInit, phaseTriagedHub, phaseLoadedCorpus
      <3>2. PreserveCorpus => db \cap Disabled \subseteq disabledHashes
        BY <3>1 DEF IInv, Rest, DisabledRemembered
      <3>3. db' = db \/ \E K : db' = DeleteDropped(K)
        BY <1>1 DEF minimizeCorpus
      <3>4. ASSUME NEW c \in candidates, c.copy # 3, c.rec \in db PROVE c.rec \in db'
        <4>1. phase < phaseTriagedCorpus
          BY <3>4 DEF IInv, CandidatesPhase, phaseLoadedCorpus, phaseTriagedCorpus
        <4>2. QED
          BY <3>3, <3>4, <4>1 DEF DeleteDropped
      <3>5. QED
        BY <3>2, <3>3, <3>4 DEF DeleteDropped
    <2>3. QED
      BY <2>1, <2>2
  <1>2. ASSUME NEW n \in VMs,
               VMStart(n) \/ VMDies(n) \/ Shutdown(n) \/ ConnectRegister(n) \/ ConnectRotated(n)
                  \/ CheckAgain(n) \/ CheckFails(n) \/ LatePoll(n)
        PROVE  Kept
    BY <1>2 DEF VMStart, VMDies, Shutdown, ConnectRegister, ConnectRotated, Register, CheckAgain,
       CheckFails, LatePoll, mgrVars
  <1>3. ASSUME NEW n \in VMs, ConnectSnapshot(n) PROVE Kept
    BY <1>1, <1>3 DEF ConnectSnapshot
  <1>4. ASSUME NEW n \in VMs, Check(n) PROVE Kept
    <2>1. ~checked /\ db' = db \ Broken
      BY <1>4 DEF Check, loadCorpus
    <2>2. phase # phaseLoadedCorpus
      BY <2>1 DEF IInv, Rest, PhaseChecked, phaseLoadedCorpus
    <2>3. \A c \in candidates : c.copy = 3
      BY <2>2 DEF IInv, CandidatesPhase
    <2>4. QED
      BY <2>1, <2>3, ManagerAssumption
  <1>5. ASSUME NEW n \in VMs, NEW new \in Signals, NEW need \in BOOLEAN,
               Poll(n, new, need) \/ StalePoll(n, new, need)
        PROVE  Kept
    <2>1. PICK T, B, I : ServePoll(n, new, need, T, B, I)
      BY <1>5 DEF Poll, StalePoll
    <2>2. db' = db
      BY <2>1 DEF ServePoll
    <2>3. QED
      BY <2>2
  <1>6. ASSUME NEW n \in VMs, NEW p \in Good, NEW s \in Signals, NEW live \in BOOLEAN,
               NewInputRejected(n, p, s, live) \/ NewInputStore(n, p, s, live)
        PROVE  Kept
    <2>1. db \subseteq db'
      BY <1>6 DEF NewInputRejected, NewInputStore, newInput, mgrVars
    <2>2. QED
      BY <2>1
  <1>7. ASSUME NEW n \in VMs, NEW p \in held[n], Triaged(n, p) PROVE Kept
    BY <1>7 DEF Triaged, mgrVars
  <1>8. ASSUME NewInputMerge \/ Restart \/ \E P \in SUBSET HubProgs : addNewCandidates(P) PROVE Kept
    <2>1. db \subseteq db'
      BY <1>8 DEF NewInputMerge, Restart, addNewCandidates, mgrVars
    <2>2. QED
      BY <2>1
  <1>9. ASSUME MinimizeAgain PROVE Kept
    BY <1>1, <1>9 DEF MinimizeAgain
  <1> HIDE DEF Kept
  <1>10. Kept
    BY <1>2, <1>3, <1>4, <1>5, <1>6, <1>7, <1>8, <1>9 DEF Next
  <1>11. QED
    BY <1>10 DEF Kept

\* Between two restarts only the first successful check loads the corpus.
LEMMA LoadStep ==
    ASSUME IInv, Next, checked, checked'
    PROVE  {c \in candidates' : c.copy # 3} \subseteq candidates /\ phase <= phase'
  <1> DEFINE Once == {c \in candidates' : c.copy # 3} \subseteq candidates /\ phase <= phase'
  <1>p. phase \in 0 .. 4
    BY DEF IInv, TypeOK, phaseInit, phaseTriagedHub
  <1>1. ASSUME UNCHANGED <<candidates, phase>> PROVE Once
    BY <1>1, <1>p
  <1>2. ASSUME NEW n \in VMs,
               VMStart(n) \/ VMDies(n) \/ Shutdown(n) \/ ConnectSnapshot(n) \/ ConnectRegister(n)
                  \/ ConnectRotated(n) \/ CheckAgain(n) \/ CheckFails(n) \/ LatePoll(n)
        PROVE  Once
    <2>1. UNCHANGED <<candidates, phase>>
      BY <1>2 DEF VMStart, VMDies, Shutdown, ConnectSnapshot, ConnectRegister, ConnectRotated,
         Register, CheckAgain, CheckFails, LatePoll, mgrVars
    <2>2. QED
      BY <1>1, <2>1
  <1>3. ASSUME NEW n \in VMs, Check(n) PROVE Once
    BY <1>3 DEF Check
  <1>4. ASSUME NEW n \in VMs, NEW new \in Signals, NEW need \in BOOLEAN,
               Poll(n, new, need) \/ StalePoll(n, new, need)
        PROVE  Once
    <2>1. PICK T, B, I : ServePoll(n, new, need, T, B, I)
      BY <1>4 DEF Poll, StalePoll
    <2>2. UNCHANGED <<candidates, phase>> \/ candidateBatch(B)
      BY <2>1 DEF ServePoll
    <2>3. ASSUME candidateBatch(B) PROVE Once
      BY <2>3, <1>p DEF candidateBatch, PhaseAfterDrain, phaseLoadedCorpus, phaseTriagedCorpus,
         phaseQueriedHub, phaseTriagedHub
    <2> HIDE DEF Once
    <2>4. QED
      BY <1>1, <2>2, <2>3
  <1>5. ASSUME NEW n \in VMs, NEW p \in Good, NEW s \in Signals, NEW live \in BOOLEAN,
               NewInputRejected(n, p, s, live) \/ NewInputStore(n, p, s, live)
        PROVE  Once
    <2>1. UNCHANGED <<candidates, phase>>
      BY <1>5 DEF NewInputRejected, NewInputStore, mgrVars
    <2>2. QED
      BY <1>1, <2>1
  <1>6. ASSUME NEW n \in VMs, NEW p \in held[n], Triaged(n, p) PROVE Once
    <2>1. UNCHANGED <<candidates, phase>>
      BY <1>6 DEF Triaged, mgrVars
    <2>2. QED
      BY <1>1, <2>1
  <1>7. ASSUME NewInputMerge \/ MinimizeAgain PROVE Once
    <2>1. UNCHANGED <<candidates, phase>>
      BY <1>7 DEF NewInputMerge, MinimizeAgain, mgrVars
    <2>2. QED
      BY <1>1, <2>1
  <1>8. ASSUME NEW P \in SUBSET HubProgs, addNewCandidates(P) PROVE Once
    BY <1>8, <1>p DEF addNewCandidates, phaseTriagedCorpus, phaseQueriedHub
  <1>9. ASSUME Restart PROVE Once
    BY <1>9 DEF Restart
  <1> HIDE DEF Once
  <1>10. Once
    BY <1>2, <1>3, <1>4, <1>5, <1>6, <1>7, <1>8, <1>9 DEF Next
  <1>11. QED
    BY <1>10 DEF Once

\* A record stays in the database as long as a copy of it waits to be handed
\* out, the corpus is loaded once in the life of a manager, and with
\* preserve_corpus no disabled record is ever deleted.
THEOREM RecordsKept == Spec => CandidatesKept /\ LoadedOnce /\ DisabledKept
  <1>1. IInv /\ [Next]_vars =>
           [\A c \in candidates : c.copy # 3 /\ c.rec \in db => c.rec \in db']_vars
    BY DeleteStep
  <1>2. IInv /\ [Next]_vars => [PreserveCorpus => db \cap Disabled \subseteq db']_vars
    BY DeleteStep
  <1>3. IInv /\ [Next]_vars =>
           [checked /\ checked' => /\ {c \in candidates' : c.copy # 3} \subseteq candidates
                                  /\ phase <= phase']_vars
    BY LoadStep
  <1>4. QED
    BY <1>1, <1>2, <1>3, InvHolds, PTL DEF Spec, CandidatesKept, LoadedOnce, DisabledKept
=============================================================================
