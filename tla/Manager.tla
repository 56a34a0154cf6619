------------------------------ MODULE Manager -------------------------------
(***************************************************************************)
(* The heart of syz-manager: the corpus and its database, the phases, and  *)
(* the RPC server through which the fuzzers in the VMs get candidates,     *)
(* inputs and signal and report what they find (syz-manager/manager.go,    *)
(* syz-manager/rpc.go).                                                    *)
(*                                                                         *)
(* mgr.mu and serv.mu protect disjoint state.  A handler is one action per *)
(* section under mgr.mu: what it does to the server's state under serv.mu  *)
(* is invisible to the code that holds only mgr.mu, and belongs to the     *)
(* nearest such section.  Connect takes its corpus snapshot before         *)
(* serv.mu, and NewInput updates corpus and corpusSignal in different      *)
(* sections; both are two actions.                                         *)
(*                                                                         *)
(* A VM may die at any moment.  Its memory is gone then, but one of its    *)
(* calls may still be in flight and be served later, even after a new VM   *)
(* has connected under the same name.                                      *)
(***************************************************************************)
EXTENDS Signal

CONSTANTS
    Progs,           \* programs, identified with their hashes
    VMs,             \* names of VM slots ("vm-0", ...), reused on restart
    Calls,           \* system calls
    CallOf,          \* the call an input was found for
    Broken,          \* programs that checkProgram reports as bad
    Disabled,        \* programs with a disabled call
    Leftovers,       \* those of them that programLeftover does not cut to nothing
    Seeds,           \* the programs in the seed directory
    PreserveCorpus,  \* cfg.PreserveCorpus
    HubEnabled,      \* cfg.HubClient != ""
    HubProgs,        \* the programs that hub may send
    BatchSize,       \* serv.batchSize
    InitialBatch,    \* 50: the inputs sent per Poll while a fuzzer starts
    SplitSize,       \* 2000: the signal elements sent per Poll
    SatLimit,        \* 1000: inputs of a call before it may saturate
    CheckFailLimit   \* 10: machine checks that fail before the manager exits

ASSUME ManagerAssumption ==
    /\ IsFiniteSet(Progs)
    /\ CallOf \in [Progs -> Calls]
    /\ Broken \subseteq Progs
    /\ Disabled \subseteq Progs \ Broken
    /\ Leftovers \subseteq Disabled
    /\ Seeds \subseteq Progs
    /\ PreserveCorpus \in BOOLEAN
    /\ HubEnabled \in BOOLEAN
    /\ HubProgs \subseteq Progs
    /\ BatchSize \in Nat \ {0}
    /\ InitialBatch \in Nat
    /\ SplitSize \in Nat \ {0}
    /\ SatLimit \in Nat \ {0}
    /\ CheckFailLimit \in Nat \ {0}

Good == Progs \ (Broken \cup Disabled)

\* rpctype.Input
Inputs == [prog : Progs, sig : Signals]

\* rpctype.Candidate: the record it comes from, and which of the two copies
\* loadCorpus makes it is.  Candidates from hub are copy 3.
Candidates == [rec : Progs, copy : 1 .. 3]

phaseInit == 0
phaseLoadedCorpus == 1
phaseTriagedCorpus == 2
phaseQueriedHub == 3
phaseTriagedHub == 4

VARIABLES
    phase,          \* mgr.phase
    corpus,         \* mgr.corpus: the signal of each input, NoSignal if absent
    lastMin,        \* mgr.lastMinCorpus
    saturated,      \* mgr.saturatedCalls
    candidates,     \* mgr.candidates
    disabledHashes, \* mgr.disabledHashes
    db,             \* mgr.corpusDB: the keys of its records
    unflushed       \* records that are deleted in db and still in corpus.db

mgrVars == <<phase, corpus, lastMin, saturated, candidates, disabledHashes, db, unflushed>>

VARIABLES
    checked,        \* serv.checkResult != nil
    checkFailures,  \* serv.checkFailures
    corpusSignal,   \* serv.corpusSignal
    maxSignal,      \* serv.maxSignal
    fuzzers,        \* serv.fuzzers
    pending         \* the NewInput, if any, that holds serv.mu and has
                    \* returned from mgr.newInput

servVars == <<checked, checkFailures, corpusSignal, maxSignal, fuzzers, pending>>

VARIABLES
    vm,             \* the life of each VM
    connecting,     \* VM names whose Connect is between its two locks
    snap,           \* the corpus snapshot of such a Connect
    inflight,       \* VM names for which a dead VM's call is still in flight
    held,           \* records whose candidates are in the VM's memory, untriaged
    known,          \* the VM's corpusSignal
    knownMax,       \* the VM's maxSignal
    missed,         \* history: signal accepted while the VM's Connect was
                    \* between its two locks
    confused        \* history: a call of a dead VM was served for this one

vmVars == <<vm, connecting, snap, inflight, held, known, knownMax, missed, confused>>

vars == <<mgrVars, servVars, vmVars>>

\* off: no VM.  boot: running.  connect: its Connect is being served.
\* check: connected, its machine check is due.  up: fuzzing.  dead: gone,
\* shutdownInstance is due.
VMStates == {"off", "boot", "connect", "check", "up", "dead"}

Unregistered == [reg |-> FALSE, rotated |-> FALSE, inputs |-> {},
                 newMax |-> NoSignal, rotSig |-> NoSignal]

PendingInputs == [name : VMs, live : BOOLEAN, prog : Progs,
                  orig : Signals, sig : Signals, genuine : BOOLEAN]

TypeOK ==
    /\ phase \in phaseInit .. phaseTriagedHub
    /\ corpus \in [Progs -> Signals]
    /\ lastMin \in Nat
    /\ saturated \subseteq Calls
    /\ candidates \subseteq Candidates
    /\ disabledHashes \subseteq Disabled
    /\ db \subseteq Progs
    /\ unflushed \subseteq Progs
    /\ checked \in BOOLEAN
    /\ checkFailures \in 0 .. CheckFailLimit - 1
    /\ corpusSignal \in Signals
    /\ maxSignal \in Signals
    /\ fuzzers \in [VMs -> [reg : BOOLEAN, rotated : BOOLEAN,
                            inputs : SUBSET Inputs,
                            newMax : Signals, rotSig : Signals]]
    /\ pending \subseteq PendingInputs
    /\ vm \in [VMs -> VMStates]
    /\ connecting \subseteq VMs
    /\ snap \in [VMs -> SUBSET Inputs]
    /\ inflight \subseteq VMs
    /\ held \in [VMs -> SUBSET Progs]
    /\ known \in [VMs -> Signals]
    /\ knownMax \in [VMs -> Signals]
    /\ missed \in [VMs -> Signals]
    /\ confused \in [VMs -> BOOLEAN]

-----------------------------------------------------------------------------
InCorpus == {p \in Progs : corpus[p] # NoSignal}

Below(s, t) == \A e \in Elems : s[e] <= t[e]

\* The merge of the signals of a set of inputs.
MergeAll(I) == [e \in Elems |->
                  CHOOSE k \in Prios : /\ \A i \in I : i.sig[e] <= k
                                       /\ k # 0 => \E i \in I : i.sig[e] = k]

\* The state of a manager process that has just started (RunManager,
\* startRPCServer); db is what preloadCorpus finds in corpus.db.
Init ==
    /\ db \in SUBSET Progs
    /\ phase = phaseInit
    /\ corpus = [p \in Progs |-> NoSignal]
    /\ lastMin = 0
    /\ saturated = {}
    /\ candidates = {}
    /\ disabledHashes = {}
    /\ unflushed = {}
    /\ checked = FALSE
    /\ checkFailures = 0
    /\ corpusSignal = NoSignal
    /\ maxSignal = NoSignal
    /\ fuzzers = [n \in VMs |-> Unregistered]
    /\ pending = {}
    /\ vm = [n \in VMs |-> "off"]
    /\ connecting = {}
    /\ snap = [n \in VMs |-> {}]
    /\ inflight = {}
    /\ held = [n \in VMs |-> {}]
    /\ known = [n \in VMs |-> NoSignal]
    /\ knownMax = [n \in VMs |-> NoSignal]
    /\ missed = [n \in VMs |-> NoSignal]
    /\ confused = [n \in VMs |-> FALSE]

-----------------------------------------------------------------------------
(* Sections under mgr.mu that several handlers share.                       *)

\* minimizeCorpus ranges over a map: any order of the inputs.
Orders(S) == {o \in [1 .. Cardinality(S) -> S] : \A x \in S : \E i \in DOMAIN o : o[i] = x}

Keeps == {{o[i] : i \in Minimize([j \in DOMAIN o |-> corpus[o[j]]])} : o \in Orders(InCorpus)}

InputsOf(c, S) == Cardinality({p \in S : CallOf[p] = c})

\* Mutant of DeleteDropped: disabled records are deleted too.
DeleteDroppedAll(K) == IF phase < phaseTriagedCorpus THEN db ELSE db \cap K

\* The database after minimizeCorpus has kept the inputs in K; BumpVersion
\* flushes it.
DeleteDropped(K) == IF phase < phaseTriagedCorpus
                    THEN db
                    ELSE db \cap (K \cup disabledHashes)

\* Which calls saturate between SatLimit inputs and the hard limit depends on
\* their coverage, which is not modelled: any of them may.
minimizeCorpus ==
    IF phase < phaseLoadedCorpus \/ Cardinality(InCorpus) <= (lastMin * 103) \div 100
    THEN UNCHANGED <<corpus, lastMin, saturated, db, unflushed>>
    ELSE \E K \in Keeps :
            /\ corpus' = [p \in Progs |-> IF p \in K THEN corpus[p] ELSE NoSignal]
            /\ lastMin' = Cardinality(K)
            /\ \E S \in SUBSET {c \in Calls : InputsOf(c, K) >= SatLimit} :
                  saturated' = saturated \cup S
            /\ db' = DeleteDropped(K)
            /\ unflushed' = IF phase < phaseTriagedCorpus THEN unflushed ELSE {}

\* loadProg for every record and every seed, and the duplication.
Loaded(recs) == (recs \ (Broken \cup Disabled))
                   \cup (IF PreserveCorpus THEN {} ELSE recs \cap Leftovers)

\* Broken records are deleted and not flushed.
loadCorpus ==
    /\ db' = db \ Broken
    /\ unflushed' = db \cap Broken
    /\ disabledHashes' = IF PreserveCorpus THEN (db \cup Seeds) \cap Disabled ELSE {}
    /\ candidates' = [rec : Loaded(db \cup Seeds), copy : {1, 2}]
    /\ phase' = phaseLoadedCorpus

\* candidateBatch hands out the candidates in B, from the end of the list: hub's
\* before the shuffled second copies, and these before the first.
Batches(size) == {B \in SUBSET candidates :
                     /\ Cardinality(B) = IF size < Cardinality(candidates)
                                         THEN size ELSE Cardinality(candidates)
                     /\ \A c \in B, d \in candidates \ B : d.copy <= c.copy}

\* Mutants of PhaseAfterDrain: every drain advances the phase; only the first does.
PhaseAfterDrainNext == phase + 1

PhaseAfterDrainOnce ==
    IF phase = phaseLoadedCorpus
    THEN IF HubEnabled THEN phaseTriagedCorpus ELSE phaseTriagedHub
    ELSE phase

\* The phase after the last candidate was handed out.
PhaseAfterDrain ==
    CASE phase = phaseLoadedCorpus -> IF HubEnabled THEN phaseTriagedCorpus ELSE phaseTriagedHub
      [] phase = phaseQueriedHub   -> phaseTriagedHub
      [] OTHER                     -> phase

\* Mutant of candidateBatch: the phase advances while candidates are left.
candidateBatchEarly(B) ==
    /\ B \in Batches(BatchSize)
    /\ candidates' = candidates \ B
    /\ phase' = PhaseAfterDrain

candidateBatch(B) ==
    /\ B \in Batches(BatchSize)
    /\ candidates' = candidates \ B
    /\ phase' = IF B = candidates THEN PhaseAfterDrain ELSE phase

\* Mutant of Updated: the input's earlier signal is lost.
UpdatedOverwrites(p, s) == s

\* newInput, for a call that has not saturated.  When the program is in the
\* corpus already, sign.Merge updates the map the caller passed as well.
Updated(p, s) == Merge(s, corpus[p])

\* Mutant of newInput: nothing is saved while the corpus is triaged.
newInputSavesLate(p, s) ==
    /\ corpus' = [corpus EXCEPT ![p] = Updated(p, s)]
    /\ db' = IF p \in InCorpus \/ phase < phaseTriagedCorpus THEN db ELSE db \cup {p}
    /\ unflushed' = IF p \in InCorpus THEN unflushed ELSE {}

newInput(p, s) ==
    /\ corpus' = [corpus EXCEPT ![p] = Updated(p, s)]
    /\ db' = IF p \in InCorpus THEN db ELSE db \cup {p}
    /\ unflushed' = IF p \in InCorpus THEN unflushed ELSE {}

-----------------------------------------------------------------------------
(* The life of a VM.                                                        *)

VMStart(n) ==
    /\ vm[n] = "off"
    /\ vm' = [vm EXCEPT ![n] = "boot"]
    /\ UNCHANGED <<mgrVars, servVars, connecting, snap, inflight, held, known,
                   knownMax, missed, confused>>

\* The VM crashes, is restarted after an hour, or loses its connection.  One
\* of its calls may still be in flight.
VMDies(n) ==
    /\ vm[n] \notin {"off", "dead"}
    /\ vm' = [vm EXCEPT ![n] = "dead"]
    /\ inflight' \in {inflight, IF vm[n] = "up" THEN inflight \cup {n} ELSE inflight}
    /\ held' = [held EXCEPT ![n] = {}]
    /\ known' = [known EXCEPT ![n] = NoSignal]
    /\ knownMax' = [knownMax EXCEPT ![n] = NoSignal]
    /\ missed' = [missed EXCEPT ![n] = NoSignal]
    /\ UNCHANGED <<mgrVars, servVars, connecting, snap, confused>>

\* shutdownInstance, when MonitorExecution has returned.
Shutdown(n) ==
    /\ vm[n] = "dead"
    /\ pending = {}
    /\ vm' = [vm EXCEPT ![n] = "off"]
    /\ fuzzers' = [fuzzers EXCEPT ![n] = Unregistered]
    /\ confused' = [confused EXCEPT ![n] = FALSE]
    /\ UNCHANGED <<mgrVars, checked, checkFailures, corpusSignal, maxSignal, pending,
                   connecting, snap, inflight, held, known, knownMax, missed>>

-----------------------------------------------------------------------------
(* Connect.                                                                 *)

\* fuzzerConnect, before Connect locks serv.mu.
ConnectSnapshot(n) ==
    /\ vm[n] = "boot"
    /\ n \notin connecting
    /\ minimizeCorpus
    /\ vm' = [vm EXCEPT ![n] = "connect"]
    /\ connecting' = connecting \cup {n}
    /\ snap' = [snap EXCEPT ![n] =
                   {i \in Inputs : i.sig = corpus'[i.prog] /\ i.sig # NoSignal}]
    /\ missed' = [missed EXCEPT ![n] = NoSignal]
    /\ UNCHANGED <<phase, candidates, disabledHashes, servVars, inflight, held,
                   known, knownMax, confused>>

\* The rest of Connect, under serv.mu.  The VM may have died meanwhile.
Register(n, f) ==
    /\ n \in connecting
    /\ pending = {}
    /\ fuzzers' = [fuzzers EXCEPT ![n] = f]
    /\ connecting' = connecting \ {n}
    /\ snap' = [snap EXCEPT ![n] = {}]
    /\ vm' = [vm EXCEPT ![n] = IF @ # "connect" THEN @ ELSE IF checked THEN "up" ELSE "check"]
    /\ confused' = [confused EXCEPT ![n] = FALSE]
    /\ UNCHANGED <<mgrVars, checked, checkFailures, corpusSignal, maxSignal, pending,
                   inflight, held, known, knownMax, missed>>

\* Mutant of PlainFuzzer: the VM starts without the max signal.
PlainFuzzerNoCopy(n) == [reg |-> TRUE, rotated |-> FALSE, inputs |-> snap[n],
                         newMax |-> NoSignal, rotSig |-> NoSignal]

PlainFuzzer(n) == [reg |-> TRUE, rotated |-> FALSE, inputs |-> snap[n],
                   newMax |-> maxSignal, rotSig |-> NoSignal]

ConnectRegister(n) == Register(n, PlainFuzzer(n))

\* rotateCorpus and selectInputs: the inputs in D are dropped and their signal
\* with them, then the elements in T.
WithoutDropped(D) == Part(maxSignal, Elems \ UNION {Present(i.sig) : i \in D})

RotatedFuzzer(n, D, T) ==
    LET newMax == Part(WithoutDropped(D), Elems \ T)
    IN  [reg |-> TRUE, rotated |-> TRUE, inputs |-> snap[n] \ D,
         newMax |-> newMax, rotSig |-> Intersection(corpusSignal, newMax)]

SplitAway(D) ==
    LET s == WithoutDropped(D)
    IN  Splits(s, Cardinality(Present(s)) \div 10)

ConnectRotated(n) ==
    /\ phase = phaseTriagedHub
    /\ \E D \in SUBSET snap[n] : \E T \in SplitAway(D) : Register(n, RotatedFuzzer(n, D, T))

-----------------------------------------------------------------------------
(* Check.                                                                   *)

\* Another VM has made the check already.
CheckAgain(n) ==
    /\ vm[n] = "check"
    /\ pending = {}
    /\ checked
    /\ vm' = [vm EXCEPT ![n] = "up"]
    /\ UNCHANGED <<mgrVars, servVars, connecting, snap, inflight, held, known,
                   knownMax, missed, confused>>

\* Mutant of Check: every VM that has its check due loads the corpus.
CheckEach(n) ==
    /\ vm[n] = "check"
    /\ pending = {}
    /\ loadCorpus
    /\ checked' = TRUE
    /\ vm' = [vm EXCEPT ![n] = "up"]
    /\ UNCHANGED <<corpus, lastMin, saturated, checkFailures, corpusSignal, maxSignal,
                   fuzzers, pending, connecting, snap, inflight, held, known, knownMax,
                   missed, confused>>

\* The check succeeds: machineChecked loads the corpus.
Check(n) ==
    /\ vm[n] = "check"
    /\ pending = {}
    /\ ~checked
    /\ loadCorpus
    /\ checked' = TRUE
    /\ vm' = [vm EXCEPT ![n] = "up"]
    /\ UNCHANGED <<corpus, lastMin, saturated, checkFailures, corpusSignal, maxSignal,
                   fuzzers, pending, connecting, snap, inflight, held, known, knownMax,
                   missed, confused>>

\* The check fails and the fuzzer exits.  The last failure allowed ends the
\* manager too: that is Restart.
CheckFails(n) ==
    /\ vm[n] = "check"
    /\ pending = {}
    /\ ~checked
    /\ checkFailures + 1 < CheckFailLimit
    /\ checkFailures' = checkFailures + 1
    /\ vm' = [vm EXCEPT ![n] = "dead"]
    /\ UNCHANGED <<mgrVars, checked, corpusSignal, maxSignal, fuzzers, pending,
                   connecting, snap, inflight, held, known, knownMax, missed, confused>>

-----------------------------------------------------------------------------
(* NewInput.                                                                *)

\* The sender is the VM itself, whose triageInput sends only signal that is
\* new to it, or the call was in flight when its VM died.
Sends(n, s, live) ==
    /\ s # NoSignal
    /\ pending = {}
    /\ IF live THEN vm[n] = "up" /\ ~Empty(Diff(known[n], s)) ELSE n \in inflight

Genuine(s) == ~Empty(Diff(corpusSignal, s))

RotatedNew(n, s) == fuzzers[n].reg /\ fuzzers[n].rotated /\ ~Empty(Diff(fuzzers[n].rotSig, s))

Accepted(n, p, s) == (Genuine(s) \/ RotatedNew(n, s)) /\ CallOf[p] \notin saturated

\* triageInput adds the input to the VM's own corpus whatever the answer.
Learn(n, s) ==
    /\ known' = [known EXCEPT ![n] = Merge(@, s)]
    /\ knownMax' = [knownMax EXCEPT ![n] = Merge(@, s)]

NewInputRejected(n, p, s, live) ==
    /\ Sends(n, s, live)
    /\ ~Accepted(n, p, s)
    /\ IF live THEN inflight' = inflight /\ Learn(n, s)
               ELSE inflight' = inflight \ {n} /\ UNCHANGED <<known, knownMax>>
    /\ UNCHANGED <<mgrVars, servVars, vm, connecting, snap, held, missed, confused>>

\* NewInput up to the return of mgr.newInput.
NewInputStore(n, p, s, live) ==
    /\ Sends(n, s, live)
    /\ Accepted(n, p, s)
    /\ newInput(p, s)
    /\ pending' = {[name |-> n, live |-> live, prog |-> p, orig |-> s,
                    sig |-> Updated(p, s), genuine |-> Genuine(s)]}
    /\ inflight' = IF live THEN inflight ELSE inflight \ {n}
    /\ UNCHANGED <<phase, lastMin, saturated, candidates, disabledHashes, checked,
                   checkFailures, corpusSignal, maxSignal, fuzzers, vm, connecting,
                   snap, held, known, knownMax, missed, confused>>

\* Mutant of Broadcast: what a rotated VM found is not passed on.
BroadcastNotFromRotated(i) ==
    [m \in VMs |->
        LET f == fuzzers[m]
        IN  IF m = i.name /\ f.rotated THEN [f EXCEPT !.rotSig = Merge(@, i.sig)]
            ELSE IF i.genuine /\ f.reg /\ m # i.name /\ ~fuzzers[i.name].rotated
            THEN [f EXCEPT !.inputs = @ \cup {[prog |-> i.prog, sig |-> i.orig]}]
            ELSE f]

\* The fuzzers after input i has been accepted.
Broadcast(i) ==
    [m \in VMs |->
        LET f == fuzzers[m]
        IN  IF m = i.name /\ f.rotated THEN [f EXCEPT !.rotSig = Merge(@, i.sig)]
            ELSE IF i.genuine /\ f.reg /\ m # i.name /\ ~f.rotated
            THEN [f EXCEPT !.inputs = @ \cup {[prog |-> i.prog, sig |-> i.orig]}]
            ELSE f]

NewSignal(i) == IF i.genuine THEN Merge(corpusSignal, i.sig) ELSE corpusSignal

\* The rest of NewInput, and the VM's own bookkeeping if it still lives.
NewInputMerge ==
    \E i \in pending :
        /\ pending' = {}
        /\ fuzzers' = Broadcast(i)
        /\ corpusSignal' = NewSignal(i)
        /\ IF i.live /\ vm[i.name] = "up" THEN Learn(i.name, i.orig)
                                          ELSE UNCHANGED <<known, knownMax>>
        /\ missed' = [m \in VMs |-> IF i.genuine /\ m \in connecting
                                    THEN Merge(missed[m], i.orig) ELSE missed[m]]
        /\ confused' = [confused EXCEPT ![i.name] = @ \/ (~i.live /\ fuzzers[i.name].reg)]
        /\ UNCHANGED <<mgrVars, checked, checkFailures, maxSignal, vm, connecting,
                       snap, inflight, held>>

-----------------------------------------------------------------------------
(* Poll.                                                                    *)

\* The inputs one Poll takes from the list of fuzzer f.
InputBatches(f) == {I \in SUBSET f.inputs :
                       \E size \in {BatchSize, InitialBatch} :
                          /\ size >= BatchSize
                          /\ Cardinality(I) = IF size < Cardinality(f.inputs)
                                              THEN size ELSE Cardinality(f.inputs)}

\* Mutant of Unsent: what does not fit into one answer is dropped.
UnsentNone(f, T) == NoSignal

\* The max signal that Split leaves for the next Poll.
Unsent(f, T) == Part(f.newMax, Elems \ T)

\* Poll by a registered fuzzer n that reports max signal new: the elements in
\* T, the candidates in B and the inputs in I are its answer.
ServePoll(n, new, need, T, B, I) ==
    LET f == fuzzers[n]
        diff == Diff(maxSignal, new)
    IN  /\ pending = {}
        /\ f.reg
        /\ IF f.rotated
           THEN T = {} /\ B = {} /\ I = {} /\ UNCHANGED <<candidates, phase>>
           ELSE /\ T \in Splits(f.newMax, SplitSize)
                /\ IF need THEN candidateBatch(B)
                           ELSE B = {} /\ UNCHANGED <<candidates, phase>>
                /\ IF B = {} THEN I \in InputBatches(f) ELSE I = {}
        /\ maxSignal' = Merge(maxSignal, diff)
        /\ fuzzers' = [m \in VMs |->
                         IF m = n
                         THEN [f EXCEPT !.newMax = Unsent(f, T), !.inputs = @ \ I]
                         ELSE IF fuzzers[m].reg /\ ~fuzzers[m].rotated
                         THEN [fuzzers[m] EXCEPT !.newMax = Merge(@, diff)]
                         ELSE fuzzers[m]]
        /\ UNCHANGED <<corpus, lastMin, saturated, disabledHashes, db, unflushed, checked,
                       checkFailures, corpusSignal, pending>>

\* The batches of candidates a Poll may get.
BatchesFor(n, need) == IF need /\ ~fuzzers[n].rotated THEN Batches(BatchSize) ELSE {{}}

Poll(n, new, need) ==
    /\ vm[n] = "up"
    /\ \E T \in SUBSET Present(fuzzers[n].newMax), B \in BatchesFor(n, need),
          I \in SUBSET fuzzers[n].inputs :
          /\ ServePoll(n, new, need, T, B, I)
          /\ held' = [held EXCEPT ![n] = @ \cup {c.rec : c \in B}]
          /\ known' = [known EXCEPT ![n] = Merge(@, MergeAll(I))]
          /\ knownMax' = [knownMax EXCEPT ![n] =
                             Merge(Merge(@, MergeAll(I)),
                                   Merge(new, Part(fuzzers[n].newMax, T)))]
    /\ UNCHANGED <<vm, connecting, snap, inflight, missed, confused>>

\* The Poll of a dead VM: its answer goes nowhere.
StalePoll(n, new, need) ==
    /\ n \in inflight
    /\ \E T \in SUBSET Present(fuzzers[n].newMax), B \in BatchesFor(n, need),
          I \in SUBSET fuzzers[n].inputs :
          ServePoll(n, new, need, T, B, I)
    /\ inflight' = inflight \ {n}
    /\ confused' = [confused EXCEPT ![n] = TRUE]
    /\ UNCHANGED <<vm, connecting, snap, held, known, knownMax, missed>>

\* The same after shutdownInstance: the fuzzer is not connected.
LatePoll(n) ==
    /\ n \in inflight
    /\ pending = {}
    /\ ~fuzzers[n].reg
    /\ inflight' = inflight \ {n}
    /\ UNCHANGED <<mgrVars, servVars, vm, connecting, snap, held, known, knownMax,
                   missed, confused>>

-----------------------------------------------------------------------------
\* The fuzzer is done with a candidate; NewInputs for it came before.
Triaged(n, p) ==
    /\ vm[n] = "up"
    /\ p \in held[n]
    /\ held' = [held EXCEPT ![n] = @ \ {p}]
    /\ UNCHANGED <<mgrVars, servVars, vm, connecting, snap, inflight, known, knownMax,
                   missed, confused>>

\* getMinimizedCorpus, called by the hub loop, and the bench loop; both run
\* only after the first machine check.
MinimizeAgain ==
    /\ phase >= phaseLoadedCorpus
    /\ minimizeCorpus
    /\ UNCHANGED <<phase, candidates, disabledHashes, servVars, vmVars>>

\* processProgs and addNewCandidates: hub sent the programs in P.
addNewCandidates(P) ==
    /\ HubEnabled
    /\ phase >= phaseTriagedCorpus
    /\ candidates' = candidates \cup [rec : P \cap Good, copy : {3}]
    /\ phase' = IF phase = phaseTriagedCorpus THEN phaseQueriedHub ELSE phase
    /\ UNCHANGED <<corpus, lastMin, saturated, disabledHashes, db, unflushed, servVars, vmVars>>

\* The manager exits, for whatever reason, and is started again.  Only
\* corpus.db survives.
Restart ==
    /\ db' = db \cup unflushed
    /\ unflushed' = {}
    /\ phase' = phaseInit
    /\ corpus' = [p \in Progs |-> NoSignal]
    /\ lastMin' = 0
    /\ saturated' = {}
    /\ candidates' = {}
    /\ disabledHashes' = {}
    /\ checked' = FALSE
    /\ checkFailures' = 0
    /\ corpusSignal' = NoSignal
    /\ maxSignal' = NoSignal
    /\ fuzzers' = [n \in VMs |-> Unregistered]
    /\ pending' = {}
    /\ vm' = [n \in VMs |-> "off"]
    /\ connecting' = {}
    /\ snap' = [n \in VMs |-> {}]
    /\ inflight' = {}
    /\ held' = [n \in VMs |-> {}]
    /\ known' = [n \in VMs |-> NoSignal]
    /\ knownMax' = [n \in VMs |-> NoSignal]
    /\ missed' = [n \in VMs |-> NoSignal]
    /\ confused' = [n \in VMs |-> FALSE]

Next ==
    \/ \E n \in VMs :
          \/ VMStart(n) \/ VMDies(n) \/ Shutdown(n)
          \/ ConnectSnapshot(n) \/ ConnectRegister(n) \/ ConnectRotated(n)
          \/ Check(n) \/ CheckAgain(n) \/ CheckFails(n)
          \/ LatePoll(n)
          \/ \E new \in Signals, need \in BOOLEAN : Poll(n, new, need) \/ StalePoll(n, new, need)
          \/ \E p \in Good, s \in Signals, live \in BOOLEAN :
                NewInputRejected(n, p, s, live) \/ NewInputStore(n, p, s, live)
          \/ \E p \in held[n] : Triaged(n, p)
    \/ NewInputMerge
    \/ MinimizeAgain
    \/ \E P \in SUBSET HubProgs : addNewCandidates(P)
    \/ Restart

Spec == Init /\ [][Next]_vars

\* Fairness: an idle VM slot is used and handlers run to their end.  What VMs
\* try again and again succeeds: a VM lives until it is connected, a machine
\* check passes, a Poll for candidates gets through.  The hub loop keeps
\* running and hub runs out of new programs.  The manager stops restarting.
Fairness ==
    /\ \A n \in VMs :
          /\ WF_vars(VMStart(n)) /\ WF_vars(Shutdown(n)) /\ SF_vars(ConnectSnapshot(n))
          /\ SF_vars(vm[n] = "connect" /\ ConnectRegister(n)) /\ WF_vars(ConnectRegister(n))
          /\ SF_vars(Check(n)) /\ SF_vars(CheckAgain(n))
          /\ SF_vars(\E new \in Signals : Poll(n, new, TRUE))
    /\ WF_vars(NewInputMerge)
    /\ WF_vars(addNewCandidates({}))
    /\ <>[][~(\E P \in SUBSET HubProgs : P # {} /\ addNewCandidates(P))]_vars
    /\ <>[][~Restart]_vars

FairSpec == Spec /\ Fairness

-----------------------------------------------------------------------------
\* The server's corpusSignal is exactly the merge of the signals of the inputs
\* in the corpus, but for a NewInput between newInput and its update of
\* corpusSignal.  Minimization, rotation and saturation neither lose signal
\* the server believes it has, nor leave signal that NewInput would take for
\* new again.
CorpusSignalExact ==
    /\ pending = {} => IsMergeOf(corpusSignal, corpus, Progs)
    /\ \A i \in pending : IsMergeOf(Merge(corpusSignal, i.sig), corpus, Progs)

\* Every input of the corpus is in the database: newInput saves only programs
\* that were not in the corpus, so minimizeCorpus must never delete the record
\* of one that stays.
CorpusPersisted == InCorpus \subseteq db

\* A record is never deleted while the manager still has to hand out one of its
\* two copies: the second is its chance when a VM dies with the first, and a
\* manager that restarts has only the record.  candidateBatch must not move the
\* phase, on which minimizeCorpus relies, before it has given out the last.
CandidatesKept ==
    [][\A c \in candidates : c.copy # 3 /\ c.rec \in db => c.rec \in db']_vars

\* The corpus is loaded once in the life of a manager, although several VMs may
\* be at their machine check when the first one succeeds: from then on records
\* only leave the list of candidates, and the phase never goes back.
LoadedOnce ==
    [][checked /\ checked' =>
          /\ {c \in candidates' : c.copy # 3} \subseteq candidates
          /\ phase <= phase']_vars

\* Inputs reach every VM that is not rotated: what is in corpusSignal the VM
\* knows, or it is in its list of inputs, or it arrived while the VM's Connect
\* was between its two locks.
CorpusReaches ==
    \A n \in VMs :
        vm[n] \in {"check", "up"} /\ ~fuzzers[n].rotated /\ ~confused[n] =>
            Below(corpusSignal,
                  Merge(Merge(known[n], MergeAll(fuzzers[n].inputs)), missed[n]))

\* Max signal reaches every VM that is not rotated, with no gap in Connect.
MaxSignalReaches ==
    \A n \in VMs :
        vm[n] \in {"check", "up"} /\ ~fuzzers[n].rotated /\ ~confused[n] =>
            Below(maxSignal, Merge(knownMax[n], fuzzers[n].newMax))

\* With preserve_corpus, the record of a program with a disabled call never
\* leaves the database: loadCorpus remembers it before minimizeCorpus deletes.
DisabledKept == [][PreserveCorpus => db \cap Disabled \subseteq db']_vars

\* The phases run to their end: every candidate is handed out and, when there
\* is a hub, it is queried, however often VMs die.
TriageFinishes == <>[](phase = phaseTriagedHub)

-----------------------------------------------------------------------------
(* What comments say and the code does not do.                              *)

\* minimizeCorpus: "Don't minimize persistent corpus until fuzzers have triaged
\* all inputs from it."  The phase advances when the last candidate is handed
\* out, so a record can be deleted while a fuzzer still has to triage it.
UntriagedKept ==
    [][\A p \in db \cap Good : (\E n \in VMs : p \in held[n]) => p \in db']_vars
=============================================================================
