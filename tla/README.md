# Verification of syzkaller

TLA+ specifications of the concurrent and stateful core of syzkaller: the
fuzzer inside a VM, the manager with its corpus and VM loop, the corpus
database, and the hub through which managers exchange programs. TLC checks
them on small instances, TLAPS proves the safety of three of them for every
instance.

## 1. The system

    syz-ci ──starts──> syz-manager ──VM loop──> VMs ── syz-fuzzer ── executors
                        │  ▲   │                         (work queue, procs,
             corpus.db ─┘  │   └─ pkg/repro               gate, poll goroutine)
             (pkg/db)      │ RPC: Connect, Check, NewInput, Poll
                           └── fuzzers
    syz-manager <── RPC: Connect, Sync ──> syz-hub (state, pkg/db)
    syz-manager, syz-ci ──> dashboard

| Part | State | Operations | What makes it hard |
|---|---|---|---|
| execution gate (`pkg/ipc/gate.go`) | ring of slots, position, stop flag, condition variable | Enter, Leave, callback | every wakeup is a targeted broadcast; the callback must run alone |
| signal (`pkg/signal`) | maps of element to priority | Diff, Intersection, Merge, Split, Minimize | map iteration order, priorities, Split(0) |
| fuzzer (`syz-fuzzer`) | max, corpus and new signal, corpus, four queues | dequeue, execute, triage, minimize, smash, poll | read locks given up between a diff and its use; procs and poll goroutine share everything |
| manager core (`syz-manager/manager.go`) | corpus, candidates, phase, database | loadCorpus, candidateBatch, newInput, minimizeCorpus | two mutexes, handlers in several sections, records deleted under VMs that need them |
| manager RPC server (`syz-manager/rpc.go`) | per-VM queues, corpus, max and rotated signal, check result | Connect, Check, NewInput, Poll, shutdownInstance | VMs die at any moment, names are reused, calls stay in flight |
| VM loop (`syz-manager/manager.go`, vmLoop) | slots, queues of crashes, titles in reproduction, crash directory | start runs and reproductions, one select case each | slots shared by two uses, shutdown, one stop request at a time |
| corpus database (`pkg/db`) | map in memory, log file, pending writes | Open, Save, Delete, Flush, BumpVersion, compact | crashes inside a write, failing writes |
| hub (`syz-hub`) | programs and reproducers with sequence numbers, per-manager corpus and position | Connect, Sync, AddRepro, PendingRepro, Make | several databases flushed one after the other, pages, restarts |
| hub connector (`syz-manager/hub.go`) | what the hub is believed to have | connect, sync | differences sent over calls that fail |
| VM monitor (`vm/vm.go`) | output so far, last execution | MonitorExecution, extractError | oops, exit, timeout and lost connection race |
| executor environment (`pkg/ipc/ipc.go`) | child process, pipes, shared memory | Exec, restart, kill on timeout | timer against reply |
| reproduction (`pkg/repro`) | boot requests, instances, log | Run, extract, bisect, minimize, simplify | flaky crashes, VMs that do not boot |
| dashboard, syz-ci, pkg/bisect, syz-verifier | datastore, builds, jobs, tasks | see PROJECT.json | transactions, restarts, duplicated jobs |
| prog, compiler, executor, report, csource, backends, tools | data | pure functions or I/O | not a question for a small model |

What each part has to get right, and the property that says so, is in section 3.
PROJECT.json lists every part with its status, and the hazards with their lines.

## 2. Modules

| Module | Models | Run by | Proofs |
|---|---|---|---|
| `Gate` | `pkg/ipc/gate.go` | `MCGate` | `GateProofs` |
| `Signal` | `pkg/signal/signal.go`, operators only | `MCManager` (assumption), and below | lemmas in `ManagerProofs` |
| `Fuzzer` (extends `Signal`) | `syz-fuzzer/workqueue.go`, `proc.go`, `fuzzer.go` | `MCFuzzer` | |
| `Manager` (extends `Signal`) | `syz-manager/rpc.go` and the corpus part of `manager.go`, with the VMs as its environment | `MCManager`, `MCLoops` | `ManagerProofs` |
| `VMLoop` | vmLoop, saveCrash, needRepro, saveRepro | `MCLoops` | `VMLoopProofs` |
| `Store` | what pkg/db promises (abstract) | | |
| `DB` | `pkg/db/db.go`, implements `Store` | `MCDB` | |
| `Hub` | `syz-hub`, and the managers' hub loop | `MCHub` | |

Conventions. An action is what a goroutine does under one lock, with the
unshared work before it; where the code gives up a lock and goes on, there are
two actions. Variables have the names of the fields. History variables, which
the code does not have, are marked as such and occur in no guard, but for `had` in
Hub's `FindRepro`, where it keeps a manager from finding what it has already. Operators
whose name extends another's and whose comment says "Mutant" (`NextPosNoWrap`)
are deliberate mistakes; no specification uses them. They show that the property
they are listed with in PROJECT.json can fail.

**Gate.** `pc[t]` is where a thread is in Enter or Leave, `asleep` and `parked`
are the two cv.Wait. `broken` records that one of the four panics was reached. f runs with
the mutex held, so that the other actions wait for its end (`MutexFree`).

**Signal.** A total function from elements to 0..MaxPrio+1, 0 for absent, so that
"absent or of lower priority" is `<`. `Minimize` is declarative; `MCManager`
compares it with the loop of the code on all corpora of up to three inputs.

**Fuzzer.** `proc[p]` is a record with the place of the proc and the locals it
needs there; `next` is where it goes on after an execution (idle, in a
minimization, in a smash). `Execute` draws the signal of an execution and scans
it under the read lock up to the first call with something new; `MergeDiff` is
the write lock of checkNewCallSignal with the diff computed before; `Rescan` goes
on. The three executions of a triage touch nothing shared and are drawn at once
(`GivesUp`). The manager is a supply of candidates, inputs and max signal.

**Manager.** mgr.mu and serv.mu protect disjoint state, so a handler is one
action per section under mgr.mu; Connect and NewInput are two. A VM is its state
(`off` .. `dead`) and what it knows; `inflight` is a call that outlives it.
`Restart` keeps only corpus.db: `db` is the map in memory, and `unflushed` has the
records that loadCorpus deleted from it while nothing has flushed that yet.
`Unsent` is what Split leaves of a VM's max signal for its next Poll.

**VMLoop.** `pc` goes through the parts of an iteration: top (exit, or copy the phase), queue, start,
wait (the select). Each case of the select is an action. The crash directory is reduced to
the number of attempts and the presence of a reproducer.

**MCLoops.** The run `loops` has two systems side by side: a behaviour is one of
VMLoop or one of Manager (with broken and disabled records, seeds and a hub), as the
variable `part` says, which never changes. Nothing is composed; the two share
a run because both ask whether a part of syz-manager comes to an end. "Exited" is a
step of a loop that has returned, so that any other state without a step is reported
as a deadlock.

**DB, Store.** The file is a log of entries and a torn flag; reading stops at a
torn entry. `Store` has the map and the states it had since the last Flush; a
crash may go back to any of them and to nothing else, and only Recreate (the file is
removed) empties it. `RefinesStore` is Store's specification and two things that
it could not tell: a Flush is Store's Sync, which leaves nothing pending, and is never
refused. In `DB` a failed write sets
the history variable `failed`, which is Store's `~intact`: the promise is
suspended until the file is written as a whole or opened again. Meanwhile
`RefinesStore` says nothing; `Mirrored` still holds unless a write was torn, and
`db_flush` shows what happens then.

**Hub.** `disk` is what the hub has written, separately for each database;
it may die between those writes (`HubDiesInConnect`, `HubDiesInSync`) or between
calls (`HubRestart`). A sequence number is written by truncating its file first, and an
empty file reads as 0 (`loadSeqFile`), so there is a state to die in between. The
flush of one database is one write; in the workloads with a hub that dies a call adds
at most one program, for which that is exact. A manager may have found
reproducers before it connects, and finds others later (`finds`). `rpc[m]` is the call
of manager m; calls and replies may be lost.

Composition. `Manager` and `Fuzzer` are two views of one protocol: `Manager` has
all VMs with what they know of the signal, and abstracts triage to reporting
any valid program with any signal; `Fuzzer` has one VM in detail, and abstracts the manager to
what it may answer. `Hub` uses of `DB` only that a flushed database is read back,
which is `RefinesStore`. `VMLoop` sees of `Manager` only that phases advance.

## 3. Runs

| Run | Instance | States | Shows |
|---|---|---|---|
| `gate` | 4 threads, 3 slots | 5 201 | the panics are unreachable, the window and the batch bound hold, f runs alone, no wakeup is lost |
| `fuzzer` | 1 element, 2 priorities, 1-2 procs | 430 459 | no signal in maxSignal is dropped untriaged (`NoSignalDropped`) or kept from the manager (`SignalReported`), programs are sent before they are used (`SentBeforeUse`), triage ends (`TriageEnds`) |
| `manager_sync` | 2 VMs, 1 program | 562 410 | inputs and max signal reach every VM that is not rotated (`CorpusReaches`, `MaxSignalReaches`), the corpus is loaded once (`LoadedOnce`) |
| `manager_corpus` | 2 programs, 2 elements, a hub with nothing to send | 257 057 | `CorpusSignalExact`, `CorpusPersisted`; a record stays as long as a copy of it waits to be handed out (`CandidatesKept`); `MaxSignalReaches` when an answer has room for one element of two |
| `loops` | 3 VMs, no corpus; or 1 VM, good, broken and disabled records, hub | 50 266 | vmLoop: `SlotsAccounted`, `OneReproPerTitle`, `FuzzingReserved`, `ShutdownExits`, `ReproStarts`; triage: `DisabledKept`, `TriageFinishes` |
| `db` | 2 keys | 159 924 | `Mirrored`, `FileBounded`, `RefinesStore` |
| `hub` | 2 managers, 3 programs, 2 reproducers | 740 050 | `Delivered`, `InSync`, `CorpusOwned`, `ReprosDelivered` |
| `hub_live` | 2 programs, reliable network, pages of one | 13 460 | `Exchanged` |
| `manager_untriaged` | 1 VM, 2 programs | violated | a record is deleted while a fuzzer holds its untriaged candidate |
| `db_flush` | 2 keys | violated | a Flush after a torn write loses its records |
| `hub_persist` | 2 managers | violated | a restart of the hub loses reproducers |
| `fuzzer_leak` | as `fuzzer` | violated | leak checks are enabled with a candidate of the corpus still queued |

The four violated runs check what a comment says; PROJECT.json quotes it. When TLC
starts on `MCDB` and `MCManager` it also evaluates an assumption of each: Replay
is the loop of deserializeDB on all logs of up to four entries, and Minimize the loop
of the code on all corpora of up to three inputs.

What the properties except, because the code does not promise it:

- `CorpusReaches` excepts inputs accepted while the Connect of the VM is between its
  two sections (`missed`): they are in neither the snapshot nor the list of inputs.
  It and `MaxSignalReaches` except rotated VMs, and VMs for which a call of a dead VM
  of the same name was served (`confused`).
- `Delivered` excepts replies that were lost, and programs beyond `CapRecords`;
  `ReprosDelivered` lost replies, and the managers `hub_persist` is about.
- `InSync` is an equality only when connect cannot have cut the corpus short.
- `FileBounded` and `RefinesStore` except databases with a failed write.
- `FuzzingReserved` is about loops with a reproduction: when there are fewer VMs than
  are to be kept for fuzzing, there is none.

Bounds, and why they are enough.

- `gate`: with C = 3 the ring wraps with a slot between; four threads are one more
  than there are slots, so that all can be busy with one waiting.
- `fuzzer`: one element with two priorities is the smallest signal in which
  a diff can be stale and still add something, and two calls of one execution can
  both be new. A workload (constant `Workloads`) bounds one behaviour: one proc with everything, two procs
  that find signal, two procs with the manager's candidates.
- `manager_*`: two VMs for broadcasts, two inputs for minimization, one record of
  each kind for the database. `SatLimit` and the batch sizes are small enough to be
  reached. `HubProgs` are the programs that hub may send: none in `manager_corpus`, where
  hub adds its phases, and all of them in `loops`. All runs have `MaxPrio` 0: signals of several priorities are covered by the
  theorems and by the comparison of Minimize, but not for `CorpusReaches`,
  `MaxSignalReaches` and `TriageFinishes`.
- `loops`, vmLoop: three VMs with two per reproduction and one kept for fuzzing: slots have
  to be gathered, and can go to either use. The theorem is for any number.
- `db`: two keys and `MaxLog` entries: compaction by length and by version, and
  entries of both keys in one torn append.
- `hub`: `MaxRecords` 0 and `CapRecords` 2 make a page hold one record and its
  equals, and the cap bite; `MaxConnect` 2 cuts a corpus of three. `MaxSeq` stops a
  behaviour when the sequence numbers run out, so deadlock is not checked. The
  workloads are one program that comes and goes, or two reproducers, with lost calls
  and a hub that dies; and three programs over a reliable network. Pages together with
  lost calls, and programs together with reproducers, are not covered. In `hub_live`
  every manager has more to fetch than a page holds (`Exchanged` fails when the rest of a
  page is skipped).
- Symmetry is used where the members are alike and no liveness is checked.

Fairness.

- `Fuzzer`: goroutines run, an execution ends (the executor is killed by a timer,
  `ipc.go:763`), the manager answers (otherwise the process exits).
- `Manager`: an idle slot is used, handlers end. What VMs try over and over
  succeeds in the end: some VM lives long enough, a machine check passes, a poll
  gets through. The hub runs out of new programs, and the manager is not restarted
  for ever. Without the last two the phases do not have to advance, and the code
  does not claim it.
- `VMLoop`: the loop runs; again and again some slot boots if one is left, some run ends and
  some reproduction ends. Strong fairness, because the select picks any of the ready cases;
  not for every slot by itself, which the properties do not need. Runs end without a
  stop request too (after an hour), so `ReproStarts` is about slots being gathered
  and kept, not about the request.
- `Hub`: the loops go round (every ten minutes), the hub serves; `hub_live` has no
  lost calls.

## 4. Proofs

TLAPS checks, for all values of the constants that satisfy the named assumptions
(`GateAssumption`, `SignalAssumption`, `ManagerAssumption`, `VMLoopAssumption`:
types and finiteness, and at least one slot in a gate):

- `GateProofs!GateSafety`: all the invariants of the run `gate`. The inductive
  invariant adds that running is the number of busy slots, which are those of the
  active threads (`Counted`, `Held`); that stop is set exactly while one thread
  drains (`Stopped`); that the age of an activity is the number of slots the
  position is past its own, round the ring (`Aged`), from which the window follows;
  a bound of the same kind for the activities since the last callback (`Batched`); and why a sleeper sleeps
  (`Sleepers`). Counting rests on three lemmas about the set of busy slots.
- `ManagerProofs!ManagerSafety`: type correctness, `CorpusSignalExact` and
  `CorpusPersisted`. The core is `KeepsMerge`: the inputs
  Minimize keeps have, element by element, the signal of all of them. The invariant
  also says that at most one NewInput is between its two sections, that an input
  accepted only because its VM is rotated adds nothing to corpusSignal, that the corpus
  has only valid programs, that with preserve_corpus disabled records are remembered
  before anything is deleted, that the phase is phaseInit exactly until the machine
  check (`PhaseChecked`), and that records wait to be handed out only before
  phaseTriagedCorpus (`CandidatesPhase`).
- `ManagerProofs!RecordsKept`: the action properties `CandidatesKept`, `LoadedOnce` and
  `DisabledKept`, from the same invariant: `CandidatesPhase` is why a deletion meets no
  waiting candidate, `PhaseChecked` why loadCorpus is not reached again.
- `VMLoopProofs!VMLoopSafety`: type correctness and the three safety invariants of
  vmLoop. `SlotsCounted` (reproInstances is the number of slots of
  all jobs, each job has the slots of one reproduction, and the limit was respected) is
  what makes `FuzzingReserved` follow.

Only model-checked: all liveness (`TriageEnds`, `TriageFinishes`, `ShutdownExits`,
`ReproStarts`, `Exchanged`: fairness and ENABLED are beyond the prover),
`CorpusReaches` and `MaxSignalReaches`, everything about `Fuzzer`, `DB` and `Hub`, and the
comparisons of `Minimize` and `Replay` with the loops of the code, which would need
induction over data.

## 5. Observations

Places where code and comment differ. The first four are runs; the others were
met while modelling, and the models follow the code.

- `manager.go:1219`: the phase advances when the last candidate is handed out, so
  minimizeCorpus may delete a record a fuzzer still has to triage (`manager_untriaged`).
- `db.go:99`: Flush appends behind whatever a failed write has left, and reading
  stops there (`db_flush`).
- `state.go:156`: a saved reproSeq of 0 is taken for a new manager after a restart
  (`hub_persist`).
- `fuzzer.go:428`: triage of the corpus is taken to be over when the manager has no more
  candidates, while some are still queued in the fuzzer, which asks for more when its queue is
  short; "we don't do it while triaging the corpus" (`fuzzer.go:334`) holds only
  roughly, and the text that goes with it says "presumably triaged" (`fuzzer_leak`). Candidates
  of hub, which come later, do not count here.
- `gate.go:22` says that f is called "after each batch of c activities". It is called
  whenever slot 0 is left, after 1 to 2c - 1 activities (`BatchBound`).
- `rpc.go:140` speaks of the corpus "that will be sent to the VM (f.inputs)" after a
  rotation. Poll returns before it sends anything to a rotated VM (`rpc.go:340`).
- `rpc.go:144` says that "10% of the remaining signal" is dropped.
  `Split(len / 10)` is `Split(0)` for fewer than ten elements, and that moves
  everything (`signal.go:43`).
- `db.go:107`: Version is set before compact. After a compact that failed, the next
  BumpVersion of the same version only flushes and returns nil.
- `hub.go:124`: connect sends at most 100000 programs, but hubCorpus counts all of them
  as known to the hub from then on (see `InSync`).
- `manager.go:1223`: the phase stays phaseTriagedCorpus until the hub has been reached.
- `state.go:344`: a page has `maxRecords` + 1 records before it is rounded up; the
  comment at `state.go:330` says "at most that many".

## 6. Not modelled

Exits of a process (log.Fatalf) other than as its death. Coverage, statistics,
logs, pages. The text of programs, reports and configurations. The encodings of
RPCs and of records, except that a record is read whole or not at all. Time, other
than as a timer that may fire. For the parts with no module see PROJECT.json.

Simplifications that change no property above:

- `Manager`: a fuzzer's decision to send an input and the server's handling of it
  are one step, so the guard of `Sends` sees the VM's signal of that moment; a
  rejected or repeated input is an action of its own. A program has one call
  (`CallOf`). A dead VM leaves at most one call in flight. A new input whose Flush
  fails stays in the corpus only: failing writes are the subject of `DB`. The early
  return at `rpc.go:286` is not reached: with a cover filter the report generator is
  initialized, as the comment there says.
- `Hub`: a database that cannot be opened ends Connect with an error in the code
  and is left out. Managers are loaded in any order; with two of them the order cannot
  be told.
- `DB`: a torn entry ends the log. In the code the bytes appended behind it could in principle
  be read as its rest; the entries they make are not modelled.
- `Fuzzer`: addInputToCorpus takes two locks, one after the other; nothing reads the
  corpus and the corpus signal together, and they are updated in one step. dequeue sends its
  request for a poll after it has given up the lock; the channel has room for one, and
  the request is part of `Take`.

## 7. Plan

Done: gate, signal, manager, VM loop, database, hub, fuzzer; theorems for gate,
manager (with the lemmas about signal it needs) and VM loop. Next, in this order:

1. `Monitor`: MonitorExecution and extractError; the report is the oops if there was one.
2. `Exec`: the environment of the executor; a finished execution is not a hang, a
   killed executor is not used again, Close and Exec.
3. `Repro`: boot workers and instances (no test blocks for ever), bisection of the
   log against a reference, the order of simplifications.
4. `Jobs`: the life of a dashboard job with several syz-ci, and `Reporting` stages.
5. `Bisect`: the interval of commits and the verdicts of flaky tests.
6. Proofs: `FuzzerProofs` (`NoSignalDropped`, `SignalReported`, `SentBeforeUse`),
   `DBProofs` (`Mirrored`, then the refinement of Store), `HubProofs` (`InSync`,
   `CorpusOwned`), and `MaxSignalReaches` for the manager.

A new run takes the place of one whose question a theorem has settled, or is joined
with one as a workload.
