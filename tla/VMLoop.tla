------------------------------- MODULE VMLoop -------------------------------
(***************************************************************************)
(* vmLoop of syz-manager: which VM slots fuzz, which reproduce crashes,    *)
(* what is reproduced and when the manager may exit, together with the     *)
(* crash directory that decides what still needs a reproducer              *)
(* (syz-manager/manager.go).                                               *)
(*                                                                         *)
(* The loop is one goroutine.  It enqueues pending crashes (pc = "queue"), *)
(* gives idle slots to reproductions and to fuzzing ("start") and then     *)
(* waits in a select ("wait"), one action per case.                        *)
(***************************************************************************)
EXTENDS Integers, Sequences, FiniteSets

CONSTANTS
    VMs,                \* VM indices
    FuzzingVMs,         \* cfg.FuzzingVMs: slots that reproductions may not use
    PerRepro,           \* 4: the slots a reproduction would like to have
    Titles,             \* crash titles
    HubTitle,           \* "external repro": the title of every crash made from a reproducer of hub
    Unwanted,           \* titles a leak-checking instance does not reproduce
    HasDash,            \* mgr.dash != nil
    MaxReproAttempts,   \* 3
    MaxPending          \* bound: pending crashes of one title, and reproducers hub has under way

ASSUME VMLoopAssumption ==
    /\ IsFiniteSet(VMs)
    /\ FuzzingVMs \in Nat
    /\ PerRepro \in Nat \ {0}
    /\ HubTitle \notin Titles
    /\ Unwanted \subseteq Titles
    /\ HasDash \in BOOLEAN
    /\ MaxReproAttempts \in Nat
    /\ MaxPending \in Nat

maxReproVMs == Cardinality(VMs) - FuzzingVMs

instancesPerRepro == IF PerRepro > maxReproVMs /\ maxReproVMs > 0 THEN maxReproVMs ELSE PerRepro

phaseTriagedHub == 4

\* A crash is its title; the ones made from reproducers of hub have theirs.
Crashes == Titles \cup {HubTitle}

VARIABLES
    pc,             \* where the loop is
    phase,          \* mgr.phase, moved by the RPC handlers
    seen,           \* the loop's copy of it
    unbooted,       \* slots the boot goroutine has not sent yet
    instances,      \* idle slots
    running,        \* slots with a runInstance
    pendingRepro,   \* how many crashes of each title wait
    reproducing,    \* titles in reproQueue or being reproduced
    reproQueue,     \* crashes to reproduce, the next one last
    jobs,           \* reproductions: the crash and its slots
    reproInstances, \* slots given to reproductions
    stopPending,    \* a VM was asked to stop
    shutdown,       \* vm.Shutdown is closed, and the loop has seen it
    hubRepros       \* reproducers asked of hub, up to hubReproQueue

loopVars == <<pc, seen, unbooted, instances, running, pendingRepro, reproducing, reproQueue,
              jobs, reproInstances, stopPending, shutdown, hubRepros>>

VARIABLES
    attempts,       \* crash directory: files repro0, repro1, ... of a title
    reproduced      \* crash directory: titles with a repro.prog

vars == <<loopVars, phase, attempts, reproduced>>

Jobs == [crash : Crashes, vms : SUBSET VMs]

TypeOK ==
    /\ pc \in {"top", "queue", "start", "wait", "exited"}
    /\ phase \in 0 .. phaseTriagedHub
    /\ seen \in 0 .. phaseTriagedHub
    /\ unbooted \subseteq VMs
    /\ instances \subseteq VMs
    /\ running \subseteq VMs
    /\ pendingRepro \in [Crashes -> 0 .. MaxPending]
    /\ reproducing \subseteq Crashes
    /\ reproQueue \in Seq(Crashes)
    /\ jobs \subseteq Jobs
    /\ reproInstances \in Nat
    /\ stopPending \in BOOLEAN
    /\ shutdown \in BOOLEAN
    /\ hubRepros \in 0 .. MaxPending
    /\ attempts \in [Titles -> 0 .. MaxReproAttempts]
    /\ reproduced \subseteq Titles

Init ==
    /\ pc = "top"
    /\ phase = 0
    /\ seen = 0
    /\ unbooted = VMs
    /\ instances = {}
    /\ running = {}
    /\ pendingRepro = [c \in Crashes |-> 0]
    /\ reproducing = {}
    /\ reproQueue = <<>>
    /\ jobs = {}
    /\ reproInstances = 0
    /\ stopPending = FALSE
    /\ shutdown = FALSE
    /\ hubRepros = 0
    /\ attempts = [t \in Titles |-> 0]
    /\ reproduced = {}

\* The RPC handlers move the phase (module Manager).
PhaseAdvances ==
    /\ phase < phaseTriagedHub
    /\ phase' \in phase + 1 .. phaseTriagedHub
    /\ UNCHANGED <<loopVars, attempts, reproduced>>

-----------------------------------------------------------------------------
(* The top of the loop.                                                     *)

Top ==
    /\ pc = "top"
    /\ ~shutdown \/ instances # VMs
    /\ seen' = phase
    /\ pc' = "queue"
    /\ UNCHANGED <<unbooted, instances, running, pendingRepro, reproducing, reproQueue, jobs,
                   reproInstances, stopPending, shutdown, hubRepros, phase, attempts, reproduced>>

Exit ==
    /\ pc = "top"
    /\ shutdown /\ instances = VMs
    /\ pc' = "exited"
    /\ UNCHANGED <<seen, unbooted, instances, running, pendingRepro, reproducing, reproQueue, jobs,
                   reproInstances, stopPending, shutdown, hubRepros, phase, attempts, reproduced>>

needLocalRepro(t) == t \notin reproduced /\ attempts[t] < MaxReproAttempts

\* needRepro; answer is the dashboard's, which may also fail.
needRepro(c, answer) ==
    \/ c = HubTitle
    \/ /\ phase > 0 /\ c \notin Unwanted
       /\ IF HasDash THEN answer ELSE needLocalRepro(c)

\* Mutant of CanEnqueue: the titles being reproduced are not skipped.
CanEnqueueAny(c) == pendingRepro[c] > 0

\* One iteration over pendingRepro for a crash that is not skipped.
CanEnqueue(c) == pendingRepro[c] > 0 /\ c \notin reproducing

Enqueue(c) ==
    /\ pc = "queue"
    /\ CanEnqueue(c)
    /\ pendingRepro' = [pendingRepro EXCEPT ![c] = @ - 1]
    /\ \E answer \in BOOLEAN :
          IF needRepro(c, answer)
          THEN /\ reproducing' = reproducing \cup {c}
               /\ reproQueue' = Append(reproQueue, c)
          ELSE UNCHANGED <<reproducing, reproQueue>>
    /\ UNCHANGED <<pc, seen, unbooted, instances, running, jobs, reproInstances, stopPending,
                   shutdown, hubRepros, phase, attempts, reproduced>>

Enqueued ==
    /\ pc = "queue"
    /\ \A c \in Crashes : ~CanEnqueue(c)
    /\ pc' = "start"
    /\ UNCHANGED <<seen, unbooted, instances, running, pendingRepro, reproducing, reproQueue, jobs,
                   reproInstances, stopPending, shutdown, hubRepros, phase, attempts, reproduced>>

canRepro == /\ seen >= phaseTriagedHub
            /\ reproQueue # <<>>
            /\ reproInstances + instancesPerRepro <= maxReproVMs

\* Mutant of StartRepro: reproInstances counts reproductions, not slots.
StartReproCountsOne(V) ==
    /\ pc = "start"
    /\ ~shutdown
    /\ canRepro
    /\ V \subseteq instances
    /\ Cardinality(V) = instancesPerRepro
    /\ reproQueue' = SubSeq(reproQueue, 1, Len(reproQueue) - 1)
    /\ instances' = instances \ V
    /\ jobs' = jobs \cup {[crash |-> reproQueue[Len(reproQueue)], vms |-> V]}
    /\ reproInstances' = reproInstances + 1
    /\ UNCHANGED <<pc, seen, unbooted, running, pendingRepro, reproducing, stopPending, shutdown,
                   hubRepros, phase, attempts, reproduced>>

StartRepro(V) ==
    /\ pc = "start"
    /\ ~shutdown
    /\ canRepro
    /\ V \subseteq instances
    /\ Cardinality(V) = instancesPerRepro
    /\ reproQueue' = SubSeq(reproQueue, 1, Len(reproQueue) - 1)
    /\ instances' = instances \ V
    /\ jobs' = jobs \cup {[crash |-> reproQueue[Len(reproQueue)], vms |-> V]}
    /\ reproInstances' = reproInstances + instancesPerRepro
    /\ UNCHANGED <<pc, seen, unbooted, running, pendingRepro, reproducing, stopPending, shutdown,
                   hubRepros, phase, attempts, reproduced>>

\* Mutants of StartInstance: also after the shutdown; also when a reproduction
\* waits for slots.
StartInstanceAlways(v) ==
    /\ pc = "start"
    /\ ~canRepro
    /\ v \in instances
    /\ instances' = instances \ {v}
    /\ running' = running \cup {v}
    /\ UNCHANGED <<pc, seen, unbooted, pendingRepro, reproducing, reproQueue, jobs, reproInstances,
                   stopPending, shutdown, hubRepros, phase, attempts, reproduced>>

StartInstanceEager(v) ==
    /\ pc = "start"
    /\ ~shutdown
    /\ v \in instances
    /\ instances' = instances \ {v}
    /\ running' = running \cup {v}
    /\ UNCHANGED <<pc, seen, unbooted, pendingRepro, reproducing, reproQueue, jobs, reproInstances,
                   stopPending, shutdown, hubRepros, phase, attempts, reproduced>>

StartInstance(v) ==
    /\ pc = "start"
    /\ ~shutdown
    /\ ~canRepro
    /\ v \in instances
    /\ instances' = instances \ {v}
    /\ running' = running \cup {v}
    /\ UNCHANGED <<pc, seen, unbooted, pendingRepro, reproducing, reproQueue, jobs, reproInstances,
                   stopPending, shutdown, hubRepros, phase, attempts, reproduced>>

Started ==
    /\ pc = "start"
    /\ \/ shutdown
       \/ canRepro /\ Cardinality(instances) < instancesPerRepro
       \/ ~canRepro /\ instances = {}
    /\ pc' = "wait"
    /\ UNCHANGED <<seen, unbooted, instances, running, pendingRepro, reproducing, reproQueue, jobs,
                   reproInstances, stopPending, shutdown, hubRepros, phase, attempts, reproduced>>

-----------------------------------------------------------------------------
(* The cases of the select.                                                 *)

Wait == pc = "wait"

Boot(v) ==
    /\ Wait
    /\ v \in unbooted
    /\ unbooted' = unbooted \ {v}
    /\ instances' = instances \cup {v}
    /\ pc' = "top"
    /\ UNCHANGED <<seen, running, pendingRepro, reproducing, reproQueue, jobs, reproInstances,
                   stopPending, shutdown, hubRepros, phase, attempts, reproduced>>

\* Some running VM takes the request; it ends like any other.
StopRequest ==
    /\ Wait
    /\ ~stopPending /\ canRepro /\ running # {}
    /\ stopPending' = TRUE
    /\ pc' = "top"
    /\ UNCHANGED <<seen, unbooted, instances, running, pendingRepro, reproducing, reproQueue, jobs,
                   reproInstances, shutdown, hubRepros, phase, attempts, reproduced>>

Finished(v) ==
    /\ Wait
    /\ v \in running
    /\ running' = running \ {v}
    /\ instances' = instances \cup {v}
    /\ stopPending' = FALSE
    /\ pc' = "top"
    /\ UNCHANGED <<seen, unbooted, reproducing, reproQueue, jobs, reproInstances, shutdown, hubRepros,
                   phase, attempts, reproduced>>

\* The VM ran for an hour, was stopped or failed to start; or shutdown.
RunDone(v) == Finished(v) /\ UNCHANGED pendingRepro

\* saveCrash of a crash titled t: need is what the dashboard answers, and what
\* becomes of a corrupted, suppressed or unwanted report.
RunCrashed(v, t, need) ==
    /\ ~shutdown
    /\ Finished(v)
    /\ pendingRepro[t] < MaxPending
    /\ pendingRepro' = IF need /\ (HasDash \/ needLocalRepro(t))
                       THEN [pendingRepro EXCEPT ![t] = @ + 1]
                       ELSE pendingRepro

\* Mutant of Released: one slot is given back.
ReleasedOne(j) ==
    /\ Wait
    /\ j \in jobs
    /\ jobs' = jobs \ {j}
    /\ reproducing' = reproducing \ {j.crash}
    /\ \E v \in j.vms : instances' = instances \cup {v}
    /\ reproInstances' = reproInstances - instancesPerRepro
    /\ pc' = "top"
    /\ UNCHANGED <<seen, unbooted, running, pendingRepro, reproQueue, stopPending, shutdown,
                   hubRepros, phase>>

\* What every end of a reproduction does.
Released(j) ==
    /\ Wait
    /\ j \in jobs
    /\ jobs' = jobs \ {j}
    /\ reproducing' = reproducing \ {j.crash}
    /\ instances' = instances \cup j.vms
    /\ reproInstances' = reproInstances - instancesPerRepro
    /\ pc' = "top"
    /\ UNCHANGED <<seen, unbooted, running, pendingRepro, reproQueue, stopPending, shutdown,
                   hubRepros, phase>>

\* Mutant of ReproFailed: the attempts are not limited.
ReproFailedAgain(j, reported) ==
    /\ Released(j)
    /\ attempts' = [t \in Titles |->
                      IF t = j.crash /\ ~(HasDash /\ reported)
                      THEN attempts[t] + 1
                      ELSE attempts[t]]
    /\ UNCHANGED reproduced

\* No reproducer: saveFailedRepro, unless the crash came from hub.  reported
\* says that the dashboard took the report.
ReproFailed(j, reported) ==
    /\ Released(j)
    /\ attempts' = [t \in Titles |->
                      IF t = j.crash /\ ~(HasDash /\ reported) /\ attempts[t] < MaxReproAttempts
                      THEN attempts[t] + 1
                      ELSE attempts[t]]
    /\ UNCHANGED reproduced

\* A reproducer, for a crash with title t, which need not be the one it was
\* started for: saveRepro.
ReproSucceeded(j, t, reported) ==
    /\ Released(j)
    /\ reproduced' = IF HasDash /\ reported THEN reproduced ELSE reproduced \cup {t}
    /\ UNCHANGED attempts

Shutdown ==
    /\ Wait
    /\ ~shutdown
    /\ shutdown' = TRUE
    /\ pc' = "top"
    /\ UNCHANGED <<seen, unbooted, instances, running, pendingRepro, reproducing, reproQueue, jobs,
                   reproInstances, stopPending, hubRepros, phase, attempts, reproduced>>

\* hubReproQueue: processRepros has made a crash out of a reproducer of hub.
HubCrash ==
    /\ Wait
    /\ hubRepros > 0
    /\ pendingRepro[HubTitle] < MaxPending
    /\ pendingRepro' = [pendingRepro EXCEPT ![HubTitle] = @ + 1]
    /\ hubRepros' = hubRepros - 1
    /\ pc' = "top"
    /\ UNCHANGED <<seen, unbooted, instances, running, reproducing, reproQueue, jobs,
                   reproInstances, stopPending, shutdown, phase, attempts, reproduced>>

\* needMoreRepros, asked by the hub loop before every sync: it gets one
\* reproducer (or none) only after a yes, while earlier ones may still be in
\* the channel.  reproRequest, for the web page, is a read like this one.
NeedMoreRepros ==
    /\ Wait
    /\ seen >= phaseTriagedHub
    /\ reproQueue = <<>> /\ reproducing = {}
    /\ \A c \in Crashes : pendingRepro[c] = 0
    /\ hubRepros < MaxPending
    /\ hubRepros' = hubRepros + 1
    /\ UNCHANGED <<pc, seen, unbooted, instances, running, pendingRepro, reproducing, reproQueue,
                   jobs, reproInstances, stopPending, shutdown, phase, attempts, reproduced>>

Loop == \/ Top \/ Exit \/ Enqueued \/ Started
        \/ \E c \in Crashes : Enqueue(c)
        \/ \E V \in SUBSET instances : StartRepro(V)
        \/ \E v \in instances : StartInstance(v)

RunEnds(v) == RunDone(v) \/ \E t \in Titles, need \in BOOLEAN : RunCrashed(v, t, need)

ReproEnds(j) == \E reported \in BOOLEAN :
                    ReproFailed(j, reported) \/ \E t \in Titles : ReproSucceeded(j, t, reported)

Next ==
    \/ PhaseAdvances
    \/ Loop
    \/ \E v \in VMs : Boot(v) \/ RunEnds(v)
    \/ \E j \in jobs : ReproEnds(j)
    \/ StopRequest \/ Shutdown \/ HubCrash \/ NeedMoreRepros

Spec == Init /\ [][Next]_vars

\* The loop and the boot goroutine run, and runs and reproductions end: a VM is
\* stopped after an hour at the latest, and repro.Run takes a bounded number of
\* executions.  Strong, because a Go select picks any ready case.
FairSpec ==
    /\ Spec
    /\ WF_vars(Loop)
    /\ SF_vars(\E v \in VMs : Boot(v))
    /\ SF_vars(\E v \in VMs : RunEnds(v))
    /\ SF_vars(\E j \in jobs : ReproEnds(j))

-----------------------------------------------------------------------------
JobVMs == UNION {j.vms : j \in jobs}

\* Every VM slot is in exactly one place: not booted yet, idle, fuzzing, or in
\* one reproduction.  A slot lost here would never fuzz again, and the loop,
\* which counts idle slots, would never exit.
SlotsAccounted ==
    /\ unbooted \cup instances \cup running \cup JobVMs = VMs
    /\ unbooted \cap instances = {} /\ unbooted \cap running = {} /\ instances \cap running = {}
    /\ JobVMs \cap (unbooted \cup instances \cup running) = {}
    /\ \A i, j \in jobs : i # j => i.vms \cap j.vms = {}

\* reproducing has exactly the titles that are queued or being reproduced, each
\* once: no title is reproduced twice at a time, and none is barred for good
\* because its title was left behind.
OneReproPerTitle ==
    /\ \A c \in Crashes : c \in reproducing <=> \/ \E i \in 1 .. Len(reproQueue) : reproQueue[i] = c
                                                \/ \E j \in jobs : j.crash = c
    /\ \A i, k \in 1 .. Len(reproQueue) : reproQueue[i] = reproQueue[k] => i = k
    /\ \A i, j \in jobs : i.crash = j.crash => i = j
    /\ \A i \in 1 .. Len(reproQueue), j \in jobs : reproQueue[i] # j.crash

\* Reproductions never take the slots reserved for fuzzing, and reproInstances
\* counts the slots they have.
FuzzingReserved ==
    /\ reproInstances = Cardinality(JobVMs)
    /\ jobs # {} => Cardinality(VMs \ JobVMs) >= FuzzingVMs

\* After a shutdown the loop exits, whatever was running, queued or pending.
ShutdownExits == shutdown ~> pc = "exited"

\* A queued crash does not wait while nothing is reproduced, once the corpus is
\* triaged: enough slots are gathered, and none of them goes back to fuzzing.
ReproStarts ==
    maxReproVMs > 0 /\ reproQueue # <<>> /\ phase = phaseTriagedHub ~> jobs # {} \/ shutdown
=============================================================================
