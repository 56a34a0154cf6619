------------------------------- MODULE Fuzzer -------------------------------
(***************************************************************************)
(* syz-fuzzer inside a VM: the work queue (workqueue.go), the procs that   *)
(* execute, triage and smash programs (proc.go), and the goroutine that    *)
(* polls the manager (fuzzer.go), on the signal they share.                *)
(*                                                                         *)
(* A step is what a goroutine does under one lock, with the local work     *)
(* that leads to it.  An execution reports signal for some calls, and may  *)
(* report something else the next time.  Which program is generated,       *)
(* mutated or left by prog.Minimize is free, and so is how many executions *)
(* that takes, up to a bound.  What ends the process (log.Fatalf, a leak   *)
(* report) is a death of the VM to module Manager and not repeated here;   *)
(* the gate around an execution is module Gate.                            *)
(***************************************************************************)
EXTENDS Signal, Sequences

CONSTANTS
    Progs,
    Procs,
    CandidateFlags, \* sets of flags that the manager's candidates have
    SignalRuns,     \* 3: executions of a triage
    Workloads       \* what a behaviour is about, and its bounds

ASSUME FuzzerAssumption ==
    /\ IsFiniteSet(Procs) /\ Procs # {}
    /\ CandidateFlags \subseteq SUBSET {"minimized", "smashed"}
    /\ SignalRuns \in Nat \ {0}
    /\ Workloads \subseteq [procs : SUBSET Procs \ {{}},  \* those that run
                           prio : 0 .. MaxPrio,     \* signalPrio of the calls
                           infos : Nat,     \* calls with signal in an execution
                           smash : Nat,     \* executions of a smash, 100 or more
                           minimize : Nat,  \* executions of a minimization
                           supply : Nat]    \* candidates, inputs and max signals
                                            \* the manager sends

VARIABLES
    maxSignal,          \* max signal ever observed including flakes
    corpusSignal,       \* signal of inputs in corpus
    newSignal,          \* diff of maxSignal since last sync with the manager
    corpus,
    triageCandidate, candidate, triage, smash,  \* the queues; the last item is next
    proc,               \* each proc's place and locals
    poll,               \* the polling goroutine's
    needPoll,           \* the channel of capacity 1 holds a token
    started,            \* main has started the procs
    triagedCandidates

signalVars == <<maxSignal, corpusSignal, newSignal>>
queueVars == <<triageCandidate, candidate, triage, smash>>

VARIABLES
    load,           \* the workload; never changes
    supply,         \* what the manager may still send; the rest is history:
    settled,        \* signal that triage gave up or that came with a reply
    shared,         \* signal the manager has sent or received
    delivered       \* inputs the manager has sent or received

vars == <<signalVars, corpus, queueVars, proc, poll, needPoll, started, triagedCandidates,
          load, supply, settled, shared, delivered>>

\* CallInfo.Signal with the signalPrio of the call.
Infos == {FromRaw(raw, prio) : raw \in SUBSET Elems \ {{}}, prio \in 0 .. load.prio}

InfoSeqs == UNION {[1 .. n -> Infos] : n \in 0 .. load.infos}

\* ProgTypes; the empty set is ProgNormal.
ProgTypes == SUBSET {"candidate", "minimized", "smashed"}

WorkTriage == [prog : Progs, sig : Infos, flags : ProgTypes]
WorkCandidate == [prog : Progs, flags : ProgTypes]

Front(q) == SubSeq(q, 1, Len(q) - 1)

Idle == [pc |-> "idle"]

\* Before an execution of a program; the proc goes on at next.
Exec(q, flags, next) == [pc |-> "exec", prog |-> q, flags |-> flags, next |-> next]

Init == /\ load \in Workloads
        /\ maxSignal = NoSignal /\ corpusSignal = NoSignal /\ newSignal = NoSignal
        /\ corpus = {}
        /\ triageCandidate = <<>> /\ candidate = <<>> /\ triage = <<>> /\ smash = <<>>
        /\ proc = [p \in load.procs |-> Idle]
        /\ poll = [pc |-> "grab", need |-> TRUE]
        /\ needPoll = TRUE
        /\ started = FALSE
        /\ triagedCandidates = 0
        /\ supply = load.supply
        /\ settled = NoSignal /\ shared = NoSignal /\ delivered = {}

Go(p, local) == proc' = [proc EXCEPT ![p] = local]

WantCandidates(queue) == Len(queue) < Cardinality(load.procs)

-----------------------------------------------------------------------------
(* WorkQueue.dequeue and the choice of proc.loop. *)

\* The check under the read lock; nothing there: generate or mutate.
Dequeue(p) ==
    /\ started /\ proc[p].pc = "idle"
    /\ IF \A q \in {triageCandidate, candidate, triage, smash} : q = <<>>
       THEN \E q \in Progs : Go(p, Exec(q, {}, Idle))
       ELSE Go(p, [pc |-> "take"])
    /\ UNCHANGED <<signalVars, corpus, queueVars, poll, needPoll, started,
                   triagedCandidates, supply, settled, shared, delivered>>

TriageOf(work) == [pc |-> "triage", work |-> work]

SmashOf(q, left) == [pc |-> "smash", prog |-> q, left |-> left]

\* The write lock: the last item of the first queue that is not empty, if
\* there still is one.
Take(p) ==
    /\ proc[p].pc = "take"
    /\ \/ /\ triageCandidate # <<>>
          /\ Go(p, TriageOf(triageCandidate[Len(triageCandidate)]))
          /\ triageCandidate' = Front(triageCandidate)
          /\ UNCHANGED <<candidate, triage, smash, needPoll>>
       \/ /\ triageCandidate = <<>> /\ candidate # <<>>
          /\ LET item == candidate[Len(candidate)]
             IN  Go(p, Exec(item.prog, item.flags, Idle))
          /\ candidate' = Front(candidate)
          /\ needPoll' = (needPoll \/ WantCandidates(candidate'))
          /\ UNCHANGED <<triageCandidate, triage, smash>>
       \/ /\ triageCandidate = <<>> /\ candidate = <<>> /\ triage # <<>>
          /\ Go(p, TriageOf(triage[Len(triage)]))
          /\ triage' = Front(triage)
          /\ UNCHANGED <<triageCandidate, candidate, smash, needPoll>>
       \/ /\ triageCandidate = <<>> /\ candidate = <<>> /\ triage = <<>> /\ smash # <<>>
          /\ Go(p, SmashOf(smash[Len(smash)], load.smash))
          /\ smash' = Front(smash)
          /\ UNCHANGED <<triageCandidate, candidate, triage, needPoll>>
       \/ /\ \A q \in {triageCandidate, candidate, triage, smash} : q = <<>>
          /\ \E q \in Progs : Go(p, Exec(q, {}, Idle))
          /\ UNCHANGED <<queueVars, needPoll>>
    /\ UNCHANGED <<signalVars, corpus, poll, started, triagedCandidates,
                   supply, settled, shared, delivered>>

-----------------------------------------------------------------------------
(* execute: checkNewSignal and the triage work it leaves. *)

\* checkNewSignal under the read lock: on to the first call with something new.
Scan(p, q, flags, todo, found, next) ==
    LET news == {i \in DOMAIN todo : ~Empty(Diff(maxSignal, todo[i]))}
        i == CHOOSE j \in news : \A k \in news : j <= k
    IN  Go(p, IF news # {}
              THEN [pc |-> "merge", prog |-> q, flags |-> flags, info |-> todo[i],
                    diff |-> Diff(maxSignal, todo[i]), next |-> next, found |-> found,
                    todo |-> SubSeq(todo, i + 1, Len(todo))]
              ELSE IF found # <<>>
              THEN [pc |-> "enqueue", prog |-> q, flags |-> flags, found |-> found, next |-> next]
              ELSE next)

\* An execution; no signal if it failed.
Execute(p) ==
    /\ proc[p].pc = "exec"
    /\ \E infos \in InfoSeqs :
          Scan(p, proc[p].prog, proc[p].flags, infos, <<>>, proc[p].next)
    /\ UNCHANGED <<signalVars, corpus, queueVars, poll, needPoll, started,
                   triagedCandidates, supply, settled, shared, delivered>>

\* checkNewCallSignal under the write lock: the diff, as it was before.
MergeDiff(p) ==
    LET l == proc[p]
    IN  /\ l.pc = "merge"
        /\ maxSignal' = Merge(maxSignal, l.diff)
        /\ newSignal' = Merge(newSignal, l.diff)
        /\ Go(p, [pc |-> "scan", prog |-> l.prog, flags |-> l.flags, next |-> l.next,
                  found |-> Append(l.found, l.info), todo |-> l.todo])
        /\ UNCHANGED <<corpusSignal, corpus, queueVars, poll, needPoll, started,
                       triagedCandidates, supply, settled, shared, delivered>>

\* Back under the read lock for the calls that are left.
Rescan(p) ==
    LET l == proc[p]
    IN  /\ l.pc = "scan"
        /\ Scan(p, l.prog, l.flags, l.todo, l.found, l.next)
        /\ UNCHANGED <<signalVars, corpus, queueVars, poll, needPoll, started,
                       triagedCandidates, supply, settled, shared, delivered>>

\* enqueue of a *WorkTriage.
EnqueueTriage(item) ==
    IF "candidate" \in item.flags
    THEN triageCandidate' = Append(triageCandidate, item) /\ UNCHANGED triage
    ELSE triage' = Append(triage, item) /\ UNCHANGED triageCandidate

\* Mutant: only the first call is triaged.
AfterEnqueueFirst(l) == l.next

\* enqueueCallTriage, for one call after the other.
AfterEnqueue(l) == IF Len(l.found) = 1 THEN l.next ELSE [l EXCEPT !.found = Tail(@)]

EnqueueCall(p) ==
    LET l == proc[p]
    IN  /\ l.pc = "enqueue"
        /\ EnqueueTriage([prog |-> l.prog, sig |-> Head(l.found), flags |-> l.flags])
        /\ Go(p, AfterEnqueue(l))
        /\ UNCHANGED <<signalVars, corpus, candidate, smash, poll, needPoll, started,
                       triagedCandidates, supply, settled, shared, delivered>>

-----------------------------------------------------------------------------
(* triageInput and smashInput. *)

\* The three executions: NoSignal stands for a call that did not run, failed
\* now and not before, or had no signal.  Too many of these, or nothing new
\* that every other run confirms, and triage gives up.
GivesUp(work, new, runs) ==
    LET ok == {i \in DOMAIN runs : ~Empty(runs[i])}
    IN  \/ SignalRuns - Cardinality(ok) > SignalRuns \div 2 + 1
        \/ /\ "minimized" \notin work.flags
           /\ \A e \in Present(new) : \E i \in ok : runs[i][e] < new[e]

\* Mutant: the manager's own inputs are not sent back.
AfterRunsKnown(work) ==
    IF "minimized" \in work.flags THEN [pc |-> "corpus", work |-> work]
    ELSE [pc |-> "minimize", work |-> work, left |-> load.minimize]

AfterRuns(work) ==
    IF "minimized" \in work.flags THEN [pc |-> "send", work |-> work]
    ELSE [pc |-> "minimize", work |-> work, left |-> load.minimize]

\* Mutant: an input that triage gives up is queued again.
GiveUpRetries(p) == /\ Go(p, Idle)
                    /\ EnqueueTriage(proc[p].work)
                    /\ settled' = settled

GiveUp(p) == /\ Go(p, Idle)
             /\ settled' = Merge(settled, proc[p].work.sig)
             /\ UNCHANGED <<triageCandidate, triage>>

Triage(p) ==
    /\ proc[p].pc = "triage"
    /\ LET work == proc[p].work
           new == Diff(corpusSignal, work.sig)
       IN  \/ /\ Empty(new)
              /\ Go(p, Idle)
              /\ UNCHANGED <<settled, triageCandidate, triage>>
           \/ /\ ~Empty(new)
              /\ \E runs \in [1 .. SignalRuns -> Infos \cup {NoSignal}] :
                    IF GivesUp(work, new, runs)
                    THEN GiveUp(p)
                    ELSE Go(p, AfterRuns(work)) /\ UNCHANGED <<settled, triageCandidate, triage>>
    /\ UNCHANGED <<signalVars, corpus, candidate, smash, poll, needPoll, started,
                   triagedCandidates, supply, shared, delivered>>

\* prog.Minimize: executes candidates as normal programs and leaves one.
Minimizing(p) ==
    LET l == proc[p]
    IN  /\ l.pc = "minimize"
        /\ \/ /\ l.left > 0
              /\ \E q \in Progs : Go(p, Exec(q, {}, [l EXCEPT !.left = @ - 1]))
           \/ \E q \in Progs : Go(p, [pc |-> "send", work |-> [l.work EXCEPT !.prog = q]])
        /\ UNCHANGED <<signalVars, corpus, queueVars, poll, needPoll, started,
                       triagedCandidates, supply, settled, shared, delivered>>

SendInputToManager(p) ==
    LET l == proc[p]
    IN  /\ l.pc = "send"
        /\ shared' = Merge(shared, l.work.sig)
        /\ delivered' = delivered \cup {l.work.prog}
        /\ Go(p, [l EXCEPT !.pc = "corpus"])
        /\ UNCHANGED <<signalVars, corpus, queueVars, poll, needPoll, started,
                       triagedCandidates, supply, settled>>

\* corpusMu and then signalMu; nobody takes both.
AddInputToCorpus(q, sign) ==
    /\ corpus' = corpus \cup {q}
    /\ corpusSignal' = Merge(corpusSignal, sign)
    /\ maxSignal' = Merge(maxSignal, sign)

AddInput(p) ==
    LET l == proc[p]
    IN  /\ l.pc = "corpus"
        /\ AddInputToCorpus(l.work.prog, l.work.sig)
        /\ Go(p, IF "smashed" \in l.work.flags THEN Idle
                 ELSE [pc |-> "added", prog |-> l.work.prog])
        /\ UNCHANGED <<newSignal, queueVars, poll, needPoll, started,
                       triagedCandidates, supply, settled, shared, delivered>>

EnqueueSmash(p) ==
    /\ proc[p].pc = "added"
    /\ smash' = Append(smash, proc[p].prog)
    /\ Go(p, Idle)
    /\ UNCHANGED <<signalVars, corpus, triageCandidate, candidate, triage, poll, needPoll, started,
                   triagedCandidates, supply, settled, shared, delivered>>

\* smashInput: fault injection, hints and mutations of the program.
SmashInput(p) ==
    LET l == proc[p]
    IN  /\ l.pc = "smash"
        /\ IF l.left > 0
           THEN \E q \in Progs : Go(p, Exec(q, {}, SmashOf(l.prog, l.left - 1)))
           ELSE Go(p, Idle)
        /\ UNCHANGED <<signalVars, corpus, queueVars, poll, needPoll, started,
                       triagedCandidates, supply, settled, shared, delivered>>

ProcStep(p) == \/ Dequeue(p) \/ Take(p) \/ Execute(p) \/ MergeDiff(p) \/ Rescan(p)
               \/ EnqueueCall(p) \/ Triage(p) \/ Minimizing(p) \/ SendInputToManager(p)
               \/ AddInput(p) \/ EnqueueSmash(p) \/ SmashInput(p)

-----------------------------------------------------------------------------
(* pollLoop and poll. *)

procVars == <<proc, started, smash, triage, triageCandidate>>

Waiting == [pc |-> "wait"]

\* The token: a proc has left fewer candidates than there are procs.
PollNeeded == /\ poll.pc = "wait" /\ needPoll
              /\ needPoll' = FALSE
              /\ poll' = IF WantCandidates(candidate) THEN [pc |-> "grab", need |-> TRUE] ELSE poll
              /\ UNCHANGED <<signalVars, corpus, candidate, procVars, triagedCandidates,
                             supply, settled, shared, delivered>>

\* The ticker, with the last poll that had nothing long ago.
PollTick == /\ poll.pc = "wait"
            /\ poll' = [pc |-> "grab", need |-> WantCandidates(candidate)]
            /\ UNCHANGED <<signalVars, corpus, candidate, procVars, needPoll, triagedCandidates,
                           supply, settled, shared, delivered>>

GrabNewSignal == /\ poll.pc = "grab"
                 /\ poll' = [pc |-> "call", need |-> poll.need, grabbed |-> newSignal]
                 /\ newSignal' = NoSignal
                 /\ UNCHANGED <<maxSignal, corpusSignal, corpus, candidate, procVars, needPoll,
                                triagedCandidates, supply, settled, shared, delivered>>

\* What Manager.Poll may answer: the signal and the inputs of other fuzzers,
\* and candidates if they were asked for.  It sends nothing twice, so there is
\* an end to it.
Size(r) == Len(r.inputs) + Len(r.candidates) + (IF Empty(r.sig) THEN 0 ELSE 1)

Replies == {r \in [sig : Signals,
                   inputs : UNION {[1 .. n -> [prog : Progs, sig : Infos]] : n \in 0 .. supply},
                   candidates : UNION {[1 .. n -> [prog : Progs, flags : CandidateFlags]] :
                                          n \in 0 .. (IF poll.need THEN supply ELSE 0)}] :
               Size(r) <= supply}

\* Mutant: what the manager was sent is forgotten when it has answered.
AddMaxSignalResets(sign) == maxSignal' = Merge(maxSignal, sign) /\ newSignal' = NoSignal

\* The manager's max signal is merged into ours, not into newSignal.
AddMaxSignal(sign) == maxSignal' = Merge(maxSignal, sign) /\ UNCHANGED newSignal

PollReply ==
    /\ poll.pc = "call"
    /\ \E r \in Replies :
          /\ poll' = [pc |-> "apply", need |-> poll.need, inputs |-> r.inputs,
                      candidates |-> r.candidates, none |-> r.candidates = <<>>,
                      more |-> Size(r) > 0]
          /\ AddMaxSignal(r.sig)
          /\ supply' = supply - Size(r)
          /\ settled' = Merge(settled, r.sig)
          /\ shared' = [e \in Elems |->
                           LET S == {poll.grabbed[e], r.sig[e], shared[e]}
                                    \cup {r.inputs[i].sig[e] : i \in DOMAIN r.inputs}
                           IN  CHOOSE x \in S : \A y \in S : y <= x]
          /\ delivered' = delivered \cup {r.inputs[i].prog : i \in DOMAIN r.inputs}
    /\ UNCHANGED <<corpusSignal, corpus, candidate, procVars, needPoll, triagedCandidates>>

\* addInputFromAnotherFuzzer; a program with too many calls is left out.
PollInput ==
    /\ poll.pc = "apply" /\ poll.inputs # <<>>
    /\ poll' = [poll EXCEPT !.inputs = Tail(@)]
    /\ \/ AddInputToCorpus(Head(poll.inputs).prog, Head(poll.inputs).sig)
       \/ UNCHANGED <<corpus, corpusSignal, maxSignal>>
    /\ UNCHANGED <<newSignal, candidate, procVars, needPoll, triagedCandidates,
                   supply, settled, shared, delivered>>

\* addCandidateInput, likewise.
PollCandidate ==
    /\ poll.pc = "apply" /\ poll.inputs = <<>> /\ poll.candidates # <<>>
    /\ poll' = [poll EXCEPT !.candidates = Tail(@)]
    /\ \/ LET c == Head(poll.candidates)
          IN  candidate' = Append(candidate, [prog |-> c.prog, flags |-> c.flags \cup {"candidate"}])
       \/ UNCHANGED candidate
    /\ UNCHANGED <<signalVars, corpus, procVars, needPoll, triagedCandidates,
                   supply, settled, shared, delivered>>

TriagedAfter(l) == IF l.need /\ l.none /\ triagedCandidates = 0 THEN 1 ELSE triagedCandidates

\* main polls, after the first time without asking for candidates, until there
\* is nothing more, and then starts the procs and pollLoop.
Polled == IF started \/ ~poll.more
          THEN poll' = Waiting /\ started' = TRUE
          ELSE poll' = [pc |-> "grab", need |-> FALSE] /\ UNCHANGED started

\* The end of poll, and what its caller does next.
PollEnd ==
    /\ poll.pc = "apply" /\ poll.inputs = <<>> /\ poll.candidates = <<>>
    /\ triagedCandidates' = TriagedAfter(poll)
    /\ Polled
    /\ UNCHANGED <<signalVars, corpus, queueVars, proc, needPoll,
                   supply, settled, shared, delivered>>

PollStep == PollNeeded \/ PollTick \/ GrabNewSignal \/ PollReply \/ PollInput \/ PollCandidate
            \/ PollEnd

\* Mutant: every leak check counts.
GateCallbackCounts == /\ triagedCandidates # 0
                      /\ triagedCandidates' = triagedCandidates + 1
                      /\ UNCHANGED <<signalVars, corpus, queueVars, proc, poll, needPoll, started,
                                     supply, settled, shared, delivered>>

\* gateCallback: the first leak check, whose result is ignored.
GateCallback == /\ started /\ triagedCandidates = 1
                /\ triagedCandidates' = 2
                /\ UNCHANGED <<signalVars, corpus, queueVars, proc, poll, needPoll, started,
                               supply, settled, shared, delivered>>

Run(p) == p \in load.procs /\ ProcStep(p) /\ UNCHANGED load

Poll == PollStep /\ UNCHANGED load

Next == (\E p \in Procs : Run(p)) \/ Poll \/ (GateCallback /\ UNCHANGED load)

Spec == Init /\ [][Next]_vars

\* Goroutines are scheduled, executions end (the executor is killed on a
\* timeout), and the manager answers.
FairSpec == Spec /\ (\A p \in Procs : WF_vars(Run(p))) /\ WF_vars(Poll)

-----------------------------------------------------------------------------
(* Properties. *)

SeqOf(S, n) == UNION {[1 .. k -> S] : k \in 0 .. n}

\* The triage items that are queued, in a proc's hands, or about to be queued.
Held(l) ==
    CASE l.pc \in {"triage", "minimize", "send", "corpus"} -> {l.work.sig}
      [] l.pc \in {"merge", "scan", "enqueue"} -> {l.found[i] : i \in DOMAIN l.found}
      [] OTHER -> {}

Pending == LET queued(q) == {q[i].sig : i \in DOMAIN q}
           IN  queued(triageCandidate) \cup queued(triage)
               \cup UNION {Held(proc[p]) : p \in load.procs}
               \cup UNION {Held(proc[p].next) :
                             p \in {r \in load.procs : proc[r].pc \in {"exec", "merge", "scan", "enqueue"}}}

Locals == LET resting == {Idle} \cup [pc : {"smash"}, prog : Progs, left : 0 .. load.smash]
                         \cup [pc : {"minimize"}, work : WorkTriage, left : 0 .. load.minimize]
              infos == SeqOf(Infos, load.infos)
          IN  resting \cup [pc : {"take"}]
              \cup [pc : {"exec"}, prog : Progs, flags : ProgTypes, next : resting]
              \cup [pc : {"merge"}, prog : Progs, flags : ProgTypes, next : resting,
                    info : Infos, diff : Signals, todo : infos, found : infos]
              \cup [pc : {"scan"}, prog : Progs, flags : ProgTypes, next : resting,
                    todo : infos, found : infos]
              \cup [pc : {"enqueue"}, prog : Progs, flags : ProgTypes, next : resting,
                    found : infos \ {<<>>}]
              \cup [pc : {"triage", "send", "corpus"}, work : WorkTriage]
              \cup [pc : {"added"}, prog : Progs]

\* The types of the variables: what every proc holds fits its place in the
\* code, and triagedCandidates is one of the three stages of gateCallback.
TypeOK == /\ {maxSignal, corpusSignal, newSignal, settled, shared} \subseteq Signals
          /\ corpus \subseteq Progs /\ delivered \subseteq Progs
          /\ triageCandidate \in Seq(WorkTriage) /\ triage \in Seq(WorkTriage)
          /\ candidate \in Seq(WorkCandidate) /\ smash \in Seq(Progs)
          /\ \A p \in load.procs : proc[p] \in Locals
          /\ needPoll \in BOOLEAN /\ started \in BOOLEAN
          /\ poll.pc \in {"wait", "grab", "call", "apply"}
          /\ triagedCandidates \in 0 .. 2
          /\ supply \in 0 .. load.supply

Covered(s, S) == \A e \in Elems : s[e] # 0 => \E t \in S : t[e] >= s[e]

\* Signal that is in maxSignal is not looked at again, so nothing may get
\* there and be dropped: it is the corpus's, waits for triage or is being
\* triaged, or triage or the manager has settled it.  checkNewCallSignal
\* gives up its read lock between the diff and the merge, so two procs may
\* merge the same diff.
NoSignalDropped == Covered(maxSignal, {corpusSignal, settled} \cup Pending)

\* Whatever this fuzzer has in maxSignal, the manager has, is being sent or
\* will be sent with the next poll: grabNewSignal empties newSignal before
\* the call, and the procs go on filling it during the call.
SignalReported ==
    Covered(maxSignal, {newSignal, shared}
                       \cup (IF poll.pc = "call" THEN {poll.grabbed} ELSE {}))

\* A VM that crashes takes no input with it that it has already begun to use:
\* triageInput sends an input before it adds it to the corpus, from which procs
\* mutate, and queues it for smashing last, so that the manager has every
\* program that is mutated or smashed.
SentBeforeUse ==
    corpus \cup {smash[i] : i \in DOMAIN smash}
           \cup {proc[p].prog : p \in {r \in load.procs : proc[r].pc \in {"added", "smash"}}}
        \subseteq delivered

\* Triage comes to an end: the queues are served last in, first out, and
\* every execution, those of the minimizations included, may queue more, but
\* there is only so much signal.
TriageEnds ==
    <>[](/\ triageCandidate = <<>> /\ candidate = <<>> /\ triage = <<>> /\ smash = <<>>
         /\ Pending = {} /\ newSignal = NoSignal)

-----------------------------------------------------------------------------
(* What a comment says and the code does not do. *)

\* gateCallback: "Leak checking is very slow so we don't do it while triaging the
\* corpus".  From the moment poll sets triagedCandidates leak checks are made, so
\* no program of the manager's corpus, which are the minimized ones, should be
\* queued or wait for its triage then.  poll sets it when the manager has no more
\* candidates: fewer than one per proc may still be queued, and any number of
\* those that were executed may still wait.
LeakCheckAfterTriage ==
    [][triagedCandidates = 0 /\ triagedCandidates' = 1 =>
          /\ \A i \in DOMAIN candidate : "minimized" \notin candidate[i].flags
          /\ \A i \in DOMAIN triageCandidate : "minimized" \notin triageCandidate[i].flags]_vars
=============================================================================
