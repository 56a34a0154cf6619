------------------------------- MODULE MCLoops -------------------------------
(***************************************************************************)
(* What syz-manager has to bring to an end: vmLoop (VMLoop), and triage of *)
(* the corpus (Manager, with records that are broken or disabled and with  *)
(* a hub).  A behaviour is one of one of the two; "part" says of which,    *)
(* and the variables of the other do not change.                           *)
(***************************************************************************)
EXTENDS VMLoop

CONSTANTS v1, v2, v3, e1, p1, p3, p4, c1

VARIABLES part,
          mphase, corpus, lastMin, saturated, candidates, disabledHashes, db, unflushed,
          checked, checkFailures, corpusSignal, maxSignal, fuzzers, pending,
          vm, connecting, snap, inflight, held, known, knownMax, missed, confused

triageVars == <<mphase, corpus, lastMin, saturated, candidates, disabledHashes, db, unflushed,
                checked, checkFailures, corpusSignal, maxSignal, fuzzers, pending,
                vm, connecting, snap, inflight, held, known, knownMax, missed, confused>>
mcVars == <<part, vars, triageVars>>

MCVMs == {v1, v2, v3}

CallOf == [p \in {p1, p3, p4} |-> c1]

\* One VM; a good program, a broken one and one with a disabled call.
M == INSTANCE Manager WITH Elems <- {e1}, MaxPrio <- 0, Progs <- {p1, p3, p4}, VMs <- {v1},
                           Calls <- {c1}, Broken <- {p3}, Disabled <- {p4}, Leftovers <- {p4},
                           Seeds <- {p1, p3}, PreserveCorpus <- TRUE, HubEnabled <- TRUE,
                           HubProgs <- {p1, p3, p4}, BatchSize <- 1, InitialBatch <- 2,
                           SplitSize <- 1, SatLimit <- 1, CheckFailLimit <- 2, phase <- mphase

MCInit == part \in {"loop", "triage"} /\ Init /\ M!Init /\ (part = "loop" => db = {})

InLoop == part = "loop" /\ UNCHANGED <<part, triageVars>>
InTriage == part = "triage" /\ UNCHANGED <<part, vars>>

\* vmLoop has returned.
Exited == pc = "exited" /\ UNCHANGED vars

MCNext == (InLoop /\ (Next \/ Exited)) \/ (InTriage /\ M!Next)

\* The strong fairness of the two specifications.  "part" never changes, so that
\* fairness of a step of one or a step of the other is fairness of each.
StronglyFair ==
    /\ SF_mcVars(\/ InLoop /\ \E v \in VMs : Boot(v)
                 \/ InTriage /\ M!ConnectSnapshot(v1))
    /\ SF_mcVars(\/ InLoop /\ \E v \in VMs : RunEnds(v)
                 \/ InTriage /\ M!Check(v1))
    /\ SF_mcVars(\/ InLoop /\ \E j \in jobs : ReproEnds(j)
                 \/ InTriage /\ M!CheckAgain(v1))
    /\ SF_triageVars(part = "triage" /\ vm[v1] = "connect" /\ M!ConnectRegister(v1))
    /\ SF_triageVars(part = "triage" /\ \E new \in M!Signals : M!Poll(v1, new, TRUE))

WeaklyFair ==
    /\ WF_vars(part = "loop" /\ Loop)
    /\ WF_triageVars(part = "triage" /\ M!VMStart(v1))
    /\ WF_triageVars(part = "triage" /\ M!Shutdown(v1))
    /\ WF_triageVars(part = "triage" /\ M!ConnectRegister(v1))
    /\ WF_triageVars(part = "triage" /\ M!NewInputMerge)
    /\ WF_triageVars(part = "triage" /\ M!addNewCandidates({}))

\* Hub runs out of new programs, and the manager stops restarting.
Settles ==
    <>[][part = "triage" =>
            /\ ~M!Restart
            /\ \A P \in SUBSET {p1, p3, p4} : P # {} => ~M!addNewCandidates(P)]_triageVars

MCSpec == MCInit /\ [][MCNext]_mcVars /\ StronglyFair /\ WeaklyFair /\ Settles

-----------------------------------------------------------------------------
(* The properties of VMLoop are at hand; these are Manager's.               *)

\* With preserve_corpus, the record of a program with a disabled call never
\* leaves the database: loadCorpus remembers it before minimizeCorpus deletes.
DisabledKept == M!DisabledKept

\* The phases run to their end: every candidate is handed out and, when there
\* is a hub, it is queried, however often VMs die.
TriageFinishes == part = "triage" => M!TriageFinishes
=============================================================================
