-------------------------------- MODULE Gate --------------------------------
(***************************************************************************)
(* ipc.Gate (pkg/ipc/gate.go): the ring of C slots that syz-fuzzer's procs *)
(* go through around every program execution, and the callback f (the leak *)
(* check) that must run while no program runs.                             *)
(*                                                                         *)
(* Every stretch of Enter and Leave between taking the mutex and giving it *)
(* back (by Unlock or by cv.Wait) is one action.  cv.Wait puts a thread to *)
(* sleep, Broadcast makes every sleeper runnable, and a runnable thread    *)
(* re-evaluates its loop condition when it gets the mutex.  f runs with    *)
(* the mutex held, so a thread in "callback" excludes all other steps.     *)
(***************************************************************************)
EXTENDS Integers

CONSTANTS Threads,       \* goroutines that use the gate
          C,             \* number of slots: len(g.busy)
          HasCallback    \* g.f != nil

ASSUME GateAssumption == C \in Nat \ {0} /\ HasCallback \in BOOLEAN

VARIABLES busy,      \* g.busy
          pos,       \* g.pos
          running,   \* g.running
          stop,      \* g.stop
          pc,        \* where each thread is
          idx,       \* the slot each thread was given by Enter
          broken,    \* one of the four panic("broken gate") was reached
          age,       \* history: activities started after the thread's own
          since      \* history: activities started since f was last called

vars == <<busy, pos, running, stop, pc, idx, broken, age, since>>

Slots == 0 .. C - 1

\* idle      outside the gate           entering  about to test Enter's condition
\* asleep    in cv.Wait of Enter        active    between Enter and Leave
\* draining  about to test g.running    parked    in cv.Wait of Leave
\* callback  running f with the mutex
PCs == {"idle", "entering", "asleep", "active", "draining", "parked", "callback"}

MutexFree == ~ broken /\ \A t \in Threads : pc[t] # "callback"

\* g.cv.Broadcast(), with thread t moving to its own next place.
Woken(t, next) ==
    [u \in Threads |-> IF u = t THEN next
                       ELSE IF pc[u] = "asleep" THEN "entering"
                       ELSE IF pc[u] = "parked" THEN "draining"
                       ELSE pc[u]]

Init == /\ busy = [i \in Slots |-> FALSE]
        /\ pos = 0
        /\ running = 0
        /\ stop = FALSE
        /\ pc = [t \in Threads |-> "idle"]
        /\ idx = [t \in Threads |-> 0]
        /\ broken = FALSE
        /\ age = [t \in Threads |-> 0]
        /\ since = 0

\* A thread calls Enter.
Call(t) == /\ ~ broken
           /\ pc[t] = "idle"
           /\ pc' = [pc EXCEPT ![t] = "entering"]
           /\ UNCHANGED <<busy, pos, running, stop, idx, broken, age, since>>

\* Mutant of MustWait: only a drain holds threads back.
MustWaitNoBusy == stop

\* The loop condition of Enter.
MustWait == busy[pos] \/ stop

EnterWait(t) == /\ MutexFree
                /\ pc[t] = "entering"
                /\ MustWait
                /\ pc' = [pc EXCEPT ![t] = "asleep"]
                /\ UNCHANGED <<busy, pos, running, stop, idx, broken, age, since>>

\* Mutant of NextPos: the wrap comes one too late.
NextPosNoWrap == IF pos >= C THEN 0 ELSE pos + 1

\* g.pos++ and its wrap to 0.
NextPos == IF pos + 1 >= C THEN 0 ELSE pos + 1

\* Mutant of Ticket: g.pos is read after it was advanced.
TicketAfter == NextPos

\* What Enter returns and Leave is given.
Ticket == pos

Enter(t) == /\ MutexFree
            /\ pc[t] = "entering"
            /\ ~ MustWait
            /\ idx' = [idx EXCEPT ![t] = Ticket]
            /\ pos' = NextPos
            /\ busy' = [busy EXCEPT ![pos] = TRUE]
            /\ running' = running + 1
            /\ broken' = (running + 1 > C)
            /\ pc' = [pc EXCEPT ![t] = "active"]
            /\ age' = [u \in Threads |-> IF u = t THEN 0
                                         ELSE IF pc[u] = "active" THEN age[u] + 1
                                         ELSE age[u]]
            /\ since' = IF HasCallback THEN since + 1 ELSE 0
            /\ UNCHANGED stop

\* Mutant of LeaveWakes: only a drain is woken.
LeaveWakesOnlyDrained(i, run, stp) == run = 0 /\ stp

\* The tail of Leave: wake everybody if slot i is the next one to hand out, or
\* if the last activity left while a thread is waiting to run f.
LeaveWakes(i, run, stp) == \/ i = pos /\ ~ stp
                           \/ run = 0 /\ stp

\* Mutant of RunsCallback: an index no slot has.
RunsCallbackLast(t) == idx[t] = C /\ HasCallback

\* Leave runs f for slot 0.
RunsCallback(t) == idx[t] = 0 /\ HasCallback

\* Leave of a thread that does not run f: the whole function.
LeavePlain(t) ==
    /\ MutexFree
    /\ pc[t] = "active"
    /\ ~ RunsCallback(t)
    /\ broken' = (~ busy[idx[t]] \/ running - 1 < 0)
    /\ busy' = [busy EXCEPT ![idx[t]] = FALSE]
    /\ running' = running - 1
    /\ pc' = IF LeaveWakes(idx[t], running - 1, stop)
             THEN Woken(t, "idle")
             ELSE [pc EXCEPT ![t] = "idle"]
    /\ age' = [age EXCEPT ![t] = 0]
    /\ UNCHANGED <<pos, stop, idx, since>>

\* Leave of the thread with slot 0, up to the loop that drains the gate.
LeaveStop(t) ==
    /\ MutexFree
    /\ pc[t] = "active"
    /\ RunsCallback(t)
    /\ broken' = (~ busy[0] \/ running - 1 < 0 \/ stop)
    /\ busy' = [busy EXCEPT ![0] = FALSE]
    /\ running' = running - 1
    /\ stop' = TRUE
    /\ pc' = [pc EXCEPT ![t] = "draining"]
    /\ age' = [age EXCEPT ![t] = 0]
    /\ UNCHANGED <<pos, idx, since>>

\* Mutant of Drained: one activity is still running.
DrainedOneLeft == running <= 1

\* for g.running != 0 { g.cv.Wait() }
Drained == running = 0

DrainWait(t) == /\ MutexFree
                /\ pc[t] = "draining"
                /\ ~ Drained
                /\ pc' = [pc EXCEPT ![t] = "parked"]
                /\ UNCHANGED <<busy, pos, running, stop, idx, broken, age, since>>

\* g.stop = false; g.f() starts.
CallbackStart(t) == /\ MutexFree
                    /\ pc[t] = "draining"
                    /\ Drained
                    /\ stop' = FALSE
                    /\ pc' = [pc EXCEPT ![t] = "callback"]
                    /\ UNCHANGED <<busy, pos, running, idx, broken, age, since>>

\* g.f() returns; Broadcast and the tail of Leave.
CallbackEnd(t) == /\ pc[t] = "callback"
                  /\ pc' = Woken(t, "idle")
                  /\ since' = 0
                  /\ UNCHANGED <<busy, pos, running, stop, idx, broken, age>>

Next == \E t \in Threads :
            \/ Call(t) \/ EnterWait(t) \/ Enter(t)
            \/ LeavePlain(t) \/ LeaveStop(t)
            \/ DrainWait(t) \/ CallbackStart(t) \/ CallbackEnd(t)

Spec == Init /\ [][Next]_vars

-----------------------------------------------------------------------------
Active == {t \in Threads : pc[t] = "active"}

\* The fields of the Gate and the threads' places have their types.
TypeOK == /\ busy \in [Slots -> BOOLEAN]
          /\ pos \in Slots
          /\ running \in Int
          /\ stop \in BOOLEAN
          /\ pc \in [Threads -> PCs]
          /\ idx \in [Threads -> Slots]
          /\ broken \in BOOLEAN
          /\ age \in [Threads -> Nat]
          /\ since \in Nat

\* None of the panics of Enter and Leave is reachable: more activities than
\* slots, a slot left twice, or a second drain while one is in progress.
NoBrokenGate == ~ broken

\* The concurrency window of the type's comment: fewer than C activities start
\* while an older one still runs, so "a very old activity ... will not let new
\* activities to start even if concurrency level is low".
Window == \A t \in Active : age[t] < C

\* f (the leak check) never runs while an activity is between Enter and Leave,
\* although stop is already cleared when Leave calls it.
CallbackAlone == (\E t \in Threads : pc[t] = "callback") => Active = {}

\* No wakeup is lost: a thread sleeps in Enter only while its condition holds
\* or while the thread that will broadcast still runs f, and a thread sleeps
\* in Leave only while there is an activity whose Leave will wake it.
NoLostWakeup ==
    /\ (\E t \in Threads : pc[t] = "asleep") =>
           MustWait \/ \E t \in Threads : pc[t] = "callback"
    /\ (\E t \in Threads : pc[t] = "parked") => Active # {}

\* At most 2C - 1 activities start between two calls of f: slot 0 comes up
\* within C of them, and the window admits C - 1 more before it is left.
BatchBound == since <= 2 * C - 1
=============================================================================
