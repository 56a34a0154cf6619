----------------------------- MODULE GateProofs -----------------------------
(***************************************************************************)
(* The safety of ipc.Gate for any number of threads and slots.  The        *)
(* inductive invariant ties the counters to the threads: running counts    *)
(* the busy slots, each busy slot has exactly one activity, the age of an  *)
(* activity is the distance from its slot to pos around the ring, and the  *)
(* activities since the last callback are bounded by that same distance    *)
(* from slot 0.                                                            *)
(***************************************************************************)
EXTENDS Gate, FiniteSets, FiniteSetTheorems, TLAPS

Marked(b) == {i \in Slots : b[i]}

\* g.running is the number of busy slots.
Counted == running = Cardinality(Marked(busy))

\* Busy slots and activities correspond one to one.
Held == /\ \A t \in Threads : pc[t] = "active" => busy[idx[t]]
        /\ \A i \in Slots : busy[i] => \E t \in Threads : pc[t] = "active" /\ idx[t] = i
        /\ \A t, u \in Threads :
              pc[t] = "active" /\ pc[u] = "active" /\ idx[t] = idx[u] => t = u

\* One thread at a time is between g.stop = true and the end of f; while it
\* drains the gate slot 0 stays free, while it runs f every slot is free.
Stopped == /\ \A t, u \in Threads :
                 /\ pc[t] \in {"draining", "parked", "callback"}
                 /\ pc[u] \in {"draining", "parked", "callback"}
                 => t = u
           /\ stop <=> \E t \in Threads : pc[t] \in {"draining", "parked"}
           /\ stop => ~ busy[0]
           /\ (\E t \in Threads : pc[t] = "callback") => \A i \in Slots : ~ busy[i]
           /\ \A t \in Threads : pc[t] \in {"draining", "parked", "callback"} => HasCallback

\* How many slots pos is past slot i, going round the ring.
Ahead(i) == IF pos > i THEN pos - i - 1 ELSE pos + C - i - 1

Aged == \A t \in Threads : pc[t] = "active" => age[t] = Ahead(idx[t])

\* Activities since the last callback: slot 0 not handed out yet, or handed out.
Batched == /\ since <= 2 * C - 1
           /\ ~ HasCallback => since = 0
           /\ ~ busy[0] /\ ~ stop /\ (\A t \in Threads : pc[t] # "callback")
                 => since <= Ahead(0)
           /\ busy[0] => since <= C + Ahead(0)

Sleepers == /\ (\E t \in Threads : pc[t] = "asleep") =>
                   MustWait \/ \E t \in Threads : pc[t] = "callback"
            /\ (\E t \in Threads : pc[t] = "parked") => \E i \in Slots : busy[i]

IInv == /\ TypeOK /\ ~ broken /\ Counted /\ Held /\ Stopped
        /\ Aged /\ Batched /\ Sleepers

-----------------------------------------------------------------------------
\* The number of marked slots is between 0 and C, and 0 only if none is marked.
LEMMA BusyCount ==
    ASSUME NEW b \in [Slots -> BOOLEAN]
    PROVE  /\ IsFiniteSet(Marked(b))
           /\ Cardinality(Marked(b)) \in 0 .. C
           /\ Cardinality(Marked(b)) = 0 <=> \A i \in Slots : ~ b[i]
  <1>1. IsFiniteSet(Slots) /\ Cardinality(Slots) = C
    BY GateAssumption, FS_Interval DEF Slots
  <1>2. Marked(b) \subseteq Slots
    BY DEF Marked
  <1>3. IsFiniteSet(Marked(b)) /\ Cardinality(Marked(b)) <= C
    BY <1>1, <1>2, FS_Subset
  <1>4. Cardinality(Marked(b)) \in Nat
    BY <1>3, FS_CardinalityType
  <1>5. Cardinality(Marked(b)) = 0 <=> Marked(b) = {}
    BY <1>3, FS_EmptySet
  <1> QED BY <1>3, <1>4, <1>5, GateAssumption DEF Marked

\* Enter marks a free slot: the count goes up by one and stays within C.
LEMMA BusyAdd ==
    ASSUME NEW b \in [Slots -> BOOLEAN], NEW i \in Slots, ~ b[i]
    PROVE  LET m == Marked([b EXCEPT ![i] = TRUE])
           IN  Cardinality(m) = Cardinality(Marked(b)) + 1 /\ Cardinality(m) <= C
  <1> DEFINE m == Marked([b EXCEPT ![i] = TRUE])
  <1>1. m = Marked(b) \cup {i} /\ i \notin Marked(b)
    BY DEF Marked
  <1>2. IsFiniteSet(Marked(b)) BY BusyCount
  <1>3. Cardinality(m) = Cardinality(Marked(b)) + 1
    BY <1>1, <1>2, FS_AddElement
  <1>4. [b EXCEPT ![i] = TRUE] \in [Slots -> BOOLEAN] OBVIOUS
  <1>5. Cardinality(m) \in 0 .. C BY <1>4, BusyCount
  <1> QED BY <1>3, <1>5, GateAssumption

\* Leave frees a marked slot: the count goes down by one.
LEMMA BusyRemove ==
    ASSUME NEW b \in [Slots -> BOOLEAN], NEW i \in Slots, b[i]
    PROVE  /\ Cardinality(Marked([b EXCEPT ![i] = FALSE])) = Cardinality(Marked(b)) - 1
           /\ Cardinality(Marked(b)) >= 1
  <1>1. Marked([b EXCEPT ![i] = FALSE]) = Marked(b) \ {i} /\ i \in Marked(b)
    BY DEF Marked
  <1>2. IsFiniteSet(Marked(b)) /\ Cardinality(Marked(b)) \in 0 .. C
    BY BusyCount
  <1>3. Cardinality(Marked(b) \ {i}) = Cardinality(Marked(b)) - 1
    BY <1>1, <1>2, FS_RemoveElement
  <1>4. Cardinality(Marked(b)) # 0 BY BusyCount
  <1>5. \A n \in 0 .. C : n # 0 => n >= 1 BY GateAssumption
  <1> QED BY <1>1, <1>2, <1>3, <1>4, <1>5, Zenon

LEMMA InitIInv == Init => IInv
  <1> SUFFICES ASSUME Init PROVE IInv OBVIOUS
  <1> USE GateAssumption
  <1>1. TypeOK
    <2>1. 0 \in Slots BY DEF Slots
    <2>2. 0 \in Nat /\ 0 \in Int OBVIOUS
    <2> QED BY <2>1, <2>2, Zenon DEF Init, TypeOK, PCs
  <1>2. Counted
    <2>1. busy \in [Slots -> BOOLEAN] /\ \A i \in Slots : ~ busy[i]
      BY DEF Init
    <2> QED BY <2>1, BusyCount DEF Init, Counted
  <1> QED BY <1>1, <1>2
        DEF Init, IInv, Held, Stopped, Aged, Batched, Sleepers, Ahead, Slots

-----------------------------------------------------------------------------
\* One lemma per action that changes the slots; the others follow.
LEMMA EnterStep ==
    ASSUME IInv, NEW t \in Threads, Enter(t)
    PROVE  IInv'
  <1> USE GateAssumption
  <1>0. /\ ~ busy[pos] /\ ~ stop /\ pos \in Slots /\ pc[t] = "entering"
        /\ \A u \in Threads : pc[u] \notin {"draining", "parked", "callback"}
    BY DEF IInv, TypeOK, Enter, Ticket, MustWait, MutexFree, Stopped
  <1>1. TypeOK' /\ NextPos \in Slots
    BY DEF IInv, TypeOK, Enter, Ticket, NextPos, Slots, PCs
  <1>2. ~ broken' /\ Counted'
    <2>1. /\ Cardinality(Marked(busy')) = running + 1
          /\ Cardinality(Marked(busy')) <= C
      BY <1>0, BusyAdd DEF IInv, Enter, Ticket, Counted, TypeOK
    <2>2. ~ (running + 1 > C) BY <2>1 DEF IInv, TypeOK
    <2>3. ~ broken' BY <2>2, Zenon DEF Enter, Ticket
    <2> QED BY <2>1, <2>3 DEF Enter, Ticket, Counted
  <1>3. Held' BY <1>0 DEF IInv, TypeOK, Enter, Ticket, Held
  <1>4. Stopped' BY <1>0 DEF IInv, TypeOK, Enter, Ticket, Stopped
  <1>5. Aged'
    <2>1. ASSUME NEW u \in Threads, pc'[u] = "active", u # t
          PROVE  age'[u] = Ahead(idx[u])'
      <3>1. /\ pc[u] = "active" /\ idx[u] # pos /\ idx[u] \in Slots
            /\ idx'[u] = idx[u] /\ age'[u] = age[u] + 1
            /\ age[u] = Ahead(idx[u])
        BY <1>0, <2>1 DEF IInv, TypeOK, Enter, Ticket, Held, Aged
      <3> QED BY <3>1, <1>0 DEF Enter, Ticket, NextPos, Ahead, Slots
    <2>2. age'[t] = 0 /\ idx'[t] = pos BY DEF Enter, Ticket, IInv, TypeOK
    <2>3. Ahead(idx[t])' = 0 BY <2>2, <1>0 DEF Enter, Ticket, Ahead, NextPos, Slots
    <2> QED BY <2>1, <2>2, <2>3 DEF Aged
  <1>6. Batched'
    <2>1. since <= 2 * C - 1 /\ (~ busy[0] => since <= Ahead(0))
          /\ (busy[0] => since <= C + Ahead(0)) /\ since \in Nat
      BY <1>0 DEF IInv, Batched, TypeOK
    <2>2. /\ since' = IF HasCallback THEN since + 1 ELSE 0
          /\ pos' = NextPos /\ stop' = FALSE
      BY <1>0 DEF Enter, Ticket
    <2>3. busy'[0] <=> busy[0] \/ pos = 0
      BY <1>0 DEF Enter, Ticket, IInv, TypeOK, Slots
    <2>4. busy[0] => pos # 0 BY <1>0
    <2> QED BY <1>0, <2>1, <2>2, <2>3, <2>4 DEF Batched, Ahead, NextPos, Slots
  <1>7. Sleepers' 
    <2>1. \A u \in Threads : pc'[u] = "asleep" => pc[u] = "asleep"
      BY DEF Enter, Ticket, IInv, TypeOK
    <2>2. \A u \in Threads : pc'[u] # "parked"
      BY <1>0 DEF Enter, Ticket, IInv, TypeOK
    <2> QED BY <1>0, <2>1, <2>2 DEF Sleepers, IInv, MustWait
  <1> QED BY <1>1, <1>2, <1>3, <1>4, <1>5, <1>6, <1>7 DEF IInv

LEMMA LeavePlainStep ==
    ASSUME IInv, NEW t \in Threads, LeavePlain(t)
    PROVE  IInv'
  <1> USE GateAssumption
  <1> DEFINE i == idx[t]
  <1>0. /\ i \in Slots /\ busy[i] /\ pc[t] = "active"
        /\ i = 0 => ~ HasCallback
        /\ \A u \in Threads : pc[u] # "callback"
    BY DEF IInv, TypeOK, LeavePlain, RunsCallback, MutexFree, Held
  <1>1. running - 1 = Cardinality(Marked(busy')) /\ running >= 1
    BY <1>0, BusyRemove DEF IInv, LeavePlain, RunsCallback, Counted, TypeOK
  <1>2. pc' = Woken(t, "idle") \/ pc' = [pc EXCEPT ![t] = "idle"]
    BY DEF LeavePlain, RunsCallback
  <1>2a. /\ pc'[t] = "idle"
         /\ \A u \in Threads \ {t} :
               \/ pc'[u] = pc[u]
               \/ pc[u] = "asleep" /\ pc'[u] = "entering"
               \/ pc[u] = "parked" /\ pc'[u] = "draining"
    BY <1>2 DEF Woken, IInv, TypeOK
  <1>3. TypeOK' 
    <2>1. pc' \in [Threads -> PCs]
      BY <1>2 DEF Woken, IInv, TypeOK, PCs
    <2> QED BY <2>1 DEF IInv, TypeOK, LeavePlain, RunsCallback, Slots
  <1>4. ~ broken' /\ Counted'
    <2>1. ~ (running - 1 < 0) BY <1>1 DEF IInv, TypeOK
    <2>2. ~ broken' BY <2>1, <1>0, Zenon DEF LeavePlain, RunsCallback
    <2> QED BY <2>2, <1>1 DEF LeavePlain, RunsCallback, Counted
  <1>5. Held' BY <1>0, <1>2a DEF IInv, TypeOK, LeavePlain, RunsCallback, Held
  <1>6. Stopped'
    <2>1. \A u \in Threads :
             /\ pc'[u] \in {"draining", "parked"} <=> pc[u] \in {"draining", "parked"}
             /\ pc'[u] # "callback"
      BY <1>0, <1>2a
    <2>2. \A j \in Slots : busy'[j] => busy[j] BY <1>0 DEF LeavePlain, RunsCallback, IInv, TypeOK
    <2>3. 0 \in Slots /\ stop' = stop BY DEF LeavePlain, RunsCallback, Slots
    <2> QED BY <2>1, <2>2, <2>3 DEF IInv, Stopped
  <1>7. Aged' BY <1>0, <1>2a DEF IInv, TypeOK, LeavePlain, RunsCallback, Aged, Ahead
  <1>8. Batched'
    BY <1>0, <1>2a DEF IInv, TypeOK, LeavePlain, RunsCallback, Batched, Ahead, Slots
  <1>9. Sleepers'
    <2>1. CASE LeaveWakes(i, running - 1, stop)
      <3>1. \A u \in Threads : pc'[u] \notin {"asleep", "parked"}
        BY <2>1 DEF LeavePlain, RunsCallback, Woken, IInv, TypeOK
      <3> QED BY <3>1 DEF Sleepers
    <2>2. CASE ~ LeaveWakes(i, running - 1, stop)
      <3>1. pc' = [pc EXCEPT ![t] = "idle"] BY <2>2 DEF LeavePlain, RunsCallback
      <3>2. ASSUME NEW u \in Threads, pc'[u] = "asleep" PROVE MustWait'
        <4>1. busy[pos] \/ stop BY <1>0, <3>1, <3>2 DEF Sleepers, IInv, TypeOK, MustWait
        <4>2. i = pos => stop BY <2>2 DEF LeaveWakes
        <4> QED BY <4>1, <4>2, <1>0 DEF MustWait, LeavePlain, RunsCallback, IInv, TypeOK
      <3>3. ASSUME NEW u \in Threads, pc'[u] = "parked"
            PROVE  \E j \in Slots : busy'[j]
        <4>1. stop BY <1>0, <3>1, <3>3 DEF IInv, Stopped, TypeOK
        <4>2. Cardinality(Marked(busy')) # 0
          BY <4>1, <2>2, <1>1 DEF LeaveWakes
        <4> QED BY <4>2, <1>3, BusyCount DEF TypeOK
      <3> QED BY <3>2, <3>3 DEF Sleepers
    <2> QED BY <2>1, <2>2
  <1> QED BY <1>3, <1>4, <1>5, <1>6, <1>7, <1>8, <1>9 DEF IInv

LEMMA LeaveStopStep ==
    ASSUME IInv, NEW t \in Threads, LeaveStop(t)
    PROVE  IInv'
  <1> USE GateAssumption
  <1>0. /\ 0 \in Slots /\ idx[t] = 0 /\ busy[0] /\ pc[t] = "active" /\ HasCallback
        /\ \A u \in Threads : pc[u] # "callback"
    BY DEF IInv, TypeOK, LeaveStop, RunsCallback, MutexFree, Held, Slots
  <1>1. running - 1 = Cardinality(Marked(busy')) /\ running >= 1
    BY <1>0, BusyRemove DEF IInv, LeaveStop, RunsCallback, Counted, TypeOK
  <1>2. ~ stop /\ \A u \in Threads : pc[u] \notin {"draining", "parked", "callback"}
    BY <1>0 DEF IInv, Stopped
  <1>3. TypeOK' BY <1>0 DEF IInv, TypeOK, LeaveStop, RunsCallback, Slots, PCs
  <1>4. ~ broken' /\ Counted'
    <2>1. ~ (running - 1 < 0) BY <1>1 DEF IInv, TypeOK
    <2>2. ~ broken' BY <2>1, <1>0, <1>2, Zenon DEF LeaveStop, RunsCallback
    <2> QED BY <2>2, <1>1 DEF LeaveStop, RunsCallback, Counted
  <1>5. Held' BY <1>0 DEF IInv, TypeOK, LeaveStop, RunsCallback, Held
  <1>6. Stopped' BY <1>0, <1>2 DEF IInv, TypeOK, LeaveStop, RunsCallback, Stopped
  <1>7. Aged' BY <1>0 DEF IInv, TypeOK, LeaveStop, RunsCallback, Aged, Ahead
  <1>8. Batched' BY <1>0 DEF IInv, TypeOK, LeaveStop, RunsCallback, Batched
  <1>9. Sleepers' BY <1>0, <1>2 DEF IInv, TypeOK, LeaveStop, RunsCallback, Sleepers, MustWait
  <1> QED BY <1>3, <1>4, <1>5, <1>6, <1>7, <1>8, <1>9 DEF IInv

\* With no busy slot there is no activity.
LEMMA NoneActive ==
    ASSUME IInv, running = 0
    PROVE  /\ \A i \in Slots : ~ busy[i]
           /\ \A t \in Threads : pc[t] # "active"
  <1>1. \A i \in Slots : ~ busy[i] BY BusyCount DEF IInv, Counted, TypeOK
  <1> QED BY <1>1 DEF IInv, Held, TypeOK

LEMMA CallbackStartStep ==
    ASSUME IInv, NEW t \in Threads, CallbackStart(t)
    PROVE  IInv'
  <1> USE GateAssumption
  <1>1. /\ \A i \in Slots : ~ busy[i]
        /\ \A u \in Threads : pc[u] # "active"
    BY NoneActive DEF CallbackStart, Drained
  <1>2. pc[t] = "draining" /\ \A u \in Threads \ {t} : pc[u] \notin {"draining", "parked", "callback"}
    BY DEF CallbackStart, IInv, Stopped
  <1>3. TypeOK' /\ ~ broken' /\ Counted'
    BY DEF IInv, TypeOK, CallbackStart, PCs, Counted
  <1>4. Held' BY <1>1 DEF IInv, TypeOK, CallbackStart, Held
  <1>5. Stopped' BY <1>1, <1>2 DEF IInv, TypeOK, CallbackStart, Stopped
  <1>6. Aged' BY <1>1 DEF IInv, TypeOK, CallbackStart, Aged
  <1>7. Batched'
    <2>1. pc'[t] = "callback" BY DEF CallbackStart, IInv, TypeOK
    <2> QED BY <2>1, <1>1 DEF IInv, TypeOK, CallbackStart, Batched, Slots
  <1>8. Sleepers' BY <1>2 DEF IInv, TypeOK, CallbackStart, Sleepers
  <1> QED BY <1>3, <1>4, <1>5, <1>6, <1>7, <1>8 DEF IInv

LEMMA CallbackEndStep ==
    ASSUME IInv, NEW t \in Threads, CallbackEnd(t)
    PROVE  IInv'
  <1> USE GateAssumption
  <1>1. /\ \A i \in Slots : ~ busy[i]
        /\ \A u \in Threads : pc[u] # "active"
        /\ 0 \in Slots
    BY DEF CallbackEnd, IInv, Stopped, Held, TypeOK, Slots
  <1>2. pc[t] = "callback" /\ \A u \in Threads \ {t} : pc[u] \notin {"draining", "parked", "callback"}
    BY DEF CallbackEnd, IInv, Stopped
  <1>3. TypeOK'
    <2>1. pc' \in [Threads -> PCs] BY DEF CallbackEnd, Woken, IInv, TypeOK, PCs
    <2> QED BY <2>1 DEF IInv, TypeOK, CallbackEnd
  <1>4. ~ broken' /\ Counted' BY DEF CallbackEnd, IInv, Counted
  <1>5. \A u \in Threads : pc'[u] \notin {"draining", "parked", "callback", "active", "asleep"}
    BY <1>1, <1>2 DEF CallbackEnd, Woken, IInv, TypeOK
  <1>6. ~ stop' BY <1>2 DEF CallbackEnd, IInv, Stopped
  <1>7. Held' /\ Stopped' /\ Aged' /\ Sleepers'
    BY <1>1, <1>5, <1>6 DEF Held, Stopped, Aged, Sleepers, CallbackEnd
  <1>8. Batched' BY <1>1 DEF IInv, TypeOK, CallbackEnd, Batched, Ahead, Slots
  <1> QED BY <1>3, <1>4, <1>7, <1>8 DEF IInv

\* The steps that only move a thread between places outside the slots.
LEMMA PlaceStep ==
    ASSUME IInv, NEW t \in Threads,
           Call(t) \/ EnterWait(t) \/ DrainWait(t)
    PROVE  IInv'
  <1> USE GateAssumption DEF Call, EnterWait, DrainWait
  <1>1. TypeOK' /\ ~ broken' /\ Counted' BY DEF IInv, TypeOK, PCs, Counted
  <1>2. Held' BY DEF IInv, TypeOK, Held
  <1>3. Stopped' BY DEF IInv, TypeOK, Stopped
  <1>4. Aged' BY DEF IInv, TypeOK, Aged, Ahead
  <1>5. Batched' BY DEF IInv, TypeOK, Batched, Ahead
  <1>6. Sleepers'
    <2>1. CASE Call(t) BY <2>1 DEF IInv, TypeOK, Sleepers, MustWait
    <2>2. CASE EnterWait(t) BY <2>2 DEF IInv, TypeOK, Sleepers, MustWait
    <2>3. CASE DrainWait(t)
      <3>1. \E i \in Slots : busy[i]
        BY <2>3, BusyCount DEF IInv, Counted, TypeOK, Drained
      <3> QED BY <2>3, <3>1 DEF IInv, TypeOK, Sleepers, MustWait
    <2> QED BY <2>1, <2>2, <2>3
  <1> QED BY <1>1, <1>2, <1>3, <1>4, <1>5, <1>6 DEF IInv

-----------------------------------------------------------------------------
LEMMA Inductive == IInv /\ [Next]_vars => IInv'
  <1> SUFFICES ASSUME IInv, [Next]_vars PROVE IInv' OBVIOUS
  <1>1. CASE UNCHANGED vars
    BY <1>1 DEF vars, IInv, TypeOK, Counted, Held, Stopped, Aged, Batched,
                Sleepers, Ahead, MustWait
  <1>2. ASSUME NEW t \in Threads,
               \/ Call(t) \/ EnterWait(t) \/ Enter(t)
               \/ LeavePlain(t) \/ LeaveStop(t)
               \/ DrainWait(t) \/ CallbackStart(t) \/ CallbackEnd(t)
        PROVE  IInv'
    BY <1>2, EnterStep, LeavePlainStep, LeaveStopStep, CallbackStartStep,
       CallbackEndStep, PlaceStep
  <1> QED BY <1>1, <1>2 DEF Next

\* What the inductive invariant says of the properties of Gate.
LEMMA Implied ==
    IInv => TypeOK /\ NoBrokenGate /\ Window /\ CallbackAlone /\ NoLostWakeup /\ BatchBound
  <1> SUFFICES ASSUME IInv
               PROVE  TypeOK /\ NoBrokenGate /\ Window /\ CallbackAlone
                      /\ NoLostWakeup /\ BatchBound
    OBVIOUS
  <1>1. Window
    <2>1. \A i, p \in Slots : (IF p > i THEN p - i - 1 ELSE p + C - i - 1) < C
      BY GateAssumption DEF Slots
    <2>2. \A t \in Active : age[t] = Ahead(idx[t]) /\ idx[t] \in Slots /\ pos \in Slots
      BY DEF IInv, TypeOK, Aged, Active
    <2> QED BY <2>1, <2>2 DEF Window, Ahead
  <1>2. CallbackAlone BY DEF IInv, TypeOK, Stopped, Held, CallbackAlone, Active
  <1>3. NoLostWakeup BY DEF IInv, Sleepers, Held, NoLostWakeup, Active
  <1> QED BY <1>1, <1>2, <1>3 DEF IInv, Batched, NoBrokenGate, BatchBound

\* For any threads and any number of slots: the panics of Enter and Leave are
\* unreachable, f runs while no program executes, no sleeping thread misses
\* its wakeup, an old activity admits fewer than C newer ones, and at most
\* 2C - 1 activities start between two calls of f.
THEOREM GateSafety ==
    Spec => [](TypeOK /\ NoBrokenGate /\ Window /\ CallbackAlone /\ NoLostWakeup /\ BatchBound)
  BY InitIInv, Inductive, Implied, PTL DEF Spec
=============================================================================
