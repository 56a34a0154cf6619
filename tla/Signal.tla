------------------------------- MODULE Signal -------------------------------
(***************************************************************************)
(* pkg/signal: feedback signal, a map from elements to priorities.  A      *)
(* signal is a total function from Elems; 0 says the element is absent and *)
(* k + 1 that it is present with priority k, so that "absent or of lower   *)
(* priority" is <.                                                         *)
(***************************************************************************)
EXTENDS Integers, FiniteSets

CONSTANTS Elems,     \* elemType: signal elements
          MaxPrio    \* the largest prioType value signalPrio returns

ASSUME SignalAssumption == IsFiniteSet(Elems) /\ MaxPrio \in Nat

Prios == 0 .. MaxPrio + 1

Signals == [Elems -> Prios]

NoSignal == [e \in Elems |-> 0]

\* Signal.Empty and Signal.Len.
Empty(s) == s = NoSignal

Present(s) == {e \in Elems : s[e] # 0}

\* FromRaw: the given elements, all with one priority.
FromRaw(raw, prio) == [e \in Elems |-> IF e \in raw THEN prio + 1 ELSE 0]

\* s.Diff(s1): what s1 adds to s.
Diff(s, s1) == [e \in Elems |-> IF s[e] >= s1[e] THEN 0 ELSE s1[e]]

\* s.Intersection(s1): what s1 confirms of s with at least the same priority.
Intersection(s, s1) == [e \in Elems |-> IF s1[e] >= s[e] THEN s[e] ELSE 0]

\* s.Merge(s1): the larger priority of the two.
Merge(s, s1) == [e \in Elems |-> IF s[e] < s1[e] THEN s1[e] ELSE s[e]]

Part(s, T) == [e \in Elems |-> IF e \in T THEN s[e] ELSE 0]

\* s.Split(n): the sets of elements that may be moved out of s.  n is
\* decremented after an element has moved and tested for 0 then, so Split
\* moves min(n, Len) elements for n > 0 and all of them for n = 0.
SplitSizes(len, n) == IF n > 0 /\ n < len THEN n ELSE len

Splits(s, n) == {T \in SUBSET Present(s) :
                    Cardinality(T) = SplitSizes(Cardinality(Present(s)), n)}

\* Minimize(corpus), corpus a sequence of signals: the indices of the inputs
\* that are, for some element, the first to reach its highest priority.
KeepsFor(corpus, e, i) == /\ corpus[i][e] # 0
                          /\ \A j \in DOMAIN corpus :
                                /\ corpus[j][e] <= corpus[i][e]
                                /\ j < i => corpus[j][e] < corpus[i][e]

Minimize(corpus) == {i \in DOMAIN corpus : \E e \in Elems : KeepsFor(corpus, e, i)}

\* s is the merge of the signals f[x], x \in S.
IsMergeOf(s, f, S) == \A e \in Elems :
                         /\ \A x \in S : f[x][e] <= s[e]
                         /\ s[e] # 0 => \E x \in S : f[x][e] = s[e]
=============================================================================
