-------------------------------- MODULE MCHub --------------------------------
(***************************************************************************)
(* Instances of Hub for TLC.                                               *)
(***************************************************************************)
EXTENDS Hub, TLC

\* Every manager supports everything.
AllSupported == Managers \X (Progs \cup Repros)

Load(items) == [items |-> items, finds |-> {}, fresh |-> BOOLEAN, reliable |-> FALSE]

\* Every manager finds one of the reproducers, or one manager finds all of them.
Finds == {{<<m, f[m]>> : m \in Managers} : f \in [Managers -> Repros]}
         \cup {{m} \X Repros : m \in Managers}

\* A program that comes and goes, or two reproducers, while calls are lost and
\* the hub dies; and many programs, in pages, over a reliable network.
Rough == {Load(Dropped), [Load(Progs) EXCEPT !.reliable = TRUE]}
         \cup {[Load(Repros) EXCEPT !.finds = f, !.fresh = {FALSE}] : f \in Finds}

\* Programs over a reliable network.
Smooth == {[Load(Progs) EXCEPT !.reliable = TRUE]}

\* Programs that may be dropped differ from those that may not.
Symmetry == {f @@ g @@ h @@ k : f \in Permutations(Managers), g \in Permutations(Dropped),
                                h \in Permutations(Progs \ Dropped), k \in Permutations(Repros)}
=============================================================================
