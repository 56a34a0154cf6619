----------------------------- MODULE MCManager ------------------------------
(***************************************************************************)
(* Instances of Manager for TLC, and the loop of signal.Minimize compared  *)
(* with what Manager uses in its place.                                    *)
(***************************************************************************)
EXTENDS Manager, SequencesExt

MCCallOf == [p \in Progs |-> CHOOSE c \in Calls : TRUE]

\* Elements, VMs and the programs that are alike are interchangeable.
Symmetry == {f @@ g @@ h : f \in Permutations(Elems), g \in Permutations(VMs),
                           h \in Permutations(Good \ Seeds)}

-----------------------------------------------------------------------------
\* Signals of two elements and two priorities.
Sig == INSTANCE Signal WITH Elems <- {1, 2}, MaxPrio <- 1

\* One iteration of Minimize's outer loop: covered maps an element to the
\* priority and the index recorded for it, index 0 when there is none.
Cover(covered, input) ==
    [e \in {1, 2} |-> IF input.sig[e] > covered[e].prio
                      THEN [prio |-> input.sig[e], idx |-> input.idx]
                      ELSE covered[e]]

\* Minimize as the code computes it, input by input.
MinimizeLoop(inputs) ==
    LET covered == FoldLeft(Cover, [e \in {1, 2} |-> [prio |-> 0, idx |-> 0]],
                            [i \in DOMAIN inputs |-> [sig |-> inputs[i], idx |-> i]])
    IN  {covered[e].idx : e \in {1, 2}} \ {0}

\* On every corpus of up to three inputs the loop of signal.Minimize keeps
\* exactly the inputs that are first to reach the highest priority of some
\* element, and these still have all the signal of the corpus.
ASSUME MinimizeKeepsSignal ==
    \A n \in 0 .. 3 : \A inputs \in [1 .. n -> Sig!Signals] :
        LET K == Sig!Minimize(inputs)
            all == FoldLeft(Sig!Merge, Sig!NoSignal, inputs)
        IN  MinimizeLoop(inputs) = K /\ Sig!IsMergeOf(all, inputs, K)
=============================================================================
