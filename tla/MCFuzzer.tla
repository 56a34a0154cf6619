------------------------------ MODULE MCFuzzer ------------------------------
(* Instances of Fuzzer for TLC. *)
EXTENDS Fuzzer, TLC

CONSTANTS a, b

\* A candidate from the manager's corpus, and one from the hub.
MCCandidateFlags == {{"minimized", "smashed"}, {}}

MCProcs == {a, b}

\* One proc and the poll goroutine with every kind of work; two procs that
\* find signal of both priorities; two procs and the manager's candidates.
MCWorkloads ==
    {[procs |-> {a}, prio |-> 1, infos |-> 2, smash |-> 1, minimize |-> 1, supply |-> 1],
     [procs |-> {a, b}, prio |-> 1, infos |-> 1, smash |-> 0, minimize |-> 0, supply |-> 0],
     [procs |-> {a, b}, prio |-> 0, infos |-> 1, smash |-> 0, minimize |-> 1, supply |-> 1]}
=============================================================================
