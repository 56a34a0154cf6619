-------------------------------- MODULE MCDB --------------------------------
(***************************************************************************)
(* Instances of DB for TLC.                                                *)
(***************************************************************************)
EXTENDS DB, TLC

Symmetry == {f @@ g : f \in Permutations(Keys), g \in Permutations(Recs)}

\* The loop of deserializeDB: entry by entry, from an empty map.
RECURSIVE ReplayLoop(_, _)
ReplayLoop(m, log) ==
    IF log = <<>> THEN m
    ELSE ReplayLoop([m EXCEPT ![Head(log).key] = Head(log).rec], Tail(log))

\* Reading a log of up to four entries one by one gives what Replay says.
ASSUME ReplayIsLoop ==
    \A n \in 0 .. 4 : \A log \in [1 .. n -> Entries] : Replay(log) = ReplayLoop(Empty, log)
=============================================================================
