-------------------------------- MODULE Store --------------------------------
(***************************************************************************)
(* What pkg/db promises: a map in memory, and after a crash a state the    *)
(* map had at or after the last successful Flush, in the order of the      *)
(* calls.  A failed write suspends the promise until the file is rewritten *)
(* or opened again.  Module DB implements it.                              *)
(***************************************************************************)
CONSTANTS Keys, Recs, NoRec

VARIABLES
    mem,    \* the records, NoRec for a key that has none
    past,   \* the states mem has had since the last successful Flush
    intact  \* no write has failed

vars == <<mem, past, intact>>

Maps == [Keys -> Recs \cup {NoRec}]

Init == mem \in Maps /\ past = {mem} /\ intact = TRUE

Change(m) == mem' = m /\ past' = past \cup {m}

Put(k, r) == Change([mem EXCEPT ![k] = r])

Remove(k) == Change([mem EXCEPT ![k] = NoRec])

Sync == past' = {mem} /\ UNCHANGED mem

Crash == mem' \in past /\ past' = {mem'}

Recreate == mem' = [k \in Keys |-> NoRec] /\ past' = {mem'}

WriteFails == ~intact' /\ UNCHANGED mem

Repaired == ~intact /\ (intact' => past' = {mem'})

Next ==
    \/ /\ intact /\ intact'
       /\ \/ \E k \in Keys : Remove(k) \/ \E r \in Recs : Put(k, r)
          \/ Sync \/ Crash \/ Recreate
    \/ WriteFails \/ Repaired

Spec == Init /\ [][Next]_vars
=============================================================================
