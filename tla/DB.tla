--------------------------------- MODULE DB ---------------------------------
(***************************************************************************)
(* The key-value database of syz-manager and syz-hub (pkg/db/db.go): a map *)
(* in memory, appended to a file as a log of records, and compacted when   *)
(* the log has grown too long.                                             *)
(*                                                                         *)
(* The process may die at any moment, in the middle of an append too, and  *)
(* an append may fail half-way and leave the process running.  A record is *)
(* the pair of its value and its sequence number.                          *)
(***************************************************************************)
EXTENDS Naturals, Sequences, FiniteSets

CONSTANTS
    Keys,
    Recs,
    NoRec,      \* no record; in the log, seqDeleted
    Versions,   \* user versions
    Num, Den,   \* 9 and 10: when Flush compacts
    MaxLog      \* bound: entries in the file and pending

ASSUME DBAssumption ==
    /\ IsFiniteSet(Keys)
    /\ NoRec \notin Recs
    /\ Versions \subseteq Nat
    /\ Num \in Nat \ {0} /\ Den \in Nat \ {0}
    /\ MaxLog \in Nat

Maps == [Keys -> Recs \cup {NoRec}]
Entries == [key : Keys, rec : Recs \cup {NoRec}]
Empty == [k \in Keys |-> NoRec]

VARIABLES
    up,             \* the database is open
    version,
    records,
    uncompacted,
    pending,        \* entries to be written; <<>> for nil
    file,           \* ver, the entries Open can read, and whether a torn one follows them
    failed          \* history: an append has failed since the file was last written as a whole

memVars == <<up, version, records, uncompacted, pending>>
vars == <<memVars, file, failed>>

\* deserializeDB: the last entry of a key counts.  MCDB compares it with the
\* loop of the code.
Replay(log) ==
    [k \in Keys |->
        IF \E i \in 1 .. Len(log) : log[i].key = k
        THEN log[CHOOSE i \in 1 .. Len(log) :
                    /\ log[i].key = k
                    /\ \A j \in i + 1 .. Len(log) : log[j].key # k].rec
        ELSE NoRec]

Present(m) == {k \in Keys : m[k] # NoRec}

\* What compact writes: an entry for each record, in the order of the map.
Snapshots(m) ==
    LET n == Cardinality(Present(m))
    IN  {[i \in 1 .. n |-> [key |-> f[i], rec |-> m[f[i]]]] :
            f \in {g \in [1 .. n -> Present(m)] : \A i, j \in 1 .. n : g[i] = g[j] => i = j}}

Compacted(v, m) == {[ver |-> v, log |-> s, torn |-> FALSE] : s \in Snapshots(m)}

\* An append that got n entries, and perhaps a part of the next, to the file.
Appended(n, torn) ==
    IF file.torn THEN file
    ELSE [file EXCEPT !.log = @ \o SubSeq(pending, 1, n), !.torn = torn]

TypeOK ==
    /\ up \in BOOLEAN
    /\ version \in Versions \cup {0}
    /\ records \in Maps
    /\ uncompacted \in Nat
    /\ pending \in Seq(Entries)
    /\ file.ver \in Versions \cup {0} /\ file.log \in Seq(Entries) /\ file.torn \in BOOLEAN
    /\ failed \in BOOLEAN

Init ==
    /\ up = FALSE
    /\ version = 0
    /\ records = Empty
    /\ uncompacted = 0
    /\ pending = <<>>
    /\ file = [ver |-> 0, log |-> <<>>, torn |-> FALSE]
    /\ failed = FALSE

-----------------------------------------------------------------------------
\* Open with repair: what can be read is the database, and is written back.
Open ==
    /\ ~up
    /\ up' = TRUE
    /\ version' = file.ver
    /\ records' = Replay(file.log)
    /\ uncompacted' = Cardinality(Present(records'))
    /\ pending' = <<>>
    /\ file' \in Compacted(version', records')
    /\ failed' = FALSE

\* Mutant of Logged: the entry is lost when there are pending ones.
LoggedFirst(k, r) ==
    /\ pending' = IF pending = <<>> THEN <<[key |-> k, rec |-> r]>> ELSE pending
    /\ uncompacted' = uncompacted + 1
    /\ UNCHANGED <<up, version, file, failed>>

Logged(k, r) ==
    /\ pending' = Append(pending, [key |-> k, rec |-> r])
    /\ uncompacted' = uncompacted + 1
    /\ UNCHANGED <<up, version, file, failed>>

Room == Len(file.log) + Len(pending) < MaxLog

Save(k, r) ==
    /\ up /\ Room
    /\ records[k] # r
    /\ records' = [records EXCEPT ![k] = r]
    /\ Logged(k, r)

Delete(k) ==
    /\ up /\ Room
    /\ records[k] # NoRec
    /\ records' = [records EXCEPT ![k] = NoRec]
    /\ Logged(k, NoRec)

TooLong == (uncompacted \div Den) * Num > Cardinality(Present(records))

\* Mutant of compact: uncompacted is not reset.
compactKeepsCount(v) ==
    /\ file' \in Compacted(v, records)
    /\ failed' = FALSE
    /\ pending' = <<>>
    /\ UNCHANGED <<up, records, uncompacted>>

compact(v) ==
    /\ file' \in Compacted(v, records)
    /\ failed' = FALSE
    /\ uncompacted' = Cardinality(Present(records))
    /\ pending' = <<>>
    /\ UNCHANGED <<up, records>>

Flush ==
    /\ up
    /\ IF TooLong
       THEN compact(version) /\ UNCHANGED version
       ELSE /\ file' = Appended(Len(pending), FALSE)
            /\ pending' = <<>>
            /\ UNCHANGED <<up, version, records, uncompacted, failed>>

\* Mutant of BumpVersion: the version is increased instead of set.
BumpVersionNext(v) ==
    /\ up
    /\ IF version = v
       THEN Flush
       ELSE version' = v + 1 /\ compact(v + 1)

BumpVersion(v) ==
    /\ up
    /\ IF version = v
       THEN Flush
       ELSE version' = v /\ compact(v)

\* The write fails after n entries; pending stays, to be written again.  A
\* failed compact changes nothing.
FlushFails ==
    /\ up /\ ~TooLong
    /\ \E n \in 0 .. Len(pending) : \E torn \in {FALSE, n < Len(pending)} :
          file' = Appended(n, torn)
    /\ Len(file'.log) + Len(pending) <= MaxLog
    /\ failed' = TRUE
    /\ UNCHANGED memVars

BumpVersionFails(v) ==
    /\ up /\ version # v
    /\ version' = v
    /\ UNCHANGED <<up, records, uncompacted, pending, file, failed>>

Down ==
    /\ up' = FALSE
    /\ version' = 0
    /\ records' = Empty
    /\ uncompacted' = 0
    /\ pending' = <<>>
    /\ failed' = FALSE

Crash == up /\ Down /\ UNCHANGED file

CrashInFlush ==
    /\ up /\ ~TooLong
    /\ \E n \in 0 .. Len(pending) : \E torn \in {FALSE, n < Len(pending)} :
          file' = Appended(n, torn)
    /\ Down

\* Mutant of CrashInCompact: compact truncates the file and writes it in place.
CrashInPlace ==
    /\ up
    /\ \E v \in Versions \cup {version}, n \in 0 .. Cardinality(Present(records)) :
          /\ v = version => TooLong
          /\ \E f \in Compacted(v, records) : file' = [f EXCEPT !.log = SubSeq(@, 1, n)]
    /\ Down

\* After the rename.
CrashInCompact ==
    /\ up
    /\ \E v \in Versions \cup {version} :
          /\ v = version => TooLong
          /\ file' \in Compacted(v, records)
    /\ Down

CrashInOpen ==
    /\ ~up
    /\ file' \in Compacted(file.ver, Replay(file.log))
    /\ UNCHANGED <<memVars, failed>>

\* Create, and Connect of the hub: the file is removed and opened again.
Recreate ==
    /\ up' = TRUE
    /\ version' = 0
    /\ records' = Empty
    /\ uncompacted' = 0
    /\ pending' = <<>>
    /\ file' \in Compacted(0, Empty)
    /\ failed' = FALSE

Next ==
    \/ Open \/ Flush \/ FlushFails \/ Recreate
    \/ \E k \in Keys : Delete(k) \/ \E r \in Recs : Save(k, r)
    \/ \E v \in Versions : BumpVersion(v) \/ BumpVersionFails(v)
    \/ Crash \/ CrashInFlush \/ CrashInCompact \/ CrashInOpen

Spec == Init /\ [][Next]_vars

-----------------------------------------------------------------------------
\* The file and the pending entries make up the map in memory, whatever failed
\* before, as long as no write was torn: entries written twice do no harm.
Mirrored == up /\ ~file.torn => Replay(file.log \o pending) = records

\* Unless a write has failed, uncompacted counts the entries of the file and the
\* pending ones, and after a Flush the file has not outgrown the records.
FileBounded ==
    up /\ ~failed =>
        /\ uncompacted = Len(file.log) + Len(pending)
        /\ pending = <<>> => (Len(file.log) \div Den) * Num <= Cardinality(Present(records))

\* The database is a Store: what a crash leaves is a state the map had since
\* the last Flush, never a mixture of two, and a Flush leaves the last of them
\* only and never nothing done; from a write that fails until the file is
\* written as a whole again nothing is promised.
Abstract == INSTANCE Store WITH
    mem <- IF up THEN records ELSE Replay(file.log),
    past <- IF up THEN {Replay(file.log \o SubSeq(pending, 1, n)) : n \in 0 .. Len(pending)}
            ELSE {Replay(file.log)},
    intact <- ~failed

RefinesStore ==
    /\ Abstract!Spec
    /\ [][Flush /\ ~failed => Abstract!Sync]_vars
    /\ [](up /\ pending # <<>> => ENABLED <<Flush>>_vars)

\* "mirrored on disk": a Flush that succeeds leaves in the file what is in
\* memory.  A write torn before makes what Flush appends unreadable.
FlushMirrors == [][Flush => Replay(file'.log) = records']_vars
=============================================================================
