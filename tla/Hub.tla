--------------------------------- MODULE Hub ---------------------------------
(***************************************************************************)
(* syz-hub and the managers that exchange programs and reproducers through *)
(* it: the hub's state (syz-hub/state/state.go), its two RPCs              *)
(* (syz-hub/hub.go) and the managers' hub loop (syz-manager/hub.go).       *)
(*                                                                         *)
(* RPCs run one at a time under hub.mu.  A call or its reply may be lost,  *)
(* and the hub may die between two RPCs or in the middle of a Sync; it     *)
(* then restarts from what it has written (module DB says that a flushed   *)
(* database is read back).  A call that failed is not executed later: the  *)
(* loop sleeps for ten minutes before it connects again.  All programs are *)
(* valid; domains only choose how a manager triages an input.              *)
(***************************************************************************)
EXTENDS Naturals, FiniteSets

CONSTANTS
    Managers,
    Progs,          \* corpus programs
    Repros,         \* reproducers
    Supports,       \* pairs <<m, x>>: manager m has the calls of x
    Dropped,        \* the programs that minimization may drop from a corpus
    MaxRecords,     \* 100
    CapRecords,     \* 100000
    MaxConnect,     \* 100000: what connect sends of the corpus
    Workloads,      \* kinds of behaviour: what there is, which reproducers each manager may find,
                    \* whether managers may start without a corpus, and whether no call gets lost
                    \* and the hub never dies
    MaxSeq          \* bound: sequence numbers

ASSUME HubAssumption ==
    /\ IsFiniteSet(Managers) /\ IsFiniteSet(Progs) /\ IsFiniteSet(Repros)
    /\ Dropped \subseteq Progs
    /\ MaxRecords \in Nat /\ CapRecords \in Nat /\ MaxRecords < CapRecords
    /\ MaxConnect \in Nat
    /\ Workloads \subseteq [items : SUBSET (Progs \cup Repros), finds : SUBSET (Managers \X Repros),
                       fresh : SUBSET BOOLEAN, reliable : BOOLEAN]
    /\ MaxSeq \in Nat

\* Sequence number 0: no record.
Seqs == 0 .. MaxSeq

VARIABLES
    disk,       \* what the hub has written: corpus and repros with their sequence numbers,
                \* and for each manager its corpus, corpusSeq and reproSeq, if it is known
    corpusSeq, reproSeq,
    rseq,       \* reproSeq of each manager; as in disk once the manager is connected
    connected,  \* managers with a Connected time
    own         \* ownRepros

hubVars == <<disk, corpusSeq, reproSeq, rseq, connected, own>>

VARIABLES
    local,      \* mgr.corpus
    newRepros,  \* mgr.newRepros and hc.newRepros
    link,       \* hub != nil in the loop
    fresh,
    hubCorpus,  \* what the manager believes the hub to have of it
    rpc         \* the call or reply under way

mgrVars == <<local, newRepros, link, fresh, hubCorpus, rpc>>

VARIABLE load   \* the workload of this behaviour

VARIABLES       \* history
    had,        \* programs and reproducers a manager has found or was sent, in a reply that
                \* may be lost, and programs the hub has given up sending
    owed,       \* reproducers others have added since it connected
    zeroed      \* managers that had reproSeq 0 when the hub restarted

vars == <<hubVars, mgrVars, load, had, owed, zeroed>>

Idle == [kind |-> "idle"]

TypeOK ==
    /\ disk.corpus \in [Progs -> Seqs] /\ disk.repros \in [Repros -> Seqs]
    /\ disk.mcorpus \in [Managers -> SUBSET Progs]
    /\ disk.mseq \in [Managers -> Seqs] /\ disk.mrepro \in [Managers -> Seqs]
    /\ disk.known \subseteq Managers
    /\ corpusSeq \in Seqs /\ reproSeq \in Seqs
    /\ rseq \in [Managers -> Seqs]
    /\ connected \subseteq Managers
    /\ own \in [Managers -> SUBSET Repros]
    /\ local \in [Managers -> SUBSET Progs]
    /\ newRepros \in [Managers -> SUBSET Repros]
    /\ link \in [Managers -> BOOLEAN] /\ fresh \in [Managers -> BOOLEAN]
    /\ hubCorpus \in [Managers -> SUBSET Progs]
    /\ \A m \in Managers : rpc[m].kind \in {"idle", "connect", "connected", "sync", "reply"}
    /\ load \in Workloads
    /\ had \in [Managers -> SUBSET (Progs \cup Repros)]
    /\ owed \in [Managers -> SUBSET Repros]
    /\ zeroed \subseteq Managers

None == [m \in Managers |-> {}]

Init ==
    /\ load \in Workloads
    /\ disk = [corpus |-> [p \in Progs |-> 0], repros |-> [r \in Repros |-> 0],
               mcorpus |-> None, mseq |-> [m \in Managers |-> 0],
               mrepro |-> [m \in Managers |-> 0], known |-> {}]
    /\ corpusSeq = 0 /\ reproSeq = 0
    /\ rseq = [m \in Managers |-> 0]
    /\ connected = {}
    /\ own = None
    /\ local = None
    /\ newRepros = None
    /\ link = [m \in Managers |-> FALSE]
    /\ fresh \in [Managers -> load.fresh]
    /\ hubCorpus = None
    /\ rpc = [m \in Managers |-> Idle]
    /\ had = None /\ owed = None /\ zeroed = {}

-----------------------------------------------------------------------------
(* The hub's state.                                                         *)

\* Sync deletes what the manager has dropped.
Deleted(d, m, D) == [d EXCEPT !.mcorpus[m] = @ \ D]

\* Mutant of Purged: nothing is purged.
PurgedNone(d) == d

\* purgeCorpus
Purged(d) ==
    [d EXCEPT !.corpus = [p \in Progs |->
        IF \E m \in Managers : p \in d.mcorpus[m] THEN d.corpus[p] ELSE 0]]

\* addInputs, in the order the two databases are flushed; s is the new corpusSeq.
AddedOwn(d, m, A) == [d EXCEPT !.mcorpus[m] = @ \cup A]

AddedAll(d, A, s) ==
    [d EXCEPT !.corpus = [p \in Progs |-> IF p \in A /\ d.corpus[p] = 0 THEN s ELSE d.corpus[p]]]

Added(d, m, A, s) == AddedAll(AddedOwn(d, m, A), A, s)

\* Mutant of SeqAfter: new programs get the current number.
SeqAfterSame(A) == corpusSeq

SeqAfter(A) == IF A = {} THEN corpusSeq ELSE corpusSeq + 1

\* pendingInputs: the records a manager has not been sent.
Unsent(d, m) == {p \in Progs : /\ d.corpus[p] > d.mseq[m]
                               /\ p \notin d.mcorpus[m]
                               /\ <<m, p>> \in Supports}

\* The records it is left with when there are too many; ties fall either way.
Kept(d, R) ==
    {K \in SUBSET R : /\ Cardinality(K) = IF Cardinality(R) > CapRecords THEN CapRecords
                                          ELSE Cardinality(R)
                      /\ \A p \in K, q \in R \ K : d.corpus[q] <= d.corpus[p]}

\* The sequence number of the record at index MaxRecords.
UpTo(d, K) ==
    CHOOSE s \in Seqs : /\ Cardinality({p \in K : d.corpus[p] < s}) <= MaxRecords
                        /\ Cardinality({p \in K : d.corpus[p] <= s}) > MaxRecords

\* Mutant of Page: records that share the last sequence number are left out.
Pages(d, K) ==
    LET s == UpTo(d, K)
    IN  {[inputs |-> S, more |-> K \ S, seq |-> s] :
            S \in {T \in SUBSET K : /\ Cardinality(T) = MaxRecords + 1
                                    /\ \A p \in T, q \in K \ T : d.corpus[p] <= d.corpus[q]}}

PageNotRounded(d, K) == CHOOSE page \in Pages(d, K) : TRUE

\* Mutant of Page: what is left out counts as sent.
PageSkipsRest(d, K) ==
    [inputs |-> {p \in K : d.corpus[p] <= UpTo(d, K)}, more |-> {}, seq |-> corpusSeq]

Page(d, K) ==
    LET s == UpTo(d, K)
        S == {p \in K : d.corpus[p] <= s}
    IN  [inputs |-> S, more |-> K \ S, seq |-> s]

\* What a Sync sends, what it leaves for the next one, what it gives up sending,
\* and the corpusSeq the manager ends with.
pendingInputs(d, m, seq) ==
    LET R == IF d.mseq[m] = seq THEN {} ELSE Unsent(d, m)
    IN  IF Cardinality(R) <= MaxRecords
        THEN {[page |-> [inputs |-> R, more |-> {}, seq |-> seq], skipped |-> {}]}
        ELSE {[page |-> Page(d, K), skipped |-> R \ K] : K \in Kept(d, R)}

Bijections(S, T) == {f \in [S -> T] : \A x, y \in S : f[x] = f[y] => x = y}

\* Mutant of AddRepros: the manager's number is always incremented.
AddReprosBump(s, m, R) ==
    LET N == {r \in R : s.disk.repros[r] = 0}
        n == Cardinality(N)
    IN  {[disk |-> [s.disk EXCEPT !.repros = [r \in Repros |-> IF r \in N THEN f[r] ELSE @[r]],
                                  !.mrepro[m] = s.mine + n],
          seq |-> s.seq + n,
          mine |-> s.mine + n,
          own |-> s.own \cup N] : f \in Bijections(N, s.seq + 1 .. s.seq + n)}

\* AddRepro for each reproducer of a call, in any order.  A state s is the disk,
\* the hub's and the manager's sequence number and the manager's ownRepros.
AddRepros(s, m, R) ==
    LET N == {r \in R : s.disk.repros[r] = 0}
        n == Cardinality(N)
        q == IF s.mine = s.seq THEN s.seq + n ELSE s.mine
    IN  {[disk |-> [s.disk EXCEPT !.repros = [r \in Repros |-> IF r \in N THEN f[r] ELSE @[r]],
                                  !.mrepro[m] = IF N = {} THEN @ ELSE q],
          seq |-> s.seq + n,
          mine |-> q,
          own |-> s.own \cup N] : f \in Bijections(N, s.seq + 1 .. s.seq + n)}

\* PendingRepro: the oldest reproducer the manager has not been sent.
UnsentRepros(s, m) == {r \in Repros : /\ s.disk.repros[r] > s.mine
                                      /\ r \notin s.own
                                      /\ <<m, r>> \in Supports}

PendingRepro(s, m) ==
    LET R == UnsentRepros(s, m)
        first == {r \in R : \A q \in R : s.disk.repros[r] <= s.disk.repros[q]}
        seq == IF R = {} THEN s.seq ELSE s.disk.repros[CHOOSE r \in first : TRUE]
    IN  [repros |-> first,
         state |-> [s EXCEPT !.mine = seq,
                             !.disk.mrepro[m] = IF s.mine = s.seq THEN @ ELSE seq]]

-----------------------------------------------------------------------------
(* The RPCs of the hub.                                                     *)

\* createManager and the head of Connect.
Greeted(m) ==
    LET q == IF fresh[m] \/ m \notin disk.known THEN reproSeq ELSE rseq[m]
    IN  [disk EXCEPT !.known = @ \cup {m},
                     !.mseq[m] = IF fresh[m] THEN 0 ELSE @,
                     !.mrepro[m] = q]

HubConnect(m) ==
    /\ rpc[m].kind = "connect"
    /\ LET A == rpc[m].corpus
           d == Greeted(m)
       IN  /\ SeqAfter(A) \in Seqs
           /\ disk' = Purged(Added([d EXCEPT !.mcorpus[m] = {}], m, A, SeqAfter(A)))
           /\ corpusSeq' = SeqAfter(A)
           /\ rseq' = [rseq EXCEPT ![m] = d.mrepro[m]]
           /\ owed' = [owed EXCEPT ![m] = IF fresh[m] \/ m \notin disk.known THEN {} ELSE @]
    /\ connected' = connected \cup {m}
    /\ rpc' = [rpc EXCEPT ![m] = [kind |-> "connected", all |-> rpc[m].all,
                                  repros |-> rpc[m].repros]]
    /\ UNCHANGED <<load, reproSeq, own, local, newRepros, link, fresh, hubCorpus, had, zeroed>>

\* The corpus part of Sync, before pendingInputs.
Updated(m, c) ==
    LET d == IF c.del = {} THEN disk ELSE Purged(Deleted(disk, m, c.del))
    IN  Added(d, m, c.add, SeqAfter(c.add))

\* The managers the hub knows of are to get the reproducers N of m.
Owed(m, N) == [o \in Managers |-> IF o # m /\ o \in disk.known THEN owed[o] \cup N ELSE owed[o]]

HubSync(m) ==
    /\ rpc[m].kind = "sync"
    /\ m \in connected
    /\ LET c == rpc[m]
           d == Updated(m, c)
           N == {r \in c.repros : disk.repros[r] = 0}
       IN  /\ SeqAfter(c.add) \in Seqs /\ reproSeq + Cardinality(N) \in Seqs
           /\ corpusSeq' = SeqAfter(c.add)
           /\ \E in \in pendingInputs(d, m, corpusSeq') :
              \E s \in AddRepros([disk |-> [d EXCEPT !.mseq[m] = in.page.seq], seq |-> reproSeq,
                                  mine |-> rseq[m], own |-> own[m]], m, c.repros) :
                 LET p == IF c.need THEN PendingRepro(s, m) ELSE [repros |-> {}, state |-> s]
                 IN  /\ disk' = p.state.disk
                     /\ reproSeq' = p.state.seq
                     /\ rseq' = [rseq EXCEPT ![m] = p.state.mine]
                     /\ own' = [own EXCEPT ![m] = p.state.own]
                     /\ rpc' = [rpc EXCEPT ![m] = [kind |-> "reply", sent |-> c.repros,
                                                   again |-> in.page.inputs \cup in.page.more # {}]]
                     /\ had' = [had EXCEPT ![m] = @ \cup in.page.inputs \cup in.skipped \cup p.repros]
                     /\ owed' = Owed(m, N)
    /\ UNCHANGED <<load, connected, local, newRepros, link, fresh, hubCorpus, zeroed>>

\* The hub does not know the connection, for it has restarted.
HubSyncRefused(m) ==
    /\ rpc[m].kind = "sync"
    /\ m \notin connected
    /\ rpc' = [rpc EXCEPT ![m] = Idle]
    /\ link' = [link EXCEPT ![m] = FALSE]
    /\ UNCHANGED <<load, hubVars, local, newRepros, fresh, hubCorpus, had, owed, zeroed>>

MaxOf(S) == CHOOSE x \in S \cup {0} : \A y \in S : y <= x

\* Mutant of LoadedSeq: the next number to be given out.
LoadedSeqNext(d) == MaxOf({d.corpus[p] : p \in Progs} \cup {d.mseq[m] : m \in Managers}) + 1

\* Make: the sequence number the hub goes on with.
LoadedSeq(d) == MaxOf({d.corpus[p] : p \in Progs} \cup {d.mseq[m] : m \in Managers})

\* The hub dies with d on disk and restarts: Make.  A manager with reproSeq 0
\* gets the hub's, which may still grow while the others are loaded.
Restart(d) ==
    LET top == MaxOf({d.repros[r] : r \in Repros})
        all == MaxOf({top} \cup {d.mrepro[m] : m \in Managers})
    IN  /\ disk' = Purged(d)
        /\ corpusSeq' = LoadedSeq(d)
        /\ reproSeq' = all
        /\ \E q \in {top, all} :
              rseq' = [m \in Managers |-> IF d.mrepro[m] = 0 THEN q ELSE d.mrepro[m]]
        /\ connected' = {}
        /\ own' = None
        \* Calls on the way to it fail; replies may have arrived.
        /\ rpc' = [m \in Managers |-> IF rpc[m].kind \in {"connect", "sync"} THEN Idle ELSE rpc[m]]
        /\ link' = [m \in Managers |-> link[m] /\ rpc[m].kind # "sync"]
        /\ zeroed' = zeroed \cup {m \in d.known : d.mrepro[m] = 0}
        /\ UNCHANGED <<load, local, newRepros, fresh, hubCorpus>>

HubRestart == ~load.reliable /\ Restart(disk) /\ UNCHANGED <<had, owed>>

\* The hub dies in the middle of a call, with some of its writes done.  To write
\* a sequence number truncates its file first, and an empty file reads as 0.
HubDiesInConnect(m) ==
    /\ ~load.reliable
    /\ rpc[m].kind = "connect" /\ SeqAfter(rpc[m].corpus) \in Seqs
    /\ LET A == rpc[m].corpus
           g == Greeted(m)
           made == [disk EXCEPT !.known = @ \cup {m}]
           seq == [made EXCEPT !.mseq[m] = g.mseq[m]]
           d == [g EXCEPT !.mcorpus[m] = {}]
       IN  \/ /\ \E e \in {made, [made EXCEPT !.mseq[m] = 0], seq, [seq EXCEPT !.mrepro[m] = 0]} :
                    Restart(e)
              /\ UNCHANGED owed
           \/ /\ \E e \in {g, d, AddedOwn(d, m, A), Added(d, m, A, SeqAfter(A))} : Restart(e)
              /\ owed' = [owed EXCEPT ![m] = IF fresh[m] THEN {} ELSE @]
    /\ UNCHANGED had

\* What repro.seq may hold while AddRepro or PendingRepro writes it, when the
\* reproducers in R are added and the state is s.
ReproSeqs(c, s, R) ==
    LET left == {r \in c.repros \ R : disk.repros[r] = 0}
    IN  IF left # {} THEN (IF s.mine = s.seq THEN {0, s.seq + 1} ELSE {})
        ELSE IF c.need /\ s.mine # s.seq THEN {0} ELSE {}

HubDiesInSync(m) ==
    /\ ~load.reliable
    /\ rpc[m].kind = "sync" /\ m \in connected
    /\ LET c == rpc[m]
           d1 == Deleted(disk, m, c.del)
           d2 == IF c.del = {} THEN d1 ELSE Purged(d1)
           d3 == Updated(m, c)
       IN  /\ SeqAfter(c.add) \in Seqs
           /\ \/ /\ \E d \in {d1, d2, AddedOwn(d2, m, c.add), d3} : Restart(d)
                 /\ UNCHANGED <<had, owed>>
              \/ /\ d3.mseq[m] # SeqAfter(c.add)
                 /\ Restart([d3 EXCEPT !.mseq[m] = 0])
                 /\ UNCHANGED <<had, owed>>
              \* The sequence numbers and some reproducers are written, the reply is not sent.
              \/ \E in \in pendingInputs(d3, m, SeqAfter(c.add)), R \in SUBSET c.repros :
                 \E s \in AddRepros([disk |-> [d3 EXCEPT !.mseq[m] = in.page.seq], seq |-> reproSeq,
                                     mine |-> rseq[m], own |-> own[m]], m, R) :
                 \E q \in {s.mine} \cup ReproSeqs(c, s, R) :
                    /\ q \in Seqs /\ s.seq \in Seqs
                    /\ Restart([s.disk EXCEPT !.mrepro[m] = q])
                    /\ had' = [had EXCEPT ![m] = @ \cup in.page.inputs \cup in.skipped]
                    /\ owed' = Owed(m, {r \in R : disk.repros[r] = 0})

-----------------------------------------------------------------------------
(* The managers.                                                            *)

\* The manager's corpus gets a program, found or received.
LocalAdd(m, p) ==
    /\ p \in load.items /\ <<m, p>> \in Supports
    /\ p \notin local[m]
    /\ local' = [local EXCEPT ![m] = @ \cup {p}]
    /\ had' = [had EXCEPT ![m] = @ \cup {p}]
    /\ UNCHANGED <<load, hubVars, newRepros, link, fresh, hubCorpus, rpc, owed, zeroed>>

LocalDrop(m, p) ==
    /\ p \in local[m] \cap Dropped
    /\ local' = [local EXCEPT ![m] = @ \ {p}]
    /\ UNCHANGED <<load, hubVars, newRepros, link, fresh, hubCorpus, rpc, had, owed, zeroed>>

\* saveRepro, for a reproducer this manager has not come across.
FindRepro(m, r) ==
    /\ <<m, r>> \in load.finds \cap Supports
    /\ r \notin had[m]
    /\ newRepros' = [newRepros EXCEPT ![m] = @ \cup {r}]
    /\ had' = [had EXCEPT ![m] = @ \cup {r}]
    /\ UNCHANGED <<load, hubVars, local, link, fresh, hubCorpus, rpc, owed, zeroed>>

Call(m, del, add, repros, need) ==
    rpc' = [rpc EXCEPT ![m] = [kind |-> "sync", del |-> del, add |-> add, repros |-> repros,
                               need |-> need]]

\* An iteration of the loop without a connection: connect.
BeginConnect(m) ==
    /\ rpc[m].kind = "idle" /\ ~link[m]
    /\ \E A \in SUBSET local[m] :
          /\ IF Cardinality(local[m]) > MaxConnect THEN Cardinality(A) = MaxConnect ELSE A = local[m]
          /\ rpc' = [rpc EXCEPT ![m] = [kind |-> "connect", corpus |-> A, all |-> local[m],
                                             repros |-> newRepros[m]]]
    /\ UNCHANGED <<load, hubVars, local, newRepros, link, fresh, hubCorpus, had, owed, zeroed>>

\* connect has succeeded, and the iteration goes on to sync with the same corpus
\* and the reproducers it has collected.
Connected(m) ==
    /\ rpc[m].kind = "connected"
    /\ link' = [link EXCEPT ![m] = TRUE]
    /\ hubCorpus' = [hubCorpus EXCEPT ![m] = rpc[m].all]
    /\ fresh' = [fresh EXCEPT ![m] = FALSE]
    /\ \E need \in {FALSE, load.items \cap Repros # {}} : Call(m, {}, {}, rpc[m].repros, need)
    /\ UNCHANGED <<load, hubVars, local, newRepros, had, owed, zeroed>>

BeginSync(m) ==
    /\ rpc[m].kind = "idle" /\ link[m]
    /\ hubCorpus' = [hubCorpus EXCEPT ![m] = local[m]]
    /\ \E need \in {FALSE, load.items \cap Repros # {}} :
          Call(m, hubCorpus[m] \ local[m], local[m] \ hubCorpus[m], newRepros[m], need)
    /\ UNCHANGED <<load, hubVars, local, newRepros, link, fresh, had, owed, zeroed>>

\* A reply: candidates and crashes to reproduce; another call unless it was empty.
Received(m) ==
    /\ rpc[m].kind = "reply"
    /\ newRepros' = [newRepros EXCEPT ![m] = @ \ rpc[m].sent]
    /\ IF rpc[m].again THEN Call(m, {}, {}, {}, FALSE) ELSE rpc' = [rpc EXCEPT ![m] = Idle]
    /\ UNCHANGED <<load, hubVars, local, link, fresh, hubCorpus, had, owed, zeroed>>

\* Mutant of CallFails: the connection is kept after a failure.
CallFailsKeeps(m) ==
    /\ ~load.reliable
    /\ rpc[m].kind # "idle"
    /\ rpc' = [rpc EXCEPT ![m] = Idle]
    /\ UNCHANGED <<load, hubVars, local, newRepros, link, fresh, hubCorpus, had, owed, zeroed>>

\* A call or its reply is lost.
CallFails(m) ==
    /\ ~load.reliable
    /\ rpc[m].kind # "idle"
    /\ rpc' = [rpc EXCEPT ![m] = Idle]
    /\ link' = [link EXCEPT ![m] = FALSE]
    /\ UNCHANGED <<load, hubVars, local, newRepros, fresh, hubCorpus, had, owed, zeroed>>

Serve(m) == HubConnect(m) \/ HubSync(m) \/ HubSyncRefused(m)

Iterate(m) == BeginConnect(m) \/ Connected(m) \/ BeginSync(m) \/ Received(m)

Next ==
    \/ HubRestart
    \/ \E m \in Managers :
          \/ Serve(m) \/ Iterate(m) \/ CallFails(m)
          \/ HubDiesInConnect(m) \/ HubDiesInSync(m)
          \/ \E p \in Progs : LocalAdd(m, p) \/ LocalDrop(m, p)
          \/ \E r \in Repros : FindRepro(m, r)

Spec == Init /\ [][Next]_vars

\* The loops go round every ten minutes and the hub serves every call.
FairSpec == Spec /\ \A m \in Managers : WF_vars(Serve(m)) /\ WF_vars(Iterate(m))

-----------------------------------------------------------------------------
\* A program the hub counts as sent to a manager was sent to it, or the manager
\* had it; the exceptions are the replies that were lost and the programs
\* beyond capRecords.  Restarts, purges and reused sequence numbers hide none.
Delivered ==
    \A m \in Managers, p \in Progs :
        disk.corpus[p] \in 1 .. disk.mseq[m] /\ <<m, p>> \in Supports =>
            p \in had[m]

\* While a manager and the hub agree that they are connected and no call is
\* under way, the hub has the corpus of the manager that the manager believes
\* it has, for Sync sends differences only; unless connect has cut the corpus
\* short, which leaves the hub with less.
InSync ==
    \A m \in connected :
        link[m] /\ rpc[m].kind = "idle" =>
            /\ disk.mcorpus[m] \subseteq hubCorpus[m]
            /\ Cardinality(load.items \cap Progs) <= MaxConnect => disk.mcorpus[m] = hubCorpus[m]

\* The hub keeps a program exactly as long as a manager has it in its corpus,
\* but for a hub that died between its two flushes, until the manager connects
\* again.
CorpusOwned ==
    /\ \A p \in Progs : disk.corpus[p] # 0 => \E m \in Managers : p \in disk.mcorpus[m]
    /\ \A m \in connected : \A p \in disk.mcorpus[m] : disk.corpus[p] # 0

ReproAccounted(m, r) ==
    <<m, r>> \in Supports /\ disk.repros[r] # 0 =>
        r \in had[m] \/ disk.repros[r] > rseq[m]

\* A reproducer another manager added while this one was known to the hub is
\* still to be sent, was sent, or the reply was lost; this does not hold for a
\* manager whose reproSeq was 0 when the hub restarted.
ReprosDelivered == \A m \in Managers \ zeroed : \A r \in owed[m] : ReproAccounted(m, r)

\* The same without the exception: a restart of the hub loses no reproducer
\* that is still to be sent; State "is persisted to and can be restored from a
\* directory".
ReprosPersist == \A m \in Managers : \A r \in owed[m] : ReproAccounted(m, r)

\* Over a reliable network every program reaches every manager that supports it.
Exchanged ==
    \A m, o \in Managers, p \in Progs :
        p \in local[m] /\ <<o, p>> \in Supports ~> p \in had[o]
=============================================================================
