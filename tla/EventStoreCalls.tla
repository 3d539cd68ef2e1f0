-------------------------- MODULE EventStoreCalls ---------------------------
(* The inductive invariant of EventStore, and that the calls of the clients, *)
(* the flushers and the tickers keep it.                                     *)
EXTENDS EventStore, TLAPS, SequenceTheorems

-----------------------------------------------------------------------------
(* The inductive invariant                                                   *)

(* The first n entries of log lg hold an insertion of e, a deletion of l.    *)
Inserted(lg, n, e) == \E k \in 1..n : lg[k].op = "insert" /\ lg[k].ev = e
Deleted(lg, n, l)  == \E k \in 1..n : lg[k].op = "delete" /\ lg[k].loc = l

(* Location l of store s holds a record of event e.                          *)
Holds(s, l, e) == l \in DOMAIN s /\ s[l].id = e

Durable == SyncMode = "always"

(* What an index holds are records of the right events.                      *)
PointsP(s, f) == \A e \in Ids : \A k \in DOMAIN f[e] : Holds(s, f[e][k], e)
PointsS(s, g) == \A i \in Secondaries : \A e \in Ids : \A l \in g[i][e] : Holds(s, l, e)

(* What call c, in progress, relies on.                                      *)
CallOK(c, s, lg, n) ==
  /\ c.pc \in {"log", "append", "primary", "secondary"} \cup DeletePcs => c.ev \in Ids
  /\ c.pc \in {"primary", "secondary"} \cup DeletePcs => Holds(s, c.loc, c.ev)
  /\ c.pc \in {"secondary", "dsecondary"} => c.todo \in Seq(Secondaries)
  /\ c.pc = "append" /\ Durable => Inserted(lg, n, c.ev)
  /\ c.pc = "dflag" /\ Durable => Deleted(lg, n, c.loc)

(* Deletions in the log name records.                                        *)
LogOK ==
  /\ \A k \in DOMAIN log : log[k].op = "delete" => log[k].loc \in DOMAIN store
  /\ ~Running => synced = Len(log)

(* A recovery in progress knows records, and logged events.                  *)
RecoveryOK ==
  /\ \A e \in events : locations[e] # 0 => Holds(store, locations[e], e)
  /\ up = "insert" => \A e \in events : locations[e] # 0
  /\ Durable => \A e \in events : Inserted(log, synced, e)
  /\ \A k \in deletions : k \in 1..synced /\ log[k].op = "delete"
  /\ unscanned \subseteq DOMAIN store

StoreOK ==
  Durable => \A l \in DOMAIN store :
               /\ Inserted(log, synced, store[l].id)
               /\ store[l].deleted => Deleted(log, synced, l)

CallsOK == \A p \in Procs : CallOK(cl[p], store, log, synced)

Points ==
  /\ PointsP(store, primary) /\ PointsP(store, primaryDisk)
  /\ PointsS(store, sec) /\ PointsS(store, secDisk)

IInv == TypeOK /\ Points /\ CallsOK /\ LogOK /\ RecoveryOK /\ StoreOK

-----------------------------------------------------------------------------
(* Facts about the operators                                                 *)

Extends(s, t) == DOMAIN s \subseteq DOMAIN t /\ \A l \in DOMAIN s : t[l].id = s[l].id
LogExtends(lg, n, lh, m) == n <= m /\ \A k \in 1..n : lh[k] = lg[k]

(* A store that grows keeps what it holds, and so do the indexes into it.    *)
LEMMA PointsStable ==
  ASSUME NEW s, NEW t, Extends(s, t)
  PROVE  /\ \A f : PointsP(s, f) => PointsP(t, f)
         /\ \A g : PointsS(s, g) => PointsS(t, g)
BY DEF PointsP, PointsS, Holds, Extends

(* A log that grows keeps the entries that were durable.                     *)
LEMMA LoggedStable ==
  ASSUME NEW lg, NEW lh, NEW n \in Nat, NEW m \in Nat, LogExtends(lg, n, lh, m)
  PROVE  /\ \A e : Inserted(lg, n, e) => Inserted(lh, m, e)
         /\ \A l : Deleted(lg, n, l) => Deleted(lh, m, l)
BY DEF LogExtends, Inserted, Deleted

(* A call in progress keeps what it relies on.                               *)
LEMMA CallStable ==
  ASSUME NEW s, NEW t, Extends(s, t),
         NEW lg, NEW lh, NEW n \in Nat, NEW m \in Nat, LogExtends(lg, n, lh, m),
         NEW c, CallOK(c, s, lg, n)
  PROVE  CallOK(c, t, lh, m)
<1>1. Holds(s, c.loc, c.ev) => Holds(t, c.loc, c.ev) BY DEF Holds, Extends
<1>2. /\ Inserted(lg, n, c.ev) => Inserted(lh, m, c.ev)
      /\ Deleted(lg, n, c.loc) => Deleted(lh, m, c.loc)
  BY LoggedStable
<1> QED BY <1>1, <1>2 DEF CallOK

(* btree.insert adds the new location and no other.                          *)
LEMMA InsertLocFacts ==
  ASSUME NEW s \in Seq(Nat), NEW l \in Nat
  PROVE  /\ InsertLoc(s, l) \in Seq(Nat)
         /\ \A k \in DOMAIN InsertLoc(s, l) :
              \/ InsertLoc(s, l)[k] = l
              \/ \E j \in DOMAIN s : InsertLoc(s, l)[k] = s[j]
BY DEF InsertLoc

(* btree.delete adds nothing.                                                *)
LEMMA DeleteFirstFacts ==
  ASSUME NEW s \in Seq(Nat)
  PROVE  /\ DeleteFirst(s) \in Seq(Nat)
         /\ \A k \in DOMAIN DeleteFirst(s) :
              \E j \in DOMAIN s : DeleteFirst(s)[k] = s[j]
BY DEF DeleteFirst

(* The orders in which the indexes are visited.                              *)
LEMMA Orders ==
  /\ InsertOrder \in Seq(Secondaries)
  /\ FlushOrder \in Seq(Secondaries \cup {"primary"})
<1>1. ASSUME NEW i PROVE IfModelled(i) \in Seq(Secondaries)
  BY DEF IfModelled
<1>2. ASSUME NEW i PROVE IfModelled(i) \in Seq(Secondaries \cup {"primary"})
  <2>1. CASE i \in Secondaries BY <2>1 DEF IfModelled
  <2>2. CASE i \notin Secondaries BY <2>2 DEF IfModelled
  <2> QED BY <2>1, <2>2
<1>3. \A S : \A q, r \in Seq(S) : q \o r \in Seq(S) OBVIOUS
<1> HIDE DEF IfModelled
<1>4. InsertOrder \in Seq(Secondaries) BY <1>1, <1>3, Zenon DEF InsertOrder
<1>5. <<"primary">> \in Seq(Secondaries \cup {"primary"}) OBVIOUS
<1>6. FlushOrder \in Seq(Secondaries \cup {"primary"}) BY <1>2, <1>3, <1>5, Zenon DEF FlushOrder
<1> QED BY <1>4, <1>6

-----------------------------------------------------------------------------
(* Types                                                                     *)
TLog    == log \in Seq(Entry) /\ synced \in 0..Len(log) /\ header \in 0..synced
TStore  == store \in Seq([id : Ids, deleted : BOOLEAN])
TIndex  == /\ primary \in [Ids -> Seq(Nat)] /\ primaryDisk \in [Ids -> Seq(Nat)]
           /\ sec \in [Secondaries -> [Ids -> SUBSET Nat]]
           /\ secDisk \in [Secondaries -> [Ids -> SUBSET Nat]]
TFiles  == /\ valid \subseteq Indexes /\ marker \in BOOLEAN
           /\ invalidated \in BOOLEAN /\ dirtyOnStart \in BOOLEAN
Phases  == {"down", "replay", "locate", "insert", "rebuild", "scan", "checkpoint", "open",
            "closing"}
TRecov  == /\ events \subseteq Ids /\ locations \in [Ids -> Nat] /\ deletions \subseteq Nat
           /\ unscanned \subseteq Nat
TCount  == lastCheckpointLSN \in Nat /\ checkpointEventCount \in Nat
Call_   == [pc : PCs, ev : Ids \cup {None}, loc : Nat, todo : Seq(Secondaries \cup {"primary"})]
TCalls  == cl \in [Procs -> Call_]
THist   == acked \subseteq Ids /\ removed \subseteq Ids /\ lone \subseteq Clients
TBound  == /\ calls \in Nat /\ opens \in Nat /\ crashes \in Nat /\ faults \in Nat
           /\ damages \in Nat

(* The type invariant in parts, and the parts an action leaves alone.        *)
LEMMA Parts ==
  TypeOK <=> /\ TLog /\ TStore /\ TIndex /\ TFiles /\ up \in Phases /\ TRecov /\ TCount
             /\ TCalls /\ THist /\ TBound
BY DEF TypeOK, TLog, TStore, TIndex, TFiles, Phases, TRecov, TCount, Call_, TCalls, THist,
       TBound

(* The same, after a step.                                                   *)
LEMMA PartsAfter ==
  ASSUME TLog', TStore', TIndex', TFiles', (up \in Phases)', TRecov', TCount', TCalls',
         THist', TBound'
  PROVE  TypeOK'
BY Zenon DEF TypeOK, TLog, TStore, TIndex, TFiles, Phases, TRecov, TCount, Call_, TCalls, THist,
       TBound

(* The parts of the type invariant that an action leaves alone.              *)
LEMMA PartsKept ==
  ASSUME TypeOK
  PROVE  /\ UNCHANGED logVars => TLog'
         /\ UNCHANGED store => TStore'
         /\ UNCHANGED indexVars => TIndex'
         /\ UNCHANGED fileVars => TFiles'
         /\ UNCHANGED up => (up \in Phases)'
         /\ UNCHANGED recoveryVars => TRecov'
         /\ UNCHANGED countVars => TCount'
         /\ UNCHANGED cl => TCalls'
         /\ UNCHANGED histVars => THist'
         /\ UNCHANGED boundVars => TBound'
<1> USE Parts
<1>1. UNCHANGED logVars => TLog' BY DEF logVars, TLog
<1>2. UNCHANGED store => TStore' BY DEF TStore
<1>3. UNCHANGED indexVars => TIndex' BY DEF indexVars, TIndex
<1>4. UNCHANGED fileVars => TFiles' BY DEF fileVars, TFiles
<1>5. UNCHANGED up => (up \in Phases)' BY DEF Phases
<1>6. UNCHANGED recoveryVars => TRecov' BY DEF recoveryVars, TRecov
<1>7. UNCHANGED countVars => TCount' BY DEF countVars, TCount
<1>8. UNCHANGED cl => TCalls' BY DEF TCalls, Call_
<1>9. UNCHANGED histVars => THist' BY DEF histVars, THist
<1>10. UNCHANGED boundVars => TBound' BY DEF boundVars, TBound
<1> QED BY <1>1, <1>2, <1>3, <1>4, <1>5, <1>6, <1>7, <1>8, <1>9, <1>10

(* What an action that extends the store and the log keeps.                  *)
LEMMA Frame ==
  ASSUME IInv, TypeOK', Extends(store, store'), LogExtends(log, synced, log', synced')
  PROVE  /\ UNCHANGED indexVars => Points'
         /\ UNCHANGED cl => CallsOK'
         /\ \A p \in Procs :
              /\ \A q \in Procs \ {p} : cl'[q] = cl[q]
              /\ CallOK(cl'[p], store', log', synced')
              => CallsOK'
         /\ UNCHANGED recoveryVars /\ (up' = "insert" => up = "insert") => RecoveryOK'
         /\ UNCHANGED log /\ (~Running' => synced' = Len(log)) => LogOK'
         /\ UNCHANGED store => StoreOK'
<1>1. UNCHANGED indexVars => Points'
  BY PointsStable DEF IInv, Points, indexVars
<1>2. synced \in Nat /\ synced' \in Nat /\ synced <= synced'
  BY DEF IInv, TypeOK, LogExtends
<1>3. \A q \in Procs : CallOK(cl[q], store', log', synced')
  BY <1>2, CallStable DEF IInv, CallsOK
<1>4. UNCHANGED cl => CallsOK'
  BY <1>3 DEF CallsOK
<1>5. ASSUME NEW p \in Procs, \A q \in Procs \ {p} : cl'[q] = cl[q],
             CallOK(cl'[p], store', log', synced')
      PROVE  CallsOK'
  <2>1. ASSUME NEW q \in Procs PROVE CallOK(cl'[q], store', log', synced')
    BY <1>3, <1>5
  <2> QED BY <2>1 DEF CallsOK
<1>6. /\ \A e : Inserted(log, synced, e) => Inserted(log', synced', e)
      /\ \A l : Deleted(log, synced, l) => Deleted(log', synced', l)
  BY <1>2, LoggedStable
<1>7. ASSUME UNCHANGED recoveryVars, up' = "insert" => up = "insert" PROVE RecoveryOK'
  <2>1. \A e \in events : locations[e] # 0 => Holds(store', locations[e], e)
    BY DEF IInv, RecoveryOK, Holds, Extends
  <2>2. Durable => \A e \in events : Inserted(log', synced', e)
    BY <1>6 DEF IInv, RecoveryOK
  <2>3. \A k \in deletions : k \in 1..synced' /\ log'[k].op = "delete"
    BY <1>2 DEF IInv, RecoveryOK, LogExtends
  <2>4. unscanned \subseteq DOMAIN store'
    BY DEF IInv, RecoveryOK, Extends
  <2>5. up' = "insert" => \A e \in events : locations[e] # 0
    BY <1>7 DEF IInv, RecoveryOK
  <2> QED BY <1>7, <2>1, <2>2, <2>3, <2>4, <2>5 DEF RecoveryOK, recoveryVars, Durable
<1>8. ASSUME UNCHANGED log, ~Running' => synced' = Len(log) PROVE LogOK'
  BY <1>8 DEF IInv, LogOK, Extends
<1>9. ASSUME UNCHANGED store PROVE StoreOK'
  BY <1>6, <1>9 DEF IInv, StoreOK, Durable
<1> QED BY <1>1, <1>4, <1>5, <1>7, <1>8, <1>9

(* The bounds after a step that may count a fault.                           *)
LEMMA FaultBound ==
  ASSUME TypeOK, faults' = faults \/ faults' = faults + 1,
         UNCHANGED <<calls, opens, crashes, damages>>
  PROVE  TBound'
<1>1. TBound BY Parts
<1> QED BY <1>1 DEF TBound

(* The indexes after a step that leaves the store alone, one by one.         *)
LEMMA PointsEach ==
  ASSUME UNCHANGED store, PointsP(store, primary'), PointsP(store, primaryDisk'),
         PointsS(store, sec'), PointsS(store, secDisk')
  PROVE  Points'
BY DEF Points, PointsP, PointsS, Holds

(* The indexes after a step that leaves them and the store alone.            *)
LEMMA PointsKept ==
  ASSUME TypeOK, Points, UNCHANGED indexVars, UNCHANGED store
  PROVE  TIndex' /\ Points'
<1>1. TIndex' BY PartsKept, Zenon
<1>2. /\ primary' = primary /\ primaryDisk' = primaryDisk /\ sec' = sec /\ secDisk' = secDisk
  BY DEF indexVars
<1>3. /\ PointsP(store, primary') /\ PointsP(store, primaryDisk')
      /\ PointsS(store, sec') /\ PointsS(store, secDisk')
  BY <1>2, Zenon DEF Points
<1> QED BY <1>1, <1>3, PointsEach, Zenon

(* What is not changed is extended.                                          *)
LEMMA Same ==
  ASSUME TypeOK
  PROVE  /\ UNCHANGED store => Extends(store, store')
         /\ UNCHANGED <<log, synced>> => /\ LogExtends(log, synced, log', synced')
                                        /\ synced' \in Nat
BY DEF TypeOK, Extends, LogExtends

(* The program points, and the empty list of indexes to visit.               *)
LEMMA Places ==
  /\ <<>> \in Seq(Secondaries \cup {"primary"}) /\ <<>> \in Seq(Secondaries)
  /\ {"log", "append", "primary", "secondary", "flushpoint", "flush", "cklog", "ckstore",
      "dlog", "dflag", "dprimary", "dsecondary"} \subseteq PCs
BY DEF PCs, DeletePcs

(* A call that moves on, or returns.                                         *)
LEMMA Moves ==
  ASSUME TCalls, NEW p \in Procs, NEW l \in PCs, NEW e \in Ids \cup {None}, NEW loc \in Nat,
         NEW todo \in Seq(Secondaries \cup {"primary"}), At(p, l, e, loc, todo)
  PROVE  /\ TCalls'
         /\ cl'[p] = [pc |-> l, ev |-> e, loc |-> loc, todo |-> todo]
         /\ \A q \in Procs \ {p} : cl'[q] = cl[q]
BY DEF TCalls, Call_, At

(* The call of p goes on, or returns, as the invariant requires.             *)
Progress(p) ==
  /\ TCalls'
  /\ \A q \in Procs \ {p} : cl'[q] = cl[q]
  /\ CallOK(cl'[p], store', log', synced')

(* A call that moves on to a state the invariant allows.                     *)
LEMMA Advances ==
  ASSUME TCalls, NEW p \in Procs, NEW l \in PCs, NEW e \in Ids \cup {None}, NEW loc \in Nat,
         NEW todo \in Seq(Secondaries \cup {"primary"}), At(p, l, e, loc, todo),
         CallOK([pc |-> l, ev |-> e, loc |-> loc, todo |-> todo], store', log', synced')
  PROVE  Progress(p)
BY Moves DEF Progress

(* A call that returns.                                                      *)
LEMMA Stops ==
  ASSUME TCalls, NEW p \in Procs, Stop(p)
  PROVE  Progress(p)
<1>1. Idle \in Call_ BY DEF Call_, Idle, PCs
<1>2. TCalls' BY <1>1 DEF TCalls, Stop
<1>3. cl'[p] = Idle BY DEF Stop, TCalls
<1>4. \A q \in Procs \ {p} : cl'[q] = cl[q] BY DEF Stop, TCalls
<1>5. ASSUME NEW s, NEW lg, NEW n PROVE CallOK(Idle, s, lg, n)
  BY DEF CallOK, Idle, DeletePcs
<1> QED BY <1>2, <1>3, <1>4, <1>5 DEF Progress

(* A call that is where it was.                                              *)
LEMMA Stays ==
  ASSUME IInv, NEW p \in Procs, UNCHANGED cl, Extends(store, store'),
         LogExtends(log, synced, log', synced'), synced' \in Nat
  PROVE  Progress(p)
<1>1. synced \in Nat /\ TCalls /\ CallOK(cl[p], store, log, synced)
  BY Parts DEF IInv, TypeOK, CallsOK
<1>2. CallOK(cl[p], store', log', synced') BY <1>1, CallStable
<1> QED BY <1>1, <1>2 DEF Progress, TCalls, Call_

(* The calls after a step of one of them.                                    *)
LEMMA ProgressOK ==
  ASSUME IInv, TypeOK', Extends(store, store'), LogExtends(log, synced, log', synced'),
         NEW p \in Procs, Progress(p)
  PROVE  CallsOK'
BY Frame DEF Progress

-----------------------------------------------------------------------------
(* The initial state, and the actions one by one                             *)

(* Index files that were just created.                                       *)
LEMMA Empty ==
  /\ NoPrimary \in [Ids -> Seq(Nat)] /\ NoSec \in [Secondaries -> [Ids -> SUBSET Nat]]
  /\ \A s : PointsP(s, NoPrimary) /\ PointsS(s, NoSec)
<1>1. NoPrimary \in [Ids -> Seq(Nat)] BY DEF NoPrimary
<1>2. NoSec \in [Secondaries -> [Ids -> SUBSET Nat]] BY DEF NoSec
<1>3. \A s : PointsP(s, NoPrimary) BY DEF NoPrimary, PointsP
<1>4. \A s : PointsS(s, NoSec) BY DEF NoSec, PointsS
<1> QED BY <1>1, <1>2, <1>3, <1>4

(* A new store.                                                              *)
LEMMA InitInv == Init => IInv
<1> SUFFICES ASSUME Init PROVE IInv OBVIOUS
<1>1. TypeOK
  <2>1. TLog BY DEF Init, TLog
  <2>2. TStore BY DEF Init, TStore
  <2>6. TFiles BY Zenon DEF Init, TFiles
  <2>3. TIndex BY Empty DEF Init, TIndex
  <2>4. up \in Phases /\ TRecov /\ TCount /\ THist /\ TBound
    BY DEF Init, Phases, TRecov, TCount, THist, TBound
  <2>5. TCalls BY DEF Init, TCalls, Call_, Idle, PCs
  <2> QED BY <2>1, <2>2, <2>3, <2>4, <2>5, <2>6, Parts
<1>2. Points BY Empty DEF Init, Points
<1>3. CallsOK BY DEF Init, CallsOK, CallOK, Idle, DeletePcs
<1>4. LogOK /\ RecoveryOK /\ StoreOK BY DEF Init, LogOK, RecoveryOK, StoreOK
<1> QED BY <1>1, <1>2, <1>3, <1>4 DEF IInv

(* The duplicate check of WriteEvent.                                        *)
LEMMA StartWriteInv ==
  ASSUME IInv, NEW p \in Clients, NEW e \in Ids, StartWrite(p, e)
  PROVE  IInv'
<1>1. TypeOK /\ TCalls /\ THist /\ TBound /\ p \in Procs BY Parts DEF IInv, Procs
<1>2. Extends(store, store') /\ LogExtends(log, synced, log', synced') /\ synced' \in Nat
  BY <1>1, Same DEF StartWrite, logVars
<1>3. Progress(p)
  <2>1. CASE UNCHANGED cl BY <1>1, <1>2, <2>1, Stays
  <2>2. CASE At(p, "log", e, 0, <<>>)
    <3>1. CallOK([pc |-> "log", ev |-> e, loc |-> 0, todo |-> <<>>], store', log', synced')
      BY DEF CallOK, DeletePcs
    <3> QED BY <1>1, <2>2, <3>1, Advances, Places, Zenon
  <2> QED BY <2>1, <2>2 DEF StartWrite
<1>4. THist' /\ TBound' BY <1>1 DEF StartWrite, THist, TBound, Begin
<1>5. TypeOK' BY <1>1, <1>3, <1>4, PartsAfter, PartsKept DEF StartWrite, Progress
<1>6. Points' /\ RecoveryOK' /\ StoreOK' BY <1>2, <1>5, Frame DEF StartWrite
<1>7. LogOK' BY <1>2, <1>5, Frame DEF StartWrite, logVars, Running, IInv, LogOK
<1> QED BY <1>1, <1>2, <1>3, <1>5, <1>6, <1>7, ProgressOK DEF IInv

(* The lookup of DeleteEvent.                                                *)
LEMMA StartDeleteInv ==
  ASSUME IInv, NEW p \in Clients, NEW e \in Ids, StartDelete(p, e)
  PROVE  IInv'
<1>1. TypeOK /\ TCalls /\ THist /\ TBound /\ TIndex /\ p \in Procs BY Parts DEF IInv, Procs
<1>2. Extends(store, store') /\ LogExtends(log, synced, log', synced') /\ synced' \in Nat
  BY <1>1, Same DEF StartDelete, logVars
<1>3. Progress(p)
  <2> DEFINE l == primary[e][1]
  <2>1. 1 \in DOMAIN primary[e] /\ l \in Nat
    BY <1>1 DEF StartDelete, TIndex
  <2>2. Holds(store', l, e)
    BY <2>1 DEF StartDelete, IInv, Points, PointsP
  <2> HIDE DEF l
  <2>3. CallOK([pc |-> "dlog", ev |-> e, loc |-> l, todo |-> <<>>], store', log', synced')
    BY <2>2 DEF CallOK, DeletePcs
  <2>4. At(p, "dlog", e, l, <<>>) BY DEF StartDelete, l
  <2> QED BY <1>1, <2>1, <2>3, <2>4, Advances, Places, Zenon
<1>4. THist' /\ TBound' BY <1>1 DEF StartDelete, THist, TBound, Begin
<1>5. TypeOK' BY <1>1, <1>3, <1>4, PartsAfter, PartsKept DEF StartDelete, Progress
<1>6. Points' /\ RecoveryOK' /\ StoreOK' BY <1>2, <1>5, Frame DEF StartDelete
<1>7. LogOK' BY <1>2, <1>5, Frame DEF StartDelete, logVars, Running, IInv, LogOK
<1> QED BY <1>1, <1>2, <1>3, <1>5, <1>6, <1>7, ProgressOK DEF IInv

(* Flush flushes the log and goes on to the indexes.                         *)
LEMMA StartFlushInv ==
  ASSUME IInv, NEW p \in Clients, StartFlush(p)
  PROVE  IInv'
<1>1. TypeOK /\ TCalls /\ TBound /\ TLog /\ p \in Procs BY Parts DEF IInv, Procs
<1>2. /\ Extends(store, store') /\ LogExtends(log, synced, log', synced')
      /\ synced' \in Nat /\ TLog'
  BY <1>1, Same DEF StartFlush, LogExtends, TLog
<1>3. Progress(p)
  <2>1. CallOK([pc |-> "flush", ev |-> None, loc |-> 0, todo |-> FlushOrder],
               store', log', synced')
    BY DEF CallOK, DeletePcs
  <2>2. At(p, "flush", None, 0, FlushOrder) BY DEF StartFlush
  <2> QED BY <1>1, <2>1, <2>2, Advances, Places, Orders
<1>4. TBound' BY <1>1 DEF StartFlush, TBound
<1>5. TypeOK' BY <1>1, <1>2, <1>3, <1>4, PartsAfter, PartsKept DEF StartFlush, Progress
<1>6. Points' /\ RecoveryOK' /\ StoreOK' BY <1>2, <1>5, Frame DEF StartFlush
<1>7. LogOK' BY <1>2, <1>5, Frame DEF StartFlush
<1> QED BY <1>1, <1>2, <1>3, <1>5, <1>6, <1>7, ProgressOK DEF IInv

(* The tick of the checkpoint scheduler.                                     *)
LEMMA TickInv == ASSUME IInv, Tick PROVE IInv'
<1> DEFINE p == "scheduler"
<1>1. TypeOK /\ TCalls /\ p \in Procs BY Parts DEF IInv, Procs
<1>2. Extends(store, store') /\ LogExtends(log, synced, log', synced') /\ synced' \in Nat
  BY <1>1, Same DEF Tick, logVars
<1>3. Progress(p)
  <2>1. CallOK([pc |-> "flushpoint", ev |-> None, loc |-> 0, todo |-> FlushOrder],
               store', log', synced')
    BY DEF CallOK, DeletePcs
  <2>2. At(p, "flushpoint", None, 0, FlushOrder) BY DEF Tick
  <2> QED BY <1>1, <2>1, <2>2, Advances, Places, Orders
<1>4. TypeOK' BY <1>1, <1>3, PartsAfter, PartsKept DEF Tick, Progress
<1>5. Points' /\ RecoveryOK' /\ StoreOK' BY <1>2, <1>4, Frame DEF Tick
<1>6. LogOK' BY <1>2, <1>4, Frame DEF Tick, logVars, Running, IInv, LogOK
<1> QED BY <1>1, <1>2, <1>3, <1>4, <1>5, <1>6, ProgressOK DEF IInv

(* The state of a call in progress.                                          *)
LEMMA CallFields ==
  ASSUME TCalls, NEW p \in Procs
  PROVE  /\ cl[p].pc \in PCs /\ cl[p].ev \in Ids \cup {None} /\ cl[p].loc \in Nat
         /\ cl[p].todo \in Seq(Secondaries \cup {"primary"})
BY DEF TCalls, Call_

(* The end of a write: it returns, or takes a checkpoint.                    *)
LEMMA NoteEventsWrittenInv ==
  ASSUME IInv, NEW p \in Procs, NoteEventsWritten(p)
  PROVE  IInv'
<1>1. TypeOK /\ TCalls /\ THist /\ TCount BY Parts DEF IInv
<1>2. Extends(store, store') /\ LogExtends(log, synced, log', synced') /\ synced' \in Nat
  BY <1>1, Same DEF NoteEventsWritten, logVars
<1>3. Progress(p)
  <2>1. CASE Stop(p) BY <1>1, <2>1, Stops
  <2>2. CASE At(p, "flushpoint", cl[p].ev, cl[p].loc, FlushOrder)
    <3>1. CallOK([pc |-> "flushpoint", ev |-> cl[p].ev, loc |-> cl[p].loc,
                  todo |-> FlushOrder], store', log', synced')
      BY DEF CallOK, DeletePcs
    <3> QED BY <1>1, <2>2, <3>1, CallFields, Advances, Places, Orders, Zenon
  <2> QED BY <2>1, <2>2 DEF NoteEventsWritten
<1>4. THist' BY <1>1 DEF NoteEventsWritten, THist, Ack
<1>5. TCount' BY <1>1 DEF NoteEventsWritten, TCount
<1>6. TypeOK'
  BY <1>1, <1>3, <1>4, <1>5, PartsAfter, PartsKept DEF NoteEventsWritten, Progress
<1>7. Points' /\ RecoveryOK' /\ StoreOK' BY <1>2, <1>6, Frame, Zenon DEF NoteEventsWritten
<1>8. LogOK' BY <1>2, <1>6, Frame, Zenon DEF NoteEventsWritten, logVars, Running, IInv, LogOK
<1> QED BY <1>2, <1>3, <1>6, <1>7, <1>8, ProgressOK DEF IInv

(* The end of the index flush of a checkpoint, or of Flush.                  *)
LEMMA FlushDoneInv ==
  ASSUME IInv, NEW p \in Procs, FlushDone(p)
  PROVE  IInv'
<1>1. TypeOK /\ TCalls BY Parts DEF IInv
<1>2. Extends(store, store') /\ LogExtends(log, synced, log', synced') /\ synced' \in Nat
  BY <1>1, Same DEF FlushDone, logVars
<1>3. Progress(p)
  <2>1. CASE Stop(p) BY <1>1, <2>1, Stops
  <2>2. CASE Goto(p, "cklog")
    <3>1. CallOK([pc |-> "cklog", ev |-> cl[p].ev, loc |-> cl[p].loc, todo |-> cl[p].todo],
                 store', log', synced')
      BY DEF CallOK, DeletePcs
    <3> QED BY <1>1, <2>2, <3>1, CallFields, Advances, Places, Zenon DEF Goto
  <2> QED BY <2>1, <2>2 DEF FlushDone
<1>4. TypeOK' BY <1>1, <1>3, PartsAfter, PartsKept, Zenon DEF FlushDone, Progress
<1>5. Points' /\ RecoveryOK' /\ StoreOK' BY <1>2, <1>4, Frame, Zenon DEF FlushDone
<1>6. LogOK' BY <1>2, <1>4, Frame, Zenon DEF FlushDone, logVars, Running, IInv, LogOK
<1> QED BY <1>2, <1>3, <1>4, <1>5, <1>6, ProgressOK DEF IInv

(* The end of createCheckpoint.                                              *)
LEMMA StoreCheckpointLSNInv ==
  ASSUME IInv, NEW p \in Procs, StoreCheckpointLSN(p)
  PROVE  IInv'
<1>1. TypeOK /\ TCalls /\ THist /\ TCount BY Parts DEF IInv
<1>2. Extends(store, store') /\ LogExtends(log, synced, log', synced') /\ synced' \in Nat
  BY <1>1, Same, Zenon DEF StoreCheckpointLSN, logVars
<1>3. Progress(p) BY <1>1, Stops, Zenon DEF StoreCheckpointLSN
<1>4. THist' BY <1>1, Zenon DEF StoreCheckpointLSN, THist, Ack
<1>5. TCount' BY <1>1, CallFields DEF StoreCheckpointLSN, TCount
<1>6. TypeOK'
  BY <1>1, <1>3, <1>4, <1>5, PartsAfter, PartsKept DEF StoreCheckpointLSN, Progress
<1>7. Points' /\ RecoveryOK' /\ StoreOK' BY <1>2, <1>6, Frame, Zenon DEF StoreCheckpointLSN
<1>8. LogOK' BY <1>2, <1>6, Frame DEF StoreCheckpointLSN, logVars, Running, IInv, LogOK
<1> QED BY <1>2, <1>3, <1>6, <1>7, <1>8, ProgressOK DEF IInv

(* The end of DeleteEvent.                                                   *)
LEMMA DeleteDoneInv ==
  ASSUME IInv, NEW p \in Procs, DeleteDone(p)
  PROVE  IInv'
<1>1. TypeOK /\ TCalls /\ THist /\ cl[p].ev \in Ids
  BY Parts, Zenon DEF IInv, CallsOK, CallOK, DeleteDone, DeletePcs
<1>2. Extends(store, store') /\ LogExtends(log, synced, log', synced') /\ synced' \in Nat
  BY <1>1, Same, Zenon DEF DeleteDone, logVars
<1>3. Progress(p) BY <1>1, Stops DEF DeleteDone
<1>4. THist' BY <1>1 DEF DeleteDone, THist
<1>5. TypeOK' BY <1>1, <1>3, <1>4, PartsAfter, PartsKept, Zenon DEF DeleteDone, Progress
<1>6. Points' /\ RecoveryOK' /\ StoreOK' BY <1>2, <1>5, Frame DEF DeleteDone
<1>7. LogOK' BY <1>2, <1>5, Frame DEF DeleteDone, logVars, Running, IInv, LogOK
<1> QED BY <1>2, <1>3, <1>5, <1>6, <1>7, ProgressOK DEF IInv

(* What an entry appended to the log changes.                                *)
LEMMA LogGrows ==
  ASSUME IInv, NEW x \in Entry, log' = Append(log, x), UNCHANGED store,
         synced' \in {synced, Len(log) + 1}, header' \in {header, synced'},
         x.op = "delete" => x.loc \in DOMAIN store
  PROVE  /\ TLog' /\ LogExtends(log, synced, log', synced') /\ synced' \in Nat
         /\ Running' \/ synced' = Len(log) + 1 => LogOK'
         /\ synced' = Len(log) + 1 /\ x.op = "insert" => Inserted(log', synced', x.ev)
         /\ synced' = Len(log) + 1 /\ x.op = "delete" => Deleted(log', synced', x.loc)
<1>1. TLog BY Parts DEF IInv
<1>2. /\ log' \in Seq(Entry) /\ Len(log') = Len(log) + 1 /\ log'[Len(log) + 1] = x
      /\ \A k \in 1..Len(log) : log'[k] = log[k]
  BY <1>1 DEF TLog
<1>3. TLog' /\ LogExtends(log, synced, log', synced') /\ synced' \in Nat
  BY <1>1, <1>2 DEF TLog, LogExtends
<1>4. ASSUME Running' \/ synced' = Len(log) + 1 PROVE LogOK'
  <2>1. \A k \in DOMAIN log' : log'[k].op = "delete" => log'[k].loc \in DOMAIN store'
    BY <1>1, <1>2 DEF IInv, LogOK, TLog
  <2> QED BY <1>2, <1>4, <2>1 DEF LogOK
<1>5. Len(log) + 1 \in 1..(Len(log) + 1) BY <1>1 DEF TLog
<1> QED BY <1>2, <1>3, <1>4, <1>5 DEF Inserted, Deleted

(* A step that logs entry x and goes on at l, or fails and returns.          *)
LEMMA LogStep ==
  ASSUME IInv, NEW p \in Procs, NEW x \in Entry, NEW l \in PCs,
         \/ Running /\ Append2Log(x) /\ Goto(p, l) /\ UNCHANGED faults
         \/ LogFails(x) /\ Stop(p),
         UNCHANGED <<store, indexVars, fileVars, up, recoveryVars, countVars, histVars, calls,
                     opens, crashes, damages>>,
         x.op = "delete" => x.loc \in DOMAIN store,
         Goto(p, l) /\ (Durable => synced' = Len(log) + 1)
           /\ LogExtends(log, synced, log', synced') /\ synced' \in Nat
           /\ (Durable /\ x.op = "insert" => Inserted(log', synced', x.ev))
           /\ (Durable /\ x.op = "delete" => Deleted(log', synced', x.loc))
         => CallOK([pc |-> l, ev |-> cl[p].ev, loc |-> cl[p].loc, todo |-> cl[p].todo],
                   store', log', synced')
  PROVE  IInv'
<1>1. TypeOK /\ TCalls /\ TLog /\ TBound BY Parts, Zenon DEF IInv
<1>2. TBound' BY <1>1, FaultBound, Zenon DEF LogFails, Fails
<1>3. Extends(store, store') BY <1>1, Same, Zenon
<1>4. (Running)' <=> Running BY Zenon DEF Running
<1>5. CASE Running /\ Append2Log(x) /\ Goto(p, l)
  <2>1. synced' \in {synced, Len(log) + 1} /\ header' \in {header, synced'}
    BY <1>5, Zenon DEF Append2Log
  <2>2. /\ TLog' /\ LogExtends(log, synced, log', synced') /\ synced' \in Nat /\ LogOK'
        /\ synced' = Len(log) + 1 /\ x.op = "insert" => Inserted(log', synced', x.ev)
        /\ synced' = Len(log) + 1 /\ x.op = "delete" => Deleted(log', synced', x.loc)
    BY <1>4, <1>5, <2>1, LogGrows, Zenon DEF Append2Log
  <2>3. Durable => synced' = Len(log) + 1 BY <1>5, Zenon DEF Append2Log, Durable
  <2>4. Progress(p)
    <3>1. CallOK([pc |-> l, ev |-> cl[p].ev, loc |-> cl[p].loc, todo |-> cl[p].todo],
                 store', log', synced')
      BY <1>5, <2>2, <2>3, Zenon
    <3> QED BY <1>1, <1>5, <3>1, CallFields, Advances, Zenon DEF Goto
  <2>5. TypeOK' BY <1>1, <1>2, <2>2, <2>4, PartsAfter, PartsKept, Zenon DEF Progress
  <2>6. Points' /\ RecoveryOK' /\ StoreOK' BY <1>3, <2>2, <2>5, Frame, Zenon
  <2> QED BY <1>3, <2>2, <2>4, <2>5, <2>6, ProgressOK, Zenon DEF IInv
<1>6. CASE LogFails(x) /\ Stop(p)
  <2>1. /\ TLog' /\ LogExtends(log, synced, log', synced') /\ synced' \in Nat
    <3>1. CASE UNCHANGED log
      BY <1>1, <1>6, <3>1, Same, PartsKept, Zenon DEF LogFails, logVars
    <3>2. CASE log' = Append(log, x)
      BY <1>6, <3>2, LogGrows, Zenon DEF LogFails
    <3> QED BY <1>6, <3>1, <3>2, Zenon DEF LogFails
  <2>2. Progress(p) BY <1>1, <1>6, Stops, Zenon
  <2>3. TypeOK' BY <1>1, <1>2, <2>1, <2>2, PartsAfter, PartsKept, Zenon DEF Progress
  <2>4. Points' /\ RecoveryOK' /\ StoreOK' BY <1>3, <2>1, <2>3, Frame, Zenon
  <2>5. LogOK'
    <3>1. CASE UNCHANGED log
      BY <1>3, <1>4, <1>6, <2>1, <2>3, <3>1, Frame, Zenon DEF LogFails, IInv, LogOK
    <3>2. CASE log' = Append(log, x) /\ Running
      BY <1>4, <1>6, <3>2, LogGrows, Zenon DEF LogFails
    <3> QED BY <1>6, <3>1, <3>2, Zenon DEF LogFails
  <2> QED BY <1>3, <2>1, <2>2, <2>3, <2>4, <2>5, ProgressOK, Zenon DEF IInv
<1> QED BY <1>5, <1>6, Zenon

(* WriteEvent logs the event before it stores it.                            *)
LEMMA LogInsertInv ==
  ASSUME IInv, NEW p \in Procs, LogInsert(p)
  PROVE  IInv'
<1> DEFINE x == [op |-> "insert", ev |-> cl[p].ev, loc |-> 0]
<1>1. TCalls /\ cl[p].ev \in Ids BY Parts, Zenon DEF IInv, CallsOK, CallOK, LogInsert
<1>2. x \in Entry BY <1>1 DEF Entry
<1>3. ASSUME Durable => Inserted(log', synced', cl[p].ev)
      PROVE  CallOK([pc |-> "append", ev |-> cl[p].ev, loc |-> cl[p].loc,
                     todo |-> cl[p].todo], store', log', synced')
  BY <1>1, <1>3 DEF CallOK, DeletePcs
<1>4. x.op = "insert" /\ x.ev = cl[p].ev OBVIOUS
<1>5. /\ \/ Running /\ Append2Log(x) /\ Goto(p, "append") /\ UNCHANGED faults
         \/ LogFails(x) /\ Stop(p)
      /\ UNCHANGED <<store, indexVars, fileVars, up, recoveryVars, countVars, histVars, calls,
                     opens, crashes, damages>>
  BY Zenon DEF LogInsert
<1> HIDE DEF x
<1> QED BY <1>2, <1>3, <1>4, <1>5, LogStep, Places, Zenon

(* DeleteEvent logs the location before it flags the record.                 *)
LEMMA LogDeleteInv ==
  ASSUME IInv, NEW p \in Procs, LogDelete(p)
  PROVE  IInv'
<1> DEFINE x == [op |-> "delete", ev |-> None, loc |-> cl[p].loc]
<1>1. TCalls /\ cl[p].ev \in Ids /\ Holds(store, cl[p].loc, cl[p].ev)
  BY Parts, Zenon DEF IInv, CallsOK, CallOK, LogDelete, DeletePcs
<1>2. x \in Entry BY <1>1, CallFields DEF Entry
<1>3. UNCHANGED store BY DEF LogDelete
<1>4. ASSUME Durable => Deleted(log', synced', cl[p].loc)
      PROVE  CallOK([pc |-> "dflag", ev |-> cl[p].ev, loc |-> cl[p].loc,
                     todo |-> cl[p].todo], store', log', synced')
  BY <1>1, <1>3, <1>4 DEF CallOK, DeletePcs
<1>5. x.op = "delete" /\ x.loc = cl[p].loc OBVIOUS
<1>6. /\ \/ Running /\ Append2Log(x) /\ Goto(p, "dflag") /\ UNCHANGED faults
         \/ LogFails(x) /\ Stop(p)
      /\ UNCHANGED <<store, indexVars, fileVars, up, recoveryVars, countVars, histVars, calls,
                     opens, crashes, damages>>
  BY DEF LogDelete
<1>7. x.loc \in DOMAIN store BY <1>1, <1>5 DEF Holds
<1> HIDE DEF x
<1> QED BY <1>2, <1>4, <1>5, <1>6, <1>7, LogStep, Places, Zenon

(* Writer.CreateCheckpoint: the log grows and is flushed, then the header.   *)
LEMMA CheckpointLogged ==
  ASSUME IInv, LogCheckpoint, UNCHANGED store
  PROVE  TLog' /\ LogExtends(log, synced, log', synced') /\ synced' \in Nat /\ LogOK'
<1>1. CheckpointEntry \in Entry /\ CheckpointEntry.op # "delete" BY DEF Entry, CheckpointEntry
<1> QED BY <1>1, LogGrows DEF LogCheckpoint

(* A checkpoint that fails.                                                  *)
LEMMA CheckpointNotLogged ==
  ASSUME IInv, NEW isOpen, CheckpointFails(isOpen), UNCHANGED store,
         isOpen => Running', ~Running' => ~Running
  PROVE  TLog' /\ LogExtends(log, synced, log', synced') /\ synced' \in Nat /\ LogOK'
<1>1. TypeOK /\ TLog BY Parts DEF IInv
<1>2. CASE UNCHANGED <<log, synced>>
  <2>1. TLog' BY <1>1, <1>2 DEF CheckpointFails, TLog
  <2>2. LogExtends(log, synced, log', synced') /\ synced' \in Nat BY <1>1, <1>2, Same
  <2>3. LogOK' BY <1>2 DEF IInv, LogOK
  <2> QED BY <2>1, <2>2, <2>3
<1>3. CASE log' = Append(log, CheckpointEntry) /\ synced' \in {synced, Len(log) + 1} /\ Running'
  <2>1. CheckpointEntry \in Entry /\ CheckpointEntry.op # "delete" BY DEF Entry, CheckpointEntry
  <2> QED BY <1>3, <2>1, LogGrows DEF CheckpointFails
<1> QED BY <1>2, <1>3 DEF CheckpointFails

(* createCheckpoint logs the checkpoint.                                     *)
LEMMA CreateCheckpointInv ==
  ASSUME IInv, NEW p \in Procs, CreateCheckpoint(p)
  PROVE  IInv'
<1>1. TypeOK /\ TCalls /\ THist /\ TBound /\ TLog BY Parts DEF IInv
<1>2. Extends(store, store') BY <1>1, Same DEF CreateCheckpoint
<1>3. TBound' BY <1>1, FaultBound, Zenon DEF CreateCheckpoint, Fails
<1>4. THist' BY <1>1 DEF CreateCheckpoint, Ack, THist
<1>5. /\ TLog' /\ LogExtends(log, synced, log', synced') /\ synced' \in Nat
      /\ LogOK' /\ Progress(p)
  <2>1. CASE LogCheckpoint /\ At(p, "ckstore", cl[p].ev, Len(log) + 1, <<>>)
    <3>1. TLog' /\ LogExtends(log, synced, log', synced') /\ synced' \in Nat /\ LogOK'
      BY <2>1, CheckpointLogged DEF CreateCheckpoint
    <3>2. Len(log) + 1 \in Nat BY <1>1 DEF TLog
    <3>3. CallOK([pc |-> "ckstore", ev |-> cl[p].ev, loc |-> Len(log) + 1, todo |-> <<>>],
                 store', log', synced')
      BY DEF CallOK, DeletePcs
    <3>4. Progress(p) BY <1>1, <2>1, <3>2, <3>3, CallFields, Advances, Places, Zenon
    <3> QED BY <3>1, <3>4
  <2>2. CASE Stop(p) /\ CheckpointFails(Running)
    <3>1. TLog' /\ LogExtends(log, synced, log', synced') /\ synced' \in Nat /\ LogOK'
      BY <2>2, CheckpointNotLogged, Zenon DEF CreateCheckpoint, Running
    <3>2. Progress(p) BY <1>1, <2>2, Stops
    <3> QED BY <3>1, <3>2
  <2> QED BY <2>1, <2>2, Zenon DEF CreateCheckpoint
<1>6. TypeOK' BY <1>1, <1>3, <1>4, <1>5, PartsAfter, PartsKept, Zenon DEF CreateCheckpoint, Progress
<1>7. Points' /\ RecoveryOK' /\ StoreOK' BY <1>2, <1>5, <1>6, Frame, Zenon DEF CreateCheckpoint
<1> QED BY <1>2, <1>5, <1>6, <1>7, ProgressOK DEF IInv

(* An index that is flushed.                                                 *)
LEMMA FlushIndexFacts ==
  ASSUME IInv, NEW i \in Secondaries \cup {"primary"}, FlushIndex(i),
         UNCHANGED <<store, primary, sec>>
  PROVE  TIndex' /\ Points'
<1>1. TIndex /\ Points BY Parts DEF IInv
<1>2. CASE i = "primary"
  <2>1. primaryDisk' = primary /\ UNCHANGED secDisk BY <1>2 DEF FlushIndex
  <2>2. TIndex' BY <1>1, <2>1 DEF TIndex
  <2>3. /\ PointsP(store, primary') /\ PointsP(store, primaryDisk')
        /\ PointsS(store, sec') /\ PointsS(store, secDisk')
    BY <1>1, <2>1, Zenon DEF Points
  <2> QED BY <2>2, <2>3, PointsEach, Zenon
<1>3. CASE i # "primary"
  <2>1. secDisk' = [secDisk EXCEPT ![i] = sec[i]] /\ UNCHANGED primaryDisk
    BY <1>3 DEF FlushIndex
  <2>2. TIndex' BY <1>1, <1>3, <2>1 DEF TIndex
  <2>3. PointsS(store, secDisk')
    BY <1>1, <1>3, <2>1 DEF TIndex, Points, PointsS
  <2>4. PointsP(store, primary') /\ PointsP(store, primaryDisk') /\ PointsS(store, sec')
    BY <1>1, <2>1, Zenon DEF Points
  <2> QED BY <2>2, <2>3, <2>4, PointsEach, Zenon
<1> QED BY <1>2, <1>3

(* The log and the record store as they were.                                *)
LEMMA LogKept ==
  ASSUME IInv, TypeOK', UNCHANGED <<logVars, store, up>>
  PROVE  /\ Extends(store, store') /\ LogExtends(log, synced, log', synced')
         /\ synced' \in Nat /\ LogOK' /\ StoreOK'
         /\ UNCHANGED recoveryVars => RecoveryOK'
<1>1. TypeOK BY DEF IInv
<1>2. /\ Extends(store, store') /\ LogExtends(log, synced, log', synced')
      /\ synced' \in Nat
  BY <1>1, Same DEF logVars
<1>3. LogOK' BY DEF IInv, LogOK, logVars, Running
<1> QED BY <1>2, <1>3, Frame

(* manager.Flush, one index at a time.                                       *)
LEMMA FlushNextInv ==
  ASSUME IInv, NEW p \in Procs, FlushNext(p)
  PROVE  IInv'
<1>1. TypeOK /\ TCalls /\ THist /\ TBound BY Parts DEF IInv
<1>2. cl[p].todo \in Seq(Secondaries \cup {"primary"}) /\ cl[p].todo # <<>>
  BY <1>1, CallFields DEF FlushNext
<1>3. /\ Head(cl[p].todo) \in Secondaries \cup {"primary"}
      /\ Tail(cl[p].todo) \in Seq(Secondaries \cup {"primary"})
  BY <1>2, HeadTailProperties, Zenon
<1>4. TBound' BY <1>1, FaultBound, Zenon DEF FlushNext, Fails
<1>5. THist' BY <1>1 DEF FlushNext, Ack, THist
<1>6. Progress(p)
  <2>1. CASE Loop(p)
    <3>1. CallOK([pc |-> cl[p].pc, ev |-> cl[p].ev, loc |-> cl[p].loc,
                  todo |-> Tail(cl[p].todo)], store', log', synced')
      BY Zenon DEF CallOK, DeletePcs, FlushNext
    <3> QED BY <1>1, <1>3, <2>1, <3>1, CallFields, Advances, Zenon DEF Loop
  <2>2. CASE Stop(p) BY <1>1, <2>2, Stops
  <2> QED BY <2>1, <2>2 DEF FlushNext
<1>7. TIndex' /\ Points'
  <2>1. CASE FlushIndex(Head(cl[p].todo))
    BY <1>3, <2>1, FlushIndexFacts DEF FlushNext
  <2>2. CASE UNCHANGED <<primaryDisk, secDisk>>
    <3>1. UNCHANGED indexVars /\ UNCHANGED store BY <2>2 DEF FlushNext, indexVars
    <3> QED BY <1>1, <3>1, PointsKept, Zenon DEF IInv
  <2> QED BY <2>1, <2>2 DEF FlushNext
<1>8. TypeOK'
  BY <1>1, <1>4, <1>5, <1>6, <1>7, PartsAfter, PartsKept, Zenon DEF FlushNext, Progress
<1>9. /\ Extends(store, store') /\ LogExtends(log, synced, log', synced')
      /\ LogOK' /\ StoreOK' /\ RecoveryOK'
  BY <1>8, LogKept, Zenon DEF FlushNext
<1> QED BY <1>6, <1>7, <1>8, <1>9, ProgressOK DEF IInv

(* The index flusher.                                                        *)
LEMMA FlushTickInv ==
  ASSUME IInv, NEW i \in Secondaries \cup {"primary"}, FlushTick(i)
  PROVE  IInv'
<1>1. TypeOK BY DEF IInv
<1>2. TIndex' /\ Points' BY FlushIndexFacts DEF FlushTick
<1>3. TypeOK' BY <1>1, <1>2, PartsAfter, PartsKept DEF FlushTick
<1>4. /\ Extends(store, store') /\ LogExtends(log, synced, log', synced')
      /\ LogOK' /\ StoreOK' /\ RecoveryOK'
  BY <1>3, LogKept DEF FlushTick
<1>5. CallsOK' BY <1>3, <1>4, Frame DEF FlushTick
<1> QED BY <1>2, <1>3, <1>4, <1>5 DEF IInv

(* The log's ticker.                                                         *)
LEMMA SyncTickInv ==
  ASSUME IInv, SyncTick
  PROVE  IInv'
<1>1. TypeOK /\ TLog BY Parts DEF IInv
<1>2. TLog' /\ LogExtends(log, synced, log', synced') /\ synced' \in Nat
  BY <1>1 DEF SyncTick, TLog, LogExtends
<1>3. Extends(store, store') BY <1>1, Same DEF SyncTick
<1>4. TypeOK' BY <1>1, <1>2, PartsAfter, PartsKept DEF SyncTick
<1>5. Points' /\ RecoveryOK' /\ StoreOK' /\ CallsOK' BY <1>2, <1>3, <1>4, Frame DEF SyncTick
<1>6. LogOK' BY <1>2, <1>3, <1>4, Frame DEF SyncTick
<1> QED BY <1>4, <1>5, <1>6 DEF IInv

(* A record at the end of the store leaves those before it where they are.   *)
LEMMA StoreGrows ==
  ASSUME IInv, NEW e \in Ids, store' = Append(store, [id |-> e, deleted |-> FALSE])
  PROVE  /\ TStore' /\ Extends(store, store') /\ Holds(store', Len(store) + 1, e)
         /\ Len(store) + 1 \in Nat
         /\ /\ UNCHANGED <<log, synced>>
            /\ Durable => Inserted(log, synced, e)
            => StoreOK'
<1>1. TStore BY Parts DEF IInv
<1>2. [id |-> e, deleted |-> FALSE] \in [id : Ids, deleted : BOOLEAN] OBVIOUS
<1>3. /\ TStore' /\ Len(store) + 1 \in Nat /\ DOMAIN store' = 1..(Len(store) + 1)
      /\ DOMAIN store = 1..Len(store)
      /\ store'[Len(store) + 1] = [id |-> e, deleted |-> FALSE]
      /\ \A l \in DOMAIN store : store'[l] = store[l]
  BY <1>1, <1>2 DEF TStore
<1>4. Extends(store, store') /\ Holds(store', Len(store) + 1, e)
  BY <1>3 DEF Extends, Holds
<1>5. ASSUME UNCHANGED <<log, synced>>, Durable => Inserted(log, synced, e) PROVE StoreOK'
  <2> SUFFICES ASSUME Durable, NEW l \in DOMAIN store'
               PROVE  /\ Inserted(log, synced, store'[l].id)
                      /\ store'[l].deleted => Deleted(log, synced, l)
    BY <1>5 DEF StoreOK, Durable
  <2>1. CASE l = Len(store) + 1 BY <1>3, <1>5, <2>1
  <2>2. CASE l \in DOMAIN store BY <1>3, <2>2 DEF IInv, StoreOK
  <2>3. \A n \in Nat : \A k \in 1..(n + 1) : k = n + 1 \/ k \in 1..n OBVIOUS
  <2>4. Len(store) \in Nat BY <1>1 DEF TStore
  <2>5. l = Len(store) + 1 \/ l \in DOMAIN store BY <1>3, <2>3, <2>4, Zenon
  <2> QED BY <2>1, <2>2, <2>5, Zenon
<1> QED BY <1>3, <1>4, <1>5

(* WriteEvent stores the record it logged.                                   *)
LEMMA AppendRecordInv ==
  ASSUME IInv, NEW p \in Procs, AppendRecord(p)
  PROVE  IInv'
<1>1. TypeOK /\ TCalls /\ TBound BY Parts DEF IInv
<1>2. cl[p].ev \in Ids /\ (Durable => Inserted(log, synced, cl[p].ev))
  BY Zenon DEF IInv, CallsOK, CallOK, AppendRecord
<1>3. LogExtends(log, synced, log', synced') /\ synced' \in Nat
  BY <1>1, Same, Zenon DEF AppendRecord, logVars
<1>4. TBound' BY <1>1, FaultBound, Zenon DEF AppendRecord, Fails
<1>5. TStore' /\ Extends(store, store') /\ Progress(p)
  <2>1. CASE /\ store' = Append(store, [id |-> cl[p].ev, deleted |-> FALSE])
             /\ At(p, "primary", cl[p].ev, Len(store) + 1, <<>>)
    <3>1. /\ TStore' /\ Extends(store, store') /\ Len(store) + 1 \in Nat
          /\ Holds(store', Len(store) + 1, cl[p].ev)
      BY <1>2, <2>1, StoreGrows, Zenon
    <3>2. CallOK([pc |-> "primary", ev |-> cl[p].ev, loc |-> Len(store) + 1, todo |-> <<>>],
                 store', log', synced')
      BY <1>2, <3>1 DEF CallOK, DeletePcs
    <3>3. Progress(p) BY <1>1, <1>2, <2>1, <3>1, <3>2, Advances, Places, Zenon
    <3> QED BY <3>1, <3>3
  <2>2. CASE Stop(p) /\ UNCHANGED store BY <1>1, <2>2, Stops, Same, PartsKept
  <2> QED BY <2>1, <2>2 DEF AppendRecord
<1>6. TypeOK' BY <1>1, <1>4, <1>5, PartsAfter, PartsKept, Zenon DEF AppendRecord, Progress
<1>7. Points' /\ RecoveryOK' BY <1>3, <1>5, <1>6, Frame, Zenon DEF AppendRecord
<1>8. LogOK' BY <1>5, Zenon DEF AppendRecord, logVars, IInv, LogOK, Extends, Running
<1>9. StoreOK'
  <2>1. CASE store' = Append(store, [id |-> cl[p].ev, deleted |-> FALSE])
    BY <1>2, <2>1, StoreGrows, Zenon DEF AppendRecord, logVars
  <2>2. CASE UNCHANGED store BY <1>3, <1>5, <1>6, <2>2, Frame
  <2> QED BY <2>1, <2>2, Zenon DEF AppendRecord
<1> QED BY <1>3, <1>5, <1>6, <1>7, <1>8, <1>9, ProgressOK DEF IInv

(* What the store holds at a location.                                       *)
LEMMA RecordType ==
  ASSUME TStore, NEW l \in DOMAIN store
  PROVE  store[l] \in [id : Ids, deleted : BOOLEAN]
<1>1. \A S : \A s \in Seq(S) : \A k \in DOMAIN s : s[k] \in S OBVIOUS
<1> QED BY <1>1, Zenon DEF TStore

(* A record stays one when it is flagged.                                    *)
LEMMA FlaggedType ==
  ASSUME NEW r \in [id : Ids, deleted : BOOLEAN]
  PROVE  Flagged(r) \in [id : Ids, deleted : BOOLEAN] /\ Flagged(r).id = r.id
<1>1. r.id \in Ids OBVIOUS
<1>2. ASSUME NEW x \in Ids PROVE [id |-> x, deleted |-> TRUE] \in [id : Ids, deleted : BOOLEAN]
  OBVIOUS
<1> QED BY <1>1, <1>2 DEF Flagged

(* DeleteEvent flags the record whose deletion it logged.                    *)
LEMMA FlagRecordInv ==
  ASSUME IInv, NEW p \in Procs, FlagRecord(p)
  PROVE  IInv'
<1>1. TypeOK /\ TCalls /\ TBound /\ TStore BY Parts DEF IInv
<1>2. /\ cl[p].ev \in Ids /\ Holds(store, cl[p].loc, cl[p].ev)
      /\ Durable => Deleted(log, synced, cl[p].loc)
  BY Zenon DEF IInv, CallsOK, CallOK, FlagRecord, DeletePcs
<1>3. LogExtends(log, synced, log', synced') /\ synced' \in Nat
  BY <1>1, Same, Zenon DEF FlagRecord, logVars
<1>4. TBound' BY <1>1, FaultBound, Zenon DEF FlagRecord, Fails
<1>5. /\ TStore' /\ DOMAIN store' = DOMAIN store
      /\ \A l \in DOMAIN store : /\ store'[l].id = store[l].id
                                 /\ l # cl[p].loc => store'[l] = store[l]
  <2>1. CASE store' = [store EXCEPT ![cl[p].loc] = Flagged(@)]
    <3>1. cl[p].loc \in DOMAIN store BY <1>2 DEF Holds
    <3>2. Flagged(store[cl[p].loc]) \in [id : Ids, deleted : BOOLEAN]
      BY <1>1, <3>1, RecordType, FlaggedType
    <3>3. TStore' BY <1>1, <2>1, <3>1, <3>2 DEF TStore
    <3>4. /\ DOMAIN store' = DOMAIN store
          /\ \A l \in DOMAIN store : l # cl[p].loc => store'[l] = store[l]
          /\ store'[cl[p].loc].id = store[cl[p].loc].id
      BY <1>1, <2>1, <3>1 DEF TStore, Flagged
    <3> QED BY <3>3, <3>4, Zenon
  <2>2. CASE UNCHANGED store BY <1>1, <2>2, PartsKept, Zenon
  <2> QED BY <2>1, <2>2, Zenon DEF FlagRecord
<1>6. Extends(store, store') BY <1>5 DEF Extends
<1>7. Progress(p)
  <2>1. CASE Goto(p, "dprimary")
    <3>1. CallOK([pc |-> "dprimary", ev |-> cl[p].ev, loc |-> cl[p].loc,
                  todo |-> cl[p].todo], store', log', synced')
      BY <1>2, <1>6, Zenon DEF CallOK, DeletePcs, Holds, Extends
    <3> QED BY <1>1, <2>1, <3>1, CallFields, Advances, Places, Zenon DEF Goto
  <2>2. CASE Stop(p) BY <1>1, <2>2, Stops
  <2> QED BY <2>1, <2>2, Zenon DEF FlagRecord
<1>8. TypeOK' BY <1>1, <1>4, <1>5, <1>7, PartsAfter, PartsKept, Zenon DEF FlagRecord, Progress
<1>9. Points' /\ RecoveryOK' BY <1>3, <1>6, <1>8, Frame, Zenon DEF FlagRecord
<1>10. LogOK' BY <1>6, Zenon DEF FlagRecord, logVars, IInv, LogOK, Extends, Running
<1>11. StoreOK'
  BY <1>2, <1>5, Zenon DEF FlagRecord, logVars, IInv, StoreOK, Durable
<1> QED BY <1>3, <1>6, <1>7, <1>8, <1>9, <1>10, <1>11, ProgressOK DEF IInv

(* The entries of one event are changed in the primary index.                *)
LEMMA PrimaryEntry ==
  ASSUME NEW s, NEW f \in [Ids -> Seq(Nat)], PointsP(s, f), NEW e \in Ids,
         NEW q \in Seq(Nat), \A k \in DOMAIN q : Holds(s, q[k], e)
  PROVE  /\ [f EXCEPT ![e] = q] \in [Ids -> Seq(Nat)]
         /\ PointsP(s, [f EXCEPT ![e] = q])
BY DEF PointsP

(* One secondary index is changed.                                           *)
LEMMA OneSecondary ==
  ASSUME TIndex, PointsS(store, sec), NEW i \in Secondaries, NEW e \in Ids, NEW T \in SUBSET Nat,
         \A l \in T : Holds(store, l, e), sec' = [sec EXCEPT ![i][e] = T]
  PROVE  sec' \in [Secondaries -> [Ids -> SUBSET Nat]] /\ PointsS(store, sec')
<1>1. sec \in [Secondaries -> [Ids -> SUBSET Nat]] BY DEF TIndex
<1>2. sec[i] \in [Ids -> SUBSET Nat] BY <1>1
<1>3. sec' = [sec EXCEPT ![i] = [sec[i] EXCEPT ![e] = T]] OBVIOUS
<1>4. [sec[i] EXCEPT ![e] = T] \in [Ids -> SUBSET Nat] BY <1>2
<1>5. sec' \in [Secondaries -> [Ids -> SUBSET Nat]] BY <1>1, <1>3, <1>4
<1>6. ASSUME NEW j \in Secondaries, NEW x \in Ids, NEW l \in sec'[j][x] PROVE Holds(store, l, x)
  <2>1. CASE j = i /\ x = e BY <1>1, <1>2, <1>3, <1>6, <2>1
  <2>2. CASE j = i /\ x # e BY <1>1, <1>2, <1>3, <1>6, <2>2 DEF PointsS
  <2>3. CASE j # i BY <1>1, <1>3, <1>6, <2>3 DEF PointsS
  <2> QED BY <2>1, <2>2, <2>3
<1> QED BY <1>5, <1>6 DEF PointsS

(* The indexes are correct when each of them is.                             *)
LEMMA IndexesOK ==
  ASSUME IInv, UNCHANGED <<store, primaryDisk, secDisk>>,
         primary' \in [Ids -> Seq(Nat)], PointsP(store, primary'),
         sec' \in [Secondaries -> [Ids -> SUBSET Nat]], PointsS(store, sec')
  PROVE  TIndex' /\ Points'
<1>1. TIndex /\ Points BY Parts DEF IInv
<1>2. TIndex' BY <1>1 DEF TIndex
<1>3. PointsP(store, primaryDisk') /\ PointsS(store, secDisk')
  BY <1>1, Zenon DEF Points
<1> QED BY <1>2, <1>3, PointsEach, Zenon

(* A step of call p that changes the indexes in memory.                      *)
LEMMA IndexStep ==
  ASSUME IInv, NEW p \in Procs, Progress(p), TIndex', Points', TBound', THist',
         UNCHANGED <<logVars, store, fileVars, up, recoveryVars, countVars>>
  PROVE  IInv'
<1>1. TypeOK BY DEF IInv
<1>2. TypeOK' BY <1>1, PartsAfter, PartsKept DEF Progress
<1>3. /\ Extends(store, store') /\ LogExtends(log, synced, log', synced')
      /\ LogOK' /\ StoreOK' /\ RecoveryOK'
  BY <1>2, LogKept
<1> QED BY <1>2, <1>3, ProgressOK DEF IInv

(* WriteEvent adds the new record to the primary index.                      *)
LEMMA InsertPrimaryInv ==
  ASSUME IInv, NEW p \in Procs, InsertPrimary(p)
  PROVE  IInv'
<1>1. TypeOK /\ TCalls /\ TBound /\ THist /\ TIndex /\ Points BY Parts DEF IInv
<1>2. cl[p].ev \in Ids /\ Holds(store, cl[p].loc, cl[p].ev) /\ cl[p].loc \in Nat
  BY <1>1, CallFields, Zenon DEF IInv, CallsOK, CallOK, InsertPrimary
<1>3. TBound' BY <1>1, FaultBound, Zenon DEF InsertPrimary, Fails
<1>4. THist' BY <1>1, Zenon DEF InsertPrimary, Ack, THist
<1>5. CASE /\ primary' = [primary EXCEPT ![cl[p].ev] = InsertLoc(@, cl[p].loc)]
           /\ At(p, "secondary", cl[p].ev, cl[p].loc, InsertOrder)
  <2> DEFINE q == InsertLoc(primary[cl[p].ev], cl[p].loc)
  <2>1. primary \in [Ids -> Seq(Nat)] /\ PointsP(store, primary) BY <1>1 DEF TIndex, Points
  <2>2. q \in Seq(Nat) /\ \A k \in DOMAIN q : Holds(store, q[k], cl[p].ev)
    <3>1. /\ primary[cl[p].ev] \in Seq(Nat)
          /\ \A k \in DOMAIN primary[cl[p].ev] : Holds(store, primary[cl[p].ev][k], cl[p].ev)
      BY <1>2, <2>1 DEF PointsP
    <3> QED BY <1>2, <3>1, InsertLocFacts, Zenon
  <2>3. primary' = [primary EXCEPT ![cl[p].ev] = q] BY <1>5
  <2> HIDE DEF q
  <2>4. primary' \in [Ids -> Seq(Nat)] /\ PointsP(store, primary')
    BY <1>2, <2>1, <2>2, <2>3, PrimaryEntry, Zenon
  <2>5. TIndex' /\ Points'
    BY <1>1, <2>4, IndexesOK, Zenon DEF InsertPrimary, TIndex, Points
  <2>6. CallOK([pc |-> "secondary", ev |-> cl[p].ev, loc |-> cl[p].loc,
                todo |-> InsertOrder], store', log', synced')
    BY <1>2, Orders, Zenon DEF CallOK, DeletePcs, InsertPrimary
  <2>7. InsertOrder \in Seq(Secondaries \cup {"primary"}) BY Orders
  <2>8. Progress(p) BY <1>1, <1>2, <1>5, <2>6, <2>7, Advances, Places, Zenon
  <2> QED BY <1>3, <1>4, <2>5, <2>8, IndexStep, Zenon DEF InsertPrimary
<1>6. CASE Stop(p) /\ UNCHANGED primary
  <2>1. UNCHANGED indexVars /\ UNCHANGED store BY <1>6, Zenon DEF InsertPrimary, indexVars
  <2>2. TIndex' /\ Points'
    BY <1>1, <2>1, PointsKept, Zenon
  <2> QED BY <1>1, <1>3, <1>4, <1>6, <2>2, IndexStep, Stops, Zenon DEF InsertPrimary
<1> QED BY <1>5, <1>6, Zenon DEF InsertPrimary

(* A call that goes on with the next secondary index.                        *)
LEMMA NextSecondary ==
  ASSUME IInv, NEW p \in Procs, cl[p].pc \in {"secondary", "dsecondary"},
         cl[p].todo # <<>>, Loop(p), UNCHANGED <<logVars, store>>
  PROVE  /\ Progress(p) /\ Head(cl[p].todo) \in Secondaries /\ cl[p].ev \in Ids
         /\ Holds(store, cl[p].loc, cl[p].ev) /\ cl[p].loc \in Nat
<1>1. TCalls BY Parts, Zenon DEF IInv
<1>2. /\ cl[p].ev \in Ids /\ Holds(store, cl[p].loc, cl[p].ev)
      /\ cl[p].todo \in Seq(Secondaries)
  BY Zenon DEF IInv, CallsOK, CallOK, DeletePcs
<1>3. /\ Head(cl[p].todo) \in Secondaries /\ Tail(cl[p].todo) \in Seq(Secondaries)
      /\ Tail(cl[p].todo) \in Seq(Secondaries \cup {"primary"})
  <2>1. Head(cl[p].todo) \in Secondaries /\ Tail(cl[p].todo) \in Seq(Secondaries)
    BY <1>2, HeadTailProperties, Zenon
  <2>2. cl[p].todo \in Seq(Secondaries \cup {"primary"}) BY <1>1, CallFields, Zenon
  <2>3. Tail(cl[p].todo) \in Seq(Secondaries \cup {"primary"})
    BY <2>2, HeadTailProperties, Zenon
  <2> QED BY <2>1, <2>3
<1>4. CallOK([pc |-> cl[p].pc, ev |-> cl[p].ev, loc |-> cl[p].loc,
              todo |-> Tail(cl[p].todo)], store', log', synced')
  BY <1>2, <1>3, Zenon DEF CallOK
<1>5. Progress(p) BY <1>1, <1>3, <1>4, CallFields, Advances, Zenon DEF Loop
<1> QED BY <1>1, <1>2, <1>3, <1>5, CallFields, Zenon

(* WriteEvent adds the new record to a secondary index.                      *)
LEMMA InsertSecondaryInv ==
  ASSUME IInv, NEW p \in Procs, InsertSecondary(p)
  PROVE  IInv'
<1> DEFINE i == Head(cl[p].todo)
           e == cl[p].ev
           T == sec[i][e] \cup {cl[p].loc}
<1>1. TypeOK /\ TBound /\ TIndex /\ Points BY Parts DEF IInv
<1>2. /\ Progress(p) /\ i \in Secondaries /\ e \in Ids
      /\ Holds(store, cl[p].loc, e) /\ cl[p].loc \in Nat
  BY NextSecondary DEF InsertSecondary
<1>3. TBound' BY <1>1, FaultBound, Zenon DEF InsertSecondary, Fails
<1>4. THist' BY <1>1, PartsKept DEF InsertSecondary
<1>5. \/ sec' = [sec EXCEPT ![i][e] = T]
      \/ UNCHANGED sec
  BY DEF InsertSecondary
<1>6. T \in SUBSET Nat /\ \A l \in T : Holds(store, l, e)
  BY <1>1, <1>2, Zenon DEF TIndex, Points, PointsS
<1> HIDE DEF T, i, e
<1>7. sec' \in [Secondaries -> [Ids -> SUBSET Nat]] /\ PointsS(store, sec')
  BY <1>1, <1>2, <1>5, <1>6, OneSecondary, Zenon DEF TIndex, Points
<1>8. TIndex' /\ Points' BY <1>1, <1>7, IndexesOK, Zenon DEF InsertSecondary, TIndex, Points
<1> QED BY <1>2, <1>3, <1>4, <1>8, IndexStep DEF InsertSecondary

(* DeleteEvent removes the event from the primary index.                     *)
LEMMA DeletePrimaryInv ==
  ASSUME IInv, NEW p \in Procs, DeletePrimary(p)
  PROVE  IInv'
<1>1. TypeOK /\ TCalls /\ TBound /\ THist /\ TIndex /\ Points BY Parts DEF IInv
<1>2. cl[p].ev \in Ids /\ Holds(store, cl[p].loc, cl[p].ev) /\ cl[p].loc \in Nat
  BY <1>1, CallFields, Zenon DEF IInv, CallsOK, CallOK, DeletePrimary, DeletePcs
<1>3. TBound' BY <1>1, FaultBound, Zenon DEF DeletePrimary, Fails
<1>4. THist' BY <1>1, PartsKept, Zenon DEF DeletePrimary
<1>5. CASE /\ primary' = [primary EXCEPT ![cl[p].ev] = DeleteFirst(@)]
           /\ At(p, "dsecondary", cl[p].ev, cl[p].loc, InsertOrder)
  <2> DEFINE q == DeleteFirst(primary[cl[p].ev])
  <2>1. primary \in [Ids -> Seq(Nat)] /\ PointsP(store, primary) BY <1>1 DEF TIndex, Points
  <2>2. q \in Seq(Nat) /\ \A k \in DOMAIN q : Holds(store, q[k], cl[p].ev)
    BY <1>2, <2>1, DeleteFirstFacts, Zenon DEF PointsP
  <2>3. primary' = [primary EXCEPT ![cl[p].ev] = q] BY <1>5
  <2> HIDE DEF q
  <2>4. primary' \in [Ids -> Seq(Nat)] /\ PointsP(store, primary')
    BY <1>2, <2>1, <2>2, <2>3, PrimaryEntry, Zenon
  <2>5. TIndex' /\ Points'
    BY <1>1, <2>4, IndexesOK, Zenon DEF DeletePrimary, TIndex, Points
  <2>6. CallOK([pc |-> "dsecondary", ev |-> cl[p].ev, loc |-> cl[p].loc,
                todo |-> InsertOrder], store', log', synced')
    BY <1>2, Orders, Zenon DEF CallOK, DeletePcs, DeletePrimary
  <2>7. InsertOrder \in Seq(Secondaries \cup {"primary"}) BY Orders
  <2>8. Progress(p) BY <1>1, <1>2, <1>5, <2>6, <2>7, Advances, Places, Zenon
  <2> QED BY <1>3, <1>4, <2>5, <2>8, IndexStep, Zenon DEF DeletePrimary
<1>6. CASE Stop(p) /\ UNCHANGED primary
  <2>1. UNCHANGED indexVars /\ UNCHANGED store BY <1>6, Zenon DEF DeletePrimary, indexVars
  <2>2. TIndex' /\ Points'
    BY <1>1, <2>1, PointsKept, Zenon
  <2> QED BY <1>1, <1>3, <1>4, <1>6, <2>2, IndexStep, Stops, Zenon DEF DeletePrimary
<1> QED BY <1>5, <1>6, Zenon DEF DeletePrimary

(* DeleteEvent removes the event from a secondary index.                     *)
LEMMA DeleteSecondaryInv ==
  ASSUME IInv, NEW p \in Procs, DeleteSecondary(p)
  PROVE  IInv'
<1> DEFINE i == Head(cl[p].todo)
           e == cl[p].ev
           T == sec[i][e] \ {cl[p].loc}
<1>1. TypeOK /\ TBound /\ TIndex /\ Points BY Parts DEF IInv
<1>2. /\ Progress(p) /\ i \in Secondaries /\ e \in Ids
  BY NextSecondary DEF DeleteSecondary
<1>3. TBound' BY <1>1, FaultBound, Zenon DEF DeleteSecondary, Fails
<1>4. THist' BY <1>1, PartsKept DEF DeleteSecondary
<1>5. \/ sec' = [sec EXCEPT ![i][e] = T]
      \/ UNCHANGED sec
  BY DEF DeleteSecondary
<1>6. T \in SUBSET Nat /\ \A l \in T : Holds(store, l, e)
  BY <1>1, <1>2, Zenon DEF TIndex, Points, PointsS
<1> HIDE DEF T, i, e
<1>7. sec' \in [Secondaries -> [Ids -> SUBSET Nat]] /\ PointsS(store, sec')
  BY <1>1, <1>2, <1>5, <1>6, OneSecondary, Zenon DEF TIndex, Points
<1>8. TIndex' /\ Points' BY <1>1, <1>7, IndexesOK, Zenon DEF DeleteSecondary, TIndex, Points
<1> QED BY <1>2, <1>3, <1>4, <1>8, IndexStep DEF DeleteSecondary

=============================================================================
