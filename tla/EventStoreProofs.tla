-------------------------- MODULE EventStoreProofs --------------------------
(* Located and WriteAhead hold of EventStore for any number of clients,      *)
(* events, crashes and faults: Close, crashes and recovery keep the          *)
(* invariant of EventStoreCalls too.                                         *)
EXTENDS EventStoreCalls

-----------------------------------------------------------------------------
(* Close, crash, Open                                                        *)

(* The indexes when those on disk become those in memory.                    *)
LEMMA WrittenOut ==
  ASSUME IInv, UNCHANGED store,
         primaryDisk' \in {primary, primaryDisk}, secDisk' \in {sec, secDisk},
         primary' \in {primary, NoPrimary}, sec' \in {sec, NoSec}
  PROVE  TIndex' /\ Points'
<1>1. TIndex /\ Points BY Parts DEF IInv
<1>2. TIndex' BY <1>1, Empty, Zenon DEF TIndex
<1>3. /\ PointsP(store, primary') /\ PointsP(store, primaryDisk')
      /\ PointsS(store, sec') /\ PointsS(store, secDisk')
  BY <1>1, Empty, Zenon DEF Points
<1> QED BY <1>2, <1>3, PointsEach, Zenon

(* Close flushes what it can, and removes the dirty marker with the indexes  *)
(* flushed.                                                                  *)
LEMMA CloseFlushInv ==
  ASSUME IInv, CloseFlush
  PROVE  IInv'
<1>1. TypeOK /\ TLog /\ TBound /\ TFiles BY Parts DEF IInv
<1>2. TLog' /\ LogExtends(log, synced, log', synced') /\ synced' \in Nat
  BY <1>1 DEF CloseFlush, TLog, LogExtends
<1>3. Extends(store, store') BY <1>1, Same DEF CloseFlush
<1>4. TIndex' /\ Points' BY WrittenOut DEF CloseFlush
<1>5. TFiles' BY <1>1, Zenon DEF CloseFlush, TFiles
<1>6. TBound' BY <1>1, FaultBound, Zenon DEF CloseFlush, Fails
<1>7. (up \in Phases)' BY DEF CloseFlush, Phases
<1>8. TypeOK' BY <1>1, <1>2, <1>4, <1>5, <1>6, <1>7, PartsAfter, PartsKept DEF CloseFlush
<1>9. RecoveryOK' /\ StoreOK' /\ CallsOK' BY <1>2, <1>3, <1>8, Frame DEF CloseFlush
<1>10. LogOK'
  <2>1. UNCHANGED log /\ Running' BY DEF CloseFlush, Running
  <2> QED BY <1>2, <1>3, <1>8, <2>1, Frame
<1> QED BY <1>4, <1>8, <1>9, <1>10 DEF IInv

(* Close closes the log and the indexes, which flush once more; a log that   *)
(* cannot loses its buffer, as in a crash.                                   *)
LEMMA CloseFilesInv ==
  ASSUME IInv, CloseFiles
  PROVE  IInv'
<1>1. TypeOK /\ TLog /\ TBound BY Parts DEF IInv
<1>2. TLog' /\ LogExtends(log, synced, log', synced') /\ synced' \in Nat
  <2>1. CASE UNCHANGED log /\ synced' = Len(log)
    BY <1>1, <2>1 DEF CloseFiles, TLog, LogExtends
  <2>2. CASE log' = SubSeq(log, 1, synced) /\ UNCHANGED synced
    <3>1. /\ log' \in Seq(Entry) /\ Len(log') = synced /\ synced \in Nat
          /\ \A k \in 1..synced : log'[k] = log[k]
      BY <1>1, <2>2 DEF TLog
    <3> QED BY <1>1, <2>2, <3>1 DEF CloseFiles, TLog, LogExtends
  <2> QED BY <2>1, <2>2 DEF CloseFiles
<1>3. Extends(store, store') BY <1>1, Same DEF CloseFiles
<1>4. TIndex' /\ Points' BY WrittenOut DEF CloseFiles
<1>5. (up \in Phases)' BY DEF CloseFiles, Phases
<1>9. TBound' BY <1>1, FaultBound, Zenon DEF CloseFiles, Fails
<1>6. TypeOK' BY <1>1, <1>2, <1>4, <1>5, <1>9, PartsAfter, PartsKept DEF CloseFiles
<1>7. RecoveryOK' /\ StoreOK' /\ CallsOK' BY <1>2, <1>3, <1>6, Frame DEF CloseFiles
<1>8. LogOK'
  <2>1. CASE UNCHANGED log /\ synced' = Len(log)
    BY <1>2, <1>3, <1>6, <2>1, Frame
  <2>2. CASE log' = SubSeq(log, 1, synced) /\ UNCHANGED synced
    <3>1. /\ DOMAIN log' = 1..synced /\ DOMAIN log = 1..Len(log) /\ Len(log') = synced
          /\ synced \in Nat /\ synced <= Len(log)
          /\ \A k \in 1..synced : log'[k] = log[k]
      BY <1>1, <2>2 DEF TLog
    <3>2. UNCHANGED store BY DEF CloseFiles
    <3>3. \A k \in DOMAIN log : log[k].op = "delete" => log[k].loc \in DOMAIN store
      BY DEF IInv, LogOK
    <3>4. \A k \in DOMAIN log' : log'[k].op = "delete" => log'[k].loc \in DOMAIN store'
      BY <3>1, <3>2, <3>3
    <3> QED BY <2>2, <3>1, <3>4 DEF LogOK
  <2> QED BY <2>1, <2>2 DEF CloseFiles
<1> QED BY <1>4, <1>6, <1>7, <1>8 DEF IInv

(* A crash keeps the flushed part of the log, the records and the index      *)
(* files.                                                                    *)
LEMMA CrashInv ==
  ASSUME IInv, Crash
  PROVE  IInv'
<1>1. TypeOK /\ TLog /\ TBound /\ TFiles BY Parts DEF IInv
<1>2. /\ log' \in Seq(Entry) /\ Len(log') = synced /\ synced \in Nat
      /\ \A k \in 1..synced : log'[k] = log[k]
  BY <1>1 DEF Crash, TLog
<1>3. TLog' /\ LogExtends(log, synced, log', synced') /\ synced' \in Nat
  BY <1>1, <1>2 DEF Crash, TLog, LogExtends
<1>4. Extends(store, store') BY <1>1, Same DEF Crash
<1>5. TIndex' /\ Points' BY WrittenOut DEF Crash
<1>6. TFiles' BY <1>1, Zenon DEF Crash, TFiles
<1>7. TBound' /\ (up \in Phases)' /\ TRecov' /\ TCount'
  BY <1>1 DEF Crash, TBound, Phases, TRecov, TCount
<1>8. TCalls' BY DEF Crash, TCalls, Call_, Idle, PCs
<1>9. TypeOK'
  BY <1>1, <1>3, <1>5, <1>6, <1>7, <1>8, PartsAfter, PartsKept DEF Crash
<1>10. StoreOK' BY <1>3, <1>4, <1>9, Frame DEF Crash
<1>11. RecoveryOK' BY Zenon DEF Crash, RecoveryOK
<1>12. CallsOK' BY DEF Crash, CallsOK, CallOK, Idle, DeletePcs
<1>13. LogOK'
  <2>1. DOMAIN log' = 1..synced /\ DOMAIN log = 1..Len(log) /\ synced <= Len(log)
    BY <1>1, <1>2 DEF TLog
  <2> QED BY <1>2, <2>1 DEF Crash, IInv, LogOK
<1> QED BY <1>5, <1>9, <1>10, <1>11, <1>12, <1>13 DEF IInv

(* An index file is damaged.                                                 *)
LEMMA DamageInv ==
  ASSUME IInv, Damage
  PROVE  IInv'
<1>1. TypeOK /\ TBound /\ TFiles BY Parts DEF IInv
<1>2. TFiles' BY <1>1, Zenon DEF Damage, TFiles
<1>3. TBound' BY <1>1 DEF Damage, TBound
<1>4. TypeOK' BY <1>1, <1>2, <1>3, PartsAfter, PartsKept DEF Damage
<1>5. /\ Extends(store, store') /\ LogExtends(log, synced, log', synced')
      /\ LogOK' /\ StoreOK' /\ RecoveryOK'
  BY <1>4, LogKept DEF Damage
<1>6. CallsOK' /\ Points' BY <1>4, <1>5, Frame DEF Damage
<1> QED BY <1>4, <1>5, <1>6 DEF IInv

(* What Open finds: each index as its file has it, or empty.                 *)
LEMMA Left ==
  ASSUME TIndex, Points
  PROVE  /\ PrimaryLeft \in [Ids -> Seq(Nat)] /\ SecLeft \in [Secondaries -> [Ids -> SUBSET Nat]]
         /\ PointsP(store, PrimaryLeft) /\ PointsS(store, SecLeft)
<1>1. PrimaryLeft \in {NoPrimary, primaryDisk} BY DEF PrimaryLeft
<1>2. PrimaryLeft \in [Ids -> Seq(Nat)] /\ PointsP(store, PrimaryLeft)
  BY <1>1, Empty, Zenon DEF TIndex, Points
<1>3. ASSUME NEW i \in Secondaries
      PROVE  SecLeft[i] \in {NoSec[i], secDisk[i]}
  BY DEF SecLeft
<1>4. \A i \in Secondaries : SecLeft[i] \in [Ids -> SUBSET Nat]
  BY <1>3, Empty DEF TIndex
<1>5. SecLeft \in [Secondaries -> [Ids -> SUBSET Nat]] BY <1>4 DEF SecLeft
<1>6. PointsS(store, NoSec) /\ PointsS(store, secDisk) BY Empty DEF Points
<1>7. PointsS(store, SecLeft) BY <1>3, <1>6 DEF PointsS
<1> QED BY <1>2, <1>5, <1>7

(* Open reads the files, or starts from empty indexes.                       *)
LEMMA OpenInv ==
  ASSUME IInv, NEW fresh \in BOOLEAN, Open(fresh)
  PROVE  IInv'
<1>1. TypeOK /\ TBound /\ TFiles /\ TLog /\ TCount /\ TIndex /\ Points BY Parts DEF IInv
<1>2. TFiles' BY <1>1, Zenon DEF Open, TFiles
<1>3. TBound' BY <1>1 DEF Open, TBound
<1>4. TCount' BY <1>1 DEF Open, TCount, TLog
<1>5. up' \in {"rebuild", "replay", "checkpoint"} BY DEF Open
<1>6. TIndex' /\ Points' BY <1>1, Left, Zenon DEF Open, TIndex, Points
<1>7. (up \in Phases)' BY <1>5 DEF Phases
<1>8. TypeOK' BY <1>1, <1>2, <1>3, <1>4, <1>6, <1>7, PartsAfter, PartsKept DEF Open
<1>9. Extends(store, store') /\ LogExtends(log, synced, log', synced') /\ synced' \in Nat
  BY <1>1, Same DEF Open, logVars
<1>10. RecoveryOK' /\ StoreOK' /\ CallsOK' BY <1>5, <1>8, <1>9, Frame DEF Open
<1>11. LogOK' BY <1>5, Zenon DEF Open, logVars, IInv, LogOK, Running
<1> QED BY <1>6, <1>8, <1>10, <1>11 DEF IInv

-----------------------------------------------------------------------------
(* Recovery                                                                  *)

(* A step of a recovery that leaves the log alone.                           *)
LEMMA Recovering ==
  ASSUME IInv, UNCHANGED logVars, up \notin {"open", "closing"}, Extends(store, store')
  PROVE  /\ LogExtends(log, synced, log', synced') /\ synced' \in Nat
         /\ synced = Len(log) /\ LogOK'
<1>1. TypeOK BY DEF IInv
<1>2. LogExtends(log, synced, log', synced') /\ synced' \in Nat BY <1>1, Same DEF logVars
<1>3. synced = Len(log) BY DEF IInv, LogOK, Running
<1> QED BY <1>2, <1>3 DEF IInv, LogOK, logVars, Extends

(* replayWALFromCheckpoint collects what the log holds, and sets flags.      *)
LEMMA CollectInv ==
  ASSUME IInv, Collect
  PROVE  IInv'
<1>1. TypeOK /\ TBound /\ TStore /\ TLog BY Parts DEF IInv
<1>2. synced = Len(log) /\ synced \in Nat /\ header \in Nat
  BY <1>1 DEF IInv, LogOK, Running, Collect, TLog
<1>0. PICK last \in header..Len(log) :
        LET since == (header + 1)..last
            dels  == {k \in since : log[k].op = "delete"}
        IN
        /\ store' = [l \in DOMAIN store |->
                       IF \E k \in dels : log[k].loc = l THEN Flagged(store[l]) ELSE store[l]]
        /\ events' = {e \in Ids : \E k \in since : log[k].op = "insert" /\ log[k].ev = e}
        /\ deletions' = dels
  BY Zenon DEF Collect
<1> DEFINE since == (header + 1)..last
           dels  == {k \in since : log[k].op = "delete"}
           hit(l) == \E k \in dels : log[k].loc = l
<1>3. since \subseteq 1..synced BY <1>2
<1>4. store' = [l \in DOMAIN store |-> IF hit(l) THEN Flagged(store[l]) ELSE store[l]]
  BY <1>0
<1>5. /\ events' = {e \in Ids : \E k \in since : log[k].op = "insert" /\ log[k].ev = e}
      /\ deletions' = dels /\ locations' = [e \in Ids |-> 0] /\ UNCHANGED unscanned
      /\ up' \in {"locate", "rebuild"} /\ UNCHANGED logVars
  BY <1>0, Zenon DEF Collect
<1>6. dels \subseteq 1..synced /\ \A k \in dels : log[k].op = "delete" BY <1>3
<1> HIDE DEF since
<1>7. ASSUME NEW l \in DOMAIN store
      PROVE  /\ store'[l] \in [id : Ids, deleted : BOOLEAN] /\ store'[l].id = store[l].id
             /\ hit(l) \/ store'[l] = store[l]
  <2>1. store[l] \in [id : Ids, deleted : BOOLEAN] BY <1>1, RecordType
  <2>2. /\ Flagged(store[l]) \in [id : Ids, deleted : BOOLEAN]
        /\ Flagged(store[l]).id = store[l].id
    BY <2>1, FlaggedType
  <2>3. (store'[l] = Flagged(store[l]) /\ hit(l)) \/ store'[l] = store[l] BY <1>4
  <2> QED BY <2>1, <2>2, <2>3, Zenon
<1>8. DOMAIN store' = DOMAIN store BY <1>4
<1>9. TStore'
  <2>1. \A S : \A s \in Seq(S) : DOMAIN s = 1..Len(s) /\ Len(s) \in Nat OBVIOUS
  <2>2. DOMAIN store = 1..Len(store) /\ Len(store) \in Nat BY <1>1, <2>1, Zenon DEF TStore
  <2>3. \A S, f : \A n \in Nat :
          f = [l \in 1..n |-> f[l]] /\ (\A l \in 1..n : f[l] \in S) => f \in Seq(S)
    OBVIOUS
  <2>4. store' = [l \in 1..Len(store) |-> store'[l]] BY <1>4, <2>2
  <2>5. \A l \in 1..Len(store) : store'[l] \in [id : Ids, deleted : BOOLEAN]
    BY <1>7, <2>2
  <2> QED BY <2>2, <2>3, <2>4, <2>5, Zenon DEF TStore
<1>10. Extends(store, store') BY <1>7, <1>8 DEF Extends
<1>11. LogExtends(log, synced, log', synced') /\ synced' \in Nat /\ LogOK'
  BY <1>5, <1>10, Recovering, Zenon DEF Collect
<1>12. TRecov' BY <1>1, <1>5, <1>6, Parts DEF TRecov
<1>13. TBound' BY <1>1, FaultBound, Zenon DEF Collect
<1>14. (up \in Phases)' BY <1>5 DEF Phases
<1>15. TypeOK' BY <1>1, <1>9, <1>12, <1>13, <1>14, PartsAfter, PartsKept DEF Collect
<1>16. Points' /\ CallsOK' BY <1>10, <1>11, <1>15, Frame DEF Collect
<1>17. StoreOK'
  <2> SUFFICES ASSUME Durable, NEW l \in DOMAIN store'
               PROVE  /\ Inserted(log, synced, store'[l].id)
                      /\ store'[l].deleted => Deleted(log, synced, l)
    BY <1>5, Zenon DEF StoreOK, Durable, logVars
  <2>1. Inserted(log, synced, store'[l].id) BY <1>7, <1>8 DEF IInv, StoreOK
  <2>2. hit(l) => Deleted(log, synced, l) BY <1>6 DEF Deleted
  <2>3. store[l].deleted => Deleted(log, synced, l) BY <1>8 DEF IInv, StoreOK
  <2>4. hit(l) \/ store'[l] = store[l] BY <1>7, <1>8
  <2> QED BY <2>1, <2>2, <2>3, <2>4, Zenon
<1>18. RecoveryOK'
  <2>1. \A e \in events' : Inserted(log', synced', e) BY <1>3, <1>5 DEF Inserted, logVars
  <2>2. \A k \in deletions' : k \in 1..synced' /\ log'[k].op = "delete"
    BY <1>5, <1>6 DEF logVars
  <2>3. unscanned' \subseteq DOMAIN store' BY <1>5, <1>8, Zenon DEF IInv, RecoveryOK
  <2>4. \A e \in events' : locations'[e] = 0 BY <1>5
  <2> QED BY <1>5, <2>1, <2>2, <2>3, <2>4, Zenon DEF RecoveryOK
<1> QED BY <1>11, <1>15, <1>16, <1>17, <1>18 DEF IInv

(* findLocationsForEvents: the location found, or that of a new record.      *)
LEMMA LocateInv ==
  ASSUME IInv, NEW e \in Ids, Locate(e)
  PROVE  IInv'
<1>1. TypeOK /\ TBound /\ TStore /\ TRecov /\ TIndex /\ Points BY Parts DEF IInv
<1>2. up = "locate" /\ e \in events /\ UNCHANGED logVars /\ up' \in {"locate", "rebuild"}
  BY Zenon DEF Locate
<1>3. Durable => Inserted(log, synced, e) BY <1>2, Zenon DEF IInv, RecoveryOK
<1>4. TBound' BY <1>1, FaultBound, Zenon DEF Locate
<1>5. /\ TStore' /\ Extends(store, store') /\ StoreOK'
      /\ \/ UNCHANGED locations
         \/ \E l \in Nat : locations' = [locations EXCEPT ![e] = l] /\ Holds(store', l, e)
  <2>1. CASE /\ primary[e] # <<>> /\ UNCHANGED store
             /\ locations' = [locations EXCEPT ![e] = primary[e][1]]
    <3>1. primary[e] \in Seq(Nat) /\ primary[e] # <<>> BY <1>1, <2>1 DEF TIndex
    <3>2. primary[e][1] \in Nat /\ 1 \in DOMAIN primary[e] BY <3>1
    <3>3. Holds(store', primary[e][1], e) BY <1>1, <2>1, <3>2, Zenon DEF Points, PointsP
    <3>4. TStore' /\ Extends(store, store') BY <1>1, <2>1, Same, PartsKept, Zenon
    <3>5. StoreOK' BY <1>2, <2>1, Zenon DEF logVars, IInv, StoreOK, Durable
    <3> QED BY <2>1, <3>2, <3>3, <3>4, <3>5, Zenon
  <2>2. CASE /\ store' = Append(store, [id |-> e, deleted |-> FALSE])
             /\ locations' = [locations EXCEPT ![e] = Len(store) + 1]
    BY <1>2, <1>3, <2>2, StoreGrows, Zenon DEF logVars
  <2>3. CASE UNCHANGED <<store, locations>>
    <3>1. TStore' /\ Extends(store, store') BY <1>1, <2>3, Same, PartsKept
    <3>2. StoreOK' BY <1>2, <2>3 DEF logVars, IInv, StoreOK, Durable
    <3> QED BY <2>3, <3>1, <3>2
  <2> QED BY <2>1, <2>2, <2>3, Zenon DEF Locate
<1>6. LogExtends(log, synced, log', synced') /\ synced' \in Nat /\ LogOK'
  BY <1>2, <1>5, Recovering
<1>7. TRecov' BY <1>1, <1>5, Zenon DEF Locate, TRecov
<1>8. (up \in Phases)' BY <1>2 DEF Phases
<1>9. TypeOK' BY <1>1, <1>4, <1>5, <1>7, <1>8, PartsAfter, PartsKept, Zenon DEF Locate
<1>10. Points' /\ CallsOK' BY <1>5, <1>6, <1>9, Frame, Zenon DEF Locate
<1>11. RecoveryOK'
  <2>1. UNCHANGED <<events, deletions, unscanned>> BY Zenon DEF Locate
  <2>2. \A x \in events' : locations'[x] # 0 => Holds(store', locations'[x], x)
    <3> SUFFICES ASSUME NEW x \in events, locations'[x] # 0
                 PROVE  Holds(store', locations'[x], x)
      BY <2>1
    <3>1. locations[x] # 0 => Holds(store', locations[x], x)
      BY <1>5, Zenon DEF IInv, RecoveryOK, Holds, Extends
    <3>2. CASE UNCHANGED locations BY <3>1, <3>2
    <3>3. CASE \E l \in Nat : locations' = [locations EXCEPT ![e] = l] /\ Holds(store', l, e)
      BY <1>1, <3>1, <3>3 DEF TRecov
    <3> QED BY <1>5, <3>2, <3>3
  <2>3. Durable => \A x \in events' : Inserted(log', synced', x)
    BY <1>2, <2>1, Zenon DEF logVars, IInv, RecoveryOK
  <2>4. \A k \in deletions' : k \in 1..synced' /\ log'[k].op = "delete"
    BY <1>2, <2>1, Zenon DEF logVars, IInv, RecoveryOK
  <2>5. unscanned' \subseteq DOMAIN store' BY <1>5, <2>1, Zenon DEF IInv, RecoveryOK, Extends
  <2> QED BY <1>2, <2>2, <2>3, <2>4, <2>5, Zenon DEF RecoveryOK, Durable
<1> QED BY <1>5, <1>6, <1>9, <1>10, <1>11 DEF IInv

(* Steps from one phase of a recovery to the next.                           *)
LEMMA PhaseInv ==
  ASSUME IInv, LocateDone \/ ReplayDone
  PROVE  IInv'
<1>1. TypeOK BY DEF IInv
<1>2. /\ up \in {"locate", "insert"} /\ up' \in {"insert", "checkpoint"}
      /\ UNCHANGED <<logVars, store, indexVars, fileVars, recoveryVars, countVars, cl,
                     histVars, boundVars>>
  BY DEF LocateDone, ReplayDone
<1>3. (up \in Phases)' BY <1>2 DEF Phases
<1>4. TypeOK' BY <1>1, <1>2, <1>3, PartsAfter, PartsKept
<1>5. Extends(store, store') BY <1>1, <1>2, Same
<1>6. LogExtends(log, synced, log', synced') /\ synced' \in Nat /\ LogOK'
  BY <1>2, <1>5, Recovering
<1>7. Points' /\ CallsOK' /\ StoreOK' BY <1>2, <1>4, <1>5, <1>6, Frame
<1>8. up' = "insert" => \A e \in events' : locations'[e] # 0
  BY DEF LocateDone, ReplayDone, recoveryVars
<1>9. RecoveryOK' BY <1>2, <1>8, Zenon DEF IInv, RecoveryOK, recoveryVars, logVars
<1> QED BY <1>4, <1>6, <1>7, <1>9 DEF IInv

(* A step of a recovery that changes the indexes in memory and forgets       *)
(* events, deletions or records that it has dealt with.                      *)
LEMMA RecoveryStep ==
  ASSUME IInv, up \in {"insert", "scan"}, up' \in {up, "rebuild"},
         events' \subseteq events, deletions' \subseteq deletions,
         unscanned' \subseteq unscanned, UNCHANGED locations,
         UNCHANGED <<logVars, store, fileVars, countVars, cl, histVars>>,
         TBound', TIndex', Points'
  PROVE  IInv'
<1>1. TypeOK /\ TRecov BY Parts DEF IInv
<1>2. TRecov' BY <1>1 DEF TRecov
<1>3. (up \in Phases)' BY DEF Phases
<1>4. TypeOK' BY <1>1, <1>2, <1>3, PartsAfter, PartsKept
<1>5. Extends(store, store') BY <1>1, Same
<1>6. LogExtends(log, synced, log', synced') /\ synced' \in Nat /\ LogOK'
  BY <1>5, Recovering
<1>7. CallsOK' /\ StoreOK' BY <1>4, <1>5, <1>6, Frame
<1>8. RecoveryOK' BY Zenon DEF IInv, RecoveryOK, logVars, Durable
<1> QED BY <1>4, <1>6, <1>7, <1>8 DEF IInv

(* The entries of one event are changed in the secondary indexes.            *)
LEMMA SecondaryEntry ==
  ASSUME TIndex, PointsS(store, sec), NEW e \in Ids, NEW T, T \in [Secondaries -> SUBSET Nat],
         \A i \in Secondaries : \A l \in T[i] : Holds(store, l, e),
         sec' = [i \in Secondaries |-> [sec[i] EXCEPT ![e] = T[i]]]
  PROVE  sec' \in [Secondaries -> [Ids -> SUBSET Nat]] /\ PointsS(store, sec')
<1>1. ASSUME NEW i \in Secondaries
      PROVE  /\ sec'[i] \in [Ids -> SUBSET Nat]
             /\ \A x \in Ids : \A l \in sec'[i][x] : Holds(store, l, x)
  <2>1. sec'[i] = [sec[i] EXCEPT ![e] = T[i]] OBVIOUS
  <2>2. sec[i] \in [Ids -> SUBSET Nat] BY DEF TIndex
  <2>3. sec'[i] \in [Ids -> SUBSET Nat] BY <2>1, <2>2
  <2>4. ASSUME NEW x \in Ids, NEW l \in sec'[i][x] PROVE Holds(store, l, x)
    <3>1. CASE x = e BY <2>1, <2>2, <2>4, <3>1, Zenon
    <3>2. CASE x # e BY <2>1, <2>2, <2>4, <3>2 DEF PointsS
    <3> QED BY <3>1, <3>2
  <2> QED BY <2>3, <2>4, Zenon
<1> QED BY <1>1 DEF PointsS

(* The indexes after the entries of one event changed in all of them.        *)
LEMMA EntriesOK ==
  ASSUME IInv, NEW e \in Ids, NEW q \in Seq(Nat), \A k \in DOMAIN q : Holds(store, q[k], e),
         NEW T, T \in [Secondaries -> SUBSET Nat],
         \A i \in Secondaries : \A l \in T[i] : Holds(store, l, e),
         primary' = [primary EXCEPT ![e] = q],
         sec' = [i \in Secondaries |-> [sec[i] EXCEPT ![e] = T[i]]],
         UNCHANGED <<store, primaryDisk, secDisk>>
  PROVE  TIndex' /\ Points'
<1>1. TIndex /\ Points BY Parts, Zenon DEF IInv
<1>2. primary' \in [Ids -> Seq(Nat)] /\ PointsP(store, primary')
  BY <1>1, PrimaryEntry, Zenon DEF TIndex, Points
<1>3. sec' \in [Secondaries -> [Ids -> SUBSET Nat]] /\ PointsS(store, sec')
  BY <1>1, SecondaryEntry, Zenon DEF Points
<1> QED BY <1>2, <1>3, IndexesOK, Zenon

(* indexReplayer.OnInsert.                                                   *)
LEMMA ReplayInsertInv ==
  ASSUME IInv, NEW e \in Ids, ReplayInsert(e)
  PROVE  IInv'
<1>1. TypeOK /\ TBound /\ TRecov /\ TIndex /\ Points BY Parts DEF IInv
<1>2. TBound' BY <1>1, FaultBound, Zenon DEF ReplayInsert
<1>3. Holds(store, locations[e], e) /\ locations[e] \in Nat
  BY <1>1, Zenon DEF ReplayInsert, IInv, RecoveryOK, TRecov
<1>4. PICK done \in SUBSET Indexes :
        /\ primary' = IF "primary" \in done
                      THEN [primary EXCEPT ![e] = InsertLoc(@, locations[e])] ELSE primary
        /\ sec' = [i \in Secondaries |->
                     IF i \in done THEN [sec[i] EXCEPT ![e] = @ \cup {locations[e]}]
                                   ELSE sec[i]]
  BY Zenon DEF ReplayInsert
<1> DEFINE q == IF "primary" \in done THEN InsertLoc(primary[e], locations[e]) ELSE primary[e]
           entry(i) == IF i \in done THEN sec[i][e] \cup {locations[e]} ELSE sec[i][e]
           T == [i \in Secondaries |-> entry(i)]
<1>5. primary[e] \in Seq(Nat) /\ \A k \in DOMAIN primary[e] : Holds(store, primary[e][k], e)
  BY <1>1, Zenon DEF TIndex, Points, PointsP
<1>6. q \in Seq(Nat) /\ \A k \in DOMAIN q : Holds(store, q[k], e)
  BY <1>3, <1>5, InsertLocFacts, Zenon
<1>7. ASSUME NEW i \in Secondaries
      PROVE  entry(i) \in SUBSET Nat /\ \A l \in entry(i) : Holds(store, l, e)
  <2>1. sec[i][e] \in SUBSET Nat /\ \A l \in sec[i][e] : Holds(store, l, e)
    BY <1>1 DEF TIndex, Points, PointsS
  <2> QED BY <1>3, <2>1
<1>8. /\ primary' = [primary EXCEPT ![e] = q]
      /\ \A i \in Secondaries : sec'[i] = [sec[i] EXCEPT ![e] = entry(i)]
      /\ DOMAIN sec' = Secondaries /\ sec' = [i \in Secondaries |-> sec'[i]]
  BY <1>1, <1>4, Zenon DEF TIndex
<1> HIDE DEF q, entry
<1>9. T \in [Secondaries -> SUBSET Nat] BY <1>7
<1>10. \A i \in Secondaries : \A l \in T[i] : Holds(store, l, e) BY <1>7
<1>11. sec' = [i \in Secondaries |-> [sec[i] EXCEPT ![e] = T[i]]]
  <2>1. \A i \in Secondaries : T[i] = entry(i) OBVIOUS
  <2> HIDE DEF T
  <2> QED BY <1>8, <2>1
<1> HIDE DEF T
<1>12. UNCHANGED <<store, primaryDisk, secDisk>> BY Zenon DEF ReplayInsert
<1>13. primary' = [primary EXCEPT ![e] = q] BY <1>8
<1>14. TIndex' /\ Points' BY <1>6, <1>9, <1>10, <1>11, <1>12, <1>13, EntriesOK, Zenon
<1> QED BY <1>2, <1>14, RecoveryStep, Zenon DEF ReplayInsert

(* indexReplayer.replayDelete.                                               *)
LEMMA ReplayDeleteInv ==
  ASSUME IInv, NEW k \in deletions, ReplayDelete(k)
  PROVE  IInv'
<1> DEFINE l == log[k].loc
           e == store[l].id
<1>1. TypeOK /\ TStore /\ TLog /\ TIndex /\ Points /\ TBound BY Parts DEF IInv
<1>2. TBound' BY <1>1, FaultBound, Zenon DEF ReplayDelete
<1>3. l \in DOMAIN store
  <2>1. k \in 1..synced /\ log[k].op = "delete" BY DEF IInv, RecoveryOK
  <2>2. k \in DOMAIN log BY <1>1, <2>1 DEF TLog
  <2> QED BY <2>1, <2>2, Zenon DEF IInv, LogOK
<1>4. e \in Ids
  <2>1. store[l] \in [id : Ids, deleted : BOOLEAN] BY <1>1, <1>3, RecordType
  <2> QED BY <2>1
<1>5. PICK kept \in SUBSET Indexes :
        /\ primary' = IF "primary" \in kept THEN primary
                      ELSE [primary EXCEPT ![e] = DeleteFirst(@)]
        /\ sec' = [i \in Secondaries |->
                     IF i \in kept THEN sec[i] ELSE [sec[i] EXCEPT ![e] = @ \ {l}]]
  BY Zenon DEF ReplayDelete
<1> DEFINE q == IF "primary" \in kept THEN primary[e] ELSE DeleteFirst(primary[e])
           entry(i) == IF i \in kept THEN sec[i][e] ELSE sec[i][e] \ {l}
           T == [i \in Secondaries |-> entry(i)]
<1> HIDE DEF l, e
<1>6. primary[e] \in Seq(Nat) /\ \A j \in DOMAIN primary[e] : Holds(store, primary[e][j], e)
  BY <1>1, <1>4, Zenon DEF TIndex, Points, PointsP
<1>7. q \in Seq(Nat) /\ \A j \in DOMAIN q : Holds(store, q[j], e)
  BY <1>6, DeleteFirstFacts
<1>8. ASSUME NEW i \in Secondaries
      PROVE  entry(i) \in SUBSET Nat /\ \A m \in entry(i) : Holds(store, m, e)
  BY <1>1, <1>4 DEF TIndex, Points, PointsS
<1>9. /\ primary' = [primary EXCEPT ![e] = q]
      /\ \A i \in Secondaries : sec'[i] = [sec[i] EXCEPT ![e] = entry(i)]
      /\ DOMAIN sec' = Secondaries /\ sec' = [i \in Secondaries |-> sec'[i]]
  BY <1>1, <1>4, <1>5, Zenon DEF TIndex
<1> HIDE DEF q, entry
<1>10. T \in [Secondaries -> SUBSET Nat] BY <1>8
<1>11. \A i \in Secondaries : \A m \in T[i] : Holds(store, m, e) BY <1>8
<1>12. sec' = [i \in Secondaries |-> [sec[i] EXCEPT ![e] = T[i]]]
  <2>1. \A i \in Secondaries : T[i] = entry(i) OBVIOUS
  <2> HIDE DEF T
  <2> QED BY <1>9, <2>1
<1> HIDE DEF T
<1>13. UNCHANGED <<store, primaryDisk, secDisk>> BY Zenon DEF ReplayDelete
<1>14. primary' = [primary EXCEPT ![e] = q] BY <1>9
<1>15. TIndex' /\ Points' BY <1>4, <1>7, <1>10, <1>11, <1>12, <1>13, <1>14, EntriesOK, Zenon
<1> QED BY <1>2, <1>15, RecoveryStep, Zenon DEF ReplayDelete

(* rebuildIndexesFromSegments writes the indexes out and opens them again.   *)
LEMMA RebuildReopenInv ==
  ASSUME IInv, RebuildReopen
  PROVE  IInv'
<1>1. TypeOK /\ TRecov /\ TStore BY Parts DEF IInv
<1>2. TIndex' /\ Points' BY WrittenOut DEF RebuildReopen
<1>3. DOMAIN store \subseteq Nat
  <2>1. \A S : \A s \in Seq(S) : DOMAIN s \subseteq Nat OBVIOUS
  <2> QED BY <1>1, <2>1, Zenon DEF TStore
<1>4. TRecov' BY <1>1, <1>3 DEF RebuildReopen, TRecov
<1>5. (up \in Phases)' BY DEF RebuildReopen, Phases
<1>6. TypeOK' BY <1>1, <1>2, <1>4, <1>5, PartsAfter, PartsKept DEF RebuildReopen
<1>7. Extends(store, store') BY <1>1, Same DEF RebuildReopen
<1>8. LogExtends(log, synced, log', synced') /\ synced' \in Nat /\ LogOK'
  BY <1>7, Recovering DEF RebuildReopen
<1>9. CallsOK' /\ StoreOK' BY <1>6, <1>7, <1>8, Frame DEF RebuildReopen
<1>10. RecoveryOK' BY Zenon DEF RebuildReopen, RecoveryOK
<1> QED BY <1>2, <1>6, <1>8, <1>9, <1>10 DEF IInv

(* InsertRecoveryBatch, one record.                                          *)
LEMMA RebuildRecordInv ==
  ASSUME IInv, NEW l \in unscanned, RebuildRecord(l)
  PROVE  IInv'
<1> DEFINE e == store[l].id
           q == InsertLoc(DeleteFirst(primary[e]), l)
           stale(i) == IF primary[e] = <<>> THEN sec[i][e] ELSE sec[i][e] \ {primary[e][1]}
           T == [i \in Secondaries |-> stale(i) \cup {l}]
<1>1. TypeOK /\ TStore /\ TIndex /\ Points BY Parts DEF IInv
<1>2. TBound' BY <1>1, PartsKept, Zenon DEF RebuildRecord
<1>3. l \in DOMAIN store /\ l \in Nat BY <1>1, Parts, Zenon DEF IInv, RecoveryOK, TRecov
<1>4. e \in Ids /\ Holds(store, l, e)
  <2>1. store[l] \in [id : Ids, deleted : BOOLEAN] BY <1>1, <1>3, RecordType
  <2> QED BY <1>3, <2>1, Zenon DEF Holds
<1>20. CASE primary[e] # <<>> /\ Head(primary[e]) = l
  <2>1. UNCHANGED <<primary, sec, primaryDisk, secDisk, store>> BY <1>20 DEF RebuildRecord
  <2>2. TIndex' /\ Points' BY <2>1, WrittenOut
  <2> QED BY <1>2, <2>2, RecoveryStep, Zenon DEF RebuildRecord
<1> SUFFICES ASSUME ~(primary[e] # <<>> /\ Head(primary[e]) = l)
             PROVE  IInv'
  BY <1>20
<1>5. /\ primary' = [primary EXCEPT ![e] = InsertLoc(DeleteFirst(@), l)]
      /\ sec' = [i \in Secondaries |-> [sec[i] EXCEPT ![e] =
                   (IF primary[e] = <<>> THEN @ ELSE @ \ {primary[e][1]}) \cup {l}]]
  BY Zenon DEF RebuildRecord
<1> HIDE DEF e
<1>6. primary[e] \in Seq(Nat) /\ \A j \in DOMAIN primary[e] : Holds(store, primary[e][j], e)
  BY <1>1, <1>4, Zenon DEF TIndex, Points, PointsP
<1>7. /\ DeleteFirst(primary[e]) \in Seq(Nat)
      /\ \A j \in DOMAIN DeleteFirst(primary[e]) : Holds(store, DeleteFirst(primary[e])[j], e)
  BY <1>6, DeleteFirstFacts, Zenon
<1>8. q \in Seq(Nat) /\ \A j \in DOMAIN q : Holds(store, q[j], e)
  BY <1>3, <1>4, <1>7, InsertLocFacts, Zenon
<1>9. ASSUME NEW i \in Secondaries
      PROVE  stale(i) \cup {l} \in SUBSET Nat /\ \A m \in stale(i) \cup {l} : Holds(store, m, e)
  <2>1. sec[i][e] \in SUBSET Nat /\ \A m \in sec[i][e] : Holds(store, m, e)
    BY <1>1, <1>4 DEF TIndex, Points, PointsS
  <2> QED BY <1>3, <1>4, <2>1, Zenon
<1>10. sec' = [i \in Secondaries |-> [sec[i] EXCEPT ![e] = stale(i) \cup {l}]]
  BY <1>5, Zenon
<1> HIDE DEF stale
<1>11. T \in [Secondaries -> SUBSET Nat] BY <1>9
<1>12. \A i \in Secondaries : \A m \in T[i] : Holds(store, m, e) BY <1>9
<1>13. /\ primary' = [primary EXCEPT ![e] = q]
       /\ sec' = [i \in Secondaries |-> [sec[i] EXCEPT ![e] = T[i]]]
  <2>1. \A i \in Secondaries : T[i] = stale(i) \cup {l} OBVIOUS
  <2> HIDE DEF T
  <2> QED BY <1>5, <1>10, <2>1, Zenon
<1> HIDE DEF q, T
<1>14. TIndex' /\ Points' BY <1>4, <1>8, <1>11, <1>12, <1>13, EntriesOK, Zenon DEF RebuildRecord
<1> QED BY <1>2, <1>14, RecoveryStep, Zenon DEF RebuildRecord

(* The flush at the end of a rebuild.                                        *)
LEMMA RebuildDoneInv ==
  ASSUME IInv, RebuildDone
  PROVE  IInv'
<1>1. TypeOK /\ TBound BY Parts DEF IInv
<1>2. TIndex' /\ Points' BY WrittenOut DEF RebuildDone
<1>3. TBound' BY <1>1, FaultBound, Zenon DEF RebuildDone
<1>4. (up \in Phases)' BY DEF RebuildDone, Phases
<1>5. TypeOK' BY <1>1, <1>2, <1>3, <1>4, PartsAfter, PartsKept DEF RebuildDone
<1>6. Extends(store, store') BY <1>1, Same DEF RebuildDone
<1>7. LogExtends(log, synced, log', synced') /\ synced' \in Nat /\ LogOK'
  BY <1>6, Recovering DEF RebuildDone
<1>8. CallsOK' /\ StoreOK' /\ RecoveryOK' BY <1>5, <1>6, <1>7, Frame DEF RebuildDone
<1> QED BY <1>2, <1>5, <1>7, <1>8 DEF IInv

(* The checkpoint at the end of Open.                                        *)
LEMMA OpenDoneInv ==
  ASSUME IInv, OpenDone
  PROVE  IInv'
<1>1. TypeOK /\ TBound /\ TLog /\ TCount BY Parts DEF IInv
<1>2. Extends(store, store') BY <1>1, Same DEF OpenDone
<1>3. /\ TLog' /\ LogExtends(log, synced, log', synced') /\ synced' \in Nat
      /\ LogOK' /\ TCount'
  <2>1. CASE LogCheckpoint /\ lastCheckpointLSN' = Len(log) + 1
    BY <1>1, <2>1, CheckpointLogged DEF OpenDone, TCount, TLog
  <2>2. CASE CheckpointFails(TRUE) /\ UNCHANGED lastCheckpointLSN
    <3>1. TLog' /\ LogExtends(log, synced, log', synced') /\ synced' \in Nat /\ LogOK'
      BY <2>2, CheckpointNotLogged, Zenon DEF OpenDone, Running
    <3>2. TCount' BY <1>1, <2>2 DEF OpenDone, TCount
    <3> QED BY <3>1, <3>2
  <2> QED BY <2>1, <2>2, Zenon DEF OpenDone
<1>4. TBound' /\ (up \in Phases)'
  <2>1. faults' \in {faults, faults + 1} /\ up' = "open" BY Zenon DEF OpenDone
  <2>2. UNCHANGED <<calls, opens, crashes, damages>> BY DEF OpenDone
  <2> QED BY <1>1, <2>1, <2>2 DEF TBound, Phases
<1>5. TypeOK' BY <1>1, <1>3, <1>4, PartsAfter, PartsKept DEF OpenDone
<1>6. Points' /\ CallsOK' /\ StoreOK' /\ RecoveryOK'
  BY <1>2, <1>3, <1>5, Frame DEF OpenDone
<1> QED BY <1>3, <1>5, <1>6 DEF IInv

(* A step of a call.                                                         *)
LEMMA CallInv ==
  ASSUME IInv, NEW p \in Procs, Call(p)
  PROVE  IInv'
BY LogInsertInv, AppendRecordInv, InsertPrimaryInv, InsertSecondaryInv, NoteEventsWrittenInv,
   FlushNextInv, FlushDoneInv, CreateCheckpointInv, StoreCheckpointLSNInv, LogDeleteInv,
   FlagRecordInv, DeletePrimaryInv, DeleteSecondaryInv, DeleteDoneInv
   DEF Call

(* A step of Open.                                                           *)
LEMMA RecoveryInv ==
  ASSUME IInv, Recovery
  PROVE  IInv'
BY CollectInv, PhaseInv, LocateInv, ReplayInsertInv, ReplayDeleteInv, RebuildReopenInv,
   RebuildDoneInv, RebuildRecordInv, OpenDoneInv
   DEF Recovery

(* A step that changes nothing.                                              *)
LEMMA StutterInv ==
  ASSUME IInv, UNCHANGED vars
  PROVE  IInv'
<1>1. TypeOK BY DEF IInv
<1>2. UNCHANGED <<logVars, store, indexVars, fileVars, up, recoveryVars, countVars, cl,
                  histVars, boundVars>>
  BY DEF vars, logVars, indexVars, fileVars, recoveryVars, countVars, histVars, boundVars
<1>3. TypeOK' BY <1>1, <1>2, PartsAfter, PartsKept
<1>4. /\ Extends(store, store') /\ LogExtends(log, synced, log', synced')
      /\ LogOK' /\ StoreOK' /\ RecoveryOK'
  BY <1>2, <1>3, LogKept
<1>5. CallsOK' /\ Points' BY <1>2, <1>3, <1>4, Frame
<1> QED BY <1>3, <1>4, <1>5 DEF IInv

(* Every step preserves the inductive invariant.                             *)
LEMMA NextInv == IInv /\ [Next]_vars => IInv'
<1> SUFFICES ASSUME IInv, [Next]_vars PROVE IInv' OBVIOUS
<1>1. ASSUME NEW p \in Clients, StartFlush(p) PROVE IInv' BY <1>1, StartFlushInv
<1>2. ASSUME NEW p \in Clients, NEW e \in Ids, StartWrite(p, e) \/ StartDelete(p, e)
      PROVE  IInv'
  BY <1>2, StartWriteInv, StartDeleteInv
<1>3. ASSUME NEW p \in Procs, Call(p) PROVE IInv' BY <1>3, CallInv
<1>4. CASE Tick \/ SyncTick BY <1>4, TickInv, SyncTickInv
<1>5. ASSUME NEW i \in Secondaries \cup {"primary"}, FlushTick(i) PROVE IInv'
  BY <1>5, FlushTickInv
<1>6. CASE CloseFlush \/ CloseFiles \/ Crash \/ Damage
  BY <1>6, CloseFlushInv, CloseFilesInv, CrashInv, DamageInv
<1>7. ASSUME NEW fresh \in BOOLEAN, Open(fresh) PROVE IInv' BY <1>7, OpenInv
<1>8. CASE Recovery BY <1>8, RecoveryInv
<1>9. CASE UNCHANGED vars BY <1>9, StutterInv
<1> QED BY <1>1, <1>2, <1>3, <1>4, <1>5, <1>6, <1>7, <1>8, <1>9 DEF Next, Indexes

-----------------------------------------------------------------------------
(* The inductive invariant holds in every state the store can reach.         *)
THEOREM Inductive == Spec => []IInv
BY InitInv, NextInv, PTL DEF Spec

(* Type correctness, whatever the number of clients, crashes and faults.     *)
THEOREM TypeCorrect == Spec => []TypeOK
<1>1. IInv => TypeOK BY DEF IInv
<1> QED BY <1>1, Inductive, PTL

(* No call, flush, crash or recovery of eventStoreImpl leaves an index entry *)
(* that points outside the store or to a record of another event.            *)
THEOREM AlwaysLocated == Spec => []Located
<1>1. IInv => Located
  BY DEF IInv, Points, PointsP, PointsS, Holds, Located, RecordOf
<1> QED BY <1>1, Inductive, PTL

(* WriteEvent, DeleteEvent and the recoveries never change the record store  *)
(* before the change is durable in the log.                                  *)
THEOREM AlwaysWriteAhead == Spec => []WriteAhead
<1>1. IInv => WriteAhead
  BY Zenon DEF IInv, StoreOK, Durable, Inserted, Deleted, WriteAhead
<1> QED BY <1>1, Inductive, PTL

=============================================================================
