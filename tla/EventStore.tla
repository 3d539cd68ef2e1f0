----------------------------- MODULE EventStore -----------------------------
(* The coordinator eventStoreImpl (src/src/eventstore/eventstore_impl.go):   *)
(* WriteEvent, DeleteEvent, Flush, createCheckpoint, Close, Open and its     *)
(* recovery, over the log, the record store and the indexes.                 *)
(*                                                                           *)
(* API calls take e.mu only to test e.opened, so the steps of concurrent     *)
(* calls, of the checkpoint scheduler and of the index flusher interleave.   *)
(* The log is the one of module Wal seen from above: an LSN is a position,   *)
(* what is not synced is lost by a crash.  A crash is that of the process:   *)
(* records that were written stay, pages in the index caches do not.         *)
EXTENDS Integers, Sequences, FiniteSets

CONSTANTS
  Clients,          \* goroutines that call the API
  Ids,              \* events
  Mine,             \* the events each client writes and deletes
  Secondaries,      \* the secondary indexes that are modelled
  SyncMode,         \* WALConfig.SyncMode: "always" or "batch"
  Scheduler,        \* WALConfig.CheckpointIntervalMs > 0
  CheckpointEvery,  \* WALConfig.CheckpointEventCount; 0 disables it
  CloseWaits,       \* does the application wait for its calls before Close
  Reuse,            \* does it call Open again on the object it closed
  Partitioned,      \* IndexConfig.EnableTimePartitioning
  LostFiles,        \* sets of indexes whose files may be lost together
  MaxCalls,         \* bound: API calls
  MaxOpens,         \* bound: Open calls
  MaxCrashes,       \* bound: crashes
  MaxFaults,        \* bound: operations of a component that fail
  MaxDamage         \* bound: losses of index files

AllSecondaries == {"author_time", "kind_time", "search"}

ASSUME EventStoreConstants ==
  /\ Mine \in [Clients -> SUBSET Ids]
  /\ Secondaries \subseteq AllSecondaries
  /\ "scheduler" \notin Clients
  /\ SyncMode \in {"always", "batch"}
  /\ Scheduler \in BOOLEAN /\ CloseWaits \in BOOLEAN /\ Reuse \in BOOLEAN
  /\ Partitioned \in BOOLEAN /\ LostFiles \subseteq SUBSET (Secondaries \cup {"primary"})
  /\ CheckpointEvery \in Nat /\ MaxCalls \in Nat /\ MaxOpens \in Nat
  /\ MaxCrashes \in Nat /\ MaxFaults \in Nat /\ MaxDamage \in Nat

VARIABLES
  log, synced,      \* the log, and how much of it is on disk
  header,           \* the checkpoint LSN in the log's header
  store,            \* the records; a location is a position
  primary,          \* primary index: the locations of an event, newest first
  sec,              \* secondary indexes: the locations under an event's keys
  primaryDisk, secDisk,      \* what is in the index files
  valid,            \* the indexes whose files ValidateIndexes accepts
  marker,           \* the .dirty file exists
  invalidated, dirtyOnStart, \* e.indexFilesInvalidated, e.indexDirtyOnStart
  up,               \* "down", a step of Open, "open" or "closing"
  events, locations, deletions,   \* the recovery in progress
  unscanned,        \* records a rebuild has still to index
  lastCheckpointLSN, checkpointEventCount,
  cl,               \* the call each goroutine is in
  acked,            \* history: WriteEvent returned, no DeleteEvent begun since
  removed,          \* history: DeleteEvent returned, no WriteEvent begun since
  lone,             \* history: writes (deletions) that no deletion (write) of
                    \* the same event has overlapped
  calls, opens, crashes, faults, damages

logVars      == <<log, synced, header>>
indexVars    == <<primary, sec, primaryDisk, secDisk>>
fileVars     == <<valid, marker, invalidated, dirtyOnStart>>
recoveryVars == <<events, locations, deletions, unscanned>>
countVars    == <<lastCheckpointLSN, checkpointEventCount>>
histVars     == <<acked, removed, lone>>
boundVars    == <<calls, opens, crashes, faults, damages>>
vars == <<log, synced, header, store, primary, sec, primaryDisk, secDisk, valid, marker,
          invalidated, dirtyOnStart, up, events, locations, deletions, unscanned,
          lastCheckpointLSN, checkpointEventCount, cl, acked, removed, lone, calls, opens,
          crashes, faults, damages>>

None  == "none"
Procs == Clients \cup {"scheduler"}
Idle  == [pc |-> "idle", ev |-> None, loc |-> 0, todo |-> <<>>]
Entry == [op : {"insert", "delete", "checkpoint"}, ev : Ids \cup {None}, loc : Nat]
Running == up \in {"open", "closing"}

Indexes == Secondaries \cup {"primary"}

(* The order in which WriteEvent and DeleteEvent, and manager.Flush, go      *)
(* through the indexes.                                                      *)
IfModelled(i) == IF i \in Secondaries THEN <<i>> ELSE <<>>
InsertOrder == IfModelled("author_time") \o IfModelled("kind_time") \o IfModelled("search")
FlushOrder  == <<"primary">> \o IfModelled("author_time") \o IfModelled("search")
                             \o IfModelled("kind_time")

(* btree.insert: an equal (key, location) pair is kept once; otherwise the   *)
(* new location comes first among those of its key.                          *)
InsertLoc(s, l) ==
  IF \E k \in DOMAIN s : s[k] = l THEN s ELSE <<l>> \o s

(* btree.delete without a location removes the first entry of the key.       *)
DeleteFirst(s) == IF s = <<>> THEN s ELSE Tail(s)

NoPrimary == [e \in Ids |-> <<>>]
NoSec     == [i \in Secondaries |-> [e \in Ids |-> {}]]

(* A record with its deleted flag set.                                       *)
Flagged(r) == [id |-> r.id, deleted |-> TRUE]

(* GetEvent: the primary lookup, then the flag of the record.                *)
GetEvent(e) == primary[e] # <<>> /\ ~store[primary[e][1]].deleted

(* A query answered from secondary index i skips deleted records.            *)
Query(i, e) == \E l \in sec[i][e] : ~store[l].deleted

Init ==
  /\ log = <<>> /\ synced = 0 /\ header = 0 /\ store = <<>>
  /\ primary = NoPrimary /\ primaryDisk = NoPrimary /\ sec = NoSec /\ secDisk = NoSec
  /\ valid = {} /\ marker = FALSE /\ invalidated = FALSE /\ dirtyOnStart = FALSE
  /\ up = "down"
  /\ events = {} /\ locations = [e \in Ids |-> 0] /\ deletions = {} /\ unscanned = {}
  /\ lastCheckpointLSN = 0 /\ checkpointEventCount = 0
  /\ cl = [p \in Procs |-> Idle]
  /\ acked = {} /\ removed = {} /\ lone = {}
  /\ calls = 0 /\ opens = 0 /\ crashes = 0 /\ faults = 0 /\ damages = 0

-----------------------------------------------------------------------------
(* How a call goes on and how it ends.                                       *)
At(p, l, e, loc, todo) ==
  cl' = [cl EXCEPT ![p] = [pc |-> l, ev |-> e, loc |-> loc, todo |-> todo]]

Goto(p, l) == At(p, l, cl[p].ev, cl[p].loc, cl[p].todo)
Loop(p)    == At(p, cl[p].pc, cl[p].ev, cl[p].loc, Tail(cl[p].todo))
Stop(p)    == cl' = [cl EXCEPT ![p] = Idle]

DeletePcs == {"dlog", "dflag", "dprimary", "dsecondary"}
WritePcs  == {"log", "append", "primary", "secondary", "flushpoint", "cklog", "ckstore"}

(* The calls in progress on event e that are at one of pcs.                  *)
Others(e, pcs) == {q \in Procs : cl[q].ev = e /\ cl[q].pc \in pcs}

(* Call p on event e begins while those at pcs conflict with it.             *)
Begin(p, e, pcs) ==
  lone' = IF Others(e, pcs) = {} THEN lone \cup {p} ELSE lone \ (Others(e, pcs) \cup {p})

(* WriteEvent returns a location: the caller takes the event for stored.     *)
Ack(p, e) == acked' = IF e \in Ids /\ p \in lone THEN acked \cup {e} ELSE acked

(* The operation of a component fails: an injected fault, or the component   *)
(* was closed under the call.                                                *)
Fails == \/ ~Running /\ UNCHANGED faults
         \/ Running /\ faults < MaxFaults /\ faults' = faults + 1

Append2Log(entry) ==
  /\ log' = Append(log, entry)
  /\ synced' = IF SyncMode = "always" THEN Len(log) + 1 ELSE synced
  /\ UNCHANGED header

(* A failed Writer.Write: in mode "always" the entry is in the buffer by     *)
(* then, and stays there.                                                    *)
LogFails(entry) ==
  /\ Fails
  /\ \/ UNCHANGED log
     \/ SyncMode = "always" /\ Running /\ log' = Append(log, entry)
  /\ UNCHANGED <<synced, header>>

-----------------------------------------------------------------------------
(* WriteEvent                                                                *)

(* Mutant: the record is stored before it is logged.                         *)
StartWriteUnlogged(p, e) ==
  /\ up = "open" /\ cl[p] = Idle /\ e \in Mine[p] /\ calls < MaxCalls
  /\ calls' = calls + 1
  /\ removed' = removed \ {e} /\ Begin(p, e, DeletePcs)
  /\ IF primary[e] # <<>>
     THEN UNCHANGED cl /\ acked' = IF p \in lone' THEN acked \cup {e} ELSE acked
     ELSE At(p, "append", e, 0, <<>>) /\ UNCHANGED acked
  /\ UNCHANGED <<logVars, store, indexVars, fileVars, up, recoveryVars, countVars, opens,
                 crashes, faults, damages>>

(* The duplicate check.                                                      *)
StartWrite(p, e) ==
  /\ up = "open" /\ cl[p] = Idle /\ e \in Mine[p] /\ calls < MaxCalls
  /\ calls' = calls + 1
  /\ removed' = removed \ {e} /\ Begin(p, e, DeletePcs)
  /\ IF primary[e] # <<>>
     THEN UNCHANGED cl /\ acked' = IF p \in lone' THEN acked \cup {e} ELSE acked
     ELSE At(p, "log", e, 0, <<>>) /\ UNCHANGED acked
  /\ UNCHANGED <<logVars, store, indexVars, fileVars, up, recoveryVars, countVars, opens,
                 crashes, faults, damages>>

LogInsert(p) ==
  LET entry == [op |-> "insert", ev |-> cl[p].ev, loc |-> 0] IN
  /\ cl[p].pc = "log"
  /\ \/ Running /\ Append2Log(entry) /\ Goto(p, "append") /\ UNCHANGED faults
     \/ LogFails(entry) /\ Stop(p)
  /\ UNCHANGED <<store, indexVars, fileVars, up, recoveryVars, countVars, histVars, calls,
                 opens, crashes, damages>>

(* Mutant: the location returned is the one of the record before.            *)
AppendRecordStale(p) ==
  /\ cl[p].pc = "append"
  /\ \/ /\ Running
        /\ store' = Append(store, [id |-> cl[p].ev, deleted |-> FALSE])
        /\ At(p, "primary", cl[p].ev, Len(store), <<>>)
        /\ UNCHANGED faults
     \/ Fails /\ Stop(p) /\ UNCHANGED store
  /\ UNCHANGED <<logVars, indexVars, fileVars, up, recoveryVars, countVars, histVars, calls,
                 opens, crashes, damages>>

(* storage.WriteRecord; when it fails the log entry stays.                   *)
AppendRecord(p) ==
  /\ cl[p].pc = "append"
  /\ \/ /\ Running
        /\ store' = Append(store, [id |-> cl[p].ev, deleted |-> FALSE])
        /\ At(p, "primary", cl[p].ev, Len(store) + 1, <<>>)
        /\ UNCHANGED faults
     \/ Fails /\ Stop(p) /\ UNCHANGED store
  /\ UNCHANGED <<logVars, indexVars, fileVars, up, recoveryVars, countVars, histVars, calls,
                 opens, crashes, damages>>

(* When the primary insert fails the secondary indexes are skipped, and the  *)
(* call still returns the location.                                          *)
InsertPrimary(p) ==
  LET e == cl[p].ev IN
  /\ cl[p].pc = "primary"
  /\ \/ /\ Running
        /\ primary' = [primary EXCEPT ![e] = InsertLoc(@, cl[p].loc)]
        /\ At(p, "secondary", e, cl[p].loc, InsertOrder)
        /\ UNCHANGED <<faults, acked>>
     \/ Fails /\ Stop(p) /\ Ack(p, e) /\ UNCHANGED primary
  /\ UNCHANGED <<logVars, store, sec, primaryDisk, secDisk, fileVars, up, recoveryVars,
                 countVars, removed, lone, calls, opens, crashes, damages>>

(* The next secondary index; a failure is only a warning.                    *)
InsertSecondary(p) ==
  LET e == cl[p].ev  i == Head(cl[p].todo) IN
  /\ cl[p].pc = "secondary" /\ cl[p].todo # <<>>
  /\ Loop(p)
  /\ \/ Running /\ sec' = [sec EXCEPT ![i][e] = @ \cup {cl[p].loc}] /\ UNCHANGED faults
     \/ Fails /\ UNCHANGED sec
  /\ UNCHANGED <<logVars, store, primary, primaryDisk, secDisk, fileVars, up, recoveryVars,
                 countVars, histVars, calls, opens, crashes, damages>>

(* Mutant: the checkpoint is taken without flushing the indexes.             *)
NoteEventsWrittenUnflushed(p) ==
  LET n == checkpointEventCount + 1 IN
  /\ cl[p].pc = "secondary" /\ cl[p].todo = <<>>
  /\ IF CheckpointEvery = 0 \/ n < CheckpointEvery
     THEN /\ checkpointEventCount' = IF CheckpointEvery = 0 THEN 0 ELSE n
          /\ Stop(p) /\ Ack(p, cl[p].ev)
     ELSE /\ checkpointEventCount' = 0
          /\ Goto(p, "cklog") /\ UNCHANGED acked
  /\ UNCHANGED <<logVars, store, indexVars, fileVars, up, recoveryVars, lastCheckpointLSN,
                 removed, lone, boundVars>>

(* noteEventsWritten: the call that reaches the count takes the checkpoint   *)
(* before it returns.                                                        *)
NoteEventsWritten(p) ==
  LET n == checkpointEventCount + 1 IN
  /\ cl[p].pc = "secondary" /\ cl[p].todo = <<>>
  /\ IF CheckpointEvery = 0 \/ n < CheckpointEvery
     THEN /\ checkpointEventCount' = IF CheckpointEvery = 0 THEN 0 ELSE n
          /\ Stop(p) /\ Ack(p, cl[p].ev)
     ELSE /\ checkpointEventCount' = 0
          /\ IF Len(log) \in {0, lastCheckpointLSN}
             THEN Stop(p) /\ Ack(p, cl[p].ev)
             ELSE /\ At(p, "flushpoint", cl[p].ev, cl[p].loc, FlushOrder)
                  /\ UNCHANGED acked
  /\ UNCHANGED <<logVars, store, indexVars, fileVars, up, recoveryVars, lastCheckpointLSN,
                 removed, lone, boundVars>>

-----------------------------------------------------------------------------
(* createCheckpoint, in the scheduler's goroutine or in that of a writer     *)

(* A tick that is due when Close stops the scheduler may still be taken.     *)
Tick ==
  /\ Running /\ Scheduler /\ cl["scheduler"] = Idle
  /\ Len(log) \notin {0, lastCheckpointLSN}
  /\ At("scheduler", "flushpoint", None, 0, FlushOrder)
  /\ UNCHANGED <<logVars, store, indexVars, fileVars, up, recoveryVars, countVars, histVars,
                 boundVars>>

(* Flush: the log, the record store, then the indexes.                       *)
StartFlush(p) ==
  /\ up = "open" /\ cl[p] = Idle /\ calls < MaxCalls
  /\ calls' = calls + 1
  /\ synced' = Len(log)
  /\ At(p, "flush", None, 0, FlushOrder)
  /\ UNCHANGED <<log, header, store, indexVars, fileVars, up, recoveryVars, countVars,
                 histVars, opens, crashes, faults, damages>>

(* btree.flush writes the index's dirty pages under the tree's lock.         *)
FlushIndex(i) ==
  IF i = "primary"
  THEN primaryDisk' = primary /\ UNCHANGED secDisk
  ELSE secDisk' = [secDisk EXCEPT ![i] = sec[i]] /\ UNCHANGED primaryDisk

(* manager.Flush, one index at a time; it stops at the first error, and so   *)
(* do createCheckpoint and Flush.                                            *)
FlushNext(p) ==
  /\ cl[p].pc \in {"flushpoint", "flush"} /\ cl[p].todo # <<>>
  /\ \/ /\ Running /\ FlushIndex(Head(cl[p].todo))
        /\ Loop(p)
        /\ UNCHANGED <<faults, acked>>
     \/ /\ Fails /\ Stop(p) /\ Ack(p, cl[p].ev)
        /\ UNCHANGED <<primaryDisk, secDisk>>
  /\ UNCHANGED <<logVars, store, primary, sec, fileVars, up, recoveryVars, countVars,
                 removed, lone, calls, opens, crashes, damages>>

FlushDone(p) ==
  /\ cl[p].pc \in {"flushpoint", "flush"} /\ cl[p].todo = <<>>
  /\ IF cl[p].pc = "flush" THEN Stop(p) ELSE Goto(p, "cklog")
  /\ UNCHANGED <<logVars, store, indexVars, fileVars, up, recoveryVars, countVars, histVars,
                 boundVars>>

CheckpointEntry == [op |-> "checkpoint", ev |-> None, loc |-> 0]

(* Writer.CreateCheckpoint: the entry, a flush of the log, then the header.  *)
LogCheckpoint ==
  log' = Append(log, CheckpointEntry) /\ synced' = Len(log) + 1 /\ header' = Len(log) + 1

(* It fails before the entry is in the buffer, at the flush or at the        *)
(* header; on a closed log nothing remains of it.                            *)
CheckpointFails(isOpen) ==
  /\ UNCHANGED header
  /\ \/ UNCHANGED <<log, synced>>
     \/ /\ isOpen /\ log' = Append(log, CheckpointEntry)
        /\ synced' \in {synced, Len(log) + 1}

CreateCheckpoint(p) ==
  /\ cl[p].pc = "cklog"
  /\ \/ /\ Running /\ LogCheckpoint
        /\ At(p, "ckstore", cl[p].ev, Len(log) + 1, <<>>)
        /\ UNCHANGED <<faults, acked>>
     \/ Fails /\ Stop(p) /\ Ack(p, cl[p].ev) /\ CheckpointFails(Running)
  /\ UNCHANGED <<store, indexVars, fileVars, up, recoveryVars, countVars, removed, lone, calls,
                 opens, crashes, damages>>

StoreCheckpointLSN(p) ==
  /\ cl[p].pc = "ckstore"
  /\ lastCheckpointLSN' = cl[p].loc
  /\ Stop(p) /\ Ack(p, cl[p].ev)
  /\ UNCHANGED <<logVars, store, indexVars, fileVars, up, recoveryVars, checkpointEventCount,
                 removed, lone, boundVars>>

(* The index flusher's and the log's tickers.  The index flusher also runs   *)
(* during recovery, and an index's step can fall on either side of an insert *)
(* into it, so the indexes on disk are of different moments.                 *)
FlushTick(i) ==
  /\ up # "down" /\ FlushIndex(i)
  /\ UNCHANGED <<logVars, store, primary, sec, fileVars, up, recoveryVars, countVars, cl,
                 histVars, boundVars>>

SyncTick ==
  /\ up # "down" /\ SyncMode = "batch"
  /\ synced' = Len(log)
  /\ UNCHANGED <<log, header, store, indexVars, fileVars, up, recoveryVars, countVars, cl,
                 histVars, boundVars>>

-----------------------------------------------------------------------------
(* DeleteEvent                                                               *)

(* The primary lookup; an event that is not there is an error.               *)
StartDelete(p, e) ==
  /\ up = "open" /\ cl[p] = Idle /\ e \in Mine[p] /\ calls < MaxCalls
  /\ primary[e] # <<>>
  /\ calls' = calls + 1
  /\ acked' = acked \ {e} /\ Begin(p, e, WritePcs)
  /\ At(p, "dlog", e, primary[e][1], <<>>)
  /\ UNCHANGED <<logVars, store, indexVars, fileVars, up, recoveryVars, countVars, removed,
                 opens, crashes, faults, damages>>

LogDelete(p) ==
  LET entry == [op |-> "delete", ev |-> None, loc |-> cl[p].loc] IN
  /\ cl[p].pc = "dlog"
  /\ \/ Running /\ Append2Log(entry) /\ Goto(p, "dflag") /\ UNCHANGED faults
     \/ LogFails(entry) /\ Stop(p)
  /\ UNCHANGED <<store, indexVars, fileVars, up, recoveryVars, countVars, histVars, calls,
                 opens, crashes, damages>>

(* Mutant: the record on disk is left as it is.                              *)
FlagRecordSkipped(p) ==
  /\ cl[p].pc = "dflag"
  /\ \/ Running /\ Goto(p, "dprimary") /\ UNCHANGED faults
     \/ Fails /\ Stop(p)
  /\ UNCHANGED <<logVars, store, indexVars, fileVars, up, recoveryVars, countVars, histVars,
                 calls, opens, crashes, damages>>

(* UpdateEventFlags, in place.                                               *)
FlagRecord(p) ==
  /\ cl[p].pc = "dflag"
  /\ \/ /\ Running /\ store' = [store EXCEPT ![cl[p].loc] = Flagged(@)]
        /\ Goto(p, "dprimary") /\ UNCHANGED faults
     \/ Fails /\ Stop(p) /\ UNCHANGED store
  /\ UNCHANGED <<logVars, indexVars, fileVars, up, recoveryVars, countVars, histVars, calls,
                 opens, crashes, damages>>

DeletePrimary(p) ==
  /\ cl[p].pc = "dprimary"
  /\ \/ /\ Running
        /\ primary' = [primary EXCEPT ![cl[p].ev] = DeleteFirst(@)]
        /\ At(p, "dsecondary", cl[p].ev, cl[p].loc, InsertOrder)
        /\ UNCHANGED faults
     \/ Fails /\ Stop(p) /\ UNCHANGED primary
  /\ UNCHANGED <<logVars, store, sec, primaryDisk, secDisk, fileVars, up, recoveryVars,
                 countVars, histVars, calls, opens, crashes, damages>>

(* Mutant: only the first secondary index is cleaned.                        *)
DeleteSecondaryFirst(p) ==
  LET e == cl[p].ev  i == Head(cl[p].todo) IN
  /\ cl[p].pc = "dsecondary" /\ cl[p].todo # <<>>
  /\ At(p, "dsecondary", e, cl[p].loc, <<>>)
  /\ \/ Running /\ sec' = [sec EXCEPT ![i][e] = @ \ {cl[p].loc}] /\ UNCHANGED faults
     \/ Fails /\ UNCHANGED sec
  /\ UNCHANGED <<logVars, store, primary, primaryDisk, secDisk, fileVars, up, recoveryVars,
                 countVars, histVars, calls, opens, crashes, damages>>

(* Mutant: a secondary index that was closed is tried again.                 *)
DeleteSecondaryRetried(p) ==
  LET e == cl[p].ev  i == Head(cl[p].todo) IN
  /\ cl[p].pc = "dsecondary" /\ cl[p].todo # <<>>
  /\ \/ /\ Running /\ sec' = [sec EXCEPT ![i][e] = @ \ {cl[p].loc}]
        /\ Loop(p) /\ UNCHANGED faults
     \/ Fails /\ UNCHANGED <<sec, cl>>
  /\ UNCHANGED <<logVars, store, primary, primaryDisk, secDisk, fileVars, up, recoveryVars,
                 countVars, histVars, calls, opens, crashes, damages>>

(* The next secondary index; a failure is only a warning.                    *)
DeleteSecondary(p) ==
  LET e == cl[p].ev  i == Head(cl[p].todo) IN
  /\ cl[p].pc = "dsecondary" /\ cl[p].todo # <<>>
  /\ Loop(p)
  /\ \/ Running /\ sec' = [sec EXCEPT ![i][e] = @ \ {cl[p].loc}] /\ UNCHANGED faults
     \/ Fails /\ UNCHANGED sec
  /\ UNCHANGED <<logVars, store, primary, primaryDisk, secDisk, fileVars, up, recoveryVars,
                 countVars, histVars, calls, opens, crashes, damages>>

DeleteDone(p) ==
  /\ cl[p].pc = "dsecondary" /\ cl[p].todo = <<>>
  /\ removed' = IF p \in lone THEN removed \cup {cl[p].ev} ELSE removed
  /\ Stop(p)
  /\ UNCHANGED <<logVars, store, indexVars, fileVars, up, recoveryVars, countVars, acked, lone,
                 boundVars>>

-----------------------------------------------------------------------------
(* Close holds e.mu, but calls that passed the test of e.opened go on.  A    *)
(* flush that fails is only logged; the marker goes when that of the indexes *)
(* succeeds, whatever became of the log.                                     *)

CloseFlush ==
  /\ up = "open" /\ (CloseWaits => \A p \in Procs : cl[p] = Idle)
  /\ up' = "closing"
  /\ \/ /\ UNCHANGED faults /\ synced' = Len(log)
        /\ primaryDisk' = primary /\ secDisk' = sec /\ marker' = FALSE
     \/ /\ Fails /\ synced' = Len(log)
        /\ UNCHANGED <<primaryDisk, secDisk, marker>>
     \/ /\ Fails /\ UNCHANGED synced
        /\ primaryDisk' = primary /\ secDisk' = sec /\ marker' = FALSE
  /\ UNCHANGED <<log, header, store, primary, sec, valid, invalidated, dirtyOnStart,
                 recoveryVars, countVars, cl, histVars, calls, opens, crashes, damages>>

(* The log and the indexes flush once more before their files are closed; a  *)
(* log that cannot loses what it has buffered.                               *)
CloseFiles ==
  /\ up = "closing"
  /\ up' = "down"
  /\ \/ /\ UNCHANGED <<log, faults>> /\ synced' = Len(log)
        /\ primaryDisk' = primary /\ secDisk' = sec
     \/ /\ Fails /\ UNCHANGED log /\ synced' = Len(log)
        /\ UNCHANGED <<primaryDisk, secDisk>>
     \/ /\ Fails /\ log' = SubSeq(log, 1, synced) /\ UNCHANGED synced
        /\ primaryDisk' = primary /\ secDisk' = sec
  /\ primary' = NoPrimary /\ sec' = NoSec
  /\ UNCHANGED <<header, store, fileVars, recoveryVars, countVars, cl, histVars, calls, opens,
                 crashes, damages>>

(* The process dies.                                                         *)
Crash ==
  /\ up # "down" /\ crashes < MaxCrashes
  /\ crashes' = crashes + 1
  /\ up' = "down"
  /\ log' = SubSeq(log, 1, synced)
  /\ primary' = NoPrimary /\ sec' = NoSec
  /\ invalidated' = FALSE /\ dirtyOnStart' = FALSE
  /\ events' = {} /\ locations' = [e \in Ids |-> 0] /\ deletions' = {} /\ unscanned' = {}
  /\ lastCheckpointLSN' = 0 /\ checkpointEventCount' = 0
  /\ cl' = [p \in Procs |-> Idle]
  /\ UNCHANGED <<synced, header, store, primaryDisk, secDisk, valid, marker, histVars, calls,
                 opens, faults, damages>>

(* Index files are lost or do not validate any more.                         *)
Damage ==
  /\ up = "down" /\ valid = Indexes /\ damages < MaxDamage
  /\ damages' = damages + 1 /\ \E lost \in LostFiles : valid' = valid \ lost
  /\ UNCHANGED <<logVars, store, indexVars, marker, invalidated, dirtyOnStart, up,
                 recoveryVars, countVars, cl, histVars, calls, opens, crashes, faults>>

-----------------------------------------------------------------------------
ValidateIndexes == valid = Indexes

(* DeleteInvalidIndexes: the indexes whose files are deleted.  When the      *)
(* secondary indexes are partitioned they go together.                       *)
DeleteInvalidIndexes ==
  IF Partitioned /\ ~(Secondaries \subseteq valid)
  THEN Secondaries \cup (Indexes \ valid) ELSE Indexes \ valid

(* What manager.Open finds in the files that are left; it creates the others *)
(* empty.                                                                    *)
PrimaryLeft == IF "primary" \in DeleteInvalidIndexes THEN NoPrimary ELSE primaryDisk
SecLeft == [i \in Secondaries |-> IF i \in DeleteInvalidIndexes THEN NoSec[i] ELSE secDisk[i]]

(* Open, on a new eventStoreImpl or on one that was closed: the flags        *)
(* e.indexFilesInvalidated and e.indexDirtyOnStart are never reset.          *)
Open(fresh) ==
  /\ up = "down" /\ opens < MaxOpens /\ \A p \in Procs : cl[p] = Idle
  /\ fresh \/ Reuse
  /\ opens' = opens + 1
  /\ invalidated' = (~ValidateIndexes \/ (invalidated /\ ~fresh))
  /\ dirtyOnStart' = (marker \/ (dirtyOnStart /\ ~fresh))
  /\ marker' = TRUE /\ valid' = Indexes
  /\ primary' = PrimaryLeft /\ primaryDisk' = PrimaryLeft
  /\ sec' = SecLeft /\ secDisk' = SecLeft
  /\ lastCheckpointLSN' = header
  /\ checkpointEventCount' = IF fresh THEN 0 ELSE checkpointEventCount
  /\ up' = IF invalidated' THEN "rebuild" ELSE IF dirtyOnStart' THEN "replay"
                                                                ELSE "checkpoint"
  /\ UNCHANGED <<logVars, store, recoveryVars, cl, histVars, calls, crashes, faults, damages>>

(* replayWALFromCheckpoint: the entries after the checkpoint are collected;  *)
(* the flags of deletions are set right away.  An error stops it at some     *)
(* entry, and falls back to a rebuild.                                       *)
Collect ==
  \E last \in header..Len(log) :
    LET since == (header + 1)..last
        dels  == {k \in since : log[k].op = "delete"}
    IN
    /\ up = "replay"
    /\ store' = [l \in DOMAIN store |->
                   IF \E k \in dels : log[k].loc = l THEN Flagged(store[l]) ELSE store[l]]
    /\ events' = {e \in Ids : \E k \in since : log[k].op = "insert" /\ log[k].ev = e}
    /\ deletions' = dels
    /\ locations' = [e \in Ids |-> 0]
    /\ \/ last = Len(log) /\ up' = "locate" /\ UNCHANGED faults
       \/ up' = "rebuild" /\ faults < MaxFaults /\ faults' = faults + 1
    /\ UNCHANGED <<logVars, indexVars, fileVars, unscanned, countVars, cl, histVars, calls,
                   opens, crashes, damages>>

(* findLocationsForEvents: the primary index knows the record, or the event  *)
(* is written again.  An error here also falls back to a rebuild.            *)
Locate(e) ==
  /\ up = "locate" /\ e \in events /\ locations[e] = 0
  /\ \/ /\ IF primary[e] # <<>>
           THEN locations' = [locations EXCEPT ![e] = primary[e][1]] /\ UNCHANGED store
           ELSE /\ store' = Append(store, [id |-> e, deleted |-> FALSE])
                /\ locations' = [locations EXCEPT ![e] = Len(store) + 1]
        /\ UNCHANGED <<up, faults>>
     \/ /\ primary[e] = <<>> /\ faults < MaxFaults /\ faults' = faults + 1
        /\ up' = "rebuild" /\ UNCHANGED <<store, locations>>
  /\ UNCHANGED <<logVars, indexVars, fileVars, events, deletions, unscanned, countVars, cl,
                 histVars, calls, opens, crashes, damages>>

LocateDone ==
  /\ up = "locate" /\ \A e \in events : locations[e] # 0
  /\ up' = "insert"
  /\ UNCHANGED <<logVars, store, indexVars, fileVars, recoveryVars, countVars, cl, histVars,
                 boundVars>>

(* indexReplayer.OnInsert: every index in turn, whatever the primary holds.  *)
(* An error of the search index is only a warning; one of another index      *)
(* falls back to a rebuild.                                                  *)
ReplayInsert(e) ==
  /\ up = "insert" /\ e \in events
  /\ \E done \in SUBSET Indexes :
       /\ primary' = IF "primary" \in done
                     THEN [primary EXCEPT ![e] = InsertLoc(@, locations[e])] ELSE primary
       /\ sec' = [i \in Secondaries |->
                    IF i \in done THEN [sec[i] EXCEPT ![e] = @ \cup {locations[e]}]
                                  ELSE sec[i]]
       /\ \/ done = Indexes /\ events' = events \ {e} /\ UNCHANGED <<up, faults>>
          \/ /\ Indexes \ done = {"search"} /\ events' = events \ {e} /\ UNCHANGED up
             /\ faults < MaxFaults /\ faults' = faults + 1
          \/ /\ done \in {{}, {"primary"}, {"primary", "author_time"}}
             /\ faults < MaxFaults /\ faults' = faults + 1
             /\ up' = "rebuild" /\ UNCHANGED events
  /\ UNCHANGED <<logVars, store, primaryDisk, secDisk, fileVars, locations, deletions,
                 unscanned, countVars, cl, histVars, calls, opens, crashes, damages>>

(* The next deletion to replay is the first one of the log.                  *)
IsNext(k) == k \in deletions /\ \A j \in deletions : k <= j

(* Mutant: the replayed deletion stays first.                                *)
ReplayDeleteStuck(k) ==
  LET l == log[k].loc  e == store[l].id IN
  /\ up = "insert" /\ events = {} /\ IsNext(k)
  /\ primary' = [primary EXCEPT ![e] = DeleteFirst(@)]
  /\ sec' = [i \in Secondaries |-> [sec[i] EXCEPT ![e] = @ \ {l}]]
  /\ UNCHANGED <<logVars, store, primaryDisk, secDisk, fileVars, up, recoveryVars, countVars,
                 cl, histVars, boundVars>>

(* Mutant: the deletions of the log are not replayed on the indexes.         *)
ReplayDeleteSkipped(k) ==
  /\ up = "insert" /\ events = {} /\ IsNext(k)
  /\ deletions' = deletions \ {k}
  /\ UNCHANGED <<logVars, store, indexVars, fileVars, up, events, locations,
                 unscanned, countVars, cl, histVars, boundVars>>

(* indexReplayer.replayDelete, after all inserts: the primary entry whatever *)
(* its location, the secondary entries at the logged location.  An index     *)
(* that fails keeps its entry, with a warning.                               *)
ReplayDelete(k) ==
  LET l == log[k].loc  e == store[l].id IN
  /\ up = "insert" /\ events = {} /\ IsNext(k)
  /\ deletions' = deletions \ {k}
  /\ \E kept \in SUBSET Indexes :
       /\ primary' = IF "primary" \in kept THEN primary
                     ELSE [primary EXCEPT ![e] = DeleteFirst(@)]
       /\ sec' = [i \in Secondaries |->
                    IF i \in kept THEN sec[i] ELSE [sec[i] EXCEPT ![e] = @ \ {l}]]
       /\ \/ kept = {} /\ UNCHANGED faults
          \/ kept # {} /\ faults < MaxFaults /\ faults' = faults + 1
  /\ UNCHANGED <<logVars, store, primaryDisk, secDisk, fileVars, up, events, locations,
                 unscanned, countVars, cl, histVars, calls, opens, crashes, damages>>

ReplayDone ==
  /\ up = "insert" /\ events = {} /\ deletions = {}
  /\ up' = "checkpoint"
  /\ UNCHANGED <<logVars, store, indexVars, fileVars, recoveryVars, countVars, cl, histVars,
                 boundVars>>

(* Mutant: deleted records are indexed too.                                  *)
RebuildReopenAll ==
  /\ up = "rebuild"
  /\ up' = "scan"
  /\ primaryDisk' = primary /\ secDisk' = sec /\ UNCHANGED <<primary, sec>>
  /\ events' = {} /\ deletions' = {} /\ UNCHANGED locations
  /\ unscanned' = DOMAIN store
  /\ UNCHANGED <<logVars, store, fileVars, countVars, cl, histVars, boundVars>>

(* rebuildIndexesFromSegments: the index manager is closed, which writes the *)
(* indexes out, and opened again.  The files it wants deleted in between are *)
(* those that do not validate, and by now all of them do.                    *)
RebuildReopen ==
  /\ up = "rebuild"
  /\ up' = "scan"
  /\ primaryDisk' = primary /\ secDisk' = sec /\ UNCHANGED <<primary, sec>>
  /\ events' = {} /\ deletions' = {} /\ UNCHANGED locations
  /\ unscanned' = {l \in DOMAIN store : ~store[l].deleted}
  /\ UNCHANGED <<logVars, store, fileVars, countVars, cl, histVars, boundVars>>

(* InsertRecoveryBatch: records arrive in any order, from parallel scanners. *)
(* One whose location the primary index has is passed over, in all indexes;  *)
(* another copy of an event replaces the one indexed before.                 *)
RebuildRecord(l) ==
  LET e == store[l].id  old == primary[e] IN
  /\ up = "scan" /\ l \in unscanned
  /\ unscanned' = unscanned \ {l}
  /\ IF old # <<>> /\ Head(old) = l THEN UNCHANGED <<primary, sec>>
     ELSE /\ primary' = [primary EXCEPT ![e] = InsertLoc(DeleteFirst(@), l)]
          /\ sec' = [i \in Secondaries |-> [sec[i] EXCEPT ![e] =
                       (IF old = <<>> THEN @ ELSE @ \ {old[1]}) \cup {l}]]
  /\ UNCHANGED <<logVars, store, primaryDisk, secDisk, fileVars, up, events, locations,
                 deletions, countVars, cl, histVars, boundVars>>

(* The final flush; its failure is a warning.                                *)
RebuildDone ==
  /\ up = "scan" /\ unscanned = {}
  /\ up' = "checkpoint"
  /\ \/ primaryDisk' = primary /\ secDisk' = sec /\ UNCHANGED faults
     \/ faults < MaxFaults /\ faults' = faults + 1 /\ UNCHANGED <<primaryDisk, secDisk>>
  /\ UNCHANGED <<logVars, store, primary, sec, fileVars, recoveryVars, countVars, cl,
                 histVars, calls, opens, crashes, damages>>

(* The end of Open: a checkpoint, without a flush of the indexes.            *)
OpenDone ==
  /\ up = "checkpoint"
  /\ up' = "open"
  /\ \/ LogCheckpoint /\ lastCheckpointLSN' = Len(log) + 1 /\ UNCHANGED faults
     \/ /\ faults < MaxFaults /\ faults' = faults + 1
        /\ CheckpointFails(TRUE) /\ UNCHANGED lastCheckpointLSN
  /\ UNCHANGED <<store, indexVars, fileVars, recoveryVars, checkpointEventCount, cl,
                 histVars, calls, opens, crashes, damages>>

-----------------------------------------------------------------------------
Call(p) ==
  \/ LogInsert(p) \/ AppendRecord(p) \/ InsertPrimary(p) \/ InsertSecondary(p)
  \/ NoteEventsWritten(p) \/ FlushNext(p) \/ FlushDone(p) \/ CreateCheckpoint(p)
  \/ StoreCheckpointLSN(p) \/ LogDelete(p) \/ FlagRecord(p) \/ DeletePrimary(p)
  \/ DeleteSecondary(p) \/ DeleteDone(p)

Recovery ==
  \/ Collect \/ LocateDone \/ ReplayDone
  \/ \E e \in Ids : Locate(e) \/ ReplayInsert(e)
  \/ \E k \in deletions : ReplayDelete(k)
  \/ RebuildReopen \/ RebuildDone \/ OpenDone
  \/ \E l \in unscanned : RebuildRecord(l)

Next ==
  \/ \E p \in Clients : \/ StartFlush(p)
                        \/ \E e \in Ids : StartWrite(p, e) \/ StartDelete(p, e)
  \/ \E p \in Procs : Call(p)
  \/ Tick \/ SyncTick \/ \E i \in Indexes : FlushTick(i)
  \/ CloseFlush \/ CloseFiles \/ Crash \/ Damage
  \/ \E fresh \in BOOLEAN : Open(fresh)
  \/ Recovery

Spec == Init /\ [][Next]_vars

(* Open and every call run on goroutines of their own, which the scheduler   *)
(* of Go does not starve.                                                    *)
LiveSpec == Spec /\ WF_vars(Recovery) /\ \A p \in Procs : WF_vars(Call(p))

-----------------------------------------------------------------------------
PCs == {"idle", "log", "append", "primary", "secondary", "flushpoint", "flush", "cklog",
        "ckstore"} \cup DeletePcs

(* Type invariant.                                                           *)
TypeOK ==
  /\ log \in Seq(Entry) /\ synced \in 0..Len(log) /\ header \in 0..synced
  /\ store \in Seq([id : Ids, deleted : BOOLEAN])
  /\ primary \in [Ids -> Seq(Nat)] /\ primaryDisk \in [Ids -> Seq(Nat)]
  /\ sec \in [Secondaries -> [Ids -> SUBSET Nat]]
  /\ secDisk \in [Secondaries -> [Ids -> SUBSET Nat]]
  /\ valid \subseteq Indexes /\ marker \in BOOLEAN
  /\ invalidated \in BOOLEAN /\ dirtyOnStart \in BOOLEAN
  /\ up \in {"down", "replay", "locate", "insert", "rebuild", "scan", "checkpoint", "open",
             "closing"}
  /\ events \subseteq Ids /\ locations \in [Ids -> Nat] /\ deletions \subseteq Nat
  /\ unscanned \subseteq Nat
  /\ lastCheckpointLSN \in Nat /\ checkpointEventCount \in Nat
  /\ cl \in [Procs -> [pc : PCs, ev : Ids \cup {None}, loc : Nat,
                       todo : Seq(Secondaries \cup {"primary"})]]
  /\ acked \subseteq Ids /\ removed \subseteq Ids /\ lone \subseteq Clients
  /\ calls \in Nat /\ opens \in Nat /\ crashes \in Nat /\ faults \in Nat /\ damages \in Nat

RecordOf(l, e) == l \in DOMAIN store /\ store[l].id = e

(* Every index entry, in memory or on disk, points to a record of its event, *)
(* whatever calls, flushes, crashes and recoveries interleave.               *)
Located ==
  \A e \in Ids :
    /\ \A k \in DOMAIN primary[e] : RecordOf(primary[e][k], e)
    /\ \A k \in DOMAIN primaryDisk[e] : RecordOf(primaryDisk[e][k], e)
    /\ \A i \in Secondaries : \A l \in sec[i][e] \cup secDisk[i][e] : RecordOf(l, e)

(* "Crash-safe intent logging: write WAL before mutating                     *)
(* persistent/indexed state" (docs/eventstore.md:72): with SyncMode "always" *)
(* every record has its insert, and every deleted flag its deletion, in the  *)
(* part of the log that survives.                                            *)
WriteAhead ==
  SyncMode = "always" =>
    \A l \in DOMAIN store :
      /\ \E k \in 1..synced : log[k].op = "insert" /\ log[k].ev = store[l].id
      /\ store[l].deleted => \E k \in 1..synced : log[k].op = "delete" /\ log[k].loc = l

DeletionLogged(e) ==
  \E k \in DOMAIN log : log[k].op = "delete" /\ store[log[k].loc].id = e

(* "WAL-first ... Survives process crashes before index sync"                *)
(* (docs/eventstore.md:43): with SyncMode "always", an event whose           *)
(* WriteEvent returned and that was never deleted is found by GetEvent       *)
(* whenever the store is open.                                               *)
Retrievable ==
  SyncMode = "always" /\ up = "open" =>
    \A e \in acked : DeletionLogged(e) \/ GetEvent(e)

(* The same for an event that was deleted and written again.                 *)
RewrittenRetrievable ==
  SyncMode = "always" /\ up = "open" => \A e \in acked : GetEvent(e)

(* GetEvent does not return an event whose DeleteEvent returned nil and that *)
(* was not written since.                                                    *)
Gone == SyncMode = "always" /\ up = "open" => \A e \in removed : ~GetEvent(e)

(* Nor does a query answered from a secondary index.                         *)
GoneFromQueries ==
  SyncMode = "always" /\ up = "open" =>
    \A e \in removed : \A i \in Secondaries : ~Query(i, e)

(* When no call is in progress every secondary index holds the same records  *)
(* as the primary index.                                                     *)
IndexesAgree ==
  up = "open" /\ (\A p \in Procs : cl[p] = Idle) =>
    \A e \in Ids, i \in Secondaries :
      sec[i][e] = {primary[e][k] : k \in DOMAIN primary[e]}

(* Open returns, by replay, by rebuild or by a replay that falls back to a   *)
(* rebuild, unless the process dies.                                         *)
RecoveryEnds ==
  up \in {"replay", "locate", "insert", "rebuild", "scan", "checkpoint"}
    ~> up \in {"open", "down"}

(* Every call returns, even when the store is closed under it.               *)
CallsReturn == \A p \in Procs : cl[p] # Idle ~> cl[p] = Idle

=============================================================================
