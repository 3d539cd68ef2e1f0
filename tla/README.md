# A TLA+ model of nostr_event_store

Specifications of the event store in `src/`, TLC configurations that check them
on small instances, and proofs checked by TLAPS.  Paths below are relative to
the repository (`src/src/...` here is `src/...` there).

## 1. The system

| part | state | operations | interacts with |
|---|---|---|---|
| `wal`: writer, reader, manager | segment files, buffer, last LSN, checkpoint in the header | Open, Write, WriteBatch, Flush, CreateCheckpoint, rotation, batch ticker, DeleteSegmentsBefore, CleanupSegments, read | everything durable goes through it |
| `eventstore`: coordinator | components, `.dirty` marker, `lastCheckpointLSN`, event count | WriteEvent(s), DeleteEvent(s), GetEvent, Query, Flush, createCheckpoint, Open/recovery, Close, RebuildIndexes, RunCompactionOnce | all |
| `store`, `storage`: records | segment files of pages, next offset, flags in place | WriteRecord, ReadEvent, UpdateEventFlags, rotation, scan | coordinator, rebuild, compaction |
| `index`: four B+trees, manager, flusher | nodes in pages, dirty pages in a cache | Insert, Delete, Get, Range, Flush, validation, InsertRecoveryBatch | coordinator, query |
| `index`: time partitions | list of partitions, active one | insert, range selection, merge | B+tree, cache coordinator |
| `cache` | LRU lists, dirty counts, allocations | Get, Set, evict, resize | B+tree, partitions |
| `query`, `aggregation` | none (iterators) | compile, merge, intersect, count | indexes, store |
| `compaction`, `recovery` | statistics, candidates | DoCompact, integrity scan | storage |
| `shard`: ring, distributed store, rebalancer | ring, shards, tasks | Insert, Delete, Query, rebalance | local and remote stores |
| `client`, `remote` | connection, retry and health state | RPCs | shards |
| `config`, `types`, `metrics`, tools | data | none of interest | |

What is hard about it: API calls hold `e.mu` only while they test `e.opened`, so
the steps of concurrent calls, of the checkpoint scheduler, of the index flusher
and of Close interleave; the indexes on disk are always of several moments; a
crash may fall between any two steps; recovery is a second implementation of
every write; most errors of the indexes are only warnings.  `PROJECT.json` lists
the hazards at the lines where they bite, and which property covers which.

## 2. Modules

| module | what it is |
|---|---|
| `Wal` | the write-ahead log, one action per I/O call |
| `DurableLog` | what the log promises to its user; `Wal` refines it |
| `EventStore` | the coordinator over log, record store and indexes: calls, checkpoints, recovery, Close |
| `Storage` | segment files, records, scanners, batch append, compaction, the scan of the recovery manager |
| `BTree` | one index file: B+tree pages, the page cache, flush and reopening, iterators |
| `Partition` | an index split into files by time |
| `Query` | filters, plans, key ranges, merging and intersecting iterators |
| `Aggregation` | counting by group from index keys |
| `ReadPath` | queries, counts, aggregations and DeleteByFilter beside writers and deleters |
| `HashRing` | consistent hashing |
| `ShardStore` | the distributed store and the rebalancer over `HashRing` |
| `MCWal`, `MCEventStore`, `MCStorage`, `MCBTree`, `MCReadPath`, `MCShardStore` | instances for TLC |
| `WalProofs` | proofs about the log, and that it implements `DurableLog` |
| `EventStoreCalls` | the inductive invariant of the coordinator; calls, flushers and tickers keep it |
| `EventStoreProofs` | Close, crashes and recovery keep it; the theorems about the coordinator |
| `ShardStoreProofs` | the ring, routing, that no event is lost, the rebalancer's queue |
| `DeleteProofs` | what DeleteEvents leaves on the shards |
| `QueryProofs` | the merge of the shards' answers and what a federated query returns |

Each layer takes the one below as an abstraction of what the lower module checks:
`EventStore` sees the log as a sequence with a synced prefix (`Wal` implements
`DurableLog`), records as a sequence (`Storage`: an acknowledged location stays
readable) and an index as a map that a flush writes at once (`BTree`: `Exact`);
`ReadPath` sees an index file as a sorted set (`BTree`: `ScanExact`); a shard of
`ShardStore` is a set of live events.

### Wal

`Wal.tla` models `FileWriter`, `FileReader` and `FileManager`
(`src/src/wal/file_wal.go`, `manager.go`).  Every method of `FileWriter` runs
under `w.mu` but issues several I/O calls; a method is a chain of actions, one
per I/O call, linked by `pc`, so that any call may fail and the machine may stop
between any two (a header and its sync are one action, whose failure leaves the
old header or the new one).  A crash is that of the process, which leaves the files as they
are, or of the machine: data that was not synced is lost, and the last record may
be torn.  `DurableLog` is the abstract log: an
entry that a flush confirmed is lost only by deleting its segment.

### EventStore

State and code:

| variable | code |
|---|---|
| `log`, `synced`, `header` | the log as a sequence (an LSN is a position), its synced part, the checkpoint LSN in its header |
| `store` | the records; a location is a position; a record is an event and its deleted flag |
| `primary` | the primary index: per event the locations under its key, in leaf order (newest first) |
| `sec` | the secondary indexes: per event the locations under its keys |
| `primaryDisk`, `secDisk` | the index files |
| `valid`, `marker` | the indexes whose files ValidateIndexes accepts; the `.dirty` file exists |
| `invalidated`, `dirtyOnStart` | the fields of the same names, which Close does not reset |
| `up` | closed, the phases of Open, open, Close in progress |
| `events`, `locations`, `deletions`, `unscanned` | the local state of a replay or rebuild |
| `lastCheckpointLSN`, `checkpointEventCount` | the fields |
| `cl` | per goroutine: where its call stands, for which event and location, and which indexes are left |
| `acked`, `removed`, `lone` | history: what callers were told |

A method is split at every access to shared state: WriteEvent is `StartWrite`
(duplicate check), `LogInsert`, `AppendRecord`, `InsertPrimary`,
`InsertSecondary` per index, `NoteEventsWritten` and, when the count is reached,
the steps of `createCheckpoint` (`FlushNext` per index, `FlushDone`,
`CreateCheckpoint`, `StoreCheckpointLSN`).  DeleteEvent is `StartDelete`,
`LogDelete`, `FlagRecord`, `DeletePrimary`, `DeleteSecondary` per index,
`DeleteDone`.  Open is `Open`, then `Collect`, `Locate`, `LocateDone`,
`ReplayInsert`, `ReplayDelete`, `ReplayDone` for the log replay, or
`RebuildReopen`, `RebuildRecord`, `RebuildDone` for the rebuild, then `OpenDone`.
`RebuildReopen` is the closing and reopening of the index manager: it deletes the
files that do not validate (`DeleteInvalidIndexes`) and no others.
`Tick`, `FlushTick` and `SyncTick` are the background goroutines; `Crash` is the
death of the process; `Damage` is the loss of a set of index files out of
`LostFiles` while the store is closed.

Abstractions, and why they lose nothing the properties ask about:

- A flush of one index is one step (`btree.flush` holds the tree's lock); the
  pages of one index are not torn.
- Segment retention is only in `Wal`, pages and segments of records only in
  `Storage`.
- CloseFlush and CloseFiles are two steps.  In each, one of the log and the
  indexes may fail to flush, which Close only logs; the `.dirty` marker goes when
  the indexes are flushed, whatever became of the log.  Close closes the
  components in the order in which a call uses them, so a call that finds one
  closed finds the later ones closed too.
- The atomic add and compare-and-swap of `noteEventsWritten`, with the LSN test
  that starts `createCheckpoint`, are one step.
- The storage flush inside Flush and createCheckpoint does not change what a
  process crash leaves; its failure has the effect of a failed checkpoint.
- A rebuild inserts record by record, in any order of the segments: the batches
  of the code may end anywhere, and its scanners run in parallel.
- Failing reads and lookups, and failures inside a rebuild, which make Open
  return an error, are left out.  `RecoveryMode` is the default; the log is on.
- The history variables only count a write (deletion) that no deletion (write)
  of the same event overlapped: callers can expect nothing of the others.

### Storage

`file` is what the process sees of each segment, `disk` what was synced, `segs`
the `FileSegment` objects.  A file is a sequence of pages and a size in bytes; a
record starts on a page of its own and continues on the next ones, so lengths and
limits are computed in bytes as in the code.  A write is `WriteEvent` or
`WriteEvents`, then `Step`: read the current segment, append, rotate when it
refuses, append again.  `UpdateEventFlags`, `Flush`, `Close`, `Open`, `Crash` (any
set of unsynced pages is lost, the header page included; a file without its
header makes the next Open fail), `StartCompaction` and `Compact` are the other
actions; `rebuildEventIDMap` is the scan of the recovery manager: its map keeps
one location per event, that of the copy scanned last, and the segments come in
any order.  `RecoveryFinds` therefore says that every acknowledged event with an
undeleted record is in the map, and that whichever record the map names is
undeleted and reads back as that event; the later pages of a copy that a
compaction left may be torn, since pages carry no checksum.  `Malformed`
events have an empty tag: the serializer writes them and the deserializer refuses
them.

### BTree

`tree` is the tree as the cache has it, `file` and `disk` the index file before
and after fsync.  Insert and Delete are whole operations on pages of bytes, with
splits on size, borrowing and merging; the insert that splits has a second step
(`FinishInsert`) because an iterator, which takes no lock between two pages, can
see what is between.  `Evict` writes a dirty page back, `Flush`, `FlushFails`,
`Close`, `Crash` and `Open` are as in the code, and a scan is `Scan` and then
`IterStep` per call of Next.  A descending iterator counts the keys of a leaf and
then copies them, and a deletion in between makes it index past the end
(`persist_tree.go:1258-1261`): the model stops such an iterator (phase `"panic"`).
`Evict` leaves the pages that the operation in progress holds in the cache; where
the cache does not (`cache/btree_cache.go:143`), or where a `Put` fails between
the two pages of a split (`persist_tree.go:2044`, `2070`, which leaves the right
leaf without a parent), the model says nothing.  Keys are naturals with a length; trees start loaded
(`Loads`) so that two writes reach splits and merges of the root.  A crash after
an eviction leaves a mixture of pages (`mode = "torn"`), of which nothing is
promised here; the `.dirty` marker makes the coordinator recover then.

### Partition, Query, Aggregation, ReadPath

The first three are operators on index contents: which partitions a range of
times selects; which index a filter is compiled to, with which ranges; how ranges
are merged newest first, with the limits on stalled and cyclic iterators; how two
merges are intersected; how groups are counted from the keys of one index or the
join of two.  The kinds and authors of a filter are lists, which may name one
twice: each element has a range of its own.  The values of a tag `t` have a case,
which `hasTag` ignores and the keys of the index do not (`Folded`).  `ReadPath`
runs them: a query is `StartQuery`, `OpenRange` per range
and partition, `ReadEvent` per result, and `QueryDone` or `CancelQuery`, beside
`WriteEvent`, `WriteEvents` (with the ghost check after indexing), `DeleteEvent`
and `DeleteByFilter`, which queries and deletes in batches.  The steps of these
are one per index.  `Reopen` loses a partition file that exists and does not open.

Abstractions: an iterator reads its partition when it is opened (what a scan
beside writes returns is `BTree`'s subject); the order of equal timestamps is
that of the ranges; all partitions have one length instead of the calendar's; an
index update of one batch is one step per index that may fail for any subset of
its entries; the limits on intermediate join sets, the cache budgets of the
partitions and the wording of errors are left out.

### HashRing, ShardStore

The ring is a bag of hashes and a map from hash to node, as the slice and the map
of the code; `GetNode` is the search.  In `ShardStore` a call on the distributed
store is split where it leaves the lock: `InsertRoute` and `Insert`,
`InsertBatchStart`, `InsertBatchRoute` per event and `InsertBatch` per shard,
`QueryStart`, `QueryRoute` per author, `QueryShard` per shard and `QueryEnd`, and
so on for deletions and GetByID; every call on a shard may fail or time out.
`AddShard`, `RemoveShard` and `Close` change the topology meanwhile.  The
rebalancer is its goroutine (`WorkerTick`, `WorkerBegin`, `WorkerPlan`,
`MigrateShard`, `MigrateEnd`, `VerifyShard`, `VerifyEnd`, `WorkerFinish`) and its
callers (`StartRebalance`, `CancelCurrentTask`, `Stop`).  `MigrateShard` and
`VerifyShard` find no event on a shard, because the scan they ask for is not
implemented (section 4): they only record failures.  Clients' filters name kinds,
so that a shard has an index to answer them from.  Events of a shard that is
removed leave with it and are not expected any more.

## 3. Runs

Every run is bounded by named constants (`Max...`, declared as bounds in the
modules).  `CHECK_DEADLOCK FALSE` is set because a bounded application stops
calling.

| run | checks | bounds and why they are enough |
|---|---|---|
| `wal_faults` | `FlushedDurable`, `AcceptedNotLost`, `HeaderBacked`, `AppendOnly`, refinement of `DurableLog` | segments of a few records, so rotation happens; any one failing I/O call, torn writes, two crashes, so that what a crash left unsynced meets another |
| `wal_crash` | `FlushedReadable`, `EventuallyFlushed` | two crashes, so that a recovered log is recovered again; a failing write or sync that the ticker retries |
| `es_concurrent` | `Located` | two clients on one event, scheduler, tickers, Close under calls, a crash, a fault: every pair of actors on one key |
| `es_crash` | `WriteAhead`, `Retrievable`, `Gone` | four calls on two events with a checkpoint at every second write, so that the crash falls before, in and after checkpoints, and recovery is followed by another Open |
| `es_damage` | `RewrittenRetrievable`, `GoneFromQueries`, `IndexesAgree` | write, delete, write again, then loss of the primary or of all index files and a rebuild from up to three records, in any scan order |
| `es_live` | `RecoveryEnds`, `CallsReturn` | a crash, a fault and any lost files in one history: replay, rebuild, and replay that falls back to rebuild |
| `es_lostindex` | violates `IndexesAgree` | one write, a clean Close, the loss of one secondary index file, Open |
| `storage` | `AckedReadable`, `RecoveryFinds`, `RotationsBounded` | records of one page, of one page and a byte, of two and of four pages, in segments of five; two writers, a flag, a flush, and two out of crash, close and compaction |
| `btree` | `TreeShape`, `Exact`, `Found`, `ScanExact`, `KeysLived` | trees of depth three on pages of three entries, with keys of two lengths, so that two writes split, borrow and merge up to the root; one eviction, one scan or crash |
| `readpath` | `NewestFirst`, `OnlyMatching`, `NothingMissed`, `NeverSpins`, `NoGhosts`, `DeletesAllMatching`, `CountExact`, `AggregationExact` | six events in three partitions; every plan of the compiler; one write or deletion and one failure beside one call |
| `shard_calls` | `RingRoutes`, `NothingLost`, `QueryComplete`, `DeletedEverywhere`, `TasksCounted`, `MinimalRemap`, `TaskEnds` | three shards, one added later, two authors; two out of calls and rebalance tasks (`MaxWork`), so that two calls, two tasks, or one of each overlap, and one failure, stop, cancellation, close or removal at any point |
| `shard_rebalance` | violates `OwnerHolds` | one shard added and one rebalance, nothing failing |

What the properties leave out, because the code does not do it (section 4):
`es_crash` has one client without the interval scheduler, and `es_damage` neither
crash nor fault; `btree` has one entry per key; the properties of `readpath` are
about filters that the indexes decide (`IndexDecides`: at most one tag name, an
indexed one, no search text), about calls whose iterators did not give up
(`sound`), and `AggregationExact` about the aggregations of `AggRegular`.
`NothingMissed`, `DeletesAllMatching` and `AggregationExact` are about the events
a filter asks for by every account of it (`Wanted`, `SameLetters`; section 4) and
about plans other than the scan, which finds nothing; `TaskEnds` makes no claim
once somebody has called Stop.

Fairness.  In `EventStore`, `LiveSpec` is weak fairness of the goroutine that runs
a call and of the one that runs Open: a goroutine that can run is scheduled.  In
`Wal`, `FairSpec` is weak fairness of the method in progress and strong fairness
of the batch ticker, which waits for `w.mu`: `time.Ticker` fires again and again,
and Go's mutex hands itself over to a waiter after a millisecond, so the ticker
gets its turn although writers keep taking the lock.  In `ShardStore`, `FairSpec`
is weak fairness of the rebalancer's goroutine.  No fairness is assumed of
clients, crashes, faults, operators or of the index flusher.

## 4. Where code, comments and docs disagree

Two are kept as runs.  `es_lostindex`: `rebuildIndexesFromSegments`
wants to start from empty indexes ("Delete all index files to ensure clean
rebuild", `eventstore_impl.go:2270`) but deletes only files that do not validate.
Open has created the missing file, empty and valid, by then, and the others are
intact; `InsertRecoveryBatch` skips each record that the primary index already
has at its location, and the repair of the other indexes is switched off because
"indexes start empty" (`index/manager.go:300`).  The lost index stays empty, after
Open and after RebuildIndexes.  For the same reason search entries of deleted
events are not "reclaimed at the next full rebuild" (`eventstore_impl.go`, in
`writeEventsBatch`).

`shard_rebalance`: "MigrateEventsForShard migrates all events that belong to a
different shard in the new ring" (`shard/migration.go:34`), but it queries the
source with a filter of a limit and nothing else (`migration.go:108`).  The
compiler has no index for such a filter and plans a scan
(`query/compiler.go:130`), and a scan is "not implemented, return empty"
(`query/executor.go:1251`).  So no event is ever copied; the verification asks in
the same way and finds nothing wrong, and the task completes without a failure.
After a shard was added, a query by one of the authors that moved no longer finds
their older events, before and after a rebalance.

TLC finds each of the following when a configuration is changed as the table says
(for `EventStore`: one event, one index, synchronous log, all other bounds 0; for
`LostFiles` all indexes at once).

| property | constants | history |
|---|---|---|
| `ReadInOrder` (`Wal`) | 1 crash, no fault, no torn write, 2 segments | a crash after a rotation leaves a last segment without entries; LSNs restart from 0 (`wal/wal.go:129` "in order of increasing LSN") |
| `FlushedReadable` (`Wal`) | 2 crashes, `TornWrites = TRUE`, sync always | Open appends behind a torn record (`wal/file_wal.go:88`); what follows is unreadable |
| `Retrievable` | one client, 1 call, 2 opens, 1 crash, `Scheduler = TRUE` | an interval checkpoint passes a write that has not reached the indexes (`eventstore_impl.go:2194`); crash |
| `RewrittenRetrievable` | one client, 3 calls, 2 opens, 1 crash | write, delete, write again: replay deletes after it inserted, whatever the order in the log (`:1975`) |
| `GoneFromQueries` | one client, 2 calls, 2 opens, 1 crash | replay writes a deleted event again and leaves it in the secondary indexes (`:2060`) |
| `Retrievable` | one client, 1 call, 3 opens, 2 crashes | Open's own checkpoint (`:350`) is taken without an index flush; a second crash loses what the replay inserted |
| `Retrievable` | one client, 1 call, 3 opens, 1 crash, 1 damage, `CheckpointEvery = 1` | a crash during a rebuild leaves valid, incomplete index files, and the next Open replays from the checkpoint |
| `Retrievable` | one client, 1 call, 2 opens, `CloseWaits = FALSE` | Close under a write that then reports success (`:490`); the marker is gone |
| `Gone` | two clients, 3 calls, 1 open | two writes of one event pass the duplicate check (`:458`); one copy survives the deletion |
| `Gone` | one client, 2 calls, 3 opens, 1 crash, 1 damage | the second copy that replay writes of a deleted event is indexed by a later rebuild |
| `IndexesAgree` | two clients, 2 calls, 1 open | a deletion between the primary and the secondary inserts of a write of the same event (`:495`) |
| `DeletesOnlyMatching` (`ReadPath`) | `DeleteFilters <- MCTwoTags` | a filter with two indexed tag names selects events with either of them, and DeleteByFilter deletes those ("AND logic across tags", `docs/query.md:133`) |

What translating the code showed besides, by part:

- **Log.** `FileManager.LastCheckpoint` (`wal/manager.go:86`) returns a copy taken
  at Open; the coordinator only calls it there.  A failed sync keeps the buffer
  and the retry appends it again: a reader may see an entry twice, with one LSN.
  A checkpoint record that was written but not synced when the process died is
  taken over by the next Open (`wal/file_wal.go:122`); a rotation flushes nothing
  when the buffer is empty, does not sync the old segment and copies the
  checkpoint into the new header.  If the machine then dies, the header names a
  checkpoint whose record is gone.  `HeaderBacked` names exactly this exception
  (`adopted`); without it TLC finds the history with two crashes.
- **Records.** A segment with less than a record's room left that `IsFull` does
  not call full refuses a single WriteEvent again and again
  (`store/eventstore.go:159`).  Tag names are cut to one byte, and an empty tag
  makes a record that cannot be read back.  The compactor drops a record that
  does not fit in its new segment (`compaction_impl.go:245`), deletes its sources
  before the new segment is synced, and, like ValidateSegmentIntegrity, does not
  end when a scan keeps returning an error.  Compaction takes `e.mu`, which calls
  in progress no longer hold.
- **B+tree.** With equal keys in several leaves, get, delete and insert look at
  one of them: entries are missed or inserted twice (`persist_tree.go:1804`).
  The comments on the two ends of a range contradict each other: `[minKey,
  maxKey]` for Range and RangeDesc in `index.go:79` and `:86`, `[minKey, maxKey)`
  in `persist_index.go:186` and `:194`.  The code includes both ends ascending and
  excludes the upper one descending; aggregations use the former and queries the
  latter, and `ScanExact` states what the code does.  A
  descending iterator only tests the lower bound, so a merge under it can make it
  return a key above the range; splits and borrows under an iterator can hide
  entries from it, and a deletion between its counting and its copying of the
  keys of a leaf makes a descending one panic.  A new separator is stored
  without testing the size of the page.  A page that is evicted while an operation holds it loses the operation's
  change (`cache/btree_cache.go:143`).
- **Partitions, queries.** A partition that begins exactly at the end of the range
  is not selected although aggregation includes that moment.  Queries exclude
  `Until` when an index answers them, which `docs/query.md:122` and `:132` say
  too; `MatchesFilter` (`filters.go:26`) and the comment on the field
  (`types/event.go:210`) include it, and so do aggregations.  The properties leave
  that second open.  Values of a tag `t` match without regard to case in
  `hasTag` (`filters.go:75`) and with regard to it in the search index, so whether
  a query ignores case depends on its plan.  A filter that no index answers is
  planned as a scan, which finds, counts and deletes nothing.  In an aggregation a
  kind or author named twice outside a join is counted twice
  (`aggregation/compiler.go:217`, `:314`); joins of a tag filter with authors work,
  although `docs/aggregation.md:246` and `types/aggregation.go:24` call them
  unsupported.  Filters without kinds mean the default kinds
  only.  QueryCount over the index also counts entries of deleted events.  The
  intersection plan ignores tags that are not indexed and the search text.  A
  partition file that does not open is skipped, and overwritten when its period
  is written again.  In a join an event with several values of a tag is counted
  under one of them.
- **Shards.** Delete stops at the first shard that deletes the event, and an event
  that is written again after a shard was added is on two; Insert routes and then writes, so a shard added in
  between is not used; a goroutine that sees Stop late may leave a later task
  waiting.

## 5. Proofs

All theorems hold for every value of the constants, from the named assumptions
`WalConstants`, `EventStoreConstants`, `RingConstants`, `DistinctHashes` and
`ShardConstants`: the constants have the types their comments give,
`"scheduler"` is not a client, no two virtual nodes have the same hash, and the
store starts with finitely many shards and knows finitely many events.

**Log.** `IndInv` is the inductive invariant of `Wal`: LSNs and files are
consistent with `pc`, every confirmed entry is synced in a segment that was not
deleted, every accepted entry is in the buffer or in a segment.  `FlushedDurable`
alone is not inductive: between the write and the sync of a flush nothing in it
says that the entries about to be confirmed are in the file.  From `IndInv` follow
`TypeOK`, `FlushedDurable` and `AcceptedNotLost`.  One lemma, `StepKeeps`, says
that a step removes a file or keeps its synced records; `AppendOnly`, that `Wal`
implements `DurableLog`, and `HeaderBackedAlways` rest on it.  The last needs
`HeaderOK`: rotation copies the writer's checkpoint into a new header, so that one
must be backed as well, and CreateCheckpoint marks the header with an entry that
was in the buffer, then in the file, then synced (`MarkOK`).

**Coordinator.** `EventStoreProofs` proves `Spec => []IInv`, where `IInv` is

- `TypeOK`;
- `Points`: every entry of the indexes and of the index files points to a record
  of its event (`Located`);
- `CallsOK`: a call past `AppendRecord`, or in a deletion, holds a location of
  its own event, and its write or deletion is in the synced log if the log is
  synchronous;
- `LogOK`: a deletion in the log names an existing record, and while the store is
  closed or being opened the whole log is synced;
- `RecoveryOK`: the locations, deletions and scan list of a recovery are of
  existing records, and what it is about to insert is logged;
- `StoreOK`: with `SyncMode = "always"` each record and each flag is covered by
  the synced log (`WriteAhead`).

`Located` is not inductive alone, because a call inserts a location it obtained
several steps before and a replay one it looked up or wrote before; hence
`CallsOK` and `RecoveryOK`.  `WriteAhead` needs the same two for what was logged
before, and `LogOK` since a crash truncates the log to `synced`.  Records are
never removed and keep their event, so all three survive every other step.  From
`IInv` follow `TypeCorrect`, `AlwaysLocated` and `AlwaysWriteAhead`.

**Shards.** `ShardStoreProofs` characterises the ring: after any additions and
removals it is the ring of its node set (`AddNodeRing`, `RemoveNodeRing`), a key
goes to the node of the first point at or after its hash or of the least point,
and a point added to a set is the only one the search can newly find
(`SuccessorAdded`).  From `RingInv`, "the ring is the ring of the registered
shards", follow `RoutesAlways` and `RemapsMinimally`.  `NothingLostAlways` is
proved from `StoreInv`: `RingInv`, which ties the open shards to the registered
ones, that each shard holds a set of events, and `NothingLost` itself.  A write
acknowledges only what it has put on a shard that is still registered, a
rebalance removes nothing, a deletion takes what it removes out of what is expected,
and so does the removal of a shard for the events no other shard has.

The other three invariants of the distributed store each have an inductive
invariant of their own, over `TypeInv`, the types of all its variables.

- `TasksCountedAlways` (`ShardStoreProofs`), from `QueueInv`: while the goroutine works
  on a task, that task is the head of the queue, and the goroutine leaves it only
  with a final status.  A count alone does not say that the element that leaves
  the queue is the task that was counted.
- `DeletedEverywhereAlways` (`DeleteProofs`), from `DeleteInv`: a copy comes back
  only through a call that already holds the event, so a deleted event must not be
  held by any of them (`Busy`); and while DeleteEvents is on its way,
  the copies left are on shards it has still to ask.
- `QueryCompleteAlways` (`QueryProofs`), from `QueryInv`: an event the query must
  return is among the answers, has been outdone by a full page of events no older
  from a shard that has answered, or is on an open shard that has not.  The step
  to the result is `MergeProperties`: sorting a finite family of events is
  possible (`SortExists`), the first `limit` of the sorted answers contain every
  answer or are all no older than the ones cut off.

Only model-checked, and why:

- all liveness properties: TLAPS has no rules for fairness and `ENABLED` here;
- `FlushedReadable`: `ReadLog` reads the segments one after the other, a recursive
  function over their number, and what it computes needs an induction;
- `Retrievable`, `RewrittenRetrievable`, `Gone`, `GoneFromQueries`,
  `IndexesAgree`: they hold only under conditions on the environment (the runs'
  constants; section 4 shows what happens without them) and not for every value;
- everything about `Storage`, `BTree` and `ReadPath`, whose properties rest on
  recursive operators and on folds over pages and lists: what a recursive definition computes for every input needs an
  induction these provers cannot do.

## 6. Not modelled

- RebuildIndexes on an open store beside running calls (its steps are those of
  the rebuild during Open), `RecoveryMode` "skip", a disabled log.
- The in-memory B+tree and single-index adapters, which the index manager does
  not use; `repairSecondaryIndexes`, PutWithWriter and other code without callers.
- The general caches and the allocation of cache memory: no index or record
  depends on what they hold.
- Remote shards, the RPC client and server: they forward calls; that any call on
  a shard may fail is in `ShardStore`.
- Configuration, types, errors, metrics, converters, the log validator and the
  command line tools: data, formatting and offline reading.

`components` in `PROJECT.json` lists every part with its status.
