-------------------------------- MODULE Wal --------------------------------
(* The write-ahead log: FileWriter, FileReader and FileManager               *)
(* (src/src/wal/file_wal.go, src/src/wal/manager.go).                        *)
(*                                                                           *)
(* Every method of FileWriter runs under w.mu, so two methods never          *)
(* interleave; but each issues several I/O calls, any of which may fail and  *)
(* between any two of which the machine may stop.  A method is therefore a   *)
(* chain of actions, one per I/O call, linked by pc; only a crash or a       *)
(* FileManager call (which takes m.mu, not w.mu) can come in between.        *)
(*                                                                           *)
(* Sizes are counted in records: a serialized entry is one unit, the segment *)
(* header is one unit.                                                       *)
EXTENDS Integers, Sequences, FiniteSets

CONSTANTS
  SyncMode,        \* Config.SyncMode: "always", "batch" or "never"
  MaxSegmentSize,  \* Config.MaxSegmentSize in units; 0 disables rotation
  BatchSize,       \* Config.BatchSizeBytes in units
  MaxBatch,        \* bound: entries in one Write/WriteBatch call
  MaxId,           \* bound: entries ever written
  MaxSegments,     \* bound: highest segment id
  MaxCrashes,      \* bound: crashes
  MaxFaults,       \* bound: failed I/O calls
  Faults,          \* the I/O calls that may fail
  TornWrites       \* may a write stop in the middle of a record

IOCalls == {"write", "sync", "create", "header", "mark"}

ASSUME WalConstants ==
  /\ SyncMode \in {"always", "batch", "never"}
  /\ {MaxSegmentSize, BatchSize, MaxId, MaxSegments, MaxCrashes, MaxFaults} \subseteq Nat
  /\ MaxBatch \in Nat \ {0}
  /\ Faults \subseteq IOCalls
  /\ TornWrites \in BOOLEAN

VARIABLES
  segs,            \* the WAL directory: segment id -> file
  file,            \* w.file: "open", "nil", or "closed" (a handle already closed)
  segmentID,       \* w.segmentID
  segmentSize,     \* w.segmentSize
  buffer,          \* w.buffer
  lastLSN,         \* w.lastLSN
  checkpoint,      \* w.checkpoint.LSN
  checkpoints,     \* the last of m.checkpoints, 0 if there is none
  ticking,         \* batchFlusher is running
  pc,              \* next I/O call of the method that holds w.mu; "idle", "down"
  ret,             \* where flushLocked returns to
  op,              \* the method that holds w.mu
  pend,            \* entries that method has still to append to the buffer
  nextId,          \* history: identities given to entries so far
  accepted,        \* history: entries appended to the buffer and not lost by a crash
  flushed,         \* history: entries covered by a flushLocked that returned nil
  deleted,         \* history: entries whose segment was deleted
  adopted,         \* history: checkpoints Open took over from records not yet synced
  crashes, faults  \* history: the bounds used up

writer  == <<file, segmentID, segmentSize, buffer, lastLSN, checkpoint, ticking>>
call    == <<pc, ret, op, pend>>
history == <<nextId, accepted, flushed, deleted, adopted, crashes, faults>>
vars    == <<segs, file, segmentID, segmentSize, buffer, lastLSN, checkpoint,
             checkpoints, ticking, pc, ret, op, pend, nextId, accepted, flushed,
             deleted, adopted, crashes, faults>>

SegIds == 0..MaxSegments
NoHdr  == -1                    \* a file of size 0: its header was never written

(* A serialized entry.  "torn" is the start of a record whose end was never  *)
(* written: its checksum cannot match.                                       *)
Entry   == [op : {"data", "checkpoint", "torn"}, lsn : Nat, id : Nat]
Torn    == [op |-> "torn", lsn |-> 0, id |-> 0]
Segment == [here : BOOLEAN, hdr : Nat \cup {NoHdr}, recs : Seq(Entry), synced : Nat]
NoFile  == [here |-> FALSE, hdr |-> NoHdr, recs |-> <<>>, synced |-> 0]
EmptyFile == [here |-> TRUE, hdr |-> NoHdr, recs |-> <<>>, synced |-> 0]

IdsOf(s)     == {s[i].id : i \in DOMAIN s}
Prefix(s, n) == SubSeq(s, 1, n)
DiskIds      == UNION {IdsOf(segs[i].recs) : i \in SegIds}
SyncedIds    == UNION {IdsOf(Prefix(segs[i].recs, segs[i].synced)) : i \in SegIds}

-----------------------------------------------------------------------------
(* Reading a segment: readNextInternal and the scanSegment functions return  *)
(* the records in front of the first torn one.  A torn record at the end of  *)
(* the file is taken for the end of the segment; one with bytes after it is  *)
(* a checksum mismatch.                                                      *)
Readable(recs) ==
  LET whole == {n \in 0..Len(recs) : \A i \in 1..n : recs[i].op # "torn"}
  IN  Prefix(recs, CHOOSE n \in whole : \A m \in whole : m <= n)

Corrupt(recs) == \E i \in 1..(Len(recs) - 1) : recs[i].op = "torn"

(* scanSegmentForLastEntry *)
LastLsnOf(recs) ==
  LET r == Readable(recs) IN IF r = <<>> THEN 0 ELSE r[Len(r)].lsn

LastCheckpointOf(recs) ==
  LET r  == Readable(recs)
      at == {i \in DOMAIN r : r[i].op = "checkpoint"}
  IN  IF at = {} THEN 0 ELSE r[CHOOSE i \in at : \A j \in at : j <= i].lsn

(* File s holds the record of checkpoint c, synced.                          *)
Backs(s, c) ==
  \E k \in 1..s.synced : s.recs[k].op = "checkpoint" /\ s.recs[k].lsn = c

(* listWalSegments: the files present; the last one is the active segment.   *)
Present     == {i \in SegIds : segs[i].here}
LastSegment == IF Present = {} THEN 0
               ELSE CHOOSE i \in Present : \A j \in Present : j <= i

(* Mutant: the reader stops one segment early.                               *)
ReadLogShort ==
  IF Present = {} THEN <<>>
  ELSE LET upTo[i \in SegIds] ==
             LET before == IF i = 0 THEN <<>> ELSE upTo[i - 1]
             IN  IF segs[i].here /\ i # LastSegment
                 THEN before \o Readable(segs[i].recs) ELSE before
       IN  upTo[MaxSegments]

(* What a FileReader opened at LSN 0 returns: the segments in id order, up   *)
(* to the first one that is corrupt.                                         *)
ReadLog ==
  LET upTo[i \in SegIds] ==
        LET before == IF i = 0 THEN [out |-> <<>>, err |-> FALSE] ELSE upTo[i - 1]
        IN  IF before.err \/ ~segs[i].here THEN before
            ELSE [out |-> before.out \o Readable(segs[i].recs),
                  err |-> segs[i].hdr = NoHdr \/ Corrupt(segs[i].recs)]
  IN  upTo[MaxSegments].out

-----------------------------------------------------------------------------
Init ==
  /\ segs = [i \in SegIds |-> NoFile]
  /\ file = "nil" /\ segmentID = 0 /\ segmentSize = 0
  /\ buffer = <<>> /\ lastLSN = 0 /\ checkpoint = 0 /\ checkpoints = 0
  /\ ticking = FALSE
  /\ pc = "down" /\ ret = "idle" /\ op = "none" /\ pend = <<>>
  /\ nextId = 0 /\ accepted = {} /\ flushed = {} /\ deleted = {} /\ adopted = {}
  /\ crashes = 0 /\ faults = 0

(* FileManager.Open and FileWriter.Open on a directory without segments, or  *)
(* whose last segment has no header: the header is written with checkpoint 0 *)
(* and LSNs start from 0.                                                    *)
OpenFresh ==
  /\ pc = "down"
  /\ segs[LastSegment].hdr = NoHdr
  /\ segmentID' = LastSegment
  /\ segs' = [segs EXCEPT ![LastSegment] = [EmptyFile EXCEPT !.hdr = 0]]
  /\ segmentSize' = 1 /\ lastLSN' = 0 /\ checkpoint' = 0 /\ checkpoints' = 0
  /\ file' = "open" /\ buffer' = <<>> /\ ticking' = (SyncMode = "batch")
  /\ pc' = "idle" /\ op' = "none" /\ pend' = <<>>
  /\ UNCHANGED <<ret, history>>

(* Mutant: the segment is opened with O_TRUNC.                               *)
OpenTruncating ==
  /\ pc = "down"
  /\ segs[LastSegment].hdr # NoHdr
  /\ segmentID' = LastSegment
  /\ segs' = [segs EXCEPT ![LastSegment] = [EmptyFile EXCEPT !.hdr = 0]]
  /\ segmentSize' = 1 /\ lastLSN' = 0 /\ checkpoint' = 0 /\ checkpoints' = 0
  /\ file' = "open" /\ buffer' = <<>> /\ ticking' = (SyncMode = "batch")
  /\ pc' = "idle" /\ op' = "none" /\ pend' = <<>>
  /\ UNCHANGED <<ret, history>>

(* Open on an existing segment.  Only the last segment is scanned; a scan    *)
(* error is a warning that leaves lastLSN at 0.  Bytes after a torn record   *)
(* may also parse as one long record that runs past the end of the file,     *)
(* which ends the scan quietly.                                              *)
OpenExisting ==
  /\ pc = "down"
  /\ segs[LastSegment].hdr # NoHdr
  /\ segmentID' = LastSegment
  /\ LET s == segs[LastSegment] IN
     /\ segmentSize' = 1 + Len(s.recs)
     /\ \E scanned \in {TRUE} \cup {~Corrupt(s.recs)} :
          /\ lastLSN' = IF scanned THEN LastLsnOf(s.recs) ELSE 0
          /\ checkpoint' = IF s.hdr > 0 \/ ~scanned THEN s.hdr
                                                    ELSE LastCheckpointOf(s.recs)
     /\ checkpoints' = s.hdr
     /\ adopted' = IF checkpoint' = s.hdr \/ Backs(s, checkpoint') THEN adopted
                   ELSE adopted \cup {checkpoint'}
  /\ file' = "open" /\ buffer' = <<>> /\ ticking' = (SyncMode = "batch")
  /\ pc' = "idle" /\ op' = "none" /\ pend' = <<>>
  /\ UNCHANGED <<segs, ret, nextId, accepted, flushed, deleted, crashes, faults>>

-----------------------------------------------------------------------------
Return == pc' = "idle" /\ op' = "none" /\ pend' = <<>> /\ UNCHANGED ret

Fault(io) == io \in Faults /\ faults < MaxFaults /\ faults' = faults + 1

(* Write and WriteBatch up to ensureCapacityLocked: LSNs are assigned first. *)
Write(n) ==
  /\ pc = "idle" /\ file # "nil"
  /\ nextId + n <= MaxId
  /\ lastLSN' = lastLSN + n
  /\ pend' = [i \in 1..n |-> [op |-> "data", lsn |-> lastLSN + i, id |-> nextId + i]]
  /\ nextId' = nextId + n
  /\ op' = "write" /\ pc' = "capacity"
  /\ UNCHANGED <<segs, file, segmentID, segmentSize, buffer, checkpoint, checkpoints,
                 ticking, ret, accepted, flushed, deleted, adopted, crashes, faults>>

(* The n-th entry of a call is larger than walMaxRecordSize: the call fails  *)
(* and the LSNs it took are not given back.                                  *)
WriteTooLarge(n) ==
  /\ pc = "idle" /\ file # "nil"
  /\ nextId + n <= MaxId
  /\ lastLSN' = lastLSN + n
  /\ nextId' = nextId + n
  /\ UNCHANGED <<segs, file, segmentID, segmentSize, buffer, checkpoint, checkpoints,
                 ticking, call, accepted, flushed, deleted, adopted, crashes, faults>>

(* CreateCheckpoint up to ensureCapacityLocked; it does not test w.file.     *)
CreateCheckpoint ==
  /\ pc = "idle"
  /\ nextId < MaxId
  /\ lastLSN' = lastLSN + 1
  /\ pend' = <<[op |-> "checkpoint", lsn |-> lastLSN + 1, id |-> nextId + 1]>>
  /\ nextId' = nextId + 1
  /\ op' = "checkpoint" /\ pc' = "capacity"
  /\ UNCHANGED <<segs, file, segmentID, segmentSize, buffer, checkpoint, checkpoints,
                 ticking, ret, accepted, flushed, deleted, adopted, crashes, faults>>

(* ensureCapacityLocked; a segment that would overflow is rotated, which     *)
(* starts with a flush.                                                      *)
EnsureCapacity ==
  /\ pc = "capacity"
  /\ IF MaxSegmentSize = 0 \/ segmentSize + Len(buffer) + Len(pend) <= MaxSegmentSize
     THEN pc' = "batch" /\ UNCHANGED ret
     ELSE pc' = "flush" /\ ret' = "create"
  /\ UNCHANGED <<segs, writer, checkpoints, op, pend, history>>

(* rotateLocked after its flush: close the segment, open the next one.       *)
CreateSegment ==
  /\ pc = "create"
  /\ segmentID < MaxSegments
  /\ segmentID' = segmentID + 1
  /\ \/ /\ segs' = [segs EXCEPT ![segmentID + 1] = EmptyFile]
        /\ file' = "open" /\ segmentSize' = 0
        /\ pc' = "header" /\ UNCHANGED <<ret, op, pend, faults>>
     \/ /\ Fault("create")
        /\ file' = "nil" /\ Return /\ UNCHANGED <<segs, segmentSize>>
  /\ UNCHANGED <<buffer, lastLSN, checkpoint, checkpoints, ticking, nextId, accepted,
                 flushed, deleted, adopted, crashes>>

(* writeHeaderWithCheckpoint in the new segment; when its write or its sync  *)
(* fails the handle is closed but stays in w.file.                           *)
WriteHeader ==
  /\ pc = "header"
  /\ \/ /\ segs' = [segs EXCEPT ![segmentID].hdr = checkpoint]
        /\ segmentSize' = 1
        /\ pc' = "batch" /\ UNCHANGED <<file, ret, op, pend, faults>>
     \/ /\ Fault("header")
        /\ segs' \in {segs, [segs EXCEPT ![segmentID].hdr = checkpoint]}
        /\ file' = "closed" /\ Return /\ UNCHANGED segmentSize
  /\ UNCHANGED <<segmentID, buffer, lastLSN, checkpoint, checkpoints, ticking, nextId,
                 accepted, flushed, deleted, adopted, crashes>>

(* Write and WriteBatch in batch mode flush first when the buffer would      *)
(* outgrow BatchSizeBytes.                                                   *)
BatchFlush ==
  /\ pc = "batch"
  /\ IF op = "write" /\ SyncMode = "batch" /\ Len(buffer) + Len(pend) > BatchSize
     THEN pc' = "flush" /\ ret' = "append"
     ELSE pc' = "append" /\ UNCHANGED ret
  /\ UNCHANGED <<segs, writer, checkpoints, op, pend, history>>

(* Mutant: the checkpoint header is written before the flush.                *)
AppendBufferMarkFirst ==
  /\ pc = "append"
  /\ buffer' = buffer \o pend
  /\ accepted' = accepted \cup IdsOf(pend)
  /\ IF op = "checkpoint"
     THEN pc' = "mark" /\ UNCHANGED <<ret, op, pend>>
     ELSE Return
  /\ UNCHANGED <<segs, file, segmentID, segmentSize, lastLSN, checkpoint, checkpoints,
                 ticking, nextId, flushed, deleted, adopted, crashes, faults>>

(* The entries enter the buffer; mode "always" and CreateCheckpoint flush.   *)
AppendBuffer ==
  /\ pc = "append"
  /\ buffer' = buffer \o pend
  /\ accepted' = accepted \cup IdsOf(pend)
  /\ IF op = "checkpoint" \/ SyncMode = "always"
     THEN /\ pc' = "flush" /\ ret' = IF op = "checkpoint" THEN "mark" ELSE "idle"
          /\ UNCHANGED <<op, pend>>
     ELSE Return
  /\ UNCHANGED <<segs, file, segmentID, segmentSize, lastLSN, checkpoint, checkpoints,
                 ticking, nextId, flushed, deleted, adopted, crashes, faults>>

(* updateHeaderCheckpointLocked, then w.checkpoint.  The failure is that of  *)
(* opening or writing the file, or of the sync of a header that was written. *)
MarkHeader ==
  /\ pc = "mark"
  /\ \/ /\ segs' = [segs EXCEPT ![segmentID].hdr = pend[1].lsn]
        /\ checkpoint' = pend[1].lsn /\ UNCHANGED faults
     \/ /\ Fault("mark")
        /\ segs' \in {segs, [segs EXCEPT ![segmentID].hdr = pend[1].lsn]}
        /\ UNCHANGED checkpoint
  /\ Return
  /\ UNCHANGED <<file, segmentID, segmentSize, buffer, lastLSN, checkpoints, ticking,
                 nextId, accepted, flushed, deleted, adopted, crashes>>

(* Flush by the application, or a tick of batchFlusher.                      *)
Flush ==
  /\ pc = "idle"
  /\ pc' = "flush" /\ ret' = "idle" /\ op' = "flush"
  /\ UNCHANGED <<segs, writer, checkpoints, pend, history>>

(* Mutant: batchFlusher is never started.                                    *)
TickNever == FALSE /\ Flush

Tick == ticking /\ buffer # <<>> /\ Flush

(* Close stops the ticker (a second Close would close w.done twice), flushes *)
(* and closes the file.                                                      *)
Close ==
  /\ pc = "idle" /\ (SyncMode = "batch" => ticking)
  /\ ticking' = FALSE
  /\ pc' = "flush" /\ ret' = "close" /\ op' = "close"
  /\ UNCHANGED <<segs, file, segmentID, segmentSize, buffer, lastLSN, checkpoint,
                 checkpoints, pend, history>>

CloseFile ==
  /\ pc = "close"
  /\ file' = "nil" /\ pc' = "down" /\ op' = "none"
  /\ UNCHANGED <<segs, segmentID, segmentSize, buffer, lastLSN, checkpoint, checkpoints,
                 ticking, ret, pend, history>>

(* flushLocked with an empty buffer.                                         *)
FlushNothing ==
  /\ pc = "flush" /\ buffer = <<>>
  /\ IF ret = "idle" THEN Return ELSE pc' = ret /\ UNCHANGED <<ret, op, pend>>
  /\ UNCHANGED <<segs, writer, checkpoints, history>>

(* Mutant: a failed write clears the buffer.                                 *)
FlushWriteDropping ==
  /\ pc = "flush" /\ buffer # <<>>
  /\ \/ /\ file = "open"
        /\ segs' = [segs EXCEPT ![segmentID].recs = @ \o buffer]
        /\ segmentSize' = segmentSize + Len(buffer)
        /\ pc' = "sync" /\ UNCHANGED <<ret, op, pend, faults, buffer>>
     \/ /\ Fault("write") /\ buffer' = <<>>
        /\ Return /\ UNCHANGED <<segs, segmentSize>>
  /\ UNCHANGED <<file, segmentID, lastLSN, checkpoint, checkpoints, ticking,
                 nextId, accepted, flushed, deleted, adopted, crashes>>

(* flushLocked: w.file.Write.  A failed write may have appended a part of    *)
(* the buffer; a handle that is nil or closed fails without writing.         *)
FlushWrite ==
  /\ pc = "flush" /\ buffer # <<>>
  /\ \/ /\ file = "open"
        /\ segs' = [segs EXCEPT ![segmentID].recs = @ \o buffer]
        /\ segmentSize' = segmentSize + Len(buffer)
        /\ pc' = "sync" /\ UNCHANGED <<ret, op, pend, faults>>
     \/ /\ file = "open" /\ Fault("write")
        /\ \E n \in 0..(Len(buffer) - 1), torn \in {FALSE, TornWrites} :
             segs' = [segs EXCEPT ![segmentID].recs =
                        @ \o Prefix(buffer, n) \o IF torn THEN <<Torn>> ELSE <<>>]
        /\ Return /\ UNCHANGED segmentSize
     \/ /\ file # "open" /\ Return /\ UNCHANGED <<segs, segmentSize, faults>>
  /\ UNCHANGED <<file, segmentID, buffer, lastLSN, checkpoint, checkpoints, ticking,
                 nextId, accepted, flushed, deleted, adopted, crashes>>

(* Mutant: the error of Sync is ignored.                                     *)
FlushSyncUnchecked ==
  /\ pc = "sync"
  /\ \/ /\ segs' = [segs EXCEPT ![segmentID].synced = Len(segs[segmentID].recs)]
        /\ UNCHANGED faults
     \/ Fault("sync") /\ UNCHANGED segs
  /\ buffer' = <<>>
  /\ flushed' = flushed \cup IdsOf(buffer)
  /\ IF ret = "idle" THEN Return ELSE pc' = ret /\ UNCHANGED <<ret, op, pend>>
  /\ UNCHANGED <<file, segmentID, segmentSize, lastLSN, checkpoint, checkpoints, ticking,
                 nextId, accepted, deleted, adopted, crashes>>

(* flushLocked: w.file.Sync; the buffer is cleared only when it succeeds.    *)
FlushSync ==
  /\ pc = "sync"
  /\ \/ /\ segs' = [segs EXCEPT ![segmentID].synced = Len(segs[segmentID].recs)]
        /\ buffer' = <<>>
        /\ flushed' = flushed \cup IdsOf(buffer)
        /\ IF ret = "idle" THEN Return ELSE pc' = ret /\ UNCHANGED <<ret, op, pend>>
        /\ UNCHANGED faults
     \/ Fault("sync") /\ Return /\ UNCHANGED <<segs, buffer, flushed>>
  /\ UNCHANGED <<file, segmentID, segmentSize, lastLSN, checkpoint, checkpoints, ticking,
                 nextId, accepted, deleted, adopted, crashes>>

-----------------------------------------------------------------------------
Remove(S) ==
  /\ segs' = [i \in SegIds |-> IF i \in S THEN NoFile ELSE segs[i]]
  /\ deleted' = deleted \cup UNION {IdsOf(segs[i].recs) : i \in S}
  /\ UNCHANGED <<writer, checkpoints, call, nextId, accepted, flushed, adopted, crashes,
                 faults>>

(* DeleteSegmentsBefore: every inactive segment whose last LSN is smaller,   *)
(* up to the first segment that does not scan; a corrupt segment may scan    *)
(* quietly, as in Open.                                                      *)
DeleteSegmentsBefore(lsn) ==
  /\ pc # "down"
  /\ LET old == Present \ {segmentID} IN
     \E bad \in SUBSET {i \in old : segs[i].hdr = NoHdr \/ Corrupt(segs[i].recs)} :
       /\ \A i \in old : segs[i].hdr = NoHdr => i \in bad
       /\ Remove({i \in old : /\ \A j \in bad : i < j
                             /\ LastLsnOf(segs[i].recs) < lsn})

(* CleanupSegments: all but the last keep inactive segments.                 *)
CleanupSegments(keep) ==
  /\ pc # "down" /\ keep > 0
  /\ LET old == Present \ {segmentID}
     IN  Remove({i \in old : Cardinality({j \in old : j > i}) >= keep})

(* The process dies.  What was written is in the operating system's cache;   *)
(* when the machine dies with it, a segment keeps only a part of what was    *)
(* not yet synced, which may end inside a record.                            *)
Crash ==
  /\ pc # "down" /\ crashes < MaxCrashes
  /\ crashes' = crashes + 1
  /\ \/ UNCHANGED segs
     \/ \E i \in SegIds, torn \in {FALSE, TornWrites} :
        \E n \in segs[i].synced..(Len(segs[i].recs) - 1) :
          LET kept == Prefix(segs[i].recs, n) \o IF torn THEN <<Torn>> ELSE <<>>
          IN  segs' = [segs EXCEPT ![i].recs = kept, ![i].synced = Len(kept)]
  /\ pc' = "down" /\ file' = "nil" /\ buffer' = <<>> /\ ticking' = FALSE
  /\ op' = "none" /\ pend' = <<>>
  /\ accepted' = accepted \cap (DiskIds' \cup deleted)
  /\ UNCHANGED <<segmentID, segmentSize, lastLSN, checkpoint, checkpoints, ret, nextId,
                 flushed, deleted, adopted, faults>>

-----------------------------------------------------------------------------
(* The I/O calls of the method that holds w.mu.                              *)
Step ==
  \/ EnsureCapacity \/ CreateSegment \/ WriteHeader \/ BatchFlush \/ AppendBuffer
  \/ MarkHeader \/ FlushNothing \/ FlushWrite \/ FlushSync \/ CloseFile

Next ==
  \/ OpenFresh \/ OpenExisting
  \/ \E n \in 1..MaxBatch : Write(n) \/ WriteTooLarge(n)
  \/ CreateCheckpoint \/ Flush \/ Tick \/ Close
  \/ Step
  \/ DeleteSegmentsBefore(checkpoint)
  \/ \E keep \in 1..MaxSegments : CleanupSegments(keep)
  \/ Crash

Spec == Init /\ [][Next]_vars

(* A method that holds w.mu runs on; batchFlusher's ticker keeps firing, and *)
(* sync.Mutex does not starve it.                                            *)
FairSpec == Spec /\ WF_vars(Step) /\ SF_vars(Tick)

-----------------------------------------------------------------------------
(* The entries a recovery could still find, and the promise made of them.    *)
LogIds == (IdsOf(buffer) \cup DiskIds) \ {Torn.id}
Promise == INSTANCE DurableLog WITH log <- LogIds, durable <- flushed, deleted <- deleted

(* The log keeps the promise of module DurableLog: no failed I/O call, torn  *)
(* write, crash, reopening or rotation removes an entry that flushLocked     *)
(* confirmed; only DeleteSegmentsBefore and CleanupSegments do.              *)
ImplementsDurableLog == Promise!Spec

-----------------------------------------------------------------------------
PCs == {"down", "idle", "capacity", "create", "header", "batch", "append", "mark",
        "flush", "sync", "close"}

(* Type invariant of the directory, the writer and the call in progress.     *)
TypeOK ==
  /\ segs \in [SegIds -> Segment]
  /\ file \in {"open", "nil", "closed"}
  /\ segmentID \in SegIds /\ segmentSize \in Nat
  /\ buffer \in Seq(Entry) /\ pend \in Seq(Entry)
  /\ lastLSN \in Nat /\ checkpoint \in Nat /\ checkpoints \in Nat
  /\ ticking \in BOOLEAN
  /\ pc \in PCs /\ ret \in {"idle", "create", "append", "mark", "close"}
  /\ op \in {"none", "write", "checkpoint", "flush", "close"}
  /\ nextId \in Nat /\ accepted \subseteq Nat /\ flushed \subseteq Nat
  /\ deleted \subseteq Nat /\ adopted \subseteq Nat
  /\ crashes \in Nat /\ faults \in Nat

(* "After Flush returns, all previous entries are crash-safe" (wal.go:102):  *)
(* the bytes of every entry that a flushLocked covered are synced in some    *)
(* segment, whatever I/O failed and however often the process crashed.       *)
FlushedDurable == flushed \ deleted \subseteq SyncedIds

(* An entry that reached the buffer stays there until it is synced: no       *)
(* failed write, failed sync, rotation or close drops it; only a crash may.  *)
AcceptedNotLost == accepted \ deleted \subseteq IdsOf(buffer) \cup DiskIds

(* The log up to segment i holds the synced record of checkpoint c, unless   *)
(* one of its segments was deleted.                                          *)
Backed(c, i) ==
  (\E g \in 0..(i - 1) : ~segs[g].here) \/ (\E j \in 0..i : Backs(segs[j], c))

(* A header names checkpoint c only once the checkpoint's own record is      *)
(* synced in the log (CreateCheckpoint flushes before it updates the header, *)
(* rotation hands the checkpoint on), through any failures and crashes.  The *)
(* exception: a checkpoint that Open took over from a record which survived  *)
(* a crash without having been synced; a second crash may take the record.   *)
HeaderBacked ==
  \A i \in Present : segs[i].hdr > 0 => segs[i].hdr \in adopted \/ Backed(segs[i].hdr, i)

(* A file without header has no records, and what is synced was written.     *)
DiskOK ==
  \A i \in SegIds :
    /\ segs[i].synced <= Len(segs[i].recs)
    /\ segs[i].hdr = NoHdr => segs[i].recs = <<>>
    /\ ~segs[i].here => segs[i].hdr = NoHdr

(* No file is newer than the active segment, an open handle is that of the   *)
(* active segment, after the write of flushLocked the buffer is in it, and   *)
(* the file is closed with an empty buffer.                                  *)
WriterOK ==
  /\ pc # "down" => \A i \in SegIds : segs[i].here => i <= segmentID
  /\ file = "open" => /\ pc # "down" /\ segs[segmentID].here
                      /\ pc # "header" => segs[segmentID].hdr # NoHdr
  /\ pc \in {"sync", "header", "mark"} => file = "open"
  /\ pc = "sync" => IdsOf(buffer) \subseteq IdsOf(segs[segmentID].recs)
  /\ pc \in {"close", "down"} => buffer = <<>>

(* Only CreateCheckpoint marks the header, with the one entry it appended.   *)
CallOK ==
  /\ op = "checkpoint" => Len(pend) = 1
  /\ pc = "mark" => op = "checkpoint"
  /\ pc \in {"flush", "sync"} /\ ret = "mark" => op = "checkpoint" /\ buffer # <<>>

(* The inductive invariant: what holds between any two I/O calls of a method *)
(* and makes durability survive every failure of any of them.                *)
IndInv ==
  TypeOK /\ FlushedDurable /\ AcceptedNotLost /\ DiskOK /\ WriterOK /\ CallOK

(* The log is append-only: the synced records of a segment never change      *)
(* while the segment exists.                                                 *)
AppendOnly ==
  [][\A i \in SegIds : segs'[i].here =>
       /\ segs'[i].synced >= segs[i].synced
       /\ Prefix(segs'[i].recs, segs[i].synced) = Prefix(segs[i].recs, segs[i].synced)]_vars

(* Reader.Read: "Entries are returned in order of increasing LSN"            *)
(* (wal.go:129).  A crash after a rotation breaks it (README, section 4).    *)
ReadInOrder ==
  LET r == ReadLog IN \A i, j \in DOMAIN r : i < j => r[i].lsn < r[j].lsn

(* "All flushed entries survive crashes" (docs/wal.md:2192): a reader of the *)
(* log returns every entry that a flush covered.                             *)
FlushedReadable == flushed \ deleted \subseteq IdsOf(ReadLog)

(* batchFlusher: an entry in the buffer is synced, unless a crash or Close   *)
(* stops the ticker first.                                                   *)
EventuallyFlushed ==
  \A x \in 1..MaxId : x \in IdsOf(buffer) ~> (x \in flushed \/ ~ticking)

=============================================================================
