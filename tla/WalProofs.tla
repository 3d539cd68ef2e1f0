----------------------------- MODULE WalProofs -----------------------------
(* Theorems about module Wal, for every value of its constants: the entries  *)
(* a flush confirmed stay durable, no entry is dropped without a crash, the  *)
(* log is append-only, a header names only checkpoints whose record is       *)
(* synced, and Wal implements DurableLog.                                    *)
EXTENDS Wal, TLAPS, SequenceTheorems, WellFoundedInduction

-----------------------------------------------------------------------------
(* Facts about naturals, IdsOf and Prefix.                                   *)

(* A non-empty set of bounded naturals has a greatest element.              *)
LEMMA MaxExists ==
  ASSUME NEW n \in Nat, NEW S \in SUBSET (0..n), S # {}
  PROVE  \E m \in S : \A k \in S : k <= m
<1> DEFINE T == {n - k : k \in S}
<1> DEFINE R == OpToRel(<, Nat)
<1>1. S # {} /\ \A k \in S : k \in Int /\ n - k \in Nat
  OBVIOUS
<1>2. T \subseteq Nat /\ T # {}
  BY <1>1
<1>3. PICK x \in T : \A y \in T : ~(<<y, x>> \in R)
  <2>1. IsWellFoundedOn(R, Nat) BY NatLessThanWellFounded
  <2> HIDE DEF T, R
  <2> QED BY <1>2, <2>1, WFMin
<1>4. \A y \in T : ~(y < x)
  BY <1>2, <1>3 DEF OpToRel
<1>5. PICK m \in S : x = n - m
  OBVIOUS
<1>6. ASSUME NEW k \in S PROVE k <= m
  <2>1. k \in Int /\ m \in Int /\ n \in Int BY <1>1
  <2>2. ~(n - k < n - m) BY <1>4, <1>5
  <2> QED BY <2>1, <2>2
<1> QED BY <1>6

LEMMA PrefixProperties ==
  ASSUME NEW s \in Seq(Entry), NEW n \in 0..Len(s)
  PROVE  /\ Prefix(s, n) \in Seq(Entry)
         /\ Len(Prefix(s, n)) = n
         /\ \A i \in 1..n : Prefix(s, n)[i] = s[i]
BY SubSeqProperties DEF Prefix

LEMMA IdsOfType ==
  ASSUME NEW s \in Seq(Entry)
  PROVE  IdsOf(s) \subseteq Nat
<1>1. \A i \in DOMAIN s : s[i] \in Entry
  BY ElementOfSeq, LenProperties
<1> QED BY <1>1 DEF IdsOf, Entry

LEMMA IdsOfEmpty == IdsOf(<<>>) = {}
BY DEF IdsOf

LEMMA IdsOfConcat ==
  ASSUME NEW s \in Seq(Entry), NEW t \in Seq(Entry)
  PROVE  /\ s \o t \in Seq(Entry)
         /\ IdsOf(s \o t) = IdsOf(s) \cup IdsOf(t)
<1>1. /\ s \o t \in Seq(Entry)
      /\ Len(s \o t) = Len(s) + Len(t)
      /\ \A i \in 1..(Len(s) + Len(t)) :
           (s \o t)[i] = IF i <= Len(s) THEN s[i] ELSE t[i - Len(s)]
  BY ConcatProperties
<1>2. ASSUME NEW x \in IdsOf(s) PROVE x \in IdsOf(s \o t)
  <2>1. PICK i \in 1..Len(s) : x = s[i].id
    BY <1>2, LenProperties DEF IdsOf
  <2>2. i \in 1..(Len(s) + Len(t)) /\ (s \o t)[i] = s[i]
    BY <1>1, LenProperties
  <2> QED BY <1>1, <2>1, <2>2, LenProperties DEF IdsOf
<1>3. ASSUME NEW x \in IdsOf(t) PROVE x \in IdsOf(s \o t)
  <2>1. PICK i \in 1..Len(t) : x = t[i].id
    BY <1>3, LenProperties DEF IdsOf
  <2>2. Len(s) \in Nat /\ Len(t) \in Nat
    BY LenProperties
  <2>3. /\ Len(s) + i \in 1..(Len(s) + Len(t))
        /\ (s \o t)[Len(s) + i] = t[i]
    BY <1>1, <2>2
  <2> QED BY <1>1, <2>1, <2>3, LenProperties DEF IdsOf
<1>4. ASSUME NEW x \in IdsOf(s \o t) PROVE x \in IdsOf(s) \cup IdsOf(t)
  <2>1. PICK i \in 1..(Len(s) + Len(t)) : x = (s \o t)[i].id
    BY <1>1, <1>4, LenProperties DEF IdsOf
  <2>2. Len(s) \in Nat /\ Len(t) \in Nat
    BY LenProperties
  <2>3. CASE i <= Len(s)
    BY <1>1, <2>1, <2>2, <2>3, LenProperties DEF IdsOf
  <2>4. CASE i > Len(s)
    <3>1. i - Len(s) \in 1..Len(t) /\ (s \o t)[i] = t[i - Len(s)]
      BY <1>1, <2>1, <2>2, <2>4
    <3> QED BY <2>1, <3>1, LenProperties DEF IdsOf
  <2> QED BY <2>2, <2>3, <2>4
<1> QED BY <1>1, <1>2, <1>3, <1>4

LEMMA EntriesAssociative ==
  ASSUME NEW s \in Seq(Entry), NEW t \in Seq(Entry), NEW u \in Seq(Entry)
  PROVE  (s \o t) \o u = s \o (t \o u)
BY ConcatAssociative

LEMMA IdsOfPrefix ==
  ASSUME NEW s \in Seq(Entry), NEW n \in 0..Len(s)
  PROVE  /\ IdsOf(Prefix(s, n)) \subseteq IdsOf(s)
         /\ \A m \in 0..n : IdsOf(Prefix(s, m)) \subseteq IdsOf(Prefix(s, n))
         /\ n = Len(s) => Prefix(s, n) = s
PROOF BY PrefixProperties, LenProperties, SubSeqProperties DEF IdsOf, Prefix

-----------------------------------------------------------------------------
LEMMA PrefixOfConcat ==
  ASSUME NEW s \in Seq(Entry), NEW t \in Seq(Entry), NEW n \in 0..Len(s)
  PROVE  Prefix(s \o t, n) = Prefix(s, n) /\ n <= Len(s \o t)
<1>1. /\ s \o t \in Seq(Entry)
      /\ Len(s \o t) = Len(s) + Len(t) /\ Len(s) \in Nat /\ Len(t) \in Nat
      /\ \A i \in 1..Len(s) : (s \o t)[i] = s[i]
  BY ConcatProperties, LenProperties
<1>2. n \in 0..Len(s \o t)
  BY <1>1
<1>3. /\ Prefix(s, n) \in Seq(Entry) /\ Prefix(s \o t, n) \in Seq(Entry)
      /\ Len(Prefix(s, n)) = n /\ Len(Prefix(s \o t, n)) = n
      /\ \A i \in 1..n : Prefix(s, n)[i] = s[i]
      /\ \A i \in 1..n : Prefix(s \o t, n)[i] = (s \o t)[i]
  BY <1>1, <1>2, PrefixProperties
<1>4. \A i \in 1..n : Prefix(s \o t, n)[i] = Prefix(s, n)[i]
  BY <1>1, <1>3
<1> QED BY <1>2, <1>3, <1>4, SeqEqual

LEMMA LastSegmentProperties ==
  ASSUME TypeOK
  PROVE  /\ LastSegment \in SegIds
         /\ \A i \in SegIds : segs[i].here => i <= LastSegment
         /\ Present # {} => segs[LastSegment].here
<1>1. MaxSegments \in Nat /\ Present \in SUBSET (0..MaxSegments)
  BY WalConstants DEF Present, SegIds
<1>2. CASE Present = {}
  BY <1>1, <1>2 DEF LastSegment, Present, SegIds
<1>3. CASE Present # {}
  <2>1. \E m \in Present : \A k \in Present : k <= m
    BY <1>1, <1>3, MaxExists
  <2>2. LastSegment \in Present /\ \A k \in Present : k <= LastSegment
    BY <1>3, <2>1 DEF LastSegment
  <2> QED BY <2>2 DEF Present
<1> QED BY <1>2, <1>3

LEMMA ReadableType ==
  ASSUME NEW s \in Seq(Entry)
  PROVE  Readable(s) \in Seq(Entry)
<1> DEFINE whole == {n \in 0..Len(s) : \A i \in 1..n : s[i].op # "torn"}
<1>1. Len(s) \in Nat /\ whole \in SUBSET (0..Len(s)) /\ 0 \in whole
  BY LenProperties
<1>2. \E m \in whole : \A k \in whole : k <= m
  <2> HIDE DEF whole
  <2> QED BY <1>1, MaxExists
<1>3. (CHOOSE n \in whole : \A m \in whole : m <= n) \in 0..Len(s)
  <2> HIDE DEF whole
  <2> QED BY <1>1, <1>2
<1> QED BY <1>3, PrefixProperties DEF Readable

LEMMA ScanType ==
  ASSUME NEW s \in Seq(Entry)
  PROVE  LastLsnOf(s) \in Nat /\ LastCheckpointOf(s) \in Nat
<1> DEFINE r == Readable(s)
           at == {i \in DOMAIN r : r[i].op = "checkpoint"}
<1>1. r \in Seq(Entry) BY ReadableType
<1>2. /\ Len(r) \in Nat /\ DOMAIN r = 1..Len(r)
      /\ \A i \in DOMAIN r : r[i].lsn \in Nat
  <2> HIDE DEF r
  <2>1. Len(r) \in Nat /\ DOMAIN r = 1..Len(r)
    BY <1>1, LenProperties
  <2>2. \A i \in DOMAIN r : r[i] \in Entry
    BY <1>1, <2>1, ElementOfSeq
  <2> QED BY <2>1, <2>2 DEF Entry
<1>3. r # <<>> => Len(r) \in DOMAIN r
  <2> HIDE DEF r
  <2> QED BY <1>1, <1>2, EmptySeq
<1>4. LastLsnOf(s) \in Nat
  BY <1>2, <1>3 DEF LastLsnOf
<1>5. CASE at = {}
  BY <1>4, <1>5 DEF LastCheckpointOf
<1>6. CASE at # {}
  <2>1. at \in SUBSET (0..Len(r))
    BY <1>2
  <2>2. \E m \in at : \A k \in at : k <= m
    <3> HIDE DEF at
    <3> QED BY <1>2, <1>6, <2>1, MaxExists
  <2>3. (CHOOSE i \in at : \A j \in at : j <= i) \in at
    <3> HIDE DEF at
    <3> QED BY <2>2
  <2> QED BY <1>2, <1>4, <1>6, <2>3 DEF LastCheckpointOf
<1> QED BY <1>5, <1>6

-----------------------------------------------------------------------------
(* How a change of the files changes the sets of ids on the disk.            *)
SyncedOf(seg) == IdsOf(Prefix(seg.recs, seg.synced))

LEMMA IdSets ==
  /\ \A x : x \in SyncedIds <=> \E i \in SegIds : x \in SyncedOf(segs[i])
  /\ \A x : x \in DiskIds <=> \E i \in SegIds : x \in IdsOf(segs[i].recs)
  /\ \A x : x \in SyncedIds' <=> \E i \in SegIds : x \in SyncedOf(segs'[i])
  /\ \A x : x \in DiskIds' <=> \E i \in SegIds : x \in IdsOf(segs'[i].recs)
BY DEF SyncedIds, DiskIds, SyncedOf

LEMMA SyncedOnDisk ==
  ASSUME TypeOK, DiskOK
  PROVE  /\ \A i \in SegIds : SyncedOf(segs[i]) \subseteq IdsOf(segs[i].recs)
         /\ SyncedIds \subseteq DiskIds
<1>1. ASSUME NEW i \in SegIds
      PROVE  SyncedOf(segs[i]) \subseteq IdsOf(segs[i].recs)
  <2>1. segs[i].recs \in Seq(Entry) /\ segs[i].synced \in 0..Len(segs[i].recs)
    BY LenProperties DEF TypeOK, Segment, DiskOK
  <2> QED BY <2>1, IdsOfPrefix DEF SyncedOf
<1> QED BY <1>1, IdSets

(* One file changes and loses no record.                                     *)
LEMMA OneFileGrows ==
  ASSUME TypeOK, NEW k \in SegIds,
         \A i \in SegIds : i # k => segs'[i] = segs[i],
         SyncedOf(segs[k]) \subseteq SyncedOf(segs'[k]),
         IdsOf(segs[k].recs) \subseteq IdsOf(segs'[k].recs)
  PROVE  SyncedIds \subseteq SyncedIds' /\ DiskIds \subseteq DiskIds'
BY IdSets

-----------------------------------------------------------------------------
THEOREM InitInv == Init => IndInv
<1> SUFFICES ASSUME Init PROVE IndInv
  OBVIOUS
<1> USE WalConstants
<1>1. <<>> \in Seq(Entry) /\ Len(<<>>) = 0
  OBVIOUS
<1>2. NoFile \in Segment
  BY <1>1 DEF NoFile, Segment, NoHdr
<1>3. TypeOK
  BY <1>1, <1>2 DEF Init, TypeOK, SegIds, PCs
<1>4. DiskOK
  BY <1>1 DEF Init, DiskOK, NoFile
<1>5. FlushedDurable /\ AcceptedNotLost
  BY DEF Init, FlushedDurable, AcceptedNotLost
<1>6. WriterOK /\ CallOK
  BY DEF Init, WriterOK, CallOK
<1> QED BY <1>3, <1>4, <1>5, <1>6 DEF IndInv

(* The steps that touch neither the files nor the buffer.                    *)
Quiet == UNCHANGED <<segs, buffer, accepted, flushed, deleted>>

LEMMA QuietStep ==
  ASSUME IndInv, Quiet
  PROVE  FlushedDurable' /\ AcceptedNotLost' /\ DiskOK'
BY DEF IndInv, Quiet, FlushedDurable, AcceptedNotLost, DiskOK, SyncedIds, DiskIds

LEMMA WriteInv ==
  ASSUME IndInv, NEW n \in 1..MaxBatch, Write(n)
  PROVE  IndInv'
<1> USE WalConstants
<1>1. FlushedDurable' /\ AcceptedNotLost' /\ DiskOK'
  BY QuietStep DEF Write, Quiet
<1>2. pend' \in Seq(Entry)
  <2>1. \A i \in 1..n : [op |-> "data", lsn |-> lastLSN + i, id |-> nextId + i] \in Entry
    BY DEF IndInv, TypeOK, Entry
  <2>2. n \in Nat
    OBVIOUS
  <2> QED BY <2>1, <2>2, IsASeq DEF Write
<1>3. TypeOK'
  <2>1. lastLSN' \in Nat /\ nextId' \in Nat
    BY DEF IndInv, TypeOK, Write
  <2>2. UNCHANGED <<segs, file, segmentID, segmentSize, buffer, checkpoint, checkpoints,
                    ticking, ret, accepted, flushed, deleted, adopted, crashes, faults>>
        /\ op' = "write" /\ pc' = "capacity"
    BY DEF Write
  <2> QED BY <1>2, <2>1, <2>2 DEF IndInv, TypeOK, PCs
<1>4. WriterOK' /\ CallOK'
  BY DEF IndInv, WriterOK, CallOK, Write
<1> QED BY <1>1, <1>3, <1>4 DEF IndInv

LEMMA CreateCheckpointInv ==
  ASSUME IndInv, CreateCheckpoint
  PROVE  IndInv'
<1>1. FlushedDurable' /\ AcceptedNotLost' /\ DiskOK'
  BY QuietStep DEF CreateCheckpoint, Quiet
<1>2. pend' \in Seq(Entry) /\ Len(pend') = 1
  <2>1. [op |-> "checkpoint", lsn |-> lastLSN + 1, id |-> nextId + 1] \in Entry
    BY DEF IndInv, TypeOK, Entry
  <2> QED BY <2>1 DEF CreateCheckpoint
<1>3. TypeOK'
  BY <1>2 DEF IndInv, TypeOK, CreateCheckpoint, PCs
<1>4. WriterOK' /\ CallOK'
  BY <1>2 DEF IndInv, WriterOK, CallOK, CreateCheckpoint
<1> QED BY <1>1, <1>3, <1>4 DEF IndInv

LEMMA QuietActionsInv ==
  ASSUME IndInv,
         \/ \E n \in 1..MaxBatch : WriteTooLarge(n)
         \/ EnsureCapacity \/ BatchFlush \/ Flush \/ Tick \/ Close \/ CloseFile \/ FlushNothing
  PROVE  IndInv'
<1> USE WalConstants
<1>0. TypeOK /\ WriterOK /\ CallOK
  BY DEF IndInv
<1>e. <<>> \in Seq(Entry) /\ Len(<<>>) = 0
  OBVIOUS
<1>1. CASE \E n \in 1..MaxBatch : WriteTooLarge(n)
  <2>1. FlushedDurable' /\ AcceptedNotLost' /\ DiskOK'
    BY <1>1, QuietStep DEF WriteTooLarge, Quiet
  <2>2. TypeOK'
    BY <1>0, <1>1 DEF TypeOK, WriteTooLarge, call
  <2>3. WriterOK' /\ CallOK'
    BY <1>0, <1>1 DEF WriterOK, CallOK, WriteTooLarge, call
  <2> QED BY <2>1, <2>2, <2>3 DEF IndInv
<1>2. CASE EnsureCapacity
  <2>1. FlushedDurable' /\ AcceptedNotLost' /\ DiskOK'
    BY <1>2, QuietStep DEF EnsureCapacity, Quiet, writer, history
  <2>2. TypeOK'
    BY <1>0, <1>2 DEF TypeOK, EnsureCapacity, writer, history, PCs
  <2>3. WriterOK' /\ CallOK'
    BY <1>0, <1>2 DEF WriterOK, CallOK, EnsureCapacity, writer, history
  <2> QED BY <2>1, <2>2, <2>3 DEF IndInv
<1>3. CASE BatchFlush
  <2>1. FlushedDurable' /\ AcceptedNotLost' /\ DiskOK'
    BY <1>3, QuietStep DEF BatchFlush, Quiet, writer, history
  <2>2. TypeOK'
    BY <1>0, <1>3 DEF TypeOK, BatchFlush, writer, history, PCs
  <2>3. WriterOK' /\ CallOK'
    BY <1>0, <1>3 DEF WriterOK, CallOK, BatchFlush, writer, history
  <2> QED BY <2>1, <2>2, <2>3 DEF IndInv
<1>4. CASE Flush \/ Tick
  <2>0. Flush
    BY <1>4 DEF Tick
  <2>1. FlushedDurable' /\ AcceptedNotLost' /\ DiskOK'
    BY <2>0, QuietStep DEF Flush, Quiet, writer, history
  <2>2. TypeOK'
    BY <1>0, <2>0 DEF TypeOK, Flush, writer, history, PCs
  <2>3. WriterOK' /\ CallOK'
    BY <1>0, <2>0 DEF WriterOK, CallOK, Flush, writer, history
  <2> QED BY <2>1, <2>2, <2>3 DEF IndInv
<1>5. CASE Close
  <2>1. FlushedDurable' /\ AcceptedNotLost' /\ DiskOK'
    BY <1>5, QuietStep DEF Close, Quiet, history
  <2>2. TypeOK'
    BY <1>0, <1>5 DEF TypeOK, Close, history, PCs
  <2>3. WriterOK' /\ CallOK'
    BY <1>0, <1>5 DEF WriterOK, CallOK, Close, history
  <2> QED BY <2>1, <2>2, <2>3 DEF IndInv
<1>6. CASE CloseFile
  <2>1. FlushedDurable' /\ AcceptedNotLost' /\ DiskOK'
    BY <1>6, QuietStep DEF CloseFile, Quiet, history
  <2>2. TypeOK'
    BY <1>0, <1>6 DEF TypeOK, CloseFile, history, PCs
  <2>3. WriterOK' /\ CallOK'
    BY <1>0, <1>6 DEF WriterOK, CallOK, CloseFile, history
  <2> QED BY <2>1, <2>2, <2>3 DEF IndInv
<1>7. CASE FlushNothing
  <2>1. FlushedDurable' /\ AcceptedNotLost' /\ DiskOK'
    BY <1>7, QuietStep DEF FlushNothing, Quiet, writer, history
  <2>2. TypeOK'
    BY <1>0, <1>7, <1>e DEF TypeOK, FlushNothing, Return, writer, history, PCs
  <2>3. WriterOK' /\ CallOK'
    BY <1>0, <1>7, <1>e DEF TypeOK, WriterOK, CallOK, FlushNothing, Return, writer, history
  <2> QED BY <2>1, <2>2, <2>3 DEF IndInv
<1> QED BY <1>1, <1>2, <1>3, <1>4, <1>5, <1>6, <1>7

LEMMA CreateSegmentInv ==
  ASSUME IndInv, CreateSegment
  PROVE  IndInv'
<1> USE WalConstants
<1>0. TypeOK /\ FlushedDurable /\ AcceptedNotLost /\ DiskOK /\ WriterOK /\ CallOK
  BY DEF IndInv
<1>e. <<>> \in Seq(Entry) /\ Len(<<>>) = 0
  OBVIOUS
<1>1. segmentID + 1 \in SegIds /\ segmentID \in SegIds /\ pc = "create"
  BY <1>0 DEF CreateSegment, TypeOK, SegIds
<1>2. CASE Fault("create") /\ file' = "nil" /\ Return /\ UNCHANGED <<segs, segmentSize>>
  <2>1. FlushedDurable' /\ AcceptedNotLost' /\ DiskOK'
    BY <1>2, QuietStep DEF CreateSegment, Quiet
  <2>2. TypeOK'
    BY <1>0, <1>1, <1>2, <1>e DEF CreateSegment, TypeOK, Return, Fault, PCs
  <2>3. WriterOK' /\ CallOK'
    BY <1>0, <1>1, <1>2, <1>e DEF CreateSegment, TypeOK, WriterOK, CallOK, Return, SegIds
  <2> QED BY <2>1, <2>2, <2>3 DEF IndInv
<1>3. CASE /\ segs' = [segs EXCEPT ![segmentID + 1] = EmptyFile]
           /\ file' = "open" /\ segmentSize' = 0
           /\ pc' = "header" /\ UNCHANGED <<ret, op, pend, faults>>
  <2>1. EmptyFile \in Segment
    BY <1>e DEF EmptyFile, Segment, NoHdr
  <2>2. TypeOK'
    BY <1>0, <1>1, <1>3, <2>1 DEF CreateSegment, TypeOK, PCs
  <2>3. segs[segmentID + 1].recs = <<>> /\ segs[segmentID + 1].synced = 0
    <3>1. ~segs[segmentID + 1].here
      BY <1>0, <1>1 DEF WriterOK, SegIds
    <3>2. segs[segmentID + 1].recs = <<>>
      BY <1>0, <1>1, <3>1 DEF DiskOK
    <3>3. segs[segmentID + 1].synced \in Nat /\ segs[segmentID + 1].synced <= 0
      BY <1>0, <1>1, <1>e, <3>2 DEF DiskOK, TypeOK, Segment
    <3> QED BY <3>2, <3>3
  <2>4. segs'[segmentID + 1] = EmptyFile /\ \A i \in SegIds : i # segmentID + 1 => segs'[i] = segs[i]
    BY <1>0, <1>1, <1>3 DEF TypeOK
  <2>5. SyncedIds \subseteq SyncedIds' /\ DiskIds \subseteq DiskIds'
    BY <1>0, <1>1, <2>3, <2>4, OneFileGrows DEF EmptyFile, SyncedOf
  <2>6. FlushedDurable' /\ AcceptedNotLost'
    BY <1>0, <2>5 DEF CreateSegment, FlushedDurable, AcceptedNotLost
  <2>7. DiskOK'
    BY <1>0, <1>1, <1>e, <2>4 DEF DiskOK, EmptyFile
  <2>8. WriterOK' /\ CallOK'
    BY <1>0, <1>1, <1>3, <2>4 DEF CreateSegment, WriterOK, CallOK, EmptyFile, TypeOK, SegIds
  <2> QED BY <2>2, <2>6, <2>7, <2>8 DEF IndInv
<1> QED BY <1>2, <1>3 DEF CreateSegment

(* WriteHeader and MarkHeader change the header field of one file.           *)
LEMMA HeaderChange ==
  ASSUME TypeOK, FlushedDurable, AcceptedNotLost, DiskOK, NEW c \in Nat, segs[segmentID].here,
         segs' = [segs EXCEPT ![segmentID].hdr = c],
         UNCHANGED <<buffer, accepted, flushed, deleted>>
  PROVE  /\ segs' \in [SegIds -> Segment]
         /\ FlushedDurable' /\ AcceptedNotLost' /\ DiskOK'
         /\ \A i \in SegIds : segs'[i].here = segs[i].here
         /\ segs'[segmentID].hdr # NoHdr
<1>0. segmentID \in SegIds
  BY DEF TypeOK
<1>1. segs' \in [SegIds -> Segment]
  BY DEF TypeOK, Segment
<1>2. \A i \in SegIds : /\ segs'[i].recs = segs[i].recs
                        /\ segs'[i].synced = segs[i].synced
                        /\ segs'[i].here = segs[i].here
                        /\ i # segmentID => segs'[i].hdr = segs[i].hdr
  BY DEF TypeOK, Segment
<1>3. segs'[segmentID].hdr = c
  BY <1>0 DEF TypeOK, Segment
<1>4. SyncedIds' = SyncedIds /\ DiskIds' = DiskIds
  BY <1>2 DEF SyncedIds, DiskIds
<1>5. FlushedDurable' /\ AcceptedNotLost'
  BY <1>4 DEF FlushedDurable, AcceptedNotLost
<1>6. DiskOK' /\ c # NoHdr
  BY <1>2, <1>3 DEF DiskOK, NoHdr
<1> QED BY <1>1, <1>2, <1>3, <1>5, <1>6

LEMMA WriteHeaderInv ==
  ASSUME IndInv, WriteHeader
  PROVE  IndInv'
<1>0. TypeOK /\ FlushedDurable /\ AcceptedNotLost /\ DiskOK /\ WriterOK /\ CallOK
  BY DEF IndInv
<1>e. <<>> \in Seq(Entry) /\ Len(<<>>) = 0
  OBVIOUS
<1>1. CASE /\ Fault("header") /\ segs' = [segs EXCEPT ![segmentID].hdr = checkpoint]
           /\ file' = "closed" /\ Return /\ UNCHANGED segmentSize
  <2>1. segs[segmentID].here /\ checkpoint \in Nat
    BY <1>0 DEF WriteHeader, WriterOK, TypeOK
  <2>2. UNCHANGED <<segmentID, buffer, lastLSN, checkpoint, checkpoints, ticking, nextId,
                    accepted, flushed, deleted, adopted, crashes>>
    BY DEF WriteHeader
  <2>3. /\ segs' \in [SegIds -> Segment]
        /\ FlushedDurable' /\ AcceptedNotLost' /\ DiskOK'
        /\ \A i \in SegIds : segs'[i].here = segs[i].here
    BY <1>0, <1>1, <2>1, <2>2, HeaderChange
  <2>4. TypeOK'
    BY <1>0, <1>1, <1>e, <2>2, <2>3 DEF TypeOK, Return, Fault, PCs
  <2>5. WriterOK' /\ CallOK'
    BY <1>0, <1>1, <1>e, <2>1, <2>2, <2>3 DEF WriteHeader, WriterOK, CallOK, Return, TypeOK
  <2> QED BY <2>3, <2>4, <2>5 DEF IndInv
<1>2. CASE Fault("header") /\ file' = "closed" /\ Return /\ UNCHANGED <<segs, segmentSize>>
  <2>1. FlushedDurable' /\ AcceptedNotLost' /\ DiskOK'
    BY <1>2, QuietStep DEF WriteHeader, Quiet
  <2>2. TypeOK'
    BY <1>0, <1>2, <1>e DEF WriteHeader, TypeOK, Return, Fault, PCs
  <2>3. WriterOK' /\ CallOK'
    BY <1>0, <1>2, <1>e DEF WriteHeader, WriterOK, CallOK, Return
  <2> QED BY <2>1, <2>2, <2>3 DEF IndInv
<1>3. CASE /\ segs' = [segs EXCEPT ![segmentID].hdr = checkpoint]
           /\ segmentSize' = 1
           /\ pc' = "batch" /\ UNCHANGED <<file, ret, op, pend, faults>>
  <2>1. segs[segmentID].here /\ checkpoint \in Nat
    BY <1>0 DEF WriteHeader, WriterOK, TypeOK
  <2>2. UNCHANGED <<segmentID, buffer, lastLSN, checkpoint, checkpoints, ticking, nextId,
                    accepted, flushed, deleted, adopted, crashes>>
    BY DEF WriteHeader
  <2>3. /\ segs' \in [SegIds -> Segment]
        /\ FlushedDurable' /\ AcceptedNotLost' /\ DiskOK'
        /\ \A i \in SegIds : segs'[i].here = segs[i].here
        /\ segs'[segmentID].hdr # NoHdr
    BY <1>0, <1>3, <2>1, <2>2, HeaderChange
  <2>4. TypeOK'
    BY <1>0, <1>3, <2>2, <2>3 DEF TypeOK, PCs
  <2>5. WriterOK' /\ CallOK'
    BY <1>0, <1>3, <2>1, <2>2, <2>3 DEF WriteHeader, WriterOK, CallOK, TypeOK
  <2> QED BY <2>3, <2>4, <2>5 DEF IndInv
<1> QED BY <1>1, <1>2, <1>3 DEF WriteHeader

LEMMA MarkHeaderInv ==
  ASSUME IndInv, MarkHeader
  PROVE  IndInv'
<1>0. TypeOK /\ FlushedDurable /\ AcceptedNotLost /\ DiskOK /\ WriterOK /\ CallOK
  BY DEF IndInv
<1>e. <<>> \in Seq(Entry) /\ Len(<<>>) = 0
  OBVIOUS
<1>1. pc = "mark" /\ Return /\ segs[segmentID].here
  BY <1>0 DEF MarkHeader, WriterOK
<1>2. UNCHANGED <<file, segmentID, segmentSize, buffer, lastLSN, checkpoints, ticking,
                  nextId, accepted, flushed, deleted, adopted, crashes>>
  BY DEF MarkHeader
<1>3. CASE Fault("mark") /\ UNCHANGED <<segs, checkpoint>>
  <2>1. FlushedDurable' /\ AcceptedNotLost' /\ DiskOK'
    BY <1>2, <1>3, QuietStep DEF Quiet
  <2>2. TypeOK'
    BY <1>0, <1>1, <1>2, <1>3, <1>e DEF TypeOK, Return, Fault, PCs
  <2>3. WriterOK' /\ CallOK'
    BY <1>0, <1>1, <1>2, <1>3, <1>e DEF WriterOK, CallOK, Return
  <2> QED BY <2>1, <2>2, <2>3 DEF IndInv
<1>4. CASE /\ segs' = [segs EXCEPT ![segmentID].hdr = pend[1].lsn]
           /\ \/ checkpoint' = pend[1].lsn /\ UNCHANGED faults
              \/ Fault("mark") /\ UNCHANGED checkpoint
  <2>1. pend[1].lsn \in Nat
    <3>1. pend \in Seq(Entry) /\ Len(pend) = 1
      BY <1>0, <1>1 DEF CallOK, TypeOK
    <3>2. pend[1] \in Entry
      BY <3>1, ElementOfSeq
    <3> QED BY <3>2 DEF Entry
  <2>2. /\ segs' \in [SegIds -> Segment]
        /\ FlushedDurable' /\ AcceptedNotLost' /\ DiskOK'
        /\ \A i \in SegIds : segs'[i].here = segs[i].here
        /\ segs'[segmentID].hdr # NoHdr
    BY <1>0, <1>1, <1>2, <1>4, <2>1, HeaderChange
  <2>3. TypeOK'
    BY <1>0, <1>1, <1>2, <1>4, <1>e, <2>1, <2>2 DEF TypeOK, Return, Fault, PCs
  <2>4. WriterOK' /\ CallOK'
    BY <1>0, <1>1, <1>2, <1>4, <1>e, <2>2 DEF WriterOK, CallOK, Return, TypeOK
  <2> QED BY <2>2, <2>3, <2>4 DEF IndInv
<1> QED BY <1>3, <1>4 DEF MarkHeader

LEMMA AppendBufferInv ==
  ASSUME IndInv, AppendBuffer
  PROVE  IndInv'
<1>0. TypeOK /\ FlushedDurable /\ AcceptedNotLost /\ DiskOK /\ WriterOK /\ CallOK
  BY DEF IndInv
<1>e. <<>> \in Seq(Entry) /\ Len(<<>>) = 0
  OBVIOUS
<1>1. /\ buffer' \in Seq(Entry)
      /\ IdsOf(buffer') = IdsOf(buffer) \cup IdsOf(pend)
      /\ IdsOf(pend) \subseteq Nat
  BY <1>0, IdsOfConcat, IdsOfType DEF AppendBuffer, TypeOK
<1>2. FlushedDurable'
  BY <1>0 DEF AppendBuffer, FlushedDurable, SyncedIds
<1>3. AcceptedNotLost'
  BY <1>0, <1>1 DEF AppendBuffer, AcceptedNotLost, DiskIds
<1>4. DiskOK'
  BY <1>0 DEF AppendBuffer, DiskOK
<1>5. TypeOK'
  BY <1>0, <1>1, <1>e DEF AppendBuffer, TypeOK, Return, PCs
<1>6. WriterOK'
  BY <1>0 DEF AppendBuffer, WriterOK, Return
<1>7. op = "checkpoint" => buffer' # <<>>
  <2>1. op = "checkpoint" => Len(buffer \o pend) > 0
    <3>1. buffer \in Seq(Entry) /\ pend \in Seq(Entry) /\ Len(buffer) \in Nat
      BY <1>0, LenProperties DEF TypeOK
    <3>2. Len(buffer \o pend) = Len(buffer) + Len(pend)
      BY <3>1, ConcatProperties
    <3> QED BY <1>0, <3>1, <3>2 DEF CallOK
  <2> QED BY <2>1, <1>e DEF AppendBuffer
<1>8. CallOK'
  BY <1>0, <1>7, <1>e DEF AppendBuffer, CallOK, Return
<1> QED BY <1>2, <1>3, <1>4, <1>5, <1>6, <1>8 DEF IndInv

(* The records of the active segment become q, which keeps what was synced.  *)
LEMMA RecordsChange ==
  ASSUME TypeOK, FlushedDurable, AcceptedNotLost, DiskOK, NEW q \in Seq(Entry),
         segs[segmentID].hdr # NoHdr,
         segs' = [segs EXCEPT ![segmentID].recs = q],
         Prefix(q, segs[segmentID].synced) =
           Prefix(segs[segmentID].recs, segs[segmentID].synced),
         segs[segmentID].synced <= Len(q),
         IdsOf(segs[segmentID].recs) \subseteq IdsOf(q),
         UNCHANGED <<buffer, accepted, flushed, deleted>>
  PROVE  /\ segs' \in [SegIds -> Segment]
         /\ FlushedDurable' /\ AcceptedNotLost' /\ DiskOK'
         /\ \A i \in SegIds : segs'[i].here = segs[i].here /\ segs'[i].hdr = segs[i].hdr
         /\ segs'[segmentID].recs = q
<1>0. segmentID \in SegIds
  BY DEF TypeOK
<1>1. /\ segs' \in [SegIds -> Segment]
      /\ \A i \in SegIds : /\ segs'[i].here = segs[i].here /\ segs'[i].hdr = segs[i].hdr
                            /\ segs'[i].synced = segs[i].synced
      /\ \A i \in SegIds : i # segmentID => segs'[i] = segs[i]
  BY DEF TypeOK, Segment
<1>2. segs'[segmentID].recs = q
  BY <1>0 DEF TypeOK, Segment
<1>3. SyncedOf(segs[segmentID]) = SyncedOf(segs'[segmentID])
  BY <1>0, <1>1, <1>2 DEF SyncedOf
<1>4. SyncedIds \subseteq SyncedIds' /\ DiskIds \subseteq DiskIds'
  BY <1>0, <1>1, <1>2, <1>3, OneFileGrows
<1>5. FlushedDurable' /\ AcceptedNotLost'
  BY <1>4 DEF FlushedDurable, AcceptedNotLost
<1>6. DiskOK'
  BY <1>0, <1>1, <1>2 DEF DiskOK
<1> QED BY <1>1, <1>2, <1>5, <1>6

LEMMA FlushWriteInv ==
  ASSUME IndInv, FlushWrite
  PROVE  IndInv'
<1> USE WalConstants
<1>0. TypeOK /\ FlushedDurable /\ AcceptedNotLost /\ DiskOK /\ WriterOK /\ CallOK
  BY DEF IndInv
<1>e. <<>> \in Seq(Entry) /\ Len(<<>>) = 0
  OBVIOUS
<1>1. UNCHANGED <<file, segmentID, buffer, lastLSN, checkpoint, checkpoints, ticking,
                  nextId, accepted, flushed, deleted, adopted, crashes>>
  BY DEF FlushWrite
<1>2. pc = "flush" /\ segmentID \in SegIds /\ segs[segmentID] \in Segment
      /\ buffer \in Seq(Entry) /\ segs[segmentID].recs \in Seq(Entry)
      /\ Len(buffer) \in Nat
  BY <1>0, LenProperties DEF FlushWrite, TypeOK, Segment
(* The file grows by t, all of the buffer or a part of it.                   *)
<1>3. ASSUME NEW t \in Seq(Entry), file = "open",
             segs' = [segs EXCEPT ![segmentID].recs = segs[segmentID].recs \o t]
      PROVE  /\ segs' \in [SegIds -> Segment]
             /\ FlushedDurable' /\ AcceptedNotLost' /\ DiskOK'
             /\ \A i \in SegIds : segs'[i].here = segs[i].here /\ segs'[i].hdr = segs[i].hdr
             /\ IdsOf(t) \subseteq IdsOf(segs'[segmentID].recs)
  <2> DEFINE q == segs[segmentID].recs \o t
  <2>1. q \in Seq(Entry) /\ IdsOf(q) = IdsOf(segs[segmentID].recs) \cup IdsOf(t)
    BY <1>2, <1>3, IdsOfConcat
  <2>2. segs[segmentID].synced \in 0..Len(segs[segmentID].recs)
    BY <1>0, <1>2, LenProperties DEF DiskOK, Segment
  <2>3. /\ Prefix(q, segs[segmentID].synced) =
             Prefix(segs[segmentID].recs, segs[segmentID].synced)
        /\ segs[segmentID].synced <= Len(q)
    BY <1>2, <1>3, <2>2, PrefixOfConcat
  <2>4. segs[segmentID].hdr # NoHdr
    BY <1>0, <1>2, <1>3 DEF WriterOK
  <2>5. segs' = [segs EXCEPT ![segmentID].recs = q]
    BY <1>3
  <2> HIDE DEF q
  <2>6. /\ segs' \in [SegIds -> Segment]
        /\ FlushedDurable' /\ AcceptedNotLost' /\ DiskOK'
        /\ \A i \in SegIds : segs'[i].here = segs[i].here /\ segs'[i].hdr = segs[i].hdr
        /\ segs'[segmentID].recs = q
    BY <1>0, <1>1, <2>1, <2>3, <2>4, <2>5, RecordsChange
  <2> QED BY <2>1, <2>6
<1>4. CASE /\ file = "open"
           /\ segs' = [segs EXCEPT ![segmentID].recs = @ \o buffer]
           /\ segmentSize' = segmentSize + Len(buffer)
           /\ pc' = "sync" /\ UNCHANGED <<ret, op, pend, faults>>
  <2>1. /\ segs' \in [SegIds -> Segment]
        /\ FlushedDurable' /\ AcceptedNotLost' /\ DiskOK'
        /\ \A i \in SegIds : segs'[i].here = segs[i].here /\ segs'[i].hdr = segs[i].hdr
        /\ IdsOf(buffer) \subseteq IdsOf(segs'[segmentID].recs)
    BY <1>2, <1>3, <1>4
  <2>2. TypeOK'
    <3>1. segmentSize' \in Nat /\ pc' = "sync" /\ UNCHANGED <<ret, op, pend, faults>>
      BY SMTT(30), <1>0, <1>2, <1>4 DEF TypeOK
    <3> QED BY <1>0, <1>1, <2>1, <3>1 DEF TypeOK, PCs
  <2>3. WriterOK' /\ CallOK'
    BY <1>0, <1>1, <1>2, <1>4, <2>1 DEF WriterOK, CallOK
  <2> QED BY <2>1, <2>2, <2>3 DEF IndInv
<1>5. CASE /\ file = "open" /\ Fault("write")
           /\ \E n \in 0..(Len(buffer) - 1), torn \in {FALSE, TornWrites} :
                segs' = [segs EXCEPT ![segmentID].recs =
                           @ \o Prefix(buffer, n) \o IF torn THEN <<Torn>> ELSE <<>>]
           /\ Return /\ UNCHANGED segmentSize
  <2>1. PICK n \in 0..(Len(buffer) - 1), torn \in {FALSE, TornWrites} :
          segs' = [segs EXCEPT ![segmentID].recs =
                     @ \o Prefix(buffer, n) \o IF torn THEN <<Torn>> ELSE <<>>]
    BY <1>5
  <2> DEFINE u == IF torn THEN <<Torn>> ELSE <<>>
             p == Prefix(buffer, n)
  <2>2. u \in Seq(Entry)
    <3>1. Torn \in Entry
      BY DEF Torn, Entry
    <3>2. <<Torn>> \in Seq(Entry)
      BY <3>1
    <3> QED BY <1>e, <3>2
  <2>3. p \in Seq(Entry)
    <3>1. n \in 0..Len(buffer)
      BY <1>2
    <3> QED BY <1>2, <3>1, PrefixProperties
  <2>4. p \o u \in Seq(Entry) /\ (segs[segmentID].recs \o p) \o u = segs[segmentID].recs \o (p \o u)
    <3> HIDE DEF p, u
    <3>1. p \o u \in Seq(Entry)
      BY <2>2, <2>3, ConcatProperties
    <3>2. segs[segmentID].recs \in Seq(Entry)
      BY <1>2
    <3>3. (segs[segmentID].recs \o p) \o u = segs[segmentID].recs \o (p \o u)
      BY <2>2, <2>3, <3>2, EntriesAssociative
    <3> QED BY <3>1, <3>3
  <2>5. /\ segs' \in [SegIds -> Segment]
        /\ FlushedDurable' /\ AcceptedNotLost' /\ DiskOK'
        /\ \A i \in SegIds : segs'[i].here = segs[i].here /\ segs'[i].hdr = segs[i].hdr
    <3> HIDE DEF p, u
    <3>1. segs' = [segs EXCEPT ![segmentID].recs = segs[segmentID].recs \o (p \o u)]
      BY <2>1, <2>4, <1>0, <1>2 DEF p, u, TypeOK
    <3> QED BY <1>3, <1>5, <2>4, <3>1
  <2>6. TypeOK'
    <3>1. /\ segmentSize' = segmentSize /\ faults' \in Nat
          /\ pc' = "idle" /\ op' = "none" /\ pend' = <<>> /\ ret' = ret
      <4>1. Fault("write") /\ Return /\ UNCHANGED segmentSize
        BY <1>5
      <4> QED BY <1>0, <4>1 DEF TypeOK, Return, Fault
    <3> QED BY <1>0, <1>1, <1>e, <2>5, <3>1 DEF TypeOK, PCs
  <2>7. WriterOK' /\ CallOK'
    BY <1>0, <1>1, <1>2, <1>5, <1>e, <2>5 DEF TypeOK, WriterOK, CallOK, Return
  <2> QED BY <2>5, <2>6, <2>7 DEF IndInv
<1>6. CASE file # "open" /\ Return /\ UNCHANGED <<segs, segmentSize, faults>>
  <2>1. FlushedDurable' /\ AcceptedNotLost' /\ DiskOK'
    BY <1>1, <1>6, QuietStep DEF Quiet
  <2>2. TypeOK'
    BY <1>0, <1>1, <1>6, <1>e DEF TypeOK, Return, PCs
  <2>3. WriterOK' /\ CallOK'
    BY <1>0, <1>1, <1>2, <1>6, <1>e DEF WriterOK, CallOK, Return
  <2> QED BY <2>1, <2>2, <2>3 DEF IndInv
<1> QED BY <1>4, <1>5, <1>6 DEF FlushWrite

LEMMA FlushSyncInv ==
  ASSUME IndInv, FlushSync
  PROVE  IndInv'
<1>0. TypeOK /\ FlushedDurable /\ AcceptedNotLost /\ DiskOK /\ WriterOK /\ CallOK
  BY DEF IndInv
<1>e. <<>> \in Seq(Entry) /\ Len(<<>>) = 0 /\ IdsOf(<<>>) = {}
  BY IdsOfEmpty
<1>1. UNCHANGED <<file, segmentID, segmentSize, lastLSN, checkpoint, checkpoints, ticking,
                  nextId, accepted, deleted, adopted, crashes>>
  BY DEF FlushSync
<1>2. CASE Fault("sync") /\ Return /\ UNCHANGED <<segs, buffer, flushed>>
  <2>1. FlushedDurable' /\ AcceptedNotLost' /\ DiskOK'
    BY <1>1, <1>2, QuietStep DEF Quiet
  <2>2. TypeOK'
    BY <1>0, <1>1, <1>2, <1>e DEF TypeOK, Return, Fault, PCs
  <2>3. WriterOK' /\ CallOK'
    BY <1>0, <1>1, <1>2, <1>e DEF FlushSync, WriterOK, CallOK, Return
  <2> QED BY <2>1, <2>2, <2>3 DEF IndInv
<1>3. CASE /\ segs' = [segs EXCEPT ![segmentID].synced = Len(segs[segmentID].recs)]
           /\ buffer' = <<>>
           /\ flushed' = flushed \cup IdsOf(buffer)
           /\ IF ret = "idle" THEN Return ELSE pc' = ret /\ UNCHANGED <<ret, op, pend>>
           /\ UNCHANGED faults
  <2>1. /\ pc = "sync" /\ file = "open" /\ segmentID \in SegIds
        /\ segs[segmentID] \in Segment /\ segs[segmentID].recs \in Seq(Entry)
        /\ IdsOf(buffer) \subseteq IdsOf(segs[segmentID].recs)
    BY <1>0 DEF FlushSync, WriterOK, TypeOK, Segment
  <2>2. /\ segs' \in [SegIds -> Segment]
        /\ \A i \in SegIds : /\ segs'[i].here = segs[i].here /\ segs'[i].hdr = segs[i].hdr
                              /\ segs'[i].recs = segs[i].recs
        /\ \A i \in SegIds : i # segmentID => segs'[i] = segs[i]
        /\ segs'[segmentID].synced = Len(segs[segmentID].recs)
    BY <1>0, <1>3, <2>1, LenProperties DEF TypeOK, Segment
  <2>3. SyncedOf(segs'[segmentID]) = IdsOf(segs[segmentID].recs)
    <3>1. Len(segs[segmentID].recs) \in 0..Len(segs[segmentID].recs)
      BY <2>1, LenProperties
    <3> QED BY SMTT(30), <2>1, <2>2, <3>1, IdsOfPrefix DEF SyncedOf
  <2>4. SyncedIds \subseteq SyncedIds' /\ DiskIds \subseteq DiskIds'
    BY <1>0, <2>1, <2>2, <2>3, SyncedOnDisk, OneFileGrows
  <2>5. IdsOf(buffer) \subseteq SyncedIds' /\ IdsOf(buffer) \subseteq DiskIds'
    BY <2>1, <2>2, <2>3, IdSets
  <2>6. flushed' = flushed \cup IdsOf(buffer) /\ buffer' = <<>>
    BY <1>3
  <2>7. FlushedDurable'
    BY <1>0, <1>1, <2>4, <2>5, <2>6 DEF FlushedDurable
  <2>8. AcceptedNotLost'
    BY <1>0, <1>1, <2>4, <2>5, <2>6 DEF AcceptedNotLost
  <2>9. DiskOK'
    <3>1. Len(segs[segmentID].recs) \in Nat
      BY <2>1, LenProperties
    <3>2. segs'[segmentID].synced <= Len(segs'[segmentID].recs)
      BY <2>1, <2>2, <3>1
    <3> QED BY <1>0, <2>1, <2>2, <3>2 DEF DiskOK
  <2>10. TypeOK'
    <3>1. IdsOf(buffer) \subseteq Nat
      BY <1>0, IdsOfType DEF TypeOK
    <3>2. /\ pc' \in PCs /\ ret' = ret /\ op' \in {op, "none"} /\ pend' \in Seq(Entry)
          /\ faults' = faults
      BY <1>0, <1>3, <1>e DEF TypeOK, Return, PCs
    <3> QED BY <1>0, <1>1, <1>e, <2>2, <2>6, <3>1, <3>2 DEF TypeOK
  <2>11. WriterOK' /\ CallOK'
    <3>1. \/ pc' = "idle" /\ op' = "none"
          \/ pc' = ret /\ UNCHANGED <<ret, op, pend>>
      BY <1>3 DEF Return
    <3>2. pc' \notin {"down", "sync", "header", "flush"}
      BY <1>0, <3>1 DEF TypeOK
    <3>3. WriterOK'
      BY <1>0, <1>1, <2>1, <2>2, <2>6, <3>1, <3>2 DEF WriterOK, TypeOK
    <3>4. CallOK'
      BY <1>0, <2>1, <3>1, <3>2 DEF CallOK
    <3> QED BY <3>3, <3>4
  <2> QED BY <2>7, <2>8, <2>9, <2>10, <2>11 DEF IndInv
<1> QED BY <1>2, <1>3 DEF FlushSync

LEMMA OpenInv ==
  ASSUME IndInv, OpenFresh \/ OpenExisting
  PROVE  IndInv'
<1> USE WalConstants
<1>0. TypeOK /\ FlushedDurable /\ AcceptedNotLost /\ DiskOK /\ WriterOK /\ CallOK
  BY DEF IndInv
<1>e. <<>> \in Seq(Entry) /\ Len(<<>>) = 0 /\ IdsOf(<<>>) = {}
  BY IdsOfEmpty
<1>1. LastSegment \in SegIds /\ \A i \in SegIds : segs[i].here => i <= LastSegment
  BY <1>0, LastSegmentProperties
<1>2. /\ pc = "down" /\ segmentID' = LastSegment /\ file' = "open" /\ buffer' = <<>>
      /\ ticking' \in BOOLEAN /\ pc' = "idle" /\ op' = "none" /\ pend' = <<>>
      /\ UNCHANGED <<ret, nextId, accepted, flushed, deleted, crashes, faults>>
  BY DEF OpenFresh, OpenExisting, history
<1>3. CASE OpenFresh
  <2> DEFINE new == [EmptyFile EXCEPT !.hdr = 0]
  <2>1. new \in Segment /\ new.here /\ new.hdr = 0 /\ new.recs = <<>> /\ new.synced = 0
    BY <1>e DEF EmptyFile, Segment, NoHdr
  <2>2. segs[LastSegment].recs = <<>> /\ segs[LastSegment].synced = 0
    <3>1. segs[LastSegment].recs = <<>>
      BY <1>0, <1>1, <1>3 DEF DiskOK, OpenFresh
    <3>2. segs[LastSegment].synced \in Nat /\ segs[LastSegment].synced <= 0
      BY <1>0, <1>1, <1>e, <3>1 DEF DiskOK, TypeOK, Segment
    <3> QED BY <3>1, <3>2
  <2> HIDE DEF new
  <2>3. segs' = [segs EXCEPT ![LastSegment] = new]
    BY <1>3 DEF OpenFresh, new
  <2>4. /\ segs' \in [SegIds -> Segment] /\ segs'[LastSegment] = new
        /\ \A i \in SegIds : i # LastSegment => segs'[i] = segs[i]
    BY <1>0, <1>1, <2>1, <2>3 DEF TypeOK
  <2>5. SyncedIds \subseteq SyncedIds' /\ DiskIds \subseteq DiskIds'
    BY <1>0, <1>1, <2>1, <2>2, <2>4, OneFileGrows DEF SyncedOf
  <2>6. FlushedDurable' /\ AcceptedNotLost'
    BY <1>0, <1>2, <1>e, <2>5 DEF FlushedDurable, AcceptedNotLost, WriterOK
  <2>7. DiskOK'
    BY <1>0, <1>e, <2>1, <2>4 DEF DiskOK, NoHdr
  <2>8. TypeOK'
    <3>1. segmentSize' = 1 /\ lastLSN' = 0 /\ checkpoint' = 0 /\ checkpoints' = 0
          /\ adopted' = adopted
      BY <1>3 DEF OpenFresh, history
    <3> QED BY <1>0, <1>1, <1>2, <1>e, <2>4, <3>1 DEF TypeOK, PCs
  <2>9. WriterOK' /\ CallOK'
    BY <1>0, <1>1, <1>2, <1>e, <2>1, <2>4 DEF WriterOK, CallOK, NoHdr, SegIds
  <2> QED BY <2>6, <2>7, <2>8, <2>9 DEF IndInv
<1>4. CASE OpenExisting
  <2>1. segs' = segs /\ segs[LastSegment] \in Segment /\ segs[LastSegment].recs \in Seq(Entry)
        /\ segs[LastSegment].hdr \in Nat
    BY <1>0, <1>1, <1>4 DEF OpenExisting, TypeOK, Segment
  <2>2. FlushedDurable' /\ AcceptedNotLost' /\ DiskOK'
    BY <1>0, <1>2, <2>1, QuietStep DEF Quiet, WriterOK
  <2>3. segmentSize' \in Nat /\ lastLSN' \in Nat /\ checkpoint' \in Nat /\ checkpoints' \in Nat
    <3>1. /\ LastLsnOf(segs[LastSegment].recs) \in Nat
          /\ LastCheckpointOf(segs[LastSegment].recs) \in Nat
          /\ Len(segs[LastSegment].recs) \in Nat
      BY <2>1, ScanType, LenProperties
    <3>2. /\ segmentSize' = 1 + Len(segs[LastSegment].recs)
          /\ lastLSN' \in {LastLsnOf(segs[LastSegment].recs), 0}
          /\ checkpoint' \in {segs[LastSegment].hdr, LastCheckpointOf(segs[LastSegment].recs)}
          /\ checkpoints' = segs[LastSegment].hdr
      BY <1>4, Zenon DEF OpenExisting
    <3>3. \A n \in Nat : 1 + n \in Nat
      OBVIOUS
    <3>4. segmentSize' \in Nat
      BY <3>1, <3>2, <3>3, Zenon
    <3>5. lastLSN' \in Nat
      <4>1. 0 \in Nat
        OBVIOUS
      <4> QED BY <3>1, <3>2, <4>1, Zenon
    <3>6. checkpoint' \in Nat /\ checkpoints' \in Nat
      BY <2>1, <3>1, <3>2, Zenon
    <3> QED BY <3>4, <3>5, <3>6
  <2>4. TypeOK'
    <3>1. adopted' \in {adopted, adopted \cup {checkpoint'}}
      BY <1>4 DEF OpenExisting
    <3>2. adopted' \subseteq Nat
      BY <1>0, <2>3, <3>1 DEF TypeOK
    <3> QED BY <1>0, <1>1, <1>2, <1>e, <2>1, <2>3, <3>2 DEF TypeOK, PCs
  <2>5. segs[LastSegment].here /\ segs[LastSegment].hdr # NoHdr
    BY <1>0, <1>1, <1>4 DEF OpenExisting, DiskOK
  <2>6. WriterOK' /\ CallOK'
    BY <1>0, <1>1, <1>2, <1>e, <2>1, <2>5 DEF WriterOK, CallOK
  <2> QED BY <2>2, <2>4, <2>6 DEF IndInv
<1> QED BY <1>3, <1>4

(* DeleteSegmentsBefore and CleanupSegments never touch the active segment.  *)
LEMMA RemoveInv ==
  ASSUME IndInv, NEW S \in SUBSET (Present \ {segmentID}), pc # "down", Remove(S)
  PROVE  IndInv'
<1>0. TypeOK /\ FlushedDurable /\ AcceptedNotLost /\ DiskOK /\ WriterOK /\ CallOK
  BY DEF IndInv
<1>e. <<>> \in Seq(Entry) /\ Len(<<>>) = 0
  OBVIOUS
<1>1. UNCHANGED <<file, segmentID, segmentSize, buffer, lastLSN, checkpoint, ticking,
                  checkpoints, pc, ret, op, pend, nextId, accepted, flushed, adopted, crashes,
                  faults>>
  BY DEF Remove, writer, call
<1>2. /\ \A i \in SegIds : i \in S => segs'[i] = NoFile
      /\ \A i \in SegIds : i \notin S => segs'[i] = segs[i]
      /\ S \subseteq SegIds /\ segmentID \notin S
  BY DEF Remove, Present
<1>3. segs' \in [SegIds -> Segment]
  <2>1. NoFile \in Segment
    BY <1>e DEF NoFile, Segment, NoHdr
  <2> QED BY <1>0, <2>1 DEF Remove, TypeOK
<1>4. \A x : x \in deleted' <=> x \in deleted \/ \E i \in S : x \in IdsOf(segs[i].recs)
  BY DEF Remove
<1>5. deleted' \subseteq Nat
  <2>1. \A i \in SegIds : IdsOf(segs[i].recs) \subseteq Nat
    BY <1>0, IdsOfType DEF TypeOK, Segment
  <2> QED BY <1>0, <1>2, <1>4, <2>1 DEF TypeOK
<1>6. TypeOK'
  BY <1>0, <1>1, <1>3, <1>5 DEF TypeOK
<1>7. FlushedDurable'
  <2> SUFFICES ASSUME NEW x \in flushed', x \notin deleted' PROVE x \in SyncedIds'
    BY DEF FlushedDurable
  <2>1. x \in SyncedIds
    BY <1>0, <1>1, <1>4 DEF FlushedDurable
  <2>2. PICK i \in SegIds : x \in SyncedOf(segs[i])
    BY <2>1, IdSets
  <2>3. i \notin S
    BY <1>0, <1>4, <2>2, SyncedOnDisk
  <2> QED BY <1>2, <2>2, <2>3, IdSets
<1>8. AcceptedNotLost'
  <2> SUFFICES ASSUME NEW x \in accepted', x \notin deleted', x \notin IdsOf(buffer')
               PROVE  x \in DiskIds'
    BY DEF AcceptedNotLost
  <2>1. x \in DiskIds
    BY <1>0, <1>1, <1>4 DEF AcceptedNotLost
  <2>2. PICK i \in SegIds : x \in IdsOf(segs[i].recs)
    BY <2>1, IdSets
  <2>3. i \notin S
    BY <1>4, <2>2
  <2> QED BY <1>2, <2>2, <2>3, IdSets
<1>9. DiskOK'
  BY SMTT(30), <1>0, <1>2, <1>e DEF DiskOK, NoFile
<1>10. WriterOK' /\ CallOK'
  <2>1. segs'[segmentID] = segs[segmentID]
    BY <1>0, <1>2 DEF TypeOK
  <2> QED BY <1>0, <1>1, <1>2, <2>1 DEF WriterOK, CallOK, NoFile
<1> QED BY <1>6, <1>7, <1>8, <1>9, <1>10 DEF IndInv

(* A crash truncates file k to q, which keeps all that was synced.           *)
TruncatedTo(k, q) ==
  /\ q \in Seq(Entry)
  /\ segs[k].synced <= Len(q)
  /\ Prefix(q, segs[k].synced) = Prefix(segs[k].recs, segs[k].synced)
  /\ IdsOf(q) \subseteq IdsOf(segs[k].recs) \cup {Torn.id}
  /\ segs' \in [SegIds -> Segment]
  /\ segs'[k].recs = q /\ segs'[k].synced = Len(q)
  /\ \A i \in SegIds : i # k => segs'[i] = segs[i]
  /\ SyncedIds \subseteq SyncedIds' /\ DiskOK'

LEMMA Truncated ==
  ASSUME TypeOK, DiskOK, NEW k \in SegIds, NEW torn \in BOOLEAN,
         NEW n \in segs[k].synced..(Len(segs[k].recs) - 1), NEW q,
         q = Prefix(segs[k].recs, n) \o (IF torn THEN <<Torn>> ELSE <<>>),
         segs' = [segs EXCEPT ![k].recs = q, ![k].synced = Len(q)]
  PROVE  TruncatedTo(k, q)
<1>1. segs[k] \in Segment /\ segs[k].recs \in Seq(Entry) /\ segs[k].synced \in Nat
      /\ Len(segs[k].recs) \in Nat
  BY LenProperties DEF TypeOK, Segment
<1>2. n \in 0..Len(segs[k].recs) /\ segs[k].synced \in 0..n /\ n \in Nat
  BY <1>1
<1> DEFINE p == Prefix(segs[k].recs, n)
           u == IF torn THEN <<Torn>> ELSE <<>>
<1>3. p \in Seq(Entry) /\ Len(p) = n /\ IdsOf(p) \subseteq IdsOf(segs[k].recs)
  BY <1>1, <1>2, PrefixProperties, IdsOfPrefix
<1>4. u \in Seq(Entry) /\ IdsOf(u) \subseteq {Torn.id}
  <2>1. Torn \in Entry
    BY DEF Torn, Entry
  <2>2. <<Torn>> \in Seq(Entry) /\ IdsOf(<<Torn>>) = {Torn.id}
    BY <2>1 DEF IdsOf
  <2>3. <<>> \in Seq(Entry) /\ IdsOf(<<>>) = {}
    BY IdsOfEmpty
  <2> QED BY <2>2, <2>3
<1>5. Prefix(p, segs[k].synced) = Prefix(segs[k].recs, segs[k].synced)
  <2>1. segs[k].synced \in 0..Len(segs[k].recs) /\ segs[k].synced \in 0..Len(p)
    BY <1>1, <1>2, <1>3
  <2>2. \A i \in 1..n : p[i] = segs[k].recs[i]
    BY <1>1, <1>2, PrefixProperties
  <2> HIDE DEF p
  <2>3. /\ Prefix(p, segs[k].synced) \in Seq(Entry)
        /\ Len(Prefix(p, segs[k].synced)) = segs[k].synced
        /\ \A i \in 1..segs[k].synced : Prefix(p, segs[k].synced)[i] = p[i]
    BY <1>3, <2>1, PrefixProperties
  <2>4. /\ Prefix(segs[k].recs, segs[k].synced) \in Seq(Entry)
        /\ Len(Prefix(segs[k].recs, segs[k].synced)) = segs[k].synced
        /\ \A i \in 1..segs[k].synced :
             Prefix(segs[k].recs, segs[k].synced)[i] = segs[k].recs[i]
    BY <1>1, <2>1, PrefixProperties
  <2>5. \A i \in 1..segs[k].synced :
          Prefix(p, segs[k].synced)[i] = Prefix(segs[k].recs, segs[k].synced)[i]
    BY <1>2, <2>2, <2>3, <2>4
  <2> QED BY <2>3, <2>4, <2>5, SeqEqual
<1> HIDE DEF p, u
<1>6. q = p \o u
  BY DEF p, u
<1>7. /\ q \in Seq(Entry) /\ IdsOf(q) = IdsOf(p) \cup IdsOf(u)
      /\ Prefix(q, segs[k].synced) = Prefix(p, segs[k].synced)
      /\ segs[k].synced <= Len(q) /\ Len(q) \in Nat
  <2>1. segs[k].synced \in 0..Len(p)
    BY <1>2, <1>3
  <2>2. p \o u \in Seq(Entry) /\ IdsOf(p \o u) = IdsOf(p) \cup IdsOf(u)
    BY <1>3, <1>4, IdsOfConcat
  <2>3. /\ Prefix(p \o u, segs[k].synced) = Prefix(p, segs[k].synced)
        /\ segs[k].synced <= Len(p \o u)
    BY <1>3, <1>4, <2>1, PrefixOfConcat
  <2>4. Len(q) \in Nat
    BY <1>6, <2>2, LenProperties
  <2> QED BY <1>6, <2>2, <2>3, <2>4
<1>8. /\ segs' \in [SegIds -> Segment]
      /\ segs'[k].recs = q /\ segs'[k].synced = Len(q)
      /\ segs'[k].here = segs[k].here /\ segs'[k].hdr = segs[k].hdr
      /\ \A i \in SegIds : i # k => segs'[i] = segs[i]
  BY <1>7 DEF TypeOK, Segment
<1>9. SyncedIds \subseteq SyncedIds'
  <2>1. SyncedOf(segs'[k]) = IdsOf(q)
    <3>1. Len(q) \in 0..Len(q)
      BY <1>7
    <3>2. Prefix(q, Len(q)) = q
      BY <1>7, <3>1, IdsOfPrefix
    <3> QED BY <1>8, <3>2 DEF SyncedOf
  <2>2. segs[k].synced \in 0..Len(q)
    BY <1>1, <1>7
  <2>3. SyncedOf(segs[k]) \subseteq SyncedOf(segs'[k])
    <3>1. IdsOf(Prefix(q, segs[k].synced)) \subseteq IdsOf(q)
      BY ZenonT(60), <1>7, <2>2, IdsOfPrefix
    <3> QED BY <1>5, <1>7, <2>1, <3>1 DEF SyncedOf
  <2> QED BY <1>8, <2>3, IdSets
<1>10. segs[k].hdr # NoHdr
  BY <1>1, <1>2 DEF DiskOK
<1>11. DiskOK'
  <2>1. segs'[k].synced <= Len(segs'[k].recs)
    BY <1>7, <1>8
  <2> QED BY <1>8, <1>10, <2>1 DEF DiskOK
<1> QED BY <1>3, <1>4, <1>5, <1>7, <1>8, <1>9, <1>11 DEF TruncatedTo

LEMMA CrashInv ==
  ASSUME IndInv, Crash
  PROVE  IndInv'
<1> USE WalConstants
<1>0. TypeOK /\ FlushedDurable /\ AcceptedNotLost /\ DiskOK /\ WriterOK /\ CallOK
  BY DEF IndInv
<1>e. <<>> \in Seq(Entry) /\ Len(<<>>) = 0
  OBVIOUS
<1>1. /\ pc' = "down" /\ file' = "nil" /\ buffer' = <<>> /\ ticking' = FALSE
      /\ op' = "none" /\ pend' = <<>> /\ crashes' = crashes + 1
      /\ accepted' = accepted \cap (DiskIds' \cup deleted)
      /\ UNCHANGED <<segmentID, segmentSize, lastLSN, checkpoint, checkpoints, ret, nextId,
                     flushed, deleted, adopted, faults>>
  BY DEF Crash
<1>2. segs' \in [SegIds -> Segment] /\ SyncedIds \subseteq SyncedIds' /\ DiskOK'
  <2>1. CASE UNCHANGED segs
    BY <1>0, <2>1 DEF TypeOK, SyncedIds, DiskOK
  <2>2. CASE \E i \in SegIds, torn \in {FALSE, TornWrites} :
             \E n \in segs[i].synced..(Len(segs[i].recs) - 1) :
               LET kept == Prefix(segs[i].recs, n) \o IF torn THEN <<Torn>> ELSE <<>>
               IN  segs' = [segs EXCEPT ![i].recs = kept, ![i].synced = Len(kept)]
    <3>1. PICK i \in SegIds, torn \in {FALSE, TornWrites} :
            \E n \in segs[i].synced..(Len(segs[i].recs) - 1) :
              LET kept == Prefix(segs[i].recs, n) \o IF torn THEN <<Torn>> ELSE <<>>
              IN  segs' = [segs EXCEPT ![i].recs = kept, ![i].synced = Len(kept)]
      BY <2>2
    <3>2. PICK n \in segs[i].synced..(Len(segs[i].recs) - 1) :
            LET kept == Prefix(segs[i].recs, n) \o IF torn THEN <<Torn>> ELSE <<>>
            IN  segs' = [segs EXCEPT ![i].recs = kept, ![i].synced = Len(kept)]
      BY <3>1
    <3> DEFINE q == Prefix(segs[i].recs, n) \o (IF torn THEN <<Torn>> ELSE <<>>)
    <3>3. segs' = [segs EXCEPT ![i].recs = q, ![i].synced = Len(q)] /\ torn \in BOOLEAN
      BY <3>2
    <3>4. q = Prefix(segs[i].recs, n) \o (IF torn THEN <<Torn>> ELSE <<>>)
      OBVIOUS
    <3> HIDE DEF q
    <3>5. TruncatedTo(i, q)
      BY <1>0, <3>3, <3>4, Truncated
    <3> QED BY <3>5 DEF TruncatedTo
  <2> QED BY <2>1, <2>2 DEF Crash
<1>3. FlushedDurable' /\ AcceptedNotLost'
  BY <1>0, <1>1, <1>2 DEF FlushedDurable, AcceptedNotLost
<1>4. TypeOK'
  <2>0. accepted \subseteq Nat /\ crashes \in Nat
    BY <1>0 DEF TypeOK
  <2>1. accepted' \subseteq Nat /\ crashes' \in Nat
    <3>1. accepted' \subseteq accepted /\ crashes' = crashes + 1
      BY <1>1, Zenon
    <3> QED BY <2>0, <3>1
  <2> QED BY <1>0, <1>1, <1>2, <1>e, <2>1 DEF TypeOK, PCs
<1>5. WriterOK' /\ CallOK'
  BY <1>0, <1>1 DEF WriterOK, CallOK
<1> QED BY <1>2, <1>3, <1>4, <1>5 DEF IndInv

-----------------------------------------------------------------------------
(* Every step of the log keeps the inductive invariant.                      *)
THEOREM NextInv == IndInv /\ [Next]_vars => IndInv'
<1> SUFFICES ASSUME IndInv, [Next]_vars PROVE IndInv'
  OBVIOUS
<1>1. CASE UNCHANGED vars
  BY ZenonT(60), <1>1 DEF vars, IndInv, TypeOK, FlushedDurable, AcceptedNotLost, DiskOK, WriterOK,
              CallOK, SyncedIds, DiskIds
<1>2. CASE OpenFresh \/ OpenExisting
  BY <1>2, OpenInv
<1>3. CASE \E n \in 1..MaxBatch : Write(n) \/ WriteTooLarge(n)
  BY <1>3, WriteInv, QuietActionsInv
<1>4. CASE CreateCheckpoint \/ Flush \/ Tick \/ Close
  BY <1>4, CreateCheckpointInv, QuietActionsInv
<1>5. CASE Step
  BY <1>5, QuietActionsInv, CreateSegmentInv, WriteHeaderInv, AppendBufferInv,
     MarkHeaderInv, FlushWriteInv, FlushSyncInv DEF Step
<1>6. CASE DeleteSegmentsBefore(checkpoint)
  BY <1>6, RemoveInv DEF DeleteSegmentsBefore
<1>7. CASE \E keep \in 1..MaxSegments : CleanupSegments(keep)
  BY <1>7, RemoveInv DEF CleanupSegments
<1>8. CASE Crash
  BY <1>8, CrashInv
<1> QED BY <1>1, <1>2, <1>3, <1>4, <1>5, <1>6, <1>7, <1>8 DEF Next

(* The inductive invariant holds in every state of every run of the log,     *)
(* for every sync mode, size, bound and set of failing I/O calls.            *)
THEOREM InductiveInvariant == Spec => []IndInv
BY InitInv, NextInv, PTL DEF Spec

(* Type correctness of the writer, the files and the call in progress.       *)
THEOREM TypeCorrect == Spec => []TypeOK
<1>1. IndInv => TypeOK
  BY DEF IndInv
<1> QED BY <1>1, InductiveInvariant, PTL

(* flushLocked's promise: whatever it confirmed stays synced on the disk     *)
(* through every failed call, torn write, crash, reopening and rotation.     *)
THEOREM Durability == Spec => []FlushedDurable
<1>1. IndInv => FlushedDurable
  BY DEF IndInv
<1> QED BY <1>1, InductiveInvariant, PTL

(* Without a crash no entry that entered the buffer is lost: it is in the    *)
(* buffer or in a file until its segment is deleted.                         *)
THEOREM NothingDropped == Spec => []AcceptedNotLost
<1>1. IndInv => AcceptedNotLost
  BY DEF IndInv
<1> QED BY <1>1, InductiveInvariant, PTL

-----------------------------------------------------------------------------
(* Two facts about the steps: the synced part of a segment is append-only,   *)
(* and the log implements DurableLog.  Both rest on the inductive invariant  *)
(* and on one lemma: every step but a deletion and a crash only adds records *)
(* to the files.                                                             *)

(* File s may become t while the log is in use.                              *)
Grows(s, t) ==
  /\ t.synced >= s.synced
  /\ Prefix(t.recs, s.synced) = Prefix(s.recs, s.synced)
  /\ IdsOf(s.recs) \subseteq IdsOf(t.recs)

LEMMA GrowsSame ==
  ASSUME TypeOK, NEW i \in SegIds, segs'[i].recs = segs[i].recs,
         segs'[i].synced = segs[i].synced
  PROVE  Grows(segs[i], segs'[i])
<1>1. segs[i].synced \in Nat
  BY DEF TypeOK, Segment
<1> QED BY <1>1 DEF Grows

LEMMA GrowsFromEmpty ==
  ASSUME TypeOK, DiskOK, NEW i \in SegIds, segs[i].hdr = NoHdr,
         segs'[i].recs = <<>>, segs'[i].synced = 0
  PROVE  Grows(segs[i], segs'[i])
<1>1. segs[i].recs = <<>>
  BY DEF DiskOK
<1>2. segs[i].synced = 0
  BY <1>1 DEF DiskOK, TypeOK, Segment
<1> QED BY <1>1, <1>2 DEF Grows

LEMMA GrowsByAppend ==
  ASSUME TypeOK, DiskOK, NEW i \in SegIds, NEW t \in Seq(Entry),
         segs'[i].recs = segs[i].recs \o t, segs'[i].synced = segs[i].synced
  PROVE  Grows(segs[i], segs'[i])
<1>1. segs[i].recs \in Seq(Entry) /\ segs[i].synced \in 0..Len(segs[i].recs)
      /\ segs[i].synced \in Nat
  BY LenProperties DEF TypeOK, Segment, DiskOK
<1>2. Prefix(segs[i].recs \o t, segs[i].synced) = Prefix(segs[i].recs, segs[i].synced)
  BY <1>1, PrefixOfConcat
<1>3. IdsOf(segs[i].recs) \subseteq IdsOf(segs[i].recs \o t)
  BY <1>1, IdsOfConcat
<1> QED BY <1>1, <1>2, <1>3 DEF Grows

LEMMA FlushWriteGrows ==
  ASSUME IndInv, FlushWrite
  PROVE  \A i \in SegIds : Grows(segs[i], segs'[i])
<1> USE WalConstants
<1>0. TypeOK /\ DiskOK /\ segmentID \in SegIds /\ segs[segmentID].recs \in Seq(Entry)
      /\ buffer \in Seq(Entry) /\ Len(buffer) \in Nat
  BY LenProperties DEF IndInv, TypeOK, Segment
<1>1. ASSUME NEW t \in Seq(Entry),
             segs' = [segs EXCEPT ![segmentID].recs = segs[segmentID].recs \o t]
      PROVE  \A i \in SegIds : Grows(segs[i], segs'[i])
  <2> DEFINE r == segs[segmentID].recs \o t
  <2>1. segs' = [segs EXCEPT ![segmentID].recs = r]
    BY <1>1
  <2>2. r = segs[segmentID].recs \o t
    OBVIOUS
  <2> HIDE DEF r
  <2>3. /\ \A i \in SegIds : i # segmentID => segs'[i] = segs[i]
        /\ segs'[segmentID].recs = r /\ segs'[segmentID].synced = segs[segmentID].synced
    BY <1>0, <2>1 DEF TypeOK, Segment
  <2> QED BY <1>0, <1>1, <2>2, <2>3, GrowsSame, GrowsByAppend
<1>2. CASE segs' = [segs EXCEPT ![segmentID].recs = @ \o buffer]
  BY <1>0, <1>1, <1>2
<1>3. CASE UNCHANGED segs
  BY <1>0, <1>3, GrowsSame
<1>4. CASE \E n \in 0..(Len(buffer) - 1), torn \in {FALSE, TornWrites} :
             segs' = [segs EXCEPT ![segmentID].recs =
                        @ \o Prefix(buffer, n) \o IF torn THEN <<Torn>> ELSE <<>>]
  <2>1. PICK n \in 0..(Len(buffer) - 1), torn \in {FALSE, TornWrites} :
          segs' = [segs EXCEPT ![segmentID].recs =
                     @ \o Prefix(buffer, n) \o IF torn THEN <<Torn>> ELSE <<>>]
    BY <1>4
  <2> DEFINE u == IF torn THEN <<Torn>> ELSE <<>>
             p == Prefix(buffer, n)
  <2>2. u \in Seq(Entry)
    <3>1. Torn \in Entry
      BY DEF Torn, Entry
    <3>2. <<Torn>> \in Seq(Entry) /\ <<>> \in Seq(Entry)
      BY <3>1
    <3> QED BY <3>2
  <2>3. p \in Seq(Entry)
    <3>1. n \in 0..Len(buffer)
      BY <1>0
    <3> QED BY <1>0, <3>1, PrefixProperties
  <2>4. segs' = [segs EXCEPT ![segmentID].recs = (segs[segmentID].recs \o p) \o u]
    BY <1>0, <2>1 DEF TypeOK
  <2> HIDE DEF p, u
  <2>5. p \o u \in Seq(Entry)
    BY <2>2, <2>3, ConcatProperties
  <2>6. (segs[segmentID].recs \o p) \o u = segs[segmentID].recs \o (p \o u)
    BY <1>0, <2>2, <2>3, EntriesAssociative
  <2> QED BY <1>1, <2>4, <2>5, <2>6
<1> QED BY <1>2, <1>3, <1>4 DEF FlushWrite

(* Every step but a deletion and a crash only adds to the files.             *)
Working ==
  \/ OpenFresh \/ OpenExisting
  \/ \E n \in 1..MaxBatch : Write(n) \/ WriteTooLarge(n)
  \/ CreateCheckpoint \/ Flush \/ Tick \/ Close
  \/ Step

LEMMA WorkingFiles ==
  ASSUME Working
  PROVE  \/ UNCHANGED segs
         \/ OpenFresh \/ CreateSegment \/ WriteHeader \/ MarkHeader \/ FlushWrite \/ FlushSync
<1>1. CASE OpenFresh \/ OpenExisting
  BY <1>1 DEF OpenExisting
<1>2. CASE \E n \in 1..MaxBatch : Write(n) \/ WriteTooLarge(n)
  BY <1>2 DEF Write, WriteTooLarge
<1>3. CASE CreateCheckpoint \/ Flush \/ Tick \/ Close
  BY <1>3 DEF CreateCheckpoint, Flush, Tick, Close
<1>4. CASE Step
  BY <1>4 DEF Step, EnsureCapacity, BatchFlush, AppendBuffer, FlushNothing, CloseFile
<1> QED BY <1>1, <1>2, <1>3, <1>4 DEF Working

LEMMA WorkingGrows ==
  ASSUME IndInv, Working
  PROVE  \A i \in SegIds : Grows(segs[i], segs'[i])
<1> USE WalConstants
<1>0. TypeOK /\ DiskOK /\ WriterOK /\ segmentID \in SegIds
  BY DEF IndInv, TypeOK
<1>1. CASE UNCHANGED segs
  BY <1>0, <1>1, GrowsSame
<1>2. CASE OpenFresh
  <2>1. LastSegment \in SegIds
    BY <1>0, LastSegmentProperties
  <2> DEFINE new == [EmptyFile EXCEPT !.hdr = 0]
  <2>2. new.recs = <<>> /\ new.synced = 0
    BY DEF EmptyFile
  <2>3. segs' = [segs EXCEPT ![LastSegment] = new] /\ segs[LastSegment].hdr = NoHdr
    BY <1>2 DEF OpenFresh
  <2> HIDE DEF new
  <2>4. segs'[LastSegment] = new /\ \A i \in SegIds : i # LastSegment => segs'[i] = segs[i]
    BY <1>0, <2>1, <2>3 DEF TypeOK
  <2> QED BY <1>0, <2>1, <2>2, <2>3, <2>4, GrowsSame, GrowsFromEmpty
<1>3. CASE CreateSegment /\ ~UNCHANGED segs
  <2>1. segmentID + 1 \in SegIds /\ ~segs[segmentID + 1].here /\ pc = "create"
    <3>1. pc = "create" /\ segmentID < MaxSegments
      BY <1>3 DEF CreateSegment
    <3>2. segmentID + 1 \in SegIds /\ ~(segmentID + 1 <= segmentID)
      BY <1>0, <3>1 DEF SegIds
    <3>3. \A i \in SegIds : segs[i].here => i <= segmentID
      BY <1>0, <3>1 DEF WriterOK
    <3> QED BY <3>1, <3>2, <3>3
  <2>2. segs[segmentID + 1].hdr = NoHdr
    BY <1>0, <2>1 DEF DiskOK
  <2>3. /\ segs'[segmentID + 1] = EmptyFile
        /\ \A i \in SegIds : i # segmentID + 1 => segs'[i] = segs[i]
    BY <1>0, <1>3, <2>1 DEF CreateSegment, TypeOK
  <2> QED BY <1>0, <2>1, <2>2, <2>3, GrowsSame, GrowsFromEmpty DEF EmptyFile
<1>4. CASE (WriteHeader \/ MarkHeader) /\ ~UNCHANGED segs
  <2>1. \E c : segs' = [segs EXCEPT ![segmentID].hdr = c]
    <3>1. CASE segs' = [segs EXCEPT ![segmentID].hdr = checkpoint]
      BY <3>1
    <3>2. CASE segs' = [segs EXCEPT ![segmentID].hdr = pend[1].lsn]
      BY <3>2
    <3> QED BY <1>4, <3>1, <3>2 DEF WriteHeader, MarkHeader
  <2>2. \A i \in SegIds : segs'[i].recs = segs[i].recs /\ segs'[i].synced = segs[i].synced
    <3>1. PICK c : segs' = [segs EXCEPT ![segmentID].hdr = c]
      BY <2>1
    <3>2. \A i \in SegIds : i # segmentID => segs'[i] = segs[i]
      BY <1>0, <3>1 DEF TypeOK
    <3>3. segs'[segmentID] = [segs[segmentID] EXCEPT !.hdr = c]
      BY <1>0, <3>1 DEF TypeOK
    <3>4. segs[segmentID] \in Segment
      BY <1>0 DEF TypeOK
    <3>5. segs'[segmentID].recs = segs[segmentID].recs
          /\ segs'[segmentID].synced = segs[segmentID].synced
      BY <3>3, <3>4 DEF Segment
    <3> QED BY <3>2, <3>5
  <2> QED BY <1>0, <2>2, GrowsSame
<1>5. CASE FlushWrite
  BY <1>5, FlushWriteGrows
<1>6. CASE FlushSync /\ ~UNCHANGED segs
  <2>1. /\ \A i \in SegIds : segs'[i].recs = segs[i].recs
        /\ \A i \in SegIds : i # segmentID => segs'[i] = segs[i]
        /\ segs'[segmentID].synced = Len(segs[segmentID].recs)
    BY <1>0, <1>6 DEF FlushSync, TypeOK, Segment
  <2>2. /\ segs[segmentID].synced <= Len(segs[segmentID].recs)
        /\ segs[segmentID].synced \in Nat /\ Len(segs[segmentID].recs) \in Nat
    BY <1>0, LenProperties DEF TypeOK, Segment, DiskOK
  <2>3. Grows(segs[segmentID], segs'[segmentID])
    BY <1>0, <2>1, <2>2 DEF Grows
  <2> QED BY <1>0, <2>1, <2>3, GrowsSame
<1> QED BY <1>1, <1>2, <1>3, <1>4, <1>5, <1>6, WorkingFiles

-----------------------------------------------------------------------------
LEMMA RemoveKeeps ==
  ASSUME NEW S, Remove(S)
  PROVE  \A i \in SegIds : \/ i \notin S /\ segs'[i] = segs[i]
                           \/ i \in S /\ segs'[i] = NoFile
BY DEF Remove

(* What a crash leaves of the files.                                         *)
LEMMA CrashKeeps ==
  ASSUME IndInv, Crash, NEW i \in SegIds
  PROVE  /\ segs'[i].synced >= segs[i].synced
         /\ Prefix(segs'[i].recs, segs[i].synced) = Prefix(segs[i].recs, segs[i].synced)
         /\ IdsOf(segs'[i].recs) \subseteq IdsOf(segs[i].recs) \cup {Torn.id}
<1> USE WalConstants
<1>0. TypeOK /\ DiskOK /\ \A j \in SegIds : segs[j].synced \in Nat
  BY DEF IndInv, TypeOK, Segment
<1>1. CASE UNCHANGED segs
  BY <1>0, <1>1
<1>2. CASE \E k \in SegIds, torn \in {FALSE, TornWrites} :
           \E n \in segs[k].synced..(Len(segs[k].recs) - 1) :
             LET kept == Prefix(segs[k].recs, n) \o IF torn THEN <<Torn>> ELSE <<>>
             IN  segs' = [segs EXCEPT ![k].recs = kept, ![k].synced = Len(kept)]
  <2>1. PICK k \in SegIds, torn \in {FALSE, TornWrites} :
          \E n \in segs[k].synced..(Len(segs[k].recs) - 1) :
            LET kept == Prefix(segs[k].recs, n) \o IF torn THEN <<Torn>> ELSE <<>>
            IN  segs' = [segs EXCEPT ![k].recs = kept, ![k].synced = Len(kept)]
    BY <1>2
  <2>2. PICK n \in segs[k].synced..(Len(segs[k].recs) - 1) :
          LET kept == Prefix(segs[k].recs, n) \o IF torn THEN <<Torn>> ELSE <<>>
          IN  segs' = [segs EXCEPT ![k].recs = kept, ![k].synced = Len(kept)]
    BY <2>1
  <2> DEFINE q == Prefix(segs[k].recs, n) \o (IF torn THEN <<Torn>> ELSE <<>>)
  <2>3. segs' = [segs EXCEPT ![k].recs = q, ![k].synced = Len(q)] /\ torn \in BOOLEAN
    BY <2>2
  <2>4. q = Prefix(segs[k].recs, n) \o (IF torn THEN <<Torn>> ELSE <<>>)
    OBVIOUS
  <2> HIDE DEF q
  <2>5. /\ q \in Seq(Entry)
        /\ segs[k].synced <= Len(q)
        /\ Prefix(q, segs[k].synced) = Prefix(segs[k].recs, segs[k].synced)
        /\ IdsOf(q) \subseteq IdsOf(segs[k].recs) \cup {Torn.id}
        /\ segs'[k].recs = q /\ segs'[k].synced = Len(q)
        /\ \A j \in SegIds : j # k => segs'[j] = segs[j]
    <3>1. TruncatedTo(k, q)
      BY <1>0, <2>3, <2>4, Truncated
    <3> QED BY <3>1 DEF TruncatedTo
  <2>6. Len(q) \in Nat
    BY <2>5, LenProperties
  <2>7. CASE i = k
    BY <1>0, <2>5, <2>6, <2>7
  <2>8. CASE i # k
    BY <1>0, <2>5, <2>8
  <2> QED BY <2>7, <2>8
<1> QED BY <1>1, <1>2 DEF Crash

(* A step removes a file or keeps its synced records.                        *)
LEMMA StepKeeps ==
  ASSUME IndInv, Next, NEW i \in SegIds, segs'[i].here
  PROVE  /\ segs'[i].synced >= segs[i].synced
         /\ Prefix(segs'[i].recs, segs[i].synced) = Prefix(segs[i].recs, segs[i].synced)
<1>0. segs[i].synced \in Nat
  BY DEF IndInv, TypeOK, Segment
<1>1. CASE Working
  BY <1>1, WorkingGrows DEF Grows
<1>2. CASE Crash
  BY <1>2, CrashKeeps
<1>3. ASSUME NEW S, Remove(S)
      PROVE  segs'[i] = segs[i]
  <2>1. ~NoFile.here
    BY DEF NoFile
  <2> QED BY <1>3, <2>1, RemoveKeeps
<1>4. CASE DeleteSegmentsBefore(checkpoint)
  <2>1. segs'[i] = segs[i]
    BY <1>3, <1>4 DEF DeleteSegmentsBefore
  <2> QED BY <1>0, <2>1
<1>5. CASE \E keep \in 1..MaxSegments : CleanupSegments(keep)
  <2>1. segs'[i] = segs[i]
    BY <1>3, <1>5 DEF CleanupSegments
  <2> QED BY <1>0, <2>1
<1> QED BY <1>1, <1>2, <1>4, <1>5 DEF Next, Working

(* The log is append-only: as long as a segment's file exists its synced     *)
(* records stay what they are, over every failed call, crash and reopening.  *)
THEOREM LogAppendOnly == Spec => AppendOnly
<1> DEFINE Kept == \A i \in SegIds : segs'[i].here =>
                     /\ segs'[i].synced >= segs[i].synced
                     /\ Prefix(segs'[i].recs, segs[i].synced) =
                          Prefix(segs[i].recs, segs[i].synced)
<1>1. IndInv /\ [Next]_vars => [Kept]_vars
  BY StepKeeps
<1> QED BY <1>1, InductiveInvariant, PTL DEF Spec, AppendOnly

-----------------------------------------------------------------------------
(* The entry CreateCheckpoint is going to mark: in the buffer, then in the   *)
(* file, then synced.                                                        *)
MarkOK ==
  /\ op = "checkpoint" => pend[1].op = "checkpoint"
  /\ pc = "flush" /\ ret = "mark" => \E k \in DOMAIN buffer : buffer[k] = pend[1]
  /\ pc = "sync" /\ ret = "mark" =>
       \E k \in DOMAIN segs[segmentID].recs : segs[segmentID].recs[k] = pend[1]
  /\ pc = "mark" => Backs(segs[segmentID], pend[1].lsn)

(* The checkpoint in a header.  HeaderBacked alone is not inductive: rotation *)
(* copies the writer's checkpoint into the new header and CreateCheckpoint    *)
(* marks the header with an entry it flushed some steps before.               *)
HeaderOK ==
  /\ HeaderBacked
  /\ MarkOK
  /\ pc # "down" /\ checkpoint > 0 =>
       checkpoint \in adopted \/ Backed(checkpoint, segmentID)

(* How one file may change in a step.                                        *)
Renewed(i) ==
  /\ segs'[i].here /\ ~(segs'[i].hdr > 0) /\ i = segmentID'
  /\ \A j \in Present : j <= i

Marked(i) ==
  /\ i = segmentID /\ UNCHANGED segmentID
  /\ segs'[i].here = segs[i].here
  /\ \/ WriteHeader /\ segs'[i].hdr = checkpoint
     \/ MarkHeader /\ segs'[i].hdr = pend[1].lsn

FileChange(i) ==
  \/ segs'[i].here = segs[i].here /\ segs'[i].hdr = segs[i].hdr
  \/ ~segs'[i].here /\ i # segmentID /\ pc # "down" /\ UNCHANGED segmentID
  \/ Renewed(i)
  \/ Marked(i)

LEMMA BacksKept ==
  ASSUME IndInv, Next, NEW i \in SegIds, NEW c, segs'[i].here, Backs(segs[i], c)
  PROVE  Backs(segs'[i], c)
<1>1. /\ segs[i].recs \in Seq(Entry) /\ segs[i].synced \in 0..Len(segs[i].recs)
      /\ segs[i].synced \in Nat
  BY LenProperties DEF IndInv, TypeOK, Segment, DiskOK
<1>2. IndInv'
  BY NextInv
<1>3. /\ segs'[i].recs \in Seq(Entry) /\ segs'[i].synced \in Nat
      /\ segs'[i].synced <= Len(segs'[i].recs) /\ Len(segs'[i].recs) \in Nat
  BY <1>2, LenProperties DEF IndInv, TypeOK, Segment, DiskOK
<1>4. /\ segs'[i].synced >= segs[i].synced
      /\ Prefix(segs'[i].recs, segs[i].synced) = Prefix(segs[i].recs, segs[i].synced)
  BY StepKeeps
<1>5. segs[i].synced \in 0..Len(segs'[i].recs)
  BY <1>1, <1>3, <1>4
<1>6. PICK k \in 1..segs[i].synced : segs[i].recs[k].op = "checkpoint" /\ segs[i].recs[k].lsn = c
  BY DEF Backs
<1>7. segs'[i].recs[k] = segs[i].recs[k]
  <2>1. Prefix(segs[i].recs, segs[i].synced)[k] = segs[i].recs[k]
    BY <1>1, PrefixProperties
  <2>2. Prefix(segs'[i].recs, segs[i].synced)[k] = segs'[i].recs[k]
    BY <1>3, <1>5, PrefixProperties
  <2> QED BY <1>4, <2>1, <2>2
<1>8. k \in 1..segs'[i].synced
  BY <1>1, <1>3, <1>4
<1> QED BY <1>6, <1>7, <1>8 DEF Backs

(* Backed(c, i) after the step, for the c of before.                         *)
StillBacked(c, i) ==
  (\E g \in 0..(i - 1) : ~segs'[g].here) \/ (\E j \in 0..i : Backs(segs'[j], c))

LEMMA BackedKept ==
  ASSUME IndInv, Next, NEW i \in SegIds, NEW c, Backed(c, i),
         segs[i].here => segs'[i].here,
         \A g \in 0..(i - 1) : segs'[g].here => segs[g].here
  PROVE  StillBacked(c, i)
<1> USE WalConstants
<1>1. CASE \E g \in 0..(i - 1) : ~segs[g].here
  BY <1>1 DEF StillBacked
<1>2. ASSUME NEW j \in 0..i, Backs(segs[j], c)
      PROVE  StillBacked(c, i)
  <2>1. j \in SegIds /\ i \in Nat
    BY DEF SegIds
  <2>2. segs[j].here
    <3>1. segs[j].synced \in Nat /\ segs[j].recs \in Seq(Entry)
      BY <2>1 DEF IndInv, TypeOK, Segment
    <3>2. segs[j].synced > 0
      BY <1>2, <3>1 DEF Backs
    <3>3. segs[j].recs # <<>>
      <4>1. segs[j].synced <= Len(segs[j].recs)
        BY <2>1 DEF IndInv, DiskOK
      <4> QED BY <3>1, <3>2, <4>1
    <3> QED BY <2>1, <3>3 DEF IndInv, DiskOK
  <2>3. CASE segs'[j].here
    BY <1>2, <2>1, <2>3, BacksKept DEF StillBacked
  <2>4. CASE ~segs'[j].here
    <3>1. j # i
      BY <2>2, <2>4
    <3>2. j \in 0..(i - 1)
      BY <2>1, <3>1
    <3> QED BY <2>4, <3>2 DEF StillBacked
  <2> QED BY <2>3, <2>4
<1> QED BY <1>1, <1>2 DEF Backed

LEMMA FileChanges ==
  ASSUME IndInv, Next, NEW i \in SegIds
  PROVE  FileChange(i)
<1> USE WalConstants
<1>0. /\ TypeOK /\ DiskOK /\ WriterOK /\ segmentID \in SegIds
      /\ \A j \in SegIds : segs[j] \in Segment
  BY DEF IndInv, TypeOK
<1>1. CASE UNCHANGED segs
  BY <1>1 DEF FileChange
<1>2. CASE OpenFresh
  <2>1. LastSegment \in SegIds /\ \A j \in SegIds : segs[j].here => j <= LastSegment
    BY <1>0, LastSegmentProperties
  <2> DEFINE new == [EmptyFile EXCEPT !.hdr = 0]
  <2>2. new.here /\ ~(new.hdr > 0)
    BY DEF EmptyFile
  <2>3. segs' = [segs EXCEPT ![LastSegment] = new] /\ segmentID' = LastSegment
    BY <1>2 DEF OpenFresh
  <2> HIDE DEF new
  <2>4. segs'[LastSegment] = new /\ (i # LastSegment => segs'[i] = segs[i])
    BY <1>0, <2>1, <2>3 DEF TypeOK
  <2>5. CASE i = LastSegment
    BY <2>1, <2>2, <2>3, <2>4, <2>5 DEF FileChange, Renewed, Present
  <2> QED BY <2>4, <2>5 DEF FileChange
<1>3. CASE CreateSegment /\ ~UNCHANGED segs
  <2>1. /\ pc = "create" /\ segmentID < MaxSegments /\ segmentID' = segmentID + 1
        /\ segs' = [segs EXCEPT ![segmentID + 1] = EmptyFile]
    BY <1>3 DEF CreateSegment
  <2>2. segmentID + 1 \in SegIds
    BY <1>0, <2>1 DEF SegIds
  <2>3. segs'[segmentID + 1] = EmptyFile /\ (i # segmentID + 1 => segs'[i] = segs[i])
    BY <1>0, <2>1, <2>2 DEF TypeOK
  <2>4. CASE i = segmentID + 1
    <3>1. \A j \in Present : j <= i
      <4>1. \A j \in Present : j \in SegIds /\ j <= segmentID
        BY <1>0, <2>1 DEF WriterOK, Present
      <4> QED BY <1>0, <2>4, <4>1 DEF SegIds
    <3>2. EmptyFile.here /\ ~(EmptyFile.hdr > 0)
      BY DEF EmptyFile, NoHdr
    <3> QED BY <2>1, <2>3, <2>4, <3>1, <3>2 DEF FileChange, Renewed
  <2> QED BY <2>3, <2>4 DEF FileChange
<1>4. ASSUME NEW h, segs' = [segs EXCEPT ![segmentID].hdr = h]
      PROVE  \/ segs'[i].here = segs[i].here /\ segs'[i].hdr = segs[i].hdr
             \/ i = segmentID /\ segs'[i].here = segs[i].here /\ segs'[i].hdr = h
  <2>1. CASE i = segmentID
    <3>1. segs'[i] = [segs[i] EXCEPT !.hdr = h]
      BY <1>0, <1>4, <2>1 DEF TypeOK
    <3> QED BY <1>0, <2>1, <3>1 DEF Segment
  <2>2. CASE i # segmentID
    BY <1>0, <1>4, <2>2 DEF TypeOK
  <2> QED BY <2>1, <2>2
<1>5. CASE WriteHeader /\ ~UNCHANGED segs
  <2>1. segs' = [segs EXCEPT ![segmentID].hdr = checkpoint] /\ UNCHANGED segmentID
    BY <1>5 DEF WriteHeader
  <2> QED BY <1>4, <1>5, <2>1 DEF FileChange, Marked
<1>6. CASE MarkHeader /\ ~UNCHANGED segs
  <2>1. segs' = [segs EXCEPT ![segmentID].hdr = pend[1].lsn] /\ UNCHANGED segmentID
    BY <1>6 DEF MarkHeader
  <2> QED BY <1>4, <1>6, <2>1 DEF FileChange, Marked
<1>7. ASSUME NEW k \in SegIds, NEW r, segs' = [segs EXCEPT ![k].recs = r]
      PROVE  FileChange(i)
  <2>1. CASE i = k
    <3>1. segs'[i] = [segs[i] EXCEPT !.recs = r]
      BY <1>0, <1>7, <2>1 DEF TypeOK
    <3> QED BY <1>0, <3>1 DEF Segment, FileChange
  <2>2. CASE i # k
    BY <1>0, <1>7, <2>2 DEF TypeOK, FileChange
  <2> QED BY <2>1, <2>2
<1>8. CASE FlushWrite
  <2>1. CASE segs' = [segs EXCEPT ![segmentID].recs = @ \o buffer]
    <3>1. segs' = [segs EXCEPT ![segmentID].recs = segs[segmentID].recs \o buffer]
      BY <1>0, <2>1 DEF TypeOK
    <3> QED BY <1>0, <1>7, <3>1
  <2>2. CASE \E n \in 0..(Len(buffer) - 1), torn \in {FALSE, TornWrites} :
               segs' = [segs EXCEPT ![segmentID].recs =
                          @ \o Prefix(buffer, n) \o IF torn THEN <<Torn>> ELSE <<>>]
    <3>1. PICK n \in 0..(Len(buffer) - 1), torn \in {FALSE, TornWrites} :
            segs' = [segs EXCEPT ![segmentID].recs =
                       @ \o Prefix(buffer, n) \o IF torn THEN <<Torn>> ELSE <<>>]
      BY <2>2
    <3> DEFINE r == (segs[segmentID].recs \o Prefix(buffer, n)) \o
                      IF torn THEN <<Torn>> ELSE <<>>
    <3>2. segs' = [segs EXCEPT ![segmentID].recs = r]
      BY <1>0, <3>1 DEF TypeOK
    <3> HIDE DEF r
    <3> QED BY <1>0, <1>7, <3>2
  <2> QED BY <1>1, <1>8, <2>1, <2>2 DEF FlushWrite
<1>9. CASE FlushSync /\ ~UNCHANGED segs
  <2> DEFINE n == Len(segs[segmentID].recs)
  <2>1. segs' = [segs EXCEPT ![segmentID].synced = n]
    BY <1>9 DEF FlushSync
  <2> HIDE DEF n
  <2>2. CASE i = segmentID
    <3>1. segs'[i] = [segs[i] EXCEPT !.synced = n]
      BY <1>0, <2>1, <2>2 DEF TypeOK
    <3> QED BY <1>0, <3>1 DEF Segment, FileChange
  <2>3. CASE i # segmentID
    BY <1>0, <2>1, <2>3 DEF TypeOK, FileChange
  <2> QED BY <2>2, <2>3
<1>10. CASE Working
  BY <1>1, <1>2, <1>3, <1>5, <1>6, <1>8, <1>9, <1>10, WorkingFiles
<1>11. CASE Crash
  <2>1. CASE \E k \in SegIds, torn \in {FALSE, TornWrites} :
             \E n \in segs[k].synced..(Len(segs[k].recs) - 1) :
               LET kept == Prefix(segs[k].recs, n) \o IF torn THEN <<Torn>> ELSE <<>>
               IN  segs' = [segs EXCEPT ![k].recs = kept, ![k].synced = Len(kept)]
    <3>0. PICK k \in SegIds :
            \E q : segs' = [segs EXCEPT ![k].recs = q, ![k].synced = Len(q)]
      BY <2>1
    <3>1. PICK q : segs' = [segs EXCEPT ![k].recs = q, ![k].synced = Len(q)]
      BY <3>0
    <3> DEFINE m == Len(q)
    <3>2. segs' = [segs EXCEPT ![k].recs = q, ![k].synced = m]
      BY <3>1
    <3> HIDE DEF m
    <3>3. CASE i = k
      <4>1. segs'[i] = [segs[i] EXCEPT !.recs = q, !.synced = m]
        BY <1>0, <3>2, <3>3 DEF TypeOK
      <4> QED BY <1>0, <4>1 DEF Segment, FileChange
    <3>4. CASE i # k
      BY <1>0, <3>2, <3>4 DEF TypeOK, FileChange
    <3> QED BY <3>3, <3>4
  <2> QED BY <1>1, <1>11, <2>1 DEF Crash
<1>12. ASSUME NEW S, Remove(S), segmentID \notin S, pc # "down"
       PROVE  FileChange(i)
  <2>1. UNCHANGED segmentID
    BY <1>12 DEF Remove, writer
  <2>2. CASE i \in S
    <3>1. segs'[i] = NoFile /\ ~NoFile.here
      BY <1>12, <2>2, RemoveKeeps DEF NoFile
    <3> QED BY <1>12, <2>1, <2>2, <3>1 DEF FileChange
  <2>3. CASE i \notin S
    BY <1>12, <2>3, RemoveKeeps DEF FileChange
  <2> QED BY <2>2, <2>3
<1>13. CASE DeleteSegmentsBefore(checkpoint)
  BY <1>12, <1>13 DEF DeleteSegmentsBefore
<1>14. CASE \E keep \in 1..MaxSegments : CleanupSegments(keep)
  BY <1>12, <1>14 DEF CleanupSegments
<1> QED BY <1>10, <1>11, <1>13, <1>14 DEF Next, Working

LEMMA AdoptedGrows ==
  ASSUME Next
  PROVE  adopted \subseteq adopted'
<1>1. CASE OpenFresh \/ OpenExisting
  BY <1>1 DEF OpenFresh, OpenExisting, history
<1>2. CASE \E n \in 1..MaxBatch : Write(n) \/ WriteTooLarge(n)
  BY <1>2 DEF Write, WriteTooLarge
<1>3. CASE CreateCheckpoint \/ Flush \/ Tick \/ Close
  BY <1>3 DEF CreateCheckpoint, Flush, Tick, Close, history
<1>4. CASE Step
  BY <1>4 DEF Step, EnsureCapacity, CreateSegment, WriteHeader, BatchFlush, AppendBuffer,
              MarkHeader, FlushNothing, FlushWrite, FlushSync, CloseFile, history
<1>5. CASE DeleteSegmentsBefore(checkpoint)
           \/ \E keep \in 1..MaxSegments : CleanupSegments(keep)
  BY <1>5 DEF DeleteSegmentsBefore, CleanupSegments, Remove
<1>6. CASE Crash
  BY <1>6 DEF Crash
<1> QED BY <1>1, <1>2, <1>3, <1>4, <1>5, <1>6 DEF Next

(* The headers: an old one keeps its backing, a new one gets the writer's    *)
(* checkpoint or the entry that CreateCheckpoint has just flushed.           *)
LEMMA HeadersBacked ==
  ASSUME IndInv, HeaderOK, Next
  PROVE  HeaderBacked'
<1> USE WalConstants
<1> SUFFICES ASSUME NEW i \in SegIds, segs'[i].here, segs'[i].hdr > 0
             PROVE  segs'[i].hdr \in adopted' \/ StillBacked(segs'[i].hdr, i)
  BY DEF HeaderBacked, Present, Backed, StillBacked
<1>0. segmentID \in SegIds /\ \A j \in SegIds : segs[j].hdr \in Nat \cup {NoHdr}
  BY DEF IndInv, TypeOK, Segment
<1>1. adopted \subseteq adopted'
  BY AdoptedGrows
<1>2. ASSUME NEW c, Backed(c, i), segs[i].here
      PROVE  StillBacked(c, i)
  <2>1. ASSUME NEW g \in 0..(i - 1), segs'[g].here PROVE segs[g].here
    <3>1. g \in SegIds /\ g < i /\ i \in Present /\ i \in Nat /\ g \in Nat
      BY <1>2 DEF SegIds, Present
    <3>2. FileChange(g)
      BY <3>1, FileChanges
    <3>3. ~Renewed(g)
      <4>1. ~(i <= g)
        BY <3>1
      <4> QED BY <3>1, <4>1 DEF Renewed
    <3> QED BY <2>1, <3>2, <3>3 DEF FileChange, Marked
  <2> QED BY <1>2, <2>1, BackedKept
<1>3. FileChange(i)
  BY FileChanges
<1>4. CASE segs'[i].here = segs[i].here /\ segs'[i].hdr = segs[i].hdr
  <2>1. segs[i].hdr \in adopted \/ Backed(segs[i].hdr, i)
    BY <1>4 DEF HeaderOK, HeaderBacked, Present
  <2>2. CASE Backed(segs[i].hdr, i)
    BY <1>2, <1>4, <2>2
  <2> QED BY <1>1, <1>4, <2>1, <2>2
<1>5. CASE Marked(i) /\ WriteHeader /\ segs'[i].hdr = checkpoint
  <2>1. /\ pc = "header" /\ i = segmentID /\ checkpoint' = checkpoint /\ segs[i].here
        /\ checkpoint > 0
    BY <1>5 DEF Marked, WriteHeader
  <2>2. checkpoint \in adopted \/ Backed(checkpoint, i)
    BY <2>1 DEF HeaderOK
  <2>3. CASE Backed(checkpoint, i)
    BY <1>2, <1>5, <2>1, <2>3
  <2> QED BY <1>1, <1>5, <2>2, <2>3
<1>6. CASE Marked(i) /\ MarkHeader /\ segs'[i].hdr = pend[1].lsn
  <2>1. Backs(segs[i], pend[1].lsn)
    BY <1>6 DEF Marked, MarkHeader, HeaderOK, MarkOK
  <2>2. Backs(segs'[i], pend[1].lsn)
    BY <2>1, BacksKept
  <2>3. i \in 0..i
    BY DEF SegIds
  <2> QED BY <1>6, <2>2, <2>3 DEF StillBacked
<1> QED BY <1>3, <1>4, <1>5, <1>6 DEF FileChange, Renewed, Marked

(* The writer's checkpoint.                                                  *)
LEMMA CheckpointBacked ==
  ASSUME IndInv, HeaderOK, Next, pc' # "down", checkpoint' > 0
  PROVE  checkpoint' \in adopted' \/ StillBacked(checkpoint', segmentID')
<1> USE WalConstants
<1>0. segmentID \in SegIds /\ segmentID \in Nat /\ adopted \subseteq adopted'
  BY AdoptedGrows DEF IndInv, TypeOK, SegIds
<1>1. ASSUME pc # "down", Backed(checkpoint, segmentID), segmentID' >= segmentID
      PROVE  StillBacked(checkpoint, segmentID)
  <2>1. segs[segmentID].here => segs'[segmentID].here
    <3>1. FileChange(segmentID)
      BY <1>0, FileChanges
    <3> QED BY <3>1 DEF FileChange, Renewed, Marked
  <2>2. ASSUME NEW g \in 0..(segmentID - 1), segs'[g].here PROVE segs[g].here
    <3>1. g \in SegIds /\ ~(g = segmentID')
      <4>1. g \in SegIds /\ g < segmentID /\ g \in Nat
        BY <1>0 DEF SegIds
      <4>2. segmentID' \in Nat
        BY NextInv DEF IndInv, TypeOK, SegIds
      <4> QED BY <1>0, <1>1, <4>1, <4>2
    <3>2. FileChange(g)
      BY <3>1, FileChanges
    <3> QED BY <2>2, <3>1, <3>2 DEF FileChange, Renewed, Marked
  <2> QED BY <1>0, <1>1, <2>1, <2>2, BackedKept
<1>2. CASE UNCHANGED <<checkpoint, segmentID>> /\ pc # "down"
  <2>1. checkpoint \in adopted \/ Backed(checkpoint, segmentID)
    BY <1>2 DEF HeaderOK
  <2> QED BY <1>0, <1>1, <1>2, <2>1
<1>3. CASE CreateSegment
  <2>1. pc = "create" /\ checkpoint' = checkpoint /\ segmentID' = segmentID + 1
    BY <1>3 DEF CreateSegment
  <2>2. checkpoint \in adopted \/ Backed(checkpoint, segmentID)
    BY <2>1 DEF HeaderOK
  <2>3. CASE Backed(checkpoint, segmentID)
    <3>1. StillBacked(checkpoint, segmentID)
      BY <1>0, <1>1, <2>1, <2>3
    <3>2. 0..(segmentID - 1) \subseteq 0..(segmentID' - 1) /\ 0..segmentID \subseteq 0..segmentID'
      BY <1>0, <2>1
    <3> QED BY <2>1, <3>1, <3>2 DEF StillBacked
  <2> QED BY <1>0, <2>1, <2>2, <2>3
<1>4. CASE MarkHeader
  <2>1. pc = "mark" /\ segmentID' = segmentID /\ pc # "down"
    BY <1>4 DEF MarkHeader
  <2>2. CASE checkpoint' = pend[1].lsn
    <3>1. Backs(segs[segmentID], pend[1].lsn)
      BY <2>1 DEF HeaderOK, MarkOK
    <3>2. segs[segmentID].here /\ FileChange(segmentID)
      BY <1>0, <2>1, FileChanges DEF IndInv, WriterOK
    <3>3. segs'[segmentID].here
      BY <3>2 DEF FileChange, Renewed, Marked
    <3>4. Backs(segs'[segmentID], pend[1].lsn) /\ segmentID \in 0..segmentID
      BY <1>0, <3>1, <3>3, BacksKept
    <3> QED BY <2>1, <2>2, <3>4 DEF StillBacked
  <2> QED BY <1>2, <1>4, <2>1, <2>2 DEF MarkHeader
<1>5. CASE OpenFresh
  BY <1>5 DEF OpenFresh
<1>6. CASE OpenExisting
  <2> DEFINE s == segs[LastSegment]
  <2>1. LastSegment \in SegIds /\ LastSegment \in Nat
    BY LastSegmentProperties DEF IndInv, SegIds
  <2>2. segs' = segs /\ segmentID' = LastSegment /\ s.hdr # NoHdr
    BY <1>6 DEF OpenExisting
  <2>3. CASE checkpoint' = s.hdr
    <3>1. LastSegment \in Present
      BY <2>1, <2>2 DEF IndInv, DiskOK, Present
    <3>2. s.hdr \in adopted \/ Backed(s.hdr, LastSegment)
      BY <2>3, <3>1 DEF HeaderOK, HeaderBacked
    <3> QED BY <1>0, <2>2, <2>3, <3>2 DEF StillBacked, Backed
  <2>4. CASE Backs(s, checkpoint')
    BY <2>1, <2>2, <2>4 DEF StillBacked
  <2>5. checkpoint' = s.hdr \/ Backs(s, checkpoint') \/ checkpoint' \in adopted'
    BY <1>6 DEF OpenExisting
  <2> QED BY <2>3, <2>4, <2>5
<1>7. CASE \E n \in 1..MaxBatch : Write(n) \/ WriteTooLarge(n)
  BY <1>2, <1>7 DEF Write, WriteTooLarge
<1>8. CASE CreateCheckpoint \/ Flush \/ Tick \/ Close
  BY <1>2, <1>8 DEF CreateCheckpoint, Flush, Tick, Close, writer
<1>9. CASE EnsureCapacity \/ WriteHeader \/ BatchFlush \/ AppendBuffer
  BY <1>2, <1>9 DEF EnsureCapacity, WriteHeader, BatchFlush, AppendBuffer, writer
<1>10. CASE FlushNothing \/ FlushWrite \/ FlushSync \/ CloseFile
  BY <1>2, <1>10 DEF FlushNothing, FlushWrite, FlushSync, CloseFile, writer
<1>11. CASE DeleteSegmentsBefore(checkpoint)
            \/ \E keep \in 1..MaxSegments : CleanupSegments(keep)
  BY <1>2, <1>11 DEF DeleteSegmentsBefore, CleanupSegments, Remove, writer
<1>12. CASE Crash
  BY <1>12 DEF Crash
<1> QED BY <1>3, <1>4, <1>5, <1>6, <1>7, <1>8, <1>9, <1>10, <1>11, <1>12 DEF Next, Step

LEMMA ConcatAt ==
  ASSUME NEW s \in Seq(Entry), NEW t \in Seq(Entry), NEW k \in DOMAIN t
  PROVE  Len(s) + k \in DOMAIN (s \o t) /\ (s \o t)[Len(s) + k] = t[k]
<1>1. /\ s \o t \in Seq(Entry) /\ Len(s \o t) = Len(s) + Len(t)
      /\ Len(s) \in Nat /\ Len(t) \in Nat /\ DOMAIN t = 1..Len(t)
  BY ConcatProperties, LenProperties
<1>2. DOMAIN (s \o t) = 1..(Len(s) + Len(t))
  BY <1>1, LenProperties
<1>3. k \in 1..Len(t)
  BY <1>1
<1>4. (s \o t)[Len(s) + k] = t[k]
  BY <1>1, <1>3
<1> QED BY <1>1, <1>2, <1>3, <1>4

LEMMA MarkPrepared ==
  ASSUME IndInv, MarkOK, Next
  PROVE  MarkOK'
<1> USE WalConstants
<1>0. /\ segmentID \in SegIds /\ buffer \in Seq(Entry) /\ pend \in Seq(Entry)
      /\ segs[segmentID].recs \in Seq(Entry) /\ CallOK
      /\ ret \in {"idle", "create", "append", "mark", "close"}
  BY DEF IndInv, TypeOK, Segment
<1>1. CASE op' # "checkpoint" /\ pc' \notin {"flush", "sync", "mark"}
  BY <1>1 DEF MarkOK
<1>2. CASE UNCHANGED <<op, pend>> /\ pc' \notin {"flush", "sync", "mark"}
  BY <1>2 DEF MarkOK
<1>3. CASE \/ OpenFresh \/ OpenExisting \/ Crash \/ CloseFile \/ MarkHeader
           \/ \E n \in 1..MaxBatch : Write(n)
  BY <1>1, <1>3 DEF OpenFresh, OpenExisting, Crash, CloseFile, MarkHeader, Return, Write
<1>4. CASE \E n \in 1..MaxBatch : WriteTooLarge(n)
  BY <1>2, <1>4 DEF WriteTooLarge, call
<1>5. CASE CreateCheckpoint
  BY <1>5 DEF CreateCheckpoint, MarkOK
<1>6. CASE Flush \/ Tick \/ Close
  BY <1>6 DEF Flush, Tick, Close, MarkOK
<1>7. CASE CreateSegment \/ WriteHeader
  BY <1>1, <1>2, <1>7 DEF CreateSegment, WriteHeader, Return
<1>8. CASE EnsureCapacity \/ BatchFlush
  BY <1>8 DEF EnsureCapacity, BatchFlush, MarkOK
<1>9. CASE FlushNothing
  <2>1. pc = "flush" /\ buffer = <<>>
    BY <1>9 DEF FlushNothing
  <2>2. ret # "mark"
    BY <1>0, <2>1 DEF CallOK
  <2> QED BY <1>0, <1>1, <1>2, <1>9, <2>2 DEF FlushNothing, Return
<1>10. CASE AppendBuffer
  <2>1. CASE op = "checkpoint"
    <3>1. /\ buffer' = buffer \o pend /\ UNCHANGED <<op, pend>> /\ pc' = "flush"
      BY <1>10, <2>1 DEF AppendBuffer
    <3>2. Len(pend) = 1 /\ pend[1].op = "checkpoint"
      BY <1>0, <2>1 DEF CallOK, MarkOK
    <3>3. 1 \in DOMAIN pend
      BY <1>0, <3>2, LenProperties
    <3>4. Len(buffer) + 1 \in DOMAIN buffer' /\ buffer'[Len(buffer) + 1] = pend[1]
      BY <1>0, <3>1, <3>3, ConcatAt
    <3> QED BY <3>1, <3>2, <3>4 DEF MarkOK
  <2>2. CASE op # "checkpoint"
    <3>1. op' # "checkpoint" /\ (pc' = "flush" => ret' = "idle") /\ pc' \in {"flush", "idle"}
      BY <1>10, <2>2 DEF AppendBuffer, Return
    <3> QED BY <3>1 DEF MarkOK
  <2> QED BY <2>1, <2>2
<1>11. CASE FlushWrite
  <2>1. CASE pc' = "sync"
    <3>1. /\ pc = "flush" /\ UNCHANGED <<ret, op, pend, segmentID>>
          /\ segs' = [segs EXCEPT ![segmentID].recs = @ \o buffer]
      BY <1>11, <2>1 DEF FlushWrite, Return
    <3> DEFINE r == segs[segmentID].recs \o buffer
    <3>2. segs' = [segs EXCEPT ![segmentID].recs = r]
      BY <1>0, <3>1 DEF IndInv, TypeOK
    <3>3. ASSUME NEW k \in DOMAIN buffer, buffer[k] = pend[1]
          PROVE  \E l \in DOMAIN r : r[l] = pend[1]
      <4> DEFINE l == Len(segs[segmentID].recs) + k
      <4>1. l \in DOMAIN r /\ r[l] = buffer[k]
        BY <1>0, ConcatAt
      <4> HIDE DEF l, r
      <4> QED BY <3>3, <4>1
    <3> HIDE DEF r
    <3>4. segs'[segmentID].recs = r
      BY <1>0, <3>2 DEF IndInv, TypeOK, Segment
    <3> QED BY <2>1, <3>1, <3>3, <3>4 DEF MarkOK
  <2>2. CASE pc' # "sync"
    BY <1>1, <1>11, <2>2 DEF FlushWrite, Return
  <2> QED BY <2>1, <2>2
<1>12. CASE FlushSync
  <2>1. CASE pc' = "mark"
    <3>1. /\ pc = "sync" /\ ret = "mark" /\ UNCHANGED <<op, pend, segmentID>>
          /\ segs' = [segs EXCEPT ![segmentID].synced = Len(segs[segmentID].recs)]
      BY <1>12, <2>1 DEF FlushSync, Return
    <3>2. pend[1].op = "checkpoint"
      BY <1>0, <3>1 DEF CallOK, MarkOK
    <3>3. PICK k \in DOMAIN segs[segmentID].recs : segs[segmentID].recs[k] = pend[1]
      BY <3>1 DEF MarkOK
    <3> DEFINE n == Len(segs[segmentID].recs)
    <3>4. k \in 1..n
      BY <1>0, <3>3, LenProperties
    <3>5. segs' = [segs EXCEPT ![segmentID].synced = n]
      BY <3>1
    <3> HIDE DEF n
    <3>6. segs'[segmentID].recs = segs[segmentID].recs /\ segs'[segmentID].synced = n
      BY <1>0, <3>5 DEF IndInv, TypeOK, Segment
    <3>7. Backs(segs'[segmentID], pend[1].lsn)
      BY <3>2, <3>3, <3>4, <3>6 DEF Backs
    <3> QED BY <2>1, <3>1, <3>2, <3>7 DEF MarkOK
  <2>2. CASE pc' # "mark"
    <3>1. \/ pc' = "idle" /\ op' = "none"
          \/ pc' = ret /\ UNCHANGED <<op, pend>>
      BY <1>12 DEF FlushSync, Return
    <3> QED BY <1>0, <1>1, <1>2, <2>2, <3>1
  <2> QED BY <2>1, <2>2
<1>13. ASSUME NEW S, Remove(S), segmentID \notin S
       PROVE  MarkOK'
  <2>1. UNCHANGED <<op, pend, pc, ret, buffer, segmentID>> /\ segs'[segmentID] = segs[segmentID]
    BY <1>0, <1>13, RemoveKeeps DEF Remove, writer, call
  <2> QED BY <2>1 DEF MarkOK
<1>14. CASE DeleteSegmentsBefore(checkpoint)
            \/ \E keep \in 1..MaxSegments : CleanupSegments(keep)
  BY <1>13, <1>14 DEF DeleteSegmentsBefore, CleanupSegments
<1> QED BY <1>3, <1>4, <1>5, <1>6, <1>7, <1>8, <1>9, <1>10, <1>11, <1>12, <1>14 DEF Next, Step

(* A header never names a checkpoint before the checkpoint's record is       *)
(* synced, through every failed call, torn write, rotation and crash.        *)
THEOREM HeaderBackedAlways == Spec => []HeaderBacked
<1>1. Init => HeaderOK
  <2> SUFFICES ASSUME Init PROVE HeaderOK
    OBVIOUS
  <2>1. Present = {} /\ pc = "down" /\ op = "none"
    BY DEF Init, Present, NoFile
  <2> QED BY <2>1 DEF HeaderOK, HeaderBacked, MarkOK
<1>2. IndInv /\ HeaderOK /\ [Next]_vars => HeaderOK'
  <2> SUFFICES ASSUME IndInv, HeaderOK, [Next]_vars PROVE HeaderOK'
    OBVIOUS
  <2>1. CASE UNCHANGED vars
    BY <2>1 DEF vars, HeaderOK, HeaderBacked, MarkOK, Present, Backed
  <2>2. CASE Next
    <3>1. HeaderBacked' /\ MarkOK'
      BY <2>2, HeadersBacked, MarkPrepared DEF HeaderOK
    <3>2. pc' # "down" /\ checkpoint' > 0 =>
            checkpoint' \in adopted' \/ StillBacked(checkpoint', segmentID')
      BY <2>2, CheckpointBacked
    <3> QED BY <3>1, <3>2 DEF HeaderOK, StillBacked, Backed
  <2> QED BY <2>1, <2>2
<1>3. HeaderOK => HeaderBacked
  BY DEF HeaderOK
<1> QED BY <1>1, <1>2, <1>3, InductiveInvariant, PTL DEF Spec

-----------------------------------------------------------------------------
(* Entries have an id other than that of the garbage a torn write leaves.    *)
RealIds == Torn.id \notin IdsOf(buffer) \cup IdsOf(pend) \cup flushed

LEMMA RealIdsInit == Init => RealIds
BY IdsOfEmpty DEF Init, RealIds

LEMMA RealIdsNext == IndInv /\ RealIds /\ [Next]_vars => RealIds'
<1> SUFFICES ASSUME IndInv, RealIds, [Next]_vars PROVE RealIds'
  OBVIOUS
<1>0. TypeOK /\ Torn.id = 0
  BY DEF IndInv, Torn
<1>1. /\ IdsOf(buffer) \subseteq Nat \ {0} /\ IdsOf(pend) \subseteq Nat \ {0}
      /\ Torn.id \notin flushed
  BY <1>0, IdsOfType DEF TypeOK, RealIds
<1>2. CASE UNCHANGED <<buffer, pend, flushed>>
  BY <1>2 DEF RealIds, IdsOf
<1>3. ASSUME NEW n \in 1..MaxBatch, Write(n) PROVE RealIds'
  <2>1. UNCHANGED <<buffer, flushed>>
    BY <1>3 DEF Write
  <2>2. Torn.id \notin IdsOf(pend')
    <3>1. pend' = [i \in 1..n |-> [op |-> "data", lsn |-> lastLSN + i, id |-> nextId + i]]
      BY <1>3 DEF Write
    <3>2. \A i \in DOMAIN pend' : i \in 1..n /\ pend'[i].id = nextId + i
      BY <3>1
    <3>3. \A i \in 1..n : nextId + i # 0
      BY <1>0 DEF TypeOK
    <3> QED BY <1>0, <3>2, <3>3 DEF IdsOf
  <2> QED BY <1>1, <2>1, <2>2 DEF RealIds
<1>4. CASE CreateCheckpoint
  <2>1. UNCHANGED <<buffer, flushed>>
    BY <1>4 DEF CreateCheckpoint
  <2>2. Torn.id \notin IdsOf(pend')
    BY <1>0, <1>4 DEF CreateCheckpoint, IdsOf, TypeOK
  <2> QED BY <1>1, <2>1, <2>2 DEF RealIds
<1>5. CASE AppendBuffer
  <2>1. IdsOf(buffer') = IdsOf(buffer) \cup IdsOf(pend) /\ flushed' = flushed
    BY <1>0, <1>5, IdsOfConcat DEF AppendBuffer, TypeOK
  <2>2. IdsOf(pend') \subseteq IdsOf(pend)
    BY <1>5, IdsOfEmpty DEF AppendBuffer, Return
  <2> QED BY <1>1, <2>1, <2>2 DEF RealIds
<1>6. CASE /\ buffer' \in {buffer, <<>>} /\ pend' \in {pend, <<>>}
           /\ flushed' \in {flushed, flushed \cup IdsOf(buffer)}
  <2>1. IdsOf(buffer') \subseteq IdsOf(buffer) /\ IdsOf(pend') \subseteq IdsOf(pend)
    BY <1>6, IdsOfEmpty
  <2> QED BY <1>1, <1>6, <2>1 DEF RealIds
<1>7. CASE OpenFresh \/ OpenExisting \/ Crash
  BY <1>6, <1>7 DEF OpenFresh, OpenExisting, Crash, history
<1>8. CASE \E n \in 1..MaxBatch : Write(n) \/ WriteTooLarge(n)
  BY <1>2, <1>3, <1>8 DEF WriteTooLarge, call
<1>9. CASE Flush \/ Tick \/ Close
  BY <1>2, <1>9 DEF Flush, Tick, Close, writer, history
<1>10. CASE Step
  <2>1. CASE CreateSegment \/ WriteHeader \/ MarkHeader
    BY <1>6, <2>1 DEF CreateSegment, WriteHeader, MarkHeader, Return
  <2>2. CASE EnsureCapacity \/ BatchFlush \/ FlushNothing \/ CloseFile
    BY <1>6, <2>2 DEF EnsureCapacity, BatchFlush, FlushNothing, CloseFile, Return, writer,
                      history
  <2>3. CASE FlushWrite \/ FlushSync
    BY <1>6, <2>3 DEF FlushWrite, FlushSync, Return
  <2> QED BY <1>5, <1>10, <2>1, <2>2, <2>3 DEF Step
<1>11. CASE DeleteSegmentsBefore(checkpoint)
            \/ \E keep \in 1..MaxSegments : CleanupSegments(keep)
  BY <1>2, <1>11 DEF DeleteSegmentsBefore, CleanupSegments, Remove, writer, call
<1>12. CASE UNCHANGED vars
  BY <1>2, <1>12 DEF vars
<1> QED BY <1>4, <1>7, <1>8, <1>9, <1>10, <1>11, <1>12 DEF Next

-----------------------------------------------------------------------------
LEMMA LogIdsOf ==
  /\ \A x : x \in LogIds <=> x # Torn.id /\ (x \in IdsOf(buffer) \/ x \in DiskIds)
  /\ \A x : x \in LogIds' <=> x # Torn.id /\ (x \in IdsOf(buffer') \/ x \in DiskIds')
BY DEF LogIds, Torn

(* The buffer empties only when it is on the disk, or when the process ends. *)
LEMMA WorkingBuffer ==
  ASSUME IndInv, Working
  PROVE  /\ UNCHANGED deleted
         /\ \/ UNCHANGED flushed /\ IdsOf(buffer) \subseteq IdsOf(buffer')
            \/ /\ flushed' = flushed \cup IdsOf(buffer)
               /\ \A i \in SegIds : segs'[i].recs = segs[i].recs
               /\ buffer' = <<>> /\ IdsOf(buffer) \subseteq DiskIds
<1>0. TypeOK /\ WriterOK
  BY DEF IndInv
<1>1. CASE OpenFresh \/ OpenExisting
  BY <1>0, <1>1 DEF OpenFresh, OpenExisting, history, WriterOK
<1>2. CASE \E n \in 1..MaxBatch : Write(n) \/ WriteTooLarge(n)
  BY <1>2 DEF Write, WriteTooLarge
<1>3. CASE CreateCheckpoint \/ Flush \/ Tick \/ Close
  BY <1>3 DEF CreateCheckpoint, Flush, Tick, Close, writer, history
<1>4. CASE AppendBuffer
  BY <1>0, <1>4, IdsOfConcat DEF AppendBuffer, TypeOK
<1>5. CASE FlushSync
  <2>1. CASE UNCHANGED <<segs, buffer, flushed>>
    BY <1>5, <2>1 DEF FlushSync
  <2>2. CASE /\ segs' = [segs EXCEPT ![segmentID].synced = Len(segs[segmentID].recs)]
             /\ buffer' = <<>> /\ flushed' = flushed \cup IdsOf(buffer)
    <3>1. \A i \in SegIds : segs'[i].recs = segs[i].recs
      BY <1>0, <2>2 DEF TypeOK, Segment
    <3>2. IdsOf(buffer) \subseteq IdsOf(segs[segmentID].recs) /\ segmentID \in SegIds
      BY <1>0, <1>5 DEF FlushSync, WriterOK, TypeOK
    <3>3. IdsOf(buffer) \subseteq DiskIds
      BY <3>2, IdSets
    <3> QED BY <1>5, <2>2, <3>1, <3>3 DEF FlushSync
  <2> QED BY <1>5, <2>1, <2>2 DEF FlushSync
<1>6. CASE EnsureCapacity \/ BatchFlush \/ FlushNothing \/ CloseFile
  BY <1>6 DEF EnsureCapacity, BatchFlush, FlushNothing, CloseFile, writer, history
<1>7. CASE CreateSegment \/ WriteHeader \/ MarkHeader \/ FlushWrite
  BY <1>7 DEF CreateSegment, WriteHeader, MarkHeader, FlushWrite
<1> QED BY <1>1, <1>2, <1>3, <1>4, <1>5, <1>6, <1>7 DEF Working, Step

(* Each step of the log is a step of DurableLog or leaves it unchanged.      *)
LEMMA MapsToStep ==
  ASSUME IndInv, RealIds, [Next]_vars
  PROVE  Promise!Next \/ UNCHANGED <<LogIds, flushed, deleted>>
<1>0. TypeOK /\ DiskOK /\ FlushedDurable
  BY DEF IndInv
<1>1. CASE Working
  <2>1. DiskIds \subseteq DiskIds'
    BY <1>1, WorkingGrows, IdSets DEF Grows
  <2>2. CASE UNCHANGED flushed /\ IdsOf(buffer) \subseteq IdsOf(buffer')
    <3>1. LogIds \subseteq LogIds'
      BY <2>1, <2>2, LogIdsOf
    <3> QED BY <1>1, <2>2, <3>1, WorkingBuffer DEF Promise!Next, Promise!Append
  <2>3. CASE /\ flushed' = flushed \cup IdsOf(buffer)
             /\ \A i \in SegIds : segs'[i].recs = segs[i].recs
             /\ buffer' = <<>> /\ IdsOf(buffer) \subseteq DiskIds
    <3>1. DiskIds' = DiskIds
      BY <2>3 DEF DiskIds
    <3>2. LogIds' = LogIds
      BY <2>3, <3>1, IdsOfEmpty, LogIdsOf
    <3>3. IdsOf(buffer) \subseteq LogIds
      BY LogIdsOf DEF RealIds
    <3> QED BY <1>1, <2>3, <3>2, <3>3, WorkingBuffer DEF Promise!Next, Promise!Confirm
  <2> QED BY <1>1, <2>2, <2>3, WorkingBuffer
<1>2. ASSUME NEW S \in SUBSET SegIds, Remove(S)
      PROVE  Promise!Next
  <2>1. buffer' = buffer /\ flushed' = flushed
    BY <1>2 DEF Remove, writer
  <2>2. \A x : x \in deleted' <=> x \in deleted \/ \E i \in S : x \in IdsOf(segs[i].recs)
    BY <1>2 DEF Remove
  <2>3. DiskIds' \subseteq DiskIds
    <3>1. IdsOf(NoFile.recs) = {}
      BY IdsOfEmpty DEF NoFile
    <3> QED BY <1>2, <3>1, RemoveKeeps, IdSets
  <2>4. DiskIds \subseteq DiskIds' \cup deleted'
    BY <1>2, <2>2, RemoveKeeps, IdSets
  <2>5. LogIds' \subseteq LogIds /\ LogIds \subseteq LogIds' \cup deleted'
    BY <2>1, <2>3, <2>4, LogIdsOf
  <2> QED BY <2>1, <2>2, <2>5 DEF Promise!Next, Promise!Delete
<1>3. CASE DeleteSegmentsBefore(checkpoint)
  BY <1>2, <1>3 DEF DeleteSegmentsBefore, Present
<1>4. CASE \E keep \in 1..MaxSegments : CleanupSegments(keep)
  BY <1>2, <1>4 DEF CleanupSegments, Present
<1>5. CASE Crash
  <2>1. UNCHANGED <<flushed, deleted>> /\ buffer' = <<>>
    BY <1>5 DEF Crash
  <2>2. DiskIds' \subseteq DiskIds \cup {Torn.id}
    BY <1>5, CrashKeeps, IdSets
  <2>3. LogIds' \subseteq LogIds
    BY <2>1, <2>2, IdsOfEmpty, LogIdsOf
  <2>4. flushed \ deleted \subseteq DiskIds'
    <3>1. FlushedDurable' /\ TypeOK' /\ DiskOK'
      BY <1>5, CrashInv DEF IndInv
    <3>2. SyncedIds' \subseteq DiskIds'
      <4>1. \A i \in SegIds : SyncedOf(segs'[i]) \subseteq IdsOf(segs'[i].recs)
        <5> SUFFICES ASSUME NEW i \in SegIds
                     PROVE  SyncedOf(segs'[i]) \subseteq IdsOf(segs'[i].recs)
          OBVIOUS
        <5>1. segs'[i].recs \in Seq(Entry) /\ segs'[i].synced \in 0..Len(segs'[i].recs)
          BY <3>1, LenProperties DEF TypeOK, Segment, DiskOK
        <5> QED BY <5>1, IdsOfPrefix DEF SyncedOf
      <4> QED BY <4>1, IdSets
    <3> QED BY <2>1, <3>1, <3>2 DEF FlushedDurable
  <2>5. flushed \ deleted \subseteq LogIds'
    BY <2>4, LogIdsOf DEF RealIds
  <2> QED BY <2>1, <2>3, <2>5 DEF Promise!Next, Promise!Crash
<1>6. CASE UNCHANGED vars
  BY <1>6 DEF vars, LogIds, DiskIds
<1> QED BY <1>1, <1>3, <1>4, <1>5, <1>6 DEF Next, Working

(* The write-ahead log implements DurableLog, for every sync mode, size,     *)
(* bound and set of failing I/O calls: a confirmed entry is lost by no       *)
(* failure, and leaves the log only when its segment is deleted.             *)
THEOREM WalImplementsDurableLog == Spec => ImplementsDurableLog
<1>1. Init => Promise!Init
  <2> SUFFICES ASSUME Init PROVE Promise!Init
    OBVIOUS
  <2>1. \A i \in SegIds : IdsOf(segs[i].recs) = {}
    BY IdsOfEmpty DEF Init, NoFile
  <2>2. LogIds = {}
    BY <2>1, IdsOfEmpty, IdSets, LogIdsOf DEF Init
  <2> QED BY <2>2 DEF Init, Promise!Init
<1>2. IndInv /\ RealIds /\ [Next]_vars
        => [Promise!Next]_<<LogIds, flushed, deleted>>
  BY MapsToStep
<1>3. Spec => []RealIds
  BY RealIdsInit, RealIdsNext, InductiveInvariant, PTL DEF Spec
<1> QED BY <1>1, <1>2, <1>3, InductiveInvariant, PTL
        DEF Spec, ImplementsDurableLog, Promise!Spec
=============================================================================
