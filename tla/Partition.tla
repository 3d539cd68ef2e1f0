----------------------------- MODULE Partition -----------------------------
(***************************************************************************)
(* The time-partitioned index (src/src/index/partition.go, partition_ops): *)
(* a secondary index is a set of B+tree files, one per month, week or      *)
(* year, and an entry lives in the file its key's timestamp falls in.      *)
(*                                                                         *)
(* A partitioned index is a function from the start times of its           *)
(* partitions to their contents, sets of [key, loc].  A key is the tuple   *)
(* of its fields, most significant first and the timestamp last; times are *)
(* small naturals, MaxTime stands for the largest uint32, and all          *)
(* partitions cover Span units of time (the calendar is left out).  What a *)
(* file answers to Range and RangeDesc is what module BTree checks: both   *)
(* include the lower bound, Range includes the upper one, RangeDesc does   *)
(* not.                                                                    *)
(***************************************************************************)
EXTENDS Integers, Sequences, SequencesExt, FiniteSetsExt, TLC

CONSTANTS
  Span,         \* length of a partition
  MaxTime       \* ^uint32(0)

(* bytes.Compare(k, l) < 0. *)
KeyBefore(k, l) ==
  \E i \in DOMAIN k : k[i] < l[i] /\ \A j \in 1 .. i - 1 : k[j] = l[j]

KeyUpTo(k, l) == k = l \/ KeyBefore(k, l)

extractTimestampFromKey(key) == Last(key)

InPartition(start, ts) == start <= ts /\ ts < start + Span

(* A partition whose start is there already is kept; a new one is an empty *)
(* file (one left under that name is deleted first).                       *)
createPartitionForTime(pi, ts) ==
  LET start == (ts \div Span) * Span
  IN IF start \in DOMAIN pi THEN pi ELSE (start :> {}) @@ pi

(* The index, with a partition for ts. *)
getPartitionForTimestamp(pi, ts) ==
  IF \E s \in DOMAIN pi : InPartition(s, ts) THEN pi ELSE createPartitionForTime(pi, ts)

PartitionOf(pi, ts) == CHOOSE s \in DOMAIN pi : InPartition(s, ts)

Insert(pi, key, loc) ==
  LET ts == extractTimestampFromKey(key)
      p  == getPartitionForTimestamp(pi, ts)
  IN [p EXCEPT ![PartitionOf(p, ts)] = @ \cup {[key |-> key, loc |-> loc]}]

(* InsertBatch and DeleteBatch group the keys by partition first. *)
InsertBatch(pi, entries) == FoldSet(LAMBDA e, p : Insert(p, e.key, e.loc), pi, entries)

(* Delete with a location; it, too, creates the partition it looks in. *)
Delete(pi, key, loc) ==
  LET ts == extractTimestampFromKey(key)
      p  == getPartitionForTimestamp(pi, ts)
  IN [p EXCEPT ![PartitionOf(p, ts)] = @ \ {[key |-> key, loc |-> loc]}]

DeleteBatch(pi, entries) == FoldSet(LAMBDA e, p : Delete(p, e.key, e.loc), pi, entries)

(* Mutant: a partition is taken when its start is at or before the range's *)
(* lower end, as if ranges never spanned two partitions.                   *)
getPartitionsForRange_StartsBefore(pi, min, max) ==
  {s \in DOMAIN pi : min <= max /\ s <= min /\ min < s + Span}

(* The partitions [s, s + Span) that overlap a range of times. *)
getPartitionsForRange(pi, min, max) ==
  {s \in DOMAIN pi : min <= max /\ s < max /\ s + Span > min}

(* What one file returns, in order. *)
EntryBefore(d, e) == KeyBefore(d.key, e.key) \/ (d.key = e.key /\ d.loc < e.loc)

FileRange(file, min, max) ==
  SetToSortSeq({e \in file : KeyUpTo(min, e.key) /\ KeyUpTo(e.key, max)}, EntryBefore)

FileRangeDesc(file, min, max) ==
  SetToSortSeq({e \in file : KeyUpTo(min, e.key) /\ KeyBefore(e.key, max)},
               LAMBDA d, e : EntryBefore(e, d))

(* The entry the merged iterator stands on: the smallest head, or the      *)
(* largest when descending; the first of its iterators on a tie.           *)
updateCurrentIdx(its, descending) ==
  LET live == {i \in DOMAIN its : its[i] # <<>>}
      Beats(i, j) == IF descending THEN KeyBefore(its[j][1].key, its[i][1].key)
                                   ELSE KeyBefore(its[i][1].key, its[j][1].key)
      best == {i \in live : \A j \in live : ~Beats(j, i)}
  IN IF live = {} THEN 0 ELSE Min(best)

RECURSIVE mergedIterator(_, _)
mergedIterator(its, descending) ==
  LET i == updateCurrentIdx(its, descending)
  IN IF i = 0 THEN <<>>
     ELSE <<its[i][1]>> \o mergedIterator([its EXCEPT ![i] = Tail(@)], descending)

PartitionsInOrder(pi, min, max) ==
  SetToSortSeq(getPartitionsForRange(pi, extractTimestampFromKey(min),
                                         extractTimestampFromKey(max)), <)

(* Range and RangeDesc: the partitions are chosen, and each one's iterator *)
(* opened on its first leaf, when the range is opened.                     *)
RangeAsc(pi, min, max) ==
  LET parts == PartitionsInOrder(pi, min, max)
  IN mergedIterator([i \in DOMAIN parts |-> FileRange(pi[parts[i]], min, max)], FALSE)

RangeDesc(pi, min, max) ==
  LET parts == Reverse(PartitionsInOrder(pi, min, max))
  IN mergedIterator([i \in DOMAIN parts |-> FileRangeDesc(pi[parts[i]], min, max)], TRUE)

(* Opening: a file that does not open is skipped (and overwritten by the   *)
(* next insert of its time); with none left, one is made for the present.  *)
discoverPartitions(pi, damaged) == [s \in DOMAIN pi \ damaged |-> pi[s]]

NewPartitionedIndex(pi, damaged, now) ==
  LET found == discoverPartitions(pi, damaged)
  IN IF DOMAIN found = {} THEN createPartitionForTime(found, now) ELSE found

EntriesOf(pi) == UNION {pi[s] : s \in DOMAIN pi}
============================================================================
