------------------------------- MODULE BTree -------------------------------
(***************************************************************************)
(* The persistent B+tree behind every index file (src/src/index/persist_*, *)
(* src/src/cache/btree_cache.go): pages with keys of different lengths,    *)
(* splits, borrows and merges, leaves linked both ways, the page cache     *)
(* that writes dirty pages back when it likes, the header, flush and       *)
(* reopening, and an iterator that follows the leaf links without taking   *)
(* the tree's lock.                                                        *)
(*                                                                         *)
(* A page is named by its number: page o is at offset o * pageSize, page 0 *)
(* is the header, and 0 is therefore also the null link.  Keys are the     *)
(* naturals, ordered as bytes.Compare orders the real ones; KeyLen gives   *)
(* their lengths.  The cache keeps every page an operation holds; what     *)
(* happens when it cannot is described in the README.                      *)
(***************************************************************************)
EXTENDS Integers, Sequences, SequencesExt, FiniteSetsExt

CONSTANTS
  Entries,      \* the <<key, location>> pairs callers insert and delete
  KeyLen,       \* KeyLen[k]: length of key k in bytes
  PageSize,     \* indexFile.pageSize
  Loads,        \* what was inserted, and then deleted, before the first state
  ByLocation,   \* whether Delete is called with a location (secondary indexes)
  Reinsert,     \* whether callers insert pairs again that are there (WAL recovery)
  Ranges,       \* the <<min, max>> key ranges callers scan
  MaxNoProgress,\* maxNoProgressRecoverSteps
  MaxWrites,    \* bound: inserts and deletes
  MaxEvictions, \* bound: dirty pages the cache evicts
  MaxTurns      \* bound: scans and crashes

BTreeKeys == {e[1] : e \in Entries}

ASSUME BTreeConstants ==
  /\ \A e \in Entries : Len(e) = 2 /\ e[1] \in Nat \ {0}
  /\ KeyLen \in [BTreeKeys -> Nat \ {0}]
  /\ \A l \in Loads : \A i \in DOMAIN l.ins : l.ins[i] \in Entries
  /\ PageSize \in Nat /\ ByLocation \in BOOLEAN

VARIABLES
  tree,     \* the open tree: its pages as the cache has them, root, count, dirty
  file,     \* the index file as the operating system has it
  disk,     \* the index file as of the last fsync
  writer,   \* the operation that holds the write lock, between two of its steps
  iter,     \* a btreeIterator and what its user has received from it
  mode,     \* "open", "closed", "torn"
  stored,   \* history: entries inserted and not deleted
  lived,    \* history: entries in the tree at some moment of the current scan
  synced,   \* history: what the tree held when Flush last returned
  writes, evictions, turns

counters == <<writes, evictions, turns>>
vars == <<tree, file, disk, writer, iter, mode, stored, lived, synced, counters>>

----------------------------------------------------------------------------
(* Pages. *)

Leaf(keys, vals, next, prev) ==
  [leaf |-> TRUE, keys |-> keys, vals |-> vals, kids |-> <<>>,
   next |-> next, prev |-> prev]

Internal(keys, kids) ==
  [leaf |-> FALSE, keys |-> keys, vals |-> <<>>, kids |-> kids, next |-> 0, prev |-> 0]

\* Bytes that entries with these keys take: a length, the key, a location or child.
EntryBytes(keys) == FoldLeft(LAMBDA n, k : n + 10 + KeyLen[k], 0, keys)

leafSize(n) == 28 + EntryBytes(n.keys)

internalSize(n) == 20 + EntryBytes(n.keys)

nodeSize(n) == IF n.leaf THEN leafSize(n) ELSE internalSize(n)

minNodeSize == PageSize \div 2

\* How many of the keys are smaller: the position sort.Search finds, from 0.
LowerBound(keys, key) == Cardinality({i \in DOMAIN keys : keys[i] < key})

\* Which child to descend into: past the first separator that equals the key.
searchKeyIndex(keys, key) ==
  LET i == LowerBound(keys, key)
  IN  IF i < Len(keys) /\ keys[i + 1] = key THEN i + 1 ELSE i

\* Change a page in the cache and mark it dirty there.
Touch(t, o, n) == [t EXCEPT !.page[o] = n, !.dirty = @ \cup {o}]

\* allocateNodeOffset, and Put of the new page.
Allocate(t, n) ==
  [t EXCEPT !.page = Append(@, n), !.dirty = @ \cup {Len(t.page) + 1}]

\* The path from page o to the leaf for a key: the inner pages and child indexes.
RECURSIVE Descend(_, _, _)
Descend(t, o, key) ==
  LET n == t.page[o]
      i == searchKeyIndex(n.keys, key)
  IN  IF n.leaf THEN [path |-> <<>>, leaf |-> o]
      ELSE LET d == Descend(t, n.kids[i + 1], key)
           IN  [d EXCEPT !.path = <<[node |-> o, index |-> i]>> \o @]

\* get: the location stored for a key; 0 when there is none.
Get(t, key) ==
  LET n == t.page[Descend(t, t.root, key).leaf]
      i == LowerBound(n.keys, key) + 1
  IN  IF i <= Len(n.keys) /\ n.keys[i] = key THEN n.vals[i] ELSE 0

----------------------------------------------------------------------------
(* Insertion. *)

\* insertIntoLeaf: nothing when the pair is in this leaf already.
InLeaf(n, key, loc) ==
  \E i \in DOMAIN n.keys : n.keys[i] = key /\ n.vals[i] = loc

insertIntoLeaf(n, key, loc) ==
  LET i == LowerBound(n.keys, key) + 1
  IN  [n EXCEPT !.keys = InsertAt(@, i, key), !.vals = InsertAt(@, i, loc)]

insertIntoInternal(n, key, child, pos) ==
  [n EXCEPT !.keys = InsertAt(@, pos + 1, key), !.kids = InsertAt(@, pos + 2, child)]

\* Where to split: from the middle rightwards until the right part fits.
\* skip is 1 when the key at the split moves up, 0 when it stays.
SplitAt(keys, limit, skip) ==
  LET n == Len(keys)
      Right(m) == EntryBytes(SubSeq(keys, m + 1 + skip, n))
  IN  Min({m \in (n \div 2) .. (n - 1) : Right(m) <= limit \/ m = n - 1})

CanSplit(keys, limit, skip) ==
  LET m == SplitAt(keys, limit, skip)
  IN  /\ EntryBytes(SubSeq(keys, 1, m)) <= limit
      /\ EntryBytes(SubSeq(keys, m + 1 + skip, Len(keys))) <= limit

\* splitLeaf up to the point where the left leaf is cut: the right leaf is in
\* the cache, but the links of its two neighbours do not lead to it yet.
CutLeaf(t, o) ==
  LET n == t.page[o]
      m == SplitAt(n.keys, PageSize - 28, 0)
      l == Len(n.keys)
      right == Leaf(SubSeq(n.keys, m + 1, l), SubSeq(n.vals, m + 1, l), n.next, o)
  IN  Touch(Allocate(t, right), o,
            [n EXCEPT !.keys = SubSeq(@, 1, m), !.vals = SubSeq(@, 1, m)])

\* Mutant: the leaf after the two keeps its link to the left one.
LinkLeaf_OneWay(t, o, r) == Touch(t, o, [t.page[o] EXCEPT !.next = r])

\* The rest of splitLeaf: link the right leaf r in.
LinkLeaf(t, o, r) ==
  LET n == t.page[o]
      t1 == IF n.next = 0 THEN t
            ELSE Touch(t, n.next, [t.page[n.next] EXCEPT !.prev = r])
  IN  Touch(t1, o, [n EXCEPT !.next = r])

splitInternal(t, o) ==
  LET n == t.page[o]
      m == SplitAt(n.keys, PageSize - 20, 1)
      l == Len(n.keys)
      right == Internal(SubSeq(n.keys, m + 2, l), SubSeq(n.kids, m + 2, l + 1))
  IN  [up |-> n.keys[m + 1],
       t |-> Touch(Allocate(t, right), o,
                   [n EXCEPT !.keys = SubSeq(@, 1, m), !.kids = SubSeq(@, 1, m + 1)])]

\* Take a separator and the page right of it up the path, splitting inner pages
\* that become too large; a split that reaches the root makes a new one.  An inner
\* page that cannot be split is an error that leaves it as it is.
RECURSIVE InsertUp(_, _, _, _)
InsertUp(t, path, key, right) ==
  IF path = <<>>
  THEN [Allocate(t, Internal(<<key>>, <<t.root, right>>)) EXCEPT !.root = Len(t.page) + 1]
  ELSE LET p == Last(path)
           n == insertIntoInternal(t.page[p.node], key, right, p.index)
           s == splitInternal(Touch(t, p.node, n), p.node)
       IN  IF internalSize(n) <= PageSize THEN Touch(t, p.node, n)
           ELSE IF ~CanSplit(n.keys, PageSize - 20, 1) THEN [t EXCEPT !.page[p.node] = n]
           ELSE InsertUp(s.t, Front(path), s.up, Len(s.t.page))

\* The first part of insert, up to CutLeaf; split is the leaf that was cut, if any.
InsertStart(t, key, loc) ==
  LET d == Descend(t, t.root, key)
      n == insertIntoLeaf(t.page[d.leaf], key, loc)
      t1 == [Touch(t, d.leaf, n) EXCEPT !.count = @ + 1]
      Done(u) == [t |-> u, split |-> 0, path |-> <<>>]
  IN  IF InLeaf(t.page[d.leaf], key, loc) THEN Done(Touch(t, d.leaf, t.page[d.leaf]))
      ELSE IF leafSize(n) <= PageSize THEN Done(t1)
      ELSE IF ~CanSplit(n.keys, PageSize - 28, 0) THEN Done([t1 EXCEPT !.dirty = t.dirty])
      ELSE [t |-> CutLeaf(t1, d.leaf), split |-> d.leaf, path |-> d.path]

\* The second part; the right leaf is the page allocated last.
InsertFinish(s) ==
  LET r == Len(s.t.page)
  IN  InsertUp(LinkLeaf(s.t, s.split, r), s.path, s.t.page[r].keys[1], r)

insert(t, key, loc) ==
  LET s == InsertStart(t, key, loc)
  IN  IF s.split = 0 THEN s.t ELSE InsertFinish(s)

----------------------------------------------------------------------------
(* Deletion. *)

\* The leaf and position of the pair, looked for in the run of equal keys that
\* starts at position i of leaf o: onwards first, then backwards.
RECURSIVE ScanNext(_, _, _, _, _)
ScanNext(t, o, i, key, loc) ==
  LET n == t.page[o]
      hit == {j \in i .. Len(n.keys) : n.keys[j] = key /\ n.vals[j] = loc}
  IN  IF hit # {} THEN <<o, Min(hit)>>
      ELSE IF n.next = 0 THEN <<0, 0>>
      ELSE LET m == t.page[n.next]
           IN  IF m.keys = <<>> \/ m.keys[1] # key THEN <<0, 0>>
               ELSE ScanNext(t, n.next, 1, key, loc)

RECURSIVE ScanPrev(_, _, _, _)
ScanPrev(t, o, key, loc) ==
  LET p == t.page[o].prev
      m == t.page[p]
      hit == {j \in DOMAIN m.keys : m.keys[j] = key /\ m.vals[j] = loc}
  IN  IF p = 0 THEN <<0, 0>>
      ELSE IF m.keys = <<>> \/ Last(m.keys) # key THEN <<0, 0>>
      ELSE IF hit # {} THEN <<p, Max(hit)>>
      ELSE ScanPrev(t, p, key, loc)

findLeafEntryByLocation(t, o, i, key, loc) ==
  LET f == ScanNext(t, o, i, key, loc)
  IN  IF f[1] # 0 THEN f ELSE ScanPrev(t, o, key, loc)

\* The path to a given leaf, by a walk over the whole tree below page o.
RECURSIVE findPathToLeafOffset(_, _, _)
findPathToLeafOffset(t, o, target) ==
  LET n == t.page[o]
      below(i) == findPathToLeafOffset(t, n.kids[i], target)
      via == {i \in DOMAIN n.kids : below(i).leaf # 0}
  IN  IF n.leaf THEN [path |-> <<>>, leaf |-> IF o = target THEN o ELSE 0]
      ELSE IF via = {} THEN [path |-> <<>>, leaf |-> 0]
      ELSE LET i == Min(via)
           IN  [below(i) EXCEPT !.path = <<[node |-> o, index |-> i - 1]>> \o @]

isUnderflow(t, o) == o # t.root /\ nodeSize(t.page[o]) < minNodeSize

\* The guards that keep a borrow from making the parent too large.
FitsWith(parent, out, in) ==
  internalSize(parent) - KeyLen[out] + KeyLen[in] <= PageSize

\* Child c, the ci-th of p (from 0), takes the last entry of its left sibling l.
CanBorrowLeft(t, p, l, c, ci) ==
  LET par == t.page[p]  left == t.page[l]  child == t.page[c]
  IN  /\ nodeSize(left) > minNodeSize /\ Len(left.keys) > 1
      /\ IF child.leaf
         THEN child.keys = <<>> \/ FitsWith(par, child.keys[1], Last(left.keys))
         ELSE FitsWith(par, par.keys[ci], Last(left.keys))

BorrowLeft(t, p, l, c, ci) ==
  LET par == t.page[p]  left == t.page[l]  child == t.page[c]
      k == Last(left.keys)
      newChild == IF child.leaf
                  THEN [child EXCEPT !.keys = Cons(k, @), !.vals = Cons(Last(left.vals), @)]
                  ELSE [child EXCEPT !.keys = Cons(par.keys[ci], @),
                                     !.kids = Cons(Last(left.kids), @)]
      newLeft == IF child.leaf
                 THEN [left EXCEPT !.keys = Front(@), !.vals = Front(@)]
                 ELSE [left EXCEPT !.keys = Front(@), !.kids = Front(@)]
  IN  Touch(Touch(Touch(t, l, newLeft), c, newChild), p, [par EXCEPT !.keys[ci] = k])

\* Child c takes the first entry of its right sibling r.
CanBorrowRight(t, p, r, c, ci) ==
  LET par == t.page[p]  right == t.page[r]
  IN  /\ nodeSize(right) > minNodeSize /\ Len(right.keys) > 1
      /\ IF right.leaf THEN FitsWith(par, right.keys[1], right.keys[2])
         ELSE FitsWith(par, par.keys[ci + 1], right.keys[1])

\* Mutant: the separator becomes the key that moved, not the next one.
BorrowRight_OldSeparator(t, p, r, c, ci) ==
  LET par == t.page[p]  right == t.page[r]  child == t.page[c]
      newChild == IF child.leaf
                  THEN [child EXCEPT !.keys = Append(@, right.keys[1]),
                                     !.vals = Append(@, right.vals[1])]
                  ELSE [child EXCEPT !.keys = Append(@, par.keys[ci + 1]),
                                     !.kids = Append(@, right.kids[1])]
      newRight == IF child.leaf
                  THEN [right EXCEPT !.keys = Tail(@), !.vals = Tail(@)]
                  ELSE [right EXCEPT !.keys = Tail(@), !.kids = Tail(@)]
  IN  Touch(Touch(Touch(t, r, newRight), c, newChild), p,
            [par EXCEPT !.keys[ci + 1] = right.keys[1]])

BorrowRight(t, p, r, c, ci) ==
  LET par == t.page[p]  right == t.page[r]  child == t.page[c]
      newChild == IF child.leaf
                  THEN [child EXCEPT !.keys = Append(@, right.keys[1]),
                                     !.vals = Append(@, right.vals[1])]
                  ELSE [child EXCEPT !.keys = Append(@, par.keys[ci + 1]),
                                     !.kids = Append(@, right.kids[1])]
      newRight == IF child.leaf
                  THEN [right EXCEPT !.keys = Tail(@), !.vals = Tail(@)]
                  ELSE [right EXCEPT !.keys = Tail(@), !.kids = Tail(@)]
      sep == IF child.leaf THEN right.keys[2] ELSE right.keys[1]
  IN  Touch(Touch(Touch(t, r, newRight), c, newChild), p, [par EXCEPT !.keys[ci + 1] = sep])

\* Pages a and b, the i-th and next child of p (from 1), become one.  Two leaves
\* are merged whatever their sizes; two inner pages only when the result fits.
CanMerge(t, p, a, b, i) ==
  t.page[a].leaf
    \/ internalSize(t.page[a]) + internalSize(t.page[b]) + KeyLen[t.page[p].keys[i]] - 10
         <= PageSize

\* Mutant: the leaf after the two keeps its link to the one that is gone.
Merge_Unlinked(t, p, a, b, i) ==
  LET par == t.page[p]  x == t.page[a]  y == t.page[b]
      both == IF x.leaf
              THEN Leaf(x.keys \o y.keys, x.vals \o y.vals, y.next, x.prev)
              ELSE Internal(x.keys \o <<par.keys[i]>> \o y.keys, x.kids \o y.kids)
  IN  Touch(Touch(t, a, both), p,
            [par EXCEPT !.keys = RemoveAt(@, i), !.kids = RemoveAt(@, i + 1)])

Merge(t, p, a, b, i) ==
  LET par == t.page[p]  x == t.page[a]  y == t.page[b]
      both == IF x.leaf
              THEN Leaf(x.keys \o y.keys, x.vals \o y.vals, y.next, x.prev)
              ELSE Internal(x.keys \o <<par.keys[i]>> \o y.keys, x.kids \o y.kids)
      t1 == Touch(t, a, both)
      t2 == IF x.leaf /\ y.next # 0
            THEN Touch(t1, y.next, [t1.page[y.next] EXCEPT !.prev = a]) ELSE t1
  IN  Touch(t2, p, [par EXCEPT !.keys = RemoveAt(@, i), !.kids = RemoveAt(@, i + 1)])

\* rebalanceAfterDelete: borrow from the left or the right sibling, else merge with
\* the left one, else with the right one, else leave the child as it is.
rebalanceAfterDelete(t, p, c, ci) ==
  LET par == t.page[p]
      l == IF ci > 0 THEN par.kids[ci] ELSE 0
      r == IF ci + 1 < Len(par.kids) THEN par.kids[ci + 2] ELSE 0
      Result(u, m) == [t |-> u, merged |-> m]
  IN  IF l # 0 /\ CanBorrowLeft(t, p, l, c, ci) THEN Result(BorrowLeft(t, p, l, c, ci), FALSE)
      ELSE IF r # 0 /\ CanBorrowRight(t, p, r, c, ci)
           THEN Result(BorrowRight(t, p, r, c, ci), FALSE)
      ELSE IF l # 0 /\ CanMerge(t, p, l, c, ci) THEN Result(Merge(t, p, l, c, ci), TRUE)
      ELSE IF r # 0 /\ CanMerge(t, p, c, r, ci + 1)
           THEN Result(Merge(t, p, c, r, ci + 1), TRUE)
      ELSE Result(t, FALSE)

\* Rebalance from the leaf up as long as pages are merged.
RECURSIVE RebalanceUp(_, _, _)
RebalanceUp(t, path, c) ==
  IF path = <<>> \/ ~isUnderflow(t, c) THEN t
  ELSE LET p == Last(path)
           b == rebalanceAfterDelete(t, p.node, c, p.index)
       IN  IF b.merged THEN RebalanceUp(b.t, Front(path), p.node) ELSE b.t

\* A root left with one child and no key gives way to that child.
CollapseRoot(t) ==
  LET r == t.page[t.root]
  IN  IF ~r.leaf /\ r.keys = <<>> /\ Len(r.kids) = 1 THEN [t EXCEPT !.root = r.kids[1]] ELSE t

\* Take entry i out of leaf o; a removed first key changes the separator in the
\* parent, when the leaf is not the parent's first child.
RemoveEntry(t, o, i, path) ==
  LET n  == [t.page[o] EXCEPT !.keys = RemoveAt(@, i), !.vals = RemoveAt(@, i)]
      t1 == [Touch(t, o, n) EXCEPT !.count = IF @ > 0 THEN @ - 1 ELSE 0]
      p  == Last(path)
  IN  IF i = 1 /\ path # <<>> /\ n.keys # <<>> /\ p.index > 0
      THEN Touch(t1, p.node, [t1.page[p.node] EXCEPT !.keys[p.index] = n.keys[1]])
      ELSE t1

\* delete: nothing when the leaf the key leads to does not have it, or when no
\* entry of the run has the location.
delete(t, key, loc) ==
  LET d == Descend(t, t.root, key)
      n == t.page[d.leaf]
      i == LowerBound(n.keys, key) + 1
      hit == IF ByLocation THEN findLeafEntryByLocation(t, d.leaf, i, key, loc)
             ELSE <<d.leaf, i>>
      path == IF hit[1] = d.leaf THEN d.path
              ELSE findPathToLeafOffset(t, t.root, hit[1]).path
  IN  IF i > Len(n.keys) \/ n.keys[i] # key \/ hit[1] = 0 THEN t
      ELSE CollapseRoot(RebalanceUp(RemoveEntry(t, hit[1], hit[2], path), path, hit[1]))

----------------------------------------------------------------------------
(* The tree as a whole. *)

RECURSIVE LeavesUnder(_, _)
LeavesUnder(t, o) ==
  IF t.page[o].leaf THEN <<o>>
  ELSE FoldLeft(LAMBDA s, c : s \o LeavesUnder(t, c), <<>>, t.page[o].kids)

\* All entries in key order, as the leaves below the root have them.
EntriesOf(t) ==
  FoldLeft(LAMBDA s, o : s \o Zip(t.page[o].keys, t.page[o].vals), <<>>,
           LeavesUnder(t, t.root))

countEntriesInTree(t) == Len(EntriesOf(t))

RECURSIVE PagesUnder(_, _)
PagesUnder(t, o) == {o} \cup UNION {PagesUnder(t, c) : c \in ToSet(t.page[o].kids)}

Reachable(t) == PagesUnder(t, t.root)

RECURSIVE Depths(_, _)
Depths(t, o) ==
  IF t.page[o].leaf THEN {1}
  ELSE {d + 1 : d \in UNION {Depths(t, c) : c \in ToSet(t.page[o].kids)}}

----------------------------------------------------------------------------
(* The file. *)

\* writeHeader.  The entry count in it is that of the last flush.
WriteHeader(f, t, root) ==
  [f EXCEPT !.root = root, !.nodes = Len(t.page), !.count = t.hcount, !.pending = TRUE]

WritePages(f, t, D) ==
  [f EXCEPT !.page = [o \in D |-> t.page[o]] @@ @, !.pending = @ \/ D # {}]

\* serializeNode refuses a page that does not fit.
Serializable(n) == nodeSize(n) <= PageSize

\* openBTree on an existing file: the entry count is counted afresh.
openBTree(f) ==
  LET t == [page |-> [o \in 1 .. f.nodes |-> f.page[o]], root |-> f.root,
            count |-> f.count, hcount |-> f.count, dirty |-> {}]
  IN  [t EXCEPT !.count = countEntriesInTree(t)]

\* openBTree on a new file: one empty leaf, written and synced, then the header.
NewFile == [page |-> <<Leaf(<<>>, <<>>, 0, 0)>>, root |-> 1, nodes |-> 1, count |-> 0,
            pending |-> TRUE]

----------------------------------------------------------------------------
(* Iterators. *)

\* advance: from position i (from 0) of leaf o to the first entry in the range, in
\* the direction of the scan; page 0 when there is none.
RECURSIVE AdvanceAsc(_, _, _, _, _)
AdvanceAsc(t, o, i, min, max) ==
  LET n == t.page[o]
  IN  IF i >= Len(n.keys)
      THEN IF n.next = 0 THEN <<0, 0>> ELSE AdvanceAsc(t, n.next, 0, min, max)
      ELSE IF n.keys[i + 1] < min THEN AdvanceAsc(t, o, i + 1, min, max)
      ELSE IF n.keys[i + 1] > max THEN <<0, 0>>
      ELSE <<o, i>>

RECURSIVE AdvanceDesc(_, _, _, _, _)
AdvanceDesc(t, o, i, min, max) ==
  LET n == t.page[o]
  IN  IF i < 0
      THEN IF n.prev = 0 THEN <<0, 0>>
           ELSE AdvanceDesc(t, n.prev, Len(t.page[n.prev].keys) - 1, min, max)
      ELSE IF n.keys[i + 1] > max THEN AdvanceDesc(t, o, i - 1, min, max)
      ELSE IF n.keys[i + 1] < min THEN <<0, 0>>
      ELSE <<o, i>>

\* Mutant: the descending scan starts at max itself.
rangeIter_Inclusive(t, min, max, desc) ==
  LET o == Descend(t, t.root, IF desc THEN max ELSE min).leaf
      keys == t.page[o].keys
  IN  IF desc THEN AdvanceDesc(t, o, LowerBound(keys, max + 1) - 1, min, max)
      ELSE AdvanceAsc(t, o, LowerBound(keys, min), min, max)

\* rangeIter: ascending from the first key >= min of the leaf min leads to,
\* descending from the last key < max of the leaf max leads to.
rangeIter(t, min, max, desc) ==
  LET o == Descend(t, t.root, IF desc THEN max ELSE min).leaf
      keys == t.page[o].keys
  IN  IF desc THEN AdvanceDesc(t, o, LowerBound(keys, max) - 1, min, max)
      ELSE AdvanceAsc(t, o, LowerBound(keys, min), min, max)

NoIter == [phase |-> "none", desc |-> FALSE, min |-> 0, max |-> 0, cur |-> 0, index |-> 0,
           keys |-> <<>>, vals |-> <<>>, visited |-> <<>>, stalled |-> 0, out |-> <<>>,
           quiet |-> TRUE]

InRange(it, key) == IF it.desc THEN key >= it.min ELSE key <= it.max

\* The entry the iterator stands on.
At(it) == <<it.keys[it.index + 1], it.vals[it.index + 1]>>

\* Valid, and what Next makes of the position nextOnce reached: the scan ends, the
\* entry just handed out is met again and Next tries once more, up to a limit, or
\* the user gets the entry.
Arrive(it) ==
  IF \/ it.index < 0 \/ it.index >= Len(it.keys) \/ Len(it.keys) # Len(it.vals)
     \/ ~InRange(it, it.keys[it.index + 1])
  THEN [it EXCEPT !.phase = "done"]
  ELSE IF it.out # <<>> /\ At(it) = Last(it.out)
  THEN [it EXCEPT !.stalled = @ + 1,
                  !.phase = IF it.stalled + 1 = MaxNoProgress THEN "done" ELSE "valid"]
  ELSE [it EXCEPT !.phase = "valid", !.stalled = 0, !.out = Append(@, At(it))]

----------------------------------------------------------------------------
(* The index's operations. *)

Idle == writer.split = 0 /\ mode = "open"

NoWriter == [t |-> 0, split |-> 0, path |-> <<>>]

KeysNow(t) == {e[1] : e \in ToSet(EntriesOf(t))}

\* What every change of the tree means for the histories and a scan under way.
Watch(t) ==
  /\ lived' = IF iter.phase \in {"none", "done", "panic"} THEN lived ELSE lived \cup KeysNow(t)
  /\ iter' = [iter EXCEPT !.quiet = FALSE]

\* Insert: one step, or two when the leaf is split; an iterator may run in between.
Insert(e) ==
  LET s == InsertStart(tree, e[1], e[2])
  IN  /\ Idle /\ writes < MaxWrites
      /\ e \in stored => Reinsert
      /\ tree' = s.t
      /\ writer' = IF s.split = 0 THEN NoWriter ELSE [s EXCEPT !.t = 0]
      /\ stored' = stored \cup {e}
      /\ Watch(s.t)
      /\ writes' = writes + 1
      /\ UNCHANGED <<file, disk, mode, synced, evictions, turns>>

\* The header that a split of the root writes still names the old root.
FinishInsert ==
  LET t == InsertFinish([writer EXCEPT !.t = tree])
  IN  /\ writer.split # 0 /\ mode = "open"
      /\ tree' = t
      /\ file' = IF t.root = tree.root THEN file ELSE WriteHeader(file, t, tree.root)
      /\ writer' = NoWriter
      /\ Watch(t)
      /\ UNCHANGED <<disk, mode, stored, synced, counters>>

Delete(e) ==
  LET t == delete(tree, e[1], e[2])
  IN  /\ Idle /\ writes < MaxWrites
      /\ tree' = t
      /\ file' = IF t.root = tree.root THEN file ELSE WriteHeader(file, t, t.root)
      /\ stored' = stored \ {e}
      /\ Watch(t)
      /\ writes' = writes + 1
      /\ UNCHANGED <<disk, writer, mode, synced, evictions, turns>>

\* Mutant: the header is written before it names the root of the tree.
FlushTo_OldRoot(t, f) ==
  LET t1 == [t EXCEPT !.dirty = {}, !.hcount = t.count]
      f1 == WritePages(f, t, t.dirty)
  IN  IF t.dirty = {} /\ t.hcount = t.count /\ ~f.pending THEN f
      ELSE [WriteHeader(f1, t1, f.root) EXCEPT !.pending = FALSE]

\* flush: every dirty page, then the header, then fsync; nothing at all when nothing
\* was written and the entry count is the same.  A page that cannot be serialized
\* ends it, with some of the other pages written.
FlushTo(t, f) ==
  LET t1 == [t EXCEPT !.dirty = {}, !.hcount = t.count]
      f1 == WritePages(f, t, t.dirty)
  IN  IF t.dirty = {} /\ t.hcount = t.count /\ ~f.pending THEN f
      ELSE [WriteHeader(f1, t1, t.root) EXCEPT !.pending = FALSE]

FlushAll ==
  /\ Idle
  /\ \A o \in tree.dirty : Serializable(tree.page[o])
  /\ tree' = [tree EXCEPT !.dirty = {}, !.hcount = tree.count]
  /\ file' = FlushTo(tree, file)
  /\ disk' = FlushTo(tree, file)
  /\ synced' = stored
  /\ UNCHANGED <<writer, stored, lived, counters>>

Flush == FlushAll /\ UNCHANGED <<iter, mode>>

\* Close flushes and closes the file.
Close == FlushAll /\ iter' = NoIter /\ mode' = "closed"

FlushFails ==
  /\ Idle
  /\ \E D \in SUBSET {o \in tree.dirty : Serializable(tree.page[o])} :
       /\ \E o \in tree.dirty : ~Serializable(tree.page[o])
       /\ tree' = [tree EXCEPT !.dirty = @ \ D, !.hcount = tree.count]
       /\ file' = WritePages(file, tree, D)
  /\ UNCHANGED <<disk, writer, iter, mode, stored, lived, synced, counters>>

\* evictOne: the cache makes room by writing a dirty page.
Evict(o) ==
  /\ mode = "open" /\ evictions < MaxEvictions
  /\ o \in tree.dirty /\ Serializable(tree.page[o])
  /\ tree' = [tree EXCEPT !.dirty = @ \ {o}]
  /\ file' = WritePages(file, tree, {o})
  /\ evictions' = evictions + 1
  /\ UNCHANGED <<disk, writer, iter, mode, stored, lived, synced, writes, turns>>

\* A crash leaves what was synced, or pages of several moments: of such a file
\* nothing is claimed.
Crash ==
  /\ mode = "open" /\ turns < MaxTurns
  /\ \E f \in {file, disk} :
       mode' = IF [f EXCEPT !.pending = FALSE] = disk THEN "closed" ELSE "torn"
  /\ file' = disk
  /\ stored' = synced
  /\ writer' = NoWriter
  /\ iter' = NoIter
  /\ turns' = turns + 1
  /\ UNCHANGED <<tree, disk, lived, synced, writes, evictions>>

Open ==
  /\ mode = "closed"
  /\ tree' = openBTree(file)
  /\ mode' = "open"
  /\ UNCHANGED <<file, disk, writer, iter, stored, lived, synced, counters>>

\* Range and RangeDesc: under the read lock up to the first entry.
Scan(r, desc) ==
  LET a  == rangeIter(tree, r[1], r[2], desc)
      n  == tree.page[a[1]]
      it == [NoIter EXCEPT !.desc = desc, !.min = r[1], !.max = r[2], !.cur = a[1],
                           !.index = a[2], !.keys = n.keys, !.vals = n.vals]
  IN  /\ Idle /\ turns < MaxTurns
      /\ iter' = IF a[1] = 0 THEN [NoIter EXCEPT !.phase = "done", !.desc = desc,
                                                 !.min = r[1], !.max = r[2]]
                 ELSE Arrive(it)
      /\ lived' = KeysNow(tree)
      /\ turns' = turns + 1
      /\ UNCHANGED <<tree, file, disk, writer, mode, stored, synced,
                     writes, evictions>>

\* nextOnce, without the lock: within the snapshot, or on to the neighbouring leaf,
\* which no scan enters more than twice.
NextOnce ==
  LET step == IF iter.desc THEN -1 ELSE 1
      i == iter.index + step
      n == tree.page[iter.cur]
      o == IF iter.desc THEN n.prev ELSE n.next
      seen == Cardinality({j \in DOMAIN iter.visited : iter.visited[j] = o})
  IN  /\ iter.phase = "valid" /\ mode = "open"
      /\ iter' = IF i >= 0 /\ i < Len(iter.keys) THEN Arrive([iter EXCEPT !.index = i])
                 ELSE IF o = 0 \/ seen = 2 THEN [iter EXCEPT !.phase = "done"]
                 ELSE [iter EXCEPT !.phase = "moved", !.cur = o, !.visited = Append(@, o),
                                   !.index = IF iter.desc THEN Len(tree.page[o].keys) - 1
                                             ELSE 0]
      /\ UNCHANGED <<tree, file, disk, writer, mode, stored, lived, synced, counters>>

\* updateSnapshot reads the leaf's keys and then its locations.
SnapshotKeys ==
  /\ iter.phase = "moved" /\ mode = "open"
  /\ iter' = [iter EXCEPT !.phase = "keyed", !.keys = tree.page[iter.cur].keys]
  /\ UNCHANGED <<tree, file, disk, writer, mode, stored, lived, synced, counters>>

\* A descending iterator counted the keys before: a leaf that lost some since makes
\* it index past the end of the snapshot, a panic in its user's goroutine.
SnapshotValues ==
  LET it == [iter EXCEPT !.vals = tree.page[iter.cur].vals]
  IN  /\ iter.phase = "keyed" /\ mode = "open"
      /\ iter' = IF it.desc /\ it.index >= Len(it.keys) THEN [it EXCEPT !.phase = "panic"]
                 ELSE Arrive(it)
      /\ UNCHANGED <<tree, file, disk, writer, mode, stored, lived, synced, counters>>

IterStep == NextOnce \/ SnapshotKeys \/ SnapshotValues

Init ==
  \E l \in Loads :
    LET t0 == [page |-> NewFile.page, root |-> 1, count |-> 0, hcount |-> 0, dirty |-> {}]
        t1 == FoldLeft(LAMBDA t, e : insert(t, e[1], e[2]), t0, l.ins)
        t2 == FoldLeft(LAMBDA t, e : delete(t, e[1], e[2]), t1, l.del)
    IN  /\ disk = FlushTo(t2, NewFile)
        /\ file = disk
        /\ tree = [t2 EXCEPT !.dirty = {}, !.hcount = t2.count]
        /\ stored = ToSet(l.ins) \ ToSet(l.del) /\ synced = stored
        /\ writer = NoWriter /\ iter = NoIter /\ mode = "open" /\ lived = {}
        /\ writes = 0 /\ evictions = 0 /\ turns = 0

Next ==
  \/ \E e \in Entries : Insert(e) \/ Delete(e)
  \/ FinishInsert \/ Flush \/ Close \/ FlushFails \/ Crash \/ Open
  \/ \E o \in DOMAIN tree.page : Evict(o)
  \/ \E r \in Ranges, desc \in BOOLEAN : Scan(r, desc)
  \/ IterStep

Spec == Init /\ [][Next]_vars

----------------------------------------------------------------------------
(* Properties. *)

KeysUnder(t, o) == UNION {ToSet(t.page[l].keys) : l \in ToSet(LeavesUnder(t, o))}

\* Splits, borrows and merges keep the tree in shape: all leaves at one depth, one
\* child more than separators, each separator between the keys of the children on
\* its two sides, and the leaf links, both ways, in the order of the tree
\* (persist_tree.go insert, delete, rebalanceAfterDelete).
TreeShape ==
  LET leaves == LeavesUnder(tree, tree.root)
      n == Len(leaves)
  IN  Idle =>
        /\ Cardinality(Depths(tree, tree.root)) = 1
        /\ \A i \in 1 .. n :
             /\ tree.page[leaves[i]].next = IF i = n THEN 0 ELSE leaves[i + 1]
             /\ tree.page[leaves[i]].prev = IF i = 1 THEN 0 ELSE leaves[i - 1]
             /\ Len(tree.page[leaves[i]].keys) = Len(tree.page[leaves[i]].vals)
        /\ \A o \in Reachable(tree) : ~tree.page[o].leaf =>
             LET p == tree.page[o]
             IN  /\ Len(p.kids) = Len(p.keys) + 1
                 /\ \A i \in DOMAIN p.keys :
                      /\ \A k \in KeysUnder(tree, p.kids[i]) : k <= p.keys[i]
                      /\ \A k \in KeysUnder(tree, p.kids[i + 1]) : k >= p.keys[i]

\* Whatever was inserted, deleted, flushed, evicted and reopened, the tree holds
\* exactly the entries that were inserted and not deleted, in key order, once each,
\* and its entry count is their number (insert, delete, flush, openBTree).
Exact ==
  LET s == EntriesOf(tree)
  IN  Idle => /\ ToSet(s) = stored
              /\ Len(s) = Cardinality(stored)
              /\ tree.count = Len(s)
              /\ \A i \in 1 .. Len(s) - 1 : s[i][1] <= s[i + 1][1]

\* A key that is stored is found by get (the separators lead to it).
Found == Idle => \A e \in stored : Get(tree, e[1]) # 0

\* A scan during which nothing was written returns the range and nothing else, in
\* order: [min, max] ascending, which aggregations rely on, and [min, max) descending,
\* which queries do (rangeIter, nextOnce).  No comment says so: persist_index.go:186
\* and 194 call both half-open, index.go:79 and 86 call both closed.
ScanExact ==
  (iter.phase = "done" /\ iter.quiet /\ mode = "open") =>
    LET want == SelectSeq(EntriesOf(tree),
                  LAMBDA e : e[1] >= iter.min /\ IF iter.desc THEN e[1] < iter.max
                                                 ELSE e[1] <= iter.max)
    IN  iter.out = IF iter.desc THEN Reverse(want) ELSE want

\* Every key a scan returns, whatever is written meanwhile, was in the tree at some
\* moment of the scan: pages are never reused, so a stale link leads to a leaf of
\* this scan's time (btreeIterator, allocateNodeOffset).
KeysLived == \A i \in DOMAIN iter.out : iter.out[i][1] \in lived
=============================================================================
