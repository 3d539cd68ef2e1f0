------------------------------- MODULE Query -------------------------------
(***************************************************************************)
(* The query engine (src/src/query): the compiler that turns a filter into *)
(* a plan, the key ranges of a plan, the iterator that merges the ranges   *)
(* newest first, and the one that intersects two such merges.              *)
(*                                                                         *)
(* An event is a record of what filters look at; its location names it.    *)
(* Everything here is a pure operator on index contents; module ReadPath   *)
(* runs them step by step beside writers and deleters.                     *)
(***************************************************************************)
EXTENDS Partition

CONSTANTS
  Events,          \* Events[loc]: the event stored at a location
  TagTypes,        \* KeyBuilder.TagNameToSearchTypeCode
  KeyPart,         \* KeyPart[v]: the first 255 bytes of a tag value
  Folded,          \* Folded[v]: the value in lower case
  DefaultKinds,    \* QueryConfig.DefaultKinds
  MaxKinds,        \* the most kinds ValidateFilter allows
  MaxTagValues,    \* and the most values of one tag
  TopField,        \* the largest value of a key's fields (0xFF...)
  MaxAttempts,     \* advances tried before an iterator counts as stalled
  MaxRepeats       \* times one range may return a location

(* No two tag values share their first 255 bytes: events that do cannot be *)
(* told apart by the search index.  Value 0 is the empty string.           *)
ASSUME QueryConstants ==
  /\ \A v, w \in DOMAIN KeyPart : KeyPart[v] = KeyPart[w] => v = w
  /\ \A l \in DOMAIN Events : Events[l].ts < MaxTime
  /\ DOMAIN Folded = DOMAIN KeyPart \cup {0}
  /\ DefaultKinds # <<>>

EmptyValue == 0

(* All pairs of two lists, the second one running faster. *)
Cross(s, t) ==
  [i \in 1 .. Len(s) * Len(t) |-> <<s[((i - 1) \div Len(t)) + 1], t[((i - 1) % Len(t)) + 1]>>]

----------------------------------------------------------------------------
(* Keys. *)

BuildAuthorTimeKey(author, kind, ts) == <<author, kind, ts>>
BuildKindTimeKey(kind, ts) == <<kind, ts>>
BuildSearchKey(kind, type, value, ts) ==
  <<kind, type, IF value \in DOMAIN KeyPart THEN KeyPart[value] ELSE value, ts>>

IndexNames == {"author_time", "kind_time", "search"}

(* The entries of an event in one of the secondary indexes. *)
EntriesFor(name, l) ==
  LET e == Events[l]
      keys == CASE name = "author_time" -> {BuildAuthorTimeKey(e.author, e.kind, e.ts)}
                [] name = "kind_time"   -> {BuildKindTimeKey(e.kind, e.ts)}
                [] name = "search" ->
                     {BuildSearchKey(e.kind, TagTypes[t[1]], t[2], e.ts) :
                        t \in {u \in e.tags : u[1] \in DOMAIN TagTypes}}
  IN {[key |-> k, loc |-> l] : k \in keys}

----------------------------------------------------------------------------
(* Filters.  Kinds and authors are lists, as callers give them, and may    *)
(* name something twice; the tags are a set of <<name, value>> pairs.      *)

TagNames(f) == {t[1] : t \in f.tags}

(* The index compares the bytes of tag values, hasTag the values of "t"    *)
(* without regard to case.                                                 *)
EqualFold(name, v, w) == IF name = "t" THEN Folded[v] = Folded[w] ELSE v = w

(* hasTag: the event has one of the values the filter lists for the name.  *)
hasTag(e, f, name) ==
  \E t \in f.tags, u \in e.tags : t[1] = name /\ u[1] = name /\ EqualFold(name, t[2], u[2])

MatchesFilter(e, f) ==
  /\ f.kinds # <<>> => e.kind \in Range(f.kinds)
  /\ f.authors # <<>> => e.author \in Range(f.authors)
  /\ f.since > 0 => e.ts >= f.since
  /\ f.until > 0 => e.ts <= f.until
  /\ \A name \in TagNames(f) : hasTag(e, f, name)
  /\ f.search # "" => f.search \in e.words

(* Empty values are dropped, and names left without one; the empty name is *)
(* kept for ValidateFilter to refuse.                                      *)
normalizeTagFilters(tags) == {t \in tags : t[1] = "" \/ t[2] # EmptyValue}

normalizeFilter(f) ==
  LET g == [f EXCEPT !.tags = normalizeTagFilters(@)]
  IN IF g.kinds = <<>> /\ (g.tags # {} \/ g.authors # <<>>)
     THEN [g EXCEPT !.kinds = DefaultKinds] ELSE g

ValidateFilter(f) ==
  /\ \/ f.kinds # <<>> \/ f.authors # <<>> \/ f.tags # {}
     \/ f.since > 0 \/ f.until > 0 \/ f.search # "" \/ f.limit # 0
  /\ Len(f.kinds) <= MaxKinds
  /\ \A name \in TagNames(f) :
        name # "" /\ Cardinality({t \in f.tags : t[1] = name}) <= MaxTagValues
  /\ (f.since > 0 /\ f.until > 0) => f.since <= f.until
  /\ f.limit >= 0

(* Mutant: a query by author is taken to be decided by its index whatever  *)
(* else the filter says.                                                   *)
Strategy_AlwaysFull(f) ==
  [strategy |-> IF f.authors # <<>> THEN "author_time" ELSE "kind_time", full |-> TRUE]

(* The strategy, and whether the indexes alone decide the filter. *)
Strategy(f) ==
  LET indexable == TagNames(f) \cap DOMAIN TagTypes
  IN CASE f.kinds # <<>> /\ f.authors = <<>> /\ f.tags = {} /\ f.search = "" ->
            [strategy |-> "kind_time", full |-> TRUE]
       [] f.authors # <<>> /\ indexable # {} ->
            [strategy |-> "intersection", full |-> TRUE]
       [] f.authors # <<>> /\ indexable = {} ->
            [strategy |-> "author_time", full |-> f.tags = {} /\ f.search = ""]
       [] f.authors = <<>> /\ indexable # {} ->
            [strategy |-> "search",
             full |-> f.kinds # <<>> /\ indexable = TagNames(f) /\ f.search = ""]
       [] OTHER -> [strategy |-> "scan", full |-> FALSE]

InvalidPlan == [strategy |-> "invalid", full |-> FALSE]

Compile(f) ==
  LET g == normalizeFilter(f)
  IN IF ValidateFilter(g) THEN [filter |-> g] @@ Strategy(g)
                          ELSE [filter |-> g] @@ InvalidPlan

----------------------------------------------------------------------------
(* Key ranges, one for every kind, author or pair of the lists.  They end  *)
(* before Until; no Until is the largest timestamp.                        *)

EndTime(f) == IF f.until = 0 THEN MaxTime ELSE f.until

buildAuthorTimeRanges(f) ==
  LET pairs == Cross(f.authors, f.kinds)
  IN IF f.kinds = <<>>
     THEN [i \in DOMAIN f.authors |->
             [min |-> BuildAuthorTimeKey(f.authors[i], 0, f.since),
              max |-> BuildAuthorTimeKey(f.authors[i], TopField, EndTime(f))]]
     ELSE [i \in DOMAIN pairs |->
             [min |-> BuildAuthorTimeKey(pairs[i][1], pairs[i][2], f.since),
              max |-> BuildAuthorTimeKey(pairs[i][1], pairs[i][2], EndTime(f))]]

buildSearchRanges(f) ==
  LET pairs == Cross(SetToSeq({t \in f.tags : t[1] \in DOMAIN TagTypes}), f.kinds)
      Key(p, ts) == BuildSearchKey(p[2], TagTypes[p[1][1]], p[1][2], ts)
  IN [i \in DOMAIN pairs |-> [min |-> Key(pairs[i], f.since), max |-> Key(pairs[i], EndTime(f))]]

buildKindTimeRanges(f) ==
  [i \in DOMAIN f.kinds |-> [min |-> BuildKindTimeKey(f.kinds[i], f.since),
                             max |-> BuildKindTimeKey(f.kinds[i], EndTime(f))]]

(* The ranges getLocationIterator opens: <<index, range>>, the left index  *)
(* of an intersection before the right one.                                *)
RangesOf(plan) ==
  LET f == plan.filter
      On(name, ranges) == [i \in DOMAIN ranges |-> <<name, ranges[i]>>]
  IN CASE plan.strategy = "author_time" -> On("author_time", buildAuthorTimeRanges(f))
       [] plan.strategy = "search"      -> On("search", buildSearchRanges(f))
       [] plan.strategy = "kind_time"   -> On("kind_time", buildKindTimeRanges(f))
       [] plan.strategy = "intersection" ->
            On("author_time", buildAuthorTimeRanges(f)) \o On("search", buildSearchRanges(f))
       [] OTHER -> <<>>

----------------------------------------------------------------------------
(* Index iterators.  A sound one walks its entries.  A damaged leaf chain  *)
(* makes one that stands still for some calls of Next, fails, or comes     *)
(* back to where it began.                                                 *)

Faults == [kind : {"none"}, left : {0}]
          \cup [kind : {"stuck"}, left : {MaxAttempts - 1, MaxAttempts}]
          \cup [kind : {"fails", "loops"}, left : {0}]

NoFault == [kind |-> "none", left |-> 0]

NewIterator(es, fault) == [es |-> es, pos |-> 1, fault |-> fault]

Valid(it) == it.pos <= Len(it.es)
Current(it) == it.es[it.pos]

(* Iterator.Next: the iterator after it, or one with pos 0 for an error. *)
Next_(it) ==
  CASE it.fault.kind = "stuck" /\ it.fault.left > 0 -> [it EXCEPT !.fault.left = @ - 1]
    [] it.fault.kind = "fails" -> [it EXCEPT !.pos = 0]
    [] it.fault.kind = "loops" /\ it.pos = Len(it.es) -> [it EXCEPT !.pos = 1]
    [] OTHER -> [it EXCEPT !.pos = @ + 1]

(* Moves an iterator, trying again while it stays in place; one that       *)
(* fails or never moves is returned with pos 0.                            *)
RECURSIVE advanceIteratorSafely(_, _)
advanceIteratorSafely(it, attempts) ==
  LET n == Next_(it)
  IN CASE attempts = 0 -> [it EXCEPT !.pos = 0]
       [] attempts > 0 /\ n.pos = 0 -> n
       [] attempts > 0 /\ n.pos # 0 /\ ~Valid(n) -> n
       [] attempts > 0 /\ n.pos # 0 /\ Valid(n) ->
            IF Current(n) # Current(it) THEN n ELSE advanceIteratorSafely(n, attempts - 1)

----------------------------------------------------------------------------
(* mergeLocationIterator.  The heap holds one item per range that still    *)
(* has entries: the one its iterator stands on.                            *)

NoLoc == [loc |-> 0, ts |-> 0]

At(it) == [loc |-> Current(it).loc, ts |-> extractTimestampFromKey(Current(it).key)]

(* Mutant: the ranges are drained one after the other. *)
Pop_InOrder(m) == Min(m.heap)

(* A range whose item is newest; which one of several is not specified. *)
Pop(m) == CHOOSE i \in m.heap : \A j \in m.heap : At(m.its[i]).ts >= At(m.its[j]).ts

(* Mutant: no limit on how often a range returns a location. *)
Cyclic_Never(times) == FALSE

Cyclic(times) == times > MaxRepeats

(* More pops than this would mean that a range is returned to for ever. *)
PopBound(m) == FoldLeft(LAMBDA n, it : n + (MaxRepeats + 1) * Len(it.es), 1, m.its)

(* Pops until a location comes up that was not returned before.  The item  *)
(* of a range seen too often is discarded and its range with it.           *)
RECURSIVE MergeAdvance(_)
MergeAdvance(m) ==
  LET Popped(i, item, times, next) ==
        [m EXCEPT !.seen = @ \cup {item.loc},
                  !.repeats[i][item.loc] = times,
                  !.pops = @ + 1,
                  !.its[i] = next,
                  !.heap = IF Cyclic(times) \/ next.pos = 0 \/ ~Valid(next) THEN @ \ {i} ELSE @,
                  !.cur = IF item.loc \in m.seen \/ Cyclic(times) THEN NoLoc ELSE item]
      Retry(n) == IF n.cur = NoLoc THEN MergeAdvance(n) ELSE n
      PopFrom(i, item) ==
        Retry(Popped(i, item, m.repeats[i][item.loc] + 1,
                     advanceIteratorSafely(m.its[i], MaxAttempts)))
      PopRange(i) == PopFrom(i, At(m.its[i]))
  IN IF m.heap = {} THEN [m EXCEPT !.cur = NoLoc]
     ELSE IF m.pops > PopBound(m)
     THEN [m EXCEPT !.cur = NoLoc, !.heap = {}, !.spins = TRUE]
     ELSE PopRange(Pop(m))

(* newMergeLocationIterator: the heap is filled and the first location     *)
(* fetched.                                                                *)
NewMerge(its) ==
  MergeAdvance([its |-> its, heap |-> {i \in DOMAIN its : Valid(its[i])}, seen |-> {},
                repeats |-> [i \in DOMAIN its |-> [l \in DOMAIN Events |-> 0]],
                cur |-> NoLoc, pops |-> 0, spins |-> FALSE])

----------------------------------------------------------------------------
(* intersectionLocationIterator.  li.cur is the location it stands on.     *)

(* The locations a merge has at one timestamp, and the merge after them.   *)
RECURSIVE collectTimestampBucket(_, _, _)
collectTimestampBucket(m, ts, bucket) ==
  IF m.cur = NoLoc \/ m.cur.ts # ts THEN [bucket |-> bucket, rest |-> m]
  ELSE collectTimestampBucket(MergeAdvance(m), ts, bucket \cup {m.cur})

(* emitPending *)
EmitPending(li) == [li EXCEPT !.cur = Head(li.pending), !.pending = Tail(@)]

RECURSIVE IntersectionAdvance(_)
IntersectionAdvance(li) ==
  LET a == li.left.cur
      b == li.right.cur
      SameTime(l, r) == [li EXCEPT !.left = l.rest, !.right = r.rest,
                                   !.pending = SetToSeq(l.bucket \cap r.bucket)]
      Skip == CASE a.ts > b.ts -> [li EXCEPT !.left = MergeAdvance(@)]
                [] b.ts > a.ts -> [li EXCEPT !.right = MergeAdvance(@)]
                [] a.ts = b.ts -> SameTime(collectTimestampBucket(li.left, a.ts, {}),
                                           collectTimestampBucket(li.right, a.ts, {}))
  IN CASE li.pending # <<>> -> EmitPending(li)
       [] li.pending = <<>> /\ (a = NoLoc \/ b = NoLoc) -> [li EXCEPT !.cur = NoLoc]
       [] li.pending = <<>> /\ a # NoLoc /\ b # NoLoc ->
            IF a.loc = b.loc
            THEN [li EXCEPT !.cur = a, !.left = MergeAdvance(@), !.right = MergeAdvance(@)]
            ELSE IntersectionAdvance(Skip)

----------------------------------------------------------------------------
(* LocationIterator: a merge, or the intersection of two. *)

LocationAdvance(li) ==
  IF li.two THEN IntersectionAdvance(li)
  ELSE LET Single(m) == [li EXCEPT !.left = m, !.cur = m.cur]
       IN Single(MergeAdvance(li.left))

NoMerge == [its |-> <<>>, heap |-> {}, seen |-> {}, repeats |-> <<>>, cur |-> NoLoc,
            pops |-> 0, spins |-> FALSE]

NoIter == [two |-> FALSE, left |-> NoMerge, right |-> NoMerge, pending |-> <<>>, cur |-> NoLoc]

(* getLocationIterator, given the iterators opened for the plan's ranges.  *)
getLocationIterator(plan, opened) ==
  LET On(ranges) == [i \in DOMAIN ranges |-> ranges[i].it]
      Its(name) == On(SelectSeq(opened, LAMBDA o : o.index = name))
      Single(m) == [NoIter EXCEPT !.left = m, !.cur = m.cur]
  IN IF plan.strategy = "intersection"
     THEN IntersectionAdvance([NoIter EXCEPT !.two = TRUE,
                                             !.left = NewMerge(Its("author_time")),
                                             !.right = NewMerge(Its("search"))])
     ELSE Single(NewMerge(Its(plan.strategy)))

(* Every location of the iterator, in order. *)
RECURSIVE Drain(_)
Drain(li) == IF li.cur = NoLoc THEN <<>> ELSE <<li.cur.loc>> \o Drain(LocationAdvance(li))
============================================================================
