---------------------------- MODULE Aggregation ----------------------------
(***************************************************************************)
(* Aggregation (src/src/aggregation): events are counted per group from    *)
(* the index keys alone, one index or a join of two on their locations.    *)
(* All ranges are ascending and include both ends.  There is one for every *)
(* kind, author or pair the filter lists, so what it lists twice is        *)
(* scanned, and outside a join counted, twice.                             *)
(*                                                                         *)
(* An aggregation query q has a filter q.f, the dimensions q.group, the    *)
(* tag q.tag ("" when the caller sets none), the width q.bucket of a time  *)
(* bucket, and q.limit and q.desc for the order of the answer.             *)
(***************************************************************************)
EXTENDS Query

----------------------------------------------------------------------------
(* Compile *)

HasAuthor(q) == "author" \in q.group \/ q.f.authors # <<>>
HasTag(q) == "tag" \in q.group \/ q.f.tags # {}

AggStrategy(q) ==
  CASE ~HasAuthor(q) /\ ~HasTag(q) -> "KindTime"
    [] ~HasAuthor(q) /\ HasTag(q) /\ Cardinality(TagNames(q.f)) <= 1 -> "Search"
    [] HasAuthor(q) /\ ~HasTag(q) -> "AuthorTime"
    [] OTHER -> "MultiIndex"

(* The tag whose search type a plan with at most one filtered tag scans. *)
ResolvedTag(q) ==
  IF q.tag # "" \/ q.f.tags = {} THEN q.tag ELSE CHOOSE n \in TagNames(q.f) : TRUE

(* The tag constraints of a join: the filtered tags, and the grouped one.  *)
ConstraintTags(q) == TagNames(q.f) \cup (IF "tag" \in q.group THEN {q.tag} ELSE {})

AggValid(q) ==
  /\ q.group # {}
  /\ "tag" \in q.group => q.tag # ""
  /\ ("tag" \in q.group /\ Cardinality(TagNames(q.f)) = 1 /\ ~HasAuthor(q))
        => q.tag \in TagNames(q.f)
  /\ (AggStrategy(q) \in {"Search", "MultiIndex"} /\ Cardinality(TagNames(q.f)) <= 1)
        => ResolvedTag(q) \in DOMAIN TagTypes
  /\ AggStrategy(q) = "MultiIndex" => ConstraintTags(q) \subseteq DOMAIN TagTypes

----------------------------------------------------------------------------
(* Key ranges *)

FullScan(width) == [min |-> [i \in 1 .. width |-> 0],
                    max |-> [i \in 1 .. width |-> IF i = width THEN MaxTime ELSE TopField]]

resolveKinds(f, known) == IF f.kinds # <<>> THEN f.kinds ELSE SetToSortSeq(known, <)

AggKindTimeRanges(f) ==
  IF f.kinds = <<>> THEN <<FullScan(2)>>
  ELSE [i \in DOMAIN f.kinds |-> [min |-> BuildKindTimeKey(f.kinds[i], 0),
                                  max |-> BuildKindTimeKey(f.kinds[i], MaxTime)]]

AggSearchRanges(f, type, known) ==
  LET kinds == resolveKinds(f, known)
  IN IF kinds = <<>> THEN <<FullScan(4)>>
     ELSE [i \in DOMAIN kinds |-> [min |-> BuildSearchKey(kinds[i], type, EmptyValue, 0),
                                   max |-> BuildSearchKey(kinds[i], type, TopField, MaxTime)]]

AggExactSearchRanges(f, type, values, known) ==
  LET pairs == Cross(resolveKinds(f, known), SetToSortSeq(values, <))
      Key(p, ts) == BuildSearchKey(p[1], type, p[2], ts)
  IN IF pairs = <<>> THEN AggSearchRanges(f, type, known)
     ELSE [i \in DOMAIN pairs |-> [min |-> Key(pairs[i], f.since),
                                   max |-> Key(pairs[i], EndTime(f))]]

AggAuthorTimeRanges(f) ==
  LET pairs == Cross(f.authors, f.kinds)
  IN CASE f.authors = <<>> -> <<FullScan(3)>>
       [] f.authors # <<>> /\ f.kinds # <<>> ->
            [i \in DOMAIN pairs |->
               [min |-> BuildAuthorTimeKey(pairs[i][1], pairs[i][2], f.since),
                max |-> BuildAuthorTimeKey(pairs[i][1], pairs[i][2], EndTime(f))]]
       [] f.authors # <<>> /\ f.kinds = <<>> ->
            [i \in DOMAIN f.authors |->
               [min |-> BuildAuthorTimeKey(f.authors[i], 0, 0),
                max |-> BuildAuthorTimeKey(f.authors[i], TopField, MaxTime)]]

----------------------------------------------------------------------------
(* Execution.  The callback of a scan is called with every entry of every  *)
(* range: a call is [range, e].                                            *)

Scan(pi, ranges) ==
  UNION {{[range |-> i, e |-> e] : e \in Range(RangeAsc(pi, ranges[i].min, ranges[i].max))} :
           i \in DOMAIN ranges}

(* The entries a map keyed by location ends up with. *)
ByLocation(hits) == {h.e : h \in hits}

(* Mutant: the time filter forgets that Until is included. *)
InTime_Exclusive(f, ts) == ts >= f.since /\ (f.until > 0 => ts < f.until)

InTime(f, ts) == ts >= f.since /\ (f.until > 0 => ts <= f.until)

FilterValues(f, name) == {t[2] : t \in {u \in f.tags : u[1] = name}}

ValueAllowed(f, name, v) == FilterValues(f, name) # {} => v \in FilterValues(f, name)

(* aggKey; the fields that are not asked for keep their zero. *)
AggKey(q, author, kind, ts, value) ==
  [author |-> IF "author" \in q.group THEN author ELSE 0,
   kind   |-> IF "kind" \in q.group THEN kind ELSE 0,
   bucket |-> IF "bucket" \in q.group /\ q.bucket > 0
              THEN (ts \div q.bucket) * q.bucket ELSE 0,
   value  |-> IF "tag" \in q.group THEN value ELSE EmptyValue]

(* counts, from the group of each thing counted. *)
Counts(group) ==
  [k \in Range(group) |-> Cardinality({t \in DOMAIN group : group[t] = k})]

KindAllowed(f, kind) == f.kinds # <<>> => kind \in Range(f.kinds)

executeAuthorTime(q, idx) ==
  LET hits == {h \in Scan(idx["author_time"], AggAuthorTimeRanges(q.f)) :
                 InTime(q.f, h.e.key[3]) /\ KindAllowed(q.f, h.e.key[2])}
  IN Counts([h \in hits |-> AggKey(q, h.e.key[1], h.e.key[2], h.e.key[3], EmptyValue)])

executeKindTime(q, idx) ==
  LET hits == {h \in Scan(idx["kind_time"], AggKindTimeRanges(q.f)) :
                 InTime(q.f, h.e.key[2]) /\ KindAllowed(q.f, h.e.key[1])}
  IN Counts([h \in hits |-> AggKey(q, 0, h.e.key[1], h.e.key[2], EmptyValue)])

(* With kinds in the filter the ranges fix the type and it is not looked   *)
(* at again.                                                               *)
OfType(f, e, type) == f.kinds # <<>> \/ e.key[2] = type

executeSearch(q, idx, known) ==
  LET type == TagTypes[ResolvedTag(q)]
      values == {t[2] : t \in q.f.tags}
      hits == {h \in Scan(idx["search"], AggSearchRanges(q.f, type, known)) :
                 /\ OfType(q.f, h.e, type)
                 /\ InTime(q.f, h.e.key[4])
                 /\ values # {} => h.e.key[3] \in values}
  IN Counts([h \in hits |-> AggKey(q, 0, h.e.key[1], h.e.key[4], h.e.key[3])])

(* One tag constraint of a join: the search entries that satisfy it.       *)
ScanConstraint(q, idx, known, name) ==
  LET type == TagTypes[name]
      values == FilterValues(q.f, name)
      ranges == IF values = {} THEN AggSearchRanges(q.f, type, known)
                ELSE AggExactSearchRanges(q.f, type, values, known)
  IN {e \in ByLocation(Scan(idx["search"], ranges)) :
        OfType(q.f, e, type) /\ ValueAllowed(q.f, name, e.key[3])}

(* The locations in the scan of every constraint. *)
Surviving(q, idx, known) ==
  {l \in DOMAIN Events : \A name \in ConstraintTags(q) :
     \E e \in ScanConstraint(q, idx, known, name) : e.loc = l}

(* A location carries one value of the grouped tag, the last one scanned.  *)
LastValue(q, found, l) ==
  LET mine == {e \in found : e.loc = l}
  IN IF "tag" \notin q.group THEN EmptyValue
     ELSE (CHOOSE e \in mine : \A d \in mine : KeyUpTo(d.key, e.key)).key[3]

(* The join with the author scan, which is by location for listed authors  *)
(* and one range otherwise; the time is checked on one side.               *)
executeMultiIndex(q, idx, known) ==
  LET joined == Surviving(q, idx, known)
      found == IF "tag" \in q.group THEN ScanConstraint(q, idx, known, q.tag) ELSE {}
      hits == {e \in ByLocation(Scan(idx["author_time"], AggAuthorTimeRanges(q.f))) :
                 e.loc \in joined /\ InTime(q.f, e.key[3])}
  IN Counts([e \in hits |-> AggKey(q, e.key[1], e.key[2], e.key[3], LastValue(q, found, e.loc))])

Execute(q, idx, known) ==
  CASE AggStrategy(q) = "KindTime"   -> executeKindTime(q, idx)
    [] AggStrategy(q) = "Search"     -> executeSearch(q, idx, known)
    [] AggStrategy(q) = "AuthorTime" -> executeAuthorTime(q, idx)
    [] AggStrategy(q) = "MultiIndex" -> executeMultiIndex(q, idx, known)

(* The rows of the answer, sorted by count and cut to the limit. *)
buildAggResults(q, counts) ==
  LET rows == SetToSortSeq({[key |-> k, n |-> counts[k]] : k \in DOMAIN counts},
                           LAMBDA r, s : IF q.desc THEN r.n > s.n ELSE r.n < s.n)
  IN IF q.limit > 0 THEN SubSeq(rows, 1, Min({q.limit, Len(rows)})) ELSE rows

----------------------------------------------------------------------------
(* CollectDistinctKinds: a scan that jumps from the first entry of a kind  *)
(* to the next kind.                                                       *)
RECURSIVE KindsFrom(_, _)
KindsFrom(pi, kind) ==
  LET es == RangeAsc(pi, BuildKindTimeKey(kind, 0), BuildKindTimeKey(TopField, MaxTime))
  IN CASE es = <<>> -> {}
       [] es # <<>> -> {es[1].key[1]} \cup
            IF es[1].key[1] = TopField THEN {} ELSE KindsFrom(pi, es[1].key[1] + 1)

CollectDistinctKinds(pi) == KindsFrom(pi, 0)
============================================================================
