------------------------------ MODULE ReadPath ------------------------------
(***************************************************************************)
(* Reading while others write: queries that run over the three secondary   *)
(* indexes and the record store, counts and aggregations, and              *)
(* DeleteByFilter, which queries and then deletes, beside one writer and   *)
(* one deleter that update the indexes one after the other                 *)
(* (src/src/query, src/src/aggregation, src/src/index/partition*.go and    *)
(* the methods of src/src/eventstore/eventstore_impl.go that call them).   *)
(*                                                                         *)
(* The write-ahead log, crashes and recovery are in module EventStore.     *)
(* Here an event is written at one location, its own.                      *)
(***************************************************************************)
EXTENDS Aggregation

CONSTANTS
  Stored,          \* the sets of events the store may hold at first
  Unreadable,      \* locations whose record may turn out unreadable
  Filters,         \* filters callers query and count with
  DeleteFilters,   \* filters callers pass to DeleteByFilter
  AggQueries,      \* aggregation queries
  Now,             \* the present, when an index is opened without partitions
  FullyIndexedCountLimit,
  NotFullyIndexedCountLimit,
  MaxAggGroupKeys,
  MaxCalls,        \* bound: queries, counts, aggregations, DeleteByFilter
  Batched,         \* sets of events callers pass to WriteEvents
  MaxUpdates,      \* bound: WriteEvent, WriteEvents and DeleteEvent calls
  MaxTrouble       \* bound: iterator faults, failed index updates, lost files

VARIABLES
  store,       \* store[l]: "absent", "live", "deleted" or "unreadable"
  primary,     \* locations the primary index has
  idx,         \* idx[name]: a secondary index
  knownKinds,  \* eventStoreImpl.knownKinds
  singles,     \* history: events written by WriteEvent
  writer,      \* [pc, locs, unchecked]: the write in progress
  deletes,     \* deletes[d]: [pc, locs], the deletion by a user or by DeleteByFilter
  call,        \* the query or DeleteByFilter in progress, or the last one
  answer,      \* what the last count or aggregation returned
  calls, updates, trouble

counters == <<calls, updates, trouble>>
data == <<store, primary, idx, knownKinds, singles>>
vars == <<data, writer, deletes, call, answer, counters>>

Locs == DOMAIN Events
Deleters == {"user", "filter"}
Idle == [pc |-> "idle", locs |-> {}, unchecked |-> {}]
NoDelete == [pc |-> "idle", locs |-> {}]
NoPlan == [strategy |-> "scan", full |-> FALSE]
NoCall == [op |-> "none", st |-> "done"]
NoAnswer == [op |-> "none"]

Live == {l \in Locs : store[l] = "live"}

(* All entries of an event are in its indexes. *)
Indexed(l) == \A name \in IndexNames : EntriesFor(name, l) \subseteq EntriesOf(idx[name])

(* The secondary indexes hold the entries of the live events and no other. *)
IndexesExact ==
  \A name \in IndexNames : EntriesOf(idx[name]) = UNION {EntriesFor(name, l) : l \in Live}

(* A step that fails, within the bound. *)
Tolerate(failure) ==
  /\ failure => trouble < MaxTrouble
  /\ trouble' = IF failure THEN trouble + 1 ELSE trouble

----------------------------------------------------------------------------
(* Open: partitions are found and the kinds collected. *)

Build(name, S) ==
  NewPartitionedIndex(InsertBatch(<<>>, UNION {EntriesFor(name, l) : l \in S}), {}, Now)

Init ==
  /\ \E S \in Stored, U \in SUBSET Unreadable :
       /\ Cardinality(U) <= MaxTrouble
       /\ store = [l \in Locs |-> IF l \notin S THEN "absent"
                                  ELSE IF l \in U THEN "unreadable" ELSE "live"]
       /\ primary = S
       /\ idx = [name \in IndexNames |-> Build(name, S)]
       /\ knownKinds = CollectDistinctKinds(Build("kind_time", S))
       /\ trouble = Cardinality(U)
  /\ writer = Idle /\ singles = {}
  /\ deletes = [d \in Deleters |-> NoDelete]
  /\ call = NoCall /\ answer = NoAnswer
  /\ calls = 0 /\ updates = 0

(* The store is closed and opened again; one index file does not open.     *)
Reopen ==
  /\ trouble < MaxTrouble /\ calls = 0
  /\ writer = Idle /\ deletes = [d \in Deleters |-> NoDelete]
  /\ \E name \in IndexNames : \E s \in DOMAIN idx[name] :
       /\ idx' = [idx EXCEPT ![name] = NewPartitionedIndex(@, {s}, Now)]
       /\ knownKinds' = CollectDistinctKinds(idx'["kind_time"])
  /\ trouble' = trouble + 1
  /\ UNCHANGED <<store, primary, singles, writer, deletes, call, answer, calls, updates>>

----------------------------------------------------------------------------
(* WriteEvent and WriteEvents: the records, the primary index, the three   *)
(* others, the kinds.                                                      *)

WriteEvent(l) ==
  /\ writer = Idle /\ updates < MaxUpdates
  /\ l \notin primary /\ store[l] = "absent"
  /\ store' = [store EXCEPT ![l] = "live"]
  /\ writer' = [pc |-> "primary", locs |-> {l}, unchecked |-> {}]
  /\ singles' = singles \cup {l}
  /\ updates' = updates + 1
  /\ UNCHANGED <<primary, idx, knownKinds, deletes, call, answer, calls, trouble>>

(* A sub-batch of WriteEvents: events the primary index knows are left out *)
(* and the others appended together.                                       *)
WriteEvents(batch) ==
  LET fresh == batch \ primary IN
  /\ writer = Idle /\ updates < MaxUpdates
  /\ fresh # {} /\ \A l \in fresh : store[l] = "absent"
  /\ store' = [l \in Locs |-> IF l \in fresh THEN "live" ELSE store[l]]
  /\ writer' = [pc |-> "primary", locs |-> fresh, unchecked |-> fresh]
  /\ updates' = updates + 1
  /\ UNCHANGED <<primary, idx, knownKinds, singles, deletes, call, answer, calls, trouble>>

(* Events without their primary entry are left out of the other indexes.   *)
WritePrimary ==
  /\ writer.pc = "primary"
  /\ \E done \in SUBSET writer.locs :
       /\ primary' = primary \cup done
       /\ writer' = IF done = {} THEN Idle
                    ELSE [pc |-> "author_time", locs |-> done,
                          unchecked |-> writer.unchecked \cap done]
       /\ Tolerate(done # writer.locs)
  /\ UNCHANGED <<store, idx, knownKinds, singles, deletes, call, answer, calls, updates>>

After(pc) == CASE pc = "author_time" -> "kind_time"
               [] pc = "kind_time" -> "search"
               [] pc = "search" -> "kinds"

EntriesOfAll(name, locs) == UNION {EntriesFor(name, l) : l \in locs}

(* An insert that fails is logged and passed over; a batch, whose          *)
(* partitions are visited in any order, stops there.                       *)
WriteSecondary ==
  LET es == EntriesOfAll(writer.pc, writer.locs) IN
  /\ writer.pc \in IndexNames
  /\ \E lost \in SUBSET es :
       /\ Tolerate(lost # {})
       /\ idx' = [idx EXCEPT ![writer.pc] = InsertBatch(@, es \ lost)]
  /\ writer' = [writer EXCEPT !.pc = After(@)]
  /\ UNCHANGED <<store, primary, knownKinds, singles, deletes, call, answer, calls, updates>>

(* Mutant: no look back at the primary index. *)
GhostCleanup_Never(l) == idx

(* The indexes after WriteEvents looked at event l again: one that was     *)
(* deleted while it was being indexed is removed from two of them.         *)
GhostCleanup(l) ==
  IF l \in primary THEN idx
  ELSE [name \in IndexNames |-> IF name = "search" THEN idx[name]
                                ELSE DeleteBatch(idx[name], EntriesFor(name, l))]

CheckGhost ==
  /\ writer.pc = "kinds" /\ writer.unchecked # {}
  /\ LET l == Min(writer.unchecked)
     IN /\ idx' = GhostCleanup(l)
        /\ writer' = [writer EXCEPT !.unchecked = @ \ {l}]
  /\ UNCHANGED <<store, primary, knownKinds, singles, deletes, call, answer, counters>>

addKindIfNew ==
  /\ writer.pc = "kinds" /\ writer.unchecked = {}
  /\ knownKinds' = knownKinds \cup {Events[l].kind : l \in writer.locs}
  /\ writer' = Idle
  /\ UNCHANGED <<store, primary, idx, singles, deletes, call, answer, counters>>

----------------------------------------------------------------------------
(* DeleteEvent, and DeleteEvents for the locations DeleteByFilter found.   *)

(* DeleteEvent: an event that is not there or not readable is an error.    *)
DeleteEvent(l) ==
  /\ deletes["user"].pc = "idle" /\ updates < MaxUpdates
  /\ l \in primary /\ store[l] # "unreadable"
  /\ deletes' = [deletes EXCEPT !["user"] = [pc |-> "flags", locs |-> {l}]]
  /\ updates' = updates + 1
  /\ UNCHANGED <<data, writer, call, answer, calls, trouble>>

(* A step that fails ends DeleteEvent; DeleteEvents goes on without it. *)
Pass(d, pc, failed) ==
  deletes' = [deletes EXCEPT ![d] = IF failed /\ d = "user" THEN NoDelete ELSE [@ EXCEPT !.pc = pc]]

DeleteFlags(d) ==
  /\ deletes[d].pc = "flags"
  /\ \E kept \in SUBSET deletes[d].locs :
       /\ store' = [l \in Locs |-> IF l \in deletes[d].locs \ kept THEN "deleted" ELSE store[l]]
       /\ Pass(d, "primary", kept # {})
       /\ Tolerate(kept # {})
       /\ call' = IF d = "filter" THEN [call EXCEPT !.sound = @ /\ kept = {}] ELSE call
  /\ UNCHANGED <<primary, idx, knownKinds, singles, writer, answer, calls, updates>>

DeletePrimary(d) ==
  /\ deletes[d].pc = "primary"
  /\ \E kept \in SUBSET deletes[d].locs :
       /\ primary' = primary \ (deletes[d].locs \ kept)
       /\ Pass(d, "author_time", kept # {})
       /\ Tolerate(kept # {})
  /\ UNCHANGED <<store, idx, knownKinds, singles, writer, call, answer, calls, updates>>

(* A removal that fails is logged, and what it did not get to stays. *)
DeleteSecondary(d) ==
  LET name == deletes[d].pc
      es == EntriesOfAll(name, deletes[d].locs)
  IN
  /\ name \in IndexNames
  /\ \E kept \in SUBSET es :
       /\ Tolerate(kept # {})
       /\ idx' = [idx EXCEPT ![name] = DeleteBatch(@, es \ kept)]
  /\ deletes' = [deletes EXCEPT ![d] =
                   IF name = "search" THEN NoDelete ELSE [@ EXCEPT !.pc = After(name)]]
  /\ call' = IF d = "filter" /\ name = "search" THEN [call EXCEPT !.st = "done"] ELSE call
  /\ UNCHANGED <<store, primary, knownKinds, singles, writer, answer, calls, updates>>

----------------------------------------------------------------------------
(* Query.  call.st is "open" while the ranges are opened, "read" while     *)
(* events are read, "delete" while DeleteByFilter deletes what it found.   *)

Ready(c) == IF c.st # "open" \/ c.todo # <<>> THEN c
            ELSE [c EXCEPT !.st = "read", !.li = getLocationIterator(c.plan, c.opened)]

(* Start to execute a plan; the rest of a call is kept in c. *)
Begin(c, plan) ==
  LET d == [c EXCEPT !.plan = plan, !.todo = RangesOf(plan), !.opened = <<>>, !.out = <<>>,
                     !.li = NoIter,
                     !.st = CASE plan.strategy = "invalid" -> "error"
                              [] plan.strategy = "scan"    -> "read"
                              [] OTHER -> "open"]
  IN Ready(d)

(* History: the events that were stored and indexed when the call began,   *)
(* their writes finished, and those that were gone already.                *)
NewCall(op, f, batches) ==
  [op |-> op, st |-> "open", f |-> f, plan |-> NoPlan, todo |-> <<>>, opened |-> <<>>,
   li |-> NoIter, out |-> <<>>, batches |-> batches, ids |-> {}, sound |-> TRUE,
   stable |-> {l \in Live : Indexed(l) /\ l \notin writer.locs},
   gone |-> {l \in Locs : store[l] = "deleted"}]

MayCall == call.st \in {"done", "error"} /\ calls < MaxCalls /\ calls' = calls + 1

StartQuery(f) ==
  /\ MayCall
  /\ call' = Begin(NewCall("query", f, <<>>), Compile(f))
  /\ answer' = NoAnswer
  /\ UNCHANGED <<data, writer, deletes, updates, trouble>>

(* Faults an iterator gets over without losing an entry. *)
Harmless(fault) == fault \in {NoFault, [kind |-> "stuck", left |-> MaxAttempts - 1],
                              [kind |-> "loops", left |-> 0]}

(* RangeDesc of the next range.  One that fails is left out. *)
OpenRange ==
  /\ call.st = "open"
  /\ \E fault \in Faults \cup {[kind |-> "refused", left |-> 0]} :
       LET name == Head(call.todo)[1]
           r    == Head(call.todo)[2]
           es   == RangeDesc(idx[name], r.min, r.max)
           new  == IF fault.kind = "refused" THEN <<>>
                   ELSE <<[index |-> name, it |-> NewIterator(es, fault)]>>
       IN /\ fault # NoFault => trouble < MaxTrouble /\ es # <<>>
          /\ trouble' = IF fault = NoFault THEN trouble ELSE trouble + 1
          /\ call' = Ready([call EXCEPT !.todo = Tail(@), !.opened = @ \o new,
                                        !.sound = @ /\ Harmless(fault)])
  /\ UNCHANGED <<data, writer, deletes, answer, calls, updates>>

LimitReached(c) == c.plan.filter.limit > 0 /\ Len(c.out) >= c.plan.filter.limit

(* One turn of lazyEventIterator.advance: the record is read now. *)
ReadEvent ==
  /\ call.st = "read" /\ call.li.cur # NoLoc /\ ~LimitReached(call)
  /\ LET l == call.li.cur.loc
         hit == /\ store[l] = "live"
                /\ call.plan.full \/ MatchesFilter(Events[l], call.plan.filter)
     IN call' = [call EXCEPT !.out = IF hit THEN Append(@, l) ELSE @,
                             !.li = LocationAdvance(@)]
  /\ UNCHANGED <<data, writer, deletes, answer, counters>>

QueryDone ==
  /\ call.st = "read" /\ (call.li.cur = NoLoc \/ LimitReached(call))
  /\ call.op = "query"
  /\ call' = [call EXCEPT !.st = "done"]
  /\ UNCHANGED <<data, writer, deletes, answer, counters>>

(* The caller gives up or its deadline passes. *)
CancelQuery ==
  /\ call.st \in {"open", "read"}
  /\ call' = [call EXCEPT !.st = "error"]
  /\ UNCHANGED <<data, writer, deletes, answer, counters>>

----------------------------------------------------------------------------
(* DeleteByFilter: the kinds in batches the compiler accepts, one query    *)
(* without limit for each, then DeleteEvents of all that was found.        *)

Batches(kinds) ==
  [i \in 1 .. (Len(kinds) + MaxKinds - 1) \div MaxKinds |->
     SubSeq(kinds, (i - 1) * MaxKinds + 1, Min({i * MaxKinds, Len(kinds)}))]

BatchFilter(c) == [c.f EXCEPT !.kinds = Head(c.batches), !.limit = 0]

(* Mutant: without kinds, the configured default kinds are searched. *)
kindsToQuery_Defaults(f) == IF f.kinds # <<>> THEN f.kinds ELSE DefaultKinds

kindsToQuery(f) == IF f.kinds # <<>> THEN f.kinds ELSE SetToSortSeq(knownKinds, <)

DeleteByFilter(f) ==
  /\ MayCall
  /\ LET c == NewCall("delete", f, Batches(kindsToQuery(f)))
     IN call' = CASE f.authors = <<>> /\ f.tags = {} -> [c EXCEPT !.st = "error"]
                  [] (f.authors # <<>> \/ f.tags # {}) /\ c.batches = <<>> -> [c EXCEPT !.st = "done"]
                  [] OTHER -> Begin(c, Compile(BatchFilter(c)))
  /\ answer' = NoAnswer
  /\ UNCHANGED <<data, writer, deletes, updates, trouble>>

(* The end of one batch. *)
BatchDone ==
  /\ call.st = "read" /\ call.li.cur = NoLoc /\ call.op = "delete"
  /\ LET c == [call EXCEPT !.ids = @ \cup Range(call.out), !.batches = Tail(@)]
         found == {l \in c.ids : l \in primary /\ store[l] # "unreadable"}
     IN IF c.batches # <<>> THEN call' = Begin(c, Compile(BatchFilter(c))) /\ UNCHANGED deletes
        ELSE IF c.ids = {} THEN call' = [c EXCEPT !.st = "done"] /\ UNCHANGED deletes
        ELSE IF found = {} THEN call' = [c EXCEPT !.st = "error"] /\ UNCHANGED deletes
        ELSE /\ call' = [c EXCEPT !.st = "delete"]
             /\ deletes' = [deletes EXCEPT !["filter"] = [pc |-> "flags", locs |-> found]]
  /\ UNCHANGED <<data, writer, answer, counters>>

----------------------------------------------------------------------------
(* QueryCount and QueryAggregation, each in one step. *)

Locations(plan) ==
  LET rs == RangesOf(plan)
  IN Drain(getLocationIterator(plan,
       [i \in DOMAIN rs |-> [index |-> rs[i][1],
          it |-> NewIterator(RangeDesc(idx[rs[i][1]], rs[i][2].min, rs[i][2].max), NoFault)]]))

(* Mutant: the limit on what is counted stops one too early. *)
CountPlan_Short(plan) ==
  Min({Len(Locations(plan)), FullyIndexedCountLimit - 1})

(* A plan the indexes decide is counted without reading any event. *)
CountPlan(plan) ==
  LET ls == Locations(plan)
      hit(l) == store[l] = "live" /\ MatchesFilter(Events[l], plan.filter)
  IN CASE plan.strategy = "scan" -> 0
       [] plan.strategy # "scan" /\ plan.full -> Min({Len(ls), FullyIndexedCountLimit})
       [] plan.strategy # "scan" /\ ~plan.full ->
            Len(SelectSeq(SubSeq(ls, 1, Min({Len(ls), NotFullyIndexedCountLimit})), hit))

QueryCount(f) ==
  /\ MayCall
  /\ LET plan == Compile(f)
     IN answer' = IF plan.strategy = "invalid" THEN [op |-> "error"]
                  ELSE [op |-> "count", plan |-> plan, n |-> CountPlan(plan), exact |-> IndexesExact,
                        live |-> Live]
  /\ UNCHANGED <<data, writer, deletes, call, updates, trouble>>

QueryAggregation(q) ==
  /\ MayCall
  /\ answer' = IF ~AggValid(q) THEN [op |-> "error"]
               ELSE LET counts == Execute(q, idx, knownKinds)
                    IN IF Cardinality(DOMAIN counts) > MaxAggGroupKeys THEN [op |-> "error"]
                       ELSE [op |-> "aggregation", q |-> q, rows |-> buildAggResults(q, counts),
                             exact |-> IndexesExact /\ writer = Idle, live |-> Live]
  /\ UNCHANGED <<data, writer, deletes, call, updates, trouble>>

Next ==
  \/ Reopen
  \/ \E l \in Locs : WriteEvent(l) \/ DeleteEvent(l)
  \/ \E batch \in Batched : WriteEvents(batch)
  \/ WritePrimary \/ WriteSecondary \/ CheckGhost \/ addKindIfNew
  \/ \E d \in Deleters : DeleteFlags(d) \/ DeletePrimary(d) \/ DeleteSecondary(d)
  \/ \E f \in Filters : StartQuery(f) \/ QueryCount(f)
  \/ OpenRange \/ ReadEvent \/ QueryDone \/ CancelQuery
  \/ \E f \in DeleteFilters : DeleteByFilter(f)
  \/ BatchDone
  \/ \E q \in AggQueries : QueryAggregation(q)

Spec == Init /\ [][Next]_vars

----------------------------------------------------------------------------
(* Properties *)

(* A value of "t" in the filter's own letters. *)
SameLetters(f, e) == \A name \in TagNames(f) : \E t \in f.tags : t[1] = name /\ t \in e.tags

(* What a filter asks for by every account of it.  The accounts differ in  *)
(* two points.  MatchesFilter (filters.go:26) and the comment of           *)
(* QueryFilter (types/event.go:210) include the second of Until,           *)
(* docs/query.md:122,132 exclude it, and so do the key ranges.             *)
(* MatchesFilter ignores the case of "t" values (filters.go:75), the       *)
(* search index does not.  The code takes an event that only MatchesFilter *)
(* accepts when it reads it by another index, and misses it otherwise:     *)
(* nothing is claimed of such events but that they may be returned.        *)
Wanted(f, l) ==
  /\ MatchesFilter(Events[l], f)
  /\ f.until > 0 => Events[l].ts < f.until
  /\ SameLetters(f, Events[l])

(* The filters whose tags and text the indexes can decide: one tag name,   *)
(* an indexed one, and no text.                                            *)
IndexDecides(f) ==
  /\ Cardinality(TagNames(f)) <= 1
  /\ TagNames(f) \subseteq DOMAIN TagTypes
  /\ f.search = ""

Decided(plan) == plan.full => IndexDecides(plan.filter)

Returned == IF call.op = "none" THEN {} ELSE Range(call.out)

(* A query returns its events newest first and none twice, whatever is     *)
(* written or deleted meanwhile and however its iterators misbehave        *)
(* (mergeLocationIterator.advance, intersectionLocationIterator.advance).  *)
NewestFirst ==
  call.op # "none" =>
    \A i, j \in DOMAIN call.out : i < j =>
      /\ Events[call.out[i]].ts >= Events[call.out[j]].ts
      /\ call.out[i] # call.out[j]

(* Every event a query returns matches its filter, Until included and "t"  *)
(* in any case, and none of them was deleted before the query began, also  *)
(* when the deletion left index entries behind (lazyEventIterator.advance).*)
(* For filters the chosen indexes can decide.                              *)
OnlyMatching ==
  (call.op # "none" /\ Decided(call.plan)) =>
    \A l \in Returned : MatchesFilter(Events[l], call.plan.filter) /\ l \notin call.gone

(* An event that was stored and indexed when the query began and is not    *)
(* deleted by its end is returned if it matches, unless the limit was      *)
(* spent on events at least as new.  Iterators that stall for less than    *)
(* MaxAttempts calls, or run in circles, cost no result.  It matches when  *)
(* it does by every account (Wanted): the code misses events at the second *)
(* of Until, which types/event.go:210 includes.  A filter that no index    *)
(* serves (a "scan" plan, executor.go:1249) finds nothing and is left out. *)
NothingMissed ==
  (call.op = "query" /\ call.st = "done" /\ call.sound /\ Decided(call.plan)
     /\ call.plan.strategy # "scan") =>
    \A l \in (call.stable \cap Live) \ Returned :
      Wanted(call.plan.filter, l) =>
        /\ LimitReached(call)
        /\ \A k \in Returned : Events[k].ts >= Events[l].ts

(* No iterator, cyclic or not, keeps a query from ending: the pops of a    *)
(* merge are bounded by MaxRepeats times the entries of its ranges.        *)
NeverSpins == call.op # "none" => ~call.li.left.spins /\ ~call.li.right.spins

(* A finished DeleteByFilter has deleted every event that matched from     *)
(* beginning to end, of whatever kind it is and in however many batches    *)
(* its kinds were searched.  Matching is by every account (Wanted): events *)
(* at the second of Until stay.  With a filter that no index serves (one   *)
(* with unindexed tags alone) the code deletes nothing and returns 0 and   *)
(* no error (compiler.go:130, executor.go:1249): such filters are made,    *)
(* and left out here.                                                      *)
DeletesAllMatching ==
  (call.op = "delete" /\ call.st = "done" /\ call.sound /\ Decided(call.plan)
     /\ call.plan.strategy # "scan") =>
    \A l \in call.stable : Wanted(call.f, l) => store[l] # "live"

(* DeleteByFilter deletes no event that does not match its filter, however *)
(* many tag names the filter has.  The code does so for filters with one   *)
(* tag name only (MCTwoTags has two; README, section 4).                   *)
DeletesOnlyMatching ==
  call.op = "delete" => \A l \in deletes["filter"].locs : MatchesFilter(Events[l], call.f)

(* When no update is under way, and none of their steps failed, an event   *)
(* that is deleted is gone from the primary, author and kind indexes, also *)
(* when it was deleted while WriteEvents was indexing it: what the ghost   *)
(* cleanup of writeEventsBatch is for.  (WriteEvent has none.)             *)
NoGhosts ==
  (writer = Idle /\ trouble = 0 /\ \A d \in Deleters : deletes[d] = NoDelete) =>
    \A l \in Locs \ singles : store[l] = "deleted" =>
      /\ l \notin primary
      /\ \A name \in {"author_time", "kind_time"} :
            EntriesFor(name, l) \cap EntriesOf(idx[name]) = {}

(* The events a plan that is not decided by its index has to read: those   *)
(* with an author and a kind of the filter, or with one of its indexed     *)
(* tags.                                                                   *)
Candidate(plan, l) ==
  LET e == Events[l]
  IN /\ MatchesFilter(e, [plan.filter EXCEPT !.tags = {}, !.search = ""])
     /\ plan.strategy = "search" => plan.filter.tags \cap e.tags # {}

(* QueryCount, when no update is under way and none has failed, returns    *)
(* the number of events the filter asks for, from those it asks for by     *)
(* every account to those MatchesFilter accepts.  A plan decided by its    *)
(* index counts up to its limit; another one misses no event that is among *)
(* the NotFullyIndexedCountLimit newest it has to read (CountPlan).        *)
CountExact ==
  (answer.op = "count" /\ answer.exact /\ Decided(answer.plan)
     /\ answer.plan.strategy # "scan") =>
    LET f == answer.plan.filter
        sure == {l \in answer.live : Wanted(f, l)}
        most == Cardinality({l \in answer.live : MatchesFilter(Events[l], f)})
        AtLeastAsNew(l) == {k \in answer.live : Candidate(answer.plan, k)
                                                 /\ Events[k].ts >= Events[l].ts}
        inReach == {l \in sure : Cardinality(AtLeastAsNew(l)) <= NotFullyIndexedCountLimit}
    IN IF answer.plan.full
       THEN answer.n \in Min({Cardinality(sure), FullyIndexedCountLimit}) ..
                         Min({most, FullyIndexedCountLimit})
       ELSE answer.n \in Cardinality(inReach) .. Min({most, NotFullyIndexedCountLimit})

(* The events an aggregation is about, Until included and tag values by    *)
(* their letters, and the values of its tag that each of them brings.      *)
AggEvents(q, live) ==
  {l \in live : MatchesFilter(Events[l], q.f) /\ SameLetters(q.f, Events[l])}

AggValues(q, l) ==
  IF AggStrategy(q) = "Search" \/ "tag" \in q.group
  THEN {t[2] : t \in {u \in Events[l].tags :
          u[1] = ResolvedTag(q) /\ ValueAllowed(q.f, u[1], u[2])}}
  ELSE {EmptyValue}

(* Aggregations that count as documented: values short enough for a key, a *)
(* last moment that does not begin a partition (the partition it begins is *)
(* not scanned, partition.go:745), in a join, events with one value of the *)
(* grouped tag, and otherwise no kind or author listed twice (it is        *)
(* counted twice, aggregation/compiler.go:217, 314).                       *)
AggRegular(q, live) ==
  /\ \A l \in live : \A v \in AggValues(q, l) : v = EmptyValue \/ KeyPart[v] = v
  /\ q.f.until % Span # 0 \/ q.f.until = 0
  /\ IF AggStrategy(q) = "MultiIndex"
     THEN \A l \in live : Cardinality(AggValues(q, l)) <= 1
     ELSE IsInjective(q.f.kinds) /\ IsInjective(q.f.authors)

(* An aggregation, when no update is under way and none has failed, has in *)
(* each group the number of events with the group's author, kind, time     *)
(* bucket and tag value, whichever indexes it was answered from; with a    *)
(* limit it has the groups with the most (or the fewest) events.           *)
AggregationExact ==
  (answer.op = "aggregation" /\ answer.exact /\ AggRegular(answer.q, answer.live)) =>
    LET q == answer.q
        things == {<<l, v>> : l \in AggEvents(q, answer.live), v \in DOMAIN KeyPart \cup {EmptyValue}}
        counted == {t \in things : t[2] \in AggValues(q, t[1])}
        key(t) == LET e == Events[t[1]] IN AggKey(q, e.author, e.kind, e.ts, t[2])
        want == Counts([t \in counted |-> key(t)])
        n == Len(answer.rows)
    IN /\ \A i \in 1 .. n : answer.rows[i].key \in DOMAIN want
                            /\ answer.rows[i].n = want[answer.rows[i].key]
       /\ n = IF q.limit = 0 THEN Cardinality(DOMAIN want)
              ELSE Min({q.limit, Cardinality(DOMAIN want)})
       /\ \A i, j \in 1 .. n : i # j => answer.rows[i].key # answer.rows[j].key
       /\ \A k \in DOMAIN want \ {answer.rows[i].key : i \in 1 .. n} :
            \A i \in 1 .. n : IF q.desc THEN answer.rows[i].n >= want[k]
                                        ELSE answer.rows[i].n <= want[k]
============================================================================
