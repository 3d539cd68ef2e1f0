----------------------------- MODULE ShardStore -----------------------------
(***************************************************************************)
(* The sharded store (src/src/shard): clients call the distributed store,  *)
(* which routes by author over the hash ring; shards are added and removed *)
(* under it; the rebalancer's background goroutine goes through the shards *)
(* to move events to their new owners.                                     *)
(*                                                                         *)
(* A shard's own event store is a set of live events here: writing an      *)
(* event it has succeeds and changes nothing, deleting one it does not     *)
(* have is an error.  Every call on a shard takes its lock and is one      *)
(* step; between two such steps of a call anything else may happen.        *)
(*                                                                         *)
(* The filters clients send name kinds, besides the authors given here: a  *)
(* shard answers them from an index.  The rebalancer's own filters name    *)
(* neither kinds nor authors nor tags, and get no answer (see MigrateShard).*)
(***************************************************************************)
EXTENDS HashRing, Sequences, FiniteSets, Functions

CONSTANTS
  Clients,      \* concurrent callers of the distributed store
  Events,       \* the events (their ids), naturals
  Pubkey,       \* Pubkey[e]: the author of event e
  CreatedAt,    \* CreatedAt[e]: its timestamp
  Filters,      \* the sets of authors clients put in their filters ({}: any)
  Limits,       \* the limits clients put in their filters (0: none)
  EnableDedupe, \* store.enableDedupe
  DryRun,       \* RebalanceConfig.DryRun
  First,        \* the shards the store starts with
  MaxAdds,      \* bound: shards registered later
  MaxWork,      \* bound: client calls and rebalance tasks
  MaxTroubles   \* bound: removals, closes, stops, cancels, failures, timeouts

ASSUME ShardConstants ==
  /\ First \subseteq Nodes /\ IsFiniteSet(First)
  /\ Events \subseteq Nat /\ IsFiniteSet(Events)
  /\ Pubkey \in [Events -> Keys]
  /\ CreatedAt \in [Events -> Nat]
  /\ Filters \subseteq SUBSET Keys
  /\ Limits \subseteq Nat
  /\ EnableDedupe \in BOOLEAN /\ DryRun \in BOOLEAN

VARIABLES
  shards,   \* ids registered in store.shards
  inst,     \* inst[s]: which incarnation of shard s is (or was last) registered
  open,     \* registered shards whose isOpen is set
  held,     \* held[s]: live events in shard s's event store
  ring,     \* store.hashRing
  call,     \* call[c]: the call client c has in progress
  tasks,    \* the migration trackers created so far
  queue,    \* Rebalancer.taskQueue, indexes into tasks
  running,  \* Rebalancer.isRunning
  worker,   \* the processQueue goroutine
  metrics,  \* Rebalancer.metrics: tasks completed and failed
  calls, adds, removes, stops, faults,  \* how often each has happened
  acked,    \* history: acknowledged events no delete has reached
  gone      \* history: events a DeleteEvents removed from every shard

stores    == <<shards, inst, open, held, ring>>
rebalance == <<tasks, queue, running, worker, metrics>>
counters  == <<calls, adds, removes, stops, faults>>
history   == <<acked, gone>>
vars      == <<stores, call, rebalance, counters, history>>

-----------------------------------------------------------------------------
(* Routing and one shard's operations *)

Idle == [op |-> "idle"]

NoWorker == [pc |-> "none"]

\* Waiting in the select of processQueue, on the stop channel of this moment.
Select == [pc |-> "select", stopped |-> FALSE]

\* A reference to the shard object that is registered now.
Ref(s) == <<s, inst[s]>>

Refs(S) == {Ref(s) : s \in S}

\* The object a reference denotes is still open.
IsOpen(r) == r[1] \in open /\ inst[r[1]] = r[2]

Registered(a) == GetNode(ring, a) \in shards

\* GetShardByPubkey, where it succeeds.
Owner(a) == GetNode(ring, a)

Work == calls + Len(tasks) < MaxWork

Trouble == removes + stops + faults < MaxTroubles

(***************************************************************************)
(* A call on a shard may fail or time out (while the bound lasts); the     *)
(* shard may have done the work before the answer was lost.                *)
(***************************************************************************)
Fault == Trouble /\ faults' = faults + 1

\* compareEventID: ids compare byte by byte, so the ids here are numbers.
IdBefore(d, e) == d < e

Newer(d, e) ==
  \/ CreatedAt[d] > CreatedAt[e]
  \/ CreatedAt[d] = CreatedAt[e] /\ IdBefore(d, e)

Take(n, s) == IF n > 0 /\ Len(s) > n THEN SubSeq(s, 1, n) ELSE s

(***************************************************************************)
(* What one shard's query may return for the events S: the n newest (all   *)
(* of them when n = 0), newest first, whichever the index meets first      *)
(* among equal timestamps.                                                 *)
(***************************************************************************)
ShardQuery(S, n) ==
  LET size == IF n = 0 \/ Cardinality(S) < n THEN Cardinality(S) ELSE n
  IN  {s \in Injection(1 .. size, S) :
         /\ \A i, j \in 1 .. size : i < j => CreatedAt[s[i]] >= CreatedAt[s[j]]
         /\ \A i \in 1 .. size, e \in S \ Range(s) : CreatedAt[s[i]] >= CreatedAt[e]}

(***************************************************************************)
(* sort.Slice with the order Newer, on the answers f (a sequence, or, once *)
(* deduplicated, a set of events each standing for itself).                *)
(***************************************************************************)
Sorted(f) ==
  LET places == 1 .. Cardinality(DOMAIN f)
      p == CHOOSE p \in Bijection(places, DOMAIN f) :
             \A i, j \in places : i < j => ~Newer(f[p[j]], f[p[i]])
  IN  [i \in places |-> f[p[i]]]

\* deduplicateEvents; the order it keeps is gone after the sort.
Dedupe(s) == [e \in Range(s) |-> e]

\* Mutant: the limit is applied before the answers are sorted.
MergeCutsFirst(s, n) ==
  Sorted(IF EnableDedupe THEN Dedupe(Take(n, s)) ELSE Take(n, s))

\* The federated query's last step: deduplicate, sort, cut at the limit.
Merge(s, n) == Take(n, Sorted(IF EnableDedupe THEN Dedupe(s) ELSE s))

-----------------------------------------------------------------------------
(* What a write or a delete means for the calls that run beside it.        *)

\* Calls that must no longer be held to the events E: they left a shard.
Forget(E) ==
  [c \in Clients |->
     IF call[c].op = "query" THEN [call[c] EXCEPT !.must = @ \ E] ELSE call[c]]

\* Deletes of an event of E that a write of E overlaps.
Spoil(f, E) ==
  [c \in Clients |->
     IF f[c].op = "deleteAll" /\ f[c].events \cap E # {}
     THEN [f[c] EXCEPT !.clean = FALSE] ELSE f[c]]

\* Calls in flight that will write one of the events E.
Writing(E) == \E c \in Clients : call[c].op \in {"insert", "batch"} /\ call[c].events \cap E # {}

Begin(c, record) ==
  /\ call[c].op = "idle"
  /\ Work
  /\ calls' = calls + 1
  /\ call' = [call EXCEPT ![c] = record]

\* A call that is going to write the events E.
BeginWrite(c, E, record) ==
  /\ call[c].op = "idle"
  /\ Work
  /\ calls' = calls + 1
  /\ call' = Spoil([call EXCEPT ![c] = record], E)
  /\ gone' = gone \ E

End(c) == call' = [call EXCEPT ![c] = Idle]

-----------------------------------------------------------------------------
(* Registering shards *)

(***************************************************************************)
(* The store before a shard is configured, and as Open leaves it: the      *)
(* configured shards are connected, and hold events that were inserted     *)
(* through this ring before.                                               *)
(***************************************************************************)
Init ==
  /\ shards \in {{}, First} /\ open = shards
  /\ inst = [s \in Nodes |-> IF s \in shards THEN 1 ELSE 0]
  /\ ring = RingOf(shards)
  /\ acked \in SUBSET {e \in Events : Registered(Pubkey[e])}
  /\ held = [s \in Nodes |-> {e \in acked : Owner(Pubkey[e]) = s}]
  /\ call = [c \in Clients |-> Idle]
  /\ tasks = <<>> /\ queue = <<>>
  /\ running = FALSE
  /\ worker = NoWorker
  /\ metrics = [completed |-> 0, failed |-> 0]
  /\ calls = 0 /\ adds = 0 /\ removes = 0 /\ stops = 0 /\ faults = 0
  /\ gone = {}

(***************************************************************************)
(* AddLocalShard and AddRemoteShard: under the store's lock a new shard    *)
(* object is opened on the shard's data, which a removed shard keeps.      *)
(***************************************************************************)
AddShard(s) ==
  /\ s \notin shards
  /\ adds < MaxAdds
  /\ adds' = adds + 1
  /\ shards' = shards \cup {s}
  /\ open' = open \cup {s}
  /\ inst' = [inst EXCEPT ![s] = @ + 1]
  /\ ring' = AddNode(ring, s)
  /\ gone' = gone \ held[s]
  /\ call' = Spoil(call, held[s])
  /\ UNCHANGED <<held, rebalance, calls, removes, stops, faults, acked>>

RemoveShard(s) ==
  /\ s \in shards
  /\ Trouble
  /\ removes' = removes + 1
  /\ shards' = shards \ {s}
  /\ open' = open \ {s}
  /\ ring' = RemoveNode(ring, s)
  /\ acked' = acked \cap UNION {held[t] : t \in shards'}  \* the rest left with s
  /\ call' = Forget(held[s])
  /\ UNCHANGED <<inst, held, rebalance, calls, adds, stops, faults, gone>>

\* Close closes every shard and leaves them registered.
Close ==
  /\ open # {}
  /\ Trouble
  /\ removes' = removes + 1
  /\ open' = {}
  /\ call' = Forget(Events)
  /\ UNCHANGED <<shards, inst, held, ring, rebalance, calls, adds, stops,
                 faults, history>>

-----------------------------------------------------------------------------
(* Insert and InsertBatch *)

\* GetShardByPubkey under the read lock; the insert follows after the unlock.
InsertRoute(c, e) ==
  /\ Registered(Pubkey[e])
  /\ BeginWrite(c, {e}, [op |-> "insert", events |-> {e}, at |-> Ref(Owner(Pubkey[e]))])
  /\ UNCHANGED <<stores, rebalance, adds, removes, stops, faults, acked>>

Write(s, E) == held' = [held EXCEPT ![s] = @ \cup E]

Insert(c) ==
  /\ call[c].op = "insert"
  /\ LET E == call[c].events
         r == call[c].at
     IN  \/ /\ IsOpen(r)
            /\ Write(r[1], E)
            /\ acked' = acked \cup E
            /\ UNCHANGED faults
         \/ /\ ~IsOpen(r)
            /\ UNCHANGED <<held, acked, faults>>
         \/ /\ IsOpen(r) /\ Fault
            /\ \E W \in {{}, E} : Write(r[1], W)
            /\ UNCHANGED acked
  /\ call' = Spoil([call EXCEPT ![c] = Idle], call[c].events)
  /\ UNCHANGED <<shards, inst, open, ring, rebalance, calls, adds, removes,
                 stops, gone>>

(***************************************************************************)
(* InsertBatch routes the events first, each under the read lock of its    *)
(* own; one it cannot route fails the batch.  Then it inserts shard by     *)
(* shard, in the order the map yields.                                     *)
(***************************************************************************)
InsertBatchStart(c, E) ==
  /\ BeginWrite(c, E, [op |-> "batch", events |-> E, route |-> E,
                       batches |-> [e \in {} |-> NoNode]])
  /\ UNCHANGED <<stores, rebalance, adds, removes, stops, faults, acked>>

InsertBatchRoute(c, e) ==
  /\ call[c].op = "batch"
  /\ e \in call[c].route
  /\ LET B == call[c].batches
     IN  \/ /\ Registered(Pubkey[e])
            /\ call' = [call EXCEPT ![c].route = @ \ {e}, ![c].batches =
                 [d \in DOMAIN B \cup {e} |-> IF d = e THEN Owner(Pubkey[e]) ELSE B[d]]]
         \/ /\ ~Registered(Pubkey[e])
            /\ End(c)
  /\ UNCHANGED <<stores, rebalance, counters, history>>

(***************************************************************************)
(* One shard's part of the batch.  The shard is looked up again: one that  *)
(* was removed meanwhile is nil, and calling it panics; what the panic     *)
(* does to the process is not modelled, the call ends there.               *)
(***************************************************************************)
InsertBatch(c, s) ==
  /\ call[c].op = "batch" /\ call[c].route = {}
  /\ LET B == call[c].batches
         E == {e \in DOMAIN B : B[e] = s}
         rest == [e \in DOMAIN B \ E |-> B[e]]
     IN  /\ E # {}
         /\ \/ /\ s \in open
               /\ Write(s, E)
               /\ acked' = acked \cup E
               /\ call' = Spoil([call EXCEPT ![c] =
                             IF DOMAIN rest = {} THEN Idle
                             ELSE [@ EXCEPT !.batches = rest,
                                            !.events = DOMAIN rest]], E)
               /\ UNCHANGED faults
            \/ /\ s \notin open
               /\ End(c)
               /\ UNCHANGED <<held, acked, faults>>
            \/ /\ s \in open /\ Fault
               /\ \E W \in SUBSET E : Write(s, W)
               /\ call' = Spoil([call EXCEPT ![c] = Idle], E)
               /\ UNCHANGED acked
  /\ UNCHANGED <<shards, inst, open, ring, rebalance, calls, adds, removes,
                 stops, gone>>

-----------------------------------------------------------------------------
(* Delete and DeleteEvents *)

Erase(s, E) ==
  /\ held' = [held EXCEPT ![s] = @ \ E]
  /\ acked' = acked \ (held[s] \cap E)
  /\ tasks' = [t \in DOMAIN tasks |-> [tasks[t] EXCEPT !.covered = @ \ (held[s] \cap E)]]

\* Delete probes a snapshot of the shards one after the other.
DeleteStart(c, e) ==
  /\ shards # {}
  /\ Begin(c, [op |-> "delete", events |-> {e}, todo |-> Refs(shards)])
  /\ UNCHANGED <<stores, rebalance, adds, removes, stops, faults, history>>

\* The first shard that deletes it ends the call; an error tries the next.
Delete(c, r) ==
  /\ call[c].op = "delete"
  /\ r \in call[c].todo
  /\ LET E == call[c].events
         next(f) == [f EXCEPT ![c] = IF call[c].todo = {r} THEN Idle
                                     ELSE [f[c] EXCEPT !.todo = @ \ {r}]]
     IN  \/ /\ IsOpen(r) /\ E \subseteq held[r[1]]
            /\ Erase(r[1], E)
            /\ call' = [Forget(E) EXCEPT ![c] = Idle]
            /\ UNCHANGED faults
         \/ /\ ~(IsOpen(r) /\ E \subseteq held[r[1]])
            /\ call' = next(call)
            /\ UNCHANGED <<held, acked, tasks, faults>>
         \/ /\ IsOpen(r) /\ Fault
            /\ \E W \in {{}, E} : Erase(r[1], W) /\ call' = next(Forget(W))
  /\ UNCHANGED <<shards, inst, open, ring, queue, running, worker,
                 metrics, calls, adds, removes, stops, gone>>

\* DeleteEvents asks every shard of a snapshot, all in parallel.
DeleteEventsStart(c, E) ==
  /\ shards # {}
  /\ Begin(c, [op |-> "deleteAll", events |-> E, todo |-> Refs(shards),
               clean |-> ~Writing(E)])
  /\ UNCHANGED <<stores, rebalance, adds, removes, stops, faults, history>>

\* Mutant: the first shard that deletes something ends the call, as in Delete.
DeleteEventsFirstOnly(c, r) ==
  /\ call[c].op = "deleteAll"
  /\ r \in call[c].todo
  /\ IsOpen(r)
  /\ Erase(r[1], call[c].events)
  /\ LET E == call[c].events
         last == call[c].todo = {r} \/ E \cap held[r[1]] # {}
     IN  /\ call' = [Forget(E \cap held[r[1]]) EXCEPT ![c] =
                       IF last THEN Idle ELSE [call[c] EXCEPT !.todo = @ \ {r}]]
         /\ gone' = IF last /\ call[c].clean THEN gone \cup E ELSE gone
  /\ UNCHANGED <<shards, inst, open, ring, queue, running, worker,
                 metrics, calls, adds, removes, stops, faults>>

(***************************************************************************)
(* One shard's DeleteBatch; its failure counts as zero events deleted and  *)
(* is not reported.  The last answer ends the call.                        *)
(***************************************************************************)
DeleteEvents(c, r) ==
  /\ call[c].op = "deleteAll"
  /\ r \in call[c].todo
  /\ LET E == call[c].events
         last == call[c].todo = {r}
         after(f, ok) == [f EXCEPT ![c] =
                            IF last THEN Idle
                            ELSE [f[c] EXCEPT !.todo = @ \ {r}, !.clean = @ /\ ok]]
     IN  \/ /\ IsOpen(r)
            /\ Erase(r[1], E)
            /\ call' = after(Forget(E \cap held[r[1]]), TRUE)
            /\ gone' = IF last /\ call[c].clean THEN gone \cup E ELSE gone
            /\ UNCHANGED faults
         \/ /\ ~IsOpen(r)
            /\ call' = after(call, r[1] \notin shards)
            /\ UNCHANGED <<held, acked, tasks, gone, faults>>
         \/ /\ IsOpen(r) /\ Fault
            /\ \E W \in SUBSET E : Erase(r[1], W) /\ call' = after(Forget(W), FALSE)
            /\ UNCHANGED gone
  /\ UNCHANGED <<shards, inst, open, ring, queue, running, worker,
                 metrics, calls, adds, removes, stops>>

-----------------------------------------------------------------------------
(* GetByID and Query *)

\* GetByID asks every shard of a snapshot; the first hit ends the call.
GetByIDStart(c, e) ==
  /\ shards # {}
  /\ Begin(c, [op |-> "get", events |-> {e}, todo |-> Refs(shards)])
  /\ UNCHANGED <<stores, rebalance, adds, removes, stops, faults, history>>

GetByID(c, r) ==
  /\ call[c].op = "get"
  /\ r \in call[c].todo
  /\ \/ Fault
     \/ UNCHANGED faults
  /\ call' = [call EXCEPT ![c] =
                IF \/ IsOpen(r) /\ faults' = faults /\ @.events \subseteq held[r[1]]
                   \/ @.todo = {r}
                THEN Idle ELSE [call[c] EXCEPT !.todo = @ \ {r}]]
  /\ UNCHANGED <<stores, rebalance, calls, adds, removes, stops, history>>

Matches(A, S) == IF A = {} THEN S ELSE {e \in S : Pubkey[e] \in A}

(***************************************************************************)
(* Query goes to every shard when its filter names no author, else to the  *)
(* shards of its authors, each looked up under the read lock of its own    *)
(* (QueryRoute).  must (history): the events that match, are on a shard    *)
(* the query goes to when that shard is looked up, and stay there while    *)
(* the query runs.                                                         *)
(***************************************************************************)
QueryStart(c, A, n) ==
  /\ Begin(c, [op |-> "query", authors |-> A, limit |-> n, route |-> A,
               todo |-> IF A = {} THEN Refs(shards) ELSE {}, all |-> <<>>,
               must |-> IF A = {} THEN UNION {held[s] : s \in open} ELSE {}])
  /\ UNCHANGED <<stores, rebalance, adds, removes, stops, faults, history>>

\* An author whose shard does not exist is skipped; the set is keyed by shard id.
QueryRoute(c, a) ==
  /\ call[c].op = "query"
  /\ a \in call[c].route
  /\ LET s == Owner(a)
     IN  \/ /\ Registered(a)
            /\ call' = [call EXCEPT ![c].route = @ \ {a},
                          ![c].todo = {r \in @ : r[1] # s} \cup {Ref(s)},
                          ![c].must = @ \cup IF s \in open
                                             THEN Matches(call[c].authors, held[s]) ELSE {}]
         \/ /\ ~Registered(a)
            /\ call' = [call EXCEPT ![c].route = @ \ {a}]
  /\ UNCHANGED <<stores, rebalance, counters, history>>

\* One shard's answer; a failed shard is skipped.
QueryShard(c, r) ==
  /\ call[c].op = "query" /\ call[c].route = {}
  /\ r \in call[c].todo
  /\ \/ /\ IsOpen(r)
        /\ \E s \in ShardQuery(Matches(call[c].authors, held[r[1]]), call[c].limit) :
             call' = [call EXCEPT ![c].todo = @ \ {r}, ![c].all = @ \o s]
        /\ UNCHANGED faults
     \/ /\ \/ ~IsOpen(r) /\ UNCHANGED faults
           \/ Fault
        /\ call' = [call EXCEPT ![c].todo = @ \ {r}, ![c].must = {}]
  /\ UNCHANGED <<stores, rebalance, calls, adds, removes, stops, history>>

\* Every shard was asked and has answered.
Answered(c) == call[c].op = "query" /\ call[c].route = {} /\ call[c].todo = {}

(***************************************************************************)
(* What the query returns then.  When no shard was found, or all of them   *)
(* failed, it is an error: there is nothing to merge.                      *)
(***************************************************************************)
Answer(c) == Merge(call[c].all, call[c].limit)

QueryEnd(c) ==
  /\ Answered(c)
  /\ End(c)
  /\ UNCHANGED <<stores, rebalance, counters, history>>

-----------------------------------------------------------------------------
(* The rebalancer *)

Current == Len(tasks)

IsRebalancing == Current > 0 /\ tasks[Current].status = "running"

Topology == adds + removes

SetStatus(t, status) == [tasks EXCEPT ![t].status = status]

\* Mutant: the task is queued and no goroutine is started for it.
StartRebalanceNoWorker ==
  /\ ~IsRebalancing
  /\ Work
  /\ tasks' = Append(tasks, [status |-> "running", covered |-> acked,
                             topology |-> Topology, failures |-> FALSE])
  /\ queue' = Append(queue, Len(tasks) + 1)
  /\ UNCHANGED <<stores, call, running, worker, metrics, counters, history>>

(***************************************************************************)
(* StartRebalance.  The new ring it builds only decides about events the   *)
(* scan yields, and is left out with them.  covered (history): the events  *)
(* the task is answerable for, those acknowledged when it starts.          *)
(***************************************************************************)
StartRebalance ==
  /\ ~IsRebalancing
  /\ Work
  /\ tasks' = Append(tasks, [status |-> "running", covered |-> acked,
                             topology |-> Topology, failures |-> FALSE])
  /\ queue' = Append(queue, Len(tasks) + 1)
  /\ running' = TRUE
  /\ worker' = IF running THEN worker ELSE Select
  /\ UNCHANGED <<stores, call, metrics, counters, history>>

CancelCurrentTask ==
  /\ IsRebalancing
  /\ Trouble
  /\ stops' = stops + 1
  /\ tasks' = SetStatus(Current, "failed")
  /\ UNCHANGED <<stores, call, queue, running, worker, metrics, calls,
                 adds, removes, faults, history>>

(***************************************************************************)
(* Stop closes the stop channel and replaces it at once: only a goroutine  *)
(* that waits in its select at this moment can see the channel closed.     *)
(***************************************************************************)
Stop ==
  /\ running
  /\ Trouble
  /\ stops' = stops + 1
  /\ worker' = IF worker.pc = "select" THEN [worker EXCEPT !.stopped = TRUE] ELSE worker
  /\ UNCHANGED <<stores, call, tasks, queue, running, metrics, calls,
                 adds, removes, faults, history>>

\* processQueue sees the stop channel closed, and later clears isRunning.
WorkerStop ==
  /\ worker.pc = "select" /\ worker.stopped
  /\ worker' = [pc |-> "stopping"]
  /\ UNCHANGED <<stores, call, tasks, queue, running, metrics,
                 counters, history>>

WorkerExit ==
  /\ worker.pc = "stopping"
  /\ worker' = NoWorker
  /\ running' = FALSE
  /\ UNCHANGED <<stores, call, tasks, queue, metrics, counters, history>>

\* The ticker fires; then, under the lock, the head of the queue is taken.
WorkerTick ==
  /\ worker.pc = "select"
  /\ worker' = [pc |-> "peek"]
  /\ UNCHANGED <<stores, call, tasks, queue, running, metrics,
                 counters, history>>

\* processRebalanceTask marks the task running, whatever it was marked before.
WorkerBegin ==
  /\ worker.pc = "peek"
  /\ \/ queue = <<>> /\ worker' = Select /\ UNCHANGED tasks
     \/ /\ queue # <<>>
        /\ worker' = [pc |-> "plan", task |-> Head(queue)]
        /\ tasks' = SetStatus(Head(queue), "running")
  /\ UNCHANGED <<stores, call, queue, running, metrics, counters, history>>

Verify(w) == [pc |-> "verify", task |-> w.task, todo |-> shards]

\* planMigrations: every shard is a source when there is another one.
WorkerPlan ==
  /\ worker.pc = "plan"
  /\ worker' = [pc |-> "migrate", task |-> worker.task,
                plan |-> IF Cardinality(shards) > 1 THEN shards ELSE {}]
  /\ UNCHANGED <<stores, call, tasks, queue, running, metrics,
                 counters, history>>

\* Mutant: what the ring places elsewhere is deleted, copied or not.
CleanupOldShardDeletes(f) ==
  [s \in Nodes |-> {e \in f[s] : Owner(Pubkey[e]) = s}]

\* CleanupOldShard only records that it ran.
CleanupOldShard(f) == f

\* RecordEventFailed or RecordEventSkipped.
RecordEvent(t) == tasks' = [tasks EXCEPT ![t].failures = TRUE]

(***************************************************************************)
(* MigrateEventsForShard for the next source of the plan.  The filter of   *)
(* its query names a limit and nothing else; the compiler finds no index   *)
(* for it, and the scan it falls back to is not implemented and returns no *)
(* event.  So the loop over the events found never runs: nothing is copied *)
(* and nothing recorded.  A source that was removed fails the task; one    *)
(* that does not answer is recorded and passed over.                       *)
(***************************************************************************)
MigrateShard(s) ==
  /\ worker.pc = "migrate" /\ ~DryRun
  /\ s \in worker.plan
  /\ LET next == [worker EXCEPT !.plan = @ \ {s}]
     IN  \/ /\ s \in open
            /\ worker' = next
            /\ UNCHANGED <<tasks, faults>>
         \/ /\ s \in shards
            /\ \/ s \notin open /\ UNCHANGED faults
               \/ Fault
            /\ worker' = next
            /\ RecordEvent(worker.task)
         \/ /\ s \notin shards
            /\ worker' = [pc |-> "finish", task |-> worker.task]
            /\ tasks' = SetStatus(worker.task, "failed")
            /\ UNCHANGED faults
  /\ UNCHANGED <<stores, call, queue, running, metrics, calls, adds, removes,
                 stops, history>>

\* Every source was scanned (or this is a dry run): verification begins.
MigrateEnd ==
  /\ worker.pc = "migrate"
  /\ worker.plan = {} \/ DryRun
  /\ worker' = Verify(worker)
  /\ IF DryRun THEN RecordEvent(worker.task) ELSE UNCHANGED tasks
  /\ UNCHANGED <<stores, call, queue, running, metrics, counters, history>>

(***************************************************************************)
(* VerifyMigration asks each shard of a snapshot for a sample, with a      *)
(* filter like MigrateShard's: a shard that answers returns no event, and  *)
(* there is nothing to find wrong.                                         *)
(***************************************************************************)
VerifyShard(s) ==
  /\ worker.pc = "verify"
  /\ s \in worker.todo
  /\ worker' = [worker EXCEPT !.todo = @ \ {s}]
  /\ \/ s \in open /\ UNCHANGED <<tasks, faults>>
     \/ /\ \/ s \notin open /\ UNCHANGED faults
           \/ Fault
        /\ RecordEvent(worker.task)
  /\ UNCHANGED <<stores, call, queue, running, metrics, calls, adds, removes,
                 stops, history>>

(***************************************************************************)
(* The verification reports success; CleanupOldShard, which follows,       *)
(* deletes nothing.  The task is completed even if it was cancelled        *)
(* meanwhile.                                                              *)
(***************************************************************************)
VerifyEnd ==
  /\ worker.pc = "verify" /\ worker.todo = {}
  /\ tasks' = SetStatus(worker.task, "completed")
  /\ held' = CleanupOldShard(held)
  /\ worker' = [pc |-> "finish", task |-> worker.task]
  /\ UNCHANGED <<shards, inst, open, ring, call, queue, running, metrics,
                 counters, history>>

\* Mutant: only completed tasks leave the queue.
WorkerFinishKeepsFailed ==
  /\ worker.pc = "finish"
  /\ LET st == tasks[worker.task].status
     IN  /\ metrics' = [metrics EXCEPT
                          !.completed = IF st = "completed" THEN @ + 1 ELSE @,
                          !.failed    = IF st = "failed" THEN @ + 1 ELSE @]
         /\ queue' = IF st = "completed" THEN Tail(queue) ELSE queue
  /\ worker' = Select
  /\ UNCHANGED <<stores, call, tasks, running, counters, history>>

\* Back in processQueue, under the lock: count the task and drop it.
WorkerFinish ==
  /\ worker.pc = "finish"
  /\ LET st == tasks[worker.task].status
     IN  /\ metrics' = [metrics EXCEPT
                          !.completed = IF st = "completed" THEN @ + 1 ELSE @,
                          !.failed    = IF st = "failed" THEN @ + 1 ELSE @]
         /\ queue' = IF st \in {"completed", "failed"} THEN Tail(queue) ELSE queue
  /\ worker' = Select
  /\ UNCHANGED <<stores, call, tasks, running, counters, history>>

-----------------------------------------------------------------------------
ClientStep ==
  \/ \E c \in Clients, e \in Events :
       \/ InsertRoute(c, e) \/ InsertBatchRoute(c, e)
       \/ DeleteStart(c, e) \/ GetByIDStart(c, e)
  \/ \E c \in Clients, E \in SUBSET Events :
       Cardinality(E) > 1 /\ (InsertBatchStart(c, E) \/ DeleteEventsStart(c, E))
  \/ \E c \in Clients, A \in Filters, n \in Limits : QueryStart(c, A, n)
  \/ \E c \in Clients, a \in Keys : QueryRoute(c, a)
  \/ \E c \in Clients : Insert(c) \/ QueryEnd(c)
  \/ \E c \in Clients, s \in Nodes : InsertBatch(c, s)
  \/ \E c \in Clients : \E s \in Nodes : \E k \in 1 .. inst[s] :
       LET r == <<s, k>>
       IN  Delete(c, r) \/ DeleteEvents(c, r) \/ GetByID(c, r) \/ QueryShard(c, r)

AdminStep ==
  \/ \E s \in Nodes : AddShard(s) \/ RemoveShard(s)
  \/ Close
  \/ StartRebalance \/ CancelCurrentTask \/ Stop

WorkerStep ==
  \/ WorkerStop \/ WorkerExit \/ WorkerTick \/ WorkerBegin \/ WorkerPlan
  \/ \E s \in Nodes : MigrateShard(s) \/ VerifyShard(s)
  \/ MigrateEnd \/ VerifyEnd \/ WorkerFinish

Next == ClientStep \/ AdminStep \/ WorkerStep

Spec == Init /\ [][Next]_vars

\* The goroutine runs: Go schedules it, and its ticker keeps firing.
FairSpec == Spec /\ WF_vars(WorkerStep)

-----------------------------------------------------------------------------
(* Correctness *)

TypeOK ==
  /\ shards \subseteq Nodes /\ open \subseteq shards
  /\ inst \in [Nodes -> Nat]
  /\ held \in [Nodes -> SUBSET Events]
  /\ ring \in Rings
  /\ DOMAIN call = Clients
  /\ \A i \in DOMAIN queue : queue[i] \in DOMAIN tasks
  /\ running \in BOOLEAN
  /\ acked \subseteq Events /\ gone \subseteq Events

(***************************************************************************)
(* Every author is routed to a registered shard as long as there is one    *)
(* (GetShardByPubkey never reports a shard the ring names but the store    *)
(* does not have), after any history of added and removed shards.          *)
(***************************************************************************)
RingRoutes == shards # {} => \A a \in Keys : Registered(a)

(***************************************************************************)
(* Consistent hashing moves no author it need not move ("only a small      *)
(* fraction of keys need to be remapped", hash_ring.go): adding a shard    *)
(* moves authors only to it, removing one moves only its own authors.      *)
(***************************************************************************)
MinimalRemap ==
  [][\A a \in Keys, s \in Nodes :
       /\ (shards # {} /\ shards' = shards \cup {s} =>
             GetNode(ring', a) \in {GetNode(ring, a), s})
       /\ (shards' # {} /\ shards' = shards \ {s} /\ GetNode(ring, a) # s =>
             GetNode(ring', a) = GetNode(ring, a))]_vars

(***************************************************************************)
(* An acknowledged event that no delete reached stays on a registered      *)
(* shard through every rebalance, cancelled, failing or complete, and so   *)
(* GetByID, which asks them all, can find it.                              *)
(***************************************************************************)
NothingLost == \A e \in acked : \E s \in shards : e \in held[s]

(***************************************************************************)
(* What migration.go:34 says of MigrateEventsForShard, "migrates all       *)
(* events that belong to a different shard in the new ring": once a        *)
(* rebalance task is completed without a recorded failure and the shards   *)
(* are still those it started with, every event that was acknowledged when *)
(* the task started is on the shard the ring names, where a query by       *)
(* author looks for it.  It does not hold: the scan yields no event.       *)
(***************************************************************************)
OwnerHolds ==
  \A t \in DOMAIN tasks :
    /\ tasks[t].status = "completed" /\ ~tasks[t].failures
    /\ tasks[t].topology = Topology
    => \A e \in tasks[t].covered : e \in held[Owner(Pubkey[e])]

(***************************************************************************)
(* A federated query whose shards all answered returns every event that    *)
(* was on them from start to end, or else a full page of events none of    *)
(* which is older; newest first, and each event once if the store removes  *)
(* duplicates.                                                             *)
(***************************************************************************)
QueryComplete ==
  \A c \in Clients :
    Answered(c) =>
      LET res == Answer(c)
      IN  /\ \A i, j \in DOMAIN res : i < j =>
               Newer(res[i], res[j]) \/ (~EnableDedupe /\ res[i] = res[j])
          /\ \A e \in call[c].must :
               \/ e \in Range(res)
               \/ /\ Len(res) = call[c].limit
                  /\ \A i \in DOMAIN res : CreatedAt[res[i]] >= CreatedAt[e]

(***************************************************************************)
(* DeleteEvents reaches every copy: an event it removed while nobody was   *)
(* writing that event is on no registered shard, and nothing that follows  *)
(* but another insert brings it back.                                      *)
(***************************************************************************)
DeletedEverywhere == \A e \in gone, s \in shards : e \notin held[s]

(***************************************************************************)
(* No task is dropped or counted twice: every task the rebalancer started  *)
(* is in the queue or was counted as completed or as failed.               *)
(***************************************************************************)
TasksCounted ==
  Len(tasks) = metrics.completed + metrics.failed + Len(queue)

(***************************************************************************)
(* A task that is running ends, unless somebody stops the rebalancer: the  *)
(* next StartRebalance is not refused for ever.                            *)
(***************************************************************************)
TaskEnds == IsRebalancing ~> (~IsRebalancing \/ stops > 0)
=============================================================================
