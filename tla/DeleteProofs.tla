---------------------------- MODULE DeleteProofs ----------------------------
(* What DeleteEvents leaves behind, proved for every set of shards, clients *)
(* and events.                                                              *)
EXTENDS ShardStoreProofs

-----------------------------------------------------------------------------
(* Deleted events.                                                          *)

(* A call is about to write e.                                              *)
Busy(e) == \E c \in Clients : call[c].op \in {"insert", "batch"} /\ e \in call[c].events

(* The registered shards that hold e.                                       *)
Copies(e) == {Ref(s) : s \in {x \in shards : e \in held[x]}}

(* A DeleteEvents that no write and no failure has disturbed.               *)
Clean(q) == q.op = "deleteAll" /\ q.clean

(* A batch still has to route and write exactly the events it names.        *)
Whole(q) == q.op = "batch" => DOMAIN q.batches \cup q.route = q.events

DeleteInv ==
  /\ \A c \in Clients : Whole(call[c])
  /\ \A e \in gone : ~Busy(e) /\ Copies(e) = {}
  /\ \A c \in Clients : Clean(call[c]) =>
       \A e \in call[c].events : ~Busy(e) /\ Copies(e) \subseteq call[c].todo

LEMMA DeleteFrame ==
  ASSUME DeleteInv, NEW B,
         \A e : ~Busy(e) /\ e \notin B => ~Busy(e)' /\ Copies(e)' \subseteq Copies(e),
         \A e \in gone' : (e \in gone /\ e \notin B) \/ (~Busy(e)' /\ Copies(e)' = {}),
         \A c \in Clients : Clean(call'[c]) =>
           \A e \in call'[c].events :
             \/ /\ e \notin B
                /\ Clean(call[c]) /\ e \in call[c].events /\ call[c].todo \subseteq call'[c].todo
             \/ ~Busy(e)' /\ Copies(e)' \subseteq call'[c].todo,
         \A c \in Clients : Whole(call'[c])
  PROVE  DeleteInv'
<1>1. ASSUME NEW e \in gone' PROVE ~Busy(e)' /\ Copies(e)' = {}
  BY DEF DeleteInv
<1>2. ASSUME NEW c \in Clients, Clean(call'[c]), NEW e \in call'[c].events
      PROVE  ~Busy(e)' /\ Copies(e)' \subseteq call'[c].todo
  BY <1>2 DEF DeleteInv
<1>3. \A c \in Clients : Clean(call[c])' <=> Clean(call'[c])
  BY DEF Clean
<1>4. \A c \in Clients : Whole(call[c])'
  BY DEF Whole
<1> QED BY <1>1, <1>2, <1>3, <1>4 DEF DeleteInv

-----------------------------------------------------------------------------
(* Steps that write nothing new.                                            *)

(* The call q that p became writes no more, and deletes as much.            *)
Calmer(p, q) ==
  /\ q.op \in {"insert", "batch"} =>
       p.op \in {"insert", "batch"} /\ q.events \subseteq p.events
  /\ Whole(p) => Whole(q)
  /\ Clean(q) => Clean(p) /\ q.events = p.events /\ q.todo = p.todo

LEMMA CalmerOrder ==
  /\ \A p : Calmer(p, p)
  /\ \A p, q : q.op \in {"idle", "delete", "get", "query"} => Calmer(p, q)
  /\ \A p, q, r : Calmer(p, q) /\ Calmer(q, r) => Calmer(p, r)
BY DEF Calmer, Whole, Clean

LEMMA ForgetCalmer ==
  ASSUME CallTypes, NEW E, NEW c \in Clients
  PROVE  Calmer(call[c], Forget(E)[c])
<1>1. CASE call[c].op # "query"
  BY <1>1, ForgetCalls, CalmerOrder
<1>2. CASE call[c].op = "query"
  <2>1. Forget(E)[c] = [call[c] EXCEPT !.must = @ \ E] /\ call[c] \in Querying
    BY <1>2, ForgetCalls, CallFields DEF CallTypes
  <2>2. Forget(E)[c].op = "query"
    BY <2>1 DEF Querying
  <2> QED BY <2>2, CalmerOrder
<1> QED BY <1>1, <1>2

LEMMA SpoilCalmer ==
  ASSUME NEW f \in [Clients -> Call], NEW E, NEW c \in Clients
  PROVE  /\ Calmer(f[c], Spoil(f, E)[c])
         /\ Clean(Spoil(f, E)[c]) => Spoil(f, E)[c].events \cap E = {}
<1>1. CASE f[c].op # "deleteAll"
  <2>1. Spoil(f, E)[c] = f[c]
    BY <1>1 DEF Spoil
  <2>2. ~Clean(f[c])
    BY <1>1 DEF Clean
  <2> QED BY <2>1, <2>2, CalmerOrder
<1>2. CASE f[c].op = "deleteAll" /\ f[c].events \cap E = {}
  <2>1. Spoil(f, E)[c] = f[c]
    BY <1>2 DEF Spoil
  <2> QED BY <1>2, <2>1, CalmerOrder
<1>3. CASE f[c].op = "deleteAll" /\ f[c].events \cap E # {}
  <2>1. Spoil(f, E)[c] = [f[c] EXCEPT !.clean = FALSE] /\ f[c] \in Deleting
    BY <1>3, CallFields DEF Spoil
  <2>2. Spoil(f, E)[c].op = "deleteAll" /\ Spoil(f, E)[c].clean = FALSE
    BY <2>1 DEF Deleting
  <2>3. ~Clean(Spoil(f, E)[c]) /\ Whole(Spoil(f, E)[c])
    BY <2>2 DEF Clean, Whole
  <2> QED BY <2>2, <2>3 DEF Calmer
<1> QED BY <1>1, <1>2, <1>3

(* The calls become calmer.                                                 *)
Calm == \A c \in Clients : Calmer(call[c], call'[c])

(* A copy of e that is there after the step was there before.               *)
NoNewCopy(e) ==
  \A s \in shards' : e \in held'[s] => s \in shards /\ e \in held[s] /\ inst'[s] = inst[s]

LEMMA CopiesKept ==
  ASSUME NEW e, NoNewCopy(e)
  PROVE  Copies(e)' \subseteq Copies(e)
BY DEF Copies, Ref, NoNewCopy

LEMMA BusyKept ==
  ASSUME Calm, NEW e, ~Busy(e)
  PROVE  ~Busy(e)'
BY DEF Calm, Calmer, Busy

LEMMA DeleteKept ==
  ASSUME DeleteInv, Calm, gone' = gone, \A e : Busy(e) \/ NoNewCopy(e)
  PROVE  DeleteInv'
<1> DEFINE B == {}
<1>1. \A e : ~Busy(e) /\ e \notin B => ~Busy(e)' /\ Copies(e)' \subseteq Copies(e)
  BY BusyKept, CopiesKept
<1>2. \A e \in gone' : e \in gone /\ e \notin B
  OBVIOUS
<1>3. \A c \in Clients : Clean(call'[c]) =>
        \A e \in call'[c].events :
          e \notin B /\ Clean(call[c]) /\ e \in call[c].events /\ call[c].todo \subseteq call'[c].todo
  BY DEF Calm, Calmer
<1>4. \A c \in Clients : Whole(call'[c])
  BY DEF Calm, Calmer, DeleteInv
<1> HIDE DEF B
<1> QED BY <1>1, <1>2, <1>3, <1>4, DeleteFrame, Zenon
-----------------------------------------------------------------------------
(* DeleteInv holds.                                                         *)

(* Calls that read, end, or start to read or delete.                        *)
LEMMA DeleteReads ==
  ASSUME TypeInv, DeleteInv, NEW c \in Clients, NEW q \in Call,
         call' = [call EXCEPT ![c] = q], Calmer(call[c], q), UNCHANGED <<stores, gone>>
  PROVE  DeleteInv'
<1>1. call \in [Clients -> Call]
  BY DEF TypeInv, CallTypes
<1>2. Calm
  BY <1>1, CalmerOrder DEF Calm
<1>3. \A e : NoNewCopy(e)
  BY DEF NoNewCopy, stores
<1> QED BY <1>2, <1>3, DeleteKept

(* A call that is going to write: its events are no longer deleted ones,    *)
(* and no delete of them in flight is clean.                                *)
LEMMA DeleteRoutes ==
  ASSUME TypeInv, DeleteInv, NEW c \in Clients, NEW E, NEW q \in Call,
         BeginWrite(c, E, q), q.op \in {"insert", "batch"}, q.events = E, Whole(q),
         UNCHANGED stores
  PROVE  DeleteInv'
<1> DEFINE f == [call EXCEPT ![c] = q]
<1>1. call \in [Clients -> Call] /\ f \in [Clients -> Call]
  BY CallSet DEF TypeInv, CallTypes
<1>2. f[c] = q /\ \A d \in Clients : d # c => f[d] = call[d]
  BY <1>1
<1>3. call' = Spoil(f, E) /\ gone' = gone \ E
  BY DEF BeginWrite
<1> HIDE DEF f
<1>4. \A d \in Clients : /\ Calmer(f[d], call'[d])
                         /\ Clean(call'[d]) => call'[d].events \cap E = {}
  BY <1>1, <1>3, SpoilCalmer
<1>5. ASSUME NEW e, ~Busy(e), e \notin E PROVE ~Busy(e)' /\ Copies(e)' \subseteq Copies(e)
  <2>1. \A d \in Clients : call'[d].op \in {"insert", "batch"} => e \notin call'[d].events
    BY <1>2, <1>4, <1>5 DEF Busy, Calmer
  <2>2. ~Busy(e)'
    BY <1>5, <2>1 DEF Busy
  <2>3. NoNewCopy(e)
    BY DEF NoNewCopy, stores
  <2> QED BY <2>2, <2>3, CopiesKept
<1>6. ASSUME NEW d \in Clients, Clean(call'[d]), NEW e \in call'[d].events
      PROVE  /\ e \notin E /\ Clean(call[d]) /\ e \in call[d].events
             /\ call[d].todo \subseteq call'[d].todo
  <2>1. Clean(f[d]) /\ call'[d].events = f[d].events /\ call'[d].todo = f[d].todo /\ e \notin E
    BY <1>4, <1>6 DEF Calmer
  <2>2. ~Clean(q)
    BY DEF Clean
  <2> QED BY <1>2, <2>1, <2>2
<1>7. \A d \in Clients : Whole(call'[d])
  BY <1>2, <1>4 DEF Calmer, DeleteInv
<1>8. \A e \in gone' : e \in gone /\ e \notin E
  BY <1>3
<1> QED BY <1>5, <1>6, <1>7, <1>8, DeleteFrame, Zenon

LEMMA DeleteStarts ==
  ASSUME TypeInv, DeleteInv, NEW c \in Clients, NEW E \in SUBSET Events, DeleteEventsStart(c, E)
  PROVE  DeleteInv'
<1> DEFINE b == ~Writing(E)
           q == [op |-> "deleteAll", events |-> E, todo |-> Refs(shards), clean |-> b]
<1>1. call \in [Clients -> Call] /\ call' = [call EXCEPT ![c] = q]
  BY DEF TypeInv, CallTypes, DeleteEventsStart, Begin
<1>2. UNCHANGED <<shards, inst, held, gone>>
  BY DEF DeleteEventsStart, stores, rebalance, history
<1>3. call'[c] = q /\ \A d \in Clients : d # c => call'[d] = call[d]
  BY <1>1
<1>4. q.op = "deleteAll" /\ q.events = E /\ q.todo = Refs(shards) /\ q.clean = b
  OBVIOUS
<1>5. ASSUME b, NEW e \in E PROVE ~Busy(e)
  BY <1>5 DEF Writing, Busy
<1> HIDE DEF q, b
<1>6. ASSUME NEW e PROVE (~Busy(e) => ~Busy(e)') /\ Copies(e)' = Copies(e)
  <2>1. ~Busy(e) => ~Busy(e)'
    BY <1>2, <1>3, <1>4 DEF Busy
  <2>2. Copies(e)' = Copies(e)
    BY <1>2 DEF Copies, Ref
  <2> QED BY <2>1, <2>2
<1> DEFINE B == {}
<1>7. ASSUME NEW d \in Clients, Clean(call'[d]), NEW e \in call'[d].events
      PROVE  \/ e \notin B /\ Clean(call[d]) /\ e \in call[d].events /\ call[d].todo \subseteq call'[d].todo
             \/ ~Busy(e)' /\ Copies(e)' \subseteq call'[d].todo
  <2>1. CASE d = c
    <3>1. b /\ e \in E
      BY <1>3, <1>4, <1>7, <2>1 DEF Clean
    <3>2. ~Busy(e)'
      BY <1>5, <1>6, <3>1
    <3>3. Copies(e) \subseteq Refs(shards)
      BY DEF Copies, Refs
    <3> QED BY <1>3, <1>4, <1>6, <2>1, <3>2, <3>3
  <2> QED BY <1>3, <1>7, <2>1
<1>8. \A d \in Clients : Whole(call'[d])
  BY <1>3, <1>4 DEF Whole, DeleteInv
<1>9. \A e \in gone' : e \in gone /\ e \notin B
  BY <1>2
<1> HIDE DEF B
<1>10. \A e : ~Busy(e) /\ e \notin B => ~Busy(e)' /\ Copies(e)' \subseteq Copies(e)
  BY <1>6
<1> QED BY <1>7, <1>8, <1>9, <1>10, DeleteFrame, Zenon
(* Inserts write what they announced.                                       *)
LEMMA DeleteInserts ==
  ASSUME TypeInv, DeleteInv, NEW c \in Clients, NEW s \in Nodes, NEW E, NEW q \in Call,
         call[c].op \in {"insert", "batch"}, E \subseteq call[c].events,
         \E W \in SUBSET E : Write(s, W),
         call' = [call EXCEPT ![c] = q] \/ call' = Spoil([call EXCEPT ![c] = q], E),
         Calmer(call[c], q), UNCHANGED <<shards, inst, gone>>
  PROVE  DeleteInv'
<1> DEFINE f == [call EXCEPT ![c] = q]
<1>1. call \in [Clients -> Call] /\ f \in [Clients -> Call] /\ held \in [Nodes -> SUBSET Events]
  BY CallSet DEF TypeInv, CallTypes, StoreTypes
<1>2. f[c] = q /\ \A d \in Clients : d # c => f[d] = call[d]
  BY <1>1
<1> HIDE DEF f
<1>3. \A d \in Clients : Calmer(call[d], f[d])
  BY <1>2, CalmerOrder
<1>4. \A d \in Clients : Calmer(f[d], call'[d])
  BY <1>1, SpoilCalmer, CalmerOrder DEF f
<1>5. Calm
  BY <1>3, <1>4, CalmerOrder DEF Calm
<1>6. ASSUME NEW e, ~Busy(e) PROVE NoNewCopy(e)
  <2>1. e \notin E
    BY <1>6 DEF Busy
  <2>2. shards \subseteq Nodes
    BY DEF TypeInv, RingInv
  <2>3. \A x \in Nodes : e \in held'[x] => e \in held[x]
    BY <1>1, <2>1 DEF Write
  <2> QED BY <2>2, <2>3 DEF NoNewCopy
<1> QED BY <1>5, <1>6, DeleteKept

LEMMA DeleteInsert ==
  ASSUME TypeInv, DeleteInv, NEW c \in Clients, Insert(c)
  PROVE  DeleteInv'
<1> DEFINE E == call[c].events
           r == call[c].at
<1>0. call[c] \in Inserting /\ held \in [Nodes -> SUBSET Events]
  BY CallFields DEF TypeInv, CallTypes, StoreTypes, Insert
<1>1. call[c].op = "insert" /\ r[1] \in Nodes
  BY <1>0 DEF Inserting, Objects
<1>2. /\ call' = Spoil([call EXCEPT ![c] = Idle], E)
      /\ UNCHANGED <<shards, inst, gone>>
  BY DEF Insert, rebalance
<1>3. Idle \in Call /\ Calmer(call[c], Idle)
  BY IdleCall, CalmerOrder DEF Idle
<1>4. \E W \in SUBSET E : Write(r[1], W)
  <2>1. \/ held' = held \/ (\E W \in SUBSET E : Write(r[1], W))
    BY DEF Insert
  <2>2. held' = held => Write(r[1], {})
    BY <1>0, <1>1 DEF Write
  <2> QED BY <2>1, <2>2
<1> HIDE DEF r, E
<1>5. E \subseteq call[c].events
  BY DEF E
<1> QED BY <1>1, <1>2, <1>3, <1>4, <1>5, DeleteInserts

LEMMA DeleteInsertBatch ==
  ASSUME TypeInv, DeleteInv, NEW c \in Clients, NEW s \in Nodes, InsertBatch(c, s)
  PROVE  DeleteInv'
<1> DEFINE B == call[c].batches
           E == {e \in DOMAIN B : B[e] = s}
           D == DOMAIN B \ E
           rest == [e \in D |-> B[e]]
           n == [call[c] EXCEPT !.batches = rest, !.events = D]
           q == IF DOMAIN rest = {} THEN Idle ELSE n
<1>0. call[c] \in Batching /\ held \in [Nodes -> SUBSET Events] /\ call[c].op = "batch"
  BY CallFields DEF TypeInv, CallTypes, StoreTypes, InsertBatch
<1>1. UNCHANGED <<shards, inst, gone>>
  BY DEF InsertBatch, rebalance
<1>2. call[c].route = {} /\ DOMAIN B = call[c].events
  BY <1>0 DEF DeleteInv, Whole, InsertBatch
<1>3. E \subseteq call[c].events
  BY <1>2
<1>4. n \in Call /\ Calmer(call[c], n)
  <2>1. D \in SUBSET Events /\ rest \in [D -> Nodes] /\ DOMAIN rest = D
    BY <1>0 DEF Batching
  <2>2. D \subseteq call[c].events
    BY <1>2
  <2> HIDE DEF D, rest
  <2>3. rest \in UNION {[F -> Nodes] : F \in SUBSET Events}
    BY <2>1
  <2>4. n \in Batching
    BY <1>0, <2>1, <2>3 DEF Batching
  <2>5. n.op = "batch" /\ n.events = D /\ n.batches = rest /\ n.route = {}
    BY <1>0, <1>2 DEF Batching
  <2> HIDE DEF n
  <2>6. Calmer(call[c], n)
    BY <1>0, <2>1, <2>2, <2>5 DEF Calmer, Whole, Clean
  <2> QED BY <2>4, <2>6 DEF Call
<1>5. Idle \in Call /\ Calmer(call[c], Idle)
  BY IdleCall, CalmerOrder DEF Idle
<1>6. \/ call' = Spoil([call EXCEPT ![c] = q], E)
      \/ call' = [call EXCEPT ![c] = Idle]
      \/ call' = Spoil([call EXCEPT ![c] = Idle], E)
  BY Zenon DEF InsertBatch, End
<1>7. \E W \in SUBSET E : Write(s, W)
  <2>1. \/ held' = held \/ Write(s, E) \/ (\E W \in SUBSET E : Write(s, W))
    BY Zenon DEF InsertBatch
  <2>2. held' = held => Write(s, {})
    BY <1>0 DEF Write
  <2> HIDE DEF E
  <2> QED BY <2>1, <2>2
<1> HIDE DEF n, rest, E
<1>8. q \in {Idle, n}
  OBVIOUS
<1> HIDE DEF q
<1> QED BY <1>0, <1>1, <1>3, <1>4, <1>5, <1>6, <1>7, <1>8, DeleteInserts
(* A delete takes copies away and brings none.                              *)
LEMMA ErasedCopies ==
  ASSUME TypeInv, NEW s \in Nodes, NEW W, Erase(s, W), UNCHANGED <<shards, inst>>
  PROVE  \A e : NoNewCopy(e) /\ (e \in W => Copies(e)' \subseteq Copies(e) \ {Ref(s)})
<1>1. shards \subseteq Nodes /\ held \in [Nodes -> SUBSET Events]
  BY DEF TypeInv, RingInv, StoreTypes
<1>2. \A x \in Nodes : held'[x] = IF x = s THEN held[s] \ W ELSE held[x]
  BY <1>1 DEF Erase
<1>3. \A e : NoNewCopy(e)
  BY <1>1, <1>2 DEF NoNewCopy
<1>4. ASSUME NEW e \in W PROVE Ref(s) \notin Copies(e)'
  <2>1. \A x \in shards' : e \in held'[x] => x # s
    BY <1>1, <1>2
  <2> QED BY <2>1 DEF Copies, Ref
<1> QED BY <1>3, <1>4, CopiesKept

LEMMA DeleteDelete ==
  ASSUME TypeInv, DeleteInv, NEW c \in Clients, NEW s \in Nodes, NEW k, Delete(c, <<s, k>>)
  PROVE  DeleteInv'
<1> DEFINE n == [call[c] EXCEPT !.todo = @ \ {<<s, k>>}]
           next(f) == [f EXCEPT ![c] = IF call[c].todo = {<<s, k>>} THEN Idle
                                       ELSE [f[c] EXCEPT !.todo = @ \ {<<s, k>>}]]
<1>0. CallTypes /\ call \in [Clients -> Call] /\ call[c] \in Probing /\ call[c].op = "delete"
  BY CallFields DEF TypeInv, CallTypes, Delete
<1>1. UNCHANGED <<shards, inst, gone>>
  BY DEF Delete
<1>2. n.op = "delete"
  BY <1>0 DEF Probing
<1>3. ASSUME NEW f \in [Clients -> Call], \A d \in Clients : Calmer(call[d], f[d]), f[c] = call[c],
             call' = [f EXCEPT ![c] = Idle] \/ call' = next(f)
      PROVE  Calm
  <2>1. call'[c] = Idle \/ call'[c] = n
    BY <1>3
  <2>2. \A d \in Clients : d # c => call'[d] = f[d]
    BY <1>3
  <2>3. Calmer(call[c], Idle) /\ Calmer(call[c], n)
    <3>1. Idle.op = "idle"
      BY DEF Idle
    <3> HIDE DEF n
    <3> QED BY <1>2, <3>1, CalmerOrder
  <2> HIDE DEF n
  <2> QED BY <1>1, <1>3, <2>1, <2>2, <2>3 DEF Calm
<1>4. ASSUME NEW W
      PROVE  /\ Forget(W) \in [Clients -> Call] /\ Forget(W)[c] = call[c]
             /\ \A d \in Clients : Calmer(call[d], Forget(W)[d])
  BY <1>0, ForgetCalls, ForgetCalmer
<1>5. \/ \E W : Erase(s, W) /\ (call' = [Forget(W) EXCEPT ![c] = Idle] \/ call' = next(Forget(W)))
      \/ held' = held /\ call' = next(call)
  BY DEF Delete
<1> HIDE DEF next, n
<1>6. CASE held' = held /\ call' = next(call)
  <2>1. Calm
    BY <1>0, <1>3, <1>6, CalmerOrder
  <2>2. \A e : NoNewCopy(e)
    BY <1>1, <1>6 DEF NoNewCopy
  <2> QED BY <1>1, <2>1, <2>2, DeleteKept
<1>7. CASE \E W : Erase(s, W) /\ (call' = [Forget(W) EXCEPT ![c] = Idle] \/ call' = next(Forget(W)))
  <2>1. PICK W : Erase(s, W) /\ (call' = [Forget(W) EXCEPT ![c] = Idle] \/ call' = next(Forget(W)))
    BY <1>7
  <2>2. Calm
    BY <1>3, <1>4, <2>1
  <2>3. \A e : NoNewCopy(e)
    BY <1>1, <2>1, ErasedCopies
  <2> QED BY <1>1, <2>2, <2>3, DeleteKept
<1> QED BY <1>5, <1>6, <1>7

(* One shard's answer to DeleteEvents.                                      *)
LEMMA DeleteEventsAnswer ==
  ASSUME TypeInv, NEW c \in Clients, NEW s \in Nodes, NEW k, DeleteEvents(c, <<s, k>>)
  PROVE  LET q == call[c]
             r == <<s, k>>
         IN  /\ q \in Deleting /\ r \in q.todo
             /\ \A d \in Clients : d # c => Calmer(call[d], call'[d])
             /\ call'[c].op \in {"idle", "deleteAll"}
             /\ call'[c].op = "deleteAll" =>
                  /\ call'[c].events = q.events /\ call'[c].todo = q.todo \ {r}
                  /\ call'[c].clean => q.clean
             /\ \/ /\ IsOpen(r) /\ Erase(s, q.events)
                   /\ gone' = gone \/ (q.clean /\ q.todo = {r} /\ gone' = gone \cup q.events)
                \/ /\ (held' = held \/ \E W : Erase(s, W)) /\ gone' = gone
                   /\ Clean(call'[c]) => held' = held /\ s \notin shards
<1> DEFINE q == call[c]
           r == <<s, k>>
           after(f, ok) == [f EXCEPT ![c] =
                              IF q.todo = {r} THEN Idle
                              ELSE [f[c] EXCEPT !.todo = @ \ {r}, !.clean = @ /\ ok]]
<1>0. CallTypes /\ call \in [Clients -> Call] /\ q \in Deleting /\ q.op = "deleteAll" /\ r \in q.todo
  BY CallFields DEF TypeInv, CallTypes, DeleteEvents
<1>1. ASSUME NEW f \in [Clients -> Call], \A d \in Clients : Calmer(call[d], f[d]), f[c] = q,
             NEW ok \in BOOLEAN, call' = after(f, ok)
      PROVE  /\ \A d \in Clients : d # c => Calmer(call[d], call'[d])
             /\ call'[c].op \in {"idle", "deleteAll"}
             /\ call'[c].op = "deleteAll" =>
                  /\ call'[c].events = q.events /\ call'[c].todo = q.todo \ {r}
                  /\ call'[c].clean => q.clean /\ ok
  <2> DEFINE n == [q EXCEPT !.todo = q.todo \ {r}, !.clean = q.clean /\ ok]
  <2>1. \A d \in Clients : d # c => Calmer(call[d], call'[d])
    BY <1>1
  <2>2. call'[c] = Idle \/ call'[c] = n
    BY <1>1
  <2>3. n.op = "deleteAll" /\ n.events = q.events /\ n.todo = q.todo \ {r}
    BY <1>0 DEF Deleting
  <2>4. n.clean = (q.clean /\ ok)
    BY <1>0 DEF Deleting
  <2>5. Idle.op = "idle"
    BY DEF Idle
  <2> HIDE DEF n, q, r
  <2> QED BY <2>1, <2>2, <2>3, <2>4, <2>5
<1>2. ASSUME NEW W
      PROVE  /\ Forget(W) \in [Clients -> Call] /\ Forget(W)[c] = q
             /\ \A d \in Clients : Calmer(call[d], Forget(W)[d])
  BY <1>0, ForgetCalls, ForgetCalmer
<1>3. \A d \in Clients : Calmer(call[d], call[d])
  BY CalmerOrder
<1>4. \/ /\ IsOpen(r) /\ Erase(s, q.events) /\ (\E W : call' = after(Forget(W), TRUE))
         /\ gone' = gone \/ (q.clean /\ q.todo = {r} /\ gone' = gone \cup q.events)
      \/ held' = held /\ gone' = gone /\ call' = after(call, s \notin shards)
      \/ \E W : Erase(s, W) /\ gone' = gone /\ call' = after(Forget(W), FALSE)
  BY DEF DeleteEvents
<1> HIDE DEF after
<1>5. CASE /\ IsOpen(r) /\ Erase(s, q.events) /\ (\E W : call' = after(Forget(W), TRUE))
           /\ gone' = gone \/ (q.clean /\ q.todo = {r} /\ gone' = gone \cup q.events)
  <2> HIDE DEF q, r
  <2> QED BY <1>0, <1>1, <1>2, <1>5 DEF q, r
<1>6. CASE held' = held /\ gone' = gone /\ call' = after(call, s \notin shards)
  <2>1. (s \notin shards) \in BOOLEAN
    OBVIOUS
  <2>2. Clean(call'[c]) => s \notin shards
    BY <1>0, <1>1, <1>3, <1>6, <2>1 DEF Clean
  <2> QED BY <1>0, <1>1, <1>3, <1>6, <2>1, <2>2
<1>7. CASE \E W : Erase(s, W) /\ gone' = gone /\ call' = after(Forget(W), FALSE)
  <2>1. PICK W : Erase(s, W) /\ gone' = gone /\ call' = after(Forget(W), FALSE)
    BY <1>7
  <2>2. ~Clean(call'[c])
    BY <1>0, <1>1, <1>2, <2>1 DEF Clean
  <2> QED BY <1>0, <1>1, <1>2, <2>1, <2>2
<1> QED BY <1>4, <1>5, <1>6, <1>7
LEMMA DeleteDeleteEvents ==
  ASSUME TypeInv, DeleteInv, NEW c \in Clients, NEW s \in Nodes, NEW k, DeleteEvents(c, <<s, k>>)
  PROVE  DeleteInv'
<1> DEFINE q == call[c]
           r == <<s, k>>
<1>1. /\ q \in Deleting /\ r \in q.todo
      /\ \A d \in Clients : d # c => Calmer(call[d], call'[d])
      /\ call'[c].op \in {"idle", "deleteAll"}
      /\ call'[c].op = "deleteAll" =>
           /\ call'[c].events = q.events /\ call'[c].todo = q.todo \ {r}
           /\ call'[c].clean => q.clean
  BY DeleteEventsAnswer
<1>2. \/ /\ IsOpen(r) /\ Erase(s, q.events)
         /\ gone' = gone \/ (q.clean /\ q.todo = {r} /\ gone' = gone \cup q.events)
      \/ /\ (held' = held \/ \E W : Erase(s, W)) /\ gone' = gone
         /\ Clean(call'[c]) => held' = held /\ s \notin shards
  BY DeleteEventsAnswer
<1>3. UNCHANGED <<shards, inst>> /\ q.op = "deleteAll"
  BY DEF DeleteEvents
<1>4. \A e : NoNewCopy(e)
  <2>1. held' = held => \A e : NoNewCopy(e)
    BY <1>3 DEF NoNewCopy
  <2> HIDE DEF q, r
  <2> QED BY <1>2, <1>3, <2>1, ErasedCopies
<1>5. \A e : ~Busy(e) => ~Busy(e)' /\ Copies(e)' \subseteq Copies(e)
  <2>1. \A e : ~Busy(e) => ~Busy(e)'
    BY <1>1, <1>3 DEF Busy, Calmer
  <2> QED BY <1>4, <2>1, CopiesKept
<1>6. ASSUME IsOpen(r), Erase(s, q.events), NEW e \in q.events
      PROVE  Copies(e)' \subseteq Copies(e) \ {r}
  <2>1. Ref(s) = r
    BY <1>6 DEF IsOpen, Ref
  <2>2. Copies(e)' \subseteq Copies(e) \ {Ref(s)}
    BY <1>3, <1>6, ErasedCopies
  <2> QED BY <2>1, <2>2
<1>7. s \notin shards => \A e : r \notin Copies(e)
  BY DEF Copies, Ref
<1>8. Clean(q) => \A e \in q.events : ~Busy(e) /\ Copies(e) \subseteq q.todo
  BY DEF DeleteInv
<1>9. Clean(call'[c]) => Clean(q) /\ call'[c].events = q.events /\ call'[c].todo = q.todo \ {r}
  BY <1>1, <1>3 DEF Clean
<1>10. ~Whole(call'[c]) => FALSE
  BY <1>1 DEF Whole
<1>11. q.clean => Clean(q)
  BY <1>3 DEF Clean
<1> HIDE DEF q, r
<1> DEFINE B == {}
<1>12. \A e \in gone' : (e \in gone /\ e \notin B) \/ (~Busy(e)' /\ Copies(e)' = {})
  <2>1. CASE gone' = gone
    BY <2>1
  <2>2. CASE /\ IsOpen(r) /\ Erase(s, q.events)
             /\ q.clean /\ q.todo = {r} /\ gone' = gone \cup q.events
    BY <1>5, <1>6, <1>8, <1>11, <2>2
  <2> QED BY <1>2, <2>1, <2>2
<1>13. ASSUME NEW d \in Clients, Clean(call'[d]), NEW e \in call'[d].events
       PROVE  \/ /\ e \notin B
                 /\ Clean(call[d]) /\ e \in call[d].events /\ call[d].todo \subseteq call'[d].todo
              \/ ~Busy(e)' /\ Copies(e)' \subseteq call'[d].todo
  <2>1. CASE d # c
    BY <1>1, <1>13, <2>1 DEF Calmer
  <2>2. CASE d = c
    <3>1. Clean(q) /\ e \in q.events /\ call'[c].todo = q.todo \ {r}
      BY <1>9, <1>13, <2>2
    <3>2. ~Busy(e) /\ Copies(e) \subseteq q.todo
      BY <1>8, <3>1
    <3>3. Copies(e)' \subseteq Copies(e) \ {r}
      BY <1>2, <1>5, <1>6, <1>7, <1>13, <2>2, <3>1, <3>2
    <3> QED BY <1>5, <2>2, <3>1, <3>2, <3>3
  <2> QED BY <2>1, <2>2
<1>14. \A d \in Clients : Whole(call'[d])
  BY <1>1, <1>10 DEF Calmer, DeleteInv
<1>15. \A e : ~Busy(e) /\ e \notin B => ~Busy(e)' /\ Copies(e)' \subseteq Copies(e)
  BY <1>5
<1> HIDE DEF B
<1> QED BY <1>12, <1>13, <1>14, <1>15, DeleteFrame, Zenon

(* A step after which the events of B are no longer under watch: no clean   *)
(* delete names them, and they are not deleted ones.                        *)
LEMMA DeleteSpoils ==
  ASSUME TypeInv, DeleteInv, NEW B, call' = Spoil(call, B),
         gone' \subseteq gone, \A e \in gone' : e \notin B,
         \A e : e \in B \/ NoNewCopy(e)
  PROVE  DeleteInv'
<1>1. call \in [Clients -> Call]
  BY DEF TypeInv, CallTypes
<1>2. \A d \in Clients : /\ Calmer(call[d], call'[d])
                         /\ Clean(call'[d]) => call'[d].events \cap B = {}
  BY <1>1, SpoilCalmer
<1>3. ASSUME NEW e, ~Busy(e), e \notin B PROVE ~Busy(e)' /\ Copies(e)' \subseteq Copies(e)
  <2>1. ~Busy(e)'
    BY <1>2, <1>3 DEF Busy, Calmer
  <2> QED BY <1>3, <2>1, CopiesKept
<1>4. ASSUME NEW d \in Clients, Clean(call'[d]), NEW e \in call'[d].events
      PROVE  /\ e \notin B /\ Clean(call[d]) /\ e \in call[d].events
             /\ call[d].todo \subseteq call'[d].todo
  BY <1>2, <1>4 DEF Calmer
<1>5. \A d \in Clients : Whole(call'[d])
  BY <1>2 DEF Calmer, DeleteInv
<1>6. \A e \in gone' : e \in gone /\ e \notin B
  OBVIOUS
<1> QED BY <1>3, <1>4, <1>5, <1>6, DeleteFrame, Zenon
LEMMA DeleteTopology ==
  ASSUME TypeInv, DeleteInv, (\E s \in Nodes : AddShard(s) \/ RemoveShard(s)) \/ Close
  PROVE  DeleteInv'
<1>0. CallTypes /\ shards \subseteq Nodes /\ inst \in [Nodes -> Nat]
  BY DEF TypeInv, RingInv, StoreTypes
<1>1. ASSUME NEW s \in Nodes, AddShard(s) PROVE DeleteInv'
  <2>1. /\ call' = Spoil(call, held[s]) /\ gone' = gone \ held[s]
        /\ shards' = shards \cup {s} /\ inst' = [inst EXCEPT ![s] = @ + 1] /\ held' = held
    BY <1>1 DEF AddShard, rebalance
  <2>2. \A e : e \in held[s] \/ NoNewCopy(e)
    BY <1>0, <2>1 DEF NoNewCopy
  <2> QED BY <2>1, <2>2, DeleteSpoils
<1>2. ASSUME NEW E, call' = Forget(E), shards' \subseteq shards,
             UNCHANGED <<inst, held, gone>>
      PROVE  DeleteInv'
  <2>1. Calm
    BY <1>0, <1>2, ForgetCalmer DEF Calm
  <2>2. \A e : NoNewCopy(e)
    BY <1>2 DEF NoNewCopy
  <2> QED BY <1>2, <2>1, <2>2, DeleteKept
<1>3. ASSUME NEW s \in Nodes, RemoveShard(s) PROVE DeleteInv'
  BY <1>2, <1>3 DEF RemoveShard, rebalance
<1>4. CASE Close
  BY <1>2, <1>4 DEF Close, rebalance, history
<1> QED BY <1>1, <1>3, <1>4

LEMMA DeleteMoves ==
  ASSUME DeleteInv, UNCHANGED <<shards, inst, held, call, gone>>
  PROVE  DeleteInv'
<1>1. Calm
  BY CalmerOrder DEF Calm
<1>2. \A e : NoNewCopy(e)
  BY DEF NoNewCopy
<1> QED BY <1>1, <1>2, DeleteKept

LEMMA DeleteWorker ==
  ASSUME DeleteInv,
         \/ StartRebalance \/ CancelCurrentTask \/ Stop
         \/ WorkerStop \/ WorkerExit \/ WorkerTick \/ WorkerBegin \/ WorkerPlan
         \/ (\E s \in Nodes : MigrateShard(s) \/ VerifyShard(s))
         \/ MigrateEnd \/ VerifyEnd \/ WorkerFinish
  PROVE  DeleteInv'
<1>1. UNCHANGED <<shards, inst, held, call, gone>>
  BY DEF StartRebalance, CancelCurrentTask, Stop, WorkerStop, WorkerExit, WorkerTick,
         WorkerBegin, WorkerPlan, MigrateShard, VerifyShard, MigrateEnd, VerifyEnd,
         CleanupOldShard, WorkerFinish, stores, history
<1> QED BY <1>1, DeleteMoves

LEMMA DeleteClients ==
  ASSUME TypeInv, DeleteInv, NEW c \in Clients,
         \/ \E e \in Events : InsertRoute(c, e) \/ DeleteStart(c, e) \/ GetByIDStart(c, e)
         \/ \E E \in SUBSET Events : InsertBatchStart(c, E)
         \/ \E e \in Events : InsertBatchRoute(c, e)
         \/ \E a \in Keys : QueryRoute(c, a)
         \/ \E A \in Filters, n \in Limits : QueryStart(c, A, n)
         \/ QueryEnd(c)
         \/ \E s \in Nodes : \E k \in 1 .. inst[s] : GetByID(c, <<s, k>>) \/ QueryShard(c, <<s, k>>)
  PROVE  DeleteInv'
<1>0. RingInv /\ StoreTypes /\ CallTypes /\ CallTypes' /\ call \in [Clients -> Call]
  <2>1. RingInv /\ StoreTypes /\ CallTypes
    BY DEF TypeInv
  <2>2. CASE \/ \E e \in Events : InsertRoute(c, e)
             \/ \E E \in SUBSET Events : InsertBatchStart(c, E)
             \/ \E e \in Events : InsertBatchRoute(c, e)
    BY <2>1, <2>2, RouteTypes DEF CallTypes
  <2>3. CASE \/ \E e \in Events : DeleteStart(c, e) \/ GetByIDStart(c, e)
             \/ \E A \in Filters, n \in Limits : QueryStart(c, A, n)
    BY <2>1, <2>3, StartTypes DEF Starts, CallTypes
  <2>4. CASE QueryEnd(c)
    BY <2>1, <2>4, IdleCall, CallSet DEF QueryEnd, End, CallTypes
  <2>5. CASE \E s \in Nodes : \E k \in 1 .. inst[s] : GetByID(c, <<s, k>>) \/ QueryShard(c, <<s, k>>)
    BY <2>1, <2>5, AskedTypes DEF CallTypes
  <2>6. CASE \E a \in Keys : QueryRoute(c, a)
    <3>1. PICK q \in Querying : call' = [call EXCEPT ![c] = q]
      BY <2>1, <2>6, QueryRouted, Zenon
    <3>2. q \in Call
      BY DEF Call
    <3> QED BY <2>1, <3>1, <3>2, CallSet DEF CallTypes
  <2> QED BY <2>1, <2>2, <2>3, <2>4, <2>5, <2>6 DEF CallTypes
<1>1. ASSUME NEW q, call' = [call EXCEPT ![c] = q], UNCHANGED <<stores, gone>>,
             q.op \in {"idle", "delete", "get", "query"}
      PROVE  DeleteInv'
  <2>1. q = call'[c]
    BY <1>0, <1>1
  <2>2. q \in Call
    BY <1>0, <2>1 DEF CallTypes
  <2>3. Calmer(call[c], q)
    BY <1>1, CalmerOrder
  <2> QED BY <1>1, <2>2, <2>3, DeleteReads
<1>2. ASSUME NEW e \in Events, InsertRoute(c, e) PROVE DeleteInv'
  <2> DEFINE q == [op |-> "insert", events |-> {e}, at |-> Ref(Owner(Pubkey[e]))]
  <2>1. BeginWrite(c, {e}, q) /\ UNCHANGED stores
    BY <1>2 DEF InsertRoute, rebalance
  <2>2. q.op = "insert" /\ q.events = {e}
    OBVIOUS
  <2>3. q \in Call
    <3>1. Owner(Pubkey[e]) \in Nodes
      BY <1>0, <1>2 DEF InsertRoute, Registered, Owner, RingInv
    <3>2. Ref(Owner(Pubkey[e])) \in Objects
      BY <1>0, <3>1 DEF Ref, Objects, StoreTypes
    <3> QED BY <3>2 DEF Call, Inserting
  <2> HIDE DEF q
  <2>4. Whole(q)
    BY <2>2 DEF Whole
  <2> QED BY <2>1, <2>2, <2>3, <2>4, DeleteRoutes
<1>3. ASSUME NEW E \in SUBSET Events, InsertBatchStart(c, E) PROVE DeleteInv'
  <2> DEFINE B == [e \in {} |-> NoNode]
             q == [op |-> "batch", events |-> E, route |-> E, batches |-> B]
  <2>1. BeginWrite(c, E, q) /\ UNCHANGED stores
    BY <1>3 DEF InsertBatchStart
  <2>2. q.op = "batch" /\ q.events = E /\ q.batches = B /\ q.route = E
    OBVIOUS
  <2>3. B \in [{} -> Nodes] /\ DOMAIN B = {}
    OBVIOUS
  <2> HIDE DEF B
  <2>4. q \in Call
    BY <2>3 DEF Call, Batching
  <2> HIDE DEF q
  <2>5. Whole(q)
    BY <2>2, <2>3 DEF Whole
  <2> QED BY <2>1, <2>2, <2>4, <2>5, DeleteRoutes
<1>4. ASSUME NEW e \in Events, DeleteStart(c, e) \/ GetByIDStart(c, e) PROVE DeleteInv'
  <2>1. PICK x \in {"delete", "get"} :
          call' = [call EXCEPT ![c] = [op |-> x, events |-> {e}, todo |-> Refs(shards)]]
    BY <1>4 DEF DeleteStart, GetByIDStart, Begin
  <2>2. UNCHANGED <<stores, gone>>
    BY <1>4 DEF DeleteStart, GetByIDStart, rebalance, history
  <2> QED BY <1>1, <2>1, <2>2
<1>5. ASSUME NEW A \in Filters, NEW n \in Limits, QueryStart(c, A, n) PROVE DeleteInv'
  <2>1. PICK q : call' = [call EXCEPT ![c] = q] /\ q.op = "query"
    <3>1. PICK T, m : call' = [call EXCEPT ![c] =
               [op |-> "query", authors |-> A, limit |-> n, route |-> A, todo |-> T,
                all |-> <<>>, must |-> m]]
      BY <1>5, Zenon DEF QueryStart, Begin
    <3> DEFINE r == [op |-> "query", authors |-> A, limit |-> n, route |-> A, todo |-> T,
                     all |-> <<>>, must |-> m]
    <3>2. call' = [call EXCEPT ![c] = r] /\ r.op = "query"
      BY <3>1
    <3> HIDE DEF r
    <3> QED BY <3>2
  <2>2. UNCHANGED <<stores, gone>>
    BY <1>5 DEF QueryStart, rebalance, history
  <2> QED BY <1>1, <2>1, <2>2
<1>6. CASE QueryEnd(c)
  <2>1. call' = [call EXCEPT ![c] = Idle] /\ UNCHANGED <<stores, gone>> /\ Idle.op = "idle"
    BY <1>6 DEF QueryEnd, End, Idle, rebalance, history
  <2> QED BY <1>1, <2>1
<1>7. ASSUME NEW s \in Nodes, NEW k \in 1 .. inst[s], GetByID(c, <<s, k>>) PROVE DeleteInv'
  <2> DEFINE n == [call[c] EXCEPT !.todo = @ \ {<<s, k>>}]
  <2>1. call' = [call EXCEPT ![c] = Idle] \/ call' = [call EXCEPT ![c] = n]
    BY <1>7, Zenon DEF GetByID
  <2>2. n.op = "get" /\ Idle.op = "idle"
    <3>1. call[c] \in Probing /\ call[c].op = "get"
      BY <1>0, <1>7, CallFields DEF GetByID
    <3> QED BY <3>1 DEF Probing, Idle
  <2>3. UNCHANGED <<stores, gone>>
    BY <1>7 DEF GetByID, rebalance, history
  <2> HIDE DEF n
  <2> QED BY <1>1, <2>1, <2>2, <2>3
<1>8. ASSUME NEW s \in Nodes, NEW k \in 1 .. inst[s], QueryShard(c, <<s, k>>) PROVE DeleteInv'
  <2>1. PICK n \in Querying : call' = [call EXCEPT ![c] = n]
    BY <1>0, <1>8, AnsweredQuery, Zenon
  <2>2. n.op = "query"
    BY DEF Querying
  <2>3. UNCHANGED <<stores, gone>>
    BY <1>8 DEF QueryShard, rebalance, history
  <2> QED BY <1>1, <2>1, <2>2, <2>3
<1>9. ASSUME NEW a \in Keys, QueryRoute(c, a) PROVE DeleteInv'
  <2>1. PICK n \in Querying : call' = [call EXCEPT ![c] = n]
    BY <1>0, <1>9, QueryRouted, Zenon
  <2>2. n.op = "query"
    BY DEF Querying
  <2>3. UNCHANGED <<stores, gone>>
    BY <1>9 DEF QueryRoute, history
  <2> QED BY <1>1, <2>1, <2>2, <2>3
<1>10. ASSUME NEW e \in Events, InsertBatchRoute(c, e) PROVE DeleteInv'
  <2> DEFINE q == call[c]
             B == call[c].batches
             C == [d \in DOMAIN B \cup {e} |-> IF d = e THEN Owner(Pubkey[e]) ELSE B[d]]
             n == [q EXCEPT !.route = q.route \ {e}, !.batches = C]
  <2>1. /\ q \in Batching /\ e \in q.route
        /\ \/ call' = [call EXCEPT ![c] = Idle]
           \/ n \in Batching /\ call' = [call EXCEPT ![c] = n]
    BY <1>0, <1>10, BatchRouted
  <2>2. UNCHANGED <<stores, gone>>
    BY <1>10 DEF InsertBatchRoute, history
  <2>3. Idle.op = "idle"
    BY DEF Idle
  <2>4. /\ n.op = "batch" /\ n.events = q.events /\ q.op = "batch"
        /\ n.route = q.route \ {e} /\ n.batches = C
    BY <2>1 DEF Batching
  <2>5. DOMAIN C = DOMAIN B \cup {e}
    OBVIOUS
  <2>6. q.batches = B
    OBVIOUS
  <2> HIDE DEF n, q, B, C
  <2>7. Whole(q) => Whole(n)
    BY <2>1, <2>4, <2>5, <2>6 DEF Whole
  <2>8. Calmer(q, n)
    BY <2>4, <2>7 DEF Calmer, Clean
  <2>9. CASE n \in Batching /\ call' = [call EXCEPT ![c] = n]
    BY <2>2, <2>8, <2>9, DeleteReads DEF Call, q
  <2> QED BY <1>1, <2>1, <2>2, <2>3, <2>9
<1> QED BY <1>2, <1>3, <1>4, <1>5, <1>6, <1>7, <1>8, <1>9, <1>10

LEMMA DeleteInvStep ==
  ASSUME TypeInv, DeleteInv, [Next]_vars
  PROVE  DeleteInv'
<1>1. CASE UNCHANGED vars
  BY <1>1, DeleteMoves DEF vars, stores, rebalance, history
<1>2. CASE Starts
  <2>1. CASE \E c \in Clients, E \in SUBSET Events : DeleteEventsStart(c, E)
    BY <2>1, DeleteStarts
  <2> QED BY <1>2, <2>1, DeleteClients DEF Starts
<1>3. CASE \/ \E c \in Clients, e \in Events : InsertRoute(c, e)
           \/ \E c \in Clients, E \in SUBSET Events : InsertBatchStart(c, E)
           \/ \E c \in Clients, e \in Events : InsertBatchRoute(c, e)
           \/ \E c \in Clients, a \in Keys : QueryRoute(c, a)
  BY <1>3, DeleteClients
<1>4. CASE \E c \in Clients : Insert(c) \/ QueryEnd(c)
  BY <1>4, DeleteClients, DeleteInsert
<1>5. CASE \E c \in Clients, s \in Nodes : InsertBatch(c, s)
  BY <1>5, DeleteInsertBatch
<1>6. CASE \E c \in Clients, s \in Nodes : \E k \in 1 .. inst[s] :
             \/ Delete(c, <<s, k>>) \/ DeleteEvents(c, <<s, k>>)
             \/ GetByID(c, <<s, k>>) \/ QueryShard(c, <<s, k>>)
  BY <1>6, DeleteClients, DeleteDelete, DeleteDeleteEvents
<1> QED BY <1>1, <1>2, <1>3, <1>4, <1>5, <1>6, StepCases, DeleteTopology, DeleteWorker

(* For every number of shards, clients and events, whatever the rebalancer, *)
(* the other callers and failures do meanwhile: an event that a             *)
(* DeleteEvents removed while nobody was writing it, and with every shard   *)
(* that was asked answering or gone, is on no registered shard,             *)
(* until somebody writes it again or a shard that still has it is added.    *)
THEOREM DeletedEverywhereAlways == Spec => []DeletedEverywhere
<1>1. Init => DeleteInv
  <2>1. Init => gone = {} /\ \A c \in Clients : call[c] = Idle
    BY DEF Init
  <2>2. Whole(Idle) /\ ~Clean(Idle)
    BY DEF Whole, Clean, Idle
  <2> QED BY <2>1, <2>2 DEF DeleteInv
<1>2. (TypeInv /\ QueueInv) /\ DeleteInv /\ [Next]_vars => DeleteInv'
  BY DeleteInvStep
<1>3. DeleteInv => DeletedEverywhere
  BY DEF DeleteInv, Copies, DeletedEverywhere
<1> QED BY <1>1, <1>2, <1>3, TypesAlways, PTL DEF Spec
=============================================================================
