-------------------------- MODULE ShardStoreProofs --------------------------
(* Routing and durability of the sharded store, proved for every set of     *)
(* shards, clients, authors and events and every ring with distinct hashes; *)
(* and what every step does to the calls and the shards' contents.          *)
EXTENDS ShardStore, TLAPS, FiniteSetTheorems

-----------------------------------------------------------------------------
(* The hash ring, for every set of nodes, every number of virtual nodes and *)
(* every assignment of distinct hashes.                                     *)

(* A non-empty set of hashes has a least element, which is a member.        *)
LEMMA LeastOf ==
  ASSUME NEW S \in SUBSET Hashes, S # {}
  PROVE  Least(S) \in S /\ \A g \in S : Least(S) <= g
<1> DEFINE R == OpToRel(<, Nat)
<1>1. S \subseteq Nat
  BY RingConstants DEF Hashes
<1>2. PICK x \in S : \A y \in S : ~(<<y, x>> \in R)
  <2>1. IsWellFoundedOn(R, Nat) BY NatLessThanWellFounded
  <2> HIDE DEF R
  <2> QED BY <1>1, <2>1, WFMin
<1>3. \A y \in S : ~(y < x)
  BY <1>1, <1>2 DEF OpToRel
<1>4. \A y \in S : x <= y
  BY <1>1, <1>3
<1> QED BY <1>4 DEF Least

(* The successor of a hash among some points is one of them.                *)
LEMMA SuccessorIn ==
  ASSUME NEW S \in SUBSET Hashes, S # {}, NEW x \in Hashes
  PROVE  Successor(S, x) \in S
<1> DEFINE after == {h \in S : h >= x}
<1>1. CASE after = {}
  BY <1>1, LeastOf DEF Successor
<1>2. CASE after # {}
  <2>1. Least(after) \in after
    BY <1>2, LeastOf
  <2> QED BY <1>2, <2>1 DEF Successor
<1> QED BY <1>1, <1>2

(* Points added to a set change a successor only to one of themselves.      *)
LEMMA SuccessorAdded ==
  ASSUME NEW S \in SUBSET Hashes, S # {}, NEW T \in SUBSET Hashes, NEW x \in Hashes,
         Successor(S \cup T, x) \in S
  PROVE  Successor(S \cup T, x) = Successor(S, x)
<1> DEFINE U == S \cup T
           sa == {h \in S : h >= x}
           ua == {h \in U : h >= x}
<1>0. \A h \in U : h \in Int
  BY RingConstants DEF Hashes
<1>1. CASE ua = {}
  <2>1. sa = {}
    BY <1>1
  <2>2. Successor(U, x) = Least(U) /\ Successor(S, x) = Least(S)
    BY <1>1, <2>1 DEF Successor
  <2>3. Least(U) \in S /\ Least(U) \in U /\ \A g \in U : Least(U) <= g
    BY <2>2, LeastOf
  <2>4. Least(S) \in S /\ \A g \in S : Least(S) <= g
    BY LeastOf
  <2>5. Least(U) <= Least(S) /\ Least(S) <= Least(U)
    BY <2>3, <2>4
  <2> QED BY <1>0, <2>2, <2>3, <2>4, <2>5
<1>2. CASE ua # {}
  <2>1. Successor(U, x) = Least(ua)
    BY <1>2 DEF Successor
  <2>2. Least(ua) \in ua /\ \A g \in ua : Least(ua) <= g
    BY <1>2, LeastOf
  <2>3. Least(ua) \in sa
    BY <2>1, <2>2
  <2>4. Successor(S, x) = Least(sa)
    BY <2>3 DEF Successor
  <2>5. Least(sa) \in sa /\ \A g \in sa : Least(sa) <= g
    BY <2>3, LeastOf
  <2>6. Least(ua) <= Least(sa) /\ Least(sa) <= Least(ua)
    BY <2>2, <2>3, <2>5
  <2> QED BY <1>0, <2>1, <2>2, <2>4, <2>5, <2>6
<1> QED BY <1>1, <1>2

(* The points of a node are hashes, and no two nodes share one.             *)
LEMMA PointsDistinct ==
  /\ \A n \in Nodes : Points(n) \in SUBSET Hashes /\ Points(n) # {}
  /\ \A m, n \in Nodes : \A h \in Hashes : h \in Points(m) /\ h \in Points(n) => m = n
<1>1. 0 \in Replicas
  BY RingConstants DEF Replicas
<1> QED BY <1>1, RingConstants, DistinctHashes DEF Points

(* In the ring of the nodes S a hash is present when it is a point of a     *)
(* node of S, and maps to that node.                                        *)
LEMMA RingOfPoints ==
  ASSUME NEW S \in SUBSET Nodes
  PROVE  /\ Present(RingOf(S)) = {h \in Hashes : \E n \in S : h \in Points(n)}
         /\ \A n \in S : \A h \in Hashes : h \in Points(n) => RingOf(S).nodes[h] = n
<1>1. \A h \in Hashes : RingOf(S).count[h] > 0 <=> \E n \in S : h \in Points(n)
  BY DEF RingOf
<1>2. ASSUME NEW n \in S, NEW h \in Hashes, h \in Points(n)
      PROVE  RingOf(S).nodes[h] = n
  <2>1. RingOf(S).nodes[h] = CHOOSE m \in S : h \in Points(m)
    BY <1>2 DEF RingOf
  <2>2. (CHOOSE m \in S : h \in Points(m)) \in S /\ h \in Points(CHOOSE m \in S : h \in Points(m))
    BY <1>2
  <2> QED BY <1>2, <2>1, <2>2, PointsDistinct
<1> QED BY <1>1, <1>2 DEF Present

(* AddNode and RemoveNode keep the ring that of the registered nodes.       *)
LEMMA AddNodeRing ==
  ASSUME NEW S \in SUBSET Nodes, NEW s \in Nodes, s \notin S
  PROVE  AddNode(RingOf(S), s) = RingOf(S \cup {s})
<1> DEFINE A == AddNode(RingOf(S), s)
           B == RingOf(S \cup {s})
<1>1. ASSUME NEW h \in Hashes PROVE A.nodes[h] = B.nodes[h] /\ A.count[h] = B.count[h]
  <2>1. CASE h \in Points(s)
    <3>1. \A n \in S : h \notin Points(n)
      BY <2>1, PointsDistinct
    <3>2. RingOf(S).count[h] = 0
      BY <3>1 DEF RingOf
    <3>3. A.nodes[h] = s /\ A.count[h] = 1
      BY <2>1, <3>2 DEF AddNode
    <3>4. B.nodes[h] = s
      BY <2>1, RingOfPoints
    <3>5. B.count[h] = 1
      BY <2>1 DEF RingOf
    <3> QED BY <3>3, <3>4, <3>5
  <2>2. CASE h \notin Points(s)
    <3>1. A.nodes[h] = RingOf(S).nodes[h] /\ A.count[h] = RingOf(S).count[h]
      BY <2>2 DEF AddNode
    <3>2. CASE \E n \in S : h \in Points(n)
      <4>1. PICK n \in S : h \in Points(n)
        BY <3>2
      <4>2. RingOf(S).nodes[h] = n /\ B.nodes[h] = n
        BY <4>1, RingOfPoints
      <4>3. RingOf(S).count[h] = 1 /\ B.count[h] = 1
        BY <4>1 DEF RingOf
      <4> QED BY <3>1, <4>2, <4>3
    <3>3. CASE ~ \E n \in S : h \in Points(n)
      <4>1. ~ \E n \in S \cup {s} : h \in Points(n)
        BY <2>2, <3>3
      <4> QED BY <3>1, <3>3, <4>1 DEF RingOf
    <3> QED BY <3>2, <3>3
  <2> QED BY <2>1, <2>2
<1> QED BY <1>1 DEF AddNode, RingOf

LEMMA RemoveNodeRing ==
  ASSUME NEW S \in SUBSET Nodes, NEW s \in S
  PROVE  RemoveNode(RingOf(S), s) = RingOf(S \ {s})
<1> DEFINE A == RemoveNode(RingOf(S), s)
           B == RingOf(S \ {s})
<1>1. ASSUME NEW h \in Hashes PROVE A.nodes[h] = B.nodes[h] /\ A.count[h] = B.count[h]
  <2>1. CASE h \in Points(s)
    <3>1. \A n \in S \ {s} : h \notin Points(n)
      BY <2>1, PointsDistinct
    <3>2. RingOf(S).count[h] = 1
      BY <2>1 DEF RingOf
    <3>3. RingOf(S).nodes[h] = s
      BY <2>1, RingOfPoints
    <3>4. A.nodes[h] = NoNode /\ A.count[h] = 0
      BY <3>2, <3>3 DEF RemoveNode
    <3>5. B.nodes[h] = NoNode /\ B.count[h] = 0
      BY <3>1 DEF RingOf
    <3> QED BY <3>4, <3>5
  <2>2. CASE h \notin Points(s)
    <3>1. CASE \E n \in S \ {s} : h \in Points(n)
      <4>1. PICK n \in S \ {s} : h \in Points(n)
        BY <3>1
      <4>2. RingOf(S).nodes[h] = n /\ B.nodes[h] = n
        BY <4>1, RingOfPoints
      <4>3. RingOf(S).count[h] = 1 /\ B.count[h] = 1
        BY <4>1 DEF RingOf
      <4> QED BY <4>1, <4>2, <4>3 DEF RemoveNode
    <3>2. CASE ~ \E n \in S \ {s} : h \in Points(n)
      <4>1. ~ \E n \in S : h \in Points(n)
        BY <2>2, <3>2
      <4>2. RingOf(S).nodes[h] = NoNode /\ RingOf(S).count[h] = 0
        BY <4>1 DEF RingOf
      <4>3. B.nodes[h] = NoNode /\ B.count[h] = 0
        BY <3>2 DEF RingOf
      <4> QED BY <4>2, <4>3 DEF RemoveNode
    <3> QED BY <3>1, <3>2
  <2> QED BY <2>1, <2>2
<1> QED BY <1>1 DEF RemoveNode, RingOf

(* The ring of a non-empty set of nodes sends every key to one of them,     *)
(* namely to the one that has the key's successor among its points.         *)
LEMMA RingOfRoutes ==
  ASSUME NEW S \in SUBSET Nodes, S # {}, NEW k \in Keys
  PROVE  /\ GetNode(RingOf(S), k) \in S
         /\ Present(RingOf(S)) \in SUBSET Hashes /\ Present(RingOf(S)) # {}
         /\ Successor(Present(RingOf(S)), KeyHash[k]) \in Points(GetNode(RingOf(S), k))
<1> DEFINE P == Present(RingOf(S))
           h == Successor(P, KeyHash[k])
<1>1. P \in SUBSET Hashes /\ P # {}
  BY RingOfPoints, PointsDistinct
<1>2. h \in P
  <2>1. KeyHash[k] \in Hashes BY RingConstants
  <2> HIDE DEF P
  <2> QED BY <1>1, <2>1, SuccessorIn
<1>3. PICK n \in S : h \in Points(n)
  BY <1>2, RingOfPoints
<1>4. GetNode(RingOf(S), k) = n
  <2>1. GetNode(RingOf(S), k) = RingOf(S).nodes[h]
    BY <1>1 DEF GetNode
  <2> HIDE DEF h, P
  <2> QED BY <1>1, <1>2, <1>3, <2>1, RingOfPoints
<1> QED BY <1>1, <1>3, <1>4

(* Adding a node to a ring moves keys only to that node.                    *)
LEMMA RingOfGrows ==
  ASSUME NEW S \in SUBSET Nodes, S # {}, NEW s \in Nodes, s \notin S, NEW k \in Keys,
         GetNode(RingOf(S \cup {s}), k) # s
  PROVE  GetNode(RingOf(S \cup {s}), k) = GetNode(RingOf(S), k)
<1> DEFINE T == S \cup {s}
           P == Present(RingOf(S))
           Q == Present(RingOf(T))
           x == KeyHash[k]
           n == GetNode(RingOf(T), k)
<1>0. x \in Hashes /\ T \in SUBSET Nodes /\ T # {} /\ Points(s) \in SUBSET Hashes
  BY RingConstants, PointsDistinct
<1>1. P \in SUBSET Hashes /\ P # {} /\ Successor(P, x) \in Points(GetNode(RingOf(S), k))
      /\ GetNode(RingOf(S), k) \in S
  BY RingOfRoutes
<1>2. n \in T /\ Q \in SUBSET Hashes /\ Q # {} /\ Successor(Q, x) \in Points(n)
  <2> HIDE DEF T
  <2> QED BY <1>0, RingOfRoutes
<1>3. Q = P \cup Points(s)
  <2>1. P = {h \in Hashes : \E m \in S : h \in Points(m)}
    BY RingOfPoints
  <2>2. Q = {h \in Hashes : \E m \in T : h \in Points(m)}
    <3> HIDE DEF T
    <3> QED BY <1>0, RingOfPoints
  <2> QED BY <1>0, <2>1, <2>2
<1>4. n \in S
  BY <1>2
<1>5. Successor(Q, x) \in Q
  <2> HIDE DEF Q, x
  <2> QED BY <1>0, <1>2, SuccessorIn
<1>6. Successor(Q, x) \in P
  <2>1. Successor(Q, x) \in Hashes BY <1>2, <1>5
  <2> HIDE DEF x, n
  <2> QED BY <1>2, <1>4, <2>1, RingOfPoints
<1>7. Successor(Q, x) = Successor(P, x)
  <2> HIDE DEF Q, P, x
  <2> QED BY <1>0, <1>1, <1>3, <1>6, SuccessorAdded
<1>8. GetNode(RingOf(S), k) \in Nodes /\ n \in Nodes /\ Successor(P, x) \in Hashes
  BY <1>1, <1>4, <1>6, <1>7
<1> HIDE DEF n, P, Q, x
<1>9. n = GetNode(RingOf(S), k)
  BY <1>1, <1>2, <1>7, <1>8, PointsDistinct
<1> QED BY <1>9 DEF n

-----------------------------------------------------------------------------
(* Routing.                                                                 *)

(* The ring is always the one of the registered shards, each added once,    *)
(* and a shard that is open is registered.                                  *)
RingInv ==
  /\ shards \in SUBSET Nodes
  /\ open \subseteq shards
  /\ ring = RingOf(shards)

(* No step but AddShard, RemoveShard and Close touches what routing uses.   *)
LEMMA RoutingStep ==
  ASSUME [Next]_vars
  PROVE  \/ UNCHANGED <<shards, open, ring>>
         \/ \E s \in Nodes : AddShard(s) \/ RemoveShard(s)
         \/ Close
<1>1. CASE UNCHANGED vars
  BY <1>1 DEF vars, stores
<1>2. CASE ClientStep
  <2>1. CASE \E c \in Clients, e \in Events :
                \/ InsertRoute(c, e) \/ InsertBatchRoute(c, e)
                \/ DeleteStart(c, e) \/ GetByIDStart(c, e)
    BY <2>1 DEF InsertRoute, InsertBatchRoute, DeleteStart, GetByIDStart, stores
  <2>2. CASE \E c \in Clients, E \in SUBSET Events :
                Cardinality(E) > 1 /\ (InsertBatchStart(c, E) \/ DeleteEventsStart(c, E))
    BY <2>2 DEF InsertBatchStart, DeleteEventsStart, stores
  <2>3. CASE \/ \E c \in Clients, A \in Filters, n \in Limits : QueryStart(c, A, n)
             \/ \E c \in Clients, a \in Keys : QueryRoute(c, a)
    BY <2>3 DEF QueryStart, QueryRoute, stores
  <2>4. CASE \E c \in Clients : Insert(c) \/ QueryEnd(c)
    BY <2>4 DEF Insert, QueryEnd, stores
  <2>5. CASE \E c \in Clients, s \in Nodes : InsertBatch(c, s)
    BY <2>5 DEF InsertBatch
  <2>6. CASE \E c \in Clients : \E s \in Nodes : \E k \in 1 .. inst[s] :
               LET r == <<s, k>>
               IN  Delete(c, r) \/ DeleteEvents(c, r) \/ GetByID(c, r) \/ QueryShard(c, r)
    <3>0. PICK c \in Clients, s \in Nodes : \E k \in 1 .. inst[s] :
               \/ Delete(c, <<s, k>>) \/ DeleteEvents(c, <<s, k>>)
               \/ GetByID(c, <<s, k>>) \/ QueryShard(c, <<s, k>>)
      BY <2>6
    <3>1. PICK k \in 1 .. inst[s] :
               \/ Delete(c, <<s, k>>) \/ DeleteEvents(c, <<s, k>>)
               \/ GetByID(c, <<s, k>>) \/ QueryShard(c, <<s, k>>)
      BY <3>0
    <3>2. CASE Delete(c, <<s, k>>)
      BY <3>2 DEF Delete
    <3>3. CASE DeleteEvents(c, <<s, k>>)
      BY <3>3 DEF DeleteEvents
    <3>4. CASE GetByID(c, <<s, k>>) \/ QueryShard(c, <<s, k>>)
      BY <3>4 DEF GetByID, QueryShard, stores
    <3> QED BY <3>1, <3>2, <3>3, <3>4
  <2> QED BY <1>2, <2>1, <2>2, <2>3, <2>4, <2>5, <2>6 DEF ClientStep
<1>3. CASE AdminStep
  BY <1>3 DEF AdminStep, StartRebalance, CancelCurrentTask, Stop, stores
<1>4. CASE WorkerStep
  BY <1>4 DEF WorkerStep, WorkerStop, WorkerExit, WorkerTick, WorkerBegin, WorkerPlan,
              MigrateShard, VerifyShard, MigrateEnd, VerifyEnd, WorkerFinish, stores
<1> QED BY <1>1, <1>2, <1>3, <1>4 DEF Next

LEMMA RingInvStep ==
  ASSUME RingInv, [Next]_vars
  PROVE  RingInv'
<1>1. CASE UNCHANGED <<shards, open, ring>>
  BY <1>1 DEF RingInv
<1>2. ASSUME NEW s \in Nodes, AddShard(s) PROVE RingInv'
  <2>1. /\ s \notin shards /\ shards' = shards \cup {s} /\ open' = open \cup {s}
        /\ ring' = AddNode(ring, s)
    BY <1>2 DEF AddShard
  <2>2. AddNode(RingOf(shards), s) = RingOf(shards \cup {s})
    BY <2>1, AddNodeRing DEF RingInv
  <2>3. ring' = RingOf(shards')
    BY <2>1, <2>2 DEF RingInv
  <2> QED BY <2>1, <2>3 DEF RingInv
<1>3. ASSUME NEW s \in Nodes, RemoveShard(s) PROVE RingInv'
  <2>1. /\ s \in shards /\ shards' = shards \ {s} /\ open' = open \ {s}
        /\ ring' = RemoveNode(ring, s)
    BY <1>3 DEF RemoveShard
  <2>2. RemoveNode(RingOf(shards), s) = RingOf(shards \ {s})
    BY <2>1, RemoveNodeRing DEF RingInv
  <2>3. ring' = RingOf(shards')
    BY <2>1, <2>2 DEF RingInv
  <2> QED BY <2>1, <2>3 DEF RingInv
<1>4. CASE Close
  BY <1>4 DEF Close, RingInv
<1> QED BY <1>1, <1>2, <1>3, <1>4, RoutingStep

LEMMA RingInvInit == Init => RingInv
BY ShardConstants DEF Init, RingInv

LEMMA RingInvAlways == Spec => []RingInv
BY RingInvInit, RingInvStep, PTL DEF Spec

(* For every set of shards and every ring with distinct hashes, whatever    *)
(* shards were added and removed: GetShardByPubkey finds a registered shard *)
(* for every author as long as there is one.                                *)
THEOREM RoutesAlways == Spec => []RingRoutes
<1>1. RingInv => RingRoutes
  BY RingOfRoutes DEF RingInv, RingRoutes, Registered
<1> QED BY <1>1, RingInvAlways, PTL

(* A step that adds a shard moves authors only to it, and one that removes  *)
(* a shard moves only the authors that shard had.                           *)
LEMMA RemapStep ==
  ASSUME RingInv, RingInv',
         NEW a \in Keys, NEW s \in Nodes
  PROVE  /\ (shards # {} /\ shards' = shards \cup {s} =>
               GetNode(ring', a) \in {GetNode(ring, a), s})
         /\ (shards' # {} /\ shards' = shards \ {s} /\ GetNode(ring, a) # s =>
               GetNode(ring', a) = GetNode(ring, a))
<1>0. ring = RingOf(shards) /\ ring' = RingOf(shards') /\ shards \in SUBSET Nodes
  BY DEF RingInv
<1>1. ASSUME shards # {}, shards' = shards \cup {s}
      PROVE  GetNode(ring', a) \in {GetNode(ring, a), s}
  <2>1. CASE s \in shards
    <3>1. shards' = shards BY <1>1, <2>1
    <3> QED BY <1>0, <3>1
  <2>2. CASE s \notin shards
    BY <1>0, <1>1, <2>2, RingOfGrows
  <2> QED BY <2>1, <2>2
<1>2. ASSUME shards' # {}, shards' = shards \ {s}, GetNode(ring, a) # s
      PROVE  GetNode(ring', a) = GetNode(ring, a)
  <2>1. CASE s \notin shards
    <3>1. shards' = shards BY <1>2, <2>1
    <3> QED BY <1>0, <3>1
  <2>2. CASE s \in shards
    <3>1. shards = (shards \ {s}) \cup {s} BY <2>2
    <3> DEFINE S == shards \ {s}
    <3>2. S \in SUBSET Nodes /\ S # {} /\ s \notin S /\ ring' = RingOf(S) /\ ring = RingOf(S \cup {s})
      BY <1>0, <1>2, <3>1
    <3> HIDE DEF S
    <3> QED BY <1>2, <3>2, RingOfGrows
  <2> QED BY <2>1, <2>2
<1> QED BY <1>1, <1>2

(* Consistent hashing, for every ring with distinct hashes: no author is    *)
(* moved between two shards that both stay.                                 *)
THEOREM RemapsMinimally == Spec => MinimalRemap
<1>1. RingInv /\ RingInv' /\ [Next]_vars =>
        [\A a \in Keys, s \in Nodes :
           /\ (shards # {} /\ shards' = shards \cup {s} =>
                 GetNode(ring', a) \in {GetNode(ring, a), s})
           /\ (shards' # {} /\ shards' = shards \ {s} /\ GetNode(ring, a) # s =>
                 GetNode(ring', a) = GetNode(ring, a))]_vars
  BY RemapStep
<1> QED BY <1>1, RingInvAlways, PTL DEF Spec, MinimalRemap

-----------------------------------------------------------------------------
(* An acknowledged event stays on a registered shard.                       *)

(* The shards' contents are a function on the shard ids.                    *)
HeldFcn == held = [s \in Nodes |-> held[s]]

StoreInv == RingInv /\ HeldFcn /\ NothingLost

(* A write to a shard loses nothing; what it acknowledges is on that shard. *)
LEMMA WriteKeeps ==
  ASSUME StoreInv, NEW s \in Nodes, NEW E, Write(s, E), shards' = shards,
         \/ acked' = acked
         \/ acked' = acked \cup E /\ s \in shards
  PROVE  HeldFcn' /\ NothingLost'
<1>1. HeldFcn'
  BY DEF StoreInv, HeldFcn, Write
<1>2. /\ \A t \in Nodes : held[t] \subseteq held'[t]
      /\ E \subseteq held'[s]
  BY DEF StoreInv, HeldFcn, Write
<1>3. shards \subseteq Nodes
  BY DEF StoreInv, RingInv
<1>4. ASSUME NEW e \in acked' PROVE \E t \in shards' : e \in held'[t]
  <2>1. CASE e \in acked
    <3>1. PICK t \in shards : e \in held[t]
      BY <2>1 DEF StoreInv, NothingLost
    <3> QED BY <1>2, <1>3, <3>1
  <2>2. CASE e \notin acked
    BY <1>2, <1>4, <2>2
  <2> QED BY <2>1, <2>2
<1> QED BY <1>1, <1>4 DEF NothingLost

(* A delete loses only the events it takes off the acknowledged ones.       *)
LEMMA EraseKeeps ==
  ASSUME StoreInv, NEW s \in Nodes, NEW E, Erase(s, E), shards' = shards
  PROVE  HeldFcn' /\ NothingLost'
<1>1. HeldFcn'
  BY DEF StoreInv, HeldFcn, Erase
<1>2. /\ \A t \in Nodes : t # s => held'[t] = held[t]
      /\ held'[s] = held[s] \ E
      /\ acked' = acked \ (held[s] \cap E)
  BY DEF StoreInv, HeldFcn, Erase
<1>3. shards \subseteq Nodes
  BY DEF StoreInv, RingInv
<1>4. ASSUME NEW e \in acked' PROVE \E t \in shards' : e \in held'[t]
  <2>1. PICK t \in shards : e \in held[t]
    BY <1>2, <1>4 DEF StoreInv, NothingLost
  <2>2. e \in held'[t]
    BY <1>2, <1>3, <1>4, <2>1
  <2> QED BY <2>1, <2>2
<1> QED BY <1>1, <1>4 DEF NothingLost

(* Steps that touch neither the shards nor what is acknowledged.            *)
LEMMA QuietKeeps ==
  ASSUME StoreInv, UNCHANGED <<shards, held, acked>>
  PROVE  HeldFcn' /\ NothingLost'
BY DEF StoreInv, HeldFcn, NothingLost

LEMMA InsertKeeps ==
  ASSUME StoreInv, NEW c \in Clients, Insert(c)
  PROVE  HeldFcn' /\ NothingLost'
<1> DEFINE E == call[c].events
           r == call[c].at
<1>0. open \subseteq shards /\ shards \subseteq Nodes /\ shards' = shards
  BY DEF Insert, StoreInv, RingInv
<1>1. CASE IsOpen(r) /\ Write(r[1], E) /\ acked' = acked \cup E
  <2>1. r[1] \in shards /\ r[1] \in Nodes
    BY <1>0, <1>1 DEF IsOpen
  <2> HIDE DEF r, E
  <2> QED BY <1>0, <1>1, <2>1, WriteKeeps
<1>2. CASE UNCHANGED <<held, acked>>
  BY <1>0, <1>2, QuietKeeps
<1>3. CASE IsOpen(r) /\ (\E W \in {{}, E} : Write(r[1], W)) /\ acked' = acked
  <2>1. r[1] \in Nodes
    BY <1>0, <1>3 DEF IsOpen
  <2> HIDE DEF r, E
  <2> QED BY <1>0, <1>3, <2>1, WriteKeeps
<1> QED BY <1>1, <1>2, <1>3 DEF Insert

LEMMA InsertBatchKeeps ==
  ASSUME StoreInv, NEW c \in Clients, NEW s \in Nodes, InsertBatch(c, s)
  PROVE  HeldFcn' /\ NothingLost'
<1> DEFINE B == call[c].batches
           E == {e \in DOMAIN B : B[e] = s}
<1>0. open \subseteq shards /\ shards' = shards
  BY DEF InsertBatch, StoreInv, RingInv
<1>1. CASE s \in open /\ Write(s, E) /\ acked' = acked \cup E
  <2>1. s \in shards
    BY <1>0, <1>1
  <2> HIDE DEF E
  <2> QED BY <1>0, <1>1, <2>1, WriteKeeps
<1>2. CASE UNCHANGED <<held, acked>>
  BY <1>0, <1>2, QuietKeeps
<1>3. CASE s \in open /\ (\E W \in SUBSET E : Write(s, W)) /\ acked' = acked
  <2> HIDE DEF E
  <2> QED BY <1>0, <1>3, WriteKeeps
<1> QED BY <1>1, <1>2, <1>3 DEF InsertBatch

LEMMA DeleteKeeps ==
  ASSUME StoreInv, NEW c \in Clients, NEW s \in Nodes, NEW k,
         Delete(c, <<s, k>>) \/ DeleteEvents(c, <<s, k>>)
  PROVE  HeldFcn' /\ NothingLost'
<1>1. /\ shards' = shards
      /\ \/ \E W : Erase(s, W)
         \/ UNCHANGED <<held, acked>>
  BY DEF Delete, DeleteEvents
<1> QED BY <1>1, EraseKeeps, QuietKeeps

LEMMA AdminKeeps ==
  ASSUME StoreInv, AdminStep
  PROVE  HeldFcn' /\ NothingLost'
<1>1. ASSUME NEW s \in Nodes, AddShard(s) PROVE HeldFcn' /\ NothingLost'
  <2>1. UNCHANGED <<held, acked>> /\ shards \subseteq shards'
    BY <1>1 DEF AddShard
  <2> QED BY <2>1 DEF StoreInv, HeldFcn, NothingLost
<1>2. ASSUME NEW s \in Nodes, RemoveShard(s) PROVE HeldFcn' /\ NothingLost'
  <2>1. held' = held /\ acked' = acked \cap UNION {held[t] : t \in shards'}
    BY <1>2 DEF RemoveShard
  <2> QED BY <2>1 DEF StoreInv, HeldFcn, NothingLost
<1>3. CASE Close \/ StartRebalance \/ CancelCurrentTask \/ Stop
  <2>1. UNCHANGED <<shards, held, acked>>
    BY <1>3 DEF Close, StartRebalance, CancelCurrentTask, Stop, stores, history
  <2> QED BY <2>1, QuietKeeps
<1> QED BY <1>1, <1>2, <1>3 DEF AdminStep

LEMMA StoreInvStep ==
  ASSUME StoreInv, [Next]_vars
  PROVE  StoreInv'
<1>0. RingInv'
  BY RingInvStep DEF StoreInv
<1>1. CASE UNCHANGED vars
  <2>1. UNCHANGED <<shards, held, acked>>
    BY <1>1 DEF vars, stores, history
  <2> QED BY <1>0, <2>1, QuietKeeps DEF StoreInv
<1>2. CASE ClientStep
  <2>1. CASE \/ \E c \in Clients, e \in Events :
                  \/ InsertRoute(c, e) \/ InsertBatchRoute(c, e)
                  \/ DeleteStart(c, e) \/ GetByIDStart(c, e)
             \/ \E c \in Clients, E \in SUBSET Events :
                  Cardinality(E) > 1 /\ (InsertBatchStart(c, E) \/ DeleteEventsStart(c, E))
             \/ \E c \in Clients, A \in Filters, n \in Limits : QueryStart(c, A, n)
             \/ \E c \in Clients, a \in Keys : QueryRoute(c, a)
             \/ \E c \in Clients : QueryEnd(c)
    <3>1. UNCHANGED <<shards, held, acked>>
      BY <2>1 DEF InsertRoute, DeleteStart, GetByIDStart, InsertBatchStart, InsertBatchRoute,
                  DeleteEventsStart, QueryStart, QueryRoute, QueryEnd, stores, history
    <3> QED BY <1>0, <3>1, QuietKeeps DEF StoreInv
  <2>2. CASE \E c \in Clients : Insert(c)
    BY <1>0, <2>2, InsertKeeps DEF StoreInv
  <2>3. CASE \E c \in Clients, s \in Nodes : InsertBatch(c, s)
    BY <1>0, <2>3, InsertBatchKeeps DEF StoreInv
  <2>4. CASE \E c \in Clients : \E s \in Nodes : \E k \in 1 .. inst[s] :
               LET r == <<s, k>>
               IN  Delete(c, r) \/ DeleteEvents(c, r) \/ GetByID(c, r) \/ QueryShard(c, r)
    <3>0. PICK c \in Clients, s \in Nodes : \E k \in 1 .. inst[s] :
               \/ Delete(c, <<s, k>>) \/ DeleteEvents(c, <<s, k>>)
               \/ GetByID(c, <<s, k>>) \/ QueryShard(c, <<s, k>>)
      BY <2>4
    <3>1. PICK k \in 1 .. inst[s] :
               \/ Delete(c, <<s, k>>) \/ DeleteEvents(c, <<s, k>>)
               \/ GetByID(c, <<s, k>>) \/ QueryShard(c, <<s, k>>)
      BY <3>0
    <3>2. CASE Delete(c, <<s, k>>) \/ DeleteEvents(c, <<s, k>>)
      BY <1>0, <3>2, DeleteKeeps DEF StoreInv
    <3>3. CASE GetByID(c, <<s, k>>) \/ QueryShard(c, <<s, k>>)
      <4>1. UNCHANGED <<shards, held, acked>>
        BY <3>3 DEF GetByID, QueryShard, stores, history
      <4> QED BY <1>0, <4>1, QuietKeeps DEF StoreInv
    <3> QED BY <3>1, <3>2, <3>3
  <2> QED BY <1>2, <2>1, <2>2, <2>3, <2>4 DEF ClientStep
<1>3. CASE AdminStep
  BY <1>0, <1>3, AdminKeeps DEF StoreInv
<1>4. CASE WorkerStep
  <2>1. UNCHANGED <<shards, held, acked>>
    BY <1>4 DEF WorkerStep, WorkerStop, WorkerExit, WorkerTick, WorkerBegin,
            WorkerPlan, MigrateShard, VerifyShard, MigrateEnd, VerifyEnd,
            CleanupOldShard, WorkerFinish, stores, history
  <2> QED BY <1>0, <2>1, QuietKeeps DEF StoreInv
<1> QED BY <1>1, <1>2, <1>3, <1>4 DEF Next

LEMMA StoreInvInit == Init => StoreInv
<1>1. ASSUME Init PROVE HeldFcn
  BY <1>1 DEF Init, HeldFcn
<1>2. ASSUME Init PROVE NothingLost
  <2>1. RingInv BY <1>2, RingInvInit
  <2>2. ASSUME NEW e \in acked PROVE \E s \in shards : e \in held[s]
    <3>1. Owner(Pubkey[e]) \in shards
      BY <1>2 DEF Init, Registered, Owner
    <3> QED BY <1>2, <2>1, <3>1 DEF Init, RingInv
  <2> QED BY <2>2 DEF NothingLost
<1> QED BY <1>1, <1>2, RingInvInit DEF StoreInv

LEMMA StoreInvAlways == Spec => []StoreInv
BY StoreInvInit, StoreInvStep, PTL DEF Spec

(* For every number of shards, clients and events, and through every        *)
(* rebalance, failure, cancellation and change of the shards: an event that *)
(* was acknowledged and not deleted is on a registered shard.               *)
THEOREM NothingLostAlways == Spec => []NothingLost
<1>1. StoreInv => NothingLost
  BY DEF StoreInv
<1> QED BY <1>1, StoreInvAlways, PTL

-----------------------------------------------------------------------------
(* Types                                                                    *)

Task == [status : {"running", "completed", "failed"}, covered : SUBSET Events,
         topology : Nat, failures : BOOLEAN]

(* The goroutine's local state, for each place it can be at.                *)
Away == [pc : {"none", "stopping", "peek"}] \cup [pc : {"select"}, stopped : BOOLEAN]
Planning == [pc : {"plan", "finish"}, task : Nat]
Migrating == [pc : {"migrate"}, task : Nat, plan : SUBSET Nodes]
Verifying == [pc : {"verify"}, task : Nat, todo : SUBSET Nodes]
Worker == Away \cup Planning \cup Migrating \cup Verifying

(* What a call keeps while it runs, by the operation.                       *)
Objects == Nodes \X Nat
Inserting == [op : {"insert"}, events : SUBSET Events, at : Objects]
Batching == [op : {"batch"}, events : SUBSET Events, route : SUBSET Events,
             batches : UNION {[E -> Nodes] : E \in SUBSET Events}]
Probing == [op : {"delete", "get"}, events : SUBSET Events, todo : SUBSET Objects]
Deleting == [op : {"deleteAll"}, events : SUBSET Events, todo : SUBSET Objects,
             clean : BOOLEAN]
Querying == [op : {"query"}, authors : SUBSET Keys, limit : Nat, route : SUBSET Keys,
             todo : SUBSET Objects, all : Seq(Events), must : SUBSET Events]
Call == {Idle} \cup Inserting \cup Batching \cup Probing \cup Deleting \cup Querying

CallTypes == call \in [Clients -> Call]

StoreTypes ==
  /\ inst \in [Nodes -> Nat]
  /\ held \in [Nodes -> SUBSET Events]
  /\ acked \in SUBSET Events
  /\ adds \in Nat /\ removes \in Nat

TaskTypes ==
  /\ tasks \in Seq(Task)
  /\ queue \in Seq(1 .. Len(tasks))
  /\ metrics \in [completed : Nat, failed : Nat]
  /\ worker \in Worker

TypeInv == RingInv /\ StoreTypes /\ TaskTypes /\ CallTypes

-----------------------------------------------------------------------------
(* A step, action by action.                                                *)

(* The actions of clients that only note what a call is about to do.        *)
Starts ==
  \/ \E c \in Clients, e \in Events : DeleteStart(c, e) \/ GetByIDStart(c, e)
  \/ \E c \in Clients, E \in SUBSET Events : DeleteEventsStart(c, E)
  \/ \E c \in Clients, A \in Filters, n \in Limits : QueryStart(c, A, n)

LEMMA StepCases ==
  ASSUME [Next]_vars
  PROVE  \/ UNCHANGED vars
         \/ Starts
         \/ \E c \in Clients, e \in Events : InsertRoute(c, e)
         \/ \E c \in Clients, E \in SUBSET Events : InsertBatchStart(c, E)
         \/ \E c \in Clients, e \in Events : InsertBatchRoute(c, e)
         \/ \E c \in Clients, a \in Keys : QueryRoute(c, a)
         \/ \E c \in Clients : Insert(c) \/ QueryEnd(c)
         \/ \E c \in Clients, s \in Nodes : InsertBatch(c, s)
         \/ \E c \in Clients, s \in Nodes : \E k \in 1 .. inst[s] :
              \/ Delete(c, <<s, k>>) \/ DeleteEvents(c, <<s, k>>)
              \/ GetByID(c, <<s, k>>) \/ QueryShard(c, <<s, k>>)
         \/ \E s \in Nodes : AddShard(s) \/ RemoveShard(s) \/ MigrateShard(s) \/ VerifyShard(s)
         \/ Close \/ StartRebalance \/ CancelCurrentTask \/ Stop
         \/ WorkerStop \/ WorkerExit \/ WorkerTick \/ WorkerBegin \/ WorkerPlan
         \/ MigrateEnd \/ VerifyEnd \/ WorkerFinish
<1>1. CASE ClientStep
  <2>1. CASE \E c \in Clients : \E s \in Nodes : \E k \in 1 .. inst[s] :
               LET r == <<s, k>>
               IN  Delete(c, r) \/ DeleteEvents(c, r) \/ GetByID(c, r) \/ QueryShard(c, r)
    BY <2>1, Zenon
  <2>2. CASE ~\E c \in Clients : \E s \in Nodes : \E k \in 1 .. inst[s] :
               LET r == <<s, k>>
               IN  Delete(c, r) \/ DeleteEvents(c, r) \/ GetByID(c, r) \/ QueryShard(c, r)
    BY <1>1, <2>2, Zenon DEF ClientStep, Starts
  <2> QED BY <2>1, <2>2
<1>2. CASE AdminStep
  BY <1>2, Zenon DEF AdminStep
<1>3. CASE WorkerStep
  BY <1>3, Zenon DEF WorkerStep
<1> QED BY <1>1, <1>2, <1>3 DEF Next

-----------------------------------------------------------------------------
(* The helpers on calls.                                                    *)

LEMMA CallFields ==
  ASSUME NEW q \in Call
  PROVE  /\ q.op = "idle" => q = Idle
         /\ q.op = "insert" => q \in Inserting
         /\ q.op = "batch" => q \in Batching
         /\ q.op \in {"delete", "get"} => q \in Probing
         /\ q.op = "deleteAll" => q \in Deleting
         /\ q.op = "query" => q \in Querying
         /\ q.op \in {"idle", "insert", "batch", "delete", "get", "deleteAll", "query"}
BY DEF Call, Idle, Inserting, Batching, Probing, Deleting, Querying

(* Forget takes events off what queries must return, and changes no other   *)
(* call.                                                                    *)
LEMMA ForgetCalls ==
  ASSUME CallTypes, NEW E
  PROVE  /\ Forget(E) \in [Clients -> Call]
         /\ \A c \in Clients :
              /\ call[c].op # "query" => Forget(E)[c] = call[c]
              /\ call[c].op = "query" => Forget(E)[c] = [call[c] EXCEPT !.must = @ \ E]
<1>1. ASSUME NEW c \in Clients
      PROVE  /\ Forget(E)[c] \in Call
             /\ call[c].op # "query" => Forget(E)[c] = call[c]
             /\ call[c].op = "query" => Forget(E)[c] = [call[c] EXCEPT !.must = @ \ E]
  <2>1. call[c] \in Call
    BY DEF CallTypes
  <2>2. CASE call[c].op # "query"
    BY <2>1, <2>2 DEF Forget
  <2>3. CASE call[c].op = "query"
    <3>1. call[c] \in Querying
      BY <2>1, <2>3, CallFields
    <3>2. [call[c] EXCEPT !.must = @ \ E] \in Querying
      BY <3>1 DEF Querying
    <3> QED BY <2>3, <3>2 DEF Forget, Call
  <2> QED BY <2>2, <2>3
<1>2. Forget(E) = [c \in Clients |-> Forget(E)[c]]
  BY DEF Forget
<1> QED BY <1>1, <1>2

(* Spoil takes the clean mark off deletes of an event of E, and changes no  *)
(* other call.                                                              *)
LEMMA SpoilCalls ==
  ASSUME NEW f \in [Clients -> Call], NEW E
  PROVE  /\ Spoil(f, E) \in [Clients -> Call]
         /\ \A c \in Clients :
              /\ f[c].op # "deleteAll" => Spoil(f, E)[c] = f[c]
              /\ f[c].op = "deleteAll" =>
                   Spoil(f, E)[c] = IF f[c].events \cap E # {}
                                    THEN [f[c] EXCEPT !.clean = FALSE] ELSE f[c]
<1>1. ASSUME NEW c \in Clients
      PROVE  /\ Spoil(f, E)[c] \in Call
             /\ f[c].op # "deleteAll" => Spoil(f, E)[c] = f[c]
             /\ f[c].op = "deleteAll" =>
                  Spoil(f, E)[c] = IF f[c].events \cap E # {}
                                   THEN [f[c] EXCEPT !.clean = FALSE] ELSE f[c]
  <2>1. CASE f[c].op # "deleteAll"
    BY <2>1 DEF Spoil
  <2>2. CASE f[c].op = "deleteAll"
    <3>1. f[c] \in Deleting
      BY <2>2, CallFields
    <3>2. [f[c] EXCEPT !.clean = FALSE] \in Deleting
      BY <3>1 DEF Deleting
    <3> QED BY <2>2, <3>2 DEF Spoil, Call
  <2> QED BY <2>1, <2>2
<1>2. Spoil(f, E) = [c \in Clients |-> Spoil(f, E)[c]]
  BY DEF Spoil
<1> QED BY <1>1, <1>2

-----------------------------------------------------------------------------
(* One shard's query.                                                       *)

(* A shard's answer is without duplicates.  It is everything the shard has  *)
(* unless it is a full page, and then what is left out is no newer.         *)
LEMMA ShardAnswer ==
  ASSUME NEW S \in SUBSET Events, NEW n \in Nat, NEW s \in ShardQuery(S, n)
  PROVE  /\ s \in Seq(Events) /\ Range(s) \subseteq S
         /\ n = 0 \/ Cardinality(S) <= n \/ Len(s) < n => Range(s) = S
         /\ Range(s) # S =>
              /\ n > 0 /\ Cardinality(Range(s)) = n
              /\ \A d \in Range(s), e \in S \ Range(s) : CreatedAt[d] >= CreatedAt[e]
<1> DEFINE size == IF n = 0 \/ Cardinality(S) < n THEN Cardinality(S) ELSE n
<1>1. IsFiniteSet(S) /\ Cardinality(S) \in Nat
  BY ShardConstants, FS_Subset, FS_CardinalityType
<1>2. /\ s \in Injection(1 .. size, S)
      /\ \A i \in 1 .. size, e \in S \ Range(s) : CreatedAt[s[i]] >= CreatedAt[e]
  BY DEF ShardQuery
<1>3. size \in Nat
  BY <1>1
<1>4. s \in [1 .. size -> S]
  BY <1>2 DEF Injection
<1> HIDE DEF size
<1>5. s \in Seq(Events) /\ Len(s) = size /\ Range(s) \subseteq S
  BY <1>3, <1>4 DEF Range
<1>6. IsFiniteSet(1 .. size) /\ Cardinality(1 .. size) = size
  BY <1>3, FS_Interval
<1>7. Cardinality(S) = size => Range(s) = S
  <2>1. Cardinality(S) = size => s \in Surjection(1 .. size, S)
    BY <1>1, <1>2, <1>6, FS_Injection
  <2> QED BY <1>4, <1>5, <2>1 DEF Surjection, Range
<1>8. Cardinality(Range(s)) = size
  <2>1. s \in Injection(1 .. size, Range(s))
    BY <1>2, <1>4 DEF Injection, Range
  <2>2. s \in Surjection(1 .. size, Range(s))
    BY <1>2, <1>4 DEF Surjection, Range
  <2> QED BY <1>6, <2>1, <2>2, FS_Surjection
<1>9. \A d \in Range(s) : \E i \in 1 .. size : d = s[i]
  BY <1>4 DEF Range
<1> QED BY <1>1, <1>2, <1>3, <1>5, <1>7, <1>8, <1>9 DEF size

-----------------------------------------------------------------------------
(* What the steps of clients do to the shards and the tasks.                *)

Quiet == UNCHANGED <<stores, rebalance, adds, removes, acked>>

Writes ==
  \E s \in open, W \in SUBSET Events :
    /\ Write(s, W)
    /\ acked' \in {acked, acked \cup W}
    /\ UNCHANGED <<shards, inst, open, ring, rebalance, adds, removes>>

Erases ==
  \E s \in open, W \in SUBSET Events :
    /\ Erase(s, W)
    /\ UNCHANGED <<shards, inst, open, ring, queue, running, worker, metrics,
                   adds, removes>>

LEMMA InsertEffect ==
  ASSUME CallTypes, NEW c \in Clients, Insert(c)
  PROVE  Quiet \/ Writes
<1> DEFINE E == call[c].events
           r == call[c].at
<1>0. UNCHANGED <<shards, inst, open, ring, rebalance, adds, removes>>
  BY DEF Insert
<1>1. E \in SUBSET Events
  BY CallFields DEF CallTypes, Insert, Inserting
<1>2. CASE UNCHANGED <<held, acked>>
  BY <1>0, <1>2 DEF Quiet, stores
<1>3. CASE IsOpen(r) /\ \E W \in {{}, E} : Write(r[1], W) /\ acked' \in {acked, acked \cup W}
  <2>1. r[1] \in open
    BY <1>3 DEF IsOpen
  <2>2. PICK W \in {{}, E} : Write(r[1], W) /\ acked' \in {acked, acked \cup W}
    BY <1>3
  <2>3. W \in SUBSET Events
    BY <1>1
  <2> HIDE DEF r, E
  <2> QED BY <1>0, <2>1, <2>2, <2>3 DEF Writes
<1>4. \/ IsOpen(r) /\ Write(r[1], E) /\ acked' = acked \cup E
      \/ UNCHANGED <<held, acked>>
      \/ IsOpen(r) /\ (\E W \in {{}, E} : Write(r[1], W)) /\ acked' = acked
  BY Zenon DEF Insert
<1> HIDE DEF r, E
<1> QED BY <1>2, <1>3, <1>4

LEMMA InsertBatchEffect ==
  ASSUME CallTypes, NEW c \in Clients, NEW s \in Nodes, InsertBatch(c, s)
  PROVE  Quiet \/ Writes
<1> DEFINE B == call[c].batches
           E == {e \in DOMAIN B : B[e] = s}
<1>0. UNCHANGED <<shards, inst, open, ring, rebalance, adds, removes>>
  BY DEF InsertBatch
<1>1. E \in SUBSET Events
  <2>1. call[c] \in Batching
    BY CallFields DEF CallTypes, InsertBatch
  <2> QED BY <2>1 DEF Batching
<1>2. CASE UNCHANGED <<held, acked>>
  BY <1>0, <1>2 DEF Quiet, stores
<1>3. \/ s \in open /\ Write(s, E) /\ acked' = acked \cup E
      \/ UNCHANGED <<held, acked>>
      \/ s \in open /\ (\E W \in SUBSET E : Write(s, W)) /\ acked' = acked
  BY Zenon DEF InsertBatch
<1> HIDE DEF E
<1>4. CASE s \in open /\ Write(s, E) /\ acked' = acked \cup E
  BY <1>0, <1>1, <1>4 DEF Writes
<1>5. CASE s \in open /\ (\E W \in SUBSET E : Write(s, W)) /\ acked' = acked
  <2>1. PICK W \in SUBSET E : Write(s, W)
    BY <1>5
  <2>2. W \in SUBSET Events
    BY <1>1
  <2> QED BY <1>0, <1>5, <2>1, <2>2 DEF Writes
<1> QED BY <1>2, <1>3, <1>4, <1>5

LEMMA DeleteEffect ==
  ASSUME CallTypes, NEW c \in Clients, NEW s \in Nodes, NEW k,
         Delete(c, <<s, k>>) \/ DeleteEvents(c, <<s, k>>)
  PROVE  Quiet \/ Erases
<1> DEFINE E == call[c].events
<1>1. E \in SUBSET Events
  BY CallFields DEF CallTypes, Delete, DeleteEvents, Probing, Deleting
<1>2. UNCHANGED <<shards, inst, open, ring, queue, running, worker, metrics,
                  adds, removes>>
  BY DEF Delete, DeleteEvents
<1>3. \/ UNCHANGED <<held, acked, tasks>>
      \/ IsOpen(<<s, k>>) /\ \E W \in SUBSET E : Erase(s, W)
  BY DEF Delete, DeleteEvents
<1> HIDE DEF E
<1>4. CASE UNCHANGED <<held, acked, tasks>>
  BY <1>2, <1>4 DEF Quiet, stores, rebalance
<1>5. CASE IsOpen(<<s, k>>) /\ \E W \in SUBSET E : Erase(s, W)
  <2>1. s \in open
    BY <1>5 DEF IsOpen
  <2>2. PICK W \in SUBSET E : Erase(s, W)
    BY <1>5
  <2>3. W \in SUBSET Events
    BY <1>1
  <2> QED BY <1>2, <2>1, <2>2, <2>3 DEF Erases
<1> QED BY <1>3, <1>4, <1>5

LEMMA Effects ==
  ASSUME CallTypes, [Next]_vars
  PROVE  \/ Quiet \/ Writes \/ Erases
         \/ \E s \in Nodes : AddShard(s) \/ RemoveShard(s) \/ MigrateShard(s) \/ VerifyShard(s)
         \/ Close \/ StartRebalance \/ CancelCurrentTask \/ Stop
         \/ WorkerStop \/ WorkerExit \/ WorkerTick \/ WorkerBegin \/ WorkerPlan
         \/ MigrateEnd \/ VerifyEnd \/ WorkerFinish
<1>1. CASE UNCHANGED vars
  BY <1>1 DEF vars, counters, history, Quiet
<1>2. CASE Starts
  BY <1>2 DEF Starts, DeleteStart, GetByIDStart, DeleteEventsStart, QueryStart, history, Quiet
<1>3. CASE \/ \E c \in Clients, e \in Events : InsertRoute(c, e)
           \/ \E c \in Clients, E \in SUBSET Events : InsertBatchStart(c, E)
           \/ \E c \in Clients, e \in Events : InsertBatchRoute(c, e)
           \/ \E c \in Clients, a \in Keys : QueryRoute(c, a)
           \/ \E c \in Clients : QueryEnd(c)
  BY <1>3 DEF InsertRoute, InsertBatchStart, InsertBatchRoute, QueryRoute, QueryEnd, counters, history, Quiet
<1>4. ASSUME NEW c \in Clients, NEW s \in Nodes, NEW k \in 1 .. inst[s],
             \/ Delete(c, <<s, k>>) \/ DeleteEvents(c, <<s, k>>)
             \/ GetByID(c, <<s, k>>) \/ QueryShard(c, <<s, k>>)
      PROVE  Quiet \/ Erases
  <2>1. CASE GetByID(c, <<s, k>>) \/ QueryShard(c, <<s, k>>)
    BY <2>1 DEF GetByID, QueryShard, history, Quiet
  <2> QED BY <1>4, <2>1, DeleteEffect
<1>5. CASE \/ \E c \in Clients : Insert(c)
           \/ \E c \in Clients, s \in Nodes : InsertBatch(c, s)
  BY <1>5, InsertEffect, InsertBatchEffect
<1> QED BY <1>1, <1>2, <1>3, <1>4, <1>5, StepCases

-----------------------------------------------------------------------------
(* Calls keep their types.                                                  *)

LEMMA CallSet ==
  ASSUME NEW f \in [Clients -> Call], NEW c \in Clients, NEW q \in Call
  PROVE  /\ [f EXCEPT ![c] = q] \in [Clients -> Call]
         /\ [f EXCEPT ![c] = q][c] = q
         /\ \A d \in Clients : d # c => [f EXCEPT ![c] = q][d] = f[d]
OBVIOUS

LEMMA IdleCall == Idle \in Call
BY DEF Call

LEMMA RefsType ==
  ASSUME RingInv, StoreTypes
  PROVE  Refs(shards) \in SUBSET Objects
BY DEF RingInv, StoreTypes, Refs, Ref, Objects

LEMMA QueryStarted ==
  ASSUME RingInv, StoreTypes, NEW A \in Filters, NEW n \in Limits
  PROVE  [op |-> "query", authors |-> A, limit |-> n, route |-> A,
          todo |-> IF A = {} THEN Refs(shards) ELSE {}, all |-> <<>>,
          must |-> IF A = {} THEN UNION {held[s] : s \in open} ELSE {}] \in Querying
<1> DEFINE T == IF A = {} THEN Refs(shards) ELSE {}
           m == IF A = {} THEN UNION {held[s] : s \in open} ELSE {}
<1>1. T \in SUBSET Objects
  BY RefsType
<1>2. m \in SUBSET Events
  BY DEF StoreTypes, RingInv
<1>3. A \in SUBSET Keys /\ n \in Nat /\ <<>> \in Seq(Events)
  BY ShardConstants
<1> HIDE DEF T, m
<1>4. [op |-> "query", authors |-> A, limit |-> n, route |-> A, todo |-> T, all |-> <<>>,
       must |-> m] \in Querying
  BY <1>1, <1>2, <1>3 DEF Querying
<1> QED BY <1>4 DEF T, m

LEMMA StartTypes ==
  ASSUME RingInv, StoreTypes, CallTypes, Starts
  PROVE  CallTypes'
<1>1. ASSUME NEW c \in Clients, NEW q \in Call, Begin(c, q) PROVE CallTypes'
  BY <1>1, CallSet DEF CallTypes, Begin
<1>2. ASSUME NEW c \in Clients, NEW e \in Events, DeleteStart(c, e) \/ GetByIDStart(c, e)
      PROVE  CallTypes'
  <2>1. PICK x \in {"delete", "get"} :
          Begin(c, [op |-> x, events |-> {e}, todo |-> Refs(shards)])
    BY <1>2 DEF DeleteStart, GetByIDStart
  <2>2. [op |-> x, events |-> {e}, todo |-> Refs(shards)] \in Call
    BY RefsType DEF Call, Probing
  <2> QED BY <1>1, <2>1, <2>2
<1>3. ASSUME NEW c \in Clients, NEW E \in SUBSET Events, DeleteEventsStart(c, E)
      PROVE  CallTypes'
  <2> DEFINE b == ~Writing(E)
  <2>1. Begin(c, [op |-> "deleteAll", events |-> E, todo |-> Refs(shards), clean |-> b])
    BY <1>3 DEF DeleteEventsStart
  <2>2. b \in BOOLEAN
    OBVIOUS
  <2> HIDE DEF b
  <2>3. [op |-> "deleteAll", events |-> E, todo |-> Refs(shards), clean |-> b] \in Call
    BY <2>2, RefsType DEF Call, Deleting
  <2> QED BY <1>1, <2>1, <2>3
<1>4. ASSUME NEW c \in Clients, NEW A \in Filters, NEW n \in Limits, QueryStart(c, A, n)
      PROVE  CallTypes'
  <2>1. PICK q : /\ Begin(c, q)
                 /\ q = [op |-> "query", authors |-> A, limit |-> n, route |-> A,
                         todo |-> IF A = {} THEN Refs(shards) ELSE {}, all |-> <<>>,
                         must |-> IF A = {} THEN UNION {held[s] : s \in open} ELSE {}]
    BY <1>4, Zenon DEF QueryStart
  <2>2. q \in Call
    BY <2>1, QueryStarted DEF Call
  <2> QED BY <1>1, <2>1, <2>2
<1> QED BY <1>2, <1>3, <1>4 DEF Starts

LEMMA MatchesType ==
  ASSUME NEW A, NEW S \in SUBSET Events
  PROVE  Matches(A, S) \in SUBSET S /\ Matches(A, S) \in SUBSET Events
BY DEF Matches

(* An event of a batch is assigned to its owner, or the batch fails.        *)
LEMMA BatchRouted ==
  ASSUME RingInv, CallTypes, NEW c \in Clients, NEW e \in Events, InsertBatchRoute(c, e)
  PROVE  LET q == call[c]
             B == call[c].batches
             C == [d \in DOMAIN B \cup {e} |-> IF d = e THEN Owner(Pubkey[e]) ELSE B[d]]
             n == [q EXCEPT !.route = q.route \ {e}, !.batches = C]
         IN  /\ q \in Batching /\ e \in q.route
             /\ \/ call' = [call EXCEPT ![c] = Idle]
                \/ n \in Batching /\ call' = [call EXCEPT ![c] = n]
<1> DEFINE q == call[c]
           B == call[c].batches
           D == DOMAIN B \cup {e}
           C == [d \in D |-> IF d = e THEN Owner(Pubkey[e]) ELSE B[d]]
           n == [q EXCEPT !.route = q.route \ {e}, !.batches = C]
<1>1. q \in Batching /\ e \in q.route /\ call \in [Clients -> Call]
  BY CallFields DEF CallTypes, InsertBatchRoute
<1>2. CASE Registered(Pubkey[e]) /\ call' = [call EXCEPT ![c].route = @ \ {e}, ![c].batches = C]
  <2>1. Owner(Pubkey[e]) \in Nodes
    BY <1>2 DEF Registered, Owner, RingInv
  <2>2. D \in SUBSET Events /\ C \in [D -> Nodes]
    <3>1. PICK F \in SUBSET Events : B \in [F -> Nodes]
      BY <1>1 DEF Batching
    <3>2. DOMAIN B = F /\ \A d \in F : B[d] \in Nodes
      BY <3>1
    <3>3. D \in SUBSET Events
      BY <3>2
    <3>4. \A d \in D : (IF d = e THEN Owner(Pubkey[e]) ELSE B[d]) \in Nodes
      BY <2>1, <3>2
    <3> HIDE DEF B, D
    <3> QED BY <3>3, <3>4
  <2> HIDE DEF D, C
  <2>3. C \in UNION {[F -> Nodes] : F \in SUBSET Events}
    BY <2>2
  <2>4. n \in Batching
    BY <1>1, <2>3 DEF Batching
  <2>5. call' = [call EXCEPT ![c] = n]
    BY <1>1, <1>2 DEF Batching
  <2> QED BY <1>1, <2>4, <2>5 DEF C, D
<1>3. CASE call' = [call EXCEPT ![c] = Idle]
  BY <1>1, <1>3
<1> QED BY <1>2, <1>3, Zenon DEF InsertBatchRoute, End

LEMMA RouteTypes ==
  ASSUME RingInv, StoreTypes, CallTypes, NEW c \in Clients,
         \/ \E e \in Events : InsertRoute(c, e)
         \/ \E E \in SUBSET Events : InsertBatchStart(c, E)
         \/ \E e \in Events : InsertBatchRoute(c, e)
  PROVE  CallTypes'
<1>1. ASSUME NEW E, NEW q \in Call, BeginWrite(c, E, q) PROVE CallTypes'
  BY <1>1, CallSet, SpoilCalls DEF CallTypes, BeginWrite
<1>2. ASSUME NEW e \in Events, InsertRoute(c, e) PROVE CallTypes'
  <2> DEFINE q == [op |-> "insert", events |-> {e}, at |-> Ref(Owner(Pubkey[e]))]
  <2>1. Owner(Pubkey[e]) \in Nodes
    BY <1>2 DEF InsertRoute, Registered, Owner, RingInv
  <2>2. Ref(Owner(Pubkey[e])) \in Objects
    BY <2>1 DEF Ref, Objects, StoreTypes
  <2>3. q \in Call
    BY <2>2 DEF Call, Inserting
  <2> QED BY <1>1, <1>2, <2>3 DEF InsertRoute
<1>3. ASSUME NEW E \in SUBSET Events, InsertBatchStart(c, E) PROVE CallTypes'
  <2> DEFINE B == [e \in {} |-> NoNode]
             q == [op |-> "batch", events |-> E, route |-> E, batches |-> B]
  <2>1. B \in UNION {[F -> Nodes] : F \in SUBSET Events}
    <3>1. B \in [{} -> Nodes] /\ {} \in SUBSET Events
      OBVIOUS
    <3> HIDE DEF B
    <3> QED BY <3>1
  <2>2. q \in Call
    <3> HIDE DEF B
    <3> QED BY <2>1 DEF Call, Batching
  <2> QED BY <1>1, <1>3, <2>2 DEF InsertBatchStart
<1>4. ASSUME NEW e \in Events, InsertBatchRoute(c, e) PROVE CallTypes'
  <2>1. call' = [call EXCEPT ![c] = Idle] \/ \E q \in Batching : call' = [call EXCEPT ![c] = q]
    BY <1>4, BatchRouted
  <2> QED BY <2>1, IdleCall, CallSet DEF CallTypes, Call
<1> QED BY <1>2, <1>3, <1>4

(* Looking up the shard of one author adds it to the query's shards, and    *)
(* what it holds to what the query must return.                             *)
LEMMA QueryRouted ==
  ASSUME RingInv, StoreTypes, CallTypes, NEW c \in Clients, NEW a \in Keys, QueryRoute(c, a)
  PROVE  LET q == call[c]
             o == Owner(a)
         IN  /\ q \in Querying
             /\ \/ LET n == [q EXCEPT !.route = q.route \ {a},
                                      !.todo = {r \in q.todo : r[1] # o} \cup {Ref(o)},
                                      !.must = q.must \cup (IF o \in open
                                                           THEN Matches(q.authors, held[o])
                                                           ELSE {})]
                   IN  o \in shards /\ n \in Querying /\ call' = [call EXCEPT ![c] = n]
                \/ LET n == [q EXCEPT !.route = q.route \ {a}]
                   IN  n \in Querying /\ call' = [call EXCEPT ![c] = n]
<1> DEFINE q == call[c]
           o == Owner(a)
           T == {r \in q.todo : r[1] # o} \cup {Ref(o)}
           m == q.must \cup (IF o \in open THEN Matches(q.authors, held[o]) ELSE {})
           R == q.route \ {a}
<1>1. q \in Querying /\ call \in [Clients -> Call]
  BY CallFields DEF CallTypes, QueryRoute
<1>2. CASE Registered(a) /\ call' = [call EXCEPT ![c].route = @ \ {a},
             ![c].todo = {r \in @ : r[1] # o} \cup {Ref(o)},
             ![c].must = @ \cup IF o \in open THEN Matches(call[c].authors, held[o]) ELSE {}]
  <2> DEFINE n == [q EXCEPT !.route = R, !.todo = T, !.must = m]
  <2>1. o \in shards /\ o \in Nodes
    BY <1>2 DEF Registered, Owner, RingInv
  <2>2. T \in SUBSET Objects /\ R \in SUBSET Keys
    BY <1>1, <2>1 DEF Querying, Ref, Objects, StoreTypes
  <2>3. m \in SUBSET Events
    BY <1>1, <2>1, MatchesType DEF Querying, StoreTypes
  <2>4. n \in Querying
    <3> HIDE DEF q, o, T, m, R
    <3> QED BY <1>1, <2>2, <2>3 DEF Querying
  <2>5. call' = [call EXCEPT ![c] = n]
    BY <1>1, <1>2 DEF Querying
  <2> QED BY <1>1, <2>1, <2>4, <2>5
<1>3. CASE call' = [call EXCEPT ![c].route = @ \ {a}]
  <2> DEFINE n == [q EXCEPT !.route = R]
  <2>1. n \in Querying
    BY <1>1 DEF Querying
  <2>2. call' = [call EXCEPT ![c] = n]
    BY <1>1, <1>3 DEF Querying
  <2> QED BY <1>1, <2>1, <2>2
<1> QED BY <1>2, <1>3, Zenon DEF QueryRoute

LEMMA InsertTypes ==
  ASSUME CallTypes, NEW c \in Clients, NEW s \in Nodes, Insert(c) \/ InsertBatch(c, s)
  PROVE  CallTypes'
<1>1. ASSUME NEW q \in Call, NEW E,
             call' = [call EXCEPT ![c] = q] \/ call' = Spoil([call EXCEPT ![c] = q], E)
      PROVE  CallTypes'
  <2>1. [call EXCEPT ![c] = q] \in [Clients -> Call]
    BY CallSet DEF CallTypes
  <2>2. Spoil([call EXCEPT ![c] = q], E) \in [Clients -> Call]
    BY <2>1, SpoilCalls
  <2> QED BY <1>1, <2>1, <2>2 DEF CallTypes
<1>2. CASE Insert(c)
  <2>1. call' = Spoil([call EXCEPT ![c] = Idle], call[c].events)
    BY <1>2, Zenon DEF Insert
  <2> QED BY <1>1, <2>1, IdleCall
<1>3. CASE InsertBatch(c, s)
  <2> DEFINE B == call[c].batches
             E == {e \in DOMAIN B : B[e] = s}
             D == DOMAIN B \ E
             rest == [e \in D |-> B[e]]
             q == [call[c] EXCEPT !.batches = rest, !.events = D]
  <2>1. call[c] \in Batching
    BY <1>3, CallFields DEF CallTypes, InsertBatch
  <2>2. q \in Call
    <3>1. D \in SUBSET Events /\ rest \in [D -> Nodes]
      BY <2>1 DEF Batching
    <3> HIDE DEF D, rest
    <3>2. rest \in UNION {[F -> Nodes] : F \in SUBSET Events}
      BY <3>1
    <3>3. q \in Batching
      BY <2>1, <3>1, <3>2 DEF Batching
    <3> QED BY <3>3 DEF Call
  <2>3. \/ call' = Spoil([call EXCEPT ![c] = IF DOMAIN rest = {} THEN Idle ELSE q], E)
        \/ call' = [call EXCEPT ![c] = Idle]
        \/ call' = Spoil([call EXCEPT ![c] = Idle], E)
    BY <1>3, Zenon DEF InsertBatch, End
  <2>4. (IF DOMAIN rest = {} THEN Idle ELSE q) \in Call
    <3> HIDE DEF q, rest
    <3> QED BY <2>2, IdleCall
  <2> HIDE DEF q, rest, E
  <2> QED BY <1>1, <2>3, <2>4, IdleCall
<1> QED BY <1>2, <1>3

(* What a shard's answer, or its failure, makes of a query.                 *)
LEMMA AnsweredQuery ==
  ASSUME StoreTypes, CallTypes, NEW c \in Clients, NEW s \in Nodes, NEW k,
         QueryShard(c, <<s, k>>)
  PROVE  LET q == call[c]
             r == <<s, k>>
         IN  \/ /\ IsOpen(r)
                /\ \E a \in ShardQuery(Matches(q.authors, held[s]), q.limit) :
                     LET n == [q EXCEPT !.todo = q.todo \ {r}, !.all = q.all \o a]
                     IN  n \in Querying /\ call' = [call EXCEPT ![c] = n]
             \/ LET n == [q EXCEPT !.todo = q.todo \ {r}, !.must = {}]
                IN  n \in Querying /\ call' = [call EXCEPT ![c] = n]
<1> DEFINE q == call[c]
           r == <<s, k>>
<1>1. q \in Querying /\ call \in [Clients -> Call]
  BY CallFields DEF CallTypes, QueryShard
<1>2. CASE /\ IsOpen(r)
           /\ \E a \in ShardQuery(Matches(q.authors, held[r[1]]), q.limit) :
                call' = [call EXCEPT ![c].todo = @ \ {r}, ![c].all = @ \o a]
  <2>1. PICK a \in ShardQuery(Matches(q.authors, held[s]), q.limit) :
               call' = [call EXCEPT ![c].todo = @ \ {r}, ![c].all = @ \o a]
    BY <1>2
  <2> DEFINE n == [q EXCEPT !.todo = q.todo \ {r}, !.all = q.all \o a]
  <2>2. a \in Seq(Events)
    <3>1. Matches(q.authors, held[s]) \in SUBSET Events
      BY MatchesType DEF StoreTypes
    <3>2. q.limit \in Nat
      BY <1>1 DEF Querying
    <3> HIDE DEF q
    <3> QED BY <3>1, <3>2, ShardAnswer
  <2>3. n \in Querying
    <3>1. q.all \o a \in Seq(Events)
      BY <1>1, <2>2 DEF Querying
    <3> HIDE DEF q, r
    <3> QED BY <1>1, <3>1 DEF Querying
  <2>4. call' = [call EXCEPT ![c] = n]
    BY <1>1, <2>1 DEF Querying
  <2> QED BY <1>2, <2>3, <2>4
<1>3. CASE call' = [call EXCEPT ![c].todo = @ \ {r}, ![c].must = {}]
  <2> DEFINE n == [q EXCEPT !.todo = q.todo \ {r}, !.must = {}]
  <2>1. n \in Querying
    <3> HIDE DEF q, r
    <3> QED BY <1>1 DEF Querying
  <2>2. call' = [call EXCEPT ![c] = n]
    BY <1>1, <1>3 DEF Querying
  <2> QED BY <2>1, <2>2
<1>4. <1>2!1 \/ <1>3!1
  BY Zenon DEF QueryShard
<1> QED BY <1>2, <1>3, <1>4

LEMMA AskedTypes ==
  ASSUME StoreTypes, CallTypes, NEW c \in Clients, NEW s \in Nodes, NEW k,
         \/ Delete(c, <<s, k>>) \/ DeleteEvents(c, <<s, k>>)
         \/ GetByID(c, <<s, k>>) \/ QueryShard(c, <<s, k>>)
  PROVE  CallTypes'
<1>1. CASE Delete(c, <<s, k>>)
  <2> DEFINE next(f) == [f EXCEPT ![c] = IF call[c].todo = {<<s, k>>} THEN Idle
                                         ELSE [f[c] EXCEPT !.todo = @ \ {<<s, k>>}]]
  <2>1. call[c] \in Probing /\ call[c].op = "delete"
    BY <1>1, CallFields DEF CallTypes, Delete
  <2>2. ASSUME NEW W PROVE Forget(W)[c] = call[c] /\ Forget(W) \in [Clients -> Call]
    BY <2>1, ForgetCalls
  <2>3. [call[c] EXCEPT !.todo = @ \ {<<s, k>>}] \in Call
    BY <2>1 DEF Probing, Call
  <2>4. ASSUME NEW f \in [Clients -> Call], f[c] = call[c] PROVE next(f) \in [Clients -> Call]
    BY <2>3, <2>4, IdleCall
  <2>5. \/ \E W : call' = [Forget(W) EXCEPT ![c] = Idle]
        \/ call' = next(call)
        \/ \E W : call' = next(Forget(W))
    BY <1>1, Zenon DEF Delete
  <2> HIDE DEF next
  <2> QED BY <2>2, <2>4, <2>5, IdleCall, CallSet DEF CallTypes
<1>2. CASE DeleteEvents(c, <<s, k>>)
  <2> DEFINE after(f, ok) == [f EXCEPT ![c] =
                                IF call[c].todo = {<<s, k>>} THEN Idle
                                ELSE [f[c] EXCEPT !.todo = @ \ {<<s, k>>}, !.clean = @ /\ ok]]
  <2>1. call[c] \in Deleting /\ call[c].op = "deleteAll"
    BY <1>2, CallFields DEF CallTypes, DeleteEvents
  <2>2. ASSUME NEW W PROVE Forget(W)[c] = call[c] /\ Forget(W) \in [Clients -> Call]
    BY <2>1, ForgetCalls
  <2>3. ASSUME NEW ok \in BOOLEAN
        PROVE  [call[c] EXCEPT !.todo = @ \ {<<s, k>>}, !.clean = @ /\ ok] \in Call
    BY <2>1 DEF Deleting, Call
  <2>4. ASSUME NEW f \in [Clients -> Call], f[c] = call[c], NEW ok \in BOOLEAN
        PROVE  after(f, ok) \in [Clients -> Call]
    BY <2>3, <2>4, IdleCall
  <2>5. \/ \E W : call' = after(Forget(W), TRUE)
        \/ call' = after(call, s \notin shards)
        \/ \E W : call' = after(Forget(W), FALSE)
    BY <1>2 DEF DeleteEvents
  <2> HIDE DEF after
  <2> QED BY <2>2, <2>4, <2>5 DEF CallTypes
<1>3. CASE GetByID(c, <<s, k>>)
  <2>1. call[c] \in Probing
    BY <1>3, CallFields DEF CallTypes, GetByID
  <2>2. [call[c] EXCEPT !.todo = @ \ {<<s, k>>}] \in Call
    BY <2>1 DEF Probing, Call
  <2>3. \/ call' = [call EXCEPT ![c] = Idle]
        \/ call' = [call EXCEPT ![c] = [call[c] EXCEPT !.todo = @ \ {<<s, k>>}]]
    BY <1>3, Zenon DEF GetByID
  <2> QED BY <2>2, <2>3, IdleCall, CallSet DEF CallTypes
<1>4. CASE QueryShard(c, <<s, k>>)
  <2>1. PICK n \in Querying : call' = [call EXCEPT ![c] = n]
    BY <1>4, AnsweredQuery, Zenon
  <2>2. n \in Call
    BY DEF Call
  <2> QED BY <2>1, <2>2, CallSet DEF CallTypes
<1> QED BY <1>1, <1>2, <1>3, <1>4

LEMMA CallTypesStep ==
  ASSUME TypeInv, [Next]_vars
  PROVE  CallTypes'
<1>0. RingInv /\ StoreTypes /\ TaskTypes /\ CallTypes
  BY DEF TypeInv
<1>1. CASE call' = call
  BY <1>0, <1>1 DEF CallTypes
<1>2. CASE Starts
  BY <1>0, <1>2, StartTypes
<1>3. CASE \/ \E c \in Clients, e \in Events : InsertRoute(c, e)
           \/ \E c \in Clients, E \in SUBSET Events : InsertBatchStart(c, E)
           \/ \E c \in Clients, e \in Events : InsertBatchRoute(c, e)
  BY <1>0, <1>3, RouteTypes
<1>31. ASSUME NEW c \in Clients, NEW a \in Keys, QueryRoute(c, a) PROVE CallTypes'
  <2>1. PICK n \in Querying : call' = [call EXCEPT ![c] = n]
    BY <1>0, <1>31, QueryRouted, Zenon
  <2>2. n \in Call
    BY DEF Call
  <2> QED BY <1>0, <2>1, <2>2, CallSet DEF CallTypes
<1>4. ASSUME NEW c \in Clients, Insert(c) \/ QueryEnd(c) PROVE CallTypes'
  <2>1. CASE QueryEnd(c)
    BY <1>0, <2>1, IdleCall, CallSet DEF QueryEnd, End, CallTypes
  <2>2. CASE Insert(c)
    <3> DEFINE f == [call EXCEPT ![c] = Idle]
    <3>1. \E E : call' = Spoil(f, E)
      BY <2>2, Zenon DEF Insert
    <3>2. f \in [Clients -> Call]
      BY <1>0, IdleCall, CallSet DEF CallTypes
    <3> HIDE DEF f
    <3> QED BY <3>1, <3>2, SpoilCalls DEF CallTypes
  <2> QED BY <1>4, <2>1, <2>2
<1>5. CASE \E c \in Clients, s \in Nodes : InsertBatch(c, s)
  BY <1>0, <1>5, InsertTypes
<1>6. CASE \E c \in Clients, s \in Nodes : \E k \in 1 .. inst[s] :
             \/ Delete(c, <<s, k>>) \/ DeleteEvents(c, <<s, k>>)
             \/ GetByID(c, <<s, k>>) \/ QueryShard(c, <<s, k>>)
  BY <1>0, <1>6, AskedTypes
<1>7. CASE \E E : call' = Spoil(call, E) \/ call' = Forget(E)
  BY <1>0, <1>7, SpoilCalls, ForgetCalls DEF CallTypes
<1>8. CASE (\E s \in Nodes : AddShard(s) \/ RemoveShard(s)) \/ Close
  BY <1>7, <1>8 DEF AddShard, RemoveShard, Close
<1>9. CASE \E s \in Nodes : MigrateShard(s) \/ VerifyShard(s)
  <2>1. call' = call
    BY <1>9 DEF MigrateShard, VerifyShard
  <2> QED BY <1>1, <2>1
<1>10. CASE \/ StartRebalance \/ CancelCurrentTask \/ Stop
            \/ WorkerStop \/ WorkerExit \/ WorkerTick \/ WorkerBegin \/ WorkerPlan
            \/ MigrateEnd \/ VerifyEnd \/ WorkerFinish
  <2>1. call' = call
    BY <1>10 DEF StartRebalance, CancelCurrentTask, Stop, WorkerStop, WorkerExit, WorkerTick,
                 WorkerBegin, WorkerPlan, MigrateEnd, VerifyEnd, WorkerFinish
  <2> QED BY <1>1, <2>1
<1>11. CASE UNCHANGED vars
  BY <1>1, <1>11 DEF vars
<1> QED BY <1>2, <1>3, <1>31, <1>4, <1>5, <1>6, <1>8, <1>9, <1>10, <1>11, StepCases

-----------------------------------------------------------------------------
(* Sequences of tasks.                                                      *)

(* A task is replaced in place.                                             *)
LEMMA TaskReplaced ==
  ASSUME NEW S, NEW q \in Seq(S), NEW t \in 1 .. Len(q), NEW k \in S
  PROVE  /\ [q EXCEPT ![t] = k] \in Seq(S) /\ Len([q EXCEPT ![t] = k]) = Len(q)
         /\ \A u \in 1 .. Len(q) : [q EXCEPT ![t] = k][u] = IF u = t THEN k ELSE q[u]
OBVIOUS

(* A queue of some numbers is one of more numbers.                          *)
LEMMA QueueWidens ==
  ASSUME NEW S, NEW T, NEW q \in Seq(S), S \subseteq T
  PROVE  q \in Seq(T)
OBVIOUS

-----------------------------------------------------------------------------
(* The types hold.                                                          *)

LEMMA WorkerFields ==
  ASSUME NEW w \in Worker
  PROVE  /\ w.pc \in {"none", "stopping", "peek", "select"} => w \in Away
         /\ w.pc \in {"plan", "finish"} => w \in Planning
         /\ w.pc = "migrate" => w \in Migrating
         /\ w.pc = "verify" => w \in Verifying
         /\ w.pc \in {"none", "stopping", "peek", "select", "plan", "finish",
                     "migrate", "verify"}
BY DEF Worker, Away, Planning, Migrating, Verifying

LEMMA StoreTypesStep ==
  ASSUME TypeInv, [Next]_vars
  PROVE  StoreTypes'
<1>0. RingInv /\ StoreTypes /\ TaskTypes /\ CallTypes
  BY DEF TypeInv
<1>1. CASE UNCHANGED <<shards, inst, held, adds, removes, acked>>
  BY <1>0, <1>1 DEF StoreTypes
<1>2. CASE Writes
  BY <1>0, <1>2 DEF Writes, Write, StoreTypes
<1>3. CASE Erases
  BY <1>0, <1>3 DEF Erases, Erase, StoreTypes
<1>4. CASE \E s \in Nodes : AddShard(s)
  BY <1>0, <1>4 DEF AddShard, StoreTypes
<1>5. CASE \E s \in Nodes : RemoveShard(s)
  BY <1>0, <1>5 DEF RemoveShard, StoreTypes
<1>6. CASE Close
  BY <1>0, <1>6 DEF Close, history, StoreTypes
<1>8. CASE \/ StartRebalance \/ CancelCurrentTask \/ Stop
           \/ WorkerStop \/ WorkerExit \/ WorkerTick \/ WorkerBegin \/ WorkerPlan
           \/ (\E s \in Nodes : MigrateShard(s) \/ VerifyShard(s))
           \/ MigrateEnd \/ VerifyEnd \/ WorkerFinish
  <2>1. UNCHANGED <<shards, inst, held, adds, removes, acked>>
    BY <1>8 DEF StartRebalance, CancelCurrentTask, Stop, WorkerStop, WorkerExit,
                WorkerTick, WorkerBegin, WorkerPlan, MigrateShard, VerifyShard,
                MigrateEnd, VerifyEnd, CleanupOldShard, WorkerFinish, stores, counters, history
  <2> QED BY <1>1, <2>1
<1>9. CASE Quiet
  BY <1>1, <1>9 DEF Quiet, stores
<1> QED BY <1>0, <1>2, <1>3, <1>4, <1>5, <1>6, <1>8, <1>9, Effects

-----------------------------------------------------------------------------
(* Every task is accounted for.                                             *)

(* The goroutine works on the head of the queue, and leaves it only when    *)
(* its status is final.                                                     *)
QueueInv ==
  /\ worker.pc \in {"plan", "migrate", "verify", "finish"} =>
       queue # <<>> /\ worker.task = Head(queue)
  /\ worker.pc = "finish" => tasks[worker.task].status \in {"completed", "failed"}
  /\ TasksCounted

LEMMA TasksSet ==
  ASSUME TaskTypes, NEW t \in 1 .. Len(tasks)
  PROVE  /\ \A x \in {"running", "completed", "failed"} :
              /\ SetStatus(t, x) \in Seq(Task) /\ Len(SetStatus(t, x)) = Len(tasks)
              /\ \A u \in 1 .. Len(tasks) :
                   SetStatus(t, x)[u] = IF u = t THEN [tasks[t] EXCEPT !.status = x]
                                                 ELSE tasks[u]
         /\ RecordEvent(t) => /\ tasks' \in Seq(Task) /\ Len(tasks') = Len(tasks)
                          /\ \A u \in 1 .. Len(tasks) :
                               tasks'[u] = IF u = t THEN [tasks[t] EXCEPT !.failures = TRUE]
                                                    ELSE tasks[u]
<1>0. /\ tasks \in Seq(Task) /\ Len(tasks) \in Nat
      /\ DOMAIN tasks = 1 .. Len(tasks) /\ tasks[t] \in Task
  BY DEF TaskTypes
<1>1. ASSUME NEW k \in Task
      PROVE  /\ [tasks EXCEPT ![t] = k] \in Seq(Task) /\ Len([tasks EXCEPT ![t] = k]) = Len(tasks)
             /\ \A u \in 1 .. Len(tasks) :
                  [tasks EXCEPT ![t] = k][u] = IF u = t THEN k ELSE tasks[u]
  BY <1>0, TaskReplaced
<1>2. ASSUME NEW x \in {"running", "completed", "failed"}
      PROVE  /\ [tasks[t] EXCEPT !.status = x] \in Task
             /\ SetStatus(t, x) = [tasks EXCEPT ![t] = [tasks[t] EXCEPT !.status = x]]
  BY <1>0 DEF Task, SetStatus
<1>3. /\ [tasks[t] EXCEPT !.failures = TRUE] \in Task
      /\ RecordEvent(t) <=> tasks' = [tasks EXCEPT ![t] = [tasks[t] EXCEPT !.failures = TRUE]]
  BY <1>0 DEF Task, RecordEvent
<1>4. ASSUME NEW x \in {"running", "completed", "failed"}
      PROVE  /\ SetStatus(t, x) \in Seq(Task) /\ Len(SetStatus(t, x)) = Len(tasks)
             /\ \A u \in 1 .. Len(tasks) :
                  SetStatus(t, x)[u] = IF u = t THEN [tasks[t] EXCEPT !.status = x]
                                                ELSE tasks[u]
  <2> DEFINE k == [tasks[t] EXCEPT !.status = x]
  <2>1. k \in Task /\ SetStatus(t, x) = [tasks EXCEPT ![t] = k]
    BY <1>2
  <2> HIDE DEF k
  <2>2. /\ SetStatus(t, x) \in Seq(Task) /\ Len(SetStatus(t, x)) = Len(tasks)
        /\ \A u \in 1 .. Len(tasks) : SetStatus(t, x)[u] = IF u = t THEN k ELSE tasks[u]
    BY <1>1, <2>1
  <2> QED BY <2>2 DEF k
<1>5. ASSUME RecordEvent(t)
      PROVE  /\ tasks' \in Seq(Task) /\ Len(tasks') = Len(tasks)
             /\ \A u \in 1 .. Len(tasks) :
                  tasks'[u] = IF u = t THEN [tasks[t] EXCEPT !.failures = TRUE] ELSE tasks[u]
  <2> DEFINE k == [tasks[t] EXCEPT !.failures = TRUE]
  <2>1. k \in Task /\ tasks' = [tasks EXCEPT ![t] = k]
    BY <1>3, <1>5
  <2> HIDE DEF k
  <2>2. /\ tasks' \in Seq(Task) /\ Len(tasks') = Len(tasks)
        /\ \A u \in 1 .. Len(tasks) : tasks'[u] = IF u = t THEN k ELSE tasks[u]
    BY <1>1, <2>1
  <2> QED BY <2>2 DEF k
<1> QED BY <1>4, <1>5, Zenon

(* The task the goroutine works on exists.                                  *)
LEMMA TaskAtHand ==
  ASSUME TaskTypes, QueueInv, worker.pc \in {"plan", "migrate", "verify", "finish"}
  PROVE  /\ worker.task \in 1 .. Len(tasks)
         /\ tasks[worker.task] \in Task
         /\ queue # <<>> /\ worker.task = Head(queue)
BY DEF TaskTypes, QueueInv

LEMMA ErasedTasks ==
  ASSUME TaskTypes, NEW s, NEW W, Erase(s, W)
  PROVE  /\ tasks' \in Seq(Task) /\ Len(tasks') = Len(tasks)
         /\ \A u \in 1 .. Len(tasks) :
              tasks'[u] = [tasks[u] EXCEPT !.covered = @ \ (held[s] \cap W)]
<1>1. /\ \A u \in 1 .. Len(tasks) : tasks[u] \in Task
      /\ DOMAIN tasks = 1 .. Len(tasks) /\ Len(tasks) \in Nat
  BY DEF TaskTypes
<1>2. tasks' = [u \in 1 .. Len(tasks) |-> [tasks[u] EXCEPT !.covered = @ \ (held[s] \cap W)]]
  BY <1>1 DEF Erase
<1>3. \A u \in 1 .. Len(tasks) : [tasks[u] EXCEPT !.covered = @ \ (held[s] \cap W)] \in Task
  BY <1>1 DEF Task
<1> QED BY <1>1, <1>2, <1>3

(* Steps that keep the number of tasks, the queue and the goroutine's place.*)
LEMMA QueueKept ==
  ASSUME TaskTypes, QueueInv, tasks' \in Seq(Task), Len(tasks') = Len(tasks),
         UNCHANGED <<queue, metrics>>,
         worker' \in Worker,
         worker'.pc \in {"plan", "migrate", "verify", "finish"} =>
           /\ worker.pc \in {"plan", "migrate", "verify", "finish"}
           /\ worker'.task = worker.task,
         worker'.pc = "finish" => tasks'[worker'.task].status \in {"completed", "failed"}
  PROVE  TaskTypes' /\ QueueInv'
BY DEF TaskTypes, QueueInv, TasksCounted

LEMMA QueueClients ==
  ASSUME TaskTypes, QueueInv, Quiet \/ Writes \/ Erases
  PROVE  TaskTypes' /\ QueueInv'
<1>1. CASE UNCHANGED rebalance
  BY <1>1 DEF rebalance, TaskTypes, QueueInv, TasksCounted
<1>2. CASE Erases
  <2>1. PICK s \in open, W \in SUBSET Events : Erase(s, W)
    BY <1>2 DEF Erases
  <2>2. UNCHANGED <<queue, metrics, worker>>
    BY <1>2 DEF Erases
  <2>3. /\ tasks' \in Seq(Task) /\ Len(tasks') = Len(tasks)
        /\ \A u \in 1 .. Len(tasks) :
              tasks'[u] = [tasks[u] EXCEPT !.covered = @ \ (held[s] \cap W)]
    BY <2>1, ErasedTasks
  <2>4. ASSUME worker'.pc = "finish" PROVE tasks'[worker'.task].status \in {"completed", "failed"}
    <3>1. worker.task \in 1 .. Len(tasks) /\ tasks[worker.task] \in Task
      BY <2>2, <2>4, TaskAtHand
    <3>2. tasks[worker.task].status \in {"completed", "failed"}
      BY <2>2, <2>4 DEF QueueInv
    <3>3. tasks'[worker.task].status = tasks[worker.task].status
      BY <2>3, <3>1 DEF Task
    <3> QED BY <2>2, <3>2, <3>3
  <2>5. worker' \in Worker
    BY <2>2 DEF TaskTypes
  <2> QED BY <2>2, <2>3, <2>4, <2>5, QueueKept
<1>3. CASE Quiet \/ Writes
  BY <1>1, <1>3 DEF Quiet, Writes
<1> QED BY <1>2, <1>3

LEMMA QueueAdmin ==
  ASSUME RingInv, StoreTypes, TaskTypes, QueueInv,
         \/ \E s \in Nodes : AddShard(s) \/ RemoveShard(s)
         \/ Close \/ StartRebalance \/ CancelCurrentTask \/ Stop
  PROVE  TaskTypes' /\ QueueInv'
<1>1. CASE (\E s \in Nodes : AddShard(s) \/ RemoveShard(s)) \/ Close
  <2>1. UNCHANGED rebalance
    BY <1>1 DEF AddShard, RemoveShard, Close
  <2> QED BY <2>1 DEF rebalance, TaskTypes, QueueInv, TasksCounted
<1>2. CASE StartRebalance
  <2> DEFINE k == [status |-> "running", covered |-> acked,
                   topology |-> Topology, failures |-> FALSE]
             n == Len(tasks)
  <2>1. /\ tasks' = Append(tasks, k) /\ queue' = Append(queue, n + 1)
        /\ metrics' = metrics
        /\ worker' = IF running THEN worker ELSE Select
    BY <1>2 DEF StartRebalance
  <2>2. k \in Task
    BY DEF Task, StoreTypes, Topology
  <2>3. /\ tasks \in Seq(Task) /\ queue \in Seq(1 .. n) /\ n \in Nat
        /\ Len(queue) \in Nat
    BY DEF TaskTypes
  <2> HIDE DEF k, n
  <2>4. /\ tasks' \in Seq(Task) /\ Len(tasks') = n + 1
        /\ \A u \in 1 .. n : tasks'[u] = tasks[u]
    BY <2>1, <2>2, <2>3 DEF n
  <2>5. queue \in Seq(1 .. n + 1)
    <3>1. 1 .. n \subseteq 1 .. n + 1 BY <2>3
    <3> QED BY <2>3, <3>1, QueueWidens
  <2>6. /\ queue' \in Seq(1 .. n + 1) /\ Len(queue') = Len(queue) + 1
        /\ queue # <<>> => Head(queue') = Head(queue)
        /\ queue' # <<>>
    BY <2>1, <2>3, <2>5
  <2>7. worker' \in Worker /\ (worker'.pc # "select" => worker' = worker)
    BY <2>1 DEF TaskTypes, Select, Worker, Away
  <2>9. TaskTypes'
    BY <2>1, <2>4, <2>6, <2>7 DEF TaskTypes
  <2>10. TasksCounted'
    BY <2>1, <2>3, <2>4, <2>6 DEF QueueInv, TasksCounted, TaskTypes, n
  <2>11. ASSUME worker'.pc \in {"plan", "migrate", "verify", "finish"}
         PROVE  /\ queue' # <<>> /\ worker'.task = Head(queue')
                /\ worker'.pc = "finish" => tasks'[worker'.task].status \in {"completed", "failed"}
    <3>1. worker' = worker
      BY <2>7, <2>11
    <3>2. worker.task \in 1 .. n /\ queue # <<>> /\ worker.task = Head(queue)
      BY <2>11, <3>1, TaskAtHand DEF n
    <3> QED BY <2>4, <2>6, <3>1, <3>2 DEF QueueInv
  <2> QED BY <2>9, <2>10, <2>11 DEF QueueInv
<1>3. CASE CancelCurrentTask
  <2>1. Current \in 1 .. Len(tasks) /\ tasks[Current].status = "running"
    BY <1>3 DEF CancelCurrentTask, IsRebalancing, Current, TaskTypes
  <2>2. tasks' = SetStatus(Current, "failed") /\ UNCHANGED <<queue, metrics, worker>>
    BY <1>3 DEF CancelCurrentTask
  <2>3. /\ tasks' \in Seq(Task) /\ Len(tasks') = Len(tasks)
        /\ \A u \in 1 .. Len(tasks) :
             tasks'[u] = IF u = Current THEN [tasks[Current] EXCEPT !.status = "failed"]
                                        ELSE tasks[u]
    BY <2>1, <2>2, TasksSet
  <2>4. ASSUME worker'.pc = "finish" PROVE tasks'[worker'.task].status \in {"completed", "failed"}
    <3>1. worker.task \in 1 .. Len(tasks)
      BY <2>2, <2>4, TaskAtHand
    <3>2. tasks[worker.task].status \in {"completed", "failed"}
      BY <2>2, <2>4 DEF QueueInv
    <3>3. tasks'[worker.task] = tasks[worker.task]
      BY <2>1, <2>3, <3>1, <3>2
    <3> QED BY <2>2, <3>2, <3>3
  <2>5. worker' \in Worker
    BY <2>2 DEF TaskTypes
  <2> QED BY <2>2, <2>3, <2>4, <2>5, QueueKept
<1>4. CASE Stop
  <2>1. UNCHANGED <<tasks, queue, metrics>>
    BY <1>4 DEF Stop
  <2>2. worker' \in Worker /\ worker'.pc = worker.pc /\ (worker.pc # "select" => worker' = worker)
    <3>1. CASE worker.pc = "select"
      <4>1. worker \in [pc : {"select"}, stopped : BOOLEAN]
        BY <3>1, WorkerFields DEF TaskTypes, Away
      <4>2. worker' = [worker EXCEPT !.stopped = TRUE]
        BY <1>4, <3>1 DEF Stop
      <4> QED BY <4>1, <4>2, <3>1 DEF Worker, Away
    <3>2. CASE worker.pc # "select"
      BY <1>4, <3>2 DEF Stop, TaskTypes
    <3> QED BY <3>1, <3>2
  <2> QED BY <2>1, <2>2 DEF TaskTypes, QueueInv, TasksCounted
<1> QED BY <1>1, <1>2, <1>3, <1>4

(* Steps that only move the goroutine, and at most record an event.         *)
LEMMA QueueMoves ==
  ASSUME TaskTypes, QueueInv, UNCHANGED <<queue, metrics>>,
         worker' \in Worker, worker'.pc # "finish",
         \/ worker'.pc \in {"none", "stopping", "peek", "select"} /\ tasks' = tasks
         \/ /\ worker.pc \in {"plan", "migrate", "verify"}
            /\ worker'.task = worker.task
            /\ tasks' = tasks \/ RecordEvent(worker.task)
  PROVE  TaskTypes' /\ QueueInv'
<1>1. CASE worker'.pc \in {"none", "stopping", "peek", "select"} /\ tasks' = tasks
  <2>1. tasks' \in Seq(Task) /\ Len(tasks') = Len(tasks)
    BY <1>1 DEF TaskTypes
  <2> QED BY <1>1, <2>1, QueueKept
<1>2. CASE /\ worker.pc \in {"plan", "migrate", "verify"}
           /\ worker'.task = worker.task
           /\ tasks' = tasks \/ RecordEvent(worker.task)
  <2>1. worker.task \in 1 .. Len(tasks)
    BY <1>2, TaskAtHand
  <2>2. tasks' \in Seq(Task) /\ Len(tasks') = Len(tasks)
    BY <1>2, <2>1, TasksSet DEF TaskTypes
  <2> QED BY <1>2, <2>2, QueueKept
<1> QED BY <1>1, <1>2

(* processQueue: the select, the head of the queue, and the end of a task.  *)
LEMMA QueueScheduling ==
  ASSUME TypeInv, QueueInv,
         \/ WorkerStop \/ WorkerExit \/ WorkerTick
         \/ WorkerBegin \/ WorkerPlan \/ WorkerFinish
  PROVE  TaskTypes' /\ QueueInv'
<1> DEFINE t == worker.task
<1>0. RingInv /\ StoreTypes /\ TaskTypes /\ CallTypes
  BY DEF TypeInv
<1>1. CASE WorkerStop \/ WorkerExit \/ WorkerTick
  <2>1. /\ UNCHANGED <<tasks, queue, metrics>>
        /\ worker' \in {[pc |-> "stopping"], NoWorker, [pc |-> "peek"]}
    BY <1>1 DEF WorkerStop, WorkerExit, WorkerTick
  <2>2. worker' \in Worker /\ worker'.pc \in {"none", "stopping", "peek"}
    BY <2>1 DEF Worker, Away, NoWorker
  <2> QED BY <1>0, <2>1, <2>2, QueueMoves
<1>2. CASE WorkerBegin
  <2>0. UNCHANGED <<queue, metrics>>
    BY <1>2 DEF WorkerBegin
  <2>1. CASE worker' = Select /\ tasks' = tasks
    <3>1. worker' \in Worker /\ worker'.pc = "select"
      BY <2>1 DEF Worker, Away, Select
    <3> QED BY <1>0, <2>0, <2>1, <3>1, QueueMoves
  <2>2. CASE /\ queue # <<>> /\ worker' = [pc |-> "plan", task |-> Head(queue)]
             /\ tasks' = SetStatus(Head(queue), "running")
    <3>1. Head(queue) \in 1 .. Len(tasks) /\ Head(queue) \in Nat
      BY <1>0, <2>2 DEF TaskTypes
    <3>2. tasks' \in Seq(Task) /\ Len(tasks') = Len(tasks)
      BY <1>0, <2>2, <3>1, TasksSet
    <3>3. worker' \in Worker /\ worker'.pc = "plan" /\ worker'.task = Head(queue)
      BY <2>2, <3>1 DEF Worker, Planning
    <3> QED BY <1>0, <2>0, <2>2, <3>2, <3>3 DEF TaskTypes, QueueInv, TasksCounted
  <2> QED BY <1>2, <2>1, <2>2 DEF WorkerBegin
<1>3. CASE WorkerPlan
  <2>1. /\ worker.pc = "plan" /\ UNCHANGED <<tasks, queue, metrics>>
        /\ worker' = [pc |-> "migrate", task |-> t,
                      plan |-> IF Cardinality(shards) > 1 THEN shards ELSE {}]
    BY <1>3 DEF WorkerPlan
  <2>2. t \in Nat /\ shards \in SUBSET Nodes
    BY <1>0, <2>1, TaskAtHand DEF TaskTypes, RingInv
  <2>3. worker' \in Worker /\ worker'.pc = "migrate" /\ worker'.task = t
    BY <2>1, <2>2 DEF Worker, Migrating
  <2> HIDE DEF t
  <2> QED BY <1>0, <2>1, <2>3, QueueMoves DEF t
<1>4. CASE WorkerFinish
  <2>1. /\ worker.pc = "finish" /\ UNCHANGED tasks
        /\ worker' = Select
        /\ metrics' = [metrics EXCEPT
                         !.completed = IF tasks[t].status = "completed" THEN @ + 1 ELSE @,
                         !.failed    = IF tasks[t].status = "failed" THEN @ + 1 ELSE @]
        /\ queue' = IF tasks[t].status \in {"completed", "failed"} THEN Tail(queue) ELSE queue
    BY <1>4 DEF WorkerFinish
  <2>2. queue # <<>> /\ tasks[t].status \in {"completed", "failed"}
    BY <1>0, <2>1, TaskAtHand DEF QueueInv
  <2>3. /\ queue' \in Seq(1 .. Len(tasks)) /\ Len(queue') = Len(queue) - 1 /\ Len(queue) \in Nat
    BY <1>0, <2>1, <2>2 DEF TaskTypes
  <2>4. /\ metrics' \in [completed : Nat, failed : Nat]
        /\ metrics'.completed + metrics'.failed = metrics.completed + metrics.failed + 1
        /\ metrics.completed \in Nat /\ metrics.failed \in Nat
    <3>1. metrics.completed \in Nat /\ metrics.failed \in Nat
      BY <1>0 DEF TaskTypes
    <3> DEFINE a == IF tasks[t].status = "completed" THEN metrics.completed + 1
                                                     ELSE metrics.completed
               b == IF tasks[t].status = "failed" THEN metrics.failed + 1 ELSE metrics.failed
    <3>2. metrics' = [completed |-> a, failed |-> b]
      BY <1>0, <2>1 DEF TaskTypes
    <3>3. a \in Nat /\ b \in Nat /\ a + b = metrics.completed + metrics.failed + 1
      BY <2>2, <3>1
    <3> HIDE DEF a, b
    <3> QED BY <3>1, <3>2, <3>3
  <2>5. worker' \in Worker /\ worker'.pc = "select"
    BY <2>1 DEF Worker, Away, Select
  <2>6. TaskTypes'
    BY <1>0, <2>1, <2>3, <2>4, <2>5 DEF TaskTypes
  <2>7. TasksCounted'
    <3>1. TasksCounted /\ tasks' = tasks
      BY <2>1 DEF QueueInv
    <3> QED BY <2>3, <2>4, <3>1 DEF TasksCounted
  <2> QED BY <2>5, <2>6, <2>7 DEF QueueInv
<1> QED BY <1>1, <1>2, <1>3, <1>4

(* The goroutine migrates.                                                  *)
LEMMA QueueMigration ==
  ASSUME TypeInv, QueueInv,
         \/ MigrateEnd
         \/ \E s \in Nodes : MigrateShard(s)
  PROVE  TaskTypes' /\ QueueInv'
<1> DEFINE t == worker.task
<1>0. RingInv /\ StoreTypes /\ TaskTypes /\ CallTypes
  BY DEF TypeInv
<1>1. ASSUME NEW s \in Nodes, MigrateShard(s) PROVE TaskTypes' /\ QueueInv'
  <2>1. worker.pc = "migrate" /\ s \in worker.plan /\ UNCHANGED <<queue, metrics>>
    BY <1>1 DEF MigrateShard
  <2>2. worker \in Migrating
    BY <1>0, <2>1, WorkerFields DEF TaskTypes
  <2>3. t \in Nat /\ worker.plan \ {s} \in SUBSET Nodes
    BY <2>2 DEF Migrating
  <2>4. t \in 1 .. Len(tasks)
    BY <1>0, <2>1, TaskAtHand
  <2>5. CASE /\ worker' = [worker EXCEPT !.plan = worker.plan \ {s}]
             /\ tasks' = tasks \/ RecordEvent(t)
    <3>1. worker' \in Worker /\ worker'.pc = "migrate" /\ worker'.task = t
      BY <2>2, <2>5 DEF Worker, Migrating
    <3> QED BY <1>0, <2>1, <2>5, <3>1, QueueMoves
  <2>7. CASE worker' = [pc |-> "finish", task |-> t] /\ tasks' = SetStatus(t, "failed")
    <3>1. worker' \in Worker /\ worker'.pc = "finish" /\ worker'.task = t
      BY <2>3, <2>7 DEF Worker, Planning
    <3>2. /\ tasks' \in Seq(Task) /\ Len(tasks') = Len(tasks)
          /\ tasks'[t] = [tasks[t] EXCEPT !.status = "failed"]
      BY <1>0, <2>4, <2>7, TasksSet
    <3>3. tasks'[t].status = "failed"
      BY <1>0, <2>4, <3>2 DEF TaskTypes, Task
    <3> QED BY <1>0, <2>1, <3>1, <3>2, <3>3, QueueKept
  <2> QED BY <1>1, <2>5, <2>7, Zenon DEF MigrateShard
<1>4. CASE MigrateEnd
  <2>1. /\ worker.pc = "migrate" /\ UNCHANGED <<queue, metrics>>
        /\ worker' = Verify(worker)
        /\ tasks' = tasks \/ RecordEvent(t)
    BY <1>4 DEF MigrateEnd
  <2>2. worker \in Migrating
    BY <1>0, <2>1, WorkerFields DEF TaskTypes
  <2>3. worker' \in Worker /\ worker'.pc = "verify" /\ worker'.task = t
    BY <1>0, <2>1, <2>2 DEF Worker, Migrating, Verifying, Verify, RingInv
  <2> QED BY <1>0, <2>1, <2>3, QueueMoves
<1> QED BY <1>1, <1>4

(* The goroutine verifies.                                                  *)
LEMMA QueueVerification ==
  ASSUME TypeInv, QueueInv,
         VerifyEnd \/ \E s \in Nodes : VerifyShard(s)
  PROVE  TaskTypes' /\ QueueInv'
<1> DEFINE t == worker.task
<1>0. RingInv /\ StoreTypes /\ TaskTypes /\ CallTypes
  BY DEF TypeInv
<1>1. ASSUME NEW s \in Nodes, VerifyShard(s) PROVE TaskTypes' /\ QueueInv'
  <2>1. worker.pc = "verify" /\ UNCHANGED <<queue, metrics>>
    BY <1>1 DEF VerifyShard
  <2>2. t \in 1 .. Len(tasks) /\ worker \in Verifying
    BY <1>0, <2>1, TaskAtHand, WorkerFields DEF TaskTypes
  <2>3. /\ worker' = [worker EXCEPT !.todo = worker.todo \ {s}]
        /\ tasks' = tasks \/ RecordEvent(t)
    BY <1>1 DEF VerifyShard
  <2>4. worker' \in Worker /\ worker'.pc = "verify" /\ worker'.task = t
    BY <2>2, <2>3 DEF Verifying, Worker
  <2> QED BY <1>0, <2>1, <2>3, <2>4, QueueMoves
<1>2. CASE VerifyEnd
  <2>1. /\ worker.pc = "verify" /\ UNCHANGED <<queue, metrics>>
        /\ worker' = [pc |-> "finish", task |-> t]
        /\ tasks' = SetStatus(t, "completed")
    BY <1>2 DEF VerifyEnd
  <2>2. t \in 1 .. Len(tasks)
    BY <1>0, <2>1, TaskAtHand
  <2>3. worker' \in Worker /\ worker'.pc = "finish" /\ worker'.task = t
    BY <2>1, <2>2 DEF Worker, Planning
  <2>4. /\ tasks' \in Seq(Task) /\ Len(tasks') = Len(tasks)
        /\ tasks'[t] = [tasks[t] EXCEPT !.status = "completed"]
    BY <1>0, <2>1, <2>2, TasksSet
  <2>5. tasks'[t].status = "completed"
    BY <1>0, <2>2, <2>4 DEF TaskTypes, Task
  <2> QED BY <1>0, <2>1, <2>3, <2>4, <2>5, QueueKept
<1> QED BY <1>1, <1>2

-----------------------------------------------------------------------------
LEMMA TypeInvInit == Init => TypeInv /\ QueueInv
<1> SUFFICES ASSUME Init PROVE TypeInv /\ QueueInv
  OBVIOUS
<1>1. RingInv
  BY RingInvInit
<1>2. StoreTypes
  BY ShardConstants DEF Init, StoreTypes
<1>5. worker \in Worker /\ worker.pc = "none"
  BY DEF Init, NoWorker, Worker, Away
<1>6. /\ tasks = <<>> /\ queue = <<>> /\ metrics.completed = 0 /\ metrics.failed = 0
      /\ metrics \in [completed : Nat, failed : Nat]
  BY DEF Init
<1>7. TaskTypes
  BY <1>5, <1>6 DEF TaskTypes
<1>8. QueueInv
  BY <1>5, <1>6 DEF QueueInv, TasksCounted
<1>9. CallTypes
  BY IdleCall DEF Init, CallTypes
<1> QED BY <1>1, <1>2, <1>7, <1>8, <1>9 DEF TypeInv

LEMMA TypeInvStep ==
  ASSUME TypeInv, QueueInv, [Next]_vars
  PROVE  TypeInv' /\ QueueInv'
<1>0. RingInv /\ StoreTypes /\ TaskTypes /\ CallTypes
  BY DEF TypeInv
<1>1. TaskTypes' /\ QueueInv'
  BY <1>0, QueueClients, QueueAdmin, QueueScheduling, QueueMigration, QueueVerification, Effects
<1> QED BY <1>0, <1>1, RingInvStep, StoreTypesStep, CallTypesStep DEF TypeInv

LEMMA TypesAlways == Spec => [](TypeInv /\ QueueInv)
BY TypeInvInit, TypeInvStep, PTL DEF Spec

(* For every number of tasks, shards and calls, through cancellations,      *)
(* failures, stops and restarts of the goroutine: every task StartRebalance *)
(* queued is still in the queue or was counted once, as completed or as     *)
(* failed.                                                                  *)
THEOREM TasksCountedAlways == Spec => []TasksCounted
<1>1. QueueInv => TasksCounted
  BY DEF QueueInv
<1> QED BY <1>1, TypesAlways, PTL
=============================================================================
