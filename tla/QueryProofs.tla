---------------------------- MODULE QueryProofs ----------------------------
(* What a federated query returns, proved for every set of shards, clients  *)
(* and events.                                                              *)
EXTENDS ShardStoreProofs

-----------------------------------------------------------------------------
(* The merge of the shards' answers.                                        *)

LEMMA NewerOrder ==
  ASSUME NEW d \in Events, NEW e \in Events
  PROVE  /\ Newer(d, e) \/ Newer(e, d) \/ d = e
         /\ ~(Newer(d, e) /\ Newer(e, d))
         /\ ~Newer(d, e) => CreatedAt[e] >= CreatedAt[d]
         /\ \A x \in Events : Newer(d, e) /\ Newer(e, x) => Newer(d, x)
<1>1. \A x \in Events : x \in Nat /\ CreatedAt[x] \in Nat
  BY ShardConstants
<1> QED BY <1>1 DEF Newer, IdBefore

(* Answers can be sorted: by how many answers come before each of them.     *)
LEMMA SortExists ==
  ASSUME NEW D \in SUBSET Nat, IsFiniteSet(D), NEW f \in [D -> Events]
  PROVE  LET places == 1 .. Cardinality(D)
         IN  \E p \in Bijection(places, D) :
               \A i, j \in places : i < j => ~Newer(f[p[j]], f[p[i]])
<1> DEFINE places == 1 .. Cardinality(D)
           Before(x, y) == Newer(f[x], f[y]) \/ (f[x] = f[y] /\ x < y)
           Earlier(x) == {y \in D : Before(y, x)}
           rank == [x \in D |-> Cardinality(Earlier(x)) + 1]
<1>1. ASSUME NEW x \in D, NEW y \in D, NEW z \in D
      PROVE  /\ Before(x, y) \/ Before(y, x) \/ x = y
             /\ ~Before(x, x)
             /\ Before(z, x) /\ Before(x, y) => Before(z, y)
  <2>1. f[x] \in Events /\ f[y] \in Events /\ f[z] \in Events
    OBVIOUS
  <2>2. x \in Nat /\ y \in Nat /\ z \in Nat
    OBVIOUS
  <2>3. /\ Newer(f[x], f[y]) \/ Newer(f[y], f[x]) \/ f[x] = f[y]
        /\ ~Newer(f[x], f[x])
        /\ Newer(f[z], f[x]) /\ Newer(f[x], f[y]) => Newer(f[z], f[y])
    BY <2>1, NewerOrder
  <2> QED BY <2>2, <2>3
<1> HIDE DEF Before
<1>2. Cardinality(D) \in Nat
  BY FS_CardinalityType
<1>3. ASSUME NEW x \in D
      PROVE  IsFiniteSet(Earlier(x)) /\ Cardinality(Earlier(x)) \in Nat /\ rank[x] \in places
  <2>1. Earlier(x) \in SUBSET D /\ x \notin Earlier(x)
    BY <1>1
  <2>2. /\ IsFiniteSet(Earlier(x)) /\ Cardinality(Earlier(x)) <= Cardinality(D)
        /\ Cardinality(Earlier(x)) # Cardinality(D)
    <3> HIDE DEF Earlier
    <3> QED BY <2>1, FS_Subset
  <2>3. Cardinality(Earlier(x)) \in Nat
    <3> HIDE DEF Earlier
    <3> QED BY <2>2, FS_CardinalityType
  <2> HIDE DEF Earlier
  <2> QED BY <1>2, <2>2, <2>3
<1>4. ASSUME NEW x \in D, NEW y \in D, Before(x, y) PROVE rank[x] < rank[y]
  <2>1. Earlier(x) \in SUBSET Earlier(y) /\ x \in Earlier(y) /\ x \notin Earlier(x)
    BY <1>1, <1>4
  <2>2. IsFiniteSet(Earlier(y)) /\ Cardinality(Earlier(x)) \in Nat /\ Cardinality(Earlier(y)) \in Nat
    BY <1>3
  <2> HIDE DEF Earlier
  <2>3. Cardinality(Earlier(x)) <= Cardinality(Earlier(y)) /\ Cardinality(Earlier(x)) # Cardinality(Earlier(y))
    BY <2>1, <2>2, FS_Subset
  <2> QED BY <2>2, <2>3
<1>5. rank \in [D -> places]
  BY <1>3
<1>6. \A x \in D : rank[x] \in Nat
  BY <1>2, <1>5
<1> HIDE DEF Earlier, rank
<1>7. rank \in Injection(D, places)
  <2>1. ASSUME NEW x \in D, NEW y \in D, rank[x] = rank[y] PROVE x = y
    BY <1>1, <1>4, <1>6, <2>1
  <2> QED BY <1>5, <2>1 DEF Injection, IsInjective
<1>8. rank \in Surjection(D, places)
  <2>1. IsFiniteSet(places) /\ Cardinality(places) = Cardinality(D)
    BY <1>2, FS_Interval
  <2> HIDE DEF places
  <2> QED BY <1>7, <2>1, FS_Injection
<1> DEFINE p == [i \in places |-> CHOOSE x \in D : rank[x] = i]
<1>9. \A i \in places : p[i] \in D /\ rank[p[i]] = i
  BY <1>8 DEF Surjection
<1>10. p \in [places -> D] /\ \A x \in D : rank[x] \in places /\ p[rank[x]] = x
  BY <1>5, <1>7, <1>9 DEF Injection, IsInjective
<1> HIDE DEF p
<1>11. p \in Bijection(places, D)
  <2>1. p \in Injection(places, D)
    <3>1. \A i, j \in places : p[i] = p[j] => i = j
      BY <1>9
    <3> HIDE DEF places
    <3> QED BY <1>10, <3>1 DEF Injection, IsInjective
  <2>2. p \in Surjection(places, D)
    BY <1>10 DEF Surjection
  <2> QED BY <2>1, <2>2 DEF Bijection
<1>12. ASSUME NEW i \in places, NEW j \in places, i < j PROVE ~Newer(f[p[j]], f[p[i]])
  <2>1. ASSUME Before(p[j], p[i]) PROVE FALSE
    <3>1. rank[p[j]] < rank[p[i]]
      BY <1>4, <1>9, <2>1
    <3>2. j < i /\ i \in Int /\ j \in Int
      BY <1>2, <1>9, <3>1
    <3> QED BY <1>12, <3>2
  <2> QED BY <2>1 DEF Before
<1> QED BY <1>11, <1>12

LEMMA SeqOfFcn ==
  ASSUME NEW m \in Nat, NEW g \in [1 .. m -> Events]
  PROVE  g \in Seq(Events) /\ Len(g) = m
OBVIOUS

(* Sorted holds every answer as often as f does, newest first.              *)
LEMMA SortedProperties ==
  ASSUME NEW f, DOMAIN f \in SUBSET Nat, IsFiniteSet(DOMAIN f), f \in [DOMAIN f -> Events]
  PROVE  \E m \in Nat : \E p \in Bijection(1 .. m, DOMAIN f) :
           /\ Sorted(f) = [i \in 1 .. m |-> f[p[i]]]
           /\ Sorted(f) \in Seq(Events) /\ Len(Sorted(f)) = m
           /\ \A i, j \in 1 .. m : i < j => ~Newer(Sorted(f)[j], Sorted(f)[i])
<1> DEFINE m == Cardinality(DOMAIN f)
           p == CHOOSE q \in Bijection(1 .. m, DOMAIN f) :
                  \A i, j \in 1 .. m : i < j => ~Newer(f[q[j]], f[q[i]])
<1>0. m \in Nat
  BY FS_CardinalityType
<1>1. /\ p \in Bijection(1 .. m, DOMAIN f)
      /\ \A i, j \in 1 .. m : i < j => ~Newer(f[p[j]], f[p[i]])
  <2>1. \E q \in Bijection(1 .. m, DOMAIN f) :
          \A i, j \in 1 .. m : i < j => ~Newer(f[q[j]], f[q[i]])
    BY SortExists
  <2> HIDE DEF m
  <2> QED BY <2>1
<1>2. Sorted(f) = [i \in 1 .. m |-> f[p[i]]]
  BY DEF Sorted
<1> HIDE DEF p, m
<1>3. p \in [1 .. m -> DOMAIN f]
  BY <1>1 DEF Bijection, Injection
<1>4. Sorted(f) \in [1 .. m -> Events]
  BY <1>2, <1>3
<1>5. Sorted(f) \in Seq(Events) /\ Len(Sorted(f)) = m
  BY <1>0, <1>4, SeqOfFcn
<1>6. \A i \in 1 .. m : Sorted(f)[i] = f[p[i]]
  BY <1>2
<1>7. \A i, j \in 1 .. m : i < j => ~Newer(Sorted(f)[j], Sorted(f)[i])
  BY <1>1, <1>6
<1> QED BY <1>0, <1>1, <1>2, <1>5, <1>7

(* A sequence that holds every event of T has at least as many places.      *)
LEMMA Covers ==
  ASSUME NEW s \in Seq(Events), NEW k \in 0 .. Len(s), NEW T \in SUBSET Events,
         \A d \in T : \E i \in 1 .. k : s[i] = d
  PROVE  Cardinality(T) <= k /\ Cardinality(T) \in Nat
<1> DEFINE g == [d \in T |-> CHOOSE i \in 1 .. k : s[i] = d]
<1>1. g \in [T -> 1 .. k] /\ \A d \in T : s[g[d]] = d
  OBVIOUS
<1> HIDE DEF g
<1>2. g \in Injection(T, 1 .. k)
  <2>1. \A d, e \in T : g[d] = g[e] => d = e
    BY <1>1
  <2> QED BY <1>1, <2>1 DEF Injection, IsInjective
<1>3. IsFiniteSet(1 .. k) /\ Cardinality(1 .. k) = k
  BY FS_Interval
<1>4. IsFiniteSet(T) /\ Cardinality(T) <= k
  BY <1>2, <1>3, FS_Injection
<1> QED BY <1>4, FS_CardinalityType

(* What a merge of the answers s, cut at n, returns.                        *)
LEMMA MergeProperties ==
  ASSUME NEW s \in Seq(Events), NEW n \in Nat
  PROVE  LET res == Merge(s, n)
         IN  /\ \A i, j \in DOMAIN res : i < j =>
                  Newer(res[i], res[j]) \/ (~EnableDedupe /\ res[i] = res[j])
             /\ \A e \in Range(s) :
                  \/ e \in Range(res)
                  \/ /\ Len(res) = n
                     /\ \A i \in DOMAIN res : CreatedAt[res[i]] >= CreatedAt[e]
             /\ \A e \in Events, T \in SUBSET Range(s) :
                  /\ n > 0 /\ Cardinality(T) = n
                  /\ \A d \in T : CreatedAt[d] >= CreatedAt[e]
                  => /\ Len(res) = n
                     /\ \A i \in DOMAIN res : CreatedAt[res[i]] >= CreatedAt[e]
<1> DEFINE f == IF EnableDedupe THEN Dedupe(s) ELSE s
           D == DOMAIN f
           so == Sorted(f)
           res == Merge(s, n)
<1>1. /\ D \in SUBSET Nat /\ IsFiniteSet(D) /\ f \in [D -> Events]
      /\ \A e \in Range(s) : \E x \in D : f[x] = e
      /\ EnableDedupe => \A x \in D : f[x] = x
  <2>1. CASE EnableDedupe
    <3>1. f = [e \in Range(s) |-> e]
      BY <2>1 DEF Dedupe
    <3>2. Range(s) \subseteq Events
      BY DEF Range
    <3>3. IsFiniteSet(Range(s)) /\ Events \subseteq Nat
      BY <3>2, ShardConstants, FS_Subset
    <3> HIDE DEF f
    <3> QED BY <3>1, <3>2, <3>3
  <2>2. CASE ~EnableDedupe
    <3>1. f = s /\ D = 1 .. Len(s)
      BY <2>2
    <3>2. IsFiniteSet(1 .. Len(s))
      BY FS_Interval
    <3>3. s \in [1 .. Len(s) -> Events] /\ Len(s) \in Nat
      OBVIOUS
    <3> HIDE DEF f, D
    <3> QED BY <2>2, <3>1, <3>2, <3>3 DEF Range
  <2> QED BY <2>1, <2>2
<1>2. res = Take(n, so)
  BY DEF Merge
<1> HIDE DEF f, res
<1>3. PICK m \in Nat : \E p \in Bijection(1 .. m, D) :
        /\ so = [i \in 1 .. m |-> f[p[i]]]
        /\ so \in Seq(Events) /\ Len(so) = m
        /\ \A i, j \in 1 .. m : i < j => ~Newer(so[j], so[i])
  BY <1>1, SortedProperties
<1> HIDE DEF D, so
<1>4. PICK p \in Bijection(1 .. m, D) :
        /\ so = [i \in 1 .. m |-> f[p[i]]]
        /\ so \in Seq(Events) /\ Len(so) = m
        /\ \A i, j \in 1 .. m : i < j => ~Newer(so[j], so[i])
  BY <1>3
<1>5. DOMAIN so = 1 .. m /\ \A i \in 1 .. m : so[i] \in Events /\ so[i] = f[p[i]]
  BY <1>4
<1>6. /\ \A i \in 1 .. m : p[i] \in D
      /\ \A i, j \in 1 .. m : p[i] = p[j] => i = j
      /\ \A x \in D : \E i \in 1 .. m : p[i] = x
  BY <1>4 DEF Bijection, Injection, IsInjective, Surjection
<1>7. ASSUME NEW i \in 1 .. m, NEW j \in 1 .. m, i < j
      PROVE  /\ Newer(so[i], so[j]) \/ (~EnableDedupe /\ so[i] = so[j])
             /\ CreatedAt[so[i]] >= CreatedAt[so[j]]
  <2>1. ~Newer(so[j], so[i]) /\ so[i] \in Events /\ so[j] \in Events
    BY <1>4, <1>5, <1>7
  <2>2. (Newer(so[i], so[j]) \/ so[i] = so[j]) /\ CreatedAt[so[i]] >= CreatedAt[so[j]]
    BY <2>1, NewerOrder
  <2>3. i # j
    BY <1>5, <1>7
  <2>4. EnableDedupe => so[i] # so[j]
    <3>1. p[i] # p[j] /\ p[i] \in D /\ p[j] \in D
      BY <1>6, <2>3
    <3>2. so[i] = f[p[i]] /\ so[j] = f[p[j]]
      BY <1>5
    <3> QED BY <1>1, <3>1, <3>2
  <2> QED BY <2>2, <2>4
<1>8. ASSUME NEW e \in Range(s) PROVE \E i \in 1 .. m : so[i] = e
  BY <1>1, <1>5, <1>6
<1>9. /\ Len(res) \in Nat /\ Len(res) <= m /\ DOMAIN res = 1 .. Len(res)
      /\ \A i \in 1 .. Len(res) : i \in 1 .. m /\ res[i] = so[i]
      /\ Len(res) < m => Len(res) = n
      /\ n > 0 /\ m >= n => Len(res) = n
  <2>1. CASE n > 0 /\ m > n
    <3>1. res = SubSeq(so, 1, n)
      BY <1>2, <1>4, <2>1 DEF Take
    <3>2. /\ Len(res) = n /\ DOMAIN res = 1 .. n
          /\ \A i \in 1 .. n : res[i] = so[i]
      BY <1>4, <1>5, <2>1, <3>1
    <3> QED BY <1>5, <2>1, <3>2
  <2>2. CASE ~(n > 0 /\ m > n)
    <3>1. res = so
      BY <1>2, <1>4, <2>2 DEF Take
    <3> QED BY <1>4, <1>5, <2>2, <3>1
  <2> QED BY <2>1, <2>2
<1>10. \A i, j \in DOMAIN res : i < j =>
        Newer(res[i], res[j]) \/ (~EnableDedupe /\ res[i] = res[j])
  <2> SUFFICES ASSUME NEW i \in DOMAIN res, NEW j \in DOMAIN res, i < j
               PROVE  Newer(res[i], res[j]) \/ (~EnableDedupe /\ res[i] = res[j])
    OBVIOUS
  <2>1. i \in 1 .. m /\ j \in 1 .. m /\ res[i] = so[i] /\ res[j] = so[j]
    BY <1>9
  <2> QED BY <1>7, <2>1
<1>11. ASSUME NEW e \in Range(s), e \notin Range(res)
       PROVE  Len(res) = n /\ \A i \in DOMAIN res : CreatedAt[res[i]] >= CreatedAt[e]
  <2>1. PICK k \in 1 .. m : so[k] = e
    BY <1>8
  <2>2. k > Len(res)
    <3>1. k \in 1 .. Len(res) => res[k] \in Range(res)
      BY <1>9 DEF Range
    <3>2. k \in 1 .. Len(res) => res[k] = e
      BY <1>9, <2>1
    <3>3. k \notin 1 .. Len(res)
      BY <1>11, <3>1, <3>2
    <3>4. k \in Nat /\ k >= 1
      OBVIOUS
    <3>5. Len(res) \in Nat
      BY <1>9
    <3> QED BY <3>3, <3>4, <3>5
  <2> DEFINE l == Len(res)
  <2>21. l \in Nat /\ l < m
    <3>1. l \in Nat
      BY <1>9
    <3>2. k > l
      BY <2>2
    <3> HIDE DEF l
    <3> QED BY <2>1, <3>1, <3>2
  <2>3. Len(res) = n
    BY <1>9, <2>21
  <2>4. ASSUME NEW i \in DOMAIN res PROVE CreatedAt[res[i]] >= CreatedAt[e]
    <3>0. i \in 1 .. l /\ i \in 1 .. m /\ res[i] = so[i]
      BY <1>9
    <3>1. i \in 1 .. m /\ i < k /\ res[i] = so[i]
      <4> HIDE DEF l
      <4>1. k > l
        BY <2>2 DEF l
      <4> QED BY <2>21, <3>0, <4>1
    <3> QED BY <1>7, <2>1, <3>1
  <2> QED BY <2>3, <2>4
<1>12. ASSUME NEW e \in Events, NEW T \in SUBSET Range(s), n > 0, Cardinality(T) = n,
              \A d \in T : CreatedAt[d] >= CreatedAt[e]
       PROVE  Len(res) = n /\ \A i \in DOMAIN res : CreatedAt[res[i]] >= CreatedAt[e]
  <2>1. T \in SUBSET Events /\ \A d \in T : \E i \in 1 .. m : so[i] = d
    <3>1. Range(s) \subseteq Events
      BY DEF Range
    <3> QED BY <1>8, <3>1
  <2>2. n <= m
    <3>1. m \in 0 .. Len(so)
      BY <1>4
    <3>2. Cardinality(T) <= m
      BY <1>4, <2>1, <3>1, Covers
    <3> QED BY <1>12, <3>2
  <2>3. Len(res) = n
    BY <1>9, <1>12, <2>2
  <2>4. ASSUME NEW i \in DOMAIN res, ~(CreatedAt[res[i]] >= CreatedAt[e]) PROVE FALSE
    <3>1. i \in 1 .. m /\ res[i] = so[i] /\ i <= n /\ i \in Nat
      BY <1>9, <2>3
    <3>2. ASSUME NEW d \in T PROVE \E k \in 1 .. i - 1 : so[k] = d
      <4>1. PICK k \in 1 .. m : so[k] = d
        BY <2>1
      <4>2. CreatedAt[d] \in Nat /\ CreatedAt[e] \in Nat /\ CreatedAt[so[i]] \in Nat
        BY <1>4, <1>5, <2>1, <3>1, ShardConstants
      <4>3. ~(CreatedAt[so[i]] >= CreatedAt[d])
        BY <1>12, <2>4, <3>1, <4>2
      <4>4. k # i /\ ~(i < k)
        BY <1>7, <3>1, <4>1, <4>2, <4>3
      <4> QED BY <1>5, <3>1, <4>1, <4>4
    <3>3. i - 1 \in 0 .. Len(so)
      BY <1>4, <1>5, <3>1
    <3>4. Cardinality(T) <= i - 1
      BY <1>4, <1>5, <2>1, <3>2, <3>3, Covers
    <3> QED BY <1>12, <3>1, <3>4
  <2> QED BY <2>3, <2>4
<1> QED BY <1>10, <1>11, <1>12 DEF res
-----------------------------------------------------------------------------
(* What a query in flight has gathered.                                     *)

(* The open shards that hold e.                                             *)
Holders(e) == {Ref(s) : s \in {x \in open : e \in held[x]}}

(* The answers in hand hold a full page of events none of which is older.   *)
Outdone(q, e) ==
  /\ q.limit > 0
  /\ \E T \in SUBSET Range(q.all) :
       Cardinality(T) = q.limit /\ \A d \in T : CreatedAt[d] >= CreatedAt[e]

InHand(q, e) == e \in Range(q.all) \/ Outdone(q, e)

(* An event the query of c must return is in hand, is outdone, or is still  *)
(* on an open shard that has not answered.                                  *)
Accounted(c) ==
  \A e \in call[c].must :
    /\ call[c].authors # {} => Pubkey[e] \in call[c].authors
    /\ InHand(call[c], e) \/ \E r \in call[c].todo : r \in Holders(e)

QueryInv == \A c \in Clients : call[c].op = "query" => Accounted(c)

(* The call q that p became is p, no longer held to the events W.           *)
Trimmed(p, q, W) ==
  q.op = "query" =>
    /\ p.op = "query" /\ q.must \subseteq p.must \ W
    /\ q.authors = p.authors /\ q.limit = p.limit /\ q.all = p.all /\ q.todo = p.todo

LEMMA QueryFrame ==
  ASSUME QueryInv, NEW W,
         \A c \in Clients : Trimmed(call[c], call'[c], W) \/ (call'[c].op = "query" => Accounted(c)'),
         \A e : e \in W \/ Holders(e) \subseteq Holders(e)'
  PROVE  QueryInv'
<1>1. ASSUME NEW c \in Clients, call'[c].op = "query", Trimmed(call[c], call'[c], W)
      PROVE  Accounted(c)'
  <2> DEFINE p == call[c]
             q == call'[c]
  <2>1. /\ q.must \subseteq p.must \ W
        /\ q.authors = p.authors /\ q.limit = p.limit /\ q.all = p.all /\ q.todo = p.todo
        BY <1>1 DEF Trimmed
  <2>2. Accounted(c)
    BY <1>1 DEF QueryInv, Trimmed
  <2>4. ASSUME NEW e \in q.must
        PROVE  /\ q.authors # {} => Pubkey[e] \in q.authors
               /\ InHand(q, e) \/ \E r \in q.todo : r \in Holders(e)'
    <3>1. /\ p.authors # {} => Pubkey[e] \in p.authors
          /\ InHand(p, e) \/ \E r \in p.todo : r \in Holders(e)
      BY <2>1, <2>2 DEF Accounted
    <3>2. InHand(p, e) => InHand(q, e)
      BY <2>1 DEF InHand, Outdone
    <3>3. e \notin W
      BY <2>1
    <3> HIDE DEF p, q
    <3> QED BY <2>1, <3>1, <3>2, <3>3
  <2>5. \A e : InHand(call[c], e)' <=> InHand(q, e)
    BY DEF InHand, Outdone
  <2> QED BY <2>4, <2>5 DEF Accounted
<1> QED BY <1>1 DEF QueryInv

LEMMA HoldersKept ==
  ASSUME NEW e, \A s \in open : e \in held[s] => s \in open' /\ e \in held'[s] /\ inst'[s] = inst[s]
  PROVE  Holders(e) \subseteq Holders(e)'
BY DEF Holders, Ref

LEMMA HoldersGrow ==
  ASSUME TypeInv, Quiet \/ Writes
  PROVE  \A e : Holders(e) \subseteq Holders(e)'
<1>1. open \subseteq Nodes /\ held \in [Nodes -> SUBSET Events]
  BY DEF TypeInv, RingInv, StoreTypes
<1>2. UNCHANGED <<open, inst>> /\ \A s \in open : held[s] \subseteq held'[s]
  BY <1>1 DEF Quiet, Writes, Write, stores
<1> QED BY <1>2, HoldersKept

LEMMA TrimmedCalls ==
  /\ \A p : Trimmed(p, p, {})
  /\ \A p, q, W : q.op # "query" => Trimmed(p, q, W)
BY DEF Trimmed

LEMMA TrimmedForget ==
  ASSUME CallTypes, NEW W, NEW c \in Clients
  PROVE  Trimmed(call[c], Forget(W)[c], W)
<1>1. CASE call[c].op # "query"
  BY <1>1, ForgetCalls, TrimmedCalls
<1>2. CASE call[c].op = "query"
  <2>1. Forget(W)[c] = [call[c] EXCEPT !.must = @ \ W] /\ call[c] \in Querying
    BY <1>2, ForgetCalls, CallFields DEF CallTypes
  <2> QED BY <1>2, <2>1 DEF Trimmed, Querying
<1> QED BY <1>1, <1>2

LEMMA TrimmedSpoil ==
  ASSUME NEW f \in [Clients -> Call], NEW E, NEW c \in Clients
  PROVE  Trimmed(f[c], Spoil(f, E)[c], {})
<1>1. CASE f[c].op = "deleteAll"
  <2>1. f[c] \in Deleting
    BY <1>1, CallFields
  <2>2. Spoil(f, E)[c].op = "deleteAll"
    BY <1>1, <2>1 DEF Spoil, Deleting
  <2> QED BY <2>2, TrimmedCalls
<1>2. CASE f[c].op # "deleteAll"
  <2>1. Spoil(f, E)[c] = f[c]
    BY <1>2 DEF Spoil
  <2> QED BY <2>1, TrimmedCalls
<1> QED BY <1>1, <1>2

(* Steps that change one call, which is then no query, and at most spoil    *)
(* deletes.                                                                 *)
LEMMA QueryOthers ==
  ASSUME TypeInv, QueryInv, NEW c \in Clients, NEW q, q.op # "query",
         \/ call' = [call EXCEPT ![c] = q]
         \/ q.op # "deleteAll" /\ \E E : call' = Spoil([call EXCEPT ![c] = q], E),
         \A e : Holders(e) \subseteq Holders(e)'
  PROVE  QueryInv'
<1> DEFINE f == [call EXCEPT ![c] = q]
           W == {}
<1>1. call \in [Clients -> Call]
  BY DEF TypeInv, CallTypes
<1>2. f[c] = q /\ \A d \in Clients : d # c => f[d] = call[d]
  BY <1>1
<1> HIDE DEF f
<1>3. PICK E : call' = f \/ (q.op # "deleteAll" /\ call' = Spoil(f, E))
  BY DEF f
<1>4. ASSUME NEW d \in Clients, d # c PROVE Trimmed(call[d], call'[d], W)
  <2>1. f[d] = call[d]
    BY <1>2, <1>4
  <2>2. Spoil(f, E)[d] = Spoil(call, E)[d]
    BY <2>1 DEF Spoil
  <2> QED BY <1>1, <1>3, <2>1, <2>2, TrimmedSpoil, TrimmedCalls
<1>5. call'[c].op # "query"
  <2>1. q.op # "deleteAll" => Spoil(f, E)[c] = q
    BY <1>2 DEF Spoil
  <2> QED BY <1>2, <1>3, <2>1
<1>6. \A d \in Clients : Trimmed(call[d], call'[d], W)
  BY <1>4, <1>5, TrimmedCalls
<1>7. \A e : e \in W \/ Holders(e) \subseteq Holders(e)'
  OBVIOUS
<1> HIDE DEF W
<1> QED BY <1>6, <1>7, QueryFrame

LEMMA QuerySpoils ==
  ASSUME TypeInv, QueryInv, call' = call \/ \E E : call' = Spoil(call, E),
         \A e : Holders(e) \subseteq Holders(e)'
  PROVE  QueryInv'
<1> DEFINE W == {}
<1>1. call \in [Clients -> Call]
  BY DEF TypeInv, CallTypes
<1>2. \A d \in Clients : Trimmed(call[d], call'[d], W)
  BY <1>1, TrimmedSpoil, TrimmedCalls
<1>3. \A e : e \in W \/ Holders(e) \subseteq Holders(e)'
  OBVIOUS
<1> HIDE DEF W
<1> QED BY <1>2, <1>3, QueryFrame
-----------------------------------------------------------------------------
(* QueryInv holds.                                                          *)

(* Deletes take from the queries what they take from a shard.               *)
LEMMA QueryErased ==
  ASSUME TypeInv, NEW s \in Nodes, NEW E, Erase(s, E), UNCHANGED <<open, inst>>
  PROVE  \A e : e \in E \cap held[s] \/ Holders(e) \subseteq Holders(e)'
<1>1. open \subseteq Nodes /\ held \in [Nodes -> SUBSET Events]
  BY DEF TypeInv, RingInv, StoreTypes
<1>2. \A x \in open : held'[x] = IF x = s THEN held[s] \ E ELSE held[x]
  BY <1>1 DEF Erase
<1> QED BY <1>2, HoldersKept

LEMMA QueryDeletes ==
  ASSUME TypeInv, QueryInv, NEW c \in Clients, NEW s \in Nodes, NEW k,
         Delete(c, <<s, k>>) \/ DeleteEvents(c, <<s, k>>)
  PROVE  QueryInv'
<1>0. CallTypes /\ call \in [Clients -> Call] /\ call[c].op \in {"delete", "deleteAll"}
  BY DEF TypeInv, CallTypes, Delete, DeleteEvents
<1>1. UNCHANGED <<open, inst>>
  BY DEF Delete, DeleteEvents
<1>2. \A e : held' = held => Holders(e) \subseteq Holders(e)'
  BY <1>1, HoldersKept
<1>3. ASSUME NEW W, NEW q, call' = [Forget(W) EXCEPT ![c] = q] \/ (W = {} /\ call' = [call EXCEPT ![c] = q]),
             q.op # "query", \A e : e \in W \/ Holders(e) \subseteq Holders(e)'
      PROVE  QueryInv'
  <2>1. call'[c].op # "query"
    BY <1>0, <1>3, ForgetCalls
  <2>2. ASSUME NEW d \in Clients, d # c PROVE Trimmed(call[d], call'[d], W)
    <3>1. Trimmed(call[d], Forget(W)[d], W) /\ Trimmed(call[d], call[d], {})
      BY <1>0, TrimmedForget, TrimmedCalls
    <3>2. call'[d] = Forget(W)[d] \/ (W = {} /\ call'[d] = call[d])
      BY <1>0, <1>3, <2>2, ForgetCalls
    <3> QED BY <3>1, <3>2
  <2>3. Trimmed(call[c], call'[c], W)
    BY <2>1, TrimmedCalls
  <2> QED BY <1>3, <2>2, <2>3, QueryFrame
<1>4. CASE Delete(c, <<s, k>>)
  <2> DEFINE n == [call[c] EXCEPT !.todo = @ \ {<<s, k>>}]
             next == IF call[c].todo = {<<s, k>>} THEN Idle ELSE n
  <2>1. call[c] \in Probing
    BY <1>0, <1>4, CallFields DEF Delete
  <2>2. n.op # "query" /\ Idle.op # "query"
    BY <1>0, <2>1 DEF Probing, Idle
  <2>3. \A W : Forget(W)[c] = call[c]
    BY <1>0, ForgetCalls
  <2>4. \/ \E W, q : Erase(s, W) /\ q \in {Idle, n} /\ call' = [Forget(W) EXCEPT ![c] = q]
        \/ \E q \in {Idle, n} : held' = held /\ call' = [call EXCEPT ![c] = q]
    <3>1. \/ \E W : Erase(s, W) /\ call' = [Forget(W) EXCEPT ![c] = Idle]
          \/ held' = held /\ call' = [call EXCEPT ![c] = next]
          \/ \E W : /\ Erase(s, W)
                    /\ call' = [Forget(W) EXCEPT ![c] =
                                  IF call[c].todo = {<<s, k>>} THEN Idle
                                  ELSE [Forget(W)[c] EXCEPT !.todo = @ \ {<<s, k>>}]]
      BY <1>4 DEF Delete
    <3>2. next \in {Idle, n}
      OBVIOUS
    <3> QED BY <2>3, <3>1, <3>2
  <2> HIDE DEF n
  <2>5. CASE \E W, q : Erase(s, W) /\ q \in {Idle, n} /\ call' = [Forget(W) EXCEPT ![c] = q]
    <3>1. PICK W, q : Erase(s, W) /\ q \in {Idle, n} /\ call' = [Forget(W) EXCEPT ![c] = q]
      BY <2>5
    <3>2. \A e : e \in W \/ Holders(e) \subseteq Holders(e)'
      BY <1>1, <3>1, QueryErased
    <3> QED BY <1>3, <2>2, <3>1, <3>2
  <2>6. CASE \E q \in {Idle, n} : held' = held /\ call' = [call EXCEPT ![c] = q]
    BY <1>2, <1>3, <2>2, <2>6
  <2> QED BY <2>4, <2>5, <2>6
<1>5. CASE DeleteEvents(c, <<s, k>>)
  <2> DEFINE n(ok) == [call[c] EXCEPT !.todo = @ \ {<<s, k>>}, !.clean = @ /\ ok]
             after(f, ok) == [f EXCEPT ![c] =
                                IF call[c].todo = {<<s, k>>} THEN Idle
                                ELSE [f[c] EXCEPT !.todo = @ \ {<<s, k>>}, !.clean = @ /\ ok]]
  <2>1. call[c] \in Deleting
    BY <1>0, <1>5, CallFields DEF DeleteEvents
  <2>2. Idle.op # "query" /\ \A ok \in BOOLEAN : n(ok).op # "query"
    BY <1>0, <2>1 DEF Deleting, Idle
  <2>3. \A W : Forget(W)[c] = call[c]
    BY <1>0, ForgetCalls
  <2>4. ASSUME NEW f, f[c] = call[c], NEW ok \in BOOLEAN
        PROVE  \E q : q.op # "query" /\ after(f, ok) = [f EXCEPT ![c] = q]
    <3>1. after(f, ok) = [f EXCEPT ![c] = IF call[c].todo = {<<s, k>>} THEN Idle ELSE n(ok)]
      BY <2>4
    <3> HIDE DEF n, after
    <3> QED BY <2>2, <3>1
  <2>5. \/ \E E : Erase(s, E) /\ call' = after(Forget(E \cap held[s]), TRUE)
        \/ held' = held /\ call' = after(call, s \notin shards)
        \/ \E E : Erase(s, E) /\ call' = after(Forget(E), FALSE)
    BY <1>5 DEF DeleteEvents
  <2> HIDE DEF after
  <2>6. ASSUME NEW E, NEW ok \in BOOLEAN, Erase(s, E),
               call' = after(Forget(E \cap held[s]), ok) \/ call' = after(Forget(E), ok)
        PROVE  QueryInv'
    <3>1. PICK W \in {E, E \cap held[s]} : call' = after(Forget(W), ok)
      BY <2>6
    <3>2. PICK q : q.op # "query" /\ call' = [Forget(W) EXCEPT ![c] = q]
      BY <2>3, <2>4, <3>1
    <3>3. \A e : e \in W \/ Holders(e) \subseteq Holders(e)'
      BY <1>1, <2>6, <3>1, QueryErased
    <3> QED BY <1>3, <3>2, <3>3
  <2>7. CASE held' = held /\ call' = after(call, s \notin shards)
    <3>1. (s \notin shards) \in BOOLEAN
      OBVIOUS
    <3>2. PICK q : q.op # "query" /\ call' = [call EXCEPT ![c] = q]
      BY <2>4, <2>7, <3>1
    <3> QED BY <1>2, <1>3, <2>7, <3>2
  <2> QED BY <2>5, <2>6, <2>7
<1> QED BY <1>4, <1>5
-----------------------------------------------------------------------------
(* One query changes, and the shards stay as they are.                      *)
LEMMA QueryChanges ==
  ASSUME TypeInv, QueryInv, NEW c \in Clients, NEW n, call' = [call EXCEPT ![c] = n],
         UNCHANGED <<open, inst, held>>,
         \A e \in n.must : /\ n.authors # {} => Pubkey[e] \in n.authors
                           /\ InHand(n, e) \/ \E r \in n.todo : r \in Holders(e)
  PROVE  QueryInv'
<1> DEFINE W == {}
<1>1. call'[c] = n /\ \A d \in Clients : d # c => call'[d] = call[d]
  BY DEF TypeInv, CallTypes
<1>2. \A e : Holders(e)' = Holders(e)
  BY DEF Holders, Ref
<1>3. \A e : InHand(call[c], e)' <=> InHand(call'[c], e)
  BY DEF InHand, Outdone
<1>4. Accounted(c)'
  BY <1>1, <1>2, <1>3 DEF Accounted
<1>5. \A d \in Clients : Trimmed(call[d], call'[d], W) \/ (call'[d].op = "query" => Accounted(d)')
  BY <1>1, <1>4, TrimmedCalls
<1>6. \A e : e \in W \/ Holders(e) \subseteq Holders(e)'
  BY <1>2
<1> HIDE DEF W
<1> QED BY <1>5, <1>6, QueryFrame

(* A query starts: without authors, every event on an open shard counts.    *)
LEMMA QueryStarts ==
  ASSUME TypeInv, QueryInv, NEW c \in Clients, NEW A \in Filters, NEW n \in Limits,
         QueryStart(c, A, n)
  PROVE  QueryInv'
<1> DEFINE T == IF A = {} THEN Refs(shards) ELSE {}
           m == IF A = {} THEN UNION {held[s] : s \in open} ELSE {}
           q == [op |-> "query", authors |-> A, limit |-> n, route |-> A, todo |-> T,
                 all |-> <<>>, must |-> m]
<1>1. call' = [call EXCEPT ![c] = q] /\ UNCHANGED <<open, inst, held>>
  BY DEF QueryStart, Begin, stores
<1>2. ASSUME NEW e \in m PROVE A = {} /\ \E r \in T : r \in Holders(e)
  <2>1. A = {} /\ e \in UNION {held[s] : s \in open}
    BY <1>2
  <2>2. PICK s \in open : e \in held[s]
    BY <2>1
  <2>3. Ref(s) \in T /\ Ref(s) \in Holders(e)
    BY <2>1, <2>2 DEF Refs, Holders, TypeInv, RingInv
  <2> QED BY <2>1, <2>3
<1> HIDE DEF T, m
<1>3. q.authors = A /\ q.todo = T /\ q.must = m
  OBVIOUS
<1> HIDE DEF q
<1> QED BY <1>1, <1>2, <1>3, QueryChanges

(* An author's shard is looked up: a reference to it that is replaced is    *)
(* the same one, or denotes an object that is no longer open.               *)
LEMMA QueryRoutes ==
  ASSUME TypeInv, QueryInv, NEW c \in Clients, NEW a \in Keys, QueryRoute(c, a)
  PROVE  QueryInv'
<1> DEFINE q == call[c]
           o == Owner(a)
<1>0. /\ RingInv /\ StoreTypes /\ CallTypes /\ UNCHANGED <<open, inst, held>>
      /\ q.op = "query" /\ Accounted(c)
  BY DEF TypeInv, QueryRoute, stores, QueryInv
<1>1. \A e : /\ \A r \in Holders(e) : r[1] = o => r = Ref(o)
             /\ o \in open /\ e \in held[o] => Ref(o) \in Holders(e)
  BY DEF Holders, Ref
<1>2. ASSUME NEW T, NEW m, NEW n, call' = [call EXCEPT ![c] = n],
             n.authors = q.authors, n.all = q.all, n.limit = q.limit, n.todo = T, n.must = m,
             \A e \in m : /\ q.authors # {} => Pubkey[e] \in q.authors
                          /\ InHand(q, e) \/ \E r \in T : r \in Holders(e)
      PROVE  QueryInv'
  <2>1. \A e : InHand(q, e) => InHand(n, e)
    BY <1>2 DEF InHand, Outdone
  <2> HIDE DEF q, o
  <2> QED BY <1>0, <1>2, <2>1, QueryChanges
<1>3. \A e \in q.must : /\ q.authors # {} => Pubkey[e] \in q.authors
                        /\ InHand(q, e) \/ \E r \in q.todo : r \in Holders(e)
  BY <1>0 DEF Accounted
<1> DEFINE H == IF o \in open THEN Matches(q.authors, held[o]) ELSE {}
           T == {r \in q.todo : r[1] # o} \cup {Ref(o)}
           n1 == [q EXCEPT !.route = q.route \ {a}, !.todo = T, !.must = q.must \cup H]
           n2 == [q EXCEPT !.route = q.route \ {a}]
<1>4. \/ call' = [call EXCEPT ![c] = n1]
      \/ call' = [call EXCEPT ![c] = n2]
  BY <1>0, QueryRouted
<1>5. q \in Querying
  BY <1>0, QueryRouted
<1>6. \A e \in H : /\ q.authors # {} => Pubkey[e] \in q.authors
                   /\ o \in open /\ e \in held[o]
  BY DEF Matches
<1> HIDE DEF q, o, H
<1>7. CASE call' = [call EXCEPT ![c] = n1]
  <2>1. /\ n1.authors = q.authors /\ n1.all = q.all /\ n1.limit = q.limit
        /\ n1.todo = T /\ n1.must = q.must \cup H
    BY <1>5 DEF Querying
  <2> HIDE DEF n1
  <2>2. ASSUME NEW e \in q.must \cup H
        PROVE  /\ q.authors # {} => Pubkey[e] \in q.authors
               /\ InHand(q, e) \/ \E r \in T : r \in Holders(e)
    BY <1>1, <1>3, <1>6
  <2> HIDE DEF T
  <2> QED BY <1>2, <1>7, <2>1, <2>2
<1>8. CASE call' = [call EXCEPT ![c] = n2]
  <2>1. /\ n2.authors = q.authors /\ n2.all = q.all /\ n2.limit = q.limit
        /\ n2.todo = q.todo /\ n2.must = q.must
    BY <1>5 DEF Querying
  <2> HIDE DEF n2
  <2> QED BY <1>2, <1>3, <1>8, <2>1
<1> QED BY <1>4, <1>7, <1>8

(* What is in hand stays in hand, and a shard's answer brings in hand what  *)
(* matches on that shard.                                                   *)
LEMMA AnswerInHand ==
  ASSUME NEW q \in Querying, NEW S \in SUBSET Events, NEW a \in ShardQuery(S, q.limit),
         NEW n, n.limit = q.limit, n.all = q.all \o a, NEW e
  PROVE  InHand(q, e) \/ e \in S => InHand(n, e)
<1>1. q.limit \in Nat /\ q.all \in Seq(Events)
  BY DEF Querying
<1>2. /\ a \in Seq(Events) /\ Range(a) \subseteq S
      /\ Range(a) # S => /\ q.limit > 0 /\ Cardinality(Range(a)) = q.limit
                         /\ \A d \in Range(a), x \in S \ Range(a) : CreatedAt[d] >= CreatedAt[x]
  BY <1>1, ShardAnswer
<1>3. Range(q.all) \subseteq Range(n.all) /\ Range(a) \subseteq Range(n.all)
  <2> DEFINE s == q.all
             t == s \o a
  <2>1. s \in Seq(Events) /\ t \in Seq(Events) /\ Len(t) = Len(s) + Len(a)
    BY <1>1, <1>2
  <2>2. \A i \in 1 .. Len(s) : i \in 1 .. Len(t) /\ t[i] = s[i]
    BY <1>1, <1>2
  <2>3. \A i \in 1 .. Len(a) : Len(s) + i \in 1 .. Len(t) /\ t[Len(s) + i] = a[i]
    BY <1>1, <1>2
  <2>4. n.all = t
    OBVIOUS
  <2> HIDE DEF s, t
  <2>5. DOMAIN s = 1 .. Len(s) /\ DOMAIN a = 1 .. Len(a) /\ DOMAIN t = 1 .. Len(t)
    BY <1>2, <2>1
  <2>6. Range(s) \subseteq Range(t) /\ Range(a) \subseteq Range(t)
    BY <2>2, <2>3, <2>5 DEF Range
  <2> QED BY <2>4, <2>6 DEF s
<1>4. CASE InHand(q, e)
  BY <1>3, <1>4 DEF InHand, Outdone
<1>5. CASE e \in S /\ e \notin Range(a)
  <2>1. /\ q.limit > 0 /\ Cardinality(Range(a)) = q.limit
        /\ \A d \in Range(a) : CreatedAt[d] >= CreatedAt[e]
    BY <1>2, <1>5
  <2> QED BY <1>3, <2>1 DEF InHand, Outdone
<1>6. CASE e \in Range(a)
  BY <1>3, <1>6 DEF InHand
<1> QED BY <1>4, <1>5, <1>6

LEMMA QueryAnswers ==
  ASSUME TypeInv, QueryInv, NEW c \in Clients, NEW s \in Nodes, NEW k, QueryShard(c, <<s, k>>)
  PROVE  QueryInv'
<1> DEFINE q == call[c]
           r == <<s, k>>
<1>0. /\ StoreTypes /\ CallTypes /\ held[s] \in SUBSET Events
      /\ UNCHANGED <<open, inst, held>>
  BY DEF TypeInv, StoreTypes, QueryShard, stores
<1>1. q \in Querying /\ q.op = "query" /\ Accounted(c)
  BY <1>0, CallFields DEF QueryShard, QueryInv, CallTypes
<1>4. ASSUME NEW a \in ShardQuery(Matches(q.authors, held[s]), q.limit),
             call' = [call EXCEPT ![c] = [q EXCEPT !.todo = q.todo \ {r}, !.all = q.all \o a]]
      PROVE  QueryInv'
  <2> DEFINE S == Matches(q.authors, held[s])
             n == [q EXCEPT !.todo = q.todo \ {r}, !.all = q.all \o a]
  <2>1. S \in SUBSET Events
    BY <1>0, MatchesType
  <2>2. /\ n.todo = q.todo \ {r} /\ n.all = q.all \o a /\ n.limit = q.limit /\ n.must = q.must
        /\ n.authors = q.authors
    BY <1>1 DEF Querying
  <2>4. \A e : (q.authors # {} => Pubkey[e] \in q.authors) /\ e \in held[s] => e \in S
    BY DEF Matches
  <2> HIDE DEF n, S
  <2>5. \A e : InHand(q, e) \/ e \in S => InHand(n, e)
    <3>1. a \in ShardQuery(S, q.limit)
      BY DEF S
    <3> HIDE DEF q
    <3> QED BY <1>1, <2>1, <2>2, <3>1, AnswerInHand
  <2>6. \A e : r \in Holders(e) => e \in held[s]
    BY DEF Holders, Ref
  <2>8. ASSUME NEW e \in q.must
        PROVE  /\ q.authors # {} => Pubkey[e] \in q.authors
               /\ InHand(n, e) \/ \E x \in n.todo : x \in Holders(e)
    <3>1. /\ q.authors # {} => Pubkey[e] \in q.authors
          /\ InHand(q, e) \/ \E x \in q.todo : x \in Holders(e)
      BY <1>1 DEF Accounted
    <3> HIDE DEF q, r
    <3> QED BY <2>2, <2>4, <2>5, <2>6, <3>1
  <2>9. call' = [call EXCEPT ![c] = n]
    BY <1>4 DEF n
  <2> HIDE DEF q, r
  <2> QED BY <1>0, <2>2, <2>8, <2>9, QueryChanges
<1>5. ASSUME call' = [call EXCEPT ![c] = [q EXCEPT !.todo = q.todo \ {r}, !.must = {}]]
      PROVE  QueryInv'
  <2> DEFINE n == [q EXCEPT !.todo = q.todo \ {r}, !.must = {}]
  <2>1. n.must = {}
    BY <1>1 DEF Querying
  <2> HIDE DEF n
  <2> QED BY <1>0, <1>5, <2>1, QueryChanges DEF n
<1> QED BY <1>0, <1>4, <1>5, AnsweredQuery

LEMMA QueryClients ==
  ASSUME TypeInv, QueryInv, NEW c \in Clients,
         \/ \E e \in Events : InsertRoute(c, e) \/ DeleteStart(c, e) \/ GetByIDStart(c, e)
         \/ \E e \in Events : InsertBatchRoute(c, e)
         \/ \E E \in SUBSET Events : InsertBatchStart(c, E) \/ DeleteEventsStart(c, E)
         \/ QueryEnd(c)
         \/ \E s \in Nodes : \E k \in 1 .. inst[s] : GetByID(c, <<s, k>>),
         \A e : Holders(e) \subseteq Holders(e)'
  PROVE  QueryInv'
<1>0. Idle.op = "idle"
  BY DEF Idle
<1>1. ASSUME NEW e \in Events, InsertRoute(c, e) PROVE QueryInv'
  <2> DEFINE q == [op |-> "insert", events |-> {e}, at |-> Ref(Owner(Pubkey[e]))]
  <2>1. call' = Spoil([call EXCEPT ![c] = q], {e}) /\ q.op = "insert"
    BY <1>1 DEF InsertRoute, BeginWrite
  <2> HIDE DEF q
  <2> QED BY <2>1, QueryOthers
<1>2. ASSUME NEW E \in SUBSET Events, InsertBatchStart(c, E) PROVE QueryInv'
  <2> DEFINE q == [op |-> "batch", events |-> E, route |-> E, batches |-> [e \in {} |-> NoNode]]
  <2>1. call' = Spoil([call EXCEPT ![c] = q], E) /\ q.op = "batch"
    BY <1>2 DEF InsertBatchStart, BeginWrite
  <2> HIDE DEF q
  <2> QED BY <2>1, QueryOthers
<1>3. ASSUME NEW e \in Events, DeleteStart(c, e) \/ GetByIDStart(c, e) PROVE QueryInv'
  <2>1. PICK x \in {"delete", "get"} :
          call' = [call EXCEPT ![c] = [op |-> x, events |-> {e}, todo |-> Refs(shards)]]
    BY <1>3 DEF DeleteStart, GetByIDStart, Begin
  <2> DEFINE q == [op |-> x, events |-> {e}, todo |-> Refs(shards)]
  <2>2. call' = [call EXCEPT ![c] = q] /\ q.op # "query"
    BY <2>1
  <2> HIDE DEF q
  <2> QED BY <2>2, QueryOthers
<1>4. ASSUME NEW E \in SUBSET Events, DeleteEventsStart(c, E) PROVE QueryInv'
  <2> DEFINE q == [op |-> "deleteAll", events |-> E, todo |-> Refs(shards),
                   clean |-> ~Writing(E)]
  <2>1. call' = [call EXCEPT ![c] = q]
    BY <1>4 DEF DeleteEventsStart, Begin
  <2>2. q.op = "deleteAll"
    OBVIOUS
  <2> HIDE DEF q
  <2> QED BY <2>1, <2>2, QueryOthers
<1>5. CASE QueryEnd(c)
  BY <1>0, <1>5, QueryOthers DEF QueryEnd, End
<1>6. ASSUME NEW s \in Nodes, NEW k \in 1 .. inst[s], GetByID(c, <<s, k>>) PROVE QueryInv'
  <2> DEFINE n == [call[c] EXCEPT !.todo = @ \ {<<s, k>>}]
  <2>1. call' = [call EXCEPT ![c] = Idle] \/ call' = [call EXCEPT ![c] = n]
    BY <1>6, Zenon DEF GetByID
  <2>2. n.op = "get"
    <3>1. call[c] \in Probing /\ call[c].op = "get"
      BY <1>6, CallFields DEF TypeInv, CallTypes, GetByID
    <3> QED BY <3>1 DEF Probing
  <2> HIDE DEF n
  <2> QED BY <1>0, <2>1, <2>2, QueryOthers
<1>7. ASSUME NEW e \in Events, InsertBatchRoute(c, e) PROVE QueryInv'
  <2> DEFINE B == call[c].batches
             C == [d \in DOMAIN B \cup {e} |-> IF d = e THEN Owner(Pubkey[e]) ELSE B[d]]
             n == [call[c] EXCEPT !.route = call[c].route \ {e}, !.batches = C]
  <2>1. /\ call[c] \in Batching
        /\ call' = [call EXCEPT ![c] = Idle] \/ call' = [call EXCEPT ![c] = n]
    BY <1>7, BatchRouted DEF TypeInv
  <2>2. n.op = "batch"
    BY <2>1 DEF Batching
  <2> HIDE DEF n
  <2> QED BY <1>0, <2>1, <2>2, QueryOthers
<1> QED BY <1>1, <1>2, <1>3, <1>4, <1>5, <1>6, <1>7

LEMMA QueryInserts ==
  ASSUME TypeInv, QueryInv, NEW c \in Clients,
         Insert(c) \/ \E s \in Nodes : InsertBatch(c, s)
  PROVE  QueryInv'
<1>0. CallTypes /\ Idle.op = "idle"
  BY DEF TypeInv, Idle
<1>1. \A e : Holders(e) \subseteq Holders(e)'
  BY <1>0, InsertEffect, InsertBatchEffect, HoldersGrow
<1>2. CASE Insert(c)
  <2>1. \E E : call' = Spoil([call EXCEPT ![c] = Idle], E)
    BY <1>2, Zenon DEF Insert
  <2> QED BY <1>0, <1>1, <2>1, QueryOthers
<1>3. ASSUME NEW s \in Nodes, InsertBatch(c, s) PROVE QueryInv'
  <2> DEFINE B == call[c].batches
             E == {e \in DOMAIN B : B[e] = s}
             rest == [e \in DOMAIN B \ E |-> B[e]]
             n == [call[c] EXCEPT !.batches = rest, !.events = DOMAIN rest]
             q == IF DOMAIN rest = {} THEN Idle ELSE n
  <2>1. \/ call' = Spoil([call EXCEPT ![c] = q], E)
        \/ call' = [call EXCEPT ![c] = Idle]
        \/ call' = Spoil([call EXCEPT ![c] = Idle], E)
    BY <1>3, Zenon DEF InsertBatch, End
  <2>2. n.op = "batch"
    <3>1. call[c] \in Batching
      BY <1>0, <1>3, CallFields DEF CallTypes, InsertBatch
    <3> QED BY <3>1 DEF Batching
  <2>3. q = Idle \/ q = n
    OBVIOUS
  <2> HIDE DEF n, q, E
  <2>4. q.op \in {"idle", "batch"}
    BY <1>0, <2>2, <2>3
  <2> QED BY <1>0, <1>1, <2>1, <2>4, QueryOthers
<1> QED BY <1>2, <1>3

LEMMA QueryTopology ==
  ASSUME TypeInv, QueryInv, (\E s \in Nodes : AddShard(s) \/ RemoveShard(s)) \/ Close
  PROVE  QueryInv'
<1>0. /\ CallTypes /\ call \in [Clients -> Call] /\ open \subseteq shards /\ shards \subseteq Nodes
      /\ inst \in [Nodes -> Nat] /\ held \in [Nodes -> SUBSET Events]
  BY DEF TypeInv, CallTypes, RingInv, StoreTypes
<1>1. ASSUME NEW s \in Nodes, AddShard(s) PROVE QueryInv'
  <2>1. \A x \in open : x \in open' /\ held'[x] = held[x] /\ inst'[x] = inst[x]
    BY <1>0, <1>1 DEF AddShard
  <2>2. \A e : Holders(e) \subseteq Holders(e)'
    BY <2>1, HoldersKept
  <2>3. \E E : call' = Spoil(call, E)
    BY <1>1 DEF AddShard
  <2> QED BY <2>2, <2>3, QuerySpoils
<1>2. ASSUME NEW s \in Nodes, RemoveShard(s) PROVE QueryInv'
  <2>1. call' = Forget(held[s]) /\ UNCHANGED <<inst, held>> /\ open' = open \ {s}
    BY <1>2 DEF RemoveShard
  <2>2. \A d \in Clients : Trimmed(call[d], call'[d], held[s])
    BY <1>0, <2>1, TrimmedForget
  <2>3. \A e : e \in held[s] \/ Holders(e) \subseteq Holders(e)'
    BY <2>1, HoldersKept
  <2> QED BY <2>2, <2>3, QueryFrame
<1>3. CASE Close
  <2>1. call' = Forget(Events)
    BY <1>3 DEF Close
  <2>2. \A d \in Clients : Trimmed(call[d], call'[d], Events)
    BY <1>0, <2>1, TrimmedForget
  <2>3. \A e : e \in Events \/ Holders(e) = {}
    BY <1>0 DEF Holders
  <2> QED BY <2>2, <2>3, QueryFrame
<1> QED BY <1>1, <1>2, <1>3

LEMMA QueryWorker ==
  ASSUME TypeInv, QueryInv,
         \/ StartRebalance \/ CancelCurrentTask \/ Stop
         \/ WorkerStop \/ WorkerExit \/ WorkerTick \/ WorkerBegin \/ WorkerPlan
         \/ (\E s \in Nodes : MigrateShard(s) \/ VerifyShard(s))
         \/ MigrateEnd \/ VerifyEnd \/ WorkerFinish
  PROVE  QueryInv'
<1>1. call' = call /\ UNCHANGED <<open, inst, held>>
  BY DEF StartRebalance, CancelCurrentTask, Stop, WorkerStop, WorkerExit, WorkerTick,
         WorkerBegin, WorkerPlan, MigrateShard, VerifyShard, MigrateEnd, VerifyEnd,
         CleanupOldShard, WorkerFinish, stores
<1>2. \A e : Holders(e) \subseteq Holders(e)'
  BY <1>1, HoldersKept
<1> QED BY <1>1, <1>2, QuerySpoils

LEMMA QueryInvStep ==
  ASSUME TypeInv, QueryInv, [Next]_vars
  PROVE  QueryInv'
<1>0. CallTypes
  BY DEF TypeInv
<1>1. CASE UNCHANGED vars
  <2>1. call' = call /\ Quiet
    BY <1>1 DEF vars, counters, history, Quiet
  <2> QED BY <2>1, HoldersGrow, QuerySpoils
<1>2. CASE Starts
  <2>1. Quiet
    BY <1>2 DEF Starts, DeleteStart, GetByIDStart, DeleteEventsStart, QueryStart, history, Quiet
  <2> QED BY <1>2, <2>1, HoldersGrow, QueryClients, QueryStarts DEF Starts
<1>3. CASE \/ \E c \in Clients, e \in Events : InsertRoute(c, e)
           \/ \E c \in Clients, E \in SUBSET Events : InsertBatchStart(c, E)
           \/ \E c \in Clients, e \in Events : InsertBatchRoute(c, e)
  <2>1. Quiet
    BY <1>3 DEF InsertRoute, InsertBatchStart, InsertBatchRoute, counters, history, Quiet
  <2> QED BY <1>3, <2>1, HoldersGrow, QueryClients
<1>4. ASSUME NEW c \in Clients, Insert(c) \/ QueryEnd(c) PROVE QueryInv'
  <2>1. CASE QueryEnd(c)
    <3>1. Quiet
      BY <2>1 DEF QueryEnd, counters, history, Quiet
    <3> QED BY <2>1, <3>1, HoldersGrow, QueryClients
  <2> QED BY <1>4, <2>1, QueryInserts
<1>5. CASE \E c \in Clients, s \in Nodes : InsertBatch(c, s)
  BY <1>5, QueryInserts
<1>6. ASSUME NEW c \in Clients, NEW s \in Nodes, NEW k \in 1 .. inst[s],
             \/ Delete(c, <<s, k>>) \/ DeleteEvents(c, <<s, k>>)
             \/ GetByID(c, <<s, k>>) \/ QueryShard(c, <<s, k>>)
      PROVE  QueryInv'
  <2>1. CASE GetByID(c, <<s, k>>)
    <3>1. Quiet
      BY <2>1 DEF GetByID, history, Quiet
    <3> QED BY <2>1, <3>1, HoldersGrow, QueryClients
  <2> QED BY <1>6, <2>1, QueryDeletes, QueryAnswers
<1> QED BY <1>1, <1>2, <1>3, <1>4, <1>5, <1>6, StepCases, QueryTopology, QueryWorker, QueryRoutes

LEMMA QueryAnswered ==
  ASSUME TypeInv, QueryInv
  PROVE  QueryComplete
<1> SUFFICES ASSUME NEW c \in Clients, Answered(c)
             PROVE  LET res == Answer(c)
                    IN  /\ \A i, j \in DOMAIN res : i < j =>
                             Newer(res[i], res[j]) \/ (~EnableDedupe /\ res[i] = res[j])
                        /\ \A e \in call[c].must :
                             \/ e \in Range(res)
                             \/ /\ Len(res) = call[c].limit
                                /\ \A i \in DOMAIN res : CreatedAt[res[i]] >= CreatedAt[e]
  BY DEF QueryComplete
<1> DEFINE q == call[c]
           res == Answer(c)
<1> SUFFICES /\ \A i, j \in DOMAIN res : i < j =>
                  Newer(res[i], res[j]) \/ (~EnableDedupe /\ res[i] = res[j])
             /\ \A e \in q.must :
                  \/ e \in Range(res)
                  \/ /\ Len(res) = q.limit
                     /\ \A i \in DOMAIN res : CreatedAt[res[i]] >= CreatedAt[e]
  OBVIOUS
<1>1. q \in Querying
  BY CallFields DEF TypeInv, CallTypes, Answered
<1>2. q.all \in Seq(Events) /\ q.limit \in Nat /\ q.must \in SUBSET Events
  BY <1>1 DEF Querying
<1>3. \A e \in q.must : InHand(q, e)
  BY DEF QueryInv, Accounted, Answered
<1>4. res = Merge(q.all, q.limit)
  BY DEF Answer
<1> DEFINE s == q.all
           n == q.limit
<1>5. s \in Seq(Events) /\ n \in Nat
  BY <1>2
<1>6. \A e \in q.must : e \in Range(s) \/
        (n > 0 /\ \E T \in SUBSET Range(s) : Cardinality(T) = n /\ \A d \in T : CreatedAt[d] >= CreatedAt[e])
  BY <1>3 DEF InHand, Outdone
<1> HIDE DEF res, s, n
<1>7. /\ \A i, j \in DOMAIN res : i < j =>
           Newer(res[i], res[j]) \/ (~EnableDedupe /\ res[i] = res[j])
      /\ \A e \in Range(s) :
           \/ e \in Range(res)
           \/ /\ Len(res) = n
              /\ \A i \in DOMAIN res : CreatedAt[res[i]] >= CreatedAt[e]
      /\ \A e \in Events, T \in SUBSET Range(s) :
           /\ n > 0 /\ Cardinality(T) = n
           /\ \A d \in T : CreatedAt[d] >= CreatedAt[e]
           => /\ Len(res) = n
              /\ \A i \in DOMAIN res : CreatedAt[res[i]] >= CreatedAt[e]
  <2>1. res = Merge(s, n)
    BY <1>4 DEF s, n
  <2> QED BY <1>5, <2>1, MergeProperties
<1>8. \A e \in q.must : e \in Events
  BY <1>2
<1>9. \A e \in q.must : \/ e \in Range(res)
                        \/ /\ Len(res) = n
                           /\ \A i \in DOMAIN res : CreatedAt[res[i]] >= CreatedAt[e]
  BY <1>6, <1>7, <1>8
<1> QED BY <1>7, <1>9 DEF n

(* For every number of shards, clients and events, whatever inserts,        *)
(* deletes, topology changes and rebalances run beside it: a federated      *)
(* query whose shards all answered returns every event that was on them     *)
(* from its start to its end, or a full page of events none of which is     *)
(* older, newest first, and each event once if the store removes            *)
(* duplicates.                                                              *)
THEOREM QueryCompleteAlways == Spec => []QueryComplete
<1>1. Init => QueryInv
  <2>1. Init => \A c \in Clients : call[c] = Idle
    BY DEF Init
  <2> QED BY <2>1 DEF QueryInv, Idle
<1>2. (TypeInv /\ QueueInv) /\ QueryInv /\ [Next]_vars => QueryInv'
  BY QueryInvStep
<1>3. TypeInv /\ QueryInv => QueryComplete
  BY QueryAnswered
<1> QED BY <1>1, <1>2, <1>3, TypesAlways, PTL DEF Spec
=============================================================================
