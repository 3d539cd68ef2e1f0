------------------------------ MODULE HashRing ------------------------------
(***************************************************************************)
(* The consistent-hash ring of the sharded store (src/src/shard/           *)
(* hash_ring.go): every node owns VirtualNodes points of the ring, and a   *)
(* key belongs to the node of the first point at or after the key's hash,  *)
(* wrapping around at the end.                                             *)
(*                                                                         *)
(* The sorted slice of hashes may hold a hash more than once (two virtual  *)
(* nodes with the same 32-bit hash), so it is a bag here: count[h] is how  *)
(* often h is in the slice.  Binary search over the sorted slice depends   *)
(* on the hashes in it and on nothing else.                                *)
(***************************************************************************)
EXTENDS Integers, FiniteSets

CONSTANTS
  Nodes,         \* the node (shard) ids
  Keys,          \* the routing keys (author public keys)
  VirtualNodes,  \* virtual nodes per node
  HashSpace,     \* the hashes are 0 .. HashSpace - 1
  NodeHash,      \* NodeHash[n][i]: the hash of the string "n#i"
  KeyHash,       \* KeyHash[k]: the hash of key k
  NoNode         \* what a lookup of an absent hash in the map yields ("")

Hashes == 0 .. HashSpace - 1

Replicas == 0 .. VirtualNodes - 1

ASSUME RingConstants ==
  /\ VirtualNodes \in Nat \ {0}
  /\ HashSpace \in Nat
  /\ NodeHash \in [Nodes -> [Replicas -> Hashes]]
  /\ KeyHash \in [Keys -> Hashes]
  /\ NoNode \notin Nodes

(***************************************************************************)
(* No two virtual nodes share a hash.  The code takes the first 32 bits of *)
(* a SHA-256 digest and handles no collision: AddNode would overwrite the  *)
(* other node's point, and RemoveNode would leave one copy of the hash     *)
(* behind, mapped to no node.                                              *)
(***************************************************************************)
ASSUME DistinctHashes ==
  \A m, n \in Nodes : \A i, j \in Replicas :
    NodeHash[m][i] = NodeHash[n][j] => m = n /\ i = j

\* The points of a node.
Points(n) == {NodeHash[n][i] : i \in Replicas}

Rings == [nodes : [Hashes -> Nodes \cup {NoNode}], count : [Hashes -> Nat]]

NewHashRing == [nodes |-> [h \in Hashes |-> NoNode],
                count |-> [h \in Hashes |-> 0]]

(***************************************************************************)
(* AddNode appends each virtual node's hash to the slice, duplicates       *)
(* included, and sorts it.                                                 *)
(***************************************************************************)
AddNode(r, n) ==
  [nodes |-> [h \in Hashes |-> IF h \in Points(n) THEN n ELSE r.nodes[h]],
   count |-> [h \in Hashes |-> IF h \in Points(n) THEN r.count[h] + 1
                                                  ELSE r.count[h]]]

\* Mutant: the node's map entries go, its hashes stay in the slice.
RemoveNodeKeepsHashes(r, n) ==
  [r EXCEPT !.nodes = [h \in Hashes |-> IF r.nodes[h] = n THEN NoNode ELSE r.nodes[h]]]

(***************************************************************************)
(* RemoveNode drops the hashes that map to the node.  The map entry is     *)
(* deleted at the first occurrence, so any further occurrence of the same  *)
(* hash no longer maps to the node and is kept.                            *)
(***************************************************************************)
RemoveNode(r, n) ==
  [nodes |-> [h \in Hashes |-> IF r.count[h] > 0 /\ r.nodes[h] = n
                               THEN NoNode ELSE r.nodes[h]],
   count |-> [h \in Hashes |-> IF r.count[h] > 0 /\ r.nodes[h] = n
                               THEN r.count[h] - 1 ELSE r.count[h]]]

Present(r) == {h \in Hashes : r.count[h] > 0}

Least(S) == CHOOSE h \in S : \A g \in S : h <= g

\* The point responsible for hash x: the first at or after it, or the first.
Successor(S, x) ==
  LET after == {h \in S : h >= x}
  IN  IF after = {} THEN Least(S) ELSE Least(after)

\* Mutant: the key's hash modulo the number of points is the index.
GetNodeModulo(r, k) ==
  LET P == Present(r)
  IN  IF P = {} THEN NoNode
      ELSE r.nodes[CHOOSE h \in P : Cardinality({g \in P : g < h})
                                      = KeyHash[k] % Cardinality(P)]

\* GetNode; the error of an empty ring is NoNode, which is no shard either.
GetNode(r, k) ==
  IF Present(r) = {} THEN NoNode
  ELSE r.nodes[Successor(Present(r), KeyHash[k])]

(***************************************************************************)
(* The ring that holds exactly the nodes of S, each added once to a new    *)
(* ring (with distinct hashes the order does not matter).                  *)
(***************************************************************************)
RingOf(S) ==
  [nodes |-> [h \in Hashes |-> IF \E n \in S : h \in Points(n)
                               THEN CHOOSE n \in S : h \in Points(n)
                               ELSE NoNode],
   count |-> [h \in Hashes |-> IF \E n \in S : h \in Points(n)
                               THEN 1 ELSE 0]]
=============================================================================
