------------------------------ MODULE MCBTree ------------------------------
(***************************************************************************)
(* Pages of at most three entries and trees of depth three to start with:  *)
(* one filled in key order and thinned out so that the next deletions      *)
(* merge up to the root, one filled from the top down.                     *)
(***************************************************************************)
EXTENDS BTree

CONSTANTS
  N,      \* keys 1 .. N
  Long,   \* the longer ones
  Copies  \* locations under each key

MCEntries == (1 .. N) \X (1 .. Copies)
MCKeyLen == [k \in 1 .. N |-> IF k \in Long THEN 38 ELSE 30]

One(k) == <<k, 1>>
MCLoads ==
  {[ins |-> [i \in 1 .. N |-> One(i)], del |-> <<One(2), One(6), One(9)>>],
   [ins |-> [i \in 1 .. N - 1 |-> One(N + 1 - i)], del |-> <<One(3), One(4)>>]}
MCRanges == {<<2, 6>>}
=============================================================================
