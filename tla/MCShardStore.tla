--------------------------- MODULE MCShardStore ---------------------------
(***************************************************************************)
(* Three shards with two virtual nodes each on a ring of twelve hashes,    *)
(* two authors, two events.                                                *)
(***************************************************************************)
EXTENDS ShardStore, TLC

CONSTANTS s1, s2, s3, a, b

MCNodes == {s1, s2, s3}
MCFirst == {s1, s2}
MCKeys == {a, b}
MCNodeHash == s1 :> (0 :> 1 @@ 1 :> 7) @@ s2 :> (0 :> 3 @@ 1 :> 9)
                @@ s3 :> (0 :> 5 @@ 1 :> 10)
MCKeyHash == a :> 4 @@ b :> 8
MCFilters == {{}, {a}}
MCEvents == 1 .. 2
MCPubkey == 1 :> a @@ 2 :> b
MCCreatedAt == 1 :> 10 @@ 2 :> 20
=============================================================================
