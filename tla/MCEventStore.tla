---------------------------- MODULE MCEventStore ----------------------------
(* Instances of EventStore for TLC.                                          *)
EXTENDS EventStore, TLC

CONSTANTS c1, c2, a, b

AllMine   == [c \in Clients |-> Ids]
OwnEvents == [c \in Clients |-> IF c = c1 THEN {a} ELSE {b}]

Events == Permutations(Ids)

OneIndex   == {"author_time"}
TwoIndexes == {"author_time", "search"}

AnyFile      == SUBSET Indexes \ {{}}
AllOrPrimary == {Indexes, {"primary"}}
OnlySearch   == {{"search"}}
=============================================================================
