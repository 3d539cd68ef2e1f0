---------------------------- MODULE MCReadPath ----------------------------
(* Six events in three partitions of four units: two at the same second,   *)
(* one at the first second of a partition, one of a kind that is not among *)
(* the default kinds, one with two values of a tag, one with a value too   *)
(* long for a key, one with a topic in capitals (value 4 is value 1).      *)
EXTENDS ReadPath

Ev(author, kind, ts, tags, words) ==
  [author |-> author, kind |-> kind, ts |-> ts, tags |-> tags, words |-> words]

MCEvents == <<
  Ev(1, 1, 2, {<<"p", 1>>}, {}),
  Ev(1, 1, 5, {<<"p", 1>>, <<"p", 2>>, <<"t", 1>>}, {"w"}),
  Ev(2, 1, 5, {<<"p", 1>>, <<"t", 4>>, <<"x", 1>>}, {}),
  Ev(1, 2, 8, {<<"p", 2>>, <<"x", 1>>}, {}),
  Ev(2, 3, 9, {<<"t", 1>>}, {"w"}),
  Ev(1, 1, 9, {<<"p", 3>>}, {}) >>

MCTagTypes == [n \in {"p", "t"} |-> IF n = "p" THEN 1 ELSE 2]
MCKeyPart == [v \in 1 .. 4 |-> IF v = 3 THEN 7 ELSE v]
MCFolded == [v \in 0 .. 4 |-> IF v = 4 THEN 1 ELSE v]
MCDefaultKinds == <<1, 2>>

F(kinds, authors, tags, since, until, limit, search) ==
  [kinds |-> kinds, authors |-> authors, tags |-> tags, since |-> since,
   until |-> until, limit |-> limit, search |-> search]

(* The last two find nothing: no index serves them. *)
MCFilters == {
  F(<<1, 2>>, <<>>, {}, 0, 0, 2, ""),
  F(<<1, 2>>, <<>>, {}, 5, 9, 0, ""),
  F(<<>>, <<1, 2, 1>>, {}, 0, 0, 0, ""),
  F(<<>>, <<1>>, {<<"p", 1>>, <<"p", 2>>}, 0, 0, 0, ""),
  F(<<>>, <<>>, {<<"p", 1>>, <<"p", 2>>}, 0, 9, 2, ""),
  F(<<>>, <<1, 2>>, {<<"x", 1>>}, 0, 0, 0, ""),
  F(<<1, 3>>, <<>>, {<<"t", 1>>}, 0, 0, 0, ""),
  F(<<>>, <<>>, {<<"p", 1>>, <<"x", 1>>}, 0, 0, 0, ""),
  F(<<>>, <<>>, {<<"p", 1>>, <<"t", 1>>, <<"x", 1>>}, 0, 0, 0, ""),
  F(<<>>, <<>>, {}, 0, 0, 0, ""),
  F(<<>>, <<>>, {}, 0, 0, 0, "w") }

(* No index serves the third. *)
MCDeleteFilters == {
  F(<<>>, <<1, 2>>, {}, 0, 0, 1, ""),
  F(<<1, 2, 3>>, <<>>, {<<"t", 1>>}, 0, 9, 0, ""),
  F(<<1>>, <<>>, {<<"x", 1>>}, 0, 0, 0, ""),
  F(<<1>>, <<>>, {}, 0, 0, 0, "") }

(* Posts that mention 1 and carry the topic 1. *)
MCTwoTags == {F(<<1>>, <<>>, {<<"p", 1>>, <<"t", 1>>}, 0, 0, 0, "")}

Q(group, tag, bucket, limit, desc, f) ==
  [group |-> group, tag |-> tag, bucket |-> bucket, limit |-> limit, desc |-> desc, f |-> f]
All == F(<<>>, <<>>, {}, 0, 0, 0, "")

(* The sixth and the seventh are joins, which compiler.go:92-114 plans and *)
(* docs/aggregation.md:246-273 and types/aggregation.go:24,68 still call   *)
(* unsupported.                                                            *)
MCAggQueries == {
  Q({"kind"}, "", 0, 1, TRUE, All),
  Q({"bucket", "kind"}, "", 4, 0, FALSE, F(<<1, 2>>, <<>>, {}, 3, 9, 0, "")),
  Q({"tag"}, "p", 0, 0, TRUE, F(<<1>>, <<>>, {<<"p", 1>>}, 0, 5, 0, "")),
  Q({"author"}, "", 0, 1, TRUE, All),
  Q({"author", "kind"}, "", 0, 0, FALSE, F(<<1, 2>>, <<1>>, {}, 0, 9, 0, "")),
  Q({"kind"}, "", 0, 0, FALSE, F(<<>>, <<>>, {<<"p", 1>>, <<"t", 1>>}, 0, 0, 0, "")),
  Q({"author", "tag"}, "t", 0, 0, TRUE, F(<<>>, <<1, 2, 1>>, {<<"p", 1>>}, 0, 0, 0, "")),
  Q({"tag"}, "x", 0, 0, TRUE, All) }

MCBatched == {{1, 4}, {5, 6}}

MCStored == {{1, 2, 3, 4, 6}, {2, 3, 5}}
===========================================================================
