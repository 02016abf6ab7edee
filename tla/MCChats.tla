------------------------------ MODULE MCChats ------------------------------
(***************************************************************************)
(* An instance of Chats: Global and two more chats, two items, three       *)
(* seconds.                                                                *)
(***************************************************************************)
EXTENDS Chats, Folds

CONSTANTS Global1, n1, u1, u2

\* A name is part of another one and of each id; an id is part of itself.
MCWithin == {<<n1, Global1>>, <<1, 1>>, <<2, 2>>, <<3, 3>>} \cup {<<n1, i>> : i \in 1..3}

\* build_filters as the loop it is, for all sequences of three filters out of
\* plain values and operators on two keys.
SomeFilters == {Equal("a", 1), Equal("b", 2), Compare("a", "lt", 3), Compare("a", "gt", 4),
                Compare("a", "lt", 5), Compare("b", "in", 6),
                Compare("a", "lt", 7) \cup Compare("b", "lt", 8)}

ASSUME BuildFiltersIsLoop ==
    \A filters \in [1..3 -> SomeFilters] :
        BuildFilters(filters) =
            MapThenFoldSet(LAMBDA condition, res : Merge(res, condition), {},
                           LAMBDA i : filters[i], LAMBDA S : CHOOSE i \in S : \A j \in S : i >= j,
                           1..3)
=============================================================================
