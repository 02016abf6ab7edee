------------------------------ MODULE Queries ------------------------------
(***************************************************************************)
(* How the DAOs ask MongoDB (utils/database_utils/mongo_utils): the        *)
(* filters of a call become one query document (MongoQuery.build_filters), *)
(* which the database compares with every stored document.                 *)
(*                                                                         *)
(* A query document is the set of its entries <<key, operator, argument>>; *)
(* the operator of a plain value is "equal".  A nested dictionary is the   *)
(* set of entries of its key, one for each operator in it, and             *)
(* dictionaries are nothing but that: nested once.                         *)
(***************************************************************************)
EXTENDS Naturals, FiniteSets, Sequences

-----------------------------------------------------------------------------
(***************************************************************************)
(* MongoFilter.to_dict                                                     *)
(***************************************************************************)
Equal(key, v) == {<<key, "equal", v>>}

Compare(key, op, v) == {<<key, op, v>>}

\* $or over a list of alternatives, as MongoDB wants it
OrList(alternatives) == {<<"$or", "equal", alternatives>>}

\* $or over a dictionary
OrDict(d) == {<<"$or", field, d[field]>> : field \in DOMAIN d}

\* _build_contains_filter: no filter at all for no values
Contains(key, S) == IF S = {} THEN <<>> ELSE <<Compare(key, "in", S)>>

\* A filter that a caller adds on a condition.
Optional(needed, filter) == IF needed THEN <<filter>> ELSE <<>>

-----------------------------------------------------------------------------
(***************************************************************************)
(* deep_merge(source, destination) and build_filters, which merges what it *)
(* has so far into the next filter                                         *)
(***************************************************************************)

\* Mutant: dictionaries are updated, not merged.
ReplacesKey(s, e) == s[1] = e[1]

\* An entry of the source replaces one of the destination if it has its place,
\* or is a plain value and replaces a whole dictionary.
Replaces(s, e) == s[1] = e[1] /\ s[2] \in {e[2], "equal"}

Merge(source, destination) ==
    source \cup {e \in destination : ~\E s \in source : Replaces(s, e)}

\* deep_merge raises: a dictionary of the source meets a plain value.
Clash(source, destination) ==
    \E s \in source, e \in destination :
        s[1] = e[1] /\ s[2] # "equal" /\ e[2] = "equal"

\* build_filters.  Replaces is transitive, so the result of the merges is what
\* no earlier filter replaces (MCChats compares the two).
BuildFilters(filters) ==
    UNION {{e \in filters[i] : ~\E j \in 1..(i - 1) : \E s \in filters[j] : Replaces(s, e)}
             : i \in 1..Len(filters)}

\* exec_query gets an answer: no merge raises, and MongoDB takes the document,
\* in which $or is a list.
Accepted(filters) ==
    /\ \A i \in 1..Len(filters) :
          ~Clash(BuildFilters(SubSeq(filters, 1, i - 1)), filters[i])
    /\ \A e \in BuildFilters(filters) : e[1] = "$or" => e[2] = "equal"

-----------------------------------------------------------------------------
(***************************************************************************)
(* The database                                                            *)
(***************************************************************************)

\* An alternative compares a field with a value or, as a regular expression,
\* looks for a text within it.
Agrees(a, d, within) ==
    \/ a.how = "is" /\ d[a.field] = a.value
    \/ a.how = "contains" /\ <<a.value, d[a.field]>> \in within

Satisfies(e, d, within) ==
    /\ e[1] = "$or" => \E a \in e[3] : Agrees(a, d, within)
    /\ (e[1] # "$or" /\ e[2] = "equal") => d[e[1]] = e[3]
    /\ e[2] = "lt" => d[e[1]] < e[3]
    /\ e[2] = "gt" => d[e[1]] > e[3]
    /\ e[2] = "in" => d[e[1]] \in e[3]

Matches(query, d, within) == \A e \in query : Satisfies(e, d, within)

\* find: the positions of the stored documents that match.
Found(stored, filters, within) ==
    {i \in 1..Len(stored) : Matches(BuildFilters(filters), stored[i], within)}

\* In the stored order, with a limit of 1.
First(stored, filters, within) ==
    LET found == Found(stored, filters, within)
    IN  {stored[i] : i \in {j \in found : \A k \in found : j <= k}}

\* In the stored order, with a limit: those that fewer found ones precede.
Leading(stored, filters, within, limit) ==
    LET found == Found(stored, filters, within)
    IN  {stored[i] : i \in {j \in found : Cardinality({k \in found : k < j}) < limit}}

\* get_item and _build_item_selection_filters; id 0 is none.
ItemFilters(id, filters) == filters \o Optional(id # 0, Equal("_id", id))

GetItem(stored, id, filters, within) ==
    IF ItemFilters(id, filters) = <<>> THEN {}
    ELSE First(stored, ItemFilters(id, filters), within)

\* With sort created_on DESCENDING and a limit: the sets of documents it may
\* return, as ties are broken either way.
Newest(stored, filters, within, limit) ==
    LET found == Found(stored, filters, within)
        size == IF Cardinality(found) < limit THEN Cardinality(found) ELSE limit
    IN  {{stored[i] : i \in R} :
           R \in {S \in SUBSET found : /\ Cardinality(S) = size
                                       /\ \A i \in S, j \in found \ S :
                                            stored[i].created_on >= stored[j].created_on}}

=============================================================================
