---------------------------- MODULE MCBsonEncode ----------------------------
(* Graphs of tables for the encoder.  The entries of a table with a metatable
   are never looked at. *)
EXTENDS BsonEncode

CONSTANT MaxEntries  \* bound: entries of one table

BoundedSeq(S) == UNION {[1 .. n -> S] : n \in 0 .. MaxEntries}

(* The loop over an array computes its keys: none of them can be bad. *)
Bare(values) ==
  [array : {FALSE}, meta : {"none"}, to : {Plain}, entries : BoundedSeq(values)]
    \cup [array : {TRUE}, meta : {"none"}, to : {Plain},
          entries : BoundedSeq(values \ {BadKey})]
WithMeta(kinds) == [array : {FALSE}, meta : kinds, to : {Plain}, entries : {<<>>}]
Transforming(results) == [array : {FALSE}, meta : {"toBSON"}, to : results,
                          entries : {<<>>}]

(* Every kind of value and metatable, on two tables; the others are empty. *)
EveryValue ==
  LET two == {1, 2}
      others(S) == S \ (Table \ two)
      graphs == [two -> Bare(others(Entry)) \cup WithMeta(MetaKind \ {"none", "toBSON"})
                          \cup Transforming(others(Result))]
      empty == [array |-> FALSE, meta |-> "none", to |-> Plain, entries |-> <<>>]
  IN {[t \in Table |-> IF t \in two THEN g[t] ELSE empty] : g \in graphs}

(* Every shape of a graph, on all tables. *)
EveryShape == [Table -> Bare(Table \cup {Plain}) \cup WithMeta({"typed", "other"})
                          \cup Transforming(Table)]

Graphs == EveryValue \cup EveryShape
=============================================================================
