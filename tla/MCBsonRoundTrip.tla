-------------------------- MODULE MCBsonRoundTrip --------------------------
(* Small documents: at most two fields, up to two levels of nesting, the field
   names that mean something and one that does not. *)
EXTENDS BsonRoundTrip

Names == {"0", "a", "__array"}

Scalars == {Value("int32", -1), Value("int32", 2), Value("int64", 1), Value("double", 1),
            Value("fraction", 0), Value("null", 0), Value("false", 0), Value("string", 0),
            Value("other", 0)}
Few == {Value("int32", -1), Value("int32", 2), Value("false", 0), Value("other", 0)}
Table(t) == Value("table", t)

Empty == [array |-> FALSE, fields |-> <<>>]
(* One field, or two of different names in this order and the other. *)
Pairs(k, l, v, w) == IF k = l THEN {<<Field(k, v)>>}
                     ELSE {<<Field(k, v), Field(l, w)>>, <<Field(l, w), Field(k, v)>>}
Docs(values, others) ==
  {[array |-> FALSE, fields |-> s] :
     s \in UNION {Pairs(k, l, v, w) : k \in Names, l \in Names, v \in values, w \in others}}
Arrays(values) ==
  {[array |-> TRUE, fields |-> [i \in DOMAIN s |-> Field(Key(i), s[i])]] :
     s \in BoundedSeq(values, 2)}
Inner(values) == {Empty} \cup Docs(values, values) \cup Arrays(values)

Flat == {<<d>> : d \in {Empty} \cup Docs(Scalars, Scalars)}
OneLevel == Docs({Table(1)}, Scalars) \X Inner(Few)
TwoLevels ==
  Docs({Table(1)}, {Value("null", 0)})
    \X (Docs({Table(2)}, {Value("int32", 2)})
          \cup {[array |-> TRUE, fields |-> <<Field("0", Value("other", 0)), Field("later", Table(2))>>]})
    \X Inner({Value("int32", 2), Value("other", 0)})

SmallDocuments ==
  {[t \in 0 .. Len(s) - 1 |-> s[t + 1]] : s \in Flat \cup OneLevel \cup TwoLevels}
=============================================================================
