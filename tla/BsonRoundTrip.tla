---------------------------- MODULE BsonRoundTrip ----------------------------
(***************************************************************************)
(* Documents travel: unpackTable (bson.c) turns a BSON document that the   *)
(* server sent into Lua tables, and castBSON makes a document of them when *)
(* the script sends them back.  Neither side has all the distinctions of   *)
(* the other: Lua has one integer type, a table keeps no order, BSON knows *)
(* whether a nested value is an array but nothing knows it of a document   *)
(* on its own.  What one trip may lose, the next ones must not.            *)
(*                                                                         *)
(* The documents and arrays that are nested in each other are numbered,    *)
(* the outermost is Root.  unpackTable is called once for each and makes   *)
(* one table, appendTable is called once for each table and makes one      *)
(* document: so a table has the number of what it was made of, and each    *)
(* call is an operator on one of them.  No handler is given.               *)
(***************************************************************************)
EXTENDS Integers, SequencesExt

CONSTANTS
  Documents,  \* the documents the server sends first
  MaxStack,   \* MAXSTACK, less what castBSON has on the Lua stack
  MaxTrips    \* bound

(***************************************************************************)
(* Values of BSON and of Lua are records [type, n]: n is the value of an   *)
(* integer or of a double with an integer value, and the number of a table *)
(* (a document or an array on the side of BSON).  A document is a function *)
(* from numbers to [array, fields]: array says whether the value is nested *)
(* as an array, fields is the sequence of named values.  Lua values are a  *)
(* function from numbers to tables [list, dict]: list has the values of    *)
(* the keys 1, 2, ..., where "nil" is a hole, dict those of string keys.   *)
(***************************************************************************)
Value(type, n) == [type |-> type, n |-> n]
Nil == Value("nil", 0)
Field(k, v) == [key |-> k, value |-> v]
Root == 0

BsonValue == [type : {"int32", "int64", "double", "fraction", "true", "false", "string", "null",
                      "other", "table"},
              n : Int]

FieldNames(fields) == {fields[i].key : i \in DOMAIN fields}

(* The tables nested in each table of d, and the ways down to a table of d. *)
Nested(d) ==
  [t \in DOMAIN d |->
     {d[t].fields[i].value.n : i \in {j \in DOMAIN d[t].fields : d[t].fields[j].value.type = "table"}}]
Ways(nested) ==
  {p \in BoundedSeq(DOMAIN nested, Cardinality(DOMAIN nested)) :
     /\ p # <<>> /\ p[1] = Root
     /\ \A i \in 1 .. Len(p) - 1 : p[i + 1] \in nested[p[i]]}

(* Names are unique in a document, and castBSON has stack for all levels: a
   level takes two places of it at most. *)
RoundTripAssumption ==
  /\ MaxStack \in Nat /\ MaxTrips \in Nat
  /\ \A d \in Documents :
       /\ Root \in DOMAIN d /\ IsFiniteSet(DOMAIN d)
       /\ \A t \in DOMAIN d :
            /\ d[t] = [array |-> d[t].array, fields |-> d[t].fields]
            /\ d[t].array \in BOOLEAN
            /\ d[t].fields \in Seq([key : STRING, value : BsonValue])
            /\ ~d[t].array => \A i, j \in DOMAIN d[t].fields :
                                d[t].fields[i].key = d[t].fields[j].key => i = j
       /\ \A t \in DOMAIN d : Nested(d)[t] \subseteq DOMAIN d \ {Root}
       /\ ~d[Root].array
       /\ \A p \in Ways(Nested(d)) : 2 * (Len(p) - 1) < MaxStack
ASSUME RoundTripAssumption

VARIABLES
  sent,   \* the document the server sent first
  doc,    \* the document on its way
  value,  \* what the last unpacking made of it
  prev,   \* what the unpacking before made
  trips   \* documents packed so far

vars == <<sent, doc, value, prev, trips>>

-----------------------------------------------------------------------------
(* Unpacking *)

(* isArray: the name of the first field. *)
IsArray(fields) == fields # <<>> /\ fields[1].key = "0"

(* unpackValue; a type without a case becomes nil. *)
UnpackValue(v) ==
  CASE v.type \in {"int32", "int64"} -> Value("integer", v.n)
    [] v.type = "double" -> Value("float", v.n)
    [] v.type = "table" -> v
    [] v.type \in {"fraction", "true", "false", "string", "null"} -> Value(v.type, 0)
    [] v.type = "other" -> Nil

Tagged(n) == [k \in {"__array"} |-> Value("integer", n)]
(* Mutants: an array is not told apart; only its values count; one too many. *)
Untagged(values) == [k \in {} |-> Nil]
TaggedByValues(values) == Tagged(Cardinality({i \in DOMAIN values : values[i] # Nil}))
TaggedOneMore(values) == Tagged(Len(values) + 1)
(* unpackTable sets __array to the number of elements, nil or not. *)
ArrayTag(values) == Tagged(Len(values))

(* An assignment of nil leaves a field absent and an element a hole. *)
UnpackTable(fields, array) ==
  LET values == [i \in DOMAIN fields |-> UnpackValue(fields[i].value)]
      there == {i \in DOMAIN values : values[i] # Nil}
  IN IF array THEN [list |-> values, dict |-> ArrayTag(values)]
     ELSE [list |-> <<>>,
           dict |-> [k \in {fields[i].key : i \in there} |->
                       values[CHOOSE i \in there : fields[i].key = k]]]

(* pushBSON: nothing but its first name says whether the outermost is an array. *)
Unpacked(d) ==
  [t \in DOMAIN d |->
     UnpackTable(d[t].fields, IF t = Root THEN IsArray(d[t].fields) ELSE d[t].array)]

-----------------------------------------------------------------------------
(* Packing *)

(* getArrayLength: -1 for a document. *)
ArrayLength(t) ==
  IF "__array" \notin DOMAIN t.dict THEN -1
  ELSE LET a == t.dict["__array"] IN
       CASE a.type \in {"integer", "float"} -> IF a.n < 0 THEN 0 ELSE a.n
         [] a.type = "false" -> -1
         [] OTHER -> Len(t.list)

Int32 == -2147483647 - 1 .. 2147483647

(* appendValue: a number with an integer value is an integer. *)
PackValue(v) ==
  CASE v.type \in {"integer", "float"} -> Value(IF v.n \in Int32 THEN "int32" ELSE "int64", v.n)
    [] v.type = "table" -> v
    [] v.type \in {"fraction", "true", "false", "string"} -> Value(v.type, 0)
    [] v.type \in {"nil", "null"} -> Value("null", 0)

(* bson_uint32_to_string: of the names of elements only the first is looked at. *)
Key(i) == IF i = 1 THEN "0" ELSE "later"

(* lua_rawgeti: what is beyond the list is nil. *)
Element(t, i) == IF i \in DOMAIN t.list THEN t.list[i] ELSE Nil

(* appendTable; order is the order in which lua_next finds the string keys. *)
PackTable(t, order) ==
  LET len == ArrayLength(t)
  IN IF len # -1
     THEN [array |-> TRUE,
           fields |-> [i \in 1 .. len |-> Field(Key(i), PackValue(Element(t, i)))]]
     ELSE [array |-> FALSE,
           fields |-> [i \in DOMAIN order |-> Field(order[i], PackValue(t.dict[order[i]]))]]

Packed(v, order) == [t \in DOMAIN v |-> PackTable(v[t], order[t])]

Orders(v) ==
  {order \in [DOMAIN v -> UNION {SetToSeqs(DOMAIN v[t].dict) : t \in DOMAIN v}] :
     \A t \in DOMAIN v : order[t] \in SetToSeqs(DOMAIN v[t].dict)}

(* What appendTable finds on the stack at the end of the way p: an element of
   an array, a key and a value of a document, for every level above. *)
Top(v, p) ==
  Len(p) - 1 + Cardinality({i \in 1 .. Len(p) - 1 : ArrayLength(v[p[i]]) = -1})

(* "recursion detected", and "string index expected" in a document. *)
Refused(v, p) ==
  \/ Top(v, p) >= MaxStack
  \/ v[Last(p)].list # <<>> /\ ArrayLength(v[Last(p)]) = -1

Nothing == [t \in {} |-> 0]

-----------------------------------------------------------------------------
Init ==
  /\ sent \in Documents
  /\ doc = sent
  /\ value = Nothing
  /\ prev = Nothing
  /\ trips = 0

(* bson:value(), cursor:value() *)
Unpack ==
  /\ value = Nothing
  /\ doc # Nothing
  /\ value' = Unpacked(doc)
  /\ UNCHANGED <<sent, doc, prev, trips>>

(* castBSON: an error destroys the document. *)
Pack ==
  /\ value # Nothing
  /\ trips < MaxTrips
  /\ \E order \in Orders(value) :
       LET packed == Packed(value, order) IN
         doc' = IF \E p \in Ways(Nested(packed)) : Refused(value, p) THEN Nothing ELSE packed
  /\ prev' = value
  /\ value' = Nothing
  /\ trips' = trips + 1
  /\ UNCHANGED sent

Next == Unpack \/ Pack
Spec == Init /\ [][Next]_vars

-----------------------------------------------------------------------------
(* Properties *)

(* A reference definition of what a table must hold to stand for a document or
   an array: numbers are compared by value, a value without a Lua type is nil
   or, after a trip, null.  Nothing is said of a document with a field __array. *)
StandsFor(w, v) ==
  CASE v.type \in {"int32", "int64", "double"} -> w.type \in {"integer", "float"} /\ w.n = v.n
    [] v.type = "table" -> w = v
    [] v.type = "other" -> w.type \in {"nil", "null"}
    [] OTHER -> w.type = v.type
TableStandsFor(w, fields, array) ==
  \/ ~array /\ "__array" \in FieldNames(fields)
  \/ /\ array /\ Len(w.list) = Len(fields)
     /\ \A i \in DOMAIN fields : StandsFor(w.list[i], fields[i].value)
  \/ /\ ~array /\ w.list = <<>> /\ DOMAIN w.dict \subseteq FieldNames(fields)
     /\ \A i \in DOMAIN fields :
          StandsFor(IF fields[i].key \in DOMAIN w.dict THEN w.dict[fields[i].key] ELSE Nil,
                    fields[i].value)

(* The outermost document is an array if its first field is named "0", and
   lua_next may put that name first. *)
Ambiguous(d) == ~IsArray(d[Root].fields) /\ "0" \in FieldNames(d[Root].fields)

(* However often a document travels, its tables stand for what the server
   sent: arrays keep their length and each element its place, holes included,
   and numbers their value. *)
StandsForSent ==
  value # Nothing /\ ~Ambiguous(sent) =>
    /\ DOMAIN value = DOMAIN sent
    /\ \A t \in DOMAIN sent :
         TableStandsFor(value[t], sent[t].fields,
                        IF t = Root THEN IsArray(sent[t].fields) ELSE sent[t].array)

(* What unpackTable made, appendTable accepts: no array has lost its length and
   no trip adds a level. *)
AcceptedAgain == doc # Nothing

(* One trip may change a document: a number is narrowed, a hole becomes null, a
   field __array makes an array.  Further trips change nothing. *)
StableAfterOneTrip ==
  trips >= 2 /\ value # Nothing /\ ~Ambiguous(sent) => value = prev
=============================================================================
