------------------------ MODULE BsonRoundTripProofs ------------------------
(***************************************************************************)
(* What TLAPS proves of the round trip, for documents of any size and      *)
(* nesting and any number of trips.  Every trip is one call of unpackTable *)
(* and one of appendTable for each table.  The lemmas say what a value     *)
(* becomes, then what a table becomes, then what the tables of a document  *)
(* become together.                                                        *)
(***************************************************************************)
EXTENDS BsonRoundTrip, FiniteSetTheorems, SequenceTheorems, TLAPS

LuaValue == [type : {"integer", "float", "fraction", "true", "false", "string", "null", "nil",
                     "table"},
             n : Int]

(* What was packed and unpacked once *)
Again(v) == UnpackValue(PackValue(v))

LEMMA UnpackValueStandsFor ==
  ASSUME NEW v \in BsonValue
  PROVE  UnpackValue(v) \in LuaValue /\ StandsFor(UnpackValue(v), v)
  BY DEF BsonValue, LuaValue, UnpackValue, Value, Nil, StandsFor

LEMMA PackValueIn ==
  ASSUME NEW v \in LuaValue
  PROVE  /\ PackValue(v) \in BsonValue /\ PackValue(v).type # "other"
         /\ PackValue(v).type = "table" <=> v.type = "table"
         /\ v.type = "table" => PackValue(v) = v
  BY DEF BsonValue, LuaValue, PackValue, Value

LEMMA AgainIs ==
  ASSUME NEW v \in LuaValue
  PROVE  Again(v) = CASE v.type \in {"integer", "float"} -> Value("integer", v.n)
                      [] v.type = "table" -> v
                      [] v.type \in {"nil", "null"} -> Value("null", 0)
                      [] OTHER -> Value(v.type, 0)
  BY DEF LuaValue, Again, UnpackValue, PackValue, Value

LEMMA AgainValue ==
  ASSUME NEW v \in LuaValue
  PROVE  /\ Again(v) \in LuaValue /\ Again(v) # Nil
         /\ Again(v).type = "false" <=> v.type = "false"
         /\ v.type \in {"integer", "float"} => Again(v) = Value("integer", v.n)
         /\ Again(v).type = "table" <=> v.type = "table"
         /\ v.type = "table" => Again(v) = v
  BY AgainIs DEF LuaValue, Value, Nil

LEMMA AgainAgain ==
  ASSUME NEW v \in LuaValue
  PROVE  Again(Again(v)) = Again(v)
<1> DEFINE w == Again(v)
<1>1. w \in LuaValue
  BY AgainValue
<1>2. w = CASE v.type \in {"integer", "float"} -> Value("integer", v.n)
            [] v.type = "table" -> v
            [] v.type \in {"nil", "null"} -> Value("null", 0)
            [] OTHER -> Value(v.type, 0)
  BY AgainIs
<1>3. Again(w) = CASE w.type \in {"integer", "float"} -> Value("integer", w.n)
                   [] w.type = "table" -> w
                   [] w.type \in {"nil", "null"} -> Value("null", 0)
                   [] OTHER -> Value(w.type, 0)
  BY <1>1, AgainIs
<1> HIDE DEF w
<1>4. Again(w) = w
  BY <1>2, <1>3 DEF LuaValue, Value
<1> QED BY <1>4 DEF w

LEMMA AgainStandsFor ==
  ASSUME NEW v \in BsonValue, NEW w \in LuaValue, StandsFor(w, v)
  PROVE  StandsFor(Again(w), v)
  BY DEF BsonValue, LuaValue, Again, UnpackValue, PackValue, Value, Nil, StandsFor


-----------------------------------------------------------------------------
(* One table *)

(* The prover knows of no literal that it is in STRING. *)
Name == STRING \cup {"0", "later"}
Named == [key : Name, value : BsonValue]

LEMMA NamedFields ==
  ASSUME NEW fields \in Seq(Named), NEW i \in DOMAIN fields
  PROVE  fields[i].value \in BsonValue /\ fields[i].key \in Name
<1>1. fields[i] \in Named
  OBVIOUS
<1> QED BY <1>1, Zenon DEF Named

LEMMA FinitelyManyNames ==
  ASSUME NEW fields \in Seq(Named)
  PROVE  IsFiniteSet(FieldNames(fields))
<1> DEFINE f == [i \in DOMAIN fields |-> fields[i].key]
<1>1. IsFiniteSet(DOMAIN fields)
  BY FS_Interval
<1>2. f \in Surjection(DOMAIN fields, FieldNames(fields))
  BY DEF Surjection, FieldNames
<1> QED BY <1>1, <1>2, FS_Surjection

LEMMA ArrayUnpacked ==
  ASSUME NEW fields \in Seq(Named)
  PROVE  LET w == UnpackTable(fields, TRUE) IN
         /\ w = [list |-> w.list, dict |-> Tagged(Len(fields))]
         /\ w.list \in Seq(LuaValue) /\ Len(w.list) = Len(fields)
         /\ \A i \in DOMAIN fields : w.list[i] = UnpackValue(fields[i].value)
<1> DEFINE values == [i \in DOMAIN fields |-> UnpackValue(fields[i].value)]
<1>1. UnpackTable(fields, TRUE) = [list |-> values, dict |-> ArrayTag(values)]
  BY Zenon DEF UnpackTable
<1>2. DOMAIN fields = 1 .. Len(fields) /\ Len(fields) \in Nat
  OBVIOUS
<1>3. \A i \in DOMAIN fields : fields[i].value \in BsonValue
  BY NamedFields
<1>4. values \in [1 .. Len(fields) -> LuaValue]
  BY <1>2, <1>3, UnpackValueStandsFor
<1>5. values \in Seq(LuaValue) /\ Len(values) = Len(fields)
  BY <1>2, <1>4
<1> HIDE DEF values
<1>6. \A i \in DOMAIN fields : values[i] = UnpackValue(fields[i].value)
  BY DEF values
<1> DEFINE w == UnpackTable(fields, TRUE)
<1> HIDE DEF w
<1>7. w = [list |-> values, dict |-> Tagged(Len(fields))]
  BY <1>1, <1>5 DEF ArrayTag, w
<1>8. w.list = values /\ w = [list |-> w.list, dict |-> Tagged(Len(fields))]
  BY <1>7
<1> QED BY <1>5, <1>6, <1>8 DEF w

LEMMA DocumentUnpacked ==
  ASSUME NEW fields \in Seq(Named)
  PROVE  LET w == UnpackTable(fields, FALSE) IN
         /\ w = [list |-> <<>>, dict |-> w.dict]
         /\ w.dict = [k \in DOMAIN w.dict |-> w.dict[k]]
         /\ IsFiniteSet(DOMAIN w.dict) /\ DOMAIN w.dict \subseteq FieldNames(fields)
         /\ \A k \in DOMAIN w.dict : /\ w.dict[k] # Nil /\ w.dict[k] \in LuaValue /\ k \in Name
                                     /\ \E i \in DOMAIN fields : /\ fields[i].key = k
                                                                 /\ w.dict[k] = UnpackValue(fields[i].value)
         /\ \A i \in DOMAIN fields : UnpackValue(fields[i].value) # Nil => fields[i].key \in DOMAIN w.dict
<1> DEFINE values == [i \in DOMAIN fields |-> UnpackValue(fields[i].value)]
           there == {i \in DOMAIN values : values[i] # Nil}
           at(k) == CHOOSE i \in there : fields[i].key = k
           dict == [k \in {fields[i].key : i \in there} |-> values[at(k)]]
<1>1. UnpackTable(fields, FALSE) = [list |-> <<>>, dict |-> dict]
  BY Zenon DEF UnpackTable
<1>2. DOMAIN dict = {fields[i].key : i \in there} /\ there \subseteq DOMAIN fields
  OBVIOUS
<1>3. DOMAIN dict \subseteq FieldNames(fields)
  BY <1>2 DEF FieldNames
<1>4. IsFiniteSet(DOMAIN dict)
  BY <1>3, FinitelyManyNames, FS_Subset
<1>5. ASSUME NEW k \in DOMAIN dict
      PROVE  at(k) \in there /\ fields[at(k)].key = k /\ dict[k] = values[at(k)]
  BY <1>2
<1>6. \A i \in DOMAIN fields : fields[i].value \in BsonValue /\ fields[i].key \in Name
  BY NamedFields
<1>7. \A i \in DOMAIN fields : values[i] \in LuaValue /\ values[i] = UnpackValue(fields[i].value)
  BY <1>6, UnpackValueStandsFor
<1>8. ASSUME NEW k \in DOMAIN dict
      PROVE  /\ dict[k] # Nil /\ dict[k] \in LuaValue /\ k \in Name
             /\ \E i \in DOMAIN fields : fields[i].key = k /\ dict[k] = UnpackValue(fields[i].value)
  <2>1. PICK j \in there : fields[j].key = k /\ dict[k] = values[j]
    BY <1>5
  <2>2. j \in DOMAIN fields /\ values[j] # Nil
    OBVIOUS
  <2>3. values[j] \in LuaValue /\ values[j] = UnpackValue(fields[j].value) /\ fields[j].key \in Name
    BY <1>6, <1>7, <2>2
  <2> HIDE DEF dict, values
  <2> QED BY <2>1, <2>2, <2>3
<1>9. \A i \in DOMAIN fields : UnpackValue(fields[i].value) # Nil => fields[i].key \in DOMAIN dict
  BY <1>2
<1> HIDE DEF dict
<1>10. dict = [k \in DOMAIN dict |-> dict[k]]
  BY DEF dict
<1> DEFINE w == UnpackTable(fields, FALSE)
<1> HIDE DEF w
<1>11. w = [list |-> <<>>, dict |-> dict]
  BY <1>1 DEF w
<1>12. w.dict = dict /\ w = [list |-> <<>>, dict |-> w.dict]
  BY <1>11
<1> QED BY <1>3, <1>4, <1>8, <1>9, <1>10, <1>12, Zenon DEF w


(* What unpackTable makes *)
Made(w) ==
  /\ w = [list |-> w.list, dict |-> w.dict] /\ w.list \in Seq(LuaValue)
  /\ \/ w.dict = Tagged(Len(w.list))
     \/ /\ w.list = <<>> /\ IsFiniteSet(DOMAIN w.dict)
        /\ w.dict = [k \in DOMAIN w.dict |-> w.dict[k]]
        /\ \A k \in DOMAIN w.dict : k \in Name /\ w.dict[k] \in LuaValue /\ w.dict[k] # Nil

LEMMA UnpackTableMakes ==
  ASSUME NEW fields \in Seq(Named), NEW array \in BOOLEAN
  PROVE  Made(UnpackTable(fields, array))
<1>1. CASE array
  <2> DEFINE w == UnpackTable(fields, TRUE)
  <2> HIDE DEF w
  <2>1. w = [list |-> w.list, dict |-> Tagged(Len(fields))] /\ w.list \in Seq(LuaValue) /\ Len(w.list) = Len(fields)
    BY ArrayUnpacked DEF w
  <2>2. w.dict = Tagged(Len(w.list)) /\ w = [list |-> w.list, dict |-> w.dict]
    BY <2>1
  <2>3. Made(w)
    BY <2>1, <2>2, Zenon DEF Made
  <2> QED BY <1>1, <2>3 DEF w
<1>2. CASE ~array
  <2> DEFINE w == UnpackTable(fields, FALSE)
  <2> HIDE DEF w
  <2>1. /\ w = [list |-> <<>>, dict |-> w.dict]
        /\ w.dict = [k \in DOMAIN w.dict |-> w.dict[k]]
        /\ IsFiniteSet(DOMAIN w.dict)
        /\ \A k \in DOMAIN w.dict : w.dict[k] # Nil /\ w.dict[k] \in LuaValue /\ k \in Name
    BY DocumentUnpacked, Zenon DEF w
  <2>2. w.list = <<>> /\ <<>> \in Seq(LuaValue)
    BY <2>1
  <2>3. Made(w)
    BY <2>1, <2>2, Zenon DEF Made
  <2> QED BY <1>2, <2>3 DEF w
<1> QED BY <1>1, <1>2

LEMMA LengthOfArray ==
  ASSUME NEW w, w.list \in Seq(LuaValue), w.dict = Tagged(Len(w.list))
  PROVE  ArrayLength(w) = Len(w.list)
<1>1. Len(w.list) \in Nat
  OBVIOUS
<1>2. "__array" \in DOMAIN w.dict /\ w.dict["__array"] = [type |-> "integer", n |-> Len(w.list)]
  BY DEF Tagged, Value
<1> QED BY <1>1, <1>2 DEF ArrayLength

LEMMA LengthOfMade ==
  ASSUME NEW w, Made(w)
  PROVE  /\ ArrayLength(w) \in Nat \cup {-1}
         /\ ArrayLength(w) = -1 => w.list = <<>>
         /\ w.list = <<>> /\ "__array" \notin DOMAIN w.dict => ArrayLength(w) = -1
<1>1. CASE w.dict = Tagged(Len(w.list))
  <2>1. ArrayLength(w) = Len(w.list) /\ Len(w.list) \in Nat
    BY <1>1, LengthOfArray DEF Made
  <2>2. "__array" \in DOMAIN w.dict
    BY <1>1 DEF Tagged
  <2> QED BY <2>1, <2>2
<1>2. CASE w.list = <<>> /\ \A k \in DOMAIN w.dict : w.dict[k] \in LuaValue
  <2>1. CASE "__array" \in DOMAIN w.dict
    <3>1. w.dict["__array"] \in LuaValue /\ Len(w.list) = 0
      BY <1>2, <2>1
    <3>2. w.dict["__array"].n \in Int
      BY <3>1 DEF LuaValue
    <3> QED BY <1>2, <2>1, <3>1, <3>2 DEF ArrayLength
  <2> QED BY <1>2, <2>1 DEF ArrayLength
<1> QED BY <1>1, <1>2, Zenon DEF Made

LEMMA ElementIn ==
  ASSUME NEW w, Made(w), NEW i
  PROVE  Element(w, i) \in LuaValue
<1>1. Nil \in LuaValue
  BY DEF Nil, Value, LuaValue
<1>2. i \in DOMAIN w.list => w.list[i] \in LuaValue
  BY DEF Made
<1> QED BY <1>1, <1>2 DEF Element

LEMMA ArrayPacked ==
  ASSUME NEW w, Made(w), NEW order, ArrayLength(w) # -1
  PROVE  LET x == PackTable(w, order) IN
         /\ x = [array |-> TRUE, fields |-> x.fields] /\ x.fields \in Seq(Named)
         /\ Len(x.fields) = ArrayLength(w)
         /\ \A i \in 1 .. Len(x.fields) : /\ x.fields[i].key = Key(i)
                                          /\ x.fields[i].value = PackValue(Element(w, i))
<1> DEFINE n == ArrayLength(w)
           fields == [i \in 1 .. n |-> Field(Key(i), PackValue(Element(w, i)))]
<1>1. n \in Nat
  BY LengthOfMade
<1>2. PackTable(w, order) = [array |-> TRUE, fields |-> fields]
  BY Zenon DEF PackTable
<1>3. ASSUME NEW i \in 1 .. n
      PROVE  fields[i] \in Named /\ fields[i].key = Key(i) /\ fields[i].value = PackValue(Element(w, i))
  <2>1. Element(w, i) \in LuaValue
    BY ElementIn
  <2>2. PackValue(Element(w, i)) \in BsonValue
    BY <2>1, PackValueIn
  <2>3. Key(i) \in Name
    BY DEF Key, Name
  <2> QED BY <2>2, <2>3 DEF Field, Named
<1>4. fields \in Seq(Named) /\ Len(fields) = n
  <2> HIDE DEF n
  <2> QED BY <1>1, <1>3
<1> HIDE DEF fields
<1> DEFINE x == PackTable(w, order)
<1> HIDE DEF x
<1>5. x.fields = fields /\ x = [array |-> TRUE, fields |-> x.fields]
  BY <1>2 DEF x
<1> QED BY <1>3, <1>4, <1>5 DEF x

LEMMA DocumentPacked ==
  ASSUME NEW w, Made(w), NEW order \in SetToSeqs(DOMAIN w.dict), ArrayLength(w) = -1
  PROVE  LET x == PackTable(w, order) IN
         /\ x = [array |-> FALSE, fields |-> x.fields] /\ x.fields \in Seq(Named)
         /\ FieldNames(x.fields) = DOMAIN w.dict
         /\ \A i \in DOMAIN x.fields : x.fields[i].value = PackValue(w.dict[x.fields[i].key])
<1> DEFINE S == DOMAIN w.dict
           fields == [i \in DOMAIN order |-> Field(order[i], PackValue(w.dict[order[i]]))]
<1>1. PackTable(w, order) = [array |-> FALSE, fields |-> fields]
  BY Zenon DEF PackTable
<1>2. IsFiniteSet(S) /\ \A k \in S : k \in Name /\ w.dict[k] \in LuaValue
  <2>1. w.dict # Tagged(Len(w.list))
    <3>1. Len(w.list) # -1 /\ w.list \in Seq(LuaValue)
      BY DEF Made
    <3> QED BY <3>1, LengthOfArray
  <2> QED BY <2>1, Zenon DEF Made
<1>3. /\ order \in [1 .. Cardinality(S) -> S] /\ Cardinality(S) \in Nat
      /\ \A i, j \in 1 .. Cardinality(S) : i # j => order[i] # order[j]
  BY <1>2, FS_CardinalityType DEF SetToSeqs
<1>4. \A k \in S : \E i \in 1 .. Cardinality(S) : order[i] = k
  <2>1. IsFiniteSet(1 .. Cardinality(S)) /\ Cardinality(1 .. Cardinality(S)) = Cardinality(S)
    BY <1>3, FS_Interval
  <2>2. order \in Injection(1 .. Cardinality(S), S)
    BY <1>3 DEF Injection, IsInjective
  <2>3. order \in Surjection(1 .. Cardinality(S), S)
    BY <1>2, <2>1, <2>2, FS_Injection
  <2> QED BY <2>3 DEF Surjection
<1>5. ASSUME NEW i \in 1 .. Cardinality(S)
      PROVE  /\ fields[i] \in Named /\ fields[i].key = order[i]
             /\ fields[i].value = PackValue(w.dict[order[i]])
  <2>1. order[i] \in S /\ order[i] \in Name /\ w.dict[order[i]] \in LuaValue
    BY <1>2, <1>3
  <2>2. PackValue(w.dict[order[i]]) \in BsonValue
    BY <2>1, PackValueIn
  <2> QED BY <1>3, <2>1, <2>2 DEF Field, Named
<1>6. DOMAIN fields = 1 .. Cardinality(S)
  BY <1>3
<1>7. fields \in Seq(Named)
  <2> HIDE DEF S
  <2> QED BY <1>3, <1>5, <1>6
<1>8. FieldNames(fields) = S
  <2> HIDE DEF fields, S
  <2> QED BY <1>3, <1>4, <1>5, <1>6 DEF FieldNames
<1>9. \A i \in DOMAIN fields : fields[i].value = PackValue(w.dict[fields[i].key])
  BY <1>5, <1>6
<1> HIDE DEF fields
<1> DEFINE x == PackTable(w, order)
<1> HIDE DEF x
<1>10. x.fields = fields /\ x = [array |-> FALSE, fields |-> x.fields]
  BY <1>1 DEF x
<1> QED BY <1>7, <1>8, <1>9, <1>10 DEF x


(* A table that is packed and unpacked again, by what it was packed as *)
LEMMA ArrayAgain ==
  ASSUME NEW w, Made(w), NEW order, ArrayLength(w) # -1
  PROVE  LET x == PackTable(w, order)
             y == UnpackTable(x.fields, TRUE) IN
         /\ y = [list |-> y.list, dict |-> Tagged(Len(y.list))]
         /\ y.list \in Seq(LuaValue) /\ Len(y.list) = ArrayLength(w)
         /\ \A i \in 1 .. Len(y.list) : y.list[i] = Again(Element(w, i))
<1> DEFINE x == PackTable(w, order)
           fields == x.fields
           y == UnpackTable(fields, TRUE)
<1>1. /\ fields \in Seq(Named) /\ Len(fields) = ArrayLength(w)
      /\ \A i \in 1 .. Len(fields) : fields[i].value = PackValue(Element(w, i))
  BY ArrayPacked, Zenon
<1> HIDE DEF fields
<1>2. /\ y = [list |-> y.list, dict |-> Tagged(Len(fields))]
      /\ y.list \in Seq(LuaValue) /\ Len(y.list) = Len(fields)
      /\ \A i \in DOMAIN fields : y.list[i] = UnpackValue(fields[i].value)
  BY <1>1, ArrayUnpacked, Zenon
<1> HIDE DEF y
<1>3. DOMAIN fields = 1 .. Len(fields)
  BY <1>1
<1>4. \A i \in 1 .. Len(y.list) : y.list[i] = Again(Element(w, i))
  BY <1>1, <1>2, <1>3 DEF Again
<1>5. y = [list |-> y.list, dict |-> Tagged(Len(y.list))] /\ Len(y.list) = ArrayLength(w)
  BY <1>1, <1>2
<1> QED BY <1>2, <1>4, <1>5, Zenon DEF y, fields

LEMMA DocumentAgain ==
  ASSUME NEW w, Made(w), NEW order \in SetToSeqs(DOMAIN w.dict), ArrayLength(w) = -1
  PROVE  LET x == PackTable(w, order) IN
         UnpackTable(x.fields, FALSE)
           = [list |-> <<>>, dict |-> [k \in DOMAIN w.dict |-> Again(w.dict[k])]]
<1> DEFINE x == PackTable(w, order)
           fields == x.fields
           y == UnpackTable(fields, FALSE)
<1>1. /\ fields \in Seq(Named) /\ FieldNames(fields) = DOMAIN w.dict
      /\ \A i \in DOMAIN fields : fields[i].value = PackValue(w.dict[fields[i].key])
  BY DocumentPacked, Zenon
<1> HIDE DEF fields
<1>2. /\ y = [list |-> <<>>, dict |-> y.dict]
      /\ y.dict = [k \in DOMAIN y.dict |-> y.dict[k]]
      /\ DOMAIN y.dict \subseteq FieldNames(fields)
      /\ \A k \in DOMAIN y.dict : \E i \in DOMAIN fields : /\ fields[i].key = k
                                                           /\ y.dict[k] = UnpackValue(fields[i].value)
      /\ \A i \in DOMAIN fields : UnpackValue(fields[i].value) # Nil => fields[i].key \in DOMAIN y.dict
  BY <1>1, DocumentUnpacked, Zenon
<1> HIDE DEF y
<1>3. \A k \in DOMAIN w.dict : Again(w.dict[k]) # Nil
  <2>1. \A k \in DOMAIN w.dict : w.dict[k] \in LuaValue
    <3>1. w.dict # Tagged(Len(w.list))
      <4>1. Len(w.list) # -1 /\ w.list \in Seq(LuaValue)
        BY DEF Made
      <4> QED BY <4>1, LengthOfArray
    <3> QED BY <3>1, Zenon DEF Made
  <2> QED BY <2>1, AgainValue
<1>4. \A i \in DOMAIN fields : UnpackValue(fields[i].value) = Again(w.dict[fields[i].key])
  BY <1>1, Zenon DEF Again
<1>5. ASSUME NEW k \in DOMAIN w.dict PROVE k \in DOMAIN y.dict
  <2>1. PICK i \in DOMAIN fields : fields[i].key = k
    BY <1>1, Zenon DEF FieldNames
  <2> QED BY <1>2, <1>3, <1>4, <2>1
<1>6. DOMAIN y.dict = DOMAIN w.dict
  BY <1>1, <1>2, <1>5
<1>7. ASSUME NEW k \in DOMAIN w.dict PROVE y.dict[k] = Again(w.dict[k])
  <2>1. PICK i \in DOMAIN fields : fields[i].key = k /\ y.dict[k] = UnpackValue(fields[i].value)
    BY <1>2, <1>6, Zenon
  <2> QED BY <1>4, <2>1
<1>8. y.dict = [k \in DOMAIN w.dict |-> Again(w.dict[k])]
  BY <1>2, <1>6, <1>7
<1> QED BY <1>2, <1>8, Zenon DEF y, fields

(* What stays as it is *)
Settled(w) ==
  \/ /\ w.dict = Tagged(Len(w.list))
     /\ \A i \in DOMAIN w.list : Again(w.list[i]) = w.list[i]
  \/ /\ w.list = <<>> /\ ArrayLength(w) = -1
     /\ \A k \in DOMAIN w.dict : Again(w.dict[k]) = w.dict[k]

LEMMA ArraySettles ==
  ASSUME NEW w, Made(w), NEW order, ArrayLength(w) # -1
  PROVE  LET x == PackTable(w, order)
             y == UnpackTable(x.fields, TRUE) IN
         Settled(y) /\ (w.dict = Tagged(Len(w.list)) /\ Settled(w) => y = w)
<1> DEFINE x == PackTable(w, order)
           y == UnpackTable(x.fields, TRUE)
<1>1. /\ y = [list |-> y.list, dict |-> Tagged(Len(y.list))]
      /\ y.list \in Seq(LuaValue) /\ Len(y.list) = ArrayLength(w)
      /\ \A i \in 1 .. Len(y.list) : y.list[i] = Again(Element(w, i))
  BY ArrayAgain, Zenon
<1> HIDE DEF y
<1>2. DOMAIN y.list = 1 .. Len(y.list) /\ y.dict = Tagged(Len(y.list))
  BY <1>1
<1>3. \A i \in DOMAIN y.list : Again(y.list[i]) = y.list[i]
  BY <1>1, <1>2, ElementIn, AgainAgain
<1>4. ASSUME w.dict = Tagged(Len(w.list)), Settled(w) PROVE y = w
  <2>1. w.list \in Seq(LuaValue) /\ w = [list |-> w.list, dict |-> w.dict]
    BY Zenon DEF Made
  <2>2. ArrayLength(w) = Len(w.list) /\ DOMAIN w.list = 1 .. Len(w.list) /\ Len(w.list) \in Nat
    BY <1>4, <2>1, LengthOfArray
  <2>3. \A i \in DOMAIN w.list : Again(w.list[i]) = w.list[i]
    BY <1>4, <2>2 DEF Settled
  <2>4. \A i \in 1 .. Len(w.list) : y.list[i] = w.list[i]
    BY <1>1, <2>2, <2>3 DEF Element
  <2>5. y.list = w.list
    BY <1>1, <2>1, <2>2, <2>4
  <2> QED BY <1>1, <1>4, <2>1, <2>5
<1> QED BY <1>2, <1>3, <1>4, Zenon DEF Settled, y

LEMMA LengthOfDocument ==
  ASSUME NEW w, NEW y, Made(w), ArrayLength(w) = -1,
         y = [list |-> <<>>, dict |-> [k \in DOMAIN w.dict |-> Again(w.dict[k])]]
  PROVE  ArrayLength(y) = -1
<1>1. DOMAIN y.dict = DOMAIN w.dict
  OBVIOUS
<1>2. CASE "__array" \notin DOMAIN w.dict
  BY <1>1, <1>2 DEF ArrayLength
<1>3. CASE "__array" \in DOMAIN w.dict
  <2> DEFINE a == w.dict["__array"]
             b == y.dict["__array"]
  <2>1. a \in LuaValue
    <3>1. w.dict # Tagged(Len(w.list))
      <4>1. Len(w.list) # -1 /\ w.list \in Seq(LuaValue)
        BY DEF Made
      <4> QED BY <4>1, LengthOfArray
    <3> QED BY <1>3, <3>1, Zenon DEF Made
  <2>2. b = Again(a)
    BY <1>3
  <2>3. a.n \in Int /\ Len(w.list) \in Nat
    BY <2>1 DEF LuaValue, Made
  <2>4. a.type = "false"
    <3> HIDE DEF a
    <3>1. ArrayLength(w) = CASE a.type \in {"integer", "float"} -> IF a.n < 0 THEN 0 ELSE a.n
                             [] a.type = "false" -> -1
                             [] OTHER -> Len(w.list)
      BY <1>3, Zenon DEF ArrayLength, a
    <3> QED BY <2>3, <3>1
  <2>5. b.type = "false"
    BY <2>1, <2>2, <2>4, AgainValue, Zenon
  <2> HIDE DEF b
  <2>6. ArrayLength(y) = CASE b.type \in {"integer", "float"} -> IF b.n < 0 THEN 0 ELSE b.n
                           [] b.type = "false" -> -1
                           [] OTHER -> Len(y.list)
    BY <1>1, <1>3, Zenon DEF ArrayLength, b
  <2> QED BY <2>5, <2>6
<1> QED BY <1>2, <1>3

LEMMA DocumentSettles ==
  ASSUME NEW w, Made(w), NEW order \in SetToSeqs(DOMAIN w.dict), ArrayLength(w) = -1
  PROVE  LET x == PackTable(w, order)
             y == UnpackTable(x.fields, FALSE) IN
         Settled(y) /\ (Settled(w) => y = w)
<1> DEFINE x == PackTable(w, order)
           y == UnpackTable(x.fields, FALSE)
<1>1. y = [list |-> <<>>, dict |-> [k \in DOMAIN w.dict |-> Again(w.dict[k])]]
  BY DocumentAgain, Zenon
<1> HIDE DEF y
<1>2. w.dict # Tagged(Len(w.list))
  <2>1. Len(w.list) # -1 /\ w.list \in Seq(LuaValue)
    BY DEF Made
  <2> QED BY <2>1, LengthOfArray
<1>3. /\ w = [list |-> w.list, dict |-> w.dict] /\ w.list = <<>>
      /\ w.dict = [k \in DOMAIN w.dict |-> w.dict[k]]
      /\ \A k \in DOMAIN w.dict : w.dict[k] \in LuaValue
  BY <1>2, Zenon DEF Made
<1>4. /\ y.list = <<>> /\ DOMAIN y.dict = DOMAIN w.dict
      /\ \A k \in DOMAIN y.dict : y.dict[k] = Again(w.dict[k])
  BY <1>1
<1>5. \A k \in DOMAIN y.dict : Again(y.dict[k]) = y.dict[k]
  BY <1>3, <1>4, AgainAgain
<1>6. ArrayLength(y) = -1
  BY <1>1, LengthOfDocument
<1>7. ASSUME Settled(w) PROVE y = w
  <2>1. \A k \in DOMAIN w.dict : Again(w.dict[k]) = w.dict[k]
    BY <1>2, <1>7, Zenon DEF Settled
  <2>2. y.dict = w.dict
    BY <1>1, <1>3, <2>1
  <2> QED BY <1>1, <1>3, <2>2
<1> QED BY <1>4, <1>5, <1>6, <1>7, Zenon DEF Settled, y


-----------------------------------------------------------------------------
(* What a table stands for *)

Unambiguous(fields) ==
  \A i, j \in DOMAIN fields : fields[i].key = fields[j].key => i = j

(* An array keeps its length as well. *)
Stands(w, fields, array) ==
  TableStandsFor(w, fields, array) /\ (array => w.dict = Tagged(Len(w.list)))

LEMMA UnpackedArrayStands ==
  ASSUME NEW fields \in Seq(Named)
  PROVE  Stands(UnpackTable(fields, TRUE), fields, TRUE)
<1> DEFINE w == UnpackTable(fields, TRUE)
<1> HIDE DEF w
<1>1. /\ w = [list |-> w.list, dict |-> Tagged(Len(fields))]
      /\ w.list \in Seq(LuaValue) /\ Len(w.list) = Len(fields)
      /\ \A i \in DOMAIN fields : w.list[i] = UnpackValue(fields[i].value)
  BY ArrayUnpacked, Zenon DEF w
<1>2. \A i \in DOMAIN fields : StandsFor(w.list[i], fields[i].value)
  BY <1>1, NamedFields, UnpackValueStandsFor
<1>3. w.dict = Tagged(Len(w.list))
  BY <1>1
<1>4. Stands(w, fields, TRUE)
  BY <1>1, <1>2, <1>3, Zenon DEF Stands, TableStandsFor
<1> QED BY <1>4 DEF w

LEMMA UnpackedDocumentStands ==
  ASSUME NEW fields \in Seq(Named), Unambiguous(fields)
  PROVE  Stands(UnpackTable(fields, FALSE), fields, FALSE)
<1> DEFINE w == UnpackTable(fields, FALSE)
<1> HIDE DEF w
<1>1. /\ w = [list |-> <<>>, dict |-> w.dict] /\ DOMAIN w.dict \subseteq FieldNames(fields)
      /\ \A k \in DOMAIN w.dict : \E i \in DOMAIN fields : /\ fields[i].key = k
                                                           /\ w.dict[k] = UnpackValue(fields[i].value)
      /\ \A i \in DOMAIN fields : UnpackValue(fields[i].value) # Nil => fields[i].key \in DOMAIN w.dict
  BY DocumentUnpacked, Zenon DEF w
<1>2. ASSUME NEW i \in DOMAIN fields
      PROVE  StandsFor(IF fields[i].key \in DOMAIN w.dict THEN w.dict[fields[i].key] ELSE Nil, fields[i].value)
  <2>1. StandsFor(UnpackValue(fields[i].value), fields[i].value)
    BY NamedFields, UnpackValueStandsFor
  <2>2. ASSUME fields[i].key \in DOMAIN w.dict PROVE w.dict[fields[i].key] = UnpackValue(fields[i].value)
    <3>1. PICK j \in DOMAIN fields : /\ fields[j].key = fields[i].key
                                     /\ w.dict[fields[i].key] = UnpackValue(fields[j].value)
      BY <1>1, <2>2, Zenon
    <3>2. j = i
      BY <3>1 DEF Unambiguous
    <3> QED BY <3>1, <3>2
  <2>3. fields[i].key \notin DOMAIN w.dict => UnpackValue(fields[i].value) = Nil
    BY <1>1, Zenon
  <2> QED BY <2>1, <2>2, <2>3, Zenon
<1>3. w.list = <<>>
  BY <1>1
<1>4. Stands(w, fields, FALSE)
  BY <1>1, <1>2, <1>3, Zenon DEF Stands, TableStandsFor
<1> QED BY <1>4 DEF w

LEMMA ArrayStandsAgain ==
  ASSUME NEW w, Made(w), NEW order, NEW fields \in Seq(Named), Stands(w, fields, TRUE)
  PROVE  LET x == PackTable(w, order) IN Stands(UnpackTable(x.fields, TRUE), fields, TRUE)
<1> DEFINE x == PackTable(w, order)
           y == UnpackTable(x.fields, TRUE)
<1> HIDE DEF y
<1>1. /\ w.list \in Seq(LuaValue) /\ w.dict = Tagged(Len(w.list)) /\ Len(w.list) = Len(fields)
      /\ \A i \in DOMAIN fields : StandsFor(w.list[i], fields[i].value)
  BY Zenon DEF Stands, TableStandsFor, Made
<1>2. ArrayLength(w) = Len(w.list) /\ Len(w.list) \in Nat
  BY <1>1, LengthOfArray
<1>3. /\ y = [list |-> y.list, dict |-> Tagged(Len(y.list))]
      /\ y.list \in Seq(LuaValue) /\ Len(y.list) = ArrayLength(w)
      /\ \A i \in 1 .. Len(y.list) : y.list[i] = Again(Element(w, i))
  <2>1. ArrayLength(w) # -1
    BY <1>2
  <2> QED BY <2>1, ArrayAgain, Zenon DEF y
<1>4. ASSUME NEW i \in DOMAIN fields PROVE StandsFor(y.list[i], fields[i].value)
  <2>1. i \in DOMAIN w.list /\ i \in 1 .. Len(y.list)
    BY <1>1, <1>2, <1>3
  <2>2. w.list[i] \in LuaValue /\ fields[i].value \in BsonValue
    BY <1>1, <2>1, NamedFields
  <2>3. y.list[i] = Again(w.list[i])
    BY <1>3, <2>1 DEF Element
  <2> QED BY <1>1, <2>2, <2>3, AgainStandsFor
<1>5. y.dict = Tagged(Len(y.list)) /\ Len(y.list) = Len(fields)
  BY <1>1, <1>2, <1>3
<1>6. Stands(y, fields, TRUE)
  BY <1>4, <1>5, Zenon DEF Stands, TableStandsFor
<1> QED BY <1>6 DEF y

(* Nothing is said of a document with a field __array: it may become an array. *)
LEMMA DocumentStandsAgain ==
  ASSUME NEW w, Made(w), NEW order \in SetToSeqs(DOMAIN w.dict), NEW fields \in Seq(Named),
         Stands(w, fields, FALSE), "__array" \notin FieldNames(fields)
  PROVE  LET x == PackTable(w, order) IN
         ArrayLength(w) = -1 /\ Stands(UnpackTable(x.fields, FALSE), fields, FALSE)
<1> DEFINE x == PackTable(w, order)
           y == UnpackTable(x.fields, FALSE)
<1> HIDE DEF y
<1>1. /\ w.list = <<>> /\ DOMAIN w.dict \subseteq FieldNames(fields)
      /\ \A i \in DOMAIN fields :
           StandsFor(IF fields[i].key \in DOMAIN w.dict THEN w.dict[fields[i].key] ELSE Nil, fields[i].value)
  BY Zenon DEF Stands, TableStandsFor
<1>2. ArrayLength(w) = -1
  BY <1>1, LengthOfMade
<1>3. y = [list |-> <<>>, dict |-> [k \in DOMAIN w.dict |-> Again(w.dict[k])]]
  BY <1>2, DocumentAgain, Zenon DEF y
<1>4. /\ y.list = <<>> /\ DOMAIN y.dict = DOMAIN w.dict
      /\ \A k \in DOMAIN w.dict : y.dict[k] = Again(w.dict[k])
  BY <1>3
<1>5. \A k \in DOMAIN w.dict : w.dict[k] \in LuaValue
  <2>1. w.dict # Tagged(Len(w.list))
    <3>1. Len(w.list) # -1 /\ w.list \in Seq(LuaValue)
      BY DEF Made
    <3> QED BY <1>2, <3>1, LengthOfArray
  <2> QED BY <2>1, Zenon DEF Made
<1>6. ASSUME NEW i \in DOMAIN fields
      PROVE  StandsFor(IF fields[i].key \in DOMAIN y.dict THEN y.dict[fields[i].key] ELSE Nil, fields[i].value)
  <2> DEFINE k == fields[i].key
             v == fields[i].value
  <2> HIDE DEF k, v
  <2>1. StandsFor(IF k \in DOMAIN w.dict THEN w.dict[k] ELSE Nil, v)
    BY <1>1 DEF k, v
  <2>2. v \in BsonValue
    BY NamedFields DEF v
  <2>3. CASE k \in DOMAIN w.dict
    <3>1. w.dict[k] \in LuaValue /\ StandsFor(w.dict[k], v)
      BY <1>5, <2>1, <2>3, Zenon
    <3>2. StandsFor(Again(w.dict[k]), v)
      BY <2>2, <3>1, AgainStandsFor
    <3>3. StandsFor(IF k \in DOMAIN y.dict THEN y.dict[k] ELSE Nil, v)
      BY <1>4, <2>3, <3>2, Zenon
    <3> QED BY <3>3 DEF k, v
  <2>4. CASE k \notin DOMAIN w.dict
    <3>1. StandsFor(IF k \in DOMAIN y.dict THEN y.dict[k] ELSE Nil, v)
      BY <1>4, <2>1, <2>4, Zenon
    <3> QED BY <3>1 DEF k, v
  <2> QED BY <2>3, <2>4, Zenon
<1>7. Stands(y, fields, FALSE)
  BY <1>1, <1>4, <1>6, Zenon DEF Stands, TableStandsFor
<1> QED BY <1>2, <1>7 DEF y


-----------------------------------------------------------------------------
(* The tables of a document *)

Flag(d, t) == IF t = Root THEN IsArray(d[t].fields) ELSE d[t].array

Document(d) ==
  /\ Root \in DOMAIN d
  /\ \A t \in DOMAIN d : d[t].array \in BOOLEAN /\ d[t].fields \in Seq(Named)

Tables(u) ==
  /\ Root \in DOMAIN u /\ u = [t \in DOMAIN u |-> u[t]]
  /\ \A t \in DOMAIN u : Made(u[t])

(* The first name cannot make an array of a table that is none. *)
Plain(w) == ArrayLength(w) = -1 => "0" \notin DOMAIN w.dict

LEMMA UnpackedTables ==
  ASSUME NEW d, Document(d)
  PROVE  /\ Tables(Unpacked(d)) /\ DOMAIN Unpacked(d) = DOMAIN d
         /\ \A t \in DOMAIN d : Flag(d, t) \in BOOLEAN
         /\ \A t \in DOMAIN d : Unpacked(d)[t] = UnpackTable(d[t].fields, Flag(d, t))
<1>1. \A t \in DOMAIN d : Flag(d, t) \in BOOLEAN
  BY Zenon DEF Flag, Document, IsArray
<1> DEFINE u == Unpacked(d)
<1>2. u = [t \in DOMAIN d |-> UnpackTable(d[t].fields, Flag(d, t))]
  BY Zenon DEF Unpacked, Flag
<1> HIDE DEF u
<1>3. DOMAIN u = DOMAIN d /\ \A t \in DOMAIN d : u[t] = UnpackTable(d[t].fields, Flag(d, t))
  BY <1>2
<1>4. ASSUME NEW t \in DOMAIN d PROVE Made(u[t])
  <2>1. d[t].fields \in Seq(Named)
    BY DEF Document
  <2>2. Made(UnpackTable(d[t].fields, Flag(d, t)))
    BY <1>1, <2>1, UnpackTableMakes
  <2> QED BY <1>3, <2>2
<1>5. u = [t \in DOMAIN u |-> u[t]]
  BY <1>2
<1>6. Tables(u)
  BY <1>3, <1>4, <1>5, Zenon DEF Tables, Document
<1> QED BY <1>1, <1>3, <1>6 DEF u

LEMMA PackedTables ==
  ASSUME NEW u, Tables(u), NEW order \in Orders(u)
  PROVE  LET d == Packed(u, order) IN
         /\ Document(d) /\ DOMAIN d = DOMAIN u
         /\ \A t \in DOMAIN u : /\ order[t] \in SetToSeqs(DOMAIN u[t].dict)
                                /\ d[t] = PackTable(u[t], order[t])
                                /\ d[t].array <=> ArrayLength(u[t]) # -1
<1> DEFINE d == Packed(u, order)
<1>1. DOMAIN d = DOMAIN u /\ \A t \in DOMAIN u : d[t] = PackTable(u[t], order[t])
  BY DEF Packed
<1>2. \A t \in DOMAIN u : order[t] \in SetToSeqs(DOMAIN u[t].dict) /\ Made(u[t])
  BY Zenon DEF Orders, Tables
<1> HIDE DEF d
<1>3. ASSUME NEW t \in DOMAIN u
      PROVE  d[t].array \in BOOLEAN /\ d[t].fields \in Seq(Named) /\ (d[t].array <=> ArrayLength(u[t]) # -1)
  <2> DEFINE w == u[t]
             x == d[t]
  <2>1. x = PackTable(w, order[t]) /\ Made(w) /\ order[t] \in SetToSeqs(DOMAIN w.dict)
    BY <1>1, <1>2
  <2> HIDE DEF w, x
  <2>2. CASE ArrayLength(w) # -1
    <3>1. x = [array |-> TRUE, fields |-> x.fields] /\ x.fields \in Seq(Named)
      BY <2>1, <2>2, ArrayPacked, Zenon
    <3>2. x.array = TRUE
      BY <3>1
    <3> QED BY <2>2, <3>1, <3>2, Zenon DEF w, x
  <2>3. CASE ArrayLength(w) = -1
    <3>1. x = [array |-> FALSE, fields |-> x.fields] /\ x.fields \in Seq(Named)
      BY <2>1, <2>3, DocumentPacked, Zenon
    <3>2. x.array = FALSE
      BY <3>1
    <3> QED BY <2>3, <3>1, <3>2, Zenon DEF w, x
  <2> QED BY <2>2, <2>3
<1>4. Document(d)
  BY <1>1, <1>3, Zenon DEF Document, Tables
<1> QED BY <1>1, <1>2, <1>3, <1>4, Zenon DEF d

LEMMA FirstName ==
  ASSUME NEW w, Made(w), Plain(w), NEW order \in SetToSeqs(DOMAIN w.dict)
  PROVE  LET x == PackTable(w, order) IN
         /\ IsArray(x.fields) <=> ArrayLength(w) \notin {-1, 0}
         /\ ArrayLength(w) = 0 => x.fields = <<>>
<1> DEFINE x == PackTable(w, order)
<1> HIDE DEF x
<1>1. CASE ArrayLength(w) # -1
  <2>1. /\ x.fields \in Seq(Named) /\ Len(x.fields) = ArrayLength(w) /\ ArrayLength(w) \in Nat
        /\ \A i \in 1 .. Len(x.fields) : x.fields[i].key = Key(i)
    <3>1. ArrayLength(w) \in Nat
      BY <1>1, LengthOfMade
    <3> QED BY <1>1, <3>1, ArrayPacked, Zenon DEF x
  <2>2. CASE ArrayLength(w) = 0
    <3>1. x.fields = <<>>
      BY <2>1, <2>2
    <3> QED BY <2>2, <3>1 DEF IsArray, x
  <2>3. CASE ArrayLength(w) # 0
    <3>1. 1 \in 1 .. Len(x.fields) /\ x.fields # <<>>
      BY <2>1, <2>3
    <3>2. x.fields[1].key = "0"
      BY <2>1, <3>1, Zenon DEF Key
    <3> QED BY <1>1, <2>3, <3>1, <3>2 DEF IsArray, x
  <2> QED BY <2>2, <2>3
<1>2. CASE ArrayLength(w) = -1
  <2>1. x.fields \in Seq(Named) /\ FieldNames(x.fields) = DOMAIN w.dict /\ "0" \notin DOMAIN w.dict
    BY <1>2, DocumentPacked, Zenon DEF Plain, x
  <2>2. ~IsArray(x.fields)
    <3>1. SUFFICES ASSUME x.fields # <<>>, x.fields[1].key = "0" PROVE FALSE
      BY DEF IsArray
    <3>2. 1 \in DOMAIN x.fields
      BY <2>1, <3>1
    <3>3. "0" \in FieldNames(x.fields)
      BY <3>1, <3>2, Zenon DEF FieldNames
    <3> QED BY <2>1, <3>3
  <2> QED BY <1>2, <2>2 DEF x
<1> QED BY <1>1, <1>2

LEMMA NothingUnpacked ==
  LET y == UnpackTable(<<>>, FALSE) IN Settled(y) /\ ArrayLength(y) = -1 /\ DOMAIN y.dict = {}
<1> DEFINE y == UnpackTable(<<>>, FALSE)
<1> HIDE DEF y
<1>1. y = [list |-> <<>>, dict |-> y.dict] /\ DOMAIN y.dict \subseteq FieldNames(<<>>)
  <2>1. <<>> \in Seq(Named)
    OBVIOUS
  <2> QED BY <2>1, DocumentUnpacked, Zenon DEF y
<1>2. FieldNames(<<>>) = {}
  BY DEF FieldNames
<1>3. y.list = <<>> /\ DOMAIN y.dict = {}
  BY <1>1, <1>2
<1>4. ArrayLength(y) = -1
  BY <1>3 DEF ArrayLength
<1>5. Settled(y)
  BY <1>3, <1>4 DEF Settled
<1> QED BY <1>3, <1>4, <1>5 DEF y

(* A table that is not the outermost one, or does not lose that it is an array *)
LEMMA TableAgain ==
  ASSUME NEW w, Made(w), NEW order \in SetToSeqs(DOMAIN w.dict), NEW a \in BOOLEAN,
         a <=> ArrayLength(w) # -1
  PROVE  LET x == PackTable(w, order)
             y == UnpackTable(x.fields, a) IN
         /\ Settled(y) /\ (Settled(w) => y = w)
         /\ ArrayLength(y) = ArrayLength(w)
         /\ ~a => DOMAIN y.dict = DOMAIN w.dict
<1> DEFINE x == PackTable(w, order)
           y == UnpackTable(x.fields, a)
<1> HIDE DEF y
<1>1. CASE a
  <2>1. a = TRUE /\ ArrayLength(w) # -1
    BY <1>1
  <2>2. /\ y = [list |-> y.list, dict |-> Tagged(Len(y.list))]
        /\ y.list \in Seq(LuaValue) /\ Len(y.list) = ArrayLength(w)
    BY <2>1, ArrayAgain, Zenon DEF y
  <2>3. y.dict = Tagged(Len(y.list))
    BY <2>2
  <2>4. ArrayLength(y) = ArrayLength(w)
    BY <2>2, <2>3, LengthOfArray
  <2>5. Settled(y) /\ (w.dict = Tagged(Len(w.list)) /\ Settled(w) => y = w)
    BY <2>1, ArraySettles, Zenon DEF y
  <2>6. Settled(w) => w.dict = Tagged(Len(w.list))
    BY <2>1, Zenon DEF Settled
  <2> QED BY <1>1, <2>4, <2>5, <2>6, Zenon DEF y
<1>2. CASE ~a
  <2>1. a = FALSE /\ ArrayLength(w) = -1
    BY <1>2
  <2>2. y = [list |-> <<>>, dict |-> [k \in DOMAIN w.dict |-> Again(w.dict[k])]]
    BY <2>1, DocumentAgain, Zenon DEF y
  <2>3. DOMAIN y.dict = DOMAIN w.dict
    BY <2>2
  <2>4. ArrayLength(y) = ArrayLength(w)
    BY <2>1, <2>2, LengthOfDocument
  <2>5. Settled(y) /\ (Settled(w) => y = w)
    BY <2>1, DocumentSettles, Zenon DEF y
  <2> QED BY <2>3, <2>4, <2>5, Zenon DEF y
<1> QED BY <1>1, <1>2


(* One trip of all tables *)
LEMMA TripSettles ==
  ASSUME NEW u, Tables(u), NEW order \in Orders(u), Plain(u[Root])
  PROVE  LET y == Unpacked(Packed(u, order)) IN
         /\ Tables(y) /\ DOMAIN y = DOMAIN u
         /\ Plain(y[Root]) /\ ArrayLength(y[Root]) # 0
         /\ \A t \in DOMAIN u : Settled(y[t])
         /\ ArrayLength(u[Root]) # 0 /\ (\A t \in DOMAIN u : Settled(u[t])) => y = u
<1> DEFINE d == Packed(u, order)
           y == Unpacked(d)
<1>1. /\ Document(d) /\ DOMAIN d = DOMAIN u
      /\ \A t \in DOMAIN u : /\ order[t] \in SetToSeqs(DOMAIN u[t].dict)
                             /\ d[t] = PackTable(u[t], order[t])
                             /\ d[t].array <=> ArrayLength(u[t]) # -1
  BY PackedTables, Zenon
<1> HIDE DEF d
<1>2. /\ Tables(y) /\ DOMAIN y = DOMAIN u
      /\ \A t \in DOMAIN u : Flag(d, t) \in BOOLEAN /\ y[t] = UnpackTable(d[t].fields, Flag(d, t))
  BY <1>1, UnpackedTables, Zenon
<1> HIDE DEF y
<1>3. ASSUME NEW t \in DOMAIN u, Flag(d, t) <=> ArrayLength(u[t]) # -1
      PROVE  /\ Settled(y[t]) /\ (Settled(u[t]) => y[t] = u[t])
             /\ ArrayLength(y[t]) = ArrayLength(u[t])
             /\ ~Flag(d, t) => DOMAIN y[t].dict = DOMAIN u[t].dict
  <2>1. Made(u[t])
    BY Zenon DEF Tables
  <2>2. order[t] \in SetToSeqs(DOMAIN u[t].dict) /\ Flag(d, t) \in BOOLEAN
    BY <1>1, <1>2
  <2>3. y[t] = UnpackTable(PackTable(u[t], order[t]).fields, Flag(d, t))
    BY <1>1, <1>2
  <2> DEFINE w == u[t]
             a == Flag(d, t)
             z == UnpackTable(PackTable(w, order[t]).fields, a)
  <2>4. a <=> ArrayLength(w) # -1
    BY <1>3
  <2> HIDE DEF w, a
  <2>5. /\ Settled(z) /\ (Settled(w) => z = w)
        /\ ArrayLength(z) = ArrayLength(w)
        /\ ~a => DOMAIN z.dict = DOMAIN w.dict
    BY <2>1, <2>2, <2>4, TableAgain, Zenon DEF w, a
  <2> QED BY <2>3, <2>5, Zenon DEF w, a
<1>4. Root \in DOMAIN u /\ Made(u[Root]) /\ d[Root] = PackTable(u[Root], order[Root])
  BY <1>1, Zenon DEF Tables
<1>5. /\ Flag(d, Root) <=> ArrayLength(u[Root]) \notin {-1, 0}
      /\ ArrayLength(u[Root]) = 0 => d[Root].fields = <<>>
  BY <1>1, <1>4, FirstName, Zenon DEF Flag
<1>6. /\ Settled(y[Root]) /\ Plain(y[Root]) /\ ArrayLength(y[Root]) # 0
      /\ ArrayLength(u[Root]) # 0 /\ Settled(u[Root]) => y[Root] = u[Root]
  <2>1. CASE ArrayLength(u[Root]) = 0
    <3>1. y[Root] = UnpackTable(<<>>, FALSE)
      BY <1>2, <1>4, <1>5, <2>1
    <3>2. Settled(y[Root]) /\ ArrayLength(y[Root]) = -1 /\ DOMAIN y[Root].dict = {}
      BY <3>1, NothingUnpacked
    <3> QED BY <2>1, <3>2 DEF Plain
  <2>2. CASE ArrayLength(u[Root]) # 0
    <3>1. Flag(d, Root) <=> ArrayLength(u[Root]) # -1
      BY <1>5, <2>2
    <3>2. /\ Settled(y[Root]) /\ (Settled(u[Root]) => y[Root] = u[Root])
          /\ ArrayLength(y[Root]) = ArrayLength(u[Root])
          /\ ~Flag(d, Root) => DOMAIN y[Root].dict = DOMAIN u[Root].dict
      BY <1>3, <1>4, <3>1
    <3> QED BY <2>2, <3>1, <3>2, Zenon DEF Plain
  <2> QED BY <2>1, <2>2
<1>7. ASSUME NEW t \in DOMAIN u, t # Root
      PROVE  Settled(y[t]) /\ (Settled(u[t]) => y[t] = u[t])
  <2>1. Flag(d, t) <=> ArrayLength(u[t]) # -1
    BY <1>1, <1>7, Zenon DEF Flag
  <2> QED BY <1>3, <2>1
<1>8. ASSUME ArrayLength(u[Root]) # 0, \A t \in DOMAIN u : Settled(u[t]) PROVE y = u
  <2>1. \A t \in DOMAIN u : y[t] = u[t]
    BY <1>4, <1>6, <1>7, <1>8
  <2>2. u = [t \in DOMAIN u |-> u[t]] /\ y = [t \in DOMAIN y |-> y[t]]
    BY <1>2, Zenon DEF Tables
  <2> QED BY <1>2, <2>1, <2>2
<1> QED BY <1>2, <1>6, <1>7, <1>8, Zenon DEF y, d

(* All tables of u stand for those of s. *)
AllStand(u, s) ==
  DOMAIN u = DOMAIN s /\ \A t \in DOMAIN s : Stands(u[t], s[t].fields, Flag(s, t))

LEMMA TripStands ==
  ASSUME NEW u, Tables(u), NEW order \in Orders(u), Plain(u[Root]),
         NEW s, Document(s), AllStand(u, s)
  PROVE  AllStand(Unpacked(Packed(u, order)), s)
<1> DEFINE d == Packed(u, order)
           y == Unpacked(d)
<1>1. /\ Document(d) /\ DOMAIN d = DOMAIN u
      /\ \A t \in DOMAIN u : /\ order[t] \in SetToSeqs(DOMAIN u[t].dict)
                             /\ d[t] = PackTable(u[t], order[t])
                             /\ d[t].array <=> ArrayLength(u[t]) # -1
  BY PackedTables, Zenon
<1> HIDE DEF d
<1>2. /\ DOMAIN y = DOMAIN u
      /\ \A t \in DOMAIN u : Flag(d, t) \in BOOLEAN /\ y[t] = UnpackTable(d[t].fields, Flag(d, t))
  BY <1>1, UnpackedTables, Zenon
<1> HIDE DEF y
<1>3. DOMAIN u = DOMAIN s
  BY DEF AllStand
<1>4. ASSUME NEW t \in DOMAIN s PROVE Stands(y[t], s[t].fields, Flag(s, t))
  <2>1. /\ Made(u[t]) /\ Stands(u[t], s[t].fields, Flag(s, t)) /\ s[t].fields \in Seq(Named)
        /\ order[t] \in SetToSeqs(DOMAIN u[t].dict) /\ d[t] = PackTable(u[t], order[t])
    BY <1>1, <1>3, Zenon DEF Tables, AllStand, Document
  <2>2. Flag(s, t) \in BOOLEAN /\ Flag(d, t) \in BOOLEAN
    BY <1>2, <1>3, UnpackedTables, Zenon
  <2>3. CASE Flag(s, t)
    <3>1. Flag(s, t) = TRUE
      BY <2>2, <2>3
    <3>2. /\ u[t].list \in Seq(LuaValue) /\ u[t].dict = Tagged(Len(u[t].list))
          /\ Len(u[t].list) = Len(s[t].fields)
      BY <2>1, <2>3, Zenon DEF Stands, TableStandsFor, Made
    <3>3. ArrayLength(u[t]) = Len(s[t].fields) /\ Len(s[t].fields) \in Nat
      BY <2>1, <3>2, LengthOfArray
    <3>4. Flag(d, t) = TRUE
      <4>1. CASE t = Root
        <5>1. s[t].fields # <<>>
          BY <2>3, <4>1 DEF Flag, IsArray
        <5>2. Len(s[t].fields) # 0
          BY <2>1, <5>1
        <5>3. ArrayLength(u[t]) \notin {-1, 0}
          BY <3>3, <5>2
        <5>4. IsArray(d[t].fields)
          BY <2>1, <4>1, <5>3, FirstName, Zenon
        <5> QED BY <2>2, <4>1, <5>4 DEF Flag
      <4>2. CASE t # Root
        <5>1. ArrayLength(u[t]) # -1
          BY <3>3
        <5> QED BY <1>1, <1>3, <2>2, <4>2, <5>1 DEF Flag
      <4> QED BY <4>1, <4>2
    <3>5. Stands(UnpackTable(d[t].fields, TRUE), s[t].fields, TRUE)
      BY <2>1, <3>1, ArrayStandsAgain, Zenon
    <3> QED BY <1>2, <1>3, <3>1, <3>4, <3>5
  <2>4. CASE ~Flag(s, t) /\ "__array" \in FieldNames(s[t].fields)
    BY <2>4, Zenon DEF Stands, TableStandsFor
  <2>5. CASE ~Flag(s, t) /\ "__array" \notin FieldNames(s[t].fields)
    <3>1. Flag(s, t) = FALSE
      BY <2>2, <2>5
    <3>2. ArrayLength(u[t]) = -1 /\ Stands(UnpackTable(d[t].fields, FALSE), s[t].fields, FALSE)
      BY <2>1, <2>5, <3>1, DocumentStandsAgain, Zenon
    <3>3. Flag(d, t) = FALSE
      <4>1. CASE t = Root
        <5>1. ~IsArray(d[t].fields)
          BY <2>1, <3>2, <4>1, FirstName, Zenon
        <5> QED BY <2>2, <4>1, <5>1 DEF Flag
      <4>2. CASE t # Root
        BY <1>1, <1>3, <2>2, <3>2, <4>2 DEF Flag
      <4> QED BY <4>1, <4>2
    <3> QED BY <1>2, <1>3, <3>1, <3>2, <3>3
  <2> QED BY <2>3, <2>4, <2>5
<1>5. AllStand(y, s)
  BY <1>2, <1>3, <1>4, Zenon DEF AllStand
<1> QED BY <1>5 DEF y, d


-----------------------------------------------------------------------------
(* What appendTable accepts *)

LEMMA TablesOfTable ==
  ASSUME NEW fields \in Seq(Named), NEW a \in BOOLEAN, NEW table, NEW packed,
         table = UnpackTable(fields, a), NEW order \in SetToSeqs(DOMAIN table.dict),
         packed = PackTable(table, order),
         NEW i \in DOMAIN packed.fields, packed.fields[i].value.type = "table"
  PROVE  \E j \in DOMAIN fields : fields[j].value = packed.fields[i].value
<1> DEFINE w == UnpackTable(fields, a)
           x == PackTable(w, order)
           v == x.fields[i].value
<1> SUFFICES ASSUME i \in DOMAIN x.fields, v.type = "table", order \in SetToSeqs(DOMAIN w.dict)
             PROVE  \E j \in DOMAIN fields : fields[j].value = v
  OBVIOUS
<1>1. ASSUME NEW j \in DOMAIN fields, UnpackValue(fields[j].value).type = "table"
      PROVE  fields[j].value = UnpackValue(fields[j].value)
  <2>1. fields[j].value \in BsonValue
    BY NamedFields
  <2> QED BY <1>1, <2>1 DEF BsonValue, UnpackValue, Value, Nil
<1>2. ASSUME NEW e \in LuaValue, v = PackValue(e) PROVE e = v /\ e.type = "table"
  BY <1>2, PackValueIn, Zenon
<1>3. Made(w) /\ order \in SetToSeqs(DOMAIN w.dict)
  BY UnpackTableMakes
<1>4. CASE ArrayLength(w) # -1
  <2>1. /\ x.fields \in Seq(Named) /\ \A k \in 1 .. Len(x.fields) : x.fields[k].value = PackValue(Element(w, k))
    BY <1>3, <1>4, ArrayPacked, Zenon
  <2>2. i \in 1 .. Len(x.fields)
    <3>1. i \in DOMAIN x.fields
      OBVIOUS
    <3> HIDE DEF x
    <3> QED BY <2>1, <3>1
  <2>3. Element(w, i) = v /\ v.type = "table"
    <3>1. v = PackValue(Element(w, i)) /\ Element(w, i) \in LuaValue
      BY <1>3, <2>1, <2>2, ElementIn, Zenon
    <3> QED BY <1>2, <3>1, Zenon
  <2>4. i \in DOMAIN w.list /\ w.list[i] = v
    <3> HIDE DEF w, v
    <3> QED BY <2>3 DEF Element, Nil, Value
  <2>5. CASE a
    <3>1. w.list \in Seq(LuaValue) /\ Len(w.list) = Len(fields)
          /\ \A j \in DOMAIN fields : w.list[j] = UnpackValue(fields[j].value)
      BY <2>5, ArrayUnpacked, Zenon
    <3>2. i \in DOMAIN fields
      <4> HIDE DEF w
      <4> QED BY <2>4, <3>1
    <3>3. UnpackValue(fields[i].value) = v
      BY <2>4, <3>1, <3>2, Zenon
    <3> QED BY <1>1, <2>3, <3>2, <3>3, Zenon
  <2>6. CASE ~a
    <3>1. w = [list |-> <<>>, dict |-> w.dict]
      BY <2>6, DocumentUnpacked, Zenon
    <3> HIDE DEF w
    <3>2. w.list = <<>>
      BY <3>1
    <3> QED BY <2>4, <3>2
  <2> QED BY <2>5, <2>6
<1>5. CASE ArrayLength(w) = -1
  <2>1. /\ x.fields \in Seq(Named) /\ FieldNames(x.fields) = DOMAIN w.dict
        /\ \A k \in DOMAIN x.fields : x.fields[k].value = PackValue(w.dict[x.fields[k].key])
    BY <1>3, <1>5, DocumentPacked, Zenon
  <2> DEFINE k == x.fields[i].key
  <2>2. k \in DOMAIN w.dict /\ v = PackValue(w.dict[k])
    BY <2>1, Zenon DEF FieldNames
  <2>3. CASE a
    <3>1. w = [list |-> w.list, dict |-> Tagged(Len(fields))] /\ w.list \in Seq(LuaValue) /\ Len(w.list) = Len(fields)
      BY <2>3, ArrayUnpacked, Zenon
    <3> HIDE DEF w
    <3>2. w.dict = Tagged(Len(w.list)) /\ Len(w.list) \in Nat
      BY <3>1
    <3>3. ArrayLength(w) = Len(w.list)
      BY <3>1, <3>2, LengthOfArray
    <3> QED BY <1>5, <3>2, <3>3
  <2>4. CASE ~a
    <3>1. \A l \in DOMAIN w.dict : /\ w.dict[l] \in LuaValue
                                   /\ \E j \in DOMAIN fields : w.dict[l] = UnpackValue(fields[j].value)
      <4>1. \A l \in DOMAIN w.dict : /\ w.dict[l] # Nil /\ w.dict[l] \in LuaValue /\ l \in Name
                                     /\ \E j \in DOMAIN fields : /\ fields[j].key = l
                                                                 /\ w.dict[l] = UnpackValue(fields[j].value)
        <5>1. w = UnpackTable(fields, FALSE)
          BY <2>4
        <5> HIDE DEF w
        <5> DEFINE z == UnpackTable(fields, FALSE)
        <5>2. /\ DOMAIN z.dict \subseteq FieldNames(fields)
              /\ \A l \in DOMAIN z.dict : /\ z.dict[l] # Nil /\ z.dict[l] \in LuaValue /\ l \in Name
                                          /\ \E j \in DOMAIN fields : /\ fields[j].key = l
                                                                      /\ z.dict[l] = UnpackValue(fields[j].value)
          BY DocumentUnpacked, Zenon
        <5> HIDE DEF z
        <5>3. w = z
          BY <5>1 DEF z
        <5> QED BY <5>2, <5>3
      <4> HIDE DEF w
      <4> QED BY <4>1
    <3>2. PICK j \in DOMAIN fields : w.dict[k] = UnpackValue(fields[j].value)
      BY <2>2, <3>1, Zenon
    <3>3. w.dict[k] = v /\ v.type = "table"
      BY <1>2, <2>2, <3>1, Zenon
    <3> QED BY <1>1, <3>2, <3>3, Zenon
  <2> QED BY <2>3, <2>4
<1> QED BY <1>4, <1>5

(* No trip nests a table in another. *)
Descends(d, s) ==
  DOMAIN d = DOMAIN s /\ \A t \in DOMAIN d : Nested(d)[t] \subseteq Nested(s)[t]

LEMMA TripDescends ==
  ASSUME NEW d, Document(d), NEW order \in Orders(Unpacked(d))
  PROVE  Descends(Packed(Unpacked(d), order), d)
<1> DEFINE u == Unpacked(d)
           e == Packed(u, order)
<1>1. /\ Tables(u) /\ DOMAIN u = DOMAIN d
      /\ \A t \in DOMAIN d : Flag(d, t) \in BOOLEAN /\ u[t] = UnpackTable(d[t].fields, Flag(d, t))
  BY UnpackedTables, Zenon
<1> HIDE DEF u
<1>2. /\ DOMAIN e = DOMAIN u
      /\ \A t \in DOMAIN u : /\ order[t] \in SetToSeqs(DOMAIN u[t].dict)
                             /\ e[t] = PackTable(u[t], order[t])
  BY <1>1, PackedTables, ZenonT(60) DEF u
<1> HIDE DEF e
<1>3. ASSUME NEW t \in DOMAIN e, NEW n \in Nested(e)[t] PROVE n \in Nested(d)[t]
  <2>1. PICK i \in DOMAIN e[t].fields : e[t].fields[i].value.type = "table" /\ n = e[t].fields[i].value.n
    BY DEF Nested
  <2>2. /\ t \in DOMAIN d /\ d[t].fields \in Seq(Named) /\ Flag(d, t) \in BOOLEAN
        /\ u[t] = UnpackTable(d[t].fields, Flag(d, t))
        /\ order[t] \in SetToSeqs(DOMAIN u[t].dict) /\ e[t] = PackTable(u[t], order[t])
    BY <1>1, <1>2, Zenon DEF Document
  <2>3. PICK j \in DOMAIN d[t].fields : d[t].fields[j].value = e[t].fields[i].value
    <3> DEFINE fields == d[t].fields
               a == Flag(d, t)
               table == u[t]
               packed == e[t]
               o == order[t]
    <3>1. fields \in Seq(Named) /\ a \in BOOLEAN /\ table = UnpackTable(fields, a)
      BY <2>2, Zenon
    <3>2. o \in SetToSeqs(DOMAIN table.dict) /\ packed = PackTable(table, o)
      BY <2>2, Zenon
    <3>3. i \in DOMAIN packed.fields /\ packed.fields[i].value.type = "table"
      BY <2>1, Zenon
    <3> HIDE DEF fields, a, table, packed, o
    <3>4. \E j \in DOMAIN fields : fields[j].value = packed.fields[i].value
      BY <3>1, <3>2, <3>3, TablesOfTable
    <3> QED BY <3>4 DEF fields, packed
  <2> QED BY <2>1, <2>2, <2>3 DEF Nested
<1> QED BY <1>1, <1>2, <1>3, Zenon DEF Descends, e, u

LEMMA WaysDescend ==
  ASSUME NEW d, NEW s, Descends(d, s)
  PROVE  Ways(Nested(d)) \subseteq Ways(Nested(s))
<1>1. DOMAIN Nested(d) = DOMAIN d /\ DOMAIN Nested(s) = DOMAIN d
  BY DEF Nested, Descends
<1>2. ASSUME NEW p \in Ways(Nested(d)) PROVE p \in Ways(Nested(s))
  <2>1. /\ p \in BoundedSeq(DOMAIN d, Cardinality(DOMAIN d)) /\ p # <<>> /\ p[1] = Root
        /\ \A i \in 1 .. Len(p) - 1 : p[i + 1] \in Nested(d)[p[i]]
    BY <1>1, Zenon DEF Ways
  <2>2. PICK m \in 0 .. Cardinality(DOMAIN d) : p \in [1 .. m -> DOMAIN d]
    BY <2>1 DEF BoundedSeq, SeqOf
  <2>3. ASSUME NEW i \in 1 .. Len(p) - 1 PROVE p[i + 1] \in Nested(s)[p[i]]
    <3>1. m \in Nat /\ Len(p) = m
      BY <2>2
    <3>2. p[i] \in DOMAIN d
      BY <2>2, <2>3, <3>1
    <3> QED BY <2>1, <2>3, <3>2 DEF Descends
  <2> QED BY <1>1, <2>1, <2>3, Zenon DEF Ways
<1> QED BY <1>2

LEMMA NeverRefused ==
  ASSUME NEW u, Tables(u), NEW nested, DOMAIN nested = DOMAIN u, NEW p \in Ways(nested),
         2 * (Len(p) - 1) < MaxStack, MaxStack \in Nat
  PROVE  ~Refused(u, p)
<1>1. PICK m \in 0 .. Cardinality(DOMAIN u) : p \in [1 .. m -> DOMAIN u]
  BY DEF Ways, BoundedSeq, SeqOf
<1>2. m \in Nat /\ Len(p) = m /\ m # 0
  <2>1. m \in Nat /\ Len(p) = m
    BY <1>1
  <2>2. p # <<>>
    BY DEF Ways
  <2> QED BY <1>1, <2>1, <2>2
<1>3. Top(u, p) < MaxStack
  <2> DEFINE S == {i \in 1 .. Len(p) - 1 : ArrayLength(u[p[i]]) = -1}
  <2>1. IsFiniteSet(1 .. Len(p) - 1) /\ Cardinality(1 .. Len(p) - 1) = Len(p) - 1
    BY <1>2, FS_Interval
  <2>2. S \in SUBSET (1 .. Len(p) - 1)
    OBVIOUS
  <2>3. Cardinality(S) <= Len(p) - 1 /\ Cardinality(S) \in Nat
    BY <2>1, <2>2, FS_Subset, FS_CardinalityType
  <2>4. Top(u, p) = Len(p) - 1 + Cardinality(S)
    BY Zenon DEF Top
  <2> HIDE DEF S
  <2> QED BY <1>2, <2>3, <2>4
<1>4. ~(u[Last(p)].list # <<>> /\ ArrayLength(u[Last(p)]) = -1)
  <2>1. Last(p) \in DOMAIN u
    BY <1>1, <1>2 DEF Last
  <2>2. Made(u[Last(p)])
    BY <2>1, Zenon DEF Tables
  <2> QED BY <2>2, LengthOfMade
<1>5. Top(u, p) \in Int
  <2> DEFINE S == {i \in 1 .. Len(p) - 1 : ArrayLength(u[p[i]]) = -1}
  <2>1. IsFiniteSet(1 .. Len(p) - 1) /\ S \in SUBSET (1 .. Len(p) - 1)
    BY <1>2, FS_Interval
  <2>2. Cardinality(S) \in Nat
    BY <2>1, FS_Subset, FS_CardinalityType
  <2>3. Top(u, p) = Len(p) - 1 + Cardinality(S)
    BY Zenon DEF Top
  <2> HIDE DEF S
  <2> QED BY <1>2, <2>2, <2>3
<1> QED BY <1>3, <1>4, <1>5 DEF Refused


-----------------------------------------------------------------------------
(* The specification *)

LEMMA SentDocument ==
  ASSUME RoundTripAssumption, NEW s \in Documents
  PROVE  /\ Document(s) /\ MaxStack \in Nat
         /\ \A t \in DOMAIN s : ~s[t].array => Unambiguous(s[t].fields)
         /\ ~s[Root].array
         /\ \A p \in Ways(Nested(s)) : 2 * (Len(p) - 1) < MaxStack
<1>1. /\ Root \in DOMAIN s /\ ~s[Root].array /\ MaxStack \in Nat
      /\ \A t \in DOMAIN s : /\ s[t].array \in BOOLEAN
                             /\ s[t].fields \in Seq([key : STRING, value : BsonValue])
                             /\ ~s[t].array => \A i, j \in DOMAIN s[t].fields :
                                                 s[t].fields[i].key = s[t].fields[j].key => i = j
      /\ \A p \in Ways(Nested(s)) : 2 * (Len(p) - 1) < MaxStack
  BY Zenon DEF RoundTripAssumption
<1>2. Seq([key : STRING, value : BsonValue]) \subseteq Seq(Named)
  <2> DEFINE Written == [key : STRING, value : BsonValue]
  <2>1. Written \subseteq Named
    <3>1. STRING \subseteq Name
      BY DEF Name
    <3> QED BY <3>1 DEF Named
  <2> HIDE DEF Written
  <2>2. ASSUME NEW f \in Seq(Written) PROVE f \in Seq(Named)
    <3>1. Len(f) \in Nat /\ f \in [1 .. Len(f) -> Written]
      OBVIOUS
    <3>2. f \in [1 .. Len(f) -> Named]
      BY <2>1, <3>1
    <3> QED BY <3>1, <3>2
  <2>3. Seq(Written) \subseteq Seq(Named)
    BY <2>2
  <2> QED BY <2>3 DEF Written
<1> QED BY <1>1, <1>2, Zenon DEF Document, Unambiguous

LEMMA SentStands ==
  ASSUME RoundTripAssumption, NEW s \in Documents, ~Ambiguous(s)
  PROVE  AllStand(Unpacked(s), s) /\ Plain(Unpacked(s)[Root])
<1> DEFINE u == Unpacked(s)
<1>1. /\ Document(s) /\ ~s[Root].array
      /\ \A t \in DOMAIN s : s[t].fields \in Seq(Named) /\ (~s[t].array => Unambiguous(s[t].fields))
  BY SentDocument, Zenon DEF Document
<1>2. /\ DOMAIN u = DOMAIN s
      /\ \A t \in DOMAIN s : Flag(s, t) \in BOOLEAN /\ u[t] = UnpackTable(s[t].fields, Flag(s, t))
  BY <1>1, UnpackedTables, Zenon
<1> HIDE DEF u
<1>3. ASSUME NEW t \in DOMAIN s PROVE Stands(u[t], s[t].fields, Flag(s, t))
  <2>1. CASE Flag(s, t)
    <3>1. Flag(s, t) = TRUE
      BY <1>2, <2>1
    <3> QED BY <1>1, <1>2, <3>1, UnpackedArrayStands
  <2>2. CASE ~Flag(s, t)
    <3>1. Flag(s, t) = FALSE
      BY <1>2, <2>2
    <3>2. Unambiguous(s[t].fields)
      BY <1>1, <2>2 DEF Flag
    <3> QED BY <1>1, <1>2, <3>1, <3>2, UnpackedDocumentStands
  <2> QED BY <2>1, <2>2
<1>4. Plain(u[Root])
  <2> DEFINE f == s[Root].fields
             w == u[Root]
  <2>1. Root \in DOMAIN s /\ f \in Seq(Named) /\ Stands(w, f, Flag(s, Root))
    BY <1>1, <1>3, Zenon DEF Document
  <2>2. CASE IsArray(f)
    <3>1. w = UnpackTable(f, TRUE)
      BY <1>2, <2>1, <2>2 DEF Flag
    <3> HIDE DEF f, w
    <3>2. /\ w = [list |-> w.list, dict |-> Tagged(Len(f))] /\ w.list \in Seq(LuaValue)
          /\ Len(w.list) = Len(f)
      BY <2>1, <3>1, ArrayUnpacked
    <3>3. w.dict = Tagged(Len(w.list)) /\ Len(w.list) \in Nat
      BY <3>2
    <3>4. ArrayLength(w) # -1
      BY <3>2, <3>3, LengthOfArray
    <3> QED BY <3>4 DEF Plain, w
  <2>3. CASE ~IsArray(f)
    <3>1. w = UnpackTable(f, FALSE)
      BY <1>2, <2>1, <2>3 DEF Flag
    <3>2. "0" \notin FieldNames(f)
      BY <2>3, Zenon DEF Ambiguous
    <3> HIDE DEF f, w
    <3>3. DOMAIN w.dict \subseteq FieldNames(f)
      BY <2>1, <3>1, DocumentUnpacked, Zenon
    <3> QED BY <3>2, <3>3 DEF Plain, w
  <2> QED BY <2>2, <2>3
<1>5. AllStand(u, s)
  BY <1>2, <1>3, Zenon DEF AllStand
<1> QED BY <1>4, <1>5 DEF u

(* The inductive invariant: what the next unpacking will make, or made. *)
Travelling ==
  /\ sent \in Documents /\ trips \in Nat
  /\ Document(doc) /\ Descends(doc, sent)
  /\ value # Nothing => value = Unpacked(doc)
  /\ ~Ambiguous(sent) =>
       /\ AllStand(Unpacked(doc), sent) /\ Plain(Unpacked(doc)[Root])
       /\ trips >= 1 => /\ \A t \in DOMAIN Unpacked(doc) : Settled(Unpacked(doc)[t])
                        /\ ArrayLength(Unpacked(doc)[Root]) # 0
       /\ trips >= 2 => Unpacked(doc) = prev

LEMMA StartTravelling ==
  ASSUME RoundTripAssumption, Init
  PROVE  Travelling
<1>1. sent \in Documents /\ doc = sent /\ trips = 0 /\ value = Nothing
  BY DEF Init
<1>2. Document(sent)
  BY <1>1, SentDocument
<1>3. Descends(doc, sent)
  BY <1>1 DEF Descends
<1>4. ~Ambiguous(sent) => AllStand(Unpacked(sent), sent) /\ Plain(Unpacked(sent)[Root])
  BY <1>1, SentStands
<1>5. trips \in Nat /\ ~(trips >= 1) /\ ~(trips >= 2)
  BY <1>1
<1> QED BY <1>1, <1>2, <1>3, <1>4, <1>5, Zenon DEF Travelling

LEMMA PackTravels ==
  ASSUME RoundTripAssumption, Travelling, Pack
  PROVE  Travelling'
<1> DEFINE u == Unpacked(doc)
<1>1. /\ sent \in Documents /\ trips \in Nat /\ Document(doc) /\ Descends(doc, sent) /\ value = u
      /\ sent' = sent /\ trips' = trips + 1 /\ prev' = value /\ value' = Nothing
  BY Zenon DEF Pack, Travelling
<1>2. PICK order \in Orders(value) :
        doc' = IF \E p \in Ways(Nested(Packed(value, order))) : Refused(value, p)
               THEN Nothing ELSE Packed(value, order)
  BY Zenon DEF Pack
<1> DEFINE e == Packed(u, order)
           y == Unpacked(e)
<1>3. Tables(u) /\ DOMAIN u = DOMAIN doc /\ order \in Orders(u)
  BY <1>1, <1>2, UnpackedTables, Zenon
<1>4. Document(e) /\ DOMAIN e = DOMAIN u
  BY <1>3, PackedTables, Zenon
<1>5. Descends(e, sent)
  <2>1. Descends(e, doc)
    BY <1>1, <1>3, TripDescends, Zenon
  <2> HIDE DEF e
  <2> QED BY <1>1, <2>1 DEF Descends
<1>6. doc' = e
  <2>1. ASSUME NEW p \in Ways(Nested(e)) PROVE ~Refused(u, p)
    <3>1. p \in Ways(Nested(sent))
      BY <1>5, WaysDescend
    <3>2. 2 * (Len(p) - 1) < MaxStack /\ MaxStack \in Nat
      BY <1>1, <3>1, SentDocument
    <3>3. DOMAIN Nested(e) = DOMAIN u
      BY <1>4 DEF Nested
    <3> QED BY <1>3, <3>2, <3>3, NeverRefused, Zenon
  <2> QED BY <1>1, <1>2, <2>1, Zenon
<1>7. ASSUME ~Ambiguous(sent)
      PROVE  /\ AllStand(y, sent) /\ Plain(y[Root])
             /\ \A t \in DOMAIN y : Settled(y[t])
             /\ ArrayLength(y[Root]) # 0
             /\ trips >= 1 => y = u
  <2>1. /\ AllStand(u, sent) /\ Plain(u[Root])
        /\ trips >= 1 => (\A t \in DOMAIN u : Settled(u[t])) /\ ArrayLength(u[Root]) # 0
    BY <1>7, Zenon DEF Travelling
  <2>2. Document(sent)
    BY <1>1, SentDocument
  <2>3. AllStand(y, sent)
    BY <1>3, <2>1, <2>2, TripStands, Zenon
  <2>4. /\ DOMAIN y = DOMAIN u /\ Plain(y[Root]) /\ ArrayLength(y[Root]) # 0
        /\ \A t \in DOMAIN u : Settled(y[t])
        /\ ArrayLength(u[Root]) # 0 /\ (\A t \in DOMAIN u : Settled(u[t])) => y = u
    BY <1>3, <2>1, TripSettles, Zenon
  <2> HIDE DEF u, y
  <2> QED BY <2>1, <2>3, <2>4, Zenon
<1>8. trips' \in Nat /\ (trips' >= 2 => trips >= 1)
  BY <1>1
<1> HIDE DEF e, u
<1>9. Unpacked(doc') = y
  BY <1>6
<1>10. ~Ambiguous(sent') =>
         /\ AllStand(Unpacked(doc'), sent') /\ Plain(Unpacked(doc')[Root])
         /\ trips' >= 1 => /\ \A t \in DOMAIN Unpacked(doc') : Settled(Unpacked(doc')[t])
                           /\ ArrayLength(Unpacked(doc')[Root]) # 0
         /\ trips' >= 2 => Unpacked(doc') = prev'
  <2> HIDE DEF y
  <2> QED BY <1>1, <1>7, <1>8, <1>9, Zenon
<1> QED BY <1>1, <1>4, <1>5, <1>6, <1>8, <1>10, Zenon DEF Travelling

LEMMA StepTravels ==
  ASSUME RoundTripAssumption, Travelling, [Next]_vars
  PROVE  Travelling'
<1>1. CASE Unpack
  <2>1. value' = Unpacked(doc) /\ sent' = sent /\ doc' = doc /\ prev' = prev /\ trips' = trips
    BY <1>1, Zenon DEF Unpack
  <2> QED BY <2>1, Zenon DEF Travelling
<1>2. CASE Pack
  BY <1>2, PackTravels
<1>3. CASE UNCHANGED vars
  <2>1. value' = value /\ sent' = sent /\ doc' = doc /\ prev' = prev /\ trips' = trips
    BY <1>3 DEF vars
  <2> QED BY <2>1, Zenon DEF Travelling
<1> QED BY <1>1, <1>2, <1>3, Zenon DEF Next

(* The inductive invariant holds, whatever documents the server sends. *)
THEOREM Invariance == Spec => []Travelling
<1>1. Init => Travelling
  BY StartTravelling, RoundTripAssumption
<1>2. Travelling /\ [Next]_vars => Travelling'
  BY StepTravels, RoundTripAssumption
<1> QED BY <1>1, <1>2, PTL DEF Spec

(* castBSON accepts what bson:value() made of a document, however often: arrays
   keep their length, and no trip adds a level of nesting. *)
THEOREM NeverRejected == Spec => []AcceptedAgain
<1>1. Travelling => AcceptedAgain
  <2>1. Root \notin DOMAIN Nothing
    BY DEF Nothing
  <2> QED BY <2>1, Zenon DEF Travelling, Document, AcceptedAgain
<1> QED BY <1>1, Invariance, PTL

(* After any number of trips the tables stand for the document that was sent. *)
THEOREM TablesStand == Spec => []StandsForSent
<1>1. Travelling => StandsForSent
  <2>1. SUFFICES ASSUME Travelling, value # Nothing, ~Ambiguous(sent)
                 PROVE  /\ DOMAIN value = DOMAIN sent
                        /\ \A t \in DOMAIN sent :
                             TableStandsFor(value[t], sent[t].fields,
                                            IF t = Root THEN IsArray(sent[t].fields) ELSE sent[t].array)
    BY Zenon DEF StandsForSent
  <2>2. AllStand(value, sent)
    BY <2>1, Zenon DEF Travelling
  <2> QED BY <2>2, Zenon DEF AllStand, Stands, Flag
<1> QED BY <1>1, Invariance, PTL

(* What a first trip made of a document, every later trip leaves as it is. *)
THEOREM TripsSettle == Spec => []StableAfterOneTrip
<1>1. Travelling => StableAfterOneTrip
  BY Zenon DEF Travelling, StableAfterOneTrip
<1> QED BY <1>1, Invariance, PTL
=============================================================================
