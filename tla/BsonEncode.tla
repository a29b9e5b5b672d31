----------------------------- MODULE BsonEncode -----------------------------
(***************************************************************************)
(* Encoding a Lua table as BSON: castBSON, toBSONValue, appendTable and    *)
(* appendValue (bson.c).  The recursion over the value is an explicit      *)
(* stack of frames, one per activation of appendTable.                     *)
(*                                                                         *)
(* A script can hand over any graph of tables: shared, cyclic, deep, with  *)
(* metamethods that replace a table by another value or raise an error     *)
(* halfway.  The refs table detects cycles, MAXSTACK bounds the depth, and *)
(* a failure unwinds frame by frame, each one putting its key in front of  *)
(* the message.  The document under construction is native memory that no  *)
(* metatable protects before it is complete.                               *)
(***************************************************************************)
EXTENDS Integers, Sequences, FiniteSets

CONSTANTS
  NTables,   \* tables of the script
  MaxStack,  \* MAXSTACK, the bound on the Lua stack (1000 in the code)
  Heap       \* the graphs of tables to encode

Table == 1 .. NTables

(* Values that are not tables. *)
Plain == 0         \* nil, boolean, number, string, object id
Document == -1     \* a BSON document
Unsupported == -2  \* a function, a thread, another userdata
BadKey == -3       \* as an entry: a key that is not a string
Raises == -4       \* as a transformed value: __toBSON raises an error

Entry == Table \cup {Plain, Document, Unsupported, BadKey}
Result == Table \cup {Plain, Document, Unsupported, Raises}

(* The metatable of a table: there is none; it has a __type (the BSON types of
   bsontype.c) and the parameters fit or not; its __index raises an error; it
   has a __toBSON; it has none of these. *)
MetaKind == {"none", "typed", "mistyped", "index", "toBSON", "other"}

(* array: the table has a true __array field.  to: what __toBSON returns. *)
TableState ==
  [array : BOOLEAN, meta : MetaKind, to : Result, entries : Seq(Entry)]

ASSUME EncodeAssumption ==
  /\ NTables \in Nat \ {0}
  /\ MaxStack \in Nat
  /\ \A g \in Heap : g \in [Table -> TableState]

VARIABLES
  heap,     \* the tables; metamethods are assumed not to modify them
  frames,   \* activations of appendTable: table, next entry, stack top
  refs,     \* the tables marked in the refs table
  errs,     \* the keys in front of the message, the outermost first
  why,      \* the message, "" if there is none
  open,     \* nested documents begun and not ended
  native,   \* the document: "none", "building", "owned", "destroyed", "leaked"
  outcome   \* "running", "failing" (unwinding), "ok", "error", "thrown"

vars == <<heap, frames, refs, errs, why, open, native, outcome>>

Frame == [table : Table, next : Nat, top : Nat]

Reason == {"circular", "recursion", "metatable", "value", "key", "toBSON"}

TypeOK ==
  /\ heap \in Heap
  /\ frames \in Seq(Frame)
  /\ refs \in SUBSET Table
  /\ errs \in Seq(Nat)
  /\ why \in Reason \cup {""}
  /\ open \in Nat
  /\ native \in {"none", "building", "owned", "destroyed", "leaked"}
  /\ outcome \in {"running", "failing", "ok", "error", "thrown"}

Root == 1      \* the argument
RootTop == 3   \* stack: argument, document, refs; or file, argument, refs

Init ==
  /\ heap \in Heap
  /\ frames = <<>>
  /\ refs = {}
  /\ errs = <<>>
  /\ why = ""
  /\ open = 0
  /\ native = "none"
  /\ outcome = "running"

-----------------------------------------------------------------------------
Depth == Len(frames)
Current == frames[Depth]
Callers == SubSeq(frames, 1, Depth - 1)
Entries(t) == heap[t].entries

(* v is a table with a metatable of this kind. *)
Has(v, kind) == v \in Table /\ heap[v].meta = kind

(* __toBSON replaces a value once: its result is not transformed again. *)
Transformed(v) == IF Has(v, "toBSON") THEN heap[v].to ELSE v

(* What an entry of the current table becomes. *)
CurrentValue == Transformed(Entries(Current.table)[Current.next])

InLoop ==
  /\ outcome = "running" /\ frames # <<>>
  /\ Current.next <= Len(Entries(Current.table))

(* getArrayLength reads __array through the metatable. *)
LengthRaises(v) == Has(v, "index")

(* The stack top a nested appendTable finds: above the value and, if the
   caller traverses with lua_next, above its key. *)
ChildTop == Current.top + (IF heap[Current.table].array THEN 1 ELSE 2)

(* Mutant: no look at the refs table. *)
RefusalWithoutRefs(t, top) ==
  IF top >= MaxStack THEN "recursion"
  ELSE IF heap[t].meta # "none" THEN "metatable" ELSE ""

(* The checks at the start of appendTable, in their order. *)
Refusal(t, top) ==
  IF top >= MaxStack THEN "recursion"
  ELSE IF heap[t].meta # "none" THEN "metatable"
  ELSE IF t \in refs THEN "circular" ELSE ""

(* error() with the first message: the activations return false. *)
Fail(reason) ==
  /\ why' = reason
  /\ outcome' = "failing"
  /\ UNCHANGED <<heap, refs, errs, open, native>>

(* A Lua error nobody catches on the way: it jumps over the frames, and the
   document, not yet given its metatable, has no finalizer. *)
Throw ==
  /\ outcome' = "thrown"
  /\ native' = IF native = "building" THEN "leaked" ELSE native
  /\ frames' = <<>>
  /\ UNCHANGED <<heap, refs, errs, why, open>>

(* appendTable refuses t, or marks it and starts with its entries. *)
Enter(t, top) ==
  /\ native' = "building"
  /\ UNCHANGED <<heap, errs>>
  /\ IF Refusal(t, top) = ""
     THEN /\ refs' = refs \cup {t}
          /\ frames' = Append(frames, [table |-> t, next |-> 1, top |-> top])
          /\ UNCHANGED <<why, outcome>>
     ELSE /\ why' = Refusal(t, top)
          /\ outcome' = "failing"
          /\ UNCHANGED <<refs, frames>>

(* There is nothing to build: the value is one already. *)
Done == outcome' = "ok" /\ UNCHANGED <<heap, frames, refs, errs, why, open, native>>

-----------------------------------------------------------------------------
Begin == outcome = "running" /\ native = "none"

(* Both calls make the root a document: __toBSON of the root and the __array
   look-up are unprotected. *)
StartTable(v) ==
  \/ (v = Raises \/ v = Unsupported \/ LengthRaises(v)) /\ Throw
  \/ v = Document /\ Done
  \/ v \in Table /\ ~LengthRaises(v) /\ Enter(v, RootTop) /\ UNCHANGED open

(* castBSON of a table, where a document is required. *)
CastBSON ==
  LET v == Transformed(Root) IN
  Begin /\ (IF v = Plain THEN Throw ELSE StartTable(v))

(* toBSONValue of a table, where any value will do. *)
ToBSONValue ==
  LET v == Transformed(Root) IN
  /\ Begin
  /\ \/ (v = Plain \/ Has(v, "typed")) /\ Done
     \/ Has(v, "mistyped") /\ Throw
     \/ ~Has(v, "typed") /\ ~Has(v, "mistyped") /\ StartTable(v)

(* Mutant: the loop does not advance. *)
Stay == frames' = frames
Advance == frames' = [frames EXCEPT ![Depth].next = @ + 1]

(* appendValue: a value without tables below it. *)
AppendScalar ==
  /\ InLoop
  /\ CurrentValue \in {Plain, Document} \/ Has(CurrentValue, "typed")
  /\ Advance
  /\ UNCHANGED <<heap, refs, errs, why, open, native, outcome>>

(* appendValue: a value it cannot encode; __toBSON is a protected call. *)
RejectValue ==
  /\ InLoop
  /\ \/ CurrentValue = Raises /\ Fail("toBSON")
     \/ (CurrentValue = Unsupported \/ Has(CurrentValue, "mistyped")) /\ Fail("value")
  /\ UNCHANGED frames

(* appendTable: "string index expected", with no key to put in front. *)
RejectKey ==
  /\ InLoop
  /\ CurrentValue = BadKey
  /\ Fail("key")
  /\ frames' = Callers

(* appendValue: the __array look-up of a nested table is not protected. *)
NestedRaises == InLoop /\ LengthRaises(CurrentValue) /\ Throw

(* bson_append_array_begin, bson_append_document_begin. *)
Begun == open + 1

(* appendValue: begin a nested document, then the recursive call. *)
Nest ==
  /\ InLoop
  /\ \E kind \in {"none", "toBSON", "other"} : Has(CurrentValue, kind)
  /\ Enter(CurrentValue, ChildTop)
  /\ open' = Begun

(* Mutant: the table stays marked. *)
KeepMarked == refs
Unmarked == refs \ {Current.table}

(* The loop is over.  The caller, if any, ends the nested document and goes on
   with its next entry; else castBSON sets the type. *)
Leave ==
  /\ outcome = "running" /\ frames # <<>>
  /\ Current.next > Len(Entries(Current.table))
  /\ refs' = Unmarked
  /\ IF Depth = 1
     THEN /\ frames' = <<>>
          /\ native' = "owned"
          /\ outcome' = "ok"
          /\ UNCHANGED open
     ELSE /\ frames' = [Callers EXCEPT ![Depth - 1].next = @ + 1]
          /\ open' = open - 1
          /\ UNCHANGED <<native, outcome>>
  /\ UNCHANGED <<heap, errs, why>>

(* Mutant: the message is inserted on top of the earlier ones. *)
PushedOnTop(key) == Append(errs, key)
(* error(): lua_insert below the messages there are. *)
Prefixed(key) == <<key>> \o errs

Unwind ==
  /\ outcome = "failing" /\ frames # <<>>
  /\ errs' = Prefixed(Current.next)
  /\ frames' = Callers
  /\ UNCHANGED <<heap, refs, why, open, native, outcome>>

(* Mutant: the document is forgotten. *)
Forget == native' = native
DestroyDocument == native' = "destroyed"

(* The root call failed: destroy the document, raise an argument error. *)
Report ==
  /\ outcome = "failing" /\ frames = <<>>
  /\ DestroyDocument
  /\ outcome' = "error"
  /\ UNCHANGED <<heap, frames, refs, errs, why, open>>

Next ==
  \/ CastBSON
  \/ ToBSONValue
  \/ AppendScalar
  \/ RejectValue
  \/ RejectKey
  \/ NestedRaises
  \/ Nest
  \/ Leave
  \/ Unwind
  \/ Report

Spec == Init /\ [][Next]_vars

(* One thread runs the encoder, and its metamethods return or raise. *)
FairSpec == Spec /\ WF_vars(Next)

-----------------------------------------------------------------------------
(* Properties *)

Ended == outcome \in {"ok", "error", "thrown"}

(* The refs table holds exactly the tables whose traversal is under way, each
   traversed once: a table that is shared but not cyclic is encoded wherever it
   occurs (the rawset of nil at the end of appendTable). *)
RefsArePath ==
  outcome = "running" =>
    /\ refs = {frames[i].table : i \in 1 .. Depth}
    /\ \A i, j \in 1 .. Depth : frames[i].table = frames[j].table => i = j

(* Every activation of appendTable is below the stack limit. *)
StackBounded == \A i \in 1 .. Depth : frames[i].top < MaxStack

(* The document is complete when it is handed out, with every nested document
   ended; after an error it is destroyed; it leaks only when a metamethod
   outside the protected calls raises an error. *)
DocumentAccounted ==
  /\ native = "owned" => outcome = "ok" /\ open = 0
  /\ outcome = "ok" => native \in {"owned", "none"}
  /\ outcome = "error" => native = "destroyed"
  /\ native = "leaked" => \E t \in Table : LengthRaises(t)

(* A reference definition of what can be encoded: from the root, through
   transformations, no bad entry is reachable and no table reaches itself. *)
Successors(t) == {Transformed(Entries(t)[i]) : i \in 1 .. Len(Entries(t))}
                   \cap {u \in Table : ~Has(u, "typed")}
Below(t) ==
  {u \in Table : \A s \in SUBSET Table :
     Successors(t) \subseteq s /\ (\A v \in s : Successors(v) \subseteq s) => u \in s}
Encodable(t) ==
  \A u \in {t} \cup Below(t) :
    /\ heap[u].meta = "none" /\ u \notin Below(u)
    /\ \A i \in 1 .. Len(Entries(u)) :
         LET e == Entries(u)[i] IN
           e # BadKey /\ Transformed(e) \notin {Unsupported, Raises}

(* castBSON builds a document exactly when the graph of tables below the root
   is a finite tree of encodable values, unless it is too deep. *)
BuiltIffEncodable ==
  LET r == Transformed(Root) IN
  /\ native = "owned" => r \in Table /\ Encodable(r)
  /\ outcome = "thrown" /\ r \in Table => ~Encodable(r)
  /\ outcome = "error" /\ why # "recursion" => ~Encodable(r)

(* Following the keys of the message from the root, and the stack top there. *)
At(v, key) ==
  IF v \in Table /\ key \in DOMAIN Entries(v) THEN Transformed(Entries(v)[key])
  ELSE BadKey
Path ==
  LET p[i \in 0 .. Len(errs)] ==
        IF i = 0 THEN Transformed(Root) ELSE At(p[i - 1], errs[i])
  IN p
Arrays(p, n) == {i \in 0 .. n - 1 : p[i] \in Table /\ heap[p[i]].array}
TopAt(p, n) == RootTop + 2 * n - Cardinality(Arrays(p, n))

(* The keys in front of the error message lead from the root to the value the
   message complains about. *)
ErrorNamesPath ==
  outcome = "error" =>
    LET p == Path
        n == Len(errs)
    IN CASE why = "circular" -> \E i \in 0 .. n - 1 : p[i] = p[n]
         [] why = "recursion" -> TopAt(p, n) >= MaxStack
         [] why = "metatable" -> p[n] \in Table /\ heap[p[n]].meta # "none"
         [] why = "value" -> p[n] = Unsupported \/ Has(p[n], "mistyped")
         [] why = "toBSON" -> p[n] = Raises
         [] why = "key" -> p[n] \in Table /\ \E i \in DOMAIN Entries(p[n]) : Entries(p[n])[i] = BadKey
         [] OTHER -> FALSE

(* Cyclic or not, every value is encoded or refused after finitely many steps. *)
Terminates == <>Ended
=============================================================================
