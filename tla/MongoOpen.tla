----------------------------- MODULE MongoOpen -----------------------------
(***************************************************************************)
(* Loading the library, luaopen_vklib and mongo_open (vklib.c), and what   *)
(* unpackValue (bson.c) later finds in the registry.  Two tables matter:   *)
(* base, which the library returns, and mongo, the table of its mongo      *)
(* functions; top says which of them is on top of the Lua stack.           *)
(***************************************************************************)
EXTENDS Naturals

(* The names in funcs. *)
Functions == {"type", "binary", "bson", "client", "date_time", "decimal128",
              "double", "int32", "int64", "javascript", "objectid",
              "readprefs", "regex", "timestamp"}

(* The names the constructors are looked up by. *)
Constructors == {"Binary", "DateTime", "Decimal128", "Javascript", "Regex",
                 "Timestamp"}
Singletons == {"MaxKey", "MinKey", "Null"}

VARIABLES
  fields,    \* the fields of the tables
  top,       \* the table on top of the stack
  registry,  \* what the registry has of each constructor and singleton
  step,      \* the part of the loading that comes next, or "open"
  unpacked   \* the outcome of the last value unpacked, "none" at first

vars == <<fields, top, registry, step, unpacked>>

Init ==
  /\ fields = [base |-> {"_VERSION", "_COPYRIGHT", "fs"}, mongo |-> {}]
  /\ top = "base"
  /\ registry = [n \in Constructors \cup Singletons |-> "nil"]
  /\ step = "functions"
  /\ unpacked = "none"

(* luaL_newlib pushes the table of the functions. *)
NewLib ==
  /\ step = "functions" /\ top = "base"
  /\ fields' = [fields EXCEPT !.mongo = Functions]
  /\ top' = "mongo"
  /\ UNCHANGED <<registry, step, unpacked>>

(* lua_setfield stores it in the table below, and pops it. *)
SetField ==
  /\ step = "functions" /\ top = "mongo"
  /\ fields' = [fields EXCEPT !.base = @ \cup {"mongo"}]
  /\ top' = "base"
  /\ step' = "constructors"
  /\ UNCHANGED <<registry, unpacked>>

(* lua_getfield pushes nil for a field that is not there. *)
GetField(n) == IF n \in fields[top] THEN "function" ELSE "nil"

CacheConstructors ==
  /\ step = "constructors"
  /\ registry' = [n \in DOMAIN registry |->
                    IF n \in Constructors THEN GetField(n) ELSE registry[n]]
  /\ step' = "singletons"
  /\ UNCHANGED <<fields, top, unpacked>>

CreateSingletons ==
  /\ step = "singletons"
  /\ fields' = [fields EXCEPT ![top] = @ \cup Singletons]
  /\ registry' = [n \in DOMAIN registry |->
                    IF n \in Singletons THEN "table" ELSE registry[n]]
  /\ step' = "open"
  /\ UNCHANGED <<top, unpacked>>

(* unpackValue of a singleton, or of a type whose constructor it calls: to
   call nil is an error. *)
UnpackValue(n) ==
  /\ step = "open"
  /\ unpacked' = IF n \in Constructors /\ registry[n] # "function" THEN "error"
                 ELSE "value"
  /\ UNCHANGED <<fields, top, registry, step>>

Next ==
  \/ NewLib
  \/ SetField
  \/ CacheConstructors
  \/ CreateSingletons
  \/ \E n \in Constructors \cup Singletons : UnpackValue(n)

Spec == Init /\ [][Next]_vars

(* "Cache BSON type constructors for quick access" (vklib.c:109): a binary, a
   date, a decimal, a regex, a timestamp or code that the server sent is
   unpacked by calling its constructor, and not refused with an error. *)
ConstructorsCached == unpacked # "error"
=============================================================================
