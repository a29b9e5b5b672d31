--------------------------- MODULE NativeObjects ---------------------------
(***************************************************************************)
(* What the mongo C driver asks of whoever owns its objects.  An object    *)
(* may be acquired only while every object it keeps a pointer to is alive, *)
(* is destroyed at most once, and is destroyed before the objects it       *)
(* points to.  The driver sources under dep/mongodb/src store the pointers *)
(* (mongoc_cursor_t.client, mongoc_gridfs_file_t.gridfs, ...) and          *)
(* dereference them without a check.  Handles implements this protocol.    *)
(***************************************************************************)
CONSTANT Object

VARIABLES
  native,   \* state of each object
  needs     \* the objects each object keeps a pointer to

vars == <<native, needs>>

NativeState == {"absent", "live", "dead"}

Live == {o \in Object : native[o] = "live"}

TypeOK ==
  /\ native \in [Object -> NativeState]
  /\ needs \in [Object -> SUBSET Object]

Init ==
  /\ native = [o \in Object |-> "absent"]
  /\ needs = [o \in Object |-> {}]

(* mongoc_*_new, mongoc_client_get_*, mongoc_collection_find_*, ... *)
Acquire(o, deps) ==
  /\ native[o] = "absent"
  /\ deps \subseteq Live
  /\ native' = [native EXCEPT ![o] = "live"]
  /\ needs' = [needs EXCEPT ![o] = deps]

(* mongoc_*_destroy *)
Release(o) ==
  /\ native[o] = "live"
  /\ \A d \in Live : o \notin needs[d]
  /\ native' = [native EXCEPT ![o] = "dead"]
  /\ UNCHANGED needs

Next ==
  \E o \in Object :
    \/ \E deps \in SUBSET Object : Acquire(o, deps)
    \/ Release(o)

Spec == Init /\ [][Next]_vars

(***************************************************************************)
(* The consequence the driver relies on: a live object never holds a       *)
(* pointer to an object that is gone.                                      *)
(***************************************************************************)
NoDanglingPointer == \A o \in Live : needs[o] \subseteq Live
=============================================================================
