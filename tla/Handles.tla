------------------------------ MODULE Handles ------------------------------
(***************************************************************************)
(* Lifetime of the mongo handles.  Every mongoc object a script works with *)
(* is wrapped in a userdata ("handle") by pushHandle (util.c).  The handle *)
(* has a metatable whose __gc destroys the object, and an environment      *)
(* table, its user value, which is the only thing that keeps the parents   *)
(* of the object from being collected:                                     *)
(*                                                                         *)
(*     env[1] the handle that owns the environment                         *)
(*     env[2] its mode (1: a reference, the object is not ours)            *)
(*     env[3] the environment of its parent                                *)
(*                                                                         *)
(* Three actors interleave: the script, which calls methods and drops      *)
(* references; the collector, which separates unreachable handles at any   *)
(* time; and the finalizers, which run one by one, between any two steps   *)
(* of the script, until lua_close runs all those that are left.            *)
(*                                                                         *)
(* Handles are numbered in the order they get their metatable, which is    *)
(* the order of the collector's finobj list.  An environment table is      *)
(* named by the handle that owns it.                                       *)
(***************************************************************************)
EXTENDS Integers

CONSTANTS
  MaxHandles,    \* bound: userdata created in one run
  ScriptObjects  \* may the script give tables of its own a __gc metamethod?

ASSUME HandlesAssumption ==
  /\ MaxHandles \in Nat
  /\ ScriptObjects \in BOOLEAN

Handle == 1 .. MaxHandles

OwnedKind == {"Client", "Database", "Collection", "Cursor", "BulkOperation",
              "GridFS", "GridFSFile", "GridFSFileList", "ReadPrefs"}

Kind == OwnedKind \cup {"Unused", "ScriptObject"}

VARIABLES
  count,      \* handles created so far
  kind,       \* the metatable (typename) a handle was given
  env,        \* its environment table, named by the owner of the table
  envMode,    \* env[2] of the table a handle owns
  envParent,  \* env[3] of the table a handle owns, 0 if absent
  held,       \* the value a script object holds, 0 if none
  typed,      \* handles whose metatable is still set
  native,     \* the wrapped object; "borrowed" if it belongs to the parent
  needs,      \* objects the wrapped object keeps pointers to
  roots,      \* handles in the script's variables
  finobj,     \* objects with a finalizer, not yet separated
  cycle,      \* 0, or the separation that moved the object to tobefnz
  phase,      \* "run", "closing" (in lua_close)
  running,    \* script object whose finalizer is executing, 0 if none
  belated     \* history: handles whose object, when they were created, pointed
              \* to one that was already separated

objects == <<count, kind, env, envMode, envParent, held, needs, belated>>
vars == <<count, kind, env, envMode, envParent, held, typed, native, needs,
          roots, finobj, cycle, phase, running, belated>>

Created == 1 .. count
Pending == {h \in Handle : cycle[h] > 0}

TypeOK ==
  /\ count \in 0 .. MaxHandles
  /\ kind \in [Handle -> Kind]
  /\ env \in [Handle -> 0 .. MaxHandles]
  /\ envMode \in [Handle -> {0, 1}]
  /\ envParent \in [Handle -> 0 .. MaxHandles]
  /\ held \in [Handle -> 0 .. MaxHandles]
  /\ typed \in SUBSET Handle
  /\ native \in [Handle -> {"absent", "live", "borrowed", "dead", "twice"}]
  /\ needs \in [Handle -> SUBSET Handle]
  /\ roots \in SUBSET Handle
  /\ finobj \in SUBSET Handle
  /\ cycle \in [Handle -> 0 .. MaxHandles + 1]
  /\ phase \in {"run", "closing"}
  /\ running \in 0 .. MaxHandles
  /\ belated \in SUBSET Handle

Init ==
  /\ count = 0
  /\ kind = [h \in Handle |-> "Unused"]
  /\ env = [h \in Handle |-> 0]
  /\ envMode = [h \in Handle |-> 0]
  /\ envParent = [h \in Handle |-> 0]
  /\ held = [h \in Handle |-> 0]
  /\ typed = {}
  /\ native = [h \in Handle |-> "absent"]
  /\ needs = [h \in Handle |-> {}]
  /\ roots = {}
  /\ finobj = {}
  /\ cycle = [h \in Handle |-> 0]
  /\ phase = "run"
  /\ running = 0
  /\ belated = {}

-----------------------------------------------------------------------------
(* util.c: environments, types and handles *)

(* Script code executes: the main program, or the finalizer of an object of
   its own.  In lua_close only finalizers do. *)
ScriptRuns == phase = "run" \/ running # 0

(* The handles an environment table leads to: env[1], and env[1] of env[3]. *)
EnvHandles(e) == {e, envParent[e]} \ {0}

(* What the collector reaches from a userdata through its user value, or
   from a script object through its field. *)
Refs(h) == IF kind[h] = "ScriptObject" THEN {held[h]} ELSE EnvHandles(env[h])

(* The environment pushHandle gives: the parent's, or a new one. *)
EnvironmentOf(h, mode, pidx) == IF mode < 0 THEN env[pidx] ELSE h
(* Mutant: a new environment without env[3]. *)
OrphanEnvironment(mode, pidx) == 0
ParentEnvironment(mode, pidx) == IF mode >= 0 /\ pidx # 0 THEN env[pidx] ELSE 0

(* luaL_newmetatable and lua_setmetatable; an object that gets a metatable
   with __gc joins finobj, except while the state is closing. *)
SetType(h) ==
  /\ typed' = typed \cup {h}
  /\ finobj' = IF phase = "closing" THEN finobj ELSE finobj \cup {h}

(* pushHandle followed by setType: a new userdata of the given kind on the
   script's stack.  obj says whether the wrapped object is ours. *)
PushHandle(k, obj, mode, pidx, deps) ==
  LET h == count + 1 IN
  /\ count < MaxHandles
  /\ count' = h
  /\ kind' = [kind EXCEPT ![h] = k]
  /\ env' = [env EXCEPT ![h] = EnvironmentOf(h, mode, pidx)]
  /\ envMode' = [envMode EXCEPT ![h] = IF mode = 1 THEN 1 ELSE 0]
  /\ envParent' = [envParent EXCEPT ![h] = ParentEnvironment(mode, pidx)]
  /\ native' = [native EXCEPT ![h] = obj]
  /\ needs' = [needs EXCEPT ![h] = deps]
  /\ roots' = roots \cup {h}
  /\ SetType(h)
  /\ belated' = IF deps \subseteq finobj THEN belated ELSE belated \cup {h}
  /\ UNCHANGED <<held, cycle, phase, running>>

(* getHandleMode: env[2], but only for the handle that owns the table. *)
GetHandleMode(h) == IF env[h] = h THEN envMode[h] ELSE 0

(* checkClient, checkCollection, ... : luaL_checkudata compares metatables
   and raises an error for a handle whose metatable was removed. *)
Receives(p, k) == ScriptRuns /\ p \in roots /\ p \in typed /\ kind[p] = k

(* The objects a new mongoc object will point to: it copies the pointer its
   parent has to the client, or to the client and the GridFS. *)
SameOrNeeded(p, k) == {n \in needs[p] \cup {p} : kind[n] = k}
ClientOf(p) == SameOrNeeded(p, "Client")
GridFSOf(p) == SameOrNeeded(p, "GridFS")

-----------------------------------------------------------------------------
(* Methods that wrap a new object.  Calls that fail return nil and change
   nothing here; calls that only use the object are covered by
   CallableIsSafe. *)

(* mongo.client(uri) *)
NewClient == ScriptRuns /\ PushHandle("Client", "live", 0, 0, {})

(* mongo.readprefs(mode), and getReadPrefs, which copies *)
NewReadPrefs == ScriptRuns /\ PushHandle("ReadPrefs", "live", 0, 0, {})

(* client:getDatabase, client:getDefaultDatabase *)
GetDatabase(p) ==
  /\ Receives(p, "Client")
  /\ PushHandle("Database", "live", -1, p, ClientOf(p))

(* Mutant: an object of ours is pushed as a reference. *)
GetCollectionAsReference(p) ==
  /\ Receives(p, "Client") \/ Receives(p, "Database")
  /\ PushHandle("Collection", "live", 1, p, ClientOf(p))

(* client:getCollection, database:getCollection, database:createCollection *)
GetCollection(p) ==
  /\ Receives(p, "Client") \/ Receives(p, "Database")
  /\ PushHandle("Collection", "live", -1, p, ClientOf(p))

(* gridfs:getChunks, gridfs:getFiles: pushCollection(..., ref = true) *)
GetGridFSCollection(p) ==
  /\ Receives(p, "GridFS")
  /\ PushHandle("Collection", "borrowed", 1, p, ClientOf(p) \cup GridFSOf(p))

(* client:command with a cursor in the reply, collection:find, :aggregate *)
OpenCursor(p) ==
  /\ Receives(p, "Client") \/ Receives(p, "Collection")
  /\ PushHandle("Cursor", "live", -1, p, ClientOf(p))

(* collection:createBulkOperation *)
CreateBulkOperation(p) ==
  /\ Receives(p, "Collection")
  /\ PushHandle("BulkOperation", "live", -1, p, ClientOf(p))

(* client:getGridFS *)
GetGridFS(p) ==
  /\ Receives(p, "Client")
  /\ PushHandle("GridFS", "live", 0, p, ClientOf(p))

(* gridfs:createFile, :createFileFrom, :findOne, :findOneByFilename and
   filelist:next *)
GetGridFSFile(p) ==
  /\ Receives(p, "GridFS") \/ Receives(p, "GridFSFileList")
  /\ PushHandle("GridFSFile", "live", -1, p, ClientOf(p) \cup GridFSOf(p))

(* gridfs:find *)
FindGridFSFiles(p) ==
  /\ Receives(p, "GridFS")
  /\ PushHandle("GridFSFileList", "live", -1, p, ClientOf(p) \cup GridFSOf(p))

-----------------------------------------------------------------------------
(* The script's own references *)

(* A variable goes out of scope or is overwritten. *)
Drop(h) ==
  /\ ScriptRuns
  /\ h \in roots
  /\ roots' = roots \ {h}
  /\ UNCHANGED <<objects, typed, native, finobj, cycle, phase, running>>

(* setmetatable({field = p}, {__gc = function(self) ... end}) *)
NewScriptObject(p) ==
  LET u == count + 1 IN
  /\ ScriptObjects
  /\ ScriptRuns
  /\ p \in roots
  /\ count < MaxHandles
  /\ count' = u
  /\ kind' = [kind EXCEPT ![u] = "ScriptObject"]
  /\ held' = [held EXCEPT ![u] = p]
  /\ roots' = roots \cup {u}
  /\ SetType(u)
  /\ UNCHANGED <<env, envMode, envParent, native, needs, cycle, phase, running, belated>>

(* local p = u.field *)
ReadField(u) ==
  /\ ScriptRuns
  /\ u \in roots
  /\ kind[u] = "ScriptObject"
  /\ roots' = roots \cup {held[u]}
  /\ UNCHANGED <<objects, typed, native, finobj, cycle, phase, running>>

-----------------------------------------------------------------------------
(* The collector and the finalizers *)

(* The handles a mark phase may end with: all that are reachable from the
   script and from the finalizers that are still to run, and perhaps some
   that became unreachable while it marked. *)
Closed(m) == \A h \in m : Refs(h) \subseteq m
Marked == {m \in SUBSET Created : roots \cup Pending \subseteq m /\ Closed(m)}

(* separatetobefnz: the objects that move come after those that wait.  An
   object is separated once, so the numbers never pass MaxHandles + 1. *)
Separate(objs) ==
  /\ finobj' = finobj \ objs
  /\ \E n \in 1 .. MaxHandles + 1 :
       /\ n = 1 \/ \E g \in Pending : cycle[g] + 1 = n
       /\ \A g \in Pending : cycle[g] < n
       /\ cycle' = [h \in Handle |-> IF h \in objs THEN n ELSE cycle[h]]

(* The atomic step of a collection cycle. *)
CollectWith(m) ==
  /\ phase = "run" /\ running = 0
  /\ finobj \ m # {}
  /\ Separate(finobj \ m)
  /\ UNCHANGED <<objects, typed, native, roots, phase, running>>

Collect == \E m \in Marked : CollectWith(m)

(* Mutant: finalizers in the order of creation. *)
IsNextInCreationOrder(h) ==
  \A g \in Pending \ {h} : cycle[h] < cycle[g] \/ (cycle[h] = cycle[g] /\ h < g)

(* The order of tobefnz: by separation, and in one separation in the reverse
   of the order in which the objects got their metatables. *)
IsNext(h) ==
  \A g \in Pending \ {h} : cycle[h] < cycle[g] \/ (cycle[h] = cycle[g] /\ g < h)

(* mongoc_*_destroy; an object that is not live is freed twice. *)
Destroyed(state) == IF state = "live" THEN "dead" ELSE "twice"

(* Mutant: the finalizer leaves the metatable. *)
GcKeepsType(h) ==
  IF kind[h] = "Collection" /\ GetHandleMode(h) # 0
  THEN UNCHANGED <<native, typed>>
  ELSE native' = [native EXCEPT ![h] = Destroyed(@)] /\ UNCHANGED typed

(* The m__gc of every handle: destroy the object, then unsetType.  The one
   of a collection leaves a reference alone, metatable included. *)
GcMetamethod(h) ==
  IF kind[h] = "Collection" /\ GetHandleMode(h) # 0
  THEN UNCHANGED <<native, typed>>
  ELSE /\ native' = [native EXCEPT ![h] = Destroyed(@)]
       /\ typed' = typed \ {h}

(* GCTM calls the finalizer at the head of tobefnz. *)
Finalize(h) ==
  /\ running = 0
  /\ h \in Pending /\ IsNext(h)
  /\ cycle' = [cycle EXCEPT ![h] = 0]
  /\ IF kind[h] = "ScriptObject"
     THEN /\ running' = h
          /\ roots' = roots \cup {h}
          /\ UNCHANGED <<native, typed>>
     ELSE GcMetamethod(h) /\ UNCHANGED <<running, roots>>
  /\ UNCHANGED <<objects, finobj, phase>>

(* The finalizer of a script object returns.  What it stored in a global is
   still in roots; its argument is, too, unless it is dropped. *)
EndFinalizer ==
  /\ running # 0
  /\ running' = 0
  /\ UNCHANGED <<objects, typed, native, roots, finobj, cycle, phase>>

(* lua_close separates every object with a finalizer, reachable or not. *)
Close ==
  /\ phase = "run" /\ running = 0
  /\ phase' = "closing"
  /\ Separate(finobj)
  /\ UNCHANGED <<objects, typed, native, roots, running>>

-----------------------------------------------------------------------------
OnHandle(h) ==
  \/ GetDatabase(h)
  \/ GetCollection(h)
  \/ GetGridFSCollection(h)
  \/ OpenCursor(h)
  \/ CreateBulkOperation(h)
  \/ GetGridFS(h)
  \/ GetGridFSFile(h)
  \/ FindGridFSFiles(h)
  \/ Drop(h)
  \/ NewScriptObject(h)
  \/ ReadField(h)
  \/ Finalize(h)

Next ==
  \/ NewClient
  \/ NewReadPrefs
  \/ \E h \in Handle : OnHandle(h)
  \/ Collect
  \/ EndFinalizer
  \/ Close

Spec == Init /\ [][Next]_vars

(***************************************************************************)
(* Fairness.  A script that goes on allocating drives the collector, so a  *)
(* full cycle, one that marks nothing unreachable, happens again and again *)
(* (lgc.c, singlestep and fullinc); and lua_close, like every later step   *)
(* of the collector, empties tobefnz (callallpendingfinalizers).           *)
(***************************************************************************)
ReachableFrom(start) ==
  LET within[n \in 0 .. MaxHandles] ==
        IF n = 0 THEN start
        ELSE within[n - 1] \cup UNION {Refs(h) : h \in within[n - 1]}
  IN within[count]

FullCycle == \E m \in {ReachableFrom(roots \cup Pending)} : CollectWith(m)

Fairness ==
  /\ WF_vars(FullCycle)
  /\ WF_vars(\E h \in Handle : Finalize(h))
  /\ WF_vars(EndFinalizer)

FairSpec == Spec /\ Fairness

-----------------------------------------------------------------------------
(* Properties *)

(* A borrowed collection is destroyed with the GridFS it belongs to. *)
Alive(h) ==
  IF native[h] = "borrowed"
  THEN \A n \in needs[h] : kind[n] = "GridFS" => native[n] = "live"
  ELSE native[h] = "live"

(* What the script can pass to a method: the argument check accepts it. *)
Callable == IF ScriptRuns THEN roots \cap typed ELSE {}

(* Whatever the script dropped, in whatever order, and whatever the collector
   already destroyed: a method that accepts a handle finds its object alive,
   and alive the client and the GridFS that object points to.  This is what
   the environments of pushHandle (util.c) are for. *)
CallableIsSafe ==
  \A h \in Callable :
    kind[h] # "ScriptObject" =>
      Alive(h) /\ \A n \in needs[h] : native[n] = "live"

(* Finalizers of the script's own objects can resurrect a handle, and use it
   before or after its own finalizer.  Two things hold all the same.  A handle
   that owns its object is refused once the object is destroyed (unsetType); a
   reference is not, it keeps its metatable (collection.c:219).  And a handle
   that was never separated, and is not made of one that points to a separated
   object, is as safe as without such finalizers, references included: what is
   resurrected never makes another handle unsafe. *)
UnsafeOnlyIfResurrected ==
  \A h \in Callable :
    kind[h] # "ScriptObject" =>
      /\ native[h] \in {"live", "borrowed"}
      /\ h \in finobj \ belated => Alive(h) /\ \A n \in needs[h] : native[n] = "live"

(* No object is destroyed twice, and no object is destroyed that belongs to
   another one (the chunks and files collections of a GridFS). *)
DestroyedAtMostOnce == \A h \in Handle : native[h] # "twice"

(* When lua_close has run the finalizers, every object the script ever opened
   was destroyed. *)
NoLeakAtClose ==
  phase = "closing" /\ Pending = {} => \A h \in Handle : native[h] # "live"

(* Once the script opens no more handles (here MaxHandles ends it; until then
   there may always be one that waits for the collector) there comes a time when
   every object whose handle the script cannot reach is destroyed, without
   waiting for lua_close.  A cycle of environments does not keep one. *)
Unreachable == Handle \ ReachableFrom(roots)
EventuallyReleased ==
  []<>(phase = "closing" \/ \A h \in Unreachable : native[h] # "live")

(***************************************************************************)
(* The inductive invariant behind these properties.  Fresh to Together are *)
(* for every script; the parts of Ordered need that finalizers do not run  *)
(* script code (~ScriptObjects).                                           *)
(***************************************************************************)
Fresh ==
  \A h \in Handle \ Created :
    /\ native[h] = "absent" /\ env[h] = 0 /\ envParent[h] = 0 /\ held[h] = 0
    /\ needs[h] = {} /\ cycle[h] = 0
    /\ h \notin typed /\ h \notin roots /\ h \notin finobj /\ h # running
    /\ h \notin belated

(* A collection that belongs to a GridFS, as getHandleMode tells it. *)
IsReference(h) == kind[h] = "Collection" /\ GetHandleMode(h) # 0

(* Whether an object is to be destroyed is decided by the collector's lists:
   each waits for its finalizer in at most one of them. *)
Owned ==
  /\ finobj \cap Pending = {}
  /\ \A h \in Created :
       /\ kind[h] # "Unused"
       /\ kind[h] = "ScriptObject" => native[h] = "absent" /\ needs[h] = {}
       /\ IsReference(h) <=> native[h] = "borrowed"
       /\ kind[h] # "ScriptObject" /\ ~IsReference(h) =>
            /\ native[h] \in {"live", "dead"}
            /\ h \in typed <=> native[h] = "live"
            /\ h \in finobj \cup Pending => native[h] = "live"

(* What the environment of a handle keeps alive covers what the object points
   to: the owners of the environment, of its parent, of the parent of that. *)
Environments ==
  \A h \in Created :
    IF kind[h] = "ScriptObject" THEN held[h] \in 1 .. h - 1 ELSE
      /\ env[h] \in 1 .. h /\ env[env[h]] = env[h]
      /\ kind[env[h]] # "ScriptObject"
      /\ envParent[h] \in 0 .. h - 1
      /\ envParent[h] # 0 => /\ env[envParent[h]] = envParent[h]
                             /\ kind[envParent[h]] # "ScriptObject"
      /\ kind[h] \in {"Client", "GridFS"} => env[h] = h
      /\ kind[h] = "Client" => envParent[h] = 0
      /\ kind[h] = "GridFS" => envParent[h] # 0 /\ kind[envParent[h]] = "Client"

Covered ==
  \A h \in Created : \A n \in needs[h] :
    /\ n \in 1 .. h - 1
    /\ kind[n] \in {"Client", "GridFS"}
    /\ n \in UNION {EnvHandles(e) : e \in EnvHandles(env[h])}

(* What an object points to is not separated before it. *)
Together ==
  \A h \in Created \cap finobj : h \notin belated => needs[h] \subseteq finobj

(* Destruction follows creation backwards: what an object points to is not
   separated before it and, in one separation, not finalized before it. *)
Ordered ==
  /\ running = 0
  /\ \A h \in Created : kind[h] # "ScriptObject"
  /\ phase = "run" => roots \subseteq finobj
  /\ phase = "closing" => finobj = {}
  /\ \A h \in Created : native[h] = "live" => h \in finobj \cup Pending
  /\ \A h \in Created : \A n \in needs[h] :
       /\ h \in finobj => n \in finobj
       /\ h \in Pending => n \in finobj \cup Pending
       /\ h \in Pending /\ n \in Pending => cycle[h] <= cycle[n]

IInv ==
  /\ TypeOK
  /\ Fresh
  /\ Owned
  /\ Environments
  /\ Covered
  /\ Together
  /\ ScriptObjects \/ Ordered

(* The handles implement the ownership protocol of the driver: objects are
   opened on live parents, destroyed once, dependants first.  A borrowed
   object is none of ours, so it is not an object of the protocol. *)
OwnNative == [h \in Handle |-> IF native[h] = "borrowed" THEN "absent"
                               ELSE native[h]]
OwnNeeds == [h \in Handle |-> IF native[h] = "borrowed" THEN {} ELSE needs[h]]

Driver == INSTANCE NativeObjects
            WITH Object <- Handle, native <- OwnNative, needs <- OwnNeeds

DriverProtocol == Driver!Spec

(* What the driver makes of it, and a method of a surviving handle relies on:
   no live object has a pointer to an object that is gone, at no time, also
   not while lua_close destroys one object after the other. *)
NoDanglingPointer == Driver!NoDanglingPointer
=============================================================================
