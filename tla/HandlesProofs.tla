--------------------------- MODULE HandlesProofs ---------------------------
(***************************************************************************)
(* What TLAPS proves about Handles, for any number of handles.  The        *)
(* argument is the inductive invariant IInv of Handles: one lemma says     *)
(* that a new handle keeps it, one that the collector does, one that a     *)
(* finalizer does; the properties are consequences of it.                  *)
(***************************************************************************)
EXTENDS Handles, TLAPS

(* What the methods that wrap an object have in common: a handle for which
   they call PushHandle gets an environment that covers what it points to. *)
Legal(k, obj, mode, p, deps) ==
  /\ ScriptRuns
  /\ obj = IF k = "Collection" /\ mode = 1 THEN "borrowed" ELSE "live"
  /\ \/ p = 0 /\ mode = 0 /\ deps = {} /\ k \notin {"GridFS", "Collection"}
     \/ /\ p \in roots /\ p \in typed
        /\ kind[p] \in OwnedKind
        /\ deps \subseteq needs[p] \cup {p}
        /\ \A n \in deps : kind[n] \in {"Client", "GridFS"}
        /\ k # "Client"
        /\ k = "GridFS" => mode = 0 /\ kind[p] = "Client"
        /\ mode = 0 => k = "GridFS"
        /\ mode = 1 => kind[p] = "GridFS" /\ k = "Collection"

LEMMA InitInvariant == Init => IInv
BY HandlesAssumption DEF Init, IInv, TypeOK, Fresh, Owned, Environments, Covered, Together,
      Ordered, Handle, Created, Pending, Kind, OwnedKind

-----------------------------------------------------------------------------
(* A new handle *)

LEMMA CreatedGrows ==
  ASSUME TypeOK, count < MaxHandles, count' = count + 1
  PROVE  /\ count + 1 \in Handle
         /\ count + 1 \notin Created
         /\ Created' = Created \cup {count + 1}
         /\ Created \subseteq Handle
         /\ \A h \in Created : h < count + 1
<1>1. count \in Nat /\ MaxHandles \in Nat
  BY HandlesAssumption DEF TypeOK
<1>2. 1 .. (count + 1) = (1 .. count) \cup {count + 1}
  BY <1>1
<1> QED BY <1>1, <1>2 DEF Created, Handle

LEMMA PushKeepsType ==
  ASSUME NEW k \in OwnedKind, NEW obj, NEW mode \in {-1, 0, 1},
         NEW p \in 0 .. MaxHandles, NEW deps \in SUBSET Handle, IInv,
         Legal(k, obj, mode, p, deps), PushHandle(k, obj, mode, p, deps)
  PROVE  TypeOK' /\ Fresh' /\ count + 1 \in Handle
<1>0. TypeOK /\ Fresh
  BY DEF IInv
<1>1. count + 1 \in Handle
  BY <1>0, CreatedGrows DEF PushHandle
<1>2. obj \in {"live", "borrowed"} /\ k \in Kind
  BY DEF Legal, Kind
<1>3. mode < 0 => p \in Handle
  BY <1>0 DEF Legal, TypeOK
<1>4. EnvironmentOf(count + 1, mode, p) \in 0 .. MaxHandles
  BY <1>0, <1>1, <1>3, HandlesAssumption DEF TypeOK, EnvironmentOf, Handle
<1>5. ParentEnvironment(mode, p) \in 0 .. MaxHandles
  <2>1. p # 0 => p \in Handle
    BY HandlesAssumption DEF Handle
  <2> QED BY <1>0, <2>1, HandlesAssumption DEF TypeOK, ParentEnvironment
<1>6. TypeOK'
  <2>1. /\ count' \in 0 .. MaxHandles
        /\ roots' \in SUBSET Handle
        /\ typed' \in SUBSET Handle
        /\ finobj' \in SUBSET Handle
    BY <1>0, <1>1 DEF TypeOK, PushHandle, SetType, Handle
  <2>2. /\ kind' \in [Handle -> Kind]
        /\ needs' \in [Handle -> SUBSET Handle]
        /\ native' \in [Handle -> {"absent", "live", "borrowed", "dead", "twice"}]
    BY <1>0, <1>1, <1>2 DEF TypeOK, PushHandle
  <2>3. /\ env' \in [Handle -> 0 .. MaxHandles]
        /\ envParent' \in [Handle -> 0 .. MaxHandles]
        /\ envMode' \in [Handle -> {0, 1}]
    BY <1>0, <1>1, <1>4, <1>5 DEF TypeOK, PushHandle
  <2>4. belated' \in SUBSET Handle
    BY <1>0, <1>1 DEF TypeOK, PushHandle
  <2> QED BY <1>0, <2>1, <2>2, <2>3, <2>4 DEF TypeOK, PushHandle
<1>7. Fresh'
  <2>1. Handle \ Created' = (Handle \ Created) \ {count + 1}
    BY <1>0, <1>1, CreatedGrows DEF PushHandle
  <2>2. ASSUME NEW h \in Handle \ Created, h # count + 1
        PROVE  /\ native'[h] = "absent" /\ env'[h] = 0 /\ envParent'[h] = 0
               /\ held'[h] = 0 /\ needs'[h] = {} /\ cycle'[h] = 0
               /\ h \notin typed' /\ h \notin roots' /\ h \notin finobj'
               /\ h # running' /\ h \notin belated'
    BY <1>0, <1>1, <2>2 DEF TypeOK, Fresh, PushHandle, SetType
  <2> QED BY <2>1, <2>2 DEF Fresh
<1> QED BY <1>1, <1>6, <1>7

LEMMA PushKeepsOwned ==
  ASSUME NEW k \in OwnedKind, NEW obj, NEW mode \in {-1, 0, 1},
         NEW p \in 0 .. MaxHandles, NEW deps \in SUBSET Handle,
         NEW new, new = count + 1, IInv,
         Legal(k, obj, mode, p, deps), PushHandle(k, obj, mode, p, deps)
  PROVE  Owned' /\ Environments' /\ Covered'
<1>0. TypeOK /\ TypeOK' /\ Fresh /\ Owned /\ Environments /\ Covered
  BY PushKeepsType DEF IInv
<1>1. /\ new \in Handle /\ new \notin Created
      /\ Created' = Created \cup {new}
      /\ Created \subseteq Handle
      /\ \A h \in Created : h < new
  BY <1>0, CreatedGrows DEF PushHandle
<1>2. \A h \in Created :
        /\ kind'[h] = kind[h] /\ env'[h] = env[h] /\ envParent'[h] = envParent[h]
        /\ envMode'[h] = envMode[h] /\ held'[h] = held[h]
        /\ native'[h] = native[h] /\ needs'[h] = needs[h]
  BY <1>0, <1>1 DEF PushHandle, TypeOK
<1>3. /\ kind'[new] = k /\ native'[new] = obj /\ needs'[new] = deps
      /\ env'[new] = IF mode < 0 THEN env[p] ELSE new
      /\ envMode'[new] = IF mode = 1 THEN 1 ELSE 0
      /\ envParent'[new] = IF mode >= 0 /\ p # 0 THEN env[p] ELSE 0
  BY <1>0 DEF PushHandle, TypeOK, EnvironmentOf, ParentEnvironment
<1>4. /\ p # 0 => p \in Created /\ kind[p] # "ScriptObject"
      /\ p = 0 => p \notin roots
  BY <1>0, <1>1 DEF Legal, Fresh, TypeOK, OwnedKind, Handle
<1>5. Pending' = Pending
  BY DEF PushHandle, Pending
<1>6. \A h \in Created : kind[h] # "ScriptObject" =>
        /\ env[h] \in Created /\ env[env[h]] = env[h]
        /\ kind[env[h]] # "ScriptObject"
  BY <1>0, HandlesAssumption DEF TypeOK, Environments, Created
<1>7. Owned'
  <2>1. /\ finobj' = IF phase = "closing" THEN finobj ELSE finobj \cup {new}
        /\ typed' = typed \cup {new}
    BY DEF PushHandle, SetType
  <2>2. new \notin Pending /\ new \notin finobj
    <3>1. cycle[new] = 0 /\ new \notin finobj
      BY <1>0, <1>1 DEF Fresh
    <3> QED BY <3>1 DEF Pending
  <2>3. \A h \in Created : IsReference(h)' <=> IsReference(h)
    BY <1>1, <1>2 DEF IsReference, GetHandleMode
  <2>4. IsReference(new)' <=> obj = "borrowed"
    <3>2. mode < 0 => env'[new] # new
      BY <1>1, <1>3, <1>4, <1>6 DEF Legal
    <3>3. GetHandleMode(new)' = IF mode = 1 THEN 1 ELSE 0
      BY <1>3, <3>2 DEF GetHandleMode
    <3> QED BY <1>3, <3>3 DEF IsReference, Legal
  <2>5. k # "Unused" /\ k # "ScriptObject"
    BY DEF Legal, OwnedKind
  <2>6. finobj' \cap Pending' = {}
    BY <1>0, <1>5, <2>1, <2>2 DEF Owned
  <2>7. ASSUME NEW h \in Created
        PROVE  /\ kind'[h] # "Unused"
               /\ kind'[h] = "ScriptObject" =>
                    native'[h] = "absent" /\ needs'[h] = {}
               /\ IsReference(h)' <=> native'[h] = "borrowed"
               /\ kind'[h] # "ScriptObject" /\ ~IsReference(h)' =>
                    /\ native'[h] \in {"live", "dead"}
                    /\ h \in typed' <=> native'[h] = "live"
                    /\ h \in finobj' \cup Pending' => native'[h] = "live"
    BY <1>0, <1>1, <1>2, <1>5, <2>1, <2>3 DEF Owned
  <2>8. /\ kind'[new] = k /\ native'[new] \in {"live", "borrowed"}
        /\ IsReference(new)' <=> native'[new] = "borrowed"
        /\ new \in typed'
    BY <1>3, <2>1, <2>4 DEF Legal
  <2>9. /\ kind'[new] # "Unused" /\ kind'[new] # "ScriptObject"
        /\ ~IsReference(new)' => native'[new] = "live"
    BY <2>5, <2>8
  <2> QED BY <1>1, <2>6, <2>7, <2>8, <2>9 DEF Owned
<1>8. Environments'
  <2>1. \A h \in Created : kind[h] # "ScriptObject" /\ envParent[h] # 0 =>
          envParent[h] \in Created
    BY <1>0, HandlesAssumption DEF TypeOK, Environments, Created
  <2>2. ASSUME NEW h \in Created
        PROVE  IF kind'[h] = "ScriptObject" THEN held'[h] \in 1 .. h - 1 ELSE
               /\ env'[h] \in 1 .. h /\ env'[env'[h]] = env'[h]
               /\ kind'[env'[h]] # "ScriptObject"
               /\ envParent'[h] \in 0 .. h - 1
               /\ envParent'[h] # 0 => /\ env'[envParent'[h]] = envParent'[h]
                                       /\ kind'[envParent'[h]] # "ScriptObject"
               /\ kind'[h] \in {"Client", "GridFS"} => env'[h] = h
               /\ kind'[h] = "Client" => envParent'[h] = 0
               /\ kind'[h] = "GridFS" =>
                    envParent'[h] # 0 /\ kind'[envParent'[h]] = "Client"
    <3>1. CASE kind[h] = "ScriptObject"
      BY <1>0, <1>2, <3>1 DEF Environments
    <3>2. CASE kind[h] # "ScriptObject"
      <4>1. env[h] \in Created /\ (envParent[h] # 0 => envParent[h] \in Created)
        BY <1>6, <2>1, <3>2
      <4> QED BY <1>0, <1>2, <3>2, <4>1 DEF Environments
    <3> QED BY <3>1, <3>2
  <2>3. /\ env'[new] \in 1 .. new /\ env'[env'[new]] = env'[new]
        /\ kind'[env'[new]] # "ScriptObject"
        /\ envParent'[new] \in 0 .. new - 1
        /\ envParent'[new] # 0 => /\ env'[envParent'[new]] = envParent'[new]
                                  /\ kind'[envParent'[new]] # "ScriptObject"
        /\ kind'[new] \in {"Client", "GridFS"} => env'[new] = new
        /\ kind'[new] = "Client" => envParent'[new] = 0
        /\ kind'[new] = "GridFS" =>
             envParent'[new] # 0 /\ kind'[envParent'[new]] = "Client"
    <3>2. p # 0 => /\ env[p] \in Created /\ env[env[p]] = env[p]
                   /\ kind[env[p]] # "ScriptObject"
                   /\ kind[p] = "Client" => env[p] = p
      BY <1>0, <1>4, <1>6 DEF Environments
    <3>3. new \in Nat /\ 1 <= new
      BY <1>0, HandlesAssumption DEF TypeOK
    <3>4. Created \subseteq 1 .. new - 1
      BY <1>0, HandlesAssumption DEF TypeOK, Created
    <3>5. p # 0 => env'[env[p]] = env[p] /\ kind'[env[p]] = kind[env[p]]
      BY <1>2, <3>2
    <3>6. /\ k # "ScriptObject" /\ (p = 0 => mode = 0)
          /\ k = "Client" => p = 0 /\ mode = 0
          /\ k = "GridFS" => p # 0 /\ mode = 0 /\ kind[p] = "Client"
      BY <1>4 DEF Legal, OwnedKind
    <3>7. CASE mode < 0
      <4>1. p # 0 /\ env'[new] = env[p] /\ envParent'[new] = 0 /\ kind'[new] = k
        BY <1>3, <3>6, <3>7
      <4>2. env[p] \in 1 .. new - 1
        BY <3>2, <3>4, <4>1
      <4> QED BY <3>2, <3>3, <3>5, <3>6, <3>7, <4>1, <4>2
    <3>8. CASE mode >= 0
      <4>1. env'[new] = new
        BY <1>3, <3>8
      <4>2. CASE p = 0
        BY <1>3, <3>3, <3>6, <4>1, <4>2
      <4>3. CASE p # 0
        <5>1. envParent'[new] = env[p] /\ kind'[new] = k
          BY <1>3, <3>8, <4>3
        <5>2. env[p] \in 1 .. new - 1
          BY <3>2, <3>4, <4>3
        <5> QED BY <3>2, <3>3, <3>5, <3>6, <4>1, <4>3, <5>1, <5>2
      <4> QED BY <4>2, <4>3
    <3> QED BY <3>7, <3>8
  <2> QED BY <1>1, <1>3, <2>2, <2>3 DEF Environments, Legal, OwnedKind
<1>9. Covered'
  <2> DEFINE Leads(h) == UNION {EnvHandles(e) : e \in EnvHandles(env[h])}
  <2>1. \A h \in Created : EnvHandles(h)' = EnvHandles(h)
    BY <1>2 DEF EnvHandles
  <2>2. \A h \in Created : kind[h] # "ScriptObject" =>
          EnvHandles(env[h]) \subseteq Created
    <3> SUFFICES ASSUME NEW h \in Created, kind[h] # "ScriptObject"
                 PROVE  EnvHandles(env[h]) \subseteq Created
      OBVIOUS
    <3>1. env[h] \in Created /\ kind[env[h]] # "ScriptObject"
      BY <1>6
    <3>2. envParent[env[h]] \in 0 .. env[h] - 1
      BY <1>0, <3>1 DEF Environments
    <3> QED BY <1>0, <3>1, <3>2, HandlesAssumption DEF TypeOK, Created, EnvHandles
  <2>3. \A h \in Created : kind[h] # "ScriptObject" => Leads(h)' = Leads(h)
    <3> SUFFICES ASSUME NEW h \in Created, kind[h] # "ScriptObject"
                 PROVE  Leads(h)' = Leads(h)
      OBVIOUS
    <3>1. EnvHandles(env[h])' = EnvHandles(env[h])
      BY <1>2, <1>6, <2>1
    <3>2. \A e \in EnvHandles(env[h]) : EnvHandles(e)' = EnvHandles(e)
      BY <2>1, <2>2
    <3> QED BY <3>1, <3>2
  <2>4. ASSUME NEW n \in deps
        PROVE  /\ n \in 1 .. new - 1
               /\ kind'[n] \in {"Client", "GridFS"}
               /\ n \in Leads(new)'
    <3>1. p \in Created /\ kind[p] # "ScriptObject" /\ n \in needs[p] \cup {p}
          /\ kind[n] \in {"Client", "GridFS"}
      BY <1>4 DEF Legal
    <3>2. n \in Created
      BY <1>0, <3>1, HandlesAssumption DEF TypeOK, Covered, Created
    <3>0. n \in 1 .. new - 1 /\ kind'[n] \in {"Client", "GridFS"}
      BY <1>0, <1>1, <1>2, <3>1, <3>2, HandlesAssumption DEF TypeOK, Created
    <3> SUFFICES n \in Leads(new)'
      BY <3>0
    <3>3. n \in Leads(p)
      <4>1. CASE n = p
        <5>1. env[p] = p /\ p # 0
          BY <1>0, <3>1, <4>1, HandlesAssumption DEF Environments, TypeOK, Created
        <5> QED BY <4>1, <5>1 DEF EnvHandles
      <4>2. CASE n \in needs[p]
        BY <1>0, <3>1, <4>2 DEF Covered
      <4> QED BY <3>1, <4>1, <4>2
    <3>4. CASE mode < 0
      <4>1. env'[new] = env'[p]
        BY <1>2, <1>3, <3>1, <3>4
      <4>2. Leads(new)' = Leads(p)'
        BY <4>1 DEF EnvHandles
      <4> QED BY <2>3, <3>1, <3>3, <4>2
    <3>5. CASE mode >= 0
      <4>1. n \in EnvHandles(env[p])
        <5>1. kind[p] \in {"Client", "GridFS"} /\ p # 0
          BY <1>0, <3>1, <3>5, HandlesAssumption DEF Legal, TypeOK, Created
        <5>2. env[p] = p
          BY <1>0, <3>1, <5>1 DEF Environments
        <5>3. CASE n = p
          BY <5>1, <5>2, <5>3 DEF EnvHandles
        <5>4. CASE n # p
          <6>1. n \in needs[p] /\ n # 0 /\ kind[p] = "GridFS"
            <7>1. n \in needs[p] /\ n # 0
              BY <1>0, <3>1, <3>2, <5>4, HandlesAssumption DEF TypeOK, Created
            <7>2. kind[p] = "Client" => envParent[p] = 0
              BY <1>0, <3>1 DEF Environments
            <7>3. kind[p] = "Client" => Leads(p) \subseteq {p}
              BY <5>2, <7>2 DEF EnvHandles
            <7> QED BY <3>3, <5>1, <5>4, <7>1, <7>3
          <6>2. envParent[p] \in Created /\ kind[envParent[p]] = "Client"
            BY <1>0, <3>1, <6>1, HandlesAssumption DEF Environments, TypeOK, Created
          <6>3. env[envParent[p]] = envParent[p] /\ envParent[envParent[p]] = 0
            BY <1>0, <6>2 DEF Environments
          <6>4. Leads(p) \subseteq {p, envParent[p]}
            BY <5>2, <6>3 DEF EnvHandles
          <6> QED BY <3>3, <5>2, <5>4, <6>1, <6>4 DEF EnvHandles
        <5> QED BY <5>3, <5>4
      <4>2. env[p] \in Created /\ env[p] # 0 /\ p # 0
        BY <1>0, <1>6, <3>1, HandlesAssumption DEF TypeOK, Created
      <4>3. env[p] \in EnvHandles(env[new])'
        BY <1>3, <3>5, <4>2 DEF EnvHandles
      <4>4. PICK e \in Created : e = env[p]
        BY <4>2
      <4>5. e \in EnvHandles(env[new])' /\ n \in EnvHandles(e)'
        BY <2>1, <4>1, <4>3, <4>4
      <4> QED BY <4>5
    <3> QED BY <3>4, <3>5
  <2>5. \A h \in Created : kind[h] = "ScriptObject" => needs[h] = {}
    BY <1>0 DEF Owned
  <2>6. ASSUME NEW h \in Created, NEW n \in needs[h]
        PROVE  n \in 1 .. h - 1 /\ kind'[n] \in {"Client", "GridFS"} /\ n \in Leads(h)'
    <3>1. n \in 1 .. h - 1 /\ kind[n] \in {"Client", "GridFS"} /\ n \in Leads(h)
      BY <1>0 DEF Covered
    <3>2. n \in Created
      BY <1>0, <3>1, HandlesAssumption DEF TypeOK, Created
    <3> QED BY <1>2, <2>3, <2>5, <3>1, <3>2
  <2>7. needs'[new] = deps /\ \A h \in Created : needs'[h] = needs[h]
    BY <1>2, <1>3
  <2> HIDE DEF Leads
  <2>8. \A h \in Created' : \A n \in needs'[h] :
          n \in 1 .. h - 1 /\ kind'[n] \in {"Client", "GridFS"} /\ n \in Leads(h)'
    BY <1>1, <2>4, <2>6, <2>7
  <2> QED BY <2>8 DEF Covered, Leads
<1> QED BY <1>7, <1>8, <1>9

LEMMA PushKeepsOrdered ==
  ASSUME NEW k \in OwnedKind, NEW obj, NEW mode \in {-1, 0, 1},
         NEW p \in 0 .. MaxHandles, NEW deps \in SUBSET Handle,
         NEW new, new = count + 1, IInv, Ordered,
         Legal(k, obj, mode, p, deps), PushHandle(k, obj, mode, p, deps)
  PROVE  Ordered'
<1>1. TypeOK /\ Fresh /\ Covered
  BY DEF IInv
<1>2. /\ new \in Handle /\ new \notin Created
      /\ Created' = Created \cup {new}
      /\ Created \subseteq Handle
  BY <1>1, CreatedGrows DEF PushHandle
<1>3. phase = "run" /\ running = 0
  BY DEF Legal, ScriptRuns, Ordered
<1>4. /\ finobj' = finobj \cup {new} /\ Pending' = Pending
      /\ roots' = roots \cup {new}
      /\ cycle' = cycle /\ phase' = phase /\ running' = running
  BY <1>3 DEF PushHandle, SetType, Pending
<1>5. new \notin Pending
  <2>1. cycle[new] = 0
    BY <1>1, <1>2 DEF Fresh
  <2> QED BY <2>1 DEF Pending
<1>6. deps \subseteq finobj
  <2>1. p \in roots => p \in finobj /\ p \in Created
    BY <1>1, <1>3 DEF Ordered, Fresh, TypeOK
  <2> QED BY <2>1 DEF Legal, Ordered
<1>7. /\ kind'[new] = k /\ needs'[new] = deps
      /\ \A h \in Created : /\ kind'[h] = kind[h] /\ needs'[h] = needs[h]
                            /\ native'[h] = native[h]
  BY <1>1, <1>2 DEF PushHandle, TypeOK
<1>8. ASSUME NEW h \in Created, NEW n \in needs[h]
      PROVE  /\ h \in finobj' => n \in finobj'
             /\ h \in Pending' => n \in finobj' \cup Pending'
             /\ h \in Pending' /\ n \in Pending' => cycle'[h] <= cycle'[n]
  BY <1>2, <1>4 DEF Ordered
<1>9. ASSUME NEW n \in deps
      PROVE  n \in finobj' /\ new \notin Pending'
  BY <1>4, <1>5, <1>6
<1>10. \A h \in Created' : \A n \in needs'[h] :
         /\ h \in finobj' => n \in finobj'
         /\ h \in Pending' => n \in finobj' \cup Pending'
         /\ h \in Pending' /\ n \in Pending' => cycle'[h] <= cycle'[n]
  BY <1>2, <1>7, <1>8, <1>9
<1>11. \A h \in Created' : kind'[h] # "ScriptObject"
  BY <1>2, <1>7 DEF Ordered, OwnedKind
<1>12. \A h \in Created' : native'[h] = "live" => h \in finobj' \cup Pending'
  BY <1>2, <1>4, <1>7 DEF Ordered
<1>13. phase' = "run" /\ running' = 0 /\ roots' \subseteq finobj'
  BY <1>3, <1>4 DEF Ordered
<1> QED BY <1>10, <1>11, <1>12, <1>13 DEF Ordered

LEMMA PushKeepsTogether ==
  ASSUME NEW k \in OwnedKind, NEW obj, NEW mode \in {-1, 0, 1},
         NEW p \in 0 .. MaxHandles, NEW deps \in SUBSET Handle,
         NEW new, new = count + 1, IInv, PushHandle(k, obj, mode, p, deps)
  PROVE  Together'
<1>1. TypeOK /\ Fresh /\ Together
  BY DEF IInv
<1>2. /\ new \in Handle /\ Created' = Created \cup {new}
      /\ new \notin Created /\ Created \subseteq Handle
  BY <1>1, CreatedGrows DEF PushHandle
<1>3. finobj \subseteq finobj' /\ finobj' \subseteq finobj \cup {new}
  BY DEF PushHandle, SetType
<1>4. /\ needs'[new] = deps /\ \A h \in Created : needs'[h] = needs[h]
      /\ new \notin belated' => deps \subseteq finobj
      /\ belated \subseteq belated'
  BY <1>1, <1>2 DEF PushHandle, TypeOK
<1>5. ASSUME NEW h \in Created, h \in finobj', h \notin belated' PROVE needs'[h] \subseteq finobj'
  BY <1>1, <1>2, <1>3, <1>4, <1>5 DEF Together
<1> QED BY <1>2, <1>3, <1>4, <1>5 DEF Together

LEMMA PushKeepsInvariant ==
  ASSUME NEW k \in OwnedKind, NEW obj, NEW mode \in {-1, 0, 1},
         NEW p \in 0 .. MaxHandles, NEW deps, IInv,
         Legal(k, obj, mode, p, deps), PushHandle(k, obj, mode, p, deps)
  PROVE  IInv'
<1>1. deps \in SUBSET Handle
  <2>1. p \in roots => needs[p] \subseteq Handle /\ p \in Handle
    BY DEF IInv, TypeOK
  <2> QED BY <2>1 DEF Legal
<1>2. PICK new : new = count + 1
  OBVIOUS
<1>3. TypeOK' /\ Fresh'
  BY <1>1, PushKeepsType
<1>4. Owned' /\ Environments' /\ Covered'
  BY <1>1, <1>2, PushKeepsOwned
<1>5. Ordered => Ordered'
  BY <1>1, <1>2, PushKeepsOrdered
<1>6. Together'
  BY <1>1, <1>2, PushKeepsTogether
<1> QED BY <1>3, <1>4, <1>5, <1>6 DEF IInv

-----------------------------------------------------------------------------
(* The collector *)

(* A collection and lua_close move a set of objects that contains, with an
   object, all those that were to be destroyed before it. *)
LEMMA SeparateKeepsInvariant ==
  ASSUME NEW objs \in SUBSET finobj, IInv,
         Separate(objs),
         UNCHANGED <<objects, typed, native, roots, running>>,
         phase = "run", phase' \in {"run", "closing"},
         phase' = "run" => roots \cap objs = {},
         phase' = "closing" => objs = finobj,
         \A h \in Created : \A n \in needs[h] : n \in objs => h \notin finobj \ objs
  PROVE  IInv'
<1>1. TypeOK /\ Fresh /\ Owned /\ Environments /\ Covered
  BY DEF IInv
<1>2. PICK c \in 1 .. MaxHandles + 1 :
        /\ \A g \in Pending : cycle[g] < c
        /\ cycle' = [h \in Handle |-> IF h \in objs THEN c ELSE cycle[h]]
  BY DEF Separate
<1>3. finobj' = finobj \ objs
  BY DEF Separate
<1>4. Created' = Created
  BY DEF objects, Created
<1>5. c \in Nat /\ c > 0 /\ objs \subseteq Handle
  BY <1>1, HandlesAssumption DEF TypeOK
<1>6. Pending' = Pending \cup objs
  BY <1>1, <1>2, <1>5, HandlesAssumption DEF Pending, TypeOK
<1>7. TypeOK'
  BY <1>1, <1>2, <1>3, <1>5 DEF TypeOK, objects
<1>8. Fresh'
  BY <1>1, <1>2, <1>3, <1>4 DEF Fresh, objects
<1>9. \A h : IsReference(h)' <=> IsReference(h)
  BY DEF IsReference, GetHandleMode, objects
<1>10. Owned'
  <2>1. finobj' \cap Pending' = {} /\ finobj' \cup Pending' = finobj \cup Pending
    BY <1>1, <1>3, <1>6 DEF Owned
  <2> QED BY <1>1, <1>4, <1>9, <2>1 DEF Owned, objects
<1>11. Environments' /\ Covered'
  BY <1>1, <1>4 DEF Environments, Covered, EnvHandles, objects
<1>12. ASSUME Ordered PROVE Ordered'
  <2>1. ASSUME NEW h \in Created, NEW n \in needs[h]
        PROVE  /\ h \in finobj' => n \in finobj'
               /\ h \in Pending' => n \in finobj' \cup Pending'
               /\ h \in Pending' /\ n \in Pending' => cycle'[h] <= cycle'[n]
    <3>1. n \in Handle /\ h \in Handle
      BY <1>1, HandlesAssumption DEF TypeOK, Covered, Created, Handle
    <3>2. h \in finobj' => n \in finobj'
      BY <1>3, <1>12 DEF Ordered
    <3>3. h \in Pending' => n \in finobj' \cup Pending'
      BY <1>3, <1>6, <1>12 DEF Ordered
    <3>4. ASSUME h \in Pending', n \in Pending' PROVE cycle'[h] <= cycle'[n]
      <4>1. cycle[h] \in Nat /\ cycle[n] \in Nat
        BY <1>1, <3>1, HandlesAssumption DEF TypeOK
      <4>2. CASE n \in objs
        <5>1. cycle'[n] = c /\ (cycle'[h] = c \/ (h \in Pending /\ cycle'[h] = cycle[h]))
          BY <1>2, <1>6, <3>1, <3>4, <4>2
        <5> QED BY <1>2, <1>5, <4>1, <5>1
      <4>3. CASE n \notin objs
        <5>1. n \in Pending /\ n \notin finobj
          BY <1>1, <1>6, <3>4, <4>3 DEF Owned
        <5>2. h \notin objs /\ h \in Pending
          BY <1>6, <1>12, <3>4, <5>1 DEF Ordered
        <5>3. cycle'[h] = cycle[h] /\ cycle'[n] = cycle[n]
          BY <1>2, <3>1, <4>3, <5>2
        <5> QED BY <1>12, <5>1, <5>2, <5>3 DEF Ordered
      <4> QED BY <4>2, <4>3
    <3> QED BY <3>2, <3>3, <3>4
  <2>2. \A h \in Created' : \A n \in needs'[h] :
          /\ h \in finobj' => n \in finobj'
          /\ h \in Pending' => n \in finobj' \cup Pending'
          /\ h \in Pending' /\ n \in Pending' => cycle'[h] <= cycle'[n]
    BY <1>4, <2>1 DEF objects
  <2>3. running' = 0 /\ \A h \in Created' : kind'[h] # "ScriptObject"
    BY <1>4, <1>12 DEF Ordered, objects
  <2>4. \A h \in Created' : native'[h] = "live" => h \in finobj' \cup Pending'
    BY <1>3, <1>4, <1>6, <1>12 DEF Ordered
  <2>5. /\ phase' = "run" => roots' \subseteq finobj'
        /\ phase' = "closing" => finobj' = {}
    BY <1>3, <1>12 DEF Ordered
  <2> QED BY <2>2, <2>3, <2>4, <2>5 DEF Ordered
<1>13. Together'
  BY <1>3, <1>4 DEF IInv, Together, objects
<1> QED BY <1>7, <1>8, <1>10, <1>11, <1>12, <1>13 DEF IInv

LEMMA CollectKeepsInvariant ==
  ASSUME IInv, Collect PROVE IInv'
<1>1. PICK m \in Marked : CollectWith(m)
  BY DEF Collect
<1>2. m \subseteq Created /\ roots \subseteq m /\ \A h \in m : Refs(h) \subseteq m
  BY DEF Marked, Closed
<1>3. \A h \in Created : \A n \in needs[h] : n \in finobj \ m => h \notin finobj \ (finobj \ m)
  <2> SUFFICES ASSUME NEW h \in Created, NEW n \in needs[h], h \in m
               PROVE  n \in m
    OBVIOUS
  <2>1. kind[h] # "ScriptObject" /\ n # 0
    BY HandlesAssumption DEF IInv, Owned, Covered, TypeOK, Created
  <2>2. EnvHandles(env[h]) \subseteq m
    BY <1>2, <2>1 DEF Refs
  <2>3. PICK e \in EnvHandles(env[h]) : n \in EnvHandles(e)
    BY DEF IInv, Covered
  <2>4. e \in m /\ e \in Created
    BY <1>2, <2>2, <2>3
  <2>5. env[e] = e /\ kind[e] # "ScriptObject"
    <3>1. env[h] \in Created /\ kind[env[h]] # "ScriptObject" /\ env[env[h]] = env[h]
      BY <2>1, HandlesAssumption DEF IInv, TypeOK, Environments, Created
    <3>2. CASE e = env[h]
      BY <3>1, <3>2
    <3>3. CASE e = envParent[env[h]] /\ e # 0
      BY <3>1, <3>3 DEF IInv, Environments
    <3> QED BY <3>2, <3>3 DEF EnvHandles
  <2> QED BY <1>2, <2>3, <2>4, <2>5 DEF Refs
<1> QED BY <1>1, <1>2, <1>3, SeparateKeepsInvariant DEF CollectWith

LEMMA CloseKeepsInvariant ==
  ASSUME IInv, Close PROVE IInv'
BY SeparateKeepsInvariant DEF Close

-----------------------------------------------------------------------------
(* The finalizers *)

LEMMA FinalizeKeepsInvariant ==
  ASSUME NEW x \in Handle, IInv, Finalize(x) PROVE IInv'
<1>1. TypeOK /\ Fresh /\ Owned /\ Environments /\ Covered
  BY DEF IInv
<1>2. Created' = Created
  BY DEF Finalize, objects, Created
<1>3. x \in Pending /\ x \in Created /\ x \notin finobj /\ Created \subseteq Handle
  <2>1. Created \subseteq Handle
    BY <1>1, HandlesAssumption DEF TypeOK, Created, Handle
  <2> QED BY <1>1, <2>1 DEF Finalize, Fresh, Owned, Pending
<1>4. cycle' = [cycle EXCEPT ![x] = 0] /\ Pending' = Pending \ {x}
  BY <1>1, HandlesAssumption DEF Finalize, Pending, TypeOK
<1>5. /\ UNCHANGED objects /\ finobj' = finobj /\ phase' = phase
      /\ kind[x] = "ScriptObject" =>
           /\ native' = native /\ typed' = typed
           /\ running' = x /\ roots' = roots \cup {x}
      /\ kind[x] # "ScriptObject" => running' = running /\ roots' = roots
  BY DEF Finalize
<1>6. /\ native' = native \/ native' = [native EXCEPT ![x] = "dead"]
      /\ kind[x] # "ScriptObject" /\ ~IsReference(x) =>
           native' = [native EXCEPT ![x] = "dead"] /\ typed' = typed \ {x}
      /\ kind[x] = "ScriptObject" \/ IsReference(x) => native' = native /\ typed' = typed
  <2>1. kind[x] # "ScriptObject" /\ ~IsReference(x) => native[x] = "live"
    BY <1>1, <1>3 DEF Owned
  <2> QED BY <1>5, <2>1 DEF Finalize, GcMetamethod, IsReference, Destroyed
<1>7. TypeOK'
  <2>1. cycle' \in [Handle -> 0 .. MaxHandles + 1]
    BY <1>1, <1>4, HandlesAssumption DEF TypeOK
  <2>2. running' \in 0 .. MaxHandles /\ roots' \in SUBSET Handle
    <3>1. x \in 0 .. MaxHandles /\ x \in Handle
      BY HandlesAssumption DEF Handle
    <3>2. CASE kind[x] = "ScriptObject"
      BY <1>1, <1>5, <3>1, <3>2 DEF TypeOK
    <3>3. CASE kind[x] # "ScriptObject"
      BY <1>1, <1>5, <3>3 DEF TypeOK
    <3> QED BY <3>2, <3>3
  <2>3. /\ native' \in [Handle -> {"absent", "live", "borrowed", "dead", "twice"}]
        /\ typed' \in SUBSET Handle
    BY <1>1, <1>6 DEF TypeOK
  <2> QED BY <1>1, <1>5, <2>1, <2>2, <2>3 DEF TypeOK, objects
<1>8. Fresh'
  <2>1. ASSUME NEW h \in Handle \ Created
        PROVE  native'[h] = "absent" /\ cycle'[h] = 0 /\ h \notin typed'
               /\ h \notin roots' /\ h # running'
    BY <1>1, <1>3, <1>4, <1>5, <1>6 DEF Fresh, TypeOK
  <2> QED BY <1>1, <1>2, <1>5, <2>1 DEF Fresh, objects
<1>9. \A h : IsReference(h)' <=> IsReference(h)
  BY <1>5 DEF IsReference, GetHandleMode, objects
<1>10. Owned'
  <2>1. finobj' \cap Pending' = {}
    BY <1>1, <1>4, <1>5 DEF Owned
  <2>2. ASSUME NEW h \in Created
        PROVE  /\ kind'[h] # "Unused"
               /\ kind'[h] = "ScriptObject" =>
                    native'[h] = "absent" /\ needs'[h] = {}
               /\ IsReference(h)' <=> native'[h] = "borrowed"
               /\ kind'[h] # "ScriptObject" /\ ~IsReference(h)' =>
                    /\ native'[h] \in {"live", "dead"}
                    /\ h \in typed' <=> native'[h] = "live"
                    /\ h \in finobj' \cup Pending' => native'[h] = "live"
    <3>1. kind' = kind /\ needs' = needs
      BY <1>5 DEF objects
    <3>2. CASE h = x
      BY <1>1, <1>3, <1>4, <1>5, <1>6, <1>9, <3>1, <3>2 DEF Owned, TypeOK
    <3>3. CASE h # x
      <4>1. native'[h] = native[h] /\ (h \in typed' <=> h \in typed)
        BY <1>1, <1>3, <1>6, <3>3 DEF TypeOK
      <4> QED BY <1>1, <1>4, <1>5, <1>9, <3>1, <3>3, <4>1 DEF Owned
    <3> QED BY <3>2, <3>3
  <2> QED BY <1>2, <2>1, <2>2 DEF Owned
<1>11. Environments' /\ Covered'
  BY <1>1, <1>2, <1>5 DEF Environments, Covered, EnvHandles, objects
<1>12. ASSUME Ordered PROVE Ordered'
  <2>1. kind[x] # "ScriptObject"
    BY <1>3, <1>12 DEF Ordered
  <2>2. ASSUME NEW h \in Created, NEW n \in needs[h], h \in Pending' PROVE n # x
    <3>1. h \in Pending /\ h # x /\ h \in Handle
      BY <1>4, <2>2 DEF Pending
    <3>2. cycle[x] < cycle[h] \/ (cycle[x] = cycle[h] /\ h < x)
      BY <3>1 DEF Finalize, IsNext
    <3>3. n = x => cycle[h] <= cycle[x] /\ x < h
      BY <1>1, <1>3, <1>12, <3>1, HandlesAssumption
         DEF Ordered, Covered, Handle
    <3>4. cycle[x] \in Nat /\ cycle[h] \in Nat /\ x \in Nat /\ h \in Nat
      BY <1>1, <3>1, HandlesAssumption DEF TypeOK, Handle
    <3> QED BY <3>2, <3>3, <3>4
  <2>3. ASSUME NEW h \in Created, NEW n \in needs[h]
        PROVE  /\ h \in finobj' => n \in finobj'
               /\ h \in Pending' => n \in finobj' \cup Pending'
               /\ h \in Pending' /\ n \in Pending' => cycle'[h] <= cycle'[n]
    <3>1. \A g \in Pending' : g \in Pending /\ cycle'[g] = cycle[g]
      BY <1>1, <1>4 DEF TypeOK, Pending
    <3> QED BY <1>4, <1>5, <1>12, <2>2, <3>1 DEF Ordered
  <2>4. \A h \in Created : native'[h] = "live" => h \in finobj' \cup Pending'
    <3>1. IsReference(x) => native[x] = "borrowed"
      BY <1>1, <1>3 DEF Owned
    <3>2. native'[x] # "live"
      BY <1>1, <1>6, <2>1, <3>1 DEF TypeOK
    <3>3. \A h \in Created : h # x => native'[h] = native[h]
      BY <1>1, <1>3, <1>6 DEF TypeOK
    <3> QED BY <1>4, <1>5, <1>12, <3>2, <3>3 DEF Ordered
  <2> QED BY <1>2, <1>5, <1>12, <2>1, <2>3, <2>4 DEF Ordered, objects
<1>13. Together'
  BY <1>2, <1>5 DEF IInv, Together, objects
<1> QED BY <1>7, <1>8, <1>10, <1>11, <1>12, <1>13 DEF IInv

-----------------------------------------------------------------------------
(* The script's references *)

LEMMA ScriptKeepsInvariant ==
  ASSUME NEW x \in Handle, IInv, Drop(x) \/ NewScriptObject(x) \/ ReadField(x)
  PROVE  IInv'
<1>1. /\ TypeOK /\ Fresh /\ Owned /\ Environments /\ Covered
      /\ ScriptObjects \/ Ordered
  BY DEF IInv
<1>2. Created \subseteq Handle
  BY <1>1, HandlesAssumption DEF TypeOK, Created, Handle
<1>3. ASSUME Drop(x) \/ ReadField(x) PROVE IInv'
  <2>1. UNCHANGED <<objects, typed, native, finobj, cycle, phase, running>>
    BY <1>3 DEF Drop, ReadField
  <2>2. roots' \subseteq Created /\ (roots' \subseteq roots \/ ~Ordered)
    <3>1. roots \subseteq Created
      BY <1>1 DEF Fresh, TypeOK
    <3>2. CASE Drop(x)
      BY <3>1, <3>2 DEF Drop
    <3>3. CASE ReadField(x)
      <4>1. x \in Created /\ kind[x] = "ScriptObject"
        BY <3>1, <3>3 DEF ReadField
      <4>2. held[x] \in Created /\ ~Ordered
        BY <1>1, <4>1, HandlesAssumption DEF Environments, Ordered, TypeOK, Created
      <4> QED BY <3>1, <3>3, <4>2 DEF ReadField
    <3> QED BY <1>3, <3>2, <3>3
  <2>3. TypeOK'
    BY <1>1, <1>2, <2>1, <2>2 DEF TypeOK, objects
  <2>4. Fresh'
    BY <1>1, <2>1, <2>2 DEF Fresh, Created, objects
  <2>5. Owned' /\ Environments' /\ Covered'
    BY <1>1, <2>1 DEF Owned, Environments, Covered, EnvHandles, Created, Pending,
                      IsReference, GetHandleMode, objects
  <2>6. Ordered => Ordered'
    BY <2>1, <2>2 DEF Ordered, Created, Pending, objects
  <2>7. Together'
    BY <2>1 DEF IInv, Together, Created, objects
  <2> QED BY <1>1, <2>3, <2>4, <2>5, <2>6, <2>7 DEF IInv
<1>4. ASSUME NewScriptObject(x) PROVE IInv'
  <2>1. PICK u : u = count + 1
    OBVIOUS
  <2>2. /\ u \in Handle /\ u \notin Created /\ Created' = Created \cup {u}
        /\ \A h \in Created : h < u
    BY <1>1, <1>4, <2>1, CreatedGrows DEF NewScriptObject
  <2>3. x \in 1 .. u - 1 /\ x \in Created
    BY <1>1, <1>4, <2>1, HandlesAssumption DEF NewScriptObject, Fresh, TypeOK, Created
  <2>4. /\ \A h \in Created : kind'[h] = kind[h] /\ held'[h] = held[h]
        /\ kind'[u] = "ScriptObject" /\ held'[u] = x
    BY <1>1, <1>2, <1>4, <2>1, <2>2 DEF NewScriptObject, TypeOK
  <2>5. /\ finobj' = IF phase = "closing" THEN finobj ELSE finobj \cup {u}
        /\ typed' = typed \cup {u} /\ roots' = roots \cup {u}
        /\ Pending' = Pending
        /\ UNCHANGED <<env, envMode, envParent, native, needs, cycle, phase, running, belated>>
    BY <1>4, <2>1 DEF NewScriptObject, SetType, Pending
  <2>6. u \notin Pending /\ u \notin finobj /\ native[u] = "absent" /\ needs[u] = {}
    BY <1>1, <2>2 DEF Fresh, Pending
  <2>7. TypeOK'
    <3>1. count' \in 0 .. MaxHandles
      BY <1>1, <1>4, HandlesAssumption DEF NewScriptObject, TypeOK
    <3>2. kind' \in [Handle -> Kind] /\ held' \in [Handle -> 0 .. MaxHandles]
      <4>1. x \in 0 .. MaxHandles /\ "ScriptObject" \in Kind
        BY HandlesAssumption DEF Handle, Kind
      <4> QED BY <1>1, <1>4, <4>1 DEF NewScriptObject, TypeOK
    <3>3. finobj' \in SUBSET Handle /\ typed' \in SUBSET Handle /\ roots' \in SUBSET Handle
      BY <1>1, <2>2, <2>5 DEF TypeOK
    <3> QED BY <1>1, <2>5, <3>1, <3>2, <3>3 DEF TypeOK
  <2>8. Fresh'
    <3> SUFFICES ASSUME NEW h \in Handle \ Created, h # u
                 PROVE  /\ native'[h] = "absent" /\ env'[h] = 0 /\ envParent'[h] = 0
                        /\ held'[h] = 0 /\ needs'[h] = {} /\ cycle'[h] = 0
                        /\ h \notin typed' /\ h \notin roots' /\ h \notin finobj'
                        /\ h # running' /\ h \notin belated'
      BY <2>2 DEF Fresh
    <3>1. held'[h] = held[h]
      BY <1>1, <1>4, <2>1 DEF NewScriptObject, TypeOK
    <3> QED BY <1>1, <2>5, <3>1 DEF Fresh
  <2>9. Owned'
    <3>1. \A h \in Created : IsReference(h)' <=> IsReference(h)
      BY <2>4, <2>5 DEF IsReference, GetHandleMode
    <3>2. ~IsReference(u)'
      BY <2>4 DEF IsReference
    <3>3. finobj' \cap Pending' = {}
      BY <1>1, <2>5, <2>6 DEF Owned
    <3>4. ASSUME NEW h \in Created
          PROVE  /\ kind'[h] # "Unused"
                 /\ kind'[h] = "ScriptObject" =>
                      native'[h] = "absent" /\ needs'[h] = {}
                 /\ IsReference(h)' <=> native'[h] = "borrowed"
                 /\ kind'[h] # "ScriptObject" /\ ~IsReference(h)' =>
                      /\ native'[h] \in {"live", "dead"}
                      /\ h \in typed' <=> native'[h] = "live"
                      /\ h \in finobj' \cup Pending' => native'[h] = "live"
      BY <1>1, <2>2, <2>4, <2>5, <3>1 DEF Owned
    <3> QED BY <2>2, <2>4, <2>5, <2>6, <3>2, <3>3, <3>4 DEF Owned
  <2>10. Environments'
    <3> SUFFICES ASSUME NEW h \in Created, kind[h] # "ScriptObject"
                 PROVE  /\ env[h] \in 1 .. h /\ env[env[h]] = env[h]
                        /\ kind'[env[h]] # "ScriptObject"
                        /\ envParent[h] \in 0 .. h - 1
                        /\ envParent[h] # 0 => /\ env[envParent[h]] = envParent[h]
                                               /\ kind'[envParent[h]] # "ScriptObject"
                        /\ kind[h] \in {"Client", "GridFS"} => env[h] = h
                        /\ kind[h] = "Client" => envParent[h] = 0
                        /\ kind[h] = "GridFS" =>
                             envParent[h] # 0 /\ kind'[envParent[h]] = "Client"
      BY <1>1, <2>2, <2>3, <2>4, <2>5 DEF Environments
    <3>1. env[h] \in Created /\ (envParent[h] # 0 => envParent[h] \in Created)
      BY <1>1, HandlesAssumption DEF Environments, TypeOK, Created
    <3> QED BY <1>1, <2>4, <3>1 DEF Environments
  <2>11. Covered'
    <3> SUFFICES ASSUME NEW h \in Created, NEW n \in needs[h]
                 PROVE  /\ n \in 1 .. h - 1
                        /\ kind'[n] \in {"Client", "GridFS"}
                        /\ n \in UNION {EnvHandles(e) : e \in EnvHandles(env[h])}
      BY <2>2, <2>5, <2>6 DEF Covered, EnvHandles
    <3>1. n \in Created
      BY <1>1, HandlesAssumption DEF Covered, TypeOK, Created
    <3> QED BY <1>1, <2>4, <3>1 DEF Covered
  <2>12. Together'
    BY <1>1, <2>2, <2>5, <2>6 DEF IInv, Together
  <2> QED BY <1>4, <2>7, <2>8, <2>9, <2>10, <2>11, <2>12 DEF IInv, NewScriptObject
<1> QED BY <1>3, <1>4

LEMMA EndFinalizerKeepsInvariant ==
  ASSUME IInv, EndFinalizer PROVE IInv'
<1>1. UNCHANGED <<objects, typed, native, roots, finobj, cycle, phase>>
      /\ running # 0 /\ running' = 0
  BY DEF EndFinalizer
<1>2. TypeOK'
  BY <1>1, HandlesAssumption DEF IInv, TypeOK, objects
<1>3. Fresh'
  BY <1>1, HandlesAssumption DEF IInv, Fresh, Created, Handle, objects
<1>4. Owned' /\ Environments' /\ Covered'
  BY <1>1 DEF IInv, Owned, Environments, Covered, EnvHandles, Created, Pending,
              IsReference, GetHandleMode, objects
<1>5. Together'
  BY <1>1 DEF IInv, Together, Created, objects
<1> QED BY <1>1, <1>2, <1>3, <1>4, <1>5 DEF IInv, Ordered

-----------------------------------------------------------------------------
(* The invariant, and what follows from it *)

(* Every method that wraps an object does so as Legal says. *)
Wraps(k, mode, p) ==
  \E obj, deps : Legal(k, obj, mode, p, deps) /\ PushHandle(k, obj, mode, p, deps)

LEMMA StepCases ==
  ASSUME [Next]_vars
  PROVE  \/ \E k \in OwnedKind, mode \in {-1, 0, 1}, p \in 0 .. MaxHandles :
              Wraps(k, mode, p)
         \/ \E x \in Handle : Drop(x) \/ NewScriptObject(x) \/ ReadField(x)
         \/ \E x \in Handle : Finalize(x)
         \/ Collect \/ EndFinalizer \/ Close \/ UNCHANGED vars
<1>1. ASSUME NewClient \/ NewReadPrefs PROVE \E k \in {"Client", "ReadPrefs"} : Wraps(k, 0, 0)
  BY <1>1 DEF NewClient, NewReadPrefs, Wraps, Legal
<1>2. ASSUME NEW h \in Handle,
             \/ GetDatabase(h) \/ GetCollection(h) \/ GetGridFSCollection(h)
             \/ OpenCursor(h) \/ CreateBulkOperation(h) \/ GetGridFS(h)
             \/ GetGridFSFile(h) \/ FindGridFSFiles(h)
      PROVE  \E k \in OwnedKind, mode \in {-1, 0, 1} : Wraps(k, mode, h)
  <2>1. /\ ClientOf(h) \subseteq needs[h] \cup {h}
        /\ GridFSOf(h) \subseteq needs[h] \cup {h}
        /\ \A n \in ClientOf(h) \cup GridFSOf(h) : kind[n] \in {"Client", "GridFS"}
    BY DEF ClientOf, GridFSOf, SameOrNeeded
  <2>2. ASSUME GetDatabase(h) PROVE Wraps("Database", -1, h)
    BY <2>1, <2>2 DEF GetDatabase, Receives, Wraps, Legal, OwnedKind
  <2>3. ASSUME GetCollection(h) PROVE Wraps("Collection", -1, h)
    BY <2>1, <2>3 DEF GetCollection, Receives, Wraps, Legal, OwnedKind
  <2>4. ASSUME GetGridFSCollection(h) PROVE Wraps("Collection", 1, h)
    BY <2>1, <2>4 DEF GetGridFSCollection, Receives, Wraps, Legal, OwnedKind
  <2>5. ASSUME OpenCursor(h) PROVE Wraps("Cursor", -1, h)
    BY <2>1, <2>5 DEF OpenCursor, Receives, Wraps, Legal, OwnedKind
  <2>6. ASSUME CreateBulkOperation(h) PROVE Wraps("BulkOperation", -1, h)
    BY <2>1, <2>6 DEF CreateBulkOperation, Receives, Wraps, Legal, OwnedKind
  <2>7. ASSUME GetGridFS(h) PROVE Wraps("GridFS", 0, h)
    BY <2>1, <2>7 DEF GetGridFS, Receives, Wraps, Legal, OwnedKind
  <2>8. ASSUME GetGridFSFile(h) PROVE Wraps("GridFSFile", -1, h)
    BY <2>1, <2>8 DEF GetGridFSFile, Receives, Wraps, Legal, OwnedKind
  <2>9. ASSUME FindGridFSFiles(h) PROVE Wraps("GridFSFileList", -1, h)
    BY <2>1, <2>9 DEF FindGridFSFiles, Receives, Wraps, Legal, OwnedKind
  <2> QED BY <1>2, <2>2, <2>3, <2>4, <2>5, <2>6, <2>7, <2>8, <2>9 DEF OwnedKind
<1>3. {"Client", "ReadPrefs"} \subseteq OwnedKind /\ 0 \in 0 .. MaxHandles
      /\ Handle \subseteq 0 .. MaxHandles
  BY HandlesAssumption DEF OwnedKind, Handle
<1> QED BY <1>1, <1>2, <1>3 DEF Next, OnHandle

LEMMA NextKeepsInvariant ==
  ASSUME IInv, [Next]_vars PROVE IInv'
<1>1. ASSUME NEW k \in OwnedKind, NEW mode \in {-1, 0, 1}, NEW p \in 0 .. MaxHandles,
             Wraps(k, mode, p)
      PROVE  IInv'
  BY <1>1, PushKeepsInvariant DEF Wraps
<1>2. CASE UNCHANGED vars
  BY <1>2 DEF vars, IInv, TypeOK, Fresh, Owned, Environments, Covered, Together, Ordered,
              Created, Pending, IsReference, GetHandleMode, EnvHandles
<1> QED BY <1>1, <1>2, StepCases, ScriptKeepsInvariant, FinalizeKeepsInvariant,
           CollectKeepsInvariant, EndFinalizerKeepsInvariant, CloseKeepsInvariant

(* IInv is an invariant: the environments cover what the objects point to, and
   the collector's lists agree with the objects and the metatables. *)
THEOREM Invariance == Spec => []IInv
<1>1. Init => IInv
  BY InitInvariant
<1>2. IInv /\ [Next]_vars => IInv'
  BY NextKeepsInvariant
<1> QED BY <1>1, <1>2, PTL DEF Spec

(* The type invariant is the first part of IInv. *)
THEOREM Typing == Spec => []TypeOK
<1>1. IInv => TypeOK
  BY DEF IInv
<1> QED BY <1>1, Invariance, PTL

(* What a handle on which nothing was separated finds alive (pushHandle): its
   object, or the GridFS it belongs to, and all that it points to. *)
LEMMA NotSeparatedIsSafe ==
  ASSUME IInv, NEW h \in Created \cap finobj, h \in typed, kind[h] # "ScriptObject",
         needs[h] \subseteq finobj
  PROVE  Alive(h) /\ \A n \in needs[h] : native[n] = "live"
<1>1. ASSUME NEW n \in needs[h] PROVE native[n] = "live"
  <2>1. n \in finobj /\ n \in Created /\ kind[n] \in {"Client", "GridFS"}
    BY HandlesAssumption DEF IInv, Covered, TypeOK, Created
  <2> QED BY <2>1 DEF IInv, Owned, IsReference
<1>2. native[h] \in {"live", "borrowed"}
  BY DEF IInv, Owned
<1> QED BY <1>1, <1>2 DEF Alive

(* Whatever the finalizers of the script do, a handle that owns its object is
   refused once the object is destroyed (unsetType); and one that was neither
   separated nor made of one that points to a separated object is safe. *)
THEOREM Resurrection == Spec => []UnsafeOnlyIfResurrected
<1>1. IInv => UnsafeOnlyIfResurrected
  <2> SUFFICES ASSUME IInv, NEW h \in roots \cap typed, kind[h] # "ScriptObject"
               PROVE  /\ native[h] \in {"live", "borrowed"}
                      /\ h \in finobj \ belated =>
                           Alive(h) /\ \A n \in needs[h] : native[n] = "live"
    BY DEF UnsafeOnlyIfResurrected, Callable
  <2>1. h \in Created
    BY DEF IInv, TypeOK, Fresh
  <2>2. native[h] \in {"live", "borrowed"}
    BY <2>1 DEF IInv, Owned
  <2>3. ASSUME h \in finobj, h \notin belated
        PROVE  Alive(h) /\ \A n \in needs[h] : native[n] = "live"
    BY <2>1, <2>3, NotSeparatedIsSafe DEF IInv, Together
  <2> QED BY <2>2, <2>3
<1> QED BY <1>1, Invariance, PTL

(* No object is destroyed twice or without being ours (getHandleMode). *)
THEOREM SingleDestruction == Spec => []DestroyedAtMostOnce
<1>1. IInv => DestroyedAtMostOnce
  <2> SUFFICES ASSUME IInv, NEW h \in Handle PROVE native[h] # "twice"
    BY DEF DestroyedAtMostOnce
  <2>1. CASE h \in Created
    BY <2>1 DEF IInv, Owned
  <2>2. CASE h \notin Created
    BY <2>2 DEF IInv, Fresh
  <2> QED BY <2>1, <2>2
<1> QED BY <1>1, Invariance, PTL

(* If no finalizer runs script code, a method that accepts a handle finds alive
   its object and all that it points to. *)
THEOREM CallSafety ==
  ASSUME ~ScriptObjects PROVE Spec => []CallableIsSafe
<1>1. IInv => CallableIsSafe
  <2> SUFFICES ASSUME IInv, NEW h \in roots \cap typed, ScriptRuns,
                      kind[h] # "ScriptObject"
               PROVE  Alive(h) /\ \A n \in needs[h] : native[n] = "live"
    BY DEF CallableIsSafe, Callable
  <2>1. h \in Created /\ h \in finobj
    BY DEF IInv, TypeOK, Fresh, Ordered, ScriptRuns
  <2>2. needs[h] \subseteq finobj
    BY <2>1 DEF IInv, Ordered
  <2> QED BY <2>1, <2>2, NotSeparatedIsSafe
<1> QED BY <1>1, Invariance, PTL

(* If no finalizer runs script code, lua_close leaves nothing behind. *)
THEOREM Completeness ==
  ASSUME ~ScriptObjects PROVE Spec => []NoLeakAtClose
<1>1. IInv => NoLeakAtClose
  BY DEF IInv, NoLeakAtClose, Ordered, Fresh
<1> QED BY <1>1, Invariance, PTL

(* If no finalizer runs script code, no live object ever points to an object
   that was destroyed: needs of a live object are live (pushHandle, GCTM). *)
THEOREM NoDangling ==
  ASSUME ~ScriptObjects PROVE Spec => []NoDanglingPointer
<1>1. IInv => NoDanglingPointer
  <2> SUFFICES ASSUME IInv, NEW o \in Driver!Live, NEW n \in OwnNeeds[o]
               PROVE  n \in Driver!Live
    BY DEF NoDanglingPointer, Driver!NoDanglingPointer
  <2>1. TypeOK /\ Fresh /\ Owned /\ Covered /\ Ordered
    BY DEF IInv
  <2>2. o \in Handle /\ native[o] = "live" /\ n \in needs[o]
    BY <2>1 DEF Driver!Live, OwnNative, OwnNeeds, TypeOK
  <2>3. o \in Created
    BY <2>1, <2>2 DEF Fresh
  <2>4. n \in Handle /\ n \in Created /\ kind[n] \in {"Client", "GridFS"}
    BY <2>1, <2>2, <2>3, HandlesAssumption DEF Covered, Created, Handle, TypeOK
  <2>5. n \in finobj \cup Pending
    BY <2>1, <2>2, <2>3 DEF Ordered
  <2>6. native[n] = "live"
    BY <2>1, <2>4, <2>5 DEF Owned, IsReference
  <2> QED BY <2>4, <2>6 DEF Driver!Live, OwnNative
<1> QED BY <1>1, Invariance, PTL

-----------------------------------------------------------------------------
(* Refinement *)

LEMMA PushImplementsAcquire ==
  ASSUME ~ScriptObjects, IInv,
         NEW k \in OwnedKind, NEW mode \in {-1, 0, 1}, NEW p \in 0 .. MaxHandles,
         NEW obj, NEW deps, NEW new, new = count + 1,
         Legal(k, obj, mode, p, deps), PushHandle(k, obj, mode, p, deps)
  PROVE  [Driver!Next]_(Driver!vars)
<1>1. TypeOK /\ Fresh /\ Owned /\ Covered /\ Ordered
  BY DEF IInv
<1>2. new \in Handle /\ new \notin Created
  BY <1>1, CreatedGrows DEF PushHandle
<1>3. native[new] = "absent" /\ needs[new] = {}
  BY <1>1, <1>2 DEF Fresh
<1>4. native' = [native EXCEPT ![new] = obj] /\ needs' = [needs EXCEPT ![new] = deps]
  BY DEF PushHandle
<1>5. CASE obj = "borrowed"
  <2>1. OwnNative' = OwnNative
    BY <1>1, <1>2, <1>3, <1>4, <1>5 DEF OwnNative, TypeOK
  <2>2. OwnNeeds' = OwnNeeds
    BY <1>1, <1>2, <1>3, <1>4, <1>5 DEF OwnNeeds, TypeOK
  <2> QED BY <2>1, <2>2 DEF Driver!vars
<1>6. CASE obj = "live"
  <2>1. OwnNative' = [OwnNative EXCEPT ![new] = "live"] /\ OwnNative[new] = "absent"
    BY <1>1, <1>2, <1>3, <1>4, <1>6 DEF OwnNative, TypeOK
  <2>2. OwnNeeds' = [OwnNeeds EXCEPT ![new] = deps]
    BY <1>1, <1>2, <1>3, <1>4, <1>6 DEF OwnNeeds, TypeOK
  <2>3. deps \subseteq Driver!Live
    <3> SUFFICES ASSUME NEW n \in deps PROVE n \in Driver!Live
      OBVIOUS
    <3>1. p \in finobj /\ p \in Created /\ n \in needs[p] \cup {p} /\ kind[n] \in {"Client", "GridFS"}
      BY <1>1 DEF Legal, ScriptRuns, Ordered, Fresh, TypeOK
    <3>2. n \in finobj /\ n \in Created /\ n \in Handle
      BY <1>1, <3>1, HandlesAssumption DEF Ordered, Covered, Created, TypeOK
    <3>3. native[n] = "live"
      BY <1>1, <3>1, <3>2 DEF Owned, IsReference
    <3> QED BY <3>2, <3>3 DEF Driver!Live, OwnNative
  <2>4. Driver!Acquire(new, deps)
    BY <2>1, <2>2, <2>3 DEF Driver!Acquire
  <2> QED BY <1>2, <2>3, <2>4 DEF Driver!Next, Driver!Live
<1> QED BY <1>5, <1>6 DEF Legal

LEMMA FinalizeImplementsRelease ==
  ASSUME ~ScriptObjects, IInv, NEW x \in Handle, Finalize(x)
  PROVE  [Driver!Next]_(Driver!vars)
<1>1. TypeOK /\ Fresh /\ Owned /\ Covered /\ Ordered
  BY DEF IInv
<1>2. x \in Pending /\ x \in Created /\ x \notin finobj /\ kind[x] # "ScriptObject"
  BY <1>1 DEF Finalize, Fresh, Owned, Pending, Ordered
<1>3. needs' = needs
  BY DEF Finalize, objects
<1>4. CASE IsReference(x)
  <2>1. native' = native
    BY <1>2, <1>4 DEF Finalize, GcMetamethod, IsReference
  <2> QED BY <1>3, <2>1 DEF Driver!vars, OwnNative, OwnNeeds
<1>5. CASE ~IsReference(x)
  <2>1. native[x] = "live"
    BY <1>1, <1>2, <1>5 DEF Owned
  <2>2. native' = [native EXCEPT ![x] = "dead"]
    BY <1>2, <1>5, <2>1 DEF Finalize, GcMetamethod, IsReference, Destroyed
  <2>3. OwnNative' = [OwnNative EXCEPT ![x] = "dead"] /\ OwnNative[x] = "live"
    BY <1>1, <2>1, <2>2 DEF OwnNative, TypeOK
  <2>4. OwnNeeds' = OwnNeeds
    BY <1>1, <1>3, <2>1, <2>2 DEF OwnNeeds, TypeOK
  <2>5. \A d \in Driver!Live : x \notin OwnNeeds[d]
    <3> SUFFICES ASSUME NEW d \in Driver!Live, x \in needs[d] PROVE FALSE
      BY <1>1 DEF OwnNeeds, Driver!Live, TypeOK
    <3>1. d \in Handle /\ native[d] = "live"
      BY DEF Driver!Live, OwnNative
    <3>2. d \in Created
      BY <1>1, <3>1 DEF Fresh
    <3>3. d \in Pending /\ x < d /\ cycle[d] <= cycle[x]
      BY <1>1, <1>2, <3>1, <3>2, HandlesAssumption DEF Ordered, Covered, Handle
    <3>4. cycle[x] < cycle[d] \/ (cycle[x] = cycle[d] /\ d < x)
      BY <3>1, <3>3, HandlesAssumption DEF Finalize, IsNext, Handle
    <3>5. cycle[x] \in Nat /\ cycle[d] \in Nat /\ x \in Nat /\ d \in Nat
      BY <1>1, <3>1, HandlesAssumption DEF TypeOK, Handle
    <3> QED BY <3>3, <3>4, <3>5
  <2>6. Driver!Release(x)
    BY <2>3, <2>4, <2>5 DEF Driver!Release
  <2> QED BY <2>6 DEF Driver!Next
<1> QED BY <1>4, <1>5

LEMMA StepImplementsDriver ==
  ASSUME ~ScriptObjects, IInv, [Next]_vars
  PROVE  [Driver!Next]_(Driver!vars)
<1>1. ASSUME NEW k \in OwnedKind, NEW mode \in {-1, 0, 1}, NEW p \in 0 .. MaxHandles,
             Wraps(k, mode, p)
      PROVE  [Driver!Next]_(Driver!vars)
  <2>1. PICK new : new = count + 1
    OBVIOUS
  <2> QED BY <1>1, <2>1, PushImplementsAcquire DEF Wraps
<1>2. ASSUME NEW x \in Handle, Drop(x) \/ NewScriptObject(x) \/ ReadField(x)
      PROVE  UNCHANGED <<native, needs>>
  BY <1>2 DEF Drop, NewScriptObject, ReadField, objects
<1>3. ASSUME Collect \/ EndFinalizer \/ Close \/ UNCHANGED vars
      PROVE  UNCHANGED <<native, needs>>
  BY <1>3 DEF Collect, CollectWith, EndFinalizer, Close, vars, objects
<1>4. UNCHANGED <<native, needs>> => UNCHANGED Driver!vars
  BY DEF Driver!vars, OwnNative, OwnNeeds
<1> QED BY <1>1, <1>2, <1>3, <1>4, StepCases, FinalizeImplementsRelease

(* If no finalizer runs script code, the handles implement the protocol the
   driver asks for: every step opens one object on live ones, or destroys one
   to which no live object points, or is invisible to the driver. *)
THEOREM Refinement ==
  ASSUME ~ScriptObjects PROVE Spec => DriverProtocol
<1>1. Init => Driver!Init
  BY DEF Init, Driver!Init, OwnNative, OwnNeeds
<1>2. IInv /\ [Next]_vars => [Driver!Next]_(Driver!vars)
  BY StepImplementsDriver
<1> QED BY <1>1, <1>2, Invariance, PTL DEF Spec, DriverProtocol, Driver!Spec
=============================================================================
