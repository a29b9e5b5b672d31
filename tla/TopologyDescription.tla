------------------------- MODULE TopologyDescription -------------------------
(***************************************************************************)
(* What the driver believes of a deployment, and what a hello of a server  *)
(* changes in it: mongoc-topology-description.c and the types of           *)
(* mongoc-server-description.c.  A description is a record                 *)
(*                                                                         *)
(*   type     the type of the topology                                     *)
(*   name     set_name, None until a member reports one                    *)
(*   servers  the servers by address: [id, type, hello, sv, eid, tv]       *)
(*   maxSv    max_set_version, maxEid  max_election_id, 0 for none         *)
(*   lastId   max_server_id                                                *)
(*                                                                         *)
(* and the operators map a description to the next one.  Of a server that  *)
(* was checked the description keeps the type, whether there was a reply   *)
(* (has_hello_response), setVersion, electionId and the counter of         *)
(* topologyVersion; the rest of the reply is used once, when it arrives.   *)
(***************************************************************************)
EXTENDS Naturals, Sequences, FiniteSets

CONSTANTS
  Addr,   \* addresses, as in the URI and in the hosts of a hello
  SetName \* names of replica sets

None == "none"

ServerType == {"Unknown", "Standalone", "Mongos", "PossiblePrimary", "RSPrimary",
               "RSSecondary", "RSArbiter", "RSOther", "RSGhost"}
Mode == {"write", "primary", "primaryPreferred", "secondaryPreferred", "secondary", "nearest"}
TopologyType == {"Unknown", "Sharded", "RSNoPrimary", "RSWithPrimary", "Single"}

(* A reply to hello: the fields the driver reads.  hosts has arbiters and passives too. *)
HelloReply ==
  [ok : BOOLEAN, mongos : BOOLEAN, ghost : BOOLEAN, set : SetName \cup {None},
   role : {"hidden", "primary", "secondary", "arbiter", "other"},
   sv : Nat, eid : Nat, hosts : Seq(Addr), me : Addr \cup {None},
   primary : Addr \cup {None}, tv : Nat]

(* The result of a check that failed. *)
NoReply == [ok |-> FALSE, mongos |-> FALSE, ghost |-> FALSE, set |-> None, role |-> "other",
            sv |-> 0, eid |-> 0, hosts |-> <<>>, me |-> None, primary |-> None, tv |-> 0]

Typed(h) ==
  IF ~h.ok THEN "Unknown"
  ELSE IF h.mongos THEN "Mongos"
  ELSE IF h.set # None
       THEN CASE h.role = "primary" -> "RSPrimary"
              [] h.role = "secondary" -> "RSSecondary"
              [] h.role = "arbiter" -> "RSArbiter"
              [] OTHER -> "RSOther"
  ELSE IF h.ghost THEN "RSGhost"
  ELSE "Standalone"

Blank(id) == [id |-> id, type |-> "Unknown", hello |-> FALSE, sv |-> 0, eid |-> 0, tv |-> 0]
Reset(sd) == [Blank(sd.id) EXCEPT !.tv = sd.tv]
ServerHello(sd, h) ==
  [id |-> sd.id, type |-> Typed(h), hello |-> TRUE, sv |-> h.sv, eid |-> h.eid, tv |-> h.tv]
------------------------------------------------------------------------------
Servers(t) == DOMAIN t.servers
IsKnown(t, id) == \E a \in Servers(t) : t.servers[a].id = id
AddressOf(t, id) == CHOOSE a \in Servers(t) : t.servers[a].id = id
TypeAt(t, a) == t.servers[a].type
Primaries(t) == {a \in Servers(t) : TypeAt(t, a) = "RSPrimary"}
HasPrimary(t) == \E a \in Servers(t) : TypeAt(t, a) \in {"RSPrimary", "Standalone"}

UpdateRsType(t) ==
  [t EXCEPT !.type = IF HasPrimary(t) THEN "RSWithPrimary" ELSE "RSNoPrimary"]

RemoveServers(t, gone) ==
  [t EXCEPT !.servers = [a \in Servers(t) \ gone |-> t.servers[a]]]

(* New servers get fresh ids in the order of hosts, which has no address twice. *)
AddNewServers(t, hosts) ==
  LET new == {i \in DOMAIN hosts : hosts[i] \notin Servers(t)}
      id(a) == t.lastId + Cardinality({j \in new : j <= CHOOSE i \in new : hosts[i] = a})
  IN [t EXCEPT !.servers = [a \in Servers(t) \cup {hosts[i] : i \in new} |->
                              IF a \in Servers(t) THEN t.servers[a] ELSE Blank(id(a))],
               !.lastId = @ + Cardinality(new)]

LabelPossiblePrimary(t, a) ==
  IF a \in Servers(t) /\ TypeAt(t, a) = "Unknown"
  THEN [t EXCEPT !.servers[a].type = "PossiblePrimary"] ELSE t

Named(t, h) == IF t.name = None /\ h.set # None THEN [t EXCEPT !.name = h.set] ELSE t
(* Mutant: the set is not compared. *)
AnySet(t, h) == FALSE
WrongSet(t, h) == t.name # None /\ h.set # None /\ t.name # h.set
MatchesMe(a, h) == h.me \in {None, a}

(* Mutant: elections are compared only within a config. *)
LaterInConfig(t, h) == t.maxSv > h.sv
LaterElection(t, h) == t.maxSv > h.sv \/ (t.maxSv = h.sv /\ t.maxEid > h.eid)
Elected(t, h) ==
  [t EXCEPT !.maxEid = IF h.sv # 0 /\ h.eid # 0 THEN h.eid ELSE @,
            !.maxSv = IF h.sv > @ THEN h.sv ELSE @]

(* Mutant: the other primary stays. *)
KeepPrimaries(t, a) == t
InvalidatePrimaries(t, a) ==
  [t EXCEPT !.servers = [b \in Servers(t) |->
     IF b # a /\ TypeAt(t, b) = "RSPrimary" THEN Reset(t.servers[b]) ELSE t.servers[b]]]

(* A check of the server failed, or an operation on it did. *)
Invalidate(t, a) ==
  LET reset == [t EXCEPT !.servers[a] = Reset(@)]
  IN IF t.type = "RSWithPrimary" THEN UpdateRsType(reset) ELSE reset

UpdateRsFromPrimary(t, a, h) ==
  LET named == Named(t, h)
      added == AddNewServers(InvalidatePrimaries(Elected(named, h), a), h.hosts)
  IN IF WrongSet(t, h) THEN UpdateRsType(RemoveServers(t, {a}))
     ELSE IF h.sv # 0 /\ h.eid # 0 /\ LaterElection(t, h)
          THEN UpdateRsType(Invalidate(named, a))
     ELSE UpdateRsType(RemoveServers(added,
            {b \in Servers(added) : \A i \in DOMAIN h.hosts : h.hosts[i] # b}))

UpdateRsWithoutPrimary(t, a, h) ==
  LET added == AddNewServers(Named(t, h), h.hosts)
      labelled == IF h.primary = None THEN added ELSE LabelPossiblePrimary(added, h.primary)
  IN IF WrongSet(t, h) THEN RemoveServers(t, {a})
     ELSE IF MatchesMe(a, h) THEN labelled ELSE RemoveServers(labelled, {a})

UpdateRsWithPrimaryFromMember(t, a, h) ==
  IF t.name # h.set THEN UpdateRsType(RemoveServers(t, {a}))
  ELSE IF ~MatchesMe(a, h) THEN RemoveServers(t, {a})
  ELSE IF ~HasPrimary(t) /\ h.primary # None
       THEN LabelPossiblePrimary([t EXCEPT !.type = "RSNoPrimary"], h.primary)
  ELSE t

UpdateUnknownWithStandalone(t, a) ==
  IF Servers(t) = {a} THEN [t EXCEPT !.type = "Single"] ELSE RemoveServers(t, {a})

Member == {"RSSecondary", "RSArbiter", "RSOther"}

(* gSDAMTransitionTable: rows are the type of the server, columns that of the topology. *)
Transition(t, a, h) ==
  LET s == TypeAt(t, a)
      removeAndCheck == UpdateRsType(RemoveServers(t, {a}))
  IN CASE t.type = "Unknown" ->
            CASE s = "Standalone" -> UpdateUnknownWithStandalone(t, a)
              [] s = "Mongos" -> [t EXCEPT !.type = "Sharded"]
              [] s = "RSPrimary" -> UpdateRsFromPrimary(t, a, h)
              [] s \in Member -> UpdateRsWithoutPrimary([t EXCEPT !.type = "RSNoPrimary"], a, h)
              [] OTHER -> t
       [] t.type = "Sharded" ->
            IF s \in {"Standalone", "RSPrimary", "RSGhost"} \cup Member
            THEN RemoveServers(t, {a}) ELSE t
       [] t.type = "RSNoPrimary" ->
            CASE s \in {"Standalone", "Mongos"} -> RemoveServers(t, {a})
              [] s = "RSPrimary" -> UpdateRsFromPrimary(t, a, h)
              [] s \in Member -> UpdateRsWithoutPrimary(t, a, h)
              [] OTHER -> t
       [] t.type = "RSWithPrimary" ->
            CASE s \in {"Unknown", "RSGhost"} -> UpdateRsType(t)
              [] s \in {"Standalone", "Mongos"} -> removeAndCheck
              [] s = "RSPrimary" -> UpdateRsFromPrimary(t, a, h)
              [] s \in Member -> UpdateRsWithPrimaryFromMember(t, a, h)
              [] OTHER -> t
       [] OTHER -> t

(* mongoc_topology_description_handle_hello with a reply; Fail without one. *)
HandleHello(t, id, h) ==
  LET a == AddressOf(t, id)
      told == [t EXCEPT !.servers[a] = ServerHello(@, h)]
      wrong == t.type = "Single" /\ t.name # None /\ t.name # h.set
  IN IF ~IsKnown(t, id) THEN t
     ELSE IF h.tv # 0 /\ t.servers[a].tv > h.tv THEN t
     ELSE IF wrong THEN Invalidate(told, a)
     ELSE Transition(told, a, h)

Fail(t, id) == IF IsKnown(t, id) THEN Invalidate(t, AddressOf(t, id)) ELSE t
------------------------------------------------------------------------------
First(t, S) == {a \in S : \A b \in S : t.servers[a].id <= t.servers[b].id}
OfType(t, types) == {a \in Servers(t) : TypeAt(t, a) \in types}

(* The servers that selection may choose from for a write or a read mode.  Tags,
   staleness and the latency window choose among the servers of a type. *)
Suitable(t, mode) ==
  CASE t.type = "Single" -> {a \in First(t, Servers(t)) : t.servers[a].hello}
    [] t.type = "Sharded" -> OfType(t, {"Mongos"})
    [] t.type = "RSWithPrimary" /\ mode = "write" ->
         First(t, OfType(t, {"RSPrimary", "Standalone"}))
    [] t.type \in {"RSNoPrimary", "RSWithPrimary"} ->
         CASE mode = "primary" -> Primaries(t)
           [] mode = "primaryPreferred" ->
                IF Primaries(t) # {} THEN Primaries(t) ELSE OfType(t, {"RSSecondary"})
           [] mode = "secondaryPreferred" ->
                IF OfType(t, {"RSSecondary"}) # {} THEN OfType(t, {"RSSecondary"}) ELSE Primaries(t)
           [] mode = "secondary" -> OfType(t, {"RSSecondary"})
           [] mode = "nearest" -> OfType(t, {"RSPrimary", "RSSecondary"})
           [] OTHER -> {}
    [] OTHER -> {}
==============================================================================
