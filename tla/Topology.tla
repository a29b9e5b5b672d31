------------------------------ MODULE Topology -------------------------------
(***************************************************************************)
(* How a client finds its servers: the scanner that checks them            *)
(* (mongoc-topology-scanner.c), the callbacks that keep the description    *)
(* (mongoc-topology.c, TopologyDescription), the selection of a server and *)
(* the stream to it (mongoc-cluster.c).  A client of vklib is              *)
(* single-threaded: servers are checked only inside of a call.             *)
(*                                                                         *)
(* A deployment lives on meanwhile: a replica set elects primaries, one of *)
(* which may still believe in its term after the next is elected, and      *)
(* changes its members.  Replies to hello are processed in any order, long *)
(* after they were written; checks and operations fail up to dep.faults    *)
(* times.                                                                  *)
(*                                                                         *)
(* Assumed: serverSelectionTryOnce is not changed, names of hosts resolve, *)
(* no authentication, and servers report topologyVersion.  Of the set: a   *)
(* config is installed in one step by a majority, and no server restarts   *)
(* or shuts down (so that the processId of topologyVersion stays, and no   *)
(* error is one that says "shutting down" and clears the pool).            *)
(***************************************************************************)
EXTENDS TopologyDescription

CONSTANT Deployments \* what the client may be started on, with the bounds of the environment

(* The servers: the one behind an address (an alias names another address) and what it is;
   the lists of members of the set, one per version; the names of the set and of another.
   The URI: seeds, replicaSet, directConnection.  The script: the modes of its calls.
   The bounds: the last term of the set (the first is 1), and failures of a check or of an operation. *)
Deployment ==
  [at : [Addr -> Addr], kind : [Addr -> {"member", "stranger", "mongos", "standalone", "broken"}],
   configs : Seq(Seq(Addr)), set : SetName, other : SetName,
   seeds : Seq(Addr), name : SetName \cup {None}, direct : {"yes", "no", "unset"},
   modes : SUBSET Mode, terms : Nat \ {0}, faults : Nat]

(* A URI has no host twice, and only one with directConnection. *)
ASSUME TopologyAssumption ==
  /\ None \notin Addr \cup SetName
  /\ Deployments \subseteq Deployment
  /\ \A d \in Deployments :
       /\ \A i, j \in DOMAIN d.seeds : d.seeds[i] = d.seeds[j] => i = j
       /\ d.direct = "yes" => Len(d.seeds) = 1

VARIABLES
  dep,    \* the deployment
  mem,    \* its members: [term, primary, ver, tv], ver = 0 before one has a config
  td,     \* the topology description
  nodes,  \* the nodes of the scanner: [id, addr, retired, cooling, error, stream, shaken, cmd, reply]
          \* shaken: the reply in handshake_sd, "no" for NULL
  stale,  \* topology->stale
  pc,     \* the next step of the call, "idle" between calls
  op,     \* the call: [mode, id, tried, again, cleared, error, result]
  faults  \* failures so far

vars == <<dep, mem, td, nodes, stale, pc, op, faults>>
client == <<td, nodes, stale, pc, op>>
------------------------------------------------------------------------------
(* The servers *)

SetOf(v) == IF v = 0 THEN {} ELSE {dep.configs[v][i] : i \in DOMAIN dep.configs[v]}
InSet(a) == a \in SetOf(mem[a].ver)
Majority(v) == {Q \in SUBSET SetOf(v) : 2 * Cardinality(Q) > Cardinality(SetOf(v))}
LastTerm == CHOOSE n \in 0..dep.terms : /\ \E a \in Addr : mem[a].term = n
                                      /\ \A a \in Addr : mem[a].term <= n

(* The primary a member knows of is the one of its term. *)
KnownPrimary(a) ==
  LET same == {p \in Addr : mem[p].primary /\ mem[p].term = mem[a].term}
  IN IF same = {} THEN None ELSE CHOOSE p \in same : TRUE

Hello(addr) ==
  LET a == dep.at[addr]
      plain == [NoReply EXCEPT !.ok = TRUE]
  IN CASE dep.kind[a] = "standalone" -> plain
       [] dep.kind[a] = "mongos" -> [plain EXCEPT !.mongos = TRUE]
       [] dep.kind[a] = "broken" -> NoReply
       [] dep.kind[a] = "stranger" ->
            [plain EXCEPT !.set = dep.other, !.role = "primary", !.sv = 1, !.eid = 1,
                          !.hosts = <<a>>, !.me = a, !.primary = a]
       [] dep.kind[a] = "member" /\ ~InSet(a) -> [plain EXCEPT !.ghost = TRUE, !.tv = mem[a].tv]
       [] OTHER ->
            [plain EXCEPT !.set = dep.set, !.role = IF mem[a].primary THEN "primary" ELSE "secondary",
                          !.sv = mem[a].ver, !.eid = IF mem[a].primary THEN mem[a].term ELSE 0,
                          !.hosts = dep.configs[mem[a].ver], !.me = a,
                          !.primary = KnownPrimary(a), !.tv = mem[a].tv]

(* A member that a majority votes for becomes primary; an earlier one that has no vote
   goes on as primary of its own term. *)
Elect(a) ==
  /\ InSet(a) /\ LastTerm < dep.terms
  /\ \E Q \in Majority(mem[a].ver) :
       /\ a \in Q
       /\ \A b \in Q : mem[b].ver <= mem[a].ver
       /\ mem' = [b \in Addr |->
            IF b \in Q THEN [mem[b] EXCEPT !.term = LastTerm + 1, !.primary = (b = a), !.tv = @ + 1]
            ELSE mem[b]]
  /\ UNCHANGED <<dep, faults, client>>

(* A member learns of a later term or config from another; one that is no longer a
   member, or no longer of the last term, is not primary. *)
Learn(a, b) ==
  /\ mem[a].term < mem[b].term \/ mem[a].ver < mem[b].ver
  /\ LET later == IF mem[a].ver < mem[b].ver THEN mem[b].ver ELSE mem[a].ver
     IN mem' = [mem EXCEPT ![a] =
          [term |-> IF @.term < mem[b].term THEN mem[b].term ELSE @.term,
           primary |-> @.primary /\ @.term >= mem[b].term /\ a \in SetOf(later),
           ver |-> later, tv |-> @.tv + 1]]
  /\ UNCHANGED <<dep, faults, client>>

(* A primary whose term is that of a majority installs there the next config, in which it
   must be itself. *)
Reconfigure(a) ==
  /\ mem[a].primary /\ mem[a].ver < Len(dep.configs)
  /\ a \in SetOf(mem[a].ver + 1)
  /\ \E Q \in Majority(mem[a].ver) :
       /\ a \in Q
       /\ \A b \in Q : mem[b].term = mem[a].term
       /\ mem' = [b \in Addr |->
            IF b \in Q THEN [mem[b] EXCEPT !.ver = mem[a].ver + 1, !.tv = @ + 1] ELSE mem[b]]
  /\ UNCHANGED <<dep, faults, client>>
------------------------------------------------------------------------------
(* The scanner *)

NewNode(id, a) == [id |-> id, addr |-> a, retired |-> FALSE, cooling |-> FALSE, error |-> FALSE,
                   stream |-> FALSE, shaken |-> "no", cmd |-> "none", reply |-> NoReply]

(* mongoc_topology_scanner_get_node gives up at the first larger id. *)
GetNode(ns, id) ==
  {i \in DOMAIN ns : ns[i].id = id /\ \A j \in 1..(i - 1) : ns[j].id < id}

(* Mutant: the stream stays where operations find it. *)
SetupInPlace(n) == [n EXCEPT !.cmd = "sent", !.reply = NoReply]
(* mongoc_topology_scanner_node_setup: a hello on the stream there is, or on a new one. *)
Setup(n) == [n EXCEPT !.cmd = "sent", !.stream = FALSE, !.reply = NoReply]
Disconnect(ns, id) ==
  [i \in DOMAIN ns |-> IF i \in GetNode(ns, id) /\ ns[i].stream
                       THEN [ns[i] EXCEPT !.stream = FALSE, !.shaken = "no"] ELSE ns[i]]

(* The elements of a sequence at some indices. *)
Kept(s, I) ==
  LET f[n \in 0..Len(s)] ==
        IF n = 0 THEN <<>> ELSE IF n \in I THEN Append(f[n - 1], s[n]) ELSE f[n - 1]
  IN f[Len(s)]
NotRetired(ns) == Kept(ns, {i \in DOMAIN ns : ~ns[i].retired})

(* mongoc_topology_reconcile: a server gets a node and a hello unless some node has its
   host; nodes of servers that were removed are retired. *)
Reconcile(t, ns) ==
  LET hasNode(id) == \/ GetNode(ns, id) # {}
                     \/ \E i \in DOMAIN ns : ns[i].addr = AddressOf(t, id)
      missing == Kept([i \in 1..t.lastId |-> i], {id \in 1..t.lastId : IsKnown(t, id) /\ ~hasNode(id)})
      all == ns \o [i \in DOMAIN missing |-> NewNode(missing[i], AddressOf(t, missing[i]))]
  IN [i \in DOMAIN all |->
        IF ~IsKnown(t, all[i].id) THEN [all[i] EXCEPT !.retired = TRUE, !.cmd = "none", !.reply = NoReply]
        ELSE IF i > Len(ns) /\ i \in GetNode(all, all[i].id) THEN Setup(all[i])
        ELSE all[i]]

(* mongoc_topology_scan_once, up to the wait for replies *)
StartScan ==
  LET all == NotRetired(Reconcile(td, nodes))
  IN /\ nodes' = [i \in DOMAIN all |->
                    IF all[i].cooling /\ all[i].cmd = "none" THEN all[i] ELSE Setup(all[i])]
     /\ pc' = "scan"
     /\ UNCHANGED <<dep, mem, td, stale, op, faults>>

Answer(i) ==
  /\ i \in DOMAIN nodes /\ nodes[i].cmd = "sent"
  /\ nodes' = [nodes EXCEPT ![i].cmd = "answered", ![i].reply = Hello(nodes[i].addr)]
  /\ UNCHANGED <<dep, mem, td, stale, pc, op, faults>>

(* _async_success and _mongoc_topology_scanner_cb *)
HandleReply(i) ==
  /\ i \in DOMAIN nodes /\ nodes[i].cmd = "answered"
  /\ LET n == nodes[i]
         t == HandleHello(td, n.id, n.reply)
         shaken == IF n.shaken # "no" THEN n.shaken ELSE IF n.reply.ok THEN "yes" ELSE "failed"
     IN /\ td' = t
        /\ nodes' = Reconcile(t, [nodes EXCEPT ![i] =
             [@ EXCEPT !.cmd = "none", !.reply = NoReply, !.stream = TRUE, !.cooling = FALSE,
                       !.shaken = shaken]])
  /\ UNCHANGED <<dep, mem, stale, pc, op, faults>>

(* _async_error_or_timeout and the same callback: a server that was known is
   tried again in the same scan. *)
CheckFails(i) ==
  /\ i \in DOMAIN nodes /\ nodes[i].cmd # "none" /\ faults < dep.faults
  /\ faults' = faults + 1
  /\ LET id == nodes[i].id
         again == IsKnown(td, id) /\ TypeAt(td, AddressOf(td, id)) # "Unknown"
         failed == [nodes EXCEPT ![i] = [@ EXCEPT !.cmd = "none", !.reply = NoReply, !.cooling = TRUE,
                                                  !.error = TRUE, !.shaken = "no"]]
         t == Fail(td, id)
     IN /\ td' = t
        /\ nodes' = IF again
                    THEN [j \in DOMAIN failed |->
                            IF j \in GetNode(failed, id) THEN Setup(failed[j]) ELSE failed[j]]
                    ELSE Reconcile(t, failed)
        /\ op' = [op EXCEPT !.cleared = @ \/ op.id = id]
  /\ UNCHANGED <<dep, mem, stale, pc>>

(* Mutant: only the node of the server that was selected is looked at. *)
ErrorOfSelected == \E i \in GetNode(nodes, op.id) : nodes[i].error /\ ~nodes[i].stream
(* mongoc_topology_scanner_get_error, from the last_error of every node *)
ScannerError == \E i \in DOMAIN nodes : nodes[i].error

FinishScan ==
  /\ pc = "scan" /\ \A i \in DOMAIN nodes : nodes[i].cmd = "none"
  /\ nodes' = NotRetired(nodes)
  /\ stale' = FALSE
  /\ IF op.id = 0 THEN pc' = "select" /\ op' = [op EXCEPT !.tried = TRUE]
     ELSE pc' = "stream" /\ op' = [op EXCEPT !.error = ScannerError]
  /\ UNCHANGED <<dep, mem, td, faults>>

(* Five seconds pass since the check failed. *)
CooldownEnds(i) ==
  /\ i \in DOMAIN nodes /\ nodes[i].cooling /\ pc # "scan"
  /\ nodes' = [nodes EXCEPT ![i].cooling = FALSE]
  /\ UNCHANGED <<dep, mem, td, stale, pc, op, faults>>
------------------------------------------------------------------------------
(* A call: select a server, get a stream to it, run a command. *)

Idle == [mode |-> "none", id |-> 0, tried |-> FALSE, again |-> FALSE, cleared |-> FALSE,
         error |-> FALSE, result |-> "none"]
End(result) == pc' = "idle" /\ op' = [Idle EXCEPT !.mode = op.mode, !.result = result]

(* Selection starts with a scan when the last one is older than a heartbeat. *)
Aged == stale' \in {stale, TRUE}

Begin(mode) ==
  /\ pc = "idle"
  /\ Aged
  /\ pc' = "select" /\ op' = [Idle EXCEPT !.mode = mode]
  /\ UNCHANGED <<dep, mem, td, nodes, faults>>

(* Without any node left the scanner is not valid, and stays so. *)
NoScanner ==
  /\ pc = "select" /\ nodes = <<>> /\ ~op.tried
  /\ End("failed")
  /\ UNCHANGED <<dep, mem, td, nodes, stale, faults>>

ScanToSelect == pc = "select" /\ stale /\ nodes # <<>> /\ StartScan

(* The last scan was just now, and every server failed in it. *)
NoneEligible ==
  /\ pc = "select" /\ stale /\ nodes # <<>>
  /\ \A i \in DOMAIN nodes : nodes[i].cooling
  /\ End("failed")
  /\ UNCHANGED <<dep, mem, td, nodes, stale, faults>>

Select ==
  /\ pc = "select" /\ ~stale
  /\ \E a \in Suitable(td, op.mode) : op' = [op EXCEPT !.id = td.servers[a].id]
  /\ pc' = IF op.again THEN "fetch" ELSE "check"
  /\ UNCHANGED <<dep, mem, td, nodes, stale, faults>>

(* Mutant: no scan is asked for. *)
StaysFresh == UNCHANGED stale
NeedsScan == stale' = TRUE

SelectNone ==
  /\ pc = "select" /\ ~stale /\ Suitable(td, op.mode) = {} /\ (nodes # <<>> \/ op.tried)
  /\ NeedsScan
  /\ IF op.tried THEN End("failed") ELSE UNCHANGED <<pc, op>>
  /\ UNCHANGED <<dep, mem, td, nodes, faults>>

Connected(id) == \E i \in GetNode(nodes, id) : nodes[i].stream
SelectAgain ==
  pc' = "select" /\ op' = [Idle EXCEPT !.mode = op.mode, !.again = TRUE] /\ Aged

(* mongoc_cluster_check_interval: the stream is there and has not been closed *)
Check ==
  /\ pc = "check"
  /\ IF Connected(op.id) THEN pc' = "fetch" /\ UNCHANGED <<op, stale>> ELSE SelectAgain
  /\ UNCHANGED <<dep, mem, td, nodes, faults>>

CheckClosed ==
  /\ pc = "check" /\ Connected(op.id) /\ faults < dep.faults
  /\ faults' = faults + 1
  /\ nodes' = Disconnect(nodes, op.id)
  /\ td' = Fail(td, op.id)
  /\ SelectAgain
  /\ UNCHANGED <<dep, mem>>

(* The error path of _mongoc_cluster_stream_for_server *)
Lose ==
  /\ td' = Fail(td, op.id)
  /\ nodes' = Disconnect(nodes, op.id)
  /\ End("failed")
  /\ UNCHANGED <<dep, mem, stale, faults>>

(* _cluster_fetch_stream_single: the node of the server, connected by a scan if need be.
   The scan fails if any node has an error, and no error is ever removed. *)
Fetch ==
  /\ pc = "fetch"
  /\ \/ /\ \E i \in GetNode(nodes, op.id) :
             ~nodes[i].retired /\ nodes[i].stream /\ nodes[i].shaken = "yes"
        /\ pc' = "run"
        /\ UNCHANGED <<dep, mem, td, nodes, stale, op, faults>>
     \/ /\ \E i \in GetNode(nodes, op.id) : ~nodes[i].retired /\ ~nodes[i].stream
        /\ StartScan
     \/ /\ \A i \in GetNode(nodes, op.id) :
             nodes[i].retired \/ (nodes[i].stream /\ nodes[i].shaken = "failed")
        /\ Lose

FetchScanned ==
  /\ pc = "stream"
  /\ \/ /\ ~op.error
        /\ \E i \in GetNode(nodes, op.id) : nodes[i].stream /\ nodes[i].shaken = "yes"
        /\ pc' = "run"
        /\ UNCHANGED <<dep, mem, td, nodes, stale, op, faults>>
     \/ /\ \/ op.error
           \/ \A i \in GetNode(nodes, op.id) : ~nodes[i].stream \/ nodes[i].shaken = "failed"
        /\ Lose

Peer == Hello(nodes[CHOOSE i \in GetNode(nodes, op.id) : TRUE].addr)
Accepts ==
  \/ Typed(Peer) \in {"RSPrimary", "Mongos", "Standalone"}
  \/ Typed(Peer) = "RSSecondary" /\ (td.type = "Single" \/ op.mode # "primary") /\ op.mode # "write"

RunDone ==
  /\ pc = "run" /\ Accepts
  /\ End("ok")
  /\ UNCHANGED <<dep, mem, td, nodes, stale, faults>>

(* _handle_sdam_app_error_command: the server is not primary, or recovering.  The error
   counts if it is newer than the description and the pool was not cleared since. *)
Counts == /\ IsKnown(td, op.id) /\ ~op.cleared
          /\ td.servers[AddressOf(td, op.id)].tv < Peer.tv
RunRefused ==
  /\ pc = "run" /\ ~Accepts
  /\ IF Counts
     THEN /\ td' = Fail([td EXCEPT !.servers[AddressOf(td, op.id)].tv = Peer.tv], op.id)
          /\ stale' = (stale \/ op.mode = "write" \/ Typed(Peer) # "RSGhost")
     ELSE UNCHANGED <<td, stale>>
  /\ End("refused")
  /\ UNCHANGED <<dep, mem, nodes, faults>>

(* _handle_network_error: a timeout leaves the description as it is *)
RunBreaks ==
  /\ pc = "run" /\ faults < dep.faults
  /\ faults' = faults + 1
  /\ td' \in {td, IF op.cleared THEN td ELSE Fail(td, op.id)}
  /\ nodes' = Disconnect(nodes, op.id)
  /\ End("failed")
  /\ UNCHANGED <<dep, mem, stale>>
------------------------------------------------------------------------------
InitialType(d) ==
  CASE d.direct = "yes" -> "Single"
    [] d.direct # "yes" /\ d.name # None -> "RSNoPrimary"
    [] d.direct = "unset" /\ d.name = None /\ Len(d.seeds) = 1 -> "Single"
    [] OTHER -> "Unknown"

Init ==
  /\ dep \in Deployments
  /\ \E p \in {a \in Addr : dep.kind[a] = "member"} \cup {None} :
       mem = [a \in Addr |->
         LET in == dep.configs # <<>> /\ a \in {dep.configs[1][i] : i \in DOMAIN dep.configs[1]}
         IN [term |-> IF in THEN 1 ELSE 0, primary |-> in /\ a = p, ver |-> IF in THEN 1 ELSE 0,
             tv |-> 1]]
  /\ td = AddNewServers([type |-> InitialType(dep), name |-> dep.name, servers |-> <<>>, maxSv |-> 0,
                         maxEid |-> 0, lastId |-> 0], dep.seeds)
  /\ nodes = [i \in DOMAIN dep.seeds |-> NewNode(i, dep.seeds[i])]
  /\ stale = TRUE
  /\ pc = "idle"
  /\ op = Idle
  /\ faults = 0

SetChanges == \E a \in Addr : Elect(a) \/ Reconfigure(a) \/ \E b \in Addr : Learn(a, b)
Scanner == \/ FinishScan
           \/ \E i \in DOMAIN nodes : Answer(i) \/ HandleReply(i)
Call == NoScanner \/ ScanToSelect \/ NoneEligible \/ Select \/ SelectNone \/ Check \/ Fetch \/ FetchScanned
        \/ RunDone \/ RunRefused
Faults == \/ CheckClosed \/ RunBreaks
          \/ \E i \in DOMAIN nodes : CheckFails(i)

Next == \/ SetChanges \/ Scanner \/ Call \/ Faults
        \/ \E mode \in dep.modes : Begin(mode)
        \/ \E i \in DOMAIN nodes : CooldownEnds(i)

Spec == Init /\ [][Next]_vars

(* The thread runs on and checks are answered or fail, time passes, and a script that
   writes writes again.  The second conjunct is WF_vars(Scanner) with the guard written
   out, which is much faster to evaluate: a step of the scanner is possible in every scan. *)
FairSpec ==
  /\ Spec
  /\ []<>(pc # "scan") \/ []<><<Scanner>>_vars
  /\ WF_vars(Call)
  /\ SF_vars("write" \in dep.modes /\ Begin("write"))
  /\ SF_vars(\E i \in DOMAIN nodes : CooldownEnds(i))
------------------------------------------------------------------------------
(* Properties *)

(* However the replies of two primaries, late ones and failures are mixed, the client
   believes in at most one primary, and the type of the topology says that there is one
   (the transition table and mongoc_topology_description_invalidate_server). *)
OnePrimary ==
  /\ \A a, b \in Primaries(td) : a = b
  /\ Primaries(td) # {} => td.type \in {"RSWithPrimary", "Single"}

(* Once the client has heard of an election it never takes the primary of an earlier one
   for the primary, however late its reply is (update_rs_from_primary).  That takes a set in
   which a later config is of no earlier term, as Reconfigure makes them. *)
NeverBack ==
  [][\A a \in Servers(td') : TypeAt(td', a) = "RSPrimary" /\ dep.kind[dep.at[a]] = "member"
       => td'.servers[a].eid >= td.maxEid]_vars

(* In a topology of a replica set every server that answered is of the set that the
   topology is named after, never of another one or of no set; and while there is a
   primary, the topology has no server that it did not report. *)
OneSet ==
  /\ td.type \in {"RSNoPrimary", "RSWithPrimary"} =>
       \A a \in Servers(td) : TypeAt(td, a) \notin {"Unknown", "PossiblePrimary", "RSGhost"} =>
         \/ dep.kind[dep.at[a]] = "member" /\ td.name = dep.set
         \/ dep.kind[dep.at[a]] = "stranger" /\ td.name = dep.other
  /\ td.type = "RSWithPrimary" => \A a \in Primaries(td) :
       Servers(td) \subseteq
         IF dep.kind[dep.at[a]] = "member" THEN SetOf(td.servers[a].sv) ELSE {dep.at[a]}

(* The assertions of the driver: the node of a selected server is not retired and, if it
   has a stream, has its handshake (mongoc_cluster_check_interval); a node has no stream
   yet when its check is answered (_async_success). *)
AssertionsHold ==
  /\ pc = "check" => \A i \in GetNode(nodes, op.id) :
       ~nodes[i].retired /\ (nodes[i].stream => nodes[i].shaken # "no")
  /\ \A i \in DOMAIN nodes : nodes[i].cmd # "none" => ~nodes[i].stream

(* No operation runs on a stream whose generation was read before its pool was cleared:
   its errors would be taken for old ones and leave a dead server in the topology
   (_mongoc_cluster_stream_for_server takes the description before it scans). *)
ErrorsAreCurrent == pc = "run" => ~op.cleared

(* "Return the scanner node with the given id." (mongoc_topology_scanner_get_node): the
   search is not given up before a node that is in the list. *)
NodesAreFound ==
  \A i \in DOMAIN nodes : ~nodes[i].retired => i \in GetNode(nodes, nodes[i].id)

(* While the set goes on having a primary, writes go on succeeding, whatever failed and
   whoever was primary before. *)
Recovers ==
  <>[](td.type # "Single" /\ \E a \in Addr : mem[a].primary)
    => []<>(op.mode = "write" /\ op.result = "ok")
==============================================================================
