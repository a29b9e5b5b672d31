----------------------------- MODULE MCTopology ------------------------------
(***************************************************************************)
(* Deployments for TLC.                                                    *)
(***************************************************************************)
EXTENDS Topology

(* A replica set whose name is not in the URI, to which the script writes. *)
ReplicaSet(configs, seeds, failures) ==
  [at |-> [a \in Addr |-> a], kind |-> [a \in Addr |-> "member"],
   configs |-> configs, set |-> "rs", other |-> "other",
   seeds |-> seeds, name |-> None, direct |-> "no",
   modes |-> {"write"}, terms |-> 2, faults |-> failures]

(* Elections, configs that grow and shrink, reads. *)
Elections == ReplicaSet(<<<<"a", "b">>>>, <<"a", "b">>, 2)
Grows == ReplicaSet(<<<<"a", "b">>, <<"a", "b", "c">>>>, <<"a", "c">>, 0)
Shrinks == ReplicaSet(<<<<"a", "b">>, <<"b">>>>, <<"a", "b">>, 1)
Three == ReplicaSet(<<<<"a", "b", "c">>, <<"b", "c">>>>, <<"a", "b">>, 0)
Reads == [ReplicaSet(<<<<"a", "b">>>>, <<"a", "b">>, 0) EXCEPT
            !.modes = {"write", "primary", "secondary", "secondaryPreferred"}]

(* Seeds that are not what the URI or the set says. *)
Stranger == [ReplicaSet(<<<<"a", "b">>>>, <<"a", "c">>, 1) EXCEPT
               !.kind["c"] = "stranger", !.name = "rs"]
Wrong == [ReplicaSet(<<>>, <<"c">>, 0) EXCEPT !.kind["c"] = "stranger", !.name = "rs"]
Alias == [ReplicaSet(<<<<"a", "b">>>>, <<"c", "b">>, 1) EXCEPT !.at["c"] = "a"]
Mixed == [ReplicaSet(<<<<"b">>>>, <<"a", "b", "c">>, 1) EXCEPT
            !.kind["a"] = "mongos", !.kind["c"] = "standalone"]
Pair == [ReplicaSet(<<>>, <<"a", "b">>, 2) EXCEPT
           !.kind["a"] = "standalone", !.kind["b"] = "standalone"]

(* One server, by the URI. *)
Lone == [ReplicaSet(<<>>, <<"a">>, 2) EXCEPT !.kind["a"] = "standalone", !.direct = "unset"]
Down == [ReplicaSet(<<>>, <<"a">>, 1) EXCEPT !.kind["a"] = "broken", !.direct = "yes"]
Direct == [ReplicaSet(<<<<"a", "b">>>>, <<"a">>, 1) EXCEPT
             !.direct = "yes", !.name = "rs", !.modes = {"write", "nearest"}]
Strayed == [Direct EXCEPT !.name = "other"]

MCDeployments ==
  {Elections, Grows, Shrinks, Three, Reads, Stranger, Wrong, Alias, Mixed, Pair,
   Lone, Down, Direct, Strayed}

(* A host that the first primary does not report and the second reports before another. *)
MCReadded == {ReplicaSet(<<<<"a", "b">>, <<"a", "b", "c", "d">>>>, <<"a", "b", "c">>, 0)}
==============================================================================
