--------------------------- MODULE TopologyProofs ----------------------------
(***************************************************************************)
(* What TLAPS proves of the client, for every deployment, any number of    *)
(* servers, elections, reconfigurations, failures and replies, in order:   *)
(*                                                                         *)
(* - It never believes in two primaries (OnePrimary).  Every change of the *)
(*   description is a composition of a few operators; most are calm: they  *)
(*   leave the type of the topology and make no server primary.  The       *)
(*   lemmas state this for each, then what the transitions make of a       *)
(*   description in which the server that replied may be a second primary  *)
(*   for a moment (the invariant Good).                                    *)
(* - The driver's assertions about nodes hold, and no operation runs on a  *)
(*   stream of a pool that was cleared (AssertionsHold, ErrorsAreCurrent). *)
(*   A description grows: servers keep their ids, are eased, go, or come   *)
(*   with ids of their own (Turned says what a reply makes of it).  So the *)
(*   nodes of the scanner stay those of the servers with their ids (Fine), *)
(*   and what a call knows of its pool stays true (Calling); together with *)
(*   the members of the set this is the invariant Scanning.                *)
(* - The topology of a replica set has servers of that set only (OneSet),  *)
(*   from Scanning and the invariant Consistent.                           *)
(* - It never goes back to the primary of an earlier election (NeverBack). *)
(*   Who has a later config than a primary has a later term, because two   *)
(*   majorities meet (Orderly); so any two elections that the client knows *)
(*   of, or will hear of from a reply under way, are ordered by the config *)
(*   as they are by the term (Timely), and the later one stays (Led).      *)
(***************************************************************************)
EXTENDS Topology, FiniteSetTheorems, SequenceTheorems, WellFoundedInduction, TLAPS

(* Induction over the naturals, stated with a set instead of an operator so
   that the provers can use it: apply it to {n \in Nat : P(n)}.  The least
   number that the set lacked would have a predecessor that it lacks too. *)
LEMMA NatSetInduction ==
  ASSUME NEW S \in SUBSET Nat, 0 \in S, \A n \in S : n + 1 \in S
  PROVE  \A n \in Nat : n \in S
<1> SUFFICES ASSUME Nat \ S # {} PROVE FALSE
  OBVIOUS
<1>1. PICK m \in Nat \ S : \A k \in Nat \ S : <<k, m>> \notin OpToRel(<, Nat)
  BY NatLessThanWellFounded, WFMin, Zenon
<1>2. m - 1 \in Nat \ S
  <2>1. m \in Nat /\ m # 0 /\ m = (m - 1) + 1
    OBVIOUS
  <2> QED BY <2>1
<1>3. \A k \in Nat : k < m => <<k, m>> \in OpToRel(<, Nat)
  BY DEF OpToRel
<1>4. m - 1 < m
  OBVIOUS
<1> QED BY <1>1, <1>2, <1>3, <1>4, Zenon

(* What EXCEPT needs to know of a description. *)
Shaped(t) ==
  /\ t = [type |-> t.type, name |-> t.name, servers |-> t.servers,
          maxSv |-> t.maxSv, maxEid |-> t.maxEid, lastId |-> t.lastId]
  /\ t.servers = [a \in Servers(t) |->
       [id |-> t.servers[a].id, type |-> t.servers[a].type, hello |-> t.servers[a].hello,
        sv |-> t.servers[a].sv, eid |-> t.servers[a].eid, tv |-> t.servers[a].tv]]

AtMostOne(t) == \A a, b \in Primaries(t) : a = b

(* The inductive invariant, of a description. *)
Good(t) ==
  /\ Shaped(t) /\ t.type \in TopologyType
  /\ AtMostOne(t)
  /\ Primaries(t) # {} => t.type \in {"RSWithPrimary", "Single"}
  /\ t.type = "Single" => \A a, b \in Servers(t) : a = b

(* The same but for one server, whose reply was stored and not yet acted on. *)
GoodBut(t, a) ==
  /\ Shaped(t) /\ t.type \in TopologyType
  /\ a \in Servers(t)
  /\ \A b, c \in Primaries(t) \ {a} : b = c
  /\ Primaries(t) \ {a} # {} => t.type \in {"RSWithPrimary", "Single"}
  /\ t.type = "Single" => \A b, c \in Servers(t) : b = c

Calm(t, u) == Shaped(u) /\ u.type = t.type /\ Primaries(u) \subseteq Primaries(t)

LEMMA CalmCalm == ASSUME NEW t, NEW u, NEW w, Calm(t, u), Calm(u, w) PROVE Calm(t, w)
  BY DEF Calm

LEMMA CalmAtMostOne == ASSUME NEW t, NEW u, Calm(t, u), AtMostOne(t) PROVE AtMostOne(u)
  BY DEF Calm, AtMostOne

LEMMA RemoveCalm ==
  ASSUME NEW t, NEW gone, Shaped(t)
  PROVE  /\ Calm(t, RemoveServers(t, gone))
         /\ Servers(RemoveServers(t, gone)) = Servers(t) \ gone
         /\ Primaries(RemoveServers(t, gone)) = Primaries(t) \ gone
<1> DEFINE u == RemoveServers(t, gone)
<1>1. u = [type |-> t.type, name |-> t.name, servers |-> [a \in Servers(t) \ gone |-> t.servers[a]],
           maxSv |-> t.maxSv, maxEid |-> t.maxEid, lastId |-> t.lastId]
  BY DEF RemoveServers, Shaped
<1>2. Servers(u) = Servers(t) \ gone
  BY <1>1 DEF Servers
<1>3. \A a \in Servers(u) : u.servers[a] = t.servers[a]
  BY <1>1, <1>2, SMTT(40)
<1>4. Primaries(u) = Primaries(t) \ gone
  BY <1>2, <1>3 DEF Primaries, TypeAt
<1>5. \A a \in Servers(u) : u.servers[a] =
        [id |-> u.servers[a].id, type |-> u.servers[a].type, hello |-> u.servers[a].hello,
         sv |-> u.servers[a].sv, eid |-> u.servers[a].eid, tv |-> u.servers[a].tv]
  BY <1>2, <1>3 DEF Shaped
<1>6. u.servers = [a \in Servers(u) |-> u.servers[a]]
  BY <1>1, <1>2
<1>7. Shaped(u)
  BY <1>1, <1>5, <1>6 DEF Shaped
<1>8. Primaries(u) \subseteq Primaries(t)
  BY <1>4
<1>9. u.type = t.type
  BY <1>1
<1> HIDE DEF u
<1>10. Calm(t, u)
  BY <1>7, <1>8, <1>9 DEF Calm
<1> QED BY <1>2, <1>4, <1>10 DEF u

LEMMA AddCalm ==
  ASSUME NEW t, NEW hosts, Shaped(t)
  PROVE  /\ Calm(t, AddNewServers(t, hosts))
         /\ Servers(AddNewServers(t, hosts)) = Servers(t) \cup {hosts[i] : i \in DOMAIN hosts}
<1> DEFINE u == AddNewServers(t, hosts)
           new == {i \in DOMAIN hosts : hosts[i] \notin Servers(t)}
           id(a) == t.lastId + Cardinality({j \in new : j <= CHOOSE i \in new : hosts[i] = a})
           all == Servers(t) \cup {hosts[i] : i \in new}
           next == [a \in all |-> IF a \in Servers(t) THEN t.servers[a] ELSE Blank(id(a))]
<1>1. all = Servers(t) \cup {hosts[i] : i \in DOMAIN hosts}
  OBVIOUS
<1>2. u = [t EXCEPT !.servers = next, !.lastId = @ + Cardinality(new)]
  BY DEF AddNewServers
<1>3. \A a \in all : next[a] = IF a \in Servers(t) THEN t.servers[a] ELSE Blank(id(a))
  OBVIOUS
<1>4. next = [a \in all |-> next[a]]
  BY SMTT(40)
<1>5. \A a \in all : next[a] =
        [id |-> next[a].id, type |-> next[a].type, hello |-> next[a].hello,
         sv |-> next[a].sv, eid |-> next[a].eid, tv |-> next[a].tv]
  BY <1>3, ZenonT(60) DEF Shaped, Blank
<1>6. \A a \in all : next[a].type = "RSPrimary" => a \in Servers(t) /\ t.servers[a].type = "RSPrimary"
  BY <1>3 DEF Blank
<1> HIDE DEF next, all, id
<1>7. u = [type |-> t.type, name |-> t.name, servers |-> next, maxSv |-> t.maxSv,
           maxEid |-> t.maxEid, lastId |-> t.lastId + Cardinality(new)]
  BY <1>2 DEF Shaped
<1> HIDE DEF u, new
<1>8. Servers(u) = all
  BY <1>4, <1>7 DEF Servers
<1>9. Shaped(u)
  BY <1>4, <1>5, <1>7, <1>8 DEF Shaped
<1>10. Primaries(u) \subseteq Primaries(t)
  BY <1>6, <1>7, <1>8 DEF Primaries, TypeAt
<1>11. Calm(t, u)
  BY <1>7, <1>9, <1>10 DEF Calm
<1> QED BY <1>1, <1>8, <1>11 DEF u

(* One server gets another record. *)
LEMMA SetServer ==
  ASSUME NEW t, NEW a \in Servers(t), NEW id, NEW type, NEW hello, NEW sv, NEW eid, NEW tv, Shaped(t),
         NEW u, u = [t EXCEPT !.servers[a] = [id |-> id, type |-> type, hello |-> hello,
                                               sv |-> sv, eid |-> eid, tv |-> tv]]
  PROVE  /\ Shaped(u) /\ u.type = t.type /\ Servers(u) = Servers(t)
         /\ TypeAt(u, a) = type
         /\ \A b \in Servers(t) \ {a} : TypeAt(u, b) = TypeAt(t, b)
         /\ Primaries(u) \subseteq Primaries(t) \cup {a}
         /\ type # "RSPrimary" => Primaries(u) = Primaries(t) \ {a}
<1> DEFINE sd == [id |-> id, type |-> type, hello |-> hello, sv |-> sv, eid |-> eid, tv |-> tv]
           next == [t.servers EXCEPT ![a] = sd]
<1>1. u = [type |-> t.type, name |-> t.name, servers |-> next, maxSv |-> t.maxSv,
           maxEid |-> t.maxEid, lastId |-> t.lastId]
  BY SMTT(40) DEF Shaped
<1>2. DOMAIN next = Servers(t) /\ next = [b \in Servers(t) |-> next[b]]
  BY DEF Servers
<1>3. next[a] = sd /\ \A b \in Servers(t) \ {a} : next[b] = t.servers[b]
  BY DEF Servers
<1>4. \A b \in Servers(t) : next[b] =
        [id |-> next[b].id, type |-> next[b].type, hello |-> next[b].hello,
         sv |-> next[b].sv, eid |-> next[b].eid, tv |-> next[b].tv]
  BY <1>3 DEF Shaped
<1>5. next[a].type = type
  BY <1>3
<1> HIDE DEF next, sd
<1>6. /\ u.servers = next /\ u.type = t.type
      /\ u = [type |-> u.type, name |-> u.name, servers |-> u.servers,
              maxSv |-> u.maxSv, maxEid |-> u.maxEid, lastId |-> u.lastId]
  <2> DEFINE r == [type |-> t.type, name |-> t.name, servers |-> next, maxSv |-> t.maxSv,
                   maxEid |-> t.maxEid, lastId |-> t.lastId]
  <2>1. /\ r.servers = next /\ r.type = t.type
        /\ r = [type |-> r.type, name |-> r.name, servers |-> r.servers,
                maxSv |-> r.maxSv, maxEid |-> r.maxEid, lastId |-> r.lastId]
    OBVIOUS
  <2>2. u = r
    BY <1>1
  <2> HIDE DEF r
  <2> QED BY <2>1, <2>2
<1>7. Servers(u) = Servers(t)
  BY <1>6, <1>2 DEF Servers
<1>8. u.servers = [b \in Servers(u) |->
       [id |-> u.servers[b].id, type |-> u.servers[b].type, hello |-> u.servers[b].hello,
        sv |-> u.servers[b].sv, eid |-> u.servers[b].eid, tv |-> u.servers[b].tv]]
  BY <1>2, <1>4, <1>6, <1>7, SMTT(40)
<1>9. Shaped(u)
  BY <1>6, <1>8 DEF Shaped
<1>10. TypeAt(u, a) = type
  BY <1>5, <1>6 DEF TypeAt
<1>11. \A b \in Servers(t) \ {a} : TypeAt(u, b) = TypeAt(t, b)
  BY <1>3, <1>6 DEF TypeAt
<1>12. /\ Primaries(u) \subseteq Primaries(t) \cup {a}
       /\ type # "RSPrimary" => Primaries(u) = Primaries(t) \ {a}
  BY <1>7, <1>10, <1>11 DEF Primaries
<1> QED BY <1>6, <1>7, <1>9, <1>10, <1>11, <1>12

(* Everything but the servers changes. *)
LEMMA SetOthers ==
  ASSUME NEW t, Shaped(t), NEW type, NEW name, NEW maxSv, NEW maxEid, NEW u,
         u = [type |-> type, name |-> name, servers |-> t.servers, maxSv |-> maxSv,
              maxEid |-> maxEid, lastId |-> t.lastId]
  PROVE  /\ Shaped(u) /\ u.type = type
         /\ Servers(u) = Servers(t) /\ Primaries(u) = Primaries(t)
         /\ \A b : TypeAt(u, b) = TypeAt(t, b)
<1>1. /\ u.servers = t.servers /\ u.type = type
      /\ u = [type |-> u.type, name |-> u.name, servers |-> u.servers,
              maxSv |-> u.maxSv, maxEid |-> u.maxEid, lastId |-> u.lastId]
  OBVIOUS
<1>2. Servers(u) = Servers(t) /\ Primaries(u) = Primaries(t) /\ \A b : TypeAt(u, b) = TypeAt(t, b)
  BY <1>1 DEF Servers, Primaries, TypeAt
<1>3. Shaped(u)
  BY <1>1 DEF Shaped, Servers
<1> QED BY <1>1, <1>2, <1>3

LEMMA NamedCalm ==
  ASSUME NEW t, NEW h, Shaped(t)
  PROVE  /\ Calm(t, Named(t, h))
         /\ Servers(Named(t, h)) = Servers(t) /\ Primaries(Named(t, h)) = Primaries(t)
<1>1. Named(t, h) = [type |-> t.type, name |-> IF t.name = None /\ h.set # None THEN h.set ELSE t.name,
                     servers |-> t.servers, maxSv |-> t.maxSv, maxEid |-> t.maxEid, lastId |-> t.lastId]
  BY DEF Named, Shaped
<1> DEFINE u == Named(t, h)
<1> HIDE DEF u
<1>2. Shaped(u) /\ u.type = t.type /\ Servers(u) = Servers(t) /\ Primaries(u) = Primaries(t)
  BY <1>1, SetOthers DEF u
<1> QED BY <1>2 DEF Calm, u

LEMMA ElectedCalm == ASSUME NEW t, NEW h, Shaped(t) PROVE Calm(t, Elected(t, h))
<1> DEFINE u == Elected(t, h)
           eid == IF h.sv # 0 /\ h.eid # 0 THEN h.eid ELSE t.maxEid
           sv == IF h.sv > t.maxSv THEN h.sv ELSE t.maxSv
<1>1. u = [t EXCEPT !.maxEid = eid, !.maxSv = sv]
  BY Zenon DEF Elected
<1> HIDE DEF u, eid, sv
<1>2. u = [type |-> t.type, name |-> t.name, servers |-> t.servers,
           maxSv |-> sv, maxEid |-> eid, lastId |-> t.lastId]
  BY <1>1 DEF Shaped
<1>3. Shaped(u) /\ u.type = t.type /\ Primaries(u) = Primaries(t)
  BY <1>2, SetOthers
<1> QED BY <1>3 DEF Calm, u

LEMMA LabelCalm ==
  ASSUME NEW t, NEW a, Shaped(t)
  PROVE  Calm(t, LabelPossiblePrimary(t, a))
<1> DEFINE u == [t EXCEPT !.servers[a].type = "PossiblePrimary"]
           sd == t.servers[a]
<1>1. ASSUME a \in Servers(t), TypeAt(t, a) = "Unknown" PROVE Calm(t, u)
  <2>1. sd = [id |-> sd.id, type |-> sd.type, hello |-> sd.hello,
              sv |-> sd.sv, eid |-> sd.eid, tv |-> sd.tv]
    BY <1>1 DEF Shaped
  <2>2. [sd EXCEPT !.type = "PossiblePrimary"] =
          [id |-> sd.id, type |-> "PossiblePrimary", hello |-> sd.hello,
           sv |-> sd.sv, eid |-> sd.eid, tv |-> sd.tv]
    BY <2>1
  <2>3. u = [t EXCEPT !.servers[a] = [sd EXCEPT !.type = "PossiblePrimary"]]
    BY DEF Shaped
  <2>4. u = [t EXCEPT !.servers[a] = [id |-> sd.id, type |-> "PossiblePrimary", hello |-> sd.hello,
                                       sv |-> sd.sv, eid |-> sd.eid, tv |-> sd.tv]]
    BY <2>2, <2>3
  <2> HIDE DEF u, sd
  <2>5. Shaped(u) /\ u.type = t.type /\ Primaries(u) = Primaries(t) \ {a}
    BY <1>1, <2>4, SetServer
  <2> QED BY <2>5 DEF Calm
<1>2. Calm(t, t)
  BY DEF Calm
<1> QED BY <1>1, <1>2 DEF LabelPossiblePrimary

LEMMA ResetFields ==
  ASSUME NEW sd
  PROVE  Reset(sd) = [id |-> sd.id, type |-> "Unknown", hello |-> FALSE, sv |-> 0, eid |-> 0, tv |-> sd.tv]
<1> DEFINE r == Blank(sd.id)
<1>1. r = [id |-> sd.id, type |-> "Unknown", hello |-> FALSE, sv |-> 0, eid |-> 0, tv |-> 0]
  BY Zenon DEF Blank
<1>2. Reset(sd) = [r EXCEPT !.tv = sd.tv]
  BY Zenon DEF Reset
<1> HIDE DEF r
<1> QED BY <1>1, <1>2

LEMMA InvalidatePrimariesCalm ==
  ASSUME NEW t, NEW a, Shaped(t)
  PROVE  Calm(t, InvalidatePrimaries(t, a)) /\ Primaries(InvalidatePrimaries(t, a)) \subseteq {a}
<1> DEFINE u == InvalidatePrimaries(t, a)
           next == [b \in Servers(t) |->
                      IF b # a /\ TypeAt(t, b) = "RSPrimary" THEN Reset(t.servers[b]) ELSE t.servers[b]]
<1>1. u = [t EXCEPT !.servers = next]
  BY Zenon DEF InvalidatePrimaries
<1>2. \A b \in Servers(t) :
        \/ next[b] = t.servers[b] /\ (TypeAt(t, b) = "RSPrimary" => b = a)
        \/ next[b] = [id |-> t.servers[b].id, type |-> "Unknown", hello |-> FALSE, sv |-> 0,
                      eid |-> 0, tv |-> t.servers[b].tv]
  <2> TAKE b \in Servers(t)
  <2>1. CASE b # a /\ TypeAt(t, b) = "RSPrimary"
    <3>1. next[b] = Reset(t.servers[b])
      BY <2>1, Zenon
    <3> QED BY <3>1, ResetFields, Zenon
  <2>2. CASE ~(b # a /\ TypeAt(t, b) = "RSPrimary")
    <3>1. next[b] = t.servers[b]
      BY <2>2, Zenon
    <3> QED BY <2>2, <3>1, Zenon
  <2> QED BY <2>1, <2>2, Zenon
<1>4. next = [b \in Servers(t) |-> next[b]]
  OBVIOUS
<1> HIDE DEF next, u
<1>3. ASSUME NEW b \in Servers(t)
      PROVE  /\ next[b] = [id |-> next[b].id, type |-> next[b].type, hello |-> next[b].hello,
                           sv |-> next[b].sv, eid |-> next[b].eid, tv |-> next[b].tv]
             /\ next[b].type = "RSPrimary" => b = a /\ t.servers[b].type = "RSPrimary"
  <2>1. CASE next[b] = t.servers[b] /\ (TypeAt(t, b) = "RSPrimary" => b = a)
    <3>1. t.servers[b] =
            [id |-> t.servers[b].id, type |-> t.servers[b].type, hello |-> t.servers[b].hello,
             sv |-> t.servers[b].sv, eid |-> t.servers[b].eid, tv |-> t.servers[b].tv]
      BY <1>3 DEF Shaped
    <3> QED BY <2>1, <3>1 DEF TypeAt
  <2>2. CASE next[b] = [id |-> t.servers[b].id, type |-> "Unknown", hello |-> FALSE, sv |-> 0,
                        eid |-> 0, tv |-> t.servers[b].tv]
    BY <2>2
  <2> QED BY <1>2, <2>1, <2>2
<1>6. /\ u.servers = next /\ u.type = t.type
      /\ u = [type |-> u.type, name |-> u.name, servers |-> u.servers,
              maxSv |-> u.maxSv, maxEid |-> u.maxEid, lastId |-> u.lastId]
  BY <1>1 DEF Shaped
<1>7. Servers(u) = Servers(t)
  BY <1>4, <1>6 DEF Servers
<1>8. Shaped(u)
  BY <1>3, <1>4, <1>6, <1>7 DEF Shaped
<1>9. Primaries(u) \subseteq Primaries(t) /\ Primaries(u) \subseteq {a}
  BY <1>3, <1>6, <1>7 DEF Primaries, TypeAt
<1> QED BY <1>6, <1>8, <1>9 DEF Calm, u

LEMMA UpdateRsTypeGood ==
  ASSUME NEW t, Shaped(t), AtMostOne(t)
  PROVE  Good(UpdateRsType(t)) /\ Servers(UpdateRsType(t)) = Servers(t)
<1> DEFINE u == UpdateRsType(t)
           type == IF HasPrimary(t) THEN "RSWithPrimary" ELSE "RSNoPrimary"
<1>1. u = [type |-> type, name |-> t.name, servers |-> t.servers, maxSv |-> t.maxSv,
           maxEid |-> t.maxEid, lastId |-> t.lastId]
  BY DEF UpdateRsType, Shaped
<1>2. Primaries(t) # {} => type = "RSWithPrimary"
  BY DEF HasPrimary, Primaries
<1>3. type \in {"RSWithPrimary", "RSNoPrimary"}
  OBVIOUS
<1> HIDE DEF u, type
<1>4. Shaped(u) /\ u.type = type /\ Servers(u) = Servers(t) /\ Primaries(u) = Primaries(t)
  BY <1>1, SetOthers
<1>5. Good(u)
  BY <1>2, <1>3, <1>4 DEF Good, AtMostOne, TopologyType
<1> QED BY <1>4, <1>5 DEF u

LEMMA InvalidateGood ==
  ASSUME NEW t, NEW a, GoodBut(t, a)
  PROVE  Good(Invalidate(t, a))
<1> DEFINE u == [t EXCEPT !.servers[a] = Reset(@)]
           sd == t.servers[a]
<1>1. u = [t EXCEPT !.servers[a] = [id |-> sd.id, type |-> "Unknown", hello |-> FALSE,
                                     sv |-> 0, eid |-> 0, tv |-> sd.tv]]
  <2>1. u = [t EXCEPT !.servers[a] = Reset(sd)]
    OBVIOUS
  <2> QED BY <2>1, ResetFields, Zenon
<1>2. Invalidate(t, a) = IF t.type = "RSWithPrimary" THEN UpdateRsType(u) ELSE u
  BY DEF Invalidate
<1> HIDE DEF u, sd
<1>3. Shaped(u) /\ u.type = t.type /\ Servers(u) = Servers(t) /\ Primaries(u) = Primaries(t) \ {a}
  <2>1. Shaped(t) /\ a \in Servers(t)
    BY DEF GoodBut
  <2> DEFINE no == FALSE
             unknown == "Unknown"
  <2>2. unknown # "RSPrimary"
    OBVIOUS
  <2>3. u = [t EXCEPT !.servers[a] = [id |-> sd.id, type |-> unknown, hello |-> no,
                                       sv |-> 0, eid |-> 0, tv |-> sd.tv]]
    BY <1>1
  <2> HIDE DEF no, unknown
  <2> QED BY <2>1, <2>2, <2>3, SetServer
<1>4. AtMostOne(u)
  BY <1>3 DEF AtMostOne, GoodBut
<1>5. CASE t.type = "RSWithPrimary"
  BY <1>2, <1>3, <1>4, <1>5, UpdateRsTypeGood
<1>6. CASE t.type # "RSWithPrimary"
  BY <1>2, <1>3, <1>4, <1>6 DEF Good, GoodBut
<1> QED BY <1>5, <1>6
------------------------------------------------------------------------------
(* The transitions *)

(* Nothing calm happens to a description without a primary. *)
LEMMA CalmWithoutPrimary ==
  ASSUME NEW t, NEW u, Calm(t, u), Primaries(t) = {}, t.type \in TopologyType \ {"Single"}
  PROVE  Good(u)
  BY DEF Calm, Good, AtMostOne

LEMMA CalmWithPrimary ==
  ASSUME NEW t, NEW u, Calm(t, u), AtMostOne(t), t.type = "RSWithPrimary"
  PROVE  Good(u)
  BY DEF Calm, Good, AtMostOne, TopologyType

LEMMA RemovedGood ==
  ASSUME NEW t, NEW a, GoodBut(t, a)
  PROVE  Good(UpdateRsType(RemoveServers(t, {a})))
<1>1. Shaped(t) /\ \A b, c \in Primaries(t) \ {a} : b = c
  BY DEF GoodBut
<1> DEFINE u == RemoveServers(t, {a})
<1>2. Shaped(u) /\ Primaries(u) = Primaries(t) \ {a}
  BY <1>1, RemoveCalm DEF Calm
<1> HIDE DEF u
<1>3. AtMostOne(u)
  BY <1>1, <1>2 DEF AtMostOne
<1>4. Good(UpdateRsType(u))
  BY <1>2, <1>3, UpdateRsTypeGood
<1> QED BY <1>4 DEF u

LEMMA FromPrimaryGood ==
  ASSUME NEW t, NEW a, NEW h, GoodBut(t, a)
  PROVE  Good(UpdateRsFromPrimary(t, a, h))
<1> DEFINE named == Named(t, h)
           elected == Elected(named, h)
           alone == InvalidatePrimaries(elected, a)
           added == AddNewServers(alone, h.hosts)
           gone == {b \in Servers(added) : \A i \in DOMAIN h.hosts : h.hosts[i] # b}
           left == RemoveServers(added, gone)
<1>1. Shaped(t)
  BY DEF GoodBut
<1>2. Calm(t, named) /\ Servers(named) = Servers(t) /\ Primaries(named) = Primaries(t)
  BY <1>1, NamedCalm
<1>3. \/ UpdateRsFromPrimary(t, a, h) = UpdateRsType(RemoveServers(t, {a}))
      \/ UpdateRsFromPrimary(t, a, h) = UpdateRsType(Invalidate(named, a))
      \/ UpdateRsFromPrimary(t, a, h) = UpdateRsType(left)
  BY Zenon DEF UpdateRsFromPrimary
<1> HIDE DEF named
<1>4. Calm(named, elected)
  BY <1>2, ElectedCalm DEF Calm
<1> HIDE DEF elected
<1>5. Calm(elected, alone) /\ Primaries(alone) \subseteq {a}
  BY <1>4, InvalidatePrimariesCalm DEF Calm
<1> HIDE DEF alone
<1>6. Calm(alone, added)
  BY <1>5, AddCalm DEF Calm
<1> HIDE DEF added
<1>7. Calm(added, left)
  BY <1>6, RemoveCalm DEF Calm
<1> HIDE DEF left
<1>8. Good(UpdateRsType(left))
  BY <1>5, <1>6, <1>7, UpdateRsTypeGood DEF Calm, AtMostOne
<1>9. Good(UpdateRsType(Invalidate(named, a)))
  <2>1. GoodBut(named, a)
    BY <1>2 DEF GoodBut, Calm
  <2>2. Good(Invalidate(named, a))
    BY <2>1, InvalidateGood
  <2> QED BY <2>2, UpdateRsTypeGood DEF Good
<1> QED BY <1>3, <1>8, <1>9, RemovedGood

LEMMA WithoutPrimaryGood ==
  ASSUME NEW t, NEW a, NEW h, Shaped(t), Primaries(t) = {}, t.type = "RSNoPrimary"
  PROVE  Good(UpdateRsWithoutPrimary(t, a, h))
<1> DEFINE named == Named(t, h)
           added == AddNewServers(named, h.hosts)
           labelled == IF h.primary = None THEN added ELSE LabelPossiblePrimary(added, h.primary)
<1>1. Calm(t, named)
  BY NamedCalm
<1>2. \/ UpdateRsWithoutPrimary(t, a, h) = RemoveServers(t, {a})
      \/ UpdateRsWithoutPrimary(t, a, h) = labelled
      \/ UpdateRsWithoutPrimary(t, a, h) = RemoveServers(labelled, {a})
  BY Zenon DEF UpdateRsWithoutPrimary
<1> HIDE DEF named
<1>3. Calm(named, added)
  BY <1>1, AddCalm DEF Calm
<1> HIDE DEF added
<1>4. Calm(added, labelled)
  BY <1>3, LabelCalm DEF Calm
<1> HIDE DEF labelled
<1>5. Calm(t, labelled)
  BY <1>1, <1>3, <1>4, CalmCalm
<1>6. Calm(labelled, RemoveServers(labelled, {a})) /\ Calm(t, RemoveServers(t, {a}))
  BY <1>5, RemoveCalm DEF Calm
<1>7. Calm(t, RemoveServers(labelled, {a}))
  BY <1>5, <1>6, CalmCalm
<1>8. Calm(t, UpdateRsWithoutPrimary(t, a, h))
  BY <1>2, <1>5, <1>6, <1>7
<1> QED BY <1>8, CalmWithoutPrimary DEF TopologyType

LEMMA FromMemberGood ==
  ASSUME NEW t, NEW a, NEW h, GoodBut(t, a), TypeAt(t, a) # "RSPrimary", t.type = "RSWithPrimary"
  PROVE  Good(UpdateRsWithPrimaryFromMember(t, a, h))
<1> DEFINE alone == [t EXCEPT !.type = "RSNoPrimary"]
<1>1. Shaped(t) /\ AtMostOne(t)
  BY DEF GoodBut, AtMostOne, Primaries
<1>2. Good(UpdateRsType(RemoveServers(t, {a})))
  BY RemovedGood
<1>3. Good(RemoveServers(t, {a}))
  BY <1>1, RemoveCalm, CalmWithPrimary
<1>4. Good(t)
  BY <1>1 DEF Good, GoodBut
<1>5. ASSUME ~HasPrimary(t) PROVE Good(LabelPossiblePrimary(alone, h.primary))
  <2>1. Primaries(t) = {}
    BY <1>5 DEF Primaries, HasPrimary
  <2>2. alone = [type |-> "RSNoPrimary", name |-> t.name, servers |-> t.servers, maxSv |-> t.maxSv,
                 maxEid |-> t.maxEid, lastId |-> t.lastId]
    BY <1>1 DEF Shaped
  <2> HIDE DEF alone
  <2>3. Shaped(alone) /\ alone.type = "RSNoPrimary" /\ Primaries(alone) = {}
    BY <1>1, <2>1, <2>2, SetOthers
  <2> QED BY <2>3, LabelCalm, CalmWithoutPrimary DEF TopologyType
<1> QED BY <1>2, <1>3, <1>4, <1>5, Zenon DEF UpdateRsWithPrimaryFromMember

LEMMA StandaloneGood ==
  ASSUME NEW t, NEW a, GoodBut(t, a), TypeAt(t, a) = "Standalone", t.type = "Unknown"
  PROVE  Good(UpdateUnknownWithStandalone(t, a))
<1> DEFINE lone == [t EXCEPT !.type = "Single"]
<1>1. Shaped(t) /\ Primaries(t) = {}
  BY DEF GoodBut, Primaries
<1>2. Good(RemoveServers(t, {a}))
  BY <1>1, RemoveCalm, CalmWithoutPrimary DEF TopologyType
<1>3. ASSUME Servers(t) = {a} PROVE Good(lone)
  <2>1. lone = [type |-> "Single", name |-> t.name, servers |-> t.servers, maxSv |-> t.maxSv,
                maxEid |-> t.maxEid, lastId |-> t.lastId]
    BY <1>1 DEF Shaped
  <2> HIDE DEF lone
  <2>2. Shaped(lone) /\ lone.type = "Single" /\ Primaries(lone) = {} /\ Servers(lone) = {a}
    BY <1>1, <1>3, <2>1, SetOthers
  <2> QED BY <2>2 DEF Good, AtMostOne, TopologyType
<1> QED BY <1>2, <1>3, Zenon DEF UpdateUnknownWithStandalone

LEMMA TransitionGood ==
  ASSUME NEW t, NEW a, NEW h, GoodBut(t, a)
  PROVE  Good(Transition(t, a, h))
<1> DEFINE s == TypeAt(t, a)
           apart == [t EXCEPT !.type = "RSNoPrimary"]
           sharded == [t EXCEPT !.type = "Sharded"]
<1>1. Shaped(t) /\ t.type \in TopologyType
  BY DEF GoodBut
<1>2. Good(UpdateRsType(RemoveServers(t, {a})))
  BY RemovedGood
<1>3. Good(UpdateRsFromPrimary(t, a, h))
  BY FromPrimaryGood
<1>4. ASSUME s # "RSPrimary", t.type # "RSWithPrimary", t.type # "Single" PROVE Primaries(t) = {}
  BY <1>4 DEF GoodBut, Primaries
<1>5. ASSUME t.type # "RSWithPrimary", t.type # "Single" PROVE Good(RemoveServers(t, {a}))
  <2> DEFINE u == RemoveServers(t, {a})
  <2>1. Calm(t, u) /\ Primaries(u) = Primaries(t) \ {a}
    BY <1>1, RemoveCalm
  <2>2. Primaries(u) = {}
    BY <1>5, <2>1 DEF GoodBut
  <2> HIDE DEF u
  <2> QED BY <1>1, <1>5, <2>1, <2>2 DEF Good, Calm, AtMostOne, u
<1>6. ASSUME s # "RSPrimary" PROVE Good(t)
  BY <1>6 DEF Good, GoodBut, AtMostOne, Primaries
<1>7. ASSUME t.type = "Single" PROVE Good(t)
  BY <1>7 DEF Good, GoodBut, AtMostOne, Primaries
<1>8. ASSUME s # "RSPrimary", t.type = "Unknown" \/ t.type = "RSNoPrimary"
      PROVE  Shaped(apart) /\ Primaries(apart) = {} /\ apart.type = "RSNoPrimary"
  <2>1. apart = [type |-> "RSNoPrimary", name |-> t.name, servers |-> t.servers, maxSv |-> t.maxSv,
                 maxEid |-> t.maxEid, lastId |-> t.lastId]
    BY <1>1 DEF Shaped
  <2> HIDE DEF apart
  <2> QED BY <1>1, <1>4, <1>8, <2>1, SetOthers
<1>9. CASE t.type = "Unknown"
  <2>1. CASE s = "Standalone"
    <3>1. Transition(t, a, h) = UpdateUnknownWithStandalone(t, a)
      BY <1>9, <2>1 DEF Transition, Member
    <3> QED BY <1>9, <2>1, <3>1, StandaloneGood
  <2>2. CASE s = "Mongos"
    <3>1. Transition(t, a, h) = sharded
      BY <1>9, <2>2 DEF Transition, Member
    <3>2. sharded = [type |-> "Sharded", name |-> t.name, servers |-> t.servers, maxSv |-> t.maxSv,
                     maxEid |-> t.maxEid, lastId |-> t.lastId]
      BY <1>1 DEF Shaped
    <3> HIDE DEF sharded
    <3>3. Shaped(sharded) /\ Primaries(sharded) = {} /\ sharded.type = "Sharded"
      BY <1>1, <1>4, <1>9, <2>2, <3>2, SetOthers
    <3> QED BY <3>1, <3>3 DEF Good, AtMostOne, TopologyType
  <2>3. CASE s = "RSPrimary"
    <3>1. Transition(t, a, h) = UpdateRsFromPrimary(t, a, h)
      BY <1>9, <2>3 DEF Transition, Member
    <3> QED BY <3>1, <1>3
  <2>4. CASE s \in Member
    <3>1. Transition(t, a, h) = UpdateRsWithoutPrimary(apart, a, h)
      BY <1>9, <2>4 DEF Transition, Member
    <3> QED BY <1>8, <1>9, <2>4, <3>1, WithoutPrimaryGood DEF Member
  <2>5. CASE s \notin {"Standalone", "Mongos", "RSPrimary"} \cup Member
    <3>1. Transition(t, a, h) = t
      BY <1>9, <2>5 DEF Transition, Member
    <3> QED BY <1>6, <2>5, <3>1
  <2> QED BY <2>1, <2>2, <2>3, <2>4, <2>5
<1>10. CASE t.type = "Sharded"
  <2>1. CASE s \in {"Standalone", "RSPrimary", "RSGhost"} \cup Member
    <3>1. Transition(t, a, h) = RemoveServers(t, {a})
      BY <1>10, <2>1 DEF Transition, Member
    <3> QED BY <1>5, <1>10, <3>1
  <2>2. CASE s \notin {"Standalone", "RSPrimary", "RSGhost"} \cup Member
    <3>1. Transition(t, a, h) = t
      BY <1>10, <2>2 DEF Transition, Member
    <3> QED BY <1>6, <2>2, <3>1
  <2> QED BY <2>1, <2>2
<1>11. CASE t.type = "RSNoPrimary"
  <2>1. CASE s \in {"Standalone", "Mongos"}
    <3>1. Transition(t, a, h) = RemoveServers(t, {a})
      BY <1>11, <2>1 DEF Transition, Member
    <3> QED BY <1>5, <1>11, <3>1
  <2>2. CASE s = "RSPrimary"
    <3>1. Transition(t, a, h) = UpdateRsFromPrimary(t, a, h)
      BY <1>11, <2>2 DEF Transition, Member
    <3> QED BY <3>1, <1>3
  <2>3. CASE s \in Member
    <3>1. Transition(t, a, h) = UpdateRsWithoutPrimary(t, a, h)
      BY <1>11, <2>3 DEF Transition, Member
    <3>2. Primaries(t) = {}
      BY <1>4, <1>11, <2>3 DEF Member
    <3> QED BY <1>1, <1>11, <3>1, <3>2, WithoutPrimaryGood
  <2>4. CASE s \notin {"Standalone", "Mongos", "RSPrimary"} \cup Member
    <3>1. Transition(t, a, h) = t
      BY <1>11, <2>4 DEF Transition, Member
    <3> QED BY <1>6, <2>4, <3>1
  <2> QED BY <2>1, <2>2, <2>3, <2>4
<1>12. CASE t.type = "RSWithPrimary"
  <2>1. CASE s \in {"Unknown", "RSGhost"}
    <3>1. Transition(t, a, h) = UpdateRsType(t)
      BY <1>12, <2>1 DEF Transition, Member
    <3>2. AtMostOne(t)
      BY <1>6, <2>1 DEF Good
    <3> QED BY <1>1, <3>1, <3>2, UpdateRsTypeGood
  <2>2. CASE s \in {"Standalone", "Mongos"}
    <3>1. Transition(t, a, h) = UpdateRsType(RemoveServers(t, {a}))
      BY <1>12, <2>2 DEF Transition, Member
    <3> QED BY <1>2, <3>1
  <2>3. CASE s = "RSPrimary"
    <3>1. Transition(t, a, h) = UpdateRsFromPrimary(t, a, h)
      BY <1>12, <2>3 DEF Transition, Member
    <3> QED BY <3>1, <1>3
  <2>4. CASE s \in Member
    <3>1. Transition(t, a, h) = UpdateRsWithPrimaryFromMember(t, a, h)
      BY <1>12, <2>4 DEF Transition, Member
    <3> QED BY <1>12, <2>4, <3>1, FromMemberGood DEF Member
  <2>5. CASE s \notin {"Unknown", "RSGhost", "Standalone", "Mongos", "RSPrimary"} \cup Member
    <3>1. Transition(t, a, h) = t
      BY <1>12, <2>5 DEF Transition, Member
    <3> QED BY <1>6, <2>5, <3>1
  <2> QED BY <2>1, <2>2, <2>3, <2>4, <2>5
<1>13. CASE t.type = "Single"
  <2>1. Transition(t, a, h) = t
    BY <1>13 DEF Transition, Member
  <2> QED BY <1>7, <1>13, <2>1
<1> QED BY <1>1, <1>9, <1>10, <1>11, <1>12, <1>13 DEF TopologyType

LEMMA HandleHelloGood ==
  ASSUME NEW t, NEW id, NEW h, Good(t)
  PROVE  Good(HandleHello(t, id, h))
<1> DEFINE a == AddressOf(t, id)
           sd == t.servers[a]
           told == [t EXCEPT !.servers[a] = ServerHello(@, h)]
<1>1. \/ HandleHello(t, id, h) = t
      \/ IsKnown(t, id) /\ HandleHello(t, id, h) = Invalidate(told, a)
      \/ IsKnown(t, id) /\ HandleHello(t, id, h) = Transition(told, a, h)
  BY Zenon DEF HandleHello
<1>2. ASSUME IsKnown(t, id) PROVE GoodBut(told, a)
  <2>1. a \in Servers(t)
    BY <1>2 DEF IsKnown, AddressOf
  <2> DEFINE type == Typed(h)
             yes == TRUE
  <2>2. ServerHello(sd, h) = [id |-> sd.id, type |-> type, hello |-> yes, sv |-> h.sv, eid |-> h.eid,
                              tv |-> h.tv]
    BY Zenon DEF ServerHello
  <2>3. told = [t EXCEPT !.servers[a] = [id |-> sd.id, type |-> type, hello |-> yes, sv |-> h.sv,
                                          eid |-> h.eid, tv |-> h.tv]]
    BY <2>2
  <2>4. Shaped(t)
    BY DEF Good
  <2> HIDE DEF a, sd, told, type, yes
  <2>5. /\ Shaped(told) /\ told.type = t.type /\ Servers(told) = Servers(t)
        /\ Primaries(told) \subseteq Primaries(t) \cup {a}
    BY <2>1, <2>3, <2>4, SetServer
  <2> QED BY <2>1, <2>5 DEF Good, GoodBut, AtMostOne
<1> HIDE DEF a, told
<1> QED BY <1>1, <1>2, InvalidateGood, TransitionGood

LEMMA FailGood ==
  ASSUME NEW t, NEW id, Good(t)
  PROVE  Good(Fail(t, id))
<1>1. ASSUME IsKnown(t, id) PROVE GoodBut(t, AddressOf(t, id))
  BY <1>1 DEF IsKnown, AddressOf, Good, GoodBut, AtMostOne
<1> QED BY <1>1, InvalidateGood DEF Fail

(* An error of an operation stores the topologyVersion that it came with. *)
LEMMA VersionGood ==
  ASSUME NEW t, NEW a \in Servers(t), NEW tv, Good(t)
  PROVE  Good([t EXCEPT !.servers[a].tv = tv])
<1> DEFINE u == [t EXCEPT !.servers[a].tv = tv]
           sd == t.servers[a]
<1>1. Shaped(t)
  BY DEF Good
<1>2. sd = [id |-> sd.id, type |-> sd.type, hello |-> sd.hello, sv |-> sd.sv, eid |-> sd.eid, tv |-> sd.tv]
  BY <1>1 DEF Shaped
<1>3. [sd EXCEPT !.tv = tv] =
        [id |-> sd.id, type |-> sd.type, hello |-> sd.hello, sv |-> sd.sv, eid |-> sd.eid, tv |-> tv]
  BY <1>2
<1>4. u = [t EXCEPT !.servers[a] = [sd EXCEPT !.tv = tv]]
  BY <1>1 DEF Shaped
<1> DEFINE i == sd.id
           type == sd.type
           hello == sd.hello
           sv == sd.sv
           eid == sd.eid
<1>5. u = [t EXCEPT !.servers[a] = [id |-> i, type |-> type, hello |-> hello,
                                     sv |-> sv, eid |-> eid, tv |-> tv]]
  BY <1>3, <1>4
<1>6. type = TypeAt(t, a)
  BY DEF TypeAt
<1> HIDE DEF u, sd, i, type, hello, sv, eid
<1>7. Shaped(u) /\ u.type = t.type /\ Servers(u) = Servers(t)
  BY <1>1, <1>5, SetServer
<1>8. Primaries(u) = Primaries(t)
  <2>1. TypeAt(u, a) = type
    BY <1>1, <1>5, SetServer, SMTT(40)
  <2>2. \A b \in Servers(t) \ {a} : TypeAt(u, b) = TypeAt(t, b)
    BY <1>1, <1>5, SetServer
  <2> QED BY <1>6, <1>7, <2>1, <2>2 DEF Primaries
<1>9. Good(u)
  BY <1>7, <1>8 DEF Good, AtMostOne
<1> QED BY <1>9 DEF u
------------------------------------------------------------------------------
(* The specification *)

LEMMA InitGood == ASSUME TopologyAssumption, Init PROVE Good(td)
<1> DEFINE none == [a \in {} |-> Blank(0)]
           t == [type |-> InitialType(dep), name |-> dep.name, servers |-> none, maxSv |-> 0,
                 maxEid |-> 0, lastId |-> 0]
<1>1. none = <<>>
  OBVIOUS
<1>2. td = AddNewServers(t, dep.seeds)
  BY <1>1 DEF Init
<1>3. DOMAIN none = {} /\ none = [a \in {} |->
         [id |-> none[a].id, type |-> none[a].type, hello |-> none[a].hello,
          sv |-> none[a].sv, eid |-> none[a].eid, tv |-> none[a].tv]]
  OBVIOUS
<1>4. InitialType(dep) \in TopologyType
  BY DEF InitialType, TopologyType
<1>5. dep \in Deployment /\ (dep.direct = "yes" => Len(dep.seeds) = 1)
  BY DEF Init, TopologyAssumption
<1>6. InitialType(dep) = "Single" => Len(dep.seeds) = 1
  BY <1>5 DEF InitialType, Deployment
<1>7. DOMAIN dep.seeds = 1..Len(dep.seeds)
  BY <1>5 DEF Deployment
<1> HIDE DEF none
<1>8. Shaped(t)
  BY <1>3 DEF Shaped, Servers
<1>9. Servers(t) = {} /\ t.type = InitialType(dep)
  BY <1>3 DEF Servers
<1>10. Primaries(t) = {}
  BY <1>9 DEF Primaries
<1> HIDE DEF t
<1>11. Calm(t, td) /\ Servers(td) = {dep.seeds[i] : i \in DOMAIN dep.seeds}
  BY <1>2, <1>8, <1>9, AddCalm
<1>12. Len(dep.seeds) = 1 => \A a, b \in Servers(td) : a = b
  BY <1>7, <1>11
<1> QED BY <1>4, <1>6, <1>9, <1>10, <1>11, <1>12 DEF Calm, Good, AtMostOne

LEMMA StepGood == ASSUME Good(td), [Next]_vars PROVE Good(td')
<1>1. ASSUME td' = td PROVE Good(td')
  BY <1>1
<1>2. ASSUME NEW i, HandleReply(i) PROVE Good(td')
  <2>1. td' = HandleHello(td, nodes[i].id, nodes[i].reply)
    BY <1>2, Zenon DEF HandleReply
  <2> QED BY <2>1, HandleHelloGood
<1>3. ASSUME NEW id, td' = Fail(td, id) PROVE Good(td')
  BY <1>3, FailGood
<1>4. ASSUME NEW i, CheckFails(i) PROVE Good(td')
  <2>1. td' = Fail(td, nodes[i].id)
    BY <1>4, Zenon DEF CheckFails
  <2> QED BY <1>3, <2>1
<1>5. ASSUME Lose PROVE Good(td')
  BY <1>3, <1>5 DEF Lose
<1>6. ASSUME StartScan PROVE Good(td')
  BY <1>1, <1>6, Zenon DEF StartScan
<1>7. CASE SetChanges
  BY <1>1, <1>7, Zenon DEF SetChanges, Elect, Reconfigure, Learn, client
<1>8. CASE Scanner
  <2>1. ASSUME FinishScan PROVE td' = td
    BY <2>1, Zenon DEF FinishScan
  <2>2. ASSUME NEW i, Answer(i) PROVE td' = td
    BY <2>2, Zenon DEF Answer
  <2> QED BY <1>1, <1>2, <1>8, <2>1, <2>2, Zenon DEF Scanner
<1>9. CASE Call
  <2>1. ASSUME NoScanner \/ NoneEligible \/ Select \/ SelectNone PROVE td' = td
    BY <2>1, Zenon DEF NoScanner, NoneEligible, Select, SelectNone
  <2>2. ASSUME Check \/ RunDone PROVE td' = td
    BY <2>2, Zenon DEF Check, RunDone
  <2>3. ASSUME ScanToSelect PROVE Good(td')
    BY <1>6, <2>3 DEF ScanToSelect
  <2>4. ASSUME Fetch PROVE Good(td')
    BY <1>1, <1>5, <1>6, <2>4, Zenon DEF Fetch
  <2>5. ASSUME FetchScanned PROVE Good(td')
    BY <1>1, <1>5, <2>5, Zenon DEF FetchScanned
  <2>6. ASSUME RunRefused PROVE Good(td')
    <3> DEFINE t == [td EXCEPT !.servers[AddressOf(td, op.id)].tv = Peer.tv]
    <3>1. CASE Counts
      <4>1. AddressOf(td, op.id) \in Servers(td)
        BY <3>1 DEF Counts, IsKnown, AddressOf
      <4>2. Good(t)
        BY <4>1, VersionGood
      <4>3. td' = Fail(t, op.id)
        BY <2>6, <3>1, Zenon DEF RunRefused
      <4> QED BY <4>2, <4>3, FailGood
    <3>2. CASE ~Counts
      BY <1>1, <2>6, <3>2, Zenon DEF RunRefused
    <3> QED BY <3>1, <3>2
  <2> QED BY <1>1, <1>9, <2>1, <2>2, <2>3, <2>4, <2>5, <2>6, Zenon DEF Call
<1>10. CASE Faults
  <2>1. ASSUME CheckClosed PROVE Good(td')
    BY <1>3, <2>1, Zenon DEF CheckClosed
  <2>2. ASSUME RunBreaks PROVE Good(td')
    <3>1. td' = td \/ td' = Fail(td, op.id)
      BY <2>2, Zenon DEF RunBreaks
    <3> QED BY <1>1, <1>3, <3>1
  <2> QED BY <1>4, <1>10, <2>1, <2>2, Zenon DEF Faults
<1>11. ASSUME NEW mode, Begin(mode) PROVE Good(td')
  BY <1>1, <1>11, Zenon DEF Begin
<1>12. ASSUME NEW i, CooldownEnds(i) PROVE Good(td')
  BY <1>1, <1>12, Zenon DEF CooldownEnds
<1>13. CASE UNCHANGED vars
  BY <1>1, <1>13, Zenon DEF vars
<1> QED BY <1>7, <1>8, <1>9, <1>10, <1>11, <1>12, <1>13, Zenon DEF Next

(* The inductive invariant: the description has at most one primary, its type says so, and
   a topology of type Single has one server (mongoc_topology_description_handle_hello and
   mongoc_topology_description_invalidate_server keep it). *)
THEOREM Invariance == Spec => []Good(td)
<1>1. Init => Good(td)
  BY InitGood, TopologyAssumption
<1>2. Good(td) /\ [Next]_vars => Good(td)'
  BY StepGood
<1> QED BY <1>1, <1>2, PTL DEF Spec

(* The client never believes in two primaries, for every deployment and however elections,
   late replies and failures are mixed (update_rs_from_primary and the transition table). *)
THEOREM BelievesInOnePrimary == Spec => []OnePrimary
<1>1. Good(td) => OnePrimary
  BY DEF Good, AtMostOne, OnePrimary
<1> QED BY <1>1, Invariance, PTL


------------------------------------------------------------------------------
(* The elements of a sequence at some indices are elements of it. *)

KeepsTo(s, I, n, f) ==
  f = [k \in 0..n |->
         IF k = 0 THEN <<>> ELSE IF k \in I THEN Append(f[k - 1], s[k]) ELSE f[k - 1]]

LEMMA KeepsExists == ASSUME NEW s, NEW I, NEW n \in Nat PROVE \E f : KeepsTo(s, I, n, f)
<1> DEFINE S == {m \in Nat : \E f : KeepsTo(s, I, m, f)}
<1>1. 0 \in S
  <2> DEFINE f == [k \in 0..0 |-> <<>>]
  <2>1. f = [k \in 0..0 |->
               IF k = 0 THEN <<>> ELSE IF k \in I THEN Append(f[k - 1], s[k]) ELSE f[k - 1]]
    OBVIOUS
  <2> QED BY <2>1 DEF KeepsTo
<1>2. ASSUME NEW m \in S PROVE m + 1 \in S
  <2>1. m \in Nat /\ m + 1 \in Nat
    OBVIOUS
  <2>2. PICK q : KeepsTo(s, I, m, q)
    OBVIOUS
  <2> DEFINE Step(f, k) == IF k = 0 THEN <<>>
                           ELSE IF k \in I THEN Append(f[k - 1], s[k]) ELSE f[k - 1]
             p == [k \in 0..m + 1 |-> IF k = m + 1 THEN Step(q, k) ELSE q[k]]
  <2>3. q = [k \in 0..m |-> Step(q, k)]
    BY <2>2, Zenon DEF KeepsTo
  <2>4. ASSUME NEW k \in 0..m + 1 PROVE p[k] = Step(p, k)
    <3>1. k # 0 => k - 1 \in 0..m + 1 /\ k - 1 # m + 1
      BY <2>1
    <3>2. k # 0 => p[k - 1] = q[k - 1]
      BY <3>1
    <3>3. Step(p, k) = Step(q, k)
      <4> HIDE DEF p
      <4> QED BY <3>2
    <3>4. CASE k = m + 1
      BY <3>3, <3>4
    <3>5. CASE k # m + 1
      <4>1. k \in 0..m
        BY <3>5, <2>1
      <4>2. p[k] = q[k]
        BY <3>5
      <4>3. q[k] = Step(q, k)
        <5> HIDE DEF Step, p
        <5> QED BY <2>3, <4>1, Zenon
      <4> QED BY <3>3, <4>2, <4>3, Zenon
    <3> QED BY <3>4, <3>5
  <2>5. p = [k \in 0..m + 1 |-> p[k]]
    OBVIOUS
  <2>6. p = [k \in 0..m + 1 |-> Step(p, k)]
    <3> HIDE DEF Step, p
    <3> QED BY <2>4, <2>5, Zenon
  <2>7. KeepsTo(s, I, m + 1, p)
    <3> HIDE DEF p
    <3> QED BY <2>6, Zenon DEF KeepsTo
  <2> QED BY <2>1, <2>7
<1> HIDE DEF S
<1>3. n \in S
  BY <1>1, <1>2, NatSetInduction DEF S
<1> QED BY <1>3 DEF S

LEMMA KeptIn ==
  ASSUME NEW T, NEW s \in Seq(T), NEW I,
         NEW S, \A k \in 1..Len(s) : k \in I => s[k] \in S
  PROVE  Kept(s, I) \in Seq(S)
<1> DEFINE n == Len(s)
           f == CHOOSE f : f = [k \in 0..Len(s) |-> IF k = 0 THEN <<>>
                                  ELSE IF k \in I THEN Append(f[k - 1], s[k]) ELSE f[k - 1]]
<1>1. n \in Nat
  OBVIOUS
<1>2. \E g : g = [k \in 0..Len(s) |-> IF k = 0 THEN <<>>
                    ELSE IF k \in I THEN Append(g[k - 1], s[k]) ELSE g[k - 1]]
  <2>1. \E g : KeepsTo(s, I, n, g)
    <3> HIDE DEF n
    <3> QED BY <1>1, KeepsExists
  <2> QED BY <2>1, Zenon DEF KeepsTo
<1>3. f = [k \in 0..Len(s) |-> IF k = 0 THEN <<>>
             ELSE IF k \in I THEN Append(f[k - 1], s[k]) ELSE f[k - 1]]
  BY <1>2, Zenon
<1>4. Kept(s, I) = f[n]
  BY Zenon DEF Kept
<1> HIDE DEF f
<1>5. \A k \in 0..n : f[k] = IF k = 0 THEN <<>>
                            ELSE IF k \in I THEN Append(f[k - 1], s[k]) ELSE f[k - 1]
  BY <1>3, Zenon
<1> DEFINE D == {m \in Nat : m <= n => f[m] \in Seq(S)}
<1>6. 0 \in D
  <2>1. f[0] = <<>>
    BY <1>1, <1>5
  <2> QED BY <2>1, EmptySeq
<1>7. ASSUME NEW m \in D PROVE m + 1 \in D
  <2> DEFINE h == m + 1
  <2>1. SUFFICES ASSUME h <= n PROVE f[h] \in Seq(S)
    OBVIOUS
  <2>2. m \in Nat /\ h \in 0..n /\ h \in 1..Len(s) /\ h # 0 /\ h - 1 = m /\ m <= n
    BY <1>1, <2>1
  <2>3. f[m] \in Seq(S)
    BY <2>2
  <2>4. f[h] = IF h \in I THEN Append(f[m], s[h]) ELSE f[m]
    BY <1>5, <2>2
  <2>5. h \in I => s[h] \in S
    BY <2>2
  <2> HIDE DEF h
  <2> QED BY <2>3, <2>4, <2>5, AppendProperties
<1> HIDE DEF D
<1>8. n \in D
  BY <1>1, <1>6, <1>7, NatSetInduction DEF D
<1> QED BY <1>1, <1>4, <1>8 DEF D

------------------------------------------------------------------------------
(* The description as it grows *)

InNoSet == {"Unknown", "PossiblePrimary", "RSGhost"}

(* Addresses are those of the deployment, and ids are not used twice. *)
Sound(t) ==
  /\ Shaped(t) /\ Servers(t) \subseteq Addr
  /\ t.lastId \in Nat
  /\ \A a \in Servers(t) : t.servers[a].id \in 1..t.lastId
  /\ \A a, b \in Servers(t) : t.servers[a].id = t.servers[b].id => a = b

(* A server keeps its id, and what it is known to be unless that is forgotten. *)
Eased(x, y) ==
  /\ y.id = x.id
  /\ \/ y.type = x.type /\ y.sv = x.sv /\ y.eid = x.eid
     \/ y.type \in {"Unknown", "PossiblePrimary"}

(* Some servers go, others are eased. *)
Eases(t, u) ==
  /\ u.name = t.name /\ u.maxSv = t.maxSv /\ u.maxEid = t.maxEid /\ u.lastId = t.lastId
  /\ Servers(u) \subseteq Servers(t)
  /\ \A b \in Servers(u) : Eased(t.servers[b], u.servers[b])

(* New ones come, with ids of their own. *)
Grows(t, u) ==
  /\ t.lastId \in Nat /\ u.lastId \in Nat /\ t.lastId <= u.lastId
  /\ \A b \in Servers(u) :
       \/ b \in Servers(t) /\ Eased(t.servers[b], u.servers[b])
       \/ /\ b \in Addr /\ u.servers[b].type \in {"Unknown", "PossiblePrimary"}
          /\ u.servers[b].id \in t.lastId + 1 .. u.lastId
  /\ \A a, b \in Servers(u) :
       u.servers[a].id = u.servers[b].id /\ u.servers[a].id > t.lastId => a = b

LEMMA EasedEased == ASSUME NEW x, NEW y, NEW z, Eased(x, y), Eased(y, z) PROVE Eased(x, z)
  BY DEF Eased

LEMMA EasesEases == ASSUME NEW t, NEW u, NEW w, Eases(t, u), Eases(u, w) PROVE Eases(t, w)
<1>1. ASSUME NEW b \in Servers(w) PROVE Eased(t.servers[b], w.servers[b])
  <2>1. b \in Servers(u) /\ Eased(t.servers[b], u.servers[b]) /\ Eased(u.servers[b], w.servers[b])
    BY DEF Eases
  <2> QED BY <2>1, EasedEased
<1> QED BY <1>1 DEF Eases

LEMMA EasesGrows == ASSUME NEW t, NEW u, Sound(t), Eases(t, u) PROVE Grows(t, u)
<1>1. t.lastId \in Nat /\ u.lastId = t.lastId
  BY DEF Sound, Eases
<1>2. \A b \in Servers(u) : b \in Servers(t) /\ Eased(t.servers[b], u.servers[b])
  BY DEF Eases
<1>3. ASSUME NEW b \in Servers(u) PROVE ~(u.servers[b].id > t.lastId)
  <2>1. u.servers[b].id = t.servers[b].id /\ t.servers[b].id \in 1..t.lastId
    BY <1>2 DEF Eased, Sound
  <2> QED BY <1>1, <2>1
<1>4. t.lastId <= u.lastId
  BY <1>1
<1> QED BY <1>1, <1>2, <1>3, <1>4, Zenon DEF Grows

LEMMA GrowsGrows == ASSUME NEW t, NEW u, NEW w, Grows(t, u), Grows(u, w) PROVE Grows(t, w)
<1>1. /\ t.lastId \in Nat /\ u.lastId \in Nat /\ w.lastId \in Nat
      /\ t.lastId <= u.lastId /\ u.lastId <= w.lastId
  BY Zenon DEF Grows
<1>2. ASSUME NEW b \in Servers(w)
      PROVE  \/ b \in Servers(t) /\ Eased(t.servers[b], w.servers[b])
             \/ /\ b \in Addr /\ w.servers[b].type \in {"Unknown", "PossiblePrimary"}
                /\ w.servers[b].id \in t.lastId + 1 .. w.lastId
  <2>1. CASE b \in Servers(u) /\ Eased(u.servers[b], w.servers[b])
    <3>1. CASE b \in Servers(t) /\ Eased(t.servers[b], u.servers[b])
      BY <2>1, <3>1, EasedEased
    <3>2. CASE /\ b \in Addr /\ u.servers[b].type \in {"Unknown", "PossiblePrimary"}
               /\ u.servers[b].id \in t.lastId + 1 .. u.lastId
      <4>1. w.servers[b].type \in {"Unknown", "PossiblePrimary"} /\ w.servers[b].id = u.servers[b].id
        BY <2>1, <3>2 DEF Eased
      <4> QED BY <1>1, <3>2, <4>1
    <3> QED BY <2>1, <3>1, <3>2, Zenon DEF Grows
  <2>2. CASE /\ b \in Addr /\ w.servers[b].type \in {"Unknown", "PossiblePrimary"}
             /\ w.servers[b].id \in u.lastId + 1 .. w.lastId
    BY <1>1, <2>2
  <2> QED BY <2>1, <2>2, Zenon DEF Grows
<1>3. ASSUME NEW a \in Servers(w), NEW b \in Servers(w), w.servers[a].id = w.servers[b].id,
             w.servers[a].id > t.lastId
      PROVE  a = b
  <2>1. CASE w.servers[a].id > u.lastId
    BY <1>3, <2>1, Zenon DEF Grows
  <2>2. CASE ~(w.servers[a].id > u.lastId)
    <3>1. ASSUME NEW c \in Servers(w), w.servers[c].id = w.servers[a].id
          PROVE  c \in Servers(u) /\ w.servers[c].id = u.servers[c].id
      <4>1. ~(w.servers[c].id \in u.lastId + 1 .. w.lastId)
        BY <1>1, <2>2, <3>1
      <4>2. c \in Servers(u) /\ Eased(u.servers[c], w.servers[c])
        BY <4>1, Zenon DEF Grows
      <4> QED BY <4>2 DEF Eased
    <3>2. /\ a \in Servers(u) /\ w.servers[a].id = u.servers[a].id
          /\ b \in Servers(u) /\ w.servers[b].id = u.servers[b].id
      BY <1>3, <3>1
    <3>3. u.servers[a].id = u.servers[b].id /\ u.servers[a].id > t.lastId
      BY <1>3, <3>2
    <3> QED BY <3>2, <3>3, Zenon DEF Grows
  <2> QED BY <2>1, <2>2
<1>4. t.lastId <= w.lastId
  BY <1>1
<1> QED BY <1>1, <1>2, <1>3, <1>4, Zenon DEF Grows

LEMMA GrowsSound == ASSUME NEW t, NEW u, Sound(t), Shaped(u), Grows(t, u) PROVE Sound(u)
<1>1. t.lastId \in Nat /\ u.lastId \in Nat /\ t.lastId <= u.lastId
  BY Zenon DEF Grows
<1>2. ASSUME NEW b \in Servers(u)
      PROVE  /\ b \in Addr /\ u.servers[b].id \in 1..u.lastId
             /\ ~(u.servers[b].id > t.lastId) => b \in Servers(t) /\ u.servers[b].id = t.servers[b].id
  <2>1. CASE b \in Servers(t) /\ Eased(t.servers[b], u.servers[b])
    <3>1. b \in Addr /\ t.servers[b].id \in 1..t.lastId /\ u.servers[b].id = t.servers[b].id
      BY <2>1 DEF Sound, Eased
    <3> QED BY <1>1, <2>1, <3>1
  <2>2. CASE b \in Addr /\ u.servers[b].id \in t.lastId + 1 .. u.lastId
    BY <1>1, <2>2
  <2> QED BY <2>1, <2>2, Zenon DEF Grows
<1>3. ASSUME NEW a \in Servers(u), NEW b \in Servers(u), u.servers[a].id = u.servers[b].id PROVE a = b
  <2>1. CASE u.servers[a].id > t.lastId
    BY <1>3, <2>1, Zenon DEF Grows
  <2>2. CASE ~(u.servers[a].id > t.lastId)
    <3>1. /\ a \in Servers(t) /\ u.servers[a].id = t.servers[a].id
          /\ b \in Servers(t) /\ u.servers[b].id = t.servers[b].id
      BY <1>2, <1>3, <2>2
    <3> QED BY <1>3, <3>1 DEF Sound
  <2> QED BY <2>1, <2>2
<1> QED BY <1>1, <1>2, <1>3, Zenon DEF Sound

(* What a description is, told by its fields. *)
LEMMA EasesBy ==
  ASSUME NEW t, NEW u, NEW type, NEW servers,
         u = [type |-> type, name |-> t.name, servers |-> servers,
              maxSv |-> t.maxSv, maxEid |-> t.maxEid, lastId |-> t.lastId],
         DOMAIN servers \subseteq Servers(t),
         \A b \in DOMAIN servers : Eased(t.servers[b], servers[b])
  PROVE  Eases(t, u) /\ u.type = type
<1>1. /\ u.type = type /\ u.name = t.name /\ u.servers = servers /\ u.maxSv = t.maxSv
      /\ u.maxEid = t.maxEid /\ u.lastId = t.lastId
  OBVIOUS
<1> QED BY <1>1, Zenon DEF Eases, Servers

LEMMA RemoveEases ==
  ASSUME NEW t, NEW gone, Shaped(t)
  PROVE  Eases(t, RemoveServers(t, gone)) /\ RemoveServers(t, gone).type = t.type
<1> DEFINE u == RemoveServers(t, gone)
           servers == [a \in Servers(t) \ gone |-> t.servers[a]]
           type == t.type
<1>1. u = [type |-> type, name |-> t.name, servers |-> servers,
           maxSv |-> t.maxSv, maxEid |-> t.maxEid, lastId |-> t.lastId]
  BY DEF RemoveServers, Shaped
<1>2. DOMAIN servers \subseteq Servers(t) /\ \A b \in DOMAIN servers : Eased(t.servers[b], servers[b])
  BY DEF Eased
<1> HIDE DEF u, servers, type
<1>3. Eases(t, u) /\ u.type = type
  BY <1>1, <1>2, EasesBy
<1> QED BY <1>3 DEF u, type

LEMMA SetTypeEases ==
  ASSUME NEW t, NEW type, Shaped(t)
  PROVE  /\ Eases(t, [t EXCEPT !.type = type]) /\ [t EXCEPT !.type = type].type = type
         /\ Shaped([t EXCEPT !.type = type])
         /\ [t EXCEPT !.type = type].servers = t.servers
<1> DEFINE u == [t EXCEPT !.type = type]
           servers == t.servers
           name == t.name
           maxSv == t.maxSv
           maxEid == t.maxEid
<1>1. u = [type |-> type, name |-> name, servers |-> servers,
           maxSv |-> maxSv, maxEid |-> maxEid, lastId |-> t.lastId]
  BY DEF Shaped
<1>2. DOMAIN servers \subseteq Servers(t) /\ \A b \in DOMAIN servers : Eased(t.servers[b], servers[b])
  BY DEF Eased, Servers
<1> HIDE DEF u
<1>3. Eases(t, u) /\ u.type = type
  <2> HIDE DEF servers
  <2> QED BY <1>1, <1>2, EasesBy
<1>4. u.servers = t.servers
  BY <1>1
<1>5. Shaped(u)
  <2> HIDE DEF name, maxSv, maxEid
  <2> QED BY <1>1, SetOthers
<1> QED BY <1>3, <1>4, <1>5 DEF u

LEMMA UpdateRsTypeEases ==
  ASSUME NEW t, Shaped(t)
  PROVE  /\ Eases(t, UpdateRsType(t)) /\ Shaped(UpdateRsType(t))
         /\ UpdateRsType(t).type \in {"RSWithPrimary", "RSNoPrimary"}
         /\ UpdateRsType(t).servers = t.servers
<1> DEFINE type == IF HasPrimary(t) THEN "RSWithPrimary" ELSE "RSNoPrimary"
<1>1. UpdateRsType(t) = [t EXCEPT !.type = type]
  BY Zenon DEF UpdateRsType
<1>2. type \in {"RSWithPrimary", "RSNoPrimary"}
  OBVIOUS
<1> HIDE DEF type
<1> DEFINE u == [t EXCEPT !.type = type]
<1>3. Eases(t, u) /\ u.type = type /\ Shaped(u) /\ u.servers = t.servers
  BY SetTypeEases
<1> HIDE DEF u
<1> QED BY <1>1, <1>2, <1>3, Zenon DEF u

LEMMA SetServerEases ==
  ASSUME NEW t, NEW a \in Servers(t), NEW type \in {"Unknown", "PossiblePrimary"}, NEW hello, NEW sv,
         NEW eid, NEW tv, Shaped(t),
         NEW u, u = [t EXCEPT !.servers[a] = [id |-> t.servers[a].id, type |-> type, hello |-> hello,
                                               sv |-> sv, eid |-> eid, tv |-> tv]]
  PROVE  Eases(t, u) /\ u.type = t.type /\ Servers(u) = Servers(t) /\ TypeAt(u, a) = type
<1> DEFINE sd == [id |-> t.servers[a].id, type |-> type, hello |-> hello, sv |-> sv, eid |-> eid, tv |-> tv]
           servers == [t.servers EXCEPT ![a] = sd]
           ttype == t.type
<1>1. u = [type |-> ttype, name |-> t.name, servers |-> servers,
           maxSv |-> t.maxSv, maxEid |-> t.maxEid, lastId |-> t.lastId]
  BY DEF Shaped
<1>2. DOMAIN servers = Servers(t) /\ servers[a] = sd
      /\ \A b \in DOMAIN servers : b # a => servers[b] = t.servers[b]
  BY DEF Servers
<1>3. Eased(t.servers[a], sd) /\ sd.type = type
  BY DEF Eased
<1> HIDE DEF sd, servers, ttype
<1>4. \A b \in DOMAIN servers : Eased(t.servers[b], servers[b])
  BY <1>2, <1>3 DEF Eased
<1>5. DOMAIN servers \subseteq Servers(t)
  BY <1>2
<1>6. Eases(t, u) /\ u.type = ttype
  BY <1>1, <1>4, <1>5, EasesBy, ZenonT(60)
<1>7. u.servers = servers
  BY <1>1
<1> QED BY <1>2, <1>3, <1>6, <1>7 DEF ttype, Servers, TypeAt

LEMMA ResetEases ==
  ASSUME NEW t, NEW a \in Servers(t), Shaped(t)
  PROVE  LET u == [t EXCEPT !.servers[a] = Reset(@)]
         IN /\ Eases(t, u) /\ Shaped(u) /\ u.type = t.type
            /\ Servers(u) = Servers(t) /\ TypeAt(u, a) = "Unknown"
<1> DEFINE u == [t EXCEPT !.servers[a] = Reset(@)]
           tv == t.servers[a].tv
           type == "Unknown"
           hello == FALSE
           id == t.servers[a].id
<1>1. u = [t EXCEPT !.servers[a] = [id |-> t.servers[a].id, type |-> type, hello |-> hello,
                                     sv |-> 0, eid |-> 0, tv |-> tv]]
  <2>1. u = [t EXCEPT !.servers[a] = Reset(t.servers[a])]
    OBVIOUS
  <2> QED BY <2>1, ResetFields, Zenon
<1>2. type \in {"Unknown", "PossiblePrimary"}
  OBVIOUS
<1> HIDE DEF u, tv, hello
<1>3. Eases(t, u) /\ u.type = t.type /\ Servers(u) = Servers(t) /\ TypeAt(u, a) = type
  <2> HIDE DEF type
  <2> QED BY <1>1, <1>2, SetServerEases
<1>4. Shaped(u)
  <2>1. u = [t EXCEPT !.servers[a] = [id |-> id, type |-> type, hello |-> hello,
                                       sv |-> 0, eid |-> 0, tv |-> tv]]
    BY <1>1
  <2> HIDE DEF id, type
  <2> QED BY <2>1, SetServer
<1> QED BY <1>3, <1>4 DEF u, type

LEMMA InvalidateEases ==
  ASSUME NEW t, NEW a \in Servers(t), Shaped(t)
  PROVE  LET u == Invalidate(t, a)
         IN /\ Eases(t, u) /\ Shaped(u) /\ Servers(u) = Servers(t) /\ TypeAt(u, a) = "Unknown"
            /\ t.type # "RSWithPrimary" => u.type = t.type
            /\ t.type = "RSWithPrimary" => u.type \in {"RSWithPrimary", "RSNoPrimary"}
<1> DEFINE r == [t EXCEPT !.servers[a] = Reset(@)]
<1>1. /\ Eases(t, r) /\ Shaped(r) /\ r.type = t.type
      /\ Servers(r) = Servers(t) /\ TypeAt(r, a) = "Unknown"
  BY ResetEases
<1>2. Invalidate(t, a) = IF t.type = "RSWithPrimary" THEN UpdateRsType(r) ELSE r
  BY DEF Invalidate
<1> HIDE DEF r
<1>3. /\ Eases(r, UpdateRsType(r)) /\ Shaped(UpdateRsType(r))
      /\ UpdateRsType(r).type \in {"RSWithPrimary", "RSNoPrimary"}
      /\ UpdateRsType(r).servers = r.servers
  BY <1>1, UpdateRsTypeEases
<1>4. Eases(t, UpdateRsType(r))
  BY <1>1, <1>3, EasesEases
<1> QED BY <1>1, <1>2, <1>3, <1>4 DEF Servers, TypeAt

LEMMA LabelEases ==
  ASSUME NEW t, NEW a, Shaped(t)
  PROVE  LET u == LabelPossiblePrimary(t, a)
         IN Eases(t, u) /\ Shaped(u) /\ u.type = t.type /\ Servers(u) = Servers(t)
<1>1. Shaped(LabelPossiblePrimary(t, a)) /\ LabelPossiblePrimary(t, a).type = t.type
  BY LabelCalm DEF Calm
<1> DEFINE u == [t EXCEPT !.servers[a].type = "PossiblePrimary"]
           sd == t.servers[a]
<1>2. ASSUME a \in Servers(t) PROVE Eases(t, u) /\ Servers(u) = Servers(t)
  <2> DEFINE type == "PossiblePrimary"
             hello == sd.hello
             sv == sd.sv
             eid == sd.eid
             tv == sd.tv
  <2>1. sd = [id |-> sd.id, type |-> sd.type, hello |-> sd.hello,
              sv |-> sd.sv, eid |-> sd.eid, tv |-> sd.tv]
    BY <1>2 DEF Shaped
  <2>2. [sd EXCEPT !.type = "PossiblePrimary"] =
          [id |-> sd.id, type |-> type, hello |-> hello, sv |-> sv, eid |-> eid, tv |-> tv]
    BY <2>1
  <2>3. u = [t EXCEPT !.servers[a] = [sd EXCEPT !.type = "PossiblePrimary"]]
    BY DEF Shaped
  <2>4. u = [t EXCEPT !.servers[a] = [id |-> t.servers[a].id, type |-> type, hello |-> hello,
                                       sv |-> sv, eid |-> eid, tv |-> tv]]
    BY <2>2, <2>3
  <2>5. type \in {"Unknown", "PossiblePrimary"}
    OBVIOUS
  <2> HIDE DEF u, sd, type, hello, sv, eid, tv
  <2> QED BY <1>2, <2>4, <2>5, SetServerEases
<1>3. Eases(t, t)
  BY DEF Eases, Eased
<1> HIDE DEF u
<1>4. Eases(t, LabelPossiblePrimary(t, a)) /\ Servers(LabelPossiblePrimary(t, a)) = Servers(t)
  BY <1>2, <1>3 DEF LabelPossiblePrimary, u
<1> QED BY <1>1, <1>4

LEMMA InvalidatePrimariesEases ==
  ASSUME NEW t, NEW a, Shaped(t)
  PROVE  Eases(t, InvalidatePrimaries(t, a)) /\ InvalidatePrimaries(t, a).type = t.type
<1> DEFINE u == InvalidatePrimaries(t, a)
           servers == [b \in Servers(t) |->
                         IF b # a /\ TypeAt(t, b) = "RSPrimary" THEN Reset(t.servers[b]) ELSE t.servers[b]]
           type == t.type
<1>1. u = [t EXCEPT !.servers = servers]
  BY Zenon DEF InvalidatePrimaries
<1>2. ASSUME NEW b \in Servers(t) PROVE Eased(t.servers[b], servers[b])
  <2>1. servers[b] = t.servers[b] \/ servers[b] = Reset(t.servers[b])
    OBVIOUS
  <2>2. Eased(t.servers[b], Reset(t.servers[b]))
    BY ResetFields DEF Eased
  <2>3. Eased(t.servers[b], t.servers[b])
    BY DEF Eased
  <2> QED BY <2>1, <2>2, <2>3, Zenon
<1>3. DOMAIN servers = Servers(t)
  OBVIOUS
<1> HIDE DEF servers
<1>4. u = [type |-> type, name |-> t.name, servers |-> servers,
           maxSv |-> t.maxSv, maxEid |-> t.maxEid, lastId |-> t.lastId]
  BY <1>1 DEF Shaped
<1> HIDE DEF u, type
<1>5. Eases(t, u) /\ u.type = type
  <2>1. DOMAIN servers \subseteq Servers(t) /\ \A b \in DOMAIN servers : Eased(t.servers[b], servers[b])
    BY <1>2, <1>3
  <2> QED BY <1>4, <2>1, EasesBy
<1> QED BY <1>5 DEF u, type

(* The name and the last election are all that a reply changes besides the servers. *)
LEMMA NamedFields ==
  ASSUME NEW t, NEW h, Shaped(t)
  PROVE  LET u == Named(t, h)
         IN /\ u.servers = t.servers /\ u.lastId = t.lastId /\ u.type = t.type
            /\ u.maxSv = t.maxSv /\ u.maxEid = t.maxEid
            /\ u.name = IF t.name = None /\ h.set # None THEN h.set ELSE t.name
  BY DEF Named, Shaped

LEMMA ElectedFields ==
  ASSUME NEW t, NEW h, Shaped(t)
  PROVE  LET u == Elected(t, h)
         IN /\ u.servers = t.servers /\ u.lastId = t.lastId /\ u.type = t.type /\ u.name = t.name
            /\ u.maxEid = IF h.sv # 0 /\ h.eid # 0 THEN h.eid ELSE t.maxEid
            /\ u.maxSv = IF h.sv > t.maxSv THEN h.sv ELSE t.maxSv
<1> DEFINE eid == IF h.sv # 0 /\ h.eid # 0 THEN h.eid ELSE t.maxEid
           sv == IF h.sv > t.maxSv THEN h.sv ELSE t.maxSv
           u == Elected(t, h)
<1>1. u = [t EXCEPT !.maxEid = eid, !.maxSv = sv]
  BY Zenon DEF Elected
<1> HIDE DEF u, eid, sv
<1>2. u = [type |-> t.type, name |-> t.name, servers |-> t.servers,
           maxSv |-> sv, maxEid |-> eid, lastId |-> t.lastId]
  BY <1>1 DEF Shaped
<1>3. /\ u.servers = t.servers /\ u.lastId = t.lastId /\ u.type = t.type /\ u.name = t.name
      /\ u.maxEid = eid /\ u.maxSv = sv
  BY <1>2
<1> QED BY <1>3, Zenon DEF u, eid, sv

(* The places of some numbers among them, counted from one. *)
LEMMA Counted ==
  ASSUME NEW n \in Nat, NEW S \in SUBSET (1..n), NEW i \in S
  PROVE  /\ IsFiniteSet(S) /\ Cardinality(S) \in Nat
         /\ Cardinality({j \in S : j <= i}) \in 1..Cardinality(S)
         /\ \A k \in S : Cardinality({j \in S : j <= k}) = Cardinality({j \in S : j <= i}) => k = i
<1> DEFINE U(k) == {j \in S : j <= k}
<1>1. IsFiniteSet(S)
  <2>1. IsFiniteSet(1..n)
    BY FS_Interval
  <2> QED BY <2>1, FS_Subset
<1>2. ASSUME NEW k \in S
      PROVE  IsFiniteSet(U(k)) /\ Cardinality(U(k)) \in 1..Cardinality(S)
  <2>1. U(k) \in SUBSET S /\ k \in U(k)
    OBVIOUS
  <2> HIDE DEF U
  <2>2. IsFiniteSet(U(k)) /\ Cardinality(U(k)) <= Cardinality(S)
    BY <1>1, <2>1, FS_Subset
  <2>3. Cardinality(U(k)) \in Nat /\ Cardinality(S) \in Nat /\ Cardinality(U(k)) # 0
    BY <1>1, <2>1, <2>2, FS_CardinalityType, FS_EmptySet
  <2> QED BY <2>2, <2>3
<1>3. ASSUME NEW k \in S, NEW l \in S, k < l PROVE Cardinality(U(k)) # Cardinality(U(l))
  <2>1. U(k) \in SUBSET U(l) /\ l \in U(l) /\ l \notin U(k)
    <3>1. k \in Int /\ l \in Int /\ \A j \in S : j \in Int
      OBVIOUS
    <3>2. \A j \in S : j <= k => j <= l
      BY <1>3, <3>1
    <3>3. l <= l /\ ~(l <= k)
      BY <1>3, <3>1
    <3> QED BY <3>2, <3>3
  <2>2. IsFiniteSet(U(l))
    BY <1>2
  <2> HIDE DEF U
  <2> QED BY <2>1, <2>2, FS_Subset
<1>4. ASSUME NEW k \in S, Cardinality(U(k)) = Cardinality(U(i)) PROVE k = i
  <2>1. ~(k < i) /\ ~(i < k)
    <3> HIDE DEF U
    <3> QED BY <1>3, <1>4
  <2>2. k \in Nat /\ i \in Nat
    OBVIOUS
  <2> HIDE DEF U
  <2> QED BY <2>1, <2>2
<1>5. Cardinality(S) \in Nat
  BY <1>1, FS_CardinalityType
<1> QED BY <1>1, <1>2, <1>4, <1>5

LEMMA AddGrows ==
  ASSUME NEW t, NEW hosts \in Seq(Addr), Sound(t)
  PROVE  LET u == AddNewServers(t, hosts)
         IN /\ Grows(t, u) /\ Shaped(u)
            /\ u.type = t.type /\ u.name = t.name /\ u.maxSv = t.maxSv /\ u.maxEid = t.maxEid
<1> DEFINE u == AddNewServers(t, hosts)
           new == {i \in DOMAIN hosts : hosts[i] \notin Servers(t)}
           at(a) == CHOOSE i \in new : hosts[i] = a
           count(a) == Cardinality({j \in new : j <= at(a)})
           id(a) == t.lastId + count(a)
           all == Servers(t) \cup {hosts[i] : i \in new}
           next == [a \in all |-> IF a \in Servers(t) THEN t.servers[a] ELSE Blank(id(a))]
           n == Cardinality(new)
           name == t.name
           type == t.type
           maxSv == t.maxSv
           maxEid == t.maxEid
<1>1. Shaped(u)
  BY AddCalm DEF Calm, Sound
<1>2. u = [t EXCEPT !.servers = next, !.lastId = @ + n]
  BY DEF AddNewServers
<1>3. \A a \in all : next[a] = IF a \in Servers(t) THEN t.servers[a] ELSE Blank(id(a))
  OBVIOUS
<1>4. DOMAIN next = all
  OBVIOUS
<1>5. new \in SUBSET (1..Len(hosts)) /\ Len(hosts) \in Nat
  OBVIOUS
<1>6. n \in Nat
  <2>1. IsFiniteSet(1..Len(hosts))
    BY FS_Interval
  <2>2. IsFiniteSet(new)
    <3> HIDE DEF new
    <3> QED BY <1>5, <2>1, FS_Subset
  <2> QED BY <2>2, FS_CardinalityType
<1>7. ASSUME NEW a \in all, a \notin Servers(t)
      PROVE  at(a) \in new /\ hosts[at(a)] = a /\ a \in Addr
  <2>1. \E i \in new : hosts[i] = a
    BY <1>7
  <2>2. at(a) \in new /\ hosts[at(a)] = a
    <3> HIDE DEF new
    <3> QED BY <2>1, Zenon
  <2>3. hosts[at(a)] \in Addr
    <3> HIDE DEF at
    <3> QED BY <2>2
  <2> QED BY <2>2, <2>3
<1> HIDE DEF next, new, at, all
<1>8. ASSUME NEW a \in all, a \notin Servers(t)
      PROVE  count(a) \in 1..n
  <2> DEFINE l == Len(hosts)
             i == at(a)
  <2>1. l \in Nat /\ new \in SUBSET (1..l) /\ i \in new
    BY <1>5, <1>7, <1>8
  <2> HIDE DEF l, i
  <2>2. Cardinality({j \in new : j <= i}) \in 1..Cardinality(new)
    BY <2>1, Counted
  <2> QED BY <2>2 DEF i
<1>9. ASSUME NEW a \in all, a \notin Servers(t), NEW b \in all, b \notin Servers(t), count(a) = count(b)
      PROVE  a = b
  <2> DEFINE l == Len(hosts)
             i == at(a)
             k == at(b)
  <2>1. l \in Nat /\ new \in SUBSET (1..l) /\ i \in new /\ k \in new
    BY <1>5, <1>7, <1>9
  <2>2. Cardinality({j \in new : j <= k}) = Cardinality({j \in new : j <= i})
    BY <1>9
  <2> HIDE DEF l, i, k
  <2>3. k = i
    <3>1. \A x \in new : Cardinality({j \in new : j <= x}) = Cardinality({j \in new : j <= i}) => x = i
      BY <2>1, Counted
    <3> QED BY <2>1, <2>2, <3>1, Zenon
  <2>4. hosts[i] = a /\ hosts[k] = b
    BY <1>7, <1>9 DEF i, k
  <2> QED BY <2>3, <2>4
<1> HIDE DEF count
<1>10. t.lastId \in Nat
  BY DEF Sound
<1>11. ASSUME NEW a \in all, a \notin Servers(t)
       PROVE  next[a].id = id(a) /\ next[a].type = "Unknown" /\ id(a) \in t.lastId + 1 .. t.lastId + n
  <2>1. next[a] = Blank(id(a))
    BY <1>3, <1>11
  <2>2. next[a].id = id(a) /\ next[a].type = "Unknown"
    <3> HIDE DEF id
    <3> QED BY <2>1 DEF Blank
  <2>3. count(a) \in 1..n
    BY <1>8, <1>11
  <2>4. t.lastId + count(a) \in t.lastId + 1 .. t.lastId + n
    <3> HIDE DEF n
    <3> QED BY <1>6, <1>10, <2>3
  <2> QED BY <2>2, <2>4
<1>12. ASSUME NEW a \in all, a \in Servers(t)
       PROVE  next[a] = t.servers[a] /\ t.servers[a].id \in 1..t.lastId
  BY <1>3, <1>12 DEF Sound
<1>13. ASSUME NEW a \in all, NEW b \in all, next[a].id = next[b].id, next[a].id > t.lastId PROVE a = b
  <2>1. a \notin Servers(t) /\ b \notin Servers(t)
    <3>1. a \in Servers(t) => ~(next[a].id > t.lastId)
      BY <1>10, <1>12
    <3>2. b \in Servers(t) => ~(next[b].id > t.lastId)
      BY <1>10, <1>12
    <3> QED BY <1>13, <3>1, <3>2
  <2>2. id(a) = id(b)
    BY <1>11, <1>13, <2>1
  <2>3. count(a) \in Nat /\ count(b) \in Nat
    BY <1>6, <1>8, <2>1
  <2>4. count(a) = count(b)
    BY <1>10, <2>2, <2>3
  <2> QED BY <1>9, <2>1, <2>4
<1> DEFINE last == t.lastId + n
<1>14. u = [type |-> type, name |-> name, servers |-> next, maxSv |-> maxSv,
            maxEid |-> maxEid, lastId |-> last]
  BY <1>2 DEF Sound, Shaped
<1>15. last \in Nat /\ t.lastId <= last
  <2> HIDE DEF n
  <2> QED BY <1>6, <1>10
<1> HIDE DEF u, n, id, name, type, maxSv, maxEid
<1>16. \A b \in all :
         \/ b \in Servers(t) /\ Eased(t.servers[b], next[b])
         \/ /\ b \in Addr /\ next[b].type \in {"Unknown", "PossiblePrimary"}
            /\ next[b].id \in t.lastId + 1 .. last
  BY <1>7, <1>11, <1>12 DEF Eased
<1> HIDE DEF last
<1>17. /\ u.servers = next /\ u.lastId = last /\ u.type = type /\ u.name = name
       /\ u.maxSv = maxSv /\ u.maxEid = maxEid
  BY <1>14
<1>18. Servers(u) = all
  BY <1>4, <1>17 DEF Servers
<1>19. Grows(t, u)
  BY <1>10, <1>13, <1>15, <1>16, <1>17, <1>18, Zenon DEF Grows
<1> QED BY <1>1, <1>17, <1>19 DEF u, name, type, maxSv, maxEid

(* What a reply of a makes of a description in which it was stored. *)
RsType == {"RSNoPrimary", "RSWithPrimary"}
HostsOf(h) == {h.hosts[i] : i \in DOMAIN h.hosts}

(* Of a set a server is when it replied so, and the topology is named after the set. *)
Joins(t, a, h, u) ==
  u.type \in RsType /\ a \in Servers(u) /\ TypeAt(u, a) \notin InNoSet =>
    TypeAt(t, a) \in {"RSPrimary"} \cup Member /\ u.name = h.set

(* There is a primary when it replied, or there was one and no server is new. *)
Leads(t, a, h, u) ==
  u.type = "RSWithPrimary" => \A p \in Primaries(u) :
    \/ p = a /\ Servers(u) \subseteq HostsOf(h)
    \/ p # a /\ t.type = "RSWithPrimary" /\ Servers(u) \subseteq Servers(t)

(* The last election is that of the primary. *)
Tallies(t, a, h, u) ==
  \/ /\ u.maxSv = t.maxSv /\ u.maxEid = t.maxEid
     /\ a \in Primaries(u) => u.type = "Single"
  \/ /\ TypeAt(t, a) = "RSPrimary" /\ u.type \in RsType
     /\ ~(h.sv # 0 /\ h.eid # 0 /\ LaterElection(t, h))
     /\ u.maxEid = IF h.sv # 0 /\ h.eid # 0 THEN h.eid ELSE t.maxEid
     /\ u.maxSv = IF h.sv > t.maxSv THEN h.sv ELSE t.maxSv
     /\ Primaries(u) \subseteq {a}

Turned(t, a, h, u) ==
  /\ Shaped(u) /\ Grows(t, u)
  /\ t.type \in RsType => u.type \in RsType
  /\ t.type \in {"Single", "Sharded"} => u.type = t.type
  /\ u.type = "Unknown" /\ a \in Servers(u) => TypeAt(u, a) \in InNoSet
  /\ t.name # None => u.name = t.name
  /\ Joins(t, a, h, u) /\ Leads(t, a, h, u) /\ Tallies(t, a, h, u)

Told(t, a, h) ==
  /\ Sound(t) /\ a \in Servers(t) /\ h.hosts \in Seq(Addr)
  /\ t.type \in TopologyType /\ TypeAt(t, a) \in ServerType
  /\ TypeAt(t, a) \in {"RSPrimary"} \cup Member => h.set # None
  /\ Primaries(t) \ {a} # {} => t.type \in {"RSWithPrimary", "Single"}

LEMMA EasesTurned ==
  ASSUME NEW t, NEW a, NEW h, NEW u, Told(t, a, h), Eases(t, u), Shaped(u), Joins(t, a, h, u),
         t.type \in RsType => u.type \in RsType,
         t.type \in {"Single", "Sharded"} => u.type = t.type,
         u.type = "Unknown" /\ a \in Servers(u) => TypeAt(u, a) \in InNoSet,
         a \in Primaries(u) => u.type = "Single"
  PROVE  Turned(t, a, h, u)
<1>1. Grows(t, u)
  BY EasesGrows DEF Told
<1>2. Leads(t, a, h, u)
  <2>1. SUFFICES ASSUME u.type = "RSWithPrimary", NEW p \in Primaries(u)
                 PROVE  p # a /\ t.type = "RSWithPrimary" /\ Servers(u) \subseteq Servers(t)
    BY DEF Leads
  <2>2. p # a /\ p \in Servers(u) /\ TypeAt(u, p) = "RSPrimary"
    BY <2>1 DEF Primaries
  <2>3. p \in Servers(t) /\ Eased(t.servers[p], u.servers[p]) /\ Servers(u) \subseteq Servers(t)
    BY <2>2 DEF Eases
  <2>4. p \in Primaries(t) \ {a}
    BY <2>2, <2>3 DEF Primaries, TypeAt, Eased
  <2>5. t.type \in {"RSWithPrimary", "Single"} /\ t.type # "Single"
    BY <2>1, <2>4 DEF Told
  <2> QED BY <2>2, <2>3, <2>5
<1>3. Tallies(t, a, h, u)
  BY Zenon DEF Tallies, Eases
<1> QED BY <1>1, <1>2, <1>3, Zenon DEF Turned, Eases

LEMMA NamedTurned ==
  ASSUME NEW t, NEW a, NEW h, NEW u, Shaped(t), Turned(Named(t, h), a, h, u)
  PROVE  Turned(t, a, h, u)
<1> DEFINE w == Named(t, h)
<1>1. /\ w.servers = t.servers /\ w.lastId = t.lastId /\ w.type = t.type
      /\ w.maxSv = t.maxSv /\ w.maxEid = t.maxEid /\ (t.name # None => w.name = t.name)
  BY NamedFields
<1> HIDE DEF w
<1>2. Servers(w) = Servers(t) /\ TypeAt(w, a) = TypeAt(t, a)
  BY <1>1 DEF Servers, TypeAt
<1>3. Turned(w, a, h, u)
  BY DEF w
<1>4. Grows(t, u)
  BY <1>1, <1>2, <1>3, Zenon DEF Turned, Grows
<1>5. LaterElection(t, h) = LaterElection(w, h)
  BY <1>1 DEF LaterElection
<1>6. Joins(t, a, h, u) /\ Leads(t, a, h, u)
  BY <1>1, <1>2, <1>3, Zenon DEF Turned, Joins, Leads
<1>7. Tallies(t, a, h, u)
  BY <1>1, <1>2, <1>3, <1>5 DEF Turned, Tallies
<1>8. t.name # None => u.name = t.name
  BY <1>1, <1>3 DEF Turned
<1> QED BY <1>1, <1>3, <1>4, <1>6, <1>7, <1>8, Zenon DEF Turned

LEMMA NamedTold ==
  ASSUME NEW t, NEW a, NEW h, Told(t, a, h)
  PROVE  Told(Named(t, h), a, h)
<1> DEFINE w == Named(t, h)
<1>1. Shaped(t)
  BY DEF Told, Sound
<1>2. w.servers = t.servers /\ w.lastId = t.lastId /\ w.type = t.type
  BY <1>1, NamedFields
<1>3. Shaped(w)
  BY <1>1, NamedCalm DEF Calm
<1> HIDE DEF w
<1>4. Servers(w) = Servers(t) /\ TypeAt(w, a) = TypeAt(t, a) /\ Primaries(w) = Primaries(t)
  BY <1>2 DEF Servers, TypeAt, Primaries
<1>5. Sound(w)
  BY <1>2, <1>3, <1>4 DEF Told, Sound
<1>6. Told(w, a, h)
  BY <1>2, <1>4, <1>5, Zenon DEF Told
<1> QED BY <1>6 DEF w

LEMMA RemovedTurned ==
  ASSUME NEW t, NEW a, NEW h, Told(t, a, h)
  PROVE  /\ Turned(t, a, h, RemoveServers(t, {a}))
         /\ t.type \in RsType \cup {"Unknown"} => Turned(t, a, h, UpdateRsType(RemoveServers(t, {a})))
<1> DEFINE u == RemoveServers(t, {a})
           w == UpdateRsType(u)
<1>1. Shaped(t)
  BY DEF Told, Sound
<1>2. Shaped(u) /\ Eases(t, u) /\ u.type = t.type /\ a \notin Servers(u)
  BY <1>1, RemoveCalm, RemoveEases DEF Calm
<1>3. Turned(t, a, h, u)
  <2>1. Joins(t, a, h, u) /\ a \notin Primaries(u)
    BY <1>2, Zenon DEF Joins, Primaries
  <2> HIDE DEF u
  <2> QED BY <1>2, <2>1, EasesTurned
<1> HIDE DEF u
<1>4. Shaped(w) /\ Eases(u, w) /\ w.type \in RsType /\ w.servers = u.servers
  BY <1>2, UpdateRsTypeEases DEF RsType
<1>5. Eases(t, w) /\ a \notin Servers(w)
  BY <1>2, <1>4, EasesEases DEF Servers
<1>6. ASSUME t.type \in RsType \cup {"Unknown"} PROVE Turned(t, a, h, w)
  <2>1. Joins(t, a, h, w) /\ a \notin Primaries(w)
    BY <1>5, Zenon DEF Joins, Primaries
  <2>2. t.type \notin {"Single", "Sharded"}
    BY <1>6 DEF RsType
  <2> HIDE DEF w
  <2> QED BY <1>4, <1>5, <2>1, <2>2, EasesTurned
<1> QED BY <1>3, <1>6 DEF u

LEMMA FromPrimaryTurned ==
  ASSUME NEW t, NEW a, NEW h, Told(t, a, h), TypeAt(t, a) = "RSPrimary", t.type \in RsType \cup {"Unknown"}
  PROVE  Turned(t, a, h, UpdateRsFromPrimary(t, a, h))
<1> DEFINE named == Named(t, h)
           elected == Elected(named, h)
           alone == InvalidatePrimaries(elected, a)
           added == AddNewServers(alone, h.hosts)
           gone == {b \in Servers(added) : \A i \in DOMAIN h.hosts : h.hosts[i] # b}
           left == RemoveServers(added, gone)
           back == Invalidate(named, a)
<1>1. \/ UpdateRsFromPrimary(t, a, h) = UpdateRsType(RemoveServers(t, {a}))
      \/ UpdateRsFromPrimary(t, a, h) = UpdateRsType(back)
      \/ /\ ~WrongSet(t, h) /\ ~(h.sv # 0 /\ h.eid # 0 /\ LaterElection(t, h))
         /\ UpdateRsFromPrimary(t, a, h) = UpdateRsType(left)
  BY Zenon DEF UpdateRsFromPrimary
<1>2. Shaped(t)
  BY DEF Told, Sound
<1>3. Told(named, a, h) /\ Shaped(named)
  BY NamedTold DEF Told, Sound
<1>4. /\ named.servers = t.servers /\ named.lastId = t.lastId /\ named.type = t.type
      /\ named.maxSv = t.maxSv /\ named.maxEid = t.maxEid
      /\ named.name = IF t.name = None /\ h.set # None THEN h.set ELSE t.name
  BY <1>2, NamedFields
<1>5. a \in Servers(named) /\ h.hosts \in Seq(Addr)
  BY <1>3 DEF Told
<1> HIDE DEF named
<1>6. Turned(t, a, h, UpdateRsType(back))
  <2> DEFINE w == UpdateRsType(back)
  <2>1. Eases(named, back) /\ Shaped(back) /\ Servers(back) = Servers(named) /\ TypeAt(back, a) = "Unknown"
    BY <1>3, <1>5, InvalidateEases
  <2> HIDE DEF back
  <2>2. Shaped(w) /\ Eases(back, w) /\ w.type \in RsType /\ w.servers = back.servers
    BY <2>1, UpdateRsTypeEases DEF RsType
  <2> HIDE DEF w
  <2>3. Eases(named, w) /\ TypeAt(w, a) = "Unknown"
    BY <2>1, <2>2, EasesEases DEF TypeAt
  <2>4. Joins(named, a, h, w) /\ a \notin Primaries(w)
    BY <2>3 DEF Joins, InNoSet, Primaries
  <2>5. w.type # "Unknown" /\ named.type \notin {"Single", "Sharded"}
    BY <1>4, <2>2 DEF RsType
  <2>6. Turned(named, a, h, w)
    BY <1>3, <2>2, <2>3, <2>4, <2>5, EasesTurned
  <2> QED BY <1>2, <2>6, NamedTurned DEF named, w
<1>7. ASSUME ~WrongSet(t, h), ~(h.sv # 0 /\ h.eid # 0 /\ LaterElection(t, h))
      PROVE  Turned(t, a, h, UpdateRsType(left))
  <2> DEFINE w == UpdateRsType(left)
  <2>1. Shaped(elected)
    BY <1>3, ElectedCalm DEF Calm
  <2>2. /\ elected.servers = named.servers /\ elected.lastId = named.lastId
        /\ elected.type = named.type /\ elected.name = named.name
        /\ elected.maxEid = IF h.sv # 0 /\ h.eid # 0 THEN h.eid ELSE named.maxEid
        /\ elected.maxSv = IF h.sv > named.maxSv THEN h.sv ELSE named.maxSv
    BY <1>3, ElectedFields
  <2> HIDE DEF elected
  <2>3. Servers(elected) = Servers(t)
    BY <1>4, <2>2 DEF Servers
  <2>4. Sound(elected)
    BY <1>4, <2>1, <2>2, <2>3 DEF Told, Sound
  <2>5. Eases(elected, alone) /\ Shaped(alone) /\ Primaries(alone) \subseteq {a}
    BY <2>1, InvalidatePrimariesEases, InvalidatePrimariesCalm DEF Calm
  <2> HIDE DEF alone
  <2>6. Grows(elected, alone) /\ Sound(alone)
    BY <2>4, <2>5, EasesGrows, GrowsSound
  <2>7. /\ Grows(alone, added) /\ Shaped(added)
        /\ added.name = alone.name /\ added.maxSv = alone.maxSv /\ added.maxEid = alone.maxEid
        /\ Primaries(added) \subseteq Primaries(alone)
    BY <1>5, <2>5, <2>6, AddGrows, AddCalm DEF Calm
  <2> HIDE DEF added
  <2>8. Sound(added)
    BY <2>6, <2>7, GrowsSound
  <2>9. /\ Eases(added, left) /\ Shaped(left) /\ Servers(left) = Servers(added) \ gone
        /\ Primaries(left) = Primaries(added) \ gone
    BY <2>7, RemoveEases, RemoveCalm DEF Calm
  <2>10. Servers(added) \ gone \subseteq HostsOf(h)
    BY DEF HostsOf
  <2> HIDE DEF left, gone
  <2>11. Eases(left, w) /\ Shaped(w) /\ w.type \in RsType /\ w.servers = left.servers
    BY <2>9, UpdateRsTypeEases DEF RsType
  <2> HIDE DEF w
  <2>12. Eases(added, w)
    BY <2>9, <2>11, EasesEases
  <2>13. Grows(elected, w)
    BY <2>6, <2>7, <2>8, <2>12, EasesGrows, GrowsGrows
  <2>14. Grows(t, w)
    BY <1>4, <2>2, <2>3, <2>13, Zenon DEF Grows
  <2>15. Primaries(w) \subseteq {a} /\ Servers(w) \subseteq HostsOf(h)
    BY <2>5, <2>7, <2>9, <2>10, <2>11 DEF Primaries, Servers, TypeAt
  <2>16. /\ w.name = named.name
         /\ w.maxEid = IF h.sv # 0 /\ h.eid # 0 THEN h.eid ELSE t.maxEid
         /\ w.maxSv = IF h.sv > t.maxSv THEN h.sv ELSE t.maxSv
    <3>1. w.name = elected.name /\ w.maxEid = elected.maxEid /\ w.maxSv = elected.maxSv
      BY <2>5, <2>7, <2>12 DEF Eases
    <3> QED BY <1>4, <2>2, <3>1
  <2>17. named.name = h.set /\ (t.name # None => named.name = t.name)
    BY <1>4, <1>7 DEF WrongSet, Told, Member
  <2>18. Joins(t, a, h, w)
    BY <2>16, <2>17 DEF Joins
  <2>19. Leads(t, a, h, w)
    BY <2>15 DEF Leads
  <2>20. Tallies(t, a, h, w)
    BY <1>7, <2>11, <2>15, <2>16, Zenon DEF Tallies
  <2>21. w.type # "Unknown" /\ t.type \notin {"Single", "Sharded"}
    BY <2>11 DEF RsType
  <2>22. Turned(t, a, h, w)
    BY <2>11, <2>14, <2>16, <2>17, <2>18, <2>19, <2>20, <2>21, Zenon DEF Turned
  <2> QED BY <2>22 DEF w
<1> QED BY <1>1, <1>6, <1>7, RemovedTurned, Zenon

(* Of a member that replied no step makes a primary. *)
LEMMA NoPrimaryGrown ==
  ASSUME NEW t, NEW u, NEW a \in Servers(t), Grows(t, u), TypeAt(t, a) # "RSPrimary"
  PROVE  a \notin Primaries(u)
<1> SUFFICES ASSUME a \in Servers(u), u.servers[a].type = "RSPrimary" PROVE FALSE
  BY DEF Primaries, TypeAt
<1>1. \/ u.servers[a].type = t.servers[a].type
      \/ u.servers[a].type \in {"Unknown", "PossiblePrimary"}
  BY Zenon DEF Grows, Eased
<1> QED BY <1>1 DEF TypeAt

LEMMA WithoutPrimaryTurned ==
  ASSUME NEW t, NEW a, NEW h, Told(t, a, h), TypeAt(t, a) \in Member, t.type = "RSNoPrimary"
  PROVE  /\ Turned(t, a, h, UpdateRsWithoutPrimary(t, a, h))
         /\ UpdateRsWithoutPrimary(t, a, h).type = "RSNoPrimary"
<1> DEFINE named == Named(t, h)
           added == AddNewServers(named, h.hosts)
           labelled == IF h.primary = None THEN added ELSE LabelPossiblePrimary(added, h.primary)
           left == RemoveServers(labelled, {a})
<1>1. \/ UpdateRsWithoutPrimary(t, a, h) = RemoveServers(t, {a})
      \/ ~WrongSet(t, h) /\ UpdateRsWithoutPrimary(t, a, h) = labelled
      \/ ~WrongSet(t, h) /\ UpdateRsWithoutPrimary(t, a, h) = left
  BY Zenon DEF UpdateRsWithoutPrimary
<1>2. Shaped(t)
  BY DEF Told, Sound
<1>3. Told(named, a, h) /\ Sound(named) /\ Shaped(named)
  BY NamedTold DEF Told, Sound
<1>4. /\ named.servers = t.servers /\ named.type = "RSNoPrimary"
      /\ named.name = IF t.name = None /\ h.set # None THEN h.set ELSE t.name
  BY <1>2, NamedFields
<1>5. a \in Servers(named) /\ h.hosts \in Seq(Addr) /\ TypeAt(named, a) # "RSPrimary"
      /\ TypeAt(named, a) \in Member
  BY <1>3, <1>4 DEF Told, TypeAt, Member
<1> HIDE DEF named
<1>6. /\ Grows(named, added) /\ Shaped(added) /\ added.type = named.type
      /\ added.name = named.name /\ added.maxSv = named.maxSv /\ added.maxEid = named.maxEid
  BY <1>3, <1>5, AddGrows
<1> HIDE DEF added
<1>7. Sound(added)
  BY <1>3, <1>6, GrowsSound
<1>8. Eases(added, labelled) /\ Shaped(labelled) /\ labelled.type = added.type
  <2>1. Eases(added, added)
    BY DEF Eases, Eased
  <2> QED BY <1>6, <2>1, LabelEases
<1> HIDE DEF labelled
<1>9. Eases(labelled, left) /\ Shaped(left) /\ left.type = labelled.type
  BY <1>8, RemoveEases, RemoveCalm DEF Calm
<1>10. Eases(added, left)
  BY <1>8, <1>9, EasesEases
<1> HIDE DEF left
<1>11. ASSUME ~WrongSet(t, h), NEW w, Eases(added, w), Shaped(w), w.type = "RSNoPrimary"
       PROVE  Turned(t, a, h, w)
  <2>1. Grows(named, w)
    BY <1>6, <1>7, <1>11, EasesGrows, GrowsGrows
  <2>2. w.name = named.name /\ w.maxSv = named.maxSv /\ w.maxEid = named.maxEid
    BY <1>6, <1>11 DEF Eases
  <2>3. a \notin Primaries(w)
    BY <1>5, <2>1, NoPrimaryGrown
  <2>4. named.name = h.set
    BY <1>4, <1>11 DEF WrongSet, Told
  <2>5. Joins(named, a, h, w) /\ Leads(named, a, h, w) /\ Tallies(named, a, h, w)
    BY <1>5, <1>11, <2>2, <2>3, <2>4 DEF Joins, Leads, Tallies
  <2>6. Turned(named, a, h, w)
    BY <1>4, <1>11, <2>1, <2>2, <2>5 DEF Turned, RsType
  <2> QED BY <1>2, <2>6, NamedTurned DEF named
<1>12. Turned(t, a, h, RemoveServers(t, {a})) /\ RemoveServers(t, {a}).type = "RSNoPrimary"
  BY <1>2, RemovedTurned, RemoveEases
<1> QED BY <1>1, <1>4, <1>6, <1>8, <1>9, <1>10, <1>11, <1>12

LEMMA FromMemberTurned ==
  ASSUME NEW t, NEW a, NEW h, Told(t, a, h), TypeAt(t, a) \in Member, t.type = "RSWithPrimary"
  PROVE  Turned(t, a, h, UpdateRsWithPrimaryFromMember(t, a, h))
<1> DEFINE apart == [t EXCEPT !.type = "RSNoPrimary"]
           labelled == LabelPossiblePrimary(apart, h.primary)
<1>1. \/ UpdateRsWithPrimaryFromMember(t, a, h) = UpdateRsType(RemoveServers(t, {a}))
      \/ UpdateRsWithPrimaryFromMember(t, a, h) = RemoveServers(t, {a})
      \/ t.name = h.set /\ UpdateRsWithPrimaryFromMember(t, a, h) = labelled
      \/ t.name = h.set /\ UpdateRsWithPrimaryFromMember(t, a, h) = t
  BY Zenon DEF UpdateRsWithPrimaryFromMember
<1>2. Sound(t) /\ Shaped(t)
  BY DEF Told, Sound
<1>3. Eases(t, apart) /\ Shaped(apart) /\ apart.type = "RSNoPrimary"
  BY <1>2, SetTypeEases
<1> HIDE DEF apart
<1>4. Eases(t, labelled) /\ Shaped(labelled) /\ labelled.type = "RSNoPrimary"
  BY <1>3, LabelEases, EasesEases
<1> HIDE DEF labelled
<1>5. Eases(t, t)
  BY DEF Eases, Eased
<1>6. ASSUME t.name = h.set, NEW w, Eases(t, w), Shaped(w), w.type \in RsType
      PROVE  Turned(t, a, h, w)
  <2>1. Joins(t, a, h, w)
    BY <1>6 DEF Joins, Eases
  <2>2. a \notin Primaries(w)
    BY <1>2, <1>6, EasesGrows, NoPrimaryGrown DEF Told, Member
  <2>3. w.type # "Unknown" /\ t.type \notin {"Single", "Sharded"}
    BY <1>6 DEF RsType
  <2> QED BY <1>6, <2>1, <2>2, <2>3, EasesTurned
<1> QED BY <1>1, <1>2, <1>4, <1>5, <1>6, RemovedTurned DEF RsType

LEMMA StandaloneTurned ==
  ASSUME NEW t, NEW a, NEW h, Told(t, a, h), TypeAt(t, a) = "Standalone", t.type = "Unknown"
  PROVE  Turned(t, a, h, UpdateUnknownWithStandalone(t, a))
<1> DEFINE lone == [t EXCEPT !.type = "Single"]
<1>1. UpdateUnknownWithStandalone(t, a) = lone \/ UpdateUnknownWithStandalone(t, a) = RemoveServers(t, {a})
  BY Zenon DEF UpdateUnknownWithStandalone
<1>2. Eases(t, lone) /\ Shaped(lone) /\ lone.type = "Single" /\ lone.servers = t.servers
  BY SetTypeEases DEF Told, Sound
<1> HIDE DEF lone
<1>3. Turned(t, a, h, lone)
  BY <1>2, EasesTurned DEF Joins, RsType
<1> QED BY <1>1, <1>3, RemovedTurned

LEMMA TransitionTurned ==
  ASSUME NEW t, NEW a, NEW h, Told(t, a, h)
  PROVE  Turned(t, a, h, Transition(t, a, h))
<1> DEFINE s == TypeAt(t, a)
           apart == [t EXCEPT !.type = "RSNoPrimary"]
           sharded == [t EXCEPT !.type = "Sharded"]
<1>1. Sound(t) /\ Shaped(t) /\ t.type \in TopologyType
  BY DEF Told, Sound
<1>2. Eases(t, t)
  BY DEF Eases, Eased
<1>3. /\ Turned(t, a, h, RemoveServers(t, {a}))
      /\ t.type \in RsType \cup {"Unknown"} => Turned(t, a, h, UpdateRsType(RemoveServers(t, {a})))
  BY RemovedTurned
<1>4. ASSUME s \in InNoSet, t.type \in TopologyType \ {"Single"} PROVE Turned(t, a, h, t)
  <2>1. Joins(t, a, h, t) /\ a \notin Primaries(t)
    BY <1>4 DEF Joins, Primaries, InNoSet
  <2> QED BY <1>1, <1>2, <1>4, <2>1, EasesTurned
<1>5. ASSUME t.type \in {"Single", "Sharded"}, s # "RSPrimary" \/ t.type = "Single" PROVE Turned(t, a, h, t)
  <2>1. Joins(t, a, h, t) /\ t.type # "Unknown" /\ (a \in Primaries(t) => t.type = "Single")
    BY <1>5 DEF Joins, RsType, Primaries
  <2> QED BY <1>1, <1>2, <2>1, EasesTurned
<1>6. ASSUME s = "RSPrimary", t.type \in RsType \cup {"Unknown"}
      PROVE  Turned(t, a, h, UpdateRsFromPrimary(t, a, h))
  BY <1>6, FromPrimaryTurned
<1>7. CASE t.type = "Unknown"
  <2>1. CASE s = "Standalone"
    <3>1. Transition(t, a, h) = UpdateUnknownWithStandalone(t, a)
      BY <1>7, <2>1 DEF Transition, Member
    <3> QED BY <1>7, <2>1, <3>1, StandaloneTurned
  <2>2. CASE s = "Mongos"
    <3>1. Transition(t, a, h) = sharded
      BY <1>7, <2>2 DEF Transition, Member
    <3>2. Eases(t, sharded) /\ Shaped(sharded) /\ sharded.type = "Sharded" /\ sharded.servers = t.servers
      BY <1>1, SetTypeEases
    <3> HIDE DEF sharded
    <3>3. Joins(t, a, h, sharded) /\ a \notin Primaries(sharded)
      BY <2>2, <3>2 DEF Joins, RsType, Primaries, TypeAt
    <3> QED BY <1>7, <3>1, <3>2, <3>3, EasesTurned DEF RsType
  <2>3. CASE s = "RSPrimary"
    <3>1. Transition(t, a, h) = UpdateRsFromPrimary(t, a, h)
      BY <1>7, <2>3 DEF Transition, Member
    <3> QED BY <1>6, <1>7, <2>3, <3>1
  <2>4. CASE s \in Member
    <3> DEFINE w == UpdateRsWithoutPrimary(apart, a, h)
    <3>1. Transition(t, a, h) = w
      BY <1>7, <2>4 DEF Transition, Member
    <3>2. /\ Eases(t, apart) /\ Shaped(apart) /\ apart.type = "RSNoPrimary" /\ apart.servers = t.servers
      BY <1>1, SetTypeEases
    <3> HIDE DEF apart
    <3>3. Servers(apart) = Servers(t) /\ TypeAt(apart, a) = s /\ Primaries(apart) = Primaries(t)
      BY <3>2 DEF Servers, TypeAt, Primaries
    <3>4. apart.name = t.name /\ apart.lastId = t.lastId /\ apart.maxSv = t.maxSv /\ apart.maxEid = t.maxEid
      BY <3>2 DEF Eases
    <3>5. Sound(apart)
      BY <1>1, <3>2, EasesGrows, GrowsSound
    <3>6. Primaries(t) \ {a} = {}
      BY <1>7 DEF Told
    <3>7. Told(apart, a, h)
      BY <3>2, <3>3, <3>5, <3>6 DEF Told, TopologyType
    <3>8. Turned(apart, a, h, w) /\ w.type = "RSNoPrimary"
      BY <2>4, <3>2, <3>3, <3>7, WithoutPrimaryTurned
    <3> HIDE DEF w
    <3>9. Grows(t, w)
      BY <3>2, <3>3, <3>4, <3>8, Zenon DEF Grows, Turned
    <3>10. Joins(t, a, h, w)
      BY <3>3, <3>8 DEF Turned, Joins
    <3>11. Leads(t, a, h, w)
      BY <3>8 DEF Leads
    <3>12. Tallies(t, a, h, w)
      BY <2>4, <3>3, <3>4, <3>8 DEF Turned, Tallies, Member
    <3>13. Turned(t, a, h, w)
      BY <1>7, <3>4, <3>8, <3>9, <3>10, <3>11, <3>12 DEF Turned, RsType
    <3> QED BY <3>1, <3>13
  <2>5. CASE s \notin {"Standalone", "Mongos", "RSPrimary"} \cup Member
    <3>1. Transition(t, a, h) = t
      BY <1>7, <2>5 DEF Transition, Member
    <3>2. s \in InNoSet
      BY <2>5 DEF Told, ServerType, Member, InNoSet
    <3> QED BY <1>4, <1>7, <3>1, <3>2 DEF TopologyType
  <2> QED BY <2>1, <2>2, <2>3, <2>4, <2>5
<1>8. CASE t.type = "Sharded"
  <2>1. CASE s \in {"Standalone", "RSPrimary", "RSGhost"} \cup Member
    <3>1. Transition(t, a, h) = RemoveServers(t, {a})
      BY <1>8, <2>1 DEF Transition, Member
    <3> QED BY <1>3, <3>1
  <2>2. CASE s \notin {"Standalone", "RSPrimary", "RSGhost"} \cup Member
    <3>1. Transition(t, a, h) = t
      BY <1>8, <2>2 DEF Transition, Member
    <3> QED BY <1>5, <1>8, <2>2, <3>1
  <2> QED BY <2>1, <2>2
<1>9. CASE t.type = "RSNoPrimary"
  <2>1. CASE s \in {"Standalone", "Mongos"}
    <3>1. Transition(t, a, h) = RemoveServers(t, {a})
      BY <1>9, <2>1 DEF Transition, Member
    <3> QED BY <1>3, <3>1
  <2>2. CASE s = "RSPrimary"
    <3>1. Transition(t, a, h) = UpdateRsFromPrimary(t, a, h)
      BY <1>9, <2>2 DEF Transition, Member
    <3> QED BY <1>6, <1>9, <2>2, <3>1 DEF RsType
  <2>3. CASE s \in Member
    <3>1. Transition(t, a, h) = UpdateRsWithoutPrimary(t, a, h)
      BY <1>9, <2>3 DEF Transition, Member
    <3> QED BY <1>9, <2>3, <3>1, WithoutPrimaryTurned
  <2>4. CASE s \notin {"Standalone", "Mongos", "RSPrimary"} \cup Member
    <3>1. Transition(t, a, h) = t
      BY <1>9, <2>4 DEF Transition, Member
    <3>2. s \in InNoSet
      BY <2>4 DEF Told, ServerType, Member, InNoSet
    <3> QED BY <1>4, <1>9, <3>1, <3>2 DEF TopologyType
  <2> QED BY <2>1, <2>2, <2>3, <2>4
<1>10. CASE t.type = "RSWithPrimary"
  <2>1. CASE s \in {"Unknown", "RSGhost"}
    <3> DEFINE w == UpdateRsType(t)
    <3>1. Transition(t, a, h) = w
      BY <1>10, <2>1 DEF Transition, Member
    <3>2. Eases(t, w) /\ Shaped(w) /\ w.type \in RsType /\ w.servers = t.servers
      BY <1>1, UpdateRsTypeEases DEF RsType
    <3> HIDE DEF w
    <3>3. Joins(t, a, h, w) /\ a \notin Primaries(w)
      BY <2>1, <3>2 DEF Joins, Primaries, TypeAt, InNoSet
    <3>4. w.type # "Unknown"
      BY <3>2 DEF RsType
    <3> QED BY <1>10, <3>1, <3>2, <3>3, <3>4, EasesTurned
  <2>2. CASE s \in {"Standalone", "Mongos"}
    <3>1. Transition(t, a, h) = UpdateRsType(RemoveServers(t, {a}))
      BY <1>10, <2>2 DEF Transition, Member
    <3> QED BY <1>3, <1>10, <3>1 DEF RsType
  <2>3. CASE s = "RSPrimary"
    <3>1. Transition(t, a, h) = UpdateRsFromPrimary(t, a, h)
      BY <1>10, <2>3 DEF Transition, Member
    <3> QED BY <1>6, <1>10, <2>3, <3>1 DEF RsType
  <2>4. CASE s \in Member
    <3>1. Transition(t, a, h) = UpdateRsWithPrimaryFromMember(t, a, h)
      BY <1>10, <2>4 DEF Transition, Member
    <3> QED BY <1>10, <2>4, <3>1, FromMemberTurned
  <2>5. CASE s \notin {"Unknown", "RSGhost", "Standalone", "Mongos", "RSPrimary"} \cup Member
    <3>1. Transition(t, a, h) = t
      BY <1>10, <2>5 DEF Transition, Member
    <3>2. s \in InNoSet
      BY <2>5 DEF Told, ServerType, Member, InNoSet
    <3> QED BY <1>4, <1>10, <3>1, <3>2 DEF TopologyType
  <2> QED BY <2>1, <2>2, <2>3, <2>4, <2>5
<1>11. CASE t.type = "Single"
  <2>1. Transition(t, a, h) = t
    BY <1>11 DEF Transition, Member
  <2> QED BY <1>5, <1>11, <2>1
<1> QED BY <1>1, <1>7, <1>8, <1>9, <1>10, <1>11 DEF TopologyType

------------------------------------------------------------------------------
(* Replies and failures *)

(* An id that was given is that of the same server, if of any. *)
Follows(t, u) ==
  /\ t.lastId \in Nat /\ u.lastId \in Nat /\ t.lastId <= u.lastId
  /\ \A b \in Servers(u) : ~(u.servers[b].id > t.lastId) =>
       b \in Servers(t) /\ t.servers[b].id = u.servers[b].id

(* The description with a reply stored, before it is acted on. *)
Stored(t, a, h, u) ==
  /\ Shaped(u) /\ a \in Servers(t) /\ Servers(u) = Servers(t)
  /\ u.type = t.type /\ u.name = t.name /\ u.lastId = t.lastId
  /\ u.maxSv = t.maxSv /\ u.maxEid = t.maxEid
  /\ u.servers[a].id = t.servers[a].id /\ u.servers[a].type = Typed(h)
  /\ u.servers[a].sv = h.sv /\ u.servers[a].eid = h.eid
  /\ \A b \in Servers(t) \ {a} : u.servers[b] = t.servers[b]

LEMMA GrowsFollows == ASSUME NEW t, NEW u, Grows(t, u) PROVE Follows(t, u)
<1>1. t.lastId \in Nat /\ u.lastId \in Nat /\ t.lastId <= u.lastId
  BY Zenon DEF Grows
<1>2. ASSUME NEW b \in Servers(u), ~(u.servers[b].id > t.lastId)
      PROVE  b \in Servers(t) /\ t.servers[b].id = u.servers[b].id
  <2>1. ~(u.servers[b].id \in t.lastId + 1 .. u.lastId)
    BY <1>1, <1>2
  <2>2. b \in Servers(t) /\ Eased(t.servers[b], u.servers[b])
    BY <2>1, Zenon DEF Grows
  <2> QED BY <2>2 DEF Eased
<1> QED BY <1>1, <1>2, Zenon DEF Follows

LEMMA TypedIs ==
  ASSUME NEW h
  PROVE  /\ Typed(h) \in ServerType
         /\ Typed(h) \in {"RSPrimary"} \cup Member => h.set # None /\ h.ok
         /\ Typed(h) = "RSPrimary" => h.role = "primary"
  BY DEF Typed, ServerType, Member

LEMMA StoreReply ==
  ASSUME NEW t, NEW a \in Servers(t), NEW h, Shaped(t)
  PROVE  Stored(t, a, h, [t EXCEPT !.servers[a] = ServerHello(@, h)])
<1> DEFINE u == [t EXCEPT !.servers[a] = ServerHello(@, h)]
           yes == TRUE
           type == Typed(h)
           sd == [id |-> t.servers[a].id, type |-> type, hello |-> yes, sv |-> h.sv, eid |-> h.eid,
                  tv |-> h.tv]
           id == t.servers[a].id
           sv == h.sv
           eid == h.eid
           tv == h.tv
<1>1. ServerHello(t.servers[a], h) = sd
  BY Zenon DEF ServerHello
<1>2. u = [t EXCEPT !.servers[a] = sd]
  BY <1>1
<1>3. sd = [id |-> id, type |-> type, hello |-> yes, sv |-> sv, eid |-> eid, tv |-> tv]
  OBVIOUS
<1> HIDE DEF yes, type
<1>4. sd.id = t.servers[a].id /\ sd.type = type /\ sd.sv = h.sv /\ sd.eid = h.eid
  OBVIOUS
<1> HIDE DEF sd, u
<1>5. Shaped(u) /\ u.type = t.type /\ Servers(u) = Servers(t)
  <2> HIDE DEF id, sv, eid, tv
  <2> QED BY <1>2, <1>3, SetServer
<1>6. /\ u.name = t.name /\ u.lastId = t.lastId /\ u.maxSv = t.maxSv /\ u.maxEid = t.maxEid
      /\ u.servers[a] = sd /\ \A b \in Servers(t) \ {a} : u.servers[b] = t.servers[b]
  BY <1>2 DEF Shaped, Servers
<1>7. Stored(t, a, h, u)
  BY <1>4, <1>5, <1>6, Zenon DEF Stored, type
<1> QED BY <1>7 DEF u

LEMMA StoredTold ==
  ASSUME NEW t, NEW a, NEW h \in HelloReply, NEW u, Sound(t), Good(t), Stored(t, a, h, u)
  PROVE  Told(u, a, h)
<1>1. h.hosts \in Seq(Addr)
  BY DEF HelloReply
<1>2. Sound(u)
  <2>1. \A b \in Servers(t) : u.servers[b].id = t.servers[b].id
    BY Zenon DEF Stored
  <2> QED BY <2>1, Zenon DEF Sound, Stored
<1>3. TypeAt(u, a) = Typed(h)
  BY DEF Stored, TypeAt
<1>4. Primaries(u) \ {a} \subseteq Primaries(t)
  BY Zenon DEF Stored, Primaries, TypeAt
<1>5. u.type \in TopologyType /\ u.type = t.type
  BY DEF Good, Stored
<1>6. Primaries(u) \ {a} # {} => u.type \in {"RSWithPrimary", "Single"}
  BY <1>4, <1>5 DEF Good
<1>7. a \in Servers(u)
  BY DEF Stored
<1> QED BY <1>1, <1>2, <1>3, <1>5, <1>6, <1>7, TypedIs DEF Told

(* Whatever a reply is, the description is as before or what the transitions make of it. *)
LEMMA HandleHelloTurned ==
  ASSUME NEW t, NEW id, NEW h \in HelloReply, Sound(t), Good(t)
  PROVE  LET u == HandleHello(t, id, h)
         IN \/ u = t
            \/ IsKnown(t, id) /\ \E told : /\ Stored(t, AddressOf(t, id), h, told)
                                           /\ Told(told, AddressOf(t, id), h)
                                           /\ Turned(told, AddressOf(t, id), h, u)
<1> DEFINE a == AddressOf(t, id)
           told == [t EXCEPT !.servers[a] = ServerHello(@, h)]
           u == HandleHello(t, id, h)
<1>1. \/ u = t
      \/ IsKnown(t, id) /\ t.type = "Single" /\ u = Invalidate(told, a)
      \/ IsKnown(t, id) /\ u = Transition(told, a, h)
  BY Zenon DEF HandleHello
<1>2. SUFFICES ASSUME IsKnown(t, id), u # t PROVE Stored(t, a, h, told) /\ Told(told, a, h) /\ Turned(told, a, h, u)
  BY <1>1
<1>3. a \in Servers(t)
  BY <1>2 DEF IsKnown, AddressOf
<1>4. Shaped(t)
  BY DEF Sound
<1> HIDE DEF a
<1>5. Stored(t, a, h, told)
  BY <1>3, <1>4, StoreReply
<1> HIDE DEF told
<1>6. Told(told, a, h)
  BY <1>5, StoredTold
<1>7. CASE t.type = "Single" /\ u = Invalidate(told, a)
  <2>1. told.type = "Single" /\ Shaped(told) /\ a \in Servers(told)
    BY <1>5, <1>7 DEF Stored
  <2> HIDE DEF u
  <2>2. Eases(told, u) /\ Shaped(u) /\ TypeAt(u, a) = "Unknown" /\ u.type = told.type
    BY <1>7, <2>1, InvalidateEases
  <2>3. Joins(told, a, h, u)
    BY <2>1, <2>2 DEF Joins, RsType
  <2>4. u.type = "Single"
    BY <2>1, <2>2
  <2>5. Turned(told, a, h, u)
    BY <1>6, <2>1, <2>2, <2>3, <2>4, EasesTurned DEF RsType
  <2> QED BY <1>5, <1>6, <2>5
<1>8. CASE u = Transition(told, a, h)
  BY <1>5, <1>6, <1>8, TransitionTurned
<1> QED BY <1>1, <1>2, <1>7, <1>8

LEMMA HelloFollows ==
  ASSUME NEW t, NEW id, NEW h \in HelloReply, Sound(t), Good(t)
  PROVE  LET u == HandleHello(t, id, h) IN Sound(u) /\ Follows(t, u)
<1> DEFINE u == HandleHello(t, id, h)
           a == AddressOf(t, id)
<1>1. Grows(t, t)
  <2>1. Eases(t, t)
    BY DEF Eases, Eased
  <2> QED BY <2>1, EasesGrows
<1>2. ASSUME NEW told, Stored(t, a, h, told), Told(told, a, h), Turned(told, a, h, u)
      PROVE  Sound(u) /\ Follows(t, u)
  <2> HIDE DEF u, a
  <2>1. Sound(told) /\ Shaped(u) /\ Grows(told, u)
    BY <1>2, Zenon DEF Told, Turned
  <2>2. Sound(u) /\ Follows(told, u)
    BY <2>1, GrowsSound, GrowsFollows
  <2>3. /\ told.lastId = t.lastId /\ Servers(told) = Servers(t)
        /\ \A b \in Servers(t) : told.servers[b].id = t.servers[b].id
    BY <1>2, Zenon DEF Stored
  <2>4. Follows(t, u)
    BY <2>2, <2>3, Zenon DEF Follows
  <2> QED BY <2>2, <2>4
<1> QED BY <1>1, <1>2, HandleHelloTurned, GrowsFollows

LEMMA FailEases ==
  ASSUME NEW t, NEW id, Sound(t)
  PROVE  LET u == Fail(t, id)
         IN /\ Eases(t, u) /\ Sound(u) /\ Servers(u) = Servers(t)
            /\ t.type # "RSWithPrimary" => u.type = t.type
            /\ t.type = "RSWithPrimary" => u.type \in RsType
<1> DEFINE u == Fail(t, id)
<1>1. Shaped(t)
  BY DEF Sound
<1>2. Eases(t, t)
  BY DEF Eases, Eased
<1>3. /\ Eases(t, u) /\ Shaped(u) /\ Servers(u) = Servers(t)
      /\ t.type # "RSWithPrimary" => u.type = t.type
      /\ t.type = "RSWithPrimary" => u.type \in RsType
  <2>1. CASE IsKnown(t, id)
    <3>1. AddressOf(t, id) \in Servers(t)
      BY <2>1 DEF IsKnown, AddressOf
    <3>2. u = Invalidate(t, AddressOf(t, id))
      BY <2>1 DEF Fail
    <3> QED BY <1>1, <3>1, <3>2, InvalidateEases DEF RsType
  <2>2. CASE ~IsKnown(t, id)
    <3>1. u = t
      BY <2>2 DEF Fail
    <3> QED BY <1>1, <1>2, <3>1 DEF RsType
  <2> QED BY <2>1, <2>2
<1> HIDE DEF u
<1>4. Sound(u)
  BY <1>3, EasesGrows, GrowsSound
<1> QED BY <1>3, <1>4 DEF u

(* An error of an operation changes the topologyVersion of its server. *)
LEMMA VersionEases ==
  ASSUME NEW t, NEW a \in Servers(t), NEW tv, Sound(t)
  PROVE  LET u == [t EXCEPT !.servers[a].tv = tv]
         IN Eases(t, u) /\ Sound(u) /\ Servers(u) = Servers(t) /\ u.type = t.type
            /\ \A b \in Servers(t) : TypeAt(u, b) = TypeAt(t, b)
<1> DEFINE u == [t EXCEPT !.servers[a].tv = tv]
           sd == t.servers[a]
           type == t.type
           servers == [t.servers EXCEPT ![a] = [sd EXCEPT !.tv = tv]]
<1>1. Shaped(t)
  BY DEF Sound
<1>2. sd = [id |-> sd.id, type |-> sd.type, hello |-> sd.hello, sv |-> sd.sv, eid |-> sd.eid, tv |-> sd.tv]
  BY <1>1 DEF Shaped
<1>3. [sd EXCEPT !.tv = tv] =
        [id |-> sd.id, type |-> sd.type, hello |-> sd.hello, sv |-> sd.sv, eid |-> sd.eid, tv |-> tv]
  BY <1>2
<1>4. u = [type |-> type, name |-> t.name, servers |-> servers, maxSv |-> t.maxSv,
           maxEid |-> t.maxEid, lastId |-> t.lastId]
  BY <1>1, SMTT(40) DEF Shaped
<1>5. DOMAIN servers = Servers(t) /\ \A b \in Servers(t) : b # a => servers[b] = t.servers[b]
  BY DEF Servers
<1>6. servers[a] = [id |-> sd.id, type |-> sd.type, hello |-> sd.hello, sv |-> sd.sv, eid |-> sd.eid, tv |-> tv]
  BY <1>3 DEF Servers
<1>7. Eased(t.servers[a], servers[a]) /\ servers[a].type = t.servers[a].type
  BY <1>6 DEF Eased
<1> HIDE DEF u, servers, type
<1>8. \A b \in DOMAIN servers : Eased(t.servers[b], servers[b])
  BY <1>5, <1>7 DEF Eased
<1>9. Eases(t, u) /\ u.type = type
  <2>1. DOMAIN servers \subseteq Servers(t)
    BY <1>5
  <2> QED BY <1>4, <1>8, <2>1, EasesBy
<1>10. u.servers = servers
  BY <1>4
<1>11. Shaped(u)
  <2> DEFINE id == sd.id
             ty == sd.type
             hello == sd.hello
             sv == sd.sv
             eid == sd.eid
             val == [id |-> id, type |-> ty, hello |-> hello, sv |-> sv, eid |-> eid, tv |-> tv]
  <2>1. u = [t EXCEPT !.servers[a] = [sd EXCEPT !.tv = tv]]
    BY <1>1 DEF Shaped, u
  <2>2. u = [t EXCEPT !.servers[a] = [id |-> id, type |-> ty, hello |-> hello, sv |-> sv, eid |-> eid, tv |-> tv]]
    BY <1>3, <2>1
  <2> HIDE DEF id, ty, hello, sv, eid, sd
  <2> QED BY <1>1, <2>2, SetServer
<1>12. Sound(u)
  BY <1>9, <1>11, EasesGrows, GrowsSound
<1> QED BY <1>5, <1>7, <1>9, <1>10, <1>12 DEF u, type, Servers, TypeAt

------------------------------------------------------------------------------
(* The servers *)

MemberState(d) == [term : 0..d.terms, primary : BOOLEAN, ver : 0..Len(d.configs), tv : Nat]

SetIn(d, v) == IF v = 0 THEN {} ELSE {d.configs[v][i] : i \in DOMAIN d.configs[v]}

(* A reply names the set that the server is of, and that of a primary all of its members. *)
Tells(d, a, h) ==
  LET b == d.at[a]
  IN /\ Typed(h) \in {"RSPrimary"} \cup Member =>
          \/ d.kind[b] = "member" /\ h.set = d.set
          \/ d.kind[b] = "stranger" /\ h.set = d.other
     /\ Typed(h) = "RSPrimary" =>
          HostsOf(h) = IF d.kind[b] = "member" THEN SetIn(d, h.sv) ELSE {b}

LEMMA KnownPrimaryIn == ASSUME NEW a PROVE KnownPrimary(a) \in Addr \cup {None}
<1> DEFINE same == {p \in Addr : mem[p].primary /\ mem[p].term = mem[a].term}
<1>1. KnownPrimary(a) = IF same = {} THEN None ELSE CHOOSE p \in same : TRUE
  BY Zenon DEF KnownPrimary
<1>2. same # {} => (CHOOSE p \in same : TRUE) \in same
  <2> HIDE DEF same
  <2> QED OBVIOUS
<1>3. same \subseteq Addr
  OBVIOUS
<1> HIDE DEF same
<1> QED BY <1>1, <1>2, <1>3

LEMMA HelloTells ==
  ASSUME TopologyAssumption, dep \in Deployment, mem \in [Addr -> MemberState(dep)], NEW addr \in Addr
  PROVE  Hello(addr) \in HelloReply /\ Tells(dep, addr, Hello(addr))
<1> DEFINE a == dep.at[addr]
           r == Hello(addr)
<1>1. /\ a \in Addr /\ dep.set \in SetName /\ dep.other \in SetName /\ dep.configs \in Seq(Seq(Addr))
      /\ dep.kind[a] \in {"member", "stranger", "mongos", "standalone", "broken"}
  BY DEF Deployment
<1>2. mem[a] \in MemberState(dep)
  BY <1>1
<1>3. /\ mem[a].ver \in Nat /\ mem[a].ver \in 0..Len(dep.configs) /\ mem[a].term \in Nat
      /\ mem[a].tv \in Nat /\ mem[a].primary \in BOOLEAN
  <2>1. Len(dep.configs) \in Nat /\ dep.terms \in Nat
    BY <1>1 DEF Deployment
  <2> QED BY <1>2, <2>1 DEF MemberState
<1>4. None \notin Addr /\ None \notin SetName
  BY DEF TopologyAssumption
<1>5. <<>> \in Seq(Addr) /\ <<a>> \in Seq(Addr)
  BY <1>1
<1>6. NoReply \in HelloReply /\ Typed(NoReply) = "Unknown"
  BY <1>5 DEF NoReply, HelloReply, Typed
<1> HIDE DEF a
<1> DEFINE plain == [NoReply EXCEPT !.ok = TRUE]
           yes == TRUE
           no == FALSE
<1>0. yes \in BOOLEAN /\ no \in BOOLEAN /\ yes /\ ~no
  OBVIOUS
<1>a. /\ NoReply = [ok |-> no, mongos |-> no, ghost |-> no, set |-> None, role |-> "other",
                    sv |-> 0, eid |-> 0, hosts |-> <<>>, me |-> None, primary |-> None, tv |-> 0]
      /\ plain = [NoReply EXCEPT !.ok = yes]
  BY Zenon DEF NoReply
<1> HIDE DEF yes, no, plain
<1>7. /\ plain = [ok |-> yes, mongos |-> no, ghost |-> no, set |-> None, role |-> "other",
                  sv |-> 0, eid |-> 0, hosts |-> <<>>, me |-> None, primary |-> None, tv |-> 0]
  BY <1>a
<1>8. CASE dep.kind[a] = "standalone"
  <2>1. r = plain
    BY <1>8 DEF Hello, a, plain, yes
  <2>2. plain \in HelloReply /\ Typed(plain) = "Standalone"
    BY <1>0, <1>5, <1>7 DEF HelloReply, Typed
  <2> QED BY <2>1, <2>2 DEF Tells, Member
<1>9. CASE dep.kind[a] = "mongos"
  <2> DEFINE q == [plain EXCEPT !.mongos = yes]
  <2>1. r = q
    BY <1>9 DEF Hello, a, plain, yes
  <2>2. q \in HelloReply /\ Typed(q) = "Mongos"
    BY <1>0, <1>5, <1>7 DEF HelloReply, Typed
  <2> HIDE DEF q
  <2> QED BY <2>1, <2>2 DEF Tells, Member
<1>10. CASE dep.kind[a] = "broken"
  <2>1. r = NoReply
    BY <1>10 DEF Hello, a, plain, yes
  <2> QED BY <1>6, <2>1 DEF Tells, Member
<1>11. CASE dep.kind[a] = "stranger"
  <2> DEFINE q == [ok |-> yes, mongos |-> no, ghost |-> no, set |-> dep.other, role |-> "primary",
                   sv |-> 1, eid |-> 1, hosts |-> <<a>>, me |-> a, primary |-> a, tv |-> 0]
  <2>1. r = [plain EXCEPT !.set = dep.other, !.role = "primary", !.sv = 1, !.eid = 1,
                          !.hosts = <<a>>, !.me = a, !.primary = a]
    BY <1>11 DEF Hello, a, plain, yes
  <2>2. r = q
    <3> HIDE DEF r
    <3> QED BY <1>7, <2>1
  <2>3. q \in HelloReply
    BY <1>0, <1>1, <1>5 DEF HelloReply
  <2>4. HostsOf(q) = {a}
    BY DEF HostsOf
  <2>5. q.set = dep.other
    OBVIOUS
  <2> HIDE DEF q, r
  <2>6. Tells(dep, addr, q)
    BY <1>11, <2>4, <2>5 DEF Tells, a
  <2> QED BY <2>2, <2>3, <2>6 DEF r
<1>12. CASE dep.kind[a] = "member" /\ ~InSet(a)
  <2> DEFINE q == [ok |-> yes, mongos |-> no, ghost |-> yes, set |-> None, role |-> "other",
                   sv |-> 0, eid |-> 0, hosts |-> <<>>, me |-> None, primary |-> None, tv |-> mem[a].tv]
  <2>1. r = [plain EXCEPT !.ghost = yes, !.tv = mem[a].tv]
    BY <1>12 DEF Hello, a, plain, yes
  <2>2. r = q
    <3> HIDE DEF r
    <3> QED BY <1>7, <2>1
  <2>3. q \in HelloReply /\ Typed(q) = "RSGhost"
    BY <1>0, <1>3, <1>5 DEF HelloReply, Typed
  <2> HIDE DEF q, r
  <2>4. Tells(dep, addr, q)
    BY <2>3 DEF Tells, Member
  <2> QED BY <2>2, <2>3, <2>4 DEF r
<1>13. CASE dep.kind[a] = "member" /\ InSet(a)
  <2> DEFINE role == IF mem[a].primary THEN "primary" ELSE "secondary"
             eid == IF mem[a].primary THEN mem[a].term ELSE 0
             v == mem[a].ver
             tv == mem[a].tv
             hosts == dep.configs[v]
             known == KnownPrimary(a)
             q == [ok |-> yes, mongos |-> no, ghost |-> no, set |-> dep.set, role |-> role,
                   sv |-> v, eid |-> eid, hosts |-> hosts, me |-> a, primary |-> known, tv |-> tv]
  <2>1. r = [plain EXCEPT !.set = dep.set, !.role = role, !.sv = mem[a].ver, !.eid = eid,
                          !.hosts = hosts, !.me = a, !.primary = known, !.tv = mem[a].tv]
    BY <1>13 DEF Hello, a, plain, yes
  <2>2. role \in {"primary", "secondary"} /\ eid \in Nat /\ v \in Nat /\ tv \in Nat
    BY <1>3
  <2>3. v # 0
    BY <1>13 DEF InSet, SetOf
  <2>4. hosts \in Seq(Addr)
    BY <1>1, <1>3, <2>3
  <2>5. known \in Addr \cup {None}
    BY KnownPrimaryIn
  <2> HIDE DEF role, eid, v, hosts, known, tv, r
  <2>6. r = q
    BY <1>7, <2>1 DEF v, tv
  <2>7. q \in HelloReply
    BY <1>0, <1>1, <2>2, <2>4, <2>5 DEF HelloReply
  <2>8. HostsOf(q) = SetIn(dep, v)
    BY <2>3 DEF HostsOf, SetIn, hosts
  <2>9. q.set = dep.set /\ q.sv = v
    OBVIOUS
  <2> HIDE DEF q
  <2>10. Tells(dep, addr, q)
    BY <1>13, <2>8, <2>9 DEF Tells, a
  <2> QED BY <2>6, <2>7, <2>10 DEF r
<1> QED BY <1>1, <1>8, <1>9, <1>10, <1>11, <1>12, <1>13

LEMMA LastTermIs ==
  ASSUME NEW d, d = dep.terms, d \in Nat, mem \in [Addr -> MemberState(dep)], Addr # {}
  PROVE  /\ LastTerm \in 0..d /\ \E a \in Addr : mem[a].term = LastTerm
         /\ \A a \in Addr : mem[a].term <= LastTerm
<1> DEFINE Last(n) == /\ \E a \in Addr : mem[a].term = n
                      /\ \A a \in Addr : mem[a].term <= n
           S == {n \in Nat : (\A a \in Addr : mem[a].term <= n) => \E m \in 0..n : Last(m)}
<1>1. \A a \in Addr : mem[a].term \in 0..d
  BY DEF MemberState
<1>2. 0 \in S
  <2>1. ASSUME \A a \in Addr : mem[a].term <= 0 PROVE Last(0)
    <3>1. \A a \in Addr : mem[a].term = 0
      BY <1>1, <2>1
    <3> QED BY <3>1
  <2> QED BY <2>1
<1>3. ASSUME NEW n \in S PROVE n + 1 \in S
  <2>1. ASSUME \A a \in Addr : mem[a].term <= n + 1 PROVE \E m \in 0..(n + 1) : Last(m)
    <3>1. CASE \E a \in Addr : mem[a].term = n + 1
      BY <2>1, <3>1
    <3>2. CASE \A a \in Addr : mem[a].term # n + 1
      <4>1. \A a \in Addr : mem[a].term <= n
        BY <1>1, <2>1, <3>2
      <4>2. PICK m \in 0..n : Last(m)
        BY <4>1
      <4>3. m \in 0..(n + 1)
        OBVIOUS
      <4> HIDE DEF Last
      <4> QED BY <4>2, <4>3
    <3> QED BY <3>1, <3>2
  <2> HIDE DEF Last
  <2> QED BY <2>1
<1> HIDE DEF S
<1>4. d \in S
  BY <1>2, <1>3, NatSetInduction DEF S
<1>5. \A a \in Addr : mem[a].term <= d
  BY <1>1
<1> HIDE DEF Last
<1>6. \E m \in 0..d : Last(m)
  BY <1>4, <1>5 DEF S
<1>7. LastTerm = CHOOSE m \in 0..d : Last(m)
  BY Zenon DEF LastTerm, Last
<1>8. LastTerm \in 0..d /\ Last(LastTerm)
  BY <1>6, <1>7, Zenon
<1> QED BY <1>8 DEF Last

Voted(x, term, primary) == [x EXCEPT !.term = term, !.primary = primary, !.tv = @ + 1]
Installed(x, ver) == [x EXCEPT !.ver = ver, !.tv = @ + 1]

LEMMA MemberExcept ==
  ASSUME NEW T, NEW V, NEW x \in [term : T, primary : BOOLEAN, ver : V, tv : Nat],
         NEW term, NEW primary, NEW ver
  PROVE  /\ Voted(x, term, primary) = [term |-> term, primary |-> primary, ver |-> x.ver, tv |-> x.tv + 1]
         /\ Installed(x, ver) = [term |-> x.term, primary |-> x.primary, ver |-> ver, tv |-> x.tv + 1]
<1> DEFINE tv == x.tv + 1
           oldTerm == x.term
           oldPrimary == x.primary
           oldVer == x.ver
           oldTv == x.tv
<1>1. x = [term |-> oldTerm, primary |-> oldPrimary, ver |-> oldVer, tv |-> oldTv]
  OBVIOUS
<1>2. /\ Voted(x, term, primary) = [[[x EXCEPT !.term = term] EXCEPT !.primary = primary] EXCEPT !.tv = tv]
      /\ Installed(x, ver) = [[x EXCEPT !.ver = ver] EXCEPT !.tv = tv]
  BY Zenon DEF Voted, Installed
<1> HIDE DEF tv, oldTerm, oldPrimary, oldVer, oldTv
<1> DEFINE y == [x EXCEPT !.term = term]
           z == [y EXCEPT !.primary = primary]
           w == [x EXCEPT !.ver = ver]
<1>3. /\ y = [term |-> term, primary |-> oldPrimary, ver |-> oldVer, tv |-> oldTv]
      /\ w = [term |-> oldTerm, primary |-> oldPrimary, ver |-> ver, tv |-> oldTv]
  BY <1>1
<1> HIDE DEF y, w
<1>4. z = [term |-> term, primary |-> primary, ver |-> oldVer, tv |-> oldTv]
  BY <1>3
<1> HIDE DEF z
<1>5. /\ [z EXCEPT !.tv = tv] = [term |-> term, primary |-> primary, ver |-> oldVer, tv |-> tv]
      /\ [w EXCEPT !.tv = tv] = [term |-> oldTerm, primary |-> oldPrimary, ver |-> ver, tv |-> tv]
  BY <1>3, <1>4
<1> QED BY <1>2, <1>5, Zenon DEF y, z, w, tv, oldTerm, oldPrimary, oldVer

LEMMA MembersStep ==
  ASSUME TopologyAssumption, dep \in Deployment, mem \in [Addr -> MemberState(dep)], SetChanges
  PROVE  mem' \in [Addr -> MemberState(dep)] /\ UNCHANGED <<dep, faults, client>>
<1>1. /\ dep.terms \in Nat /\ Len(dep.configs) \in Nat
  BY DEF Deployment
<1> DEFINE M == MemberState(dep)
           d == dep.terms
           l == Len(dep.configs)
<1>2. M = [term : 0..d, primary : BOOLEAN, ver : 0..l, tv : Nat]
  BY DEF MemberState
<1>3. \A b \in Addr : mem[b] \in M
  OBVIOUS
<1> HIDE DEF M, d, l
<1>4. ASSUME NEW a \in Addr, Elect(a) PROVE mem' \in [Addr -> M] /\ UNCHANGED <<dep, faults, client>>
  <2>1. LastTerm < d /\ UNCHANGED <<dep, faults, client>>
    BY <1>4, Zenon DEF Elect, d
  <2>2. PICK Q : mem' = [b \in Addr |->
                   IF b \in Q THEN [mem[b] EXCEPT !.term = LastTerm + 1, !.primary = (b = a), !.tv = @ + 1]
                   ELSE mem[b]]
    BY <1>4, Zenon DEF Elect
  <2>3. LastTerm \in 0..d
    BY <1>1, <1>4, LastTermIs DEF d, M
  <2> DEFINE last == LastTerm + 1
  <2>4. last \in 0..d
    BY <1>1, <2>1, <2>3 DEF d
  <2> HIDE DEF last
  <2>5. ASSUME NEW b \in Addr PROVE Voted(mem[b], last, b = a) \in M
    <3> DEFINE p == (b = a)
               x == mem[b]
               r == [term |-> last, primary |-> p, ver |-> x.ver, tv |-> x.tv + 1]
    <3>1. p \in BOOLEAN /\ x \in [term : 0..d, primary : BOOLEAN, ver : 0..l, tv : Nat]
      BY <1>2, <1>3
    <3> HIDE DEF p, x
    <3>2. Voted(x, last, p) = r
      BY <3>1, MemberExcept
    <3>3. r \in M
      BY <1>2, <2>4, <3>1
    <3> QED BY <3>2, <3>3, Zenon DEF p, x
  <2>6. mem' \in [Addr -> M]
    BY <1>3, <2>2, <2>5, Zenon DEF last, Voted
  <2> QED BY <2>1, <2>6
<1>5. ASSUME NEW a \in Addr, Reconfigure(a) PROVE mem' \in [Addr -> M] /\ UNCHANGED <<dep, faults, client>>
  <2>1. mem[a].ver < l /\ UNCHANGED <<dep, faults, client>>
    BY <1>5, Zenon DEF Reconfigure, l
  <2> DEFINE v == mem[a].ver + 1
  <2>2. PICK Q : mem' = [b \in Addr |->
                   IF b \in Q THEN [mem[b] EXCEPT !.ver = v, !.tv = @ + 1] ELSE mem[b]]
    BY <1>5, Zenon DEF Reconfigure
  <2>3. v \in 0..l
    <3>1. mem[a].ver \in 0..l /\ l \in Nat
      BY <1>1, <1>2, <1>3 DEF l
    <3> QED BY <2>1, <3>1
  <2> HIDE DEF v
  <2>4. ASSUME NEW b \in Addr PROVE Installed(mem[b], v) \in M
    <3> DEFINE x == mem[b]
               r == [term |-> x.term, primary |-> x.primary, ver |-> v, tv |-> x.tv + 1]
    <3>1. x \in [term : 0..d, primary : BOOLEAN, ver : 0..l, tv : Nat]
      BY <1>2, <1>3
    <3> HIDE DEF x
    <3>2. Installed(x, v) = r
      BY <3>1, MemberExcept
    <3>3. r \in M
      BY <1>2, <2>3, <3>1
    <3> QED BY <3>2, <3>3, Zenon DEF x
  <2>5. mem' \in [Addr -> M]
    BY <1>3, <2>2, <2>4, Zenon DEF Installed
  <2> QED BY <2>1, <2>5
<1>6. ASSUME NEW a \in Addr, NEW b \in Addr, Learn(a, b)
      PROVE  mem' \in [Addr -> M] /\ UNCHANGED <<dep, faults, client>>
  <2> DEFINE later == IF mem[a].ver < mem[b].ver THEN mem[b].ver ELSE mem[a].ver
             term == IF mem[a].term < mem[b].term THEN mem[b].term ELSE mem[a].term
             p == mem[a].primary /\ mem[a].term >= mem[b].term /\ a \in SetOf(later)
             tv == mem[a].tv + 1
             r == [term |-> term, primary |-> p, ver |-> later, tv |-> tv]
  <2>1. UNCHANGED <<dep, faults, client>>
    BY <1>6, Zenon DEF Learn
  <2>2. mem' = [mem EXCEPT ![a] = r]
    BY <1>6 DEF Learn
  <2>3. mem[a] \in M /\ mem[b] \in M
    BY <1>3
  <2>4. later \in 0..l /\ term \in 0..d /\ tv \in Nat
    BY <1>2, <2>3
  <2>5. p \in BOOLEAN
    OBVIOUS
  <2> HIDE DEF later, term, p, tv
  <2>6. r \in M
    BY <1>2, <2>4, <2>5
  <2> HIDE DEF r
  <2>7. mem' \in [Addr -> M]
    BY <2>2, <2>6 DEF M
  <2> QED BY <2>1, <2>7
<1> QED BY <1>4, <1>5, <1>6, Zenon DEF SetChanges, M

------------------------------------------------------------------------------
(* The nodes of the scanner *)

Node == [id : Nat \ {0}, addr : Addr, retired : BOOLEAN, cooling : BOOLEAN, error : BOOLEAN,
         stream : BOOLEAN, shaken : {"no", "yes", "failed"}, cmd : {"none", "sent", "answered"},
         reply : HelloReply]

NodeOf(id, addr, retired, cooling, error, stream, shaken, cmd, reply) ==
  [id |-> id, addr |-> addr, retired |-> retired, cooling |-> cooling, error |-> error,
   stream |-> stream, shaken |-> shaken, cmd |-> cmd, reply |-> reply]

(* What the steps of the scanner make of a node *)
Retired(n) == [n EXCEPT !.retired = TRUE, !.cmd = "none", !.reply = NoReply]
Answered(n, reply) == [[n EXCEPT !.cmd = "answered"] EXCEPT !.reply = reply]
Handled(n, shaken) == [n EXCEPT !.cmd = "none", !.reply = NoReply, !.stream = TRUE, !.cooling = FALSE,
                                !.shaken = shaken]
Failed(n) == [n EXCEPT !.cmd = "none", !.reply = NoReply, !.cooling = TRUE, !.error = TRUE,
                       !.shaken = "no"]
Closed(n) == [n EXCEPT !.stream = FALSE, !.shaken = "no"]
Rested(n) == [n EXCEPT !.cooling = FALSE]

(* One field changes. *)
SetRetired(n, v) == [n EXCEPT !.retired = v]
SetCooling(n, v) == [n EXCEPT !.cooling = v]
SetError(n, v) == [n EXCEPT !.error = v]
SetStream(n, v) == [n EXCEPT !.stream = v]
SetShaken(n, v) == [n EXCEPT !.shaken = v]
SetCmd(n, v) == [n EXCEPT !.cmd = v]
SetReply(n, v) == [n EXCEPT !.reply = v]

LEMMA SetNode ==
  ASSUME NEW id, NEW addr, NEW retired, NEW cooling, NEW error, NEW stream, NEW shaken,
         NEW cmd, NEW reply, NEW v
  PROVE  /\ SetRetired(NodeOf(id, addr, retired, cooling, error, stream, shaken, cmd, reply), v) =
              NodeOf(id, addr, v, cooling, error, stream, shaken, cmd, reply)
         /\ SetCooling(NodeOf(id, addr, retired, cooling, error, stream, shaken, cmd, reply), v) =
              NodeOf(id, addr, retired, v, error, stream, shaken, cmd, reply)
         /\ SetError(NodeOf(id, addr, retired, cooling, error, stream, shaken, cmd, reply), v) =
              NodeOf(id, addr, retired, cooling, v, stream, shaken, cmd, reply)
         /\ SetStream(NodeOf(id, addr, retired, cooling, error, stream, shaken, cmd, reply), v) =
              NodeOf(id, addr, retired, cooling, error, v, shaken, cmd, reply)
         /\ SetShaken(NodeOf(id, addr, retired, cooling, error, stream, shaken, cmd, reply), v) =
              NodeOf(id, addr, retired, cooling, error, stream, v, cmd, reply)
         /\ SetCmd(NodeOf(id, addr, retired, cooling, error, stream, shaken, cmd, reply), v) =
              NodeOf(id, addr, retired, cooling, error, stream, shaken, v, reply)
         /\ SetReply(NodeOf(id, addr, retired, cooling, error, stream, shaken, cmd, reply), v) =
              NodeOf(id, addr, retired, cooling, error, stream, shaken, cmd, v)
<1>1. SetRetired(NodeOf(id, addr, retired, cooling, error, stream, shaken, cmd, reply), v) =
           NodeOf(id, addr, v, cooling, error, stream, shaken, cmd, reply)
  BY DEF NodeOf, SetRetired
<1>2. SetCooling(NodeOf(id, addr, retired, cooling, error, stream, shaken, cmd, reply), v) =
           NodeOf(id, addr, retired, v, error, stream, shaken, cmd, reply)
  BY DEF NodeOf, SetCooling
<1>3. SetError(NodeOf(id, addr, retired, cooling, error, stream, shaken, cmd, reply), v) =
           NodeOf(id, addr, retired, cooling, v, stream, shaken, cmd, reply)
  BY DEF NodeOf, SetError
<1>4. SetStream(NodeOf(id, addr, retired, cooling, error, stream, shaken, cmd, reply), v) =
           NodeOf(id, addr, retired, cooling, error, v, shaken, cmd, reply)
  BY DEF NodeOf, SetStream
<1>5. SetShaken(NodeOf(id, addr, retired, cooling, error, stream, shaken, cmd, reply), v) =
           NodeOf(id, addr, retired, cooling, error, stream, v, cmd, reply)
  BY DEF NodeOf, SetShaken
<1>6. SetCmd(NodeOf(id, addr, retired, cooling, error, stream, shaken, cmd, reply), v) =
           NodeOf(id, addr, retired, cooling, error, stream, shaken, v, reply)
  BY DEF NodeOf, SetCmd
<1>7. SetReply(NodeOf(id, addr, retired, cooling, error, stream, shaken, cmd, reply), v) =
           NodeOf(id, addr, retired, cooling, error, stream, shaken, cmd, v)
  BY DEF NodeOf, SetReply
<1> QED BY <1>1, <1>2, <1>3, <1>4, <1>5, <1>6, <1>7, Zenon

LEMMA NodeFields ==
  ASSUME NEW id, NEW addr, NEW retired, NEW cooling, NEW error, NEW stream, NEW shaken, NEW cmd, NEW reply
  PROVE  LET n == NodeOf(id, addr, retired, cooling, error, stream, shaken, cmd, reply)
         IN /\ n.id = id /\ n.addr = addr /\ n.retired = retired /\ n.cooling = cooling
            /\ n.error = error /\ n.stream = stream /\ n.shaken = shaken /\ n.cmd = cmd
            /\ n.reply = reply
            /\ n \in Node <=>
                 /\ id \in Nat \ {0} /\ addr \in Addr /\ retired \in BOOLEAN /\ cooling \in BOOLEAN
                 /\ error \in BOOLEAN /\ stream \in BOOLEAN /\ shaken \in {"no", "yes", "failed"}
                 /\ cmd \in {"none", "sent", "answered"} /\ reply \in HelloReply
  BY DEF NodeOf, Node

LEMMA NodeShape ==
  ASSUME NEW n \in Node
  PROVE  /\ n = NodeOf(n.id, n.addr, n.retired, n.cooling, n.error, n.stream, n.shaken, n.cmd, n.reply)
         /\ n.id \in Nat \ {0} /\ n.addr \in Addr /\ n.retired \in BOOLEAN /\ n.cooling \in BOOLEAN
         /\ n.error \in BOOLEAN /\ n.stream \in BOOLEAN /\ n.shaken \in {"no", "yes", "failed"}
         /\ n.cmd \in {"none", "sent", "answered"} /\ n.reply \in HelloReply
  BY DEF NodeOf, Node

LEMMA NodeStep ==
  ASSUME NEW n \in Node, NEW v
  PROVE  /\ Retired(n) = NodeOf(n.id, n.addr, TRUE, n.cooling, n.error, n.stream, n.shaken, "none", NoReply)
         /\ Setup(n) = NodeOf(n.id, n.addr, n.retired, n.cooling, n.error, FALSE, n.shaken, "sent", NoReply)
         /\ Answered(n, v) = NodeOf(n.id, n.addr, n.retired, n.cooling, n.error, n.stream, n.shaken,
                                    "answered", v)
         /\ Handled(n, v) = NodeOf(n.id, n.addr, n.retired, FALSE, n.error, TRUE, v, "none", NoReply)
         /\ Failed(n) = NodeOf(n.id, n.addr, n.retired, TRUE, TRUE, n.stream, "no", "none", NoReply)
         /\ Closed(n) = NodeOf(n.id, n.addr, n.retired, n.cooling, n.error, FALSE, "no", n.cmd, n.reply)
         /\ Rested(n) = NodeOf(n.id, n.addr, n.retired, FALSE, n.error, n.stream, n.shaken, n.cmd, n.reply)
<1> DEFINE id == n.id
           addr == n.addr
           retired == n.retired
           cooling == n.cooling
           error == n.error
           stream == n.stream
           shaken == n.shaken
           cmd == n.cmd
           reply == n.reply
           yes == TRUE
           no == FALSE
<1>1. n = NodeOf(id, addr, retired, cooling, error, stream, shaken, cmd, reply)
  BY NodeShape
<1> HIDE DEF yes, no, id, addr, retired, cooling, error, stream, shaken, cmd, reply
<1>2. Retired(n) = NodeOf(id, addr, yes, cooling, error, stream, shaken, "none", NoReply)
  <2>1. Retired(n) = SetReply(SetCmd(SetRetired(n, yes), "none"), NoReply)
    BY Zenon DEF Retired, SetRetired, SetCmd, SetReply, yes, no
  <2> QED BY <1>1, <2>1, SetNode
<1>3. Setup(n) = NodeOf(id, addr, retired, cooling, error, no, shaken, "sent", NoReply)
  <2>1. Setup(n) = SetReply(SetStream(SetCmd(n, "sent"), no), NoReply)
    BY Zenon DEF Setup, SetCmd, SetStream, SetReply, yes, no
  <2> QED BY <1>1, <2>1, SetNode
<1>4. Answered(n, v) = NodeOf(id, addr, retired, cooling, error, stream, shaken, "answered", v)
  <2>1. Answered(n, v) = SetReply(SetCmd(n, "answered"), v)
    BY Zenon DEF Answered, SetCmd, SetReply, yes, no
  <2> QED BY <1>1, <2>1, SetNode
<1>5. Handled(n, v) = NodeOf(id, addr, retired, no, error, yes, v, "none", NoReply)
  <2>1. Handled(n, v) = SetShaken(SetCooling(SetStream(SetReply(SetCmd(n, "none"), NoReply), yes), no), v)
    BY Zenon DEF Handled, SetCmd, SetReply, SetStream, SetCooling, SetShaken, yes, no
  <2> QED BY <1>1, <2>1, SetNode
<1>6. Failed(n) = NodeOf(id, addr, retired, yes, yes, stream, "no", "none", NoReply)
  <2>1. Failed(n) = SetShaken(SetError(SetCooling(SetReply(SetCmd(n, "none"), NoReply), yes), yes), "no")
    BY Zenon DEF Failed, SetCmd, SetReply, SetCooling, SetError, SetShaken, yes, no
  <2> QED BY <1>1, <2>1, SetNode
<1>7. Closed(n) = NodeOf(id, addr, retired, cooling, error, no, "no", cmd, reply)
  <2>1. Closed(n) = SetShaken(SetStream(n, no), "no")
    BY Zenon DEF Closed, SetStream, SetShaken, yes, no
  <2> QED BY <1>1, <2>1, SetNode
<1>8. Rested(n) = NodeOf(id, addr, retired, no, error, stream, shaken, cmd, reply)
  <2>1. Rested(n) = SetCooling(n, no)
    BY Zenon DEF Rested, SetCooling, yes, no
  <2> QED BY <1>1, <2>1, SetNode
<1> QED BY <1>2, <1>3, <1>4, <1>5, <1>6, <1>7, <1>8, Zenon DEF yes, no, id, addr, retired, cooling, error, stream, shaken, cmd,
       reply

(* The server with the id of a node, if there is any, has its address. *)
Placed(t, n) == n.id <= t.lastId /\ \A a \in Servers(t) : t.servers[a].id = n.id => a = n.addr

(* The nodes the scanner may have, s when it scans *)
Fine(d, t, s) ==
  {n \in Node :
     /\ Placed(t, n)
     /\ n.cmd # "none" => ~n.stream
     /\ n.stream => n.shaken # "no"
     /\ n.cmd # "none" \/ n.retired => s
     /\ n.cmd = "answered" => Tells(d, n.addr, n.reply)}

LEMMA FineFollows ==
  ASSUME NEW d, NEW t, NEW u, NEW s, Follows(t, u), NEW n \in Fine(d, t, s)
  PROVE  n \in Fine(d, u, s)
<1>1. n \in Node /\ Placed(t, n)
  BY DEF Fine
<1>2. n.id \in Nat /\ t.lastId \in Nat /\ u.lastId \in Nat /\ t.lastId <= u.lastId /\ n.id <= t.lastId
  BY <1>1, NodeShape, Zenon DEF Follows, Placed
<1>3. n.id <= u.lastId /\ ~(n.id > t.lastId)
  BY <1>2
<1>4. \A a \in Servers(u) : u.servers[a].id = n.id => a = n.addr
  BY <1>1, <1>3, Zenon DEF Follows, Placed
<1> QED BY <1>3, <1>4, Zenon DEF Fine, Placed

LEMMA NoReplyIn == NoReply \in HelloReply
<1>1. <<>> \in Seq(Addr)
  BY EmptySeq
<1> QED BY <1>1 DEF NoReply, HelloReply

(* Every step of the scanner leaves a node that it may have. *)
Stepping(d, t, s, n) ==
  /\ Retired(n) \in Fine(d, t, TRUE) /\ Retired(n).error = n.error
  /\ Setup(n) \in Fine(d, t, TRUE) /\ Setup(n).error = n.error
  /\ \A shaken \in {"yes", "failed"} :
       Handled(n, shaken) \in Fine(d, t, TRUE) /\ Handled(n, shaken).error = n.error
  /\ n.cmd # "none" => Failed(n) \in Fine(d, t, TRUE) /\ Failed(n).error
  /\ Closed(n) \in Fine(d, t, s) /\ Rested(n) \in Fine(d, t, s)
  /\ \A h \in HelloReply : n.cmd = "sent" /\ Tells(d, n.addr, h) =>
       Answered(n, h) \in Fine(d, t, TRUE) /\ Answered(n, h).error = n.error

LEMMA FineSteps ==
  ASSUME NEW d, NEW t, NEW s, NEW n \in Fine(d, t, s)
  PROVE  Stepping(d, t, s, n)
<1> DEFINE id == n.id
           addr == n.addr
           retired == n.retired
           cooling == n.cooling
           error == n.error
           stream == n.stream
           shaken == n.shaken
           cmd == n.cmd
           reply == n.reply
           yes == TRUE
           no == FALSE
           Allowed(r2, c2, e2, s2, k2, m2, h2, q) ==
             /\ r2 \in BOOLEAN /\ c2 \in BOOLEAN /\ e2 \in BOOLEAN /\ s2 \in BOOLEAN
             /\ k2 \in {"no", "yes", "failed"} /\ m2 \in {"none", "sent", "answered"} /\ h2 \in HelloReply
             /\ m2 # "none" => ~s2
             /\ s2 => k2 # "no"
             /\ m2 # "none" \/ r2 => q
             /\ m2 = "answered" => Tells(d, addr, h2)
<1>1. n \in Node /\ Placed(t, n)
  BY DEF Fine
<1>2. /\ n = NodeOf(id, addr, retired, cooling, error, stream, shaken, cmd, reply)
      /\ id \in Nat \ {0} /\ addr \in Addr /\ retired \in BOOLEAN /\ cooling \in BOOLEAN
      /\ error \in BOOLEAN /\ stream \in BOOLEAN /\ shaken \in {"no", "yes", "failed"}
      /\ cmd \in {"none", "sent", "answered"} /\ reply \in HelloReply
  BY <1>1, NodeShape
<1>3. /\ cmd # "none" => ~stream
      /\ stream => shaken # "no"
      /\ cmd # "none" \/ retired => s
      /\ cmd = "answered" => Tells(d, addr, reply)
  BY DEF Fine
<1>4. yes \in BOOLEAN /\ no \in BOOLEAN /\ yes /\ ~no
  OBVIOUS
<1>5. NoReply \in HelloReply
  BY NoReplyIn
<1>6. ASSUME NEW r2, NEW c2, NEW e2, NEW s2, NEW k2, NEW m2, NEW h2, NEW q,
             Allowed(r2, c2, e2, s2, k2, m2, h2, q)
      PROVE  /\ NodeOf(id, addr, r2, c2, e2, s2, k2, m2, h2) \in Fine(d, t, q)
             /\ NodeOf(id, addr, r2, c2, e2, s2, k2, m2, h2).error = e2
  <2> DEFINE x == NodeOf(id, addr, r2, c2, e2, s2, k2, m2, h2)
  <2> HIDE DEF id, addr, retired, cooling, error, stream, shaken, cmd, reply
  <2>1. /\ x.id = id /\ x.addr = addr /\ x.retired = r2 /\ x.error = e2 /\ x.stream = s2
        /\ x.shaken = k2 /\ x.cmd = m2 /\ x.reply = h2
    BY NodeFields
  <2>2. x \in Node
    BY <1>2, <1>6, NodeFields
  <2> HIDE DEF x
  <2>3. Placed(t, x)
    BY <1>1, <2>1, Zenon DEF Placed, id, addr
  <2>4. x \in Fine(d, t, q)
    BY <1>6, <2>1, <2>2, <2>3, Zenon DEF Fine
  <2> QED BY <2>1, <2>4 DEF x
<1> HIDE DEF id, addr, retired, cooling, error, stream, shaken, cmd, reply, yes, no, Allowed
<1>7. Retired(n) \in Fine(d, t, TRUE) /\ Retired(n).error = error
  <2>1. Retired(n) = NodeOf(id, addr, yes, cooling, error, stream, shaken, "none", NoReply)
    BY <1>1, NodeStep, Zenon DEF yes, no, id, addr, retired, cooling, error, stream, shaken, cmd, reply
  <2>2. "none" \in {"none", "sent", "answered"} /\ "none" # "answered"
    OBVIOUS
  <2>3. Allowed(yes, cooling, error, stream, shaken, "none", NoReply, yes)
    BY <1>2, <1>3, <1>4, <1>5, <2>2 DEF Allowed
  <2>4. /\ NodeOf(id, addr, yes, cooling, error, stream, shaken, "none", NoReply) \in Fine(d, t, yes)
        /\ NodeOf(id, addr, yes, cooling, error, stream, shaken, "none", NoReply).error = error
    BY <1>6, <2>3
  <2> QED BY <2>1, <2>4, Zenon DEF yes
<1>8. Setup(n) \in Fine(d, t, TRUE) /\ Setup(n).error = error
  <2>1. Setup(n) = NodeOf(id, addr, retired, cooling, error, no, shaken, "sent", NoReply)
    BY <1>1, NodeStep, Zenon DEF yes, no, id, addr, retired, cooling, error, stream, shaken, cmd, reply
  <2>2. "sent" \in {"none", "sent", "answered"} /\ "sent" # "answered"
    OBVIOUS
  <2>3. Allowed(retired, cooling, error, no, shaken, "sent", NoReply, yes)
    BY <1>2, <1>3, <1>4, <1>5, <2>2 DEF Allowed
  <2>4. /\ NodeOf(id, addr, retired, cooling, error, no, shaken, "sent", NoReply) \in Fine(d, t, yes)
        /\ NodeOf(id, addr, retired, cooling, error, no, shaken, "sent", NoReply).error = error
    BY <1>6, <2>3
  <2> QED BY <2>1, <2>4, Zenon DEF yes
<1>9. ASSUME NEW k \in {"yes", "failed"}
      PROVE  Handled(n, k) \in Fine(d, t, TRUE) /\ Handled(n, k).error = error
  <2>1. Handled(n, k) = NodeOf(id, addr, retired, no, error, yes, k, "none", NoReply)
    BY <1>1, NodeStep, Zenon DEF yes, no, id, addr, retired, cooling, error, stream, shaken, cmd, reply
  <2>2. /\ "none" \in {"none", "sent", "answered"} /\ "none" # "answered"
        /\ k \in {"no", "yes", "failed"} /\ k # "no"
    OBVIOUS
  <2>3. Allowed(retired, no, error, yes, k, "none", NoReply, yes)
    BY <1>2, <1>3, <1>4, <1>5, <2>2 DEF Allowed
  <2>4. /\ NodeOf(id, addr, retired, no, error, yes, k, "none", NoReply) \in Fine(d, t, yes)
        /\ NodeOf(id, addr, retired, no, error, yes, k, "none", NoReply).error = error
    BY <1>6, <2>3
  <2> QED BY <2>1, <2>4, Zenon DEF yes
<1>10. ASSUME cmd # "none" PROVE Failed(n) \in Fine(d, t, TRUE) /\ Failed(n).error
  <2>1. Failed(n) = NodeOf(id, addr, retired, yes, yes, stream, "no", "none", NoReply)
    BY <1>1, NodeStep, Zenon DEF yes, no, id, addr, retired, cooling, error, stream, shaken, cmd, reply
  <2>2. /\ "no" \in {"no", "yes", "failed"}
        /\ "none" \in {"none", "sent", "answered"} /\ "none" # "answered"
    OBVIOUS
  <2>3. Allowed(retired, yes, yes, stream, "no", "none", NoReply, yes)
    BY <1>2, <1>3, <1>4, <1>5, <1>10, <2>2 DEF Allowed
  <2>4. /\ NodeOf(id, addr, retired, yes, yes, stream, "no", "none", NoReply) \in Fine(d, t, yes)
        /\ NodeOf(id, addr, retired, yes, yes, stream, "no", "none", NoReply).error = yes
    BY <1>6, <2>3
  <2> QED BY <2>1, <2>4, Zenon DEF yes
<1>11. Closed(n) \in Fine(d, t, s)
  <2>1. Closed(n) = NodeOf(id, addr, retired, cooling, error, no, "no", cmd, reply)
    BY <1>1, NodeStep, Zenon DEF yes, no, id, addr, retired, cooling, error, stream, shaken, cmd, reply
  <2>2. "no" \in {"no", "yes", "failed"}
    OBVIOUS
  <2>3. Allowed(retired, cooling, error, no, "no", cmd, reply, s)
    BY <1>2, <1>3, <1>4, <2>2 DEF Allowed
  <2>4. /\ NodeOf(id, addr, retired, cooling, error, no, "no", cmd, reply) \in Fine(d, t, s)
        /\ NodeOf(id, addr, retired, cooling, error, no, "no", cmd, reply).error = error
    BY <1>6, <2>3
  <2> QED BY <2>1, <2>4, Zenon DEF yes
<1>12. Rested(n) \in Fine(d, t, s)
  <2>1. Rested(n) = NodeOf(id, addr, retired, no, error, stream, shaken, cmd, reply)
    BY <1>1, NodeStep, Zenon DEF yes, no, id, addr, retired, cooling, error, stream, shaken, cmd, reply
  <2>3. Allowed(retired, no, error, stream, shaken, cmd, reply, s)
    BY <1>2, <1>3, <1>4 DEF Allowed
  <2>4. /\ NodeOf(id, addr, retired, no, error, stream, shaken, cmd, reply) \in Fine(d, t, s)
        /\ NodeOf(id, addr, retired, no, error, stream, shaken, cmd, reply).error = error
    BY <1>6, <2>3
  <2> QED BY <2>1, <2>4, Zenon DEF yes
<1>13. ASSUME NEW h \in HelloReply, cmd = "sent", Tells(d, addr, h)
       PROVE  Answered(n, h) \in Fine(d, t, TRUE) /\ Answered(n, h).error = error
  <2>1. Answered(n, h) = NodeOf(id, addr, retired, cooling, error, stream, shaken, "answered", h)
    BY <1>1, NodeStep, Zenon DEF yes, no, id, addr, retired, cooling, error, stream, shaken, cmd, reply
  <2>2. "answered" \in {"none", "sent", "answered"} /\ cmd # "none"
    BY <1>13
  <2>3. Allowed(retired, cooling, error, stream, shaken, "answered", h, yes)
    BY <1>2, <1>3, <1>4, <1>13, <2>2 DEF Allowed
  <2>4. /\ NodeOf(id, addr, retired, cooling, error, stream, shaken, "answered", h) \in Fine(d, t, yes)
        /\ NodeOf(id, addr, retired, cooling, error, stream, shaken, "answered", h).error = error
    BY <1>6, <2>3
  <2> QED BY <2>1, <2>4, Zenon DEF yes
<1> QED BY <1>7, <1>8, <1>9, <1>10, <1>11, <1>12, <1>13, Zenon DEF error, cmd, addr, retired, Stepping


LEMMA FineAny == ASSUME NEW d, NEW t, NEW s PROVE Fine(d, t, s) \subseteq Fine(d, t, TRUE)
  BY Zenon DEF Fine

LEMMA MapSeq ==
  ASSUME NEW T, NEW S, NEW s \in Seq(T), NEW f, f = [i \in DOMAIN s |-> f[i]],
         \A i \in DOMAIN s : f[i] \in S
  PROVE  f \in Seq(S) /\ Len(f) = Len(s) /\ DOMAIN f = DOMAIN s
<1>1. DOMAIN s = 1..Len(s) /\ Len(s) \in Nat
  OBVIOUS
<1>2. f \in [1..Len(s) -> S]
  BY <1>1
<1> QED BY <1>1, <1>2, SeqDef

LEMMA NewNodeFine ==
  ASSUME NEW d, NEW t, Sound(t), NEW id, IsKnown(t, id)
  PROVE  NewNode(id, AddressOf(t, id)) \in Fine(d, t, FALSE)
<1> DEFINE a == AddressOf(t, id)
           no == FALSE
           n == NodeOf(id, a, no, no, no, no, "no", "none", NoReply)
<1>1. a \in Servers(t) /\ t.servers[a].id = id
  BY Zenon DEF IsKnown, AddressOf
<1>2. a \in Addr /\ id \in 1..t.lastId /\ t.lastId \in Nat
  BY <1>1 DEF Sound
<1>3. id \in Nat \ {0} /\ id <= t.lastId
  BY <1>2
<1>4. \A b \in Servers(t) : t.servers[b].id = id => b = a
  BY <1>1, Zenon DEF Sound
<1>5. NewNode(id, a) = n
  BY Zenon DEF NewNode, NodeOf
<1>6. no \in BOOLEAN /\ ~no /\ "no" \in {"no", "yes", "failed"} /\ "none" \in {"none", "sent", "answered"}
      /\ "none" # "answered"
  OBVIOUS
<1> HIDE DEF no, a
<1>7. /\ n.id = id /\ n.addr = a /\ n.retired = no /\ n.stream = no /\ n.cmd = "none"
      /\ n \in Node
  BY <1>2, <1>3, <1>6, NoReplyIn, NodeFields
<1> HIDE DEF n
<1>8. Placed(t, n)
  BY <1>3, <1>4, <1>7, Zenon DEF Placed
<1>9. n \in Fine(d, t, FALSE)
  BY <1>6, <1>7, <1>8, Zenon DEF Fine
<1> QED BY <1>5, <1>9, Zenon DEF a

(* What Reconcile returns (mongoc_topology_reconcile): the nodes keep their places and errors. *)
Reconciled(d, t, ns, r) ==
  /\ r \in Seq(Fine(d, t, TRUE))
  /\ \A i \in DOMAIN ns : i \in DOMAIN r /\ r[i].error = ns[i].error

LEMMA ReconcileFine ==
  ASSUME NEW d, NEW t, Sound(t), NEW ns \in Seq(Fine(d, t, TRUE))
  PROVE  Reconciled(d, t, ns, Reconcile(t, ns))
<1> DEFINE F == Fine(d, t, TRUE)
           hasNode(id) == \/ GetNode(ns, id) # {}
                          \/ \E i \in DOMAIN ns : ns[i].addr = AddressOf(t, id)
           ids == [i \in 1..t.lastId |-> i]
           missing == Kept(ids, {id \in 1..t.lastId : IsKnown(t, id) /\ ~hasNode(id)})
           known == {id \in 1..t.lastId : IsKnown(t, id)}
           new == [i \in DOMAIN missing |-> NewNode(missing[i], AddressOf(t, missing[i]))]
           all == ns \o new
           turned(i) ==
             IF ~IsKnown(t, all[i].id) THEN Retired(all[i])
             ELSE IF i > Len(ns) /\ i \in GetNode(all, all[i].id) THEN Setup(all[i])
             ELSE all[i]
           r == [i \in DOMAIN all |-> turned(i)]
<1>1. Reconcile(t, ns) = r
  BY Zenon DEF Reconcile, Retired
<1>2. t.lastId \in Nat
  BY DEF Sound
<1>3. missing \in Seq(known)
  <2> DEFINE I == {id \in 1..t.lastId : IsKnown(t, id) /\ ~hasNode(id)}
             n == t.lastId
  <2>1. I \subseteq known
    OBVIOUS
  <2> HIDE DEF I, known
  <2>2. ids \in Seq(Nat) /\ Len(ids) = n /\ \A k \in 1..n : ids[k] = k
    <3>1. n \in Nat
      BY <1>2
    <3>2. ids = [i \in 1..n |-> i]
      OBVIOUS
    <3> HIDE DEF n, ids
    <3> QED BY <3>1, <3>2
  <2> HIDE DEF ids
  <2>3. \A k \in 1..Len(ids) : k \in I => ids[k] \in known
    BY <2>1, <2>2
  <2>4. Kept(ids, I) \in Seq(known)
    BY <2>2, <2>3, KeptIn
  <2> QED BY <2>4 DEF I
<1> HIDE DEF missing
<1>4. new \in Seq(F)
  <2>1. \A i \in DOMAIN missing : IsKnown(t, missing[i])
    BY <1>3
  <2>2. \A i \in DOMAIN missing : new[i] \in F
    <3> TAKE i \in DOMAIN missing
    <3>1. NewNode(missing[i], AddressOf(t, missing[i])) \in Fine(d, t, FALSE)
      BY <2>1, NewNodeFine, Zenon
    <3>2. Fine(d, t, FALSE) \subseteq F
      BY FineAny
    <3>3. NewNode(missing[i], AddressOf(t, missing[i])) \in F
      BY <3>1, <3>2, Zenon
    <3> QED BY <3>3, Zenon
  <2>3. new = [i \in DOMAIN missing |-> new[i]]
    BY Zenon
  <2> HIDE DEF new, F
  <2> QED BY <1>3, <2>2, <2>3, MapSeq
<1> HIDE DEF new
<1>5. all \in Seq(F) /\ \A i \in DOMAIN ns : i \in DOMAIN all /\ all[i] = ns[i]
  <2> HIDE DEF F
  <2>1. ns \in Seq(F)
    BY DEF F
  <2> QED BY <1>4, <2>1
<1> HIDE DEF all
<1>6. ASSUME NEW i \in DOMAIN all PROVE turned(i) \in F /\ turned(i).error = all[i].error
  <2>1. all[i] \in F
    <3> HIDE DEF F
    <3> QED BY <1>5
  <2>2. \A n \in F : /\ Retired(n) \in F /\ Retired(n).error = n.error
                    /\ Setup(n) \in F /\ Setup(n).error = n.error
    <3> DEFINE yes == TRUE
    <3>1. SUFFICES ASSUME NEW n \in Fine(d, t, yes)
                   PROVE  /\ Retired(n) \in F /\ Retired(n).error = n.error
                          /\ Setup(n) \in F /\ Setup(n).error = n.error
      OBVIOUS
    <3> HIDE DEF yes
    <3>2. Stepping(d, t, yes, n)
      BY FineSteps, Zenon
    <3> QED BY <3>2, Zenon DEF Stepping
  <2> HIDE DEF F
  <2>3. /\ Retired(all[i]) \in F /\ Retired(all[i]).error = all[i].error
        /\ Setup(all[i]) \in F /\ Setup(all[i]).error = all[i].error
    BY <2>1, <2>2, Zenon
  <2> QED BY <2>1, <2>3, Zenon
<1>7. DOMAIN r = DOMAIN all /\ \A i \in DOMAIN all : r[i] = turned(i)
  BY Zenon
<1> HIDE DEF turned
<1>8. r = [i \in DOMAIN all |-> r[i]]
  BY Zenon
<1> HIDE DEF r, F
<1>9. r \in Seq(F)
  <2>1. \A i \in DOMAIN all : r[i] \in F
    BY <1>6, <1>7, Zenon
  <2> QED BY <1>5, <1>8, <2>1, MapSeq
<1>10. \A i \in DOMAIN ns : i \in DOMAIN r /\ r[i].error = ns[i].error
  BY <1>5, <1>6, <1>7, Zenon
<1> QED BY <1>1, <1>9, <1>10, Zenon DEF F, Reconciled


LEMMA FollowsSeq ==
  ASSUME NEW d, NEW t, NEW u, NEW s, Follows(t, u), NEW ns \in Seq(Fine(d, t, s))
  PROVE  ns \in Seq(Fine(d, u, s))
<1>1. Fine(d, t, s) \subseteq Fine(d, u, s)
  BY FineFollows, Zenon
<1> QED BY <1>1

LEMMA DisconnectFine ==
  ASSUME NEW d, NEW t, NEW s, NEW ns \in Seq(Fine(d, t, s)), NEW id
  PROVE  Disconnect(ns, id) \in Seq(Fine(d, t, s))
<1> DEFINE F == Fine(d, t, s)
           closed(i) == IF i \in GetNode(ns, id) /\ ns[i].stream THEN Closed(ns[i]) ELSE ns[i]
           r == [i \in DOMAIN ns |-> closed(i)]
<1>1. Disconnect(ns, id) = r
  BY Zenon DEF Disconnect, Closed
<1>2. ASSUME NEW i \in DOMAIN ns PROVE closed(i) \in F
  <2>1. ns[i] \in F
    <3> HIDE DEF F
    <3>1. ns \in Seq(F)
      BY DEF F
    <3> QED BY <3>1
  <2>2. Stepping(d, t, s, ns[i])
    BY <2>1, FineSteps, Zenon
  <2> QED BY <2>1, <2>2, Zenon DEF Stepping
<1>3. r = [i \in DOMAIN ns |-> r[i]] /\ \A i \in DOMAIN ns : r[i] \in F
  BY <1>2, Zenon
<1> HIDE DEF r, F
<1>4. r \in Seq(F)
  <2>1. ns \in Seq(F)
    BY DEF F
  <2> QED BY <1>3, <2>1, MapSeq
<1> QED BY <1>1, <1>4 DEF F

LEMMA NotRetiredFine ==
  ASSUME NEW d, NEW t, NEW s, NEW ns \in Seq(Fine(d, t, s))
  PROVE  /\ NotRetired(ns) \in Seq(Fine(d, t, s))
         /\ (\A i \in DOMAIN ns : ns[i].cmd = "none") => NotRetired(ns) \in Seq(Fine(d, t, FALSE))
<1> DEFINE F == Fine(d, t, s)
           I == {i \in DOMAIN ns : ~ns[i].retired}
<1>1. NotRetired(ns) = Kept(ns, I)
  BY Zenon DEF NotRetired
<1>2. ns \in Seq(F) /\ DOMAIN ns = 1..Len(ns)
  OBVIOUS
<1>3. ASSUME NEW G, \A i \in I : ns[i] \in G PROVE Kept(ns, I) \in Seq(G)
  <2> HIDE DEF F, I
  <2>1. \A k \in 1..Len(ns) : k \in I => ns[k] \in G
    BY <1>3, Zenon
  <2> QED BY <1>2, <2>1, KeptIn
<1>4. \A i \in I : ns[i] \in F
  <2> HIDE DEF F
  <2> QED BY <1>2
<1>5. ASSUME \A i \in DOMAIN ns : ns[i].cmd = "none" PROVE \A i \in I : ns[i] \in Fine(d, t, FALSE)
  <2> TAKE i \in I
  <2>1. ns[i] \in F /\ ns[i].cmd = "none" /\ ~ns[i].retired
    BY <1>4, <1>5, Zenon
  <2> QED BY <2>1, Zenon DEF Fine
<1> HIDE DEF I
<1>6. Kept(ns, I) \in Seq(F)
  BY <1>3, <1>4
<1>7. (\A i \in DOMAIN ns : ns[i].cmd = "none") => Kept(ns, I) \in Seq(Fine(d, t, FALSE))
  BY <1>3, <1>5
<1> QED BY <1>1, <1>6, <1>7, Zenon

LEMMA StartScanFine ==
  ASSUME NEW d, Sound(td), nodes \in Seq(Fine(d, td, TRUE)), StartScan
  PROVE  nodes' \in Seq(Fine(d, td, TRUE))
<1> DEFINE yes == TRUE
           F == Fine(d, td, yes)
           all == NotRetired(Reconcile(td, nodes))
           next(i) == IF all[i].cooling /\ all[i].cmd = "none" THEN all[i] ELSE Setup(all[i])
           r == [i \in DOMAIN all |-> next(i)]
<1>1. nodes' = r
  BY Zenon DEF StartScan
<1>2. Reconcile(td, nodes) \in Seq(Fine(d, td, TRUE))
  BY ReconcileFine DEF Reconciled
<1>3. all \in Seq(F)
  <2>1. NotRetired(Reconcile(td, nodes)) \in Seq(Fine(d, td, TRUE))
    <3> DEFINE ns == Reconcile(td, nodes)
               ok == TRUE
    <3>1. ns \in Seq(Fine(d, td, ok))
      BY <1>2
    <3> HIDE DEF ns, ok
    <3>2. NotRetired(ns) \in Seq(Fine(d, td, ok))
      BY <3>1, NotRetiredFine
    <3> QED BY <3>2 DEF ns, ok
  <2> QED BY <2>1
<1> HIDE DEF all, yes
<1>4. ASSUME NEW i \in DOMAIN all PROVE next(i) \in F
  <2>1. all[i] \in F
    <3> HIDE DEF F
    <3> QED BY <1>3
  <2>2. Stepping(d, td, yes, all[i])
    BY <2>1, FineSteps, Zenon
  <2>3. Setup(all[i]) \in F
    BY <2>2, Zenon DEF Stepping, yes
  <2> QED BY <2>1, <2>3, Zenon
<1>5. r = [i \in DOMAIN all |-> r[i]] /\ \A i \in DOMAIN all : r[i] \in F
  BY <1>4, Zenon
<1> HIDE DEF r, F
<1>6. r \in Seq(F)
  BY <1>3, <1>5, MapSeq
<1> QED BY <1>1, <1>6 DEF F, yes


(* One node takes a step. *)
LEMMA ReplaceFine ==
  ASSUME NEW F, NEW ns \in Seq(F), NEW i \in DOMAIN ns, NEW x \in F
  PROVE  LET r == [ns EXCEPT ![i] = x]
         IN r \in Seq(F) /\ DOMAIN r = DOMAIN ns /\ r[i] = x /\ \A j \in DOMAIN ns \ {i} : r[j] = ns[j]
  OBVIOUS

LEMMA HandledFine ==
  ASSUME NEW d, NEW t, NEW u, Follows(t, u), Sound(u), NEW ns \in Seq(Fine(d, t, TRUE)),
         NEW i \in DOMAIN ns, NEW shaken \in {"yes", "failed"}
  PROVE  Reconciled(d, u, ns, Reconcile(u, [ns EXCEPT ![i] = Handled(ns[i], shaken)]))
<1> DEFINE yes == TRUE
           F == Fine(d, u, yes)
           x == Handled(ns[i], shaken)
           s == [ns EXCEPT ![i] = x]
           r == Reconcile(u, s)
<1>1. ns \in Seq(F)
  BY FollowsSeq
<1> HIDE DEF yes, F
<1>2. ns[i] \in F
  BY <1>1
<1>3. Stepping(d, u, yes, ns[i])
  BY <1>2, FineSteps, Zenon DEF F
<1>4. x \in F /\ x.error = ns[i].error
  BY <1>3, Zenon DEF Stepping, F, yes
<1> HIDE DEF x
<1>5. s \in Seq(F) /\ DOMAIN s = DOMAIN ns /\ s[i] = x /\ \A j \in DOMAIN ns \ {i} : s[j] = ns[j]
  BY <1>1, <1>4, ReplaceFine
<1> HIDE DEF s
<1>6. s \in Seq(Fine(d, u, TRUE))
  BY <1>5 DEF F, yes
<1>7. r \in Seq(Fine(d, u, TRUE)) /\ \A j \in DOMAIN s : j \in DOMAIN r /\ r[j].error = s[j].error
  <2>1. Reconciled(d, u, s, r)
    BY <1>6, ReconcileFine
  <2> HIDE DEF r
  <2> QED BY <2>1, Zenon DEF Reconciled
<1> HIDE DEF r
<1>8. \A j \in DOMAIN ns : s[j].error = ns[j].error
  BY <1>4, <1>5, Zenon
<1>9. \A j \in DOMAIN ns : j \in DOMAIN r /\ r[j].error = ns[j].error
  BY <1>5, <1>7, <1>8, Zenon
<1>10. Reconciled(d, u, ns, r)
  BY <1>7, <1>9, Zenon DEF Reconciled
<1> QED BY <1>10, Zenon DEF r, s, x

FailedAt(ns, i) == [ns EXCEPT ![i] = Failed(ns[i])]
SetupAgain(ns, id) == [j \in DOMAIN ns |-> IF j \in GetNode(ns, id) THEN Setup(ns[j]) ELSE ns[j]]

Erring(d, t, ns) == ns \in Seq(Fine(d, t, TRUE)) /\ \E i \in DOMAIN ns : ns[i].error

LEMMA FailedFine ==
  ASSUME NEW d, NEW t, NEW u, Follows(t, u), Sound(u), NEW ns \in Seq(Fine(d, t, TRUE)),
         NEW i \in DOMAIN ns, ns[i].cmd # "none", NEW id
  PROVE  /\ Erring(d, u, SetupAgain(FailedAt(ns, i), id))
         /\ Erring(d, u, Reconcile(u, FailedAt(ns, i)))
<1> DEFINE yes == TRUE
           F == Fine(d, u, yes)
           x == Failed(ns[i])
           s == [ns EXCEPT ![i] = x]
           next(j) == IF j \in GetNode(s, id) THEN Setup(s[j]) ELSE s[j]
           again == [j \in DOMAIN s |-> next(j)]
           r == Reconcile(u, s)
<1>1. ns \in Seq(F)
  BY FollowsSeq
<1> HIDE DEF yes, F
<1>2. ns[i] \in F
  BY <1>1
<1>3. \A n \in F : Stepping(d, u, yes, n)
  BY FineSteps, Zenon DEF F
<1>4. x \in F /\ x.error
  BY <1>2, <1>3, Zenon DEF Stepping, F, yes
<1> HIDE DEF x
<1>5. s \in Seq(F) /\ DOMAIN s = DOMAIN ns /\ s[i] = x
  BY <1>1, <1>4, ReplaceFine
<1> HIDE DEF s
<1>6. r \in Seq(Fine(d, u, TRUE)) /\ \E j \in DOMAIN r : r[j].error
  <2>1. s \in Seq(Fine(d, u, TRUE))
    BY <1>5 DEF F, yes
  <2>2. r \in Seq(Fine(d, u, TRUE)) /\ \A j \in DOMAIN s : j \in DOMAIN r /\ r[j].error = s[j].error
    <3>1. Reconciled(d, u, s, r)
      BY <2>1, ReconcileFine
    <3> HIDE DEF r
    <3> QED BY <3>1, Zenon DEF Reconciled
  <2> HIDE DEF r
  <2>3. s[i].error /\ i \in DOMAIN s
    BY <1>4, <1>5, Zenon
  <2>4. i \in DOMAIN r /\ r[i].error = s[i].error
    BY <2>2, <2>3
  <2>5. r[i].error
    BY <2>3, <2>4, Zenon
  <2> QED BY <2>2, <2>4, <2>5
<1>7. ASSUME NEW j \in DOMAIN s PROVE next(j) \in F /\ next(j).error = s[j].error
  <2>1. s[j] \in F
    BY <1>5
  <2>2. Setup(s[j]) \in F /\ Setup(s[j]).error = s[j].error
    BY <1>3, <2>1, Zenon DEF Stepping, F, yes
  <2> QED BY <2>1, <2>2, Zenon
<1>8. again = [j \in DOMAIN s |-> again[j]] /\ \A j \in DOMAIN s : again[j] = next(j)
  BY Zenon
<1> HIDE DEF next, again
<1>9. again \in Seq(F) /\ DOMAIN again = DOMAIN s
  <2>1. \A j \in DOMAIN s : again[j] \in F
    BY <1>7, <1>8, Zenon
  <2> QED BY <1>5, <1>8, <2>1, MapSeq
<1>10. \E j \in DOMAIN again : again[j].error
  <2>1. s[i].error /\ i \in DOMAIN s
    BY <1>4, <1>5, Zenon
  <2>2. again[i].error = s[i].error
    BY <1>7, <1>8, <2>1, Zenon
  <2>3. again[i].error
    BY <2>1, <2>2, Zenon
  <2> QED BY <1>9, <2>1, <2>3, Zenon
<1>11. again \in Seq(Fine(d, u, TRUE))
  BY <1>9, Zenon DEF F, yes
<1>12. Erring(d, u, again) /\ Erring(d, u, r)
  BY <1>6, <1>10, <1>11, Zenon DEF Erring
<1>13. FailedAt(ns, i) = s /\ SetupAgain(s, id) = again
  BY Zenon DEF FailedAt, SetupAgain, again, next, s, x
<1> QED BY <1>12, <1>13, Zenon DEF r

LEMMA AnsweredFine ==
  ASSUME NEW d, NEW t, NEW ns \in Seq(Fine(d, t, TRUE)), NEW i \in DOMAIN ns, ns[i].cmd = "sent",
         NEW h \in HelloReply, Tells(d, ns[i].addr, h)
  PROVE  Reconciled(d, t, ns, [ns EXCEPT ![i] = Answered(ns[i], h)])
<1> DEFINE yes == TRUE
           F == Fine(d, t, yes)
           x == Answered(ns[i], h)
           r == [ns EXCEPT ![i] = x]
<1>1. ns \in Seq(F)
  OBVIOUS
<1> HIDE DEF yes, F
<1>2. ns[i] \in F
  BY <1>1
<1>3. Stepping(d, t, yes, ns[i])
  BY <1>2, FineSteps, Zenon DEF F
<1>4. x \in F /\ x.error = ns[i].error
  BY <1>3, Zenon DEF Stepping, F, yes
<1> HIDE DEF x
<1>5. r \in Seq(F) /\ DOMAIN r = DOMAIN ns /\ r[i] = x /\ \A j \in DOMAIN ns \ {i} : r[j] = ns[j]
  BY <1>1, <1>4, ReplaceFine
<1> HIDE DEF r
<1>6. \A j \in DOMAIN ns : j \in DOMAIN r /\ r[j].error = ns[j].error
  BY <1>4, <1>5, Zenon
<1>7. Reconciled(d, t, ns, r)
  BY <1>5, <1>6, Zenon DEF Reconciled, F, yes
<1> QED BY <1>7, Zenon DEF r, x

LEMMA RestedFine ==
  ASSUME NEW d, NEW t, NEW s, NEW ns \in Seq(Fine(d, t, s)), NEW i \in DOMAIN ns
  PROVE  [ns EXCEPT ![i] = Rested(ns[i])] \in Seq(Fine(d, t, s))
<1>1. ns[i] \in Fine(d, t, s)
  OBVIOUS
<1>2. Stepping(d, t, s, ns[i])
  BY <1>1, FineSteps, Zenon
<1>3. Rested(ns[i]) \in Fine(d, t, s)
  BY <1>2, Zenon DEF Stepping
<1> QED BY <1>3, ReplaceFine


------------------------------------------------------------------------------
(* The call *)

Results == {"none", "ok", "failed", "refused"}
Steps == {"idle", "select", "check", "fetch", "scan", "stream", "run"}
Calls == [mode : Mode \cup {"none"}, id : Nat, tried : BOOLEAN, again : BOOLEAN, cleared : BOOLEAN,
          error : BOOLEAN, result : Results]

LEMMA CallSteps ==
  ASSUME NEW o \in Calls, NEW v
  PROVE  /\ v \in Nat => LET p == [o EXCEPT !.id = v] IN p \in Calls /\ p.id = v /\ p.cleared = o.cleared
         /\ v \in Mode \cup {"none"} =>
              LET p == [o EXCEPT !.mode = v] IN p \in Calls /\ p.id = o.id /\ p.cleared = o.cleared
         /\ v \in Results =>
              LET p == [o EXCEPT !.result = v] IN p \in Calls /\ p.id = o.id /\ p.cleared = o.cleared
<1>1. ASSUME v \in Nat PROVE LET p == [o EXCEPT !.id = v] IN p \in Calls /\ p.id = v /\ p.cleared = o.cleared
  BY <1>1 DEF Calls
<1>2. ASSUME v \in Mode \cup {"none"}
      PROVE  LET p == [o EXCEPT !.mode = v] IN p \in Calls /\ p.id = o.id /\ p.cleared = o.cleared
  BY <1>2 DEF Calls
<1>3. ASSUME v \in Results
      PROVE  LET p == [o EXCEPT !.result = v] IN p \in Calls /\ p.id = o.id /\ p.cleared = o.cleared
  BY <1>3 DEF Calls
<1> QED BY <1>1, <1>2, <1>3, Zenon

LEMMA CallTried ==
  ASSUME NEW o \in Calls, NEW v \in BOOLEAN, NEW p, p = [o EXCEPT !.tried = v]
  PROVE  p \in Calls /\ p.id = o.id /\ p.cleared = o.cleared
  BY DEF Calls

LEMMA CallAgain ==
  ASSUME NEW o \in Calls, NEW v \in BOOLEAN, NEW p, p = [o EXCEPT !.again = v]
  PROVE  p \in Calls /\ p.id = o.id /\ p.cleared = o.cleared
  BY DEF Calls

LEMMA CallError ==
  ASSUME NEW o \in Calls, NEW v \in BOOLEAN, NEW p, p = [o EXCEPT !.error = v]
  PROVE  p \in Calls /\ p.id = o.id /\ p.cleared = o.cleared /\ p.error = v
  BY DEF Calls

LEMMA CallCleared ==
  ASSUME NEW o \in Calls, NEW v \in BOOLEAN, NEW p, p = [o EXCEPT !.cleared = v]
  PROVE  p \in Calls /\ p.id = o.id /\ p.cleared = v
  BY DEF Calls

LEMMA IdleIn == Idle \in Calls /\ ~Idle.cleared /\ Idle.id = 0
<1> DEFINE no == FALSE
           o == [mode |-> "none", id |-> 0, tried |-> no, again |-> no, cleared |-> no,
                 error |-> no, result |-> "none"]
<1>1. Idle = o
  BY Zenon DEF Idle
<1>2. no \in BOOLEAN /\ ~no
  OBVIOUS
<1> HIDE DEF no
<1>3. o \in Calls /\ o.cleared = no /\ o.id = 0
  BY <1>2 DEF Calls, Results
<1> HIDE DEF o
<1> QED BY <1>1, <1>2, <1>3, Zenon

(* Only a call that scans, or is about to learn that its scan failed, has had its pool cleared. *)
Calling(ns, o, p) ==
  /\ o \in Calls /\ p \in Steps
  /\ o.cleared => /\ o.id # 0
                  /\ \/ p = "scan" /\ \E i \in DOMAIN ns : ns[i].error
                     \/ p = "stream" /\ o.error

NodesIn(d, t, p, ns) ==
  /\ p = "scan" => ns \in Seq(Fine(d, t, TRUE))
  /\ p # "scan" => ns \in Seq(Fine(d, t, FALSE))

LEMMA Uncleared == ASSUME NEW ns, NEW o \in Calls, NEW p \in Steps, ~o.cleared PROVE Calling(ns, o, p)
  BY DEF Calling

LEMMA EndCalls ==
  ASSUME op \in Calls, NEW result \in Results, End(result)
  PROVE  \A ns : Calling(ns, op', pc')
<1> DEFINE o == [Idle EXCEPT !.mode = op.mode]
           p == [o EXCEPT !.result = result]
<1>1. op.mode \in Mode \cup {"none"}
  BY DEF Calls
<1>2. o \in Calls /\ ~o.cleared
  <2> DEFINE m == op.mode
  <2>1. m \in Mode \cup {"none"}
    BY <1>1
  <2> HIDE DEF m
  <2>2. [Idle EXCEPT !.mode = m] \in Calls /\ ~[Idle EXCEPT !.mode = m].cleared
    BY <2>1, IdleIn, CallSteps, ZenonT(60)
  <2> QED BY <2>2 DEF m
<1>3. op' = p /\ pc' = "idle"
  BY Zenon DEF End
<1> HIDE DEF o
<1>4. p \in Calls /\ ~p.cleared
  BY <1>2, CallSteps, ZenonT(60)
<1>5. "idle" \in Steps
  BY DEF Steps
<1> HIDE DEF p
<1> QED BY <1>3, <1>4, <1>5, Uncleared, Zenon

LEMMA AgainCalls ==
  ASSUME op \in Calls, SelectAgain
  PROVE  \A ns : Calling(ns, op', pc')
<1> DEFINE m == op.mode
           yes == TRUE
           o == [Idle EXCEPT !.mode = m]
           p == [o EXCEPT !.again = yes]
<1>1. m \in Mode \cup {"none"}
  BY DEF Calls
<1>2. op' = p /\ pc' = "select"
  BY Zenon DEF SelectAgain
<1>3. yes \in BOOLEAN
  OBVIOUS
<1> HIDE DEF m, yes
<1>4. o \in Calls /\ ~o.cleared
  BY <1>1, IdleIn, CallSteps, ZenonT(60)
<1> HIDE DEF o
<1>5. p \in Calls /\ ~p.cleared
  <2>1. p \in Calls /\ p.cleared = o.cleared
    BY <1>3, <1>4, CallAgain
  <2> HIDE DEF p
  <2> QED BY <1>4, <2>1, Zenon
<1>6. "select" \in Steps
  BY DEF Steps
<1> HIDE DEF p
<1> QED BY <1>2, <1>5, <1>6, Uncleared, Zenon


------------------------------------------------------------------------------
(* The inductive invariant of the client *)

Scanning ==
  /\ dep \in Deployments
  /\ mem \in [Addr -> MemberState(dep)]
  /\ Good(td) /\ Sound(td)
  /\ NodesIn(dep, td, pc, nodes)
  /\ Calling(nodes, op, pc)

(* What a step makes of the description *)
ReplyHandled(i) ==
  /\ i \in DOMAIN nodes /\ nodes[i].cmd = "answered"
  /\ td' = HandleHello(td, nodes[i].id, nodes[i].reply)
ErrorStored(a, tv, id) ==
  /\ a \in Servers(td)
  /\ td' = Fail([td EXCEPT !.servers[a].tv = tv], id)
DescriptionChanges ==
  \/ td' = td
  \/ \E i : ReplyHandled(i)
  \/ \E id : td' = Fail(td, id)
  \/ \E a, tv, id : ErrorStored(a, tv, id)

LEMMA DescriptionStep == ASSUME [Next]_vars PROVE DescriptionChanges
<1>1. ASSUME td' = td PROVE DescriptionChanges
  BY <1>1, Zenon DEF DescriptionChanges
<1>2. ASSUME NEW i, HandleReply(i) PROVE DescriptionChanges
  <2>1. ReplyHandled(i)
    BY <1>2, Zenon DEF HandleReply, ReplyHandled
  <2> QED BY <2>1, Zenon DEF DescriptionChanges
<1>3. ASSUME NEW id, td' = Fail(td, id) PROVE DescriptionChanges
  BY <1>3, Zenon DEF DescriptionChanges
<1>4. ASSUME NEW i, CheckFails(i) PROVE DescriptionChanges
  <2>1. td' = Fail(td, nodes[i].id)
    BY <1>4, Zenon DEF CheckFails
  <2> QED BY <1>3, <2>1
<1>5. ASSUME Lose PROVE DescriptionChanges
  BY <1>3, <1>5 DEF Lose
<1>6. ASSUME StartScan PROVE DescriptionChanges
  BY <1>1, <1>6, Zenon DEF StartScan
<1>7. CASE SetChanges
  BY <1>1, <1>7, Zenon DEF SetChanges, Elect, Reconfigure, Learn, client
<1>8. CASE Scanner
  <2>1. ASSUME FinishScan PROVE td' = td
    BY <2>1, Zenon DEF FinishScan
  <2>2. ASSUME NEW i, Answer(i) PROVE td' = td
    BY <2>2, Zenon DEF Answer
  <2> QED BY <1>1, <1>2, <1>8, <2>1, <2>2, Zenon DEF Scanner
<1>9. CASE Call
  <2>1. ASSUME NoScanner \/ NoneEligible \/ Select \/ SelectNone PROVE td' = td
    BY <2>1, Zenon DEF NoScanner, NoneEligible, Select, SelectNone
  <2>2. ASSUME Check \/ RunDone PROVE td' = td
    BY <2>2, Zenon DEF Check, RunDone
  <2>3. ASSUME ScanToSelect PROVE DescriptionChanges
    BY <1>6, <2>3 DEF ScanToSelect
  <2>4. ASSUME Fetch PROVE DescriptionChanges
    BY <1>1, <1>5, <1>6, <2>4, Zenon DEF Fetch
  <2>5. ASSUME FetchScanned PROVE DescriptionChanges
    BY <1>1, <1>5, <2>5, Zenon DEF FetchScanned
  <2>6. ASSUME RunRefused PROVE DescriptionChanges
    <3>1. CASE Counts
      <4>1. AddressOf(td, op.id) \in Servers(td)
        BY <3>1 DEF Counts, IsKnown, AddressOf
      <4>2. ErrorStored(AddressOf(td, op.id), Peer.tv, op.id)
        BY <2>6, <3>1, <4>1, Zenon DEF RunRefused, ErrorStored
      <4> QED BY <4>2, Zenon DEF DescriptionChanges
    <3>2. CASE ~Counts
      BY <1>1, <2>6, <3>2, Zenon DEF RunRefused
    <3> QED BY <3>1, <3>2
  <2> QED BY <1>1, <1>9, <2>1, <2>2, <2>3, <2>4, <2>5, <2>6, Zenon DEF Call
<1>10. CASE Faults
  <2>1. ASSUME CheckClosed PROVE DescriptionChanges
    BY <1>3, <2>1, Zenon DEF CheckClosed
  <2>2. ASSUME RunBreaks PROVE DescriptionChanges
    <3>1. td' = td \/ td' = Fail(td, op.id)
      BY <2>2, Zenon DEF RunBreaks
    <3> QED BY <1>1, <1>3, <3>1
  <2> QED BY <1>4, <1>10, <2>1, <2>2, Zenon DEF Faults
<1>11. ASSUME NEW mode, Begin(mode) PROVE DescriptionChanges
  BY <1>1, <1>11, Zenon DEF Begin
<1>12. ASSUME NEW i, CooldownEnds(i) PROVE DescriptionChanges
  BY <1>1, <1>12, Zenon DEF CooldownEnds
<1>13. CASE UNCHANGED vars
  BY <1>1, <1>13, Zenon DEF vars
<1> QED BY <1>7, <1>8, <1>9, <1>10, <1>11, <1>12, <1>13, Zenon DEF Next

(* A reply that is handled was sent in a scan, by the server of the node. *)
LEMMA AnsweredIn ==
  ASSUME Scanning, NEW i \in DOMAIN nodes, nodes[i].cmd # "none"
  PROVE  /\ pc = "scan" /\ nodes \in Seq(Fine(dep, td, TRUE)) /\ nodes[i] \in Fine(dep, td, TRUE)
         /\ nodes[i] \in Node /\ nodes[i].reply \in HelloReply /\ Placed(td, nodes[i])
         /\ nodes[i].id \in Nat \ {0} /\ nodes[i].addr \in Addr
         /\ nodes[i].shaken \in {"no", "yes", "failed"}
         /\ nodes[i].cmd = "answered" => Tells(dep, nodes[i].addr, nodes[i].reply)
<1>1. pc = "scan"
  <2>1. SUFFICES ASSUME pc # "scan" PROVE FALSE
    OBVIOUS
  <2>2. nodes \in Seq(Fine(dep, td, FALSE))
    BY <2>1, Zenon DEF Scanning, NodesIn
  <2> DEFINE F == Fine(dep, td, FALSE)
  <2>3. nodes[i] \in F
    <3> HIDE DEF F
    <3>1. nodes \in Seq(F)
      BY <2>2, Zenon DEF F
    <3> QED BY <3>1
  <2> QED BY <2>3, Zenon DEF Fine
<1>2. nodes \in Seq(Fine(dep, td, TRUE))
  BY <1>1, Zenon DEF Scanning, NodesIn
<1>3. nodes[i] \in Fine(dep, td, TRUE)
  <2> DEFINE F == Fine(dep, td, TRUE)
  <2> HIDE DEF F
  <2>1. nodes \in Seq(F)
    BY <1>2, Zenon DEF F
  <2>2. nodes[i] \in F
    BY <2>1
  <2> QED BY <2>2, Zenon DEF F
<1>4. nodes[i] \in Node /\ Placed(td, nodes[i])
      /\ (nodes[i].cmd = "answered" => Tells(dep, nodes[i].addr, nodes[i].reply))
  BY <1>3, Zenon DEF Fine
<1>5. /\ nodes[i].reply \in HelloReply /\ nodes[i].id \in Nat \ {0} /\ nodes[i].addr \in Addr
      /\ nodes[i].shaken \in {"no", "yes", "failed"}
  BY <1>4, NodeShape
<1> QED BY <1>1, <1>2, <1>3, <1>4, <1>5, Zenon

LEMMA StepSound ==
  ASSUME Scanning, DescriptionChanges
  PROVE  Sound(td') /\ Follows(td, td')
<1>1. Good(td) /\ Sound(td)
  BY DEF Scanning
<1>2. \A u, id : Sound(u) => LET w == Fail(u, id) IN Sound(w) /\ Follows(u, w)
  <2> TAKE u, id
  <2> HAVE Sound(u)
  <2> DEFINE w == Fail(u, id)
  <2>1. Sound(w) /\ Eases(u, w)
    BY FailEases
  <2> HIDE DEF w
  <2>2. Follows(u, w)
    BY <2>1, EasesGrows, GrowsFollows, Zenon
  <2> QED BY <2>1, <2>2 DEF w
<1>3. CASE td' = td
  <2>1. Follows(td, td)
    BY <1>1 DEF Follows, Sound
  <2> QED BY <1>1, <1>3, <2>1
<1>4. ASSUME NEW i, ReplyHandled(i) PROVE Sound(td') /\ Follows(td, td')
  <2>1. /\ i \in DOMAIN nodes /\ nodes[i].cmd = "answered"
        /\ td' = HandleHello(td, nodes[i].id, nodes[i].reply)
    BY <1>4, Zenon DEF ReplyHandled
  <2>2. nodes[i].reply \in HelloReply
    BY <2>1, AnsweredIn
  <2> QED BY <1>1, <2>1, <2>2, HelloFollows
<1>5. ASSUME NEW id, td' = Fail(td, id) PROVE Sound(td') /\ Follows(td, td')
  BY <1>1, <1>2, <1>5
<1>6. ASSUME NEW a, NEW tv, NEW id, ErrorStored(a, tv, id) PROVE Sound(td') /\ Follows(td, td')
  <2> DEFINE u == [td EXCEPT !.servers[a].tv = tv]
  <2>1. a \in Servers(td) /\ td' = Fail(u, id)
    BY <1>6, Zenon DEF ErrorStored
  <2>2. Sound(u) /\ Eases(td, u)
    BY <1>1, <2>1, VersionEases
  <2> HIDE DEF u
  <2>3. Follows(td, u)
    BY <1>1, <2>2, EasesGrows, GrowsFollows, Zenon
  <2>4. Sound(td') /\ Follows(u, td')
    BY <1>2, <2>1, <2>2
  <2>5. Follows(td, td')
    <3>1. /\ td.lastId \in Nat /\ u.lastId \in Nat /\ td'.lastId \in Nat
          /\ td.lastId <= u.lastId /\ u.lastId <= td'.lastId
      BY <2>3, <2>4, Zenon DEF Follows
    <3>2. td.lastId <= td'.lastId
      BY <3>1
    <3>3. ASSUME NEW b \in Servers(td'), ~(td'.servers[b].id > td.lastId)
          PROVE  b \in Servers(td) /\ td.servers[b].id = td'.servers[b].id
      <4>1. td'.servers[b].id \in Nat
        BY <2>4 DEF Sound
      <4>2. ~(td'.servers[b].id > u.lastId)
        BY <3>1, <3>3, <4>1
      <4>3. b \in Servers(u) /\ u.servers[b].id = td'.servers[b].id
        BY <2>4, <4>2, Zenon DEF Follows
      <4>4. ~(u.servers[b].id > td.lastId)
        BY <3>3, <4>3
      <4>5. b \in Servers(td) /\ td.servers[b].id = u.servers[b].id
        BY <2>3, <4>3, <4>4, Zenon DEF Follows
      <4> QED BY <4>3, <4>5, Zenon
    <3> QED BY <3>1, <3>2, <3>3, Zenon DEF Follows
  <2> QED BY <2>4, <2>5
<1> QED BY <1>3, <1>4, <1>5, <1>6, Zenon DEF DescriptionChanges


LEMMA NodesStay ==
  ASSUME Scanning, Follows(td, td'), pc # "scan", pc' # "scan",
         nodes' = nodes \/ \E id : nodes' = Disconnect(nodes, id)
  PROVE  NodesIn(dep, td', pc', nodes')
<1> DEFINE no == FALSE
<1>1. nodes \in Seq(Fine(dep, td, no))
  BY Zenon DEF Scanning, NodesIn
<1> HIDE DEF no
<1>2. nodes \in Seq(Fine(dep, td', no))
  BY <1>1, FollowsSeq
<1>3. \A id : Disconnect(nodes, id) \in Seq(Fine(dep, td', no))
  BY <1>2, DisconnectFine, Zenon
<1>4. nodes' \in Seq(Fine(dep, td', no))
  BY <1>2, <1>3, Zenon
<1> QED BY <1>4, Zenon DEF NodesIn, no

LEMMA ScanStarts ==
  ASSUME Scanning, ~op.cleared, pc # "scan", StartScan
  PROVE  NodesIn(dep', td', pc', nodes') /\ Calling(nodes', op', pc')
<1>1. pc' = "scan" /\ dep' = dep /\ td' = td /\ op' = op
  BY Zenon DEF StartScan
<1> DEFINE F == Fine(dep, td, FALSE)
           G == Fine(dep, td, TRUE)
<1>2. nodes \in Seq(F)
  BY Zenon DEF Scanning, NodesIn
<1>3. F \subseteq G
  BY FineAny
<1> HIDE DEF F, G
<1>4. nodes \in Seq(G)
  BY <1>2, <1>3
<1>5. nodes \in Seq(Fine(dep, td, TRUE))
  BY <1>4 DEF G
<1>6. Sound(td) /\ op \in Calls
  BY DEF Scanning, Calling
<1>7. nodes' \in Seq(Fine(dep, td, TRUE))
  BY <1>5, <1>6, StartScanFine
<1>8. NodesIn(dep', td', pc', nodes')
  BY <1>1, <1>7, Zenon DEF NodesIn
<1>9. "scan" \in Steps
  BY DEF Steps
<1>10. Calling(nodes', op, "scan")
  BY <1>6, <1>9, Uncleared
<1> QED BY <1>1, <1>8, <1>10, Zenon

(* The scanner *)
LEMMA AnswerStep ==
  ASSUME TopologyAssumption, Scanning, NEW i, Answer(i)
  PROVE  NodesIn(dep', td', pc', nodes') /\ Calling(nodes', op', pc')
<1> DEFINE n == nodes[i]
           h == Hello(n.addr)
<1>1. i \in DOMAIN nodes /\ n.cmd = "sent" /\ dep' = dep /\ td' = td /\ pc' = pc /\ op' = op
  BY Zenon DEF Answer
<1>2. nodes' = [nodes EXCEPT ![i].cmd = "answered", ![i].reply = h]
  BY Zenon DEF Answer
<1>3. nodes' = [nodes EXCEPT ![i] = Answered(n, h)]
  <2> HIDE DEF h
  <2> QED BY <1>1, <1>2 DEF Answered
<1>4. /\ pc = "scan" /\ nodes \in Seq(Fine(dep, td, TRUE)) /\ n.addr \in Addr
  BY <1>1, AnsweredIn
<1>5. h \in HelloReply /\ Tells(dep, n.addr, h)
  <2>1. dep \in Deployment /\ mem \in [Addr -> MemberState(dep)]
    BY DEF Scanning, TopologyAssumption
  <2> QED BY <1>4, <2>1, HelloTells
<1> HIDE DEF h
<1>6. /\ nodes' \in Seq(Fine(dep, td, TRUE))
      /\ \A j \in DOMAIN nodes : j \in DOMAIN nodes' /\ nodes'[j].error = nodes[j].error
  <2>1. Reconciled(dep, td, nodes, [nodes EXCEPT ![i] = Answered(n, h)])
    BY <1>1, <1>4, <1>5, AnsweredFine
  <2>2. Reconciled(dep, td, nodes, nodes')
    BY <1>3, <2>1, Zenon
  <2> QED BY <2>2, Zenon DEF Reconciled
<1>7. Calling(nodes, op, pc)
  BY Zenon DEF Scanning
<1>8. Calling(nodes', op, pc)
  BY <1>6, <1>7, Zenon DEF Calling
<1>9. NodesIn(dep, td, pc, nodes')
  BY <1>4, <1>6, Zenon DEF NodesIn
<1> QED BY <1>1, <1>8, <1>9, Zenon

LEMMA HandleReplyStep ==
  ASSUME Scanning, Sound(td'), Follows(td, td'), NEW i, HandleReply(i)
  PROVE  NodesIn(dep', td', pc', nodes') /\ Calling(nodes', op', pc')
<1> DEFINE n == nodes[i]
           shaken == IF n.shaken # "no" THEN n.shaken ELSE IF n.reply.ok THEN "yes" ELSE "failed"
           r == Reconcile(td', [nodes EXCEPT ![i] = Handled(n, shaken)])
<1>1. i \in DOMAIN nodes /\ n.cmd = "answered" /\ dep' = dep /\ pc' = pc /\ op' = op
  BY Zenon DEF HandleReply
<1>2. nodes' = r
  BY Zenon DEF HandleReply, Handled
<1>3. pc = "scan" /\ nodes \in Seq(Fine(dep, td, TRUE)) /\ n.shaken \in {"no", "yes", "failed"}
  BY <1>1, AnsweredIn
<1>4. shaken \in {"yes", "failed"}
  BY <1>3
<1> HIDE DEF shaken
<1>5. /\ r \in Seq(Fine(dep, td', TRUE))
      /\ \A j \in DOMAIN nodes : j \in DOMAIN r /\ r[j].error = nodes[j].error
  <2>1. Reconciled(dep, td', nodes, r)
    BY <1>1, <1>3, <1>4, HandledFine
  <2> HIDE DEF r
  <2> QED BY <2>1, Zenon DEF Reconciled
<1> HIDE DEF r
<1>6. Calling(nodes, op, pc)
  BY Zenon DEF Scanning
<1>7. Calling(nodes', op, pc)
  BY <1>2, <1>5, <1>6, Zenon DEF Calling
<1>8. NodesIn(dep, td', pc, nodes')
  BY <1>2, <1>3, <1>5, Zenon DEF NodesIn
<1> QED BY <1>1, <1>7, <1>8, Zenon

LEMMA CheckFailsStep ==
  ASSUME Scanning, Sound(td'), Follows(td, td'), NEW i, CheckFails(i)
  PROVE  NodesIn(dep', td', pc', nodes') /\ Calling(nodes', op', pc')
<1> DEFINE id == nodes[i].id
           failed == FailedAt(nodes, i)
           again == SetupAgain(failed, id)
           r == Reconcile(td', failed)
           b == op.cleared \/ op.id = id
<1>1. i \in DOMAIN nodes /\ nodes[i].cmd # "none" /\ dep' = dep /\ pc' = pc
  BY Zenon DEF CheckFails
<1>2. nodes' = again \/ nodes' = r
  BY Zenon DEF CheckFails, Failed, FailedAt, SetupAgain
<1>3. op' = [op EXCEPT !.cleared = b]
  BY Zenon DEF CheckFails
<1>4. pc = "scan" /\ nodes \in Seq(Fine(dep, td, TRUE)) /\ id \in Nat \ {0}
  BY <1>1, AnsweredIn
<1>5. Erring(dep, td', again) /\ Erring(dep, td', r)
  <2> HIDE DEF id
  <2> QED BY <1>1, <1>4, FailedFine
<1> HIDE DEF again, r
<1>6. nodes' \in Seq(Fine(dep, td', TRUE)) /\ \E j \in DOMAIN nodes' : nodes'[j].error
  BY <1>2, <1>5, Zenon DEF Erring
<1>7. Calling(nodes, op, pc)
  BY Zenon DEF Scanning
<1>8. b \in BOOLEAN /\ op \in Calls /\ "scan" \in Steps
  BY <1>7 DEF Calling, Steps
<1>9. b => op.id # 0
  BY <1>4, <1>7, Zenon DEF Calling
<1> HIDE DEF b
<1>10. op' \in Calls /\ (op'.cleared => op'.id # 0)
  <2>1. op' \in Calls /\ op'.id = op.id /\ op'.cleared = b
    BY <1>3, <1>8, CallCleared
  <2> QED BY <1>9, <2>1
<1>11. Calling(nodes', op', pc)
  <2>1. pc \in Steps
    BY <1>4, <1>8, Zenon
  <2> QED BY <1>4, <1>6, <1>10, <2>1, Zenon DEF Calling
<1>12. NodesIn(dep, td', pc, nodes')
  BY <1>4, <1>6, Zenon DEF NodesIn
<1> QED BY <1>1, <1>11, <1>12, Zenon

LEMMA FinishScanStep ==
  ASSUME Scanning, FinishScan
  PROVE  NodesIn(dep', td', pc', nodes') /\ Calling(nodes', op', pc')
<1> DEFINE yes == TRUE
           b == ScannerError
<1>1. pc = "scan" /\ (\A i \in DOMAIN nodes : nodes[i].cmd = "none") /\ nodes' = NotRetired(nodes)
      /\ dep' = dep /\ td' = td
  BY Zenon DEF FinishScan
<1>2. \/ op.id = 0 /\ pc' = "select" /\ op' = [op EXCEPT !.tried = yes]
      \/ op.id # 0 /\ pc' = "stream" /\ op' = [op EXCEPT !.error = b]
  BY Zenon DEF FinishScan
<1>3. nodes \in Seq(Fine(dep, td, yes))
  BY <1>1, Zenon DEF Scanning, NodesIn
<1>4. Calling(nodes, op, "scan") /\ op \in Calls
  BY <1>1, Zenon DEF Scanning, Calling
<1>5. yes \in BOOLEAN /\ b \in BOOLEAN /\ (b <=> \E i \in DOMAIN nodes : nodes[i].error)
  BY Zenon DEF ScannerError
<1>6. "select" \in Steps /\ "stream" \in Steps
  BY DEF Steps
<1> HIDE DEF yes, b
<1>7. nodes' \in Seq(Fine(dep, td, FALSE))
  <2> DEFINE F == Seq(Fine(dep, td, FALSE))
  <2>1. NotRetired(nodes) \in F
    BY <1>1, <1>3, NotRetiredFine
  <2> QED BY <1>1, <2>1
<1>8. pc' # "scan"
  BY <1>2
<1>9. NodesIn(dep, td, pc', nodes')
  BY <1>7, <1>8, Zenon DEF NodesIn
<1>10. CASE op.id = 0 /\ pc' = "select" /\ op' = [op EXCEPT !.tried = yes]
  <2>1. op' \in Calls /\ op'.cleared = op.cleared
    BY <1>4, <1>5, <1>10, CallTried
  <2>2. ~op.cleared
    BY <1>4, <1>10, Zenon DEF Calling
  <2>3. Calling(nodes', op', pc')
    BY <1>6, <1>10, <2>1, <2>2, Uncleared, Zenon
  <2> QED BY <1>1, <1>9, <2>3, Zenon
<1>11. CASE op.id # 0 /\ pc' = "stream" /\ op' = [op EXCEPT !.error = b]
  <2>1. op' \in Calls /\ op'.cleared = op.cleared /\ op'.id = op.id /\ op'.error = b
    BY <1>4, <1>5, <1>11, CallError
  <2>2. op.cleared => b
    BY <1>4, <1>5, Zenon DEF Calling
  <2>3. Calling(nodes', op', pc')
    BY <1>6, <1>11, <2>1, <2>2, Zenon DEF Calling
  <2> QED BY <1>1, <1>9, <2>3, Zenon
<1> QED BY <1>2, <1>10, <1>11, Zenon


(* The call *)
LEMMA NotScanning ==
  ASSUME Scanning, pc \notin {"scan", "stream"}
  PROVE  ~op.cleared
  BY Zenon DEF Scanning, Calling

Keeps == NodesIn(dep', td', pc', nodes') /\ Calling(nodes', op', pc')

LEMMA KeepsBy ==
  ASSUME Scanning, Follows(td, td'), dep' = dep, pc # "scan", pc' # "scan",
         nodes' = nodes \/ \E id : nodes' = Disconnect(nodes, id),
         Calling(nodes', op', pc')
  PROVE  Keeps
<1>1. NodesIn(dep, td', pc', nodes')
  BY NodesStay
<1> QED BY <1>1, Zenon DEF Keeps

LEMMA EndKeeps ==
  ASSUME Scanning, Follows(td, td'), dep' = dep, pc # "scan", NEW result \in Results, End(result),
         nodes' = nodes \/ \E id : nodes' = Disconnect(nodes, id)
  PROVE  Keeps
<1>1. op \in Calls
  BY Zenon DEF Scanning, Calling
<1>2. Calling(nodes', op', pc')
  BY <1>1, EndCalls, Zenon
<1>3. pc' # "scan"
  BY Zenon DEF End
<1> QED BY <1>2, <1>3, KeepsBy

LEMMA LoseKeeps ==
  ASSUME Scanning, Follows(td, td'), pc # "scan", Lose
  PROVE  Keeps
<1>1. dep' = dep /\ nodes' = Disconnect(nodes, op.id) /\ End("failed")
  BY Zenon DEF Lose
<1>2. "failed" \in Results
  BY DEF Results
<1> QED BY <1>1, <1>2, EndKeeps, Zenon

(* The call goes on with another step. *)
LEMMA GoesOn ==
  ASSUME Scanning, Follows(td, td'), UNCHANGED <<dep, nodes>>, ~op.cleared, pc # "scan",
         op' = op \/ \E id \in Nat : op' = [op EXCEPT !.id = id],
         pc' \in Steps \ {"scan"}
  PROVE  Keeps
<1>1. op \in Calls
  BY Zenon DEF Scanning, Calling
<1>2. op' \in Calls /\ op'.cleared = op.cleared
  <2>1. ASSUME NEW id \in Nat, op' = [op EXCEPT !.id = id] PROVE op' \in Calls /\ op'.cleared = op.cleared
    BY <1>1, <2>1, CallSteps
  <2> QED BY <1>1, <2>1, Zenon
<1>3. ~op'.cleared /\ pc' \in Steps /\ pc' # "scan"
  BY <1>2, Zenon
<1>4. Calling(nodes', op', pc')
  BY <1>2, <1>3, Uncleared
<1> QED BY <1>3, <1>4, KeepsBy, Zenon

LEMMA FetchKeeps ==
  ASSUME Scanning, Follows(td, td'), Fetch
  PROVE  Keeps
<1>1. pc = "fetch" /\ ~op.cleared /\ pc # "scan"
  <2>1. pc = "fetch"
    BY Zenon DEF Fetch
  <2>2. pc \notin {"scan", "stream"}
    BY <2>1
  <2> QED BY <2>1, <2>2, NotScanning, Zenon
<1>2. CASE pc' = "run" /\ UNCHANGED <<dep, mem, td, nodes, stale, op, faults>>
  <2>1. pc' \in Steps \ {"scan"} /\ op' = op /\ UNCHANGED <<dep, nodes>>
    BY <1>2, Zenon DEF Steps
  <2> QED BY <1>1, <2>1, GoesOn, Zenon
<1>3. CASE StartScan
  BY <1>1, <1>3, ScanStarts, Zenon DEF Keeps
<1>4. CASE Lose
  BY <1>1, <1>4, LoseKeeps, Zenon
<1> QED BY <1>2, <1>3, <1>4, Zenon DEF Fetch

LEMMA FetchScannedKeeps ==
  ASSUME Scanning, Follows(td, td'), FetchScanned
  PROVE  Keeps
<1>1. pc = "stream" /\ pc # "scan"
  <2>1. pc = "stream"
    BY Zenon DEF FetchScanned
  <2> QED BY <2>1
<1>2. CASE ~op.error /\ pc' = "run" /\ UNCHANGED <<dep, mem, td, nodes, stale, op, faults>>
  <2>1. pc' \in Steps \ {"scan"} /\ op' = op /\ UNCHANGED <<dep, nodes>>
    BY <1>2, Zenon DEF Steps
  <2>2. ~op.cleared
    BY <1>1, <1>2, Zenon DEF Scanning, Calling
  <2> QED BY <1>1, <2>1, <2>2, GoesOn, Zenon
<1>3. CASE Lose
  BY <1>1, <1>3, LoseKeeps, Zenon
<1> QED BY <1>2, <1>3, Zenon DEF FetchScanned

LEMMA SelectKeeps ==
  ASSUME Scanning, Follows(td, td'), Select
  PROVE  Keeps
<1>1. pc = "select" /\ UNCHANGED <<dep, nodes>> /\ (pc' = "fetch" \/ pc' = "check")
  BY Zenon DEF Select
<1>2. pc # "scan" /\ pc \notin {"scan", "stream"} /\ pc' \in Steps \ {"scan"}
  BY <1>1 DEF Steps
<1>3. ~op.cleared
  BY <1>2, NotScanning, Zenon
<1>4. \E id \in Nat : op' = [op EXCEPT !.id = id]
  <2>1. PICK a \in Suitable(td, op.mode) : op' = [op EXCEPT !.id = td.servers[a].id]
    BY Zenon DEF Select
  <2>2. a \in Servers(td)
    BY <2>1 DEF Suitable, First, OfType, Primaries
  <2>3. td.servers[a].id \in Nat
    BY <2>2 DEF Scanning, Sound
  <2> QED BY <2>1, <2>3, Zenon
<1> QED BY <1>1, <1>2, <1>3, <1>4, GoesOn, Zenon

LEMMA CheckKeeps ==
  ASSUME Scanning, Follows(td, td'), Check \/ CheckClosed
  PROVE  Keeps
<1>1. pc = "check" /\ dep' = dep
  BY Zenon DEF Check, CheckClosed
<1>2. pc # "scan" /\ pc \notin {"scan", "stream"} /\ "fetch" \in Steps \ {"scan"}
  BY <1>1 DEF Steps
<1>3. ~op.cleared
  BY <1>2, NotScanning, Zenon
<1>4. nodes' = nodes \/ \E id : nodes' = Disconnect(nodes, id)
  BY Zenon DEF Check, CheckClosed
<1>5. CASE SelectAgain
  <2>1. op \in Calls
    BY Zenon DEF Scanning, Calling
  <2>2. Calling(nodes', op', pc')
    BY <1>5, <2>1, AgainCalls, Zenon
  <2>3. pc' = "select"
    BY <1>5, Zenon DEF SelectAgain
  <2>4. pc' # "scan"
    BY <2>3
  <2> QED BY <1>1, <1>2, <1>4, <2>2, <2>4, KeepsBy, Zenon
<1>6. CASE Check /\ ~SelectAgain
  <2>1. pc' = "fetch" /\ op' = op /\ UNCHANGED <<dep, nodes>>
    BY <1>6, Zenon DEF Check
  <2> QED BY <1>2, <1>3, <2>1, GoesOn, Zenon
<1> QED BY <1>5, <1>6, Zenon DEF CheckClosed

LEMMA SelectNoneKeeps ==
  ASSUME Scanning, Follows(td, td'), SelectNone
  PROVE  Keeps
<1>1. pc = "select" /\ UNCHANGED <<dep, nodes>>
  BY Zenon DEF SelectNone
<1>2. pc # "scan" /\ pc \notin {"scan", "stream"} /\ pc \in Steps \ {"scan"} /\ "failed" \in Results
  BY <1>1 DEF Steps, Results
<1>3. ~op.cleared
  BY <1>2, NotScanning, Zenon
<1>4. CASE End("failed")
  BY <1>1, <1>2, <1>4, EndKeeps, Zenon
<1>5. CASE UNCHANGED <<pc, op>>
  BY <1>1, <1>2, <1>3, <1>5, GoesOn, Zenon
<1> QED BY <1>4, <1>5, Zenon DEF SelectNone

LEMMA RunKeeps ==
  ASSUME Scanning, Follows(td, td'), NoScanner \/ NoneEligible \/ RunDone \/ RunRefused \/ RunBreaks
  PROVE  Keeps
<1>1. (pc = "select" \/ pc = "run") /\ dep' = dep
  BY Zenon DEF NoScanner, NoneEligible, RunDone, RunRefused, RunBreaks
<1>2. pc # "scan"
  BY <1>1
<1>3. End("failed") \/ End("ok") \/ End("refused")
  BY Zenon DEF NoScanner, NoneEligible, RunDone, RunRefused, RunBreaks
<1>4. "failed" \in Results /\ "ok" \in Results /\ "refused" \in Results
  BY DEF Results
<1>5. nodes' = nodes \/ \E id : nodes' = Disconnect(nodes, id)
  BY Zenon DEF NoScanner, NoneEligible, RunDone, RunRefused, RunBreaks
<1> QED BY <1>1, <1>2, <1>3, <1>4, <1>5, EndKeeps, Zenon

LEMMA BeginKeeps ==
  ASSUME TopologyAssumption, Scanning, Follows(td, td'), NEW mode \in dep.modes, Begin(mode)
  PROVE  Keeps
<1>1. pc = "idle" /\ pc' = "select" /\ UNCHANGED <<dep, nodes>> /\ op' = [Idle EXCEPT !.mode = mode]
  BY Zenon DEF Begin
<1>2. mode \in Mode \cup {"none"}
  BY DEF Scanning, TopologyAssumption, Deployment
<1>3. op' \in Calls /\ op'.cleared = Idle.cleared
  BY <1>1, <1>2, IdleIn, CallSteps
<1>4. ~op'.cleared
  BY <1>3, IdleIn, Zenon
<1>5. pc # "scan" /\ pc' # "scan" /\ pc' \in Steps
  BY <1>1 DEF Steps
<1>6. Calling(nodes', op', pc')
  BY <1>3, <1>4, <1>5, Uncleared
<1> QED BY <1>1, <1>5, <1>6, KeepsBy, Zenon

LEMMA CooldownKeeps ==
  ASSUME Scanning, NEW i, CooldownEnds(i)
  PROVE  Keeps
<1>1. i \in DOMAIN nodes /\ pc # "scan" /\ UNCHANGED <<dep, td, pc, op>>
  BY Zenon DEF CooldownEnds
<1>2. nodes' = [nodes EXCEPT ![i] = Rested(nodes[i])]
  BY <1>1 DEF CooldownEnds, Rested
<1> DEFINE no == FALSE
<1>3. nodes \in Seq(Fine(dep, td, no))
  BY <1>1, Zenon DEF Scanning, NodesIn
<1> HIDE DEF no
<1>4. nodes' \in Seq(Fine(dep, td, no))
  BY <1>1, <1>2, <1>3, RestedFine
<1>5. NodesIn(dep', td', pc', nodes')
  BY <1>1, <1>4, Zenon DEF NodesIn, no
<1>6. Calling(nodes', op', pc')
  BY <1>1, Zenon DEF Scanning, Calling
<1> QED BY <1>5, <1>6, Zenon DEF Keeps

LEMMA Unchanged ==
  ASSUME Scanning, UNCHANGED <<dep, td, nodes, pc, op>>
  PROVE  Keeps
  BY Zenon DEF Scanning, Keeps

LEMMA StepKeeps ==
  ASSUME TopologyAssumption, Scanning, [Next]_vars
  PROVE  Scanning'
<1>1. DescriptionChanges
  BY DescriptionStep
<1>2. Sound(td') /\ Follows(td, td')
  BY <1>1, StepSound
<1>3. Good(td')
  BY StepGood, Zenon DEF Scanning
<1>4. CASE SetChanges
  <2>1. dep \in Deployment /\ mem \in [Addr -> MemberState(dep)]
    BY DEF Scanning, TopologyAssumption
  <2>2. mem' \in [Addr -> MemberState(dep)] /\ UNCHANGED <<dep, faults, client>>
    BY <1>4, <2>1, MembersStep
  <2>3. Keeps
    BY <2>2, Unchanged, Zenon DEF client
  <2> QED BY <1>2, <1>3, <2>2, <2>3, Zenon DEF Scanning, Keeps
<1>5. ASSUME UNCHANGED <<dep, mem>>, Keeps PROVE Scanning'
  BY <1>2, <1>3, <1>5, Zenon DEF Scanning, Keeps
<1>6. CASE UNCHANGED vars
  <2>1. UNCHANGED <<dep, mem, td, nodes, pc, op>>
    BY <1>6, Zenon DEF vars
  <2> QED BY <1>5, <2>1, Unchanged, Zenon
<1>7. CASE Scanner
  <2>1. ASSUME FinishScan PROVE UNCHANGED <<dep, mem>> /\ Keeps
    BY <2>1, FinishScanStep, Zenon DEF FinishScan, Keeps
  <2>2. ASSUME NEW i, Answer(i) PROVE UNCHANGED <<dep, mem>> /\ Keeps
    BY <2>2, AnswerStep, Zenon DEF Answer, Keeps
  <2>3. ASSUME NEW i, HandleReply(i) PROVE UNCHANGED <<dep, mem>> /\ Keeps
    BY <1>2, <2>3, HandleReplyStep, Zenon DEF HandleReply, Keeps
  <2> QED BY <1>5, <1>7, <2>1, <2>2, <2>3, Zenon DEF Scanner
<1>8. CASE Call
  <2>1. ASSUME NoScanner \/ NoneEligible \/ RunDone \/ RunRefused PROVE UNCHANGED <<dep, mem>> /\ Keeps
    <3>1. Keeps
      BY <1>2, <2>1, RunKeeps, Zenon
    <3> QED BY <2>1, <3>1, Zenon DEF NoScanner, NoneEligible, RunDone, RunRefused
  <2>2. ASSUME ScanToSelect PROVE UNCHANGED <<dep, mem>> /\ Keeps
    <3>1. pc = "select" /\ StartScan
      BY <2>2, Zenon DEF ScanToSelect
    <3>2. pc # "scan" /\ pc \notin {"scan", "stream"}
      BY <3>1
    <3>3. Keeps
      BY <3>1, <3>2, NotScanning, ScanStarts, Zenon DEF Keeps
    <3> QED BY <3>1, <3>3, Zenon DEF StartScan
  <2>3. ASSUME Select PROVE UNCHANGED <<dep, mem>> /\ Keeps
    BY <1>2, <2>3, SelectKeeps, Zenon DEF Select
  <2>4. ASSUME SelectNone PROVE UNCHANGED <<dep, mem>> /\ Keeps
    BY <1>2, <2>4, SelectNoneKeeps, Zenon DEF SelectNone
  <2>5. ASSUME Check PROVE UNCHANGED <<dep, mem>> /\ Keeps
    BY <1>2, <2>5, CheckKeeps, Zenon DEF Check
  <2>6. ASSUME Fetch PROVE UNCHANGED <<dep, mem>> /\ Keeps
    BY <1>2, <2>6, FetchKeeps, Zenon DEF Fetch, StartScan, Lose
  <2>7. ASSUME FetchScanned PROVE UNCHANGED <<dep, mem>> /\ Keeps
    BY <1>2, <2>7, FetchScannedKeeps, Zenon DEF FetchScanned, Lose
  <2> QED BY <1>5, <1>8, <2>1, <2>2, <2>3, <2>4, <2>5, <2>6, <2>7, Zenon DEF Call
<1>9. CASE Faults
  <2>1. ASSUME CheckClosed PROVE UNCHANGED <<dep, mem>> /\ Keeps
    BY <1>2, <2>1, CheckKeeps, Zenon DEF CheckClosed
  <2>2. ASSUME RunBreaks PROVE UNCHANGED <<dep, mem>> /\ Keeps
    BY <1>2, <2>2, RunKeeps, Zenon DEF RunBreaks
  <2>3. ASSUME NEW i, CheckFails(i) PROVE UNCHANGED <<dep, mem>> /\ Keeps
    BY <1>2, <2>3, CheckFailsStep, Zenon DEF CheckFails, Keeps
  <2> QED BY <1>5, <1>9, <2>1, <2>2, <2>3, Zenon DEF Faults
<1>10. ASSUME NEW mode \in dep.modes, Begin(mode) PROVE UNCHANGED <<dep, mem>> /\ Keeps
  BY <1>2, <1>10, BeginKeeps, Zenon DEF Begin
<1>11. ASSUME NEW i, CooldownEnds(i) PROVE UNCHANGED <<dep, mem>> /\ Keeps
  BY <1>11, CooldownKeeps, Zenon DEF CooldownEnds
<1> QED BY <1>4, <1>5, <1>6, <1>7, <1>8, <1>9, <1>10, <1>11, Zenon DEF Next


LEMMA InitDescription ==
  ASSUME TopologyAssumption, Init
  PROVE  /\ Sound(td) /\ (\A a \in Servers(td) : TypeAt(td, a) \in InNoSet \ {"RSGhost"})
         /\ \A i \in DOMAIN dep.seeds : IsKnown(td, i) /\ AddressOf(td, i) = dep.seeds[i]
<1> DEFINE none == [a \in {} |-> Blank(0)]
           t == [type |-> InitialType(dep), name |-> dep.name, servers |-> none, maxSv |-> 0,
                 maxEid |-> 0, lastId |-> 0]
           seeds == dep.seeds
           n == Len(seeds)
<1>1. none = <<>>
  OBVIOUS
<1>2. td = AddNewServers(t, seeds)
  BY <1>1 DEF Init
<1>3. DOMAIN none = {} /\ none = [a \in {} |->
         [id |-> none[a].id, type |-> none[a].type, hello |-> none[a].hello,
          sv |-> none[a].sv, eid |-> none[a].eid, tv |-> none[a].tv]]
  OBVIOUS
<1>4. seeds \in Seq(Addr) /\ \A i, j \in DOMAIN seeds : seeds[i] = seeds[j] => i = j
  BY DEF Init, TopologyAssumption, Deployment
<1>5. n \in Nat /\ DOMAIN seeds = 1..n
  BY <1>4
<1> HIDE DEF none
<1>6. Shaped(t)
  BY <1>3 DEF Shaped, Servers
<1>7. Servers(t) = {} /\ t.lastId = 0 /\ t.servers = none
      /\ t.type = InitialType(dep)
  BY <1>3 DEF Servers
<1> HIDE DEF t, n, seeds
<1>8. Sound(t)
  BY <1>6, <1>7 DEF Sound
<1>9. Sound(td) /\ Grows(t, td)
  <2>1. Grows(t, td) /\ Shaped(td)
    BY <1>2, <1>4, <1>8, AddGrows
  <2> QED BY <1>8, <2>1, GrowsSound
<1>10. \A a \in Servers(td) : TypeAt(td, a) \in InNoSet \ {"RSGhost"}
  BY <1>7, <1>9 DEF Grows, TypeAt, InNoSet
<1>11. ASSUME NEW i \in DOMAIN seeds PROVE seeds[i] \in Servers(td) /\ td.servers[seeds[i]].id = i
  <2> DEFINE new == {j \in DOMAIN seeds : seeds[j] \notin Servers(t)}
             id(a) == t.lastId + Cardinality({j \in new : j <= CHOOSE k \in new : seeds[k] = a})
             all == Servers(t) \cup {seeds[j] : j \in new}
             next == [a \in all |-> IF a \in Servers(t) THEN t.servers[a] ELSE Blank(id(a))]
             a == seeds[i]
  <2>1. new = 1..n /\ a \in all
    BY <1>5, <1>7
  <2>2. td = [t EXCEPT !.servers = next, !.lastId = @ + Cardinality(new)]
    BY <1>2, Zenon DEF AddNewServers
  <2>3. td.servers = next
    <3> HIDE DEF next, new
    <3> QED BY <1>6, <2>2 DEF Shaped
  <2>4. next[a] = Blank(id(a))
    BY <1>7, <2>1
  <2>5. DOMAIN next = all
    OBVIOUS
  <2>6. (CHOOSE k \in new : seeds[k] = a) = i
    <3>1. i \in new
      BY <1>5, <2>1
    <3>2. \A k \in new : seeds[k] = a <=> k = i
      BY <1>4
    <3> HIDE DEF new, a
    <3> QED BY <3>1, <3>2
  <2>7. id(a) = i
    <3>1. {j \in new : j <= i} = 1..i /\ i \in 1..n
      BY <1>5, <2>1
    <3>2. Cardinality(1..i) = i
      BY <1>5, <3>1, FS_Interval
    <3>3. id(a) = t.lastId + Cardinality({j \in new : j <= i})
      <4> HIDE DEF new
      <4> QED BY <2>6
    <3> DEFINE c == Cardinality({j \in new : j <= i})
               k == id(a)
    <3>4. c = i
      <4> HIDE DEF new
      <4> QED BY <3>1, <3>2
    <3>5. k = t.lastId + c
      BY <3>3
    <3>6. i \in Nat
      BY <1>5, <3>1
    <3> HIDE DEF new, id, c, k
    <3>7. k = i
      BY <1>7, <3>4, <3>5, <3>6
    <3> QED BY <3>7 DEF k
  <2> HIDE DEF next, all, id
  <2>8. next[a].id = i
    BY <2>4, <2>7 DEF Blank
  <2> QED BY <2>1, <2>3, <2>5, <2>8 DEF Servers
<1>12. ASSUME NEW i \in DOMAIN seeds PROVE IsKnown(td, i) /\ AddressOf(td, i) = seeds[i]
  <2>1. \A a, b \in Servers(td) : td.servers[a].id = td.servers[b].id => a = b
    BY <1>9, Zenon DEF Sound
  <2>2. \A a \in Servers(td) : td.servers[a].id = i <=> a = seeds[i]
    BY <1>11, <2>1
  <2> QED BY <1>11, <2>2 DEF IsKnown, AddressOf
<1> QED BY <1>9, <1>10, <1>12, Zenon DEF seeds

LEMMA InitMembers ==
  ASSUME TopologyAssumption, Init
  PROVE  mem \in [Addr -> MemberState(dep)]
<1> DEFINE l == Len(dep.configs)
           m == dep.terms
<1>1. dep \in Deployment
  BY DEF Init, TopologyAssumption
<1>2. m \in Nat \ {0} /\ l \in Nat /\ (dep.configs # <<>> => l # 0)
  BY <1>1 DEF Deployment
<1> DEFINE in(a) == dep.configs # <<>> /\ a \in {dep.configs[1][i] : i \in DOMAIN dep.configs[1]}
<1>3. PICK p : mem = [a \in Addr |->
         [term |-> IF in(a) THEN 1 ELSE 0, primary |-> in(a) /\ a = p, ver |-> IF in(a) THEN 1 ELSE 0,
          tv |-> 1]]
  BY ZenonT(60) DEF Init
<1> DEFINE M == [term : 0..m, primary : BOOLEAN, ver : 0..l, tv : Nat]
           x(a) == [term |-> IF in(a) THEN 1 ELSE 0, primary |-> in(a) /\ a = p,
                    ver |-> IF in(a) THEN 1 ELSE 0, tv |-> 1]
<1>4. \A a : in(a) => dep.configs # <<>>
  OBVIOUS
<1> HIDE DEF m, l, in
<1>5. ASSUME NEW a \in Addr PROVE x(a) \in M
  <2> DEFINE b == in(a) /\ a = p
             k == IF in(a) THEN 1 ELSE 0
  <2>1. b \in BOOLEAN
    OBVIOUS
  <2>2. k \in 0..m /\ k \in 0..l
    BY <1>2, <1>4
  <2> HIDE DEF b, k
  <2>3. [term |-> k, primary |-> b, ver |-> k, tv |-> 1] \in M
    BY <2>1, <2>2
  <2> QED BY <2>3, Zenon DEF b, k
<1>6. mem = [a \in Addr |-> x(a)]
  BY <1>3, Zenon
<1> HIDE DEF x, M
<1>7. mem \in [Addr -> M]
  BY <1>5, <1>6
<1> QED BY <1>7 DEF M, MemberState, m, l

LEMMA InitScanning ==
  ASSUME TopologyAssumption, Init
  PROVE  Scanning
<1> DEFINE F == Fine(dep, td, FALSE)
           ns == [i \in DOMAIN dep.seeds |-> NewNode(i, dep.seeds[i])]
<1>1. nodes = ns /\ pc = "idle" /\ op = Idle /\ dep \in Deployments
  BY Zenon DEF Init
<1>2. Sound(td) /\ \A i \in DOMAIN dep.seeds : IsKnown(td, i) /\ AddressOf(td, i) = dep.seeds[i]
  BY InitDescription, Zenon
<1>3. \A i \in DOMAIN dep.seeds : NewNode(i, dep.seeds[i]) \in F
  <2> TAKE i \in DOMAIN dep.seeds
  <2>1. NewNode(i, AddressOf(td, i)) \in F
    BY <1>2, NewNodeFine
  <2> QED BY <1>2, <2>1, Zenon
<1>4. dep.seeds \in Seq(Addr)
  BY <1>1 DEF TopologyAssumption, Deployment
<1>5. ns = [i \in DOMAIN dep.seeds |-> ns[i]] /\ \A i \in DOMAIN dep.seeds : ns[i] \in F
  BY <1>3, Zenon
<1> HIDE DEF ns, F
<1>6. ns \in Seq(F)
  BY <1>4, <1>5, MapSeq
<1>7. pc # "scan" /\ pc \in Steps
  BY <1>1 DEF Steps
<1>8. NodesIn(dep, td, pc, nodes)
  BY <1>1, <1>6, <1>7, Zenon DEF NodesIn, F
<1>9. Calling(nodes, op, pc)
  BY <1>1, <1>7, IdleIn, Uncleared, Zenon
<1>10. Good(td) /\ mem \in [Addr -> MemberState(dep)]
  BY InitGood, InitMembers
<1> QED BY <1>1, <1>2, <1>8, <1>9, <1>10, Zenon DEF Scanning


(* The inductive invariant of the client: what its scanner and its call keep of each other and
   of the description (mongoc-topology-scanner.c, mongoc-cluster.c). *)
THEOREM ScanningInvariance == Spec => []Scanning
<1>1. Init => Scanning
  BY InitScanning, TopologyAssumption
<1>2. Scanning /\ [Next]_vars => Scanning'
  BY StepKeeps, TopologyAssumption
<1> QED BY <1>1, <1>2, PTL DEF Spec

(* The driver's assertions about the nodes of the scanner never fail, whatever the replies, the
   failures and the removals of servers between (mongoc_cluster_check_interval, _async_success). *)
THEOREM NoAssertionFails == Spec => []AssertionsHold
<1>1. ASSUME Scanning PROVE AssertionsHold
  <2>1. ASSUME NEW i \in DOMAIN nodes
        PROVE  /\ nodes[i].cmd # "none" => ~nodes[i].stream
               /\ nodes[i].stream => nodes[i].shaken # "no"
               /\ pc # "scan" => ~nodes[i].retired
    <3> DEFINE s == pc = "scan"
               F == Fine(dep, td, TRUE)
               G == Fine(dep, td, FALSE)
    <3>1. CASE pc = "scan"
      <4>1. nodes \in Seq(F)
        BY <1>1, <3>1, Zenon DEF Scanning, NodesIn
      <4> HIDE DEF F
      <4>2. nodes[i] \in F
        BY <4>1
      <4> QED BY <3>1, <4>2, Zenon DEF Fine, F
    <3>2. CASE pc # "scan"
      <4>1. nodes \in Seq(G)
        BY <1>1, <3>2, Zenon DEF Scanning, NodesIn
      <4> HIDE DEF G
      <4>2. nodes[i] \in G
        BY <4>1
      <4> QED BY <3>2, <4>2, Zenon DEF Fine, G
    <3> QED BY <3>1, <3>2
  <2>2. ASSUME pc = "check", NEW i \in GetNode(nodes, op.id)
        PROVE  ~nodes[i].retired /\ (nodes[i].stream => nodes[i].shaken # "no")
    <3>1. i \in DOMAIN nodes
      BY DEF GetNode
    <3>2. pc # "scan"
      BY <2>2
    <3> QED BY <2>1, <3>1, <3>2
  <2> QED BY <2>1, <2>2, Zenon DEF AssertionsHold
<1> QED BY <1>1, ScanningInvariance, PTL

(* No operation runs on a stream whose pool was cleared while the call waited for it
   (_mongoc_cluster_stream_for_server, mongoc_topology_scanner_get_error). *)
THEOREM ErrorsCount == Spec => []ErrorsAreCurrent
<1>1. ASSUME Scanning PROVE ErrorsAreCurrent
  <2>1. SUFFICES ASSUME pc = "run" PROVE ~op.cleared
    BY DEF ErrorsAreCurrent
  <2>2. pc \notin {"scan", "stream"}
    BY <2>1
  <2> QED BY <1>1, <2>2, NotScanning, Zenon
<1> QED BY <1>1, ScanningInvariance, PTL

------------------------------------------------------------------------------
(* One set: what the description believes of servers is of the set it is named after. *)

Home(d, name, a) ==
  \/ d.kind[d.at[a]] = "member" /\ name = d.set
  \/ d.kind[d.at[a]] = "stranger" /\ name = d.other
Reported(d, t, p) ==
  IF d.kind[d.at[p]] = "member" THEN SetIn(d, t.servers[p].sv) ELSE {d.at[p]}

Consistent(d, t) ==
  /\ t.type = "Unknown" => \A a \in Servers(t) : TypeAt(t, a) \in InNoSet
  /\ t.type \in RsType => \A a \in Servers(t) : TypeAt(t, a) \notin InNoSet => Home(d, t.name, a)
  /\ t.type = "RSWithPrimary" => \A p \in Primaries(t) : Servers(t) \subseteq Reported(d, t, p)

(* Servers are eased, and the topology loses its primary at most. *)
LEMMA EasesConsistent ==
  ASSUME NEW d, NEW t, NEW u, Consistent(d, t), Eases(t, u),
         u.type = t.type \/ (t.type = "RSWithPrimary" /\ u.type \in RsType)
  PROVE  Consistent(d, u)
<1>1. /\ u.name = t.name /\ Servers(u) \subseteq Servers(t)
      /\ \A b \in Servers(u) : \/ TypeAt(u, b) = TypeAt(t, b) /\ u.servers[b].sv = t.servers[b].sv
                               \/ TypeAt(u, b) \in InNoSet \ {"RSGhost"}
  BY DEF Eases, Eased, TypeAt, InNoSet
<1>2. u.type = "Unknown" => t.type = "Unknown"
  BY DEF RsType
<1>3. u.type \in RsType => t.type \in RsType
  BY DEF RsType
<1>4. u.type = "RSWithPrimary" => t.type = "RSWithPrimary"
  BY DEF RsType
<1>5. u.type = "Unknown" => \A a \in Servers(u) : TypeAt(u, a) \in InNoSet
  BY <1>1, <1>2, Zenon DEF Consistent
<1>6. u.type \in RsType => \A a \in Servers(u) : TypeAt(u, a) \notin InNoSet => Home(d, u.name, a)
  BY <1>1, <1>3, Zenon DEF Consistent
<1>7. ASSUME u.type = "RSWithPrimary", NEW p \in Primaries(u) PROVE Servers(u) \subseteq Reported(d, u, p)
  <2>1. p \in Servers(u) /\ TypeAt(u, p) = "RSPrimary"
    BY DEF Primaries
  <2>2. TypeAt(t, p) = "RSPrimary" /\ u.servers[p].sv = t.servers[p].sv
    BY <1>1, <2>1 DEF InNoSet
  <2>3. p \in Primaries(t)
    BY <1>1, <2>1, <2>2 DEF Primaries
  <2>4. Servers(t) \subseteq Reported(d, t, p)
    BY <1>4, <1>7, <2>3, Zenon DEF Consistent
  <2>5. Reported(d, u, p) = Reported(d, t, p)
    BY <2>2, Zenon DEF Reported
  <2> QED BY <1>1, <2>4, <2>5
<1> QED BY <1>5, <1>6, <1>7, Zenon DEF Consistent

(* A reply turned the description into another. *)
LEMMA TurnedConsistent ==
  ASSUME TopologyAssumption, NEW d \in Deployments, NEW t, NEW a, NEW h, NEW told, NEW u,
         Consistent(d, t), Sound(t), Stored(t, a, h, told), Turned(told, a, h, u), Tells(d, a, h),
         t.type \in TopologyType
  PROVE  Consistent(d, u)
<1>1. /\ a \in Servers(t) /\ Servers(told) = Servers(t) /\ told.type = t.type /\ told.name = t.name
      /\ TypeAt(told, a) = Typed(h) /\ told.servers[a].sv = h.sv
      /\ \A b \in Servers(t) \ {a} : told.servers[b] = t.servers[b]
  BY Zenon DEF Stored, TypeAt
<1>2. ASSUME NEW b \in Servers(u), TypeAt(u, b) \notin InNoSet
      PROVE  /\ b \in Servers(t) /\ TypeAt(u, b) = TypeAt(told, b)
             /\ u.servers[b].sv = told.servers[b].sv
  <2>1. \/ b \in Servers(told) /\ Eased(told.servers[b], u.servers[b])
        \/ TypeAt(u, b) \in {"Unknown", "PossiblePrimary"}
    BY Zenon DEF Turned, Grows, TypeAt
  <2>2. TypeAt(u, b) \notin {"Unknown", "PossiblePrimary"}
    BY <1>2 DEF InNoSet
  <2> QED BY <1>1, <2>1, <2>2, Zenon DEF Eased, TypeAt
<1>3. \A b \in Servers(t) \ {a} : TypeAt(told, b) = TypeAt(t, b)
  BY <1>1, Zenon DEF TypeAt
<1>4. /\ t.type \in RsType => u.type \in RsType
      /\ t.type \in {"Single", "Sharded"} => u.type = t.type
      /\ u.type = "Unknown" /\ a \in Servers(u) => TypeAt(u, a) \in InNoSet
      /\ t.name # None => u.name = t.name
      /\ Joins(told, a, h, u) /\ Leads(told, a, h, u)
  BY <1>1, Zenon DEF Turned
<1>5. t.type \in RsType \cup {"Unknown", "Single", "Sharded"}
  BY DEF TopologyType, RsType
<1>6. u.type = "Unknown" => \A b \in Servers(u) : TypeAt(u, b) \in InNoSet
  <2>1. SUFFICES ASSUME u.type = "Unknown", NEW b \in Servers(u), TypeAt(u, b) \notin InNoSet PROVE FALSE
    OBVIOUS
  <2>2. t.type = "Unknown"
    BY <1>4, <1>5, <2>1 DEF RsType
  <2>3. b # a
    BY <1>4, <2>1, Zenon
  <2>4. b \in Servers(t) /\ TypeAt(u, b) = TypeAt(t, b)
    BY <1>2, <1>3, <2>1, <2>3
  <2> QED BY <2>1, <2>2, <2>4, Zenon DEF Consistent
<1>7. ASSUME u.type \in RsType, NEW b \in Servers(u), TypeAt(u, b) \notin InNoSet
      PROVE  Home(d, u.name, b)
  <2>1. CASE b = a
    <3>1. TypeAt(told, a) \in {"RSPrimary"} \cup Member /\ u.name = h.set
      BY <1>4, <1>7, <2>1, Zenon DEF Joins
    <3>2. Home(d, h.set, a)
      BY <1>1, <3>1, Zenon DEF Tells, Home
    <3> QED BY <2>1, <3>1, <3>2, Zenon
  <2>2. CASE b # a
    <3>1. b \in Servers(t) /\ TypeAt(t, b) \notin InNoSet
      <4>1. b \in Servers(t) /\ TypeAt(u, b) = TypeAt(told, b)
        BY <1>2, <1>7
      <4>2. TypeAt(told, b) = TypeAt(t, b)
        BY <1>3, <2>2, <4>1
      <4> QED BY <1>7, <4>1, <4>2, Zenon
    <3>2. t.type \in RsType
      <4>1. t.type # "Unknown"
        BY <3>1, Zenon DEF Consistent
      <4> QED BY <1>4, <1>5, <1>7, <4>1 DEF RsType
    <3>3. Home(d, t.name, b)
      BY <3>1, <3>2, Zenon DEF Consistent
    <3>4. t.name # None
      <4>1. d.set \in SetName /\ d.other \in SetName /\ None \notin SetName
        BY DEF TopologyAssumption, Deployment
      <4> QED BY <3>3, <4>1, Zenon DEF Home
    <3> QED BY <1>4, <3>3, <3>4, Zenon
  <2> QED BY <2>1, <2>2
<1>8. ASSUME u.type = "RSWithPrimary", NEW p \in Primaries(u) PROVE Servers(u) \subseteq Reported(d, u, p)
  <2>1. p \in Servers(u) /\ TypeAt(u, p) = "RSPrimary" /\ TypeAt(u, p) \notin InNoSet
    BY DEF Primaries, InNoSet
  <2>2. /\ p \in Servers(t) /\ TypeAt(told, p) = "RSPrimary" /\ u.servers[p].sv = told.servers[p].sv
    BY <1>2, <2>1
  <2>3. \/ p = a /\ Servers(u) \subseteq HostsOf(h)
        \/ p # a /\ told.type = "RSWithPrimary" /\ Servers(u) \subseteq Servers(told)
    BY <1>4, <1>8, Zenon DEF Leads
  <2>4. CASE p = a
    <3>1. HostsOf(h) = IF d.kind[d.at[a]] = "member" THEN SetIn(d, h.sv) ELSE {d.at[a]}
      BY <1>1, <2>2, <2>4, Zenon DEF Tells
    <3>2. u.servers[a].sv = h.sv
      BY <1>1, <2>2, <2>4
    <3>3. HostsOf(h) = Reported(d, u, a)
      BY <3>1, <3>2, Zenon DEF Reported
    <3> QED BY <2>3, <2>4, <3>3
  <2>5. CASE p # a
    <3>1. TypeAt(t, p) = "RSPrimary" /\ u.servers[p].sv = t.servers[p].sv
      BY <1>1, <1>3, <2>2, <2>5
    <3>2. t.type = "RSWithPrimary" /\ Servers(u) \subseteq Servers(t)
      BY <1>1, <2>3, <2>5
    <3>3. p \in Primaries(t)
      BY <2>2, <3>1 DEF Primaries
    <3>4. Servers(t) \subseteq Reported(d, t, p)
      BY <3>2, <3>3, Zenon DEF Consistent
    <3>5. Reported(d, u, p) = Reported(d, t, p)
      BY <3>1, Zenon DEF Reported
    <3> QED BY <3>2, <3>4, <3>5
  <2> QED BY <2>4, <2>5
<1> QED BY <1>6, <1>7, <1>8, Zenon DEF Consistent


LEMMA FailConsistent ==
  ASSUME NEW d, NEW t, NEW id, Sound(t), Consistent(d, t)
  PROVE  Consistent(d, Fail(t, id))
<1> DEFINE u == Fail(t, id)
<1>1. /\ Eases(t, u)
      /\ t.type # "RSWithPrimary" => u.type = t.type
      /\ t.type = "RSWithPrimary" => u.type \in RsType
  BY FailEases
<1> HIDE DEF u
<1>2. u.type = t.type \/ (t.type = "RSWithPrimary" /\ u.type \in RsType)
  BY <1>1, Zenon
<1>3. Consistent(d, u)
  BY <1>1, <1>2, EasesConsistent
<1> QED BY <1>3 DEF u

LEMMA AddressIn ==
  ASSUME NEW t, NEW n, Placed(t, n), IsKnown(t, n.id)
  PROVE  AddressOf(t, n.id) = n.addr
<1>1. AddressOf(t, n.id) \in Servers(t) /\ t.servers[AddressOf(t, n.id)].id = n.id
  BY Zenon DEF IsKnown, AddressOf
<1> QED BY <1>1, Zenon DEF Placed

LEMMA DepStays == ASSUME [Next]_vars PROVE dep' = dep
<1>1. ASSUME SetChanges PROVE dep' = dep
  BY <1>1, Zenon DEF SetChanges, Elect, Reconfigure, Learn
<1>2. ASSUME Scanner PROVE dep' = dep
  BY <1>2, Zenon DEF Scanner, FinishScan, Answer, HandleReply
<1>3. ASSUME Call PROVE dep' = dep
  <2>1. ASSUME NoScanner \/ NoneEligible \/ Select \/ SelectNone \/ Check PROVE dep' = dep
    BY <2>1, Zenon DEF NoScanner, NoneEligible, Select, SelectNone, Check
  <2>2. ASSUME ScanToSelect \/ Fetch \/ FetchScanned \/ RunDone \/ RunRefused PROVE dep' = dep
    BY <2>2, Zenon DEF ScanToSelect, Fetch, FetchScanned, StartScan, Lose, RunDone, RunRefused
  <2> QED BY <1>3, <2>1, <2>2, Zenon DEF Call
<1>4. ASSUME Faults PROVE dep' = dep
  BY <1>4, Zenon DEF Faults, CheckClosed, RunBreaks, CheckFails
<1>5. ASSUME NEW mode, Begin(mode) PROVE dep' = dep
  BY <1>5, Zenon DEF Begin
<1>6. ASSUME NEW i, CooldownEnds(i) PROVE dep' = dep
  BY <1>6, Zenon DEF CooldownEnds
<1>7. ASSUME UNCHANGED vars PROVE dep' = dep
  BY <1>7, Zenon DEF vars
<1> QED BY <1>1, <1>2, <1>3, <1>4, <1>5, <1>6, <1>7, Zenon DEF Next

LEMMA StepConsistent ==
  ASSUME TopologyAssumption, Scanning, Consistent(dep, td), [Next]_vars
  PROVE  Consistent(dep', td')
<1>1. DescriptionChanges /\ dep' = dep
  BY DescriptionStep, DepStays
<1>2. Good(td) /\ Sound(td) /\ dep \in Deployments
  BY Zenon DEF Scanning
<1>3. ASSUME NEW i, ReplyHandled(i) PROVE Consistent(dep, td')
  <2> DEFINE n == nodes[i]
             a == AddressOf(td, n.id)
  <2>1. i \in DOMAIN nodes /\ n.cmd = "answered" /\ td' = HandleHello(td, n.id, n.reply)
    BY <1>3, Zenon DEF ReplyHandled
  <2>2. n.reply \in HelloReply /\ Placed(td, n) /\ Tells(dep, n.addr, n.reply)
    BY <2>1, AnsweredIn
  <2> HIDE DEF n
  <2>3. CASE td' = td
    BY <2>3
  <2>4. CASE IsKnown(td, n.id) /\ \E told : /\ Stored(td, a, n.reply, told) /\ Told(told, a, n.reply)
                                            /\ Turned(told, a, n.reply, td')
    <3>1. PICK told : Stored(td, a, n.reply, told) /\ Turned(told, a, n.reply, td')
      BY <2>4, Zenon
    <3>2. Tells(dep, a, n.reply)
      BY <2>2, <2>4, AddressIn
    <3>3. td.type \in TopologyType
      BY <1>2, Zenon DEF Good
    <3> HIDE DEF a
    <3> QED BY <1>2, <3>1, <3>2, <3>3, TurnedConsistent
  <2>5. \/ td' = td
        \/ IsKnown(td, n.id) /\ \E told : /\ Stored(td, a, n.reply, told) /\ Told(told, a, n.reply)
                                          /\ Turned(told, a, n.reply, td')
    BY <1>2, <2>1, <2>2, HandleHelloTurned
  <2> QED BY <2>3, <2>4, <2>5, Zenon
<1>4. ASSUME NEW a, NEW tv, NEW id, ErrorStored(a, tv, id) PROVE Consistent(dep, td')
  <2> DEFINE u == [td EXCEPT !.servers[a].tv = tv]
  <2>1. a \in Servers(td) /\ td' = Fail(u, id)
    BY <1>4, Zenon DEF ErrorStored
  <2>2. Sound(u) /\ Eases(td, u) /\ u.type = td.type
    BY <1>2, <2>1, VersionEases
  <2> HIDE DEF u
  <2>3. Consistent(dep, u)
    BY <2>2, EasesConsistent
  <2> QED BY <2>1, <2>2, <2>3, FailConsistent
<1>5. ASSUME NEW id, td' = Fail(td, id) PROVE Consistent(dep, td')
  BY <1>2, <1>5, FailConsistent
<1>6. CASE td' = td
  BY <1>1, <1>6
<1>7. Consistent(dep, td')
  BY <1>1, <1>3, <1>4, <1>5, <1>6, Zenon DEF DescriptionChanges
<1> QED BY <1>1, <1>7, Zenon

(* The topology of a replica set has servers of that set only, and while there is a primary no
   server that it did not report, however late replies are, whatever members are added and removed
   and whichever addresses lead to other deployments (update_rs_from_primary and its like). *)
THEOREM OneSetOnly == Spec => []OneSet
<1>1. Init => Scanning /\ Consistent(dep, td)
  <2>1. SUFFICES ASSUME Init PROVE Scanning /\ Consistent(dep, td)
    OBVIOUS
  <2>2. \A a \in Servers(td) : TypeAt(td, a) \in InNoSet /\ TypeAt(td, a) # "RSPrimary"
    <3>1. \A a \in Servers(td) : TypeAt(td, a) \in InNoSet \ {"RSGhost"}
      BY <2>1, InitDescription, TopologyAssumption
    <3> QED BY <3>1 DEF InNoSet
  <2>3. Primaries(td) = {}
    BY <2>2 DEF Primaries
  <2>4. Consistent(dep, td)
    BY <2>2, <2>3, Zenon DEF Consistent
  <2> QED BY <2>1, <2>4, InitScanning, TopologyAssumption
<1>2. Scanning /\ Consistent(dep, td) /\ [Next]_vars => (Scanning /\ Consistent(dep, td))'
  BY StepKeeps, StepConsistent, TopologyAssumption
<1>3. ASSUME Consistent(dep, td) PROVE OneSet
  <2>1. \A v : SetOf(v) = SetIn(dep, v)
    BY Zenon DEF SetOf, SetIn
  <2>2. \A a : Reported(dep, td, a) =
                 IF dep.kind[dep.at[a]] = "member" THEN SetOf(td.servers[a].sv) ELSE {dep.at[a]}
    BY <2>1, Zenon DEF Reported
  <2>3. td.type \in {"RSNoPrimary", "RSWithPrimary"} =>
          \A a \in Servers(td) : TypeAt(td, a) \notin {"Unknown", "PossiblePrimary", "RSGhost"} =>
            \/ dep.kind[dep.at[a]] = "member" /\ td.name = dep.set
            \/ dep.kind[dep.at[a]] = "stranger" /\ td.name = dep.other
    BY <1>3, Zenon DEF Consistent, RsType, InNoSet, Home
  <2>4. td.type = "RSWithPrimary" => \A a \in Primaries(td) :
          Servers(td) \subseteq
            IF dep.kind[dep.at[a]] = "member" THEN SetOf(td.servers[a].sv) ELSE {dep.at[a]}
    <3>1. ASSUME td.type = "RSWithPrimary", NEW a \in Primaries(td)
          PROVE  Servers(td) \subseteq Reported(dep, td, a)
      BY <1>3, <3>1, Zenon DEF Consistent
    <3> QED BY <2>2, <3>1, Zenon
  <2> QED BY <2>3, <2>4, Zenon DEF OneSet
<1> QED BY <1>1, <1>2, <1>3, PTL DEF Spec


------------------------------------------------------------------------------
(* The elections of a set.  d is the deployment, m its members, n the members after a step. *)

Majorities(d, v) == {Q \in SUBSET (SetIn(d, v) \cap Addr) : 2 * Cardinality(Q) > Cardinality(SetIn(d, v))}
Members(d) == [Addr -> MemberState(d)]

LEMMA SetInFinite ==
  ASSUME NEW d \in Deployment, NEW v \in 0..Len(d.configs)
  PROVE  IsFiniteSet(SetIn(d, v)) /\ SetIn(d, v) \subseteq Addr
<1>1. CASE v = 0
  <2>1. SetIn(d, v) = {}
    BY <1>1 DEF SetIn
  <2> QED BY <2>1, FS_EmptySet
<1>2. CASE v # 0
  <2> DEFINE c == d.configs[v]
             S == {c[i] : i \in DOMAIN c}
             l == Len(c)
             f == [i \in 1..l |-> c[i]]
  <2>1. SetIn(d, v) = S
    BY <1>2, Zenon DEF SetIn
  <2>2. c \in Seq(Addr)
    BY <1>2 DEF Deployment
  <2> HIDE DEF c
  <2>3. DOMAIN c = 1..l /\ l \in Nat /\ \A i \in DOMAIN c : c[i] \in Addr
    BY <2>2
  <2> HIDE DEF l
  <2>4. IsFiniteSet(1..l)
    BY <2>3, FS_Interval
  <2>5. f \in Surjection(1..l, S)
    BY <2>3 DEF Surjection
  <2>6. IsFiniteSet(S)
    BY <2>4, <2>5, FS_Surjection
  <2> QED BY <2>1, <2>3, <2>6
<1> QED BY <1>1, <1>2

LEMMA Overlap ==
  ASSUME NEW d \in Deployment, NEW v \in 0..Len(d.configs), NEW Q \in Majorities(d, v), NEW R \in Majorities(d, v)
  PROVE  \E c \in Addr : c \in Q /\ c \in R
<1> DEFINE U == SetIn(d, v)
<1>1. IsFiniteSet(U) /\ U \subseteq Addr
  BY SetInFinite
<1>2. /\ Q \in SUBSET U /\ R \in SUBSET U
      /\ 2 * Cardinality(Q) > Cardinality(U) /\ 2 * Cardinality(R) > Cardinality(U)
  BY DEF Majorities
<1> HIDE DEF U
<1>3. IsFiniteSet(Q) /\ IsFiniteSet(R)
  BY <1>1, <1>2, FS_Subset
<1>4. Cardinality(Q) \in Nat /\ Cardinality(R) \in Nat /\ Cardinality(U) \in Nat
  BY <1>1, <1>3, FS_CardinalityType
<1>5. Cardinality(Q) + Cardinality(R) > Cardinality(U)
  BY <1>2, <1>4
<1>6. Q \cap R # {}
  BY <1>1, <1>2, <1>5, FS_MajoritiesIntersect
<1> QED BY <1>1, <1>2, <1>6

LEMMA SomeInMajority ==
  ASSUME NEW d \in Deployment, NEW v \in 0..Len(d.configs), NEW Q \in Majorities(d, v)
  PROVE  v # 0 /\ Q \subseteq Addr
<1>1. Q \subseteq Addr /\ Q \subseteq SetIn(d, v)
  BY DEF Majorities
<1>2. v # 0
  <2>1. SUFFICES ASSUME v = 0 PROVE FALSE
    OBVIOUS
  <2>2. \E c \in Addr : c \in Q /\ c \in Q
    BY Overlap
  <2>3. SetIn(d, v) = {}
    BY <2>1 DEF SetIn
  <2> QED BY <1>1, <2>2, <2>3
<1> QED BY <1>1, <1>2

(* The term e is not ahead of the members with config v, or a majority of them has seen it. *)
Current(d, m, v, e) ==
  \/ \A b \in Addr : m[b].ver = v => m[b].term >= e
  \/ \E Q \in Majorities(d, v) : \A b \in Q : m[b].term >= e

(* A config is followed by another after a majority of it has the next. *)
Left(d, m, u) == \E Q \in Majorities(d, u) : \A b \in Q : m[b].ver > u

(* The invariant of the set: who has a later config than a primary has a later term. *)
Orderly(d, m) ==
  /\ m \in Members(d)
  /\ \A a \in Addr : m[a].ver >= 1 => m[a].term >= 1
  /\ \A a \in Addr : m[a].primary => m[a].ver >= 1
  /\ \A a, b \in Addr : m[a].primary /\ m[b].primary /\ m[a].term = m[b].term => a = b
  /\ \A a \in Addr : \A u \in 1 .. m[a].ver - 1 : Left(d, m, u)
  /\ \A a, b \in Addr : m[a].primary /\ m[b].ver > m[a].ver => m[b].term > m[a].term
  /\ \A a \in Addr : m[a].primary => Current(d, m, m[a].ver, m[a].term)

(* Some primary once was of config v and term e, or a server of another set says so.  A pair
   of a later config that is heard of has a later term, then and from then on. *)
Past(d, m, v, e) ==
  /\ v \in Nat /\ e \in Nat
  /\ v >= 1 => e >= 1
  /\ v = 0 => e = 0
  /\ v <= 1 \/ \E b \in Addr : m[b].ver >= v
  /\ \A b \in Addr : m[b].ver > v => m[b].term >= e
  /\ Current(d, m, v, e)
  /\ \A a \in Addr : m[a].primary /\ m[a].ver < v => m[a].term <= e

(* What the steps of the set do *)
Elects(d, m, n, a, Q, T) ==
  /\ n \in Members(d) /\ a \in Addr /\ a \in Q /\ Q \in Majorities(d, m[a].ver) /\ T \in Nat
  /\ \A b \in Q : m[b].ver <= m[a].ver
  /\ \A b \in Addr : m[b].term < T /\ n[b].ver = m[b].ver
  /\ \A b \in Addr : b \in Q => n[b].term = T /\ (n[b].primary <=> b = a)
  /\ \A b \in Addr : b \notin Q => n[b].term = m[b].term /\ n[b].primary = m[b].primary
Installs(d, m, n, a, Q) ==
  /\ n \in Members(d) /\ a \in Addr /\ a \in Q /\ Q \in Majorities(d, m[a].ver) /\ m[a].primary
  /\ \A b \in Q : m[b].term = m[a].term
  /\ \A b \in Addr : n[b].term = m[b].term /\ n[b].primary = m[b].primary
  /\ \A b \in Addr : n[b].ver = IF b \in Q THEN m[a].ver + 1 ELSE m[b].ver
Learns(d, m, n, a, b) ==
  /\ n \in Members(d) /\ a \in Addr /\ b \in Addr
  /\ m[a].term < m[b].term \/ m[a].ver < m[b].ver
  /\ n[a].term = IF m[a].term < m[b].term THEN m[b].term ELSE m[a].term
  /\ n[a].ver = IF m[a].ver < m[b].ver THEN m[b].ver ELSE m[a].ver
  /\ n[a].primary => m[a].primary /\ m[a].term >= m[b].term
  /\ \A c \in Addr : c # a => n[c] = m[c]

LEMMA MemberNumbers ==
  ASSUME NEW d \in Deployment, NEW m \in Members(d), NEW a \in Addr
  PROVE  m[a].term \in Nat /\ m[a].ver \in Nat /\ m[a].ver \in 0..Len(d.configs)
<1>1. Len(d.configs) \in Nat /\ d.terms \in Nat
  BY DEF Deployment
<1> DEFINE l == Len(d.configs)
           t == d.terms
<1>2. m[a] \in [term : 0..t, primary : BOOLEAN, ver : 0..l, tv : Nat]
  BY Zenon DEF Members, MemberState
<1>3. l \in Nat /\ t \in Nat
  BY <1>1
<1> HIDE DEF l, t
<1>4. m[a].term \in 0..t /\ m[a].ver \in 0..l
  BY <1>2
<1>5. m[a].term \in Nat /\ m[a].ver \in Nat
  BY <1>3, <1>4
<1> QED BY <1>4, <1>5 DEF l

(* Where a majority is not ahead of its config, nobody is. *)
LEMMA NobodyAhead ==
  ASSUME NEW d \in Deployment, NEW m, Orderly(d, m), NEW v \in 0..Len(d.configs),
         NEW Q \in Majorities(d, v), \A b \in Q : m[b].ver <= v
  PROVE  v >= 1 /\ \A b \in Addr : m[b].ver <= v
<1>1. v \in Nat /\ v >= 1
  BY SomeInMajority
<1>2. ASSUME NEW b \in Addr, ~(m[b].ver <= v) PROVE FALSE
  <2> DEFINE w == m[b].ver
  <2>1. w \in Nat
    BY MemberNumbers, Zenon DEF Orderly
  <2>2. v \in 1 .. w - 1
    BY <1>1, <1>2, <2>1
  <2>3. Left(d, m, v)
    BY <2>2, Zenon DEF Orderly
  <2>4. PICK R \in Majorities(d, v) : \A c \in R : m[c].ver > v
    BY <2>3, Zenon DEF Left
  <2>5. PICK c \in Addr : c \in Q /\ c \in R
    BY Overlap
  <2>6. m[c].ver \in Nat /\ m[c].ver > v /\ m[c].ver <= v
    BY <2>4, <2>5, MemberNumbers DEF Orderly
  <2> QED BY <1>1, <2>6
<1> QED BY <1>1, <1>2

(* Terms and configs of members never go back. *)
Rises(m, n) == \A b \in Addr : n[b].term >= m[b].term /\ n[b].ver >= m[b].ver

LEMMA MajorityStays ==
  ASSUME NEW d \in Deployment, NEW m \in Members(d), NEW n \in Members(d), NEW v \in Nat, Rises(m, n)
  PROVE  /\ Left(d, m, v) => Left(d, n, v)
         /\ \A e \in Nat, Q \in Majorities(d, v) : (\A b \in Q : m[b].term >= e) => \A b \in Q : n[b].term >= e
<1>1. \A b \in Addr : /\ m[b].ver \in Nat /\ n[b].ver \in Nat /\ m[b].term \in Nat /\ n[b].term \in Nat
                      /\ n[b].term >= m[b].term /\ n[b].ver >= m[b].ver
  BY MemberNumbers DEF Rises
<1>2. \A Q \in Majorities(d, v) : Q \subseteq Addr
  BY DEF Majorities
<1>4. ASSUME NEW Q \in Majorities(d, v), \A b \in Q : m[b].ver > v PROVE \A b \in Q : n[b].ver > v
  <2> TAKE b \in Q
  <2>1. b \in Addr /\ m[b].ver > v
    BY <1>2, <1>4
  <2> QED BY <1>1, <2>1
<1>5. ASSUME NEW e \in Nat, NEW Q \in Majorities(d, v), \A b \in Q : m[b].term >= e PROVE \A b \in Q : n[b].term >= e
  <2> TAKE b \in Q
  <2>1. b \in Addr /\ m[b].term >= e
    BY <1>2, <1>5
  <2> QED BY <1>1, <2>1
<1>6. Left(d, m, v) => Left(d, n, v)
  BY <1>4, Zenon DEF Left
<1> QED BY <1>5, <1>6

(* A pair stays current while members come to its config with its term only. *)
LEMMA CurrentStays ==
  ASSUME NEW d \in Deployment, NEW m \in Members(d), NEW n \in Members(d), NEW v \in Nat,
         NEW e \in Nat, Rises(m, n), Current(d, m, v, e),
         \A b \in Addr : n[b].ver = v => m[b].ver = v \/ \E c \in Addr : m[c].ver = v /\ n[b].term >= m[c].term
  PROVE  Current(d, n, v, e)
<1>1. \A b \in Addr : /\ m[b].ver \in Nat /\ n[b].ver \in Nat /\ m[b].term \in Nat /\ n[b].term \in Nat
                      /\ n[b].term >= m[b].term /\ n[b].ver >= m[b].ver
  BY MemberNumbers DEF Rises
<1>2. CASE \A b \in Addr : m[b].ver = v => m[b].term >= e
  <2>1. ASSUME NEW b \in Addr, n[b].ver = v PROVE n[b].term >= e
    <3>1. CASE m[b].ver = v
      BY <1>1, <1>2, <3>1
    <3>2. CASE \E c \in Addr : m[c].ver = v /\ n[b].term >= m[c].term
      <4>1. PICK c \in Addr : m[c].ver = v /\ n[b].term >= m[c].term
        BY <3>2
      <4>2. m[c].term >= e
        BY <1>2, <4>1
      <4> QED BY <1>1, <4>1, <4>2
    <3> QED BY <2>1, <3>1, <3>2
  <2> QED BY <2>1, Zenon DEF Current
<1>3. CASE \E Q \in Majorities(d, v) : \A b \in Q : m[b].term >= e
  <2>1. PICK Q \in Majorities(d, v) : \A b \in Q : m[b].term >= e
    BY <1>3
  <2>2. \A b \in Q : n[b].term >= e
    BY <2>1, MajorityStays
  <2> QED BY <2>2, Zenon DEF Current
<1> QED BY <1>2, <1>3, Zenon DEF Current

LEMMA ElectsOrderly ==
  ASSUME NEW d \in Deployment, NEW m, NEW n, Orderly(d, m), NEW a, NEW Q, NEW T, Elects(d, m, n, a, Q, T)
  PROVE  /\ Orderly(d, n) /\ Rises(m, n) /\ n[a].ver >= 1
         /\ \A b \in Addr : n[b].ver = m[b].ver /\ n[b].ver <= n[a].ver
         /\ \A b \in Addr : n[b].primary => b = a \/ (m[b].primary /\ n[b].term = m[b].term)
<1>1. m \in Members(d) /\ n \in Members(d) /\ a \in Addr /\ a \in Q /\ T \in Nat
  BY Zenon DEF Orderly, Elects
<1>2. \A b \in Addr : /\ m[b].ver \in Nat /\ n[b].ver \in Nat /\ m[b].term \in Nat /\ n[b].term \in Nat
                      /\ m[b].ver \in 0..Len(d.configs)
  BY <1>1, MemberNumbers
<1>3. \A b \in Addr : m[b].term < T /\ n[b].ver = m[b].ver
  BY Zenon DEF Elects
<1>4. \A b \in Addr : \/ b \in Q /\ n[b].term = T /\ (n[b].primary <=> b = a)
                      \/ b \notin Q /\ n[b].term = m[b].term /\ n[b].primary = m[b].primary
  BY Zenon DEF Elects
<1>5. Q \in Majorities(d, m[a].ver) /\ \A b \in Q : m[b].ver <= m[a].ver
  BY Zenon DEF Elects
<1>6. m[a].ver >= 1 /\ \A b \in Addr : m[b].ver <= m[a].ver
  BY <1>1, <1>2, <1>5, NobodyAhead
<1>7. Rises(m, n)
  <2>1. ASSUME NEW b \in Addr PROVE n[b].term >= m[b].term /\ n[b].ver >= m[b].ver
    BY <1>1, <1>2, <1>3, <1>4
  <2> QED BY <2>1, Zenon DEF Rises
<1>8. \A b \in Addr : n[b].primary => (b = a /\ n[b].term = T) \/ (m[b].primary /\ n[b].term = m[b].term)
  BY <1>4, Zenon
<1>9. \A b \in Addr : n[b].ver >= 1 => n[b].term >= 1
  <2>1. \A b \in Addr : m[b].ver >= 1 => m[b].term >= 1
    BY Zenon DEF Orderly
  <2>2. \A b \in Addr : n[b].term >= m[b].term
    BY <1>7, Zenon DEF Rises
  <2> QED BY <1>2, <1>3, <2>1, <2>2
<1>10. \A b \in Addr : n[b].primary => n[b].ver >= 1
  BY <1>3, <1>6, <1>8, Zenon DEF Orderly
<1>11. \A b, c \in Addr : n[b].primary /\ n[c].primary /\ n[b].term = n[c].term => b = c
  <2> TAKE b, c \in Addr
  <2> HAVE n[b].primary /\ n[c].primary /\ n[b].term = n[c].term
  <2>1. m[b].term < T /\ m[c].term < T /\ m[b].term \in Nat /\ m[c].term \in Nat
    BY <1>2, <1>3
  <2>2. CASE m[b].primary /\ n[b].term = m[b].term /\ m[c].primary /\ n[c].term = m[c].term
    BY <2>2, Zenon DEF Orderly
  <2>3. CASE b = a /\ n[b].term = T /\ m[c].primary /\ n[c].term = m[c].term
    BY <1>1, <2>1, <2>3
  <2>4. CASE c = a /\ n[c].term = T /\ m[b].primary /\ n[b].term = m[b].term
    BY <1>1, <2>1, <2>4
  <2> QED BY <1>8, <2>2, <2>3, <2>4, Zenon
<1>12. \A b \in Addr : \A u \in 1 .. n[b].ver - 1 : Left(d, n, u)
  <2> TAKE b \in Addr
  <2> TAKE u \in 1 .. n[b].ver - 1
  <2>1. u \in 1 .. m[b].ver - 1
    BY <1>3
  <2>2. Left(d, m, u)
    BY <2>1, Zenon DEF Orderly
  <2>3. u \in Nat
    OBVIOUS
  <2> QED BY <1>1, <1>7, <2>2, <2>3, MajorityStays
<1>13. \A b, c \in Addr : n[b].primary /\ n[c].ver > n[b].ver => n[c].term > n[b].term
  <2> TAKE b, c \in Addr
  <2> HAVE n[b].primary /\ n[c].ver > n[b].ver
  <2>1. m[c].ver > m[b].ver /\ b # a
    BY <1>2, <1>3, <1>6
  <2>2. m[b].primary /\ n[b].term = m[b].term
    BY <1>8, <2>1
  <2>3. m[c].term > m[b].term
    BY <2>1, <2>2, Zenon DEF Orderly
  <2>4. n[c].term >= m[c].term
    BY <1>7, Zenon DEF Rises
  <2> QED BY <1>2, <2>2, <2>3, <2>4
<1>14. \A b \in Addr : n[b].primary => Current(d, n, n[b].ver, n[b].term)
  <2> TAKE b \in Addr
  <2> HAVE n[b].primary
  <2>1. CASE b = a /\ n[b].term = T
    <3>1. Q \subseteq Addr
      BY <1>5 DEF Majorities
    <3>2. \A c \in Q : n[c].term >= T
      BY <1>1, <1>4, <3>1
    <3> QED BY <1>3, <1>5, <2>1, <3>1, <3>2, Zenon DEF Current
  <2>2. CASE m[b].primary /\ n[b].term = m[b].term
    <3> DEFINE v == m[b].ver
               e == m[b].term
    <3>1. Current(d, m, v, e) /\ v \in Nat /\ e \in Nat
      BY <1>2, <2>2, Zenon DEF Orderly
    <3>2. \A c \in Addr : n[c].ver = v => m[c].ver = v
      BY <1>3
    <3> HIDE DEF v, e
    <3>3. Current(d, n, v, e)
      BY <1>1, <1>7, <3>1, <3>2, CurrentStays
    <3> QED BY <1>3, <2>2, <3>3, Zenon DEF v, e
  <2> QED BY <1>8, <2>1, <2>2
<1>15. Orderly(d, n)
  BY <1>1, <1>9, <1>10, <1>11, <1>12, <1>13, <1>14, Zenon DEF Orderly
<1>16. \A b \in Addr : n[b].ver = m[b].ver /\ n[b].ver <= n[a].ver
  BY <1>1, <1>2, <1>3, <1>6
<1> QED BY <1>1, <1>3, <1>6, <1>7, <1>8, <1>15, <1>16, Zenon

(* Members that go on keep a pair past when a primary that is new has a config that is as late. *)
LEMMA PastStays ==
  ASSUME NEW d \in Deployment, NEW m \in Members(d), NEW n \in Members(d), Rises(m, n),
         NEW v, NEW e, Past(d, m, v, e),
         \A b \in Addr : n[b].ver > v =>
           n[b].term >= e \/ \E c \in Addr : m[c].ver > v /\ n[b].term >= m[c].term,
         \A b \in Addr : n[b].ver = v => m[b].ver = v \/ \E c \in Addr : m[c].ver = v /\ n[b].term >= m[c].term,
         \A b \in Addr : n[b].primary /\ n[b].ver < v => m[b].primary /\ n[b].term = m[b].term
  PROVE  Past(d, n, v, e)
<1>1. /\ v \in Nat /\ e \in Nat /\ (v >= 1 => e >= 1) /\ (v = 0 => e = 0)
      /\ v <= 1 \/ \E b \in Addr : m[b].ver >= v
      /\ \A b \in Addr : m[b].ver > v => m[b].term >= e
      /\ Current(d, m, v, e)
      /\ \A b \in Addr : m[b].primary /\ m[b].ver < v => m[b].term <= e
  BY Zenon DEF Past
<1>2. \A b \in Addr : /\ m[b].ver \in Nat /\ n[b].ver \in Nat /\ m[b].term \in Nat /\ n[b].term \in Nat
                      /\ n[b].term >= m[b].term /\ n[b].ver >= m[b].ver
  BY MemberNumbers DEF Rises
<1>3. v <= 1 \/ \E b \in Addr : n[b].ver >= v
  <2>1. ASSUME NEW b \in Addr, m[b].ver >= v PROVE n[b].ver >= v
    BY <1>1, <1>2, <2>1
  <2> QED BY <1>1, <2>1
<1>4. \A b \in Addr : n[b].ver > v => n[b].term >= e
  <2> TAKE b \in Addr
  <2> HAVE n[b].ver > v
  <2>1. CASE \E c \in Addr : m[c].ver > v /\ n[b].term >= m[c].term
    <3>1. PICK c \in Addr : m[c].ver > v /\ n[b].term >= m[c].term
      BY <2>1
    <3>2. m[c].term >= e
      BY <1>1, <3>1
    <3> QED BY <1>1, <1>2, <3>1, <3>2
  <2> QED BY <2>1
<1>5. Current(d, n, v, e)
  BY <1>1, CurrentStays
<1>6. \A b \in Addr : n[b].primary /\ n[b].ver < v => n[b].term <= e
  <2> TAKE b \in Addr
  <2> HAVE n[b].primary /\ n[b].ver < v
  <2>1. m[b].ver < v
    BY <1>1, <1>2
  <2>2. m[b].primary /\ n[b].term = m[b].term
    OBVIOUS
  <2> QED BY <1>1, <2>1, <2>2
<1> QED BY <1>1, <1>3, <1>4, <1>5, <1>6, Zenon DEF Past

LEMMA ElectsPast ==
  ASSUME NEW d \in Deployment, NEW m, NEW n, Orderly(d, m), NEW a, NEW Q, NEW T, Elects(d, m, n, a, Q, T),
         NEW v, NEW e, Past(d, m, v, e)
  PROVE  Past(d, n, v, e)
<1>1. m \in Members(d) /\ n \in Members(d) /\ a \in Addr
  BY Zenon DEF Orderly, Elects
<1>2. /\ Rises(m, n) /\ n[a].ver >= 1
      /\ \A b \in Addr : n[b].ver = m[b].ver /\ n[b].ver <= n[a].ver
      /\ \A b \in Addr : n[b].primary => b = a \/ (m[b].primary /\ n[b].term = m[b].term)
  BY ElectsOrderly
<1>3. \A b \in Addr : m[b].ver \in Nat /\ n[b].ver \in Nat /\ n[b].term \in Nat
  BY <1>1, MemberNumbers
<1>4. v \in Nat /\ (v <= 1 \/ \E b \in Addr : m[b].ver >= v)
  BY Zenon DEF Past
<1>5. v <= n[a].ver
  BY <1>1, <1>2, <1>3, <1>4
<1>6. \A b \in Addr : n[b].ver > v => \E c \in Addr : m[c].ver > v /\ n[b].term >= m[c].term
  BY <1>2 DEF Rises
<1>7. \A b \in Addr : n[b].primary /\ n[b].ver < v => m[b].primary /\ n[b].term = m[b].term
  BY <1>1, <1>2, <1>3, <1>4, <1>5
<1>8. \A b \in Addr : n[b].ver = v => m[b].ver = v
  BY <1>2
<1> QED BY <1>1, <1>2, <1>6, <1>7, <1>8, PastStays

(* A primary that can install a config has the latest. *)
Leading(d, m, n, a, Q) ==
  /\ m \in Members(d) /\ n \in Members(d) /\ a \in Addr /\ a \in Q /\ m[a].primary
  /\ Q \in Majorities(d, m[a].ver) /\ Q \subseteq Addr
  /\ m[a].ver >= 1 /\ \A b \in Addr : m[b].ver <= m[a].ver
  /\ \A b \in Q : m[b].term = m[a].term
  /\ \A b \in Addr : n[b].term = m[b].term /\ n[b].primary = m[b].primary
  /\ \A b \in Addr : n[b].ver = IF b \in Q THEN m[a].ver + 1 ELSE m[b].ver
  /\ Rises(m, n)

LEMMA InstallerLeads ==
  ASSUME NEW d \in Deployment, NEW m, NEW n, Orderly(d, m), NEW a, NEW Q, Installs(d, m, n, a, Q)
  PROVE  Leading(d, m, n, a, Q)
<1>1. /\ m \in Members(d) /\ n \in Members(d) /\ a \in Addr /\ a \in Q /\ m[a].primary
      /\ Q \in Majorities(d, m[a].ver)
      /\ \A b \in Q : m[b].term = m[a].term
      /\ \A b \in Addr : n[b].term = m[b].term /\ n[b].primary = m[b].primary
      /\ \A b \in Addr : n[b].ver = IF b \in Q THEN m[a].ver + 1 ELSE m[b].ver
  BY Zenon DEF Orderly, Installs
<1>2. Q \subseteq Addr
  BY <1>1 DEF Majorities
<1>3. \A b \in Addr : m[b].ver \in Nat /\ m[b].term \in Nat /\ m[b].ver \in 0..Len(d.configs)
  BY <1>1, MemberNumbers
<1>4. \A b \in Q : m[b].ver <= m[a].ver
  <2> TAKE b \in Q
  <2>1. SUFFICES ASSUME ~(m[b].ver <= m[a].ver) PROVE FALSE
    OBVIOUS
  <2>2. b \in Addr /\ m[b].ver > m[a].ver
    BY <1>1, <1>2, <1>3, <2>1
  <2>3. m[b].term > m[a].term
    BY <1>1, <2>2, Zenon DEF Orderly
  <2> QED BY <1>1, <1>3, <2>2, <2>3
<1>5. m[a].ver >= 1 /\ \A b \in Addr : m[b].ver <= m[a].ver
  BY <1>1, <1>3, <1>4, NobodyAhead
<1>6. Rises(m, n)
  <2>1. ASSUME NEW b \in Addr PROVE n[b].term >= m[b].term /\ n[b].ver >= m[b].ver
    BY <1>1, <1>3, <1>5
  <2> QED BY <2>1, Zenon DEF Rises
<1> QED BY <1>1, <1>2, <1>5, <1>6, Zenon DEF Leading

(* Then the members that install it have seen what is current in their config. *)
LEMMA InstallerIsCurrent ==
  ASSUME NEW d \in Deployment, NEW m, NEW n, Orderly(d, m), NEW a, NEW Q, Installs(d, m, n, a, Q),
         NEW e \in Nat, Current(d, m, m[a].ver, e)
  PROVE  m[a].term >= e
<1>0. Leading(d, m, n, a, Q)
  BY InstallerLeads
<1>1. /\ m \in Members(d) /\ a \in Addr /\ a \in Q
      /\ Q \in Majorities(d, m[a].ver) /\ Q \subseteq Addr
      /\ \A b \in Q : m[b].term = m[a].term
  BY <1>0, Zenon DEF Leading
<1>2. \A b \in Addr : m[b].ver \in 0..Len(d.configs)
  BY <1>1, MemberNumbers
<1>3. CASE \A b \in Addr : m[b].ver = m[a].ver => m[b].term >= e
  BY <1>1, <1>3
<1>4. CASE \E R \in Majorities(d, m[a].ver) : \A b \in R : m[b].term >= e
  <2>1. PICK R \in Majorities(d, m[a].ver) : \A b \in R : m[b].term >= e
    BY <1>4
  <2>2. PICK c \in Addr : c \in Q /\ c \in R
    BY <1>1, <1>2, Overlap
  <2> QED BY <1>1, <2>1, <2>2
<1> QED BY <1>3, <1>4, Zenon DEF Current

LEMMA InstallsOrderly ==
  ASSUME NEW d \in Deployment, NEW m, NEW n, Orderly(d, m), NEW a, NEW Q, Installs(d, m, n, a, Q)
  PROVE  Orderly(d, n)
<1>0. Leading(d, m, n, a, Q)
  BY InstallerLeads
<1>1. /\ m \in Members(d) /\ n \in Members(d) /\ a \in Addr /\ a \in Q /\ m[a].primary
      /\ Q \in Majorities(d, m[a].ver) /\ Q \subseteq Addr
      /\ m[a].ver >= 1 /\ \A b \in Addr : m[b].ver <= m[a].ver
      /\ \A b \in Q : m[b].term = m[a].term
      /\ Rises(m, n)
  BY <1>0, Zenon DEF Leading
<1>2. /\ \A b \in Addr : n[b].term = m[b].term /\ n[b].primary = m[b].primary
      /\ \A b \in Addr : n[b].ver = IF b \in Q THEN m[a].ver + 1 ELSE m[b].ver
  BY <1>0, Zenon DEF Leading
<1>3. \A b \in Addr : m[b].ver \in Nat /\ n[b].ver \in Nat /\ m[b].term \in Nat /\ m[b].ver \in 0..Len(d.configs)
  BY <1>1, MemberNumbers
<1>4. /\ \A b \in Addr : m[b].ver >= 1 => m[b].term >= 1
      /\ \A b \in Addr : m[b].primary => m[b].ver >= 1
      /\ \A b, c \in Addr : m[b].primary /\ m[c].primary /\ m[b].term = m[c].term => b = c
  BY Zenon DEF Orderly
<1>5. \A b, c \in Addr : m[b].primary /\ m[c].ver > m[b].ver => m[c].term > m[b].term
  BY Zenon DEF Orderly
<1>6. \A b \in Addr : n[b].ver >= 1 => n[b].term >= 1
  BY <1>1, <1>2, <1>4
<1>7. \A b \in Addr : n[b].primary => n[b].ver >= 1
  BY <1>1, <1>2, <1>3, <1>4
<1>8. \A b, c \in Addr : n[b].primary /\ n[c].primary /\ n[b].term = n[c].term => b = c
  BY <1>2, <1>4, Zenon
<1>9. \A b \in Addr : \A u \in 1 .. n[b].ver - 1 : Left(d, n, u)
  <2> TAKE b \in Addr
  <2> TAKE u \in 1 .. n[b].ver - 1
  <2>1. u \in Nat /\ u <= m[a].ver
    BY <1>1, <1>2, <1>3
  <2>2. CASE u < m[a].ver
    <3>1. u \in 1 .. m[a].ver - 1
      BY <1>1, <1>3, <2>1, <2>2
    <3>2. Left(d, m, u)
      BY <1>1, <3>1, Zenon DEF Orderly
    <3> QED BY <1>1, <2>1, <3>2, MajorityStays
  <2>3. CASE u = m[a].ver
    <3>1. \A c \in Q : n[c].ver > u
      BY <1>1, <1>2, <1>3, <2>3
    <3> QED BY <1>1, <2>3, <3>1, Zenon DEF Left
  <2> QED BY <1>1, <1>3, <2>1, <2>2, <2>3
<1>10. \A b, c \in Addr : n[b].primary /\ n[c].ver > n[b].ver => n[c].term > n[b].term
  <2> TAKE b, c \in Addr
  <2> HAVE n[b].primary /\ n[c].ver > n[b].ver
  <2>1. m[b].primary /\ b \notin Q /\ n[b].ver = m[b].ver
    BY <1>1, <1>2, <1>3
  <2>2. CASE c \notin Q
    BY <1>2, <1>5, <2>1, <2>2
  <2>3. CASE c \in Q /\ m[b].ver < m[a].ver
    BY <1>1, <1>2, <1>5, <2>1, <2>3
  <2>4. CASE c \in Q /\ m[b].ver = m[a].ver
    <3>1. Current(d, m, m[b].ver, m[b].term)
      BY <2>1, Zenon DEF Orderly
    <3> DEFINE e == m[b].term
    <3>2. Current(d, m, m[a].ver, e) /\ e \in Nat
      BY <1>3, <2>4, <3>1
    <3> HIDE DEF e
    <3>3. m[a].term >= e
      BY <3>2, InstallerIsCurrent
    <3>4. m[a].term # m[b].term
      BY <1>1, <1>4, <2>1
    <3>5. m[a].term > m[b].term
      BY <1>1, <1>3, <3>3, <3>4 DEF e
    <3> QED BY <1>1, <1>2, <2>4, <3>5
  <2> QED BY <1>1, <1>3, <2>2, <2>3, <2>4
<1>11. \A b \in Addr : n[b].primary => Current(d, n, n[b].ver, n[b].term)
  <2> TAKE b \in Addr
  <2> HAVE n[b].primary
  <2>1. CASE b \in Q
    <3>1. n[b].ver = m[a].ver + 1 /\ n[b].term = m[a].term
      BY <1>1, <1>2, <2>1
    <3>2. \A c \in Addr : n[c].ver = n[b].ver => c \in Q
      BY <1>1, <1>2, <1>3, <3>1
    <3>3. \A c \in Addr : n[c].ver = n[b].ver => n[c].term >= n[b].term
      BY <1>1, <1>2, <1>3, <3>1, <3>2
    <3> QED BY <3>3, Zenon DEF Current
  <2>2. CASE b \notin Q
    <3> DEFINE v == m[b].ver
               e == m[b].term
    <3>1. Current(d, m, v, e) /\ v \in Nat /\ e \in Nat
      BY <1>2, <1>3, Zenon DEF Orderly
    <3>2. \A c \in Addr : n[c].ver = v => m[c].ver = v
      BY <1>1, <1>2, <1>3
    <3>3. n[b].ver = v /\ n[b].term = e
      BY <1>2, <2>2
    <3> HIDE DEF v, e
    <3>4. Current(d, n, v, e)
      BY <1>1, <3>1, <3>2, CurrentStays
    <3> QED BY <3>3, <3>4
  <2> QED BY <2>1, <2>2
<1> QED BY <1>1, <1>6, <1>7, <1>8, <1>9, <1>10, <1>11, Zenon DEF Orderly

LEMMA InstallsPast ==
  ASSUME NEW d \in Deployment, NEW m, NEW n, Orderly(d, m), NEW a, NEW Q, Installs(d, m, n, a, Q),
         NEW v, NEW e, Past(d, m, v, e)
  PROVE  Past(d, n, v, e)
<1>0. Leading(d, m, n, a, Q)
  BY InstallerLeads
<1>1. /\ m \in Members(d) /\ n \in Members(d) /\ a \in Addr /\ a \in Q
      /\ m[a].ver >= 1 /\ \A b \in Addr : m[b].ver <= m[a].ver
      /\ \A b \in Q : m[b].term = m[a].term
      /\ Rises(m, n)
  BY <1>0, Zenon DEF Leading
<1>2. /\ \A b \in Addr : n[b].term = m[b].term /\ n[b].primary = m[b].primary
      /\ \A b \in Addr : n[b].ver = IF b \in Q THEN m[a].ver + 1 ELSE m[b].ver
  BY <1>0, Zenon DEF Leading
<1>3. \A b \in Addr : m[b].ver \in Nat /\ n[b].ver \in Nat /\ m[b].term \in Nat
  BY <1>1, MemberNumbers
<1>4. /\ v \in Nat /\ e \in Nat /\ (v <= 1 \/ \E b \in Addr : m[b].ver >= v) /\ Current(d, m, v, e)
      /\ \A b \in Addr : m[b].ver > v => m[b].term >= e
  BY Zenon DEF Past
<1>5. v <= m[a].ver
  BY <1>1, <1>3, <1>4
<1>6. m[a].term >= e
  <2>1. CASE v = m[a].ver
    BY <1>4, <2>1, InstallerIsCurrent
  <2>2. CASE v < m[a].ver
    BY <1>1, <1>4, <2>2
  <2> QED BY <1>1, <1>3, <1>4, <1>5, <2>1, <2>2
<1>7. \A b \in Addr : n[b].ver > v => n[b].term >= e
  BY <1>1, <1>2, <1>4, <1>6
<1>8. \A b \in Addr : n[b].ver = v => m[b].ver = v
  BY <1>1, <1>2, <1>3, <1>4, <1>5
<1>9. \A b \in Addr : n[b].primary /\ n[b].ver < v => m[b].primary /\ n[b].term = m[b].term
  BY <1>2
<1> QED BY <1>1, <1>7, <1>8, <1>9, PastStays

(* A member that learns is not primary any more: were it, the other would have a later term. *)
LEMMA LearnsFrom ==
  ASSUME NEW d \in Deployment, NEW m, NEW n, Orderly(d, m), NEW a, NEW b, Learns(d, m, n, a, b)
  PROVE  /\ m \in Members(d) /\ n \in Members(d) /\ a \in Addr /\ b \in Addr
         /\ n[a].term >= m[a].term /\ n[a].term >= m[b].term
         /\ n[a].ver = m[a].ver \/ n[a].ver = m[b].ver
         /\ ~n[a].primary
         /\ \A c \in Addr : c # a => n[c] = m[c]
         /\ Rises(m, n)
<1>1. /\ m \in Members(d) /\ n \in Members(d) /\ a \in Addr /\ b \in Addr
      /\ m[a].term < m[b].term \/ m[a].ver < m[b].ver
      /\ n[a].term = IF m[a].term < m[b].term THEN m[b].term ELSE m[a].term
      /\ n[a].ver = IF m[a].ver < m[b].ver THEN m[b].ver ELSE m[a].ver
      /\ n[a].primary => m[a].primary /\ m[a].term >= m[b].term
      /\ \A c \in Addr : c # a => n[c] = m[c]
  BY Zenon DEF Orderly, Learns
<1>2. \A c \in Addr : m[c].ver \in Nat /\ m[c].term \in Nat
  BY <1>1, MemberNumbers
<1>3. n[a].term >= m[a].term /\ n[a].term >= m[b].term /\ n[a].ver >= m[a].ver
  BY <1>1, <1>2
<1>4. n[a].ver = m[a].ver \/ n[a].ver = m[b].ver
  BY <1>1
<1>5. ~n[a].primary
  <2>1. SUFFICES ASSUME n[a].primary PROVE FALSE
    OBVIOUS
  <2>2. m[a].primary /\ m[a].term >= m[b].term
    BY <1>1, <2>1
  <2>3. m[b].ver > m[a].ver
    BY <1>1, <1>2, <2>2
  <2>4. m[b].term > m[a].term
    BY <1>1, <2>2, <2>3, Zenon DEF Orderly
  <2> QED BY <1>1, <1>2, <2>2, <2>4
<1>6. Rises(m, n)
  <2>1. ASSUME NEW c \in Addr PROVE n[c].term >= m[c].term /\ n[c].ver >= m[c].ver
    BY <1>1, <1>2, <1>3
  <2> QED BY <2>1, Zenon DEF Rises
<1> QED BY <1>1, <1>3, <1>4, <1>5, <1>6

LEMMA LearnsOrderly ==
  ASSUME NEW d \in Deployment, NEW m, NEW n, Orderly(d, m), NEW a, NEW b, Learns(d, m, n, a, b)
  PROVE  Orderly(d, n)
<1>1. /\ m \in Members(d) /\ n \in Members(d) /\ a \in Addr /\ b \in Addr
      /\ n[a].term >= m[a].term /\ n[a].term >= m[b].term
      /\ n[a].ver = m[a].ver \/ n[a].ver = m[b].ver
      /\ ~n[a].primary
      /\ \A c \in Addr : c # a => n[c] = m[c]
      /\ Rises(m, n)
  BY LearnsFrom
<1>2. \A c \in Addr : m[c].ver \in Nat /\ n[c].ver \in Nat /\ m[c].term \in Nat /\ n[c].term \in Nat
  BY <1>1, MemberNumbers
<1>3. /\ \A c \in Addr : m[c].ver >= 1 => m[c].term >= 1
      /\ \A c \in Addr : m[c].primary => m[c].ver >= 1
      /\ \A c, p \in Addr : m[c].primary /\ m[p].primary /\ m[c].term = m[p].term => c = p
  BY Zenon DEF Orderly
<1>4. \A p, c \in Addr : m[p].primary /\ m[c].ver > m[p].ver => m[c].term > m[p].term
  BY Zenon DEF Orderly
<1>5. \A c \in Addr : n[c].primary => m[c].primary /\ n[c] = m[c]
  BY <1>1
<1>6. \A c \in Addr : n[c].ver >= 1 => n[c].term >= 1
  <2> TAKE c \in Addr
  <2> HAVE n[c].ver >= 1
  <2>1. CASE c # a
    BY <1>1, <1>3, <2>1
  <2>2. CASE c = a
    <3>1. m[a].term >= 1 \/ m[b].term >= 1
      BY <1>1, <1>3, <2>2
    <3> QED BY <1>1, <1>2, <2>2, <3>1
  <2> QED BY <2>1, <2>2
<1>7. \A c \in Addr : n[c].primary => n[c].ver >= 1
  BY <1>3, <1>5
<1>8. \A c, p \in Addr : n[c].primary /\ n[p].primary /\ n[c].term = n[p].term => c = p
  BY <1>3, <1>5
<1>9. \A c \in Addr : \A u \in 1 .. n[c].ver - 1 : Left(d, n, u)
  <2> TAKE c \in Addr
  <2> TAKE u \in 1 .. n[c].ver - 1
  <2>1. PICK p \in Addr : n[c].ver = m[p].ver
    BY <1>1
  <2>2. u \in Nat /\ u \in 1 .. m[p].ver - 1
    BY <2>1
  <2>3. Left(d, m, u)
    BY <2>2, Zenon DEF Orderly
  <2> QED BY <1>1, <2>2, <2>3, MajorityStays
<1>10. \A p, c \in Addr : n[p].primary /\ n[c].ver > n[p].ver => n[c].term > n[p].term
  <2> TAKE p, c \in Addr
  <2> HAVE n[p].primary /\ n[c].ver > n[p].ver
  <2>1. m[p].primary /\ n[p] = m[p]
    BY <1>5
  <2>2. PICK x \in Addr : n[c].ver = m[x].ver /\ n[c].term >= m[x].term
    BY <1>1, <1>2
  <2>3. m[x].term > m[p].term
    BY <1>4, <2>1, <2>2
  <2> QED BY <1>2, <2>1, <2>2, <2>3
<1>11. \A p \in Addr : n[p].primary => Current(d, n, n[p].ver, n[p].term)
  <2> TAKE p \in Addr
  <2> HAVE n[p].primary
  <2> DEFINE v == m[p].ver
             e == m[p].term
  <2>1. Current(d, m, v, e) /\ v \in Nat /\ e \in Nat
    BY <1>2, <1>5, Zenon DEF Orderly
  <2>2. \A c \in Addr : n[c].ver = v => m[c].ver = v \/ \E x \in Addr : m[x].ver = v /\ n[c].term >= m[x].term
    BY <1>1
  <2>3. n[p].ver = v /\ n[p].term = e
    BY <1>5
  <2> HIDE DEF v, e
  <2>4. Current(d, n, v, e)
    BY <1>1, <2>1, <2>2, CurrentStays
  <2> QED BY <2>3, <2>4
<1> QED BY <1>1, <1>6, <1>7, <1>8, <1>9, <1>10, <1>11, Zenon DEF Orderly

LEMMA LearnsPast ==
  ASSUME NEW d \in Deployment, NEW m, NEW n, Orderly(d, m), NEW a, NEW b, Learns(d, m, n, a, b),
         NEW v, NEW e, Past(d, m, v, e)
  PROVE  Past(d, n, v, e)
<1>1. /\ m \in Members(d) /\ n \in Members(d) /\ a \in Addr /\ b \in Addr
      /\ n[a].term >= m[a].term /\ n[a].term >= m[b].term
      /\ n[a].ver = m[a].ver \/ n[a].ver = m[b].ver
      /\ ~n[a].primary
      /\ \A c \in Addr : c # a => n[c] = m[c]
      /\ Rises(m, n)
  BY LearnsFrom
<1>2. \A c \in Addr : \E x \in Addr : n[c].ver = m[x].ver /\ n[c].term >= m[x].term
  <2>1. \A c \in Addr : n[c].term >= m[c].term
    BY <1>1, Zenon DEF Rises
  <2> QED BY <1>1, <2>1
<1>3. \A c \in Addr : n[c].ver > v => \E x \in Addr : m[x].ver > v /\ n[c].term >= m[x].term
  BY <1>2
<1>4. \A c \in Addr : n[c].ver = v => \E x \in Addr : m[x].ver = v /\ n[c].term >= m[x].term
  BY <1>2
<1>5. \A c \in Addr : n[c].primary => m[c].primary /\ n[c].term = m[c].term
  BY <1>1
<1> QED BY <1>1, <1>3, <1>4, <1>5, PastStays

(* What a primary says of itself, and what another set says, is past; so is nothing. *)
LEMMA PrimaryPast ==
  ASSUME NEW d \in Deployment, NEW m, Orderly(d, m), NEW a \in Addr, m[a].primary
  PROVE  Past(d, m, m[a].ver, m[a].term)
<1>1. m \in Members(d) /\ m[a].ver >= 1 /\ (m[a].ver >= 1 => m[a].term >= 1) /\ Current(d, m, m[a].ver, m[a].term)
  BY Zenon DEF Orderly
<1>2. \A b \in Addr : m[b].ver \in Nat /\ m[b].term \in Nat
  BY <1>1, MemberNumbers
<1>3. \A b, c \in Addr : m[b].primary /\ m[c].ver > m[b].ver => m[c].term > m[b].term
  BY Zenon DEF Orderly
<1> DEFINE v == m[a].ver
           e == m[a].term
<1>4. /\ v \in Nat /\ e \in Nat /\ (v >= 1 => e >= 1) /\ v # 0
      /\ \E b \in Addr : m[b].ver >= v
      /\ \A b \in Addr : m[b].ver > v => m[b].term >= e
      /\ \A b \in Addr : m[b].primary /\ m[b].ver < v => m[b].term <= e
  BY <1>1, <1>2, <1>3
<1>5. Current(d, m, v, e)
  BY <1>1
<1> HIDE DEF v, e
<1>6. Past(d, m, v, e)
  BY <1>4, <1>5, Zenon DEF Past
<1> QED BY <1>6 DEF v, e

LEMMA FirstPast ==
  ASSUME NEW d \in Deployment, NEW m, Orderly(d, m), NEW v \in {0, 1}
  PROVE  Past(d, m, v, v)
<1>1. m \in Members(d) /\ \A a \in Addr : m[a].ver >= 1 => m[a].term >= 1
  BY Zenon DEF Orderly
<1>2. \A b \in Addr : m[b].ver \in Nat /\ m[b].term \in Nat /\ (m[b].primary => m[b].ver >= 1)
  BY <1>1, MemberNumbers DEF Orderly
<1>3. Current(d, m, v, v)
  <2>1. \A b \in Addr : m[b].ver = v => m[b].term >= v
    BY <1>1, <1>2
  <2> QED BY <2>1, Zenon DEF Current
<1>4. /\ v \in Nat /\ (v >= 1 => v >= 1) /\ (v = 0 => v = 0) /\ v <= 1
      /\ \A b \in Addr : m[b].ver > v => m[b].term >= v
      /\ \A b \in Addr : m[b].primary /\ m[b].ver < v => m[b].term <= v
  BY <1>1, <1>2
<1> QED BY <1>3, <1>4, Zenon DEF Past

(* Of two pairs the one of a later config has no earlier term. *)
InOrder(v, e, w, f) == (v < w => e <= f) /\ (w < v => f <= e)

LEMMA PrimaryInOrder ==
  ASSUME NEW d \in Deployment, NEW m, Orderly(d, m), NEW a \in Addr, m[a].primary,
         NEW v, NEW e, Past(d, m, v, e)
  PROVE  InOrder(v, e, m[a].ver, m[a].term)
<1>1. /\ v \in Nat /\ e \in Nat
      /\ \A b \in Addr : m[b].ver > v => m[b].term >= e
      /\ \A b \in Addr : m[b].primary /\ m[b].ver < v => m[b].term <= e
  BY Zenon DEF Past
<1>2. m[a].ver \in Nat /\ m[a].term \in Nat
  BY MemberNumbers DEF Orderly
<1> QED BY <1>1, <1>2 DEF InOrder

LEMMA FirstInOrder ==
  ASSUME NEW d, NEW m, NEW v, NEW e, Past(d, m, v, e)
  PROVE  InOrder(v, e, 1, 1)
<1>1. v \in Nat /\ e \in Nat /\ (v >= 1 => e >= 1) /\ (v = 0 => e = 0)
  BY Zenon DEF Past
<1> QED BY <1>1 DEF InOrder

LEMMA MajorityIs ==
  ASSUME dep \in Deployment, NEW v \in 0..Len(dep.configs)
  PROVE  Majority(v) = Majorities(dep, v)
<1>1. SetOf(v) = SetIn(dep, v)
  BY Zenon DEF SetOf, SetIn
<1>2. SetIn(dep, v) \cap Addr = SetIn(dep, v)
  BY SetInFinite
<1> QED BY <1>1, <1>2, Zenon DEF Majority, Majorities

LEMMA ElectIs ==
  ASSUME TopologyAssumption, dep \in Deployment, mem \in Members(dep), NEW a \in Addr, Elect(a)
  PROVE  \E Q, T : Elects(dep, mem, mem', a, Q, T)
<1> DEFINE T == LastTerm + 1
           l == Len(dep.configs)
           t == dep.terms
<1>1. SetChanges
  BY Zenon DEF SetChanges
<1>2. mem' \in Members(dep)
  BY <1>1, MembersStep, Zenon DEF Members
<1>3. PICK Q \in Majority(mem[a].ver) :
        /\ a \in Q
        /\ \A b \in Q : mem[b].ver <= mem[a].ver
        /\ mem' = [b \in Addr |->
                   IF b \in Q THEN [mem[b] EXCEPT !.term = T, !.primary = (b = a), !.tv = @ + 1]
                   ELSE mem[b]]
  BY Zenon DEF Elect
<1>4. mem[a].ver \in 0..Len(dep.configs)
  BY MemberNumbers
<1>5. Q \in Majorities(dep, mem[a].ver) /\ Q \subseteq Addr
  <2>1. Q \in Majorities(dep, mem[a].ver)
    BY <1>3, <1>4, MajorityIs
  <2> QED BY <2>1 DEF Majorities
<1>6. dep.terms \in Nat
  BY DEF Deployment
<1>7. LastTerm \in Nat /\ \A b \in Addr : mem[b].term <= LastTerm
  BY <1>6, LastTermIs DEF Members
<1>8. T \in Nat /\ \A b \in Addr : mem[b].term < T
  BY <1>7, MemberNumbers
<1> HIDE DEF T
<1>9. ASSUME NEW b \in Addr
      PROVE  /\ b \in Q => mem'[b].term = T /\ (mem'[b].primary <=> b = a) /\ mem'[b].ver = mem[b].ver
             /\ b \notin Q => mem'[b] = mem[b]
  <2>1. CASE b \in Q
    <3> DEFINE p == (b = a)
               x == mem[b]
    <3>1. x \in [term : 0..t, primary : BOOLEAN, ver : 0..l, tv : Nat]
      BY Zenon DEF Members, MemberState
    <3>2. mem'[b] = Voted(x, T, p)
      BY <1>3, <2>1, Zenon DEF Voted
    <3> HIDE DEF p, x
    <3>3. Voted(x, T, p) = [term |-> T, primary |-> p, ver |-> x.ver, tv |-> x.tv + 1]
      BY <3>1, MemberExcept
    <3>4. mem'[b].term = T /\ mem'[b].primary = p /\ mem'[b].ver = x.ver
      BY <3>2, <3>3
    <3> QED BY <2>1, <3>4, Zenon DEF p, x
  <2>2. CASE b \notin Q
    BY <1>3, <2>2, Zenon
  <2> QED BY <2>1, <2>2, Zenon
<1>10. \A b \in Addr : mem'[b].ver = mem[b].ver
  BY <1>9
<1>11. \A b \in Addr : b \in Q => mem'[b].term = T /\ (mem'[b].primary <=> b = a)
  BY <1>9, Zenon
<1>12. \A b \in Addr : b \notin Q => mem'[b].term = mem[b].term /\ mem'[b].primary = mem[b].primary
  BY <1>9, Zenon
<1>13. Elects(dep, mem, mem', a, Q, T)
  BY <1>2, <1>3, <1>5, <1>8, <1>10, <1>11, <1>12, Zenon DEF Elects
<1> QED BY <1>13, Zenon

LEMMA ReconfigureIs ==
  ASSUME TopologyAssumption, dep \in Deployment, mem \in Members(dep), NEW a \in Addr, Reconfigure(a)
  PROVE  \E Q : Installs(dep, mem, mem', a, Q)
<1> DEFINE v == mem[a].ver + 1
           l == Len(dep.configs)
           t == dep.terms
<1>1. SetChanges
  BY Zenon DEF SetChanges
<1>2. mem' \in Members(dep)
  BY <1>1, MembersStep, Zenon DEF Members
<1>3. PICK Q \in Majority(mem[a].ver) :
        /\ a \in Q
        /\ \A b \in Q : mem[b].term = mem[a].term
        /\ mem' = [b \in Addr |->
                   IF b \in Q THEN [mem[b] EXCEPT !.ver = v, !.tv = @ + 1] ELSE mem[b]]
  BY Zenon DEF Reconfigure
<1>4. mem[a].ver \in 0..Len(dep.configs) /\ mem[a].primary
  BY MemberNumbers DEF Reconfigure
<1>5. Q \in Majorities(dep, mem[a].ver)
  BY <1>3, <1>4, MajorityIs
<1> HIDE DEF v
<1>6. ASSUME NEW b \in Addr
      PROVE  /\ mem'[b].ver = IF b \in Q THEN v ELSE mem[b].ver
             /\ mem'[b].term = mem[b].term /\ mem'[b].primary = mem[b].primary
  <2>1. CASE b \in Q
    <3> DEFINE x == mem[b]
               term == x.term
               primary == x.primary
    <3>1. x \in [term : 0..t, primary : BOOLEAN, ver : 0..l, tv : Nat]
      BY Zenon DEF Members, MemberState
    <3>2. mem'[b] = Installed(x, v)
      BY <1>3, <2>1, Zenon DEF Installed
    <3> HIDE DEF x
    <3>3. Installed(x, v) = [term |-> x.term, primary |-> x.primary, ver |-> v, tv |-> x.tv + 1]
      BY <3>1, MemberExcept
    <3> HIDE DEF term, primary
    <3>4. Installed(x, v) = [term |-> term, primary |-> primary, ver |-> v, tv |-> x.tv + 1]
      BY <3>3, Zenon DEF term, primary
    <3>5. mem'[b].term = term /\ mem'[b].primary = primary /\ mem'[b].ver = v
      BY <3>2, <3>4
    <3> QED BY <2>1, <3>5, Zenon DEF term, primary, x
  <2>2. CASE b \notin Q
    <3>1. mem'[b] = mem[b]
      BY <1>3, <2>2, Zenon
    <3> QED BY <2>2, <3>1, Zenon
  <2> QED BY <2>1, <2>2
<1>7. /\ \A b \in Addr : mem'[b].term = mem[b].term /\ mem'[b].primary = mem[b].primary
      /\ \A b \in Addr : mem'[b].ver = IF b \in Q THEN mem[a].ver + 1 ELSE mem[b].ver
  BY <1>6, Zenon DEF v
<1>8. Installs(dep, mem, mem', a, Q)
  BY <1>2, <1>3, <1>4, <1>5, <1>7, Zenon DEF Installs
<1> QED BY <1>8, Zenon

LEMMA LearnIs ==
  ASSUME TopologyAssumption, dep \in Deployment, mem \in Members(dep), NEW a \in Addr, NEW b \in Addr, Learn(a, b)
  PROVE  Learns(dep, mem, mem', a, b)
<1> DEFINE later == IF mem[a].ver < mem[b].ver THEN mem[b].ver ELSE mem[a].ver
           term == IF mem[a].term < mem[b].term THEN mem[b].term ELSE mem[a].term
           p == mem[a].primary /\ mem[a].term >= mem[b].term /\ a \in SetOf(later)
           tv == mem[a].tv + 1
           r == [term |-> term, primary |-> p, ver |-> later, tv |-> tv]
<1>1. SetChanges
  BY Zenon DEF SetChanges
<1>2. mem' \in Members(dep)
  BY <1>1, MembersStep, Zenon DEF Members
<1>3. mem' = [mem EXCEPT ![a] = r]
  BY DEF Learn
<1>4. p => mem[a].primary /\ mem[a].term >= mem[b].term
  BY Zenon
<1> HIDE DEF p, tv, later, term
<1>5. r.term = term /\ r.ver = later /\ r.primary = p
  OBVIOUS
<1> HIDE DEF r
<1>6. mem'[a] = r /\ \A c \in Addr : c # a => mem'[c] = mem[c]
  BY <1>3 DEF Members
<1>7. mem'[a].term = term /\ mem'[a].ver = later /\ (mem'[a].primary => mem[a].primary /\ mem[a].term >= mem[b].term)
  BY <1>4, <1>5, <1>6, Zenon
<1>8. mem[a].term < mem[b].term \/ mem[a].ver < mem[b].ver
  BY Zenon DEF Learn
<1> QED BY <1>2, <1>6, <1>7, <1>8, Zenon DEF Learns, term, later

(* The set stays in order, and what was past stays so. *)
LEMMA OrderStays ==
  ASSUME TopologyAssumption, dep \in Deployment, Orderly(dep, mem), SetChanges
  PROVE  Orderly(dep, mem') /\ \A v, e : Past(dep, mem, v, e) => Past(dep, mem', v, e)
<1>1. mem \in Members(dep)
  BY Zenon DEF Orderly
<1>2. ASSUME NEW a \in Addr, Elect(a)
      PROVE  Orderly(dep, mem') /\ \A v, e : Past(dep, mem, v, e) => Past(dep, mem', v, e)
  <2>1. PICK Q, T : Elects(dep, mem, mem', a, Q, T)
    BY <1>1, <1>2, ElectIs
  <2> DEFINE m == mem
             n == mem'
             d == dep
  <2>2. Elects(d, m, n, a, Q, T) /\ Orderly(d, m) /\ d \in Deployment
    BY <2>1
  <2> HIDE DEF m, n, d
  <2>3. Orderly(d, n) /\ \A v, e : Past(d, m, v, e) => Past(d, n, v, e)
    BY <2>2, ElectsOrderly, ElectsPast
  <2> QED BY <2>3, Zenon DEF m, n, d
<1>3. ASSUME NEW a \in Addr, Reconfigure(a)
      PROVE  Orderly(dep, mem') /\ \A v, e : Past(dep, mem, v, e) => Past(dep, mem', v, e)
  <2>1. PICK Q : Installs(dep, mem, mem', a, Q)
    BY <1>1, <1>3, ReconfigureIs
  <2> DEFINE m == mem
             n == mem'
             d == dep
  <2>2. Installs(d, m, n, a, Q) /\ Orderly(d, m) /\ d \in Deployment
    BY <2>1
  <2> HIDE DEF m, n, d
  <2>3. Orderly(d, n) /\ \A v, e : Past(d, m, v, e) => Past(d, n, v, e)
    BY <2>2, InstallsOrderly, InstallsPast
  <2> QED BY <2>3, Zenon DEF m, n, d
<1>4. ASSUME NEW a \in Addr, NEW b \in Addr, Learn(a, b)
      PROVE  Orderly(dep, mem') /\ \A v, e : Past(dep, mem, v, e) => Past(dep, mem', v, e)
  <2>1. Learns(dep, mem, mem', a, b)
    BY <1>1, <1>4, LearnIs
  <2> DEFINE m == mem
             n == mem'
             d == dep
  <2>2. Learns(d, m, n, a, b) /\ Orderly(d, m) /\ d \in Deployment
    BY <2>1
  <2> HIDE DEF m, n, d
  <2>3. Orderly(d, n) /\ \A v, e : Past(d, m, v, e) => Past(d, n, v, e)
    BY <2>2, LearnsOrderly, LearnsPast
  <2> QED BY <2>3, Zenon DEF m, n, d
<1> QED BY <1>2, <1>3, <1>4, Zenon DEF SetChanges

LEMMA InitOrderly ==
  ASSUME TopologyAssumption, Init
  PROVE  Orderly(dep, mem)
<1>1. mem \in Members(dep)
  BY InitMembers DEF Members
<1>2. dep \in Deployment
  BY DEF Init, TopologyAssumption
<1> DEFINE in(a) == dep.configs # <<>> /\ a \in {dep.configs[1][i] : i \in DOMAIN dep.configs[1]}
<1>3. PICK p : mem = [a \in Addr |->
         [term |-> IF in(a) THEN 1 ELSE 0, primary |-> in(a) /\ a = p, ver |-> IF in(a) THEN 1 ELSE 0,
          tv |-> 1]]
  BY Zenon DEF Init
<1> HIDE DEF in
<1>4. ASSUME NEW a \in Addr
      PROVE  /\ mem[a].ver = mem[a].term /\ mem[a].ver \in {0, 1}
             /\ mem[a].primary => a = p /\ mem[a].ver = 1
  <2> DEFINE k == IF in(a) THEN 1 ELSE 0
             q == in(a) /\ a = p
  <2>1. mem[a] = [term |-> k, primary |-> q, ver |-> k, tv |-> 1]
    BY <1>3, Zenon
  <2>2. k \in {0, 1} /\ (q => a = p /\ k = 1)
    OBVIOUS
  <2> HIDE DEF k, q
  <2>3. mem[a].term = k /\ mem[a].ver = k /\ mem[a].primary = q
    BY <2>1
  <2> QED BY <2>2, <2>3, Zenon
<1>5. /\ \A a \in Addr : mem[a].ver >= 1 => mem[a].term >= 1
      /\ \A a \in Addr : mem[a].primary => mem[a].ver >= 1
      /\ \A a, b \in Addr : mem[a].primary /\ mem[b].primary /\ mem[a].term = mem[b].term => a = b
      /\ \A a \in Addr : \A u \in 1 .. mem[a].ver - 1 : Left(dep, mem, u)
      /\ \A a, b \in Addr : mem[a].primary /\ mem[b].ver > mem[a].ver => mem[b].term > mem[a].term
  BY <1>4
<1>6. \A a \in Addr : mem[a].primary => Current(dep, mem, mem[a].ver, mem[a].term)
  <2>1. \A a, b \in Addr : mem[b].ver = mem[a].ver => mem[b].term >= mem[a].term
    BY <1>4
  <2> QED BY <2>1, Zenon DEF Current
<1> QED BY <1>1, <1>5, <1>6, Zenon DEF Orderly

(* Who says to be primary is one that is, or is of another set. *)
Says(m, h) ==
  Typed(h) = "RSPrimary" =>
    \/ \E a \in Addr : m[a].primary /\ m[a].ver # 0 /\ h.sv = m[a].ver /\ h.eid = m[a].term
    \/ h.sv = 1 /\ h.eid = 1

LEMMA HelloSays ==
  ASSUME TopologyAssumption, dep \in Deployment, mem \in [Addr -> MemberState(dep)], NEW addr \in Addr
  PROVE  Says(mem, Hello(addr))
<1> DEFINE a == dep.at[addr]
           r == Hello(addr)
<1>1. a \in Addr /\ dep.kind[a] \in {"member", "stranger", "mongos", "standalone", "broken"}
  BY DEF Deployment
<1> DEFINE plain == [NoReply EXCEPT !.ok = TRUE]
           yes == TRUE
           no == FALSE
<1>2. yes /\ ~no
  OBVIOUS
<1>3. /\ NoReply = [ok |-> no, mongos |-> no, ghost |-> no, set |-> None, role |-> "other",
                    sv |-> 0, eid |-> 0, hosts |-> <<>>, me |-> None, primary |-> None, tv |-> 0]
      /\ plain = [NoReply EXCEPT !.ok = yes]
  BY Zenon DEF NoReply
<1> HIDE DEF a, yes, no, plain
<1>4. plain = [ok |-> yes, mongos |-> no, ghost |-> no, set |-> None, role |-> "other",
               sv |-> 0, eid |-> 0, hosts |-> <<>>, me |-> None, primary |-> None, tv |-> 0]
  BY <1>3
<1>5. CASE dep.kind[a] = "standalone"
  <2>1. r = plain
    BY <1>5 DEF Hello, a, plain, yes
  <2>2. Typed(plain) = "Standalone"
    BY <1>2, <1>4 DEF Typed
  <2> QED BY <2>1, <2>2 DEF Says
<1>6. CASE dep.kind[a] = "mongos"
  <2> DEFINE q == [plain EXCEPT !.mongos = yes]
  <2>1. r = q
    BY <1>6 DEF Hello, a, plain, yes
  <2>2. Typed(q) = "Mongos"
    BY <1>2, <1>4 DEF Typed
  <2> HIDE DEF q
  <2> QED BY <2>1, <2>2 DEF Says
<1>7. CASE dep.kind[a] = "broken"
  <2>1. r = NoReply
    BY <1>7 DEF Hello, a, plain, yes
  <2>2. Typed(NoReply) = "Unknown"
    BY <1>2, <1>3 DEF Typed
  <2> QED BY <2>1, <2>2 DEF Says
<1>8. CASE dep.kind[a] = "stranger"
  <2> DEFINE q == [ok |-> yes, mongos |-> no, ghost |-> no, set |-> dep.other, role |-> "primary",
                   sv |-> 1, eid |-> 1, hosts |-> <<a>>, me |-> a, primary |-> a, tv |-> 0]
  <2>1. r = [plain EXCEPT !.set = dep.other, !.role = "primary", !.sv = 1, !.eid = 1,
                          !.hosts = <<a>>, !.me = a, !.primary = a]
    BY <1>8 DEF Hello, a, plain, yes
  <2>2. r = q
    <3> HIDE DEF r
    <3> QED BY <1>4, <2>1
  <2>3. q.sv = 1 /\ q.eid = 1
    OBVIOUS
  <2> HIDE DEF q, r
  <2> QED BY <2>2, <2>3 DEF Says, r
<1>9. CASE dep.kind[a] = "member" /\ ~InSet(a)
  <2> DEFINE tv == mem[a].tv
             q == [ok |-> yes, mongos |-> no, ghost |-> yes, set |-> None, role |-> "other",
                   sv |-> 0, eid |-> 0, hosts |-> <<>>, me |-> None, primary |-> None, tv |-> tv]
  <2>1. r = [plain EXCEPT !.ghost = yes, !.tv = tv]
    BY <1>9 DEF Hello, a, plain, yes
  <2> HIDE DEF tv
  <2>2. r = q
    <3> HIDE DEF r
    <3> QED BY <1>4, <2>1
  <2>3. Typed(q) = "RSGhost"
    BY <1>2 DEF Typed
  <2> HIDE DEF q, r
  <2> QED BY <2>2, <2>3 DEF Says, r
<1>10. CASE dep.kind[a] = "member" /\ InSet(a)
  <2> DEFINE p == mem[a].primary
             role == IF p THEN "primary" ELSE "secondary"
             eid == IF p THEN mem[a].term ELSE 0
             v == mem[a].ver
             tv == mem[a].tv
             hosts == dep.configs[v]
             known == KnownPrimary(a)
             q == [ok |-> yes, mongos |-> no, ghost |-> no, set |-> dep.set, role |-> role,
                   sv |-> v, eid |-> eid, hosts |-> hosts, me |-> a, primary |-> known, tv |-> tv]
  <2>1. r = [plain EXCEPT !.set = dep.set, !.role = role, !.sv = v, !.eid = eid,
                          !.hosts = hosts, !.me = a, !.primary = known, !.tv = tv]
    BY <1>10 DEF Hello, a, plain, yes
  <2>2. role = "primary" => p /\ eid = mem[a].term
    OBVIOUS
  <2>3. v # 0
    BY <1>10 DEF InSet, SetOf
  <2> HIDE DEF role, eid, v, hosts, known, tv, r, p
  <2>4. r = q
    BY <1>4, <2>1
  <2>5. q.role = role /\ q.sv = v /\ q.eid = eid
    OBVIOUS
  <2> HIDE DEF q
  <2>6. Typed(q) = "RSPrimary" => p /\ q.eid = mem[a].term
    BY <2>2, <2>5, TypedIs
  <2>7. Says(mem, q)
    BY <1>1, <2>3, <2>5, <2>6, Zenon DEF Says, p, v
  <2> QED BY <2>4, <2>7 DEF r
<1> QED BY <1>1, <1>5, <1>6, <1>7, <1>8, <1>9, <1>10

(* Nodes whose reply, while it is not handled, is one of S. *)
Replying(S) == {n \in Node : n.cmd = "answered" => n.reply \in S}

(* No step of a node but Answer brings a reply. *)
LEMMA ReplyingSteps ==
  ASSUME NEW S, NEW n \in Replying(S)
  PROVE  /\ Retired(n) \in Replying(S) /\ Setup(n) \in Replying(S) /\ Failed(n) \in Replying(S)
         /\ Closed(n) \in Replying(S) /\ Rested(n) \in Replying(S)
         /\ \A shaken \in {"yes", "failed"} : Handled(n, shaken) \in Replying(S)
         /\ \A h \in HelloReply : Answered(n, h) \in Replying(S \cup {h})
<1> DEFINE id == n.id
           addr == n.addr
           retired == n.retired
           cooling == n.cooling
           error == n.error
           stream == n.stream
           shaken == n.shaken
           cmd == n.cmd
           reply == n.reply
           yes == TRUE
           no == FALSE
           Allowed(r2, c2, e2, s2, k2, m2, h2, q) ==
             /\ r2 \in BOOLEAN /\ c2 \in BOOLEAN /\ e2 \in BOOLEAN /\ s2 \in BOOLEAN
             /\ k2 \in {"no", "yes", "failed"} /\ m2 \in {"none", "sent", "answered"} /\ h2 \in HelloReply
             /\ m2 = "answered" => h2 \in q
<1>1. n \in Node /\ (cmd = "answered" => reply \in S)
  BY DEF Replying
<1>2. /\ id \in Nat \ {0} /\ addr \in Addr /\ retired \in BOOLEAN /\ cooling \in BOOLEAN
      /\ error \in BOOLEAN /\ stream \in BOOLEAN /\ shaken \in {"no", "yes", "failed"}
      /\ cmd \in {"none", "sent", "answered"} /\ reply \in HelloReply
  BY <1>1, NodeShape
<1>3. /\ yes \in BOOLEAN /\ no \in BOOLEAN /\ NoReply \in HelloReply
      /\ {"none", "sent"} \subseteq {"none", "sent", "answered"} /\ "none" # "answered" /\ "sent" # "answered"
  BY NoReplyIn
<1>4. ASSUME NEW r2, NEW c2, NEW e2, NEW s2, NEW k2, NEW m2, NEW h2, NEW q,
             Allowed(r2, c2, e2, s2, k2, m2, h2, q)
      PROVE  NodeOf(id, addr, r2, c2, e2, s2, k2, m2, h2) \in Replying(q)
  <2> DEFINE x == NodeOf(id, addr, r2, c2, e2, s2, k2, m2, h2)
  <2> HIDE DEF id, addr, retired, cooling, error, stream, shaken, cmd, reply
  <2>1. x.cmd = m2 /\ x.reply = h2
    BY NodeFields
  <2>2. x \in Node
    BY <1>2, <1>4, NodeFields
  <2> HIDE DEF x
  <2>3. x \in Replying(q)
    BY <1>4, <2>1, <2>2, Zenon DEF Replying
  <2> QED BY <2>3 DEF x
<1> HIDE DEF id, addr, retired, cooling, error, stream, shaken, cmd, reply, yes, no, Allowed
<1>5. ASSUME NEW v
      PROVE  /\ Retired(n) = NodeOf(id, addr, yes, cooling, error, stream, shaken, "none", NoReply)
             /\ Setup(n) = NodeOf(id, addr, retired, cooling, error, no, shaken, "sent", NoReply)
             /\ Answered(n, v) = NodeOf(id, addr, retired, cooling, error, stream, shaken, "answered", v)
             /\ Handled(n, v) = NodeOf(id, addr, retired, no, error, yes, v, "none", NoReply)
             /\ Failed(n) = NodeOf(id, addr, retired, yes, yes, stream, "no", "none", NoReply)
             /\ Closed(n) = NodeOf(id, addr, retired, cooling, error, no, "no", cmd, reply)
             /\ Rested(n) = NodeOf(id, addr, retired, no, error, stream, shaken, cmd, reply)
  BY <1>1, NodeStep, Zenon DEF yes, no, id, addr, retired, cooling, error, stream, shaken, cmd, reply
<1>6. Retired(n) \in Replying(S)
  <2>1. Allowed(yes, cooling, error, stream, shaken, "none", NoReply, S)
    BY <1>2, <1>3 DEF Allowed
  <2> QED BY <1>4, <1>5, <2>1
<1>7. Setup(n) \in Replying(S)
  <2>1. Allowed(retired, cooling, error, no, shaken, "sent", NoReply, S)
    BY <1>2, <1>3 DEF Allowed
  <2> QED BY <1>4, <1>5, <2>1
<1>8. Failed(n) \in Replying(S)
  <2>1. Allowed(retired, yes, yes, stream, "no", "none", NoReply, S)
    BY <1>2, <1>3 DEF Allowed
  <2> QED BY <1>4, <1>5, <2>1
<1>9. Closed(n) \in Replying(S)
  <2>1. Allowed(retired, cooling, error, no, "no", cmd, reply, S)
    BY <1>1, <1>2, <1>3 DEF Allowed
  <2> QED BY <1>4, <1>5, <2>1
<1>10. Rested(n) \in Replying(S)
  <2>1. Allowed(retired, no, error, stream, shaken, cmd, reply, S)
    BY <1>1, <1>2, <1>3 DEF Allowed
  <2> QED BY <1>4, <1>5, <2>1
<1>11. ASSUME NEW k \in {"yes", "failed"} PROVE Handled(n, k) \in Replying(S)
  <2>1. Allowed(retired, no, error, yes, k, "none", NoReply, S)
    BY <1>2, <1>3 DEF Allowed
  <2> QED BY <1>4, <1>5, <2>1
<1>12. ASSUME NEW h \in HelloReply PROVE Answered(n, h) \in Replying(S \cup {h})
  <2> DEFINE q == S \cup {h}
  <2>1. h \in q
    OBVIOUS
  <2> HIDE DEF q
  <2>2. Allowed(retired, cooling, error, stream, shaken, "answered", h, q)
    BY <1>2, <1>3, <2>1 DEF Allowed
  <2> QED BY <1>4, <1>5, <2>2 DEF q
<1> QED BY <1>6, <1>7, <1>8, <1>9, <1>10, <1>11, <1>12, Zenon

LEMMA ReconcileReplying ==
  ASSUME NEW t, Sound(t), NEW S, NEW ns \in Seq(Replying(S))
  PROVE  Reconcile(t, ns) \in Seq(Replying(S))
<1> DEFINE F == Replying(S)
           hasNode(id) == \/ GetNode(ns, id) # {}
                          \/ \E i \in DOMAIN ns : ns[i].addr = AddressOf(t, id)
           ids == [i \in 1..t.lastId |-> i]
           missing == Kept(ids, {id \in 1..t.lastId : IsKnown(t, id) /\ ~hasNode(id)})
           known == {id \in 1..t.lastId : IsKnown(t, id)}
           new == [i \in DOMAIN missing |-> NewNode(missing[i], AddressOf(t, missing[i]))]
           all == ns \o new
           turned(i) ==
             IF ~IsKnown(t, all[i].id) THEN Retired(all[i])
             ELSE IF i > Len(ns) /\ i \in GetNode(all, all[i].id) THEN Setup(all[i])
             ELSE all[i]
           r == [i \in DOMAIN all |-> turned(i)]
<1>1. Reconcile(t, ns) = r
  BY Zenon DEF Reconcile, Retired
<1>2. t.lastId \in Nat
  BY DEF Sound
<1>3. missing \in Seq(known)
  <2> DEFINE I == {id \in 1..t.lastId : IsKnown(t, id) /\ ~hasNode(id)}
             n == t.lastId
  <2>1. I \subseteq known
    OBVIOUS
  <2> HIDE DEF I, known
  <2>2. ids \in Seq(Nat) /\ Len(ids) = n /\ \A k \in 1..n : ids[k] = k
    <3>1. n \in Nat
      BY <1>2
    <3>2. ids = [i \in 1..n |-> i]
      OBVIOUS
    <3> HIDE DEF n, ids
    <3> QED BY <3>1, <3>2
  <2> HIDE DEF ids
  <2>3. \A k \in 1..Len(ids) : k \in I => ids[k] \in known
    BY <2>1, <2>2
  <2>4. Kept(ids, I) \in Seq(known)
    BY <2>2, <2>3, KeptIn
  <2> QED BY <2>4 DEF I
<1> HIDE DEF missing
<1>4. new \in Seq(F)
  <2>1. \A i \in DOMAIN missing : IsKnown(t, missing[i])
    BY <1>3
  <2>2. ASSUME NEW i \in DOMAIN missing PROVE new[i] \in F
    <3> DEFINE n == NewNode(missing[i], AddressOf(t, missing[i]))
    <3>1. n \in Node
      <4>1. n \in Fine(dep, t, FALSE)
        BY <2>1, NewNodeFine, Zenon
      <4> QED BY <4>1, Zenon DEF Fine
    <3>2. n.cmd = "none"
      BY DEF NewNode
    <3> HIDE DEF n
    <3>3. n \in F
      BY <3>1, <3>2 DEF Replying
    <3> QED BY <3>3, Zenon DEF n
  <2>3. new = [i \in DOMAIN missing |-> new[i]]
    BY Zenon
  <2> HIDE DEF new, F
  <2> QED BY <1>3, <2>2, <2>3, MapSeq
<1> HIDE DEF new
<1>5. all \in Seq(F)
  <2> HIDE DEF F
  <2>1. ns \in Seq(F)
    BY DEF F
  <2> QED BY <1>4, <2>1
<1> HIDE DEF all
<1>6. ASSUME NEW i \in DOMAIN all PROVE turned(i) \in F
  <2>1. all[i] \in F
    <3> HIDE DEF F
    <3> QED BY <1>5
  <2>2. Retired(all[i]) \in F /\ Setup(all[i]) \in F
    BY <2>1, ReplyingSteps, Zenon
  <2> QED BY <2>1, <2>2, Zenon
<1>7. r = [i \in DOMAIN all |-> r[i]] /\ \A i \in DOMAIN all : r[i] \in F
  BY <1>6, Zenon
<1> HIDE DEF r, F
<1>8. r \in Seq(F)
  BY <1>5, <1>7, MapSeq
<1> QED BY <1>1, <1>8, Zenon DEF F

LEMMA NotRetiredReplying ==
  ASSUME NEW S, NEW ns \in Seq(Replying(S))
  PROVE  NotRetired(ns) \in Seq(Replying(S))
<1> DEFINE F == Replying(S)
           I == {i \in DOMAIN ns : ~ns[i].retired}
<1>1. NotRetired(ns) = Kept(ns, I)
  BY Zenon DEF NotRetired
<1> HIDE DEF F, I
<1>2. ns \in Seq(F) /\ \A k \in 1..Len(ns) : k \in I => ns[k] \in F
  BY DEF F
<1>3. Kept(ns, I) \in Seq(F)
  BY <1>2, KeptIn
<1> QED BY <1>1, <1>3, Zenon DEF F

(* A map of the nodes *)
LEMMA MapReplying ==
  ASSUME NEW S, NEW ns \in Seq(Replying(S)), NEW r, r = [i \in DOMAIN ns |-> r[i]],
         \A i \in DOMAIN ns : r[i] \in {ns[i], Setup(ns[i]), Closed(ns[i])}
  PROVE  r \in Seq(Replying(S))
<1> DEFINE F == Replying(S)
<1>1. ASSUME NEW i \in DOMAIN ns PROVE r[i] \in F
  <2>1. ns[i] \in F
    <3> HIDE DEF F
    <3>1. ns \in Seq(F)
      BY DEF F
    <3> QED BY <3>1
  <2>2. Setup(ns[i]) \in F /\ Closed(ns[i]) \in F
    BY <2>1, ReplyingSteps, Zenon
  <2> QED BY <2>1, <2>2
<1> HIDE DEF F
<1>2. ns \in Seq(F)
  BY DEF F
<1>3. r \in Seq(F)
  BY <1>1, <1>2, MapSeq
<1> QED BY <1>3 DEF F

LEMMA DisconnectReplying ==
  ASSUME NEW S, NEW ns \in Seq(Replying(S)), NEW id
  PROVE  Disconnect(ns, id) \in Seq(Replying(S))
<1> DEFINE closed(i) == IF i \in GetNode(ns, id) /\ ns[i].stream THEN Closed(ns[i]) ELSE ns[i]
           r == [i \in DOMAIN ns |-> closed(i)]
<1>1. Disconnect(ns, id) = r
  BY Zenon DEF Disconnect, Closed
<1>2. r = [i \in DOMAIN ns |-> r[i]] /\ \A i \in DOMAIN ns : r[i] = closed(i)
  BY Zenon
<1>3. \A i \in DOMAIN ns : r[i] \in {ns[i], Setup(ns[i]), Closed(ns[i])}
  BY <1>2
<1> HIDE DEF r
<1>4. r \in Seq(Replying(S))
  BY <1>2, <1>3, MapReplying
<1> QED BY <1>1, <1>4

LEMMA StartScanReplying ==
  ASSUME Sound(td), NEW S, nodes \in Seq(Replying(S)), StartScan
  PROVE  nodes' \in Seq(Replying(S))
<1> DEFINE all == NotRetired(Reconcile(td, nodes))
           next(i) == IF all[i].cooling /\ all[i].cmd = "none" THEN all[i] ELSE Setup(all[i])
           r == [i \in DOMAIN all |-> next(i)]
<1>1. nodes' = r
  BY Zenon DEF StartScan
<1>2. all \in Seq(Replying(S))
  BY ReconcileReplying, NotRetiredReplying
<1> HIDE DEF all
<1>3. r = [i \in DOMAIN all |-> r[i]] /\ \A i \in DOMAIN all : r[i] = next(i)
  BY Zenon
<1>4. \A i \in DOMAIN all : r[i] \in {all[i], Setup(all[i]), Closed(all[i])}
  BY <1>3
<1> HIDE DEF r
<1>5. r \in Seq(Replying(S))
  BY <1>2, <1>3, <1>4, MapReplying
<1> QED BY <1>1, <1>5

(* The replies that wait to be handled stay or go, but for the one of Answer. *)
LEMMA RepliesStay ==
  ASSUME Scanning, Sound(td'), [Next]_vars, NEW S, nodes \in Seq(Replying(S))
  PROVE  nodes' \in Seq(Replying(S)) \/ \E i \in DOMAIN nodes : Answer(i)
<1> DEFINE F == Replying(S)
<1>1. Sound(td)
  BY DEF Scanning
<1>2. \A i \in DOMAIN nodes : nodes[i] \in F
  <2> HIDE DEF F
  <2>1. nodes \in Seq(F)
    BY DEF F
  <2> QED BY <2>1
<1>3. ASSUME NEW i \in DOMAIN nodes, NEW x \in F PROVE [nodes EXCEPT ![i] = x] \in Seq(F)
  <2> HIDE DEF F
  <2>1. nodes \in Seq(F)
    BY DEF F
  <2> QED BY <2>1, ReplaceFine
<1>4. ASSUME nodes' = nodes PROVE nodes' \in Seq(F)
  BY <1>4
<1>5. ASSUME StartScan PROVE nodes' \in Seq(F)
  BY <1>1, <1>5, StartScanReplying
<1>6. ASSUME NEW id, nodes' = Disconnect(nodes, id) PROVE nodes' \in Seq(F)
  BY <1>6, DisconnectReplying
<1>7. ASSUME Lose PROVE nodes' \in Seq(F)
  BY <1>6, <1>7, Zenon DEF Lose
<1>8. ASSUME NEW i \in DOMAIN nodes, HandleReply(i) PROVE nodes' \in Seq(F)
  <2> DEFINE n == nodes[i]
             shaken == IF n.shaken # "no" THEN n.shaken ELSE IF n.reply.ok THEN "yes" ELSE "failed"
             s == [nodes EXCEPT ![i] = Handled(n, shaken)]
  <2>1. nodes[i].cmd = "answered" /\ nodes' = Reconcile(td', s)
    BY <1>8, Zenon DEF HandleReply, Handled
  <2>2. n.shaken \in {"no", "yes", "failed"}
    BY <2>1, AnsweredIn
  <2>3. shaken \in {"yes", "failed"}
    BY <2>2
  <2> HIDE DEF shaken
  <2>4. Handled(n, shaken) \in F
    BY <1>2, <2>3, ReplyingSteps, Zenon
  <2>5. s \in Seq(F)
    BY <1>3, <2>4
  <2> HIDE DEF s
  <2> QED BY <2>1, <2>5, ReconcileReplying
<1>9. ASSUME NEW i \in DOMAIN nodes, CheckFails(i) PROVE nodes' \in Seq(F)
  <2> DEFINE id == nodes[i].id
             s == [nodes EXCEPT ![i] = Failed(nodes[i])]
             again(j) == IF j \in GetNode(s, id) THEN Setup(s[j]) ELSE s[j]
             r == [j \in DOMAIN s |-> again(j)]
  <2>1. nodes' = r \/ nodes' = Reconcile(td', s)
    BY <1>9, Zenon DEF CheckFails, Failed
  <2>2. Failed(nodes[i]) \in F
    BY <1>2, ReplyingSteps, Zenon
  <2>3. s \in Seq(F)
    BY <1>3, <2>2
  <2> HIDE DEF s
  <2>4. Reconcile(td', s) \in Seq(F)
    BY <2>3, ReconcileReplying
  <2>5. r = [j \in DOMAIN s |-> r[j]] /\ \A j \in DOMAIN s : r[j] = again(j)
    BY Zenon
  <2>6. \A j \in DOMAIN s : r[j] \in {s[j], Setup(s[j]), Closed(s[j])}
    BY <2>5
  <2> HIDE DEF r
  <2>7. r \in Seq(F)
    BY <2>3, <2>5, <2>6, MapReplying
  <2> QED BY <2>1, <2>4, <2>7
<1>10. ASSUME FinishScan PROVE nodes' \in Seq(F)
  <2>1. nodes' = NotRetired(nodes)
    BY <1>10, Zenon DEF FinishScan
  <2>2. NotRetired(nodes) \in Seq(F)
    BY NotRetiredReplying
  <2> QED BY <2>1, <2>2
<1>11. ASSUME NEW i \in DOMAIN nodes, CooldownEnds(i) PROVE nodes' \in Seq(F)
  <2>1. nodes' = [nodes EXCEPT ![i] = Rested(nodes[i])]
    BY <1>11, Zenon DEF CooldownEnds, Rested
  <2>2. Rested(nodes[i]) \in F
    BY <1>2, ReplyingSteps, Zenon
  <2> QED BY <1>3, <2>1, <2>2
<1>12. ASSUME SetChanges PROVE nodes' = nodes
  BY <1>12, Zenon DEF SetChanges, Elect, Reconfigure, Learn, client
<1>13. ASSUME Call PROVE nodes' \in Seq(F)
  <2>1. ASSUME NoScanner \/ NoneEligible \/ Select \/ SelectNone \/ Check PROVE nodes' = nodes
    BY <2>1, Zenon DEF NoScanner, NoneEligible, Select, SelectNone, Check
  <2>2. ASSUME RunDone \/ RunRefused PROVE nodes' = nodes
    BY <2>2, Zenon DEF RunDone, RunRefused
  <2>3. ASSUME ScanToSelect PROVE nodes' \in Seq(F)
    BY <1>5, <2>3, Zenon DEF ScanToSelect
  <2>4. ASSUME Fetch PROVE nodes' = nodes \/ StartScan \/ Lose
    BY <2>4, Zenon DEF Fetch
  <2>5. ASSUME FetchScanned PROVE nodes' = nodes \/ Lose
    BY <2>5, Zenon DEF FetchScanned
  <2> QED BY <1>4, <1>5, <1>7, <1>13, <2>1, <2>2, <2>3, <2>4, <2>5, Zenon DEF Call
<1>14. ASSUME CheckClosed \/ RunBreaks PROVE nodes' \in Seq(F)
  BY <1>6, <1>14, Zenon DEF CheckClosed, RunBreaks
<1>15. ASSUME NEW mode, Begin(mode) PROVE nodes' = nodes
  BY <1>15, Zenon DEF Begin
<1>16. ASSUME UNCHANGED vars PROVE nodes' = nodes
  BY <1>16, Zenon DEF vars
<1>17. ASSUME Scanner PROVE nodes' \in Seq(F) \/ \E i \in DOMAIN nodes : Answer(i)
  BY <1>8, <1>10, <1>17, Zenon DEF Scanner
<1>18. ASSUME Faults PROVE nodes' \in Seq(F)
  BY <1>9, <1>14, <1>18, Zenon DEF Faults
<1> QED BY <1>4, <1>11, <1>12, <1>13, <1>15, <1>16, <1>17, <1>18, Zenon DEF Next

(* Of elections the description keeps the latest, and its primary has won none earlier. *)
Led(t) ==
  /\ t.maxSv \in Nat /\ t.maxEid \in Nat
  /\ t.type \notin RsType => t.maxSv = 0 /\ t.maxEid = 0
  /\ \A a \in Primaries(t) : t.servers[a].eid \in Nat /\ t.servers[a].eid >= t.maxEid

LEMMA EasesLed ==
  ASSUME NEW t, NEW u, Led(t), Eases(t, u), t.type \in RsType => u.type \in RsType
  PROVE  Led(u) /\ u.maxSv = t.maxSv /\ u.maxEid = t.maxEid
<1>1. u.maxSv = t.maxSv /\ u.maxEid = t.maxEid
  BY Zenon DEF Eases
<1>2. ASSUME NEW a \in Primaries(u) PROVE a \in Primaries(t) /\ u.servers[a].eid = t.servers[a].eid
  <2>1. a \in Servers(u) /\ u.servers[a].type = "RSPrimary"
    BY Zenon DEF Primaries, TypeAt
  <2>2. a \in Servers(t) /\ Eased(t.servers[a], u.servers[a])
    BY <2>1, Zenon DEF Eases
  <2>3. u.servers[a].type = t.servers[a].type /\ u.servers[a].eid = t.servers[a].eid
    BY <2>1, <2>2 DEF Eased
  <2> QED BY <2>1, <2>2, <2>3, Zenon DEF Primaries, TypeAt
<1> QED BY <1>1, <1>2, Zenon DEF Led

LEMMA FailLed ==
  ASSUME NEW t, NEW id, Sound(t), Led(t)
  PROVE  LET u == Fail(t, id) IN Led(u) /\ u.maxSv = t.maxSv /\ u.maxEid = t.maxEid
<1> DEFINE u == Fail(t, id)
<1>1. /\ Eases(t, u)
      /\ t.type # "RSWithPrimary" => u.type = t.type
      /\ t.type = "RSWithPrimary" => u.type \in RsType
  BY FailEases
<1>2. t.type \in RsType => u.type \in RsType
  BY <1>1
<1> HIDE DEF u
<1>3. Led(u) /\ u.maxSv = t.maxSv /\ u.maxEid = t.maxEid
  BY <1>1, <1>2, EasesLed
<1> QED BY <1>3 DEF u

(* What the reply of a primary may say, and then it counts at least as the latest election *)
InTurn(t, h) ==
  Typed(h) = "RSPrimary" => h.sv # 0 /\ h.eid # 0 /\ InOrder(t.maxSv, t.maxEid, h.sv, h.eid)
Heeded(t, h, u) ==
  /\ Led(u) /\ u.maxEid >= t.maxEid
  /\ \/ u.maxSv = t.maxSv /\ u.maxEid = t.maxEid
     \/ Typed(h) = "RSPrimary" /\ u.maxSv = h.sv /\ u.maxEid = h.eid

LEMMA HandleHelloLed ==
  ASSUME NEW t, NEW id, NEW h \in HelloReply, Sound(t), Good(t), Led(t), InTurn(t, h)
  PROVE  Heeded(t, h, HandleHello(t, id, h))
<1> DEFINE u == HandleHello(t, id, h)
           a == AddressOf(t, id)
<1>1. h.sv \in Nat /\ h.eid \in Nat
  BY DEF HelloReply
<1>2. t.maxSv \in Nat /\ t.maxEid \in Nat
  BY DEF Led
<1>3. CASE u = t
  BY <1>2, <1>3 DEF Heeded
<1>4. ASSUME NEW told, Stored(t, a, h, told), Turned(told, a, h, u) PROVE Heeded(t, h, u)
  <2> HIDE DEF a, u
  <2>1. /\ told.type = t.type /\ told.maxSv = t.maxSv /\ told.maxEid = t.maxEid
        /\ told.servers[a].type = Typed(h) /\ told.servers[a].eid = h.eid
        /\ Servers(told) = Servers(t)
        /\ \A b \in Servers(t) \ {a} : told.servers[b] = t.servers[b]
    BY <1>4, Zenon DEF Stored
  <2>2. Grows(told, u) /\ (told.type \in RsType => u.type \in RsType) /\ Tallies(told, a, h, u)
    BY <1>4, Zenon DEF Turned
  <2>3. ASSUME NEW p \in Primaries(u)
        PROVE  p \in Servers(told) /\ u.servers[p].eid = told.servers[p].eid /\ told.servers[p].type = "RSPrimary"
    <3>1. p \in Servers(u) /\ u.servers[p].type = "RSPrimary"
      BY Zenon DEF Primaries, TypeAt
    <3>2. p \in Servers(told) /\ Eased(told.servers[p], u.servers[p])
      BY <2>2, <3>1 DEF Grows
    <3>3. u.servers[p].type = told.servers[p].type /\ u.servers[p].eid = told.servers[p].eid
      BY <3>1, <3>2 DEF Eased
    <3> QED BY <3>1, <3>2, <3>3
  <2>4. CASE /\ u.maxSv = told.maxSv /\ u.maxEid = told.maxEid
             /\ a \in Primaries(u) => u.type = "Single"
    <3>1. u.type \notin RsType => u.maxSv = 0 /\ u.maxEid = 0
      BY <2>1, <2>2, <2>4, Zenon DEF Led
    <3>2. ASSUME NEW p \in Primaries(u) PROVE u.servers[p].eid \in Nat /\ u.servers[p].eid >= u.maxEid
      <4>1. CASE p = a
        <5>1. u.type = "Single"
          BY <2>4, <4>1
        <5>2. u.maxEid = 0
          BY <3>1, <5>1 DEF RsType
        <5>3. u.servers[p].eid = h.eid
          BY <2>1, <2>3, <4>1
        <5> QED BY <1>1, <5>2, <5>3
      <4>2. CASE p # a
        <5>1. p \in Servers(t) /\ told.servers[p] = t.servers[p] /\ t.servers[p].type = "RSPrimary"
          BY <2>1, <2>3, <4>2
        <5>2. p \in Primaries(t)
          BY <5>1, Zenon DEF Primaries, TypeAt
        <5>3. t.servers[p].eid \in Nat /\ t.servers[p].eid >= t.maxEid
          BY <5>2, Zenon DEF Led
        <5>4. u.servers[p].eid = t.servers[p].eid
          BY <2>3, <5>1
        <5> QED BY <2>1, <2>4, <5>3, <5>4
      <4> QED BY <4>1, <4>2
    <3>3. u.maxSv = t.maxSv /\ u.maxEid = t.maxEid
      BY <2>1, <2>4
    <3>4. Led(u)
      BY <1>2, <3>1, <3>2, <3>3, Zenon DEF Led
    <3> QED BY <1>2, <3>3, <3>4 DEF Heeded
  <2>5. CASE /\ TypeAt(told, a) = "RSPrimary" /\ u.type \in RsType
             /\ ~(h.sv # 0 /\ h.eid # 0 /\ LaterElection(told, h))
             /\ u.maxEid = IF h.sv # 0 /\ h.eid # 0 THEN h.eid ELSE told.maxEid
             /\ u.maxSv = IF h.sv > told.maxSv THEN h.sv ELSE told.maxSv
             /\ Primaries(u) \subseteq {a}
    <3>1. Typed(h) = "RSPrimary"
      BY <2>1, <2>5, Zenon DEF TypeAt
    <3>2. h.sv # 0 /\ h.eid # 0 /\ (t.maxSv < h.sv => t.maxEid <= h.eid)
      BY <3>1 DEF InTurn, InOrder
    <3>3. ~(t.maxSv > h.sv) /\ ~(t.maxSv = h.sv /\ t.maxEid > h.eid)
      <4>1. ~LaterElection(told, h)
        BY <2>5, <3>2
      <4> QED BY <2>1, <4>1 DEF LaterElection
    <3>4. u.maxEid = h.eid
      BY <2>5, <3>2
    <3>5. u.maxSv = h.sv
      BY <1>1, <1>2, <2>1, <2>5, <3>3
    <3>6. h.eid >= t.maxEid
      BY <1>1, <1>2, <3>2, <3>3
    <3>7. \A p \in Primaries(u) : u.servers[p].eid \in Nat /\ u.servers[p].eid >= u.maxEid
      <4> TAKE p \in Primaries(u)
      <4>1. p = a
        BY <2>5
      <4>2. u.servers[p].eid = h.eid
        BY <2>1, <2>3, <4>1
      <4> QED BY <1>1, <3>4, <4>2
    <3>8. Led(u)
      BY <1>1, <2>5, <3>4, <3>5, <3>7, Zenon DEF Led
    <3>9. u.maxEid >= t.maxEid
      BY <3>4, <3>6
    <3> QED BY <3>1, <3>4, <3>5, <3>8, <3>9, Zenon DEF Heeded
  <2> QED BY <2>2, <2>4, <2>5, Zenon DEF Tallies
<1>5. \/ u = t
      \/ IsKnown(t, id) /\ \E told : /\ Stored(t, a, h, told) /\ Told(told, a, h)
                                     /\ Turned(told, a, h, u)
  BY HandleHelloTurned
<1> HIDE DEF u, a
<1>6. CASE u # t
  <2>1. PICK told : Stored(t, a, h, told) /\ Turned(told, a, h, u)
    BY <1>5, <1>6, Zenon
  <2>2. Heeded(t, h, u)
    BY <1>4, <2>1, Zenon
  <2> QED BY <2>2, Zenon DEF u
<1> QED BY <1>3, <1>6, Zenon DEF u

(* The replies that wait to be handled, and those of primaries among them *)
Heard(ns) == {ns[i].reply : i \in {j \in DOMAIN ns : ns[j].cmd = "answered"}}
Claims(S) == {h \in S : Typed(h) = "RSPrimary"}

(* The elections that the description and the waiting replies tell of, each against the others *)
Timely(d, m, t, S) ==
  /\ Past(d, m, t.maxSv, t.maxEid)
  /\ \A h \in Claims(S) : /\ h.sv # 0 /\ h.eid # 0 /\ Past(d, m, h.sv, h.eid)
                          /\ InOrder(t.maxSv, t.maxEid, h.sv, h.eid)
  /\ \A g, h \in Claims(S) : InOrder(g.sv, g.eid, h.sv, h.eid)

(* The inductive invariant of elections *)
Informed == Scanning /\ Orderly(dep, mem) /\ Led(td) /\ Timely(dep, mem, td, Heard(nodes))

LEMMA TimelyStays ==
  ASSUME NEW d, NEW m, NEW n, NEW t, NEW u, NEW S, NEW R, Timely(d, m, t, S), R \subseteq S,
         \A v, e : Past(d, m, v, e) => Past(d, n, v, e),
         \/ u.maxSv = t.maxSv /\ u.maxEid = t.maxEid
         \/ \E h \in Claims(S) : u.maxSv = h.sv /\ u.maxEid = h.eid
  PROVE  Timely(d, n, u, R)
<1>1. /\ Past(d, m, t.maxSv, t.maxEid)
      /\ \A h \in Claims(S) : h.sv # 0 /\ h.eid # 0 /\ Past(d, m, h.sv, h.eid)
      /\ \A h \in Claims(S) : InOrder(t.maxSv, t.maxEid, h.sv, h.eid)
      /\ \A g, h \in Claims(S) : InOrder(g.sv, g.eid, h.sv, h.eid)
  BY Zenon DEF Timely
<1>2. Claims(R) \subseteq Claims(S)
  BY DEF Claims
<1>3. \A h \in Claims(R) : h.sv # 0 /\ h.eid # 0 /\ Past(d, n, h.sv, h.eid)
  BY <1>1, <1>2
<1>4. \A g, h \in Claims(R) : InOrder(g.sv, g.eid, h.sv, h.eid)
  BY <1>1, <1>2
<1>5. Past(d, n, u.maxSv, u.maxEid) /\ \A h \in Claims(R) : InOrder(u.maxSv, u.maxEid, h.sv, h.eid)
  <2>1. CASE u.maxSv = t.maxSv /\ u.maxEid = t.maxEid
    BY <1>1, <1>2, <2>1
  <2>2. CASE \E h \in Claims(S) : u.maxSv = h.sv /\ u.maxEid = h.eid
    BY <1>1, <1>2, <2>2
  <2> QED BY <2>1, <2>2
<1> QED BY <1>3, <1>4, <1>5, Zenon DEF Timely

(* A reply that a server writes now is in order with all that is past. *)
LEMMA TimelyHello ==
  ASSUME NEW d \in Deployment, NEW m, NEW t, NEW S, NEW h, Orderly(d, m), Timely(d, m, t, S), Says(m, h)
  PROVE  Timely(d, m, t, S \cup {h})
<1>1. CASE Typed(h) # "RSPrimary"
  <2>1. Claims(S \cup {h}) = Claims(S)
    BY <1>1 DEF Claims
  <2> QED BY <2>1, Zenon DEF Timely
<1>2. CASE Typed(h) = "RSPrimary"
  <2>1. /\ h.sv # 0 /\ Past(d, m, h.sv, h.eid)
        /\ \A v, e : Past(d, m, v, e) => InOrder(v, e, h.sv, h.eid)
    <3>1. CASE h.sv = 1 /\ h.eid = 1
      <4>1. Past(d, m, 1, 1)
        BY FirstPast
      <4> QED BY <3>1, <4>1, FirstInOrder
    <3>2. CASE \E a \in Addr : m[a].primary /\ m[a].ver # 0 /\ h.sv = m[a].ver /\ h.eid = m[a].term
      <4>1. PICK a \in Addr : m[a].primary /\ m[a].ver # 0 /\ h.sv = m[a].ver /\ h.eid = m[a].term
        BY <3>2
      <4> DEFINE v == m[a].ver
                 e == m[a].term
      <4>2. Past(d, m, v, e)
        BY <4>1, PrimaryPast
      <4>3. \A w, f : Past(d, m, w, f) => InOrder(w, f, v, e)
        BY <4>1, PrimaryInOrder
      <4>4. h.sv = v /\ h.eid = e /\ v # 0
        BY <4>1
      <4> HIDE DEF v, e
      <4> QED BY <4>2, <4>3, <4>4
    <3> QED BY <1>2, <3>1, <3>2, Zenon DEF Says
  <2>2. h.sv \in Nat /\ h.eid \in Nat /\ h.eid # 0
    <3>1. h.sv \in Nat /\ h.eid \in Nat /\ (h.sv >= 1 => h.eid >= 1)
      BY <2>1, Zenon DEF Past
    <3> QED BY <2>1, <3>1
  <2>3. Claims(S \cup {h}) = Claims(S) \cup {h}
    BY <1>2 DEF Claims
  <2>4. /\ Past(d, m, t.maxSv, t.maxEid)
        /\ \A g \in Claims(S) : g.sv # 0 /\ g.eid # 0 /\ Past(d, m, g.sv, g.eid)
        /\ \A g \in Claims(S) : InOrder(t.maxSv, t.maxEid, g.sv, g.eid)
        /\ \A f, g \in Claims(S) : InOrder(f.sv, f.eid, g.sv, g.eid)
    BY Zenon DEF Timely
  <2>5. \A g \in Claims(S) : InOrder(g.sv, g.eid, h.sv, h.eid) /\ InOrder(h.sv, h.eid, g.sv, g.eid)
    <3>1. \A g \in Claims(S) : InOrder(g.sv, g.eid, h.sv, h.eid)
      BY <2>1, <2>4
    <3> QED BY <3>1 DEF InOrder
  <2>6. InOrder(h.sv, h.eid, h.sv, h.eid)
    BY <2>2 DEF InOrder
  <2>7. \A f, g \in Claims(S) \cup {h} : InOrder(f.sv, f.eid, g.sv, g.eid)
    BY <2>4, <2>5, <2>6
  <2>8. \A g \in Claims(S) \cup {h} : /\ g.sv # 0 /\ g.eid # 0 /\ Past(d, m, g.sv, g.eid)
                                      /\ InOrder(t.maxSv, t.maxEid, g.sv, g.eid)
    BY <2>1, <2>2, <2>4
  <2> QED BY <2>3, <2>4, <2>7, <2>8, Zenon DEF Timely
<1> QED BY <1>1, <1>2

LEMMA HeardReplying ==
  ASSUME NEW S, NEW ns \in Seq(Replying(S))
  PROVE  Heard(ns) \subseteq S
<1> DEFINE F == Replying(S)
<1>1. \A i \in DOMAIN ns : ns[i] \in F
  <2> HIDE DEF F
  <2>1. ns \in Seq(F)
    BY DEF F
  <2> QED BY <2>1
<1>2. \A i \in DOMAIN ns : ns[i].cmd = "answered" => ns[i].reply \in S
  BY <1>1, Zenon DEF Replying
<1> QED BY <1>2, Zenon DEF Heard

LEMMA NodesReplying ==
  ASSUME Scanning
  PROVE  nodes \in Seq(Replying(Heard(nodes)))
<1> DEFINE S == Heard(nodes)
           yes == TRUE
           F == Fine(dep, td, yes)
           G == Replying(S)
<1>1. nodes \in Seq(F)
  <2> DEFINE E == Fine(dep, td, FALSE)
  <2>1. nodes \in Seq(F) \/ nodes \in Seq(E)
    BY Zenon DEF Scanning, NodesIn
  <2>2. E \subseteq F
    BY FineAny
  <2> HIDE DEF E, F
  <2> QED BY <2>1, <2>2
<1>2. \A i \in DOMAIN nodes : nodes[i] \in F
  <2> HIDE DEF F
  <2> QED BY <1>1
<1>3. ASSUME NEW i \in DOMAIN nodes PROVE nodes[i] \in G
  <2>1. nodes[i] \in Node
    BY <1>2, Zenon DEF Fine
  <2>2. nodes[i].cmd = "answered" => nodes[i].reply \in S
    BY Zenon DEF Heard
  <2> HIDE DEF S
  <2> QED BY <2>1, <2>2, Zenon DEF Replying
<1> HIDE DEF F, G
<1>4. nodes \in [1..Len(nodes) -> G] /\ Len(nodes) \in Nat
  BY <1>1, <1>3
<1>5. nodes \in Seq(G)
  BY <1>4, SeqDef
<1> QED BY <1>5 DEF G

LEMMA MembersStay == ASSUME [Next]_vars, ~SetChanges PROVE mem' = mem
<1>1. ASSUME Scanner PROVE mem' = mem
  BY <1>1, Zenon DEF Scanner, FinishScan, Answer, HandleReply
<1>2. ASSUME Call PROVE mem' = mem
  <2>1. ASSUME NoScanner \/ NoneEligible \/ Select \/ SelectNone \/ Check PROVE mem' = mem
    BY <2>1, Zenon DEF NoScanner, NoneEligible, Select, SelectNone, Check
  <2>2. ASSUME ScanToSelect \/ Fetch \/ FetchScanned \/ RunDone \/ RunRefused PROVE mem' = mem
    BY <2>2, Zenon DEF ScanToSelect, Fetch, FetchScanned, StartScan, Lose, RunDone, RunRefused
  <2> QED BY <1>2, <2>1, <2>2, Zenon DEF Call
<1>3. ASSUME Faults PROVE mem' = mem
  BY <1>3, Zenon DEF Faults, CheckClosed, RunBreaks, CheckFails
<1>4. ASSUME NEW mode, Begin(mode) PROVE mem' = mem
  BY <1>4, Zenon DEF Begin
<1>5. ASSUME NEW i, CooldownEnds(i) PROVE mem' = mem
  BY <1>5, Zenon DEF CooldownEnds
<1>6. ASSUME UNCHANGED vars PROVE mem' = mem
  BY <1>6, Zenon DEF vars
<1> QED BY <1>1, <1>2, <1>3, <1>4, <1>5, <1>6, Zenon DEF Next

(* What a step makes of the elections that the description knows *)
Advances ==
  /\ Led(td') /\ td'.maxEid >= td.maxEid
  /\ \/ td'.maxSv = td.maxSv /\ td'.maxEid = td.maxEid
     \/ \E h \in Claims(Heard(nodes)) : td'.maxSv = h.sv /\ td'.maxEid = h.eid

LEMMA StepAdvances ==
  ASSUME Informed, [Next]_vars
  PROVE  Advances
<1>1. DescriptionChanges
  BY DescriptionStep
<1>2. Good(td) /\ Sound(td) /\ Led(td) /\ Scanning
  BY Zenon DEF Informed, Scanning
<1>3. td.maxSv \in Nat /\ td.maxEid \in Nat
  BY <1>2 DEF Led
<1>4. ASSUME Led(td'), td'.maxSv = td.maxSv, td'.maxEid = td.maxEid PROVE Advances
  <2>1. td'.maxEid >= td.maxEid
    BY <1>3, <1>4
  <2> QED BY <1>4, <2>1, Zenon DEF Advances
<1>5. CASE td' = td
  BY <1>2, <1>4, <1>5, Zenon
<1>6. ASSUME NEW i, ReplyHandled(i) PROVE Advances
  <2> DEFINE h == nodes[i].reply
             id == nodes[i].id
  <2>1. i \in DOMAIN nodes /\ nodes[i].cmd = "answered" /\ td' = HandleHello(td, id, h)
    BY <1>6, Zenon DEF ReplyHandled
  <2>2. h \in HelloReply
    BY <1>2, <2>1, AnsweredIn
  <2>3. Typed(h) = "RSPrimary" => h \in Claims(Heard(nodes))
    <3>1. h \in Heard(nodes)
      BY <2>1, Zenon DEF Heard
    <3> HIDE DEF h
    <3> QED BY <3>1, Zenon DEF Claims
  <2> HIDE DEF h, id
  <2>4. InTurn(td, h)
    BY <2>3, Zenon DEF Informed, Timely, InTurn
  <2>5. Heeded(td, h, td')
    BY <1>2, <2>1, <2>2, <2>4, HandleHelloLed
  <2> QED BY <2>3, <2>5, Zenon DEF Heeded, Advances
<1>7. ASSUME NEW id, td' = Fail(td, id) PROVE Advances
  <2>1. Led(td') /\ td'.maxSv = td.maxSv /\ td'.maxEid = td.maxEid
    BY <1>2, <1>7, FailLed
  <2> QED BY <1>4, <2>1, Zenon
<1>8. ASSUME NEW a, NEW tv, NEW id, ErrorStored(a, tv, id) PROVE Advances
  <2> DEFINE u == [td EXCEPT !.servers[a].tv = tv]
  <2>1. a \in Servers(td) /\ td' = Fail(u, id)
    BY <1>8, Zenon DEF ErrorStored
  <2>2. Sound(u) /\ Eases(td, u) /\ u.type = td.type
    BY <1>2, <2>1, VersionEases
  <2> HIDE DEF u
  <2>3. Led(u) /\ u.maxSv = td.maxSv /\ u.maxEid = td.maxEid
    BY <1>2, <2>2, EasesLed
  <2>4. Led(td') /\ td'.maxSv = u.maxSv /\ td'.maxEid = u.maxEid
    BY <2>1, <2>2, <2>3, FailLed
  <2> QED BY <1>4, <2>3, <2>4, Zenon
<1> QED BY <1>1, <1>5, <1>6, <1>7, <1>8, Zenon DEF DescriptionChanges

LEMMA StepInformed ==
  ASSUME TopologyAssumption, Informed, [Next]_vars
  PROVE  Informed'
<1> DEFINE S == Heard(nodes)
           m == mem
           n == mem'
           t == td
           u == td'
           d == dep
<1>1. Scanning' /\ dep' = dep /\ Advances
  BY StepKeeps, DepStays, StepAdvances DEF Informed
<1>2. dep \in Deployment /\ mem \in [Addr -> MemberState(dep)]
  BY DEF Informed, Scanning, TopologyAssumption
<1>3. Led(td')
  BY <1>1, Zenon DEF Advances
<1>4. Orderly(d, m) /\ Timely(d, m, t, S) /\ d \in Deployment
  BY <1>2, Zenon DEF Informed
<1>5. nodes \in Seq(Replying(S))
  BY NodesReplying DEF Informed
<1>6. ASSUME NEW R, Heard(nodes') \subseteq R, Timely(d, n, u, R), Orderly(d, n) PROVE Informed'
  <2> HIDE DEF S
  <2>1. Timely(d, n, u, Heard(nodes'))
    <3> DEFINE Q == Heard(nodes')
    <3> HIDE DEF d, n, u, Q
    <3>1. Q \subseteq R
      BY <1>6, Zenon DEF Q
    <3>2. Timely(d, n, u, Q)
      BY <1>6, <3>1, TimelyStays
    <3> QED BY <3>2, Zenon DEF Q
  <2> QED BY <1>1, <1>3, <1>6, <2>1, Zenon DEF Informed
<1>7. CASE SetChanges
  <2>1. Orderly(dep, mem') /\ \A v, e : Past(dep, mem, v, e) => Past(dep, mem', v, e)
    BY <1>2, <1>4, <1>7, OrderStays, Zenon
  <2>2. td' = td /\ nodes' = nodes
    BY <1>7, Zenon DEF SetChanges, Elect, Reconfigure, Learn, client
  <2>3. Orderly(d, n) /\ (\A v, e : Past(d, m, v, e) => Past(d, n, v, e)) /\ u = t
    BY <2>1, <2>2
  <2> HIDE DEF d, n, m, u, t, S
  <2>4. Timely(d, n, u, S)
    BY <1>4, <2>3, TimelyStays
  <2>5. Heard(nodes') \subseteq S
    BY <2>2, Zenon DEF S
  <2> QED BY <1>6, <2>3, <2>4, <2>5, Zenon
<1>8. ASSUME ~SetChanges, NEW i \in DOMAIN nodes, Answer(i) PROVE Informed'
  <2> DEFINE h == Hello(nodes[i].addr)
  <2>1. mem' = mem
    BY <1>8, MembersStay
  <2>2. /\ nodes[i].cmd = "sent" /\ td' = td
        /\ nodes' = [nodes EXCEPT ![i].cmd = "answered", ![i].reply = Hello(nodes[i].addr)]
    BY <1>8, Zenon DEF Answer
  <2>3. nodes[i].addr \in Addr
    BY <2>2, AnsweredIn DEF Informed
  <2>4. h \in HelloReply /\ Says(mem, h)
    BY <1>2, <2>3, HelloTells, HelloSays, Zenon
  <2>5. nodes' = [nodes EXCEPT ![i] = Answered(nodes[i], h)]
    <3> HIDE DEF h
    <3>1. nodes' = [nodes EXCEPT ![i].cmd = "answered", ![i].reply = h]
      BY <2>2, Zenon DEF h
    <3> QED BY <3>1 DEF Answered
  <2> HIDE DEF h, S
  <2>6. nodes[i] \in Replying(S)
    <3> DEFINE F == Replying(S)
    <3> HIDE DEF F
    <3>1. nodes \in Seq(F)
      BY <1>5 DEF F
    <3>2. nodes[i] \in F
      BY <3>1
    <3> QED BY <3>2 DEF F
  <2>7. Answered(nodes[i], h) \in Replying(S \cup {h})
    BY <2>4, <2>6, ReplyingSteps, Zenon
  <2>8. nodes' \in Seq(Replying(S \cup {h}))
    <3> DEFINE F == Replying(S \cup {h})
               x == Answered(nodes[i], h)
    <3>1. Replying(S) \subseteq F
      BY Zenon DEF Replying
    <3>2. x \in F
      BY <2>7
    <3> HIDE DEF F, x
    <3>3. nodes \in Seq(F)
      BY <1>5, <3>1
    <3>4. [nodes EXCEPT ![i] = x] \in Seq(F)
      BY <3>2, <3>3, ReplaceFine
    <3> QED BY <2>5, <3>4 DEF F, x
  <2>9. Heard(nodes') \subseteq S \cup {h}
    BY <2>8, HeardReplying
  <2>10. Orderly(d, n) /\ u = t /\ n = m /\ Says(m, h)
    BY <1>4, <2>1, <2>2, <2>4
  <2> DEFINE R == S \cup {h}
  <2>11. Timely(d, n, u, R)
    <3> HIDE DEF d, n, m, u, t
    <3>1. Timely(d, m, t, S \cup {h})
      BY <1>4, <2>10, TimelyHello
    <3> QED BY <2>10, <3>1
  <2> HIDE DEF R
  <2>12. Heard(nodes') \subseteq R
    BY <2>9 DEF R
  <2> QED BY <1>6, <2>10, <2>11, <2>12, Zenon
<1>9. CASE ~SetChanges /\ nodes' \in Seq(Replying(S))
  <2>1. mem' = mem
    BY <1>9, MembersStay
  <2>2. Heard(nodes') \subseteq S
    <3> HIDE DEF S
    <3> QED BY <1>9, HeardReplying
  <2>3. \/ u.maxSv = t.maxSv /\ u.maxEid = t.maxEid
        \/ \E h \in Claims(S) : u.maxSv = h.sv /\ u.maxEid = h.eid
    BY <1>1, Zenon DEF Advances
  <2>4. Orderly(d, n) /\ n = m
    BY <1>4, <2>1
  <2>5. Timely(d, n, u, S)
    <3> HIDE DEF d, n, m, u, t, S
    <3>1. \A v, e : Past(d, m, v, e) => Past(d, n, v, e)
      BY <2>4
    <3> QED BY <1>4, <2>3, <3>1, TimelyStays
  <2> QED BY <1>6, <2>2, <2>4, <2>5, Zenon
<1>10. nodes' \in Seq(Replying(S)) \/ \E i \in DOMAIN nodes : Answer(i)
  <2>1. Sound(td') /\ Scanning
    BY <1>1, Zenon DEF Informed, Scanning
  <2> HIDE DEF S
  <2> QED BY <1>5, <2>1, RepliesStay
<1> QED BY <1>7, <1>8, <1>9, <1>10, Zenon

LEMMA InitInformed ==
  ASSUME TopologyAssumption, Init
  PROVE  Informed
<1>1. Scanning /\ Orderly(dep, mem)
  BY InitScanning, InitOrderly
<1>2. td.maxSv = 0 /\ td.maxEid = 0
  BY Zenon DEF Init, AddNewServers
<1>3. Primaries(td) = {}
  <2>1. \A a \in Servers(td) : TypeAt(td, a) \in InNoSet \ {"RSGhost"}
    BY InitDescription
  <2> QED BY <2>1 DEF InNoSet, Primaries
<1>4. Led(td)
  BY <1>2, <1>3 DEF Led
<1>5. dep \in Deployment
  BY DEF Init, TopologyAssumption
<1>6. Heard(nodes) = {}
  <2>1. nodes = [i \in DOMAIN dep.seeds |-> NewNode(i, dep.seeds[i])]
    BY Zenon DEF Init
  <2>2. \A i, a : NewNode(i, a).cmd = "none"
    BY DEF NewNode
  <2>3. \A i \in DOMAIN nodes : nodes[i].cmd = "none"
    BY <2>1, <2>2, Zenon
  <2> QED BY <2>3 DEF Heard
<1>7. Past(dep, mem, 0, 0)
  BY <1>1, <1>5, FirstPast
<1>8. Timely(dep, mem, td, Heard(nodes))
  <2>1. Claims(Heard(nodes)) = {}
    BY <1>6 DEF Claims
  <2> QED BY <1>2, <1>7, <2>1, Zenon DEF Timely
<1> QED BY <1>1, <1>4, <1>8, Zenon DEF Informed

(* Once the client has heard of an election it never takes the primary of an earlier one for
   the primary, however late its reply is and however many primaries believe in their terms
   (update_rs_from_primary), for a set that installs a config at a majority in one step. *)
THEOREM ElectionsNeverGoBack == Spec => NeverBack
<1>1. Init => Informed
  BY InitInformed, TopologyAssumption
<1>2. Informed /\ [Next]_vars => Informed'
  BY StepInformed, TopologyAssumption
<1>3. Informed /\ [Next]_vars =>
        [\A a \in Servers(td') : TypeAt(td', a) = "RSPrimary" /\ dep.kind[dep.at[a]] = "member"
           => td'.servers[a].eid >= td.maxEid]_vars
  <2>1. SUFFICES ASSUME Informed, [Next]_vars, NEW a \in Servers(td'), TypeAt(td', a) = "RSPrimary"
                 PROVE  td'.servers[a].eid >= td.maxEid
    OBVIOUS
  <2>2. Led(td') /\ td'.maxEid >= td.maxEid /\ td.maxEid \in Nat
    BY <2>1, StepAdvances, Zenon DEF Advances, Informed, Led
  <2>3. a \in Primaries(td')
    BY <2>1 DEF Primaries
  <2>4. td'.servers[a].eid \in Nat /\ td'.servers[a].eid >= td'.maxEid /\ td'.maxEid \in Nat
    BY <2>2, <2>3, Zenon DEF Led
  <2> QED BY <2>2, <2>4
<1> QED BY <1>1, <1>2, <1>3, PTL DEF Spec, NeverBack
=============================================================================
