-------------------------- MODULE BsonEncodeProofs --------------------------
(***************************************************************************)
(* What TLAPS proves about BsonEncode, for every set of graphs of tables,  *)
(* of any size, and every bound on the stack.                              *)
(*                                                                         *)
(* The graph and the stack are parameters of the operators below, so that  *)
(* the lemmas about them speak of no state: what is reachable in a graph,  *)
(* and what becomes of the stack of activations when one is entered, left  *)
(* or advanced.                                                            *)
(***************************************************************************)
EXTENDS BsonEncode, FiniteSetTheorems, SequenceTheorems, WellFoundedInduction, TLAPS

(* Induction over the naturals, stated with a set instead of an operator so
   that the provers can use it: apply it to {n \in Nat : P(n)}.  The least
   number that the set lacked would have a predecessor that it lacks too. *)
LEMMA NatSetInduction ==
  ASSUME NEW S \in SUBSET Nat, 0 \in S, \A n \in S : n + 1 \in S
  PROVE  \A n \in Nat : n \in S
<1> SUFFICES ASSUME Nat \ S # {} PROVE FALSE
  OBVIOUS
<1>1. PICK m \in Nat \ S : \A k \in Nat \ S : <<k, m>> \notin OpToRel(<, Nat)
  BY NatLessThanWellFounded, WFMin, Zenon
<1>2. m - 1 \in Nat \ S
  <2>1. m \in Nat /\ m # 0 /\ m = (m - 1) + 1
    OBVIOUS
  <2> QED BY <2>1
<1>3. \A k \in Nat : k < m => <<k, m>> \in OpToRel(<, Nat)
  BY DEF OpToRel
<1>4. m - 1 < m
  OBVIOUS
<1> QED BY <1>1, <1>2, <1>3, <1>4, Zenon

Graph == [Table -> TableState]

EntriesIn(g, t) == g[t].entries
Becomes(g, e) == IF e \in Table /\ g[e].meta = "toBSON" THEN g[e].to ELSE e
Nested(g, v) == v \in Table /\ g[v].meta # "typed"
Closed(g, s, t) ==
  \A i \in 1 .. Len(EntriesIn(g, t)) :
    Nested(g, Becomes(g, EntriesIn(g, t)[i])) => Becomes(g, EntriesIn(g, t)[i]) \in s
BelowIn(g, t) ==
  {u \in Table : \A s \in SUBSET Table :
     Closed(g, s, t) /\ (\A v \in s : Closed(g, s, v)) => u \in s}
Reach(g, t) == {t} \cup BelowIn(g, t)
Fine(g, e) == e # BadKey /\ Becomes(g, e) \notin {Unsupported, Raises}
EncodableIn(g, t) ==
  \A u \in Reach(g, t) :
    /\ g[u].meta = "none" /\ u \notin BelowIn(g, u)
    /\ \A i \in 1 .. Len(EntriesIn(g, u)) : Fine(g, EntriesIn(g, u)[i])

(* The entries of activation i that were encoded: they are fine, and no table
   under way is reachable from what was nested there. *)
Encoded(g, fs, i) ==
  \A j \in 1 .. fs[i].next - 1 :
    LET e == EntriesIn(g, fs[i].table)[j] IN
      /\ Fine(g, e)
      /\ Nested(g, Becomes(g, e)) =>
           /\ EncodableIn(g, Becomes(g, e))
           /\ \A k \in 1 .. i : fs[k].table \notin Reach(g, Becomes(g, e))

(* The stack of activations of appendTable below the root r: a path of the
   graph that never returns to a table. *)
Entered(g, f) ==
  /\ g[f.table].meta = "none" /\ f.top < MaxStack
  /\ f.next \in 1 .. Len(EntriesIn(g, f.table)) + 1
Links(g, f, c) ==
  /\ f.next <= Len(EntriesIn(g, f.table))
  /\ Becomes(g, EntriesIn(g, f.table)[f.next]) = c.table
OnPath(g, r, fs) ==
  /\ \A i \in 1 .. Len(fs) : Entered(g, fs[i])
  /\ \A i \in 1 .. Len(fs) - 1 : Links(g, fs[i], fs[i + 1])
  /\ fs # <<>> => fs[1].table = r
Apart(g, fs) ==
  \A i, j \in 1 .. Len(fs) :
    i < j => fs[i].table # fs[j].table /\ fs[j].table \in BelowIn(g, fs[i].table)
Stack(g, r, fs) ==
  OnPath(g, r, fs) /\ Apart(g, fs) /\ \A i \in 1 .. Len(fs) : Encoded(g, fs, i)

(* The entry the innermost activation has come to, if it is not at the end. *)
AtEntry(g, fs) == fs[Len(fs)].next <= Len(EntriesIn(g, fs[Len(fs)].table))
EntryAt(g, fs) == EntriesIn(g, fs[Len(fs)].table)[fs[Len(fs)].next]

Tables(fs) == {fs[i].table : i \in 1 .. Len(fs)}

(* Where the call stands. *)
Stage ==
  /\ outcome \in {"running", "failing", "ok", "error", "thrown"}
  /\ native \in {"none", "building", "owned", "destroyed", "leaked"}
  /\ native = "none" => frames = <<>> /\ refs = {} /\ outcome \in {"running", "ok", "thrown"}
  /\ native = "building" <=> (outcome = "failing" \/ (outcome = "running" /\ frames # <<>>))
  /\ native = "owned" => outcome = "ok" /\ open = 0
  /\ native = "destroyed" <=> outcome = "error"
  /\ native = "leaked" => outcome = "thrown" /\ \E t \in Table : LengthRaises(t)
  /\ frames # <<>> => outcome \in {"running", "failing"}
  /\ outcome = "ok" => native \in {"none", "owned"}

Counted ==
  /\ open \in Nat
  /\ outcome = "running" =>
       refs = Tables(frames) /\ open = (IF frames = <<>> THEN 0 ELSE Len(frames) - 1)

(* The verdict, once there is one. *)
Judged ==
  LET r == Becomes(heap, Root) IN
  /\ native = "owned" => r \in Table /\ EncodableIn(heap, r)
  /\ outcome = "thrown" /\ r \in Table => ~ EncodableIn(heap, r)
  /\ outcome \in {"failing", "error"} =>
       r \in Table /\ why \in Reason /\ (why # "recursion" => ~ EncodableIn(heap, r))

IInv ==
  /\ heap \in Heap /\ frames \in Seq(Frame)
  /\ refs \in SUBSET Table /\ errs \in Seq(Nat) /\ why \in Reason \cup {""}
  /\ Stack(heap, Becomes(heap, Root), frames)
  /\ Stage /\ Counted /\ Judged

-----------------------------------------------------------------------------
(* Reachability in a graph *)

(* What is nested in a table is below it. *)
LEMMA NestedIsBelow ==
  ASSUME NEW g \in Graph, NEW t \in Table, NEW i \in 1 .. Len(EntriesIn(g, t)),
         Nested(g, Becomes(g, EntriesIn(g, t)[i]))
  PROVE Becomes(g, EntriesIn(g, t)[i]) \in BelowIn(g, t)
BY Zenon DEF Nested, BelowIn, Closed

(* The tables below one are a set that nothing leads out of. *)
LEMMA BelowIsClosed ==
  ASSUME NEW g \in Graph, NEW t \in Table, NEW u \in BelowIn(g, t)
  PROVE u \in Table /\ Closed(g, BelowIn(g, t), u)
<1> DEFINE IsClosed(s) == Closed(g, s, t) /\ \A v \in s : Closed(g, s, v)
<1>1. u \in Table /\ \A s \in SUBSET Table : IsClosed(s) => u \in s
  BY Zenon DEF BelowIn
<1>2. ASSUME NEW i \in 1 .. Len(EntriesIn(g, u)), Nested(g, Becomes(g, EntriesIn(g, u)[i]))
      PROVE Becomes(g, EntriesIn(g, u)[i]) \in BelowIn(g, t)
  <2> DEFINE w == Becomes(g, EntriesIn(g, u)[i])
  <2>1. w \in Table
    BY <1>2, Zenon DEF Nested
  <2>2. ASSUME NEW s \in SUBSET Table, IsClosed(s) PROVE w \in s
    <3>1. u \in s
      BY <1>1, <2>2, Zenon
    <3>2. Closed(g, s, u)
      BY <3>1, <2>2, Zenon
    <3> QED BY <3>2, <1>2, Zenon DEF Closed
  <2> QED BY <2>1, <2>2, Zenon DEF BelowIn
<1> QED BY <1>1, <1>2, Zenon DEF Closed

LEMMA BelowIsTransitive ==
  ASSUME NEW g \in Graph, NEW t \in Table, NEW u \in BelowIn(g, t), NEW v \in BelowIn(g, u)
  PROVE v \in BelowIn(g, t)
<1>1. BelowIn(g, t) \in SUBSET Table
  BY Zenon DEF BelowIn
<1>2. Closed(g, BelowIn(g, t), u) /\ \A w \in BelowIn(g, t) : Closed(g, BelowIn(g, t), w)
  BY BelowIsClosed
<1>3. \A s \in SUBSET Table : Closed(g, s, u) /\ (\A w \in s : Closed(g, s, w)) => v \in s
  BY Zenon DEF BelowIn
<1> QED BY <1>1, <1>2, <1>3, Zenon

(* Whatever is below a table is reached through one of its entries. *)
LEMMA BelowThroughEntry ==
  ASSUME NEW g \in Graph, NEW t \in Table, NEW u \in BelowIn(g, t)
  PROVE \E i \in 1 .. Len(EntriesIn(g, t)) :
          /\ Nested(g, Becomes(g, EntriesIn(g, t)[i]))
          /\ u \in Reach(g, Becomes(g, EntriesIn(g, t)[i]))
<1> DEFINE Child(v) == \E i \in 1 .. Len(EntriesIn(g, t)) :
                        Nested(g, Becomes(g, EntriesIn(g, t)[i])) /\ v = Becomes(g, EntriesIn(g, t)[i])
           s == {w \in Table : \E v \in Table : Child(v) /\ w \in Reach(g, v)}
<1>1. Closed(g, s, t)
  <2> SUFFICES ASSUME NEW i \in 1 .. Len(EntriesIn(g, t)),
                      Nested(g, Becomes(g, EntriesIn(g, t)[i]))
               PROVE Becomes(g, EntriesIn(g, t)[i]) \in s
    BY Zenon DEF Closed
  <2> DEFINE w == Becomes(g, EntriesIn(g, t)[i])
  <2>1. w \in Table /\ Child(w) /\ w \in Reach(g, w)
    BY Zenon DEF Nested, Reach
  <2> QED BY <2>1, Zenon
<1>2. ASSUME NEW w \in s PROVE Closed(g, s, w)
  <2> SUFFICES ASSUME NEW i \in 1 .. Len(EntriesIn(g, w)),
                      Nested(g, Becomes(g, EntriesIn(g, w)[i]))
               PROVE Becomes(g, EntriesIn(g, w)[i]) \in s
    BY Zenon DEF Closed
  <2> DEFINE x == Becomes(g, EntriesIn(g, w)[i])
  <2>1. x \in Table /\ w \in Table
    BY <1>2, Zenon DEF Nested
  <2>2. PICK v \in Table : Child(v) /\ w \in Reach(g, v)
    BY <1>2, Zenon
  <2>3. x \in BelowIn(g, v)
    <3>1. CASE w = v
      BY <3>1, <2>1, NestedIsBelow
    <3>2. CASE w \in BelowIn(g, v)
      <4>1. Closed(g, BelowIn(g, v), w)
        BY <3>2, BelowIsClosed
      <4> QED BY <4>1, Zenon DEF Closed
    <3> QED BY <2>2, <3>1, <3>2, Zenon DEF Reach
  <2>4. x \in Reach(g, v)
    BY <2>3, Zenon DEF Reach
  <2> QED BY <2>1, <2>2, <2>4, Zenon
<1>3. s \in SUBSET Table
  BY Zenon
<1>4. u \in s
  <2> HIDE DEF s
  <2> QED BY <1>1, <1>2, <1>3, Zenon DEF BelowIn
<1>5. PICK v \in Table : Child(v) /\ u \in Reach(g, v)
  BY <1>4, Zenon
<1> QED BY <1>5, Zenon

-----------------------------------------------------------------------------
(* The stack of activations *)

LEMMA EmptyStack == ASSUME NEW g, NEW r PROVE Stack(g, r, <<>>)
BY DEF Stack, OnPath, Apart

LEMMA FrameTyped ==
  ASSUME NEW g \in Graph, NEW fs \in Seq(Frame), NEW i \in 1 .. Len(fs)
  PROVE /\ fs[i] \in Frame /\ fs[i].table \in Table /\ fs[i].next \in Nat /\ fs[i].top \in Nat
        /\ g[fs[i].table] \in TableState
        /\ EntriesIn(g, fs[i].table) \in Seq(Entry)
        /\ Len(EntriesIn(g, fs[i].table)) \in Nat
<1>1. fs[i] \in Frame
  BY ElementOfSeq
<1>2. fs[i].table \in Table /\ fs[i].next \in Nat /\ fs[i].top \in Nat
  BY <1>1 DEF Frame
<1>3. g[fs[i].table] \in TableState
  BY <1>2, Zenon DEF Graph
<1>4. g[fs[i].table].entries \in Seq(Entry)
  BY <1>3 DEF TableState
<1> QED BY <1>1, <1>2, <1>3, <1>4 DEF EntriesIn

(* An activation of a table that is not under way is put on the stack: the
   root, or the table the innermost activation has reached. *)
LEMMA Pushed ==
  ASSUME NEW g \in Graph, NEW r, NEW fs \in Seq(Frame), Stack(g, r, fs),
         NEW t \in Table, NEW top \in Nat, g[t].meta = "none", top < MaxStack,
         t \notin Tables(fs),
         fs = <<>> => t = r,
         fs # <<>> => AtEntry(g, fs) /\ Becomes(g, EntryAt(g, fs)) = t
  PROVE Stack(g, r, Append(fs, [table |-> t, next |-> 1, top |-> top]))
<1> USE DEF AtEntry, EntryAt
<1> DEFINE f == [table |-> t, next |-> 1, top |-> top]
           n == Len(fs)
           gs == Append(fs, f)
<1>1. /\ n \in Nat /\ Len(gs) = n + 1 /\ gs[n + 1] = f /\ gs # <<>>
      /\ \A i \in 1 .. n : gs[i] = fs[i]
      /\ (fs # <<>>) = (n > 0)
  <2>1. f \in Frame
    BY DEF Frame
  <2>2. n \in Nat /\ (fs # <<>>) = (n > 0)
    BY EmptySeq
  <2>3. gs # <<>> /\ Len(gs) = n + 1 /\ gs[n + 1] = f /\ \A i \in 1 .. n : gs[i] = fs[i]
    BY <2>1, AppendProperties
  <2> QED BY <2>2, <2>3
<1>2. f.table = t /\ f.next = 1 /\ f.top = top
  OBVIOUS
<1>3. g[t] \in TableState /\ EntriesIn(g, t) \in Seq(Entry)
  <2>1. g[t] \in TableState
    BY Zenon DEF Graph
  <2> QED BY <2>1 DEF TableState, EntriesIn
<1>4. Len(EntriesIn(g, t)) \in Nat
  BY <1>3
<1>5. OnPath(g, r, fs) /\ Apart(g, fs) /\ \A i \in 1 .. n : Encoded(g, fs, i)
  BY DEF Stack
<1> HIDE DEF f, n, gs
<1>6. Entered(g, f)
  BY <1>2, <1>4 DEF Entered
<1>7. \A i \in 1 .. n + 1 : Entered(g, gs[i])
  <2> TAKE i \in 1 .. n + 1
  <2>1. CASE i = n + 1
    BY <2>1, <1>1, <1>6
  <2>2. CASE i \in 1 .. n
    BY <2>2, <1>1, <1>5 DEF OnPath, n
  <2> QED BY <2>1, <2>2, <1>1
<1>8. \A i \in 1 .. n : Links(g, gs[i], gs[i + 1])
  <2> TAKE i \in 1 .. n
  <2>1. CASE i = n
    <3>1. fs # <<>>
      BY <2>1, <1>1
    <3> QED BY <3>1, <2>1, <1>1, <1>2 DEF Links, n
  <2>2. CASE i \in 1 .. n - 1
    <3>1. i + 1 \in 1 .. n /\ i \in 1 .. n
      BY <2>2, <1>1
    <3>2. gs[i] = fs[i] /\ gs[i + 1] = fs[i + 1]
      BY <3>1, <1>1
    <3> QED BY <3>2, <2>2, <1>5 DEF OnPath, n
  <2> QED BY <2>1, <2>2, <1>1
<1>9. gs[1].table = r
  BY <1>1, <1>2, <1>5 DEF OnPath
<1>10. OnPath(g, r, gs)
  BY <1>1, <1>7, <1>8, <1>9 DEF OnPath
<1>11. Apart(g, gs)
  <2> SUFFICES ASSUME NEW i \in 1 .. n + 1, NEW j \in 1 .. n + 1, i < j
               PROVE gs[i].table # gs[j].table /\ gs[j].table \in BelowIn(g, gs[i].table)
    BY <1>1 DEF Apart
  <2>1. CASE j \in 1 .. n
    <3>1. i \in 1 .. n
      BY <2>1, <1>1
    <3> QED BY <3>1, <2>1, <1>1, <1>5 DEF Apart, n
  <2>2. CASE j = n + 1
    <3>1. i \in 1 .. n /\ n \in 1 .. n /\ fs # <<>> /\ gs[i] = fs[i] /\ gs[j].table = t
      BY <2>2, <1>1, <1>2
    <3>2. fs[i].table # t
      BY <3>1 DEF Tables, n
    <3>3. t \in BelowIn(g, fs[n].table)
      <4>1. /\ fs[n].table \in Table
            /\ fs[n].next \in 1 .. Len(EntriesIn(g, fs[n].table))
        BY <3>1, <1>5, FrameTyped, SMTT(40) DEF OnPath, Entered, n
      <4>2. Nested(g, Becomes(g, EntriesIn(g, fs[n].table)[fs[n].next]))
        BY <3>1 DEF Nested, n
      <4> QED BY <4>1, <4>2, <3>1, NestedIsBelow DEF n
    <3>4. CASE i = n
      BY <3>1, <3>2, <3>3, <3>4
    <3>5. CASE i < n
      <4>1. fs[n].table \in BelowIn(g, fs[i].table) /\ fs[i].table \in Table
        BY <3>1, <3>5, <1>5, FrameTyped DEF Apart, n
      <4> QED BY <4>1, <3>1, <3>2, <3>3, BelowIsTransitive
    <3> QED BY <3>1, <3>4, <3>5, <1>1
  <2> QED BY <2>1, <2>2, <1>1
<1>12. \A i \in 1 .. n + 1 : Encoded(g, gs, i)
  <2> TAKE i \in 1 .. n + 1
  <2>1. CASE i = n + 1
    BY <2>1, <1>1, <1>2 DEF Encoded
  <2>2. CASE i \in 1 .. n
    <3>1. Encoded(g, fs, i) /\ \A k \in 1 .. i : gs[k] = fs[k]
      BY <2>2, <1>1, <1>5
    <3>2. gs[i] = fs[i] /\ i \in Nat
      BY <2>2, <1>1
    <3> QED BY <3>1, <3>2, Zenon DEF Encoded
  <2> QED BY <2>1, <2>2, <1>1
<1> QED BY <1>1, <1>10, <1>11, <1>12 DEF Stack, gs, f

(* The innermost activation goes on with its next entry. *)
LEMMA AdvancedFrames ==
  ASSUME NEW fs \in Seq(Frame), fs # <<>>
  PROVE LET n == Len(fs)
            gs == [fs EXCEPT ![n].next = @ + 1]
        IN /\ n \in Nat \ {0} /\ gs \in Seq(Frame) /\ Len(gs) = n
           /\ \A i \in 1 .. n - 1 : gs[i] = fs[i]
           /\ gs[n].table = fs[n].table /\ gs[n].top = fs[n].top
           /\ gs[n].next = fs[n].next + 1
<1> DEFINE n == Len(fs)
           f == fs[n]
           h == [f EXCEPT !.next = @ + 1]
           gs == [fs EXCEPT ![n].next = @ + 1]
<1>1. n \in Nat \ {0} /\ n \in 1 .. n
  BY EmptySeq
<1>2. f \in Frame
  BY <1>1, ElementOfSeq
<1>3. h \in Frame /\ h.table = f.table /\ h.top = f.top /\ h.next = f.next + 1
  <2> HIDE DEF f
  <2> QED BY <1>2, SMTT(40) DEF Frame, h
<1>4. gs = [fs EXCEPT ![n] = h]
  OBVIOUS
<1> HIDE DEF h, f, gs
<1>5. /\ gs \in Seq(Frame) /\ Len(gs) = n
      /\ \A j \in 1 .. n : gs[j] = IF j = n THEN h ELSE fs[j]
  BY <1>1, <1>3, <1>4, ExceptSeq
<1>6. gs[n] = h /\ \A i \in 1 .. n - 1 : gs[i] = fs[i]
  BY <1>1, <1>5
<1> QED BY <1>1, <1>3, <1>5, <1>6 DEF f, gs

LEMMA Advanced ==
  ASSUME NEW g \in Graph, NEW r, NEW fs \in Seq(Frame), fs # <<>>, Stack(g, r, fs),
         AtEntry(g, fs), Fine(g, EntryAt(g, fs)),
         Nested(g, Becomes(g, EntryAt(g, fs))) =>
           /\ EncodableIn(g, Becomes(g, EntryAt(g, fs)))
           /\ \A k \in 1 .. Len(fs) : fs[k].table \notin Reach(g, Becomes(g, EntryAt(g, fs)))
  PROVE Stack(g, r, [fs EXCEPT ![Len(fs)].next = @ + 1])
<1> USE DEF AtEntry, EntryAt
<1> DEFINE n == Len(fs)
           gs == [fs EXCEPT ![n].next = @ + 1]
           e == EntriesIn(g, fs[n].table)[fs[n].next]
<1>1. /\ n \in Nat \ {0} /\ gs \in Seq(Frame) /\ Len(gs) = n
      /\ \A i \in 1 .. n - 1 : gs[i] = fs[i]
      /\ gs[n].table = fs[n].table /\ gs[n].top = fs[n].top
      /\ gs[n].next = fs[n].next + 1
  BY AdvancedFrames
<1>2. OnPath(g, r, fs) /\ Apart(g, fs) /\ \A i \in 1 .. n : Encoded(g, fs, i)
  BY DEF Stack
<1>3. fs[n].next <= Len(EntriesIn(g, fs[n].table))
  OBVIOUS
<1>4. Fine(g, e) /\ (Nested(g, Becomes(g, e)) =>
        EncodableIn(g, Becomes(g, e)) /\ \A k \in 1 .. n : fs[k].table \notin Reach(g, Becomes(g, e)))
  OBVIOUS
<1>5. n \in 1 .. n /\ fs[n].next \in Nat /\ Len(EntriesIn(g, fs[n].table)) \in Nat
  <2>1. n \in 1 .. n
    BY <1>1
  <2> QED BY <2>1, FrameTyped
<1> HIDE DEF n, gs, e
<1>6. \A i \in 1 .. n : gs[i].table = fs[i].table /\ gs[i].top = fs[i].top
  <2> TAKE i \in 1 .. n
  <2>1. CASE i = n
    BY <2>1, <1>1
  <2>2. CASE i \in 1 .. n - 1
    BY <2>2, <1>1
  <2> QED BY <2>1, <2>2, <1>1
<1>7. \A i \in 1 .. n : Entered(g, gs[i])
  <2> TAKE i \in 1 .. n
  <2>1. CASE i = n
    <3>1. Entered(g, fs[n])
      BY <1>2, <1>5 DEF OnPath, n
    <3> QED BY <3>1, <2>1, <1>1, <1>3, <1>5 DEF Entered
  <2>2. CASE i \in 1 .. n - 1
    BY <2>2, <1>1, <1>2 DEF OnPath, n
  <2> QED BY <2>1, <2>2, <1>1
<1>8. \A i \in 1 .. n - 1 : Links(g, gs[i], gs[i + 1])
  <2> TAKE i \in 1 .. n - 1
  <2>1. Links(g, fs[i], fs[i + 1])
    BY <1>2 DEF OnPath, n
  <2>2. gs[i] = fs[i] /\ i + 1 \in 1 .. n
    BY <1>1
  <2>3. gs[i + 1].table = fs[i + 1].table
    BY <2>2, <1>6
  <2> QED BY <2>1, <2>2, <2>3 DEF Links
<1>9. gs[1].table = r
  BY <1>1, <1>2, <1>6 DEF OnPath, n
<1>10. OnPath(g, r, gs)
  BY <1>1, <1>7, <1>8, <1>9 DEF OnPath
<1>11. Apart(g, gs)
  BY <1>1, <1>2, <1>6 DEF Apart, n
<1>12. \A i \in 1 .. n : Encoded(g, gs, i)
  <2> TAKE i \in 1 .. n
  <2>1. Encoded(g, fs, i) /\ i \in Nat
    BY <1>2, <1>1
  <2>2. \A k \in 1 .. i : gs[k].table = fs[k].table
    BY <1>1, <1>6
  <2>3. CASE i = n
    <3> SUFFICES ASSUME NEW j \in 1 .. gs[n].next - 1
                 PROVE LET d == EntriesIn(g, gs[n].table)[j] IN
                         /\ Fine(g, d)
                         /\ Nested(g, Becomes(g, d)) =>
                              /\ EncodableIn(g, Becomes(g, d))
                              /\ \A k \in 1 .. n : gs[k].table \notin Reach(g, Becomes(g, d))
      BY <2>3, Zenon DEF Encoded
    <3>1. CASE j = fs[n].next
      BY <3>1, <1>1, <1>4, <1>6, Zenon DEF e
    <3>2. CASE j \in 1 .. fs[n].next - 1
      BY <3>2, <2>1, <2>3, <1>1, <1>6, Zenon DEF Encoded
    <3> QED BY <3>1, <3>2, <1>1, <1>5
  <2>4. CASE i # n
    <3>1. gs[i] = fs[i]
      BY <2>4, <1>1
    <3> QED BY <2>1, <2>2, <3>1, Zenon DEF Encoded
  <2> QED BY <2>3, <2>4
<1> QED BY <1>1, <1>10, <1>11, <1>12 DEF Stack, gs, n

(* The innermost activation is gone. *)
LEMMA CallersFrames ==
  ASSUME NEW fs \in Seq(Frame), fs # <<>>
  PROVE LET n == Len(fs)
            gs == SubSeq(fs, 1, n - 1)
        IN /\ n \in Nat \ {0} /\ gs \in Seq(Frame) /\ Len(gs) = n - 1
           /\ \A i \in 1 .. n - 1 : gs[i] = fs[i]
           /\ (gs = <<>>) = (n = 1)
<1> DEFINE n == Len(fs)
           gs == SubSeq(fs, 1, n - 1)
<1>1. n \in Nat \ {0}
  BY EmptySeq
<1>2. \A i \in 1 .. n - 1 : fs[i] \in Frame
  BY <1>1, ElementOfSeq
<1>3. /\ gs \in Seq(Frame)
      /\ Len(gs) = IF 1 <= n - 1 THEN n - 1 - 1 + 1 ELSE 0
      /\ \A i \in 1 .. n - 1 - 1 + 1 : gs[i] = fs[1 + i - 1]
  BY <1>1, <1>2, SubSeqProperties
<1> HIDE DEF gs, n
<1>4. Len(gs) = n - 1
  BY <1>1, <1>3
<1>5. \A i \in 1 .. n - 1 : gs[i] = fs[i]
  BY <1>1, <1>3
<1>6. (gs = <<>>) = (n = 1)
  BY <1>1, <1>3, <1>4, EmptySeq
<1> QED BY <1>1, <1>3, <1>4, <1>5, <1>6 DEF gs, n

LEMMA CallersStay ==
  ASSUME NEW g \in Graph, NEW r, NEW fs \in Seq(Frame), fs # <<>>, Stack(g, r, fs)
  PROVE Stack(g, r, SubSeq(fs, 1, Len(fs) - 1))
<1> DEFINE n == Len(fs)
           gs == SubSeq(fs, 1, n - 1)
<1>1. /\ n \in Nat \ {0} /\ gs \in Seq(Frame) /\ Len(gs) = n - 1
      /\ \A i \in 1 .. n - 1 : gs[i] = fs[i]
      /\ (gs = <<>>) = (n = 1)
  BY CallersFrames
<1>2. OnPath(g, r, fs) /\ Apart(g, fs) /\ \A i \in 1 .. n : Encoded(g, fs, i)
  BY DEF Stack
<1> HIDE DEF n, gs
<1>3. \A i \in 1 .. n - 1 : Entered(g, gs[i])
  BY <1>1, <1>2 DEF OnPath, n
<1>4. \A i \in 1 .. n - 2 : Links(g, gs[i], gs[i + 1])
  <2> TAKE i \in 1 .. n - 2
  <2>1. i \in 1 .. n - 1 /\ i + 1 \in 1 .. n - 1
    BY <1>1
  <2>2. gs[i] = fs[i] /\ gs[i + 1] = fs[i + 1]
    BY <2>1, <1>1
  <2> QED BY <2>1, <2>2, <1>2 DEF OnPath, n
<1>5. gs # <<>> => gs[1].table = r
  BY <1>1, <1>2 DEF OnPath
<1>6. OnPath(g, r, gs)
  <2>1. Len(gs) - 1 = n - 2
    BY <1>1
  <2> QED BY <2>1, <1>1, <1>3, <1>4, <1>5, Zenon DEF OnPath
<1>7. Apart(g, gs)
  BY <1>1, <1>2 DEF Apart, n
<1>8. \A i \in 1 .. n - 1 : Encoded(g, gs, i)
  <2> TAKE i \in 1 .. n - 1
  <2>1. Encoded(g, fs, i) /\ gs[i] = fs[i] /\ \A k \in 1 .. i : gs[k] = fs[k]
    BY <1>1, <1>2
  <2> QED BY <2>1, Zenon DEF Encoded
<1> QED BY <1>1, <1>6, <1>7, <1>8 DEF Stack, gs, n

(* An activation that has come to the end: its table is encodable, and none of
   the tables under way around it is reachable from it. *)
LEMMA Finished ==
  ASSUME NEW g \in Graph, NEW r, NEW fs \in Seq(Frame), fs # <<>>, Stack(g, r, fs),
         ~ AtEntry(g, fs)
  PROVE /\ EncodableIn(g, fs[Len(fs)].table)
        /\ \A k \in 1 .. Len(fs) - 1 : fs[k].table \notin Reach(g, fs[Len(fs)].table)
<1> DEFINE n == Len(fs)
           t == fs[n].table
<1>1. n \in Nat \ {0} /\ n \in 1 .. n
  BY EmptySeq
<1>2. OnPath(g, r, fs) /\ Apart(g, fs) /\ Encoded(g, fs, n)
  BY <1>1 DEF Stack
<1>3. Entered(g, fs[n]) /\ fs[n].next \in Nat /\ Len(EntriesIn(g, t)) \in Nat /\ t \in Table
  BY <1>1, <1>2, FrameTyped DEF OnPath
<1>4. fs[n].next - 1 = Len(EntriesIn(g, t))
  BY <1>3 DEF Entered, AtEntry
<1>5. \A j \in 1 .. Len(EntriesIn(g, t)) :
        LET e == EntriesIn(g, t)[j] IN
          /\ Fine(g, e)
          /\ Nested(g, Becomes(g, e)) =>
               /\ EncodableIn(g, Becomes(g, e))
               /\ \A k \in 1 .. n : fs[k].table \notin Reach(g, Becomes(g, e))
  BY <1>2, <1>4, Zenon DEF Encoded
<1>6. g[t].meta = "none"
  BY <1>3 DEF Entered
<1> HIDE DEF n, t
<1>7. ASSUME NEW u \in BelowIn(g, t)
      PROVE /\ \E v : EncodableIn(g, v) /\ u \in Reach(g, v)
            /\ \A k \in 1 .. n : fs[k].table # u
  <2>1. PICK i \in 1 .. Len(EntriesIn(g, t)) :
          /\ Nested(g, Becomes(g, EntriesIn(g, t)[i]))
          /\ u \in Reach(g, Becomes(g, EntriesIn(g, t)[i]))
    BY <1>3, BelowThroughEntry
  <2> QED BY <2>1, <1>5, Zenon
<1>8. t \notin BelowIn(g, t)
  BY <1>1, <1>7 DEF t
<1>9. EncodableIn(g, t)
  <2> SUFFICES ASSUME NEW u \in Reach(g, t)
               PROVE /\ g[u].meta = "none" /\ u \notin BelowIn(g, u)
                     /\ \A i \in 1 .. Len(EntriesIn(g, u)) : Fine(g, EntriesIn(g, u)[i])
    BY Zenon DEF EncodableIn
  <2>1. CASE u = t
    BY <2>1, <1>5, <1>6, <1>8, Zenon
  <2>2. CASE u \in BelowIn(g, t)
    BY <2>2, <1>7, Zenon DEF EncodableIn
  <2> QED BY <2>1, <2>2, Zenon DEF Reach
<1>10. ASSUME NEW k \in 1 .. n - 1 PROVE fs[k].table \notin Reach(g, t)
  <2>1. k \in 1 .. n /\ k < n
    BY <1>1
  <2>2. fs[k].table # t
    BY <2>1, <1>1, <1>2 DEF Apart, n, t
  <2> QED BY <2>1, <2>2, <1>7, Zenon DEF Reach
<1> QED BY <1>9, <1>10 DEF n, t

(* The tables under way, and the value the innermost one has come to, are
   reachable from the root; that value from all of them. *)
LEMMA UnderWay ==
  ASSUME NEW g \in Graph, NEW r, NEW fs \in Seq(Frame), fs # <<>>, Stack(g, r, fs)
  PROVE r \in Table /\ \A i \in 1 .. Len(fs) : fs[i].table \in Reach(g, r)
<1>1. Len(fs) \in Nat \ {0}
  BY EmptySeq
<1>2. 1 \in 1 .. Len(fs) /\ fs[1].table = r /\ Apart(g, fs)
  BY <1>1 DEF Stack, OnPath
<1>3. r \in Table
  BY <1>2, FrameTyped
<1>4. ASSUME NEW i \in 1 .. Len(fs) PROVE fs[i].table \in Reach(g, r)
  <2>1. CASE i = 1
    BY <2>1, <1>2, Zenon DEF Reach
  <2>2. CASE i # 1
    <3>1. 1 < i
      BY <2>2
    <3>2. fs[i].table \in BelowIn(g, fs[1].table)
      BY <3>1, <1>2 DEF Apart
    <3> QED BY <3>2, <1>2, Zenon DEF Reach
  <2> QED BY <2>1, <2>2
<1> QED BY <1>3, <1>4

LEMMA ReachedBelow ==
  ASSUME NEW g \in Graph, NEW r, NEW fs \in Seq(Frame), fs # <<>>, Stack(g, r, fs),
         AtEntry(g, fs), Nested(g, Becomes(g, EntryAt(g, fs)))
  PROVE /\ Becomes(g, EntryAt(g, fs)) \in BelowIn(g, r)
        /\ \A k \in 1 .. Len(fs) : Becomes(g, EntryAt(g, fs)) \in BelowIn(g, fs[k].table)
<1> USE DEF AtEntry, EntryAt
<1> DEFINE n == Len(fs)
           v == Becomes(g, EntriesIn(g, fs[n].table)[fs[n].next])
<1>1. n \in Nat \ {0} /\ n \in 1 .. n /\ 1 \in 1 .. n
  BY EmptySeq
<1>2. /\ fs[1].table = r /\ Apart(g, fs) /\ Entered(g, fs[n])
      /\ fs[n].table \in Table /\ Len(EntriesIn(g, fs[n].table)) \in Nat
  BY <1>1, FrameTyped DEF Stack, OnPath
<1>3. fs[n].next \in 1 .. Len(EntriesIn(g, fs[n].table))
  BY <1>2 DEF Entered
<1>4. v \in BelowIn(g, fs[n].table)
  BY <1>2, <1>3, NestedIsBelow
<1> HIDE DEF v, n
<1>5. ASSUME NEW k \in 1 .. n PROVE v \in BelowIn(g, fs[k].table)
  <2>1. CASE k = n
    BY <2>1, <1>4
  <2>2. CASE k # n
    <3>1. k < n
      BY <2>2, <1>1
    <3>2. fs[n].table \in BelowIn(g, fs[k].table) /\ fs[k].table \in Table
      BY <3>1, <1>1, <1>2, FrameTyped DEF Apart, n
    <3> QED BY <3>2, <1>4, BelowIsTransitive
  <2> QED BY <2>1, <2>2
<1> QED BY <1>1, <1>2, <1>5 DEF n, v

-----------------------------------------------------------------------------
(* The steps of the encoder *)

LEMMA HeapIsGraph == ASSUME heap \in Heap PROVE heap \in Graph
BY EncodeAssumption, Zenon DEF Graph

LEMMA RootIsTable == Root \in Table
BY EncodeAssumption DEF Root, Table

(* The operators of BsonEncode are those above, of the graph there is. *)
LEMMA SameTransformation == ASSUME NEW v PROVE Transformed(v) = Becomes(heap, v)
BY Zenon DEF Transformed, Becomes, Has

LEMMA SameBelow == ASSUME NEW t PROVE Below(t) = BelowIn(heap, t)
<1>1. ASSUME NEW v, NEW s \in SUBSET Table PROVE (Successors(v) \subseteq s) <=> Closed(heap, s, v)
  <2>1. ASSUME Successors(v) \subseteq s PROVE Closed(heap, s, v)
    <3> SUFFICES ASSUME NEW i \in 1 .. Len(EntriesIn(heap, v)),
                        Nested(heap, Becomes(heap, EntriesIn(heap, v)[i]))
                 PROVE Becomes(heap, EntriesIn(heap, v)[i]) \in s
      BY Zenon DEF Closed
    <3>1. Transformed(Entries(v)[i]) \in Successors(v)
      BY SameTransformation, Zenon DEF Successors, Nested, Has, Entries, EntriesIn
    <3>2. Transformed(Entries(v)[i]) = Becomes(heap, EntriesIn(heap, v)[i])
      BY SameTransformation, Zenon DEF Entries, EntriesIn
    <3> QED BY <2>1, <3>1, <3>2, Zenon
  <2>2. ASSUME Closed(heap, s, v), NEW w \in Successors(v) PROVE w \in s
    <3>1. PICK i \in 1 .. Len(Entries(v)) : w = Transformed(Entries(v)[i])
      BY Zenon DEF Successors
    <3>2. w = Becomes(heap, EntriesIn(heap, v)[i]) /\ i \in 1 .. Len(EntriesIn(heap, v))
      BY <3>1, SameTransformation, Zenon DEF Entries, EntriesIn
    <3>3. Nested(heap, w)
      BY Zenon DEF Successors, Nested, Has
    <3> QED BY <2>2, <3>2, <3>3, Zenon DEF Closed
  <2> QED BY <2>1, <2>2, Zenon
<1>2. \A s \in SUBSET Table : \A v \in s : (Successors(v) \subseteq s) <=> Closed(heap, s, v)
  BY <1>1, Zenon
<1>3. \A s \in SUBSET Table : (Successors(t) \subseteq s) <=> Closed(heap, s, t)
  BY <1>1, Zenon
<1> QED BY <1>2, <1>3, Zenon DEF Below, BelowIn

LEMMA SameEncodable == ASSUME NEW t PROVE Encodable(t) <=> EncodableIn(heap, t)
<1>1. \A u : Below(u) = BelowIn(heap, u)
  BY SameBelow, Zenon
<1>2. \A e : (e # BadKey /\ Transformed(e) \notin {Unsupported, Raises}) <=> Fine(heap, e)
  BY SameTransformation, Zenon DEF Fine
<1>3. ASSUME NEW u
      PROVE (\A i \in 1 .. Len(Entries(u)) :
               LET e == Entries(u)[i] IN
                 e # BadKey /\ Transformed(e) \notin {Unsupported, Raises})
            <=> (\A i \in 1 .. Len(EntriesIn(heap, u)) : Fine(heap, EntriesIn(heap, u)[i]))
  BY <1>2, Zenon DEF Entries, EntriesIn
<1>4. {t} \cup Below(t) = Reach(heap, t)
  BY <1>1, Zenon DEF Reach
<1> QED BY <1>1, <1>3, <1>4, Zenon DEF Encodable, EncodableIn

LEMMA Spoilt ==
  ASSUME NEW g, NEW r, NEW u \in Reach(g, r),
         \/ g[u].meta # "none" \/ u \in BelowIn(g, u)
         \/ \E i \in 1 .. Len(EntriesIn(g, u)) : ~ Fine(g, EntriesIn(g, u)[i])
  PROVE ~ EncodableIn(g, r)
BY Zenon DEF EncodableIn

LEMMA TablesGrow ==
  ASSUME NEW fs \in Seq(Frame), NEW f \in Frame
  PROVE Tables(Append(fs, f)) = Tables(fs) \cup {f.table}
<1> DEFINE n == Len(fs)
           gs == Append(fs, f)
<1>1. n \in Nat /\ Len(gs) = n + 1 /\ gs[n + 1] = f /\ \A i \in 1 .. n : gs[i] = fs[i]
  BY AppendProperties
<1> HIDE DEF n, gs
<1>2. \A i \in 1 .. n + 1 : i \in 1 .. n \/ i = n + 1
  BY <1>1
<1>3. n + 1 \in 1 .. n + 1 /\ \A i \in 1 .. n : i \in 1 .. n + 1
  BY <1>1
<1>4. Tables(gs) = Tables(fs) \cup {f.table}
  BY <1>1, <1>2, <1>3 DEF Tables, n
<1> QED BY <1>4 DEF gs

LEMMA TablesShrink ==
  ASSUME NEW g, NEW fs \in Seq(Frame), fs # <<>>, Apart(g, fs)
  PROVE Tables(SubSeq(fs, 1, Len(fs) - 1)) = Tables(fs) \ {fs[Len(fs)].table}
<1> DEFINE n == Len(fs)
           gs == SubSeq(fs, 1, n - 1)
<1>1. n \in Nat \ {0} /\ Len(gs) = n - 1 /\ \A i \in 1 .. n - 1 : gs[i] = fs[i]
  BY CallersFrames
<1> HIDE DEF gs
<1>2. \A i \in 1 .. n : i \in 1 .. n - 1 \/ i = n
  BY <1>1
<1>3. \A i \in 1 .. n - 1 : i \in 1 .. n /\ fs[i].table # fs[n].table
  BY <1>1 DEF Apart
<1> HIDE DEF n
<1>4. Tables(gs) = Tables(fs) \ {fs[n].table}
  BY <1>1, <1>2, <1>3 DEF Tables, n
<1> QED BY <1>4 DEF gs, n

(* appendTable is entered for the root, or for the table that the innermost
   activation has come to. *)
LEMMA EnterKeeps ==
  ASSUME IInv, outcome = "running", NEW t \in Table, NEW top \in Nat, Enter(t, top),
         frames = <<>> => t = Becomes(heap, Root) /\ UNCHANGED open,
         frames # <<>> => /\ AtEntry(heap, frames) /\ t = Becomes(heap, EntryAt(heap, frames))
                          /\ Nested(heap, t) /\ open' = open + 1
  PROVE IInv'
<1> DEFINE r == Becomes(heap, Root)
           f == [table |-> t, next |-> 1, top |-> top]
<1>1. /\ heap \in Heap /\ frames \in Seq(Frame) /\ refs \in SUBSET Table
      /\ errs \in Seq(Nat) /\ why \in Reason \cup {""}
      /\ Stack(heap, r, frames) /\ open \in Nat
      /\ refs = Tables(frames) /\ open = IF frames = <<>> THEN 0 ELSE Len(frames) - 1
  BY DEF IInv, Counted
<1>2. heap \in Graph
  BY <1>1, HeapIsGraph
<1>3. native' = "building" /\ heap' = heap /\ errs' = errs
  BY DEF Enter
<1>4. Becomes(heap, Root)' = r
  BY <1>3
<1>5. r \in Table
  BY <1>1, <1>2, UnderWay
<1>6. Len(frames) \in Nat /\ (frames = <<>> => Len(frames) = 0 /\ refs = {})
  <2>1. Len(frames) \in Nat
    BY <1>1, LenProperties, Zenon
  <2>2. ASSUME frames = <<>> PROVE Len(frames) = 0 /\ 1 .. Len(frames) = {}
    BY <2>2
  <2>3. ASSUME frames = <<>> PROVE refs = {}
    BY <2>2, <2>3, <1>1, Zenon DEF Tables
  <2> QED BY <2>1, <2>2, <2>3
<1>7. open' \in Nat /\ open' = Len(frames)
  <2>1. CASE frames = <<>>
    BY <2>1, <1>1, <1>6
  <2>2. CASE frames # <<>>
    <3>1. open' = open + 1 /\ open = Len(frames) - 1
      BY <2>2, <1>1, Zenon
    <3> QED BY <3>1, <1>6
  <2> QED BY <2>1, <2>2
<1>8. CASE Refusal(t, top) = ""
  <2>1. top < MaxStack /\ heap[t].meta = "none" /\ t \notin refs
    BY <1>8, EncodeAssumption DEF Refusal
  <2>2. refs' = refs \cup {t} /\ frames' = Append(frames, f) /\ why' = why /\ outcome' = outcome
    BY <1>8, Zenon DEF Enter
  <2>3. f \in Frame /\ f.table = t
    BY DEF Frame
  <2> HIDE DEF f
  <2>4. frames' \in Seq(Frame) /\ frames' # <<>> /\ Len(frames') = Len(frames) + 1
    BY <1>1, <2>2, <2>3, AppendProperties, ZenonT(60)
  <2>5. Stack(heap, r, frames')
    <3>1. Stack(heap, r, Append(frames, f))
      BY <1>1, <1>2, <2>1, Pushed DEF f
    <3> QED BY <3>1, <2>2
  <2>6. refs' = Tables(frames')
    BY <1>1, <2>2, <2>3, TablesGrow
  <2>7. open' \in Nat /\ open' = Len(frames') - 1
    BY <1>6, <1>7, <2>4
  <2>8. Stage'
    BY <1>3, <2>2, <2>4 DEF Stage
  <2>9. Counted'
    BY <2>4, <2>6, <2>7 DEF Counted
  <2>10. Judged'
    BY <1>3, <2>2 DEF Judged
  <2> QED BY <1>1, <1>3, <1>4, <2>2, <2>4, <2>5, <2>8, <2>9, <2>10 DEF IInv
<1>9. CASE Refusal(t, top) # ""
  <2>1. /\ why' = Refusal(t, top) /\ outcome' = "failing"
        /\ refs' = refs /\ frames' = frames
    BY <1>9, Zenon DEF Enter
  <2>2. why' \in Reason
    BY <1>9, <2>1, Zenon DEF Refusal, Reason
  <2>3. t \in Reach(heap, r) /\ (t \in refs => t \in BelowIn(heap, t))
    <3>1. CASE frames = <<>>
      BY <3>1, <1>6, Zenon DEF Reach
    <3>2. CASE frames # <<>>
      <4>1. t \in BelowIn(heap, r) /\ \A k \in 1 .. Len(frames) : t \in BelowIn(heap, frames[k].table)
        BY <3>2, <1>1, <1>2, ReachedBelow
      <4> QED BY <4>1, <1>1, Zenon DEF Reach, Tables
    <3> QED BY <3>1, <3>2
  <2>4. why' # "recursion" => heap[t].meta # "none" \/ t \in refs
    BY <1>9, <2>1, Zenon DEF Refusal
  <2>5. why' # "recursion" => ~ EncodableIn(heap, r)
    BY <2>3, <2>4, Spoilt, Zenon
  <2>6. Stage'
    BY <1>3, <2>1 DEF Stage
  <2>7. Counted'
    BY <1>7, <2>1 DEF Counted
  <2>8. Judged'
    BY <1>3, <1>4, <1>5, <2>1, <2>2, <2>5 DEF Judged
  <2> QED BY <1>1, <1>3, <1>4, <2>1, <2>2, <2>6, <2>7, <2>8 DEF IInv
<1> QED BY <1>8, <1>9

LEMMA NotTables ==
  /\ Plain \notin Table /\ Document \notin Table /\ Unsupported \notin Table
  /\ BadKey \notin Table /\ Raises \notin Table
  /\ Plain # BadKey /\ Document # BadKey /\ Unsupported # BadKey /\ Raises # BadKey
  /\ Plain \notin {Unsupported, Raises} /\ Document \notin {Unsupported, Raises}
  /\ BadKey \notin Result
BY DEF Table, Plain, Document, Unsupported, BadKey, Raises, Result

(* What an activation in its loop has come to. *)
LEMMA AtCurrent ==
  ASSUME IInv, InLoop
  PROVE /\ heap \in Graph /\ frames \in Seq(Frame) /\ frames # <<>> /\ outcome = "running"
        /\ native = "building" /\ Len(frames) \in Nat \ {0}
        /\ Stack(heap, Becomes(heap, Root), frames) /\ AtEntry(heap, frames)
        /\ EntryAt(heap, frames) \in Entry
        /\ CurrentValue = Becomes(heap, EntryAt(heap, frames))
        /\ EntryAt(heap, frames) = BadKey => CurrentValue = BadKey
        /\ frames[Len(frames)].table \in Reach(heap, Becomes(heap, Root))
        /\ \E i \in 1 .. Len(EntriesIn(heap, frames[Len(frames)].table)) :
             EntryAt(heap, frames) = EntriesIn(heap, frames[Len(frames)].table)[i]
        /\ Becomes(heap, Root) \in Table
<1>1. heap \in Graph /\ frames \in Seq(Frame) /\ Stack(heap, Becomes(heap, Root), frames)
  BY HeapIsGraph, Zenon DEF IInv
<1>2. frames # <<>> /\ outcome = "running" /\ native = "building"
  BY Zenon DEF IInv, InLoop, Stage
<1>3. Len(frames) \in Nat \ {0} /\ Len(frames) \in 1 .. Len(frames)
  BY <1>1, <1>2, EmptySeq
<1>4. AtEntry(heap, frames) /\ CurrentValue = Becomes(heap, EntryAt(heap, frames))
  BY SameTransformation, Zenon DEF InLoop, AtEntry, EntryAt, CurrentValue, Current, Depth, Entries, EntriesIn
<1>5. /\ frames[Len(frames)].next \in 1 .. Len(EntriesIn(heap, frames[Len(frames)].table))
      /\ EntriesIn(heap, frames[Len(frames)].table) \in Seq(Entry)
  <2> DEFINE f == frames[Len(frames)]
             es == EntriesIn(heap, f.table)
  <2>1. Entered(heap, f)
    BY <1>1, <1>3 DEF Stack, OnPath
  <2>2. es \in Seq(Entry) /\ Len(es) \in Nat /\ f.next <= Len(es)
    BY <1>1, <1>3, <1>4, FrameTyped DEF AtEntry
  <2>3. f.next \in 1 .. Len(es) + 1
    BY <2>1 DEF Entered
  <2> HIDE DEF f, es
  <2>4. f.next \in 1 .. Len(es)
    BY <2>2, <2>3
  <2> QED BY <2>2, <2>4 DEF f, es
<1>6. EntryAt(heap, frames) \in Entry
  BY <1>5, ElementOfSeq DEF EntryAt
<1>7. EntryAt(heap, frames) = BadKey => CurrentValue = BadKey
  BY <1>4, NotTables, Zenon DEF Becomes
<1>8. /\ frames[Len(frames)].table \in Reach(heap, Becomes(heap, Root))
      /\ Becomes(heap, Root) \in Table
  BY <1>1, <1>2, <1>3, UnderWay
<1> QED BY <1>1, <1>2, <1>3, <1>4, <1>5, <1>6, <1>7, <1>8, Zenon DEF EntryAt

LEMMA ThrowKeeps ==
  ASSUME IInv, outcome = "running", Throw,
         Becomes(heap, Root) \in Table => ~ EncodableIn(heap, Becomes(heap, Root)),
         native = "building" => \E t \in Table : LengthRaises(t)
  PROVE IInv'
<1>1. /\ heap' = heap /\ refs' = refs /\ errs' = errs /\ why' = why /\ open' = open
      /\ outcome' = "thrown" /\ frames' = <<>>
      /\ native' = IF native = "building" THEN "leaked" ELSE native
  BY Zenon DEF Throw
<1>2. frames' \in Seq(Frame) /\ Stack(heap, Becomes(heap, Root), frames')
  BY <1>1, EmptyStack, EmptySeq
<1>3. native = "building" => \E t \in Table : heap[t].meta = "index"
  BY Zenon DEF LengthRaises, Has
<1>4. Stage'
  <2>1. native = "building" => (\E t \in Table : LengthRaises(t))'
    BY <1>1, <1>3, Zenon DEF LengthRaises, Has
  <2>2. native \in {"none", "building"} /\ (native = "none" => refs = {})
    BY Zenon DEF IInv, Stage
  <2>3. native' \in {"none", "leaked"} /\ (native' = "leaked" => native = "building")
    BY <1>1, <2>2
  <2> QED BY <1>1, <2>1, <2>2, <2>3 DEF Stage
<1>5. Counted'
  BY <1>1 DEF Counted, IInv
<1>6. Judged'
  <2>1. native' # "owned"
    BY <1>1 DEF IInv, Stage
  <2> QED BY <1>1, <2>1 DEF Judged
<1> QED BY <1>1, <1>2, <1>4, <1>5, <1>6 DEF IInv

(* A value or a key is refused. *)
LEMMA FailKeeps ==
  ASSUME IInv, InLoop, NEW reason \in Reason, Fail(reason),
         ~ EncodableIn(heap, Becomes(heap, Root)),
         frames' = frames \/ frames' = Callers
  PROVE IInv'
<1>1. /\ heap' = heap /\ refs' = refs /\ errs' = errs /\ native' = native /\ open' = open
      /\ why' = reason /\ outcome' = "failing"
  BY Zenon DEF Fail
<1>2. /\ frames \in Seq(Frame) /\ frames # <<>> /\ native = "building" /\ heap \in Graph
      /\ Stack(heap, Becomes(heap, Root), frames) /\ Becomes(heap, Root) \in Table
  BY AtCurrent
<1>3. frames' \in Seq(Frame) /\ Stack(heap, Becomes(heap, Root), frames')
  BY <1>2, CallersFrames, CallersStay DEF Callers, Depth
<1>4. Stage'
  BY <1>1, <1>2 DEF Stage
<1>5. Counted'
  BY <1>1 DEF Counted, IInv
<1>6. Judged'
  BY <1>1, <1>2 DEF Judged
<1> QED BY <1>1, <1>3, <1>4, <1>5, <1>6 DEF IInv

LEMMA BeginFacts ==
  ASSUME IInv, Begin
  PROVE /\ heap \in Graph /\ frames = <<>> /\ outcome = "running" /\ native = "none"
        /\ Transformed(Root) = Becomes(heap, Root)
BY HeapIsGraph, SameTransformation, Zenon DEF IInv, Begin, Stage

(* A call that has nothing to build. *)
LEMMA DoneKeeps == ASSUME IInv, Begin, Done PROVE IInv'
<1>1. /\ heap' = heap /\ frames' = frames /\ refs' = refs /\ errs' = errs /\ why' = why
      /\ open' = open /\ native' = native /\ outcome' = "ok"
  BY Zenon DEF Done
<1>2. native = "none" /\ frames = <<>>
  BY BeginFacts
<1>3. Stage'
  BY <1>1, <1>2 DEF Stage, IInv
<1>4. Counted'
  BY <1>1 DEF Counted, IInv
<1>5. Judged'
  BY <1>1, <1>2 DEF Judged
<1> QED BY <1>1, <1>3, <1>4, <1>5 DEF IInv

LEMMA RefusedRoot ==
  ASSUME NEW g, NEW r, g[r].meta # "none" PROVE ~ EncodableIn(g, r)
BY Spoilt, Zenon DEF Reach

LEMMA StartTableKeeps ==
  ASSUME IInv, Begin, StartTable(Transformed(Root)) PROVE IInv'
<1> DEFINE r == Becomes(heap, Root)
<1>1. /\ heap \in Graph /\ frames = <<>> /\ outcome = "running" /\ native = "none"
      /\ Transformed(Root) = r
  BY BeginFacts
<1>2. CASE (r = Raises \/ r = Unsupported \/ LengthRaises(r)) /\ Throw
  <2>1. r \in Table => ~ EncodableIn(heap, r)
    BY <1>2, RefusedRoot, NotTables, Zenon DEF LengthRaises, Has
  <2> QED BY <2>1, <1>1, <1>2, ThrowKeeps
<1>3. CASE r = Document /\ Done
  BY <1>3, DoneKeeps
<1>4. CASE r \in Table /\ Enter(r, RootTop) /\ UNCHANGED open
  <2>1. RootTop \in Nat
    BY DEF RootTop
  <2> QED BY <2>1, <1>1, <1>4, EnterKeeps
<1> QED BY <1>1, <1>2, <1>3, <1>4, Zenon DEF StartTable

LEMMA CastBSONKeeps == ASSUME IInv, CastBSON PROVE IInv'
<1>1. Begin /\ outcome = "running" /\ Transformed(Root) = Becomes(heap, Root) /\ native = "none"
  BY BeginFacts, Zenon DEF CastBSON
<1>2. CASE Transformed(Root) = Plain
  <2>1. Throw
    BY <1>2, Zenon DEF CastBSON
  <2> QED BY <2>1, <1>1, <1>2, NotTables, ThrowKeeps
<1>3. CASE Transformed(Root) # Plain
  <2>1. StartTable(Transformed(Root))
    BY <1>3, Zenon DEF CastBSON
  <2> QED BY <2>1, <1>1, StartTableKeeps
<1> QED BY <1>2, <1>3

LEMMA ToBSONValueKeeps == ASSUME IInv, ToBSONValue PROVE IInv'
<1>1. Begin /\ outcome = "running" /\ Transformed(Root) = Becomes(heap, Root) /\ native = "none"
  BY BeginFacts, Zenon DEF ToBSONValue
<1>2. CASE Done
  BY <1>1, <1>2, DoneKeeps
<1>3. CASE Has(Transformed(Root), "mistyped") /\ Throw
  <2>1. ~ EncodableIn(heap, Becomes(heap, Root))
    BY <1>1, <1>3, RefusedRoot, Zenon DEF Has
  <2> QED BY <2>1, <1>1, <1>3, ThrowKeeps
<1>4. CASE StartTable(Transformed(Root))
  BY <1>1, <1>4, StartTableKeeps
<1> QED BY <1>2, <1>3, <1>4, Zenon DEF ToBSONValue

LEMMA AppendScalarKeeps == ASSUME IInv, AppendScalar PROVE IInv'
<1> DEFINE r == Becomes(heap, Root)
           v == Becomes(heap, EntryAt(heap, frames))
<1>1. /\ heap \in Graph /\ frames \in Seq(Frame) /\ frames # <<>> /\ outcome = "running"
      /\ native = "building" /\ Stack(heap, r, frames) /\ AtEntry(heap, frames)
      /\ CurrentValue = v /\ (EntryAt(heap, frames) = BadKey => v = BadKey)
  BY AtCurrent DEF AppendScalar
<1>2. /\ heap' = heap /\ refs' = refs /\ errs' = errs /\ why' = why /\ open' = open
      /\ native' = native /\ outcome' = outcome
      /\ frames' = [frames EXCEPT ![Len(frames)].next = @ + 1]
  BY Zenon DEF AppendScalar, Advance, Depth
<1>3. Fine(heap, EntryAt(heap, frames)) /\ ~ Nested(heap, v)
  <2>1. v \in {Plain, Document} \/ (v \in Table /\ heap[v].meta = "typed")
    BY <1>1, Zenon DEF AppendScalar, Has
  <2>2. ~ Nested(heap, v) /\ v # BadKey /\ v \notin {Unsupported, Raises}
    BY <2>1, NotTables, Zenon DEF Nested
  <2> QED BY <1>1, <2>2, Zenon DEF Fine
<1>4. Stack(heap, r, frames')
  <2>1. Stack(heap, r, [frames EXCEPT ![Len(frames)].next = @ + 1])
    BY <1>1, <1>3, Advanced
  <2> QED BY <2>1, <1>2
<1>5. /\ frames' \in Seq(Frame) /\ Len(frames') = Len(frames) /\ frames' # <<>>
      /\ Tables(frames') = Tables(frames)
  <2>1. /\ Len(frames) \in Nat \ {0} /\ frames' \in Seq(Frame) /\ Len(frames') = Len(frames)
        /\ \A i \in 1 .. Len(frames) - 1 : frames'[i] = frames[i]
        /\ frames'[Len(frames)].table = frames[Len(frames)].table
    BY <1>1, <1>2, AdvancedFrames
  <2>2. \A i \in 1 .. Len(frames) : frames'[i].table = frames[i].table
    BY <2>1
  <2>3. frames' # <<>>
    BY <2>1, EmptySeq
  <2> QED BY <2>1, <2>2, <2>3, Zenon DEF Tables
<1>6. Stage'
  BY <1>1, <1>2, <1>5 DEF Stage
<1>7. Counted'
  <2>1. open \in Nat /\ refs = Tables(frames) /\ open = Len(frames) - 1
    BY <1>1, Zenon DEF IInv, Counted
  <2> QED BY <2>1, <1>2, <1>5, Zenon DEF Counted
<1>8. Judged'
  BY <1>1, <1>2 DEF Judged
<1> QED BY <1>2, <1>4, <1>5, <1>6, <1>7, <1>8 DEF IInv

LEMMA RejectValueKeeps == ASSUME IInv, RejectValue PROVE IInv'
<1> DEFINE r == Becomes(heap, Root)
           v == Becomes(heap, EntryAt(heap, frames))
           t == frames[Len(frames)].table
<1>1. /\ InLoop /\ heap \in Graph /\ frames \in Seq(Frame) /\ frames # <<>>
      /\ Stack(heap, r, frames) /\ AtEntry(heap, frames) /\ CurrentValue = v
      /\ t \in Reach(heap, r)
      /\ \E i \in 1 .. Len(EntriesIn(heap, t)) : EntryAt(heap, frames) = EntriesIn(heap, t)[i]
  BY AtCurrent DEF RejectValue
<1>2. PICK reason \in {"toBSON", "value"} :
        /\ Fail(reason)
        /\ v \in {Raises, Unsupported} \/ (v \in Table /\ heap[v].meta = "mistyped")
  BY <1>1, Zenon DEF RejectValue, Has
<1>3. ~ EncodableIn(heap, r)
  <2>1. CASE v \in {Raises, Unsupported}
    <3>1. ~ Fine(heap, EntryAt(heap, frames))
      BY <2>1, Zenon DEF Fine
    <3> QED BY <3>1, <1>1, Spoilt, Zenon
  <2>2. CASE v \in Table /\ heap[v].meta = "mistyped"
    <3>1. Nested(heap, v)
      BY <2>2 DEF Nested
    <3>2. v \in Reach(heap, r)
      BY <3>1, <1>1, ReachedBelow DEF Reach
    <3> QED BY <2>2, <3>2, Spoilt
  <2> QED BY <1>2, <2>1, <2>2
<1>4. frames' = frames /\ reason \in Reason
  BY Zenon DEF RejectValue, Reason
<1> QED BY <1>1, <1>2, <1>3, <1>4, FailKeeps

LEMMA RejectKeyKeeps == ASSUME IInv, RejectKey PROVE IInv'
<1> DEFINE r == Becomes(heap, Root)
           e == EntryAt(heap, frames)
           t == frames[Len(frames)].table
<1>1. /\ InLoop /\ heap \in Graph /\ CurrentValue = Becomes(heap, e) /\ e \in Entry
      /\ t \in Reach(heap, r) /\ Fail("key") /\ frames' = Callers /\ CurrentValue = BadKey
      /\ \E i \in 1 .. Len(EntriesIn(heap, t)) : e = EntriesIn(heap, t)[i]
  BY AtCurrent DEF RejectKey
<1>2. e = BadKey
  <2>1. CASE e \in Table /\ heap[e].meta = "toBSON"
    <3>1. heap[e] \in TableState
      BY <1>1, <2>1, Zenon DEF Graph
    <3>2. heap[e].to \in Result
      BY <3>1 DEF TableState
    <3> QED BY <3>2, <2>1, <1>1, NotTables, Zenon DEF Becomes
  <2> QED BY <2>1, <1>1, Zenon DEF Becomes
<1>3. ~ EncodableIn(heap, r)
  <2>1. ~ Fine(heap, e)
    BY <1>2, Zenon DEF Fine
  <2> QED BY <2>1, <1>1, Spoilt, Zenon
<1>4. "key" \in Reason
  BY DEF Reason
<1> QED BY <1>1, <1>3, <1>4, FailKeeps

LEMMA NestedRaisesKeeps == ASSUME IInv, NestedRaises PROVE IInv'
<1> DEFINE r == Becomes(heap, Root)
           v == Becomes(heap, EntryAt(heap, frames))
<1>1. /\ heap \in Graph /\ frames \in Seq(Frame) /\ frames # <<>> /\ outcome = "running"
      /\ Stack(heap, r, frames) /\ AtEntry(heap, frames) /\ CurrentValue = v
      /\ LengthRaises(v) /\ Throw
  BY AtCurrent DEF NestedRaises
<1>2. v \in Table /\ heap[v].meta = "index"
  BY <1>1 DEF LengthRaises, Has
<1>3. Nested(heap, v)
  BY <1>2 DEF Nested
<1>4. v \in Reach(heap, r)
  BY <1>1, <1>3, ReachedBelow DEF Reach
<1>5. ~ EncodableIn(heap, r)
  BY <1>2, <1>4, Spoilt
<1> QED BY <1>1, <1>2, <1>5, ThrowKeeps

LEMMA NestKeeps == ASSUME IInv, Nest PROVE IInv'
<1> DEFINE v == Becomes(heap, EntryAt(heap, frames))
<1>1. /\ heap \in Graph /\ frames \in Seq(Frame) /\ frames # <<>> /\ outcome = "running"
      /\ AtEntry(heap, frames) /\ CurrentValue = v
      /\ Len(frames) \in Nat \ {0}
      /\ Enter(v, ChildTop) /\ open' = open + 1
      /\ \E kind \in {"none", "toBSON", "other"} : Has(v, kind)
  BY AtCurrent DEF Nest, Begun
<1>2. v \in Table /\ Nested(heap, v)
  BY <1>1 DEF Has, Nested
<1>3. ChildTop \in Nat
  <2>1. Len(frames) \in 1 .. Len(frames)
    BY <1>1
  <2>2. Current.top \in Nat
    BY <2>1, <1>1, FrameTyped DEF Current, Depth
  <2> QED BY <2>2 DEF ChildTop
<1> QED BY <1>1, <1>2, <1>3, EnterKeeps

(* The caller of an activation that has come to the end goes on. *)
LEMMA CallerAdvances ==
  ASSUME NEW g \in Graph, NEW r, NEW fs \in Seq(Frame), fs # <<>>, Len(fs) # 1,
         Stack(g, r, fs), ~ AtEntry(g, fs)
  PROVE LET cs == SubSeq(fs, 1, Len(fs) - 1)
            gs == [cs EXCEPT ![Len(fs) - 1].next = @ + 1]
        IN /\ gs \in Seq(Frame) /\ gs # <<>> /\ Len(gs) = Len(fs) - 1
           /\ Stack(g, r, gs) /\ Tables(gs) = Tables(fs) \ {fs[Len(fs)].table}
<1> DEFINE n == Len(fs)
           cs == SubSeq(fs, 1, n - 1)
           gs == [cs EXCEPT ![n - 1].next = @ + 1]
           t == fs[n].table
<1>1. /\ n \in Nat \ {0} /\ cs \in Seq(Frame) /\ Len(cs) = n - 1
      /\ \A i \in 1 .. n - 1 : cs[i] = fs[i]
      /\ (cs = <<>>) = (n = 1)
  BY CallersFrames
<1>2. n \in 1 .. n /\ n - 1 \in 1 .. n - 1 /\ cs # <<>> /\ cs[n - 1] = fs[n - 1]
  BY <1>1
<1>3. /\ Stack(g, r, cs)
      /\ EncodableIn(g, t) /\ \A k \in 1 .. n - 1 : fs[k].table \notin Reach(g, t)
  BY CallersStay, Finished
<1>4. t \in Table
  BY <1>2, FrameTyped
<1>5. Links(g, fs[n - 1], fs[n]) /\ Apart(g, fs)
  BY <1>1, <1>2 DEF Stack, OnPath
<1> HIDE DEF cs, t
<1>6. AtEntry(g, cs) /\ Becomes(g, EntryAt(g, cs)) = t
  BY <1>1, <1>2, <1>5 DEF Links, AtEntry, EntryAt, t
<1>7. Fine(g, EntryAt(g, cs))
  <2>1. EntryAt(g, cs) # BadKey
    BY <1>4, <1>6, NotTables, Zenon DEF Becomes
  <2> QED BY <2>1, <1>4, <1>6, NotTables, Zenon DEF Fine
<1>8. \A k \in 1 .. Len(cs) : cs[k].table \notin Reach(g, t)
  BY <1>1, <1>3
<1>9. Stack(g, r, [cs EXCEPT ![Len(cs)].next = @ + 1])
  BY <1>1, <1>2, <1>3, <1>6, <1>7, <1>8, Advanced
<1>10. gs = [cs EXCEPT ![Len(cs)].next = @ + 1]
  BY <1>1
<1>11. /\ gs \in Seq(Frame) /\ Len(gs) = n - 1
       /\ \A i \in 1 .. n - 1 : gs[i].table = cs[i].table
  <2> HIDE DEF gs, n
  <2>1. /\ Len(cs) \in Nat \ {0} /\ gs \in Seq(Frame) /\ Len(gs) = Len(cs)
        /\ \A i \in 1 .. Len(cs) - 1 : gs[i] = cs[i]
        /\ gs[Len(cs)].table = cs[Len(cs)].table
    BY <1>1, <1>2, <1>10, AdvancedFrames
  <2> QED BY <2>1, <1>1
<1>12. gs # <<>>
  BY <1>1, <1>2, <1>11, EmptySeq
<1>13. Tables(gs) = Tables(cs)
  BY <1>1, <1>11, Zenon DEF Tables
<1>14. Tables(cs) = Tables(fs) \ {t}
  BY <1>5, TablesShrink DEF cs, t
<1> QED BY <1>9, <1>10, <1>11, <1>12, <1>13, <1>14 DEF cs, t

LEMMA LeaveKeeps == ASSUME IInv, Leave PROVE IInv'
<1> DEFINE r == Becomes(heap, Root)
           t == frames[Len(frames)].table
<1>1. /\ heap \in Graph /\ frames \in Seq(Frame) /\ frames # <<>> /\ outcome = "running"
      /\ native = "building" /\ Stack(heap, r, frames)
      /\ refs \in SUBSET Table /\ refs = Tables(frames) /\ open = Len(frames) - 1
  BY HeapIsGraph, Zenon DEF IInv, Leave, Stage, Counted
<1>2. Len(frames) \in Nat \ {0} /\ Len(frames) \in 1 .. Len(frames)
  BY <1>1, EmptySeq
<1>3. ~ AtEntry(heap, frames)
  <2>1. frames[Len(frames)].next \in Nat /\ Len(EntriesIn(heap, t)) \in Nat
    BY <1>1, <1>2, FrameTyped
  <2>2. frames[Len(frames)].next > Len(EntriesIn(heap, t))
    BY Zenon DEF Leave, Current, Depth, Entries, EntriesIn
  <2> QED BY <2>1, <2>2 DEF AtEntry
<1>4. heap' = heap /\ errs' = errs /\ why' = why /\ refs' = refs \ {t}
  BY Zenon DEF Leave, Unmarked, Current, Depth
<1>5. CASE Len(frames) = 1
  <2>1. frames' = <<>> /\ native' = "owned" /\ outcome' = "ok" /\ open' = open
    BY <1>5, Zenon DEF Leave, Depth
  <2>2. open = 0
    BY <1>1, <1>5
  <2>3. r \in Table /\ EncodableIn(heap, r)
    <3>1. r = t
      BY <1>1, <1>5 DEF Stack, OnPath
    <3> QED BY <3>1, <1>1, <1>2, <1>3, Finished, FrameTyped
  <2>4. frames' \in Seq(Frame) /\ Stack(heap, r, frames')
    BY <2>1, EmptyStack, EmptySeq
  <2>5. Stage'
    BY <2>1, <2>2 DEF Stage
  <2>6. Counted'
    BY <2>1, <2>2 DEF Counted
  <2>7. Judged'
    BY <2>1, <2>3, <1>4 DEF Judged
  <2> QED BY <1>1, <1>4, <2>4, <2>5, <2>6, <2>7 DEF IInv
<1>6. CASE Len(frames) # 1
  <2>1. /\ frames' = [SubSeq(frames, 1, Len(frames) - 1) EXCEPT ![Len(frames) - 1].next = @ + 1]
        /\ open' = open - 1 /\ native' = native /\ outcome' = outcome
    BY <1>6, Zenon DEF Leave, Callers, Depth
  <2>2. /\ frames' \in Seq(Frame) /\ frames' # <<>> /\ Len(frames') = Len(frames) - 1
        /\ Stack(heap, r, frames') /\ Tables(frames') = Tables(frames) \ {t}
    BY <1>1, <1>3, <1>6, <2>1, CallerAdvances
  <2>3. open' \in Nat /\ open' = Len(frames') - 1
    BY <1>1, <1>2, <1>6, <2>1, <2>2
  <2>4. Stage'
    BY <1>1, <2>1, <2>2 DEF Stage
  <2>5. Counted'
    BY <1>1, <1>4, <2>2, <2>3 DEF Counted
  <2>6. Judged'
    BY <1>1, <2>1 DEF Judged
  <2> QED BY <1>1, <1>4, <2>2, <2>4, <2>5, <2>6 DEF IInv
<1> QED BY <1>5, <1>6

LEMMA UnwindKeeps == ASSUME IInv, Unwind PROVE IInv'
<1>1. /\ heap \in Graph /\ frames \in Seq(Frame) /\ frames # <<>> /\ outcome = "failing"
      /\ native = "building" /\ Stack(heap, Becomes(heap, Root), frames)
      /\ errs \in Seq(Nat)
  BY HeapIsGraph, Zenon DEF IInv, Unwind, Stage
<1>2. /\ heap' = heap /\ refs' = refs /\ why' = why /\ open' = open /\ native' = native
      /\ outcome' = outcome /\ frames' = SubSeq(frames, 1, Len(frames) - 1)
      /\ errs' = <<frames[Len(frames)].next>> \o errs
  BY Zenon DEF Unwind, Callers, Depth, Prefixed, Current
<1>3. frames' \in Seq(Frame) /\ Stack(heap, Becomes(heap, Root), frames')
  BY <1>1, <1>2, CallersFrames, CallersStay
<1>4. errs' \in Seq(Nat)
  <2>1. Len(frames) \in 1 .. Len(frames)
    BY <1>1, EmptySeq
  <2>2. frames[Len(frames)].next \in Nat
    BY <2>1, <1>1, FrameTyped
  <2> QED BY <2>2, <1>1, <1>2
<1>5. Stage'
  BY <1>1, <1>2 DEF Stage
<1>6. Counted' /\ Judged'
  BY <1>1, <1>2 DEF Counted, Judged, IInv
<1> QED BY <1>2, <1>3, <1>4, <1>5, <1>6 DEF IInv

LEMMA ReportKeeps == ASSUME IInv, Report PROVE IInv'
<1>1. /\ heap' = heap /\ frames' = frames /\ refs' = refs /\ errs' = errs /\ why' = why
      /\ open' = open /\ native' = "destroyed" /\ outcome' = "error"
      /\ outcome = "failing" /\ frames = <<>>
  BY Zenon DEF Report, DestroyDocument
<1>2. Stage'
  BY <1>1 DEF Stage
<1>3. Counted' /\ Judged'
  BY <1>1 DEF Counted, Judged, IInv
<1> QED BY <1>1, <1>2, <1>3 DEF IInv

LEMMA InitInvariant == ASSUME Init PROVE IInv
<1>1. frames = <<>> /\ errs = <<>> /\ refs = {} /\ Len(frames) = 0
  BY DEF Init
<1>2. frames \in Seq(Frame) /\ errs \in Seq(Nat)
  BY <1>1, EmptySeq
<1>3. Stack(heap, Becomes(heap, Root), frames)
  BY <1>1, EmptyStack
<1>4. Tables(frames) = {}
  BY <1>1 DEF Tables
<1>5. Stage /\ Judged
  BY DEF Init, Stage, Judged
<1>6. Counted
  <2>1. open = 0 /\ open \in Nat
    BY DEF Init
  <2>2. refs = Tables(frames)
    BY <1>1, <1>4
  <2>3. open = IF frames = <<>> THEN 0 ELSE Len(frames) - 1
    BY <1>1, <2>1
  <2> QED BY <2>1, <2>2, <2>3, Zenon DEF Counted
<1> QED BY <1>1, <1>2, <1>3, <1>5, <1>6 DEF IInv, Init

LEMMA NextKeeps == ASSUME IInv, [Next]_vars PROVE IInv'
<1>1. CASE UNCHANGED vars
  <2>1. /\ heap' = heap /\ frames' = frames /\ refs' = refs /\ errs' = errs /\ why' = why
        /\ open' = open /\ native' = native /\ outcome' = outcome
    BY <1>1, Zenon DEF vars
  <2>2. Stage' /\ Counted' /\ Judged'
    BY <2>1 DEF IInv, Stage, Counted, Judged, LengthRaises, Has
  <2> QED BY <2>1, <2>2 DEF IInv
<1>2. CASE CastBSON \/ ToBSONValue
  BY <1>2, CastBSONKeeps, ToBSONValueKeeps
<1>3. CASE AppendScalar \/ RejectValue \/ RejectKey
  BY <1>3, AppendScalarKeeps, RejectValueKeeps, RejectKeyKeeps
<1>4. CASE NestedRaises \/ Nest \/ Leave
  BY <1>4, NestedRaisesKeeps, NestKeeps, LeaveKeeps
<1>5. CASE Unwind \/ Report
  BY <1>5, UnwindKeeps, ReportKeeps
<1> QED BY <1>1, <1>2, <1>3, <1>4, <1>5, Zenon DEF Next

-----------------------------------------------------------------------------
(* The theorems *)

(* IInv is invariant: the argument of every theorem below. *)
THEOREM Invariance == Spec => []IInv
<1>1. Init => IInv
  BY InitInvariant
<1>2. IInv /\ [Next]_vars => IInv'
  BY NextKeeps
<1> QED BY <1>1, <1>2, PTL DEF Spec

(* The variables keep their types. *)
THEOREM Typing == Spec => []TypeOK
<1>1. IInv => TypeOK
  BY DEF IInv, TypeOK, Stage, Counted
<1> QED BY <1>1, Invariance, PTL

(* The refs table of appendTable holds the tables under way, each entered
   once: RefsArePath, for every graph. *)
THEOREM RefsTrackPath == Spec => []RefsArePath
<1>1. ASSUME IInv PROVE RefsArePath
  <2> SUFFICES ASSUME outcome = "running"
               PROVE /\ refs = Tables(frames)
                     /\ \A i, j \in 1 .. Len(frames) : frames[i].table = frames[j].table => i = j
    BY Zenon DEF RefsArePath, Tables, Depth
  <2>1. refs = Tables(frames) /\ frames \in Seq(Frame) /\ Apart(heap, frames)
    BY <1>1, Zenon DEF IInv, Counted, Stack
  <2>2. ASSUME NEW i \in 1 .. Len(frames), NEW j \in 1 .. Len(frames),
               frames[i].table = frames[j].table
        PROVE i = j
    <3>1. ~ (i < j) /\ ~ (j < i)
      BY <2>1, <2>2 DEF Apart
    <3> QED BY <3>1
  <2> QED BY <2>1, <2>2
<1> QED BY <1>1, Invariance, PTL

(* No activation of appendTable finds the Lua stack at its limit. *)
THEOREM StackIsBounded == Spec => []StackBounded
<1>1. IInv => StackBounded
  BY DEF IInv, Stack, OnPath, Entered, StackBounded, Depth
<1> QED BY <1>1, Invariance, PTL

(* The document is handed out complete, destroyed, or leaked by a metamethod
   that raises an error outside of the protected calls. *)
THEOREM DocumentIsAccounted == Spec => []DocumentAccounted
<1>1. IInv => DocumentAccounted
  BY DEF IInv, Stage, DocumentAccounted
<1> QED BY <1>1, Invariance, PTL

(* castBSON builds a document exactly when the reference definition says that
   the graph can be encoded, or refuses it for its depth. *)
THEOREM BuiltExactly == Spec => []BuiltIffEncodable
<1>1. ASSUME IInv PROVE BuiltIffEncodable
  <2>1. /\ Transformed(Root) = Becomes(heap, Root)
        /\ Encodable(Transformed(Root)) <=> EncodableIn(heap, Becomes(heap, Root))
    BY SameTransformation, SameEncodable, Zenon
  <2>2. Judged
    BY <1>1 DEF IInv
  <2> QED BY <2>1, <2>2, Zenon DEF BuiltIffEncodable, Judged
<1> QED BY <1>1, Invariance, PTL

-----------------------------------------------------------------------------
(* The message of an error *)

AtIn(g, v, key) ==
  IF v \in Table /\ key \in DOMAIN EntriesIn(g, v) THEN Becomes(g, EntriesIn(g, v)[key])
  ELSE BadKey

(* q follows the first n of the keys from r. *)
IsWalk(g, r, keys, n, q) ==
  q = [i \in 0 .. n |-> IF i = 0 THEN r ELSE AtIn(g, q[i - 1], keys[i])]

LEMMA WalkExists == ASSUME NEW g, NEW r, NEW keys, NEW n \in Nat
  PROVE \E q : IsWalk(g, r, keys, n, q)
<1> DEFINE S == {m \in Nat : \E q : IsWalk(g, r, keys, m, q)}
<1>1. 0 \in S
  <2> DEFINE q == [i \in 0 .. 0 |-> r]
  <2>1. q = [i \in 0 .. 0 |-> IF i = 0 THEN r ELSE AtIn(g, q[i - 1], keys[i])]
    OBVIOUS
  <2> QED BY <2>1 DEF IsWalk
<1>2. ASSUME NEW m \in S PROVE m + 1 \in S
  <2>1. m \in Nat /\ m + 1 \in Nat
    OBVIOUS
  <2>2. PICK q : IsWalk(g, r, keys, m, q)
    OBVIOUS
  <2> DEFINE Step(f, i) == IF i = 0 THEN r ELSE AtIn(g, f[i - 1], keys[i])
             p == [i \in 0 .. m + 1 |-> IF i = m + 1 THEN Step(q, i) ELSE q[i]]
  <2>3. q = [i \in 0 .. m |-> Step(q, i)]
    BY <2>2, Zenon DEF IsWalk
  <2>4. ASSUME NEW i \in 0 .. m + 1 PROVE p[i] = Step(p, i)
    <3>1. i # 0 => i - 1 \in 0 .. m + 1 /\ i - 1 # m + 1
      BY <2>1
    <3>2. i # 0 => p[i - 1] = q[i - 1]
      BY <3>1
    <3>3. Step(p, i) = Step(q, i)
      <4> HIDE DEF p
      <4> QED BY <3>2
    <3>4. CASE i = m + 1
      BY <3>3, <3>4
    <3>5. CASE i # m + 1
      <4>1. i \in 0 .. m
        BY <3>5, <2>1
      <4>2. p[i] = q[i]
        BY <3>5
      <4>3. q[i] = Step(q, i)
        <5> HIDE DEF Step, p
        <5> QED BY <2>3, <4>1, Zenon
      <4> QED BY <3>3, <4>2, <4>3, Zenon
    <3> QED BY <3>4, <3>5
  <2>5. p = [i \in 0 .. m + 1 |-> p[i]]
    OBVIOUS
  <2>6. p = [i \in 0 .. m + 1 |-> Step(p, i)]
    <3> HIDE DEF Step, p
    <3> QED BY <2>4, <2>5, Zenon
  <2>7. IsWalk(g, r, keys, m + 1, p)
    <3> HIDE DEF p
    <3> QED BY <2>6, Zenon DEF IsWalk
  <2> QED BY <2>1, <2>7
<1> HIDE DEF S
<1>3. n \in S
  BY <1>1, <1>2, NatSetInduction DEF S
<1> QED BY <1>3 DEF S

LEMMA PathIsWalk == ASSUME errs \in Seq(Nat)
  PROVE IsWalk(heap, Becomes(heap, Root), errs, Len(errs), Path)
<1>1. Len(errs) \in Nat
  OBVIOUS
<1>2. \A v, k : At(v, k) = AtIn(heap, v, k)
  BY SameTransformation, Zenon DEF At, AtIn, Entries, EntriesIn
<1>3. \E p : p = [i \in 0 .. Len(errs) |-> IF i = 0 THEN Transformed(Root) ELSE At(p[i - 1], errs[i])]
  <2>1. PICK p : IsWalk(heap, Becomes(heap, Root), errs, Len(errs), p)
    BY <1>1, WalkExists
  <2>2. p = [i \in 0 .. Len(errs) |-> IF i = 0 THEN Transformed(Root) ELSE At(p[i - 1], errs[i])]
    BY <2>1, <1>2, SameTransformation DEF IsWalk
  <2> QED BY <2>2
<1>4. Path = [i \in 0 .. Len(errs) |-> IF i = 0 THEN Transformed(Root) ELSE At(Path[i - 1], errs[i])]
  BY <1>3, Zenon DEF Path
<1> QED BY <1>2, <1>4, SameTransformation, Zenon DEF IsWalk

(* The keys from the root to the value at fault: those of the activations that
   are still there, then those in front of the message. *)
Keys(fs, er) ==
  [i \in 1 .. Len(fs) + Len(er) |-> IF i <= Len(fs) THEN fs[i].next ELSE er[i - Len(fs)]]

ArraysIn(g, q, n) == {i \in 0 .. n - 1 : q[i] \in Table /\ g[q[i]].array}
TopIn(g, q, n) == RootTop + 2 * n - Cardinality(ArraysIn(g, q, n))

(* What each message says of the value at the end of a path. *)
Cause(g, w, q, n) ==
  /\ w \in Reason
  /\ w = "circular" => \E i \in 0 .. n - 1 : q[i] = q[n]
  /\ w = "recursion" => TopIn(g, q, n) >= MaxStack
  /\ w = "metatable" => q[n] \in Table /\ g[q[n]].meta # "none"
  /\ w = "value" => q[n] = Unsupported \/ (q[n] \in Table /\ g[q[n]].meta = "mistyped")
  /\ w = "toBSON" => q[n] = Raises
  /\ w = "key" => q[n] \in Table
                  /\ \E i \in DOMAIN EntriesIn(g, q[n]) : EntriesIn(g, q[n])[i] = BadKey

Blame(g, r, w, keys, n) == \A q : IsWalk(g, r, keys, n, q) => Cause(g, w, q, n)

(* The stack tops: a nested activation is above the value, and above the key
   that lua_next keeps there unless the table is traversed as an array. *)
Tops(g, fs) ==
  \A i \in 1 .. Len(fs) :
    fs[i].top = IF i = 1 THEN RootTop
                ELSE fs[i - 1].top + (IF g[fs[i - 1].table].array THEN 1 ELSE 2)

(* The inductive invariant of the messages, beside IInv. *)
Messages ==
  /\ outcome = "running" => errs = <<>>
  /\ Tops(heap, frames)
  /\ outcome \in {"failing", "error"} =>
       Blame(heap, Becomes(heap, Root), why, Keys(frames, errs), Len(frames) + Len(errs))

(* A path along the keys of the activations goes through their tables. *)
LEMMA WalkAlong ==
  ASSUME NEW g \in Graph, NEW r, NEW fs \in Seq(Frame), Stack(g, r, fs),
         NEW keys, NEW n \in Nat, NEW q, IsWalk(g, r, keys, n, q),
         NEW d \in 1 .. Len(fs), d - 1 <= n, \A i \in 1 .. d - 1 : keys[i] = fs[i].next
  PROVE \A i \in 0 .. d - 1 : q[i] = fs[i + 1].table
<1> DEFINE S == {i \in Nat : i <= d - 1 => q[i] = fs[i + 1].table}
<1>1. Len(fs) \in Nat /\ d \in Nat \ {0} /\ fs # <<>> /\ OnPath(g, r, fs)
  BY EmptySeq DEF Stack
<1>2. \A i \in 0 .. n : q[i] = IF i = 0 THEN r ELSE AtIn(g, q[i - 1], keys[i])
  BY Zenon DEF IsWalk
<1>3. 0 \in S
  <2>1. q[0] = r
    BY <1>2
  <2>2. fs[0 + 1].table = r
    BY <1>1 DEF OnPath
  <2> QED BY <2>1, <2>2
<1>4. ASSUME NEW i \in S PROVE i + 1 \in S
  <2> SUFFICES ASSUME i + 1 <= d - 1 PROVE q[i + 1] = fs[i + 2].table
    OBVIOUS
  <2>1. /\ i \in Nat /\ i + 1 \in 1 .. d - 1 /\ i + 1 \in 0 .. n /\ i + 1 # 0 /\ i + 1 - 1 = i
        /\ i + 1 \in 1 .. Len(fs) - 1 /\ i + 1 \in 1 .. Len(fs) /\ i + 1 + 1 = i + 2
    BY <1>1
  <2>2. q[i] = fs[i + 1].table
    BY <2>1
  <2>3. q[i + 1] = AtIn(g, q[i], keys[i + 1])
    BY <1>2, <2>1
  <2>4. keys[i + 1] = fs[i + 1].next
    BY <2>1
  <2>5. Links(g, fs[i + 1], fs[i + 2]) /\ Entered(g, fs[i + 1])
    BY <1>1, <2>1 DEF OnPath
  <2>6. /\ fs[i + 1].table \in Table
        /\ fs[i + 1].next \in DOMAIN EntriesIn(g, fs[i + 1].table)
    <3> DEFINE f == fs[i + 1]
               es == EntriesIn(g, f.table)
    <3>1. f.table \in Table /\ es \in Seq(Entry) /\ Len(es) \in Nat
      BY <2>1, FrameTyped
    <3>2. f.next <= Len(es) /\ f.next \in 1 .. Len(es) + 1
      BY <2>5 DEF Links, Entered
    <3> HIDE DEF f, es
    <3>3. f.next \in 1 .. Len(es) /\ DOMAIN es = 1 .. Len(es)
      BY <3>1, <3>2
    <3> QED BY <3>1, <3>3 DEF f, es
  <2> QED BY <2>2, <2>3, <2>4, <2>5, <2>6, Zenon DEF AtIn, Links
<1>5. S \in SUBSET Nat
  OBVIOUS
<1> HIDE DEF S
<1>6. \A i \in Nat : i \in S
  BY <1>3, <1>4, <1>5, NatSetInduction
<1> QED BY <1>6, <1>1 DEF S

(* ... and on to the value the innermost one has come to. *)
LEMMA WalkOn ==
  ASSUME NEW g \in Graph, NEW r, NEW fs \in Seq(Frame), fs # <<>>, Stack(g, r, fs),
         AtEntry(g, fs), NEW keys, NEW q, IsWalk(g, r, keys, Len(fs), q),
         \A i \in 1 .. Len(fs) : keys[i] = fs[i].next
  PROVE /\ \A i \in 0 .. Len(fs) - 1 : q[i] = fs[i + 1].table
        /\ q[Len(fs)] = Becomes(g, EntryAt(g, fs))
<1> DEFINE n == Len(fs)
<1>1. n \in Nat \ {0} /\ n \in 1 .. n /\ n - 1 <= n /\ n - 1 \in 0 .. n - 1 /\ n - 1 + 1 = n
      /\ n \in 0 .. n /\ n # 0 /\ \A i \in 1 .. n - 1 : i \in 1 .. n
  BY EmptySeq
<1>2. \A i \in 0 .. n - 1 : q[i] = fs[i + 1].table
  BY <1>1, WalkAlong, SMTT(40)
<1>3. q[n - 1] = fs[n].table
  BY <1>1, <1>2
<1>4. q[n] = AtIn(g, q[n - 1], keys[n])
  BY <1>1, Zenon DEF IsWalk
<1>5. fs[n].table \in Table /\ fs[n].next \in DOMAIN EntriesIn(g, fs[n].table)
  <2> DEFINE f == fs[n]
             es == EntriesIn(g, f.table)
  <2>1. f.table \in Table /\ es \in Seq(Entry) /\ Len(es) \in Nat
    BY <1>1, FrameTyped
  <2>2. Entered(g, f) /\ f.next <= Len(es)
    BY <1>1 DEF Stack, OnPath, AtEntry
  <2>3. f.next \in 1 .. Len(es) + 1
    BY <2>2 DEF Entered
  <2> HIDE DEF f, es
  <2>4. f.next \in 1 .. Len(es) /\ DOMAIN es = 1 .. Len(es)
    BY <2>1, <2>2, <2>3
  <2> QED BY <2>1, <2>4 DEF f, es
<1>6. keys[n] = fs[n].next
  BY <1>1
<1> QED BY <1>2, <1>3, <1>4, <1>5, <1>6, Zenon DEF AtIn, EntryAt

(* The stack tops count the arrays on the path. *)
LEMMA OneMoreTable ==
  ASSUME NEW g \in Graph, NEW q, NEW i \in Nat, q[i] \in Table
  PROVE /\ TopIn(g, q, i + 1) = TopIn(g, q, i) + (IF g[q[i]].array THEN 1 ELSE 2)
        /\ TopIn(g, q, i) \in Int
<1> DEFINE A == ArraysIn(g, q, i)
           B == ArraysIn(g, q, i + 1)
<1>1. IsFiniteSet(A) /\ Cardinality(A) \in Nat
  <2>1. IsFiniteSet(0 .. i - 1)
    BY FS_Interval
  <2>2. A \in SUBSET (0 .. i - 1)
    BY DEF ArraysIn
  <2> QED BY <2>1, <2>2, FS_Subset, FS_CardinalityType
<1>2. i \notin A
  BY DEF ArraysIn
<1>3. \A j : j \in 0 .. i + 1 - 1 <=> j \in 0 .. i - 1 \/ j = i
  OBVIOUS
<1>4. CASE g[q[i]].array
  <2>1. B = A \cup {i}
    <3>1. \A j : j \in B <=> j \in A \cup {i}
      BY <1>3, <1>4 DEF ArraysIn
    <3> QED BY <3>1
  <2>2. Cardinality(B) = Cardinality(A) + 1
    BY <1>1, <1>2, <2>1, FS_AddElement
  <2> QED BY <1>1, <1>4, <2>2 DEF TopIn, RootTop
<1>5. CASE ~ g[q[i]].array
  <2>1. B = A
    <3>1. \A j : j \in B <=> j \in A
      BY <1>3, <1>5 DEF ArraysIn
    <3> QED BY <3>1
  <2> QED BY <1>1, <1>5, <2>1 DEF TopIn, RootTop
<1> QED BY <1>4, <1>5

LEMMA TopsAlong ==
  ASSUME NEW g \in Graph, NEW fs \in Seq(Frame), Tops(g, fs), NEW q,
         \A i \in 0 .. Len(fs) - 1 : q[i] = fs[i + 1].table
  PROVE \A i \in 0 .. Len(fs) - 1 : fs[i + 1].top = TopIn(g, q, i)
<1> DEFINE S == {i \in Nat : i <= Len(fs) - 1 => fs[i + 1].top = TopIn(g, q, i)}
<1>1. Len(fs) \in Nat
  OBVIOUS
<1>2. 0 \in S
  <2>1. ArraysIn(g, q, 0) = {}
    BY DEF ArraysIn
  <2>2. TopIn(g, q, 0) = RootTop
    <3>1. Cardinality(ArraysIn(g, q, 0)) = 0
      BY <2>1, FS_EmptySet
    <3> QED BY <3>1 DEF TopIn, RootTop
  <2>3. 0 <= Len(fs) - 1 => fs[0 + 1].top = RootTop
    BY <1>1 DEF Tops
  <2> QED BY <2>2, <2>3
<1>3. ASSUME NEW i \in S PROVE i + 1 \in S
  <2> SUFFICES ASSUME i + 1 <= Len(fs) - 1 PROVE fs[i + 2].top = TopIn(g, q, i + 1)
    OBVIOUS
  <2>1. /\ i \in Nat /\ i \in 0 .. Len(fs) - 1 /\ i + 2 \in 1 .. Len(fs) /\ i + 2 # 1
        /\ i + 2 - 1 = i + 1 /\ i + 1 \in 1 .. Len(fs) /\ i <= Len(fs) - 1
    BY <1>1
  <2>2. fs[i + 1].top = TopIn(g, q, i) /\ q[i] = fs[i + 1].table
    BY <2>1
  <2>3. q[i] \in Table
    BY <2>1, <2>2, FrameTyped
  <2>4. fs[i + 2].top = fs[i + 1].top + (IF g[fs[i + 1].table].array THEN 1 ELSE 2)
    BY <2>1 DEF Tops
  <2> QED BY <2>1, <2>2, <2>3, <2>4, OneMoreTable
<1>4. S \in SUBSET Nat
  OBVIOUS
<1> HIDE DEF S
<1>5. \A i \in Nat : i \in S
  BY <1>2, <1>3, <1>4, NatSetInduction
<1> QED BY <1>1, <1>5 DEF S

TopAbove(g, fs) ==
  IF fs = <<>> THEN RootTop
  ELSE fs[Len(fs)].top + (IF g[fs[Len(fs)].table].array THEN 1 ELSE 2)

LEMMA TopsPushed ==
  ASSUME NEW g \in Graph, NEW fs \in Seq(Frame), Tops(g, fs),
         NEW f \in Frame, f.top = TopAbove(g, fs)
  PROVE Tops(g, Append(fs, f))
<1> DEFINE n == Len(fs)
           gs == Append(fs, f)
<1>1. /\ n \in Nat /\ Len(gs) = n + 1 /\ gs[n + 1] = f /\ \A i \in 1 .. n : gs[i] = fs[i]
      /\ (fs # <<>> => n # 0) /\ (fs = <<>> => n = 0)
  BY AppendProperties, EmptySeq
<1> HIDE DEF gs
<1> SUFFICES ASSUME NEW i \in 1 .. n + 1
             PROVE gs[i].top = IF i = 1 THEN RootTop
                               ELSE gs[i - 1].top + (IF g[gs[i - 1].table].array THEN 1 ELSE 2)
  BY <1>1 DEF Tops, gs
<1>2. CASE i \in 1 .. n
  <2>1. gs[i] = fs[i] /\ (i # 1 => i - 1 \in 1 .. n /\ gs[i - 1] = fs[i - 1])
    BY <1>1, <1>2
  <2> QED BY <1>2, <2>1 DEF Tops
<1>3. CASE i = n + 1
  <2>1. CASE fs = <<>>
    BY <1>1, <1>3, <2>1 DEF TopAbove
  <2>2. CASE fs # <<>>
    <3>1. i # 1 /\ i - 1 = n /\ n \in 1 .. n /\ gs[n] = fs[n]
      BY <1>1, <1>3, <2>2
    <3> QED BY <1>1, <1>3, <2>2, <3>1, Zenon DEF TopAbove
  <2> QED BY <2>1, <2>2
<1> QED BY <1>1, <1>2, <1>3

LEMMA TopsPopped ==
  ASSUME NEW g, NEW fs \in Seq(Frame), fs # <<>>, Tops(g, fs)
  PROVE Tops(g, SubSeq(fs, 1, Len(fs) - 1))
<1> DEFINE n == Len(fs)
           gs == SubSeq(fs, 1, n - 1)
<1>1. n \in Nat \ {0} /\ Len(gs) = n - 1 /\ \A i \in 1 .. n - 1 : gs[i] = fs[i]
  BY CallersFrames
<1> HIDE DEF gs
<1>2. ASSUME NEW i \in 1 .. n - 1
      PROVE gs[i].top = IF i = 1 THEN RootTop
                        ELSE gs[i - 1].top + (IF g[gs[i - 1].table].array THEN 1 ELSE 2)
  <2>1. gs[i] = fs[i] /\ i \in 1 .. n /\ (i # 1 => i - 1 \in 1 .. n - 1 /\ gs[i - 1] = fs[i - 1])
    BY <1>1
  <2> QED BY <2>1 DEF Tops
<1> QED BY <1>1, <1>2 DEF Tops, gs

LEMMA TopsAdvanced ==
  ASSUME NEW g, NEW fs \in Seq(Frame), fs # <<>>, Tops(g, fs)
  PROVE Tops(g, [fs EXCEPT ![Len(fs)].next = @ + 1])
<1> DEFINE n == Len(fs)
           gs == [fs EXCEPT ![n].next = @ + 1]
<1>1. /\ n \in Nat \ {0} /\ Len(gs) = n /\ \A i \in 1 .. n - 1 : gs[i] = fs[i]
      /\ gs[n].table = fs[n].table /\ gs[n].top = fs[n].top
  BY AdvancedFrames
<1> HIDE DEF gs
<1>2. \A i \in 1 .. n : gs[i].table = fs[i].table /\ gs[i].top = fs[i].top
  <2> TAKE i \in 1 .. n
  <2>1. i = n \/ i \in 1 .. n - 1
    BY <1>1
  <2> QED BY <2>1, <1>1
<1>3. ASSUME NEW i \in 1 .. n
      PROVE gs[i].top = IF i = 1 THEN RootTop
                        ELSE gs[i - 1].top + (IF g[gs[i - 1].table].array THEN 1 ELSE 2)
  <2>1. i # 1 => i - 1 \in 1 .. n
    BY <1>1
  <2> QED BY <1>2, <2>1 DEF Tops
<1> QED BY <1>1, <1>3 DEF Tops, gs

LEMMA NoMessageYet ==
  ASSUME NEW fs \in Seq(Frame)
  PROVE /\ Len(fs) + Len(<<>>) = Len(fs)
        /\ \A i \in 1 .. Len(fs) : Keys(fs, <<>>)[i] = fs[i].next
BY DEF Keys

(* The faults of a value: the path of the keys ends at it. *)
LEMMA BlamedEntry ==
  ASSUME NEW g \in Graph, NEW r, NEW fs \in Seq(Frame), fs # <<>>, Stack(g, r, fs),
         AtEntry(g, fs), Tops(g, fs), NEW w \in Reason \ {"key"}, NEW v,
         v = Becomes(g, EntryAt(g, fs)),
         w = "circular" => v \in Tables(fs),
         w = "recursion" => TopAbove(g, fs) >= MaxStack,
         w = "metatable" => v \in Table /\ g[v].meta # "none",
         w = "value" => v = Unsupported \/ (v \in Table /\ g[v].meta = "mistyped"),
         w = "toBSON" => v = Raises
  PROVE Blame(g, r, w, Keys(fs, <<>>), Len(fs) + Len(<<>>))
<1> DEFINE n == Len(fs)
           keys == Keys(fs, <<>>)
<1>1. n + Len(<<>>) = n /\ \A i \in 1 .. n : keys[i] = fs[i].next
  BY NoMessageYet
<1> HIDE DEF keys
<1> SUFFICES ASSUME NEW q, IsWalk(g, r, keys, n, q) PROVE Cause(g, w, q, n)
  BY <1>1, Zenon DEF Blame, keys
<1>2. /\ n \in Nat \ {0} /\ \A i \in 1 .. n : i - 1 \in 0 .. n - 1 /\ i - 1 + 1 = i
  BY EmptySeq
<1>3. (\A i \in 0 .. n - 1 : q[i] = fs[i + 1].table) /\ q[n] = v
  BY <1>1, WalkOn
<1>4. ASSUME w = "circular" PROVE \E i \in 0 .. n - 1 : q[i] = q[n]
  <2>1. PICK k \in 1 .. n : v = fs[k].table
    BY <1>4, Zenon DEF Tables
  <2>2. q[k - 1] = q[n] /\ k - 1 \in 0 .. n - 1
    <3>1. k - 1 \in 0 .. n - 1 /\ k - 1 + 1 = k
      BY <1>2
    <3> QED BY <1>3, <2>1, <3>1
  <2> QED BY <2>2
<1>5. ASSUME w = "recursion" PROVE TopIn(g, q, n) >= MaxStack
  <2>1. n - 1 \in 0 .. n - 1 /\ n - 1 + 1 = n /\ n - 1 \in Nat /\ n \in 1 .. n
    BY <1>2
  <2>2. fs[n].top = TopIn(g, q, n - 1) /\ q[n - 1] = fs[n].table /\ fs[n].table \in Table
    BY <1>3, <2>1, TopsAlong, FrameTyped, ZenonT(60)
  <2>3. TopIn(g, q, n) = TopIn(g, q, n - 1) + (IF g[q[n - 1]].array THEN 1 ELSE 2)
    BY <2>1, <2>2, OneMoreTable
  <2>4. TopAbove(g, fs) = TopIn(g, q, n)
    BY <2>2, <2>3, Zenon DEF TopAbove
  <2> QED BY <2>4, <1>5
<1> QED BY <1>3, <1>4, <1>5, Zenon DEF Cause

(* The faults of the root. *)
LEMMA BlamedRoot ==
  ASSUME NEW g, NEW r, NEW w \in {"recursion", "metatable"},
         w = "recursion" => RootTop >= MaxStack,
         w = "metatable" => r \in Table /\ g[r].meta # "none"
  PROVE \A keys : Blame(g, r, w, keys, 0)
<1> SUFFICES ASSUME NEW keys, NEW q, IsWalk(g, r, keys, 0, q) PROVE Cause(g, w, q, 0)
  BY Zenon DEF Blame
<1>2. q[0] = r
  BY DEF IsWalk
<1>3. TopIn(g, q, 0) = RootTop
  <2>1. ArraysIn(g, q, 0) = {}
    BY DEF ArraysIn
  <2>2. Cardinality(ArraysIn(g, q, 0)) = 0
    BY <2>1, FS_EmptySet
  <2> QED BY <2>2 DEF TopIn, RootTop
<1> QED BY <1>2, <1>3, Zenon DEF Cause, Reason

(* A bad key: the activation that found it is gone, the path ends at its table. *)
LEMMA BlamedKey ==
  ASSUME NEW g \in Graph, NEW r, NEW fs \in Seq(Frame), fs # <<>>, Stack(g, r, fs),
         AtEntry(g, fs), EntryAt(g, fs) = BadKey
  PROVE LET cs == SubSeq(fs, 1, Len(fs) - 1) IN
          Blame(g, r, "key", Keys(cs, <<>>), Len(cs) + Len(<<>>))
<1> DEFINE n == Len(fs)
           cs == SubSeq(fs, 1, n - 1)
           keys == Keys(cs, <<>>)
           es == EntriesIn(g, fs[n].table)
<1>1. /\ n \in Nat \ {0} /\ cs \in Seq(Frame) /\ Len(cs) = n - 1
      /\ \A i \in 1 .. n - 1 : cs[i] = fs[i]
  BY CallersFrames
<1>2. Len(cs) + Len(<<>>) = n - 1 /\ \A i \in 1 .. n - 1 : keys[i] = fs[i].next
  <2> HIDE DEF cs
  <2> QED BY <1>1, NoMessageYet
<1> HIDE DEF keys, cs
<1> SUFFICES ASSUME NEW q, IsWalk(g, r, keys, n - 1, q) PROVE Cause(g, "key", q, n - 1)
  BY <1>2, Zenon DEF Blame, keys, cs
<1>3. n \in 1 .. n /\ n - 1 \in 0 .. n - 1 /\ n - 1 + 1 = n /\ n - 1 \in Nat /\ n - 1 <= n - 1
  BY <1>1
<1>4. \A i \in 0 .. n - 1 : q[i] = fs[i + 1].table
  <2> DEFINE d == n
             m == n - 1
  <2>1. /\ d \in 1 .. Len(fs) /\ m \in Nat /\ d - 1 <= m /\ IsWalk(g, r, keys, m, q)
        /\ \A i \in 1 .. d - 1 : keys[i] = fs[i].next
    BY <1>2, <1>3
  <2> HIDE DEF d, m
  <2>2. \A i \in 0 .. d - 1 : q[i] = fs[i + 1].table
    BY <2>1, WalkAlong
  <2> QED BY <2>2 DEF d
<1>5. q[n - 1] = fs[n].table /\ fs[n].table \in Table
  BY <1>3, <1>4, FrameTyped
<1>6. fs[n].next \in DOMAIN es /\ es[fs[n].next] = BadKey
  <2> DEFINE f == fs[n]
  <2>1. Entered(g, f) /\ f.next <= Len(es) /\ es \in Seq(Entry) /\ Len(es) \in Nat
    BY <1>3, FrameTyped DEF Stack, OnPath, AtEntry
  <2>2. f.next \in 1 .. Len(es) + 1
    BY <2>1 DEF Entered
  <2>3. es[f.next] = BadKey
    BY DEF EntryAt
  <2> HIDE DEF f, es
  <2>4. f.next \in 1 .. Len(es) /\ DOMAIN es = 1 .. Len(es)
    BY <2>1, <2>2
  <2> QED BY <2>3, <2>4 DEF f
<1> QED BY <1>5, <1>6, Zenon DEF Cause, Reason

(* The innermost activation leaves and puts its key in front of the message:
   the path is the same. *)
LEMMA SameKeys ==
  ASSUME NEW fs \in Seq(Frame), fs # <<>>, NEW er \in Seq(Nat)
  PROVE LET cs == SubSeq(fs, 1, Len(fs) - 1)
            es == <<fs[Len(fs)].next>> \o er
        IN Keys(cs, es) = Keys(fs, er) /\ Len(cs) + Len(es) = Len(fs) + Len(er)
<1> DEFINE n == Len(fs)
           m == Len(er)
           k == fs[n].next
           cs == SubSeq(fs, 1, n - 1)
           es == <<k>> \o er
<1>1. /\ n \in Nat \ {0} /\ Len(cs) = n - 1 /\ \A i \in 1 .. n - 1 : cs[i] = fs[i]
  BY CallersFrames
<1>2. m \in Nat /\ Len(es) = m + 1 /\ es[1] = k /\ \A i \in 1 .. m : es[i + 1] = er[i]
  <2>1. k \in Nat
    <3>1. n \in 1 .. n
      BY <1>1
    <3>2. fs[n] \in Frame
      BY <3>1, ElementOfSeq
    <3> QED BY <3>2 DEF Frame
  <2> HIDE DEF k
  <2> QED BY <2>1
<1> HIDE DEF n, m, k, cs, es
<1>3. ASSUME NEW i \in 1 .. n + m
      PROVE (IF i <= n - 1 THEN cs[i].next ELSE es[i - (n - 1)])
            = (IF i <= n THEN fs[i].next ELSE er[i - n])
  <2>1. CASE i \in 1 .. n - 1
    BY <1>1, <2>1
  <2>2. CASE i = n
    <3>1. i - (n - 1) = 1 /\ ~ (i <= n - 1) /\ i <= n
      BY <1>1, <2>2
    <3> QED BY <1>2, <2>2, <3>1 DEF k
  <2>3. CASE i \in n + 1 .. n + m
    <3>1. i - (n - 1) = i - n + 1 /\ i - n \in 1 .. m /\ ~ (i <= n - 1) /\ ~ (i <= n)
      BY <1>1, <1>2, <2>3
    <3> QED BY <1>2, <3>1
  <2> QED BY <1>1, <1>2, <2>1, <2>2, <2>3
<1>4. Len(cs) + Len(es) = n + m
  BY <1>1, <1>2
<1>5. Keys(cs, es) = Keys(fs, er)
  BY <1>1, <1>3, <1>4 DEF Keys, n, m
<1> QED BY <1>4, <1>5 DEF n, m, k, cs, es

LEMMA SameChildTop == ASSUME frames # <<>> PROVE ChildTop = TopAbove(heap, frames)
BY Zenon DEF ChildTop, TopAbove, Current, Depth

LEMMA RunningMessages == ASSUME IInv, Messages, outcome = "running"
  PROVE /\ errs = <<>> /\ Tops(heap, frames) /\ heap \in Graph /\ frames \in Seq(Frame)
        /\ Stack(heap, Becomes(heap, Root), frames)
BY HeapIsGraph, Zenon DEF IInv, Messages

LEMMA EnterMessages ==
  ASSUME IInv, Messages, outcome = "running", NEW t \in Table, NEW top \in Nat, Enter(t, top),
         top = TopAbove(heap, frames),
         frames = <<>> => t = Becomes(heap, Root),
         frames # <<>> => /\ AtEntry(heap, frames) /\ t = Becomes(heap, EntryAt(heap, frames))
                          /\ Nested(heap, t)
  PROVE Messages'
<1> DEFINE r == Becomes(heap, Root)
           f == [table |-> t, next |-> 1, top |-> top]
<1>1. /\ errs = <<>> /\ Tops(heap, frames) /\ heap \in Graph /\ frames \in Seq(Frame)
      /\ Stack(heap, r, frames)
  BY RunningMessages
<1>2. refs = Tables(frames)
  BY DEF IInv, Counted
<1>3. heap' = heap /\ errs' = errs
  BY DEF Enter
<1>4. CASE Refusal(t, top) = ""
  <2>1. frames' = Append(frames, f) /\ outcome' = outcome
    BY <1>4, Zenon DEF Enter
  <2>2. f \in Frame /\ f.top = TopAbove(heap, frames)
    BY DEF Frame
  <2> HIDE DEF f
  <2>3. Tops(heap, frames')
    BY <1>1, <2>1, <2>2, TopsPushed
  <2> QED BY <1>1, <1>3, <2>1, <2>3 DEF Messages
<1>5. CASE Refusal(t, top) # ""
  <2>1. why' = Refusal(t, top) /\ outcome' = "failing" /\ frames' = frames
    BY <1>5, Zenon DEF Enter
  <2>2. /\ why' \in Reason \ {"key"} /\ (why' = "circular" => t \in refs)
        /\ why' \in {"recursion", "metatable", "circular"}
        /\ (why' = "metatable" => heap[t].meta # "none")
    BY <1>5, <2>1, Zenon DEF Refusal, Reason
  <2>3. why' = "recursion" => TopAbove(heap, frames) >= MaxStack
    BY <2>1 DEF Refusal
  <2> DEFINE w == why'
  <2>4. Blame(heap, r, w, Keys(frames, <<>>), Len(frames) + Len(<<>>))
    <3> HIDE DEF w
    <3>1. CASE frames = <<>>
      <4>1. w \in {"recursion", "metatable"}
        BY <3>1, <1>2, <2>2 DEF Tables, w
      <4>2. (w = "recursion" => RootTop >= MaxStack)
            /\ (w = "metatable" => r \in Table /\ heap[r].meta # "none")
        BY <3>1, <2>2, <2>3, Zenon DEF TopAbove, w
      <4>3. \A keys : Blame(heap, r, w, keys, 0)
        BY <4>1, <4>2, BlamedRoot
      <4>4. Len(frames) + Len(<<>>) = 0
        BY <3>1
      <4> QED BY <4>3, <4>4
    <3>2. CASE frames # <<>>
      <4>1. /\ w \in Reason \ {"key"} /\ (w = "circular" => t \in Tables(frames))
            /\ (w = "recursion" => TopAbove(heap, frames) >= MaxStack)
            /\ (w = "metatable" => t \in Table /\ heap[t].meta # "none")
            /\ w # "value" /\ w # "toBSON"
        BY <1>2, <2>2, <2>3 DEF w
      <4> QED BY <3>2, <4>1, <1>1, BlamedEntry
    <3> QED BY <3>1, <3>2
  <2> QED BY <1>1, <1>3, <2>1, <2>4 DEF Messages
<1> QED BY <1>4, <1>5

(* A step that neither fails nor enters an activation. *)
LEMMA QuietMessages ==
  ASSUME Messages, heap' = heap, errs' = errs, Tops(heap, frames'),
         outcome' \in {"ok", "thrown"} \/ (outcome = "running" /\ outcome' = "running")
  PROVE Messages'
BY DEF Messages

LEMMA NoTops == ASSUME NEW g PROVE Tops(g, <<>>)
BY DEF Tops

LEMMA ThrowMessages == ASSUME Messages, Throw PROVE Messages'
<1>1. heap' = heap /\ errs' = errs /\ outcome' = "thrown" /\ frames' = <<>>
  BY Zenon DEF Throw
<1> QED BY <1>1, NoTops, QuietMessages

LEMMA BeginMessages == ASSUME IInv, Messages, CastBSON \/ ToBSONValue PROVE Messages'
<1> DEFINE r == Becomes(heap, Root)
<1>1. /\ heap \in Graph /\ frames = <<>> /\ outcome = "running" /\ Transformed(Root) = r
  BY BeginFacts, Zenon DEF CastBSON, ToBSONValue
<1>2. CASE Throw
  BY <1>2, ThrowMessages
<1>3. CASE Done
  <2>1. heap' = heap /\ errs' = errs /\ outcome' = "ok" /\ frames' = <<>>
    BY <1>1, <1>3, Zenon DEF Done
  <2> QED BY <2>1, NoTops, QuietMessages
<1>4. CASE r \in Table /\ Enter(r, RootTop)
  <2>1. RootTop \in Nat /\ RootTop = TopAbove(heap, frames)
    BY <1>1, Zenon DEF RootTop, TopAbove
  <2> QED BY <2>1, <1>1, <1>4, EnterMessages
<1>5. StartTable(r) => Throw \/ Done \/ (r \in Table /\ Enter(r, RootTop))
  BY Zenon DEF StartTable
<1> QED BY <1>1, <1>2, <1>3, <1>4, <1>5, Zenon DEF CastBSON, ToBSONValue

LEMMA FailMessages ==
  ASSUME IInv, Messages, InLoop, NEW w \in {"toBSON", "value"}, Fail(w), frames' = frames,
         w = "toBSON" => CurrentValue = Raises,
         w = "value" => CurrentValue = Unsupported \/ Has(CurrentValue, "mistyped")
  PROVE Messages'
<1> DEFINE r == Becomes(heap, Root)
<1>1. /\ errs = <<>> /\ Tops(heap, frames) /\ heap \in Graph /\ frames \in Seq(Frame)
      /\ frames # <<>> /\ Stack(heap, r, frames) /\ AtEntry(heap, frames)
      /\ CurrentValue = Becomes(heap, EntryAt(heap, frames))
  BY AtCurrent, RunningMessages
<1>2. heap' = heap /\ errs' = errs /\ why' = w /\ outcome' = "failing"
  BY Zenon DEF Fail
<1>3. /\ w \in Reason \ {"key"} /\ w # "circular" /\ w # "recursion" /\ w # "metatable"
      /\ (w = "value" => CurrentValue = Unsupported
                         \/ (CurrentValue \in Table /\ heap[CurrentValue].meta = "mistyped"))
  BY DEF Reason, Has
<1>4. Blame(heap, r, w, Keys(frames, <<>>), Len(frames) + Len(<<>>))
  BY <1>1, <1>3, BlamedEntry
<1> QED BY <1>1, <1>2, <1>4 DEF Messages

LEMMA RejectKeyMessages == ASSUME IInv, Messages, RejectKey PROVE Messages'
<1> DEFINE r == Becomes(heap, Root)
           e == EntryAt(heap, frames)
           cs == SubSeq(frames, 1, Len(frames) - 1)
<1>1. /\ InLoop /\ errs = <<>> /\ Tops(heap, frames) /\ heap \in Graph /\ frames \in Seq(Frame)
      /\ frames # <<>> /\ Stack(heap, r, frames) /\ AtEntry(heap, frames)
      /\ CurrentValue = Becomes(heap, e) /\ e \in Entry /\ CurrentValue = BadKey
  BY AtCurrent, RunningMessages DEF RejectKey
<1>2. heap' = heap /\ errs' = errs /\ why' = "key" /\ outcome' = "failing" /\ frames' = cs
  BY Zenon DEF RejectKey, Fail, Callers, Depth
<1>3. e = BadKey
  <2>1. CASE e \in Table /\ heap[e].meta = "toBSON"
    <3>1. heap[e] \in TableState
      BY <1>1, <2>1, Zenon DEF Graph
    <3>2. heap[e].to \in Result
      BY <3>1 DEF TableState
    <3> QED BY <3>2, <2>1, <1>1, NotTables, Zenon DEF Becomes
  <2> QED BY <2>1, <1>1, Zenon DEF Becomes
<1>4. Blame(heap, r, "key", Keys(cs, <<>>), Len(cs) + Len(<<>>))
  BY <1>1, <1>3, BlamedKey
<1>5. Tops(heap, cs)
  BY <1>1, TopsPopped
<1> HIDE DEF cs
<1> QED BY <1>1, <1>2, <1>4, <1>5 DEF Messages

LEMMA LeaveMessages == ASSUME IInv, Messages, Leave PROVE Messages'
<1>1. /\ frames # <<>> /\ outcome = "running" /\ heap' = heap /\ errs' = errs
  BY Zenon DEF Leave
<1>2. Tops(heap, frames) /\ frames \in Seq(Frame)
  BY <1>1, RunningMessages
<1>3. CASE Len(frames) = 1
  <2>1. frames' = <<>> /\ outcome' = "ok"
    BY <1>3, Zenon DEF Leave, Depth
  <2> QED BY <1>1, <2>1, NoTops, QuietMessages
<1>4. CASE Len(frames) # 1
  <2> DEFINE cs == SubSeq(frames, 1, Len(frames) - 1)
  <2>1. frames' = [cs EXCEPT ![Len(frames) - 1].next = @ + 1] /\ outcome' = outcome
    BY <1>4, Zenon DEF Leave, Callers, Depth
  <2>2. cs \in Seq(Frame) /\ Len(cs) = Len(frames) - 1 /\ cs # <<>>
    BY <1>1, <1>2, <1>4, CallersFrames
  <2>3. Tops(heap, cs)
    BY <1>1, <1>2, TopsPopped
  <2> HIDE DEF cs
  <2>4. Tops(heap, [cs EXCEPT ![Len(cs)].next = @ + 1])
    BY <2>2, <2>3, TopsAdvanced
  <2>5. Tops(heap, frames')
    BY <2>1, <2>2, <2>4
  <2> QED BY <1>1, <2>1, <2>5, QuietMessages
<1> QED BY <1>3, <1>4

LEMMA UnwindMessages == ASSUME IInv, Messages, Unwind PROVE Messages'
<1> DEFINE cs == SubSeq(frames, 1, Len(frames) - 1)
           es == <<frames[Len(frames)].next>> \o errs
<1>1. /\ heap' = heap /\ why' = why /\ outcome' = outcome /\ outcome = "failing"
      /\ frames' = cs /\ errs' = es /\ frames # <<>>
  BY Zenon DEF Unwind, Callers, Depth, Prefixed, Current
<1>2. /\ frames \in Seq(Frame) /\ errs \in Seq(Nat) /\ Tops(heap, frames)
      /\ Blame(heap, Becomes(heap, Root), why, Keys(frames, errs), Len(frames) + Len(errs))
  BY <1>1, Zenon DEF IInv, Messages
<1>3. Keys(cs, es) = Keys(frames, errs) /\ Len(cs) + Len(es) = Len(frames) + Len(errs)
  BY <1>1, <1>2, SameKeys
<1>4. Tops(heap, cs)
  BY <1>1, <1>2, TopsPopped
<1> HIDE DEF cs, es
<1> QED BY <1>1, <1>2, <1>3, <1>4 DEF Messages

LEMMA NextMessages == ASSUME IInv, Messages, [Next]_vars PROVE Messages'
<1>1. CASE UNCHANGED vars
  BY <1>1 DEF vars, Messages
<1>2. CASE CastBSON \/ ToBSONValue
  BY <1>2, BeginMessages
<1>3. CASE AppendScalar
  <2>1. /\ heap' = heap /\ errs' = errs /\ outcome' = outcome /\ frames # <<>> /\ outcome = "running"
        /\ frames' = [frames EXCEPT ![Len(frames)].next = @ + 1]
    BY <1>3, Zenon DEF AppendScalar, Advance, Depth, InLoop
  <2>2. Tops(heap, frames) /\ frames \in Seq(Frame)
    BY <2>1, RunningMessages
  <2>3. Tops(heap, frames')
    BY <2>1, <2>2, TopsAdvanced
  <2> QED BY <2>1, <2>3, QuietMessages
<1>4. CASE RejectValue
  <2>1. InLoop /\ frames' = frames
    BY <1>4 DEF RejectValue
  <2>2. CASE CurrentValue = Raises /\ Fail("toBSON")
    BY <2>1, <2>2, FailMessages
  <2>3. CASE (CurrentValue = Unsupported \/ Has(CurrentValue, "mistyped")) /\ Fail("value")
    BY <2>1, <2>3, FailMessages
  <2> QED BY <1>4, <2>2, <2>3, Zenon DEF RejectValue
<1>5. CASE RejectKey
  BY <1>5, RejectKeyMessages
<1>6. CASE NestedRaises
  BY <1>6, ThrowMessages DEF NestedRaises
<1>7. CASE Nest
  <2> DEFINE v == Becomes(heap, EntryAt(heap, frames))
  <2>1. /\ heap \in Graph /\ frames \in Seq(Frame) /\ frames # <<>> /\ outcome = "running"
        /\ AtEntry(heap, frames) /\ CurrentValue = v /\ Len(frames) \in Nat \ {0}
        /\ Enter(v, ChildTop) /\ \E kind \in {"none", "toBSON", "other"} : Has(v, kind)
    BY <1>7, AtCurrent DEF Nest
  <2>2. v \in Table /\ Nested(heap, v)
    BY <2>1 DEF Has, Nested
  <2>3. ChildTop \in Nat /\ ChildTop = TopAbove(heap, frames)
    <3>1. Len(frames) \in 1 .. Len(frames)
      BY <2>1
    <3>2. Current.top \in Nat
      BY <3>1, <2>1, FrameTyped DEF Current, Depth
    <3>3. ChildTop \in Nat
      BY <3>2 DEF ChildTop
    <3> QED BY <2>1, <3>3, SameChildTop
  <2> QED BY <2>1, <2>2, <2>3, EnterMessages
<1>8. CASE Leave
  BY <1>8, LeaveMessages
<1>9. CASE Unwind
  BY <1>9, UnwindMessages
<1>10. CASE Report
  BY <1>10 DEF Report, Messages
<1> QED BY <1>1, <1>2, <1>3, <1>4, <1>5, <1>6, <1>7, <1>8, <1>9, <1>10, Zenon DEF Next

(* The keys in front of an error message lead from the root to a value the
   message is right about: ErrorNamesPath, for every graph. *)
THEOREM ErrorsNamePath == Spec => []ErrorNamesPath
<1>1. Init => Messages
  <2> SUFFICES ASSUME Init PROVE Messages
    OBVIOUS
  <2>1. frames = <<>> /\ errs = <<>> /\ outcome = "running"
    BY DEF Init
  <2> QED BY <2>1, NoTops DEF Messages
<1>2. IInv /\ Messages /\ [Next]_vars => Messages'
  BY NextMessages
<1>3. ASSUME IInv, Messages PROVE ErrorNamesPath
  <2> SUFFICES ASSUME outcome = "error" PROVE ErrorNamesPath
    BY DEF ErrorNamesPath
  <2> DEFINE n == Len(errs)
             g == heap
  <2>1. errs \in Seq(Nat) /\ frames = <<>> /\ n \in Nat
    <3>1. errs \in Seq(Nat) /\ frames = <<>>
      BY <1>3, Zenon DEF IInv, Stage
    <3> QED BY <3>1
  <2>2. IsWalk(g, Becomes(g, Root), errs, n, Path)
    BY <2>1, PathIsWalk
  <2>3. Len(frames) + Len(errs) = n /\ \A i \in 1 .. n : Keys(frames, errs)[i] = errs[i]
    BY <2>1 DEF Keys
  <2>4. IsWalk(g, Becomes(g, Root), Keys(frames, errs), n, Path)
    <3> DEFINE Step(keys, i) == IF i = 0 THEN Becomes(g, Root) ELSE AtIn(g, Path[i - 1], keys[i])
    <3>1. Path = [i \in 0 .. n |-> Step(errs, i)]
      BY <2>2, Zenon DEF IsWalk
    <3>2. ASSUME NEW i \in 0 .. n PROVE Step(errs, i) = Step(Keys(frames, errs), i)
      <4>1. i # 0 => i \in 1 .. n
        BY <2>1
      <4> QED BY <4>1, <2>3, Zenon
    <3>3. Path = [i \in 0 .. n |-> Step(Keys(frames, errs), i)]
      <4> HIDE DEF Step
      <4> QED BY <3>1, <3>2
    <3> QED BY <3>3, Zenon DEF IsWalk
  <2>5. Cause(g, why, Path, n)
    BY <1>3, <2>3, <2>4 DEF Messages, Blame
  <2>6. TopAt(Path, n) = TopIn(g, Path, n)
    BY Zenon DEF TopAt, TopIn, Arrays, ArraysIn
  <2> QED BY <2>5, <2>6, Zenon DEF ErrorNamesPath, Cause, Reason, Has, Entries, EntriesIn
<1> QED BY <1>1, <1>2, <1>3, Invariance, PTL DEF Spec
=============================================================================
