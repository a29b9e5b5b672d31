-------------------------- MODULE FileSystemProofs --------------------------
(***************************************************************************)
(* Proofs about FileSystem: for every set of paths, every trees to start   *)
(* from and any number of other processes' changes.                        *)
(***************************************************************************)
EXTENDS FileSystem, FiniteSetTheorems, SequenceTheorems, WellFoundedInduction, TLAPS

(* Induction over the naturals, stated with a set instead of an operator so
   that the provers can use it: apply it to {n \in Nat : P(n)}.  The least
   number that the set lacked would have a predecessor that it lacks too. *)
LEMMA NatSetInduction ==
  ASSUME NEW S \in SUBSET Nat, 0 \in S, \A n \in S : n + 1 \in S
  PROVE  \A n \in Nat : n \in S
<1> SUFFICES ASSUME Nat \ S # {} PROVE FALSE
  OBVIOUS
<1>1. PICK m \in Nat \ S : \A k \in Nat \ S : <<k, m>> \notin OpToRel(<, Nat)
  BY NatLessThanWellFounded, WFMin, Zenon
<1>2. m - 1 \in Nat \ S
  <2>1. m \in Nat /\ m # 0 /\ m = (m - 1) + 1
    OBVIOUS
  <2> QED BY <2>1
<1>3. \A k \in Nat : k < m => <<k, m>> \in OpToRel(<, Nat)
  BY DEF OpToRel
<1>4. m - 1 < m
  OBVIOUS
<1> QED BY <1>1, <1>2, <1>3, <1>4, Zenon

-----------------------------------------------------------------------------
(* Paths *)

LEMMA PathFacts ==
  ASSUME NEW p \in Path
  PROVE /\ p \in Seq(STRING) /\ Len(p) \in Nat /\ Len(p) > 0
        /\ Parent(p) \in Seq(STRING) /\ Len(Parent(p)) = Len(p) - 1
        /\ \A i \in 1 .. Len(p) - 1 : Parent(p)[i] = p[i]
        /\ Parent(p) = <<>> \/ Parent(p) \in Path
<1>1. p \in Seq(STRING) /\ Len(p) \in Nat /\ Len(p) > 0
  BY FileSystemAssumption, LenProperties
<1>2. /\ Parent(p) \in Seq(STRING) /\ Len(Parent(p)) = Len(p) - 1
      /\ \A i \in 1 .. Len(p) - 1 : Parent(p)[i] = p[i]
  <2> DEFINE n == Len(p) - 1
             s == SubSeq(p, 1, n)
  <2>1. n \in 1 - 1 .. Len(p) /\ n + 1 - 1 = n
    BY <1>1
  <2>2. s \in Seq(STRING) /\ Len(s) = n /\ \A i \in 1 .. n : s[i] = p[i]
    <3> HIDE DEF n
    <3> QED BY <1>1, <2>1, SubSeqProperties
  <2> QED BY <2>2 DEF Parent
<1> QED BY <1>1, <1>2, FileSystemAssumption

LEMMA PathNotEmpty == \A p \in Path : p # <<>>
<1> SUFFICES ASSUME NEW p \in Path, p = <<>> PROVE FALSE
  OBVIOUS
<1>1. Len(p) > 0
  BY PathFacts
<1>2. Len(<<>>) = 0
  BY EmptySeq
<1>3. Len(p) = 0
  BY <1>2, Zenon
<1> QED BY <1>1, <1>3

(* What it means to lie below a path, name by name. *)
LEMMA BelowByNames ==
  ASSUME NEW c \in Path, NEW p \in Path
  PROVE p \in Below(c) <=> Len(p) > Len(c) /\ \A i \in 1 .. Len(c) : p[i] = c[i]
<1>1. /\ p \in Seq(STRING) /\ Len(p) \in Nat /\ c \in Seq(STRING) /\ Len(c) \in Nat
      /\ Len(c) > 0
  BY PathFacts
<1> SUFFICES ASSUME Len(p) > Len(c)
             PROVE SubSeq(p, 1, Len(c)) = c <=> \A i \in 1 .. Len(c) : p[i] = c[i]
  BY DEF Below
<1> DEFINE s == SubSeq(p, 1, Len(c))
<1>2. s \in Seq(STRING) /\ Len(s) = Len(c) /\ \A i \in 1 .. Len(c) : s[i] = p[i]
  BY <1>1, SubSeqProperties
<1> HIDE DEF s
<1>3. s = c <=> \A i \in 1 .. Len(c) : s[i] = c[i]
  BY <1>1, <1>2, SeqEqual
<1>4. s = c <=> \A i \in 1 .. Len(c) : p[i] = c[i]
  BY <1>2, <1>3
<1> QED BY <1>4 DEF s

LEMMA ChildInside ==
  ASSUME NEW c \in Path, NEW d \in Subtree(c), NEW p \in Children(d)
  PROVE p \in Below(c) /\ d \in Path /\ p \in Path /\ Len(p) = Len(d) + 1
<1>1. d \in Path /\ p \in Path /\ Parent(p) = d
  BY DEF Subtree, Below, Children
<1>2. Len(p) \in Nat /\ Len(d) \in Nat /\ Len(c) \in Nat
  BY <1>1, PathFacts
<1>3. Len(d) = Len(p) - 1 /\ \A i \in 1 .. Len(p) - 1 : d[i] = p[i]
  BY <1>1, PathFacts
<1>4. Len(d) >= Len(c) /\ \A i \in 1 .. Len(c) : d[i] = c[i]
  <2>1. CASE d = c
    BY <2>1, <1>2
  <2>2. CASE d \in Below(c)
    BY <2>2, <1>1, <1>2, BelowByNames
  <2> QED BY <2>1, <2>2 DEF Subtree
<1>5. Len(p) > Len(c) /\ \A i \in 1 .. Len(c) : p[i] = c[i]
  BY <1>2, <1>3, <1>4
<1> QED BY <1>1, <1>2, <1>3, <1>5, BelowByNames

LEMMA BelowParent ==
  ASSUME NEW c \in Path, NEW p \in Below(c)
  PROVE p \in Path /\ Parent(p) \in Subtree(c) /\ Parent(p) \in Path /\ Parent(p) # <<>>
<1>1. p \in Path
  BY DEF Below
<1> DEFINE d == Parent(p)
<1>2. /\ c \in Seq(STRING) /\ Len(c) \in Nat /\ Len(c) > 0 /\ Len(p) \in Nat
      /\ d \in Seq(STRING) /\ Len(d) = Len(p) - 1
      /\ \A i \in 1 .. Len(p) - 1 : d[i] = p[i]
      /\ d = <<>> \/ d \in Path
  BY <1>1, PathFacts
<1> HIDE DEF d
<1>3. Len(p) > Len(c) /\ \A i \in 1 .. Len(c) : p[i] = c[i]
  BY <1>1, BelowByNames
<1>4. Len(d) >= Len(c) /\ \A i \in 1 .. Len(c) : d[i] = c[i]
  BY <1>2, <1>3
<1>5. d # <<>>
  BY <1>2, <1>4, EmptySeq
<1>6. CASE Len(d) = Len(c)
  <2>1. d = c
    BY <1>2, <1>4, <1>6, SeqEqual
  <2> QED BY <2>1, <1>1, <1>2, <1>5 DEF Subtree, d
<1>7. CASE Len(d) > Len(c)
  <2>1. d \in Below(c)
    BY <1>2, <1>4, <1>5, <1>7, BelowByNames
  <2> QED BY <2>1, <1>1, <1>2, <1>5 DEF Subtree, d
<1> QED BY <1>2, <1>4, <1>6, <1>7

(* Below what is not a directory there is nothing. *)
LEMMA NothingBelow ==
  ASSUME NEW k \in [Path -> Kind], WellFormed(k), NEW c \in Path, k[c] # "dir"
  PROVE \A p \in Below(c) : k[p] = "absent"
<1> DEFINE S == {n \in Nat : \A p \in Below(c) : Len(p) = Len(c) + n => k[p] = "absent"}
<1>1. Len(c) \in Nat
  BY PathFacts
<1>2. S \in SUBSET Nat
  OBVIOUS
<1>3. 0 \in S
  <2>1. \A p \in Below(c) : Len(p) # Len(c)
    BY <1>1, PathFacts DEF Below
  <2> QED BY <2>1, <1>1
<1>4. ASSUME NEW n \in S PROVE n + 1 \in S
  <2> SUFFICES ASSUME NEW p \in Below(c), Len(p) = Len(c) + (n + 1)
               PROVE k[p] = "absent"
    OBVIOUS
  <2>1. p \in Path /\ Parent(p) \in Subtree(c) /\ Parent(p) \in Path /\ Parent(p) # <<>>
    BY BelowParent
  <2>2. Len(Parent(p)) = Len(c) + n
    BY <2>1, <1>1, PathFacts
  <2>3. k[Parent(p)] # "dir"
    BY <2>1, <2>2 DEF Subtree
  <2> QED BY <2>1, <2>3 DEF WellFormed
<1> HIDE DEF S
<1>5. \A n \in Nat : n \in S
  BY <1>2, <1>3, <1>4, NatSetInduction
<1> SUFFICES ASSUME NEW p \in Below(c) PROVE k[p] = "absent"
  OBVIOUS
<1> DEFINE m == Len(p) - Len(c)
<1>6. m \in Nat /\ Len(p) = Len(c) + m
  BY <1>1, PathFacts DEF Below
<1> HIDE DEF m
<1>7. m \in S
  BY <1>5, <1>6
<1> QED BY <1>6, <1>7 DEF S

-----------------------------------------------------------------------------
(* Counting *)

Count(S, n) == IsFiniteSet(S) /\ Cardinality(S) <= n

LEMMA CountNothing == ASSUME NEW n \in Nat PROVE Count({}, n)
BY FS_EmptySet DEF Count

LEMMA CountKept ==
  ASSUME NEW S, NEW T, NEW n \in Nat, Count(S, n), T \subseteq S
  PROVE Count(T, n)
<1>1. IsFiniteSet(T) /\ Cardinality(T) <= Cardinality(S)
  BY FS_Subset DEF Count
<1>2. Cardinality(T) \in Nat /\ Cardinality(S) \in Nat
  BY <1>1, FS_CardinalityType DEF Count
<1> QED BY <1>1, <1>2 DEF Count

LEMMA CountGrown ==
  ASSUME NEW S, NEW T, NEW x, NEW n \in Nat, Count(S, n), T \subseteq S \cup {x}
  PROVE Count(T, n + 1)
<1>1. /\ IsFiniteSet(S \cup {x})
      /\ Cardinality(S \cup {x}) <= Cardinality(S) + 1
      /\ Cardinality(S) \in Nat /\ Cardinality(S \cup {x}) \in Nat
  BY FS_AddElement, FS_CardinalityType DEF Count
<1>2. Count(S \cup {x}, n + 1)
  BY <1>1 DEF Count
<1> QED BY <1>2, CountKept


-----------------------------------------------------------------------------
(* What the system calls do to a tree *)

Links(k) == {p \in Path : k[p] = "link"}

(* A tree that differs from another one at no more than one path. *)
SameBut(j, k, p) == \A q \in Path : q # p => j[q] = k[q]

LEMMA Removing ==
  ASSUME NEW k \in [Path -> Kind], WellFormed(k), NEW p \in Path,
         k[p] \in {"file", "link"} \/ RmdirError(k, p) = ""
  PROVE /\ Deleted(k, p) \in [Path -> Kind] /\ WellFormed(Deleted(k, p))
        /\ SameBut(Deleted(k, p), k, p) /\ Deleted(k, p)[p] = "absent"
        /\ Links(Deleted(k, p)) \subseteq Links(k)
<1> DEFINE j == Deleted(k, p)
<1>1. /\ j \in [Path -> Kind] /\ j[p] = "absent"
      /\ \A q \in Path : q # p => j[q] = k[q]
  BY DEF Deleted, Kind
<1>2. \A q \in Path : Parent(q) = p => k[q] = "absent"
  <2> SUFFICES ASSUME NEW q \in Path, Parent(q) = p, k[q] # "absent" PROVE FALSE
    OBVIOUS
  <2>1. Parent(q) # <<>>
    BY PathNotEmpty
  <2>2. k[p] = "dir"
    BY <2>1 DEF WellFormed
  <2>3. Entries(k, p) # {}
    BY DEF Entries, Children
  <2> QED BY <2>2, <2>3 DEF RmdirError
<1>3. WellFormed(j)
  <2> SUFFICES ASSUME NEW q \in Path, Parent(q) # <<>>, j[q] # "absent"
               PROVE j[Parent(q)] = "dir"
    BY DEF WellFormed
  <2>1. k[q] # "absent"
    BY <1>1
  <2>2. k[Parent(q)] = "dir" /\ Parent(q) \in Path
    BY <2>1, PathFacts DEF WellFormed
  <2> QED BY <2>1, <2>2, <1>1, <1>2
<1> HIDE DEF j
<1>4. Links(j) \subseteq Links(k)
  BY <1>1 DEF Links
<1> QED BY <1>1, <1>3, <1>4 DEF SameBut, j

LEMMA Adding ==
  ASSUME NEW k \in [Path -> Kind], WellFormed(k), NEW p \in Path,
         NEW t \in {"file", "dir"}, k[p] = "absent",
         Parent(p) = <<>> \/ k[Parent(p)] = "dir",
         NEW j, j = [k EXCEPT ![p] = t]
  PROVE /\ j \in [Path -> Kind] /\ WellFormed(j) /\ SameBut(j, k, p)
        /\ \A q \in Path : k[q] # "absent" => j[q] = k[q]
        /\ Links(j) \subseteq Links(k)
<1>1. /\ j \in [Path -> Kind] /\ j[p] = t
      /\ \A q \in Path : q # p => j[q] = k[q]
  BY DEF Kind
<1>2. WellFormed(j)
  <2> SUFFICES ASSUME NEW q \in Path, Parent(q) # <<>>, j[q] # "absent"
               PROVE j[Parent(q)] = "dir"
    BY DEF WellFormed
  <2>1. Parent(q) \in Path
    BY PathFacts
  <2>2. k[Parent(q)] = "dir"
    BY <1>1 DEF WellFormed
  <2> QED BY <2>1, <2>2, <1>1
<1>3. Links(j) \subseteq Links(k)
  BY <1>1 DEF Links
<1>4. \A q \in Path : k[q] # "absent" => j[q] = k[q]
  BY <1>1
<1> QED BY <1>1, <1>2, <1>3, <1>4 DEF SameBut

(* remove and rmdir leave a tree, and remove at most what they are about. *)
LEMMA RemoveFacts ==
  ASSUME NEW k \in [Path -> Kind], WellFormed(k), NEW p \in Path,
         NEW j, j = AfterRemove(k, p) \/ j = AfterRmdir(k, p)
  PROVE /\ j \in [Path -> Kind] /\ WellFormed(j) /\ SameBut(j, k, p)
        /\ j[p] \in {"absent", k[p]} /\ Links(j) \subseteq Links(k)
<1>1. j = k \/ (j = Deleted(k, p) /\ (k[p] \in {"file", "link"} \/ RmdirError(k, p) = ""))
  BY Zenon DEF AfterRemove, AfterRmdir, Removable
<1>2. CASE j = k
  BY <1>2 DEF SameBut
<1>3. CASE j = Deleted(k, p) /\ (k[p] \in {"file", "link"} \/ RmdirError(k, p) = "")
  BY <1>3, Removing
<1> QED BY <1>1, <1>2, <1>3

(* mkdir, unless its parent is a link. *)
LEMMA MkdirFacts ==
  ASSUME NEW k \in [Path -> Kind], WellFormed(k), NEW p \in Path,
         Parent(p) \in Path => k[Parent(p)] # "link",
         NEW j, j = AfterMkdir(k, p)
  PROVE /\ j \in [Path -> Kind] /\ WellFormed(j) /\ SameBut(j, k, p)
        /\ \A q \in Path : k[q] # "absent" => j[q] = k[q]
        /\ Links(j) \subseteq Links(k)
<1>1. CASE k[p] = "absent" /\ StatKind(k, Parent(p)) = "dir"
  <2>1. Parent(p) = <<>> \/ k[Parent(p)] = "dir"
    BY <1>1, PathFacts DEF StatKind, Follow
  <2>2. j = [k EXCEPT ![p] = "dir"]
    BY <1>1, Zenon DEF AfterMkdir
  <2>3. "dir" \in {"file", "dir"}
    OBVIOUS
  <2> QED BY <1>1, <2>1, <2>2, <2>3, Adding
<1>2. CASE ~(k[p] = "absent" /\ StatKind(k, Parent(p)) = "dir")
  <2>1. j = k
    BY <1>2, Zenon DEF AfterMkdir
  <2> QED BY <2>1 DEF SameBut
<1> QED BY <1>1, <1>2

(* fopen, through a link too. *)
LEMMA FopenFacts ==
  ASSUME NEW k \in [Path -> Kind], WellFormed(k), NEW p \in Path,
         Parent(p) \in Path => k[Parent(p)] # "link", Openable(k, p),
         NEW j, j = AfterFopen(k, p)
  PROVE /\ j \in [Path -> Kind] /\ WellFormed(j) /\ SameBut(j, k, Follow(k, p))
        /\ \A q \in Path : k[q] # "absent" => j[q] = k[q]
        /\ Links(j) \subseteq Links(k)
<1>1. CASE StatKind(k, p) = "absent"
  <2> DEFINE f == Follow(k, p)
  <2>1. f \in Path
    BY FileSystemAssumption DEF Follow
  <2>2. k[f] = "absent"
    BY <1>1, <2>1 DEF StatKind
  <2>3. Parent(f) = <<>> \/ k[Parent(f)] = "dir"
    <3>1. StatKind(k, Parent(f)) = "dir"
      BY DEF Openable
    <3>2. Parent(f) = <<>> \/ Parent(f) \in Path
      BY <2>1, PathFacts
    <3>3. CASE f = p
      BY <3>1, <3>2, <3>3 DEF StatKind, Follow
    <3>4. CASE f # p
      <4>1. f = Link
        BY <3>4 DEF Follow
      <4>2. k[Parent(f)] = "link" => Parent(f) = <<>> \/ k[Link] = "dir"
        BY <3>1 DEF StatKind, Follow
      <4> QED BY <4>1, <4>2, <2>2, <3>1, <3>2 DEF StatKind, Follow
    <3> QED BY <3>3, <3>4
  <2>4. j = [k EXCEPT ![f] = "file"]
    BY <1>1, Zenon DEF AfterFopen
  <2> HIDE DEF f
  <2>5. SameBut(j, k, f) /\ j \in [Path -> Kind] /\ WellFormed(j)
        /\ (\A q \in Path : k[q] # "absent" => j[q] = k[q]) /\ Links(j) \subseteq Links(k)
    <3>1. "file" \in {"file", "dir"}
      OBVIOUS
    <3> QED BY <2>1, <2>2, <2>3, <2>4, <3>1, Adding
  <2> QED BY <2>5 DEF f
<1>2. CASE StatKind(k, p) # "absent"
  <2>1. j = k
    BY <1>2, Zenon DEF AfterFopen
  <2> QED BY <2>1 DEF SameBut
<1> QED BY <1>1, <1>2


-----------------------------------------------------------------------------
(* The open directories *)

LEMMA SomeOpen ==
  ASSUME NEW fs \in Seq(Frame), fs # <<>>
  PROVE /\ Len(fs) \in Nat /\ Len(fs) > 0 /\ Len(fs) \in 1 .. Len(fs)
        /\ fs[Len(fs)] \in Frame /\ fs[1] \in Frame
<1>1. Len(fs) \in Nat /\ Len(fs) # 0
  BY EmptySeq
<1>2. Len(fs) > 0 /\ Len(fs) \in 1 .. Len(fs) /\ 1 \in 1 .. Len(fs)
  BY <1>1
<1> QED BY <1>1, <1>2, ElementOfSeq

LEMMA Opened ==
  ASSUME NEW fs \in Seq(Frame), NEW fr \in Frame, NEW gs, gs = Append(fs, fr)
  PROVE /\ gs \in Seq(Frame) /\ gs # <<>> /\ Len(gs) = Len(fs) + 1 /\ Len(fs) \in Nat
        /\ gs[Len(gs)] = fr /\ \A i \in 1 .. Len(fs) : gs[i] = fs[i]
        /\ gs[1] = IF fs = <<>> THEN fr ELSE fs[1]
<1>1. /\ gs \in Seq(Frame) /\ gs # <<>> /\ Len(gs) = Len(fs) + 1 /\ Len(fs) \in Nat
      /\ gs[Len(gs)] = fr /\ \A i \in 1 .. Len(fs) : gs[i] = fs[i]
  BY AppendProperties, LenProperties
<1>2. CASE fs = <<>>
  <2>1. Len(fs) = 0
    BY <1>2, EmptySeq, Zenon
  <2> QED BY <1>1, <1>2, <2>1
<1>3. CASE fs # <<>>
  <2>1. Len(fs) > 0
    BY <1>3, SomeOpen
  <2> QED BY <1>1, <1>3, <2>1
<1> QED BY <1>2, <1>3

LEMMA Closing ==
  ASSUME NEW fs \in Seq(Frame), fs # <<>>, NEW gs, gs = SubSeq(fs, 1, Len(fs) - 1)
  PROVE /\ gs \in Seq(Frame) /\ Len(gs) = Len(fs) - 1
        /\ \A i \in 1 .. Len(fs) - 1 : gs[i] = fs[i]
        /\ gs # <<>> => gs[1] = fs[1]
        /\ gs = <<>> <=> Len(fs) = 1
<1> DEFINE n == Len(fs) - 1
<1>1. Len(fs) \in Nat /\ Len(fs) > 0 /\ n \in Nat /\ n = Len(fs) - 1
  BY SomeOpen
<1>2. \A i \in 1 .. n : fs[i] \in Frame
  <2>1. \A i \in 1 .. n : i \in 1 .. Len(fs)
    BY <1>1
  <2> QED BY <2>1, ElementOfSeq
<1>3. gs \in Seq(Frame) /\ Len(gs) = n /\ \A i \in 1 .. n : gs[i] = fs[i]
  <2>1. n + 1 - 1 = n /\ \A i \in 1 .. n : 1 + i - 1 = i
    BY <1>1
  <2> HIDE DEF n
  <2>2. gs = SubSeq(fs, 1, n)
    BY DEF n
  <2>3. gs \in Seq(Frame) /\ Len(gs) = n /\ \A i \in 1 .. n : gs[i] = fs[i]
    BY <1>1, <1>2, <2>1, <2>2, SubSeqProperties
  <2> QED BY <2>3
<1> HIDE DEF n
<1>4. gs = <<>> <=> n = 0
  BY <1>3, EmptySeq
<1> QED BY <1>1, <1>3, <1>4

LEMMA Rereading ==
  ASSUME NEW fs \in Seq(Frame), fs # <<>>, NEW X \in SUBSET Path,
         NEW gs, gs = [fs EXCEPT ![Len(fs)].pending = X]
  PROVE /\ gs \in Seq(Frame) /\ gs # <<>> /\ Len(gs) = Len(fs)
        /\ \A i \in 1 .. Len(fs) :
             /\ gs[i].name = fs[i].name /\ gs[i].dir = fs[i].dir
             /\ gs[i].pending = IF i = Len(fs) THEN X ELSE fs[i].pending
<1>1. Len(fs) \in Nat /\ Len(fs) \in 1 .. Len(fs) /\ fs[Len(fs)] \in Frame
  BY SomeOpen
<1> DEFINE fr == [fs[Len(fs)] EXCEPT !.pending = X]
<1>2. fr \in Frame /\ fr.name = fs[Len(fs)].name /\ fr.dir = fs[Len(fs)].dir /\ fr.pending = X
  BY <1>1 DEF Frame
<1>3. gs = [fs EXCEPT ![Len(fs)] = fr]
  OBVIOUS
<1> HIDE DEF fr
<1>4. /\ gs \in Seq(Frame) /\ Len(gs) = Len(fs)
      /\ \A i \in 1 .. Len(fs) : gs[i] = IF i = Len(fs) THEN fr ELSE fs[i]
  BY <1>1, <1>2, <1>3, ExceptSeq
<1>5. gs # <<>>
  BY <1>1, <1>4, EmptySeq
<1> QED BY <1>1, <1>2, <1>4, <1>5


-----------------------------------------------------------------------------
(* Which steps each function has, and what they are about. *)

Course ==
  /\ call.flag => call.op \in {"create_dir", "remove_dir"}
  /\ pc \in {"opendir", "walk", "remove"} => call.flag
  /\ pc = "rmdir" => call.op = "remove_dir" /\ ~call.flag
  /\ pc = "removed" => call.op \in {"create_dir", "remove_dir"}
  /\ pc = "removed" /\ ~call.flag => call.op = "remove_dir"
  /\ pc \in {"mkdir_stat", "mkdir"} => /\ call.op \in {"create_dir", "create_file"}
                                        /\ NewDir \in Path \cup {<<>>}
  /\ pc = "mkdir" => NewDir \in Path
  /\ pc \in {"dir_stat", "fopen", "fwrite"} => call.op = "create_file"
  /\ pc = "single" => call.op \in {"dir_exists", "file_exists", "remove_file"}

Control ==
  /\ Course
  /\ pc = "idle" => call = NoCall /\ others = 0 /\ before = kind
  /\ frames # <<>> => pc \in {"opendir", "walk", "remove"} /\ frames[1].name = call.path
  /\ pc \in {"walk", "remove"} => frames # <<>>
  /\ pc \in {"single", "rmdir"} \/ (pc = "opendir" /\ frames = <<>>) => target = call.path

(* The path of a call is not below a link, and no step creates a link. *)
NoNewLinks ==
  /\ Links(kind) \subseteq Links(before)
  /\ pc # "idle" => \A q \in Links(kind) : call.path \notin Below(q)

Typed == TypeOK /\ Control /\ NoNewLinks

LEMMA NoLinkAbove ==
  ASSUME NEW k \in [Path -> Kind], NEW c \in Path, \A q \in Links(k) : c \notin Below(q)
  PROVE /\ Parent(c) \in Path => k[Parent(c)] # "link"
        /\ Parent(c) \in Path /\ Parent(Parent(c)) \in Path => k[Parent(Parent(c))] # "link"
<1>1. ASSUME Parent(c) \in Path PROVE c \in Below(Parent(c))
  <2>1. Parent(c) \in Subtree(Parent(c)) /\ c \in Children(Parent(c))
    BY DEF Subtree, Children
  <2> QED BY <1>1, <2>1, ChildInside
<1>2. ASSUME Parent(c) \in Path, Parent(Parent(c)) \in Path
      PROVE c \in Below(Parent(Parent(c)))
  <2> DEFINE d == Parent(c)
             g == Parent(d)
  <2>1. g \in Path /\ d \in Path /\ g \in Subtree(g) /\ d \in Children(g) /\ c \in Children(d)
    BY <1>2 DEF Subtree, Children
  <2> HIDE DEF d, g
  <2>2. d \in Subtree(g)
    BY <2>1, ChildInside DEF Subtree
  <2>3. c \in Below(g)
    BY <2>1, <2>2, ChildInside
  <2> QED BY <2>3 DEF d, g
<1> QED BY <1>1, <1>2 DEF Links

(* Where _compat_mkdir may be called, and fopen. *)
LEMMA NewDirSafe ==
  ASSUME Typed, pc \in {"mkdir", "fopen"}
  PROVE /\ NewDir \in Path /\ Parent(NewDir) \in Path => kind[Parent(NewDir)] # "link"
        /\ Parent(call.path) \in Path => kind[Parent(call.path)] # "link"
<1>1. kind \in [Path -> Kind] /\ call.path \in Path
  BY DEF Typed, TypeOK
<1>2. \A q \in Links(kind) : call.path \notin Below(q)
  BY DEF Typed, NoNewLinks
<1>3. /\ Parent(call.path) \in Path => kind[Parent(call.path)] # "link"
      /\ Parent(call.path) \in Path /\ Parent(Parent(call.path)) \in Path
           => kind[Parent(Parent(call.path))] # "link"
  BY <1>1, <1>2, NoLinkAbove
<1>4. NewDir = call.path \/ NewDir = Parent(call.path)
  BY Zenon DEF NewDir
<1> QED BY <1>3, <1>4, Zenon


LEMMA ConstantFacts ==
  /\ Link \in Path /\ MaxOthers \in Nat /\ 0 \in 0 .. MaxOthers
  /\ \A k \in Trees : k \in [Path -> Kind] /\ WellFormed(k)
<1>1. Link \in Path /\ MaxOthers \in Nat /\ \A k \in Trees : k \in [Path -> Kind] /\ WellFormed(k)
  BY FileSystemAssumption, Zenon
<1> QED BY <1>1

LEMMA TypedInit == Init => Typed
<1> SUFFICES ASSUME Init PROVE Typed
  OBVIOUS
<1>1. Link \in Path /\ kind \in [Path -> Kind] /\ WellFormed(kind) /\ 0 \in 0 .. MaxOthers
  BY ConstantFacts DEF Init
<1>2. <<>> \in Seq(Frame)
  BY EmptySeq
<1>3. TypeOK
  BY <1>1, <1>2 DEF Init, TypeOK, NoCall, Op
<1>4. Control
  BY DEF Init, Control, Course, NoCall
<1>5. NoNewLinks
  BY DEF Init, NoNewLinks
<1> QED BY <1>3, <1>4, <1>5 DEF Typed

LEMMA TypedStep == Typed /\ [Next]_vars => Typed'
<1> SUFFICES ASSUME Typed, [Next]_vars PROVE Typed'
  OBVIOUS
<1> USE DEF Typed
<1>a. ASSUME UNCHANGED <<kind, before>>, pc # "idle", UNCHANGED call PROVE NoNewLinks'
  BY <1>a DEF NoNewLinks, Links
<1>1. ASSUME NEW op \in Op, NEW p \in Path, NEW flag \in BOOLEAN, Call(op, p, flag)
      PROVE Typed'
  <2>0. /\ op = "remove_dir" => pc' = IF flag THEN "opendir" ELSE "rmdir"
        /\ op = "create_dir" => pc' = IF flag THEN "opendir" ELSE "mkdir_stat"
        /\ op = "create_file" => pc' = "dir_stat"
        /\ op \in {"dir_exists", "file_exists", "remove_file"} => pc' = "single"
    BY <1>1 DEF Call, FirstStep, Op
  <2>1. TypeOK'
    <3>1. pc' \in {"opendir", "rmdir", "mkdir_stat", "dir_stat", "single"}
      BY <2>0 DEF Op
    <3> QED BY <1>1, <3>1, ConstantFacts DEF Call, TypeOK, WellFormed
  <2>2. Course'
    <3>1. call' = [op |-> op, path |-> p, flag |-> flag] /\ (flag => op \in {"create_dir", "remove_dir"})
      BY <1>1 DEF Call
    <3>2. op = "create_dir" => NewDir' \in Path
      BY <3>1 DEF NewDir
    <3> QED BY <2>0, <3>1, <3>2 DEF Course, Op
  <2>3. Control'
    BY <1>1, <2>0, <2>2 DEF Call, Control, Op
  <2>4. NoNewLinks'
    BY <1>1 DEF Call, NoNewLinks, Links
  <2> QED BY <2>1, <2>3, <2>4
<1>2. CASE OpenDir
  <2> USE <1>2 DEF OpenDir
  <2>1. TypeOK'
    <3>1. CASE StatKind(kind, target) = "dir"
      <4> DEFINE fr == [name |-> target, dir |-> Follow(kind, target),
                        pending |-> Listed(Follow(kind, target))]
      <4>1. fr \in Frame
        BY ConstantFacts DEF TypeOK, Frame, Follow, Listed, Entries, Children
      <4>2. frames' = Append(frames, fr)
        BY <3>1
      <4> HIDE DEF fr
      <4>3. frames' \in Seq(Frame)
        BY <4>1, <4>2, Opened DEF TypeOK
      <4> QED BY <3>1, <4>3 DEF TypeOK, WellFormed
    <3>2. CASE StatKind(kind, target) # "dir"
      BY <3>2 DEF TypeOK, WellFormed, Resume
    <3> QED BY <3>1, <3>2
  <2>2. Control'
    <3>1. CASE StatKind(kind, target) = "dir"
      <4> DEFINE fr == [name |-> target, dir |-> Follow(kind, target),
                        pending |-> Listed(Follow(kind, target))]
      <4>1. fr \in Frame /\ fr.name = target
        BY ConstantFacts DEF TypeOK, Frame, Follow, Listed, Entries, Children
      <4>2. frames' = Append(frames, fr)
        BY <3>1
      <4> HIDE DEF fr
      <4>3. frames' # <<>> /\ frames'[1] = IF frames = <<>> THEN fr ELSE frames[1]
        <5>1. frames \in Seq(Frame)
          BY DEF TypeOK
        <5> HIDE DEF OpenDir
        <5> QED BY <4>1, <4>2, <5>1, Opened
      <4>4. frames'[1].name = call.path
        BY <4>1, <4>3 DEF Control
      <4> QED BY <3>1, <4>3, <4>4 DEF Control, Course, NewDir
    <3>2. CASE StatKind(kind, target) # "dir"
      BY <3>2 DEF Control, Course, NewDir, Resume, TypeOK
    <3> QED BY <3>1, <3>2
  <2>3. NoNewLinks'
    BY <1>a
  <2> QED BY <2>1, <2>2, <2>3
<1>3. ASSUME NEW e \in Path, ReadDir(e) PROVE Typed'
  <2> USE <1>3 DEF ReadDir
  <2>1. frames # <<>>
    BY DEF Control
  <2>2. /\ frames' \in Seq(Frame) /\ frames' # <<>> /\ frames'[1].name = frames[1].name
    <3>1. Remaining(e) \in SUBSET Path
      BY <2>1, SomeOpen DEF TypeOK, Remaining, Top, Frame
    <3>2. Len(frames) \in Nat /\ Len(frames) > 0
      BY <2>1, SomeOpen DEF TypeOK
    <3>3. 1 \in 1 .. Len(frames)
      BY <3>2
    <3>4. /\ frames' \in Seq(Frame) /\ frames' # <<>> /\ Len(frames') = Len(frames)
          /\ \A i \in 1 .. Len(frames) : frames'[i].name = frames[i].name
      <4> DEFINE X == Remaining(e)
      <4>1. /\ frames \in Seq(Frame) /\ X \in SUBSET Path
            /\ frames' = [frames EXCEPT ![Len(frames)].pending = X]
        BY <3>1 DEF TypeOK
      <4> HIDE DEF X, ReadDir
      <4>2. /\ frames' \in Seq(Frame) /\ frames' # <<>> /\ Len(frames') = Len(frames)
            /\ \A i \in 1 .. Len(frames) : frames'[i].name = frames[i].name
        <5>1. frames[Len(frames)] \in Frame
          BY <2>1, <4>1, SomeOpen
        <5> QED BY <2>1, <4>1, <5>1, Rereading DEF Frame
      <4> QED BY <4>2
    <3> QED BY <3>3, <3>4
  <2>3. TypeOK'
    BY <2>2 DEF TypeOK, WellFormed, StepFor
  <2>4. Control'
    BY <2>1, <2>2 DEF Control, Course, NewDir, StepFor
  <2>5. NoNewLinks'
    BY <1>a
  <2> QED BY <2>3, <2>4, <2>5
<1>4. CASE RemoveEntry
  <2> USE <1>4 DEF RemoveEntry
  <2>1. kind' \in [Path -> Kind] /\ WellFormed(kind') /\ Links(kind') \subseteq Links(kind)
    BY RemoveFacts DEF TypeOK
  <2>2. TypeOK'
    BY <2>1 DEF TypeOK, WellFormed
  <2>3. Control'
    BY DEF Control, Course, NewDir
  <2>4. NoNewLinks'
    BY <2>1 DEF NoNewLinks, Links
  <2> QED BY <2>2, <2>3, <2>4
<1>5. CASE RemoveDir
  <2> USE <1>5 DEF RemoveDir
  <2>0. frames # <<>>
    BY DEF Control
  <2>1. Top \in Frame /\ Top.name \in Path
    BY <2>0, SomeOpen DEF TypeOK, Top, Frame
  <2>2. kind' \in [Path -> Kind] /\ WellFormed(kind') /\ Links(kind') \subseteq Links(kind)
    BY <2>1, RemoveFacts DEF TypeOK
  <2>3. frames' \in Seq(Frame) /\ (frames' # <<>> => frames'[1] = frames[1])
    BY <2>0, Closing DEF TypeOK, Pop
  <2>4. TypeOK'
    BY <2>2, <2>3 DEF TypeOK, WellFormed, RmdirError, Resume
  <2>5. Control'
    BY <2>0, <2>3 DEF Control, Course, NewDir, Resume
  <2>6. NoNewLinks'
    BY <2>2 DEF NoNewLinks, Links, Resume
  <2> QED BY <2>4, <2>5, <2>6
<1>6. CASE RemoveEmptyDir
  <2> USE <1>6 DEF RemoveEmptyDir
  <2>1. kind' \in [Path -> Kind] /\ WellFormed(kind') /\ Links(kind') \subseteq Links(kind)
    BY RemoveFacts DEF TypeOK
  <2>2. TypeOK'
    BY <2>1 DEF TypeOK, WellFormed, RmdirError
  <2>3. Control'
    BY DEF Control, Course, NewDir
  <2>4. NoNewLinks'
    BY <2>1 DEF NoNewLinks, Links
  <2> QED BY <2>2, <2>3, <2>4
<1>7. CASE Removed
  <2> USE <1>7 DEF Removed
  <2>1. TypeOK'
    BY DEF TypeOK, WellFormed, RemoveDirResult, Return
  <2>2. Control'
    BY DEF Control, Course, NewDir, RemoveDirResult, Return, TypeOK
  <2>3. NoNewLinks'
    BY <1>a
  <2> QED BY <2>1, <2>2, <2>3
<1>8. CASE MkdirStat
  <2> USE <1>8 DEF MkdirStat
  <2>1. TypeOK'
    BY DEF TypeOK, WellFormed, Return
  <2>2. Control'
    BY DEF Control, Course, NewDir, Return, StatKind
  <2>3. NoNewLinks'
    BY <1>a
  <2> QED BY <2>1, <2>2, <2>3
<1>9. CASE Mkdir
  <2> USE <1>9 DEF Mkdir
  <2>1. kind' \in [Path -> Kind] /\ WellFormed(kind') /\ Links(kind') \subseteq Links(kind)
    <3>1. NewDir \in Path
      BY DEF Control, Course
    <3> QED BY <3>1, NewDirSafe, MkdirFacts DEF TypeOK
  <2>2. TypeOK'
    BY <2>1 DEF TypeOK, WellFormed, Return
  <2>3. Control'
    BY DEF Control, Course, NewDir, Return
  <2>4. NoNewLinks'
    BY <2>1 DEF NoNewLinks, Links
  <2> QED BY <2>2, <2>3, <2>4
<1>10. CASE DirStat
  <2> USE <1>10 DEF DirStat
  <2>1. TypeOK'
    BY DEF TypeOK, WellFormed
  <2>2. NewDir \in Path \cup {<<>>}
    BY PathFacts DEF Control, Course, NewDir, TypeOK
  <2>3. Control'
    BY <2>2 DEF Control, Course, NewDir
  <2>4. NoNewLinks'
    BY <1>a
  <2> QED BY <2>1, <2>3, <2>4
<1>11. CASE Fopen
  <2> USE <1>11 DEF Fopen
  <2>1. kind' \in [Path -> Kind] /\ WellFormed(kind') /\ Links(kind') \subseteq Links(kind)
    <3>1. CASE Openable(kind, call.path)
      BY <3>1, NewDirSafe, FopenFacts DEF TypeOK
    <3>2. CASE ~Openable(kind, call.path)
      BY <3>2 DEF TypeOK
    <3> QED BY <3>1, <3>2
  <2>2. TypeOK'
    BY <2>1 DEF TypeOK, WellFormed, Return
  <2>3. Control'
    BY DEF Control, Course, NewDir, Return
  <2>4. NoNewLinks'
    BY <2>1 DEF NoNewLinks, Links
  <2> QED BY <2>2, <2>3, <2>4
<1>12. CASE Fwrite
  <2> USE <1>12 DEF Fwrite, Return
  <2>1. TypeOK'
    BY DEF TypeOK, WellFormed
  <2>2. Control'
    BY DEF Control, Course, NewDir
  <2>3. NoNewLinks'
    BY <1>a
  <2> QED BY <2>1, <2>2, <2>3
<1>13. CASE RemoveFile
  <2> USE <1>13 DEF RemoveFile, Return
  <2>1. kind' \in [Path -> Kind] /\ WellFormed(kind') /\ Links(kind') \subseteq Links(kind)
    BY RemoveFacts DEF TypeOK
  <2>2. TypeOK'
    BY <2>1 DEF TypeOK, WellFormed
  <2>3. Control'
    BY DEF Control, Course, NewDir
  <2>4. NoNewLinks'
    BY <2>1 DEF NoNewLinks, Links
  <2> QED BY <2>2, <2>3, <2>4
<1>14. CASE DirExists \/ FileExists
  <2> USE <1>14 DEF DirExists, FileExists, Return
  <2>1. TypeOK'
    BY DEF TypeOK, WellFormed
  <2>2. Control'
    BY DEF Control, Course, NewDir
  <2>3. NoNewLinks'
    BY <1>a
  <2> QED BY <2>1, <2>2, <2>3
<1>15. CASE Done
  <2> USE <1>15 DEF Done
  <2>1. TypeOK'
    BY ConstantFacts DEF TypeOK, WellFormed, NoCall, Op
  <2>2. Control'
    BY DEF Control, Course, NoCall
  <2>3. NoNewLinks'
    BY DEF NoNewLinks, Links
  <2> QED BY <2>1, <2>2, <2>3
<1>16. ASSUME NEW p \in Path, NEW k \in {"absent", "file", "dir"}, OtherProcess(p, k)
       PROVE Typed'
  <2> USE <1>16 DEF OtherProcess
  <2>1. kind' \in [Path -> Kind] /\ WellFormed(kind') /\ Links(kind') \subseteq Links(kind)
    BY DEF TypeOK, Links, Kind
  <2>2. others' \in 0 .. MaxOthers
    <3>1. /\ others \in 0 .. MaxOthers /\ MaxOthers \in Nat /\ others < MaxOthers
          /\ others' = others + 1
      BY ConstantFacts DEF TypeOK
    <3> QED BY <3>1
  <2>3. TypeOK'
    BY <2>1, <2>2 DEF TypeOK, WellFormed
  <2>4. Control'
    BY DEF Control, Course, NewDir
  <2>5. NoNewLinks'
    BY <2>1 DEF NoNewLinks, Links
  <2> QED BY <2>3, <2>4, <2>5
<1>17. CASE UNCHANGED vars
  <2> USE <1>17 DEF vars
  <2>1. TypeOK'
    BY DEF TypeOK, WellFormed
  <2>2. Control'
    BY DEF Control, Course, NewDir
  <2>3. NoNewLinks'
    BY DEF NoNewLinks, Links
  <2> QED BY <2>1, <2>2, <2>3
<1> HIDE DEF Typed
<1> QED
  BY <1>1, <1>2, <1>3, <1>4, <1>5, <1>6, <1>7, <1>8, <1>9, <1>10, <1>11, <1>12, <1>13,
     <1>14, <1>15, <1>16, <1>17 DEF Next, Step


(* The tree and the variables of the calls have their types: the invariant Typed, which the
   rest builds on. *)
THEOREM FileSystemTyped == Spec => []Typed
BY TypedInit, TypedStep, PTL DEF Spec

(* TypeOK: the variables have their types, and the tree is a tree after every
   step of the code and of other processes. *)
THEOREM Typing == Spec => []TypeOK
<1>1. Typed => TypeOK
  BY DEF Typed
<1> QED BY <1>1, FileSystemTyped, PTL

-----------------------------------------------------------------------------
(* Without links, _compat_rmdir stays at its path and below. *)

Local ==
  ~HasLinks(Path) =>
    /\ target \in Subtree(call.path)
    /\ \A i \in 1 .. Len(frames) : /\ frames[i].name \in Subtree(call.path)
                                    /\ frames[i].pending \subseteq Subtree(call.path)

LEMMA NoLinks ==
  ASSUME Typed, ~HasLinks(Path), NEW p \in Path
  PROVE kind[p] # "link" /\ Follow(kind, p) = p
<1>1. Links(before) = {}
  BY DEF HasLinks, Links
<1> QED BY <1>1 DEF Typed, NoNewLinks, Links, Follow

LEMMA LocalInit == Init => Local
<1> SUFFICES ASSUME Init PROVE Local
  OBVIOUS
<1>1. target = call.path
  BY DEF Init, NoCall
<1>2. frames = <<>> /\ Len(<<>>) = 0
  BY EmptySeq DEF Init
<1>3. Len(frames) = 0
  BY <1>2, Zenon
<1> QED BY <1>1, <1>3 DEF Local, Subtree

LEMMA LocalStep == Typed /\ Typed' /\ Local /\ [Next]_vars => Local'
<1> SUFFICES ASSUME Typed, Typed', Local, [Next]_vars, (~HasLinks(Path))'
             PROVE (/\ target \in Subtree(call.path)
                    /\ \A i \in 1 .. Len(frames) :
                         /\ frames[i].name \in Subtree(call.path)
                         /\ frames[i].pending \subseteq Subtree(call.path))'
  BY DEF Local
<1>a. ASSUME UNCHANGED before
      PROVE ~HasLinks(Path)
  BY <1>a DEF HasLinks
<1>b. frames \in Seq(Frame) /\ Len(frames) \in Nat /\ Len(<<>>) = 0
  BY EmptySeq, LenProperties DEF Typed, TypeOK
<1>c. ASSUME UNCHANGED <<call, before, frames, target>>
      PROVE (/\ target \in Subtree(call.path)
             /\ \A i \in 1 .. Len(frames) :
                  /\ frames[i].name \in Subtree(call.path)
                  /\ frames[i].pending \subseteq Subtree(call.path))'
  BY <1>c, <1>a DEF Local, Subtree
<1>d. ASSUME pc = "idle" \/ frames = <<>>, UNCHANGED frames
      PROVE Len(frames') = 0
  BY <1>d, <1>b DEF Typed, Control
<1>1. ASSUME NEW op \in Op, NEW p \in Path, NEW flag \in BOOLEAN, Call(op, p, flag)
      PROVE Len(frames') = 0 /\ target' = call'.path
  BY <1>1, <1>d DEF Call
<1>2. CASE Done
  <2>1. Len(frames') = 0 /\ target' = call'.path
    <3>1. frames = <<>>
      BY <1>2 DEF Done, Typed, Control
    <3> QED BY <1>2, <1>d, <3>1 DEF Done, NoCall
  <2> QED BY <2>1 DEF Subtree
<1>3. CASE OpenDir
  <2>1. UNCHANGED <<call, before, target>> /\ ~HasLinks(Path)
    BY <1>3, <1>a DEF OpenDir
  <2>2. CASE StatKind(kind, target) = "dir"
    <3> DEFINE d == Follow(kind, target)
               fr == [name |-> target, dir |-> d, pending |-> Listed(d)]
    <3>1. target \in Path /\ d = target
      BY <2>1, NoLinks DEF Typed, TypeOK
    <3>2. fr \in Frame /\ fr.name = target /\ fr.pending = Listed(target)
      BY <3>1 DEF Frame, Listed, Entries, Children
    <3>3. frames' = Append(frames, fr)
      BY <1>3, <2>2 DEF OpenDir
    <3>4. fr.name \in Subtree(call.path) /\ fr.pending \subseteq Subtree(call.path)
      <4>1. target \in Subtree(call.path) /\ call.path \in Path
        BY <2>1 DEF Local, Typed, TypeOK
      <4>2. Listed(target) \subseteq Below(call.path)
        BY <4>1, ChildInside DEF Listed, Entries
      <4> QED BY <4>1, <4>2, <3>2 DEF Subtree
    <3> HIDE DEF fr
    <3>5. /\ Len(frames') = Len(frames) + 1 /\ frames'[Len(frames')] = fr
          /\ \A i \in 1 .. Len(frames) : frames'[i] = frames[i]
      BY <1>b, <3>2, <3>3, Opened
    <3>6. \A i \in 1 .. Len(frames') : i \in 1 .. Len(frames) \/ i = Len(frames')
      BY <1>b, <3>5
    <3>7. \A i \in 1 .. Len(frames') : /\ frames'[i].name \in Subtree(call.path)
                                       /\ frames'[i].pending \subseteq Subtree(call.path)
      BY <3>4, <3>5, <3>6, <2>1 DEF Local
    <3> QED BY <2>1, <3>7 DEF Local, Subtree
  <2>3. CASE StatKind(kind, target) # "dir"
    <3>1. UNCHANGED <<call, before, frames, target>>
      BY <1>3, <2>3 DEF OpenDir
    <3> QED BY <3>1, <1>c
  <2> QED BY <2>2, <2>3
<1>4. ASSUME NEW e \in Path, ReadDir(e)
      PROVE /\ target' \in Subtree(call.path)
            /\ \A i \in 1 .. Len(frames') : /\ frames'[i].name \in Subtree(call.path)
                                            /\ frames'[i].pending \subseteq Subtree(call.path)
  <2>1. UNCHANGED <<call, before>> /\ ~HasLinks(Path) /\ frames # <<>> /\ target' = e
    BY <1>4, <1>a DEF ReadDir, Typed, Control
  <2>2. Top \in Frame /\ Top.pending \subseteq Subtree(call.path)
    <3>1. Len(frames) \in 1 .. Len(frames) /\ frames[Len(frames)] \in Frame
      BY <1>b, <2>1, SomeOpen
    <3> QED BY <3>1, <2>1 DEF Local, Top
  <2> DEFINE X == Remaining(e)
  <2>3. /\ X \in SUBSET Path /\ X \subseteq Subtree(call.path) /\ e \in Subtree(call.path)
    BY <1>4, <2>2 DEF Remaining, Frame, ReadDir
  <2>4. frames' = [frames EXCEPT ![Len(frames)].pending = X]
    BY <1>4 DEF ReadDir
  <2> HIDE DEF X
  <2>5. /\ Len(frames') = Len(frames)
        /\ \A i \in 1 .. Len(frames) :
             /\ frames'[i].name = frames[i].name
             /\ frames'[i].pending = IF i = Len(frames) THEN X ELSE frames[i].pending
    <3>1. frames[Len(frames)] \in Frame
      BY <1>b, <2>1, SomeOpen
    <3> QED BY <1>b, <2>1, <2>3, <2>4, <3>1, Rereading DEF Frame
  <2>6. \A i \in 1 .. Len(frames') : /\ frames'[i].name \in Subtree(call.path)
                                     /\ frames'[i].pending \subseteq Subtree(call.path)
    <3> TAKE i \in 1 .. Len(frames')
    <3>1. i \in 1 .. Len(frames) /\ frames[i].name \in Subtree(call.path)
          /\ frames[i].pending \subseteq Subtree(call.path)
      BY <2>1, <2>5 DEF Local
    <3>2. /\ frames'[i].name = frames[i].name
          /\ frames'[i].pending = X \/ frames'[i].pending = frames[i].pending
      BY <2>5, <3>1, Zenon
    <3> QED BY <2>3, <3>1, <3>2, Zenon
  <2> QED BY <2>1, <2>3, <2>6
<1>5. CASE RemoveDir
  <2>1. UNCHANGED <<call, before, target>> /\ ~HasLinks(Path) /\ frames # <<>>
    BY <1>5, <1>a DEF RemoveDir, Typed, Control
  <2>2. Len(frames') = Len(frames) - 1 /\ \A i \in 1 .. Len(frames) - 1 : frames'[i] = frames[i]
    BY <1>5, <1>b, <2>1, Closing DEF RemoveDir, Pop
  <2>3. \A i \in 1 .. Len(frames') : i \in 1 .. Len(frames) /\ frames'[i] = frames[i]
    BY <1>b, <2>2
  <2>4. \A i \in 1 .. Len(frames') : /\ frames'[i].name \in Subtree(call.path)
                                     /\ frames'[i].pending \subseteq Subtree(call.path)
    BY <2>1, <2>3 DEF Local
  <2> QED BY <2>1, <2>4 DEF Local, Subtree
<1>6. CASE RemoveEntry \/ RemoveEmptyDir \/ Removed \/ MkdirStat \/ Mkdir \/ DirStat
           \/ Fopen \/ Fwrite \/ RemoveFile \/ DirExists \/ FileExists
           \/ (\E p \in Path, k \in {"absent", "file", "dir"} : OtherProcess(p, k))
           \/ UNCHANGED vars
  <2>1. UNCHANGED <<call, before, frames, target>>
    BY <1>6, Zenon DEF RemoveEntry, RemoveEmptyDir, Removed, MkdirStat, Mkdir, DirStat, Fopen,
       Fwrite, RemoveFile, DirExists, FileExists, OtherProcess, vars
  <2> QED BY <2>1, <1>c
<1>7. ASSUME NEW op \in Op, NEW p \in Path, NEW flag \in BOOLEAN, Call(op, p, flag)
      PROVE (/\ target \in Subtree(call.path)
             /\ \A i \in 1 .. Len(frames) :
                  /\ frames[i].name \in Subtree(call.path)
                  /\ frames[i].pending \subseteq Subtree(call.path))'
  BY <1>1, <1>7 DEF Subtree
<1>8. ASSUME NEW e \in Path, ReadDir(e)
      PROVE (/\ target \in Subtree(call.path)
             /\ \A i \in 1 .. Len(frames) :
                  /\ frames[i].name \in Subtree(call.path)
                  /\ frames[i].pending \subseteq Subtree(call.path))'
  <2>1. UNCHANGED call
    BY <1>8 DEF ReadDir
  <2> QED BY <2>1, <1>4, <1>8 DEF Subtree
<1> QED
  BY <1>2, <1>3, <1>5, <1>6, <1>7, <1>8, Zenon DEF Next, Step


-----------------------------------------------------------------------------
(* What a call changed, less what other processes did. *)

Elsewhere == Path \ (Subtree(call.path) \cup (IF call.op = "create_file" THEN {NewDir} ELSE {}))
Lost == {p \in Path : before[p] # "absent" /\ kind[p] = "absent"}
Left == {p \in Subtree(call.path) : kind[p] # "absent"}

InsideCounted == ~HasLinks(Path) => Count(Changed(Elsewhere), others)
KeepsCounted ==
  call.op \in {"create_dir", "create_file"} /\ ~call.flag => Count(Lost, others)
LeftCounted ==
  /\ call.op = "remove_dir"
  /\ \/ pc = "removed" /\ errno = ""
     \/ pc = "returned" /\ result = "true"
  => Count(Left, others)

Counted == InsideCounted /\ KeepsCounted /\ LeftCounted

LEMMA OthersCounted == Typed => others \in Nat
<1> SUFFICES ASSUME Typed PROVE others \in Nat
  OBVIOUS
<1>1. others \in 0 .. MaxOthers
  BY Zenon DEF Typed, TypeOK
<1> QED BY <1>1, ConstantFacts

LEMMA CountedInit == Init => Counted
<1> SUFFICES ASSUME Init PROVE Counted
  OBVIOUS
<1>1. Changed(Elsewhere) = {}
  BY DEF Changed, Init
<1>2. InsideCounted
  BY <1>1, CountNothing DEF InsideCounted, Init
<1>3. KeepsCounted /\ LeftCounted
  BY DEF KeepsCounted, LeftCounted, Init, NoCall
<1> QED BY <1>2, <1>3 DEF Counted

(* A step that changes no entry. *)
LEMMA CountedQuiet ==
  ASSUME Counted, UNCHANGED <<kind, before, others, call>>
  PROVE InsideCounted' /\ KeepsCounted' /\ Left' = Left
<1>1. Left' = Left /\ Lost' = Lost /\ Elsewhere' = Elsewhere /\ (HasLinks(Path)' <=> HasLinks(Path))
  BY DEF Left, Lost, Elsewhere, NewDir, HasLinks
<1>2. Changed(Elsewhere)' = Changed(Elsewhere)
  BY <1>1 DEF Changed
<1>3. InsideCounted'
  BY <1>1, <1>2 DEF Counted, InsideCounted
<1>4. KeepsCounted'
  BY <1>1 DEF Counted, KeepsCounted
<1> QED BY <1>1, <1>3, <1>4

(* A step of the call that changes the entry at p. *)
LEMMA CountedOwn ==
  ASSUME Counted, UNCHANGED <<before, others, call>>,
         NEW p, SameBut(kind', kind, p), ~HasLinks(Path) => p \notin Elsewhere
  PROVE InsideCounted'
<1>1. Elsewhere' = Elsewhere /\ (HasLinks(Path)' <=> HasLinks(Path))
  BY DEF Elsewhere, NewDir, HasLinks
<1>2. SUFFICES ASSUME ~HasLinks(Path) PROVE Changed(Elsewhere)' = Changed(Elsewhere)
  BY <1>1 DEF Counted, InsideCounted
<1>3. \A q \in Elsewhere : q \in Path /\ q # p
  BY <1>2 DEF Elsewhere
<1>4. \A q \in Elsewhere : kind'[q] = kind[q]
  BY <1>3 DEF SameBut
<1> QED BY <1>1, <1>4 DEF Changed

(* A step of the call that removes nothing. *)
LEMMA CountedKeeping ==
  ASSUME Typed, Counted, UNCHANGED <<before, others, call>>,
         \A q \in Path : kind[q] # "absent" => kind'[q] = kind[q]
  PROVE KeepsCounted'
<1>1. Lost' \subseteq Lost
  BY DEF Lost
<1>2. others \in Nat
  BY OthersCounted
<1>3. Count(Lost, others) => Count(Lost', others)
  BY <1>1, <1>2, CountKept
<1> QED BY <1>3 DEF Counted, KeepsCounted

(* A step of another process. *)
LEMMA CountedOther ==
  ASSUME Typed, Counted, NEW p \in Path, NEW k \in {"absent", "file", "dir"},
         OtherProcess(p, k)
  PROVE Counted'
<1>1. /\ UNCHANGED <<call, pc, errno, result, before>> /\ others' = others + 1
      /\ kind' = [kind EXCEPT ![p] = k] /\ kind \in [Path -> Kind] /\ others \in Nat
  BY OthersCounted DEF OtherProcess, Typed, TypeOK
<1>2. \A q \in Path : q # p => kind'[q] = kind[q]
  BY <1>1
<1>3. Elsewhere' = Elsewhere /\ (HasLinks(Path)' <=> HasLinks(Path)) /\ Elsewhere \subseteq Path
  BY <1>1 DEF Elsewhere, NewDir, HasLinks
<1>4. Changed(Elsewhere)' \subseteq Changed(Elsewhere) \cup {p}
  BY <1>1, <1>2, <1>3 DEF Changed
<1>5. Lost' \subseteq Lost \cup {p}
  BY <1>1, <1>2 DEF Lost
<1>6. Left' \subseteq Left \cup {p}
  <2>1. Subtree(call.path)' = Subtree(call.path) /\ call.path \in Path
    BY <1>1 DEF Typed, TypeOK
  <2>2. Subtree(call.path) \subseteq Path
    BY <2>1 DEF Subtree, Below
  <2> QED BY <1>2, <2>1, <2>2 DEF Left
<1>7. Count(Changed(Elsewhere), others) => Count(Changed(Elsewhere)', others + 1)
  BY <1>1, <1>4, CountGrown
<1>8. Count(Lost, others) => Count(Lost', others + 1)
  BY <1>1, <1>5, CountGrown
<1>9. Count(Left, others) => Count(Left', others + 1)
  BY <1>1, <1>6, CountGrown
<1>10. InsideCounted'
  BY <1>1, <1>3, <1>7 DEF Counted, InsideCounted
<1>11. KeepsCounted'
  BY <1>1, <1>8 DEF Counted, KeepsCounted
<1>12. LeftCounted'
  BY <1>1, <1>9 DEF Counted, LeftCounted
<1> QED BY <1>10, <1>11, <1>12 DEF Counted

(* rmdir of the path of the call succeeds only if nothing is left. *)
LEMMA NothingLeft ==
  ASSUME Typed, Typed', UNCHANGED <<call, others>>, kind' = AfterRmdir(kind, call.path),
         RmdirError(kind, call.path) = ""
  PROVE Count(Left', others')
<1>1. call.path \in Path /\ kind \in [Path -> Kind] /\ kind' \in [Path -> Kind] /\ WellFormed(kind')
  BY DEF Typed, TypeOK, WellFormed
<1>2. kind' = Deleted(kind, call.path)
  BY Zenon DEF AfterRmdir
<1>3. kind'[call.path] = "absent"
  BY <1>1, <1>2 DEF Deleted
<1>4. \A p \in Below(call.path) : kind'[p] = "absent"
  <2> DEFINE j == kind'
             c == call.path
  <2>1. j \in [Path -> Kind] /\ WellFormed(j) /\ c \in Path /\ j[c] # "dir"
    BY <1>1, <1>3
  <2> HIDE DEF j, c
  <2>2. \A p \in Below(c) : j[p] = "absent"
    BY <2>1, NothingBelow
  <2> QED BY <2>2 DEF j, c
<1>5. Left' = {}
  BY <1>3, <1>4 DEF Left, Subtree
<1>6. others' \in Nat
  BY OthersCounted DEF Typed
<1> QED BY <1>5, <1>6, CountNothing


LEMMA CountedStep == Typed /\ Typed' /\ Local /\ Counted /\ [Next]_vars => Counted'
<1> SUFFICES ASSUME Typed, Typed', Local, Counted, [Next]_vars PROVE Counted'
  OBVIOUS
<1>a. kind \in [Path -> Kind] /\ WellFormed(kind) /\ call.path \in Path /\ target \in Path
  BY DEF Typed, TypeOK
<1>b. call.path \notin Elsewhere
  BY DEF Elsewhere, Subtree
<1>1. ASSUME NEW op \in Op, NEW p \in Path, NEW flag \in BOOLEAN, Call(op, p, flag)
      PROVE Counted'
  <2>1. before' = kind' /\ others' = 0 /\ pc' \notin {"removed", "returned"}
    BY <1>1 DEF Call, FirstStep, Op
  <2>2. Changed(Elsewhere)' = {} /\ Lost' = {}
    BY <2>1 DEF Changed, Lost
  <2>3. Count({}, others')
    BY <2>1, CountNothing
  <2> QED BY <2>1, <2>2, <2>3 DEF Counted, InsideCounted, KeepsCounted, LeftCounted
<1>2. CASE Done
  <2>1. before' = kind' /\ others' = 0 /\ pc' = "idle"
    BY <1>2 DEF Done
  <2>2. Changed(Elsewhere)' = {} /\ Lost' = {}
    BY <2>1 DEF Changed, Lost
  <2>3. Count({}, others')
    BY <2>1, CountNothing
  <2> QED BY <2>1, <2>2, <2>3 DEF Counted, InsideCounted, KeepsCounted, LeftCounted
<1>3. CASE OpenDir
  <2>1. InsideCounted' /\ KeepsCounted'
    BY <1>3, CountedQuiet DEF OpenDir
  <2>2. LeftCounted'
    BY <1>3 DEF OpenDir, Resume, LeftCounted
  <2> QED BY <2>1, <2>2 DEF Counted
<1>4. ASSUME NEW e \in Path, ReadDir(e) PROVE Counted'
  <2>1. InsideCounted' /\ KeepsCounted'
    BY <1>4, CountedQuiet DEF ReadDir
  <2>2. pc' \in {"remove", "opendir"}
    BY <1>4 DEF ReadDir, StepFor
  <2>3. LeftCounted'
    BY <2>2 DEF LeftCounted
  <2> QED BY <2>1, <2>3 DEF Counted
<1>5. CASE RemoveEntry
  <2>1. UNCHANGED <<before, others, call>> /\ pc' = "walk" /\ kind' = AfterRemove(kind, target)
    BY <1>5 DEF RemoveEntry
  <2>2. SameBut(kind', kind, target)
    BY <1>a, <2>1, RemoveFacts
  <2>3. ~HasLinks(Path) => target \notin Elsewhere
    BY DEF Local, Elsewhere
  <2>4. InsideCounted'
    BY <2>1, <2>2, <2>3, CountedOwn
  <2>5. call.flag
    BY <1>5 DEF RemoveEntry, Typed, Control, Course
  <2>6. KeepsCounted' /\ LeftCounted'
    BY <2>1, <2>5 DEF KeepsCounted, LeftCounted
  <2> QED BY <2>4, <2>6 DEF Counted
<1>6. CASE RemoveDir
  <2>0. frames \in Seq(Frame) /\ frames # <<>>
    BY <1>6 DEF RemoveDir, Typed, TypeOK, Control
  <2>1. /\ UNCHANGED <<before, others, call>> /\ kind' = AfterRmdir(kind, Top.name)
        /\ errno' = RmdirError(kind, Top.name)
        /\ pc' = IF Pop = <<>> THEN "removed" ELSE "walk"
    BY <1>6 DEF RemoveDir, Resume
  <2>2. Len(frames) \in 1 .. Len(frames) /\ Top.name \in Path
    BY <2>0, SomeOpen DEF Top, Frame
  <2>3. SameBut(kind', kind, Top.name)
    BY <1>a, <2>1, <2>2, RemoveFacts
  <2>4. ~HasLinks(Path) => Top.name \notin Elsewhere
    BY <2>2 DEF Local, Elsewhere, Top
  <2>5. InsideCounted'
    BY <2>1, <2>3, <2>4, CountedOwn
  <2>6. call.flag
    BY <1>6 DEF RemoveDir, Typed, Control, Course
  <2>7. KeepsCounted'
    BY <2>1, <2>6 DEF KeepsCounted
  <2>8. LeftCounted'
    <3>1. SUFFICES ASSUME pc' = "removed", errno' = "" PROVE Count(Left', others')
      BY <2>1, Zenon DEF LeftCounted
    <3>2. Pop = <<>>
      BY <2>1, <3>1
    <3>3. Len(frames) = 1
      BY <2>0, <3>2, Closing DEF Pop
    <3>4. Top.name = call.path
      BY <2>0, <3>3 DEF Top, Typed, Control
    <3> QED BY <2>1, <3>1, <3>4, NothingLeft
  <2> QED BY <2>5, <2>7, <2>8 DEF Counted
<1>7. CASE RemoveEmptyDir
  <2>1. /\ UNCHANGED <<before, others, call>> /\ kind' = AfterRmdir(kind, call.path)
        /\ errno' = RmdirError(kind, call.path) /\ call.op = "remove_dir" /\ pc' = "removed"
    BY <1>7 DEF RemoveEmptyDir, Typed, Control, Course
  <2>2. SameBut(kind', kind, call.path)
    BY <1>a, <2>1, RemoveFacts
  <2>3. InsideCounted'
    BY <1>b, <2>1, <2>2, CountedOwn
  <2>4. KeepsCounted'
    BY <2>1 DEF KeepsCounted
  <2>5. LeftCounted'
    BY <2>1, NothingLeft DEF LeftCounted
  <2> QED BY <2>3, <2>4, <2>5 DEF Counted
<1>8. CASE Removed
  <2>1. InsideCounted' /\ KeepsCounted' /\ Left' = Left
    BY <1>8, CountedQuiet DEF Removed
  <2>2. LeftCounted'
    BY <1>8, <2>1 DEF Removed, RemoveDirResult, Return, Counted, LeftCounted
  <2> QED BY <2>1, <2>2 DEF Counted
<1>9. CASE MkdirStat \/ DirStat
  <2>1. InsideCounted' /\ KeepsCounted'
    BY <1>9, CountedQuiet DEF MkdirStat, DirStat
  <2>2. call'.op # "remove_dir"
    BY <1>9 DEF MkdirStat, DirStat, Typed, Control, Course
  <2> QED BY <2>1, <2>2 DEF Counted, LeftCounted
<1>10. CASE Mkdir
  <2>1. /\ UNCHANGED <<before, others, call>> /\ kind' = AfterMkdir(kind, NewDir)
        /\ NewDir \in Path /\ call.op # "remove_dir"
    BY <1>10 DEF Mkdir, Typed, Control, Course
  <2>2. Parent(NewDir) \in Path => kind[Parent(NewDir)] # "link"
    BY <1>10, <2>1, NewDirSafe DEF Mkdir
  <2>3. SameBut(kind', kind, NewDir) /\ \A q \in Path : kind[q] # "absent" => kind'[q] = kind[q]
    BY <1>a, <2>1, <2>2, MkdirFacts
  <2>4. NewDir \notin Elsewhere
    BY <1>b DEF Elsewhere, NewDir
  <2>5. InsideCounted'
    BY <2>1, <2>3, <2>4, CountedOwn
  <2>6. KeepsCounted'
    BY <2>1, <2>3, CountedKeeping
  <2> QED BY <2>1, <2>5, <2>6 DEF Counted, LeftCounted
<1>11. CASE Fopen
  <2>1. UNCHANGED <<before, others, call>> /\ call.op # "remove_dir"
    BY <1>11 DEF Fopen, Typed, Control, Course
  <2>2. /\ SameBut(kind', kind, Follow(kind, call.path))
        /\ \A q \in Path : kind[q] # "absent" => kind'[q] = kind[q]
    <3>1. CASE Openable(kind, call.path)
      <4>1. /\ kind' = AfterFopen(kind, call.path)
            /\ Parent(call.path) \in Path => kind[Parent(call.path)] # "link"
        BY <1>11, <3>1, NewDirSafe DEF Fopen
      <4> QED BY <1>a, <3>1, <4>1, FopenFacts
    <3>2. CASE ~Openable(kind, call.path)
      BY <1>11, <3>2 DEF Fopen, SameBut
    <3> QED BY <3>1, <3>2
  <2>3. ~HasLinks(Path) => Follow(kind, call.path) \notin Elsewhere
    BY <1>a, <1>b, NoLinks
  <2>4. InsideCounted'
    BY <2>1, <2>2, <2>3, CountedOwn
  <2>5. KeepsCounted'
    BY <2>1, <2>2, CountedKeeping
  <2> QED BY <2>1, <2>4, <2>5 DEF Counted, LeftCounted
<1>12. CASE Fwrite \/ DirExists \/ FileExists
  <2>1. InsideCounted' /\ KeepsCounted'
    BY <1>12, CountedQuiet DEF Fwrite, DirExists, FileExists
  <2>2. call'.op # "remove_dir"
    BY <1>12 DEF Fwrite, DirExists, FileExists, Typed, Control, Course
  <2> QED BY <2>1, <2>2 DEF Counted, LeftCounted
<1>13. CASE RemoveFile
  <2>1. /\ UNCHANGED <<before, others, call>> /\ kind' = AfterRemove(kind, call.path)
        /\ call.op = "remove_file"
    BY <1>13 DEF RemoveFile, Typed, Control
  <2>2. SameBut(kind', kind, call.path)
    BY <1>a, <2>1, RemoveFacts
  <2>3. InsideCounted'
    BY <1>b, <2>1, <2>2, CountedOwn
  <2> QED BY <2>1, <2>3 DEF Counted, KeepsCounted, LeftCounted
<1>14. ASSUME NEW p \in Path, NEW k \in {"absent", "file", "dir"}, OtherProcess(p, k)
       PROVE Counted'
  BY <1>14, CountedOther
<1>15. CASE UNCHANGED vars
  <2>1. InsideCounted' /\ KeepsCounted' /\ Left' = Left
    BY <1>15, CountedQuiet DEF vars
  <2>2. LeftCounted'
    BY <1>15, <2>1 DEF vars, Counted, LeftCounted
  <2> QED BY <2>1, <2>2 DEF Counted
<1> QED
  BY <1>1, <1>2, <1>3, <1>4, <1>5, <1>6, <1>7, <1>8, <1>9, <1>10, <1>11, <1>12, <1>13,
     <1>14, <1>15 DEF Next, Step

(* Every change is that of a step at its place, or is counted as one of another process: the
   invariants Local and Counted. *)
THEOREM FileSystemCounted == Spec => [](Typed /\ Local /\ Counted)
<1>1. Init => Typed /\ Local /\ Counted
  BY TypedInit, LocalInit, CountedInit
<1>2. Typed /\ Local /\ Counted /\ [Next]_vars => (Typed /\ Local /\ Counted)'
  BY TypedStep, LocalStep, CountedStep
<1> QED BY <1>1, <1>2, PTL DEF Spec

(* A call changes only what it is asked to change: at most as many entries
   elsewhere differ as other processes changed, and creating loses no more
   entries than they removed. *)
THEOREM ChangesOnlyAsAsked == Spec => []OnlyAsAsked
<1>1. Typed /\ Local /\ Counted => OnlyAsAsked
  <2>1. Counted => StaysInside
    BY DEF Counted, InsideCounted, StaysInside, Elsewhere, Count
  <2>2. Counted => CreationKeeps
    BY DEF Counted, KeepsCounted, CreationKeeps, Lost, Count
  <2> QED BY <2>1, <2>2 DEF OnlyAsAsked
<1> QED BY <1>1, FileSystemCounted, PTL


-----------------------------------------------------------------------------
(* _compat_rmdir left alone removes a directory. *)

(* e, an entry of the open directory f, is being removed; the others that
   exist are still to be read. *)
Doing(k, f, e) ==
  e \in Children(f.name) \ f.pending /\ Entries(k, f.name) \subseteq f.pending \cup {e}

(* The open directories lead from c downwards, each inside the one before. *)
Chain(k, c, fs) ==
  \A i \in 1 .. Len(fs) :
    /\ fs[i].name \in Subtree(c) /\ Len(fs[i].name) = Len(c) + i - 1
    /\ k[fs[i].name] = "dir"
    /\ fs[i].pending \subseteq Entries(k, fs[i].name)
    /\ i < Len(fs) => Doing(k, fs[i], fs[i + 1].name)

Calm ==
  /\ call.op = "remove_dir" /\ Undisturbed /\ before[call.path] = "dir"
  /\ ~HasLinks(Below(call.path))
  /\ call.flag \/ Entries(before, call.path) = {}

Swept ==
  Calm =>
    /\ Chain(kind, call.path, frames)
    /\ pc = "rmdir" \/ (pc = "opendir" /\ frames = <<>>) => kind = before
    /\ pc = "walk" => Entries(kind, Top.name) \subseteq Top.pending
    /\ pc \in {"opendir", "remove"} /\ frames # <<>> =>
         /\ Doing(kind, Top, target)
         /\ pc = "opendir" => kind[target] = "dir"
         /\ pc = "remove" => kind[target] = "file"
    /\ pc = "removed" => errno = ""
    /\ pc = "returned" => result = "true"


LEMMA ChildrenFacts ==
  ASSUME NEW d \in Path, NEW e \in Children(d)
  PROVE e \in Path /\ Len(e) = Len(d) + 1 /\ Parent(e) = d /\ Len(d) \in Nat /\ Len(e) \in Nat
<1>1. d \in Subtree(d)
  BY DEF Subtree
<1>2. e \in Path /\ Len(e) = Len(d) + 1
  BY <1>1, ChildInside
<1> QED BY <1>2, PathFacts DEF Children

LEMMA ChainDelete ==
  ASSUME NEW k \in [Path -> Kind], NEW c \in Path, NEW fs \in Seq(Frame), fs # <<>>,
         Chain(k, c, fs), NEW e, Doing(k, fs[Len(fs)], e), NEW j, j = Deleted(k, e)
  PROVE Chain(j, c, fs) /\ Entries(j, fs[Len(fs)].name) \subseteq fs[Len(fs)].pending
<1> DEFINE n == Len(fs)
<1>1. n \in Nat /\ n > 0 /\ n \in 1 .. n /\ fs[n] \in Frame
  BY SomeOpen
<1>2. fs[n].name \in Path /\ e \in Children(fs[n].name) /\ e \notin fs[n].pending
  BY <1>1 DEF Frame, Doing
<1>3. e \in Path /\ Len(e) = Len(fs[n].name) + 1 /\ Parent(e) = fs[n].name /\ Len(c) \in Nat
  BY <1>2, ChildrenFacts, PathFacts
<1>4. Len(fs[n].name) = Len(c) + n - 1
  BY <1>1 DEF Chain
<1>5. j[e] = "absent" /\ \A q \in Path : q # e => j[q] = k[q]
  BY <1>3, Zenon DEF Deleted
<1>6. \A d : Entries(j, d) = Entries(k, d) \ {e}
  BY <1>3, <1>5 DEF Entries, Children
<1>7. Entries(j, fs[n].name) \subseteq fs[n].pending
  BY <1>6 DEF Doing
<1>8. ASSUME NEW i \in 1 .. n
      PROVE /\ fs[i].name \in Subtree(c) /\ Len(fs[i].name) = Len(c) + i - 1
            /\ j[fs[i].name] = "dir"
            /\ fs[i].pending \subseteq Entries(j, fs[i].name)
            /\ i < n => Doing(j, fs[i], fs[i + 1].name)
  <2>1. /\ fs[i].name \in Subtree(c) /\ Len(fs[i].name) = Len(c) + i - 1
        /\ k[fs[i].name] = "dir"
        /\ fs[i].pending \subseteq Entries(k, fs[i].name)
        /\ i < n => Doing(k, fs[i], fs[i + 1].name)
    BY DEF Chain
  <2>2. fs[i].name \in Path
    BY <2>1 DEF Subtree, Below
  <2>3. fs[i].name # e
    <3>1. Len(fs[i].name) # Len(e)
      BY <1>1, <1>3, <1>4, <2>1
    <3> QED BY <3>1
  <2>4. j[fs[i].name] = "dir"
    BY <1>5, <2>1, <2>2, <2>3
  <2>5. e \notin fs[i].pending
    <3>1. CASE i = n
      BY <3>1, <1>2
    <3>2. CASE i # n
      <4>1. Len(fs[i].name) # Len(fs[n].name)
        BY <1>1, <1>3, <1>4, <2>1, <3>2
      <4>2. fs[i].name # Parent(e)
        BY <1>3, <4>1
      <4> QED BY <2>1, <4>2 DEF Entries, Children
    <3> QED BY <3>1, <3>2
  <2>6. fs[i].pending \subseteq Entries(j, fs[i].name)
    BY <1>6, <2>1, <2>5
  <2>7. i < n => Doing(j, fs[i], fs[i + 1].name)
    BY <1>6, <2>1 DEF Doing
  <2> QED BY <2>1, <2>4, <2>6, <2>7
<1>9. Chain(j, c, fs)
  BY <1>8 DEF Chain
<1> QED BY <1>7, <1>9

LEMMA ChainPush ==
  ASSUME NEW k \in [Path -> Kind], NEW c \in Path, NEW fs \in Seq(Frame), Chain(k, c, fs),
         NEW fr \in Frame, k[fr.name] = "dir", fr.pending = Entries(k, fr.name),
         fs = <<>> => fr.name = c,
         fs # <<>> => Doing(k, fs[Len(fs)], fr.name),
         NEW gs, gs = Append(fs, fr)
  PROVE Chain(k, c, gs)
<1>1. /\ Len(gs) = Len(fs) + 1 /\ Len(fs) \in Nat
      /\ gs[Len(gs)] = fr /\ \A i \in 1 .. Len(fs) : gs[i] = fs[i]
  BY Opened
<1> DEFINE n == Len(fs)
<1>2. /\ fr.name \in Subtree(c) /\ Len(fr.name) = Len(c) + n
  <2>1. CASE fs = <<>>
    <3>1. n = 0 /\ Len(c) \in Nat
      BY <2>1, EmptySeq, PathFacts, Zenon
    <3> QED BY <2>1, <3>1 DEF Subtree
  <2>2. CASE fs # <<>>
    <3>1. n \in 1 .. n /\ n \in Nat
      BY <2>2, SomeOpen
    <3>2. fs[n].name \in Subtree(c) /\ Len(fs[n].name) = Len(c) + n - 1
      BY <3>1 DEF Chain
    <3>3. fr.name \in Children(fs[n].name)
      BY <2>2 DEF Doing
    <3>4. fr.name \in Below(c) /\ Len(fr.name) = Len(fs[n].name) + 1
      BY <3>2, <3>3, ChildInside
    <3>5. Len(c) \in Nat
      BY PathFacts
    <3> QED BY <3>1, <3>2, <3>4, <3>5 DEF Subtree
  <2> QED BY <2>1, <2>2
<1> SUFFICES ASSUME NEW i \in 1 .. Len(gs)
             PROVE /\ gs[i].name \in Subtree(c) /\ Len(gs[i].name) = Len(c) + i - 1
                   /\ k[gs[i].name] = "dir"
                   /\ gs[i].pending \subseteq Entries(k, gs[i].name)
                   /\ i < Len(gs) => Doing(k, gs[i], gs[i + 1].name)
  BY DEF Chain
<1>3. CASE i = n + 1
  <2>1. gs[i] = fr /\ Len(c) \in Nat /\ i = Len(gs)
    BY <1>1, <1>3, PathFacts
  <2>2. Len(c) + i - 1 = Len(c) + n /\ ~(i < Len(gs))
    BY <1>1, <1>3, <2>1
  <2> QED BY <1>2, <2>1, <2>2
<1>4. CASE i # n + 1
  <2>1. i \in 1 .. n
    BY <1>1, <1>4
  <2>2. gs[i] = fs[i]
    BY <1>1, <2>1
  <2>3. Doing(k, gs[i], gs[i + 1].name)
    <3>1. CASE i = n
      <4>1. fs # <<>>
        <5>1. n # 0
          BY <2>1
        <5>2. Len(<<>>) = 0
          BY EmptySeq
        <5> QED BY <5>1, <5>2
      <4>2. i + 1 = Len(gs)
        BY <1>1, <3>1
      <4>3. gs[i + 1] = fr
        BY <1>1, <4>2
      <4> QED BY <2>2, <3>1, <4>1, <4>3
    <3>2. CASE i # n
      <4>1. i + 1 \in 1 .. n /\ i < n
        BY <1>1, <2>1, <3>2
      <4>2. gs[i + 1] = fs[i + 1]
        BY <1>1, <4>1
      <4> QED BY <2>1, <2>2, <4>1, <4>2 DEF Chain
    <3> QED BY <3>1, <3>2
  <2> QED BY <2>1, <2>2, <2>3 DEF Chain
<1> QED BY <1>3, <1>4

LEMMA ChainPop ==
  ASSUME NEW k \in [Path -> Kind], NEW c \in Path, NEW fs \in Seq(Frame), fs # <<>>,
         Chain(k, c, fs), NEW gs, gs = SubSeq(fs, 1, Len(fs) - 1)
  PROVE /\ Chain(k, c, gs)
        /\ gs # <<>> => Doing(k, gs[Len(gs)], fs[Len(fs)].name)
<1> DEFINE n == Len(fs)
<1>1. /\ gs \in Seq(Frame) /\ Len(gs) = n - 1 /\ n \in Nat /\ n > 0
      /\ \A i \in 1 .. n - 1 : gs[i] = fs[i]
  BY Closing, SomeOpen
<1>2. ASSUME NEW i \in 1 .. Len(gs)
      PROVE i \in 1 .. n /\ i < n /\ gs[i] = fs[i]
            /\ (i < Len(gs) => i + 1 \in 1 .. n - 1 /\ gs[i + 1] = fs[i + 1])
  <2>1. i \in 1 .. n - 1 /\ i \in 1 .. n /\ i < n /\ (i < Len(gs) => i + 1 \in 1 .. n - 1)
    BY <1>1
  <2> QED BY <1>1, <2>1
<1>3. Chain(k, c, gs)
  BY <1>2, ZenonT(60) DEF Chain
<1>4. ASSUME gs # <<>> PROVE Doing(k, gs[Len(gs)], fs[n].name)
  <2>1. Len(gs) \in 1 .. Len(gs)
    BY <1>1, <1>4, SomeOpen
  <2>2. Len(gs) + 1 = n
    BY <1>1
  <2> QED BY <1>2, <2>1, <2>2 DEF Chain
<1> QED BY <1>3, <1>4

LEMMA ChainReread ==
  ASSUME NEW k \in [Path -> Kind], NEW c \in Path, NEW fs \in Seq(Frame), fs # <<>>,
         Chain(k, c, fs), NEW e \in fs[Len(fs)].pending,
         Entries(k, fs[Len(fs)].name) \subseteq fs[Len(fs)].pending,
         NEW X, X = fs[Len(fs)].pending \ {e}, X \in SUBSET Path,
         NEW gs, gs = [fs EXCEPT ![Len(fs)].pending = X]
  PROVE Chain(k, c, gs) /\ gs # <<>> /\ Doing(k, gs[Len(gs)], e)
<1> DEFINE n == Len(fs)
<1>1. /\ n \in Nat /\ n > 0 /\ n \in 1 .. n /\ fs[n] \in Frame
  BY SomeOpen
<1>2. /\ Len(gs) = n /\ gs # <<>>
      /\ \A i \in 1 .. n : /\ gs[i].name = fs[i].name
                            /\ gs[i].pending = IF i = n THEN X ELSE fs[i].pending
  BY <1>1, Rereading DEF Frame
<1>3. gs[n].name = fs[n].name /\ gs[n].pending = X
  BY <1>1, <1>2
<1>4. e \in Children(fs[n].name)
  BY <1>1 DEF Chain, Entries
<1>5. Doing(k, gs[n], e)
  BY <1>3, <1>4 DEF Doing
<1>6. ASSUME NEW i \in 1 .. n
      PROVE /\ gs[i].name \in Subtree(c) /\ Len(gs[i].name) = Len(c) + i - 1
            /\ k[gs[i].name] = "dir"
            /\ gs[i].pending \subseteq Entries(k, gs[i].name)
            /\ i < n => Doing(k, gs[i], gs[i + 1].name)
  <2>1. /\ fs[i].name \in Subtree(c) /\ Len(fs[i].name) = Len(c) + i - 1
        /\ k[fs[i].name] = "dir"
        /\ fs[i].pending \subseteq Entries(k, fs[i].name)
        /\ i < n => Doing(k, fs[i], fs[i + 1].name)
    BY DEF Chain
  <2>2. gs[i].name = fs[i].name /\ gs[i].pending \subseteq fs[i].pending
    BY <1>2
  <2>3. ASSUME i < n PROVE Doing(k, gs[i], gs[i + 1].name)
    <3>1. i # n /\ i + 1 \in 1 .. n
      BY <1>1, <2>3
    <3>2. gs[i].pending = fs[i].pending /\ gs[i + 1].name = fs[i + 1].name
      BY <1>2, <3>1
    <3> QED BY <2>1, <2>2, <2>3, <3>2 DEF Doing
  <2> QED BY <2>1, <2>2, <2>3
<1> QED BY <1>2, <1>5, <1>6 DEF Chain


LEMMA SweptInit == Init => Swept
<1> SUFFICES ASSUME Init PROVE Swept
  OBVIOUS
<1>1. call.op # "remove_dir"
  BY DEF Init, NoCall
<1> QED BY <1>1 DEF Swept, Calm

(* No link is met on the way. *)
LEMMA CalmNoLinks ==
  ASSUME Typed, Calm, NEW p \in Subtree(call.path)
  PROVE p \in Path /\ kind[p] # "link" /\ Follow(kind, p) = p
<1>1. call.path \in Path
  BY DEF Typed, TypeOK
<1>2. p \in Path
  BY <1>1 DEF Subtree, Below
<1>3. before[p] # "link"
  BY DEF Calm, HasLinks, Subtree
<1> QED BY <1>2, <1>3 DEF Typed, NoNewLinks, Links, Follow

LEMMA SweptStep == Typed /\ Typed' /\ Swept /\ [Next]_vars => Swept'
<1> SUFFICES ASSUME Typed, Typed', Swept, [Next]_vars, Calm'
             PROVE (/\ Chain(kind, call.path, frames)
                    /\ pc = "rmdir" \/ (pc = "opendir" /\ frames = <<>>) => kind = before
                    /\ pc = "walk" => Entries(kind, Top.name) \subseteq Top.pending
                    /\ pc \in {"opendir", "remove"} /\ frames # <<>> =>
                         /\ Doing(kind, Top, target)
                         /\ pc = "opendir" => kind[target] = "dir"
                         /\ pc = "remove" => kind[target] = "file"
                    /\ pc = "removed" => errno = ""
                    /\ pc = "returned" => result = "true")'
  BY DEF Swept
<1> DEFINE Goal ==
             (/\ Chain(kind, call.path, frames)
              /\ pc = "rmdir" \/ (pc = "opendir" /\ frames = <<>>) => kind = before
              /\ pc = "walk" => Entries(kind, Top.name) \subseteq Top.pending
              /\ pc \in {"opendir", "remove"} /\ frames # <<>> =>
                   /\ Doing(kind, Top, target)
                   /\ pc = "opendir" => kind[target] = "dir"
                   /\ pc = "remove" => kind[target] = "file"
              /\ pc = "removed" => errno = ""
              /\ pc = "returned" => result = "true")'
<1>a. /\ kind \in [Path -> Kind] /\ WellFormed(kind) /\ call.path \in Path /\ target \in Path
      /\ frames \in Seq(Frame) /\ Len(frames) \in Nat
  BY LenProperties DEF Typed, TypeOK
<1>b. ASSUME UNCHANGED <<call, before, others>> PROVE Calm
  BY <1>b DEF Calm, Undisturbed, HasLinks
<1>c. ASSUME NEW gs, gs = <<>> PROVE Chain(kind', call'.path, gs)
  <2>1. Len(gs) = 0
    BY <1>c, EmptySeq, Zenon
  <2> QED BY <2>1 DEF Chain
<1>1. ASSUME NEW op \in Op, NEW p \in Path, NEW flag \in BOOLEAN, Call(op, p, flag)
      PROVE Goal
  <2>1. frames' = <<>>
    BY <1>1 DEF Call, Typed, Control
  <2>2. pc' \notin {"walk", "removed", "returned"} /\ kind' = before'
    BY <1>1 DEF Call, FirstStep, Op
  <2>3. Chain(kind', call'.path, frames')
    BY <1>c, <2>1
  <2> QED BY <2>1, <2>2, <2>3
<1>2. CASE Done
  <2>1. call'.op = "file_exists"
    BY <1>2 DEF Done, NoCall
  <2> QED BY <2>1 DEF Calm
<1>3. CASE OpenDir
  <2>1. UNCHANGED <<call, before, others, kind, target>> /\ Calm /\ pc = "opendir"
    BY <1>3, <1>b DEF OpenDir
  <2>2. kind[target] = "dir" /\ target \in Subtree(call.path)
    <3>1. CASE frames = <<>>
      <4>1. kind = before /\ target = call.path
        BY <2>1, <3>1 DEF Swept, Typed, Control
      <4> QED BY <2>1, <4>1 DEF Calm, Subtree
    <3>2. CASE frames # <<>>
      <4>1. kind[target] = "dir" /\ Doing(kind, Top, target) /\ Chain(kind, call.path, frames)
        BY <2>1, <3>2 DEF Swept
      <4>2. Top.name \in Subtree(call.path)
        <5>1. Len(frames) \in 1 .. Len(frames)
          BY <1>a, <3>2, SomeOpen
        <5> QED BY <4>1, <5>1 DEF Chain, Top
      <4>3. target \in Below(call.path)
        BY <1>a, <4>1, <4>2, ChildInside DEF Doing
      <4> QED BY <4>1, <4>3 DEF Subtree
    <3> QED BY <3>1, <3>2
  <2>3. Follow(kind, target) = target
    BY <2>1, <2>2, CalmNoLinks
  <2>4. StatKind(kind, target) = "dir"
    BY <1>a, <2>2, <2>3, PathNotEmpty DEF StatKind
  <2> DEFINE fr == [name |-> target, dir |-> target, pending |-> Entries(kind, target)]
  <2>5. frames' = Append(frames, fr) /\ pc' = "walk"
    BY <1>3, <2>3, <2>4 DEF OpenDir, Listed
  <2>6. fr \in Frame /\ fr.name = target /\ fr.pending = Entries(kind, target)
    BY <1>a DEF Frame, Entries, Children
  <2> HIDE DEF fr
  <2>7. /\ frames = <<>> => fr.name = call.path
        /\ frames # <<>> => Doing(kind, frames[Len(frames)], fr.name)
        /\ Chain(kind, call.path, frames)
    BY <2>1, <2>6 DEF Swept, Typed, Control, Top
  <2>8. Chain(kind, call.path, frames')
    BY <1>a, <2>2, <2>5, <2>6, <2>7, ChainPush
  <2>9. frames'[Len(frames')] = fr
    BY <1>a, <2>5, <2>6, Opened
  <2>10. Top' = fr
    BY <2>9 DEF Top
  <2> QED BY <2>1, <2>5, <2>6, <2>8, <2>10
<1>4. ASSUME NEW e \in Path, ReadDir(e) PROVE Goal
  <2>1. /\ UNCHANGED <<call, before, others, kind>> /\ Calm /\ pc = "walk" /\ frames # <<>>
        /\ e \in Top.pending /\ target' = e /\ pc' = StepFor(e)
    BY <1>4, <1>b DEF ReadDir, Typed, Control
  <2>2. /\ Len(frames) \in 1 .. Len(frames) /\ frames[Len(frames)] \in Frame
    BY <1>a, <2>1, SomeOpen
  <2>3. Chain(kind, call.path, frames) /\ Entries(kind, Top.name) \subseteq Top.pending
    BY <2>1 DEF Swept
  <2> DEFINE X == Remaining(e)
  <2>4. X = frames[Len(frames)].pending \ {e} /\ X \in SUBSET Path
    BY <2>2 DEF Remaining, Top, Frame
  <2>5. frames' = [frames EXCEPT ![Len(frames)].pending = X]
    BY <1>4 DEF ReadDir
  <2> HIDE DEF X
  <2>6. /\ Chain(kind, call.path, frames') /\ frames' # <<>>
        /\ Doing(kind, frames'[Len(frames')], e)
    <3>1. /\ e \in frames[Len(frames)].pending
          /\ Entries(kind, frames[Len(frames)].name) \subseteq frames[Len(frames)].pending
      BY <2>1, <2>3 DEF Top
    <3> QED BY <1>a, <2>1, <2>2, <2>3, <2>4, <2>5, <3>1, ChainReread DEF Frame
  <2>7. kind[e] # "absent" /\ e \in Subtree(call.path)
    <3>1. e \in Entries(kind, Top.name) /\ Top.name \in Subtree(call.path)
      BY <2>1, <2>2, <2>3 DEF Chain, Top
    <3>2. e \in Children(Top.name) /\ kind[e] # "absent"
      BY <3>1 DEF Entries
    <3>3. e \in Below(call.path)
      BY <1>a, <3>1, <3>2, ChildInside
    <3> QED BY <3>2, <3>3 DEF Subtree
  <2>8. kind[e] # "link" /\ Follow(kind, e) = e
    BY <2>1, <2>7, CalmNoLinks
  <2>9. kind[e] = IF pc' = "remove" THEN "file" ELSE "dir"
    <3>1. StatKind(kind, e) = kind[e]
      BY <2>8, PathNotEmpty DEF StatKind
    <3>2. kind[e] \in {"file", "dir"}
      BY <1>a, <2>7, <2>8 DEF Kind
    <3> QED BY <2>1, <3>1, <3>2 DEF StepFor
  <2>10. pc' \in {"remove", "opendir"} /\ frames' # <<>>
    BY <2>1, <2>6 DEF StepFor
  <2>11. Doing(kind, Top', e)
    BY <2>6 DEF Top
  <2>12. (pc' = "remove" => kind[e] = "file") /\ (pc' = "opendir" => kind[e] = "dir")
    BY <2>9
  <2> HIDE DEF Top
  <2> QED BY <2>1, <2>6, <2>10, <2>11, <2>12
<1>5. CASE RemoveEntry
  <2>1. /\ UNCHANGED <<call, before, others, frames>> /\ Calm /\ pc = "remove" /\ pc' = "walk"
        /\ kind' = AfterRemove(kind, target) /\ frames # <<>>
    BY <1>5, <1>b DEF RemoveEntry, Typed, Control
  <2>2. Chain(kind, call.path, frames) /\ Doing(kind, Top, target) /\ kind[target] = "file"
    BY <2>1 DEF Swept
  <2>3. kind' = Deleted(kind, target)
    BY <2>1, <2>2 DEF AfterRemove, Removable
  <2>4. /\ Chain(kind', call.path, frames)
        /\ Entries(kind', frames[Len(frames)].name) \subseteq frames[Len(frames)].pending
    <3>1. Doing(kind, frames[Len(frames)], target)
      BY <2>2 DEF Top
    <3> QED BY <1>a, <2>1, <2>2, <2>3, <3>1, ChainDelete
  <2> QED BY <2>1, <2>4 DEF Top
<1>6. CASE RemoveDir
  <2>1. /\ UNCHANGED <<call, before, others>> /\ Calm /\ pc = "walk" /\ frames # <<>>
        /\ kind' = AfterRmdir(kind, Top.name) /\ errno' = RmdirError(kind, Top.name)
        /\ frames' = Pop /\ pc' = IF Pop = <<>> THEN "removed" ELSE "walk"
        /\ Top.pending = {}
    BY <1>6, <1>b DEF RemoveDir, Resume, Typed, Control
  <2>2. Chain(kind, call.path, frames) /\ Entries(kind, Top.name) \subseteq Top.pending
    BY <2>1 DEF Swept
  <2>3. kind[Top.name] = "dir" /\ Entries(kind, Top.name) = {}
    <3>1. Len(frames) \in 1 .. Len(frames)
      BY <1>a, <2>1, SomeOpen
    <3> QED BY <2>1, <2>2, <3>1 DEF Chain, Top
  <2>4. RmdirError(kind, Top.name) = ""
    BY <2>3 DEF RmdirError
  <2>5. kind' = Deleted(kind, Top.name) /\ errno' = ""
    BY <2>1, <2>4 DEF AfterRmdir
  <2>6. /\ frames' \in Seq(Frame) /\ Chain(kind, call.path, frames')
        /\ frames' # <<>> => Doing(kind, frames'[Len(frames')], Top.name)
    <3>1. frames' = SubSeq(frames, 1, Len(frames) - 1)
      BY <2>1 DEF Pop
    <3> QED BY <1>a, <2>1, <2>2, <3>1, Closing, ChainPop DEF Top
  <2>7. CASE frames' = <<>>
    <3>1. Chain(kind', call'.path, frames')
      BY <1>c, <2>7
    <3> QED BY <2>1, <2>5, <2>7, <3>1
  <2>8. CASE frames' # <<>>
    <3>1. /\ Chain(kind', call.path, frames')
          /\ Entries(kind', frames'[Len(frames')].name) \subseteq frames'[Len(frames')].pending
      BY <1>a, <2>5, <2>6, <2>8, ChainDelete
    <3>2. pc' = "walk"
      BY <2>1, <2>8
    <3> QED BY <2>1, <3>1, <3>2 DEF Top
  <2> QED BY <2>7, <2>8
<1>7. CASE RemoveEmptyDir
  <2>1. /\ UNCHANGED <<call, before, others, frames>> /\ Calm /\ pc = "rmdir" /\ pc' = "removed"
        /\ errno' = RmdirError(kind, target) /\ target = call.path /\ ~call.flag /\ frames = <<>>
    BY <1>7, <1>b DEF RemoveEmptyDir, Typed, Control, Course
  <2>2. kind = before /\ kind[call.path] = "dir" /\ Entries(kind, call.path) = {}
    BY <2>1 DEF Swept, Calm
  <2>3. errno' = ""
    BY <2>1, <2>2 DEF RmdirError
  <2>4. Chain(kind', call'.path, frames')
    BY <1>c, <2>1
  <2> QED BY <2>1, <2>3, <2>4
<1>8. CASE Removed
  <2>1. UNCHANGED <<call, before, others, frames>> /\ Calm /\ pc = "removed" /\ frames = <<>>
    BY <1>8, <1>b DEF Removed, Typed, Control
  <2>2. errno = "" /\ call.op = "remove_dir"
    BY <2>1 DEF Swept, Calm
  <2>3. pc' = "returned" /\ result' = "true"
    BY <1>8, <2>2 DEF Removed, RemoveDirResult, Return
  <2>4. Chain(kind', call'.path, frames')
    BY <1>c, <2>1
  <2> QED BY <2>3, <2>4
<1>9. CASE MkdirStat \/ Mkdir \/ DirStat \/ Fopen \/ Fwrite \/ RemoveFile \/ DirExists \/ FileExists
  <2>1. call' = call /\ call.op # "remove_dir"
    BY <1>9 DEF MkdirStat, Mkdir, DirStat, Fopen, Fwrite, RemoveFile, DirExists, FileExists,
       Typed, Control, Course
  <2> QED BY <2>1 DEF Calm
<1>10. ASSUME NEW p \in Path, NEW k \in {"absent", "file", "dir"}, OtherProcess(p, k)
       PROVE Goal
  <2>1. others' = others + 1 /\ others \in Nat
    BY <1>10, OthersCounted DEF OtherProcess
  <2>2. others' # 0
    BY <2>1
  <2> QED BY <2>2 DEF Calm, Undisturbed
<1>11. CASE UNCHANGED vars
  <2>1. Calm
    BY <1>11, <1>b DEF vars
  <2> QED BY <1>11, <2>1 DEF vars, Swept, Top
<1> QED
  BY <1>1, <1>2, <1>3, <1>4, <1>5, <1>6, <1>7, <1>8, <1>9, <1>10, <1>11 DEF Next, Step

(* When fs_remove_dir returns true, what is left at the path and below was put
   there by other processes; and for a directory without links, left alone, it
   returns true. *)
THEOREM RemoveDirTruthful == Spec => []RemoveDirTellsTheTruth
<1>1. Init => Typed /\ Local /\ Counted /\ Swept
  BY TypedInit, LocalInit, CountedInit, SweptInit
<1>2. Typed /\ Local /\ Counted /\ Swept /\ [Next]_vars
        => (Typed /\ Local /\ Counted /\ Swept)'
  BY TypedStep, LocalStep, CountedStep, SweptStep
<1>3. Typed /\ Local /\ Counted /\ Swept => RemoveDirTellsTheTruth
  <2>1. Counted => TrueMeansGone
    BY DEF Counted, LeftCounted, TrueMeansGone, Left, Count, Returned
  <2>2. Swept => RemovesDirectory
    BY DEF Swept, Calm, RemovesDirectory, Returned
  <2> QED BY <2>1, <2>2 DEF RemoveDirTellsTheTruth
<1> QED BY <1>1, <1>2, <1>3, PTL DEF Spec
=============================================================================
