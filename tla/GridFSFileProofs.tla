-------------------------- MODULE GridFSFileProofs --------------------------
(***************************************************************************)
(* What TLAPS proves about GridFSFile, for chunks, buffers and batches of  *)
(* any size and any number of writes, failures and processes that end.     *)
(***************************************************************************)
EXTENDS GridFSFile, FiniteSetTheorems, SequenceTheorems, TLAPS

-----------------------------------------------------------------------------
(* Positions and chunks *)

(* The position at which a chunk begins. *)
Begin(k) == k * ChunkSize

LEMMA Sizes == /\ ChunkSize \in Nat \ {0} /\ BufferSize \in Nat \ {0}
               /\ ChunksPerBatch \in Nat \ {0}
               /\ MaxLength \in Nat /\ MaxWrites \in Nat /\ MaxFailures \in Nat
  BY GridFSFileAssumption

LEMMA BeginNext == \A k \in Nat : /\ Begin(k) \in Nat /\ Begin(k + 1) = Begin(k) + ChunkSize
                                  /\ Begin(0) = 0
  BY Sizes DEF Begin

LEMMA BeginGrows == \A k \in Nat : k <= Begin(k)
<1> SUFFICES ASSUME NEW k \in Nat PROVE k <= Begin(k)
  OBVIOUS
<1>1. PICK d \in Nat : ChunkSize = d + 1
  <2>1. ChunkSize - 1 \in Nat /\ ChunkSize = (ChunkSize - 1) + 1
    BY Sizes
  <2> QED BY <2>1
<1>2. k * (d + 1) = k * d + k /\ k * d \in Nat
  OBVIOUS
<1>3. Begin(k) = k * d + k
  BY <1>1, <1>2 DEF Begin
<1> QED BY <1>2, <1>3

LEMMA BeginOrder == \A j, k \in Nat : j < k => Begin(j) + ChunkSize <= Begin(k)
<1> SUFFICES ASSUME NEW j \in Nat, NEW k \in Nat, j < k
             PROVE Begin(j) + ChunkSize <= Begin(k)
  OBVIOUS
<1>1. PICK d \in Nat : k = j + 1 + d
  <2>1. k - j - 1 \in Nat /\ k = j + 1 + (k - j - 1)
    OBVIOUS
  <2> QED BY <2>1
<1>2. k * ChunkSize = j * ChunkSize + ChunkSize + d * ChunkSize /\ d * ChunkSize \in Nat
  BY <1>1, Sizes
<1>3. j * ChunkSize \in Nat /\ k * ChunkSize \in Nat
  BY Sizes
<1> QED BY <1>2, <1>3, Sizes DEF Begin

LEMMA Division ==
  ASSUME NEW p \in Nat
  PROVE  /\ p \div ChunkSize \in Nat
         /\ Begin(p \div ChunkSize) <= p /\ p < Begin(p \div ChunkSize) + ChunkSize
         /\ p % ChunkSize = p - Begin(p \div ChunkSize)
<1>1. p \div ChunkSize \in Nat /\ p % ChunkSize \in 0 .. ChunkSize - 1
  BY Sizes
<1>2. p = (p \div ChunkSize) * ChunkSize + (p % ChunkSize)
  BY Sizes
<1> QED BY <1>1, <1>2, Sizes DEF Begin

LEMMA DivisionUnique ==
  ASSUME NEW p \in Nat, NEW k \in Nat, Begin(k) <= p, p < Begin(k) + ChunkSize
  PROVE  p \div ChunkSize = k /\ p % ChunkSize = p - Begin(k)
<1> DEFINE q == p \div ChunkSize
<1>1. q \in Nat /\ Begin(q) <= p /\ p < Begin(q) + ChunkSize /\ p % ChunkSize = p - Begin(q)
  BY Division
<1>2. Begin(q) \in Nat /\ Begin(k) \in Nat
  BY <1>1, BeginNext
<1> HIDE DEF q
<1>3. ~ (q < k) /\ ~ (k < q)
  BY <1>1, <1>2, BeginOrder, Sizes
<1>4. q = k
  BY <1>1, <1>3
<1> QED BY <1>1, <1>4 DEF q

LEMMA RoundUpIs ==
  ASSUME NEW len \in Nat
  PROVE  RoundUp(len) \in Nat /\ \A k \in Nat : k < RoundUp(len) <=> Begin(k) < len
<1> DEFINE m == len + ChunkSize - 1
           q == m \div ChunkSize
<1>1. m \in Nat
  BY Sizes
<1> HIDE DEF m
<1>2. q \in Nat /\ Begin(q) <= m /\ m < Begin(q) + ChunkSize
  BY <1>1, Division
<1> HIDE DEF q
<1>3. ASSUME NEW k \in Nat PROVE k < q <=> Begin(k) < len
  <2>1. Begin(k) \in Nat /\ Begin(q) \in Nat
    BY <1>2, BeginNext
  <2>2. k < q => Begin(k) + ChunkSize <= Begin(q)
    BY <1>2, BeginOrder
  <2>3. q < k => Begin(q) + ChunkSize <= Begin(k)
    BY <1>2, BeginOrder
  <2>4. q = k => Begin(q) = Begin(k)
    OBVIOUS
  <2> QED BY <2>1, <2>2, <2>3, <2>4, <1>2, Sizes DEF m
<1> QED BY <1>2, <1>3 DEF m, q, RoundUp

LEMMA SizeIs ==
  ASSUME NEW k \in Nat, NEW len \in Nat
  PROVE  /\ SizeOf(k, len) \in 0 .. ChunkSize
         /\ len <= Begin(k) => SizeOf(k, len) = 0
         /\ len >= Begin(k) + ChunkSize => SizeOf(k, len) = ChunkSize
         /\ Begin(k) <= len /\ len <= Begin(k) + ChunkSize => SizeOf(k, len) = len - Begin(k)
<1>1. Begin(k) \in Nat
  BY BeginNext
<1>2. SizeOf(k, len) = Greater(0, Lesser(ChunkSize, len - Begin(k)))
  BY DEF SizeOf, Begin
<1> QED BY <1>1, <1>2, Sizes DEF Greater, Lesser

LEMMA SizeGrows ==
  ASSUME NEW k \in Nat, NEW a \in Nat, NEW b \in Nat, a <= b
  PROVE  SizeOf(k, a) <= SizeOf(k, b)
<1>1. Begin(k) \in Nat /\ ChunkSize \in Nat
  BY BeginNext, Sizes
<1>2. CASE b <= Begin(k)
  <2>1. SizeOf(k, a) = 0 /\ SizeOf(k, b) = 0
    BY <1>1, <1>2, SizeIs
  <2> QED BY <2>1
<1>3. CASE b > Begin(k) /\ a <= Begin(k)
  <2>1. SizeOf(k, a) = 0 /\ SizeOf(k, b) \in 0 .. ChunkSize
    BY <1>1, <1>3, SizeIs
  <2> QED BY <2>1, <1>1
<1>4. CASE b >= Begin(k) + ChunkSize
  <2>1. SizeOf(k, a) \in 0 .. ChunkSize /\ SizeOf(k, b) = ChunkSize
    BY <1>1, <1>4, SizeIs
  <2> QED BY <2>1, <1>1
<1>5. CASE Begin(k) < a /\ b <= Begin(k) + ChunkSize
  <2>0. Begin(k) <= a /\ a <= Begin(k) + ChunkSize /\ Begin(k) <= b
    BY <1>1, <1>5
  <2>1. SizeOf(k, a) = a - Begin(k)
    BY <2>0, SizeIs
  <2>2. SizeOf(k, b) = b - Begin(k)
    BY <1>5, <2>0, SizeIs
  <2> QED BY <2>1, <2>2, <1>1
<1> QED BY <1>1, <1>2, <1>3, <1>4, <1>5

-----------------------------------------------------------------------------
(* Types *)

PageType == [data : Seq(Int), offset : Nat, written : BOOLEAN]
Received == [n : Nat, data : Seq(Int)]
CursorType == [next : Int, last : Int, ahead : Seq(Received), seen : Int, more : BOOLEAN,
               failed : BOOLEAN]
FileType == [length : Nat, pos : Nat, n : Nat, dirty : BOOLEAN,
             page : PageType \cup {NoPage}, cursor : CursorType]
Backs == {"idle", "page_read", "writev", "put", "fill", "seek", "save_file"}
CallType == [op : {"none", "read", "write", "seek", "save", "remove"}, start : Nat, len : Nat,
             data : Seq(Int), part : Nat, goal : Nat \cup {None}, target : Nat \cup {None},
             back : Backs]
Steps == {"idle", "readv", "page_read", "refresh", "next", "writev", "put", "fill", "seek",
          "flush", "inner_save", "save_file", "remove_file", "remove_chunks", "return",
          "crashed"}

(* The chunks of a file. *)
AreChunks(cs) ==
  /\ cs \in [DOMAIN cs -> Seq(Int)]
  /\ IsFiniteSet(DOMAIN cs) /\ DOMAIN cs \subseteq 0 .. MaxLength
  /\ \A k \in DOMAIN cs : Len(cs[k]) <= ChunkSize

(* A page is at the position, and no larger than a chunk; nor is what the
   cursor received. *)
PageFits(pg, n, pos) ==
  pg # NoPage => Len(pg.data) <= ChunkSize /\ pg.offset <= ChunkSize /\ pos = Begin(n) + pg.offset
AheadFits(ahead) == \A i \in 1 .. Len(ahead) : Len(ahead[i].data) <= ChunkSize
CursorFits(c) == c # NoCursor => c.next \in Nat /\ c.last \in Nat

Typed ==
  /\ AreChunks(chunks) /\ stored \in {None} \cup 0 .. MaxLength
  /\ file \in FileType /\ file.length <= MaxLength /\ file.pos <= MaxLength + ChunkSize
  /\ PageFits(file.page, file.n, file.pos)
  /\ AheadFits(file.cursor.ahead) /\ CursorFits(file.cursor)
  /\ pc \in Steps /\ call \in CallType /\ result \in {"none", "ok", "error"}
  /\ content \in Seq(Int)
  /\ lost \in BOOLEAN /\ stale \in BOOLEAN /\ torn \in BOOLEAN
  /\ unsaved \in BOOLEAN /\ removed \in BOOLEAN
  /\ writes \in 0 .. MaxWrites /\ failures \in 0 .. MaxFailures

(* The function that a call is in: the one that refresh_page or flush_page goes
   back to while it is in those. *)
At == IF pc \in {"refresh", "next", "flush", "inner_save"} THEN call.back ELSE pc

(* Where a call can be, and with what. *)
Course ==
  /\ pc = "idle" => call = NoCall
  /\ pc \in {"refresh", "next"} => call.back \in {"page_read", "writev", "put", "fill"}
  /\ pc \in {"flush", "inner_save"} => call.back \in {"put", "fill", "seek", "save_file"}
  /\ At \in {"readv", "page_read"} => call.op = "read"
  /\ At \in {"writev", "put", "fill"} => call.op = "write" /\ call.target = None
  /\ At = "seek" => call.op \in {"seek", "write"} /\ call.target \in 0 .. MaxLength
  /\ At = "save_file" => call.op = "save"
  /\ At \in {"remove_file", "remove_chunks"} => call.op = "remove"
  /\ pc = "remove_chunks" => stored = None
  /\ removed => stored = None /\ pc \in {"idle", "remove_file", "remove_chunks", "return"}

(* A write that fills the gap first. *)
Gap ==
  /\ At = "seek" /\ call.op = "write" =>
       /\ call.goal = file.pos /\ call.target = file.length
  /\ At = "fill" => call.goal # None
  /\ call.goal # None => /\ At \in {"seek", "fill"} /\ call.op = "write"
                         /\ file.pos <= call.goal /\ file.length < call.goal

(* A write ends within the bound. *)
Ends ==
  /\ At \in {"writev", "put"} => file.pos + Len(call.data) <= MaxLength
  /\ call.goal # None => call.goal + Len(call.data) <= MaxLength

(* Which page there is at a step. *)
Paging ==
  /\ pc = "next" => /\ file.page = NoPage /\ file.n = file.pos \div ChunkSize
                    /\ Begin(file.n) < file.length
  /\ pc = "flush" => file.page.written
  /\ pc = "flush" /\ call.back \in {"put", "fill"} => file.page.offset = ChunkSize
  /\ pc = "flush" /\ call.back = "put" => file.pos <= file.length
  /\ pc = "inner_save" => file.page = NoPage
  /\ pc = "save_file" => ~ file.page.written
  /\ pc = "refresh" /\ file.page # NoPage => call.back = "page_read"
  /\ pc = "page_read" => file.page # NoPage
  /\ file.page.written => Begin(file.n) <= MaxLength
  /\ At = "page_read" /\ file.page # NoPage =>
       /\ Begin(file.n) >= file.length => file.page.data = <<>>
       /\ Begin(file.n) <= MaxLength + ChunkSize
  /\ stored # None => stored <= file.length

(* What is still asked for in a read. *)
Reading ==
  At \in {"readv", "page_read"} =>
    /\ call.part <= Len(call.data) /\ Len(call.data) <= call.len
    /\ At = "readv" => call.part = 0
    /\ At = "page_read" => call.part < Room

Control == Course /\ Gap /\ Ends /\ Paging /\ Reading


-----------------------------------------------------------------------------
(* Pages *)

LEMMA NoPageIs == NoPage \notin PageType /\ NoPage.written = FALSE /\ NoPage.data = <<>>
  BY DEF NoPage, PageType, None

LEMMA CursorTypes == NoCursor \in CursorType /\ NoCursor.ahead = <<>>
<1>1. <<>> \in Seq(Received)
  BY EmptySeq
<1> QED BY <1>1 DEF NoCursor, CursorType, None

LEMMA NoCallTyped == NoCall \in CallType /\ NoCall.goal = None /\ NoCall.target = None
                     /\ NoCall.op = "none" /\ NoCall.data = <<>> /\ NoCall.part = 0
<1>1. <<>> \in Seq(Int)
  BY EmptySeq
<1> QED BY <1>1 DEF NoCall, CallType, Backs, None

LEMMA PageForIs ==
  ASSUME NEW data \in Seq(Int), NEW pos \in Nat
  PROVE  /\ PageFor(data, pos) \in PageType /\ PageFor(data, pos) # NoPage
         /\ PageFor(data, pos).data = data
         /\ PageFor(data, pos).offset = pos - Begin(pos \div ChunkSize)
         /\ PageFor(data, pos).written = FALSE
         /\ Begin(pos \div ChunkSize) \in Nat
         /\ Begin(pos \div ChunkSize) <= pos /\ pos < Begin(pos \div ChunkSize) + ChunkSize
<1> DEFINE q == pos \div ChunkSize
<1>1. q \in Nat /\ Begin(q) <= pos /\ pos < Begin(q) + ChunkSize /\ pos % ChunkSize = pos - Begin(q)
  BY Division
<1>2. Begin(q) \in Nat
  BY <1>1, BeginNext
<1> HIDE DEF q
<1>3. PageFor(data, pos) = [data |-> data, offset |-> pos - Begin(q), written |-> FALSE]
  BY <1>1 DEF PageFor
<1>4. PageFor(data, pos) \in PageType
  BY <1>1, <1>2, <1>3 DEF PageType
<1>5. PageFor(data, pos) # NoPage
  BY <1>4, NoPageIs
<1>6. /\ PageFor(data, pos).data = data /\ PageFor(data, pos).written = FALSE
      /\ PageFor(data, pos).offset = pos - Begin(q)
  BY <1>3
<1> QED BY <1>1, <1>2, <1>4, <1>5, <1>6 DEF q

LEMMA OverwrittenIs ==
  ASSUME NEW pg \in PageType, NEW s \in Seq(Int), Len(pg.data) <= ChunkSize,
         pg.offset <= ChunkSize
  PROVE  LET r == Taken(pg, Len(s))  w == Overwritten(pg, s) IN
         /\ r \in Nat /\ r <= Len(s) /\ pg.offset + r <= ChunkSize
         /\ r < Len(s) => pg.offset + r = ChunkSize
         /\ w \in PageType /\ w # NoPage /\ w.written = TRUE /\ w.offset = pg.offset + r
         /\ Len(w.data) = Greater(Len(pg.data), pg.offset + r)
         /\ \A i \in 1 .. Len(w.data) :
              w.data[i] = IF i > pg.offset /\ i <= pg.offset + r THEN s[i - pg.offset]
                          ELSE IF i <= Len(pg.data) THEN pg.data[i] ELSE Junk
<1> DEFINE r == Taken(pg, Len(s))
           size == Greater(Len(pg.data), pg.offset + r)
           byte(i) == IF i > pg.offset /\ i <= pg.offset + r THEN s[i - pg.offset]
                      ELSE IF i <= Len(pg.data) THEN pg.data[i] ELSE Junk
           data == [i \in 1 .. size |-> byte(i)]
           w == Overwritten(pg, s)
<1>1. pg.offset \in Nat /\ pg.data \in Seq(Int) /\ Len(pg.data) \in Nat /\ Len(s) \in Nat
  BY DEF PageType
<1>2. /\ r \in Nat /\ r <= Len(s) /\ pg.offset + r <= ChunkSize
      /\ r < Len(s) => pg.offset + r = ChunkSize
  BY <1>1, Sizes DEF Taken, Lesser
<1>3. w = [data |-> data, offset |-> pg.offset + r, written |-> TRUE]
  BY Zenon DEF Overwritten
<1> HIDE DEF r
<1>4. size \in Nat
  BY <1>1, <1>2 DEF Greater
<1>5. \A i \in 1 .. size : byte(i) \in Int
  <2> SUFFICES ASSUME NEW i \in 1 .. size PROVE byte(i) \in Int
    OBVIOUS
  <2>1. i > pg.offset /\ i <= pg.offset + r => i - pg.offset \in 1 .. Len(s)
    BY <1>1, <1>2, <1>4
  <2>2. i <= Len(pg.data) => i \in 1 .. Len(pg.data)
    BY <1>1, <1>4
  <2> QED BY <1>1, <2>1, <2>2, ElementOfSeq DEF Junk
<1> HIDE DEF size, byte
<1>6. data \in Seq(Int) /\ Len(data) = size /\ \A i \in 1 .. size : data[i] = byte(i)
  BY <1>4, <1>5
<1> HIDE DEF data
<1>7. w \in PageType
  BY <1>1, <1>2, <1>3, <1>6 DEF PageType
<1>8. w.data = data /\ w.offset = pg.offset + r /\ w.written = TRUE
  BY <1>3
<1>9. w # NoPage
  BY <1>7, NoPageIs
<1> HIDE DEF w
<1>10. Len(w.data) = Greater(Len(pg.data), pg.offset + r)
  BY <1>6, <1>8 DEF size
<1>11. \A i \in 1 .. Len(w.data) : w.data[i] = byte(i)
  BY <1>6, <1>8
<1> QED BY <1>2, <1>7, <1>8, <1>9, <1>10, <1>11 DEF r, w, byte


-----------------------------------------------------------------------------
(* Types and control, step by step *)

LEMMA FileSorts ==
  ASSUME Typed
  PROVE  /\ file.length \in Nat /\ file.length <= MaxLength
         /\ file.pos \in Nat /\ file.pos <= MaxLength + ChunkSize
         /\ file.n \in Nat /\ Begin(file.n) \in Nat /\ file.dirty \in BOOLEAN
         /\ file.cursor \in CursorType
         /\ file.page.written => file.page # NoPage
         /\ file.page # NoPage =>
              /\ file.page \in PageType /\ file.page.data \in Seq(Int)
              /\ Len(file.page.data) \in Nat /\ Len(file.page.data) <= ChunkSize
              /\ file.page.offset \in Nat /\ file.page.offset <= ChunkSize
              /\ file.page.written \in BOOLEAN
              /\ file.pos = Begin(file.n) + file.page.offset /\ Begin(file.n) <= file.pos
<1>1. /\ file.length \in Nat /\ file.length <= MaxLength
      /\ file.pos \in Nat /\ file.pos <= MaxLength + ChunkSize
      /\ file.n \in Nat /\ file.dirty \in BOOLEAN
      /\ file.cursor \in CursorType /\ file.page \in PageType \cup {NoPage}
  BY DEF Typed, FileType
<1>2. Begin(file.n) \in Nat
  BY <1>1, BeginNext
<1>3. ASSUME file.page # NoPage
      PROVE  /\ file.page \in PageType /\ file.page.data \in Seq(Int)
             /\ Len(file.page.data) \in Nat /\ Len(file.page.data) <= ChunkSize
             /\ file.page.offset \in Nat /\ file.page.offset <= ChunkSize
             /\ file.page.written \in BOOLEAN
             /\ file.pos = Begin(file.n) + file.page.offset
  <2>1. file.page \in PageType
    BY <1>1, <1>3
  <2>2. /\ Len(file.page.data) <= ChunkSize /\ file.page.offset <= ChunkSize
        /\ file.pos = Begin(file.n) + file.page.offset
    BY <1>3 DEF Typed, PageFits
  <2> QED BY <2>1, <2>2 DEF PageType
<1>4. file.page # NoPage => Begin(file.n) <= file.pos
  BY <1>1, <1>2, <1>3
<1>5. file.page.written => file.page # NoPage
  BY NoPageIs
<1> QED BY <1>1, <1>2, <1>3, <1>4, <1>5

LEMMA CallSorts ==
  ASSUME Typed
  PROVE  /\ call \in CallType /\ call.data \in Seq(Int) /\ Len(call.data) \in Nat
         /\ call.start \in Nat /\ call.len \in Nat /\ call.part \in Nat
         /\ call.goal \in Nat \cup {None} /\ call.target \in Nat \cup {None}
  BY DEF Typed, CallType

LEMMA CallBack ==
  ASSUME NEW c \in CallType,
         NEW b \in Backs
  PROVE  LET d == [c EXCEPT !.back = b] IN
         /\ d \in CallType /\ d.back = b /\ d.op = c.op /\ d.start = c.start /\ d.len = c.len
         /\ d.data = c.data /\ d.part = c.part /\ d.goal = c.goal /\ d.target = c.target
  BY DEF CallType

Aimed(c, g, t) == [c EXCEPT !.goal = g, !.target = t]

LEMMA CallAim ==
  ASSUME NEW c \in CallType, NEW g \in Nat \cup {None}, NEW t \in Nat \cup {None}
  PROVE  LET d == Aimed(c, g, t) IN
         /\ d \in CallType /\ d.back = c.back /\ d.op = c.op /\ d.start = c.start
         /\ d.len = c.len /\ d.data = c.data /\ d.part = c.part /\ d.goal = g /\ d.target = t
  BY DEF CallType, Aimed

(* Steps that change nothing but what the call does. *)
LEMMA QuietKeepsTypes ==
  ASSUME Typed, file' = file, server' = server, history' = history, bounds' = bounds,
         pc' \in Steps, call' \in CallType, result' \in {"none", "ok", "error"}
  PROVE  Typed'
  BY DEF Typed, server, history, bounds

LEMMA ReadvKeeps == ASSUME Typed, Control, Readv PROVE Typed' /\ Control'
<1>1. /\ pc = "readv" /\ file' = file /\ server' = server /\ history' = history
      /\ bounds' = bounds
  BY Zenon DEF Readv
<1>2. \/ pc' = "return" /\ result' = "ok" /\ call' = call
      \/ /\ pc' = "refresh" /\ file.page = NoPage /\ call' = [call EXCEPT !.back = "page_read"]
         /\ result' = result /\ Room # 0
      \/ /\ pc' = "page_read" /\ file.page # NoPage /\ call' = call /\ result' = result
         /\ ~ (file.pos >= file.length) /\ Room # 0
  BY Zenon DEF Readv, End, GoVia, Go
<1>3. call' \in CallType /\ call'.op = call.op /\ call'.goal = call.goal /\ call'.data = call.data
      /\ call'.len = call.len /\ call'.part = call.part
      /\ (pc' = "refresh" => call'.back = "page_read")
  <2>1. call \in CallType
    BY DEF Typed
  <2>2. LET d == [call EXCEPT !.back = "page_read"]
        IN d \in CallType /\ d.op = call.op /\ d.goal = call.goal /\ d.data = call.data
           /\ d.len = call.len /\ d.part = call.part
           /\ d.back = "page_read"
    BY <2>1, CallBack, ZenonT(60) DEF Backs
  <2> QED BY <1>2, <2>1, <2>2
<1>4. Typed'
  <2>1. pc' \in Steps /\ result' \in {"none", "ok", "error"}
    BY <1>2 DEF Steps, Typed
  <2> QED BY <1>1, <1>3, <2>1, QuietKeepsTypes
<1>5. Course'
  BY <1>1, <1>2, <1>3 DEF Control, Course, At, server, history
<1>6. Gap' /\ Ends'
  BY <1>1, <1>2, <1>3, NoCallTyped DEF Control, Gap, Ends, At
<1>8. Reading'
  <2>1. call.part = 0 /\ Len(call.data) <= call.len
    BY <1>1 DEF Control, Reading, At
  <2>2. Room # 0 => 0 < Room
    BY <2>1, CallSorts, Sizes DEF Room, Lesser
  <2>3. Room' = Room
    BY <1>3 DEF Room
  <2>4. pc' # "return" => 0 < Room
    BY <1>2, <2>2
  <2> QED BY <1>2, <1>3, <2>1, <2>3, <2>4, CallSorts DEF Reading, At
<1>7. Paging'
  <2>1. pc' = "page_read" => file.pos < file.length /\ Begin(file.n) <= file.pos
    BY <1>2, FileSorts
  <2>2. file' = file /\ stored' = stored
    BY <1>1 DEF server
  <2>3. pc' = "page_read" => ~ (Begin(file.n) >= file.length) /\ Begin(file.n) <= MaxLength + ChunkSize
    BY <2>1, FileSorts, Sizes
  <2>4. pc' \in {"return", "refresh", "page_read"} /\ (pc' # "page_read" => pc' = "return" \/ file.page = NoPage)
    BY <1>2
  <2>5. /\ file.page.written => Begin(file.n) <= MaxLength
        /\ stored # None => stored <= file.length
    BY DEF Control, Paging
  <2> QED BY <1>2, <1>3, <2>2, <2>3, <2>4, <2>5 DEF Paging, At
<1> QED BY <1>4, <1>5, <1>6, <1>7, <1>8 DEF Control


StartedCall(op, at, len, data) ==
  [NoCall EXCEPT !.op = op, !.start = at, !.len = len, !.data = data]

LEMMA Started ==
  ASSUME NEW op \in {"read", "write", "remove"}, NEW at \in Nat, NEW len \in Nat,
         NEW data \in Seq(Int)
  PROVE  LET c == StartedCall(op, at, len, data) IN
         /\ c \in CallType /\ c.op = op /\ c.start = at /\ c.len = len /\ c.data = data
         /\ c.part = 0 /\ c.goal = None /\ c.target = None
<1>1. NoCall \in CallType /\ NoCall.goal = None /\ NoCall.target = None /\ NoCall.data = <<>>
      /\ NoCall.part = 0
  BY NoCallTyped
<1> QED BY <1>1 DEF CallType, Backs, StartedCall

LEMMA SavingStarted ==
  ASSUME NEW at \in Nat
  PROVE  LET c == [NoCall EXCEPT !.op = "save", !.start = at, !.back = "save_file"] IN
         /\ c \in CallType /\ c.op = "save" /\ c.goal = None /\ c.data = <<>>
         /\ c.back = "save_file" /\ c.target = None
<1>1. NoCall \in CallType /\ NoCall.goal = None /\ NoCall.target = None /\ NoCall.data = <<>>
      /\ NoCall.part = 0
  BY NoCallTyped
<1> QED BY <1>1 DEF CallType, Backs

LEMMA SeekStarted ==
  ASSUME NEW at \in Nat, NEW to \in Nat \cup {None}
  PROVE  LET c == [NoCall EXCEPT !.op = "seek", !.start = at, !.target = to] IN
         /\ c \in CallType /\ c.op = "seek" /\ c.goal = None /\ c.data = <<>>
         /\ c.target = to
<1>1. NoCall \in CallType /\ NoCall.goal = None /\ NoCall.target = None /\ NoCall.data = <<>>
      /\ NoCall.part = 0
  BY NoCallTyped
<1> QED BY <1>1 DEF CallType, Backs

(* What Paging says of a file that does not change, wherever the call is. *)
LEMMA PageStays ==
  ASSUME Typed, Control, file' = file, stored' = stored,
         pc' \in {"idle", "readv", "writev", "put", "fill", "seek", "remove_file",
                  "remove_chunks", "return", "crashed"}
  PROVE  Paging'
<1>1. /\ file.page.written => Begin(file.n) <= MaxLength
      /\ stored # None => stored <= file.length
  BY DEF Control, Paging
<1> QED BY <1>1 DEF Paging, At

LEMMA ReadKeeps ==
  ASSUME Typed, Control, NEW len \in ReadLengths, Read(len) PROVE Typed' /\ Control'
<1>1. /\ pc = "idle" /\ ~ removed /\ pc' = "readv" /\ file' = file /\ server' = server
      /\ history' = history /\ bounds' = bounds /\ result' = result
      /\ call' = StartedCall("read", file.pos, len, <<>>)
  BY Zenon DEF StartedCall, Read, Start, Usable
<1>2. /\ call' \in CallType /\ call'.op = "read" /\ call'.goal = None /\ call'.target = None
      /\ call'.part = 0 /\ call'.len = len /\ Len(call'.data) = 0
  <2> DEFINE c == StartedCall("read", file.pos, len, <<>>)
  <2>1. file.pos \in Nat /\ len \in Nat
    BY FileSorts, GridFSFileAssumption
  <2>2. /\ c \in CallType /\ c.op = "read" /\ c.goal = None /\ c.target = None
        /\ c.part = 0 /\ c.len = len /\ Len(c.data) = 0
    <3> DEFINE nothing == <<>>
    <3>1. nothing \in Seq(Int) /\ Len(nothing) = 0
      BY EmptySeq
    <3> HIDE DEF nothing
    <3>2. LET d == StartedCall("read", file.pos, len, nothing) IN
          /\ d \in CallType /\ d.op = "read" /\ d.start = file.pos /\ d.len = len
          /\ d.data = nothing /\ d.part = 0 /\ d.goal = None /\ d.target = None
      BY <2>1, <3>1, NoCallTyped DEF StartedCall, CallType
    <3> QED BY <3>1, <3>2 DEF nothing
  <2> QED BY <1>1, <2>2
<1>3. Typed'
  BY <1>1, <1>2, QuietKeepsTypes DEF Typed, Steps
<1>4. Course'
  BY <1>1, <1>2 DEF Course, At, server, history, None
<1>5. Gap' /\ Ends' /\ Reading'
  BY <1>1, <1>2, GridFSFileAssumption DEF Gap, Ends, Reading, Room, At
<1>6. Paging'
  BY <1>1, PageStays DEF server
<1> QED BY <1>3, <1>4, <1>5, <1>6 DEF Control

LEMMA SaveKeeps == ASSUME Typed, Control, Save PROVE Typed' /\ Control'
<1>1. /\ pc = "idle" /\ ~ removed /\ file' = file /\ server' = server
      /\ history' = history /\ bounds' = bounds
      /\ call' = [NoCall EXCEPT !.op = "save", !.start = file.pos, !.back = "save_file"]
      /\ \/ pc' = "flush" /\ file.page.written /\ result' = result
         \/ pc' = "save_file" /\ ~ file.page.written /\ result' = result
         \/ pc' = "return" /\ result' = "ok"
  BY Zenon DEF Save, Usable
<1>2. /\ call' \in CallType /\ call'.op = "save" /\ call'.goal = None /\ call'.target = None
      /\ call'.back = "save_file"
  BY <1>1, FileSorts, SavingStarted
<1>3. Typed'
  BY <1>1, <1>2, QuietKeepsTypes DEF Typed, Steps
<1>4. Course'
  BY <1>1, <1>2 DEF Course, At, server, history, None
<1>5. Gap' /\ Ends' /\ Reading'
  BY <1>1, <1>2 DEF Gap, Ends, Reading, Room, At
<1>6. Paging'
  <2>1. /\ file.page.written => Begin(file.n) <= MaxLength
        /\ stored # None => stored <= file.length
    BY DEF Control, Paging
  <2> QED BY <1>1, <1>2, <2>1 DEF Paging, At, server
<1> QED BY <1>3, <1>4, <1>5, <1>6 DEF Control

LEMMA SeekKeeps ==
  ASSUME Typed, Control, NEW whence, NEW delta, Seek(whence, delta) PROVE Typed' /\ Control'
<1> DEFINE offset == Base(whence) + delta
<1>1. /\ pc = "idle" /\ ~ removed /\ file' = file /\ server' = server
      /\ history' = history /\ bounds' = bounds /\ offset \in -1 .. MaxLength
      /\ call' = [NoCall EXCEPT !.op = "seek", !.start = file.pos, !.target = offset]
      /\ \/ pc' = "return" /\ offset < 0 /\ result' = "error"
         \/ pc' = "seek" /\ ~ (offset < 0) /\ result' = result
  BY Zenon DEF Seek, Usable
<1> HIDE DEF offset
<1>2. offset \in Nat \cup {None} /\ (pc' = "seek" => offset \in 0 .. MaxLength)
  BY <1>1, Sizes DEF None
<1>3. /\ call' \in CallType /\ call'.op = "seek" /\ call'.goal = None /\ call'.target = offset
  BY <1>1, <1>2, FileSorts, SeekStarted, ZenonT(60)
<1>4. Typed'
  BY <1>1, <1>3, QuietKeepsTypes DEF Typed, Steps
<1>5. Course'
  BY <1>1, <1>2, <1>3 DEF Course, At, server, history, None
<1>6. Gap' /\ Ends' /\ Reading'
  BY <1>1, <1>3 DEF Gap, Ends, Reading, Room, At
<1>7. Paging'
  BY <1>1, PageStays DEF server
<1> QED BY <1>4, <1>5, <1>6, <1>7 DEF Control

LEMMA RemoveKeeps == ASSUME Typed, Control, Remove PROVE Typed' /\ Control'
<1>1. /\ pc = "idle" /\ pc' = "remove_file" /\ file' = file /\ server' = server
      /\ history' = history /\ bounds' = bounds /\ result' = result
      /\ call' = StartedCall("remove", file.pos, 0, <<>>)
  BY Zenon DEF StartedCall, Remove, Start
<1>2. /\ call' \in CallType /\ call'.op = "remove" /\ call'.goal = None /\ call'.target = None
  <2> DEFINE c == StartedCall("remove", file.pos, 0, <<>>)
  <2>1. file.pos \in Nat /\ <<>> \in Seq(Int)
    BY FileSorts, EmptySeq
  <2>2. /\ c \in CallType /\ c.op = "remove" /\ c.goal = None /\ c.target = None
    <3> DEFINE nothing == <<>>
    <3>1. nothing \in Seq(Int)
      BY <2>1
    <3> HIDE DEF nothing
    <3>2. LET d == StartedCall("remove", file.pos, 0, nothing) IN
          d \in CallType /\ d.op = "remove" /\ d.goal = None /\ d.target = None
      BY <2>1, <3>1, NoCallTyped DEF StartedCall, CallType, Backs
    <3> QED BY <3>2 DEF nothing
  <2> QED BY <1>1, <2>2
<1>3. Typed'
  BY <1>1, <1>2, QuietKeepsTypes DEF Typed, Steps
<1>4. Course'
  BY <1>1, <1>2 DEF Control, Course, At, server, history, None
<1>5. Gap' /\ Ends' /\ Reading'
  BY <1>1, <1>2 DEF Gap, Ends, Reading, Room, At
<1>6. Paging'
  BY <1>1, PageStays DEF server
<1> QED BY <1>3, <1>4, <1>5, <1>6 DEF Control

LEMMA ReturnKeeps == ASSUME Typed, Control, Return PROVE Typed' /\ Control'
<1>1. /\ pc = "return" /\ pc' = "idle" /\ file' = file /\ server' = server
      /\ history' = history /\ bounds' = bounds /\ result' = "none" /\ call' = NoCall
  BY Zenon DEF Return
<1>2. Typed'
  BY <1>1, NoCallTyped, QuietKeepsTypes DEF Typed, Steps
<1>3. Course'
  BY <1>1, NoCallTyped DEF Control, Course, At, server, history, None
<1>4. Gap' /\ Ends' /\ Reading'
  BY <1>1, NoCallTyped DEF Gap, Ends, Reading, Room, At
<1>5. Paging'
  BY <1>1, PageStays DEF server
<1> QED BY <1>2, <1>3, <1>4, <1>5 DEF Control


LEMMA WriteKeeps ==
  ASSUME Typed, Control, NEW len \in WriteLengths, Write(len) PROVE Typed' /\ Control'
<1> DEFINE end == file.pos + len
           byte(i) == IF i > file.pos /\ i <= end THEN Written(len)[i - file.pos]
                      ELSE IF i <= Len(content) THEN content[i] ELSE 0
           bytes == [i \in 1 .. Greater(Len(content), end) |-> byte(i)]
<1>1. /\ pc = "idle" /\ ~ removed /\ pc' = "writev" /\ file' = file /\ server' = server
      /\ writes < MaxWrites /\ writes' = writes + 1 /\ failures' = failures
      /\ lost' = lost /\ stale' = stale /\ torn' = torn /\ unsaved' = unsaved
      /\ removed' = removed /\ result' = result /\ file.pos + len <= MaxLength
      /\ call' = StartedCall("write", file.pos, len, Written(len))
      /\ content' = IF ~ Known THEN <<>> ELSE bytes
  BY Zenon DEF StartedCall, Write, Start, Usable
<1>2. len \in Nat /\ file.pos \in Nat /\ writes \in Nat
  BY FileSorts, Sizes, GridFSFileAssumption DEF Typed
<1>3. Written(len) \in Seq(Int) /\ Len(Written(len)) = len
  BY <1>2 DEF Written
<1>4. content' \in Seq(Int)
  <2>1. content \in Seq(Int) /\ Len(content) \in Nat /\ end \in Nat
    BY <1>2 DEF Typed
  <2>2. Greater(Len(content), end) \in Nat
    BY <2>1 DEF Greater
  <2>3. \A i \in 1 .. Greater(Len(content), end) : byte(i) \in Int
    <3> SUFFICES ASSUME NEW i \in 1 .. Greater(Len(content), end) PROVE byte(i) \in Int
      OBVIOUS
    <3>1. i > file.pos /\ i <= end => i - file.pos \in 1 .. Len(Written(len))
      BY <1>2, <1>3, <2>2
    <3>2. i <= Len(content) => i \in 1 .. Len(content)
      BY <2>1, <2>2
    <3> QED BY <1>3, <2>1, <3>1, <3>2, ElementOfSeq
  <2> HIDE DEF byte
  <2>4. bytes \in Seq(Int)
    BY <2>2, <2>3
  <2> HIDE DEF bytes
  <2> QED BY <1>1, <2>4, EmptySeq
<1>5. /\ call' \in CallType /\ call'.op = "write" /\ call'.goal = None /\ call'.target = None
      /\ call'.data = Written(len)
  BY <1>1, <1>2, <1>3, Started
<1>6. Typed'
  <2>1. writes' \in 0 .. MaxWrites
    BY <1>1, <1>2, Sizes
  <2> QED BY <1>1, <1>4, <1>5, <2>1 DEF Typed, Steps, server
<1>7. Course'
  BY <1>1, <1>5 DEF Course, At, server, None
<1>8. Gap' /\ Ends' /\ Reading'
  BY <1>1, <1>3, <1>5 DEF Gap, Ends, Reading, Room, At
<1>9. Paging'
  BY <1>1, PageStays DEF server
<1> QED BY <1>6, <1>7, <1>8, <1>9 DEF Control

LEMMA WritevKeeps == ASSUME Typed, Control, Writev PROVE Typed' /\ Control'
<1>1. /\ pc = "writev" /\ file.page # NoPage /\ file' = file /\ server' = server
      /\ history' = history /\ bounds' = bounds /\ result' = result
      /\ \/ /\ pc' = "seek" /\ PastEnd
            /\ call' = [call EXCEPT !.goal = file.pos, !.target = file.length]
         \/ pc' = "put" /\ call' = call
  BY Zenon DEF Writev
<1>2. call.op = "write" /\ call.target = None /\ call.goal = None /\ ~ removed
  BY <1>1 DEF Control, Course, Gap, At
<1>3. /\ call' \in CallType /\ call'.op = call.op /\ call'.data = call.data
      /\ pc' = "put" => call' = call
      /\ pc' = "seek" => call'.goal = file.pos /\ call'.target = file.length
  <2> DEFINE d == Aimed(call, file.pos, file.length)
  <2>1. /\ d \in CallType /\ d.op = call.op /\ d.data = call.data
        /\ d.goal = file.pos /\ d.target = file.length
    <3>1. /\ call \in CallType /\ file.pos \in Nat \cup {None}
          /\ file.length \in Nat \cup {None}
      BY FileSorts, CallSorts
    <3> QED BY <3>1, CallAim, ZenonT(60)
  <2> HIDE DEF d
  <2>2. call \in CallType
    BY CallSorts
  <2>3. (pc' = "seek" /\ call' = d) \/ (pc' = "put" /\ call' = call)
    BY <1>1 DEF d, Aimed
  <2> QED BY <2>1, <2>2, <2>3
<1>4. Typed'
  BY <1>1, <1>3, QuietKeepsTypes DEF Typed, Steps
<1>5. Course'
  BY <1>1, <1>2, <1>3, FileSorts DEF Control, Course, At, server, history, None
<1>6. Gap' /\ Ends' /\ Reading'
  <2>1. file.pos + Len(call.data) <= MaxLength
    BY <1>1 DEF Control, Ends, At
  <2> QED BY <1>1, <1>2, <1>3, <2>1, FileSorts DEF Gap, Ends, Reading, At, PastEnd, None
<1>7. Paging'
  BY <1>1, PageStays DEF server
<1> QED BY <1>4, <1>5, <1>6, <1>7 DEF Control

LEMMA NeedPageKeeps == ASSUME Typed, Control, NeedPage PROVE Typed' /\ Control'
<1>1. /\ pc \in {"writev", "put", "fill"} /\ file.page = NoPage /\ file' = file
      /\ server' = server /\ history' = history /\ bounds' = bounds /\ result' = result
      /\ pc' = "refresh" /\ call' = [call EXCEPT !.back = pc]
  BY Zenon DEF NeedPage, GoVia
<1>2. /\ call' \in CallType /\ call'.op = call.op /\ call'.goal = call.goal
      /\ call'.target = call.target /\ call'.data = call.data /\ call'.back = pc
  <2>1. call \in CallType /\ pc \in Backs
    BY <1>1, CallSorts DEF Backs
  <2> QED BY <1>1, <2>1, CallBack
<1>3. Typed'
  BY <1>1, <1>2, QuietKeepsTypes DEF Typed, Steps
<1>4. At' = At
  BY <1>1, <1>2 DEF At
<1>5. Course'
  BY <1>1, <1>2, <1>4 DEF Control, Course, At, server, history
<1>6. Gap' /\ Ends' /\ Reading'
  BY <1>1, <1>2, <1>4 DEF Control, Gap, Ends, Reading, Room
<1>7. Paging'
  BY <1>1, <1>2, <1>4, FileSorts DEF Control, Paging, server, At
<1> QED BY <1>3, <1>5, <1>6, <1>7 DEF Control

LEMMA FlushBeforeSeekKeeps == ASSUME Typed, Control, FlushBeforeSeek PROVE Typed' /\ Control'
<1>1. /\ pc = "seek" /\ file.page.written /\ file' = file
      /\ server' = server /\ history' = history /\ bounds' = bounds /\ result' = result
      /\ pc' = "flush" /\ call' = [call EXCEPT !.back = "seek"]
  BY Zenon DEF FlushBeforeSeek, GoVia
<1>2. /\ call' \in CallType /\ call'.op = call.op /\ call'.goal = call.goal
      /\ call'.target = call.target /\ call'.data = call.data /\ call'.back = "seek"
  BY <1>1, CallSorts, CallBack DEF Backs
<1>3. Typed'
  BY <1>1, <1>2, QuietKeepsTypes DEF Typed, Steps
<1>4. At' = At
  BY <1>1, <1>2 DEF At
<1>5. Course'
  BY <1>1, <1>2, <1>4 DEF Control, Course, At, server, history
<1>6. Gap' /\ Ends' /\ Reading'
  BY <1>1, <1>2, <1>4 DEF Control, Gap, Ends, Reading, Room
<1>7. Paging'
  BY <1>1, <1>2, <1>4, FileSorts DEF Control, Paging, server, At
<1> QED BY <1>3, <1>5, <1>6, <1>7 DEF Control

LEMMA ReadBehindPageKeeps == ASSUME Typed, Control, ReadBehindPage PROVE Typed' /\ Control'
<1>1. /\ pc = "page_read" /\ pc' = "crashed" /\ file' = file /\ call' = call
      /\ server' = server /\ history' = history /\ bounds' = bounds /\ result' = result
  BY Zenon DEF ReadBehindPage
<1>2. Typed'
  BY <1>1, QuietKeepsTypes DEF Typed, Steps
<1>3. Course'
  BY <1>1 DEF Control, Course, At, server, history
<1>4. Gap' /\ Ends' /\ Reading'
  BY <1>1 DEF Control, Gap, Ends, Reading, Room, At
<1>5. Paging'
  BY <1>1, PageStays DEF server
<1> QED BY <1>2, <1>3, <1>4, <1>5 DEF Control


LEMMA PageMoved ==
  ASSUME NEW pg \in PageType, NEW o \in Nat
  PROVE  LET p == [pg EXCEPT !.offset = o] IN
         /\ p \in PageType /\ p # NoPage /\ p.data = pg.data /\ p.written = pg.written
         /\ p.offset = o
<1>1. LET p == [pg EXCEPT !.offset = o] IN
      /\ p \in PageType /\ p.data = pg.data /\ p.written = pg.written /\ p.offset = o
  BY DEF PageType
<1> QED BY <1>1, NoPageIs

(* Where seek leaves the file. *)
SoughtPage == IF SamePage /\ file.page # NoPage
              THEN [file.page EXCEPT !.offset = call.target % ChunkSize] ELSE NoPage
Sought == [file EXCEPT !.pos = call.target, !.n = call.target \div ChunkSize,
                       !.page = SoughtPage]

LEMMA SoughtIs ==
  ASSUME Typed, call.target \in 0 .. MaxLength, SamePage \/ ~ file.page.written
  PROVE  /\ Sought \in FileType /\ Sought.length = file.length /\ Sought.pos = call.target
         /\ Sought.n = call.target \div ChunkSize /\ Sought.dirty = file.dirty
         /\ Sought.cursor = file.cursor /\ PageFits(Sought.page, Sought.n, Sought.pos)
         /\ \/ Sought.page = NoPage /\ ~ file.page.written
            \/ /\ file.page # NoPage /\ Sought.page # NoPage /\ Sought.n = file.n
               /\ Sought.page.data = file.page.data
               /\ Sought.page.written = file.page.written
               /\ Sought.page.offset = call.target - Begin(file.n)
               /\ Sought.page.offset < ChunkSize
<1> DEFINE q == call.target \div ChunkSize
<1>1. /\ call.target \in Nat /\ q \in Nat /\ Begin(q) \in Nat
      /\ Begin(q) <= call.target /\ call.target < Begin(q) + ChunkSize
      /\ call.target % ChunkSize = call.target - Begin(q)
  <2>1. call.target \in Nat
    BY Sizes
  <2>2. q \in Nat
    BY <2>1, Division
  <2> QED BY <2>1, <2>2, Division, BeginNext
<1>2. CASE SamePage /\ file.page # NoPage
  <2>1. SoughtPage = [file.page EXCEPT !.offset = call.target - Begin(q)] /\ q = file.n
    BY <1>1, <1>2 DEF SoughtPage, SamePage
  <2> HIDE DEF q
  <2>a. call.target - Begin(q) \in Nat /\ file.page \in PageType
    BY <1>1, <1>2, FileSorts
  <2>2. /\ SoughtPage \in PageType /\ SoughtPage.data = file.page.data
        /\ SoughtPage.written = file.page.written
        /\ SoughtPage.offset = call.target - Begin(file.n)
        /\ SoughtPage.offset < ChunkSize /\ SoughtPage.offset \in Nat
    <3> DEFINE o == call.target - Begin(q)
    <3>1. o \in Nat /\ o < ChunkSize
      BY <1>1, <2>a, Sizes
    <3> HIDE DEF o
    <3>2. LET p == [file.page EXCEPT !.offset = o] IN
          /\ p \in PageType /\ p.data = file.page.data /\ p.written = file.page.written
          /\ p.offset = o
      BY <2>a, <3>1, PageMoved
    <3>3. SoughtPage = [file.page EXCEPT !.offset = o] /\ o = call.target - Begin(file.n)
      BY <2>1 DEF o
    <3> QED BY <3>1, <3>2, <3>3
  <2>3. SoughtPage # NoPage
    BY <2>2, NoPageIs
  <2>4. /\ Sought \in FileType /\ Sought.length = file.length /\ Sought.pos = call.target
        /\ Sought.n = q /\ Sought.dirty = file.dirty
        /\ Sought.cursor = file.cursor /\ Sought.page = SoughtPage
    BY <1>1, <2>2 DEF Typed, FileType, Sought, q
  <2>5. PageFits(Sought.page, Sought.n, Sought.pos)
    <3>1. Len(file.page.data) <= ChunkSize
      BY <1>2, FileSorts
    <3> QED BY <1>1, <2>1, <2>2, <2>4, <3>1, Sizes, SMTT(40) DEF PageFits
  <2> QED BY <1>2, <2>1, <2>2, <2>3, <2>4, <2>5 DEF q
<1>3. CASE ~ (SamePage /\ file.page # NoPage)
  <2>1. SoughtPage = NoPage
    BY <1>3, Zenon DEF SoughtPage
  <2>2. ~ file.page.written
    BY <1>3, FileSorts
  <2> HIDE DEF q
  <2>3. /\ Sought \in FileType /\ Sought.length = file.length /\ Sought.pos = call.target
        /\ Sought.n = q /\ Sought.dirty = file.dirty
        /\ Sought.cursor = file.cursor /\ Sought.page = NoPage
    BY <1>1, <2>1 DEF Typed, FileType, Sought, q
  <2>4. PageFits(Sought.page, Sought.n, Sought.pos)
    BY <2>3 DEF PageFits
  <2> QED BY <2>2, <2>3, <2>4 DEF q
<1> QED BY <1>2, <1>3

LEMMA SeekPageSteps ==
  ASSUME Typed, Control, SeekPage
  PROVE  /\ pc = "seek" /\ (SamePage \/ ~ file.page.written)
         /\ file' = Sought /\ server' = server /\ history' = history /\ bounds' = bounds
         /\ call' \in CallType /\ call'.op = call.op /\ call'.goal = call.goal
         /\ call'.target = None /\ call'.data = call.data
         /\ \/ call.op = "seek" /\ pc' = "return" /\ result' = "ok"
            \/ call.op = "write" /\ pc' = "fill" /\ result' = result
         /\ call.target \in 0 .. MaxLength
<1>1. /\ pc = "seek" /\ (SamePage \/ ~ file.page.written)
      /\ file' = [file EXCEPT !.pos = call.target, !.n = call.target \div ChunkSize,
                    !.page = IF SamePage /\ @ # NoPage
                             THEN [@ EXCEPT !.offset = call.target % ChunkSize] ELSE NoPage]
      /\ call' = [call EXCEPT !.target = None]
      /\ server' = server /\ history' = history /\ bounds' = bounds
      /\ \/ call.op = "seek" /\ pc' = "return" /\ result' = "ok"
         \/ call.op # "seek" /\ pc' = "fill" /\ result' = result
  BY Zenon DEF SeekPage
<1>2. call.op \in {"seek", "write"} /\ call.target \in 0 .. MaxLength
  BY <1>1 DEF Control, Course, At
<1>3. file' = Sought
  BY <1>1, Zenon DEF Sought, SoughtPage
<1>4. /\ call' \in CallType /\ call'.op = call.op /\ call'.goal = call.goal
      /\ call'.target = None /\ call'.data = call.data
  BY <1>1, CallSorts DEF CallType
<1> QED BY <1>1, <1>2, <1>3, <1>4

LEMMA SeekPageKeeps == ASSUME Typed, Control, SeekPage PROVE Typed' /\ Control'
<1> USE SeekPageSteps
<1>1. /\ file' \in FileType /\ file'.length = file.length /\ file'.pos = call.target
      /\ file'.cursor = file.cursor /\ PageFits(file'.page, file'.n, file'.pos)
      /\ file'.page.written => file'.n = file.n /\ file.page.written
  BY SoughtIs, NoPageIs
<1>2. Typed'
  BY <1>1, Sizes DEF Typed, Steps, server, history, bounds
<1>3. Course'
  BY DEF Control, Course, At, server, history
<1>4. Gap' /\ Ends' /\ Reading'
  BY <1>1, FileSorts, SMTT(40) DEF Control, Gap, Ends, Reading, Room, At, None
<1>5. Paging'
  BY <1>1 DEF Control, Paging, server, At
<1> QED BY <1>2, <1>3, <1>4, <1>5 DEF Control


(* The stored chunks with the page among them. *)
LEMMA AfterUpdateIs ==
  ASSUME Typed, file.page # NoPage, file.n \in 0 .. MaxLength
  PROVE  /\ AreChunks(AfterUpdate) /\ DOMAIN AfterUpdate = DOMAIN chunks \cup {file.n}
         /\ AfterUpdate[file.n] = file.page.data
         /\ \A k \in DOMAIN chunks : k # file.n => AfterUpdate[k] = chunks[k]
<1>1. /\ AfterUpdate = [k \in DOMAIN chunks \cup {file.n} |->
                          IF k = file.n THEN file.page.data ELSE chunks[k]]
  BY Zenon DEF AfterUpdate, FlushedChunk
<1>2. /\ IsFiniteSet(DOMAIN chunks) /\ DOMAIN chunks \subseteq 0 .. MaxLength
      /\ \A k \in DOMAIN chunks : chunks[k] \in Seq(Int) /\ Len(chunks[k]) <= ChunkSize
  BY DEF Typed, AreChunks
<1>3. file.page.data \in Seq(Int) /\ Len(file.page.data) <= ChunkSize
  BY FileSorts
<1>4. IsFiniteSet(DOMAIN chunks \cup {file.n})
  BY <1>2, FS_AddElement
<1>5. /\ DOMAIN AfterUpdate = DOMAIN chunks \cup {file.n}
      /\ AfterUpdate \in [DOMAIN AfterUpdate -> Seq(Int)]
      /\ AfterUpdate[file.n] = file.page.data
      /\ \A k \in DOMAIN chunks : k # file.n => AfterUpdate[k] = chunks[k]
  BY <1>1, <1>2, <1>3
<1>6. \A k \in DOMAIN AfterUpdate : Len(AfterUpdate[k]) <= ChunkSize
  BY <1>2, <1>3, <1>5
<1> QED BY <1>2, <1>4, <1>5, <1>6 DEF AreChunks

(* The chunk of a page with written bytes is within the bound. *)
LEMMA WrittenBound ==
  ASSUME Typed, Control, file.page.written
  PROVE  file.n \in 0 .. MaxLength
<1>1. Begin(file.n) <= MaxLength /\ file.n \in Nat
  BY FileSorts DEF Control, Paging
<1>2. file.n <= Begin(file.n)
  BY <1>1, BeginGrows
<1> QED BY <1>1, <1>2, Sizes DEF Begin

LEMMA Unpaged ==
  ASSUME Typed
  PROVE  LET f == [file EXCEPT !.page = NoPage] IN
         /\ f \in FileType /\ f.page = NoPage /\ f.length = file.length /\ f.pos = file.pos
         /\ f.n = file.n /\ f.dirty = file.dirty /\ f.cursor = file.cursor
  BY DEF Typed, FileType

LEMMA Cleaned ==
  ASSUME Typed
  PROVE  LET f == [file EXCEPT !.dirty = FALSE] IN
         /\ f \in FileType /\ f.page = file.page /\ f.length = file.length /\ f.pos = file.pos
         /\ f.n = file.n /\ f.dirty = FALSE /\ f.cursor = file.cursor
  BY DEF Typed, FileType

LEMMA UpdateChunkKeeps == ASSUME Typed, Control, UpdateChunk PROVE Typed' /\ Control'
<1>1. /\ pc = "flush" /\ chunks' = AfterUpdate /\ file' = [file EXCEPT !.page = NoPage]
      /\ pc' = "inner_save" /\ call' = call /\ result' = result /\ stored' = stored
      /\ history' = history /\ bounds' = bounds
  BY Zenon DEF UpdateChunk, Go
<1>2. /\ file' \in FileType /\ file'.page = NoPage /\ file'.length = file.length
      /\ file'.pos = file.pos /\ file'.n = file.n /\ file'.cursor = file.cursor
  BY <1>1, Unpaged
<1>3. file.page.written /\ file.page # NoPage /\ file.n \in 0 .. MaxLength
  BY <1>1, WrittenBound, FileSorts DEF Control, Paging
<1>4. AreChunks(chunks')
  BY <1>1, <1>3, AfterUpdateIs
<1>5. Typed'
  BY <1>1, <1>2, <1>4 DEF Typed, Steps, history, bounds, PageFits
<1>6. At' = At
  BY <1>1 DEF At
<1>7. Course'
  BY <1>1, <1>6 DEF Control, Course, history
<1>8. Gap' /\ Ends' /\ Reading'
  BY <1>1, <1>2, <1>6 DEF Control, Gap, Ends, Reading, Room
<1>9. Paging'
  BY <1>1, <1>2, NoPageIs DEF Control, Paging
<1> QED BY <1>5, <1>7, <1>8, <1>9 DEF Control

LEMMA InnerSaveCleanKeeps == ASSUME Typed, Control, InnerSaveClean PROVE Typed' /\ Control'
<1>1. /\ pc = "inner_save" /\ pc' = call.back /\ call' = call /\ result' = result
      /\ file' = file /\ server' = server /\ history' = history /\ bounds' = bounds
  BY Zenon DEF InnerSaveClean, Go
<1>2. call.back \in {"put", "fill", "seek", "save_file"} /\ file.page = NoPage
  BY <1>1 DEF Control, Course, Paging
<1>3. Typed'
  BY <1>1, <1>2, QuietKeepsTypes DEF Typed, Steps
<1>4. At' = At
  BY <1>1, <1>2 DEF At
<1>5. Course'
  BY <1>1, <1>2, <1>4 DEF Control, Course, history, server
<1>6. Gap' /\ Ends' /\ Reading'
  BY <1>1, <1>4 DEF Control, Gap, Ends, Reading, Room
<1>7. Paging'
  BY <1>1, <1>2, NoPageIs DEF Control, Paging, server, At
<1> QED BY <1>3, <1>5, <1>6, <1>7 DEF Control

LEMMA UpdateFileKeeps == ASSUME Typed, Control, UpdateFile PROVE Typed' /\ Control'
<1>1. /\ stored' = file.length /\ file' = [file EXCEPT !.dirty = FALSE] /\ unsaved' = FALSE
      /\ chunks' = chunks /\ content' = content /\ lost' = lost /\ stale' = stale
      /\ torn' = torn /\ removed' = removed /\ bounds' = bounds /\ call' = call
      /\ \/ pc = "save_file" /\ pc' = "return" /\ result' = "ok"
         \/ pc = "inner_save" /\ pc' = call.back /\ result' = result
  BY Zenon DEF UpdateFile, MustUpdateFile, Go, End
<1>2. /\ file' \in FileType /\ file'.page = file.page /\ file'.length = file.length
      /\ file'.pos = file.pos /\ file'.n = file.n /\ file'.cursor = file.cursor
  BY <1>1, Cleaned
<1>3. /\ pc = "inner_save" => /\ call.back \in {"put", "fill", "seek", "save_file"}
                              /\ file.page = NoPage
      /\ ~ removed
      /\ pc = "save_file" => ~ file.page.written
  BY <1>1 DEF Control, Course, Paging
<1>4. Typed'
  <2>1. pc' \in Steps /\ result' \in {"none", "ok", "error"}
    BY <1>1, <1>3 DEF Typed, Steps
  <2>2. stored' \in 0 .. MaxLength
    BY <1>1, FileSorts
  <2>3. writes' = writes /\ failures' = failures
    BY <1>1 DEF bounds
  <2> QED BY <1>1, <1>2, <2>1, <2>2, <2>3 DEF Typed
<1>5. pc = "save_file" \/ At' = At
  BY <1>1, <1>3 DEF At
<1>6. Course'
  BY <1>1, <1>3, <1>5 DEF Control, Course, At
<1>7. Gap' /\ Ends' /\ Reading'
  BY <1>1, <1>2, <1>5 DEF Control, Gap, Ends, Reading, Room, At
<1>8. Paging'
  BY <1>1, <1>2, <1>3, NoPageIs, FileSorts DEF Control, Paging, At
<1> QED BY <1>4, <1>6, <1>7, <1>8 DEF Control

LEMMA RemoveFileKeeps == ASSUME Typed, Control, RemoveFile PROVE Typed' /\ Control'
<1>1. /\ pc = "remove_file" /\ pc' = "remove_chunks" /\ stored' = None /\ call' = call
      /\ result' = result /\ chunks' = chunks /\ file' = file /\ history' = history
      /\ bounds' = bounds
  BY Zenon DEF RemoveFile, Go
<1>2. Typed'
  BY <1>1 DEF Typed, Steps, history, bounds
<1>3. Course'
  BY <1>1 DEF Control, Course, At, history
<1>4. Gap' /\ Ends' /\ Reading'
  BY <1>1 DEF Control, Gap, Ends, Reading, Room, At
<1>5. Paging'
  BY <1>1 DEF Control, Paging, At
<1> QED BY <1>2, <1>3, <1>4, <1>5 DEF Control

LEMMA RemoveChunksKeeps == ASSUME Typed, Control, RemoveChunks PROVE Typed' /\ Control'
<1> DEFINE nothing == <<>>
<1>1. /\ pc = "remove_chunks" /\ pc' = "return" /\ result' = "ok" /\ call' = call
      /\ chunks' = nothing /\ stored' = stored /\ file' = file
      /\ removed' = TRUE /\ content' = <<>> /\ lost' = lost /\ stale' = stale /\ torn' = torn
      /\ unsaved' = unsaved /\ bounds' = bounds
  BY Zenon DEF RemoveChunks, End
<1>2. AreChunks(nothing)
  <2>1. DOMAIN nothing = {}
    OBVIOUS
  <2>2. nothing \in Seq(Int) /\ nothing = [k \in DOMAIN nothing |-> nothing[k]]
    BY EmptySeq
  <2> HIDE DEF nothing
  <2> QED BY <2>1, <2>2, FS_EmptySet DEF AreChunks
<1> HIDE DEF nothing
<1>3. Typed'
  BY <1>1, <1>2, EmptySeq DEF Typed, Steps, bounds
<1>4. Course'
  BY <1>1 DEF Control, Course, At
<1>5. Gap' /\ Ends' /\ Reading'
  BY <1>1 DEF Control, Gap, Ends, Reading, Room, At
<1>6. Paging'
  BY <1>1, PageStays
<1> QED BY <1>3, <1>4, <1>5, <1>6 DEF Control


(* What a failure does to a call: it ends, except when it was filling a gap. *)
LEMMA FailIs ==
  ASSUME Typed, Control, Fail
  PROVE  /\ call' \in CallType /\ call'.op = call.op /\ call'.data = call.data
         /\ call'.goal = None /\ result' \in {"none", "ok", "error"}
         /\ \/ call.goal = None /\ pc' = "return" /\ result' = "error" /\ call' = call
            \/ call.goal # None /\ pc' = "put" /\ call'.target = None /\ result' = result
         /\ torn' = (torn \/ call.op = "write") /\ torn' \in BOOLEAN
         /\ content' = (IF call.op = "write" THEN <<>> ELSE content) /\ content' \in Seq(Int)
<1>1. /\ \/ call.goal = None /\ pc' = "return" /\ result' = "error" /\ call' = call
         \/ call.goal # None /\ pc' = "put" /\ call' = Aimed(call, None, None) /\ result' = result
      /\ torn' = (torn \/ (call.op = "write"))
      /\ content' = IF call.op = "write" THEN <<>> ELSE content
  BY Zenon DEF Fail, End, Aimed
<1>2. LET d == Aimed(call, None, None) IN
      d \in CallType /\ d.op = call.op /\ d.data = call.data /\ d.goal = None /\ d.target = None
  <2>1. call \in CallType /\ None \in Nat \cup {None}
    BY CallSorts
  <2> QED BY <2>1, CallAim, ZenonT(60)
<1>3. call \in CallType
  BY CallSorts
<1>4. content' \in Seq(Int)
  BY <1>1, EmptySeq DEF Typed
<1>5. torn' \in BOOLEAN
  BY <1>1 DEF Typed
<1>6. result' \in {"none", "ok", "error"}
  BY <1>1 DEF Typed
<1> QED BY <1>1, <1>2, <1>3, <1>4, <1>5, <1>6

LEMMA FailKeepsControl ==
  ASSUME Typed, Control, Fail, file'.page = file.page, file'.n = file.n,
         file'.length = file.length, file'.pos = file.pos,
         stored' # None => stored' <= file.length,
         removed' => stored' = None /\ call.goal = None
  PROVE  Control'
<1> USE FailIs
<1>1. call.goal # None => /\ call.op = "write" /\ call.goal \in Nat /\ file.pos <= call.goal
                          /\ call.goal + Len(call.data) <= MaxLength
  BY CallSorts DEF Control, Gap, Ends
<1>2. Course'
  BY <1>1 DEF Course, At
<1>3. Gap'
  BY DEF Gap, At
<1>4. Ends'
  BY <1>1, FileSorts, CallSorts, Sizes, SMTT(40) DEF Ends, At
<1>5. Paging'
  <2>1. file.page.written => Begin(file.n) <= MaxLength
    BY DEF Control, Paging
  <2> QED BY <2>1 DEF Paging, At
<1>6. Reading'
  BY DEF Reading, At
<1> QED BY <1>2, <1>3, <1>4, <1>5, <1>6 DEF Control

LEMMA CursorFailed ==
  ASSUME Typed, file.cursor # NoCursor
  PROVE  LET f == [file EXCEPT !.cursor.failed = TRUE] IN
         /\ f \in FileType /\ f.page = file.page /\ f.length = file.length /\ f.pos = file.pos
         /\ f.n = file.n /\ f.dirty = file.dirty /\ f.cursor # NoCursor
         /\ f.cursor.ahead = file.cursor.ahead /\ f.cursor.next = file.cursor.next
         /\ f.cursor.last = file.cursor.last
<1> DEFINE f == [file EXCEPT !.cursor.failed = TRUE]
<1>1. file \in FileType /\ file.cursor \in CursorType
  BY FileSorts DEF Typed
<1>2. f.cursor = [file.cursor EXCEPT !.failed = TRUE]
  BY <1>1 DEF FileType
<1>3. /\ f.cursor \in CursorType /\ f.cursor.failed = TRUE
      /\ f.cursor.ahead = file.cursor.ahead /\ f.cursor.next = file.cursor.next
      /\ f.cursor.last = file.cursor.last
  BY <1>1, <1>2, ZenonT(60) DEF CursorType
<1>4. f.cursor # NoCursor
  <2>1. NoCursor.failed = FALSE
    BY DEF NoCursor
  <2> QED BY <1>3, <2>1
<1>5. /\ f \in FileType /\ f.page = file.page /\ f.length = file.length /\ f.pos = file.pos
      /\ f.n = file.n /\ f.dirty = file.dirty
  BY <1>1, <1>3 DEF FileType
<1> QED BY <1>3, <1>4, <1>5

(* The ways in which the server can fail. *)
LEMMA ServerFailsSteps ==
  ASSUME ServerFails
  PROVE  /\ failures < MaxFailures /\ failures' = failures + 1 /\ Fail
         /\ lost' = lost /\ stale' = stale /\ writes' = writes
         /\ \/ /\ MustFetch /\ file' = [file EXCEPT !.cursor.failed = TRUE]
               /\ chunks' = chunks /\ stored' = stored /\ unsaved' = unsaved /\ removed' = removed
            \/ /\ pc = "flush" /\ chunks' \in {chunks, AfterUpdate}
               /\ stored' = stored /\ file' = file /\ unsaved' = unsaved /\ removed' = removed
            \/ /\ MustUpdateFile /\ stored' \in {stored, file.length}
               /\ file' = [file EXCEPT !.dirty = FALSE] /\ unsaved' = TRUE
               /\ chunks' = chunks /\ removed' = removed
            \/ /\ pc = "remove_file" /\ stored' \in {stored, None}
               /\ unsaved' = (unsaved \/ stored' # stored)
               /\ chunks' = chunks /\ file' = file /\ removed' = removed
            \/ /\ pc = "remove_chunks"
               /\ \E kept \in SUBSET DOMAIN chunks : chunks' = [k \in kept |-> chunks[k]]
               /\ removed' = TRUE /\ stored' = stored /\ file' = file /\ unsaved' = unsaved
  BY Zenon DEF ServerFails, server

LEMMA MustFetchCursor ==
  ASSUME Typed, MustFetch
  PROVE  pc = "next" /\ file.cursor # NoCursor /\ file.cursor.next \in Nat
         /\ file.cursor.last \in Nat
<1>1. NoCursor.more = FALSE
  BY DEF NoCursor
<1> QED BY <1>1 DEF MustFetch, Typed, CursorFits

LEMMA ServerFailsKeeps == ASSUME Typed, Control, ServerFails PROVE Typed' /\ Control'
<1>1. /\ failures' \in 0 .. MaxFailures /\ writes' = writes /\ Fail /\ lost' = lost
      /\ stale' = stale /\ unsaved' \in BOOLEAN
  <2>1. failures < MaxFailures /\ failures' = failures + 1 /\ failures \in 0 .. MaxFailures
    BY ServerFailsSteps DEF Typed
  <2>2. failures' \in 0 .. MaxFailures
    BY <2>1, Sizes
  <2>3. unsaved \in BOOLEAN
    BY DEF Typed
  <2>4. unsaved' \in BOOLEAN
    BY <2>3, ServerFailsSteps, Zenon
  <2> QED BY <2>2, <2>4, ServerFailsSteps, Zenon
<1>2. /\ file' \in FileType /\ file'.page = file.page /\ file'.n = file.n
      /\ file'.length = file.length /\ file'.pos = file.pos
      /\ file'.cursor.ahead = file.cursor.ahead /\ CursorFits(file'.cursor)
  <2>1. file \in FileType /\ CursorFits(file.cursor)
    BY DEF Typed
  <2>2. CASE MustFetch /\ file' = [file EXCEPT !.cursor.failed = TRUE]
    BY <2>2, MustFetchCursor, CursorFailed DEF CursorFits
  <2>3. CASE file' = file
    BY <2>1, <2>3
  <2>4. CASE file' = [file EXCEPT !.dirty = FALSE]
    BY <2>1, <2>4, Cleaned
  <2> QED BY <2>2, <2>3, <2>4, ServerFailsSteps, Zenon
<1>3. stored' \in {stored, file.length, None}
  BY ServerFailsSteps
<1>4. stored' # None => stored' <= file.length
  BY <1>3, FileSorts DEF Control, Paging
<1>5. removed' => stored' = None /\ call.goal = None
  <2>1. CASE pc = "remove_chunks"
    BY <2>1, ServerFailsSteps DEF Control, Course, Gap, At, MustFetch, MustUpdateFile
  <2>2. CASE pc # "remove_chunks"
    <3>1. removed' = removed
      BY <2>2, ServerFailsSteps
    <3>2. removed => pc = "remove_file" /\ stored' = None
      BY <2>2, ServerFailsSteps DEF Control, Course, MustFetch, MustUpdateFile
    <3> QED BY <3>1, <3>2 DEF Control, Gap, At
  <2> QED BY <2>1, <2>2
<1>6. removed' \in BOOLEAN
  BY ServerFailsSteps DEF Typed
<1>7. AreChunks(chunks')
  <2>1. AreChunks(chunks)
    BY DEF Typed
  <2>2. ASSUME pc = "flush" PROVE AreChunks(AfterUpdate)
    <3>1. file.page.written
      BY <2>2 DEF Control, Paging
    <3> QED BY <3>1, WrittenBound, FileSorts, AfterUpdateIs
  <2>3. ASSUME NEW kept \in SUBSET DOMAIN chunks
        PROVE  AreChunks([k \in kept |-> chunks[k]])
    <3>1. IsFiniteSet(kept)
      BY <2>1, FS_Subset DEF AreChunks
    <3> QED BY <2>1, <3>1 DEF AreChunks
  <2> HIDE DEF AreChunks
  <2>4. \/ chunks' = chunks \/ (pc = "flush" /\ chunks' = AfterUpdate)
        \/ \E kept \in SUBSET DOMAIN chunks : chunks' = [k \in kept |-> chunks[k]]
    BY ServerFailsSteps
  <2> QED BY <2>1, <2>2, <2>3, <2>4, Zenon
<1>8. Typed'
  <2>1. pc' \in Steps
    BY <1>1, FailIs DEF Steps
  <2>2. stored' \in {None} \cup 0 .. MaxLength
    BY <1>3, FileSorts DEF Typed
  <2>3. PageFits(file'.page, file'.n, file'.pos) /\ AheadFits(file'.cursor.ahead)
    BY <1>2 DEF Typed
  <2>4. /\ file'.length <= MaxLength /\ file'.pos <= MaxLength + ChunkSize
    BY <1>2 DEF Typed
  <2>5. writes' \in 0 .. MaxWrites /\ lost' \in BOOLEAN /\ stale' \in BOOLEAN
    BY <1>1 DEF Typed
  <2>6. /\ call' \in CallType /\ result' \in {"none", "ok", "error"} /\ content' \in Seq(Int)
        /\ torn' \in BOOLEAN
    BY <1>1, FailIs
  <2> QED BY <1>1, <1>2, <1>6, <1>7, <2>1, <2>2, <2>3, <2>4, <2>5, <2>6, Zenon DEF Typed
<1>9. Control'
  BY <1>1, <1>2, <1>4, <1>5, FailKeepsControl
<1> QED BY <1>8, <1>9


LEMMA PageIsNew ==
  ASSUME NEW pos \in Nat, NEW len \in Nat
  PROVE  RoundUp(pos + 1) > RoundUp(len) <=> Begin(pos \div ChunkSize) >= len
<1> DEFINE n == pos \div ChunkSize
<1>1. n \in Nat /\ Begin(n) <= pos /\ pos < Begin(n) + ChunkSize
  BY Division
<1> HIDE DEF n
<1>2. Begin(n) \in Nat /\ Begin(n + 1) = Begin(n) + ChunkSize /\ n + 1 \in Nat
  BY <1>1, BeginNext
<1>3. /\ RoundUp(len) \in Nat
      /\ n < RoundUp(len) <=> Begin(n) < len
  BY <1>1, RoundUpIs
<1>4. pos + 1 \in Nat
  OBVIOUS
<1>5. /\ RoundUp(pos + 1) \in Nat
      /\ \A k \in Nat : k < RoundUp(pos + 1) <=> Begin(k) < pos + 1
  BY <1>4, RoundUpIs
<1>6. n < RoundUp(pos + 1) <=> Begin(n) < pos + 1
  BY <1>1, <1>5
<1>7. n + 1 < RoundUp(pos + 1) <=> Begin(n + 1) < pos + 1
  BY <1>2, <1>5
<1>8. n < RoundUp(pos + 1) /\ ~ (n + 1 < RoundUp(pos + 1))
  BY <1>1, <1>2, <1>6, <1>7, Sizes
<1>9. RoundUp(pos + 1) > RoundUp(len) <=> Begin(n) >= len
  BY <1>1, <1>2, <1>3, <1>5, <1>8
<1> QED BY <1>9, Zenon DEF n

(* The file with another cursor, and with another page. *)
WithCursor(c) == [file EXCEPT !.cursor = c]
WithPage(n, pg, c) == [file EXCEPT !.n = n, !.page = pg, !.cursor = c]

LEMMA WithCursorIs ==
  ASSUME Typed, NEW c \in CursorType
  PROVE  LET f == WithCursor(c) IN
         /\ f \in FileType /\ f.page = file.page /\ f.length = file.length /\ f.pos = file.pos
         /\ f.n = file.n /\ f.dirty = file.dirty /\ f.cursor = c
  BY DEF Typed, FileType, WithCursor

LEMMA WithPageIs ==
  ASSUME Typed, NEW n \in Nat, NEW pg \in PageType \cup {NoPage}, NEW c \in CursorType
  PROVE  LET f == WithPage(n, pg, c) IN
         /\ f \in FileType /\ f.page = pg /\ f.length = file.length /\ f.pos = file.pos
         /\ f.n = n /\ f.dirty = file.dirty /\ f.cursor = c
  BY DEF Typed, FileType, WithPage

LEMMA NewCursorIs ==
  ASSUME Typed, NEW n \in Nat
  PROVE  /\ NewCursor(n) \in CursorType /\ CursorFits(NewCursor(n))
         /\ AheadFits(NewCursor(n).ahead)
<1>1. file.length \div ChunkSize \in Nat
  BY FileSorts, Division
<1>2. <<>> \in Seq(Received) /\ Len(<<>>) = 0
  BY EmptySeq
<1>3. NewCursor(n) \in CursorType
  BY <1>1, <1>2 DEF NewCursor, CursorType
<1>4. /\ NewCursor(n).next = n /\ NewCursor(n).last = file.length \div ChunkSize
      /\ NewCursor(n).ahead = <<>>
  BY DEF NewCursor
<1> QED BY <1>1, <1>2, <1>3, <1>4 DEF CursorFits, AheadFits

RefreshCursor ==
  IF KeepCursor(file.pos \div ChunkSize) THEN file.cursor ELSE NewCursor(file.pos \div ChunkSize)

LEMMA RefreshSteps ==
  ASSUME Typed, Refresh
  PROVE  /\ pc = "refresh" /\ lost' = (lost \/ file.page.written)
         /\ content' = (IF file.page.written THEN <<>> ELSE content)
         /\ server' = server /\ stale' = stale /\ torn' = torn /\ unsaved' = unsaved
         /\ removed' = removed /\ bounds' = bounds /\ call' = call /\ result' = result
         /\ file' \in FileType /\ file'.n = file.pos \div ChunkSize
         /\ file'.length = file.length /\ file'.pos = file.pos /\ file'.dirty = file.dirty
         /\ CursorFits(file'.cursor) /\ AheadFits(file'.cursor.ahead)
         /\ \/ /\ Begin(file'.n) >= file.length /\ file'.page = PageFor(<<>>, file.pos)
               /\ pc' = call.back
            \/ /\ Begin(file'.n) < file.length /\ file'.page = NoPage /\ pc' = "next"
<1> DEFINE n == file.pos \div ChunkSize
           nothing == <<>>
<1>1. /\ pc = "refresh" /\ lost' = (lost \/ file.page.written)
      /\ content' = IF file.page.written THEN <<>> ELSE content
      /\ server' = server /\ stale' = stale /\ torn' = torn /\ unsaved' = unsaved
      /\ removed' = removed /\ bounds' = bounds /\ call' = call /\ result' = result
      /\ \/ /\ RoundUp(file.pos + 1) > RoundUp(file.length)
            /\ file' = [file EXCEPT !.n = n, !.page = PageFor(nothing, file.pos)]
            /\ pc' = call.back
         \/ /\ ~ (RoundUp(file.pos + 1) > RoundUp(file.length))
            /\ file' = [file EXCEPT !.n = n, !.page = NoPage,
                          !.cursor = IF KeepCursor(n) THEN @ ELSE NewCursor(n)]
            /\ pc' = "next"
  BY Zenon DEF Refresh, Go
<1>2. n \in Nat /\ Begin(n) \in Nat /\ nothing \in Seq(Int) /\ file.pos \in Nat
      /\ file.length \in Nat
  <2>1. file.pos \in Nat /\ file.length \in Nat
    BY FileSorts
  <2>2. n \in Nat
    BY <2>1, Division
  <2> HIDE DEF n
  <2>3. Begin(n) \in Nat
    BY <2>2, BeginNext
  <2> QED BY <2>1, <2>2, <2>3, EmptySeq
<1>3. /\ file.cursor \in CursorType /\ CursorFits(file.cursor) /\ AheadFits(file.cursor.ahead)
      /\ RefreshCursor \in CursorType /\ CursorFits(RefreshCursor)
      /\ AheadFits(RefreshCursor.ahead)
  <2>1. /\ file.cursor \in CursorType /\ CursorFits(file.cursor) /\ AheadFits(file.cursor.ahead)
    BY FileSorts DEF Typed
  <2>2. /\ NewCursor(n) \in CursorType /\ CursorFits(NewCursor(n))
        /\ AheadFits(NewCursor(n).ahead)
    BY <1>2, NewCursorIs
  <2> QED BY <2>1, <2>2, Zenon DEF RefreshCursor
<1>4. RoundUp(file.pos + 1) > RoundUp(file.length) <=> Begin(n) >= file.length
  BY <1>2, PageIsNew
<1>5. PageFor(nothing, file.pos) \in PageType
  <2> HIDE DEF nothing
  <2> QED BY <1>2, PageForIs
<1>6. CASE RoundUp(file.pos + 1) > RoundUp(file.length)
  <2>1. file' = WithPage(n, PageFor(nothing, file.pos), file.cursor) /\ pc' = call.back
    <3>1. file' = [file EXCEPT !.n = n, !.page = PageFor(nothing, file.pos)]
      BY <1>1, <1>6, Zenon
    <3>2. file \in FileType
      BY DEF Typed
    <3> HIDE DEF n, nothing
    <3>3. [file EXCEPT !.n = n, !.page = PageFor(nothing, file.pos)]
          = WithPage(n, PageFor(nothing, file.pos), file.cursor)
      BY <3>2 DEF WithPage, FileType
    <3>4. pc' = call.back
      BY <1>1, <1>6, Zenon
    <3> QED BY <3>1, <3>3, <3>4
  <2> HIDE DEF n, nothing
  <2>2. LET f == WithPage(n, PageFor(nothing, file.pos), file.cursor) IN
        /\ f \in FileType /\ f.page = PageFor(nothing, file.pos) /\ f.length = file.length
        /\ f.pos = file.pos /\ f.n = n /\ f.dirty = file.dirty /\ f.cursor = file.cursor
    BY <1>2, <1>3, <1>5, WithPageIs
  <2>3. /\ file' \in FileType /\ file'.page = PageFor(nothing, file.pos)
        /\ file'.length = file.length /\ file'.pos = file.pos /\ file'.n = n
        /\ file'.dirty = file.dirty /\ file'.cursor = file.cursor
    BY <2>1, <2>2
  <2>4. Begin(file'.n) >= file.length
    BY <1>4, <1>6, <2>3
  <2> QED BY <1>1, <1>3, <2>1, <2>3, <2>4, Zenon DEF n, nothing
<1>7. CASE ~ (RoundUp(file.pos + 1) > RoundUp(file.length))
  <2>1. file' = WithPage(n, NoPage, RefreshCursor) /\ pc' = "next"
    BY <1>1, <1>7, Zenon DEF WithPage, RefreshCursor
  <2> HIDE DEF n, nothing
  <2>2. LET f == WithPage(n, NoPage, RefreshCursor) IN
        /\ f \in FileType /\ f.page = NoPage /\ f.length = file.length
        /\ f.pos = file.pos /\ f.n = n /\ f.dirty = file.dirty /\ f.cursor = RefreshCursor
    <3> DEFINE pg == NoPage
    <3>1. pg \in PageType \cup {NoPage} /\ n \in Nat /\ RefreshCursor \in CursorType
      BY <1>2, <1>3
    <3>2. pg = NoPage
      OBVIOUS
    <3> HIDE DEF pg
    <3>3. LET f == WithPage(n, pg, RefreshCursor) IN
        /\ f \in FileType /\ f.page = pg /\ f.length = file.length
        /\ f.pos = file.pos /\ f.n = n /\ f.dirty = file.dirty /\ f.cursor = RefreshCursor
      BY <3>1, WithPageIs
    <3> QED BY <3>2, <3>3
  <2>3. /\ file' \in FileType /\ file'.page = NoPage
        /\ file'.length = file.length /\ file'.pos = file.pos /\ file'.n = n
        /\ file'.dirty = file.dirty /\ file'.cursor = RefreshCursor
    BY <2>1, <2>2
  <2>4. Begin(file'.n) < file.length
    BY <1>2, <1>4, <1>7, <2>3
  <2> QED BY <1>1, <1>3, <2>1, <2>3, <2>4, Zenon DEF n, nothing
<1> QED BY <1>6, <1>7

LEMMA RefreshKeeps == ASSUME Typed, Control, Refresh PROVE Typed' /\ Control'
<1> DEFINE nothing == <<>>
           n == file.pos \div ChunkSize
<1>1. nothing \in Seq(Int) /\ Len(nothing) = 0
  BY EmptySeq
<1>2. /\ pc = "refresh" /\ lost' = (lost \/ file.page.written)
      /\ content' = (IF file.page.written THEN nothing ELSE content)
      /\ server' = server /\ stale' = stale /\ torn' = torn /\ unsaved' = unsaved
      /\ removed' = removed /\ bounds' = bounds /\ call' = call /\ result' = result
      /\ file' \in FileType /\ file'.n = n
      /\ file'.length = file.length /\ file'.pos = file.pos /\ file'.dirty = file.dirty
      /\ CursorFits(file'.cursor) /\ AheadFits(file'.cursor.ahead)
      /\ \/ /\ Begin(file'.n) >= file.length /\ file'.page = PageFor(nothing, file.pos)
            /\ pc' = call.back
         \/ /\ Begin(file'.n) < file.length /\ file'.page = NoPage /\ pc' = "next"
  BY RefreshSteps, Zenon
<1>3. call.back \in {"page_read", "writev", "put", "fill"} /\ ~ removed
  BY <1>2 DEF Control, Course
<1> HIDE DEF nothing
<1>4. /\ PageFor(nothing, file.pos) # NoPage
      /\ PageFor(nothing, file.pos).data = nothing
      /\ PageFor(nothing, file.pos).offset = file.pos - Begin(n)
      /\ PageFor(nothing, file.pos).written = FALSE
      /\ Begin(n) \in Nat
      /\ Begin(n) <= file.pos /\ file.pos < Begin(n) + ChunkSize
  BY <1>1, FileSorts, PageForIs
<1> HIDE DEF n
<1>5. PageFits(file'.page, file'.n, file'.pos)
  <2>1. CASE file'.page = PageFor(nothing, file.pos)
    BY <1>1, <1>2, <1>4, <2>1, FileSorts, Sizes, SMTT(40) DEF PageFits
  <2>2. CASE file'.page = NoPage
    BY <2>2 DEF PageFits
  <2> QED BY <1>2, <2>1, <2>2
<1>6. pc' \in Steps /\ (pc' = "next" \/ pc' \in {"page_read", "writev", "put", "fill"})
  BY <1>2, <1>3 DEF Steps
<1>7. content' \in Seq(Int)
  BY <1>1, <1>2 DEF Typed
<1>8. lost' \in BOOLEAN
  <2>1. file.page.written \in BOOLEAN
    BY FileSorts, NoPageIs
  <2>2. lost \in BOOLEAN
    BY DEF Typed
  <2> QED BY <1>2, <2>1, <2>2, Zenon
<1>9. Typed'
  BY <1>2, <1>5, <1>6, <1>7, <1>8 DEF Typed, server, bounds
<1>10. At' = At /\ At = call.back
  BY <1>2, <1>6, <1>3 DEF At
<1>11. Course'
  BY <1>2, <1>3, <1>6, <1>10 DEF Control, Course, server
<1>12. Gap' /\ Ends' /\ Reading'
  BY <1>2, <1>10 DEF Control, Gap, Ends, Reading, Room
<1>13. Paging'
  <2>1. stored # None => stored <= file.length
    BY DEF Control, Paging
  <2>2. ~ file'.page.written
    BY <1>2, <1>4, NoPageIs
  <2>3. Begin(file'.n) <= MaxLength + ChunkSize
    BY <1>2, <1>4, FileSorts, Sizes
  <2>4. pc' = "next" \/ (file'.page # NoPage /\ Begin(file'.n) >= file.length /\ file'.page.data = <<>>)
    BY <1>2, <1>4 DEF nothing
  <2>5. file'.page # NoPage => Begin(file'.n) >= file.length /\ file'.page.data = <<>>
    BY <1>2, <1>4 DEF nothing
  <2>6. pc' = "next" => file'.page = NoPage /\ file'.n = file'.pos \div ChunkSize
                        /\ Begin(file'.n) < file'.length
    BY <1>2, <1>3 DEF n
  <2>7. stored' = stored /\ file'.length = file.length
    BY <1>2 DEF server
  <2> QED BY <1>6, <2>1, <2>2, <2>3, <2>4, <2>5, <2>6, <2>7 DEF Paging
<1> QED BY <1>9, <1>11, <1>12, <1>13 DEF Control


(* A failure in refresh_page, where only the cursor changes. *)
LEMMA CursorLost ==
  ASSUME Typed, Control, Fail, pc = "next", NEW c \in CursorType, file' = WithCursor(c),
         CursorFits(c), AheadFits(c.ahead), server' = server, lost' = lost, stale' = stale,
         unsaved' = unsaved, removed' = removed, bounds' = bounds
  PROVE  Typed' /\ Control'
<1>1. /\ file' \in FileType /\ file'.page = file.page /\ file'.length = file.length
      /\ file'.pos = file.pos /\ file'.n = file.n /\ file'.cursor = c
  BY WithCursorIs
<1>2. Typed'
  <2>1. pc' \in Steps
    BY FailIs DEF Steps
  <2>2. PageFits(file'.page, file'.n, file'.pos)
    BY <1>1 DEF Typed
  <2>3. /\ call' \in CallType /\ result' \in {"none", "ok", "error"} /\ content' \in Seq(Int)
        /\ torn' \in BOOLEAN
    BY FailIs
  <2> QED BY <1>1, <2>1, <2>2, <2>3 DEF Typed, server, bounds
<1>3. Control'
  <2>1. stored' # None => stored' <= file.length
    BY DEF server, Control, Paging
  <2>2. ~ removed'
    BY DEF Control, Course
  <2> QED BY <1>1, <2>1, <2>2, FailKeepsControl
<1> QED BY <1>2, <1>3

LEMMA NoChunkSteps ==
  ASSUME Typed, NoChunk
  PROVE  /\ pc = "next" /\ Fail /\ server' = server /\ lost' = lost /\ stale' = stale
         /\ unsaved' = unsaved /\ removed' = removed /\ bounds' = bounds
         /\ \E c \in {file.cursor, NoCursor} : file' = WithCursor(c)
<1>1. /\ pc = "next" /\ Fail /\ server' = server /\ lost' = lost /\ stale' = stale
      /\ unsaved' = unsaved /\ removed' = removed /\ bounds' = bounds
      /\ file' = WithCursor(IF file.cursor.failed THEN file.cursor ELSE NoCursor)
  BY Zenon DEF NoChunk, WithCursor
<1> QED BY <1>1

LEMMA CursorsFit ==
  ASSUME Typed
  PROVE  \A c \in {file.cursor, NoCursor} :
           c \in CursorType /\ CursorFits(c) /\ AheadFits(c.ahead)
<1>1. file.cursor \in CursorType /\ CursorFits(file.cursor) /\ AheadFits(file.cursor.ahead)
  BY FileSorts DEF Typed
<1>2. NoCursor \in CursorType /\ CursorFits(NoCursor)
  BY CursorTypes DEF CursorFits
<1>3. AheadFits(NoCursor.ahead)
  BY CursorTypes DEF AheadFits
<1> QED BY <1>1, <1>2, <1>3

LEMMA NoChunkKeeps == ASSUME Typed, Control, NoChunk PROVE Typed' /\ Control'
<1>1. PICK c \in {file.cursor, NoCursor} : file' = WithCursor(c)
  BY NoChunkSteps
<1>2. c \in CursorType /\ CursorFits(c) /\ AheadFits(c.ahead)
  BY CursorsFit
<1> QED BY <1>1, <1>2, NoChunkSteps, CursorLost

(* The next of the chunks that the cursor received. *)
NextReceived == Head(file.cursor.ahead)
Advanced == [file.cursor EXCEPT !.next = @ + 1, !.ahead = Tail(@)]

LEMMA AdvancedIs ==
  ASSUME Typed, file.cursor.ahead # <<>>
  PROVE  /\ NextReceived \in Received /\ NextReceived.data \in Seq(Int)
         /\ NextReceived = file.cursor.ahead[1] /\ Len(file.cursor.ahead) >= 1
         /\ NextReceived.n \in Nat /\ Len(NextReceived.data) <= ChunkSize
         /\ Advanced \in CursorType /\ CursorFits(Advanced) /\ AheadFits(Advanced.ahead)
         /\ Advanced.ahead = Tail(file.cursor.ahead)
         /\ Advanced.next = file.cursor.next + 1
<1> DEFINE ahead == file.cursor.ahead
<1>1. /\ ahead \in Seq(Received) /\ file.cursor \in CursorType
  BY FileSorts DEF CursorType
<1>2. file.cursor.next \in Nat /\ file.cursor.last \in Nat
  BY CursorTypes DEF Typed, CursorFits
<1>3. \A i \in 1 .. Len(ahead) : Len(ahead[i].data) <= ChunkSize
  BY DEF Typed, AheadFits
<1>4. /\ Advanced \in CursorType /\ Advanced.ahead = Tail(ahead)
      /\ Advanced.next = file.cursor.next + 1 /\ Advanced.last = file.cursor.last
  <2>1. Tail(ahead) \in Seq(Received) /\ file.cursor.next + 1 \in Int
    BY <1>1, <1>2
  <2> QED BY <1>1, <2>1 DEF Advanced, CursorType
<1> HIDE DEF ahead
<1>5. ahead # <<>>
  BY DEF ahead
<1>6. /\ Head(ahead) = ahead[1] /\ Len(ahead) >= 1 /\ Head(ahead) \in Received
      /\ Len(Tail(ahead)) = Len(ahead) - 1
      /\ \A i \in 1 .. Len(Tail(ahead)) : Tail(ahead)[i] = ahead[i + 1]
  BY <1>1, <1>5
<1>7. NextReceived = ahead[1] /\ NextReceived \in Received
  BY <1>6 DEF NextReceived, ahead
<1>8. NextReceived.data \in Seq(Int) /\ NextReceived.n \in Nat
  BY <1>7 DEF Received
<1>9. Len(ahead[1].data) <= ChunkSize
  <2>1. 1 \in 1 .. Len(ahead)
    BY <1>1, <1>6
  <2> QED BY <1>3, <2>1 DEF ahead
<1>10. AheadFits(Tail(ahead))
  <2> SUFFICES ASSUME NEW i \in 1 .. Len(Tail(ahead))
               PROVE  Len(Tail(ahead)[i].data) <= ChunkSize
    BY DEF AheadFits
  <2>1. i + 1 \in 1 .. Len(ahead)
    BY <1>1, <1>6
  <2>2. Len(ahead[i + 1].data) <= ChunkSize
    BY <1>3, <2>1 DEF ahead
  <2> QED BY <1>6, <2>2
<1>11. CursorFits(Advanced)
  BY <1>2, <1>4 DEF CursorFits
<1> QED BY <1>4, <1>6, <1>7, <1>8, <1>9, <1>10, <1>11 DEF ahead

LEMMA NextChunkSteps ==
  ASSUME NextChunk
  PROVE  /\ pc = "next" /\ file.cursor.ahead # <<>>
         /\ server' = server /\ lost' = lost /\ unsaved' = unsaved /\ removed' = removed
         /\ bounds' = bounds
         /\ \/ /\ file' = WithCursor(Advanced) /\ pc' = pc /\ call' = call /\ result' = result
               /\ content' = content /\ stale' = stale /\ torn' = torn
            \/ /\ NextReceived.n = file.n
               /\ file' = [file EXCEPT !.cursor = Advanced,
                             !.page = PageFor(NextReceived.data, file.pos)]
               /\ stale' = (stale \/ NextReceived.data # chunks[file.n])
               /\ content' = IF stale' THEN <<>> ELSE content
               /\ pc' = call.back /\ call' = call /\ result' = result /\ torn' = torn
            \/ file' = WithCursor(NoCursor) /\ Fail /\ stale' = stale
<1> DEFINE a == Advanced.next <= file.n
           b == Advanced.next > file.n /\ NextReceived.n = file.n
<1>1. /\ pc = "next" /\ file.cursor.ahead # <<>>
      /\ server' = server /\ lost' = lost /\ unsaved' = unsaved /\ removed' = removed
      /\ bounds' = bounds
      /\ CASE a ->
               /\ file' = WithCursor(Advanced)
               /\ UNCHANGED <<pc, call, result, content, stale, torn>>
          [] b ->
               /\ file' = [file EXCEPT !.cursor = Advanced,
                             !.page = PageFor(NextReceived.data, file.pos)]
               /\ stale' = (stale \/ NextReceived.data # chunks[NextReceived.n])
               /\ content' = IF stale' THEN <<>> ELSE content
               /\ Go(call.back)
               /\ UNCHANGED torn
          [] OTHER ->
               /\ file' = WithCursor(NoCursor)
               /\ Fail
               /\ UNCHANGED stale
  BY Zenon DEF NextChunk, WithCursor, Advanced, NextReceived
<1> QED BY <1>1, Zenon DEF Go


(* The page that the cursor's chunk becomes. *)
LEMMA ReceivedPage ==
  ASSUME Typed, Control, pc = "next", file.cursor.ahead # <<>>,
         file' = [file EXCEPT !.cursor = Advanced, !.page = PageFor(NextReceived.data, file.pos)]
  PROVE  /\ file' \in FileType /\ file'.length = file.length /\ file'.pos = file.pos
         /\ file'.n = file.n /\ file'.dirty = file.dirty /\ file'.cursor = Advanced
         /\ file'.page \in PageType /\ file'.page # NoPage /\ file'.page.written = FALSE
         /\ file'.page.data = NextReceived.data
         /\ file'.page.offset = file.pos - Begin(file.n) /\ file'.page.offset < ChunkSize
         /\ PageFits(file'.page, file'.n, file'.pos)
         /\ Begin(file.n) <= file.pos /\ file.pos < Begin(file.n) + ChunkSize
<1> DEFINE pg == PageFor(NextReceived.data, file.pos)
<1>1. /\ NextReceived.data \in Seq(Int) /\ Len(NextReceived.data) <= ChunkSize
      /\ Advanced \in CursorType /\ file.pos \in Nat /\ file.n = file.pos \div ChunkSize
      /\ Len(NextReceived.data) \in Nat
  BY AdvancedIs, FileSorts DEF Control, Paging
<1>2. /\ pg \in PageType /\ pg # NoPage /\ pg.data = NextReceived.data
      /\ pg.offset = file.pos - Begin(file.n) /\ pg.written = FALSE
      /\ Begin(file.n) \in Nat
      /\ Begin(file.n) <= file.pos /\ file.pos < Begin(file.n) + ChunkSize
  <2> DEFINE q == file.pos \div ChunkSize
  <2>1. /\ pg \in PageType /\ pg # NoPage /\ pg.data = NextReceived.data
        /\ pg.offset = file.pos - Begin(q) /\ pg.written = FALSE
        /\ Begin(q) \in Nat
        /\ Begin(q) <= file.pos /\ file.pos < Begin(q) + ChunkSize
    BY <1>1, PageForIs, ZenonT(60)
  <2>2. q = file.n
    BY <1>1
  <2> HIDE DEF q, pg
  <2> QED BY <2>1, <2>2
<1> HIDE DEF pg
<1>3. file' = [file EXCEPT !.cursor = Advanced, !.page = pg]
  BY Zenon DEF pg
<1>4. /\ file' \in FileType /\ file'.length = file.length /\ file'.pos = file.pos
      /\ file'.n = file.n /\ file'.dirty = file.dirty /\ file'.cursor = Advanced
      /\ file'.page = pg
  BY <1>1, <1>2, <1>3 DEF Typed, FileType
<1>5. pg.offset < ChunkSize
  BY <1>1, <1>2, Sizes
<1>6. PageFits(file'.page, file'.n, file'.pos)
  BY <1>1, <1>2, <1>4, <1>5, Sizes DEF PageFits
<1> QED BY <1>2, <1>4, <1>5, <1>6

LEMMA NextChunkKeeps == ASSUME Typed, Control, NextChunk PROVE Typed' /\ Control'
<1>1. /\ pc = "next" /\ file.cursor.ahead # <<>>
      /\ server' = server /\ lost' = lost /\ unsaved' = unsaved /\ removed' = removed
      /\ bounds' = bounds
  BY NextChunkSteps
<1>2. /\ call.back \in {"page_read", "writev", "put", "fill"} /\ ~ removed
      /\ file.page = NoPage /\ Begin(file.n) < file.length
      /\ stored # None => stored <= file.length
  BY <1>1 DEF Control, Course, Paging
<1>3. CASE /\ file' = WithCursor(Advanced) /\ pc' = pc /\ call' = call /\ result' = result
           /\ content' = content /\ stale' = stale /\ torn' = torn
  <2>1. /\ file' \in FileType /\ file'.page = file.page /\ file'.length = file.length
        /\ file'.pos = file.pos /\ file'.n = file.n /\ file'.cursor = Advanced
        /\ CursorFits(Advanced) /\ AheadFits(Advanced.ahead)
    BY <1>1, <1>3, AdvancedIs, WithCursorIs
  <2>2. Typed'
    BY <1>1, <1>3, <2>1 DEF Typed, server, bounds
  <2>3. At' = At
    BY <1>3 DEF At
  <2>4. Course'
    BY <1>1, <1>3, <2>3 DEF Control, Course, server
  <2>5. Gap' /\ Ends' /\ Reading'
    BY <1>3, <2>1, <2>3 DEF Control, Gap, Ends, Reading, Room
  <2>6. Paging'
    BY <1>1, <1>3, <2>1, <2>3 DEF Control, Paging, server
  <2> QED BY <2>2, <2>4, <2>5, <2>6 DEF Control
<1>4. CASE /\ file' = [file EXCEPT !.cursor = Advanced,
                         !.page = PageFor(NextReceived.data, file.pos)]
           /\ stale' = (stale \/ NextReceived.data # chunks[file.n])
           /\ content' = IF stale' THEN <<>> ELSE content
           /\ pc' = call.back /\ call' = call /\ result' = result /\ torn' = torn
  <2>1. /\ file' \in FileType /\ file'.length = file.length
        /\ file'.pos = file.pos /\ file'.n = file.n /\ file'.cursor = Advanced
        /\ CursorFits(Advanced) /\ AheadFits(Advanced.ahead)
        /\ file'.page # NoPage /\ file'.page.written = FALSE
        /\ PageFits(file'.page, file'.n, file'.pos)
    BY <1>1, <1>4, AdvancedIs, ReceivedPage
  <2>2. content' \in Seq(Int)
    BY <1>4, EmptySeq DEF Typed
  <2>3. stale' \in BOOLEAN
    <3>1. stale \in BOOLEAN
      BY DEF Typed
    <3> QED BY <1>4, <3>1, Zenon
  <2>4. pc' \in Steps
    BY <1>2, <1>4 DEF Steps
  <2>5. Typed'
    BY <1>1, <1>4, <2>1, <2>2, <2>3, <2>4 DEF Typed, server, bounds
  <2>6. At' = At /\ At = call.back
    BY <1>1, <1>2, <1>4 DEF At
  <2>7. Course'
    BY <1>1, <1>2, <1>4, <2>6 DEF Control, Course, server
  <2>8. Gap' /\ Ends' /\ Reading'
    BY <1>4, <2>1, <2>6 DEF Control, Gap, Ends, Reading, Room
  <2>9. Paging'
    BY <1>1, <1>2, <1>4, <2>1, <2>6, FileSorts, Sizes DEF Paging, server
  <2> QED BY <2>5, <2>7, <2>8, <2>9 DEF Control
<1>5. CASE file' = WithCursor(NoCursor) /\ Fail /\ stale' = stale
  <2>1. NoCursor \in CursorType /\ CursorFits(NoCursor) /\ AheadFits(NoCursor.ahead)
    BY CursorsFit
  <2> QED BY <1>1, <1>5, <2>1, CursorLost
<1> QED BY <1>3, <1>4, <1>5, NextChunkSteps, Zenon

(* What a fetch brings. *)
LEMMA FetchIs ==
  ASSUME Typed, Fetch
  PROVE  /\ MustFetch /\ server' = server /\ pc' = pc /\ call' = call /\ result' = result
         /\ history' = history /\ bounds' = bounds
         /\ \E c \in CursorType :
              /\ file' = WithCursor(c) /\ CursorFits(c) /\ c.next = file.cursor.next
              /\ \A i \in 1 .. Len(c.ahead) : c.ahead[i].n \in DOMAIN chunks
                                              /\ c.ahead[i].data = chunks[c.ahead[i].n]
<1> DEFINE later == Later(file.cursor.seen)
           size == Lesser(ChunksPerBatch, Cardinality(later))
           ahead(ns) == [i \in 1 .. size |-> [n |-> ns[i], data |-> chunks[ns[i]]]]
           seen(ns) == IF size = 0 THEN file.cursor.seen ELSE ns[size]
           cursor(ns) == [file.cursor EXCEPT !.ahead = ahead(ns), !.seen = seen(ns),
                                             !.more = Later(seen(ns)) # {}]
<1>1. /\ MustFetch /\ server' = server /\ pc' = pc /\ call' = call /\ result' = result
      /\ history' = history /\ bounds' = bounds
  BY Zenon DEF Fetch
<1>2. PICK ns \in [1 .. size -> later] :
        file' = [file EXCEPT !.cursor.ahead = ahead(ns), !.cursor.seen = seen(ns),
                             !.cursor.more = Later(seen(ns)) # {}]
  BY Zenon DEF Fetch
<1>3. later \subseteq DOMAIN chunks /\ IsFiniteSet(later) /\ size \in Nat
  <2>1. later \subseteq DOMAIN chunks /\ IsFiniteSet(DOMAIN chunks)
    BY DEF Later, Typed, AreChunks
  <2>2. IsFiniteSet(later) /\ Cardinality(later) \in Nat
    BY <2>1, FS_Subset, FS_CardinalityType
  <2> QED BY <2>1, <2>2, Sizes DEF Lesser
<1>4. \A k \in DOMAIN chunks : k \in Nat /\ chunks[k] \in Seq(Int)
  BY DEF Typed, AreChunks
<1> HIDE DEF later, size
<1>5. \A i \in 1 .. size : ns[i] \in later /\ ns[i] \in DOMAIN chunks /\ ns[i] \in Nat
  BY <1>2, <1>3, <1>4
<1>6. /\ ahead(ns) \in Seq(Received) /\ Len(ahead(ns)) = size
      /\ \A i \in 1 .. size : /\ ahead(ns)[i].n \in DOMAIN chunks
                              /\ ahead(ns)[i].data = chunks[ahead(ns)[i].n]
  <2>1. \A i \in 1 .. size : [n |-> ns[i], data |-> chunks[ns[i]]] \in Received
    BY <1>4, <1>5 DEF Received
  <2> QED BY <1>3, <1>5, <2>1
<1>7. seen(ns) \in Int
  <2>1. file.cursor.seen \in Int
    BY FileSorts DEF CursorType
  <2>2. size # 0 => size \in 1 .. size
    BY <1>3
  <2> QED BY <1>5, <2>1, <2>2
<1>8. file \in FileType /\ file.cursor \in CursorType
  BY FileSorts DEF Typed
<1> DEFINE ah == ahead(ns)  se == seen(ns)  mo == Later(seen(ns)) # {}
<1>9. mo \in BOOLEAN
  OBVIOUS
<1> DEFINE c == [file.cursor EXCEPT !.ahead = ah, !.seen = se, !.more = mo]
<1>10. file' = [file EXCEPT !.cursor.ahead = ah, !.cursor.seen = se, !.cursor.more = mo]
  BY <1>2
<1> HIDE DEF ah, se, mo
<1>11. /\ c \in CursorType /\ c.ahead = ah /\ c.next = file.cursor.next
       /\ c.last = file.cursor.last
  BY <1>6, <1>7, <1>8, <1>9 DEF CursorType, ah, se
<1>12. file' = WithCursor(c)
  BY <1>8, <1>10 DEF WithCursor, FileType, CursorType
<1>13. CursorFits(c)
  BY <1>1, <1>11, MustFetchCursor DEF CursorFits
<1>14. \A i \in 1 .. Len(c.ahead) : c.ahead[i].n \in DOMAIN chunks
                                    /\ c.ahead[i].data = chunks[c.ahead[i].n]
  <2>1. Len(ah) = size /\ \A i \in 1 .. size : /\ ah[i].n \in DOMAIN chunks
                                               /\ ah[i].data = chunks[ah[i].n]
    BY <1>6, Zenon DEF ah
  <2> HIDE DEF c
  <2> QED BY <1>11, <2>1
<1> HIDE DEF c
<1> QED BY <1>1, <1>11, <1>12, <1>13, <1>14

LEMMA FetchKeeps == ASSUME Typed, Control, Fetch PROVE Typed' /\ Control'
<1>1. /\ pc' = pc /\ call' = call /\ result' = result /\ server' = server
      /\ history' = history /\ bounds' = bounds
  BY FetchIs
<1>2. PICK c \in CursorType :
        /\ file' = WithCursor(c) /\ CursorFits(c)
        /\ \A i \in 1 .. Len(c.ahead) : c.ahead[i].n \in DOMAIN chunks
                                        /\ c.ahead[i].data = chunks[c.ahead[i].n]
  BY FetchIs
<1>3. AheadFits(c.ahead)
  BY <1>2 DEF AheadFits, Typed, AreChunks
<1>4. /\ file' \in FileType /\ file'.page = file.page /\ file'.length = file.length
      /\ file'.pos = file.pos /\ file'.n = file.n /\ file'.cursor = c
  BY <1>2, WithCursorIs
<1>5. Typed'
  BY <1>1, <1>2, <1>3, <1>4 DEF Typed, server, history, bounds
<1>6. At' = At
  BY <1>1 DEF At
<1>7. Course'
  BY <1>1, <1>6 DEF Control, Course, server, history
<1>8. Gap' /\ Ends' /\ Reading'
  BY <1>1, <1>4, <1>6 DEF Control, Gap, Ends, Reading, Room
<1>9. Paging'
  BY <1>1, <1>4, <1>6 DEF Control, Paging, server
<1> QED BY <1>5, <1>7, <1>8, <1>9 DEF Control


LEMMA LesserIs ==
  ASSUME NEW a \in Int, NEW b \in Int
  PROVE  /\ Lesser(a, b) \in Int /\ Lesser(a, b) <= a /\ Lesser(a, b) <= b
         /\ Lesser(a, b) = a \/ Lesser(a, b) = b
  BY DEF Lesser

LEMMA GreaterIs ==
  ASSUME NEW a \in Int, NEW b \in Int
  PROVE  /\ Greater(a, b) \in Int /\ a <= Greater(a, b) /\ b <= Greater(a, b)
         /\ Greater(a, b) = a \/ Greater(a, b) = b
  BY DEF Greater

LEMMA PartIs ==
  ASSUME NEW s \in Seq(Int), NEW o \in Nat, NEW r \in Nat, o + r <= Len(s)
  PROVE  /\ SubSeq(s, o + 1, o + r) \in Seq(Int) /\ Len(SubSeq(s, o + 1, o + r)) = r
         /\ \A j \in 1 .. r : SubSeq(s, o + 1, o + r)[j] = s[o + j]
<1>1. \A i \in o + 1 .. o + r : s[i] \in Int
  <2> SUFFICES ASSUME NEW i \in o + 1 .. o + r PROVE s[i] \in Int
    OBVIOUS
  <2>1. i \in 1 .. Len(s)
    OBVIOUS
  <2> QED BY <2>1, ElementOfSeq
<1>2. /\ SubSeq(s, o + 1, o + r) \in Seq(Int)
      /\ Len(SubSeq(s, o + 1, o + r)) = IF o + 1 <= o + r THEN o + r - (o + 1) + 1 ELSE 0
      /\ \A i \in 1 .. o + r - (o + 1) + 1 : SubSeq(s, o + 1, o + r)[i] = s[o + 1 + i - 1]
  BY <1>1, SubSeqProperties
<1>3. \A j \in 1 .. r : SubSeq(s, o + 1, o + r)[j] = s[o + j]
  <2> SUFFICES ASSUME NEW j \in 1 .. r PROVE SubSeq(s, o + 1, o + r)[j] = s[o + j]
    OBVIOUS
  <2>1. j \in 1 .. o + r - (o + 1) + 1 /\ o + 1 + j - 1 = o + j
    OBVIOUS
  <2> QED BY <1>2, <2>1
<1>4. Len(SubSeq(s, o + 1, o + r)) = r
  BY <1>2
<1> QED BY <1>2, <1>3, <1>4

LEMMA JoinIs ==
  ASSUME NEW s \in Seq(Int), NEW t \in Seq(Int)
  PROVE  /\ s \o t \in Seq(Int) /\ Len(s \o t) = Len(s) + Len(t)
         /\ \A j \in 1 .. Len(s) : (s \o t)[j] = s[j]
         /\ \A j \in 1 .. Len(t) : (s \o t)[Len(s) + j] = t[j]
<1>1. /\ s \o t \in Seq(Int) /\ Len(s \o t) = Len(s) + Len(t)
      /\ \A i \in 1 .. Len(s) + Len(t) : (s \o t)[i] = IF i <= Len(s) THEN s[i] ELSE t[i - Len(s)]
  BY ConcatProperties
<1>2. Len(s) \in Nat /\ Len(t) \in Nat
  OBVIOUS
<1>3. \A j \in 1 .. Len(s) : (s \o t)[j] = s[j]
  BY <1>1, <1>2
<1>4. \A j \in 1 .. Len(t) : (s \o t)[Len(s) + j] = t[j]
  <2> SUFFICES ASSUME NEW j \in 1 .. Len(t) PROVE (s \o t)[Len(s) + j] = t[j]
    OBVIOUS
  <2>1. Len(s) + j \in 1 .. Len(s) + Len(t) /\ ~ (Len(s) + j <= Len(s)) /\ Len(s) + j - Len(s) = j
    BY <1>2
  <2> QED BY <1>1, <2>1
<1> QED BY <1>1, <1>3, <1>4

(* What a read takes of the page. *)
ReadOf(r) == SubSeq(file.page.data, file.page.offset + 1, file.page.offset + r)

LEMMA PageReadSteps ==
  ASSUME Typed, Control, PageRead
  PROVE  \E r \in Nat :
           /\ r <= Room - call.part /\ file.page.offset + r <= Len(file.page.data)
           /\ r = Room - call.part \/ file.page.offset + r = Len(file.page.data)
           /\ pc = "page_read" /\ server' = server /\ history' = history /\ bounds' = bounds
           /\ result' = result
           /\ file' \in FileType /\ file'.length = file.length /\ file'.pos = file.pos + r
           /\ file'.n = file.n /\ file'.dirty = file.dirty /\ file'.cursor = file.cursor
           /\ file'.page \in PageType /\ file'.page # NoPage /\ file.page # NoPage
           /\ file'.page.data = file.page.data /\ file'.page.written = file.page.written
           /\ file'.page.offset = file.page.offset + r
           /\ call' \in CallType /\ call'.op = call.op /\ call'.start = call.start
           /\ call'.len = call.len /\ call'.goal = call.goal /\ call'.target = call.target
           /\ call'.back = "page_read" /\ call'.data = call.data \o ReadOf(r)
           /\ Len(call'.data) = Len(call.data) + r
           /\ \A j \in 1 .. Len(call.data) : call'.data[j] = call.data[j]
           /\ \A j \in 1 .. r :
                call'.data[Len(call.data) + j] = file.page.data[file.page.offset + j]
           /\ \/ /\ call.part + r = Room \/ file.pos + r = file.length
                 /\ pc' = "readv" /\ call'.part = 0
              \/ /\ call.part + r # Room /\ file.pos + r # file.length
                 /\ pc' = "refresh" /\ call'.part = call.part + r
<1> DEFINE r == Lesser(Room - call.part, Len(file.page.data) - file.page.offset)
           bytes == ReadOf(r)
           full == call.part + r = Room \/ file.pos + r = file.length
           part == IF full THEN 0 ELSE call.part + r
<1>1. /\ pc = "page_read" /\ file.page.offset <= Len(file.page.data)
      /\ file' = [file EXCEPT !.pos = @ + r, !.page.offset = @ + r]
      /\ call' = [call EXCEPT !.data = @ \o bytes, !.part = IF full THEN 0 ELSE @ + r,
                              !.back = "page_read"]
      /\ pc' = IF full THEN "readv" ELSE "refresh"
      /\ server' = server /\ result' = result /\ history' = history /\ bounds' = bounds
  BY Zenon DEF PageRead, ReadOf
<1>2. file.page # NoPage /\ call.part < Room
  BY <1>1 DEF Control, Paging, Reading, At
<1>3. /\ file.page \in PageType /\ file.page.data \in Seq(Int) /\ Len(file.page.data) \in Nat
      /\ file.page.offset \in Nat /\ file.pos \in Nat /\ file.length \in Nat /\ file \in FileType
      /\ call \in CallType /\ call.data \in Seq(Int) /\ call.part \in Nat /\ Len(call.data) \in Nat
      /\ call.len \in Nat
  BY <1>2, FileSorts, CallSorts DEF Typed
<1>4. Room \in Int
  BY <1>3, Sizes DEF Room, Lesser
<1>5. /\ r \in Nat /\ r <= Room - call.part /\ file.page.offset + r <= Len(file.page.data)
      /\ r = Room - call.part \/ file.page.offset + r = Len(file.page.data)
  <2>1. /\ Room - call.part \in Int /\ Len(file.page.data) - file.page.offset \in Int
        /\ 0 <= Len(file.page.data) - file.page.offset /\ 0 < Room - call.part
    BY <1>1, <1>2, <1>3, <1>4, SMTT(40)
  <2>2. /\ r \in Int /\ r <= Room - call.part /\ r <= Len(file.page.data) - file.page.offset
        /\ r = Room - call.part \/ r = Len(file.page.data) - file.page.offset
    BY <2>1, LesserIs
  <2> HIDE DEF r
  <2> QED BY <1>3, <2>1, <2>2, SMTT(40)
<1> HIDE DEF r
<1>6. /\ bytes \in Seq(Int) /\ Len(bytes) = r
      /\ \A j \in 1 .. r : bytes[j] = file.page.data[file.page.offset + j]
  <2> DEFINE s == file.page.data  o == file.page.offset
  <2>1. s \in Seq(Int) /\ o \in Nat /\ r \in Nat /\ o + r <= Len(s)
    BY <1>3, <1>5
  <2>2. bytes = SubSeq(s, o + 1, o + r)
    BY Zenon DEF ReadOf
  <2> HIDE DEF s, o, bytes
  <2>3. /\ SubSeq(s, o + 1, o + r) \in Seq(Int) /\ Len(SubSeq(s, o + 1, o + r)) = r
        /\ \A j \in 1 .. r : SubSeq(s, o + 1, o + r)[j] = s[o + j]
    BY <2>1, PartIs
  <2> QED BY <2>2, <2>3, Zenon DEF s, o
<1> HIDE DEF bytes
<1>7. /\ call.data \o bytes \in Seq(Int) /\ Len(call.data \o bytes) = Len(call.data) + r
      /\ \A j \in 1 .. Len(call.data) : (call.data \o bytes)[j] = call.data[j]
      /\ \A j \in 1 .. r : (call.data \o bytes)[Len(call.data) + j] = bytes[j]
  BY <1>3, <1>6, JoinIs
<1>8. part \in Nat
  BY <1>3, <1>5
<1>9. call' = [call EXCEPT !.data = call.data \o bytes, !.part = part, !.back = "page_read"]
  BY <1>1
<1>10. /\ full => part = 0
       /\ ~ full => part = call.part + r
  BY Zenon
<1> HIDE DEF part
<1>11. /\ call' \in CallType /\ call'.op = call.op /\ call'.start = call.start
       /\ call'.len = call.len /\ call'.goal = call.goal /\ call'.target = call.target
       /\ call'.back = "page_read" /\ call'.data = call.data \o bytes /\ call'.part = part
  BY <1>3, <1>7, <1>8, <1>9 DEF CallType, Backs
<1> DEFINE o == file.page.offset + r
           pg == [file.page EXCEPT !.offset = o]
<1>12. o \in Nat
  BY <1>3, <1>5
<1> HIDE DEF o
<1>13. /\ pg \in PageType /\ pg # NoPage /\ pg.data = file.page.data
       /\ pg.written = file.page.written /\ pg.offset = o
  BY <1>3, <1>12, PageMoved
<1>14. file' = [file EXCEPT !.pos = file.pos + r, !.page = pg]
  BY <1>1, <1>3 DEF FileType, PageType, o
<1> HIDE DEF pg
<1>15. /\ file' \in FileType /\ file'.length = file.length /\ file'.pos = file.pos + r
       /\ file'.n = file.n /\ file'.dirty = file.dirty /\ file'.cursor = file.cursor
       /\ file'.page = pg
  <2> DEFINE p == file.pos + r
  <2>1. p \in Nat
    BY <1>3, <1>5
  <2>2. file' = [file EXCEPT !.pos = p, !.page = pg]
    BY <1>14
  <2> HIDE DEF p
  <2>3. /\ file' \in FileType /\ file'.length = file.length /\ file'.pos = p
        /\ file'.n = file.n /\ file'.dirty = file.dirty /\ file'.cursor = file.cursor
        /\ file'.page = pg
    BY <1>3, <1>13, <2>1, <2>2 DEF FileType
  <2> QED BY <2>3 DEF p
<1>16. \/ full /\ pc' = "readv" /\ call'.part = 0
       \/ ~ full /\ pc' = "refresh" /\ call'.part = call.part + r
  BY <1>1, <1>10, <1>11, Zenon
<1>17. /\ Len(call'.data) = Len(call.data) + r
       /\ \A j \in 1 .. Len(call.data) : call'.data[j] = call.data[j]
       /\ \A j \in 1 .. r : call'.data[Len(call.data) + j] = file.page.data[file.page.offset + j]
  BY <1>6, <1>7, <1>11
<1>18. call'.data = call.data \o ReadOf(r)
  BY <1>11 DEF bytes
<1>19. /\ file'.page \in PageType /\ file'.page # NoPage
       /\ file'.page.data = file.page.data /\ file'.page.written = file.page.written
       /\ file'.page.offset = file.page.offset + r
  BY <1>13, <1>15 DEF o
<1> r \in Nat
  BY <1>5
<1> WITNESS r \in Nat
<1> QED BY <1>1, <1>2, <1>5, <1>11, <1>15, <1>16, <1>17, <1>18, <1>19, Zenon

LEMMA PageReadKeeps == ASSUME Typed, Control, PageRead PROVE Typed' /\ Control'
<1>1. PICK r \in Nat :
        /\ r <= Room - call.part /\ file.page.offset + r <= Len(file.page.data)
        /\ pc = "page_read" /\ server' = server /\ history' = history /\ bounds' = bounds
        /\ result' = result
        /\ file' \in FileType /\ file'.length = file.length /\ file'.pos = file.pos + r
        /\ file'.n = file.n /\ file'.cursor = file.cursor
        /\ file'.page # NoPage /\ file.page # NoPage
        /\ file'.page.data = file.page.data /\ file'.page.written = file.page.written
        /\ file'.page.offset = file.page.offset + r
        /\ call' \in CallType /\ call'.op = call.op
        /\ call'.len = call.len /\ call'.goal = call.goal
        /\ call'.back = "page_read" /\ Len(call'.data) = Len(call.data) + r
        /\ \/ pc' = "readv" /\ call'.part = 0
           \/ /\ call.part + r # Room
              /\ pc' = "refresh" /\ call'.part = call.part + r
  BY PageReadSteps, Zenon
<1>2. /\ Begin(file.n) >= file.length => file.page.data = <<>>
      /\ Begin(file.n) <= MaxLength + ChunkSize
      /\ file.page.written => Begin(file.n) <= MaxLength
      /\ stored # None => stored <= file.length
      /\ call.op = "read" /\ ~ removed /\ call.goal = None
      /\ call.part < Room /\ call.part <= Len(call.data) /\ Len(call.data) <= call.len
  BY <1>1 DEF Control, Course, Gap, Paging, Reading, At
<1>a. /\ file'.pos = file.pos + r /\ file.page.offset + r <= Len(file.page.data)
      /\ file.page # NoPage /\ r \in Nat
  BY <1>1
<1>b. /\ Begin(file.n) \in Nat /\ file.page.offset \in Nat /\ Len(file.page.data) \in Nat
      /\ Len(file.page.data) <= ChunkSize /\ file.pos = Begin(file.n) + file.page.offset
      /\ file.length \in Nat /\ file.length <= MaxLength /\ file.pos <= MaxLength + ChunkSize
  BY <1>a, FileSorts
<1>3. file'.pos <= MaxLength + ChunkSize
  <2>1. CASE Begin(file.n) >= file.length
    <3>1. Len(file.page.data) = 0
      BY <1>2, <2>1
    <3> QED BY <1>a, <1>b, <3>1
  <2>2. CASE Begin(file.n) < file.length
    BY <1>a, <1>b, <2>2, Sizes, SMTT(40)
  <2> QED BY <1>b, <2>1, <2>2
<1>4. PageFits(file'.page, file'.n, file'.pos)
  <2>1. /\ file'.page.data = file.page.data /\ file'.page.offset = file.page.offset + r
        /\ file'.n = file.n
    BY <1>1
  <2> QED BY <1>a, <1>b, <2>1, Sizes, SMTT(40) DEF PageFits
<1>5. Typed'
  <2>1. pc' \in Steps
    BY <1>1 DEF Steps
  <2> QED BY <1>1, <1>3, <1>4, <2>1 DEF Typed, server, history, bounds
<1>6. At' \in {"readv", "page_read"} /\ (At' = "readv" <=> pc' = "readv")
  BY <1>1 DEF At
<1>7. Course'
  BY <1>1, <1>2, <1>6 DEF Course, history, server
<1>8. Gap' /\ Ends'
  BY <1>1, <1>2, <1>6 DEF Gap, Ends
<1>9. Paging'
  BY <1>1, <1>2, <1>6 DEF Paging, server
<1>10. Reading'
  <2>1. Room \in Int /\ Room <= call.len - (Len(call.data) - call.part)
    BY CallSorts, Sizes, SMTT(40) DEF Room, Lesser
  <2>2. CASE pc' = "readv" /\ call'.part = 0
    BY <1>1, <1>2, <1>6, <2>1, <2>2, CallSorts, SMTT(40) DEF Reading
  <2>3. CASE call.part + r # Room /\ pc' = "refresh" /\ call'.part = call.part + r
    <3>1. Room' = Room
      <4>1. Len(call'.data) - call'.part = Len(call.data) - call.part
        BY <1>1, <2>3, CallSorts
      <4> QED BY <1>1, <4>1 DEF Room
    <3>2. call.part + r < Room /\ call.part + r <= Len(call.data) + r
      <4>1. r <= Room - call.part /\ r \in Nat /\ call.part + r # Room
        BY <1>1, <2>3
      <4>2. call.part <= Len(call.data) /\ call.part \in Nat /\ Len(call.data) \in Nat
        BY <1>2, CallSorts
      <4> QED BY <2>1, <4>1, <4>2
    <3>3. Len(call.data) + r <= call.len
      BY <1>1, <2>1, CallSorts, SMTT(40)
    <3> QED BY <1>1, <1>6, <2>3, <3>1, <3>2, <3>3 DEF Reading
  <2> QED BY <1>1, <2>2, <2>3
<1> QED BY <1>5, <1>7, <1>8, <1>9, <1>10 DEF Control


LEMMA PageWriteSteps ==
  ASSUME Typed, Control, PageWrite
  PROVE  LET r == Taken(file.page, Len(call.data)) IN
         /\ r \in Nat /\ r <= Len(call.data) /\ file.page.offset + r <= ChunkSize
         /\ pc = "put" /\ file.page # NoPage
         /\ server' = server /\ history' = history /\ bounds' = bounds
         /\ file' \in FileType /\ file'.length = Greater(file.length, file.pos + r)
         /\ file'.pos = file.pos + r /\ file'.n = file.n /\ file'.cursor = file.cursor
         /\ file'.dirty = (file.dirty \/ r = Len(call.data))
         /\ file'.page = Overwritten(file.page, call.data)
         /\ call' \in CallType /\ call'.op = call.op /\ call'.goal = call.goal
         /\ call'.target = call.target /\ call'.back = "put"
         /\ Len(call'.data) = Len(call.data) - r
         /\ \A j \in 1 .. Len(call'.data) : call'.data[j] = call.data[r + j]
         /\ \/ r = Len(call.data) /\ pc' = "return" /\ result' = "ok"
            \/ r < Len(call.data) /\ pc' = "flush" /\ result' = result
<1> DEFINE r == Taken(file.page, Len(call.data))
           all == r = Len(call.data)
           w == Overwritten(file.page, call.data)
           rest == SubSeq(call.data, r + 1, Len(call.data))
           len == Greater(file.length, file.pos + r)
           pos == file.pos + r
           dirty == file.dirty \/ all
<1>1. /\ pc = "put" /\ file.page # NoPage
      /\ file' = [file EXCEPT !.page = w, !.pos = pos, !.length = len, !.dirty = dirty]
      /\ call' = [call EXCEPT !.data = rest, !.back = "put"]
      /\ pc' = IF all THEN "return" ELSE "flush"
      /\ result' = IF all THEN "ok" ELSE result
      /\ server' = server /\ history' = history /\ bounds' = bounds
  BY Zenon DEF PageWrite, WritePage
<1>2. /\ file.page \in PageType /\ Len(file.page.data) <= ChunkSize
      /\ file.page.offset <= ChunkSize /\ file.page.offset \in Nat
      /\ call \in CallType /\ call.data \in Seq(Int) /\ Len(call.data) \in Nat
      /\ file.pos \in Nat /\ file.length \in Nat /\ file.dirty \in BOOLEAN
  BY <1>1, FileSorts, CallSorts
<1>3. /\ r \in Nat /\ r <= Len(call.data) /\ file.page.offset + r <= ChunkSize
      /\ w \in PageType
  <2> HIDE DEF r, w
  <2>1. LET rr == Taken(file.page, Len(call.data))  ww == Overwritten(file.page, call.data) IN
        rr \in Nat /\ rr <= Len(call.data) /\ file.page.offset + rr <= ChunkSize /\ ww \in PageType
    BY <1>2, OverwrittenIs
  <2> QED BY <2>1 DEF r, w
<1> HIDE DEF r, w
<1>4. pos \in Nat /\ len \in Nat
  BY <1>2, <1>3 DEF Greater
<1>5. dirty \in BOOLEAN
  BY <1>2, Zenon
<1>6. /\ rest \in Seq(Int) /\ Len(rest) = Len(call.data) - r
      /\ \A j \in 1 .. Len(rest) : rest[j] = call.data[r + j]
  <2> DEFINE s == call.data  d == Len(s) - r
  <2>1. s \in Seq(Int) /\ d \in Nat /\ r + d = Len(s) /\ r + d <= Len(s)
    BY <1>2, <1>3
  <2> HIDE DEF s, d
  <2>2. /\ SubSeq(s, r + 1, r + d) \in Seq(Int) /\ Len(SubSeq(s, r + 1, r + d)) = d
        /\ \A j \in 1 .. d : SubSeq(s, r + 1, r + d)[j] = s[r + j]
    BY <1>3, <2>1, PartIs
  <2>3. rest = SubSeq(s, r + 1, r + d)
    BY <2>1 DEF s
  <2> HIDE DEF rest
  <2> QED BY <2>2, <2>3, Zenon DEF s, d
<1> HIDE DEF rest, pos, len, dirty
<1>7. /\ file' \in FileType /\ file'.length = len /\ file'.pos = pos /\ file'.n = file.n
      /\ file'.cursor = file.cursor /\ file'.dirty = dirty /\ file'.page = w
  BY <1>1, <1>3, <1>4, <1>5 DEF Typed, FileType
<1>8. /\ call' \in CallType /\ call'.op = call.op /\ call'.goal = call.goal
      /\ call'.target = call.target /\ call'.back = "put" /\ call'.data = rest
  BY <1>1, <1>2, <1>6 DEF CallType, Backs
<1>9. \/ r = Len(call.data) /\ pc' = "return" /\ result' = "ok"
      \/ r < Len(call.data) /\ pc' = "flush" /\ result' = result
  <2>1. r = Len(call.data) \/ r < Len(call.data)
    BY <1>2, <1>3
  <2>2. r < Len(call.data) => r # Len(call.data)
    BY <1>2, <1>3
  <2> QED BY <1>1, <2>1, <2>2, Zenon
<1>10. /\ Len(call'.data) = Len(call.data) - r
       /\ \A j \in 1 .. Len(call'.data) : call'.data[j] = call.data[r + j]
  BY <1>6, <1>8
<1> QED BY <1>1, <1>3, <1>7, <1>8, <1>9, <1>10, Zenon DEF r, w, pos, len, dirty

(* What a page is after s was written at its offset. *)
LEMMA OverwrittenFits ==
  ASSUME Typed, file.page # NoPage, NEW s \in Seq(Int)
  PROVE  LET r == Taken(file.page, Len(s))  w == Overwritten(file.page, s) IN
         /\ r \in Nat /\ r <= Len(s) /\ file.page.offset + r <= ChunkSize
         /\ r < Len(s) => file.page.offset + r = ChunkSize
         /\ w \in PageType /\ w # NoPage /\ w.written = TRUE
         /\ w.offset = file.page.offset + r
         /\ Len(w.data) \in Nat /\ Len(w.data) <= ChunkSize
         /\ Len(file.page.data) <= Len(w.data) /\ w.offset <= Len(w.data)
         /\ Len(w.data) = Len(file.page.data) \/ Len(w.data) = w.offset
         /\ \A i \in 1 .. Len(w.data) :
              w.data[i] = IF i > file.page.offset /\ i <= file.page.offset + r
                          THEN s[i - file.page.offset]
                          ELSE IF i <= Len(file.page.data) THEN file.page.data[i] ELSE Junk
         /\ PageFits(w, file.n, file.pos + r)
<1> DEFINE pg == file.page
           r == Taken(pg, Len(s))
           w == Overwritten(pg, s)
<1>1. /\ pg \in PageType /\ Len(pg.data) <= ChunkSize /\ Len(pg.data) \in Nat
      /\ pg.offset <= ChunkSize /\ pg.offset \in Nat
      /\ file.pos = Begin(file.n) + pg.offset /\ Begin(file.n) \in Nat
  BY FileSorts
<1> HIDE DEF pg
<1>2. /\ r \in Nat /\ r <= Len(s) /\ pg.offset + r <= ChunkSize
      /\ r < Len(s) => pg.offset + r = ChunkSize
      /\ w \in PageType /\ w # NoPage /\ w.written = TRUE /\ w.offset = pg.offset + r
      /\ Len(w.data) = Greater(Len(pg.data), pg.offset + r)
      /\ \A i \in 1 .. Len(w.data) :
           w.data[i] = IF i > pg.offset /\ i <= pg.offset + r THEN s[i - pg.offset]
                       ELSE IF i <= Len(pg.data) THEN pg.data[i] ELSE Junk
  BY <1>1, OverwrittenIs
<1> HIDE DEF r, w
<1>3. /\ Len(w.data) \in Nat /\ Len(w.data) <= ChunkSize
      /\ Len(pg.data) <= Len(w.data) /\ w.offset <= Len(w.data)
      /\ Len(w.data) = Len(pg.data) \/ Len(w.data) = w.offset
  <2> DEFINE b == pg.offset + r
             a == Len(pg.data)
             g == Greater(a, b)
  <2>1. b \in Nat /\ b <= ChunkSize /\ w.offset = b
    BY <1>1, <1>2
  <2>2. Len(w.data) = g /\ g = Greater(a, b) /\ a \in Nat /\ a <= ChunkSize
    BY <1>1, <1>2
  <2> HIDE DEF a, b, g
  <2>3. g \in Int /\ a <= g /\ b <= g /\ (g = a \/ g = b)
    BY <2>1, <2>2, GreaterIs
  <2>4. g \in Nat /\ g <= ChunkSize
    BY <2>1, <2>2, <2>3
  <2> QED BY <2>1, <2>2, <2>3, <2>4 DEF a
<1>4. PageFits(w, file.n, file.pos + r)
  BY <1>1, <1>2, <1>3 DEF PageFits
<1> QED BY <1>2, <1>3, <1>4, Zenon DEF pg, r, w

LEMMA PageWriteKeeps == ASSUME Typed, Control, PageWrite PROVE Typed' /\ Control'
<1> DEFINE r == Taken(file.page, Len(call.data))
           w == Overwritten(file.page, call.data)
<1>1. /\ r \in Nat /\ r <= Len(call.data)
      /\ pc = "put" /\ file.page # NoPage
      /\ server' = server /\ history' = history /\ bounds' = bounds
      /\ file' \in FileType /\ file'.length = Greater(file.length, file.pos + r)
      /\ file'.pos = file.pos + r /\ file'.n = file.n /\ file'.cursor = file.cursor
      /\ file'.page = w
      /\ call' \in CallType /\ call'.op = call.op /\ call'.goal = call.goal
      /\ call'.target = call.target /\ call'.back = "put"
      /\ Len(call'.data) = Len(call.data) - r
      /\ \/ r = Len(call.data) /\ pc' = "return" /\ result' = "ok"
         \/ r < Len(call.data) /\ pc' = "flush" /\ result' = result
  BY PageWriteSteps, Zenon
<1>2. /\ r < Len(call.data) => w.offset = ChunkSize
      /\ w # NoPage /\ PageFits(w, file.n, file.pos + r)
  <2>1. file.page # NoPage /\ call.data \in Seq(Int)
    BY <1>1, CallSorts
  <2>2. LET rr == Taken(file.page, Len(call.data))  ww == Overwritten(file.page, call.data) IN
        /\ rr < Len(call.data) => file.page.offset + rr = ChunkSize
        /\ ww # NoPage /\ PageFits(ww, file.n, file.pos + rr) /\ ww.offset = file.page.offset + rr
    BY <2>1, OverwrittenFits
  <2> HIDE DEF r, w
  <2>3. /\ r < Len(call.data) => file.page.offset + r = ChunkSize
        /\ w # NoPage /\ PageFits(w, file.n, file.pos + r) /\ w.offset = file.page.offset + r
    BY <2>2 DEF r, w
  <2> QED BY <2>3
<1> HIDE DEF r, w
<1>3. /\ call.op = "write" /\ call.target = None /\ call.goal = None /\ ~ removed
      /\ file.pos + Len(call.data) <= MaxLength
      /\ stored # None => stored <= file.length
  BY <1>1 DEF Control, Course, Gap, Ends, Paging, At
<1>4. /\ file.pos \in Nat /\ file.length \in Nat /\ file.length <= MaxLength
      /\ Len(call.data) \in Nat /\ Begin(file.n) <= file.pos /\ Begin(file.n) \in Nat
  BY <1>1, FileSorts, CallSorts
<1>5. /\ file'.length \in Nat /\ file.length <= file'.length /\ file.pos + r <= file'.length
      /\ file'.length <= MaxLength
  <2>1. file.pos + r \in Int /\ file.pos + r <= MaxLength
    BY <1>1, <1>3, <1>4, Sizes
  <2> DEFINE b == file.pos + r
             g == Greater(file.length, b)
  <2>2. b \in Int /\ file.length \in Int
    BY <1>4, <2>1
  <2>3. g = Greater(file.length, b) /\ file'.length = g /\ b = file.pos + r
    BY <1>1
  <2> HIDE DEF b, g
  <2>4. g \in Int /\ file.length <= g /\ b <= g /\ (g = file.length \/ g = b)
    BY <2>2, <2>3, GreaterIs, ZenonT(60)
  <2> QED BY <1>4, <2>1, <2>3, <2>4
<1>6. Typed'
  <2>1. pc' \in Steps /\ result' \in {"none", "ok", "error"}
    BY <1>1 DEF Typed, Steps
  <2>2. file'.pos <= MaxLength + ChunkSize
    BY <1>1, <1>3, <1>4, Sizes, SMTT(40)
  <2>3. AheadFits(file'.cursor.ahead) /\ CursorFits(file'.cursor)
    BY <1>1 DEF Typed
  <2>4. PageFits(file'.page, file'.n, file'.pos)
    BY <1>1, <1>2
  <2> QED BY <1>1, <1>5, <2>1, <2>2, <2>3, <2>4 DEF Typed, server, history, bounds
<1>7. At' = "put" \/ At' = "return"
  BY <1>1 DEF At
<1>8. Course'
  BY <1>1, <1>3, <1>7 DEF Course, server, history
<1>9. Gap' /\ Ends'
  BY <1>1, <1>3, <1>4, <1>7 DEF Gap, Ends
<1>10. Paging'
  <2>1. Begin(file'.n) <= MaxLength
    BY <1>1, <1>3, <1>4, Sizes
  <2>2. /\ pc' \in {"return", "flush"}
        /\ pc' = "flush" => /\ file'.page.written /\ file'.page.offset = ChunkSize
                            /\ call'.back = "put" /\ file'.pos <= file'.length
    <3>1. w.written
      BY <1>1 DEF w, Overwritten
    <3> QED BY <1>1, <1>2, <1>5, <3>1
  <2>3. stored' # None => stored' <= file'.length
    BY <1>1, <1>3, <1>4, <1>5, FileSorts, SMTT(40) DEF server, Typed
  <2> QED BY <1>7, <2>1, <2>2, <2>3 DEF Paging
<1>11. Reading'
  BY <1>7 DEF Reading
<1> QED BY <1>6, <1>8, <1>9, <1>10, <1>11 DEF Control


Zeros(m) == [i \in 1 .. m |-> 0]

LEMMA ZerosAre == ASSUME NEW m \in Nat
                  PROVE  /\ Zeros(m) \in Seq(Int) /\ Len(Zeros(m)) = m
                         /\ \A i \in 1 .. m : Zeros(m)[i] = 0
  BY DEF Zeros

LEMMA FillSteps ==
  ASSUME Typed, Control, Fill
  PROVE  LET m == call.goal - file.pos
             r == Taken(file.page, m) IN
         /\ m \in Nat /\ r \in Nat /\ r <= m /\ call.goal \in Nat
         /\ pc = "fill" /\ file.page # NoPage
         /\ server' = server /\ history' = history /\ bounds' = bounds /\ result' = result
         /\ file' \in FileType /\ file'.pos = file.pos + r /\ file'.n = file.n
         /\ file'.cursor = file.cursor /\ file'.page = Overwritten(file.page, Zeros(m))
         /\ call' \in CallType /\ call'.op = call.op /\ call'.target = call.target
         /\ call'.data = call.data
         /\ \/ /\ r = m /\ pc' = "put" /\ call'.goal = None
               /\ file'.length = file.pos + r /\ file'.dirty = TRUE
            \/ /\ r < m /\ pc' = "flush" /\ call'.goal = call.goal /\ call'.back = "fill"
               /\ file'.length = file.length /\ file'.dirty = file.dirty
<1> DEFINE m == call.goal - file.pos
           r == Taken(file.page, m)
           w == Overwritten(file.page, Zeros(m))
           pos == file.pos + r
           all == pos = call.goal
           filled == [file EXCEPT !.page = w, !.pos = pos]
<1>1. pc = "fill" /\ file.page # NoPage /\ server' = server /\ history' = history
      /\ bounds' = bounds /\ result' = result
  BY Zenon DEF Fill
<1>2. call.goal \in Nat /\ file.pos <= call.goal /\ file.pos \in Nat /\ file.length \in Nat
  BY <1>1, FileSorts, CallSorts DEF Control, Gap, At
<1>3. m \in Nat /\ Zeros(m) \in Seq(Int) /\ Len(Zeros(m)) = m
  <2>1. m \in Nat
    BY <1>2
  <2> HIDE DEF m
  <2> QED BY <2>1, ZerosAre
<1>4. /\ file' = IF all THEN [filled EXCEPT !.length = pos, !.dirty = TRUE] ELSE filled
      /\ call' = IF all THEN [call EXCEPT !.goal = None] ELSE [call EXCEPT !.back = "fill"]
      /\ pc' = IF all THEN "put" ELSE "flush"
  <2> DEFINE z == [i \in 1 .. call.goal - file.pos |-> 0]
             rr == Taken(file.page, Len(z))
             pp == file.pos + rr
             ff == [file EXCEPT !.page = Overwritten(file.page, z), !.pos = pp]
  <2>1. /\ file' = IF pp = call.goal THEN [ff EXCEPT !.length = pp, !.dirty = TRUE] ELSE ff
        /\ call' = IF pp = call.goal THEN [call EXCEPT !.goal = None]
                                     ELSE [call EXCEPT !.back = "fill"]
        /\ pc' = IF pp = call.goal THEN "put" ELSE "flush"
    BY Zenon DEF Fill
  <2>2. z = Zeros(m)
    BY Zenon DEF Zeros
  <2>3. Len(z) = m
    BY <1>3, <2>2
  <2> HIDE DEF m
  <2> QED BY <2>1, <2>2, <2>3, Zenon
<1>5. /\ r \in Nat /\ r <= m /\ w \in PageType
  <2> DEFINE z == Zeros(m)
  <2>1. z \in Seq(Int) /\ Len(z) = m
    BY <1>3
  <2> HIDE DEF m, z
  <2>2. LET rr == Taken(file.page, Len(z))  ww == Overwritten(file.page, z) IN
        rr \in Nat /\ rr <= Len(z) /\ ww \in PageType
    BY <1>1, <2>1, OverwrittenFits
  <2> HIDE DEF r, w
  <2> QED BY <2>1, <2>2 DEF r, w, z
<1>6. /\ all <=> r = m
      /\ pos \in Nat
  <2> HIDE DEF r
  <2> QED BY <1>2, <1>5
<1> HIDE DEF m, r, w, pos
<1>7. /\ filled \in FileType /\ filled.length = file.length /\ filled.pos = pos
      /\ filled.n = file.n /\ filled.dirty = file.dirty /\ filled.cursor = file.cursor
      /\ filled.page = w
  BY <1>5, <1>6 DEF Typed, FileType
<1> HIDE DEF filled
<1>8. /\ file' \in FileType /\ file'.pos = pos /\ file'.n = file.n
      /\ file'.cursor = file.cursor /\ file'.page = w
      /\ all => file'.length = pos /\ file'.dirty = TRUE
      /\ ~ all => file'.length = file.length /\ file'.dirty = file.dirty
  <2>1. CASE all
    <3>1. file' = [filled EXCEPT !.length = pos, !.dirty = TRUE]
      BY <1>4, <2>1, Zenon
    <3> QED BY <1>6, <1>7, <2>1, <3>1 DEF FileType
  <2>2. CASE ~ all
    BY <1>4, <1>7, <2>2
  <2> QED BY <2>1, <2>2
<1>9. /\ call' \in CallType /\ call'.op = call.op /\ call'.target = call.target
      /\ call'.data = call.data
      /\ all => call'.goal = None
      /\ ~ all => call'.goal = call.goal /\ call'.back = "fill"
  <2>1. call \in CallType
    BY CallSorts
  <2>2. CASE all
    <3>1. call' = [call EXCEPT !.goal = None]
      BY <1>4, <2>2, Zenon
    <3> QED BY <2>1, <2>2, <3>1 DEF CallType
  <2>3. CASE ~ all
    <3>1. call' = [call EXCEPT !.back = "fill"]
      BY <1>4, <2>3, Zenon
    <3> QED BY <2>1, <2>3, <3>1, CallBack DEF Backs
  <2> QED BY <2>2, <2>3
<1>10. \/ /\ r = m /\ pc' = "put" /\ call'.goal = None
          /\ file'.length = pos /\ file'.dirty = TRUE
       \/ /\ r < m /\ pc' = "flush" /\ call'.goal = call.goal /\ call'.back = "fill"
          /\ file'.length = file.length /\ file'.dirty = file.dirty
  <2>1. CASE all
    BY <1>4, <1>6, <1>8, <1>9, <2>1
  <2>2. CASE ~ all
    <3>1. r < m
      BY <1>3, <1>5, <1>6, <2>2
    <3> QED BY <1>4, <1>8, <1>9, <2>2, <3>1
  <2> QED BY <2>1, <2>2
<1> QED BY <1>1, <1>2, <1>3, <1>5, <1>8, <1>9, <1>10, Zenon DEF m, r, w, pos

LEMMA FillKeeps == ASSUME Typed, Control, Fill PROVE Typed' /\ Control'
<1> DEFINE m == call.goal - file.pos
           r == Taken(file.page, m)
           w == Overwritten(file.page, Zeros(m))
<1>1. /\ m \in Nat /\ r \in Nat /\ r <= m /\ call.goal \in Nat
      /\ pc = "fill" /\ file.page # NoPage
      /\ server' = server /\ history' = history /\ bounds' = bounds /\ result' = result
      /\ file' \in FileType /\ file'.pos = file.pos + r /\ file'.n = file.n
      /\ file'.cursor = file.cursor /\ file'.page = w
      /\ call' \in CallType /\ call'.op = call.op /\ call'.target = call.target
      /\ call'.data = call.data
      /\ \/ /\ r = m /\ pc' = "put" /\ call'.goal = None
            /\ file'.length = file.pos + r
         \/ /\ r < m /\ pc' = "flush" /\ call'.goal = call.goal /\ call'.back = "fill"
            /\ file'.length = file.length
  BY FillSteps, Zenon
<1>2. /\ r < m => w.offset = ChunkSize
      /\ w # NoPage /\ PageFits(w, file.n, file.pos + r) /\ w.written = TRUE
  <2> DEFINE z == Zeros(m)
  <2>1. z \in Seq(Int) /\ Len(z) = m
    <3> HIDE DEF m
    <3> QED BY <1>1, ZerosAre
  <2> HIDE DEF m, z
  <2>2. LET rr == Taken(file.page, Len(z))  ww == Overwritten(file.page, z) IN
        /\ rr < Len(z) => file.page.offset + rr = ChunkSize
        /\ ww # NoPage /\ PageFits(ww, file.n, file.pos + rr) /\ ww.offset = file.page.offset + rr
        /\ ww.written = TRUE
    BY <1>1, <2>1, OverwrittenFits
  <2>3. r = Taken(file.page, Len(z)) /\ w = Overwritten(file.page, z)
    BY <2>1 DEF z
  <2> HIDE DEF r, w
  <2> QED BY <2>1, <2>2, <2>3
<1>3. /\ m = call.goal - file.pos
  OBVIOUS
<1> HIDE DEF m, r, w
<1>4. /\ call.op = "write" /\ call.target = None /\ ~ removed
      /\ call.goal + Len(call.data) <= MaxLength /\ file.length < call.goal
      /\ stored # None => stored <= file.length
  BY <1>1 DEF Control, Course, Gap, Ends, Paging, At, None
<1>5. /\ file.pos \in Nat /\ file.length \in Nat /\ file.length <= MaxLength
      /\ Len(call.data) \in Nat /\ Begin(file.n) <= file.pos /\ Begin(file.n) \in Nat
  BY <1>1, FileSorts, CallSorts
<1>6. /\ file.pos + r <= call.goal /\ call.goal <= MaxLength
      /\ file'.length \in Nat /\ file.length <= file'.length /\ file'.length <= MaxLength
      /\ pc' = "put" => file.pos + r = call.goal
  BY <1>1, <1>3, <1>4, <1>5, Sizes, SMTT(40)
<1>7. Typed'
  <2>1. pc' \in Steps
    BY <1>1 DEF Typed, Steps
  <2>2. file'.pos <= MaxLength + ChunkSize
    BY <1>1, <1>5, <1>6, Sizes
  <2>3. AheadFits(file'.cursor.ahead) /\ CursorFits(file'.cursor)
    BY <1>1 DEF Typed
  <2>4. PageFits(file'.page, file'.n, file'.pos)
    BY <1>1, <1>2
  <2> QED BY <1>1, <1>6, <2>1, <2>2, <2>3, <2>4 DEF Typed, server, history, bounds
<1>8. /\ At' \in {"put", "fill"}
      /\ At' = "put" => pc' = "put"
      /\ At' = "fill" => pc' = "flush"
  BY <1>1 DEF At
<1>9. Course'
  BY <1>1, <1>4, <1>8 DEF Course, server, history
<1>10. Gap' /\ Ends'
  BY <1>1, <1>4, <1>5, <1>6, <1>8 DEF Gap, Ends, None
<1>11. Paging'
  <2>1. Begin(file'.n) <= MaxLength
    BY <1>1, <1>5, <1>6, Sizes
  <2>2. /\ pc' \in {"put", "flush"}
        /\ pc' = "flush" => /\ file'.page.written /\ file'.page.offset = ChunkSize
                            /\ call'.back = "fill"
    BY <1>1, <1>2
  <2>3. stored' # None => stored' <= file'.length
    BY <1>1, <1>4, <1>5, <1>6, FileSorts, SMTT(40) DEF server, Typed
  <2> QED BY <1>8, <2>1, <2>2, <2>3 DEF Paging
<1>12. Reading'
  BY <1>8 DEF Reading
<1> QED BY <1>7, <1>9, <1>10, <1>11, <1>12 DEF Control


LEMMA NewFileIs ==
  /\ NewFile \in FileType /\ NewFile.length = 0 /\ NewFile.pos = 0 /\ NewFile.n = 0
  /\ NewFile.dirty = TRUE /\ NewFile.page = NoPage /\ NewFile.cursor = NoCursor
  BY CursorTypes DEF NewFile, FileType

LEMMA FoundIs ==
  ASSUME NEW len \in Nat
  PROVE  LET f == FoundFile(len) IN
         /\ f \in FileType /\ f.length = len /\ f.pos = 0 /\ f.n = 0 /\ f.dirty = FALSE
         /\ f.page = NoPage /\ f.cursor = NoCursor
  BY NewFileIs DEF FoundFile, FileType

(* A file that was just opened, between calls. *)
LEMMA OpenedTypes ==
  ASSUME NEW f \in FileType, f.length <= MaxLength, f.pos = 0, f.n = 0, f.page = NoPage,
         f.cursor = NoCursor
  PROVE  /\ f.pos <= MaxLength + ChunkSize /\ PageFits(f.page, f.n, f.pos)
         /\ AheadFits(f.cursor.ahead) /\ CursorFits(f.cursor) /\ ~ f.page.written
  BY Sizes, CursorTypes, NoPageIs DEF PageFits, AheadFits, CursorFits

LEMMA ChunkByteIs ==
  ASSUME Typed, NEW i \in Nat, i >= 1
  PROVE  ChunkByte(i) \in Int
<1> DEFINE k == (i - 1) \div ChunkSize
           m == (i - 1) % ChunkSize
           j == m + 1
<1>1. m \in Nat
  BY Sizes
<1>2. ChunkByte(i) = IF k \in DOMAIN chunks /\ j <= Len(chunks[k]) THEN chunks[k][j] ELSE Junk
  BY Zenon DEF ChunkByte
<1> HIDE DEF k, m
<1>3. k \in DOMAIN chunks => chunks[k] \in Seq(Int)
  BY DEF Typed, AreChunks
<1>4. k \in DOMAIN chunks /\ j <= Len(chunks[k]) => j \in 1 .. Len(chunks[k])
  BY <1>1, <1>3
<1> QED BY <1>2, <1>3, <1>4, ElementOfSeq DEF Junk

LEMMA ReopenKeeps == ASSUME Typed, Control, Reopen PROVE Typed' /\ Control'
<1> DEFINE bytes == [i \in 1 .. stored |-> ChunkByte(i)]
<1>1. /\ stored # None /\ file' = FoundFile(stored) /\ pc' = "idle" /\ call' = NoCall
      /\ result' = "none"
      /\ content' = (IF Whole(chunks, stored) THEN bytes ELSE <<>>)
      /\ torn' = ~ Whole(chunks, stored)
      /\ stale' = (stale /\ ~ Whole(chunks, stored))
      /\ lost' = FALSE /\ unsaved' = FALSE /\ server' = server /\ removed' = removed
      /\ bounds' = bounds
  BY Zenon DEF Reopen
<1>2. stored \in Nat /\ stored <= MaxLength
  BY <1>1, Sizes DEF Typed
<1>3. bytes \in Seq(Int)
  <2>1. \A i \in 1 .. stored : ChunkByte(i) \in Int
    BY <1>2, ChunkByteIs
  <2> QED BY <1>2, <2>1
<1> HIDE DEF bytes
<1>4. content' \in Seq(Int)
  BY <1>1, <1>3, EmptySeq
<1>5. stale' \in BOOLEAN /\ torn' \in BOOLEAN
  BY <1>1, Zenon
<1>6. /\ file' \in FileType /\ file'.length = stored /\ file'.pos = 0 /\ file'.n = 0
      /\ file'.page = NoPage /\ file'.cursor = NoCursor
  BY <1>1, <1>2, FoundIs
<1>7. Typed'
  <2>1. /\ file'.pos <= MaxLength + ChunkSize /\ PageFits(file'.page, file'.n, file'.pos)
        /\ AheadFits(file'.cursor.ahead) /\ CursorFits(file'.cursor)
    BY <1>2, <1>6, OpenedTypes
  <2> QED BY <1>1, <1>2, <1>4, <1>5, <1>6, <2>1, NoCallTyped DEF Typed, Steps, server, bounds
<1>8. ~ removed
  BY <1>1 DEF Control, Course
<1>9. Course'
  BY <1>1, <1>8, NoCallTyped DEF Course, At
<1>10. Gap' /\ Ends' /\ Reading'
  BY <1>1, NoCallTyped DEF Gap, Ends, Reading, At
<1>11. Paging'
  BY <1>1, <1>2, <1>6, NoPageIs DEF Paging, At, server
<1> QED BY <1>7, <1>9, <1>10, <1>11 DEF Control

(* The chunks to start with. *)
LEMMA InitialChunks ==
  ASSUME Init
  PROVE  /\ AreChunks(chunks) /\ content \in Seq(Int) /\ stored \in {None} \cup 0 .. MaxLength
         /\ Len(content) = (IF stored = None THEN 0 ELSE stored)
         /\ stored = None => DOMAIN chunks = {}
         /\ stored # None =>
              \A k \in Nat : /\ k \in DOMAIN chunks <=> Begin(k) < stored
                             /\ k \in DOMAIN chunks =>
                                  /\ Len(chunks[k]) = SizeOf(k, stored)
                                  /\ \A j \in 1 .. Len(chunks[k]) :
                                       chunks[k][j] = content[Begin(k) + j]
<1> DEFINE len == Greater(stored, 0)
           part(k) == SubSeq(content, k * ChunkSize + 1, k * ChunkSize + SizeOf(k, stored))
<1>1. /\ stored \in {None} \cup FileLengths
      /\ content = [i \in 1 .. len |-> 100 + i]
      /\ chunks = [k \in 0 .. RoundUp(Len(content)) - 1 |-> part(k)]
  BY Zenon DEF Init
<1>2. stored \in {None} \cup 0 .. MaxLength
  BY <1>1, GridFSFileAssumption
<1>3. len \in Nat /\ len = (IF stored = None THEN 0 ELSE stored) /\ len <= MaxLength
  BY <1>2, Sizes DEF Greater, None
<1> HIDE DEF len
<1>4. content \in Seq(Int) /\ Len(content) = len
  BY <1>1, <1>3
<1>5. RoundUp(len) \in Nat /\ \A k \in Nat : k < RoundUp(len) <=> Begin(k) < len
  BY <1>3, RoundUpIs
<1> HIDE DEF part
<1>6. DOMAIN chunks = 0 .. RoundUp(len) - 1 /\ \A k \in DOMAIN chunks : chunks[k] = part(k)
  BY <1>1, <1>4
<1>7. \A k \in Nat : k \in DOMAIN chunks <=> Begin(k) < len
  BY <1>5, <1>6
<1>8. \A k \in DOMAIN chunks : k \in Nat
  BY <1>5, <1>6
<1>9. ASSUME NEW k \in DOMAIN chunks
      PROVE  /\ part(k) \in Seq(Int) /\ Len(part(k)) = SizeOf(k, stored)
             /\ SizeOf(k, stored) \in 0 .. ChunkSize
             /\ \A j \in 1 .. Len(part(k)) : part(k)[j] = content[Begin(k) + j]
  <2>1. k \in Nat /\ Begin(k) < len /\ Begin(k) \in Nat
    BY <1>7, <1>8, BeginNext
  <2>2. stored = len /\ stored \in Nat
    BY <1>2, <1>3, <2>1
  <2> DEFINE z == SizeOf(k, stored)
  <2>3. z \in 0 .. ChunkSize /\ Begin(k) + z <= len
    <3>1. /\ z \in 0 .. ChunkSize
          /\ stored >= Begin(k) + ChunkSize => z = ChunkSize
          /\ Begin(k) <= stored /\ stored <= Begin(k) + ChunkSize => z = stored - Begin(k)
      BY <2>1, <2>2, SizeIs
    <3> HIDE DEF z
    <3> QED BY <2>1, <2>2, <3>1, Sizes
  <2> HIDE DEF z
  <2> DEFINE o == Begin(k)
  <2>4. part(k) = SubSeq(content, o + 1, o + z)
    BY Zenon DEF part, Begin, z
  <2>5. o \in Nat /\ z \in Nat /\ o + z <= Len(content)
    BY <1>4, <2>1, <2>3, Sizes
  <2> HIDE DEF o
  <2>6. /\ SubSeq(content, o + 1, o + z) \in Seq(Int) /\ Len(SubSeq(content, o + 1, o + z)) = z
        /\ \A j \in 1 .. z : SubSeq(content, o + 1, o + z)[j] = content[o + j]
    BY <1>4, <2>5, PartIs
  <2> QED BY <2>3, <2>4, <2>6, Zenon DEF z, o
<1>10. AreChunks(chunks)
  <2>1. IsFiniteSet(DOMAIN chunks)
    BY <1>5, <1>6, FS_Interval
  <2>2. DOMAIN chunks \subseteq 0 .. MaxLength
    <3> SUFFICES ASSUME NEW k \in DOMAIN chunks PROVE k \in 0 .. MaxLength
      OBVIOUS
    <3>1. k \in Nat /\ Begin(k) < len /\ Begin(k) \in Nat /\ k <= Begin(k)
      BY <1>7, <1>8, BeginNext, BeginGrows
    <3> QED BY <1>3, <3>1, Sizes
  <2>3. \A k \in DOMAIN chunks : chunks[k] \in Seq(Int) /\ Len(chunks[k]) <= ChunkSize
    BY <1>6, <1>9, Sizes
  <2>4. chunks = [k \in DOMAIN chunks |-> chunks[k]]
    BY <1>1
  <2> QED BY <2>1, <2>2, <2>3, <2>4 DEF AreChunks
<1>11. stored = None => DOMAIN chunks = {}
  <2> SUFFICES ASSUME stored = None, NEW k \in DOMAIN chunks PROVE FALSE
    OBVIOUS
  <2>1. k \in Nat /\ Begin(k) < len /\ Begin(k) \in Nat /\ len = 0
    BY <1>3, <1>7, <1>8, BeginNext
  <2> QED BY <2>1
<1>12. ASSUME stored # None
       PROVE  \A k \in Nat : /\ k \in DOMAIN chunks <=> Begin(k) < stored
                             /\ k \in DOMAIN chunks =>
                                  /\ Len(chunks[k]) = SizeOf(k, stored)
                                  /\ \A j \in 1 .. Len(chunks[k]) :
                                       chunks[k][j] = content[Begin(k) + j]
  <2>1. stored = len
    BY <1>3, <1>12
  <2> QED BY <1>6, <1>7, <1>9, <2>1
<1> QED BY <1>2, <1>3, <1>4, <1>10, <1>11, <1>12

LEMMA InitTyped == ASSUME Init PROVE Typed /\ Control
<1>1. /\ AreChunks(chunks) /\ content \in Seq(Int) /\ stored \in {None} \cup 0 .. MaxLength
  BY InitialChunks
<1>2. /\ file = (IF stored = None THEN NewFile ELSE FoundFile(stored))
      /\ pc = "idle" /\ call = NoCall /\ result = "none"
      /\ lost = FALSE /\ stale = FALSE /\ torn = FALSE /\ unsaved = FALSE /\ removed = FALSE
      /\ writes = 0 /\ failures = 0
  BY Zenon DEF Init
<1>3. /\ file \in FileType /\ file.length <= MaxLength /\ file.pos = 0 /\ file.n = 0
      /\ file.page = NoPage /\ file.cursor = NoCursor /\ (stored # None => stored <= file.length)
  <2>1. CASE stored = None
    <3>1. file = NewFile
      BY <1>2, <2>1
    <3>2. file.length = 0 /\ 0 <= MaxLength
      BY <3>1, NewFileIs, Sizes
    <3> QED BY <2>1, <3>1, <3>2, NewFileIs
  <2>2. CASE stored # None
    <3>1. stored \in Nat /\ stored <= MaxLength
      BY <1>1, <2>2, Sizes
    <3>2. file = FoundFile(stored)
      BY <1>2, <2>2
    <3>3. /\ FoundFile(stored) \in FileType /\ FoundFile(stored).length = stored
          /\ FoundFile(stored).pos = 0 /\ FoundFile(stored).n = 0
          /\ FoundFile(stored).page = NoPage /\ FoundFile(stored).cursor = NoCursor
      BY <3>1, FoundIs
    <3>4. file.length = stored /\ stored <= stored
      BY <3>1, <3>2, <3>3
    <3> QED BY <3>1, <3>2, <3>3, <3>4, Zenon
  <2> QED BY <2>1, <2>2
<1>4. Typed
  <2>1. /\ file.pos <= MaxLength + ChunkSize /\ PageFits(file.page, file.n, file.pos)
        /\ AheadFits(file.cursor.ahead) /\ CursorFits(file.cursor)
    BY <1>3, OpenedTypes
  <2>2. writes \in 0 .. MaxWrites /\ failures \in 0 .. MaxFailures
    BY <1>2, Sizes
  <2>3. pc \in Steps /\ call \in CallType /\ result \in {"none", "ok", "error"}
    BY <1>2, NoCallTyped DEF Steps
  <2>4. /\ lost \in BOOLEAN /\ stale \in BOOLEAN /\ torn \in BOOLEAN
        /\ unsaved \in BOOLEAN /\ removed \in BOOLEAN
    BY <1>2
  <2> QED BY <1>1, <1>3, <2>1, <2>2, <2>3, <2>4, Zenon DEF Typed
<1>5. Course
  BY <1>2, NoCallTyped DEF Course, At
<1>6. Gap /\ Ends /\ Reading
  BY <1>2, NoCallTyped DEF Gap, Ends, Reading, At
<1>7. Paging
  BY <1>2, <1>3, NoPageIs DEF Paging, At
<1> QED BY <1>4, <1>5, <1>6, <1>7 DEF Control

LEMMA StutterKeeps == ASSUME Typed, Control, UNCHANGED vars PROVE Typed' /\ Control'
<1>1. /\ chunks' = chunks /\ stored' = stored /\ file' = file /\ pc' = pc /\ call' = call
      /\ result' = result /\ content' = content /\ lost' = lost /\ stale' = stale
      /\ torn' = torn /\ unsaved' = unsaved /\ removed' = removed
      /\ writes' = writes /\ failures' = failures
  BY DEF vars, server, history, bounds
<1>2. Typed'
  BY <1>1 DEF Typed
<1>3. At' = At /\ Room' = Room
  BY <1>1 DEF At, Room
<1>4. Course' /\ Gap' /\ Ends' /\ Paging' /\ Reading'
  BY <1>1, <1>3 DEF Control, Course, Gap, Ends, Paging, Reading
<1> QED BY <1>2, <1>4 DEF Control

LEMMA StepKeeps == ASSUME Typed, Control, Step PROVE Typed' /\ Control'
<1>1. CASE Readv \/ PageRead \/ ReadBehindPage \/ Refresh \/ Fetch \/ NextChunk \/ NoChunk
  BY <1>1, ReadvKeeps, PageReadKeeps, ReadBehindPageKeeps, RefreshKeeps, FetchKeeps,
     NextChunkKeeps, NoChunkKeeps, Zenon
<1>2. CASE NeedPage \/ Writev \/ PageWrite \/ Fill \/ FlushBeforeSeek \/ SeekPage
  BY <1>2, NeedPageKeeps, WritevKeeps, PageWriteKeeps, FillKeeps, FlushBeforeSeekKeeps,
     SeekPageKeeps, Zenon
<1>3. CASE UpdateChunk \/ InnerSaveClean \/ UpdateFile \/ RemoveFile \/ RemoveChunks
           \/ Return \/ ServerFails
  BY <1>3, UpdateChunkKeeps, InnerSaveCleanKeeps, UpdateFileKeeps, RemoveFileKeeps,
     RemoveChunksKeeps, ReturnKeeps, ServerFailsKeeps, Zenon
<1> QED BY <1>1, <1>2, <1>3, Zenon DEF Step

LEMMA NextKeeps == ASSUME Typed, Control, [Next]_vars PROVE Typed' /\ Control'
<1>1. ASSUME NEW len \in ReadLengths, Read(len) PROVE Typed' /\ Control'
  BY <1>1, ReadKeeps
<1>2. ASSUME NEW len \in WriteLengths, Write(len) PROVE Typed' /\ Control'
  BY <1>2, WriteKeeps
<1>3. ASSUME NEW whence, NEW delta, Seek(whence, delta) PROVE Typed' /\ Control'
  BY <1>3, SeekKeeps
<1> QED BY <1>1, <1>2, <1>3, SaveKeeps, RemoveKeeps, ReopenKeeps, StepKeeps, StutterKeeps,
           Zenon DEF Next

LEMMA Typing == Spec => [](Typed /\ Control)
<1>1. Init => Typed /\ Control
  BY InitTyped
<1>2. Typed /\ Control /\ [Next]_vars => (Typed /\ Control)'
  BY NextKeeps, Zenon
<1> QED BY <1>1, <1>2, PTL DEF Spec

(* TypeOK: the state of the file, of the call that is in progress and of the
   server stay within their types, wherever the process ends or the server
   fails. *)
THEOREM TypesHold == Spec => []TypeOK
<1>1. Typed /\ Control => TypeOK
  <2> SUFFICES ASSUME Typed, Control PROVE TypeOK
    OBVIOUS
  <2>1. \A k \in DOMAIN chunks : k \in 0 .. MaxLength /\ Len(chunks[k]) <= ChunkSize
    BY DEF Typed, AreChunks
  <2>2. /\ file.length \in 0 .. MaxLength /\ file.pos \in 0 .. MaxLength + ChunkSize
        /\ file.n \in Nat /\ file.dirty \in BOOLEAN
    BY FileSorts, Sizes
  <2>3. file.page # NoPage =>
          file.page.offset \in 0 .. ChunkSize /\ Len(file.page.data) <= ChunkSize
    BY FileSorts, Sizes
  <2>4. file.cursor # NoCursor => file.cursor.next \in Nat /\ file.cursor.last \in Nat
    BY DEF Typed, CursorFits
  <2>5. call.op \in {"none", "read", "write", "seek", "save", "remove"}
    BY CallSorts DEF CallType
  <2> QED BY <2>1, <2>2, <2>3, <2>4, <2>5, Zenon DEF TypeOK, Typed, Steps
<1> QED BY <1>1, Typing, PTL


-----------------------------------------------------------------------------
(* What is stored                                                          *)
(*                                                                         *)
(* While no page was stale, the chunks that the server has, together with  *)
(* a page that was written to, are all that the length counts; and a page  *)
(* never replaces a chunk by a shorter one, but where the file ends.       *)

Held(pg, n, k) == pg.written /\ k = n
HasFull(cs, k) == k \in DOMAIN cs /\ Len(cs[k]) >= ChunkSize
Enough(cs, len, pg, n) ==
  \A k \in Nat : Begin(k) < len /\ ~ Held(pg, n, k) =>
                   k \in DOMAIN cs /\ Len(cs[k]) >= SizeOf(k, len)
FullBehind(cs, pg, n, pos) ==
  \A k \in Nat : Begin(k) + ChunkSize <= pos /\ ~ Held(pg, n, k) => HasFull(cs, k)
PageSound(cs, len, pg, n, bound) ==
  pg # NoPage =>
    /\ Len(pg.data) >= SizeOf(n, len)
    /\ pg.offset = ChunkSize => Len(pg.data) = ChunkSize
    /\ ~ pg.written => pg.data = <<>> \/ (n \in DOMAIN cs /\ pg.data = cs[n])
    /\ pg.written =>
         /\ \A k \in Nat : k < n => HasFull(cs, k)
         /\ \/ n \in DOMAIN cs /\ Len(cs[n]) >= Len(pg.data)
            \/ Begin(n) + Len(pg.data) <= bound /\ len <= Begin(n) + ChunkSize

(* How far the file is written at this step. *)
Bound == IF At \in {"put", "fill"} THEN Greater(file.length, file.pos) ELSE file.length

Laid ==
  /\ stored # None => Covered(chunks, stored)
  /\ Enough(chunks, file.length, file.page, file.n)
  /\ PageSound(chunks, file.length, file.page, file.n, Bound)

(* Behind the position of a write every chunk is full. *)
Writes == At \in {"put", "fill"}
          \/ (pc \in {"flush", "inner_save"} /\ At = "seek" /\ call.op = "write")
Placed == Writes => FullBehind(chunks, file.page, file.n, file.pos)

(* A read is within the page, or finds one that it is within. *)
Within ==
  /\ pc # "crashed"
  /\ At = "page_read" =>
       /\ file.page # NoPage => file.page.offset <= Len(file.page.data)
       /\ pc = "refresh" =>
            IF file.page = NoPage THEN file.pos < file.length
            ELSE file.page.offset = Len(file.page.data) /\ file.pos # file.length
       /\ pc = "next" =>
            \/ file.pos < file.length
            \/ file.n \in DOMAIN chunks /\ file.pos - Begin(file.n) <= Len(chunks[file.n])

Sound == ~ stale /\ ~ removed => Laid /\ Placed /\ Within

LEMMA CoveredIs ==
  ASSUME NEW cs, NEW len \in Nat
  PROVE  Covered(cs, len) <=>
           \A k \in Nat : Begin(k) < len => k \in DOMAIN cs /\ Len(cs[k]) >= SizeOf(k, len)
<1>1. RoundUp(len) \in Nat /\ \A k \in Nat : k < RoundUp(len) <=> Begin(k) < len
  BY RoundUpIs
<1>2. \A k : k \in 0 .. RoundUp(len) - 1 <=> k \in Nat /\ Begin(k) < len
  BY <1>1
<1> QED BY <1>2, Zenon DEF Covered

(* Without written bytes in the page the chunks alone are enough. *)
LEMMA EnoughIsCovered ==
  ASSUME NEW cs, NEW len \in Nat, NEW pg, NEW n, ~ pg.written
  PROVE  Enough(cs, len, pg, n) <=> Covered(cs, len)
<1>1. Enough(cs, len, pg, n) <=>
        \A k \in Nat : Begin(k) < len => k \in DOMAIN cs /\ Len(cs[k]) >= SizeOf(k, len)
  BY Zenon DEF Enough, Held
<1> QED BY <1>1, CoveredIs, Zenon

LEMMA EnoughFull ==
  ASSUME NEW cs, NEW len \in Nat, NEW pg, NEW n, NEW pos \in Nat, pos <= len,
         Enough(cs, len, pg, n)
  PROVE  FullBehind(cs, pg, n, pos)
<1> SUFFICES ASSUME NEW k \in Nat, Begin(k) + ChunkSize <= pos, ~ Held(pg, n, k)
             PROVE  HasFull(cs, k)
  BY Zenon DEF FullBehind
<1>1. Begin(k) \in Nat /\ Begin(k) < len /\ len >= Begin(k) + ChunkSize
  BY BeginNext, Sizes
<1>2. k \in DOMAIN cs /\ Len(cs[k]) >= SizeOf(k, len)
  BY <1>1, Zenon DEF Enough
<1>3. SizeOf(k, len) = ChunkSize
  BY <1>1, SizeIs
<1> QED BY <1>2, <1>3 DEF HasFull

LEMMA PageSoundLater ==
  ASSUME NEW cs, NEW len \in Nat, NEW pg \in PageType \cup {NoPage}, NEW n \in Nat,
         NEW a \in Nat, NEW b \in Nat, a <= b, PageSound(cs, len, pg, n, a)
  PROVE  PageSound(cs, len, pg, n, b)
<1>1. CASE pg = NoPage
  BY <1>1 DEF PageSound
<1>2. CASE pg # NoPage
  <2>1. Begin(n) + Len(pg.data) <= a => Begin(n) + Len(pg.data) <= b
    <3>1. Begin(n) \in Nat /\ Len(pg.data) \in Nat
      BY <1>2, BeginNext DEF PageType
    <3> QED BY <3>1
  <2> QED BY <1>2, <2>1, Zenon DEF PageSound
<1> QED BY <1>1, <1>2

LEMMA Greatest ==
  ASSUME NEW a \in Nat, NEW b \in Nat
  PROVE  Greater(a, b) \in Nat /\ a <= Greater(a, b) /\ b <= Greater(a, b)
         /\ (b <= a => Greater(a, b) = a)
         /\ \A c \in Nat : a <= c /\ b <= c => Greater(a, b) <= c
  BY DEF Greater

(* The page goes to the chunks. *)
LEMMA FlushedCovers ==
  ASSUME Typed, file.page # NoPage, file.n \in 0 .. MaxLength,
         NEW len \in Nat, Len(file.page.data) >= SizeOf(file.n, len)
  PROVE  /\ Covered(chunks, len) => Covered(AfterUpdate, len)
         /\ Enough(chunks, len, file.page, file.n) => Covered(AfterUpdate, len)
<1> DEFINE cs == AfterUpdate
           is(ds, k) == k \in DOMAIN ds /\ Len(ds[k]) >= SizeOf(k, len)
<1>1. /\ DOMAIN cs = DOMAIN chunks \cup {file.n} /\ cs[file.n] = file.page.data
      /\ \A k \in DOMAIN chunks : k # file.n => cs[k] = chunks[k]
  BY AfterUpdateIs
<1> HIDE DEF cs
<1>2. is(cs, file.n)
  BY <1>1
<1>3. \A k \in Nat : k # file.n /\ is(chunks, k) => is(cs, k)
  BY <1>1, Zenon
<1>4. Covered(cs, len) <=> \A k \in Nat : Begin(k) < len => is(cs, k)
  BY CoveredIs
<1>5. Covered(chunks, len) <=> \A k \in Nat : Begin(k) < len => is(chunks, k)
  BY CoveredIs
<1>6. Enough(chunks, len, file.page, file.n) =>
        \A k \in Nat : Begin(k) < len /\ k # file.n => is(chunks, k)
  BY Zenon DEF Enough, Held
<1> HIDE DEF is
<1> QED BY <1>2, <1>3, <1>4, <1>5, <1>6, Zenon DEF cs

LEMMA BoundIs ==
  ASSUME Typed
  PROVE  /\ Bound \in Nat /\ file.length <= Bound
         /\ At \in {"put", "fill"} => file.pos <= Bound
         /\ At \notin {"put", "fill"} => Bound = file.length
         /\ file.pos <= file.length => Bound = file.length
<1>1. file.length \in Nat /\ file.pos \in Nat
  BY FileSorts
<1>2. CASE At \in {"put", "fill"}
  <2>1. Bound = Greater(file.length, file.pos)
    BY <1>2 DEF Bound
  <2> QED BY <1>1, <1>2, <2>1, Greatest
<1>3. CASE At \notin {"put", "fill"}
  BY <1>1, <1>3 DEF Bound
<1> QED BY <1>2, <1>3

(* A page that is read from holds what the length counts. *)
LEMMA PageReaches ==
  ASSUME Typed, Laid, file.page # NoPage, file.pos < file.length
  PROVE  file.page.offset <= Len(file.page.data)
<1>1. /\ file.length \in Nat /\ file.pos \in Nat /\ file.n \in Nat /\ Begin(file.n) \in Nat
      /\ file.page.offset \in Nat /\ file.page.offset <= ChunkSize
      /\ Len(file.page.data) \in Nat /\ file.pos = Begin(file.n) + file.page.offset
  BY FileSorts
<1>2. /\ Len(file.page.data) >= SizeOf(file.n, file.length)
      /\ file.page.offset = ChunkSize => Len(file.page.data) = ChunkSize
  BY Zenon DEF Laid, PageSound
<1>3. SizeOf(file.n, file.length) = ChunkSize
      \/ SizeOf(file.n, file.length) = file.length - Begin(file.n)
  <2>1. Begin(file.n) <= file.length
    BY <1>1
  <2>2. file.length >= Begin(file.n) + ChunkSize \/ file.length <= Begin(file.n) + ChunkSize
    BY <1>1, Sizes
  <2> QED BY <1>1, <2>1, <2>2, SizeIs
<1> QED BY <1>1, <1>2, <1>3, Sizes

(* Steps that change neither the file nor what is stored. *)
LEMMA LaidStays ==
  ASSUME Typed, Laid, file' = file, chunks' = chunks, stored' = stored, Typed',
         At \in {"put", "fill"} =>
           At' \in {"put", "fill"} \/ file.pos <= file.length \/ file.page = NoPage
  PROVE  Laid'
<1>1. /\ stored # None => Covered(chunks, stored)
      /\ Enough(chunks, file.length, file.page, file.n)
      /\ PageSound(chunks, file.length, file.page, file.n, Bound)
  BY Zenon DEF Laid
<1>2. /\ Bound \in Nat /\ file.length <= Bound
      /\ At \notin {"put", "fill"} => Bound = file.length
      /\ file.pos <= file.length => Bound = file.length
  BY BoundIs
<1>3. /\ Bound' \in Nat /\ file.length <= Bound'
      /\ At' \in {"put", "fill"} => file.pos <= Bound'
  <2> Typed'
    OBVIOUS
  <2>1. (/\ Bound \in Nat /\ file.length <= Bound
         /\ At \in {"put", "fill"} => file.pos <= Bound)'
    BY BoundIs, PTL
  <2> QED BY <2>1
<1>4. PageSound(chunks, file.length, file.page, file.n, Bound')
  <2>1. CASE file.page = NoPage
    BY <2>1 DEF PageSound
  <2>2. CASE file.page # NoPage
    <3>1. Bound = file.length \/ Bound = Greater(file.length, file.pos)
      BY DEF Bound
    <3>2. Bound <= Bound'
      BY <1>2, <1>3, <2>2, <3>1, FileSorts DEF Greater
    <3>3. file.page \in PageType \cup {NoPage} /\ file.length \in Nat /\ file.n \in Nat
      BY FileSorts
    <3> QED BY <1>1, <1>2, <1>3, <3>2, <3>3, PageSoundLater
  <2> QED BY <2>1, <2>2
<1> QED BY <1>1, <1>4, Zenon DEF Laid

LEMMA SoundStays ==
  ASSUME Typed, Sound, file' = file, chunks' = chunks, stored' = stored, Typed',
         stale' = stale, removed' = removed,
         At \in {"put", "fill"} =>
           At' \in {"put", "fill"} \/ file.pos <= file.length \/ file.page = NoPage,
         Writes' => Writes \/ file.pos <= file.length,
         pc' # "crashed", At' # "page_read"
  PROVE  Sound'
<1> SUFFICES ASSUME ~ stale, ~ removed PROVE Laid' /\ Placed' /\ Within'
  BY Zenon DEF Sound
<1>1. Laid /\ Placed
  BY Zenon DEF Sound
<1>2. Laid'
  BY <1>1, LaidStays
<1>3. Placed'
  <2>1. Writes' => FullBehind(chunks, file.page, file.n, file.pos)
    <3>1. CASE Writes
      BY <1>1, <3>1, Zenon DEF Placed
    <3>2. CASE file.pos <= file.length
      <4>1. Enough(chunks, file.length, file.page, file.n)
        BY <1>1, Zenon DEF Laid
      <4>2. file.length \in Nat /\ file.pos \in Nat
        BY FileSorts
      <4> QED BY <3>2, <4>1, <4>2, EnoughFull
    <3> QED BY <3>1, <3>2
  <2> QED BY <2>1, Zenon DEF Placed
<1>4. Within'
  BY Zenon DEF Within
<1> QED BY <1>2, <1>3, <1>4

LEMMA ReadSound ==
  ASSUME Typed, Control, Sound, NEW len \in ReadLengths, Read(len) PROVE Sound'
<1>1. /\ pc = "idle" /\ pc' = "readv" /\ file' = file /\ chunks' = chunks /\ stored' = stored
      /\ stale' = stale /\ removed' = removed
  BY Zenon DEF Read, Start, Usable, server, history
<1>2. Typed'
  BY ReadKeeps
<1>3. At = "idle" /\ At' = "readv" /\ ~ Writes'
  BY <1>1 DEF At, Writes
<1> QED BY <1>1, <1>2, <1>3, SoundStays

LEMMA WriteSound ==
  ASSUME Typed, Control, Sound, NEW len \in WriteLengths, Write(len) PROVE Sound'
<1>1. /\ pc = "idle" /\ pc' = "writev" /\ file' = file /\ chunks' = chunks /\ stored' = stored
      /\ stale' = stale /\ removed' = removed
  BY Zenon DEF Write, Start, Usable, server, history
<1>2. Typed'
  BY WriteKeeps
<1>3. At = "idle" /\ At' = "writev" /\ ~ Writes'
  BY <1>1 DEF At, Writes
<1> QED BY <1>1, <1>2, <1>3, SoundStays

LEMMA RemoveSound == ASSUME Typed, Control, Sound, Remove PROVE Sound'
<1>1. /\ pc = "idle" /\ pc' = "remove_file" /\ file' = file /\ chunks' = chunks
      /\ stored' = stored /\ stale' = stale /\ removed' = removed
  BY Zenon DEF Remove, Start, server, history
<1>2. Typed'
  BY RemoveKeeps
<1>3. At = "idle" /\ At' = "remove_file" /\ ~ Writes'
  BY <1>1 DEF At, Writes
<1> QED BY <1>1, <1>2, <1>3, SoundStays

LEMMA ReturnSound == ASSUME Typed, Control, Sound, Return PROVE Sound'
<1>1. /\ pc = "return" /\ pc' = "idle" /\ file' = file /\ chunks' = chunks
      /\ stored' = stored /\ stale' = stale /\ removed' = removed
  BY Zenon DEF Return, server, history
<1>2. Typed'
  BY ReturnKeeps
<1>3. At = "return" /\ At' = "idle" /\ ~ Writes'
  BY <1>1 DEF At, Writes
<1> QED BY <1>1, <1>2, <1>3, SoundStays

LEMMA SeekSound ==
  ASSUME Typed, Control, Sound, NEW whence, NEW delta, Seek(whence, delta) PROVE Sound'
<1>1. /\ pc = "idle" /\ pc' \in {"return", "seek"} /\ file' = file /\ chunks' = chunks
      /\ stored' = stored /\ stale' = stale /\ removed' = removed
  BY Zenon DEF Seek, Usable, server, history
<1>2. Typed'
  BY SeekKeeps
<1>3. At = "idle" /\ At' \in {"return", "seek"} /\ ~ Writes'
  BY <1>1 DEF At, Writes
<1> QED BY <1>1, <1>2, <1>3, SoundStays

LEMMA SaveSound == ASSUME Typed, Control, Sound, Save PROVE Sound'
<1>1. /\ pc = "idle" /\ pc' \in {"return", "flush", "save_file"} /\ file' = file
      /\ chunks' = chunks /\ stored' = stored /\ stale' = stale /\ removed' = removed
      /\ call' = [NoCall EXCEPT !.op = "save", !.start = file.pos, !.back = "save_file"]
  BY Zenon DEF Save, Usable, server, history
<1>2. Typed'
  BY SaveKeeps
<1>3. call'.back = "save_file"
  BY <1>1, FileSorts, SavingStarted
<1>4. At = "idle" /\ At' \in {"return", "save_file"} /\ ~ Writes'
  BY <1>1, <1>3 DEF At, Writes
<1> QED BY <1>1, <1>2, <1>4, SoundStays

LEMMA WritevSound == ASSUME Typed, Control, Sound, Writev PROVE Sound'
<1>1. /\ pc = "writev" /\ file' = file /\ chunks' = chunks /\ stored' = stored
      /\ stale' = stale /\ removed' = removed
      /\ pc' = "seek" \/ (pc' = "put" /\ ~ PastEnd)
  BY Zenon DEF Writev, server, history
<1>2. Typed'
  BY WritevKeeps
<1>3. At = "writev" /\ At' \in {"seek", "put"} /\ (Writes' => pc' = "put")
  BY <1>1 DEF At, Writes
<1>4. ~ PastEnd => file.pos <= file.length
  BY FileSorts DEF PastEnd
<1> QED BY <1>1, <1>2, <1>3, <1>4, SoundStays

LEMMA NeedPageSound == ASSUME Typed, Control, Sound, NeedPage PROVE Sound'
<1>1. /\ pc \in {"writev", "put", "fill"} /\ pc' = "refresh" /\ file' = file
      /\ chunks' = chunks /\ stored' = stored /\ stale' = stale /\ removed' = removed
      /\ call' = [call EXCEPT !.back = pc]
  BY Zenon DEF NeedPage, GoVia, server, history
<1>2. Typed'
  BY NeedPageKeeps
<1>3. call'.back = pc
  <2>1. pc \in Backs
    BY <1>1 DEF Backs
  <2> QED BY <1>1, <2>1, CallSorts, CallBack
<1>4. At = pc /\ At' = pc /\ (Writes' => Writes)
  BY <1>1, <1>3 DEF At, Writes
<1> QED BY <1>1, <1>2, <1>4, SoundStays

LEMMA ReadvSound == ASSUME Typed, Control, Sound, Readv PROVE Sound'
<1> SUFFICES ASSUME ~ stale, ~ removed PROVE Laid' /\ Placed' /\ Within'
  <2>1. stale' = stale /\ removed' = removed
    BY Zenon DEF Readv, history
  <2> QED BY <2>1, Zenon DEF Sound
<1>1. /\ pc = "readv" /\ file' = file /\ chunks' = chunks /\ stored' = stored
      /\ \/ pc' = "return"
         \/ /\ pc' = "refresh" /\ file.page = NoPage /\ ~ (file.pos >= file.length)
            /\ call' = [call EXCEPT !.back = "page_read"]
         \/ pc' = "page_read" /\ file.page # NoPage /\ ~ (file.pos >= file.length)
  BY Zenon DEF Readv, End, GoVia, Go, server
<1>2. Typed'
  BY ReadvKeeps
<1>3. call' = [call EXCEPT !.back = "page_read"] => call'.back = "page_read"
  BY CallSorts, CallBack DEF Backs
<1>4. At = "readv" /\ At' \in {"return", "page_read"} /\ ~ Writes'
  BY <1>1, <1>3 DEF At, Writes
<1>5. ~ (file.pos >= file.length) => file.pos < file.length
  BY FileSorts
<1>6. Laid
  BY Zenon DEF Sound
<1>7. Laid'
  BY <1>1, <1>2, <1>4, <1>6, LaidStays
<1>8. Placed'
  BY <1>4, Zenon DEF Placed
<1>9. Within'
  <2>1. CASE pc' = "return"
    BY <2>1 DEF Within, At
  <2>2. CASE pc' = "refresh"
    BY <1>1, <1>5, <2>2 DEF Within
  <2>3. CASE pc' = "page_read"
    <3>1. file.page # NoPage /\ file.page.offset <= Len(file.page.data)
      BY <1>1, <1>5, <1>6, <2>3, PageReaches
    <3> QED BY <1>1, <2>3, <3>1 DEF Within
  <2> QED BY <1>1, <2>1, <2>2, <2>3
<1> QED BY <1>7, <1>8, <1>9

(* In front of a written page every chunk is full. *)
LEMMA WrittenBehind ==
  ASSUME Typed, Laid, file.page.written
  PROVE  FullBehind(chunks, file.page, file.n, file.pos)
<1> SUFFICES ASSUME NEW k \in Nat, Begin(k) + ChunkSize <= file.pos,
                    ~ Held(file.page, file.n, k)
             PROVE  HasFull(chunks, k)
  BY Zenon DEF FullBehind
<1>1. file.page # NoPage /\ file.n \in Nat /\ Begin(file.n) \in Nat /\ file.pos \in Nat
      /\ file.pos = Begin(file.n) + file.page.offset /\ file.page.offset \in Nat
      /\ file.page.offset <= ChunkSize
  BY FileSorts
<1>2. k # file.n
  BY Zenon DEF Held
<1>3. Begin(k) \in Nat /\ (file.n < k => Begin(file.n) + ChunkSize <= Begin(k))
  BY <1>1, BeginNext, BeginOrder
<1>4. k < file.n
  BY <1>1, <1>2, <1>3, Sizes
<1>5. \A j \in Nat : j < file.n => HasFull(chunks, j)
  BY <1>1, Zenon DEF Laid, PageSound
<1> QED BY <1>4, <1>5

LEMMA FlushBeforeSeekSound == ASSUME Typed, Control, Sound, FlushBeforeSeek PROVE Sound'
<1> SUFFICES ASSUME ~ stale, ~ removed PROVE Laid' /\ Placed' /\ Within'
  <2>1. stale' = stale /\ removed' = removed
    BY Zenon DEF FlushBeforeSeek, history
  <2> QED BY <2>1, Zenon DEF Sound
<1>1. /\ pc = "seek" /\ file' = file /\ chunks' = chunks /\ stored' = stored
      /\ file.page.written /\ pc' = "flush" /\ call' = [call EXCEPT !.back = "seek"]
  BY Zenon DEF FlushBeforeSeek, GoVia, server
<1>2. Typed'
  BY FlushBeforeSeekKeeps
<1>3. call'.back = "seek"
  BY <1>1, CallSorts, CallBack DEF Backs
<1>4. At = "seek" /\ At' = "seek"
  BY <1>1, <1>3 DEF At
<1>5. Laid
  BY Zenon DEF Sound
<1>6. Laid'
  BY <1>1, <1>2, <1>4, <1>5, LaidStays
<1>7. Placed'
  <2>1. FullBehind(chunks, file.page, file.n, file.pos)
    BY <1>1, <1>5, WrittenBehind
  <2> QED BY <1>1, <2>1, Zenon DEF Placed
<1>8. Within'
  BY <1>1, <1>4 DEF Within
<1> QED BY <1>6, <1>7, <1>8

LEMMA ReadBehindPageSound == ASSUME Typed, Control, Sound, ReadBehindPage PROVE Sound'
<1> SUFFICES ASSUME ~ stale, ~ removed PROVE FALSE
  <2>1. stale' = stale /\ removed' = removed
    BY Zenon DEF ReadBehindPage, history
  <2> QED BY <2>1, Zenon DEF Sound
<1>1. pc = "page_read" /\ file.page.offset > Len(file.page.data)
  BY Zenon DEF ReadBehindPage
<1>2. file.page # NoPage
  BY <1>1 DEF Control, Paging
<1>3. At = "page_read" /\ Within
  BY <1>1, Zenon DEF At, Sound
<1>4. file.page.offset <= Len(file.page.data)
  BY <1>2, <1>3, Zenon DEF Within
<1> QED BY <1>1, <1>2, <1>4, FileSorts

LEMMA PageReadSound == ASSUME Typed, Control, Sound, PageRead PROVE Sound'
<1> SUFFICES ASSUME ~ stale, ~ removed PROVE Laid' /\ Placed' /\ Within'
  <2>1. stale' = stale /\ removed' = removed
    BY Zenon DEF PageRead, history
  <2> QED BY <2>1, Zenon DEF Sound
<1>1. PICK r \in Nat :
        /\ r <= Room - call.part /\ file.page.offset + r <= Len(file.page.data)
        /\ r = Room - call.part \/ file.page.offset + r = Len(file.page.data)
        /\ pc = "page_read" /\ chunks' = chunks /\ stored' = stored
        /\ file'.length = file.length /\ file'.pos = file.pos + r
        /\ file'.n = file.n
        /\ file'.page # NoPage /\ file.page # NoPage
        /\ file'.page.data = file.page.data /\ file'.page.written = file.page.written
        /\ file'.page.offset = file.page.offset + r
        /\ call'.back = "page_read"
        /\ \/ pc' = "readv"
           \/ call.part + r # Room /\ file.pos + r # file.length /\ pc' = "refresh"
  BY PageReadSteps, Zenon DEF server
<1>2. /\ Enough(chunks, file.length, file.page, file.n)
      /\ stored # None => Covered(chunks, stored)
      /\ PageSound(chunks, file.length, file.page, file.n, Bound)
  BY Zenon DEF Sound, Laid
<1>3. /\ file.length \in Nat /\ file.pos \in Nat /\ file.n \in Nat
      /\ file.page.offset \in Nat /\ file.page.offset <= ChunkSize
      /\ Len(file.page.data) \in Nat /\ Len(file.page.data) <= ChunkSize
  BY <1>1, FileSorts
<1>4. At = "page_read" /\ At' \in {"readv", "page_read"} /\ ~ Writes'
  BY <1>1 DEF At, Writes
<1>5. Bound = file.length /\ Bound' = file.length
  BY <1>1, <1>4 DEF Bound
<1>6. PageSound(chunks, file.length, file'.page, file.n, file.length)
  <2>1. file'.page.offset = ChunkSize => Len(file.page.data) = ChunkSize
    BY <1>1, <1>3, Sizes
  <2> QED BY <1>1, <1>2, <1>5, <2>1, Zenon DEF PageSound
<1>7. Enough(chunks, file.length, file'.page, file.n)
  BY <1>1, <1>2, Zenon DEF Enough, Held
<1>8. Laid'
  BY <1>1, <1>2, <1>5, <1>6, <1>7, Zenon DEF Laid
<1>9. Placed'
  BY <1>4, Zenon DEF Placed
<1>10. Within'
  <2>1. file'.page.offset <= Len(file'.page.data)
    BY <1>1
  <2>2. pc' = "refresh" => file'.page.offset = Len(file'.page.data) /\ file'.pos # file'.length
    <3>1. call.part \in Nat /\ Room \in Int
      BY CallSorts, Sizes DEF Room, Lesser
    <3>2. pc' = "refresh" => call.part + r # Room /\ file.pos + r # file.length
      BY <1>1
    <3>3. call.part + r # Room => r # Room - call.part
      BY <3>1, <1>1
    <3> QED BY <1>1, <3>2, <3>3
  <2> QED BY <1>1, <2>1, <2>2 DEF Within
<1> QED BY <1>8, <1>9, <1>10

(* A page that is moved within itself, or dropped unwritten. *)
LEMMA SeekPageSound == ASSUME Typed, Control, Sound, SeekPage PROVE Sound'
<1> SUFFICES ASSUME ~ stale, ~ removed PROVE Laid' /\ Placed' /\ Within'
  <2>1. stale' = stale /\ removed' = removed
    BY Zenon DEF SeekPage, history
  <2> QED BY <2>1, Zenon DEF Sound
<1>1. /\ pc = "seek" /\ (SamePage \/ ~ file.page.written)
      /\ file' = Sought /\ chunks' = chunks /\ stored' = stored
      /\ (call.op = "write" /\ pc' = "fill") \/ pc' = "return"
      /\ call.target \in 0 .. MaxLength
  BY SeekPageSteps, Zenon DEF server
<1>2. /\ file'.length = file.length /\ file'.pos = call.target
      /\ \/ file'.page = NoPage /\ ~ file.page.written
         \/ /\ file.page # NoPage /\ file'.page # NoPage /\ file'.n = file.n
            /\ file'.page.data = file.page.data
            /\ file'.page.written = file.page.written
            /\ file'.page.offset < ChunkSize
  BY <1>1, SoughtIs
<1>3. /\ Enough(chunks, file.length, file.page, file.n)
      /\ stored # None => Covered(chunks, stored)
      /\ PageSound(chunks, file.length, file.page, file.n, Bound)
  BY Zenon DEF Sound, Laid
<1>4. At = "seek" /\ At' \in {"fill", "return"} /\ (Writes' => call.op = "write" /\ pc' = "fill")
  BY <1>1 DEF At, Writes
<1>5. Writes' => file'.pos = file.length
  BY <1>2, <1>4 DEF Control, Gap
<1>6. Bound = file.length /\ Bound' = file.length
  <2>1. At' = "fill" => Greater(file'.length, file'.pos) = file.length
    <3>1. At' = "fill" => Writes'
      BY DEF Writes
    <3> QED BY <1>2, <1>5, <3>1, FileSorts DEF Greater
  <2>2. At \notin {"put", "fill"} /\ At' # "put"
    BY <1>4
  <2>3. Bound' = IF At' \in {"put", "fill"} THEN Greater(file'.length, file'.pos) ELSE file'.length
    BY Zenon DEF Bound
  <2> QED BY <1>2, <1>4, <2>1, <2>2, <2>3 DEF Bound
<1>7. Enough(chunks, file.length, file'.page, file'.n)
  <2>1. CASE file'.page = NoPage /\ ~ file.page.written
    <3>1. ~ file'.page.written
      BY <2>1, NoPageIs, Zenon
    <3> QED BY <1>3, <2>1, <3>1, FileSorts, EnoughIsCovered
  <2>2. CASE file'.n = file.n /\ file'.page.written = file.page.written
    BY <1>3, <2>2, Zenon DEF Enough, Held
  <2> QED BY <1>2, <2>1, <2>2, Zenon
<1>8. PageSound(chunks, file.length, file'.page, file'.n, file.length)
  <2>1. CASE file'.page = NoPage
    BY <2>1 DEF PageSound
  <2>2. CASE file'.page # NoPage
    <3>1. /\ file.page # NoPage /\ file'.n = file.n /\ file'.page.data = file.page.data
          /\ file'.page.written = file.page.written /\ file'.page.offset < ChunkSize
      BY <1>2, <2>2, Zenon
    <3>2. file'.page.offset # ChunkSize
      <4>1. ChunkSize \in Int /\ ~ (ChunkSize < ChunkSize)
        BY Sizes
      <4> QED BY <3>1, <4>1, Zenon
    <3> QED BY <1>3, <1>6, <3>1, <3>2, Zenon DEF PageSound
  <2> QED BY <2>1, <2>2
<1>9. Laid'
  BY <1>1, <1>2, <1>3, <1>6, <1>7, <1>8, Zenon DEF Laid
<1>10. Placed'
  <2>1. Writes' => FullBehind(chunks, file'.page, file'.n, file'.pos)
    BY <1>5, <1>7, FileSorts, EnoughFull
  <2> QED BY <1>1, <2>1, Zenon DEF Placed
<1>11. Within'
  BY <1>1, <1>4 DEF Within
<1> QED BY <1>9, <1>10, <1>11

(* A call that fails goes on with the write at the most. *)
LEMMA FailSound ==
  ASSUME Typed, Control, Fail, Typed',
         pc \in {"next", "flush", "inner_save", "save_file", "remove_file", "remove_chunks"},
         file'.page = file.page, file'.n = file.n, file'.length = file.length,
         file'.pos = file.pos,
         stored' # None => Covered(chunks', stored'),
         Enough(chunks', file.length, file.page, file.n),
         PageSound(chunks', file.length, file.page, file.n, Bound),
         Writes => FullBehind(chunks', file.page, file.n, file.pos)
  PROVE  Laid' /\ Placed' /\ Within'
<1>1. \/ call.goal = None /\ pc' = "return"
      \/ call.goal # None /\ pc' = "put"
  BY FailIs
<1>2. At' = pc' /\ pc' # "crashed" /\ At' # "page_read"
  BY <1>1 DEF At
<1>3. /\ Bound \in Nat /\ file.length <= Bound
      /\ At \in {"put", "fill"} => file.pos <= Bound
      /\ At \notin {"put", "fill"} => Bound = file.length
      /\ file.pos <= file.length => Bound = file.length
  BY BoundIs
<1>4. file.length \in Nat /\ file.pos \in Nat /\ file.n \in Nat
      /\ file.page \in PageType \cup {NoPage}
  BY FileSorts
<1>5. PageSound(chunks', file.length, file.page, file.n, Bound')
  <2>1. CASE file.page = NoPage
    BY <2>1 DEF PageSound
  <2>2. CASE file.page # NoPage /\ call.goal = None
    <3>1. At # "fill"
      BY <2>2 DEF Control, Gap
    <3>2. pc # "next" /\ pc # "inner_save"
      BY <2>2 DEF Control, Paging
    <3>3. At = "put" => file.pos <= file.length
      BY <3>2 DEF Control, Paging, At
    <3>4. Bound = file.length
      BY <1>3, <3>1, <3>3
    <3>5. Bound' = file.length
      BY <1>1, <1>2, <2>2 DEF Bound
    <3> QED BY <3>4, <3>5
  <2>3. CASE call.goal # None
    <3>1. Bound' = Greater(file.length, file.pos)
      BY <1>1, <1>2, <2>3 DEF Bound
    <3>2. Bound = file.length \/ Bound = Greater(file.length, file.pos)
      BY DEF Bound
    <3>3. Bound' \in Nat /\ Bound <= Bound'
      BY <1>4, <3>1, <3>2 DEF Greater
    <3> QED BY <1>3, <1>4, <3>3, PageSoundLater
  <2> QED BY <2>1, <2>2, <2>3
<1>6. Laid'
  BY <1>5, Zenon DEF Laid
<1>7. Placed'
  <2>1. Writes' => call.goal # None
    BY <1>1, <1>2 DEF Writes
  <2>2. call.goal # None => Writes
    <3>1. call.goal # None => At \in {"seek", "fill"} /\ call.op = "write"
      BY DEF Control, Gap
    <3>2. At = "seek" => pc \in {"flush", "inner_save"}
      BY DEF Control, Course, At
    <3> QED BY <3>1, <3>2 DEF Writes
  <2>3. Writes' => FullBehind(chunks', file'.page, file'.n, file'.pos)
    BY <2>1, <2>2
  <2> QED BY <2>3, Zenon DEF Placed
<1>8. Within'
  BY <1>2, Zenon DEF Within
<1> QED BY <1>6, <1>7, <1>8

(* Steps that change no more of the file than its cursor, and nothing of the call. *)
LEMMA AlikeSound ==
  ASSUME Sound, file'.page = file.page, file'.n = file.n, file'.length = file.length,
         file'.pos = file.pos, chunks' = chunks, stored' = stored, pc' = pc, call' = call,
         stale' = stale, removed' = removed
  PROVE  Sound'
<1>1. At' = At
  BY DEF At
<1>2. Bound' = Bound
  BY <1>1 DEF Bound
<1>3. Laid => Laid'
  BY <1>2, Zenon DEF Laid
<1>4. Writes' = Writes
  BY <1>1 DEF Writes
<1>5. Placed => Placed'
  BY <1>4, Zenon DEF Placed
<1>6. Within => Within'
  BY <1>1 DEF Within
<1> QED BY <1>3, <1>5, <1>6, Zenon DEF Sound

LEMMA FetchSound == ASSUME Typed, Control, Sound, Fetch PROVE Sound'
<1>1. PICK c \in CursorType : file' = WithCursor(c)
  BY FetchIs, Zenon
<1>2. /\ chunks' = chunks /\ stored' = stored /\ pc' = pc /\ call' = call
      /\ stale' = stale /\ removed' = removed
  BY FetchIs, Zenon DEF server, history
<1>3. /\ file'.page = file.page /\ file'.n = file.n /\ file'.length = file.length
      /\ file'.pos = file.pos
  BY <1>1, WithCursorIs
<1> QED BY <1>2, <1>3, AlikeSound

LEMMA NoChunkSound == ASSUME Typed, Control, Sound, NoChunk PROVE Sound'
<1> SUFFICES ASSUME ~ stale, ~ removed PROVE Laid' /\ Placed' /\ Within'
  <2>1. stale' = stale /\ removed' = removed
    BY NoChunkSteps
  <2> QED BY <2>1, Zenon DEF Sound
<1>1. PICK c \in {file.cursor, NoCursor} : file' = WithCursor(c)
  BY NoChunkSteps, Zenon
<1>2. pc = "next" /\ Fail /\ chunks' = chunks /\ stored' = stored
  BY NoChunkSteps, Zenon DEF server
<1>3. Typed'
  BY NoChunkKeeps
<1>4. /\ file'.page = file.page /\ file'.n = file.n /\ file'.length = file.length
      /\ file'.pos = file.pos
  BY <1>1, CursorsFit, WithCursorIs
<1>5. Laid /\ Placed
  BY Zenon DEF Sound
<1>6. /\ stored' # None => Covered(chunks', stored')
      /\ Enough(chunks', file.length, file.page, file.n)
      /\ PageSound(chunks', file.length, file.page, file.n, Bound)
      /\ Writes => FullBehind(chunks', file.page, file.n, file.pos)
  BY <1>2, <1>5, Zenon DEF Laid, Placed
<1> QED BY <1>2, <1>3, <1>4, <1>6, FailSound

(* The page that is stored is enough for the chunk it replaces. *)
LEMMA FlushedLaid ==
  ASSUME Typed, Control, Laid, pc = "flush"
  PROVE  /\ stored # None => Covered(AfterUpdate, stored)
         /\ Covered(AfterUpdate, file.length)
         /\ Enough(AfterUpdate, file.length, file.page, file.n)
         /\ PageSound(AfterUpdate, file.length, file.page, file.n, Bound)
<1>1. file.page.written /\ file.page # NoPage /\ file.n \in 0 .. MaxLength
  <2>1. file.page.written
    BY DEF Control, Paging
  <2> QED BY <2>1, FileSorts, WrittenBound
<1>2. /\ stored # None => Covered(chunks, stored)
      /\ Enough(chunks, file.length, file.page, file.n)
      /\ PageSound(chunks, file.length, file.page, file.n, Bound)
  BY Zenon DEF Laid
<1>3. /\ file.length \in Nat /\ file.n \in Nat /\ Len(file.page.data) \in Nat
      /\ Len(file.page.data) >= SizeOf(file.n, file.length)
  BY <1>1, <1>2, FileSorts, Zenon DEF PageSound
<1>4. stored # None => Covered(AfterUpdate, stored)
  <2> SUFFICES ASSUME stored # None PROVE Covered(AfterUpdate, stored)
    OBVIOUS
  <2>1. stored \in Nat /\ stored <= file.length
    BY DEF Typed, Control, Paging
  <2>2. SizeOf(file.n, stored) <= SizeOf(file.n, file.length)
    BY <1>3, <2>1, SizeGrows
  <2>3. SizeOf(file.n, stored) \in Int /\ SizeOf(file.n, file.length) \in Int
    <3>1. SizeOf(file.n, stored) \in 0 .. ChunkSize
      BY <1>3, <2>1, SizeIs
    <3>2. SizeOf(file.n, file.length) \in 0 .. ChunkSize
      BY <1>3, SizeIs
    <3> QED BY <3>1, <3>2
  <2>4. Len(file.page.data) >= SizeOf(file.n, stored)
    BY <1>3, <2>2, <2>3
  <2> QED BY <1>1, <1>2, <2>1, <2>4, FlushedCovers
<1>5. Covered(AfterUpdate, file.length)
  BY <1>1, <1>2, <1>3, FlushedCovers
<1>6. Enough(AfterUpdate, file.length, file.page, file.n)
  <2>1. \A k \in Nat : Begin(k) < file.length =>
          k \in DOMAIN AfterUpdate /\ Len(AfterUpdate[k]) >= SizeOf(k, file.length)
    BY <1>3, <1>5, CoveredIs
  <2> QED BY <2>1, Zenon DEF Enough
<1>7. PageSound(AfterUpdate, file.length, file.page, file.n, Bound)
  <2>1. /\ DOMAIN AfterUpdate = DOMAIN chunks \cup {file.n}
        /\ AfterUpdate[file.n] = file.page.data
        /\ \A k \in DOMAIN chunks : k # file.n => AfterUpdate[k] = chunks[k]
    BY <1>1, AfterUpdateIs
  <2>2. \A k \in Nat : k < file.n => HasFull(AfterUpdate, k)
    <3> SUFFICES ASSUME NEW k \in Nat, k < file.n PROVE HasFull(AfterUpdate, k)
      OBVIOUS
    <3>1. HasFull(chunks, k)
      BY <1>1, <1>2, Zenon DEF PageSound
    <3>2. k # file.n
      BY <1>3
    <3> QED BY <2>1, <3>1, <3>2, Zenon DEF HasFull
  <2>3. file.n \in DOMAIN AfterUpdate /\ Len(AfterUpdate[file.n]) >= Len(file.page.data)
    BY <1>3, <2>1
  <2> QED BY <1>1, <1>2, <2>2, <2>3, Zenon DEF PageSound
<1> QED BY <1>4, <1>5, <1>6, <1>7

LEMMA FlushedFull ==
  ASSUME Typed, Control, Laid, pc = "flush", FullBehind(chunks, file.page, file.n, file.pos)
  PROVE  \A pg : FullBehind(AfterUpdate, pg, file.n, file.pos)
<1>1. file.page.written /\ file.page # NoPage /\ file.n \in 0 .. MaxLength
  <2>1. file.page.written
    BY DEF Control, Paging
  <2> QED BY <2>1, FileSorts, WrittenBound
<1>2. /\ DOMAIN AfterUpdate = DOMAIN chunks \cup {file.n}
      /\ AfterUpdate[file.n] = file.page.data
      /\ \A k \in DOMAIN chunks : k # file.n => AfterUpdate[k] = chunks[k]
  BY <1>1, AfterUpdateIs
<1>3. ASSUME NEW k \in Nat, Begin(k) + ChunkSize <= file.pos PROVE HasFull(AfterUpdate, k)
  <2>1. CASE k = file.n
    <3>1. file.page.offset = ChunkSize
      BY <1>1, <1>3, <2>1, FileSorts, Sizes
    <3>2. Len(file.page.data) = ChunkSize
      BY <1>1, <3>1, Zenon DEF Laid, PageSound
    <3> QED BY <1>2, <2>1, <3>2, Sizes DEF HasFull
  <2>2. CASE k # file.n
    <3>1. HasFull(chunks, k)
      BY <1>3, <2>2, Zenon DEF FullBehind, Held
    <3> QED BY <1>2, <2>2, <3>1, Zenon DEF HasFull
  <2> QED BY <2>1, <2>2
<1> QED BY <1>3, Zenon DEF FullBehind

LEMMA UpdateChunkSound == ASSUME Typed, Control, Sound, UpdateChunk PROVE Sound'
<1> SUFFICES ASSUME ~ stale, ~ removed PROVE Laid' /\ Placed' /\ Within'
  <2>1. stale' = stale /\ removed' = removed
    BY Zenon DEF UpdateChunk, history
  <2> QED BY <2>1, Zenon DEF Sound
<1>1. /\ pc = "flush" /\ chunks' = AfterUpdate /\ file' = [file EXCEPT !.page = NoPage]
      /\ pc' = "inner_save" /\ call' = call /\ stored' = stored
  BY Zenon DEF UpdateChunk, Go
<1>2. /\ file'.page = NoPage /\ file'.n = file.n /\ file'.length = file.length
      /\ file'.pos = file.pos
  BY <1>1, Unpaged
<1>3. At' = At /\ At # "page_read" /\ (Writes' => Writes)
  BY <1>1 DEF At, Writes, Control, Course
<1>4. Laid /\ Placed
  BY Zenon DEF Sound
<1>5. Laid'
  <2>1. /\ stored # None => Covered(AfterUpdate, stored)
        /\ Covered(AfterUpdate, file.length)
    BY <1>1, <1>4, FlushedLaid
  <2>2. Enough(AfterUpdate, file.length, NoPage, file.n)
    <3>1. ~ NoPage.written /\ file.length \in Nat
      BY NoPageIs, FileSorts
    <3> QED BY <2>1, <3>1, EnoughIsCovered
  <2>3. PageSound(AfterUpdate, file.length, NoPage, file.n, Bound')
    BY Zenon DEF PageSound
  <2> QED BY <1>1, <1>2, <2>1, <2>2, <2>3, Zenon DEF Laid
<1>6. Placed'
  <2>1. Writes' => FullBehind(AfterUpdate, NoPage, file.n, file.pos)
    <3>1. Writes => FullBehind(chunks, file.page, file.n, file.pos)
      BY <1>4, Zenon DEF Placed
    <3> QED BY <1>1, <1>3, <1>4, <3>1, FlushedFull
  <2> QED BY <1>1, <1>2, <2>1, Zenon DEF Placed
<1>7. Within'
  BY <1>1, <1>3 DEF Within
<1> QED BY <1>5, <1>6, <1>7

LEMMA InnerSaveCleanSound == ASSUME Typed, Control, Sound, InnerSaveClean PROVE Sound'
<1>1. /\ pc = "inner_save" /\ pc' = call.back /\ call' = call /\ file' = file
      /\ chunks' = chunks /\ stored' = stored /\ stale' = stale /\ removed' = removed
  BY Zenon DEF InnerSaveClean, Go, server, history
<1>2. Typed'
  BY InnerSaveCleanKeeps
<1>3. call.back \in {"put", "fill", "seek", "save_file"}
  BY <1>1 DEF Control, Course
<1>4. At = call.back /\ At' = call.back /\ (Writes' => Writes)
  BY <1>1, <1>3 DEF At, Writes
<1> QED BY <1>1, <1>2, <1>3, <1>4, SoundStays

LEMMA UpdateFileSound == ASSUME Typed, Control, Sound, UpdateFile PROVE Sound'
<1> SUFFICES ASSUME ~ stale, ~ removed PROVE Laid' /\ Placed' /\ Within'
  <2>1. stale' = stale /\ removed' = removed
    BY Zenon DEF UpdateFile
  <2> QED BY <2>1, Zenon DEF Sound
<1>1. /\ stored' = file.length /\ file' = [file EXCEPT !.dirty = FALSE]
      /\ chunks' = chunks /\ call' = call
      /\ \/ pc = "save_file" /\ pc' = "return"
         \/ pc = "inner_save" /\ pc' = call.back
  BY Zenon DEF UpdateFile, MustUpdateFile, Go, End
<1>2. /\ file'.page = file.page /\ file'.length = file.length
      /\ file'.pos = file.pos /\ file'.n = file.n
  BY <1>1, Cleaned
<1>3. /\ pc = "inner_save" => /\ call.back \in {"put", "fill", "seek", "save_file"}
                              /\ file.page = NoPage
      /\ pc = "save_file" => ~ file.page.written
  BY <1>1 DEF Control, Course, Paging
<1>4. /\ Enough(chunks, file.length, file.page, file.n)
      /\ PageSound(chunks, file.length, file.page, file.n, Bound)
      /\ Placed
  BY Zenon DEF Sound, Laid
<1>5. At' # "page_read" /\ pc' # "crashed" /\ (Writes' => Writes)
  BY <1>1, <1>3 DEF At, Writes
<1>6. Covered(chunks, file.length)
  <2>1. ~ file.page.written
    BY <1>1, <1>3, NoPageIs
  <2> QED BY <1>4, <2>1, FileSorts, EnoughIsCovered
<1>7. PageSound(chunks, file.length, file.page, file.n, Bound')
  <2>1. CASE file.page = NoPage
    BY <2>1 DEF PageSound
  <2>2. CASE pc = "save_file"
    <3>1. Bound = file.length /\ Bound' = file.length
      BY <1>1, <1>2, <2>2 DEF Bound, At
    <3> QED BY <1>4, <3>1
  <2> QED BY <1>1, <1>3, <2>1, <2>2
<1>8. Laid'
  BY <1>1, <1>2, <1>4, <1>6, <1>7, Zenon DEF Laid
<1>9. Placed'
  BY <1>1, <1>2, <1>4, <1>5, Zenon DEF Placed
<1>10. Within'
  BY <1>5, Zenon DEF Within
<1> QED BY <1>8, <1>9, <1>10

LEMMA RemoveFileSound == ASSUME Typed, Control, Sound, RemoveFile PROVE Sound'
<1> SUFFICES ASSUME ~ stale, ~ removed PROVE Laid' /\ Placed' /\ Within'
  <2>1. stale' = stale /\ removed' = removed
    BY Zenon DEF RemoveFile, history
  <2> QED BY <2>1, Zenon DEF Sound
<1>1. /\ pc = "remove_file" /\ pc' = "remove_chunks" /\ stored' = None /\ file' = file
      /\ chunks' = chunks
  BY Zenon DEF RemoveFile, Go
<1>2. At = "remove_file" /\ At' = "remove_chunks" /\ ~ Writes'
  BY <1>1 DEF At, Writes
<1>3. Bound' = Bound
  BY <1>1, <1>2 DEF Bound
<1>4. Laid'
  BY <1>1, <1>3, Zenon DEF Sound, Laid
<1> QED BY <1>1, <1>2, <1>4 DEF Placed, Within

LEMMA RemoveChunksSound == ASSUME Typed, Control, Sound, RemoveChunks PROVE Sound'
<1>1. removed'
  BY Zenon DEF RemoveChunks
<1> QED BY <1>1, Zenon DEF Sound

LEMMA ServerFailsSound == ASSUME Typed, Control, Sound, ServerFails PROVE Sound'
<1> SUFFICES ASSUME ~ stale, ~ removed' PROVE Laid' /\ Placed' /\ Within'
  <2>1. stale' = stale
    BY ServerFailsSteps
  <2> QED BY <2>1, Zenon DEF Sound
<1>1. Fail /\ removed' = removed /\ pc # "remove_chunks"
  BY ServerFailsSteps DEF MustFetch, MustUpdateFile
<1>2. Laid /\ Placed
  BY <1>1, Zenon DEF Sound
<1>3. /\ file'.page = file.page /\ file'.n = file.n
      /\ file'.length = file.length /\ file'.pos = file.pos
  <2>1. CASE MustFetch /\ file' = [file EXCEPT !.cursor.failed = TRUE]
    BY <2>1, MustFetchCursor, CursorFailed
  <2>2. CASE file' = file
    BY <2>2
  <2>3. CASE file' = [file EXCEPT !.dirty = FALSE]
    BY <2>3, Cleaned
  <2> QED BY <2>1, <2>2, <2>3, ServerFailsSteps, Zenon
<1>4. Typed'
  BY ServerFailsKeeps
<1>5. pc \in {"next", "flush", "inner_save", "save_file", "remove_file", "remove_chunks"}
  BY ServerFailsSteps DEF MustFetch, MustUpdateFile
<1>6. /\ stored # None => Covered(chunks, stored)
      /\ Enough(chunks, file.length, file.page, file.n)
      /\ PageSound(chunks, file.length, file.page, file.n, Bound)
      /\ Writes => FullBehind(chunks, file.page, file.n, file.pos)
  BY <1>2, Zenon DEF Laid, Placed
<1>7. CASE pc = "flush" /\ chunks' = AfterUpdate /\ stored' = stored
  <2>1. /\ stored # None => Covered(AfterUpdate, stored)
        /\ Enough(AfterUpdate, file.length, file.page, file.n)
        /\ PageSound(AfterUpdate, file.length, file.page, file.n, Bound)
    BY <1>2, <1>7, FlushedLaid
  <2>2. Writes => FullBehind(AfterUpdate, file.page, file.n, file.pos)
    BY <1>2, <1>6, <1>7, FlushedFull
  <2> QED BY <1>1, <1>3, <1>4, <1>5, <1>7, <2>1, <2>2, FailSound
<1>8. CASE chunks' = chunks /\ stored' \in {stored, None}
  BY <1>1, <1>3, <1>4, <1>5, <1>6, <1>8, FailSound
<1>9. CASE chunks' = chunks /\ stored' = file.length /\ MustUpdateFile
  <2>1. ~ file.page.written
    BY <1>9, NoPageIs DEF MustUpdateFile, Control, Paging
  <2>2. Covered(chunks, file.length)
    BY <1>6, <2>1, FileSorts, EnoughIsCovered
  <2> QED BY <1>1, <1>3, <1>4, <1>5, <1>6, <1>9, <2>2, FailSound
<1> QED BY <1>1, <1>7, <1>8, <1>9, ServerFailsSteps, Zenon

LEMMA ReopenSound == ASSUME Typed, Control, Sound, Reopen PROVE Sound'
<1>1. /\ stored # None /\ file' = FoundFile(stored) /\ pc' = "idle" /\ chunks' = chunks
      /\ stored' = stored /\ removed' = removed
      /\ stale' = (stale /\ ~ Whole(chunks, stored))
  BY Zenon DEF Reopen, server
<1>2. /\ stored \in Nat
  BY <1>1 DEF Typed
<1>3. /\ file'.length = stored /\ file'.page = NoPage
  BY <1>1, <1>2, FoundIs
<1>4. SUFFICES ASSUME ~ stale \/ Whole(chunks, stored), ~ removed PROVE Laid' /\ Placed' /\ Within'
  BY <1>1, Zenon DEF Sound
<1>5. Covered(chunks, stored)
  BY <1>1, <1>4, Zenon DEF Sound, Laid, Whole
<1>6. Enough(chunks, stored, NoPage, file'.n)
  BY <1>2, <1>5, NoPageIs, EnoughIsCovered
<1>7. PageSound(chunks, stored, NoPage, file'.n, Bound')
  BY Zenon DEF PageSound
<1>8. Laid'
  BY <1>1, <1>3, <1>5, <1>6, <1>7, Zenon DEF Laid
<1>9. At' = "idle" /\ ~ Writes'
  BY <1>1 DEF At, Writes
<1> QED BY <1>1, <1>8, <1>9 DEF Placed, Within

LEMMA InitSound == ASSUME Init PROVE Sound
<1>1. /\ pc = "idle" /\ file = IF stored = None THEN NewFile ELSE FoundFile(stored)
  BY Zenon DEF Init
<1>2. stored \in {None} \cup 0 .. MaxLength
  BY InitialChunks
<1>3. /\ file.page = NoPage /\ file.length = (IF stored = None THEN 0 ELSE stored)
  <2>1. CASE stored = None
    BY <1>1, <2>1, NewFileIs
  <2>2. CASE stored # None
    <3>1. stored \in Nat
      BY <1>2, <2>2
    <3>2. FoundFile(stored).page = NoPage /\ FoundFile(stored).length = stored
      BY <3>1, FoundIs
    <3> QED BY <1>1, <2>2, <3>2
  <2> QED BY <2>1, <2>2
<1>4. stored # None => Covered(chunks, stored)
  <2> SUFFICES ASSUME stored # None PROVE Covered(chunks, stored)
    OBVIOUS
  <2>1. stored \in Nat
    BY <1>2
  <2>2. \A k \in Nat : Begin(k) < stored =>
          k \in DOMAIN chunks /\ Len(chunks[k]) = SizeOf(k, stored)
    BY InitialChunks, Zenon
  <2>3. \A k \in Nat : Begin(k) < stored =>
          k \in DOMAIN chunks /\ Len(chunks[k]) >= SizeOf(k, stored)
    <3> SUFFICES ASSUME NEW k \in Nat, Begin(k) < stored
                 PROVE  k \in DOMAIN chunks /\ Len(chunks[k]) >= SizeOf(k, stored)
      OBVIOUS
    <3>1. SizeOf(k, stored) \in 0 .. ChunkSize
      BY <2>1, SizeIs
    <3> QED BY <2>2, <3>1
  <2> QED BY <2>1, <2>3, CoveredIs
<1>5. Enough(chunks, file.length, file.page, file.n)
  <2>1. CASE stored = None
    <3>1. \A k \in Nat : ~ (Begin(k) < 0)
      BY BeginNext
    <3> QED BY <1>3, <2>1, <3>1, Zenon DEF Enough
  <2>2. CASE stored # None
    BY <1>2, <1>3, <1>4, <2>2, NoPageIs, EnoughIsCovered
  <2> QED BY <2>1, <2>2
<1>6. PageSound(chunks, file.length, file.page, file.n, Bound)
  BY <1>3, Zenon DEF PageSound
<1>7. Laid
  BY <1>4, <1>5, <1>6, Zenon DEF Laid
<1>8. At = "idle" /\ ~ Writes
  BY <1>1 DEF At, Writes
<1> QED BY <1>1, <1>7, <1>8 DEF Sound, Placed, Within

(* A page that is read to its end and dropped: if it was written to, its chunk
   has as much. *)
LEMMA DroppedCovered ==
  ASSUME Typed, Control, Laid, Within, pc = "refresh"
  PROVE  /\ Covered(chunks, file.length)
         /\ file.page.written =>
              /\ At = "page_read" /\ file.n \in DOMAIN chunks
              /\ Len(chunks[file.n]) >= Len(file.page.data)
<1>1. Enough(chunks, file.length, file.page, file.n)
  BY Zenon DEF Laid
<1>2. CASE ~ file.page.written
  BY <1>1, <1>2, FileSorts, EnoughIsCovered
<1>3. CASE file.page.written
  <2>1. file.page # NoPage
    BY <1>3, FileSorts
  <2>2. At = "page_read"
    BY <2>1 DEF Control, Paging, At
  <2>3. file.page.offset = Len(file.page.data) /\ file.pos # file.length
    BY <2>1, <2>2, Zenon DEF Within
  <2>4. Bound = file.length
    BY <2>2 DEF Bound
  <2>5. /\ Len(file.page.data) >= SizeOf(file.n, file.length)
        /\ \/ file.n \in DOMAIN chunks /\ Len(chunks[file.n]) >= Len(file.page.data)
           \/ /\ Begin(file.n) + Len(file.page.data) <= file.length
              /\ file.length <= Begin(file.n) + ChunkSize
    BY <1>3, <2>1, <2>4, Zenon DEF Laid, PageSound
  <2>6. /\ file.n \in Nat /\ file.length \in Nat /\ Begin(file.n) \in Nat
        /\ file.pos = Begin(file.n) + file.page.offset /\ Len(file.page.data) \in Nat
    BY <2>1, FileSorts
  <2>7. file.n \in DOMAIN chunks /\ Len(chunks[file.n]) >= Len(file.page.data)
    <3> SUFFICES ASSUME Begin(file.n) + Len(file.page.data) <= file.length,
                        file.length <= Begin(file.n) + ChunkSize
                 PROVE  FALSE
      BY <2>5
    <3>1. SizeOf(file.n, file.length) = file.length - Begin(file.n)
      <4>1. Begin(file.n) <= file.length
        BY <2>6
      <4> QED BY <2>6, <4>1, SizeIs
    <3> QED BY <2>3, <2>5, <2>6, <3>1
  <2>8. Covered(chunks, file.length)
    <3> SUFFICES ASSUME NEW k \in Nat, Begin(k) < file.length
                 PROVE  k \in DOMAIN chunks /\ Len(chunks[k]) >= SizeOf(k, file.length)
      BY <2>6, CoveredIs
    <3>1. CASE k # file.n
      BY <1>1, <3>1, Zenon DEF Enough, Held
    <3>2. CASE k = file.n
      <4>1. SizeOf(file.n, file.length) \in 0 .. ChunkSize
        BY <2>6, SizeIs
      <4>2. Len(chunks[file.n]) \in Int
        <5>1. chunks[file.n] \in Seq(Int)
          BY <2>7 DEF Typed, AreChunks
        <5> QED BY <5>1
      <4> QED BY <2>5, <2>6, <2>7, <3>2, <4>1, <4>2
    <3> QED BY <3>1, <3>2
  <2> QED BY <2>2, <2>7, <2>8
<1> QED BY <1>2, <1>3

(* The chunk that a read goes on in. *)
LEMMA ReadGoesOn ==
  ASSUME Typed, Control, Laid, Within, pc = "refresh", At = "page_read",
         NEW n \in Nat, n = file.pos \div ChunkSize
  PROVE  /\ Begin(n) >= file.length => file.pos = Begin(n)
         /\ Begin(n) < file.length =>
              \/ file.pos < file.length
              \/ n \in DOMAIN chunks /\ file.pos - Begin(n) <= Len(chunks[n])
<1>1. /\ file.length \in Nat /\ file.pos \in Nat /\ file.n \in Nat /\ Begin(file.n) \in Nat
      /\ Begin(n) \in Nat
  BY FileSorts, BeginNext
<1>2. Begin(n) <= file.pos /\ file.pos < Begin(n) + ChunkSize
  BY <1>1, Division
<1>3. CASE file.page = NoPage
  <2>1. file.pos < file.length
    BY <1>3, Zenon DEF Within
  <2> QED BY <1>1, <1>2, <2>1
<1>4. CASE file.page # NoPage
  <2>1. file.page.offset = Len(file.page.data) /\ file.pos # file.length
    BY <1>4, Zenon DEF Within
  <2>2. /\ file.pos = Begin(file.n) + file.page.offset /\ file.page.offset \in Nat
        /\ file.page.offset <= ChunkSize
    BY <1>4, FileSorts
  <2>3. CASE file.page.offset = ChunkSize
    <3>1. Begin(file.n + 1) = file.pos /\ file.n + 1 \in Nat
      BY <1>1, <2>2, <2>3, BeginNext
    <3>2. n = file.n + 1
      BY <1>1, <3>1, Sizes, DivisionUnique, SMTT(40)
    <3>3. file.pos = Begin(n)
      BY <3>1, <3>2
    <3> QED BY <1>1, <3>3
  <2>4. CASE file.page.offset < ChunkSize
    <3>1. n = file.n
      BY <1>1, <2>2, <2>4, Sizes, DivisionUnique
    <3>2. Begin(n) >= file.length => file.pos = Begin(n)
      <4>1. Begin(file.n) >= file.length => file.page.data = <<>>
        BY <1>4 DEF Control, Paging
      <4> QED BY <1>1, <2>1, <2>2, <3>1, <4>1
    <3>3. ASSUME Begin(n) < file.length, ~ (file.pos < file.length)
          PROVE  n \in DOMAIN chunks /\ file.pos - Begin(n) <= Len(chunks[n])
      <4>1. file.page.data # <<>>
        BY <1>1, <2>1, <2>2, <3>1, <3>3
      <4>2. file.n \in DOMAIN chunks /\ Len(chunks[file.n]) >= Len(file.page.data)
        <5>1. CASE file.page.written
          BY <5>1, DroppedCovered
        <5>2. CASE ~ file.page.written
          <6>1. file.n \in DOMAIN chunks /\ file.page.data = chunks[file.n]
            BY <1>4, <4>1, <5>2, Zenon DEF Laid, PageSound
          <6>2. Len(file.page.data) \in Nat
            BY <1>4, FileSorts
          <6> QED BY <6>1, <6>2
        <5> QED BY <5>1, <5>2
      <4>3. file.pos - Begin(file.n) = Len(file.page.data)
        BY <1>1, <2>1, <2>2
      <4>4. Len(file.page.data) \in Nat /\ chunks[file.n] \in Seq(Int)
        BY <1>4, <4>2, FileSorts DEF Typed, AreChunks
      <4>5. Len(file.page.data) <= Len(chunks[file.n])
        BY <4>2, <4>4
      <4> QED BY <3>1, <4>2, <4>3, <4>5
    <3> QED BY <3>2, <3>3
  <2> QED BY <2>2, <2>3, <2>4, Sizes
<1> QED BY <1>3, <1>4

LEMMA RefreshSound == ASSUME Typed, Control, Sound, Refresh PROVE Sound'
<1> SUFFICES ASSUME ~ stale, ~ removed PROVE Laid' /\ Placed' /\ Within'
  <2>1. stale' = stale /\ removed' = removed
    BY RefreshSteps
  <2> QED BY <2>1, Zenon DEF Sound
<1>1. /\ pc = "refresh" /\ call' = call /\ chunks' = chunks /\ stored' = stored
      /\ file'.n = file.pos \div ChunkSize /\ file'.length = file.length /\ file'.pos = file.pos
  BY RefreshSteps DEF server
<1>2. \/ /\ Begin(file'.n) >= file.length /\ file'.page = PageFor(<<>>, file.pos)
         /\ pc' = call.back
      \/ /\ Begin(file'.n) < file.length /\ file'.page = NoPage /\ pc' = "next"
  BY RefreshSteps
<1>3. call.back \in {"page_read", "writev", "put", "fill"}
  BY <1>1 DEF Control, Course
<1>4. At = call.back /\ At' = At /\ pc' # "crashed" /\ pc' # "refresh"
  BY <1>1, <1>2, <1>3 DEF At
<1>5. /\ file.length \in Nat /\ file.pos \in Nat /\ file'.n \in Nat /\ Begin(file'.n) \in Nat
  <2>1. file.length \in Nat /\ file.pos \in Nat
    BY FileSorts
  <2>2. file'.n \in Nat
    BY <1>1, <2>1, Division
  <2> QED BY <2>1, <2>2, BeginNext
<1>6. /\ PageFor(<<>>, file.pos) # NoPage
      /\ PageFor(<<>>, file.pos).data = <<>> /\ PageFor(<<>>, file.pos).written = FALSE
      /\ PageFor(<<>>, file.pos).offset = file.pos - Begin(file'.n)
      /\ file.pos < Begin(file'.n) + ChunkSize
  <2> DEFINE nothing == <<>>
  <2>1. nothing \in Seq(Int)
    BY EmptySeq
  <2> HIDE DEF nothing
  <2>2. /\ PageFor(nothing, file.pos) # NoPage
        /\ PageFor(nothing, file.pos).data = nothing
        /\ PageFor(nothing, file.pos).written = FALSE
        /\ PageFor(nothing, file.pos).offset = file.pos - Begin(file.pos \div ChunkSize)
        /\ file.pos < Begin(file.pos \div ChunkSize) + ChunkSize
    BY <1>5, <2>1, PageForIs, ZenonT(60)
  <2> QED BY <1>1, <2>2 DEF nothing
<1>7. Laid /\ Placed /\ Within
  BY Zenon DEF Sound
<1>8. Covered(chunks, file.length) /\ (file.page.written => At = "page_read")
  BY <1>1, <1>7, DroppedCovered
<1>9. ~ file'.page.written
  BY <1>2, <1>6, NoPageIs
<1>10. Enough(chunks, file.length, file'.page, file'.n)
  BY <1>5, <1>8, <1>9, EnoughIsCovered
<1>11. PageSound(chunks, file.length, file'.page, file'.n, Bound')
  <2>1. CASE file'.page = NoPage
    BY <2>1, Zenon DEF PageSound
  <2>2. CASE Begin(file'.n) >= file.length /\ file'.page = PageFor(<<>>, file.pos)
    <3>1. SizeOf(file'.n, file.length) = 0
      BY <1>5, <2>2, SizeIs
    <3>2. Len(file'.page.data) >= SizeOf(file'.n, file.length)
      BY <1>6, <2>2, <3>1
    <3>3. file'.page.offset # ChunkSize
      BY <1>5, <1>6, <2>2, Sizes
    <3> QED BY <1>6, <1>9, <2>2, <3>2, <3>3, Zenon DEF PageSound
  <2> QED BY <1>2, <2>1, <2>2
<1>12. Laid'
  BY <1>1, <1>7, <1>10, <1>11, Zenon DEF Laid
<1>13. Placed'
  <2>1. Writes' => At \in {"put", "fill"} /\ Writes
    BY <1>2, <1>3, <1>4 DEF Writes
  <2>2. Writes' => ~ file.page.written
    BY <1>8, <2>1
  <2>3. FullBehind(chunks, file.page, file.n, file.pos) /\ ~ file.page.written
          => FullBehind(chunks, file'.page, file'.n, file.pos)
    BY <1>9, Zenon DEF FullBehind, Held
  <2>4. Writes' => FullBehind(chunks, file'.page, file'.n, file.pos)
    BY <1>7, <2>1, <2>2, <2>3, Zenon DEF Placed
  <2> QED BY <1>1, <2>4, Zenon DEF Placed
<1>14. Within'
  <2> SUFFICES ASSUME At = "page_read"
               PROVE  /\ file'.page # NoPage => file'.page.offset <= Len(file'.page.data)
                      /\ pc' = "next" =>
                           \/ file.pos < file.length
                           \/ /\ file'.n \in DOMAIN chunks
                              /\ file.pos - Begin(file'.n) <= Len(chunks[file'.n])
    BY <1>1, <1>4, Zenon DEF Within
  <2>1. /\ Begin(file'.n) >= file.length => file.pos = Begin(file'.n)
        /\ Begin(file'.n) < file.length =>
             \/ file.pos < file.length
             \/ file'.n \in DOMAIN chunks /\ file.pos - Begin(file'.n) <= Len(chunks[file'.n])
    BY <1>1, <1>5, <1>7, ReadGoesOn
  <2>2. CASE Begin(file'.n) >= file.length /\ file'.page = PageFor(<<>>, file.pos)
             /\ pc' = call.back
    <3>1. file'.page.offset = 0 /\ Len(file'.page.data) = 0
      BY <1>5, <1>6, <2>1, <2>2
    <3> QED BY <1>3, <2>2, <3>1
  <2>3. CASE Begin(file'.n) < file.length /\ file'.page = NoPage
    BY <2>1, <2>3
  <2> QED BY <1>2, <2>2, <2>3
<1> QED BY <1>12, <1>13, <1>14

LEMMA NextChunkSound == ASSUME Typed, Control, Sound, NextChunk PROVE Sound'
<1>1. /\ pc = "next" /\ file.cursor.ahead # <<>>
      /\ chunks' = chunks /\ stored' = stored /\ removed' = removed
  BY NextChunkSteps DEF server
<1>2. CASE /\ file' = WithCursor(Advanced) /\ pc' = pc /\ call' = call /\ stale' = stale
  <2>1. /\ file'.page = file.page /\ file'.length = file.length
        /\ file'.pos = file.pos /\ file'.n = file.n
    BY <1>1, <1>2, AdvancedIs, WithCursorIs
  <2> QED BY <1>1, <1>2, <2>1, AlikeSound
<1>3. CASE /\ file' = [file EXCEPT !.cursor = Advanced,
                         !.page = PageFor(NextReceived.data, file.pos)]
           /\ stale' = (stale \/ NextReceived.data # chunks[file.n])
           /\ pc' = call.back /\ call' = call
  <2> SUFFICES ASSUME ~ stale, NextReceived.data = chunks[file.n], ~ removed
               PROVE  Laid' /\ Placed' /\ Within'
    BY <1>1, <1>3, Zenon DEF Sound
  <2>1. /\ file'.length = file.length /\ file'.pos = file.pos /\ file'.n = file.n
        /\ file'.page # NoPage /\ file'.page.written = FALSE
        /\ file'.page.data = chunks[file.n]
        /\ file'.page.offset = file.pos - Begin(file.n) /\ file'.page.offset < ChunkSize
    BY <1>1, <1>3, ReceivedPage
  <2>2. /\ call.back \in {"page_read", "writev", "put", "fill"}
        /\ file.page = NoPage /\ Begin(file.n) < file.length
    BY <1>1 DEF Control, Course, Paging
  <2>3. At = call.back /\ At' = At /\ pc' = At
    BY <1>1, <1>3, <2>2 DEF At
  <2>4. Laid /\ Placed /\ Within
    BY Zenon DEF Sound
  <2>5. ~ file.page.written
    BY <2>2, NoPageIs
  <2>6. /\ Enough(chunks, file.length, file.page, file.n)
        /\ stored # None => Covered(chunks, stored)
    BY <2>4, Zenon DEF Laid
  <2>7. file.n \in DOMAIN chunks /\ Len(chunks[file.n]) >= SizeOf(file.n, file.length)
    BY <2>2, <2>5, <2>6, FileSorts, Zenon DEF Enough, Held
  <2>8. Enough(chunks, file.length, file'.page, file.n)
    BY <2>1, <2>5, <2>6, Zenon DEF Enough, Held
  <2>9. PageSound(chunks, file.length, file'.page, file.n, Bound')
    <3>1. file'.page.offset # ChunkSize
      <4>1. ~ (ChunkSize < ChunkSize)
        BY Sizes
      <4> QED BY <2>1, <4>1, Zenon
    <3>2. ~ file'.page.written
      BY <2>1, Zenon
    <3> QED BY <2>1, <2>7, <3>1, <3>2, Zenon DEF PageSound
  <2>10. Laid'
    BY <1>1, <2>1, <2>6, <2>8, <2>9, Zenon DEF Laid
  <2>11. Placed'
    <3>1. Writes' => Writes
      BY <2>2, <2>3 DEF Writes
    <3>2. FullBehind(chunks, file.page, file.n, file.pos)
            => FullBehind(chunks, file'.page, file.n, file.pos)
      BY <2>1, <2>5, Zenon DEF FullBehind, Held
    <3>3. Writes' => FullBehind(chunks, file'.page, file.n, file.pos)
      BY <2>4, <3>1, <3>2, Zenon DEF Placed
    <3> QED BY <1>1, <2>1, <3>3, Zenon DEF Placed
  <2>12. Within'
    <3> SUFFICES ASSUME At = "page_read"
                 PROVE  file'.page.offset <= Len(file'.page.data)
      BY <2>2, <2>3, Zenon DEF Within
    <3>1. \/ file.pos < file.length
          \/ file.pos - Begin(file.n) <= Len(chunks[file.n])
      BY <1>1, <2>4, Zenon DEF Within
    <3>2. CASE file.pos < file.length
      <4>1. Typed'
        BY NextChunkKeeps
      <4>2. (Typed /\ Laid /\ file.page # NoPage /\ file.pos < file.length
               => file.page.offset <= Len(file.page.data))'
        BY PageReaches, PTL
      <4> QED BY <2>1, <2>10, <3>2, <4>1, <4>2, Zenon
    <3>3. CASE file.pos - Begin(file.n) <= Len(chunks[file.n])
      BY <2>1, <3>3, Zenon
    <3> QED BY <3>1, <3>2, <3>3
  <2> QED BY <2>10, <2>11, <2>12
<1>4. CASE file' = WithCursor(NoCursor) /\ Fail /\ stale' = stale
  <2> SUFFICES ASSUME ~ stale, ~ removed PROVE Laid' /\ Placed' /\ Within'
    BY <1>1, <1>4, Zenon DEF Sound
  <2>1. Typed'
    BY NextChunkKeeps
  <2>2. /\ file'.page = file.page /\ file'.n = file.n /\ file'.length = file.length
        /\ file'.pos = file.pos
    BY <1>4, CursorsFit, WithCursorIs
  <2>3. /\ stored' # None => Covered(chunks', stored')
        /\ Enough(chunks', file.length, file.page, file.n)
        /\ PageSound(chunks', file.length, file.page, file.n, Bound)
        /\ Writes => FullBehind(chunks', file.page, file.n, file.pos)
    BY <1>1, Zenon DEF Sound, Laid, Placed
  <2> QED BY <1>1, <1>4, <2>1, <2>2, <2>3, FailSound
<1> QED BY <1>2, <1>3, <1>4, NextChunkSteps, Zenon

(* Bytes that are put in the page, whether the file grows with them or not: old
   and len are its lengths, and pos and end the positions, before and after. *)
Putting(cs, n, old, len, pos, end, a, b, pg, w) ==
  /\ \A k \in DOMAIN cs : Len(cs[k]) \in Nat
  /\ n \in Nat /\ Begin(n) \in Nat /\ old \in Nat /\ len \in Nat /\ pos \in Nat /\ end \in Nat
  /\ a \in Nat /\ b \in Nat /\ Len(pg.data) \in Nat /\ Len(w.data) \in Nat
  /\ Begin(n) <= pos /\ pos <= end /\ end <= Begin(n) + ChunkSize
  /\ Len(pg.data) <= Len(w.data) /\ Len(w.data) <= ChunkSize /\ end - Begin(n) <= Len(w.data)
  /\ Len(w.data) = Len(pg.data) \/ Len(w.data) = end - Begin(n)
  /\ w.written = TRUE /\ w.offset = end - Begin(n)
  /\ old <= len /\ (len = old \/ len = end) /\ len <= b /\ end <= b /\ a <= b
  /\ pg # NoPage /\ Enough(cs, old, pg, n) /\ PageSound(cs, old, pg, n, a)
  /\ FullBehind(cs, pg, n, pos)

LEMMA Overlaid ==
  ASSUME NEW cs, NEW n, NEW old, NEW len, NEW pos, NEW end, NEW a, NEW b, NEW pg, NEW w,
         Putting(cs, n, old, len, pos, end, a, b, pg, w)
  PROVE  /\ Enough(cs, len, w, n)
         /\ PageSound(cs, len, w, n, b)
         /\ FullBehind(cs, w, n, end)
<1> PICK at \in Nat, d \in Nat, e \in Nat :
      /\ at = Begin(n) /\ Len(pg.data) = d /\ Len(w.data) = e
      /\ n \in Nat /\ old \in Nat /\ len \in Nat /\ pos \in Nat /\ end \in Nat
      /\ a \in Nat /\ b \in Nat
      /\ at <= pos /\ pos <= end /\ end <= at + ChunkSize
      /\ d <= e /\ e <= ChunkSize /\ end - at <= e /\ (e = d \/ e = end - at)
      /\ w.written = TRUE /\ w.offset = end - at
      /\ old <= len /\ (len = old \/ len = end) /\ len <= b /\ end <= b /\ a <= b
      /\ pg # NoPage /\ Enough(cs, old, pg, n) /\ PageSound(cs, old, pg, n, a)
      /\ FullBehind(cs, pg, n, pos)
      /\ \A k \in DOMAIN cs : Len(cs[k]) \in Nat
  BY Zenon DEF Putting
<1>1. ChunkSize \in Nat /\ 0 < ChunkSize
  BY Sizes
<1>4. \A k \in Nat : k < n => HasFull(cs, k)
  <2> SUFFICES ASSUME NEW k \in Nat, k < n PROVE HasFull(cs, k)
    OBVIOUS
  <2>1. Begin(k) + ChunkSize <= Begin(n) /\ Begin(k) \in Nat
    BY BeginNext, BeginOrder
  <2>2. Begin(k) + ChunkSize <= pos
    BY <1>1, <2>1, SMTT(40)
  <2>3. k # n
    OBVIOUS
  <2> QED BY <2>2, <2>3, Zenon DEF FullBehind, Held
<1>5. \A k \in Nat : k # n /\ Begin(k) < end => k < n
  <2> SUFFICES ASSUME NEW k \in Nat, n < k PROVE ~ (Begin(k) < end)
    OBVIOUS
  <2>1. Begin(n) + ChunkSize <= Begin(k) /\ Begin(k) \in Nat
    BY BeginNext, BeginOrder
  <2> QED BY <1>1, <2>1, SMTT(40)
<1>6. FullBehind(cs, w, n, end)
  <2> SUFFICES ASSUME NEW k \in Nat, Begin(k) + ChunkSize <= end, ~ Held(w, n, k)
               PROVE  HasFull(cs, k)
    BY Zenon DEF FullBehind
  <2>1. k # n
    BY Zenon DEF Held
  <2>2. Begin(k) \in Nat
    BY BeginNext
  <2>3. Begin(k) < end
    BY <1>1, <2>2, SMTT(40)
  <2> QED BY <1>4, <1>5, <2>1, <2>3
<1>7. Enough(cs, len, w, n)
  <2> SUFFICES ASSUME NEW k \in Nat, Begin(k) < len, ~ Held(w, n, k)
               PROVE  k \in DOMAIN cs /\ Len(cs[k]) >= SizeOf(k, len)
    BY Zenon DEF Enough
  <2>1. k # n
    BY Zenon DEF Held
  <2>2. CASE len = old
    BY <2>1, <2>2, Zenon DEF Enough, Held
  <2>3. CASE len = end
    <3>1. HasFull(cs, k)
      BY <1>4, <1>5, <2>1, <2>3
    <3>2. SizeOf(k, len) \in 0 .. ChunkSize
      BY SizeIs
    <3>3. k \in DOMAIN cs /\ Len(cs[k]) >= ChunkSize
      BY <3>1, Zenon DEF HasFull
    <3>4. Len(cs[k]) \in Nat
      BY <3>3
    <3> QED BY <1>1, <3>2, <3>3, <3>4, SMTT(40)
  <2> QED BY <2>2, <2>3
<1>8. PICK size \in 0 .. ChunkSize :
        /\ old <= at => size = 0
        /\ old >= at + ChunkSize => size = ChunkSize
        /\ at <= old /\ old <= at + ChunkSize => size = old - at
        /\ d >= size /\ size = SizeOf(n, old)
  <2>1. d >= SizeOf(n, old)
    BY Zenon DEF PageSound
  <2>2. /\ SizeOf(n, old) \in 0 .. ChunkSize
        /\ old <= at => SizeOf(n, old) = 0
        /\ old >= at + ChunkSize => SizeOf(n, old) = ChunkSize
        /\ at <= old /\ old <= at + ChunkSize => SizeOf(n, old) = old - at
    BY SizeIs
  <2> QED BY <2>1, <2>2
<1>9. e >= SizeOf(n, len)
  <2>1. CASE len = old
    <3>1. e >= size
      BY <1>1, <1>8
    <3> QED BY <1>8, <2>1, <3>1
  <2>2. CASE len = end
    <3>1. Begin(n) <= len /\ len <= Begin(n) + ChunkSize
      BY <1>1, <2>2
    <3>2. SizeOf(n, len) = len - Begin(n)
      BY <3>1, SizeIs
    <3> QED BY <1>1, <2>2, <3>2
  <2> QED BY <2>1, <2>2
<1>10. \/ n \in DOMAIN cs /\ Len(cs[n]) >= e
       \/ at + e <= b /\ len <= at + ChunkSize
  <2>1. CASE e = d /\ pg.written
    <3>1. \/ n \in DOMAIN cs /\ Len(cs[n]) >= d
          \/ at + d <= a /\ old <= at + ChunkSize
      BY <2>1, Zenon DEF PageSound
    <3>2. at + d <= a => at + e <= b
      BY <2>1
    <3>3. old <= at + ChunkSize => len <= at + ChunkSize
      BY <1>1
    <3> QED BY <2>1, <3>1, <3>2, <3>3, Zenon
  <2>2. CASE e = d /\ ~ pg.written
    <3>1. CASE pg.data = <<>>
      <4>1. d = 0
        BY <3>1
      <4>2. size = 0
        BY <1>1, <1>8, <4>1
      <4>3. old <= at
        BY <1>1, <1>8, <4>2, SMTT(40)
      <4>4. at + e <= b /\ len <= at + ChunkSize
        BY <1>1, <2>2, <4>1, <4>3, SMTT(40)
      <4> QED BY <4>4
    <3>2. CASE n \in DOMAIN cs /\ pg.data = cs[n]
      BY <2>2, <3>2
    <3> QED BY <2>2, <3>1, <3>2, Zenon DEF PageSound
  <2>3. CASE e # d
    <3>1. e = end - at /\ size < ChunkSize
      BY <1>1, <1>8, <2>3
    <3>2. old <= at + ChunkSize
      BY <1>1, <1>8, <3>1, SMTT(40)
    <3>3. at + e <= b /\ len <= at + ChunkSize
      BY <1>1, <3>1, <3>2, SMTT(40)
    <3> QED BY <3>3
  <2> QED BY <2>1, <2>2, <2>3
<1>11. PageSound(cs, len, w, n, b)
  <2>1. w.offset = ChunkSize => e = ChunkSize
    BY <1>1, SMTT(40)
  <2>2. w.written
    OBVIOUS
  <2> QED BY <1>4, <1>9, <1>10, <2>1, <2>2, Zenon DEF PageSound
<1> QED BY <1>6, <1>7, <1>11

LEMMA PutIn ==
  ASSUME Typed, Laid, file.page # NoPage, FullBehind(chunks, file.page, file.n, file.pos),
         NEW s \in Seq(Int), NEW r \in Nat, r = Taken(file.page, Len(s)),
         NEW w, w = Overwritten(file.page, s),
         NEW len \in Nat, file.length <= len, len = file.length \/ len = file.pos + r,
         NEW b \in Nat, len <= b, file.pos + r <= b
  PROVE  /\ Enough(chunks, len, w, file.n)
         /\ PageSound(chunks, len, w, file.n, b)
         /\ FullBehind(chunks, w, file.n, file.pos + r)
<1>1. /\ file.length \in Nat /\ file.pos \in Nat /\ file.n \in Nat /\ Begin(file.n) \in Nat
      /\ file.page.offset \in Nat /\ file.page.offset <= ChunkSize
      /\ file.pos = Begin(file.n) + file.page.offset /\ Len(file.page.data) \in Nat
  BY FileSorts
<1>2. /\ file.page.offset + r <= ChunkSize /\ w.written = TRUE
      /\ w.offset = file.page.offset + r
      /\ Len(w.data) \in Nat /\ Len(w.data) <= ChunkSize
      /\ Len(file.page.data) <= Len(w.data) /\ w.offset <= Len(w.data)
      /\ Len(w.data) = Len(file.page.data) \/ Len(w.data) = w.offset
  <2>1. LET rr == Taken(file.page, Len(s))  ww == Overwritten(file.page, s) IN
        /\ file.page.offset + rr <= ChunkSize /\ ww.written = TRUE
        /\ ww.offset = file.page.offset + rr
        /\ Len(ww.data) \in Nat /\ Len(ww.data) <= ChunkSize
        /\ Len(file.page.data) <= Len(ww.data) /\ ww.offset <= Len(ww.data)
        /\ Len(ww.data) = Len(file.page.data) \/ Len(ww.data) = ww.offset
    BY OverwrittenFits
  <2> QED BY <2>1
<1>3. /\ Enough(chunks, file.length, file.page, file.n)
      /\ PageSound(chunks, file.length, file.page, file.n, Bound)
  BY Zenon DEF Laid
<1>4. \A k \in DOMAIN chunks : Len(chunks[k]) \in Nat
  <2> SUFFICES ASSUME NEW k \in DOMAIN chunks PROVE Len(chunks[k]) \in Nat
    OBVIOUS
  <2>1. chunks[k] \in Seq(Int)
    BY DEF Typed, AreChunks
  <2> QED BY <2>1
<1>5. Bound \in Nat /\ Bound <= b
  <2>1. Bound = file.length \/ Bound = Greater(file.length, file.pos)
    BY DEF Bound
  <2>2. file.length <= b /\ file.pos <= b
    BY <1>1, SMTT(40)
  <2> QED BY <1>1, <2>1, <2>2 DEF Greater
<1>6. /\ Begin(file.n) <= file.pos /\ file.pos <= file.pos + r
      /\ file.pos + r <= Begin(file.n) + ChunkSize /\ file.pos + r \in Nat
      /\ (file.pos + r) - Begin(file.n) = w.offset
  <2>1. PICK p \in Nat, k \in Nat, o \in Nat :
          p = file.pos /\ k = Begin(file.n) /\ o = file.page.offset
    BY <1>1, Zenon
  <2>2. p = k + o /\ o + r <= ChunkSize
    BY <1>1, <1>2, <2>1, Zenon
  <2>3. /\ k <= p /\ p <= p + r /\ p + r <= k + ChunkSize /\ p + r \in Nat
        /\ (p + r) - k = o + r
    <3>1. /\ k <= k + o /\ k + o <= (k + o) + r /\ (k + o) + r \in Nat
          /\ ((k + o) + r) - k = o + r
      OBVIOUS
    <3>2. (k + o) + r <= k + ChunkSize
      BY <2>2, Sizes
    <3> QED BY <2>2, <3>1, <3>2, Zenon
  <2> QED BY <1>2, <2>1, <2>3, Zenon
<1>7. Putting(chunks, file.n, file.length, len, file.pos, file.pos + r, Bound, b, file.page, w)
  BY <1>1, <1>2, <1>3, <1>4, <1>5, <1>6, Zenon DEF Putting
<1> QED BY <1>7, Overlaid, Zenon

LEMMA PageWriteSound == ASSUME Typed, Control, Sound, PageWrite PROVE Sound'
<1> SUFFICES ASSUME ~ stale, ~ removed PROVE Laid' /\ Placed' /\ Within'
  <2>1. stale' = stale /\ removed' = removed
    BY PageWriteSteps, Zenon DEF history
  <2> QED BY <2>1, Zenon DEF Sound
<1> DEFINE r == Taken(file.page, Len(call.data))
           w == Overwritten(file.page, call.data)
           len == Greater(file.length, file.pos + r)
<1>1. /\ r \in Nat /\ pc = "put" /\ file.page # NoPage
      /\ chunks' = chunks /\ stored' = stored
      /\ file'.length = len /\ file'.pos = file.pos + r /\ file'.n = file.n
      /\ file'.page = w /\ call'.back = "put"
      /\ pc' \in {"return", "flush"}
  <2>1. pc' \in {"return", "flush"}
    BY PageWriteSteps
  <2> QED BY <2>1, PageWriteSteps, Zenon DEF server
<1>2. At = "put" /\ At' \in {"return", "put"} /\ pc' # "crashed"
  BY <1>1 DEF At
<1>3. Laid /\ FullBehind(chunks, file.page, file.n, file.pos)
  <2>1. Writes
    BY <1>2 DEF Writes
  <2> QED BY <2>1, Zenon DEF Sound, Placed
<1>4. /\ file.length \in Nat /\ file.pos \in Nat /\ call.data \in Seq(Int)
  BY FileSorts, CallSorts
<1>5. /\ len \in Nat /\ file.length <= len /\ file.pos + r <= len
      /\ len = file.length \/ len = file.pos + r
  <2>1. r \in Nat
    BY <1>1
  <2> HIDE DEF r
  <2> QED BY <1>4, <2>1 DEF Greater
<1>6. r = Taken(file.page, Len(call.data)) /\ w = Overwritten(file.page, call.data)
  OBVIOUS
<1> HIDE DEF r, w, len
<1>7. /\ Enough(chunks, len, w, file.n)
      /\ PageSound(chunks, len, w, file.n, len)
      /\ FullBehind(chunks, w, file.n, file.pos + r)
  BY <1>1, <1>3, <1>4, <1>5, <1>6, PutIn
<1>8. Bound' = len
  <2>1. Bound' = len \/ Bound' = Greater(len, file.pos + r)
    BY <1>1 DEF Bound
  <2> QED BY <1>1, <1>4, <1>5, <2>1 DEF Greater
<1>9. Laid'
  BY <1>1, <1>3, <1>7, <1>8, Zenon DEF Laid
<1>10. Placed'
  BY <1>1, <1>7, Zenon DEF Placed
<1>11. Within'
  BY <1>2 DEF Within
<1> QED BY <1>9, <1>10, <1>11

LEMMA FillSound == ASSUME Typed, Control, Sound, Fill PROVE Sound'
<1> SUFFICES ASSUME ~ stale, ~ removed PROVE Laid' /\ Placed' /\ Within'
  <2>1. stale' = stale /\ removed' = removed
    BY FillSteps, Zenon DEF history
  <2> QED BY <2>1, Zenon DEF Sound
<1> DEFINE m == call.goal - file.pos
           r == Taken(file.page, m)
           w == Overwritten(file.page, Zeros(m))
           len == file'.length
           b == Greater(len, file.pos + r)
<1>1. /\ m \in Nat /\ r \in Nat /\ r <= m /\ call.goal \in Nat
      /\ pc = "fill" /\ file.page # NoPage
      /\ chunks' = chunks /\ stored' = stored
      /\ file'.pos = file.pos + r /\ file'.n = file.n /\ file'.page = w
      /\ \/ r = m /\ pc' = "put" /\ len = file.pos + r
         \/ pc' = "flush" /\ call'.back = "fill" /\ len = file.length
  BY FillSteps, Zenon DEF server
<1>2. At = "fill" /\ At' \in {"fill", "put"} /\ pc' # "crashed"
  BY <1>1 DEF At
<1>3. Laid /\ FullBehind(chunks, file.page, file.n, file.pos)
  <2>1. Writes
    BY <1>2 DEF Writes
  <2> QED BY <2>1, Zenon DEF Sound, Placed
<1>4. file.length \in Nat /\ file.pos \in Nat /\ file.length < call.goal
  <2>1. call.goal # None /\ (call.goal # None => file.length < call.goal)
    BY <1>2 DEF Control, Gap
  <2> QED BY <2>1, FileSorts
<1>5. m = call.goal - file.pos /\ r = Taken(file.page, m)
      /\ w = Overwritten(file.page, Zeros(m)) /\ b = Greater(len, file.pos + r)
      /\ len = file'.length
  OBVIOUS
<1> HIDE DEF m, r, w, len, b
<1>6. /\ len \in Nat /\ file.length <= len
      /\ len = file.length \/ len = file.pos + r
      /\ b \in Nat /\ len <= b /\ file.pos + r <= b
  <2>1. r = m => file.pos + r = call.goal
    BY <1>1, <1>4, <1>5
  <2>2. /\ len \in Nat /\ file.length <= len
        /\ len = file.length \/ len = file.pos + r
    BY <1>1, <1>4, <2>1
  <2> QED BY <1>1, <1>4, <1>5, <2>2 DEF Greater
<1>7. Zeros(m) \in Seq(Int) /\ Len(Zeros(m)) = m
  BY <1>1, ZerosAre
<1>8. /\ Enough(chunks, len, w, file.n)
      /\ PageSound(chunks, len, w, file.n, b)
      /\ FullBehind(chunks, w, file.n, file.pos + r)
  BY <1>1, <1>3, <1>4, <1>5, <1>6, <1>7, PutIn
<1>9. Bound' = b
  BY <1>1, <1>2, <1>5 DEF Bound
<1>10. Laid'
  BY <1>1, <1>3, <1>5, <1>8, <1>9, Zenon DEF Laid
<1>11. Placed'
  BY <1>1, <1>8, Zenon DEF Placed
<1>12. Within'
  BY <1>2 DEF Within
<1> QED BY <1>10, <1>11, <1>12

-----------------------------------------------------------------------------
LEMMA StepSound == ASSUME Typed, Control, Sound, Step PROVE Sound'
  BY ReadvSound, PageReadSound, ReadBehindPageSound, RefreshSound, FetchSound, NextChunkSound,
     NoChunkSound, NeedPageSound, WritevSound, PageWriteSound, FillSound,
     FlushBeforeSeekSound, SeekPageSound, UpdateChunkSound, InnerSaveCleanSound,
     UpdateFileSound, RemoveFileSound, RemoveChunksSound, ReturnSound, ServerFailsSound,
     Zenon DEF Step

LEMMA NextSound == ASSUME Typed, Control, Sound, [Next]_vars PROVE Sound'
<1>1. CASE UNCHANGED vars
  BY <1>1, AlikeSound DEF vars, server, history, bounds
<1>2. CASE Next
  BY <1>2, ReadSound, WriteSound, SeekSound, SaveSound, RemoveSound, ReopenSound, StepSound,
     Zenon DEF Next
<1> QED BY <1>1, <1>2

(* Sound is kept by every step, given Typed and Control. *)
LEMMA Soundness == Spec => []Sound
<1>1. Init => Sound
  BY InitSound
<1>2. Typed /\ Control /\ Sound /\ [Next]_vars => Sound'
  BY NextSound
<1> QED BY <1>1, <1>2, Typing, PTL DEF Spec

(* While no page was stale, the files document never promises a byte that is
   not stored, whatever failed or died (mongoc-gridfs-file.c:635-678). *)
THEOREM NothingMissing == Spec => []StoredIsReadable
<1>1. Control /\ Sound => StoredIsReadable
  BY Zenon DEF Control, Course, Sound, Laid, StoredIsReadable
<1> QED BY <1>1, Typing, Soundness, PTL

(* A read does not go behind its page unless a page was stale
   (mongoc-gridfs-file-page.c:68-88). *)
THEOREM ReadsInPage == Spec => [](~ stale => pc # "crashed")
<1>1. Control /\ Sound => (~ stale => pc # "crashed")
  BY Zenon DEF Control, Course, Sound, Within
<1> QED BY <1>1, Typing, Soundness, PTL

-----------------------------------------------------------------------------
(* What the file holds                                                     *)
(*                                                                         *)
(* While it is known what the file should be, the chunks and the page have *)
(* those bytes and no others, but for the part of a write that is still to *)
(* be done.                                                                *)

(* How far the chunks and the page go: while a gap is filled, the length is
   behind them. *)
Reach == IF At = "fill" THEN file.pos ELSE file.length

(* The bytes that a write has still to put. *)
Writing == call.op = "write" /\ pc # "return"
From == IF call.goal # None THEN call.goal ELSE file.pos
To == IF Writing THEN From + Len(call.data) ELSE From

PartOf(cs, pg, n, k) == IF Held(pg, n, k) THEN pg.data ELSE cs[k]
Exact(cs, pg, n, len) ==
  /\ \A k \in DOMAIN cs : ~ Held(pg, n, k) => Len(cs[k]) = SizeOf(k, len)
  /\ \A k \in Nat : Begin(k) < len /\ ~ Held(pg, n, k) => k \in DOMAIN cs
  /\ pg # NoPage => Len(pg.data) = SizeOf(n, len)
Bytes(cs, pg, n, len, bytes, lo, hi) ==
  \A k \in Nat : \A j \in 1 .. ChunkSize :
    Begin(k) + j <= len /\ ~ (lo < Begin(k) + j /\ Begin(k) + j <= hi) =>
      PartOf(cs, pg, n, k)[j] = bytes[Begin(k) + j]

Holds ==
  /\ Exact(chunks, file.page, file.n, Reach)
  /\ Bytes(chunks, file.page, file.n, Reach, content, From, To)

Expected ==
  /\ ~ Writing => Len(content) = file.length
  /\ Writing =>
       /\ Len(content) = Greater(file.length, To)
       /\ \A j \in 1 .. Len(call.data) : content[From + j] = call.data[j]
       /\ \A i \in Nat : file.length < i /\ i <= From => content[i] = 0

(* A write goes on in the file, and a gap is filled from its end. *)
Filling ==
  /\ At = "put" => file.pos <= file.length
  /\ At = "fill" =>
       /\ file.length <= file.pos
       /\ file.page = NoPage => file.pos = file.length \/ \E k \in Nat : file.pos = Begin(k)

(* A file that is not dirty is stored. *)
Saved ==
  /\ ~ file.dirty /\ ~ unsaved /\ At \notin {"put", "fill", "remove_chunks"} =>
       stored = file.length /\ ~ file.page.written
  /\ pc = "return" /\ call.op = "save" /\ result = "ok" => ~ file.dirty

(* What was read so far. *)
Reads ==
  /\ At \in {"readv", "page_read"} =>
       /\ file.pos = call.start + Len(call.data)
       /\ \A j \in 1 .. Len(call.data) : call.data[j] = content[call.start + j]
       /\ file.pos <= file.length \/ call.data = <<>>
  /\ pc = "return" /\ call.op = "read" /\ result = "ok" =>
       call.data = SubSeq(content, call.start + 1,
                          Lesser(call.start + call.len, Len(content)))

Faithful == Known => Holds /\ Expected /\ Filling /\ Saved /\ Reads

LEMMA HistoryStays ==
  ASSUME history' = history
  PROVE  content' = content /\ unsaved' = unsaved /\ (Known' => Known)
<1>1. /\ content' = content /\ lost' = lost /\ stale' = stale /\ torn' = torn
      /\ unsaved' = unsaved /\ removed' = removed
  BY DEF history
<1> QED BY <1>1, Zenon DEF Known

(* Steps that change neither the bytes of the file nor what it should be. *)
LEMMA HeldStays ==
  ASSUME Holds, Expected, file'.page = file.page, file'.n = file.n,
         file'.length = file.length, file'.pos = file.pos, chunks' = chunks,
         content' = content, At' = "fill" <=> At = "fill", From' = From,
         Writing' <=> Writing, Writing => call'.data = call.data
  PROVE  Holds' /\ Expected'
<1>1. Reach' = Reach
  BY Zenon DEF Reach
<1>2. To' = To
  <2>1. CASE Writing
    <3>1. To = From + Len(call.data) /\ To' = From' + Len(call'.data)
      BY <2>1, Zenon DEF To
    <3> QED BY <2>1, <3>1
  <2>2. CASE ~ Writing
    <3>1. To = From /\ To' = From'
      BY <2>2, Zenon DEF To
    <3> QED BY <3>1
  <2> QED BY <2>1, <2>2
<1>3. Holds'
  BY <1>1, <1>2, Zenon DEF Holds
<1>4. Expected'
  <2>1. CASE Writing
    <3>1. call'.data = call.data /\ Writing'
      BY <2>1
    <3>2. /\ Len(content') = Greater(file'.length, To')
          /\ \A j \in 1 .. Len(call'.data) : content'[From' + j] = call'.data[j]
          /\ \A i \in Nat : file'.length < i /\ i <= From' => content'[i] = 0
      BY <1>2, <2>1, <3>1, Zenon DEF Expected
    <3> QED BY <3>1, <3>2, Zenon DEF Expected
  <2>2. CASE ~ Writing
    BY <2>2, Zenon DEF Expected
  <2> QED BY <2>1, <2>2
<1> QED BY <1>3, <1>4

LEMMA FaithfulStays ==
  ASSUME Faithful, Known' => Known,
         file'.page = file.page, file'.n = file.n, file'.length = file.length,
         file'.pos = file.pos, file'.dirty = file.dirty, chunks' = chunks, stored' = stored,
         content' = content, unsaved' = unsaved,
         At' = "fill" <=> At = "fill", From' = From,
         Writing' <=> Writing, Writing => call'.data = call.data,
         At' = "put" => At = "put" \/ file.pos <= file.length,
         At \in {"put", "fill", "remove_chunks"} => At' = At,
         pc' = "return" /\ call'.op = "save" /\ result' = "ok" => ~ file.dirty,
         Known /\ Reads => Reads'
  PROVE  Faithful'
<1> SUFFICES ASSUME Known' PROVE Holds' /\ Expected' /\ Filling' /\ Saved' /\ Reads'
  BY Zenon DEF Faithful
<1>1. Known /\ Holds /\ Expected /\ Filling /\ Saved /\ Reads
  BY Zenon DEF Faithful
<1>2. Holds' /\ Expected'
  BY <1>1, HeldStays
<1>3. Filling'
  BY <1>1, Zenon DEF Filling
<1>4. Saved'
  BY <1>1 DEF Saved
<1> QED BY <1>1, <1>2, <1>3, <1>4

(* A call that reads nothing. *)
LEMMA NoReading ==
  ASSUME At \notin {"readv", "page_read"}, pc # "return" \/ call.op # "read" \/ result # "ok"
  PROVE  Reads
  BY DEF Reads

LEMMA ReadFaithful ==
  ASSUME Typed, Control, Faithful, NEW len \in ReadLengths, Read(len) PROVE Faithful'
<1>1. /\ pc = "idle" /\ pc' = "readv" /\ file' = file /\ chunks' = chunks /\ stored' = stored
      /\ history' = history /\ call' = StartedCall("read", file.pos, len, <<>>)
  BY Zenon DEF StartedCall, Read, Start, Usable, server
<1>2. /\ content' = content /\ unsaved' = unsaved /\ (Known' => Known)
  BY <1>1, HistoryStays
<1>3. call = NoCall /\ call.goal = None /\ call.op = "none"
  BY <1>1, NoCallTyped DEF Control, Course
<1>4. /\ call'.op = "read" /\ call'.goal = None /\ call'.start = file.pos /\ call'.data = <<>>
  <2> DEFINE nothing == <<>>
  <2>1. nothing \in Seq(Int)
    BY EmptySeq
  <2> HIDE DEF nothing
  <2>2. file.pos \in Nat /\ len \in Nat
    BY FileSorts, GridFSFileAssumption
  <2>3. LET d == StartedCall("read", file.pos, len, nothing) IN
        d.op = "read" /\ d.goal = None /\ d.start = file.pos /\ d.data = nothing
    BY <2>1, <2>2, Started
  <2> QED BY <1>1, <2>3 DEF nothing
<1>5. At = "idle" /\ At' = "readv" /\ From' = From /\ ~ Writing /\ ~ Writing'
  BY <1>1, <1>3, <1>4 DEF At, From, Writing
<1>6. Reads'
  BY <1>1, <1>4, FileSorts DEF Reads
<1> QED BY <1>1, <1>2, <1>5, <1>6, FaithfulStays

LEMMA RemoveFaithful == ASSUME Typed, Control, Faithful, Remove PROVE Faithful'
<1>1. /\ pc = "idle" /\ pc' = "remove_file" /\ file' = file /\ chunks' = chunks
      /\ stored' = stored /\ history' = history
      /\ call' = StartedCall("remove", file.pos, 0, <<>>)
  BY Zenon DEF StartedCall, Remove, Start, server
<1>2. /\ content' = content /\ unsaved' = unsaved /\ (Known' => Known)
  BY <1>1, HistoryStays
<1>3. call = NoCall /\ call.goal = None /\ call.op = "none"
  BY <1>1, NoCallTyped DEF Control, Course
<1>4. /\ call'.op = "remove" /\ call'.goal = None
  <2> DEFINE nothing == <<>>
  <2>1. nothing \in Seq(Int)
    BY EmptySeq
  <2> HIDE DEF nothing
  <2>2. LET d == StartedCall("remove", file.pos, 0, nothing) IN d.op = "remove" /\ d.goal = None
    BY <2>1, FileSorts, Started
  <2> QED BY <1>1, <2>2 DEF nothing
<1>5. At = "idle" /\ At' = "remove_file" /\ From' = From /\ ~ Writing /\ ~ Writing'
  BY <1>1, <1>3, <1>4 DEF At, From, Writing
<1>6. Reads'
  BY <1>1, <1>5 DEF Reads
<1> QED BY <1>1, <1>2, <1>5, <1>6, FaithfulStays

LEMMA SaveFaithful == ASSUME Typed, Control, Faithful, Save PROVE Faithful'
<1>1. /\ pc = "idle" /\ file' = file /\ chunks' = chunks /\ stored' = stored
      /\ history' = history
      /\ call' = [NoCall EXCEPT !.op = "save", !.start = file.pos, !.back = "save_file"]
      /\ \/ pc' \in {"flush", "save_file"}
         \/ pc' = "return" /\ ~ file.dirty
  BY Zenon DEF Save, Usable, server
<1>2. /\ content' = content /\ unsaved' = unsaved /\ (Known' => Known)
  BY <1>1, HistoryStays
<1>3. call = NoCall /\ call.goal = None /\ call.op = "none"
  BY <1>1, NoCallTyped DEF Control, Course
<1>4. call'.op = "save" /\ call'.goal = None /\ call'.back = "save_file"
  BY <1>1, FileSorts, SavingStarted
<1>5. At = "idle" /\ At' \in {"save_file", "return"} /\ From' = From /\ ~ Writing /\ ~ Writing'
  BY <1>1, <1>3, <1>4 DEF At, From, Writing
<1>6. Reads'
  BY <1>4, <1>5 DEF Reads
<1> QED BY <1>1, <1>2, <1>5, <1>6, FaithfulStays

LEMMA SeekFaithful ==
  ASSUME Typed, Control, Faithful, NEW whence, NEW delta, Seek(whence, delta) PROVE Faithful'
<1> DEFINE to == Base(whence) + delta
<1>1. /\ pc = "idle" /\ pc' \in {"return", "seek"} /\ file' = file /\ chunks' = chunks
      /\ stored' = stored /\ history' = history /\ to \in -1 .. MaxLength
      /\ call' = [NoCall EXCEPT !.op = "seek", !.start = file.pos, !.target = to]
  BY Zenon DEF Seek, Usable, server
<1> HIDE DEF to
<1>2. /\ content' = content /\ unsaved' = unsaved /\ (Known' => Known)
  BY <1>1, HistoryStays
<1>3. call = NoCall /\ call.goal = None /\ call.op = "none"
  BY <1>1, NoCallTyped DEF Control, Course
<1>4. call'.op = "seek" /\ call'.goal = None
  <2>1. to \in Nat \cup {None}
    BY <1>1, Sizes DEF None
  <2> QED BY <1>1, <2>1, FileSorts, SeekStarted, ZenonT(60)
<1>5. At = "idle" /\ At' \in {"seek", "return"} /\ From' = From /\ ~ Writing /\ ~ Writing'
  BY <1>1, <1>3, <1>4 DEF At, From, Writing
<1>6. Reads'
  BY <1>4, <1>5 DEF Reads
<1>7. ~ (pc' = "return" /\ call'.op = "save" /\ result' = "ok")
  BY <1>4
<1> QED BY <1>1, <1>2, <1>5, <1>6, <1>7, FaithfulStays

LEMMA ReturnFaithful == ASSUME Typed, Control, Faithful, Return PROVE Faithful'
<1>1. /\ pc = "return" /\ pc' = "idle" /\ file' = file /\ chunks' = chunks
      /\ stored' = stored /\ history' = history /\ call' = NoCall
  BY Zenon DEF Return, server
<1>2. /\ content' = content /\ unsaved' = unsaved /\ (Known' => Known)
  BY <1>1, HistoryStays
<1>3. call'.goal = None /\ call'.op = "none"
  BY <1>1, NoCallTyped
<1>4. At = "return" /\ At' = "idle"
  BY <1>1 DEF At
<1>5. call.goal = None
  BY <1>4 DEF Control, Gap
<1>6. From' = From /\ ~ Writing /\ ~ Writing'
  BY <1>1, <1>3, <1>5 DEF From, Writing
<1>7. Reads'
  BY <1>1, <1>4 DEF Reads
<1> QED BY <1>1, <1>2, <1>4, <1>6, <1>7, FaithfulStays

LEMMA GoViaIs ==
  ASSUME Typed, NEW step, NEW back \in Backs, GoVia(step, back)
  PROVE  /\ pc' = step /\ result' = result /\ call'.back = back /\ call'.op = call.op
         /\ call'.start = call.start /\ call'.len = call.len /\ call'.data = call.data
         /\ call'.part = call.part /\ call'.goal = call.goal /\ call'.target = call.target
<1>1. pc' = step /\ result' = result /\ call' = [call EXCEPT !.back = back]
  BY Zenon DEF GoVia
<1> DEFINE d == [call EXCEPT !.back = back]
<1>2. /\ d.back = back /\ d.op = call.op /\ d.start = call.start /\ d.len = call.len
      /\ d.data = call.data /\ d.part = call.part /\ d.goal = call.goal
      /\ d.target = call.target
  BY CallSorts, CallBack
<1> HIDE DEF d
<1>3. call' = d
  BY <1>1 DEF d
<1> QED BY <1>1, <1>2, <1>3

(* What a finished read has: all that it asked for, or all that there is. *)
LEMMA ReadEnds ==
  ASSUME NEW s \in Seq(Int), NEW d \in Seq(Int), NEW a \in Nat, NEW e \in Nat, e <= Len(s),
         \/ e = a + Len(d) /\ (\A j \in 1 .. Len(d) : d[j] = s[a + j])
         \/ Len(d) = 0 /\ e <= a
  PROVE  d = SubSeq(s, a + 1, e)
<1>1. CASE e = a + Len(d) /\ \A j \in 1 .. Len(d) : d[j] = s[a + j]
  <2> DEFINE t == SubSeq(s, a + 1, a + Len(d))
  <2>1. t \in Seq(Int) /\ Len(t) = Len(d) /\ \A j \in 1 .. Len(d) : t[j] = s[a + j]
    <3>1. PICK r \in Nat : r = Len(d)
      OBVIOUS
    <3>2. a + r <= Len(s)
      BY <1>1, <3>1
    <3> QED BY <3>1, <3>2, PartIs
  <2>2. \A j \in 1 .. Len(d) : t[j] = d[j]
    BY <1>1, <2>1
  <2> HIDE DEF t
  <2>3. t = d
    BY <2>1, <2>2, SeqEqual
  <2> QED BY <1>1, <2>3 DEF t
<1>2. CASE Len(d) = 0 /\ e <= a
  <2>1. SubSeq(s, a + 1, e) = <<>>
    BY <1>2
  <2>2. d = <<>>
    BY <1>2
  <2> QED BY <2>1, <2>2
<1> QED BY <1>1, <1>2

LEMMA ReadvFaithful == ASSUME Typed, Control, Faithful, Readv PROVE Faithful'
<1>1. /\ pc = "readv" /\ file' = file /\ chunks' = chunks /\ stored' = stored
      /\ history' = history
  BY Zenon DEF Readv, server
<1>2. \/ pc' = "return" /\ result' = "ok" /\ call' = call /\ (Room = 0 \/ file.pos >= file.length)
      \/ GoVia("refresh", "page_read")
      \/ Go("page_read")
  BY Zenon DEF Readv, End
<1>3. /\ call'.op = call.op /\ call'.start = call.start /\ call'.data = call.data
      /\ call'.len = call.len /\ call'.goal = call.goal
      /\ \/ pc' = "return" /\ call' = call /\ (Room = 0 \/ file.pos >= file.length)
         \/ pc' = "refresh" /\ call'.back = "page_read"
         \/ pc' = "page_read"
  BY <1>2, GoViaIs DEF Go, Backs
<1>4. /\ content' = content /\ unsaved' = unsaved /\ (Known' => Known)
  BY <1>1, HistoryStays
<1>5. At = "readv" /\ At' \in {"return", "page_read"} /\ (pc' = "return" <=> At' = "return")
  BY <1>1, <1>3 DEF At
<1>6. call.op = "read" /\ call.goal = None
  BY <1>5 DEF Control, Course, Gap
<1>7. From' = From /\ ~ Writing /\ ~ Writing'
  BY <1>1, <1>3, <1>6 DEF From, Writing
<1>8. ASSUME Known, Reads, Expected
      PROVE  pc' = "return" =>
               call.data = SubSeq(content, call.start + 1,
                                  Lesser(call.start + call.len, Len(content)))
  <2> SUFFICES ASSUME pc' = "return"
               PROVE  call.data = SubSeq(content, call.start + 1,
                                         Lesser(call.start + call.len, Len(content)))
    OBVIOUS
  <2>1. PICK s \in Nat, l \in Nat, d \in Nat, c \in Nat :
          s = call.start /\ l = call.len /\ d = Len(call.data) /\ c = Len(content)
    BY CallSorts DEF Typed
  <2>2. call.part = 0 /\ d <= l
    BY <1>5, <2>1 DEF Control, Reading
  <2>3. Room = 0 => d = l
    <3>1. Room = Lesser(BufferSize, l - (d - 0))
      BY <2>1, <2>2 DEF Room
    <3> QED BY <2>2, <3>1, Sizes DEF Lesser
  <2>4. /\ file.pos = s + d /\ c = file.length
        /\ \A j \in 1 .. d : call.data[j] = content[s + j]
        /\ file.pos <= c \/ d = 0
    <3>1. file.length = Len(content)
      BY <1>7, <1>8, Zenon DEF Expected
    <3>2. /\ file.pos = s + d /\ \A j \in 1 .. d : call.data[j] = content[s + j]
          /\ file.pos <= file.length \/ call.data = <<>>
      BY <1>5, <1>8, <2>1, Zenon DEF Reads
    <3> QED BY <2>1, <3>1, <3>2
  <2>5. d = l \/ s + d >= c
    BY <1>3, <2>3, <2>4
  <2> DEFINE e == Lesser(s + l, c)
  <2>6. /\ e \in Nat /\ e <= c
        /\ e = s + d \/ (d = 0 /\ e <= s)
    BY <2>2, <2>4, <2>5 DEF Lesser
  <2> HIDE DEF e
  <2>7. call.data \in Seq(Int) /\ content \in Seq(Int)
    BY CallSorts DEF Typed
  <2>8. call.data = SubSeq(content, s + 1, e)
    <3>1. /\ e <= Len(content)
          /\ \/ e = s + Len(call.data)
                /\ (\A j \in 1 .. Len(call.data) : call.data[j] = content[s + j])
             \/ Len(call.data) = 0 /\ e <= s
      BY <2>1, <2>4, <2>6
    <3> QED BY <2>6, <2>7, <3>1, ReadEnds
  <2> QED BY <2>1, <2>8 DEF e
<1>9. ASSUME Known, Reads, Expected PROVE Reads'
  <2>1. CASE pc' = "return"
    <3>1. call' = call /\ call.data = SubSeq(content, call.start + 1,
                                 Lesser(call.start + call.len, Len(content)))
      BY <1>3, <1>8, <1>9, <2>1
    <3> QED BY <1>4, <1>5, <2>1, <3>1 DEF Reads
  <2>2. CASE pc' # "return"
    <3>1. /\ file.pos = call.start + Len(call.data)
          /\ \A j \in 1 .. Len(call.data) : call.data[j] = content[call.start + j]
          /\ file.pos <= file.length \/ call.data = <<>>
      BY <1>5, <1>9, Zenon DEF Reads
    <3> QED BY <1>1, <1>3, <1>4, <2>2, <3>1, Zenon DEF Reads
  <2> QED BY <2>1, <2>2
<1>10. Known /\ Reads => Reads'
  BY <1>9, Zenon DEF Faithful
<1> QED BY <1>1, <1>3, <1>4, <1>5, <1>6, <1>7, <1>10, FaithfulStays

(* A step of a call that is no read, in the file as it is. *)
LEMMA CallGoesOn ==
  ASSUME Faithful, file' = file, chunks' = chunks, stored' = stored, history' = history,
         At' = At, At \notin {"readv", "page_read"}, call.op # "read", call'.op = call.op,
         From' = From,
         call'.data = call.data, pc # "return", pc' # "return"
  PROVE  Faithful'
<1>1. /\ content' = content /\ unsaved' = unsaved /\ (Known' => Known)
  BY HistoryStays
<1>2. Writing' <=> Writing
  BY DEF Writing
<1>3. Known /\ Reads => Reads'
  BY DEF Reads
<1> QED BY <1>1, <1>2, <1>3, FaithfulStays

LEMMA NeedPageFaithful == ASSUME Typed, Control, Faithful, NeedPage PROVE Faithful'
<1>1. /\ pc \in {"writev", "put", "fill"} /\ GoVia("refresh", pc) /\ file' = file
      /\ chunks' = chunks /\ stored' = stored /\ history' = history
  BY Zenon DEF NeedPage, server
<1>2. /\ pc' = "refresh" /\ call'.back = pc /\ call'.op = call.op /\ call'.goal = call.goal
      /\ call'.data = call.data
  BY <1>1, GoViaIs DEF Backs
<1>3. At' = At /\ At \in {"writev", "put", "fill"}
  BY <1>1, <1>2 DEF At
<1>4. call.op = "write" /\ From' = From
  BY <1>1, <1>2, <1>3 DEF Control, Course, From
<1> QED BY <1>1, <1>2, <1>3, <1>4, CallGoesOn

LEMMA FlushBeforeSeekFaithful ==
  ASSUME Typed, Control, Faithful, FlushBeforeSeek PROVE Faithful'
<1>1. /\ pc = "seek" /\ GoVia("flush", "seek") /\ file' = file
      /\ chunks' = chunks /\ stored' = stored /\ history' = history
  BY Zenon DEF FlushBeforeSeek, server
<1>2. /\ pc' = "flush" /\ call'.back = "seek" /\ call'.op = call.op /\ call'.goal = call.goal
      /\ call'.data = call.data
  BY <1>1, GoViaIs DEF Backs
<1>3. At' = At /\ At = "seek"
  BY <1>1, <1>2 DEF At
<1>4. call.op # "read" /\ From' = From
  BY <1>1, <1>2, <1>3 DEF Control, Course, From
<1> QED BY <1>1, <1>2, <1>3, <1>4, CallGoesOn

LEMMA InnerSaveCleanFaithful ==
  ASSUME Typed, Control, Faithful, InnerSaveClean PROVE Faithful'
<1>1. /\ pc = "inner_save" /\ pc' = call.back /\ call' = call /\ file' = file
      /\ chunks' = chunks /\ stored' = stored /\ history' = history
  BY Zenon DEF InnerSaveClean, Go, server
<1>2. call.back \in {"put", "fill", "seek", "save_file"}
  BY <1>1 DEF Control, Course
<1>3. At' = At /\ At \in {"put", "fill", "seek", "save_file"}
  BY <1>1, <1>2 DEF At
<1>4. call.op # "read" /\ From' = From
  BY <1>1, <1>3 DEF Control, Course, From
<1> QED BY <1>1, <1>2, <1>3, <1>4, CallGoesOn

LEMMA WritevFaithful == ASSUME Typed, Control, Faithful, Writev PROVE Faithful'
<1>1. /\ pc = "writev" /\ file' = file /\ chunks' = chunks /\ stored' = stored
      /\ history' = history
      /\ \/ pc' = "seek" /\ call' = Aimed(call, file.pos, file.length)
         \/ pc' = "put" /\ ~ (file.pos > file.length) /\ call' = call
  BY Zenon DEF Writev, server, PastEnd, Aimed
<1>2. /\ call'.op = call.op /\ call'.data = call.data
      /\ pc' = "seek" => call'.goal = file.pos
      /\ pc' = "put" => call'.goal = call.goal
  <2> DEFINE d == Aimed(call, file.pos, file.length)
  <2>1. d.op = call.op /\ d.data = call.data /\ d.goal = file.pos
    <3>1. call \in CallType /\ file.pos \in Nat \cup {None} /\ file.length \in Nat \cup {None}
      BY FileSorts, CallSorts
    <3> QED BY <3>1, CallAim, ZenonT(60)
  <2> HIDE DEF d
  <2>2. (pc' = "seek" /\ call' = d) \/ (pc' = "put" /\ call' = call)
    BY <1>1 DEF d
  <2> QED BY <2>1, <2>2
<1>3. At = "writev" /\ At' \in {"seek", "put"} /\ pc' \in {"seek", "put"}
      /\ (At' = "put" => pc' = "put")
  BY <1>1 DEF At
<1>4. call.op = "write" /\ call.goal = None
  BY <1>3 DEF Control, Course, Gap
<1>5. From = file.pos /\ From' = file.pos
  BY <1>1, <1>2, <1>3, <1>4 DEF From
<1>6. Writing /\ Writing'
  BY <1>1, <1>2, <1>3, <1>4 DEF Writing
<1>7. /\ content' = content /\ unsaved' = unsaved /\ (Known' => Known)
  BY <1>1, HistoryStays
<1>8. Reads'
  BY <1>3, NoReading DEF Reads
<1>9. At' = "put" => file.pos <= file.length
  BY <1>1, <1>3, FileSorts
<1> QED BY <1>1, <1>2, <1>3, <1>4, <1>5, <1>6, <1>7, <1>8, <1>9, FaithfulStays

LEMMA ReadBehindPageFaithful ==
  ASSUME Typed, Control, Faithful, ReadBehindPage PROVE Faithful'
<1>1. /\ pc = "page_read" /\ pc' = "crashed" /\ call' = call /\ file' = file
      /\ chunks' = chunks /\ stored' = stored /\ history' = history
  BY Zenon DEF ReadBehindPage, server
<1>2. At = "page_read" /\ At' = "crashed" /\ From' = From
  BY <1>1 DEF At, From
<1>3. call.op = "read" /\ ~ Writing /\ ~ Writing'
  BY <1>1, <1>2 DEF Control, Course, Writing
<1>4. /\ content' = content /\ unsaved' = unsaved /\ (Known' => Known)
  BY <1>1, HistoryStays
<1>5. Reads'
  BY <1>1, <1>2 DEF Reads
<1> QED BY <1>1, <1>2, <1>3, <1>4, <1>5, FaithfulStays

(* The cursor moves, and the file with its page stays. *)
LEMMA CursorFaithful ==
  ASSUME Typed, Faithful, NEW c \in CursorType, file' = WithCursor(c), chunks' = chunks,
         stored' = stored, content' = content, unsaved' = unsaved, Known' => Known,
         pc = "next", pc' = pc, call' = call
  PROVE  Faithful'
<1>1. /\ file'.page = file.page /\ file'.n = file.n /\ file'.length = file.length
      /\ file'.pos = file.pos /\ file'.dirty = file.dirty
  BY WithCursorIs
<1>2. At' = At /\ From' = From
  BY <1>1 DEF At, From
<1>3. Writing' <=> Writing
  BY DEF Writing
<1>4. Reads => Reads'
  BY <1>1, <1>2 DEF Reads
<1> QED BY <1>1, <1>2, <1>3, <1>4, FaithfulStays

LEMMA FetchFaithful == ASSUME Typed, Control, Faithful, Fetch PROVE Faithful'
<1>1. /\ pc = "next" /\ server' = server /\ pc' = pc /\ call' = call /\ history' = history
      /\ \E c \in CursorType : file' = WithCursor(c)
  BY FetchIs, Zenon DEF MustFetch
<1>2. PICK c \in CursorType : file' = WithCursor(c)
  BY <1>1
<1>3. /\ content' = content /\ unsaved' = unsaved /\ (Known' => Known)
      /\ chunks' = chunks /\ stored' = stored
  BY <1>1, HistoryStays DEF server
<1> QED BY <1>1, <1>2, <1>3, CursorFaithful

(* A call that fails: a write leaves the file in doubt, any other as it is. *)
LEMMA FailFaithful ==
  ASSUME Typed, Control, Faithful, Fail, At # "remove_chunks",
         file'.page = file.page, file'.n = file.n, file'.length = file.length,
         file'.pos = file.pos, chunks' = chunks, lost' = lost, stale' = stale,
         removed' = removed,
         (file'.dirty = file.dirty /\ stored' = stored /\ unsaved' = unsaved) \/ unsaved'
  PROVE  Faithful'
<1>1. /\ torn' = (torn \/ call.op = "write")
      /\ content' = (IF call.op = "write" THEN <<>> ELSE content)
      /\ \/ call.goal = None /\ pc' = "return" /\ result' = "error" /\ call' = call
         \/ call.goal # None
  BY FailIs, Zenon
<1>2. CASE call.op = "write"
  BY <1>1, <1>2, Zenon DEF Faithful, Known
<1>3. CASE call.op # "write"
  <2>1. call.goal = None /\ At \notin {"put", "fill"}
    BY <1>3 DEF Control, Course, Gap
  <2>2. /\ pc' = "return" /\ result' = "error" /\ call' = call /\ content' = content
        /\ (Known' => Known)
    BY <1>1, <1>3, <2>1, Zenon DEF Known
  <2>3. At' = "return" /\ ~ Writing /\ ~ Writing' /\ From' = From
    BY <1>3, <2>1, <2>2 DEF At, Writing, From
  <2> SUFFICES ASSUME Known PROVE Holds' /\ Expected' /\ Filling' /\ Saved' /\ Reads'
    BY <2>2, Zenon DEF Faithful
  <2>4. Holds /\ Expected /\ Saved
    BY Zenon DEF Faithful
  <2>5. Holds' /\ Expected'
    BY <2>1, <2>2, <2>3, <2>4, HeldStays
  <2>6. Filling' /\ Reads'
    BY <2>2, <2>3 DEF Filling, Reads
  <2>7. Saved'
    BY <2>1, <2>2, <2>4 DEF Saved
  <2> QED BY <2>5, <2>6, <2>7
<1> QED BY <1>2, <1>3

LEMMA NoChunkFaithful == ASSUME Typed, Control, Faithful, NoChunk PROVE Faithful'
<1>1. /\ pc = "next" /\ Fail /\ chunks' = chunks /\ stored' = stored
      /\ lost' = lost /\ stale' = stale /\ unsaved' = unsaved /\ removed' = removed
      /\ \E c \in {file.cursor, NoCursor} : file' = WithCursor(c)
  BY NoChunkSteps, Zenon DEF server
<1>2. PICK c \in {file.cursor, NoCursor} : file' = WithCursor(c)
  BY <1>1
<1>3. c \in CursorType
  BY FileSorts, CursorTypes
<1>4. /\ file'.page = file.page /\ file'.n = file.n /\ file'.length = file.length
      /\ file'.pos = file.pos /\ file'.dirty = file.dirty
  BY <1>2, <1>3, WithCursorIs
<1>5. At # "remove_chunks"
  BY <1>1 DEF At, Control, Course
<1> QED BY <1>1, <1>4, <1>5, FailFaithful

LEMMA UpdateFileFaithful == ASSUME Typed, Control, Faithful, UpdateFile PROVE Faithful'
<1>1. /\ MustUpdateFile /\ stored' = file.length /\ file' = [file EXCEPT !.dirty = FALSE]
      /\ chunks' = chunks /\ content' = content /\ lost' = lost /\ stale' = stale
      /\ torn' = torn /\ removed' = removed /\ call' = call
      /\ \/ pc = "save_file" /\ pc' = "return"
         \/ pc = "inner_save" /\ pc' = call.back
  BY Zenon DEF UpdateFile, MustUpdateFile, Go, End
<1>2. /\ file'.page = file.page /\ file'.length = file.length /\ file'.pos = file.pos
      /\ file'.n = file.n /\ file'.dirty = FALSE
  BY <1>1, Cleaned
<1>3. ~ file.page.written
  BY <1>1, NoPageIs DEF Control, Paging
<1>4. \/ At = "save_file" /\ At' = "return" /\ call.op = "save" /\ call.goal = None
      \/ pc' # "return" /\ At' = At /\ At \in {"put", "fill", "seek", "save_file"}
  BY <1>1 DEF Control, Course, Gap, At
<1> SUFFICES ASSUME Known PROVE Holds' /\ Expected' /\ Filling' /\ Saved' /\ Reads'
  BY <1>1, Zenon DEF Faithful, Known
<1>5. Holds /\ Expected /\ Filling
  BY Zenon DEF Faithful
<1>6. From' = From /\ (Writing' <=> Writing)
  BY <1>1, <1>2, <1>4 DEF From, Writing
<1>7. Holds' /\ Expected'
  BY <1>1, <1>2, <1>4, <1>5, <1>6, HeldStays
<1>8. Filling'
  BY <1>2, <1>4, <1>5 DEF Filling
<1>9. Saved'
  BY <1>1, <1>2, <1>3 DEF Saved
<1>10. Reads'
  BY <1>1, <1>4 DEF Reads
<1> QED BY <1>7, <1>8, <1>9, <1>10

LEMMA RemoveFileFaithful == ASSUME Typed, Control, Faithful, RemoveFile PROVE Faithful'
<1>1. /\ pc = "remove_file" /\ pc' = "remove_chunks" /\ call' = call
      /\ chunks' = chunks /\ file' = file /\ history' = history
  BY Zenon DEF RemoveFile, Go
<1>2. content' = content /\ (Known' => Known)
  BY <1>1, HistoryStays
<1>3. At = "remove_file" /\ At' = "remove_chunks" /\ From' = From
  BY <1>1 DEF At, From
<1>4. ~ Writing /\ ~ Writing'
  BY <1>1, <1>3 DEF Control, Course, Writing
<1> SUFFICES ASSUME Known PROVE Holds' /\ Expected' /\ Filling' /\ Saved' /\ Reads'
  BY <1>2, Zenon DEF Faithful
<1>5. Holds /\ Expected
  BY Zenon DEF Faithful
<1>6. Holds' /\ Expected'
  BY <1>1, <1>2, <1>3, <1>4, <1>5, HeldStays
<1>7. Filling' /\ Saved' /\ Reads'
  BY <1>1, <1>3 DEF Filling, Saved, Reads
<1> QED BY <1>6, <1>7

LEMMA RemoveChunksFaithful == ASSUME RemoveChunks PROVE Faithful'
<1>1. removed'
  BY Zenon DEF RemoveChunks
<1> QED BY <1>1, Zenon DEF Faithful, Known

(* The excluded part of the bytes is empty wherever it begins. *)
LEMMA BytesAnywhere ==
  ASSUME NEW cs, NEW pg, NEW n, NEW len, NEW bytes, NEW a \in Int, NEW b \in Int,
         Bytes(cs, pg, n, len, bytes, a, a)
  PROVE  Bytes(cs, pg, n, len, bytes, b, b)
<1> SUFFICES ASSUME NEW k \in Nat, NEW j \in 1 .. ChunkSize, Begin(k) + j <= len
             PROVE  PartOf(cs, pg, n, k)[j] = bytes[Begin(k) + j]
  BY Zenon DEF Bytes
<1>1. ~ (a < Begin(k) + j /\ Begin(k) + j <= a)
  <2>1. Begin(k) \in Nat /\ j \in Nat
    BY BeginNext, Sizes
  <2> QED BY <2>1
<1> QED BY <1>1, Zenon DEF Bytes

(* A page that was not written to can be let go, and a written one moved in. *)
LEMMA PageAlike ==
  ASSUME NEW cs, NEW pg, NEW n, NEW p, NEW m, NEW len, NEW bytes, NEW lo, NEW hi,
         \/ ~ pg.written /\ ~ p.written
         \/ m = n /\ p.written = pg.written /\ p.data = pg.data,
         p # NoPage => Len(p.data) = SizeOf(m, len),
         Exact(cs, pg, n, len), Bytes(cs, pg, n, len, bytes, lo, hi)
  PROVE  Exact(cs, p, m, len) /\ Bytes(cs, p, m, len, bytes, lo, hi)
<1>1. \A k : Held(p, m, k) <=> Held(pg, n, k)
  BY Zenon DEF Held
<1>2. \A k : PartOf(cs, p, m, k) = PartOf(cs, pg, n, k)
  <2> SUFFICES ASSUME NEW k PROVE PartOf(cs, p, m, k) = PartOf(cs, pg, n, k)
    OBVIOUS
  <2>1. CASE Held(pg, n, k)
    <3>1. PartOf(cs, p, m, k) = p.data /\ PartOf(cs, pg, n, k) = pg.data /\ p.data = pg.data
      BY <1>1, <2>1, Zenon DEF PartOf, Held
    <3> QED BY <3>1
  <2>2. CASE ~ Held(pg, n, k)
    BY <1>1, <2>2, Zenon DEF PartOf
  <2> QED BY <2>1, <2>2
<1>3. Exact(cs, p, m, len)
  BY <1>1, Zenon DEF Exact
<1>4. Bytes(cs, p, m, len, bytes, lo, hi)
  BY <1>2, Zenon DEF Bytes
<1> QED BY <1>3, <1>4

LEMMA SeekPageFaithful == ASSUME Typed, Control, Faithful, SeekPage PROVE Faithful'
<1>1. /\ pc = "seek" /\ file' = Sought /\ server' = server /\ history' = history
      /\ call'.op = call.op /\ call'.goal = call.goal /\ call'.data = call.data
      /\ \/ call.op = "seek" /\ pc' = "return"
         \/ call.op = "write" /\ pc' = "fill"
      /\ call.target \in 0 .. MaxLength /\ (SamePage \/ ~ file.page.written)
  BY SeekPageSteps, Zenon
<1>2. /\ file'.length = file.length /\ file'.pos = call.target /\ file'.dirty = file.dirty
      /\ \/ file'.page = NoPage /\ ~ file.page.written
         \/ /\ file.page # NoPage /\ file'.page # NoPage /\ file'.n = file.n
            /\ file'.page.data = file.page.data /\ file'.page.written = file.page.written
  BY <1>1, SoughtIs
<1>3. content' = content /\ unsaved' = unsaved /\ (Known' => Known)
      /\ chunks' = chunks /\ stored' = stored
  BY <1>1, HistoryStays DEF server
<1>4. /\ At = "seek" /\ At' \in {"fill", "return"} /\ (At' = "fill" <=> call.op = "write")
      /\ pc' = At'
  BY <1>1 DEF At
<1>5. /\ call.op = "write" => call.goal = file.pos /\ call.target = file.length
      /\ call.op = "seek" => call.goal = None
  BY <1>4 DEF Control, Gap
<1> SUFFICES ASSUME Known PROVE Holds' /\ Expected' /\ Filling' /\ Saved' /\ Reads'
  BY <1>3, Zenon DEF Faithful
<1>6. Holds /\ Expected /\ Saved
  BY Zenon DEF Faithful
<1>7. Reach = file.length /\ Reach' = file.length
  BY <1>1, <1>2, <1>4, <1>5 DEF Reach
<1>8. (Writing <=> call.op = "write") /\ (Writing' <=> Writing)
  BY <1>1, <1>4 DEF Writing
<1>9. Bytes(chunks, file.page, file.n, file.length, content, From', To')
  <2>1. CASE call.op = "write"
    <3>1. call.goal # None
      BY <1>5, <2>1, FileSorts DEF None
    <3>2. From' = From /\ From = call.goal
      BY <1>1, <3>1 DEF From
    <3>3. To' = To
      BY <1>1, <1>8, <2>1, <3>2 DEF To
    <3> QED BY <1>6, <1>7, <3>2, <3>3, Zenon DEF Holds
  <2>2. CASE call.op = "seek"
    <3>1. From = file.pos /\ From' = call.target /\ To = From /\ To' = From'
      BY <1>1, <1>2, <1>5, <1>8, <2>2 DEF From, To
    <3>2. file.pos \in Int /\ call.target \in Int
      BY <1>1, FileSorts, Sizes
    <3>3. Bytes(chunks, file.page, file.n, file.length, content, file.pos, file.pos)
      BY <1>6, <1>7, <3>1, Zenon DEF Holds
    <3>4. Bytes(chunks, file.page, file.n, file.length, content, call.target, call.target)
      BY <3>2, <3>3, BytesAnywhere
    <3> QED BY <3>1, <3>4
  <2> QED BY <1>1, <2>1, <2>2
<1>10. Exact(chunks, file.page, file.n, file.length)
  BY <1>6, <1>7, Zenon DEF Holds
<1>11. \/ ~ file.page.written /\ ~ file'.page.written
       \/ file'.n = file.n /\ file'.page.written = file.page.written
          /\ file'.page.data = file.page.data
  BY <1>2, NoPageIs
<1>12. file'.page # NoPage => Len(file'.page.data) = SizeOf(file'.n, file.length)
  BY <1>2, <1>10, Zenon DEF Exact
<1>13. /\ Exact(chunks, file'.page, file'.n, file.length)
       /\ Bytes(chunks, file'.page, file'.n, file.length, content, From', To')
  BY <1>9, <1>10, <1>11, <1>12, PageAlike
<1>14. Holds'
  BY <1>3, <1>7, <1>13, Zenon DEF Holds
<1>15. Expected'
  <2>1. CASE Writing
    <3>1. call.goal # None /\ From' = From /\ call.op = "write"
      BY <1>1, <1>5, <1>8, <2>1, FileSorts DEF From, None
    <3>2. To' = To
      BY <1>1, <1>8, <2>1, <3>1 DEF To
    <3>3. /\ Len(content) = Greater(file.length, To)
          /\ \A j \in 1 .. Len(call.data) : content[From + j] = call.data[j]
          /\ \A i \in Nat : file.length < i /\ i <= From => content[i] = 0
      BY <1>6, <2>1, Zenon DEF Expected
    <3> QED BY <1>1, <1>2, <1>3, <1>8, <2>1, <3>1, <3>2, <3>3, Zenon DEF Expected
  <2>2. CASE ~ Writing
    BY <1>2, <1>3, <1>6, <1>8, <2>2, Zenon DEF Expected
  <2> QED BY <2>1, <2>2
<1>16. Filling'
  BY <1>2, <1>4, <1>5, FileSorts DEF Filling
<1>17. Saved'
  <2>1. file'.page.written = file.page.written
    BY <1>2, NoPageIs, FileSorts
  <2> QED BY <1>1, <1>2, <1>3, <1>4, <1>6, <2>1 DEF Saved
<1>18. Reads'
  BY <1>1, <1>4 DEF Reads
<1> QED BY <1>14, <1>15, <1>16, <1>17, <1>18

(* A written page that goes to the chunks. *)
LEMMA FlushedExact ==
  ASSUME Typed, Control, pc = "flush", NEW len \in Nat, NEW bytes, NEW lo, NEW hi,
         Exact(chunks, file.page, file.n, len),
         Bytes(chunks, file.page, file.n, len, bytes, lo, hi)
  PROVE  /\ Exact(AfterUpdate, NoPage, file.n, len)
         /\ Bytes(AfterUpdate, NoPage, file.n, len, bytes, lo, hi)
         /\ Exact(AfterUpdate, file.page, file.n, len)
         /\ Bytes(AfterUpdate, file.page, file.n, len, bytes, lo, hi)
<1>1. file.page.written /\ file.page # NoPage /\ file.n \in 0 .. MaxLength
  <2>1. file.page.written
    BY DEF Control, Paging
  <2> QED BY <2>1, FileSorts, WrittenBound
<1> DEFINE cs == AfterUpdate
<1>2. /\ DOMAIN cs = DOMAIN chunks \cup {file.n} /\ cs[file.n] = file.page.data
      /\ \A k \in DOMAIN chunks : k # file.n => cs[k] = chunks[k]
  BY <1>1, AfterUpdateIs
<1> HIDE DEF cs
<1>3. /\ \A k : Held(file.page, file.n, k) <=> k = file.n
      /\ \A k : ~ Held(NoPage, file.n, k)
  BY <1>1, NoPageIs, Zenon DEF Held
<1>4. /\ \A k \in DOMAIN chunks : k # file.n => Len(chunks[k]) = SizeOf(k, len)
      /\ \A k \in Nat : Begin(k) < len /\ k # file.n => k \in DOMAIN chunks
      /\ Len(file.page.data) = SizeOf(file.n, len)
  BY <1>1, <1>3, Zenon DEF Exact
<1>5. /\ \A k \in DOMAIN cs : Len(cs[k]) = SizeOf(k, len)
      /\ \A k \in Nat : Begin(k) < len => k \in DOMAIN cs
  BY <1>2, <1>4, Zenon
<1>6. Exact(cs, NoPage, file.n, len) /\ Exact(cs, file.page, file.n, len)
  BY <1>4, <1>5, Zenon DEF Exact
<1>7. \A k \in Nat : Begin(k) < len =>
        /\ PartOf(cs, NoPage, file.n, k) = PartOf(chunks, file.page, file.n, k)
        /\ PartOf(cs, file.page, file.n, k) = PartOf(chunks, file.page, file.n, k)
  <2> SUFFICES ASSUME NEW k \in Nat, Begin(k) < len
               PROVE  /\ PartOf(cs, NoPage, file.n, k) = PartOf(chunks, file.page, file.n, k)
                      /\ PartOf(cs, file.page, file.n, k) = PartOf(chunks, file.page, file.n, k)
    OBVIOUS
  <2>1. PartOf(cs, NoPage, file.n, k) = cs[k]
    BY <1>3, Zenon DEF PartOf
  <2>2. CASE k = file.n
    <3>1. /\ PartOf(cs, file.page, file.n, k) = file.page.data
          /\ PartOf(chunks, file.page, file.n, k) = file.page.data
      BY <1>3, <2>2, Zenon DEF PartOf
    <3> QED BY <1>2, <2>1, <2>2, <3>1
  <2>3. CASE k # file.n
    <3>1. PartOf(cs, file.page, file.n, k) = cs[k] /\ PartOf(chunks, file.page, file.n, k) = chunks[k]
      BY <1>3, <2>3, Zenon DEF PartOf
    <3>2. cs[k] = chunks[k]
      BY <1>2, <1>4, <2>3
    <3> QED BY <2>1, <3>1, <3>2
  <2> QED BY <2>2, <2>3
<1>8. \A k \in Nat : \A j \in 1 .. ChunkSize : Begin(k) + j <= len => Begin(k) < len
  <2> SUFFICES ASSUME NEW k \in Nat, NEW j \in 1 .. ChunkSize, Begin(k) + j <= len
               PROVE  Begin(k) < len
    OBVIOUS
  <2>1. Begin(k) \in Nat /\ j \in Nat /\ 1 <= j
    BY BeginNext, Sizes
  <2> QED BY <2>1
<1> QED BY <1>6, <1>7, <1>8, Zenon DEF Bytes, cs

LEMMA ReachIs == ASSUME Typed PROVE Reach \in Nat
  BY FileSorts DEF Reach

LEMMA UpdateChunkFaithful == ASSUME Typed, Control, Faithful, UpdateChunk PROVE Faithful'
<1>1. /\ pc = "flush" /\ pc' = "inner_save" /\ call' = call /\ result' = result
      /\ chunks' = AfterUpdate /\ file' = [file EXCEPT !.page = NoPage]
      /\ stored' = stored /\ history' = history
  BY Zenon DEF UpdateChunk, Go
<1>2. /\ file'.page = NoPage /\ file'.length = file.length /\ file'.pos = file.pos
      /\ file'.n = file.n /\ file'.dirty = file.dirty
  BY <1>1, Unpaged
<1>3. content' = content /\ unsaved' = unsaved /\ (Known' => Known)
  BY <1>1, HistoryStays
<1>4. At' = At /\ At \in {"put", "fill", "seek", "save_file"}
  BY <1>1 DEF Control, Course, At
<1>5. From' = From /\ (Writing' <=> Writing)
  BY <1>1, <1>2 DEF From, Writing
<1>6. To' = To /\ Reach' = Reach
  BY <1>1, <1>2, <1>4, <1>5, Zenon DEF To, Reach
<1> SUFFICES ASSUME Known PROVE Holds' /\ Expected' /\ Filling' /\ Saved' /\ Reads'
  BY <1>3, Zenon DEF Faithful
<1>7. Holds /\ Expected /\ Filling /\ Saved
  BY Zenon DEF Faithful
<1>8. /\ Exact(AfterUpdate, NoPage, file.n, Reach)
      /\ Bytes(AfterUpdate, NoPage, file.n, Reach, content, From, To)
  <2>1. /\ Exact(chunks, file.page, file.n, Reach)
        /\ Bytes(chunks, file.page, file.n, Reach, content, From, To)
    BY <1>7, Zenon DEF Holds
  <2> QED BY <1>1, <2>1, ReachIs, FlushedExact
<1>9. Holds'
  BY <1>1, <1>2, <1>3, <1>5, <1>6, <1>8, Zenon DEF Holds
<1>10. Expected'
  BY <1>1, <1>2, <1>3, <1>5, <1>6, <1>7, Zenon DEF Expected
<1>11. Filling'
  <2>1. At = "fill" => \E k \in Nat : file.pos = Begin(k)
    <3> SUFFICES ASSUME At = "fill" PROVE \E k \in Nat : file.pos = Begin(k)
      OBVIOUS
    <3>1. file.page.offset = ChunkSize /\ file.page.written
      BY <1>1 DEF Control, Paging, At
    <3>2. file.pos = Begin(file.n) + ChunkSize /\ file.n \in Nat
      BY <3>1, FileSorts
    <3>3. file.pos = Begin(file.n + 1) /\ file.n + 1 \in Nat
      BY <3>2, BeginNext
    <3> QED BY <3>3
  <2> QED BY <1>2, <1>4, <1>7, <2>1 DEF Filling
<1>12. Saved'
  <2>1. ~ file'.page.written
    BY <1>2, NoPageIs
  <2> QED BY <1>1, <1>2, <1>3, <1>4, <1>7, <2>1 DEF Saved
<1>13. Reads'
  BY <1>1, <1>4 DEF Reads
<1> QED BY <1>9, <1>10, <1>11, <1>12, <1>13

LEMMA ServerFailsFaithful == ASSUME Typed, Control, Faithful, ServerFails PROVE Faithful'
<1>1. Fail /\ lost' = lost /\ stale' = stale
  BY ServerFailsSteps
<1>2. CASE MustFetch /\ file' = [file EXCEPT !.cursor.failed = TRUE]
           /\ chunks' = chunks /\ stored' = stored /\ unsaved' = unsaved /\ removed' = removed
  <2>1. /\ file'.page = file.page /\ file'.n = file.n /\ file'.length = file.length
        /\ file'.pos = file.pos /\ file'.dirty = file.dirty /\ pc = "next"
    BY <1>2, MustFetchCursor, CursorFailed
  <2>2. At # "remove_chunks"
    BY <2>1 DEF At, Control, Course
  <2> QED BY <1>1, <1>2, <2>1, <2>2, FailFaithful
<1>3. CASE pc = "flush" /\ chunks' \in {chunks, AfterUpdate}
           /\ stored' = stored /\ file' = file /\ unsaved' = unsaved /\ removed' = removed
  <2>1. At # "remove_chunks"
    BY <1>3 DEF At, Control, Course
  <2>2. CASE chunks' = chunks
    BY <1>1, <1>3, <2>1, <2>2, FailFaithful
  <2>3. CASE chunks' = AfterUpdate
    <3>1. /\ torn' = (torn \/ call.op = "write")
          /\ content' = (IF call.op = "write" THEN <<>> ELSE content)
          /\ \/ call.goal = None /\ pc' = "return" /\ result' = "error" /\ call' = call
             \/ call.goal # None
      BY <1>1, FailIs, Zenon
    <3>2. CASE call.op = "write"
      BY <3>1, <3>2, Zenon DEF Faithful, Known
    <3>3. CASE call.op # "write"
      <4>1. call.goal = None /\ At \notin {"put", "fill"}
        BY <3>3 DEF Control, Course, Gap
      <4>2. /\ pc' = "return" /\ result' = "error" /\ call' = call /\ content' = content
            /\ (Known' => Known)
        BY <1>1, <1>3, <3>1, <3>3, <4>1, Zenon DEF Known
      <4>3. At' = "return" /\ ~ Writing /\ ~ Writing' /\ From' = From
        BY <1>3, <3>3, <4>1, <4>2 DEF At, Writing, From
      <4>4. Reach' = Reach /\ To' = To
        BY <1>3, <4>1, <4>3, Zenon DEF Reach, To
      <4> SUFFICES ASSUME Known PROVE Holds' /\ Expected' /\ Filling' /\ Saved' /\ Reads'
        BY <4>2, Zenon DEF Faithful
      <4>5. Holds /\ Expected /\ Saved
        BY Zenon DEF Faithful
      <4>6. /\ Exact(AfterUpdate, file.page, file.n, Reach)
            /\ Bytes(AfterUpdate, file.page, file.n, Reach, content, From, To)
        <5>1. /\ Exact(chunks, file.page, file.n, Reach)
              /\ Bytes(chunks, file.page, file.n, Reach, content, From, To)
          BY <4>5, Zenon DEF Holds
        <5> QED BY <1>3, <5>1, ReachIs, FlushedExact
      <4>7. Holds'
        BY <1>3, <2>3, <4>2, <4>3, <4>4, <4>6, Zenon DEF Holds
      <4>8. Expected'
        BY <1>3, <4>2, <4>3, <4>5, Zenon DEF Expected
      <4>9. Filling' /\ Reads'
        BY <4>2, <4>3 DEF Filling, Reads
      <4>10. Saved'
        BY <1>3, <2>1, <4>1, <4>2, <4>5 DEF Saved
      <4> QED BY <4>7, <4>8, <4>9, <4>10
    <3> QED BY <3>2, <3>3
  <2> QED BY <1>3, <2>2, <2>3
<1>4. CASE MustUpdateFile /\ file' = [file EXCEPT !.dirty = FALSE] /\ unsaved' = TRUE
           /\ chunks' = chunks /\ removed' = removed
  <2>1. /\ file'.page = file.page /\ file'.length = file.length /\ file'.pos = file.pos
        /\ file'.n = file.n
    BY <1>4, Cleaned
  <2>2. At # "remove_chunks"
    BY <1>4 DEF At, Control, Course, MustUpdateFile
  <2> QED BY <1>1, <1>4, <2>1, <2>2, FailFaithful
<1>5. CASE pc = "remove_file" /\ stored' \in {stored, None}
           /\ unsaved' = (unsaved \/ stored' # stored)
           /\ chunks' = chunks /\ file' = file /\ removed' = removed
  <2>1. At # "remove_chunks"
    BY <1>5 DEF At
  <2>2. (file'.dirty = file.dirty /\ stored' = stored /\ unsaved' = unsaved) \/ unsaved'
    <3>1. unsaved \in BOOLEAN
      BY DEF Typed
    <3> QED BY <1>5, <3>1
  <2> QED BY <1>1, <1>5, <2>1, <2>2, FailFaithful
<1>6. CASE pc = "remove_chunks" /\ removed' = TRUE
  BY <1>6, Zenon DEF Faithful, Known
<1> QED BY <1>2, <1>3, <1>4, <1>5, <1>6, ServerFailsSteps, Zenon

LEMMA RefreshFaithful == ASSUME Typed, Control, Faithful, Refresh PROVE Faithful'
<1>1. /\ pc = "refresh" /\ lost' = (lost \/ file.page.written)
      /\ content' = (IF file.page.written THEN <<>> ELSE content)
      /\ chunks' = chunks /\ stored' = stored /\ stale' = stale /\ torn' = torn
      /\ unsaved' = unsaved /\ removed' = removed /\ call' = call
      /\ file'.n = file.pos \div ChunkSize
      /\ file'.length = file.length /\ file'.pos = file.pos /\ file'.dirty = file.dirty
      /\ \/ /\ Begin(file'.n) >= file.length /\ file'.page = PageFor(<<>>, file.pos)
            /\ pc' = call.back
         \/ file'.page = NoPage /\ pc' = "next"
  BY RefreshSteps DEF server
<1>2. call.back \in {"page_read", "writev", "put", "fill"}
  BY <1>1 DEF Control, Course
<1>3. /\ At' = At /\ At = call.back /\ pc' # "return"
  BY <1>1, <1>2 DEF At
<1> SUFFICES ASSUME Known'  PROVE Holds' /\ Expected' /\ Filling' /\ Saved' /\ Reads'
  BY Zenon DEF Faithful
<1>4. ~ file.page.written /\ Known /\ content' = content
  BY <1>1, Zenon DEF Known
<1>5. Holds /\ Expected /\ Filling /\ Saved /\ Reads
  BY <1>4, Zenon DEF Faithful
<1>6. From' = From /\ (Writing' <=> Writing)
  BY <1>1, <1>3 DEF From, Writing
<1>7. To' = To /\ Reach' = Reach
  BY <1>1, <1>3, <1>6, Zenon DEF To, Reach
<1>8. /\ file'.page.written = FALSE
      /\ file'.page # NoPage => Len(file'.page.data) = 0 /\ Begin(file'.n) >= file.length
  <2> DEFINE nothing == <<>>
  <2>1. nothing \in Seq(Int) /\ Len(nothing) = 0
    BY EmptySeq
  <2> HIDE DEF nothing
  <2>2. PageFor(nothing, file.pos).data = nothing /\ PageFor(nothing, file.pos).written = FALSE
    BY <2>1, FileSorts, PageForIs, Zenon
  <2>3. \/ file'.page = PageFor(nothing, file.pos) /\ Begin(file'.n) >= file.length
        \/ file'.page = NoPage
    BY <1>1, Zenon DEF nothing
  <2> QED BY <2>1, <2>2, <2>3, NoPageIs
<1>9. file'.page # NoPage => SizeOf(file'.n, Reach) = 0
  <2> SUFFICES ASSUME file'.page # NoPage PROVE SizeOf(file'.n, Reach) = 0
    OBVIOUS
  <2>1. /\ file'.n \in Nat /\ Begin(file'.n) \in Nat /\ file.length <= Begin(file'.n)
        /\ file.length \in Nat /\ file.pos \in Nat
    BY <1>1, <1>8, FileSorts, Division, BeginNext
  <2>2. CASE At # "fill"
    <3>1. Reach = file.length
      BY <2>2 DEF Reach
    <3> QED BY <2>1, <3>1, SizeIs
  <2>3. CASE At = "fill"
    <3>1. file.page = NoPage
      BY <1>1, <1>3, <2>3 DEF Control, Paging
    <3>2. file.pos = file.length \/ \E k \in Nat : file.pos = Begin(k)
      BY <1>5, <2>3, <3>1, Zenon DEF Filling
    <3>3. file.pos <= Begin(file'.n)
      <4>1. CASE file.pos = file.length
        BY <2>1, <4>1
      <4>2. CASE \E k \in Nat : file.pos = Begin(k)
        <5>1. PICK k \in Nat : file.pos = Begin(k)
          BY <4>2
        <5>2. Begin(k) \in Nat /\ file.pos < Begin(k) + ChunkSize
          BY <5>1, BeginNext, Sizes
        <5>3. file.pos \div ChunkSize = k
          BY <2>1, <5>1, <5>2, DivisionUnique
        <5> QED BY <1>1, <2>1, <5>1, <5>3
      <4> QED BY <3>2, <4>1, <4>2
    <3>4. Reach = file.pos
      BY <2>3 DEF Reach
    <3> QED BY <2>1, <3>3, <3>4, SizeIs
  <2> QED BY <2>2, <2>3
<1>10. /\ Exact(chunks, file'.page, file'.n, Reach)
       /\ Bytes(chunks, file'.page, file'.n, Reach, content, From, To)
  <2>1. /\ Exact(chunks, file.page, file.n, Reach)
        /\ Bytes(chunks, file.page, file.n, Reach, content, From, To)
    BY <1>5, Zenon DEF Holds
  <2>2. file'.page # NoPage => Len(file'.page.data) = SizeOf(file'.n, Reach)
    BY <1>8, <1>9
  <2>3. ~ file.page.written /\ ~ file'.page.written
    BY <1>4, <1>8
  <2> QED BY <2>1, <2>2, <2>3, PageAlike
<1>11. Holds'
  BY <1>1, <1>4, <1>6, <1>7, <1>10, Zenon DEF Holds
<1>12. Expected'
  BY <1>1, <1>4, <1>5, <1>6, <1>7, Zenon DEF Expected
<1>13. Filling'
  <2>1. At = "fill" => file.page = NoPage
    BY <1>1, <1>3 DEF Control, Paging
  <2> QED BY <1>1, <1>3, <1>5, <2>1 DEF Filling
<1>14. Saved'
  BY <1>1, <1>3, <1>5, <1>8 DEF Saved
<1>15. Reads'
  BY <1>1, <1>3, <1>4, <1>5 DEF Reads
<1> QED BY <1>11, <1>12, <1>13, <1>14, <1>15

LEMMA NextChunkFaithful == ASSUME Typed, Control, Faithful, NextChunk PROVE Faithful'
<1>1. /\ pc = "next" /\ file.cursor.ahead # <<>>
      /\ chunks' = chunks /\ stored' = stored /\ lost' = lost /\ unsaved' = unsaved
      /\ removed' = removed
  BY NextChunkSteps, Zenon DEF server
<1>2. CASE /\ file' = WithCursor(Advanced) /\ pc' = pc /\ call' = call
           /\ content' = content /\ stale' = stale /\ torn' = torn
  <2>1. Advanced \in CursorType
    BY <1>1, AdvancedIs
  <2>2. Known' => Known
    BY <1>1, <1>2, Zenon DEF Known
  <2> QED BY <1>1, <1>2, <2>1, <2>2, CursorFaithful
<1>3. CASE /\ NextReceived.n = file.n
           /\ file' = [file EXCEPT !.cursor = Advanced,
                         !.page = PageFor(NextReceived.data, file.pos)]
           /\ stale' = (stale \/ NextReceived.data # chunks[file.n])
           /\ content' = IF stale' THEN <<>> ELSE content
           /\ pc' = call.back /\ call' = call /\ torn' = torn
  <2>1. /\ file'.length = file.length /\ file'.pos = file.pos
        /\ file'.n = file.n /\ file'.dirty = file.dirty
        /\ file'.page # NoPage /\ file'.page.written = FALSE
        /\ file'.page.data = NextReceived.data
    BY <1>1, <1>3, ReceivedPage
  <2>2. call.back \in {"page_read", "writev", "put", "fill"}
        /\ file.page = NoPage /\ Begin(file.n) < file.length
    BY <1>1 DEF Control, Course, Paging
  <2>3. /\ At' = At /\ At = call.back /\ pc' # "return"
    BY <1>1, <1>3, <2>2 DEF At
  <2> SUFFICES ASSUME Known'  PROVE Holds' /\ Expected' /\ Filling' /\ Saved' /\ Reads'
    BY Zenon DEF Faithful
  <2>4. Known /\ content' = content /\ NextReceived.data = chunks[file.n]
    BY <1>1, <1>3, Zenon DEF Known
  <2>5. Holds /\ Expected /\ Filling /\ Saved /\ Reads
    BY <2>4, Zenon DEF Faithful
  <2>6. From' = From /\ (Writing' <=> Writing)
    BY <1>1, <1>3, <2>1, <2>3 DEF From, Writing
  <2>7. To' = To /\ Reach' = Reach
    BY <1>3, <2>1, <2>3, <2>6, Zenon DEF To, Reach
  <2>8. /\ Exact(chunks, file.page, file.n, Reach)
        /\ Bytes(chunks, file.page, file.n, Reach, content, From, To)
    BY <2>5, Zenon DEF Holds
  <2>9. ~ file.page.written
    BY <2>2, NoPageIs
  <2>10. Len(file'.page.data) = SizeOf(file.n, Reach)
    <3>1. file.length <= Reach
      BY <2>5, FileSorts DEF Filling, Reach
    <3>2. Begin(file.n) < Reach /\ file.n \in Nat
      BY <2>2, <3>1, FileSorts, ReachIs
    <3>3. ~ Held(file.page, file.n, file.n)
      BY <2>9, Zenon DEF Held
    <3>4. file.n \in DOMAIN chunks /\ Len(chunks[file.n]) = SizeOf(file.n, Reach)
      BY <2>8, <3>2, <3>3, Zenon DEF Exact
    <3> QED BY <2>1, <2>4, <3>4
  <2>11. /\ Exact(chunks, file'.page, file'.n, Reach)
         /\ Bytes(chunks, file'.page, file'.n, Reach, content, From, To)
    BY <2>1, <2>8, <2>9, <2>10, PageAlike
  <2>12. Holds'
    BY <1>1, <2>4, <2>6, <2>7, <2>11, Zenon DEF Holds
  <2>13. Expected'
    BY <1>3, <2>1, <2>4, <2>5, <2>6, <2>7, Zenon DEF Expected
  <2>14. Filling'
    BY <2>1, <2>3, <2>5 DEF Filling
  <2>15. Saved'
    BY <1>1, <2>1, <2>3, <2>5 DEF Saved
  <2>16. Reads'
    BY <1>3, <2>1, <2>3, <2>4, <2>5 DEF Reads
  <2> QED BY <2>12, <2>13, <2>14, <2>15, <2>16
<1>4. CASE file' = WithCursor(NoCursor) /\ Fail /\ stale' = stale
  <2>1. /\ file'.page = file.page /\ file'.n = file.n /\ file'.length = file.length
        /\ file'.pos = file.pos /\ file'.dirty = file.dirty
    BY <1>4, CursorTypes, WithCursorIs
  <2>2. At # "remove_chunks"
    BY <1>1 DEF At, Control, Course
  <2> QED BY <1>1, <1>4, <2>1, <2>2, FailFaithful
<1> QED BY <1>2, <1>3, <1>4, NextChunkSteps, Zenon

(* The bytes of a page are those of the file, wherever it came from. *)
LEMMA PagePart ==
  ASSUME NEW cs, NEW len, NEW pg, NEW n, NEW bound, PageSound(cs, len, pg, n, bound),
         pg # NoPage, NEW j \in 1 .. Len(pg.data)
  PROVE  pg.data[j] = PartOf(cs, pg, n, n)[j]
<1>1. CASE pg.written
  BY <1>1, Zenon DEF PartOf, Held
<1>2. CASE ~ pg.written
  <2>1. pg.data # <<>>
    OBVIOUS
  <2>2. pg.data = cs[n]
    BY <1>2, <2>1, Zenon DEF PageSound
  <2> QED BY <1>2, <2>2, Zenon DEF PartOf, Held
<1> QED BY <1>1, <1>2

(* A byte of a chunk that is no longer than the file has it is in the file. *)
LEMMA ByteWithin ==
  ASSUME NEW n \in Nat, NEW len \in Nat, NEW j \in Nat
  PROVE  1 <= j => (j <= SizeOf(n, len) <=> j <= ChunkSize /\ Begin(n) + j <= len)
<1>1. PICK b \in Nat : b = Begin(n)
  BY BeginNext
<1>2. /\ len <= b => SizeOf(n, len) = 0
      /\ len >= b + ChunkSize => SizeOf(n, len) = ChunkSize
      /\ b <= len /\ len <= b + ChunkSize => SizeOf(n, len) = len - b
  BY <1>1, SizeIs
<1>3. ChunkSize \in Nat
  BY Sizes
<1>4. CASE len <= b
  BY <1>1, <1>2, <1>3, <1>4
<1>5. CASE len >= b + ChunkSize
  BY <1>1, <1>2, <1>3, <1>5
<1>6. CASE b <= len /\ len <= b + ChunkSize
  BY <1>1, <1>2, <1>3, <1>6
<1> QED BY <1>1, <1>3, <1>4, <1>5, <1>6

LEMMA PageReadFaithful ==
  ASSUME Typed, Control, Sound, Faithful, PageRead PROVE Faithful'
<1>1. PICK r \in Nat :
        /\ file.page.offset + r <= Len(file.page.data)
        /\ pc = "page_read" /\ server' = server /\ history' = history /\ result' = result
        /\ file'.length = file.length /\ file'.pos = file.pos + r
        /\ file'.n = file.n /\ file'.dirty = file.dirty
        /\ file'.page # NoPage /\ file.page # NoPage
        /\ file'.page.data = file.page.data /\ file'.page.written = file.page.written
        /\ call'.op = call.op /\ call'.start = call.start
        /\ call'.goal = call.goal /\ call'.back = "page_read"
        /\ Len(call'.data) = Len(call.data) + r
        /\ \A j \in 1 .. Len(call.data) : call'.data[j] = call.data[j]
        /\ \A j \in 1 .. r :
             call'.data[Len(call.data) + j] = file.page.data[file.page.offset + j]
        /\ pc' \in {"readv", "refresh"}
        /\ call'.data \in Seq(Int)
  <2>1. PICK r \in Nat :
        /\ file.page.offset + r <= Len(file.page.data)
        /\ pc = "page_read" /\ server' = server /\ history' = history /\ result' = result
        /\ file'.length = file.length /\ file'.pos = file.pos + r
        /\ file'.n = file.n /\ file'.dirty = file.dirty
        /\ file'.page # NoPage /\ file.page # NoPage
        /\ file'.page.data = file.page.data /\ file'.page.written = file.page.written
        /\ call' \in CallType /\ call'.op = call.op /\ call'.start = call.start
        /\ call'.goal = call.goal /\ call'.back = "page_read"
        /\ Len(call'.data) = Len(call.data) + r
        /\ \A j \in 1 .. Len(call.data) : call'.data[j] = call.data[j]
        /\ \A j \in 1 .. r :
             call'.data[Len(call.data) + j] = file.page.data[file.page.offset + j]
        /\ (pc' = "readv" \/ pc' = "refresh")
    BY PageReadSteps, Zenon
  <2>2. call'.data \in Seq(Int)
    BY <2>1 DEF CallType
  <2> QED BY <2>1, <2>2
<1>2. /\ content' = content /\ unsaved' = unsaved /\ (Known' => Known)
      /\ chunks' = chunks /\ stored' = stored
  BY <1>1, HistoryStays DEF server
<1>3. At = "page_read" /\ At' \in {"readv", "page_read"}
  BY <1>1 DEF At
<1>4. ~ Writing /\ ~ Writing'
  BY <1>1, <1>3 DEF Control, Course, Writing
<1> SUFFICES ASSUME Known PROVE Holds' /\ Expected' /\ Filling' /\ Saved' /\ Reads'
  BY <1>2, Zenon DEF Faithful
<1>5. /\ Holds /\ Expected /\ Saved /\ Reads
      /\ PageSound(chunks, file.length, file.page, file.n, Bound)
  BY Zenon DEF Faithful, Known, Sound, Laid
<1>6. /\ file.length \in Nat /\ file.pos \in Nat /\ file.n \in Nat /\ Begin(file.n) \in Nat
      /\ file.page.offset \in Nat /\ file.pos = Begin(file.n) + file.page.offset
      /\ Len(file.page.data) \in Nat
  BY <1>1, FileSorts
<1>7. From = file.pos /\ From' = file.pos + r /\ To = From /\ To' = From'
  <2>1. call.goal = None
    BY <1>3 DEF Control, Gap
  <2> QED BY <1>1, <1>4, <2>1 DEF From, To
<1>8. Reach = file.length /\ Reach' = file.length
  BY <1>1, <1>3 DEF Reach
<1>9. /\ Exact(chunks, file.page, file.n, file.length)
      /\ Bytes(chunks, file.page, file.n, file.length, content, file.pos, file.pos)
  BY <1>5, <1>7, <1>8, Zenon DEF Holds
<1>10. Holds'
  <2>1. Bytes(chunks, file.page, file.n, file.length, content, file.pos + r, file.pos + r)
    BY <1>6, <1>9, BytesAnywhere
  <2>2. Len(file'.page.data) = SizeOf(file'.n, file.length)
    BY <1>1, <1>9, Zenon DEF Exact
  <2>3. file'.n = file.n /\ file'.page.written = file.page.written
        /\ file'.page.data = file.page.data
    BY <1>1
  <2> DEFINE q == file.pos + r
  <2>4. Bytes(chunks, file.page, file.n, file.length, content, q, q)
    BY <2>1
  <2> HIDE DEF q
  <2>5. /\ Exact(chunks, file'.page, file'.n, file.length)
        /\ Bytes(chunks, file'.page, file'.n, file.length, content, q, q)
    BY <1>9, <2>2, <2>3, <2>4, PageAlike
  <2> QED BY <1>2, <1>7, <1>8, <2>5, Zenon DEF Holds, q
<1>11. Expected'
  BY <1>1, <1>2, <1>4, <1>5, Zenon DEF Expected
<1>12. Filling'
  BY <1>3 DEF Filling
<1>13. Saved'
  BY <1>1, <1>2, <1>3, <1>5 DEF Saved
<1>14. /\ file.pos = call.start + Len(call.data)
       /\ \A j \in 1 .. Len(call.data) : call.data[j] = content[call.start + j]
       /\ file.pos <= file.length \/ call.data = <<>>
  BY <1>3, <1>5, Zenon DEF Reads
<1>15. PICK p \in Nat, s \in Nat, d \in Nat, o \in Nat, b \in Nat :
         p = file.pos /\ s = call.start /\ d = Len(call.data) /\ o = file.page.offset
         /\ b = Begin(file.n) /\ p = b + o /\ p = s + d
         /\ o + r <= Len(file.page.data)
  <2>1. /\ file.pos = Begin(file.n) + file.page.offset
        /\ file.pos = call.start + Len(call.data)
        /\ file.page.offset + r <= Len(file.page.data)
    BY <1>1, <1>6, <1>14, Zenon
  <2>2. /\ file.pos \in Nat /\ call.start \in Nat /\ Len(call.data) \in Nat
        /\ file.page.offset \in Nat /\ Begin(file.n) \in Nat
    BY <1>6, CallSorts
  <2> QED BY <2>1, <2>2, Zenon
<1>16. ASSUME NEW j \in 1 .. r
       PROVE  /\ file.page.data[o + j] = content[p + j] /\ p + j <= file.length
  <2>1. o + j \in Nat /\ 1 <= o + j /\ o + j \in 1 .. Len(file.page.data) /\ p + j = b + (o + j)
    <3>1. PICK m \in Nat : m = Len(file.page.data)
      BY <1>6
    <3>2. o + r <= m
      BY <1>15, <3>1
    <3>3. o + j \in Nat /\ 1 <= o + j /\ o + j <= m /\ (b + o) + j = b + (o + j)
      BY <3>2
    <3> QED BY <1>15, <3>1, <3>3
  <2>2. o + j <= SizeOf(file.n, file.length)
    BY <1>1, <1>9, <2>1 DEF Exact
  <2>3. o + j <= ChunkSize /\ b + (o + j) <= file.length
    BY <1>6, <1>15, <2>1, <2>2, ByteWithin
  <2>4. file.page.data[o + j] = PartOf(chunks, file.page, file.n, file.n)[o + j]
    BY <1>1, <1>5, <2>1, PagePart
  <2>5. o + j \in 1 .. ChunkSize
    BY <2>1, <2>3, Sizes
  <2>6. ~ (file.pos < Begin(file.n) + (o + j) /\ Begin(file.n) + (o + j) <= file.pos)
    BY <1>6, <1>15, <2>1
  <2>7. PartOf(chunks, file.page, file.n, file.n)[o + j] = content[Begin(file.n) + (o + j)]
    BY <1>6, <1>9, <1>15, <2>3, <2>5, <2>6, Zenon DEF Bytes
  <2> QED BY <1>15, <2>1, <2>3, <2>4, <2>7
<1>17. \A i \in 1 .. d + r : call'.data[i] = content[s + i]
  <2> SUFFICES ASSUME NEW i \in 1 .. d + r PROVE call'.data[i] = content[s + i]
    OBVIOUS
  <2>1. CASE i <= d
    <3>1. i \in 1 .. d
      BY <2>1
    <3>2. i \in 1 .. Len(call.data)
      BY <1>15, <3>1, Zenon
    <3>3. call'.data[i] = call.data[i] /\ call.data[i] = content[call.start + i]
      BY <1>1, <1>14, <3>2, Zenon
    <3> QED BY <1>15, <3>3, Zenon
  <2>2. CASE d < i
    <3>1. PICK m \in 1 .. r : i = d + m
      <4>1. i - d \in 1 .. r /\ i = d + (i - d)
        BY <2>2
      <4> QED BY <4>1
    <3>2. call'.data[d + m] = file.page.data[o + m]
      BY <1>1, <1>15
    <3>3. file.page.data[o + m] = content[p + m]
      BY <1>16
    <3>4. p + m = s + i
      <4>1. (s + d) + m = s + (d + m)
        OBVIOUS
      <4> QED BY <1>15, <3>1, <4>1
    <3> QED BY <3>1, <3>2, <3>3, <3>4, Zenon
  <2> QED BY <2>1, <2>2
<1>18. file'.pos <= file'.length \/ call'.data = <<>>
  <2>1. CASE r = 0
    <3>1. call.data = <<>> => call'.data = <<>>
      BY <1>1, <2>1
    <3> QED BY <1>1, <1>6, <1>14, <2>1, <3>1
  <2>2. CASE r # 0
    <3>1. p + r <= file.length
      BY <1>16, <2>2
    <3> QED BY <1>1, <1>15, <3>1
  <2> QED BY <2>1, <2>2
<1>19. Reads'
  <2>1. /\ file'.pos = call'.start + Len(call'.data)
        /\ \A j \in 1 .. Len(call'.data) : call'.data[j] = content'[call'.start + j]
    <3>1. Len(call'.data) = d + r /\ file'.pos = p + r /\ call'.start = s
      BY <1>1, <1>15
    <3>2. p + r = s + (d + r)
      <4>1. p = s + d
        BY <1>15
      <4>2. (s + d) + r = s + (d + r)
        OBVIOUS
      <4> QED BY <4>1, <4>2
    <3> QED BY <1>2, <1>17, <3>1, <3>2
  <2>2. pc' # "return"
    BY <1>1
  <2> QED BY <1>18, <2>1, <2>2, Zenon DEF Reads
<1> QED BY <1>10, <1>11, <1>12, <1>13, <1>19

(* When a file grows within chunk n, no other chunk does. *)
LEMMA SizeElsewhere ==
  ASSUME NEW n \in Nat, NEW k \in Nat, k # n, NEW a \in Nat, NEW b \in Nat,
         Begin(n) <= a, a <= b, b <= Begin(n) + ChunkSize
  PROVE  /\ SizeOf(k, a) = SizeOf(k, b)
         /\ Begin(k) < b => Begin(k) < a
         /\ \A j \in 1 .. ChunkSize : Begin(k) + j <= b => Begin(k) + j <= a
<1>1. Begin(n) \in Nat /\ Begin(k) \in Nat /\ ChunkSize \in Nat /\ 1 <= ChunkSize
  BY BeginNext, Sizes
<1>2. CASE k < n
  <2>1. Begin(k) + ChunkSize <= Begin(n)
    BY <1>2, BeginOrder
  <2>2. a >= Begin(k) + ChunkSize /\ b >= Begin(k) + ChunkSize
    BY <1>1, <2>1
  <2>3. SizeOf(k, a) = ChunkSize /\ SizeOf(k, b) = ChunkSize
    BY <2>2, SizeIs
  <2>4. \A j \in 1 .. ChunkSize : Begin(k) + j <= a
    BY <1>1, <2>2
  <2> QED BY <1>1, <2>2, <2>3, <2>4
<1>3. CASE n < k
  <2>1. Begin(n) + ChunkSize <= Begin(k)
    BY <1>3, BeginOrder
  <2>2. a <= Begin(k) /\ b <= Begin(k)
    BY <1>1, <2>1
  <2>3. SizeOf(k, a) = 0 /\ SizeOf(k, b) = 0
    BY <2>2, SizeIs
  <2>4. \A j \in 1 .. ChunkSize : ~ (Begin(k) + j <= b)
    BY <1>1, <2>2
  <2> QED BY <1>1, <2>2, <2>3, <2>4
<1> QED BY <1>2, <1>3

(* The bytes s[1 .. r] are put in the page at pos, which is within the file or at
   its end: old and len are the lengths of the file before and after. *)
Laying(cs, n, old, len, pos, r, s, pg, w) ==
  /\ DOMAIN cs \subseteq Nat
  /\ n \in Nat /\ old \in Nat /\ len \in Nat /\ pos \in Nat /\ r \in Nat /\ Begin(n) \in Nat
  /\ Begin(n) <= pos /\ pos <= old /\ pos + r <= Begin(n) + ChunkSize
  /\ old <= len /\ pos + r <= len /\ (len = old \/ len = pos + r)
  /\ pg # NoPage /\ w # NoPage /\ w.written = TRUE
  /\ Len(pg.data) \in Nat /\ Len(w.data) = Greater(Len(pg.data), (pos - Begin(n)) + r)
  /\ \A i \in 1 .. Len(w.data) :
       w.data[i] = IF i > pos - Begin(n) /\ i <= (pos - Begin(n)) + r THEN s[i - (pos - Begin(n))]
                   ELSE IF i <= Len(pg.data) THEN pg.data[i] ELSE Junk
  /\ \A j \in 1 .. Len(pg.data) : pg.data[j] = PartOf(cs, pg, n, n)[j]
  /\ Exact(cs, pg, n, old)

LEMMA LaidSize ==
  ASSUME NEW n \in Nat, NEW old \in Nat, NEW len \in Nat, NEW pos \in Nat, NEW r \in Nat,
         Begin(n) <= pos, pos <= old, pos + r <= Begin(n) + ChunkSize,
         old <= len, pos + r <= len, len = old \/ len = pos + r
  PROVE  Greater(SizeOf(n, old), (pos - Begin(n)) + r) = SizeOf(n, len)
<1>1. PICK b \in Nat : b = Begin(n)
  BY BeginNext
<1>2. ChunkSize \in Nat
  BY Sizes
<1> DEFINE e == (pos - b) + r
<1>3. e \in Nat /\ e <= ChunkSize /\ b + e = pos + r
  BY <1>1, <1>2
<1> HIDE DEF e
<1>4. /\ old <= b => SizeOf(n, old) = 0
      /\ old >= b + ChunkSize => SizeOf(n, old) = ChunkSize
      /\ b <= old /\ old <= b + ChunkSize => SizeOf(n, old) = old - b
  BY <1>1, SizeIs
<1>5. /\ len >= b + ChunkSize => SizeOf(n, len) = ChunkSize
      /\ b <= len /\ len <= b + ChunkSize => SizeOf(n, len) = len - b
  BY <1>1, SizeIs
<1>6. e <= SizeOf(n, len) /\ SizeOf(n, old) <= SizeOf(n, len)
      /\ (SizeOf(n, len) = e \/ SizeOf(n, len) = SizeOf(n, old))
      /\ SizeOf(n, len) \in Nat /\ SizeOf(n, old) \in Nat
  <2>1. b <= old /\ b <= len /\ b + e <= len /\ (len = old \/ len = b + e)
    BY <1>1, <1>3
  <2>2. CASE old >= b + ChunkSize
    BY <1>2, <1>3, <1>4, <1>5, <2>1, <2>2
  <2>3. CASE old <= b + ChunkSize
    BY <1>2, <1>3, <1>4, <1>5, <2>1, <2>3
  <2> QED BY <1>2, <2>2, <2>3
<1>7. Greater(SizeOf(n, old), e) = SizeOf(n, len)
  BY <1>3, <1>6 DEF Greater
<1> QED BY <1>1, <1>7 DEF e

LEMMA LaidExact ==
  ASSUME NEW cs, NEW n, NEW old, NEW len, NEW pos, NEW r, NEW s, NEW pg, NEW w,
         Laying(cs, n, old, len, pos, r, s, pg, w)
  PROVE  Exact(cs, w, n, len)
<1>1. /\ n \in Nat /\ old \in Nat /\ len \in Nat /\ pos \in Nat /\ r \in Nat /\ Begin(n) \in Nat
      /\ Begin(n) <= pos /\ pos <= old /\ pos + r <= Begin(n) + ChunkSize
      /\ old <= len /\ pos + r <= len /\ (len = old \/ len = pos + r)
      /\ pg # NoPage /\ w.written = TRUE
      /\ Len(w.data) = Greater(Len(pg.data), (pos - Begin(n)) + r)
      /\ Exact(cs, pg, n, old) /\ DOMAIN cs \subseteq Nat
  BY Zenon DEF Laying
<1>2. \A k : Held(w, n, k) <=> k = n
  BY <1>1, Zenon DEF Held
<1>3. \A k : k # n => ~ Held(pg, n, k)
  BY Zenon DEF Held
<1>4. Len(w.data) = SizeOf(n, len)
  <2>1. Len(pg.data) = SizeOf(n, old)
    BY <1>1, Zenon DEF Exact
  <2> QED BY <1>1, <2>1, LaidSize
<1>5. ASSUME NEW k \in Nat, k # n
      PROVE  SizeOf(k, old) = SizeOf(k, len) /\ (Begin(k) < len => Begin(k) < old)
  <2>1. CASE len = old
    BY <2>1
  <2>2. CASE len = pos + r
    <3>1. Begin(n) <= old /\ len <= Begin(n) + ChunkSize
      BY <1>1, <2>2
    <3> QED BY <1>1, <1>5, <3>1, SizeElsewhere
  <2> QED BY <1>1, <2>1, <2>2
<1>6. \A k \in DOMAIN cs : k # n => Len(cs[k]) = SizeOf(k, len)
  <2> SUFFICES ASSUME NEW k \in DOMAIN cs, k # n PROVE Len(cs[k]) = SizeOf(k, len)
    OBVIOUS
  <2>1. k \in Nat
    BY <1>1
  <2>2. Len(cs[k]) = SizeOf(k, old)
    BY <1>1, <1>3, Zenon DEF Exact
  <2> QED BY <1>5, <2>1, <2>2
<1>7. \A k \in Nat : Begin(k) < len /\ k # n => k \in DOMAIN cs
  BY <1>1, <1>3, <1>5, Zenon DEF Exact
<1> QED BY <1>2, <1>4, <1>6, <1>7, Zenon DEF Exact

(* The bytes that are excluded before, in (lo, hi], are excluded afterwards, in
   (from, hi], but for those that were put. *)
LEMMA LaidBytes ==
  ASSUME NEW cs, NEW n, NEW old, NEW len, NEW pos, NEW r, NEW s, NEW pg, NEW w,
         Laying(cs, n, old, len, pos, r, s, pg, w),
         NEW bytes, NEW lo \in Int, NEW from \in Int, NEW hi \in Int,
         Bytes(cs, pg, n, old, bytes, lo, hi),
         \A j \in 1 .. r : bytes[pos + j] = s[j],
         \A i \in Nat : (i <= pos \/ pos + r < i) /\ lo < i /\ i <= hi => from < i
  PROVE  Bytes(cs, w, n, len, bytes, from, hi)
<1>1. /\ n \in Nat /\ old \in Nat /\ len \in Nat /\ pos \in Nat /\ r \in Nat /\ Begin(n) \in Nat
      /\ Begin(n) <= pos /\ pos <= old /\ pos + r <= Begin(n) + ChunkSize
      /\ old <= len /\ pos + r <= len /\ (len = old \/ len = pos + r)
      /\ pg # NoPage /\ w # NoPage /\ w.written = TRUE
      /\ Len(pg.data) \in Nat /\ Len(w.data) = Greater(Len(pg.data), (pos - Begin(n)) + r)
      /\ Exact(cs, pg, n, old)
  BY Zenon DEF Laying
<1> SUFFICES ASSUME NEW k \in Nat, NEW j \in 1 .. ChunkSize, Begin(k) + j <= len,
                    ~ (from < Begin(k) + j /\ Begin(k) + j <= hi)
             PROVE  PartOf(cs, w, n, k)[j] = bytes[Begin(k) + j]
  BY Zenon DEF Bytes
<1>2. j \in Nat /\ 1 <= j /\ j <= ChunkSize /\ ChunkSize \in Nat /\ Begin(k) \in Nat
  BY Sizes, BeginNext
<1>3. CASE k # n
  <2>1. PartOf(cs, w, n, k) = cs[k] /\ PartOf(cs, pg, n, k) = cs[k]
    BY <1>3, Zenon DEF PartOf, Held
  <2>2. Begin(k) + j <= old
    <3>1. CASE len = old
      BY <3>1
    <3>2. CASE len = pos + r
      <4>1. Begin(n) <= old /\ len <= Begin(n) + ChunkSize
        BY <1>1, <3>2
      <4> QED BY <1>1, <1>3, <4>1, SizeElsewhere
    <3> QED BY <1>1, <3>1, <3>2
  <2>3. Begin(k) + j <= pos \/ pos + r < Begin(k) + j
    <3>1. CASE k < n
      <4>1. Begin(k) + ChunkSize <= Begin(n)
        BY <1>1, <3>1, BeginOrder
      <4> QED BY <1>1, <1>2, <4>1, SMTT(40)
    <3>2. CASE n < k
      <4>1. Begin(n) + ChunkSize <= Begin(k)
        BY <1>1, <3>2, BeginOrder
      <4> QED BY <1>1, <1>2, <4>1, SMTT(40)
    <3> QED BY <1>1, <1>3, <3>1, <3>2
  <2>4. Begin(k) + j \in Nat
    BY <1>2
  <2>5. ~ (lo < Begin(k) + j /\ Begin(k) + j <= hi)
    BY <2>3, <2>4, Zenon
  <2>6. PartOf(cs, pg, n, k)[j] = bytes[Begin(k) + j]
    BY <2>2, <2>5, Zenon DEF Bytes
  <2> QED BY <2>1, <2>6, Zenon
<1>4. CASE k = n
  <2>1. PartOf(cs, w, n, k) = w.data
    BY <1>1, <1>4, Zenon DEF PartOf, Held
  <2>2. PICK b \in Nat, o \in Nat, d \in Nat : b = Begin(n) /\ o = pos - b /\ pos = b + o
                                             /\ d = Len(pg.data)
    <3>1. pos - Begin(n) \in Nat /\ pos = Begin(n) + (pos - Begin(n))
      BY <1>1, SMTT(40)
    <3> QED BY <1>1, <3>1, Zenon
  <2> PICK p \in Nat, q \in Nat : p = pos /\ q = r /\ p = b + o
    BY <1>1, <2>2, Zenon
  <2>3. d = SizeOf(n, old) /\ Greater(d, o + r) = SizeOf(n, len)
        /\ Len(w.data) = Greater(d, o + r)
    <3>1. d = SizeOf(n, old)
      BY <1>1, <2>2, Zenon DEF Exact
    <3>2. Greater(SizeOf(n, old), (pos - Begin(n)) + r) = SizeOf(n, len)
      BY <1>1, LaidSize, SMTT(40)
    <3> QED BY <1>1, <2>2, <3>1, <3>2, Zenon
  <2>4. j <= Len(w.data)
    <3>1. Begin(n) + j <= len
      BY <1>4
    <3>2. j <= SizeOf(n, len)
      BY <1>1, <1>2, <3>1, ByteWithin
    <3> QED BY <2>3, <3>2
  <2>5. Len(w.data) \in Nat /\ j \in 1 .. Len(w.data) /\ (j <= o + r \/ j <= d)
    <3>1. Greater(d, o + q) \in Nat /\ (Greater(d, o + q) = d \/ Greater(d, o + q) = o + q)
      BY DEF Greater
    <3>2. Len(w.data) = Greater(d, o + q)
      BY <2>3, Zenon
    <3> QED BY <1>2, <2>4, <3>1, <3>2
  <2>6. w.data[j] = IF j > o /\ j <= o + r THEN s[j - o]
                    ELSE IF j <= d THEN pg.data[j] ELSE Junk
    <3>1. \A i \in 1 .. Len(w.data) :
            w.data[i] = IF i > pos - Begin(n) /\ i <= (pos - Begin(n)) + r
                        THEN s[i - (pos - Begin(n))]
                        ELSE IF i <= Len(pg.data) THEN pg.data[i] ELSE Junk
      BY Zenon DEF Laying
    <3> QED BY <2>2, <2>5, <3>1, Zenon
  <2>7. CASE j > o /\ j <= o + r
    <3>1. w.data[j] = s[j - o]
      BY <2>6, <2>7, Zenon
    <3>2. j - o \in 1 .. r /\ pos + (j - o) = b + j
      <4>1. j > o /\ j <= o + q
        BY <2>7, Zenon
      <4>2. j - o \in 1 .. q /\ (b + o) + (j - o) = b + j
        BY <1>2, <4>1
      <4> QED BY <4>2, Zenon
    <3>3. bytes[pos + (j - o)] = s[j - o]
      BY <3>2, Zenon
    <3> QED BY <1>4, <2>1, <2>2, <3>1, <3>2, <3>3, Zenon
  <2>8. CASE ~ (j > o /\ j <= o + r)
    <3>1. j <= d
      <4>1. CASE j <= o
        <5>1. b + j <= p
          BY <1>2, <4>1
        <5>2. Begin(n) + j <= pos
          BY <2>2, <5>1, Zenon
        <5>3. Begin(n) + j <= old
          BY <1>1, <1>2, <5>2, SMTT(40)
        <5>4. j <= SizeOf(n, old)
          BY <1>1, <1>2, <5>3, ByteWithin
        <5> QED BY <2>3, <5>4
      <4>2. CASE ~ (j <= o)
        <5>1. j > o
          BY <1>2, <4>2
        <5> QED BY <2>5, <2>8, <5>1, Zenon
      <4> QED BY <4>1, <4>2
    <3>2. w.data[j] = pg.data[j]
      BY <2>6, <2>8, <3>1, Zenon
    <3>3. j \in 1 .. Len(pg.data)
      BY <1>2, <2>2, <3>1
    <3>4. pg.data[j] = PartOf(cs, pg, n, n)[j]
      BY <3>3, Zenon DEF Laying
    <3>5. Begin(n) + j <= old
      BY <1>1, <1>2, <2>3, <3>1, ByteWithin
    <3>6. Begin(n) + j <= pos \/ pos + r < Begin(n) + j
      <4>1. ~ (j > o /\ j <= o + q)
        BY <2>8, Zenon
      <4>2. b + j <= p \/ p + q < b + j
        BY <1>2, <4>1
      <4> QED BY <2>2, <4>2, Zenon
    <3>7. ~ (lo < Begin(n) + j /\ Begin(n) + j <= hi)
      <4>1. Begin(n) + j \in Nat
        <5>1. b + j \in Nat
          BY <1>2
        <5> QED BY <2>2, <5>1, Zenon
      <4> QED BY <1>4, <3>6, <4>1, Zenon
    <3>8. PartOf(cs, pg, n, n)[j] = bytes[Begin(n) + j]
      BY <1>1, <3>5, <3>7, Zenon DEF Bytes
    <3> QED BY <1>4, <2>1, <3>2, <3>4, <3>8, Zenon
  <2> QED BY <2>7, <2>8
<1> QED BY <1>3, <1>4

LEMMA LayIn ==
  ASSUME Typed, Laid, file.page # NoPage, NEW s \in Seq(Int),
         NEW r, r = Taken(file.page, Len(s)), NEW w, w = Overwritten(file.page, s),
         NEW old \in Nat, NEW len \in Nat, file.pos <= old, old <= len, file.pos + r <= len,
         len = old \/ len = file.pos + r, Exact(chunks, file.page, file.n, old)
  PROVE  Laying(chunks, file.n, old, len, file.pos, r, s, file.page, w)
<1>1. /\ file.pos \in Nat /\ file.n \in Nat /\ Begin(file.n) \in Nat
      /\ file.page \in PageType /\ Len(file.page.data) <= ChunkSize
      /\ Len(file.page.data) \in Nat
      /\ file.page.offset \in Nat /\ file.page.offset <= ChunkSize
      /\ file.pos = Begin(file.n) + file.page.offset
  BY FileSorts
<1>2. /\ r \in Nat /\ file.page.offset + r <= ChunkSize
      /\ w # NoPage /\ w.written = TRUE
      /\ Len(w.data) = Greater(Len(file.page.data), file.page.offset + r)
      /\ \A i \in 1 .. Len(w.data) :
           w.data[i] = IF i > file.page.offset /\ i <= file.page.offset + r
                       THEN s[i - file.page.offset]
                       ELSE IF i <= Len(file.page.data) THEN file.page.data[i] ELSE Junk
  <2>1. LET rr == Taken(file.page, Len(s))  ww == Overwritten(file.page, s) IN
        /\ rr \in Nat /\ file.page.offset + rr <= ChunkSize
        /\ ww # NoPage /\ ww.written = TRUE
        /\ Len(ww.data) = Greater(Len(file.page.data), file.page.offset + rr)
        /\ \A i \in 1 .. Len(ww.data) :
             ww.data[i] = IF i > file.page.offset /\ i <= file.page.offset + rr
                          THEN s[i - file.page.offset]
                          ELSE IF i <= Len(file.page.data) THEN file.page.data[i] ELSE Junk
    BY <1>1, OverwrittenIs, Zenon
  <2> QED BY <2>1, Zenon
<1>3. PICK p \in Nat, b \in Nat, o \in Nat :
        p = file.pos /\ b = Begin(file.n) /\ o = file.page.offset
  BY <1>1, Zenon
<1>4. o = p - b /\ b <= p /\ p + r <= b + ChunkSize
  <2>1. p = b + o /\ o + r <= ChunkSize
    BY <1>1, <1>2, <1>3, Zenon
  <2>2. r \in Nat /\ ChunkSize \in Nat
    BY <1>2, Sizes
  <2> QED BY <2>1, <2>2
<1>5. \A j \in 1 .. Len(file.page.data) :
        file.page.data[j] = PartOf(chunks, file.page, file.n, file.n)[j]
  <2>1. PageSound(chunks, file.length, file.page, file.n, Bound)
    BY Zenon DEF Laid
  <2> QED BY <2>1, PagePart
<1>6. DOMAIN chunks \subseteq Nat
  BY DEF Typed, AreChunks
<1>7. file.page.offset = file.pos - Begin(file.n) /\ Begin(file.n) <= file.pos
      /\ file.pos + r <= Begin(file.n) + ChunkSize
  BY <1>3, <1>4, Zenon
<1>8. /\ Len(w.data) = Greater(Len(file.page.data), (file.pos - Begin(file.n)) + r)
      /\ \A i \in 1 .. Len(w.data) :
           w.data[i] = IF i > file.pos - Begin(file.n) /\ i <= (file.pos - Begin(file.n)) + r
                       THEN s[i - (file.pos - Begin(file.n))]
                       ELSE IF i <= Len(file.page.data) THEN file.page.data[i] ELSE Junk
  BY <1>2, <1>7, Zenon
<1> QED BY <1>1, <1>2, <1>5, <1>6, <1>7, <1>8, Zenon DEF Laying

LEMMA PageWriteFaithful ==
  ASSUME Typed, Control, Sound, Faithful, PageWrite PROVE Faithful'
<1> DEFINE r == Taken(file.page, Len(call.data))
           w == Overwritten(file.page, call.data)
           len == Greater(file.length, file.pos + r)
<1>1. /\ r \in Nat /\ r <= Len(call.data) /\ pc = "put" /\ file.page # NoPage
      /\ server' = server /\ history' = history
      /\ file'.length = len /\ file'.pos = file.pos + r /\ file'.n = file.n
      /\ file'.dirty = (file.dirty \/ r = Len(call.data)) /\ file'.page = w
      /\ call'.op = call.op /\ call'.goal = call.goal /\ call'.back = "put"
      /\ Len(call'.data) = Len(call.data) - r
      /\ \A j \in 1 .. Len(call'.data) : call'.data[j] = call.data[r + j]
      /\ \/ r = Len(call.data) /\ pc' = "return"
         \/ r < Len(call.data) /\ pc' = "flush"
  BY PageWriteSteps, Zenon
<1>2. /\ content' = content /\ unsaved' = unsaved /\ (Known' => Known)
      /\ chunks' = chunks /\ stored' = stored
  BY <1>1, HistoryStays DEF server
<1>3. /\ file.length \in Nat /\ file.pos \in Nat /\ call.data \in Seq(Int)
      /\ Len(call.data) \in Nat
  BY FileSorts, CallSorts
<1>4. r = Taken(file.page, Len(call.data)) /\ w = Overwritten(file.page, call.data)
      /\ len = Greater(file.length, file.pos + r)
  OBVIOUS
<1> HIDE DEF r, w, len
<1>5. At = "put" /\ call.op = "write" /\ call.goal = None /\ Writing /\ pc' \in {"return", "flush"}
      /\ At' \in {"return", "put"} /\ (At' = "put" <=> pc' = "flush")
  <2>1. At = "put" /\ pc' \in {"return", "flush"} /\ At' \in {"return", "put"}
        /\ (At' = "put" <=> pc' = "flush")
    BY <1>1 DEF At
  <2> QED BY <1>1, <2>1 DEF Control, Course, Gap, Writing
<1>6. /\ From = file.pos /\ To = file.pos + Len(call.data)
      /\ From' = file.pos + r /\ (Writing' <=> pc' # "return")
      /\ (Writing' => To' = From' + Len(call'.data)) /\ (~ Writing' => To' = From')
      /\ Reach = file.length /\ Reach' = len
  BY <1>1, <1>5 DEF From, To, Writing, Reach
<1>7. To' = To
  <2>1. PICK p \in Nat, d \in Nat, e \in Nat : p = file.pos /\ d = Len(call.data) /\ e = r
    BY <1>1, <1>3, Zenon
  <2>2. (p + e) + (d - e) = p + d /\ (e = d => p + e = p + d)
    OBVIOUS
  <2>3. CASE r = Len(call.data) /\ pc' = "return"
    BY <1>6, <2>3
  <2>4. CASE pc' = "flush"
    BY <1>1, <1>6, <2>1, <2>2, <2>4, Zenon
  <2> QED BY <1>1, <2>3, <2>4
<1>8. /\ len \in Nat /\ file.length <= len /\ file.pos + r <= len
      /\ len = file.length \/ len = file.pos + r
  BY <1>1, <1>3, <1>4, SMTT(40) DEF Greater
<1> SUFFICES ASSUME Known PROVE Holds' /\ Expected' /\ Filling' /\ Saved' /\ Reads'
  BY <1>2, Zenon DEF Faithful
<1>9. Holds /\ Expected /\ Filling /\ Laid
  BY Zenon DEF Faithful, Sound, Known
<1>10. /\ Exact(chunks, file.page, file.n, file.length)
       /\ Bytes(chunks, file.page, file.n, file.length, content, From, To)
       /\ file.pos <= file.length
  BY <1>5, <1>6, <1>9, Zenon DEF Holds, Filling
<1>11. /\ Len(content) = Greater(file.length, To)
       /\ \A j \in 1 .. Len(call.data) : content[From + j] = call.data[j]
  BY <1>5, <1>9, Zenon DEF Expected
<1>12. Laying(chunks, file.n, file.length, len, file.pos, r, call.data, file.page, w)
  BY <1>1, <1>3, <1>4, <1>8, <1>9, <1>10, LayIn
<1>13. Exact(chunks, w, file.n, len)
  BY <1>12, LaidExact
<1>14. Bytes(chunks, w, file.n, len, content, From', To)
  <2> DEFINE lo == From  from == From'  hi == To
  <2>1. lo \in Int /\ from \in Int /\ hi \in Int
    BY <1>1, <1>3, <1>6, SMTT(40)
  <2>2. \A i \in Nat : (i <= file.pos \/ file.pos + r < i) /\ lo < i /\ i <= hi => from < i
    BY <1>3, <1>6
  <2>3. \A j \in 1 .. r : content[file.pos + j] = call.data[j]
    <3> SUFFICES ASSUME NEW j \in 1 .. r PROVE content[file.pos + j] = call.data[j]
      OBVIOUS
    <3>1. j \in 1 .. Len(call.data)
      BY <1>1, <1>3
    <3> QED BY <1>6, <1>11, <3>1, Zenon
  <2>4. Bytes(chunks, file.page, file.n, file.length, content, lo, hi)
    BY <1>10
  <2> HIDE DEF lo, from, hi
  <2>5. Bytes(chunks, w, file.n, len, content, from, hi)
    BY <1>12, <2>1, <2>2, <2>3, <2>4, LaidBytes
  <2> QED BY <2>5 DEF from, hi
<1>15. Holds'
  BY <1>1, <1>2, <1>6, <1>7, <1>13, <1>14, Zenon DEF Holds
<1>16. Len(content) = Greater(len, To)
  <2>1. PICK p \in Nat, d \in Nat : p = file.pos /\ d = Len(call.data) /\ r <= d
    BY <1>1, <1>3, Zenon
  <2>2. To = p + d /\ len = Greater(file.length, p + r)
    BY <1>4, <1>6, <2>1, Zenon
  <2>3. Greater(file.length, p + d) = Greater(Greater(file.length, p + r), p + d)
    BY <1>1, <1>3, <2>1, SMTT(40) DEF Greater
  <2> QED BY <1>11, <2>2, <2>3, Zenon
<1>17. Expected'
  <2>1. CASE pc' = "return"
    <3>1. ~ Writing' /\ To = file.pos + r
      BY <1>1, <1>6, <2>1
    <3>2. Greater(len, file.pos + r) = len
      BY <1>1, <1>3, <1>8 DEF Greater
    <3> QED BY <1>1, <1>2, <1>16, <3>1, <3>2, Zenon DEF Expected
  <2>2. CASE pc' = "flush"
    <3>1. \A j \in 1 .. Len(call'.data) : content[From' + j] = call'.data[j]
      <4> SUFFICES ASSUME NEW j \in 1 .. Len(call'.data)
                   PROVE  content[From' + j] = call'.data[j]
        OBVIOUS
      <4>1. PICK p \in Nat, d \in Nat, e \in Nat : p = file.pos /\ d = Len(call.data) /\ e = r
        BY <1>1, <1>3, Zenon
      <4>2. Len(call'.data) = d - e
        BY <1>1, <4>1, Zenon
      <4>3. e + j \in 1 .. d /\ p + (e + j) = (p + e) + j
        BY <4>2
      <4>4. r + j \in 1 .. Len(call.data) /\ file.pos + (r + j) = (file.pos + r) + j
        BY <4>1, <4>3, Zenon
      <4>5. content[file.pos + (r + j)] = call.data[r + j]
        BY <1>6, <1>11, <4>4, Zenon
      <4> QED BY <1>1, <1>6, <4>4, <4>5, Zenon
    <3>2. \A i \in Nat : len < i /\ i <= From' => content[i] = 0
      BY <1>1, <1>3, <1>6, <1>8
    <3> QED BY <1>1, <1>2, <1>6, <1>7, <1>16, <2>2, <3>1, <3>2, Zenon DEF Expected
  <2> QED BY <1>5, <2>1, <2>2
<1>18. Filling'
  BY <1>1, <1>5, <1>8 DEF Filling
<1>19. Saved'
  BY <1>1, <1>5 DEF Saved
<1>20. Reads'
  BY <1>1, <1>5 DEF Reads
<1> QED BY <1>15, <1>17, <1>18, <1>19, <1>20

LEMMA FillFaithful ==
  ASSUME Typed, Control, Sound, Faithful, Fill PROVE Faithful'
<1> DEFINE m == call.goal - file.pos
           r == Taken(file.page, m)
           w == Overwritten(file.page, Zeros(m))
<1>1. /\ m \in Nat /\ r \in Nat /\ r <= m /\ call.goal \in Nat
      /\ pc = "fill" /\ file.page # NoPage /\ server' = server /\ history' = history
      /\ file'.pos = file.pos + r /\ file'.n = file.n /\ file'.page = w
      /\ call'.op = call.op /\ call'.data = call.data
      /\ \/ /\ r = m /\ pc' = "put" /\ call'.goal = None /\ file'.length = file.pos + r
         \/ /\ r < m /\ pc' = "flush" /\ call'.goal = call.goal /\ call'.back = "fill"
            /\ file'.length = file.length
  BY FillSteps, Zenon
<1>2. /\ content' = content /\ unsaved' = unsaved /\ (Known' => Known)
      /\ chunks' = chunks /\ stored' = stored
  BY <1>1, HistoryStays DEF server
<1>3. /\ file.length \in Nat /\ file.pos \in Nat /\ Len(call.data) \in Nat
  BY FileSorts, CallSorts
<1>4. m = call.goal - file.pos /\ r = Taken(file.page, m) /\ w = Overwritten(file.page, Zeros(m))
  OBVIOUS
<1>5. Zeros(m) \in Seq(Int) /\ Len(Zeros(m)) = m /\ \A i \in 1 .. m : Zeros(m)[i] = 0
  BY <1>1, ZerosAre
<1> HIDE DEF r, w, m
<1>6. At = "fill" /\ At' \in {"fill", "put"} /\ (At' = "put" <=> pc' = "put")
      /\ (pc' = "put" \/ pc' = "flush")
  BY <1>1 DEF At
<1>7. call.op = "write" /\ call.goal # None /\ file.length < call.goal /\ Writing /\ Writing'
  BY <1>1, <1>6 DEF Control, Course, Gap, Writing
<1>8. call.goal = file.pos + m
  BY <1>1, <1>3, <1>4
<1>9. /\ From = call.goal /\ To = call.goal + Len(call.data)
      /\ From' = call.goal /\ To' = To
      /\ Reach = file.pos /\ Reach' = file.pos + r
  <2>1. From = call.goal /\ To = call.goal + Len(call.data) /\ Reach = file.pos
    BY <1>6, <1>7 DEF From, To, Reach
  <2>2. CASE r = m /\ pc' = "put" /\ call'.goal = None /\ file'.length = file.pos + r
    <3>1. From' = file.pos + r /\ To' = From' + Len(call.data) /\ Reach' = file.pos + r
      BY <1>1, <1>6, <1>7, <2>2 DEF From, To, Reach
    <3> QED BY <1>8, <2>1, <2>2, <3>1, Zenon
  <2>3. CASE pc' = "flush" /\ call'.goal = call.goal /\ call'.back = "fill"
    <3>1. From' = call.goal /\ To' = From' + Len(call.data) /\ Reach' = file.pos + r
      BY <1>1, <1>6, <1>7, <2>3 DEF From, To, Reach
    <3> QED BY <2>1, <3>1
  <2> QED BY <1>1, <2>1, <2>2, <2>3
<1> SUFFICES ASSUME Known PROVE Holds' /\ Expected' /\ Filling' /\ Saved' /\ Reads'
  BY <1>2, Zenon DEF Faithful
<1>10. Holds /\ Expected /\ Filling /\ Laid
  BY Zenon DEF Faithful, Sound, Known
<1>11. /\ Exact(chunks, file.page, file.n, file.pos)
       /\ Bytes(chunks, file.page, file.n, file.pos, content, From, To)
       /\ file.length <= file.pos
  BY <1>6, <1>9, <1>10, Zenon DEF Holds, Filling
<1>12. /\ Len(content) = Greater(file.length, To)
       /\ \A j \in 1 .. Len(call.data) : content[From + j] = call.data[j]
       /\ \A i \in Nat : file.length < i /\ i <= From => content[i] = 0
  BY <1>7, <1>10, Zenon DEF Expected
<1> DEFINE len == file.pos + r
<1>13. len \in Nat /\ file.pos <= len /\ len <= call.goal
  BY <1>1, <1>3, <1>8
<1>14. Laying(chunks, file.n, file.pos, len, file.pos, r, Zeros(m), file.page, w)
  <2>1. /\ r = Taken(file.page, Len(Zeros(m))) /\ file.pos + r <= len
        /\ (len = file.pos \/ len = file.pos + r) /\ file.pos <= file.pos
    <3>1. file.pos + r <= len
      BY <1>13
    <3> QED BY <1>3, <1>4, <1>5, <3>1
  <2> HIDE DEF len
  <2> QED BY <1>1, <1>3, <1>4, <1>5, <1>10, <1>11, <1>13, <2>1, LayIn
<1>15. Exact(chunks, w, file.n, len)
  BY <1>14, LaidExact
<1>16. Bytes(chunks, w, file.n, len, content, From', To)
  <2> DEFINE lo == From  from == From'  hi == To
  <2>1. lo \in Int /\ from \in Int /\ hi \in Int
    BY <1>1, <1>3, <1>9
  <2>2. \A i \in Nat : (i <= file.pos \/ file.pos + r < i) /\ lo < i /\ i <= hi => from < i
    BY <1>9
  <2>3. \A j \in 1 .. r : content[file.pos + j] = Zeros(m)[j]
    <3> SUFFICES ASSUME NEW j \in 1 .. r PROVE content[file.pos + j] = Zeros(m)[j]
      OBVIOUS
    <3>1. j \in 1 .. m /\ file.pos + j \in Nat /\ file.length < file.pos + j
          /\ file.pos + j <= call.goal
      BY <1>1, <1>3, <1>8, <1>11, SMTT(40)
    <3> QED BY <1>5, <1>9, <1>12, <3>1
  <2>4. Bytes(chunks, file.page, file.n, file.pos, content, lo, hi)
    BY <1>11
  <2> HIDE DEF lo, from, hi, len
  <2>5. Bytes(chunks, w, file.n, len, content, from, hi)
    BY <1>14, <2>1, <2>2, <2>3, <2>4, LaidBytes
  <2> QED BY <2>5 DEF from, hi
<1>17. Holds'
  BY <1>1, <1>2, <1>9, <1>15, <1>16, Zenon DEF Holds
<1>18. Expected'
  <2>1. /\ Len(content) = Greater(file'.length, To)
        /\ \A i \in Nat : file'.length < i /\ i <= From => content[i] = 0
    <3>1. CASE r = m /\ file'.length = file.pos + r
      <4>1. file'.length = call.goal
        BY <1>8, <3>1
      <4>2. Greater(file.length, To) = Greater(call.goal, To)
        BY <1>1, <1>3, <1>7, <1>9 DEF Greater
      <4>3. \A i \in Nat : ~ (call.goal < i /\ i <= From)
        BY <1>1, <1>9
      <4> QED BY <1>12, <4>1, <4>2, <4>3, Zenon
    <3>2. CASE file'.length = file.length
      BY <1>12, <3>2, Zenon
    <3> QED BY <1>1, <3>1, <3>2
  <2>2. \A j \in 1 .. Len(call'.data) : content[From' + j] = call'.data[j]
    BY <1>1, <1>9, <1>12, Zenon
  <2>3. From' = From /\ To' = To
    BY <1>9
  <2> QED BY <1>2, <1>7, <2>1, <2>2, <2>3, Zenon DEF Expected
<1>19. Filling'
  <2>1. w # NoPage
    BY <1>14, Zenon DEF Laying
  <2>2. pc' = "put" => file'.pos <= file'.length
    BY <1>1, <1>13
  <2>3. pc' = "flush" => file'.length <= file'.pos
    BY <1>1, <1>3, <1>11
  <2> QED BY <1>1, <1>6, <2>1, <2>2, <2>3 DEF Filling
<1>20. Saved'
  BY <1>6, <1>7, <1>1 DEF Saved
<1>21. Reads'
  BY <1>6, <1>1 DEF Reads
<1> QED BY <1>17, <1>18, <1>19, <1>20, <1>21

(* The byte at a place of a chunk. *)
LEMMA ByteAt ==
  ASSUME NEW k \in Nat, NEW j \in 1 .. ChunkSize
  PROVE  /\ ChunkByte(Begin(k) + j) =
              (IF k \in DOMAIN chunks /\ j <= Len(chunks[k]) THEN chunks[k][j] ELSE Junk)
         /\ FileByte(Begin(k) + j) =
              (IF file.page.written /\ k = file.n
               THEN IF j <= Len(file.page.data) THEN file.page.data[j] ELSE Junk
               ELSE ChunkByte(Begin(k) + j))
<1> DEFINE i == Begin(k) + j
<1>1. PICK p \in Nat : p = i - 1 /\ Begin(k) <= p /\ p < Begin(k) + ChunkSize
                       /\ (p - Begin(k)) + 1 = j
  <2>1. Begin(k) \in Nat
    BY BeginNext
  <2>2. /\ i - 1 \in Nat /\ Begin(k) <= i - 1 /\ i - 1 < Begin(k) + ChunkSize
        /\ ((i - 1) - Begin(k)) + 1 = j
    BY <2>1, Sizes
  <2> QED BY <2>2
<1>2. p \div ChunkSize = k /\ p % ChunkSize = p - Begin(k)
  BY <1>1, DivisionUnique
<1> HIDE DEF i
<1>3. (i - 1) \div ChunkSize = k /\ ((i - 1) % ChunkSize) + 1 = j
  BY <1>1, <1>2, Zenon
<1>4. ChunkByte(i) = (IF k \in DOMAIN chunks /\ j <= Len(chunks[k]) THEN chunks[k][j] ELSE Junk)
  BY <1>3, Zenon DEF ChunkByte
<1>5. FileByte(i) = (IF file.page.written /\ k = file.n
                     THEN IF j <= Len(file.page.data) THEN file.page.data[j] ELSE Junk
                     ELSE ChunkByte(i))
  BY <1>3, Zenon DEF FileByte
<1> QED BY <1>4, <1>5 DEF i

LEMMA PlaceOf ==
  ASSUME NEW i \in Nat, 1 <= i
  PROVE  \E k \in Nat : \E j \in 1 .. ChunkSize : i = Begin(k) + j
<1> DEFINE k == (i - 1) \div ChunkSize
<1>1. i - 1 \in Nat
  OBVIOUS
<1>2. k \in Nat /\ Begin(k) <= i - 1 /\ i - 1 < Begin(k) + ChunkSize
  BY <1>1, Division
<1>3. Begin(k) \in Nat
  BY <1>2, BeginNext
<1> HIDE DEF k
<1>4. i - Begin(k) \in 1 .. ChunkSize /\ i = Begin(k) + (i - Begin(k))
  BY <1>2, <1>3, Sizes
<1> QED BY <1>2, <1>4

(* A file that was just opened. *)
Opened ==
  /\ pc = "idle" /\ call = NoCall /\ file.page = NoPage
  /\ Len(content) = file.length
  /\ Exact(chunks, NoPage, file.n, file.length)
  /\ Bytes(chunks, NoPage, file.n, file.length, content, file.pos, file.pos)
  /\ file.dirty \/ stored = file.length

LEMMA OpenedFaithful == Opened => Faithful
<1> SUFFICES ASSUME Opened PROVE Holds /\ Expected /\ Filling /\ Saved /\ Reads
  BY Zenon DEF Faithful
<1>1. pc = "idle" /\ call.op = "none" /\ call.goal = None /\ file.page = NoPage
      /\ (file.dirty \/ stored = file.length) /\ Len(content) = file.length
  BY NoCallTyped DEF Opened
<1>2. At = "idle" /\ ~ Writing /\ From = file.pos /\ To = file.pos /\ Reach = file.length
  BY <1>1 DEF At, Writing, From, To, Reach
<1>3. Holds
  BY <1>1, <1>2, Zenon DEF Holds, Opened
<1>4. Expected
  BY <1>1, <1>2, Zenon DEF Expected
<1>5. Filling /\ Saved /\ Reads
  BY <1>1, <1>2, NoPageIs DEF Filling, Saved, Reads
<1> QED BY <1>3, <1>4, <1>5

(* The chunks alone have the bytes. *)
LEMMA ChunksExact ==
  ASSUME NEW cs, NEW n, NEW len,
         \A k \in DOMAIN cs : Len(cs[k]) = SizeOf(k, len),
         \A k \in Nat : Begin(k) < len => k \in DOMAIN cs
  PROVE  Exact(cs, NoPage, n, len)
<1>1. \A k : ~ Held(NoPage, n, k)
  BY NoPageIs, Zenon DEF Held
<1> QED BY <1>1, Zenon DEF Exact

LEMMA InitFaithful == ASSUME Init PROVE Faithful
<1>1. /\ pc = "idle" /\ call = NoCall
      /\ file = IF stored = None THEN NewFile ELSE FoundFile(stored)
  BY Zenon DEF Init
<1>2. /\ stored \in {None} \cup 0 .. MaxLength
      /\ Len(content) = (IF stored = None THEN 0 ELSE stored)
      /\ AreChunks(chunks)
  BY InitialChunks
<1>3. /\ file.page = NoPage /\ file.length = (IF stored = None THEN 0 ELSE stored)
      /\ file.dirty \/ stored = file.length
  <2>1. CASE stored = None
    BY <1>1, <2>1, NewFileIs
  <2>2. CASE stored # None
    <3>1. stored \in Nat
      BY <1>2, <2>2
    <3>2. FoundFile(stored).page = NoPage /\ FoundFile(stored).length = stored
      BY <3>1, FoundIs
    <3> QED BY <1>1, <2>2, <3>2
  <2> QED BY <2>1, <2>2
<1>4. /\ Exact(chunks, NoPage, file.n, file.length)
      /\ Bytes(chunks, NoPage, file.n, file.length, content, file.pos, file.pos)
  <2>1. CASE stored = None
    <3>1. DOMAIN chunks = {} /\ file.length = 0
      BY <1>3, <2>1, InitialChunks
    <3>2. \A k \in Nat : Begin(k) \in Nat
      BY BeginNext
    <3>3. Exact(chunks, NoPage, file.n, file.length)
      <4>1. \A k \in Nat : ~ (Begin(k) < file.length)
        BY <3>1, <3>2
      <4> QED BY <3>1, <4>1, ChunksExact
    <3>4. \A k \in Nat : \A j \in 1 .. ChunkSize : ~ (Begin(k) + j <= file.length)
      BY <3>1, <3>2, Sizes
    <3> QED BY <3>3, <3>4, Zenon DEF Bytes
  <2>2. CASE stored # None
    <3>1. stored \in Nat /\ file.length = stored
      BY <1>2, <1>3, <2>2
    <3>2. \A k \in Nat : /\ k \in DOMAIN chunks <=> Begin(k) < stored
                         /\ k \in DOMAIN chunks =>
                              /\ Len(chunks[k]) = SizeOf(k, stored)
                              /\ \A j \in 1 .. Len(chunks[k]) :
                                   chunks[k][j] = content[Begin(k) + j]
      BY <2>2, InitialChunks, Zenon
    <3>3. DOMAIN chunks \subseteq Nat
      BY <1>2 DEF AreChunks
    <3>4. Exact(chunks, NoPage, file.n, stored)
      BY <3>2, <3>3, ChunksExact
    <3>5. ASSUME NEW k \in Nat, NEW j \in 1 .. ChunkSize, Begin(k) + j <= stored
          PROVE  PartOf(chunks, NoPage, file.n, k)[j] = content[Begin(k) + j]
      <4>1. Begin(k) \in Nat /\ j \in Nat /\ 1 <= j /\ j <= ChunkSize
        BY BeginNext, Sizes
      <4>2. Begin(k) < stored
        BY <3>1, <3>5, <4>1
      <4>3. j <= SizeOf(k, stored)
        BY <3>1, <3>5, <4>1, ByteWithin
      <4>4. k \in DOMAIN chunks /\ j \in 1 .. Len(chunks[k])
        BY <3>2, <4>1, <4>2, <4>3
      <4>5. PartOf(chunks, NoPage, file.n, k) = chunks[k]
        BY NoPageIs, Zenon DEF PartOf, Held
      <4> QED BY <3>2, <4>4, <4>5, Zenon
    <3> QED BY <3>1, <3>4, <3>5, Zenon DEF Bytes
  <2> QED BY <2>1, <2>2
<1>5. Opened
  BY <1>1, <1>2, <1>3, <1>4, Zenon DEF Opened
<1> QED BY <1>5, OpenedFaithful

LEMMA WholeIs ==
  ASSUME NEW cs, NEW len \in Nat, Whole(cs, len)
  PROVE  /\ \A k \in DOMAIN cs : Len(cs[k]) = SizeOf(k, len)
         /\ \A k \in Nat : Begin(k) < len => k \in DOMAIN cs
  BY CoveredIs DEF Whole

LEMMA ReopenFaithful == ASSUME Typed, Control, Faithful, Reopen PROVE Faithful'
<1> DEFINE bytes == [i \in 1 .. stored |-> ChunkByte(i)]
<1>1. /\ stored # None /\ file' = FoundFile(stored) /\ pc' = "idle" /\ call' = NoCall
      /\ content' = (IF Whole(chunks, stored) THEN bytes ELSE <<>>)
      /\ torn' = ~ Whole(chunks, stored) /\ chunks' = chunks /\ stored' = stored
  BY Zenon DEF Reopen, server
<1>2. stored \in Nat
  BY <1>1 DEF Typed
<1> SUFFICES ASSUME Known' PROVE Faithful'
  BY Zenon DEF Faithful
<1>3. Whole(chunks, stored) /\ content' = bytes
  BY <1>1, Zenon DEF Known
<1>4. file'.length = stored /\ file'.page = NoPage /\ file'.pos = 0
  BY <1>1, <1>2, FoundIs
<1>5. Len(bytes) = stored /\ \A i \in 1 .. stored : bytes[i] = ChunkByte(i)
  BY <1>2
<1> HIDE DEF bytes
<1>6. /\ \A k \in DOMAIN chunks : Len(chunks[k]) = SizeOf(k, stored)
      /\ \A k \in Nat : Begin(k) < stored => k \in DOMAIN chunks
  BY <1>2, <1>3, WholeIs
<1>7. Exact(chunks, NoPage, file'.n, stored)
  BY <1>6, ChunksExact
<1>8. ASSUME NEW k \in Nat, NEW j \in 1 .. ChunkSize, Begin(k) + j <= stored
      PROVE  PartOf(chunks, NoPage, file'.n, k)[j] = bytes[Begin(k) + j]
  <2>1. Begin(k) \in Nat /\ j \in Nat /\ 1 <= j /\ j <= ChunkSize
    BY BeginNext, Sizes
  <2>2. Begin(k) < stored /\ Begin(k) + j \in 1 .. stored
    BY <1>2, <1>8, <2>1
  <2>3. j <= SizeOf(k, stored)
    BY <1>2, <1>8, <2>1, ByteWithin
  <2>4. k \in DOMAIN chunks /\ j <= Len(chunks[k])
    BY <1>6, <2>2, <2>3
  <2>5. ChunkByte(Begin(k) + j) = chunks[k][j]
    BY <2>4, ByteAt
  <2>6. PartOf(chunks, NoPage, file'.n, k) = chunks[k]
    BY NoPageIs, Zenon DEF PartOf, Held
  <2> QED BY <1>5, <2>2, <2>5, <2>6, Zenon
<1>9. Bytes(chunks, NoPage, file'.n, stored, bytes, file'.pos, file'.pos)
  BY <1>8, Zenon DEF Bytes
<1>10. Opened'
  BY <1>1, <1>3, <1>4, <1>5, <1>7, <1>9, Zenon DEF Opened
<1>11. (Opened => Faithful)'
  BY OpenedFaithful, PTL
<1> QED BY <1>10, <1>11

LEMMA WriteFaithful ==
  ASSUME Typed, Control, Faithful, NEW len \in WriteLengths, Write(len) PROVE Faithful'
<1> DEFINE s == Written(len)
           end == file.pos + len
           byte(i) == IF i > file.pos /\ i <= end THEN s[i - file.pos]
                      ELSE IF i <= Len(content) THEN content[i] ELSE 0
           bytes == [i \in 1 .. Greater(Len(content), end) |-> byte(i)]
<1>1. /\ pc = "idle" /\ pc' = "writev" /\ file' = file /\ server' = server
      /\ lost' = lost /\ stale' = stale /\ torn' = torn /\ unsaved' = unsaved
      /\ removed' = removed
      /\ call' = StartedCall("write", file.pos, len, Written(len))
      /\ content' = IF ~ Known THEN <<>> ELSE bytes
  BY Zenon DEF StartedCall, Write, Start, Usable
<1> SUFFICES ASSUME Known PROVE Holds' /\ Expected' /\ Filling' /\ Saved' /\ Reads'
  BY <1>1, Zenon DEF Faithful, Known
<1>2. len \in Nat /\ file.pos \in Nat /\ file.length \in Nat /\ writes \in Nat
  BY FileSorts, Sizes, GridFSFileAssumption DEF Typed
<1>3. s \in Seq(Int) /\ Len(s) = len
  BY <1>2 DEF Written
<1>4. chunks' = chunks /\ stored' = stored /\ content' = bytes
  BY <1>1 DEF server
<1>5. call'.op = "write" /\ call'.goal = None /\ call'.data = s
  BY <1>1, <1>2, <1>3, Started
<1>6. call.op = "none" /\ call.goal = None
  BY <1>1, NoCallTyped DEF Control, Course
<1>7. At = "idle" /\ At' = "writev" /\ ~ Writing /\ Writing'
  BY <1>1, <1>5, <1>6 DEF At, Writing
<1>8. /\ From = file.pos /\ To = file.pos /\ From' = file.pos /\ To' = end
      /\ Reach = file.length /\ Reach' = file.length
  BY <1>1, <1>3, <1>5, <1>6, <1>7 DEF From, To, Reach
<1>9. Holds /\ Expected /\ Saved
  BY Zenon DEF Faithful
<1>10. Len(content) = file.length
  BY <1>7, <1>9, Zenon DEF Expected
<1>11. /\ Len(bytes) = Greater(file.length, end)
       /\ \A i \in 1 .. Greater(file.length, end) : bytes[i] = byte(i)
       /\ end \in Nat /\ Greater(file.length, end) \in Nat
       /\ file.length <= Greater(file.length, end) /\ end <= Greater(file.length, end)
  <2>1. end \in Nat
    BY <1>2
  <2> HIDE DEF end, byte
  <2>2. Greater(file.length, end) \in Nat /\ file.length <= Greater(file.length, end)
        /\ end <= Greater(file.length, end)
    BY <1>2, <2>1 DEF Greater
  <2> QED BY <1>10, <2>1, <2>2
<1> HIDE DEF bytes, s
<1>12. /\ Exact(chunks, file.page, file.n, file.length)
       /\ Bytes(chunks, file.page, file.n, file.length, content, file.pos, file.pos)
  BY <1>8, <1>9, Zenon DEF Holds
<1>13. ASSUME NEW k \in Nat, NEW j \in 1 .. ChunkSize, Begin(k) + j <= file.length,
              ~ (file.pos < Begin(k) + j /\ Begin(k) + j <= end)
       PROVE  PartOf(chunks, file.page, file.n, k)[j] = bytes[Begin(k) + j]
  <2>1. PICK i \in Nat : i = Begin(k) + j /\ 1 <= i /\ i <= file.length
    <3>1. Begin(k) \in Nat /\ j \in Nat /\ 1 <= j
      BY BeginNext, Sizes
    <3> QED BY <1>13, <3>1
  <2>2. i \in 1 .. Greater(file.length, end)
    BY <1>2, <1>11, <2>1
  <2>3. bytes[i] = content[i]
    <3>1. bytes[i] = byte(i)
      BY <1>11, <2>2
    <3>2. ~ (i > file.pos /\ i <= end)
      BY <1>13, <2>1
    <3>3. i <= Len(content)
      BY <1>10, <2>1
    <3> QED BY <3>1, <3>2, <3>3
  <2>4. ~ (file.pos < i /\ i <= file.pos)
    BY <1>2
  <2>5. PartOf(chunks, file.page, file.n, k)[j] = content[Begin(k) + j]
    BY <1>12, <1>13, <2>1, <2>4, Zenon DEF Bytes
  <2> QED BY <2>1, <2>3, <2>5, Zenon
<1>14. Holds'
  <2> HIDE DEF end
  <2>1. Bytes(chunks, file.page, file.n, file.length, bytes, file.pos, end)
    BY <1>13, Zenon DEF Bytes
  <2> QED BY <1>1, <1>4, <1>8, <1>12, <2>1, Zenon DEF Holds
<1>15. Expected'
  <2>1. \A j \in 1 .. len : bytes[file.pos + j] = s[j]
    <3> SUFFICES ASSUME NEW j \in 1 .. len PROVE bytes[file.pos + j] = s[j]
      OBVIOUS
    <3>1. /\ file.pos + j \in 1 .. Greater(file.length, end) /\ file.pos + j > file.pos
          /\ file.pos + j <= end /\ (file.pos + j) - file.pos = j
      BY <1>2, <1>11, SMTT(40)
    <3> QED BY <1>11, <3>1
  <2>2. \A i \in Nat : file.length < i /\ i <= file.pos => bytes[i] = 0
    <3> SUFFICES ASSUME NEW i \in Nat, file.length < i, i <= file.pos PROVE bytes[i] = 0
      OBVIOUS
    <3>1. i \in 1 .. Greater(file.length, end) /\ ~ (i > file.pos) /\ ~ (i <= Len(content))
      BY <1>2, <1>10, <1>11
    <3> QED BY <1>11, <3>1
  <2> HIDE DEF end
  <2> QED BY <1>1, <1>3, <1>4, <1>5, <1>7, <1>8, <1>11, <2>1, <2>2, Zenon DEF Expected
<1>16. Filling'
  BY <1>7 DEF Filling
<1>17. Saved'
  BY <1>1, <1>4, <1>7, <1>9 DEF Saved
<1>18. Reads'
  BY <1>1, <1>7 DEF Reads
<1> QED BY <1>14, <1>15, <1>16, <1>17, <1>18

-----------------------------------------------------------------------------
LEMMA StepFaithful == ASSUME Typed, Control, Sound, Faithful, Step PROVE Faithful'
<1>1. CASE Readv \/ PageRead \/ ReadBehindPage \/ Refresh \/ Fetch \/ NextChunk \/ NoChunk
  BY <1>1, ReadvFaithful, PageReadFaithful, ReadBehindPageFaithful, RefreshFaithful,
     FetchFaithful, NextChunkFaithful, NoChunkFaithful, Zenon
<1>2. CASE NeedPage \/ Writev \/ PageWrite \/ Fill \/ FlushBeforeSeek \/ SeekPage
  BY <1>2, NeedPageFaithful, WritevFaithful, PageWriteFaithful, FillFaithful,
     FlushBeforeSeekFaithful, SeekPageFaithful, Zenon
<1>3. CASE UpdateChunk \/ InnerSaveClean \/ UpdateFile \/ RemoveFile \/ RemoveChunks
           \/ Return \/ ServerFails
  BY <1>3, UpdateChunkFaithful, InnerSaveCleanFaithful, UpdateFileFaithful,
     RemoveFileFaithful, RemoveChunksFaithful, ReturnFaithful, ServerFailsFaithful, Zenon
<1> QED BY <1>1, <1>2, <1>3, Zenon DEF Step

LEMMA StutterFaithful == ASSUME Faithful, UNCHANGED vars PROVE Faithful'
<1>1. /\ chunks' = chunks /\ stored' = stored /\ file' = file /\ pc' = pc /\ call' = call
      /\ result' = result /\ history' = history
  BY DEF vars, server
<1>2. content' = content /\ unsaved' = unsaved /\ (Known' => Known)
  BY <1>1, HistoryStays
<1>3. At' = At /\ Reach' = Reach /\ Writing' = Writing /\ From' = From /\ To' = To
  BY <1>1, Zenon DEF At, Reach, Writing, From, To
<1>4. ASSUME Known', Known, Holds, Expected, Filling, Saved, Reads
      PROVE  Holds' /\ Expected' /\ Filling' /\ Saved' /\ Reads'
  <2>1. Holds' /\ Expected' /\ Filling'
    BY <1>1, <1>2, <1>3, <1>4, Zenon DEF Holds, Expected, Filling
  <2>2. Saved' /\ Reads'
    BY <1>1, <1>2, <1>3, <1>4, Zenon DEF Saved, Reads
  <2> QED BY <2>1, <2>2
<1> QED BY <1>2, <1>4, Zenon DEF Faithful

LEMMA NextFaithful ==
  ASSUME Typed, Control, Sound, Faithful, [Next]_vars PROVE Faithful'
<1>1. ASSUME NEW len \in ReadLengths, Read(len) PROVE Faithful'
  BY <1>1, ReadFaithful
<1>2. ASSUME NEW len \in WriteLengths, Write(len) PROVE Faithful'
  BY <1>2, WriteFaithful
<1>3. ASSUME NEW whence, NEW delta, Seek(whence, delta) PROVE Faithful'
  BY <1>3, SeekFaithful
<1> QED BY <1>1, <1>2, <1>3, SaveFaithful, RemoveFaithful, ReopenFaithful, StepFaithful,
           StutterFaithful, Zenon DEF Next

(* Faithful is kept by every step, given Typed, Control and Sound. *)
LEMMA Faithfulness == Spec => []Faithful
<1>1. Init => Faithful
  BY InitFaithful
<1>2. Typed /\ Control /\ Sound /\ Faithful /\ [Next]_vars => Faithful'
  BY NextFaithful
<1> QED BY <1>1, <1>2, Typing, Soundness, PTL DEF Spec

(* A byte of the file, when no write is under way. *)
LEMMA ByteOfFile ==
  ASSUME Typed, Control, Known, Holds, ~ Writing, At # "fill", call.goal = None,
         NEW i \in Nat, 1 <= i, i <= file.length
  PROVE  FileByte(i) = content[i]
<1>1. PICK k \in Nat, j \in 1 .. ChunkSize : i = Begin(k) + j
  BY PlaceOf
<1>2. PICK b \in Nat : b = Begin(k)
  BY BeginNext
<1>3. j \in Nat /\ 1 <= j /\ j <= ChunkSize
  BY Sizes
<1>4. PICK len \in Nat : len = file.length
  BY FileSorts
<1>5. file.pos \in Nat
  BY FileSorts
<1>6. Reach = file.length /\ From = file.pos /\ To = file.pos
  BY Zenon DEF Reach, From, To
<1>7. /\ Exact(chunks, file.page, file.n, len)
      /\ Bytes(chunks, file.page, file.n, len, content, file.pos, file.pos)
  BY <1>4, <1>6, Zenon DEF Holds
<1>8. Begin(k) + j <= len /\ Begin(k) < len
  BY <1>1, <1>2, <1>3, <1>4
<1>9. ~ (file.pos < Begin(k) + j /\ Begin(k) + j <= file.pos)
  BY <1>2, <1>3, <1>5
<1>10. PartOf(chunks, file.page, file.n, k)[j] = content[i]
  BY <1>1, <1>7, <1>8, <1>9, Zenon DEF Bytes
<1>11. j <= SizeOf(k, len)
  BY <1>3, <1>4, <1>8, ByteWithin
<1>12. CASE Held(file.page, file.n, k)
  <2>1. file.page.written /\ k = file.n /\ file.page # NoPage
    BY <1>12, NoPageIs, Zenon DEF Held
  <2>2. j <= Len(file.page.data)
    BY <1>7, <1>11, <2>1, Zenon DEF Exact
  <2>3. FileByte(i) = file.page.data[j]
    BY <1>1, <2>1, <2>2, ByteAt, Zenon
  <2> QED BY <1>10, <1>12, <2>3, Zenon DEF PartOf
<1>13. CASE ~ Held(file.page, file.n, k)
  <2>1. k \in DOMAIN chunks /\ Len(chunks[k]) = SizeOf(k, len)
    BY <1>7, <1>8, <1>13, Zenon DEF Exact
  <2>2. ChunkByte(i) = chunks[k][j]
    BY <1>1, <1>11, <2>1, ByteAt, Zenon
  <2>3. FileByte(i) = ChunkByte(i)
    BY <1>1, <1>13, ByteAt, Zenon DEF Held
  <2> QED BY <1>10, <1>13, <2>2, <2>3, Zenon DEF PartOf
<1> QED BY <1>12, <1>13

(* Between calls every byte that was written is in the file at its place, and
   zeros fill the gaps, unless a write failed or a page was dropped
   (gridfsfile.c:178-190). *)
THEOREM WhatWasWritten == Spec => []FileHoldsContent
<1>1. Typed /\ Control /\ Faithful => FileHoldsContent
  <2> SUFFICES ASSUME Typed, Control, Faithful, pc = "idle", Known
               PROVE  /\ file.length = Len(content)
                      /\ \A i \in 1 .. file.length : FileByte(i) = content[i]
    BY Zenon DEF FileHoldsContent
  <2>1. call = NoCall
    BY Zenon DEF Control, Course
  <2>2. call.op = "none" /\ call.goal = None
    BY <2>1, NoCallTyped DEF NoCall
  <2>3. At # "fill" /\ ~ Writing
    BY <2>2 DEF At, Writing
  <2>4. Holds /\ Len(content) = file.length
    BY <2>3, Zenon DEF Faithful, Expected
  <2>5. ASSUME NEW i \in 1 .. file.length PROVE FileByte(i) = content[i]
    <3>1. file.length \in Nat
      BY FileSorts
    <3>2. i \in Nat /\ 1 <= i /\ i <= file.length
      BY <3>1
    <3> QED BY <2>2, <2>3, <2>4, <3>2, ByteOfFile
  <2> QED BY <2>4, <2>5
<1> QED BY <1>1, Typing, Faithfulness, PTL

(* A read that succeeds returns the bytes of the file from where it began
   (gridfsfile.c:79-101). *)
THEOREM WhatIsRead == Spec => []ReadReturnsContent
<1>1. Faithful => ReadReturnsContent
  BY Zenon DEF Faithful, Reads, ReadReturnsContent
<1> QED BY <1>1, Faithfulness, PTL

(* When save returns true the chunks and the files document are what was
   written (gridfsfile.c:109-114). *)
THEOREM WhatIsSaved == Spec => []SavedIsStored
<1>1. Typed /\ Control /\ Faithful => SavedIsStored
  <2> SUFFICES ASSUME Typed, Control, Faithful, pc = "return", call.op = "save",
                      result = "ok", Known, ~ unsaved
               PROVE  /\ stored = Len(content)
                      /\ \A i \in 1 .. stored : ChunkByte(i) = content[i]
    BY Zenon DEF SavedIsStored
  <2>1. At = "return" /\ ~ Writing
    BY DEF At, Writing
  <2>2. call.goal = None
    BY <2>1 DEF Control, Gap
  <2>3. Holds /\ Len(content) = file.length
    BY <2>1, Zenon DEF Faithful, Expected
  <2>4. stored = file.length /\ ~ file.page.written
    BY <2>1 DEF Faithful, Saved
  <2>5. ASSUME NEW i \in 1 .. file.length PROVE ChunkByte(i) = content[i]
    <3>1. file.length \in Nat
      BY FileSorts
    <3>2. i \in Nat /\ 1 <= i /\ i <= file.length
      BY <3>1
    <3>3. FileByte(i) = content[i]
      BY <2>1, <2>2, <2>3, <3>2, ByteOfFile
    <3>4. FileByte(i) = ChunkByte(i)
      BY <2>4, Zenon DEF FileByte
    <3> QED BY <3>3, <3>4
  <2> QED BY <2>3, <2>4, <2>5
<1> QED BY <1>1, Typing, Faithfulness, PTL
=============================================================================
