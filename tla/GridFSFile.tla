----------------------------- MODULE GridFSFile -----------------------------
(***************************************************************************)
(* The contents of a GridFS file: read, write, seek, save and remove       *)
(* (gridfsfile.c) over the one page that the driver holds of the file      *)
(* (mongoc-gridfs-file.c, mongoc-gridfs-file-page.c).  The server keeps    *)
(* the chunks and the files document; a call is a sequence of steps, of    *)
(* which those that reach the server can fail.  Between any two of them    *)
(* the process can end, and another one open the file.  Nobody else uses   *)
(* the file at the same time.                                              *)
(*                                                                         *)
(* Bytes are numbers that tell where they come from.                       *)
(***************************************************************************)
EXTENDS Integers, Sequences, FiniteSets

CONSTANTS
  ChunkSize,       \* bytes in a chunk
  BufferSize,      \* LUAL_BUFFERSIZE: the most that one readv asks for
  ChunksPerBatch,  \* chunks the server sends at a time
  FileLengths,     \* lengths of the stored files to start with, besides a new file
  ReadLengths,     \* arguments of read
  WriteLengths,    \* lengths of the strings written
  MaxLength,       \* bound: the largest position and length
  MaxWrites,       \* bound: writes
  MaxFailures      \* bound: failures of the server

None == -1
Junk == -2   \* a byte of memory that was never set

ASSUME GridFSFileAssumption ==
  /\ {ChunkSize, BufferSize, ChunksPerBatch} \subseteq Nat \ {0}
  /\ {MaxLength, MaxWrites, MaxFailures} \subseteq Nat
  /\ FileLengths \subseteq 0 .. MaxLength
  /\ ReadLengths \subseteq Nat \ {0} /\ WriteLengths \subseteq Nat

VARIABLES
  chunks,    \* the stored chunks, by number
  stored,    \* the length in the files document, None if there is none
  file,      \* mongoc_gridfs_file_t
  pc,        \* the next step, "idle" between calls
  call,      \* the call in progress
  result,    \* what it returns: "none" while it executes
  content,   \* history: the bytes the file should have, while they are known
  lost,      \* history: a written page was dropped
  stale,     \* history: a page is from a reply older than what is stored
  torn,      \* history: a write did not complete
  unsaved,   \* history: the last update of the files document failed
  removed,   \* history: remove was called
  writes,    \* writes so far
  failures   \* failures so far

server == <<chunks, stored>>
history == <<content, lost, stale, torn, unsaved, removed>>
bounds == <<writes, failures>>
vars == <<server, file, pc, call, result, history, bounds>>

Known == ~ lost /\ ~ stale /\ ~ torn /\ ~ removed

NoPage == [data |-> <<>>, offset |-> None, written |-> FALSE]
NoCursor == [next |-> None, last |-> None, ahead |-> <<>>, seen |-> None, more |-> FALSE,
             failed |-> FALSE]
NoCall == [op |-> "none", start |-> 0, len |-> 0, data |-> <<>>, part |-> 0,
           goal |-> None, target |-> None, back |-> "idle"]

Lesser(a, b) == IF a < b THEN a ELSE b
Greater(a, b) == IF a < b THEN b ELSE a
RoundUp(len) == (len + ChunkSize - 1) \div ChunkSize

TypeOK ==
  /\ \A k \in DOMAIN chunks : k \in 0 .. MaxLength /\ Len(chunks[k]) <= ChunkSize
  /\ stored \in {None} \cup (0 .. MaxLength)
  /\ file.length \in 0 .. MaxLength /\ file.pos \in 0 .. MaxLength + ChunkSize
  /\ file.n \in Nat /\ file.dirty \in BOOLEAN
  /\ file.page # NoPage =>
       file.page.offset \in 0 .. ChunkSize /\ Len(file.page.data) <= ChunkSize
  /\ file.cursor # NoCursor => file.cursor.next \in Nat /\ file.cursor.last \in Nat
  /\ pc \in {"idle", "readv", "page_read", "refresh", "next", "writev", "put", "fill",
             "seek", "flush", "inner_save", "save_file", "remove_file", "remove_chunks", "return",
             "crashed"}
  /\ call.op \in {"none", "read", "write", "seek", "save", "remove"}
  /\ result \in {"none", "ok", "error"}
  /\ \A flag \in {lost, stale, torn, unsaved, removed} : flag \in BOOLEAN
  /\ writes \in 0 .. MaxWrites /\ failures \in 0 .. MaxFailures

-----------------------------------------------------------------------------
(* Pages. *)

(* The page of s at its offset, as far as s fits: what it takes, and the page
   afterwards.  A new buffer is not cleared. *)
Taken(page, len) == Lesser(len, ChunkSize - page.offset)
Overwritten(page, s) ==
  LET r == Taken(page, Len(s))
      size == Greater(Len(page.data), page.offset + r)
  IN [data |-> [i \in 1 .. size |->
                  IF i > page.offset /\ i <= page.offset + r THEN s[i - page.offset]
                  ELSE IF i <= Len(page.data) THEN page.data[i] ELSE Junk],
      offset |-> page.offset + r,
      written |-> TRUE]

PageFor(data, pos) == [data |-> data, offset |-> pos % ChunkSize, written |-> FALSE]

(* Byte i of the file, counted from 1, with the page in front of the chunks. *)
ChunkByte(i) ==
  LET k == (i - 1) \div ChunkSize   j == ((i - 1) % ChunkSize) + 1
  IN IF k \in DOMAIN chunks /\ j <= Len(chunks[k]) THEN chunks[k][j] ELSE Junk
FileByte(i) ==
  LET j == ((i - 1) % ChunkSize) + 1
  IN IF file.page.written /\ (i - 1) \div ChunkSize = file.n
     THEN IF j <= Len(file.page.data) THEN file.page.data[j] ELSE Junk
     ELSE ChunkByte(i)

(* No chunk is missing or shorter than the files document has it (Covered),
   nor longer (Whole). *)
SizeOf(k, len) == Greater(0, Lesser(ChunkSize, len - k * ChunkSize))
Covered(cs, len) ==
  \A k \in 0 .. RoundUp(len) - 1 : k \in DOMAIN cs /\ Len(cs[k]) >= SizeOf(k, len)
Whole(cs, len) == Covered(cs, len) /\ \A k \in DOMAIN cs : Len(cs[k]) = SizeOf(k, len)

-----------------------------------------------------------------------------
NewFile == [length |-> 0, pos |-> 0, n |-> 0, dirty |-> TRUE, page |-> NoPage,
            cursor |-> NoCursor]
FoundFile(len) == [NewFile EXCEPT !.length = len, !.dirty = FALSE]

Init ==
  /\ stored \in {None} \cup FileLengths
  /\ content = [i \in 1 .. Greater(stored, 0) |-> 100 + i]
  /\ chunks = [k \in 0 .. RoundUp(Len(content)) - 1 |->
                 SubSeq(content, k * ChunkSize + 1, k * ChunkSize + SizeOf(k, stored))]
  /\ file = IF stored = None THEN NewFile ELSE FoundFile(stored)
  /\ pc = "idle"
  /\ call = NoCall
  /\ result = "none"
  /\ lost = FALSE /\ stale = FALSE /\ torn = FALSE /\ unsaved = FALSE /\ removed = FALSE
  /\ writes = 0 /\ failures = 0

Go(step) == pc' = step /\ UNCHANGED <<call, result>>
(* Calls refresh_page or flush_page, and goes on at back. *)
GoVia(step, back) ==
  /\ pc' = step
  /\ call' = [call EXCEPT !.back = back]
  /\ UNCHANGED result
End(r) == pc' = "return" /\ result' = r /\ UNCHANGED call

(* Nothing but remove is called on a file that was removed. *)
Usable == pc = "idle" /\ ~ removed

Start(op, len, data, step) ==
  /\ pc' = step
  /\ call' = [NoCall EXCEPT !.op = op, !.start = file.pos, !.len = len, !.data = data]
  /\ UNCHANGED <<result, server>>

(* m_read: readv until there is enough, the end of the file, or an error. *)
Read(len) ==
  /\ Usable
  /\ Start("read", len, <<>>, "readv")
  /\ UNCHANGED <<file, history, bounds>>

(* Read no more than needed: what this readv is asked for. *)
RoomOfBuffer == BufferSize
Room == Lesser(BufferSize, call.len - (Len(call.data) - call.part))

Readv ==
  /\ pc = "readv"
  /\ IF Room = 0 \/ file.pos >= file.length THEN End("ok")
     ELSE IF file.page = NoPage THEN GoVia("refresh", "page_read") ELSE Go("page_read")
  /\ UNCHANGED <<server, file, history, bounds>>

PageRead ==
  LET r == Lesser(Room - call.part, Len(file.page.data) - file.page.offset)
      bytes == SubSeq(file.page.data, file.page.offset + 1, file.page.offset + r)
      full == call.part + r = Room \/ file.pos + r = file.length
  IN /\ pc = "page_read"
     /\ file.page.offset <= Len(file.page.data)
     /\ file' = [file EXCEPT !.pos = @ + r, !.page.offset = @ + r]
     /\ call' = [call EXCEPT !.data = @ \o bytes, !.part = IF full THEN 0 ELSE @ + r,
                             !.back = "page_read"]
     /\ pc' = IF full THEN "readv" ELSE "refresh"
     /\ UNCHANGED <<server, result, history, bounds>>

(* What is left of a page is counted without a sign: behind its end the read
   copies memory that is not the page's.  Nothing is said of what follows. *)
ReadBehindPage ==
  /\ pc = "page_read"
  /\ file.page.offset > Len(file.page.data)
  /\ pc' = "crashed"
  /\ UNCHANGED <<server, file, call, result, history, bounds>>

-----------------------------------------------------------------------------
(* _mongoc_gridfs_file_refresh_page. *)

KeepCursor(n) ==
  /\ file.cursor # NoCursor
  /\ file.cursor.next <= n
  /\ n <= file.cursor.last
  /\ n < file.cursor.next + 2 * ChunksPerBatch
NewCursor(n) ==
  [next |-> n, last |-> file.length \div ChunkSize, ahead |-> <<>>, seen |-> n - 1,
   more |-> TRUE, failed |-> FALSE]

(* A page past the last chunk is new; any other comes from the cursor. *)
Refresh ==
  LET n == file.pos \div ChunkSize
  IN /\ pc = "refresh"
     /\ lost' = (lost \/ file.page.written)
     /\ content' = IF file.page.written THEN <<>> ELSE content
     /\ IF RoundUp(file.pos + 1) > RoundUp(file.length)
        THEN /\ file' = [file EXCEPT !.n = n, !.page = PageFor(<<>>, file.pos)]
             /\ Go(call.back)
        ELSE /\ file' = [file EXCEPT
                  !.n = n, !.page = NoPage,
                  !.cursor = IF KeepCursor(n) THEN @ ELSE NewCursor(n)]
             /\ Go("next")
     /\ UNCHANGED <<server, stale, torn, unsaved, removed, bounds>>

MustFetch ==
  pc = "next" /\ file.cursor.ahead = <<>> /\ file.cursor.more /\ ~ file.cursor.failed

(* The server answers with the next chunks, in order, as they are stored now. *)
Later(seen) == {k \in DOMAIN chunks : k > seen}
NextNumbers(ns, later) ==
  /\ \A i, j \in DOMAIN ns : i < j => ns[i] < ns[j]
  /\ \A k \in later : (\E i \in DOMAIN ns : ns[i] = k) \/ (\A i \in DOMAIN ns : ns[i] < k)
Fetch ==
  LET later == Later(file.cursor.seen)
      size == Lesser(ChunksPerBatch, Cardinality(later))
  IN /\ MustFetch
     /\ \E ns \in [1 .. size -> later] :
          LET seen == IF size = 0 THEN file.cursor.seen ELSE ns[size]
          IN /\ NextNumbers(ns, later)
             /\ file' = [file EXCEPT
                  !.cursor.ahead = [i \in 1 .. size |-> [n |-> ns[i], data |-> chunks[ns[i]]]],
                  !.cursor.seen = seen,
                  !.cursor.more = Later(seen) # {}]
     /\ UNCHANGED <<server, pc, call, result, history, bounds>>

(* What fails ends the call; a write then has stored an unknown part.  But
   writev does not see that extend failed: it puts the bytes where the
   position is now. *)
Fail ==
  /\ IF call.goal = None THEN End("error")
     ELSE /\ pc' = "put"
          /\ call' = [call EXCEPT !.goal = None, !.target = None]
          /\ UNCHANGED result
  /\ torn' = (torn \/ (call.op = "write"))
  /\ content' = IF call.op = "write" THEN <<>> ELSE content

(* The cursor advances to chunk n.  It may have had it for long: stale if the
   chunk was stored again meanwhile.  missing_chunk destroys it. *)
NextChunk ==
  /\ pc = "next"
  /\ file.cursor.ahead # <<>>
  /\ LET chunk == Head(file.cursor.ahead)
         cursor == [file.cursor EXCEPT !.next = @ + 1, !.ahead = Tail(@)]
     IN CASE cursor.next <= file.n ->
               /\ file' = [file EXCEPT !.cursor = cursor]
               /\ UNCHANGED <<pc, call, result, content, stale, torn>>
          [] cursor.next > file.n /\ chunk.n = file.n ->
               /\ file' = [file EXCEPT !.cursor = cursor, !.page = PageFor(chunk.data, file.pos)]
               /\ stale' = (stale \/ chunk.data # chunks[chunk.n])
               /\ content' = IF stale' THEN <<>> ELSE content
               /\ Go(call.back)
               /\ UNCHANGED torn
          [] OTHER ->
               /\ file' = [file EXCEPT !.cursor = NoCursor]
               /\ Fail
               /\ UNCHANGED stale
  /\ UNCHANGED <<server, lost, unsaved, removed, bounds>>

(* There is no next chunk.  A cursor that failed stays, and stays failed. *)
NoChunk ==
  /\ pc = "next"
  /\ file.cursor.ahead = <<>>
  /\ file.cursor.failed \/ ~ file.cursor.more
  /\ file' = [file EXCEPT !.cursor = IF @.failed THEN @ ELSE NoCursor]
  /\ Fail
  /\ UNCHANGED <<server, lost, stale, unsaved, removed, bounds>>

-----------------------------------------------------------------------------
(* mongoc_gridfs_file_writev, and _mongoc_gridfs_file_extend, which fills the
   gap when the position is past the end. *)

Written(len) == [i \in 1 .. len |-> 10 * (writes + 1) + i]

Write(len) ==
  LET end == file.pos + len
      s == Written(len)
  IN /\ Usable
     /\ writes < MaxWrites
     /\ end <= MaxLength
     /\ Start("write", len, s, "writev")
     /\ writes' = writes + 1
     /\ content' = IF ~ Known THEN <<>>
                   ELSE [i \in 1 .. Greater(Len(content), end) |->
                           IF i > file.pos /\ i <= end THEN s[i - file.pos]
                           ELSE IF i <= Len(content) THEN content[i] ELSE 0]
     /\ UNCHANGED <<file, lost, stale, torn, unsaved, removed, failures>>

PastEnd == file.pos > file.length

(* To the end of the file first, if there is a gap. *)
Writev ==
  /\ pc = "writev"
  /\ file.page # NoPage
  /\ IF PastEnd
     THEN /\ pc' = "seek"
          /\ call' = [call EXCEPT !.goal = file.pos, !.target = file.length]
     ELSE pc' = "put" /\ UNCHANGED call
  /\ UNCHANGED <<server, file, result, history, bounds>>

WritePage(onFull) ==
  LET r == Taken(file.page, Len(call.data))
      all == r = Len(call.data)
  IN /\ pc = "put"
     /\ file.page # NoPage
     /\ file' = [file EXCEPT !.page = Overwritten(@, call.data), !.pos = @ + r,
                             !.length = Greater(@, file.pos + r), !.dirty = @ \/ all]
     /\ call' = [call EXCEPT !.data = SubSeq(@, r + 1, Len(@)), !.back = "put"]
     /\ pc' = IF all THEN "return" ELSE onFull
     /\ result' = IF all THEN "ok" ELSE result
     /\ UNCHANGED <<server, history, bounds>>
(* Mutant: a full page is not flushed. *)
WriteOn == WritePage("put")
PageWrite == WritePage("flush")

NeedPage ==
  /\ pc \in {"writev", "put", "fill"}
  /\ file.page = NoPage
  /\ GoVia("refresh", pc)
  /\ UNCHANGED <<server, file, history, bounds>>

Fill ==
  LET zeros == [i \in 1 .. call.goal - file.pos |-> 0]
      pos == file.pos + Taken(file.page, Len(zeros))
      all == pos = call.goal
      filled == [file EXCEPT !.page = Overwritten(@, zeros), !.pos = pos]
  IN /\ pc = "fill"
     /\ file.page # NoPage
     /\ file' = IF all THEN [filled EXCEPT !.length = pos, !.dirty = TRUE] ELSE filled
     /\ call' = IF all THEN [call EXCEPT !.goal = None] ELSE [call EXCEPT !.back = "fill"]
     /\ pc' = IF all THEN "put" ELSE "flush"
     /\ UNCHANGED <<server, result, history, bounds>>

-----------------------------------------------------------------------------
(* mongoc_gridfs_file_seek. *)

Base(whence) == CASE whence = "set" -> 0
                  [] whence = "cur" -> file.pos
                  [] whence = "end" -> file.length

Seek(whence, delta) ==
  LET offset == Base(whence) + delta
  IN /\ offset \in -1 .. MaxLength
     /\ Usable
     /\ call' = [NoCall EXCEPT !.op = "seek", !.start = file.pos, !.target = offset]
     /\ IF offset < 0 THEN pc' = "return" /\ result' = "error"
        ELSE pc' = "seek" /\ UNCHANGED result
     /\ UNCHANGED <<server, file, history, bounds>>

SamePage == call.target \div ChunkSize = file.n

FlushBeforeSeek ==
  /\ pc = "seek"
  /\ ~ SamePage /\ file.page.written
  /\ GoVia("flush", "seek")
  /\ UNCHANGED <<server, file, history, bounds>>

SeekPage ==
  /\ pc = "seek"
  /\ SamePage \/ ~ file.page.written
  /\ file' = [file EXCEPT !.pos = call.target, !.n = call.target \div ChunkSize,
                !.page = IF SamePage /\ @ # NoPage
                         THEN [@ EXCEPT !.offset = call.target % ChunkSize] ELSE NoPage]
  /\ call' = [call EXCEPT !.target = None]
  /\ IF call.op = "seek" THEN pc' = "return" /\ result' = "ok"
     ELSE pc' = "fill" /\ UNCHANGED result
  /\ UNCHANGED <<server, history, bounds>>

-----------------------------------------------------------------------------
(* _mongoc_gridfs_file_flush_page and mongoc_gridfs_file_save. *)

(* Mutant: the page goes to the chunk of the position. *)
FlushedChunkOfPosition == file.pos \div ChunkSize
FlushedChunk == file.n

AfterUpdate == [k \in DOMAIN chunks \cup {FlushedChunk} |->
                  IF k = FlushedChunk THEN file.page.data ELSE chunks[k]]

UpdateChunk ==
  /\ pc = "flush"
  /\ chunks' = AfterUpdate
  /\ file' = [file EXCEPT !.page = NoPage]
  /\ Go("inner_save")
  /\ UNCHANGED <<stored, history, bounds>>

InnerSaveClean ==
  /\ pc = "inner_save"
  /\ ~ file.dirty
  /\ Go(call.back)
  /\ UNCHANGED <<server, file, history, bounds>>

MustUpdateFile == pc = "save_file" \/ (pc = "inner_save" /\ file.dirty)
UpdateFile ==
  /\ MustUpdateFile
  /\ stored' = file.length
  /\ file' = [file EXCEPT !.dirty = FALSE]
  /\ unsaved' = FALSE
  /\ IF pc = "save_file" THEN End("ok") ELSE Go(call.back)
  /\ UNCHANGED <<chunks, content, lost, stale, torn, removed, bounds>>

(* Mutant: save updates the files document only. *)
SaveWithoutFlush ==
  /\ Usable
  /\ call' = [NoCall EXCEPT !.op = "save", !.start = file.pos, !.back = "save_file"]
  /\ IF file.dirty THEN pc' = "save_file" /\ UNCHANGED result
     ELSE pc' = "return" /\ result' = "ok"
  /\ UNCHANGED <<server, file, history, bounds>>
Save ==
  /\ Usable
  /\ call' = [NoCall EXCEPT !.op = "save", !.start = file.pos, !.back = "save_file"]
  /\ IF file.dirty
     THEN pc' = (IF file.page.written THEN "flush" ELSE "save_file") /\ UNCHANGED result
     ELSE pc' = "return" /\ result' = "ok"
  /\ UNCHANGED <<server, file, history, bounds>>

(* m_remove: the files document, then the chunks. *)
Remove ==
  /\ pc = "idle"
  /\ Start("remove", 0, <<>>, "remove_file")
  /\ UNCHANGED <<file, history, bounds>>

(* Mutant: the chunks go first. *)
RemoveChunksFirst ==
  /\ pc = "remove_file"
  /\ chunks' = <<>>
  /\ Go("remove_chunks")
  /\ UNCHANGED <<stored, file, history, bounds>>
RemoveFile ==
  /\ pc = "remove_file"
  /\ stored' = None
  /\ Go("remove_chunks")
  /\ UNCHANGED <<chunks, file, history, bounds>>

RemoveChunks ==
  /\ pc = "remove_chunks"
  /\ chunks' = <<>>
  /\ removed' = TRUE
  /\ content' = <<>>
  /\ End("ok")
  /\ UNCHANGED <<stored, file, lost, stale, torn, unsaved, bounds>>

-----------------------------------------------------------------------------
(* The server fails, or does what it was asked and the answer is lost.  The
   files document counts as saved nevertheless. *)
ServerFails ==
  /\ failures < MaxFailures
  /\ failures' = failures + 1
  /\ \/ /\ MustFetch
        /\ file' = [file EXCEPT !.cursor.failed = TRUE]
        /\ UNCHANGED <<server, unsaved, removed>>
     \/ /\ pc = "flush"
        /\ chunks' \in {chunks, AfterUpdate}
        /\ UNCHANGED <<stored, file, unsaved, removed>>
     \/ /\ MustUpdateFile
        /\ stored' \in {stored, file.length}
        /\ file' = [file EXCEPT !.dirty = FALSE]
        /\ unsaved' = TRUE
        /\ UNCHANGED <<chunks, removed>>
     \/ /\ pc = "remove_file"
        /\ stored' \in {stored, None}
        /\ unsaved' = (unsaved \/ stored' # stored)
        /\ UNCHANGED <<chunks, file, removed>>
     \/ /\ pc = "remove_chunks"
        /\ \E kept \in SUBSET DOMAIN chunks : chunks' = [k \in kept |-> chunks[k]]
        /\ removed' = TRUE
        /\ UNCHANGED <<stored, file, unsaved>>
  /\ Fail
  /\ UNCHANGED <<lost, stale, writes>>

Return ==
  /\ pc = "return"
  /\ pc' = "idle"
  /\ call' = NoCall
  /\ result' = "none"
  /\ UNCHANGED <<server, file, history, bounds>>

(* The collector takes the handle, or the process ends in the middle of a
   call; the file is opened again, with what was stored. *)
Reopen ==
  /\ stored # None
  /\ file' = FoundFile(stored)
  /\ pc' = "idle"
  /\ call' = NoCall
  /\ result' = "none"
  /\ content' = IF Whole(chunks, stored)
                THEN [i \in 1 .. stored |-> ChunkByte(i)] ELSE <<>>
  /\ torn' = ~ Whole(chunks, stored)
  /\ stale' = (stale /\ ~ Whole(chunks, stored))
  /\ lost' = FALSE /\ unsaved' = FALSE
  /\ UNCHANGED <<server, removed, bounds>>

Step == \/ Readv \/ PageRead \/ ReadBehindPage \/ Refresh \/ Fetch \/ NextChunk \/ NoChunk
        \/ NeedPage \/ Writev \/ PageWrite \/ Fill
        \/ FlushBeforeSeek \/ SeekPage
        \/ UpdateChunk \/ InnerSaveClean \/ UpdateFile
        \/ RemoveFile \/ RemoveChunks \/ Return \/ ServerFails

Next == \/ \E len \in ReadLengths : Read(len)
        \/ \E len \in WriteLengths : Write(len)
        \/ \E whence \in {"set", "cur", "end"}, delta \in -MaxLength - 1 .. MaxLength :
             Seek(whence, delta)
        \/ Save
        \/ Remove
        \/ Reopen
        \/ Step

Spec == Init /\ [][Next]_vars
FairSpec == Spec /\ WF_vars(Step)

-----------------------------------------------------------------------------
(* Between calls the file holds what was written to it, every byte at its
   place and zeros in the gaps, as long as no write failed and no page was
   dropped: page, chunks and length agree (gridfsfile.c:178-190). *)
FileHoldsContent ==
  pc = "idle" /\ Known =>
    /\ file.length = Len(content)
    /\ \A i \in 1 .. file.length : FileByte(i) = content[i]

(* A successful read returns the bytes from the position it began at, as many
   as it was asked for or there are (gridfsfile.c:79-101). *)
ReadReturnsContent ==
  pc = "return" /\ call.op = "read" /\ result = "ok" /\ Known =>
    call.data = SubSeq(content, call.start + 1, Lesser(call.start + call.len, Len(content)))

(* When save returns true, whoever opens the file finds what was written,
   unless an update of the files document failed before: a save that is tried
   again then does nothing (gridfsfile.c:109-114). *)
SavedIsStored ==
  pc = "return" /\ call.op = "save" /\ result = "ok" /\ Known /\ ~ unsaved =>
    /\ stored = Len(content)
    /\ \A i \in 1 .. stored : ChunkByte(i) = content[i]

(* At any moment, whatever failed or died before, the files document promises
   no byte that is not stored: chunks are stored before the length that counts
   them, and removed after it (mongoc-gridfs-file.c:635-678).  That takes that
   no page was stale: one that is shorter than what is stored would replace it
   when it is written to. *)
StoredIsReadable == stored # None /\ ~ stale => Covered(chunks, stored)

(* Every call returns, unless it found a chunk longer than the length says, or
   has read behind a stale page. *)
CallsEnd == [](pc # "idle" => <>(pc = "idle" \/ torn \/ pc = "crashed"))

(* "the first write allocates a large enough buffer for file->chunk_size, which
   becomes authoritative from then on" (mongoc-gridfs-file-page.c:97-99): no
   page with written bytes is dropped before it is stored. *)
WrittenIsKept == ~ lost
=============================================================================
