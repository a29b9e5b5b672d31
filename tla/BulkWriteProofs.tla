--------------------------- MODULE BulkWriteProofs ---------------------------
(***************************************************************************)
(* What TLAPS proves about BulkWrite, for bulks of any size and any number *)
(* of calls, batches and lost connections.  The argument is the inductive  *)
(* invariant IInv of BulkWrite; there is a lemma for each of its parts.    *)
(*                                                                         *)
(* Then what a bulk tells of the documents it wrote: the documents of an   *)
(* ordered bulk are executed in order (the invariant Sequential of         *)
(* BulkWrite, beside IInv); the count, the indices of the documents        *)
(* refused, and what an ordered bulk leaves behind a document that cannot  *)
(* be written (the invariant Totals, beside both).                         *)
(***************************************************************************)
EXTENDS BulkWrite, FiniteSetTheorems, SequenceTheorems, WellFoundedInduction, TLAPS

(* Induction over the naturals, stated with a set instead of an operator so
   that the provers can use it: apply it to {n \in Nat : P(n)}.  The least
   number that the set lacked would have a predecessor that it lacks too. *)
LEMMA NatSetInduction ==
  ASSUME NEW S \in SUBSET Nat, 0 \in S, \A n \in S : n + 1 \in S
  PROVE  \A n \in Nat : n \in S
<1> SUFFICES ASSUME Nat \ S # {} PROVE FALSE
  OBVIOUS
<1>1. PICK m \in Nat \ S : \A k \in Nat \ S : <<k, m>> \notin OpToRel(<, Nat)
  BY NatLessThanWellFounded, WFMin, Zenon
<1>2. m - 1 \in Nat \ S
  <2>1. m \in Nat /\ m # 0 /\ m = (m - 1) + 1
    OBVIOUS
  <2> QED BY <2>1
<1>3. \A k \in Nat : k < m => <<k, m>> \in OpToRel(<, Nat)
  BY DEF OpToRel
<1>4. m - 1 < m
  OBVIOUS
<1> QED BY <1>1, <1>2, <1>3, <1>4, Zenon

(* The fields of what TypeOK types. *)
LEMMA Fields == ASSUME TypeOK
  PROVE /\ run \in Nat /\ cmd \in Nat /\ offset \in Nat /\ index \in Nat
        /\ sent \in Nat /\ batch \in Nat /\ txn \in Nat
        /\ request.run \in Nat /\ request.cmd \in Nat /\ request.lo \in Nat
        /\ request.hi \in Nat /\ request.next \in Nat /\ request.txn \in Nat
        /\ reply.ok \in BOOLEAN /\ reply.retry \in BOOLEAN /\ reply.concern \in BOOLEAN
        /\ result \in Result
BY DEF TypeOK, Request, Reply

(* What a server does with the next statement of a request. *)
LEMMA ProgressTyped == ASSUME NEW r \in Request, NEW q, q = Progress(r)
  PROVE /\ q \in Request /\ q.run = r.run /\ q.cmd = r.cmd /\ q.lo = r.lo /\ q.hi = r.hi
        /\ q.txn = r.txn
        /\ q.next = IF ordered /\ IsBad(r, r.next) THEN r.hi + 1 ELSE r.next + 1
<1> DEFINE n == IF ordered /\ IsBad(r, r.next) THEN r.hi + 1 ELSE r.next + 1
<1>1. n \in Nat
  BY DEF Request
<1>2. q = [r EXCEPT !.next = n]
  BY DEF Progress
<1> HIDE DEF n
<1>3. q \in Request /\ q.run = r.run /\ q.cmd = r.cmd /\ q.lo = r.lo /\ q.hi = r.hi
        /\ q.txn = r.txn /\ q.next = n
  BY <1>1, <1>2 DEF Request
<1> QED BY <1>3 DEF n

LEMMA EffectTyped == ASSUME NEW r \in Request, applied \in Seq(Executed)
  PROVE Effect(r) \in Seq(Executed)
<1>1. Statement(r) \in Executed
  BY DEF Statement, Request, Executed
<1>2. Append(applied, Statement(r)) \in Seq(Executed)
  BY <1>1
<1> QED BY <1>2, Zenon DEF Effect

LEMMA MergedTyped == ASSUME TypeOK, Placed, pc = "reply"
  PROVE /\ Merged \in Result
        /\ Merged.failed = FailedAfter
        /\ Merged.mustStop = (result.mustStop \/ MustStop)
        /\ Merged.error = result.error
        /\ Merged.refused = result.refused \cup
             (IF reply.ok THEN {AbsoluteIndex(d) : d \in RefusedOf(request)} ELSE {})
<1>0. /\ request.lo \in Nat /\ request.hi \in Nat /\ index \in Nat
      /\ reply.ok \in BOOLEAN /\ reply.concern \in BOOLEAN /\ result \in Result
  BY Fields
<1>1. request.lo .. request.hi \subseteq Nat /\ IsFiniteSet(request.lo .. request.hi)
  <2>1. request.lo \in Int /\ request.hi \in Int
    BY <1>0
  <2>2. IsFiniteSet(request.lo .. request.hi)
    BY <2>1, FS_Interval
  <2> QED BY <1>0, <2>2
<1>2. Cardinality(WrittenOf(request)) \in Nat
  <2>1. IsFiniteSet(WrittenOf(request))
    BY <1>1, FS_Subset DEF WrittenOf
  <2> QED BY <2>1, FS_CardinalityType
<1>3. CountAfter \in Nat
  BY <1>0, <1>2 DEF CountAfter, Result
<1>4. {AbsoluteIndex(d) : d \in RefusedOf(request)} \subseteq Nat
  <2> SUFFICES ASSUME NEW d \in RefusedOf(request) PROVE AbsoluteIndex(d) \in Nat
    OBVIOUS
  <2>1. d \in Nat /\ request.lo <= d
    BY <1>0 DEF RefusedOf
  <2> QED BY <1>0, <2>1 DEF AbsoluteIndex
<1>5. FailedAfter \in BOOLEAN /\ (result.mustStop \/ MustStop) \in BOOLEAN
      /\ (result.concern \/ reply.concern) \in BOOLEAN
  BY <1>0 DEF FailedAfter, MustStop, Result
<1> DEFINE f == FailedAfter
           m == result.mustStop \/ MustStop
           w == result.concern \/ reply.concern
           k == CountAfter
           x == result.refused \cup
                  (IF reply.ok THEN {AbsoluteIndex(d) : d \in RefusedOf(request)} ELSE {})
<1>6. Merged = [result EXCEPT !.failed = f, !.mustStop = m, !.refused = x, !.counted = k,
                              !.concern = w]
  BY Zenon DEF Merged
<1>7. f \in BOOLEAN /\ m \in BOOLEAN /\ w \in BOOLEAN /\ k \in Nat /\ x \in SUBSET Nat
  BY <1>0, <1>3, <1>4, <1>5 DEF Result
<1> HIDE DEF f, m, w, k, x
<1>8. Merged \in Result /\ Merged.failed = f /\ Merged.mustStop = m
      /\ Merged.error = result.error /\ Merged.refused = x
  BY <1>0, <1>6, <1>7 DEF Result
<1> QED BY <1>8 DEF f, m, x

(* One document more for the last command, or a new command. *)
LEMMA AddTyped ==
  ASSUME TypeOK, NEW type \in Type, NEW kind \in Kind, Add(type, kind)
  PROVE  commands' \in Seq(Command)
<1> DEFINE n == Len(commands)
<1>1. n \in Nat /\ commands \in Seq(Command)
  BY DEF TypeOK
<1>2. CASE n > 0 /\ commands[n].type = type
  <2>1. commands' = [commands EXCEPT ![n].docs = Append(@, kind)]
    BY <1>2, Zenon DEF Add
  <2>2. commands[n] \in Command
    BY <1>1, <1>2
  <2>3. [commands[n] EXCEPT !.docs = Append(@, kind)] \in Command
    BY <2>2, SMTT(40) DEF Command
  <2>4. commands' = [commands EXCEPT ![n] = [commands[n] EXCEPT !.docs = Append(@, kind)]]
    BY <2>1, Zenon
  <2> DEFINE c == [commands[n] EXCEPT !.docs = Append(@, kind)]
  <2>5. c \in Command /\ commands' = [commands EXCEPT ![n] = c] /\ n \in 1 .. Len(commands)
    BY <1>1, <1>2, <2>3, <2>4
  <2> HIDE DEF n, c
  <2> QED BY <1>1, <2>5
<1>3. CASE ~ (n > 0 /\ commands[n].type = type)
  <2>1. commands' = Append(commands, [type |-> type, docs |-> <<kind>>])
    BY <1>3, Zenon DEF Add
  <2>2. [type |-> type, docs |-> <<kind>>] \in Command
    BY DEF Command
  <2> QED BY <1>1, <2>1, <2>2
<1> QED BY <1>2, <1>3

LEMMA InitType == Init => TypeOK
<1> SUFFICES ASSUME Init PROVE TypeOK
  OBVIOUS
<1>1. PICK e \in {"", "options"} : result = NewResult(e)
  BY DEF Init
<1>2. result \in Result
  BY <1>1 DEF NewResult, Result, Error
<1>3. request \in Request /\ message \in Error /\ reply \in Reply
      /\ conn \in Stream
  BY DEF Init, NoRequest, NoReply, Request, Reply, Stream, Error
<1>4. commands \in Seq(Command) /\ applied \in Seq(Executed)
  <2>1. <<>> \in Seq(Command) /\ <<>> \in Seq(Executed)
    BY EmptySeq
  <2> QED BY <2>1 DEF Init
<1> QED BY <1>2, <1>3, <1>4 DEF Init, TypeOK

LEMMA TypeKeeps == IInv /\ [Next]_vars => TypeOK'
<1> SUFFICES ASSUME IInv, [Next]_vars PROVE TypeOK'
  OBVIOUS
<1>0. TypeOK /\ Placed /\ Located
  BY DEF IInv
<1> USE <1>0
<1>1. ASSUME NEW type \in Type, NEW kind \in Kind, Add(type, kind) PROVE TypeOK'
  <2>1. commands' \in Seq(Command)
    BY <1>1, AddTyped
  <2>2. outcome' = "none" /\ message' \in Error
    BY <1>1 DEF Add, Error
  <2> QED BY <1>1, <2>1, <2>2 DEF Add, TypeOK, place, servers
<1>2. ASSUME Execute PROVE TypeOK'
  <2> DEFINE e == IF run = 0 THEN result.error ELSE ""
  <2>1. e \in Error /\ result' = NewResult(e) /\ run \in Nat
    <3>1. result.error \in Error /\ run \in Nat
      BY Fields DEF Result
    <3>2. e \in Error
      BY <3>1 DEF Error
    <3>3. result' = NewResult(e)
      BY <1>2, Zenon DEF Execute
    <3> QED BY <3>1, <3>2, <3>3
  <2> HIDE DEF e
  <2>2. result' \in Result
    BY <2>1 DEF NewResult, Result
  <2>3. pc' \in {"idle", "stream"} /\ outcome' \in {"none", "failed"} /\ message' \in Error
    BY <1>2, <2>1 DEF Execute, Return, Error, e
  <2>4. /\ run' = run + 1 /\ cmd' = 1 /\ offset' = 0 /\ index' = 0 /\ sent' = 0 /\ batch' = 0
        /\ UNCHANGED <<ordered, commands, request, reply, canRetry, txn, conn, servers>>
    BY <1>2, Zenon DEF Execute
  <2> QED BY <2>1, <2>2, <2>3, <2>4 DEF TypeOK, servers
<1>3. ASSUME GetStream PROVE TypeOK'
  BY <1>3 DEF GetStream, TypeOK, servers, NoReply, Reply, Stream
<1>4. ASSUME NoStream PROVE TypeOK'
  BY <1>4 DEF NoStream, TypeOK, servers, place, Return, Error
<1>5. ASSUME NEW n \in 1 .. MaxBatch, Ship(n) PROVE TypeOK'
  <2>1. n \in Nat /\ run \in Nat /\ cmd \in Nat /\ sent \in Nat /\ txn \in Nat
    BY BulkWriteAssumption, Fields
  <2>2. CASE conn.open /\ conn.uses # "freed" /\ Retryable(cmd)
    <3>1. /\ batch' = n /\ txn' = txn + 1 /\ canRetry' = TRUE /\ pc' = "sent"
          /\ request' = [run |-> run, cmd |-> cmd, lo |-> sent + 1, hi |-> sent + n,
                         next |-> sent + 1, txn |-> txn + 1]
      BY <1>5, <2>2 DEF Ship
    <3>2. request' \in Request
      BY <2>1, <3>1 DEF Request
    <3> QED BY <1>5, <2>1, <3>1, <3>2 DEF Ship, TypeOK, place, servers
  <2>3. CASE conn.open /\ conn.uses # "freed" /\ ~Retryable(cmd)
    <3>1. /\ batch' = n /\ txn' = txn /\ canRetry' = FALSE /\ pc' = "sent"
          /\ request' = [run |-> run, cmd |-> cmd, lo |-> sent + 1, hi |-> sent + n,
                         next |-> sent + 1, txn |-> 0]
      BY <1>5, <2>3 DEF Ship, Retryable
    <3>2. request' \in Request
      BY <2>1, <3>1 DEF Request
    <3> QED BY <1>5, <2>1, <3>1, <3>2 DEF Ship, TypeOK, place, servers
  <2>4. CASE ~ (conn.open /\ conn.uses # "freed")
    BY <1>5, <2>4 DEF Ship, TypeOK, place, servers
  <2> QED BY <2>2, <2>3, <2>4
<1>6. ASSUME NEW n \in 0 .. MaxBatch, TooLarge(n) PROVE TypeOK'
  <2>1. result' \in Result
    BY <1>6, Fields DEF TooLarge, Result, Error
  <2> QED BY <1>6, <2>1 DEF TooLarge, TypeOK, place, servers
<1>7. ASSUME Serve PROVE TypeOK'
  <2>1. request' \in Request
    BY <1>7, ProgressTyped DEF Serve, TypeOK
  <2>2. applied' \in Seq(Executed)
    BY <1>7, EffectTyped DEF Serve, TypeOK
  <2> QED BY <1>7, <2>1, <2>2 DEF Serve, TypeOK, place
<1>8. ASSUME NEW r \in late, ServeLate(r) PROVE TypeOK'
  <2>1. Progress(r) \in Request
    BY ProgressTyped DEF TypeOK
  <2>2. applied' \in Seq(Executed)
    BY <1>8, EffectTyped DEF ServeLate, TypeOK
  <2>3. late' \subseteq Request
    BY <1>8, <2>1 DEF ServeLate, Unfinished, TypeOK
  <2> QED BY <1>8, <2>2, <2>3 DEF ServeLate, TypeOK, place
<1>9. ASSUME NEW ok \in BOOLEAN, NEW retry \in BOOLEAN, NEW concern \in BOOLEAN,
             Receive(ok, retry, concern), conn' \in {conn} \cup Closings,
             late' \subseteq late \cup {request}
      PROVE TypeOK'
  <2>1. result' \in Result
    BY <1>9, Fields DEF Receive, Result, Error
  <2>2. conn' \in Stream
    <3>1. conn \in Stream
      BY DEF TypeOK
    <3> QED BY <1>9, <3>1 DEF Closings, Stream
  <2>3. sent' \in Nat /\ batch' \in Nat
    BY <1>9, Fields DEF Receive
  <2>4. late' \subseteq Request
    BY <1>9 DEF TypeOK
  <2> QED BY <1>9, <2>1, <2>2, <2>3, <2>4 DEF Receive, TypeOK, place, Reply
<1>10. ASSUME Answered PROVE TypeOK'
  <2>1. PICK retry, concern \in BOOLEAN :
            /\ Receive(TRUE, retry, concern)
            /\ conn' \in {conn} \cup (IF concern THEN Closings ELSE {})
    BY <1>10 DEF Answered
  <2>2. conn' \in {conn} \cup Closings
    BY <2>1
  <2> QED BY <1>9, <1>10, <2>1, <2>2 DEF Answered
<1>11. ASSUME Failed PROVE TypeOK'
  <2>1. PICK retry \in BOOLEAN : Receive(FALSE, retry, FALSE)
                                 /\ conn' \in {conn} \cup (IF retry THEN Closings ELSE {})
    BY <1>11 DEF Failed
  <2> QED BY <1>9, <1>11, <2>1 DEF Failed
<1>12. ASSUME Lost PROVE TypeOK'
  <2>1. Retryable(cmd) \in BOOLEAN
    BY DEF Retryable
  <2>2. Receive(FALSE, Retryable(cmd), FALSE) /\ conn' \in Closings
        /\ late' \subseteq late \cup {request}
    BY <1>12 DEF Lost, Unfinished
  <2> QED BY <1>9, <2>1, <2>2
<1>13. ASSUME Retry PROVE TypeOK'
  <2>1. request' \in Request
    BY <1>13, Fields DEF Retry, Again, TypeOK, Request
  <2>2. conn' \in Stream
    BY <1>13 DEF Retry, TypeOK, Stream
  <2> QED BY <1>13, <2>1, <2>2 DEF Retry, NoMoreRetries, TypeOK, place, servers
<1>14. ASSUME Settle PROVE TypeOK'
  <2>1. result' \in Result
    BY <1>14, MergedTyped, Zenon DEF Settle
  <2>2. conn' \in Stream
    <3>1. conn \in Stream
      BY DEF TypeOK
    <3> QED BY <1>14, <3>1 DEF Settle, Stream
  <2>3. index' \in Nat
    BY <1>14, Fields, SMTT(40) DEF Settle, Placed
  <2>4. pc' \in {"batch", "end"} /\ canRetry' = FALSE
    BY <1>14 DEF Settle
  <2> QED BY <1>14, <2>1, <2>2, <2>3, <2>4 DEF Settle, TypeOK, servers
<1>15. ASSUME EndCommand PROVE TypeOK'
  <2>1. result \in Result /\ cmd \in Nat /\ offset \in Nat
    BY Fields
  <2>2. FinalError \in Error /\ ErrorLeft \in Error
    BY <2>1 DEF FinalError, ErrorLeft, Result, Error
  <2>3. CASE StopsBulk \/ cmd = Len(commands)
    <3>1. result' = [result EXCEPT !.error = FinalError]
          /\ pc' = "idle" /\ outcome' \in {"ok", "failed"} /\ message' = FinalError
          /\ UNCHANGED <<cmd, offset>>
      BY <1>15, <2>3 DEF EndCommand, Return
    <3>2. result' \in Result
      BY <2>1, <2>2, <3>1 DEF Result
    <3> QED BY <1>15, <2>2, <3>1, <3>2 DEF EndCommand, TypeOK, servers
  <2>4. CASE ~ (StopsBulk \/ cmd = Len(commands))
    <3>1. result' = [result EXCEPT !.error = ErrorLeft]
          /\ cmd' = cmd + 1 /\ offset' = offset + Len(Docs) /\ pc' = "stream"
          /\ UNCHANGED <<message, outcome>>
      BY <1>15, <2>4 DEF EndCommand
    <3>2. result' \in Result
      BY <2>1, <2>2, <3>1 DEF Result
    <3>3. Len(Docs) \in Nat
      <4>1. cmd \in 1 .. Len(commands) /\ commands \in Seq(Command)
        BY <1>15 DEF EndCommand, Placed, TypeOK
      <4>2. commands[cmd] \in Command
        BY <4>1
      <4> QED BY <4>2 DEF Docs, Command
    <3>4. cmd' \in Nat /\ offset' \in Nat
      BY <2>1, <3>1, <3>3
    <3> QED BY <1>15, <3>1, <3>2, <3>4 DEF EndCommand, TypeOK, servers
  <2> QED BY <2>3, <2>4
<1>16. ASSUME UNCHANGED vars PROVE TypeOK'
  BY <1>16 DEF vars, TypeOK
<1> QED
  BY <1>1, <1>2, <1>3, <1>4, <1>5, <1>6, <1>7, <1>8, <1>10, <1>11, <1>12, <1>13, <1>14, <1>15,
     <1>16 DEF Next, Step

-----------------------------------------------------------------------------
(* What the actions do to the parts of the state the other lemmas are about. *)

(* Whatever happens to a request that was sent, a reply is there. *)
LEMMA ReplyComes ==
  ASSUME TypeOK, Answered \/ Failed \/ Lost
  PROVE  /\ pc = "sent" /\ pc' = "reply" /\ sent' = sent + batch /\ batch' = 0
         /\ reply'.ok \in BOOLEAN
         /\ UNCHANGED <<ordered, commands, run, cmd, offset, index, request, canRetry, txn,
                        applied, message, outcome>>
         /\ reply'.ok => Served(request) /\ late' = late /\ result' = result
         /\ ~reply'.ok => result' = [result EXCEPT !.error = "command"]
         /\ late' = late \/ late' = late \cup Unfinished(request)
         /\ \/ conn' = conn
            \/ /\ conn'.uses = conn.uses /\ ~conn'.open /\ (conn.uses = "first" => ~conn'.first)
               /\ reply'.ok => reply'.concern
<1>1. ASSUME NEW ok \in BOOLEAN, NEW retry \in BOOLEAN, NEW concern \in BOOLEAN,
             Receive(ok, retry, concern)
      PROVE  /\ pc = "sent" /\ pc' = "reply" /\ sent' = sent + batch /\ batch' = 0
             /\ reply'.ok = ok /\ reply'.concern = concern
             /\ UNCHANGED <<ordered, commands, run, cmd, offset, index, request, canRetry, txn,
                            applied, message, outcome>>
             /\ ok => result' = result
             /\ ~ok => result' = [result EXCEPT !.error = "command"]
  BY <1>1 DEF Receive, place
<1>2. ASSUME conn' \in Closings
      PROVE conn'.uses = conn.uses /\ ~conn'.open /\ (conn.uses = "first" => ~conn'.first)
  <2>1. conn \in Stream
    BY DEF TypeOK
  <2> QED BY <1>2, <2>1 DEF Closings, Stream
<1>3. CASE Answered
  <2>1. PICK retry, concern \in BOOLEAN :
            /\ Receive(TRUE, retry, concern)
            /\ conn' \in {conn} \cup (IF concern THEN Closings ELSE {})
    BY <1>3 DEF Answered
  <2>2. Served(request) /\ late' = late
    BY <1>3 DEF Answered
  <2>3. reply'.ok = TRUE /\ reply'.concern = concern /\ result' = result
    BY <1>1, <2>1
  <2>4. conn' = conn \/ (concern /\ conn' \in Closings)
    BY <2>1
  <2> QED BY <1>1, <1>2, <2>1, <2>2, <2>3, <2>4
<1>4. CASE Failed
  <2>1. PICK retry \in BOOLEAN : Receive(FALSE, retry, FALSE)
                                 /\ conn' \in {conn} \cup (IF retry THEN Closings ELSE {})
    BY <1>4 DEF Failed
  <2>2. late' = late /\ (conn' = conn \/ conn' \in Closings)
    BY <1>4, <2>1 DEF Failed
  <2>3. reply'.ok = FALSE /\ result' = [result EXCEPT !.error = "command"]
    BY <1>1, <2>1
  <2> QED BY <1>1, <1>2, <2>1, <2>2, <2>3
<1>5. CASE Lost
  <2>1. Retryable(cmd) \in BOOLEAN
    BY DEF Retryable
  <2>2. Receive(FALSE, Retryable(cmd), FALSE) /\ conn' \in Closings
        /\ late' = late \cup Unfinished(request)
    BY <1>5 DEF Lost
  <2>3. reply'.ok = FALSE /\ result' = [result EXCEPT !.error = "command"]
    BY <1>1, <2>1, <2>2
  <2> QED BY <1>1, <1>2, <2>1, <2>2, <2>3
<1> QED BY <1>3, <1>4, <1>5

(* A batch is sent, with a number of its own if it may be sent again. *)
LEMMA BatchGoes ==
  ASSUME TypeOK, NEW n \in 1 .. MaxBatch, Ship(n)
  PROVE  /\ n \in Nat \ {0} /\ pc = "batch" /\ Collected(n)
         /\ UNCHANGED <<ordered, commands, run, cmd, offset, index, sent, reply, conn,
                        late, applied, result, message, outcome>>
         /\ \/ /\ pc' = "sent" /\ batch' = n
               /\ conn.open
               /\ request'.run = run /\ request'.cmd = cmd /\ request'.lo = sent + 1
               /\ request'.hi = sent + n /\ request'.next = sent + 1
               /\ request'.txn \in Nat /\ canRetry' \in BOOLEAN
               /\ (canRetry' => request'.txn = txn + 1 /\ txn' = txn + 1)
               /\ (~canRetry' => request'.txn = 0)
            \/ /\ pc' = "crashed" /\ ~(conn.open /\ conn.uses # "freed")
               /\ UNCHANGED <<batch, request, canRetry>>
<1>1. n \in Nat \ {0} /\ sent \in Nat /\ txn \in Nat
  BY BulkWriteAssumption DEF TypeOK
<1>2. pc = "batch" /\ Collected(n)
      /\ UNCHANGED <<ordered, commands, run, cmd, offset, index, sent, reply, conn,
                     late, applied, result, message, outcome>>
  BY DEF Ship, place, servers
<1>3. CASE conn.open /\ conn.uses # "freed" /\ Retryable(cmd)
  <2>1. /\ batch' = n /\ txn' = txn + 1 /\ canRetry' = TRUE /\ pc' = "sent"
        /\ request' = [run |-> run, cmd |-> cmd, lo |-> sent + 1, hi |-> sent + n,
                       next |-> sent + 1, txn |-> txn + 1]
    BY <1>3 DEF Ship
  <2> QED BY <1>1, <1>2, <1>3, <2>1
<1>4. CASE conn.open /\ conn.uses # "freed" /\ ~Retryable(cmd)
  <2>1. /\ batch' = n /\ canRetry' = FALSE /\ pc' = "sent"
        /\ request' = [run |-> run, cmd |-> cmd, lo |-> sent + 1, hi |-> sent + n,
                       next |-> sent + 1, txn |-> 0]
    BY <1>4 DEF Ship, Retryable
  <2> QED BY <1>1, <1>2, <1>4, <2>1
<1>5. CASE ~(conn.open /\ conn.uses # "freed")
  <2>1. pc' = "crashed" /\ UNCHANGED <<batch, request, canRetry>>
    BY <1>5 DEF Ship
  <2> QED BY <1>1, <1>2, <1>5, <2>1
<1> QED BY <1>3, <1>4, <1>5

(* The loop goes on after a batch. *)
LEMMA BatchSettles ==
  ASSUME TypeOK, Placed, Settle
  PROVE  /\ pc = "reply"
         /\ UNCHANGED <<ordered, commands, run, cmd, offset, sent, batch, request, reply, txn,
                        late, applied, message, outcome>>
         /\ canRetry' = FALSE
         /\ conn' = conn \/ conn'.uses = "freed"
         /\ pc' = IF sent < Len(Docs) /\ ~Merged.mustStop THEN "batch" ELSE "end"
         /\ result' = Merged
<1>1. pc' = IF sent < Len(Docs) /\ ~Merged.mustStop THEN "batch" ELSE "end"
  BY Zenon DEF Settle
<1>2. result' = Merged /\ canRetry' = FALSE
  BY Zenon DEF Settle
<1>3. conn' = conn \/ conn'.uses = "freed"
  <2>1. conn \in Stream
    BY DEF TypeOK
  <2> QED BY <2>1 DEF Settle, Stream
<1>4. pc = "reply"
      /\ UNCHANGED <<ordered, commands, run, cmd, offset, sent, batch, request, reply, txn,
                     late, applied, message, outcome>>
  BY DEF Settle, servers
<1> QED BY <1>1, <1>2, <1>3, <1>4

LEMMA DocsTyped == ASSUME TypeOK, NEW c \in 1 .. Len(commands)
  PROVE commands[c] \in Command /\ Len(commands[c].docs) \in Nat
<1>1. commands[c] \in Command
  BY DEF TypeOK
<1> QED BY <1>1 DEF Command

LEMMA PlacedKeeps == IInv /\ [Next]_vars => Placed'
<1> SUFFICES ASSUME IInv, [Next]_vars PROVE Placed'
  OBVIOUS
<1>0. /\ TypeOK /\ Placed /\ sent \in Nat /\ batch \in Nat /\ cmd \in Nat
      /\ canRetry \in BOOLEAN
  BY Fields DEF IInv, TypeOK
<1>1. ASSUME NEW type \in Type, NEW kind \in Kind, Add(type, kind) PROVE Placed'
  BY <1>0, <1>1 DEF Add, Placed, place
<1>2. ASSUME Execute PROVE Placed'
  <2>1. pc' = "idle" \/ (pc' = "stream" /\ commands # <<>> /\ outcome' = "none")
    BY <1>2, Zenon DEF Execute, Return
  <2>2. cmd' = 1 /\ batch' = 0 /\ pc = "idle" /\ UNCHANGED <<commands, canRetry>>
    BY <1>2, Zenon DEF Execute
  <2>3. commands # <<>> => 1 \in 1 .. Len(commands)
    BY <1>0 DEF TypeOK
  <2> QED BY <1>0, <2>1, <2>2, <2>3 DEF Placed
<1>3. ASSUME GetStream PROVE Placed'
  <2>1. cmd \in 1 .. Len(commands) /\ outcome = "none" /\ ~canRetry
    BY <1>0, <1>3 DEF GetStream, Placed
  <2>2. batch = 0
    BY <1>0, <1>3 DEF GetStream, Placed
  <2>3. Len(commands[cmd].docs) \in Nat
    BY <1>0, <2>1, DocsTyped
  <2>4. pc' = "batch" /\ sent' = 0 /\ UNCHANGED <<commands, cmd, batch, canRetry, outcome>>
    BY <1>3 DEF GetStream
  <2> QED BY <1>0, <2>1, <2>2, <2>3, <2>4 DEF Placed, Docs
<1>4. ASSUME NoStream PROVE Placed'
  BY <1>0, <1>4 DEF NoStream, Placed, Return
<1>5. ASSUME NEW n \in 1 .. MaxBatch, Ship(n) PROVE Placed'
  <2>1. /\ cmd \in 1 .. Len(commands) /\ outcome = "none" /\ ~canRetry /\ batch = 0
        /\ n \in Nat \ {0} /\ sent + n <= Len(Docs)
        /\ UNCHANGED <<commands, run, cmd, sent, outcome>>
    BY <1>0, <1>5, BatchGoes DEF Placed, Collected
  <2>2. CASE pc' = "sent"
    <3>1. /\ batch' = n /\ request'.run = run /\ request'.cmd = cmd /\ request'.lo = sent + 1
          /\ request'.hi = sent + n /\ request'.next = sent + 1
      BY <1>0, <1>5, <2>2, BatchGoes
    <3>2. canRetry' => request'.txn # 0
      BY <1>0, <1>5, <2>2, BatchGoes DEF TypeOK
    <3>3. Docs' = Docs
      BY <2>1 DEF Docs
    <3> QED BY <1>0, <2>1, <2>2, <3>1, <3>2, <3>3 DEF Placed
  <2>3. CASE pc' = "crashed"
    BY <1>0, <1>5, <2>1, <2>3, BatchGoes DEF Placed, Docs
  <2> QED BY <1>5, <1>0, <2>2, <2>3, BatchGoes
<1>6. ASSUME NEW n \in 0 .. MaxBatch, TooLarge(n) PROVE Placed'
  BY <1>0, <1>6 DEF TooLarge, Placed, place, Docs
<1>7. ASSUME Serve PROVE Placed'
  <2>1. request \in Request
    BY <1>0 DEF TypeOK
  <2>2. /\ request'.run = request.run /\ request'.cmd = request.cmd /\ request'.lo = request.lo
        /\ request'.hi = request.hi /\ request'.txn = request.txn
        /\ request'.next = request.next + 1 \/ request'.next = request.hi + 1
        /\ request.next <= request.hi /\ request.next \in Nat /\ request.hi \in Nat
        /\ request.lo \in Nat
    BY <1>7, <2>1, ProgressTyped DEF Serve, Served, Request
  <2>3. pc = "sent" /\ UNCHANGED <<commands, run, cmd, pc, sent, batch, canRetry, outcome>>
    BY <1>7 DEF Serve, place
  <2>4. /\ request.run = run /\ request.cmd = cmd /\ 0 < request.lo /\ request.lo <= request.hi
        /\ request.hi = sent + batch /\ request.lo <= request.next
        /\ canRetry => request.txn # 0
    BY <1>0, <2>3 DEF Placed
  <2>5. request.lo <= request'.next /\ request'.next <= request.hi + 1
    BY <2>2, <2>4
  <2>6. Docs' = Docs
    BY <2>3 DEF Docs
  <2> QED BY <1>0, <2>2, <2>3, <2>4, <2>5, <2>6 DEF Placed
<1>8. ASSUME NEW r \in late, ServeLate(r) PROVE Placed'
  BY <1>0, <1>8 DEF ServeLate, Placed, place, Docs
<1>9. ASSUME Answered \/ Failed \/ Lost PROVE Placed'
  BY <1>0, <1>9, ReplyComes DEF Placed, Docs
<1>10. ASSUME Retry PROVE Placed'
  <2>1. request \in Request
    BY <1>0 DEF TypeOK
  <2>2. /\ request'.run = request.run /\ request'.cmd = request.cmd /\ request'.lo = request.lo
        /\ request'.hi = request.hi /\ request'.txn = request.txn
        /\ request'.next = request.lo /\ request.hi \in Nat /\ request.lo \in Nat
    BY <1>10, <2>1 DEF Retry, Again, Request
  <2> QED BY <1>0, <1>10, <2>2 DEF Retry, NoMoreRetries, Placed, place, Docs
<1>11. ASSUME Settle PROVE Placed'
  BY <1>0, <1>11, BatchSettles DEF Placed, Docs
<1>12. ASSUME EndCommand PROVE Placed'
  <2>1. cmd \in 1 .. Len(commands) /\ ~canRetry /\ outcome = "none"
    BY <1>0, <1>12 DEF EndCommand, Placed
  <2>2. CASE StopsBulk \/ cmd = Len(commands)
    BY <1>0, <1>12, <2>1, <2>2 DEF EndCommand, Placed, Return
  <2>3. CASE ~(StopsBulk \/ cmd = Len(commands))
    BY <1>0, <1>12, <2>1, <2>3 DEF EndCommand, Placed
  <2> QED BY <2>2, <2>3
<1>13. ASSUME UNCHANGED vars PROVE Placed'
  BY <1>0, <1>13 DEF vars, Placed, Docs
<1> QED
  BY <1>1, <1>2, <1>3, <1>4, <1>5, <1>6, <1>7, <1>8, <1>9, <1>10, <1>11, <1>12, <1>13
  DEF Next, Step

-----------------------------------------------------------------------------
(* Where the documents are that were executed, and the requests in flight. *)

Moves ==
  \/ run' = run + 1
  \/ run' = run /\ pc' = "idle"
  \/ run' = run /\ pc # "idle" /\ cmd' = cmd + 1
  \/ /\ run' = run /\ pc # "idle" /\ cmd' = cmd /\ pc' # "stream"
     /\ \/ pc = "stream"
        \/ UNCHANGED <<sent, batch>>
        \/ \E n \in Nat : sent' + batch' = sent + batch + n
  \/ UNCHANGED <<run, cmd, pc, sent, batch>>

LEMMA PassedKeeps ==
  ASSUME TypeOK, TypeOK', Moves, NEW r \in Nat, NEW c \in Nat, NEW d \in Nat, Passed(r, c, d)
  PROVE  Passed(r, c, d)'
<1>1. /\ run \in Nat /\ cmd \in Nat /\ sent \in Nat /\ batch \in Nat
  BY DEF TypeOK
<1>2. CASE \/ run' = run + 1
           \/ run' = run /\ pc' = "idle"
           \/ run' = run /\ pc # "idle" /\ cmd' = cmd + 1
           \/ run' = run /\ pc = "stream" /\ cmd' = cmd /\ pc' # "stream"
           \/ run' = run /\ pc # "idle" /\ cmd' = cmd /\ pc' # "stream"
              /\ UNCHANGED <<sent, batch>>
           \/ UNCHANGED <<run, cmd, pc, sent, batch>>
  BY <1>1, <1>2 DEF Passed
<1>3. CASE /\ run' = run /\ pc # "idle" /\ cmd' = cmd /\ pc' # "stream"
           /\ \E n \in Nat : sent' + batch' = sent + batch + n
  <2>1. PICK n \in Nat : sent' + batch' = sent + batch + n
    BY <1>3
  <2> QED BY <1>1, <1>3, <2>1 DEF Passed
<1> QED BY <1>2, <1>3 DEF Moves

LEMMA AppliedTyped == ASSUME TypeOK, NEW i \in 1 .. Len(applied)
  PROVE /\ applied[i] \in Executed /\ applied[i].run \in Nat /\ applied[i].cmd \in Nat
        /\ applied[i].doc \in Nat /\ applied[i].txn \in Nat
        /\ applied[i] = [run |-> applied[i].run, cmd |-> applied[i].cmd,
                         doc |-> applied[i].doc, txn |-> applied[i].txn]
<1>1. applied[i] \in Executed
  BY DEF TypeOK
<1> QED BY <1>1 DEF Executed

LEMMA RequestTyped == ASSUME NEW r \in Request
  PROVE r.run \in Nat /\ r.cmd \in Nat /\ r.lo \in Nat /\ r.hi \in Nat /\ r.next \in Nat
        /\ r.txn \in Nat
BY DEF Request

LEMMA LocatedIf ==
  ASSUME TypeOK, TypeOK', Located, Moves, applied' = applied,
         \A r \in late' : r \in late \/ (Passed(r.run, r.cmd, r.hi)' /\ r.lo <= r.next /\ r.next <= r.hi)
  PROVE  Located'
<1>1. ASSUME NEW i \in 1 .. Len(applied) PROVE Passed(applied[i].run, applied[i].cmd, applied[i].doc)'
  BY AppliedTyped, PassedKeeps DEF Located
<1>2. ASSUME NEW r \in late PROVE Passed(r.run, r.cmd, r.hi)' /\ r.lo <= r.next /\ r.next <= r.hi
  <2>1. r \in Request /\ Passed(r.run, r.cmd, r.hi) /\ r.lo <= r.next /\ r.next <= r.hi
    BY DEF TypeOK, Located
  <2> QED BY <2>1, RequestTyped, PassedKeeps
<1> QED BY <1>1, <1>2 DEF Located

(* The servers execute at most one statement more. *)
LEMMA EffectIs ==
  ASSUME TypeOK, NEW r \in Request, applied' = Effect(r)
  PROVE  \/ applied' = applied /\ (IsBad(r, r.next) \/ IsKnown(Statement(r)))
         \/ /\ ~IsBad(r, r.next) /\ ~IsKnown(Statement(r))
            /\ Len(applied') = Len(applied) + 1
            /\ applied'[Len(applied) + 1] = Statement(r)
            /\ \A i \in 1 .. Len(applied) : applied'[i] = applied[i]
            /\ Len(applied) \in Nat
<1>1. applied \in Seq(Executed) /\ Statement(r) \in Executed
  BY DEF TypeOK, Statement, Executed, Request
<1>2. CASE IsBad(r, r.next) \/ IsKnown(Statement(r))
  BY <1>2, Zenon DEF Effect
<1>3. CASE ~(IsBad(r, r.next) \/ IsKnown(Statement(r)))
  <2>1. applied' = Append(applied, Statement(r))
    BY <1>3, Zenon DEF Effect
  <2> QED BY <1>1, <1>3, <2>1
<1> QED BY <1>2, <1>3

LEMMA StatementIs == ASSUME NEW r
  PROVE Statement(r).run = r.run /\ Statement(r).cmd = r.cmd /\ Statement(r).doc = r.next
        /\ Statement(r).txn = r.txn
BY DEF Statement

LEMMA LocatedKeeps == IInv /\ [Next]_vars => Located'
<1> SUFFICES ASSUME IInv, [Next]_vars PROVE Located'
  OBVIOUS
<1>0. /\ TypeOK /\ TypeOK' /\ Placed /\ Located
      /\ sent \in Nat /\ batch \in Nat /\ sent' \in Nat /\ batch' \in Nat
      /\ run \in Nat /\ cmd \in Nat
  <2>1. TypeOK /\ TypeOK'
    BY TypeKeeps DEF IInv
  <2> QED BY <2>1 DEF IInv, TypeOK
<1>1. ASSUME NEW r \in Request, applied' = Effect(r), UNCHANGED <<run, cmd, pc, sent, batch>>,
             Passed(r.run, r.cmd, r.hi), r.lo <= r.next, r.next <= r.hi,
             \A q \in late' : q \in late \/ (q = Progress(r) /\ q.next <= q.hi)
      PROVE  Located'
  <2>1. r.run \in Nat /\ r.cmd \in Nat /\ r.lo \in Nat /\ r.hi \in Nat /\ r.next \in Nat
    BY RequestTyped
  <2>2. \A q \in late' : Passed(q.run, q.cmd, q.hi)' /\ q.lo <= q.next /\ q.next <= q.hi
    <3> TAKE q \in late'
    <3>1. CASE q \in late
      BY <1>0, <1>1, <3>1 DEF Located, Passed
    <3>2. CASE q = Progress(r) /\ q.next <= q.hi
      BY <1>1, <2>1, <3>2, ProgressTyped DEF Passed
    <3> QED BY <1>1, <3>1, <3>2
  <2>3. ASSUME NEW i \in 1 .. Len(applied), NEW x, x = applied[i] PROVE Passed(x.run, x.cmd, x.doc)'
    <3>1. Passed(x.run, x.cmd, x.doc)
      BY <1>0, <2>3 DEF Located
    <3> QED BY <1>1, <3>1 DEF Passed
  <2>4. Passed(r.run, r.cmd, r.next)'
    BY <1>0, <1>1, <2>1 DEF Passed
  <2>5. CASE applied' = applied
    <3> SUFFICES ASSUME NEW i \in 1 .. Len(applied) PROVE Passed(applied[i].run, applied[i].cmd, applied[i].doc)'
      BY <2>2, <2>5 DEF Located
    <3> QED BY <2>3, <2>5
  <2>6. CASE /\ Len(applied') = Len(applied) + 1
             /\ applied'[Len(applied) + 1] = Statement(r)
             /\ \A i \in 1 .. Len(applied) : applied'[i] = applied[i]
             /\ Len(applied) \in Nat
    <3> SUFFICES ASSUME NEW i \in 1 .. Len(applied) + 1
                 PROVE  Passed(applied[i].run, applied[i].cmd, applied[i].doc)'
      BY <2>2, <2>6 DEF Located
    <3>1. CASE i \in 1 .. Len(applied)
      BY <2>3, <2>6, <3>1
    <3>2. CASE i = Len(applied) + 1
      BY <2>4, <2>6, <3>2, StatementIs
    <3> QED BY <2>6, <3>1, <3>2
  <2> QED BY <1>0, <1>1, <2>5, <2>6, EffectIs
<1>2. ASSUME NEW type \in Type, NEW kind \in Kind, Add(type, kind) PROVE Located'
  <2>1. Moves /\ applied' = applied /\ late' = late
    BY <1>2 DEF Add, Moves, place, servers
  <2> QED BY <1>0, <2>1, LocatedIf
<1>3. ASSUME Execute PROVE Located'
  <2>1. run' = run + 1 /\ UNCHANGED servers
    BY <1>3, Zenon DEF Execute
  <2>2. Moves /\ applied' = applied /\ late' = late
    BY <2>1 DEF Moves, servers
  <2> QED BY <1>0, <2>2, LocatedIf
<1>4. ASSUME GetStream \/ NoStream PROVE Located'
  <2>1. Moves /\ applied' = applied /\ late' = late
    BY <1>4 DEF GetStream, NoStream, Return, Moves, place, servers
  <2> QED BY <1>0, <2>1, LocatedIf
<1>5. ASSUME NEW n \in 1 .. MaxBatch, Ship(n) PROVE Located'
  <2>1. batch = 0 /\ pc = "batch" /\ batch' >= 0 /\ run' = run /\ cmd' = cmd /\ sent' = sent
        /\ pc' # "stream" /\ applied' = applied /\ late' = late
    BY <1>0, <1>5, BatchGoes DEF Placed
  <2>2. batch' \in Nat /\ sent' + batch' = sent + batch + batch'
    BY <1>0, <2>1
  <2>3. Moves
    BY <2>1, <2>2 DEF Moves
  <2> QED BY <1>0, <2>1, <2>3, LocatedIf
<1>6. ASSUME NEW n \in 0 .. MaxBatch, TooLarge(n) PROVE Located'
  <2>1. Moves /\ applied' = applied /\ late' = late
    BY <1>0, <1>6 DEF TooLarge, Moves, place, servers
  <2> QED BY <1>0, <2>1, LocatedIf
<1>7. ASSUME Serve PROVE Located'
  <2>1. /\ request \in Request /\ Passed(request.run, request.cmd, request.hi)
        /\ request.lo <= request.next /\ request.next <= request.hi
    <3>1. pc = "sent" /\ ~(request.next > request.hi) /\ request \in Request
      BY <1>0, <1>7 DEF Serve, Served, TypeOK
    <3>2. /\ request.run = run /\ request.cmd = cmd /\ request.hi = sent + batch
          /\ request.lo <= request.next
      BY <1>0, <3>1 DEF Placed
    <3> QED BY <1>0, <3>1, <3>2, RequestTyped DEF Passed
  <2>2. /\ applied' = Effect(request) /\ late' = late
        /\ UNCHANGED <<run, cmd, pc, sent, batch>>
    BY <1>7 DEF Serve, place
  <2> QED BY <1>1, <2>1, <2>2
<1>8. ASSUME NEW r \in late, ServeLate(r) PROVE Located'
  <2>1. /\ r \in Request /\ Passed(r.run, r.cmd, r.hi) /\ r.lo <= r.next /\ r.next <= r.hi
    BY <1>0 DEF Located, TypeOK
  <2>2. /\ applied' = Effect(r) /\ UNCHANGED <<run, cmd, pc, sent, batch>>
    BY <1>8 DEF ServeLate, place
  <2>3. \A q \in late' : q \in late \/ (q = Progress(r) /\ q.next <= q.hi)
    <3>1. Progress(r) \in Request
      BY <2>1, ProgressTyped
    <3> QED BY <1>8, <3>1 DEF ServeLate, Unfinished, Served, Request
  <2> QED BY <1>1, <2>1, <2>2, <2>3
<1>9. ASSUME Answered \/ Failed \/ Lost PROVE Located'
  <2>1. /\ pc = "sent" /\ pc' = "reply" /\ sent' = sent + batch /\ batch' = 0
        /\ UNCHANGED <<run, cmd, request, applied>>
        /\ late' = late \/ late' = late \cup Unfinished(request)
    BY <1>0, <1>9, ReplyComes
  <2>2. Moves
    BY <1>0, <2>1 DEF Moves
  <2>3. /\ Passed(request.run, request.cmd, request.hi)' /\ request.lo <= request.next
        /\ request.next \in Nat /\ request.hi \in Nat
    BY <1>0, <2>1 DEF Placed, Passed, TypeOK, Request
  <2> QED BY <1>0, <2>1, <2>2, <2>3, LocatedIf DEF Unfinished, Served
<1>10. ASSUME Retry PROVE Located'
  <2>1. Moves /\ applied' = applied /\ late' = late
    BY <1>0, <1>10 DEF Retry, Moves, place, servers
  <2> QED BY <1>0, <2>1, LocatedIf
<1>11. ASSUME Settle PROVE Located'
  <2>1. Moves /\ applied' = applied /\ late' = late
    BY <1>0, <1>11, BatchSettles DEF Moves
  <2> QED BY <1>0, <2>1, LocatedIf
<1>12. ASSUME EndCommand PROVE Located'
  <2>1. pc = "end" /\ run' = run /\ applied' = applied /\ late' = late
        /\ (pc' = "idle" \/ cmd' = cmd + 1)
    BY <1>12 DEF EndCommand, Return, servers
  <2>2. Moves
    BY <2>1 DEF Moves
  <2> QED BY <1>0, <2>1, <2>2, LocatedIf
<1>13. ASSUME UNCHANGED vars PROVE Located'
  <2>1. Moves /\ applied' = applied /\ late' = late
    BY <1>13 DEF vars, Moves
  <2> QED BY <1>0, <2>1, LocatedIf
<1> QED
  BY <1>2, <1>3, <1>4, <1>5, <1>6, <1>7, <1>8, <1>9, <1>10, <1>11, <1>12, <1>13
  DEF Next, Step

-----------------------------------------------------------------------------
(* A document belongs to one transaction number. *)

LEMMA InFlightTyped == TypeOK => InFlight \subseteq Request
BY DEF InFlight, TypeOK

(* Nothing is executed, and no request is new. *)
LEMMA NumberedIf ==
  ASSUME Numbered, applied' = applied, InFlight' \subseteq InFlight,
         pc' = "sent" => pc = "sent" /\ request' = request /\ late' = late
  PROVE  Numbered'
BY DEF Numbered

(* A server takes one step of a request. *)
LEMMA ExecutionKeeps ==
  ASSUME TypeOK, Numbered, AtMostOnce,
         NEW r \in InFlight, r.lo <= r.next, r.next <= r.hi,
         NEW q \in Request, q.run = r.run, q.cmd = r.cmd, q.lo = r.lo, q.hi = r.hi,
         q.txn = r.txn, q.next > r.next,
         applied' = Effect(r),
         \A x \in InFlight' : x \in InFlight \/ x = q,
         r.txn = 0 => r \notin InFlight'
  PROVE  /\ \A x \in InFlight' : \A i \in 1 .. Len(applied') :
              Within(applied'[i], x) =>
                applied'[i].txn = x.txn /\ (x.txn = 0 => applied'[i].doc < x.next)
         /\ \A x, y \in InFlight' :
              Overlap(x, y) => /\ x.txn = y.txn /\ x.lo = y.lo /\ x.hi = y.hi
                               /\ (x.txn = 0 => x = y)
         /\ AtMostOnce'
<1>1. /\ r \in Request
      /\ r.run \in Nat /\ r.cmd \in Nat /\ r.lo \in Nat /\ r.hi \in Nat /\ r.next \in Nat
      /\ r.txn \in Nat /\ q.next \in Nat
  BY InFlightTyped, RequestTyped
<1>2. ASSUME NEW x \in InFlight, NEW y \in InFlight, Overlap(x, y)
      PROVE  x.txn = y.txn /\ x.lo = y.lo /\ x.hi = y.hi /\ (x.txn = 0 => x = y)
  BY <1>2 DEF Numbered
<1>3. ASSUME NEW x, NEW y PROVE Overlap(x, y) => Overlap(y, x)
  BY DEF Overlap
<1>4. ASSUME NEW x \in InFlight, Overlap(r, x), r.txn = 0 PROVE x \notin InFlight'
  BY <1>2, <1>4
<1>5. ASSUME NEW x PROVE Overlap(q, x) <=> Overlap(r, x)
  BY DEF Overlap
<1>6. \A x, y \in InFlight' :
        Overlap(x, y) => /\ x.txn = y.txn /\ x.lo = y.lo /\ x.hi = y.hi
                         /\ (x.txn = 0 => x = y)
  <2> TAKE x \in InFlight', y \in InFlight'
  <2> HAVE Overlap(x, y)
  <2>1. CASE x \in InFlight /\ y \in InFlight
    BY <1>2, <2>1
  <2>2. CASE x = q /\ y \in InFlight
    BY <1>2, <1>4, <1>5, <2>2
  <2>3. CASE x \in InFlight /\ y = q
    <3>1. Overlap(r, x)
      BY <1>3, <1>5, <2>3
    <3> QED BY <1>2, <1>4, <2>3, <3>1
  <2>4. CASE x = q /\ y = q
    BY <2>4
  <2> QED BY <2>1, <2>2, <2>3, <2>4
<1>7. ASSUME NEW i \in 1 .. Len(applied), NEW x \in InFlight', NEW e, e = applied[i],
             Within(e, x)
      PROVE  e.txn = x.txn /\ (x.txn = 0 => e.doc < x.next)
  <2>1. CASE x \in InFlight
    BY <1>7, <2>1 DEF Numbered
  <2>2. CASE x = q
    <3>1. Within(e, r)
      BY <1>7, <2>2 DEF Within
    <3>2. e.txn = r.txn /\ (r.txn = 0 => e.doc < r.next)
      BY <1>7, <3>1 DEF Numbered
    <3>3. e.doc \in Nat
      BY <1>7, AppliedTyped
    <3> QED BY <1>1, <2>2, <3>2, <3>3
  <2> QED BY <2>1, <2>2
<1>8. CASE applied' = applied
  <2>1. AtMostOnce'
    BY <1>8 DEF AtMostOnce
  <2> QED BY <1>6, <1>7, <1>8, <2>1
<1>9. CASE /\ ~IsBad(r, r.next) /\ ~IsKnown(Statement(r))
           /\ Len(applied') = Len(applied) + 1
           /\ applied'[Len(applied) + 1] = Statement(r)
           /\ \A i \in 1 .. Len(applied) : applied'[i] = applied[i]
           /\ Len(applied) \in Nat
  <2>1. ASSUME NEW x \in InFlight', Within(Statement(r), x)
        PROVE  Statement(r).txn = x.txn /\ (x.txn = 0 => Statement(r).doc < x.next)
    <3>1. CASE x \in InFlight
      <4>1. Overlap(r, x)
        BY <1>1, <2>1, <3>1, StatementIs, InFlightTyped, RequestTyped DEF Within, Overlap
      <4> QED BY <1>2, <1>4, <3>1, <4>1, StatementIs
    <3>2. CASE x = q
      BY <3>2, StatementIs
    <3> QED BY <3>1, <3>2
  <2>2. ASSUME NEW x \in InFlight', NEW i \in 1 .. Len(applied) + 1,
               Within(applied'[i], x)
        PROVE  applied'[i].txn = x.txn /\ (x.txn = 0 => applied'[i].doc < x.next)
    <3>1. CASE i \in 1 .. Len(applied)
      <4>1. applied'[i] = applied[i]
        BY <1>9, <3>1
      <4> QED BY <1>7, <2>2, <3>1, <4>1
    <3>2. CASE i = Len(applied) + 1
      BY <1>9, <2>1, <2>2, <3>2
    <3> QED BY <1>9, <3>1, <3>2
  <2>3. ASSUME NEW i \in 1 .. Len(applied)
        PROVE  ~ (/\ applied[i].run = Statement(r).run /\ applied[i].cmd = Statement(r).cmd
                  /\ applied[i].doc = Statement(r).doc)
    <3>1. SUFFICES ASSUME applied[i].run = r.run, applied[i].cmd = r.cmd,
                          applied[i].doc = r.next
                   PROVE  FALSE
      BY StatementIs
    <3>2. Within(applied[i], r)
      BY <1>1, <3>1 DEF Within
    <3>3. applied[i].txn = r.txn /\ (r.txn = 0 => applied[i].doc < r.next)
      BY <3>2 DEF Numbered
    <3>4. r.txn # 0
      BY <1>1, <3>1, <3>3
    <3>5. applied[i] = Statement(r)
      BY <3>1, <3>3, AppliedTyped DEF Statement
    <3> QED BY <1>9, <3>4, <3>5, StatementIs DEF IsKnown
  <2>4. AtMostOnce'
    <3> SUFFICES ASSUME NEW i \in 1 .. Len(applied) + 1, NEW j \in 1 .. Len(applied) + 1,
                        applied'[i].run = applied'[j].run, applied'[i].cmd = applied'[j].cmd,
                        applied'[i].doc = applied'[j].doc
                 PROVE  i = j
      BY <1>9 DEF AtMostOnce
    <3>1. CASE i \in 1 .. Len(applied) /\ j \in 1 .. Len(applied)
      BY <1>9, <3>1 DEF AtMostOnce
    <3>2. CASE i \in 1 .. Len(applied) /\ j = Len(applied) + 1
      BY <1>9, <2>3, <3>2
    <3>3. CASE i = Len(applied) + 1 /\ j \in 1 .. Len(applied)
      BY <1>9, <2>3, <3>3
    <3> QED BY <1>9, <3>1, <3>2, <3>3
  <2> QED BY <1>6, <1>9, <2>2, <2>4
<1> QED BY <1>1, <1>8, <1>9, EffectIs

(* What is sent anew is behind all that was sent. *)
LEMMA NothingAhead ==
  ASSUME TypeOK, Located, pc = "batch", batch = 0, NEW q,
         q.run = run, q.cmd = cmd, q.lo = sent + 1, NEW h \in Nat, q.hi = h
  PROVE  /\ \A i \in 1 .. Len(applied) : ~Within(applied[i], q)
         /\ \A r \in late : ~Overlap(r, q) /\ ~Overlap(q, r)
<1>1. run \in Nat /\ cmd \in Nat /\ sent \in Nat
  BY DEF TypeOK
<1>2. ASSUME NEW i \in 1 .. Len(applied) PROVE ~Within(applied[i], q)
  <2>1. applied[i].run \in Nat /\ applied[i].cmd \in Nat /\ applied[i].doc \in Nat
    BY AppliedTyped
  <2>2. Passed(applied[i].run, applied[i].cmd, applied[i].doc)
    BY DEF Located
  <2> QED BY <1>1, <2>1, <2>2 DEF Passed, Within
<1>3. ASSUME NEW r \in late PROVE ~Overlap(r, q) /\ ~Overlap(q, r)
  <2>1. r \in Request
    BY DEF TypeOK
  <2>2. Passed(r.run, r.cmd, r.hi)
    BY DEF Located
  <2>3. r.run \in Nat /\ r.cmd \in Nat /\ r.lo \in Nat /\ r.hi \in Nat
    BY <2>1, RequestTyped
  <2> QED BY <1>1, <2>2, <2>3 DEF Passed, Overlap
<1> QED BY <1>2, <1>3

LEMMA NumberedKeeps == IInv /\ [Next]_vars => Numbered' /\ AtMostOnce'
<1> SUFFICES ASSUME IInv, [Next]_vars PROVE Numbered' /\ AtMostOnce'
  OBVIOUS
<1>0. /\ TypeOK /\ Placed /\ Located /\ Numbered /\ AtMostOnce /\ canRetry \in BOOLEAN
  BY DEF IInv, TypeOK
<1>1. ASSUME applied' = applied PROVE AtMostOnce'
  BY <1>0, <1>1 DEF AtMostOnce
<1>2. ASSUME \/ \E type \in Type, kind \in Kind : Add(type, kind)
             \/ Execute \/ GetStream \/ NoStream \/ Settle \/ EndCommand
             \/ \E n \in 0 .. MaxBatch : TooLarge(n)
      PROVE  Numbered' /\ AtMostOnce'
  <2>1. applied' = applied /\ late' = late /\ pc' # "sent" /\ (pc' = "reply" => FALSE)
    <3>1. CASE Execute
      BY <3>1, Zenon DEF Execute, Return, servers
    <3>2. CASE Settle
      BY <1>0, <3>2, BatchSettles
    <3> QED BY <1>2, <3>1, <3>2
            DEF Add, GetStream, NoStream, EndCommand, TooLarge, Return, place, servers
  <2>2. InFlight' \subseteq InFlight
    BY <2>1 DEF InFlight
  <2> QED BY <1>0, <1>1, <2>1, <2>2, NumberedIf
<1>3. ASSUME NEW n \in 1 .. MaxBatch, Ship(n) PROVE Numbered' /\ AtMostOnce'
  <2>1. /\ batch = 0 /\ pc = "batch" /\ n \in Nat \ {0} /\ applied' = applied /\ late' = late
        /\ sent \in Nat
    BY <1>0, <1>3, BatchGoes DEF Placed, TypeOK
  <2>2. CASE pc' = "sent"
    <3>1. /\ request'.run = run /\ request'.cmd = cmd /\ request'.lo = sent + 1
          /\ request'.hi = sent + n
      BY <1>0, <1>3, <2>2, BatchGoes
    <3>2. InFlight' = late \cup {request'} /\ InFlight = late
      BY <2>1, <2>2 DEF InFlight
    <3>3. PICK h \in Nat : h = sent + n
      BY <2>1
    <3>4. ASSUME NEW q, q = request'
          PROVE  /\ \A i \in 1 .. Len(applied) : ~Within(applied[i], q)
                 /\ \A r \in late : ~Overlap(r, q) /\ ~Overlap(q, r)
      <4>1. q.run = run /\ q.cmd = cmd /\ q.lo = sent + 1 /\ q.hi = h
        BY <3>1, <3>3, <3>4
      <4> QED BY <1>0, <2>1, <4>1, NothingAhead
    <3>5. \A x \in InFlight' : \A i \in 1 .. Len(applied') :
            Within(applied'[i], x) =>
              applied'[i].txn = x.txn /\ (x.txn = 0 => applied'[i].doc < x.next)
      BY <1>0, <2>1, <3>2, <3>4 DEF Numbered
    <3>6. \A x, y \in InFlight' :
            Overlap(x, y) => /\ x.txn = y.txn /\ x.lo = y.lo /\ x.hi = y.hi
                             /\ (x.txn = 0 => x = y)
      BY <1>0, <3>2, <3>4 DEF Numbered
    <3>7. \A r \in late' : ~Overlap(r, request')
      BY <2>1, <3>4
    <3> QED BY <1>1, <2>1, <3>5, <3>6, <3>7 DEF Numbered
  <2>3. CASE pc' = "crashed"
    <3>1. InFlight' \subseteq InFlight
      BY <2>1, <2>3 DEF InFlight
    <3> QED BY <1>0, <1>1, <2>1, <2>3, <3>1, NumberedIf
  <2> QED BY <1>0, <1>3, <2>2, <2>3, BatchGoes
<1>4. ASSUME Serve PROVE Numbered' /\ AtMostOnce'
  <2>1. /\ pc = "sent" /\ pc' = "sent" /\ request' = Progress(request) /\ late' = late
        /\ applied' = Effect(request) /\ request \in Request
        /\ ~(request.next > request.hi) /\ UNCHANGED <<ordered, commands>>
    BY <1>0, <1>4 DEF Serve, Served, TypeOK
  <2>2. /\ request.next \in Nat /\ request.hi \in Nat /\ request.txn \in Nat
        /\ request.lo \in Nat
    BY <2>1, RequestTyped
  <2>3. request.lo <= request.next /\ request.next <= request.hi
    BY <1>0, <2>1, <2>2 DEF Placed
  <2> DEFINE q == Progress(request)
  <2>4. /\ q \in Request /\ q.run = request.run /\ q.cmd = request.cmd /\ q.lo = request.lo
        /\ q.hi = request.hi /\ q.txn = request.txn /\ q.next > request.next
    BY <2>1, <2>2, <2>3, ProgressTyped
  <2>5. request \in InFlight /\ InFlight' = late \cup {q}
    BY <2>1 DEF InFlight
  <2> HIDE DEF q
  <2>6. request.txn = 0 => request \notin InFlight'
    <3>1. q # request
      BY <2>2, <2>4
    <3>2. Overlap(request, request)
      BY <2>2, <2>3 DEF Overlap
    <3> QED BY <1>0, <2>1, <2>5, <3>1, <3>2 DEF Numbered
  <2>7. \A x \in InFlight' : x \in InFlight \/ x = q
    BY <2>5 DEF InFlight
  <2>8. /\ \A x \in InFlight' : \A i \in 1 .. Len(applied') :
             Within(applied'[i], x) =>
               applied'[i].txn = x.txn /\ (x.txn = 0 => applied'[i].doc < x.next)
        /\ \A x, y \in InFlight' :
             Overlap(x, y) => /\ x.txn = y.txn /\ x.lo = y.lo /\ x.hi = y.hi
                              /\ (x.txn = 0 => x = y)
        /\ AtMostOnce'
    BY <1>0, <2>1, <2>3, <2>4, <2>5, <2>6, <2>7, ExecutionKeeps
  <2>9. request'.txn = 0 => \A r \in late' : ~Overlap(r, request')
    <3>1. request' = q
      BY <2>1 DEF q
    <3> QED BY <1>0, <2>1, <2>4, <3>1 DEF Numbered, Overlap
  <2> QED BY <2>8, <2>9 DEF Numbered
<1>5. ASSUME NEW r \in late, ServeLate(r) PROVE Numbered' /\ AtMostOnce'
  <2>1. /\ UNCHANGED <<pc, request, canRetry>> /\ applied' = Effect(r) /\ r \in Request
        /\ late' = (late \ {r}) \cup Unfinished(Progress(r))
    BY <1>0, <1>5 DEF ServeLate, TypeOK
  <2>2. /\ r.next \in Nat /\ r.hi \in Nat /\ r.txn \in Nat /\ r.lo \in Nat
    BY <2>1, RequestTyped
  <2>3. r.lo <= r.next /\ r.next <= r.hi
    BY <1>0 DEF Located
  <2> DEFINE q == Progress(r)
  <2>4. /\ q \in Request /\ q.run = r.run /\ q.cmd = r.cmd /\ q.lo = r.lo
        /\ q.hi = r.hi /\ q.txn = r.txn /\ q.next > r.next
    BY <2>1, <2>2, <2>3, ProgressTyped
  <2>5. late' \subseteq (late \ {r}) \cup {q}
    BY <2>1 DEF Unfinished
  <2> HIDE DEF q
  <2>6. r \in InFlight
    BY DEF InFlight
  <2>7. \A x \in InFlight' : x \in InFlight \/ x = q
    BY <2>1, <2>5 DEF InFlight
  <2>8. Overlap(r, r) /\ q # r
    BY <2>2, <2>3, <2>4 DEF Overlap
  <2>9. r.txn = 0 => r \notin InFlight'
    <3> SUFFICES ASSUME r.txn = 0, r \in InFlight' PROVE FALSE
      OBVIOUS
    <3>1. r = request /\ (pc = "sent" \/ (pc = "reply" /\ canRetry))
      BY <2>1, <2>5, <2>8 DEF InFlight
    <3>2. pc = "sent"
      BY <1>0, <3>1 DEF Placed
    <3> QED BY <1>0, <2>8, <3>1, <3>2 DEF Numbered
  <2>10. /\ \A x \in InFlight' : \A i \in 1 .. Len(applied') :
              Within(applied'[i], x) =>
                applied'[i].txn = x.txn /\ (x.txn = 0 => applied'[i].doc < x.next)
         /\ \A x, y \in InFlight' :
              Overlap(x, y) => /\ x.txn = y.txn /\ x.lo = y.lo /\ x.hi = y.hi
                               /\ (x.txn = 0 => x = y)
         /\ AtMostOnce'
    BY <1>0, <2>1, <2>3, <2>4, <2>6, <2>7, <2>9, ExecutionKeeps
  <2>11. pc = "sent" /\ request.txn = 0 => \A x \in late' : ~Overlap(x, request)
    BY <1>0, <2>4, <2>5 DEF Numbered, Overlap
  <2> QED BY <2>1, <2>10, <2>11 DEF Numbered
<1>6. ASSUME Answered \/ Failed \/ Lost PROVE Numbered' /\ AtMostOnce'
  <2>1. /\ pc = "sent" /\ pc' = "reply" /\ UNCHANGED <<request, applied>>
        /\ late' \subseteq late \cup {request}
    BY <1>0, <1>6, ReplyComes DEF Unfinished
  <2>2. InFlight' \subseteq InFlight
    BY <2>1 DEF InFlight
  <2> QED BY <1>0, <1>1, <2>1, <2>2, NumberedIf
<1>7. ASSUME Retry PROVE Numbered' /\ AtMostOnce'
  <2>1. /\ pc = "reply" /\ canRetry /\ pc' = "sent" /\ late' = late /\ applied' = applied
        /\ request' = [request EXCEPT !.next = request.lo] /\ request \in Request
    BY <1>0, <1>7 DEF Retry, MayRetry, Again, servers, TypeOK
  <2>2. request.txn # 0 /\ request.txn \in Nat
    BY <1>0, <2>1, RequestTyped DEF Placed
  <2> DEFINE q == [request EXCEPT !.next = request.lo]
  <2>3. /\ q.run = request.run /\ q.cmd = request.cmd /\ q.lo = request.lo
        /\ q.hi = request.hi /\ q.txn = request.txn
    BY <2>1 DEF Request
  <2>4. request \in InFlight /\ InFlight' = late \cup {q} /\ request' = q
    BY <2>1 DEF InFlight
  <2> HIDE DEF q
  <2>5. \A x \in InFlight' : x \in InFlight \/ x = q
    BY <2>4 DEF InFlight
  <2>6. \A x \in InFlight' : \A i \in 1 .. Len(applied) :
          Within(applied[i], x) =>
            applied[i].txn = x.txn /\ (x.txn = 0 => applied[i].doc < x.next)
    BY <1>0, <2>2, <2>3, <2>4, <2>5 DEF Numbered, Within
  <2>7. \A x, y \in InFlight' :
          Overlap(x, y) => /\ x.txn = y.txn /\ x.lo = y.lo /\ x.hi = y.hi
                           /\ (x.txn = 0 => x = y)
    BY <1>0, <2>2, <2>3, <2>4, <2>5 DEF Numbered, Overlap
  <2> QED BY <1>1, <2>1, <2>2, <2>3, <2>4, <2>6, <2>7 DEF Numbered
<1>8. ASSUME UNCHANGED vars PROVE Numbered' /\ AtMostOnce'
  <2>1. InFlight' = InFlight
    BY <1>8 DEF vars, InFlight
  <2> QED BY <1>0, <1>1, <1>8, <2>1, NumberedIf DEF vars
<1> QED
  BY <1>2, <1>3, <1>4, <1>5, <1>6, <1>7, <1>8 DEF Next, Step

-----------------------------------------------------------------------------
(* The streams, and the errors. *)

LEMMA StreamsKeep == IInv /\ [Next]_vars => Streams' /\ FailedStreamIsDropped'
<1> SUFFICES ASSUME IInv, [Next]_vars PROVE Streams' /\ FailedStreamIsDropped'
  OBVIOUS
<1>0. TypeOK /\ Placed /\ Streams /\ FailedStreamIsDropped
  BY DEF IInv
<1> USE DEF FailedStreamIsDropped
<1>1. ASSUME \/ \E type \in Type, kind \in Kind : Add(type, kind)
             \/ Execute \/ NoStream \/ EndCommand
             \/ \E n \in 0 .. MaxBatch : TooLarge(n)
      PROVE  Streams' /\ FailedStreamIsDropped'
  <2>1. pc' \in {"idle", "stream", "end"}
    <3>1. CASE Execute
      BY <3>1, Zenon DEF Execute, Return
    <3> QED BY <1>1, <3>1 DEF Add, NoStream, EndCommand, TooLarge, Return
  <2> QED BY <2>1 DEF Streams
<1>2. ASSUME GetStream PROVE Streams' /\ FailedStreamIsDropped'
  BY <1>2 DEF GetStream, Streams, ClosedByConcern
<1>3. ASSUME NEW n \in 1 .. MaxBatch, Ship(n) PROVE Streams' /\ FailedStreamIsDropped'
  BY <1>0, <1>3, BatchGoes DEF Streams, ClosedByConcern
<1>4. ASSUME Serve PROVE Streams' /\ FailedStreamIsDropped'
  BY <1>0, <1>4 DEF Serve, Streams, ClosedByConcern
<1>5. ASSUME NEW r \in late, ServeLate(r) PROVE Streams' /\ FailedStreamIsDropped'
  BY <1>0, <1>5 DEF ServeLate, Streams, ClosedByConcern
<1>6. ASSUME Answered \/ Failed \/ Lost PROVE Streams' /\ FailedStreamIsDropped'
  <2>1. /\ pc = "sent" /\ pc' = "reply"
        /\ \/ conn' = conn
           \/ /\ conn'.uses = conn.uses /\ ~conn'.open /\ (conn.uses = "first" => ~conn'.first)
              /\ reply'.ok => reply'.concern
    BY <1>0, <1>6, ReplyComes
  <2> QED BY <1>0, <2>1 DEF Streams, ClosedByConcern
<1>7. ASSUME Retry PROVE Streams' /\ FailedStreamIsDropped'
  <2>1. conn'.uses = "retry" /\ pc' = "sent"
    BY <1>0, <1>7 DEF Retry, TypeOK, Stream
  <2> QED BY <2>1 DEF Streams
<1>8. ASSUME Settle PROVE Streams' /\ FailedStreamIsDropped'
  <2>1. /\ pc = "reply" /\ (conn' = conn \/ conn'.uses = "freed") /\ reply' = reply
        /\ pc' = IF sent < Len(Docs) /\ ~Merged.mustStop THEN "batch" ELSE "end"
    BY <1>0, <1>8, BatchSettles DEF Settle
  <2>2. MustStop => Merged.mustStop
    BY <1>0, <2>1, MergedTyped
  <2>3. ~reply.ok /\ ~conn.first => MustStop
    BY DEF MustStop
  <2>4. pc' \in {"batch", "end"}
    BY <2>1
  <2> QED BY <1>0, <2>1, <2>2, <2>3, <2>4 DEF Streams, ClosedByConcern
<1>9. ASSUME UNCHANGED vars PROVE Streams' /\ FailedStreamIsDropped'
  BY <1>0, <1>9 DEF vars, Streams, ClosedByConcern
<1> QED
  BY <1>1, <1>2, <1>3, <1>4, <1>5, <1>6, <1>7, <1>8, <1>9 DEF Next, Step

(* The error that a call ends with. *)
LEMMA ErrorAtEnd ==
  ASSUME TypeOK, Placed, Explained, ordered, NoLarge, pc = "end", result.failed
  PROVE  FinalError # ""
<1>1. CASE result.refused # {}
  BY <1>1 DEF FinalError
<1>2. CASE ~reply.ok /\ result.error # ""
  BY <1>2 DEF FinalError, ErrorLeft
<1> QED BY <1>1, <1>2 DEF Explained

LEMMA ExplainedKeeps == IInv /\ [Next]_vars => Explained' /\ FailureExplained'
<1> SUFFICES ASSUME IInv, [Next]_vars PROVE Explained' /\ FailureExplained'
  OBVIOUS
<1>0. /\ TypeOK /\ Placed /\ Explained /\ FailureExplained
      /\ result \in Result /\ reply.ok \in BOOLEAN
  <2>1. TypeOK
    BY DEF IInv
  <2> QED BY <2>1, Fields DEF IInv
<1>1. ASSUME NEW type \in Type, NEW kind \in Kind, Add(type, kind)
      PROVE  Explained' /\ FailureExplained'
  BY <1>1 DEF Add, Explained, FailureExplained
<1>2. ASSUME Execute PROVE Explained' /\ FailureExplained'
  <2>1. /\ pc' \in {"idle", "stream"} /\ (pc' = "idle" => message' # "")
        /\ (pc' = "stream" => outcome' = "none")
    BY <1>2, Zenon DEF Execute, Return
  <2>2. result'.failed = FALSE
    <3>1. result' = NewResult(IF run = 0 THEN result.error ELSE "")
      BY <1>2, Zenon DEF Execute
    <3> QED BY <3>1, Zenon DEF NewResult
  <2> QED BY <2>1, <2>2 DEF Explained, FailureExplained
<1>3. ASSUME GetStream PROVE Explained' /\ FailureExplained'
  <2>1. pc = "stream" /\ pc' = "batch" /\ UNCHANGED <<ordered, commands, result, outcome>>
    BY <1>3 DEF GetStream
  <2> QED BY <1>0, <2>1 DEF Explained, FailureExplained, NoLarge, Placed
<1>4. ASSUME NoStream PROVE Explained' /\ FailureExplained'
  BY <1>4 DEF NoStream, Return, Explained, FailureExplained
<1>5. ASSUME NEW n \in 1 .. MaxBatch, Ship(n) PROVE Explained' /\ FailureExplained'
  <2>1. /\ pc = "batch" /\ pc' \in {"sent", "crashed"}
        /\ UNCHANGED <<ordered, commands, result, outcome>>
    BY <1>0, <1>5, BatchGoes
  <2> QED BY <1>0, <2>1 DEF Explained, FailureExplained, NoLarge, Placed
<1>6. ASSUME NEW n \in 0 .. MaxBatch, TooLarge(n) PROVE Explained' /\ FailureExplained'
  <2>1. ~NoLarge
    <3>1. /\ cmd \in 1 .. Len(commands) /\ sent \in Nat /\ n \in Nat
          /\ sent + n < Len(Docs) /\ Docs[sent + n + 1] = "large"
      BY <1>0, <1>6, BulkWriteAssumption DEF TooLarge, Placed, TypeOK
    <3>2. Len(commands[cmd].docs) \in Nat
      BY <1>0, <3>1, DocsTyped
    <3>3. sent + n + 1 \in 1 .. Len(commands[cmd].docs)
      BY <3>1, <3>2 DEF Docs
    <3> QED BY <3>1, <3>3 DEF NoLarge, Docs
  <2>2. pc = "batch" /\ pc' = "end" /\ UNCHANGED <<commands, outcome>>
    BY <1>6 DEF TooLarge
  <2> QED BY <1>0, <2>1, <2>2 DEF Explained, FailureExplained, NoLarge, Placed
<1>7. ASSUME Serve \/ \E r \in late : ServeLate(r) PROVE Explained' /\ FailureExplained'
  <2>1. UNCHANGED <<ordered, commands, pc, reply, result, message, outcome>>
    BY <1>7 DEF Serve, ServeLate
  <2> QED BY <1>0, <2>1 DEF Explained, FailureExplained, NoLarge
<1>8. ASSUME Answered \/ Failed \/ Lost PROVE Explained' /\ FailureExplained'
  <2>1. /\ pc = "sent" /\ pc' = "reply" /\ UNCHANGED <<ordered, commands, outcome>>
        /\ (reply'.ok => result' = result)
        /\ (~reply'.ok => result' = [result EXCEPT !.error = "command"])
    BY <1>0, <1>8, ReplyComes
  <2>2. ~reply'.ok => result'.error = "command" /\ result'.failed = result.failed
                      /\ result'.refused = result.refused
    BY <1>0, <2>1 DEF Result
  <2> QED BY <1>0, <2>1, <2>2 DEF Explained, FailureExplained, NoLarge, Placed
<1>9. ASSUME Retry PROVE Explained' /\ FailureExplained'
  <2>1. /\ pc = "reply" /\ pc' = "sent" /\ UNCHANGED <<ordered, commands, result, outcome>>
    BY <1>9 DEF Retry
  <2> QED BY <1>0, <2>1 DEF Explained, FailureExplained, NoLarge, Placed
<1>10. ASSUME Settle PROVE Explained' /\ FailureExplained'
  <2>1. /\ pc = "reply" /\ UNCHANGED <<ordered, commands, reply, outcome>>
        /\ result' = Merged
        /\ pc' = IF sent < Len(Docs) /\ ~Merged.mustStop THEN "batch" ELSE "end"
    BY <1>0, <1>10, BatchSettles
  <2>2. /\ Merged.failed = FailedAfter /\ Merged.error = result.error
        /\ Merged.mustStop = (result.mustStop \/ MustStop)
        /\ Merged.refused = result.refused \cup
             (IF reply.ok THEN {AbsoluteIndex(d) : d \in RefusedOf(request)} ELSE {})
    BY <1>0, <2>1, MergedTyped
  <2>3. ASSUME ordered, NoLarge, Merged.failed
        PROVE  Merged.refused # {} \/ (pc' = "end" /\ ~reply.ok /\ Merged.error # "")
    <3>1. CASE result.failed
      BY <1>0, <2>1, <2>2, <2>3, <3>1 DEF Explained
    <3>2. CASE ~reply.ok
      <4>1. MustStop
        BY <2>3, <3>2 DEF MustStop
      <4> QED BY <1>0, <2>1, <2>2, <3>2, <4>1 DEF Explained
    <3>3. CASE reply.ok /\ RefusedOf(request) # {}
      <4>1. PICK d \in RefusedOf(request) : TRUE
        BY <3>3
      <4>2. AbsoluteIndex(d) \in Merged.refused
        BY <2>2, <3>3, <4>1
      <4> QED BY <4>2
    <3> QED BY <2>2, <2>3, <3>1, <3>2, <3>3 DEF FailedAfter
  <2>4. pc' # "reply" /\ outcome = "none"
    BY <1>0, <2>1 DEF Placed
  <2> QED BY <2>1, <2>3, <2>4 DEF Explained, FailureExplained, NoLarge
<1>11. ASSUME EndCommand PROVE Explained' /\ FailureExplained'
  <2>1. pc = "end" /\ outcome = "none" /\ UNCHANGED <<ordered, commands>>
    BY <1>0, <1>11 DEF EndCommand, Placed
  <2>2. CASE StopsBulk \/ cmd = Len(commands)
    <3>1. /\ pc' = "idle" /\ message' = FinalError
          /\ outcome' = IF ~result.failed /\ FinalError = "" THEN "ok" ELSE "failed"
      BY <1>11, <2>2 DEF EndCommand, Return
    <3> QED BY <1>0, <2>1, <3>1, ErrorAtEnd DEF Explained, FailureExplained, NoLarge
  <2>3. CASE ~(StopsBulk \/ cmd = Len(commands))
    <3>1. pc' = "stream" /\ result' = [result EXCEPT !.error = ErrorLeft] /\ outcome' = outcome
      BY <1>11, <2>3 DEF EndCommand
    <3>2. result'.failed = result.failed
      BY <1>0, <3>1 DEF Result
    <3>3. ordered => ~result.failed
      BY <2>3 DEF StopsBulk
    <3> QED BY <2>1, <3>1, <3>2, <3>3 DEF Explained, FailureExplained, NoLarge
  <2> QED BY <2>2, <2>3
<1>12. ASSUME UNCHANGED vars PROVE Explained' /\ FailureExplained'
  BY <1>0, <1>12 DEF vars, Explained, FailureExplained, NoLarge
<1> QED
  BY <1>1, <1>2, <1>3, <1>4, <1>5, <1>6, <1>7, <1>8, <1>9, <1>10, <1>11, <1>12
  DEF Next, Step

-----------------------------------------------------------------------------
(* What was executed. *)

LEMMA AppliedStays ==
  ASSUME TypeOK, NEW r \in Request, applied' = applied \/ applied' = Effect(r),
         NEW a, NEW c, NEW d, IsApplied(a, c, d)
  PROVE  IsApplied(a, c, d)'
<1>1. PICK i \in 1 .. Len(applied) :
        applied[i].run = a /\ applied[i].cmd = c /\ applied[i].doc = d
  BY DEF IsApplied
<1>2. i \in 1 .. Len(applied') /\ applied'[i] = applied[i]
  BY <1>1, EffectIs
<1> QED BY <1>1, <1>2 DEF IsApplied

(* Nothing but what the servers have executed changes, and that grows. *)
LEMMA AccountedIf ==
  ASSUME TypeOK, Accounted, SuccessMeansApplied, NEW r \in Request,
         applied' = applied \/ applied' = Effect(r),
         UNCHANGED <<ordered, commands, run, cmd, sent, pc, reply, result, outcome>>,
         pc \in {"sent", "reply"} => request'.lo = request.lo,
         pc = "sent" /\ ~result.failed => RequestApplied',
         pc = "reply" => request' = request
  PROVE  Accounted' /\ SuccessMeansApplied'
<1>1. ASSUME NEW a, NEW c, NEW d, IsApplied(a, c, d) PROVE IsApplied(a, c, d)'
  BY <1>1, AppliedStays
<1>2. ASSUME NEW c, CommandApplied(c) PROVE CommandApplied(c)'
  BY <1>1, <1>2 DEF CommandApplied
<1>3. ASSUME pc = "reply", RequestApplied PROVE RequestApplied'
  <2>1. RefusedOf(request)' = RefusedOf(request)
        /\ \A d : IsBad(request, d)' <=> IsBad(request, d)
    BY <1>3 DEF RefusedOf, IsBad
  <2> QED BY <1>1, <1>3, <2>1 DEF RequestApplied
<1>4. SuccessMeansApplied'
  BY <1>1 DEF SuccessMeansApplied
<1> QED BY <1>1, <1>2, <1>3, <1>4 DEF Accounted

LEMMA AccountedKeeps == IInv /\ [Next]_vars => Accounted' /\ SuccessMeansApplied'
<1> SUFFICES ASSUME IInv, [Next]_vars PROVE Accounted' /\ SuccessMeansApplied'
  OBVIOUS
<1>0. /\ TypeOK /\ Placed /\ Located /\ Accounted /\ SuccessMeansApplied
      /\ result \in Result /\ reply.ok \in BOOLEAN /\ request \in Request
      /\ sent \in Nat /\ batch \in Nat /\ cmd \in Nat
  <2>1. TypeOK
    BY DEF IInv
  <2> QED BY <2>1, Fields DEF IInv, TypeOK
<1>1. ASSUME NEW type \in Type, NEW kind \in Kind, Add(type, kind)
      PROVE  Accounted' /\ SuccessMeansApplied'
  BY <1>0, <1>1 DEF Add, Accounted, SuccessMeansApplied
<1>2. ASSUME Execute PROVE Accounted' /\ SuccessMeansApplied'
  <2>1. pc' \in {"idle", "stream"} /\ outcome' \in {"none", "failed"} /\ cmd' = 1
    BY <1>2, Zenon DEF Execute, Return
  <2>2. result'.mustStop = FALSE
    <3>1. result' = NewResult(IF run = 0 THEN result.error ELSE "")
      BY <1>2, Zenon DEF Execute
    <3> QED BY <3>1, Zenon DEF NewResult
  <2> QED BY <2>1, <2>2 DEF Accounted, SuccessMeansApplied
<1>3. ASSUME GetStream PROVE Accounted' /\ SuccessMeansApplied'
  <2>1. /\ pc = "stream" /\ pc' = "batch" /\ sent' = 0
        /\ UNCHANGED <<commands, run, cmd, applied, result, outcome>>
    BY <1>3 DEF GetStream, servers
  <2> QED BY <1>0, <2>1 DEF Accounted, SuccessMeansApplied, Placed, CommandApplied, IsApplied
<1>4. ASSUME NoStream PROVE Accounted' /\ SuccessMeansApplied'
  BY <1>0, <1>4 DEF NoStream, Return, Accounted, SuccessMeansApplied
<1>5. ASSUME NEW n \in 1 .. MaxBatch, Ship(n) PROVE Accounted' /\ SuccessMeansApplied'
  <2>1. /\ pc = "batch" /\ outcome = "none"
        /\ UNCHANGED <<commands, run, cmd, applied, result, outcome>>
        /\ \/ pc' = "sent" /\ request'.lo = sent + 1 /\ request'.next = sent + 1
           \/ pc' = "crashed"
    BY <1>0, <1>5, BatchGoes DEF Placed
  <2>2. SuccessMeansApplied'
    BY <2>1 DEF SuccessMeansApplied
  <2>3. CASE pc' = "crashed"
    BY <1>0, <2>1, <2>2, <2>3 DEF Accounted, CommandApplied, IsApplied
  <2>4. CASE pc' = "sent" /\ request'.lo = sent + 1 /\ request'.next = sent + 1
    <3>1. request'.lo .. request'.next - 1 = {} /\ 1 .. request'.lo - 1 = 1 .. sent
      BY <1>0, <2>4
    <3>2. RequestApplied'
      BY <3>1 DEF RequestApplied
    <3> QED BY <1>0, <2>1, <2>2, <2>4, <3>1, <3>2 DEF Accounted, CommandApplied, IsApplied
  <2> QED BY <2>1, <2>3, <2>4
<1>6. ASSUME NEW n \in 0 .. MaxBatch, TooLarge(n) PROVE Accounted' /\ SuccessMeansApplied'
  <2>1. pc = "batch" /\ outcome' = outcome /\ result'.failed = TRUE
    BY <1>0, <1>6 DEF TooLarge, Result
  <2>2. outcome = "none"
    BY <1>0, <2>1 DEF Placed
  <2> QED BY <2>1, <2>2 DEF Accounted, SuccessMeansApplied
<1>7. ASSUME Serve PROVE Accounted' /\ SuccessMeansApplied'
  <2>1. /\ pc = "sent" /\ request' = Progress(request) /\ applied' = Effect(request)
        /\ ~(request.next > request.hi)
        /\ UNCHANGED <<ordered, commands, run, cmd, sent, pc, reply, result, outcome>>
    BY <1>7 DEF Serve, Served, place
  <2>2. /\ request.run = run /\ request.cmd = cmd /\ request.lo <= request.next
        /\ request.lo \in Nat /\ request.hi \in Nat /\ request.next \in Nat
    BY <1>0, <2>1, RequestTyped DEF Placed
  <2>3. /\ request'.cmd = request.cmd /\ request'.lo = request.lo /\ request'.hi = request.hi
        /\ request'.next = IF ordered /\ IsBad(request, request.next) THEN request.hi + 1
                                                                     ELSE request.next + 1
    BY <1>0, <2>1, ProgressTyped
  <2>4. ASSUME ~result.failed PROVE RequestApplied'
    <3>1. RequestApplied
      BY <1>0, <2>1, <2>4 DEF Accounted
    <3>2. RefusedOf(request)' = RefusedOf(request)
          /\ \A d : IsBad(request, d)' <=> IsBad(request, d)
      BY <2>1, <2>3 DEF RefusedOf, IsBad
    <3>3. SUFFICES ASSUME RefusedOf(request) = {} PROVE RequestApplied'
      BY <3>2 DEF RequestApplied
    <3>4. \A d \in request.lo .. request.next - 1 : ~IsBad(request, d) /\ IsApplied(run, cmd, d)
      BY <3>1, <3>3 DEF RequestApplied
    <3>5. ~IsBad(request, request.next)
      <4>1. request.next \in request.lo .. request.hi
        BY <2>1, <2>2
      <4>2. IsBad(request, request.next) => request.next \in RefusedOf(request)
        BY <3>4, <4>1 DEF RefusedOf
      <4> QED BY <3>3, <4>2
    <3>6. request'.next = request.next + 1
      BY <2>3, <3>5
    <3>7. ASSUME NEW d, d = request.next PROVE IsApplied(run, cmd, d)'
      <4>0. /\ Statement(request).run = run /\ Statement(request).cmd = cmd
            /\ Statement(request).doc = d
        BY <2>2, <3>7, StatementIs
      <4>1. CASE IsKnown(Statement(request)) /\ applied' = applied
        <5>1. PICK i \in 1 .. Len(applied) : applied[i] = Statement(request)
          BY <4>1 DEF IsKnown
        <5> QED BY <2>1, <4>0, <4>1, <5>1 DEF IsApplied
      <4>2. CASE /\ Len(applied') = Len(applied) + 1
                 /\ applied'[Len(applied) + 1] = Statement(request)
                 /\ Len(applied) \in Nat
        <5>1. Len(applied) + 1 \in 1 .. Len(applied')
          BY <4>2
        <5> QED BY <2>1, <4>0, <4>2, <5>1 DEF IsApplied
      <4> QED BY <1>0, <2>1, <3>5, <4>1, <4>2, EffectIs
    <3>8. ASSUME NEW d \in request.lo .. request.next
          PROVE  ~IsBad(request, d)' /\ IsApplied(run, cmd, d)'
      <4>0. IsBad(request, d)' <=> IsBad(request, d)
        BY <3>2
      <4>1. CASE d = request.next
        BY <3>5, <3>7, <4>0, <4>1
      <4>2. CASE d \in request.lo .. request.next - 1
        <5>1. ~IsBad(request, d) /\ IsApplied(run, cmd, d)
          BY <3>4, <4>2
        <5>2. IsApplied(run, cmd, d)'
          BY <1>0, <2>1, <5>1, AppliedStays
        <5> QED BY <4>0, <5>1, <5>2
      <4> QED BY <2>2, <4>1, <4>2
    <3>9. request'.lo .. request'.next - 1 = request.lo .. request.next
      BY <2>2, <2>3, <3>6
    <3> QED BY <3>8, <3>9 DEF RequestApplied
  <2>5. pc # "reply" /\ request'.lo = request.lo
    BY <2>1, <2>3
  <2> QED BY <1>0, <2>1, <2>4, <2>5, AccountedIf
<1>8. ASSUME NEW r \in late, ServeLate(r) PROVE Accounted' /\ SuccessMeansApplied'
  <2>1. /\ applied' = Effect(r) /\ request' = request
        /\ UNCHANGED <<ordered, commands, run, cmd, sent, pc, reply, result, outcome>>
    BY <1>8 DEF ServeLate, place
  <2>2. r \in Request
    BY <1>0 DEF TypeOK
  <2>3. ASSUME pc = "sent", ~result.failed PROVE RequestApplied'
    <3>1. RequestApplied
      BY <1>0, <2>3 DEF Accounted
    <3>2. RefusedOf(request)' = RefusedOf(request)
          /\ \A d : IsBad(request, d)' <=> IsBad(request, d)
      BY <2>1 DEF RefusedOf, IsBad
    <3>3. ASSUME NEW d, IsApplied(run, cmd, d) PROVE IsApplied(run, cmd, d)'
      BY <1>0, <2>1, <2>2, <3>3, AppliedStays
    <3> QED BY <2>1, <3>1, <3>2, <3>3 DEF RequestApplied
  <2> QED BY <1>0, <2>1, <2>2, <2>3, AccountedIf
<1>9. ASSUME Answered \/ Failed \/ Lost PROVE Accounted' /\ SuccessMeansApplied'
  <2>1. /\ pc = "sent" /\ pc' = "reply"
        /\ UNCHANGED <<ordered, commands, run, cmd, request, applied, outcome>>
        /\ reply'.ok => Served(request) /\ result' = result
        /\ ~reply'.ok => result' = [result EXCEPT !.error = "command"]
        /\ reply'.ok \in BOOLEAN
    BY <1>0, <1>9, ReplyComes
  <2>2. result'.failed = result.failed /\ result'.mustStop = result.mustStop /\ outcome = "none"
    BY <1>0, <2>1 DEF Result, Placed
  <2>3. reply'.ok => request.next = request.hi + 1
    <3>1. request.next \in Nat /\ request.hi \in Nat /\ request.next <= request.hi + 1
      BY <1>0, <2>1, RequestTyped DEF Placed
    <3> QED BY <2>1, <3>1 DEF Served
  <2>4. RequestApplied' <=> RequestApplied
    BY <2>1 DEF RequestApplied, RefusedOf, IsBad, IsApplied
  <2> QED BY <1>0, <2>1, <2>2, <2>3, <2>4
          DEF Accounted, SuccessMeansApplied, CommandApplied, IsApplied
<1>10. ASSUME Retry PROVE Accounted' /\ SuccessMeansApplied'
  <2>1. /\ pc = "reply" /\ pc' = "sent" /\ outcome = "none"
        /\ request' = [request EXCEPT !.next = request.lo]
        /\ UNCHANGED <<commands, run, cmd, applied, result, outcome>>
    BY <1>0, <1>10 DEF Retry, Again, place, servers, Placed
  <2>2. request'.lo = request.lo /\ request'.next = request.lo /\ request.lo \in Nat
    BY <1>0, <2>1 DEF Request
  <2>3. request'.lo .. request'.next - 1 = {}
    BY <2>2
  <2>4. RequestApplied'
    BY <2>3 DEF RequestApplied
  <2> QED BY <1>0, <2>1, <2>2, <2>4
          DEF Accounted, SuccessMeansApplied, CommandApplied, IsApplied
<1>11. ASSUME Settle PROVE Accounted' /\ SuccessMeansApplied'
  <2>1. /\ pc = "reply" /\ result' = Merged /\ outcome = "none"
        /\ UNCHANGED <<commands, run, cmd, sent, applied, outcome>>
        /\ pc' = IF sent < Len(Docs) /\ ~Merged.mustStop THEN "batch" ELSE "end"
    BY <1>0, <1>11, BatchSettles DEF Placed
  <2>2. Merged.failed = FailedAfter /\ Merged.mustStop = (result.mustStop \/ MustStop)
    BY <1>0, <2>1, MergedTyped
  <2>3. Merged.mustStop => Merged.failed
    BY <1>0, <2>2 DEF FailedAfter, MustStop, Accounted
  <2>4. ASSUME ~Merged.failed
        PROVE  /\ ~result.failed
               /\ \A d \in 1 .. sent : IsApplied(run, cmd, d)
               /\ pc' = "end" => CommandApplied(cmd)
    <3>1. ~result.failed /\ reply.ok /\ RefusedOf(request) = {}
      BY <1>0, <2>2, <2>4 DEF FailedAfter
    <3>2. /\ request.lo \in Nat /\ request.hi \in Nat /\ request.hi = sent
      BY <1>0, <2>1, RequestTyped DEF Placed
    <3>3. \A d \in request.lo .. request.hi : IsApplied(run, cmd, d)
      <4>1. RequestApplied /\ request.next = request.hi + 1
        BY <1>0, <2>1, <3>1 DEF Accounted
      <4> QED BY <3>1, <3>2, <4>1 DEF RequestApplied
    <3>4. \A d \in 1 .. request.lo - 1 : IsApplied(run, cmd, d)
      BY <1>0, <2>1, <3>1 DEF Accounted
    <3>5. \A d \in 1 .. sent : IsApplied(run, cmd, d)
      BY <1>0, <3>2, <3>3, <3>4
    <3>6. ASSUME pc' = "end" PROVE CommandApplied(cmd)
      <4>1. ~(sent < Len(Docs))
        BY <2>1, <2>3, <2>4, <3>6
      <4>2. cmd \in 1 .. Len(commands)
        BY <1>0, <2>1 DEF Placed
      <4>3. Len(commands[cmd].docs) \in Nat
        BY <1>0, <4>2, DocsTyped
      <4> QED BY <1>0, <3>5, <4>1, <4>3 DEF CommandApplied, Docs
    <3> QED BY <3>1, <3>5, <3>6
  <2>5. pc' \in {"batch", "end"}
    BY <2>1
  <2>6. SuccessMeansApplied'
    BY <2>1 DEF SuccessMeansApplied
  <2> QED BY <1>0, <2>1, <2>3, <2>4, <2>5, <2>6 DEF Accounted, CommandApplied, IsApplied
<1>12. ASSUME EndCommand PROVE Accounted' /\ SuccessMeansApplied'
  <2>1. /\ pc = "end" /\ outcome = "none" /\ cmd \in 1 .. Len(commands)
        /\ UNCHANGED <<commands, run, applied>>
    BY <1>0, <1>12 DEF EndCommand, Placed, servers
  <2>4. ~result.failed => \A c \in 1 .. cmd : CommandApplied(c)
    <3>1. SUFFICES ASSUME ~result.failed, NEW c \in 1 .. cmd PROVE CommandApplied(c)
      OBVIOUS
    <3>2. c = cmd \/ c \in 1 .. cmd - 1
      BY <1>0
    <3> QED BY <1>0, <2>1, <3>1, <3>2 DEF Accounted
  <2>2. CASE StopsBulk \/ cmd = Len(commands)
    <3>1. /\ pc' = "idle" /\ result' = [result EXCEPT !.error = FinalError]
          /\ outcome' = IF ~result.failed /\ FinalError = "" THEN "ok" ELSE "failed"
      BY <1>12, <2>2 DEF EndCommand, Return
    <3>2. result'.failed = result.failed /\ result'.mustStop = result.mustStop
          /\ result'.refused = result.refused
      BY <1>0, <3>1 DEF Result
    <3>3. ASSUME ~result.failed, FinalError = ""
          PROVE  /\ \A c \in 1 .. Len(commands) : CommandApplied(c)
                 /\ result.refused = {}
      <4>1. cmd = Len(commands)
        BY <2>2, <3>3 DEF StopsBulk
      <4>2. \A c \in 1 .. cmd : CommandApplied(c)
        BY <2>4, <3>3
      <4>3. result.refused = {}
        BY <3>3 DEF FinalError
      <4> QED BY <4>1, <4>2, <4>3
    <3>4. SuccessMeansApplied'
      <4>1. outcome' = "ok" => ~result.failed /\ FinalError = ""
        BY <3>1
      <4>2. outcome' = "ok" => /\ \A c \in 1 .. Len(commands) : CommandApplied(c)
                               /\ result'.refused = {}
        BY <3>2, <3>3, <4>1
      <4>3. SUFFICES ASSUME outcome' = "ok", NEW c \in 1 .. Len(commands)
                     PROVE  CommandApplied(c)'
        BY <2>1, <4>2 DEF SuccessMeansApplied, CommandApplied
      <4>4. CommandApplied(c)
        BY <4>2, <4>3
      <4> QED BY <2>1, <4>4 DEF CommandApplied, IsApplied
    <3>5. Accounted'
      BY <1>0, <3>1, <3>2 DEF Accounted
    <3> QED BY <3>4, <3>5
  <2>3. CASE ~(StopsBulk \/ cmd = Len(commands))
    <3>1. /\ pc' = "stream" /\ cmd' = cmd + 1
          /\ result' = [result EXCEPT !.error = ErrorLeft] /\ outcome' = outcome
      BY <1>12, <2>3 DEF EndCommand
    <3>2. result'.failed = result.failed /\ result'.mustStop = result.mustStop
      BY <1>0, <3>1 DEF Result
    <3>3. ASSUME NEW c, CommandApplied(c) PROVE CommandApplied(c)'
      BY <2>1, <3>3 DEF CommandApplied, IsApplied
    <3>4. 1 .. cmd' - 1 = 1 .. cmd
      BY <1>0, <3>1
    <3>5. ~result'.failed => \A c \in 1 .. cmd' - 1 : CommandApplied(c)'
      BY <2>4, <3>2, <3>3, <3>4
    <3>6. Accounted'
      BY <1>0, <3>1, <3>2, <3>5 DEF Accounted
    <3> QED BY <2>1, <3>1, <3>6 DEF SuccessMeansApplied
  <2> QED BY <2>2, <2>3
<1>13. ASSUME UNCHANGED vars PROVE Accounted' /\ SuccessMeansApplied'
  <2>1. UNCHANGED <<ordered, commands, run, cmd, sent, pc, request, reply, applied, result,
                    outcome>>
    BY <1>13 DEF vars
  <2>2. RequestApplied' <=> RequestApplied
    BY <2>1 DEF RequestApplied, RefusedOf, IsBad, IsApplied
  <2>3. ASSUME NEW c PROVE CommandApplied(c)' <=> CommandApplied(c)
    BY <2>1 DEF CommandApplied, IsApplied
  <2>4. SuccessMeansApplied'
    BY <1>0, <2>1 DEF SuccessMeansApplied, IsApplied
  <2>5. Accounted'
    BY <1>0, <2>1, <2>2, <2>3 DEF Accounted, IsApplied
  <2> QED BY <2>4, <2>5
<1> QED
  BY <1>1, <1>2, <1>3, <1>4, <1>5, <1>6, <1>7, <1>8, <1>9, <1>10, <1>11, <1>12, <1>13
  DEF Next, Step

-----------------------------------------------------------------------------
LEMMA InitInvariant == Init => IInv
<1> SUFFICES ASSUME Init PROVE IInv
  OBVIOUS
<1>1. TypeOK
  BY InitType
<1>2. /\ pc = "idle" /\ late = {} /\ applied = <<>> /\ canRetry = FALSE /\ batch = 0
      /\ outcome = "none"
  BY DEF Init
<1>3. result.mustStop = FALSE
  <2>1. PICK e \in {"", "options"} : result = NewResult(e)
    BY DEF Init
  <2> QED BY <2>1 DEF NewResult
<1>4. Len(applied) = 0
  BY <1>2, EmptySeq
<1>5. InFlight = {}
  BY <1>2 DEF InFlight
<1>6. 1 .. Len(applied) = {}
  BY <1>4
<1> QED
  BY <1>1, <1>2, <1>3, <1>5, <1>6
  DEF IInv, Placed, Located, Numbered, AtMostOnce, Streams, FailedStreamIsDropped, Explained,
      FailureExplained, Accounted, SuccessMeansApplied

LEMMA InvariantKeeps == IInv /\ [Next]_vars => IInv'
<1> SUFFICES ASSUME IInv, [Next]_vars PROVE IInv'
  OBVIOUS
<1> QED
  BY TypeKeeps, PlacedKeeps, LocatedKeeps, NumberedKeeps, StreamsKeep, ExplainedKeeps,
     AccountedKeeps
  DEF IInv

(* The inductive invariant of the bulk writes. *)
THEOREM Invariance == Spec => []IInv
BY InitInvariant, InvariantKeeps, PTL DEF Spec

(* The state of a bulk operation, of the session and of the servers has its type. *)
THEOREM TypeCorrect == Spec => []TypeOK
<1>1. IInv => TypeOK
  BY DEF IInv
<1> QED BY <1>1, Invariance, PTL

(* No document of a call of execute is written twice, for bulks of any size and any
   number of broken connections: the retry carries the transaction number of the
   first attempt (mongoc-write-command.c:597-625). *)
THEOREM WrittenAtMostOnce == Spec => []AtMostOnce
<1>1. IInv => AtMostOnce
  BY DEF IInv
<1> QED BY <1>1, Invariance, PTL

(* A call of execute without an error has written every document
   (mongoc-write-command.c:627-648, mongoc-bulk-operation.c:811-865). *)
THEOREM SuccessIsComplete == Spec => []SuccessMeansApplied
<1>1. IInv => SuccessMeansApplied
  BY DEF IInv
<1> QED BY <1>1, Invariance, PTL

(* The clearing of the error of a first attempt keeps the error of an ordered bulk
   (mongoc-write-command.c:663-666). *)
THEOREM OrderedFailureExplained == Spec => []FailureExplained
<1>1. IInv => FailureExplained
  BY DEF IInv
<1> QED BY <1>1, Invariance, PTL

(* The stream a command begins with is not used after a batch failed on it; if it
   is used closed, then behind a batch that was written and whose write concern
   failed (mongoc-write-command.c:628-636). *)
THEOREM FailedStreamDropped == Spec => []FailedStreamIsDropped
<1>1. IInv => FailedStreamIsDropped
  BY DEF IInv
<1> QED BY <1>1, Invariance, PTL

------------------------------------------------------------------------------

LEMMA HasStays ==
  ASSUME TypeOK, NEW w \in Request, applied' = applied \/ applied' = Effect(w),
         NEW r, NEW d, Has(r, d)
  PROVE  Has(r, d)'
<1>1. PICK i \in 1 .. Len(applied) :
        applied[i] = [run |-> r.run, cmd |-> r.cmd, doc |-> d, txn |-> r.txn]
  BY DEF Has
<1>2. i \in 1 .. Len(applied') /\ applied'[i] = applied[i]
  BY <1>1, EffectIs
<1> QED BY <1>1, <1>2 DEF Has

(* A request with the same number and place has the same documents. *)
LEMMA SameRequest ==
  ASSUME NEW r, NEW q, q.run = r.run, q.cmd = r.cmd, q.lo = r.lo, q.hi = r.hi, q.txn = r.txn
  PROVE  /\ \A d : Has(q, d) <=> Has(r, d)
         /\ \A d : IsBad(q, d) <=> IsBad(r, d)
         /\ \A d : IsDone(q, d) <=> IsDone(r, d)
         /\ \A x : (Overlap(q, x) <=> Overlap(r, x)) /\ (Overlap(x, q) <=> Overlap(x, r))
         /\ \A x : (Precedes(q, x) <=> Precedes(r, x)) /\ (Precedes(x, q) <=> Precedes(x, r))
         /\ \A e : (Behind(e, q) <=> Behind(e, r)) /\ (Within(e, q) <=> Within(e, r))
BY DEF Has, IsBad, IsDone, Overlap, Precedes, Behind, Within

(* Nothing is executed and no request is new. *)
LEMMA QuietKeeps ==
  ASSUME TypeOK, Sequential, applied' = applied, ordered' = ordered,
         InFlight' \subseteq InFlight,
         \A r \in InFlight : r.cmd \in 1 .. Len(commands') /\ r.hi <= Len(commands'[r.cmd].docs),
         \A r \in InFlight : \A d \in r.lo .. r.hi : IsBad(r, d)' <=> IsBad(r, d),
         ordered /\ pc' = "reply" /\ reply'.ok =>
           \A r \in late' : Overlap(r, request)' => Exhausted(r),
         ordered => \A r \in late' :
           r.run = run' /\ pc' # "idle" /\ ~Awaited(r)' /\ ~(pc' = "end" /\ result'.mustStop)
             => Exhausted(r)
  PROVE  Sequential'
<1>1. ASSUME NEW r, NEW d PROVE Has(r, d)' <=> Has(r, d)
  BY DEF Has
<1>2. ASSUME NEW r \in InFlight PROVE r.lo \in Nat /\ r.hi \in Nat /\ r.next \in Nat
  <2>1. r \in Request
    BY InFlightTyped
  <2> QED BY <2>1, RequestTyped
<1>3. ASSUME NEW r \in InFlight, NEW d \in Int, d <= r.hi PROVE IsDone(r, d)' <=> IsDone(r, d)
  <2>1. ASSUME NEW b \in r.lo .. d PROVE IsBad(r, b)' <=> IsBad(r, b)
    <3>1. b \in r.lo .. r.hi
      BY <1>2, <1>3
    <3> QED BY <3>1
  <2> QED BY <1>1, <2>1 DEF IsDone
<1>4. ASSUME NEW r \in InFlight PROVE Exhausted(r)' <=> Exhausted(r)
  <2>1. ASSUME NEW d \in r.next .. r.hi PROVE IsDone(r, d)' <=> IsDone(r, d)
    BY <1>2, <1>3
  <2> QED BY <2>1 DEF Exhausted
<1>5. InRange'
  BY DEF Sequential, InRange
<1>6. ASSUME ordered PROVE InOrder'
  BY <1>6 DEF Sequential, InOrder
<1>7. ASSUME ordered PROVE FirstPart'
  <2>1. SUFFICES ASSUME NEW r \in InFlight
                 PROVE  /\ \A d \in r.lo .. r.hi :
                             d < r.next => IsDone(r, d)' /\ (r.next <= r.hi => ~IsBad(r, d)')
                        /\ \A k \in 1 .. Len(applied) :
                             Within(applied[k], r) => \A d \in r.lo .. applied[k].doc : Has(r, d)'
    BY DEF FirstPart
  <2>2. ASSUME NEW d \in r.lo .. r.hi PROVE IsDone(r, d)' <=> IsDone(r, d)
    BY <1>2, <1>3
  <2> QED BY <1>1, <1>7, <2>2 DEF Sequential, FirstPart
<1>8. ASSUME ordered PROVE GoesOn'
  <2>1. ASSUME NEW r \in InFlight', NEW k \in 1 .. Len(applied), Behind(applied[k], r)
        PROVE  Exhausted(r)'
    BY <1>4, <1>8, <2>1 DEF Sequential, GoesOn
  <2>2. ASSUME NEW r \in InFlight', NEW q \in InFlight', Precedes(r, q) PROVE Exhausted(r)'
    BY <1>4, <1>8, <2>2 DEF Sequential, GoesOn
  <2>3. \A r \in late' : r \in InFlight
    BY DEF InFlight
  <2>4. ASSUME pc' = "reply", reply'.ok, NEW r \in late', Overlap(r, request)' PROVE Exhausted(r)'
    BY <1>4, <1>8, <2>3, <2>4
  <2>5. ASSUME NEW r \in late', r.run = run', pc' # "idle", ~Awaited(r)',
               ~(pc' = "end" /\ result'.mustStop)
        PROVE  Exhausted(r)'
    BY <1>4, <1>8, <2>3, <2>5
  <2> QED BY <2>1, <2>2, <2>4, <2>5 DEF GoesOn
<1> QED BY <1>5, <1>6, <1>7, <1>8 DEF Sequential

(* What the facts about request ranges say of one request. *)
LEMMA Ranges ==
  ASSUME TypeOK, Placed, Located, NEW r \in InFlight
  PROVE  /\ r \in Request /\ r.run \in Nat /\ r.cmd \in Nat /\ r.lo \in Nat /\ r.hi \in Nat
         /\ r.next \in Nat /\ r.txn \in Nat /\ r.lo <= r.hi /\ r.lo <= r.next
<1>1. r \in Request
  BY InFlightTyped
<1>2. CASE r \in late
  BY <1>1, <1>2, RequestTyped DEF Located
<1>3. CASE r = request /\ pc \in {"sent", "reply"}
  BY <1>1, <1>3, RequestTyped DEF Placed
<1> QED BY <1>1, <1>2, <1>3 DEF InFlight

(* A statement that is executed was not done. *)
LEMMA NotYet ==
  ASSUME TypeOK, Placed, Located, Numbered, FirstPart, NEW r \in InFlight, r.next <= r.hi,
         ~IsBad(r, r.next), ~IsKnown(Statement(r))
  PROVE  ~IsDone(r, r.next)
<1>1. /\ r \in Request /\ r.lo \in Nat /\ r.hi \in Nat /\ r.next \in Nat /\ r.lo <= r.next
      /\ r.run \in Nat /\ r.cmd \in Nat
  BY Ranges
<1>2. ASSUME NEW b \in r.lo .. r.next, IsBad(r, b) PROVE FALSE
  <2>1. b # r.next /\ b \in Int
    BY <1>2
  <2>2. b \in r.lo .. r.hi /\ b < r.next
    BY <1>1, <1>2, <2>1
  <2> QED BY <1>2, <2>2 DEF FirstPart
<1>3. ASSUME Has(r, r.next) PROVE FALSE
  <2>1. PICK i \in 1 .. Len(applied) :
          applied[i] = [run |-> r.run, cmd |-> r.cmd, doc |-> r.next, txn |-> r.txn]
    BY <1>3 DEF Has
  <2>2. applied[i] = Statement(r)
    BY <2>1 DEF Statement
  <2>3. applied[i].run = r.run /\ applied[i].cmd = r.cmd /\ applied[i].doc = r.next
        /\ applied[i].txn = r.txn
    BY <2>1
  <2>4. Within(applied[i], r)
    BY <1>1, <2>3 DEF Within
  <2>5. r.txn = 0 => applied[i].doc < r.next
    BY <2>4 DEF Numbered
  <2>6. r.txn # 0
    BY <1>1, <2>3, <2>5
  <2> QED BY <2>2, <2>6, StatementIs DEF IsKnown
<1> QED BY <1>2, <1>3 DEF IsDone

(* A server takes one step of a request of an ordered bulk. *)
LEMMA StepKeepsOrder ==
  ASSUME TypeOK, Placed, Located, Numbered, Sequential, ordered,
         NEW r \in InFlight, r.next <= r.hi,
         NEW q, q = Progress(r),
         applied' = Effect(r), UNCHANGED <<ordered, commands>>,
         \A x \in InFlight' : x \in InFlight \/ x = q
  PROVE  /\ InRange' /\ InOrder' /\ FirstPart'
         /\ \A x \in InFlight' : \A i \in 1 .. Len(applied') :
              Behind(applied'[i], x) => Exhausted(x)'
         /\ \A x, y \in InFlight' : Precedes(x, y) => Exhausted(x)'
         /\ \A x \in InFlight : Exhausted(x) => Exhausted(x)'
         /\ Exhausted(r) => Exhausted(q)'
<1>1. /\ r \in Request /\ r.run \in Nat /\ r.cmd \in Nat /\ r.lo \in Nat /\ r.hi \in Nat
      /\ r.next \in Nat /\ r.txn \in Nat /\ r.lo <= r.next /\ r.lo <= r.hi
  BY Ranges
<1>2. /\ q \in Request /\ q.run = r.run /\ q.cmd = r.cmd /\ q.lo = r.lo /\ q.hi = r.hi
      /\ q.txn = r.txn /\ q.next = IF IsBad(r, r.next) THEN r.hi + 1 ELSE r.next + 1
  BY <1>1, ProgressTyped
<1>3. /\ InRange /\ InOrder /\ FirstPart /\ GoesOn
  BY DEF Sequential
<1>4. ASSUME NEW x, NEW d PROVE IsBad(x, d)' <=> IsBad(x, d)
  BY DEF IsBad
<1>5. ASSUME NEW x, NEW d, Has(x, d) PROVE Has(x, d)'
  BY <1>1, <1>5, HasStays
<1>6. ASSUME NEW x, NEW d, IsDone(x, d) PROVE IsDone(x, d)'
  BY <1>4, <1>5, <1>6 DEF IsDone
<1>7. ASSUME NEW x, Exhausted(x) PROVE Exhausted(x)'
  BY <1>6, <1>7 DEF Exhausted
<1>8. \/ /\ applied' = applied /\ (IsBad(r, r.next) \/ IsKnown(Statement(r)))
      \/ /\ ~IsBad(r, r.next) /\ ~IsKnown(Statement(r))
         /\ Len(applied') = Len(applied) + 1
         /\ applied'[Len(applied) + 1] = Statement(r)
         /\ \A i \in 1 .. Len(applied) : applied'[i] = applied[i]
         /\ Len(applied) \in Nat
  BY <1>1, EffectIs
<1>9. ASSUME NEW x, x.run = r.run, x.cmd = r.cmd, x.lo = r.lo, x.hi = r.hi, x.txn = r.txn
      PROVE  /\ \A d : Has(x, d)' <=> Has(r, d)'
             /\ \A d : IsDone(x, d)' <=> IsDone(r, d)'
  BY <1>9, SameRequest DEF Has, IsDone, IsBad
<1>10. ASSUME ~IsBad(r, r.next) PROVE Has(r, r.next)'
  <2>1. Statement(r) = [run |-> r.run, cmd |-> r.cmd, doc |-> r.next, txn |-> r.txn]
    BY DEF Statement
  <2>2. CASE applied' = applied /\ IsKnown(Statement(r))
    <3>1. PICK i \in 1 .. Len(applied) : applied[i] = Statement(r)
      BY <2>2 DEF IsKnown
    <3>2. Has(r, r.next)
      BY <2>1, <3>1 DEF Has
    <3> QED BY <1>5, <3>2
  <2>3. CASE /\ Len(applied') = Len(applied) + 1 /\ Len(applied) \in Nat
             /\ applied'[Len(applied) + 1] = Statement(r)
    <3>1. Len(applied) + 1 \in 1 .. Len(applied')
      BY <2>3
    <3> QED BY <2>1, <2>3, <3>1 DEF Has
  <2> QED BY <1>8, <1>10, <2>2, <2>3
<1>11. ASSUME NEW d \in r.lo .. r.hi, d < q.next
       PROVE  IsDone(r, d)' /\ (q.next <= q.hi => ~IsBad(r, d))
  <2>1. CASE d < r.next
    BY <1>3, <1>6, <1>11, <2>1 DEF FirstPart
  <2>2. CASE d = r.next /\ ~IsBad(r, r.next)
    BY <1>10, <2>2 DEF IsDone
  <2>3. CASE IsBad(r, r.next) /\ d >= r.next
    <3>1. r.next \in r.lo .. d
      BY <1>1, <1>11, <2>3
    <3>2. IsDone(r, d)
      BY <2>3, <3>1 DEF IsDone
    <3>3. ~(q.next <= q.hi)
      BY <1>1, <1>2, <2>3
    <3> QED BY <1>6, <3>2, <3>3
  <2> QED BY <1>1, <1>2, <1>11, <2>1, <2>2, <2>3
<1>12. ASSUME Exhausted(r) PROVE Exhausted(q)'
  <2>1. ASSUME NEW d \in q.next .. q.hi PROVE IsDone(q, d)'
    <3>1. d \in r.next .. r.hi
      BY <1>1, <1>2
    <3>2. IsDone(r, d)'
      BY <1>6, <1>12, <3>1 DEF Exhausted
    <3> QED BY <1>2, <1>9, <3>2
  <2> QED BY <2>1 DEF Exhausted
<1>13. InRange'
  <2>1. q.cmd \in 1 .. Len(commands) /\ 0 < q.lo /\ q.lo <= q.hi
        /\ q.hi <= Len(commands[q.cmd].docs)
    BY <1>2, <1>3 DEF InRange
  <2> QED BY <1>3, <2>1 DEF InRange
(* The statement that is executed, if one is. *)
<1>14. ASSUME ~IsBad(r, r.next), ~IsKnown(Statement(r))
       PROVE  /\ ~IsDone(r, r.next) /\ ~Exhausted(r)
              /\ \A i \in 1 .. Len(applied) :
                   applied[i].run = r.run => Before(applied[i], Statement(r))
  <2>1. ~IsDone(r, r.next)
    BY <1>3, <1>14, NotYet
  <2>2. ~Exhausted(r)
    BY <1>1, <2>1 DEF Exhausted
  <2>3. ASSUME NEW i \in 1 .. Len(applied), NEW e, e = applied[i], e.run = r.run
        PROVE  Before(e, Statement(r))
    <3>1. e.cmd \in Nat /\ e.doc \in Nat
      BY <2>3, AppliedTyped
    <3>2. ~Behind(e, r)
      BY <1>3, <2>2, <2>3 DEF GoesOn
    <3>3. ASSUME e.cmd = r.cmd, r.next <= e.doc PROVE FALSE
      <4>1. Within(e, r)
        BY <1>1, <2>3, <3>1, <3>2, <3>3 DEF Within, Behind
      <4>2. r.next \in r.lo .. e.doc
        BY <1>1, <3>1, <3>3
      <4>3. Has(r, r.next)
        BY <1>3, <2>3, <4>1, <4>2 DEF FirstPart
      <4> QED BY <2>1, <4>3 DEF IsDone
    <3> QED BY <1>1, <2>3, <3>1, <3>2, <3>3, StatementIs DEF Before, Behind
  <2> QED BY <2>1, <2>2, <2>3
<1>15. ASSUME ~IsBad(r, r.next), NEW x \in InFlight', Within(Statement(r), x)
       PROVE  \A d \in x.lo .. r.next : Has(x, d)'
  <2>1. x.run = r.run /\ x.cmd = r.cmd /\ x.lo = r.lo /\ x.hi = r.hi /\ x.txn = r.txn
    <3>1. CASE x \in InFlight
      <4>1. x.run = r.run /\ x.cmd = r.cmd /\ x.lo <= r.next /\ r.next <= x.hi
        BY <1>15, StatementIs DEF Within
      <4>2. x.lo \in Nat /\ x.hi \in Nat
        BY <3>1, Ranges
      <4>3. Overlap(x, r)
        BY <1>1, <4>1, <4>2 DEF Overlap
      <4> QED BY <3>1, <4>1, <4>3 DEF Numbered
    <3>2. CASE x = q
      BY <1>2, <3>2
    <3> QED BY <3>1, <3>2
  <2>2. ASSUME NEW d \in r.lo .. r.next PROVE Has(r, d)'
    <3>1. CASE d = r.next
      BY <1>10, <1>15, <3>1
    <3>2. CASE d < r.next
      <4>1. d \in r.lo .. r.hi /\ d \in Int
        BY <1>1, <3>2
      <4>2. IsDone(r, d)
        BY <1>3, <3>2, <4>1 DEF FirstPart
      <4>3. ASSUME NEW b \in r.lo .. d PROVE ~IsBad(r, b)
        <5>1. b \in r.lo .. r.hi /\ b < r.next
          BY <1>1, <3>2, <4>1
        <5> QED BY <1>3, <5>1 DEF FirstPart
      <4> QED BY <1>5, <4>2, <4>3 DEF IsDone
    <3> QED BY <1>1, <3>1, <3>2
  <2> QED BY <1>9, <2>1, <2>2
<1>16. ASSUME NEW x \in InFlight', NEW i \in 1 .. Len(applied), NEW e, e = applied[i],
              Within(e, x)
       PROVE  \A d \in x.lo .. e.doc : Has(x, d)'
  <2>1. CASE x \in InFlight
    BY <1>3, <1>5, <1>16, <2>1 DEF FirstPart
  <2>2. CASE x = q
    <3>1. Within(e, r)
      BY <1>2, <1>16, <2>2 DEF Within
    <3>2. \A d \in r.lo .. e.doc : Has(r, d)
      BY <1>3, <1>16, <3>1 DEF FirstPart
    <3> QED BY <1>2, <1>5, <1>9, <2>2, <3>2
  <2> QED BY <2>1, <2>2
<1>17. FirstPart'
  <2>1. ASSUME NEW x \in InFlight', NEW d \in x.lo .. x.hi, d < x.next
        PROVE  IsDone(x, d)' /\ (x.next <= x.hi => ~IsBad(x, d)')
    <3>1. CASE x \in InFlight
      BY <1>3, <1>4, <1>6, <2>1, <3>1 DEF FirstPart
    <3>2. CASE x = q
      <4>1. IsDone(r, d)' /\ (q.next <= q.hi => ~IsBad(r, d))
        BY <1>2, <1>11, <2>1, <3>2
      <4>2. IsBad(q, d)' <=> IsBad(r, d)
        BY <1>2, <1>4, SameRequest
      <4> QED BY <1>2, <1>9, <3>2, <4>1, <4>2
    <3> QED BY <3>1, <3>2
  <2>2. ASSUME NEW x \in InFlight', NEW i \in 1 .. Len(applied'), Within(applied'[i], x)
        PROVE  \A d \in x.lo .. applied'[i].doc : Has(x, d)'
    <3>1. CASE i \in 1 .. Len(applied) /\ applied'[i] = applied[i]
      BY <1>16, <2>2, <3>1
    <3>2. CASE ~IsBad(r, r.next) /\ applied'[i] = Statement(r)
      BY <1>15, <2>2, <3>2, StatementIs
    <3> QED BY <1>8, <3>1, <3>2
  <2> QED BY <2>1, <2>2 DEF FirstPart
<1>18. InOrder'
  <2>1. SUFFICES ASSUME NEW i \in 1 .. Len(applied'), NEW j \in 1 .. Len(applied'), i < j,
                        applied'[i].run = applied'[j].run
                 PROVE  Before(applied'[i], applied'[j])
    BY DEF InOrder
  <2>2. CASE i \in 1 .. Len(applied) /\ j \in 1 .. Len(applied)
             /\ applied'[i] = applied[i] /\ applied'[j] = applied[j]
    BY <1>3, <2>1, <2>2 DEF InOrder
  <2>3. CASE /\ i \in 1 .. Len(applied) /\ applied'[i] = applied[i]
             /\ applied'[j] = Statement(r) /\ ~IsBad(r, r.next) /\ ~IsKnown(Statement(r))
    BY <1>14, <2>1, <2>3, StatementIs
  <2> QED BY <1>8, <2>1, <2>2, <2>3
<1>19. ASSUME NEW x \in InFlight, NEW y \in InFlight, Precedes(x, y) PROVE Exhausted(x)
  BY <1>3, <1>19 DEF GoesOn
<1>20. ASSUME NEW x \in InFlight', NEW y \in InFlight', Precedes(x, y) PROVE Exhausted(x)'
  <2>1. ASSUME NEW z PROVE (Precedes(q, z) <=> Precedes(r, z)) /\ (Precedes(z, q) <=> Precedes(z, r))
    BY <1>2, SameRequest
  <2>2. CASE x \in InFlight
    BY <1>7, <1>19, <1>20, <2>1, <2>2
  <2>3. CASE x = q
    BY <1>12, <1>19, <1>20, <2>1, <2>3
  <2> QED BY <2>2, <2>3
<1>21. ASSUME NEW x \in InFlight', NEW e, Behind(e, x),
              (\E i \in 1 .. Len(applied) : e = applied[i]) \/ e = Statement(r)
       PROVE  Exhausted(x)'
  <2>1. CASE \E i \in 1 .. Len(applied) : e = applied[i]
    <3>1. CASE x \in InFlight
      BY <1>3, <1>7, <1>21, <2>1, <3>1 DEF GoesOn
    <3>2. CASE x = q
      <4>1. Behind(e, r)
        BY <1>2, <1>21, <3>2, SameRequest
      <4> QED BY <1>3, <1>12, <2>1, <3>2, <4>1 DEF GoesOn
    <3> QED BY <3>1, <3>2
  <2>2. CASE e = Statement(r)
    <3>1. x.run = r.run /\ (r.cmd > x.cmd \/ (r.cmd = x.cmd /\ r.next > x.hi))
      BY <1>21, <2>2, StatementIs DEF Behind
    <3>2. x # q
      BY <1>1, <1>2, <3>1
    <3>3. x \in InFlight /\ x.lo \in Nat /\ x.hi \in Nat /\ x.lo <= x.hi /\ x.cmd \in Nat
      BY <3>2, Ranges
    <3>4. Precedes(x, r)
      <4>1. CASE r.cmd > x.cmd
        BY <3>1, <4>1, <3>3, <1>1 DEF Precedes
      <4>2. CASE r.cmd = x.cmd /\ r.next > x.hi
        <5>1. ~Overlap(x, r)
          BY <1>1, <3>3, <4>2 DEF Numbered
        <5> QED BY <1>1, <3>1, <3>3, <4>2, <5>1 DEF Precedes, Overlap
      <4> QED BY <3>1, <4>1, <4>2
    <3> QED BY <1>7, <1>19, <3>3, <3>4
  <2> QED BY <1>21, <2>1, <2>2
<1>22. ASSUME NEW x \in InFlight', NEW i \in 1 .. Len(applied'), Behind(applied'[i], x)
       PROVE  Exhausted(x)'
  <2>1. (\E k \in 1 .. Len(applied) : applied'[i] = applied[k]) \/ applied'[i] = Statement(r)
    BY <1>8
  <2> QED BY <1>21, <1>22, <2>1
<1> QED BY <1>7, <1>12, <1>13, <1>17, <1>18, <1>20, <1>22

-----------------------------------------------------------------------------
(* The bulk is as it was, and no request is new. *)
LEMMA QuietIf ==
  ASSUME TypeOK, Sequential, UNCHANGED <<applied, ordered, commands>>, InFlight' \subseteq InFlight,
         ordered /\ pc' = "reply" /\ reply'.ok =>
           \A r \in late' : Overlap(r, request)' => Exhausted(r),
         ordered => \A r \in late' :
           r.run = run' /\ pc' # "idle" /\ ~Awaited(r)' /\ ~(pc' = "end" /\ result'.mustStop)
             => Exhausted(r)
  PROVE  Sequential'
<1>1. \A r \in InFlight : r.cmd \in 1 .. Len(commands') /\ r.hi <= Len(commands'[r.cmd].docs)
  BY DEF Sequential, InRange
<1>2. \A r \in InFlight : \A d \in r.lo .. r.hi : IsBad(r, d)' <=> IsBad(r, d)
  BY DEF IsBad
<1> QED BY <1>1, <1>2, QuietKeeps

(* A document more changes no document that is there, and only the last command. *)
LEMMA AddGrows ==
  ASSUME TypeOK, NEW type \in Type, NEW kind \in Kind, Add(type, kind),
         NEW c \in 1 .. Len(commands)
  PROVE  /\ c \in 1 .. Len(commands') /\ Len(commands'[c].docs) >= Len(commands[c].docs)
         /\ \A d \in 1 .. Len(commands[c].docs) : commands'[c].docs[d] = commands[c].docs[d]
         /\ c < Len(commands) => commands'[c] = commands[c]
<1> DEFINE n == Len(commands)
<1>0. n \in Nat /\ commands \in Seq(Command)
  BY DEF TypeOK
<1>1. commands[c] \in Command /\ commands[c].docs \in Seq(Kind)
      /\ Len(commands[c].docs) \in Nat
  <2>1. commands[c] \in Command
    BY <1>0
  <2> QED BY <2>1 DEF Command
<1>2. CASE n > 0 /\ commands[n].type = type /\ c = n
  <2>1. commands' = [commands EXCEPT ![n].docs = Append(@, kind)]
    BY <1>2, Zenon DEF Add
  <2>2. Len(commands') = n /\ commands'[c].docs = Append(commands[c].docs, kind)
    BY <1>0, <1>1, <1>2, <2>1 DEF Command
  <2> QED BY <1>0, <1>1, <1>2, <2>2
<1>3. CASE n > 0 /\ commands[n].type = type /\ c # n
  <2>1. commands' = [commands EXCEPT ![n].docs = Append(@, kind)]
    BY <1>3, Zenon DEF Add
  <2>2. Len(commands') = n /\ commands'[c] = commands[c]
    BY <1>0, <1>3, <2>1
  <2> QED BY <1>1, <2>2
<1>4. CASE ~(n > 0 /\ commands[n].type = type)
  <2>1. commands' = Append(commands, [type |-> type, docs |-> <<kind>>])
    BY <1>4, Zenon DEF Add
  <2>2. Len(commands') = n + 1 /\ commands'[c] = commands[c]
    BY <1>0, <2>1
  <2> QED BY <1>0, <1>1, <2>2
<1> QED BY <1>2, <1>3, <1>4

LEMMA AddKeepsOrder ==
  ASSUME TypeOK, Sequential, NEW type \in Type, NEW kind \in Kind, Add(type, kind)
  PROVE  Sequential'
<1> DEFINE n == Len(commands)
<1>0. n \in Nat /\ commands \in Seq(Command)
  BY DEF TypeOK
<1>1. /\ pc = "idle" /\ UNCHANGED <<ordered, pc, request, late, applied, canRetry>>
  BY DEF Add, servers
<1>2. ASSUME NEW c \in 1 .. n
      PROVE  /\ c \in 1 .. Len(commands') /\ Len(commands'[c].docs) >= Len(commands[c].docs)
             /\ \A d \in 1 .. Len(commands[c].docs) : commands'[c].docs[d] = commands[c].docs[d]
  BY AddGrows
<1> HIDE DEF n
<1>3. ASSUME NEW r \in InFlight
      PROVE  /\ r.cmd \in 1 .. Len(commands') /\ r.hi <= Len(commands'[r.cmd].docs)
             /\ \A d \in r.lo .. r.hi : IsBad(r, d)' <=> IsBad(r, d)
  <2>1. /\ r.cmd \in 1 .. n /\ 0 < r.lo /\ r.hi <= Len(commands[r.cmd].docs)
    BY DEF Sequential, InRange, n
  <2>2. r.hi \in Nat /\ r.lo \in Nat
    BY InFlightTyped, RequestTyped
  <2>3. commands[r.cmd] \in Command /\ Len(commands[r.cmd].docs) \in Nat
    BY <1>0, <2>1, DocsTyped DEF n
  <2>4. r.cmd \in 1 .. Len(commands') /\ Len(commands'[r.cmd].docs) >= Len(commands[r.cmd].docs)
    BY <1>2, <2>1
  <2>5. ASSUME NEW d \in r.lo .. r.hi PROVE commands'[r.cmd].docs[d] = commands[r.cmd].docs[d]
    <3>1. d \in 1 .. Len(commands[r.cmd].docs)
      BY <2>1, <2>2, <2>3
    <3> QED BY <1>2, <2>1, <3>1
  <2>6. commands' \in Seq(Command)
    BY AddTyped
  <2>7. Len(commands'[r.cmd].docs) \in Nat
    <3>1. commands'[r.cmd] \in Command
      BY <2>4, <2>6
    <3> QED BY <3>1 DEF Command
  <2>8. r.hi <= Len(commands'[r.cmd].docs)
    BY <2>1, <2>2, <2>3, <2>4, <2>7, SMTT(40)
  <2> QED BY <2>4, <2>5, <2>8 DEF IsBad
<1>4. InFlight' \subseteq InFlight
  BY <1>1 DEF InFlight
<1> QED BY <1>1, <1>3, <1>4, QuietKeeps

(* Where the loop is, nothing executed or in flight is behind what was sent. *)
LEMMA NothingBehind ==
  ASSUME TypeOK, Placed, Located, pc \in {"batch", "sent", "reply"}, NEW q,
         q.run = run, q.cmd = cmd, NEW h \in Nat, q.hi = h, sent + batch <= h
  PROVE  /\ \A i \in 1 .. Len(applied) : ~Behind(applied[i], q)
         /\ \A r \in late : ~Precedes(q, r)
<1>1. run \in Nat /\ cmd \in Nat /\ sent \in Nat /\ batch \in Nat
  BY DEF TypeOK
<1>2. ASSUME NEW i \in 1 .. Len(applied) PROVE ~Behind(applied[i], q)
  <2>1. applied[i].run \in Nat /\ applied[i].cmd \in Nat /\ applied[i].doc \in Nat
    BY AppliedTyped
  <2>2. Passed(applied[i].run, applied[i].cmd, applied[i].doc)
    BY DEF Located
  <2> QED BY <1>1, <2>1, <2>2 DEF Passed, Behind
<1>3. ASSUME NEW r \in late PROVE ~Precedes(q, r)
  <2>1. r \in InFlight
    BY DEF InFlight
  <2>2. r.run \in Nat /\ r.cmd \in Nat /\ r.lo \in Nat /\ r.hi \in Nat /\ r.lo <= r.hi
    BY <2>1, Ranges
  <2>3. Passed(r.run, r.cmd, r.hi)
    BY DEF Located
  <2> QED BY <1>1, <2>2, <2>3 DEF Passed, Precedes
<1> QED BY <1>2, <1>3

(* A request q takes the place of the last one, or joins those of the servers. *)
LEMMA SendKeepsOrder ==
  ASSUME TypeOK, Sequential, UNCHANGED <<applied, ordered, commands, late, run>>,
         pc' = "sent", NEW q, q = request', NEW l \in Nat, NEW h \in Nat,
         q.run = run, q.lo = l, q.hi = h, q.next = l, 0 < l, l <= h,
         q.cmd \in 1 .. Len(commands), h <= Len(commands[q.cmd].docs),
         \A i \in 1 .. Len(applied) : ~Behind(applied[i], q),
         \A r \in late : ~Precedes(q, r),
         ordered => \A i \in 1 .. Len(applied) :
           Within(applied[i], q) => \A d \in q.lo .. applied[i].doc : Has(q, d),
         ordered => \A r \in late : Precedes(r, q) => Exhausted(r),
         ordered => \A r \in late : r.run = run /\ ~Overlap(r, q) => Exhausted(r)
  PROVE  Sequential'
<1>1. InFlight' = late \cup {q} /\ late \subseteq InFlight
  BY DEF InFlight
<1>2. ASSUME NEW r, NEW d
      PROVE  (IsBad(r, d)' <=> IsBad(r, d)) /\ (Has(r, d)' <=> Has(r, d))
             /\ (IsDone(r, d)' <=> IsDone(r, d))
  BY DEF IsBad, Has, IsDone
<1>3. ASSUME NEW r PROVE Exhausted(r)' <=> Exhausted(r)
  BY <1>2 DEF Exhausted
<1>4. InRange'
  <2>1. ASSUME NEW r \in late
        PROVE r.cmd \in 1 .. Len(commands) /\ 0 < r.lo /\ r.lo <= r.hi
              /\ r.hi <= Len(commands[r.cmd].docs)
    BY <1>1 DEF Sequential, InRange
  <2> QED BY <1>1, <2>1 DEF InRange
<1>5. ASSUME ordered PROVE InOrder'
  BY <1>5 DEF Sequential, InOrder
<1>6. ASSUME ordered PROVE FirstPart'
  <2>1. ASSUME NEW r \in late
        PROVE  /\ \A d \in r.lo .. r.hi :
                    d < r.next => IsDone(r, d) /\ (r.next <= r.hi => ~IsBad(r, d))
               /\ \A i \in 1 .. Len(applied) :
                    Within(applied[i], r) => \A d \in r.lo .. applied[i].doc : Has(r, d)
    BY <1>1, <1>6 DEF Sequential, FirstPart
  <2>2. ASSUME NEW d \in q.lo .. q.hi PROVE ~(d < q.next)
    BY <2>2
  <2>3. SUFFICES ASSUME NEW r \in late \cup {q}
                 PROVE  /\ \A d \in r.lo .. r.hi :
                             d < r.next => IsDone(r, d) /\ (r.next <= r.hi => ~IsBad(r, d))
                        /\ \A i \in 1 .. Len(applied) :
                             Within(applied[i], r) => \A d \in r.lo .. applied[i].doc : Has(r, d)
    BY <1>1, <1>2, <2>3 DEF FirstPart
  <2>4. CASE r \in late
    BY <2>1, <2>4
  <2>5. CASE r = q
    BY <1>6, <2>2, <2>5
  <2> QED BY <2>3, <2>4, <2>5
<1>7. ASSUME ordered PROVE GoesOn'
  <2>1. ASSUME NEW r \in late \cup {q}, NEW i \in 1 .. Len(applied), Behind(applied[i], r)
        PROVE  Exhausted(r)
    BY <1>1, <1>7, <2>1 DEF Sequential, GoesOn
  <2>2. ~Precedes(q, q)
    BY DEF Precedes
  <2>3. ASSUME NEW r \in late \cup {q}, NEW x \in late \cup {q}, Precedes(r, x)
        PROVE  Exhausted(r)
    <3>1. r \in late
      BY <2>2, <2>3
    <3>2. CASE x \in late
      BY <1>1, <1>7, <2>3, <3>1, <3>2 DEF Sequential, GoesOn
    <3>3. CASE x = q
      BY <1>7, <2>3, <3>1, <3>3
    <3> QED BY <3>2, <3>3
  <2>4. ASSUME NEW r \in late, r.run = run, ~Awaited(r)' PROVE Exhausted(r)
    <3>1. ~Overlap(r, q)
      BY <2>4 DEF Awaited, Overlap
    <3> QED BY <1>7, <2>4, <3>1
  <2> QED BY <1>1, <1>3, <2>1, <2>3, <2>4 DEF GoesOn
<1> QED BY <1>4, <1>5, <1>6, <1>7 DEF Sequential

LEMMA OrderKeeps == IInv /\ Sequential /\ [Next]_vars => Sequential'
<1> SUFFICES ASSUME IInv, Sequential, [Next]_vars PROVE Sequential'
  OBVIOUS
<1>0. /\ TypeOK /\ Placed /\ Located /\ Numbered /\ InRange
      /\ run \in Nat /\ cmd \in Nat /\ sent \in Nat /\ batch \in Nat
      /\ ordered \in BOOLEAN /\ canRetry \in BOOLEAN
  BY DEF IInv, TypeOK, Sequential
<1>1. ASSUME ordered PROVE InOrder /\ FirstPart /\ GoesOn
  BY <1>1 DEF Sequential
<1>2. ASSUME ordered, NEW r \in late, r.run = run, pc # "idle", ~Awaited(r),
             ~(pc = "end" /\ result.mustStop)
      PROVE  Exhausted(r)
  BY <1>1, <1>2 DEF GoesOn
<1>3. late \subseteq InFlight
  BY DEF InFlight
<1>4. ASSUME NEW r \in late
      PROVE  r.run \in Nat /\ r.cmd \in Nat /\ r.lo \in Nat /\ r.hi \in Nat /\ r.lo <= r.hi
             /\ Passed(r.run, r.cmd, r.hi)
  BY <1>0, <1>3, Ranges DEF Located
<1>5. ASSUME NEW type \in Type, NEW kind \in Kind, Add(type, kind) PROVE Sequential'
  BY <1>0, <1>5, AddKeepsOrder
<1>6. ASSUME Execute PROVE Sequential'
  <2>1. /\ pc = "idle" /\ run' = run + 1 /\ pc' \in {"idle", "stream"}
        /\ UNCHANGED <<ordered, commands, request, late, applied, canRetry>>
    BY <1>6, Zenon DEF Execute, Return, servers
  <2>2. InFlight' \subseteq InFlight
    BY <2>1 DEF InFlight
  <2>3. ASSUME NEW r \in late PROVE r.run # run'
    <3>1. r.run <= run
      BY <1>0, <1>4 DEF Passed
    <3> QED BY <1>0, <1>4, <2>1, <3>1
  <2> QED BY <1>0, <2>1, <2>2, <2>3, QuietIf
<1>7. ASSUME \/ GetStream \/ NoStream
             \/ \E n \in 0 .. MaxBatch : TooLarge(n)
             \/ \E n \in 1 .. MaxBatch : Ship(n) /\ pc' = "crashed"
      PROVE  Sequential'
  <2>1. /\ pc \in {"stream", "batch"} /\ pc' \in {"idle", "batch", "end", "crashed"}
        /\ UNCHANGED <<ordered, commands, run, request, late, applied, canRetry>>
    BY <1>7 DEF GetStream, NoStream, TooLarge, Ship, Return, place, servers
  <2>2. InFlight' \subseteq InFlight
    BY <2>1 DEF InFlight
  <2>3. \A r \in late : ~Awaited(r)
    BY <2>1 DEF Awaited
  <2>4. ordered => \A r \in late' : r.run = run' => Exhausted(r)
    BY <1>2, <2>1, <2>3
  <2> QED BY <1>0, <2>1, <2>2, <2>4, QuietIf
<1>8. ASSUME NEW n \in 1 .. MaxBatch, Ship(n), pc' = "sent" PROVE Sequential'
  <2>1. /\ pc = "batch" /\ batch = 0 /\ n \in Nat \ {0}
        /\ sent + n <= Len(commands[cmd].docs) /\ cmd \in 1 .. Len(commands)
        /\ UNCHANGED <<ordered, commands, run, late, applied>>
    BY <1>0, <1>8, BatchGoes DEF Collected, Placed, Docs
  <2>2. PICK l \in Nat, h \in Nat : l = sent + 1 /\ h = sent + n
    BY <1>0, <2>1
  <2>3. PICK q : q = request'
    OBVIOUS
  <2>4. q.run = run /\ q.cmd = cmd /\ q.lo = l /\ q.hi = h /\ q.next = l
    BY <1>0, <1>8, <2>2, <2>3, BatchGoes
  <2>5. 0 < l /\ l <= h /\ h <= Len(commands[cmd].docs) /\ sent + batch <= h
    BY <1>0, <2>1, <2>2
  <2>6. /\ \A i \in 1 .. Len(applied) : ~Behind(applied[i], q)
        /\ \A r \in late : ~Precedes(q, r)
    BY <1>0, <2>1, <2>4, <2>5, NothingBehind
  <2>7. \A i \in 1 .. Len(applied) : ~Within(applied[i], q)
    BY <1>0, <2>1, <2>2, <2>4, NothingAhead
  <2>8. ordered => \A r \in late : r.run = run => Exhausted(r)
    <3>1. \A r \in late : ~Awaited(r)
      BY <2>1 DEF Awaited
    <3> QED BY <1>2, <2>1, <3>1
  <2>9. \A r \in late : Precedes(r, q) => r.run = run
    BY <2>4 DEF Precedes
  <2> QED BY <1>0, <1>8, <2>1, <2>3, <2>4, <2>5, <2>6, <2>7, <2>8, <2>9, SendKeepsOrder
<1>9. ASSUME Retry PROVE Sequential'
  <2>1. /\ pc = "reply" /\ pc' = "sent" /\ canRetry /\ request' = Again
        /\ UNCHANGED <<ordered, commands, run, late, applied>>
    BY <1>9 DEF Retry, MayRetry, place, servers
  <2>2. /\ request \in InFlight /\ request \in Request
        /\ request.lo \in Nat /\ request.hi \in Nat
        /\ request.run = run /\ request.cmd = cmd /\ request.hi = sent + batch
    BY <1>0, <2>1, Fields DEF InFlight, Placed, TypeOK
  <2>3. request.cmd \in 1 .. Len(commands) /\ 0 < request.lo /\ request.lo <= request.hi
        /\ request.hi <= Len(commands[request.cmd].docs)
    BY <1>0, <2>2 DEF InRange
  <2>4. PICK q : q = request'
    OBVIOUS
  <2>5. /\ q.run = request.run /\ q.cmd = request.cmd /\ q.lo = request.lo /\ q.hi = request.hi
        /\ q.next = request.lo /\ q.txn = request.txn
    BY <2>1, <2>2, <2>4 DEF Again, Request
  <2>6. sent + batch <= request.hi
    BY <2>2
  <2>7. /\ \A i \in 1 .. Len(applied) : ~Behind(applied[i], q)
        /\ \A r \in late : ~Precedes(q, r)
    BY <1>0, <2>1, <2>2, <2>5, <2>6, NothingBehind
  <2>8. /\ \A d : Has(q, d) <=> Has(request, d)
        /\ \A x : Overlap(x, q) <=> Overlap(x, request)
        /\ \A x : Precedes(x, q) <=> Precedes(x, request)
        /\ \A e : Within(e, q) <=> Within(e, request)
    BY <2>5, SameRequest
  <2>9. ordered => \A i \in 1 .. Len(applied) :
          Within(applied[i], q) => \A d \in q.lo .. applied[i].doc : Has(q, d)
    BY <1>1, <2>2, <2>5, <2>8 DEF FirstPart
  <2>10. ordered => \A r \in late : Precedes(r, q) => Exhausted(r)
    BY <1>1, <1>3, <2>2, <2>8 DEF GoesOn
  <2>11. ordered => \A r \in late : r.run = run /\ ~Overlap(r, q) => Exhausted(r)
    <3>1. \A r \in late : ~Overlap(r, q) => ~Awaited(r)
      BY <2>8 DEF Awaited
    <3> QED BY <1>2, <2>1, <3>1
  <2> QED BY <1>0, <2>1, <2>2, <2>3, <2>4, <2>5, <2>7, <2>9, <2>10, <2>11, SendKeepsOrder
<1>10. ASSUME Answered \/ Failed \/ Lost PROVE Sequential'
  <2>1. /\ pc = "sent" /\ pc' = "reply"
        /\ UNCHANGED <<ordered, commands, run, applied, request, canRetry>>
        /\ reply'.ok => Served(request) /\ late' = late
        /\ late' = late \/ late' = late \cup Unfinished(request)
    BY <1>0, <1>10, ReplyComes
  <2>2. late' \subseteq late \cup {request} /\ request \in InFlight
    BY <2>1 DEF Unfinished, InFlight
  <2>3. InFlight' \subseteq InFlight
    BY <2>1, <2>2 DEF InFlight
  <2>4. /\ request.lo \in Nat /\ request.hi \in Nat /\ request.next \in Nat
        /\ request.lo <= request.hi
    BY <1>0, <2>2, Ranges
  <2>5. ASSUME ordered, reply'.ok, NEW r \in late', Overlap(r, request)' PROVE Exhausted(r)
    <3>1. r \in late /\ r \in InFlight /\ Overlap(r, request) /\ request.next > request.hi
      BY <1>3, <2>1, <2>5 DEF Overlap, Served
    <3>2. r.run = request.run /\ r.cmd = request.cmd
      BY <3>1 DEF Overlap
    <3>3. r.txn = request.txn /\ r.lo = request.lo /\ r.hi = request.hi
      BY <1>0, <2>2, <3>1 DEF Numbered
    <3>4. \A d : IsDone(r, d) <=> IsDone(request, d)
      BY <3>2, <3>3, SameRequest
    <3>5. r.next \in Nat /\ r.lo <= r.next
      BY <1>0, <3>1, Ranges
    <3>6. ASSUME NEW d \in r.next .. r.hi PROVE IsDone(r, d)
      <4>1. d \in request.lo .. request.hi /\ d < request.next
        BY <2>4, <3>1, <3>3, <3>5
      <4>2. IsDone(request, d)
        BY <1>1, <2>2, <2>5, <4>1 DEF FirstPart
      <4> QED BY <3>4, <4>2
    <3> QED BY <3>6 DEF Exhausted
  <2>6. ASSUME ordered, NEW r \in late', r.run = run', ~Awaited(r)' PROVE Exhausted(r)
    <3>1. ~Overlap(r, request)
      BY <2>1, <2>6 DEF Awaited, Overlap
    <3>2. Overlap(request, request)
      BY <2>4 DEF Overlap
    <3>3. r \in late /\ ~Awaited(r)
      BY <2>2, <3>1, <3>2 DEF Awaited
    <3> QED BY <1>2, <2>1, <2>6, <3>3
  <2> QED BY <1>0, <2>1, <2>3, <2>5, <2>6, QuietIf
<1>11. ASSUME Settle PROVE Sequential'
  <2>1. /\ pc = "reply" /\ pc' \in {"batch", "end"}
        /\ UNCHANGED <<ordered, commands, run, request, reply, late, applied>>
        /\ pc' = IF sent < Len(Docs) /\ ~Merged.mustStop THEN "batch" ELSE "end"
        /\ result' = Merged
    BY <1>0, <1>11, BatchSettles
  <2>2. InFlight' \subseteq InFlight
    BY <2>1 DEF InFlight
  <2>3. ASSUME ordered, NEW r \in late, r.run = run, ~(pc' = "end" /\ result'.mustStop)
        PROVE  Exhausted(r)
    <3>1. Merged.mustStop = (result.mustStop \/ MustStop)
      BY <1>0, <2>1, MergedTyped
    <3>2. reply.ok
      BY <2>1, <2>3, <3>1 DEF MustStop
    <3>3. CASE Overlap(r, request)
      BY <1>1, <2>1, <2>3, <3>2, <3>3 DEF GoesOn
    <3>4. CASE ~Overlap(r, request)
      BY <1>2, <2>1, <2>3, <3>4 DEF Awaited
    <3> QED BY <3>3, <3>4
  <2> QED BY <1>0, <2>1, <2>2, <2>3, QuietIf
<1>12. ASSUME EndCommand PROVE Sequential'
  <2>1. /\ pc = "end" /\ pc' \in {"idle", "stream"}
        /\ UNCHANGED <<ordered, commands, run, request, late, applied, canRetry>>
        /\ pc' = "stream" => ~StopsBulk
    BY <1>12 DEF EndCommand, Return, servers
  <2>2. InFlight' \subseteq InFlight
    BY <2>1 DEF InFlight
  <2>3. ASSUME ordered, pc' = "stream", NEW r \in late, r.run = run PROVE Exhausted(r)
    <3>1. ~result.failed
      BY <2>1, <2>3 DEF StopsBulk
    <3>2. ~result.mustStop
      BY <3>1 DEF IInv, Accounted
    <3>3. ~Awaited(r)
      BY <2>1 DEF Awaited
    <3> QED BY <1>2, <2>1, <2>3, <3>2, <3>3
  <2> QED BY <1>0, <2>1, <2>2, <2>3, QuietIf
(* A server step that is not ordered keeps the ranges. *)
<1>13. ASSUME NEW r \in InFlight, NEW q, q = Progress(r), UNCHANGED commands,
              \A x \in InFlight' : x \in InFlight \/ x = q
       PROVE  InRange'
  <2>1. r \in Request
    BY <1>0, InFlightTyped
  <2>2. q.cmd = r.cmd /\ q.lo = r.lo /\ q.hi = r.hi
    BY <1>13, <2>1, ProgressTyped
  <2>3. q.cmd \in 1 .. Len(commands) /\ 0 < q.lo /\ q.lo <= q.hi
        /\ q.hi <= Len(commands[q.cmd].docs)
    BY <1>0, <2>2 DEF InRange
  <2> QED BY <1>0, <1>13, <2>3 DEF InRange
<1>14. ASSUME Serve PROVE Sequential'
  <2>1. /\ pc = "sent" /\ pc' = "sent" /\ applied' = Effect(request) /\ request' = Progress(request)
        /\ UNCHANGED <<ordered, commands, run, late>> /\ ~(request.next > request.hi)
    BY <1>14 DEF Serve, Served, place
  <2>2. request \in InFlight /\ request \in Request
    BY <1>0, <2>1 DEF InFlight, TypeOK
  <2>3. request.next <= request.hi
    BY <2>1, <2>2, RequestTyped
  <2>4. PICK q : q = Progress(request)
    OBVIOUS
  <2>5. \A x \in InFlight' : x \in InFlight \/ x = q
    BY <2>1, <2>4 DEF InFlight
  <2>6. CASE ~ordered
    <3>1. InRange'
      BY <1>13, <2>1, <2>2, <2>4, <2>5
    <3> QED BY <2>1, <2>6, <3>1 DEF Sequential
  <2>7. CASE ordered
    <3>1. /\ InRange' /\ InOrder' /\ FirstPart'
          /\ \A x \in InFlight' : \A i \in 1 .. Len(applied') :
               Behind(applied'[i], x) => Exhausted(x)'
          /\ \A x, y \in InFlight' : Precedes(x, y) => Exhausted(x)'
          /\ \A x \in InFlight : Exhausted(x) => Exhausted(x)'
      BY <1>0, <2>1, <2>2, <2>3, <2>4, <2>5, <2>7, StepKeepsOrder
    <3>2. ASSUME NEW r \in late', r.run = run', ~Awaited(r)' PROVE Exhausted(r)'
      <4>1. q.run = request.run /\ q.cmd = request.cmd /\ q.lo = request.lo /\ q.hi = request.hi
            /\ q.txn = request.txn
        BY <2>2, <2>4, ProgressTyped
      <4>2. Overlap(r, q) <=> Overlap(r, request)
        BY <4>1, SameRequest
      <4>3. ~Overlap(r, q)
        BY <2>1, <2>4, <3>2 DEF Awaited, Overlap
      <4>4. r \in late /\ ~Awaited(r)
        BY <2>1, <4>2, <4>3 DEF Awaited
      <4> QED BY <1>2, <1>3, <2>1, <2>7, <3>1, <3>2, <4>4
    <3>3. GoesOn'
      BY <2>1, <3>1, <3>2 DEF GoesOn
    <3> QED BY <3>1, <3>3 DEF Sequential
  <2> QED BY <1>0, <2>6, <2>7
<1>15. ASSUME NEW r \in late, ServeLate(r) PROVE Sequential'
  <2>1. /\ applied' = Effect(r) /\ late' = (late \ {r}) \cup Unfinished(Progress(r))
        /\ UNCHANGED <<ordered, commands, run, pc, request, reply, result, canRetry>>
    BY <1>15 DEF ServeLate, place
  <2>2. r \in InFlight /\ r \in Request /\ r.next <= r.hi
    BY <1>0, <1>3 DEF Located, TypeOK
  <2>3. PICK q : q = Progress(r)
    OBVIOUS
  <2>4. late' \subseteq late \cup {q}
    BY <2>1, <2>3 DEF Unfinished
  <2>5. \A x \in InFlight' : x \in InFlight \/ x = q
    BY <2>1, <2>4 DEF InFlight
  <2>6. CASE ~ordered
    <3>1. InRange'
      BY <1>13, <2>1, <2>2, <2>3, <2>5
    <3> QED BY <2>1, <2>6, <3>1 DEF Sequential
  <2>7. CASE ordered
    <3>1. /\ InRange' /\ InOrder' /\ FirstPart'
          /\ \A x \in InFlight' : \A i \in 1 .. Len(applied') :
               Behind(applied'[i], x) => Exhausted(x)'
          /\ \A x, y \in InFlight' : Precedes(x, y) => Exhausted(x)'
          /\ \A x \in InFlight : Exhausted(x) => Exhausted(x)'
          /\ Exhausted(r) => Exhausted(q)'
      BY <1>0, <2>1, <2>2, <2>3, <2>5, <2>7, StepKeepsOrder
    <3>2. q.run = r.run /\ q.cmd = r.cmd /\ q.lo = r.lo /\ q.hi = r.hi /\ q.txn = r.txn
      BY <2>2, <2>3, ProgressTyped
    <3>3. \A x : Overlap(q, x) <=> Overlap(r, x)
      BY <3>2, SameRequest
    <3>4. ASSUME NEW x \in late', pc = "reply", reply.ok, Overlap(x, request) PROVE Exhausted(x)'
      <4>1. CASE x \in late
        BY <1>1, <1>3, <2>7, <3>1, <3>4, <4>1 DEF GoesOn
      <4>2. CASE x = q
        <5>1. Overlap(r, request)
          BY <3>3, <3>4, <4>2
        <5> QED BY <1>1, <2>7, <3>1, <3>4, <4>2, <5>1 DEF GoesOn
      <4> QED BY <2>4, <4>1, <4>2
    <3>5. ASSUME NEW x \in late', x.run = run, pc # "idle", ~Awaited(x),
                 ~(pc = "end" /\ result.mustStop)
          PROVE  Exhausted(x)'
      <4>1. CASE x \in late
        BY <1>2, <1>3, <2>7, <3>1, <3>5, <4>1
      <4>2. CASE x = q
        <5>1. ~Awaited(r) /\ r.run = run
          BY <3>2, <3>3, <3>5, <4>2 DEF Awaited
        <5>2. Exhausted(r)
          BY <1>2, <2>7, <3>5, <5>1
        <5> QED BY <3>1, <4>2, <5>2
      <4> QED BY <2>4, <4>1, <4>2
    <3>6. ASSUME NEW x PROVE (Awaited(x)' <=> Awaited(x)) /\ (Overlap(x, request)' <=> Overlap(x, request))
      BY <2>1 DEF Awaited, Overlap
    <3>7. GoesOn'
      BY <2>1, <3>1, <3>4, <3>5, <3>6 DEF GoesOn
    <3> QED BY <3>1, <3>7 DEF Sequential
  <2> QED BY <1>0, <2>6, <2>7
<1>16. ASSUME UNCHANGED vars PROVE Sequential'
  <2>1. UNCHANGED <<ordered, commands, run, pc, request, reply, late, applied, result, canRetry>>
    BY <1>16 DEF vars
  <2>2. InFlight' \subseteq InFlight
    BY <2>1 DEF InFlight
  <2>3. ASSUME NEW r PROVE (Awaited(r)' <=> Awaited(r)) /\ (Overlap(r, request)' <=> Overlap(r, request))
    BY <2>1 DEF Awaited, Overlap
  <2>4. ordered => \A r \in late' :
          r.run = run' /\ pc' # "idle" /\ ~Awaited(r)' /\ ~(pc' = "end" /\ result'.mustStop)
            => Exhausted(r)
    BY <1>2, <2>1, <2>3
  <2>5. ordered /\ pc' = "reply" /\ reply'.ok =>
          \A r \in late' : Overlap(r, request)' => Exhausted(r)
    BY <1>1, <2>1, <2>3 DEF GoesOn
  <2> QED BY <1>0, <2>1, <2>2, <2>4, <2>5, QuietIf
<1>17. ASSUME NEW n \in 1 .. MaxBatch, Ship(n) PROVE Sequential'
  <2>1. pc' = "sent" \/ pc' = "crashed"
    BY <1>0, <1>17, BatchGoes
  <2> QED BY <1>7, <1>8, <1>17, <2>1
<1> QED
  BY <1>5, <1>6, <1>7, <1>9, <1>10, <1>11, <1>12, <1>14, <1>15, <1>16, <1>17 DEF Next, Step

LEMMA InitOrder == Init => Sequential
<1> SUFFICES ASSUME Init PROVE Sequential
  OBVIOUS
<1>1. late = {} /\ pc = "idle" /\ applied = <<>>
  BY DEF Init
<1>2. InFlight = {} /\ Len(applied) = 0
  BY <1>1, EmptySeq DEF InFlight
<1>3. 1 .. Len(applied) = {}
  BY <1>2
<1> QED BY <1>1, <1>2, <1>3 DEF Sequential, InRange, InOrder, FirstPart, GoesOn

(* The servers execute the documents of an ordered bulk in the order of the script, for
   bulks of any size: no batch is sent while one before it may be executed later
   (mongoc-write-command.c:511-660, mongoc-bulk-operation.c:834-857). *)
THEOREM ExecutedInOrder == Spec => []InOrder
<1>1. Init => IInv /\ Sequential
  BY InitInvariant, InitOrder
<1>2. IInv /\ Sequential /\ [Next]_vars => (IInv /\ Sequential)'
  BY InvariantKeeps, OrderKeeps
<1>3. IInv /\ Sequential => InOrder
  BY DEF Sequential, InOrder
<1> QED BY <1>1, <1>2, <1>3, PTL DEF Spec


-----------------------------------------------------------------------------
(* The documents that were executed, and the indices and counts of the result. *)

Clean(c) ==
  \A d \in 1 .. Len(commands[c].docs) : commands[c].docs[d] \notin {"bad", "large"}

(* What was executed are documents of the script that a server accepts, and no
   document above the maximal size is in a request. *)
Valid ==
  /\ \A i \in 1 .. Len(applied) :
       /\ applied[i].cmd \in 1 .. Len(commands)
       /\ applied[i].doc \in 1 .. Len(commands[applied[i].cmd].docs)
       /\ commands[applied[i].cmd].docs[applied[i].doc] \notin {"bad", "large"}
  /\ \A r \in InFlight : \A d \in r.lo .. r.hi : commands[r.cmd].docs[d] # "large"

(* An ordered bulk leaves a command only when all of it can be written. *)
Cleared ==
  ordered =>
    /\ LaterCommandsStay
    /\ \A r \in InFlight : \A c \in 1 .. r.cmd - 1 : Clean(c)
    /\ pc # "idle" => \A c \in 1 .. cmd - 1 : Clean(c)

(* The absolute index of the batch; and what was counted while nothing failed. *)
Sums ==
  pc # "idle" =>
    /\ offset = Start(cmd)
    /\ pc = "batch" => index = offset + sent
    /\ pc \in {"sent", "reply"} => index + 1 = offset + request.lo
    /\ ~result.failed =>
         /\ pc = "stream" => result.counted = offset
         /\ pc = "batch" => result.counted = offset + sent
         /\ pc \in {"sent", "reply"} => result.counted = index
         /\ pc = "end" => result.counted = offset + Len(Docs)

Totals == Valid /\ Cleared /\ Sums /\ RefusedAreBad /\ CountIsComplete


-----------------------------------------------------------------------------
(* Start adds up the documents of the commands before one. *)

SumOf(cs, n, f) ==
  f = [i \in 0 .. n |-> IF i = 0 THEN 0 ELSE f[i - 1] + Len(cs[i].docs)]

LEMMA SumExists == ASSUME NEW cs, NEW n \in Nat PROVE \E f : SumOf(cs, n, f)
<1> DEFINE S == {m \in Nat : \E f : SumOf(cs, m, f)}
<1>1. 0 \in S
  <2> DEFINE f == [i \in 0 .. 0 |-> 0]
  <2>1. f = [i \in 0 .. 0 |-> IF i = 0 THEN 0 ELSE f[i - 1] + Len(cs[i].docs)]
    OBVIOUS
  <2> QED BY <2>1 DEF SumOf
<1>2. ASSUME NEW m \in S PROVE m + 1 \in S
  <2>1. m \in Nat /\ m + 1 \in Nat
    OBVIOUS
  <2>2. PICK q : SumOf(cs, m, q)
    OBVIOUS
  <2> DEFINE Next1(f, i) == IF i = 0 THEN 0 ELSE f[i - 1] + Len(cs[i].docs)
             p == [i \in 0 .. m + 1 |-> IF i = m + 1 THEN Next1(q, i) ELSE q[i]]
  <2>3. q = [i \in 0 .. m |-> Next1(q, i)]
    BY <2>2, Zenon DEF SumOf
  <2>4. ASSUME NEW i \in 0 .. m + 1 PROVE p[i] = Next1(p, i)
    <3>1. i # 0 => i - 1 \in 0 .. m + 1 /\ i - 1 # m + 1
      BY <2>1
    <3>2. i # 0 => p[i - 1] = q[i - 1]
      BY <3>1
    <3>3. Next1(p, i) = Next1(q, i)
      <4> HIDE DEF p
      <4> QED BY <3>2
    <3>4. CASE i = m + 1
      BY <3>3, <3>4
    <3>5. CASE i # m + 1
      <4>1. i \in 0 .. m
        BY <3>5, <2>1
      <4>2. p[i] = q[i]
        BY <3>5
      <4>3. q[i] = Next1(q, i)
        <5> HIDE DEF Next1, p
        <5> QED BY <2>3, <4>1, Zenon
      <4> QED BY <3>3, <4>2, <4>3, Zenon
    <3> QED BY <3>4, <3>5
  <2>5. p = [i \in 0 .. m + 1 |-> p[i]]
    OBVIOUS
  <2>6. p = [i \in 0 .. m + 1 |-> Next1(p, i)]
    <3> HIDE DEF Next1, p
    <3> QED BY <2>4, <2>5, Zenon
  <2>7. SumOf(cs, m + 1, p)
    <3> HIDE DEF p
    <3> QED BY <2>6, Zenon DEF SumOf
  <2> QED BY <2>1, <2>7
<1> HIDE DEF S
<1>3. n \in S
  BY <1>1, <1>2, NatSetInduction DEF S
<1> QED BY <1>3 DEF S

(* Two sums agree as long as what they add up agrees. *)
LEMMA SumsAgree ==
  ASSUME NEW cs, NEW ds, NEW n \in Nat, NEW m \in Nat, NEW f, NEW g,
         SumOf(cs, n, f), SumOf(ds, m, g), NEW k \in Nat, k <= n, k <= m,
         \A i \in 1 .. k : Len(cs[i].docs) = Len(ds[i].docs)
  PROVE  f[k] = g[k]
<1> DEFINE S == {j \in Nat : j <= k => f[j] = g[j]}
<1>1. /\ \A i \in 0 .. n : f[i] = IF i = 0 THEN 0 ELSE f[i - 1] + Len(cs[i].docs)
      /\ \A i \in 0 .. m : g[i] = IF i = 0 THEN 0 ELSE g[i - 1] + Len(ds[i].docs)
  BY Zenon DEF SumOf
<1>2. 0 \in S
  BY <1>1
<1>3. ASSUME NEW j \in S PROVE j + 1 \in S
  <2>1. SUFFICES ASSUME j + 1 <= k PROVE f[j + 1] = g[j + 1]
    OBVIOUS
  <2>2. j \in Nat /\ j + 1 \in 0 .. n /\ j + 1 \in 0 .. m /\ j + 1 \in 1 .. k /\ j + 1 # 0
        /\ j + 1 - 1 = j /\ j <= k
    BY <2>1
  <2>3. f[j] = g[j]
    BY <2>2
  <2> DEFINE h == j + 1
  <2>4. f[h] = f[j] + Len(cs[h].docs) /\ g[h] = g[j] + Len(ds[h].docs)
    BY <1>1, <2>2
  <2>5. Len(cs[h].docs) = Len(ds[h].docs)
    BY <2>2
  <2> QED BY <2>3, <2>4, <2>5
<1> HIDE DEF S
<1>4. k \in S
  BY <1>2, <1>3, NatSetInduction DEF S
<1> QED BY <1>4 DEF S

(* Start, of any commands. *)
StartIn(cs, c) ==
  LET f[i \in 0 .. c - 1] == IF i = 0 THEN 0 ELSE f[i - 1] + Len(cs[i].docs)
  IN f[c - 1]

LEMMA StartIs ==
  ASSUME NEW cs, NEW c \in Nat \ {0}
  PROVE \E f : SumOf(cs, c - 1, f) /\ StartIn(cs, c) = f[c - 1]
<1> DEFINE n == c - 1
<1>1. n \in Nat
  OBVIOUS
<1> DEFINE g == CHOOSE f : f = [i \in 0 .. c - 1 |-> IF i = 0 THEN 0 ELSE f[i - 1] + Len(cs[i].docs)]
<1>2. \E f : f = [i \in 0 .. c - 1 |-> IF i = 0 THEN 0 ELSE f[i - 1] + Len(cs[i].docs)]
  <2> HIDE DEF n
  <2>1. \E f : SumOf(cs, n, f)
    BY <1>1, SumExists
  <2> QED BY <2>1, Zenon DEF SumOf, n
<1>3. g = [i \in 0 .. c - 1 |-> IF i = 0 THEN 0 ELSE g[i - 1] + Len(cs[i].docs)]
  BY <1>2, Zenon
<1>4. StartIn(cs, c) = g[c - 1]
  BY Zenon DEF StartIn
<1> HIDE DEF g
<1> QED BY <1>3, <1>4, Zenon DEF SumOf

LEMMA StartOfThese ==
  ASSUME NEW c PROVE Start(c) = StartIn(commands, c) /\ Start(c)' = StartIn(commands', c)
BY Zenon DEF Start, StartIn

LEMMA StartFirst == Start(1) = 0
<1>1. 1 \in Nat \ {0} /\ 1 - 1 = 0 /\ 0 \in 0 .. 0
  OBVIOUS
<1>2. PICK f : SumOf(commands, 1 - 1, f) /\ StartIn(commands, 1) = f[1 - 1]
  BY <1>1, StartIs
<1>3. SumOf(commands, 0, f) /\ StartIn(commands, 1) = f[0]
  BY <1>1, <1>2
<1>4. f[0] = 0
  BY <1>1, <1>3 DEF SumOf
<1> QED BY <1>3, <1>4, StartOfThese

LEMMA SumGoesOn ==
  ASSUME NEW cs, NEW n \in Nat, NEW m \in Nat, n <= m, NEW f, NEW g,
         SumOf(cs, m, f), SumOf(cs, n, g)
  PROVE  f[n] = g[n]
<1> DEFINE ds == cs
           k == n
<1>1. /\ SumOf(ds, n, g)
      /\ \A i \in 1 .. k : Len(cs[i].docs) = Len(ds[i].docs)
  OBVIOUS
<1>2. k \in Nat /\ k <= n /\ k <= m /\ k = n
  OBVIOUS
<1> HIDE DEF ds, k
<1>3. f[k] = g[k]
  BY <1>1, <1>2, SumsAgree, SMTT(40)
<1> QED BY <1>2, <1>3

LEMMA StartNext ==
  ASSUME NEW c \in Nat \ {0} PROVE Start(c + 1) = Start(c) + Len(commands[c].docs)
<1> DEFINE d == c + 1
           n == c - 1
<1>1. d \in Nat \ {0} /\ d - 1 = c /\ n \in Nat /\ n = c - 1 /\ c \in Nat /\ n <= c /\ c # 0
  OBVIOUS
<1> HIDE DEF d, n
<1>2. PICK f : SumOf(commands, d - 1, f) /\ StartIn(commands, d) = f[d - 1]
  BY <1>1, StartIs
<1>3. SumOf(commands, c, f) /\ StartIn(commands, d) = f[c]
  BY <1>1, <1>2
<1>4. PICK g : SumOf(commands, c - 1, g) /\ StartIn(commands, c) = g[c - 1]
  BY <1>1, StartIs
<1>5. SumOf(commands, n, g) /\ StartIn(commands, c) = g[n]
  BY <1>1, <1>4
<1>6. f[n] = g[n]
  BY <1>1, <1>3, <1>5, SumGoesOn
<1>7. f[c] = f[n] + Len(commands[c].docs)
  <2>1. c \in 0 .. c /\ c # 0
    BY <1>1
  <2>2. f[c] = f[c - 1] + Len(commands[c].docs)
    BY <1>3, <2>1, Zenon DEF SumOf
  <2> QED BY <1>1, <2>2
<1> QED BY <1>3, <1>5, <1>6, <1>7, StartOfThese DEF d

(* A command keeps its place when others are added behind it. *)
LEMMA SameStart ==
  ASSUME NEW cs, NEW ds, NEW c \in Nat \ {0}, \A i \in 1 .. c - 1 : cs[i] = ds[i]
  PROVE StartIn(cs, c) = StartIn(ds, c)
<1> DEFINE n == c - 1
<1>1. n \in Nat /\ n <= n
  OBVIOUS
<1>2. PICK f : SumOf(cs, c - 1, f) /\ StartIn(cs, c) = f[c - 1]
  BY StartIs
<1>3. PICK g : SumOf(ds, c - 1, g) /\ StartIn(ds, c) = g[c - 1]
  BY StartIs
<1>4. SumOf(cs, n, f) /\ SumOf(ds, n, g)
  BY <1>2, <1>3
<1>5. \A i \in 1 .. n : Len(cs[i].docs) = Len(ds[i].docs)
  OBVIOUS
<1>6. StartIn(cs, c) = f[n] /\ StartIn(ds, c) = g[n]
  BY <1>2, <1>3
<1> HIDE DEF n
<1>7. f[n] = g[n]
  BY <1>1, <1>4, <1>5, SumsAgree
<1> QED BY <1>6, <1>7

LEMMA StartStays ==
  ASSUME NEW c \in Nat \ {0}, \A i \in 1 .. c - 1 : commands'[i] = commands[i]
  PROVE Start(c)' = Start(c)
<1>1. StartIn(commands', c) = StartIn(commands, c)
  BY SameStart
<1> QED BY <1>1, StartOfThese

LEMMA StartTyped ==
  ASSUME TypeOK, NEW c \in 1 .. Len(commands) PROVE Start(c) \in Nat
<1> DEFINE S == {j \in Nat : j + 1 <= Len(commands) => Start(j + 1) \in Nat}
<1>1. Len(commands) \in Nat
  BY DEF TypeOK
<1>2. 0 \in S
  BY StartFirst
<1>3. ASSUME NEW j \in S PROVE j + 1 \in S
  <2> DEFINE k == j + 1
  <2>1. k \in Nat \ {0} /\ k + 1 \in Nat
    OBVIOUS
  <2> SUFFICES ASSUME k + 1 <= Len(commands) PROVE Start(k + 1) \in Nat
    BY <2>1
  <2>2. k <= Len(commands) /\ k \in 1 .. Len(commands)
    BY <1>1
  <2>3. Start(k) \in Nat
    BY <2>2
  <2> HIDE DEF k
  <2>4. Start(k + 1) = Start(k) + Len(commands[k].docs)
    BY <2>1, StartNext
  <2> QED BY <2>2, <2>3, <2>4, DocsTyped
<1> HIDE DEF S
<1>4. \A j \in Nat : j \in S
  BY <1>2, <1>3, NatSetInduction DEF S
<1> DEFINE m == c - 1
<1>5. m \in Nat /\ m + 1 = c /\ c <= Len(commands)
  BY <1>1
<1> HIDE DEF m
<1>6. m \in S
  BY <1>4, <1>5
<1> QED BY <1>5, <1>6 DEF S


-----------------------------------------------------------------------------
(* Each step keeps what was executed, indexed and counted. *)

LEMMA MergedCount ==
  ASSUME TypeOK, Placed, Accounted, pc = "reply"
  PROVE  /\ Merged.counted = CountAfter
         /\ ~result.failed /\ ~FailedAfter => 
              CountAfter = result.counted + (request.hi - request.lo + 1)
<1>0. /\ request.lo \in Nat /\ request.hi \in Nat /\ request.lo <= request.hi /\ result \in Result
  BY Fields DEF Placed
<1>1. Merged.counted = CountAfter
  <2> DEFINE f == FailedAfter
             m == result.mustStop \/ MustStop
             w == result.concern \/ reply.concern
             k == CountAfter
             x == result.refused \cup
                    (IF reply.ok THEN {AbsoluteIndex(d) : d \in RefusedOf(request)} ELSE {})
  <2>1. Merged = [result EXCEPT !.failed = f, !.mustStop = m, !.refused = x, !.counted = k,
                                !.concern = w]
    BY Zenon DEF Merged
  <2> HIDE DEF f, m, w, k, x
  <2>2. Merged.counted = k
    BY <1>0, <2>1 DEF Result
  <2> QED BY <2>2 DEF k
<1>2. ASSUME ~result.failed, ~FailedAfter
      PROVE  CountAfter = result.counted + (request.hi - request.lo + 1)
  <2>1. reply.ok /\ RefusedOf(request) = {}
    BY <1>2, Zenon DEF FailedAfter
  <2>2. RequestApplied /\ request.next = request.hi + 1
    BY <1>2, <2>1 DEF Accounted
  <2>3. \A d \in request.lo .. request.next - 1 : ~IsBad(request, d)
    BY <2>1, <2>2, Zenon DEF RequestApplied
  <2>4. \A d \in request.lo .. request.hi : ~IsBad(request, d)
    BY <1>0, <2>2, <2>3
  <2>5. \A d \in request.lo .. request.hi : \A e \in request.lo .. d - 1 : ~IsBad(request, e)
    BY <1>0, <2>4
  <2>6. WrittenOf(request) = request.lo .. request.hi
    BY <2>4, <2>5, Zenon DEF WrittenOf
  <2>7. Cardinality(request.lo .. request.hi) = request.hi - request.lo + 1
    BY <1>0, FS_Interval, SMTT(40)
  <2> QED BY <2>1, <2>6, <2>7, Zenon DEF CountAfter
<1> QED BY <1>1, <1>2

(* A document more: what was executed and refused stays where it is. *)
LEMMA AddKeepsTotals ==
  ASSUME TypeOK, Sequential, Totals, NEW type \in Type, NEW kind \in Kind, Add(type, kind)
  PROVE  Totals'
<1>0. Len(commands) \in Nat /\ Valid /\ Cleared /\ RefusedAreBad /\ InRange
  BY DEF TypeOK, Totals, Sequential
<1>1. /\ pc = "idle" /\ outcome' = "none"
      /\ UNCHANGED <<ordered, pc, request, late, applied, canRetry, result>>
  BY DEF Add, servers
<1>2. ASSUME NEW c \in 1 .. Len(commands)
      PROVE  /\ c \in 1 .. Len(commands') /\ c \in Nat \ {0}
             /\ \A d \in 1 .. Len(commands[c].docs) :
                  d \in 1 .. Len(commands'[c].docs) /\ commands'[c].docs[d] = commands[c].docs[d]
             /\ \A b \in 1 .. c - 1 : b \in 1 .. Len(commands) /\ commands'[b] = commands[b]
  <2>1. Len(commands[c].docs) \in Nat
    BY DocsTyped
  <2>2. commands' \in Seq(Command)
    BY AddTyped
  <2>3. c \in 1 .. Len(commands') /\ Len(commands'[c].docs) >= Len(commands[c].docs)
    BY AddGrows
  <2>4. Len(commands'[c].docs) \in Nat
    <3>1. commands'[c] \in Command
      BY <2>2, <2>3
    <3> QED BY <3>1 DEF Command
  <2>5. ASSUME NEW d \in 1 .. Len(commands[c].docs) PROVE d \in 1 .. Len(commands'[c].docs)
    BY <2>1, <2>3, <2>4
  <2>6. ASSUME NEW b \in 1 .. c - 1 PROVE b \in 1 .. Len(commands) /\ b < Len(commands)
    BY <1>0
  <2>7. ASSUME NEW b \in 1 .. c - 1 PROVE commands'[b] = commands[b]
    BY <2>6, AddGrows
  <2> QED BY <1>0, <2>3, <2>5, <2>6, <2>7, AddGrows, SMTT(40)
<1>3. InFlight' \subseteq InFlight
  BY <1>1 DEF InFlight
<1>4. ASSUME NEW r \in InFlight, NEW d \in r.lo .. r.hi
      PROVE  r.cmd \in 1 .. Len(commands) /\ d \in 1 .. Len(commands[r.cmd].docs)
  <2>1. r.cmd \in 1 .. Len(commands) /\ 0 < r.lo /\ r.hi <= Len(commands[r.cmd].docs)
    BY <1>0 DEF InRange
  <2>2. r.lo \in Nat /\ r.hi \in Nat /\ Len(commands[r.cmd].docs) \in Nat
    BY <2>1, InFlightTyped, RequestTyped, DocsTyped
  <2> QED BY <2>1, <2>2
<1>5. Valid'
  <2>1. \A i \in 1 .. Len(applied) :
          /\ applied[i].cmd \in 1 .. Len(commands')
          /\ applied[i].doc \in 1 .. Len(commands'[applied[i].cmd].docs)
          /\ commands'[applied[i].cmd].docs[applied[i].doc] \notin {"bad", "large"}
    BY <1>0, <1>2, ZenonT(60) DEF Valid
  <2>2. \A r \in InFlight : \A d \in r.lo .. r.hi : commands'[r.cmd].docs[d] # "large"
    BY <1>0, <1>2, <1>4, SMTT(40) DEF Valid
  <2> QED BY <1>1, <1>3, <2>1, <2>2 DEF Valid
<1>6. ASSUME NEW c \in 1 .. Len(commands), NEW b \in 1 .. c - 1, Clean(b) PROVE Clean(b)'
  BY <1>2, <1>6 DEF Clean
<1>7. Cleared'
  <2>1. SUFFICES ASSUME ordered
                 PROVE  LaterCommandsStay' /\ \A r \in InFlight' : \A c \in 1 .. r.cmd - 1 : Clean(c)'
    BY <1>1 DEF Cleared
  <2>2. LaterCommandsStay /\ \A r \in InFlight : \A c \in 1 .. r.cmd - 1 : Clean(c)
    BY <1>0, <2>1 DEF Cleared
  <2>3. ASSUME NEW i \in 1 .. Len(applied), NEW c \in 1 .. applied[i].cmd - 1 PROVE Clean(c)'
    <3>1. Clean(c)
      BY <2>1, <2>2 DEF LaterCommandsStay, Clean
    <3>2. applied[i].cmd \in 1 .. Len(commands)
      BY <1>0 DEF Valid
    <3> QED BY <1>6, <3>1, <3>2
  <2>4. LaterCommandsStay'
    BY <1>1, <2>3 DEF LaterCommandsStay, Clean
  <2>5. ASSUME NEW r \in InFlight, NEW c \in 1 .. r.cmd - 1 PROVE Clean(c)'
    <3>1. r.cmd \in 1 .. Len(commands)
      BY <1>0 DEF InRange
    <3> QED BY <1>6, <2>2, <3>1
  <2> QED BY <1>3, <2>4, <2>5
<1>8. RefusedAreBad'
  <2>1. SUFFICES ASSUME NEW x \in result.refused
                 PROVE  \E c \in 1 .. Len(commands') : \E d \in 1 .. Len(commands'[c].docs) :
                          x = StartIn(commands', c) + d - 1 /\ commands'[c].docs[d] = "bad"
    BY <1>1, StartOfThese DEF RefusedAreBad
  <2>2. PICK c \in 1 .. Len(commands) :
          \E d \in 1 .. Len(commands[c].docs) :
            x = Start(c) + d - 1 /\ commands[c].docs[d] = "bad"
    BY <1>0, <2>1 DEF RefusedAreBad
  <2>3. StartIn(commands', c) = Start(c)
    BY <1>2, StartStays, StartOfThese
  <2>4. PICK d \in 1 .. Len(commands[c].docs) :
          x = Start(c) + d - 1 /\ commands[c].docs[d] = "bad"
    BY <2>2
  <2>5. c \in 1 .. Len(commands')
    BY <1>2, <2>2
  <2>6. d \in 1 .. Len(commands'[c].docs) /\ commands'[c].docs[d] = commands[c].docs[d]
    BY <1>2, <2>4
  <2>7. x = StartIn(commands', c) + d - 1 /\ commands'[c].docs[d] = "bad"
    BY <2>3, <2>4, <2>6, Zenon
  <2> QED BY <2>5, <2>6, <2>7, Zenon
<1>9. Sums' /\ CountIsComplete'
  BY <1>1 DEF Sums, CountIsComplete
<1> QED BY <1>5, <1>7, <1>8, <1>9 DEF Totals

(* The commands are as they were. *)
LEMMA SameClean ==
  ASSUME UNCHANGED <<ordered, commands>>, NEW c
  PROVE  (Clean(c)' <=> Clean(c)) /\ (\A d : IsBad(c, d)' <=> IsBad(c, d))
BY DEF Clean, IsBad

LEMMA SamePlaces ==
  ASSUME UNCHANGED <<ordered, commands>>, NEW c PROVE Start(c)' = Start(c)
<1>1. StartIn(commands', c) = StartIn(commands, c)
  OBVIOUS
<1> QED BY <1>1, StartOfThese


LEMMA RefusedSame ==
  ASSUME RefusedAreBad, UNCHANGED <<ordered, commands>>, result'.refused \subseteq result.refused
  PROVE  RefusedAreBad'
<1>1. SUFFICES ASSUME NEW x \in result.refused
               PROVE  \E c \in 1 .. Len(commands) : \E d \in 1 .. Len(commands[c].docs) :
                        x = StartIn(commands, c) + d - 1 /\ commands[c].docs[d] = "bad"
  BY StartOfThese DEF RefusedAreBad
<1> QED BY StartOfThese DEF RefusedAreBad

(* No document is executed; a new request is one of the command that executes. *)
LEMMA QuietTotals ==
  ASSUME Valid, Cleared, UNCHANGED <<ordered, commands, applied>>,
         \A q \in InFlight' :
           \/ \E r \in InFlight : q.cmd = r.cmd /\ q.lo = r.lo /\ q.hi = r.hi
           \/ /\ q.cmd = cmd /\ pc # "idle"
              /\ \A d \in q.lo .. q.hi : commands[q.cmd].docs[d] # "large",
         ordered /\ pc' # "idle" => \A c \in 1 .. cmd' - 1 : Clean(c)
  PROVE  Valid' /\ Cleared'
<1>1. Valid'
  BY DEF Valid
<1>2. \A c : Clean(c)' <=> Clean(c)
  BY DEF Clean
<1>3. ASSUME ordered PROVE LaterCommandsStay'
  BY <1>3 DEF Cleared, LaterCommandsStay
<1>4. ASSUME ordered, NEW q \in InFlight', NEW c \in 1 .. q.cmd - 1 PROVE Clean(c)
  <2>1. CASE \E r \in InFlight : q.cmd = r.cmd
    BY <1>4, <2>1 DEF Cleared
  <2>2. CASE q.cmd = cmd /\ pc # "idle"
    BY <1>4, <2>2 DEF Cleared
  <2> QED BY <1>4, <2>1, <2>2
<1>5. Cleared'
  BY <1>2, <1>3, <1>4 DEF Cleared
<1> QED BY <1>1, <1>5

(* A server executes a statement of a request. *)
LEMMA ServedTotals ==
  ASSUME TypeOK, Placed, Located, InRange, Valid, Cleared, UNCHANGED <<ordered, commands, pc, cmd>>,
         NEW r \in InFlight, r.next <= r.hi, NEW q, q = Progress(r), applied' = Effect(r),
         \A x \in InFlight' : x \in InFlight \/ x = q
  PROVE  Valid' /\ Cleared'
<1>1. /\ r \in Request /\ r.cmd \in Nat /\ r.lo \in Nat /\ r.hi \in Nat /\ r.next \in Nat
      /\ r.lo <= r.next
  BY Ranges
<1>2. q.cmd = r.cmd /\ q.lo = r.lo /\ q.hi = r.hi
  BY <1>1, ProgressTyped
<1>3. \A x \in InFlight' : \E y \in InFlight : x.cmd = y.cmd /\ x.lo = y.lo /\ x.hi = y.hi
  BY <1>2
<1>4. ASSUME NEW i \in 1 .. Len(applied')
      PROVE  \/ i \in 1 .. Len(applied) /\ applied'[i] = applied[i]
             \/ ~IsBad(r, r.next) /\ applied'[i] = Statement(r)
  BY <1>1, EffectIs
<1>5. /\ r.cmd \in 1 .. Len(commands) /\ r.next \in 1 .. Len(commands[r.cmd].docs)
      /\ ~IsBad(r, r.next) => commands[r.cmd].docs[r.next] \notin {"bad", "large"}
  <2>1. r.cmd \in 1 .. Len(commands) /\ 0 < r.lo /\ r.hi <= Len(commands[r.cmd].docs)
    BY DEF InRange
  <2>2. Len(commands[r.cmd].docs) \in Nat
    BY <2>1, DocsTyped
  <2>3. r.next \in r.lo .. r.hi /\ r.next \in 1 .. Len(commands[r.cmd].docs)
    BY <1>1, <2>1, <2>2
  <2> QED BY <2>1, <2>3 DEF Valid, IsBad
<1>6. Valid'
  <2>1. ASSUME NEW i \in 1 .. Len(applied')
        PROVE  /\ applied'[i].cmd \in 1 .. Len(commands)
               /\ applied'[i].doc \in 1 .. Len(commands[applied'[i].cmd].docs)
               /\ commands[applied'[i].cmd].docs[applied'[i].doc] \notin {"bad", "large"}
    <3>1. CASE i \in 1 .. Len(applied) /\ applied'[i] = applied[i]
      BY <3>1 DEF Valid
    <3>2. CASE ~IsBad(r, r.next) /\ applied'[i] = Statement(r)
      BY <1>5, <3>2, StatementIs
    <3> QED BY <1>4, <3>1, <3>2
  <2>2. \A x \in InFlight' : \A d \in x.lo .. x.hi : commands[x.cmd].docs[d] # "large"
    BY <1>3 DEF Valid
  <2> QED BY <2>1, <2>2 DEF Valid
<1>7. \A c : Clean(c)' <=> Clean(c)
  BY DEF Clean
<1>8. ASSUME ordered, NEW i \in 1 .. Len(applied'), NEW c \in 1 .. applied'[i].cmd - 1
      PROVE  Clean(c)
  <2>1. CASE i \in 1 .. Len(applied) /\ applied'[i] = applied[i]
    BY <1>8, <2>1 DEF Cleared, LaterCommandsStay, Clean
  <2>2. CASE applied'[i] = Statement(r)
    BY <1>8, <2>2, StatementIs DEF Cleared
  <2> QED BY <1>4, <2>1, <2>2
<1>9. ASSUME ordered, NEW x \in InFlight', NEW c \in 1 .. x.cmd - 1 PROVE Clean(c)
  BY <1>3, <1>9 DEF Cleared
<1>10. ordered => LaterCommandsStay'
  BY <1>8 DEF LaterCommandsStay, Clean
<1>11. Cleared'
  BY <1>7, <1>9, <1>10 DEF Cleared
<1> QED BY <1>6, <1>11

(* The documents a reply refuses are named by their places in the bulk. *)
LEMMA RefusedPlaced ==
  ASSUME TypeOK, Placed, InRange, Sums, RefusedAreBad, pc = "reply",
         UNCHANGED <<ordered, commands>>, result' = Merged
  PROVE  RefusedAreBad'
<1>1. /\ request.lo \in Nat /\ request.hi \in Nat /\ index \in Nat /\ offset \in Nat
      /\ sent \in Nat /\ batch \in Nat /\ 0 < request.lo /\ request.hi = sent + batch
      /\ request.cmd = cmd /\ cmd \in 1 .. Len(commands) /\ sent + batch <= Len(commands[cmd].docs)
      /\ offset = Start(cmd) /\ index + 1 = offset + request.lo
  BY Fields DEF Placed, Sums, Docs
<1>2. Len(commands[cmd].docs) \in Nat
  BY <1>1, DocsTyped
<1>3. result'.refused \subseteq result.refused \cup {AbsoluteIndex(d) : d \in RefusedOf(request)}
  BY MergedTyped
<1>4. ASSUME NEW d \in RefusedOf(request)
      PROVE  /\ AbsoluteIndex(d) = StartIn(commands, cmd) + d - 1
             /\ d \in 1 .. Len(commands[cmd].docs) /\ commands[cmd].docs[d] = "bad"
  <2>1. d \in request.lo .. request.hi /\ IsBad(request, d)
    BY DEF RefusedOf
  <2>2. index + d - request.lo = offset + d - 1
    <3>1. /\ request.lo \in Nat /\ request.hi \in Nat /\ index \in Nat /\ offset \in Nat
          /\ index + 1 = offset + request.lo /\ d \in request.lo .. request.hi
      BY <1>1, <2>1, Zenon
    <3>2. d \in Int /\ index = offset + request.lo - 1
      BY <3>1
    <3> HIDE <1>1, <2>1
    <3> QED BY <3>1, <3>2
  <2>3. AbsoluteIndex(d) = Start(cmd) + d - 1
    BY <1>1, <2>2, Zenon DEF AbsoluteIndex
  <2> QED BY <1>1, <1>2, <2>1, <2>3, StartOfThese, SMTT(40) DEF IsBad
<1>5. ASSUME NEW x \in result'.refused
      PROVE  \E c \in 1 .. Len(commands) : \E d \in 1 .. Len(commands[c].docs) :
               x = StartIn(commands, c) + d - 1 /\ commands[c].docs[d] = "bad"
  <2>1. CASE x \in result.refused
    BY <2>1, StartOfThese DEF RefusedAreBad
  <2>2. CASE \E d \in RefusedOf(request) : x = AbsoluteIndex(d)
    BY <1>1, <1>4, <2>2
  <2> QED BY <1>3, <2>1, <2>2
<1> QED BY <1>5, StartOfThese DEF RefusedAreBad


LEMMA PlaceOf == Start(cmd) = StartIn(commands, cmd) /\ Start(cmd)' = StartIn(commands', cmd')
BY Zenon DEF Start, StartIn

LEMMA SumsIf ==
  ASSUME pc' # "idle" =>
           /\ offset' = StartIn(commands', cmd')
           /\ pc' = "batch" => index' = offset' + sent'
           /\ pc' \in {"sent", "reply"} => index' + 1 = offset' + request'.lo
           /\ ~result'.failed =>
                /\ pc' = "stream" => result'.counted = offset'
                /\ pc' = "batch" => result'.counted = offset' + sent'
                /\ pc' \in {"sent", "reply"} => result'.counted = index'
                /\ pc' = "end" => result'.counted = offset' + Len(commands'[cmd'].docs)
  PROVE  Sums'
BY PlaceOf, Zenon DEF Sums, Docs

(* The parts that an action leaves alone. *)
LEMMA SumsStay ==
  ASSUME Sums, pc # "idle",
         UNCHANGED <<commands, cmd, offset, index>>,
         pc' = pc /\ sent' = sent /\ request'.lo = request.lo /\ result' = result
  PROVE  Sums'
BY PlaceOf, SumsIf DEF Sums, Docs

LEMMA SettleKeepsSums ==
  ASSUME TypeOK, Placed, Accounted, Accounted', Sums, Settle
  PROVE  Sums'
<1>1. /\ pc = "reply" /\ UNCHANGED <<commands, cmd, offset, sent>> /\ result' = Merged
      /\ index' = index + (request.hi - request.lo + 1)
      /\ pc' = IF sent < Len(Docs) /\ ~Merged.mustStop THEN "batch" ELSE "end"
  BY BatchSettles DEF Settle
<1>2. /\ request.lo \in Nat /\ request.hi \in Nat /\ index \in Nat /\ offset \in Nat
      /\ sent \in Nat /\ batch = 0 /\ request.hi = sent + batch /\ sent + batch <= Len(Docs)
      /\ cmd \in 1 .. Len(commands) /\ result.counted \in Nat
  BY <1>1, Fields DEF Placed, Result
<1>3. offset = StartIn(commands, cmd) /\ index + 1 = offset + request.lo
      /\ (~result.failed => result.counted = index)
  BY <1>1, PlaceOf DEF Sums
<1>4. index + 1 = offset + request.lo
  BY <1>3
<1>5. index' = offset + sent
  <2>1. /\ request.lo \in Nat /\ request.hi \in Nat /\ index \in Nat /\ offset \in Nat
        /\ sent \in Nat /\ batch = 0 /\ request.hi = sent + batch
        /\ index' = index + (request.hi - request.lo + 1)
    BY <1>1, <1>2, Zenon
  <2>2. request.hi = sent /\ index = offset + request.lo - 1
    BY <1>4, <2>1
  <2> HIDE <1>1, <1>2, <1>3
  <2> QED BY <2>1, <2>2
<1>6. Len(Docs) \in Nat
  BY <1>2, DocsTyped DEF Docs
<1>7. ASSUME ~result'.failed PROVE result'.counted = offset + sent /\ ~result'.mustStop
  <2>1. ~result.failed /\ ~FailedAfter
    BY <1>1, <1>7, MergedTyped DEF FailedAfter
  <2>2. result'.counted = result.counted + (request.hi - request.lo + 1)
    BY <1>1, <2>1, MergedCount
  <2>3. result'.counted = index'
    BY <1>1, <1>3, <2>1, <2>2
  <2>4. ~result'.mustStop
    BY <1>7 DEF Accounted
  <2> QED BY <1>5, <2>3, <2>4
<1>8. ASSUME ~result'.failed, pc' = "end" PROVE sent = Len(Docs)
  <2>1. ~(sent < Len(Docs))
    BY <1>1, <1>7, <1>8
  <2> QED BY <1>2, <1>6, <2>1
<1> QED BY <1>1, <1>3, <1>5, <1>7, <1>8, SumsIf DEF Docs

(* The next command begins where this one ends. *)
LEMMA EndKeepsSums ==
  ASSUME TypeOK, Placed, Sums, EndCommand PROVE Sums' /\ CountIsComplete'
<1>1. pc = "end" /\ UNCHANGED commands
  BY DEF EndCommand
<1>2. /\ cmd \in 1 .. Len(commands) /\ cmd \in Nat \ {0} /\ offset \in Nat
      /\ offset = Start(cmd) /\ Start(cmd + 1) = Start(cmd) + Len(commands[cmd].docs)
      /\ ~result.failed => result.counted = offset + Len(commands[cmd].docs)
  <2>1. cmd \in 1 .. Len(commands) /\ offset \in Nat
    BY <1>1 DEF Placed, TypeOK
  <2>2. cmd \in Nat \ {0}
    BY <2>1 DEF TypeOK
  <2> QED BY <1>1, <2>1, <2>2, StartNext DEF Sums, Docs
<1>3. result \in Result
  BY DEF TypeOK
<1>4. CASE StopsBulk \/ cmd = Len(commands)
  <2>1. pc' = "idle" /\ result' = [result EXCEPT !.error = FinalError]
        /\ (outcome' = IF ~result.failed /\ FinalError = "" THEN "ok" ELSE "failed")
    BY <1>4, Zenon DEF EndCommand, Return
  <2>2. Sums'
    BY <2>1, SumsIf
  <2>3. result'.counted = result.counted
    BY <1>3, <2>1 DEF Result
  <2>4. ASSUME outcome' = "ok" PROVE result'.counted = StartIn(commands, Len(commands) + 1)
    <3>1. ~result.failed
      BY <2>1, <2>4
    <3>2. cmd = Len(commands)
      BY <1>4, <3>1 DEF StopsBulk
    <3>3. result'.counted = Start(cmd + 1)
      BY <1>2, <2>3, <3>1
    <3> QED BY <3>2, <3>3, StartOfThese
  <2>5. CountIsComplete'
    BY <1>1, <2>4, StartOfThese DEF CountIsComplete
  <2> QED BY <2>2, <2>5
<1>5. CASE ~(StopsBulk \/ cmd = Len(commands))
  <2>1. /\ pc' = "stream" /\ result' = [result EXCEPT !.error = ErrorLeft]
        /\ cmd' = cmd + 1 /\ offset' = offset + Len(Docs) /\ outcome' = outcome
    BY <1>5, Zenon DEF EndCommand
  <2>2. result'.counted = result.counted /\ result'.failed = result.failed
    BY <1>3, <2>1 DEF Result
  <2>3. offset' = StartIn(commands', cmd')
    <3>1. offset' = Start(cmd + 1)
      BY <1>2, <2>1 DEF Docs
    <3> QED BY <1>1, <2>1, <3>1, StartOfThese
  <2>4. Sums'
    BY <1>2, <2>1, <2>2, <2>3, SumsIf DEF Docs
  <2>5. CountIsComplete'
    BY <1>1, <2>1 DEF CountIsComplete, Placed
  <2> QED BY <2>4, <2>5
<1> QED BY <1>4, <1>5


LEMMA CountSame ==
  ASSUME CountIsComplete, UNCHANGED <<commands, outcome, result>> PROVE CountIsComplete'
<1>1. outcome = "ok" => result.counted = StartIn(commands, Len(commands) + 1)
  BY StartOfThese DEF CountIsComplete
<1> QED BY <1>1, StartOfThese DEF CountIsComplete

LEMMA TotalsKeep == IInv /\ IInv' /\ Sequential /\ Totals /\ [Next]_vars => Totals'
<1> SUFFICES ASSUME IInv, IInv', Sequential, Totals, [Next]_vars PROVE Totals'
  OBVIOUS
<1>0. /\ TypeOK /\ Placed /\ Located /\ Accounted /\ Accounted' /\ InRange
      /\ Valid /\ Cleared /\ Sums /\ RefusedAreBad /\ CountIsComplete
      /\ run \in Nat /\ cmd \in Nat /\ sent \in Nat /\ batch \in Nat /\ result \in Result
  BY DEF IInv, TypeOK, Sequential, Totals
<1>1. ASSUME NEW type \in Type, NEW kind \in Kind, Add(type, kind) PROVE Totals'
  BY <1>0, <1>1, AddKeepsTotals
<1>2. pc # "idle" /\ outcome' \in {"none", "failed", outcome} => CountIsComplete'
  BY <1>0 DEF Placed, CountIsComplete
<1>3. ordered /\ pc # "idle" => \A c \in 1 .. cmd - 1 : Clean(c)
  BY <1>0 DEF Cleared
<1>4. ASSUME Execute PROVE Totals'
  <2>1. /\ pc = "idle" /\ UNCHANGED <<ordered, commands, request, late, applied, canRetry>>
        /\ cmd' = 1 /\ offset' = 0 /\ pc' \in {"idle", "stream"}
        /\ outcome' \in {"failed", "none"}
    BY <1>4, Zenon DEF Execute, Return, servers
  <2>2. \E e : result' = NewResult(e)
    BY <1>4, Zenon DEF Execute
  <2>3. result'.counted = 0 /\ result'.refused = {}
    BY <2>2 DEF NewResult
  <2>4. InFlight' \subseteq InFlight /\ 1 .. cmd' - 1 = {}
    BY <2>1 DEF InFlight
  <2>5. Valid' /\ Cleared'
    BY <1>0, <2>1, <2>4, QuietTotals
  <2>6. RefusedAreBad'
    BY <1>0, <2>1, <2>3, RefusedSame
  <2>7. offset' = StartIn(commands', cmd')
    BY <2>1, StartFirst, StartOfThese
  <2>8. Sums'
    BY <2>1, <2>3, <2>7, SumsIf
  <2>9. CountIsComplete'
    BY <2>1 DEF CountIsComplete
  <2> QED BY <2>5, <2>6, <2>8, <2>9 DEF Totals
<1>5. ASSUME GetStream PROVE Totals'
  <2>1. /\ pc = "stream" /\ pc' = "batch" /\ sent' = 0 /\ index' = offset
        /\ UNCHANGED <<ordered, commands, cmd, offset, request, late, applied, canRetry, result,
                       outcome>>
    BY <1>5 DEF GetStream, servers
  <2>2. InFlight' \subseteq InFlight
    BY <2>1 DEF InFlight
  <2>3. Valid' /\ Cleared'
    BY <1>0, <1>3, <2>1, <2>2, QuietTotals
  <2>4. RefusedAreBad'
    BY <1>0, <2>1, RefusedSame
  <2>5. offset \in Nat /\ offset = StartIn(commands, cmd) /\ (~result.failed => result.counted = offset)
    BY <1>0, <2>1, PlaceOf DEF Sums, TypeOK
  <2>6. offset + 0 = offset
    BY <2>5
  <2>7. Sums'
    BY <2>1, <2>5, <2>6, SumsIf
  <2> QED BY <1>2, <2>1, <2>3, <2>4, <2>7 DEF Totals
<1>6. ASSUME NoStream PROVE Totals'
  <2>1. /\ pc = "stream" /\ pc' = "idle" /\ outcome' = "failed"
        /\ UNCHANGED <<ordered, commands, request, late, applied, canRetry, result>>
    BY <1>6 DEF NoStream, Return, servers
  <2>2. InFlight' \subseteq InFlight
    BY <2>1 DEF InFlight
  <2>3. Valid' /\ Cleared'
    BY <1>0, <2>1, <2>2, QuietTotals
  <2>4. RefusedAreBad' /\ Sums'
    BY <1>0, <2>1, RefusedSame, SumsIf
  <2> QED BY <1>2, <2>1, <2>3, <2>4 DEF Totals
<1>7. ASSUME NEW n \in 1 .. MaxBatch, Ship(n) PROVE Totals'
  <2>1. /\ n \in Nat \ {0} /\ pc = "batch" /\ Collected(n) /\ batch = 0
        /\ UNCHANGED <<ordered, commands, cmd, offset, index, sent, late, applied, result,
                       outcome>>
    BY <1>0, <1>7, BatchGoes DEF Placed
  <2>2. /\ offset = StartIn(commands, cmd) /\ index = offset + sent
        /\ (~result.failed => result.counted = offset + sent)
    BY <1>0, <2>1, PlaceOf DEF Sums
  <2>3. RefusedAreBad' /\ CountIsComplete'
    BY <1>0, <1>2, <2>1, RefusedSame
  <2>4. CASE pc' = "crashed"
    <3>1. UNCHANGED <<request, canRetry>>
      BY <1>0, <1>7, <2>4, BatchGoes
    <3>2. InFlight' \subseteq InFlight
      BY <2>1, <2>4, <3>1 DEF InFlight
    <3>3. Valid' /\ Cleared'
      BY <1>0, <1>3, <2>1, <3>2, QuietTotals
    <3>4. Sums'
      BY <2>1, <2>2, <2>4, SumsIf
    <3> QED BY <2>3, <3>3, <3>4 DEF Totals
  <2>5. CASE pc' = "sent"
    <3>1. request'.cmd = cmd /\ request'.lo = sent + 1 /\ request'.hi = sent + n
      BY <1>0, <1>7, <2>5, BatchGoes
    <3>2. \A d \in request'.lo .. request'.hi : commands[cmd].docs[d] # "large"
      BY <2>1, <3>1 DEF Collected, Docs
    <3>3. \A q \in InFlight' : q \in InFlight \/ q = request'
      BY <2>1 DEF InFlight
    <3>4. Valid' /\ Cleared'
      BY <1>0, <1>3, <2>1, <3>1, <3>2, <3>3, QuietTotals
    <3>5. index + 1 = offset + (sent + 1)
      <4>1. index \in Nat /\ offset \in Nat /\ index = offset + sent
        BY <1>0, <2>2 DEF TypeOK
      <4> QED BY <1>0, <4>1
    <3>6. Sums'
      BY <2>1, <2>2, <2>5, <3>1, <3>5, SumsIf
    <3> QED BY <2>3, <3>4, <3>6 DEF Totals
  <2> QED BY <1>0, <1>7, <2>4, <2>5, BatchGoes
<1>8. ASSUME NEW n \in 0 .. MaxBatch, TooLarge(n) PROVE Totals'
  <2>1. /\ pc = "batch" /\ pc' = "end"
        /\ result' = [result EXCEPT !.failed = TRUE, !.error = "document"]
        /\ UNCHANGED <<ordered, commands, cmd, offset, request, late, applied, canRetry, outcome>>
    BY <1>8 DEF TooLarge, place, servers
  <2>2. result'.failed /\ result'.refused = result.refused
    BY <1>0, <2>1 DEF Result
  <2>3. InFlight' \subseteq InFlight
    BY <2>1 DEF InFlight
  <2>4. Valid' /\ Cleared'
    BY <1>0, <1>3, <2>1, <2>3, QuietTotals
  <2>5. RefusedAreBad'
    BY <1>0, <2>1, <2>2, RefusedSame
  <2>6. Sums'
    <3>1. offset = StartIn(commands, cmd)
      BY <1>0, <2>1, PlaceOf DEF Sums
    <3> QED BY <2>1, <2>2, <3>1, SumsIf
  <2> QED BY <1>2, <2>1, <2>4, <2>5, <2>6 DEF Totals
<1>9. ASSUME Serve PROVE Totals'
  <2>1. /\ pc = "sent" /\ applied' = Effect(request) /\ request' = Progress(request)
        /\ ~(request.next > request.hi)
        /\ UNCHANGED <<ordered, commands, cmd, offset, index, pc, sent, canRetry, late, result,
                       outcome>>
    BY <1>9 DEF Serve, Served, place
  <2>2. request \in InFlight /\ request \in Request
    BY <1>0, <2>1 DEF InFlight, TypeOK
  <2>3. request.next <= request.hi /\ request'.lo = request.lo
    BY <2>1, <2>2, RequestTyped, ProgressTyped
  <2>4. \A x \in InFlight' : x \in InFlight \/ x = request'
    BY <2>1 DEF InFlight
  <2>5. Valid' /\ Cleared'
    BY <1>0, <2>1, <2>2, <2>3, <2>4, ServedTotals
  <2>6. RefusedAreBad' /\ Sums'
    BY <1>0, <2>1, <2>3, RefusedSame, SumsStay
  <2> QED BY <1>2, <2>1, <2>5, <2>6 DEF Totals
<1>10. ASSUME NEW r \in late, ServeLate(r) PROVE Totals'
  <2>1. /\ applied' = Effect(r) /\ late' = (late \ {r}) \cup Unfinished(Progress(r))
        /\ UNCHANGED <<ordered, commands, cmd, offset, index, pc, sent, request, canRetry, result,
                       outcome>>
    BY <1>10 DEF ServeLate, place
  <2>2. r \in InFlight /\ r \in Request /\ r.next <= r.hi
    BY <1>0 DEF InFlight, Located, TypeOK
  <2>3. PICK q : q = Progress(r)
    OBVIOUS
  <2>4. \A x \in InFlight' : x \in InFlight \/ x = q
    BY <2>1, <2>3 DEF InFlight, Unfinished
  <2>5. Valid' /\ Cleared'
    BY <1>0, <2>1, <2>2, <2>3, <2>4, ServedTotals
  <2>6. RefusedAreBad' /\ CountIsComplete'
    BY <1>0, <2>1, RefusedSame, CountSame
  <2>7. Sums'
    <3>1. CASE pc = "idle"
      BY <2>1, <3>1, SumsIf
    <3>2. CASE pc # "idle"
      BY <1>0, <2>1, <3>2, SumsStay
    <3> QED BY <3>1, <3>2
  <2> QED BY <2>5, <2>6, <2>7 DEF Totals
<1>11. ASSUME Answered \/ Failed \/ Lost PROVE Totals'
  <2>1. /\ pc = "sent" /\ pc' = "reply"
        /\ UNCHANGED <<ordered, commands, cmd, offset, index, request, canRetry, applied, outcome>>
        /\ reply'.ok => result' = result
        /\ ~reply'.ok => result' = [result EXCEPT !.error = "command"]
        /\ late' = late \/ late' = late \cup Unfinished(request)
    BY <1>0, <1>11, ReplyComes
  <2>2. /\ result'.failed = result.failed /\ result'.refused = result.refused
        /\ result'.counted = result.counted
    BY <1>0, <2>1 DEF Result
  <2>3. InFlight' \subseteq InFlight
    BY <2>1 DEF InFlight, Unfinished
  <2>4. Valid' /\ Cleared'
    BY <1>0, <1>3, <2>1, <2>3, QuietTotals
  <2>5. RefusedAreBad'
    BY <1>0, <2>1, <2>2, RefusedSame
  <2>6. /\ offset = StartIn(commands, cmd) /\ index + 1 = offset + request.lo
        /\ (~result.failed => result.counted = index)
    BY <1>0, <2>1, PlaceOf DEF Sums
  <2>7. Sums'
    BY <2>1, <2>2, <2>6, SumsIf
  <2> QED BY <1>2, <2>1, <2>4, <2>5, <2>7 DEF Totals
<1>12. ASSUME Retry PROVE Totals'
  <2>1. /\ pc = "reply" /\ pc' = "sent" /\ canRetry /\ request' = Again
        /\ UNCHANGED <<ordered, commands, cmd, offset, index, late, applied, result, outcome>>
    BY <1>12 DEF Retry, MayRetry, place, servers
  <2>2. request \in InFlight /\ request \in Request
    BY <1>0, <2>1 DEF InFlight, TypeOK
  <2>3. request'.cmd = request.cmd /\ request'.lo = request.lo /\ request'.hi = request.hi
    BY <2>1, <2>2 DEF Again, Request
  <2>4. \A q \in InFlight' : q \in InFlight \/ q = request'
    BY <2>1 DEF InFlight
  <2>5. Valid' /\ Cleared'
    BY <1>0, <1>3, <2>1, <2>2, <2>3, <2>4, QuietTotals
  <2>6. /\ offset = StartIn(commands, cmd) /\ index + 1 = offset + request.lo
        /\ (~result.failed => result.counted = index)
    BY <1>0, <2>1, PlaceOf DEF Sums
  <2>7. Sums'
    BY <2>1, <2>3, <2>6, SumsIf
  <2>8. RefusedAreBad'
    BY <1>0, <2>1, RefusedSame
  <2> QED BY <1>2, <2>1, <2>5, <2>7, <2>8 DEF Totals
<1>13. ASSUME Settle PROVE Totals'
  <2>1. /\ pc = "reply" /\ pc' \in {"batch", "end"} /\ result' = Merged
        /\ UNCHANGED <<ordered, commands, cmd, request, late, applied, outcome>>
    BY <1>0, <1>13, BatchSettles
  <2>2. InFlight' \subseteq InFlight
    BY <2>1 DEF InFlight
  <2>3. Valid' /\ Cleared'
    BY <1>0, <1>3, <2>1, <2>2, QuietTotals
  <2>4. RefusedAreBad' /\ Sums'
    BY <1>0, <1>13, <2>1, RefusedPlaced, SettleKeepsSums
  <2> QED BY <1>2, <2>1, <2>3, <2>4 DEF Totals
<1>14. ASSUME EndCommand PROVE Totals'
  <2>1. /\ pc = "end" /\ pc' \in {"idle", "stream"}
        /\ UNCHANGED <<ordered, commands, request, late, applied, canRetry>>
        /\ pc' = "stream" => ~StopsBulk /\ cmd' = cmd + 1
        /\ \E e : result' = [result EXCEPT !.error = e]
    BY <1>14, Zenon DEF EndCommand, Return, servers
  <2>2. InFlight' \subseteq InFlight
    BY <2>1 DEF InFlight
  <2>3. ASSUME ordered, pc' = "stream" PROVE Clean(cmd)
    <3>1. CommandApplied(cmd)
      BY <1>0, <2>1, <2>3 DEF StopsBulk, Accounted
    <3>2. ASSUME NEW d \in 1 .. Len(commands[cmd].docs)
          PROVE  commands[cmd].docs[d] \notin {"bad", "large"}
      <4>1. PICK i \in 1 .. Len(applied) : applied[i].cmd = cmd /\ applied[i].doc = d
        BY <3>1 DEF CommandApplied, IsApplied
      <4> QED BY <1>0, <4>1 DEF Valid
    <3> QED BY <3>2 DEF Clean
  <2>4. ASSUME ordered, pc' # "idle", NEW c \in 1 .. cmd' - 1 PROVE Clean(c)
    <3>1. pc' = "stream" /\ cmd' = cmd + 1
      BY <2>1, <2>4
    <3>2. c \in 1 .. cmd - 1 \/ c = cmd
      BY <1>0, <2>4, <3>1
    <3> QED BY <1>3, <2>1, <2>3, <2>4, <3>1, <3>2
  <2>5. Valid' /\ Cleared'
    BY <1>0, <2>1, <2>2, <2>4, QuietTotals
  <2>6. result'.refused = result.refused
    BY <1>0, <2>1 DEF Result
  <2>7. RefusedAreBad' /\ Sums' /\ CountIsComplete'
    BY <1>0, <1>14, <2>1, <2>6, RefusedSame, EndKeepsSums
  <2> QED BY <2>5, <2>7 DEF Totals
<1>15. ASSUME UNCHANGED vars PROVE Totals'
  <2>1. UNCHANGED <<ordered, commands, cmd, offset, index, pc, sent, request, late, applied,
                    canRetry, result, outcome>>
    BY <1>15 DEF vars
  <2>2. InFlight' \subseteq InFlight
    BY <2>1 DEF InFlight
  <2>3. Valid' /\ Cleared'
    BY <1>0, <1>3, <2>1, <2>2, QuietTotals
  <2>4. RefusedAreBad' /\ CountIsComplete'
    BY <1>0, <2>1, RefusedSame, CountSame
  <2>5. Sums'
    <3>1. CASE pc = "idle"
      BY <2>1, <3>1, SumsIf
    <3>2. CASE pc # "idle"
      BY <1>0, <2>1, <3>2, SumsStay
    <3> QED BY <3>1, <3>2
  <2> QED BY <2>3, <2>4, <2>5 DEF Totals
<1> QED
  BY <1>1, <1>4, <1>5, <1>6, <1>7, <1>8, <1>9, <1>10, <1>11, <1>12, <1>13, <1>14, <1>15
  DEF Next, Step

LEMMA InitTotals == Init => Totals
<1> SUFFICES ASSUME Init PROVE Totals
  OBVIOUS
<1>1. /\ late = {} /\ pc = "idle" /\ applied = <<>> /\ outcome = "none"
      /\ \E e : result = NewResult(e)
  BY Zenon DEF Init
<1>2. InFlight = {} /\ 1 .. Len(applied) = {}
  BY <1>1, EmptySeq DEF InFlight
<1>3. result.refused = {}
  BY <1>1 DEF NewResult
<1>4. Valid /\ Cleared
  BY <1>1, <1>2 DEF Valid, Cleared, LaterCommandsStay
<1>5. Sums /\ RefusedAreBad /\ CountIsComplete
  BY <1>1, <1>3 DEF Sums, RefusedAreBad, CountIsComplete
<1> QED BY <1>4, <1>5 DEF Totals

LEMMA TotalsInvariant == Spec => [](IInv /\ Sequential /\ Totals)
<1>1. Init => IInv /\ Sequential /\ Totals
  BY InitInvariant, InitOrder, InitTotals
<1>2. IInv /\ Sequential /\ Totals /\ [Next]_vars => (IInv /\ Sequential /\ Totals)'
  BY InvariantKeeps, OrderKeeps, TotalsKeep
<1> QED BY <1>1, <1>2, PTL DEF Spec

(* A call of execute that succeeds has counted each document of the bulk, those of batches
   that were tried twice once (_mongoc_write_result_merge, mongoc-write-command.c:1218). *)
THEOREM CountComplete == Spec => []CountIsComplete
<1>1. Totals => CountIsComplete
  BY DEF Totals
<1> QED BY <1>1, TotalsInvariant, PTL

(* Each index that the result names is that of a document of the script which the servers
   refuse: the index in a batch is rewritten to one in the bulk. *)
THEOREM RefusedPlacedRight == Spec => []RefusedAreBad
<1>1. Totals => RefusedAreBad
  BY DEF Totals
<1> QED BY <1>1, TotalsInvariant, PTL

(* An ordered bulk with a document that cannot be written executes nothing of the commands
   behind that document's. *)
THEOREM LaterStay == Spec => []LaterCommandsStay
<1>1. Totals => LaterCommandsStay
  BY Zenon DEF Totals, Cleared, LaterCommandsStay
<1> QED BY <1>1, TotalsInvariant, PTL
=============================================================================
