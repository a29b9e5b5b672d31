------------------------------ MODULE BulkWrite ------------------------------
(***************************************************************************)
(* Bulk writes: the methods of a bulk operation (bulkoperation.c), the     *)
(* driver's list of commands (mongoc-bulk-operation.c) and the loop that   *)
(* sends one command in batches, retries a batch and merges the replies    *)
(* (mongoc-write-command.c).  insertMany and the other writes of a         *)
(* collection run one command of it.                                       *)
(*                                                                         *)
(* A connection may break at any point.  What the server was sent it may   *)
(* still execute later, while the client retries elsewhere: the number of  *)
(* the transaction is what keeps a document from being written twice.      *)
(*                                                                         *)
(* Assumed: write concerns are acknowledged, the servers support retryable *)
(* writes, and whether a server refuses a document depends only on the     *)
(* document.                                                               *)
(***************************************************************************)
EXTENDS Integers, Sequences, FiniteSets

CONSTANTS
  Type,      \* types of commands: insert, update, delete
  MaxBatch,  \* max_document_count, the most documents in a batch
  MaxDocs,   \* bound: documents a script adds to the bulk
  MaxRuns,   \* bound: calls of execute
  MaxWrites  \* bound: documents in all calls of execute, were the bulk always the same

(* A document the server accepts; one it accepts that writes any number of
   others (updateMany, removeMany); one it refuses; one above the maximal size. *)
Kind == {"one", "many", "bad", "large"}

ASSUME BulkWriteAssumption ==
  /\ MaxBatch \in Nat \ {0}
  /\ MaxDocs \in Nat
  /\ MaxRuns \in Nat
  /\ MaxWrites \in Nat

VARIABLES
  ordered,   \* the flag of the bulk
  commands,  \* the commands: [type, docs]
  run,       \* calls of execute so far
  pc,        \* "idle" between calls; else the next step of execute, or "crashed"
  cmd,       \* the command that executes
  offset,    \* documents of the commands before it
  index,     \* index_offset, the absolute index of the batch
  sent,      \* payload_total_offset: documents of the command that were sent
  batch,     \* payload_batch_size: documents of the batch, not yet in sent
  request,   \* what was sent last: documents lo to hi of a command
  reply,     \* the reply to it
  canRetry,  \* is_retryable
  txn,       \* txn_number of the server session
  conn,      \* the server stream in use, and whether the first one is valid
  late,      \* requests whose connection broke, which a server may execute on
  applied,   \* documents the servers have executed, in this order
  result,    \* mongoc_write_result_t
  message,   \* the error handed to the script, "" if there is none
  outcome    \* of execute: "none", "ok", "failed"

vars == <<ordered, commands, run, pc, cmd, offset, index, sent, batch, request, reply,
          canRetry, txn, conn, late, applied, result, message, outcome>>
place == <<run, cmd, offset, index>>
servers == <<late, applied>>

Command == [type : Type, docs : Seq(Kind)]
Request == [run : Nat, cmd : Nat, lo : Nat, hi : Nat, next : Nat, txn : Nat]
Executed == [run : Nat, cmd : Nat, doc : Nat, txn : Nat]
Reply == [ok : BOOLEAN, retry : BOOLEAN, concern : BOOLEAN]
Stream == [uses : {"first", "retry", "freed"}, open : BOOLEAN, first : BOOLEAN]
Error == {"", "options", "empty", "selection", "document", "command", "write", "concern"}
Result == [failed : BOOLEAN, mustStop : BOOLEAN, refused : SUBSET Nat,
           counted : Nat, concern : BOOLEAN, error : Error]

TypeOK ==
  /\ ordered \in BOOLEAN
  /\ commands \in Seq(Command)
  /\ pc \in {"idle", "stream", "batch", "sent", "reply", "end", "crashed"}
  /\ run \in Nat /\ cmd \in Nat /\ offset \in Nat /\ index \in Nat
  /\ sent \in Nat /\ batch \in Nat /\ txn \in Nat
  /\ request \in Request
  /\ reply \in Reply
  /\ canRetry \in BOOLEAN
  /\ conn \in Stream
  /\ late \subseteq Request
  /\ applied \in Seq(Executed)
  /\ result \in Result
  /\ message \in Error
  /\ outcome \in {"none", "ok", "failed"}

NoRequest == [run |-> 0, cmd |-> 0, lo |-> 0, hi |-> 0, next |-> 0, txn |-> 0]
NoReply == [ok |-> FALSE, retry |-> FALSE, concern |-> FALSE]
NewResult(e) == [failed |-> FALSE, mustStop |-> FALSE, refused |-> {},
                 counted |-> 0, concern |-> FALSE, error |-> e]

(* createBulkOperation: an error in the options is kept for later. *)
Init ==
  /\ ordered \in BOOLEAN
  /\ commands = <<>>
  /\ run = 0
  /\ pc = "idle"
  /\ cmd = 1 /\ offset = 0 /\ index = 0 /\ sent = 0 /\ batch = 0
  /\ request = NoRequest
  /\ reply = NoReply
  /\ canRetry = FALSE
  /\ txn = 0
  /\ conn = [uses |-> "first", open |-> FALSE, first |-> FALSE]
  /\ late = {}
  /\ applied = <<>>
  /\ \E e \in {"", "options"} : result = NewResult(e)
  /\ message = ""
  /\ outcome = "none"

-----------------------------------------------------------------------------
Docs == commands[cmd].docs

(* Documents of the commands before command c. *)
Start(c) ==
  LET f[i \in 0 .. c - 1] == IF i = 0 THEN 0 ELSE f[i - 1] + Len(commands[i].docs)
  IN f[c - 1]

(* insert, updateOne, updateMany, replaceOne, removeOne, removeMany: append to
   the last command if it has the type, else begin a new one.  A bulk with an
   error refuses. *)
Add(type, kind) ==
  /\ pc = "idle"
  /\ result.error = ""
  /\ kind = "many" => type # "insert"
  /\ Start(Len(commands) + 1) < MaxDocs
  /\ LET n == Len(commands) IN
     commands' = IF n > 0 /\ commands[n].type = type
                 THEN [commands EXCEPT ![n].docs = Append(@, kind)]
                 ELSE Append(commands, [type |-> type, docs |-> <<kind>>])
  /\ outcome' = "none"
  /\ message' = ""
  /\ UNCHANGED <<ordered, place, pc, sent, batch, request, reply, canRetry, txn, conn,
                 servers, result>>

Return(value, text) ==
  /\ pc' = "idle"
  /\ outcome' = value
  /\ message' = text

(* execute: what an earlier call left in the result is dropped, an error from
   before is reported; all commands are sent again. *)
Execute ==
  LET error == IF run = 0 THEN result.error ELSE "" IN
  /\ pc = "idle"
  /\ run < MaxRuns /\ (run + 1) * Start(Len(commands) + 1) <= MaxWrites
  /\ run' = run + 1
  /\ result' = NewResult(error)
  /\ cmd' = 1 /\ offset' = 0 /\ index' = 0 /\ sent' = 0 /\ batch' = 0
  /\ IF error # "" THEN Return("failed", error)
     ELSE IF commands = <<>> THEN Return("failed", "empty")
     ELSE pc' = "stream" /\ outcome' = "none" /\ message' = ""
  /\ UNCHANGED <<ordered, commands, request, reply, canRetry, txn, conn, servers>>

(* A stream for the next command, and the start of _mongoc_write_opmsg. *)
GetStream ==
  /\ pc = "stream"
  /\ pc' = "batch"
  /\ conn' = [uses |-> "first", open |-> TRUE, first |-> TRUE]
  /\ index' = offset
  /\ sent' = 0
  /\ reply' = NoReply
  /\ UNCHANGED <<ordered, commands, run, cmd, offset, batch, request, canRetry, txn,
                 servers, result, message, outcome>>

(* No server can be selected, or the connection fails. *)
NoStream ==
  /\ pc = "stream"
  /\ Return("failed", "selection")
  /\ UNCHANGED <<ordered, commands, place, sent, batch, request, reply, canRetry, txn,
                 conn, servers, result>>

-----------------------------------------------------------------------------
(* _mongoc_write_opmsg: the loop over the batches of one command *)

(* Write commands that include multi-document operations are not retryable. *)
Retryable(c) == \A d \in 1 .. Len(commands[c].docs) : commands[c].docs[d] # "many"

(* Documents sent + 1 to sent + n fit into one batch.  The batch ends there, for it
   is full, or has the last document, or the next one does not fit into the message;
   one that is too large on its own is reported first. *)
Collected(n) ==
  /\ n <= MaxBatch /\ sent + n <= Len(Docs)
  /\ \A d \in sent + 1 .. sent + n : Docs[d] # "large"
EndsBatch(n) ==
  n = MaxBatch \/ \A d \in 1 .. Len(Docs) : d = sent + n + 1 => Docs[d] # "large"

(* Each batch has a transaction number of its own. *)
Ship(n) ==
  /\ pc = "batch"
  /\ n > 0 /\ Collected(n) /\ EndsBatch(n)
  /\ IF conn.open /\ conn.uses # "freed"
     THEN /\ batch' = n
          /\ txn' = IF Retryable(cmd) THEN txn + 1 ELSE txn
          /\ request' = [run |-> run, cmd |-> cmd, lo |-> sent + 1, hi |-> sent + n,
                         next |-> sent + 1, txn |-> IF Retryable(cmd) THEN txn + 1 ELSE 0]
          /\ canRetry' = Retryable(cmd)
          /\ pc' = "sent"
     ELSE pc' = "crashed" /\ UNCHANGED <<batch, txn, request, canRetry>>
  /\ UNCHANGED <<ordered, commands, place, sent, reply, conn, servers, result, message, outcome>>

(* The next document is too large: what was collected of the batch is left. *)
TooLarge(n) ==
  /\ pc = "batch"
  /\ n < MaxBatch /\ Collected(n)
  /\ sent + n < Len(Docs) /\ Docs[sent + n + 1] = "large"
  /\ result' = [result EXCEPT !.failed = TRUE, !.error = "document"]
  /\ pc' = "end"
  /\ UNCHANGED <<ordered, commands, place, sent, batch, request, reply, canRetry, txn,
                 conn, servers, message, outcome>>

-----------------------------------------------------------------------------
(* The servers.  They execute one statement of a request after the other. *)

IsBad(r, d) == commands[r.cmd].docs[d] = "bad"
Served(r) == r.next > r.hi
Unfinished(r) == IF Served(r) THEN {} ELSE {r}

(* An ordered request stops at the first document that is refused. *)
Progress(r) ==
  [r EXCEPT !.next = IF ordered /\ IsBad(r, r.next) THEN r.hi + 1 ELSE r.next + 1]

Statement(r) == [run |-> r.run, cmd |-> r.cmd, doc |-> r.next, txn |-> r.txn]

(* A statement of a transaction number is executed once. *)
IsKnown(s) == s.txn # 0 /\ \E i \in 1 .. Len(applied) : applied[i] = s

Effect(r) ==
  IF IsBad(r, r.next) \/ IsKnown(Statement(r)) THEN applied ELSE Append(applied, Statement(r))

Serve ==
  /\ pc = "sent" /\ ~Served(request)
  /\ request' = Progress(request)
  /\ applied' = Effect(request)
  /\ UNCHANGED <<ordered, commands, place, pc, sent, batch, reply, canRetry, txn, conn, late,
                 result, message, outcome>>

ServeLate(r) ==
  /\ r \in late
  /\ late' = (late \ {r}) \cup Unfinished(Progress(r))
  /\ applied' = Effect(r)
  /\ UNCHANGED <<ordered, commands, place, pc, sent, batch, request, reply, canRetry, txn,
                 conn, result, message, outcome>>

-----------------------------------------------------------------------------
(* mongoc_cluster_run_command_monitored returns: an error goes to the result,
   and the batch is added to what was sent. *)
Receive(ok, retry, concern) ==
  /\ pc = "sent"
  /\ pc' = "reply"
  /\ reply' = [ok |-> ok, retry |-> retry, concern |-> concern]
  /\ result' = IF ok THEN result ELSE [result EXCEPT !.error = "command"]
  /\ sent' = sent + batch
  /\ batch' = 0
  /\ UNCHANGED <<ordered, commands, place, request, canRetry, txn, applied, message, outcome>>

(* The connection in use is gone.  If it is not the first one it may still lead
   to the same server. *)
Closings ==
  {[conn EXCEPT !.open = FALSE, !.first = f] :
     f \in IF conn.uses = "first" THEN {FALSE} ELSE {conn.first, FALSE}}

(* The write is done; its write concern may have failed, with the label
   RetryableWriteError or without.  If it failed because the server shuts down
   or is not the primary any more, _handle_not_primary_error may close the
   connection, also when the command succeeded. *)
Answered ==
  /\ Served(request)
  /\ \E retry, concern \in BOOLEAN :
       /\ retry => concern
       /\ Receive(TRUE, retry, concern)
       /\ conn' \in {conn} \cup (IF concern THEN Closings ELSE {})
  /\ UNCHANGED late

(* The server fails, before or after some statements.  A server that is not the
   primary any more fails with the label, and may close the connection. *)
Failed ==
  /\ \E retry \in BOOLEAN :
       /\ Receive(FALSE, retry, FALSE)
       /\ conn' \in {conn} \cup (IF retry THEN Closings ELSE {})
  /\ UNCHANGED late

(* The connection breaks or times out; the driver adds the label. *)
Lost ==
  /\ Receive(FALSE, Retryable(cmd), FALSE)
  /\ conn' \in Closings
  /\ late' = late \cup Unfinished(request)

MayRetry == canRetry /\ reply.retry

(* Mutants: a new transaction number; and any number of attempts. *)
AgainWithNewNumber == [request EXCEPT !.next = request.lo, !.txn = @ + 1]
StillRetryable == canRetry
(* The same request from its start; each may be retried at most once. *)
Again == [request EXCEPT !.next = request.lo]
NoMoreRetries == FALSE

(* A server was selected and the batch is sent to it once more. *)
Retry ==
  /\ pc = "reply" /\ MayRetry
  /\ request' = Again
  /\ canRetry' = NoMoreRetries
  /\ conn' = [conn EXCEPT !.uses = "retry", !.open = TRUE]
  /\ pc' = "sent"
  /\ UNCHANGED <<ordered, commands, place, sent, batch, reply, txn, servers, result, message,
                 outcome>>

(* What the reply to a request says: the documents refused, and how many were
   written. *)
RefusedOf(r) ==
  {d \in r.lo .. r.hi : IsBad(r, d) /\ (ordered => \A e \in r.lo .. d - 1 : ~IsBad(r, e))}
WrittenOf(r) ==
  {d \in r.lo .. r.hi : ~IsBad(r, d) /\ (ordered => \A e \in r.lo .. d - 1 : ~IsBad(r, e))}

(* Mutants: an ordered bulk goes on; and one whose stream is invalid does. *)
StopsIfInvalid == ~reply.ok /\ ~conn.first
StopsIfOrdered == ~reply.ok /\ ordered
(* Stop for ordered bulk writes, or when the first stream has been invalidated. *)
MustStop == ~reply.ok /\ (ordered \/ ~conn.first)

(* Mutants: indices relative to the batch; a failure of an earlier batch that is
   forgotten. *)
IndexInBatch(d) == d - request.lo
AbsoluteIndex(d) == index + d - request.lo
FailedLast == ~reply.ok \/ RefusedOf(request) # {}
FailedAfter == result.failed \/ ~reply.ok \/ RefusedOf(request) # {}

(* Mutant: the count is that of the last batch. *)
CountLast == IF reply.ok THEN Cardinality(WrittenOf(request)) ELSE result.counted
CountAfter == result.counted + (IF reply.ok THEN Cardinality(WrittenOf(request)) ELSE 0)

(* _mongoc_write_result_merge *)
Merged ==
  [result EXCEPT
     !.failed = FailedAfter,
     !.mustStop = @ \/ MustStop,
     !.refused = @ \cup (IF reply.ok THEN {AbsoluteIndex(d) : d \in RefusedOf(request)} ELSE {}),
     !.counted = CountAfter,
     !.concern = @ \/ reply.concern]

(* No retry, or no server to retry on: then the stream of an earlier retry was
   released.  The reply is merged and the loop goes on. *)
Settle ==
  /\ pc = "reply"
  /\ conn' = IF MayRetry /\ conn.uses = "retry" THEN [conn EXCEPT !.uses = "freed"] ELSE conn
  /\ canRetry' = FALSE
  /\ result' = Merged
  /\ index' = index + (request.hi - request.lo + 1)
  /\ pc' = IF sent < Len(Docs) /\ ~Merged.mustStop THEN "batch" ELSE "end"
  /\ UNCHANGED <<ordered, commands, run, cmd, offset, sent, batch, request, reply, txn,
                 servers, message, outcome>>

-----------------------------------------------------------------------------
(* Mutant: the error is cleared in any case. *)
NoError == ""
(* If a retry succeeded, clear the initial error: so says the comment; the test
   is whether the last batch that was sent succeeded. *)
ErrorLeft == IF reply.ok THEN "" ELSE result.error

(* _mongoc_write_result_complete: the error for the caller. *)
FinalError ==
  IF result.refused # {} THEN "write"
  ELSE IF ErrorLeft # "" THEN ErrorLeft
  ELSE IF result.concern THEN "concern" ELSE ""

(* Mutant: an ordered bulk goes on with the next command. *)
StopsIfMust == result.mustStop
StopsBulk == result.failed /\ (ordered \/ result.mustStop)

(* The end of a command: the next one, or the result (commandReply). *)
EndCommand ==
  /\ pc = "end"
  /\ IF StopsBulk \/ cmd = Len(commands)
     THEN /\ result' = [result EXCEPT !.error = FinalError]
          /\ Return(IF ~result.failed /\ FinalError = "" THEN "ok" ELSE "failed", FinalError)
          /\ UNCHANGED <<cmd, offset>>
     ELSE /\ result' = [result EXCEPT !.error = ErrorLeft]
          /\ cmd' = cmd + 1
          /\ offset' = offset + Len(Docs)
          /\ pc' = "stream"
          /\ UNCHANGED <<message, outcome>>
  /\ UNCHANGED <<ordered, commands, run, index, sent, batch, request, reply, canRetry, txn,
                 conn, servers>>

Step ==
  \/ GetStream
  \/ NoStream
  \/ \E n \in 1 .. MaxBatch : Ship(n)
  \/ \E n \in 0 .. MaxBatch : TooLarge(n)
  \/ Serve
  \/ Answered
  \/ Failed
  \/ Lost
  \/ Retry
  \/ Settle
  \/ EndCommand

Next ==
  \/ \E type \in Type, kind \in Kind : Add(type, kind)
  \/ Execute
  \/ Step
  \/ \E r \in late : ServeLate(r)

Spec == Init /\ [][Next]_vars

(* The thread runs on, and a socket answers, breaks or times out. *)
FairSpec == Spec /\ WF_vars(Step)

-----------------------------------------------------------------------------
(* Properties *)

(* No document of a call of execute is written twice, whatever the connections
   do and however late a server goes on with a request: a retry sends the batch
   with the transaction number of the first attempt, and only batches without
   multi-document operations are retried. *)
AtMostOnce ==
  \A i, j \in 1 .. Len(applied) :
    /\ applied[i].run = applied[j].run
    /\ applied[i].cmd = applied[j].cmd
    /\ applied[i].doc = applied[j].doc
    => i = j

Before(a, b) == a.cmd < b.cmd \/ (a.cmd = b.cmd /\ a.doc < b.doc)

(* The servers execute the documents of an ordered bulk in the order in which
   the script added them: no batch is sent while one before it may be executed
   later. *)
InOrder ==
  ordered => \A i, j \in 1 .. Len(applied) :
               i < j /\ applied[i].run = applied[j].run => Before(applied[i], applied[j])

IsApplied(r, c, d) ==
  \E i \in 1 .. Len(applied) :
    applied[i].run = r /\ applied[i].cmd = c /\ applied[i].doc = d

(* execute returns without an error only when each document was executed, also
   those of batches before the last one, and then no document is refused. *)
SuccessMeansApplied ==
  outcome = "ok" =>
    /\ \A c \in 1 .. Len(commands) : \A d \in 1 .. Len(commands[c].docs) : IsApplied(run, c, d)
    /\ result.refused = {}

(* The count of a call that succeeds is that of the documents executed, those of
   batches that were tried twice too. *)
CountIsComplete == outcome = "ok" => result.counted = Start(Len(commands) + 1)

(* The documents that the result names are documents of the script that the
   server refuses: the index in a batch is rewritten to one in the bulk. *)
RefusedAreBad ==
  \A x \in result.refused :
    \E c \in 1 .. Len(commands) : \E d \in 1 .. Len(commands[c].docs) :
      x = Start(c) + d - 1 /\ commands[c].docs[d] = "bad"

(* An ordered bulk whose command has a document that cannot be written executes
   nothing of the commands behind it. *)
LaterCommandsStay ==
  ordered =>
    \A i \in 1 .. Len(applied) : \A c \in 1 .. applied[i].cmd - 1 :
      \A d \in 1 .. Len(commands[c].docs) : commands[c].docs[d] \notin {"bad", "large"}

(* When an ordered bulk fails the script gets an error, unless a document was
   too large: the clearing of the error of a first attempt keeps that of a batch
   that failed. *)
FailureExplained ==
  /\ outcome = "failed" /\ ordered
  /\ \A c \in 1 .. Len(commands) : \A d \in 1 .. Len(commands[c].docs) :
       commands[c].docs[d] # "large"
  => message # ""

(* The stream a command begins with is not used after a batch failed on it: the
   loop stops when the stream was invalidated (mongoc-write-command.c:630-636).
   It looks at that only when the batch failed.  The one way to send on a closed
   first stream is behind a batch that was written and whose write concern
   failed. *)
FailedStreamIsDropped ==
  pc = "crashed" /\ conn.uses = "first" => reply.ok /\ reply.concern

(* A call of execute ends, however often the connections break. *)
CallsEnd == pc # "idle" ~> pc \in {"idle", "crashed"}

-----------------------------------------------------------------------------
(* The invariant that the proofs rest on *)

(* The request a server may be executing, or that may be sent again. *)
InFlight == late \cup (IF pc = "sent" \/ (pc = "reply" /\ canRetry) THEN {request} ELSE {})

(* Where the loop is, and that the request is the batch it has reached. *)
Placed ==
  /\ pc # "idle" => cmd \in 1 .. Len(commands) /\ outcome = "none"
  /\ pc \in {"batch", "sent", "reply", "end"} => sent + batch <= Len(Docs)
  /\ pc # "sent" => batch = 0
  /\ pc \in {"sent", "reply"} =>
       /\ request.run = run /\ request.cmd = cmd
       /\ 0 < request.lo /\ request.lo <= request.hi /\ request.hi = sent + batch
       /\ request.lo <= request.next /\ request.next <= request.hi + 1
  /\ canRetry => pc \in {"sent", "reply"} /\ request.txn # 0

(* Nothing behind the documents that were sent is executed or in flight. *)
Passed(r, c, d) ==
  \/ r < run
  \/ /\ r = run
     /\ \/ pc = "idle"
        \/ c < cmd
        \/ c = cmd /\ pc # "stream" /\ d <= sent + batch
Located ==
  /\ \A i \in 1 .. Len(applied) : Passed(applied[i].run, applied[i].cmd, applied[i].doc)
  /\ \A r \in late : Passed(r.run, r.cmd, r.hi) /\ r.lo <= r.next /\ r.next <= r.hi

Within(e, r) == e.run = r.run /\ e.cmd = r.cmd /\ r.lo <= e.doc /\ e.doc <= r.hi
Overlap(r, q) == r.run = q.run /\ r.cmd = q.cmd /\ r.lo <= q.hi /\ q.lo <= r.hi

(* A document belongs to one transaction number; without a number it belongs to
   one request, which has passed it when it is executed. *)
Numbered ==
  /\ \A r \in InFlight : \A i \in 1 .. Len(applied) :
       Within(applied[i], r) =>
         applied[i].txn = r.txn /\ (r.txn = 0 => applied[i].doc < r.next)
  /\ \A r, q \in InFlight :
       Overlap(r, q) => /\ r.txn = q.txn /\ r.lo = q.lo /\ r.hi = q.hi
                        /\ (r.txn = 0 => r = q)
  /\ pc = "sent" /\ request.txn = 0 => \A r \in late : ~Overlap(r, request)

(* A first stream that was closed goes with a command that failed, or with a
   write concern that did. *)
ClosedByConcern == ~conn.open /\ reply.ok /\ reply.concern
Streams ==
  /\ conn.uses = "first" /\ pc = "batch" => conn.open \/ ClosedByConcern
  /\ conn.uses = "first" /\ pc = "sent" => conn.open
  /\ conn.uses = "first" /\ pc = "reply" =>
       conn.open \/ ClosedByConcern \/ (~reply.ok /\ ~conn.first)

NoLarge ==
  \A c \in 1 .. Len(commands) : \A d \in 1 .. Len(commands[c].docs) :
    commands[c].docs[d] # "large"

(* A failure of an ordered bulk is in the result, or the last batch is it. *)
Explained ==
  /\ pc = "reply" /\ ~reply.ok => result.error # ""
  /\ ordered /\ NoLarge /\ pc # "idle" /\ result.failed =>
       result.refused # {} \/ (pc = "end" /\ ~reply.ok /\ result.error # "")

(* What was executed while nothing has failed. *)
CommandApplied(c) == \A d \in 1 .. Len(commands[c].docs) : IsApplied(run, c, d)
RequestApplied ==
  RefusedOf(request) # {} \/
  \A d \in request.lo .. request.next - 1 : ~IsBad(request, d) /\ IsApplied(run, cmd, d)
Accounted ==
  /\ result.mustStop => result.failed
  /\ pc # "idle" /\ ~result.failed =>
    /\ \A c \in 1 .. cmd - 1 : CommandApplied(c)
    /\ pc = "batch" => \A d \in 1 .. sent : IsApplied(run, cmd, d)
    /\ pc \in {"sent", "reply"} => \A d \in 1 .. request.lo - 1 : IsApplied(run, cmd, d)
    /\ pc = "sent" => RequestApplied
    /\ pc = "reply" /\ reply.ok => RequestApplied /\ request.next = request.hi + 1
    /\ pc = "end" => CommandApplied(cmd)

(* A document of an ordered request is done if it is executed, or never will be. *)
Has(r, d) ==
  \E i \in 1 .. Len(applied) :
    applied[i] = [run |-> r.run, cmd |-> r.cmd, doc |-> d, txn |-> r.txn]
IsDone(r, d) == Has(r, d) \/ \E b \in r.lo .. d : IsBad(r, b)
Exhausted(r) == \A d \in r.next .. r.hi : IsDone(r, d)

Behind(e, r) == e.run = r.run /\ (e.cmd > r.cmd \/ (e.cmd = r.cmd /\ e.doc > r.hi))
Precedes(r, q) == r.run = q.run /\ (r.cmd < q.cmd \/ (r.cmd = q.cmd /\ r.hi < q.lo))
Awaited(r) == pc \in {"sent", "reply"} /\ Overlap(r, request)

(* What the servers have executed of a request of an ordered bulk is a first part
   of it, by this request or by another one with its number. *)
InRange ==
  \A r \in InFlight :
    /\ r.cmd \in 1 .. Len(commands)
    /\ 0 < r.lo /\ r.lo <= r.hi /\ r.hi <= Len(commands[r.cmd].docs)
FirstPart ==
  \A r \in InFlight :
    /\ \A d \in r.lo .. r.hi :
         d < r.next => IsDone(r, d) /\ (r.next <= r.hi => ~IsBad(r, d))
    /\ \A i \in 1 .. Len(applied) :
         Within(applied[i], r) => \A d \in r.lo .. applied[i].doc : Has(r, d)

(* Nothing is executed or sent behind a request that could still do something:
   the client goes on only when the batch it waits for is done. *)
GoesOn ==
  /\ \A r \in InFlight : \A i \in 1 .. Len(applied) : Behind(applied[i], r) => Exhausted(r)
  /\ \A r, q \in InFlight : Precedes(r, q) => Exhausted(r)
  /\ pc = "reply" /\ reply.ok => \A r \in late : Overlap(r, request) => Exhausted(r)
  /\ \A r \in late :
       r.run = run /\ pc # "idle" /\ ~Awaited(r) /\ ~(pc = "end" /\ result.mustStop)
         => Exhausted(r)
Sequential == InRange /\ (ordered => InOrder /\ FirstPart /\ GoesOn)

IInv ==
  /\ TypeOK
  /\ Placed
  /\ Located
  /\ Numbered
  /\ AtMostOnce
  /\ Streams /\ FailedStreamIsDropped
  /\ Explained /\ FailureExplained
  /\ Accounted /\ SuccessMeansApplied

=============================================================================
