------------------------------ MODULE Cursors ------------------------------
(***************************************************************************)
(* Iterating over the documents of a cursor (cursor.c) or over the files   *)
(* of a GridFS (gridfsfilelist.c): mongoc_cursor_next with the find and    *)
(* getMore commands, and unpackTable (bson.c), which calls a handler for   *)
(* every table of a document.                                              *)
(*                                                                         *)
(* The handler is a function of the script.  It can raise an error, and it *)
(* can use the cursor whose document is just being unpacked, in place,     *)
(* from the reply of the server.  So calls are a stack: each is in the     *)
(* driver, unpacks, or waits for its handler.                              *)
(***************************************************************************)
EXTENDS Integers, Sequences

CONSTANTS
  MaxDocuments,  \* bound: the largest result
  MaxTables,     \* bound: tables in a document
  MaxDepth,      \* bound: calls inside of handlers of calls
  MaxCalls       \* bound: calls

ASSUME CursorAssumption ==
  /\ {MaxDocuments, MaxDepth, MaxCalls} \subseteq Nat
  /\ MaxTables \in Nat \ {0}

VARIABLES
  kind,    \* "cursor", or "list" for the files of a GridFS
  total,   \* the documents of the result
  bad,     \* documents that describe no file; only a list minds
  sent,    \* how many the server has sent
  cursor,  \* mongoc_cursor_t
  calls,   \* the calls in progress, the innermost last
  result,  \* history: how the last call ended
  handed,  \* history: the documents that calls received from the driver
  made     \* calls so far

vars == <<kind, total, bad, sent, cursor, calls, result, handed, made>>

(* ahead: the documents of the batch that are still to come; id: the server
   has more, or waits for more. *)
CursorState ==
  [state : {"UNPRIMED", "IN_BATCH", "END_OF_BATCH", "DONE"},
   ahead : Nat, id : BOOLEAN, error : {"none", "failed", "completed"}]

(* tables: how many tables of the document are not complete; last: the last
   document of the batch it is from; stale: the batch was freed. *)
CallState ==
  [op : {"next", "value", "iterator"}, handler : BOOLEAN,
   step : {"enter", "advance", "report", "unpack", "handler"},
   refreshed : BOOLEAN, document : Nat, tables : Nat, last : Nat,
   inner : BOOLEAN, stale : BOOLEAN]

Top == calls[Len(calls)]
InCall(step) == calls # <<>> /\ Top.step = step
(* Mutant: the error of an earlier call is not looked at. *)
MoreUnlessDone == cursor.state # "DONE"
More == cursor.error = "none" /\ cursor.state # "DONE"

TypeOK ==
  /\ kind \in {"cursor", "list"}
  /\ total \in 0 .. MaxDocuments
  /\ bad \subseteq 1 .. total
  /\ sent \in 0 .. total
  /\ cursor \in CursorState /\ cursor.ahead <= sent
  /\ Len(calls) <= MaxDepth /\ \A i \in DOMAIN calls : calls[i] \in CallState
  /\ result \in {"none", "document", "nil", "error", "raised"}
  /\ \A i \in DOMAIN handed : handed[i] \in 1 .. sent
  /\ made \in 0 .. MaxCalls

(* The server keeps a cursor with nothing to send too, a tailable one for
   example. *)
ServerHasMore(n) == IF n < total THEN {TRUE} ELSE BOOLEAN

NewCursor == [state |-> "UNPRIMED", ahead |-> 0, id |-> FALSE, error |-> "none"]

(* A new cursor; one whose options are invalid; one made of the reply to a
   command. *)
Init ==
  /\ kind \in {"cursor", "list"}
  /\ total \in 0 .. MaxDocuments
  /\ bad \in SUBSET (1 .. total)
  /\ kind = "cursor" => bad = {}
  /\ sent \in 0 .. total
  /\ \/ /\ sent = 0
        /\ \E error \in {"none", "failed"} : cursor = [NewCursor EXCEPT !.error = error]
     \/ /\ kind = "cursor"
        /\ \E id \in ServerHasMore(sent) :
             cursor = [NewCursor EXCEPT !.state = "IN_BATCH", !.ahead = sent, !.id = id]
  /\ calls = <<>> /\ result = "none" /\ handed = <<>> /\ made = 0

-----------------------------------------------------------------------------
(* The script calls next, value or an iterator, from its own code or from a
   handler.  Files are not unpacked. *)
Call(op, handler) ==
  /\ calls = <<>> \/ InCall("handler")
  /\ Len(calls) < MaxDepth /\ made < MaxCalls
  /\ made' = made + 1
  /\ handler => op # "next" /\ kind = "cursor"
  /\ kind = "list" => op # "value"
  /\ calls' = Append([i \in DOMAIN calls |-> [calls[i] EXCEPT !.inner = TRUE]],
                     [op |-> op, handler |-> handler, step |-> "enter", refreshed |-> FALSE,
                      document |-> 0, tables |-> 0, last |-> 0, inner |-> FALSE,
                      stale |-> FALSE])
  /\ UNCHANGED <<kind, total, bad, sent, cursor, result, handed>>

Go(step) == calls' = [calls EXCEPT ![Len(calls)].step = step]

(* The innermost call returns. *)
Return(how) ==
  /\ calls' = SubSeq(calls, 1, Len(calls) - 1)
  /\ result' = how

(* An error leaves it, and any calls around it whose handlers do not catch
   it. *)
Raise ==
  /\ \E n \in 0 .. Len(calls) - 1 : calls' = SubSeq(calls, 1, n)
  /\ result' = "raised"

(* mongoc_cursor_next does not advance what failed or is complete. *)
Enter ==
  /\ InCall("enter")
  /\ cursor' = [cursor EXCEPT
       !.error = IF @ = "none" /\ cursor.state = "DONE" THEN "completed" ELSE @]
  /\ Go(IF More THEN "advance" ELSE "report")
  /\ UNCHANGED <<kind, total, bad, sent, result, handed, made>>

(* Mutant: mongoc_cursor_next asks the server until there is a document. *)
NeverGiveUp == FALSE
(* A batch that was empty, and the one after it too: it returns without. *)
GiveUp == cursor.state = "END_OF_BATCH" /\ Top.refreshed

Report ==
  /\ InCall("advance") /\ GiveUp
  /\ Go("report")
  /\ UNCHANGED <<kind, total, bad, sent, cursor, result, handed, made>>

(* Mutant: every call asks the server. *)
AlwaysFetches == cursor.state # "DONE"
NeedsBatch == cursor.state \in {"UNPRIMED", "END_OF_BATCH"}

MustFetch == InCall("advance") /\ ~ GiveUp /\ NeedsBatch

(* The reply of the server replaces the one before, from which calls around
   this one unpack their documents. *)
Replaced(step) ==
  [i \in DOMAIN calls |->
     IF i < Len(calls) THEN [calls[i] EXCEPT !.stale = TRUE]
     ELSE [calls[i] EXCEPT !.step = step,
                           !.refreshed = @ \/ cursor.state = "END_OF_BATCH"]]

(* find, the first time, or getMore.  A batch can be empty. *)
Fetch ==
  /\ MustFetch
  /\ \E n \in 0 .. total - sent :
       /\ sent' = sent + n
       /\ \E id \in ServerHasMore(sent + n) :
            cursor' = [cursor EXCEPT !.state = "IN_BATCH", !.ahead = n, !.id = id]
  /\ calls' = Replaced("advance")
  /\ UNCHANGED <<kind, total, bad, result, handed, made>>

FetchFails ==
  /\ MustFetch
  /\ cursor' = [cursor EXCEPT !.state = "DONE", !.ahead = 0, !.error = "failed"]
  /\ calls' = Replaced("report")
  /\ UNCHANGED <<kind, total, bad, sent, result, handed, made>>

(* The batch is used up. *)
AfterBatch == IF cursor.id THEN "END_OF_BATCH" ELSE "DONE"

EndBatch ==
  /\ InCall("advance") /\ cursor.state = "IN_BATCH" /\ cursor.ahead = 0
  /\ cursor' = [cursor EXCEPT !.state = AfterBatch]
  /\ IF AfterBatch = "DONE" THEN Go("report") ELSE UNCHANGED calls
  /\ UNCHANGED <<kind, total, bad, sent, result, handed, made>>

(* A document: next copies it and a list makes a file of it, or nothing if it
   describes none; value and the iterator unpack it. *)
Pop ==
  LET document == sent - cursor.ahead + 1
  IN /\ InCall("advance") /\ cursor.state = "IN_BATCH" /\ cursor.ahead > 0
     /\ cursor' = [cursor EXCEPT !.ahead = @ - 1]
     /\ handed' = Append(handed, document)
     /\ IF Top.handler
        THEN /\ \E n \in 1 .. MaxTables :
                  calls' = [calls EXCEPT ![Len(calls)] =
                    [@ EXCEPT !.step = "unpack", !.document = document, !.tables = n,
                              !.last = sent]]
             /\ UNCHANGED result
        ELSE Return(IF document \in bad THEN "nil" ELSE "document")
     /\ UNCHANGED <<kind, total, bad, sent, made>>

(* Mutant: the end of the batches is the end, whatever the error. *)
WithoutAsking == Return("nil")
(* iterateCursor, m_next: there is no document.  Errors are returned by next
   and raised by the others. *)
NoDocument ==
  IF cursor.error = "none" THEN Return("nil")
  ELSE IF Top.op = "next" THEN Return("error") ELSE Raise
NextEnds ==
  /\ InCall("report")
  /\ NoDocument
  /\ UNCHANGED <<kind, total, bad, sent, cursor, handed, made>>

-----------------------------------------------------------------------------
(* unpackTable completes a table, an inner one before the one around it, and
   gives it to the handler. *)
UnpackTable ==
  /\ InCall("unpack")
  /\ calls' = [calls EXCEPT ![Len(calls)] =
                 [Top EXCEPT !.step = "handler", !.tables = Top.tables - 1]]
  /\ UNCHANGED <<kind, total, bad, sent, cursor, result, handed, made>>

Outermost == Top.tables = 0

HandlerReturns ==
  /\ InCall("handler")
  /\ IF Outermost THEN Return("document") ELSE Go("unpack") /\ UNCHANGED result
  /\ UNCHANGED <<kind, total, bad, sent, cursor, handed, made>>

HandlerRaises ==
  /\ InCall("handler")
  /\ Raise
  /\ UNCHANGED <<kind, total, bad, sent, cursor, handed, made>>

Step ==
  \/ Enter \/ Report \/ Fetch \/ FetchFails \/ EndBatch \/ Pop \/ NextEnds
  \/ UnpackTable \/ HandlerReturns \/ HandlerRaises

Next ==
  \/ \E op \in {"next", "value", "iterator"}, handler \in BOOLEAN : Call(op, handler)
  \/ Step

Spec == Init /\ [][Next]_vars
FairSpec == Spec /\ WF_vars(Step)

-----------------------------------------------------------------------------
(* However calls are mixed and nested, and whatever handlers raise, the driver
   hands out every document once, in the order of the server
   (cursor.c:77-83). *)
InOrder == \A i \in DOMAIN handed : handed[i] = i
AllHanded == Len(handed) = total

(* The cursor is a stream of documents: each comes once and in order, however
   calls are mixed and nested and whatever handlers raise; it ends only behind
   the last one, and nothing comes behind the end or a failure, not even to a
   call that was in progress when a call inside of its handler met it
   (mongoc-cursor.c:1277-1311). *)
Status == IF cursor.error = "failed" THEN "failed" ELSE IF More THEN "open" ELSE "ended"
Stream == INSTANCE DocumentStream WITH status <- Status
DeliversStream == Stream!Spec

(* A call returns nil, without an error, only when there is none, and every
   document was handed out or the cursor says that there is more: no failure
   looks like the end (cursor.c:84-89). *)
NilMeansEnd ==
  [][Len(calls') < Len(calls) /\ result' = "nil"
       => cursor'.error = "none" /\ (AllHanded' \/ More')]_vars

(* The memory that a document is unpacked from is freed only when the script
   uses the cursor inside of the handler, and not before it has taken all the
   documents of that batch (bson.c:509-522 reads on after the handler). *)
KeptWhileUnpacked ==
  \A i \in DOMAIN calls :
    calls[i].stale => calls[i].inner /\ Len(handed) >= calls[i].last

(* What the proofs are about: the driver counts what it hands out, only the
   innermost call is in the driver, and it is there for a reason. *)
Typed ==
  /\ cursor \in CursorState /\ calls \in Seq(CallState) /\ handed \in Seq(Nat)
  /\ total \in Nat /\ sent \in 0 .. total
Counted ==
  /\ Len(handed) + cursor.ahead = sent
  /\ cursor.state # "IN_BATCH" => cursor.ahead = 0
Ended ==
  /\ cursor.state \in {"IN_BATCH", "END_OF_BATCH"} /\ ~ cursor.id => sent = total
  /\ cursor.state = "DONE" /\ cursor.error = "none" => AllHanded
Nested == \A i \in DOMAIN calls : i < Len(calls) => calls[i].step = "handler" /\ calls[i].inner
Located ==
  \A i \in DOMAIN calls :
    /\ calls[i].step \in {"enter", "advance", "report"} => ~ calls[i].stale
    /\ calls[i].step = "advance" => More
    /\ calls[i].step = "report" /\ cursor.error = "none" =>
         cursor.state \in {"END_OF_BATCH", "DONE"}
    /\ calls[i].step = "unpack" => calls[i].tables > 0
    /\ calls[i].last <= sent
IInv == Typed /\ Counted /\ Ended /\ Nested /\ Located /\ InOrder /\ KeptWhileUnpacked

(* A call returns, also from a server that sends empty batches for ever, as
   for a tailable cursor (mongoc-cursor.c:1311-1319). *)
CallsEnd == [](calls # <<>> => <>(calls = <<>>))
=============================================================================
