--------------------------- MODULE CursorsProofs ---------------------------
(***************************************************************************)
(* What TLAPS proves about Cursors, for results and documents of any size  *)
(* and calls nested to any depth.  The argument is the inductive invariant *)
(* IInv of Cursors: the first lemmas say what becomes of the stack of      *)
(* calls when the innermost one changes or returns.  The last ones show    *)
(* that a cursor is a DocumentStream.                                      *)
(***************************************************************************)
EXTENDS Cursors, TLAPS

Steps == {"enter", "advance", "report", "unpack", "handler"}

(* What IInv says of one call, and of the innermost one in the next state. *)
Stands(c, cur, n, k) ==
  /\ c.step \in {"enter", "advance", "report"} => ~ c.stale
  /\ c.step = "advance" => cur.error = "none" /\ cur.state # "DONE"
  /\ c.step = "report" /\ cur.error = "none" => cur.state \in {"END_OF_BATCH", "DONE"}
  /\ c.step = "unpack" => c.tables > 0
  /\ c.last <= n
  /\ c.stale => c.inner /\ k >= c.last

(* A server that says that there is no more has sent everything. *)
LEMMA MoreThere == ASSUME total \in Nat, NEW n \in 0 .. total, NEW id \in ServerHasMore(n)
  PROVE id \in BOOLEAN /\ (id = FALSE => n = total)
<1>1. CASE n < total
  BY <1>1, Zenon DEF ServerHasMore
<1>2. CASE ~ (n < total)
  <2>1. n = total
    BY <1>2
  <2> QED BY <1>2, <2>1, Zenon DEF ServerHasMore
<1> QED BY <1>1, <1>2

LEMMA InitInvariant == Init => IInv
<1> SUFFICES ASSUME Init PROVE IInv
  OBVIOUS
<1>1. total \in Nat /\ sent \in 0 .. total
  <2>1. MaxDocuments \in Nat
    BY CursorAssumption, Zenon
  <2>2. total \in 0 .. MaxDocuments /\ sent \in 0 .. total
    BY DEF Init
  <2> QED BY <2>1, <2>2
<1>2. cursor \in CursorState /\ cursor.ahead = sent
      /\ (cursor.state # "IN_BATCH" => cursor.ahead = 0)
      /\ cursor.state # "DONE" /\ cursor.state # "END_OF_BATCH"
      /\ (cursor.state = "IN_BATCH" /\ ~ cursor.id => sent = total)
  <2>1. CASE sent = 0 /\ \E error \in {"none", "failed"} :
               cursor = [NewCursor EXCEPT !.error = error]
    <3>1. PICK error \in {"none", "failed"} : cursor = [NewCursor EXCEPT !.error = error]
      BY <2>1
    <3>2. cursor = [state |-> "UNPRIMED", ahead |-> 0, id |-> FALSE, error |-> error]
      BY <3>1 DEF NewCursor
    <3> QED BY <1>1, <2>1, <3>2 DEF CursorState
  <2>2. CASE \E id \in ServerHasMore(sent) :
               cursor = [NewCursor EXCEPT !.state = "IN_BATCH", !.ahead = sent, !.id = id]
    <3>1. PICK id \in ServerHasMore(sent) :
            cursor = [NewCursor EXCEPT !.state = "IN_BATCH", !.ahead = sent, !.id = id]
      BY <2>2
    <3>2. id \in BOOLEAN /\ (id = FALSE => sent = total)
      BY <1>1, <3>1, MoreThere
    <3>3. cursor = [state |-> "IN_BATCH", ahead |-> sent, id |-> id, error |-> "none"]
      BY <3>1 DEF NewCursor
    <3> QED BY <1>1, <3>2, <3>3 DEF CursorState
  <2> QED BY <2>1, <2>2 DEF Init
<1>3. calls = <<>> /\ handed = <<>>
  BY DEF Init
<1>5. calls \in Seq(CallState) /\ handed \in Seq(Nat) /\ Len(handed) = 0
      /\ DOMAIN calls = {} /\ DOMAIN handed = {}
  BY <1>3
<1>4. Counted
  BY <1>1, <1>2, <1>5 DEF Counted, CursorState
<1> QED
  BY <1>1, <1>2, <1>4, <1>5 DEF IInv, Typed, Ended, Nested, Located, InOrder,
     KeptWhileUnpacked

LEMMA TopExists == ASSUME Typed, calls # <<>>
  PROVE Len(calls) \in Nat \ {0} /\ Len(calls) \in DOMAIN calls /\ Top \in CallState
BY DEF Typed, Top

LEMMA CallTyped == ASSUME Typed, NEW i \in DOMAIN calls
  PROVE /\ calls[i] \in CallState /\ calls[i].last \in Nat
        /\ calls[i].step \in {"enter", "advance", "report", "unpack", "handler"}
        /\ calls[i].stale \in BOOLEAN /\ calls[i].inner \in BOOLEAN
<1>1. calls[i] \in CallState
  BY DEF Typed
<1> QED BY <1>1 DEF CallState

(* The innermost call changes, those around it stay. *)
LEMMA TopChanges ==
  ASSUME IInv, calls # <<>>, NEW c \in CallState,
         calls' = [calls EXCEPT ![Len(calls)] = c],
         cursor' \in CursorState, sent' \in Nat, sent' >= sent,
         handed' \in Seq(Nat), Len(handed') >= Len(handed),
         Stands(c, cursor', sent', Len(handed'))
  PROVE  calls' \in Seq(CallState) /\ Nested' /\ Located' /\ KeptWhileUnpacked'
<1>1. Len(calls) \in Nat \ {0} /\ Len(calls) \in DOMAIN calls
  BY TopExists DEF IInv
<1>2. /\ calls' \in Seq(CallState) /\ Len(calls') = Len(calls)
      /\ calls'[Len(calls)] = c
      /\ \A i \in DOMAIN calls : i # Len(calls) => calls'[i] = calls[i]
      /\ DOMAIN calls' = DOMAIN calls /\ DOMAIN calls = 1 .. Len(calls)
  BY <1>1 DEF IInv, Typed
<1>3. Nested'
  BY <1>1, <1>2 DEF IInv, Nested
<1>4. ASSUME NEW i \in DOMAIN calls, i # Len(calls)
      PROVE  /\ calls'[i] = calls[i] /\ calls[i].step = "handler"
             /\ calls[i].last <= sent' /\ (calls[i].stale => Len(handed') >= calls[i].last)
             /\ (calls[i].stale => calls[i].inner)
  <2>1. calls[i] \in CallState /\ calls[i].last \in Nat
    BY CallTyped DEF IInv
  <2> QED BY <1>1, <1>2, <1>4, <2>1 DEF IInv, Typed, Nested, Located, KeptWhileUnpacked
<1>5. Located'
  BY <1>1, <1>2, <1>4 DEF Located, Stands, More
<1>6. KeptWhileUnpacked'
  BY <1>1, <1>2, <1>4 DEF KeptWhileUnpacked, Stands
<1> QED BY <1>2, <1>3, <1>5, <1>6

(* Calls return or are left with an error. *)
LEMMA CallsEndKeeps ==
  ASSUME IInv, NEW n \in 0 .. Len(calls) - 1, calls' = SubSeq(calls, 1, n),
         sent' \in Nat, sent' >= sent, handed' \in Seq(Nat), Len(handed') >= Len(handed)
  PROVE  calls' \in Seq(CallState) /\ Nested' /\ Located' /\ KeptWhileUnpacked'
<1>1. /\ calls' \in Seq(CallState) /\ Len(calls') = n /\ n < Len(calls)
      /\ DOMAIN calls' = 1 .. n /\ DOMAIN calls = 1 .. Len(calls)
      /\ \A i \in 1 .. n : calls'[i] = calls[i]
  BY DEF IInv, Typed
<1>2. ASSUME NEW i \in 1 .. n
      PROVE  /\ calls'[i] = calls[i] /\ calls[i].step = "handler" /\ calls[i].inner
             /\ calls[i].last <= sent' /\ (calls[i].stale => Len(handed') >= calls[i].last)
  <2>0. i \in DOMAIN calls /\ i < Len(calls)
    BY <1>1
  <2>1. calls[i] \in CallState /\ calls[i].last \in Nat
    BY <2>0, CallTyped DEF IInv
  <2>2. sent \in Nat /\ Len(handed) \in Nat /\ Len(handed') \in Nat
    BY DEF IInv, Typed
  <2>3. calls[i].step = "handler" /\ calls[i].inner
    BY <2>0 DEF IInv, Nested
  <2>4. calls[i].last <= sent /\ (calls[i].stale => Len(handed) >= calls[i].last)
    BY <2>0 DEF IInv, Located, KeptWhileUnpacked
  <2> QED BY <1>1, <2>1, <2>2, <2>3, <2>4
<1> QED BY <1>1, <1>2 DEF Nested, Located, KeptWhileUnpacked

-----------------------------------------------------------------------------
LEMMA CallKeeps ==
  ASSUME IInv, NEW op \in {"next", "value", "iterator"}, NEW handler \in BOOLEAN,
         Call(op, handler)
  PROVE  IInv'
<1> DEFINE new == [op |-> op, handler |-> handler, step |-> "enter", refreshed |-> FALSE,
                   document |-> 0, tables |-> 0, last |-> 0, inner |-> FALSE, stale |-> FALSE]
           old == [i \in DOMAIN calls |-> [calls[i] EXCEPT !.inner = TRUE]]
<1>1. new \in CallState
  BY DEF CallState
<1>2. old \in Seq(CallState) /\ Len(old) = Len(calls) /\ DOMAIN calls = 1 .. Len(calls)
  <2>1. calls \in Seq(CallState) /\ DOMAIN calls = 1 .. Len(calls) /\ Len(calls) \in Nat
    BY DEF IInv, Typed
  <2>2. ASSUME NEW i \in DOMAIN calls PROVE [calls[i] EXCEPT !.inner = TRUE] \in CallState
    <3>1. calls[i] \in CallState
      BY CallTyped DEF IInv
    <3> QED BY <3>1 DEF CallState
  <2> QED BY <2>1, <2>2
<1>3. calls' = Append(old, new)
  BY DEF Call
<1> HIDE DEF new, old
<1>4. /\ calls' \in Seq(CallState) /\ Len(calls') = Len(calls) + 1 /\ Len(calls) \in Nat
      /\ calls'[Len(calls) + 1] = new
      /\ \A i \in 1 .. Len(calls) : calls'[i] = old[i]
      /\ DOMAIN calls' = 1 .. Len(calls) + 1
  BY <1>1, <1>2, <1>3
<1>5. ASSUME NEW i \in 1 .. Len(calls)
      PROVE  /\ calls'[i].step = "handler" /\ calls'[i].inner
             /\ calls'[i].last <= sent
             /\ (calls'[i].stale => Len(handed) >= calls'[i].last)
  <2>1. i \in DOMAIN calls /\ calls[i] \in CallState
    BY <1>2 DEF IInv, Typed
  <2>2. calls'[i] = [calls[i] EXCEPT !.inner = TRUE]
    BY <1>4, <2>1 DEF old
  <2>3. calls[i].step = "handler"
    BY <1>4, <2>1 DEF IInv, Nested, Call, InCall, Top
  <2> QED BY <2>1, <2>2, <2>3 DEF IInv, Located, KeptWhileUnpacked, CallState
<1>6. UNCHANGED <<total, sent, cursor, handed>>
  BY DEF Call
<1>7. new.step = "enter" /\ ~ new.stale /\ new.last = 0
  BY DEF new
<1>8. Nested'
  BY <1>4, <1>5 DEF Nested
<1>9. Located' /\ KeptWhileUnpacked'
  <2>1. \A i \in DOMAIN calls' : i \in 1 .. Len(calls) \/ i = Len(calls) + 1
    BY <1>4
  <2> QED BY <1>4, <1>5, <1>6, <1>7, <2>1 DEF Located, KeptWhileUnpacked, More, IInv, Typed
<1> QED BY <1>4, <1>6, <1>8, <1>9 DEF IInv, Typed, Counted, Ended, InOrder, AllHanded

LEMMA EnterKeeps == ASSUME IInv, Enter PROVE IInv'
<1> DEFINE c == [Top EXCEPT !.step = IF More THEN "advance" ELSE "report"]
<1>1. calls # <<>> /\ Top.step = "enter" /\ Top \in CallState
  BY TopExists DEF Enter, InCall, IInv
<1>2. c \in CallState /\ calls' = [calls EXCEPT ![Len(calls)] = c]
  BY <1>1 DEF CallState, Enter, Go, Top
<1>3. /\ cursor' \in CursorState /\ UNCHANGED <<total, sent, handed>>
      /\ cursor'.ahead = cursor.ahead /\ cursor'.id = cursor.id /\ cursor'.state = cursor.state
      /\ (cursor'.error = "none" => cursor.error = "none")
      /\ (More => cursor'.error = "none") /\ (~ More => cursor'.error # "none")
  BY DEF Enter, IInv, Typed, CursorState, More
<1>4. Stands(c, cursor', sent', Len(handed'))
  <2>1. ~ Top.stale /\ Top.last <= sent
    BY <1>1, TopExists DEF IInv, Located, Top
  <2> QED BY <1>1, <1>3, <2>1 DEF Stands, More, CallState
<1>5. calls' \in Seq(CallState) /\ Nested' /\ Located' /\ KeptWhileUnpacked'
  <2>1. sent' \in Nat /\ sent' >= sent /\ handed' \in Seq(Nat) /\ Len(handed') >= Len(handed)
    BY <1>3 DEF IInv, Typed
  <2> HIDE DEF c
  <2> QED BY <1>1, <1>2, <1>3, <1>4, <2>1, TopChanges
<1> QED BY <1>3, <1>5 DEF IInv, Typed, Counted, Ended, InOrder, AllHanded

LEMMA TopStands == ASSUME IInv, calls # <<>>
  PROVE Top \in CallState /\ Stands(Top, cursor, sent, Len(handed))
<1>1. Len(calls) \in DOMAIN calls /\ Top \in CallState
  BY TopExists DEF IInv
<1> QED BY <1>1 DEF IInv, Located, KeptWhileUnpacked, Stands, More, Top

LEMMA ReportKeeps == ASSUME IInv, Report PROVE IInv'
<1> DEFINE c == [Top EXCEPT !.step = "report"]
<1>1. calls # <<>> /\ Top.step = "advance" /\ cursor.state = "END_OF_BATCH"
  BY DEF Report, InCall, GiveUp
<1>2. Top \in CallState /\ Stands(Top, cursor, sent, Len(handed))
  BY <1>1, TopStands
<1>3. c \in CallState /\ calls' = [calls EXCEPT ![Len(calls)] = c]
  BY <1>2 DEF CallState, Report, Go, Top
<1>4. UNCHANGED <<total, sent, cursor, handed>>
  BY DEF Report
<1>5. Stands(c, cursor', sent', Len(handed'))
  BY <1>1, <1>2, <1>4 DEF Stands, CallState
<1>6. calls' \in Seq(CallState) /\ Nested' /\ Located' /\ KeptWhileUnpacked'
  <2>1. cursor' \in CursorState /\ sent' \in Nat /\ sent' >= sent /\ handed' \in Seq(Nat)
        /\ Len(handed') >= Len(handed)
    BY <1>4 DEF IInv, Typed
  <2> HIDE DEF c
  <2> QED BY <1>1, <1>3, <1>5, <2>1, TopChanges
<1> QED BY <1>4, <1>6 DEF IInv, Typed, Counted, Ended, InOrder, AllHanded

(* The server is asked when the batch is used up: the calls around this one
   lose the memory of documents that were all handed out. *)
LEMMA ReplacedKeeps ==
  ASSUME IInv, MustFetch, NEW step \in {"advance", "report"}, calls' = Replaced(step),
         cursor' \in CursorState, sent' \in Nat, sent' >= sent, handed' = handed,
         step = "advance" => cursor'.error = "none" /\ cursor'.state # "DONE",
         step = "report" => cursor'.error # "none"
  PROVE  calls' \in Seq(CallState) /\ Nested' /\ Located' /\ KeptWhileUnpacked'
<1>1. /\ calls # <<>> /\ Top.step = "advance" /\ cursor.state # "IN_BATCH"
      /\ calls \in Seq(CallState) /\ Len(calls) \in Nat \ {0} /\ DOMAIN calls = 1 .. Len(calls)
  BY TopExists DEF MustFetch, InCall, NeedsBatch, IInv, Typed
<1>2. /\ Top \in CallState /\ ~ Top.stale /\ Top.last <= sent /\ Top.last \in Nat
      /\ Top = calls[Len(calls)]
  BY <1>1, TopStands DEF Stands, Top, CallState
<1>3. Len(handed) = sent /\ sent \in Nat
  BY <1>1 DEF IInv, Typed, Counted, CursorState
<1>4. ASSUME NEW i \in DOMAIN calls
      PROVE  calls[i] \in CallState /\ calls[i].last \in Nat /\ calls[i].last <= sent
             /\ (i # Len(calls) => i < Len(calls) /\ calls[i].step = "handler" /\ calls[i].inner)
  <2>1. calls[i] \in CallState /\ calls[i].last \in Nat
    BY CallTyped DEF IInv
  <2> QED BY <1>1, <2>1 DEF IInv, Nested, Located
<1>5. ASSUME NEW i \in DOMAIN calls, i # Len(calls)
      PROVE  Replaced(step)[i] = [calls[i] EXCEPT !.stale = TRUE]
  <2>1. i < Len(calls)
    BY <1>4, <1>5
  <2> QED BY <2>1, Zenon DEF Replaced
<1>6. Replaced(step)[Len(calls)] =
        [Top EXCEPT !.step = step, !.refreshed = @ \/ cursor.state = "END_OF_BATCH"]
  <2>1. Len(calls) \in DOMAIN calls /\ ~ (Len(calls) < Len(calls))
    BY <1>1
  <2> QED BY <1>2, <2>1, Zenon DEF Replaced
<1>7. /\ [Top EXCEPT !.step = step, !.refreshed = @ \/ cursor.state = "END_OF_BATCH"] \in CallState
      /\ calls'[Len(calls)].step = step /\ calls'[Len(calls)].last = Top.last
      /\ ~ calls'[Len(calls)].stale
  BY <1>2, <1>6 DEF CallState
<1>8. ASSUME NEW i \in DOMAIN calls, i # Len(calls)
      PROVE  /\ Replaced(step)[i] \in CallState
             /\ calls'[i].step = "handler" /\ calls'[i].inner /\ calls'[i].last = calls[i].last
  BY <1>4, <1>5, <1>8 DEF CallState
<1>9. calls' \in Seq(CallState) /\ Len(calls') = Len(calls) /\ DOMAIN calls' = DOMAIN calls
  <2>1. \A i \in 1 .. Len(calls) : Replaced(step)[i] \in CallState
    BY <1>1, <1>6, <1>7, <1>8
  <2>2. Replaced(step) = [i \in 1 .. Len(calls) |-> Replaced(step)[i]]
    BY <1>1 DEF Replaced
  <2> QED BY <1>1, <2>1, <2>2
<1>10. Nested'
  BY <1>8, <1>9 DEF Nested
<1>11. Located'
  <2>1. ASSUME NEW i \in DOMAIN calls
        PROVE  calls'[i].last <= sent'
    BY <1>2, <1>3, <1>4, <1>7, <1>8
  <2>2. ASSUME NEW i \in DOMAIN calls, calls'[i].step # "handler"
        PROVE  calls'[i].step = step /\ ~ calls'[i].stale
    BY <1>7, <1>8, <2>2
  <2> QED BY <1>9, <2>1, <2>2 DEF Located, More
<1>12. KeptWhileUnpacked'
  BY <1>2, <1>3, <1>4, <1>7, <1>8, <1>9 DEF KeptWhileUnpacked
<1> QED BY <1>9, <1>10, <1>11, <1>12

LEMMA FetchKeeps == ASSUME IInv, Fetch PROVE IInv'
<1>0. PICK n \in 0 .. total - sent :
        /\ sent' = sent + n
        /\ \E id \in ServerHasMore(sent + n) :
             cursor' = [cursor EXCEPT !.state = "IN_BATCH", !.ahead = n, !.id = id]
  BY DEF Fetch
<1>1. PICK id \in ServerHasMore(sent') :
        cursor' = [cursor EXCEPT !.state = "IN_BATCH", !.ahead = n, !.id = id]
  BY <1>0
<1>2. MustFetch /\ calls' = Replaced("advance") /\ UNCHANGED <<total, handed>>
  BY DEF Fetch
<1>3. /\ total \in Nat /\ sent \in Nat /\ sent' \in 0 .. total /\ sent' >= sent /\ n \in Nat
      /\ handed \in Seq(Nat) /\ cursor \in CursorState
  BY <1>0 DEF IInv, Typed
<1>4. id \in BOOLEAN /\ (id = FALSE => sent' = total)
  BY <1>1, <1>3, MoreThere
<1>5. Len(handed) = sent /\ cursor.error = "none"
  <2>1. Stands(Top, cursor, sent, Len(handed)) /\ Top.step = "advance"
    BY <1>2, TopStands DEF MustFetch, InCall
  <2>2. cursor.ahead = 0
    BY <1>2 DEF IInv, Counted, MustFetch, NeedsBatch
  <2> QED BY <1>3, <2>1, <2>2 DEF IInv, Counted, Stands
<1>6. /\ cursor' \in CursorState /\ cursor'.state = "IN_BATCH" /\ cursor'.ahead = n
      /\ cursor'.id = id /\ cursor'.error = "none"
  BY <1>1, <1>3, <1>4, <1>5 DEF CursorState
<1>7. calls' \in Seq(CallState) /\ Nested' /\ Located' /\ KeptWhileUnpacked'
  BY <1>2, <1>3, <1>6, ReplacedKeeps
<1>8. Typed' /\ InOrder'
  BY <1>2, <1>3, <1>6, <1>7 DEF IInv, Typed, InOrder
<1>9. Counted'
  BY <1>0, <1>2, <1>3, <1>5, <1>6 DEF Counted
<1>10. Ended'
  BY <1>2, <1>4, <1>6 DEF Ended
<1> QED BY <1>7, <1>8, <1>9, <1>10 DEF IInv

LEMMA FetchFailsKeeps == ASSUME IInv, FetchFails PROVE IInv'
<1>1. /\ MustFetch /\ calls' = Replaced("report") /\ UNCHANGED <<total, sent, handed>>
      /\ cursor' = [cursor EXCEPT !.state = "DONE", !.ahead = 0, !.error = "failed"]
  BY DEF FetchFails
<1>2. total \in Nat /\ sent \in Nat /\ handed \in Seq(Nat) /\ cursor \in CursorState
  BY DEF IInv, Typed
<1>3. Len(handed) = sent
  <2>1. cursor.ahead = 0
    BY <1>1 DEF IInv, Counted, MustFetch, NeedsBatch
  <2> QED BY <1>2, <2>1 DEF IInv, Counted
<1>4. cursor' \in CursorState /\ cursor'.state = "DONE" /\ cursor'.ahead = 0
      /\ cursor'.error = "failed"
  BY <1>1, <1>2 DEF CursorState
<1>5. calls' \in Seq(CallState) /\ Nested' /\ Located' /\ KeptWhileUnpacked'
  BY <1>1, <1>2, <1>4, ReplacedKeeps
<1> QED BY <1>1, <1>2, <1>3, <1>4, <1>5 DEF IInv, Typed, InOrder, Counted, Ended

LEMMA EndBatchKeeps == ASSUME IInv, EndBatch PROVE IInv'
<1> DEFINE c == IF AfterBatch = "DONE" THEN [Top EXCEPT !.step = "report"] ELSE Top
<1>1. calls # <<>> /\ Top.step = "advance" /\ cursor.state = "IN_BATCH" /\ cursor.ahead = 0
  BY DEF EndBatch, InCall
<1>2. Top \in CallState /\ Stands(Top, cursor, sent, Len(handed))
  BY <1>1, TopStands
<1>3. c \in CallState /\ calls' = [calls EXCEPT ![Len(calls)] = c]
  <2>1. c \in CallState
    BY <1>2 DEF CallState
  <2>2. CASE AfterBatch = "DONE"
    <3>1. c = [Top EXCEPT !.step = "report"]
      BY <2>2
    <3>2. calls' = [calls EXCEPT ![Len(calls)] = [Top EXCEPT !.step = "report"]]
      BY <2>2 DEF EndBatch, Go, Top
    <3> QED BY <2>1, <3>1, <3>2
  <2>3. CASE AfterBatch # "DONE"
    <3>1. calls' = calls /\ calls \in Seq(CallState) /\ Len(calls) \in DOMAIN calls
      BY <1>1, <2>3, TopExists DEF EndBatch, IInv, Typed
    <3> QED BY <2>3, <3>1 DEF Top
  <2> QED BY <2>1, <2>2, <2>3
<1>4. /\ UNCHANGED <<total, sent, handed>>
      /\ cursor' \in CursorState /\ cursor'.state = AfterBatch /\ cursor'.ahead = 0
      /\ cursor'.id = cursor.id /\ cursor'.error = cursor.error
      /\ AfterBatch = (IF cursor.id THEN "END_OF_BATCH" ELSE "DONE")
      /\ total \in Nat /\ sent \in Nat /\ handed \in Seq(Nat) /\ cursor \in CursorState
  <2>1. /\ UNCHANGED <<total, sent, handed>> /\ cursor' = [cursor EXCEPT !.state = AfterBatch]
        /\ total \in Nat /\ sent \in Nat /\ handed \in Seq(Nat) /\ cursor \in CursorState
    BY DEF EndBatch, IInv, Typed
  <2>2. AfterBatch \in {"END_OF_BATCH", "DONE"}
        /\ AfterBatch = (IF cursor.id THEN "END_OF_BATCH" ELSE "DONE")
    BY DEF AfterBatch
  <2> QED BY <1>1, <2>1, <2>2 DEF CursorState
<1>5. Stands(c, cursor', sent', Len(handed'))
  <2>1. CASE AfterBatch = "DONE"
    <3>1. c = [Top EXCEPT !.step = "report"] /\ ~ Top.stale /\ Top.last <= sent
      BY <1>1, <1>2, <2>1 DEF Stands
    <3>2. c.step = "report" /\ ~ c.stale /\ c.last <= sent
      BY <1>2, <3>1 DEF CallState
    <3> HIDE DEF c
    <3> QED BY <1>4, <2>1, <3>2 DEF Stands
  <2>2. CASE AfterBatch # "DONE"
    BY <1>1, <1>2, <1>4, <2>2 DEF Stands, CallState
  <2> QED BY <2>1, <2>2
<1>6. calls' \in Seq(CallState) /\ Nested' /\ Located' /\ KeptWhileUnpacked'
  <2>1. sent' \in Nat /\ sent' >= sent /\ handed' \in Seq(Nat) /\ Len(handed') >= Len(handed)
    BY <1>4
  <2> HIDE DEF c
  <2> QED BY <1>1, <1>3, <1>4, <1>5, <2>1, TopChanges
<1>7. Len(handed) = sent /\ (~ cursor.id => sent = total)
  BY <1>1, <1>4 DEF IInv, Counted, Ended
<1>8. Counted' /\ Ended'
  BY <1>4, <1>7 DEF Counted, Ended, AllHanded
<1> QED BY <1>4, <1>6, <1>8 DEF IInv, Typed, InOrder

(* The next document of the batch is the next one of the result. *)
LEMMA PopCounts ==
  ASSUME IInv, Pop
  PROVE  /\ calls # <<>> /\ Top.step = "advance" /\ UNCHANGED <<total, sent>>
         /\ cursor' \in CursorState /\ cursor'.state = "IN_BATCH" /\ cursor'.error = "none"
         /\ sent \in Nat /\ handed' \in Seq(Nat) /\ Len(handed') = Len(handed) + 1
         /\ Typed /\ Counted' /\ Ended' /\ InOrder'
<1>1. /\ calls # <<>> /\ Top.step = "advance" /\ cursor.state = "IN_BATCH" /\ cursor.ahead > 0
      /\ cursor' = [cursor EXCEPT !.ahead = @ - 1] /\ UNCHANGED <<total, sent>>
      /\ handed' = Append(handed, sent - cursor.ahead + 1)
  BY DEF Pop, InCall
<1>2. /\ total \in Nat /\ sent \in Nat /\ handed \in Seq(Nat) /\ cursor \in CursorState
      /\ cursor.ahead \in Nat /\ Len(handed) \in Nat /\ Len(handed) + cursor.ahead = sent
  BY DEF IInv, Typed, Counted, CursorState
<1>3. cursor.error = "none"
  BY <1>1, TopStands DEF Stands
<1>4. /\ cursor' \in CursorState /\ cursor'.state = "IN_BATCH" /\ cursor'.error = "none"
      /\ cursor'.ahead = cursor.ahead - 1 /\ cursor'.id = cursor.id
  <2>1. cursor.ahead - 1 \in Nat
    BY <1>1, <1>2
  <2> QED BY <1>1, <1>2, <1>3, <2>1 DEF CursorState
<1>5. handed' = Append(handed, Len(handed) + 1)
  BY <1>1, <1>2
<1>6. handed' \in Seq(Nat) /\ Len(handed') = Len(handed) + 1
  BY <1>2, <1>5
<1>7. Counted'
  BY <1>1, <1>2, <1>4, <1>6 DEF Counted
<1>8. Ended'
  BY <1>1, <1>4 DEF IInv, Ended
<1>9. InOrder'
  BY <1>2, <1>5, <1>6 DEF IInv, InOrder
<1> QED BY <1>1, <1>2, <1>4, <1>6, <1>7, <1>8, <1>9 DEF IInv

LEMMA PopKeeps == ASSUME IInv, Pop PROVE IInv'
<1>1. /\ calls # <<>> /\ Top.step = "advance" /\ UNCHANGED <<total, sent>>
      /\ cursor' \in CursorState /\ cursor'.state = "IN_BATCH" /\ cursor'.error = "none"
      /\ sent \in Nat /\ handed' \in Seq(Nat) /\ Len(handed') = Len(handed) + 1
      /\ Typed /\ Counted' /\ Ended' /\ InOrder'
  BY PopCounts
<1>2. sent' \in Nat /\ sent' >= sent /\ Len(handed') >= Len(handed) /\ Len(calls) \in Nat \ {0}
      /\ Len(handed) \in Nat
  BY <1>1, TopExists DEF Typed
<1>3. CASE Top.handler
  <2> DEFINE document == sent - cursor.ahead + 1
  <2>1. PICK n \in 1 .. MaxTables :
          calls' = [calls EXCEPT ![Len(calls)] =
                     [@ EXCEPT !.step = "unpack", !.document = document, !.tables = n,
                               !.last = sent]]
    BY <1>3 DEF Pop
  <2> DEFINE c == [Top EXCEPT !.step = "unpack", !.document = document, !.tables = n,
                              !.last = sent]
  <2>2. Top \in CallState /\ Stands(Top, cursor, sent, Len(handed)) /\ ~ Top.stale
    BY <1>1, TopStands DEF Stands
  <2>3. document \in Nat /\ n \in Nat
    <3>1. cursor.ahead \in Nat /\ cursor.ahead <= sent /\ MaxTables \in Nat
      BY <1>1, <1>2, CursorAssumption DEF IInv, Counted, Typed, CursorState
    <3> QED BY <1>1, <3>1
  <2> HIDE DEF document
  <2>4. c \in CallState /\ c.step = "unpack" /\ c.last = sent /\ ~ c.stale
    BY <1>1, <2>2, <2>3 DEF CallState
  <2>5. calls' = [calls EXCEPT ![Len(calls)] = c]
    BY <2>1 DEF Top
  <2>6. Stands(c, cursor', sent', Len(handed'))
    <3>1. n > 0 /\ c.tables = n
      BY <2>2, <2>3 DEF CallState
    <3> QED BY <1>1, <2>4, <3>1 DEF Stands
  <2> HIDE DEF c
  <2>7. calls' \in Seq(CallState) /\ Nested' /\ Located' /\ KeptWhileUnpacked'
    BY <1>1, <1>2, <2>4, <2>5, <2>6, TopChanges
  <2> QED BY <1>1, <2>7 DEF IInv, Typed
<1>4. CASE ~ Top.handler
  <2>1. calls' = SubSeq(calls, 1, Len(calls) - 1) /\ Len(calls) - 1 \in 0 .. Len(calls) - 1
    BY <1>2, <1>4 DEF Pop, Return
  <2>2. calls' \in Seq(CallState) /\ Nested' /\ Located' /\ KeptWhileUnpacked'
    BY <1>1, <1>2, <2>1, CallsEndKeeps
  <2> QED BY <1>1, <2>2 DEF IInv, Typed
<1> QED BY <1>3, <1>4

(* A call returns, or an error leaves it. *)
LEMMA Left == ASSUME IInv, calls # <<>>, Raise \/ \E how : Return(how)
  PROVE \E n \in 0 .. Len(calls) - 1 : calls' = SubSeq(calls, 1, n)
<1>1. Len(calls) \in Nat \ {0}
  BY TopExists DEF IInv
<1>2. CASE Raise
  BY <1>2 DEF Raise
<1>3. CASE \E how : Return(how)
  BY <1>1, <1>3 DEF Return
<1> QED BY <1>2, <1>3

LEMMA LeftKeeps ==
  ASSUME IInv, calls # <<>>, Raise \/ \E how : Return(how),
         UNCHANGED <<total, sent, cursor, handed>>
  PROVE  IInv'
<1>1. PICK n \in 0 .. Len(calls) - 1 : calls' = SubSeq(calls, 1, n)
  BY Left
<1>2. sent' \in Nat /\ sent' >= sent /\ handed' \in Seq(Nat) /\ Len(handed') >= Len(handed)
  BY DEF IInv, Typed
<1>3. calls' \in Seq(CallState) /\ Nested' /\ Located' /\ KeptWhileUnpacked'
  BY <1>1, <1>2, CallsEndKeeps
<1> QED BY <1>3 DEF IInv, Typed, Counted, Ended, InOrder, AllHanded

LEMMA NextEndsKeeps == ASSUME IInv, NextEnds PROVE IInv'
<1>1. calls # <<>> /\ UNCHANGED <<total, sent, cursor, handed>>
  BY DEF NextEnds, InCall
<1>2. Raise \/ \E how : Return(how)
  BY DEF NextEnds, NoDocument
<1> QED BY <1>1, <1>2, LeftKeeps

(* The innermost call goes on to its next table or to the handler. *)
LEMMA UnpackingKeeps ==
  ASSUME IInv, calls # <<>>, NEW step \in {"unpack", "handler"}, NEW n \in Nat,
         step = "unpack" => n > 0,
         calls' = [calls EXCEPT ![Len(calls)] = [Top EXCEPT !.step = step, !.tables = n]],
         UNCHANGED <<total, sent, cursor, handed>>
  PROVE  IInv'
<1> DEFINE c == [Top EXCEPT !.step = step, !.tables = n]
<1>1. Top \in CallState /\ Stands(Top, cursor, sent, Len(handed))
  BY TopStands
<1>2. c \in CallState /\ Stands(c, cursor', sent', Len(handed'))
  BY <1>1 DEF CallState, Stands
<1>3. cursor' \in CursorState /\ sent' \in Nat /\ sent' >= sent /\ handed' \in Seq(Nat)
      /\ Len(handed') >= Len(handed)
  BY DEF IInv, Typed
<1>4. calls' = [calls EXCEPT ![Len(calls)] = c]
  OBVIOUS
<1> HIDE DEF c
<1>5. calls' \in Seq(CallState) /\ Nested' /\ Located' /\ KeptWhileUnpacked'
  BY <1>2, <1>3, <1>4, TopChanges
<1> QED BY <1>5 DEF IInv, Typed, Counted, Ended, InOrder, AllHanded

LEMMA UnpackTableKeeps == ASSUME IInv, UnpackTable PROVE IInv'
<1>1. /\ calls # <<>> /\ Top.step = "unpack" /\ UNCHANGED <<total, sent, cursor, handed>>
      /\ calls' = [calls EXCEPT ![Len(calls)] =
                     [Top EXCEPT !.step = "handler", !.tables = Top.tables - 1]]
  BY DEF UnpackTable, InCall
<1>2. Top.tables - 1 \in Nat
  BY <1>1, TopStands DEF Stands, CallState
<1> QED BY <1>1, <1>2, UnpackingKeeps

LEMMA HandlerReturnsKeeps == ASSUME IInv, HandlerReturns PROVE IInv'
<1>1. calls # <<>> /\ UNCHANGED <<total, sent, cursor, handed>>
  BY DEF HandlerReturns, InCall
<1>2. CASE Outermost
  BY <1>1, <1>2, LeftKeeps DEF HandlerReturns
<1>3. CASE ~ Outermost
  <2>1. Top \in CallState /\ Top.tables \in Nat /\ Top.tables > 0
    BY <1>1, <1>3, TopStands DEF Outermost, CallState
  <2>2. [Top EXCEPT !.step = "unpack"] = [Top EXCEPT !.step = "unpack", !.tables = Top.tables]
    BY <2>1 DEF CallState
  <2>3. calls' = [calls EXCEPT ![Len(calls)] = [Top EXCEPT !.step = "unpack"]]
    BY <1>3 DEF HandlerReturns, Go, Top
  <2> QED BY <1>1, <2>1, <2>2, <2>3, UnpackingKeeps
<1> QED BY <1>2, <1>3

LEMMA HandlerRaisesKeeps == ASSUME IInv, HandlerRaises PROVE IInv'
BY LeftKeeps DEF HandlerRaises, InCall

LEMMA InvariantKeeps == ASSUME IInv, [Next]_vars PROVE IInv'
<1>1. ASSUME NEW op \in {"next", "value", "iterator"}, NEW handler \in BOOLEAN,
             Call(op, handler)
      PROVE  IInv'
  BY <1>1, CallKeeps
<1>2. ASSUME Step PROVE IInv'
  BY <1>2, EnterKeeps, ReportKeeps, FetchKeeps, FetchFailsKeeps, EndBatchKeeps, PopKeeps,
     NextEndsKeeps, UnpackTableKeeps, HandlerReturnsKeeps, HandlerRaisesKeeps DEF Step
<1>3. ASSUME UNCHANGED vars PROVE IInv'
  BY <1>3 DEF vars, IInv, Typed, Counted, Ended, Nested, Located, More, InOrder, AllHanded,
     KeptWhileUnpacked
<1> QED BY <1>1, <1>2, <1>3 DEF Next

-----------------------------------------------------------------------------
(* The driver counts what it hands out, and only the innermost call is in it,
   with documents, the end or an error to report (mongoc-cursor.c:1279-1375). *)
THEOREM Invariance == Spec => []IInv
<1> QED BY InitInvariant, InvariantKeeps, PTL DEF Spec

(* Every document is handed out once, in the order of the server, however
   calls are nested and whatever handlers raise (cursor.c:77-83). *)
THEOREM Order == Spec => []InOrder
<1>1. IInv => InOrder
  BY DEF IInv
<1> QED BY <1>1, Invariance, PTL

(* The reply that a document is unpacked from is replaced only by a call that
   its handler made, after all of the batch was taken (bson.c:509-522). *)
THEOREM Kept == Spec => []KeptWhileUnpacked
<1>1. IInv => KeptWhileUnpacked
  BY DEF IInv
<1> QED BY <1>1, Invariance, PTL

EndSaid ==
  Len(calls') < Len(calls) /\ result' = "nil" => cursor'.error = "none" /\ (AllHanded' \/ More')

LEMMA PopSays == ASSUME IInv, Pop PROVE EndSaid
<1>1. cursor'.state = "IN_BATCH" /\ cursor'.error = "none"
  BY PopCounts
<1> QED BY <1>1 DEF EndSaid, More

LEMMA NextEndsSays == ASSUME IInv, NextEnds PROVE EndSaid
<1>1. UNCHANGED <<total, cursor, handed>> /\ calls # <<>> /\ Top.step = "report"
  BY DEF NextEnds, InCall
<1>2. SUFFICES ASSUME result' = "nil" PROVE cursor.error = "none" /\ (AllHanded \/ More)
  BY <1>1 DEF EndSaid, AllHanded, More
<1>3. cursor.error = "none"
  BY <1>2 DEF NextEnds, NoDocument, Return, Raise
<1>4. cursor.state \in {"END_OF_BATCH", "DONE"}
  BY <1>1, <1>3, TopStands DEF Stands
<1> QED BY <1>3, <1>4 DEF IInv, Ended, More

LEMMA Stays ==
  ASSUME IInv, IInv', calls # <<>>, DOMAIN calls' = DOMAIN calls
  PROVE  EndSaid
<1>1. /\ calls \in Seq(CallState) /\ Len(calls) \in Nat /\ DOMAIN calls = 1 .. Len(calls)
      /\ calls' \in Seq(CallState) /\ Len(calls') \in Nat /\ DOMAIN calls' = 1 .. Len(calls')
      /\ Len(calls) \in DOMAIN calls
  BY TopExists DEF IInv, Typed
<1>2. ~ (Len(calls') < Len(calls))
  BY <1>1
<1> QED BY <1>2 DEF EndSaid

LEMMA StepSays == ASSUME IInv, [Next]_vars PROVE EndSaid
<1>0. IInv'
  BY InvariantKeeps
<1>1. ASSUME NEW op \in {"next", "value", "iterator"}, NEW handler \in BOOLEAN,
             Call(op, handler)
      PROVE  EndSaid
  <2>1. /\ DOMAIN calls' = 1 .. Len(calls) + 1 /\ Len(calls) \in Nat
        /\ Len(calls') \in Nat /\ DOMAIN calls' = 1 .. Len(calls')
    BY <1>0, <1>1 DEF Call, IInv, Typed
  <2>2. Len(calls') >= Len(calls)
    BY <2>1
  <2> QED BY <2>1, <2>2 DEF EndSaid
<1>2. CASE Pop
  BY <1>2, PopSays
<1>3. CASE NextEnds
  BY <1>3, NextEndsSays
<1>4. CASE HandlerRaises
  BY <1>4 DEF HandlerRaises, Raise, EndSaid
<1>5. CASE HandlerReturns
  <2>1. CASE Outermost
    BY <1>5, <2>1 DEF HandlerReturns, Return, EndSaid
  <2>2. CASE ~ Outermost
    <3>1. calls # <<>> /\ DOMAIN calls' = DOMAIN calls
      BY <1>5, <2>2 DEF HandlerReturns, Go, InCall
    <3> QED BY <1>0, <3>1, Stays
  <2> QED BY <2>1, <2>2
<1>6. CASE Enter \/ Report \/ EndBatch \/ UnpackTable
  <2>1. calls # <<>> /\ DOMAIN calls' = DOMAIN calls
    BY <1>6 DEF Enter, Report, EndBatch, UnpackTable, Go, InCall
  <2> QED BY <1>0, <2>1, Stays
<1>7. CASE Fetch \/ FetchFails
  <2>1. calls # <<>> /\ DOMAIN calls' = DOMAIN calls
    BY <1>7 DEF Fetch, FetchFails, MustFetch, InCall, Replaced
  <2> QED BY <1>0, <2>1, Stays
<1>8. CASE UNCHANGED vars
  <2>1. Len(calls') = Len(calls) /\ Len(calls) \in Nat
    BY <1>8 DEF vars, IInv, Typed
  <2> QED BY <2>1 DEF EndSaid
<1>9. CASE Step
  BY <1>2, <1>3, <1>4, <1>5, <1>6, <1>7, <1>9 DEF Step
<1> QED BY <1>1, <1>8, <1>9 DEF Next

(* nil without an error means that there is no document now: every one was
   handed out, or the cursor says that there are more (cursor.c:84-89). *)
THEOREM NilIsTheEnd == Spec => NilMeansEnd
<1>1. ASSUME IInv, [Next]_vars
      PROVE  Len(calls') < Len(calls) /\ result' = "nil"
               => cursor'.error = "none" /\ (AllHanded' \/ More')
  BY <1>1, StepSays DEF EndSaid
<1> QED BY <1>1, Invariance, PTL DEF Spec, NilMeansEnd


-----------------------------------------------------------------------------
(* Cursors implements DocumentStream *)

LEMMA StartsStream == Init => Stream!Init
<1> SUFFICES ASSUME Init PROVE Stream!Init
  OBVIOUS
<1>1. total \in Nat /\ handed = <<>>
  <2>1. MaxDocuments \in Nat
    BY CursorAssumption, Zenon
  <2>2. total \in 0 .. MaxDocuments /\ handed = <<>>
    BY Zenon DEF Init
  <2> QED BY <2>1, <2>2
<1>2. cursor.error \in {"none", "failed"} /\ cursor.state \in {"UNPRIMED", "IN_BATCH"}
  BY DEF Init, NewCursor
<1> QED BY <1>1, <1>2 DEF Stream!Init, Status, More

(* A step that hands out nothing keeps the status, notices the end or fails. *)
LEMMA StatusIsKept ==
  ASSUME UNCHANGED <<total, handed>>, Status' = Status
  PROVE  UNCHANGED Stream!vars
BY DEF Stream!vars

LEMMA EnterStreams == ASSUME IInv, Enter PROVE UNCHANGED Stream!vars
<1>1. cursor \in CursorState /\ UNCHANGED <<total, handed>>
      /\ cursor' = [cursor EXCEPT !.error = IF @ = "none" /\ cursor.state = "DONE" THEN "completed" ELSE @]
  BY DEF Enter, IInv, Typed
<1>2. /\ cursor'.state = cursor.state
      /\ cursor'.error = IF cursor.error = "none" /\ cursor.state = "DONE" THEN "completed" ELSE cursor.error
  BY <1>1 DEF CursorState
<1>3. Status' = Status
  BY <1>2 DEF Status, More
<1> QED BY <1>1, <1>3, StatusIsKept

(* Who is in the loop of the driver found the cursor open, and it still is: a
   call inside of a handler cannot be in the middle of that loop. *)
LEMMA AdvancesOpen == ASSUME IInv, InCall("advance")
  PROVE cursor \in CursorState /\ More /\ Status = "open"
<1>1. More /\ cursor \in CursorState
  BY TopStands DEF InCall, Stands, More, IInv, Typed
<1> QED BY <1>1 DEF Status, More

LEMMA FetchStreams == ASSUME IInv, Fetch PROVE UNCHANGED Stream!vars
<1>1. cursor \in CursorState /\ More /\ Status = "open" /\ UNCHANGED <<total, handed>>
  BY AdvancesOpen DEF Fetch, MustFetch
<1>2. cursor'.error = cursor.error /\ cursor'.state = "IN_BATCH"
  BY <1>1 DEF Fetch, CursorState
<1>3. Status' = Status
  BY <1>1, <1>2 DEF Status, More
<1> QED BY <1>1, <1>3, StatusIsKept

LEMMA FetchFailsStreams == ASSUME IInv, FetchFails PROVE Stream!Fail
<1>1. cursor \in CursorState /\ Status = "open" /\ UNCHANGED <<total, handed>>
  BY AdvancesOpen DEF FetchFails, MustFetch
<1>2. cursor'.error = "failed"
  BY <1>1 DEF FetchFails, CursorState
<1>3. Status' = "failed"
  BY <1>2 DEF Status
<1> QED BY <1>1, <1>3 DEF Stream!Fail

LEMMA EndBatchStreams == ASSUME IInv, EndBatch PROVE Stream!End \/ UNCHANGED Stream!vars
<1>1. /\ cursor \in CursorState /\ More /\ Status = "open" /\ UNCHANGED <<total, handed>>
      /\ cursor' = [cursor EXCEPT !.state = AfterBatch]
      /\ cursor.state = "IN_BATCH" /\ cursor.ahead = 0
  BY AdvancesOpen DEF EndBatch
<1>2. cursor'.error = "none" /\ cursor'.state = AfterBatch
  BY <1>1 DEF CursorState, More
<1>3. CASE cursor.id
  <2>1. Status' = "open"
    BY <1>2, <1>3 DEF Status, More, AfterBatch
  <2> QED BY <1>1, <2>1, StatusIsKept
<1>4. CASE ~ cursor.id
  <2>1. Status' = "ended"
    BY <1>2, <1>4 DEF Status, More, AfterBatch
  <2>2. Len(handed) = total
    BY <1>1, <1>4 DEF IInv, Typed, Counted, Ended
  <2> QED BY <1>1, <2>1, <2>2 DEF Stream!End
<1> QED BY <1>3, <1>4

LEMMA PopStreams == ASSUME IInv, Pop PROVE Stream!Give
<1>1. /\ cursor \in CursorState /\ More /\ Status = "open" /\ UNCHANGED total
      /\ cursor.ahead > 0 /\ handed' = Append(handed, sent - cursor.ahead + 1)
  BY AdvancesOpen DEF Pop
<1>2. Status' = "open"
  <2>1. cursor'.error = "none" /\ cursor'.state = "IN_BATCH"
    BY PopCounts
  <2> QED BY <2>1 DEF Status, More
<1>3. /\ total \in Nat /\ sent \in 0 .. total /\ Len(handed) \in Nat /\ cursor.ahead \in Nat
      /\ Len(handed) + cursor.ahead = sent
  BY <1>1 DEF IInv, Typed, Counted, CursorState
<1>4. Len(handed) < total /\ sent - cursor.ahead + 1 = Len(handed) + 1
  BY <1>1, <1>3
<1> QED BY <1>1, <1>2, <1>4 DEF Stream!Give

LEMMA StepImplementsStream == IInv /\ [Next]_vars => [Stream!Next]_(Stream!vars)
<1> SUFFICES ASSUME IInv, [Next]_vars PROVE Stream!Next \/ UNCHANGED Stream!vars
  OBVIOUS
<1>1. ASSUME UNCHANGED <<total, cursor, handed>> PROVE UNCHANGED Stream!vars
  BY <1>1, StatusIsKept DEF Status, More
<1>2. ASSUME NEW op \in {"next", "value", "iterator"}, NEW handler \in BOOLEAN, Call(op, handler)
      PROVE  UNCHANGED Stream!vars
  BY <1>1, <1>2 DEF Call
<1>3. CASE Report \/ NextEnds \/ UnpackTable \/ HandlerReturns \/ HandlerRaises
  BY <1>1, <1>3 DEF Report, NextEnds, UnpackTable, HandlerReturns, HandlerRaises
<1>4. CASE Enter
  BY <1>4, EnterStreams
<1>5. CASE Fetch
  BY <1>5, FetchStreams
<1>6. CASE FetchFails
  BY <1>6, FetchFailsStreams DEF Stream!Next
<1>7. CASE EndBatch
  BY <1>7, EndBatchStreams DEF Stream!Next
<1>8. CASE Pop
  BY <1>8, PopStreams DEF Stream!Next
<1>9. CASE UNCHANGED vars
  BY <1>1, <1>9 DEF vars
<1> QED BY <1>2, <1>3, <1>4, <1>5, <1>6, <1>7, <1>8, <1>9 DEF Next, Step

(* A cursor is a stream: documents come in order, the end is behind the last
   one, and nothing comes behind the end or a failure, however calls are nested
   (mongoc-cursor.c:1277-1311). *)
THEOREM Refinement == Spec => DeliversStream
<1>1. Init => Stream!Init
  BY StartsStream
<1>2. IInv /\ [Next]_vars => [Stream!Next]_(Stream!vars)
  BY StepImplementsStream
<1> QED BY <1>1, <1>2, Invariance, PTL DEF Spec, DeliversStream, Stream!Spec


-----------------------------------------------------------------------------
(* A call ends: what is ahead of it becomes less *)

(* What the loop of the driver may still do: one batch that was there or is the
   first, and one more if that was empty. *)
Rounds(c) ==
  CASE cursor.state = "UNPRIMED" -> 5
    [] cursor.state = "IN_BATCH" -> IF c.refreshed THEN 2 ELSE 4
    [] cursor.state = "END_OF_BATCH" -> IF c.refreshed THEN 1 ELSE 3
    [] cursor.state = "DONE" -> 0

(* The steps ahead of the innermost call, but for those of calls that its
   handler makes. *)
Ahead(c) ==
  CASE c.step = "enter" -> 2 * MaxTables + 6
    [] c.step = "advance" -> 2 * MaxTables + Rounds(c)
    [] c.step = "unpack" -> 2 * c.tables
    [] c.step = "handler" -> 2 * c.tables + 1
    [] c.step = "report" -> 0

Progresses ==
  Step => \/ Len(calls') < Len(calls)
          \/ /\ Len(calls') = Len(calls)
             /\ Ahead(Top)' \in Nat /\ Ahead(Top)' < Ahead(Top)

LEMMA TopIsChanged ==
  ASSUME IInv, calls # <<>>, NEW c \in CallState, calls' = [calls EXCEPT ![Len(calls)] = c]
  PROVE  Len(calls') = Len(calls) /\ Top' = c
<1>1. calls \in Seq(CallState) /\ Len(calls) \in DOMAIN calls
  BY TopExists DEF IInv, Typed
<1> QED BY <1>1 DEF Top

LEMMA RoundsAhead ==
  ASSUME NEW c \in CallState, cursor \in CursorState
  PROVE  /\ Rounds(c) \in 0 .. 5
         /\ cursor.state # "DONE" => Rounds(c) > 0
BY DEF Rounds, CallState, CursorState

LEMMA EnterProgresses == ASSUME IInv, Enter PROVE Progresses
<1> DEFINE c == [Top EXCEPT !.step = IF More THEN "advance" ELSE "report"]
<1>1. calls # <<>> /\ Top.step = "enter" /\ Top \in CallState /\ MaxTables \in Nat \ {0}
  BY TopExists, CursorAssumption DEF Enter, InCall, IInv
<1>2. c \in CallState /\ calls' = [calls EXCEPT ![Len(calls)] = c] /\ c.step \in {"advance", "report"}
  BY <1>1 DEF CallState, Enter, Go, Top
<1>3. cursor'.state \in {"UNPRIMED", "IN_BATCH", "END_OF_BATCH", "DONE"}
  BY EnterKeeps DEF IInv, Typed, CursorState
<1>4. c.refreshed \in BOOLEAN
  BY <1>2 DEF CallState
<1> HIDE DEF c
<1>5. Len(calls') = Len(calls) /\ Top' = c
  BY <1>1, <1>2, TopIsChanged
<1>6. Ahead(Top) = 2 * MaxTables + 6
  BY <1>1 DEF Ahead
<1>7. Ahead(Top)' \in {0, 2 * MaxTables + Rounds(Top)'}
  BY <1>2, <1>5 DEF Ahead
<1>8. Rounds(Top)' \in 0 .. 5
  BY <1>3, <1>4, <1>5 DEF Rounds
<1> QED BY <1>1, <1>5, <1>6, <1>7, <1>8 DEF Progresses

(* What the loop has ahead, in terms of the state of the cursor. *)
LEMMA AheadInLoop ==
  ASSUME IInv, InCall("advance")
  PROVE  /\ calls # <<>> /\ Top \in CallState /\ cursor \in CursorState
         /\ cursor.state \in {"UNPRIMED", "IN_BATCH", "END_OF_BATCH"}
         /\ MaxTables \in Nat \ {0}
         /\ Rounds(Top) \in 1 .. 5 /\ Ahead(Top) = 2 * MaxTables + Rounds(Top)
<1>1. calls # <<>> /\ Top.step = "advance" /\ Top \in CallState /\ cursor \in CursorState /\ More
  BY AdvancesOpen, TopExists DEF InCall, IInv
<1>2. cursor.state \in {"UNPRIMED", "IN_BATCH", "END_OF_BATCH"}
  BY <1>1 DEF More, CursorState
<1>3. Rounds(Top) \in 1 .. 5
  <2>1. Rounds(Top) \in 0 .. 5 /\ Rounds(Top) > 0
    BY <1>1, <1>2, RoundsAhead
  <2> QED BY <2>1
<1>4. Ahead(Top) = 2 * MaxTables + Rounds(Top)
  BY <1>1 DEF Ahead
<1> QED BY <1>1, <1>2, <1>3, <1>4, CursorAssumption

(* A call that goes from the loop to its report has less ahead. *)
LEMMA ReportsNow ==
  ASSUME IInv, InCall("advance"), Len(calls') = Len(calls), Top'.step = "report"
  PROVE  Progresses
<1>1. Ahead(Top)' = 0
  BY DEF Ahead
<1>2. Ahead(Top) > 0
  BY AheadInLoop
<1> QED BY <1>1, <1>2 DEF Progresses

(* One that stays in the loop has less ahead if it has fewer rounds. *)
LEMMA GoesRound ==
  ASSUME IInv, InCall("advance"), Len(calls') = Len(calls), Top'.step = "advance",
         Rounds(Top)' \in Nat, Rounds(Top)' < Rounds(Top)
  PROVE  Progresses
<1>1. Ahead(Top)' = 2 * MaxTables + Rounds(Top)'
  BY DEF Ahead
<1> QED BY <1>1, AheadInLoop DEF Progresses

LEMMA ReportProgresses == ASSUME IInv, Report PROVE Progresses
<1> DEFINE c == [Top EXCEPT !.step = "report"]
<1>1. InCall("advance") /\ calls # <<>> /\ Top \in CallState
  BY AheadInLoop DEF Report
<1>2. c \in CallState /\ calls' = [calls EXCEPT ![Len(calls)] = c] /\ c.step = "report"
  BY <1>1 DEF CallState, Report, Go, Top
<1> HIDE DEF c
<1>3. Len(calls') = Len(calls) /\ Top' = c
  BY <1>1, <1>2, TopIsChanged
<1> QED BY <1>1, <1>2, <1>3, ReportsNow

(* The reply of the server is one round. *)
LEMMA TopReplaced ==
  ASSUME IInv, MustFetch, NEW step \in {"advance", "report"}, calls' = Replaced(step)
  PROVE  /\ Len(calls') = Len(calls) /\ Top'.step = step
         /\ Top'.refreshed = (Top.refreshed \/ cursor.state = "END_OF_BATCH")
<1>1. calls # <<>> /\ Top \in CallState /\ calls \in Seq(CallState) /\ Len(calls) \in DOMAIN calls
  BY TopExists DEF MustFetch, InCall, IInv, Typed
<1>2. Len(calls) \in Nat /\ DOMAIN calls = 1 .. Len(calls)
  BY <1>1
<1>3. DOMAIN calls' = 1 .. Len(calls)
  BY <1>2 DEF Replaced
<1>4. Len(calls') = Len(calls)
  <2>1. calls' = [i \in 1 .. Len(calls) |-> Replaced(step)[i]]
    BY <1>2 DEF Replaced
  <2> QED BY <1>2, <2>1
<1>5. Top' = [Top EXCEPT !.step = step, !.refreshed = @ \/ cursor.state = "END_OF_BATCH"]
  <2>1. ~ (Len(calls) < Len(calls)) /\ Top = calls[Len(calls)]
    BY <1>2 DEF Top
  <2>2. calls'[Len(calls)] =
          [calls[Len(calls)] EXCEPT !.step = step, !.refreshed = @ \/ cursor.state = "END_OF_BATCH"]
    BY <1>1, <2>1, Zenon DEF Replaced
  <2>3. Top' = calls'[Len(calls)]
    BY <1>4 DEF Top
  <2> QED BY <2>1, <2>2, <2>3, Zenon
<1> QED BY <1>1, <1>4, <1>5 DEF CallState

LEMMA FetchProgresses == ASSUME IInv, Fetch PROVE Progresses
<1>1. InCall("advance") /\ MustFetch /\ ~ GiveUp /\ NeedsBatch /\ calls' = Replaced("advance")
  BY DEF Fetch, MustFetch
<1>2. /\ Len(calls') = Len(calls) /\ Top'.step = "advance"
      /\ Top'.refreshed = (Top.refreshed \/ cursor.state = "END_OF_BATCH")
  BY <1>1, TopReplaced
<1>3. cursor \in CursorState /\ Top \in CallState
  BY <1>1, AheadInLoop
<1>4. cursor'.state = "IN_BATCH"
  BY <1>3 DEF Fetch, CursorState
<1>5. CASE cursor.state = "UNPRIMED"
  <2>1. Rounds(Top) = 5
    BY <1>5 DEF Rounds
  <2>2. Rounds(Top)' \in {2, 4}
    BY <1>4 DEF Rounds
  <2> QED BY <1>1, <1>2, <2>1, <2>2, GoesRound
<1>6. CASE cursor.state = "END_OF_BATCH"
  <2>1. ~ Top.refreshed /\ Top'.refreshed
    BY <1>1, <1>2, <1>6 DEF GiveUp
  <2>2. Rounds(Top) = 3
    BY <1>6, <2>1 DEF Rounds
  <2>3. Rounds(Top)' = 2
    BY <1>4, <2>1 DEF Rounds
  <2> QED BY <1>1, <1>2, <2>2, <2>3, GoesRound
<1> QED BY <1>1, <1>5, <1>6 DEF NeedsBatch

LEMMA FetchFailsProgresses == ASSUME IInv, FetchFails PROVE Progresses
<1>1. InCall("advance") /\ MustFetch /\ calls' = Replaced("report")
  BY DEF FetchFails, MustFetch
<1> QED BY <1>1, TopReplaced, ReportsNow

LEMMA EndBatchProgresses == ASSUME IInv, EndBatch PROVE Progresses
<1>1. InCall("advance") /\ cursor.state = "IN_BATCH" /\ calls # <<>>
      /\ Top \in CallState /\ cursor \in CursorState /\ cursor' = [cursor EXCEPT !.state = AfterBatch]
  BY AheadInLoop DEF EndBatch
<1>2. CASE AfterBatch = "DONE"
  <2> DEFINE c == [Top EXCEPT !.step = "report"]
  <2>1. c \in CallState /\ calls' = [calls EXCEPT ![Len(calls)] = c] /\ c.step = "report"
    BY <1>1, <1>2 DEF CallState, EndBatch, Go, Top
  <2> HIDE DEF c
  <2>2. Len(calls') = Len(calls) /\ Top' = c
    BY <1>1, <2>1, TopIsChanged
  <2> QED BY <1>1, <2>1, <2>2, ReportsNow
<1>3. CASE AfterBatch # "DONE"
  <2>1. calls' = calls /\ AfterBatch = "END_OF_BATCH"
    BY <1>3 DEF EndBatch, AfterBatch
  <2>2. cursor'.state = "END_OF_BATCH"
    BY <1>1, <2>1 DEF CursorState
  <2>3. Rounds(Top) = IF Top.refreshed THEN 2 ELSE 4
    BY <1>1 DEF Rounds
  <2>4. Top' = Top /\ Len(calls') = Len(calls) /\ Top'.step = "advance"
    BY <1>1, <2>1 DEF Top, InCall
  <2>5. Rounds(Top)' = IF Top.refreshed THEN 1 ELSE 3
    BY <2>2, <2>4 DEF Rounds
  <2> QED BY <1>1, <2>3, <2>4, <2>5, GoesRound
<1> QED BY <1>2, <1>3

(* What a call leaves is fewer calls. *)
LEMMA LeftProgresses ==
  ASSUME IInv, calls # <<>>, Raise \/ \E how : Return(how)
  PROVE  Progresses
<1>1. PICK n \in 0 .. Len(calls) - 1 : calls' = SubSeq(calls, 1, n)
  BY Left
<1>2. calls \in Seq(CallState)
  BY DEF IInv, Typed
<1>3. Len(calls') = n /\ Len(calls) \in Nat
  BY <1>1, <1>2
<1> QED BY <1>3 DEF Progresses

LEMMA PopProgresses == ASSUME IInv, Pop PROVE Progresses
<1>1. /\ InCall("advance") /\ calls # <<>> /\ Top \in CallState /\ MaxTables \in Nat \ {0}
      /\ Rounds(Top) \in 1 .. 5 /\ Ahead(Top) = 2 * MaxTables + Rounds(Top)
  BY AheadInLoop DEF Pop
<1>2. CASE Top.handler
  <2> DEFINE document == sent - cursor.ahead + 1
  <2>1. PICK n \in 1 .. MaxTables :
          calls' = [calls EXCEPT ![Len(calls)] =
                     [@ EXCEPT !.step = "unpack", !.document = document, !.tables = n, !.last = sent]]
    BY <1>2 DEF Pop
  <2> DEFINE c == [Top EXCEPT !.step = "unpack", !.document = document, !.tables = n, !.last = sent]
  <2>2. document \in Nat /\ n \in Nat /\ n <= MaxTables /\ sent \in Nat
    <3>1. cursor.ahead \in Nat /\ cursor.ahead <= sent /\ sent \in Nat
      BY <1>1 DEF IInv, Counted, Typed, CursorState
    <3> QED BY <1>1, <3>1
  <2> HIDE DEF document
  <2>3. c \in CallState /\ c.step = "unpack" /\ c.tables = n
    BY <1>1, <2>2 DEF CallState
  <2>4. calls' = [calls EXCEPT ![Len(calls)] = c]
    BY <2>1 DEF Top
  <2> HIDE DEF c
  <2>5. Len(calls') = Len(calls) /\ Top' = c
    BY <1>1, <2>3, <2>4, TopIsChanged
  <2>6. Ahead(Top)' = 2 * n
    BY <2>3, <2>5 DEF Ahead
  <2> QED BY <1>1, <2>2, <2>5, <2>6 DEF Progresses
<1>3. CASE ~ Top.handler
  BY <1>1, <1>3, LeftProgresses DEF Pop
<1> QED BY <1>2, <1>3

LEMMA UnpackTableProgresses == ASSUME IInv, UnpackTable PROVE Progresses
<1> DEFINE c == [Top EXCEPT !.step = "handler", !.tables = Top.tables - 1]
<1>1. /\ calls # <<>> /\ Top.step = "unpack" /\ Top \in CallState /\ Top.tables \in Nat \ {0}
      /\ calls' = [calls EXCEPT ![Len(calls)] = c]
  BY TopStands DEF UnpackTable, InCall, Stands, CallState
<1>2. c \in CallState /\ c.step = "handler" /\ c.tables = Top.tables - 1
  <2>1. Top.tables - 1 \in Nat
    BY <1>1
  <2> QED BY <1>1, <2>1 DEF CallState
<1> HIDE DEF c
<1>3. Len(calls') = Len(calls) /\ Top' = c
  BY <1>1, <1>2, TopIsChanged
<1>4. Ahead(Top) = 2 * Top.tables
  BY <1>1 DEF Ahead
<1>5. Ahead(Top)' = 2 * (Top.tables - 1) + 1
  BY <1>2, <1>3 DEF Ahead
<1> QED BY <1>1, <1>3, <1>4, <1>5 DEF Progresses

LEMMA HandlerReturnsProgresses == ASSUME IInv, HandlerReturns PROVE Progresses
<1>1. calls # <<>> /\ Top.step = "handler" /\ Top \in CallState /\ Top.tables \in Nat
  BY TopStands DEF HandlerReturns, InCall, CallState
<1>2. CASE Outermost
  BY <1>1, <1>2, LeftProgresses DEF HandlerReturns
<1>3. CASE ~ Outermost
  <2> DEFINE c == [Top EXCEPT !.step = "unpack"]
  <2>1. c \in CallState /\ calls' = [calls EXCEPT ![Len(calls)] = c] /\ c.step = "unpack"
        /\ c.tables = Top.tables
    BY <1>1, <1>3 DEF CallState, HandlerReturns, Go, Top
  <2> HIDE DEF c
  <2>2. Len(calls') = Len(calls) /\ Top' = c
    BY <1>1, <2>1, TopIsChanged
  <2>3. Ahead(Top) = 2 * Top.tables + 1
    BY <1>1 DEF Ahead
  <2>4. Ahead(Top)' = 2 * Top.tables
    BY <2>1, <2>2 DEF Ahead
  <2> QED BY <1>1, <2>2, <2>3, <2>4 DEF Progresses
<1> QED BY <1>2, <1>3

(* Every step of the code finishes the innermost call, or others with it, or
   leaves it less to do: at most two replies of the server (the first batch or
   what is left of one, and one more), and two steps for each table.  So no
   call can go on forever unless handlers make calls forever
   (mongoc-cursor.c:1311-1339, bson.c:509-522). *)
THEOREM Progress == Spec => [][Progresses]_vars
<1>1. ASSUME IInv, [Next]_vars PROVE Progresses
  <2> SUFFICES ASSUME Step PROVE Progresses
    BY DEF Progresses
  <2>1. CASE NextEnds \/ HandlerRaises
    <3>1. calls # <<>> /\ (Raise \/ \E how : Return(how))
      BY <2>1 DEF NextEnds, NoDocument, HandlerRaises, InCall
    <3> QED BY <1>1, <3>1, LeftProgresses
  <2> QED
    BY <1>1, <2>1, EnterProgresses, ReportProgresses, FetchProgresses, FetchFailsProgresses,
       EndBatchProgresses, PopProgresses, UnpackTableProgresses, HandlerReturnsProgresses DEF Step
<1> QED BY <1>1, Invariance, PTL DEF Spec
=============================================================================
