--------------------------- MODULE DocumentStream ---------------------------
(***************************************************************************)
(* What a cursor promises, without batches, replies and calls: documents   *)
(* come one after the other, until the last one or a failure, and nothing  *)
(* comes after either.  A failure can happen at any time, the end is       *)
(* noticed only after the last document.  Cursors implements it.           *)
(***************************************************************************)
EXTENDS Integers, Sequences

VARIABLES
  total,   \* the documents of the result
  handed,  \* those that were handed out
  status   \* "open", "ended" or "failed"

vars == <<total, handed, status>>

Init ==
  /\ total \in Nat
  /\ handed = <<>>
  /\ status \in {"open", "failed"}

Give ==
  /\ status = "open"
  /\ Len(handed) < total
  /\ handed' = Append(handed, Len(handed) + 1)
  /\ UNCHANGED <<total, status>>

End ==
  /\ status = "open"
  /\ Len(handed) = total
  /\ status' = "ended"
  /\ UNCHANGED <<total, handed>>

Fail ==
  /\ status = "open"
  /\ status' = "failed"
  /\ UNCHANGED <<total, handed>>

Next == Give \/ End \/ Fail
Spec == Init /\ [][Next]_vars
=============================================================================
