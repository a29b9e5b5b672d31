----------------------------- MODULE MCHandles -----------------------------
(* Handles with its bounds given in the .cfg files. *)
EXTENDS Handles
=============================================================================
