----------------------------- MODULE MCForward -----------------------------
(* The instance of Forward that TLC checks. *)
EXTENDS Forward
=============================================================================
