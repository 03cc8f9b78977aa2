--------------------------- MODULE MCClientStream ---------------------------
(* The instance of ClientStream that TLC checks. *)
EXTENDS ClientStreamInv
=============================================================================
