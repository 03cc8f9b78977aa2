--------------------------- MODULE MCGRPCHandler ---------------------------
(* The instance of GRPCHandler, and with it of ServerStream, that TLC checks. *)
EXTENDS GRPCHandler
=============================================================================
