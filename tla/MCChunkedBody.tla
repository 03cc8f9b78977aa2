--------------------------- MODULE MCChunkedBody ---------------------------
(* The instance of ChunkedBody that TLC checks. *)
EXTENDS ChunkedBody
=============================================================================
