---------------------------- MODULE ChunkedBody ----------------------------
(***************************************************************************)
(* A streamed HTTP body and readChunk of encoding.go, which cuts it into   *)
(* messages: the request of a client stream for serverStream.Receive, the  *)
(* response of a server stream for clientStream.receiveChunk.  The peer    *)
(* writes while the reader reads, and ends the body or gives it up: the    *)
(* server aborts a response it has committed, the client closes its pipe   *)
(* with the error of a Send.                                               *)
(***************************************************************************)
EXTENDS Naturals

CONSTANTS ChunkSize, \* bodyChunkSize
          MaxBytes,  \* bound on the bytes the peer writes
          MaxChunks  \* bound on the calls of Receive

ASSUME ConstantsAssumption ==
    ChunkSize \in Nat \ {0} /\ MaxBytes \in Nat /\ MaxChunks \in Nat

(* How net/http tells the reader that the peer gave up: HTTP/1 with            *)
(* io.ErrUnexpectedEOF, which a chunked or capped body repeats and a body with *)
(* a Content-Length follows with io.EOF; HTTP/2 with an error of its own.      *)
Transports == [unexpectedEOF : BOOLEAN, repeats : BOOLEAN]

VARIABLES
    transport, \* fixed
    body,      \* bytes written and taken off the wire, how it ended, the reader knows
    reader     \* Receive: its label, bytes in the buffer, messages' bytes so far,
               \* size and result of the last, and calls

vars == <<transport, body, reader>>

Init ==
    /\ transport \in Transports
    /\ body = [written |-> 0, taken |-> 0, end |-> "none", told |-> FALSE]
    /\ reader = [pc |-> "idle", buf |-> 0, delivered |-> 0, last |-> 0, result |-> "none",
                 calls |-> 0]

(* The peer *)

Write ==
    /\ body.end = "none" /\ body.written < MaxBytes
    /\ body' = [body EXCEPT !.written = @ + 1]
    /\ UNCHANGED <<transport, reader>>

EndBody(end) ==
    /\ body.end = "none" /\ body' = [body EXCEPT !.end = end]
    /\ UNCHANGED <<transport, reader>>

(* Receive: readChunk with io.ReadFull *)

(* A fresh buffer per chunk, since the message retains it. *)
BadBuffer == reader.buf
Buffer == 0

Receive ==
    /\ reader.pc = "idle" /\ reader.calls < MaxChunks
    /\ reader' = [reader EXCEPT !.pc = "fill", !.buf = Buffer, !.calls = @ + 1]
    /\ UNCHANGED <<transport, body>>

Delivers == [reader EXCEPT !.pc = "idle", !.result = "ok", !.last = reader.buf,
                           !.delivered = @ + reader.buf]
Ends(result) == [reader EXCEPT !.pc = "over", !.result = result, !.last = 0]

(* A read takes as many bytes as have come in and still fit. *)
Fill(n) ==
    /\ reader.pc = "fill" /\ n > 0
    /\ body.taken + n <= body.written /\ reader.buf + n <= ChunkSize
    /\ body' = [body EXCEPT !.taken = @ + n]
    /\ reader' = [reader EXCEPT !.buf = @ + n]
    /\ UNCHANGED transport

BadFull == reader.buf > 0
Full == reader.buf = ChunkSize

ReturnFull ==
    /\ reader.pc = "fill" /\ Full
    /\ reader' = Delivers
    /\ UNCHANGED <<transport, body>>

Exhausted == reader.pc = "fill" /\ ~Full /\ body.taken = body.written
BadSaysEOF == body.end = "eof" /\ reader.buf = 0
SaysEOF == body.end = "eof" \/ (body.end = "aborted" /\ transport.unexpectedEOF
                                   /\ body.told /\ ~transport.repeats)

(* io.ReadFull says io.EOF only with an empty buffer. *)
BadAtEOF == Ends("EOF")
BadEmptyAtEOF == Delivers
AtEOF == IF reader.buf = 0 THEN Ends("EOF") ELSE Delivers

ReadEOF ==
    /\ Exhausted /\ SaysEOF
    /\ reader' = AtEOF
    /\ UNCHANGED <<transport, body>>

(* The peer's io.ErrUnexpectedEOF passes io.ReadFull as it is, and readChunk   *)
(* takes it for that of a short last chunk.                                    *)
ReadAborted ==
    /\ Exhausted /\ body.end = "aborted" /\ ~SaysEOF
    /\ body' = [body EXCEPT !.told = TRUE]
    /\ reader' = IF transport.unexpectedEOF THEN Delivers ELSE Ends("error")
    /\ UNCHANGED transport

(* maxReadBytes, or the context of the call. *)
ReadFails ==
    /\ reader.pc = "fill" /\ ~Full
    /\ reader' = Ends("error")
    /\ UNCHANGED <<transport, body>>

Finished ==
    /\ body.end # "none" /\ (reader.pc = "over" \/ reader.calls = MaxChunks)
    /\ reader.pc # "fill" /\ UNCHANGED vars

Next ==
    \/ Write \/ \E end \in {"eof", "aborted"} : EndBody(end)
    \/ Receive \/ \E n \in 1 .. ChunkSize : Fill(n)
    \/ ReturnFull \/ ReadEOF \/ ReadAborted \/ ReadFails
    \/ Finished

Spec == Init /\ [][Next]_vars

(* What io.ReadFull has begun it goes on with, and the peer goes on writing or *)
(* ends; the application calls Receive until it is over.                       *)
Fairness ==
    /\ WF_vars(Receive)
    /\ WF_vars(ReturnFull \/ ReadEOF \/ ReadAborted \/ \E n \in 1 .. ChunkSize : Fill(n))
    /\ WF_vars(\E end \in {"eof", "aborted"} : EndBody(end))

FairSpec == Spec /\ Fairness

---------------------------------------------------------------------------
(* Properties *)

(* The body and the reader keep their types. *)
TypeOK ==
    /\ transport \in Transports
    /\ body \in [written : 0 .. MaxBytes, taken : 0 .. MaxBytes,
                 end : {"none", "eof", "aborted"}, told : BOOLEAN]
    /\ reader \in [pc : {"idle", "fill", "over"}, buf : 0 .. ChunkSize, delivered : 0 .. MaxBytes,
                   last : 0 .. ChunkSize, result : {"none", "ok", "EOF", "error"},
                   calls : 0 .. MaxChunks]

(* io.EOF comes after every byte the peer wrote has been delivered, and not    *)
(* before the peer has ended the body in one way or the other.                 *)
WholeAtEOF == reader.result = "EOF" => body.end # "none" /\ reader.delivered = body.written

(* A body that its peer completed is cut into chunks with data in them, also   *)
(* an empty body and one of whole chunks (readChunk); what AbortReported is    *)
(* about is the only source of an empty message.                               *)
NoEmptyChunk == reader.result = "ok" /\ reader.last = 0 => body.end = "aborted"

(* "The next slice of body" is a full chunk except at the end: readChunk holds *)
(* back what the peer has flushed until the chunk is full or the body over.    *)
ShortOnlyLast ==
    reader.result = "ok" /\ reader.last < ChunkSize => body.end # "none"

(* Receive does not wait for ever on a body that has ended: it delivers the    *)
(* rest or says that there is none.                                            *)
ReceiveReturns == (reader.pc = "fill" /\ body.end # "none") ~> (reader.pc # "fill")

(* Once a committed response has failed, "aborting is the only way to report  *)
(* the error": a reader that has seen the abort and has no data left to        *)
(* deliver answers with an error.                                              *)
AbortReported ==
    body.told /\ reader.pc # "fill" /\ reader.last = 0 => reader.result = "error"
=============================================================================
