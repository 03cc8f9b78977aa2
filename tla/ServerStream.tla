---------------------------- MODULE ServerStream ----------------------------
(***************************************************************************)
(* One inbound REST request: restHandler.ServeHTTP of vanguard.go and the  *)
(* serverStream of stream_handler.go it hands to Server.Call.  The handler *)
(* is the environment: it calls Receive, Send and SendHeaders in any order *)
(* and returns whenever it likes, with or without an error.  An operator   *)
(* that starts with Bad is a plausible mistake in the one that follows it. *)
(* A client that gives up its upload may fail a read of it, or cut it      *)
(* short; ChunkedBody has the bytes of that.                               *)
(***************************************************************************)
EXTENDS Naturals

CONSTANTS MaxBody,  \* bound on the size of a request body: chunks of a client
                    \* stream, bytes where no body is allowed
          MaxCalls  \* bound on the stream calls of the handler

ASSUME ConstantsAssumption == MaxBody \in Nat /\ MaxCalls \in Nat

Kinds == {"good", "badType", "badBody"} \* a message that encodes, is none, does not

VARIABLES
    req,     \* the request, and what its route maps
    in,      \* receive side: body and done, what is left of the body, whether it was cut
             \* short and what a reader sees after the cut, messages decoded and with URL
             \* fields, Receive has failed, Receive has answered EOF
    resp,    \* send side: sent, headersSet and compressWriter
    wire,    \* the HTTP response: status, Content-Encoding, what its body holds, its end
    lost,    \* a Send has failed
    callErr, \* what Server.Call returns
    pc, calls

vars == <<req, in, resp, wire, lost, callErr, pc, calls>>

Requests ==
    {r \in [route : {"found", "none", "otherMethod", "unsupported"},
            type : {"unary", "client", "server"}, mapsBody : BOOLEAN, chunked : BOOLEAN,
            encoding : {"identity", "known", "unknown"}, accepts : BOOLEAN,
            timeout : {"valid", "invalid"}, body : 0 .. MaxBody] :
        r.type = "client" => r.mapsBody}

Streaming == req.type = "server"
ClientStreaming == req.type = "client"

(* negotiate: the response reuses the request's compressor, or one accepted. *)
RequestCompressor == req.encoding = "known"
ResponseCompressor == RequestCompressor \/ req.accepts

Init ==
    /\ req \in Requests
    /\ in = [body |-> "none", done |-> FALSE, left |-> req.body, cut |-> "no", seen |-> 0,
             urls |-> 0, failed |-> FALSE, ended |-> FALSE]
    /\ resp = [sent |-> FALSE, headersSet |-> FALSE, compressed |-> FALSE]
    /\ wire = [status |-> "none", encoding |-> "none", parts |-> {}, messages |-> 0,
               end |-> "open"]
    /\ lost = FALSE /\ callErr = "none" /\ pc = "match" /\ calls = 0

---------------------------------------------------------------------------
(* ServeHTTP, up to the call *)

Unserved == req.route # "found" \/ req.encoding = "unknown" \/ req.timeout = "invalid"

(* httpWriteStatus *)
ErrorResponse ==
    [wire EXCEPT !.status = "failed", !.encoding = "identity", !.parts = @ \cup {"error"},
                 !.end = "clean"]

Reject ==
    /\ pc = "match" /\ Unserved
    /\ wire' = ErrorResponse /\ pc' = "done"
    /\ UNCHANGED <<req, in, resp, lost, callErr, calls>>

Dispatch ==
    /\ pc = "match" /\ ~Unserved
    /\ pc' = "call"
    /\ UNCHANGED <<req, in, resp, wire, lost, callErr, calls>>

---------------------------------------------------------------------------
(* Receive *)

Call ==
    /\ pc = "call" /\ calls < MaxCalls /\ calls' = calls + 1
    /\ UNCHANGED <<req, callErr, pc>>

ReceiveCall == Call /\ UNCHANGED <<resp, wire, lost>>

Failed(side) == [side EXCEPT !.failed = TRUE]
Message(side, first) ==
    [side EXCEPT !.seen = @ + 1, !.urls = IF first THEN @ + 1 ELSE @]

(* hasBody, which reads a byte of a body of unknown length. *)
Probed(side) == [side EXCEPT !.left = IF req.chunked /\ @ > 0 THEN @ - 1 ELSE @]

(* openBody, on the first Receive that gets past the message's type. *)
First == in.body = "none"
OpenFails ==
    /\ First
    /\ \/ ~req.mapsBody /\ in.left > 0 /\ in' = Failed(Probed(in))
       \/ req.mapsBody /\ RequestCompressor /\ in' = Failed(in)
Opened == [in EXCEPT !.body = "open"]
CanOpen == First => req.mapsBody \/ in.left = 0

ReceiveDone == ReceiveCall /\ in.done /\ in' = [in EXCEPT !.ended = TRUE]

(* The message is no proto.Message, or openBody fails. *)
ReceiveRejected == ReceiveCall /\ ~in.done /\ (in' = Failed(in) \/ OpenFails)

(* decodeBody and decodeURL, either of which may fail. *)
ReceiveUnary ==
    /\ ReceiveCall /\ ~in.done /\ ~ClientStreaming /\ CanOpen
    /\ LET read == [Opened EXCEPT !.done = TRUE, !.left = 0]
       IN  in' \in {Message(read, TRUE), Failed(read)}

BadHasChunk == TRUE
HasChunk == in.left > 0

(* A chunk of the upload; the first carries the URL fields, which may not decode. *)
ReceiveChunk ==
    /\ ReceiveCall /\ ~in.done /\ ClientStreaming /\ HasChunk
    /\ LET read == [Opened EXCEPT !.left = @ - 1]
       IN  in' = Message(read, First) \/ (First /\ in' = Failed(read))

ReceiveReadFails ==
    /\ ReceiveCall /\ ~in.done /\ ClientStreaming
    /\ in' = Failed(Opened)

(* The client gave up and net/http says io.ErrUnexpectedEOF, which readChunk takes for *)
(* that of a short last chunk, maybe empty.  The chunked coding, a decompressor and    *)
(* the cap of maxReadBytes repeat it; a bare body with a Content-Length ends with      *)
(* io.EOF.  Once every byte is there only the first two can still miss their own end.  *)
OwnEnd == req.chunked \/ RequestCompressor

ReceiveCut ==
    /\ ReceiveCall /\ ~in.done /\ ClientStreaming
    /\ \E cut \in {"ends", "repeats"} :
          /\ in.cut = "no" => (in.left > 0 \/ OwnEnd) /\ (cut = "ends" => ~OwnEnd)
          /\ in.cut # "no" => in.cut = "repeats" /\ cut = "repeats"
          /\ LET read == [Opened EXCEPT !.left = 0, !.cut = cut]
             IN  in' = Message(read, First) \/ (First /\ in' = Failed(read))

(* An empty upload is still one message, carrying the URL fields. *)
BadAtEnd(read) == [read EXCEPT !.ended = TRUE]
AtEnd(read) == IF First THEN Message(read, TRUE) ELSE [read EXCEPT !.ended = TRUE]

ReceiveEnd ==
    /\ ReceiveCall /\ ~in.done /\ ClientStreaming /\ in.left = 0 /\ in.cut # "repeats"
    /\ LET read == [Opened EXCEPT !.done = TRUE]
       IN  in' = AtEnd(read) \/ (First /\ in' = Failed(read))

---------------------------------------------------------------------------
(* SendHeaders, Send and flushHeaders *)

(* The status line, with a Content-Encoding once there is a compressor. *)
BadEncoding(compressed) == "identity"
Encoding(compressed) == IF compressed THEN "compressed" ELSE "none"

Committed(compressed) ==
    IF resp.headersSet THEN wire
    ELSE [wire EXCEPT !.status = "ok", !.encoding = Encoding(compressed)]

CommitsTo(side, compressed) ==
    IF resp.headersSet THEN side
    ELSE [side EXCEPT !.headersSet = TRUE, !.compressed = compressed]

(* The pool has no compressor: nothing is written. *)
FlushFails == ~resp.headersSet /\ ResponseCompressor

SendHeaders ==
    /\ Call
    /\ \/ /\ resp' = CommitsTo(resp, ResponseCompressor)
          /\ wire' = Committed(ResponseCompressor)
       \/ FlushFails /\ UNCHANGED <<resp, wire>>
    /\ UNCHANGED <<in, lost>>

SendCall == Call /\ UNCHANGED in
Sent == [resp EXCEPT !.sent = TRUE]

(* A second message of a unary response, or no proto.Message, or no compressor. *)
BadTooMany == FALSE
TooMany == resp.sent /\ ~Streaming

SendRejected(kind) ==
    /\ SendCall
    /\ \/ TooMany /\ resp' = resp
       \/ ~TooMany /\ (kind = "badType" \/ FlushFails) /\ resp' = Sent
    /\ lost' = TRUE /\ UNCHANGED wire

(* The message is encoded and a streamed one flushed; either may fail after    *)
(* part of it was written.                                                     *)
Part == IF CommitsTo(Sent, ResponseCompressor).compressed THEN "compressed" ELSE "plain"

Send(kind) ==
    /\ SendCall /\ ~TooMany /\ kind # "badType"
    /\ resp' = CommitsTo(Sent, ResponseCompressor)
    /\ \/ /\ kind = "good"
          /\ wire' = [Committed(ResponseCompressor) EXCEPT
                         !.parts = @ \cup {Part}, !.messages = @ + 1]
          /\ lost' \in {lost, lost \/ Streaming}
       \/ /\ wire' \in {Committed(ResponseCompressor),
                        [Committed(ResponseCompressor) EXCEPT !.parts = @ \cup {Part}]}
          /\ lost' = TRUE

---------------------------------------------------------------------------
(* The handler returns, and ServeHTTP ends the response *)

Return(err) ==
    /\ pc = "call"
    /\ callErr' = err /\ pc' = "finish"
    /\ UNCHANGED <<req, in, resp, wire, lost, calls>>

BadNoResponse == FALSE
NoResponse == ~resp.sent /\ ~Streaming
CallFails == callErr = "error" \/ NoResponse

Finish == pc = "finish" /\ pc' = "done" /\ UNCHANGED <<req, in, lost, callErr, calls>>

(* close: an empty response gets its headers, a compressed body its end; an    *)
(* error there comes from the connection.                                      *)
FinishClose ==
    /\ Finish /\ ~CallFails
    /\ resp' = CommitsTo(resp, FALSE)
    /\ \E end \in {"clean"} \cup (IF resp.compressed THEN {"broken"} ELSE {}) :
          wire' = [Committed(FALSE) EXCEPT !.end = end]

(* The status line is sent, so aborting is the only way to report the error. *)
BadCommits == FALSE
Commits == resp.headersSet

FinishAbort ==
    /\ Finish /\ CallFails /\ Commits
    /\ wire' = [wire EXCEPT !.end = "aborted"]
    /\ UNCHANGED resp

FinishError ==
    /\ Finish /\ CallFails /\ ~Commits
    /\ wire' = ErrorResponse
    /\ UNCHANGED resp

Served == pc = "done" /\ UNCHANGED vars

Next ==
    \/ Reject \/ Dispatch
    \/ ReceiveDone \/ ReceiveRejected \/ ReceiveUnary
    \/ ReceiveChunk \/ ReceiveReadFails \/ ReceiveCut \/ ReceiveEnd
    \/ SendHeaders \/ \E kind \in Kinds : SendRejected(kind) \/ Send(kind)
    \/ \E err \in {"ok", "error"} : Return(err)
    \/ FinishClose \/ FinishAbort \/ FinishError
    \/ Served

Spec == Init /\ [][Next]_vars

---------------------------------------------------------------------------
(* Properties *)

(* Every part of the request keeps its type. *)
TypeOK ==
    /\ req \in Requests
    /\ in \in [body : {"none", "open"}, done : BOOLEAN, left : 0 .. MaxBody,
               cut : {"no", "ends", "repeats"}, seen : Nat, urls : Nat, failed : BOOLEAN, ended : BOOLEAN]
    /\ resp \in [sent : BOOLEAN, headersSet : BOOLEAN, compressed : BOOLEAN]
    /\ wire \in [status : {"none", "ok", "failed"},
                 encoding : {"none", "identity", "compressed"},
                 parts : SUBSET {"plain", "compressed", "error"}, messages : Nat,
                 end : {"open", "clean", "broken", "aborted"}]
    /\ lost \in BOOLEAN /\ callErr \in {"none", "ok", "error"}
    /\ pc \in {"match", "call", "finish", "done"} /\ calls \in 0 .. MaxCalls

(* The client can tell a failed call: one whose handler returned an error, or  *)
(* sent nothing where a message is due, never ends as a complete 200 response. *)
FailureVisible ==
    pc = "done" /\ (callErr = "error" \/ (wire.messages = 0 /\ ~lost /\ ~Streaming))
        => wire.status = "failed" \/ wire.end = "aborted"

(* A complete 200 response of a method that answers once holds one message,    *)
(* whatever the handler tried, unless it ignored an error of Send.             *)
AnsweredOnce ==
    wire.status = "ok" /\ wire.end = "clean" /\ ~Streaming /\ ~lost => wire.messages = 1

(* The Content-Encoding on the status line is that of the body after it, also  *)
(* when SendHeaders or an empty response committed it, and an error body is    *)
(* neither compressed nor appended to part of a message.                       *)
EncodingHonest ==
    /\ "compressed" \in wire.parts => wire.encoding = "compressed"
    /\ wire.encoding = "compressed" => wire.parts \subseteq {"compressed"}
    /\ "error" \in wire.parts => wire.parts = {"error"} /\ wire.status = "failed"

(* The status line is written once, and later calls do not change it.          *)
OneStatusLine ==
    [][wire.status # "none" =>
          wire'.status = wire.status /\ wire'.encoding = wire.encoding]_vars

(* A handler that reads to the end without an error had the URL fields once,   *)
(* and the whole request: at least one message and every chunk.  Only an       *)
(* upload with a Content-Length that its client cut short has an end without   *)
(* that; one that repeats the cut has none.  A handler that sees no error is   *)
(* never served a request whose body its route does not map (Receive).         *)
RequestWhole ==
    ~in.failed =>
        /\ in.ended =>
              /\ in.urls = 1 /\ in.cut # "repeats"
              /\ in.cut = "no" =>
                    in.seen = IF ClientStreaming /\ req.body > 0 THEN req.body ELSE 1
        /\ in.seen > 0 /\ ~req.mapsBody => req.body = 0
=============================================================================
