---------------------------- MODULE ClientStream ----------------------------
(***************************************************************************)
(* clientStream of stream_client.go: one outbound REST call.  Four threads *)
(* meet in it: the sender (Send, CloseSend), the receiver (Receive), the   *)
(* closer (Close) and, for a client stream, the request goroutine openBody *)
(* starts.  httpClient.Do, the io.Pipe under a streamed request and the    *)
(* response body are the environment.  An operator that starts with Bad is *)
(* a plausible mistake in the one that follows it, used to see which       *)
(* property would notice.                                                  *)
(***************************************************************************)
EXTENDS Naturals

CONSTANTS StreamTypes,  \* the stream types to explore, of AllStreamTypes
          MsgKinds,     \* the request messages an application may pass to Send
          Encodings,    \* the Content-Encodings a server may answer with
          MaxSends,     \* bound on the calls of Send and CloseSend
          MaxReceives   \* bound on the calls of Receive

AllStreamTypes == {"unary", "client", "server"}
AllMsgKinds == {"good",        \* encodes
                "badType",     \* not a proto.Message
                "badURL",      \* httpEncodePathValues rejects it
                "badRequest",  \* http.NewRequest rejects its URL
                "badBody"}     \* the codec rejects it; an HttpBody has no codec
AllEncodings == {"identity", "known", "unknown"}

ASSUME ConstantsAssumption ==
    /\ StreamTypes \subseteq AllStreamTypes
    /\ MsgKinds \subseteq AllMsgKinds
    /\ Encodings \subseteq AllEncodings
    /\ MaxSends \in Nat /\ MaxReceives \in Nat

Threads == {"sender", "request", "receiver", "closer"}
Responders == {"sender", "request"}
CtxErrors == {"Canceled", "DeadlineExceeded"}
Errors == CtxErrors \cup {"InvalidArgument", "Internal", "Unavailable",
                          "ResourceExhausted", "Status", "plain"}
Labels == {"idle", "encode", "abort", "lock", "finishing", "info", "finish",
           "flush", "closePipe", "newRequest", "do", "closeReader", "poll",
           "select", "decode", "readAll", "readChunk", "closeRaw", "done"}

VARIABLES
    call,     \* fixed at creation: the stream type, the body mapping, the send compression
    ctxErr,   \* ctx.Err()
    snd,      \* send side: sendClosed, reqURL, pipe, compressWriter, the messages in
              \* the buffer of a unary request and those the compressor holds back
    received, \* receive side
    st,       \* mu and what it guards; responded changes with ready, under mu
    resp,     \* the server's answer: its body undecoded (raw) and its decompressor
    req,      \* the request body as httpClient reads it
    hist,     \* messages Send returned nil for; a Send failed with its request under way
    pc, out, ret, \* of each thread: its label, respond's argument, its last result
    msg,      \* the message in Send
    used      \* calls made, of the bounds

vars == <<call, ctxErr, snd, received, st, resp, req, hist, pc, out, ret, msg, used>>

(* checkStreamType lets a client stream through only with an HttpBody request. *)
Calls == {c \in [type : StreamTypes, mapsBody : BOOLEAN, compress : BOOLEAN] :
            c.type = "client" => c.mapsBody}

ClientStreaming == call.type = "client"
ServerStreaming == call.type = "server"
HasPipe == snd.pipe # "none"
CtxDone == ctxErr # "none"
First == snd.url = "unset"

Init ==
    /\ call \in Calls /\ ctxErr = "none" /\ received = FALSE
    /\ snd = [closed |-> FALSE, url |-> "unset", pipe |-> "none", compressor |-> FALSE,
              body |-> 0, buffered |-> 0]
    /\ st = [mu |-> "free", ready |-> FALSE, dispatch |-> "none", response |-> FALSE,
             rawBody |-> FALSE, closed |-> FALSE]
    /\ resp = [ok |-> TRUE, encoding |-> "identity", raw |-> "none", decomp |-> "none"]
    /\ req = [reader |-> "none", wire |-> 0, end |-> "none"]
    /\ hist = [accepted |-> 0, lost |-> FALSE]
    /\ pc = [t \in Threads |-> "idle"]
    /\ out = [t \in Responders |-> "none"]
    /\ ret = [t \in Threads |-> "none"]
    /\ msg = "good" /\ used = [sends |-> 0, receives |-> 0]

Goto(t, label) == pc' = [pc EXCEPT ![t] = label]
Return(t, result) == Goto(t, "idle") /\ ret' = [ret EXCEPT ![t] = result]

---------------------------------------------------------------------------
(* Send *)

SendFrame == UNCHANGED <<call, ctxErr, received, st, resp>>

CallsSend ==
    /\ pc["sender"] = "idle" /\ used.sends < MaxSends
    /\ used' = [used EXCEPT !.sends = @ + 1]

SendReturns(result) ==
    /\ Return("sender", result)
    /\ hist' = IF result = "ok" THEN [hist EXCEPT !.accepted = @ + 1] ELSE hist
    /\ UNCHANGED out

BadSendFails(err, underway) ==
    /\ Return("sender", err)
    /\ hist' = [hist EXCEPT !.lost = @ \/ underway]
    /\ UNCHANGED out

(* Send has an error: it closes the pipe and publishes the error, then returns. *)
SendFails(err, underway) ==
    /\ out' = [out EXCEPT !["sender"] = err]
    /\ hist' = [hist EXCEPT !.lost = @ \/ underway]
    /\ Goto("sender", "abort") /\ UNCHANGED ret

SendAfterClose ==
    /\ CallsSend /\ snd.closed
    /\ SendReturns("EOF")
    /\ SendFrame /\ UNCHANGED <<snd, req, msg>>

SendCall(m) ==
    /\ CallsSend /\ ~snd.closed
    /\ m = "badBody" => ~ClientStreaming
    /\ msg' = m
    /\ SendFrame

(* send returns before it has touched the stream. *)
SendRejected(m) ==
    /\ SendCall(m)
    /\ \/ ~First /\ ~ClientStreaming /\ SendFails("plain", HasPipe)
       \/ (First \/ ClientStreaming) /\ m = "badType" /\ SendFails("plain", HasPipe)
       \/ First /\ m = "badURL" /\ SendFails("InvalidArgument", HasPipe)
    /\ UNCHANGED <<snd, req>>

(* The first message: requestURL, then openBody. *)
FirstCall(m) == SendCall(m) /\ First /\ m \notin {"badType", "badURL"}
Opened(m) == [snd EXCEPT !.url = IF m = "badRequest" THEN "bad" ELSE "good"]

OpenNoBody(m) ==
    /\ FirstCall(m) /\ ~call.mapsBody
    /\ snd' = Opened(m)
    /\ SendReturns("ok") /\ UNCHANGED req

OpenFails(m) ==
    /\ FirstCall(m) /\ ClientStreaming /\ m = "badRequest"
    /\ snd' = Opened(m)
    /\ SendFails("Internal", FALSE) /\ UNCHANGED req

OpenBuffer(m) ==
    /\ FirstCall(m) /\ call.mapsBody /\ ~ClientStreaming
    /\ \/ /\ snd' = [Opened(m) EXCEPT !.compressor = call.compress]
          /\ Goto("sender", "encode") /\ UNCHANGED <<out, ret, hist>>
       \/ /\ call.compress \* the pool has no compressor
          /\ snd' = Opened(m)
          /\ SendFails("Internal", FALSE)
    /\ UNCHANGED req

(* A client stream starts its request before it looks for a compressor. *)
OpenPipe(m) ==
    /\ FirstCall(m) /\ ClientStreaming /\ m # "badRequest"
    /\ req' = [req EXCEPT !.reader = "open"]
    /\ \/ /\ snd' = [Opened(m) EXCEPT !.pipe = "open", !.compressor = call.compress]
          /\ pc' = [pc EXCEPT !["sender"] = "encode", !["request"] = "do"]
          /\ UNCHANGED <<out, hist>>
       \/ /\ call.compress
          /\ snd' = [Opened(m) EXCEPT !.pipe = "open"]
          /\ pc' = [pc EXCEPT !["sender"] = "abort", !["request"] = "do"]
          /\ out' = [out EXCEPT !["sender"] = "Internal"]
          /\ hist' = [hist EXCEPT !.lost = TRUE]
    /\ UNCHANGED ret

(* A later message of a client stream. *)
SendNext(m) ==
    /\ SendCall(m) /\ ~First /\ ClientStreaming /\ m # "badType"
    /\ Goto("sender", "encode")
    /\ UNCHANGED <<snd, req, hist, out, ret>>

(* The message is encoded: into the buffer, or held back by a compressor. *)
Encode ==
    /\ pc["sender"] = "encode" /\ msg # "badBody"
    /\ \/ ~HasPipe /\ ~snd.compressor /\ snd' = [snd EXCEPT !.body = @ + 1]
       \/ snd.compressor /\ snd' = [snd EXCEPT !.buffered = @ + 1]
    /\ SendReturns("ok")
    /\ SendFrame /\ UNCHANGED <<req, msg, used>>

(* The write end answers io.ErrClosedPipe unless the reader left its own error. *)
ErrClosedPipe == HasPipe /\ (snd.pipe # "open" \/ req.reader = "closed")
WriteFails == ErrClosedPipe \/ req.reader = "failed"

(* send tells "the request is over" from "this message is wrong". *)
EncodeFails ==
    /\ pc["sender"] = "encode"
    /\ IF HasPipe THEN WriteFails ELSE msg = "badBody"
    /\ IF ErrClosedPipe \/ st.ready THEN SendReturns("EOF")
                                    ELSE SendFails("InvalidArgument", HasPipe)
    /\ SendFrame /\ UNCHANGED <<snd, req, msg, used>>

BadAborted(pipe) == pipe
Aborted(pipe) == IF pipe = "open" THEN "error" ELSE pipe

SendAborts ==
    /\ pc["sender"] = "abort"
    /\ snd' = [snd EXCEPT !.pipe = Aborted(@)]
    /\ Goto("sender", "lock")
    /\ SendFrame /\ UNCHANGED <<req, hist, out, ret, msg, used>>

---------------------------------------------------------------------------
(* CloseSend and finishSend *)

FinishFrame == SendFrame /\ UNCHANGED <<hist, msg>>

FinishFails(err) ==
    /\ out' = [out EXCEPT !["sender"] = err]
    /\ Goto("sender", "lock")

CloseSend ==
    /\ CallsSend
    /\ snd' = [snd EXCEPT !.closed = TRUE]
    /\ Goto("sender", IF snd.closed THEN "poll" ELSE "finish")
    /\ FinishFrame /\ UNCHANGED <<req, out, ret>>

FinishWithoutSend ==
    /\ pc["sender"] = "finish" /\ First
    /\ FinishFails("InvalidArgument")
    /\ FinishFrame /\ UNCHANGED <<snd, req, ret, used>>

(* compressWriter.Close blocks on a pipe, and may fail on the buffer. *)
FinishStream ==
    /\ pc["sender"] = "finish" /\ ~First /\ HasPipe
    /\ Goto("sender", IF snd.compressor THEN "flush" ELSE "closePipe")
    /\ FinishFrame /\ UNCHANGED <<snd, req, out, ret, used>>

FinishUnary ==
    /\ pc["sender"] = "finish" /\ ~First /\ ~HasPipe
    /\ \/ /\ snd' = [snd EXCEPT !.body = @ + snd.buffered, !.buffered = 0]
          /\ Goto("sender", "newRequest") /\ UNCHANGED out
       \/ snd.compressor /\ FinishFails("Internal") /\ UNCHANGED snd
    /\ FinishFrame /\ UNCHANGED <<req, ret, used>>

(* A failed flush into the pipe is dropped: the request is over. *)
FlushFails ==
    /\ pc["sender"] = "flush" /\ WriteFails
    /\ Goto("sender", "closePipe")
    /\ FinishFrame /\ UNCHANGED <<snd, req, out, ret, used>>

ClosePipe ==
    /\ pc["sender"] = "closePipe"
    /\ snd' = [snd EXCEPT !.pipe = IF @ = "open" THEN "eof" ELSE @]
    /\ Goto("sender", "poll")
    /\ FinishFrame /\ UNCHANGED <<req, out, ret, used>>

(* newRequest, and Do on the sender's own thread with the whole body. *)
SendRequest ==
    /\ pc["sender"] = "newRequest"
    /\ \/ snd.url = "bad" /\ FinishFails("Internal") /\ UNCHANGED req
       \/ /\ snd.url = "good"
          /\ req' = [req EXCEPT !.wire = snd.body, !.end = "eof"]
          /\ Goto("sender", "do") /\ UNCHANGED out
    /\ FinishFrame /\ UNCHANGED <<snd, ret, used>>

---------------------------------------------------------------------------
(* httpClient.Do, and how it reads the request body *)

WorldFrame == UNCHANGED <<call, ctxErr, received, st, msg, used>>

DoReplies(t) ==
    /\ pc[t] = "do"
    /\ \E ok \in BOOLEAN, encoding \in Encodings :
          resp' = [resp EXCEPT !.ok = ok, !.encoding = encoding, !.raw = "open"]
    /\ out' = [out EXCEPT ![t] = "response"]
    /\ Goto(t, "lock")
    /\ WorldFrame /\ UNCHANGED <<snd, req, hist, ret>>

(* The goroutine's failed request: respond first, then unblock a pending Send. *)
BadReaderAtFailure(reader) == IF reader = "open" THEN "failed" ELSE reader
ReaderAtFailure(reader) == reader
BadLabelAtFailure == "closeReader"
LabelAtFailure == "lock"

(* doError looks at the context after Do has failed. *)
DoFails(t) ==
    /\ pc[t] = "do"
    /\ out' = [out EXCEPT ![t] = IF CtxDone THEN ctxErr ELSE "Unavailable"]
    /\ req' = [req EXCEPT !.reader = ReaderAtFailure(@)]
    /\ Goto(t, IF t = "request" THEN LabelAtFailure ELSE "lock")
    /\ WorldFrame /\ UNCHANGED <<snd, resp, hist, ret>>

CloseReader ==
    /\ pc["request"] = "closeReader"
    /\ req' = [req EXCEPT !.reader = IF @ = "open" THEN "failed" ELSE @,
                          !.end = IF @ = "none" THEN "aborted" ELSE @]
    /\ Goto("request", "done")
    /\ WorldFrame /\ UNCHANGED <<snd, resp, hist, out, ret>>

(* A pending write completes once httpClient has read it. *)
TransportReads ==
    /\ req.reader = "open" /\ snd.pipe = "open"
    /\ snd' = [snd EXCEPT !.buffered = 0]
    /\ \/ /\ pc["sender"] = "encode"
          /\ req' = [req EXCEPT !.wire = @ + snd.buffered + 1]
          /\ SendReturns("ok")
       \/ /\ pc["sender"] = "flush"
          /\ req' = [req EXCEPT !.wire = @ + snd.buffered]
          /\ Goto("sender", "closePipe") /\ UNCHANGED <<ret, hist, out>>
    /\ WorldFrame /\ UNCHANGED resp

(* The body ends for httpClient, or the round trip is over before the body is. *)
TransportEnds ==
    /\ req.reader = "open"
    /\ \E end \in {"aborted"} \cup ({snd.pipe} \ {"open"}) :
          req' = [req EXCEPT !.reader = "closed", !.end = end]
    /\ WorldFrame /\ UNCHANGED <<snd, resp, hist, pc, out, ret>>

---------------------------------------------------------------------------
(* respond and finishResponse, under mu *)

RespondFrame == UNCHANGED <<call, ctxErr, snd, received, req, hist, out, msg, used>>

(* Where a caller of respond goes on: Send returns its error, CloseSend waits. *)
Resume(t) ==
    IF t = "sender" /\ ~snd.closed
    THEN Return(t, out[t])
    ELSE /\ Goto(t, IF t = "sender" THEN "poll"
                    ELSE IF out[t] = "response" THEN "done" ELSE "closeReader")
         /\ UNCHANGED ret

Closed(body) == [body EXCEPT !.raw = "closed"]
Released(body) ==
    [body EXCEPT !.raw = "closed", !.decomp = IF @ = "open" THEN "released" ELSE @]

(* Only the first outcome counts; a late response is closed. *)
BadLate == FALSE
Late == st.ready
BadIsError(arg) == TRUE
IsError(arg) == arg # "response"

RespondLate(t) ==
    /\ pc[t] = "lock" /\ st.mu = "free" /\ Late
    /\ resp' = IF out[t] = "response" THEN Closed(resp) ELSE resp
    /\ Resume(t)
    /\ RespondFrame /\ UNCHANGED st

RespondError(t) ==
    /\ pc[t] = "lock" /\ st.mu = "free" /\ ~Late /\ IsError(out[t])
    /\ st' = [st EXCEPT !.ready = TRUE, !.dispatch = out[t]]
    /\ Resume(t)
    /\ RespondFrame /\ UNCHANGED resp

RespondTakesBody(t) ==
    /\ pc[t] = "lock" /\ st.mu = "free" /\ ~Late /\ out[t] = "response"
    /\ st' = [st EXCEPT !.mu = t, !.rawBody = TRUE]
    /\ Goto(t, "finishing")
    /\ RespondFrame /\ UNCHANGED <<resp, ret>>

(* An unknown encoding, or a decompressor that cannot read its header. *)
BadFinishError == "ok"
FinishError == "Internal"

FinishResponseFails(t) ==
    /\ pc[t] = "finishing" /\ resp.encoding # "identity"
    /\ resp' = Closed(resp)
    /\ st' = [st EXCEPT !.mu = "free", !.ready = TRUE, !.dispatch = FinishError]
    /\ Resume(t)
    /\ RespondFrame

(* A decompressor reads its header here: this may wait for the server. *)
FinishResponse(t) ==
    /\ pc[t] = "finishing" /\ resp.encoding # "unknown"
    /\ resp' = [resp EXCEPT !.decomp = IF resp.encoding = "known" THEN "open" ELSE @]
    /\ Goto(t, "info")
    /\ RespondFrame /\ UNCHANGED <<st, ret>>

(* With the CallInfo written the response is published, and closed if Close *)
(* came first.                                                             *)
BadUnwanted == FALSE
Unwanted == st.closed

RespondOK(t) ==
    /\ pc[t] = "info"
    /\ st' = [st EXCEPT !.mu = "free", !.ready = TRUE, !.dispatch = "ok", !.response = TRUE]
    /\ resp' = IF Unwanted THEN Released(resp) ELSE resp
    /\ Resume(t)
    /\ RespondFrame

---------------------------------------------------------------------------
(* awaitResponse, called by CloseSend and by Receive *)

AwaitFrame == UNCHANGED <<call, ctxErr, snd, st, resp, req, hist, out, msg, used>>

Answer(t, result) ==
    IF t = "receiver" /\ result = "ok"
    THEN Goto(t, "decode") /\ UNCHANGED <<ret, received>>
    ELSE Return(t, result) /\ received' = (received \/ t = "receiver")

AwaitReady(t) ==
    /\ pc[t] \in {"poll", "select"} /\ st.ready
    /\ Answer(t, st.dispatch)
    /\ AwaitFrame

(* The first select has a default: a verdict already there wins over the context. *)
AwaitBlocks(t) ==
    /\ pc[t] = "poll" /\ ~st.ready
    /\ Goto(t, "select")
    /\ AwaitFrame /\ UNCHANGED <<ret, received>>

BadWakes == FALSE
Wakes == CtxDone

AwaitCanceled(t) ==
    /\ pc[t] = "select" /\ Wakes
    /\ Answer(t, ctxErr)
    /\ AwaitFrame

---------------------------------------------------------------------------
(* Receive *)

ReceiveFrame == UNCHANGED <<call, ctxErr, snd, st, req, hist, out, msg>>

Receive ==
    /\ pc["receiver"] = "idle" /\ used.receives < MaxReceives
    /\ used' = [used EXCEPT !.receives = @ + 1]
    /\ IF received THEN Return("receiver", "EOF")
                   ELSE Goto("receiver", "poll") /\ UNCHANGED ret
    /\ ReceiveFrame /\ UNCHANGED <<received, resp>>

(* An error status and a unary reply are read whole and end the receive side. *)
BadReadsWhole == ~ServerStreaming
ReadsWhole == ~resp.ok \/ ~ServerStreaming

ReceiveReads ==
    /\ pc["receiver"] = "decode"
    /\ \/ resp.ok /\ Return("receiver", "plain") /\ UNCHANGED received \* not a proto.Message
       \/ /\ Goto("receiver", IF ReadsWhole THEN "readAll" ELSE "readChunk")
          /\ received' = (received \/ ReadsWhole) /\ UNCHANGED ret
    /\ ReceiveFrame /\ UNCHANGED <<resp, used>>

(* A decompressor may still hold data of a body that is closed. *)
Readable == resp.raw = "open" \/ resp.decomp # "none"

ReadAll ==
    /\ pc["receiver"] = "readAll" /\ Readable
    /\ \E result \in IF resp.ok THEN {"ok", "Internal"} ELSE {"Status"} :
          Return("receiver", result)
    /\ resp' = Released(resp)
    /\ ReceiveFrame /\ UNCHANGED <<received, used>>

ReadChunk ==
    /\ pc["receiver"] = "readChunk" /\ Readable
    /\ \/ Return("receiver", "ok") /\ UNCHANGED <<received, resp>>
       \/ Return("receiver", "EOF") /\ received' = TRUE /\ resp' = Released(resp)
    /\ ReceiveFrame /\ UNCHANGED used

(* readError and decodeBody's failures. *)
ReadFails ==
    /\ pc["receiver"] \in {"readAll", "readChunk"}
    /\ \E result \in {"ResourceExhausted",
                      IF pc["receiver"] = "readAll" /\ resp.ok THEN "Internal" ELSE "Unavailable"} :
          Return("receiver", result)
    /\ received' = TRUE
    /\ resp' = Released(resp)
    /\ ReceiveFrame /\ UNCHANGED used

---------------------------------------------------------------------------
(* Close, and the end of the caller's context *)

CloseFrame == UNCHANGED <<call, snd, received, req, hist, out, ret, msg, used>>

BadAfterCancel == ctxErr
AfterCancel == IF CtxDone THEN ctxErr ELSE "Canceled"
BadAfterClose(body) == Released(body)
AfterClose(body) == Closed(body)

CloseCancels ==
    /\ pc["closer"] = "idle"
    /\ ctxErr' = AfterCancel
    /\ Goto("closer", "lock")
    /\ CloseFrame /\ UNCHANGED <<st, resp>>

CloseMarks ==
    /\ pc["closer"] = "lock" /\ st.mu = "free"
    /\ st' = [st EXCEPT !.closed = TRUE]
    /\ Goto("closer", IF st.rawBody THEN "closeRaw" ELSE "done")
    /\ CloseFrame /\ UNCHANGED <<ctxErr, resp>>

CloseRaw ==
    /\ pc["closer"] = "closeRaw"
    /\ resp' = AfterClose(resp)
    /\ Goto("closer", "done")
    /\ CloseFrame /\ UNCHANGED <<ctxErr, st>>

CtxEnds(err) ==
    /\ ~CtxDone /\ ctxErr' = err
    /\ CloseFrame /\ UNCHANGED <<pc, st, resp>>

---------------------------------------------------------------------------
Send(m) == SendRejected(m) \/ OpenNoBody(m) \/ OpenFails(m) \/ OpenBuffer(m) \/ OpenPipe(m)
           \/ SendNext(m)

SendSteps == Encode \/ EncodeFails \/ SendAborts \/ FinishWithoutSend \/ FinishStream
             \/ FinishUnary \/ FlushFails \/ ClosePipe \/ SendRequest

Respond(t) == RespondLate(t) \/ RespondError(t) \/ RespondTakesBody(t) \/ RespondOK(t)

Await(t) == AwaitReady(t) \/ AwaitBlocks(t) \/ AwaitCanceled(t)

Terminated ==
    /\ pc["closer"] = "done" /\ pc["request"] \in {"idle", "done"}
    /\ pc["sender"] = "idle" /\ pc["receiver"] = "idle"
    /\ used = [sends |-> MaxSends, receives |-> MaxReceives]
    /\ UNCHANGED vars

Next ==
    \/ SendAfterClose \/ CloseSend \/ SendSteps
    \/ \E m \in MsgKinds : Send(m)
    \/ \E t \in Responders : DoReplies(t) \/ DoFails(t)
    \/ \E t \in Responders : Respond(t) \/ FinishResponse(t) \/ FinishResponseFails(t)
    \/ CloseReader \/ TransportReads \/ TransportEnds
    \/ \E t \in {"sender", "receiver"} : Await(t)
    \/ Receive \/ ReceiveReads \/ ReadAll \/ ReadChunk \/ ReadFails
    \/ CloseCancels \/ CloseMarks \/ CloseRaw
    \/ \E err \in CtxErrors : CtxEnds(err)
    \/ Terminated

Spec == Init /\ [][Next]_vars

(* Fairness: a thread that can take its next step takes it.  The environment  *)
(* promises only what net/http does: a canceled round trip returns, reads of  *)
(* a canceled or closed body fail, and a request body is closed once the      *)
(* round trip is canceled.  Data, replies and calls need never come.          *)
DoMustEnd == CtxDone \/ req.end \in {"error", "aborted"}
ReadMustEnd == CtxDone \/ resp.raw = "closed"

Fairness ==
    /\ WF_vars(SendSteps \/ Respond("sender") \/ Await("sender"))
    /\ WF_vars(Respond("request") \/ CloseReader)
    /\ WF_vars(Await("receiver") \/ ReceiveReads)
    /\ WF_vars(CloseMarks \/ CloseRaw)
    /\ \A t \in Responders :
          /\ WF_vars(DoMustEnd /\ (DoReplies(t) \/ DoFails(t)))
          /\ WF_vars((ReadMustEnd \/ resp.encoding # "known")
                        /\ (FinishResponse(t) \/ FinishResponseFails(t)))
    /\ WF_vars(ReadMustEnd /\ (ReadAll \/ ReadChunk \/ ReadFails))
    /\ WF_vars(CtxDone /\ (TransportReads \/ TransportEnds))

FairSpec == Spec /\ Fairness

---------------------------------------------------------------------------
(* Properties *)

(* Every part of the stream keeps its type. *)
SndType == [closed : BOOLEAN, url : {"unset", "good", "bad"},
            pipe : {"none", "open", "eof", "error"}, compressor : BOOLEAN,
            body : Nat, buffered : Nat]
StType == [mu : Responders \cup {"free"}, ready : BOOLEAN,
           dispatch : Errors \cup {"none", "ok"}, response : BOOLEAN,
           rawBody : BOOLEAN, closed : BOOLEAN]
RespType == [ok : BOOLEAN, encoding : AllEncodings, raw : {"none", "open", "closed"},
             decomp : {"none", "open", "released"}]
ReqType == [reader : {"none", "open", "closed", "failed"}, wire : Nat,
            end : {"none", "eof", "error", "aborted"}]
TypeOK ==
    /\ call \in Calls /\ ctxErr \in CtxErrors \cup {"none"} /\ received \in BOOLEAN
    /\ snd \in SndType /\ st \in StType /\ resp \in RespType /\ req \in ReqType
    /\ hist \in [accepted : Nat, lost : BOOLEAN]
    /\ pc \in [Threads -> Labels]
    /\ out \in [Responders -> Errors \cup {"none", "response"}]
    /\ ret \in [Threads -> Errors \cup {"none", "ok", "EOF"}]
    /\ msg \in AllMsgKinds /\ used \in [sends : Nat, receives : Nat]

Reading == pc["receiver"] \in {"decode", "readAll", "readChunk"}
Responding(t) == pc[t] \in {"lock", "finishing", "info"} /\ out[t] = "response"

(* A server that sees a streamed upload end cleanly was sent every message    *)
(* Send accepted, and no Send failed: Send closes the pipe with its error     *)
(* before CloseSend can end it, and CloseSend flushes the compressor first.   *)
UploadComplete == HasPipe /\ req.end = "eof" => req.wire = hist.accepted /\ ~hist.lost

(* respond publishes one outcome: what Receive and CloseSend read after ready *)
(* is closed never changes under them, whichever of a failed Send, a failed   *)
(* CloseSend and the request goroutine comes late.                            *)
OutcomeOnce ==
    [][st.ready => /\ st'.ready
                   /\ st'.dispatch = st.dispatch /\ st'.response = st.response]_vars

(* Receive never looks at a response that is not there: a nil dispatch means  *)
(* a response was published with it.                                          *)
ReadsPublishedResponse == Reading => st.ready /\ st.response /\ resp.raw # "none"

(* Once Close has returned, a response body is open only while some respond   *)
(* call still has it in hand: no order of Do, respond and Close leaks it.     *)
NoOrphanBody ==
    pc["closer"] = "done" /\ resp.raw = "open" => \E t \in Responders : Responding(t)

(* Close, or a late respond, never takes the decompressor away from a Receive *)
(* that is in the middle of decoding.                                         *)
DecompressorSpared ==
    [][Reading /\ pc'["receiver"] = pc["receiver"] => resp'.decomp = resp.decomp]_vars

(* Send calls a message invalid only when it is: a request that failed under  *)
(* a pending write is io.EOF, since the goroutine responds before it closes   *)
(* the read end.                                                              *)
SendBlamesMessage ==
    pc["sender"] = "abort" /\ out["sender"] = "InvalidArgument" => msg \in {"badURL", "badBody"}

(* Receive does not wait for a call whose Send or CloseSend failed: the       *)
(* failure is its verdict, or came after one, or the context is done. forward *)
(* relies on it, since it does not cancel after a failed Send.                *)
FailedSendDecides == ret["sender"] \in Errors => st.ready \/ CtxDone

(* Every call in progress returns once the context is done, also a Send       *)
(* blocked on the pipe, a Receive blocked on the body and the goroutine.      *)
CtxUnblocks ==
    \A t \in {"sender", "receiver", "request"} :
        (CtxDone /\ pc[t] \notin {"idle", "done"}) ~> (pc[t] \in {"idle", "done"})

(* Close returns, also when respond holds mu while a decompressor waits for   *)
(* the response header: Close cancels before it locks.                        *)
CloseReturns == (pc["closer"] = "lock") ~> (pc["closer"] = "done")

(* "Receive has the verdict": when Send returns io.EOF the call does get one, *)
(* or a response whose decompressor still waits for the server.               *)
EofHasVerdict == (ret["sender"] = "EOF") ~> (st.ready \/ resp.raw # "none")

Outcome == INSTANCE CallOutcome WITH
    Failures <- Errors,
    CtxFailures <- CtxErrors,
    streaming <- ServerStreaming,
    verdict <- IF ~st.ready THEN "pending"
               ELSE IF st.dispatch = "ok" /\ ~resp.ok THEN "rejected" ELSE st.dispatch,
    body <- resp.raw,
    answer <- ret["receiver"],
    over <- received /\ pc["receiver"] # "readAll"

(* What a caller of Send, CloseSend and Receive can see is one verdict, one   *)
(* body and answers that follow from them.                                    *)
ImplementsOutcome == Outcome!Spec

(* A comment of Send says that a request whose Send failed cannot complete:   *)
(* so none is issued once the call has its verdict.                           *)
RequestOnlyWhileUndecided ==
    [][\A t \in Responders : pc[t] # "do" /\ pc'[t] = "do" => ~st.ready]_vars

(* Close "is safe to call concurrently with Send and Receive": Receive does   *)
(* not read from a decompressor that is back in its pool.                     *)
NoReadAfterRelease == Reading => resp.decomp # "released"
=============================================================================
