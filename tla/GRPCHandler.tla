----------------------------- MODULE GRPCHandler -----------------------------
(***************************************************************************)
(* A gRPC service behind a REST route: vanguardgrpc.go registers each      *)
(* method and stream of a grpc.ServiceDesc on the connect.Server and calls *)
(* the generated stub with a context and a stream that forward to the      *)
(* serverStream.  The handler of ServerStream is here a stub, whose        *)
(* implementation sets metadata, receives, sends and returns as it likes.  *)
(* SetTrailer is left out: REST has no trailers, and nothing reads what it *)
(* merges.                                                                 *)
(***************************************************************************)
EXTENDS ServerStream

CONSTANT Marks  \* header metadata a handler may set, a key and value each

ASSUME StubAssumption == MaxCalls >= 2

VARIABLES
    desc, \* the entry of the grpc.ServiceDesc, its schema linked or not, and
          \* whether a -bin header of the request is malformed
    stub, \* where the adapter and the stub are
    meta, \* header metadata: merged, on the wire, and merged when it was too late
    gave  \* what the handler's code said, the error it became, its code on the wire

handlerVars == <<vars, desc, stub, meta, gave>>

Descs == [kind : {"method", "stream"}, clientStreams : BOOLEAN, serverStreams : BOOLEAN,
          linked : BOOLEAN, malformed : BOOLEAN]

(* buildMethods; an entry of desc.Methods has no stream flags. *)
StreamType(d) ==
    CASE d.clientStreams /\ d.serverStreams -> "bidi"
      [] d.clientStreams /\ ~d.serverStreams -> "client"
      [] ~d.clientStreams /\ d.serverStreams -> "server"
      [] OTHER -> "unary"

(* Without a schema the procedure has no rule and no route (makeSpec), and no     *)
(* rule serves a stream of both sides.                                            *)
Registered(d, r) ==
    /\ d.kind = "method" => StreamType(d) = "unary"
    /\ ~d.linked => r.route = "none"
    /\ IF StreamType(d) = "bidi" THEN r.route # "found" ELSE r.type = StreamType(d)

HandlerInit ==
    /\ Init
    /\ desc \in {d \in Descs : Registered(d, req)}
    /\ stub = "context"
    /\ meta = [header |-> {}, carried |-> {}, late |-> {}]
    /\ gave = [said |-> "none", err |-> "none", code |-> "none"]

---------------------------------------------------------------------------
(* A step of the stream after which the handler has merged header; the status line *)
(* takes the metadata of the moment with it (setMetadataHeaders).                  *)
BadCarried(header) ==
    IF wire.status = "none" /\ wire'.status = "ok" THEN header ELSE meta.carried
Carried(header) ==
    IF wire.status = "none" /\ wire'.status # "none" THEN header ELSE meta.carried

Carries(header) ==
    meta' = [header |-> header, carried |-> Carried(header),
             late |-> meta.late \cup (IF wire.status = "none" THEN {} ELSE header \ meta.header)]

Serve ==
    /\ Reject \/ Dispatch
    /\ Carries(meta.header)
    /\ UNCHANGED <<desc, stub, gave>>

BadConvertError(err) == err
ConvertError(err) == IF err = "status" THEN "connect" ELSE err

(* The adapter returns to Server.Call. *)
Returns(said) ==
    /\ Return(IF said = "nil" THEN "ok" ELSE "error")
    /\ gave' = [gave EXCEPT !.said = said, !.err = ConvertError(said)]
    /\ stub' = "returned"
    /\ UNCHANGED <<desc, meta>>

(* newGRPCContext: malformed binary metadata is an error before the stub runs.   *)
NewContext ==
    /\ pc = "call" /\ stub = "context"
    /\ IF desc.malformed THEN Returns("connect")
       ELSE /\ stub' = IF desc.kind = "method" THEN "decode" ELSE "run"
            /\ UNCHANGED <<vars, desc, meta, gave>>

(* The generated stub of a method decodes the request, and calls the implementation *)
(* only with one.                                                                   *)
Decode ==
    /\ stub = "decode"
    /\ ReceiveRejected \/ ReceiveUnary
    /\ stub' = IF in'.failed THEN "failed" ELSE "run"
    /\ Carries(meta.header)
    /\ UNCHANGED <<desc, gave>>

Running == pc = "call" /\ stub = "run"

(* SetHeader of transportStream, which never fails. *)
SetHeader(mark) ==
    /\ Running /\ mark \notin meta.header
    /\ UNCHANGED <<vars, desc, stub, gave>>
    /\ Carries(meta.header \cup {mark})

(* SendHeader merges, then commits the status line. A method keeps a call to answer. *)
SendHeader(mark) ==
    /\ Running /\ (desc.kind = "method" => calls + 1 < MaxCalls)
    /\ SendHeaders
    /\ Carries(meta.header \cup {mark})
    /\ UNCHANGED <<desc, stub, gave>>

(* SendMsg and RecvMsg of a stream. *)
StreamCall ==
    /\ Running /\ desc.kind = "stream"
    /\ \/ ReceiveDone \/ ReceiveRejected \/ ReceiveUnary
       \/ ReceiveChunk \/ ReceiveReadFails \/ ReceiveCut \/ ReceiveEnd
       \/ \E kind \in Kinds : SendRejected(kind) \/ Send(kind)
    /\ Carries(meta.header)
    /\ UNCHANGED <<desc, stub, gave>>

Errors == {"status", "connect", "remote", "context", "plain"}

ReturnError(err) == Running /\ Returns(err)

StreamReturns == Running /\ desc.kind = "stream" /\ Returns("nil")

(* A method's response goes out with Send, whose error is the call's. *)
Answer ==
    /\ Running /\ desc.kind = "method"
    /\ \E kind \in Kinds \ {"badType"} : SendRejected(kind) \/ Send(kind)
    /\ Carries(meta.header)
    /\ stub' = IF lost' THEN "failed" ELSE "answered"
    /\ UNCHANGED <<desc, gave>>

AnswerReturns == stub = "answered" /\ Returns("nil")

(* The errors of Receive and Send that a generated stub meets have a code. *)
FailureReturns == stub = "failed" /\ Returns("connect")

(* asConnectError: the code of a connect error is kept, unless a peer gave it. *)
AsConnectError(err) ==
    CASE err = "connect" -> "its own" [] err = "remote" -> "internal"
      [] err = "context" -> "context" [] OTHER -> "unknown"

End ==
    /\ \/ FinishClose /\ UNCHANGED gave
       \/ FinishAbort /\ UNCHANGED gave
       \/ /\ FinishError
          /\ gave' = [gave EXCEPT !.code = IF callErr = "error" THEN AsConnectError(gave.err)
                                                                ELSE "internal"]
    /\ Carries(meta.header)
    /\ UNCHANGED <<desc, stub>>

Ended == Served /\ UNCHANGED handlerVars

HandlerNext ==
    \/ Serve \/ NewContext \/ Decode
    \/ \E mark \in Marks : SetHeader(mark) \/ SendHeader(mark)
    \/ StreamCall \/ \E err \in Errors : ReturnError(err)
    \/ StreamReturns \/ Answer \/ AnswerReturns \/ FailureReturns
    \/ End \/ Ended

HandlerSpec == HandlerInit /\ [][HandlerNext]_handlerVars

---------------------------------------------------------------------------
(* Properties *)

(* The stream and the adapter are well typed, and the adapter is where the server *)
(* is: a stub runs during the call, and a method is answered or fails once.       *)
HandlerTypeOK ==
    /\ TypeOK
    /\ desc \in Descs
    /\ stub \in {"context", "decode", "run", "answered", "failed", "returned"}
    /\ meta \in [header : SUBSET Marks, carried : SUBSET Marks, late : SUBSET Marks]
    /\ gave \in [said : {"none", "nil"} \cup Errors, err : {"none", "nil"} \cup Errors,
                 code : {"none", "its own", "internal", "context", "unknown"}]
    /\ pc = "match" => stub = "context"
    /\ stub = "returned" <=> gave.said # "none"
    /\ desc.kind = "method" => wire.messages <= 1 /\ in.seen <= 1

(* Header metadata set before the status line is on the wire with it, whichever   *)
(* of SetHeader, SendHeader, the first message, an empty answer or an error       *)
(* committed it, and none that was set too late appears to be (SendHeader,        *)
(* flushHeaders, ServeHTTP).                                                      *)
MetadataArrives ==
    pc = "done" /\ stub = "returned" => meta.carried = meta.header \ meta.late

(* What a gRPC handler says is what the client is told: a method that returned a  *)
(* message is answered with it, and an error has its code, or cuts the response   *)
(* when it is too late for one.  Only a verdict that a peer gave, and an error    *)
(* without a code, get another (convertError with asConnectError).                *)
CodeOf(said) ==
    CASE said \in {"status", "connect"} -> "its own" [] said = "remote" -> "internal"
      [] said = "context" -> "context" [] said = "plain" -> "unknown"
VerdictKept ==
    pc = "done" /\ stub = "returned" =>
        IF gave.said = "nil"
        THEN desc.kind = "method" => wire.status = "ok" /\ wire.messages = 1 /\ wire.end # "aborted"
        ELSE IF wire.status = "ok" THEN wire.end = "aborted"
                                   ELSE gave.code = CodeOf(gave.said)
=============================================================================
