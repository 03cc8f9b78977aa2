----------------------- MODULE ClientStreamRefinement -----------------------
(***************************************************************************)
(* Proof that a client stream implements CallOutcome: every step of its    *)
(* threads is a step of the outcome, or shows the caller nothing.          *)
(***************************************************************************)
EXTENDS ClientStreamProofs

(* The send side only ever moves on: a first message, a pipe and CloseSend    *)
(* are not taken back, a request is sent once, and whoever is on the way to   *)
(* respond has an error in hand.                                              *)
LEMMA SenderAdvances ==
    ASSUME IInv, UploadInv, VerdictGiven, SenderSteps
    PROVE  /\ ~First => ~First'
           /\ HasPipe => HasPipe'
           /\ snd.closed => snd'.closed
           /\ pc'["request"] # pc["request"] => HasPipe'
           /\ pc'["sender"] = "finish" => ~snd.closed
           /\ pc'["sender"] \in {"newRequest", "do"} =>
                 pc["sender"] \in {"finish", "newRequest"} /\ ~HasPipe
           /\ pc'["sender"] \in {"lock", "abort"} => out'["sender"] # "none"
<1> DEFINE Advances ==
           /\ ~First => ~First'
           /\ HasPipe => HasPipe'
           /\ snd.closed => snd'.closed
           /\ pc'["request"] # pc["request"] => HasPipe'
           /\ pc'["sender"] = "finish" => ~snd.closed
           /\ pc'["sender"] \in {"newRequest", "do"} =>
                 pc["sender"] \in {"finish", "newRequest"} /\ ~HasPipe
           /\ pc'["sender"] \in {"lock", "abort"} => out'["sender"] # "none"
<1> SUFFICES Advances
  OBVIOUS
<1>0. TypeOK
  BY DEF IInv
<1> USE <1>0, ThreadNames DEF TypeOK, Goto, Return, First, HasPipe, SndType, UploadInv, PipeEnds,
        VerdictGiven
<1>1. CASE SendAfterClose
  BY <1>1 DEF SendAfterClose, CallsSend, SendReturns, SendFrame
<1>2. CASE CloseSend
  BY <1>2 DEF CloseSend, CallsSend, FinishFrame, SendFrame
<1>3. CASE Encode
  BY <1>3 DEF Encode, SendReturns, SendFrame
<1>4. CASE EncodeFails
  BY <1>4 DEF EncodeFails, SendReturns, SendFails, SendFrame, ErrClosedPipe, WriteFails
<1>5. CASE SendAborts
  BY <1>5 DEF SendAborts, Aborted, SendFrame
<1>6. CASE FinishWithoutSend
  BY <1>6 DEF FinishWithoutSend, FinishFails, FinishFrame, SendFrame
<1>7. CASE FinishStream
  BY <1>7 DEF FinishStream, FinishFrame, SendFrame
<1>8. CASE FinishUnary
  <2>1. snd'.url = snd.url /\ snd'.pipe = snd.pipe /\ snd'.closed = snd.closed
    BY <1>8 DEF FinishUnary
  <2>2. pc["sender"] = "finish" /\ ~HasPipe /\ pc'["request"] = pc["request"]
    BY <1>8 DEF FinishUnary, FinishFails
  <2>3. \/ pc'["sender"] = "newRequest"
        \/ pc'["sender"] = "lock" /\ out'["sender"] = "Internal"
    BY <1>8 DEF FinishUnary, FinishFails
  <2> QED
    BY <2>1, <2>2, <2>3
<1>9. CASE FlushFails
  BY <1>9 DEF FlushFails, FinishFrame, SendFrame, WriteFails, ErrClosedPipe
<1>10. CASE ClosePipe
  BY <1>10 DEF ClosePipe, FinishFrame, SendFrame
<1>11. CASE SendRequest
  BY <1>11 DEF SendRequest, FinishFails, FinishFrame, SendFrame
<1>12. ASSUME NEW m \in MsgKinds, SendRejected(m) PROVE Advances
  BY <1>12 DEF SendRejected, SendCall, CallsSend, SendFails, SendFrame
<1>13. ASSUME NEW m \in MsgKinds, OpenNoBody(m) PROVE Advances
  BY <1>13 DEF OpenNoBody, FirstCall, Opened, SendCall, CallsSend, SendReturns, SendFrame
<1>14. ASSUME NEW m \in MsgKinds, OpenFails(m) PROVE Advances
  BY <1>14 DEF OpenFails, FirstCall, Opened, SendCall, CallsSend, SendFails, SendFrame
<1>15. ASSUME NEW m \in MsgKinds, OpenBuffer(m) PROVE Advances
  <2>1. snd'.url # "unset" /\ snd'.closed = snd.closed
    BY <1>15, OpenKeeps
  <2>2. First /\ ~HasPipe /\ pc'["request"] = pc["request"]
    BY <1>15 DEF OpenBuffer, FirstCall, SendFails, NothingSent
  <2>3. pc'["sender"] = "encode" \/ (pc'["sender"] = "abort" /\ out'["sender"] = "Internal")
    BY <1>15 DEF OpenBuffer, SendFails
  <2> QED
    BY <2>1, <2>2, <2>3
<1>16. ASSUME NEW m \in MsgKinds, OpenPipe(m) PROVE Advances
  <2>1. snd'.url # "unset" /\ snd'.closed = snd.closed
    BY <1>16, OpenKeeps
  <2>2. First /\ snd'.pipe = "open"
    <3>1. snd' = [Opened(m) EXCEPT !.pipe = "open", !.compressor = call.compress]
          \/ snd' = [Opened(m) EXCEPT !.pipe = "open"]
      BY <1>16 DEF OpenPipe
    <3> QED
      BY <1>16, <3>1 DEF OpenPipe, FirstCall, Opened
  <2>3. pc'["sender"] = "encode" \/ (pc'["sender"] = "abort" /\ out'["sender"] = "Internal")
    BY <1>16 DEF OpenPipe
  <2> QED
    BY <2>1, <2>2, <2>3
<1>17. ASSUME NEW m \in MsgKinds, SendNext(m) PROVE Advances
  BY <1>17 DEF SendNext, SendCall, CallsSend, SendFrame
<1> QED
  BY <1>1, <1>2, <1>3, <1>4, <1>5, <1>6, <1>7, <1>8, <1>9, <1>10, <1>11, <1>12, <1>13, <1>14, <1>15, <1>16, <1>17 DEF SenderSteps, SendSteps, Send

LEMMA OutcomeInit == Init => OutcomeInv
BY ThreadNames DEF Init, OutcomeInv, OneRequest, VerdictGiven, ReceiveSide

(* A reply is the first of its call.                                          *)
LEMMA FirstReply ==
    ASSUME IInv, UploadInv, OneRequest, NEW t \in Responders, pc[t] = "do"
    PROVE  /\ resp.raw = "none" /\ ~st.response /\ ~Reading /\ ~First
           /\ t = "sender" => ~HasPipe /\ snd.closed /\ pc["request"] = "idle"
           /\ t = "request" => HasPipe /\ pc["sender"] \notin {"newRequest", "do"}
BY ThreadNames DEF IInv, SenderResponds, ResponsesHaveBodies, PublishedWhole, UploadInv,
   NothingSent, PipeEnds, OneRequest, First

LEMMA OneRequestStep ==
    ConstantsAssumption /\ IInv /\ UploadInv /\ OutcomeInv /\ [Next]_vars => OneRequest'
<1> SUFFICES ASSUME ConstantsAssumption, IInv, UploadInv, OutcomeInv, [Next]_vars
             PROVE  OneRequest'
  OBVIOUS
<1>0. TypeOK /\ VerdictGiven /\ OneRequest
  BY DEF IInv, OutcomeInv
<1> USE <1>0, ThreadNames DEF OneRequest
<1>1. CASE SenderSteps
  <2>1. snd.closed /\ pc["sender"] # "finish" /\ pc["sender"] # "abort" => pc'["sender"] # "finish"
    BY <1>1, SenderAdvances
  <2> QED
    BY <1>1, <2>1, SenderKeeps, SenderAdvances DEF First
<1>2. CASE RequestSteps
  <2>1. snd'.url = snd.url /\ snd'.pipe = snd.pipe /\ snd'.closed = snd.closed
    BY <1>2 DEF RequestSteps, CloseReader, TransportReads, TransportEnds, TypeOK, SndType
  <2> QED
    BY <1>2, <2>1, RequestKeeps DEF HasPipe
<1>3. CASE ReceiveSteps
  <2>1. resp.raw = "none" => resp'.raw = "none"
    BY <1>3 DEF IInv, ResponsesHaveBodies, PublishedWhole, ReceiveSteps, Await, AwaitReady,
       AwaitBlocks, AwaitCanceled, AwaitFrame, Receive, ReceiveReads, ReadAll, ReadChunk, ReadFails,
       Reading
  <2> QED
    BY <1>3, <2>1, ReceiveKeeps DEF HasPipe
<1>4. CASE CloseSteps
  <2>1. resp.raw = "none" => resp'.raw = "none"
    BY <1>4 DEF IInv, ResponsesHaveBodies, CloseSteps, CloseCancels, CloseMarks, CloseRaw, CtxEnds
  <2> QED
    BY <1>4, <2>1, CloseKeeps DEF HasPipe
<1>5. CASE Await("sender")
  BY <1>5, AwaitKeeps DEF HasPipe
<1>6. ASSUME NEW t \in Responders, DoReplies(t) PROVE OneRequest'
  BY <1>6, FirstReply DEF DoReplies, WorldFrame, Goto, TypeOK, First, HasPipe
<1>7. ASSUME NEW t \in Responders, DoFails(t) PROVE OneRequest'
  BY <1>7, FirstReply DEF DoFails, LabelAtFailure, WorldFrame, Goto, TypeOK, First, HasPipe
<1>8. ASSUME NEW t \in Responders, RespondSteps(t) PROVE OneRequest'
  <2>1. resp.raw = "none" => resp'.raw = "none"
    BY <1>8 DEF IInv, ResponsesHaveBodies, MutexHeld, RespondSteps, Respond, RespondLate, RespondError,
       RespondTakesBody, RespondOK, FinishResponse, FinishResponseFails, TypeOK, RespType
  <2> QED
    BY <1>8, <2>1, RespondKeeps DEF HasPipe
<1>9. CASE UNCHANGED vars
  BY <1>9 DEF vars, HasPipe
<1> QED
  BY NextSteps, <1>1, <1>2, <1>3, <1>4, <1>5, <1>6, <1>7, <1>8, <1>9

LEMMA VerdictStep ==
    ConstantsAssumption /\ IInv /\ UploadInv /\ OutcomeInv /\ [Next]_vars => VerdictGiven'
<1> SUFFICES ASSUME ConstantsAssumption, IInv, UploadInv, OutcomeInv, [Next]_vars
             PROVE  VerdictGiven'
  OBVIOUS
<1>0. TypeOK /\ VerdictGiven
  BY DEF IInv, OutcomeInv
<1> USE <1>0, ThreadNames DEF VerdictGiven
<1>1. CASE SenderSteps
  BY <1>1, SenderKeeps, SenderAdvances
<1>2. CASE RequestSteps
  BY <1>2, RequestKeeps
<1>3. CASE ReceiveSteps
  BY <1>3, ReceiveKeeps
<1>4. CASE CloseSteps
  <2>1. st'.ready = st.ready /\ st'.dispatch = st.dispatch
    BY <1>4 DEF CloseSteps, CloseCancels, CloseMarks, CloseRaw, CtxEnds, CloseFrame, TypeOK, StType
  <2> QED
    BY <1>4, <2>1, CloseKeeps
<1>5. CASE Await("sender")
  BY <1>5, AwaitKeeps
<1>6. ASSUME NEW t \in Responders, DoReplies(t) PROVE VerdictGiven'
  BY <1>6 DEF DoReplies, WorldFrame, Goto, TypeOK
<1>7. ASSUME NEW t \in Responders, DoFails(t) PROVE VerdictGiven'
  BY <1>7 DEF DoFails, LabelAtFailure, CtxDone, WorldFrame, Goto, TypeOK
<1>8. ASSUME NEW t \in Responders, RespondSteps(t) PROVE VerdictGiven'
  <2>1. st'.ready => st'.dispatch # "none"
    <3>1. CASE RespondLate(t) \/ RespondError(t) \/ RespondTakesBody(t)
      BY <3>1 DEF RespondLate, RespondError, RespondTakesBody, TypeOK, StType
    <3>2. CASE FinishResponse(t)
      BY <3>2 DEF FinishResponse
    <3>3. CASE RespondOK(t)
      BY <3>3 DEF RespondOK, TypeOK, StType
    <3>4. CASE FinishResponseFails(t)
      BY <3>4 DEF FinishResponseFails, FinishError, TypeOK, StType
    <3> QED
      BY <1>8, <3>1, <3>2, <3>3, <3>4 DEF RespondSteps, Respond
  <2> QED
    BY <1>8, <2>1, RespondKeeps
<1>9. CASE UNCHANGED vars
  BY <1>9 DEF vars
<1> QED
  BY NextSteps, <1>1, <1>2, <1>3, <1>4, <1>5, <1>6, <1>7, <1>8, <1>9

LEMMA ReceiveStep ==
    ConstantsAssumption /\ IInv /\ UploadInv /\ OutcomeInv /\ [Next]_vars => ReceiveSide'
<1> SUFFICES ASSUME ConstantsAssumption, IInv, UploadInv, OutcomeInv, [Next]_vars
             PROVE  ReceiveSide'
  OBVIOUS
<1>0. TypeOK /\ ReceiveSide /\ OneRequest
  BY DEF IInv, OutcomeInv
<1> USE <1>0, ThreadNames DEF ReceiveSide, ReadsWhole, ServerStreaming
<1>1. CASE SenderSteps
  BY <1>1, SenderKeeps
<1>2. CASE RequestSteps
  BY <1>2, RequestKeeps
<1>3. CASE ReceiveSteps
  <2>1. call' = call /\ resp'.ok = resp.ok
    BY <1>3, ReceiveKeeps DEF ReceiveSteps, Await, AwaitReady, AwaitBlocks, AwaitCanceled, AwaitFrame,
       Receive, ReceiveReads, ReadAll, ReadChunk, ReadFails, Released, TypeOK, RespType
  <2>2. CASE Await("receiver")
    BY <2>1, <2>2 DEF Await, AwaitReady, AwaitBlocks, AwaitCanceled, Answer, Goto, Return, TypeOK
  <2>3. CASE Receive \/ ReceiveReads
    <3>1. CASE Receive
      BY <2>1, <3>1 DEF Receive, Goto, Return, TypeOK
    <3>2. CASE ReceiveReads
      BY <2>1, <3>2 DEF ReceiveReads, Goto, Return, TypeOK
    <3> QED
      BY <2>3, <3>1, <3>2
  <2>4. CASE ReadAll \/ ReadChunk \/ ReadFails
    BY <2>1, <2>4 DEF ReadAll, ReadChunk, ReadFails, Goto, Return, TypeOK
  <2> QED
    BY <1>3, <2>2, <2>3, <2>4 DEF ReceiveSteps
<1>4. CASE CloseSteps
  <2>1. resp'.ok = resp.ok
    BY <1>4 DEF CloseSteps, CloseCancels, CloseMarks, CloseRaw, CtxEnds, AfterClose, Closed, TypeOK,
       RespType
  <2> QED
    BY <1>4, <2>1, CloseKeeps
<1>5. CASE Await("sender")
  BY <1>5, AwaitKeeps
<1>6. ASSUME NEW t \in Responders, DoReplies(t) PROVE ReceiveSide'
  <2>1. ~Reading
    BY <1>6, FirstReply DEF DoReplies
  <2> QED
    BY <1>6, <2>1 DEF DoReplies, WorldFrame, Goto, TypeOK, Reading
<1>7. ASSUME NEW t \in Responders, DoFails(t) PROVE ReceiveSide'
  BY <1>7 DEF DoFails, LabelAtFailure, WorldFrame, Goto, TypeOK
<1>8. ASSUME NEW t \in Responders, RespondSteps(t) PROVE ReceiveSide'
  <2>1. resp'.ok = resp.ok
    BY <1>8 DEF RespondSteps, Respond, RespondLate, RespondError, RespondTakesBody, RespondOK,
       FinishResponse, FinishResponseFails, Closed, Released, TypeOK, RespType
  <2> QED
    BY <1>8, <2>1, RespondKeeps
<1>9. CASE UNCHANGED vars
  BY <1>9 DEF vars
<1> QED
  BY NextSteps, <1>1, <1>2, <1>3, <1>4, <1>5, <1>6, <1>7, <1>8, <1>9

---------------------------------------------------------------------------
(* The refinement *)

(* What the caller sees of a state: see ClientStream!Outcome.                 *)
Verdict == IF ~st.ready THEN "pending"
           ELSE IF st.dispatch = "ok" /\ ~resp.ok THEN "rejected" ELSE st.dispatch
Over == received /\ pc["receiver"] # "readAll"
OutcomeSteps == [Outcome!Next]_(Outcome!vars)

LEMMA Stutters ==
    ASSUME call' = call, Verdict' = Verdict, resp'.raw = resp.raw,
           ret'["receiver"] = ret["receiver"], Over' = Over
    PROVE  OutcomeSteps
BY DEF OutcomeSteps, Verdict, Over, Outcome!vars, ServerStreaming

LEMMA Arrives ==
    ASSUME call' = call, Verdict' = Verdict, resp.raw = "none", resp'.raw = "open",
           ret'["receiver"] = ret["receiver"], Over' = Over
    PROVE  OutcomeSteps
BY DEF OutcomeSteps, Verdict, Over, Outcome!Next, Outcome!Arrive, ServerStreaming

BodyKeptOrClosed == resp'.raw = resp.raw \/ (resp.raw = "open" /\ resp'.raw = "closed")

LEMMA Drops ==
    ASSUME call' = call, Verdict' = Verdict, BodyKeptOrClosed,
           ret'["receiver"] = ret["receiver"], Over' = Over
    PROVE  OutcomeSteps
<1>1. CASE resp'.raw = resp.raw
  BY <1>1, Stutters
<1>2. CASE resp.raw = "open" /\ resp'.raw = "closed"
  BY <1>2 DEF OutcomeSteps, Verdict, Over, Outcome!Next, Outcome!Drop, ServerStreaming
<1> QED
  BY <1>1, <1>2 DEF BodyKeptOrClosed

LEMMA Decides ==
    ASSUME call' = call, Verdict = "pending", NEW v \in Errors \cup {"ok", "rejected"}, Verdict' = v,
           v \notin Errors => resp.raw # "none", BodyKeptOrClosed,
           ret'["receiver"] = ret["receiver"], Over' = Over
    PROVE  OutcomeSteps
<1>1. Outcome!Decide(v)
  BY DEF Verdict, Over, BodyKeptOrClosed, Outcome!Decide, Outcome!BodyMayClose, ServerStreaming, Errors,
     CtxErrors
<1> QED
  BY <1>1 DEF OutcomeSteps, Outcome!Next

LEMMA Delivers ==
    ASSUME call' = call, Verdict = "ok", Verdict' = Verdict, ~Over, Over' = ~ServerStreaming,
           BodyKeptOrClosed, ServerStreaming \/ resp'.raw = "closed", ret'["receiver"] = "ok"
    PROVE  OutcomeSteps
<1>1. Outcome!Answer
  BY DEF Verdict, Over, BodyKeptOrClosed, Outcome!Answer, Outcome!Deliver, Outcome!BodyMayClose,
     ServerStreaming
<1> QED
  BY <1>1 DEF OutcomeSteps, Outcome!Next

LEMMA Refuses ==
    ASSUME call' = call, Verdict = "ok", Verdict' = Verdict, ~Over, ~Over',
           BodyKeptOrClosed, ret'["receiver"] = "plain"
    PROVE  OutcomeSteps
<1>1. Outcome!Answer
  BY DEF Verdict, Over, BodyKeptOrClosed, Outcome!Answer, Outcome!Refuse, Outcome!BodyMayClose,
     ServerStreaming
<1> QED
  BY <1>1 DEF OutcomeSteps, Outcome!Next

LEMMA Ends ==
    ASSUME call' = call, Verdict = "ok", Verdict' = Verdict, ~Over, Over', ServerStreaming,
           BodyKeptOrClosed, resp'.raw = "closed", ret'["receiver"] = "EOF"
    PROVE  OutcomeSteps
<1>1. Outcome!Answer
  BY DEF Verdict, Over, BodyKeptOrClosed, Outcome!Answer, Outcome!End, Outcome!BodyMayClose,
     ServerStreaming
<1> QED
  BY <1>1 DEF OutcomeSteps, Outcome!Next

LEMMA Fails ==
    ASSUME call' = call, Verdict' = Verdict, ~Over, Over', NEW e \in Errors,
           BodyKeptOrClosed, ret'["receiver"] = e,
           e \in CtxErrors \/ Verdict \in {"ok", "rejected"} \/ Verdict = e,
           Verdict \in {"ok", "rejected"} /\ e \notin CtxErrors => resp'.raw = "closed"
    PROVE  OutcomeSteps
<1>1. Outcome!Fail(e)
  BY DEF Verdict, Over, Outcome!Fail
<1>2. Outcome!Answer
  BY <1>1 DEF Verdict, Over, BodyKeptOrClosed, Outcome!Answer, Outcome!BodyMayClose, ServerStreaming
<1> QED
  BY <1>2 DEF OutcomeSteps, Outcome!Next

LEMMA AnswersOver ==
    ASSUME call' = call, Verdict' = Verdict, resp'.raw = resp.raw, Over, Over',
           ret'["receiver"] = "EOF"
    PROVE  OutcomeSteps
BY DEF OutcomeSteps, Verdict, Over, Outcome!Next, Outcome!AnswerOver, ServerStreaming

(* The steps of respond: a verdict, a late response dropped, or nothing yet.  *)
LEMMA RespondMaps ==
    ASSUME IInv, OutcomeInv, NEW t \in Responders, RespondSteps(t)
    PROVE  OutcomeSteps
<1>0. TypeOK /\ ResponsesHaveBodies /\ MutexHeld /\ VerdictGiven
  BY DEF IInv, OutcomeInv
<1>1. /\ call' = call /\ ret'["receiver"] = ret["receiver"]
      /\ Over' = Over
  BY <1>0, RespondKeeps, ThreadNames DEF Over
<1> USE <1>0, <1>1 DEF RespondFrame, TypeOK, RespType, StType
<1>2. CASE RespondLate(t)
  <2>1. Verdict' = Verdict /\ BodyKeptOrClosed
    BY <1>2 DEF RespondLate, Closed, Verdict, BodyKeptOrClosed, ResponsesHaveBodies
  <2> QED
    BY <2>1, Drops
<1>3. CASE RespondError(t)
  <2>1. out[t] \in Errors
    BY <1>3 DEF RespondError, IsError, VerdictGiven
  <2>2. Verdict = "pending" /\ Verdict' = out[t] /\ BodyKeptOrClosed
    BY <1>3, <2>1, ErrorNames DEF RespondError, Late, Verdict, BodyKeptOrClosed
  <2> QED
    BY <2>1, <2>2, Decides
<1>4. CASE RespondTakesBody(t) \/ FinishResponse(t)
  <2>1. CASE RespondTakesBody(t)
    <3>1. Verdict' = Verdict /\ resp' = resp
      BY <2>1 DEF RespondTakesBody, Verdict
    <3> QED
      BY <3>1, Stutters
  <2>2. CASE FinishResponse(t)
    <3>1. resp'.raw = resp.raw /\ resp'.ok = resp.ok /\ st' = st
      BY <2>2 DEF FinishResponse
    <3> QED
      BY <3>1, Stutters DEF Verdict
  <2> QED
    BY <1>4, <2>1, <2>2
<1>5. CASE RespondOK(t)
  <2>1. out[t] = "response" /\ ~st.ready /\ resp.raw # "none"
    BY <1>5 DEF RespondOK, MutexHeld, ResponsesHaveBodies
  <2>2. resp'.ok = resp.ok /\ BodyKeptOrClosed
    BY <1>5, <2>1 DEF RespondOK, Released, BodyKeptOrClosed
  <2>3. Verdict = "pending" /\ Verdict' = IF resp.ok THEN "ok" ELSE "rejected"
    BY <1>5, <2>1, <2>2 DEF RespondOK, Verdict
  <2> QED
    BY <2>1, <2>2, <2>3, Decides
<1>6. CASE FinishResponseFails(t)
  <2>1. out[t] = "response" /\ ~st.ready /\ resp.raw # "none"
    BY <1>6 DEF FinishResponseFails, MutexHeld, ResponsesHaveBodies
  <2>2. BodyKeptOrClosed
    BY <1>6, <2>1 DEF FinishResponseFails, Closed, BodyKeptOrClosed
  <2>3. Verdict = "pending" /\ Verdict' = "Internal"
    BY <1>6, <2>1 DEF FinishResponseFails, FinishError, Verdict
  <2> QED
    BY <2>1, <2>2, <2>3, Decides, ErrorNames
<1> QED
  BY <1>2, <1>3, <1>4, <1>5, <1>6 DEF RespondSteps, Respond

(* The steps of Receive: an answer, or nothing yet.                           *)
LEMMA ReceiveMaps ==
    ASSUME IInv, OutcomeInv, ReceiveSteps
    PROVE  OutcomeSteps
<1>0. TypeOK /\ ResponsesHaveBodies /\ PublishedWhole /\ VerdictGiven /\ ReceiveSide
  BY DEF IInv, OutcomeInv
<1> USE <1>0, ThreadNames DEF TypeOK, RespType, StType, Goto, Return
<1>1. call' = call /\ st' = st
  BY <1>0, ReceiveKeeps
<1>2. Reading => /\ resp.raw # "none" /\ st.ready
                 /\ Verdict = IF resp.ok THEN "ok" ELSE "rejected"
  BY DEF PublishedWhole, ResponsesHaveBodies, Verdict
<1>3. resp' = resp => Verdict' = Verdict /\ BodyKeptOrClosed
  BY <1>1 DEF Verdict, BodyKeptOrClosed
<1>4. Reading /\ resp' = Released(resp) =>
          Verdict' = Verdict /\ BodyKeptOrClosed /\ resp'.raw = "closed"
  BY <1>1, <1>2 DEF Verdict, BodyKeptOrClosed, Released
<1>5. CASE AwaitReady("receiver")
  <2>1. st.ready /\ ~received /\ resp' = resp
    BY <1>5 DEF AwaitReady, AwaitFrame, ReceiveSide
  <2>2. CASE st.dispatch = "ok"
    <3>1. UNCHANGED <<ret, received>> /\ pc'["receiver"] = "decode"
      BY <1>5, <2>2 DEF AwaitReady, Answer
    <3> QED
      BY <1>1, <1>3, <2>1, <3>1, Stutters DEF Over
  <2>3. CASE st.dispatch # "ok"
    <3>1. ret'["receiver"] = st.dispatch /\ received' /\ pc'["receiver"] = "idle"
      BY <1>5, <2>3 DEF AwaitReady, Answer
    <3>2. st.dispatch \in Errors /\ Verdict = st.dispatch
      BY <2>1, <2>3 DEF Verdict, VerdictGiven
    <3>3. ~Over /\ Over'
      BY <2>1, <3>1 DEF Over
    <3>4. st.dispatch \notin {"ok", "rejected"}
      BY <3>2 DEF Errors, CtxErrors
    <3> QED
      BY <1>1, <1>3, <2>1, <3>1, <3>2, <3>3, <3>4, Fails
  <2> QED
    BY <2>2, <2>3
<1>6. CASE AwaitBlocks("receiver")
  <2>1. resp' = resp /\ Over' = Over /\ ret' = ret
    BY <1>6 DEF AwaitBlocks, AwaitFrame, Over
  <2> QED
    BY <1>1, <1>3, <2>1, Stutters
<1>7. CASE AwaitCanceled("receiver")
  <2>1. ctxErr \in CtxErrors /\ ctxErr # "ok" /\ resp' = resp /\ ~received
    BY <1>7 DEF AwaitCanceled, Wakes, CtxDone, AwaitFrame, ReceiveSide, CtxErrors
  <2>2. ret'["receiver"] = ctxErr /\ received' /\ pc'["receiver"] = "idle"
    BY <1>7, <2>1 DEF AwaitCanceled, Answer
  <2> QED
    BY <1>1, <1>3, <2>1, <2>2, Fails, ErrorNames DEF Over
<1>8. CASE Receive
  <2>1. resp' = resp /\ received' = received /\ pc["receiver"] = "idle"
    BY <1>8 DEF Receive
  <2>2. CASE received
    <3>1. ret'["receiver"] = "EOF" /\ Over /\ Over'
      BY <1>8, <2>1, <2>2 DEF Receive, Over
    <3> QED
      BY <1>1, <1>3, <2>1, <3>1, AnswersOver
  <2>3. CASE ~received
    <3>1. ret' = ret /\ Over' = Over
      BY <1>8, <2>1, <2>3 DEF Receive, Over
    <3> QED
      BY <1>1, <1>3, <2>1, <3>1, Stutters
  <2> QED
    BY <2>2, <2>3
<1>9. CASE ReceiveReads
  <2>1. resp' = resp /\ ~received /\ Reading
    BY <1>9 DEF ReceiveReads, ReceiveSide, Reading
  <2>2. CASE resp.ok /\ Return("receiver", "plain") /\ UNCHANGED received
    <3>1. Verdict = "ok" /\ ~Over /\ ~Over' /\ ret'["receiver"] = "plain"
      BY <1>2, <2>1, <2>2 DEF Over
    <3> QED
      BY <1>1, <1>3, <2>1, <3>1, Refuses
  <2>3. CASE /\ Goto("receiver", IF ReadsWhole THEN "readAll" ELSE "readChunk")
             /\ received' = (received \/ ReadsWhole) /\ UNCHANGED ret
    <3>1. Over' = Over
      BY <2>1, <2>3 DEF Over
    <3> QED
      BY <1>1, <1>3, <2>1, <2>3, <3>1, Stutters
  <2> QED
    BY <1>9, <2>2, <2>3 DEF ReceiveReads
<1>10. CASE ReadAll
  <2>1. Reading /\ ~Over /\ Over' /\ resp' = Released(resp) /\ ReadsWhole
    BY <1>10 DEF ReadAll, Reading, Over, ReceiveSide
  <2>2. \/ resp.ok /\ ret'["receiver"] \in {"ok", "Internal"}
        \/ ~resp.ok /\ ret'["receiver"] = "Status"
    BY <1>10 DEF ReadAll
  <2>3. CASE ret'["receiver"] = "ok"
    <3>1. Verdict = "ok" /\ ~ServerStreaming
      BY <1>2, <2>1, <2>2, <2>3 DEF ReadsWhole
    <3>2. Over' = ~ServerStreaming
      BY <2>1, <3>1
    <3> QED
      BY <1>1, <1>4, <2>1, <2>3, <3>1, <3>2, Delivers
  <2>4. CASE ret'["receiver"] \in {"Internal", "Status"}
    BY <1>1, <1>2, <1>4, <2>1, <2>4, Fails, ErrorNames
  <2> QED
    BY <2>2, <2>3, <2>4
<1>11. CASE ReadChunk
  <2>1. Reading /\ ~received /\ resp.ok /\ ServerStreaming /\ Verdict = "ok" /\ ~Over
    BY <1>2, <1>11 DEF ReadChunk, Reading, ReceiveSide, ReadsWhole, Over
  <2>2. CASE Return("receiver", "ok") /\ UNCHANGED <<received, resp>>
    <3>1. Over' = ~ServerStreaming
      BY <2>1, <2>2 DEF Over
    <3> QED
      BY <1>1, <1>3, <2>1, <2>2, <3>1, Delivers
  <2>3. CASE Return("receiver", "EOF") /\ received' = TRUE /\ resp' = Released(resp)
    <3>1. Over'
      BY <2>3 DEF Over
    <3> QED
      BY <1>1, <1>4, <2>1, <2>3, <3>1, Ends
  <2> QED
    BY <1>11, <2>2, <2>3 DEF ReadChunk
<1>12. CASE ReadFails
  <2>1. Reading /\ resp' = Released(resp) /\ ~Over /\ Over'
    BY <1>12 DEF ReadFails, Reading, Over, ReceiveSide
  <2>2. ret'["receiver"] \in {"ResourceExhausted", "Internal", "Unavailable"}
    BY <1>12 DEF ReadFails
  <2> QED
    BY <1>1, <1>2, <1>4, <2>1, <2>2, Fails, ErrorNames
<1> QED
  BY <1>5, <1>6, <1>7, <1>8, <1>9, <1>10, <1>11, <1>12 DEF ReceiveSteps, Await

LEMMA RefinementStep == IInv /\ UploadInv /\ OutcomeInv /\ [Next]_vars => OutcomeSteps
<1> SUFFICES ASSUME IInv, UploadInv, OutcomeInv, [Next]_vars PROVE OutcomeSteps
  OBVIOUS
<1>0. TypeOK /\ ResponsesHaveBodies /\ OneRequest /\ PublishedWhole
  BY DEF IInv, OutcomeInv
<1> USE <1>0, ThreadNames
<1>a. ASSUME call' = call, st' = st, resp' = resp, received' = received,
             ret'["receiver"] = ret["receiver"], pc'["receiver"] = pc["receiver"]
      PROVE  OutcomeSteps
  BY <1>a, Stutters DEF Verdict, Over
<1>1. CASE SenderSteps
  BY <1>1, <1>a, SenderKeeps
<1>2. CASE RequestSteps
  BY <1>2, <1>a, RequestKeeps
<1>3. CASE ReceiveSteps
  BY <1>3, ReceiveMaps
<1>4. CASE CloseSteps
  <2>1. Verdict' = Verdict /\ BodyKeptOrClosed
    BY <1>4 DEF CloseSteps, CloseCancels, CloseMarks, CloseRaw, CtxEnds, AfterClose, Closed,
       CloseFrame, Verdict, BodyKeptOrClosed, TypeOK, RespType, StType, ResponsesHaveBodies
  <2> QED
    BY <1>4, <2>1, CloseKeeps, Drops DEF Over
<1>5. CASE Await("sender")
  BY <1>5, <1>a, AwaitKeeps
<1>6. ASSUME NEW t \in Responders, DoReplies(t) PROVE OutcomeSteps
  <2>1. resp.raw = "none" /\ ~(st.ready /\ st.dispatch = "ok")
    BY <1>6, FirstReply DEF DoReplies, PublishedWhole
  <2>2. Verdict' = Verdict /\ resp'.raw = "open"
    BY <1>6, <2>1 DEF DoReplies, WorldFrame, Verdict, TypeOK, RespType
  <2>3. call' = call /\ ret' = ret /\ Over' = Over
    BY <1>6 DEF DoReplies, WorldFrame, Over, Goto, TypeOK
  <2> QED
    BY <2>1, <2>2, <2>3, Arrives
<1>7. ASSUME NEW t \in Responders, DoFails(t) PROVE OutcomeSteps
  BY <1>7, <1>a DEF DoFails, WorldFrame, LabelAtFailure, Goto, TypeOK
<1>8. ASSUME NEW t \in Responders, RespondSteps(t) PROVE OutcomeSteps
  BY <1>8, RespondMaps
<1>9. CASE UNCHANGED vars
  BY <1>9, <1>a DEF vars
<1> QED
  BY NextSteps, <1>1, <1>2, <1>3, <1>4, <1>5, <1>6, <1>7, <1>8, <1>9

(* Whatever the order of Send, CloseSend, Receive, Close, the reply and the   *)
(* end of the context, a caller sees what CallOutcome promises: one verdict,  *)
(* a body opened and closed once, and answers that follow from them.          *)
THEOREM StreamImplementsOutcome == Spec => ImplementsOutcome
<1>1. Init => Outcome!Init
  BY ThreadNames DEF Init, Outcome!Init, ServerStreaming
<1>2. Init => UploadInv /\ OutcomeInv
  BY UploadInit, OutcomeInit
<1>3. IInv /\ UploadInv /\ OutcomeInv /\ [Next]_vars => UploadInv' /\ OutcomeInv'
  BY UploadStep, OneRequestStep, VerdictStep, ReceiveStep, ConstantsAssumption DEF OutcomeInv
<1>4. IInv /\ UploadInv /\ OutcomeInv /\ [Next]_vars => [Outcome!Next]_(Outcome!vars)
  BY RefinementStep DEF OutcomeSteps
<1> QED
  BY <1>1, <1>2, <1>3, <1>4, Invariance, PTL DEF Spec, ImplementsOutcome, Outcome!Spec
=============================================================================
