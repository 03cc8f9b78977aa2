------------------------- MODULE ClientStreamProofs -------------------------
(***************************************************************************)
(* Proofs about ClientStream for every value of its constants.            *)
(***************************************************************************)
EXTENDS ClientStreamInv, TLAPS

(* The sets of names are kept folded below; these are their members.       *)
LEMMA ThreadNames ==
    /\ "sender" \in Threads /\ "request" \in Threads
    /\ "receiver" \in Threads /\ "closer" \in Threads
    /\ "sender" \in Responders /\ "request" \in Responders
    /\ Responders \subseteq Threads
    /\ \A t \in Responders : t = "sender" \/ t = "request"
BY DEF Threads, Responders

LEMMA LabelNames ==
    /\ "idle" \in Labels /\ "encode" \in Labels /\ "abort" \in Labels /\ "lock" \in Labels
    /\ "finishing" \in Labels /\ "info" \in Labels /\ "finish" \in Labels
    /\ "flush" \in Labels /\ "closePipe" \in Labels /\ "newRequest" \in Labels
    /\ "do" \in Labels /\ "closeReader" \in Labels /\ "poll" \in Labels
    /\ "select" \in Labels /\ "decode" \in Labels /\ "readAll" \in Labels
    /\ "readChunk" \in Labels /\ "closeRaw" \in Labels /\ "done" \in Labels
BY DEF Labels

LEMMA ErrorNames ==
    /\ CtxErrors \subseteq Errors
    /\ "Canceled" \in CtxErrors
    /\ "InvalidArgument" \in Errors /\ "Internal" \in Errors /\ "Unavailable" \in Errors
    /\ "ResourceExhausted" \in Errors /\ "Status" \in Errors /\ "plain" \in Errors
    /\ "none" \notin Errors /\ "ok" \notin Errors /\ "EOF" \notin Errors
    /\ "response" \notin Errors
BY DEF Errors, CtxErrors

(* Init and every action of clientStream keep the types.  *)
LEMMA TypeInit == Init => TypeOK
<1> SUFFICES ASSUME Init PROVE TypeOK
  OBVIOUS
<1> USE DEF Init, Responders, Errors, CtxErrors
<1>1. snd \in SndType /\ st \in StType
  BY DEF SndType, StType
<1>2. resp \in RespType /\ req \in ReqType
  BY DEF RespType, ReqType, AllEncodings
<1>3. pc \in [Threads -> Labels] /\ ret \in [Threads -> Errors \cup {"none", "ok", "EOF"}]
  BY DEF Labels
<1> QED
  BY <1>1, <1>2, <1>3 DEF TypeOK, AllMsgKinds

(* Every action keeps the types; a returned error is one because only a     *)
(* closed send side responds with a response.                              *)
LEMMA TypeStep == ConstantsAssumption /\ IInv /\ [Next]_vars => TypeOK'
<1> SUFFICES ASSUME ConstantsAssumption, IInv, [Next]_vars PROVE TypeOK'
  OBVIOUS
<1> USE ThreadNames, LabelNames, ErrorNames DEF IInv, TypeOK, Goto, Return
<1>1. CASE SendAfterClose
  BY <1>1 DEF SendAfterClose, CallsSend, SendReturns, SendFrame
<1>2. CASE CloseSend
  <2>1. snd' \in SndType
    BY <1>2 DEF CloseSend, CallsSend, SndType
  <2> QED
    BY <1>2, <2>1 DEF CloseSend, CallsSend, FinishFrame, SendFrame
<1>3. CASE Encode
  <2>1. snd' \in SndType
    BY <1>3 DEF Encode, SendReturns, SndType
  <2>2. hist' \in [accepted : Nat, lost : BOOLEAN]
    BY <1>3 DEF Encode, SendReturns
  <2> QED
    BY <1>3, <2>1, <2>2 DEF Encode, SendReturns, SendFrame
<1>4. CASE EncodeFails
  <2>1. pc' \in [Threads -> Labels]
    BY <1>4 DEF EncodeFails, SendReturns, SendFails, HasPipe
  <2>2. ret' \in [Threads -> Errors \cup {"none", "ok", "EOF"}]
    BY <1>4 DEF EncodeFails, SendReturns, SendFails, HasPipe
  <2>3. out' \in [Responders -> Errors \cup {"none", "response"}]
    BY <1>4 DEF EncodeFails, SendReturns, SendFails, HasPipe
  <2>4. hist' \in [accepted : Nat, lost : BOOLEAN]
    BY <1>4 DEF EncodeFails, SendReturns, SendFails, HasPipe
  <2> QED
    BY <1>4, <2>1, <2>2, <2>3, <2>4 DEF EncodeFails, SendReturns, SendFails, SendFrame, HasPipe
<1>5. CASE SendAborts
  <2>1. snd' \in SndType
    BY <1>5 DEF SendAborts, Aborted, SndType
  <2> QED
    BY <1>5, <2>1 DEF SendAborts, Aborted, SendFrame
<1>6. CASE FinishWithoutSend
  <2>1. pc' \in [Threads -> Labels]
    BY <1>6 DEF FinishWithoutSend, FinishFails
  <2>2. out' \in [Responders -> Errors \cup {"none", "response"}]
    BY <1>6 DEF FinishWithoutSend, FinishFails
  <2> QED
    BY <1>6, <2>1, <2>2 DEF FinishWithoutSend, FinishFails, FinishFrame, SendFrame
<1>7. CASE FinishStream
  <2>1. pc' \in [Threads -> Labels]
    BY <1>7 DEF FinishStream
  <2> QED
    BY <1>7, <2>1 DEF FinishStream, FinishFrame, SendFrame
<1>8. CASE FinishUnary
  <2>0. snd.body \in Nat /\ snd.buffered \in Nat /\ snd.body + snd.buffered \in Nat
    BY DEF SndType
  <2>a. [snd EXCEPT !.body = @ + snd.buffered, !.buffered = 0] \in SndType
    BY <2>0 DEF SndType
  <2>1. snd' \in SndType
    BY <1>8, <2>0, <2>a DEF FinishUnary, FinishFails
  <2>2. pc' \in [Threads -> Labels]
    BY <1>8 DEF FinishUnary, FinishFails
  <2>3. out' \in [Responders -> Errors \cup {"none", "response"}]
    BY <1>8 DEF FinishUnary, FinishFails
  <2> QED
    BY <1>8, <2>1, <2>2, <2>3 DEF FinishUnary, FinishFails, FinishFrame, SendFrame
<1>9. CASE FlushFails
  BY <1>9 DEF FlushFails, FinishFrame, SendFrame
<1>10. CASE ClosePipe
  <2>1. snd' \in SndType
    BY <1>10 DEF ClosePipe, SndType
  <2> QED
    BY <1>10, <2>1 DEF ClosePipe, FinishFrame, SendFrame
<1>11. CASE SendRequest
  <2>0. snd.body \in Nat /\ snd.buffered \in Nat /\ snd.body + snd.buffered \in Nat
    BY DEF SndType
  <2>1. req' \in ReqType
    BY <1>11, <2>0 DEF SendRequest, FinishFails, ReqType
  <2>2. pc' \in [Threads -> Labels]
    BY <1>11 DEF SendRequest, FinishFails
  <2>3. out' \in [Responders -> Errors \cup {"none", "response"}]
    BY <1>11 DEF SendRequest, FinishFails
  <2> QED
    BY <1>11, <2>1, <2>2, <2>3 DEF SendRequest, FinishFails, FinishFrame, SendFrame
<1>12. ASSUME NEW m \in MsgKinds, SendRejected(m) PROVE TypeOK'
  <2>1. pc' \in [Threads -> Labels]
    BY <1>12 DEF SendRejected, SendCall, CallsSend, SendFails, HasPipe
  <2>2. out' \in [Responders -> Errors \cup {"none", "response"}]
    BY <1>12 DEF SendRejected, SendCall, CallsSend, SendFails, HasPipe
  <2>3. hist' \in [accepted : Nat, lost : BOOLEAN]
    BY <1>12 DEF SendRejected, SendCall, CallsSend, SendFails, HasPipe
  <2> QED
    BY <1>12, <2>1, <2>2, <2>3, ConstantsAssumption DEF SendRejected, SendCall, CallsSend,
       SendFails, SendFrame, HasPipe, ConstantsAssumption
<1>13. ASSUME NEW m \in MsgKinds, OpenNoBody(m) PROVE TypeOK'
  <2>1. snd' \in SndType
    BY <1>13 DEF OpenNoBody, FirstCall, Opened, SendCall, CallsSend, SendReturns, SndType
  <2>2. ret' \in [Threads -> Errors \cup {"none", "ok", "EOF"}]
    BY <1>13 DEF OpenNoBody, FirstCall, Opened, SendCall, CallsSend, SendReturns
  <2>3. hist' \in [accepted : Nat, lost : BOOLEAN]
    BY <1>13 DEF OpenNoBody, FirstCall, Opened, SendCall, CallsSend, SendReturns
  <2> QED
    BY <1>13, <2>1, <2>2, <2>3, ConstantsAssumption DEF OpenNoBody, FirstCall, Opened, SendCall,
       CallsSend, SendReturns, SendFrame, ConstantsAssumption
<1>14. ASSUME NEW m \in MsgKinds, OpenFails(m) PROVE TypeOK'
  <2>1. snd' \in SndType
    BY <1>14 DEF OpenFails, FirstCall, Opened, SendCall, CallsSend, SendFails, SndType
  <2>2. pc' \in [Threads -> Labels]
    BY <1>14 DEF OpenFails, FirstCall, Opened, SendCall, CallsSend, SendFails
  <2>3. out' \in [Responders -> Errors \cup {"none", "response"}]
    BY <1>14 DEF OpenFails, FirstCall, Opened, SendCall, CallsSend, SendFails
  <2>4. hist' \in [accepted : Nat, lost : BOOLEAN]
    BY <1>14 DEF OpenFails, FirstCall, Opened, SendCall, CallsSend, SendFails
  <2> QED
    BY <1>14, <2>1, <2>2, <2>3, <2>4, ConstantsAssumption DEF OpenFails, FirstCall, Opened,
       SendCall, CallsSend, SendFails, SendFrame, ConstantsAssumption
<1>15. ASSUME NEW m \in MsgKinds, OpenBuffer(m) PROVE TypeOK'
  <2>0. Opened(m) \in SndType /\ call.compress \in BOOLEAN
    BY <1>15 DEF Opened, SndType, Calls
  <2>a. [Opened(m) EXCEPT !.compressor = call.compress] \in SndType
    BY <2>0 DEF SndType
  <2>1. snd' \in SndType
    BY <1>15, <2>0, <2>a DEF OpenBuffer, SendFails
  <2>2. pc' \in [Threads -> Labels]
    BY <1>15 DEF OpenBuffer, FirstCall, Opened, SendCall, CallsSend, SendFails
  <2>3. out' \in [Responders -> Errors \cup {"none", "response"}]
    BY <1>15 DEF OpenBuffer, FirstCall, Opened, SendCall, CallsSend, SendFails
  <2>4. hist' \in [accepted : Nat, lost : BOOLEAN]
    BY <1>15 DEF OpenBuffer, FirstCall, Opened, SendCall, CallsSend, SendFails
  <2> QED
    BY <1>15, <2>1, <2>2, <2>3, <2>4, ConstantsAssumption DEF OpenBuffer, FirstCall, Opened,
       SendCall, CallsSend, SendFails, SendFrame, ConstantsAssumption
<1>16. ASSUME NEW m \in MsgKinds, OpenPipe(m) PROVE TypeOK'
  <2>0. Opened(m) \in SndType /\ call.compress \in BOOLEAN
    BY <1>16 DEF Opened, SndType, Calls
  <2>a. [Opened(m) EXCEPT !.pipe = "open", !.compressor = call.compress] \in SndType
    BY <2>0 DEF SndType
  <2>b. [Opened(m) EXCEPT !.pipe = "open"] \in SndType
    BY <2>0 DEF SndType
  <2>1. snd' \in SndType
    BY <1>16, <2>0, <2>a, <2>b DEF OpenPipe
  <2>2. req' \in ReqType
    BY <1>16 DEF OpenPipe, FirstCall, Opened, SendCall, CallsSend, ReqType
  <2>3. pc' \in [Threads -> Labels]
    BY <1>16 DEF OpenPipe, FirstCall, Opened, SendCall, CallsSend
  <2>4. out' \in [Responders -> Errors \cup {"none", "response"}]
    BY <1>16 DEF OpenPipe, FirstCall, Opened, SendCall, CallsSend
  <2>5. hist' \in [accepted : Nat, lost : BOOLEAN]
    BY <1>16 DEF OpenPipe, FirstCall, Opened, SendCall, CallsSend
  <2> QED
    BY <1>16, <2>1, <2>2, <2>3, <2>4, <2>5, ConstantsAssumption DEF OpenPipe, FirstCall, Opened,
       SendCall, CallsSend, SendFrame, ConstantsAssumption
<1>17. ASSUME NEW m \in MsgKinds, SendNext(m) PROVE TypeOK'
  BY <1>17, ConstantsAssumption DEF SendNext, SendCall, CallsSend, SendFrame, ConstantsAssumption
<1>18. ASSUME NEW t \in Responders, DoReplies(t) PROVE TypeOK'
  <2>1. resp' \in RespType
    BY <1>18, ConstantsAssumption DEF DoReplies, RespType, ConstantsAssumption
  <2> QED
    BY <1>18, <2>1 DEF DoReplies, WorldFrame
<1>19. ASSUME NEW t \in Responders, DoFails(t) PROVE TypeOK'
  <2>1. req' \in ReqType
    BY <1>19 DEF DoFails, ReaderAtFailure, LabelAtFailure, CtxDone, ReqType
  <2>2. pc' \in [Threads -> Labels]
    BY <1>19 DEF DoFails, ReaderAtFailure, LabelAtFailure, CtxDone
  <2>3. out' \in [Responders -> Errors \cup {"none", "response"}]
    BY <1>19 DEF DoFails, ReaderAtFailure, LabelAtFailure, CtxDone
  <2> QED
    BY <1>19, <2>1, <2>2, <2>3 DEF DoFails, WorldFrame, ReaderAtFailure, LabelAtFailure, CtxDone
<1>20. CASE CloseReader
  <2>1. req' \in ReqType
    BY <1>20 DEF CloseReader, ReqType
  <2> QED
    BY <1>20, <2>1 DEF CloseReader, WorldFrame
<1>21. CASE TransportReads
  <2>0. snd.body \in Nat /\ snd.buffered \in Nat /\ snd.body + snd.buffered \in Nat
    BY DEF SndType
  <2>1. snd' \in SndType
    BY <1>21, <2>0 DEF TransportReads, SendReturns, SndType
  <2>2. req' \in ReqType
    BY <1>21, <2>0 DEF TransportReads, SendReturns, ReqType, SndType
  <2>3. pc' \in [Threads -> Labels]
    BY <1>21 DEF TransportReads, SendReturns
  <2>4. ret' \in [Threads -> Errors \cup {"none", "ok", "EOF"}]
    BY <1>21 DEF TransportReads, SendReturns
  <2>5. hist' \in [accepted : Nat, lost : BOOLEAN]
    BY <1>21 DEF TransportReads, SendReturns
  <2> QED
    BY <1>21, <2>1, <2>2, <2>3, <2>4, <2>5 DEF TransportReads, SendReturns, WorldFrame
<1>22. CASE TransportEnds
  <2>1. req' \in ReqType
    BY <1>22 DEF TransportEnds, ReqType, SndType
  <2> QED
    BY <1>22, <2>1 DEF TransportEnds, WorldFrame
<1>23. ASSUME NEW t \in Responders, RespondLate(t) PROVE TypeOK'
  <2>1. resp' \in RespType
    BY <1>23 DEF RespondLate, Resume, Closed, RespType
  <2>2. pc' \in [Threads -> Labels]
    BY <1>23 DEF RespondLate, Resume, Closed
  <2>3. ret' \in [Threads -> Errors \cup {"none", "ok", "EOF"}]
    BY <1>23 DEF RespondLate, Resume, Closed, MutexHeld, SenderResponds
  <2> QED
    BY <1>23, <2>1, <2>2, <2>3 DEF RespondLate, Resume, Closed, RespondFrame
<1>24. ASSUME NEW t \in Responders, RespondError(t) PROVE TypeOK'
  <2>1. st' \in StType
    BY <1>24 DEF RespondError, Resume, IsError, Late, StType
  <2>2. pc' \in [Threads -> Labels]
    BY <1>24 DEF RespondError, Resume, IsError, Late
  <2>3. ret' \in [Threads -> Errors \cup {"none", "ok", "EOF"}]
    BY <1>24 DEF RespondError, Resume, IsError, Late, MutexHeld, SenderResponds
  <2> QED
    BY <1>24, <2>1, <2>2, <2>3 DEF RespondError, Resume, IsError, Late, RespondFrame
<1>25. ASSUME NEW t \in Responders, RespondTakesBody(t) PROVE TypeOK'
  <2>1. st' \in StType
    BY <1>25 DEF RespondTakesBody, Late, StType
  <2> QED
    BY <1>25, <2>1 DEF RespondTakesBody, Late, RespondFrame
<1>26. ASSUME NEW t \in Responders, FinishResponseFails(t) PROVE TypeOK'
  <2>1. st' \in StType
    BY <1>26 DEF FinishResponseFails, Resume, Closed, FinishError, StType
  <2>2. resp' \in RespType
    BY <1>26 DEF FinishResponseFails, Resume, Closed, FinishError, RespType
  <2>3. pc' \in [Threads -> Labels]
    BY <1>26 DEF FinishResponseFails, Resume, Closed, FinishError
  <2>4. ret' \in [Threads -> Errors \cup {"none", "ok", "EOF"}]
    BY <1>26 DEF FinishResponseFails, Resume, Closed, FinishError, MutexHeld, SenderResponds
  <2> QED
    BY <1>26, <2>1, <2>2, <2>3, <2>4 DEF FinishResponseFails, Resume, Closed, FinishError,
       RespondFrame
<1>27. ASSUME NEW t \in Responders, FinishResponse(t) PROVE TypeOK'
  <2>1. resp' \in RespType
    BY <1>27 DEF FinishResponse, RespType
  <2> QED
    BY <1>27, <2>1 DEF FinishResponse, RespondFrame
<1>28. ASSUME NEW t \in Responders, RespondOK(t) PROVE TypeOK'
  <2>1. st' \in StType
    BY <1>28 DEF RespondOK, Resume, Released, StType
  <2>2. resp' \in RespType
    BY <1>28 DEF RespondOK, Resume, Released, RespType
  <2>3. pc' \in [Threads -> Labels]
    BY <1>28 DEF RespondOK, Resume, Released
  <2>4. ret' \in [Threads -> Errors \cup {"none", "ok", "EOF"}]
    BY <1>28 DEF RespondOK, Resume, Released, MutexHeld, SenderResponds
  <2> QED
    BY <1>28, <2>1, <2>2, <2>3, <2>4 DEF RespondOK, Resume, Released, RespondFrame
<1>29. ASSUME NEW t \in {"sender", "receiver"}, AwaitReady(t) PROVE TypeOK'
  <2>1. pc' \in [Threads -> Labels]
    BY <1>29 DEF AwaitReady, Answer
  <2>2. ret' \in [Threads -> Errors \cup {"none", "ok", "EOF"}]
    BY <1>29 DEF AwaitReady, Answer, StType
  <2> QED
    BY <1>29, <2>1, <2>2 DEF AwaitReady, Answer, AwaitFrame
<1>30. ASSUME NEW t \in {"sender", "receiver"}, AwaitBlocks(t) PROVE TypeOK'
  BY <1>30 DEF AwaitBlocks, AwaitFrame
<1>31. ASSUME NEW t \in {"sender", "receiver"}, AwaitCanceled(t) PROVE TypeOK'
  <2>1. pc' \in [Threads -> Labels]
    BY <1>31 DEF AwaitCanceled, Answer, Wakes, CtxDone
  <2>2. ret' \in [Threads -> Errors \cup {"none", "ok", "EOF"}]
    BY <1>31 DEF AwaitCanceled, Answer, Wakes, CtxDone
  <2> QED
    BY <1>31, <2>1, <2>2 DEF AwaitCanceled, Answer, Wakes, CtxDone, AwaitFrame
<1>32. CASE Receive
  <2>1. pc' \in [Threads -> Labels]
    BY <1>32 DEF Receive
  <2>2. ret' \in [Threads -> Errors \cup {"none", "ok", "EOF"}]
    BY <1>32 DEF Receive
  <2> QED
    BY <1>32, <2>1, <2>2 DEF Receive, ReceiveFrame
<1>33. CASE ReceiveReads
  <2>1. pc' \in [Threads -> Labels]
    BY <1>33 DEF ReceiveReads, ReadsWhole, ServerStreaming
  <2>2. ret' \in [Threads -> Errors \cup {"none", "ok", "EOF"}]
    BY <1>33 DEF ReceiveReads, ReadsWhole, ServerStreaming
  <2> QED
    BY <1>33, <2>1, <2>2 DEF ReceiveReads, ReadsWhole, ServerStreaming, ReceiveFrame
<1>34. CASE ReadAll
  <2>1. resp' \in RespType
    BY <1>34 DEF ReadAll, Released, RespType
  <2>2. ret' \in [Threads -> Errors \cup {"none", "ok", "EOF"}]
    BY <1>34 DEF ReadAll, Released
  <2> QED
    BY <1>34, <2>1, <2>2 DEF ReadAll, Released, ReceiveFrame
<1>35. CASE ReadChunk
  <2>1. received' \in BOOLEAN
    BY <1>35 DEF ReadChunk, Released
  <2>2. resp' \in RespType
    BY <1>35 DEF ReadChunk, Released, RespType
  <2>3. ret' \in [Threads -> Errors \cup {"none", "ok", "EOF"}]
    BY <1>35 DEF ReadChunk, Released
  <2> QED
    BY <1>35, <2>1, <2>2, <2>3 DEF ReadChunk, Released, ReceiveFrame
<1>36. CASE ReadFails
  <2>1. resp' \in RespType
    BY <1>36 DEF ReadFails, Released, RespType
  <2>2. ret' \in [Threads -> Errors \cup {"none", "ok", "EOF"}]
    BY <1>36 DEF ReadFails, Released
  <2> QED
    BY <1>36, <2>1, <2>2 DEF ReadFails, Released, ReceiveFrame
<1>37. CASE CloseCancels
  BY <1>37 DEF CloseCancels, AfterCancel, CloseFrame
<1>38. CASE CloseMarks
  <2>1. st' \in StType
    BY <1>38 DEF CloseMarks, StType
  <2> QED
    BY <1>38, <2>1 DEF CloseMarks, CloseFrame
<1>39. CASE CloseRaw
  <2>1. resp' \in RespType
    BY <1>39 DEF CloseRaw, AfterClose, Closed, RespType
  <2> QED
    BY <1>39, <2>1 DEF CloseRaw, AfterClose, Closed, CloseFrame
<1>40. ASSUME NEW err \in CtxErrors, CtxEnds(err) PROVE TypeOK'
  BY <1>40 DEF CtxEnds, CloseFrame
<1>41. CASE UNCHANGED vars
  BY <1>41 DEF vars
<1> QED
  BY <1>1, <1>2, <1>3, <1>4, <1>5, <1>6, <1>7, <1>8, <1>9, <1>10, <1>11, <1>12, <1>13, <1>14,
     <1>15, <1>16, <1>17, <1>18, <1>19, <1>20, <1>21, <1>22, <1>23, <1>24, <1>25, <1>26, <1>27,
     <1>28, <1>29, <1>30, <1>31, <1>32, <1>33, <1>34, <1>35, <1>36, <1>37, <1>38, <1>39, <1>40,
     <1>41
     DEF Next, Send, SendSteps, Respond, Await, Terminated

(* What the helpers leave in the fields the invariant reads. *)
LEMMA ReleasedBody == resp \in RespType => Released(resp).raw = "closed"
BY DEF RespType, Released

LEMMA OpenKeeps ==
    ASSUME snd \in SndType, NEW m, OpenPipe(m) \/ OpenBuffer(m)
    PROVE  snd'.closed = snd.closed /\ snd'.url # "unset"
<1>1. \/ snd' = [Opened(m) EXCEPT !.pipe = "open", !.compressor = call.compress]
      \/ snd' = [Opened(m) EXCEPT !.pipe = "open"]
      \/ snd' = [Opened(m) EXCEPT !.compressor = call.compress]
      \/ snd' = Opened(m)
  BY DEF OpenPipe, OpenBuffer
<1> QED
  BY <1>1 DEF SndType, Opened

(* The other parts of IInv. *)
Unlocked == MutexHeld /\ SenderResponds /\ ResponsesHaveBodies /\ PublishedWhole

LEMMA InvStep == ConstantsAssumption /\ IInv /\ [Next]_vars => Unlocked'
<1> SUFFICES ASSUME ConstantsAssumption, IInv, [Next]_vars PROVE Unlocked'
  OBVIOUS
<1> USE ThreadNames, ErrorNames DEF IInv, TypeOK, Unlocked, Goto, Return, MutexHeld, SenderResponds,
        ResponsesHaveBodies, PublishedWhole, Reading
<1>1. CASE SendAfterClose
  BY <1>1 DEF SendAfterClose, CallsSend, SendReturns, SendFrame
<1>2. CASE CloseSend
  BY <1>2 DEF CloseSend, CallsSend, FinishFrame, SendFrame, SndType
<1>3. CASE Encode
  BY <1>3 DEF Encode, SendReturns, SendFrame, SndType
<1>4. CASE EncodeFails
  BY <1>4 DEF EncodeFails, SendReturns, SendFails, SendFrame, HasPipe
<1>5. CASE SendAborts
  <2>1. MutexHeld'
    BY <1>5 DEF SendAborts, Aborted, SendFrame, SndType
  <2>2. SenderResponds'
    BY <1>5 DEF SendAborts, Aborted, SendFrame, SndType
  <2>3. ResponsesHaveBodies'
    BY <1>5 DEF SendAborts, Aborted, SendFrame, SndType
  <2>4. PublishedWhole'
    BY <1>5 DEF SendAborts, Aborted, SendFrame, SndType
  <2> QED
    BY <2>1, <2>2, <2>3, <2>4
<1>6. CASE FinishWithoutSend
  BY <1>6 DEF FinishWithoutSend, FinishFails, FinishFrame, SendFrame
<1>7. CASE FinishStream
  BY <1>7 DEF FinishStream, FinishFrame, SendFrame
<1>8. CASE FinishUnary
  <2>0. snd'.closed = snd.closed /\ snd'.url = snd.url
    BY <1>8 DEF FinishUnary, FinishFails, FinishFrame, SendFrame, SndType
  <2>1. MutexHeld'
    BY <1>8, <2>0 DEF FinishUnary, FinishFails, FinishFrame, SendFrame
  <2>2. SenderResponds'
    BY <1>8, <2>0 DEF FinishUnary, FinishFails, FinishFrame, SendFrame
  <2>3. ResponsesHaveBodies'
    BY <1>8, <2>0 DEF FinishUnary, FinishFails, FinishFrame, SendFrame
  <2>4. PublishedWhole'
    BY <1>8, <2>0 DEF FinishUnary, FinishFails, FinishFrame, SendFrame
  <2> QED
    BY <2>1, <2>2, <2>3, <2>4
<1>9. CASE FlushFails
  BY <1>9 DEF FlushFails, FinishFrame, SendFrame
<1>10. CASE ClosePipe
  BY <1>10 DEF ClosePipe, FinishFrame, SendFrame, SndType
<1>11. CASE SendRequest
  BY <1>11 DEF SendRequest, FinishFails, FinishFrame, SendFrame
<1>12. ASSUME NEW m \in MsgKinds, SendRejected(m) PROVE Unlocked'
  <2>1. MutexHeld'
    BY <1>12 DEF SendRejected, SendCall, CallsSend, SendFails, SendFrame, HasPipe
  <2>2. SenderResponds'
    BY <1>12 DEF SendRejected, SendCall, CallsSend, SendFails, SendFrame, HasPipe
  <2>3. ResponsesHaveBodies'
    BY <1>12 DEF SendRejected, SendCall, CallsSend, SendFails, SendFrame, HasPipe
  <2>4. PublishedWhole'
    BY <1>12 DEF SendRejected, SendCall, CallsSend, SendFails, SendFrame, HasPipe
  <2> QED
    BY <2>1, <2>2, <2>3, <2>4
<1>13. ASSUME NEW m \in MsgKinds, OpenNoBody(m) PROVE Unlocked'
  BY <1>13 DEF OpenNoBody, FirstCall, Opened, SendCall, CallsSend, SendReturns, SendFrame, SndType
<1>14. ASSUME NEW m \in MsgKinds, OpenFails(m) PROVE Unlocked'
  BY <1>14 DEF OpenFails, FirstCall, Opened, SendCall, CallsSend, SendFails, SendFrame, SndType
<1>15. ASSUME NEW m \in MsgKinds, OpenBuffer(m) PROVE Unlocked'
  <2>0. snd'.closed = snd.closed /\ snd'.url # "unset"
    BY <1>15, OpenKeeps
  <2>1. MutexHeld'
    BY <1>15, <2>0 DEF OpenBuffer, FirstCall, SendCall, CallsSend, SendFails, SendFrame
  <2>2. SenderResponds'
    BY <1>15, <2>0 DEF OpenBuffer, FirstCall, SendCall, CallsSend, SendFails, SendFrame
  <2>3. ResponsesHaveBodies'
    BY <1>15, <2>0 DEF OpenBuffer, FirstCall, SendCall, CallsSend, SendFails, SendFrame
  <2>4. PublishedWhole'
    BY <1>15, <2>0 DEF OpenBuffer, FirstCall, SendCall, CallsSend, SendFails, SendFrame
  <2> QED
    BY <2>1, <2>2, <2>3, <2>4
<1>16. ASSUME NEW m \in MsgKinds, OpenPipe(m) PROVE Unlocked'
  <2>0. snd'.closed = snd.closed /\ snd'.url # "unset"
    BY <1>16, OpenKeeps
  <2>1. MutexHeld'
    BY <1>16, <2>0 DEF OpenPipe, FirstCall, SendCall, CallsSend, SendFrame, First
  <2>2. SenderResponds'
    BY <1>16, <2>0 DEF OpenPipe, FirstCall, SendCall, CallsSend, SendFrame, First
  <2>3. ResponsesHaveBodies'
    BY <1>16, <2>0 DEF OpenPipe, FirstCall, SendCall, CallsSend, SendFrame, First
  <2>4. PublishedWhole'
    BY <1>16, <2>0 DEF OpenPipe, FirstCall, SendCall, CallsSend, SendFrame, First
  <2> QED
    BY <2>1, <2>2, <2>3, <2>4
<1>17. ASSUME NEW m \in MsgKinds, SendNext(m) PROVE Unlocked'
  BY <1>17 DEF SendNext, SendCall, CallsSend, SendFrame
<1>18. ASSUME NEW t \in Responders, DoReplies(t) PROVE Unlocked'
  BY <1>18 DEF DoReplies, WorldFrame, RespType
<1>19. ASSUME NEW t \in Responders, DoFails(t) PROVE Unlocked'
  BY <1>19 DEF DoFails, WorldFrame, ReaderAtFailure, LabelAtFailure, CtxDone
<1>20. CASE CloseReader
  BY <1>20 DEF CloseReader, WorldFrame
<1>21. CASE TransportReads
  BY <1>21 DEF TransportReads, SendReturns, WorldFrame, SndType
<1>22. CASE TransportEnds
  BY <1>22 DEF TransportEnds, WorldFrame
<1>23. ASSUME NEW t \in Responders, RespondLate(t) PROVE Unlocked'
  <2>1. MutexHeld'
    BY <1>23 DEF RespondLate, Resume, Closed, RespondFrame, RespType
  <2>2. SenderResponds'
    BY <1>23 DEF RespondLate, Resume, Closed, RespondFrame, RespType
  <2>3. ResponsesHaveBodies'
    BY <1>23 DEF RespondLate, Resume, Closed, RespondFrame, RespType
  <2>4. PublishedWhole'
    BY <1>23 DEF RespondLate, Resume, Closed, RespondFrame, RespType
  <2> QED
    BY <2>1, <2>2, <2>3, <2>4
<1>24. ASSUME NEW t \in Responders, RespondError(t) PROVE Unlocked'
  <2>1. MutexHeld'
    BY <1>24 DEF RespondError, Resume, IsError, Late, RespondFrame, StType
  <2>2. SenderResponds'
    BY <1>24 DEF RespondError, Resume, IsError, Late, RespondFrame, StType
  <2>3. ResponsesHaveBodies'
    BY <1>24 DEF RespondError, Resume, IsError, Late, RespondFrame, StType
  <2>4. PublishedWhole'
    BY <1>24 DEF RespondError, Resume, IsError, Late, RespondFrame, StType
  <2> QED
    BY <2>1, <2>2, <2>3, <2>4
<1>25. ASSUME NEW t \in Responders, RespondTakesBody(t) PROVE Unlocked'
  <2>1. MutexHeld'
    BY <1>25 DEF RespondTakesBody, Late, RespondFrame, StType
  <2>2. SenderResponds'
    BY <1>25 DEF RespondTakesBody, Late, RespondFrame, StType
  <2>3. ResponsesHaveBodies'
    BY <1>25 DEF RespondTakesBody, Late, RespondFrame, StType
  <2>4. PublishedWhole'
    BY <1>25 DEF RespondTakesBody, Late, RespondFrame, StType
  <2> QED
    BY <2>1, <2>2, <2>3, <2>4
<1>26. ASSUME NEW t \in Responders, FinishResponseFails(t) PROVE Unlocked'
  BY <1>26 DEF FinishResponseFails, Resume, Closed, FinishError, RespondFrame, StType, RespType
<1>27. ASSUME NEW t \in Responders, FinishResponse(t) PROVE Unlocked'
  BY <1>27 DEF FinishResponse, RespondFrame, RespType
<1>28. ASSUME NEW t \in Responders, RespondOK(t) PROVE Unlocked'
  BY <1>28 DEF RespondOK, Resume, Released, RespondFrame, StType, RespType
<1>29. ASSUME NEW t \in {"sender", "receiver"}, AwaitReady(t) PROVE Unlocked'
  BY <1>29 DEF AwaitReady, Answer, AwaitFrame
<1>30. ASSUME NEW t \in {"sender", "receiver"}, AwaitBlocks(t) PROVE Unlocked'
  BY <1>30 DEF AwaitBlocks, AwaitFrame
<1>31. ASSUME NEW t \in {"sender", "receiver"}, AwaitCanceled(t) PROVE Unlocked'
  BY <1>31 DEF AwaitCanceled, Answer, Wakes, CtxDone, AwaitFrame
<1>32. CASE Receive
  BY <1>32 DEF Receive, ReceiveFrame
<1>33. CASE ReceiveReads
  BY <1>33 DEF ReceiveReads, ReadsWhole, ServerStreaming, ReceiveFrame
<1>34. CASE ReadAll
  <2>1. MutexHeld'
    BY <1>34 DEF ReadAll, Released, ReceiveFrame, RespType
  <2>2. SenderResponds'
    BY <1>34 DEF ReadAll, Released, ReceiveFrame, RespType
  <2>3. ResponsesHaveBodies'
    BY <1>34 DEF ReadAll, Released, ReceiveFrame, RespType
  <2>4. PublishedWhole'
    BY <1>34 DEF ReadAll, Released, ReceiveFrame, RespType
  <2> QED
    BY <2>1, <2>2, <2>3, <2>4
<1>35. CASE ReadChunk
  <2>0. resp'.raw = "none" => resp.raw = "none"
    BY <1>35, ReleasedBody DEF ReadChunk, ReceiveFrame
  <2>1. MutexHeld'
    BY <1>35, <2>0 DEF ReadChunk, ReceiveFrame
  <2>2. SenderResponds'
    BY <1>35, <2>0 DEF ReadChunk, ReceiveFrame
  <2>3. ResponsesHaveBodies'
    BY <1>35, <2>0 DEF ReadChunk, ReceiveFrame
  <2>4. PublishedWhole'
    BY <1>35, <2>0 DEF ReadChunk, ReceiveFrame
  <2> QED
    BY <2>1, <2>2, <2>3, <2>4
<1>36. CASE ReadFails
  BY <1>36 DEF ReadFails, Released, ReceiveFrame, RespType
<1>37. CASE CloseCancels
  BY <1>37 DEF CloseCancels, AfterCancel, CloseFrame
<1>38. CASE CloseMarks
  BY <1>38 DEF CloseMarks, CloseFrame, StType
<1>39. CASE CloseRaw
  BY <1>39 DEF CloseRaw, AfterClose, Closed, CloseFrame, RespType
<1>40. ASSUME NEW err \in CtxErrors, CtxEnds(err) PROVE Unlocked'
  BY <1>40 DEF CtxEnds, CloseFrame
<1>41. CASE UNCHANGED vars
  BY <1>41 DEF vars
<1> QED
  BY <1>1, <1>2, <1>3, <1>4, <1>5, <1>6, <1>7, <1>8, <1>9, <1>10, <1>11, <1>12, <1>13, <1>14,
     <1>15, <1>16, <1>17, <1>18, <1>19, <1>20, <1>21, <1>22, <1>23, <1>24, <1>25, <1>26, <1>27,
     <1>28, <1>29, <1>30, <1>31, <1>32, <1>33, <1>34, <1>35, <1>36, <1>37, <1>38, <1>39, <1>40,
     <1>41
     DEF Next, Send, SendSteps, Respond, Await, Terminated

(* An outcome that is ready stays as it is in every step. *)
LEMMA OutcomeStep ==
    IInv /\ [Next]_vars =>
        (st.ready => st'.ready /\ st'.dispatch = st.dispatch /\ st'.response = st.response)
<1> SUFFICES ASSUME IInv, [Next]_vars, st.ready
             PROVE  st'.ready /\ st'.dispatch = st.dispatch /\ st'.response = st.response
  OBVIOUS
<1> DEFINE Same == st'.ready /\ st'.dispatch = st.dispatch /\ st'.response = st.response
<1>0. st \in StType
  BY DEF IInv, TypeOK
<1>1. ASSUME NEW t \in Responders, RespondError(t) \/ RespondTakesBody(t) PROVE FALSE
  BY <1>1 DEF RespondError, RespondTakesBody, Late
<1>2. ASSUME NEW t \in Responders, FinishResponseFails(t) \/ RespondOK(t) PROVE FALSE
  BY <1>2 DEF FinishResponseFails, RespondOK, IInv, MutexHeld
<1>3. CASE CloseMarks
  BY <1>0, <1>3 DEF CloseMarks, StType
<1>4. CASE UNCHANGED st
  BY <1>4
<1>5. \/ \E t \in Responders : \/ RespondError(t) \/ RespondTakesBody(t)
                               \/ FinishResponseFails(t) \/ RespondOK(t)
      \/ CloseMarks \/ UNCHANGED st
  BY DEF Next, Send, SendSteps, Respond, Await, Terminated, vars, SendAfterClose, SendFrame,
     CloseSend, FinishFrame, Encode, EncodeFails, SendAborts, FinishWithoutSend, FinishStream,
     FinishUnary, FlushFails, ClosePipe, SendRequest, SendRejected, SendCall, OpenNoBody,
     FirstCall, OpenFails, OpenBuffer, OpenPipe, SendNext, DoReplies, WorldFrame, DoFails,
     CloseReader, TransportReads, TransportEnds, RespondLate, RespondFrame, FinishResponse,
     AwaitReady, AwaitFrame, AwaitBlocks, AwaitCanceled, Receive, ReceiveFrame, ReceiveReads,
     ReadAll, ReadChunk, ReadFails, CloseCancels, CloseFrame, CloseRaw, CtxEnds
<1> QED
  BY <1>1, <1>2, <1>3, <1>4, <1>5

(* A thread returns an error only when the call is decided or canceled. *)
LEMMA DecidedStep ==
    IInv /\ FailedSendDecides /\ [Next]_vars => FailedSendDecides'
<1> SUFFICES ASSUME IInv, FailedSendDecides, [Next]_vars, ret'["sender"] \in Errors
             PROVE  st'.ready \/ CtxDone'
  BY DEF FailedSendDecides
<1>1. st.ready => st'.ready
  BY OutcomeStep
<1>2. CtxDone => CtxDone'
  <2>1. CASE CloseCancels
    BY <2>1, ErrorNames DEF CloseCancels, AfterCancel, CtxDone
  <2>2. ASSUME NEW err \in CtxErrors, CtxEnds(err) PROVE CtxDone'
    BY <2>2, ErrorNames DEF CtxEnds, CtxDone
  <2>3. \/ CloseCancels \/ (\E err \in CtxErrors : CtxEnds(err)) \/ UNCHANGED ctxErr
    BY DEF Next, Send, SendSteps, Respond, Await, Terminated, vars, SendAfterClose, SendFrame,
     CloseSend, FinishFrame, Encode, EncodeFails, SendAborts, FinishWithoutSend, FinishStream,
     FinishUnary, FlushFails, ClosePipe, SendRequest, SendRejected, SendCall, OpenNoBody,
     FirstCall, OpenFails, OpenBuffer, OpenPipe, SendNext, DoReplies, WorldFrame, DoFails,
     CloseReader, TransportReads, TransportEnds, RespondLate, RespondFrame, RespondError,
     RespondTakesBody, FinishResponseFails, FinishResponse, RespondOK, AwaitReady, AwaitFrame,
     AwaitBlocks, AwaitCanceled, Receive, ReceiveFrame, ReceiveReads, ReadAll, ReadChunk,
     ReadFails, CloseMarks, CloseFrame, CloseRaw
  <2> QED
    BY <2>1, <2>2, <2>3 DEF CtxDone
<1>3. CASE ret'["sender"] = ret["sender"]
  BY <1>1, <1>2, <1>3 DEF FailedSendDecides
<1>4. ASSUME NEW t \in Responders, RespondLate(t) PROVE st'.ready
  BY <1>1, <1>4 DEF RespondLate, Late
<1>5. ASSUME NEW t \in Responders,
             RespondError(t) \/ FinishResponseFails(t) \/ RespondOK(t)
      PROVE  st'.ready
  BY <1>5 DEF RespondError, FinishResponseFails, RespondOK, IInv, TypeOK, StType
<1>6. ASSUME NEW t \in {"sender", "receiver"}, AwaitReady(t) PROVE st.ready
  BY <1>6 DEF AwaitReady
<1>7. ASSUME NEW t \in {"sender", "receiver"}, AwaitCanceled(t) PROVE CtxDone
  BY <1>7 DEF AwaitCanceled, Wakes
<1>8. ASSUME NEW m, SendAfterClose \/ Encode \/ EncodeFails \/ TransportReads \/ OpenNoBody(m)
      PROVE  ret'["sender"] = ret["sender"] \/ ret'["sender"] \in {"ok", "EOF"}
  BY <1>8, ThreadNames DEF SendAfterClose, Encode, EncodeFails, TransportReads, OpenNoBody,
     SendReturns, SendFails, Return, IInv, TypeOK
<1>9. \/ ret'["sender"] = ret["sender"]
      \/ \E t \in Responders : \/ RespondLate(t) \/ RespondError(t)
                               \/ FinishResponseFails(t) \/ RespondOK(t)
      \/ \E t \in {"sender", "receiver"} : AwaitReady(t) \/ AwaitCanceled(t)
      \/ \E m : SendAfterClose \/ Encode \/ EncodeFails \/ TransportReads \/ OpenNoBody(m)
  <2>1. CASE Receive \/ ReceiveReads \/ ReadAll \/ ReadChunk \/ ReadFails
    BY <2>1, ThreadNames DEF Receive, ReceiveReads, ReadAll, ReadChunk, ReadFails, Return,
       IInv, TypeOK
  <2>2. CASE UNCHANGED ret
    BY <2>2
  <2> QED
    BY <2>1, <2>2 DEF Next, Send, SendSteps, Respond, Await, Terminated, vars, CloseSend,
     FinishFrame, SendFrame, SendAborts, FinishWithoutSend, FinishStream, FinishUnary, FlushFails,
     ClosePipe, SendRequest, SendRejected, SendCall, SendFails, OpenFails, FirstCall, OpenBuffer,
     OpenPipe, SendNext, DoReplies, WorldFrame, DoFails, CloseReader, TransportEnds,
     RespondTakesBody, RespondFrame, FinishResponse, AwaitBlocks, AwaitFrame, CloseCancels,
     CloseFrame, CloseMarks, CloseRaw, CtxEnds
<1> QED
  BY <1>1, <1>2, <1>3, <1>4, <1>5, <1>6, <1>7, <1>8, <1>9, ErrorNames

(* The stream starts in the invariant. *)
LEMMA InvInit == ConstantsAssumption /\ Init => IInv
BY TypeInit, ThreadNames DEF Init, IInv, MutexHeld, SenderResponds, ResponsesHaveBodies,
   PublishedWhole, Reading

(* The invariant holds in every reachable state, for every set of stream      *)
(* types, messages and encodings and every number of calls.                   *)
THEOREM Invariance == Spec => []IInv
<1>1. Init => IInv
  BY InvInit, ConstantsAssumption
<1>2. IInv /\ [Next]_vars => IInv'
  BY TypeStep, InvStep, ConstantsAssumption DEF Unlocked, IInv
<1> QED
  BY <1>1, <1>2, PTL DEF Spec

(* Type correctness: whatever order Send, CloseSend, Receive, Close and the   *)
(* request goroutine run in, every field keeps its type; in particular Send   *)
(* returns from respond with an error, never with a response.                 *)
THEOREM TypeCorrect == Spec => []TypeOK
<1>1. IInv => TypeOK
  BY DEF IInv
<1> QED
  BY <1>1, Invariance, PTL

(* Receive finds a response behind every nil dispatch error: respond sets     *)
(* both, or neither, before it closes ready, and nothing takes them back.     *)
THEOREM ReadsPublished == Spec => []ReadsPublishedResponse
<1>1. IInv => ReadsPublishedResponse
  BY DEF IInv, ResponsesHaveBodies, PublishedWhole, ReadsPublishedResponse
<1> QED
  BY <1>1, Invariance, PTL

(* The first outcome respond publishes is the only one: later calls of        *)
(* respond, from a failed Send or CloseSend or from the request goroutine,    *)
(* leave ready, the dispatch error and the response alone.                    *)
THEOREM FirstOutcomeStays == Spec => OutcomeOnce
<1>1. IInv /\ [Next]_vars =>
        [st.ready => /\ st'.ready
                     /\ st'.dispatch = st.dispatch /\ st'.response = st.response]_vars
  BY OutcomeStep
<1> QED
  BY <1>1, Invariance, PTL DEF Spec, OutcomeOnce

(* After a Send or CloseSend that failed, Receive does not wait for the       *)
(* server: the failure went through respond, or the context is done.          *)
THEOREM FailedSendDecided == Spec => []FailedSendDecides
<1>1. Init => FailedSendDecides
  BY ThreadNames, ErrorNames DEF Init, FailedSendDecides
<1>2. IInv /\ FailedSendDecides /\ [Next]_vars => FailedSendDecides'
  BY DecidedStep
<1> QED
  BY <1>1, <1>2, Invariance, PTL DEF Spec

---------------------------------------------------------------------------
(* The properties that need more than IInv, each from a part of its own, which is *)
(* inductive together with IInv.                                                  *)

(* The steps of a thread inside respond touch none of the request's state.  *)
RespondSteps(t) == Respond(t) \/ FinishResponse(t) \/ FinishResponseFails(t)
ReceiveSteps ==
    Await("receiver") \/ Receive \/ ReceiveReads \/ ReadAll \/ ReadChunk \/ ReadFails
CloseSteps == CloseCancels \/ CloseMarks \/ CloseRaw \/ \E err \in CtxErrors : CtxEnds(err)

LEMMA RespondKeeps ==
    ASSUME TypeOK, NEW t \in Responders, RespondSteps(t)
    PROVE  /\ UNCHANGED <<call, ctxErr, snd, received, req, hist, out, msg, used>>
           /\ pc[t] \in {"lock", "finishing", "info"}
           /\ pc'[t] \in {"idle", "poll", "done", "closeReader", "finishing", "info"}
           /\ t = "sender" => pc'[t] \in {"idle", "poll", "finishing", "info"}
           /\ \A u \in Threads : u # t => pc'[u] = pc[u] /\ ret'[u] = ret[u]
<1> USE ThreadNames DEF TypeOK, Goto, Return, RespondFrame, Resume
<1>1. CASE RespondLate(t)
  BY <1>1 DEF RespondLate
<1>2. CASE RespondError(t)
  BY <1>2 DEF RespondError
<1>3. CASE RespondTakesBody(t)
  BY <1>3 DEF RespondTakesBody
<1>4. CASE RespondOK(t)
  BY <1>4 DEF RespondOK
<1>5. CASE FinishResponse(t)
  BY <1>5 DEF FinishResponse
<1>6. CASE FinishResponseFails(t)
  BY <1>6 DEF FinishResponseFails
<1> QED
  BY <1>1, <1>2, <1>3, <1>4, <1>5, <1>6 DEF RespondSteps, Respond

LEMMA AwaitKeeps ==
    ASSUME TypeOK, NEW t \in {"sender", "receiver"}, Await(t)
    PROVE  /\ UNCHANGED <<call, ctxErr, snd, st, resp, req, hist, out, msg, used>>
           /\ pc[t] \in {"poll", "select"}
           /\ pc'[t] \in {"select", "idle", "decode"}
           /\ t = "sender" => pc'[t] \in {"select", "idle"} /\ received' = received
           /\ \A u \in Threads : u # t => pc'[u] = pc[u] /\ ret'[u] = ret[u]
BY ThreadNames DEF TypeOK, Goto, Return, Await, AwaitReady, AwaitBlocks, AwaitCanceled, Answer,
   AwaitFrame

LEMMA ReceiveKeeps ==
    ASSUME TypeOK, ReceiveSteps
    PROVE  /\ UNCHANGED <<call, ctxErr, snd, st, req, hist, out, msg>>
           /\ \A u \in Threads : u # "receiver" => pc'[u] = pc[u] /\ ret'[u] = ret[u]
<1>1. CASE Await("receiver")
  BY <1>1, AwaitKeeps
<1>2. CASE Receive \/ ReceiveReads \/ ReadAll \/ ReadChunk \/ ReadFails
  BY <1>2, ThreadNames DEF TypeOK, Goto, Return, Receive, ReceiveReads, ReadAll, ReadChunk,
     ReadFails, ReceiveFrame
<1> QED
  BY <1>1, <1>2 DEF ReceiveSteps

LEMMA CloseKeeps ==
    ASSUME TypeOK, CloseSteps
    PROVE  /\ UNCHANGED <<call, snd, received, req, hist, out, ret, msg, used>>
           /\ \A u \in Threads : u # "closer" => pc'[u] = pc[u]
BY ThreadNames DEF TypeOK, Goto, CloseSteps, CloseCancels, CloseMarks, CloseRaw, CtxEnds, CloseFrame

(* Nor does Send or CloseSend touch the response, and only the first Send    *)
(* touches the request goroutine.                                            *)
SenderSteps == SendAfterClose \/ CloseSend \/ SendSteps \/ \E m \in MsgKinds : Send(m)
SenderFrom == {"idle", "encode", "abort", "finish", "flush", "closePipe", "newRequest"}
SenderTo == SenderFrom \cup {"poll", "lock", "do"}

LEMMA SenderKeeps ==
    ASSUME TypeOK, SenderSteps
    PROVE  /\ UNCHANGED <<call, ctxErr, received, st, resp>>
           /\ pc["sender"] \in SenderFrom /\ pc'["sender"] \in SenderTo
           /\ \A u \in Threads : u # "sender" => ret'[u] = ret[u]
           /\ \A u \in Threads : u # "sender" /\ pc'[u] # pc[u] =>
                 u = "request" /\ First /\ pc'[u] = "do"
           /\ out'["request"] = out["request"]
           /\ req'.reader = "failed" => req.reader = "failed"
<1> DEFINE Kept ==
           /\ UNCHANGED <<call, ctxErr, received, st, resp>>
           /\ pc["sender"] \in SenderFrom /\ pc'["sender"] \in SenderTo
           /\ \A u \in Threads : u # "sender" => ret'[u] = ret[u]
           /\ \A u \in Threads : u # "sender" /\ pc'[u] # pc[u] =>
                 u = "request" /\ First /\ pc'[u] = "do"
           /\ out'["request"] = out["request"]
           /\ req'.reader = "failed" => req.reader = "failed"
<1> SUFFICES Kept
  OBVIOUS
<1> USE ThreadNames DEF TypeOK, Goto, Return, SenderFrom, SenderTo
<1>1. CASE SendAfterClose
  BY <1>1 DEF SendAfterClose, CallsSend, SendReturns, SendFrame
<1>2. CASE CloseSend
  BY <1>2 DEF CloseSend, CallsSend, FinishFrame, SendFrame
<1>3. CASE Encode
  BY <1>3 DEF Encode, SendReturns, SendFrame
<1>4. CASE EncodeFails
  BY <1>4 DEF EncodeFails, SendReturns, SendFails, SendFrame, ErrClosedPipe, WriteFails
<1>5. CASE SendAborts
  BY <1>5 DEF SendAborts, Aborted, SendFrame
<1>6. CASE FinishWithoutSend
  BY <1>6 DEF FinishWithoutSend, FinishFails, FinishFrame, SendFrame
<1>7. CASE FinishStream
  BY <1>7 DEF FinishStream, FinishFrame, SendFrame
<1>8. CASE FinishUnary
  BY <1>8 DEF FinishUnary, FinishFails, FinishFrame, SendFrame
<1>9. CASE FlushFails
  BY <1>9 DEF FlushFails, FinishFrame, SendFrame, WriteFails, ErrClosedPipe
<1>10. CASE ClosePipe
  BY <1>10 DEF ClosePipe, FinishFrame, SendFrame
<1>11. CASE SendRequest
  <2>1. UNCHANGED <<call, ctxErr, received, st, resp, ret>> /\ pc["sender"] = "newRequest"
    BY <1>11 DEF SendRequest, FinishFrame, SendFrame
  <2>2. pc' = [pc EXCEPT !["sender"] = pc'["sender"]] /\ pc'["sender"] \in {"lock", "do"}
    BY <1>11 DEF SendRequest, FinishFails
  <2>3. out'["request"] = out["request"]
    BY <1>11 DEF SendRequest, FinishFails
  <2>4. req'.reader = req.reader
    BY <1>11 DEF SendRequest, ReqType
  <2> QED
    BY <2>1, <2>2, <2>3, <2>4
<1>12. ASSUME NEW m \in MsgKinds, SendRejected(m) PROVE Kept
  BY <1>12 DEF SendRejected, SendCall, CallsSend, SendFails, SendFrame
<1>13. ASSUME NEW m \in MsgKinds, OpenNoBody(m) PROVE Kept
  BY <1>13 DEF OpenNoBody, FirstCall, Opened, SendCall, CallsSend, SendReturns, SendFrame
<1>14. ASSUME NEW m \in MsgKinds, OpenFails(m) PROVE Kept
  BY <1>14 DEF OpenFails, FirstCall, Opened, SendCall, CallsSend, SendFails, SendFrame
<1>15. ASSUME NEW m \in MsgKinds, OpenBuffer(m) PROVE Kept
  BY <1>15 DEF OpenBuffer, FirstCall, Opened, SendCall, CallsSend, SendFails, SendFrame
<1>16. ASSUME NEW m \in MsgKinds, OpenPipe(m) PROVE Kept
  BY <1>16 DEF OpenPipe, FirstCall, Opened, SendCall, CallsSend, SendFrame, ReqType
<1>17. ASSUME NEW m \in MsgKinds, SendNext(m) PROVE Kept
  BY <1>17 DEF SendNext, SendCall, CallsSend, SendFrame
<1> QED
  BY <1>1, <1>2, <1>3, <1>4, <1>5, <1>6, <1>7, <1>8, <1>9, <1>10, <1>11, <1>12, <1>13, <1>14, <1>15, <1>16, <1>17 DEF SenderSteps, SendSteps, Send

(* Nor does the transport, while it reads the request body.                 *)
RequestSteps == CloseReader \/ TransportReads \/ TransportEnds

LEMMA RequestKeeps ==
    ASSUME TypeOK, RequestSteps
    PROVE  /\ UNCHANGED <<call, ctxErr, received, st, resp, out, msg>>
           /\ \A u \in Threads : u # "sender" => ret'[u] = ret[u]
           /\ \A t \in Threads :
                 \/ pc'[t] = pc[t]
                 \/ /\ t = "request" /\ pc[t] = "closeReader" /\ pc'[t] = "done"
                 \/ /\ t = "sender" /\ pc[t] \in {"encode", "flush"}
                    /\ pc'[t] \in {"idle", "closePipe"}
           /\ req'.reader = "failed" => req.reader = "failed" \/ pc["request"] = "closeReader"
<1> USE ThreadNames DEF TypeOK, Goto, Return, WorldFrame, ReqType
<1>1. CASE CloseReader
  BY <1>1 DEF CloseReader
<1>2. CASE TransportReads
  BY <1>2 DEF TransportReads, SendReturns
<1>3. CASE TransportEnds
  BY <1>3 DEF TransportEnds
<1> QED
  BY <1>1, <1>2, <1>3 DEF RequestSteps

LEMMA NextSteps ==
    [Next]_vars =>
        \/ SenderSteps \/ RequestSteps \/ ReceiveSteps \/ CloseSteps \/ Await("sender")
        \/ \E t \in Responders : DoReplies(t) \/ DoFails(t) \/ RespondSteps(t)
        \/ UNCHANGED vars
BY DEF Next, SenderSteps, RequestSteps, RespondSteps, ReceiveSteps, CloseSteps, Terminated

---------------------------------------------------------------------------
(* UploadComplete *)

LEMMA UploadInit == Init => UploadInv
BY ThreadNames DEF Init, UploadInv, NothingSent, PipeCounted, PipeEnds, HasPipe

LEMMA UploadStep == ConstantsAssumption /\ IInv /\ UploadInv /\ [Next]_vars => UploadInv'
<1> SUFFICES ASSUME ConstantsAssumption, IInv, UploadInv, [Next]_vars PROVE UploadInv'
  OBVIOUS
<1>0. TypeOK /\ SenderResponds
  BY DEF IInv
<1> USE <1>0, ThreadNames DEF TypeOK, Goto, Return, UploadInv, NothingSent, PipeCounted, PipeEnds,
        HasPipe, First
<1>1. CASE SendAfterClose
  BY <1>1 DEF SendAfterClose, CallsSend, SendReturns, SendFrame, SndType, ReqType
<1>2. CASE CloseSend
  <2>1. NothingSent'
    BY <1>2 DEF CloseSend, CallsSend, FinishFrame, SendFrame, SndType, ReqType
  <2>2. PipeCounted'
    BY <1>2 DEF CloseSend, CallsSend, FinishFrame, SendFrame, SndType, ReqType
  <2>3. PipeEnds'
    BY <1>2 DEF CloseSend, CallsSend, FinishFrame, SendFrame, SndType, ReqType
  <2> QED
    BY <2>1, <2>2, <2>3
<1>3. CASE Encode
  <2>1. NothingSent'
    BY <1>3 DEF Encode, SendReturns, SendFrame, SndType, ReqType
  <2>2. PipeCounted'
    BY <1>3 DEF Encode, SendReturns, SendFrame, SndType, ReqType
  <2>3. PipeEnds'
    BY <1>3 DEF Encode, SendReturns, SendFrame, SndType, ReqType
  <2> QED
    BY <2>1, <2>2, <2>3
<1>4. CASE EncodeFails
  <2>1. NothingSent'
    BY <1>4 DEF EncodeFails, SendReturns, SendFails, SendFrame, ErrClosedPipe, WriteFails, SndType, ReqType
  <2>2. PipeCounted'
    BY <1>4 DEF EncodeFails, SendReturns, SendFails, SendFrame, ErrClosedPipe, WriteFails, SndType, ReqType
  <2>3. PipeEnds'
    BY <1>4 DEF EncodeFails, SendReturns, SendFails, SendFrame, ErrClosedPipe, WriteFails, SndType, ReqType
  <2> QED
    BY <2>1, <2>2, <2>3
<1>5. CASE SendAborts
  <2>1. NothingSent'
    BY <1>5 DEF SendAborts, Aborted, SendFrame, SndType, ReqType
  <2>2. PipeCounted'
    BY <1>5 DEF SendAborts, Aborted, SendFrame, SndType, ReqType
  <2>3. PipeEnds'
    BY <1>5 DEF SendAborts, Aborted, SendFrame, SndType, ReqType
  <2> QED
    BY <2>1, <2>2, <2>3
<1>6. CASE FinishWithoutSend
  <2>1. NothingSent'
    BY <1>6 DEF FinishWithoutSend, FinishFails, FinishFrame, SendFrame, SndType, ReqType
  <2>2. PipeCounted'
    BY <1>6 DEF FinishWithoutSend, FinishFails, FinishFrame, SendFrame, SndType, ReqType
  <2>3. PipeEnds'
    BY <1>6 DEF FinishWithoutSend, FinishFails, FinishFrame, SendFrame, SndType, ReqType
  <2> QED
    BY <2>1, <2>2, <2>3
<1>7. CASE FinishStream
  <2>1. NothingSent'
    BY <1>7 DEF FinishStream, FinishFrame, SendFrame, SndType, ReqType
  <2>2. PipeCounted'
    BY <1>7 DEF FinishStream, FinishFrame, SendFrame, SndType, ReqType
  <2>3. PipeEnds'
    BY <1>7 DEF FinishStream, FinishFrame, SendFrame, SndType, ReqType
  <2> QED
    BY <2>1, <2>2, <2>3
<1>8. CASE FinishUnary
  <2>0. /\ snd'.closed = snd.closed /\ snd'.url = snd.url /\ snd'.pipe = snd.pipe
        /\ snd'.buffered \in {0, snd.buffered}
    BY <1>8 DEF FinishUnary, SndType
  <2>a. ~HasPipe /\ ~HasPipe' /\ ~First /\ UNCHANGED <<req, hist>>
    BY <1>8, <2>0 DEF FinishUnary, FinishFrame, SendFrame
  <2>b. pc'["sender"] \in {"newRequest", "lock"}
    BY <1>8 DEF FinishUnary, FinishFails
  <2> QED
    BY <2>0, <2>a, <2>b
<1>9. CASE FlushFails
  <2>1. NothingSent'
    BY <1>9 DEF FlushFails, FinishFrame, SendFrame, WriteFails, ErrClosedPipe, SndType, ReqType
  <2>2. PipeCounted'
    BY <1>9 DEF FlushFails, FinishFrame, SendFrame, WriteFails, ErrClosedPipe, SndType, ReqType
  <2>3. PipeEnds'
    BY <1>9 DEF FlushFails, FinishFrame, SendFrame, WriteFails, ErrClosedPipe, SndType, ReqType
  <2> QED
    BY <2>1, <2>2, <2>3
<1>10. CASE ClosePipe
  <2>0. /\ snd'.closed = snd.closed /\ snd'.url = snd.url /\ snd'.compressor = snd.compressor
        /\ snd'.buffered = snd.buffered /\ snd'.pipe = IF snd.pipe = "open" THEN "eof" ELSE snd.pipe
    BY <1>10 DEF ClosePipe, SndType
  <2>a. pc["sender"] = "closePipe" /\ pc'["sender"] = "poll" /\ UNCHANGED <<req, hist>>
    BY <1>10 DEF ClosePipe, FinishFrame, SendFrame
  <2>b. snd.closed
    BY <2>a, <1>0 DEF SenderResponds
  <2> QED
    BY <2>0, <2>a, <2>b
<1>11. CASE SendRequest
  <2>1. NothingSent'
    BY <1>11 DEF SendRequest, FinishFails, FinishFrame, SendFrame, SndType, ReqType
  <2>2. PipeCounted'
    BY <1>11 DEF SendRequest, FinishFails, FinishFrame, SendFrame, SndType, ReqType
  <2>3. PipeEnds'
    BY <1>11 DEF SendRequest, FinishFails, FinishFrame, SendFrame, SndType, ReqType
  <2> QED
    BY <2>1, <2>2, <2>3
<1>12. ASSUME NEW m \in MsgKinds, SendRejected(m) PROVE UploadInv'
  <2>1. NothingSent'
    BY <1>12 DEF SendRejected, SendCall, CallsSend, SendFails, SendFrame, SndType, ReqType
  <2>2. PipeCounted'
    BY <1>12 DEF SendRejected, SendCall, CallsSend, SendFails, SendFrame, SndType, ReqType
  <2>3. PipeEnds'
    BY <1>12 DEF SendRejected, SendCall, CallsSend, SendFails, SendFrame, SndType, ReqType
  <2> QED
    BY <2>1, <2>2, <2>3
<1>13. ASSUME NEW m \in MsgKinds, OpenNoBody(m) PROVE UploadInv'
  <2>1. NothingSent'
    BY <1>13 DEF OpenNoBody, FirstCall, Opened, SendCall, CallsSend, SendReturns, SendFrame, SndType, ReqType
  <2>2. PipeCounted'
    BY <1>13 DEF OpenNoBody, FirstCall, Opened, SendCall, CallsSend, SendReturns, SendFrame, SndType, ReqType
  <2>3. PipeEnds'
    BY <1>13 DEF OpenNoBody, FirstCall, Opened, SendCall, CallsSend, SendReturns, SendFrame, SndType, ReqType
  <2> QED
    BY <2>1, <2>2, <2>3
<1>14. ASSUME NEW m \in MsgKinds, OpenFails(m) PROVE UploadInv'
  <2>1. NothingSent'
    BY <1>14 DEF OpenFails, FirstCall, Opened, SendCall, CallsSend, SendFails, SendFrame, SndType, ReqType
  <2>2. PipeCounted'
    BY <1>14 DEF OpenFails, FirstCall, Opened, SendCall, CallsSend, SendFails, SendFrame, SndType, ReqType
  <2>3. PipeEnds'
    BY <1>14 DEF OpenFails, FirstCall, Opened, SendCall, CallsSend, SendFails, SendFrame, SndType, ReqType
  <2> QED
    BY <2>1, <2>2, <2>3
<1>15. ASSUME NEW m \in MsgKinds, OpenBuffer(m) PROVE UploadInv'
  <2>0. /\ snd'.closed = snd.closed /\ snd'.url # "unset" /\ snd'.pipe = snd.pipe
        /\ snd'.buffered = snd.buffered
    <3>1. \/ snd' = [Opened(m) EXCEPT !.compressor = call.compress]
          \/ snd' = Opened(m)
      BY <1>15 DEF OpenBuffer
    <3> QED
      BY <3>1 DEF Opened, SndType
  <2>a. First /\ ~snd.closed /\ req' = req
    BY <1>15 DEF OpenBuffer, FirstCall, SendCall
  <2>b. ~HasPipe /\ ~HasPipe' /\ ~hist.lost /\ pc'["sender"] \in {"encode", "abort"}
    BY <1>15, <2>0, <2>a DEF OpenBuffer, SendFails
  <2>c. ~hist'.lost
    BY <1>15, <2>b DEF OpenBuffer, SendFails
  <2> QED
    BY <2>0, <2>a, <2>b, <2>c
<1>16. ASSUME NEW m \in MsgKinds, OpenPipe(m) PROVE UploadInv'
  <2>0. /\ snd'.closed = snd.closed /\ snd'.url # "unset" /\ snd'.pipe = "open"
        /\ snd'.buffered = snd.buffered
    <3>1. \/ snd' = [Opened(m) EXCEPT !.pipe = "open", !.compressor = call.compress]
          \/ snd' = [Opened(m) EXCEPT !.pipe = "open"]
      BY <1>16 DEF OpenPipe
    <3>2. Opened(m) \in SndType /\ Opened(m).buffered = snd.buffered
      BY DEF Opened, SndType
    <3>3. snd'.pipe = "open" /\ snd'.buffered = snd.buffered
      BY <3>1, <3>2 DEF SndType
    <3> QED
      BY <1>16, <3>3, OpenKeeps
  <2>a. First /\ ~snd.closed
    BY <1>16 DEF OpenPipe, FirstCall, SendCall
  <2>b. req'.wire = 0 /\ req'.end = "none"
    BY <1>16, <2>a DEF OpenPipe, ReqType
  <2>c. hist'.accepted = 0 /\ (hist'.lost => pc'["sender"] = "abort")
    BY <1>16, <2>a DEF OpenPipe
  <2>d. pc'["sender"] \in {"encode", "abort"}
    BY <1>16 DEF OpenPipe
  <2> QED
    BY <2>0, <2>a, <2>b, <2>c, <2>d
<1>17. ASSUME NEW m \in MsgKinds, SendNext(m) PROVE UploadInv'
  BY <1>17 DEF SendNext, SendCall, CallsSend, SendFrame, SndType, ReqType
<1>18. ASSUME NEW t \in Responders, DoReplies(t) PROVE UploadInv'
  <2>1. NothingSent'
    BY <1>18 DEF DoReplies, WorldFrame, SndType, ReqType
  <2>2. PipeCounted'
    BY <1>18 DEF DoReplies, WorldFrame, SndType, ReqType
  <2>3. PipeEnds'
    BY <1>18 DEF DoReplies, WorldFrame, SndType, ReqType
  <2> QED
    BY <2>1, <2>2, <2>3
<1>19. ASSUME NEW t \in Responders, DoFails(t) PROVE UploadInv'
  <2>1. NothingSent'
    BY <1>19 DEF DoFails, WorldFrame, ReaderAtFailure, LabelAtFailure, SndType, ReqType
  <2>2. PipeCounted'
    BY <1>19 DEF DoFails, WorldFrame, ReaderAtFailure, LabelAtFailure, SndType, ReqType
  <2>3. PipeEnds'
    BY <1>19 DEF DoFails, WorldFrame, ReaderAtFailure, LabelAtFailure, SndType, ReqType
  <2> QED
    BY <2>1, <2>2, <2>3
<1>20. CASE CloseReader
  <2>1. /\ req'.wire = req.wire /\ (req'.reader = "open" => req.reader = "open")
        /\ req'.end = "eof" <=> req.end = "eof"
    BY <1>20 DEF CloseReader, ReqType
  <2>2. snd.url # "unset"
    BY <1>20 DEF CloseReader, SenderResponds
  <2>3. UNCHANGED <<snd, hist>> /\ pc'["sender"] = pc["sender"]
    BY <1>20 DEF CloseReader, WorldFrame
  <2> QED
    BY <2>1, <2>2, <2>3
<1>21. CASE TransportReads
  <2>1. NothingSent'
    BY <1>21 DEF TransportReads, SendReturns, WorldFrame, SndType, ReqType
  <2>2. PipeCounted'
    BY <1>21 DEF TransportReads, SendReturns, WorldFrame, SndType, ReqType
  <2>3. PipeEnds'
    BY <1>21 DEF TransportReads, SendReturns, WorldFrame, SndType, ReqType
  <2> QED
    BY <2>1, <2>2, <2>3
<1>22. CASE TransportEnds
  <2>1. /\ req.reader = "open" /\ req'.wire = req.wire /\ req'.reader = "closed"
        /\ req'.end = "eof" => snd.pipe = "eof"
    BY <1>22 DEF TransportEnds, ReqType
  <2>2. snd.url # "unset"
    BY <2>1
  <2>3. UNCHANGED <<snd, hist>> /\ pc'["sender"] = pc["sender"]
    BY <1>22 DEF TransportEnds, WorldFrame
  <2> QED
    BY <2>1, <2>2, <2>3
<1>23. ASSUME NEW t \in Responders, RespondSteps(t) PROVE UploadInv'
  BY <1>23, RespondKeeps
<1>24. CASE Await("sender")
  BY <1>24, AwaitKeeps
<1>25. CASE ReceiveSteps
  BY <1>25, ReceiveKeeps
<1>26. CASE CloseSteps
  BY <1>26, CloseKeeps
<1>27. CASE UNCHANGED vars
  BY <1>27 DEF vars
<1> HIDE <1>0 DEF TypeOK, Goto, Return, UploadInv, NothingSent, PipeCounted, PipeEnds, HasPipe, First
<1> QED
  BY NextSteps, <1>1, <1>2, <1>3, <1>4, <1>5, <1>6, <1>7, <1>8, <1>9, <1>10, <1>11, <1>12, <1>13, <1>14, <1>15, <1>16, <1>17, <1>18, <1>19, <1>20, <1>21, <1>22, <1>23, <1>24, <1>25, <1>26, <1>27 DEF SenderSteps, Send, SendSteps, RequestSteps

(* A peer that sees a client stream's upload end cleanly has all of it: what  *)
(* Send accepted, held back by a compressor or not, was flushed before        *)
(* CloseSend ended the pipe, and no Send had failed.                          *)
THEOREM UploadsComplete == Spec => []UploadComplete
<1>1. Init => UploadInv
  BY UploadInit
<1>2. IInv /\ UploadInv /\ [Next]_vars => UploadInv'
  BY UploadStep, ConstantsAssumption
<1>3. IInv /\ UploadInv => UploadComplete
  BY DEF IInv, TypeOK, SndType, ReqType, UploadInv, PipeCounted, PipeEnds, UploadComplete, HasPipe
<1> QED
  BY <1>1, <1>2, <1>3, Invariance, PTL DEF Spec

---------------------------------------------------------------------------
(* NoOrphanBody *)

LEMMA BodyInit == Init => BodyOwned
BY ThreadNames DEF Init, BodyOwned

(* Whoever has an open body in hand keeps it, publishes it or closes it.      *)
LEMMA BodyStep == IInv /\ BodyOwned /\ [Next]_vars => BodyOwned'
<1> SUFFICES ASSUME IInv, BodyOwned, [Next]_vars PROVE BodyOwned'
  OBVIOUS
<1>0. TypeOK /\ MutexHeld /\ ResponsesHaveBodies
  BY DEF IInv
<1> USE <1>0, ThreadNames DEF BodyOwned, Responding
<1>1. CASE SenderSteps
  <2>1. SenderResponds
    BY DEF IInv
  <2>2. Responding("request") => Responding("request")'
    BY <1>1, <2>1, SenderKeeps DEF SenderResponds, First
  <2>3. ~Responding("sender")
    BY <1>1, SenderKeeps DEF SenderFrom
  <2> QED
    BY <1>1, <2>2, <2>3, SenderKeeps
<1>2. CASE RequestSteps
  BY <1>2, RequestKeeps
<1>3. CASE ReceiveSteps
  <2>1. resp'.raw = "open" => resp.raw = "open"
    BY <1>3 DEF ReceiveSteps, Await, AwaitReady, AwaitBlocks, AwaitCanceled, AwaitFrame, Receive,
       ReceiveReads, ReadAll, ReadChunk, ReadFails, Released, TypeOK, RespType
  <2> QED
    BY <1>3, <2>1, ReceiveKeeps
<1>4. CASE CloseSteps
  BY <1>4 DEF CloseSteps, CloseCancels, CloseMarks, CloseRaw, CtxEnds, CloseFrame, AfterClose,
     Closed, Goto, TypeOK, RespType, StType, MutexHeld
<1>5. CASE Await("sender")
  BY <1>5, AwaitKeeps
<1>6. ASSUME NEW t \in Responders, DoReplies(t) PROVE BodyOwned'
  BY <1>6 DEF DoReplies, WorldFrame, Goto, TypeOK
<1>7. ASSUME NEW t \in Responders, DoFails(t) PROVE BodyOwned'
  BY <1>7 DEF DoFails, WorldFrame, LabelAtFailure, Goto, TypeOK
<1>8. ASSUME NEW t \in Responders, RespondSteps(t) PROVE BodyOwned'
  <2> USE DEF RespondFrame, TypeOK, RespType, StType
  <2>1. \A u \in Threads : u # t => pc'[u] = pc[u]
    BY <1>8, RespondKeeps
  <2>2. out' = out
    BY <1>8, RespondKeeps
  <2>3. CASE RespondLate(t)
    BY <2>1, <2>2, <2>3 DEF RespondLate, Closed
  <2>4. CASE RespondError(t)
    BY <2>1, <2>2, <2>4 DEF RespondError, IsError
  <2>5. CASE RespondTakesBody(t)
    BY <2>1, <2>2, <2>5 DEF RespondTakesBody, Goto
  <2>6. CASE RespondOK(t)
    BY <2>1, <2>2, <2>6 DEF RespondOK, Released, Unwanted, MutexHeld
  <2>7. CASE FinishResponse(t)
    BY <2>1, <2>2, <2>7 DEF FinishResponse, Goto
  <2>8. CASE FinishResponseFails(t)
    BY <2>1, <2>2, <2>8 DEF FinishResponseFails, Closed
  <2> QED
    BY <1>8, <2>3, <2>4, <2>5, <2>6, <2>7, <2>8 DEF RespondSteps, Respond
<1>9. CASE UNCHANGED vars
  BY <1>9 DEF vars
<1> QED
  BY NextSteps, <1>1, <1>2, <1>3, <1>4, <1>5, <1>6, <1>7, <1>8, <1>9

(* Close leaves no response body open behind it, whether it comes before,     *)
(* during or after the respond call that takes the body: the one that is last *)
(* closes it.                                                                 *)
THEOREM NoBodyOrphaned == Spec => []NoOrphanBody
<1>1. Init => BodyOwned
  BY BodyInit
<1>2. IInv /\ BodyOwned /\ [Next]_vars => BodyOwned'
  BY BodyStep
<1>3. BodyOwned => NoOrphanBody
  BY DEF BodyOwned, NoOrphanBody
<1> QED
  BY <1>1, <1>2, <1>3, Invariance, PTL DEF Spec

---------------------------------------------------------------------------
(* SendBlamesMessage *)

LEMMA BlameInit == Init => RespondsFirst
BY ThreadNames DEF Init, RespondsFirst, SendBlamesMessage

LEMMA BlameStep == IInv /\ RespondsFirst /\ [Next]_vars => RespondsFirst'
<1> SUFFICES ASSUME IInv, RespondsFirst, [Next]_vars PROVE RespondsFirst'
  OBVIOUS
<1>0. TypeOK
  BY DEF IInv
<1>a. st.ready => st'.ready
  BY OutcomeStep
<1> USE <1>0, <1>a, ThreadNames DEF RespondsFirst, SendBlamesMessage
<1>1. CASE SenderSteps
  <2>1. pc'["request"] = "closeReader" \/ req'.reader = "failed" => st'.ready
    BY <1>1, SenderKeeps
  <2>2. CASE EncodeFails
    BY <2>2 DEF EncodeFails, SendReturns, SendFails, SendFrame, Goto, Return, WriteFails,
       ErrClosedPipe, TypeOK
  <2>3. ASSUME NEW m \in MsgKinds, SendRejected(m) PROVE SendBlamesMessage'
    BY <2>3, ErrorNames DEF SendRejected, SendCall, SendFails, TypeOK
  <2>4. ASSUME NEW m \in MsgKinds, OpenFails(m) \/ OpenBuffer(m) \/ OpenPipe(m)
        PROVE  SendBlamesMessage'
    BY <2>4 DEF OpenFails, OpenBuffer, OpenPipe, SendFails, Goto, TypeOK
  <2>5. ASSUME NEW m \in MsgKinds, OpenNoBody(m) \/ SendNext(m) PROVE pc'["sender"] # "abort"
    BY <2>5 DEF OpenNoBody, SendNext, SendReturns, Goto, Return, TypeOK
  <2>6. CASE \/ SendAfterClose \/ CloseSend \/ Encode \/ SendAborts \/ FinishWithoutSend
             \/ FinishStream \/ FinishUnary \/ FlushFails \/ ClosePipe \/ SendRequest
    <3>1. CASE SendAfterClose \/ CloseSend \/ Encode \/ SendAborts
      BY <3>1 DEF SendAfterClose, CloseSend, Encode, SendAborts, SendReturns, Goto, Return, TypeOK
    <3>2. CASE FinishWithoutSend \/ FinishStream \/ FlushFails \/ ClosePipe
      BY <3>2 DEF FinishWithoutSend, FinishStream, FlushFails, ClosePipe, FinishFails, Goto, TypeOK
    <3>3. CASE FinishUnary \/ SendRequest
      <4>1. pc'["sender"] # "abort"
        BY <3>3 DEF FinishUnary, SendRequest, FinishFails, Goto, TypeOK
      <4> QED
        BY <2>1, <4>1
    <3> QED
      BY <2>6, <3>1, <3>2, <3>3
  <2> QED
    BY <1>1, <2>1, <2>2, <2>3, <2>4, <2>5, <2>6 DEF SenderSteps, SendSteps, Send
<1>2. CASE RequestSteps
  BY <1>2, RequestKeeps
<1>3. CASE ReceiveSteps
  BY <1>3, ReceiveKeeps
<1>4. CASE CloseSteps
  BY <1>4, CloseKeeps
<1>5. CASE Await("sender")
  BY <1>5, AwaitKeeps
<1>6. ASSUME NEW t \in Responders, DoReplies(t) PROVE RespondsFirst'
  BY <1>6 DEF DoReplies, WorldFrame, Goto, TypeOK
<1>7. ASSUME NEW t \in Responders, DoFails(t) PROVE RespondsFirst'
  BY <1>7 DEF DoFails, WorldFrame, LabelAtFailure, ReaderAtFailure, Goto, TypeOK, ReqType
<1>8. ASSUME NEW t \in Responders, RespondSteps(t) PROVE RespondsFirst'
  <2>1. pc'["request"] = "closeReader" => pc["request"] = "closeReader" \/ st'.ready
    <3>1. CASE RespondTakesBody(t) \/ FinishResponse(t)
      BY <3>1 DEF RespondTakesBody, FinishResponse, Goto, TypeOK
    <3>2. CASE RespondLate(t) \/ RespondError(t) \/ RespondOK(t) \/ FinishResponseFails(t)
      BY <3>2 DEF RespondLate, RespondError, RespondOK, FinishResponseFails, Late, TypeOK, StType
    <3> QED
      BY <1>8, <3>1, <3>2 DEF RespondSteps, Respond
  <2> QED
    BY <1>8, <2>1, RespondKeeps
<1>9. CASE UNCHANGED vars
  BY <1>9 DEF vars
<1> QED
  BY NextSteps, <1>1, <1>2, <1>3, <1>4, <1>5, <1>6, <1>7, <1>8, <1>9

(* A Send that reports its message as invalid had an invalid one: whatever    *)
(* makes a pending write fail has published the outcome of the call before,   *)
(* so Send sees it and says io.EOF.                                           *)
THEOREM BlameIsRight == Spec => []SendBlamesMessage
<1>1. Init => RespondsFirst
  BY BlameInit
<1>2. IInv /\ RespondsFirst /\ [Next]_vars => RespondsFirst'
  BY BlameStep
<1>3. RespondsFirst => SendBlamesMessage
  BY DEF RespondsFirst
<1> QED
  BY <1>1, <1>2, <1>3, Invariance, PTL DEF Spec

---------------------------------------------------------------------------
(* DecompressorSpared *)

(* The decompressor of a Receive that is decoding belongs to it alone: what   *)
(* Close and a late respond do to the response leaves it open.                *)
THEOREM DecompressorIsSpared == Spec => DecompressorSpared
<1>1. ASSUME IInv, [Next]_vars, Reading, pc'["receiver"] = pc["receiver"]
      PROVE  resp'.decomp = resp.decomp
  <2>0. TypeOK /\ st.ready
    BY <1>1 DEF IInv, PublishedWhole
  <2> USE <2>0, ThreadNames DEF TypeOK, RespType
  <2>1. CASE SenderSteps
    BY <2>1, SenderKeeps
  <2>2. CASE RequestSteps
    BY <2>2, RequestKeeps
  <2>3. CASE ReceiveSteps
    BY <1>1, <2>3 DEF ReceiveSteps, Await, AwaitReady, AwaitBlocks, AwaitCanceled, AwaitFrame, Receive,
       ReceiveReads, ReadAll, ReadChunk, ReadFails, Return, Goto, Reading
  <2>4. CASE CloseSteps
    BY <2>4 DEF CloseSteps, CloseCancels, CloseMarks, CloseRaw, CtxEnds, CloseFrame, AfterClose, Closed
  <2>5. CASE Await("sender")
    BY <2>5, AwaitKeeps
  <2>6. ASSUME NEW t \in Responders, DoReplies(t) \/ DoFails(t) PROVE resp'.decomp = resp.decomp
    BY <2>6 DEF DoReplies, DoFails
  <2>7. ASSUME NEW t \in Responders, RespondSteps(t) PROVE resp'.decomp = resp.decomp
    <3>1. pc[t] \notin {"finishing", "info"}
      BY <1>1, <2>0 DEF IInv, MutexHeld
    <3> QED
      BY <2>7, <3>1 DEF RespondSteps, Respond, RespondLate, RespondError, RespondTakesBody, RespondOK,
         FinishResponse, FinishResponseFails, Closed
  <2>8. CASE UNCHANGED vars
    BY <2>8 DEF vars
  <2> QED
    BY <1>1, NextSteps, <2>1, <2>2, <2>3, <2>4, <2>5, <2>6, <2>7, <2>8
<1>2. IInv /\ [Next]_vars =>
        [Reading /\ pc'["receiver"] = pc["receiver"] => resp'.decomp = resp.decomp]_vars
  BY <1>1
<1> QED
  BY <1>2, Invariance, PTL DEF Spec, DecompressorSpared
=============================================================================
