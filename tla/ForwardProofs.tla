--------------------------- MODULE ForwardProofs ---------------------------
(***************************************************************************)
(* Proofs about forward, for any number of requests and responses, any     *)
(* errors, and any upstream call that keeps the promise of CallOutcome.    *)
(***************************************************************************)
EXTENDS Forward, TLAPS

(* The relay is between two responses, or has one in hand; a call that has    *)
(* nothing more to say has succeeded, or the relay would have left its loop.  *)
Relaying ==
    /\ relay.pc \in {"call", "receive"} => down.sent = got
    /\ relay.pc = "send" => down.sent + 1 = got
    /\ relay.pc \in {"call", "receive", "send"} /\ over => verdict = "ok"
    /\ relay.pc \in {"call", "receive", "send", "poll"} => result = "none"

(* forwardResponses returns no error only at the end of the responses, and    *)
(* forward only if forwardResponses did.                                      *)
Finished ==
    (relay.pc = "poll" /\ relay.err = "ok") \/ result = "ok" =>
        verdict = "ok" /\ answer = "EOF" /\ relay.err = "ok" /\ down.sent = got

IInv == TypeOK /\ Relaying /\ Finished

PumpType == [pc : {"idle", "receive", "cancel", "send", "closeSend", "publish", "done"},
             err : Errors \cup {"ok"}]
RelayType == [pc : {"call", "receive", "send", "poll", "close", "done"}, err : Errors \cup {"ok"}]
CtxType == [err : CtxErrors \cup {"none"}, by : {"none", "pump", "relay", "caller"}]
DownType == [received : Nat, sent : Nat, failed : BOOLEAN]

UpTypeOK ==
    /\ streaming \in BOOLEAN /\ over \in BOOLEAN
    /\ verdict \in Verdicts \cup {"pending"} /\ body \in {"none", "open", "closed"}
    /\ answer \in UpErrors \cup {"none", "ok", "EOF"}

(* No error has the name of another outcome.                                  *)
LEMMA ErrorsAreErrors ==
    ConstantsAssumption =>
        /\ UpErrors \subseteq Errors /\ CtxErrors \subseteq Errors
        /\ CtxErrors \subseteq UpErrors
        /\ Refusals \subseteq Errors /\ RequestErrors \subseteq Errors
        /\ \A e \in Errors : e \notin {"none", "ok", "EOF", "empty", "plain", "pending", "rejected"}
BY DEF ConstantsAssumption, Errors, UpErrors

LEMMA Types ==
    TypeOK <=> /\ UpTypeOK /\ pump \in PumpType /\ relay \in RelayType /\ ctx \in CtxType
               /\ down \in DownType /\ got \in Nat /\ owed \in BOOLEAN
               /\ sent \in Errors \cup {"empty", "ok"}
               /\ result \in Errors \cup {"none", "ok"}
BY DEF TypeOK, UpTypeOK, PumpType, RelayType, CtxType, DownType

LEMMA TypesAfter ==
    TypeOK' <=> /\ UpTypeOK' /\ pump' \in PumpType /\ relay' \in RelayType /\ ctx' \in CtxType
                /\ down' \in DownType /\ got' \in Nat /\ owed' \in BOOLEAN
                /\ sent' \in Errors \cup {"empty", "ok"}
                /\ result' \in Errors \cup {"none", "ok"}
BY DEF TypeOK, UpTypeOK, PumpType, RelayType, CtxType, DownType

(* Only the first end of a context counts.                                    *)
LEMMA ContextEnds ==
    ASSUME ctx \in CtxType, NEW err \in CtxErrors, NEW by \in {"pump", "relay", "caller"}
    PROVE  Ended(ctx, err, by) \in CtxType
BY DEF Ended, CtxType

(* What the upstream call does by itself, or for Send: it answers nothing.    *)
LEMMA UpDecidesOnce ==
    ASSUME UpTypeOK,
           UNCHANGED upstream \/ Up!Arrive \/ Up!Drop \/ \E v \in Verdicts : Up!Decide(v)
    PROVE  /\ UpTypeOK' /\ UNCHANGED <<answer, over>>
           /\ verdict # "pending" => verdict' = verdict
BY DEF UpTypeOK, upstream, Up!Arrive, Up!Drop, Up!Decide, Up!BodyMayClose

(* What Receive answers: a response only from a call that succeeded, and the  *)
(* end of the responses from one that has said all it had.                    *)
LEMMA UpAnswers ==
    ASSUME ConstantsAssumption, UpTypeOK, UpReceive, over => verdict = "ok"
    PROVE  /\ UpTypeOK' /\ UNCHANGED verdict
           /\ answer' \in {"ok", "EOF"} => verdict = "ok"
<1>1. CASE Up!AnswerOver
  BY <1>1 DEF UpTypeOK, Up!AnswerOver
<1>2. CASE Up!Answer
  <2>1. UNCHANGED <<streaming, verdict>> /\ body' \in {"none", "open", "closed"}
    BY <1>2 DEF UpTypeOK, Up!Answer, Up!BodyMayClose
  <2>2. CASE Up!Deliver
    BY <2>1, <2>2 DEF UpTypeOK, Up!Deliver
  <2>3. CASE Up!Refuse
    BY <2>1, <2>3 DEF UpReceive, Up!Refuse
  <2>4. CASE Up!End
    BY <2>1, <2>4 DEF UpTypeOK, Up!End
  <2>5. ASSUME NEW e \in UpErrors, Up!Fail(e)
        PROVE  UpTypeOK' /\ answer' \notin {"ok", "EOF"}
    BY <2>1, <2>5, ErrorsAreErrors DEF UpTypeOK, Up!Fail
  <2> QED
    BY <1>2, <2>1, <2>2, <2>3, <2>4, <2>5 DEF Up!Answer
<1> QED
  BY <1>1, <1>2 DEF UpReceive

LEMMA InvInit == ConstantsAssumption /\ Init => IInv
<1> SUFFICES ASSUME ConstantsAssumption, Init PROVE IInv
  OBVIOUS
<1>1. TypeOK
  BY Types DEF Init, Up!Init, UpTypeOK, PumpType, RelayType, CtxType, DownType
<1>2. Relaying /\ Finished
  BY DEF Init, Up!Init, Relaying, Finished
<1> QED
  BY <1>1, <1>2 DEF IInv

(* The pump, the upstream call and the caller leave the relay as it is; the   *)
(* pump does not touch what went downstream.                                  *)
LEMMA OthersKeepInv ==
    ASSUME IInv, UpTypeOK', UNCHANGED <<relay, got, result, answer, over>>,
           verdict # "pending" => verdict' = verdict,
           down.sent' = down.sent
    PROVE  (Relaying /\ Finished)'
BY DEF IInv, Relaying, Finished

LEMMA PumpStep ==
    ASSUME ConstantsAssumption, IInv,
           PumpReceives \/ PumpCancels \/ PumpSends \/ PumpClosesSend \/ PumpPublishes
    PROVE  IInv'
<1> USE Types, TypesAfter DEF IInv
<1>1. UpTypeOK' /\ UNCHANGED <<relay, got, result, upstream>>
  BY DEF PumpReceives, PumpCancels, PumpSends, PumpClosesSend, PumpPublishes, PumpFrame,
         UpTypeOK, upstream
<1>2. CASE PumpReceives
  <2>1. pump' \in PumpType
    BY <1>2, ErrorsAreErrors DEF PumpReceives, PumpType
  <2>2. down' \in DownType /\ down'.sent = down.sent
    <3> DEFINE received == down.received + 1
    <3>1. received \in Nat /\ down \in DownType
      BY DEF DownType
    <3> HIDE DEF received
    <3>2. \/ down' = [down EXCEPT !.received = received]
          \/ UNCHANGED down \/ down' = [down EXCEPT !.failed = TRUE]
      BY <1>2 DEF PumpReceives, received
    <3> QED
      BY <3>1, <3>2 DEF DownType
  <2> QED
    BY <1>1, <1>2, <2>1, <2>2, OthersKeepInv DEF PumpReceives, upstream
<1>3. CASE PumpCancels
  <2>1. pump' \in PumpType /\ ctx' \in CtxType
    BY <1>3, ContextEnds DEF PumpCancels, AfterRequestFailed, PumpType, CtxErrors
  <2> QED
    BY <1>1, <1>3, <2>1, OthersKeepInv DEF PumpCancels, upstream
<1>4. CASE PumpSends
  <2>1. pump' \in PumpType /\ owed' \in BOOLEAN
    <3>1. CASE pump' = [pump EXCEPT !.pc = "receive"] /\ UNCHANGED owed
      BY <3>1 DEF PumpType
    <3>2. CASE PumpReturns("ok") /\ owed' = TRUE
      BY <3>2 DEF PumpReturns, PumpType
    <3>3. ASSUME NEW e \in UpErrors, PumpReturns(e), UNCHANGED owed
          PROVE  pump' \in PumpType /\ owed' \in BOOLEAN
      BY <3>3, ErrorsAreErrors DEF PumpReturns, PumpType
    <3> QED
      BY <1>4, <3>1, <3>2, <3>3 DEF PumpSends
  <2> QED
    BY <1>1, <1>4, <2>1, OthersKeepInv DEF PumpSends, upstream
<1>5. CASE PumpClosesSend
  <2>1. pump' \in PumpType
    BY <1>5, ErrorsAreErrors DEF PumpClosesSend, PumpReturns, PumpType, CtxDone, CtxType
  <2> QED
    BY <1>1, <1>5, <2>1, OthersKeepInv DEF PumpClosesSend, upstream
<1>6. CASE PumpPublishes
  <2>1. pump' \in PumpType /\ sent' \in Errors \cup {"empty", "ok"}
    BY <1>6 DEF PumpPublishes, PumpType
  <2> QED
    BY <1>1, <1>6, <2>1, OthersKeepInv DEF PumpPublishes, upstream
<1> QED
  BY <1>2, <1>3, <1>4, <1>5, <1>6

(* The upstream call moves between two calls of Receive, or the caller goes.  *)
LEMMA WorldStep ==
    ASSUME ConstantsAssumption, IInv,
           UpResponse \/ (\E v \in Verdicts : UpDecides(v)) \/ \E err \in CtxErrors : CallerEnds(err)
    PROVE  IInv'
<1> USE Types, TypesAfter DEF IInv
<1>1. UNCHANGED <<pump, relay, sent, down, got, owed, result>>
  BY DEF UpResponse, UpDecides, CallerEnds, WorldFrame
<1>2. /\ UpTypeOK' /\ UNCHANGED <<answer, over>>
      /\ verdict # "pending" => verdict' = verdict
  BY UpDecidesOnce DEF UpResponse, UpDecides, CallerEnds
<1>3. ctx' \in CtxType
  BY ContextEnds DEF UpResponse, UpDecides, CallerEnds
<1> QED
  BY <1>1, <1>2, <1>3, OthersKeepInv

(* forward starts, or fails to.                                               *)
LEMMA CallStep == ASSUME ConstantsAssumption, IInv, CallClientStream PROVE IInv'
<1> USE Types, TypesAfter DEF IInv
<1>1. UpTypeOK' /\ pump' \in PumpType /\ relay' \in RelayType
  BY DEF CallClientStream, upstream, UpTypeOK, PumpType, RelayType
<1>2. ctx' \in CtxType /\ result' \in Errors \cup {"none", "ok"}
  BY ContextEnds, ErrorsAreErrors DEF CallClientStream, CtxErrors
<1>3. (Relaying /\ Finished)'
  <2>1. CASE relay' = [relay EXCEPT !.pc = "receive"] /\ UNCHANGED result
    BY <2>1 DEF CallClientStream, upstream, Relaying, Finished, RelayType
  <2>2. CASE relay' = [relay EXCEPT !.pc = "done"] /\ result' \in Refusals
    <3>1. result' # "ok" /\ relay'.pc = "done"
      BY <2>2, ErrorsAreErrors DEF RelayType
    <3> QED
      BY <3>1 DEF CallClientStream, upstream, Relaying, Finished
  <2> QED
    BY <2>1, <2>2 DEF CallClientStream
<1> QED
  BY <1>1, <1>2, <1>3 DEF CallClientStream

(* forwardResponses and the end of forward.                                   *)
LEMMA RelayStep ==
    ASSUME ConstantsAssumption, IInv, RelayReceives \/ RelaySends \/ RelayPolls \/ RelayCloses
    PROVE  IInv'
<1> USE Types, TypesAfter DEF IInv
<1>1. CASE RelayReceives
  <2>1. /\ UpTypeOK' /\ UNCHANGED verdict
        /\ answer' \in {"ok", "EOF"} => verdict = "ok"
    BY <1>1, UpAnswers DEF RelayReceives, Relaying
  <2>2. down.sent = got /\ result = "none" /\ UNCHANGED <<pump, owed, ctx, sent, down, result>>
    BY <1>1 DEF RelayReceives, RelayFrame, Relaying
  <2>3. CASE answer' = "ok" /\ got' = got + 1 /\ relay' = [relay EXCEPT !.pc = "send"]
    <3>1. relay' \in RelayType /\ relay'.pc = "send"
      BY <2>3 DEF RelayType
    <3>2. Relaying' /\ Finished'
      BY <2>1, <2>2, <2>3, <3>1 DEF Relaying, Finished
    <3> QED
      BY <2>1, <2>2, <2>3, <3>1, <3>2
  <2>4. CASE answer' = "EOF" /\ RelayReturns("ok") /\ UNCHANGED got
    <3>1. relay' \in RelayType /\ relay'.pc = "poll" /\ relay'.err = "ok"
      BY <2>4 DEF RelayReturns, RelayType
    <3>2. Relaying' /\ Finished'
      BY <2>1, <2>2, <2>4, <3>1 DEF Relaying, Finished
    <3> QED
      BY <2>1, <2>2, <2>4, <3>1, <3>2
  <2>5. CASE answer' \in UpErrors /\ RelayReturns(answer') /\ UNCHANGED got
    <3>1. relay' \in RelayType /\ relay'.pc = "poll" /\ relay'.err # "ok"
      BY <2>5, ErrorsAreErrors DEF RelayReturns, RelayType
    <3>2. Relaying' /\ Finished'
      BY <2>2, <3>1 DEF Relaying, Finished
    <3> QED
      BY <2>1, <2>2, <2>5, <3>1, <3>2
  <2> QED
    BY <1>1, <2>3, <2>4, <2>5 DEF RelayReceives, EndOfResponses
<1>2. CASE RelaySends
  <2>1. UpTypeOK' /\ UNCHANGED <<upstream, pump, owed, ctx, sent, got, result>>
    BY <1>2 DEF RelaySends, RelayFrame, upstream, UpTypeOK
  <2>2. CASE down' = [down EXCEPT !.sent = @ + 1] /\ relay' = [relay EXCEPT !.pc = "receive"]
    <3>1. /\ relay' \in RelayType /\ relay'.pc = "receive"
          /\ down' \in DownType /\ down'.sent = down.sent + 1
      BY <2>2 DEF RelayType, DownType
    <3>2. Relaying' /\ Finished'
      BY <1>2, <2>1, <3>1 DEF RelaySends, Relaying, Finished, upstream
    <3> QED
      BY <2>1, <3>1, <3>2
  <2>3. ASSUME NEW e \in RequestErrors, RelayReturns(e), UNCHANGED down PROVE IInv'
    <3>1. relay' \in RelayType /\ relay'.pc = "poll" /\ relay'.err # "ok"
      BY <2>3, ErrorsAreErrors DEF RelayReturns, RelayType
    <3>2. Relaying' /\ Finished'
      BY <1>2, <2>1, <3>1 DEF RelaySends, Relaying, Finished
    <3> QED
      BY <2>1, <2>3, <3>1, <3>2
  <2> QED
    BY <1>2, <2>2, <2>3 DEF RelaySends
<1>3. CASE RelayPolls
  <2>1. UpTypeOK' /\ UNCHANGED <<upstream, pump, owed, ctx, down, got>>
    BY <1>3 DEF RelayPolls, RelayFrame, upstream, UpTypeOK
  <2>2. /\ relay' \in RelayType /\ relay'.pc = "close" /\ relay'.err = relay.err
        /\ sent' = "empty" /\ result' \in Errors \cup {"ok"}
        /\ result' = "ok" => relay.err = "ok"
    BY <1>3, ErrorsAreErrors DEF RelayPolls, Forwarded, RelayType
  <2>3. Relaying' /\ Finished'
    BY <1>3, <2>1, <2>2 DEF RelayPolls, Relaying, Finished, upstream
  <2> QED
    BY <2>1, <2>2, <2>3
<1>4. CASE RelayCloses
  <2>1. UpTypeOK' /\ UNCHANGED <<upstream, pump, owed, sent, down, got, result>>
    BY <1>4 DEF RelayCloses, RelayFrame, upstream, UpTypeOK
  <2>2. relay' \in RelayType /\ relay'.pc = "done" /\ relay'.err = relay.err /\ ctx' \in CtxType
    BY <1>4, ContextEnds DEF RelayCloses, RelayType, CtxErrors
  <2>3. Relaying' /\ Finished'
    BY <2>1, <2>2 DEF Relaying, Finished, upstream
  <2> QED
    BY <2>1, <2>2, <2>3
<1> QED
  BY <1>1, <1>2, <1>3, <1>4

LEMMA InvStep == ConstantsAssumption /\ IInv /\ [Next]_vars => IInv'
<1> SUFFICES ASSUME ConstantsAssumption, IInv, [Next]_vars PROVE IInv'
  OBVIOUS
<1>1. CASE UNCHANGED vars
  BY <1>1 DEF vars, upstream, IInv, TypeOK, Relaying, Finished
<1>2. CASE Terminated
  BY <1>1, <1>2 DEF Terminated
<1> QED
  BY <1>1, <1>2, PumpStep, WorldStep, CallStep, RelayStep DEF Next

(* The inductive invariant holds of every call forward relays.                *)
THEOREM Invariance == Spec => []IInv
<1>1. ConstantsAssumption
  BY ConstantsAssumption
<1> QED
  BY <1>1, InvInit, InvStep, PTL DEF Spec

(* Every part of the relay keeps its type (forward, forwardRequests and       *)
(* forwardResponses).                                                         *)
THEOREM TypeCorrect == Spec => []TypeOK
<1>1. IInv => TypeOK
  BY DEF IInv
<1> QED
  BY <1>1, Invariance, PTL

(* forward returns nil only if the call succeeded upstream and every response *)
(* went downstream, whatever the pump has sent and whoever else ended the     *)
(* call (the end of forward in forward.go).                                   *)
THEOREM SuccessIsComplete == Spec => []CompleteSuccess
<1>1. IInv => CompleteSuccess
  BY DEF IInv, Finished, CompleteSuccess
<1> QED
  BY <1>1, Invariance, PTL
=============================================================================
