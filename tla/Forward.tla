------------------------------ MODULE Forward ------------------------------
(***************************************************************************)
(* forward of forward.go: a handler that relays one call upstream.  Two    *)
(* threads share it: the relay, the handler's own (forwardResponses and    *)
(* the end of forward), and the pump, the goroutine of forwardRequests.    *)
(*                                                                         *)
(* The upstream call is any that keeps the promise of CallOutcome, as      *)
(* ClientStream does, and of which ClientStream's FailedSendDecides and    *)
(* EofHasVerdict hold.  The downstream stream is the environment.  An      *)
(* operator that starts with Bad is a plausible mistake in the next one.   *)
(***************************************************************************)
EXTENDS Naturals

CONSTANTS RequestErrors, \* what downstream.Receive and downstream.Send fail with
          Refusals,      \* what the upstream call fails with, besides its context
          MaxRequests,   \* bound on the requests downstream.Receive returns
          MaxResponses   \* bound on the responses upstream.Receive returns

CtxErrors == {"Canceled", "DeadlineExceeded"}
UpErrors == Refusals \cup CtxErrors
Errors == RequestErrors \cup UpErrors

ASSUME ConstantsAssumption ==
    /\ MaxRequests \in Nat /\ MaxResponses \in Nat
    /\ Errors \cap {"none", "ok", "EOF", "empty", "plain", "pending", "rejected"} = {}
    /\ (RequestErrors \cup Refusals) \cap CtxErrors = {}

VARIABLES
    streaming, verdict, body, answer, over, \* the upstream call: see CallOutcome
    ctx,    \* upstreamCtx: its error, and who ended it
    pump,   \* forwardRequests: its label, and what it returns
    relay,  \* forwardResponses and forward: its label, and what forwardResponses returns
    sent,   \* the channel sent
    down,   \* messages received and sent downstream; downstream.Receive failed
    got,    \* responses received upstream
    owed,   \* upstream.Send returned io.EOF
    result  \* what forward returns

upstream == <<streaming, verdict, body, answer, over>>
vars == <<upstream, ctx, pump, relay, sent, down, got, owed, result>>

Up == INSTANCE CallOutcome WITH Failures <- UpErrors, CtxFailures <- CtxErrors

CtxDone == ctx.err # "none"
Ended(c, err, by) == IF c.err = "none" THEN [err |-> err, by |-> by] ELSE c

Init ==
    /\ Up!Init
    /\ ctx = [err |-> "none", by |-> "none"]
    /\ pump = [pc |-> "idle", err |-> "ok"] /\ relay = [pc |-> "call", err |-> "ok"]
    /\ sent = "empty" /\ down = [received |-> 0, sent |-> 0, failed |-> FALSE]
    /\ got = 0 /\ owed = FALSE /\ result = "none"

---------------------------------------------------------------------------
(* forward, up to its two loops *)

CallClientStream ==
    /\ relay.pc = "call"
    /\ \/ /\ relay' = [relay EXCEPT !.pc = "receive"]
          /\ pump' = [pump EXCEPT !.pc = "receive"] /\ UNCHANGED <<ctx, result>>
       \/ \E e \in Refusals :
             /\ relay' = [relay EXCEPT !.pc = "done"] /\ result' = e
             /\ ctx' = Ended(ctx, "Canceled", "relay") /\ UNCHANGED pump
    /\ UNCHANGED <<upstream, sent, down, got, owed>>

---------------------------------------------------------------------------
(* forwardRequests *)

PumpFrame == UNCHANGED <<upstream, relay, got, result>>
PumpReturns(err) == pump' = [pc |-> "publish", err |-> err]

PumpReceives ==
    /\ pump.pc = "receive"
    /\ \/ /\ down.received < MaxRequests
          /\ down' = [down EXCEPT !.received = @ + 1]
          /\ pump' = [pump EXCEPT !.pc = "send"]
       \/ pump' = [pump EXCEPT !.pc = "closeSend"] /\ UNCHANGED down
       \/ \E e \in RequestErrors :
             /\ pump' = [pc |-> "cancel", err |-> e]
             /\ down' = [down EXCEPT !.failed = TRUE]
    /\ PumpFrame /\ UNCHANGED <<ctx, sent, owed>>

(* The upstream call cannot complete without its requests. *)
BadAfterRequestFailed(c) == c
AfterRequestFailed(c) == Ended(c, "Canceled", "pump")

PumpCancels ==
    /\ pump.pc = "cancel"
    /\ ctx' = AfterRequestFailed(ctx)
    /\ pump' = [pump EXCEPT !.pc = "publish"]
    /\ PumpFrame /\ UNCHANGED <<sent, down, owed>>

(* io.EOF from Send: the upstream call is over, and its verdict is with Receive. *)
PumpSends ==
    /\ pump.pc = "send"
    /\ \/ pump' = [pump EXCEPT !.pc = "receive"] /\ UNCHANGED owed
       \/ PumpReturns("ok") /\ owed' = TRUE
       \/ /\ verdict # "pending" \/ CtxDone
          /\ \E e \in UpErrors : PumpReturns(e)
          /\ UNCHANGED owed
    /\ PumpFrame /\ UNCHANGED <<ctx, sent, down>>

(* CloseSend waits for the verdict or the end of the context. *)
PumpClosesSend ==
    /\ pump.pc = "closeSend"
    /\ \/ verdict \in {"ok", "rejected"} /\ PumpReturns("ok")
       \/ verdict \in UpErrors /\ PumpReturns(verdict)
       \/ CtxDone /\ PumpReturns(ctx.err)
    /\ PumpFrame /\ UNCHANGED <<ctx, sent, down, owed>>

(* The channel has a buffer of one, so the pump need not be met. *)
BadRoom == sent = "empty" /\ relay.pc = "poll"
Room == sent = "empty"

PumpPublishes ==
    /\ pump.pc = "publish" /\ Room
    /\ sent' = pump.err
    /\ pump' = [pump EXCEPT !.pc = "done"]
    /\ PumpFrame /\ UNCHANGED <<ctx, down, owed>>

---------------------------------------------------------------------------
(* forwardResponses, and what forward does after it *)

RelayFrame == UNCHANGED <<pump, owed>>
RelayReturns(err) == relay' = [pc |-> "poll", err |-> err]

(* The upstream's answer; messages are made for the response type, so they fit, *)
(* and a context error is that of this context.                                 *)
UpReceive ==
    /\ Up!Answer \/ Up!AnswerOver
    /\ answer' # "plain"
    /\ answer' \in CtxErrors => answer' = ctx.err

(* io.EOF is the end of the responses, not an error to return. *)
BadEndOfResponses == "EOF"
EndOfResponses == "ok"

RelayReceives ==
    /\ relay.pc = "receive" /\ UpReceive
    /\ \/ /\ answer' = "ok" /\ got < MaxResponses
          /\ got' = got + 1 /\ relay' = [relay EXCEPT !.pc = "send"]
       \/ answer' = "EOF" /\ RelayReturns(EndOfResponses) /\ UNCHANGED got
       \/ answer' \in UpErrors /\ RelayReturns(answer') /\ UNCHANGED got
    /\ RelayFrame /\ UNCHANGED <<ctx, sent, down, result>>

RelaySends ==
    /\ relay.pc = "send"
    /\ \/ /\ down' = [down EXCEPT !.sent = @ + 1]
          /\ relay' = [relay EXCEPT !.pc = "receive"]
       \/ \E e \in RequestErrors : RelayReturns(e) /\ UNCHANGED down
    /\ RelayFrame /\ UNCHANGED <<upstream, ctx, sent, got, result>>

(* An error of the pump wins, if it is there by now. *)
BadForwarded(sendErr, err) == IF sendErr = "empty" THEN err ELSE sendErr
Forwarded(sendErr, err) == IF sendErr \in {"empty", "ok"} THEN err ELSE sendErr

RelayPolls ==
    /\ relay.pc = "poll"
    /\ result' = Forwarded(sent, relay.err) /\ sent' = "empty"
    /\ relay' = [relay EXCEPT !.pc = "close"]
    /\ RelayFrame /\ UNCHANGED <<upstream, ctx, down, got>>

(* upstream.Close cancels the call, and so does the deferred cancel. *)
RelayCloses ==
    /\ relay.pc = "close"
    /\ ctx' = Ended(ctx, "Canceled", "relay")
    /\ relay' = [relay EXCEPT !.pc = "done"]
    /\ RelayFrame /\ UNCHANGED <<upstream, sent, down, got, result>>

---------------------------------------------------------------------------
(* The upstream call behind Send and Receive, and the caller's context *)

WorldFrame == UNCHANGED <<pump, relay, sent, down, got, owed, result>>

UpDecides(v) ==
    /\ relay.pc # "call" /\ Up!Decide(v)
    /\ v \in CtxErrors => v = ctx.err
    /\ WorldFrame /\ UNCHANGED ctx

UpResponse ==
    /\ relay.pc # "call" /\ (Up!Arrive \/ Up!Drop)
    /\ WorldFrame /\ UNCHANGED ctx

CallerEnds(err) ==
    /\ ~CtxDone /\ ctx' = Ended(ctx, err, "caller")
    /\ WorldFrame /\ UNCHANGED upstream

Verdicts == UpErrors \cup {"ok", "rejected"}

Terminated ==
    /\ relay.pc = "done" /\ pump.pc \in {"idle", "done"}
    /\ UNCHANGED vars

Next ==
    \/ CallClientStream
    \/ PumpReceives \/ PumpCancels \/ PumpSends \/ PumpClosesSend \/ PumpPublishes
    \/ RelayReceives \/ RelaySends \/ RelayPolls \/ RelayCloses
    \/ UpResponse \/ \E v \in Verdicts : UpDecides(v)
    \/ \E err \in CtxErrors : CallerEnds(err)
    \/ Terminated

Spec == Init /\ [][Next]_vars

(* Both threads run.  Of the upstream call only what ClientStream provides:   *)
(* Send, CloseSend and Receive return once the context is done                *)
(* (CtxUnblocks), Receive also once the request has failed, and after io.EOF  *)
(* from Send there is a verdict (EofHasVerdict).  A write downstream returns: *)
(* the caller reads its response or hangs up.  A read downstream returns once *)
(* the handler has: net/http closes the request body.                         *)
Fairness ==
    /\ WF_vars(CallClientStream)
    /\ WF_vars(relay.pc = "done" /\ PumpReceives)
    /\ WF_vars(CtxDone /\ PumpSends)
    /\ WF_vars(PumpCancels \/ PumpClosesSend \/ PumpPublishes)
    /\ WF_vars((CtxDone \/ verdict \in UpErrors) /\ RelayReceives)
    /\ WF_vars(RelaySends \/ RelayPolls \/ RelayCloses)
    /\ WF_vars(owed /\ \E v \in Verdicts : UpDecides(v))

FairSpec == Spec /\ Fairness

---------------------------------------------------------------------------
(* Properties *)

(* Every part of the relay keeps its type. *)
TypeOK ==
    /\ streaming \in BOOLEAN /\ over \in BOOLEAN /\ owed \in BOOLEAN
    /\ verdict \in Verdicts \cup {"pending"} /\ body \in {"none", "open", "closed"}
    /\ answer \in UpErrors \cup {"none", "ok", "EOF"}
    /\ ctx \in [err : CtxErrors \cup {"none"}, by : {"none", "pump", "relay", "caller"}]
    /\ pump \in [pc : {"idle", "receive", "cancel", "send", "closeSend", "publish", "done"},
                 err : Errors \cup {"ok"}]
    /\ relay \in [pc : {"call", "receive", "send", "poll", "close", "done"},
                  err : Errors \cup {"ok"}]
    /\ sent \in Errors \cup {"empty", "ok"}
    /\ down \in [received : Nat, sent : Nat, failed : BOOLEAN] /\ got \in Nat
    /\ result \in Errors \cup {"none", "ok"}

(* forward reports success only for a call that succeeded upstream and whose  *)
(* every response went downstream, whatever the pump has sent by then.        *)
CompleteSuccess ==
    result = "ok" => /\ verdict = "ok" /\ answer = "EOF" /\ relay.err = "ok"
                     /\ down.sent = got

(* A call whose requests cannot be read any more, whose caller is gone or     *)
(* whose upstream refused it does not hang: forward returns.                  *)
FailureEndsCall ==
    (relay.pc # "call" /\ (down.failed \/ CtxDone \/ verdict \in UpErrors))
        ~> (relay.pc = "done")

(* The pump does not outlive forward for ever: it may still be running when   *)
(* forward returns, but nothing it does then waits for forward.               *)
PumpStops == (relay.pc = "done") ~> (pump.pc \in {"idle", "done"})

(* "Metadata and errors pass through in both directions": when the call fails *)
(* only because its requests could not be read, forward returns that error.   *)
ErrorsPassThrough ==
    result # "none" /\ ctx.by = "pump" /\ relay.err = ctx.err => result = pump.err
=============================================================================
