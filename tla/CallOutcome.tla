---------------------------- MODULE CallOutcome ----------------------------
(***************************************************************************)
(* What one REST call promises whoever reads it, without the threads that  *)
(* carry it out: the request gets one verdict, a response body is opened   *)
(* and closed once, and Receive answers from the verdict until it is over. *)
(***************************************************************************)
CONSTANTS Failures,   \* the verdicts that are errors
          CtxFailures \* those a canceled or expired context gives

VARIABLES streaming, \* the response is a stream of chunks
          verdict,   \* the outcome of the round trip
          body,      \* the response body
          answer,    \* what the last Receive returned
          over       \* Receive has nothing more to say

vars == <<streaming, verdict, body, answer, over>>

Init ==
    /\ streaming \in BOOLEAN
    /\ verdict = "pending" /\ body = "none"
    /\ answer = "none" /\ over = FALSE

BodyMayClose == body' = body \/ (body = "open" /\ body' = "closed")

(* A response comes in, also one nobody waits for any more. *)
Arrive ==
    /\ body = "none" /\ body' = "open"
    /\ UNCHANGED <<streaming, verdict, answer, over>>

(* The first outcome is the verdict: an error, or a response with a status of *)
(* success (ok) or of failure (rejected).                                     *)
Decide(v) ==
    /\ verdict = "pending" /\ verdict' = v
    /\ v \in {"ok", "rejected"} => body # "none"
    /\ BodyMayClose
    /\ UNCHANGED <<streaming, answer, over>>

Drop ==
    /\ body = "open" /\ body' = "closed"
    /\ UNCHANGED <<streaming, verdict, answer, over>>

(* Only a successful call has messages: one, or as many as the stream holds. *)
Deliver ==
    /\ ~over /\ verdict = "ok"
    /\ answer' = "ok" /\ over' = ~streaming
    /\ ~streaming => body' # "open"

(* A message Receive cannot fill is refused and the call goes on. *)
Refuse ==
    /\ ~over /\ verdict = "ok"
    /\ answer' = "plain" /\ over' = FALSE

(* The stream ends, and its body is closed by then. *)
End ==
    /\ ~over /\ verdict = "ok" /\ streaming
    /\ answer' = "EOF" /\ over' = TRUE /\ body' # "open"

(* A failed call answers with its verdict, or with the context's error: then  *)
(* the body of a response that came in as well is left to Close.              *)
Fail(e) ==
    /\ ~over /\ answer' = e /\ over' = TRUE
    /\ \/ e \in CtxFailures
       \/ verdict \in {"ok", "rejected"}
       \/ verdict = e
    /\ verdict \in {"ok", "rejected"} /\ e \notin CtxFailures => body' # "open"

Answer ==
    /\ BodyMayClose
    /\ Deliver \/ Refuse \/ End \/ \E e \in Failures : Fail(e)
    /\ UNCHANGED <<streaming, verdict>>

AnswerOver ==
    /\ over /\ answer' = "EOF"
    /\ UNCHANGED <<streaming, verdict, body, over>>

Next == Arrive \/ Drop \/ Answer \/ AnswerOver \/ \E v \in Failures \cup {"ok", "rejected"} : Decide(v)

Spec == Init /\ [][Next]_vars
=============================================================================
