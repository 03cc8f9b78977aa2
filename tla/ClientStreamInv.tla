-------------------------- MODULE ClientStreamInv --------------------------
(***************************************************************************)
(* The inductive invariant of ClientStream, in named parts, and what has   *)
(* to be added to it for each property that it does not imply.             *)
(***************************************************************************)
EXTENDS ClientStream

(* mu is held exactly while a respond call handles a response, with nothing  *)
(* published yet and the body recorded.                                      *)
MutexHeld ==
    \A t \in Responders :
        /\ pc[t] \in {"finishing", "info"} <=> st.mu = t
        /\ pc[t] \in {"finishing", "info"} => out[t] = "response" /\ ~st.ready

(* The request goroutine starts with the first Send, and only CloseSend runs *)
(* a request on the sender's thread, so a sender that holds a response has   *)
(* closed the send side.                                                     *)
SenderResponds ==
    /\ snd.url = "unset" => pc["request"] = "idle"
    /\ pc["sender"] \in {"finish", "flush", "closePipe", "newRequest", "do"} => snd.closed
    /\ out["sender"] = "response" => snd.closed

(* A response in hand has a body, and a published success has a response. *)
ResponsesHaveBodies ==
    /\ \A t \in Responders : out[t] = "response" => resp.raw # "none"
    /\ st.rawBody \/ st.response => resp.raw # "none"
    /\ pc["closer"] = "closeRaw" => st.rawBody

(* An outcome is published as a whole: a verdict with ready, and a response  *)
(* with success.                                                             *)
PublishedWhole ==
    /\ st.ready /\ st.dispatch = "ok" => st.response
    /\ Reading => st.ready /\ st.dispatch = "ok"

IInv == TypeOK /\ MutexHeld /\ SenderResponds /\ ResponsesHaveBodies /\ PublishedWhole

---------------------------------------------------------------------------
(* For NoOrphanBody: an open body is in the hands of a respond call, of a    *)
(* stream that is not closed yet, or of a Close that is about to close it.   *)
BodyOwned ==
    /\ resp.raw = "open" => \/ \E t \in Responders : Responding(t)
                            \/ st.response /\ ~st.closed
                            \/ pc["closer"] = "closeRaw"
    /\ pc["closer"] \in {"closeRaw", "done"} => st.closed
    /\ st.response => st.rawBody
    /\ st.mu # "free" => st.rawBody

(* For SendBlamesMessage: the read end fails only after the outcome is out.  *)
RespondsFirst ==
    /\ pc["request"] = "closeReader" \/ req.reader = "failed" => st.ready
    /\ SendBlamesMessage

(* For UploadComplete: before the first message nothing has been sent ...    *)
NothingSent ==
    snd.url = "unset" =>
        /\ ~HasPipe /\ snd.buffered = 0 /\ hist.accepted = 0
        /\ req = [reader |-> "none", wire |-> 0, end |-> "none"]
        /\ pc["sender"] \notin {"encode", "flush", "closePipe", "newRequest", "do"}

(* ... what Send accepted has been read or is held back by the compressor,   *)
(* and a Send that failed has closed the pipe or is about to ...             *)
PipeCounted ==
    /\ HasPipe => /\ req.wire + snd.buffered = hist.accepted
                  /\ ~snd.compressor => snd.buffered = 0
    /\ hist.lost => HasPipe /\ (snd.pipe = "error" \/ pc["sender"] = "abort")

(* ... and the pipe ends cleanly only once, after a CloseSend that flushed   *)
(* the compressor unless the request was over.                               *)
PipeEnds ==
    /\ pc["sender"] \in {"encode", "abort"} => ~snd.closed
    /\ pc["sender"] \in {"finish", "flush"} => snd.pipe # "eof"
    /\ pc["sender"] \in {"flush", "closePipe"} => HasPipe
    /\ pc["sender"] \in {"newRequest", "do"} => ~HasPipe
    /\ snd.pipe = "eof" => snd.closed
    /\ snd.pipe = "eof" \/ (snd.pipe = "open" /\ pc["sender"] = "closePipe")
          => snd.buffered = 0 \/ (req.reader # "open" /\ req.end # "eof")
    /\ HasPipe /\ req.end = "eof" => snd.pipe = "eof"

UploadInv == NothingSent /\ PipeCounted /\ PipeEnds

(* For the refinement: a call makes one request at most ...                  *)
OneRequest ==
    /\ pc["request"] # "idle" => HasPipe
    /\ resp.raw # "none" =>
          /\ snd.url # "unset" /\ pc["request"] # "do"
          /\ pc["sender"] \notin {"newRequest", "do"}
          /\ HasPipe \/ (snd.closed /\ pc["sender"] # "finish")

(* ... respond is never without a verdict to publish ...                     *)
VerdictGiven ==
    /\ \A t \in Responders : pc[t] = "lock" => out[t] # "none"
    /\ pc["sender"] = "abort" => out["sender"] # "none"
    /\ st.ready => st.dispatch # "none"

(* ... and Receive reads a response in the way its status and type call for, *)
(* the receive side ended only by reading the whole of one.                  *)
ReceiveSide ==
    /\ pc["receiver"] \in {"poll", "select", "decode", "readChunk"} => ~received
    /\ pc["receiver"] = "readAll" => received /\ ReadsWhole
    /\ pc["receiver"] = "readChunk" => ~ReadsWhole

OutcomeInv == OneRequest /\ VerdictGiven /\ ReceiveSide
=============================================================================
