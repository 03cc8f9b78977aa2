-------------------------- MODULE GRPCHandlerProofs --------------------------
(***************************************************************************)
(* Proofs about ServerStream and, on top of them, about GRPCHandler.       *)
(***************************************************************************)
EXTENDS GRPCHandler, TLAPS

---------------------------------------------------------------------------
(* ServerStream: its inductive invariant, in named parts, and the properties that *)
(* follow from it, for bodies of any size and any number of calls of the handler. *)

(* The status line says what the stream has committed, and a body is written  *)
(* in the encoding committed with it: flushHeaders precedes every write.      *)
LineHonest ==
    /\ pc = "match" => wire.status = "none"
    /\ resp.headersSet <=> wire.status = "ok"
    /\ resp.compressed => resp.headersSet
    /\ wire.status = "ok" => /\ wire.encoding = Encoding(resp.compressed)
                             /\ wire.parts \subseteq {IF resp.compressed THEN "compressed" ELSE "plain"}
    /\ wire.status = "none" => wire.encoding = "none" /\ wire.parts = {}
    /\ wire.status = "failed" => wire.encoding = "identity" /\ wire.parts = {"error"}

(* What a method that answers once has sent, as sent has it.                  *)
SentCounted ==
    /\ wire.status # "ok" => wire.messages = 0
    /\ ~Streaming => /\ IF resp.sent THEN lost \/ wire.messages = 1 ELSE wire.messages = 0
                     /\ wire.messages <= 1

(* The response ends once, and only a call that did not fail ends it cleanly  *)
(* after a status line of success.                                            *)
EndsOnce ==
    /\ pc = "done" <=> wire.end # "open"
    /\ pc = "done" => wire.status # "none"
    /\ wire.status = "failed" => pc = "done"
    /\ pc = "done" /\ wire.status = "ok" /\ wire.end # "aborted" => ~CallFails

(* A request that is one message is received once; and until a Receive fails  *)
(* or the body was cut short, messages and what is left of the body add up.   *)
BodyCounted ==
    /\ ~ClientStreaming => in.seen <= 1 /\ (in.done \/ in.seen = 0) /\ in.cut = "no"
    /\ in.cut = "repeats" => ~in.done
    /\ ~in.failed =>
        /\ First => in.seen = 0 /\ in.urls = 0 /\ in.left = req.body /\ ~in.done
                    /\ in.cut = "no"
        /\ ~First =>
              /\ in.urls = 1 /\ (in.done => in.left = 0) /\ (ClientStreaming \/ in.done)
              /\ in.cut = "no" =>
                    IF ClientStreaming /\ req.body > 0 THEN in.seen + in.left = req.body
                                                       ELSE in.seen = 1 /\ in.left = 0
              /\ ~req.mapsBody => req.body = 0
        /\ in.ended => in.done

IInv == TypeOK /\ LineHonest /\ SentCounted /\ EndsOnce /\ BodyCounted

---------------------------------------------------------------------------
(* The steps, by the side of the stream they touch *)

ReceiveSteps ==
    \/ ReceiveDone \/ ReceiveRejected \/ ReceiveUnary
    \/ ReceiveChunk \/ ReceiveReadFails \/ ReceiveCut \/ ReceiveEnd
SendSteps == SendHeaders \/ \E kind \in Kinds : SendRejected(kind) \/ Send(kind)
Returning == \E err \in {"ok", "error"} : Return(err)
FinishSteps == FinishClose \/ FinishAbort \/ FinishError

LEMMA NextSteps ==
    [Next]_vars =>
        \/ Reject \/ Dispatch \/ ReceiveSteps \/ SendSteps \/ Returning \/ FinishSteps
        \/ UNCHANGED vars
BY DEF Next, ReceiveSteps, SendSteps, Returning, FinishSteps, Served

LEMMA ReceiveFrame ==
    ReceiveSteps => /\ UNCHANGED <<req, resp, wire, lost, callErr, pc>>
                    /\ pc = "call" /\ calls < MaxCalls /\ calls' = calls + 1
BY DEF ReceiveSteps, ReceiveDone, ReceiveRejected, ReceiveUnary, ReceiveChunk, ReceiveReadFails,
   ReceiveCut, ReceiveEnd, ReceiveCall, Call

LEMMA SendFrame ==
    SendSteps => /\ UNCHANGED <<req, in, callErr, pc>>
                 /\ pc = "call" /\ calls < MaxCalls /\ calls' = calls + 1
BY DEF SendSteps, SendHeaders, SendRejected, Send, SendCall, Call

LEMMA FinishFrame ==
    FinishSteps => UNCHANGED <<req, in, lost, callErr, calls>> /\ pc = "finish" /\ pc' = "done"
BY DEF FinishSteps, FinishClose, FinishAbort, FinishError, Finish

WireType == [status : {"none", "ok", "failed"}, encoding : {"none", "identity", "compressed"},
             parts : SUBSET {"plain", "compressed", "error"}, messages : Nat,
             end : {"open", "clean", "broken", "aborted"}]
RespType == [sent : BOOLEAN, headersSet : BOOLEAN, compressed : BOOLEAN]
InType == [body : {"none", "open"}, done : BOOLEAN, left : 0 .. MaxBody,
           cut : {"no", "ends", "repeats"}, seen : Nat, urls : Nat, failed : BOOLEAN,
           ended : BOOLEAN]

(* flushHeaders commits the status line and Content-Encoding, once.           *)
LEMMA Commit ==
    ASSUME wire \in WireType, NEW side \in RespType, NEW compressed \in BOOLEAN,
           side.headersSet = resp.headersSet
    PROVE  /\ CommitsTo(side, compressed) \in RespType
           /\ CommitsTo(side, compressed).headersSet
           /\ CommitsTo(side, compressed).sent = side.sent
           /\ CommitsTo(side, compressed).compressed =
                 IF resp.headersSet THEN side.compressed ELSE compressed
           /\ Committed(compressed) \in WireType
           /\ Committed(compressed).parts = wire.parts
           /\ Committed(compressed).messages = wire.messages
           /\ Committed(compressed).end = wire.end
           /\ Committed(compressed).status = IF resp.headersSet THEN wire.status ELSE "ok"
           /\ Committed(compressed).encoding =
                 IF resp.headersSet THEN wire.encoding ELSE Encoding(compressed)
BY DEF CommitsTo, Committed, Encoding, WireType, RespType

LEMMA ErrorLine ==
    wire \in WireType =>
        /\ ErrorResponse \in WireType
        /\ ErrorResponse.status = "failed" /\ ErrorResponse.encoding = "identity"
        /\ ErrorResponse.parts = wire.parts \cup {"error"}
        /\ ErrorResponse.messages = wire.messages /\ ErrorResponse.end = "clean"
BY DEF ErrorResponse, WireType

LEMMA MessageAppended ==
    ASSUME NEW line \in WireType, NEW part \in {"plain", "compressed"}
    PROVE  LET new == [line EXCEPT !.parts = @ \cup {part}, !.messages = @ + 1]
           IN  /\ new \in WireType /\ new.parts = line.parts \cup {part}
               /\ new.messages = line.messages + 1
               /\ new.status = line.status /\ new.encoding = line.encoding /\ new.end = line.end
<1> DEFINE parts == line.parts \cup {part}
           messages == line.messages + 1
           new == [line EXCEPT !.parts = @ \cup {part}, !.messages = @ + 1]
<1>1. parts \in SUBSET {"plain", "compressed", "error"} /\ messages \in Nat
  BY DEF WireType
<1>2. new = [line EXCEPT !.parts = parts, !.messages = messages]
  BY DEF WireType
<1> HIDE DEF parts, messages, new
<1>3. /\ new \in WireType /\ new.parts = parts /\ new.messages = messages
      /\ new.status = line.status /\ new.encoding = line.encoding /\ new.end = line.end
  BY <1>1, <1>2 DEF WireType
<1> QED
  BY <1>3 DEF parts, messages, new

LEMMA CompressorType == ResponseCompressor \in BOOLEAN
BY DEF ResponseCompressor, RequestCompressor

(* A step of the send side leaves the status line alone ...                   *)
LineKept ==
    /\ resp'.headersSet = resp.headersSet /\ wire' = wire
    /\ resp'.compressed = resp.compressed
    /\ resp'.sent = resp.sent \/ (resp'.sent /\ lost')

(* ... or commits it, if it was not, and may write a message after it.        *)
LineWritten ==
    /\ resp'.headersSet /\ wire'.status = "ok" /\ wire'.end = wire.end
    /\ resp'.compressed = IF resp.headersSet THEN resp.compressed ELSE ResponseCompressor
    /\ wire'.encoding = IF resp.headersSet THEN wire.encoding ELSE Encoding(ResponseCompressor)
    /\ wire'.parts \subseteq wire.parts \cup {IF resp'.compressed THEN "compressed" ELSE "plain"}
    /\ \/ /\ wire'.messages = wire.messages
          /\ resp'.sent = resp.sent \/ (resp'.sent /\ lost')
       \/ /\ wire'.messages = wire.messages + 1
          /\ resp'.sent /\ (Streaming \/ ~resp.sent)

LEMMA SendEffect ==
    ASSUME IInv, SendSteps
    PROVE  /\ resp' \in RespType /\ wire' \in WireType /\ lost' \in BOOLEAN
           /\ lost => lost'
           /\ LineKept \/ LineWritten
<1> DEFINE Typed == /\ resp' \in RespType /\ wire' \in WireType /\ lost' \in BOOLEAN
                    /\ lost => lost'
<1> USE DEF LineKept, LineWritten
<1>0. resp \in RespType /\ wire \in WireType /\ lost \in BOOLEAN /\ LineHonest
  BY DEF IInv, TypeOK, RespType, WireType
<1>1. /\ Sent \in RespType /\ Sent.headersSet = resp.headersSet /\ Sent.sent
      /\ Sent.compressed = resp.compressed
  BY <1>0 DEF Sent, RespType
<1>2. CASE SendHeaders
  BY <1>0, <1>2, Commit, CompressorType DEF SendHeaders, LineHonest
<1>3. ASSUME NEW kind \in Kinds, SendRejected(kind) PROVE Typed /\ LineKept
  BY <1>0, <1>1, <1>3 DEF SendRejected
<1>4. ASSUME NEW kind \in Kinds, Send(kind) PROVE Typed /\ LineWritten
  <2> DEFINE Line == Committed(ResponseCompressor)
  <2>1. /\ resp' \in RespType /\ resp'.headersSet /\ resp'.sent
        /\ resp'.compressed = IF resp.headersSet THEN resp.compressed ELSE ResponseCompressor
        /\ Part = IF resp'.compressed THEN "compressed" ELSE "plain"
    BY <1>0, <1>1, <1>4, Commit, CompressorType DEF Send, Part
  <2>2. /\ Line \in WireType /\ Line.parts = wire.parts /\ Line.messages = wire.messages
        /\ Line.end = wire.end /\ Line.status = "ok"
        /\ Line.encoding = IF resp.headersSet THEN wire.encoding ELSE Encoding(ResponseCompressor)
    BY <1>0, Commit, CompressorType DEF LineHonest
  <2>3. Part \in {"plain", "compressed"}
    BY <2>1
  <2>4. \/ /\ wire' = [Line EXCEPT !.parts = @ \cup {Part}, !.messages = @ + 1]
           /\ lost' \in {lost, lost \/ Streaming}
        \/ wire' = Line /\ lost' = TRUE
        \/ wire' = [Line EXCEPT !.parts = @ \cup {Part}] /\ lost' = TRUE
    BY <1>4 DEF Send
  <2>5. Streaming \/ ~resp.sent
    BY <1>4 DEF Send, TooMany
  <2> HIDE DEF Line
  <2>6. CASE /\ wire' = [Line EXCEPT !.parts = @ \cup {Part}, !.messages = @ + 1]
             /\ lost' \in {lost, lost \/ Streaming}
    <3>1. lost' \in BOOLEAN /\ (lost => lost')
      BY <1>0, <2>6 DEF Streaming
    <3>2. /\ wire' \in WireType /\ wire'.messages = wire.messages + 1 /\ wire'.end = wire.end
          /\ wire'.status = "ok" /\ wire'.encoding = Line.encoding
          /\ wire'.parts = wire.parts \cup {Part}
      BY <2>2, <2>3, <2>6, MessageAppended
    <3> QED
      BY <2>1, <2>2, <2>5, <3>1, <3>2
  <2>7. CASE wire' = Line /\ lost' = TRUE
    BY <1>0, <2>1, <2>2, <2>7 DEF WireType
  <2>8. CASE wire' = [Line EXCEPT !.parts = @ \cup {Part}] /\ lost' = TRUE
    BY <1>0, <2>1, <2>2, <2>3, <2>8 DEF WireType
  <2> QED
    BY <2>4, <2>6, <2>7, <2>8
<1> QED
  BY <1>2, <1>3, <1>4 DEF SendSteps

---------------------------------------------------------------------------
(* The receive side *)

LEMMA MessageRead ==
    ASSUME NEW side \in InType, NEW first \in BOOLEAN
    PROVE  /\ Message(side, first) \in InType
           /\ Message(side, first).seen = side.seen + 1
           /\ Message(side, first).urls = IF first THEN side.urls + 1 ELSE side.urls
           /\ Message(side, first).body = side.body /\ Message(side, first).done = side.done
           /\ Message(side, first).left = side.left /\ Message(side, first).failed = side.failed
           /\ Message(side, first).ended = side.ended /\ Message(side, first).cut = side.cut
<1> DEFINE seen == side.seen + 1
           urls == IF first THEN side.urls + 1 ELSE side.urls
           message == Message(side, first)
<1>1. seen \in Nat /\ urls \in Nat
  BY DEF InType
<1>2. message = [side EXCEPT !.seen = seen, !.urls = urls]
  BY DEF InType, Message
<1> HIDE DEF seen, urls, message
<1>3. /\ message \in InType /\ message.seen = seen /\ message.urls = urls
      /\ message.body = side.body /\ message.done = side.done /\ message.left = side.left
      /\ message.failed = side.failed /\ message.ended = side.ended /\ message.cut = side.cut
  BY <1>1, <1>2 DEF InType
<1> QED
  BY <1>3 DEF seen, urls, message

(* What a read leaves of the body: openBody, then done, left and cut.         *)
ReadTo(done, left, cut) == [in EXCEPT !.body = "open", !.done = done, !.left = left, !.cut = cut]

IsRead(read, done, left, cut) ==
    /\ read \in InType /\ read.done = done /\ read.left = left /\ read.body = "open"
    /\ read.seen = in.seen /\ read.urls = in.urls
    /\ read.failed = in.failed /\ read.ended = in.ended /\ read.cut = cut

LEMMA BodyRead ==
    ASSUME in \in InType, NEW left \in 0 .. MaxBody, NEW done \in BOOLEAN,
           NEW cut \in {"no", "ends", "repeats"}
    PROVE  IsRead(ReadTo(done, left, cut), done, left, cut)
<1> DEFINE Left == 0 .. MaxBody
           read == ReadTo(done, left, cut)
<1>1. in \in [body : {"none", "open"}, done : BOOLEAN, left : Left,
              cut : {"no", "ends", "repeats"}, seen : Nat, urls : Nat, failed : BOOLEAN,
              ended : BOOLEAN] /\ left \in Left
  BY DEF InType
<1>2. read = [in EXCEPT !.body = "open", !.done = done, !.left = left, !.cut = cut]
  BY DEF ReadTo
<1> HIDE DEF Left, read
<1>3. /\ read \in [body : {"none", "open"}, done : BOOLEAN, left : Left,
                   cut : {"no", "ends", "repeats"}, seen : Nat, urls : Nat, failed : BOOLEAN,
                   ended : BOOLEAN]
      /\ read.done = done /\ read.left = left /\ read.body = "open"
      /\ read.seen = in.seen /\ read.urls = in.urls
      /\ read.failed = in.failed /\ read.ended = in.ended /\ read.cut = cut
  BY <1>1, <1>2
<1> QED
  BY <1>3 DEF Left, InType, IsRead, read

LEMMA ReceiveEffect ==
    ASSUME ConstantsAssumption, IInv, ReceiveSteps
    PROVE  in' \in InType /\ BodyCounted'
<1>0. in \in InType /\ BodyCounted /\ req \in Requests /\ req' = req
  BY ReceiveFrame DEF IInv, TypeOK, InType
<1>1. req.body \in 0 .. MaxBody /\ (ClientStreaming => req.mapsBody) /\ MaxBody \in Nat
  BY <1>0 DEF Requests, ClientStreaming, ConstantsAssumption
<1>a. ASSUME NEW side \in InType, side.seen = in.seen, in.done => side.done,
             ~ClientStreaming => side.cut = "no", side.cut = "repeats" => ~side.done,
             in' = Failed(side)
      PROVE  in' \in InType /\ BodyCounted'
  <2>1. /\ in' \in InType /\ in'.failed /\ in'.seen = side.seen /\ in'.done = side.done
        /\ in'.cut = side.cut
    BY <1>a DEF Failed, InType
  <2> QED
    BY <1>0, <1>a, <2>1 DEF BodyCounted, ClientStreaming
<1>b. /\ Opened \in InType /\ Opened.seen = in.seen /\ Opened.done = in.done
      /\ Probed(in) \in InType /\ Probed(in).seen = in.seen /\ Probed(in).done = in.done
      /\ Opened.cut = in.cut /\ Probed(in).cut = in.cut
      /\ in.cut \in {"no", "ends", "repeats"}
      /\ (~ClientStreaming => in.cut = "no") /\ (in.cut = "repeats" => ~in.done)
  BY <1>0 DEF Opened, Probed, InType, BodyCounted
<1>c. ASSUME NEW read \in InType, NEW first \in BOOLEAN, in' = Message(read, first)
      PROVE  /\ in' \in InType /\ in'.done = read.done /\ in'.left = read.left
             /\ in'.body = read.body /\ in'.failed = read.failed /\ in'.ended = read.ended
             /\ in'.cut = read.cut /\ in'.seen = read.seen + 1
             /\ in'.urls = IF first THEN read.urls + 1 ELSE read.urls
  BY <1>c, MessageRead
<1> USE <1>0, <1>1
<1>2. CASE ReceiveDone
  BY <1>2 DEF ReceiveDone, BodyCounted, ClientStreaming, InType, First
<1>3. CASE ReceiveRejected
  BY <1>3, <1>a, <1>b DEF ReceiveRejected, OpenFails
<1>4. CASE ReceiveUnary
  <2> DEFINE read == [Opened EXCEPT !.done = TRUE, !.left = 0]
  <2>z. 0 \in 0 .. MaxBody
    BY <1>1
  <2>0. read = ReadTo(TRUE, 0, in.cut)
    BY DEF Opened, InType, ReadTo
  <2>y. in.cut = "no" /\ read = ReadTo(TRUE, 0, "no")
    BY <1>4, <1>b, <2>0 DEF ReceiveUnary
  <2> HIDE DEF read
  <2>x. IsRead(read, TRUE, 0, "no")
    BY <2>y, <2>z, BodyRead
  <2>1. /\ read \in InType /\ read.done /\ read.left = 0 /\ read.body = "open"
        /\ read.cut = in.cut /\ in.cut = "no"
    BY <2>y, <2>x DEF IsRead
  <2>2. read.seen = in.seen /\ read.urls = in.urls /\ read.failed = in.failed /\ read.ended = in.ended
    BY <2>x DEF IsRead
  <2>3. CASE in' = Failed(read)
    BY <1>a, <2>1, <2>2, <2>3
  <2>4. CASE in' = Message(read, TRUE)
    <3>1. /\ in' \in InType /\ in'.done /\ in'.left = 0 /\ in'.body = "open" /\ in'.failed = in.failed
          /\ in'.seen = in.seen + 1 /\ in'.urls = in.urls + 1 /\ in'.ended = in.ended
          /\ in'.cut = "no"
      BY <1>c, <2>1, <2>2, <2>4
    <3>2. ~in.done /\ ~ClientStreaming /\ (First => req.mapsBody \/ in.left = 0)
      BY <1>4 DEF ReceiveUnary, CanOpen
    <3> QED
      BY <3>1, <3>2 DEF BodyCounted, ClientStreaming, InType, First
  <2> QED
    BY <1>4, <2>3, <2>4 DEF ReceiveUnary, read
<1>5. CASE ReceiveChunk
  <2> DEFINE read == [Opened EXCEPT !.left = @ - 1]
  <2>1. in.left > 0 /\ ClientStreaming /\ ~in.done
    BY <1>5 DEF ReceiveChunk, HasChunk
  <2>b. First \in BOOLEAN
    BY DEF First
  <2>0. read = ReadTo(in.done, in.left - 1, in.cut)
    BY DEF Opened, InType, ReadTo
  <2> HIDE DEF read
  <2>a. in.left - 1 \in 0 .. MaxBody /\ in.done \in BOOLEAN
    BY <2>1 DEF InType
  <2>x. IsRead(read, in.done, in.left - 1, in.cut)
    BY <1>b, <2>0, <2>a, BodyRead
  <2>2. /\ read \in InType /\ read.left = in.left - 1 /\ read.body = "open" /\ ~read.done
        /\ read.cut = in.cut
    BY <2>1, <2>x DEF IsRead
  <2>3. read.seen = in.seen /\ read.urls = in.urls /\ read.failed = in.failed /\ read.ended = in.ended
    BY <2>x DEF IsRead
  <2>4. CASE in' = Failed(read)
    BY <1>a, <2>1, <2>2, <2>3, <2>4
  <2>5. CASE in' = Message(read, First)
    <3>1. /\ in' \in InType /\ ~in'.done /\ in'.left = in.left - 1 /\ in'.body = "open"
          /\ in'.failed = in.failed /\ in'.seen = in.seen + 1 /\ in'.ended = in.ended
          /\ in'.urls = IF First THEN in.urls + 1 ELSE in.urls
          /\ in'.cut = in.cut
      BY <1>c, <2>1, <2>2, <2>3, <2>5, <2>b
    <3>2. ClientStreaming'
      BY <2>1 DEF ClientStreaming
    <3> QED
      BY <2>1, <3>1, <3>2 DEF BodyCounted, InType, First
  <2> QED
    BY <1>5, <2>4, <2>5 DEF ReceiveChunk, read
<1>6. CASE ReceiveReadFails
  BY <1>6, <1>a, <1>b DEF ReceiveReadFails
<1>7. CASE ReceiveCut
  <2>1. PICK cut \in {"ends", "repeats"} :
           LET read == [Opened EXCEPT !.left = 0, !.cut = cut]
           IN  in' = Message(read, First) \/ (First /\ in' = Failed(read))
    BY <1>7 DEF ReceiveCut
  <2>2. ClientStreaming /\ ~in.done /\ First \in BOOLEAN /\ 0 \in 0 .. MaxBody
    BY <1>1, <1>7 DEF ReceiveCut, First
  <2> DEFINE read == [Opened EXCEPT !.left = 0, !.cut = cut]
  <2>3. read = ReadTo(in.done, 0, cut) /\ in.done \in BOOLEAN
    BY DEF Opened, InType, ReadTo
  <2>4. in' = Message(read, First) \/ in' = Failed(read)
    BY <2>1
  <2> HIDE DEF read
  <2>x. IsRead(read, in.done, 0, cut)
    BY <2>2, <2>3, BodyRead
  <2>5. read \in InType /\ read.body = "open" /\ ~read.done /\ read.cut = cut
    BY <2>2, <2>x DEF IsRead
  <2>6. read.seen = in.seen /\ read.urls = in.urls /\ read.failed = in.failed /\ read.ended = in.ended
    BY <2>x DEF IsRead
  <2>7. CASE in' = Failed(read)
    BY <1>a, <2>2, <2>5, <2>6, <2>7
  <2>8. CASE in' = Message(read, First)
    <3>1. /\ in' \in InType /\ ~in'.done /\ in'.body = "open" /\ in'.failed = in.failed
          /\ in'.cut = cut /\ in'.ended = in.ended
          /\ in'.urls = IF First THEN in.urls + 1 ELSE in.urls
      BY <1>c, <2>2, <2>5, <2>6, <2>8
    <3>2. ClientStreaming'
      BY <2>2 DEF ClientStreaming
    <3> QED
      BY <2>2, <3>1, <3>2 DEF BodyCounted, InType, First
  <2> QED
    BY <2>4, <2>7, <2>8
<1>8. CASE ReceiveEnd
  <2> DEFINE read == [Opened EXCEPT !.done = TRUE]
  <2>1. in.left = 0 /\ ClientStreaming /\ ~in.done /\ in.cut # "repeats"
    BY <1>8 DEF ReceiveEnd
  <2>2. read \in InType /\ read.left = 0 /\ read.body = "open" /\ read.done /\ read.cut = in.cut
    BY <1>b, <2>1 DEF Opened, InType
  <2>3. read.seen = in.seen /\ read.urls = in.urls /\ read.failed = in.failed /\ read.ended = in.ended
    BY DEF Opened, InType
  <2> HIDE DEF read
  <2>4. CASE in' = Failed(read)
    BY <1>a, <2>1, <2>2, <2>3, <2>4
  <2>5. CASE in' = AtEnd(read)
    <3>1. /\ in' \in InType /\ in'.done /\ in'.left = 0 /\ in'.body = "open" /\ in'.failed = in.failed
          /\ in'.seen = IF First THEN in.seen + 1 ELSE in.seen
          /\ in'.urls = IF First THEN in.urls + 1 ELSE in.urls
          /\ in'.cut = in.cut
      <4>1. CASE First
        BY <1>c, <2>2, <2>3, <2>5, <4>1 DEF AtEnd
      <4>2. CASE ~First
        BY <2>2, <2>3, <2>5, <4>2 DEF AtEnd, InType
      <4> QED
        BY <4>1, <4>2
    <3>2. ClientStreaming'
      BY <2>1 DEF ClientStreaming
    <3> QED
      BY <2>1, <3>1, <3>2 DEF BodyCounted, InType, First
  <2> QED
    BY <1>8, <2>4, <2>5 DEF ReceiveEnd, read
<1> QED
  BY <1>2, <1>3, <1>4, <1>5, <1>6, <1>7, <1>8 DEF ReceiveSteps

---------------------------------------------------------------------------
(* The invariant *)

LEMMA InvInit == ConstantsAssumption /\ Init => IInv
<1> SUFFICES ASSUME ConstantsAssumption, Init PROVE IInv
  OBVIOUS
<1> USE DEF Init
<1>a. req.body \in 0 .. MaxBody
  BY DEF Requests
<1>b. in \in InType
  BY <1>a DEF InType
<1>c. wire \in WireType /\ resp \in RespType
  BY DEF WireType, RespType
<1>d. req \in Requests /\ lost \in BOOLEAN /\ callErr = "none" /\ pc = "match" /\ calls = 0
  OBVIOUS
<1> HIDE DEF Init
<1>1. TypeOK
  BY <1>b, <1>c, <1>d DEF TypeOK, InType, WireType, RespType, ConstantsAssumption
<1> USE DEF Init
<1>2. LineHonest /\ SentCounted /\ EndsOnce /\ BodyCounted
  BY DEF LineHonest, SentCounted, EndsOnce, BodyCounted, First
<1> QED
  BY <1>1, <1>2 DEF IInv

(* close, the abort of ServeHTTP and its error response.                      *)
LEMMA FinishEffect ==
    ASSUME IInv, FinishSteps
    PROVE  /\ resp' \in RespType /\ wire' \in WireType
           /\ LineHonest' /\ SentCounted' /\ EndsOnce'
<1>0. /\ resp \in RespType /\ wire \in WireType /\ LineHonest /\ SentCounted /\ EndsOnce
      /\ pc = "finish" /\ pc' = "done" /\ UNCHANGED <<req, lost, callErr>>
  BY FinishFrame DEF IInv, TypeOK, RespType, WireType
<1>1. wire.end = "open" /\ wire.status \in {"none", "ok"}
  BY <1>0 DEF EndsOnce, WireType
<1>2. Streaming' = Streaming
  BY <1>0 DEF Streaming
<1>3. CASE FinishClose
  <2>1. /\ resp' = CommitsTo(resp, FALSE) /\ ~CallFails
        /\ \E end \in {"clean", "broken"} : wire' = [Committed(FALSE) EXCEPT !.end = end]
    BY <1>3 DEF FinishClose
  <2>2. /\ resp' \in RespType /\ resp'.headersSet /\ resp'.sent = resp.sent
        /\ resp'.compressed = IF resp.headersSet THEN resp.compressed ELSE FALSE
    BY <1>0, <2>1, Commit
  <2>3. /\ wire' \in WireType /\ wire'.parts = wire.parts /\ wire'.messages = wire.messages
        /\ wire'.end \in {"clean", "broken"} /\ wire'.status = "ok"
        /\ wire'.encoding = IF resp.headersSet THEN wire.encoding ELSE "none"
    <3>1. /\ Committed(FALSE) \in WireType /\ Committed(FALSE).parts = wire.parts
          /\ Committed(FALSE).messages = wire.messages /\ Committed(FALSE).status = "ok"
          /\ Committed(FALSE).encoding = IF resp.headersSet THEN wire.encoding ELSE "none"
      BY <1>0, Commit DEF LineHonest, Encoding
    <3> QED
      BY <2>1, <3>1 DEF WireType
  <2>4. LineHonest'
    BY <1>0, <1>1, <2>2, <2>3 DEF LineHonest, Encoding, RespType
  <2>5. SentCounted'
    BY <1>0, <1>2, <2>2, <2>3 DEF SentCounted
  <2>6. EndsOnce'
    BY <1>0, <1>2, <2>1, <2>2, <2>3 DEF EndsOnce, CallFails, NoResponse
  <2> QED
    BY <2>2, <2>3, <2>4, <2>5, <2>6
<1>4. CASE FinishAbort
  <2>1. /\ resp' = resp /\ resp.headersSet /\ wire' \in WireType /\ wire'.end = "aborted"
        /\ wire'.status = wire.status /\ wire'.encoding = wire.encoding
        /\ wire'.parts = wire.parts /\ wire'.messages = wire.messages
    BY <1>0, <1>4 DEF FinishAbort, Commits, WireType
  <2>2. LineHonest' /\ SentCounted'
    BY <1>0, <1>2, <2>1 DEF LineHonest, SentCounted, Encoding
  <2>3. EndsOnce'
    BY <1>0, <1>1, <2>1 DEF EndsOnce, LineHonest
  <2> QED
    BY <1>0, <2>1, <2>2, <2>3
<1>5. CASE FinishError
  <2>1. /\ resp' = resp /\ ~resp.headersSet /\ wire' = ErrorResponse
    BY <1>5 DEF FinishError, Commits
  <2>2. wire.status = "none"
    BY <1>0, <1>1, <2>1 DEF LineHonest
  <2>3. LineHonest' /\ SentCounted' /\ EndsOnce'
    BY <1>0, <1>2, <2>1, <2>2, ErrorLine DEF LineHonest, SentCounted, EndsOnce
  <2> QED
    BY <1>0, <2>1, <2>3, ErrorLine
<1> QED
  BY <1>3, <1>4, <1>5 DEF FinishSteps

LEMMA InvStep == ConstantsAssumption /\ IInv /\ [Next]_vars => IInv'
<1> SUFFICES ASSUME ConstantsAssumption, IInv, [Next]_vars PROVE IInv'
  OBVIOUS
<1>0. /\ TypeOK /\ LineHonest /\ SentCounted /\ EndsOnce /\ BodyCounted
      /\ MaxBody \in Nat /\ MaxCalls \in Nat
  BY DEF IInv, ConstantsAssumption
<1>1. CASE Reject
  <2>1. /\ pc = "match" /\ pc' = "done" /\ wire' = ErrorResponse
        /\ UNCHANGED <<req, in, resp, lost, callErr, calls>>
    BY <1>1 DEF Reject
  <2>2. wire \in WireType /\ wire.status = "none"
    <3>1. wire \in WireType
      BY <1>0 DEF TypeOK, WireType
    <3> QED
      BY <1>0, <2>1, <3>1 DEF WireType, LineHonest, EndsOnce
  <2> QED
    BY <1>0, <2>1, <2>2, ErrorLine DEF IInv, TypeOK, WireType, LineHonest, SentCounted, EndsOnce,
       BodyCounted, First, Streaming, ClientStreaming
<1>2. CASE Dispatch \/ Returning
  BY <1>0, <1>2 DEF Dispatch, Returning, Return, IInv, TypeOK, LineHonest, SentCounted, EndsOnce,
     BodyCounted, First, Streaming, ClientStreaming, CallFails, NoResponse
<1>3. CASE ReceiveSteps
  <2>1. in' \in InType /\ BodyCounted' /\ calls' \in 0 .. MaxCalls
    BY <1>0, <1>3, ReceiveEffect, ReceiveFrame DEF TypeOK
  <2> QED
    BY <1>0, <1>3, <2>1, ReceiveFrame DEF IInv, TypeOK, InType, LineHonest, SentCounted, EndsOnce,
       Streaming, CallFails, NoResponse
<1>4. CASE SendSteps
  <2>1. /\ UNCHANGED <<req, in, callErr, pc>> /\ pc = "call" /\ calls' \in 0 .. MaxCalls
    BY <1>0, <1>4, SendFrame DEF TypeOK
  <2>2. /\ resp' \in RespType /\ wire' \in WireType /\ lost' \in BOOLEAN /\ (lost => lost')
        /\ LineKept \/ LineWritten
    BY <1>4, SendEffect
  <2>3. TypeOK' /\ BodyCounted'
    BY <1>0, <2>1, <2>2 DEF TypeOK, RespType, WireType, BodyCounted, First, ClientStreaming
  <2>4. wire.status # "failed" /\ wire.end = "open" /\ resp \in RespType /\ wire \in WireType
    BY <1>0, <2>1 DEF EndsOnce, TypeOK, RespType, WireType
  <2>5. CASE LineKept
    <3>1. LineHonest' /\ EndsOnce'
      BY <1>0, <2>1, <2>4, <2>5 DEF LineKept, LineHonest, EndsOnce, Encoding
    <3>2. SentCounted'
      BY <1>0, <2>1, <2>2, <2>5 DEF LineKept, SentCounted, Streaming
    <3> QED
      BY <2>3, <3>1, <3>2 DEF IInv
  <2>6. CASE LineWritten
    <3>1. EndsOnce'
      BY <2>1, <2>4, <2>6 DEF LineWritten, EndsOnce
    <3>2. LineHonest'
      <4>1. /\ resp'.headersSet /\ wire'.status = "ok"
            /\ wire'.encoding = Encoding(resp'.compressed) /\ resp'.compressed \in BOOLEAN
        BY <1>0, <2>2, <2>6, CompressorType DEF LineWritten, LineHonest, Encoding, RespType
      <4>2. wire.parts \subseteq {IF resp'.compressed THEN "compressed" ELSE "plain"}
        BY <1>0, <2>4, <2>6 DEF LineWritten, LineHonest, WireType
      <4>3. wire'.parts \subseteq {IF resp'.compressed THEN "compressed" ELSE "plain"}
        BY <2>6, <4>2 DEF LineWritten
      <4> QED
        BY <2>1, <4>1, <4>3 DEF LineHonest, Encoding
    <3>3. SentCounted'
      <4>1. ~resp.sent /\ ~Streaming => wire.messages = 0
        BY <1>0 DEF SentCounted
      <4> QED
        BY <1>0, <2>1, <2>2, <2>4, <2>6, <4>1 DEF LineWritten, SentCounted, Streaming, RespType, WireType
    <3> QED
      BY <2>3, <3>1, <3>2, <3>3 DEF IInv
  <2> QED
    BY <2>2, <2>5, <2>6
<1>5. CASE FinishSteps
  BY <1>0, <1>5, FinishFrame, FinishEffect DEF IInv, TypeOK, RespType, WireType, BodyCounted, First,
     ClientStreaming
<1>6. CASE UNCHANGED vars
  BY <1>0, <1>6 DEF vars, IInv, TypeOK, LineHonest, SentCounted, EndsOnce, BodyCounted, First,
     Streaming, ClientStreaming, CallFails, NoResponse
<1> QED
  BY NextSteps, <1>1, <1>2, <1>3, <1>4, <1>5, <1>6

(* The invariant holds whatever the handler calls and however often.          *)
THEOREM Invariance == Spec => []IInv
<1>1. Init => IInv
  BY InvInit, ConstantsAssumption
<1>2. IInv /\ [Next]_vars => IInv'
  BY InvStep, ConstantsAssumption
<1> QED
  BY <1>1, <1>2, PTL DEF Spec

---------------------------------------------------------------------------
(* The properties *)

LEMMA InvVisible == IInv => FailureVisible
BY DEF IInv, TypeOK, SentCounted, EndsOnce, CallFails, NoResponse, FailureVisible

LEMMA InvAnswered == IInv => AnsweredOnce
BY DEF IInv, TypeOK, SentCounted, EndsOnce, CallFails, NoResponse, AnsweredOnce

LEMMA InvHonest == IInv => EncodingHonest
<1> SUFFICES ASSUME IInv PROVE EncodingHonest
  OBVIOUS
<1>1. LineHonest /\ wire.status \in {"none", "ok", "failed"}
  BY DEF IInv, TypeOK
<1> QED
  BY <1>1 DEF LineHonest, EncodingHonest, Encoding

LEMMA InvWhole == IInv => RequestWhole
<1> SUFFICES ASSUME IInv, ~in.failed
             PROVE  /\ in.ended =>
                          /\ in.urls = 1 /\ in.cut # "repeats"
                          /\ in.cut = "no" =>
                                in.seen = IF ClientStreaming /\ req.body > 0 THEN req.body ELSE 1
                    /\ in.seen > 0 /\ ~req.mapsBody => req.body = 0
  BY DEF RequestWhole
<1>1. BodyCounted /\ in.seen \in Nat /\ in.left \in 0 .. MaxBody
  BY DEF IInv, TypeOK
<1>2. CASE First
  BY <1>1, <1>2 DEF BodyCounted
<1>3. CASE ~First
  BY <1>1, <1>3 DEF BodyCounted
<1> QED
  BY <1>2, <1>3

LEMMA StatusStep ==
    IInv /\ [Next]_vars =>
        (wire.status # "none" => wire'.status = wire.status /\ wire'.encoding = wire.encoding)
<1> SUFFICES ASSUME IInv, [Next]_vars, wire.status # "none"
             PROVE  wire'.status = wire.status /\ wire'.encoding = wire.encoding
  OBVIOUS
<1>0. LineHonest /\ EndsOnce /\ wire \in WireType
  BY DEF IInv, TypeOK, WireType
<1>1. CASE Reject
  BY <1>0, <1>1 DEF Reject, LineHonest
<1>2. CASE SendSteps
  <2>1. pc = "call"
    BY <1>2, SendFrame
  <2>2. wire.status = "ok" /\ resp.headersSet
    BY <1>0, <2>1 DEF EndsOnce, LineHonest, WireType
  <2> QED
    BY <1>2, <2>2, SendEffect DEF LineKept, LineWritten
<1>3. CASE FinishSteps
  <2>1. pc = "finish"
    BY <1>3, FinishFrame
  <2>2. wire.status = "ok" /\ resp.headersSet
    BY <1>0, <2>1 DEF EndsOnce, LineHonest, WireType
  <2> QED
    BY <1>0, <1>3, <2>2 DEF FinishSteps, FinishClose, FinishAbort, FinishError, Commits, Committed,
       WireType
<1>4. CASE Dispatch \/ ReceiveSteps \/ Returning \/ UNCHANGED vars
  BY <1>4, ReceiveFrame DEF Dispatch, Returning, Return, vars
<1> QED
  BY NextSteps, <1>1, <1>2, <1>3, <1>4

(* Every part of the stream keeps its type.                                   *)
THEOREM TypeCorrect == Spec => []TypeOK
<1>1. IInv => TypeOK
  BY DEF IInv
<1> QED
  BY <1>1, Invariance, PTL

(* A handler's error, or a missing message, is never a complete response:     *)
(* ServeHTTP writes an error response, or aborts one it has begun.            *)
THEOREM FailuresAreVisible == Spec => []FailureVisible
BY InvVisible, Invariance, PTL

(* A response of a method that answers once holds one message when it is      *)
(* complete: Send refuses a second, and ServeHTTP a call without any.         *)
THEOREM OneAnswer == Spec => []AnsweredOnce
BY InvAnswered, Invariance, PTL

(* Bodies are in the encoding of their status line: flushHeaders precedes     *)
(* every write of a body, and an error response only replaces an unsent one.  *)
THEOREM EncodingIsHonest == Spec => []EncodingHonest
BY InvHonest, Invariance, PTL

(* The status line is written once: headersSet guards flushHeaders, and       *)
(* ServeHTTP aborts when it is set.                                           *)
THEOREM StatusIsFinal == Spec => OneStatusLine
<1>1. IInv /\ [Next]_vars =>
        [wire.status # "none" =>
            wire'.status = wire.status /\ wire'.encoding = wire.encoding]_vars
  BY StatusStep
<1> QED
  BY <1>1, Invariance, PTL DEF Spec, OneStatusLine

(* A Receive loop that ends without an error has had the URL fields once, and *)
(* the whole upload unless readChunk took one with a Content-Length that was  *)
(* cut short for complete; a body no field maps is never dropped in silence.  *)
THEOREM RequestsAreWhole == Spec => []RequestWhole
BY InvWhole, Invariance, PTL

---------------------------------------------------------------------------
(* GRPCHandler: a gRPC service behind the adapter is one of the handlers of       *)
(* ServerStream, so it keeps that module's invariants; the properties of the      *)
(* metadata and of the verdict need the parts below.                              *)

HandlerTypes ==
    /\ desc \in {d \in Descs : Registered(d, req)}
    /\ stub \in {"context", "decode", "run", "answered", "failed", "returned"}
    /\ meta \in [header : SUBSET Marks, carried : SUBSET Marks, late : SUBSET Marks]
    /\ gave \in [said : {"none", "nil"} \cup Errors, err : {"none", "nil"} \cup Errors,
                 code : {"none", "its own", "internal", "context", "unknown"}]

(* Where the adapter is, and where the server is with it.                     *)
InStep ==
    /\ pc = "match" => stub = "context"
    /\ stub \in {"decode", "run", "answered", "failed"} => pc = "call"
    /\ stub = "returned" => pc \in {"finish", "done"}
    /\ pc = "finish" => stub = "returned"
    /\ stub = "returned" <=> gave.said # "none"

(* What is on the wire is what was merged in time.                            *)
MetadataKept ==
    IF wire.status = "none" THEN meta.carried = {} /\ meta.late = {}
                            ELSE meta.carried = meta.header \ meta.late

(* The adapter says nil for a method only after Send took the message, and    *)
(* every error it passes on is an error for the server.                       *)
VerdictPassed ==
    /\ stub = "answered" => resp.sent /\ ~lost
    /\ stub = "returned" => /\ gave.err = ConvertError(gave.said)
                            /\ callErr = IF gave.said = "nil" THEN "ok" ELSE "error"
    /\ stub = "returned" /\ desc.kind = "method" /\ gave.said = "nil" => resp.sent /\ ~lost
    /\ stub = "returned" /\ wire.status = "failed" =>
          IF gave.said = "nil" THEN desc.kind # "method" ELSE gave.code = CodeOf(gave.said)
    /\ stub = "returned" /\ wire.end = "aborted" /\ gave.said = "nil" => desc.kind # "method"

HandlerInv == IInv /\ HandlerTypes /\ InStep /\ MetadataKept /\ VerdictPassed

---------------------------------------------------------------------------
(* The adapter is a handler of the stream *)

HandlerCalls == Decode \/ StreamCall \/ Answer \/ \E mark \in Marks : SendHeader(mark)
HandlerReturns ==
    \/ \E err \in Errors : ReturnError(err)
    \/ StreamReturns \/ AnswerReturns \/ FailureReturns

LEMMA HandlerSteps ==
    [HandlerNext]_handlerVars =>
        \/ Serve \/ NewContext \/ HandlerCalls \/ HandlerReturns \/ End
        \/ \E mark \in Marks : SetHeader(mark)
        \/ UNCHANGED handlerVars
BY DEF HandlerNext, HandlerCalls, HandlerReturns, Ended

(* During a call every step of the stub is one of the stream's.               *)
LEMMA CallsAreSteps ==
    HandlerCalls => ReceiveSteps \/ SendSteps
BY DEF HandlerCalls, Decode, StreamCall, Answer, SendHeader, ReceiveSteps, SendSteps

LEMMA HandlerStep == [HandlerNext]_handlerVars => [Next]_vars
<1> SUFFICES ASSUME [HandlerNext]_handlerVars PROVE [Next]_vars
  OBVIOUS
<1>1. CASE Serve
  BY <1>1 DEF Serve, Next
<1>2. ASSUME NEW said, Returns(said) PROVE Next
  BY <1>2 DEF Returns, Next
<1>3. CASE NewContext
  BY <1>2, <1>3 DEF NewContext
<1>4. CASE HandlerCalls
  BY <1>4, CallsAreSteps DEF ReceiveSteps, SendSteps, Next
<1>5. CASE HandlerReturns
  BY <1>2, <1>5 DEF HandlerReturns, ReturnError, StreamReturns, AnswerReturns, FailureReturns
<1>6. CASE End
  BY <1>6 DEF End, Next
<1>7. ASSUME NEW mark \in Marks, SetHeader(mark) PROVE UNCHANGED vars
  BY <1>7 DEF SetHeader
<1>8. CASE UNCHANGED handlerVars
  BY <1>8 DEF handlerVars
<1> QED
  BY HandlerSteps, <1>1, <1>3, <1>4, <1>5, <1>6, <1>7, <1>8

(* Every property of the stream holds of a gRPC service behind the adapter.   *)
THEOREM HandlerImplementsStream == HandlerSpec => Spec
<1>1. HandlerInit => Init
  BY DEF HandlerInit
<1> QED
  BY <1>1, HandlerStep, PTL DEF HandlerSpec, Spec

---------------------------------------------------------------------------
(* The invariant *)

LEMMA RequestStays == [Next]_vars => req' = req
BY DEF Next, vars, Reject, Dispatch, ReceiveDone, ReceiveRejected, ReceiveUnary, ReceiveChunk,
   ReceiveReadFails, ReceiveCut, ReceiveEnd, ReceiveCall, SendHeaders, SendRejected, Send, SendCall,
   Call, Return,
   FinishClose, FinishAbort, FinishError, Finish, Served

(* The wire takes the metadata of the moment with the status line.            *)
LEMMA CarriesKeeps ==
    ASSUME HandlerTypes, MetadataKept, NEW header \in SUBSET Marks, meta.header \subseteq header,
           Carries(header), wire.status # "none" => wire'.status # "none"
    PROVE  /\ meta' \in [header : SUBSET Marks, carried : SUBSET Marks, late : SUBSET Marks]
           /\ MetadataKept'
<1>1. /\ meta'.header = header /\ meta'.carried = Carried(header)
      /\ meta'.late = meta.late \cup (IF wire.status = "none" THEN {} ELSE header \ meta.header)
      /\ meta' = [header |-> meta'.header, carried |-> meta'.carried, late |-> meta'.late]
  BY DEF Carries
<1>2. /\ meta.header \subseteq Marks /\ meta.carried \subseteq Marks /\ meta.late \subseteq Marks
  BY DEF HandlerTypes
<1>3. meta'.carried \subseteq Marks /\ meta'.late \subseteq Marks
  BY <1>1, <1>2 DEF Carried
<1>4. CASE wire.status = "none"
  BY <1>1, <1>4 DEF MetadataKept, Carried
<1>5. CASE wire.status # "none"
  <2>1. meta'.carried = meta.header \ meta.late
    BY <1>1, <1>5 DEF MetadataKept, Carried
  <2>2. meta'.header \ meta'.late = meta.header \ meta.late
    BY <1>1, <1>5
  <2> QED
    BY <1>1, <1>3, <1>5, <2>1, <2>2 DEF MetadataKept
<1> QED
  BY <1>1, <1>3, <1>4, <1>5

LEMMA MetadataStays ==
    ASSUME UNCHANGED <<wire, meta>>, MetadataKept PROVE MetadataKept'
BY DEF MetadataKept

(* A Send that reports no error has sent.                                     *)
LEMMA SendSends ==
    ASSUME IInv, NEW kind \in Kinds, SendRejected(kind) \/ Send(kind), ~lost'
    PROVE  resp'.sent
<1>1. resp \in RespType /\ wire \in WireType
  BY DEF IInv, TypeOK, RespType, WireType
<1>2. Send(kind)
  BY DEF SendRejected
<1>3. Sent \in RespType /\ Sent.headersSet = resp.headersSet /\ Sent.sent
  BY <1>1 DEF Sent, RespType
<1> QED
  BY <1>1, <1>2, <1>3, Commit, CompressorType DEF Send

LEMMA HandlerInvInit == ConstantsAssumption /\ HandlerInit => HandlerInv
<1> SUFFICES ASSUME ConstantsAssumption, HandlerInit PROVE HandlerInv
  OBVIOUS
<1>1. IInv
  BY InvInit DEF HandlerInit
<1>2. HandlerTypes
  BY DEF HandlerInit, HandlerTypes
<1>3. InStep /\ MetadataKept /\ VerdictPassed
  BY DEF HandlerInit, Init, InStep, MetadataKept, VerdictPassed
<1> QED
  BY <1>1, <1>2, <1>3 DEF HandlerInv

LEMMA HandlerInvStep ==
    ConstantsAssumption /\ HandlerInv /\ [HandlerNext]_handlerVars => HandlerInv'
<1> SUFFICES ASSUME ConstantsAssumption, HandlerInv, [HandlerNext]_handlerVars PROVE HandlerInv'
  OBVIOUS
<1>0. IInv /\ HandlerTypes /\ InStep /\ MetadataKept /\ VerdictPassed
  BY DEF HandlerInv
<1>a. [Next]_vars
  BY HandlerStep
<1>b. IInv' /\ req' = req
  BY <1>0, <1>a, InvStep, RequestStays
<1>c. wire.status # "none" => wire'.status # "none"
  BY <1>0, <1>a, StatusStep
<1> DEFINE Typed(d, b, m, g) ==
        /\ d \in {e \in Descs : Registered(e, req)}
        /\ b \in {"context", "decode", "run", "answered", "failed", "returned"}
        /\ m \in [header : SUBSET Marks, carried : SUBSET Marks, late : SUBSET Marks]
        /\ g \in [said : {"none", "nil"} \cup Errors, err : {"none", "nil"} \cup Errors,
                  code : {"none", "its own", "internal", "context", "unknown"}]
<1>d. HandlerTypes' <=> Typed(desc', stub', meta', gave')
  BY <1>b DEF HandlerTypes
<1>e. Typed(desc, stub, meta, gave) /\ meta.header \in SUBSET Marks
  BY <1>0 DEF HandlerTypes
<1> HIDE DEF Typed
<1>1. CASE Serve
  <2>1. UNCHANGED <<desc, stub, gave>> /\ stub = "context"
    BY <1>0, <1>1 DEF Serve, Reject, Dispatch, InStep
  <2>2. HandlerTypes' /\ MetadataKept'
    BY <1>0, <1>1, <1>c, <1>d, <1>e, <2>1, CarriesKeeps DEF Serve, Typed
  <2>3. pc' \in {"call", "done"}
    BY <1>1 DEF Serve, Reject, Dispatch
  <2> QED
    BY <1>0, <1>b, <2>1, <2>2, <2>3 DEF HandlerInv, InStep, VerdictPassed
<1>2. ASSUME NEW said \in {"nil"} \cup Errors, Returns(said), stub # "returned",
             said = "nil" /\ desc.kind = "method" => stub = "answered"
      PROVE  HandlerInv'
  <2>1. /\ UNCHANGED <<desc, meta, req, in, resp, wire, lost>> /\ stub' = "returned"
        /\ pc = "call" /\ pc' = "finish" /\ callErr' = IF said = "nil" THEN "ok" ELSE "error"
        /\ gave' = [gave EXCEPT !.said = said, !.err = ConvertError(said)]
    BY <1>2 DEF Returns, Return
  <2>2. /\ gave'.said = said /\ gave'.err = ConvertError(said) /\ gave'.code = gave.code
        /\ gave' \in [said : {"none", "nil"} \cup Errors, err : {"none", "nil"} \cup Errors,
                      code : {"none", "its own", "internal", "context", "unknown"}]
    <3>1. ConvertError(said) \in {"nil"} \cup Errors
      BY DEF ConvertError, Errors
    <3> QED
      BY <1>e, <2>1, <3>1 DEF Typed
  <2>3. said # "none"
    BY DEF Errors
  <2>4. HandlerTypes'
    BY <1>d, <1>e, <2>1, <2>2 DEF Typed
  <2>5. wire.status # "failed" /\ wire.end = "open"
    BY <1>0, <2>1 DEF IInv, EndsOnce
  <2>6. VerdictPassed'
    BY <1>0, <1>2, <2>1, <2>2, <2>5 DEF VerdictPassed
  <2>7. InStep'
    BY <2>1, <2>2, <2>3 DEF InStep
  <2> QED
    BY <1>0, <1>b, <2>1, <2>4, <2>6, <2>7, MetadataStays DEF HandlerInv
<1>3. CASE NewContext
  <2>1. CASE desc.malformed
    BY <1>2, <1>3, <2>1 DEF NewContext, Errors
  <2>2. CASE ~desc.malformed
    <3>1. UNCHANGED <<vars, desc, meta, gave>> /\ stub' \in {"decode", "run"} /\ pc = "call"
          /\ stub = "context"
      BY <1>3, <2>2 DEF NewContext
    <3>2. HandlerTypes'
      BY <1>d, <1>e, <3>1 DEF Typed
    <3> QED
      BY <1>0, <1>b, <3>1, <3>2, MetadataStays DEF HandlerInv, InStep, VerdictPassed, vars
  <2> QED
    BY <2>1, <2>2
<1>4. CASE HandlerCalls
  <2>1. /\ pc = "call" /\ pc' = "call" /\ callErr' = callErr
    BY <1>4, CallsAreSteps, ReceiveFrame, SendFrame
  <2>2. /\ UNCHANGED <<desc, gave>> /\ stub \in {"decode", "run"}
        /\ stub' \in {"run", "failed", "answered"}
        /\ \E header \in SUBSET Marks : meta.header \subseteq header /\ Carries(header)
    BY <1>4, <1>e DEF HandlerCalls, Decode, StreamCall, Answer, SendHeader, Running
  <2>3. HandlerTypes' /\ MetadataKept'
    BY <1>0, <1>c, <1>d, <1>e, <2>2, CarriesKeeps DEF Typed
  <2>4. stub' = "answered" => resp'.sent /\ ~lost'
    <3>1. CASE Answer
      BY <1>0, <3>1, SendSends DEF Answer
    <3>2. CASE ~Answer
      BY <1>4, <3>2 DEF HandlerCalls, Decode, StreamCall, SendHeader, Running
    <3> QED
      BY <3>1, <3>2
  <2>5. InStep'
    BY <1>0, <2>1, <2>2 DEF InStep
  <2>6. VerdictPassed'
    BY <2>2, <2>4 DEF VerdictPassed
  <2> QED
    BY <1>b, <2>3, <2>5, <2>6 DEF HandlerInv
<1>5. CASE HandlerReturns
  <2>1. ASSUME NEW err \in Errors, ReturnError(err) PROVE HandlerInv'
    BY <1>2, <2>1 DEF ReturnError, Running, Errors
  <2>2. CASE StreamReturns
    BY <1>2, <2>2 DEF StreamReturns, Running
  <2>3. CASE AnswerReturns
    BY <1>2, <2>3 DEF AnswerReturns
  <2>4. CASE FailureReturns
    BY <1>2, <2>4 DEF FailureReturns, Errors
  <2> QED
    BY <1>5, <2>1, <2>2, <2>3, <2>4 DEF HandlerReturns
<1>6. CASE End
  <2>1. /\ FinishSteps /\ pc = "finish" /\ pc' = "done" /\ UNCHANGED <<req, lost, callErr>>
        /\ UNCHANGED <<desc, stub>> /\ Carries(meta.header) /\ stub = "returned"
    BY <1>0, <1>6, FinishFrame DEF End, FinishSteps, InStep
  <2>2. wire.status # "failed" /\ wire.end = "open"
    BY <1>0, <2>1 DEF IInv, EndsOnce
  <2>3. desc.kind = "method" /\ gave.said = "nil" => ~CallFails
    BY <1>0, <2>1 DEF VerdictPassed, CallFails, NoResponse
  <2>4. /\ gave'.said = gave.said /\ gave'.err = gave.err
        /\ gave' \in [said : {"none", "nil"} \cup Errors, err : {"none", "nil"} \cup Errors,
                      code : {"none", "its own", "internal", "context", "unknown"}]
        /\ FinishError => gave'.code = IF callErr = "error" THEN AsConnectError(gave.err) ELSE "internal"
    <3>1. \/ gave' = gave /\ ~FinishError
          \/ FinishError /\ gave' = [gave EXCEPT !.code =
                               IF callErr = "error" THEN AsConnectError(gave.err) ELSE "internal"]
      BY <1>6 DEF End, FinishClose, FinishAbort, FinishError
    <3>2. AsConnectError(gave.err) \in {"its own", "internal", "context", "unknown"}
      BY DEF AsConnectError
    <3> QED
      BY <1>e, <3>1, <3>2 DEF Typed
  <2>5. HandlerTypes' /\ MetadataKept'
    BY <1>0, <1>c, <1>d, <1>e, <2>1, <2>4, CarriesKeeps DEF Typed
  <2>6. InStep'
    BY <1>0, <2>1, <2>4 DEF InStep
  <2>7. CASE FinishClose
    <3>1. wire'.status = "ok" /\ wire'.end \in {"clean", "broken"} /\ resp'.sent = resp.sent
      <4>1. resp \in RespType /\ wire \in WireType
        BY <1>0 DEF IInv, TypeOK, RespType, WireType
      <4>2. Committed(FALSE) \in WireType /\ Committed(FALSE).status = "ok"
        BY <1>0, <4>1, Commit DEF IInv, LineHonest
      <4>3. \E end \in {"clean", "broken"} : wire' = [Committed(FALSE) EXCEPT !.end = end]
        BY <2>7 DEF FinishClose
      <4>4. resp'.sent = resp.sent
        BY <2>7, <4>1, Commit DEF FinishClose
      <4> QED
        BY <4>2, <4>3, <4>4 DEF WireType
    <3> QED
      BY <1>0, <1>b, <2>1, <2>4, <2>5, <2>6, <3>1 DEF HandlerInv, VerdictPassed
  <2>8. CASE FinishAbort
    <3>1. resp' = resp /\ CallFails /\ wire'.status = wire.status
      <4>1. wire \in WireType
        BY <1>0 DEF IInv, TypeOK, WireType
      <4> QED
        BY <2>8, <4>1 DEF FinishAbort, WireType
    <3> QED
      BY <1>0, <1>b, <2>1, <2>2, <2>3, <2>4, <2>5, <2>6, <3>1 DEF HandlerInv, VerdictPassed
  <2>9. CASE FinishError
    <3>1. resp' = resp /\ CallFails
      BY <2>9 DEF FinishError
    <3>2. wire'.end = "clean"
      BY <1>0, <2>9, ErrorLine DEF FinishError, IInv, TypeOK, WireType
    <3>3. gave.said # "nil" => gave'.code = CodeOf(gave.said)
      <4>1. gave.said # "nil" =>
               gave.said \in Errors /\ gave.err = ConvertError(gave.said) /\ callErr = "error"
        BY <1>0, <1>e, <2>1 DEF VerdictPassed, InStep, Typed
      <4> QED
        BY <2>4, <2>9, <4>1 DEF ConvertError, AsConnectError, CodeOf, Errors
    <3> QED
      BY <1>0, <1>b, <2>1, <2>3, <2>4, <2>5, <2>6, <3>1, <3>2, <3>3 DEF HandlerInv, VerdictPassed
  <2> QED
    BY <1>6, <2>7, <2>8, <2>9 DEF End
<1>7. ASSUME NEW mark \in Marks, SetHeader(mark) PROVE HandlerInv'
  <2>1. /\ UNCHANGED <<vars, desc, stub, gave>> /\ Carries(meta.header \cup {mark})
        /\ meta.header \cup {mark} \in SUBSET Marks
    BY <1>7, <1>e DEF SetHeader
  <2>2. HandlerTypes' /\ MetadataKept'
    BY <1>0, <1>c, <1>d, <1>e, <2>1, CarriesKeeps DEF Typed
  <2> QED
    BY <1>0, <1>b, <2>1, <2>2 DEF HandlerInv, InStep, VerdictPassed, vars
<1>8. CASE UNCHANGED handlerVars
  <2>1. HandlerTypes'
    BY <1>8, <1>d, <1>e DEF handlerVars
  <2> QED
    BY <1>0, <1>b, <1>8, <2>1, MetadataStays DEF HandlerInv, InStep, VerdictPassed, handlerVars, vars
<1> QED
  BY HandlerSteps, <1>1, <1>3, <1>4, <1>5, <1>6, <1>7, <1>8

(* The invariant of the adapter holds of every service and its metadata.      *)
THEOREM HandlerInvariance == HandlerSpec => []HandlerInv
<1>1. HandlerInit => HandlerInv
  BY HandlerInvInit, ConstantsAssumption
<1>2. HandlerInv /\ [HandlerNext]_handlerVars => HandlerInv'
  BY HandlerInvStep, ConstantsAssumption
<1> QED
  BY <1>1, <1>2, PTL DEF HandlerSpec

---------------------------------------------------------------------------
(* The properties *)

(* Stream and adapter keep their types and stay in step; a method's request   *)
(* is received once and it sends one message at most.                         *)
THEOREM HandlerTypeCorrect == HandlerSpec => []HandlerTypeOK
<1>1. HandlerInv => HandlerTypeOK
  <2> SUFFICES ASSUME HandlerInv PROVE HandlerTypeOK
    OBVIOUS
  <2>1. TypeOK /\ HandlerTypes /\ InStep /\ SentCounted /\ BodyCounted
    BY DEF HandlerInv, IInv
  <2>2. desc.kind = "method" => req.type = "unary"
    BY <2>1 DEF HandlerTypes, Registered
  <2>3. desc.kind = "method" => wire.messages <= 1 /\ in.seen <= 1
    BY <2>1, <2>2 DEF SentCounted, BodyCounted, Streaming, ClientStreaming
  <2> QED
    BY <2>1, <2>3 DEF HandlerTypes, InStep, HandlerTypeOK
<1> QED
  BY <1>1, HandlerInvariance, PTL

(* Metadata merged before the status line is on the wire, whatever committed  *)
(* it: setMetadataHeaders runs in every place that writes one.                *)
THEOREM MetadataIsCarried == HandlerSpec => []MetadataArrives
<1>1. HandlerInv => MetadataArrives
  BY DEF HandlerInv, IInv, EndsOnce, MetadataKept, MetadataArrives
<1> QED
  BY <1>1, HandlerInvariance, PTL

(* What the handler's code said reaches the client: a method's message, the   *)
(* code of its error, or a response that is cut.                              *)
THEOREM VerdictIsKept == HandlerSpec => []VerdictKept
<1>1. HandlerInv => VerdictKept
  <2> SUFFICES ASSUME HandlerInv, pc = "done", stub = "returned"
               PROVE  IF gave.said = "nil"
                      THEN desc.kind = "method" =>
                              wire.status = "ok" /\ wire.messages = 1 /\ wire.end # "aborted"
                      ELSE IF wire.status = "ok" THEN wire.end = "aborted"
                                                 ELSE gave.code = CodeOf(gave.said)
    BY DEF VerdictKept
  <2>1. TypeOK /\ HandlerTypes /\ SentCounted /\ EndsOnce /\ VerdictPassed
    BY DEF HandlerInv, IInv
  <2>2. wire.status \in {"ok", "failed"}
    BY <2>1 DEF TypeOK, EndsOnce
  <2>3. desc.kind = "method" => ~Streaming
    BY <2>1 DEF HandlerTypes, Registered, Streaming
  <2>4. CASE gave.said = "nil"
    BY <2>1, <2>2, <2>3, <2>4 DEF SentCounted, VerdictPassed
  <2>5. CASE gave.said # "nil"
    <3>1. CallFails
      BY <2>1, <2>5 DEF VerdictPassed, CallFails
    <3> QED
      BY <2>1, <2>2, <2>5, <3>1 DEF EndsOnce, VerdictPassed
  <2> QED
    BY <2>4, <2>5
<1> QED
  BY <1>1, HandlerInvariance, PTL
=============================================================================
