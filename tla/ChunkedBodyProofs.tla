------------------------- MODULE ChunkedBodyProofs -------------------------
(***************************************************************************)
(* Proofs about ChunkedBody, for every chunk size and every length of the  *)
(* body.                                                                   *)
(***************************************************************************)
EXTENDS ChunkedBody, TLAPS

(* What was taken off the wire has been delivered or is in the buffer of the  *)
(* call in progress, and nothing is taken that was not written.               *)
BytesCounted ==
    /\ body.taken <= body.written
    /\ reader.pc = "idle" => reader.delivered = body.taken
    /\ reader.pc \in {"fill", "over"} => reader.delivered + reader.buf = body.taken

(* io.EOF ends the reader, and is never said before the end of the body.      *)
EOFLast ==
    reader.result = "EOF" =>
        /\ reader.pc = "over" /\ body.end # "none"
        /\ reader.buf = 0 /\ body.taken = body.written

IInv == TypeOK /\ BytesCounted /\ EOFLast /\ ShortOnlyLast /\ NoEmptyChunk

BodyType(bytes) == [written : bytes, taken : bytes, end : {"none", "eof", "aborted"}, told : BOOLEAN]
ReaderType(bytes, sizes, calls) ==
    [pc : {"idle", "fill", "over"}, buf : sizes, delivered : bytes, last : sizes,
     result : {"none", "ok", "EOF", "error"}, calls : calls]

LEMMA Types ==
    TypeOK <=> /\ transport \in Transports /\ body \in BodyType(0 .. MaxBytes)
               /\ reader \in ReaderType(0 .. MaxBytes, 0 .. ChunkSize, 0 .. MaxChunks)
BY DEF TypeOK, BodyType, ReaderType

(* The two ways a call of Receive returns.                                    *)
LEMMA ReaderReturns ==
    ASSUME NEW bytes, NEW sizes, NEW calls, reader \in ReaderType(bytes, sizes, calls),
           reader.delivered + reader.buf \in bytes, 0 \in sizes
    PROVE  /\ Delivers \in ReaderType(bytes, sizes, calls)
           /\ Delivers.pc = "idle" /\ Delivers.result = "ok" /\ Delivers.last = reader.buf
           /\ Delivers.delivered = reader.delivered + reader.buf
           /\ \A result \in {"EOF", "error"} :
                 /\ Ends(result) \in ReaderType(bytes, sizes, calls)
                 /\ Ends(result).pc = "over" /\ Ends(result).result = result
                 /\ Ends(result).buf = reader.buf /\ Ends(result).delivered = reader.delivered
<1> DEFINE delivered == reader.delivered + reader.buf
<1>1. delivered \in bytes /\ Delivers = [reader EXCEPT !.pc = "idle", !.result = "ok",
                                           !.last = reader.buf, !.delivered = delivered]
  BY DEF Delivers, ReaderType
<1> HIDE DEF delivered
<1>2. /\ Delivers \in ReaderType(bytes, sizes, calls)
      /\ Delivers.pc = "idle" /\ Delivers.result = "ok" /\ Delivers.last = reader.buf
      /\ Delivers.delivered = delivered
  BY <1>1 DEF ReaderType
<1>3. ASSUME NEW result \in {"EOF", "error"}
      PROVE  /\ Ends(result) \in ReaderType(bytes, sizes, calls)
             /\ Ends(result).pc = "over" /\ Ends(result).result = result
             /\ Ends(result).buf = reader.buf /\ Ends(result).delivered = reader.delivered
  BY DEF Ends, ReaderType
<1> QED
  BY <1>2, <1>3 DEF delivered

LEMMA InvInit == ConstantsAssumption /\ Init => IInv
<1> SUFFICES ASSUME ConstantsAssumption, Init PROVE IInv
  OBVIOUS
<1>1. 0 \in 0 .. MaxBytes /\ 0 \in 0 .. ChunkSize /\ 0 \in 0 .. MaxChunks
  BY DEF ConstantsAssumption
<1>2. TypeOK
  BY <1>1, Types DEF Init, BodyType, ReaderType
<1>3. BytesCounted /\ EOFLast /\ ShortOnlyLast /\ NoEmptyChunk
  BY DEF Init, BytesCounted, EOFLast, ShortOnlyLast, NoEmptyChunk
<1> QED
  BY <1>2, <1>3 DEF IInv

LEMMA InvStep == ConstantsAssumption /\ IInv /\ [Next]_vars => IInv'
<1> SUFFICES ASSUME ConstantsAssumption, IInv, [Next]_vars PROVE IInv'
  OBVIOUS
<1> DEFINE Bytes == 0 .. MaxBytes
           Sizes == 0 .. ChunkSize
           Calls == 0 .. MaxChunks
<1>0. /\ transport \in Transports /\ body \in BodyType(Bytes)
      /\ reader \in ReaderType(Bytes, Sizes, Calls)
      /\ BytesCounted /\ EOFLast /\ ShortOnlyLast /\ NoEmptyChunk
  BY Types DEF IInv
<1>a. /\ body.written \in 0 .. MaxBytes /\ body.taken \in 0 .. MaxBytes
      /\ reader.delivered \in 0 .. MaxBytes /\ reader.buf \in 0 .. ChunkSize
      /\ reader.last \in 0 .. ChunkSize /\ reader.calls \in 0 .. MaxChunks
      /\ ChunkSize \in Nat \ {0} /\ MaxBytes \in Nat /\ MaxChunks \in Nat
  BY <1>0 DEF BodyType, ReaderType, ConstantsAssumption
<1>b. reader.pc = "fill" => reader.delivered + reader.buf \in Bytes
  BY <1>0, <1>a DEF BytesCounted
<1>c. 0 \in Sizes
  BY <1>a
<1>d. TypeOK' <=> /\ transport' \in Transports /\ body' \in BodyType(Bytes)
                  /\ reader' \in ReaderType(Bytes, Sizes, Calls)
  BY DEF TypeOK, BodyType, ReaderType
<1> HIDE DEF Bytes, Sizes, Calls
<1>1. CASE Write
  <2> DEFINE written == body.written + 1
  <2>1. written \in Bytes /\ body' = [body EXCEPT !.written = written] /\ UNCHANGED <<transport, reader>>
        /\ body.end = "none"
    BY <1>0, <1>1, <1>a DEF Write, BodyType, Bytes
  <2> HIDE DEF written
  <2>2. /\ body' \in BodyType(Bytes) /\ body'.written = written /\ body'.taken = body.taken
        /\ body'.end = body.end
    BY <1>0, <2>1 DEF BodyType
  <2> QED
    BY <1>0, <1>a, <1>d, <2>1, <2>2 DEF IInv, BytesCounted, EOFLast, ShortOnlyLast, NoEmptyChunk, written
<1>2. ASSUME NEW end \in {"eof", "aborted"}, EndBody(end) PROVE IInv'
  <2>1. /\ body' \in BodyType(Bytes) /\ body'.written = body.written /\ body'.taken = body.taken
        /\ body'.end # "none" /\ body.end = "none" /\ UNCHANGED <<transport, reader>>
    BY <1>0, <1>2 DEF EndBody, BodyType
  <2> QED
    BY <1>0, <1>d, <2>1 DEF IInv, BytesCounted, EOFLast, ShortOnlyLast, NoEmptyChunk
<1>3. CASE Receive
  <2> DEFINE calls == reader.calls + 1
  <2>1. /\ calls \in Calls /\ reader' = [reader EXCEPT !.pc = "fill", !.buf = 0, !.calls = calls]
        /\ reader.pc = "idle" /\ UNCHANGED <<transport, body>>
    BY <1>0, <1>3, <1>a DEF Receive, Buffer, ReaderType, Calls
  <2> HIDE DEF calls
  <2>2. /\ reader' \in ReaderType(Bytes, Sizes, Calls) /\ reader'.pc = "fill" /\ reader'.buf = 0
        /\ reader'.delivered = reader.delivered /\ reader'.result = reader.result
        /\ reader'.last = reader.last
    BY <1>0, <1>c, <2>1 DEF ReaderType
  <2> QED
    BY <1>0, <1>a, <1>d, <2>1, <2>2 DEF IInv, BytesCounted, EOFLast, ShortOnlyLast, NoEmptyChunk
<1>4. ASSUME NEW n \in 1 .. ChunkSize, Fill(n) PROVE IInv'
  <2> DEFINE taken == body.taken + n
             buf == reader.buf + n
  <2>1. /\ taken \in Bytes /\ body' = [body EXCEPT !.taken = taken]
        /\ buf \in Sizes /\ reader' = [reader EXCEPT !.buf = buf]
        /\ taken <= body.written /\ reader.pc = "fill" /\ transport' = transport
    BY <1>0, <1>4, <1>a DEF Fill, BodyType, ReaderType, Bytes, Sizes
  <2> HIDE DEF taken, buf
  <2>2. /\ body' \in BodyType(Bytes) /\ body'.written = body.written /\ body'.taken = taken
        /\ body'.end = body.end
    BY <1>0, <2>1 DEF BodyType
  <2>3. /\ reader' \in ReaderType(Bytes, Sizes, Calls) /\ reader'.pc = "fill" /\ reader'.buf = buf
        /\ reader'.delivered = reader.delivered /\ reader'.result = reader.result
        /\ reader'.last = reader.last
    BY <1>0, <2>1 DEF ReaderType
  <2>4. BytesCounted'
    BY <1>0, <1>a, <2>1, <2>2, <2>3 DEF BytesCounted, taken, buf
  <2> QED
    BY <1>0, <1>a, <1>d, <2>1, <2>2, <2>3, <2>4 DEF IInv, EOFLast, ShortOnlyLast, NoEmptyChunk
<1>5. ASSUME reader.pc = "fill", reader' = Delivers, body'.written = body.written,
             body'.taken = body.taken, body'.end = body.end, body' \in BodyType(Bytes),
             transport' = transport, Full \/ body.end # "none",
             Full \/ reader.buf # 0 \/ body.end = "aborted"
      PROVE  IInv'
  <2>1. /\ reader' \in ReaderType(Bytes, Sizes, Calls) /\ reader'.pc = "idle" /\ reader'.result = "ok"
        /\ reader'.last = reader.buf /\ reader'.delivered = reader.delivered + reader.buf
    BY <1>0, <1>5, <1>b, <1>c, ReaderReturns
  <2> QED
    BY <1>0, <1>5, <1>a, <1>d, <2>1 DEF IInv, BytesCounted, EOFLast, ShortOnlyLast, NoEmptyChunk, Full
<1>6. ASSUME reader.pc = "fill", NEW result \in {"EOF", "error"}, reader' = Ends(result),
             body'.written = body.written, body'.taken = body.taken, body'.end = body.end,
             body' \in BodyType(Bytes), transport' = transport,
             result = "EOF" => reader.buf = 0 /\ body.taken = body.written /\ body.end # "none"
      PROVE  IInv'
  <2>1. /\ reader' \in ReaderType(Bytes, Sizes, Calls) /\ reader'.pc = "over"
        /\ reader'.result = result /\ reader'.buf = reader.buf
        /\ reader'.delivered = reader.delivered
    BY <1>0, <1>6, <1>b, <1>c, ReaderReturns
  <2> QED
    BY <1>0, <1>6, <1>a, <1>d, <2>1 DEF IInv, BytesCounted, EOFLast, ShortOnlyLast, NoEmptyChunk
<1>7. CASE ReturnFull
  BY <1>0, <1>5, <1>7 DEF ReturnFull
<1>8. CASE ReadEOF
  <2>1. reader.pc = "fill" /\ body.taken = body.written /\ body.end # "none"
        /\ UNCHANGED <<transport, body>>
    BY <1>8 DEF ReadEOF, Exhausted, SaysEOF
  <2>2. CASE reader.buf = 0
    BY <1>0, <1>6, <1>8, <2>1, <2>2 DEF ReadEOF, AtEOF
  <2>3. CASE reader.buf # 0
    BY <1>0, <1>5, <1>8, <2>1, <2>3 DEF ReadEOF, AtEOF
  <2> QED
    BY <2>2, <2>3
<1>9. CASE ReadAborted
  <2>1. /\ body' \in BodyType(Bytes) /\ body'.written = body.written /\ body'.taken = body.taken
        /\ body'.end = body.end /\ transport' = transport /\ reader.pc = "fill"
        /\ body.end # "none"
    BY <1>0, <1>9 DEF ReadAborted, Exhausted, BodyType
  <2>a. body.end = "aborted"
    BY <1>9 DEF ReadAborted
  <2>2. CASE reader' = Delivers
    BY <1>5, <2>1, <2>2, <2>a
  <2>3. CASE reader' = Ends("error")
    BY <1>6, <2>1, <2>3
  <2> QED
    BY <1>9, <2>2, <2>3 DEF ReadAborted
<1>10. CASE ReadFails
  BY <1>0, <1>6, <1>10 DEF ReadFails
<1>11. CASE UNCHANGED vars
  BY <1>0, <1>d, <1>11 DEF vars, IInv, BytesCounted, EOFLast, ShortOnlyLast, NoEmptyChunk
<1> QED
  BY <1>1, <1>2, <1>3, <1>4, <1>7, <1>8, <1>9, <1>10, <1>11 DEF Next, Finished

(* The invariant holds for every chunk size, transport and length of the body. *)
THEOREM Invariance == Spec => []IInv
<1>1. Init => IInv
  BY InvInit, ConstantsAssumption
<1>2. IInv /\ [Next]_vars => IInv'
  BY InvStep, ConstantsAssumption
<1> QED
  BY <1>1, <1>2, PTL DEF Spec

(* Buffers and counts stay in bounds: readChunk never holds more than a chunk. *)
THEOREM TypeCorrect == Spec => []TypeOK
<1>1. IInv => TypeOK
  BY DEF IInv
<1> QED
  BY <1>1, Invariance, PTL

(* Receive says io.EOF after it has delivered every byte of the body: what     *)
(* readChunk has in its buffer at the end is a message of its own first.       *)
THEOREM EOFIsLast == Spec => []WholeAtEOF
<1>1. IInv => WholeAtEOF
  BY DEF IInv, TypeOK, BytesCounted, EOFLast, WholeAtEOF
<1> QED
  BY <1>1, Invariance, PTL

(* A message is empty only after an abort: io.ReadFull says io.EOF, which      *)
(* readChunk passes on, when there is nothing left of a completed body.        *)
THEOREM EmptyIsAborted == Spec => []NoEmptyChunk
<1>1. IInv => NoEmptyChunk
  BY DEF IInv
<1> QED
  BY <1>1, Invariance, PTL

(* A short chunk is the last of a body that has ended: io.ReadFull returns one *)
(* only with the end of the body.                                              *)
THEOREM ShortIsLast == Spec => []ShortOnlyLast
<1>1. IInv => ShortOnlyLast
  BY DEF IInv
<1> QED
  BY <1>1, Invariance, PTL
=============================================================================
