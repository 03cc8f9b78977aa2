------------------------- MODULE RequestCodecProofs -------------------------
(***************************************************************************)
(* Proofs about RequestCodec: its inductive invariant, in named parts, and *)
(* the properties that follow from it, for templates, values and messages  *)
(* of any length.  IInv divides the message between path, body and query;  *)
(* PathInv, which needs IInv, is about what the path carries: every        *)
(* segment written for a variable stays as it was written, so that what is *)
(* read back from the route that is found is what was sent; GrammarInv is  *)
(* about the parser: what it has read is a beginning of the grammar that   *)
(* ends where the parser is, and is printed of what was parsed so far.     *)
(***************************************************************************)
EXTENDS RequestCodec, PathEscapeProofs, FiniteSetTheorems

DoubleStar == <<"*", "*">>
SegmentTexts == Wildcards \cup Seq(Written)
Ends == {"rejected", "short", "accepted"}
VariableType == [field : Seq(Chars), start : Nat, end : Nat \cup {-1}]

(* The parser: "**" is the last segment it wrote, the variables it has open   *)
(* start inside the template, and those it has closed have proper bounds.     *)
ParserTypes ==
    /\ at \in Template!Running \cup Ends
    /\ seenDoubleStar \in BOOLEAN
    /\ pattern \in Seq(SegmentTexts)
    /\ open \in Seq([field : Seq(Chars), start : Nat])
    /\ found \in Seq(VariableType)
    /\ verb \in Seq(Written)

DoubleStarLast ==
    /\ seenDoubleStar => pattern # <<>> /\ pattern[Len(pattern)] = DoubleStar
    /\ at \in {"template", "segment", "field", "assign"} => ~seenDoubleStar
    /\ at \in {"next", "verb", "end", "accepted"} => pattern # <<>>
    /\ \A i \in DOMAIN pattern : pattern[i] = DoubleStar => seenDoubleStar /\ i = Len(pattern)

OpenInside ==
    /\ at = "assign" => open # <<>>
    /\ \A i \in DOMAIN open :
          open[i].start <= Len(pattern) /\ (at = "next" => open[i].start < Len(pattern))

BoundsOK ==
    \A i \in DOMAIN found : VarOK(found[i]) /\ (found[i].end = -1 => seenDoubleStar)

ParserInv == ParserTypes /\ DoubleStarLast /\ OpenInside /\ BoundsOK

(* The codec runs on what was parsed.                                         *)
Calling == phase \notin {"idle", "unbound", "unmarshalable"}
CodecTypes ==
    /\ phase \in {"idle", "unbound", "unmarshalable", "encode", "refused", "unencodable", "sent",
                  "notFound", "capture", "failed", "done"}
    /\ phase # "idle" => at = "accepted"
    /\ ~Calling => target = [segments |-> <<>>, vars |-> <<>>, verb |-> <<>>] /\ segments = <<>>
                   /\ k = 1 /\ got = <<>> /\ pending = {}
    /\ Calling => /\ target = [segments |-> pattern, vars |-> found, verb |-> verb]
                  /\ request = message /\ IsMessage(request) /\ Bindable(body)
                  /\ Marshalable
                  /\ Len(segments) >= Len(pattern)
    /\ segments \in Seq(SegmentTexts)
    /\ uri \in Seq(Chars)
    /\ k \in 0 .. Len(found) + 1
    /\ phase = "encode" => k >= 1
    /\ phase = "capture" => k <= Len(found)
    /\ pending \subseteq Populated(request)
    /\ DOMAIN got \subseteq {found[i].field : i \in DOMAIN found}

(* What the path will carry of each field when all variables are captured.    *)
Asked(field) == IF body = Whole \/ request[field] = <<>> THEN <<>> ELSE Rest(field)

(* A field outside the path has its value, or the query still has the rest.   *)
Accounted(field) ==
    IF field \in Lists
    THEN /\ server[field] \in Seq(Seq(Chars)) /\ query[field] \in Seq(Seq(Chars))
         /\ server[field] \o query[field] = request[field]
    ELSE \/ query[field] = <<>> /\ server[field] = request[field]
         \/ query[field] = <<request[field]>> /\ field \in Scalars

Division ==
    /\ ~Calling => query = Nothing
    /\ ~decoded => server = Nothing /\ got = <<>> /\ (phase = "capture" => k = Len(found))
    /\ Calling /\ ~decoded /\ phase # "unencodable" =>
          query = [field \in Fields |-> IF field \in pending THEN <<>> ELSE Asked(field)]
    /\ phase \in {"sent", "capture"} => body = Whole \/ pending = {}
    /\ phase \in {"sent", "capture"} /\ ~decoded =>
          payload = [field \in Fields |-> IF Selected(field) THEN request[field] ELSE <<>>]
    /\ Calling /\ phase # "unencodable" /\ body # Whole /\ request[r] # <<>> => r \in pending \/ body = r
    /\ phase = "unencodable" => request[r] # <<>> /\ ~Selected(r)
    /\ decoded => phase \in {"capture", "failed", "done"}
    /\ decoded /\ phase \in {"capture", "done"} =>
          /\ server = [field \in Fields |-> server[field]]
          /\ query = [field \in Fields |-> query[field]]
          /\ DOMAIN got = {found[i].field : i \in k + 1 .. Len(found)}
          /\ \A field \in Fields :
                IF InPath(field)
                THEN query[field] = <<>> /\ (field \in DOMAIN got => server[field] = got[field])
                ELSE Accounted(field)
    /\ phase = "done" => decoded /\ query = Nothing /\ k = 0

IInv == ParserInv /\ CodecTypes /\ Division

(* A literal of the pattern is an escaped text, in the one form it has.       *)
PatternCanonical ==
    \A i \in DOMAIN pattern :
        pattern[i] \in Wildcards \/ (Valid(pattern[i]) /\ Canonical(pattern[i]) = pattern[i])

(* Of two variables with one name the later is around the earlier.            *)
Nesting ==
    /\ \A i, j \in DOMAIN open : i < j => open[i].start <= open[j].start
    /\ \A i \in DOMAIN open, j \in DOMAIN found :
          open[i].field = found[j].field => open[i].start <= found[j].start
    /\ \A i, j \in DOMAIN found : i < j =>
          /\ found[i].field = found[j].field => found[j].start <= found[i].start
          /\ found[j].end # -1 => found[i].end # -1 /\ found[i].end <= found[j].end

(* Segments of the path are valid escapes, and match the pattern.             *)
Matching ==
    Calling =>
        /\ segments \in Seq(ValidText)
        /\ \A j \in DOMAIN pattern : pattern[j] \in Wildcards \/ segments[j] = pattern[j]
        /\ Len(segments) = Len(pattern) \/ pattern[Len(pattern)] = DoubleStar

(* Each segment is of the pattern or a part of a variable written before, and *)
(* no part has been written over: all variables agree where they overlap.     *)
Encoded == IF phase = "encode" THEN 1 .. k - 1 ELSE DOMAIN found
PartsOf(i) == Path!Parts(found[i])
Till(i) == found[i].start + Len(PartsOf(i))
Kept ==
    phase \in {"encode", "sent", "capture", "done"} =>
        /\ \A i \in Encoded :
              /\ Till(i) <= Len(segments)
              /\ \A p \in DOMAIN PartsOf(i) : segments[found[i].start + p] = PartsOf(i)[p]
        /\ \A j \in DOMAIN segments :
              \/ j \in DOMAIN pattern /\ segments[j] = pattern[j]
              \/ \E i \in Encoded : j - found[i].start \in DOMAIN PartsOf(i)
        /\ \/ Len(segments) = Len(pattern)
           \/ \E i \in Encoded : found[i].end = -1 /\ Len(segments) = Till(i)

Came(j) == Path!Arrived(found[j])
Outcome ==
    /\ phase \in {"sent", "capture", "done"} => uri = Joined(segments) \o Path!WithVerb
    /\ phase \notin {"notFound", "failed"}
    /\ phase = "refused" => ~Path!Fitting
    /\ phase \in {"capture", "done"} /\ Path!Fitting =>
          \A j \in k + 1 .. Len(found) : Came(j)

PathInv == PatternCanonical /\ Nesting /\ Matching /\ Kept /\ Outcome

---------------------------------------------------------------------------
(* Sequences *)

LEMMA Element ==
    ASSUME NEW X, NEW s \in Seq(X)
    PROVE  /\ DOMAIN s = 1 .. Len(s) /\ Len(s) \in Nat
           /\ \A i \in DOMAIN s : i \in 1 .. Len(s) /\ s[i] \in X
OBVIOUS

LEMMA Appended ==
    ASSUME NEW X, NEW s \in Seq(X), NEW x \in X
    PROVE  /\ Append(s, x) \in Seq(X)
           /\ \A i \in DOMAIN Append(s, x) :
                 \/ Append(s, x)[i] = x /\ i = Len(s) + 1
                 \/ i \in DOMAIN s /\ Append(s, x)[i] = s[i]
<1> DEFINE u == Append(s, x)
<1>1. u \in Seq(X) /\ Len(u) = Len(s) + 1 /\ Len(s) \in Nat /\ u[Len(s) + 1] = x
      /\ \A i \in 1 .. Len(s) : u[i] = s[i]
  BY AppendProperties
<1>2. DOMAIN u = 1 .. Len(u) /\ DOMAIN s = 1 .. Len(s)
  OBVIOUS
<1> HIDE DEF u
<1>3. \A i \in DOMAIN u : (u[i] = x /\ i = Len(s) + 1) \/ (i \in DOMAIN s /\ u[i] = s[i])
  <2> SUFFICES ASSUME NEW i \in DOMAIN u
               PROVE  (u[i] = x /\ i = Len(s) + 1) \/ (i \in DOMAIN s /\ u[i] = s[i])
    OBVIOUS
  <2>1. i \in 1 .. Len(s) \/ i = Len(s) + 1
    BY <1>1, <1>2
  <2>2. CASE i \in 1 .. Len(s)
    <3>1. i \in DOMAIN s
      BY <1>2, <2>2
    <3>2. u[i] = s[i]
      BY <1>1, <2>2
    <3> QED
      BY <3>1, <3>2
  <2>3. CASE i = Len(s) + 1
    BY <1>1, <2>3
  <2> QED
    BY <2>1, <2>2, <2>3
<1> QED
  BY <1>1, <1>3 DEF u

---------------------------------------------------------------------------
(* The parser *)

LEMMA CanonicalIs == ASSUME NEW t PROVE Template!Canonical(t) = Canonical(t)
BY DEF Template!Canonical, Canonical, Template!Escape, Escape, Template!Unescape, Unescape,
       Template!IsHexSlash, IsHexSlash, Template!EscapedSlash, EscapedSlash,
       Template!Unreserved, Unreserved, Template!Identifier, Identifier,
       Template!HexDigits, HexDigits, Template!Digits, Digits,
       Template!Hex, Hex, Template!Byte, Byte

LEMMA ValidIs == ASSUME NEW t PROVE Template!Valid(t) <=> Valid(t)
BY DEF Template!Valid, Valid, Template!HexDigits, HexDigits, Template!Digits, Digits

LEMMA WildcardsIs == Template!Wildcards = Wildcards
BY DEF Template!Wildcards, Wildcards

LEMMA WordType ==
    ASSUME NEW t \in Words
    PROVE  t \in Seq(Written) /\ t \in Seq(Chars) /\ t # <<>>
<1>1. t \in Seq(Written) /\ t # <<>>
  BY WordsAssumption DEF Written
<1> QED
  BY <1>1, SeqMonotonic, Alphabet

(* A literal is written in its canonical form, which is no wildcard.          *)
LEMMA LiteralWritten ==
    ASSUME NEW t, Template!LiteralOK(t)
    PROVE  Template!Canonical(t) \in Seq(Written)
<1>1. t \in Words /\ Valid(t)
  BY ValidIs DEF Template!LiteralOK
<1>2. Unescape(t, "single") \in Seq(Chars)
  BY <1>1, WordsAssumption
<1> QED
  BY <1>2, EscapeType, CanonicalIs DEF Canonical

LEMMA NoStarWritten == \A w \in Seq(Written) : w \notin Wildcards
<1> SUFFICES ASSUME NEW w \in Seq(Written), w \in Wildcards PROVE FALSE
  OBVIOUS
<1>1. Len(w) \in Nat \ {0} /\ w[1] = "*"
  BY DEF Wildcards
<1>2. w[1] \in Written
  BY <1>1, ElementOfSeq
<1> QED
  BY <1>1, <1>2, Alphabet

(* A step that leaves segments and variables alone keeps the invariant.       *)
LEMMA MovesOn ==
    ASSUME ParserInv, UNCHANGED <<seenDoubleStar, pattern, open, found>>,
           verb' \in Seq(Written), at' \in Template!Running \cup Ends,
           at' \in {"template", "segment", "field", "assign"} => ~seenDoubleStar,
           at' # "assign", at' = "next" => at = "next",
           at' \in {"next", "verb", "end", "accepted"} => pattern # <<>>
    PROVE  ParserInv'
<1>1. ParserTypes'
  BY DEF ParserInv, ParserTypes
<1>2. DoubleStarLast'
  BY DEF ParserInv, DoubleStarLast
<1>3. OpenInside'
  BY DEF ParserInv, OpenInside
<1>4. BoundsOK'
  BY DEF ParserInv, BoundsOK, VarOK, Last
<1> QED
  BY <1>1, <1>2, <1>3, <1>4 DEF ParserInv

LEMMA RejectedStep ==
    ASSUME ParserInv, Template!Rejected
    PROVE  ParserInv'
<1>1. verb \in Seq(Written)
  BY DEF ParserInv, ParserTypes
<1> QED
  BY <1>1, MovesOn DEF Template!Rejected, Ends

LEMMA RootStep == ASSUME ParserInv, NEW t, Template!Root(t) PROVE ParserInv'
<1>1. CASE Template!Rejected
  BY <1>1, RejectedStep
<1>2. CASE at = "template" /\ at' = "segment" /\ UNCHANGED <<seenDoubleStar, pattern, open, found, verb>>
  <2>1. verb \in Seq(Written) /\ ~seenDoubleStar
    BY <1>2 DEF ParserInv, ParserTypes, DoubleStarLast
  <2> QED
    BY <1>2, <2>1, MovesOn DEF Template!Running
<1> QED
  BY <1>1, <1>2 DEF Template!Root

LEMMA VerbStep == ASSUME ParserInv, NEW t, Template!Verb(t) PROVE ParserInv'
<1>1. CASE Template!Rejected
  BY <1>1, RejectedStep
<1>2. CASE /\ at = "verb" /\ Template!LiteralOK(t) /\ verb' = Template!Canonical(t) /\ at' = "end"
           /\ UNCHANGED <<seenDoubleStar, pattern, open, found>>
  <2>1. pattern # <<>> /\ verb' \in Seq(Written)
    BY <1>2, LiteralWritten DEF ParserInv, DoubleStarLast
  <2> QED
    BY <1>2, <2>1, MovesOn DEF Template!Running
<1> QED
  BY <1>1, <1>2 DEF Template!Verb

LEMMA EOFStep == ASSUME ParserInv, Template!EOF PROVE ParserInv'
<1>1. /\ verb \in Seq(Written)
      /\ at \in {"next", "end"} => pattern # <<>>
  BY DEF ParserInv, ParserTypes, DoubleStarLast
<1> QED
  BY <1>1, MovesOn DEF Template!EOF, Ends

(* Writing a segment: whatever closes or starts later is still inside.        *)
LEMMA SegmentWritten ==
    ASSUME ParserInv, ~seenDoubleStar, NEW w \in SegmentTexts
    PROVE  LET longer == Append(pattern, w)
           IN  /\ longer \in Seq(SegmentTexts) /\ longer # <<>>
               /\ Len(longer) = Len(pattern) + 1 /\ Len(pattern) \in Nat
               /\ longer[Len(longer)] = w
               /\ \A i \in DOMAIN longer : longer[i] = DoubleStar => w = DoubleStar /\ i = Len(longer)
               /\ \A v \in VariableType : VarOK(v) /\ v.end # -1 =>
                     v.start \in 0 .. Len(longer) - 1 /\ v.end \in v.start + 1 .. Len(longer)
<1> DEFINE longer == Append(pattern, w)
<1>1. pattern \in Seq(SegmentTexts) /\ \A i \in DOMAIN pattern : pattern[i] # DoubleStar
  BY DEF ParserInv, ParserTypes, DoubleStarLast
<1>2. /\ longer \in Seq(SegmentTexts) /\ Len(longer) = Len(pattern) + 1 /\ Len(pattern) \in Nat
      /\ longer[Len(longer)] = w /\ DOMAIN longer = 1 .. Len(longer)
      /\ \A i \in 1 .. Len(pattern) : longer[i] = pattern[i] /\ i \in DOMAIN pattern
  BY <1>1
<1> HIDE DEF longer
<1>3. longer # <<>>
  BY <1>2, EmptySeq
<1>4. \A i \in DOMAIN longer : longer[i] = DoubleStar => w = DoubleStar /\ i = Len(longer)
  <2> SUFFICES ASSUME NEW i \in DOMAIN longer, longer[i] = DoubleStar
               PROVE  w = DoubleStar /\ i = Len(longer)
    OBVIOUS
  <2>1. i \in 1 .. Len(pattern) \/ i = Len(longer)
    BY <1>2
  <2> QED
    BY <1>1, <1>2, <2>1
<1>5. \A v \in VariableType : VarOK(v) /\ v.end # -1 =>
         v.start \in 0 .. Len(longer) - 1 /\ v.end \in v.start + 1 .. Len(longer)
  BY <1>2 DEF VarOK, VariableType
<1> QED
  BY <1>2, <1>3, <1>4, <1>5 DEF longer

LEMMA OpenType ==
    ASSUME ParserInv, NEW i \in DOMAIN open
    PROVE  /\ open[i] \in [field : Seq(Chars), start : Nat]
           /\ open[i].field \in Seq(Chars) /\ open[i].start \in Nat
           /\ Len(pattern) \in Nat /\ open[i].start <= Len(pattern)
           /\ at = "next" => open[i].start < Len(pattern)
<1>1. open \in Seq([field : Seq(Chars), start : Nat]) /\ Len(pattern) \in Nat
  BY DEF ParserInv, ParserTypes
<1>2. open[i] \in [field : Seq(Chars), start : Nat]
  BY <1>1, Element
<1>3. open[i].start <= Len(pattern) /\ (at = "next" => open[i].start < Len(pattern))
  BY DEF ParserInv, OpenInside
<1> QED
  BY <1>1, <1>2, <1>3

LEMMA SegmentStep == ASSUME ParserInv, NEW t, Template!Segment(t) PROVE ParserInv'
<1>0. at = "segment" /\ ~seenDoubleStar /\ verb \in Seq(Written)
  BY DEF Template!Segment, ParserInv, DoubleStarLast, ParserTypes
<1>1. CASE Template!Rejected
  BY <1>1, RejectedStep
<1>2. CASE at' = "field" /\ UNCHANGED <<seenDoubleStar, pattern, open, found, verb>>
  BY <1>0, <1>2, MovesOn DEF Template!Running
<1>3. CASE /\ t \in Wildcards \/ Template!LiteralOK(t)
           /\ pattern' = Append(pattern, IF t \in Wildcards THEN t ELSE Template!Canonical(t))
           /\ seenDoubleStar' = (seenDoubleStar \/ t = DoubleStar)
           /\ at' = "next"
           /\ UNCHANGED <<open, found, verb>>
  <2> DEFINE w == IF t \in Wildcards THEN t ELSE Template!Canonical(t)
  <2>1. w \in SegmentTexts /\ (w = DoubleStar <=> t = DoubleStar)
    <3>1. DoubleStar \in Wildcards
      BY DEF Wildcards, DoubleStar
    <3>2. t \notin Wildcards => w \in Seq(Written) /\ w # DoubleStar
      BY <1>3, <3>1, LiteralWritten, NoStarWritten
    <3> QED
      BY <3>1, <3>2 DEF SegmentTexts
  <2> HIDE DEF w
  <2>2. pattern' = Append(pattern, w)
    BY <1>3 DEF w
  <2>3. /\ pattern' \in Seq(SegmentTexts) /\ pattern' # <<>>
        /\ Len(pattern') = Len(pattern) + 1 /\ Len(pattern) \in Nat
        /\ pattern'[Len(pattern')] = w
        /\ \A i \in DOMAIN pattern' : pattern'[i] = DoubleStar => w = DoubleStar /\ i = Len(pattern')
        /\ \A v \in VariableType : VarOK(v) /\ v.end # -1 =>
                     v.start \in 0 .. Len(pattern') - 1 /\ v.end \in v.start + 1 .. Len(pattern')
    BY <1>0, <2>1, <2>2, SegmentWritten
  <2>4. ParserTypes'
    BY <1>3, <2>3 DEF ParserInv, ParserTypes, Template!Running
  <2>5. DoubleStarLast'
    BY <1>0, <1>3, <2>1, <2>3 DEF DoubleStarLast
  <2>6. OpenInside'
    <3> SUFFICES ASSUME NEW i \in DOMAIN open
                 PROVE  open[i].start <= Len(pattern') /\ open[i].start < Len(pattern')
      BY <1>3 DEF OpenInside
    <3> QED
      BY <2>3, OpenType
  <2>7. BoundsOK'
    <3> SUFFICES ASSUME NEW i \in DOMAIN found
                 PROVE  VarOK(found[i])' /\ (found[i].end = -1 => seenDoubleStar')
      BY <1>3 DEF BoundsOK
    <3>1. found[i] \in VariableType /\ VarOK(found[i]) /\ found[i].end # -1
      BY <1>0 DEF ParserInv, ParserTypes, BoundsOK
    <3> QED
      BY <1>3, <2>3, <3>1 DEF VarOK
  <2> QED
    BY <2>4, <2>5, <2>6, <2>7 DEF ParserInv
<1> QED
  BY <1>1, <1>2, <1>3, WildcardsIs DEF Template!Segment, DoubleStar


LEMMA FieldStep == ASSUME ParserInv, NEW t, Template!Field(t) PROVE ParserInv'
<1>0. at = "field" /\ ~seenDoubleStar /\ verb \in Seq(Written) /\ Len(pattern) \in Nat
  BY DEF Template!Field, ParserInv, DoubleStarLast, ParserTypes
<1>1. CASE Template!Rejected
  BY <1>1, RejectedStep
<1>2. CASE /\ t \in Words
           /\ open' = Append(open, [field |-> t, start |-> Len(pattern)])
           /\ at' = "assign"
           /\ UNCHANGED <<seenDoubleStar, pattern, found, verb>>
  <2> DEFINE o == [field |-> t, start |-> Len(pattern)]
             T == [field : Seq(Chars), start : Nat]
  <2>1. o \in T /\ open \in Seq(T) /\ o.start = Len(pattern)
    BY <1>0, <1>2, WordType DEF ParserInv, ParserTypes
  <2> HIDE DEF o, T
  <2>2. open' \in Seq(T) /\ \A i \in DOMAIN open' : open'[i] = o \/ (i \in DOMAIN open /\ open'[i] = open[i])
    <3>1. open' = Append(open, o)
      BY <1>2 DEF o
    <3> QED
      BY <2>1, <3>1, Appended
  <2>3. ParserTypes'
    BY <1>2, <2>2 DEF ParserInv, ParserTypes, Template!Running, T
  <2>4. DoubleStarLast'
    BY <1>2, <1>0 DEF ParserInv, DoubleStarLast
  <2>5. OpenInside'
    <3>1. open' # <<>>
      BY <1>2, <2>1, AppendProperties DEF o
    <3> SUFFICES ASSUME NEW i \in DOMAIN open' PROVE open'[i].start <= Len(pattern)
      BY <1>2, <3>1 DEF OpenInside
    <3> QED
      BY <1>0, <2>1, <2>2, OpenType
  <2>6. BoundsOK'
    BY <1>2 DEF ParserInv, BoundsOK, VarOK, Last
  <2> QED
    BY <2>3, <2>4, <2>5, <2>6 DEF ParserInv
<1> QED
  BY <1>1, <1>2 DEF Template!Field

(* Closing the innermost variable over the segments as they are then: those   *)
(* of the pattern, or with the "*" of a variable without one.                 *)
LEMMA CloseStep ==
    ASSUME ParserInv, open # <<>>, NEW segs, Template!Close(segs),
           segs \in Seq(SegmentTexts), segs # <<>>, Len(segs) >= Len(pattern),
           seenDoubleStar => segs[Len(segs)] = DoubleStar,
           \A i \in DOMAIN segs : segs[i] = DoubleStar => seenDoubleStar /\ i = Len(segs),
           \A i \in DOMAIN open : open[i].start < Len(segs)
    PROVE  ParserInv'
<1> DEFINE T == [field : Seq(Chars), start : Nat]
           o == open[Len(open)]
           v == [field |-> o.field, start |-> o.start, end |-> IF seenDoubleStar THEN -1 ELSE Len(segs)]
<1>1. open \in Seq(T) /\ Len(open) \in Nat \ {0} /\ Len(open) \in DOMAIN open /\ Len(segs) \in Nat \ {0}
  <2>1. open \in Seq(T)
    BY DEF ParserInv, ParserTypes
  <2>2. Len(open) # 0 /\ Len(segs) # 0
    BY <2>1, EmptySeq
  <2> QED
    BY <2>1, <2>2
<1>2. v \in VariableType /\ v.start < Len(segs) /\ v.start \in Nat
  <2>1. o.field \in Seq(Chars) /\ o.start \in Nat /\ o.start < Len(segs)
    BY <1>1, OpenType
  <2> HIDE DEF o
  <2> QED
    BY <1>1, <2>1 DEF VariableType
<1>3. /\ found' = Append(found, v) /\ pattern' = segs /\ at' = "next"
      /\ UNCHANGED <<seenDoubleStar, verb>>
  BY DEF Template!Close, Template!End, Last, Template!Last
<1>4. open' \in Seq(T) /\ \A i \in DOMAIN open' : i \in DOMAIN open /\ open'[i] = open[i]
  <2>1. open' = SubSeq(open, 1, Len(open) - 1)
    BY DEF Template!Close, Front, Template!Front
  <2> DEFINE n == Len(open) - 1
  <2>2. n \in Nat /\ \A i \in 1 .. n : i \in DOMAIN open /\ open[i] \in T
    <3>1. \A i \in 1 .. n : i \in 1 .. Len(open)
      BY <1>1
    <3>2. DOMAIN open = 1 .. Len(open) /\ \A i \in DOMAIN open : open[i] \in T
      BY <1>1, Element
    <3>3. n \in Nat
      BY <1>1
    <3> HIDE DEF n, T
    <3> QED
      BY <3>1, <3>2, <3>3
  <2> HIDE DEF n, T
  <2>3. SubSeq(open, 1, n) \in Seq(T) /\ Len(SubSeq(open, 1, n)) = n
        /\ \A i \in 1 .. n : SubSeq(open, 1, n)[i] = open[i]
    BY <2>2, SubSeqProperties
  <2>4. DOMAIN open' = 1 .. n
    BY <2>1, <2>3 DEF n
  <2> QED
    BY <2>1, <2>2, <2>3, <2>4 DEF n
<1> HIDE DEF T, v
<1>5. /\ found' \in Seq(VariableType)
      /\ \A i \in DOMAIN found' : found'[i] = v \/ (i \in DOMAIN found /\ found'[i] = found[i])
  <2>1. found \in Seq(VariableType)
    BY DEF ParserInv, ParserTypes
  <2> QED
    BY <1>2, <1>3, <2>1, Appended
<1>6. ParserTypes'
  BY <1>3, <1>4, <1>5 DEF ParserInv, ParserTypes, Template!Running, T
<1>7. DoubleStarLast'
  BY <1>3 DEF DoubleStarLast
<1>8. OpenInside'
  <2> SUFFICES ASSUME NEW i \in DOMAIN open'
               PROVE  open'[i].start <= Len(segs) /\ open'[i].start < Len(segs)
    BY <1>3 DEF OpenInside
  <2>1. open'[i].start \in Nat /\ open'[i].start < Len(segs)
    BY <1>4, OpenType
  <2> QED
    BY <1>1, <2>1
<1>9. BoundsOK'
  <2> SUFFICES ASSUME NEW i \in DOMAIN found'
               PROVE  /\ VarOK(found[i])'
                      /\ found'[i].end = -1 => seenDoubleStar
    BY <1>3 DEF BoundsOK
  <2> DEFINE w == found'[i]
  <2>1. CASE w = v
    <3>1. w.start \in 0 .. Len(segs) - 1
      BY <1>1, <1>2, <2>1
    <3>2. w.end = IF seenDoubleStar THEN -1 ELSE Len(segs)
      BY <2>1 DEF v
    <3>3. ~seenDoubleStar => w.end \in w.start + 1 .. Len(segs) /\ w.end # -1
      BY <1>1, <1>2, <2>1, <3>2
    <3> HIDE DEF w
    <3> QED
      BY <1>3, <3>1, <3>2, <3>3 DEF VarOK, Last, DoubleStar, w
  <2>2. CASE i \in DOMAIN found /\ w = found[i]
    <3>1. w \in VariableType /\ VarOK(w) /\ (w.end = -1 => seenDoubleStar)
      BY <2>2 DEF ParserInv, ParserTypes, BoundsOK
    <3>2. w.start \in 0 .. Len(segs) - 1 /\ (w.end # -1 => w.end \in w.start + 1 .. Len(segs))
      <4>1. pattern \in Seq(SegmentTexts)
        BY DEF ParserInv, ParserTypes
      <4> QED
        BY <1>1, <3>1, <4>1 DEF VarOK, VariableType
    <3> HIDE DEF w
    <3> QED
      BY <1>3, <3>1, <3>2 DEF VarOK, Last, DoubleStar, w
  <2> QED
    BY <1>5, <2>1, <2>2
<1> QED
  BY <1>6, <1>7, <1>8, <1>9 DEF ParserInv


LEMMA AssignStep == ASSUME ParserInv, NEW t, Template!Assign(t) PROVE ParserInv'
<1>0. at = "assign" /\ ~seenDoubleStar /\ verb \in Seq(Written) /\ open # <<>>
  BY DEF Template!Assign, ParserInv, DoubleStarLast, OpenInside, ParserTypes
<1>1. CASE Template!Rejected
  BY <1>1, RejectedStep
<1>2. CASE at' = "segment" /\ UNCHANGED <<seenDoubleStar, pattern, open, found, verb>>
  BY <1>0, <1>2, MovesOn DEF Template!Running
<1>3. CASE Template!Close(Append(pattern, <<"*">>))
  <2> DEFINE w == <<"*">>
  <2>1. w \in SegmentTexts /\ w # DoubleStar
    BY DEF SegmentTexts, Wildcards, DoubleStar
  <2> HIDE DEF w
  <2> DEFINE segs == Append(pattern, w)
  <2>2. /\ segs \in Seq(SegmentTexts) /\ segs # <<>>
        /\ Len(segs) = Len(pattern) + 1 /\ Len(pattern) \in Nat
        /\ \A i \in DOMAIN segs : segs[i] = DoubleStar => w = DoubleStar /\ i = Len(segs)
    BY <1>0, <2>1, SegmentWritten
  <2>3. Template!Close(segs)
    BY <1>3 DEF w
  <2> HIDE DEF segs
  <2>4. \A i \in DOMAIN open : open[i].start < Len(segs)
    BY <2>2, OpenType
  <2> QED
    BY <1>0, <2>1, <2>2, <2>3, <2>4, CloseStep
<1> QED
  BY <1>1, <1>2, <1>3 DEF Template!Assign

LEMMA AfterSegmentStep == ASSUME ParserInv, NEW t, Template!AfterSegment(t) PROVE ParserInv'
<1>0. at = "next" /\ pattern # <<>> /\ verb \in Seq(Written) /\ pattern \in Seq(SegmentTexts)
  BY DEF Template!AfterSegment, ParserInv, DoubleStarLast, ParserTypes
<1>1. CASE Template!Rejected
  BY <1>1, RejectedStep
<1>2. CASE at' = "segment" /\ ~seenDoubleStar /\ UNCHANGED <<seenDoubleStar, pattern, open, found, verb>>
  BY <1>0, <1>2, MovesOn DEF Template!Running
<1>3. CASE at' = "verb" /\ UNCHANGED <<seenDoubleStar, pattern, open, found, verb>>
  BY <1>0, <1>3, MovesOn DEF Template!Running
<1>4. CASE open # <<>> /\ Template!Close(pattern)
  <2>1. \A i \in DOMAIN open : open[i].start < Len(pattern)
    BY <1>0, OpenType
  <2>2. /\ seenDoubleStar => pattern[Len(pattern)] = DoubleStar
        /\ \A i \in DOMAIN pattern : pattern[i] = DoubleStar => seenDoubleStar /\ i = Len(pattern)
    BY DEF ParserInv, DoubleStarLast
  <2>3. Len(pattern) >= Len(pattern)
    BY <1>0
  <2> QED
    BY <1>0, <1>4, <2>1, <2>2, <2>3, CloseStep
<1> QED
  BY <1>1, <1>2, <1>3, <1>4 DEF Template!AfterSegment


LEMMA ParseStep == ASSUME ParserInv, Template!Parse PROVE ParserInv'
<1>1. ASSUME NEW t, Template!Read(t) PROVE ParserInv'
  <2>1. CASE Template!Trailing(t)
    BY <2>1, RejectedStep DEF Template!Trailing
  <2> QED
    BY <1>1, <2>1, RootStep, SegmentStep, FieldStep, AssignStep, AfterSegmentStep, VerbStep
    DEF Template!Read
<1> QED
  BY <1>1, EOFStep DEF Template!Parse


---------------------------------------------------------------------------
(* The codec's types *)

LEMMA PathEscapes ==
    /\ \A s, mode : Path!Escape(s, mode) = Escape(s, mode)
    /\ \A s, mode : Path!Unescape(s, mode) = Unescape(s, mode)
    /\ \A s, separator : Path!Split(s, separator) = Split(s, separator)
    /\ \A segs : Path!Joined(segs) = Joined(segs)
    /\ \A s : Path!Valid(s) <=> Valid(s)
    /\ \A s : Path!Canonical(s) = Canonical(s)
<1>1. ASSUME NEW s, NEW mode PROVE Path!Escape(s, mode) = Escape(s, mode)
  BY DEF Path!Escape, Escape, Path!IsHexSlash, IsHexSlash, Path!EscapedSlash, EscapedSlash,
         Path!Unreserved, Unreserved, Path!Identifier, Identifier, Path!HexDigits, HexDigits,
         Path!Digits, Digits, Path!Hex, Hex
<1>2. ASSUME NEW s, NEW mode PROVE Path!Unescape(s, mode) = Unescape(s, mode)
  BY DEF Path!Unescape, Unescape, Path!IsHexSlash, IsHexSlash, Path!EscapedSlash, EscapedSlash,
         Path!Hex, Hex, Path!Byte, Byte
<1>3. ASSUME NEW s, NEW separator PROVE Path!Split(s, separator) = Split(s, separator)
  BY DEF Path!Split, Split
<1>4. ASSUME NEW segs PROVE Path!Joined(segs) = Joined(segs)
  BY DEF Path!Joined, Joined, Path!FlattenSeq, FlattenSeq
<1>5. ASSUME NEW s PROVE Path!Valid(s) <=> Valid(s)
  BY DEF Path!Valid, Valid, Path!HexDigits, HexDigits, Path!Digits, Digits
<1>6. ASSUME NEW s PROVE Path!Canonical(s) = Canonical(s)
  BY <1>1, <1>2 DEF Path!Canonical, Canonical
<1> QED
  BY <1>1, <1>2, <1>3, <1>4, <1>5, <1>6

LEMMA SegmentTextsType == SegmentTexts \subseteq Seq(Chars)
<1>1. <<"*">> \in Seq(Chars) /\ DoubleStar \in Seq(Chars)
  BY Alphabet DEF DoubleStar
<1>2. Seq(Written) \subseteq Seq(Chars)
  BY Alphabet, SeqMonotonic
<1> QED
  BY <1>1, <1>2 DEF SegmentTexts, Wildcards, DoubleStar

(* The parts of a variable's value are escaped.                               *)
LEMMA PartsType ==
    ASSUME ParserInv, CodecTypes, Calling, NEW i \in DOMAIN found
    PROVE  /\ target.vars[i] = found[i] /\ found[i] \in VariableType /\ found[i].field \in Scalars
           /\ message[found[i].field] \in Seq(Chars)
           /\ Path!Parts(found[i]) \in Seq(Seq(Written)) /\ Path!Parts(found[i]) # <<>>
<1> DEFINE v == found[i]
           value == message[v.field]
<1>1. target.vars = found /\ message = request /\ v \in VariableType /\ v.field \in Scalars
  <2>1. found \in Seq(VariableType)
    BY DEF ParserInv, ParserTypes
  <2>2. v \in ToSet(found)
    BY DEF ToSet
  <2> QED
    BY <2>1, <2>2, Element DEF CodecTypes, Bindable, Marshalable
<1>2. value \in Seq(Chars)
  BY <1>1 DEF CodecTypes, IsMessage
<1> HIDE DEF v, value
<1>3. ASSUME NEW multi \in BOOLEAN
      PROVE  Path!SplitVar(value, multi) \in Seq(Seq(Written)) /\ Path!SplitVar(value, multi) # <<>>
  <2>1. CASE multi
    <3> DEFINE parts == Split(value, "/")
    <3>1. parts \in Seq(Seq(Chars \ {"/"})) /\ parts # <<>>
      BY <1>2, SplitParts
    <3>2. Len(parts) \in Nat \ {0} /\ DOMAIN parts = 1 .. Len(parts)
      BY <3>1, EmptySeq, Element
    <3> HIDE DEF parts
    <3>3. \A j \in 1 .. Len(parts) : parts[j] \in Seq(Chars)
      BY <3>1, <3>2, Element, SeqMonotonic
    <3>4. \A j \in 1 .. Len(parts) : Escape(parts[j], "multi") \in Seq(Written)
      BY <3>3, EscapeType
    <3>5. Path!SplitVar(value, multi) = [j \in 1 .. Len(parts) |-> Escape(parts[j], "multi")]
      BY <2>1, <3>2, PathEscapes DEF Path!SplitVar, parts
    <3> DEFINE u == [j \in 1 .. Len(parts) |-> Escape(parts[j], "multi")]
    <3>6. u \in Seq(Seq(Written)) /\ Len(u) = Len(parts)
      BY <3>2, <3>4, IsASeq
    <3> HIDE DEF u
    <3>7. u # <<>>
      BY <3>2, <3>6
    <3> QED
      BY <3>5, <3>6, <3>7 DEF u
  <2>2. CASE ~multi
    <3> DEFINE w == Escape(value, "single")
    <3>1. w \in Seq(Written)
      BY <1>2, EscapeType
    <3>2. Path!SplitVar(value, multi) = <<w>>
      BY <2>2, PathEscapes DEF Path!SplitVar
    <3> HIDE DEF w
    <3> QED
      BY <3>1, <3>2
  <2> QED
    BY <2>1, <2>2
<1>4. Path!Parts(v) \in Seq(Seq(Written)) /\ Path!Parts(v) # <<>>
  <2>1. (Path!Size(v) # 1) \in BOOLEAN
    OBVIOUS
  <2>2. Path!Parts(v) = Path!SplitVar(value, Path!Size(v) # 1)
    BY DEF Path!Parts, value
  <2> QED
    BY <1>3, <2>1, <2>2
<1> QED
  BY <1>1, <1>2, <1>4 DEF v, value


(* Writing a variable's parts over the segments.                              *)
LEMMA OverlaidIs ==
    ASSUME ParserInv, CodecTypes, Calling, NEW i \in DOMAIN found
    PROVE  LET v == found[i]
               parts == Path!Parts(v)
               over == Path!Overlaid(v, parts)
           IN  /\ over \in Seq(SegmentTexts)
               /\ Len(over) = IF v.start + Len(parts) > Len(segments) THEN v.start + Len(parts)
                                                                     ELSE Len(segments)
               /\ \A j \in 1 .. Len(over) :
                     over[j] = IF j - v.start \in DOMAIN parts THEN parts[j - v.start] ELSE segments[j]
<1> DEFINE v == found[i]
           parts == Path!Parts(v)
           last == v.start + Len(parts)
           n == IF last > Len(segments) THEN last ELSE Len(segments)
           at_(j) == IF j - v.start \in DOMAIN parts THEN parts[j - v.start] ELSE segments[j]
<1>1. /\ v.start \in Nat /\ v.start < Len(pattern) /\ Len(pattern) \in Nat
      /\ segments \in Seq(SegmentTexts) /\ Len(segments) \in Nat /\ Len(segments) >= Len(pattern)
      /\ DOMAIN segments = 1 .. Len(segments)
  <2>1. v \in VariableType /\ VarOK(v) /\ pattern \in Seq(SegmentTexts)
    BY PartsType DEF ParserInv, BoundsOK, ParserTypes
  <2>2. segments \in Seq(SegmentTexts) /\ Len(segments) >= Len(pattern)
    BY DEF CodecTypes
  <2> HIDE DEF v
  <2> QED
    BY <2>1, <2>2 DEF VarOK, VariableType
<1>2. parts \in Seq(Seq(Written)) /\ Len(parts) \in Nat /\ DOMAIN parts = 1 .. Len(parts)
  BY PartsType, Element
<1>3. Path!Overlaid(v, parts) = [j \in 1 .. n |-> at_(j)]
  BY DEF Path!Overlaid
<1> HIDE DEF v, parts
<1>4. n \in Nat
  BY <1>1, <1>2
<1>5. ASSUME NEW j \in 1 .. n PROVE at_(j) \in SegmentTexts
  <2>1. CASE j - v.start \in DOMAIN parts
    BY <1>2, <2>1, Element DEF SegmentTexts
  <2>2. CASE j - v.start \notin DOMAIN parts
    <3>1. j \in DOMAIN segments
      BY <1>1, <1>2, <2>2
    <3> QED
      BY <1>1, <2>2, <3>1, Element
  <2> QED
    BY <2>1, <2>2
<1> HIDE DEF n, at_
<1>6. LET u == [j \in 1 .. n |-> at_(j)] IN u \in Seq(SegmentTexts) /\ Len(u) = n
  BY <1>4, <1>5, IsASeq
<1> QED
  BY <1>3, <1>6 DEF v, parts, n, at_

LEMMA ReadCodecTypes ==
    ASSUME ParserInv, ParserInv', CodecTypes, ReadTemplate
    PROVE  phase = "idle" /\ CodecTypes'
<1>1. at \in Template!Running
  BY DEF ReadTemplate, Template!Parse, Template!Read, Template!EOF, Template!Root, Template!Segment,
         Template!Field, Template!Assign, Template!AfterSegment, Template!Verb, Template!Trailing,
         Template!Running
<1>2. phase = "idle"
  BY <1>1 DEF CodecTypes, Template!Running
<1>3. Len(found') \in Nat
  BY DEF ParserInv, ParserTypes
<1> QED
  BY <1>2, <1>3 DEF CodecTypes, Calling, ReadTemplate, codec, Populated

LEMMA BindCodecTypes ==
    ASSUME ParserInv, CodecTypes, Bind
    PROVE  CodecTypes'
<1>1. pattern \in Seq(SegmentTexts) /\ found \in Seq(VariableType) /\ Len(found) \in Nat
  BY DEF ParserInv, ParserTypes
<1>2. PICK try \in Requests(input) :
         /\ IsMessage(try.message)
         /\ body' = try.body
         /\ IF Bindable(try.body) /\ Marshalable
            THEN /\ Path!Begin([segments |-> pattern, vars |-> found, verb |-> verb], try.message)
                 /\ request' = try.message
                 /\ pending' = Populated(try.message)
            ELSE /\ phase' = IF Bindable(try.body) THEN "unmarshalable" ELSE "unbound"
                 /\ UNCHANGED <<target, message, segments, k, uri, got, request, pending>>
  BY DEF Bind
<1>3. at = "accepted" /\ phase = "idle" /\ UNCHANGED <<parser, query, payload, decoded, server>>
  BY DEF Bind
<1>4. CASE ~(Bindable(try.body) /\ Marshalable)
  BY <1>1, <1>2, <1>3, <1>4 DEF CodecTypes, Calling, parser, Populated
<1>5. CASE Bindable(try.body) /\ Marshalable
  <2>1. /\ target' = [segments |-> pattern, vars |-> found, verb |-> verb]
        /\ message' = try.message /\ segments' = pattern
        /\ phase' = "encode" /\ UNCHANGED <<k, uri, got>>
        /\ request' = try.message /\ pending' = Populated(try.message)
    BY <1>2, <1>5 DEF Path!Begin
  <2>2. (Bindable(body) /\ Marshalable)' /\ IsMessage(request)'
    BY <1>2, <1>3, <1>5, <2>1 DEF Bindable, Marshalable, IsMessage, parser
  <2>3. k = 1 /\ got = <<>> /\ uri \in Seq(Chars)
    BY <1>3 DEF CodecTypes, Calling
  <2>4. Len(pattern) >= Len(pattern) /\ 1 \in 0 .. Len(found) + 1
    BY <1>1
  <2>5. DOMAIN got \subseteq {found[i].field : i \in DOMAIN found}
    BY DEF CodecTypes
  <2> QED
    BY <1>1, <1>3, <2>1, <2>2, <2>3, <2>4, <2>5 DEF CodecTypes, Calling, parser, Populated
<1> QED
  BY <1>4, <1>5

LEMMA EncodeCodecTypes ==
    ASSUME ParserInv, CodecTypes, EncodePath
    PROVE  CodecTypes'
<1> USE DEF EncodePath, Path!EncodeVariable
<1>1. phase = "encode" /\ Calling /\ k <= Len(target.vars) /\ target.vars = found
      /\ UNCHANGED <<target, message, uri, got, parser, body, request, pending, query, payload, decoded, server>>
  BY DEF CodecTypes, Calling
<1>2. k \in DOMAIN found /\ k + 1 \in 0 .. Len(found) + 1 /\ k + 1 >= 1
  <2>1. found \in Seq(VariableType) /\ k \in 0 .. Len(found) + 1 /\ k >= 1
    BY <1>1 DEF ParserInv, ParserTypes, CodecTypes
  <2> QED
    BY <1>1, <2>1
<1>3. (Bindable(body) /\ Marshalable)' /\ (IsMessage(request))'
  BY <1>1 DEF CodecTypes, Bindable, Marshalable, IsMessage, parser
<1>4. CASE phase' = "refused" /\ UNCHANGED <<segments, k>>
  BY <1>1, <1>3, <1>4 DEF CodecTypes, Calling, parser, Populated
<1>5. CASE /\ segments' = Path!Overlaid(found[k], Path!Parts(found[k]))
           /\ k' = k + 1 /\ UNCHANGED phase
  <2>1. segments' \in Seq(SegmentTexts) /\ Len(segments') >= Len(segments)
    <3>1. /\ Path!Parts(found[k]) \in Seq(Seq(Written))
          /\ found[k] \in VariableType
      BY <1>1, <1>2, PartsType
    <3>2. Len(Path!Parts(found[k])) \in Nat /\ found[k].start \in Nat /\ Len(segments) \in Nat
      BY <3>1, Element DEF VariableType, CodecTypes
    <3> QED
      BY <1>1, <1>2, <1>5, <3>2, OverlaidIs
  <2>2. Len(segments') >= Len(pattern)
    <3>1. Len(segments) >= Len(pattern) /\ Len(segments) \in Nat /\ Len(pattern) \in Nat
      BY <1>1 DEF CodecTypes, ParserInv, ParserTypes
    <3> QED
      BY <2>1, <3>1
  <2> QED
    BY <1>1, <1>2, <1>3, <1>5, <2>1, <2>2 DEF CodecTypes, Calling, parser, Populated
<1> QED
  BY <1>1, <1>4, <1>5


(* The other steps leave the target, the message and the segments alone.      *)
LEMMA CallStays ==
    ASSUME ParserInv, CodecTypes, Calling,
           UNCHANGED <<parser, target, message, segments, body, request>>,
           phase' \in {"encode", "refused", "unencodable", "sent", "notFound", "capture", "failed", "done"},
           uri' \in Seq(Chars), k' \in 0 .. Len(found) + 1,
           phase' = "encode" => k' >= 1, phase' = "capture" => k' <= Len(found),
           pending' \subseteq pending,
           DOMAIN got' \subseteq {found[i].field : i \in DOMAIN found}
    PROVE  CodecTypes'
<1>1. (Bindable(body) /\ Marshalable)' /\ (IsMessage(request))'
  BY DEF CodecTypes, Bindable, Marshalable, IsMessage, parser
<1> QED
  BY <1>1 DEF CodecTypes, Calling, parser, Populated

LEMMA SendCodecTypes == ASSUME ParserInv, CodecTypes, Send PROVE CodecTypes'
<1>1. phase = "encode" /\ Calling /\ target.verb = verb
      /\ uri' = Joined(segments) \o Path!WithVerb /\ phase' = "sent"
      /\ UNCHANGED <<parser, target, message, segments, k, got, body, request, pending>>
  <2>1. /\ phase = "encode" /\ uri' = Path!Joined(segments) \o Path!WithVerb /\ phase' = "sent"
        /\ UNCHANGED <<parser, target, message, segments, k, got, body, request, pending>>
    BY DEF Send, Path!Send
  <2>2. Calling /\ target.verb = verb
    BY <2>1 DEF CodecTypes, Calling
  <2>3. Path!Joined(segments) = Joined(segments)
    BY PathEscapes
  <2> QED
    BY <2>1, <2>2, <2>3
<1>2. Joined(segments) \in Seq(Chars)
  <2>1. segments \in Seq(Seq(Chars))
    BY SegmentTextsType, SeqMonotonic DEF CodecTypes
  <2> QED
    BY <2>1, JoinedType, Alphabet
<1>3. Path!WithVerb \in Seq(Chars)
  <2>1. verb \in Seq(Chars)
    BY SegmentTextsType DEF ParserInv, ParserTypes, SegmentTexts
  <2>2. <<":">> \o verb \in Seq(Chars)
    BY <2>1, ConsType, Alphabet
  <2> QED
    BY <1>1, <2>2 DEF Path!WithVerb
<1>4. uri' \in Seq(Chars)
  BY <1>1, <1>2, <1>3, ConcatProperties
<1>5. k \in 0 .. Len(found) + 1 /\ DOMAIN got \subseteq {found[i].field : i \in DOMAIN found}
  BY DEF CodecTypes
<1> QED
  BY <1>1, <1>4, <1>5, CallStays

LEMMA CaptureCodecTypes == ASSUME ParserInv, CodecTypes, CaptureVariable PROVE CodecTypes'
<1> USE DEF CaptureVariable, Path!CaptureVariable
<1>1. phase = "capture" /\ Calling /\ k > 0 /\ target.vars = found /\ uri \in Seq(Chars)
      /\ UNCHANGED <<parser, target, message, segments, uri, body, request, pending>>
      /\ DOMAIN got \subseteq {found[i].field : i \in DOMAIN found}
  BY DEF CodecTypes, Calling
<1>2. k \in 0 .. Len(found) + 1 /\ k <= Len(found) /\ Len(found) \in Nat /\ k \in DOMAIN found
  BY <1>1 DEF CodecTypes, ParserInv, ParserTypes
<1>3. CASE phase' = "failed" /\ UNCHANGED <<got, k>>
  BY <1>1, <1>2, <1>3, CallStays
<1>4. CASE DOMAIN got' = DOMAIN got \cup {found[k].field} /\ k' = k - 1 /\ UNCHANGED phase
  <2>1. DOMAIN got' \subseteq {found[i].field : i \in DOMAIN found}
    BY <1>1, <1>2, <1>4
  <2>2. k' \in 0 .. Len(found) + 1 /\ k' <= Len(found)
    BY <1>1, <1>2, <1>4
  <2> QED
    BY <1>1, <1>4, <2>1, <2>2, CallStays
<1> QED
  BY <1>1, <1>3, <1>4

LEMMA CodecTypesInit == Init => ParserInv /\ CodecTypes
<1> SUFFICES ASSUME Init PROVE ParserInv /\ CodecTypes
  OBVIOUS
<1> USE DEF Init, Template!Init, Path!Init
<1>1. ParserTypes
  <2>1. <<>> \in Seq(SegmentTexts) /\ <<>> \in Seq(Written) /\ <<>> \in Seq(VariableType)
        /\ <<>> \in Seq([field : Seq(Chars), start : Nat])
    OBVIOUS
  <2> QED
    BY <2>1 DEF ParserTypes, Template!Running
<1>2. DoubleStarLast /\ OpenInside /\ BoundsOK
  <2>1. DOMAIN <<>> = {}
    OBVIOUS
  <2> QED
    BY <2>1 DEF DoubleStarLast, OpenInside, BoundsOK
<1>3. CodecTypes
  <2>1. <<>> \in Seq(SegmentTexts) /\ <<>> \in Seq(Chars) /\ DOMAIN <<>> = {} /\ Len(<<>>) = 0
    OBVIOUS
  <2> QED
    BY <2>1 DEF CodecTypes, Calling
<1> QED
  BY <1>1, <1>2, <1>3 DEF ParserInv

LEMMA TypesStep == ASSUME ParserInv, CodecTypes, [Next]_vars PROVE (ParserInv /\ CodecTypes)'
<1>1. CASE ReadTemplate
  <2>1. ParserInv'
    BY <1>1, ParseStep DEF ReadTemplate
  <2> QED
    BY <1>1, <2>1, ReadCodecTypes
<1>2. CASE UNCHANGED parser
  <2>1. ParserInv'
    BY <1>2 DEF parser, ParserInv, ParserTypes, DoubleStarLast, OpenInside, BoundsOK, VarOK, Last
  <2>2. /\ Len(found) \in Nat /\ k \in 0 .. Len(found) + 1 /\ uri \in Seq(Chars)
        /\ phase = "encode" => k >= 1
        /\ phase = "capture" => k <= Len(found)
        /\ DOMAIN got \subseteq {found[i].field : i \in DOMAIN found}
    BY DEF CodecTypes, ParserInv, ParserTypes
  <2>3. CASE Bind
    BY <2>1, <2>3, BindCodecTypes
  <2>4. CASE EncodePath
    BY <2>1, <2>4, EncodeCodecTypes
  <2>5. CASE \E field \in Fields : EncodeField(field)
    BY <1>2, <2>1, <2>2, <2>5, CallStays DEF EncodeField, PathWritten, Calling
  <2>6. CASE Send
    BY <2>1, <2>6, SendCodecTypes
  <2>7. CASE Match
    <3>1. Calling /\ target.vars = found
      BY <2>7 DEF Match, Path!Match, CodecTypes, Calling
    <3>2. Len(found) \in 0 .. Len(found) + 1 /\ Len(found) <= Len(found)
      BY <2>2
    <3> QED
      BY <1>2, <2>1, <2>2, <2>7, <3>1, <3>2, CallStays DEF Match, Path!Match
  <2>8. CASE DecodeBody
    BY <1>2, <2>1, <2>2, <2>8, CallStays DEF DecodeBody, codec, Calling
  <2>9. CASE CaptureVariable
    BY <2>1, <2>9, CaptureCodecTypes
  <2>10. CASE \E field \in Fields : DecodeParameter(field)
    BY <1>2, <2>1, <2>2, <2>10, CallStays DEF DecodeParameter, codec, Calling
  <2>11. CASE Delivered
    BY <1>2, <2>1, <2>2, <2>11, CallStays DEF Delivered, Path!CaptureDone, Calling
  <2>12. CASE Decided \/ UNCHANGED vars
    BY <2>1, <2>12 DEF Decided, vars, parser, codec, CodecTypes, Calling, Bindable, Marshalable, IsMessage, Populated
  <2> QED
    BY <1>1, <2>3, <2>4, <2>5, <2>6, <2>7, <2>8, <2>9, <2>10, <2>11, <2>12, <2>1, ReadCodecTypes DEF Next
<1> QED
  BY <1>1, <1>2 DEF Next, Bind, EncodePath, EncodeField, Send, Match, DecodeBody, CaptureVariable,
     DecodeParameter, Delivered, Decided, codec, vars


---------------------------------------------------------------------------
(* The division of the message *)

(* A field of the path is one whose count is not zero.                        *)
LEMMA UsesAre ==
    ASSUME ParserInv, CodecTypes, Calling, NEW field
    PROVE  Uses(field) \in Nat /\ (Uses(field) = 0 <=> ~InPath(field)) /\ (InPath(field) => field \in Scalars)
<1> DEFINE S == {i \in DOMAIN target.vars : target.vars[i].field = field}
<1>1. target.vars = found /\ found \in Seq(VariableType)
  BY DEF CodecTypes, ParserInv, ParserTypes
<1>2. IsFiniteSet(S)
  <2>1. DOMAIN target.vars = 1 .. Len(found) /\ Len(found) \in Nat
    BY <1>1, Element
  <2>2. IsFiniteSet(1 .. Len(found))
    BY <2>1, FS_Interval
  <2> QED
    BY <2>1, <2>2, FS_Subset
<1>3. Cardinality(S) \in Nat /\ (Cardinality(S) = 0 <=> S = {})
  BY <1>2, FS_CardinalityType, FS_EmptySet
<1>4. S = {} <=> ~InPath(field)
  BY DEF InPath, ToSet
<1>5. InPath(field) => field \in Scalars
  BY <1>1, PartsType DEF InPath, ToSet
<1> QED
  BY <1>3, <1>4, <1>5 DEF Uses


LEMMA FieldNames ==
    /\ g # l /\ g # fg /\ g # fl /\ g # r /\ g # f
    /\ l # fg /\ l # fl /\ l # r /\ l # f
    /\ fg # fl /\ fg # r /\ fg # f /\ fl # r /\ fl # f /\ r # f
    /\ Whole \notin {g, l, fg, fl, r, f, <<>>} /\ <<>> \notin {g, l, fg, fl, r, f}
<1>1. g[1] = "g" /\ l[1] = "l" /\ r[1] = "r" /\ f[1] = "f" /\ Whole[1] = "*" /\ fg[3] = "g" /\ fl[3] = "l"
      /\ fg[1] = "f" /\ fl[1] = "f"
  BY DEF g, l, r, f, fg, fl, Whole
<1>2. Len(g) = 1 /\ Len(l) = 1 /\ Len(r) = 1 /\ Len(f) = 1 /\ Len(Whole) = 1 /\ Len(fg) = 3 /\ Len(fl) = 3
      /\ Len(<<>>) = 0
  BY DEF g, l, r, f, fg, fl, Whole
<1> QED
  BY <1>1, <1>2

(* What a field adds to the query: nothing if the path or the body takes it,  *)
(* and all of it otherwise.                                                   *)
LEMMA AskedIs ==
    ASSUME ParserInv, CodecTypes, Calling, NEW field \in Fields,
           body # Whole /\ request[r] # <<>> => body = r
    PROVE  /\ InPath(field) => Asked(field) = <<>>
           /\ ~InPath(field) /\ Selected(field) => Asked(field) = <<>>
           /\ ~InPath(field) /\ ~Selected(field) /\ field \in Lists => Asked(field) = request[field]
           /\ ~InPath(field) /\ ~Selected(field) /\ field \in Scalars =>
                 Asked(field) = IF request[field] = <<>> THEN <<>> ELSE <<request[field]>>
           /\ field = r => ~InPath(r) /\ (~Selected(r) => request[r] = <<>>)
<1>1. \A h : Uses(h) \in Nat /\ (Uses(h) = 0 <=> ~InPath(h)) /\ (InPath(h) => h \in Scalars)
  BY UsesAre
<1>2. field \notin {r} \cup Lists => field \in Scalars
  BY DEF Fields
<1>3. field \in Lists \cup {r} => field \notin Scalars
  BY FieldNames DEF Lists, Scalars
<1>4. field \in Lists => request[field] \in Seq(Seq(Chars))
  BY <1>3 DEF CodecTypes, IsMessage
<1>5. field \in Within(field)
  BY DEF Within
<1>6. f \notin Scalars /\ f \notin Fields
  BY FieldNames DEF Scalars, Fields, Lists
<1>7. CASE InPath(field)
  <2>1. field \in Scalars /\ Count(field) # 0 /\ field \notin Lists
    BY <1>1, <1>3, <1>7, -1 # 0 DEF Count
  <2> QED
    BY <1>3, <1>7, <2>1 DEF Asked, Rest
<1>8. CASE ~InPath(field) /\ Selected(field)
  <2>1. CASE body = Whole
    BY <1>3, <1>1, <1>8, <2>1 DEF Asked, Selected
  <2>2. CASE body = field
    <3>1. Count(field) = -1
      BY <2>2 DEF Count
    <3> QED
      BY <1>1, <1>3, <1>8, <2>2, <3>1, -1 < 0 DEF Asked, Rest
  <2>3. CASE body \in Within(field) \ {field}
    <3>1. Count(body) = -1 /\ -1 # 0
      BY DEF Count
    <3>2. ~Reached(field)
      BY <2>3, <3>1 DEF Reached
    <3> QED
      BY <1>1, <1>3, <1>8, <3>2, FieldNames, <2>3 DEF Asked, Rest, Within
  <2> QED
    BY <1>8, <2>1, <2>2, <2>3 DEF Selected
<1>9. CASE ~InPath(field) /\ ~Selected(field)
  <2>1. body # Whole /\ body \notin Within(field) /\ body # field
    BY <1>5, <1>9 DEF Selected
  <2>2. Count(field) = 0
    BY <1>1, <1>9, <2>1 DEF Count
  <2>3. Reached(field)
    <3> SUFFICES ASSUME NEW outer \in Within(field) \ {field} PROVE Count(outer) = 0
      BY DEF Reached
    <3>1. outer = f
      BY DEF Within
    <3>2. body # f /\ Uses(f) = 0
      BY <1>1, <1>6, <2>1, <3>1
    <3> QED
      BY <3>1, <3>2 DEF Count
  <2>4. field \in Lists => Rest(field) = request[field]
    <3> SUFFICES ASSUME field \in Lists PROVE Rest(field) = request[field]
      OBVIOUS
    <3>1. Rest(field) = SubSeq(request[field], 0 + 1, Len(request[field]))
      BY <2>2, <2>3 DEF Rest
    <3>2. SubSeq(request[field], 1, Len(request[field])) = request[field]
      BY <1>4, SubSeqFull
    <3> QED
      BY <3>1, <3>2
  <2>5. field \notin Lists => Rest(field) = <<request[field]>>
    BY <2>2, <2>3 DEF Rest
  <2>6. field = r => request[r] = <<>>
    BY <2>1
  <2> QED
    BY <1>1, <1>3, <1>9, <2>1, <2>4, <2>5, <2>6 DEF Asked
<1> QED
  BY <1>1, <1>3, <1>7, <1>8, <1>9


LEMMA DivisionStays ==
    ASSUME UNCHANGED <<body, request, target>>
    PROVE  /\ \A field : Asked(field)' = Asked(field) /\ (Selected(field)' <=> Selected(field))
           /\ \A field : InPath(field)' <=> InPath(field)
BY DEF Asked, Rest, Reached, Count, Uses, Selected, InPath

LEMMA DivisionInit == Init => Division
<1> SUFFICES ASSUME Init PROVE Division
  OBVIOUS
<1>1. /\ phase = "idle" /\ query = Nothing /\ server = Nothing /\ got = <<>> /\ decoded = FALSE
  BY DEF Init, Path!Init
<1> QED
  BY <1>1 DEF Division, Calling

LEMMA ReadDivision == ASSUME Division, phase = "idle", ReadTemplate PROVE Division'
BY DEF Division, Calling, ReadTemplate, codec

LEMMA BindDivision == ASSUME ParserInv, CodecTypes, Division, Bind PROVE Division'
<1>1. PICK try \in Requests(input) :
         /\ IsMessage(try.message)
         /\ body' = try.body
         /\ IF Bindable(try.body) /\ Marshalable
            THEN /\ Path!Begin([segments |-> pattern, vars |-> found, verb |-> verb], try.message)
                 /\ request' = try.message
                 /\ pending' = Populated(try.message)
            ELSE /\ phase' = IF Bindable(try.body) THEN "unmarshalable" ELSE "unbound"
                 /\ UNCHANGED <<target, message, segments, k, uri, got, request, pending>>
  BY DEF Bind
<1>2. phase = "idle" /\ UNCHANGED <<parser, query, payload, decoded, server>>
  BY DEF Bind
<1>3. ~decoded /\ query = Nothing /\ server = Nothing /\ got = <<>>
  BY <1>2 DEF Division, Calling
<1>4. CASE ~(Bindable(try.body) /\ Marshalable)
  BY <1>1, <1>2, <1>3, <1>4 DEF Division, Calling
<1>5. CASE Bindable(try.body) /\ Marshalable
  <2>1. phase' = "encode" /\ UNCHANGED got /\ request' = try.message /\ pending' = Populated(request')
    BY <1>1, <1>5 DEF Path!Begin
  <2>2. \A field \in Fields : field \notin pending' => (Asked(field))' = <<>>
    BY <2>1 DEF Asked, Populated
  <2>3. query' = [field \in Fields |-> IF field \in pending' THEN <<>> ELSE (Asked(field))']
    BY <1>2, <1>3, <2>2 DEF Nothing
  <2>4. request'[r] # <<>> => r \in pending'
    BY <2>1 DEF Populated, Fields
  <2> QED
    BY <1>2, <1>3, <2>1, <2>3, <2>4 DEF Division, Calling
<1> QED
  BY <1>4, <1>5

LEMMA EncodeDivision == ASSUME CodecTypes, Division, EncodePath PROVE Division'
<1>1. /\ phase = "encode" /\ phase' \in {"encode", "refused"}
      /\ UNCHANGED <<target, got, body, request, pending, query, payload, decoded, server>>
  BY DEF EncodePath, Path!EncodeVariable
<1>2. ~decoded
  BY <1>1 DEF Division
<1> QED
  BY <1>1, <1>2, DivisionStays DEF Division, Calling

LEMMA FieldDivision ==
    ASSUME ParserInv, CodecTypes, Division, NEW field \in Fields, EncodeField(field) PROVE Division'
<1>1. /\ phase = "encode" /\ body # Whole /\ field \in pending /\ pending' = pending \ {field}
      /\ UNCHANGED <<target, k, got, body, request, payload, decoded, server, found>>
      /\ IF field = r /\ Count(r) = 0
         THEN phase' = "unencodable" /\ UNCHANGED query
         ELSE query' = [query EXCEPT ![field] = Rest(field)] /\ UNCHANGED phase
  BY DEF EncodeField, PathWritten, parser
<1>2. ~decoded /\ Calling
  BY <1>1 DEF Division, Calling
<1>3. request[field] # <<>>
  BY <1>1 DEF CodecTypes, Populated
<1>4. Count(r) = 0 <=> body # r
  <2>1. r \notin Scalars
    BY FieldNames DEF Scalars
  <2>2. Uses(r) = 0
    BY <1>2, <2>1, UsesAre
  <2> QED
    BY <2>2, -1 # 0 DEF Count
<1>5. CASE field = r /\ Count(r) = 0
  <2>1. ~Selected(r)
    BY <1>1, <1>4, <1>5, FieldNames DEF Selected, Within
  <2> QED
    BY <1>1, <1>2, <1>3, <1>5, <2>1, DivisionStays DEF Division, Calling
<1>6. CASE ~(field = r /\ Count(r) = 0)
  <2>1. Asked(field) = Rest(field)
    BY <1>1, <1>3 DEF Asked
  <2>2. query = [h \in Fields |-> IF h \in pending THEN <<>> ELSE Asked(h)]
    BY <1>1, <1>2 DEF Division
  <2>3. query' = [h \in Fields |-> IF h \in pending' THEN <<>> ELSE Asked(h)]
    BY <1>1, <1>6, <2>1, <2>2
  <2>4. request[r] # <<>> => r \in pending' \/ body = r
    BY <1>1, <1>2, <1>4, <1>6 DEF Division
  <2> QED
    BY <1>1, <1>2, <1>6, <2>3, <2>4, DivisionStays DEF Division, Calling
<1> QED
  BY <1>5, <1>6

LEMMA SendDivision == ASSUME CodecTypes, Division, Send PROVE Division'
<1>1. /\ phase = "encode" /\ phase' = "sent" /\ (body = Whole \/ pending = {})
      /\ UNCHANGED <<target, k, got, body, request, pending, query, decoded, server, found>>
      /\ payload' = [field \in Fields |-> IF Selected(field) THEN request[field] ELSE <<>>]
  BY DEF Send, Path!Send, PathWritten, parser
<1>2. ~decoded
  BY <1>1 DEF Division
<1> QED
  BY <1>1, <1>2, DivisionStays DEF Division, Calling

LEMMA MatchDivision == ASSUME CodecTypes, Division, Match PROVE Division'
<1>1. /\ phase = "sent" /\ phase' \in {"capture", "notFound"} /\ k' = Len(target.vars)
      /\ UNCHANGED <<target, got, body, request, pending, query, payload, decoded, server, found>>
  BY DEF Match, Path!Match, parser
<1>2. ~decoded /\ target.vars = found
  BY <1>1 DEF Division, CodecTypes, Calling
<1> QED
  BY <1>1, <1>2, DivisionStays DEF Division, Calling


LEMMA BodyDivision == ASSUME ParserInv, CodecTypes, Division, DecodeBody PROVE Division'
<1>1. /\ phase = "capture" /\ ~decoded /\ decoded' = TRUE /\ server' = payload
      /\ UNCHANGED <<target, k, got, phase, body, request, pending, query, payload, found>>
  BY DEF DecodeBody, codec, parser
<1>2. /\ Calling /\ got = <<>> /\ k = Len(found) /\ (body = Whole \/ pending = {})
      /\ query = [field \in Fields |-> IF field \in pending THEN <<>> ELSE Asked(field)]
      /\ payload = [field \in Fields |-> IF Selected(field) THEN request[field] ELSE <<>>]
      /\ body # Whole /\ request[r] # <<>> => body = r
  BY <1>1 DEF Division, Calling
<1>3. ASSUME NEW field \in Fields
      PROVE  IF InPath(field) THEN query[field] = <<>> /\ field \notin DOMAIN got
                              ELSE Accounted(field)'
  <2>1. /\ InPath(field) => Asked(field) = <<>>
        /\ ~InPath(field) /\ Selected(field) => Asked(field) = <<>>
        /\ ~InPath(field) /\ ~Selected(field) /\ field \in Lists => Asked(field) = request[field]
        /\ ~InPath(field) /\ ~Selected(field) /\ field \in Scalars =>
              Asked(field) = IF request[field] = <<>> THEN <<>> ELSE <<request[field]>>
        /\ field = r => ~InPath(r) /\ (~Selected(r) => request[r] = <<>>)
    BY <1>2, AskedIs
  <2>2. query[field] = Asked(field)
    BY <1>2 DEF Asked
  <2>3. server'[field] = IF Selected(field) THEN request[field] ELSE <<>>
    BY <1>1, <1>2
  <2>4. field \in Lists \/ field \in Scalars \/ field = r
    BY DEF Fields
  <2>5. field \in Lists => field \notin Scalars /\ request[field] \in Seq(Seq(Chars))
    <3>1. field \in Lists => field \notin Scalars
      BY FieldNames DEF Lists, Scalars
    <3> QED
      BY <1>2, <3>1 DEF CodecTypes, IsMessage
  <2>6. CASE InPath(field)
    BY <1>2, <2>1, <2>2, <2>6
  <2>7. CASE ~InPath(field) /\ field \in Lists
    <3>1. <<>> \in Seq(Seq(Chars)) /\ request[field] \o <<>> = request[field]
          /\ <<>> \o request[field] = request[field]
      BY <2>5, <2>7, ConcatEmptySeq
    <3> QED
      BY <1>1, <2>1, <2>2, <2>3, <2>5, <2>7, <3>1 DEF Accounted
  <2>8. CASE ~InPath(field) /\ field \notin Lists
    <3>1. CASE field = r
      <4>1. query[r] = <<>> /\ server'[r] = request[r]
        BY <2>1, <2>2, <2>3, <3>1 DEF Asked
      <4> QED
        BY <1>1, <2>8, <3>1, <4>1 DEF Accounted
    <3>2. CASE field \in Scalars
      <4>1. \/ query[field] = <<>> /\ server'[field] = request[field]
            \/ query[field] = <<request[field]>>
        BY <2>1, <2>2, <2>3, <2>8, <3>2
      <4> QED
        BY <1>1, <2>8, <3>2, <4>1 DEF Accounted
    <3> QED
      BY <2>4, <2>8, <3>1, <3>2
  <2> QED
    BY <2>6, <2>7, <2>8
<1>4. DOMAIN got = {found[i].field : i \in k + 1 .. Len(found)}
  <2>1. Len(found) \in Nat
    BY DEF ParserInv, ParserTypes
  <2>2. k + 1 .. Len(found) = {} /\ DOMAIN got = {}
    BY <1>2, <2>1
  <2> QED
    BY <2>2
<1>5. /\ server' = [field \in Fields |-> server'[field]]
      /\ query = [field \in Fields |-> query[field]]
  BY <1>1, <1>2
<1> QED
  BY <1>1, <1>2, <1>3, <1>4, <1>5, DivisionStays DEF Division, Calling

LEMMA CaptureDivision == ASSUME ParserInv, CodecTypes, Division, CaptureVariable PROVE Division'
<1>1. /\ phase = "capture" /\ decoded /\ k > 0 /\ target.vars = found
      /\ UNCHANGED <<target, body, request, pending, query, payload, decoded, found>>
      /\ server' = [field \in Fields |-> IF field \in DOMAIN got' THEN got'[field] ELSE server[field]]
  BY DEF CaptureVariable, Path!CaptureVariable, CodecTypes, Calling, parser
<1>2. /\ server = [field \in Fields |-> server[field]]
      /\ query = [field \in Fields |-> query[field]]
      /\ DOMAIN got = {found[i].field : i \in k + 1 .. Len(found)}
      /\ \A field \in Fields :
            IF InPath(field)
            THEN query[field] = <<>> /\ (field \in DOMAIN got => server[field] = got[field])
            ELSE Accounted(field)
      /\ Calling /\ (body # Whole /\ request[r] # <<>> => r \in pending \/ body = r)
      /\ body = Whole \/ pending = {}
  BY <1>1 DEF Division, Calling
<1>3. k \in DOMAIN found /\ Len(found) \in Nat /\ k \in Nat /\ DOMAIN found = 1 .. Len(found)
  BY <1>1 DEF CodecTypes, ParserInv, ParserTypes
<1>4. CASE phase' = "failed"
  BY <1>1, <1>2, <1>4, DivisionStays DEF Division, Calling
<1>5. CASE DOMAIN got' = DOMAIN got \cup {found[k].field} /\ k' = k - 1 /\ UNCHANGED phase
  <2>1. DOMAIN got' = {found[i].field : i \in k' + 1 .. Len(found)}
    <3>1. k' + 1 .. Len(found) = {k} \cup (k + 1 .. Len(found))
      BY <1>3, <1>5
    <3> QED
      BY <1>2, <1>5, <3>1
  <2>2. \A field \in DOMAIN got' : InPath(field)
    <3> SUFFICES ASSUME NEW i \in k' + 1 .. Len(found) PROVE InPath(found[i].field)
      BY <2>1
    <3>1. i \in DOMAIN found
      BY <1>3, <1>5
    <3> QED
      BY <1>1, <3>1 DEF InPath, ToSet
  <2>3. ASSUME NEW field \in Fields
        PROVE  IF InPath(field)
               THEN query'[field] = <<>> /\ (field \in DOMAIN got' => server'[field] = got'[field])
               ELSE Accounted(field)'
    <3>1. field \in DOMAIN got' => server'[field] = got'[field]
      BY <1>1
    <3>2. ~InPath(field) => server'[field] = server[field]
      BY <1>1, <2>2
    <3> QED
      BY <1>1, <1>2, <3>1, <3>2 DEF Accounted
  <2>4. server' = [field \in Fields |-> server'[field]]
    BY <1>1
  <2>5. \A field \in Fields :
           IF InPath(field)'
           THEN query'[field] = <<>> /\ (field \in DOMAIN got' => server'[field] = got'[field])
           ELSE Accounted(field)'
    BY <1>1, <2>3, DivisionStays
  <2>6. phase' = "capture" /\ decoded' /\ query' = [field \in Fields |-> query'[field]]
    BY <1>1, <1>2, <1>5
  <2> QED
    BY <1>1, <1>2, <2>1, <2>4, <2>5, <2>6 DEF Division, Calling
<1> QED
  BY <1>1, <1>4, <1>5 DEF CaptureVariable, Path!CaptureVariable

LEMMA ParameterDivision ==
    ASSUME ParserInv, CodecTypes, Division, NEW field \in Fields, DecodeParameter(field) PROVE Division'
<1>1. /\ phase = "capture" /\ decoded /\ k = 0 /\ query[field] # <<>>
      /\ server' = SetParameter(field, Head(query[field]))
      /\ query' = [query EXCEPT ![field] = Tail(@)]
      /\ UNCHANGED <<target, k, got, phase, body, request, pending, payload, decoded, found>>
  BY DEF DecodeParameter, codec, parser
<1>2. /\ server = [h \in Fields |-> server[h]]
      /\ query = [h \in Fields |-> query[h]]
      /\ DOMAIN got = {found[i].field : i \in k + 1 .. Len(found)}
      /\ \A h \in Fields :
            IF InPath(h) THEN query[h] = <<>> /\ (h \in DOMAIN got => server[h] = got[h])
                         ELSE Accounted(h)
      /\ Calling /\ (body # Whole /\ request[r] # <<>> => r \in pending \/ body = r)
      /\ body = Whole \/ pending = {}
  BY <1>1 DEF Division, Calling
<1>3. ~InPath(field) /\ Accounted(field)
  BY <1>1, <1>2
<1>4. /\ \A h \in Fields : h # field => server'[h] = server[h] /\ query'[h] = query[h]
      /\ server'[field] = IF field \in Lists THEN Append(server[field], Head(query[field]))
                                             ELSE Head(query[field])
      /\ query'[field] = Tail(query[field])
      /\ server' = [h \in Fields |-> server'[h]] /\ query' = [h \in Fields |-> query'[h]]
  BY <1>1, <1>2 DEF SetParameter
<1>5. Accounted(field)'
  <2>1. CASE field \in Lists
    <3> DEFINE have == server[field]
               rest == query[field]
    <3>1. have \in Seq(Seq(Chars)) /\ rest \in Seq(Seq(Chars)) /\ rest # <<>> /\ have \o rest = request[field]
      BY <1>1, <1>3, <2>1 DEF Accounted
    <3> HIDE DEF have, rest
    <3>2. /\ Head(rest) \in Seq(Chars) /\ Tail(rest) \in Seq(Seq(Chars)) /\ Head(rest) = rest[1]
          /\ rest = <<Head(rest)>> \o Tail(rest)
      BY <3>1, HeadTailProperties, Uncons
    <3>3. <<Head(rest)>> \in Seq(Seq(Chars))
      BY <3>2
    <3>4. Append(have, Head(rest)) = have \o <<Head(rest)>> /\ Append(have, Head(rest)) \in Seq(Seq(Chars))
      BY <3>1, <3>2, AppendIsConcat, AppendProperties
    <3>5. (have \o <<Head(rest)>>) \o Tail(rest) = have \o (<<Head(rest)>> \o Tail(rest))
      BY <3>1, <3>2, <3>3, ConcatAssociative
    <3>6. server'[field] = Append(have, Head(rest)) /\ query'[field] = Tail(rest)
      BY <1>4, <2>1 DEF have, rest
    <3> QED
      BY <1>1, <2>1, <3>1, <3>2, <3>4, <3>5, <3>6 DEF Accounted
  <2>2. CASE field \notin Lists
    <3>1. query[field] = <<request[field]>>
      BY <1>1, <1>3, <2>2 DEF Accounted
    <3>2. server'[field] = request[field] /\ query'[field] = <<>>
      BY <1>4, <2>2, <3>1
    <3> QED
      BY <1>1, <2>2, <3>2 DEF Accounted
  <2> QED
    BY <2>1, <2>2
<1>6. ASSUME NEW h \in Fields
      PROVE  IF InPath(h) THEN query'[h] = <<>> /\ (h \in DOMAIN got => server'[h] = got[h])
                          ELSE Accounted(h)'
  <2>1. CASE h = field
    BY <1>3, <1>5, <2>1
  <2>2. CASE h # field
    BY <1>1, <1>2, <1>4, <2>2 DEF Accounted
  <2> QED
    BY <2>1, <2>2
<1> QED
  BY <1>1, <1>2, <1>4, <1>6, DivisionStays DEF Division, Calling


LEMMA DivisionStep == ASSUME ParserInv, CodecTypes, Division, [Next]_vars PROVE Division'
<1>1. CASE ReadTemplate
  <2>1. ParserInv' /\ phase = "idle"
    BY <1>1, ParseStep, ReadCodecTypes DEF ReadTemplate
  <2> QED
    BY <1>1, <2>1, ReadDivision
<1>2. CASE \E field \in Fields : EncodeField(field) \/ DecodeParameter(field)
  BY <1>2, FieldDivision, ParameterDivision
<1>3. CASE Delivered
  <2>1. /\ phase = "capture" /\ phase' = "done" /\ k = 0 /\ decoded /\ query = Nothing
        /\ UNCHANGED <<target, k, got, body, request, pending, query, payload, decoded, server, found>>
    BY <1>3 DEF Delivered, Path!CaptureDone, parser
  <2>2. /\ server = [h \in Fields |-> server[h]]
        /\ query = [h \in Fields |-> query[h]]
        /\ DOMAIN got = {found[i].field : i \in k + 1 .. Len(found)}
        /\ \A h \in Fields :
              IF InPath(h) THEN query[h] = <<>> /\ (h \in DOMAIN got => server[h] = got[h])
                           ELSE Accounted(h)
        /\ Calling /\ (body # Whole /\ request[r] # <<>> => r \in pending \/ body = r)
    BY <2>1 DEF Division, Calling
  <2>3. \A h \in Fields :
           IF InPath(h)' THEN query'[h] = <<>> /\ (h \in DOMAIN got' => server'[h] = got'[h])
                         ELSE Accounted(h)'
    BY <2>1, <2>2, DivisionStays DEF Accounted
  <2> QED
    BY <2>1, <2>2, <2>3 DEF Division, Calling
<1>4. CASE Decided \/ UNCHANGED vars
  <2>1. UNCHANGED <<target, k, got, phase, body, request, pending, query, payload, decoded, server, found>>
    BY <1>4 DEF Decided, vars, parser, codec
  <2>2. \A h : (Accounted(h)' <=> Accounted(h)) /\ (InPath(h)' <=> InPath(h))
    BY <2>1 DEF Accounted, InPath
  <2> QED
    BY <2>1, <2>2, DivisionStays DEF Division, Calling
<1> QED
  BY <1>1, <1>2, <1>3, <1>4, BindDivision, EncodeDivision, SendDivision, MatchDivision, BodyDivision,
     CaptureDivision DEF Next

(* The inductive invariant of the request codec.                              *)
THEOREM Invariance == Spec => []IInv
<1>1. Init => IInv
  BY CodecTypesInit, DivisionInit DEF IInv
<1>2. IInv /\ [Next]_vars => IInv'
  BY TypesStep, DivisionStep DEF IInv
<1> QED
  BY <1>1, <1>2, PTL DEF Spec

(* Whatever is read, bound, sent and captured is well typed: the bounds of    *)
(* the variables lie inside their template and the segments of a path under   *)
(* construction are escaped (parsePathTemplate, httpEncodePathValues).        *)
THEOREM TypeCorrect == Spec => []TypeOK
<1>1. ASSUME IInv PROVE TypeOK
  <2>1. ParserInv /\ CodecTypes /\ Division
    BY <1>1 DEF IInv
  <2>2. found \in Seq(VariableType) /\ Len(found) \in Nat
    BY <2>1 DEF ParserInv, ParserTypes
  <2>3. \A v \in ToSet(found) : VarOK(v)
    BY <2>1 DEF ToSet, ParserInv, BoundsOK
  <2>4. \A s \in ToSet(segments) : s \in Wildcards \/ s \in Seq(Chars \ {"/", ":", "*"})
    <3> SUFFICES ASSUME NEW i \in DOMAIN segments, segments[i] \notin Wildcards
                 PROVE  segments[i] \in Seq(Chars \ {"/", ":", "*"})
      BY DEF ToSet
    <3>1. segments[i] \in Seq(Written)
      BY <2>1, Element DEF CodecTypes, SegmentTexts
    <3>2. Written \subseteq Chars \ {"/", ":", "*"}
      BY Alphabet
    <3> QED
      BY <3>1, <3>2, SeqMonotonic
  <2>5. DOMAIN got \subseteq {v.field : v \in ToSet(found)}
    BY <2>1 DEF CodecTypes, ToSet
  <2>6. pending \subseteq Fields
    BY <2>1 DEF CodecTypes, Populated
  <2> QED
    BY <2>1, <2>3, <2>4, <2>5, <2>6 DEF TypeOK, CodecTypes
<1> QED
  BY <1>1, Invariance, PTL

(* A message that arrives is the message that was sent: every field comes out *)
(* of exactly the path, the query or the body that it went into, lists whole, *)
(* once and in order; only a repeated message outside the body cannot be sent *)
(* (httpEncodePathValues and encodeBody against decodeBody and                *)
(* decodeRequestURL).                                                         *)
THEOREM MessagesAreDelivered == Spec => []MessageDelivered
<1>1. ASSUME IInv PROVE MessageDelivered
  <2>1. ParserInv /\ CodecTypes /\ Division
    BY <1>1 DEF IInv
  <2>2. ASSUME phase = "done", NEW field \in Fields
        PROVE  server[field] = IF InPath(field) THEN got[field] ELSE request[field]
    <3>1. /\ decoded /\ query = Nothing /\ k = 0 /\ target.vars = found
          /\ DOMAIN got = {found[i].field : i \in k + 1 .. Len(found)}
          /\ IF InPath(field) THEN field \in DOMAIN got => server[field] = got[field]
                              ELSE Accounted(field)
      BY <2>1, <2>2 DEF Division, CodecTypes, Calling
    <3>2. query[field] = <<>>
      BY <3>1 DEF Nothing
    <3>3. CASE InPath(field)
      <4>1. found \in Seq(VariableType)
        BY <2>1 DEF ParserInv, ParserTypes
      <4>2. DOMAIN found = 0 + 1 .. Len(found)
        BY <4>1
      <4>3. field \in DOMAIN got
        BY <3>1, <3>3, <4>2 DEF InPath, ToSet
      <4> QED
        BY <3>1, <3>3, <4>3
    <3>4. CASE ~InPath(field)
      <4>1. CASE field \in Lists
        BY <3>1, <3>2, <3>4, <4>1, ConcatEmptySeq DEF Accounted
      <4>2. CASE field \notin Lists
        BY <3>1, <3>2, <3>4, <4>2 DEF Accounted
      <4> QED
        BY <4>1, <4>2
    <3> QED
      BY <3>3, <3>4
  <2>3. phase = "unencodable" => request[r] # <<>> /\ ~Selected(r)
    BY <2>1 DEF Division
  <2> QED
    BY <2>2, <2>3 DEF MessageDelivered
<1> QED
  BY <1>1, Invariance, PTL

---------------------------------------------------------------------------
(* What the parser leaves: canonical literals and nested variables *)

LEMMA LiteralCanonical ==
    ASSUME NEW t, Template!LiteralOK(t)
    PROVE  Valid(Template!Canonical(t)) /\ Canonical(Template!Canonical(t)) = Template!Canonical(t)
<1> DEFINE x == Unescape(t, "single")
<1>1. t \in Words /\ Valid(t)
  BY ValidIs DEF Template!LiteralOK
<1>2. x \in Seq(Chars)
  BY <1>1, WordsAssumption
<1>3. Template!Canonical(t) = Escape(x, "single")
  BY CanonicalIs DEF Canonical
<1> HIDE DEF x
<1>4. Valid(Escape(x, "single")) /\ Unescape(Escape(x, "single"), "single") = x
  BY <1>2, EscapedIs, UnescapeEscape
<1> QED
  BY <1>3, <1>4 DEF Canonical

LEMMA PatternGrows ==
    ASSUME ParserInv, PatternCanonical, NEW w \in SegmentTexts, pattern' = Append(pattern, w),
           w \in Wildcards \/ (Valid(w) /\ Canonical(w) = w)
    PROVE  PatternCanonical'
<1>1. pattern \in Seq(SegmentTexts)
  BY DEF ParserInv, ParserTypes
<1>2. \A i \in DOMAIN pattern' : pattern'[i] = w \/ (i \in DOMAIN pattern /\ pattern'[i] = pattern[i])
  BY <1>1, Appended
<1> QED
  BY <1>2 DEF PatternCanonical

LEMMA PatternStep == ASSUME ParserInv, PatternCanonical, Template!Parse PROVE PatternCanonical'
<1>1. CASE UNCHANGED pattern
  BY <1>1 DEF PatternCanonical
<1>2. ASSUME NEW t, Template!Segment(t) PROVE PatternCanonical'
  <2>1. CASE t \in Wildcards /\ pattern' = Append(pattern, t)
    BY <2>1, PatternGrows DEF SegmentTexts
  <2>2. CASE Template!LiteralOK(t) /\ pattern' = Append(pattern, Template!Canonical(t))
    <3>1. Template!Canonical(t) \in SegmentTexts
      BY <2>2, LiteralWritten DEF SegmentTexts
    <3> QED
      BY <2>2, <3>1, LiteralCanonical, PatternGrows
  <2> QED
    BY <1>1, <1>2, <2>1, <2>2, WildcardsIs DEF Template!Segment, Template!Rejected
<1>3. ASSUME NEW t, Template!Assign(t) PROVE PatternCanonical'
  <2>1. CASE Template!Close(Append(pattern, <<"*">>))
    <3>1. <<"*">> \in Wildcards /\ <<"*">> \in SegmentTexts
      BY DEF SegmentTexts, Wildcards
    <3>2. pattern' = Append(pattern, <<"*">>)
      BY <2>1 DEF Template!Close
    <3> QED
      BY <3>1, <3>2, PatternGrows
  <2> QED
    BY <1>1, <1>3, <2>1 DEF Template!Assign, Template!Rejected
<1>4. ASSUME NEW t, Template!AfterSegment(t) PROVE PatternCanonical'
  BY <1>1, <1>4 DEF Template!AfterSegment, Template!Rejected, Template!Close
<1> QED
  BY <1>1, <1>2, <1>3, <1>4 DEF Template!Parse, Template!Read, Template!Root, Template!Field, Template!Verb,
     Template!Trailing, Template!EOF, Template!Rejected

(* Closing takes the innermost variable off the stack.                        *)
LEMMA ClosedIs ==
    ASSUME ParserInv, open # <<>>, NEW segs \in Seq(SegmentTexts), Template!Close(segs)
    PROVE  LET o == open[Len(open)]
               v == [field |-> o.field, start |-> o.start, end |-> IF seenDoubleStar THEN -1 ELSE Len(segs)]
           IN  /\ Len(open) \in DOMAIN open /\ Len(open) \in Nat
               /\ o \in [field : Seq(Chars), start : Nat] /\ v \in VariableType
               /\ \A i \in DOMAIN open' : i \in DOMAIN open /\ i < Len(open) /\ open'[i] = open[i]
               /\ open' \in Seq([field : Seq(Chars), start : Nat])
               /\ found' \in Seq(VariableType)
               /\ \A i \in DOMAIN found' :
                     \/ i = Len(found) + 1 /\ found'[i] = v
                     \/ i \in DOMAIN found /\ found'[i] = found[i]
<1> DEFINE T == [field : Seq(Chars), start : Nat]
           o == open[Len(open)]
           v == [field |-> o.field, start |-> o.start, end |-> IF seenDoubleStar THEN -1 ELSE Len(segs)]
<1>1. open \in Seq(T) /\ Len(open) \in Nat \ {0} /\ Len(open) \in DOMAIN open /\ Len(segs) \in Nat
  <2>1. open \in Seq(T)
    BY DEF ParserInv, ParserTypes
  <2>2. Len(open) # 0
    BY <2>1, EmptySeq
  <2> QED
    BY <2>1, <2>2
<1>2. o \in T /\ v \in VariableType
  <2>1. o \in T /\ o.field \in Seq(Chars) /\ o.start \in Nat
    BY <1>1, OpenType
  <2> HIDE DEF o
  <2> QED
    BY <1>1, <2>1 DEF VariableType
<1>3. found' = Append(found, v)
  BY DEF Template!Close, Template!End, Last, Template!Last
<1>4. open' \in Seq(T) /\ \A i \in DOMAIN open' : i \in DOMAIN open /\ i < Len(open) /\ open'[i] = open[i]
  <2>1. open' = SubSeq(open, 1, Len(open) - 1)
    BY DEF Template!Close, Front, Template!Front
  <2> DEFINE n == Len(open) - 1
  <2>2. n \in Nat /\ \A i \in 1 .. n : i \in DOMAIN open /\ i < Len(open) /\ open[i] \in T
    <3>1. \A i \in 1 .. n : i \in 1 .. Len(open) /\ i < Len(open)
      BY <1>1
    <3>2. DOMAIN open = 1 .. Len(open) /\ \A i \in DOMAIN open : open[i] \in T
      BY <1>1, Element
    <3>3. n \in Nat
      BY <1>1
    <3> HIDE DEF n, T
    <3> QED
      BY <3>1, <3>2, <3>3
  <2> HIDE DEF n, T
  <2>3. SubSeq(open, 1, n) \in Seq(T) /\ Len(SubSeq(open, 1, n)) = n
        /\ \A i \in 1 .. n : SubSeq(open, 1, n)[i] = open[i]
    BY <2>2, SubSeqProperties
  <2>4. DOMAIN open' = 1 .. n
    BY <2>1, <2>3 DEF n
  <2> QED
    BY <2>1, <2>2, <2>3, <2>4 DEF n
<1> HIDE DEF T, v
<1>5. /\ found' \in Seq(VariableType)
      /\ \A i \in DOMAIN found' :
            (i = Len(found) + 1 /\ found'[i] = v) \/ (i \in DOMAIN found /\ found'[i] = found[i])
  <2>1. found \in Seq(VariableType)
    BY DEF ParserInv, ParserTypes
  <2> QED
    BY <1>2, <1>3, <2>1, Appended
<1> QED
  BY <1>1, <1>2, <1>4, <1>5 DEF T, v

LEMMA FieldNesting == ASSUME ParserInv, Nesting, NEW t, Template!Field(t) PROVE Nesting'
<1> DEFINE o == [field |-> t, start |-> Len(pattern)]
           T == [field : Seq(Chars), start : Nat]
<1>1. CASE UNCHANGED <<open, found>>
  BY <1>1 DEF Nesting
<1>2. CASE t \in Words /\ ~Template!Duplicate(t) /\ open' = Append(open, o) /\ UNCHANGED found
  <2>1. o \in T /\ open \in Seq(T) /\ o.start = Len(pattern) /\ o.field = t /\ Len(open) \in Nat
        /\ DOMAIN open = 1 .. Len(open) /\ Len(pattern) \in Nat
    BY <1>2, WordType DEF ParserInv, ParserTypes
  <2> HIDE DEF o
  <2>2. \A i \in DOMAIN open' : (i = Len(open) + 1 /\ open'[i] = o) \/ (i \in DOMAIN open /\ open'[i] = open[i])
    BY <1>2, <2>1, Appended
  <2>3. \A i \in DOMAIN found : found[i].field # t
    BY <1>2 DEF Template!Duplicate, Template!ToSet
  <2>4. \A i \in DOMAIN open : open[i].start \in Nat /\ open[i].start <= Len(pattern)
    BY OpenType
  <2>5. ASSUME NEW i \in DOMAIN open', NEW j \in DOMAIN open', i < j PROVE open'[i].start <= open'[j].start
    <3>1. i \in DOMAIN open /\ open'[i] = open[i]
      BY <2>1, <2>2, <2>5
    <3>2. CASE j = Len(open) + 1 /\ open'[j] = o
      BY <2>1, <2>4, <3>1, <3>2
    <3>3. CASE j \in DOMAIN open /\ open'[j] = open[j]
      BY <2>5, <3>1, <3>3 DEF Nesting
    <3> QED
      BY <2>2, <3>2, <3>3
  <2>6. ASSUME NEW i \in DOMAIN open', NEW j \in DOMAIN found, open'[i].field = found[j].field
        PROVE  open'[i].start <= found[j].start
    BY <2>1, <2>2, <2>3, <2>6 DEF Nesting
  <2> QED
    BY <1>2, <2>5, <2>6 DEF Nesting
<1> QED
  BY <1>1, <1>2 DEF Template!Field, Template!Rejected

LEMMA CloseNesting ==
    ASSUME ParserInv, Nesting, open # <<>>, NEW segs \in Seq(SegmentTexts), Template!Close(segs),
           Len(segs) >= Len(pattern)
    PROVE  Nesting'
<1> DEFINE o == open[Len(open)]
           v == [field |-> o.field, start |-> o.start, end |-> IF seenDoubleStar THEN -1 ELSE Len(segs)]
<1>1. /\ Len(open) \in DOMAIN open /\ Len(open) \in Nat
      /\ \A i \in DOMAIN open' : i \in DOMAIN open /\ i < Len(open) /\ open'[i] = open[i]
      /\ \A i \in DOMAIN found' :
            \/ i = Len(found) + 1 /\ found'[i] = v
            \/ i \in DOMAIN found /\ found'[i] = found[i]
  BY ClosedIs
<1>2. v.field = o.field /\ v.start = o.start /\ v.end = IF seenDoubleStar THEN -1 ELSE Len(segs)
  OBVIOUS
<1>3. /\ found \in Seq(VariableType) /\ Len(found) \in Nat /\ DOMAIN found = 1 .. Len(found)
      /\ Len(segs) \in Nat /\ Len(pattern) \in Nat
      /\ \A i \in DOMAIN found : found[i] \in VariableType
  BY Element DEF ParserInv, ParserTypes
<1>4. \A i \in DOMAIN found : found[i].end # -1 => found[i].end <= Len(segs)
  <2> SUFFICES ASSUME NEW i \in DOMAIN found, found[i].end # -1 PROVE found[i].end <= Len(segs)
    OBVIOUS
  <2>1. found[i].end <= Len(pattern) /\ found[i].end \in Nat
    BY <1>3 DEF ParserInv, BoundsOK, VarOK, VariableType
  <2> QED
    BY <1>3, <2>1
<1>5. ~seenDoubleStar => \A i \in DOMAIN found : found[i].end # -1
  BY DEF ParserInv, BoundsOK
<1> HIDE DEF o, v
<1>6. ASSUME NEW i \in DOMAIN open', NEW j \in DOMAIN open', i < j PROVE open'[i].start <= open'[j].start
  BY <1>1, <1>6 DEF Nesting
<1>7. ASSUME NEW i \in DOMAIN open', NEW j \in DOMAIN found', open'[i].field = found'[j].field
      PROVE  open'[i].start <= found'[j].start
  <2>1. CASE found'[j] = v
    BY <1>1, <1>2, <2>1 DEF Nesting, o
  <2>2. CASE j \in DOMAIN found /\ found'[j] = found[j]
    BY <1>1, <1>7, <2>2 DEF Nesting
  <2> QED
    BY <1>1, <2>1, <2>2
<1>8. ASSUME NEW i \in DOMAIN found', NEW j \in DOMAIN found', i < j
      PROVE  /\ found'[i].field = found'[j].field => found'[j].start <= found'[i].start
             /\ found'[j].end # -1 => found'[i].end # -1 /\ found'[i].end <= found'[j].end
  <2>1. i \in DOMAIN found /\ found'[i] = found[i]
    BY <1>1, <1>3, <1>8
  <2>2. CASE found'[j] = v
    <3>1. o.field = found[i].field => o.start <= found[i].start
      BY <1>1, <2>1 DEF Nesting, o
    <3> QED
      BY <1>2, <1>4, <1>5, <2>1, <2>2, <3>1
  <2>3. CASE j \in DOMAIN found /\ found'[j] = found[j]
    BY <1>8, <2>1, <2>3 DEF Nesting
  <2> QED
    BY <1>1, <2>2, <2>3
<1> QED
  BY <1>6, <1>7, <1>8 DEF Nesting

LEMMA NestingStep == ASSUME ParserInv, Nesting, Template!Parse PROVE Nesting'
<1>1. CASE UNCHANGED <<open, found>>
  BY <1>1 DEF Nesting
<1>2. pattern \in Seq(SegmentTexts) /\ Len(pattern) \in Nat
  BY DEF ParserInv, ParserTypes
<1>3. ASSUME NEW t, Template!Assign(t) PROVE Nesting'
  <2>1. CASE Template!Close(Append(pattern, <<"*">>))
    <3>1. <<"*">> \in SegmentTexts
      BY DEF SegmentTexts, Wildcards
    <3>2. Append(pattern, <<"*">>) \in Seq(SegmentTexts) /\ Len(Append(pattern, <<"*">>)) = Len(pattern) + 1
      BY <1>2, <3>1, AppendProperties
    <3>3. open # <<>>
      BY <1>3 DEF Template!Assign, ParserInv, OpenInside
    <3>4. Len(pattern) + 1 >= Len(pattern)
      BY <1>2
    <3> QED
      BY <2>1, <3>2, <3>3, <3>4, CloseNesting
  <2> QED
    BY <1>1, <1>3, <2>1 DEF Template!Assign, Template!Rejected
<1>4. ASSUME NEW t, Template!AfterSegment(t) PROVE Nesting'
  <2>1. CASE open # <<>> /\ Template!Close(pattern)
    BY <1>2, <2>1, CloseNesting
  <2> QED
    BY <1>1, <1>4, <2>1 DEF Template!AfterSegment, Template!Rejected
<1> QED
  BY <1>1, <1>3, <1>4, FieldNesting DEF Template!Parse, Template!Read, Template!Root, Template!Segment, Template!Verb,
     Template!Trailing, Template!EOF, Template!Rejected

---------------------------------------------------------------------------
(* The segments of the path *)

LEMMA PathSame == \A a, b : Path!Same(a, b) <=> Same(a, b)
BY DEF Path!Same, Same

LEMMA PathWildcards == Path!Wildcards = Wildcards
BY DEF Path!Wildcards, Wildcards

(* The parts of a variable's value: one segment, or those between its slashes. *)
LEMMA PartsAre ==
    ASSUME ParserInv, CodecTypes, Calling, NEW i \in DOMAIN found
    PROVE  LET v == found[i]
               value == message[v.field]
               parts == Path!Parts(v)
           IN  /\ value \in Seq(Chars) /\ v \in VariableType
               /\ parts \in Seq(Seq(Written)) /\ parts \in Seq(ValidText)
               /\ Len(parts) \in Nat \ {0} /\ DOMAIN parts = 1 .. Len(parts)
               /\ Path!Size(v) = 1 => parts = <<Escape(value, "single")>> /\ Len(parts) = 1
               /\ Path!Size(v) # 1 => parts = EscapedParts(Split(value, "/"))
<1> DEFINE v == found[i]
           value == message[v.field]
           parts == Path!Parts(v)
           e == Escape(value, "single")
           between == Split(value, "/")
<1>1. value \in Seq(Chars) /\ v \in VariableType /\ parts \in Seq(Seq(Written)) /\ parts # <<>>
  BY PartsType
<1>2. Len(parts) \in Nat \ {0} /\ DOMAIN parts = 1 .. Len(parts)
  BY <1>1, EmptySeq, Element
<1>3. Path!Size(v) = 1 => parts = <<e>>
  BY PathEscapes DEF Path!Parts, Path!SplitVar
<1>4. Path!Size(v) # 1 => parts = EscapedParts(between)
  <2>1. Path!Size(v) # 1 => parts = [j \in DOMAIN between |-> Escape(between[j], "multi")]
    BY PathEscapes DEF Path!Parts, Path!SplitVar
  <2> QED
    BY <2>1 DEF EscapedParts
<1> HIDE DEF v, value, parts
<1>5. e \in ValidText
  BY <1>1, EscapedIs DEF ValidText
<1>6. between \in Seq(Seq(Chars))
  <2>1. between \in Seq(Seq(Chars \ {"/"}))
    BY <1>1, SplitParts
  <2>2. Seq(Seq(Chars \ {"/"})) \subseteq Seq(Seq(Chars))
    BY SeqMonotonic
  <2> QED
    BY <2>1, <2>2
<1> HIDE DEF e, between
<1>7. EscapedParts(between) \in Seq(ValidText)
  BY <1>6, EscapedPartsType
<1>8. <<e>> \in Seq(ValidText) /\ Len(<<e>>) = 1
  BY <1>5
<1>9. parts \in Seq(ValidText)
  BY <1>3, <1>4, <1>7, <1>8
<1> QED
  BY <1>1, <1>2, <1>3, <1>4, <1>8, <1>9 DEF v, value, parts, e, between

(* Where a variable begins and ends, and how many parts it may have there.    *)
LEMMA BoundsAre ==
    ASSUME ParserInv, NEW i \in DOMAIN found
    PROVE  LET v == found[i]
           IN  /\ v.start \in Nat /\ v.start < Len(pattern) /\ Len(pattern) \in Nat \ {0}
               /\ DOMAIN pattern = 1 .. Len(pattern)
               /\ v.end = -1 => pattern[Len(pattern)] = DoubleStar /\ Path!Size(v) # 1
               /\ v.end # -1 => /\ v.end \in Nat /\ v.start < v.end /\ v.end <= Len(pattern)
                                /\ Path!Size(v) = v.end - v.start
<1> DEFINE v == found[i]
<1>1. v \in VariableType /\ VarOK(v) /\ pattern \in Seq(SegmentTexts)
  BY Element DEF ParserInv, ParserTypes, BoundsOK
<1> HIDE DEF v
<1>2. v.start \in Nat /\ v.start < Len(pattern) /\ Len(pattern) \in Nat \ {0} /\ DOMAIN pattern = 1 .. Len(pattern)
  BY <1>1 DEF VarOK, VariableType
<1>3. v.end = -1 => pattern[Len(pattern)] = DoubleStar
  <2>1. ~(-1 \in v.start + 1 .. Len(pattern))
    BY <1>2
  <2> QED
    BY <1>1, <2>1 DEF VarOK, Last, DoubleStar
<1>4. v.end # -1 => v.end \in Nat /\ v.start < v.end /\ v.end <= Len(pattern)
  BY <1>1, <1>2 DEF VarOK
<1>5. v.end = -1 => Path!Size(v) # 1
  BY DEF Path!Size
<1>6. v.end # -1 => Path!Size(v) = v.end - v.start
  BY DEF Path!Size
<1> QED
  BY <1>2, <1>3, <1>4, <1>5, <1>6 DEF v

(* A value of the right size ends where its variable does.                    *)
LEMMA RightSize ==
    ASSUME ParserInv, CodecTypes, Calling, NEW i \in DOMAIN found, found[i].end # -1,
           ~Path!WrongSize(found[i], Path!Parts(found[i]))
    PROVE  Till(i) = found[i].end /\ Len(Path!Parts(found[i])) = found[i].end - found[i].start
<1> DEFINE v == found[i]
           n == Len(Path!Parts(v))
<1>1. v.start \in Nat /\ v.end \in Nat /\ v.start < v.end /\ Path!Size(v) = v.end - v.start
  BY BoundsAre
<1>2. n \in Nat /\ (Path!Size(v) = 1 => n = 1) /\ (Path!Size(v) > 1 => n = Path!Size(v))
  BY PartsAre DEF Path!WrongSize
<1> HIDE DEF v, n
<1>3. n = v.end - v.start
  <2>1. v.end - v.start = 1 \/ v.end - v.start > 1
    BY <1>1
  <2> QED
    BY <1>1, <1>2, <2>1
<1>4. v.start + n = v.end
  BY <1>1, <1>3
<1> QED
  BY <1>3, <1>4 DEF v, n, Till, PartsOf

(* What is written is what was there, or a part that does not clash with it.  *)
LEMMA OverlaidKeeps ==
    ASSUME ParserInv, CodecTypes, Calling, NEW i \in DOMAIN found,
           ~Path!Clashes(found[i], Path!Parts(found[i]))
    PROVE  LET v == found[i]
               parts == Path!Parts(v)
               over == Path!Overlaid(v, parts)
           IN  /\ Len(over) \in Nat /\ Len(over) >= Len(segments) /\ Len(over) >= Till(i)
               /\ Len(segments) \in Nat /\ Till(i) \in Nat
               /\ Len(over) = Len(segments) \/ Len(over) = Till(i)
               /\ DOMAIN over = 1 .. Len(over) /\ DOMAIN segments = 1 .. Len(segments)
               /\ \A p \in DOMAIN parts : v.start + p \in DOMAIN over /\ over[v.start + p] = parts[p]
               /\ \A j \in DOMAIN segments :
                     /\ segments[j] \in Wildcards \/ over[j] = segments[j]
                     /\ j - v.start \in DOMAIN parts \/ over[j] = segments[j]
               /\ \A j \in DOMAIN over :
                     \/ j - v.start \in DOMAIN parts /\ over[j] = parts[j - v.start]
                     \/ j \in DOMAIN segments /\ over[j] = segments[j]
<1> DEFINE v == found[i]
           parts == Path!Parts(v)
           over == Path!Overlaid(v, parts)
<1>1. /\ over \in Seq(SegmentTexts)
      /\ Len(over) = IF v.start + Len(parts) > Len(segments) THEN v.start + Len(parts) ELSE Len(segments)
      /\ \A j \in 1 .. Len(over) :
            over[j] = IF j - v.start \in DOMAIN parts THEN parts[j - v.start] ELSE segments[j]
  BY OverlaidIs
<1>2. /\ v.start \in Nat /\ Len(parts) \in Nat /\ DOMAIN parts = 1 .. Len(parts)
      /\ Len(segments) \in Nat /\ DOMAIN segments = 1 .. Len(segments) /\ segments \in Seq(SegmentTexts)
      /\ DOMAIN over = 1 .. Len(over) /\ Len(over) \in Nat
  BY <1>1, PartsAre, BoundsAre, Element DEF CodecTypes
<1>0. v.start < Len(pattern) /\ Len(pattern) \in Nat /\ Len(pattern) <= Len(segments)
  BY BoundsAre DEF CodecTypes
<1>3. \A p \in DOMAIN parts :
         v.start + p \in DOMAIN segments => segments[v.start + p] \in Wildcards \/ segments[v.start + p] = parts[p]
  BY PathWildcards DEF Path!Clashes
<1>4. Till(i) = v.start + Len(parts)
  BY DEF Till, PartsOf
<1> DEFINE a == v.start
           n == Len(parts)
           m == Len(segments)
           all == Len(over)
<1> HIDE DEF v, parts, over
<1>n. a \in Nat /\ n \in Nat /\ m \in Nat /\ all \in Nat /\ all = IF a + n > m THEN a + n ELSE m
  BY <1>1, <1>2
<1>m. a < m
  BY <1>0, <1>2
<1>5. Len(over) >= Len(segments) /\ Len(over) >= Till(i) /\ Till(i) \in Nat
      /\ (Len(over) = Len(segments) \/ Len(over) = Till(i))
  BY <1>1, <1>2, <1>4
<1>6. ASSUME NEW p \in DOMAIN parts PROVE v.start + p \in DOMAIN over /\ over[v.start + p] = parts[p]
  <2>1. p \in 1 .. n /\ DOMAIN over = 1 .. all
    BY <1>2
  <2>2. a + p \in 1 .. all /\ (a + p) - a = p
    <3> HIDE DEF a, n, m, all
    <3> QED
      BY <1>n, <2>1
  <2> QED
    BY <1>1, <2>1, <2>2
<1>7. ASSUME NEW j \in DOMAIN segments
      PROVE  /\ segments[j] \in Wildcards \/ over[j] = segments[j]
             /\ j - v.start \in DOMAIN parts \/ over[j] = segments[j]
  <2>1. j \in 1 .. Len(over)
    <3>1. j \in 1 .. m
      BY <1>2
    <3>2. j \in 1 .. all
      <4> HIDE DEF a, n, m, all
      <4> QED
        BY <1>n, <3>1
    <3> QED
      BY <3>2
  <2>2. CASE j - v.start \in DOMAIN parts
    <3>1. v.start + (j - v.start) = j
      BY <1>2
    <3> QED
      BY <1>1, <1>3, <2>1, <2>2, <3>1
  <2>3. CASE j - v.start \notin DOMAIN parts
    BY <1>1, <2>1, <2>3
  <2> QED
    BY <2>2, <2>3
<1>8. ASSUME NEW j \in DOMAIN over
      PROVE  \/ j - v.start \in DOMAIN parts /\ over[j] = parts[j - v.start]
             \/ j \in DOMAIN segments /\ over[j] = segments[j]
  <2>1. CASE j - v.start \in DOMAIN parts
    BY <1>1, <1>2, <2>1
  <2>2. CASE j - v.start \notin DOMAIN parts
    <3>1. j \in 1 .. all /\ j - a \notin 1 .. n
      BY <1>2, <2>2
    <3>2. j \in 1 .. m
      <4> HIDE DEF a, n, m, all
      <4> QED
        BY <1>n, <1>m, <3>1
    <3>3. j \in DOMAIN segments
      BY <1>2, <3>2
    <3> QED
      BY <1>1, <1>2, <2>2, <3>3
  <2> QED
    BY <2>1, <2>2
<1> QED
  BY <1>2, <1>5, <1>6, <1>7, <1>8 DEF v, parts, over

LEMMA Inside ==
    ASSUME NEW a \in Nat, NEW n \in Nat, NEW m \in Nat, a + n <= m
    PROVE  \A p \in 1 .. n : a + p \in 1 .. m /\ (a + p) - a = p
OBVIOUS

LEMMA Chain == \A a, b, c \in Int : a <= b /\ b <= c => a <= c
OBVIOUS

LEMMA CallingStays ==
    ASSUME UNCHANGED <<target, message, found>>
    PROVE  /\ \A i : PartsOf(i)' = PartsOf(i) /\ Till(i)' = Till(i)
           /\ Path!Fitting' <=> Path!Fitting
<1>1. \A v : Path!Parts(v)' = Path!Parts(v)
  BY DEF Path!Parts, Path!SplitVar, Path!Size, Path!Split, Path!Escape
<1>2. \A i : PartsOf(i)' = PartsOf(i)
  BY DEF PartsOf, Path!Parts, Path!SplitVar, Path!Size, Path!Split, Path!Escape
<1>3. \A i : Till(i)' = Till(i)
  BY <1>2 DEF Till
<1>4. \A v : /\ Path!Covers(v)' <=> Path!Covers(v)
             /\ Path!AgreesWithTemplate(v)' <=> Path!AgreesWithTemplate(v)
  BY <1>1 DEF Path!Covers, Path!AgreesWithTemplate
<1>5. \A v, w : Path!AgreeTogether(v, w)' <=> Path!AgreeTogether(v, w)
  BY <1>1 DEF Path!AgreeTogether
<1>6. Path!Fitting' <=> Path!Fitting
  BY <1>4, <1>5 DEF Path!Fitting
<1> QED
  BY <1>2, <1>3, <1>6

(* What fitting says of the variables and of their parts.                     *)
LEMMA FittingIs ==
    ASSUME CodecTypes, Calling, Path!Fitting, NEW i \in DOMAIN found, NEW j \in DOMAIN found
    PROVE  /\ found[i].end # -1 => Len(PartsOf(i)) = found[i].end - found[i].start
           /\ found[i].end = -1 => Till(i) >= Len(pattern)
           /\ \A p \in DOMAIN PartsOf(i) : found[i].start + p \in DOMAIN pattern =>
                 pattern[found[i].start + p] \in Wildcards \cup {PartsOf(i)[p]}
           /\ \A p \in DOMAIN PartsOf(i) :
                 LET q == found[i].start + p - found[j].start
                 IN  q \in DOMAIN PartsOf(j) => PartsOf(i)[p] = PartsOf(j)[q]
           /\ found[i].end = -1 /\ found[j].end = -1 => Till(i) = Till(j)
<1>1. target.vars = found /\ target.segments = pattern
  BY DEF CodecTypes
<1>2. found[i] \in Path!ToSet(target.vars) /\ found[j] \in Path!ToSet(target.vars)
  BY <1>1 DEF Path!ToSet
<1>3. Path!Covers(found[i]) /\ Path!AgreesWithTemplate(found[i]) /\ Path!AgreeTogether(found[i], found[j])
  BY <1>2 DEF Path!Fitting
<1> QED
  BY <1>1, <1>3, PathWildcards DEF Path!Covers, Path!AgreesWithTemplate, Path!AgreeTogether, PartsOf, Till

LEMMA EncodingIs ==
    ASSUME ParserInv, CodecTypes, EncodePath
    PROVE  /\ phase = "encode" /\ Calling /\ k \in DOMAIN found /\ k \in Nat \ {0} /\ Len(found) \in Nat
           /\ Encoded = 1 .. k - 1 /\ Encoded \subseteq DOMAIN found
           /\ target.vars = found /\ target.segments = pattern
           /\ UNCHANGED <<parser, target, message, uri, got>>
           /\ IF Path!WrongSize(found[k], PartsOf(k)) \/ Path!Clashes(found[k], PartsOf(k))
              THEN phase' = "refused" /\ UNCHANGED <<segments, k>>
              ELSE /\ segments' = Path!Overlaid(found[k], PartsOf(k))
                   /\ k' = k + 1 /\ UNCHANGED phase
<1>1. /\ phase = "encode" /\ Calling /\ target.vars = found /\ target.segments = pattern
      /\ k \in 0 .. Len(found) + 1 /\ k >= 1
      /\ UNCHANGED <<parser, target, message, uri, got>>
  BY DEF EncodePath, Path!EncodeVariable, CodecTypes, Calling
<1>2. k <= Len(found) /\ Len(found) \in Nat /\ DOMAIN found = 1 .. Len(found)
  BY <1>1 DEF EncodePath, Path!EncodeVariable, ParserInv, ParserTypes
<1>3. k \in DOMAIN found /\ k \in Nat \ {0} /\ 1 .. k - 1 \subseteq DOMAIN found
  BY <1>1, <1>2
<1> QED
  BY <1>1, <1>2, <1>3 DEF EncodePath, Path!EncodeVariable, PartsOf, Encoded

(* A message that fits is not refused.                                        *)
LEMMA RefusedMisfit ==
    ASSUME ParserInv, CodecTypes, Kept, EncodePath,
           Path!WrongSize(found[k], PartsOf(k)) \/ Path!Clashes(found[k], PartsOf(k))
    PROVE  ~Path!Fitting
<1> SUFFICES ASSUME Path!Fitting PROVE FALSE
  OBVIOUS
<1>1. /\ phase = "encode" /\ Calling /\ k \in DOMAIN found /\ Encoded \subseteq DOMAIN found
  BY EncodingIs
<1>2. /\ found[k].start \in Nat
      /\ found[k].end = -1 => Path!Size(found[k]) = -1
      /\ found[k].end # -1 => Path!Size(found[k]) = found[k].end - found[k].start
      /\ DOMAIN PartsOf(k) \subseteq Nat
  BY <1>1, BoundsAre, PartsAre DEF Path!Size, PartsOf
<1>3. ~Path!WrongSize(found[k], PartsOf(k))
  <2>1. found[k].end # -1 => Len(PartsOf(k)) = found[k].end - found[k].start
    BY <1>1, FittingIs
  <2>2. ~(-1 > 1)
    OBVIOUS
  <2> QED
    BY <1>2, <2>1, <2>2 DEF Path!WrongSize
<1>4. PICK p \in DOMAIN PartsOf(k) :
         /\ found[k].start + p \in DOMAIN segments
         /\ segments[found[k].start + p] \notin Wildcards /\ segments[found[k].start + p] # PartsOf(k)[p]
  BY <1>3, PathWildcards DEF Path!Clashes
<1> DEFINE j == found[k].start + p
<1>5. CASE j \in DOMAIN pattern /\ segments[j] = pattern[j]
  <2>1. pattern[j] \in Wildcards \cup {PartsOf(k)[p]}
    BY <1>1, <1>5, FittingIs
  <2> QED
    BY <1>4, <1>5, <2>1
<1>6. CASE \E i \in Encoded : j - found[i].start \in DOMAIN PartsOf(i)
  <2>1. PICK i \in Encoded : j - found[i].start \in DOMAIN PartsOf(i)
    BY <1>6
  <2> DEFINE q == j - found[i].start
  <2>2. i \in DOMAIN found /\ found[i].start \in Nat
    BY <1>1, BoundsAre
  <2>3. found[i].start + q = j /\ j - found[k].start = p
    BY <1>2, <2>2
  <2>4. segments[found[i].start + q] = PartsOf(i)[q]
    BY <1>1, <2>1 DEF Kept
  <2>5. PartsOf(k)[p] = PartsOf(i)[q]
    <3>1. \A pp \in DOMAIN PartsOf(k) :
             LET qq == found[k].start + (pp - found[i].start)
             IN  qq \in DOMAIN PartsOf(i) => PartsOf(k)[pp] = PartsOf(i)[qq]
      BY <1>1, <2>2, FittingIs
    <3>2. found[k].start + (p - found[i].start) = q
      BY <1>2, <2>2
    <3> QED
      BY <2>1, <3>1, <3>2
  <2> QED
    BY <1>4, <2>3, <2>4, <2>5
<1> QED
  BY <1>1, <1>4, <1>5, <1>6 DEF Kept

LEMMA Retyped ==
    ASSUME NEW X, NEW Y, NEW s \in Seq(X), \A j \in DOMAIN s : s[j] \in Y
    PROVE  s \in Seq(Y)
<1>1. \A j \in 1 .. Len(s) : s[j] \in Y
  BY Element
<1>2. s = [j \in 1 .. Len(s) |-> s[j]] /\ Len(s) \in Nat
  OBVIOUS
<1> QED
  BY <1>1, <1>2, IsASeq

(* Writing a variable keeps what was written.                                 *)
LEMMA EncodeKept ==
    ASSUME ParserInv, CodecTypes, Matching, Kept, EncodePath,
           ~Path!WrongSize(found[k], PartsOf(k)), ~Path!Clashes(found[k], PartsOf(k))
    PROVE  Kept' /\ Matching'
<1> DEFINE v == found[k]
           parts == PartsOf(k)
           over == Path!Overlaid(v, parts)
<1>1. /\ phase = "encode" /\ Calling /\ k \in DOMAIN found /\ k \in Nat \ {0}
      /\ Encoded = 1 .. k - 1 /\ Encoded \subseteq DOMAIN found
      /\ UNCHANGED <<parser, target, message>>
      /\ segments' = over /\ k' = k + 1 /\ phase' = "encode"
  BY EncodingIs
<1>2. Encoded' = 1 .. k
  <2>1. Encoded' = 1 .. k' - 1 /\ k' - 1 = k
    BY <1>1 DEF Encoded
  <2> QED
    BY <2>1
<1>3. /\ Encoded' = Encoded \cup {k} /\ UNCHANGED <<found, pattern>>
      /\ \A i : PartsOf(i)' = PartsOf(i) /\ Till(i)' = Till(i)
  <2>1. 1 .. k = (1 .. k - 1) \cup {k}
    BY <1>1
  <2>2. UNCHANGED <<found, pattern>>
    BY <1>1 DEF parser
  <2> QED
    BY <1>1, <1>2, <2>1, <2>2, CallingStays
<1>4. /\ Len(over) \in Nat /\ Len(over) >= Len(segments) /\ Len(over) >= Till(k)
      /\ Len(segments) \in Nat /\ Till(k) \in Nat
      /\ Len(over) = Len(segments) \/ Len(over) = Till(k)
      /\ DOMAIN over = 1 .. Len(over) /\ DOMAIN segments = 1 .. Len(segments)
      /\ \A p \in DOMAIN parts : v.start + p \in DOMAIN over /\ over[v.start + p] = parts[p]
      /\ \A j \in DOMAIN segments :
            /\ segments[j] \in Wildcards \/ over[j] = segments[j]
            /\ j - v.start \in DOMAIN parts \/ over[j] = segments[j]
      /\ \A j \in DOMAIN over :
            \/ j - v.start \in DOMAIN parts /\ over[j] = parts[j - v.start]
            \/ j \in DOMAIN segments /\ over[j] = segments[j]
  BY <1>1, OverlaidKeeps DEF PartsOf
<1>n. /\ Len(over) \in Nat /\ Len(segments) \in Nat /\ Till(k) \in Nat /\ Len(segments) <= Len(over)
      /\ Till(k) <= Len(over)
      /\ DOMAIN over = 1 .. Len(over) /\ DOMAIN segments = 1 .. Len(segments)
  <2> HIDE DEF v, parts, over
  <2>1. Len(over) \in Nat /\ Len(over) >= Len(segments) /\ Len(over) >= Till(k)
        /\ Len(segments) \in Nat /\ Till(k) \in Nat
        /\ DOMAIN over = 1 .. Len(over) /\ DOMAIN segments = 1 .. Len(segments)
    BY <1>4, Zenon
  <2> QED
    BY <2>1
<1>5. over \in Seq(SegmentTexts)
  BY <1>1, OverlaidIs DEF PartsOf
<1>6. parts \in Seq(Seq(Written)) /\ parts \in Seq(ValidText)
  BY <1>1, PartsAre DEF PartsOf
<1>7. Len(pattern) \in Nat /\ Len(pattern) <= Len(segments) /\ DOMAIN pattern = 1 .. Len(pattern)
  BY <1>1, BoundsAre DEF CodecTypes
<1> HIDE DEF over, parts
<1>8. ASSUME NEW i \in Encoded'
      PROVE  Till(i) <= Len(over) /\ \A p \in DOMAIN PartsOf(i) : over[found[i].start + p] = PartsOf(i)[p]
  <2>1. CASE i = k
    BY <1>4, <2>1 DEF parts
  <2>2. CASE i \in Encoded
    <3>1. /\ Till(i) <= Len(segments)
          /\ \A p \in DOMAIN PartsOf(i) : segments[found[i].start + p] = PartsOf(i)[p]
      BY <1>1, <2>2 DEF Kept
    <3>2. /\ found[i].start \in Nat /\ PartsOf(i) \in Seq(Seq(Written)) /\ Len(PartsOf(i)) \in Nat
          /\ DOMAIN PartsOf(i) = 1 .. Len(PartsOf(i)) /\ Till(i) = found[i].start + Len(PartsOf(i))
      BY <1>1, <2>2, BoundsAre, PartsAre DEF PartsOf, Till
    <3>3. ASSUME NEW p \in DOMAIN PartsOf(i) PROVE over[found[i].start + p] = PartsOf(i)[p]
      <4>1. found[i].start + p \in DOMAIN segments
        <5> DEFINE a == found[i].start
                   n == Len(PartsOf(i))
                   m == Len(segments)
        <5>1. a \in Nat /\ n \in Nat /\ m \in Nat /\ p \in 1 .. n
          BY <1>n, <3>2
        <5>2. a + n <= m
          BY <3>1, <3>2
        <5> HIDE DEF a, n, m
        <5>3. a + p \in 1 .. m
          BY <5>1, <5>2
        <5> QED
          BY <1>n, <5>3 DEF a, m
      <4>2. PartsOf(i)[p] \notin Wildcards
        BY <3>2, Element, NoStarWritten
      <4> QED
        BY <1>4, <3>1, <4>1, <4>2
    <3>4. Till(i) <= Len(over)
      <4>1. Till(i) \in Int /\ Len(segments) \in Int /\ Len(over) \in Int /\ Len(segments) <= Len(over)
        BY <1>n, <3>2
      <4> QED
        BY <3>1, <4>1, Chain
    <3> QED
      BY <3>3, <3>4
  <2> QED
    BY <1>3, <2>1, <2>2
<1>9. ASSUME NEW j \in DOMAIN over
      PROVE  \/ j \in DOMAIN pattern /\ over[j] = pattern[j]
             \/ \E i \in Encoded' : j - found[i].start \in DOMAIN PartsOf(i)
  <2>1. CASE j - v.start \in DOMAIN parts
    BY <1>3, <2>1 DEF parts
  <2>2. CASE j \in DOMAIN segments /\ over[j] = segments[j]
    BY <1>1, <1>3, <2>2 DEF Kept
  <2> QED
    BY <1>4, <2>1, <2>2
<1>10. \/ Len(over) = Len(pattern)
       \/ \E i \in Encoded' : found[i].end = -1 /\ Len(over) = Till(i)
  <2>1. CASE Len(over) = Len(segments)
    BY <1>1, <1>3, <2>1 DEF Kept
  <2>2. CASE Len(over) = Till(k) /\ v.end = -1
    BY <1>3, <2>2
  <2>3. CASE Len(over) = Till(k) /\ v.end # -1
    <3>1. Till(k) = v.end
      BY <1>1, <2>3, RightSize DEF PartsOf
    <3>2. v.end \in Nat /\ v.end <= Len(pattern)
      BY <1>1, <2>3, BoundsAre
    <3>3. Len(over) = Len(pattern)
      BY <1>4, <1>7, <2>3, <3>1, <3>2
    <3> QED
      BY <3>3
  <2> QED
    BY <1>4, <2>1, <2>2, <2>3
<1>11. Kept'
  <2>1. /\ \A i \in Encoded' :
              /\ Till(i)' <= Len(segments')
              /\ \A p \in DOMAIN PartsOf(i)' : segments'[found'[i].start + p] = PartsOf(i)'[p]
        /\ \A j \in DOMAIN segments' :
              \/ j \in DOMAIN pattern' /\ segments'[j] = pattern'[j]
              \/ \E i \in Encoded' : j - found'[i].start \in DOMAIN PartsOf(i)'
        /\ \/ Len(segments') = Len(pattern')
           \/ \E i \in Encoded' : found'[i].end = -1 /\ Len(segments') = Till(i)'
    BY <1>1, <1>3, <1>8, <1>9, <1>10
  <2> QED
    BY <2>1 DEF Kept
<1>12. over \in Seq(ValidText)
  <2>1. segments \in Seq(ValidText)
    BY <1>1 DEF Matching
  <2>2. \A j \in DOMAIN over : over[j] \in ValidText
    BY <1>4, <1>6, <2>1, Element
  <2> QED
    BY <1>5, <2>2, Retyped
<1>13. ASSUME NEW j \in DOMAIN pattern PROVE pattern[j] \in Wildcards \/ over[j] = pattern[j]
  <2>1. j \in DOMAIN segments
    <3>1. 1 .. Len(pattern) \subseteq 1 .. Len(segments)
      BY <1>n, <1>7
    <3> QED
      BY <1>n, <1>7, <3>1
  <2> QED
    BY <1>1, <1>4, <2>1 DEF Matching
<1>14. Len(over) = Len(pattern) \/ pattern[Len(pattern)] = DoubleStar
  BY <1>1, <1>3, <1>10, BoundsAre
<1>15. Matching'
  BY <1>1, <1>3, <1>12, <1>13, <1>14 DEF Matching
<1> QED
  BY <1>11, <1>15

LEMMA EncodeStep ==
    ASSUME ParserInv, CodecTypes, Matching, Kept, Outcome, EncodePath
    PROVE  Matching' /\ Kept' /\ Outcome'
<1>1. /\ phase = "encode" /\ Calling /\ UNCHANGED <<parser, target, message, uri, got>>
  BY EncodingIs
<1>2. UNCHANGED <<found, pattern>> /\ (Path!Fitting' <=> Path!Fitting)
  BY <1>1, CallingStays DEF parser
<1>3. CASE Path!WrongSize(found[k], PartsOf(k)) \/ Path!Clashes(found[k], PartsOf(k))
  <2>1. phase' = "refused" /\ UNCHANGED <<segments, k>> /\ ~Path!Fitting
    BY <1>3, EncodingIs, RefusedMisfit
  <2> QED
    BY <1>1, <1>2, <2>1 DEF Matching, Kept, Outcome, Calling
<1>4. CASE ~Path!WrongSize(found[k], PartsOf(k)) /\ ~Path!Clashes(found[k], PartsOf(k))
  <2>1. phase' = "encode"
    BY <1>4, <1>1, EncodingIs
  <2> QED
    BY <1>4, <2>1, EncodeKept DEF Outcome
<1> QED
  BY <1>3, <1>4

---------------------------------------------------------------------------
(* What is sent is found *)

LEMMA GreatestNumber ==
    ASSUME NEW n \in Nat, NEW T, T \subseteq 1 .. n, T # {}
    PROVE  \E m \in T : \A x \in T : m >= x
<1> DEFINE U == {d \in 0 .. n : n - d \in T}
<1>1. PICK x \in T : TRUE
  OBVIOUS
<1>2. n - x \in U
  BY n - (n - x) = x
<1>3. PICK d \in U : \A e \in U : d <= e
  BY <1>2, LeastNumber, U \subseteq Nat
<1>4. ASSUME NEW y \in T PROVE n - d >= y
  <2>1. n - y \in U
    BY n - (n - y) = y
  <2>2. d <= n - y
    BY <1>3, <2>1
  <2> QED
    BY <2>2, d \in 0 .. n, y \in 1 .. n
<1> QED
  BY <1>3, <1>4

LEMMA ConcatCuts ==
    ASSUME NEW X, NEW a \in Seq(X), NEW b \in Seq(X)
    PROVE  /\ SubSeq(a \o b, 1, Len(a)) = a
           /\ SubSeq(a \o b, Len(a) + 1, Len(a \o b)) = b
<1> DEFINE s == a \o b
           n == Len(a)
           m == Len(b)
<1>1. /\ s \in Seq(X) /\ Len(s) = n + m /\ n \in Nat /\ m \in Nat
      /\ \A i \in 1 .. n + m : s[i] = IF i <= n THEN a[i] ELSE b[i - n]
  BY ConcatProperties
<1> HIDE DEF s
<1>2. \A i \in 1 .. n + m : s[i] \in X
  BY <1>1, ElementOfSeq
<1> HIDE DEF n, m
<1>3. \A i \in 1 .. n : i \in 1 .. n + m /\ s[i] \in X
  BY <1>1, <1>2
<1>4. \A i \in n + 1 .. n + m : i \in 1 .. n + m /\ s[i] \in X
  BY <1>1, <1>2
<1>5. SubSeq(s, 1, n) = a
  <2>1. /\ SubSeq(s, 1, n) \in Seq(X)
        /\ Len(SubSeq(s, 1, n)) = IF 1 <= n THEN n - 1 + 1 ELSE 0
        /\ \A i \in 1 .. n - 1 + 1 : SubSeq(s, 1, n)[i] = s[1 + i - 1]
    BY <1>1, <1>3, SubSeqProperties
  <2>2. Len(SubSeq(s, 1, n)) = n /\ n - 1 + 1 = n
    BY <1>1, <2>1
  <2>3. \A i \in 1 .. n : SubSeq(s, 1, n)[i] = a[i]
    <3> SUFFICES ASSUME NEW i \in 1 .. n PROVE SubSeq(s, 1, n)[i] = a[i]
      OBVIOUS
    <3>1. 1 + i - 1 = i /\ i <= n
      BY <1>1
    <3> QED
      BY <1>1, <1>3, <2>1, <2>2, <3>1
  <2> QED
    BY <2>1, <2>2, <2>3, SeqEqual DEF n
<1>6. SubSeq(s, n + 1, n + m) = b
  <2> DEFINE c == SubSeq(s, n + 1, n + m)
             lo == n + 1
             hi == n + m
  <2>0. lo \in Int /\ hi \in Int /\ \A i \in lo .. hi : s[i] \in X
    BY <1>1, <1>4
  <2>1. /\ c \in Seq(X)
        /\ Len(c) = IF lo <= hi THEN hi - lo + 1 ELSE 0
        /\ \A i \in 1 .. hi - lo + 1 : c[i] = s[lo + i - 1]
    <3> HIDE DEF lo, hi
    <3>1. /\ SubSeq(s, lo, hi) \in Seq(X)
          /\ Len(SubSeq(s, lo, hi)) = IF lo <= hi THEN hi - lo + 1 ELSE 0
          /\ \A i \in 1 .. hi - lo + 1 : SubSeq(s, lo, hi)[i] = s[lo + i - 1]
      BY <2>0, SubSeqProperties
    <3> QED
      BY <3>1 DEF lo, hi
  <2>2. Len(c) = m /\ hi - lo + 1 = m
    BY <1>1, <2>1
  <2>3. \A i \in 1 .. m : c[i] = b[i]
    <3> SUFFICES ASSUME NEW i \in 1 .. m PROVE c[i] = b[i]
      OBVIOUS
    <3>1. lo + i - 1 = n + i /\ n + i \in 1 .. n + m /\ ~(n + i <= n) /\ n + i - n = i
      BY <1>1
    <3> HIDE DEF c
    <3> QED
      BY <1>1, <2>1, <2>2, <3>1
  <2> HIDE DEF c
  <2>4. c = b
    BY <2>1, <2>2, <2>3, SeqEqual DEF m
  <2> QED
    BY <2>4 DEF c
<1> QED
  BY <1>1, <1>5, <1>6 DEF s, n, m

LEMMA LastOfIs ==
    ASSUME uri \in Seq(Chars), NEW c
    PROVE  \/ Path!LastOf(c) = 0 /\ \A i \in 1 .. Len(uri) : uri[i] # c
           \/ /\ Path!LastOf(c) \in 1 .. Len(uri) /\ uri[Path!LastOf(c)] = c
              /\ \A i \in 1 .. Len(uri) : uri[i] = c => i <= Path!LastOf(c)
<1> DEFINE T == {i \in 1 .. Len(uri) : uri[i] = c}
           Great(m) == \A x \in T : m >= x
<1>1. Path!LastOf(c) = IF T # {} THEN CHOOSE m \in T : Great(m) ELSE 0
  BY DEF Path!LastOf, Path!SelectLastInSeq, Path!Max
<1>2. T # {} => \E m \in T : Great(m)
  <2>1. Len(uri) \in Nat /\ T \subseteq 1 .. Len(uri)
    OBVIOUS
  <2> HIDE DEF T
  <2> QED
    BY <2>1, GreatestNumber
<1>3. T # {} => Path!LastOf(c) \in T /\ Great(Path!LastOf(c))
  <2> HIDE DEF T, Great
  <2> QED
    BY <1>1, <1>2
<1>4. T = {} => Path!LastOf(c) = 0
  <2> HIDE DEF T, Great
  <2> QED
    BY <1>1
<1>5. T = {} => \A i \in 1 .. Len(uri) : uri[i] # c
  OBVIOUS
<1> QED
  BY <1>3, <1>4, <1>5

LEMMA UriIs ==
    ASSUME NEW segs \in Seq(SegmentTexts), segs # <<>>, NEW vb \in Seq(Written)
    PROVE  LET J == Joined(segs)
               u == J \o (IF vb = <<>> THEN <<>> ELSE <<":">> \o vb)
           IN  /\ J \in Seq(Chars \ {":"}) /\ J # <<>> /\ J[1] = "/" /\ Split(Tail(J), "/") = segs
               /\ u \in Seq(Chars) /\ Len(J) \in Nat \ {0} /\ Len(u) \in Nat
               /\ vb = <<>> => u = J
               /\ vb # <<>> => /\ Len(vb) \in Nat \ {0} /\ Len(u) = Len(J) + 1 + Len(vb)
                               /\ SubSeq(u, 1, Len(J)) = J /\ SubSeq(u, Len(J) + 2, Len(u)) = vb
                               /\ u[Len(J) + 1] = ":" /\ u[1] = "/"
                               /\ \A i \in Len(J) + 2 .. Len(u) : u[i] \in Written
<1> DEFINE J == Joined(segs)
           u == J \o (IF vb = <<>> THEN <<>> ELSE <<":">> \o vb)
           NoSlash == Chars \ {"/"}
           NoColon == Chars \ {":"}
<1>1. SegmentTexts \subseteq Seq(NoSlash) /\ SegmentTexts \subseteq Seq(NoColon)
  <2>1. Written \subseteq NoSlash /\ Written \subseteq NoColon /\ "*" \in NoSlash /\ "*" \in NoColon
    BY Alphabet DEF Chars, Hex, Written, Unreserved, Identifier, HexDigits, Digits
  <2>2. <<"*">> \in Seq(NoSlash) /\ <<"*">> \in Seq(NoColon) /\ DoubleStar \in Seq(NoSlash) /\ DoubleStar \in Seq(NoColon)
    BY <2>1 DEF DoubleStar
  <2>3. Seq(Written) \subseteq Seq(NoSlash) /\ Seq(Written) \subseteq Seq(NoColon)
    BY <2>1, SeqMonotonic
  <2> QED
    BY <2>2, <2>3 DEF SegmentTexts, Wildcards, DoubleStar
<1>2. segs \in Seq(Seq(NoSlash)) /\ segs \in Seq(Seq(NoColon))
  BY <1>1, SeqMonotonic
<1>3. "/" \in Chars /\ ":" \in Chars /\ "/" \in NoColon /\ NoColon \subseteq Chars /\ Written \subseteq Chars
  BY Alphabet DEF Chars, Hex
<1>4. J # <<>> /\ J[1] = "/" /\ Split(Tail(J), "/") = segs
  BY <1>2, <1>3, SplitJoined
<1>5. J \in Seq(NoColon) /\ J \in Seq(Chars)
  <2>1. J \in Seq(NoColon)
    BY <1>2, <1>3, JoinedType
  <2> QED
    BY <1>3, <2>1, SeqMonotonic
<1> HIDE DEF J
<1>6. Len(J) \in Nat \ {0}
  BY <1>4, <1>5, EmptySeq
<1>7. CASE vb = <<>>
  <2>1. u = J
    BY <1>5, <1>7, ConcatEmptySeq
  <2> HIDE DEF u, NoColon
  <2> QED
    BY <1>4, <1>5, <1>6, <1>7, <2>1 DEF J, u, NoColon
<1>8. CASE vb # <<>>
  <2> DEFINE colon == <<":">>
             head == J \o colon
  <2>1. vb \in Seq(Chars) /\ Len(vb) \in Nat \ {0} /\ colon \in Seq(Chars) /\ Len(colon) = 1 /\ colon[1] = ":"
    <3>1. vb \in Seq(Chars) /\ colon \in Seq(Chars)
      BY <1>3, SeqMonotonic
    <3>2. Len(vb) \in Nat \ {0}
      BY <1>8, EmptySeq
    <3> QED
      BY <3>1, <3>2
  <2> HIDE DEF colon
  <2>2. colon \o vb \in Seq(Chars) /\ u = J \o (colon \o vb)
    BY <1>8, <2>1, ConcatProperties DEF colon
  <2>3. u = head \o vb /\ head \in Seq(Chars)
    BY <1>5, <2>1, <2>2, ConcatAssociative, ConcatProperties
  <2>4. /\ Len(head) = Len(J) + 1
        /\ \A i \in 1 .. Len(J) + 1 : head[i] = IF i <= Len(J) THEN J[i] ELSE colon[i - Len(J)]
    <3>1. /\ Len(head) = Len(J) + Len(colon)
          /\ \A i \in 1 .. Len(J) + Len(colon) : head[i] = IF i <= Len(J) THEN J[i] ELSE colon[i - Len(J)]
      BY <1>5, <2>1, ConcatProperties
    <3> HIDE DEF head
    <3> QED
      BY <2>1, <3>1
  <2>5. u \in Seq(Chars) /\ SubSeq(u, 1, Len(J)) = J
    <3>1. J \o (colon \o vb) \in Seq(Chars) /\ SubSeq(J \o (colon \o vb), 1, Len(J)) = J
      <4> DEFINE b == colon \o vb
      <4>1. b \in Seq(Chars)
        BY <2>2
      <4> HIDE DEF b
      <4>2. J \o b \in Seq(Chars) /\ SubSeq(J \o b, 1, Len(J)) = J
        BY <1>5, <4>1, ConcatCuts, ConcatProperties
      <4> QED
        BY <4>2 DEF b
    <3> HIDE DEF u
    <3> QED
      BY <2>2, <3>1
  <2> HIDE DEF u, head
  <2>6. /\ Len(u) = Len(head) + Len(vb)
        /\ \A i \in 1 .. Len(head) + Len(vb) : u[i] = IF i <= Len(head) THEN head[i] ELSE vb[i - Len(head)]
        /\ SubSeq(u, Len(head) + 1, Len(u)) = vb
    BY <2>1, <2>3, ConcatCuts, ConcatProperties
  <2> DEFINE n == Len(J)
             m == Len(vb)
  <2>7. n \in Nat \ {0} /\ m \in Nat \ {0} /\ Len(head) = n + 1 /\ Len(u) = n + 1 + m
    BY <1>6, <2>1, <2>4, <2>6
  <2>8. u[n + 1] = ":" /\ u[1] = "/"
    <3>1. n + 1 <= n + 1 /\ ~(n + 1 <= n) /\ n + 1 - n = 1 /\ 1 <= n /\ n + 1 \in 1 .. n + 1 + m
          /\ n + 1 \in 1 .. n + 1 /\ 1 \in 1 .. n + 1 /\ 1 \in 1 .. n + 1 + m /\ 1 <= n + 1
      BY <2>7
    <3>2. u[n + 1] = head[n + 1] /\ u[1] = head[1]
      BY <2>6, <2>7, <3>1
    <3>3. head[n + 1] = colon[1] /\ head[1] = J[1]
      BY <2>4, <3>1
    <3> QED
      BY <1>4, <2>1, <3>2, <3>3
  <2>9. \A i \in n + 2 .. n + 1 + m : u[i] \in Written
    <3> SUFFICES ASSUME NEW i \in n + 2 .. n + 1 + m PROVE u[i] \in Written
      OBVIOUS
    <3>1. i \in 1 .. n + 1 + m /\ ~(i <= n + 1) /\ i - (n + 1) \in 1 .. m
      BY <2>7
    <3>2. u[i] = vb[i - (n + 1)]
      BY <2>6, <2>7, <3>1
    <3> QED
      BY <3>1, <3>2, ElementOfSeq
  <2>10. SubSeq(u, n + 2, Len(u)) = vb
    <3>1. Len(head) + 1 = n + 2
      BY <2>7
    <3> QED
      BY <2>6, <3>1
  <2> HIDE DEF n, m, NoColon
  <2>11. Len(u) \in Nat
    BY <2>7
  <2> QED
    BY <1>4, <1>5, <1>6, <1>8, <2>5, <2>7, <2>8, <2>9, <2>10, <2>11 DEF n, m, J, u, NoColon
<1> QED
  BY <1>7, <1>8

(* The call as it was parsed, with a path to send.                            *)
LEMMA CallIs ==
    ASSUME ParserInv, CodecTypes, Calling
    PROVE  /\ pattern \in Seq(SegmentTexts) /\ pattern # <<>> /\ Len(pattern) \in Nat \ {0}
           /\ segments \in Seq(SegmentTexts) /\ segments # <<>> /\ Len(segments) \in Nat /\ Len(segments) >= Len(pattern)
           /\ DOMAIN pattern = 1 .. Len(pattern) /\ DOMAIN segments = 1 .. Len(segments)
           /\ verb \in Seq(Written) /\ verb \in Seq(Chars)
           /\ target.segments = pattern /\ target.vars = found /\ target.verb = verb
           /\ Path!WithVerb = (IF verb = <<>> THEN <<>> ELSE <<":">> \o verb) /\ Path!WithVerb \in Seq(Chars)
<1>1. at = "accepted" /\ target.segments = pattern /\ target.vars = found /\ target.verb = verb
      /\ segments \in Seq(SegmentTexts) /\ Len(segments) >= Len(pattern)
  BY DEF CodecTypes, Calling
<1>2. pattern \in Seq(SegmentTexts) /\ pattern # <<>> /\ verb \in Seq(Written)
  BY <1>1 DEF ParserInv, ParserTypes, DoubleStarLast
<1>3. Len(pattern) \in Nat \ {0}
  BY <1>2, EmptySeq
<1>4. Len(segments) \in Nat /\ segments # <<>>
  BY <1>1, <1>3, EmptySeq
<1>5. verb \in Seq(Chars)
  BY <1>2, SegmentTextsType DEF SegmentTexts
<1>6. <<":">> \o verb \in Seq(Chars)
  BY <1>5, ConsType, Alphabet
<1> QED
  BY <1>1, <1>2, <1>3, <1>4, <1>5, <1>6, Element DEF Path!WithVerb

LEMMA SentMatches ==
    ASSUME ParserInv, PatternCanonical, CodecTypes, Calling, Matching, uri = Joined(segments) \o Path!WithVerb
    PROVE  Path!Matches
<1> DEFINE J == Joined(segments)
           u == J \o (IF verb = <<>> THEN <<>> ELSE <<":">> \o verb)
<1>1. uri = u /\ target.verb = verb
  BY CallIs
<1>2. /\ J \in Seq(Chars \ {":"}) /\ J # <<>> /\ J[1] = "/" /\ Split(Tail(J), "/") = segments
      /\ u \in Seq(Chars) /\ Len(J) \in Nat \ {0} /\ Len(u) \in Nat
      /\ verb = <<>> => u = J
      /\ verb # <<>> => /\ Len(verb) \in Nat \ {0} /\ Len(u) = Len(J) + 1 + Len(verb)
                        /\ SubSeq(u, 1, Len(J)) = J /\ SubSeq(u, Len(J) + 2, Len(u)) = verb
                        /\ u[Len(J) + 1] = ":" /\ u[1] = "/"
                        /\ \A i \in Len(J) + 2 .. Len(u) : u[i] \in Written
  BY CallIs, UriIs
<1>3. Path!Fits(segments)
  <2>1. \A i \in DOMAIN pattern : pattern[i] \in Wildcards \/ (Valid(segments[i]) /\ Canonical(segments[i]) = pattern[i])
    BY DEF PatternCanonical, Matching
  <2>2. IF Path!Last(pattern) = DoubleStar THEN Len(segments) >= Len(pattern) ELSE Len(segments) = Len(pattern)
    BY CallIs DEF Matching, Path!Last
  <2> QED
    BY <2>1, <2>2, CallIs, PathEscapes, PathWildcards DEF Path!Fits, DoubleStar
<1>4. Path!Routed(J, verb)
  BY <1>1, <1>2, <1>3, PathEscapes DEF Path!Routed
<1> HIDE DEF u, J
<1>5. /\ uri \in Seq(Chars)
      /\ \/ Path!LastOf(":") = 0 /\ \A i \in 1 .. Len(uri) : uri[i] # ":"
         \/ /\ Path!LastOf(":") \in 1 .. Len(uri) /\ uri[Path!LastOf(":")] = ":"
            /\ \A i \in 1 .. Len(uri) : uri[i] = ":" => i <= Path!LastOf(":")
      /\ \/ Path!LastOf("/") = 0 /\ \A i \in 1 .. Len(uri) : uri[i] # "/"
         \/ /\ Path!LastOf("/") \in 1 .. Len(uri) /\ uri[Path!LastOf("/")] = "/"
            /\ \A i \in 1 .. Len(uri) : uri[i] = "/" => i <= Path!LastOf("/")
  <2>1. uri \in Seq(Chars)
    BY <1>1, <1>2
  <2> QED
    BY <2>1, LastOfIs
<1>6. Path!Last(uri) = uri[Len(uri)]
  BY DEF Path!Last
<1>7. CASE verb = <<>>
  <2>1. \A i \in 1 .. Len(uri) : uri[i] # ":"
    BY <1>1, <1>2, <1>7, ElementOfSeq
  <2>2. Path!LastOf(":") = 0 /\ ~(Path!LastOf(":") > Path!LastOf("/"))
    BY <1>5, <2>1
  <2>3. Path!Last(uri) # ":"
    BY <1>1, <1>2, <1>6, <1>7, <2>1
  <2>4. Path!Routed(uri, <<>>)
    BY <1>1, <1>2, <1>4, <1>7
  <2> QED
    BY <2>2, <2>3, <2>4 DEF Path!Matches
<1>8. CASE verb # <<>>
  <2> DEFINE n == Len(J)
             m == Len(verb)
             C == Path!LastOf(":")
             S == Path!LastOf("/")
  <2>1. /\ n \in Nat \ {0} /\ m \in Nat \ {0} /\ Len(uri) = n + 1 + m /\ uri[n + 1] = ":" /\ uri[1] = "/"
        /\ \A i \in n + 2 .. n + 1 + m : uri[i] # ":" /\ uri[i] # "/"
        /\ SubSeq(uri, 1, n) = J /\ SubSeq(uri, n + 2, Len(uri)) = verb
    <3>1. ":" \notin Written /\ "/" \notin Written
      BY Alphabet
    <3> QED
      BY <1>1, <1>2, <1>8, <3>1
  <2>2. /\ \/ C = 0 /\ \A i \in 1 .. n + 1 + m : uri[i] # ":"
           \/ C \in 1 .. n + 1 + m /\ uri[C] = ":" /\ \A i \in 1 .. n + 1 + m : uri[i] = ":" => i <= C
        /\ \/ S = 0 /\ \A i \in 1 .. n + 1 + m : uri[i] # "/"
           \/ S \in 1 .. n + 1 + m /\ uri[S] = "/"
    BY <1>5, <2>1
  <2> HIDE DEF n, m, C, S
  <2>3. n + 1 \in 1 .. n + 1 + m /\ 1 \in 1 .. n + 1 + m /\ n + 1 + m \in n + 2 .. n + 1 + m
    BY <2>1
  <2>4. C = n + 1
    <3>1. C \in 1 .. n + 1 + m /\ n + 1 <= C /\ uri[C] = ":"
      BY <2>1, <2>2, <2>3
    <3>2. C \notin n + 2 .. n + 1 + m
      BY <2>1, <3>1
    <3> QED
      BY <2>1, <3>1, <3>2
  <2>5. S < n + 1
    <3>1. S \in 1 .. n + 1 + m /\ uri[S] = "/"
      BY <2>1, <2>2, <2>3
    <3>2. S \notin n + 2 .. n + 1 + m /\ S # n + 1
      BY <2>1, <3>1
    <3> QED
      BY <2>1, <3>1, <3>2
  <2>6. C > S /\ C - 1 = n /\ C + 1 = n + 2
    BY <2>1, <2>2, <2>4, <2>5
  <2>7. Path!Last(uri) # ":"
    BY <1>6, <2>1, <2>3
  <2>8. Path!Routed(SubSeq(uri, 1, C - 1), SubSeq(uri, C + 1, Len(uri)))
    BY <1>4, <2>1, <2>6
  <2> QED
    BY <2>6, <2>7, <2>8 DEF Path!Matches, C, S
<1> QED
  BY <1>7, <1>8

(* What a variable captures: its segments of the path, without the verb.      *)
Mine(i) == SubSeq(segments, found[i].start + 1, IF found[i].end = -1 THEN Len(segments) ELSE found[i].end)

LEMMA CapturedIs ==
    ASSUME ParserInv, CodecTypes, Calling, Matching, uri = Joined(segments) \o Path!WithVerb, NEW i \in DOMAIN found
    PROVE  /\ Path!Captured(found[i]) = Tail(Joined(Mine(i)))
           /\ Path!Captured(found[i]) \in Seq(Chars) /\ Valid(Path!Captured(found[i]))
           /\ Len(Mine(i)) = (IF found[i].end = -1 THEN Len(segments) ELSE found[i].end) - found[i].start
           /\ \A p \in 1 .. Len(Mine(i)) : Mine(i)[p] = segments[found[i].start + p]
           /\ Mine(i) \in Seq(ValidText)
<1> DEFINE J == Joined(segments)
           w == Path!WithVerb
           a == found[i].start
           b == IF found[i].end = -1 THEN Len(segments) ELSE found[i].end
<1>1. J \in Seq(Chars) /\ Split(Tail(J), "/") = segments /\ w \in Seq(Chars)
  <2>1. /\ segments \in Seq(SegmentTexts) /\ segments # <<>> /\ verb \in Seq(Written) /\ w \in Seq(Chars)
    BY CallIs
  <2>2. J \in Seq(Chars \ {":"}) /\ Split(Tail(J), "/") = segments
    BY <2>1, UriIs
  <2> QED
    BY <2>1, <2>2, SeqMonotonic
<1>2. Path!TrimVerb = J
  <2> HIDE DEF J, w
  <2>1. SubSeq(J \o w, 1, Len(J)) = J /\ Len(J \o w) = Len(J) + Len(w) /\ Len(J) \in Nat /\ Len(w) \in Nat
    BY <1>1, ConcatCuts, ConcatProperties
  <2>2. uri = J \o w
    BY DEF J, w
  <2>3. Len(uri) - Len(w) = Len(J)
    BY <2>1, <2>2
  <2> QED
    BY <2>1, <2>2, <2>3 DEF Path!TrimVerb, w
<1>3. Path!Captured(found[i]) = Tail(Joined(Mine(i)))
  BY <1>1, <1>2, PathEscapes DEF Path!Captured, Mine
<1>4. /\ a \in Nat /\ b \in Nat /\ a < b /\ b <= Len(segments) /\ Len(segments) \in Nat
  <2>1. /\ a \in Nat /\ a < Len(pattern) /\ Len(pattern) \in Nat
        /\ found[i].end # -1 => found[i].end \in Nat /\ a < found[i].end /\ found[i].end <= Len(pattern)
    BY BoundsAre
  <2>2. Len(segments) \in Nat /\ Len(segments) >= Len(pattern)
    BY CallIs
  <2>3. b = IF found[i].end = -1 THEN Len(segments) ELSE found[i].end
    OBVIOUS
  <2> HIDE DEF a, b
  <2>4. CASE found[i].end = -1
    BY <2>1, <2>2, <2>3, <2>4
  <2>5. CASE found[i].end # -1
    <3>1. b \in Nat /\ a < b /\ b <= Len(pattern)
      BY <2>1, <2>3, <2>5
    <3> QED
      BY <2>1, <2>2, <3>1
  <2> QED
    BY <2>4, <2>5
<1>5. segments \in Seq(ValidText) /\ DOMAIN segments = 1 .. Len(segments)
  BY CallIs DEF Matching
<1> DEFINE lo == a + 1
           n == Len(segments)
<1> HIDE DEF a, b, J, w
<1>6. lo \in Int /\ b \in Int /\ lo <= b /\ b - lo + 1 = b - a /\ b - a \in Nat \ {0}
      /\ \A j \in lo .. b : segments[j] \in ValidText
  <2>1. \A j \in lo .. b : j \in 1 .. n
    BY <1>4
  <2>2. \A j \in 1 .. n : segments[j] \in ValidText
    BY <1>5, ElementOfSeq
  <2>3. \A j \in lo .. b : segments[j] \in ValidText
    BY <2>1, <2>2
  <2>4. lo \in Int /\ b \in Int /\ lo <= b /\ b - lo + 1 = b - a /\ b - a \in Nat \ {0}
    BY <1>4
  <2> QED
    BY <2>3, <2>4
<1> HIDE DEF n, lo
<1>7. /\ SubSeq(segments, lo, b) \in Seq(ValidText)
      /\ Len(SubSeq(segments, lo, b)) = IF lo <= b THEN b - lo + 1 ELSE 0
      /\ \A p \in 1 .. b - lo + 1 : SubSeq(segments, lo, b)[p] = segments[lo + p - 1]
  BY <1>6, SubSeqProperties
<1>8. Mine(i) = SubSeq(segments, lo, b)
  BY DEF Mine, a, b, lo
<1>9. Mine(i) \in Seq(ValidText) /\ Len(Mine(i)) = b - a /\ Len(Mine(i)) # 0
      /\ \A p \in 1 .. b - lo + 1 : Mine(i)[p] = segments[lo + p - 1]
  BY <1>6, <1>7, <1>8
<1>10. \A p \in 1 .. Len(Mine(i)) : Mine(i)[p] = segments[a + p]
  <2> SUFFICES ASSUME NEW p \in 1 .. Len(Mine(i)) PROVE Mine(i)[p] = segments[a + p]
    OBVIOUS
  <2>1. p \in 1 .. b - a
    BY <1>9
  <2>2. lo + p - 1 = a + p
    BY <1>4, <2>1 DEF lo
  <2> QED
    BY <1>6, <1>9, <2>1, <2>2
<1>11. Tail(Joined(Mine(i))) \in Seq(Chars) /\ Valid(Tail(Joined(Mine(i))))
  <2> DEFINE mine == Mine(i)
  <2>1. mine \in Seq(ValidText) /\ mine # <<>>
    BY <1>9
  <2>2. Joined(mine) \in Seq(Chars) /\ Valid(Joined(mine))
    BY <2>1, JoinedValid DEF ValidText
  <2>3. Joined(mine) # <<>>
    <3>1. mine = Cons(mine[1], Tail(mine)) /\ mine[1] \in ValidText /\ Tail(mine) \in Seq(ValidText)
      BY <2>1, Uncons DEF Cons
    <3>2. mine[1] \in Seq(Chars) /\ Tail(mine) \in Seq(Seq(Chars))
      <4>1. ValidText \subseteq Seq(Chars)
        BY DEF ValidText
      <4> QED
        BY <3>1, <4>1, SeqMonotonic
    <3> DEFINE x == mine[1]
               t == Tail(mine)
    <3> HIDE DEF mine
    <3>3. x \in Seq(Chars) /\ t \in Seq(Seq(Chars)) /\ mine = Cons(x, t)
      BY <3>1, <3>2
    <3> HIDE DEF x, t
    <3>4. Joined(mine) = Cons("/", x \o Joined(t)) /\ Joined(t) \in Seq(Chars)
      BY <3>3, JoinedThen
    <3>5. x \o Joined(t) \in Seq(Chars)
      BY <3>3, <3>4, ConcatProperties
    <3> QED
      BY <3>4, <3>5, ConsIs, Alphabet
  <2> HIDE DEF mine
  <2>4. Tail(Joined(mine)) \in Seq(Chars) /\ Valid(Tail(Joined(mine)))
    BY <2>2, <2>3, ValidTail
  <2> QED
    BY <2>4 DEF mine
<1> QED
  BY <1>3, <1>9, <1>10, <1>11 DEF a, b

---------------------------------------------------------------------------
(* What fits arrives *)

LEMMA CameIs ==
    \A j : /\ Came(j) <=> IF Path!Size(found[j]) = 1 THEN got[found[j].field] = message[found[j].field]
                          ELSE Same(got[found[j].field], message[found[j].field])
           /\ Came(j)' <=> IF Path!Size(found'[j]) = 1 THEN got'[found'[j].field] = message'[found'[j].field]
                           ELSE Same(got'[found'[j].field], message'[found'[j].field])
BY DEF Came, Path!Arrived, Path!Size, Path!Same, Same

(* A variable captures the parts that were written for it.                    *)
LEMMA MineIsParts ==
    ASSUME ParserInv, CodecTypes, Calling, Matching, Kept, phase \in {"sent", "capture", "done"},
           uri = Joined(segments) \o Path!WithVerb, Path!Fitting, NEW i \in DOMAIN found
    PROVE  Mine(i) = PartsOf(i)
<1>1. Encoded = DOMAIN found
  BY DEF Encoded
<1>2. /\ \A j \in DOMAIN found :
            /\ Till(j) <= Len(segments)
            /\ \A p \in DOMAIN PartsOf(j) : segments[found[j].start + p] = PartsOf(j)[p]
      /\ \/ Len(segments) = Len(pattern)
         \/ \E j \in DOMAIN found : found[j].end = -1 /\ Len(segments) = Till(j)
  BY <1>1 DEF Kept
<1>3. /\ found[i].start \in Nat /\ PartsOf(i) \in Seq(ValidText) /\ Len(PartsOf(i)) \in Nat
      /\ DOMAIN PartsOf(i) = 1 .. Len(PartsOf(i)) /\ Till(i) = found[i].start + Len(PartsOf(i))
      /\ Len(segments) \in Nat /\ Len(pattern) \in Nat
  BY BoundsAre, PartsAre, CallIs DEF PartsOf, Till
<1>4. /\ Len(Mine(i)) = (IF found[i].end = -1 THEN Len(segments) ELSE found[i].end) - found[i].start
      /\ \A p \in 1 .. Len(Mine(i)) : Mine(i)[p] = segments[found[i].start + p]
      /\ Mine(i) \in Seq(ValidText)
  BY CapturedIs
<1>5. ASSUME Len(Mine(i)) = Len(PartsOf(i)) PROVE Mine(i) = PartsOf(i)
  <2>1. ASSUME NEW p \in 1 .. Len(Mine(i)) PROVE Mine(i)[p] = PartsOf(i)[p]
    <3>1. p \in DOMAIN PartsOf(i)
      BY <1>3, <1>5
    <3>2. segments[found[i].start + p] = PartsOf(i)[p]
      BY <1>2, <3>1
    <3> QED
      BY <1>4, <3>2
  <2> QED
    BY <1>3, <1>4, <1>5, <2>1, SeqEqual
<1>6. CASE found[i].end # -1
  <2>1. Len(Mine(i)) = Len(PartsOf(i))
    BY <1>4, <1>6, FittingIs
  <2> QED
    BY <2>1, <1>5
<1>7. CASE found[i].end = -1
  <2>1. Till(i) <= Len(segments)
    BY <1>2
  <2>2. Till(i) = Len(segments)
    <3>1. CASE Len(segments) = Len(pattern)
      <4>1. Till(i) >= Len(pattern)
        BY <1>7, FittingIs
      <4>2. Till(i) \in Nat
        BY <1>3
      <4> QED
        BY <1>3, <2>1, <3>1, <4>1, <4>2
    <3>2. CASE \E j \in DOMAIN found : found[j].end = -1 /\ Len(segments) = Till(j)
      BY <1>7, <3>2, FittingIs
    <3> QED
      BY <1>2, <3>1, <3>2
  <2>3. Len(Mine(i)) = Len(PartsOf(i))
    <3>1. Len(Mine(i)) = Len(segments) - found[i].start
      BY <1>4, <1>7
    <3>2. Len(segments) = found[i].start + Len(PartsOf(i))
      BY <1>3, <2>2
    <3> QED
      BY <1>3, <3>1, <3>2
  <2> QED
    BY <2>3, <1>5
<1> QED
  BY <1>6, <1>7

LEMMA JoinedOne == ASSUME NEW e \in Seq(Chars) PROVE Tail(Joined(<<e>>)) = e
<1>1. <<>> \in Seq(Seq(Chars)) /\ <<e>> \in Seq(Seq(Chars))
  OBVIOUS
<1>2. Cons(e, <<>>) = <<e>>
  BY <1>1, ConcatEmptySeq DEF Cons
<1>3. Tail(Joined(Cons(e, <<>>))) = e \o Joined(<<>>)
  BY <1>1, JoinedThen
<1>4. e \o <<>> = e
  BY ConcatEmptySeq
<1> QED
  BY <1>2, <1>3, <1>4, JoinedEmpty

(* And unescapes them to the value they were made of.                         *)
LEMMA ValueArrives ==
    ASSUME ParserInv, CodecTypes, Calling, Matching, Kept, phase \in {"sent", "capture", "done"},
           uri = Joined(segments) \o Path!WithVerb, Path!Fitting, NEW i \in DOMAIN found
    PROVE  LET v == found[i]
               value == Unescape(Path!Captured(v), Path!CaptureMode(v))
           IN  /\ Path!Size(v) = 1 => value = message[v.field]
               /\ Path!Size(v) # 1 => Same(value, message[v.field])
<1> DEFINE v == found[i]
           sent == message[v.field]
           raw == Path!Captured(v)
           e == Escape(sent, "single")
           es == EscapedParts(Split(sent, "/"))
<1>1. raw = Tail(Joined(PartsOf(i)))
  BY MineIsParts, CapturedIs
<1>2. /\ sent \in Seq(Chars)
      /\ Path!Size(v) = 1 => PartsOf(i) = <<e>>
      /\ Path!Size(v) # 1 => PartsOf(i) = es
  BY PartsAre DEF PartsOf
<1>3. Path!CaptureMode(v) = IF Path!Size(v) = 1 THEN "single" ELSE "multi"
  <2>1. v.end = -1 => Path!Size(v) # 1
    BY BoundsAre
  <2> QED
    BY <2>1 DEF Path!CaptureMode, Path!Size
<1> HIDE DEF v, sent, raw
<1>4. CASE Path!Size(v) = 1
  <2>1. raw = Tail(Joined(<<e>>)) /\ e \in Seq(Chars)
    BY <1>1, <1>2, <1>4, EscapedIs
  <2>2. raw = e
    BY <2>1, JoinedOne
  <2>3. Unescape(e, "single") = sent
    BY <1>2, UnescapeEscape
  <2> QED
    BY <1>3, <1>4, <2>2, <2>3 DEF v, sent, raw
<1>5. CASE Path!Size(v) # 1
  <2>1. raw = Tail(Joined(es))
    BY <1>1, <1>2, <1>5
  <2>2. Same(Unescape(Tail(Joined(es)), "multi"), sent)
    BY <1>2, ValueRound
  <2> QED
    BY <1>3, <1>5, <2>1, <2>2 DEF v, sent, raw
<1> QED
  BY <1>4, <1>5

(* Of two variables with one name the later is a single segment only if the  *)
(* earlier is.                                                                *)
LEMMA SmallerInside ==
    ASSUME ParserInv, Nesting, NEW i \in DOMAIN found, NEW j \in DOMAIN found, i < j,
           found[i].field = found[j].field, Path!Size(found[j]) = 1
    PROVE  Path!Size(found[i]) = 1
<1>1. /\ found[j].start <= found[i].start
      /\ found[j].end # -1 => found[i].end # -1 /\ found[i].end <= found[j].end
  BY DEF Nesting
<1>2. found[j].end # -1
  BY BoundsAre
<1>3. /\ found[j].start \in Nat /\ found[j].end \in Nat /\ found[j].end - found[j].start = 1
      /\ found[i].start \in Nat /\ found[i].end \in Nat /\ found[i].start < found[i].end
      /\ Path!Size(found[i]) = found[i].end - found[i].start
  BY <1>1, <1>2, BoundsAre
<1> DEFINE a == found[i].start
           b == found[i].end
           c == found[j].start
           d == found[j].end
<1>4. c <= a /\ b <= d /\ d - c = 1 /\ a < b /\ a \in Nat /\ b \in Nat /\ c \in Nat /\ d \in Nat
  BY <1>1, <1>2, <1>3
<1> HIDE DEF a, b, c, d
<1>5. b - a = 1
  BY <1>4
<1> QED
  BY <1>3, <1>5 DEF a, b

LEMMA CaptureStep ==
    ASSUME ParserInv, CodecTypes, Division, Nesting, Matching, Kept, Outcome, CaptureVariable
    PROVE  Matching' /\ Kept' /\ Outcome'
<1>1. /\ phase = "capture" /\ decoded /\ Calling /\ k > 0 /\ k \in DOMAIN found /\ k \in Nat /\ target.vars = found
      /\ Len(found) \in Nat /\ DOMAIN found = 1 .. Len(found) /\ found \in Seq(VariableType)
      /\ UNCHANGED <<parser, target, message, segments, uri>>
  <2>1. /\ phase = "capture" /\ decoded /\ Calling /\ k > 0 /\ target.vars = found /\ k \in 0 .. Len(found) + 1
        /\ k <= Len(found) /\ UNCHANGED <<parser, target, message, segments, uri>>
    BY DEF CaptureVariable, Path!CaptureVariable, CodecTypes, Calling
  <2>2. found \in Seq(VariableType) /\ Len(found) \in Nat /\ DOMAIN found = 1 .. Len(found)
    BY DEF ParserInv, ParserTypes
  <2> QED
    BY <2>1, <2>2
<1>2. uri = Joined(segments) \o Path!WithVerb
  BY <1>1 DEF Outcome
<1> DEFINE v == found[k]
           value == Unescape(Path!Captured(v), Path!CaptureMode(v))
<1>3. /\ k' = k - 1 /\ phase' = "capture"
      /\ got' = [h \in DOMAIN got \cup {v.field} |-> IF h = v.field THEN value ELSE got[h]]
  <2>1. Path!Valid(Path!Captured(v))
    BY <1>1, <1>2, CapturedIs, PathEscapes
  <2> QED
    BY <1>1, <2>1, PathEscapes DEF CaptureVariable, Path!CaptureVariable
<1>4. DOMAIN got = {found[j].field : j \in k + 1 .. Len(found)}
  BY <1>1 DEF Division
<1>5. UNCHANGED <<found, pattern, verb>> /\ (Path!Fitting' <=> Path!Fitting) /\ Encoded' = Encoded
      /\ \A i : PartsOf(i)' = PartsOf(i) /\ Till(i)' = Till(i)
  BY <1>1, <1>3, CallingStays DEF parser, Encoded
<1>6. ASSUME Path!Fitting, NEW j \in k .. Len(found) PROVE Came(j)'
  <2>1. /\ Path!Size(v) = 1 => value = message[v.field]
        /\ Path!Size(v) # 1 => Same(value, message[v.field])
    BY <1>1, <1>2, <1>6, ValueArrives
  <2> HIDE DEF value
  <2>2. j \in DOMAIN found
    BY <1>1
  <2> SUFFICES IF Path!Size(found[j]) = 1 THEN got'[found[j].field] = message[found[j].field]
               ELSE Same(got'[found[j].field], message[found[j].field])
    BY <1>1, <1>5, CameIs
  <2>3. CASE found[j].field = v.field
    <3>1. got'[found[j].field] = value
      BY <1>3, <2>3
    <3>2. Path!Size(found[j]) = 1 => Path!Size(v) = 1
      <4>1. CASE j = k
        BY <4>1
      <4>2. CASE j # k
        <5>1. k < j
          BY <1>1, <4>2
        <5> QED
          BY <1>1, <2>2, <2>3, <5>1, SmallerInside
      <4> QED
        BY <4>1, <4>2
    <3>3. Same(message[v.field], message[v.field])
      <4>1. message[v.field] \in Seq(Chars)
        BY <1>1, PartsAre
      <4>2. message[v.field] \in Seq(Decoded)
        BY <4>1, DecodedText
      <4> QED
        BY <4>2, SameItself
    <3>4. Same(value, message[v.field])
      BY <2>1, <3>3
    <3> QED
      BY <2>1, <2>3, <3>1, <3>2, <3>4
  <2>4. CASE found[j].field # v.field
    <3>1. j \in k + 1 .. Len(found)
      BY <1>1, <2>4
    <3>2. Came(j)
      BY <1>1, <1>6, <3>1 DEF Outcome
    <3>3. got'[found[j].field] = got[found[j].field]
      BY <1>3, <1>4, <2>4, <3>1
    <3> QED
      BY <3>2, <3>3, CameIs
  <2> QED
    BY <2>3, <2>4
<1>7. k' + 1 .. Len(found) = k .. Len(found)
  BY <1>1, <1>3
<1>8. Path!WithVerb' = Path!WithVerb
  BY <1>1 DEF Path!WithVerb
<1>9. Outcome'
  <2>1. Path!Fitting' => \A j \in k' + 1 .. Len(found') : Came(j)'
    BY <1>5, <1>6, <1>7
  <2>2. uri' = Joined(segments') \o Path!WithVerb'
    BY <1>1, <1>2, <1>8
  <2> QED
    BY <1>3, <2>1, <2>2 DEF Outcome
<1>10. Matching'
  BY <1>1, <1>3, <1>5 DEF Matching, Calling
<1>11. Kept'
  BY <1>1, <1>3, <1>5 DEF Kept
<1> QED
  BY <1>9, <1>10, <1>11

PathParts == Matching /\ Kept /\ Outcome

(* A step that leaves the path and the variables alone.                       *)
LEMMA PathStays ==
    ASSUME PathParts, Calling, UNCHANGED <<found, pattern, target, message, segments, uri, got>>,
           \/ phase' = phase /\ k' = k
           \/ phase = "encode" /\ phase' = "unencodable"
           \/ phase = "capture" /\ phase' = "done" /\ k' = k
    PROVE  PathParts'
<1>1. /\ Path!Fitting' <=> Path!Fitting
      /\ \A i : PartsOf(i)' = PartsOf(i) /\ Till(i)' = Till(i) /\ (Came(i)' <=> Came(i))
      /\ Path!WithVerb' = Path!WithVerb
  BY CallingStays, CameIs DEF Path!WithVerb
<1>2. phase' \in {"encode", "sent", "capture", "done"} => Encoded' = Encoded /\ phase \in {"encode", "sent", "capture", "done"}
  BY DEF Encoded
<1>3. Matching'
  BY DEF PathParts, Matching, Calling
<1>4. Kept'
  BY <1>1, <1>2 DEF PathParts, Kept
<1>5. Outcome'
  BY <1>1 DEF PathParts, Outcome
<1> QED
  BY <1>3, <1>4, <1>5 DEF PathParts

LEMMA BeginStep == ASSUME ParserInv, CodecTypes, PatternCanonical, PathParts, Bind PROVE PathParts'
<1>1. phase = "idle" /\ ~Calling /\ k = 1 /\ UNCHANGED parser
  BY DEF Bind, CodecTypes, Calling
<1>2. UNCHANGED <<found, pattern, verb>>
  BY <1>1 DEF parser
<1>3. CASE phase' \in {"unbound", "unmarshalable"}
  BY <1>3 DEF PathParts, Matching, Kept, Outcome, Calling
<1>4. CASE phase' = "encode" /\ segments' = pattern /\ k' = 1
  <2>1. pattern \in Seq(SegmentTexts) /\ Len(pattern) \in Nat
    BY DEF ParserInv, ParserTypes
  <2>2. \A j \in DOMAIN pattern : pattern[j] \in ValidText
    <3> SUFFICES ASSUME NEW j \in DOMAIN pattern PROVE pattern[j] \in ValidText
      OBVIOUS
    <3>1. pattern[j] \in Seq(Chars)
      BY <2>1, Element, SegmentTextsType
    <3>2. CASE pattern[j] \in Wildcards
      <4>1. "*" # "%" /\ "*" \in Chars
        BY Alphabet
      <4>2. Valid(<<"*">>) /\ Valid(<<"*", "*">>)
        <5>1. Len(<<"*">>) = 1 /\ Len(<<"*", "*">>) = 2
          OBVIOUS
        <5>2. \A i \in 1 .. 1 : <<"*">>[i] = "*"
          OBVIOUS
        <5>3. \A i \in 1 .. 2 : <<"*", "*">>[i] = "*"
          OBVIOUS
        <5> QED
          BY <4>1, <5>1, <5>2, <5>3 DEF Valid
      <4> QED
        BY <3>1, <3>2, <4>2 DEF ValidText, Wildcards
    <3>3. CASE pattern[j] \notin Wildcards
      BY <3>1, <3>3 DEF PatternCanonical, ValidText
    <3> QED
      BY <3>2, <3>3
  <2>3. pattern \in Seq(ValidText)
    BY <2>1, <2>2, Retyped
  <2>4. Matching'
    BY <1>2, <1>4, <2>3 DEF Matching
  <2>5. Encoded' = {}
    <3>1. 1 .. 1 - 1 = {}
      OBVIOUS
    <3> QED
      BY <1>4, <3>1 DEF Encoded
  <2>6. Kept'
    BY <1>2, <1>4, <2>5 DEF Kept
  <2>7. Outcome'
    BY <1>4 DEF Outcome
  <2> QED
    BY <2>4, <2>6, <2>7 DEF PathParts
<1>5. phase' \in {"unbound", "unmarshalable"} \/ (phase' = "encode" /\ segments' = pattern /\ k' = 1)
  <2>1. PICK try \in Requests(input) :
         /\ IF Bindable(try.body) /\ Marshalable
            THEN Path!Begin([segments |-> pattern, vars |-> found, verb |-> verb], try.message)
            ELSE phase' \in {"unbound", "unmarshalable"}
    BY DEF Bind
  <2> QED
    BY <1>1, <2>1 DEF Path!Begin
<1> QED
  BY <1>3, <1>4, <1>5

LEMMA SendStep == ASSUME ParserInv, CodecTypes, PathParts, Send PROVE PathParts'
<1>1. /\ phase = "encode" /\ Calling /\ target.vars = found /\ k > Len(found) /\ phase' = "sent"
      /\ uri' = Path!Joined(segments) \o Path!WithVerb
      /\ UNCHANGED <<parser, target, message, segments, k, got>>
  BY DEF Send, Path!Send, CodecTypes, Calling
<1>2. UNCHANGED <<found, pattern>> /\ Encoded' = Encoded
  <2>1. k \in 0 .. Len(found) + 1 /\ Len(found) \in Nat /\ DOMAIN found = 1 .. Len(found)
    BY DEF CodecTypes, ParserInv, ParserTypes
  <2>2. k - 1 = Len(found)
    BY <1>1, <2>1
  <2> QED
    BY <1>1, <2>1, <2>2 DEF Encoded, parser
<1>3. \A i : PartsOf(i)' = PartsOf(i) /\ Till(i)' = Till(i)
  BY <1>1, <1>2, CallingStays
<1>4. Matching'
  BY <1>1, <1>2 DEF PathParts, Matching, Calling
<1>5. Kept'
  BY <1>1, <1>2, <1>3 DEF PathParts, Kept
<1>6. Outcome'
  <2>1. Path!WithVerb' = Path!WithVerb /\ Path!Joined(segments) = Joined(segments)
    BY <1>1, PathEscapes DEF Path!WithVerb
  <2> QED
    BY <1>1, <2>1 DEF Outcome
<1> QED
  BY <1>4, <1>5, <1>6 DEF PathParts

LEMMA MatchStep == ASSUME ParserInv, PatternCanonical, CodecTypes, PathParts, Match PROVE PathParts'
<1>1. /\ phase = "sent" /\ Calling /\ target.vars = found /\ k' = Len(found) /\ Len(found) \in Nat
      /\ phase' = IF Path!Matches THEN "capture" ELSE "notFound"
      /\ UNCHANGED <<parser, target, message, segments, uri, got>>
  BY DEF Match, Path!Match, CodecTypes, Calling, ParserInv, ParserTypes
<1>2. uri = Joined(segments) \o Path!WithVerb
  BY <1>1 DEF PathParts, Outcome
<1>3. phase' = "capture"
  BY <1>1, <1>2, SentMatches DEF PathParts
<1>4. UNCHANGED <<found, pattern>> /\ Encoded' = Encoded /\ Path!WithVerb' = Path!WithVerb
      /\ \A i : PartsOf(i)' = PartsOf(i) /\ Till(i)' = Till(i)
  BY <1>1, <1>3, CallingStays DEF parser, Encoded, Path!WithVerb
<1>5. Matching'
  BY <1>1, <1>3, <1>4 DEF PathParts, Matching, Calling
<1>6. Kept'
  BY <1>1, <1>3, <1>4 DEF PathParts, Kept
<1>7. Outcome'
  <2>1. k' + 1 .. Len(found') = {}
    BY <1>1, <1>4
  <2>2. uri' = Joined(segments') \o Path!WithVerb'
    BY <1>1, <1>2, <1>4
  <2> QED
    BY <1>3, <2>1, <2>2 DEF Outcome
<1> QED
  BY <1>5, <1>6, <1>7 DEF PathParts

LEMMA PathInit == Init => PathInv
<1> SUFFICES ASSUME Init PROVE PathInv
  OBVIOUS
<1>1. pattern = <<>> /\ open = <<>> /\ found = <<>> /\ phase = "idle" /\ DOMAIN <<>> = {}
  BY DEF Init, Template!Init, Path!Init
<1> QED
  BY <1>1 DEF PathInv, PatternCanonical, Nesting, Matching, Kept, Outcome, Calling

LEMMA PathStep == ASSUME IInv, PathInv, [Next]_vars PROVE PathInv'
<1>0. ParserInv /\ CodecTypes /\ Division /\ PatternCanonical /\ Nesting /\ PathParts
  BY DEF IInv, PathInv, PathParts
<1>1. CASE ReadTemplate
  <2>1. phase = "idle" /\ phase' = "idle"
    BY <1>0, <1>1, ParseStep, ReadCodecTypes DEF ReadTemplate, codec
  <2>2. PatternCanonical' /\ Nesting'
    BY <1>0, <1>1, PatternStep, NestingStep DEF ReadTemplate
  <2> QED
    BY <2>1, <2>2 DEF PathInv, Matching, Kept, Outcome, Calling
<1>2. CASE UNCHANGED parser
  <2>0. UNCHANGED <<found, pattern, open>>
    BY <1>2 DEF parser
  <2>1. PatternCanonical' /\ Nesting'
    BY <1>0, <2>0 DEF PatternCanonical, Nesting
  <2>2. ASSUME Bind PROVE PathParts'
    BY <1>0, <2>2, BeginStep
  <2>3. ASSUME EncodePath PROVE PathParts'
    BY <1>0, <2>3, EncodeStep DEF PathParts
  <2>4. ASSUME NEW field \in Fields, EncodeField(field) PROVE PathParts'
    <3>1. /\ phase = "encode" /\ phase' \in {"encode", "unencodable"}
          /\ UNCHANGED <<target, message, segments, k, uri, got>>
      BY <2>4 DEF EncodeField, PathWritten
    <3> QED
      BY <1>0, <2>0, <3>1, PathStays DEF Calling
  <2>5. ASSUME Send PROVE PathParts'
    BY <1>0, <2>5, SendStep
  <2>6. ASSUME Match PROVE PathParts'
    BY <1>0, <2>6, MatchStep
  <2>7. ASSUME DecodeBody \/ \E field \in Fields : DecodeParameter(field) PROVE PathParts'
    BY <1>0, <2>0, <2>7, PathStays DEF DecodeBody, DecodeParameter, codec, Calling
  <2>8. ASSUME CaptureVariable PROVE PathParts'
    BY <1>0, <2>8, CaptureStep DEF PathParts
  <2>9. ASSUME Delivered PROVE PathParts'
    BY <1>0, <2>0, <2>9, PathStays DEF Delivered, Path!CaptureDone, Calling
  <2>10. ASSUME Decided \/ UNCHANGED vars PROVE PathParts'
    <3>1. UNCHANGED <<found, pattern, target, message, segments, uri, got, phase, k>>
      BY <2>0, <2>10 DEF Decided, vars, codec
    <3>2. CASE Calling
      BY <1>0, <3>1, <3>2, PathStays
    <3>3. CASE ~Calling
      BY <3>1, <3>3 DEF PathParts, Matching, Kept, Outcome, Calling
    <3> QED
      BY <3>2, <3>3
  <2>11. ASSUME ReadTemplate PROVE PathParts'
    BY <1>1, <2>11 DEF PathInv, PathParts
  <2>12. PathParts'
    BY <2>2, <2>3, <2>4, <2>5, <2>6, <2>7, <2>8, <2>9, <2>10, <2>11 DEF Next
  <2> QED
    BY <2>1, <2>12 DEF PathInv, PathParts
<1> QED
  BY <1>1, <1>2 DEF Next, Bind, EncodePath, EncodeField, Send, Match, DecodeBody, CaptureVariable,
     DecodeParameter, Delivered, Decided, codec, vars

(* The inductive invariant of the path: what is written for a variable stays. *)
THEOREM PathInvariance == Spec => []PathInv
<1>1. Init => PathInv
  BY PathInit
<1>2. IInv /\ PathInv /\ [Next]_vars => PathInv'
  BY PathStep
<1> QED
  BY <1>1, <1>2, Invariance, PTL DEF Spec

(* What the client sends is found on its route and decodes, for every value   *)
(* and every template: escaping, joining and adding the verb are undone by    *)
(* cutting the verb at the last colon, splitting and unescaping, whether or   *)
(* not the message fits the template (requestURL and httpEncodePathValues     *)
(* against match, trimVerb and capture).                                      *)
THEOREM PathsAreFound == Spec => []SentIsFound
<1>1. PathInv => SentIsFound
  BY DEF PathInv, Outcome, SentIsFound, Path!SentIsFound
<1> QED
  BY <1>1, PathInvariance, PTL

(* A message that fits its template is not refused, and each variable arrives *)
(* with the value it was sent with, also when variables are nested or have    *)
(* one name (httpEncodePathValues against capture).                           *)
THEOREM ValuesRoundTrip == Spec => []RoundTrip
<1>1. ASSUME IInv, PathInv PROVE RoundTrip
  <2>1. phase \in {"refused", "notFound", "failed"} => ~Path!Fitting
    BY <1>1 DEF PathInv, Outcome
  <2>2. ASSUME phase = "done", Path!Fitting, NEW v \in Path!ToSet(target.vars) PROVE Path!Arrived(v)
    <3>1. k = 0 /\ target.vars = found /\ found \in Seq(VariableType)
      BY <1>1, <2>2 DEF IInv, Division, CodecTypes, Calling, ParserInv, ParserTypes
    <3>2. PICK j \in DOMAIN found : v = found[j]
      BY <3>1 DEF Path!ToSet
    <3>3. j \in k + 1 .. Len(found)
      BY <3>1
    <3>4. Came(j)
      BY <1>1, <2>2, <3>3 DEF PathInv, Outcome
    <3> QED
      BY <3>2, <3>4 DEF Came
  <2> QED
    BY <2>1, <2>2 DEF RoundTrip, Path!RoundTrip
<1> QED
  BY <1>1, Invariance, PathInvariance, PTL

---------------------------------------------------------------------------
(* The grammar of templates, token by token *)

(* The grammar, of a text as it grows.                                        *)
AfterAt(in, i) == IF i = 1 THEN <<>> ELSE in[i - 1]
FieldAt(in, i) == AfterAt(in, i) = <<"{">>
VerbAt(in, i) == AfterAt(in, i) = <<":">>
NamedAt(in, i) == i > 1 /\ FieldAt(in, i - 1)
CompleteAt(in, i) == i > 1 /\ VerbAt(in, i - 1)
JoinsAt(in, i) ==
    i > 1 /\ ~NamedAt(in, i) /\ ~CompleteAt(in, i) /\ AfterAt(in, i) \notin {<<c>> : c \in {"/", "{", "=", ":"}}
TallyOf(in, token, i) == Cardinality({j \in 1 .. i : in[j] = token})
Turn(token) == IF token = <<"{">> THEN 1 ELSE IF token = <<"}">> THEN -1 ELSE 0
DepthOf(in, i) == TallyOf(in, <<"{">>, i) - TallyOf(in, <<"}">>, i)
FollowsAt(in, i) ==
    LET t == in[i]
    IN /\ i = 1 => t = <<"/">>
       /\ FieldAt(in, i) => t \in Words /\ Template!IsFieldPath(t)
       /\ VerbAt(in, i) => t \in Template!Literals
       /\ AfterAt(in, i) \in {<<"/">>, <<"=">>} => Template!Starts(t)
       /\ NamedAt(in, i) => t \in {<<"=">>, <<"}">>}
       /\ ~CompleteAt(in, i)
       /\ JoinsAt(in, i) => \/ t = <<"/">> /\ ~\E j \in 1 .. i : in[j] = DoubleStar
                            \/ t = <<"}">> /\ DepthOf(in, i) >= 0
                            \/ t = <<":">> /\ DepthOf(in, i) = 0

(* One token more.                                                            *)
Grows(in, t, long, n) ==
    in \in Seq(Template!Tokens) /\ t \in Template!Tokens /\ long = Append(in, t) /\ n = Len(in)

LEMMA SameCardinality == \A S : Template!Cardinality(S) = Cardinality(S)
BY DEF Template!Cardinality, Cardinality

LEMMA TokensAre ==
    /\ <<"/">> \in Template!Tokens /\ <<"{">> \in Template!Tokens /\ <<"}">> \in Template!Tokens
    /\ <<"=">> \in Template!Tokens /\ <<":">> \in Template!Tokens
    /\ Wildcards \subseteq Template!Tokens /\ Words \subseteq Template!Tokens
    /\ \A c, d \in {"/", "{", "}", "=", ":", "*"} : c # d => <<c>> # <<d>>
    /\ \A c \in {"/", "{", "}", "=", ":", "*"} : <<c>> \notin Words /\ <<c>> # <<>> /\ <<c>> # DoubleStar
    /\ DoubleStar \notin Words /\ DoubleStar # <<>>
    /\ <<>> \notin Template!Tokens
    /\ Wildcards = {<<"*">>, DoubleStar}
<1>1. \A w \in Words : w # <<>> /\ w[1] \in Written
  <2> SUFFICES ASSUME NEW w \in Words PROVE w # <<>> /\ w[1] \in Written
    OBVIOUS
  <2>1. w # <<>> /\ w \in Seq(Written)
    BY WordsAssumption DEF Written
  <2> QED
    BY <2>1, Uncons
<1>2. \A c \in {"/", "{", "}", "=", ":", "*"} : c \notin Written
  BY DEF Written, Unreserved, Identifier, HexDigits, Digits
<1>3. \A c : <<c>>[1] = c /\ Len(<<c>>) = 1
  OBVIOUS
<1>4. DoubleStar[1] = "*" /\ Len(DoubleStar) = 2
  BY DEF DoubleStar
<1>5. Len(<<>>) = 0
  OBVIOUS
<1>6. \A c, d \in {"/", "{", "}", "=", ":", "*"} : c # d => <<c>> # <<d>>
  BY <1>3
<1>7. \A c \in {"/", "{", "}", "=", ":", "*"} : <<c>> \notin Words /\ <<c>> # <<>> /\ <<c>> # DoubleStar
  <2> SUFFICES ASSUME NEW c \in {"/", "{", "}", "=", ":", "*"}
               PROVE  <<c>> \notin Words /\ <<c>> # <<>> /\ <<c>> # DoubleStar
    OBVIOUS
  <2> DEFINE w == <<c>>
  <2>1. w[1] = c /\ Len(w) = 1 /\ c \notin Written
    BY <1>2
  <2> HIDE DEF w
  <2>2. w \notin Words
    BY <1>1, <2>1
  <2>3. w # <<>>
    BY DEF w
  <2>4. w # DoubleStar
    BY DEF w, DoubleStar
  <2> QED
    BY <2>2, <2>3, <2>4 DEF w
<1>8. DoubleStar \notin Words /\ DoubleStar # <<>>
  <2> DEFINE w == DoubleStar
  <2>1. w[1] = "*" /\ Len(w) = 2 /\ "*" \notin Written
    BY <1>2, <1>4
  <2> HIDE DEF w
  <2>2. w \notin Words /\ w # <<>>
    BY <1>1, <1>5, <2>1
  <2> QED
    BY <2>2 DEF w
<1>9. Wildcards = {<<"*">>, DoubleStar}
  BY DEF Wildcards, DoubleStar
<1>10. <<>> \notin Template!Tokens
  <2>1. <<>> \notin Words /\ <<>> \notin Wildcards
    BY <1>1, <1>7, <1>8, <1>9
  <2>2. <<>> \notin {<<c>> : c \in {"/", "{", "}", "=", ":"}}
    BY <1>7
  <2> QED
    BY <2>1, <2>2 DEF Template!Tokens, Template!Wildcards, Wildcards
<1>11. /\ <<"/">> \in Template!Tokens /\ <<"{">> \in Template!Tokens /\ <<"}">> \in Template!Tokens
       /\ <<"=">> \in Template!Tokens /\ <<":">> \in Template!Tokens
  BY DEF Template!Tokens
<1>12. Wildcards \subseteq Template!Tokens /\ Words \subseteq Template!Tokens
  BY DEF Template!Tokens, Template!Wildcards, Wildcards
<1> QED
  BY <1>6, <1>7, <1>8, <1>9, <1>10, <1>11, <1>12

LEMMA FollowsIs ==
    /\ \A i : (Template!Follows(i) <=> FollowsAt(input, i)) /\ (Template!Follows(i)' <=> FollowsAt(input', i))
    /\ \A i : Template!Depth(i) = DepthOf(input, i) /\ Template!Depth(i)' = DepthOf(input', i)
    /\ \A i : (Template!IsField(i) <=> FieldAt(input, i)) /\ (Template!IsField(i)' <=> FieldAt(input', i))
<1>1. ASSUME NEW i
      PROVE  /\ Template!Depth(i) = DepthOf(input, i) /\ Template!Depth(i)' = DepthOf(input', i)
  BY SameCardinality DEF Template!Depth, Template!Tally, DepthOf, TallyOf
<1>2. ASSUME NEW i
      PROVE  /\ (Template!IsField(i) <=> FieldAt(input, i)) /\ (Template!IsField(i)' <=> FieldAt(input', i))
  BY DEF Template!IsField, Template!After, FieldAt, AfterAt
<1>3. ASSUME NEW i PROVE Template!Follows(i) <=> FollowsAt(input, i)
  BY <1>1 DEF Template!Follows, FollowsAt, DoubleStar, Template!IsField, Template!After, FieldAt, AfterAt,
     Template!IsVerb, VerbAt, Template!Named, Template!Complete, Template!Joins, NamedAt, CompleteAt, JoinsAt
<1>4. ASSUME NEW i PROVE Template!Follows(i)' <=> FollowsAt(input', i)
  BY <1>1 DEF Template!Follows, FollowsAt, DoubleStar, Template!IsField, Template!After, FieldAt, AfterAt,
     Template!IsVerb, VerbAt, Template!Named, Template!Complete, Template!Joins, NamedAt, CompleteAt, JoinsAt
<1> QED
  BY <1>1, <1>2, <1>3, <1>4

(* Positions, brackets and what the grammar says of a text one token longer.  *)
LEMMA Longer ==
    ASSUME NEW in, NEW t, NEW long, NEW n, Grows(in, t, long, n)
    PROVE  /\ long \in Seq(Template!Tokens) /\ n \in Nat /\ Len(long) = n + 1
           /\ DOMAIN in = 1 .. n /\ DOMAIN long = 1 .. n + 1
           /\ long[n + 1] = t
           /\ \A i \in 1 .. n : long[i] = in[i]
BY DEF Grows

LEMMA TallyGrows ==
    ASSUME NEW in, NEW t, NEW long, NEW n, Grows(in, t, long, n), NEW token
    PROVE  /\ \A i \in 1 .. n : TallyOf(long, token, i) = TallyOf(in, token, i)
           /\ TallyOf(in, token, n) \in Nat
           /\ TallyOf(long, token, n + 1) = TallyOf(in, token, n) + (IF t = token THEN 1 ELSE 0)
<1> DEFINE old(i) == {j \in 1 .. i : in[j] = token}
           new(i) == {j \in 1 .. i : long[j] = token}
<1>1. /\ n \in Nat /\ long[n + 1] = t /\ \A i \in 1 .. n : long[i] = in[i]
  BY Longer
<1>2. \A i : TallyOf(in, token, i) = Cardinality(old(i)) /\ TallyOf(long, token, i) = Cardinality(new(i))
  BY DEF TallyOf
<1>3. \A i \in 1 .. n : new(i) = old(i)
  BY <1>1
<1>4. IsFiniteSet(old(n)) /\ n + 1 \notin old(n)
  <2>1. IsFiniteSet(1 .. n) /\ old(n) \subseteq 1 .. n
    BY <1>1, FS_Interval
  <2> QED
    BY <1>1, <2>1, FS_Subset
<1>5. Cardinality(old(n)) \in Nat
  BY <1>4, FS_CardinalityType
<1>6. new(n + 1) = IF t = token THEN old(n) \cup {n + 1} ELSE old(n)
  BY <1>1
<1> HIDE DEF old, new
<1>7. Cardinality(new(n + 1)) = Cardinality(old(n)) + (IF t = token THEN 1 ELSE 0)
  <2>1. Cardinality(old(n) \cup {n + 1}) = Cardinality(old(n)) + 1
    BY <1>4, FS_AddElement
  <2>2. Cardinality(old(n)) + 0 = Cardinality(old(n))
    BY <1>5
  <2> QED
    BY <1>6, <2>1, <2>2
<1> QED
  BY <1>2, <1>3, <1>5, <1>7

LEMMA DepthGrows ==
    ASSUME NEW in, NEW t, NEW long, NEW n, Grows(in, t, long, n)
    PROVE  /\ DepthOf(in, n) \in Int
           /\ DepthOf(long, n + 1) = DepthOf(in, n) + Turn(t)
<1> DEFINE o == <<"{">>
           c == <<"}">>
<1>1. \A i : /\ DepthOf(long, i) = TallyOf(long, o, i) - TallyOf(long, c, i)
             /\ DepthOf(in, i) = TallyOf(in, o, i) - TallyOf(in, c, i)
  BY DEF DepthOf
<1>2. o # c
  BY TokensAre
<1> SUFFICES /\ DepthOf(in, n) \in Int
             /\ DepthOf(long, n + 1) = DepthOf(in, n) + (IF t = o THEN 1 ELSE IF t = c THEN -1 ELSE 0)
  BY DEF Turn
<1> HIDE DEF o, c
<1>3. /\ \A i \in 1 .. n : TallyOf(long, o, i) = TallyOf(in, o, i)
      /\ TallyOf(in, o, n) \in Nat
      /\ TallyOf(long, o, n + 1) = TallyOf(in, o, n) + (IF t = o THEN 1 ELSE 0)
  BY TallyGrows
<1>4. /\ \A i \in 1 .. n : TallyOf(long, c, i) = TallyOf(in, c, i)
      /\ TallyOf(in, c, n) \in Nat
      /\ TallyOf(long, c, n + 1) = TallyOf(in, c, n) + (IF t = c THEN 1 ELSE 0)
  BY TallyGrows
<1> QED
  BY <1>1, <1>2, <1>3, <1>4

LEMMA DepthStays ==
    ASSUME NEW in, NEW t, NEW long, NEW n, Grows(in, t, long, n), NEW i \in 1 .. n
    PROVE  DepthOf(long, i) = DepthOf(in, i)
<1> DEFINE o == <<"{">>
           c == <<"}">>
<1>1. /\ DepthOf(long, i) = TallyOf(long, o, i) - TallyOf(long, c, i)
      /\ DepthOf(in, i) = TallyOf(in, o, i) - TallyOf(in, c, i)
  BY DEF DepthOf
<1> HIDE DEF o, c
<1>2. /\ \A j \in 1 .. n : TallyOf(long, o, j) = TallyOf(in, o, j)
      /\ TallyOf(in, o, n) \in Nat
      /\ TallyOf(long, o, n + 1) = TallyOf(in, o, n) + (IF t = o THEN 1 ELSE 0)
  BY TallyGrows
<1>3. /\ \A j \in 1 .. n : TallyOf(long, c, j) = TallyOf(in, c, j)
      /\ TallyOf(in, c, n) \in Nat
      /\ TallyOf(long, c, n + 1) = TallyOf(in, c, n) + (IF t = c THEN 1 ELSE 0)
  BY TallyGrows
<1> QED
  BY <1>1, <1>2, <1>3

(* What comes before a token does not change when more are read, nor what the *)
(* grammar says of it.                                                        *)
LEMMA AfterStays ==
    ASSUME NEW in, NEW t, NEW long, NEW n, Grows(in, t, long, n), NEW i \in 1 .. n + 1
    PROVE  /\ AfterAt(long, i) = AfterAt(in, i)
           /\ FieldAt(long, i) <=> FieldAt(in, i)
           /\ VerbAt(long, i) <=> VerbAt(in, i)
<1>1. n \in Nat /\ \A j \in 1 .. n : long[j] = in[j]
  BY Longer
<1>2. AfterAt(long, i) = AfterAt(in, i)
  BY <1>1 DEF AfterAt
<1> QED
  BY <1>2 DEF FieldAt, VerbAt

LEMMA PlaceStays ==
    ASSUME NEW in, NEW t, NEW long, NEW n, Grows(in, t, long, n), NEW i \in 1 .. n + 1
    PROVE  /\ NamedAt(long, i) <=> NamedAt(in, i)
           /\ CompleteAt(long, i) <=> CompleteAt(in, i)
           /\ JoinsAt(long, i) <=> JoinsAt(in, i)
<1>1. n \in Nat
  BY Longer
<1>2. i > 1 => (FieldAt(long, i - 1) <=> FieldAt(in, i - 1)) /\ (VerbAt(long, i - 1) <=> VerbAt(in, i - 1))
  <2> DEFINE j == i - 1
  <2> SUFFICES ASSUME i > 1 PROVE (FieldAt(long, j) <=> FieldAt(in, j)) /\ (VerbAt(long, j) <=> VerbAt(in, j))
    OBVIOUS
  <2>1. j \in 1 .. n + 1
    BY <1>1
  <2> HIDE DEF j
  <2> QED
    BY <2>1, AfterStays
<1>3. AfterAt(long, i) = AfterAt(in, i)
  BY AfterStays
<1> QED
  BY <1>2, <1>3 DEF NamedAt, CompleteAt, JoinsAt

LEMMA FollowsStays ==
    ASSUME NEW in, NEW t, NEW long, NEW n, Grows(in, t, long, n), NEW i \in 1 .. n
    PROVE  FollowsAt(long, i) <=> FollowsAt(in, i)
<1>0. n \in Nat /\ \A j \in 1 .. n : long[j] = in[j]
  BY Longer
<1>1. long[i] = in[i] /\ \A j \in 1 .. i : long[j] = in[j]
  BY <1>0
<1>2. i \in 1 .. n + 1
  BY <1>0
<1>3. /\ AfterAt(long, i) = AfterAt(in, i)
      /\ FieldAt(long, i) <=> FieldAt(in, i)
      /\ VerbAt(long, i) <=> VerbAt(in, i)
  BY <1>2, AfterStays
<1>4. /\ NamedAt(long, i) <=> NamedAt(in, i)
      /\ CompleteAt(long, i) <=> CompleteAt(in, i)
      /\ JoinsAt(long, i) <=> JoinsAt(in, i)
  BY <1>2, PlaceStays
<1>5. DepthOf(long, i) = DepthOf(in, i)
  BY DepthStays
<1> QED
  BY <1>1, <1>3, <1>4, <1>5 DEF FollowsAt

---------------------------------------------------------------------------
(* What the parser expects *)

(* The parser's place: what it expects is told by the last tokens, and how    *)
(* many variables are open by the brackets.                                   *)
Brace == <<"{">>
Colon == <<":">>
Leads == {<<"/">>, <<"=">>}
Closes == Wildcards \cup Words \cup {<<"}">>}

Place ==
    LET n == Len(input)
    IN /\ input \in Seq(Template!Tokens)
       /\ at = "template" => n = 0 /\ pattern = <<>> /\ open = <<>> /\ found = <<>>
       /\ at \in Template!Running \ {"template"} => n > 0
       /\ at \in {"segment", "field", "next", "verb"} /\ n > 1 => input[n - 1] \notin {Brace, Colon}
       /\ at = "segment" => input[n] \in Leads
       /\ at = "field" => input[n] = Brace
       /\ at = "assign" => n > 1 /\ input[n - 1] = Brace /\ input[n] \in Words
       /\ at = "next" => n > 1 /\ input[n] \in Closes
       /\ at = "verb" => input[n] = Colon
       /\ at = "end" => n > 1 /\ input[n - 1] = Colon /\ input[n] \in Words
       /\ at \in {"verb", "end"} => open = <<>>
       /\ at \in Template!Running \ {"end"} => verb = <<>>
       /\ at = "end" => verb # <<>>

Counted ==
    at \in Template!Running => DepthOf(input, Len(input)) = Len(open) + (IF at = "field" THEN 1 ELSE 0)

Names(in, name) == \E i \in DOMAIN in : FieldAt(in, i) /\ in[i] = name
Noted ==
    at \in Template!Running =>
        /\ seenDoubleStar <=> \E i \in DOMAIN input : input[i] = DoubleStar
        /\ \A j \in DOMAIN found : Names(input, found[j].field)
        /\ \A j \in DOMAIN open : Names(input, open[j].field)

(* What the grammar lets follow is what the parser expects.                   *)
LEMMA Expected ==
    ASSUME Place, NEW t, NEW n, Grows(input, t, input', n)
    PROVE  /\ at = "template" => (FollowsAt(input', n + 1) <=> t = <<"/">>)
           /\ at = "segment" => (FollowsAt(input', n + 1) <=> Template!Starts(t))
           /\ at = "field" => (FollowsAt(input', n + 1) <=> t \in Words /\ Template!IsFieldPath(t))
           /\ at = "assign" => (FollowsAt(input', n + 1) <=> t \in {<<"=">>, <<"}">>})
           /\ at = "verb" => (FollowsAt(input', n + 1) <=> t \in Template!Literals)
           /\ at = "end" => ~FollowsAt(input', n + 1)
           /\ at = "next" =>
                 (FollowsAt(input', n + 1) <=>
                     \/ t = <<"/">> /\ ~\E j \in 1 .. n + 1 : input'[j] = DoubleStar
                     \/ t = <<"}">> /\ DepthOf(input', n + 1) >= 0
                     \/ t = <<":">> /\ DepthOf(input', n + 1) = 0)
<1> DEFINE i == n + 1
           brace == <<"{">>
           colon == <<":">>
           slash == <<"/">>
           equals == <<"=">>
           none == <<>>
<1>0. /\ brace # none /\ colon # none /\ slash # none /\ equals # none
      /\ brace # colon /\ brace # slash /\ brace # equals /\ colon # slash /\ colon # equals
      /\ brace \notin Words /\ colon \notin Words /\ slash \notin Words /\ equals \notin Words
  BY TokensAre
<1>1. /\ n \in Nat /\ Len(input) = n /\ input'[i] = t /\ \A j \in 1 .. n : input'[j] = input[j]
  BY Longer DEF Grows
<1>2. i - 1 = n /\ i \in Nat /\ (i = 1 <=> n = 0) /\ (i > 1 <=> n > 0)
  BY <1>1
<1>3. /\ FieldAt(input', i) <=> AfterAt(input', i) = brace
      /\ VerbAt(input', i) <=> AfterAt(input', i) = colon
      /\ NamedAt(input', i) <=> n > 0 /\ AfterAt(input', n) = brace
      /\ CompleteAt(input', i) <=> n > 0 /\ AfterAt(input', n) = colon
  BY <1>2 DEF FieldAt, VerbAt, NamedAt, CompleteAt
<1>14. JoinsAt(input', i) <=> /\ n > 0 /\ ~NamedAt(input', i) /\ ~CompleteAt(input', i)
                              /\ AfterAt(input', i) \notin {slash, brace, equals, colon}
  <2>1. {<<c>> : c \in {"/", "{", "=", ":"}} = {slash, brace, equals, colon}
    OBVIOUS
  <2> HIDE DEF slash, brace, equals, colon
  <2> QED
    BY <1>2, <2>1 DEF JoinsAt
<1>4. /\ AfterAt(input', i) = IF n = 0 THEN none ELSE input[n]
      /\ n > 0 => AfterAt(input', n) = IF n = 1 THEN none ELSE input[n - 1]
  BY <1>1, <1>2 DEF AfterAt
<1>5. /\ at = "template" => n = 0
      /\ at \in {"segment", "field", "next", "verb"} => n > 0 /\ (n > 1 => input[n - 1] \notin {brace, colon})
      /\ at = "assign" => n > 1 /\ input[n - 1] = brace /\ input[n] \in Words
      /\ at = "end" => n > 1 /\ input[n - 1] = colon
  BY <1>1 DEF Place, Template!Running, Brace, Colon
<1> HIDE DEF brace, colon, slash, equals, none, i
<1>6. /\ at = "template" => AfterAt(input', i) = none /\ ~NamedAt(input', i) /\ ~CompleteAt(input', i) /\ i = 1
      /\ at \in {"segment", "field", "next", "verb"} => ~NamedAt(input', i) /\ ~CompleteAt(input', i) /\ i # 1
                                                        /\ AfterAt(input', i) = input[n]
      /\ at = "assign" => NamedAt(input', i) /\ ~CompleteAt(input', i) /\ i # 1 /\ AfterAt(input', i) \in Words
      /\ at = "end" => CompleteAt(input', i)
  <2>1. CASE at = "template"
    BY <1>1, <1>2, <1>3, <1>4, <1>5, <2>1
  <2>2. CASE at \in {"segment", "field", "next", "verb"}
    <3>1. n > 0 /\ n # 0 /\ AfterAt(input', n) # brace /\ AfterAt(input', n) # colon
      BY <1>0, <1>1, <1>4, <1>5, <2>2
    <3> QED
      BY <1>2, <1>3, <1>4, <2>2, <3>1
  <2>3. CASE at = "assign"
    <3>1. n > 0 /\ n # 0 /\ AfterAt(input', n) = brace
      BY <1>1, <1>4, <1>5, <2>3
    <3> QED
      BY <1>0, <1>2, <1>3, <1>4, <1>5, <2>3, <3>1
  <2>4. CASE at = "end"
    <3>1. n > 0 /\ AfterAt(input', n) = colon
      BY <1>1, <1>4, <1>5, <2>4
    <3> QED
      BY <1>3, <2>4, <3>1
  <2>5. CASE at \notin {"template", "segment", "field", "next", "verb", "assign", "end"}
    BY <2>5
  <2> QED
    BY <2>1, <2>2, <2>3, <2>4, <2>5
<1>7. at = "template" => (FollowsAt(input', i) <=> t = slash)
  <2> SUFFICES ASSUME at = "template" PROVE FollowsAt(input', i) <=> t = slash
    OBVIOUS
  <2>1. /\ ~FieldAt(input', i) /\ ~VerbAt(input', i) /\ ~NamedAt(input', i) /\ ~CompleteAt(input', i)
        /\ ~JoinsAt(input', i) /\ AfterAt(input', i) \notin {slash, equals} /\ i = 1
    BY <1>0, <1>2, <1>3, <1>14, <1>5, <1>6
  <2> QED
    BY <1>1, <2>1 DEF FollowsAt, slash, equals
<1>8. ASSUME at = "segment" PROVE FollowsAt(input', i) <=> Template!Starts(t)
  <2>1. AfterAt(input', i) \in {slash, equals}
    BY <1>1, <1>6, <1>8 DEF Place, Leads, slash, equals
  <2>2. ~FieldAt(input', i) /\ ~VerbAt(input', i) /\ ~JoinsAt(input', i)
    BY <1>0, <1>3, <1>14, <2>1
  <2> QED
    BY <1>1, <1>6, <1>8, <2>1, <2>2 DEF FollowsAt, slash, equals
<1>9. ASSUME at = "field" PROVE FollowsAt(input', i) <=> t \in Words /\ Template!IsFieldPath(t)
  <2>1. AfterAt(input', i) = brace
    BY <1>1, <1>6, <1>9 DEF Place, Brace, brace
  <2>2. /\ FieldAt(input', i) /\ ~VerbAt(input', i) /\ ~JoinsAt(input', i)
        /\ AfterAt(input', i) \notin {slash, equals}
    BY <1>0, <1>3, <1>14, <2>1
  <2> QED
    BY <1>1, <1>6, <1>9, <2>2 DEF FollowsAt, slash, equals
<1>10. ASSUME at = "assign" PROVE FollowsAt(input', i) <=> t \in {<<"=">>, <<"}">>}
  <2>1. /\ ~FieldAt(input', i) /\ ~VerbAt(input', i) /\ ~JoinsAt(input', i)
        /\ AfterAt(input', i) \notin {slash, equals}
    BY <1>0, <1>3, <1>14, <1>6, <1>10
  <2> QED
    BY <1>1, <1>6, <1>10, <2>1 DEF FollowsAt, slash, equals
<1>11. ASSUME at = "verb" PROVE FollowsAt(input', i) <=> t \in Template!Literals
  <2>1. AfterAt(input', i) = colon
    BY <1>1, <1>6, <1>11 DEF Place, Colon, colon
  <2>2. /\ ~FieldAt(input', i) /\ VerbAt(input', i) /\ ~JoinsAt(input', i)
        /\ AfterAt(input', i) \notin {slash, equals}
    BY <1>0, <1>3, <1>14, <2>1
  <2> QED
    BY <1>1, <1>6, <1>11, <2>2 DEF FollowsAt, slash, equals
<1>12. at = "end" => ~FollowsAt(input', i)
  BY <1>6 DEF FollowsAt
<1>13. ASSUME at = "next"
       PROVE  FollowsAt(input', i) <=>
                  \/ t = <<"/">> /\ ~\E j \in 1 .. i : input'[j] = DoubleStar
                  \/ t = <<"}">> /\ DepthOf(input', i) >= 0
                  \/ t = <<":">> /\ DepthOf(input', i) = 0
  <2>1. AfterAt(input', i) \notin {slash, brace, equals, colon}
    <3>1. input[n] \in Wildcards \cup Words \cup {<<"}">>}
      BY <1>1, <1>13 DEF Place, Closes
    <3> QED
      BY <1>6, <1>13, <3>1, TokensAre DEF slash, brace, equals, colon
  <2>2. ~FieldAt(input', i) /\ ~VerbAt(input', i) /\ JoinsAt(input', i)
    BY <1>3, <1>14, <1>5, <1>6, <1>13, <2>1
  <2> QED
    BY <1>1, <1>6, <1>13, <2>1, <2>2 DEF FollowsAt, slash, equals
<1> QED
  BY <1>7, <1>8, <1>9, <1>10, <1>11, <1>12, <1>13 DEF i, slash

LEMMA GrammarGrows ==
    ASSUME Place, Template!Grammatical, NEW t, NEW n, Grows(input, t, input', n)
    PROVE  Template!Grammatical' <=> FollowsAt(input', n + 1)
<1>1. /\ n \in Nat /\ DOMAIN input = 1 .. n /\ DOMAIN input' = 1 .. n + 1
  BY Longer
<1>2. \A i \in 1 .. n : FollowsAt(input', i)
  <2> SUFFICES ASSUME NEW i \in 1 .. n PROVE FollowsAt(input', i)
    OBVIOUS
  <2>1. FollowsAt(input, i)
    BY <1>1, FollowsIs DEF Template!Grammatical
  <2> QED
    BY <2>1, FollowsStays
<1>3. Template!Grammatical' <=> \A i \in 1 .. n + 1 : FollowsAt(input', i)
  BY <1>1, FollowsIs DEF Template!Grammatical
<1>4. \A i \in 1 .. n + 1 : i \in 1 .. n \/ i = n + 1
  BY <1>1
<1>5. n + 1 \in 1 .. n + 1
  BY <1>1
<1> QED
  BY <1>2, <1>3, <1>4, <1>5

LEMMA ReadGrows ==
    ASSUME Place, NEW t \in Template!Tokens, Template!Token(t)
    PROVE  Grows(input, t, input', Len(input))
BY DEF Place, Template!Token, Grows

(* A text with a character is unescaped and escaped to one with a character.  *)
LEMMA UnescapeNonempty ==
    ASSUME NEW s \in Seq(Chars), s # <<>>, Valid(s)
    PROVE  Unescape(s, "single") # <<>>
<1> DEFINE U(t) == Unescape(t, "single")
           S == {t \in Seq(Chars) : t # <<>> => U(t) # <<>>}
<1>1. <<>> \in S
  OBVIOUS
<1>2. ASSUME NEW t \in Seq(Chars), Valid(t), t \in S, NEW c \in Chars, c # "%"
      PROVE  Cons(c, t) \in S
  <2>1. Cons(c, t) \in Seq(Chars) /\ U(t) \in Seq(Decoded)
    BY <1>2, ConsIs, UnescapeType
  <2>2. U(Cons(c, t)) = Cons(c, U(t))
    BY <1>2, UnescapeChar
  <2>3. c \in Decoded
    BY DEF Decoded
  <2> HIDE DEF U
  <2>4. Cons(c, U(t)) # <<>>
    BY <2>1, <2>3, ConsIs
  <2> QED
    BY <2>1, <2>2, <2>4
<1>3. ASSUME NEW t \in Seq(Chars), Valid(t), t \in S, NEW hi \in HexDigits, NEW lo \in HexDigits
      PROVE  Code(hi, lo) \o t \in S
  <2>1. Code(hi, lo) \o t \in Seq(Chars)
    BY <1>3, CodeValid, ConcatProperties
  <2>4. U(t) \in Seq(Decoded)
    BY <1>3, UnescapeType
  <2>5. Byte(hi, lo) \in Decoded
    BY <1>3 DEF Decoded
  <2>2. U(Code(hi, lo) \o t) = Decode(hi, lo, "single") \o U(t) /\ Decode(hi, lo, "single") = <<Byte(hi, lo)>>
    BY <1>3, UnescapeCode DEF Decode
  <2> HIDE DEF U
  <2>3. <<Byte(hi, lo)>> \o U(t) # <<>>
    BY <2>4, <2>5, ConsType
  <2> QED
    BY <2>1, <2>2, <2>3
<1> HIDE DEF S, U
<1>4. \A t \in Seq(Chars) : Valid(t) => t \in S
  BY <1>1, <1>2, <1>3, Pieces
<1> QED
  BY <1>4 DEF S, U

LEMMA LiteralNonempty ==
    ASSUME NEW t, Template!LiteralOK(t)
    PROVE  Template!Canonical(t) # <<>>
<1> DEFINE x == Unescape(t, "single")
<1>1. t \in Words /\ Valid(t)
  BY ValidIs DEF Template!LiteralOK
<1>2. x \in Seq(Chars) /\ t # <<>> /\ t \in Seq(Written) /\ Written \subseteq Chars
  BY <1>1, WordsAssumption, Alphabet DEF Written
<1>3. t \in Seq(Chars)
  BY <1>2, SeqMonotonic
<1>4. x # <<>>
  BY <1>1, <1>2, <1>3, UnescapeNonempty
<1>5. Template!Canonical(t) = Escape(x, "single")
  BY CanonicalIs DEF Canonical
<1> HIDE DEF x
<1>6. Unescape(Escape(x, "single"), "single") = x
  BY <1>2, UnescapeEscape
<1> QED
  BY <1>4, <1>5, <1>6, UnescapeEmpty

(* Closing a variable moves it from the one stack to the other.               *)
LEMMA Popped ==
    ASSUME ParserInv, open # <<>>, NEW segs \in Seq(SegmentTexts), Template!Close(segs)
    PROVE  LET o == open[Len(open)]
               v == [field |-> o.field, start |-> o.start, end |-> IF seenDoubleStar THEN -1 ELSE Len(segs)]
           IN  /\ o \in [field : Seq(Chars), start : Nat] /\ v \in VariableType
               /\ open' \in Seq([field : Seq(Chars), start : Nat]) /\ open = Append(open', o)
               /\ found \in Seq(VariableType) /\ found' = Append(found, v)
               /\ at' = "next" /\ pattern' = segs /\ UNCHANGED <<seenDoubleStar, verb>>
<1> DEFINE T == [field : Seq(Chars), start : Nat]
           o == open[Len(open)]
           v == [field |-> o.field, start |-> o.start, end |-> IF seenDoubleStar THEN -1 ELSE Len(segs)]
<1>1. open \in Seq(T) /\ found \in Seq(VariableType)
  BY DEF ParserInv, ParserTypes
<1>2. /\ found' = Append(found, v) /\ open' = SubSeq(open, 1, Len(open) - 1)
      /\ at' = "next" /\ pattern' = segs /\ UNCHANGED <<seenDoubleStar, verb>>
  BY DEF Template!Close, Template!End, Last, Template!Last, Front, Template!Front
<1>3. o \in T /\ v \in VariableType
  BY ClosedIs
<1> HIDE DEF v
<1>4. open' \in Seq(T) /\ open = Append(open', o)
  <2>1. PICK p \in Seq(T), x \in T : open = Append(p, x)
    BY <1>1, SequenceEmptyOrAppend
  <2>2. SubSeq(open, 1, Len(open) - 1) = p /\ o = x
    BY <2>1, <1>1, AppendProperties
  <2> HIDE DEF T
  <2> QED
    BY <1>2, <2>1, <2>2
<1> QED
  BY <1>1, <1>2, <1>3, <1>4 DEF v

---------------------------------------------------------------------------
(* What is accepted and what is rejected *)

(* Exactly the texts of the grammar are accepted.                             *)
Parsed ==
    /\ at \in {"accepted"} \cup Template!Running => Template!Grammatical
    /\ at = "accepted" => Template!Ended
    /\ at = "rejected" => ~Template!Grammatical \/ Template!Twice
    /\ at = "short" => Template!Grammatical /\ ~Template!Ended

ReadingInv == Place /\ Counted /\ Noted /\ Parsed

(* What a token adds to what was read.                                        *)
LEMMA Reading ==
    ASSUME ReadingInv, at \in Template!Running, NEW t \in Template!Tokens, NEW n, n = Len(input), Template!Token(t)
    PROVE  /\ n \in Nat /\ DOMAIN input = 1 .. n /\ Len(input') = n + 1 /\ DOMAIN input' = 1 .. n + 1
           /\ input' \in Seq(Template!Tokens) /\ input'[n + 1] = t /\ \A i \in 1 .. n : input'[i] = input[i]
           /\ DepthOf(input', n + 1) = Len(open) + (IF at = "field" THEN 1 ELSE 0)
                                       + Turn(t)
           /\ Template!Grammatical' <=> FollowsAt(input', n + 1)
           /\ (\E i \in 1 .. n + 1 : input'[i] = DoubleStar) <=> seenDoubleStar \/ t = DoubleStar
           /\ \A name : Names(input, name) => Names(input', name)
           /\ n > 0 /\ input[n] = <<"{">> => FieldAt(input', n + 1) /\ Names(input', t)
<1> DEFINE m == n + 1
<1>1. Grows(input, t, input', n)
  BY ReadGrows DEF ReadingInv
<1>2. /\ n \in Nat /\ DOMAIN input = 1 .. n /\ Len(input') = m /\ DOMAIN input' = 1 .. m
      /\ input' \in Seq(Template!Tokens) /\ input'[m] = t /\ \A i \in 1 .. n : input'[i] = input[i]
  BY <1>1, Longer
<1>3. DepthOf(input', m) = Len(open) + (IF at = "field" THEN 1 ELSE 0)
                           + Turn(t)
  <2>1. DepthOf(input, n) = Len(open) + (IF at = "field" THEN 1 ELSE 0)
    BY DEF ReadingInv, Counted
  <2>2. DepthOf(input', m) = DepthOf(input, n) + Turn(t)
    BY <1>1, DepthGrows
  <2> QED
    BY <2>1, <2>2
<1>4. Template!Grammatical' <=> FollowsAt(input', m)
  BY <1>1, GrammarGrows DEF ReadingInv, Parsed
<1>5. (\E i \in 1 .. m : input'[i] = DoubleStar) <=> seenDoubleStar \/ t = DoubleStar
  <2>1. seenDoubleStar <=> \E i \in 1 .. n : input[i] = DoubleStar
    BY <1>2 DEF ReadingInv, Noted
  <2>2. m \in 1 .. m /\ \A i \in 1 .. m : i \in 1 .. n \/ i = m
    BY <1>2
  <2>3. \A i \in 1 .. n : i \in 1 .. m
    BY <1>2
  <2> HIDE DEF m
  <2> QED
    BY <1>2, <2>1, <2>2, <2>3
<1>6. ASSUME NEW name, Names(input, name) PROVE Names(input', name)
  <2>1. PICK i \in 1 .. n : FieldAt(input, i) /\ input[i] = name
    BY <1>2, <1>6 DEF Names
  <2>2. i \in 1 .. m /\ input'[i] = name
    BY <1>2, <2>1
  <2>3. FieldAt(input', i)
    BY <1>1, <2>1, <2>2, AfterStays
  <2> QED
    BY <1>2, <2>2, <2>3 DEF Names
<1>7. ASSUME n > 0, input[n] = <<"{">> PROVE FieldAt(input', m) /\ Names(input', t)
  <2>0. n \in Nat /\ n > 0
    BY <1>2, <1>7
  <2>1. m # 1 /\ m - 1 = n /\ n \in 1 .. n /\ m \in 1 .. m
    BY <2>0
  <2>2. AfterAt(input', m) = input[n]
    BY <1>2, <2>1 DEF AfterAt
  <2>3. FieldAt(input', m)
    BY <1>7, <2>2 DEF FieldAt
  <2> QED
    BY <1>2, <2>1, <2>3 DEF Names
<1> QED
  BY <1>2, <1>3, <1>4, <1>5, <1>6, <1>7

(* A token the grammar does not let follow is all a rejection needs.          *)
LEMMA RejectedReading ==
    ASSUME ReadingInv, NEW t \in Template!Tokens, Template!Token(t), at' = "rejected",
           ~Template!Grammatical' \/ Template!Twice'
    PROVE  ReadingInv'
<1>1. Grows(input, t, input', Len(input))
  BY ReadGrows DEF ReadingInv
<1>2. input' \in Seq(Template!Tokens)
  BY <1>1, Longer
<1> QED
  BY <1>2 DEF ReadingInv, Place, Counted, Noted, Parsed, Template!Running

(* Names stay known.                                                          *)
LEMMA NotedStays ==
    ASSUME ReadingInv, at \in Template!Running, NEW t \in Template!Tokens, Template!Token(t),
           seenDoubleStar' <=> seenDoubleStar \/ t = DoubleStar, UNCHANGED <<open, found>>
    PROVE  Noted'
<1> DEFINE n == Len(input)
<1>1. /\ DOMAIN input' = 1 .. n + 1
      /\ (\E i \in 1 .. n + 1 : input'[i] = DoubleStar) <=> seenDoubleStar \/ t = DoubleStar
      /\ \A name : Names(input, name) => Names(input', name)
  BY Reading
<1> QED
  BY <1>1 DEF ReadingInv, Noted

LEMMA RootReading ==
    ASSUME ReadingInv, NEW t \in Template!Tokens, Template!Root(t)
    PROVE  ReadingInv'
<1> DEFINE n == Len(input)
<1>1. at = "template" /\ Template!Token(t) /\ at \in Template!Running
  BY DEF Template!Root, Template!Running
<1>2. /\ n \in Nat /\ Len(input') = n + 1 /\ DOMAIN input' = 1 .. n + 1
      /\ input' \in Seq(Template!Tokens) /\ input'[n + 1] = t
      /\ DepthOf(input', n + 1) = Len(open) + 0 + Turn(t)
      /\ Template!Grammatical' <=> FollowsAt(input', n + 1)
  BY <1>1, Reading
<1>3. n = 0 /\ (FollowsAt(input', n + 1) <=> t = <<"/">>)
  BY <1>1, ReadGrows, Expected DEF ReadingInv, Place
<1>4. CASE t = <<"/">>
  <2>1. at' = "segment" /\ UNCHANGED <<seenDoubleStar, pattern, open, found, verb>>
    BY <1>4 DEF Template!Root
  <2>2. t # <<"{">> /\ t # <<"}">> /\ t # DoubleStar
    BY <1>4, TokensAre
  <2>3. Noted'
    BY <1>1, <2>1, <2>2, NotedStays
  <2>4. Counted'
    <3>1. DepthOf(input', n + 1) = Len(open) + 0 + 0
      BY <1>2, <2>2 DEF Turn
    <3>2. at' # "field" /\ Len(open') = Len(open) /\ Len(input') = n + 1
      BY <1>2, <2>1
    <3> QED
      BY <3>1, <3>2 DEF Counted
  <2>5. Place'
    <3>1. t \in Leads /\ n + 1 = 1 /\ verb = <<>>
      BY <1>1, <1>3, <1>4 DEF Leads, ReadingInv, Place
    <3> QED
      BY <1>2, <2>1, <3>1 DEF Place, Template!Running
  <2>6. Parsed'
    BY <1>2, <1>3, <1>4, <2>1 DEF Parsed
  <2> QED
    BY <2>3, <2>4, <2>5, <2>6 DEF ReadingInv
<1>5. CASE t # <<"/">>
  <2>1. at' = "rejected"
    BY <1>5 DEF Template!Root, Template!Rejected
  <2>2. ~Template!Grammatical'
    BY <1>2, <1>3, <1>5
  <2> QED
    BY <1>1, <2>1, <2>2, RejectedReading
<1> QED
  BY <1>4, <1>5

(* What the parser does with the token it reads, where it expects what.       *)
LEMMA SegmentReading ==
    ASSUME ReadingInv, NEW t \in Template!Tokens, Template!Segment(t)
    PROVE  ReadingInv'
<1> DEFINE n == Len(input)
<1>1. at = "segment" /\ Template!Token(t) /\ at \in Template!Running /\ at # "field" /\ verb = <<>>
  BY DEF Template!Segment, Template!Running, ReadingInv, Place
<1>2. /\ n \in Nat /\ Len(input') = n + 1 /\ DOMAIN input' = 1 .. n + 1 /\ \A i \in 1 .. n : input'[i] = input[i]
      /\ input' \in Seq(Template!Tokens) /\ input'[n + 1] = t
      /\ DepthOf(input', n + 1) = Len(open) + 0 + Turn(t)
      /\ Template!Grammatical' <=> FollowsAt(input', n + 1)
  BY <1>1, Reading
<1>3. n > 0 /\ input[n] \in {<<"/">>, <<"=">>} /\ (FollowsAt(input', n + 1) <=> Template!Starts(t))
  BY <1>1, ReadGrows, Expected DEF ReadingInv, Place, Leads
<1>4. n + 1 > 1 /\ n + 1 - 1 = n /\ input'[n] = input[n] /\ n \in 1 .. n
  <2>1. n \in Nat /\ n > 0
    BY <1>2, <1>3
  <2>2. n + 1 > 1 /\ n + 1 - 1 = n /\ n \in 1 .. n
    BY <2>1
  <2> QED
    BY <1>2, <2>2
<1>8. input'[n] \notin {Brace, Colon}
  BY <1>3, <1>4, TokensAre DEF Brace, Colon
<1>5. CASE /\ t \in Wildcards \/ Template!LiteralOK(t)
           /\ at' = "next" /\ seenDoubleStar' = (seenDoubleStar \/ t = DoubleStar)
           /\ UNCHANGED <<open, found, verb>>
  <2>1. t \in Wildcards \cup Words /\ t # <<"{">> /\ t # <<"}">>
    BY <1>5, TokensAre DEF Template!LiteralOK
  <2>2. Template!Starts(t)
    BY <1>5, WildcardsIs DEF Template!Starts, Template!Literals, Template!LiteralOK
  <2>3. Noted'
    BY <1>1, <1>5, NotedStays
  <2>4. DepthOf(input', n + 1) = Len(open) + 0 + 0
    BY <1>2, <2>1 DEF Turn
  <2>5. Counted'
    BY <1>2, <1>5, <2>4 DEF Counted
  <2>6. Place'
    <3>1. t \in Closes
      BY <1>5 DEF Closes, Template!LiteralOK
    <3> QED
      BY <1>1, <1>2, <1>4, <1>8, <1>5, <3>1 DEF Place, Template!Running
  <2> QED
    BY <1>2, <1>3, <1>5, <2>2, <2>3, <2>5, <2>6 DEF ReadingInv, Parsed, Template!Running
<1>6. CASE t = <<"{">> /\ at' = "field" /\ UNCHANGED <<seenDoubleStar, pattern, open, found, verb>>
  <2>1. t # DoubleStar
    BY <1>6, TokensAre
  <2>2. Template!Starts(t)
    BY <1>6 DEF Template!Starts
  <2>3. Noted'
    BY <1>1, <1>6, <2>1, NotedStays
  <2>4. DepthOf(input', n + 1) = Len(open) + 0 + 1
    BY <1>2, <1>6 DEF Turn
  <2>7. at' = "field" /\ UNCHANGED <<open, verb>>
    BY <1>6
  <2>5. Counted'
    <3>1. Len(open') + 1 = Len(open) + 0 + 1
      BY <2>7
    <3> QED
      BY <1>2, <2>4, <2>7, <3>1 DEF Counted
  <2>6. Place'
    <3>1. t = Brace
      BY <1>6 DEF Brace
    <3> QED
      BY <1>1, <1>2, <1>4, <1>8, <2>7, <3>1 DEF Place, Template!Running
  <2> QED
    BY <1>2, <1>3, <1>6, <2>2, <2>3, <2>5, <2>6 DEF ReadingInv, Parsed, Template!Running
<1>7. CASE t \notin Wildcards \cup {<<"{">>} /\ ~Template!LiteralOK(t) /\ at' = "rejected"
  <2>1. ~Template!Starts(t)
    BY <1>7, WildcardsIs DEF Template!Starts, Template!Literals, Template!LiteralOK
  <2>2. ~Template!Grammatical'
    BY <1>2, <1>3, <2>1
  <2> QED
    BY <1>1, <1>7, <2>2, RejectedReading
<1> QED
  BY <1>5, <1>6, <1>7, WildcardsIs DEF Template!Segment, Template!Rejected, DoubleStar

LEMMA FieldReading ==
    ASSUME ParserInv, ReadingInv, NEW t \in Template!Tokens, Template!Field(t)
    PROVE  ReadingInv'
<1> DEFINE n == Len(input)
<1>1. at = "field" /\ Template!Token(t) /\ at \in Template!Running
  BY DEF Template!Field, Template!Running
<1>2. /\ n \in Nat /\ Len(input') = n + 1 /\ DOMAIN input = 1 .. n /\ DOMAIN input' = 1 .. n + 1
      /\ \A i \in 1 .. n : input'[i] = input[i]
      /\ input' \in Seq(Template!Tokens) /\ input'[n + 1] = t
      /\ DepthOf(input', n + 1) = Len(open) + 1 + Turn(t)
      /\ Template!Grammatical' <=> FollowsAt(input', n + 1)
      /\ (\E i \in 1 .. n + 1 : input'[i] = DoubleStar) <=> seenDoubleStar \/ t = DoubleStar
      /\ \A name : Names(input, name) => Names(input', name)
      /\ n > 0 /\ input[n] = <<"{">> => FieldAt(input', n + 1) /\ Names(input', t)
  BY <1>1, Reading
<1>3. n > 0 /\ input[n] = <<"{">> /\ (FollowsAt(input', n + 1) <=> t \in Words /\ Template!IsFieldPath(t))
  BY <1>1, ReadGrows, Expected DEF ReadingInv, Place, Template!Running, Brace
<1>4. n + 1 > 1 /\ n + 1 - 1 = n /\ input'[n] = input[n] /\ n \in 1 .. n
  <2>1. n \in Nat /\ n > 0
    BY <1>2, <1>3
  <2>2. n + 1 > 1 /\ n + 1 - 1 = n /\ n \in 1 .. n
    BY <2>1
  <2> QED
    BY <1>2, <2>2
<1>5. CASE t \in Words /\ Template!IsFieldPath(t) /\ ~Template!Duplicate(t)
  <2>1. /\ open' = Append(open, [field |-> t, start |-> Len(pattern)])
        /\ at' = "assign" /\ UNCHANGED <<seenDoubleStar, pattern, found, verb>>
    BY <1>5 DEF Template!Field
  <2>2. open \in Seq([field : Seq(Chars), start : Nat])
    BY DEF ParserInv, ParserTypes
  <2>3. /\ Len(open') = Len(open) + 1 /\ Len(open) \in Nat
        /\ \A j \in DOMAIN open' : (j \in DOMAIN open /\ open'[j] = open[j]) \/ open'[j].field = t
    <3>1. t \in Seq(Chars) /\ Len(pattern) \in Nat
      BY <1>5, WordType DEF ParserInv, ParserTypes
    <3> DEFINE v == [field |-> t, start |-> Len(pattern)]
    <3>2. v \in [field : Seq(Chars), start : Nat] /\ v.field = t
      BY <3>1
    <3> HIDE DEF v
    <3>3. Append(open, v) = open'
      BY <2>1 DEF v
    <3> QED
      BY <2>2, <3>2, <3>3, Appended
  <2>4. t # <<"{">> /\ t # <<"}">> /\ t # DoubleStar
    BY <1>5, TokensAre
  <2>5. DepthOf(input', n + 1) = Len(open) + 1 + 0
    BY <1>2, <2>4 DEF Turn
  <2>6. Counted'
    BY <1>2, <2>1, <2>3, <2>5 DEF Counted
  <2>7. Noted'
    <3>1. seenDoubleStar' <=> \E i \in DOMAIN input' : input'[i] = DoubleStar
      BY <1>2, <2>1, <2>4
    <3>2. \A j \in DOMAIN found' : Names(input', found'[j].field)
      BY <1>1, <1>2, <2>1 DEF ReadingInv, Noted
    <3>3. \A j \in DOMAIN open' : Names(input', open'[j].field)
      BY <1>1, <1>2, <1>3, <2>3 DEF ReadingInv, Noted
    <3> QED
      BY <3>1, <3>2, <3>3 DEF Noted
  <2>8. Place'
    <3>1. input[n] = Brace /\ t \in Words /\ verb = <<>>
      BY <1>1, <1>3, <1>5 DEF Brace, ReadingInv, Place, Template!Running
    <3>2. /\ at' = "assign" /\ verb' = <<>> /\ Len(input') = n + 1 /\ input' \in Seq(Template!Tokens)
          /\ input'[n + 1] = t /\ input'[n] = Brace
      BY <1>2, <1>4, <2>1, <3>1
    <3> QED
      BY <1>4, <3>1, <3>2 DEF Place, Template!Running
  <2> QED
    BY <1>2, <1>3, <1>5, <2>1, <2>6, <2>7, <2>8 DEF ReadingInv, Parsed
<1>6. CASE ~(t \in Words /\ Template!IsFieldPath(t))
  <2>1. at' = "rejected"
    BY <1>6 DEF Template!Field, Template!Rejected
  <2>2. ~Template!Grammatical'
    BY <1>2, <1>3, <1>6
  <2> QED
    BY <1>1, <2>1, <2>2, RejectedReading
<1>7. CASE Template!Duplicate(t)
  <2>1. at' = "rejected"
    BY <1>7 DEF Template!Field, Template!Rejected
  <2>2. PICK j \in DOMAIN found : found[j].field = t
    BY <1>7 DEF Template!Duplicate, ToSet, Template!ToSet
  <2>3. Names(input, t)
    BY <1>1, <2>2 DEF ReadingInv, Noted
  <2>4. PICK i \in 1 .. n : FieldAt(input, i) /\ input[i] = t
    BY <1>2, <2>3 DEF Names
  <2>5. i \in 1 .. n + 1 /\ n + 1 \in 1 .. n + 1 /\ i < n + 1 /\ input'[i] = t
    <3>1. n \in Nat
      BY <1>2
    <3>2. i \in 1 .. n + 1 /\ n + 1 \in 1 .. n + 1 /\ i < n + 1
      BY <3>1
    <3> QED
      BY <1>2, <2>4, <3>2
  <2>6. FieldAt(input', i) /\ FieldAt(input', n + 1)
    <3>1. Grows(input, t, input', n)
      BY <1>1, ReadGrows DEF ReadingInv
    <3>2. FieldAt(input', i)
      BY <2>4, <2>5, <3>1, AfterStays
    <3> QED
      BY <1>2, <1>3, <3>2
  <2>7. Template!Twice'
    BY <1>2, <2>5, <2>6, FollowsIs DEF Template!Twice
  <2> QED
    BY <1>1, <2>1, <2>7, RejectedReading
<1> QED
  BY <1>5, <1>6, <1>7

Shut == <<"}">>

LEMMA CloseReading ==
    ASSUME ParserInv, ReadingInv, NEW t \in Template!Tokens, t = Shut, at \in {"assign", "next"}, Template!Token(t),
           open # <<>>, NEW segs \in Seq(SegmentTexts), Template!Close(segs)
    PROVE  ReadingInv'
<1> DEFINE n == Len(input)
           o == open[Len(open)]
           v == [field |-> o.field, start |-> o.start, end |-> IF seenDoubleStar THEN -1 ELSE Len(segs)]
           T == [field : Seq(Chars), start : Nat]
<1>1. at \in Template!Running /\ at # "field" /\ verb = <<>>
  BY DEF Template!Running, ReadingInv, Place
<1>2. /\ n \in Nat /\ Len(input') = n + 1 /\ DOMAIN input' = 1 .. n + 1
      /\ \A i \in 1 .. n : input'[i] = input[i]
      /\ input' \in Seq(Template!Tokens) /\ input'[n + 1] = t
      /\ DepthOf(input', n + 1) = Len(open) + 0 + Turn(t)
      /\ Template!Grammatical' <=> FollowsAt(input', n + 1)
      /\ (\E i \in 1 .. n + 1 : input'[i] = DoubleStar) <=> seenDoubleStar \/ t = DoubleStar
      /\ \A name : Names(input, name) => Names(input', name)
  BY <1>1, Reading
<1>3. /\ o \in T /\ v \in VariableType
      /\ open' \in Seq(T) /\ open = Append(open', o)
      /\ found \in Seq(VariableType) /\ found' = Append(found, v)
      /\ at' = "next" /\ UNCHANGED <<seenDoubleStar, verb>>
  BY Popped
<1>4. v.field = o.field
  OBVIOUS
<1> HIDE DEF v, T, o
<1>5. /\ Len(open) = Len(open') + 1 /\ Len(open') \in Nat
      /\ \A j \in DOMAIN open' : j \in DOMAIN open /\ open[j] = open'[j]
      /\ Len(open) \in DOMAIN open
  <2>1. /\ Append(open', o) \in Seq(T) /\ Len(Append(open', o)) = Len(open') + 1
        /\ \A j \in 1 .. Len(open') : Append(open', o)[j] = open'[j]
    BY <1>3, AppendProperties
  <2>2. Len(open') \in Nat /\ DOMAIN open' = 1 .. Len(open') /\ DOMAIN open = 1 .. Len(open)
    BY <1>3, <2>1
  <2>3. open # <<>> /\ Len(open) \in Nat /\ Len(open) = Len(open') + 1
    BY <1>3, <2>1
  <2>4. Len(open) \in 1 .. Len(open) /\ \A j \in 1 .. Len(open') : j \in 1 .. Len(open)
    BY <2>2, <2>3
  <2> QED
    BY <1>3, <2>1, <2>2, <2>3, <2>4
<1>6. /\ n > 1 /\ input[n] \in Words \cup Closes
      /\ FollowsAt(input', n + 1) <=> at = "assign" \/ DepthOf(input', n + 1) >= 0
  <2>1. t # <<"/">> /\ t # <<":">> /\ t # <<"=">>
    BY TokensAre DEF Shut
  <2>2. Grows(input, t, input', n)
    BY ReadGrows DEF ReadingInv
  <2>3. CASE at = "assign"
    BY <2>2, <2>3, Expected DEF ReadingInv, Place, Shut
  <2>4. CASE at = "next"
    BY <2>1, <2>2, <2>4, Expected DEF ReadingInv, Place, Shut
  <2> QED
    BY <2>3, <2>4
<1>7. DepthOf(input', n + 1) = Len(open')
  <2>1. Turn(t) = -1
    BY TokensAre DEF Turn, Shut
  <2>2. Len(open') + 1 + 0 + (-1) = Len(open')
    BY <1>5
  <2> QED
    BY <1>2, <1>5, <2>1, <2>2
<1>8. Counted'
  <2>1. Len(open') + 0 = Len(open') /\ at' # "field" /\ Len(input') = n + 1
    BY <1>2, <1>3, <1>5
  <2> QED
    BY <1>7, <2>1 DEF Counted
<1>9. Noted'
  <2>1. seenDoubleStar' <=> \E i \in DOMAIN input' : input'[i] = DoubleStar
    BY <1>2, <1>3, TokensAre DEF Shut
  <2>2. \A j \in DOMAIN open' : Names(input', open'[j].field)
    BY <1>1, <1>2, <1>5 DEF ReadingInv, Noted
  <2>3. Names(input', v.field)
    BY <1>1, <1>2, <1>4, <1>5 DEF ReadingInv, Noted, o
  <2>4. \A j \in DOMAIN found' : found'[j] = v \/ (j \in DOMAIN found /\ found'[j] = found[j])
    BY <1>3, Appended
  <2>5. \A j \in DOMAIN found' : Names(input', found'[j].field)
    BY <1>1, <1>2, <2>3, <2>4 DEF ReadingInv, Noted
  <2> QED
    BY <2>1, <2>2, <2>5 DEF Noted
<1>10. Place'
  <2>5. n \in Nat /\ n > 1
    BY <1>2, <1>6
  <2>1. n + 1 > 1 /\ n + 1 - 1 = n /\ n \in 1 .. n
    BY <2>5
  <2>2. t \in Closes
    BY DEF Closes, Shut
  <2>3. input[n] \notin {Brace, Colon}
    BY <1>6, TokensAre DEF Closes, Brace, Colon
  <2>4. /\ at' = "next" /\ verb' = <<>> /\ Len(input') = n + 1 /\ input' \in Seq(Template!Tokens)
        /\ input'[n + 1] = t /\ input'[n] = input[n]
    BY <1>1, <1>2, <1>3, <2>1
  <2> QED
    BY <2>1, <2>2, <2>3, <2>4 DEF Place, Template!Running
<1>11. Template!Grammatical'
  <2>1. Len(open') >= 0
    BY <1>5
  <2> QED
    BY <1>2, <1>6, <1>7, <2>1
<1> QED
  BY <1>3, <1>8, <1>9, <1>10, <1>11 DEF ReadingInv, Parsed

LEMMA AssignReading ==
    ASSUME ParserInv, ReadingInv, NEW t \in Template!Tokens, Template!Assign(t)
    PROVE  ReadingInv'
<1> DEFINE n == Len(input)
<1>1. at = "assign" /\ Template!Token(t) /\ at \in Template!Running /\ at # "field" /\ verb = <<>>
  BY DEF Template!Assign, Template!Running, ReadingInv, Place
<1>2. /\ n \in Nat /\ Len(input') = n + 1 /\ DOMAIN input' = 1 .. n + 1 /\ \A i \in 1 .. n : input'[i] = input[i]
      /\ input' \in Seq(Template!Tokens) /\ input'[n + 1] = t
      /\ DepthOf(input', n + 1) = Len(open) + 0 + Turn(t)
      /\ Template!Grammatical' <=> FollowsAt(input', n + 1)
  BY <1>1, Reading
<1>3. n > 1 /\ input[n] \in Words /\ (FollowsAt(input', n + 1) <=> t \in {<<"=">>, <<"}">>})
  BY <1>1, ReadGrows, Expected DEF ReadingInv, Place
<1>4. CASE t = <<"=">> /\ at' = "segment" /\ UNCHANGED <<seenDoubleStar, pattern, open, found, verb>>
  <2>1. t # DoubleStar /\ t # <<"{">> /\ t # <<"}">>
    BY <1>4, TokensAre
  <2>2. at' = "segment" /\ UNCHANGED <<seenDoubleStar, open, found, verb>>
    BY <1>4
  <2>3. Noted'
    BY <1>1, <2>1, <2>2, NotedStays
  <2>4. Counted'
    <3>1. DepthOf(input', n + 1) = Len(open) + 0 + 0
      BY <1>2, <2>1 DEF Turn
    <3> QED
      BY <1>2, <2>2, <3>1 DEF Counted
  <2>5. Place'
    <3>5. n \in Nat /\ n > 1
      BY <1>2, <1>3
    <3>1. n + 1 > 1 /\ n + 1 - 1 = n /\ n \in 1 .. n
      BY <3>5
    <3>2. t \in Leads
      BY <1>4 DEF Leads
    <3>3. input[n] \notin {Brace, Colon}
      BY <1>3, TokensAre DEF Brace, Colon
    <3>4. /\ verb' = <<>> /\ Len(input') = n + 1 /\ input' \in Seq(Template!Tokens)
          /\ input'[n + 1] = t /\ input'[n] = input[n]
      BY <1>1, <1>2, <2>2, <3>1
    <3> QED
      BY <2>2, <3>1, <3>2, <3>3, <3>4 DEF Place, Template!Running
  <2>6. Parsed'
    BY <1>2, <1>3, <1>4, <2>2 DEF Parsed
  <2> QED
    BY <2>3, <2>4, <2>5, <2>6 DEF ReadingInv
<1>5. CASE t = <<"}">> /\ Template!Close(Append(pattern, <<"*">>))
  <2>1. Append(pattern, <<"*">>) \in Seq(SegmentTexts)
    BY DEF ParserInv, ParserTypes, SegmentTexts, Wildcards
  <2>2. open # <<>>
    BY <1>1 DEF ParserInv, OpenInside
  <2> QED
    BY <1>1, <1>5, <2>1, <2>2, CloseReading DEF Shut
<1>6. CASE t \notin {<<"=">>, <<"}">>} /\ at' = "rejected"
  <2>1. ~Template!Grammatical'
    BY <1>2, <1>3, <1>6
  <2> QED
    BY <1>1, <1>6, <2>1, RejectedReading
<1> QED
  BY <1>4, <1>5, <1>6 DEF Template!Assign, Template!Rejected

LEMMA AfterSegmentReading ==
    ASSUME ParserInv, ReadingInv, NEW t \in Template!Tokens, Template!AfterSegment(t)
    PROVE  ReadingInv'
<1> DEFINE n == Len(input)
           m == n + 1
           slash == <<"/">>
<1>1. at = "next" /\ Template!Token(t) /\ at \in Template!Running /\ at # "field" /\ verb = <<>>
  BY DEF Template!AfterSegment, Template!Running, ReadingInv, Place
<1>2. /\ n \in Nat /\ Len(input') = m /\ DOMAIN input' = 1 .. m /\ \A i \in 1 .. n : input'[i] = input[i]
      /\ input' \in Seq(Template!Tokens) /\ input'[m] = t
      /\ DepthOf(input', m) = Len(open) + 0 + Turn(t)
      /\ Template!Grammatical' <=> FollowsAt(input', m)
      /\ (\E i \in 1 .. m : input'[i] = DoubleStar) <=> seenDoubleStar \/ t = DoubleStar
  BY <1>1, Reading
<1>3. n > 1 /\ input[n] \in Closes
  BY <1>1 DEF ReadingInv, Place
<1>4. FollowsAt(input', m) <=>
          \/ t = slash /\ ~\E j \in 1 .. m : input'[j] = DoubleStar
          \/ t = Shut /\ DepthOf(input', m) >= 0
          \/ t = Colon /\ DepthOf(input', m) = 0
  BY <1>1, ReadGrows, Expected DEF ReadingInv, Shut, Colon
<1>5. slash # Shut /\ slash # Colon /\ Shut # Colon /\ slash # DoubleStar
  BY TokensAre DEF Shut, Colon
<1>6. Turn(slash) = 0 /\ Turn(Shut) = -1 /\ Turn(Colon) = 0
  BY TokensAre DEF Turn, Shut, Colon
<1>7. Len(open) \in Nat /\ (open = <<>> <=> Len(open) = 0)
  BY DEF ParserInv, ParserTypes
<1>8. m > 1 /\ m - 1 = n /\ n \in 1 .. n
  <2>1. n \in Nat /\ n > 1
    BY <1>2, <1>3
  <2> QED
    BY <2>1
<1>9. input'[n] = input[n] /\ input'[n] \notin {Brace, Colon}
  BY <1>2, <1>3, <1>8, TokensAre DEF Closes, Brace, Colon
<1> HIDE DEF m
<1>10. CASE t = slash /\ ~seenDoubleStar
  <2>1. at' = "segment" /\ UNCHANGED <<seenDoubleStar, open, found, verb>>
    BY <1>10 DEF Template!AfterSegment
  <2>2. Noted'
    BY <1>1, <1>5, <1>10, <2>1, NotedStays
  <2>3. Counted'
    <3>1. DepthOf(input', m) = Len(open) + 0 + 0
      BY <1>2, <1>6, <1>10
    <3> QED
      BY <1>2, <2>1, <3>1 DEF Counted
  <2>4. t \in Leads
    BY <1>10 DEF Leads
  <2>5. FollowsAt(input', m)
    BY <1>2, <1>4, <1>5, <1>10
  <2> HIDE DEF slash
  <2>6. Place'
    BY <1>1, <1>2, <1>8, <1>9, <2>1, <2>4 DEF Place, Template!Running
  <2> QED
    BY <1>2, <2>1, <2>2, <2>3, <2>5, <2>6 DEF ReadingInv, Parsed
<1>11. CASE t = Shut /\ open # <<>>
  <2>1. Template!Close(pattern)
    BY <1>5, <1>11 DEF Template!AfterSegment, Shut, Colon
  <2>2. pattern \in Seq(SegmentTexts)
    BY DEF ParserInv, ParserTypes
  <2> QED
    BY <1>1, <1>11, <2>1, <2>2, CloseReading
<1>12. CASE t = Colon /\ open = <<>>
  <2>1. at' = "verb" /\ UNCHANGED <<seenDoubleStar, open, found, verb>>
    BY <1>5, <1>12 DEF Template!AfterSegment, Shut, Colon
  <2>2. Noted'
    <3>1. t # DoubleStar
      BY <1>12, TokensAre DEF Colon
    <3> QED
      BY <1>1, <2>1, <3>1, NotedStays
  <2>7. DepthOf(input', m) = Len(open) + 0 + 0 /\ Len(open) = 0
    BY <1>2, <1>6, <1>7, <1>12
  <2>3. Counted'
    BY <1>2, <2>1, <2>7 DEF Counted
  <2>5. FollowsAt(input', m)
    BY <1>4, <1>12, <2>7
  <2>6. Place'
    BY <1>1, <1>2, <1>8, <1>9, <1>12, <2>1 DEF Place, Template!Running
  <2> QED
    BY <1>2, <2>1, <2>2, <2>3, <2>5, <2>6 DEF ReadingInv, Parsed
<1>13. CASE ~(t = slash /\ ~seenDoubleStar) /\ ~(t = Shut /\ open # <<>>) /\ ~(t = Colon /\ open = <<>>)
  <2>1. at' = "rejected"
    BY <1>13 DEF Template!AfterSegment, Template!Rejected, Shut, Colon
  <2>2. t = slash => \E j \in 1 .. m : input'[j] = DoubleStar
    BY <1>2, <1>13
  <2>3. t = Shut => ~(DepthOf(input', m) >= 0)
    <3> SUFFICES ASSUME t = Shut PROVE ~(DepthOf(input', m) >= 0)
      OBVIOUS
    <3>1. Len(open) = 0 /\ DepthOf(input', m) = Len(open) + 0 + (-1)
      BY <1>2, <1>6, <1>7, <1>13
    <3> QED
      BY <3>1
  <2>4. t = Colon => DepthOf(input', m) # 0
    <3> SUFFICES ASSUME t = Colon PROVE DepthOf(input', m) # 0
      OBVIOUS
    <3>1. Len(open) # 0 /\ Len(open) \in Nat /\ DepthOf(input', m) = Len(open) + 0 + 0
      BY <1>2, <1>6, <1>7, <1>13
    <3> QED
      BY <3>1
  <2>5. ~Template!Grammatical'
    BY <1>2, <1>4, <2>2, <2>3, <2>4
  <2> QED
    BY <1>1, <2>1, <2>5, RejectedReading
<1> QED
  BY <1>10, <1>11, <1>12, <1>13

LEMMA VerbReading ==
    ASSUME ReadingInv, NEW t \in Template!Tokens, Template!Verb(t)
    PROVE  ReadingInv'
<1> DEFINE n == Len(input)
           m == n + 1
<1>1. at = "verb" /\ Template!Token(t) /\ at \in Template!Running /\ at # "field"
  BY DEF Template!Verb, Template!Running
<1>2. /\ n \in Nat /\ Len(input') = m /\ DOMAIN input' = 1 .. m /\ \A i \in 1 .. n : input'[i] = input[i]
      /\ input' \in Seq(Template!Tokens) /\ input'[m] = t
      /\ DepthOf(input', m) = Len(open) + 0 + Turn(t)
      /\ Template!Grammatical' <=> FollowsAt(input', m)
  BY <1>1, Reading
<1>3. n > 0 /\ input[n] = Colon /\ open = <<>> /\ (FollowsAt(input', m) <=> t \in Template!Literals)
  BY <1>1, ReadGrows, Expected DEF ReadingInv, Place
<1>4. m > 1 /\ m - 1 = n /\ n \in 1 .. n
  <2>1. n \in Nat /\ n > 0
    BY <1>2, <1>3
  <2> QED
    BY <2>1
<1>5. Template!LiteralOK(t) <=> t \in Template!Literals
  BY DEF Template!LiteralOK, Template!Literals
<1> HIDE DEF m
<1>6. CASE Template!LiteralOK(t)
  <2>1. at' = "end" /\ verb' = Template!Canonical(t) /\ UNCHANGED <<seenDoubleStar, open, found>>
    BY <1>6 DEF Template!Verb
  <2>2. t \in Words
    BY <1>6 DEF Template!LiteralOK
  <2>3. t # DoubleStar /\ t # <<"{">> /\ t # <<"}">>
    BY <2>2, TokensAre
  <2>4. Noted'
    BY <1>1, <2>1, <2>3, NotedStays
  <2>5. Counted'
    <3>1. DepthOf(input', m) = Len(open) + 0 + 0
      BY <1>2, <2>3 DEF Turn
    <3> QED
      BY <1>2, <2>1, <3>1 DEF Counted
  <2>6. Place'
    <3>1. verb' # <<>>
      BY <1>6, <2>1, LiteralNonempty
    <3> QED
      BY <1>2, <1>3, <1>4, <2>1, <2>2, <3>1 DEF Place, Template!Running
  <2> QED
    BY <1>2, <1>3, <1>5, <1>6, <2>1, <2>4, <2>5, <2>6 DEF ReadingInv, Parsed
<1>7. CASE ~Template!LiteralOK(t)
  <2>1. at' = "rejected"
    BY <1>7 DEF Template!Verb, Template!Rejected
  <2>2. ~Template!Grammatical'
    BY <1>2, <1>3, <1>5, <1>7
  <2> QED
    BY <1>1, <2>1, <2>2, RejectedReading
<1> QED
  BY <1>6, <1>7

LEMMA TrailingReading ==
    ASSUME ReadingInv, NEW t \in Template!Tokens, Template!Trailing(t)
    PROVE  ReadingInv'
<1> DEFINE n == Len(input)
<1>1. at = "end" /\ Template!Token(t) /\ at \in Template!Running /\ at' = "rejected"
  BY DEF Template!Trailing, Template!Rejected, Template!Running
<1>2. Template!Grammatical' <=> FollowsAt(input', n + 1)
  BY <1>1, Reading
<1>3. ~FollowsAt(input', n + 1)
  BY <1>1, ReadGrows, Expected DEF ReadingInv
<1> QED
  BY <1>1, <1>2, <1>3, RejectedReading

LEMMA EndedIs ==
    Template!Ended <=> input # <<>> /\ DepthOf(input, Len(input)) = 0 /\ input[Len(input)] \in Closes
BY FollowsIs, WildcardsIs DEF Template!Ended, Closes, Template!Last

LEMMA EndReading ==
    ASSUME ParserInv, ReadingInv, Template!EOF
    PROVE  ReadingInv'
<1> DEFINE n == Len(input)
           past == at = "end" \/ (at = "next" /\ open = <<>>)
<1>1. /\ at \in Template!Running /\ at' = IF past THEN "accepted" ELSE "short"
      /\ UNCHANGED <<input, seenDoubleStar, pattern, open, found, verb>>
  BY DEF Template!EOF
<1>2. DepthOf(input, n) = Len(open) + (IF at = "field" THEN 1 ELSE 0)
  BY <1>1 DEF ReadingInv, Counted
<1>3. Len(open) \in Nat /\ (open = <<>> <=> Len(open) = 0)
  BY DEF ParserInv, ParserTypes
<1>4. Template!Grammatical' /\ (Template!Ended' <=> Template!Ended)
  <2>1. Template!Grammatical
    BY <1>1 DEF ReadingInv, Parsed
  <2> QED
    BY <1>1, <2>1 DEF Template!Grammatical, Template!Follows, Template!Ended, Template!IsField, Template!IsVerb,
       Template!After, Template!Named, Template!Complete, Template!Joins, Template!Depth, Template!Tally
<1>5. input \in Seq(Template!Tokens) /\ n \in Nat /\ (input # <<>> <=> n > 0)
  BY DEF ReadingInv, Place
<1>6. past <=> Template!Ended
  <2>1. CASE at = "end"
    <3>1. n > 1 /\ input[n] \in Words /\ open = <<>>
      BY <2>1 DEF ReadingInv, Place
    <3>2. DepthOf(input, n) = 0
      BY <1>2, <1>3, <2>1, <3>1
    <3>4. n > 0
      BY <1>5, <3>1
    <3>3. input # <<>> /\ input[n] \in Closes
      BY <1>5, <3>1, <3>4 DEF Closes
    <3> QED
      BY <2>1, <3>2, <3>3, EndedIs
  <2>2. CASE at = "next"
    <3>1. n > 1 /\ input[n] \in Closes
      BY <2>2 DEF ReadingInv, Place
    <3>2. DepthOf(input, n) = Len(open) /\ input # <<>>
      BY <1>2, <1>3, <1>5, <2>2, <3>1
    <3> QED
      BY <1>3, <2>2, <3>1, <3>2, EndedIs
  <2>3. CASE at = "template"
    BY <1>5, <2>3, EndedIs DEF ReadingInv, Place
  <2>4. CASE at \in {"segment", "field", "verb"}
    <3>1. input[n] \in Leads \cup {Brace, Colon}
      BY <2>4 DEF ReadingInv, Place
    <3>2. input[n] \notin Closes
      BY <3>1, TokensAre DEF Leads, Brace, Colon, Closes
    <3> QED
      BY <2>4, <3>2, EndedIs
  <2>5. CASE at = "assign"
    <3>1. open # <<>>
      BY <2>5 DEF ParserInv, OpenInside
    <3>2. DepthOf(input, n) # 0
      BY <1>2, <1>3, <2>5, <3>1
    <3> QED
      BY <2>5, <3>2, EndedIs
  <2> QED
    BY <1>1, <2>1, <2>2, <2>3, <2>4, <2>5 DEF Template!Running
<1>7. at' \notin Template!Running
  BY <1>1 DEF Template!Running
<1> HIDE DEF past
<1> QED
  BY <1>1, <1>4, <1>5, <1>6, <1>7 DEF ReadingInv, Place, Counted, Noted, Parsed, Template!Running

LEMMA ReadingInit == Init => ReadingInv
<1> SUFFICES ASSUME Init PROVE ReadingInv
  OBVIOUS
<1>1. /\ input = <<>> /\ at = "template" /\ seenDoubleStar = FALSE
      /\ pattern = <<>> /\ open = <<>> /\ found = <<>> /\ verb = <<>>
  BY DEF Init, Template!Init
<1>2. Len(input) = 0 /\ DOMAIN input = {} /\ DOMAIN open = {} /\ DOMAIN found = {} /\ Len(open) = 0
      /\ input \in Seq(Template!Tokens)
  BY <1>1
<1>3. Place
  BY <1>1, <1>2 DEF Place, Template!Running
<1>4. Counted
  <2>1. \A token : {j \in 1 .. 0 : input[j] = token} = {}
    OBVIOUS
  <2>2. \A token : TallyOf(input, token, 0) = 0
    BY <2>1, FS_EmptySet DEF TallyOf
  <2>3. DepthOf(input, 0) = 0
    <3>1. 0 - 0 = 0
      OBVIOUS
    <3> QED
      BY <2>2, <3>1 DEF DepthOf
  <2> QED
    BY <1>1, <1>2, <2>3 DEF Counted
<1>5. Noted
  BY <1>1, <1>2 DEF Noted
<1>6. Parsed
  BY <1>1, <1>2 DEF Parsed, Template!Grammatical
<1> QED
  BY <1>3, <1>4, <1>5, <1>6 DEF ReadingInv

LEMMA ReadingStep ==
    ASSUME ParserInv, ReadingInv, [Next]_vars
    PROVE  ReadingInv'
<1>1. CASE UNCHANGED parser
  <2>1. UNCHANGED <<input, at, seenDoubleStar, pattern, open, found, verb>>
    BY <1>1 DEF parser
  <2>2. Template!Grammatical' <=> Template!Grammatical
    BY <2>1, FollowsIs DEF Template!Grammatical
  <2>3. Template!Twice' <=> Template!Twice
    BY <2>1, FollowsIs DEF Template!Twice
  <2>4. Template!Ended' <=> Template!Ended
    BY <2>1, FollowsIs DEF Template!Ended
  <2>5. Parsed'
    BY <2>1, <2>2, <2>3, <2>4 DEF ReadingInv, Parsed
  <2>6. Place' /\ Counted' /\ Noted'
    BY <2>1 DEF ReadingInv, Place, Counted, Noted
  <2> QED
    BY <2>5, <2>6 DEF ReadingInv
<1>2. CASE Template!Parse
  <2>1. ASSUME NEW t \in Template!Tokens, Template!Read(t) PROVE ReadingInv'
    BY <2>1, RootReading, SegmentReading, FieldReading, AssignReading, AfterSegmentReading, VerbReading,
       TrailingReading DEF Template!Read
  <2> QED
    BY <1>2, <2>1, EndReading DEF Template!Parse
<1> QED
  BY <1>1, <1>2 DEF Next, vars, ReadTemplate, Bind, EncodePath, Send, Match, DecodeBody, CaptureVariable,
     EncodeField, DecodeParameter, Delivered, Decided

(* The later of two variables of one name is around the earlier.              *)
LEMMA NoneApart == ASSUME ParserInv, Nesting PROVE ~Template!TwiceApart
<1> SUFFICES ASSUME NEW i \in DOMAIN found, NEW j \in DOMAIN found, i < j, found[i].field = found[j].field,
                    Template!Ending(found[i]) <= found[j].start
             PROVE  FALSE
  BY DEF Template!TwiceApart
<1>1. found[j].start <= found[i].start
  BY DEF Nesting
<1>2. found[i] \in VariableType /\ found[j] \in VariableType /\ Len(pattern) \in Nat
  BY DEF ParserInv, ParserTypes
<1>3. VarOK(found[i])
  BY DEF ParserInv, BoundsOK
<1>4. found[i].start < Template!Ending(found[i]) /\ Template!Ending(found[i]) \in Int
  BY <1>2, <1>3 DEF VarOK, Template!Ending, VariableType
<1> QED
  BY <1>1, <1>2, <1>4 DEF VariableType

---------------------------------------------------------------------------
(* What is printed of what was parsed *)

(* The template as it would be printed with variables still open: those print *)
(* before the ones that were closed at their place, for they are around them. *)
Texts == Seq(Chars) \cup Template!Tokens \cup {Canonical(w) : w \in Words}

OpenText(v, i) == IF v.start = i - 1 THEN << <<"{">>, v.field, <<"=">> >> ELSE <<>>
CloseText(v, m, i) == IF (IF v.end = -1 THEN m ELSE v.end) = i THEN << <<"}">> >> ELSE <<>>
OpenTexts(vs, i) == [j \in DOMAIN vs |-> OpenText(vs[j], i)]
CloseTexts(vs, m, i) == [j \in DOMAIN vs |-> CloseText(vs[j], m, i)]
Opens(vs, i) == FlattenSeq(OpenTexts(vs, i))
Opened(vs, i) == FlattenSeq(Reverse(OpenTexts(vs, i)))
Closed(vs, m, i) == FlattenSeq(CloseTexts(vs, m, i))
Heading(opn, fnd, i) == << <<"/">> >> \o (Opens(opn, i) \o Opened(fnd, i))
SegmentText(pat, opn, fnd, i) == Heading(opn, fnd, i) \o <<pat[i]>> \o Closed(fnd, Len(pat), i)
Text(pat, opn, fnd) == FlattenSeq([i \in DOMAIN pat |-> SegmentText(pat, opn, fnd, i)])

Fielded(V) == \A v \in V : v.field \in Seq(Chars)

(* All of it is a text of tokens.                                             *)
LEMMA OpenTextType ==
    ASSUME NEW V, Fielded(V), NEW v \in V, NEW i
    PROVE  OpenText(v, i) \in Seq(Texts)
<1> DEFINE a == <<"{">>
           b == v.field
           c == <<"=">>
<1>1. a \in Texts /\ b \in Texts /\ c \in Texts
  BY TokensAre DEF Texts, Fielded
<1> HIDE DEF a, b, c
<1>2. <<a, b, c>> \in Seq(Texts) /\ <<>> \in Seq(Texts)
  BY <1>1
<1> QED
  BY <1>2 DEF OpenText, a, b, c

LEMMA CloseTextType ==
    ASSUME NEW v, NEW m, NEW i
    PROVE  CloseText(v, m, i) \in Seq(Texts)
<1> DEFINE a == <<"}">>
<1>1. a \in Texts
  BY TokensAre DEF Texts
<1> HIDE DEF a
<1>2. <<a>> \in Seq(Texts) /\ <<>> \in Seq(Texts)
  BY <1>1
<1> QED
  BY <1>2 DEF CloseText, a

LEMMA OpenTextsAppend ==
    ASSUME NEW V, Fielded(V), NEW vs \in Seq(V), NEW v \in V, NEW i
    PROVE  /\ OpenTexts(vs, i) \in Seq(Seq(Texts)) /\ OpenText(v, i) \in Seq(Texts)
           /\ OpenTexts(Append(vs, v), i) = Append(OpenTexts(vs, i), OpenText(v, i))
<1> DEFINE n == Len(vs)
           u == Append(vs, v)
           a == OpenTexts(u, i)
           b == OpenTexts(vs, i)
           x == OpenText(v, i)
           Y == Seq(Texts)
<1>1. u \in Seq(V) /\ Len(u) = n + 1 /\ n \in Nat /\ u[n + 1] = v /\ \A j \in 1 .. n : u[j] = vs[j]
  BY AppendProperties
<1>2. DOMAIN u = 1 .. n + 1 /\ DOMAIN vs = 1 .. n
  <2> HIDE DEF u
  <2> QED
    BY <1>1
<1> HIDE DEF u
<1>3. \A w \in V : OpenText(w, i) \in Y
  BY OpenTextType
<1>4. b \in Seq(Y) /\ Len(b) = n /\ \A j \in 1 .. n : b[j] = OpenText(vs[j], i)
  <2>1. \A j \in 1 .. n : OpenText(vs[j], i) \in Y
    BY <1>1, <1>3
  <2> HIDE DEF Y
  <2> QED
    BY <1>1, <1>2, <2>1 DEF OpenTexts
<1>5. a \in Seq(Y) /\ Len(a) = n + 1 /\ \A j \in 1 .. n + 1 : a[j] = OpenText(u[j], i)
  <2>1. \A j \in 1 .. n + 1 : OpenText(u[j], i) \in Y
    BY <1>1, <1>3
  <2> HIDE DEF Y
  <2> QED
    BY <1>1, <1>2, <2>1 DEF OpenTexts
<1>6. x \in Y
  BY <1>3
<1> HIDE DEF a, b, x, Y
<1>7. /\ Append(b, x) \in Seq(Y) /\ Len(Append(b, x)) = n + 1 /\ Append(b, x)[n + 1] = x
      /\ \A j \in 1 .. n : Append(b, x)[j] = b[j]
  BY <1>4, <1>6, AppendProperties
<1>8. \A j \in 1 .. n + 1 : a[j] = Append(b, x)[j]
  <2>1. \A j \in 1 .. n + 1 : j \in 1 .. n \/ j = n + 1
    BY <1>1
  <2> QED
    BY <1>1, <1>4, <1>5, <1>7, <2>1 DEF x
<1>9. a = Append(b, x)
  BY <1>5, <1>7, <1>8, SeqEqual
<1> QED
  BY <1>4, <1>6, <1>9 DEF a, b, x, Y, u

LEMMA CloseTextsAppend ==
    ASSUME NEW V, NEW vs \in Seq(V), NEW v \in V, NEW m, NEW i
    PROVE  /\ CloseTexts(vs, m, i) \in Seq(Seq(Texts)) /\ CloseText(v, m, i) \in Seq(Texts)
           /\ CloseTexts(Append(vs, v), m, i) = Append(CloseTexts(vs, m, i), CloseText(v, m, i))
<1> DEFINE n == Len(vs)
           u == Append(vs, v)
           a == CloseTexts(u, m, i)
           b == CloseTexts(vs, m, i)
           x == CloseText(v, m, i)
           Y == Seq(Texts)
<1>1. u \in Seq(V) /\ Len(u) = n + 1 /\ n \in Nat /\ u[n + 1] = v /\ \A j \in 1 .. n : u[j] = vs[j]
  BY AppendProperties
<1>2. DOMAIN u = 1 .. n + 1 /\ DOMAIN vs = 1 .. n
  <2> HIDE DEF u
  <2> QED
    BY <1>1
<1> HIDE DEF u
<1>3. \A w : CloseText(w, m, i) \in Y
  BY CloseTextType
<1>4. b \in Seq(Y) /\ Len(b) = n /\ \A j \in 1 .. n : b[j] = CloseText(vs[j], m, i)
  <2>1. \A j \in 1 .. n : CloseText(vs[j], m, i) \in Y
    BY <1>3
  <2> HIDE DEF Y
  <2> QED
    BY <1>1, <1>2, <2>1 DEF CloseTexts
<1>5. a \in Seq(Y) /\ Len(a) = n + 1 /\ \A j \in 1 .. n + 1 : a[j] = CloseText(u[j], m, i)
  <2>1. \A j \in 1 .. n + 1 : CloseText(u[j], m, i) \in Y
    BY <1>3
  <2> HIDE DEF Y
  <2> QED
    BY <1>1, <1>2, <2>1 DEF CloseTexts
<1>6. x \in Y
  BY <1>3
<1> HIDE DEF a, b, x, Y
<1>7. /\ Append(b, x) \in Seq(Y) /\ Len(Append(b, x)) = n + 1 /\ Append(b, x)[n + 1] = x
      /\ \A j \in 1 .. n : Append(b, x)[j] = b[j]
  BY <1>4, <1>6, AppendProperties
<1>8. \A j \in 1 .. n + 1 : a[j] = Append(b, x)[j]
  <2>1. \A j \in 1 .. n + 1 : j \in 1 .. n \/ j = n + 1
    BY <1>1
  <2> QED
    BY <1>1, <1>4, <1>5, <1>7, <2>1 DEF x
<1>9. a = Append(b, x)
  BY <1>5, <1>7, <1>8, SeqEqual
<1> QED
  BY <1>4, <1>6, <1>9 DEF a, b, x, Y, u

LEMMA OpensType ==
    ASSUME NEW V, Fielded(V), NEW vs \in Seq(V), NEW i
    PROVE  Opens(vs, i) \in Seq(Texts) /\ Opened(vs, i) \in Seq(Texts)
<1>1. OpenTexts(vs, i) \in Seq(Seq(Texts))
  <2>1. \A j \in DOMAIN vs : OpenText(vs[j], i) \in Seq(Texts)
    BY OpenTextType, Element
  <2>2. DOMAIN vs = 1 .. Len(vs) /\ Len(vs) \in Nat
    BY Element
  <2> QED
    BY <2>1, <2>2 DEF OpenTexts
<1>2. Reverse(OpenTexts(vs, i)) \in Seq(Seq(Texts))
  BY <1>1, ReverseIs
<1> QED
  BY <1>1, <1>2, FlattenType DEF Opens, Opened

LEMMA ClosedType ==
    ASSUME NEW V, NEW vs \in Seq(V), NEW m, NEW i
    PROVE  Closed(vs, m, i) \in Seq(Texts)
<1>1. CloseTexts(vs, m, i) \in Seq(Seq(Texts))
  <2>1. \A j \in DOMAIN vs : CloseText(vs[j], m, i) \in Seq(Texts)
    BY CloseTextType
  <2>2. DOMAIN vs = 1 .. Len(vs) /\ Len(vs) \in Nat
    BY Element
  <2> QED
    BY <2>1, <2>2 DEF CloseTexts
<1> QED
  BY <1>1, FlattenType DEF Closed

(* One variable more, at the end of the list.                                 *)
LEMMA OneMoreOpen ==
    ASSUME NEW V, Fielded(V), NEW vs \in Seq(V), NEW v \in V, NEW i
    PROVE  /\ Opens(Append(vs, v), i) = Opens(vs, i) \o OpenText(v, i)
           /\ Opened(Append(vs, v), i) = OpenText(v, i) \o Opened(vs, i)
<1> DEFINE a == OpenTexts(vs, i)
           x == OpenText(v, i)
<1>1. a \in Seq(Seq(Texts)) /\ x \in Seq(Texts) /\ OpenTexts(Append(vs, v), i) = Append(a, x)
  BY OpenTextsAppend
<1> HIDE DEF a, x
<1>2. FlattenSeq(Append(a, x)) = FlattenSeq(a) \o x
  BY <1>1, FlattenAppend
<1>3. FlattenSeq(Reverse(Append(a, x))) = x \o FlattenSeq(Reverse(a))
  BY <1>1, FlattenReverse
<1> QED
  BY <1>1, <1>2, <1>3 DEF Opens, Opened, a, x

LEMMA OneMoreClosed ==
    ASSUME NEW V, NEW vs \in Seq(V), NEW v \in V, NEW m, NEW i
    PROVE  Closed(Append(vs, v), m, i) = Closed(vs, m, i) \o CloseText(v, m, i)
<1> DEFINE c == CloseTexts(vs, m, i)
           y == CloseText(v, m, i)
<1>1. c \in Seq(Seq(Texts)) /\ y \in Seq(Texts) /\ CloseTexts(Append(vs, v), m, i) = Append(c, y)
  BY CloseTextsAppend
<1> HIDE DEF c, y
<1>2. FlattenSeq(Append(c, y)) = FlattenSeq(c) \o y
  BY <1>1, FlattenAppend
<1> QED
  BY <1>1, <1>2 DEF Closed, c, y

(* None of the list, at this place.                                           *)
LEMMA NoneOpen ==
    ASSUME NEW V, NEW vs \in Seq(V), NEW i, \A j \in DOMAIN vs : vs[j].start # i - 1
    PROVE  Opens(vs, i) = <<>> /\ Opened(vs, i) = <<>>
<1>1. OpenTexts(vs, i) \in Seq({<<>>})
  <2>1. \A j \in DOMAIN vs : OpenText(vs[j], i) = <<>>
    BY DEF OpenText
  <2>2. DOMAIN vs = 1 .. Len(vs) /\ Len(vs) \in Nat
    BY Element
  <2> QED
    BY <2>1, <2>2 DEF OpenTexts
<1> QED
  BY <1>1, FlattenNone DEF Opens, Opened

LEMMA NoneClosed ==
    ASSUME NEW V, NEW vs \in Seq(V), NEW i, NEW m,
           \A j \in DOMAIN vs : (IF vs[j].end = -1 THEN m ELSE vs[j].end) # i
    PROVE  Closed(vs, m, i) = <<>>
<1>1. CloseTexts(vs, m, i) \in Seq({<<>>})
  <2>1. \A j \in DOMAIN vs : CloseText(vs[j], m, i) = <<>>
    BY DEF CloseText
  <2>2. DOMAIN vs = 1 .. Len(vs) /\ Len(vs) \in Nat
    BY Element
  <2> QED
    BY <2>1, <2>2 DEF CloseTexts
<1> QED
  BY <1>1, FlattenNone DEF Closed

OpenVariable == [field : Seq(Chars), start : Nat]
Shaped(pat, opn, fnd) == pat \in Seq(SegmentTexts) /\ opn \in Seq(OpenVariable) /\ fnd \in Seq(VariableType)
SegmentList(pat, opn, fnd) == [i \in DOMAIN pat |-> SegmentText(pat, opn, fnd, i)]

LEMMA FieldedTypes == Fielded(OpenVariable) /\ Fielded(VariableType)
BY DEF Fielded, OpenVariable, VariableType

LEMMA HeadingType ==
    ASSUME NEW pat, NEW opn, NEW fnd, Shaped(pat, opn, fnd), NEW i
    PROVE  /\ Opens(opn, i) \in Seq(Texts) /\ Opened(fnd, i) \in Seq(Texts) /\ Heading(opn, fnd, i) \in Seq(Texts)
           /\ \A m : Closed(fnd, m, i) \in Seq(Texts)
<1> DEFINE slash == << <<"/">> >>
<1>1. slash \in Seq(Texts)
  <2> DEFINE a == <<"/">>
  <2>1. a \in Texts
    BY TokensAre DEF Texts
  <2> HIDE DEF a
  <2>2. <<a>> \in Seq(Texts)
    BY <2>1
  <2> QED
    BY <2>2 DEF a
<1>2. /\ Opens(opn, i) \in Seq(Texts) /\ Opened(fnd, i) \in Seq(Texts)
      /\ \A m : Closed(fnd, m, i) \in Seq(Texts)
  BY FieldedTypes, OpensType, ClosedType DEF Shaped
<1> HIDE DEF slash
<1>3. slash \o (Opens(opn, i) \o Opened(fnd, i)) \in Seq(Texts)
  BY <1>1, <1>2, ConcatProperties
<1> QED
  BY <1>2, <1>3 DEF Heading, slash

LEMMA SegmentTextType ==
    ASSUME NEW pat, NEW opn, NEW fnd, Shaped(pat, opn, fnd)
    PROVE  /\ Len(pat) \in Nat /\ DOMAIN pat = 1 .. Len(pat)
           /\ SegmentList(pat, opn, fnd) \in Seq(Seq(Texts)) /\ Len(SegmentList(pat, opn, fnd)) = Len(pat)
           /\ \A i \in 1 .. Len(pat) : /\ <<pat[i]>> \in Seq(Texts)
                                       /\ SegmentList(pat, opn, fnd)[i] = SegmentText(pat, opn, fnd, i)
           /\ Text(pat, opn, fnd) = FlattenSeq(SegmentList(pat, opn, fnd)) /\ Text(pat, opn, fnd) \in Seq(Texts)
<1>1. Len(pat) \in Nat /\ DOMAIN pat = 1 .. Len(pat) /\ \A i \in 1 .. Len(pat) : pat[i] \in SegmentTexts
  BY Element DEF Shaped
<1>2. \A i \in 1 .. Len(pat) : <<pat[i]>> \in Seq(Texts)
  BY <1>1, SegmentTextsType DEF Texts
<1>3. ASSUME NEW i \in 1 .. Len(pat) PROVE SegmentText(pat, opn, fnd, i) \in Seq(Texts)
  <2> DEFINE h == Heading(opn, fnd, i)
             p == <<pat[i]>>
             c == Closed(fnd, Len(pat), i)
  <2>1. h \in Seq(Texts) /\ p \in Seq(Texts) /\ c \in Seq(Texts)
    BY <1>2, HeadingType
  <2> HIDE DEF h, p, c
  <2>2. h \o p \o c \in Seq(Texts)
    BY <2>1, ConcatProperties
  <2> QED
    BY <2>2 DEF h, p, c, SegmentText
<1>4. /\ SegmentList(pat, opn, fnd) \in Seq(Seq(Texts)) /\ Len(SegmentList(pat, opn, fnd)) = Len(pat)
      /\ \A i \in 1 .. Len(pat) : SegmentList(pat, opn, fnd)[i] = SegmentText(pat, opn, fnd, i)
  BY <1>1, <1>3 DEF SegmentList
<1>5. Text(pat, opn, fnd) = FlattenSeq(SegmentList(pat, opn, fnd))
  BY DEF Text, SegmentList
<1> QED
  BY <1>1, <1>2, <1>4, <1>5, FlattenType

(* A segment more is printed after what the variables opened at it print.     *)
LEMMA TextAppends ==
    ASSUME NEW pat, NEW opn, NEW fnd, Shaped(pat, opn, fnd), NEW w \in SegmentTexts,
           \A j \in DOMAIN fnd : fnd[j].end \in 0 .. Len(pat)
    PROVE  Text(Append(pat, w), opn, fnd) = Text(pat, opn, fnd) \o (Heading(opn, fnd, Len(pat) + 1) \o <<w>>)
<1> DEFINE n == Len(pat)
           m == n + 1
           long == Append(pat, w)
           a == SegmentList(pat, opn, fnd)
           b == SegmentList(long, opn, fnd)
<1>1. long \in Seq(SegmentTexts) /\ Len(long) = m /\ n \in Nat /\ long[m] = w /\ \A i \in 1 .. n : long[i] = pat[i]
  BY AppendProperties DEF Shaped
<1> HIDE DEF long
<1>2. Shaped(long, opn, fnd)
  BY <1>1 DEF Shaped
<1>3. /\ a \in Seq(Seq(Texts)) /\ Len(a) = n /\ Text(pat, opn, fnd) = FlattenSeq(a)
      /\ \A i \in 1 .. n : a[i] = SegmentText(pat, opn, fnd, i)
  BY SegmentTextType
<1>4. /\ b \in Seq(Seq(Texts)) /\ Len(b) = m /\ Text(long, opn, fnd) = FlattenSeq(b)
      /\ \A i \in 1 .. m : b[i] = SegmentText(long, opn, fnd, i) /\ <<long[i]>> \in Seq(Texts)
  BY <1>1, <1>2, SegmentTextType
<1>5. fnd \in Seq(VariableType) /\ DOMAIN fnd = 1 .. Len(fnd)
  BY DEF Shaped
<1>6. ASSUME NEW i \in 1 .. n PROVE b[i] = a[i]
  <2>4. \A j \in DOMAIN fnd : fnd[j].end # -1
    BY <1>1
  <2>1. \A j \in DOMAIN fnd : CloseText(fnd[j], m, i) = CloseText(fnd[j], n, i)
    BY <2>4 DEF CloseText
  <2>2. CloseTexts(fnd, m, i) = CloseTexts(fnd, n, i)
    BY <2>1 DEF CloseTexts
  <2>3. i \in 1 .. m
    BY <1>1
  <2> QED
    BY <1>1, <1>3, <1>4, <2>2, <2>3 DEF SegmentText, Closed
<1>7. b[m] = Heading(opn, fnd, m) \o <<w>>
  <2>1. m \in 1 .. m /\ \A j \in DOMAIN fnd : (IF fnd[j].end = -1 THEN m ELSE fnd[j].end) # m
    BY <1>1
  <2>2. Closed(fnd, m, m) = <<>>
    BY <1>5, <2>1, NoneClosed
  <2> DEFINE h == Heading(opn, fnd, m)
             p == <<w>>
  <2>3. h \in Seq(Texts) /\ p \in Seq(Texts)
    BY <1>1, <1>4, <2>1, HeadingType
  <2>4. b[m] = h \o p \o <<>>
    BY <1>1, <1>4, <2>1, <2>2 DEF SegmentText
  <2> HIDE DEF h, p
  <2>5. h \o p \in Seq(Texts)
    BY <2>3, ConcatProperties
  <2> QED
    BY <2>4, <2>5, ConcatEmptySeq DEF h, p
<1> HIDE DEF a, b
<1>8. FlattenSeq(b) = FlattenSeq(a) \o b[m]
  BY <1>3, <1>4, <1>6, FlattenGrows
<1> QED
  BY <1>3, <1>4, <1>7, <1>8 DEF long

(* A variable that opens after the last segment.                              *)
LEMMA TextOpens ==
    ASSUME NEW pat, NEW opn, NEW fnd, Shaped(pat, opn, fnd), NEW v \in OpenVariable, v.start = Len(pat),
           \A j \in DOMAIN fnd : fnd[j].start < Len(pat)
    PROVE  /\ Text(pat, Append(opn, v), fnd) = Text(pat, opn, fnd)
           /\ Heading(Append(opn, v), fnd, Len(pat) + 1)
                = Heading(opn, fnd, Len(pat) + 1) \o << <<"{">>, v.field, <<"=">> >>
<1> DEFINE n == Len(pat)
           m == n + 1
           more == Append(opn, v)
<1>1. n \in Nat /\ DOMAIN pat = 1 .. n /\ opn \in Seq(OpenVariable) /\ fnd \in Seq(VariableType)
  BY SegmentTextType DEF Shaped
<1>2. \A i : Opens(more, i) = Opens(opn, i) \o OpenText(v, i)
  BY <1>1, OneMoreOpen, FieldedTypes
<1> HIDE DEF more
<1>3. ASSUME NEW i \in 1 .. n PROVE SegmentText(pat, more, fnd, i) = SegmentText(pat, opn, fnd, i)
  <2>1. OpenText(v, i) = <<>>
    BY <1>1 DEF OpenText
  <2>2. Opens(opn, i) \in Seq(Texts)
    BY HeadingType
  <2>3. Opens(more, i) = Opens(opn, i)
    BY <1>2, <2>1, <2>2, ConcatEmptySeq
  <2> QED
    BY <2>3 DEF SegmentText, Heading
<1>4. Text(pat, more, fnd) = Text(pat, opn, fnd)
  BY <1>1, <1>3 DEF Text
<1>5. Heading(more, fnd, m) = Heading(opn, fnd, m) \o << <<"{">>, v.field, <<"=">> >>
  <2> DEFINE s == << <<"/">> >>
             a == Opens(opn, m)
             x == OpenText(v, m)
  <2>1. Opened(fnd, m) = <<>>
    <3>1. \A j \in DOMAIN fnd : fnd[j].start # m - 1
      <4>1. \A j \in DOMAIN fnd : fnd[j] \in VariableType
        BY <1>1, Element
      <4> QED
        BY <1>1, <4>1 DEF VariableType
    <3> QED
      BY <1>1, <3>1, NoneOpen
  <2>2. a \in Seq(Texts) /\ x \in Seq(Texts)
    BY HeadingType, OpenTextType, FieldedTypes
  <2>3. <<"/">> \in Texts
    BY TokensAre DEF Texts
  <2>4. s \in Seq(Texts)
    <3> DEFINE b == <<"/">>
    <3>1. b \in Texts
      BY <2>3
    <3> HIDE DEF b
    <3>2. <<b>> \in Seq(Texts)
      BY <3>1
    <3> QED
      BY <3>2 DEF b
  <2>5. x = << <<"{">>, v.field, <<"=">> >>
    <3>1. v.start = m - 1
      BY <1>1
    <3> QED
      BY <3>1 DEF OpenText
  <2>6. Heading(more, fnd, m) = s \o ((a \o x) \o <<>>) /\ Heading(opn, fnd, m) = s \o (a \o <<>>)
    BY <1>2, <2>1 DEF Heading
  <2> HIDE DEF s, a, x
  <2>7. a \o <<>> = a /\ (a \o x) \o <<>> = a \o x /\ (s \o a) \o x = s \o (a \o x)
    <3>1. a \o x \in Seq(Texts)
      BY <2>2, ConcatProperties
    <3>2. a \o <<>> = a
      BY <2>2, ConcatEmptySeq
    <3>3. (a \o x) \o <<>> = a \o x
      BY <3>1, ConcatEmptySeq
    <3>4. (s \o a) \o x = s \o (a \o x)
      BY <2>2, <2>4, ConcatAssociative
    <3> QED
      BY <3>2, <3>3, <3>4
  <2> QED
    BY <2>5, <2>6, <2>7
<1> QED
  BY <1>4, <1>5 DEF more

(* After a segment no variable opens until the next.                          *)
LEMMA HeadingAfter ==
    ASSUME NEW pat, NEW opn, NEW fnd, Shaped(pat, opn, fnd),
           \A j \in DOMAIN opn : opn[j].start < Len(pat), \A j \in DOMAIN fnd : fnd[j].start < Len(pat)
    PROVE  Heading(opn, fnd, Len(pat) + 1) = << <<"/">> >>
<1> DEFINE m == Len(pat) + 1
<1>1. Len(pat) \in Nat /\ opn \in Seq(OpenVariable) /\ fnd \in Seq(VariableType)
  BY SegmentTextType DEF Shaped
<1>2. \A j \in DOMAIN opn : opn[j].start # m - 1
  <2>1. \A j \in DOMAIN opn : opn[j] \in OpenVariable
    BY <1>1, Element
  <2> QED
    BY <1>1, <2>1 DEF OpenVariable
<1>3. \A j \in DOMAIN fnd : fnd[j].start # m - 1
  <2>1. \A j \in DOMAIN fnd : fnd[j] \in VariableType
    BY <1>1, Element
  <2> QED
    BY <1>1, <2>1 DEF VariableType
<1>4. Opens(opn, m) = <<>> /\ Opened(fnd, m) = <<>>
  BY <1>1, <1>2, <1>3, NoneOpen
<1> DEFINE s == << <<"/">> >>
<1>5. s \in Seq({<<"/">>}) /\ <<>> \o <<>> = <<>>
  OBVIOUS
<1>6. Heading(opn, fnd, m) = s \o (<<>> \o <<>>)
  BY <1>4 DEF Heading
<1> HIDE DEF s, m
<1>7. s \o <<>> = s
  BY <1>5, ConcatEmptySeq
<1> QED
  BY <1>5, <1>6, <1>7 DEF s, m

---------------------------------------------------------------------------
(* What was written, with literals canonical *)

LEMMA LastConcat ==
    ASSUME NEW X, NEW h \in Seq(X), NEW p \in Seq(X), NEW c \in Seq(X), NEW e \in Seq(X)
    PROVE  h \o p \o (c \o e) = (h \o p \o c) \o e
<1> DEFINE q == h \o p
<1>1. q \in Seq(X)
  BY ConcatProperties
<1> HIDE DEF q
<1>2. (q \o c) \o e = q \o (c \o e)
  BY <1>1, ConcatAssociative
<1> QED
  BY <1>2 DEF q

(* Closing a variable after the last segment adds its bracket, and nothing    *)
(* else changes: it opens where it did.                                       *)
LEMMA TextCloses ==
    ASSUME NEW pat, NEW opn, NEW fnd, Shaped(pat, opn, fnd), pat # <<>>,
           NEW o \in OpenVariable, NEW v \in VariableType, v.field = o.field, v.start = o.start,
           v.end \in {-1, Len(pat)}
    PROVE  Text(pat, opn, Append(fnd, v)) = Text(pat, Append(opn, o), fnd) \o << <<"}">> >>
<1> DEFINE n == Len(pat)
           open0 == Append(opn, o)
           found1 == Append(fnd, v)
           b == << <<"}">> >>
           s0 == SegmentList(pat, open0, fnd)
           s1 == SegmentList(pat, opn, found1)
<1>1. /\ n \in Nat /\ DOMAIN pat = 1 .. n /\ opn \in Seq(OpenVariable) /\ fnd \in Seq(VariableType)
      /\ pat \in Seq(SegmentTexts) /\ n # 0
  BY SegmentTextType DEF Shaped
<1>2. Shaped(pat, open0, fnd) /\ Shaped(pat, opn, found1)
  BY <1>1, AppendProperties DEF Shaped
<1>3. \A i : /\ Opens(open0, i) = Opens(opn, i) \o OpenText(o, i)
             /\ Opened(found1, i) = OpenText(v, i) \o Opened(fnd, i)
  BY <1>1, OneMoreOpen, FieldedTypes
<1>4. \A i : Closed(found1, n, i) = Closed(fnd, n, i) \o CloseText(v, n, i)
  BY <1>1, OneMoreClosed
<1> HIDE DEF open0, found1
<1>5. ASSUME NEW i PROVE Heading(opn, found1, i) = Heading(open0, fnd, i)
  <2>1. OpenText(v, i) = OpenText(o, i)
    BY DEF OpenText
  <2> DEFINE x == OpenText(o, i)
  <2>2. Opens(opn, i) \in Seq(Texts) /\ Opened(fnd, i) \in Seq(Texts) /\ x \in Seq(Texts)
    BY HeadingType, OpenTextType, FieldedTypes
  <2> HIDE DEF x
  <2>3. (Opens(opn, i) \o x) \o Opened(fnd, i) = Opens(opn, i) \o (x \o Opened(fnd, i))
    BY <2>2, ConcatAssociative
  <2> QED
    BY <1>3, <2>1, <2>3 DEF Heading, x
<1>6. b \in Seq(Texts)
  <2> DEFINE a == <<"}">>
  <2>1. a \in Texts
    BY TokensAre DEF Texts
  <2> HIDE DEF a
  <2>2. <<a>> \in Seq(Texts)
    BY <2>1
  <2> QED
    BY <2>2 DEF a
<1>7. \A i \in 1 .. n : CloseText(v, n, i) = IF i = n THEN b ELSE <<>>
  BY <1>1 DEF CloseText
<1> HIDE DEF b
<1>8. ASSUME NEW i \in 1 .. n
      PROVE  SegmentText(pat, opn, found1, i) = SegmentText(pat, open0, fnd, i) \o (IF i = n THEN b ELSE <<>>)
  <2> DEFINE h == Heading(open0, fnd, i)
             p == <<pat[i]>>
             c == Closed(fnd, n, i)
             e == IF i = n THEN b ELSE <<>>
  <2>1. h \in Seq(Texts) /\ p \in Seq(Texts) /\ c \in Seq(Texts)
    BY <1>2, HeadingType, SegmentTextType
  <2>2. e \in Seq(Texts)
    BY <1>6
  <2>3. SegmentText(pat, opn, found1, i) = h \o p \o (c \o e) /\ SegmentText(pat, open0, fnd, i) = h \o p \o c
    BY <1>4, <1>5, <1>7 DEF SegmentText
  <2> HIDE DEF h, p, c, e
  <2>4. h \o p \o (c \o e) = (h \o p \o c) \o e
    BY <2>1, <2>2, LastConcat, SMTT(60)
  <2> QED
    BY <2>3, <2>4 DEF e
<1>9. /\ s0 \in Seq(Seq(Texts)) /\ Len(s0) = n /\ Text(pat, open0, fnd) = FlattenSeq(s0)
      /\ \A i \in 1 .. n : s0[i] = SegmentText(pat, open0, fnd, i)
  BY <1>2, SegmentTextType
<1>10. /\ s1 \in Seq(Seq(Texts)) /\ Len(s1) = n /\ Text(pat, opn, found1) = FlattenSeq(s1)
       /\ \A i \in 1 .. n : s1[i] = SegmentText(pat, opn, found1, i)
  BY <1>2, SegmentTextType
<1> HIDE DEF s0, s1
<1>11. \A i \in 1 .. n : s0[i] \in Seq(Texts)
  BY <1>9
<1>12. \A i \in 1 .. n : s1[i] = s0[i] \o (IF i = n THEN b ELSE <<>>)
  BY <1>8, <1>9, <1>10
<1> DEFINE short == [i \in 1 .. n - 1 |-> s0[i]]
<1>13. short \in Seq(Seq(Texts)) /\ Len(short) = n - 1 /\ \A i \in 1 .. n - 1 : short[i] = s0[i]
  BY <1>1, <1>11
<1> HIDE DEF short
<1>14. n = n - 1 + 1 /\ n \in 1 .. n /\ \A i \in 1 .. n - 1 : i \in 1 .. n /\ i # n
  <2>1. n \in Nat /\ n # 0
    BY <1>1
  <2> HIDE DEF n
  <2> QED
    BY <2>1
<1>15. \A i \in 1 .. n - 1 : s1[i] = short[i]
  BY <1>11, <1>12, <1>13, <1>14, ConcatEmptySeq
<1>16. FlattenSeq(s0) = FlattenSeq(short) \o s0[n] /\ FlattenSeq(s1) = FlattenSeq(short) \o s1[n]
  <2>1. Len(s0) = Len(short) + 1 /\ Len(s1) = Len(short) + 1 /\ Len(s0) = n /\ Len(s1) = n
    BY <1>9, <1>10, <1>13, <1>14
  <2>2. \A i \in 1 .. Len(short) : s0[i] = short[i] /\ s1[i] = short[i]
    BY <1>13, <1>15
  <2>3. s0 \in Seq(Seq(Texts)) /\ s1 \in Seq(Seq(Texts)) /\ short \in Seq(Seq(Texts))
    BY <1>9, <1>10, <1>13
  <2>4. FlattenSeq(s0) = FlattenSeq(short) \o s0[Len(s0)]
    BY <2>1, <2>2, <2>3, FlattenGrows
  <2>5. FlattenSeq(s1) = FlattenSeq(short) \o s1[Len(s1)]
    BY <2>1, <2>2, <2>3, FlattenGrows
  <2> QED
    BY <2>1, <2>4, <2>5
<1>17. s0[n] \in Seq(Texts) /\ s1[n] = s0[n] \o b /\ FlattenSeq(short) \in Seq(Texts)
  BY <1>11, <1>12, <1>13, <1>14, FlattenType
<1>18. FlattenSeq(short) \o (s0[n] \o b) = (FlattenSeq(short) \o s0[n]) \o b
  <2> DEFINE prior == FlattenSeq(short)
             z == s0[n]
  <2>1. prior \in Seq(Texts) /\ z \in Seq(Texts)
    BY <1>17
  <2> HIDE DEF prior, z
  <2>2. (prior \o z) \o b = prior \o (z \o b)
    BY <1>6, <2>1, ConcatAssociative
  <2> QED
    BY <2>2 DEF prior, z
<1> QED
  BY <1>9, <1>10, <1>16, <1>17, <1>18 DEF open0, found1, b

(* The first n tokens, with "{x}" written "{x=*}" and literals canonical.     *)
NormalAt(in, i) ==
    IF FieldAt(in, i) THEN <<in[i]>> \o (IF in[i + 1] = <<"}">> THEN << <<"=">>, <<"*">> >> ELSE <<>>)
    ELSE <<IF in[i] \in Words THEN Canonical(in[i]) ELSE in[i]>>
NormalTo(in, n) == FlattenSeq([i \in 1 .. n |-> NormalAt(in, i)])

LEMMA NormalType ==
    ASSUME NEW in \in Seq(Template!Tokens), NEW i \in 1 .. Len(in)
    PROVE  NormalAt(in, i) \in Seq(Texts)
<1>1. in[i] \in Template!Tokens
  OBVIOUS
<1> DEFINE t == in[i]
           c == IF t \in Words THEN Canonical(t) ELSE t
           e == <<"=">>
           s == <<"*">>
           rest == IF in[i + 1] = <<"}">> THEN <<e, s>> ELSE <<>>
<1>2. t \in Texts /\ c \in Texts /\ e \in Texts /\ s \in Texts
  BY <1>1, TokensAre DEF Texts
<1> HIDE DEF t, c, e, s
<1>3. <<t>> \in Seq(Texts) /\ <<c>> \in Seq(Texts) /\ <<e, s>> \in Seq(Texts) /\ <<>> \in Seq(Texts)
  BY <1>2
<1>4. rest \in Seq(Texts)
  BY <1>3
<1> HIDE DEF rest
<1>5. <<t>> \o rest \in Seq(Texts)
  BY <1>3, <1>4, ConcatProperties
<1> QED
  BY <1>3, <1>5 DEF NormalAt, t, c, e, s, rest

LEMMA NormalNext ==
    ASSUME NEW in \in Seq(Template!Tokens), NEW n \in Nat, n < Len(in)
    PROVE  /\ NormalTo(in, n + 1) = NormalTo(in, n) \o NormalAt(in, n + 1)
           /\ NormalTo(in, n) \in Seq(Texts) /\ NormalAt(in, n + 1) \in Seq(Texts)
<1> DEFINE short == [i \in 1 .. n |-> NormalAt(in, i)]
           long == [i \in 1 .. n + 1 |-> NormalAt(in, i)]
<1>1. \A i \in 1 .. n + 1 : NormalAt(in, i) \in Seq(Texts)
  <2>1. \A i \in 1 .. n + 1 : i \in 1 .. Len(in)
    OBVIOUS
  <2> QED
    BY <2>1, NormalType
<1>2. n + 1 \in 1 .. n + 1 /\ \A i \in 1 .. n : i \in 1 .. n + 1
  OBVIOUS
<1>3. short \in Seq(Seq(Texts)) /\ Len(short) = n /\ \A i \in 1 .. n : short[i] = NormalAt(in, i)
  BY <1>1, <1>2
<1>4. long \in Seq(Seq(Texts)) /\ Len(long) = n + 1 /\ \A i \in 1 .. n + 1 : long[i] = NormalAt(in, i)
  BY <1>1, <1>2
<1> HIDE DEF short, long
<1>5. FlattenSeq(long) = FlattenSeq(short) \o long[n + 1]
  BY <1>2, <1>3, <1>4, FlattenGrows
<1>6. FlattenSeq(short) \in Seq(Texts)
  BY <1>3, FlattenType
<1> QED
  BY <1>1, <1>2, <1>4, <1>5, <1>6 DEF NormalTo, short, long

(* What was printed for tokens read before does not change, but for a field   *)
(* whose bracket closes at once.                                              *)
LEMMA NormalStays ==
    ASSUME NEW in, NEW t, NEW long, NEW n, Grows(in, t, long, n), NEW m \in 0 .. n,
           m # n \/ n = 0 \/ ~FieldAt(in, n)
    PROVE  NormalTo(long, m) = NormalTo(in, m)
<1>1. n \in Nat /\ \A i \in 1 .. n : long[i] = in[i]
  BY Longer
<1>2. ASSUME NEW i \in 1 .. m PROVE NormalAt(long, i) = NormalAt(in, i)
  <2>1. i \in 1 .. n /\ i \in 1 .. n + 1
    BY <1>1
  <2>2. FieldAt(long, i) <=> FieldAt(in, i)
    BY <2>1, AfterStays
  <2>3. CASE i # n
    <3>1. i + 1 \in 1 .. n
      BY <1>1, <2>1, <2>3
    <3> QED
      BY <1>1, <2>1, <2>2, <3>1 DEF NormalAt
  <2>4. CASE i = n
    <3>1. m = n /\ n # 0
      BY <1>1, <2>1, <2>4
    <3>2. ~FieldAt(in, i)
      BY <2>4, <3>1
    <3> QED
      BY <1>1, <2>1, <2>2, <3>2 DEF NormalAt
  <2> QED
    BY <2>3, <2>4
<1> QED
  BY <1>2 DEF NormalTo

LEMMA NormalGrows ==
    ASSUME NEW in, NEW t, NEW long, NEW n, Grows(in, t, long, n)
    PROVE  /\ NormalTo(in, n) \in Seq(Texts) /\ NormalAt(long, n + 1) \in Seq(Texts)
           /\ (n = 0 \/ ~FieldAt(in, n)) => NormalTo(long, n + 1) = NormalTo(in, n) \o NormalAt(long, n + 1)
           /\ n # 0 => /\ NormalTo(long, n + 1) = (NormalTo(in, n - 1) \o NormalAt(long, n)) \o NormalAt(long, n + 1)
                       /\ NormalTo(in, n - 1) \in Seq(Texts) /\ NormalAt(long, n) \in Seq(Texts)
<1>1. n \in Nat /\ long \in Seq(Template!Tokens) /\ in \in Seq(Template!Tokens) /\ Len(long) = n + 1 /\ Len(in) = n
  BY Longer DEF Grows
<1>2. n < Len(long)
  BY <1>1
<1>3. /\ NormalTo(long, n + 1) = NormalTo(long, n) \o NormalAt(long, n + 1)
      /\ NormalAt(long, n + 1) \in Seq(Texts)
  BY <1>1, <1>2, NormalNext
<1>4. (n = 0 \/ ~FieldAt(in, n)) => NormalTo(long, n) = NormalTo(in, n)
  <2>1. n \in 0 .. n
    BY <1>1
  <2> QED
    BY <2>1, NormalStays
<1>5. NormalTo(in, n) \in Seq(Texts)
  <2>1. \A i \in 1 .. n : NormalAt(in, i) \in Seq(Texts)
    BY <1>1, NormalType
  <2>2. [i \in 1 .. n |-> NormalAt(in, i)] \in Seq(Seq(Texts))
    BY <1>1, <2>1
  <2> QED
    BY <2>2, FlattenType DEF NormalTo
<1>6. ASSUME n # 0
      PROVE  /\ NormalTo(long, n) = NormalTo(in, n - 1) \o NormalAt(long, n)
             /\ NormalTo(in, n - 1) \in Seq(Texts) /\ NormalAt(long, n) \in Seq(Texts)
  <2> DEFINE m == n - 1
  <2>1. m \in Nat /\ m < Len(long) /\ m + 1 = n /\ m \in 0 .. n /\ m # n
    BY <1>1, <1>6
  <2> HIDE DEF m
  <2>2. NormalTo(long, m) = NormalTo(in, m)
    BY <2>1, NormalStays
  <2>3. /\ NormalTo(long, m + 1) = NormalTo(long, m) \o NormalAt(long, m + 1)
        /\ NormalTo(long, m) \in Seq(Texts) /\ NormalAt(long, m + 1) \in Seq(Texts)
    BY <1>1, <2>1, NormalNext
  <2> QED
    BY <2>1, <2>2, <2>3 DEF m
<1> QED
  BY <1>3, <1>4, <1>5, <1>6

---------------------------------------------------------------------------
(* What was read is what is printed of it *)

(* What was read is what is printed of it: what is still to be printed is     *)
(* said by what the parser expects.                                           *)
Wording ==
    LET n == Len(input)
        text == Text(pattern, open, found)
        heading == Heading(open, found, Len(pattern) + 1)
    IN /\ at = "segment" => NormalTo(input, n) = text \o heading
       /\ at = "field" => NormalTo(input, n) = (text \o heading) \o <<Brace>>
       /\ at = "assign" => NormalTo(input, n - 1) \o <<input[n], <<"=">> >> = text \o heading
       /\ at = "next" => NormalTo(input, n) = text
       /\ at = "verb" => NormalTo(input, n) = text \o <<Colon>>
       /\ at = "end" => NormalTo(input, n) = text \o <<Colon, verb>>
       /\ at = "accepted" => Template!Printed = Template!Normal

Worded(t) == IF t \in Words THEN Canonical(t) ELSE t

LEMMA ParserShaped ==
    ASSUME ParserInv
    PROVE  /\ Shaped(pattern, open, found) /\ Len(pattern) \in Nat
           /\ \A j \in DOMAIN found : found[j].start < Len(pattern)
           /\ at \in {"segment", "field", "assign"} => \A j \in DOMAIN found : found[j].end \in 0 .. Len(pattern)
           /\ at = "next" => \A j \in DOMAIN open : open[j].start < Len(pattern)
           /\ Text(pattern, open, found) \in Seq(Texts)
           /\ Heading(open, found, Len(pattern) + 1) \in Seq(Texts)
<1>1. Shaped(pattern, open, found)
  BY DEF ParserInv, ParserTypes, Shaped, OpenVariable
<1>2. Len(pattern) \in Nat
  BY <1>1, SegmentTextType
<1>3. \A j \in DOMAIN found : found[j] \in VariableType /\ VarOK(found[j]) /\ (found[j].end = -1 => seenDoubleStar)
  BY Element DEF ParserInv, ParserTypes, BoundsOK
<1>4. \A j \in DOMAIN found : found[j].start < Len(pattern)
  BY <1>2, <1>3 DEF VarOK
<1>5. at \in {"segment", "field", "assign"} => ~seenDoubleStar
  BY DEF ParserInv, DoubleStarLast
<1>6. ASSUME NEW j \in DOMAIN found, found[j].end # -1 PROVE found[j].end \in 0 .. Len(pattern)
  <2>1. found[j].end \in Nat /\ found[j].end \in found[j].start + 1 .. Len(pattern) /\ found[j].start \in Nat
    BY <1>3, <1>6 DEF VarOK, VariableType
  <2> QED
    BY <1>2, <2>1
<1>7. at = "next" => \A j \in DOMAIN open : open[j].start < Len(pattern)
  BY DEF ParserInv, OpenInside
<1> QED
  BY <1>1, <1>2, <1>3, <1>4, <1>5, <1>6, <1>7, HeadingType, SegmentTextType

LEMMA WordsRead ==
    ASSUME Place, at \in Template!Running, NEW t, NEW n, Grows(input, t, input', n)
    PROVE  /\ n \in Nat /\ Len(input') = n + 1 /\ input'[n + 1] = t /\ \A i \in 1 .. n : input'[i] = input[i]
           /\ NormalTo(input, n) \in Seq(Texts) /\ <<Worded(t)>> \in Seq(Texts)
           /\ at \in {"template", "segment", "field", "next", "verb"} =>
                 /\ NormalTo(input', n) = NormalTo(input, n)
                 /\ NormalTo(input', n + 1) = NormalTo(input, n) \o NormalAt(input', n + 1)
           /\ at \in {"template", "segment", "assign", "next", "verb"} => NormalAt(input', n + 1) = <<Worded(t)>>
           /\ at = "assign" =>
                 /\ n # 0 /\ NormalTo(input, n - 1) \in Seq(Texts) /\ <<input[n]>> \in Seq(Texts)
                 /\ NormalTo(input', n + 1) = (NormalTo(input, n - 1) \o NormalAt(input', n)) \o <<Worded(t)>>
                 /\ NormalAt(input', n)
                      = <<input[n]>> \o (IF t = <<"}">> THEN << <<"=">>, <<"*">> >> ELSE <<>>)
<1>1. Grows(input, t, input', n)
  OBVIOUS
<1>0. n = Len(input) /\ t \in Template!Tokens
  BY DEF Grows
<1>2. n \in Nat /\ Len(input') = n + 1 /\ input'[n + 1] = t /\ \A i \in 1 .. n : input'[i] = input[i]
  BY <1>1, Longer
<1>3. <<Worded(t)>> \in Seq(Texts)
  <2> DEFINE w == Worded(t)
  <2>1. w \in Texts
    BY <1>0 DEF Worded, Texts
  <2> HIDE DEF w
  <2> QED
    BY <2>1 DEF w
<1>4. at \in {"template", "segment", "field", "next", "verb"} => n = 0 \/ ~FieldAt(input, n)
  <2> SUFFICES ASSUME at \in {"template", "segment", "field", "next", "verb"}, n # 0 PROVE ~FieldAt(input, n)
    OBVIOUS
  <2>1. n > 1 => input[n - 1] # Brace
    BY <1>0, <1>2 DEF Place
  <2>2. AfterAt(input, n) # Brace
    <3>1. n = 1 => AfterAt(input, n) = <<>>
      BY DEF AfterAt
    <3>2. n # 1 => n > 1 /\ AfterAt(input, n) = input[n - 1]
      BY <1>2 DEF AfterAt
    <3> QED
      BY <2>1, <3>1, <3>2, TokensAre DEF Brace
  <2> QED
    BY <2>2 DEF FieldAt, Brace
<1>5. n \in 0 .. n
  BY <1>2
<1>6. at \in {"template", "segment", "field", "next", "verb"} =>
          /\ NormalTo(input', n) = NormalTo(input, n)
          /\ NormalTo(input', n + 1) = NormalTo(input, n) \o NormalAt(input', n + 1)
  <2>1. (n = 0 \/ ~FieldAt(input, n)) => NormalTo(input', n + 1) = NormalTo(input, n) \o NormalAt(input', n + 1)
    BY <1>1, NormalGrows
  <2>2. (n = 0 \/ ~FieldAt(input, n)) => NormalTo(input', n) = NormalTo(input, n)
    BY <1>1, <1>5, NormalStays
  <2> QED
    BY <1>4, <2>1, <2>2
<1>7. AfterAt(input', n + 1) = IF n = 0 THEN <<>> ELSE input[n]
  <2>1. n # 0 => n + 1 # 1 /\ n + 1 - 1 = n /\ n \in 1 .. n
    BY <1>2
  <2>2. n = 0 => n + 1 = 1
    OBVIOUS
  <2> QED
    BY <1>2, <2>1, <2>2 DEF AfterAt
<1>8. at \in {"template", "segment", "assign", "next", "verb"} => NormalAt(input', n + 1) = <<Worded(t)>>
  <2> SUFFICES ASSUME at \in {"template", "segment", "assign", "next", "verb"} PROVE NormalAt(input', n + 1) = <<Worded(t)>>
    OBVIOUS
  <2>1. n # 0 => input[n] \in Leads \cup Closes \cup Words \cup {Colon}
    BY <1>0, <1>2 DEF Place, Closes
  <2>2. AfterAt(input', n + 1) # <<"{">>
    BY <1>7, <2>1, TokensAre DEF Leads, Closes, Colon
  <2> QED
    BY <1>2, <2>2 DEF NormalAt, FieldAt, Worded
<1>9. ASSUME at = "assign"
      PROVE  /\ n # 0 /\ NormalTo(input, n - 1) \in Seq(Texts) /\ <<input[n]>> \in Seq(Texts)
             /\ NormalTo(input', n + 1) = (NormalTo(input, n - 1) \o NormalAt(input', n)) \o <<Worded(t)>>
             /\ NormalAt(input', n) = <<input[n]>> \o (IF t = <<"}">> THEN << <<"=">>, <<"*">> >> ELSE <<>>)
  <2>1. n > 1 /\ input[n - 1] = Brace /\ input[n] \in Words
    BY <1>0, <1>9 DEF Place
  <2>2. n # 0 /\ n # 1 /\ n - 1 \in 1 .. n /\ n \in 1 .. n
    BY <1>2, <2>1
  <2>3. FieldAt(input', n)
    BY <1>2, <2>1, <2>2 DEF FieldAt, AfterAt, Brace
  <2>4. NormalAt(input', n) = <<input[n]>> \o (IF t = <<"}">> THEN << <<"=">>, <<"*">> >> ELSE <<>>)
    BY <1>2, <2>2, <2>3 DEF NormalAt
  <2>5. <<input[n]>> \in Seq(Texts)
    <3> DEFINE w == input[n]
    <3>1. w \in Texts
      BY <2>1, TokensAre DEF Texts
    <3> HIDE DEF w
    <3> QED
      BY <3>1 DEF w
  <2> QED
    <3>1. /\ NormalTo(input', n + 1) = (NormalTo(input, n - 1) \o NormalAt(input', n)) \o NormalAt(input', n + 1)
          /\ NormalTo(input, n - 1) \in Seq(Texts)
      BY <1>1, <2>2, NormalGrows
    <3>2. NormalAt(input', n + 1) = <<Worded(t)>>
      BY <1>8, <1>9
    <3> QED
      BY <2>2, <2>4, <2>5, <3>1, <3>2
<1> QED
  BY <1>1, <1>2, <1>3, <1>6, <1>8, <1>9, NormalGrows

(* Printing goes by position.                                                 *)
LEMMA RootWording ==
    ASSUME ParserInv, Place, NEW t \in Template!Tokens, Template!Root(t)
    PROVE  Wording'
<1> DEFINE n == Len(input)
           slash == <<"/">>
<1>1. at = "template" /\ Template!Token(t) /\ at \in Template!Running
  BY DEF Template!Root, Template!Running
<1>2. n = 0 /\ pattern = <<>> /\ open = <<>> /\ found = <<>>
  BY <1>1 DEF Place
<1>3. CASE t = slash
  <2>1. at' = "segment" /\ UNCHANGED <<pattern, open, found>>
    BY <1>3 DEF Template!Root
  <2>2. /\ Len(input') = n + 1 /\ NormalTo(input', n + 1) = NormalTo(input, n) \o <<Worded(t)>>
    BY <1>1, ReadGrows, WordsRead
  <2>3. Worded(t) = slash
    BY <1>3, TokensAre DEF Worded
  <2>4. NormalTo(input, 0) = <<>> /\ Text(<<>>, <<>>, <<>>) = <<>>
    <3>1. [i \in 1 .. 0 |-> NormalAt(input, i)] = <<>>
      OBVIOUS
    <3>2. SegmentList(<<>>, <<>>, <<>>) = <<>>
      BY DEF SegmentList
    <3> QED
      BY <3>1, <3>2, FlattenEmpty DEF NormalTo, Text, SegmentList
  <2>5. Heading(<<>>, <<>>, Len(<<>>) + 1) = <<slash>>
    <3>1. Shaped(<<>>, <<>>, <<>>)
      BY DEF Shaped
    <3>2. DOMAIN <<>> = {}
      OBVIOUS
    <3> QED
      BY <3>1, <3>2, HeadingAfter
  <2>6. NormalTo(input', Len(input')) = Text(pattern', open', found') \o Heading(open', found', Len(pattern') + 1)
    BY <1>2, <2>1, <2>2, <2>3, <2>4, <2>5
  <2> QED
    BY <2>1, <2>6 DEF Wording
<1>4. CASE t # slash
  <2>1. at' = "rejected"
    BY <1>4 DEF Template!Root, Template!Rejected
  <2> QED
    BY <2>1 DEF Wording
<1> QED
  BY <1>3, <1>4

(* Texts of several parts, however they are put together.                     *)
LEMMA Split3 ==
    ASSUME NEW X, NEW a \in Seq(X), NEW b \in Seq(X), NEW c \in Seq(X)
    PROVE  (a \o b) \o c = a \o (b \o c) /\ a \o b \in Seq(X) /\ (a \o b) \o c \in Seq(X)
BY ConcatAssociative, ConcatProperties

LEMMA Pair == ASSUME NEW X, NEW a \in X, NEW b \in X PROVE <<a>> \o <<b>> = <<a, b>>
<1>1. <<a>> \in Seq(X) /\ <<b>> \in Seq(X) /\ <<a, b>> \in Seq(X)
  OBVIOUS
<1> DEFINE c == <<a>> \o <<b>>
<1>2. c \in Seq(X) /\ Len(c) = 2 /\ c[1] = a /\ c[2] = b
  BY <1>1, ConcatProperties
<1> HIDE DEF c
<1>3. Len(<<a, b>>) = 2 /\ \A i \in 1 .. 2 : c[i] = <<a, b>>[i]
  BY <1>2
<1> QED
  BY <1>1, <1>2, <1>3, SeqEqual DEF c

LEMMA NotReading == ASSUME at' \notin Template!Running, at' # "accepted" PROVE Wording'
BY DEF Wording, Template!Running

(* Each rule of the parser prints what it read.                               *)
LEMMA SegmentWording ==
    ASSUME ParserInv, Place, Wording, NEW t \in Template!Tokens, Template!Segment(t)
    PROVE  Wording'
<1> DEFINE n == Len(input)
           m == n + 1
           text == Text(pattern, open, found)
           heading == Heading(open, found, Len(pattern) + 1)
           w == Worded(t)
<1>1. at = "segment" /\ Template!Token(t) /\ at \in Template!Running
  BY DEF Template!Segment, Template!Running
<1>2. /\ Len(input') = m /\ NormalTo(input', m) = NormalTo(input, n) \o <<w>> /\ <<w>> \in Seq(Texts)
  BY <1>1, ReadGrows, WordsRead
<1>3. /\ Shaped(pattern, open, found) /\ text \in Seq(Texts) /\ heading \in Seq(Texts)
      /\ \A j \in DOMAIN found : found[j].end \in 0 .. Len(pattern)
  BY <1>1, ParserShaped
<1>4. NormalTo(input, n) = text \o heading
  BY <1>1 DEF Wording
<1>5. CASE /\ t \in Wildcards \/ Template!LiteralOK(t)
           /\ at' = "next" /\ pattern' = Append(pattern, IF t \in Wildcards THEN t ELSE Template!Canonical(t))
           /\ UNCHANGED <<open, found, verb>>
  <2>1. w = IF t \in Wildcards THEN t ELSE Template!Canonical(t)
    BY <1>5, TokensAre, CanonicalIs DEF Worded, Template!LiteralOK
  <2>2. w \in SegmentTexts
    BY <1>5, <2>1, LiteralWritten DEF SegmentTexts
  <2>3. pattern' = Append(pattern, w) /\ at' = "next" /\ open' = open /\ found' = found
    BY <1>5, <2>1
  <2> HIDE DEF w
  <2>4. Text(Append(pattern, w), open, found) = text \o (heading \o <<w>>)
    BY <1>3, <2>2, TextAppends
  <2> HIDE DEF text, heading, m
  <2>5. text \o (heading \o <<w>>) = (text \o heading) \o <<w>>
    BY <1>2, <1>3, Split3
  <2>6. NormalTo(input', Len(input')) = Text(pattern', open', found')
    BY <1>2, <1>4, <2>3, <2>4, <2>5
  <2> QED
    BY <2>3, <2>6 DEF Wording
<1>6. CASE t = Brace /\ at' = "field" /\ UNCHANGED <<seenDoubleStar, pattern, open, found, verb>>
  <2>1. w = Brace
    BY <1>6, TokensAre DEF Worded, Brace
  <2>2. NormalTo(input', Len(input')) = (text \o heading) \o <<Brace>>
    BY <1>2, <1>4, <2>1
  <2>3. UNCHANGED <<pattern, open, found>> /\ at' = "field"
    BY <1>6
  <2> QED
    BY <2>2, <2>3 DEF Wording
<1>7. CASE at' = "rejected"
  BY <1>7, NotReading DEF Template!Running
<1> QED
  BY <1>5, <1>6, <1>7, WildcardsIs DEF Template!Segment, Template!Rejected, Brace

LEMMA FieldWording ==
    ASSUME ParserInv, Place, Wording, NEW t \in Template!Tokens, Template!Field(t)
    PROVE  Wording'
<1> DEFINE n == Len(input)
           m == n + 1
           text == Text(pattern, open, found)
           heading == Heading(open, found, Len(pattern) + 1)
           v == [field |-> t, start |-> Len(pattern)]
           more == Append(open, v)
           equals == <<"=">>
<1>1. at = "field" /\ Template!Token(t) /\ at \in Template!Running
  BY DEF Template!Field, Template!Running
<1>2. n \in Nat /\ Len(input') = m /\ input'[m] = t /\ NormalTo(input', n) = NormalTo(input, n)
  BY <1>1, ReadGrows, WordsRead
<1>3. /\ Shaped(pattern, open, found) /\ text \in Seq(Texts) /\ heading \in Seq(Texts) /\ Len(pattern) \in Nat
      /\ \A j \in DOMAIN found : found[j].start < Len(pattern)
  BY ParserShaped
<1>4. NormalTo(input, n) = (text \o heading) \o <<Brace>>
  BY <1>1 DEF Wording
<1>5. CASE t \in Words /\ at' = "assign" /\ open' = more /\ UNCHANGED <<pattern, found>>
  <2>1. v \in OpenVariable /\ v.field = t /\ v.start = Len(pattern)
    BY <1>3, <1>5, WordType DEF OpenVariable
  <2> HIDE DEF v
  <2>2. /\ Text(pattern, more, found) = text
        /\ Heading(more, found, Len(pattern) + 1) = heading \o << Brace, t, equals >>
    BY <1>3, <2>1, TextOpens DEF Brace
  <2>3. <<Brace, t, equals>> = <<Brace>> \o <<t, equals>>
    OBVIOUS
  <2>4. Brace \in Texts /\ t \in Texts /\ equals \in Texts
    BY TokensAre DEF Texts, Brace
  <2> HIDE DEF equals
  <2>5. <<Brace>> \in Seq(Texts) /\ <<t, equals>> \in Seq(Texts)
    BY <2>4
  <2> HIDE DEF text, heading, more
  <2>6. ((text \o heading) \o <<Brace>>) \o <<t, equals>> = text \o (heading \o (<<Brace>> \o <<t, equals>>))
    <3> DEFINE a == <<Brace>>
               b == <<t, equals>>
    <3>1. a \in Seq(Texts) /\ b \in Seq(Texts)
      BY <2>5
    <3>2. text \in Seq(Texts) /\ heading \in Seq(Texts)
      BY <1>3
    <3> HIDE DEF a, b
    <3> DEFINE p == text \o heading
               q == a \o b
    <3>3. p \in Seq(Texts)
      BY <3>2, Split3
    <3>4. q \in Seq(Texts)
      BY <3>1, Split3
    <3> HIDE DEF q
    <3>5. p \o q = text \o (heading \o q)
      BY <3>2, <3>4, ConcatAssociative
    <3> HIDE DEF p
    <3>6. (p \o a) \o b = p \o (a \o b)
      BY <3>1, <3>3, ConcatAssociative
    <3> QED
      BY <3>5, <3>6 DEF a, b, p, q
  <2>7. m - 1 = n
    BY <1>2
  <2>8. NormalTo(input', Len(input') - 1) \o <<input'[Len(input')], equals>>
          = Text(pattern', open', found') \o Heading(open', found', Len(pattern') + 1)
    BY <1>2, <1>4, <1>5, <2>2, <2>3, <2>6, <2>7
  <2> QED
    BY <1>5, <2>8 DEF Wording, equals
<1>6. CASE at' = "rejected"
  BY <1>6, NotReading DEF Template!Running
<1> QED
  BY <1>5, <1>6 DEF Template!Field, Template!Rejected

LEMMA AssignWording ==
    ASSUME ParserInv, Place, Wording, NEW t \in Template!Tokens, Template!Assign(t)
    PROVE  Wording'
<1> DEFINE n == Len(input)
           m == n + 1
           text == Text(pattern, open, found)
           heading == Heading(open, found, Len(pattern) + 1)
           before == NormalTo(input, n - 1)
           x == <<input[n]>>
           w == <<Worded(t)>>
           equals == <<"=">>
           star == <<"*">>
<1>1. at = "assign" /\ Template!Token(t) /\ at \in Template!Running
  BY DEF Template!Assign, Template!Running
<1>2. /\ n \in Nat /\ Len(input') = m /\ w \in Seq(Texts)
      /\ n # 0 /\ before \in Seq(Texts) /\ x \in Seq(Texts)
      /\ NormalTo(input', m) = (before \o NormalAt(input', n)) \o w
      /\ NormalAt(input', n) = x \o (IF t = Shut THEN <<equals, star>> ELSE <<>>)
  BY <1>1, ReadGrows, WordsRead DEF Shut
<1>3. /\ Shaped(pattern, open, found) /\ text \in Seq(Texts) /\ heading \in Seq(Texts) /\ Len(pattern) \in Nat
      /\ \A j \in DOMAIN found : found[j].end \in 0 .. Len(pattern)
  BY <1>1, ParserShaped
<1>4. before \o <<input[n], equals>> = text \o heading
  BY <1>1 DEF Wording
<1>5. equals \in Texts /\ star \in Texts /\ input[n] \in Texts
  <2>1. input[n] \in Words
    BY <1>1 DEF Place
  <2> QED
    BY <2>1, TokensAre DEF Texts, Wildcards
<1>6. Worded(equals) = equals /\ Worded(Shut) = Shut /\ equals # Shut
  BY TokensAre DEF Worded, Shut
<1>7. CASE t = equals /\ at' = "segment" /\ UNCHANGED <<pattern, open, found>>
  <2>1. NormalAt(input', n) = x
    BY <1>2, <1>6, <1>7, ConcatEmptySeq
  <2>2. (before \o x) \o w = before \o (x \o w)
    <3> HIDE DEF before, x, w
    <3> QED
      BY <1>2, Split3
  <2>3. x \o w = <<input[n], equals>>
    <3>1. w = <<equals>>
      BY <1>6, <1>7
    <3> DEFINE y == input[n]
    <3>2. y \in Texts /\ equals \in Texts
      BY <1>5
    <3> HIDE DEF w, equals, y
    <3>3. <<y>> \o <<equals>> = <<y, equals>>
      BY <3>2, Pair
    <3> QED
      BY <3>1, <3>3 DEF y
  <2>4. NormalTo(input', m) = text \o heading
    <3> HIDE DEF before, x, w, text, heading, equals
    <3> QED
      BY <1>2, <1>4, <2>1, <2>2, <2>3
  <2> HIDE DEF equals
  <2> QED
    BY <1>2, <1>7, <2>4 DEF Wording
<1>8. CASE t = Shut /\ Template!Close(Append(pattern, star))
  <2> DEFINE segs == Append(pattern, star)
             o == open[Len(open)]
             v == [field |-> o.field, start |-> o.start, end |-> IF seenDoubleStar THEN -1 ELSE Len(segs)]
             shut == <<Shut>>
             tail == <<equals, star>>
             s == <<star>>
  <2>1. star \in SegmentTexts
    BY DEF SegmentTexts, Wildcards
  <2>2. segs \in Seq(SegmentTexts) /\ segs # <<>>
    BY <1>3, <2>1, AppendProperties DEF Shaped
  <2>3. open # <<>>
    BY <1>1 DEF ParserInv, OpenInside
  <2> HIDE DEF star
  <2>4. /\ o \in OpenVariable /\ v \in VariableType
        /\ open' \in Seq(OpenVariable) /\ open = Append(open', o)
        /\ found \in Seq(VariableType) /\ found' = Append(found, v)
        /\ at' = "next" /\ pattern' = segs
    BY <1>8, <2>2, <2>3, Popped DEF OpenVariable
  <2>5. v.field = o.field /\ v.start = o.start /\ v.end \in {-1, Len(segs)}
    OBVIOUS
  <2> HIDE DEF v, o
  <2>6. Text(segs, open, found) = text \o (heading \o s)
    BY <1>3, <2>1, TextAppends
  <2> HIDE DEF segs
  <2>7. Shaped(segs, open', found)
    BY <2>2, <2>4 DEF Shaped
  <2>8. Text(segs, open', found') = Text(segs, open, found) \o shut
    BY <2>2, <2>4, <2>5, <2>7, TextCloses DEF Shut
  <2>9. x \o tail = <<input[n], equals>> \o s
    OBVIOUS
  <2>10. tail \in Seq(Texts) /\ s \in Seq(Texts) /\ <<input[n], equals>> \in Seq(Texts)
    <3> HIDE DEF equals
    <3> DEFINE y == input[n]
    <3>1. y \in Texts /\ equals \in Texts /\ star \in Texts
      BY <1>5
    <3> HIDE DEF y
    <3>2. <<equals, star>> \in Seq(Texts) /\ <<star>> \in Seq(Texts) /\ <<y, equals>> \in Seq(Texts)
      BY <3>1
    <3> QED
      BY <3>2 DEF y
  <2>11. w = shut
    BY <1>6, <1>8
  <2>12. NormalTo(input', m) = (before \o (x \o tail)) \o shut
    BY <1>2, <1>8, <2>11
  <2>13. before \o (x \o tail) = text \o (heading \o s)
    <3> DEFINE y == <<input[n], equals>>
    <3>1. x \o tail = y \o s /\ before \o y = text \o heading
      BY <1>4, <2>9
    <3>2. y \in Seq(Texts) /\ s \in Seq(Texts) /\ before \in Seq(Texts)
      BY <1>2, <2>10
    <3>3. s \in Seq(Texts) /\ text \in Seq(Texts) /\ heading \in Seq(Texts)
      BY <1>3, <2>10
    <3> HIDE DEF y, x, tail, s, before, text, heading
    <3>4. before \o (y \o s) = (before \o y) \o s
      BY <3>2, Split3
    <3>5. (text \o heading) \o s = text \o (heading \o s)
      BY <3>3, Split3
    <3> QED
      BY <3>1, <3>4, <3>5
  <2>14. NormalTo(input', m) = Text(segs, open', found')
    <3> HIDE DEF x, tail, s, before, text, heading, shut
    <3> QED
      BY <2>6, <2>8, <2>12, <2>13
  <2> QED
    BY <1>2, <2>4, <2>14 DEF Wording
<1>9. CASE at' = "rejected"
  BY <1>9, NotReading DEF Template!Running
<1> QED
  BY <1>7, <1>8, <1>9 DEF Template!Assign, Template!Rejected, Shut

LEMMA AfterSegmentWording ==
    ASSUME ParserInv, Place, Wording, NEW t \in Template!Tokens, Template!AfterSegment(t)
    PROVE  Wording'
<1> DEFINE n == Len(input)
           m == n + 1
           text == Text(pattern, open, found)
           slash == <<"/">>
           w == <<Worded(t)>>
<1>1. at = "next" /\ Template!Token(t) /\ at \in Template!Running
  BY DEF Template!AfterSegment, Template!Running
<1>2. Len(input') = m /\ NormalTo(input', m) = NormalTo(input, n) \o w
  BY <1>1, ReadGrows, WordsRead
<1>3. NormalTo(input', m) = text \o w
  BY <1>1, <1>2 DEF Wording
<1>4. Worded(slash) = slash /\ Worded(Shut) = Shut /\ Worded(Colon) = Colon
  BY TokensAre DEF Worded, Shut, Colon
<1>5. slash # Shut /\ slash # Colon /\ Shut # Colon
  BY TokensAre DEF Shut, Colon
<1> HIDE DEF m
<1>6. CASE t = slash /\ ~seenDoubleStar
  <2>1. at' = "segment" /\ UNCHANGED <<pattern, open, found>>
    BY <1>6 DEF Template!AfterSegment
  <2>2. Heading(open, found, Len(pattern) + 1) = <<slash>>
    <3>1. /\ Shaped(pattern, open, found) /\ \A j \in DOMAIN open : open[j].start < Len(pattern)
          /\ \A j \in DOMAIN found : found[j].start < Len(pattern)
      BY <1>1, ParserShaped
    <3> QED
      BY <3>1, HeadingAfter
  <2>3. NormalTo(input', Len(input')) = Text(pattern', open', found') \o Heading(open', found', Len(pattern') + 1)
    <3> HIDE DEF slash, text
    <3> QED
      BY <1>2, <1>3, <1>4, <1>6, <2>1, <2>2 DEF text
  <2> QED
    BY <2>1, <2>3 DEF Wording
<1>7. CASE t = Shut /\ open # <<>>
  <2> DEFINE o == open[Len(open)]
             v == [field |-> o.field, start |-> o.start, end |-> IF seenDoubleStar THEN -1 ELSE Len(pattern)]
             shut == <<Shut>>
  <2>1. Template!Close(pattern)
    BY <1>5, <1>7 DEF Template!AfterSegment, Shut, Colon
  <2>2. pattern \in Seq(SegmentTexts)
    BY DEF ParserInv, ParserTypes
  <2>3. pattern # <<>>
    <3>1. open[Len(open)] \in OpenVariable /\ open[Len(open)].start < Len(pattern) /\ Len(pattern) \in Nat
      <4>1. open \in Seq(OpenVariable)
        BY DEF ParserInv, ParserTypes, OpenVariable
      <4>2. Len(open) \in DOMAIN open
        BY <1>7, <4>1
      <4> QED
        BY <1>1, <4>1, <4>2, ParserShaped, Element
    <3>2. open[Len(open)].start \in Nat
      BY <3>1 DEF OpenVariable
    <3> QED
      BY <3>1, <3>2
  <2>4. /\ o \in OpenVariable /\ v \in VariableType
        /\ open' \in Seq(OpenVariable) /\ open = Append(open', o)
        /\ found \in Seq(VariableType) /\ found' = Append(found, v)
        /\ at' = "next" /\ pattern' = pattern
    BY <1>7, <2>1, <2>2, Popped DEF OpenVariable
  <2>5. v.field = o.field /\ v.start = o.start /\ v.end \in {-1, Len(pattern)}
    OBVIOUS
  <2> HIDE DEF v, o
  <2>6. Shaped(pattern, open', found)
    BY <2>2, <2>4 DEF Shaped
  <2>7. Text(pattern, open', found') = text \o shut
    BY <2>3, <2>4, <2>5, <2>6, TextCloses DEF Shut
  <2>8. w = shut
    BY <1>4, <1>7
  <2> HIDE DEF text, shut, w
  <2>9. NormalTo(input', Len(input')) = Text(pattern', open', found')
    BY <1>2, <1>3, <2>4, <2>7, <2>8
  <2> QED
    BY <2>4, <2>9 DEF Wording
<1>8. CASE t = Colon /\ open = <<>>
  <2>1. at' = "verb" /\ UNCHANGED <<pattern, open, found>>
    BY <1>5, <1>8 DEF Template!AfterSegment, Shut, Colon
  <2>2. NormalTo(input', Len(input')) = Text(pattern', open', found') \o <<Colon>>
    BY <1>2, <1>3, <1>4, <1>8, <2>1
  <2> QED
    BY <2>1, <2>2 DEF Wording
<1>9. CASE ~(t = slash /\ ~seenDoubleStar) /\ ~(t = Shut /\ open # <<>>) /\ ~(t = Colon /\ open = <<>>)
  <2>1. at' = "rejected"
    BY <1>9 DEF Template!AfterSegment, Template!Rejected, Shut, Colon
  <2> QED
    BY <2>1, NotReading DEF Template!Running
<1> QED
  BY <1>6, <1>7, <1>8, <1>9

LEMMA VerbWording ==
    ASSUME ParserInv, Place, Wording, NEW t \in Template!Tokens, Template!Verb(t)
    PROVE  Wording'
<1> DEFINE n == Len(input)
           m == n + 1
           text == Text(pattern, open, found)
           c == Canonical(t)
<1>1. at = "verb" /\ Template!Token(t) /\ at \in Template!Running
  BY DEF Template!Verb, Template!Running
<1>2. Len(input') = m /\ NormalTo(input', m) = NormalTo(input, n) \o <<Worded(t)>> /\ <<Worded(t)>> \in Seq(Texts)
  BY <1>1, ReadGrows, WordsRead
<1>3. NormalTo(input, n) = text \o <<Colon>> /\ text \in Seq(Texts)
  BY <1>1, ParserShaped DEF Wording
<1>4. CASE Template!LiteralOK(t)
  <2>1. at' = "end" /\ verb' = c /\ UNCHANGED <<pattern, open, found>>
    BY <1>4, CanonicalIs DEF Template!Verb
  <2>2. Worded(t) = c
    BY <1>4 DEF Worded, Template!LiteralOK
  <2>3. Colon \in Texts /\ c \in Texts
    BY <1>4, TokensAre DEF Texts, Colon, Template!LiteralOK
  <2> HIDE DEF text, c
  <2>4. (text \o <<Colon>>) \o <<c>> = text \o (<<Colon>> \o <<c>>)
    <3> DEFINE a == <<Colon>>
               b == <<c>>
    <3>1. a \in Seq(Texts) /\ b \in Seq(Texts)
      BY <2>3
    <3> HIDE DEF a, b
    <3>2. (text \o a) \o b = text \o (a \o b)
      BY <1>3, <3>1, ConcatAssociative
    <3> QED
      BY <3>2 DEF a, b
  <2>5. <<Colon>> \o <<c>> = <<Colon, c>>
    BY <2>3, Pair
  <2>6. NormalTo(input', Len(input')) = text \o <<Colon, verb'>>
    BY <1>2, <1>3, <2>1, <2>2, <2>4, <2>5
  <2> QED
    BY <2>1, <2>6 DEF Wording, text
<1>5. CASE ~Template!LiteralOK(t)
  <2>1. at' = "rejected"
    BY <1>5 DEF Template!Verb, Template!Rejected
  <2> QED
    BY <2>1, NotReading DEF Template!Running
<1> QED
  BY <1>4, <1>5

LEMMA TrailingWording == ASSUME NEW t, Template!Trailing(t) PROVE Wording'
BY NotReading DEF Template!Trailing, Template!Rejected, Template!Running

LEMMA SameFlatten == \A s : Template!FlattenSeq(s) = FlattenSeq(s) /\ Template!Reverse(s) = Reverse(s)
BY DEF Template!FlattenSeq, FlattenSeq, Template!Reverse, Reverse

(* Printed in the terms of Text, Normal in those of NormalTo.                 *)
LEMMA PrintedIs ==
    ASSUME ParserInv
    PROVE  Template!Printed
             = Text(pattern, <<>>, found) \o (IF verb = <<>> THEN <<>> ELSE <<Colon, verb>>)
<1> DEFINE n == Len(pattern)
           slash == << <<"/">> >>
<1>1. found \in Seq(VariableType) /\ \A i : Opened(found, i) \in Seq(Texts)
  BY ParserShaped, HeadingType DEF Shaped
<1>2. ASSUME NEW i PROVE Template!Opening(i) = Opened(found, i)
  <2>1. [j \in DOMAIN found |-> IF found[j].start = i - 1 THEN << <<"{">>, found[j].field, <<"=">> >> ELSE <<>>]
          = OpenTexts(found, i)
    BY DEF OpenTexts, OpenText
  <2> QED
    BY <2>1, SameFlatten DEF Template!Opening, Opened
<1>3. ASSUME NEW i PROVE Template!Closing(i) = Closed(found, n, i)
  <2>1. [j \in DOMAIN found |-> IF Template!Ending(found[j]) = i THEN << <<"}">> >> ELSE <<>>]
          = CloseTexts(found, n, i)
    BY DEF CloseTexts, CloseText, Template!Ending
  <2> QED
    BY <2>1, SameFlatten DEF Template!Closing, Closed
<1>4. ASSUME NEW i PROVE Heading(<<>>, found, i) = slash \o Opened(found, i)
  <2>1. Opens(<<>>, i) = <<>>
    <3>1. OpenTexts(<<>>, i) = <<>>
      BY DEF OpenTexts
    <3> QED
      BY <3>1, FlattenEmpty DEF Opens
  <2>2. <<>> \o Opened(found, i) = Opened(found, i)
    BY <1>1, ConcatEmptySeq
  <2> QED
    BY <2>1, <2>2 DEF Heading
<1>5. [i \in DOMAIN pattern |-> slash \o Template!Opening(i) \o <<pattern[i]>> \o Template!Closing(i)]
        = [i \in DOMAIN pattern |-> SegmentText(pattern, <<>>, found, i)]
  BY <1>2, <1>3, <1>4 DEF SegmentText
<1> QED
  BY <1>5, SameFlatten DEF Template!Printed, Text, Colon

LEMMA NormalIs ==
    ASSUME input \in Seq(Template!Tokens)
    PROVE  Template!Normal = NormalTo(input, Len(input))
<1>1. \A i : Template!IsField(i) <=> FieldAt(input, i)
  BY FollowsIs
<1> DEFINE N(i) == IF Template!IsField(i)
                   THEN <<input[i]>> \o (IF input[i + 1] = <<"}">> THEN << <<"=">>, <<"*">> >> ELSE <<>>)
                   ELSE IF input[i] \in Words THEN <<Template!Canonical(input[i])>>
                   ELSE <<input[i]>>
<1>2. ASSUME NEW i PROVE N(i) = NormalAt(input, i)
  <2>1. CASE FieldAt(input, i)
    BY <1>1, <2>1 DEF NormalAt
  <2>2. CASE ~FieldAt(input, i)
    <3>1. N(i) = IF input[i] \in Words THEN <<Template!Canonical(input[i])>> ELSE <<input[i]>>
      BY <1>1, <2>2
    <3> QED
      BY <2>2, <3>1, CanonicalIs DEF NormalAt
  <2> QED
    BY <2>1, <2>2
<1>3. Template!Normal = FlattenSeq([i \in DOMAIN input |-> N(i)])
  BY SameFlatten DEF Template!Normal
<1>4. DOMAIN input = 1 .. Len(input)
  OBVIOUS
<1> HIDE DEF N
<1>5. [i \in DOMAIN input |-> N(i)] = [i \in 1 .. Len(input) |-> NormalAt(input, i)]
  BY <1>2, <1>4
<1> QED
  BY <1>3, <1>5 DEF NormalTo

LEMMA EndWording == ASSUME ParserInv, Place, Wording, Template!EOF PROVE Wording'
<1>1. /\ at \in Template!Running
      /\ at' = IF at = "end" \/ (at = "next" /\ open = <<>>) THEN "accepted" ELSE "short"
      /\ UNCHANGED <<input, seenDoubleStar, pattern, open, found, verb>>
  BY DEF Template!EOF
<1>2. CASE at = "end" \/ (at = "next" /\ open = <<>>)
  <2>1. input \in Seq(Template!Tokens) /\ open = <<>> /\ (verb = <<>> <=> at = "next")
    BY <1>1, <1>2 DEF Place
  <2>2. Template!Normal = NormalTo(input, Len(input))
    BY <2>1, NormalIs
  <2>3. Text(pattern, open, found) \o <<>> = Text(pattern, open, found)
    BY ParserShaped, ConcatEmptySeq
  <2>4. Template!Printed = Template!Normal
    BY <1>2, <2>1, <2>2, <2>3, PrintedIs DEF Wording
  <2>5. Template!Printed' = Template!Printed
    BY <1>1 DEF Template!Printed, Template!Opening, Template!Closing, Template!Ending
  <2>6. Template!Normal' = Template!Normal
    BY <1>1 DEF Template!Normal, Template!IsField, Template!After
  <2>7. at' = "accepted"
    BY <1>1, <1>2
  <2> QED
    BY <2>4, <2>5, <2>6, <2>7 DEF Wording
<1>3. CASE ~(at = "end" \/ (at = "next" /\ open = <<>>))
  <2>1. at' = "short"
    BY <1>1, <1>3
  <2> QED
    BY <2>1, NotReading DEF Template!Running
<1> QED
  BY <1>2, <1>3

(* What the parser has read, at every step: it is of the grammar up to the    *)
(* parser's place, and it is what is printed of the segments and variables.   *)
GrammarInv == ReadingInv /\ Wording

LEMMA GrammarInit == Init => GrammarInv
<1> SUFFICES ASSUME Init PROVE GrammarInv
  OBVIOUS
<1>1. at = "template"
  BY DEF Init, Template!Init
<1> QED
  BY <1>1, ReadingInit DEF GrammarInv, Wording

LEMMA GrammarStep ==
    ASSUME ParserInv, GrammarInv, [Next]_vars
    PROVE  GrammarInv'
<1>1. ReadingInv /\ Place /\ Wording
  BY DEF GrammarInv, ReadingInv
<1>2. Wording'
  <2>1. CASE UNCHANGED parser
    <3>1. UNCHANGED <<input, at, seenDoubleStar, pattern, open, found, verb>>
      BY <2>1 DEF parser
    <3>2. Template!Printed' = Template!Printed
      BY <3>1 DEF Template!Printed, Template!Opening, Template!Closing, Template!Ending
    <3>3. Template!Normal' = Template!Normal
      BY <3>1 DEF Template!Normal, Template!IsField, Template!After
    <3> QED
      BY <1>1, <3>1, <3>2, <3>3 DEF Wording
  <2>2. CASE Template!Parse
    <3>1. ASSUME NEW t \in Template!Tokens, Template!Read(t) PROVE Wording'
      BY <1>1, <3>1, RootWording, SegmentWording, FieldWording, AssignWording, AfterSegmentWording, VerbWording,
         TrailingWording DEF Template!Read
    <3> QED
      BY <1>1, <2>2, <3>1, EndWording DEF Template!Parse
  <2> QED
    BY <2>1, <2>2 DEF Next, vars, ReadTemplate, Bind, EncodePath, Send, Match, DecodeBody, CaptureVariable,
       EncodeField, DecodeParameter, Delivered, Decided
<1> QED
  BY <1>1, <1>2, ReadingStep DEF GrammarInv

(* What the parser accepts so far is a beginning of a template of the grammar *)
(* and all it was given is in the segments, the variables and the verb        *)
(* (parseTemplate to parseVariable).                                          *)
THEOREM GrammarInvariance == Spec => []GrammarInv
<1>1. Init => GrammarInv
  BY GrammarInit
<1>2. IInv /\ GrammarInv /\ [Next]_vars => GrammarInv'
  BY GrammarStep DEF IInv
<1> QED
  BY <1>1, <1>2, Invariance, PTL DEF Spec

(* Exactly the templates of the grammar parse, but for those that name a      *)
(* variable twice, and printing what was parsed gives the template back       *)
(* (parsePathTemplate).                                                       *)
THEOREM TemplatesAreParsed == Spec => []TemplateParsed
<1>1. ASSUME IInv, PathInv, GrammarInv PROVE TemplateParsed
  <2>1. ParserInv /\ Nesting /\ Parsed /\ Wording
    BY <1>1 DEF IInv, PathInv, GrammarInv, ReadingInv
  <2>2. ~Template!TwiceApart
    BY <2>1, NoneApart
  <2> QED
    BY <2>1, <2>2 DEF TemplateParsed, Template!TemplateParsed, Parsed, Wording
<1> QED
  BY <1>1, Invariance, PathInvariance, GrammarInvariance, PTL
=============================================================================
