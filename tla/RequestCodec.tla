----------------------------- MODULE RequestCodec -----------------------------
(***************************************************************************)
(* A request message between the two ends of a rule: the template is       *)
(* parsed and bound to the message's fields (makeTarget of router.go), the *)
(* client divides the message among path, query and body (requestURL and   *)
(* encodeBody, httpEncodePathValues), and the server gathers it again:     *)
(* body, then path variables, then query (Receive of stream_handler.go).   *)
(* Both ends have the same rule.  Composes PathTemplate and PathCodec.     *)
(***************************************************************************)
EXTENDS PathEscape

CONSTANTS
    Words, MaxTokens, Templates, \* of PathTemplate
    Requests(_)  \* the rule bodies and messages to try with a template

(* Words are not empty, and what they escape is in the alphabet. *)
ASSUME WordsAssumption ==
    \A w \in Words :
        /\ w # <<>> /\ w \in Seq(Unreserved \cup {"%"})
        /\ Valid(w) => Unescape(w, "single") \in Seq(Chars)

VARIABLES
    input, at, seenDoubleStar, pattern, open, found, verb,     \* of PathTemplate
    target, message, segments, k, uri, got, phase,             \* of PathCodec
    body,    \* the rule's body: <<>>, Whole or a field
    request, \* the message sent: each field's text, or its elements
    pending, \* populated fields the query has not been built for
    query,   \* field -> elements, in order
    payload, \* what the body carries
    decoded, \* the body has been decoded
    server   \* the message received

parser == <<input, at, seenDoubleStar, pattern, open, found, verb>>
codec == <<target, message, segments, k, uri, got, phase>>
vars == <<parser, codec, body, request, pending, query, payload, decoded, server>>

Template == INSTANCE PathTemplate
Path == INSTANCE PathCodec

---------------------------------------------------------------------------
(* The message type, external: string fields g and f.g, repeated string fields l  *)
(* and f.l, a repeated message field r; f is a singular message.                  *)

g == <<"g">>
l == <<"l">>
f == <<"f">>
fg == <<"f", ".", "g">>
fl == <<"f", ".", "l">>
r == <<"r">>
Scalars == {g, fg}
Lists == {l, fl}
Fields == Scalars \cup Lists \cup {r}
Within(field) == IF field \in {fg, fl} THEN {field, f} ELSE {field}
Populated(m) == {field \in Fields : m[field] # <<>>}
Whole == <<"*">>
Nothing == [field \in Fields |-> <<>>]

IsMessage(m) ==
    /\ m = [field \in Fields |-> m[field]]
    /\ \A field \in Scalars : m[field] \in Seq(Chars)
    /\ \A field \in Fields \ Scalars : m[field] \in Seq(Seq(Chars))

Init ==
    /\ Template!Init /\ Path!Init
    /\ body = <<>> /\ request = Nothing /\ pending = {}
    /\ query = Nothing /\ payload = Nothing /\ decoded = FALSE /\ server = Nothing

---------------------------------------------------------------------------
ReadTemplate ==
    /\ Template!Parse
    /\ UNCHANGED <<codec, body, request, pending, query, payload, decoded, server>>

(* A variable must name a field that is not repeated, a body one field or all. *)
Bindable(rule) ==
    /\ \A v \in ToSet(found) : v.field \in Scalars \cup {f}
    /\ rule \in {<<>>, Whole, f} \cup (Fields \ {fg, fl})

(* getParameter has no text for a message: with a variable that names one the rule *)
(* is served, and the client cannot build the path of any request.                 *)
Marshalable == \A v \in ToSet(found) : v.field # f

Bind ==
    /\ at = "accepted" /\ phase = "idle"
    /\ \E try \in Requests(input) :
          /\ IsMessage(try.message)
          /\ body' = try.body
          /\ IF Bindable(try.body) /\ Marshalable
             THEN /\ Path!Begin([segments |-> pattern, vars |-> found, verb |-> verb], try.message)
                  /\ request' = try.message
                  /\ pending' = Populated(try.message)
             ELSE /\ phase' = IF Bindable(try.body) THEN "unmarshalable" ELSE "unbound"
                  /\ UNCHANGED <<target, message, segments, k, uri, got, request, pending>>
    /\ UNCHANGED <<parser, query, payload, decoded, server>>

EncodePath ==
    /\ Path!EncodeVariable
    /\ UNCHANGED <<parser, body, request, pending, query, payload, decoded, server>>

---------------------------------------------------------------------------
(* The query.  A field's count says how much of it the path has taken; -1 is all, *)
(* taken by the body.                                                             *)

Uses(field) == Cardinality({i \in DOMAIN target.vars : target.vars[i].field = field})
BadCount(field) == Uses(field)
Count(field) == IF field = body THEN -1 ELSE Uses(field)

(* Within a message only when nothing else takes the message. *)
Reached(field) == \A outer \in Within(field) \ {field} : Count(outer) = 0

Rest(field) ==
    IF ~Reached(field) \/ Count(field) < 0 THEN <<>>
    ELSE IF field \in Lists THEN SubSeq(request[field], Count(field) + 1, Len(request[field]))
    ELSE IF Count(field) = 0 THEN <<request[field]>> ELSE <<>>

PathWritten == phase = "encode" /\ k > Len(target.vars)

(* Range visits the populated fields in any order. *)
EncodeField(field) ==
    /\ PathWritten /\ body # Whole /\ field \in pending
    /\ pending' = pending \ {field}
    /\ IF field = r /\ Count(r) = 0
       THEN phase' = "unencodable" /\ UNCHANGED query
       ELSE query' = [query EXCEPT ![field] = Rest(field)] /\ UNCHANGED phase
    /\ UNCHANGED <<parser, target, message, segments, k, uri, got, body, request, payload, decoded,
                   server>>

Selected(field) == body = Whole \/ body \in Within(field)

Send ==
    /\ PathWritten /\ (body = Whole \/ pending = {})
    /\ Path!Send
    /\ payload' = [field \in Fields |-> IF Selected(field) THEN request[field] ELSE <<>>]
    /\ UNCHANGED <<parser, body, request, pending, query, decoded, server>>

---------------------------------------------------------------------------
Match ==
    /\ Path!Match
    /\ UNCHANGED <<parser, body, request, pending, query, payload, decoded, server>>

DecodeBody ==
    /\ phase = "capture" /\ ~decoded
    /\ decoded' = TRUE
    /\ server' = payload
    /\ UNCHANGED <<parser, codec, body, request, pending, query, payload>>

CaptureVariable ==
    /\ decoded
    /\ Path!CaptureVariable
    /\ server' = [field \in Fields |-> IF field \in DOMAIN got' THEN got'[field] ELSE server[field]]
    /\ UNCHANGED <<parser, body, request, pending, query, payload, decoded>>

SetParameter(field, value) ==
    [server EXCEPT ![field] = IF field \in Lists THEN Append(@, value) ELSE value]

(* One pair of the query.  The pairs are sorted by field, which no field sees. *)
DecodeParameter(field) ==
    /\ phase = "capture" /\ decoded /\ k = 0 /\ query[field] # <<>>
    /\ server' = SetParameter(field, Head(query[field]))
    /\ query' = [query EXCEPT ![field] = Tail(@)]
    /\ UNCHANGED <<parser, codec, body, request, pending, payload, decoded>>

Delivered ==
    /\ decoded /\ query = Nothing
    /\ Path!CaptureDone
    /\ UNCHANGED <<parser, body, request, pending, query, payload, decoded, server>>

Decided ==
    /\ at \in {"rejected", "short"}
       \/ phase \in {"unbound", "unmarshalable", "refused", "unencodable", "notFound", "failed",
                     "done"}
    /\ UNCHANGED vars

Next ==
    \/ ReadTemplate \/ Bind \/ EncodePath \/ Send \/ Match \/ DecodeBody \/ CaptureVariable
    \/ \E field \in Fields : EncodeField(field) \/ DecodeParameter(field)
    \/ Delivered \/ Decided

Spec == Init /\ [][Next]_vars

---------------------------------------------------------------------------
(* Properties *)

(* The templates of the grammar parse, to what was written (parsePathTemplate).   *)
TemplateParsed == Template!TemplateParsed

(* A value that fits its variable is captured as it was encoded                   *)
(* (httpEncodePathValues against capture).                                        *)
RoundTrip == Path!RoundTrip

(* A path that the client sends is found on its route and decodes, whether or not *)
(* the message fits (requestURL against match).                                   *)
SentIsFound == Path!SentIsFound

(* A value that does not match the pattern of its variable is refused by the      *)
(* client (httpEncodePathValues' "expected field %s to match pattern %q").        *)
MisfitRefused == Path!MisfitRefused

(* The state is well typed: the bounds the parser gives a variable are inside the *)
(* template, open-ended only over a final "**", and a segment under construction  *)
(* is a wildcard or escaped, without a separator, a colon or a star (pathEscape). *)
VarOK(v) ==
    /\ v.start \in 0 .. Len(pattern) - 1
    /\ \/ v.end = -1 /\ Last(pattern) = <<"*", "*">>
       \/ v.end \in v.start + 1 .. Len(pattern)
TypeOK ==
    /\ \A v \in ToSet(found) : VarOK(v)
    /\ \A s \in ToSet(segments) : s \in Wildcards \/ s \in Seq(Chars \ {"/", ":", "*"})
    /\ uri \in Seq(Chars)
    /\ DOMAIN got \subseteq {v.field : v \in ToSet(found)}
    /\ k \in 0 .. Len(found) + 1
    /\ pending \subseteq Fields
    /\ phase \in {"idle", "unbound", "unmarshalable", "encode", "refused", "unencodable", "sent",
                  "notFound", "capture", "failed", "done"}

(* A message that fits the template arrives whole: every field has the value it   *)
(* was sent with, each element of a list once and in order, and no field has a    *)
(* value that was not sent, whichever of path, query and body carried it; several *)
(* may carry the same field (a field of the path has the captured value, of which *)
(* RoundTrip says the rest).  Once its path is written, only a message with a     *)
(* repeated message outside the body cannot be sent (httpEncodePathValues, encodeBody against decodeBody and   *)
(* decodeRequestURL).                                                             *)
InPath(field) == \E v \in ToSet(target.vars) : v.field = field
MessageDelivered ==
    /\ phase = "done" => ~Path!Fitting \/
           \A field \in Fields :
              server[field] = IF InPath(field) THEN got[field] ELSE request[field]
    /\ phase = "unencodable" => request[r] # <<>> /\ ~Selected(r)
=============================================================================
