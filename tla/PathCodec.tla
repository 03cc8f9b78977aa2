------------------------------ MODULE PathCodec ------------------------------
(***************************************************************************)
(* A field value on its way through a path: httpEncodePathValues of        *)
(* httprule.go writes the values of a message into the segments of a       *)
(* template, the client sends the path, and the server finds the route     *)
(* (match of router.go) and captures the values (decodeRequestURL of       *)
(* encoding.go).  Texts are sequences of characters here, since what       *)
(* matters is which characters are escaped.  One route is mounted; the     *)
(* choice among routes is Router's.                                        *)
(***************************************************************************)
EXTENDS PathEscape

VARIABLES
    target, message, \* what is called, set by Begin
    segments, \* of the path under construction
    k,        \* the variable to write or to capture next
    uri,      \* what the client sends
    got,      \* the fields the server has captured
    phase     \* "idle", "encode", "refused", "sent", "notFound", "capture", "failed", "done"

vars == <<target, message, segments, k, uri, got, phase>>

(* A target is as parsePathTemplate and makeTarget build it: segments count from  *)
(* 0, a variable's end is exclusive, and -1 when "**" ends it, and nested          *)
(* variables come before the ones around them.  The message has a text for each.  *)
Init ==
    /\ target = [segments |-> <<>>, vars |-> <<>>, verb |-> <<>>] /\ message = <<>>
    /\ segments = <<>>
    /\ k = 1 /\ uri = <<>> /\ got = <<>> /\ phase = "idle"

Begin(t, m) ==
    /\ phase = "idle"
    /\ target' = t /\ message' = m
    /\ segments' = t.segments
    /\ phase' = "encode"
    /\ UNCHANGED <<k, uri, got>>

---------------------------------------------------------------------------
(* The client *)

Size(v) == IF v.end = -1 THEN -1 ELSE v.end - v.start

SplitVar(value, multi) ==
    IF multi THEN LET parts == Split(value, "/")
                  IN [i \in DOMAIN parts |-> Escape(parts[i], "multi")]
    ELSE <<Escape(value, "single")>>

Parts(v) == SplitVar(message[v.field], Size(v) # 1)

BadWrongSize(v, parts) == FALSE
WrongSize(v, parts) == Size(v) > 1 /\ Len(parts) # Size(v)

(* A wildcard takes any part; a literal, or a part of a variable written before, *)
(* only the same one.                                                            *)
Clashes(v, parts) ==
    \E i \in DOMAIN parts :
        /\ v.start + i \in DOMAIN segments
        /\ segments[v.start + i] \notin Wildcards /\ segments[v.start + i] # parts[i]

Overlaid(v, parts) ==
    LET last == v.start + Len(parts)
    IN [j \in 1 .. IF last > Len(segments) THEN last ELSE Len(segments) |->
            IF j - v.start \in DOMAIN parts THEN parts[j - v.start] ELSE segments[j]]

EncodeVariable ==
    /\ phase = "encode" /\ k <= Len(target.vars)
    /\ LET v == target.vars[k]
           parts == Parts(v)
       IN IF WrongSize(v, parts) \/ Clashes(v, parts)
          THEN phase' = "refused" /\ UNCHANGED <<segments, k>>
          ELSE segments' = Overlaid(v, parts) /\ k' = k + 1 /\ UNCHANGED phase
    /\ UNCHANGED <<target, message, uri, got>>

WithVerb == IF target.verb = <<>> THEN <<>> ELSE <<":">> \o target.verb

Send ==
    /\ phase = "encode" /\ k > Len(target.vars)
    /\ uri' = Joined(segments) \o WithVerb
    /\ phase' = "sent"
    /\ UNCHANGED <<target, message, segments, k, got>>

---------------------------------------------------------------------------
(* The server *)

(* "**" takes one segment or more. *)
Fits(path) ==
    LET pattern == target.segments
    IN /\ IF Last(pattern) = <<"*", "*">> THEN Len(path) >= Len(pattern)
                                          ELSE Len(path) = Len(pattern)
       /\ \A i \in DOMAIN pattern :
              \/ pattern[i] \in Wildcards
              \/ Valid(path[i]) /\ Canonical(path[i]) = pattern[i]

Routed(path, verb) == verb = target.verb /\ Fits(Split(Tail(path), "/"))

(* The verb follows the last colon of the last segment.  Without a route for it *)
(* the colon belongs to the segment.                                            *)
LastOf(c) == SelectLastInSeq(uri, LAMBDA x : x = c)

Matches ==
    /\ Last(uri) # ":"
    /\ IF LastOf(":") > LastOf("/")
       THEN \/ Routed(SubSeq(uri, 1, LastOf(":") - 1), SubSeq(uri, LastOf(":") + 1, Len(uri)))
            \/ Routed(uri, <<>>)
       ELSE Routed(uri, <<>>)

Match ==
    /\ phase = "sent"
    /\ phase' = IF Matches THEN "capture" ELSE "notFound"
    /\ k' = Len(target.vars)
    /\ UNCHANGED <<target, message, segments, uri, got>>

TrimVerb == SubSeq(uri, 1, Len(uri) - Len(WithVerb))

BadCaptureMode(v) == IF v.end # -1 THEN "single" ELSE "multi"
CaptureMode(v) == IF v.end # -1 /\ v.end - v.start = 1 THEN "single" ELSE "multi"

Captured(v) ==
    LET path == Split(Tail(TrimVerb), "/")
        mine == SubSeq(path, v.start + 1, IF v.end = -1 THEN Len(path) ELSE v.end)
    IN Tail(Joined(mine))

CaptureVariable ==
    /\ phase = "capture" /\ k > 0
    /\ LET v == target.vars[k]
           raw == Captured(v)
       IN IF Valid(raw)
          THEN /\ got' = [f \in DOMAIN got \cup {v.field} |->
                             IF f = v.field THEN Unescape(raw, CaptureMode(v)) ELSE got[f]]
               /\ k' = k - 1 /\ UNCHANGED phase
          ELSE phase' = "failed" /\ UNCHANGED <<got, k>>
    /\ UNCHANGED <<target, message, segments, uri>>

CaptureDone ==
    /\ phase = "capture" /\ k = 0
    /\ phase' = "done"
    /\ UNCHANGED <<target, message, segments, k, uri, got>>

---------------------------------------------------------------------------
(* Properties *)

(* The message fits the template: each variable covers its pattern, all variables *)
(* and the template say the same of a segment, and two open-ended variables end   *)
(* together.  It is stated of the values, not of the encoder's segments.          *)
Covers(v) ==
    IF v.end # -1 THEN Len(Parts(v)) = v.end - v.start
                  ELSE v.start + Len(Parts(v)) >= Len(target.segments)
AgreesWithTemplate(v) ==
    \A i \in DOMAIN Parts(v) :
        v.start + i \in DOMAIN target.segments =>
            target.segments[v.start + i] \in Wildcards \cup {Parts(v)[i]}
AgreeTogether(v, w) ==
    /\ \A i \in DOMAIN Parts(v) :
          LET j == v.start + i - w.start
          IN j \in DOMAIN Parts(w) => Parts(v)[i] = Parts(w)[j]
    /\ (v.end = -1 /\ w.end = -1) => v.start + Len(Parts(v)) = w.start + Len(Parts(w))
Fitting ==
    LET vs == ToSet(target.vars)
    IN /\ \A v \in vs : Covers(v) /\ AgreesWithTemplate(v)
       /\ \A v, w \in vs : AgreeTogether(v, w)

(* A message that fits the template arrives: the client does not refuse it, the   *)
(* server finds the route, and every field captured from the path has the value   *)
(* it was sent with, whatever slashes, colons and escapes it contains             *)
(* (httpEncodePathValues against match, trimVerb and capture).                    *)
Arrived(v) == IF Size(v) = 1 THEN got[v.field] = message[v.field]
                             ELSE Same(got[v.field], message[v.field])
RoundTrip ==
    /\ phase \in {"refused", "notFound", "failed"} => ~Fitting
    /\ phase = "done" /\ ~(\A v \in ToSet(target.vars) : Arrived(v)) => ~Fitting

(* What the client refuses to encode is no answer of the server: a path that was  *)
(* sent is found and decodes, also when the message did not fit (the checks of    *)
(* httpEncodePathValues are at least those of match).                             *)
SentIsFound == phase \notin {"notFound", "failed"}

(* "expected field %s to match pattern %q" (httprule.go:183): a message that does *)
(* not fit the template is refused, never sent as something else.                 *)
MisfitRefused == phase = "done" => Fitting
=============================================================================
