----------------------------- MODULE PathTemplate -----------------------------
(***************************************************************************)
(* The reader of path templates: parsePathTemplate and the recursive       *)
(* descent of path_parser.go, as a machine that takes one token a step and *)
(* keeps the open variables, the parser's call stack, as a stack.  The     *)
(* template is chosen as it is read.                                       *)
(***************************************************************************)
EXTENDS PathEscape

CONSTANTS
    Words,     \* runs of literal characters a template may hold
    MaxTokens, \* bound on the length of a template
    Templates  \* longer templates, which are read too

VARIABLES
    input,          \* the tokens read so far
    at,             \* what the parser expects next, or how it ended
    seenDoubleStar,
    pattern,        \* the segments written so far
    open,           \* the variables being parsed, innermost last
    found,          \* the variables parsed, in the order they were closed
    verb

parser == <<input, at, seenDoubleStar, pattern, open, found, verb>>

Tokens == Wildcards \cup Words \cup {<<c>> : c \in {"/", "{", "}", "=", ":"}}

Init ==
    /\ input = <<>> /\ at = "template" /\ seenDoubleStar = FALSE
    /\ pattern = <<>> /\ open = <<>> /\ found = <<>> /\ verb = <<>>

---------------------------------------------------------------------------
(* Tokens are the longest runs the scanner can take: no word follows a word and *)
(* no star a "*".                                                               *)
Scanned(t) ==
    input # <<>> => ~ \/ Last(input) \in Words /\ t \in Words
                      \/ Last(input) = <<"*">> /\ t \in Wildcards

Token(t) ==
    /\ Len(input) < MaxTokens \/ \E template \in Templates : IsPrefix(Append(input, t), template)
    /\ Scanned(t)
    /\ input' = Append(input, t)

(* The parser reads the token t where it expects what, and goes on as then says; *)
(* any token for which it has no rule is a syntax error.                         *)
Rejected == at' = "rejected" /\ UNCHANGED <<seenDoubleStar, pattern, open, found, verb>>

Root(t) ==
    /\ at = "template" /\ Token(t)
    /\ IF t = <<"/">> THEN at' = "segment" /\ UNCHANGED <<seenDoubleStar, pattern, open, found, verb>>
                      ELSE Rejected

LiteralOK(t) == t \in Words /\ Valid(t)

Segment(t) ==
    /\ at = "segment" /\ Token(t)
    /\ \/ /\ t \in Wildcards \/ LiteralOK(t)
          /\ pattern' = Append(pattern, IF t \in Wildcards THEN t ELSE Canonical(t))
          /\ seenDoubleStar' = (seenDoubleStar \/ t = <<"*", "*">>)
          /\ at' = "next"
          /\ UNCHANGED <<open, found, verb>>
       \/ /\ t = <<"{">>
          /\ at' = "field"
          /\ UNCHANGED <<seenDoubleStar, pattern, open, found, verb>>
       \/ t \notin Wildcards \cup {<<"{">>} /\ ~LiteralOK(t) /\ Rejected

IsFieldPath(t) ==
    \A part \in ToSet(Split(t, ".")) :
        part # <<>> /\ part[1] \notin Digits /\ ToSet(part) \subseteq Identifier

(* The name is looked up among the variables closed before it, not among those *)
(* around it.                                                                  *)
BadDuplicate(t) == FALSE
Duplicate(t) == \E v \in ToSet(found) : v.field = t

Field(t) ==
    /\ at = "field" /\ Token(t)
    /\ IF t \in Words /\ IsFieldPath(t) /\ ~Duplicate(t)
       THEN /\ open' = Append(open, [field |-> t, start |-> Len(pattern)])
            /\ at' = "assign"
            /\ UNCHANGED <<seenDoubleStar, pattern, found, verb>>
       ELSE Rejected

End(segments) == IF seenDoubleStar THEN -1 ELSE Len(segments)

Close(segments) ==
    /\ found' = Append(found, [field |-> Last(open).field, start |-> Last(open).start,
                               end |-> End(segments)])
    /\ open' = Front(open)
    /\ pattern' = segments
    /\ at' = "next"
    /\ UNCHANGED <<seenDoubleStar, verb>>

Assign(t) ==
    /\ at = "assign" /\ Token(t)
    /\ \/ t = <<"=">> /\ at' = "segment" /\ UNCHANGED <<seenDoubleStar, pattern, open, found, verb>>
       \/ t = <<"}">> /\ Close(Append(pattern, <<"*">>))
       \/ t \notin {<<"=">>, <<"}">>} /\ Rejected

AfterSegment(t) ==
    /\ at = "next" /\ Token(t)
    /\ CASE t = <<"/">> /\ ~seenDoubleStar ->
               at' = "segment" /\ UNCHANGED <<seenDoubleStar, pattern, open, found, verb>>
         [] t = <<"}">> /\ open # <<>> -> Close(pattern)
         [] t = <<":">> /\ open = <<>> ->
               at' = "verb" /\ UNCHANGED <<seenDoubleStar, pattern, open, found, verb>>
         [] OTHER -> Rejected

Verb(t) ==
    /\ at = "verb" /\ Token(t)
    /\ IF LiteralOK(t)
       THEN verb' = Canonical(t) /\ at' = "end" /\ UNCHANGED <<seenDoubleStar, pattern, open, found>>
       ELSE Rejected

Trailing(t) == at = "end" /\ Token(t) /\ Rejected

Running == {"template", "segment", "field", "assign", "next", "verb", "end"}

EOF ==
    /\ at \in Running
    /\ at' = IF at = "end" \/ (at = "next" /\ open = <<>>) THEN "accepted" ELSE "short"
    /\ UNCHANGED <<input, seenDoubleStar, pattern, open, found, verb>>

Read(t) == Root(t) \/ Segment(t) \/ Field(t) \/ Assign(t) \/ AfterSegment(t) \/ Verb(t) \/ Trailing(t)

Parse == (\E t \in Tokens : Read(t)) \/ EOF

---------------------------------------------------------------------------
(* Properties *)

Literals == {w \in Words : Valid(w)}
Starts(t) == t \in Wildcards \cup Literals \cup {<<"{">>}

(* Whether the i-th token is a field path, a verb or part of the segments is told *)
(* by the ones before it.                                                         *)
After(i) == IF i = 1 THEN <<>> ELSE input[i - 1]
IsField(i) == After(i) = <<"{">>
IsVerb(i) == After(i) = <<":">>
Named(i) == i > 1 /\ IsField(i - 1)
Complete(i) == i > 1 /\ IsVerb(i - 1)
Joins(i) == i > 1 /\ ~Named(i) /\ ~Complete(i) /\ After(i) \notin {<<c>> : c \in {"/", "{", "=", ":"}}
Tally(token, i) == Cardinality({j \in 1 .. i : input[j] = token})
Depth(i) == Tally(<<"{">>, i) - Tally(<<"}">>, i)

(* The grammar of the doc of parsePathTemplate, position by position: what may    *)
(* follow what, variables closed in the order of a bracket language, and "**"     *)
(* only in the last segment.                                                      *)
Follows(i) ==
    LET t == input[i]
    IN /\ i = 1 => t = <<"/">>
       /\ IsField(i) => t \in Words /\ IsFieldPath(t)
       /\ IsVerb(i) => t \in Literals
       /\ After(i) \in {<<"/">>, <<"=">>} => Starts(t)
       /\ Named(i) => t \in {<<"=">>, <<"}">>}
       /\ ~Complete(i)
       /\ Joins(i) => \/ t = <<"/">> /\ ~\E j \in 1 .. i : input[j] = <<"*", "*">>
                      \/ t = <<"}">> /\ Depth(i) >= 0
                      \/ t = <<":">> /\ Depth(i) = 0
Grammatical == \A i \in DOMAIN input : Follows(i)
Ended ==
    /\ input # <<>> /\ Depth(Len(input)) = 0
    /\ Last(input) \in Wildcards \cup Words \cup {<<"}">>}

Twice == \E i, j \in DOMAIN input :
            i < j /\ IsField(i) /\ IsField(j) /\ input[i] = input[j]

Ending(v) == IF v.end = -1 THEN Len(pattern) ELSE v.end

(* Two variables of one name, neither of them within the other. *)
TwiceApart == \E i, j \in DOMAIN found :
    i < j /\ found[i].field = found[j].field /\ Ending(found[i]) <= found[j].start

(* Printing what was parsed: each variable opens before the first of its segments *)
(* and closes after the last, the inner ones, closed first, within the outer.     *)
Opening(i) == FlattenSeq(Reverse([j \in DOMAIN found |->
    IF found[j].start = i - 1 THEN << <<"{">>, found[j].field, <<"=">> >> ELSE <<>>]))
Closing(i) == FlattenSeq([j \in DOMAIN found |->
    IF Ending(found[j]) = i THEN << <<"}">> >> ELSE <<>>])
Printed ==
    FlattenSeq([i \in DOMAIN pattern |->
        << <<"/">> >> \o Opening(i) \o <<pattern[i]>> \o Closing(i)])
    \o (IF verb = <<>> THEN <<>> ELSE << <<":">>, verb >>)

(* The template with "{x}" written "{x=*}" and its literals canonical. *)
Normal ==
    FlattenSeq([i \in DOMAIN input |->
        IF IsField(i) THEN <<input[i]>> \o (IF input[i + 1] = <<"}">> THEN << <<"=">>, <<"*">> >> ELSE <<>>)
        ELSE IF input[i] \in Words THEN <<Canonical(input[i])>>
        ELSE <<input[i]>>])

(* Exactly the templates of the grammar parse, but for those that name a variable *)
(* twice (of which one within the other passes), and what is parsed of one is the *)
(* whole of it: printing the segments, the variables with their bounds and the    *)
(* verb gives the template back (parseTemplate to parseVariable).                 *)
TemplateParsed ==
    /\ at \in {"accepted"} \cup Running => Grammatical
    /\ at = "accepted" => Ended /\ Printed = Normal /\ ~TwiceApart
    /\ at = "rejected" => ~Grammatical \/ Twice
    /\ at = "short" => Grammatical /\ ~Ended
=============================================================================
