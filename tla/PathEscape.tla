------------------------------ MODULE PathEscape ------------------------------
(***************************************************************************)
(* Texts of paths and templates, as sequences of characters, and their     *)
(* escapes (pathEscape, pathUnescape of path_parser.go).  In mode "multi"  *)
(* an escaped slash is a character of its own, so that it cannot be taken  *)
(* for a separator, on the way out and back in.                            *)
(***************************************************************************)
EXTENDS Naturals, Integers, Sequences, SequencesExt

Digits == {"2", "3", "5"}
HexDigits == Digits \cup {"A", "F", "f"}
Identifier == HexDigits \cup {"g", "l"}
BadUnreserved == Identifier \cup {".", ":"}
Unreserved == Identifier \cup {"."}
Hex == [c \in {"/", "%", ":", "*"} |->
            CASE c = "/" -> <<"2", "F">> [] c = "%" -> <<"2", "5">>
              [] c = ":" -> <<"3", "A">> [] c = "*" -> <<"2", "A">>]
Chars == Unreserved \cup DOMAIN Hex

Wildcards == {<<"*">>, <<"*", "*">>}
EscapedSlash == {<<"%", "2", "F">>, <<"%", "2", "f">>}
IsHexSlash(s, i) == i + 2 <= Len(s) /\ SubSeq(s, i, i + 2) \in EscapedSlash

Escape(s, mode) ==
    LET from[i \in 1 .. Len(s) + 1] ==
            IF i > Len(s) THEN <<>>
            ELSE IF mode = "multi" /\ IsHexSlash(s, i) THEN <<"%", "2", "F">> \o from[i + 3]
            ELSE (IF s[i] \in Unreserved THEN <<s[i]>> ELSE <<"%">> \o Hex[s[i]]) \o from[i + 1]
    IN from[1]

Valid(s) ==
    \A i \in DOMAIN s : s[i] = "%" =>
        i + 2 <= Len(s) /\ s[i + 1] \in HexDigits /\ s[i + 2] \in HexDigits

(* The characters of the alphabet that have the hexadecimal value; the model's *)
(* texts escape no others.                                                     *)
Byte(hi, lo) == CHOOSE c \in DOMAIN Hex : Hex[c] = <<hi, IF lo = "f" THEN "F" ELSE lo>>

Unescape(s, mode) ==
    LET from[i \in 1 .. Len(s) + 1] ==
            IF i > Len(s) THEN <<>>
            ELSE IF s[i] # "%" THEN <<s[i]>> \o from[i + 1]
            ELSE (IF mode = "multi" /\ IsHexSlash(s, i) THEN <<"%", "2", "F">>
                  ELSE <<Byte(s[i + 1], s[i + 2])>>) \o from[i + 3]
    IN from[1]

Canonical(segment) == Escape(Unescape(segment, "single"), "single")

Split(s, separator) ==
    LET from[i \in 1 .. Len(s) + 1] ==
            IF i > Len(s) THEN << <<>> >>
            ELSE IF s[i] = separator THEN << <<>> >> \o from[i + 1]
            ELSE << <<s[i]>> \o Head(from[i + 1]) >> \o Tail(from[i + 1])
    IN from[1]

Joined(segs) == FlattenSeq([j \in 1 .. Len(segs) |-> <<"/">> \o segs[j]])

(* Equal but for the case of an escaped slash, which "multi" does not keep. *)
Same(a, b) ==
    /\ Len(a) = Len(b)
    /\ \A i \in DOMAIN a :
          \/ a[i] = b[i]
          \/ a[i] = "F" /\ i > 2 /\ SubSeq(b, i - 2, i) = <<"%", "2", "f">>
=============================================================================
