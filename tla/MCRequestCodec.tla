---------------------------- MODULE MCRequestCodec ----------------------------
(* The instance of RequestCodec that TLC checks: every template of up to         *)
(* MaxTokens tokens and the longer ones of MCTemplates, each with a few messages; *)
(* those of One and Two with many texts, and those of Plain with every division  *)
(* of a message among path, query and body.                                      *)
EXTENDS RequestCodec

Slash == <<"%", "2", "F">>
MCWords == {g, l, f, fg, Slash, <<"%", "2">>}

(* A template as tokens: the brackets, "=" and stars of a text are tokens of their *)
(* own, and so is each slash.                                                      *)
T(tokens) == [i \in DOMAIN tokens |-> IF tokens[i] \in {"/", "{", "}", "=", ":", "*"} THEN <<tokens[i]>>
                                      ELSE CASE tokens[i] = "**" -> <<"*", "*">>
                                             [] tokens[i] = "g" -> g
                                             [] tokens[i] = "f.g" -> fg
                                             [] tokens[i] = "%2F" -> Slash]

One == {
    T(<<"/", "g", "/", "{", "g", "}">>),
    T(<<"/", "{", "g", "}", ":", "g">>),
    T(<<"/", "{", "g", "=", "**", "}">>),
    T(<<"/", "{", "g", "=", "g", "/", "*", "}", ":", "g">>),
    T(<<"/", "{", "g", "=", "g", "/", "**", "}", ":", "g">>),
    T(<<"/", "{", "g", "=", "%2F", "/", "*", "}">>),
    T(<<"/", "{", "g", "=", "%2F", "}", "/", "*">>)}
Two == {
    T(<<"/", "{", "f.g", "}", "/", "{", "g", "=", "**", "}", ":", "g">>),
    T(<<"/", "{", "g", "=", "{", "f.g", "}", "/", "g", "}">>),
    T(<<"/", "{", "g", "=", "g", "/", "{", "f.g", "=", "**", "}", "}">>)}
Twice == {
    T(<<"/", "{", "g", "=", "{", "g", "}", "}">>),
    T(<<"/", "{", "g", "}", "/", "{", "g", "}">>)}
Plain == {T(<<"/", "g">>), T(<<"/", "{", "g", "}">>), T(<<"/", "{", "f.g", "}">>),
          T(<<"/", "{", "f.g", "}", "/", "{", "g", "}">>), T(<<"/", "{", "g", "=", "{", "g", "}", "}">>)}
MCTemplates == One \cup Two \cup Twice

Short == BoundedSeq((Chars \ {"3", "5", "A", ".", "l"}), 3)
Brief == BoundedSeq({"g", "/", "%", "2", ":", "*"}, 2)
OneValues == Short \cup {<<"g", "/">> \o s : s \in Short}
                   \cup {Slash \o <<"/">> \o s : s \in Brief}
FirstValues == Brief \cup {<<"%", "2", "f">>, <<"g", "/", "g">>}
LastValues == Brief \cup {s \o <<"/", "g">> : s \in Brief} \cup {<<"g", "/">> \o s : s \in Brief}
                    \cup {<<"%", "2", "5", "/", "g">>, <<"g", "/", "g", "/", "g">>}

Message(a, b, c, d, e) ==
    [field \in Fields |-> CASE field = g -> a [] field = fg -> b [] field = l -> c
                            [] field = fl -> d [] field = r -> e]
Texts(values) == {[body |-> <<>>, message |-> Message(v, <<>>, <<>>, <<>>, <<>>)] : v \in values}

Elements == {<<>>, <<g, l>>, <<g, g, l>>}
Divided ==
    [body : {<<>>, Whole, f, g, l, r, fg},
     message : {Message(a, b, c, d, e) :
                   a \in {<<>>, g}, b \in {<<>>, g, l}, c \in Elements, d \in Elements, e \in {<<>>, <<g>>}}]

MCRequests(template) ==
    CASE template \in One -> Texts(OneValues)
      [] template \in Two -> {[body |-> <<>>, message |-> Message(v, w, <<>>, <<>>, <<>>)] :
                              v \in LastValues, w \in FirstValues}
      [] template \in Plain -> Divided
      [] OTHER -> {[body |-> b, message |-> Message(g, l, <<g, l>>, <<>>, <<>>)] : b \in {<<>>, Whole}}
=============================================================================
