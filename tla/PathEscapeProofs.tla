-------------------------- MODULE PathEscapeProofs --------------------------
(***************************************************************************)
(* What escaping, unescaping, splitting and joining do to texts of any     *)
(* length, by induction on positions and on lengths.                       *)
(***************************************************************************)
EXTENDS PathEscape, TLAPS, WellFoundedInduction, SequenceTheorems

---------------------------------------------------------------------------
(* Induction *)

(* Among numbers there is a least one.                                        *)
LEMMA LeastNumber ==
    ASSUME NEW T, T \subseteq Nat, T # {}
    PROVE  \E m \in T : \A n \in T : m <= n
<1> DEFINE R == OpToRel(<, Nat)
<1>1. IsWellFoundedOn(R, Nat)
  BY NatLessThanWellFounded
<1>2. PICK m \in T : \A n \in T : ~(<<n, m>> \in R)
  BY <1>1, WFMin
<1>3. ASSUME NEW n \in T PROVE m <= n
  <2>1. n < m => <<n, m>> \in R
    BY DEF OpToRel
  <2> HIDE DEF R
  <2> QED
    BY <1>2, <2>1, m \in Nat, n \in Nat
<1> QED
  BY <1>3

(* A set of numbers that has 0, and each number's successor, has them all.    *)
LEMMA Induction ==
    ASSUME NEW S, 0 \in S, \A n \in Nat : n \in S => n + 1 \in S
    PROVE  Nat \subseteq S
<1> SUFFICES ASSUME ~(Nat \subseteq S) PROVE FALSE
  OBVIOUS
<1>1. PICK m \in Nat \ S : \A n \in Nat \ S : m <= n
  BY LeastNumber
<1>2. m - 1 \in Nat
  BY 0 \in S
<1>3. m - 1 \in S
  BY <1>1, <1>2
<1> QED
  BY <1>2, <1>3

(* The same from the end of a text to its beginning.                          *)
LEMMA FromTheEnd ==
    ASSUME NEW n \in Nat, NEW S, n + 1 \in S,
           \A i \in 1 .. n : (\A j \in i + 1 .. n + 1 : j \in S) => i \in S
    PROVE  \A i \in 1 .. n + 1 : i \in S
<1> SUFFICES ASSUME NEW b \in 1 .. n + 1, b \notin S PROVE FALSE
  OBVIOUS
<1> DEFINE T == {d \in 0 .. n : n + 1 - d \notin S}
<1>1. n + 1 - b \in T
  BY n + 1 - (n + 1 - b) = b
<1>2. PICK d \in T : \A e \in T : d <= e
  BY <1>1, LeastNumber, T \subseteq Nat
<1>3. d # 0 /\ n + 1 - d \in 1 .. n
  BY n + 1 - 0 = n + 1
<1>4. ASSUME NEW j \in n + 1 - d + 1 .. n + 1 PROVE j \in S
  <2>1. n + 1 - j \in 0 .. n /\ n + 1 - j < d /\ n + 1 - (n + 1 - j) = j
    BY <1>3
  <2> QED
    BY <1>2, <2>1
<1> QED
  BY <1>3, <1>4

---------------------------------------------------------------------------
(* Escape *)

LEMMA HexSlashIs ==
    ASSUME NEW X, NEW s \in Seq(X), NEW i \in Nat \ {0}
    PROVE  IsHexSlash(s, i) <=>
              i + 2 <= Len(s) /\ s[i] = "%" /\ s[i + 1] = "2" /\ s[i + 2] \in {"F", "f"}
<1>1. CASE i + 2 <= Len(s)
  <2> DEFINE w == SubSeq(s, i, i + 2)
  <2>1. Len(w) = 3 /\ w \in Seq(X) /\ w[1] = s[i] /\ w[2] = s[i + 1] /\ w[3] = s[i + 2]
    BY <1>1
  <2> HIDE DEF w
  <2>2. \A c : w = <<"%", "2", c>> <=> w[1] = "%" /\ w[2] = "2" /\ w[3] = c
    BY <2>1
  <2> QED
    BY <1>1, <2>1, <2>2 DEF IsHexSlash, EscapedSlash, w
<1> QED
  BY <1>1 DEF IsHexSlash

LEMMA HexSlashTail ==
    ASSUME NEW X, NEW s \in Seq(X), s # <<>>, NEW i \in 1 .. Len(s) - 1
    PROVE  IsHexSlash(s, i + 1) <=> IsHexSlash(Tail(s), i)
<1> DEFINE t == Tail(s)
           n == Len(t)
<1>0. n \in Nat /\ n = Len(t) /\ Len(s) = n + 1 /\ t \in Seq(X) /\ \A j \in 1 .. n : t[j] = s[j + 1]
  OBVIOUS
<1>1. IsHexSlash(s, i + 1) <=> IsHexSlash(t, i)
  <2>1. i + 1 \in Nat \ {0} /\ i \in Nat \ {0}
    OBVIOUS
  <2>2. IsHexSlash(s, i + 1) <=> i + 1 + 2 <= Len(s) /\ s[i + 1] = "%" /\ s[i + 1 + 1] = "2"
                                 /\ s[i + 1 + 2] \in {"F", "f"}
    BY <2>1, HexSlashIs
  <2> HIDE DEF t, n
  <2>3. IsHexSlash(t, i) <=> i + 2 <= Len(t) /\ t[i] = "%" /\ t[i + 1] = "2"
                             /\ t[i + 2] \in {"F", "f"}
    BY <1>0, <2>1, HexSlashIs
  <2>4. i + 2 <= n => s[i + 1] = t[i] /\ s[i + 1 + 1] = t[i + 1] /\ s[i + 1 + 2] = t[i + 2]
    BY <1>0
  <2> QED
    BY <1>0, <2>2, <2>3, <2>4
<1> QED
  BY <1>1

EscapeAt(s, mode, from, i) ==
    IF i > Len(s) THEN <<>>
    ELSE IF mode = "multi" /\ IsHexSlash(s, i) THEN <<"%", "2", "F">> \o from[i + 3]
    ELSE (IF s[i] \in Unreserved THEN <<s[i]>> ELSE <<"%">> \o Hex[s[i]]) \o from[i + 1]
Escapes(from, s, mode) == from = [i \in 1 .. Len(s) + 1 |-> EscapeAt(s, mode, from, i)]

LEMMA EscapeExists ==
    ASSUME NEW X, NEW s \in Seq(X), NEW mode
    PROVE  \E from : Escapes(from, s, mode)
<1> DEFINE n == Len(s)
           Right(from, k) == /\ from = [i \in 1 .. n + 1 |-> from[i]]
                             /\ \A i \in k .. n + 1 : from[i] = EscapeAt(s, mode, from, i)
           S == {k \in 1 .. n + 1 : \E from : Right(from, k)}
<1>0. n \in Nat
  OBVIOUS
<1>1. n + 1 \in S
  <2> DEFINE from == [i \in 1 .. n + 1 |-> <<>>]
  <2>1. Right(from, n + 1)
    BY <1>0 DEF EscapeAt
  <2> QED
    BY <1>0, <2>1
<1>2. ASSUME NEW k \in 1 .. n, \A j \in k + 1 .. n + 1 : j \in S PROVE k \in S
  <2>1. k + 1 \in S
    BY <1>2
  <2>2. PICK less : Right(less, k + 1)
    BY <2>1
  <2> DEFINE from == [i \in 1 .. n + 1 |-> IF i = k THEN EscapeAt(s, mode, less, k) ELSE less[i]]
  <2>3. ASSUME NEW i \in k .. n + 1 PROVE EscapeAt(s, mode, from, i) = EscapeAt(s, mode, less, i)
    BY <1>0 DEF EscapeAt, IsHexSlash
  <2>4. ASSUME NEW i \in k .. n + 1 PROVE from[i] = EscapeAt(s, mode, from, i)
    <3>1. from[i] = IF i = k THEN EscapeAt(s, mode, less, k) ELSE less[i]
      BY <1>0
    <3>2. i # k => less[i] = EscapeAt(s, mode, less, i)
      BY <1>0, <2>2
    <3> HIDE DEF from
    <3> QED
      BY <2>3, <3>1, <3>2
  <2>5. from = [i \in 1 .. n + 1 |-> from[i]]
    OBVIOUS
  <2> HIDE DEF from
  <2>6. Right(from, k)
    BY <2>4, <2>5
  <2> QED
    BY <2>6
<1> HIDE DEF S, n
<1>3. 1 \in S
  BY <1>0, <1>1, <1>2, FromTheEnd
<1>4. PICK from : Right(from, 1)
  BY <1>3 DEF S
<1> QED
  BY <1>4 DEF Escapes, n

LEMMA EscapeIs ==
    ASSUME NEW X, NEW s \in Seq(X), NEW mode
    PROVE  \E from : Escapes(from, s, mode) /\ Escape(s, mode) = from[1]
<1> DEFINE from == CHOOSE from : from = [i \in 1 .. Len(s) + 1 |-> EscapeAt(s, mode, from, i)]
<1>1. Escapes(from, s, mode)
  BY EscapeExists DEF Escapes
<1>2. Escape(s, mode) = from[1]
  BY DEF Escape, EscapeAt
<1> QED
  BY <1>1, <1>2

(* What follows a character is escaped as a text of its own.                  *)
LEMMA EscapeTail ==
    ASSUME NEW X, NEW s \in Seq(X), s # <<>>, NEW mode,
           NEW from, Escapes(from, s, mode), NEW rest, Escapes(rest, Tail(s), mode)
    PROVE  \A i \in 1 .. Len(s) : from[i + 1] = rest[i]
<1> DEFINE t == Tail(s)
           n == Len(t)
           S == {i \in 1 .. n + 1 : from[i + 1] = rest[i]}
<1>0. n \in Nat /\ n = Len(t) /\ Len(s) = n + 1 /\ t \in Seq(X) /\ \A i \in 1 .. n : t[i] = s[i + 1]
  OBVIOUS
<1>1. ASSUME NEW i \in 1 .. n + 1
      PROVE  from[i + 1] = EscapeAt(s, mode, from, i + 1) /\ rest[i] = EscapeAt(t, mode, rest, i)
  <2>1. i + 1 \in 1 .. Len(s) + 1 /\ i \in 1 .. Len(t) + 1
    BY <1>0
  <2> HIDE DEF t
  <2> QED
    BY <2>1 DEF Escapes, t
<1>2. ASSUME NEW i \in 1 .. n PROVE IsHexSlash(s, i + 1) <=> IsHexSlash(t, i)
  BY <1>0, HexSlashTail
<1> HIDE DEF t, n
<1>3. n + 1 \in S
  <2>1. from[n + 1 + 1] = EscapeAt(s, mode, from, n + 1 + 1) /\ rest[n + 1] = EscapeAt(t, mode, rest, n + 1)
    BY <1>0, <1>1
  <2>2. n + 1 + 1 > Len(s) /\ n + 1 > Len(t)
    BY <1>0
  <2> QED
    BY <1>0, <2>1, <2>2 DEF EscapeAt
<1>4. ASSUME NEW i \in 1 .. n, \A j \in i + 1 .. n + 1 : j \in S PROVE i \in S
  <2>1. from[i + 1 + 1] = rest[i + 1] /\ (i + 2 <= n => from[i + 1 + 3] = rest[i + 3])
    <3>1. i + 1 \in S /\ (i + 2 <= n => i + 3 \in S)
      BY <1>0, <1>4
    <3> QED
      BY <3>1, i + 1 + 1 = i + 2, i + 1 + 3 = i + 4, i + 3 + 1 = i + 4
  <2>2. IsHexSlash(t, i) => i + 2 <= n
    BY <1>0 DEF IsHexSlash
  <2>3. /\ from[i + 1] = EscapeAt(s, mode, from, i + 1) /\ rest[i] = EscapeAt(t, mode, rest, i)
        /\ s[i + 1] = t[i] /\ i + 1 <= Len(s) /\ i <= Len(t)
    BY <1>0, <1>1
  <2>4. EscapeAt(s, mode, from, i + 1) = EscapeAt(t, mode, rest, i)
    BY <1>2, <2>1, <2>2, <2>3 DEF EscapeAt
  <2> QED
    BY <1>0, <2>3, <2>4
<1> HIDE DEF S
<1>5. \A i \in 1 .. n + 1 : i \in S
  BY <1>0, <1>3, <1>4, FromTheEnd
<1> QED
  BY <1>0, <1>5 DEF S

(* So escaping takes a text character by character, but for escaped slashes.  *)
LEMMA EscapeEmpty == ASSUME NEW mode PROVE Escape(<<>>, mode) = <<>>
<1>1. <<>> \in Seq({}) /\ Len(<<>>) = 0
  OBVIOUS
<1>2. PICK from : Escapes(from, <<>>, mode) /\ Escape(<<>>, mode) = from[1]
  BY <1>1, EscapeIs
<1>3. from[1] = EscapeAt(<<>>, mode, from, 1)
  BY <1>1, <1>2 DEF Escapes
<1> QED
  BY <1>1, <1>2, <1>3 DEF EscapeAt

LEMMA EscapeUnfolds ==
    ASSUME NEW X, NEW s \in Seq(X), s # <<>>, NEW mode
    PROVE  Escape(s, mode) =
              IF mode = "multi" /\ IsHexSlash(s, 1)
              THEN <<"%", "2", "F">> \o Escape(Tail(Tail(Tail(s))), mode)
              ELSE (IF s[1] \in Unreserved THEN <<s[1]>> ELSE <<"%">> \o Hex[s[1]])
                   \o Escape(Tail(s), mode)
<1> DEFINE t == Tail(s)
<1>1. t \in Seq(X) /\ Len(t) = Len(s) - 1 /\ Len(s) \in Nat \ {0}
  OBVIOUS
<1>2. PICK from : Escapes(from, s, mode) /\ Escape(s, mode) = from[1]
  BY EscapeIs
<1>3. PICK rest : Escapes(rest, t, mode) /\ Escape(t, mode) = rest[1]
  BY <1>1, EscapeIs
<1>4. from[1] = EscapeAt(s, mode, from, 1)
  BY <1>1, <1>2 DEF Escapes
<1>5. from[1 + 1] = rest[1]
  BY <1>1, <1>2, <1>3, EscapeTail
<1>6. CASE mode = "multi" /\ IsHexSlash(s, 1)
  <2>1. Len(s) >= 3
    BY <1>1, <1>6 DEF IsHexSlash
  <2> DEFINE u == Tail(t)
             v == Tail(u)
  <2>2. /\ t # <<>> /\ u \in Seq(X) /\ u # <<>> /\ v \in Seq(X)
        /\ Len(t) >= 2 /\ Len(u) = Len(t) - 1 /\ Len(u) >= 1
    <3>1. t \in Seq(X) /\ Len(t) >= 2
      BY <1>1, <2>1
    <3> HIDE DEF t
    <3>2. t # <<>> /\ u \in Seq(X) /\ Len(u) = Len(t) - 1 /\ Len(u) >= 1
      BY <3>1
    <3> HIDE DEF u
    <3>3. u # <<>> /\ v \in Seq(X)
      BY <3>2
    <3> QED
      BY <3>1, <3>2, <3>3
  <2> HIDE DEF t, u, v
  <2>3. PICK third : Escapes(third, u, mode)
    BY <2>2, EscapeIs
  <2>4. PICK last : Escapes(last, v, mode) /\ Escape(v, mode) = last[1]
    BY <2>2, EscapeIs
  <2>5. from[4] = rest[3]
    BY <1>1, <1>2, <1>3, <2>1, EscapeTail, 3 + 1 = 4 DEF t
  <2>6. rest[3] = third[2]
    BY <1>1, <1>3, <2>2, <2>3, EscapeTail, 2 + 1 = 3 DEF u
  <2>7. third[2] = last[1]
    BY <2>2, <2>3, <2>4, EscapeTail, 1 + 1 = 2 DEF v
  <2>8. Escape(s, mode) = <<"%", "2", "F">> \o from[1 + 3]
    BY <1>1, <1>2, <1>4, <1>6 DEF EscapeAt
  <2>9. Escape(s, mode) = <<"%", "2", "F">> \o Escape(v, mode)
    BY <2>4, <2>5, <2>6, <2>7, <2>8, 1 + 3 = 4
  <2> QED
    BY <1>6, <2>9 DEF t, u, v
<1>7. CASE ~(mode = "multi" /\ IsHexSlash(s, 1))
  <2>1. ~(1 > Len(s))
    BY <1>1
  <2>2. from[1] = (IF s[1] \in Unreserved THEN <<s[1]>> ELSE <<"%">> \o Hex[s[1]]) \o from[1 + 1]
    BY <1>4, <1>7, <2>1 DEF EscapeAt
  <2> QED
    BY <1>2, <1>3, <1>5, <1>7, <2>2
<1> QED
  BY <1>6, <1>7

---------------------------------------------------------------------------
(* Unescape *)

UnescapeAt(s, mode, from, i) ==
    IF i > Len(s) THEN <<>>
    ELSE IF s[i] # "%" THEN <<s[i]>> \o from[i + 1]
    ELSE (IF mode = "multi" /\ IsHexSlash(s, i) THEN <<"%", "2", "F">>
          ELSE <<Byte(s[i + 1], s[i + 2])>>) \o from[i + 3]
Unescapes(from, s, mode) == from = [i \in 1 .. Len(s) + 1 |-> UnescapeAt(s, mode, from, i)]

LEMMA UnescapeExists ==
    ASSUME NEW X, NEW s \in Seq(X), Valid(s), NEW mode
    PROVE  \E from : Unescapes(from, s, mode)
<1> DEFINE n == Len(s)
           Right(from, k) == /\ from = [i \in 1 .. n + 1 |-> from[i]]
                             /\ \A i \in k .. n + 1 : from[i] = UnescapeAt(s, mode, from, i)
           S == {k \in 1 .. n + 1 : \E from : Right(from, k)}
<1>0. n \in Nat /\ \A i \in 1 .. n : s[i] = "%" => i + 2 <= n
  <2>1. n \in Nat /\ DOMAIN s = 1 .. n
    OBVIOUS
  <2>2. \A i \in DOMAIN s : s[i] = "%" => i + 2 <= n
    BY DEF Valid
  <2> QED
    BY <2>1, <2>2
<1>1. n + 1 \in S
  <2> DEFINE from == [i \in 1 .. n + 1 |-> <<>>]
  <2>1. Right(from, n + 1)
    BY <1>0 DEF UnescapeAt
  <2> QED
    BY <1>0, <2>1
<1>2. ASSUME NEW k \in 1 .. n, \A j \in k + 1 .. n + 1 : j \in S PROVE k \in S
  <2>1. k + 1 \in S
    BY <1>2
  <2>2. PICK less : Right(less, k + 1)
    BY <2>1
  <2> DEFINE from == [i \in 1 .. n + 1 |-> IF i = k THEN UnescapeAt(s, mode, less, k) ELSE less[i]]
  <2>3. ASSUME NEW i \in k .. n + 1
        PROVE  UnescapeAt(s, mode, from, i) = UnescapeAt(s, mode, less, i)
    <3>1. i <= n => from[i + 1] = less[i + 1] /\ (s[i] = "%" => from[i + 3] = less[i + 3])
      BY <1>0
    <3> HIDE DEF from
    <3> QED
      BY <1>0, <3>1 DEF UnescapeAt
  <2>4. ASSUME NEW i \in k .. n + 1 PROVE from[i] = UnescapeAt(s, mode, from, i)
    <3>1. from[i] = IF i = k THEN UnescapeAt(s, mode, less, k) ELSE less[i]
      BY <1>0
    <3>2. i # k => less[i] = UnescapeAt(s, mode, less, i)
      BY <1>0, <2>2
    <3> HIDE DEF from
    <3> QED
      BY <2>3, <3>1, <3>2
  <2>5. from = [i \in 1 .. n + 1 |-> from[i]]
    OBVIOUS
  <2> HIDE DEF from
  <2>6. Right(from, k)
    BY <2>4, <2>5
  <2> QED
    BY <2>6
<1> HIDE DEF S, n
<1>3. 1 \in S
  BY <1>0, <1>1, <1>2, FromTheEnd
<1>4. PICK from : Right(from, 1)
  BY <1>3 DEF S
<1> QED
  BY <1>4 DEF Unescapes, n

LEMMA UnescapeIs ==
    ASSUME NEW X, NEW s \in Seq(X), Valid(s), NEW mode
    PROVE  \E from : Unescapes(from, s, mode) /\ Unescape(s, mode) = from[1]
<1> DEFINE from == CHOOSE from : from = [i \in 1 .. Len(s) + 1 |-> UnescapeAt(s, mode, from, i)]
<1>1. Unescapes(from, s, mode)
  BY UnescapeExists DEF Unescapes
<1>2. Unescape(s, mode) = from[1]
  BY DEF Unescape, UnescapeAt
<1> QED
  BY <1>1, <1>2

LEMMA ValidTail ==
    ASSUME NEW X, NEW s \in Seq(X), s # <<>>, Valid(s)
    PROVE  Tail(s) \in Seq(X) /\ Valid(Tail(s)) /\ Len(Tail(s)) = Len(s) - 1
<1> DEFINE t == Tail(s)
<1>1. /\ Len(s) \in Nat \ {0} /\ Len(t) = Len(s) - 1 /\ t \in Seq(X)
      /\ \A i \in 1 .. Len(t) : t[i] = s[i + 1]
  OBVIOUS
<1>2. ASSUME NEW i \in DOMAIN t, t[i] = "%"
      PROVE  i + 2 <= Len(t) /\ t[i + 1] \in HexDigits /\ t[i + 2] \in HexDigits
  <2> HIDE DEF t
  <2>1. i \in 1 .. Len(t)
    BY <1>1
  <2>2. s[i + 1] = "%" /\ i + 1 \in DOMAIN s
    BY <1>1, <1>2, <2>1
  <2>3. i + 1 + 2 <= Len(s) /\ s[i + 1 + 1] \in HexDigits /\ s[i + 1 + 2] \in HexDigits
    BY <2>2 DEF Valid
  <2>4. i + 2 <= Len(t) /\ t[i + 1] = s[i + 1 + 1] /\ t[i + 2] = s[i + 2 + 1]
    BY <1>1, <2>1, <2>3
  <2> QED
    BY <2>3, <2>4, i + 2 + 1 = i + 1 + 2
<1> QED
  BY <1>1, <1>2 DEF Valid

LEMMA UnescapeTail ==
    ASSUME NEW X, NEW s \in Seq(X), s # <<>>, Valid(s), NEW mode,
           NEW from, Unescapes(from, s, mode), NEW rest, Unescapes(rest, Tail(s), mode)
    PROVE  \A i \in 1 .. Len(s) : from[i + 1] = rest[i]
<1> DEFINE t == Tail(s)
           n == Len(t)
           S == {i \in 1 .. n + 1 : from[i + 1] = rest[i]}
<1>0. n \in Nat /\ n = Len(t) /\ Len(s) = n + 1 /\ t \in Seq(X) /\ \A i \in 1 .. n : t[i] = s[i + 1]
  OBVIOUS
<1>00. \A i \in 1 .. n : t[i] = "%" => i + 2 <= n
  <2>1. DOMAIN t = 1 .. n /\ Valid(t)
    BY ValidTail
  <2> QED
    BY <2>1 DEF Valid
<1>1. ASSUME NEW i \in 1 .. n + 1
      PROVE  from[i + 1] = UnescapeAt(s, mode, from, i + 1) /\ rest[i] = UnescapeAt(t, mode, rest, i)
  <2>1. i + 1 \in 1 .. Len(s) + 1 /\ i \in 1 .. Len(t) + 1
    BY <1>0
  <2> HIDE DEF t
  <2> QED
    BY <2>1 DEF Unescapes, t
<1>2. ASSUME NEW i \in 1 .. n PROVE IsHexSlash(s, i + 1) <=> IsHexSlash(t, i)
  BY <1>0, HexSlashTail
<1> HIDE DEF t, n
<1>3. n + 1 \in S
  <2>1. from[n + 1 + 1] = UnescapeAt(s, mode, from, n + 1 + 1)
        /\ rest[n + 1] = UnescapeAt(t, mode, rest, n + 1)
    BY <1>0, <1>1
  <2>2. n + 1 + 1 > Len(s) /\ n + 1 > Len(t)
    BY <1>0
  <2> QED
    BY <1>0, <2>1, <2>2 DEF UnescapeAt
<1>4. ASSUME NEW i \in 1 .. n, \A j \in i + 1 .. n + 1 : j \in S PROVE i \in S
  <2>1. from[i + 1 + 1] = rest[i + 1] /\ (i + 2 <= n => from[i + 1 + 3] = rest[i + 3])
    <3>1. i + 1 \in S /\ (i + 2 <= n => i + 3 \in S)
      BY <1>0, <1>4
    <3> QED
      BY <3>1, i + 1 + 1 = i + 2, i + 1 + 3 = i + 4, i + 3 + 1 = i + 4
  <2>2. t[i] = "%" => i + 2 <= n /\ s[i + 1 + 1] = t[i + 1] /\ s[i + 1 + 2] = t[i + 2]
    BY <1>0, <1>00
  <2>3. /\ from[i + 1] = UnescapeAt(s, mode, from, i + 1) /\ rest[i] = UnescapeAt(t, mode, rest, i)
        /\ s[i + 1] = t[i] /\ i + 1 <= Len(s) /\ i <= Len(t)
    BY <1>0, <1>1
  <2>4. UnescapeAt(s, mode, from, i + 1) = UnescapeAt(t, mode, rest, i)
    BY <1>2, <2>1, <2>2, <2>3 DEF UnescapeAt
  <2> QED
    BY <1>0, <2>3, <2>4
<1> HIDE DEF S
<1>5. \A i \in 1 .. n + 1 : i \in S
  BY <1>0, <1>3, <1>4, FromTheEnd
<1> QED
  BY <1>0, <1>5 DEF S

(* So unescaping takes a text character by character, but for escapes.        *)
LEMMA UnescapeEmpty == ASSUME NEW mode PROVE Unescape(<<>>, mode) = <<>>
<1>1. <<>> \in Seq({}) /\ Len(<<>>) = 0 /\ Valid(<<>>)
  BY DEF Valid
<1>2. PICK from : Unescapes(from, <<>>, mode) /\ Unescape(<<>>, mode) = from[1]
  BY <1>1, UnescapeIs
<1>3. from[1] = UnescapeAt(<<>>, mode, from, 1)
  BY <1>1, <1>2 DEF Unescapes
<1> QED
  BY <1>1, <1>2, <1>3 DEF UnescapeAt

LEMMA UnescapeUnfolds ==
    ASSUME NEW X, NEW s \in Seq(X), s # <<>>, Valid(s), NEW mode
    PROVE  Unescape(s, mode) =
              IF s[1] # "%" THEN <<s[1]>> \o Unescape(Tail(s), mode)
              ELSE (IF mode = "multi" /\ IsHexSlash(s, 1) THEN <<"%", "2", "F">>
                    ELSE <<Byte(s[2], s[3])>>) \o Unescape(Tail(Tail(Tail(s))), mode)
<1> DEFINE t == Tail(s)
<1>1. t \in Seq(X) /\ Len(t) = Len(s) - 1 /\ Len(s) \in Nat \ {0} /\ Valid(t)
  BY ValidTail
<1>2. PICK from : Unescapes(from, s, mode) /\ Unescape(s, mode) = from[1]
  BY UnescapeIs
<1>3. PICK rest : Unescapes(rest, t, mode) /\ Unescape(t, mode) = rest[1]
  BY <1>1, UnescapeIs
<1>4. from[1] = UnescapeAt(s, mode, from, 1)
  BY <1>1, <1>2 DEF Unescapes
<1>5. from[1 + 1] = rest[1]
  BY <1>1, <1>2, <1>3, UnescapeTail
<1>6. ~(1 > Len(s))
  BY <1>1
<1>7. CASE s[1] = "%"
  <2>1. Len(s) >= 3
    BY <1>1, <1>7 DEF Valid
  <2> DEFINE u == Tail(t)
             v == Tail(u)
  <2>2. /\ t # <<>> /\ u \in Seq(X) /\ u # <<>> /\ v \in Seq(X)
        /\ Len(t) >= 2 /\ Len(u) = Len(t) - 1 /\ Len(u) >= 1 /\ Valid(u) /\ Valid(v)
    <3>1. t \in Seq(X) /\ Len(t) >= 2 /\ Valid(t)
      BY <1>1, <2>1
    <3> HIDE DEF t
    <3>2. t # <<>> /\ u \in Seq(X) /\ Len(u) = Len(t) - 1 /\ Len(u) >= 1 /\ Valid(u)
      BY <3>1, ValidTail
    <3> HIDE DEF u
    <3>3. u # <<>> /\ v \in Seq(X) /\ Valid(v)
      BY <3>2, ValidTail
    <3> QED
      BY <3>1, <3>2, <3>3
  <2> HIDE DEF t, u, v
  <2>3. PICK third : Unescapes(third, u, mode)
    BY <2>2, UnescapeIs
  <2>4. PICK last : Unescapes(last, v, mode) /\ Unescape(v, mode) = last[1]
    BY <2>2, UnescapeIs
  <2>5. from[4] = rest[3]
    BY <1>1, <1>2, <1>3, <2>1, UnescapeTail, 3 + 1 = 4 DEF t
  <2>6. rest[3] = third[2]
    BY <1>1, <1>3, <2>2, <2>3, UnescapeTail, 2 + 1 = 3 DEF u
  <2>7. third[2] = last[1]
    BY <2>2, <2>3, <2>4, UnescapeTail, 1 + 1 = 2 DEF v
  <2>8. Unescape(s, mode) = (IF mode = "multi" /\ IsHexSlash(s, 1) THEN <<"%", "2", "F">>
                             ELSE <<Byte(s[1 + 1], s[1 + 2])>>) \o from[1 + 3]
    BY <1>2, <1>4, <1>6, <1>7 DEF UnescapeAt
  <2>9. Unescape(s, mode) = (IF mode = "multi" /\ IsHexSlash(s, 1) THEN <<"%", "2", "F">>
                             ELSE <<Byte(s[2], s[3])>>) \o Unescape(v, mode)
    BY <2>4, <2>5, <2>6, <2>7, <2>8, 1 + 3 = 4, 1 + 1 = 2, 1 + 2 = 3
  <2> QED
    BY <1>7, <2>9 DEF t, u, v
<1>8. CASE s[1] # "%"
  <2>1. from[1] = <<s[1]>> \o from[1 + 1]
    BY <1>4, <1>6, <1>8 DEF UnescapeAt
  <2> QED
    BY <1>2, <1>3, <1>5, <1>8, <2>1
<1> QED
  BY <1>7, <1>8

---------------------------------------------------------------------------
(* Split *)

SplitAt(s, separator, from, i) ==
    IF i > Len(s) THEN << <<>> >>
    ELSE IF s[i] = separator THEN << <<>> >> \o from[i + 1]
    ELSE << <<s[i]>> \o Head(from[i + 1]) >> \o Tail(from[i + 1])
Splits(from, s, separator) == from = [i \in 1 .. Len(s) + 1 |-> SplitAt(s, separator, from, i)]

LEMMA SplitExists ==
    ASSUME NEW X, NEW s \in Seq(X), NEW separator
    PROVE  \E from : Splits(from, s, separator)
<1> DEFINE n == Len(s)
           Right(from, k) == /\ from = [i \in 1 .. n + 1 |-> from[i]]
                             /\ \A i \in k .. n + 1 : from[i] = SplitAt(s, separator, from, i)
           S == {k \in 1 .. n + 1 : \E from : Right(from, k)}
<1>0. n \in Nat
  OBVIOUS
<1>1. n + 1 \in S
  <2> DEFINE from == [i \in 1 .. n + 1 |-> << <<>> >>]
  <2>1. Right(from, n + 1)
    BY <1>0 DEF SplitAt
  <2> QED
    BY <1>0, <2>1
<1>2. ASSUME NEW k \in 1 .. n, \A j \in k + 1 .. n + 1 : j \in S PROVE k \in S
  <2>1. k + 1 \in S
    BY <1>2
  <2>2. PICK less : Right(less, k + 1)
    BY <2>1
  <2> DEFINE from == [i \in 1 .. n + 1 |-> IF i = k THEN SplitAt(s, separator, less, k) ELSE less[i]]
  <2>3. ASSUME NEW i \in k .. n + 1
        PROVE  SplitAt(s, separator, from, i) = SplitAt(s, separator, less, i)
    <3>1. i <= n => from[i + 1] = less[i + 1]
      BY <1>0
    <3> HIDE DEF from
    <3>2. CASE i > Len(s)
      BY <3>2 DEF SplitAt
    <3>3. CASE ~(i > Len(s))
      <4>1. from[i + 1] = less[i + 1]
        BY <1>0, <3>1, <3>3
      <4> QED
        BY <3>3, <4>1 DEF SplitAt
    <3> QED
      BY <3>2, <3>3
  <2>4. ASSUME NEW i \in k .. n + 1 PROVE from[i] = SplitAt(s, separator, from, i)
    <3>1. from[i] = IF i = k THEN SplitAt(s, separator, less, k) ELSE less[i]
      BY <1>0
    <3>2. i # k => less[i] = SplitAt(s, separator, less, i)
      BY <1>0, <2>2
    <3> HIDE DEF from
    <3> QED
      BY <2>3, <3>1, <3>2
  <2>5. from = [i \in 1 .. n + 1 |-> from[i]]
    OBVIOUS
  <2> HIDE DEF from
  <2>6. Right(from, k)
    BY <2>4, <2>5
  <2> QED
    BY <2>6
<1> HIDE DEF S, n
<1>3. 1 \in S
  BY <1>0, <1>1, <1>2, FromTheEnd
<1>4. PICK from : Right(from, 1)
  BY <1>3 DEF S
<1> QED
  BY <1>4 DEF Splits, n

LEMMA SplitIs ==
    ASSUME NEW X, NEW s \in Seq(X), NEW separator
    PROVE  \E from : Splits(from, s, separator) /\ Split(s, separator) = from[1]
<1> DEFINE from == CHOOSE from : from = [i \in 1 .. Len(s) + 1 |-> SplitAt(s, separator, from, i)]
<1>1. Splits(from, s, separator)
  BY SplitExists DEF Splits
<1>2. Split(s, separator) = from[1]
  BY DEF Split, SplitAt
<1> QED
  BY <1>1, <1>2

LEMMA SplitTail ==
    ASSUME NEW X, NEW s \in Seq(X), s # <<>>, NEW separator,
           NEW from, Splits(from, s, separator), NEW rest, Splits(rest, Tail(s), separator)
    PROVE  from[2] = rest[1]
<1> DEFINE t == Tail(s)
           n == Len(t)
           S == {i \in 1 .. n + 1 : from[i + 1] = rest[i]}
<1>0. n \in Nat /\ n = Len(t) /\ Len(s) = n + 1 /\ t \in Seq(X) /\ \A i \in 1 .. n : t[i] = s[i + 1]
  OBVIOUS
<1>1. ASSUME NEW i \in 1 .. n + 1
      PROVE  from[i + 1] = SplitAt(s, separator, from, i + 1) /\ rest[i] = SplitAt(t, separator, rest, i)
  <2>1. i + 1 \in 1 .. Len(s) + 1 /\ i \in 1 .. Len(t) + 1
    BY <1>0
  <2> HIDE DEF t
  <2> QED
    BY <2>1 DEF Splits, t
<1> HIDE DEF t, n
<1>3. n + 1 \in S
  <2>1. from[n + 1 + 1] = SplitAt(s, separator, from, n + 1 + 1)
        /\ rest[n + 1] = SplitAt(t, separator, rest, n + 1)
    BY <1>0, <1>1
  <2>2. n + 1 + 1 > Len(s) /\ n + 1 > Len(t)
    BY <1>0
  <2> QED
    BY <1>0, <2>1, <2>2 DEF SplitAt
<1>4. ASSUME NEW i \in 1 .. n, \A j \in i + 1 .. n + 1 : j \in S PROVE i \in S
  <2>1. from[i + 1 + 1] = rest[i + 1]
    <3>1. i + 1 \in S
      BY <1>0, <1>4
    <3> QED
      BY <3>1
  <2>3. /\ from[i + 1] = SplitAt(s, separator, from, i + 1) /\ rest[i] = SplitAt(t, separator, rest, i)
        /\ s[i + 1] = t[i] /\ i + 1 <= Len(s) /\ i <= Len(t)
    BY <1>0, <1>1
  <2>4. SplitAt(s, separator, from, i + 1) = SplitAt(t, separator, rest, i)
    BY <2>1, <2>3 DEF SplitAt
  <2> QED
    BY <1>0, <2>3, <2>4
<1> HIDE DEF S
<1>5. \A i \in 1 .. n + 1 : i \in S
  BY <1>0, <1>3, <1>4, FromTheEnd
<1>6. 1 \in S
  BY <1>0, <1>5
<1> QED
  BY <1>6, 1 + 1 = 2 DEF S

(* Splitting takes a text character by character.                             *)
LEMMA SplitEmpty == ASSUME NEW separator PROVE Split(<<>>, separator) = << <<>> >>
<1>1. <<>> \in Seq({}) /\ Len(<<>>) = 0
  OBVIOUS
<1>2. PICK from : Splits(from, <<>>, separator) /\ Split(<<>>, separator) = from[1]
  BY <1>1, SplitIs
<1>3. from[1] = SplitAt(<<>>, separator, from, 1)
  BY <1>1, <1>2 DEF Splits
<1> QED
  BY <1>1, <1>2, <1>3 DEF SplitAt

LEMMA SplitUnfolds ==
    ASSUME NEW X, NEW s \in Seq(X), s # <<>>, NEW separator
    PROVE  Split(s, separator) =
              LET parts == Split(Tail(s), separator)
              IN  IF s[1] = separator THEN << <<>> >> \o parts
                  ELSE << <<s[1]>> \o Head(parts) >> \o Tail(parts)
<1> DEFINE t == Tail(s)
<1>1. t \in Seq(X) /\ Len(s) \in Nat \ {0}
  OBVIOUS
<1>2. PICK from : Splits(from, s, separator) /\ Split(s, separator) = from[1]
  BY SplitIs
<1>3. PICK rest : Splits(rest, t, separator) /\ Split(t, separator) = rest[1]
  BY <1>1, SplitIs
<1>4. from[1] = SplitAt(s, separator, from, 1)
  BY <1>1, <1>2 DEF Splits
<1>5. from[1 + 1] = rest[1]
  BY <1>1, <1>2, <1>3, SplitTail, 1 + 1 = 2
<1>6. ~(1 > Len(s))
  BY <1>1
<1> QED
  BY <1>2, <1>3, <1>4, <1>5, <1>6 DEF SplitAt

---------------------------------------------------------------------------
(* Joined *)

FlattenAt(seqs, flatten, i) == IF i = 1 THEN seqs[i] ELSE flatten[i-1] \o seqs[i]
Flattens(flatten, seqs) == flatten = [i \in 1 .. Len(seqs) |-> FlattenAt(seqs, flatten, i)]

LEMMA FlattenExists ==
    ASSUME NEW X, NEW seqs \in Seq(X)
    PROVE  \E flatten : Flattens(flatten, seqs)
<1> DEFINE n == Len(seqs)
           Right(flatten, k) == /\ flatten = [i \in 1 .. n |-> flatten[i]]
                                /\ \A i \in 1 .. n : i <= k => flatten[i] = FlattenAt(seqs, flatten, i)
           S == {k \in Nat : \E flatten : Right(flatten, k)}
<1>0. n \in Nat
  OBVIOUS
<1>1. 0 \in S
  <2> DEFINE flatten == [i \in 1 .. n |-> <<>>]
  <2>1. Right(flatten, 0)
    BY <1>0
  <2> QED
    BY <2>1
<1>2. ASSUME NEW k \in Nat, k \in S PROVE k + 1 \in S
  <2>1. PICK less : Right(less, k)
    BY <1>2
  <2> DEFINE flatten == [i \in 1 .. n |-> IF i = k + 1 THEN FlattenAt(seqs, less, i) ELSE less[i]]
  <2>2. ASSUME NEW i \in 1 .. n, i <= k + 1
        PROVE  FlattenAt(seqs, flatten, i) = FlattenAt(seqs, less, i)
    <3>1. i # 1 => flatten[i - 1] = less[i - 1]
      BY <1>0, <2>2
    <3> HIDE DEF flatten
    <3> QED
      BY <3>1 DEF FlattenAt
  <2>3. ASSUME NEW i \in 1 .. n, i <= k + 1 PROVE flatten[i] = FlattenAt(seqs, flatten, i)
    <3>1. i # k + 1 => less[i] = FlattenAt(seqs, less, i)
      BY <1>0, <2>1, <2>3
    <3> QED
      BY <2>2, <2>3, <3>1
  <2>4. flatten = [i \in 1 .. n |-> flatten[i]]
    OBVIOUS
  <2> HIDE DEF flatten
  <2>5. Right(flatten, k + 1)
    BY <2>3, <2>4
  <2> QED
    BY <2>5
<1> HIDE DEF S
<1>3. n \in S
  BY <1>0, <1>1, <1>2, Induction
<1>4. PICK flatten : Right(flatten, n)
  BY <1>3 DEF S
<1>5. flatten = [i \in 1 .. n |-> FlattenAt(seqs, flatten, i)]
  BY <1>0, <1>4
<1> QED
  BY <1>5 DEF Flattens

LEMMA FlattenIs ==
    ASSUME NEW X, NEW seqs \in Seq(X), Len(seqs) # 0
    PROVE  \E flatten : Flattens(flatten, seqs) /\ FlattenSeq(seqs) = flatten[Len(seqs)]
<1> DEFINE flatten == CHOOSE flatten : flatten = [i \in 1 .. Len(seqs) |-> FlattenAt(seqs, flatten, i)]
<1>1. Flattens(flatten, seqs)
  BY FlattenExists DEF Flattens
<1>2. FlattenSeq(seqs) = flatten[Len(seqs)]
  BY DEF FlattenSeq, FlattenAt
<1> QED
  BY <1>1, <1>2

LEMMA FlattenPrefix ==
    ASSUME NEW X, NEW seqs \in Seq(X), NEW x \in X,
           NEW long, Flattens(long, Append(seqs, x)), NEW flatten, Flattens(flatten, seqs)
    PROVE  \A i \in 1 .. Len(seqs) : long[i] = flatten[i]
<1> DEFINE n == Len(seqs)
           S == {k \in Nat : \A i \in 1 .. n : i <= k => long[i] = flatten[i]}
<1>0. n \in Nat /\ Len(Append(seqs, x)) = n + 1 /\ \A i \in 1 .. n : Append(seqs, x)[i] = seqs[i]
  OBVIOUS
<1>1. ASSUME NEW i \in 1 .. n
      PROVE  long[i] = FlattenAt(Append(seqs, x), long, i) /\ flatten[i] = FlattenAt(seqs, flatten, i)
  <2>1. i \in 1 .. Len(Append(seqs, x)) /\ i \in 1 .. Len(seqs)
    BY <1>0
  <2> QED
    BY <2>1 DEF Flattens
<1>2. 0 \in S
  OBVIOUS
<1>3. ASSUME NEW k \in Nat, k \in S PROVE k + 1 \in S
  <2>1. ASSUME NEW i \in 1 .. n, i <= k + 1 PROVE long[i] = flatten[i]
    <3>1. i # 1 => long[i - 1] = flatten[i - 1]
      BY <1>0, <1>3, <2>1
    <3> QED
      BY <1>0, <1>1, <3>1 DEF FlattenAt
  <2> QED
    BY <2>1
<1> HIDE DEF S
<1>4. n \in S
  BY <1>0, <1>2, <1>3, Induction
<1> QED
  BY <1>0, <1>4 DEF S

LEMMA FlattenAppend ==
    ASSUME NEW X, NEW seqs \in Seq(Seq(X)), NEW x \in Seq(X)
    PROVE  FlattenSeq(Append(seqs, x)) = FlattenSeq(seqs) \o x
<1> DEFINE all == Append(seqs, x)
           n == Len(seqs)
<1>1. n \in Nat /\ Len(all) = n + 1 /\ all \in Seq(Seq(X)) /\ all[n + 1] = x /\ Len(all) # 0
  OBVIOUS
<1>2. PICK long : Flattens(long, all) /\ FlattenSeq(all) = long[n + 1]
  BY <1>1, FlattenIs
<1>3. long[n + 1] = FlattenAt(all, long, n + 1)
  <2>1. n + 1 \in 1 .. Len(all)
    BY <1>1
  <2> HIDE DEF all
  <2> QED
    BY <1>2, <2>1 DEF Flattens
<1>4. CASE n = 0
  <2>1. FlattenSeq(seqs) = <<>>
    BY <1>4 DEF FlattenSeq
  <2>2. FlattenSeq(all) = x
    BY <1>1, <1>2, <1>3, <1>4 DEF FlattenAt
  <2> QED
    BY <2>1, <2>2
<1>5. CASE n # 0
  <2>1. PICK flatten : Flattens(flatten, seqs) /\ FlattenSeq(seqs) = flatten[n]
    BY <1>5, FlattenIs
  <2>2. long[n] = flatten[n]
    <3>1. n \in 1 .. Len(seqs)
      BY <1>1, <1>5
    <3> QED
      BY <1>2, <2>1, <3>1, FlattenPrefix
  <2>3. n + 1 # 1 /\ n + 1 - 1 = n
    BY <1>1, <1>5
  <2> HIDE DEF all, n
  <2>4. FlattenAt(all, long, n + 1) = long[n] \o x
    BY <1>1, <2>3 DEF FlattenAt
  <2> QED
    BY <1>2, <1>3, <2>1, <2>2, <2>4 DEF all
<1> QED
  BY <1>4, <1>5

---------------------------------------------------------------------------
(* Texts of any length *)

LEMMA ConsType ==
    ASSUME NEW X, NEW c \in X, NEW a \in Seq(X)
    PROVE  <<c>> \o a \in Seq(X) /\ <<c>> \o a # <<>> /\ Len(<<c>> \o a) = Len(a) + 1
<1>1. <<c>> \in Seq(X) /\ Len(<<c>>) = 1
  OBVIOUS
<1>2. <<c>> \o a \in Seq(X) /\ Len(<<c>> \o a) = Len(a) + 1
  BY <1>1, ConcatProperties
<1>3. Len(a) + 1 # 0
  OBVIOUS
<1> QED
  BY <1>2, <1>3

LEMMA ConsTail ==
    ASSUME NEW X, NEW c \in X, NEW a \in Seq(X)
    PROVE  (<<c>> \o a)[1] = c /\ Head(<<c>> \o a) = c /\ Tail(<<c>> \o a) = a
<1> DEFINE s == <<c>> \o a
<1>1. <<c>> \in Seq(X) /\ Len(<<c>>) = 1 /\ <<c>>[1] = c
  OBVIOUS
<1>2. s \in Seq(X) /\ Len(s) = Len(a) + 1 /\ s[1] = c /\ \A i \in 1 .. Len(a) : s[i + 1] = a[i]
  BY <1>1, ConcatProperties
<1> HIDE DEF s
<1>4. s # <<>> /\ Head(s) = c
  BY <1>2
<1>5. Tail(s) = a
  <2>1. Tail(s) \in Seq(X) /\ Len(Tail(s)) = Len(a) /\ \A i \in 1 .. Len(a) : Tail(s)[i] = s[i + 1]
    BY <1>2, <1>4, HeadTailProperties
  <2> QED
    BY <1>2, <2>1, SeqEqual
<1> QED
  BY <1>2, <1>4, <1>5 DEF s

LEMMA ConsConcat ==
    ASSUME NEW X, NEW c \in X, NEW a \in Seq(X), NEW b \in Seq(X)
    PROVE  (<<c>> \o a) \o b = <<c>> \o (a \o b)
<1>1. <<c>> \in Seq(X)
  OBVIOUS
<1> QED
  BY <1>1, ConcatAssociative

LEMMA Uncons ==
    ASSUME NEW X, NEW s \in Seq(X), s # <<>>
    PROVE  /\ s[1] \in X /\ Tail(s) \in Seq(X) /\ Len(Tail(s)) = Len(s) - 1 /\ Len(s) \in Nat \ {0}
           /\ s = <<s[1]>> \o Tail(s)
<1>1. s[1] \in X /\ Tail(s) \in Seq(X) /\ Len(Tail(s)) = Len(s) - 1 /\ Len(s) \in Nat \ {0}
      /\ \A i \in 1 .. Len(Tail(s)) : Tail(s)[i] = s[i + 1]
  BY HeadTailProperties
<1>2. <<s[1]>> \in Seq(X) /\ Len(<<s[1]>>) = 1 /\ <<s[1]>>[1] = s[1]
  BY <1>1
<1> DEFINE u == <<s[1]>> \o Tail(s)
<1>3. /\ u \in Seq(X) /\ Len(u) = Len(s)
      /\ \A i \in 1 .. Len(s) : u[i] = IF i = 1 THEN s[1] ELSE Tail(s)[i - 1]
  BY <1>1, <1>2, ConcatProperties
<1> HIDE DEF u
<1>4. \A i \in 1 .. Len(s) : u[i] = s[i]
  <2> SUFFICES ASSUME NEW i \in 1 .. Len(s), i # 1 PROVE u[i] = s[i]
    BY <1>3
  <2>1. i - 1 \in 1 .. Len(Tail(s)) /\ i - 1 + 1 = i
    BY <1>1
  <2> QED
    BY <1>1, <1>3, <2>1
<1>5. u = s
  BY <1>3, <1>4, SeqEqual
<1> QED
  BY <1>1, <1>5 DEF u

LEMMA TextInduction ==
    ASSUME NEW X, NEW S, <<>> \in S,
           \A s \in Seq(X) : s # <<>> /\ (\A t \in Seq(X) : Len(t) < Len(s) => t \in S) => s \in S
    PROVE  \A s \in Seq(X) : s \in S
<1> SUFFICES ASSUME NEW b \in Seq(X), b \notin S PROVE FALSE
  OBVIOUS
<1> DEFINE T == {Len(s) : s \in {t \in Seq(X) : t \notin S}}
<1>1. Len(b) \in T /\ T \subseteq Nat
  OBVIOUS
<1>2. PICK m \in T : \A n \in T : m <= n
  BY <1>1, LeastNumber
<1>3. PICK s \in Seq(X) : s \notin S /\ Len(s) = m
  BY <1>2
<1>4. ASSUME NEW t \in Seq(X), Len(t) < Len(s) PROVE t \in S
  <2>1. t \notin S => Len(t) \in T
    OBVIOUS
  <2> HIDE DEF T
  <2> QED
    BY <1>1, <1>2, <1>3, <1>4, <2>1
<1> QED
  BY <1>3, <1>4

---------------------------------------------------------------------------
(* Lists of texts, one after the other *)

LEMMA FlattenEmpty == FlattenSeq(<<>>) = <<>>
BY DEF FlattenSeq

LEMMA FlattenType == ASSUME NEW X PROVE \A seqs \in Seq(Seq(X)) : FlattenSeq(seqs) \in Seq(X)
<1> DEFINE Y == Seq(X)
           S == {s \in Seq(Y) : FlattenSeq(s) \in Seq(X)}
<1>1. <<>> \in S
  <2>1. <<>> \in Seq(X) /\ <<>> \in Seq(Y)
    OBVIOUS
  <2> QED
    BY <2>1, FlattenEmpty
<1>2. ASSUME NEW s \in Seq(Y), s # <<>>, \A t \in Seq(Y) : Len(t) < Len(s) => t \in S
      PROVE  s \in S
  <2>1. PICK t \in Seq(Y), x \in Y : s = Append(t, x)
    BY <1>2, SequenceEmptyOrAppend
  <2>2. Len(t) < Len(s)
    BY <2>1
  <2>3. FlattenSeq(t) \in Seq(X)
    BY <1>2, <2>1, <2>2
  <2>4. FlattenSeq(s) = FlattenSeq(t) \o x
    BY <2>1, FlattenAppend
  <2> QED
    BY <1>2, <2>3, <2>4, ConcatProperties
<1> HIDE DEF S, Y
<1>3. \A s \in Seq(Y) : s \in S
  BY <1>1, <1>2, TextInduction
<1> QED
  BY <1>3 DEF S, Y

LEMMA ConsAppend ==
    ASSUME NEW X, NEW x \in X, NEW y \in X, NEW s \in Seq(X)
    PROVE  <<x>> \o Append(s, y) = Append(<<x>> \o s, y)
<1>1. <<x>> \in Seq(X) /\ <<y>> \in Seq(X)
  OBVIOUS
<1>2. Append(s, y) = s \o <<y>> /\ (<<x>> \o s) \o <<y>> = <<x>> \o (s \o <<y>>) /\ <<x>> \o s \in Seq(X)
  BY <1>1, AppendIsConcat, ConcatAssociative, ConcatProperties
<1> QED
  BY <1>2, AppendIsConcat

LEMMA FlattenCons ==
    ASSUME NEW X, NEW x \in Seq(X)
    PROVE  \A seqs \in Seq(Seq(X)) : FlattenSeq(<<x>> \o seqs) = x \o FlattenSeq(seqs)
<1> DEFINE Y == Seq(X)
           S == {s \in Seq(Y) : FlattenSeq(<<x>> \o s) = x \o FlattenSeq(s)}
<1>1. <<>> \in S
  <2>1. <<x>> \o <<>> = Append(<<>>, x) /\ x \o <<>> = x /\ <<>> \o x = x
    BY ConcatEmptySeq, AppendIsConcat, <<>> \in Seq(Y)
  <2>2. FlattenSeq(Append(<<>>, x)) = FlattenSeq(<<>>) \o x
    BY FlattenAppend, <<>> \in Seq(Y)
  <2>3. <<>> \in Seq(Y)
    OBVIOUS
  <2> QED
    BY <2>1, <2>2, <2>3, FlattenEmpty
<1>2. ASSUME NEW s \in Seq(Y), s # <<>>, \A t \in Seq(Y) : Len(t) < Len(s) => t \in S
      PROVE  s \in S
  <2>1. PICK t \in Seq(Y), y \in Y : s = Append(t, y)
    BY <1>2, SequenceEmptyOrAppend
  <2>2. Len(t) < Len(s)
    BY <2>1
  <2>3. FlattenSeq(t) \in Seq(X) /\ <<x>> \o t \in Seq(Y)
    BY FlattenType, ConsType
  <2>4. <<x>> \o s = Append(<<x>> \o t, y)
    BY <2>1, ConsAppend
  <2>5. FlattenSeq(<<x>> \o s) = FlattenSeq(<<x>> \o t) \o y
    BY <2>3, <2>4, FlattenAppend
  <2>6. FlattenSeq(<<x>> \o t) = x \o FlattenSeq(t)
    BY <1>2, <2>2
  <2>7. FlattenSeq(s) = FlattenSeq(t) \o y
    BY <2>1, FlattenAppend
  <2>8. (x \o FlattenSeq(t)) \o y = x \o (FlattenSeq(t) \o y)
    BY <2>3, ConcatAssociative
  <2> QED
    BY <1>2, <2>5, <2>6, <2>7, <2>8
<1> HIDE DEF S, Y
<1>3. \A s \in Seq(Y) : s \in S
  BY <1>1, <1>2, TextInduction
<1> QED
  BY <1>3 DEF S, Y

LEMMA ReverseIs ==
    ASSUME NEW X, NEW s \in Seq(X)
    PROVE  Reverse(s) \in Seq(X) /\ Len(Reverse(s)) = Len(s) /\ \A i \in 1 .. Len(s) : Reverse(s)[i] = s[Len(s) - i + 1]
<1>1. Len(s) \in Nat /\ \A i \in 1 .. Len(s) : Len(s) - i + 1 \in 1 .. Len(s) /\ s[Len(s) - i + 1] \in X
  OBVIOUS
<1> QED
  BY <1>1 DEF Reverse

LEMMA ReverseAppend ==
    ASSUME NEW X, NEW s \in Seq(X), NEW x \in X
    PROVE  Reverse(Append(s, x)) = <<x>> \o Reverse(s)
<1> DEFINE u == Append(s, x)
           a == Reverse(u)
           b == <<x>> \o Reverse(s)
           n == Len(s)
<1>1. u \in Seq(X) /\ Len(u) = n + 1 /\ n \in Nat /\ u[n + 1] = x /\ \A i \in 1 .. n : u[i] = s[i]
  BY AppendProperties
<1>2. a \in Seq(X) /\ Len(a) = n + 1 /\ \A i \in 1 .. n + 1 : a[i] = u[n + 1 - i + 1]
  <2> HIDE DEF u
  <2> QED
    BY <1>1, ReverseIs
<1>3. Reverse(s) \in Seq(X) /\ Len(Reverse(s)) = n /\ \A i \in 1 .. n : Reverse(s)[i] = s[n - i + 1]
  BY ReverseIs
<1>4. b \in Seq(X) /\ Len(b) = n + 1 /\ \A i \in 1 .. n + 1 : b[i] = IF i = 1 THEN x ELSE Reverse(s)[i - 1]
  <2> DEFINE r == Reverse(s)
             w == <<x>>
  <2>1. w \in Seq(X) /\ Len(w) = 1 /\ w[1] = x
    OBVIOUS
  <2>5. r \in Seq(X)
    BY <1>3
  <2> HIDE DEF r, w
  <2>2. /\ w \o r \in Seq(X) /\ Len(w \o r) = Len(w) + Len(r)
        /\ \A i \in 1 .. Len(w) + Len(r) : (w \o r)[i] = IF i <= Len(w) THEN w[i] ELSE r[i - Len(w)]
    BY <2>1, <2>5, ConcatProperties
  <2>3. Len(r) = n /\ Len(w) + Len(r) = n + 1
    BY <1>1, <1>3, <2>1 DEF r
  <2>4. \A i \in 1 .. n + 1 : i <= 1 <=> i = 1
    BY <1>1
  <2> QED
    BY <2>1, <2>2, <2>3, <2>4 DEF r, w
<1> HIDE DEF a, b, u
<1>5. \A i \in 1 .. n + 1 : a[i] = b[i]
  <2> SUFFICES ASSUME NEW i \in 1 .. n + 1 PROVE a[i] = b[i]
    OBVIOUS
  <2>1. CASE i = 1
    <3>1. n + 1 - i + 1 = n + 1
      BY <1>1, <2>1
    <3> QED
      BY <1>1, <1>2, <1>4, <2>1, <3>1
  <2>2. CASE i # 1
    <3> DEFINE j == n + 1 - i + 1
    <3>1. j \in 1 .. n /\ i - 1 \in 1 .. n /\ n - (i - 1) + 1 = j
      BY <1>1, <2>2
    <3> HIDE DEF j
    <3>2. a[i] = u[j]
      BY <1>2 DEF j
    <3> QED
      BY <1>1, <1>3, <1>4, <2>2, <3>1, <3>2
  <2> QED
    BY <2>1, <2>2
<1>6. a = b
  BY <1>2, <1>4, <1>5, SeqEqual
<1> QED
  BY <1>6 DEF a, b, u

LEMMA FlattenReverse ==
    ASSUME NEW X, NEW seqs \in Seq(Seq(X)), NEW x \in Seq(X)
    PROVE  /\ FlattenSeq(Reverse(Append(seqs, x))) = x \o FlattenSeq(Reverse(seqs))
           /\ FlattenSeq(Reverse(seqs)) \in Seq(X)
<1> DEFINE r == Reverse(seqs)
<1>1. r \in Seq(Seq(X))
  BY ReverseIs
<1>2. Reverse(Append(seqs, x)) = <<x>> \o r
  BY ReverseAppend
<1> HIDE DEF r
<1>3. FlattenSeq(<<x>> \o r) = x \o FlattenSeq(r)
  BY <1>1, FlattenCons
<1> QED
  BY <1>1, <1>2, <1>3, FlattenType DEF r

LEMMA FlattenNone ==
    ASSUME NEW seqs \in Seq({<<>>})
    PROVE  FlattenSeq(seqs) = <<>> /\ FlattenSeq(Reverse(seqs)) = <<>>
<1> DEFINE Y == {<<>>}
           S == {s \in Seq(Y) : FlattenSeq(s) = <<>>}
<1>1. <<>> \in S
  BY FlattenEmpty
<1>2. ASSUME NEW s \in Seq(Y), s # <<>>, \A t \in Seq(Y) : Len(t) < Len(s) => t \in S
      PROVE  s \in S
  <2>1. PICK t \in Seq(Y), x \in Y : s = Append(t, x)
    BY <1>2, SequenceEmptyOrAppend
  <2>2. Len(t) < Len(s)
    BY <2>1
  <2>3. FlattenSeq(t) = <<>> /\ x = <<>>
    BY <1>2, <2>2
  <2>4. t \in Seq(Seq({})) /\ x \in Seq({})
    <3>1. Y \subseteq Seq({})
      OBVIOUS
    <3> QED
      BY <3>1, SeqMonotonic
  <2>5. FlattenSeq(s) = FlattenSeq(t) \o x
    BY <2>1, <2>4, FlattenAppend
  <2>6. <<>> \o <<>> = <<>>
    OBVIOUS
  <2> QED
    BY <1>2, <2>3, <2>5, <2>6
<1>3. Reverse(seqs) \in Seq(Y)
  BY ReverseIs
<1> HIDE DEF S, Y
<1>4. \A s \in Seq(Y) : s \in S
  BY <1>1, <1>2, TextInduction
<1> QED
  BY <1>3, <1>4 DEF S, Y

(* A text that another continues by one piece.                                *)
LEMMA FlattenGrows ==
    ASSUME NEW X, NEW short \in Seq(Seq(X)), NEW long \in Seq(Seq(X)), Len(long) = Len(short) + 1,
           \A i \in 1 .. Len(short) : long[i] = short[i]
    PROVE  FlattenSeq(long) = FlattenSeq(short) \o long[Len(long)]
<1> DEFINE x == long[Len(long)]
           u == Append(short, x)
           n == Len(short)
<1>1. n \in Nat /\ x \in Seq(X) /\ x = long[n + 1]
  OBVIOUS
<1>2. u \in Seq(Seq(X)) /\ Len(u) = n + 1 /\ u[n + 1] = x /\ \A i \in 1 .. n : u[i] = short[i]
  BY <1>1, AppendProperties
<1> HIDE DEF u, x
<1>3. \A i \in 1 .. n + 1 : u[i] = long[i]
  <2>1. \A i \in 1 .. n + 1 : i \in 1 .. n \/ i = n + 1
    BY <1>1
  <2> QED
    BY <1>1, <1>2, <2>1
<1>4. u = long
  BY <1>2, <1>3, SeqEqual
<1>5. FlattenSeq(u) = FlattenSeq(short) \o x
  BY <1>1, FlattenAppend DEF u
<1> QED
  BY <1>4, <1>5 DEF x

---------------------------------------------------------------------------
(* Splitting and joining *)

LEMMA SplitParts ==
    ASSUME NEW X, NEW separator
    PROVE  \A s \in Seq(X) : /\ Split(s, separator) \in Seq(Seq(X \ {separator}))
                             /\ Split(s, separator) # <<>>
<1> DEFINE Y == Seq(X \ {separator})
           S == {s \in Seq(X) : Split(s, separator) \in Seq(Y) /\ Split(s, separator) # <<>>}
<1>1. <<>> \in S
  <2>1. <<>> \in Seq(X) /\ << <<>> >> \in Seq(Y) /\ << <<>> >> # <<>>
    OBVIOUS
  <2> QED
    BY <2>1, SplitEmpty
<1>2. ASSUME NEW s \in Seq(X), s # <<>>, \A t \in Seq(X) : Len(t) < Len(s) => t \in S
      PROVE  s \in S
  <2> DEFINE parts == Split(Tail(s), separator)
             head == <<s[1]>> \o Head(parts)
  <2>1. s[1] \in X /\ Tail(s) \in Seq(X) /\ Len(Tail(s)) < Len(s)
    BY <1>2, Uncons
  <2>2. parts \in Seq(Y) /\ parts # <<>>
    BY <1>2, <2>1
  <2>3. Split(s, separator) = IF s[1] = separator THEN << <<>> >> \o parts ELSE <<head>> \o Tail(parts)
    BY <1>2, SplitUnfolds
  <2>4. <<>> \in Y /\ Head(parts) \in Y /\ Tail(parts) \in Seq(Y)
    BY <2>2, HeadTailProperties
  <2> HIDE DEF Y, parts
  <2>5. CASE s[1] = separator
    BY <1>2, <2>2, <2>3, <2>4, <2>5, ConsType
  <2>6. CASE s[1] # separator
    <3>1. head \in Y
      <4>1. s[1] \in X \ {separator} /\ Head(parts) \in Seq(X \ {separator})
        BY <2>1, <2>4, <2>6 DEF Y
      <4> QED
        BY <4>1, ConsType DEF Y
    <3> HIDE DEF head
    <3> QED
      BY <1>2, <2>3, <2>4, <2>6, <3>1, ConsType
  <2> QED
    BY <2>5, <2>6
<1> HIDE DEF S
<1>3. \A s \in Seq(X) : s \in S
  BY <1>1, <1>2, TextInduction
<1> QED
  BY <1>3 DEF S

(* What precedes the first separator is the first part.                       *)
LEMMA SplitOne ==
    ASSUME NEW X, NEW separator
    PROVE  \A a \in Seq(X \ {separator}) : Split(a, separator) = <<a>>
<1> DEFINE Y == X \ {separator}
           S == {a \in Seq(Y) : Split(a, separator) = <<a>>}
<1>1. <<>> \in S
  BY SplitEmpty
<1>2. ASSUME NEW s \in Seq(Y), s # <<>>, \A t \in Seq(Y) : Len(t) < Len(s) => t \in S
      PROVE  s \in S
  <2>1. s[1] \in Y /\ Tail(s) \in Seq(Y) /\ Len(Tail(s)) < Len(s) /\ s = <<s[1]>> \o Tail(s)
    BY <1>2, Uncons
  <2>2. Split(Tail(s), separator) = <<Tail(s)>>
    BY <1>2, <2>1
  <2>3. Split(s, separator) = << <<s[1]>> \o Head(<<Tail(s)>>) >> \o Tail(<<Tail(s)>>)
    <3>1. s[1] # separator
      BY <2>1
    <3> QED
      BY <1>2, <2>2, <3>1, SplitUnfolds
  <2>4. Head(<<Tail(s)>>) = Tail(s) /\ Tail(<<Tail(s)>>) = <<>>
    OBVIOUS
  <2>5. <<s>> \o <<>> = <<s>>
    BY ConcatEmptySeq, <<s>> \in Seq({s})
  <2> QED
    BY <1>2, <2>1, <2>3, <2>4, <2>5
<1> HIDE DEF S
<1>3. \A s \in Seq(Y) : s \in S
  BY <1>1, <1>2, TextInduction
<1> QED
  BY <1>3 DEF S

LEMMA SplitFirst ==
    ASSUME NEW X, NEW separator \in X, NEW b \in Seq(X)
    PROVE  \A a \in Seq(X \ {separator}) :
              Split(a \o (<<separator>> \o b), separator) = <<a>> \o Split(b, separator)
<1> DEFINE Y == X \ {separator}
           rest == <<separator>> \o b
           S == {a \in Seq(Y) : Split(a \o rest, separator) = <<a>> \o Split(b, separator)}
<1>0. /\ rest \in Seq(X) /\ rest # <<>> /\ rest[1] = separator /\ Tail(rest) = b
      /\ Split(b, separator) \in Seq(Seq(X)) /\ \A a \in Seq(Y) : a \in Seq(X)
  <2>1. \A a \in Seq(Y) : a \in Seq(X)
    BY SeqMonotonic
  <2>2. Split(b, separator) \in Seq(Seq(Y))
    BY SplitParts
  <2>3. Split(b, separator) \in Seq(Seq(X))
    BY <2>1, <2>2, SeqMonotonic, Seq(Y) \subseteq Seq(X)
  <2>4. rest \in Seq(X) /\ rest # <<>> /\ rest[1] = separator /\ Tail(rest) = b
    BY ConsType, ConsTail
  <2> QED
    BY <2>1, <2>3, <2>4
<1> HIDE DEF rest
<1>1. <<>> \in S
  <2>1. <<>> \o rest = rest /\ <<>> \in Seq(Y)
    BY <1>0, ConcatEmptySeq
  <2> QED
    BY <1>0, <2>1, SplitUnfolds
<1>2. ASSUME NEW s \in Seq(Y), s # <<>>, \A t \in Seq(Y) : Len(t) < Len(s) => t \in S
      PROVE  s \in S
  <2> DEFINE u == Tail(s) \o rest
             parts == Split(b, separator)
  <2>1. s[1] \in Y /\ Tail(s) \in Seq(Y) /\ Len(Tail(s)) < Len(s) /\ s = <<s[1]>> \o Tail(s)
    BY <1>2, Uncons
  <2>2. Split(u, separator) = <<Tail(s)>> \o parts
    BY <1>2, <2>1
  <2>3. s \o rest = <<s[1]>> \o u /\ u \in Seq(X)
    <3>1. s[1] \in X /\ Tail(s) \in Seq(X)
      BY <1>0, <2>1
    <3>2. (<<s[1]>> \o Tail(s)) \o rest = <<s[1]>> \o u
      BY <1>0, <3>1, ConsConcat
    <3>3. u \in Seq(X)
      BY <1>0, <3>1, ConcatProperties
    <3> QED
      BY <2>1, <3>2, <3>3
  <2>4. s \o rest # <<>> /\ s \o rest \in Seq(X) /\ (s \o rest)[1] = s[1] /\ Tail(s \o rest) = u
    <3> HIDE DEF u
    <3> QED
      BY <2>1, <2>3, ConsType, ConsTail
  <2>5. Split(s \o rest, separator) =
           << <<s[1]>> \o Head(Split(u, separator)) >> \o Tail(Split(u, separator))
    <3> HIDE DEF u
    <3> QED
      BY <2>1, <2>4, SplitUnfolds
  <2>6. Head(<<Tail(s)>> \o parts) = Tail(s) /\ Tail(<<Tail(s)>> \o parts) = parts
    <3>1. Tail(s) \in Seq(X) /\ parts \in Seq(Seq(X))
      BY <1>0, <2>1
    <3> HIDE DEF parts
    <3> QED
      BY <3>1, ConsTail
  <2> QED
    BY <1>2, <2>1, <2>2, <2>5, <2>6
<1> HIDE DEF S
<1>3. \A s \in Seq(Y) : s \in S
  BY <1>1, <1>2, TextInduction
<1> QED
  BY <1>3 DEF S, rest

LEMMA JoinedEmpty == Joined(<<>>) = <<>>
<1>1. [j \in 1 .. Len(<<>>) |-> <<"/">> \o <<>>[j]] = <<>>
  OBVIOUS
<1> QED
  BY <1>1 DEF Joined, FlattenSeq

LEMMA JoinedAppend ==
    ASSUME NEW X, "/" \in X, NEW segs \in Seq(Seq(X)), NEW x \in Seq(X)
    PROVE  Joined(Append(segs, x)) = Joined(segs) \o (<<"/">> \o x)
<1> DEFINE with(q) == [j \in 1 .. Len(q) |-> <<"/">> \o q[j]]
           all == Append(segs, x)
<1>1. /\ Len(segs) \in Nat /\ Len(all) = Len(segs) + 1 /\ all[Len(segs) + 1] = x
      /\ \A j \in 1 .. Len(segs) : all[j] = segs[j] /\ segs[j] \in Seq(X)
  OBVIOUS
<1>2. \A a \in Seq(X) : <<"/">> \o a \in Seq(X)
  BY ConsType
<1> DEFINE slash(a) == <<"/">> \o a
<1>3. with(segs) \in Seq(Seq(X)) /\ Len(with(segs)) = Len(segs)
  <2>1. \A j \in 1 .. Len(segs) : slash(segs[j]) \in Seq(X)
    BY <1>1, <1>2
  <2> HIDE DEF slash
  <2>2. [j \in 1 .. Len(segs) |-> slash(segs[j])] \in Seq(Seq(X))
        /\ Len([j \in 1 .. Len(segs) |-> slash(segs[j])]) = Len(segs)
    BY <1>1, <2>1
  <2> QED
    BY <2>2 DEF slash
<1>4. with(all) = Append(with(segs), slash(x))
  <2> HIDE DEF all
  <2> DEFINE u == Append(with(segs), slash(x))
             w == with(segs)
  <2>1. /\ Len(u) = Len(segs) + 1 /\ u[Len(segs) + 1] = slash(x) /\ u \in Seq(Seq(X))
        /\ \A j \in 1 .. Len(segs) : u[j] = slash(segs[j])
    <3>1. w \in Seq(Seq(X)) /\ Len(w) = Len(segs) /\ \A j \in 1 .. Len(segs) : w[j] = slash(segs[j])
      BY <1>1, <1>3
    <3>2. slash(x) \in Seq(X)
      BY <1>2
    <3> HIDE DEF w, slash
    <3> QED
      BY <1>1, <3>1, <3>2 DEF w
  <2>2. u = [j \in 1 .. Len(u) |-> u[j]]
    <3> HIDE DEF u
    <3> QED
      BY <2>1
  <2>3. \A j \in 1 .. Len(all) : u[j] = slash(all[j])
    <3> HIDE DEF u, slash
    <3>1. SUFFICES ASSUME NEW j \in 1 .. Len(all) PROVE u[j] = slash(all[j])
      OBVIOUS
    <3>2. j \in 1 .. Len(segs) \/ j = Len(segs) + 1
      BY <1>1
    <3>3. j \in 1 .. Len(segs) => u[j] = slash(all[j])
      BY <1>1, <2>1
    <3>4. j = Len(segs) + 1 => u[j] = slash(all[j])
      BY <1>1, <2>1
    <3> QED
      BY <3>2, <3>3, <3>4
  <2>4. [j \in 1 .. Len(u) |-> u[j]] = [j \in 1 .. Len(all) |-> slash(all[j])]
    <3> HIDE DEF u, slash
    <3> QED
      BY <1>1, <2>1, <2>3
  <2> QED
    BY <2>2, <2>4
<1>5. slash(x) \in Seq(X)
  BY <1>2
<1>6. FlattenSeq(Append(with(segs), slash(x))) = FlattenSeq(with(segs)) \o slash(x)
  <2> DEFINE w == with(segs)
  <2>1. w \in Seq(Seq(X))
    BY <1>3
  <2> HIDE DEF w, slash
  <2>2. FlattenSeq(Append(w, slash(x))) = FlattenSeq(w) \o slash(x)
    BY <1>5, <2>1, FlattenAppend
  <2> QED
    BY <2>2 DEF w
<1> QED
  BY <1>4, <1>6 DEF Joined

LEMMA JoinedType ==
    ASSUME NEW X, "/" \in X
    PROVE  \A segs \in Seq(Seq(X)) : Joined(segs) \in Seq(X)
<1> DEFINE Y == Seq(X)
           S == {s \in Seq(Y) : Joined(s) \in Seq(X)}
<1>1. <<>> \in S
  <2>1. <<>> \in Seq(X) /\ <<>> \in Seq(Y)
    OBVIOUS
  <2> QED
    BY <2>1, JoinedEmpty
<1>2. ASSUME NEW s \in Seq(Y), s # <<>>, \A t \in Seq(Y) : Len(t) < Len(s) => t \in S
      PROVE  s \in S
  <2>1. PICK t \in Seq(Y), x \in Y : s = Append(t, x)
    BY <1>2, SequenceEmptyOrAppend
  <2>2. Len(t) < Len(s)
    BY <2>1
  <2>3. Joined(t) \in Seq(X) /\ <<"/">> \o x \in Seq(X)
    BY <1>2, <2>1, <2>2, ConsType
  <2>4. Joined(s) = Joined(t) \o (<<"/">> \o x)
    BY <2>1, JoinedAppend
  <2> QED
    BY <1>2, <2>3, <2>4, ConcatProperties
<1> HIDE DEF S, Y
<1>3. \A s \in Seq(Y) : s \in S
  BY <1>1, <1>2, TextInduction
<1> QED
  BY <1>3 DEF S, Y

LEMMA JoinedCons ==
    ASSUME NEW X, "/" \in X, NEW x \in Seq(X)
    PROVE  \A segs \in Seq(Seq(X)) : Joined(<<x>> \o segs) = <<"/">> \o (x \o Joined(segs))
<1> DEFINE Y == Seq(X)
           S == {s \in Seq(Y) : Joined(<<x>> \o s) = <<"/">> \o (x \o Joined(s))}
<1>1. <<>> \in S
  <2>1. <<x>> \o <<>> = Append(<<>>, x) /\ x \o <<>> = x
    BY ConcatEmptySeq, AppendIsConcat, <<>> \in Seq(Y)
  <2>2. Joined(Append(<<>>, x)) = Joined(<<>>) \o (<<"/">> \o x)
    BY JoinedAppend, <<>> \in Seq(Y)
  <2>3. <<>> \o (<<"/">> \o x) = <<"/">> \o x
    BY ConsType, ConcatEmptySeq
  <2>4. Joined(<<x>> \o <<>>) = <<"/">> \o x
    BY <2>1, <2>2, <2>3, JoinedEmpty
  <2>5. <<"/">> \o (x \o Joined(<<>>)) = <<"/">> \o x
    BY <2>1, JoinedEmpty
  <2>6. <<>> \in Seq(Y)
    OBVIOUS
  <2> QED
    BY <2>4, <2>5, <2>6
<1>2. ASSUME NEW s \in Seq(Y), s # <<>>, \A t \in Seq(Y) : Len(t) < Len(s) => t \in S
      PROVE  s \in S
  <2>1. PICK t \in Seq(Y), y \in Y : s = Append(t, y)
    BY <1>2, SequenceEmptyOrAppend
  <2>2. Len(t) < Len(s)
    BY <2>1
  <2> DEFINE sy == <<"/">> \o y
  <2>3. Joined(t) \in Seq(X) /\ sy \in Seq(X) /\ <<"/">> \in Seq(X)
    BY ConsType, JoinedType
  <2>4. Joined(s) = Joined(t) \o sy
    BY <2>1, JoinedAppend
  <2>5. <<x>> \o s = Append(<<x>> \o t, y)
    <3>1. <<x>> \in Seq(Y) /\ <<y>> \in Seq(Y)
      OBVIOUS
    <3>2. s = t \o <<y>> /\ (<<x>> \o t) \o <<y>> = <<x>> \o (t \o <<y>>) /\ <<x>> \o t \in Seq(Y)
      BY <2>1, <3>1, AppendIsConcat, ConcatAssociative, ConcatProperties
    <3> QED
      BY <3>2, AppendIsConcat
  <2>6. <<x>> \o t \in Seq(Y)
    BY ConsType
  <2>7. Joined(<<x>> \o s) = Joined(<<x>> \o t) \o sy
    BY <2>5, <2>6, JoinedAppend
  <2>8. Joined(<<x>> \o t) = <<"/">> \o (x \o Joined(t))
    BY <1>2, <2>2
  <2> HIDE DEF sy
  <2>9. (<<"/">> \o (x \o Joined(t))) \o sy = <<"/">> \o (x \o (Joined(t) \o sy))
    <3>1. x \o Joined(t) \in Seq(X)
      BY <2>3, ConcatProperties
    <3>2. (<<"/">> \o (x \o Joined(t))) \o sy = <<"/">> \o ((x \o Joined(t)) \o sy)
      BY <2>3, <3>1, ConcatAssociative
    <3>3. (x \o Joined(t)) \o sy = x \o (Joined(t) \o sy)
      BY <2>3, ConcatAssociative, SMTT(30)
    <3> QED
      BY <3>2, <3>3
  <2> QED
    BY <1>2, <2>4, <2>7, <2>8, <2>9
<1> HIDE DEF S, Y
<1>3. \A s \in Seq(Y) : s \in S
  BY <1>1, <1>2, TextInduction
<1> QED
  BY <1>3 DEF S, Y

(* A text is its parts again, and parts without a separator are found again.  *)
LEMMA JoinedSplit ==
    ASSUME NEW X, "/" \in X
    PROVE  \A s \in Seq(X) : Joined(Split(s, "/")) = <<"/">> \o s
<1> DEFINE Y == Seq(X)
           Z == Seq(X \ {"/"})
           S == {s \in Y : Joined(Split(s, "/")) = <<"/">> \o s}
<1>0. Z \subseteq Y /\ \A s \in Seq(Z) : s \in Seq(Y)
  <2>1. Z \subseteq Y
    BY SeqMonotonic
  <2> QED
    BY <2>1, SeqMonotonic
<1>1. <<>> \in S
  <2>1. <<>> \in Y /\ <<>> \in Seq(Y)
    OBVIOUS
  <2>2. Joined(<< <<>> >> \o <<>>) = <<"/">> \o (<<>> \o Joined(<<>>))
    BY <2>1, JoinedCons
  <2>3. << <<>> >> \o <<>> = << <<>> >> /\ <<>> \o <<>> = <<>>
    BY <2>1, ConcatEmptySeq, << <<>> >> \in Seq(Y)
  <2> QED
    BY <2>1, <2>2, <2>3, SplitEmpty, JoinedEmpty
<1>2. ASSUME NEW s \in Y, s # <<>>, \A t \in Y : Len(t) < Len(s) => t \in S
      PROVE  s \in S
  <2> DEFINE parts == Split(Tail(s), "/")
             head == <<s[1]>> \o Head(parts)
  <2>1. s[1] \in X /\ Tail(s) \in Seq(X) /\ Len(Tail(s)) < Len(s) /\ s = <<s[1]>> \o Tail(s)
    BY <1>2, Uncons
  <2>2. parts \in Seq(Y) /\ parts # <<>>
    BY <1>0, <2>1, SplitParts
  <2>3. Joined(parts) = <<"/">> \o Tail(s)
    BY <1>2, <2>1
  <2>4. Split(s, "/") = IF s[1] = "/" THEN << <<>> >> \o parts ELSE <<head>> \o Tail(parts)
    BY <1>2, SplitUnfolds
  <2> HIDE DEF parts
  <2>5. CASE s[1] = "/"
    <3>1. Joined(<< <<>> >> \o parts) = <<"/">> \o (<<>> \o Joined(parts))
      BY <2>2, JoinedCons, <<>> \in Seq(X)
    <3>2. <<>> \o Joined(parts) = s
      BY <2>1, <2>2, <2>3, <2>5, JoinedType, ConcatEmptySeq
    <3> QED
      BY <2>4, <2>5, <3>1, <3>2
  <2>6. CASE s[1] # "/"
    <3>1. Head(parts) \in Seq(X) /\ Tail(parts) \in Seq(Y)
      BY <2>2, HeadTailProperties
    <3>2. parts = <<Head(parts)>> \o Tail(parts)
      BY <2>2, Uncons
    <3>3. Joined(parts) = <<"/">> \o (Head(parts) \o Joined(Tail(parts)))
      BY <3>1, <3>2, JoinedCons
    <3>4. Joined(Tail(parts)) \in Seq(X)
      BY <3>1, JoinedType
    <3>5. Head(parts) \o Joined(Tail(parts)) = Tail(s)
      <4>1. Head(parts) \o Joined(Tail(parts)) \in Seq(X)
        BY <3>1, <3>4, ConcatProperties
      <4>2. Tail(<<"/">> \o (Head(parts) \o Joined(Tail(parts)))) = Head(parts) \o Joined(Tail(parts))
        BY <4>1, ConsTail
      <4>3. Tail(<<"/">> \o Tail(s)) = Tail(s)
        BY <2>1, ConsTail
      <4> QED
        BY <2>3, <3>3, <4>2, <4>3
    <3>6. head \in Seq(X) /\ head \o Joined(Tail(parts)) = s
      <4>1. head \in Seq(X)
        BY <2>1, <3>1, ConsType
      <4>2. head \o Joined(Tail(parts)) = <<s[1]>> \o (Head(parts) \o Joined(Tail(parts)))
        <5> DEFINE first == Head(parts)
                   others == Joined(Tail(parts))
        <5>1. s[1] \in X /\ first \in Seq(X) /\ others \in Seq(X)
          BY <2>1, <3>1, <3>4
        <5> HIDE DEF first, others
        <5>2. (<<s[1]>> \o first) \o others = <<s[1]>> \o (first \o others)
          BY <5>1, ConsConcat
        <5> QED
          BY <5>2 DEF first, others
      <4> QED
        BY <2>1, <3>5, <4>1, <4>2
    <3> HIDE DEF head
    <3>7. Joined(<<head>> \o Tail(parts)) = <<"/">> \o (head \o Joined(Tail(parts)))
      BY <3>1, <3>6, JoinedCons
    <3> QED
      BY <2>4, <2>6, <3>6, <3>7
  <2> QED
    BY <2>5, <2>6
<1> HIDE DEF S
<1>3. \A s \in Y : s \in S
  BY <1>1, <1>2, TextInduction
<1> QED
  BY <1>3 DEF S

LEMMA SplitJoined ==
    ASSUME NEW X, "/" \in X
    PROVE  \A segs \in Seq(Seq(X \ {"/"})) : segs # <<>> =>
              /\ Joined(segs) \in Seq(X) /\ Joined(segs)[1] = "/" /\ Joined(segs) # <<>>
              /\ Split(Tail(Joined(segs)), "/") = segs
<1> DEFINE Y == Seq(X)
           Z == Seq(X \ {"/"})
           Good(segs) == /\ Joined(segs) \in Seq(X) /\ Joined(segs)[1] = "/" /\ Joined(segs) # <<>>
                         /\ Split(Tail(Joined(segs)), "/") = segs
           S == {s \in Seq(Z) : s # <<>> => Good(s)}
<1>0. Z \subseteq Y /\ \A s \in Seq(Z) : s \in Seq(Y)
  <2>1. Z \subseteq Y
    BY SeqMonotonic
  <2> QED
    BY <2>1, SeqMonotonic
<1>1. <<>> \in S
  OBVIOUS
<1>2. ASSUME NEW s \in Seq(Z), s # <<>>, \A t \in Seq(Z) : Len(t) < Len(s) => t \in S
      PROVE  s \in S
  <2> DEFINE x == s[1]
             t == Tail(s)
  <2>1. x \in Z /\ t \in Seq(Z) /\ Len(t) < Len(s) /\ s = <<x>> \o t /\ x \in Y /\ t \in Seq(Y)
    BY <1>0, <1>2, Uncons
  <2> HIDE DEF x, t
  <2>2. Joined(s) = <<"/">> \o (x \o Joined(t)) /\ Joined(t) \in Seq(X) /\ x \o Joined(t) \in Seq(X)
    BY <2>1, JoinedCons, JoinedType, ConcatProperties
  <2>3. /\ Joined(s) \in Seq(X) /\ Joined(s)[1] = "/" /\ Joined(s) # <<>>
        /\ Tail(Joined(s)) = x \o Joined(t)
    BY <2>2, ConsType, ConsTail
  <2>4. CASE t = <<>>
    <3>1. x \o Joined(t) = x /\ s = <<x>>
      BY <2>1, <2>4, JoinedEmpty, ConcatEmptySeq, <<x>> \in Seq(Y)
    <3>2. Split(x, "/") = <<x>>
      BY <2>1, SplitOne
    <3> QED
      BY <1>2, <2>3, <3>1, <3>2
  <2>5. CASE t # <<>>
    <3>1. Good(t)
      <4>1. t \in S
        BY <1>2, <2>1
      <4> QED
        BY <2>5, <4>1
    <3> DEFINE u == Tail(Joined(t))
    <3>2. u \in Seq(X) /\ Joined(t) = <<"/">> \o u
      BY <3>1, Uncons
    <3> HIDE DEF u
    <3>3. Split(x \o (<<"/">> \o u), "/") = <<x>> \o Split(u, "/")
      BY <2>1, <3>2, SplitFirst
    <3>4. Split(u, "/") = t
      BY <3>1 DEF u
    <3> QED
      BY <1>2, <2>1, <2>3, <3>2, <3>3, <3>4
  <2> QED
    BY <2>4, <2>5
<1> HIDE DEF S, Good, Z
<1>3. \A s \in Seq(Z) : s \in S
  BY <1>1, <1>2, TextInduction
<1> QED
  BY <1>3 DEF S, Good, Z

---------------------------------------------------------------------------
(* What an escape is made of *)

Written == Unreserved \cup {"%"}

LEMMA Alphabet ==
    /\ HexDigits \subseteq Unreserved /\ Digits \subseteq HexDigits
    /\ "%" \notin Unreserved /\ "/" \notin Written /\ ":" \notin Written /\ "*" \notin Written
    /\ Written \subseteq Chars /\ "/" \in Chars /\ "%" \in Chars /\ ":" \in Chars /\ "*" \in Chars
    /\ "2" \in HexDigits /\ "F" \in HexDigits /\ "f" \in HexDigits
BY DEF HexDigits, Unreserved, Identifier, Digits, Written, Chars, Hex

LEMMA HexOf ==
    ASSUME NEW c \in DOMAIN Hex
    PROVE  /\ Hex[c] = <<Hex[c][1], Hex[c][2]>>
           /\ Hex[c][1] \in HexDigits /\ Hex[c][2] \in HexDigits
<1>1. c \in {"/", "%", ":", "*"}
  BY DEF Hex
<1>2. CASE c = "/"
  BY <1>2 DEF Hex, HexDigits, Digits
<1>3. CASE c = "%"
  BY <1>3 DEF Hex, HexDigits, Digits
<1>4. CASE c = ":"
  BY <1>4 DEF Hex, HexDigits, Digits
<1>5. CASE c = "*"
  BY <1>5 DEF Hex, HexDigits, Digits
<1> QED
  BY <1>1, <1>2, <1>3, <1>4, <1>5

LEMMA ValidConcat ==
    ASSUME NEW X, NEW a \in Seq(X), NEW b \in Seq(X), Valid(a), Valid(b)
    PROVE  Valid(a \o b)
<1> DEFINE s == a \o b
<1>1. /\ s \in Seq(X) /\ Len(s) = Len(a) + Len(b) /\ Len(a) \in Nat /\ Len(b) \in Nat
      /\ \A i \in 1 .. Len(a) + Len(b) : s[i] = IF i <= Len(a) THEN a[i] ELSE b[i - Len(a)]
      /\ DOMAIN s = 1 .. Len(s) /\ DOMAIN a = 1 .. Len(a) /\ DOMAIN b = 1 .. Len(b)
  BY ConcatProperties
<1> HIDE DEF s
<1>2. ASSUME NEW i \in DOMAIN s, s[i] = "%"
      PROVE  i + 2 <= Len(s) /\ s[i + 1] \in HexDigits /\ s[i + 2] \in HexDigits
  <2>1. CASE i <= Len(a)
    <3>1. i \in DOMAIN a /\ a[i] = "%"
      BY <1>1, <1>2, <2>1
    <3>2. i + 2 <= Len(a) /\ a[i + 1] \in HexDigits /\ a[i + 2] \in HexDigits
      BY <3>1 DEF Valid
    <3>3. s[i + 1] = a[i + 1] /\ s[i + 2] = a[i + 2]
      BY <1>1, <3>1, <3>2
    <3> QED
      BY <1>1, <3>2, <3>3
  <2>2. CASE i > Len(a)
    <3> DEFINE j == i - Len(a)
    <3>1. j \in DOMAIN b /\ b[j] = "%"
      BY <1>1, <1>2, <2>2
    <3>2. j + 2 <= Len(b) /\ b[j + 1] \in HexDigits /\ b[j + 2] \in HexDigits
      BY <3>1 DEF Valid
    <3>3. i + 1 - Len(a) = j + 1 /\ i + 2 - Len(a) = j + 2 /\ i + 2 <= Len(s)
      BY <1>1, <3>1, <3>2
    <3> HIDE DEF j
    <3>4. s[i + 1] = b[j + 1] /\ s[i + 2] = b[j + 2]
      BY <1>1, <2>2, <3>1, <3>2, <3>3, SMTT(30)
    <3> QED
      BY <3>2, <3>3, <3>4
  <2> QED
    BY <1>1, <2>1, <2>2
<1> QED
  BY <1>2 DEF Valid, s

(* Both ways to write a character: itself, or "%" and two digits.             *)
LEMMA CharWritten ==
    ASSUME NEW c \in Unreserved
    PROVE  <<c>> \in Seq(Written) /\ Valid(<<c>>) /\ <<c>> # <<>> /\ Len(<<c>>) = 1 /\ <<c>>[1] = c
<1>1. c # "%" /\ c \in Written /\ DOMAIN <<c>> = {1} /\ <<c>>[1] = c
  BY Alphabet DEF Written
<1> QED
  BY <1>1 DEF Valid

LEMMA EscapeWritten ==
    ASSUME NEW hi \in HexDigits, NEW lo \in HexDigits
    PROVE  /\ <<"%", hi, lo>> \in Seq(Written) /\ Valid(<<"%", hi, lo>>) /\ <<"%", hi, lo>> # <<>>
           /\ Len(<<"%", hi, lo>>) = 3
<1> DEFINE s == <<"%", hi, lo>>
<1>1. /\ s \in Seq(Written) /\ Len(s) = 3 /\ s[1] = "%" /\ s[2] = hi /\ s[3] = lo
      /\ hi # "%" /\ lo # "%" /\ DOMAIN s = 1 .. 3
  <2>1. hi \in Written /\ lo \in Written /\ "%" \in Written /\ hi # "%" /\ lo # "%"
    BY Alphabet DEF Written
  <2> QED
    BY <2>1
<1> HIDE DEF s
<1>2. Valid(s)
  <2> SUFFICES ASSUME NEW i \in DOMAIN s, s[i] = "%"
               PROVE  i + 2 <= Len(s) /\ s[i + 1] \in HexDigits /\ s[i + 2] \in HexDigits
    BY DEF Valid
  <2>1. i = 1
    BY <1>1
  <2> QED
    BY <1>1, <2>1
<1>3. s # <<>>
  BY <1>1, EmptySeq, 3 # 0
<1> QED
  BY <1>1, <1>2, <1>3 DEF s

LEMMA PercentHex ==
    ASSUME NEW hi, NEW lo
    PROVE  <<"%">> \o <<hi, lo>> = <<"%", hi, lo>>
<1> DEFINE X == {"%", hi, lo}
           b == <<hi, lo>>
           s == <<"%">> \o b
           u == <<"%", hi, lo>>
<1>1. b \in Seq(X) /\ Len(b) = 2 /\ b[1] = hi /\ b[2] = lo
  OBVIOUS
<1>2. u \in Seq(X) /\ Len(u) = 3 /\ u[1] = "%" /\ u[2] = hi /\ u[3] = lo
  OBVIOUS
<1> HIDE DEF b, u
<1>3. /\ <<"%">> \in Seq(X) /\ Len(<<"%">>) = 1 /\ <<"%">>[1] = "%"
  OBVIOUS
<1>4. s \in Seq(X) /\ Len(s) = 3 /\ s[1] = "%" /\ s[2] = b[1] /\ s[3] = b[2]
  <2>1. /\ s \in Seq(X) /\ Len(s) = 1 + 2
        /\ \A i \in 1 .. 1 + 2 : s[i] = IF i <= 1 THEN <<"%">>[i] ELSE b[i - 1]
    <3> DEFINE a == <<"%">>
    <3>1. a \in Seq(X) /\ Len(a) = 1
      BY <1>3
    <3> HIDE DEF a
    <3>2. /\ a \o b \in Seq(X) /\ Len(a \o b) = 1 + 2
          /\ \A i \in 1 .. 1 + 2 : (a \o b)[i] = IF i <= 1 THEN a[i] ELSE b[i - 1]
      <4>1. /\ a \o b \in Seq(X) /\ Len(a \o b) = Len(a) + Len(b)
            /\ \A i \in 1 .. Len(a) + Len(b) : (a \o b)[i] = IF i <= Len(a) THEN a[i] ELSE b[i - Len(a)]
        <5> HIDE DEF X
        <5>1. a \in Seq(X) /\ b \in Seq(X)
          BY <1>1, <3>1
        <5> QED
          BY <5>1, ConcatProperties
      <4> QED
        BY <1>1, <3>1, <4>1
    <3> QED
      BY <3>2 DEF a
  <2> HIDE DEF s
  <2>2. s[1] = <<"%">>[1] /\ s[2] = b[2 - 1] /\ s[3] = b[3 - 1]
    BY <2>1
  <2> QED
    BY <1>3, <2>1, <2>2, 2 - 1 = 1, 3 - 1 = 2
<1> HIDE DEF s
<1>5. \A i \in 1 .. 3 : s[i] = u[i]
  <2>1. \A i \in 1 .. 3 : i = 1 \/ i = 2 \/ i = 3
    OBVIOUS
  <2> QED
    BY <1>1, <1>2, <1>4, <2>1
<1>6. s = u
  BY <1>2, <1>4, <1>5, SeqEqual
<1> QED
  BY <1>6 DEF s, u, b

LEMMA EscapeType ==
    ASSUME NEW mode
    PROVE  \A s \in Seq(Chars) : /\ Escape(s, mode) \in Seq(Written) /\ Valid(Escape(s, mode))
                                 /\ s # <<>> => Escape(s, mode) # <<>>
<1> DEFINE Good(w) == w \in Seq(Written) /\ Valid(w)
           S == {s \in Seq(Chars) : Good(Escape(s, mode)) /\ (s # <<>> => Escape(s, mode) # <<>>)}
<1>0. \A a, b : Good(a) /\ a # <<>> /\ Good(b) => Good(a \o b) /\ a \o b # <<>>
  BY ValidConcat, ConcatProperties, ConcatEqualIffEmpty
<1>1. <<>> \in S
  <2>1. <<>> \in Seq(Chars) /\ <<>> \in Seq(Written) /\ DOMAIN <<>> = {}
    OBVIOUS
  <2> QED
    BY <2>1, EscapeEmpty DEF Valid
<1>2. ASSUME NEW s \in Seq(Chars), s # <<>>, \A t \in Seq(Chars) : Len(t) < Len(s) => t \in S
      PROVE  s \in S
  <2>1. s[1] \in Chars /\ Tail(s) \in Seq(Chars) /\ Len(Tail(s)) = Len(s) - 1 /\ Len(s) \in Nat \ {0}
    BY <1>2, Uncons
  <2>2. CASE mode = "multi" /\ IsHexSlash(s, 1)
    <3> DEFINE t == Tail(Tail(Tail(s)))
    <3>1. t \in Seq(Chars) /\ Len(t) < Len(s)
      <4>1. Len(s) >= 3
        BY <2>2 DEF IsHexSlash
      <4>2. Tail(s) # <<>>
        <5>1. Len(Tail(s)) # 0
          BY <2>1, <4>1
        <5> QED
          BY <2>1, <5>1, EmptySeq
      <4>3. Tail(Tail(s)) \in Seq(Chars) /\ Len(Tail(Tail(s))) = Len(Tail(s)) - 1 /\ Tail(Tail(s)) # <<>>
        <5>1. Tail(Tail(s)) \in Seq(Chars) /\ Len(Tail(Tail(s))) = Len(Tail(s)) - 1
          BY <2>1, <4>2, Uncons
        <5> QED
          BY <2>1, <4>1, <5>1, EmptySeq
      <4>4. t \in Seq(Chars) /\ Len(t) = Len(Tail(Tail(s))) - 1
        BY <4>3, Uncons
      <4> QED
        BY <2>1, <4>1, <4>3, <4>4
    <3>2. Good(Escape(t, mode))
      BY <1>2, <3>1
    <3> HIDE DEF t
    <3>3. Escape(s, mode) = <<"%", "2", "F">> \o Escape(t, mode)
      BY <1>2, <2>2, EscapeUnfolds DEF t
    <3>4. Good(<<"%", "2", "F">>) /\ <<"%", "2", "F">> # <<>>
      BY EscapeWritten, Alphabet
    <3> HIDE DEF Good
    <3>5. Good(<<"%", "2", "F">> \o Escape(t, mode)) /\ <<"%", "2", "F">> \o Escape(t, mode) # <<>>
      BY <1>0, <3>2, <3>4
    <3> QED
      BY <3>3, <3>5
  <2>3. CASE ~(mode = "multi" /\ IsHexSlash(s, 1))
    <3> DEFINE first == IF s[1] \in Unreserved THEN <<s[1]>> ELSE <<"%">> \o Hex[s[1]]
    <3>1. Good(Escape(Tail(s), mode))
      <4>1. Len(Tail(s)) < Len(s)
        BY <2>1
      <4>2. Tail(s) \in S
        BY <1>2, <2>1, <4>1
      <4> QED
        BY <4>2
    <3>2. Escape(s, mode) = first \o Escape(Tail(s), mode)
      BY <1>2, <2>3, EscapeUnfolds
    <3>3. Good(first) /\ first # <<>>
      <4>1. CASE s[1] \in Unreserved
        BY <4>1, CharWritten
      <4>2. CASE s[1] \notin Unreserved
        <5>1. s[1] \in DOMAIN Hex
          BY <2>1, <4>2 DEF Chars
        <5> DEFINE hi == Hex[s[1]][1]
                   lo == Hex[s[1]][2]
        <5>2. hi \in HexDigits /\ lo \in HexDigits /\ Hex[s[1]] = <<hi, lo>>
          BY <5>1, HexOf
        <5> HIDE DEF hi, lo
        <5>3. <<"%">> \o <<hi, lo>> = <<"%", hi, lo>>
          BY PercentHex
        <5>4. first = <<"%", hi, lo>>
          BY <4>2, <5>2, <5>3
        <5> QED
          BY <5>2, <5>4, EscapeWritten
      <4> QED
        BY <4>1, <4>2
    <3> HIDE DEF Good, first
    <3>4. Good(first \o Escape(Tail(s), mode)) /\ first \o Escape(Tail(s), mode) # <<>>
      BY <1>0, <3>1, <3>3
    <3> QED
      BY <3>2, <3>4
  <2> QED
    BY <2>2, <2>3
<1> HIDE DEF S
<1>3. \A s \in Seq(Chars) : s \in S
  BY <1>1, <1>2, TextInduction
<1> QED
  BY <1>3 DEF S

---------------------------------------------------------------------------
(* Texts in pieces: a character, or "%" and two digits *)

Code(hi, lo) == <<"%", hi, lo>>
Cut(s, hi, lo, t) == s[1] = "%" /\ s[2] = hi /\ s[3] = lo /\ Tail(Tail(Tail(s))) = t
Coded(hi, lo, t) == Cons("%", Cons(hi, Cons(lo, t)))

LEMMA ConsIs ==
    ASSUME NEW X, NEW c \in X, NEW t \in Seq(X)
    PROVE  /\ Cons(c, t) \in Seq(X) /\ Cons(c, t) # <<>> /\ Len(Cons(c, t)) = Len(t) + 1
           /\ Cons(c, t)[1] = c /\ Tail(Cons(c, t)) = t
<1>1. <<c>> \o t \in Seq(X) /\ <<c>> \o t # <<>> /\ Len(<<c>> \o t) = Len(t) + 1
  BY ConsType
<1>2. (<<c>> \o t)[1] = c /\ Tail(<<c>> \o t) = t
  BY ConsTail
<1> QED
  BY <1>1, <1>2 DEF Cons

LEMMA CodeIs ==
    ASSUME NEW X, "%" \in X, NEW hi \in X, NEW lo \in X
    PROVE  /\ Code(hi, lo) \in Seq(X) /\ Len(Code(hi, lo)) = 3
           /\ Code(hi, lo)[1] = "%" /\ Code(hi, lo)[2] = hi /\ Code(hi, lo)[3] = lo
<1> DEFINE w == <<"%", hi, lo>>
<1>1. w \in Seq(X) /\ Len(w) = 3 /\ w[1] = "%" /\ w[2] = hi /\ w[3] = lo
  OBVIOUS
<1> QED
  BY <1>1 DEF Code

LEMMA PercentChar == "%" \in Chars
BY Alphabet

LEMMA CodeThen ==
    ASSUME NEW hi \in Chars, NEW lo \in Chars, NEW t \in Seq(Chars)
    PROVE  Code(hi, lo) \o t = Coded(hi, lo, t)
<1> DEFINE t1 == Cons(lo, t)
           t2 == Cons(hi, t1)
           u == Cons("%", t2)
           w == Code(hi, lo)
<1>1. w \in Seq(Chars) /\ Len(w) = 3 /\ w[1] = "%" /\ w[2] = hi /\ w[3] = lo
  BY PercentChar, CodeIs
<1>2. /\ t1 \in Seq(Chars) /\ Len(t1) = Len(t) + 1 /\ t1[1] = lo /\ Tail(t1) = t
  BY PercentChar, ConsIs
<1> HIDE DEF t1
<1>3. t2 \in Seq(Chars) /\ Len(t2) = Len(t1) + 1 /\ t2[1] = hi /\ Tail(t2) = t1
  BY <1>2, PercentChar, ConsIs
<1> HIDE DEF t2
<1>4. u \in Seq(Chars) /\ Len(u) = Len(t2) + 1 /\ u[1] = "%" /\ Tail(u) = t2
  BY <1>3, PercentChar, ConsIs
<1> HIDE DEF u, w
<1>5. /\ w \o t \in Seq(Chars) /\ Len(w \o t) = 3 + Len(t) /\ Len(t) \in Nat
      /\ \A i \in 1 .. 3 + Len(t) : (w \o t)[i] = IF i <= 3 THEN w[i] ELSE t[i - 3]
  <2>1. /\ w \o t \in Seq(Chars) /\ Len(w \o t) = Len(w) + Len(t)
        /\ \A i \in 1 .. Len(w) + Len(t) : (w \o t)[i] = IF i <= Len(w) THEN w[i] ELSE t[i - Len(w)]
    BY <1>1, ConcatProperties
  <2> QED
    BY <1>1, <2>1
<1>6. /\ Len(u) = 3 + Len(t) /\ u[1] = "%" /\ u[2] = hi /\ u[3] = lo
      /\ \A i \in 1 .. Len(t) : u[i + 3] = t[i]
  <2>1. \A i \in 1 .. Len(t2) : u[i + 1] = t2[i]
    BY <1>4
  <2>2. \A i \in 1 .. Len(t1) : t2[i + 1] = t1[i]
    BY <1>3
  <2>3. \A i \in 1 .. Len(t) : t1[i + 1] = t[i]
    BY <1>2
  <2>4. Len(u) = 3 + Len(t) /\ Len(t1) = Len(t) + 1 /\ Len(t2) = Len(t) + 2 /\ Len(t) \in Nat
    BY <1>2, <1>3, <1>4, <1>5
  <2>5. u[2] = t2[1] /\ u[3] = t2[2] /\ t2[2] = t1[1]
    BY <2>1, <2>2, <2>4, 1 + 1 = 2, 2 + 1 = 3
  <2>6. ASSUME NEW i \in 1 .. Len(t) PROVE u[i + 3] = t[i]
    <3>1. i + 1 \in 1 .. Len(t1) /\ i + 1 + 1 \in 1 .. Len(t2) /\ i + 1 + 1 + 1 = i + 3
      BY <2>4
    <3> QED
      BY <2>1, <2>2, <2>3, <3>1
  <2> QED
    BY <1>2, <1>3, <1>4, <2>4, <2>5, <2>6
<1>7. \A i \in 1 .. 3 + Len(t) : (w \o t)[i] = u[i]
  <2> SUFFICES ASSUME NEW i \in 1 .. 3 + Len(t) PROVE (w \o t)[i] = u[i]
    OBVIOUS
  <2>1. CASE i <= 3
    <3>1. i = 1 \/ i = 2 \/ i = 3
      BY <2>1
    <3> QED
      BY <1>1, <1>5, <1>6, <3>1
  <2>2. CASE i > 3
    <3>1. i - 3 \in 1 .. Len(t) /\ i - 3 + 3 = i
      BY <1>5, <2>2
    <3>2. u[i - 3 + 3] = t[i - 3] /\ (w \o t)[i] = t[i - 3]
      BY <1>5, <1>6, <2>2, <3>1
    <3> QED
      BY <3>1, <3>2
  <2> QED
    BY <1>5, <2>1, <2>2
<1>8. w \o t = u
  BY <1>4, <1>5, <1>6, <1>7, SeqEqual
<1> QED
  BY <1>8 DEF u, t1, t2, w, Coded

LEMMA CodeType ==
    ASSUME NEW hi \in Chars, NEW lo \in Chars, NEW t \in Seq(Chars)
    PROVE  /\ Code(hi, lo) \o t \in Seq(Chars) /\ Len(Code(hi, lo) \o t) = Len(t) + 3
           /\ Code(hi, lo) \o t # <<>>
<1> DEFINE w == Code(hi, lo)
<1>1. w \in Seq(Chars) /\ Len(w) = 3
  BY PercentChar, CodeIs
<1> HIDE DEF w
<1>2. w \o t \in Seq(Chars) /\ Len(w \o t) = Len(w) + Len(t) /\ Len(t) \in Nat
  <2>1. w \in Seq(Chars) /\ t \in Seq(Chars)
    BY <1>1
  <2> QED
    BY <2>1, ConcatProperties
<1>3. Len(w \o t) = Len(t) + 3 /\ Len(w \o t) # 0
  BY <1>1, <1>2
<1>4. w \o t # <<>>
  BY <1>2, <1>3, EmptySeq
<1> QED
  BY <1>2, <1>3, <1>4 DEF w

LEMMA CodeTail ==
    ASSUME NEW hi \in Chars, NEW lo \in Chars, NEW t \in Seq(Chars)
    PROVE  Cut(Code(hi, lo) \o t, hi, lo, t)
<1> DEFINE s == Code(hi, lo) \o t
           t1 == Cons(lo, t)
           t2 == Cons(hi, t1)
           u == Cons("%", t2)
           w == Code(hi, lo)
<1>1. t1 \in Seq(Chars) /\ Tail(t1) = t
  BY PercentChar, ConsIs
<1> HIDE DEF t1
<1>2. t2 \in Seq(Chars) /\ Tail(t2) = t1
  BY <1>1, PercentChar, ConsIs
<1> HIDE DEF t2
<1>3. u \in Seq(Chars) /\ Tail(u) = t2
  BY <1>2, PercentChar, ConsIs
<1> HIDE DEF u
<1>4. s = u
  <2>1. Code(hi, lo) \o t = Coded(hi, lo, t)
    BY CodeThen
  <2> QED
    BY <2>1 DEF u, t2, t1, Coded
<1>5. w \in Seq(Chars) /\ Len(w) = 3 /\ w[1] = "%" /\ w[2] = hi /\ w[3] = lo
  BY PercentChar, CodeIs
<1>6. s = w \o t
  OBVIOUS
<1> HIDE DEF w, s
<1>7. \A i \in 1 .. Len(w) + Len(t) : s[i] = IF i <= Len(w) THEN w[i] ELSE t[i - Len(w)]
  <2>1. w \in Seq(Chars) /\ t \in Seq(Chars)
    BY <1>5
  <2>2. \A i \in 1 .. Len(w) + Len(t) : (w \o t)[i] = IF i <= Len(w) THEN w[i] ELSE t[i - Len(w)]
    BY <2>1, ConcatProperties
  <2> QED
    BY <1>6, <2>2
<1>8. Len(t) \in Nat
  OBVIOUS
<1>9. s[1] = w[1] /\ s[2] = w[2] /\ s[3] = w[3]
  <2>1. Len(w) = 3 /\ 1 \in 1 .. 3 + Len(t) /\ 2 \in 1 .. 3 + Len(t) /\ 3 \in 1 .. 3 + Len(t)
    BY <1>5, <1>8
  <2>2. \A i \in 1 .. 3 + Len(t) : i <= 3 => s[i] = w[i]
    BY <1>7, <2>1
  <2>3. 1 <= 3 /\ 2 <= 3 /\ 3 <= 3
    OBVIOUS
  <2> QED
    BY <2>1, <2>2, <2>3, Zenon
<1> QED
  <2>1. Cut(s, hi, lo, t)
    BY <1>1, <1>2, <1>3, <1>4, <1>5, <1>9 DEF Cut
  <2> QED
    BY <2>1 DEF s

LEMMA Uncode ==
    ASSUME NEW s \in Seq(Chars), Len(s) >= 3, s[1] = "%"
    PROVE  /\ Tail(Tail(Tail(s))) \in Seq(Chars) /\ Len(Tail(Tail(Tail(s)))) = Len(s) - 3
           /\ s[2] \in Chars /\ s[3] \in Chars
           /\ s = Code(s[2], s[3]) \o Tail(Tail(Tail(s)))
<1> DEFINE t1 == Tail(s)
           t2 == Tail(t1)
           t3 == Tail(t2)
<1>0. Len(s) \in Nat /\ s # <<>>
  BY EmptySeq
<1>1. /\ s[1] \in Chars /\ t1 \in Seq(Chars) /\ Len(t1) = Len(s) - 1 /\ s = Cons(s[1], t1)
      /\ \A i \in 1 .. Len(t1) : t1[i] = s[i + 1]
  BY <1>0, Uncons DEF Cons
<1> HIDE DEF t1
<1>2. t1 # <<>>
  <2>1. Len(t1) # 0
    BY <1>0, <1>1
  <2> QED
    BY <1>1, <2>1, EmptySeq
<1>3. /\ t1[1] \in Chars /\ t2 \in Seq(Chars) /\ Len(t2) = Len(t1) - 1 /\ t1 = Cons(t1[1], t2)
      /\ \A i \in 1 .. Len(t2) : t2[i] = t1[i + 1]
  BY <1>1, <1>2, Uncons DEF Cons
<1> HIDE DEF t2
<1>4. t2 # <<>>
  <2>1. Len(t2) # 0
    BY <1>0, <1>1, <1>3
  <2> QED
    BY <1>3, <2>1, EmptySeq
<1>5. t2[1] \in Chars /\ t3 \in Seq(Chars) /\ Len(t3) = Len(t2) - 1 /\ t2 = Cons(t2[1], t3)
  BY <1>3, <1>4, Uncons DEF Cons
<1>6. t1[1] = s[2] /\ t2[1] = s[3]
  <2>1. Len(t1) >= 2 /\ Len(t2) >= 1
    BY <1>0, <1>1, <1>3
  <2>2. t1[1] = s[1 + 1] /\ t1[2] = s[2 + 1] /\ t2[1] = t1[1 + 1]
    BY <1>0, <1>1, <1>3, <2>1
  <2> QED
    BY <2>2, 1 + 1 = 2, 2 + 1 = 3
<1> HIDE DEF t3
<1>7. s = Code(s[2], s[3]) \o t3
  <2>1. s[2] \in Chars /\ s[3] \in Chars
    BY <1>1, <1>3, <1>5, <1>6
  <2>2. Code(s[2], s[3]) \o t3 = Coded(s[2], s[3], t3)
    <3> DEFINE hi == s[2]
               lo == s[3]
    <3>1. t3 \in Seq(Chars) /\ "%" \in Chars /\ hi \in Chars /\ lo \in Chars
      BY <1>5, <2>1
    <3> HIDE DEF hi, lo
    <3>2. Code(hi, lo) \o t3 = Coded(hi, lo, t3)
      BY <3>1, CodeThen
    <3> QED
      BY <3>2 DEF hi, lo
  <2> QED
    BY <1>1, <1>3, <1>5, <1>6, <2>2 DEF Coded
<1>8. Len(t3) = Len(s) - 3
  BY <1>0, <1>1, <1>3, <1>5
<1>9. s[2] \in Chars /\ s[3] \in Chars
  BY <1>1, <1>3, <1>5, <1>6
<1> QED
  BY <1>5, <1>7, <1>8, <1>9 DEF t1, t2, t3

(* What the pieces of a text become, and what they are unescaped to.          *)
Decode(hi, lo, mode) ==
    IF mode = "multi" /\ hi = "2" /\ lo \in {"F", "f"} THEN Code("2", "F") ELSE <<Byte(hi, lo)>>
Decoded == Chars \cup {Byte(hi, lo) : hi, lo \in HexDigits}

LEMMA ConsThen ==
    ASSUME NEW X, NEW c \in X, NEW a \in Seq(X), NEW b \in Seq(X)
    PROVE  Cons(c, a) \o b = Cons(c, a \o b)
<1> DEFINE w == <<c>>
<1>1. w \in Seq(X)
  OBVIOUS
<1> HIDE DEF w
<1>2. (w \o a) \o b = w \o (a \o b)
  BY <1>1, ConcatAssociative
<1> QED
  BY <1>2 DEF w, Cons

LEMMA ConsValid ==
    ASSUME NEW c \in Chars, c # "%", NEW t \in Seq(Chars), Valid(t)
    PROVE  Valid(Cons(c, t)) /\ Cons(c, t) \in Seq(Chars)
<1>1. <<c>> \in Seq(Chars) /\ Valid(<<c>>)
  <2>1. DOMAIN <<c>> = {1} /\ <<c>>[1] = c
    OBVIOUS
  <2> QED
    BY <2>1 DEF Valid
<1> QED
  BY <1>1, ValidConcat, ConsIs DEF Cons

LEMMA CodeValid ==
    ASSUME NEW hi \in HexDigits, NEW lo \in HexDigits
    PROVE  /\ Code(hi, lo) \in Seq(Chars) /\ Code(hi, lo) \in Seq(Written) /\ Valid(Code(hi, lo))
           /\ "%" \in Chars /\ hi \in Chars /\ lo \in Chars
<1>1. Code(hi, lo) \in Seq(Written) /\ Valid(Code(hi, lo))
  BY EscapeWritten DEF Code
<1>2. "%" \in Chars /\ hi \in Chars /\ lo \in Chars
  BY Alphabet DEF Chars
<1> QED
  BY <1>1, <1>2, CodeIs

LEMMA UnescapeChar ==
    ASSUME NEW c \in Chars, c # "%", NEW t \in Seq(Chars), Valid(t), NEW mode
    PROVE  Unescape(Cons(c, t), mode) = Cons(c, Unescape(t, mode))
<1> DEFINE s == Cons(c, t)
<1>1. s \in Seq(Chars) /\ s # <<>> /\ Valid(s) /\ s[1] = c /\ Tail(s) = t
  BY ConsValid, ConsIs
<1> HIDE DEF s
<1>2. Unescape(s, mode) = <<s[1]>> \o Unescape(Tail(s), mode)
  BY <1>1, UnescapeUnfolds
<1> QED
  BY <1>1, <1>2 DEF s, Cons

LEMMA UnescapeCode ==
    ASSUME NEW hi \in HexDigits, NEW lo \in HexDigits, NEW t \in Seq(Chars), Valid(t), NEW mode
    PROVE  Unescape(Code(hi, lo) \o t, mode) = Decode(hi, lo, mode) \o Unescape(t, mode)
<1> DEFINE s == Code(hi, lo) \o t
<1>1. s \in Seq(Chars) /\ s # <<>> /\ Len(s) = Len(t) + 3 /\ Len(t) \in Nat /\ Valid(s)
  BY CodeValid, CodeType, ValidConcat
<1>2. Cut(s, hi, lo, t)
  <2>1. hi \in Chars /\ lo \in Chars
    BY CodeValid
  <2> QED
    BY <2>1, CodeTail
<1> HIDE DEF s
<1>5. s[1] = "%" /\ s[2] = hi /\ s[3] = lo /\ Tail(Tail(Tail(s))) = t
  BY <1>2 DEF Cut
<1>3. IsHexSlash(s, 1) <=> hi = "2" /\ lo \in {"F", "f"}
  <2>1. IsHexSlash(s, 1) <=>
            1 + 2 <= Len(s) /\ s[1] = "%" /\ s[1 + 1] = "2" /\ s[1 + 2] \in {"F", "f"}
    BY <1>1, HexSlashIs
  <2> QED
    BY <1>1, <1>5, <2>1, 1 + 1 = 2, 1 + 2 = 3
<1>4. Unescape(s, mode) =
          (IF mode = "multi" /\ IsHexSlash(s, 1) THEN <<"%", "2", "F">> ELSE <<Byte(s[2], s[3])>>)
          \o Unescape(Tail(Tail(Tail(s))), mode)
  BY <1>1, <1>5, UnescapeUnfolds
<1> QED
  BY <1>5, <1>3, <1>4 DEF s, Decode, Code

LEMMA EscapeChar ==
    ASSUME NEW c \in Unreserved, NEW t \in Seq(Chars), NEW mode
    PROVE  Escape(Cons(c, t), mode) = Cons(c, Escape(t, mode))
<1> DEFINE s == Cons(c, t)
<1>0. c \in Chars /\ c # "%"
  BY Alphabet DEF Chars
<1>1. s \in Seq(Chars) /\ s # <<>> /\ s[1] = c /\ Tail(s) = t
  BY <1>0, ConsIs
<1> HIDE DEF s
<1>2. ~IsHexSlash(s, 1)
  BY <1>0, <1>1, HexSlashIs
<1>3. Escape(s, mode) = <<s[1]>> \o Escape(Tail(s), mode)
  BY <1>1, <1>2, EscapeUnfolds
<1> QED
  BY <1>1, <1>3 DEF s, Cons

LEMMA EscapeSlash ==
    ASSUME NEW lo \in {"F", "f"}, NEW t \in Seq(Chars)
    PROVE  Escape(Code("2", lo) \o t, "multi") = Code("2", "F") \o Escape(t, "multi")
<1> DEFINE s == Code("2", lo) \o t
<1>0. "2" \in HexDigits /\ lo \in HexDigits
  BY Alphabet
<1>1. s \in Seq(Chars) /\ s # <<>> /\ Len(s) = Len(t) + 3 /\ Len(t) \in Nat
  BY <1>0, CodeValid, CodeType
<1>2. Cut(s, "2", lo, t)
  <2>1. "2" \in Chars /\ lo \in Chars
    BY <1>0, CodeValid
  <2> QED
    BY <2>1, CodeTail
<1> HIDE DEF s
<1>5. s[1] = "%" /\ s[2] = "2" /\ s[3] = lo /\ Tail(Tail(Tail(s))) = t
  BY <1>2 DEF Cut
<1>3. IsHexSlash(s, 1)
  <2>1. IsHexSlash(s, 1) <=>
            1 + 2 <= Len(s) /\ s[1] = "%" /\ s[1 + 1] = "2" /\ s[1 + 2] \in {"F", "f"}
    BY <1>1, HexSlashIs
  <2> QED
    BY <1>1, <1>5, <2>1, 1 + 1 = 2, 1 + 2 = 3
<1>4. Escape(s, "multi") = <<"%", "2", "F">> \o Escape(Tail(Tail(Tail(s))), "multi")
  BY <1>1, <1>3, EscapeUnfolds
<1> QED
  BY <1>5, <1>4 DEF s, Code

LEMMA EscapeHex ==
    ASSUME NEW c \in DOMAIN Hex, NEW t \in Seq(Chars), NEW mode,
           ~(mode = "multi" /\ IsHexSlash(Cons(c, t), 1))
    PROVE  Escape(Cons(c, t), mode) = Code(Hex[c][1], Hex[c][2]) \o Escape(t, mode)
<1> DEFINE s == Cons(c, t)
<1>0. c \in Chars /\ c \notin Unreserved
  BY DEF Chars, Hex, Unreserved, Identifier, HexDigits, Digits
<1>1. s \in Seq(Chars) /\ s # <<>> /\ s[1] = c /\ Tail(s) = t
  BY <1>0, ConsIs
<1>2. ~(mode = "multi" /\ IsHexSlash(s, 1))
  OBVIOUS
<1> HIDE DEF s
<1>3. Escape(s, mode) = (<<"%">> \o Hex[c]) \o Escape(t, mode)
  BY <1>0, <1>1, <1>2, EscapeUnfolds
<1> DEFINE hi == Hex[c][1]
           lo == Hex[c][2]
<1>4. Hex[c] = <<hi, lo>>
  BY HexOf
<1> HIDE DEF hi, lo
<1>5. <<"%">> \o Hex[c] = Code(hi, lo)
  BY <1>4, PercentHex DEF Code
<1> QED
  BY <1>3, <1>5 DEF s, hi, lo

(* Every escaped text is built of its pieces.                                 *)
LEMMA Pieces ==
    ASSUME NEW S, <<>> \in S,
           \A t \in Seq(Chars) : Valid(t) /\ t \in S =>
               /\ \A c \in Chars : c # "%" => Cons(c, t) \in S
               /\ \A hi, lo \in HexDigits : Code(hi, lo) \o t \in S
    PROVE  \A s \in Seq(Chars) : Valid(s) => s \in S
<1> DEFINE T == {s \in Seq(Chars) : Valid(s) => s \in S}
<1>1. <<>> \in T
  OBVIOUS
<1>2. ASSUME NEW s \in Seq(Chars), s # <<>>, \A t \in Seq(Chars) : Len(t) < Len(s) => t \in T
      PROVE  s \in T
  <2> SUFFICES ASSUME Valid(s) PROVE s \in S
    OBVIOUS
  <2>1. /\ s[1] \in Chars /\ Tail(s) \in Seq(Chars) /\ Len(Tail(s)) = Len(s) - 1 /\ Len(s) \in Nat \ {0}
        /\ s = Cons(s[1], Tail(s)) /\ Valid(Tail(s))
    BY <1>2, Uncons, ValidTail DEF Cons
  <2>2. CASE s[1] # "%"
    <3>1. Len(Tail(s)) < Len(s)
      BY <2>1
    <3>2. Tail(s) \in S
      BY <1>2, <2>1, <3>1
    <3>3. Cons(s[1], Tail(s)) \in S
      BY <2>1, <2>2, <3>2
    <3> QED
      BY <2>1, <3>3
  <2>3. CASE s[1] = "%"
    <3>1. 1 + 2 <= Len(s) /\ s[1 + 1] \in HexDigits /\ s[1 + 2] \in HexDigits
      BY <2>1, <2>3 DEF Valid
    <3>2. Len(s) >= 3 /\ s[2] \in HexDigits /\ s[3] \in HexDigits
      BY <2>1, <3>1, 1 + 1 = 2, 1 + 2 = 3
    <3> DEFINE t == Tail(Tail(Tail(s)))
    <3>3. t \in Seq(Chars) /\ Len(t) = Len(s) - 3 /\ s = Code(s[2], s[3]) \o t
      BY <2>3, <3>2, Uncode
    <3>4. Valid(t)
      <4>1. Tail(s) # <<>>
        <5>1. Len(Tail(s)) # 0
          BY <2>1, <3>2
        <5> QED
          BY <2>1, <5>1, EmptySeq
      <4>2. Tail(Tail(s)) \in Seq(Chars) /\ Valid(Tail(Tail(s))) /\ Len(Tail(Tail(s))) = Len(Tail(s)) - 1
        BY <2>1, <4>1, ValidTail
      <4>3. Tail(Tail(s)) # <<>>
        <5>1. Len(Tail(Tail(s))) # 0
          BY <2>1, <3>2, <4>2
        <5> QED
          BY <4>2, <5>1, EmptySeq
      <4> QED
        BY <4>2, <4>3, ValidTail
    <3> HIDE DEF t
    <3>5. Len(t) < Len(s)
      <4>1. Len(s) \in Nat /\ Len(t) = Len(s) - 3
        BY <2>1, <3>3
      <4> QED
        BY <4>1
    <3>6. t \in S
      BY <1>2, <3>3, <3>4, <3>5
    <3>7. Code(s[2], s[3]) \o t \in S
      BY <3>2, <3>3, <3>4, <3>6
    <3> QED
      BY <3>3, <3>7
  <2> QED
    BY <2>2, <2>3
<1> HIDE DEF T
<1>3. \A s \in Seq(Chars) : s \in T
  BY <1>1, <1>2, TextInduction
<1> QED
  BY <1>3 DEF T

---------------------------------------------------------------------------
(* Back and forth *)

LEMMA DecodeType ==
    ASSUME NEW hi \in HexDigits, NEW lo \in HexDigits, NEW mode
    PROVE  Decode(hi, lo, mode) \in Seq(Decoded)
<1>1. Code("2", "F") \in Seq(Chars) /\ Chars \subseteq Decoded
  BY CodeValid, Alphabet DEF Decoded
<1>2. Code("2", "F") \in Seq(Decoded)
  BY <1>1, SeqMonotonic
<1>3. Byte(hi, lo) \in Decoded
  BY DEF Decoded
<1>4. <<Byte(hi, lo)>> \in Seq(Decoded)
  BY <1>3
<1> QED
  BY <1>2, <1>4 DEF Decode

LEMMA DecodedText == Seq(Chars) \subseteq Seq(Decoded)
<1>1. Chars \subseteq Decoded
  BY DEF Decoded
<1> QED
  BY <1>1, SeqMonotonic

LEMMA ConsDecoded ==
    ASSUME NEW c \in Chars, NEW t \in Seq(Decoded)
    PROVE  Cons(c, t) \in Seq(Decoded)
<1>1. c \in Decoded
  BY DEF Decoded
<1> QED
  BY <1>1, ConsIs

LEMMA UnescapeType ==
    ASSUME NEW mode
    PROVE  \A s \in Seq(Chars) : Valid(s) => Unescape(s, mode) \in Seq(Decoded)
<1> DEFINE S == {s \in Seq(Chars) : Unescape(s, mode) \in Seq(Decoded)}
<1>1. <<>> \in S
  <2>1. <<>> \in Seq(Chars) /\ <<>> \in Seq(Decoded)
    OBVIOUS
  <2> QED
    BY <2>1, UnescapeEmpty
<1>2. ASSUME NEW t \in Seq(Chars), Valid(t), t \in S, NEW c \in Chars, c # "%"
      PROVE  Cons(c, t) \in S
  <2>1. Cons(c, t) \in Seq(Chars)
    BY <1>2, ConsIs
  <2>2. Unescape(Cons(c, t), mode) = Cons(c, Unescape(t, mode))
    BY <1>2, UnescapeChar
  <2>3. Cons(c, Unescape(t, mode)) \in Seq(Decoded)
    BY <1>2, ConsDecoded
  <2> QED
    BY <2>1, <2>2, <2>3
<1>3. ASSUME NEW t \in Seq(Chars), Valid(t), t \in S, NEW hi \in HexDigits, NEW lo \in HexDigits
      PROVE  Code(hi, lo) \o t \in S
  <2>1. Code(hi, lo) \o t \in Seq(Chars)
    BY CodeValid, ConcatProperties
  <2>2. Unescape(Code(hi, lo) \o t, mode) = Decode(hi, lo, mode) \o Unescape(t, mode)
    BY <1>3, UnescapeCode
  <2>3. Decode(hi, lo, mode) \o Unescape(t, mode) \in Seq(Decoded)
    BY <1>3, DecodeType, ConcatProperties
  <2> QED
    BY <2>1, <2>2, <2>3
<1> HIDE DEF S
<1>4. \A s \in Seq(Chars) : Valid(s) => s \in S
  BY <1>1, <1>2, <1>3, Pieces
<1> QED
  BY <1>4 DEF S

(* Unescaping goes through a text piece by piece.                             *)
LEMMA UnescapeConcat ==
    ASSUME NEW b \in Seq(Chars), Valid(b), NEW mode
    PROVE  \A a \in Seq(Chars) : Valid(a) => Unescape(a \o b, mode) = Unescape(a, mode) \o Unescape(b, mode)
<1> DEFINE S == {a \in Seq(Chars) : Unescape(a \o b, mode) = Unescape(a, mode) \o Unescape(b, mode)}
           ub == Unescape(b, mode)
<1>0. ub \in Seq(Decoded)
  BY UnescapeType
<1>1. <<>> \in S
  <2>1. <<>> \in Seq(Chars) /\ <<>> \o b = b
    OBVIOUS
  <2>2. <<>> \o ub = ub
    BY <1>0, ConcatEmptySeq
  <2>3. Unescape(<<>>, mode) = <<>>
    BY UnescapeEmpty
  <2> QED
    BY <2>1, <2>2, <2>3
<1>2. ASSUME NEW t \in Seq(Chars), Valid(t), t \in S, NEW c \in Chars, c # "%"
      PROVE  Cons(c, t) \in S
  <2>1. Cons(c, t) \in Seq(Chars)
    BY <1>2, ConsIs
  <2>2. Cons(c, t) \o b = Cons(c, t \o b)
    BY ConsThen
  <2>3. t \o b \in Seq(Chars) /\ Valid(t \o b)
    BY <1>2, ValidConcat, ConcatProperties
  <2>4. Unescape(Cons(c, t \o b), mode) = Cons(c, Unescape(t \o b, mode))
    BY <1>2, <2>3, UnescapeChar
  <2>5. Unescape(Cons(c, t), mode) = Cons(c, Unescape(t, mode))
    BY <1>2, UnescapeChar
  <2>6. Unescape(t \o b, mode) = Unescape(t, mode) \o ub
    BY <1>2
  <2>7. Cons(c, Unescape(t, mode)) \o ub = Cons(c, Unescape(t, mode) \o ub)
    <3> DEFINE ut == Unescape(t, mode)
    <3>1. ut \in Seq(Decoded) /\ c \in Decoded
      BY <1>2, UnescapeType DEF Decoded
    <3> HIDE DEF ut, ub
    <3>2. Cons(c, ut) \o ub = Cons(c, ut \o ub)
      BY <1>0, <3>1, ConsThen
    <3> QED
      BY <3>2 DEF ut
  <2> HIDE DEF ub
  <2>8. Unescape(Cons(c, t) \o b, mode) = Unescape(Cons(c, t), mode) \o ub
    BY <2>2, <2>4, <2>5, <2>6, <2>7
  <2> QED
    BY <2>1, <2>8 DEF ub
<1>3. ASSUME NEW t \in Seq(Chars), Valid(t), t \in S, NEW hi \in HexDigits, NEW lo \in HexDigits
      PROVE  Code(hi, lo) \o t \in S
  <2> DEFINE w == Code(hi, lo)
             d == Decode(hi, lo, mode)
             ut == Unescape(t, mode)
  <2>1. w \in Seq(Chars) /\ w \o t \in Seq(Chars)
    BY CodeValid, ConcatProperties
  <2>3. t \o b \in Seq(Chars) /\ Valid(t \o b)
    BY <1>3, ValidConcat, ConcatProperties
  <2>4. Unescape(w \o (t \o b), mode) = d \o Unescape(t \o b, mode)
    <3> DEFINE tb == t \o b
    <3>1. tb \in Seq(Chars) /\ Valid(tb)
      BY <2>3
    <3> HIDE DEF tb
    <3>2. Unescape(Code(hi, lo) \o tb, mode) = Decode(hi, lo, mode) \o Unescape(tb, mode)
      BY <3>1, UnescapeCode
    <3> QED
      BY <3>2 DEF tb
  <2>5. Unescape(w \o t, mode) = d \o ut
    BY <1>3, UnescapeCode
  <2>6. Unescape(t \o b, mode) = ut \o ub
    BY <1>3
  <2>7. d \in Seq(Decoded) /\ ut \in Seq(Decoded)
    BY <1>3, DecodeType, UnescapeType
  <2> HIDE DEF w, d, ut, ub
  <2>2. (w \o t) \o b = w \o (t \o b)
    BY <2>1, ConcatAssociative
  <2>8. (d \o ut) \o ub = d \o (ut \o ub)
    BY <1>0, <2>7, ConcatAssociative
  <2>9. Unescape((w \o t) \o b, mode) = Unescape(w \o t, mode) \o ub
    BY <2>2, <2>4, <2>5, <2>6, <2>8
  <2> QED
    BY <2>1, <2>9 DEF w, ub
<1> HIDE DEF S
<1>4. \A s \in Seq(Chars) : Valid(s) => s \in S
  BY <1>1, <1>2, <1>3, Pieces
<1> QED
  BY <1>4 DEF S

(* The digits of a character give it back; only a slash has those of a slash. *)
LEMMA ByteIs ==
    ASSUME NEW c \in DOMAIN Hex
    PROVE  /\ Byte(Hex[c][1], Hex[c][2]) = c
           /\ Hex[c][1] = "2" /\ Hex[c][2] \in {"F", "f"} => c = "/"
<1>1. c \in {"/", "%", ":", "*"} /\ DOMAIN Hex = {"/", "%", ":", "*"}
  BY DEF Hex
<1>2. /\ Hex["/"] = <<"2", "F">> /\ Hex["%"] = <<"2", "5">>
      /\ Hex[":"] = <<"3", "A">> /\ Hex["*"] = <<"2", "A">>
  BY DEF Hex
<1>3. /\ Hex["/"][1] = "2" /\ Hex["/"][2] = "F" /\ Hex["%"][1] = "2" /\ Hex["%"][2] = "5"
      /\ Hex[":"][1] = "3" /\ Hex[":"][2] = "A" /\ Hex["*"][1] = "2" /\ Hex["*"][2] = "A"
  BY <1>2
<1>4. Hex[c] = <<Hex[c][1], IF Hex[c][2] = "f" THEN "F" ELSE Hex[c][2]>>
  BY <1>1, <1>2, <1>3
<1>5. ASSUME NEW d \in DOMAIN Hex, Hex[d] = Hex[c] PROVE d = c
  <2>1. Hex[d][1] = Hex[c][1] /\ Hex[d][2] = Hex[c][2]
    BY <1>5
  <2>2. d \in {"/", "%", ":", "*"}
    BY <1>1
  <2> QED
    BY <1>1, <1>3, <2>1, <2>2
<1>6. Byte(Hex[c][1], Hex[c][2]) = c
  <2> DEFINE w == <<Hex[c][1], IF Hex[c][2] = "f" THEN "F" ELSE Hex[c][2]>>
  <2>1. w = Hex[c]
    BY <1>4
  <2>2. \A d \in DOMAIN Hex : Hex[d] = w <=> d = c
    BY <1>5, <2>1
  <2>3. Byte(Hex[c][1], Hex[c][2]) = CHOOSE d \in DOMAIN Hex : Hex[d] = w
    BY DEF Byte
  <2> HIDE DEF w
  <2> QED
    BY <2>2, <2>3
<1>7. Hex[c][1] = "2" /\ Hex[c][2] \in {"F", "f"} => c = "/"
  BY <1>1, <1>3
<1> QED
  BY <1>6, <1>7

(* What "single" escapes it gives back.                                       *)
LEMMA UnescapeEscape == \A s \in Seq(Chars) : Unescape(Escape(s, "single"), "single") = s
<1> DEFINE S == {s \in Seq(Chars) : Unescape(Escape(s, "single"), "single") = s}
<1>1. <<>> \in S
  BY EscapeEmpty, UnescapeEmpty
<1>2. ASSUME NEW s \in Seq(Chars), s # <<>>, \A t \in Seq(Chars) : Len(t) < Len(s) => t \in S
      PROVE  s \in S
  <2> DEFINE c == s[1]
             t == Tail(s)
             e == Escape(t, "single")
  <2>1. c \in Chars /\ t \in Seq(Chars) /\ Len(t) = Len(s) - 1 /\ Len(s) \in Nat \ {0} /\ s = Cons(c, t)
    BY <1>2, Uncons DEF Cons
  <2>2. Unescape(e, "single") = t
    <3>1. Len(t) < Len(s)
      BY <2>1
    <3>2. t \in S
      BY <1>2, <2>1, <3>1
    <3> QED
      BY <3>2
  <2>3. e \in Seq(Chars) /\ Valid(e)
    <3>1. e \in Seq(Written) /\ Valid(e)
      BY <2>1, EscapeType
    <3>2. Seq(Written) \subseteq Seq(Chars)
      BY Alphabet, SeqMonotonic
    <3> QED
      BY <3>1, <3>2
  <2>4. CASE c \in Unreserved
    <3>1. Escape(Cons(c, t), "single") = Cons(c, e)
      BY <2>1, <2>4, EscapeChar
    <3>2. c # "%"
      BY <2>4, Alphabet
    <3> HIDE DEF c, t, e
    <3>3. Unescape(Cons(c, e), "single") = Cons(c, t)
      BY <2>1, <2>2, <2>3, <3>2, UnescapeChar
    <3> QED
      BY <2>1, <3>1, <3>3
  <2>5. CASE c \notin Unreserved
    <3> DEFINE hi == Hex[c][1]
               lo == Hex[c][2]
    <3>1. c \in DOMAIN Hex
      BY <2>1, <2>5 DEF Chars
    <3>2. hi \in HexDigits /\ lo \in HexDigits /\ Byte(hi, lo) = c
      BY <3>1, HexOf, ByteIs
    <3>3. Escape(Cons(c, t), "single") = Code(hi, lo) \o e
      <4>1. ~("single" = "multi" /\ IsHexSlash(Cons(c, t), 1))
        OBVIOUS
      <4> QED
        BY <2>1, <3>1, <4>1, EscapeHex
    <3> HIDE DEF c, t, e, hi, lo
    <3>4. Unescape(Code(hi, lo) \o e, "single") = Decode(hi, lo, "single") \o t
      BY <2>2, <2>3, <3>2, UnescapeCode
    <3>5. Decode(hi, lo, "single") = <<c>>
      BY <3>2 DEF Decode
    <3> QED
      BY <2>1, <3>3, <3>4, <3>5 DEF Cons
  <2> QED
    BY <2>4, <2>5
<1> HIDE DEF S
<1>3. \A s \in Seq(Chars) : s \in S
  BY <1>1, <1>2, TextInduction
<1> QED
  BY <1>3 DEF S

---------------------------------------------------------------------------
(* Equal but for the case of escaped slashes *)

SmallAt(b, i) == b[i - 2] = "%" /\ b[i - 1] = "2" /\ b[i] = "f"
SameAt(a, b, i) == a[i] = b[i] \/ (a[i] = "F" /\ i > 2 /\ SmallAt(b, i))

LEMMA SmallSlash ==
    ASSUME NEW b \in Seq(Decoded), NEW i \in 1 .. Len(b), i > 2
    PROVE  SubSeq(b, i - 2, i) = <<"%", "2", "f">> <=> SmallAt(b, i)
<1> DEFINE w == SubSeq(b, i - 2, i)
<1>1. Len(w) = 3 /\ w \in Seq(Decoded) /\ w[1] = b[i - 2] /\ w[2] = b[i - 1] /\ w[3] = b[i]
  <2>1. i - 2 \in 1 .. Len(b) /\ i - 2 <= i /\ i <= Len(b) /\ i - 2 \in Nat /\ i \in Nat
    OBVIOUS
  <2>2. w \in Seq(Decoded) /\ Len(w) = i - (i - 2) + 1
    BY <2>1, SubSeqProperties
  <2>3. \A k \in 1 .. i - (i - 2) + 1 : w[k] = b[i - 2 + k - 1]
    BY <2>1
  <2>4. i - (i - 2) + 1 = 3 /\ i - 2 + 1 - 1 = i - 2 /\ i - 2 + 2 - 1 = i - 1 /\ i - 2 + 3 - 1 = i
    OBVIOUS
  <2>5. Len(w) = 3 /\ \A k \in 1 .. 3 : w[k] = b[i - 2 + k - 1]
    BY <2>2, <2>3, <2>4
  <2> HIDE DEF w
  <2>6. w[1] = b[i - 2 + 1 - 1] /\ w[2] = b[i - 2 + 2 - 1] /\ w[3] = b[i - 2 + 3 - 1]
    BY <2>5
  <2> QED
    BY <2>2, <2>4, <2>5, <2>6
<1> HIDE DEF w
<1>2. w = <<"%", "2", "f">> <=> w[1] = "%" /\ w[2] = "2" /\ w[3] = "f"
  BY <1>1
<1> QED
  BY <1>1, <1>2 DEF w, SmallAt

LEMMA SameIs ==
    ASSUME NEW a \in Seq(Decoded), NEW b \in Seq(Decoded)
    PROVE  Same(a, b) <=> Len(a) = Len(b) /\ \A i \in 1 .. Len(a) : SameAt(a, b, i)
<1>1. DOMAIN a = 1 .. Len(a)
  OBVIOUS
<1>2. CASE Len(a) = Len(b)
  <2>1. ASSUME NEW i \in 1 .. Len(a), i > 2
        PROVE  SubSeq(b, i - 2, i) = <<"%", "2", "f">> <=> SmallAt(b, i)
    BY <1>2, <2>1, SmallSlash
  <2> QED
    BY <1>1, <1>2, <2>1 DEF Same, SameAt
<1>3. CASE Len(a) # Len(b)
  BY <1>3 DEF Same
<1> QED
  BY <1>2, <1>3

LEMMA SameItself == ASSUME NEW a \in Seq(Decoded) PROVE Same(a, a)
BY SameIs DEF SameAt

LEMMA SameConcat ==
    ASSUME NEW a \in Seq(Decoded), NEW b \in Seq(Decoded), NEW c \in Seq(Decoded), NEW d \in Seq(Decoded),
           Same(a, b), Same(c, d)
    PROVE  Same(a \o c, b \o d)
<1> DEFINE ac == a \o c
           bd == b \o d
           n == Len(a)
           m == Len(c)
<1>1. /\ n \in Nat /\ m \in Nat /\ Len(b) = n /\ Len(d) = m
      /\ \A i \in 1 .. n : SameAt(a, b, i)
      /\ \A i \in 1 .. m : SameAt(c, d, i)
  BY SameIs
<1>2. /\ ac \in Seq(Decoded) /\ Len(ac) = n + m
      /\ \A i \in 1 .. n + m : ac[i] = IF i <= n THEN a[i] ELSE c[i - n]
  BY ConcatProperties
<1>3. bd \in Seq(Decoded) /\ Len(bd) = n + m
      /\ \A i \in 1 .. n + m : bd[i] = IF i <= n THEN b[i] ELSE d[i - n]
  <2>1. /\ bd \in Seq(Decoded) /\ Len(bd) = Len(b) + Len(d)
        /\ \A i \in 1 .. Len(b) + Len(d) : bd[i] = IF i <= Len(b) THEN b[i] ELSE d[i - Len(b)]
    BY ConcatProperties
  <2> QED
    BY <1>1, <2>1
<1> HIDE DEF ac, bd, n, m
<1>4. ASSUME NEW i \in 1 .. n + m PROVE SameAt(ac, bd, i)
  <2>1. CASE i <= n
    <3>1. i \in 1 .. n /\ ac[i] = a[i] /\ bd[i] = b[i]
      BY <1>1, <1>2, <1>3, <2>1
    <3>2. i > 2 => bd[i - 1] = b[i - 1] /\ bd[i - 2] = b[i - 2]
      <4>1. i > 2 => i - 1 \in 1 .. n + m /\ i - 2 \in 1 .. n + m /\ i - 1 <= n /\ i - 2 <= n
        BY <1>1, <2>1
      <4> QED
        BY <1>3, <4>1
    <3>3. SameAt(a, b, i)
      BY <1>1, <3>1
    <3> QED
      BY <3>1, <3>2, <3>3 DEF SameAt, SmallAt
  <2>2. CASE i > n
    <3> DEFINE j == i - n
    <3>1. j \in 1 .. m /\ ac[i] = c[j] /\ bd[i] = d[j]
      BY <1>1, <1>2, <1>3, <2>2
    <3>2. j > 2 => i > 2 /\ bd[i - 1] = d[j - 1] /\ bd[i - 2] = d[j - 2]
      <4>1. j > 2 => /\ i > 2 /\ i - 1 \in 1 .. n + m /\ i - 2 \in 1 .. n + m
                     /\ ~(i - 1 <= n) /\ ~(i - 2 <= n) /\ i - 1 - n = j - 1 /\ i - 2 - n = j - 2
        BY <1>1, <2>2
      <4> HIDE DEF j
      <4>2. j > 2 => bd[i - 1] = d[i - 1 - n] /\ bd[i - 2] = d[i - 2 - n]
        BY <1>3, <4>1
      <4> QED
        BY <4>1, <4>2
    <3>3. SameAt(c, d, j)
      BY <1>1, <3>1
    <3> HIDE DEF j
    <3> QED
      BY <3>1, <3>2, <3>3 DEF SameAt, SmallAt
  <2> QED
    BY <1>1, <2>1, <2>2
<1>5. Same(ac, bd)
  BY <1>2, <1>3, <1>4, SameIs
<1> QED
  BY <1>5 DEF ac, bd

LEMMA SameSlash == ASSUME NEW lo \in {"F", "f"} PROVE Same(Code("2", "F"), Code("2", lo))
<1> DEFINE a == Code("2", "F")
           b == Code("2", lo)
<1>1. "2" \in HexDigits /\ "F" \in HexDigits /\ lo \in HexDigits
  BY Alphabet
<1>2. /\ a \in Seq(Decoded) /\ Len(a) = 3 /\ a[1] = "%" /\ a[2] = "2" /\ a[3] = "F"
  BY <1>1, CodeValid, CodeIs, DecodedText
<1>3. /\ b \in Seq(Decoded) /\ Len(b) = 3 /\ b[1] = "%" /\ b[2] = "2" /\ b[3] = lo
  BY <1>1, CodeValid, CodeIs, DecodedText
<1> HIDE DEF a, b
<1>4. \A i \in 1 .. 3 : SameAt(a, b, i)
  <2>1. SameAt(a, b, 1) /\ SameAt(a, b, 2)
    BY <1>2, <1>3 DEF SameAt
  <2>2. SameAt(a, b, 3)
    <3>1. lo = "f" => SmallAt(b, 3)
      BY <1>3, 3 - 2 = 1, 3 - 1 = 2 DEF SmallAt
    <3> QED
      BY <1>2, <1>3, <3>1 DEF SameAt
  <2>3. \A i \in 1 .. 3 : i = 1 \/ i = 2 \/ i = 3
    OBVIOUS
  <2> QED
    BY <2>1, <2>2, <2>3
<1>5. Same(a, b)
  BY <1>2, <1>3, <1>4, SameIs
<1> QED
  BY <1>5 DEF a, b

(* What "multi" escapes of a part between slashes it gives back, with the     *)
(* escaped slashes in upper case.                                             *)
Round(s) == Unescape(Escape(s, "multi"), "multi")

LEMMA EscapedIs ==
    ASSUME NEW mode
    PROVE  \A s \in Seq(Chars) : Escape(s, mode) \in Seq(Chars) /\ Valid(Escape(s, mode))
<1>1. Seq(Written) \subseteq Seq(Chars)
  BY Alphabet, SeqMonotonic
<1> QED
  BY <1>1, EscapeType

LEMMA UnescapeMulti == \A s \in Seq(Chars \ {"/"}) : Same(Round(s), s)
<1> DEFINE Y == Chars \ {"/"}
           S == {s \in Seq(Y) : Same(Round(s), s)}
<1>0. Seq(Y) \subseteq Seq(Chars)
  BY SeqMonotonic
<1>1. <<>> \in S
  <2>1. <<>> \in Seq(Y) /\ <<>> \in Seq(Decoded)
    OBVIOUS
  <2> QED
    BY <2>1, EscapeEmpty, UnescapeEmpty, SameItself DEF Round
<1>2. ASSUME NEW s \in Seq(Y), s # <<>>, \A t \in Seq(Y) : Len(t) < Len(s) => t \in S
      PROVE  s \in S
  <2>0. s \in Seq(Chars) /\ Len(s) \in Nat \ {0}
    BY <1>0, <1>2, Uncons
  <2>1. ASSUME NEW a \in Seq(Chars), NEW p \in Seq(Chars), Same(p, a), NEW t \in Seq(Y), s = a \o t, Len(t) < Len(s),
               Round(s) = p \o Round(t)
        PROVE  s \in S
    <3>1. Same(Round(t), t)
      BY <1>2, <2>1
    <3>2. Round(t) \in Seq(Decoded)
      BY <1>0, EscapedIs, UnescapeType DEF Round
    <3>3. a \in Seq(Decoded) /\ p \in Seq(Decoded) /\ t \in Seq(Decoded)
      BY <1>0, DecodedText
    <3>4. Same(p \o Round(t), a \o t)
      BY <2>1, <3>1, <3>2, <3>3, SameConcat
    <3> QED
      BY <2>1, <3>4
  <2>2. CASE IsHexSlash(s, 1)
    <3> DEFINE t == Tail(Tail(Tail(s)))
               lo == s[3]
    <3>1. IsHexSlash(s, 1) <=> 1 + 2 <= Len(s) /\ s[1] = "%" /\ s[1 + 1] = "2" /\ s[1 + 2] \in {"F", "f"}
      BY <2>0, HexSlashIs
    <3>2. Len(s) >= 3 /\ s[1] = "%" /\ s[2] = "2" /\ lo \in {"F", "f"}
      BY <2>0, <2>2, <3>1, 1 + 1 = 2, 1 + 2 = 3
    <3>3. t \in Seq(Chars) /\ Len(t) = Len(s) - 3 /\ s = Code("2", lo) \o t
      BY <2>0, <3>2, Uncode
    <3>4. t \in Seq(Y)
      <4>1. Tail(s) \in Seq(Y) /\ Len(Tail(s)) = Len(s) - 1
        BY <1>2, Uncons
      <4>2. Tail(s) # <<>>
        <5>1. Len(Tail(s)) # 0
          BY <2>0, <3>2, <4>1
        <5> QED
          BY <4>1, <5>1, EmptySeq
      <4>3. Tail(Tail(s)) \in Seq(Y) /\ Len(Tail(Tail(s))) = Len(Tail(s)) - 1
        BY <4>1, <4>2, Uncons
      <4>4. Tail(Tail(s)) # <<>>
        <5>1. Len(Tail(Tail(s))) # 0
          BY <2>0, <3>2, <4>1, <4>3
        <5> QED
          BY <4>3, <5>1, EmptySeq
      <4> QED
        BY <4>3, <4>4, Uncons
    <3>5. Len(t) < Len(s)
      <4>1. Len(t) = Len(s) - 3
        BY <3>3
      <4> QED
        BY <2>0, <4>1
    <3> DEFINE e == Escape(t, "multi")
               w == Code("2", "F")
               a == Code("2", lo)
    <3>6. e \in Seq(Chars) /\ Valid(e)
      BY <3>3, EscapedIs
    <3>7. Escape(a \o t, "multi") = w \o e
      BY <3>2, <3>3, EscapeSlash
    <3>8. "2" \in HexDigits /\ "F" \in HexDigits /\ lo \in HexDigits
      BY <3>2, Alphabet
    <3>9. Unescape(w \o e, "multi") = Decode("2", "F", "multi") \o Unescape(e, "multi")
      <4> HIDE DEF e, t, lo
      <4> QED
        BY <3>6, <3>8, UnescapeCode
    <3>10. Decode("2", "F", "multi") = w
      BY DEF Decode
    <3>11. Round(s) = w \o Round(t)
      <4> HIDE DEF e, t, lo, w, a
      <4>1. Round(s) = Unescape(w \o e, "multi")
        BY <3>3, <3>7 DEF Round, a
      <4> QED
        BY <3>9, <3>10, <4>1 DEF Round, e
    <3>12. w \in Seq(Chars) /\ a \in Seq(Chars) /\ Same(w, a)
      BY <3>2, <3>8, CodeValid, SameSlash
    <3> HIDE DEF t, lo, w, a, e
    <3>13. s = a \o t
      BY <3>3 DEF a
    <3> QED
      BY <2>1, <3>4, <3>5, <3>11, <3>12, <3>13
  <2>3. CASE ~IsHexSlash(s, 1)
    <3> DEFINE c == s[1]
               t == Tail(s)
               e == Escape(t, "multi")
    <3>1. c \in Y /\ t \in Seq(Y) /\ Len(t) = Len(s) - 1 /\ s = Cons(c, t)
      BY <1>2, Uncons DEF Cons
    <3>2. c \in Chars /\ t \in Seq(Chars) /\ Len(t) < Len(s) /\ e \in Seq(Chars) /\ Valid(e)
      <4>1. c \in Chars /\ t \in Seq(Chars)
        BY <1>0, <3>1
      <4>2. Len(t) < Len(s)
        BY <2>0, <3>1
      <4> QED
        BY <4>1, <4>2, EscapedIs
    <3>3. <<c>> \in Seq(Chars) /\ Same(<<c>>, <<c>>)
      <4>1. <<c>> \in Seq(Chars)
        BY <3>2
      <4> QED
        BY <4>1, DecodedText, SameItself
    <3>4. CASE c \in Unreserved
      <4>1. Escape(Cons(c, t), "multi") = Cons(c, e) /\ c # "%"
        BY <3>2, <3>4, EscapeChar, Alphabet
      <4> HIDE DEF c, t, e
      <4>2. Unescape(Cons(c, e), "multi") = Cons(c, Unescape(e, "multi"))
        BY <3>2, <4>1, UnescapeChar
      <4>3. Round(s) = <<c>> \o Round(t)
        BY <3>1, <4>1, <4>2 DEF Round, Cons, e
      <4>4. s = <<c>> \o t
        BY <3>1 DEF Cons
      <4> QED
        BY <2>1, <3>1, <3>2, <3>3, <4>3, <4>4
    <3>5. CASE c \notin Unreserved
      <4> DEFINE hi == Hex[c][1]
                 lo == Hex[c][2]
      <4>1. c \in DOMAIN Hex /\ c # "/"
        BY <3>1, <3>5 DEF Chars
      <4>2. hi \in HexDigits /\ lo \in HexDigits /\ Byte(hi, lo) = c /\ ~(hi = "2" /\ lo \in {"F", "f"})
        BY <4>1, HexOf, ByteIs
      <4>3. Escape(Cons(c, t), "multi") = Code(hi, lo) \o e
        <5>1. ~("multi" = "multi" /\ IsHexSlash(Cons(c, t), 1))
          BY <2>3, <3>1
        <5> QED
          BY <3>2, <4>1, <5>1, EscapeHex
      <4> HIDE DEF c, t, e, hi, lo
      <4>4. Unescape(Code(hi, lo) \o e, "multi") = Decode(hi, lo, "multi") \o Unescape(e, "multi")
        BY <3>2, <4>2, UnescapeCode
      <4>5. Decode(hi, lo, "multi") = <<c>>
        BY <4>2 DEF Decode
      <4>6. Round(s) = <<c>> \o Round(t)
        BY <3>1, <4>3, <4>4, <4>5 DEF Round, e
      <4>7. s = <<c>> \o t
        BY <3>1 DEF Cons
      <4> QED
        BY <2>1, <3>1, <3>2, <3>3, <4>6, <4>7
    <3> QED
      BY <3>4, <3>5
  <2> QED
    BY <2>2, <2>3
<1> HIDE DEF S
<1>3. \A s \in Seq(Y) : s \in S
  BY <1>1, <1>2, TextInduction
<1> QED
  BY <1>3 DEF S

---------------------------------------------------------------------------
(* The parts of a text between its slashes *)

EscapedParts(parts) == [i \in DOMAIN parts |-> Escape(parts[i], "multi")]

LEMMA JoinedThen ==
    ASSUME NEW x \in Seq(Chars), NEW segs \in Seq(Seq(Chars))
    PROVE  /\ Joined(segs) \in Seq(Chars)
           /\ Joined(Cons(x, segs)) = Cons("/", x \o Joined(segs))
           /\ Tail(Joined(Cons(x, segs))) = x \o Joined(segs)
<1>1. "/" \in Chars
  BY Alphabet
<1>2. Joined(segs) \in Seq(Chars)
  BY <1>1, JoinedType
<1>3. Joined(<<x>> \o segs) = <<"/">> \o (x \o Joined(segs))
  BY <1>1, JoinedCons
<1>4. x \o Joined(segs) \in Seq(Chars)
  BY <1>2, ConcatProperties
<1>5. Tail(Cons("/", x \o Joined(segs))) = x \o Joined(segs)
  BY <1>1, <1>4, ConsIs
<1> QED
  BY <1>2, <1>3, <1>5 DEF Cons

(* Texts with all their escapes well-formed.                                  *)
ValidText == {s \in Seq(Chars) : Valid(s)}

LEMMA JoinedValid == \A segs \in Seq(ValidText) : Joined(segs) \in ValidText
<1> DEFINE S == {segs \in Seq(ValidText) : Joined(segs) \in ValidText}
<1>0. ValidText \subseteq Seq(Chars) /\ "/" \in Chars /\ "/" # "%"
  BY Alphabet DEF ValidText
<1>1. <<>> \in S
  <2>1. <<>> \in Seq(ValidText) /\ <<>> \in Seq(Chars) /\ DOMAIN <<>> = {}
    OBVIOUS
  <2> QED
    BY <2>1, JoinedEmpty DEF ValidText, Valid
<1>2. ASSUME NEW segs \in Seq(ValidText), segs # <<>>,
             \A t \in Seq(ValidText) : Len(t) < Len(segs) => t \in S
      PROVE  segs \in S
  <2> DEFINE x == segs[1]
             t == Tail(segs)
  <2>1. x \in ValidText /\ t \in Seq(ValidText) /\ Len(t) = Len(segs) - 1 /\ Len(segs) \in Nat \ {0}
        /\ segs = Cons(x, t)
    BY <1>2, Uncons DEF Cons
  <2>2. Joined(t) \in ValidText
    <3>1. Len(t) < Len(segs)
      BY <2>1
    <3> QED
      BY <1>2, <2>1, <3>1
  <2> HIDE DEF x, t
  <2>3. t \in Seq(Seq(Chars)) /\ x \in Seq(Chars)
    <3>1. Seq(ValidText) \subseteq Seq(Seq(Chars))
      BY <1>0, SeqMonotonic
    <3> QED
      BY <1>0, <2>1, <3>1
  <2>4. Joined(segs) = Cons("/", x \o Joined(t))
    BY <2>1, <2>3, JoinedThen
  <2>5. x \o Joined(t) \in Seq(Chars) /\ Valid(x \o Joined(t))
    BY <2>1, <2>2, ValidConcat, ConcatProperties DEF ValidText
  <2>6. Cons("/", x \o Joined(t)) \in ValidText
    BY <1>0, <2>5, ConsValid DEF ValidText
  <2> QED
    BY <2>4, <2>6
<1> HIDE DEF S
<1>3. \A segs \in Seq(ValidText) : segs \in S
  BY <1>1, <1>2, TextInduction
<1> QED
  BY <1>3 DEF S

LEMMA EscapedPartsType ==
    ASSUME NEW parts \in Seq(Seq(Chars))
    PROVE  /\ EscapedParts(parts) \in Seq(Seq(Written)) /\ EscapedParts(parts) \in Seq(ValidText)
           /\ Len(EscapedParts(parts)) = Len(parts)
<1> DEFINE n == Len(parts)
<1>1. n \in Nat /\ DOMAIN parts = 1 .. n /\ \A i \in 1 .. n : parts[i] \in Seq(Chars)
  OBVIOUS
<1> HIDE DEF n
<1>2. \A i \in 1 .. n : Escape(parts[i], "multi") \in Seq(Written) /\ Escape(parts[i], "multi") \in ValidText
  BY <1>1, EscapeType, EscapedIs DEF ValidText
<1>3. EscapedParts(parts) = [i \in 1 .. n |-> Escape(parts[i], "multi")]
  BY <1>1 DEF EscapedParts
<1> QED
  BY <1>1, <1>2, <1>3, SeqDef DEF n

LEMMA EscapedPartsCons ==
    ASSUME NEW x \in Seq(Chars), NEW parts \in Seq(Seq(Chars))
    PROVE  EscapedParts(Cons(x, parts)) = Cons(Escape(x, "multi"), EscapedParts(parts))
<1> DEFINE Y == Seq(Chars)
           Z == Seq(Written)
           all == Cons(x, parts)
           e == Escape(x, "multi")
           es == EscapedParts(parts)
           n == Len(parts)
<1>1. all \in Seq(Y) /\ Len(all) = n + 1 /\ n \in Nat /\ all[1] = x /\ \A i \in 1 .. n : all[i + 1] = parts[i]
  <2>1. all \in Seq(Y) /\ Len(all) = n + 1 /\ all[1] = x /\ Tail(all) = parts /\ all # <<>>
    BY ConsIs
  <2>2. n \in Nat
    OBVIOUS
  <2> HIDE DEF all
  <2>3. \A i \in 1 .. Len(Tail(all)) : Tail(all)[i] = all[i + 1]
    BY <2>1
  <2> QED
    BY <2>1, <2>2, <2>3
<1>2. e \in Z /\ es \in Seq(Z) /\ Len(es) = n /\ \A i \in 1 .. n : es[i] = Escape(parts[i], "multi")
  <2>1. e \in Z
    BY EscapeType
  <2>2. es \in Seq(Z) /\ Len(es) = n
    BY EscapedPartsType
  <2>3. DOMAIN parts = 1 .. n
    OBVIOUS
  <2> QED
    BY <2>1, <2>2, <2>3 DEF EscapedParts
<1> DEFINE u == Cons(e, es)
           w == EscapedParts(all)
<1>3. u \in Seq(Z) /\ Len(u) = n + 1 /\ u[1] = e /\ \A i \in 1 .. n : u[i + 1] = es[i]
  <2> HIDE DEF e, es
  <2>1. u \in Seq(Z) /\ Len(u) = n + 1 /\ u[1] = e /\ Tail(u) = es /\ u # <<>>
    BY <1>2, ConsIs
  <2> HIDE DEF u
  <2>3. \A i \in 1 .. Len(Tail(u)) : Tail(u)[i] = u[i + 1]
    BY <2>1
  <2> QED
    BY <1>2, <2>1, <2>3
<1>4. w \in Seq(Z) /\ Len(w) = n + 1 /\ \A i \in 1 .. n + 1 : w[i] = Escape(all[i], "multi")
  <2> HIDE DEF all
  <2>1. w \in Seq(Z) /\ Len(w) = n + 1
    BY <1>1, EscapedPartsType
  <2>2. DOMAIN all = 1 .. n + 1
    BY <1>1
  <2> QED
    BY <2>1, <2>2 DEF EscapedParts
<1> HIDE DEF all, u, w, es, n
<1>5. \A i \in 1 .. n + 1 : w[i] = u[i]
  <2> SUFFICES ASSUME NEW i \in 1 .. n + 1 PROVE w[i] = u[i]
    OBVIOUS
  <2>1. CASE i = 1
    BY <1>1, <1>3, <1>4, <2>1
  <2>2. CASE i # 1
    <3> DEFINE j == i - 1
    <3>1. j \in 1 .. n /\ i = j + 1
      BY <1>1, <2>2
    <3> HIDE DEF j
    <3>2. all[i] = parts[j] /\ u[i] = es[j] /\ es[j] = Escape(parts[j], "multi")
      BY <1>1, <1>2, <1>3, <3>1
    <3> QED
      BY <1>4, <3>2
  <2> QED
    BY <2>1, <2>2
<1>6. w = u
  BY <1>3, <1>4, <1>5, SeqEqual
<1> QED
  BY <1>6 DEF w, u, all, es

LEMMA PartsRound ==
    \A parts \in Seq(Seq(Chars \ {"/"})) :
        Same(Unescape(Joined(EscapedParts(parts)), "multi"), Joined(parts))
<1> DEFINE Y == Seq(Chars \ {"/"})
           S == {parts \in Seq(Y) : Same(Unescape(Joined(EscapedParts(parts)), "multi"), Joined(parts))}
<1>0. Y \subseteq Seq(Chars) /\ Seq(Y) \subseteq Seq(Seq(Chars)) /\ "/" \in Chars /\ "/" # "%"
  BY SeqMonotonic, Alphabet
<1>1. <<>> \in S
  <2>1. <<>> \in Seq(Y) /\ <<>> \in Seq(Decoded) /\ EscapedParts(<<>>) = <<>>
    BY DEF EscapedParts
  <2> QED
    BY <2>1, JoinedEmpty, UnescapeEmpty, SameItself
<1>2. ASSUME NEW parts \in Seq(Y), parts # <<>>, \A t \in Seq(Y) : Len(t) < Len(parts) => t \in S
      PROVE  parts \in S
  <2> DEFINE x == parts[1]
             t == Tail(parts)
             e == Escape(x, "multi")
             es == EscapedParts(t)
  <2>1. x \in Y /\ t \in Seq(Y) /\ Len(t) = Len(parts) - 1 /\ Len(parts) \in Nat \ {0} /\ parts = Cons(x, t)
    BY <1>2, Uncons DEF Cons
  <2>2. Same(Unescape(Joined(es), "multi"), Joined(t))
    <3>1. Len(t) < Len(parts)
      BY <2>1
    <3>2. t \in S
      BY <1>2, <2>1, <3>1
    <3> QED
      BY <3>2
  <2>3. x \in Seq(Chars) /\ t \in Seq(Seq(Chars))
    BY <1>0, <2>1
  <2>4. e \in ValidText /\ es \in Seq(ValidText) /\ e \in Seq(Chars)
    BY <2>3, EscapedIs, EscapedPartsType DEF ValidText
  <2>5. EscapedParts(parts) = Cons(e, es)
    BY <2>1, <2>3, EscapedPartsCons
  <2>6. Same(Unescape(e, "multi"), x)
    BY <2>1, UnescapeMulti DEF Round
  <2> DEFINE je == Joined(es)
             jt == Joined(t)
             ue == Unescape(e, "multi")
             uj == Unescape(je, "multi")
  <2> HIDE DEF x, t, e, es
  <2>7. je \in ValidText /\ es \in Seq(Seq(Chars))
    <3>1. Seq(ValidText) \subseteq Seq(Seq(Chars))
      <4>1. ValidText \subseteq Seq(Chars)
        BY DEF ValidText
      <4> QED
        BY <4>1, SeqMonotonic
    <3> QED
      BY <2>4, <3>1, JoinedValid
  <2>8. Joined(EscapedParts(parts)) = Cons("/", e \o je)
    BY <2>4, <2>5, <2>7, JoinedThen
  <2>9. Joined(parts) = Cons("/", x \o jt) /\ jt \in Seq(Chars)
    BY <2>1, <2>3, JoinedThen
  <2> HIDE DEF je
  <2>10. je \in Seq(Chars) /\ Valid(je) /\ Valid(e) /\ e \o je \in Seq(Chars) /\ Valid(e \o je)
    BY <2>4, <2>7, ValidConcat, ConcatProperties DEF ValidText
  <2>11. Unescape(e \o je, "multi") = ue \o uj
    BY <2>4, <2>10, UnescapeConcat
  <2>12. Unescape(Cons("/", e \o je), "multi") = Cons("/", ue \o uj)
    <3> DEFINE ej == e \o je
    <3>1. ej \in Seq(Chars) /\ Valid(ej)
      BY <2>10
    <3> HIDE DEF ej
    <3>2. Unescape(Cons("/", ej), "multi") = Cons("/", Unescape(ej, "multi"))
      BY <1>0, <3>1, UnescapeChar
    <3> QED
      BY <2>11, <3>2 DEF ej
  <2>13. ue \in Seq(Decoded) /\ uj \in Seq(Decoded)
    BY <2>4, <2>10, UnescapeType
  <2> HIDE DEF jt, ue, uj
  <2>14. x \in Seq(Decoded) /\ jt \in Seq(Decoded)
    BY <2>3, <2>9, DecodedText
  <2>15. Same(ue \o uj, x \o jt)
    BY <2>2, <2>6, <2>13, <2>14, SameConcat DEF ue, uj, je, jt
  <2>16. ue \o uj \in Seq(Decoded) /\ x \o jt \in Seq(Decoded)
    BY <2>13, <2>14, ConcatProperties
  <2>17. <<"/">> \in Seq(Decoded) /\ Same(<<"/">>, <<"/">>)
    <3>1. <<"/">> \in Seq(Chars)
      BY <1>0
    <3> QED
      BY <3>1, DecodedText, SameItself
  <2> DEFINE one == <<"/">>
  <2> HIDE DEF one
  <2>18. Same(one \o (ue \o uj), one \o (x \o jt))
    <3>1. one \in Seq(Decoded) /\ Same(one, one)
      BY <2>17 DEF one
    <3> QED
      BY <2>15, <2>16, <3>1, SameConcat
  <2> QED
    BY <2>8, <2>9, <2>12, <2>18 DEF one, Cons
<1> HIDE DEF S
<1>3. \A parts \in Seq(Y) : parts \in S
  BY <1>1, <1>2, TextInduction
<1> QED
  BY <1>3 DEF S

(* A value comes back from its escaped parts.                                 *)
LEMMA ValueRound ==
    ASSUME NEW s \in Seq(Chars)
    PROVE  LET raw == Tail(Joined(EscapedParts(Split(s, "/"))))
           IN  Valid(raw) /\ Same(Unescape(raw, "multi"), s)
<1> DEFINE Y == Seq(Chars \ {"/"})
           parts == Split(s, "/")
           x == parts[1]
           t == Tail(parts)
           e == Escape(x, "multi")
           es == EscapedParts(t)
           je == Joined(es)
           jt == Joined(t)
<1>0. Y \subseteq Seq(Chars) /\ Seq(Y) \subseteq Seq(Seq(Chars)) /\ "/" \in Chars
  BY SeqMonotonic, Alphabet
<1>1. parts \in Seq(Y) /\ parts # <<>>
  BY SplitParts
<1>2. x \in Y /\ t \in Seq(Y) /\ parts = Cons(x, t)
  BY <1>1, Uncons DEF Cons
<1>3. Joined(parts) = <<"/">> \o s
  BY <1>0, JoinedSplit
<1>4. Tail(Joined(parts)) = s
  <2>1. Tail(<<"/">> \o s) = s
    BY <1>0, ConsTail
  <2> QED
    BY <1>3, <2>1
<1> HIDE DEF parts
<1>5. x \in Seq(Chars) /\ t \in Seq(Seq(Chars))
  BY <1>0, <1>2
<1>6. e \in ValidText /\ es \in Seq(ValidText) /\ e \in Seq(Chars)
  BY <1>5, EscapedIs, EscapedPartsType DEF ValidText
<1>7. Same(Unescape(e, "multi"), x) /\ Same(Unescape(je, "multi"), jt)
  BY <1>2, UnescapeMulti, PartsRound DEF Round
<1>8. EscapedParts(parts) = Cons(e, es)
  BY <1>2, <1>5, EscapedPartsCons
<1> HIDE DEF x, t, e, es
<1>9. s = x \o jt /\ jt \in Seq(Chars)
  BY <1>2, <1>4, <1>5, JoinedThen
<1>10. je \in ValidText /\ es \in Seq(Seq(Chars))
  <2>1. ValidText \subseteq Seq(Chars)
    BY DEF ValidText
  <2>2. Seq(ValidText) \subseteq Seq(Seq(Chars))
    BY <2>1, SeqMonotonic
  <2> QED
    BY <1>6, <2>2, JoinedValid
<1>11. Tail(Joined(EscapedParts(parts))) = e \o je
  BY <1>6, <1>8, <1>10, JoinedThen
<1> HIDE DEF je, jt
<1>12. je \in Seq(Chars) /\ Valid(je) /\ Valid(e) /\ Valid(e \o je)
  BY <1>6, <1>10, ValidConcat DEF ValidText
<1> DEFINE ue == Unescape(e, "multi")
           uj == Unescape(je, "multi")
<1>13. Unescape(e \o je, "multi") = ue \o uj
  BY <1>6, <1>12, UnescapeConcat
<1>14. ue \in Seq(Decoded) /\ uj \in Seq(Decoded) /\ Same(ue, x) /\ Same(uj, jt)
  BY <1>6, <1>7, <1>12, UnescapeType DEF je, jt
<1>15. x \in Seq(Decoded) /\ jt \in Seq(Decoded)
  BY <1>5, <1>9, DecodedText
<1> HIDE DEF ue, uj
<1>16. Same(ue \o uj, x \o jt)
  BY <1>14, <1>15, SameConcat
<1> QED
  BY <1>9, <1>11, <1>12, <1>13, <1>16 DEF parts
=============================================================================
