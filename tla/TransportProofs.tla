-------------------------- MODULE TransportProofs --------------------------
(***************************************************************************)
(* Proofs about the routes: what match finds in the trie, by induction on  *)
(* how much of a path is left, for any rules and requests (Router); then   *)
(* Mount, and the client that uses the same rules (Transport), for any     *)
(* methods, rules, callers and calls.                                      *)
(***************************************************************************)
EXTENDS Transport, TLAPS, WellFoundedInduction

(* The strings.  That the wildcards are among them is beyond the provers.       *)
Symbols == STRING \cup {"*", "**"}

(* The keys of the trie, as BindingOK has them.                               *)
Trie == \A key \in DOMAIN trie :
           /\ key[1] \in Seq(Symbols) /\ key[1] # <<>>
           /\ \A i \in 1 .. Len(key[1]) - 1 : key[1][i] # "**"
Path(path) == path \in Seq(Symbols) /\ path # <<>> /\ \A i \in DOMAIN path : Segment(path[i])

(* The templates that hold the verb, and those of them below a node that fit. *)
Templates(verb) == {key[1] : key \in {k \in DOMAIN trie : k[2] = verb}}
Below(template, node) ==
    Len(node) <= Len(template) /\ \A i \in 1 .. Len(node) : template[i] = node[i]
Under(node, path, verb) == {t \in Templates(verb) : Fits(t, path) /\ Below(t, node)}

(* What is found is the most specific one's, if there is one.                 *)
MostSpecific(t, templates) ==
    t \in templates /\ \A u \in templates : u = t \/ MoreSpecific(t, u)
Answer(found, templates, verb, method) ==
    \/ templates = {} /\ found = None
    \/ \E t \in templates : MostSpecific(t, templates) /\ found = GetTarget(t, verb, method)

(* find is what the recursion of findTarget defines.                          *)
Finds(find, path, verb, method) ==
    find = [node \in Nodes \cup {<<>>} |-> FoundAt(node, find, path, verb, method)]

---------------------------------------------------------------------------
(* Induction *)

(* Among numbers there is a least one.                                        *)
LEMMA LeastNumber ==
    ASSUME NEW T, T \subseteq Nat, T # {}
    PROVE  \E m \in T : \A n \in T : m <= n
<1> DEFINE R == OpToRel(<, Nat)
<1>1. IsWellFoundedOn(R, Nat)
  BY NatLessThanWellFounded
<1>2. PICK m \in T : \A n \in T : ~(<<n, m>> \in R)
  BY <1>1, WFMin
<1>3. ASSUME NEW n \in T PROVE m <= n
  <2>1. n < m => <<n, m>> \in R
    BY DEF OpToRel
  <2> HIDE DEF R
  <2> QED
    BY <1>2, <2>1, m \in Nat, n \in Nat
<1> QED
  BY <1>3

(* A set of numbers that has 0, and each number's successor, has them all.    *)
LEMMA Induction ==
    ASSUME NEW S, 0 \in S, \A n \in Nat : n \in S => n + 1 \in S
    PROVE  Nat \subseteq S
<1> SUFFICES ASSUME ~(Nat \subseteq S) PROVE FALSE
  OBVIOUS
<1>1. PICK m \in Nat \ S : \A n \in Nat \ S : m <= n
  BY LeastNumber
<1>2. m - 1 \in Nat
  BY 0 \in S
<1>3. m - 1 \in S
  BY <1>1, <1>2
<1> QED
  BY <1>2, <1>3

---------------------------------------------------------------------------
(* The trie *)

LEMMA NodesAre ==
    ASSUME Trie
    PROVE  /\ Nodes \subseteq Seq(Symbols)
           /\ \A key \in DOMAIN trie : \A node \in Seq(Symbols) :
                 Below(key[1], node) => node \in Nodes
<1>1. ASSUME NEW key \in DOMAIN trie, NEW n \in 0 .. Len(key[1])
      PROVE  SubSeq(key[1], 1, n) \in Seq(Symbols)
  BY DEF Trie
<1>2. ASSUME NEW key \in DOMAIN trie, NEW node \in Seq(Symbols), Below(key[1], node)
      PROVE  node \in Nodes
  <2> DEFINE t == key[1]
  <2>1. t \in Seq(Symbols)
    BY DEF Trie
  <2>2. Len(node) \in 0 .. Len(t) /\ \A i \in 1 .. Len(node) : t[i] = node[i]
    BY <1>2, <2>1 DEF Below
  <2> HIDE DEF t
  <2>3. SubSeq(t, 1, Len(node)) = node
    BY <2>1, <2>2
  <2>4. SubSeq(t, 1, Len(node)) \in {SubSeq(t, 1, n) : n \in 0 .. Len(t)}
    BY <2>2
  <2> QED
    BY <2>3, <2>4 DEF Nodes, t
<1> QED
  BY <1>1, <1>2 DEF Nodes

LEMMA TemplatesAre ==
    ASSUME Trie, NEW verb, NEW t \in Templates(verb)
    PROVE  /\ t \in Seq(Symbols) /\ t # <<>> /\ \A i \in 1 .. Len(t) - 1 : t[i] # "**"
           /\ \A node \in Seq(Symbols) : Below(t, node) => node \in Nodes
BY NodesAre DEF Trie, Templates

(* A node that is no template of the verb has no target for it.               *)
LEMMA NoTarget ==
    ASSUME NEW node, NEW verb, NEW method
    PROVE  /\ node \notin Templates(verb) => GetTarget(node, verb, method) = None
           /\ node \in Templates(verb) => Matched(GetTarget(node, verb, method))
<1> DEFINE methods == {k[3] : k \in {key \in DOMAIN trie : key[1] = node /\ key[2] = verb}}
<1>1. GetTarget(node, verb, method).methods = methods
  BY DEF GetTarget
<1>2. ASSUME node \notin Templates(verb) PROVE GetTarget(node, verb, method) = None
  <2>1. methods = {}
    BY <1>2 DEF Templates
  <2> QED
    BY <2>1 DEF GetTarget, None
<1>3. ASSUME node \in Templates(verb) PROVE methods # {}
  BY <1>3 DEF Templates
<1> QED
  BY <1>1, <1>2, <1>3 DEF Matched

LEMMA NoneUnmatched == ~Matched(None)
BY DEF Matched, None

---------------------------------------------------------------------------
(* The recursion *)

(* Nothing but the nodes below matters to what is found at a node.            *)
LEMMA FoundDepends ==
    ASSUME NEW node, NEW path, NEW verb, NEW method, NEW find, NEW other,
           Len(node) < Len(path) =>
              \A s : Append(node, s) \in Nodes => find[Append(node, s)] = other[Append(node, s)]
    PROVE  FoundAt(node, find, path, verb, method) = FoundAt(node, other, path, verb, method)
<1>1. CASE Len(node) >= Len(path)
  BY <1>1 DEF FoundAt
<1>2. CASE ~(Len(node) >= Len(path))
  BY <1>2 DEF FoundAt
<1> QED
  BY <1>1, <1>2

(* findTarget ends: there is a function that satisfies its recursion, by      *)
(* induction on how much of the path is left.                                 *)
LEMMA FindExists ==
    ASSUME Trie, NEW path, Path(path), NEW verb, NEW method
    PROVE  \E find : Finds(find, path, verb, method)
<1> DEFINE All == Nodes \cup {<<>>}
           Right(find, n) ==
              /\ find = [node \in All |-> find[node]]
              /\ \A node \in All :
                    Len(node) + n >= Len(path) => find[node] = FoundAt(node, find, path, verb, method)
           S == {n \in Nat : \E find : Right(find, n)}
<1>1. \A node \in All : node \in Seq(Symbols) /\ Len(node) \in Nat
  <2>1. <<>> \in Seq(Symbols)
    OBVIOUS
  <2>2. \A node \in All : node \in Seq(Symbols)
    BY <2>1, NodesAre
  <2> QED
    BY <2>2
<1> Len(path) \in Nat
  BY DEF Path
<1>2. 0 \in S
  <2> DEFINE find == [node \in All |-> GetTarget(node, verb, method)]
  <2>1. ASSUME NEW node \in All, Len(node) + 0 >= Len(path)
        PROVE  find[node] = FoundAt(node, find, path, verb, method)
    <3>1. Len(node) >= Len(path)
      BY <1>1, <2>1
    <3> QED
      BY <3>1 DEF FoundAt
  <2>2. find = [node \in All |-> find[node]]
    OBVIOUS
  <2> HIDE DEF find
  <2>3. Right(find, 0)
    BY <2>1, <2>2
  <2> QED
    BY <2>3
<1>3. ASSUME NEW n \in Nat, n \in S PROVE n + 1 \in S
  <2>1. PICK less : Right(less, n)
    BY <1>3
  <2> DEFINE find == [node \in All |-> FoundAt(node, less, path, verb, method)]
  <2>2. ASSUME NEW node \in All, Len(node) + (n + 1) >= Len(path)
        PROVE  find[node] = FoundAt(node, find, path, verb, method)
    <3>1. ASSUME NEW s, Append(node, s) \in Nodes, Len(node) < Len(path)
          PROVE  less[Append(node, s)] = find[Append(node, s)]
      <4> DEFINE child == Append(node, s)
      <4>1. child \in All /\ Len(child) = Len(node) + 1
        BY <1>1, <3>1
      <4>2. Len(child) + n >= Len(path)
        BY <1>1, <2>2, <4>1
      <4> HIDE DEF child, All
      <4>3. less[child] = FoundAt(child, less, path, verb, method)
        BY <2>1, <4>1, <4>2
      <4> QED
        BY <4>1, <4>3 DEF child
    <3>2. FoundAt(node, less, path, verb, method) = FoundAt(node, find, path, verb, method)
      BY <3>1, FoundDepends
    <3> QED
      BY <3>2
  <2>3. find = [node \in All |-> find[node]]
    OBVIOUS
  <2> HIDE DEF find, All
  <2>4. Right(find, n + 1)
    BY <2>2, <2>3
  <2> QED
    BY <2>4
<1>4. Len(path) \in S
  BY <1>1, <1>2, <1>3, Induction
<1>5. PICK find : Right(find, Len(path))
  BY <1>4
<1>6. \A node \in All : Len(node) + Len(path) >= Len(path)
  BY <1>1
<1>7. \A node \in All : find[node] = FoundAt(node, find, path, verb, method)
  BY <1>5, <1>6
<1>8. find = [node \in All |-> FoundAt(node, find, path, verb, method)]
  BY <1>5, <1>7
<1> QED
  BY <1>8 DEF Finds

LEMMA FindTargetIs ==
    ASSUME Trie, NEW path, Path(path), NEW verb, NEW method
    PROVE  \E find : Finds(find, path, verb, method) /\ FindTarget(path, verb, method) = find[<<>>]
<1> DEFINE find == CHOOSE find : find = [node \in Nodes \cup {<<>>} |->
                                            FoundAt(node, find, path, verb, method)]
<1>1. Finds(find, path, verb, method)
  BY FindExists DEF Finds
<1>2. FindTarget(path, verb, method) = find[<<>>]
  BY DEF FindTarget
<1> QED
  BY <1>1, <1>2

---------------------------------------------------------------------------
(* Templates that fit *)

(* A node is on the way to a template that fits: before any "**", and with the *)
(* segments of the path or wildcards.                                         *)
OnWay(node, path) ==
    /\ node \in Seq(Symbols) /\ Len(node) <= Len(path)
    /\ \A i \in 1 .. Len(node) : node[i] # "**" /\ node[i] \in {"*", path[i]}

(* The segment a template has after a node on its way.                        *)
LEMMA NextSegment ==
    ASSUME Trie, NEW path, Path(path), NEW node, OnWay(node, path), NEW verb,
           NEW t \in Under(node, path, verb)
    PROVE  LET i == Len(node) + 1
           IN  IF Len(node) = Len(path) THEN t = node
               ELSE /\ i <= Len(t) /\ t[i] \in {path[i], "*", "**"}
                    /\ t[i] = "**" => t = Append(node, "**")
                    /\ Below(t, Append(node, t[i]))
<1> DEFINE i == Len(node) + 1
<1>1. /\ t \in Seq(Symbols) /\ t # <<>> /\ \A j \in 1 .. Len(t) - 1 : t[j] # "**"
      /\ Fits(t, path) /\ Len(node) <= Len(t) /\ \A j \in 1 .. Len(node) : t[j] = node[j]
  BY TemplatesAre DEF Under, Below
<1>2. /\ node \in Seq(Symbols) /\ Len(node) \in Nat /\ Len(node) <= Len(path)
      /\ \A j \in 1 .. Len(node) : node[j] # "**"
      /\ path \in Seq(Symbols) /\ Len(path) \in Nat \ {0}
  BY DEF OnWay, Path
<1>3. Len(t) \in Nat \ {0}
  BY <1>1
<1>4. CASE t[Len(t)] = "**"
  <2>1. Len(path) > Len(t) - 1 /\ \A j \in 1 .. Len(t) - 1 : t[j] \in {"*", path[j]}
    BY <1>1, <1>4 DEF Fits
  <2>2. Len(t) # Len(node)
    BY <1>1, <1>2, <1>3, <1>4
  <2>3. Len(node) # Len(path) /\ i <= Len(t)
    BY <1>1, <1>2, <1>3, <2>1, <2>2
  <2>4. t[i] \in {path[i], "*", "**"}
    BY <1>2, <1>3, <1>4, <2>1, <2>3
  <2>5. ASSUME t[i] = "**" PROVE t = Append(node, "**")
    <3>1. Len(t) = i
      BY <1>1, <1>2, <1>3, <2>3, <2>5
    <3> QED
      BY <1>1, <1>2, <2>5, <3>1
  <2>6. Below(t, Append(node, t[i]))
    BY <1>1, <1>2, <2>3 DEF Below
  <2> QED
    BY <2>3, <2>4, <2>5, <2>6
<1>5. CASE t[Len(t)] # "**"
  <2>1. Len(path) = Len(t) /\ \A j \in 1 .. Len(t) : t[j] \in {"*", path[j]}
    BY <1>1, <1>5 DEF Fits
  <2>2. CASE Len(node) = Len(path)
    BY <1>1, <1>2, <2>1, <2>2
  <2>3. CASE Len(node) # Len(path)
    <3>1. i \in 1 .. Len(t) /\ t[i] # "**" /\ t[i] \in {"*", path[i]}
      BY <1>1, <1>2, <1>3, <1>5, <2>1, <2>3
    <3>2. Below(t, Append(node, t[i]))
      BY <1>1, <1>2, <3>1 DEF Below
    <3> QED
      BY <2>3, <3>1, <3>2
  <2> QED
    BY <2>2, <2>3
<1> QED
  BY <1>4, <1>5

(* A "**" after a node on its way fits whatever is left.                      *)
LEMMA RestFits ==
    ASSUME NEW path, Path(path), NEW node, OnWay(node, path), Len(node) < Len(path)
    PROVE  Fits(Append(node, "**"), path) /\ Below(Append(node, "**"), node)
<1>1. node \in Seq(Symbols) /\ Len(node) \in Nat /\ Len(path) \in Nat
  BY DEF OnWay, Path
<1>2. /\ Len(Append(node, "**")) = Len(node) + 1
      /\ Append(node, "**")[Len(node) + 1] = "**"
      /\ \A i \in 1 .. Len(node) : Append(node, "**")[i] = node[i]
  BY <1>1
<1> QED
  BY <1>1, <1>2 DEF Fits, Below, OnWay

(* The first segment in which two templates differ decides.                   *)
LEMMA Ranked ==
    ASSUME NEW t \in Seq(Symbols), NEW u \in Seq(Symbols), NEW node \in Seq(Symbols),
           NEW a, NEW b, Rank(a) < Rank(b),
           Below(t, Append(node, a)), Below(u, Append(node, b))
    PROVE  MoreSpecific(t, u)
<1> DEFINE i == Len(node) + 1
<1>1. \A s : /\ Len(Append(node, s)) = i /\ Append(node, s)[i] = s
             /\ \A j \in 1 .. i - 1 : Append(node, s)[j] = node[j]
  OBVIOUS
<1>2. i \in Nat \ {0} /\ i \in DOMAIN t /\ i \in DOMAIN u
  BY <1>1 DEF Below
<1>3. t[i] = a /\ u[i] = b /\ \A j \in 1 .. i - 1 : t[j] = u[j]
  BY <1>1, <1>2 DEF Below
<1> HIDE DEF i
<1> QED
  BY <1>2, <1>3 DEF MoreSpecific

LEMMA SegmentRank ==
    /\ \A s : Segment(s) => Rank(s) = 0 /\ s # "*" /\ s # "**"
    /\ Rank("*") = 1 /\ Rank("**") = 2
BY DEF Segment, Rank

(* What is found says whether there is a template.                            *)
LEMMA AnswerMatched ==
    ASSUME NEW found, NEW verb, NEW method, NEW templates, templates \subseteq Templates(verb),
           Answer(found, templates, verb, method)
    PROVE  Matched(found) <=> templates # {}
BY NoTarget, NoneUnmatched DEF Answer, MostSpecific

(* The templates below a node that still has segments to come.                *)
LEMMA UnderChildren ==
    ASSUME Trie, NEW path, Path(path), NEW node, OnWay(node, path), Len(node) < Len(path),
           NEW verb
    PROVE  LET literal == Append(node, path[Len(node) + 1])
               star == Append(node, "*")
               rest == Append(node, "**")
           IN  /\ Under(node, path, verb) = Under(literal, path, verb) \cup Under(star, path, verb)
                                              \cup (Templates(verb) \cap {rest})
               /\ OnWay(literal, path) /\ OnWay(star, path)
<1> DEFINE i == Len(node) + 1
           child(s) == Append(node, s)
<1>1. /\ node \in Seq(Symbols) /\ Len(node) \in Nat /\ path \in Seq(Symbols)
      /\ i \in 1 .. Len(path) /\ Segment(path[i])
  BY DEF OnWay, Path
<1>2. ASSUME NEW s \in {path[i], "*"}
      PROVE  OnWay(child(s), path) /\ Under(child(s), path, verb) \subseteq Under(node, path, verb)
  <2>1. s \in Symbols /\ s # "**"
    BY <1>1 DEF Segment, Symbols
  <2>2. /\ child(s) \in Seq(Symbols) /\ Len(child(s)) = i /\ child(s)[i] = s
        /\ \A j \in 1 .. Len(node) : child(s)[j] = node[j]
    BY <1>1, <2>1
  <2>3. \A j \in 1 .. i : j \in 1 .. Len(node) \/ j = i
    BY <1>1
  <2> HIDE DEF child
  <2>4. OnWay(child(s), path)
    BY <1>1, <2>1, <2>2, <2>3 DEF OnWay
  <2>5. ASSUME NEW t \in Under(child(s), path, verb) PROVE t \in Under(node, path, verb)
    BY <1>1, <2>2, TemplatesAre DEF Under, Below
  <2> QED
    BY <2>4, <2>5
<1>3. ASSUME child("**") \in Templates(verb) PROVE child("**") \in Under(node, path, verb)
  BY <1>3, RestFits DEF Under
<1>4. ASSUME NEW t \in Under(node, path, verb)
      PROVE  t \in Under(child(path[i]), path, verb) \cup Under(child("*"), path, verb)
                  \cup (Templates(verb) \cap {child("**")})
  <2>1. t \in Templates(verb) /\ Fits(t, path)
    BY DEF Under
  <2>2. Len(node) # Len(path)
    BY <1>1
  <2>3. /\ t[i] \in {path[i], "*", "**"} /\ Below(t, child(t[i]))
        /\ t[i] = "**" => t = child("**")
    BY <2>2, NextSegment
  <2> QED
    BY <2>1, <2>3 DEF Under
<1> HIDE DEF child
<1>5. Under(node, path, verb) = Under(child(path[i]), path, verb) \cup Under(child("*"), path, verb)
                                   \cup (Templates(verb) \cap {child("**")})
  BY <1>2, <1>3, <1>4
<1> QED
  BY <1>2, <1>5 DEF child

---------------------------------------------------------------------------
(* What findTarget finds *)

(* At a node: the most specific template below it that fits, as the literal   *)
(* is tried before the wildcard and that before the rest.                     *)
LEMMA AnswerAt ==
    ASSUME Trie, NEW path, Path(path), NEW verb, NEW method,
           NEW find, Finds(find, path, verb, method),
           NEW node \in Nodes \cup {<<>>}, OnWay(node, path),
           Len(node) < Len(path) => \A s : LET child == Append(node, s) IN
              child \in Nodes /\ OnWay(child, path) =>
                 Answer(find[child], Under(child, path, verb), verb, method)
    PROVE  Answer(find[node], Under(node, path, verb), verb, method)
<1> DEFINE i == Len(node) + 1
           child(s) == Append(node, s)
           found(s) == IF child(s) \in Nodes THEN find[child(s)] ELSE None
           below(s) == Under(child(s), path, verb)
           rest == IF child("**") \in Nodes THEN GetTarget(child("**"), verb, method) ELSE None
           all == Under(node, path, verb)
<1>1. /\ node \in Seq(Symbols) /\ Len(node) \in Nat /\ Len(path) \in Nat
      /\ Len(node) <= Len(path)
  BY DEF OnWay, Path
<1>2. find[node] = FoundAt(node, find, path, verb, method)
  BY DEF Finds
<1>3. CASE Len(node) = Len(path)
  <2>1. find[node] = GetTarget(node, verb, method)
    BY <1>1, <1>2, <1>3 DEF FoundAt
  <2>2. \A t \in all : t = node
    BY <1>3, NextSegment
  <2>3. node \in Templates(verb) => node \in all
    <3>1. Len(node) # 0
      BY <1>3 DEF Path
    <3>2. node[Len(node)] # "**"
      BY <1>1, <3>1 DEF OnWay
    <3>3. Fits(node, path)
      BY <1>1, <1>3, <3>2 DEF Fits, OnWay
    <3> QED
      BY <1>1, <3>3 DEF Under, Below
  <2>4. CASE node \in all
    BY <2>1, <2>2, <2>4 DEF Answer, MostSpecific
  <2>5. CASE node \notin all
    <3>1. all = {}
      BY <2>2, <2>5
    <3>2. find[node] = None
      BY <2>1, <2>3, <2>5, NoTarget
    <3> QED
      BY <3>1, <3>2 DEF Answer
  <2> QED
    BY <2>4, <2>5
<1>4. CASE Len(node) < Len(path)
  <2>1. /\ all = below(path[i]) \cup below("*") \cup (Templates(verb) \cap {child("**")})
        /\ OnWay(child(path[i]), path) /\ OnWay(child("*"), path) /\ Segment(path[i])
    <3>1. i \in DOMAIN path
      BY <1>1, <1>4 DEF Path
    <3> QED
      BY <1>4, <3>1, UnderChildren DEF Path
  <2>2. find[node] = IF Matched(found(path[i])) THEN found(path[i])
                     ELSE IF Matched(found("*")) THEN found("*") ELSE rest
    BY <1>1, <1>2, <1>4 DEF FoundAt
  <2>3. ASSUME NEW s \in {path[i], "*"}
        PROVE  /\ Answer(found(s), below(s), verb, method)
               /\ Matched(found(s)) <=> below(s) # {}
    <3>1. OnWay(child(s), path) /\ child(s) \in Seq(Symbols)
      BY <2>1 DEF OnWay
    <3>2. ASSUME child(s) \in Nodes PROVE Answer(found(s), below(s), verb, method)
      <4>1. Answer(find[child(s)], below(s), verb, method)
        BY <1>4, <3>1, <3>2
      <4>2. found(s) = find[child(s)]
        BY <3>2
      <4> HIDE DEF found, below, child
      <4> QED
        BY <4>1, <4>2
    <3>3. ASSUME child(s) \notin Nodes PROVE Answer(found(s), below(s), verb, method)
      <4>1. below(s) = {} /\ found(s) = None
        BY <3>1, <3>3, TemplatesAre DEF Under
      <4> HIDE DEF found, below, child
      <4> QED
        BY <4>1 DEF Answer
    <3>4. below(s) \subseteq Templates(verb)
      BY DEF Under
    <3>5. Answer(found(s), below(s), verb, method)
      BY <3>2, <3>3
    <3> HIDE DEF found, below
    <3> QED
      BY <3>4, <3>5, AnswerMatched
  <2>4. /\ Below(child("**"), child("**")) /\ child("**") \in Seq(Symbols)
    <3>1. child("**") \in Seq(Symbols)
      BY <1>1 DEF Symbols
    <3> HIDE DEF child
    <3> QED
      BY <3>1 DEF Below
  <2>5. ASSUME NEW s \in {path[i], "*"}, NEW t \in below(s)
        PROVE  t \in Seq(Symbols) /\ Below(t, child(s))
    BY <2>5, TemplatesAre DEF Under
  <2>6. ASSUME child("**") \in Templates(verb) PROVE child("**") \in Nodes
    BY <2>4, <2>6, TemplatesAre
  <2>7. CASE below(path[i]) # {}
    <3>1. PICK t \in below(path[i]) : /\ MostSpecific(t, below(path[i]))
                                     /\ found(path[i]) = GetTarget(t, verb, method)
      BY <2>3, <2>7 DEF Answer
    <3>2. ASSUME NEW u \in all PROVE u = t \/ MoreSpecific(t, u)
      <4>1. t \in Seq(Symbols) /\ Below(t, child(path[i]))
        BY <2>5
      <4>2. CASE u \in below("*")
        BY <1>1, <2>1, <2>5, <4>1, <4>2, Ranked, SegmentRank
      <4>3. CASE u = child("**")
        <5>1. Rank(path[i]) < Rank("**")
          BY <2>1, SegmentRank
        <5>2. MoreSpecific(t, child("**"))
          BY <1>1, <2>4, <4>1, <5>1, Ranked
        <5> QED
          BY <4>3, <5>2
      <4> QED
        BY <2>1, <3>1, <4>2, <4>3 DEF MostSpecific
    <3>3. find[node] = GetTarget(t, verb, method)
      BY <2>2, <2>3, <2>7, <3>1
    <3> QED
      BY <2>1, <3>1, <3>2, <3>3 DEF Answer, MostSpecific
  <2>8. CASE below(path[i]) = {} /\ below("*") # {}
    <3>1. PICK t \in below("*") : /\ MostSpecific(t, below("*"))
                                 /\ found("*") = GetTarget(t, verb, method)
      BY <2>3, <2>8 DEF Answer
    <3>2. ASSUME NEW u \in all PROVE u = t \/ MoreSpecific(t, u)
      <4>1. t \in Seq(Symbols) /\ Below(t, child("*"))
        BY <2>5
      <4>2. CASE u = child("**")
        <5>1. Rank("*") < Rank("**")
          BY SegmentRank
        <5>2. MoreSpecific(t, child("**"))
          BY <1>1, <2>4, <4>1, <5>1, Ranked
        <5> QED
          BY <4>2, <5>2
      <4> QED
        BY <2>1, <2>8, <3>1, <4>2 DEF MostSpecific
    <3>3. find[node] = GetTarget(t, verb, method)
      BY <2>2, <2>3, <2>8, <3>1
    <3> QED
      BY <2>1, <3>1, <3>2, <3>3 DEF Answer, MostSpecific
  <2>9. CASE below(path[i]) = {} /\ below("*") = {}
    <3>1. find[node] = rest
      BY <2>2, <2>3, <2>9
    <3>2. all = Templates(verb) \cap {child("**")}
      BY <2>1, <2>9
    <3>3. CASE child("**") \in Templates(verb)
      <4>1. all = {child("**")} /\ find[node] = GetTarget(child("**"), verb, method)
        BY <2>6, <3>1, <3>2, <3>3
      <4> HIDE DEF child
      <4>2. MostSpecific(child("**"), all) /\ child("**") \in all
        BY <4>1 DEF MostSpecific
      <4> QED
        BY <4>1, <4>2 DEF Answer
    <3>4. CASE child("**") \notin Templates(verb)
      <4>1. all = {} /\ find[node] = None
        BY <3>1, <3>2, <3>4, NoTarget
      <4> QED
        BY <4>1 DEF Answer
    <3> QED
      BY <3>3, <3>4
  <2> QED
    BY <2>7, <2>8, <2>9
<1> QED
  BY <1>1, <1>3, <1>4

(* And at every node on the way, by induction on how much of the path is left.*)
LEMMA AnswersBelow ==
    ASSUME Trie, NEW path, Path(path), NEW verb, NEW method,
           NEW find, Finds(find, path, verb, method)
    PROVE  \A node \in Nodes \cup {<<>>} :
              OnWay(node, path) => Answer(find[node], Under(node, path, verb), verb, method)
<1> DEFINE All == Nodes \cup {<<>>}
           Answered(node) == Answer(find[node], Under(node, path, verb), verb, method)
           S == {n \in Nat : \A node \in All :
                    OnWay(node, path) /\ Len(node) + n >= Len(path) => Answered(node)}
<1>1. Len(path) \in Nat /\ \A node \in Seq(Symbols) : Len(node) \in Nat
  BY DEF Path
<1>2. 0 \in S
  <2>1. ASSUME NEW node \in All, OnWay(node, path), Len(node) + 0 >= Len(path)
        PROVE  Answered(node)
    <3>1. ~(Len(node) < Len(path))
      BY <1>1, <2>1 DEF OnWay
    <3> QED
      BY <2>1, <3>1, AnswerAt
  <2> QED
    BY <2>1
<1>3. ASSUME NEW n \in Nat, n \in S PROVE n + 1 \in S
  <2>1. ASSUME NEW node \in All, OnWay(node, path), Len(node) + (n + 1) >= Len(path)
        PROVE  Answered(node)
    <3>1. ASSUME NEW s, Append(node, s) \in Nodes, OnWay(Append(node, s), path)
          PROVE  Answered(Append(node, s))
      <4>1. Len(Append(node, s)) + n >= Len(path)
        BY <1>1, <2>1 DEF OnWay
      <4> QED
        BY <1>3, <3>1, <4>1
    <3> QED
      BY <2>1, <3>1, AnswerAt
  <2> QED
    BY <2>1
<1> HIDE DEF S
<1>4. Len(path) \in S
  BY <1>1, <1>2, <1>3, Induction
<1>5. ASSUME NEW node \in All, OnWay(node, path) PROVE Answered(node)
  <2>1. Len(node) + Len(path) >= Len(path)
    BY <1>1, <1>5 DEF OnWay
  <2> QED
    BY <1>4, <1>5, <2>1 DEF S
<1> QED
  BY <1>5

(* So from the root: the most specific of all templates that fit the path.    *)
LEMMA FindTargetAnswers ==
    ASSUME Trie, NEW path, Path(path), NEW verb, NEW method
    PROVE  Answer(FindTarget(path, verb, method), {t \in Templates(verb) : Fits(t, path)},
                  verb, method)
<1>1. PICK find : /\ Finds(find, path, verb, method)
                  /\ FindTarget(path, verb, method) = find[<<>>]
  BY FindTargetIs
<1>2. OnWay(<<>>, path)
  BY DEF OnWay, Path
<1>3. Answer(find[<<>>], Under(<<>>, path, verb), verb, method)
  BY <1>1, <1>2, AnswersBelow
<1>4. \A t \in Templates(verb) : Below(t, <<>>)
  BY TemplatesAre DEF Below
<1>5. Under(<<>>, path, verb) = {t \in Templates(verb) : Fits(t, path)}
  BY <1>4 DEF Under
<1> QED
  BY <1>1, <1>3, <1>5

---------------------------------------------------------------------------
(* What the rules say *)

(* The trie is that of the rules.                                             *)
Routes ==
    /\ DOMAIN trie = {Key(t.binding) : t \in Targets}
    /\ \A t \in Targets : trie[Key(t.binding)] = t

(* Of two templates at most one is more specific.                             *)
LEMMA OneMoreSpecific ==
    ASSUME NEW t \in Seq(Symbols), NEW u \in Seq(Symbols), MoreSpecific(t, u)
    PROVE  ~MoreSpecific(u, t)
<1> SUFFICES ASSUME MoreSpecific(u, t) PROVE FALSE
  OBVIOUS
<1>1. PICK i \in DOMAIN t \cap DOMAIN u :
         Rank(t[i]) < Rank(u[i]) /\ \A j \in 1 .. i - 1 : t[j] = u[j]
  BY DEF MoreSpecific
<1>2. PICK k \in DOMAIN t \cap DOMAIN u :
         Rank(u[k]) < Rank(t[k]) /\ \A j \in 1 .. k - 1 : u[j] = t[j]
  BY DEF MoreSpecific
<1>3. \A s : Rank(s) \in {0, 1, 2}
  BY DEF Rank
<1>4. i \in Nat \ {0} /\ k \in Nat \ {0}
  OBVIOUS
<1>5. CASE i = k
  BY <1>1, <1>2, <1>3, <1>5
<1>6. CASE i < k
  <2>1. t[i] = u[i]
    BY <1>2, <1>4, <1>6
  <2> QED
    BY <1>1, <1>3, <2>1
<1>7. CASE k < i
  <2>1. t[k] = u[k]
    BY <1>1, <1>4, <1>7
  <2> QED
    BY <1>2, <1>3, <2>1
<1> QED
  BY <1>4, <1>5, <1>6, <1>7

(* Then what findTarget finds is the best of the rules.                       *)
LEMMA FindsBest ==
    ASSUME Routes, Trie, NEW path, Path(path), NEW verb, NEW method
    PROVE  FindTarget(path, verb, method) = Best(path, verb, method)
<1> DEFINE found == FindTarget(path, verb, method)
           templates == {t \in Templates(verb) : Fits(t, path)}
           fitting == {t \in Targets : t.binding.verb = verb /\ Fits(t.binding.path, path)}
           best == {t \in fitting : ~\E u \in fitting : MoreSpecific(u.binding.path, t.binding.path)}
           named(m) == {t \in best : t.binding.method = m}
           methods == {t.binding.method : t \in best}
<1>1. Best(path, verb, method) =
         [target |-> IF named(method) # {} THEN named(method) ELSE named("*"), methods |-> methods]
  BY DEF Best
<1> \A t : Key(t.binding)[1] = t.binding.path /\ Key(t.binding)[2] = t.binding.verb
          /\ Key(t.binding)[3] = t.binding.method
  BY DEF Key
<1>2. templates = {t.binding.path : t \in fitting}
  <2>1. ASSUME NEW n \in templates PROVE \E t \in fitting : n = t.binding.path
    <3>1. PICK key \in DOMAIN trie : key[1] = n /\ key[2] = verb
      BY DEF Templates
    <3>2. PICK t \in Targets : key = Key(t.binding)
      BY DEF Routes
    <3> QED
      BY <3>1, <3>2
  <2>2. ASSUME NEW t \in fitting PROVE t.binding.path \in templates
    <3>1. Key(t.binding) \in DOMAIN trie
      BY DEF Routes
    <3> QED
      BY <3>1 DEF Templates
  <2> QED
    BY <2>1, <2>2
<1>3. Answer(found, templates, verb, method)
  BY FindTargetAnswers
<1>4. CASE templates = {}
  <2>1. found = None
    BY <1>3, <1>4 DEF Answer
  <2>2. best = {}
    BY <1>2, <1>4
  <2> HIDE DEF best
  <2> QED
    BY <1>1, <2>1, <2>2 DEF None
<1>5. CASE templates # {}
  <2>1. PICK n \in templates : MostSpecific(n, templates) /\ found = GetTarget(n, verb, method)
    BY <1>3, <1>5 DEF Answer
  <2>2. \A t \in templates : t \in Seq(Symbols)
    BY TemplatesAre
  <2>3. \A t \in templates : ~MoreSpecific(t, n)
    <3>1. ~MoreSpecific(n, n)
      BY <2>2, OneMoreSpecific
    <3> QED
      BY <2>1, <2>2, <3>1, OneMoreSpecific DEF MostSpecific
  <2>4. best = {t \in Targets : t.binding.path = n /\ t.binding.verb = verb}
    <3>1. \A t \in fitting : t \in best <=> t.binding.path = n
      BY <1>2, <2>1, <2>3 DEF MostSpecific
    <3> QED
      BY <3>1
  <2>5. {k[3] : k \in {key \in DOMAIN trie : key[1] = n /\ key[2] = verb}} = methods
    <3>1. ASSUME NEW key \in DOMAIN trie, key[1] = n, key[2] = verb PROVE key[3] \in methods
      <4>1. PICK t \in Targets : key = Key(t.binding)
        BY DEF Routes
      <4> QED
        BY <2>4, <3>1, <4>1
    <3>2. ASSUME NEW t \in best
          PROVE  \E key \in DOMAIN trie :
                    key[1] = n /\ key[2] = verb /\ key[3] = t.binding.method
      BY <2>4 DEF Routes
    <3> QED
      BY <3>1, <3>2
  <2>6. \A m : /\ m \in methods => named(m) = {trie[<<n, verb, m>>]}
               /\ m \notin methods => named(m) = {}
    BY <2>4 DEF Routes, Key
  <2> HIDE DEF best, named, methods
  <2>7. found = [target |-> IF method \in methods THEN named(method)
                            ELSE IF "*" \in methods THEN named("*") ELSE {},
                 methods |-> methods]
    BY <2>1, <2>5, <2>6 DEF GetTarget
  <2>8. (IF method \in methods THEN named(method)
         ELSE IF "*" \in methods THEN named("*") ELSE {})
        = IF named(method) # {} THEN named(method) ELSE named("*")
    <3>1. \A m : named(m) # {} <=> m \in methods
      BY <2>6
    <3> QED
      BY <2>6, <3>1
  <2>9. found.target = Best(path, verb, method).target
    BY <1>1, <2>7, <2>8
  <2>10. found.methods = Best(path, verb, method).methods
    BY <1>1, <2>7
  <2>11. /\ found = [target |-> found.target, methods |-> found.methods]
         /\ Best(path, verb, method) = [target |-> Best(path, verb, method).target,
                                        methods |-> Best(path, verb, method).methods]
    BY <1>1, <2>7
  <2> QED
    BY <2>9, <2>10, <2>11
<1> QED
  BY <1>4, <1>5

(* And match answers as expected: a verb's route first, then the segment's.   *)
LEMMA MatchIsExpected ==
    ASSUME Routes, Trie, NEW path \in Paths, NEW verb \in Verbs, NEW method
    PROVE  Match(path, verb, method) = Expected(path, verb, method)
<1>1. Path(path)
  <2>1. path \in Seq(STRING) /\ path # <<>> /\ \A i \in DOMAIN path : Segment(path[i])
    BY PathAssumption
  <2>2. path \in Seq(Symbols)
    BY <2>1 DEF Symbols
  <2> QED
    BY <2>1, <2>2 DEF Path
<1>2. FindTarget(path, verb, method) = Best(path, verb, method)
  BY <1>1, FindsBest
<1>3. ASSUME verb # ""
      PROVE  FindTarget(JoinedPath(path, verb), "", method) = Best(JoinedPath(path, verb), "", method)
  <2>1. Segment(Joined(path[Len(path)], verb))
    BY <1>3, PathAssumption
  <2>2. Path(JoinedPath(path, verb))
    BY <1>1, <2>1 DEF Path, Segment, Symbols, JoinedPath
  <2> QED
    BY <2>2, FindsBest
<1>4. CASE verb = ""
  BY <1>2, <1>4 DEF Match, Expected
<1>5. CASE verb # ""
  <2>1. FindTarget(JoinedPath(path, verb), "", method) = Best(JoinedPath(path, verb), "", method)
    BY <1>3, <1>5
  <2> QED
    BY <1>2, <1>5, <2>1 DEF Match, Fallback, Expected
<1> QED
  BY <1>4, <1>5

---------------------------------------------------------------------------
(* Mount and the client *)

(* The places whose rules have been added; every one, once Mount succeeds.    *)
Done ==
    {<<p, 0>> : p \in Procedures \ todo}
    \cup {<<config.external[n].procedure, n>> : n \in 1 .. next - 1}

(* Mount goes over the methods first, each once, and then over WithRules.     *)
Progress ==
    /\ config \in Configs /\ todo \subseteq Procedures
    /\ next \in 1 .. Len(config.external) + 1
    /\ phase \in {"embedded", "external", "serving", "failed", "calling"}
    /\ \A p \in todo : config.embedded[p] # <<>>
    /\ phase = "embedded" => next = 1
    /\ phase \in {"external", "serving", "calling"} => todo = {}
    /\ phase \in {"serving", "calling"} => next = Len(config.external) + 1

(* The trie holds the bindings added so far and nothing else, each under its  *)
(* own key and with its own method.                                           *)
Routed(x) == \A b \in ToSet(BindingsAt(x)) : trie[Key(b)] = Target(x[1], b)
Exact ==
    /\ DOMAIN trie = UNION {Keys(BindingsAt(x)) : x \in Done}
    /\ \A x \in Done : x[1] \in Procedures /\ Distinct(BindingsAt(x)) /\ Routed(x)
    /\ \A x, y \in Done : x # y => Disjoint(x, y)
Filled ==
    phase # "failed" =>
        /\ Exact
        /\ \A n \in 1 .. next - 1 : \A b \in ToSet(config.external[n].bindings) : b.supported

(* A method is known by its own rule, or by the first of WithRules so far.    *)
FirstIs(p, n) ==
    /\ config.external[n].procedure = p /\ primary[p] = {config.external[n].bindings[1]}
    /\ \A m \in 1 .. n - 1 : config.external[m].procedure # p
NotGiven(p) == primary[p] = {} /\ \A n \in 1 .. next - 1 : config.external[n].procedure # p
KnownBy ==
    /\ DOMAIN primary = Procedures
    /\ phase # "failed" => \A p \in Procedures :
          IF config.embedded[p] # <<>> THEN p \notin todo => primary[p] = {config.embedded[p][1]}
          ELSE NotGiven(p) \/ \E n \in 1 .. next - 1 : FirstIs(p, n)

Keyed == \A k \in DOMAIN trie : Key(trie[k].binding) = k /\ trie[k].procedure \in Procedures

RouterInv ==
    /\ Progress /\ Keyed /\ Filled /\ KnownBy
    /\ phase = "failed" => Conflict \/ Misdirected

(* A cached or returned rule is the one the server has for the method, and    *)
(* nobody calls before the server does.                                       *)
CallType ==
    [pc : {"idle", "load", "resolve", "done"}, procedure : Known \cup {""},
     schema : {s.schema : s \in Specs} \cup {"none"}, rule : SUBSET Bindings]
Refused(c) ==
    call[c].rule = {} /\ (call[c].schema = "none" \/ ServerRule(call[c].procedure) = {})
Agreed ==
    /\ DOMAIN cache = Known /\ call \in [Callers -> CallType]
    /\ \A p \in Known : cache[p] # {} => phase = "calling" /\ cache[p] = ServerRule(p)
    /\ \A c \in Callers :
          /\ call[c].pc = "idle" => call[c] = Idle
          /\ call[c].pc # "idle" => phase = "calling" /\ call[c].procedure \in Known
          /\ call[c].pc = "done" => Refused(c) \/ call[c].rule = ServerRule(call[c].procedure)

TransportInv == RouterInv /\ Agreed

---------------------------------------------------------------------------
(* Rules and keys *)

(* What ConfigAssumption says of the rules at hand.                           *)
LEMMA Rules ==
    ASSUME config \in Configs
    PROVE  /\ Len(config.external) \in Nat /\ DOMAIN config.external = 1 .. Len(config.external)
           /\ \A p \in Procedures :
                 /\ \A b \in ToSet(config.embedded[p]) : BindingOK(b)
                 /\ config.embedded[p] # <<>> =>
                       config.embedded[p][1] \in ToSet(config.embedded[p])
           /\ \A n \in DOMAIN config.external :
                 /\ \A b \in ToSet(config.external[n].bindings) : BindingOK(b)
                 /\ config.external[n].bindings[1] \in ToSet(config.external[n].bindings)
<1>1. ConfigOK(config)
  BY ConfigAssumption
<1>2. config.external \in Seq([procedure : STRING, bindings : Seq(Bindings)])
  BY <1>1 DEF ConfigOK
<1>3. Len(config.external) \in Nat /\ DOMAIN config.external = 1 .. Len(config.external)
  BY <1>2
<1>4. ASSUME NEW p \in Procedures
      PROVE  /\ \A b \in ToSet(config.embedded[p]) : BindingOK(b)
             /\ config.embedded[p] # <<>> => config.embedded[p][1] \in ToSet(config.embedded[p])
  <2> DEFINE bs == config.embedded[p]
  <2>1. bs \in Seq(Bindings) /\ \A i \in DOMAIN bs : BindingOK(bs[i])
    BY <1>1 DEF ConfigOK
  <2> HIDE DEF bs
  <2>2. bs # <<>> => 1 \in DOMAIN bs
    BY <2>1
  <2> QED
    BY <2>1, <2>2 DEF ToSet, bs
<1>5. ASSUME NEW n \in DOMAIN config.external
      PROVE  /\ \A b \in ToSet(config.external[n].bindings) : BindingOK(b)
             /\ config.external[n].bindings[1] \in ToSet(config.external[n].bindings)
  <2> DEFINE bs == config.external[n].bindings
  <2>1. config.external[n] \in [procedure : STRING, bindings : Seq(Bindings)]
    <3> DEFINE R == [procedure : STRING, bindings : Seq(Bindings)]
    <3>1. config.external \in Seq(R) /\ n \in 1 .. Len(config.external)
      BY <1>2, <1>3
    <3> HIDE DEF R
    <3>2. config.external[n] \in R
      BY <3>1
    <3> QED
      BY <3>2 DEF R
  <2>2. bs \in Seq(Bindings)
    BY <2>1
  <2>3. bs # <<>> /\ \A i \in DOMAIN bs : BindingOK(bs[i])
    BY <1>1 DEF ConfigOK
  <2> HIDE DEF bs
  <2>4. 1 \in DOMAIN bs
    BY <2>2, <2>3
  <2> QED
    BY <2>3, <2>4 DEF ToSet, bs
<1> QED
  BY <1>3, <1>4, <1>5

LEMMA KeysOf == ASSUME NEW bs PROVE Keys(bs) = {Key(b) : b \in ToSet(bs)}
BY DEF Keys, ToSet

(* Of distinct bindings a key names one.                                      *)
LEMMA OneBinding ==
    ASSUME NEW bs, Distinct(bs), NEW b \in ToSet(bs)
    PROVE  (CHOOSE d \in ToSet(bs) : Key(d) = Key(b)) = b
<1>1. \A d \in ToSet(bs) : Key(d) = Key(b) => d = b
  BY DEF Distinct, ToSet
<1> HIDE DEF Key
<1> QED
  BY <1>1

(* insert adds the new routes and leaves the old ones as they are.            *)
LEMMA RoutesAdded ==
    ASSUME NEW p, NEW bs, CanInsert(bs)
    PROVE  /\ DOMAIN WithRoutes(p, bs) = DOMAIN trie \cup Keys(bs)
           /\ \A k \in DOMAIN trie : k \notin Keys(bs) /\ WithRoutes(p, bs)[k] = trie[k]
           /\ \A b \in ToSet(bs) : WithRoutes(p, bs)[Key(b)] = Target(p, b)
<1>1. Distinct(bs) /\ Keys(bs) \cap DOMAIN trie = {}
  BY DEF CanInsert, Free
<1>2. DOMAIN WithRoutes(p, bs) = DOMAIN trie \cup Keys(bs)
  BY DEF WithRoutes
<1>3. ASSUME NEW k \in DOMAIN trie
      PROVE  k \notin Keys(bs) /\ WithRoutes(p, bs)[k] = trie[k]
  BY <1>1 DEF WithRoutes
<1>4. ASSUME NEW b \in ToSet(bs)
      PROVE  WithRoutes(p, bs)[Key(b)] = Target(p, b)
  <2>1. Key(b) \in Keys(bs)
    BY KeysOf
  <2>2. (CHOOSE d \in ToSet(bs) : Key(d) = Key(b)) = b
    BY <1>1, OneBinding
  <2> HIDE DEF Key, Keys, Target
  <2>3. WithRoutes(p, bs)[Key(b)] = Target(p, CHOOSE d \in ToSet(bs) : Key(d) = Key(b))
    BY <2>1 DEF WithRoutes
  <2> QED
    BY <2>2, <2>3
<1> QED
  BY <1>2, <1>3, <1>4

LEMMA BindingsOf ==
    /\ \A p : BindingsAt(<<p, 0>>) = config.embedded[p]
    /\ \A p, n : n # 0 => BindingsAt(<<p, n>>) = config.external[n].bindings
BY DEF BindingsAt

---------------------------------------------------------------------------
(* One more place *)

LEMMA PlacesStay ==
    ASSUME UNCHANGED config
    PROVE  /\ \A x : BindingsAt(x)' = BindingsAt(x)
           /\ \A x, y : Disjoint(x, y)' <=> Disjoint(x, y)
           /\ Places' = Places
BY DEF BindingsAt, Disjoint, Places

(* Adding the rules of one more place to an exact trie leaves it exact.       *)
LEMMA PlaceAdded ==
    ASSUME Exact, Keyed, UNCHANGED config,
           NEW x, x \notin Done, x[1] \in Procedures, Done' = Done \cup {x},
           CanInsert(BindingsAt(x)), trie' = WithRoutes(x[1], BindingsAt(x))
    PROVE  Exact' /\ Keyed'
<1> DEFINE bs == BindingsAt(x)
<1>1. /\ DOMAIN trie' = DOMAIN trie \cup Keys(bs)
      /\ \A k \in DOMAIN trie : k \notin Keys(bs) /\ trie'[k] = trie[k]
      /\ \A b \in ToSet(bs) : trie'[Key(b)] = Target(x[1], b)
  BY RoutesAdded
<1>2. \A y : BindingsAt(y)' = BindingsAt(y)
  BY PlacesStay
<1>3. Keyed'
  <2>1. ASSUME NEW k \in Keys(bs)
        PROVE  Key(trie'[k].binding) = k /\ trie'[k].procedure \in Procedures
    <3>1. PICK b \in ToSet(bs) : k = Key(b)
      BY <2>1, KeysOf
    <3>2. trie'[k] = [procedure |-> x[1], binding |-> b]
      BY <1>1, <3>1 DEF Target
    <3> QED
      BY <3>1, <3>2
  <2> QED
    BY <1>1, <2>1 DEF Keyed
<1>4. DOMAIN trie' = UNION {Keys(BindingsAt(y)) : y \in Done \cup {x}}
  BY <1>1 DEF Exact
<1>5. ASSUME NEW y \in Done
      PROVE  Keys(BindingsAt(y)) \subseteq DOMAIN trie /\ Disjoint(y, x) /\ Disjoint(x, y)
  <2>1. Keys(BindingsAt(y)) \subseteq DOMAIN trie
    BY DEF Exact
  <2> QED
    BY <1>1, <2>1 DEF Disjoint
<1>6. ASSUME NEW y \in Done \cup {x}
      PROVE  /\ y[1] \in Procedures /\ Distinct(BindingsAt(y))
             /\ \A b \in ToSet(BindingsAt(y)) : trie'[Key(b)] = Target(y[1], b)
  <2>1. CASE y = x
    BY <1>1, <2>1 DEF CanInsert
  <2>2. CASE y \in Done
    <3>1. y[1] \in Procedures /\ Distinct(BindingsAt(y)) /\ Routed(y)
      BY <2>2 DEF Exact
    <3>2. ASSUME NEW b \in ToSet(BindingsAt(y)) PROVE trie'[Key(b)] = Target(y[1], b)
      <4>1. Key(b) \in DOMAIN trie
        BY <1>5, <2>2, KeysOf
      <4> QED
        BY <1>1, <3>1, <4>1 DEF Routed
    <3> QED
      BY <3>1, <3>2
  <2> QED
    BY <2>1, <2>2
<1>7. \A y, z \in Done \cup {x} : y # z => Disjoint(y, z)
  BY <1>5 DEF Exact
<1>8. Exact'
  <2>1. \A y \in Done' : y[1] \in Procedures /\ Distinct(BindingsAt(y)') /\ Routed(y)'
    BY <1>2, <1>6 DEF Routed
  <2>2. \A y, z \in Done' : y # z => Disjoint(y, z)'
    BY <1>7, PlacesStay
  <2>3. DOMAIN trie' = UNION {Keys(BindingsAt(y)') : y \in Done'}
    BY <1>2, <1>4
  <2> QED
    BY <2>1, <2>2, <2>3 DEF Exact
<1> QED
  BY <1>3, <1>8

(* What else happens to a trie that gets no more rules.                       *)
LEMMA PlacesKept ==
    ASSUME UNCHANGED <<config, trie>>, Done' = Done
    PROVE  (Exact => Exact') /\ (Keyed => Keyed')
<1>1. /\ \A x : BindingsAt(x)' = BindingsAt(x)
      /\ \A x, y : Disjoint(x, y)' <=> Disjoint(x, y)
  BY PlacesStay
<1>2. \A x : Routed(x)' <=> Routed(x)
  BY <1>1 DEF Routed
<1> QED
  BY <1>1, <1>2 DEF Exact, Keyed

(* A rule insert refuses, while the trie is exact, is in conflict with itself *)
(* or with another.                                                           *)
LEMMA RefusedIsConflict ==
    ASSUME Exact, Done \subseteq Places, NEW x \in Places, x \notin Done,
           ~CanInsert(BindingsAt(x))
    PROVE  Conflict
<1>1. CASE ~Distinct(BindingsAt(x))
  BY <1>1 DEF Conflict
<1>2. CASE Keys(BindingsAt(x)) \cap DOMAIN trie # {}
  <2>1. PICK y \in Done : Keys(BindingsAt(x)) \cap Keys(BindingsAt(y)) # {}
    BY <1>2 DEF Exact
  <2> QED
    BY <2>1 DEF Conflict, Disjoint
<1> QED
  BY <1>1, <1>2 DEF CanInsert, Free

---------------------------------------------------------------------------
(* Mount *)

LEMMA DoneArePlaces == Progress => Done \subseteq Places
<1> SUFFICES ASSUME Progress PROVE Done \subseteq Places
  OBVIOUS
<1>1. 1 .. next - 1 \subseteq DOMAIN config.external
  BY Rules DEF Progress
<1> QED
  BY <1>1 DEF Done, Places

LEMMA RouterInit == Init => RouterInv
<1> SUFFICES ASSUME Init PROVE RouterInv
  OBVIOUS
<1>1. config \in Configs /\ next = 1 /\ phase = "embedded" /\ trie = <<>>
  BY DEF Init
<1>2. Progress
  BY <1>1, Rules DEF Init, Progress
<1>3. DOMAIN trie = {}
  BY <1>1
<1>4. ASSUME NEW x \in Done PROVE BindingsAt(x) = <<>> /\ x[1] \in Procedures
  <2>1. PICK p \in Procedures \ todo : x = <<p, 0>>
    BY <1>1 DEF Done
  <2>2. config.embedded[p] = <<>>
    BY <2>1 DEF Init
  <2> QED
    BY <2>1, <2>2 DEF BindingsAt
<1>5. Keys(<<>>) = {} /\ ToSet(<<>>) = {} /\ Distinct(<<>>)
  BY DEF Keys, ToSet, Distinct
<1>6. Exact
  BY <1>3, <1>4, <1>5 DEF Exact, Routed, Disjoint
<1>7. Filled /\ Keyed
  BY <1>1, <1>3, <1>6 DEF Filled, Keyed
<1>8. KnownBy
  BY <1>1 DEF Init, KnownBy, NotGiven
<1> QED
  BY <1>1, <1>2, <1>7, <1>8 DEF RouterInv

LEMMA Verdicts == ASSUME UNCHANGED config PROVE Conflict' = Conflict /\ Misdirected' = Misdirected
<1>1. /\ \A x : BindingsAt(x)' = BindingsAt(x)
      /\ \A x, y : Disjoint(x, y)' <=> Disjoint(x, y)
      /\ Places' = Places
  BY PlacesStay
<1> QED
  BY <1>1 DEF Conflict, Misdirected

LEMMA EmbeddedStep ==
    ASSUME RouterInv, NEW p \in Procedures, AddEmbedded(p)
    PROVE  RouterInv'
<1> DEFINE x == <<p, 0>>
<1>1. /\ phase = "embedded" /\ p \in todo /\ todo' = todo \ {p}
      /\ UNCHANGED <<config, next>> /\ next = 1
      /\ config.embedded[p] # <<>>
  BY DEF AddEmbedded, RouterInv, Progress
<1>2. BindingsAt(x) = config.embedded[p] /\ x[1] = p /\ x \notin Done /\ x \in Places
  BY <1>1 DEF BindingsAt, Done, Places
<1>3. Exact /\ Keyed
  BY <1>1 DEF RouterInv, Filled
<1>4. CASE CanInsert(config.embedded[p])
  <2>1. /\ trie' = WithRoutes(p, config.embedded[p]) /\ UNCHANGED phase
        /\ primary' = [primary EXCEPT ![p] = {config.embedded[p][1]}]
    BY <1>4 DEF AddEmbedded
  <2>2. Done' = Done \cup {x}
    BY <1>1 DEF Done
  <2>3. Exact' /\ Keyed'
    BY <1>1, <1>2, <1>3, <1>4, <2>1, <2>2, PlaceAdded
  <2>4. Progress' /\ Filled'
    BY <1>1, <2>1, <2>3 DEF RouterInv, Progress, Filled
  <2>5. KnownBy'
    <3>1. DOMAIN primary = Procedures /\ DOMAIN primary' = Procedures
      BY <2>1 DEF RouterInv, KnownBy
    <3>2. ASSUME NEW q \in Procedures, config.embedded[q] # <<>>, q \notin todo'
          PROVE  primary'[q] = {config.embedded[q][1]}
      BY <1>1, <2>1, <3>1, <3>2 DEF RouterInv, KnownBy
    <3>3. ASSUME NEW q \in Procedures, config.embedded[q] = <<>>
          PROVE  primary'[q] = {}
      BY <1>1, <2>1, <3>1, <3>3 DEF RouterInv, KnownBy, NotGiven
    <3> QED
      BY <1>1, <3>1, <3>2, <3>3 DEF KnownBy, NotGiven
  <2> QED
    BY <1>1, <2>1, <2>3, <2>4, <2>5 DEF RouterInv
<1>5. CASE ~CanInsert(config.embedded[p])
  <2>1. phase' = "failed" /\ UNCHANGED <<trie, primary>>
    BY <1>5 DEF AddEmbedded
  <2>2. Conflict'
    BY <1>1, <1>2, <1>3, <1>5, DoneArePlaces, RefusedIsConflict, Verdicts DEF RouterInv
  <2>3. Progress' /\ Filled' /\ KnownBy' /\ Keyed'
    BY <1>1, <2>1 DEF RouterInv, Progress, Filled, KnownBy, Keyed
  <2> QED
    BY <2>2, <2>3 DEF RouterInv
<1> QED
  BY <1>4, <1>5

LEMMA ExternalStep == ASSUME RouterInv, AddExternal PROVE RouterInv'
<1> DEFINE rule == config.external[next]
           x == <<rule.procedure, next>>
<1>1. /\ phase = "external" /\ UNCHANGED <<config, todo>> /\ todo = {}
      /\ next \in DOMAIN config.external /\ next \in Nat \ {0} /\ next' = next + 1
      /\ Len(config.external) \in Nat
  BY Rules DEF AddExternal, RouterInv, Progress
<1>2. BindingsAt(x) = rule.bindings /\ x[1] = rule.procedure /\ x \notin Done /\ x \in Places
  <2>1. BindingsAt(x) = rule.bindings
    BY <1>1, BindingsOf
  <2>2. x \notin Done
    BY <1>1 DEF Done
  <2> QED
    BY <1>1, <2>1, <2>2 DEF Places
<1>3. Exact /\ Keyed
  BY <1>1 DEF RouterInv, Filled
<1>4. Progress' \/ phase' \notin {"external", "failed"}
  <2>1. next + 1 \in 1 .. Len(config.external) + 1
    BY <1>1 DEF AddExternal
  <2> QED
    BY <1>1, <2>1 DEF RouterInv, Progress
<1>5. CASE /\ rule.procedure \in Procedures /\ CanInsert(rule.bindings)
           /\ \A i \in DOMAIN rule.bindings : rule.bindings[i].supported
  <2>1. /\ trie' = WithRoutes(rule.procedure, rule.bindings) /\ UNCHANGED phase
        /\ primary' = [primary EXCEPT ![rule.procedure] = Kept(@, {rule.bindings[1]})]
    BY <1>5 DEF AddExternal
  <2>2. Done' = Done \cup {x}
    <3>1. 1 .. next' - 1 = 1 .. next - 1 \cup {next}
      BY <1>1
    <3> QED
      BY <1>1, <3>1 DEF Done
  <2>3. Exact' /\ Keyed'
    BY <1>1, <1>2, <1>3, <1>5, <2>1, <2>2, PlaceAdded
  <2>4. Filled'
    <3>1. \A b \in ToSet(rule.bindings) : b.supported
      BY <1>5 DEF ToSet
    <3>2. \A n \in 1 .. next - 1 : \A b \in ToSet(config.external[n].bindings) : b.supported
      BY <1>1 DEF RouterInv, Filled
    <3>3. \A n \in 1 .. next' - 1 : n = next \/ n \in 1 .. next - 1
      BY <1>1
    <3> QED
      BY <1>1, <2>3, <3>1, <3>2, <3>3 DEF Filled
  <2>5. KnownBy'
    <3>1. DOMAIN primary = Procedures /\ DOMAIN primary' = Procedures
      BY <2>1 DEF RouterInv, KnownBy
    <3>2. ASSUME NEW q \in Procedures, config.embedded[q] # <<>>
          PROVE  primary'[q] = {config.embedded[q][1]}
      <4>1. primary[q] = {config.embedded[q][1]}
        BY <1>1, <3>2 DEF RouterInv, KnownBy
      <4> QED
        BY <2>1, <3>1, <4>1 DEF Kept
    <3>3. ASSUME NEW q \in Procedures, config.embedded[q] = <<>>
          PROVE  NotGiven(q)' \/ \E n \in 1 .. next' - 1 : FirstIs(q, n)'
      <4>1. CASE NotGiven(q) /\ q = rule.procedure
        <5>1. primary'[q] = {rule.bindings[1]}
          BY <2>1, <3>1, <4>1 DEF NotGiven, Kept
        <5>2. PICK n \in Nat \ {0} : n = next
          BY <1>1
        <5>3. FirstIs(q, n)'
          BY <1>1, <4>1, <5>1, <5>2 DEF NotGiven, FirstIs
        <5> QED
          BY <1>1, <5>2, <5>3
      <4>2. CASE NotGiven(q) /\ q # rule.procedure
        <5>1. primary'[q] = {}
          BY <2>1, <3>1, <4>2 DEF NotGiven
        <5>2. \A n \in 1 .. next' - 1 : config.external[n].procedure # q
          BY <1>1, <4>2 DEF NotGiven
        <5> QED
          BY <1>1, <5>1, <5>2 DEF NotGiven
      <4>3. ASSUME NEW n \in 1 .. next - 1, FirstIs(q, n)
            PROVE  \E m \in 1 .. next' - 1 : FirstIs(q, m)'
        <5>1. primary'[q] = primary[q]
          BY <2>1, <3>1, <4>3 DEF FirstIs, Kept
        <5>2. FirstIs(q, n)' /\ n \in 1 .. next' - 1
          BY <1>1, <4>3, <5>1 DEF FirstIs
        <5> QED
          BY <5>2
      <4> QED
        BY <1>1, <3>3, <4>1, <4>2, <4>3 DEF RouterInv, KnownBy
    <3> QED
      BY <1>1, <3>1, <3>2, <3>3 DEF KnownBy
  <2> QED
    BY <1>1, <1>4, <2>1, <2>3, <2>4, <2>5 DEF RouterInv
<1>6. CASE ~(/\ rule.procedure \in Procedures /\ CanInsert(rule.bindings)
             /\ \A i \in DOMAIN rule.bindings : rule.bindings[i].supported)
  <2>1. phase' = "failed" /\ UNCHANGED <<trie, primary>>
    BY <1>6 DEF AddExternal
  <2>2. CASE CanInsert(rule.bindings)
    <3>1. rule \in ToSet(config.external)
      BY <1>1 DEF ToSet
    <3>2. rule.procedure \notin Procedures \/ \E b \in ToSet(rule.bindings) : ~b.supported
      BY <1>6, <2>2 DEF ToSet
    <3>3. Misdirected
      BY <3>1, <3>2 DEF Misdirected
    <3> QED
      BY <1>1, <1>4, <2>1, <3>3, Verdicts DEF RouterInv, Filled, KnownBy, Keyed
  <2>3. CASE ~CanInsert(rule.bindings)
    <3>1. Conflict
      BY <1>2, <1>3, <2>3, DoneArePlaces, RefusedIsConflict DEF RouterInv
    <3> QED
      BY <1>1, <1>4, <2>1, <3>1, Verdicts DEF RouterInv, Filled, KnownBy, Keyed
  <2> QED
    BY <2>2, <2>3
<1> QED
  BY <1>5, <1>6

(* The steps that add no rules: the phases change, and calls start.           *)
LEMMA PhaseStep ==
    ASSUME RouterInv, EmbeddedDone \/ Serve \/ Dial \/ UNCHANGED vars
    PROVE  RouterInv'
<1>1. UNCHANGED <<config, todo, next, trie, primary>>
  BY DEF EmbeddedDone, Serve, Dial, vars
<1>2. Done' = Done
  BY <1>1 DEF Done
<1>3. Exact => Exact'
  BY <1>1, <1>2, PlacesKept
<1>4. phase' = phase \/ (phase # "failed" /\ phase' # "failed")
  BY DEF EmbeddedDone, Serve, Dial, vars
<1>5. Progress'
  <2>1. Len(config.external) \in Nat
    BY Rules DEF RouterInv, Progress
  <2> QED
    BY <1>1, <2>1 DEF RouterInv, Progress, EmbeddedDone, Serve, Dial, vars
<1>6. Keyed' /\ Filled'
  BY <1>1, <1>3, <1>4 DEF RouterInv, Keyed, Filled
<1>7. KnownBy'
  BY <1>1, <1>4 DEF RouterInv, KnownBy, NotGiven, FirstIs
<1> QED
  BY <1>1, <1>4, <1>5, <1>6, <1>7, Verdicts DEF RouterInv

LEMMA RouterStep == ASSUME RouterInv, Next \/ Dial \/ UNCHANGED vars PROVE RouterInv'
BY EmbeddedStep, ExternalStep, PhaseStep DEF Next, Mounted

---------------------------------------------------------------------------
(* What Mount leaves behind *)

LEMMA AllDone ==
    ASSUME RouterInv, phase \in {"serving", "calling"}
    PROVE  /\ todo = {} /\ next = Len(config.external) + 1 /\ Done = Places
           /\ Exact /\ 1 .. next - 1 = DOMAIN config.external
<1>1. todo = {} /\ next = Len(config.external) + 1
  BY DEF RouterInv, Progress
<1>2. 1 .. next - 1 = DOMAIN config.external
  BY <1>1, Rules DEF RouterInv, Progress
<1> QED
  BY <1>1, <1>2 DEF RouterInv, Filled, Done, Places

LEMMA PrimaryDone ==
    ASSUME RouterInv, phase \in {"serving", "calling"}, NEW p \in Procedures
    PROVE  primary[p] = FirstRule(p)
<1>1. 1 .. next - 1 = DOMAIN config.external /\ p \notin todo
  BY AllDone
<1>2. CASE config.embedded[p] # <<>>
  BY <1>1, <1>2 DEF RouterInv, KnownBy, FirstRule
<1>3. CASE config.embedded[p] = <<>> /\ NotGiven(p)
  BY <1>1, <1>3 DEF FirstRule, NotGiven
<1>4. ASSUME config.embedded[p] = <<>>, NEW n \in DOMAIN config.external, FirstIs(p, n)
      PROVE  primary[p] = FirstRule(p)
  <2> DEFINE given == {i \in DOMAIN config.external : config.external[i].procedure = p}
  <2>1. DOMAIN config.external \subseteq Nat
    BY Rules DEF RouterInv, Progress
  <2>2. n \in given /\ \A k \in given : n <= k
    <3>1. ASSUME NEW k \in given, k < n PROVE FALSE
      <4>1. k \in 1 .. n - 1
        BY <2>1, <3>1, Rules DEF RouterInv, Progress
      <4> QED
        BY <1>4, <3>1, <4>1 DEF FirstIs
    <3> QED
      BY <1>4, <2>1, <3>1 DEF FirstIs
  <2>3. {j \in given : \A k \in given : j <= k} = {n}
    <3>1. ASSUME NEW j \in given, \A k \in given : j <= k PROVE j = n
      <4>1. j <= n /\ n <= j /\ j \in Nat /\ n \in Nat
        BY <2>1, <2>2, <3>1
      <4> QED
        BY <4>1
    <3> QED
      BY <2>2, <3>1
  <2>4. FirstRule(p) = {config.external[i].bindings[1] : i \in {n}}
    BY <1>4, <2>3 DEF FirstRule
  <2> QED
    BY <1>4, <2>4 DEF FirstIs
<1> QED
  BY <1>1, <1>2, <1>3, <1>4 DEF RouterInv, KnownBy

(* The rule a method is known by is one of its rules, and in the trie.        *)
LEMMA PrimaryRouted ==
    ASSUME RouterInv, phase \in {"serving", "calling"},
           NEW p \in Procedures, NEW b \in primary[p]
    PROVE  BindingOK(b) /\ trie[Key(b)] = Target(p, b)
<1>1. PICK x \in Places : x[1] = p /\ b \in ToSet(BindingsAt(x)) /\ BindingOK(b)
  <2>1. config \in Configs /\ 1 .. next - 1 = DOMAIN config.external /\ p \notin todo
    BY AllDone DEF RouterInv, Progress
  <2>2. CASE config.embedded[p] # <<>>
    <3>1. b = config.embedded[p][1] /\ b \in ToSet(config.embedded[p])
      BY <2>1, <2>2, Rules DEF RouterInv, KnownBy
    <3>2. BindingsAt(<<p, 0>>) = config.embedded[p] /\ <<p, 0>> \in Places
      BY DEF BindingsAt, Places
    <3> QED
      BY <2>1, <3>1, <3>2, Rules
  <2>3. CASE config.embedded[p] = <<>>
    <3>1. PICK n \in DOMAIN config.external : FirstIs(p, n)
      BY <2>1, <2>3 DEF RouterInv, KnownBy, NotGiven
    <3>2. n # 0
      BY <2>1, Rules
    <3>3. BindingsAt(<<p, n>>) = config.external[n].bindings /\ <<p, n>> \in Places
      BY <3>1, <3>2, BindingsOf DEF Places, FirstIs
    <3>4. b = config.external[n].bindings[1]
      BY <3>1 DEF FirstIs
    <3> QED
      BY <2>1, <3>3, <3>4, Rules
  <2> QED
    BY <2>2, <2>3
<1>2. Routed(x)
  BY <1>1, AllDone DEF Exact
<1> QED
  BY <1>1, <1>2 DEF Routed

(* Mount has served only if there was nothing to refuse.                      *)
LEMMA NothingRefused ==
    ASSUME RouterInv, phase \in {"serving", "calling"}
    PROVE  ~Conflict /\ ~Misdirected
<1>1. ~Conflict
  BY AllDone DEF Exact, Conflict
<1>2. ASSUME NEW r \in ToSet(config.external)
      PROVE  r.procedure \in Procedures /\ \A b \in ToSet(r.bindings) : b.supported
  <2>1. PICK n \in DOMAIN config.external : r = config.external[n]
    BY DEF ToSet
  <2>2. <<r.procedure, n>> \in Done
    BY <2>1, AllDone DEF Places
  <2>3. r.procedure \in Procedures
    BY <2>2, AllDone DEF Exact
  <2>4. \A b \in ToSet(r.bindings) : b.supported
    BY <2>1, AllDone DEF RouterInv, Filled
  <2> QED
    BY <2>3, <2>4
<1> QED
  BY <1>1, <1>2 DEF Misdirected

---------------------------------------------------------------------------
(* The calls *)

(* Client and server choose the same rule.                                    *)
LEMMA SameRule ==
    ASSUME RouterInv, phase = "calling", NEW p
    PROVE  {b \in Rule(p) : b.supported} = ServerRule(p) /\ ServerRule(p) \in SUBSET Bindings
<1>1. CASE p \in Procedures
  <2>1. primary[p] = FirstRule(p)
    BY <1>1, PrimaryDone
  <2>2. Rule(p) = FirstRule(p)
    <3>1. {j \in DOMAIN config.external : config.external[j].procedure = p
              /\ \A k \in DOMAIN config.external : config.external[k].procedure = p => j <= k}
          = LET given == {i \in DOMAIN config.external : config.external[i].procedure = p}
            IN  {j \in given : \A k \in given : j <= k}
      OBVIOUS
    <3> QED
      BY <1>1, <3>1 DEF Rule, ExternalRule, FirstRule
  <2>3. \A b \in primary[p] : b \in Bindings
    BY <1>1, PrimaryRouted DEF BindingOK
  <2> QED
    BY <1>1, <2>1, <2>2, <2>3 DEF ServerRule
<1>2. CASE p \notin Procedures
  <2>1. \A n \in DOMAIN config.external : config.external[n].procedure # p
    BY <1>2, NothingRefused DEF Misdirected, ToSet
  <2>2. Rule(p) = {}
    BY <1>2, <2>1 DEF Rule, ExternalRule
  <2> QED
    BY <1>2, <2>2 DEF ServerRule
<1> QED
  BY <1>1, <1>2

LEMMA TransportBegins == TransportInit => TransportInv
<1> SUFFICES ASSUME TransportInit PROVE TransportInv
  OBVIOUS
<1>1. RouterInv
  BY RouterInit DEF TransportInit
<1>2. Idle \in CallType
  BY DEF Idle, CallType
<1>3. Agreed
  BY <1>2 DEF TransportInit, Agreed, Idle
<1> QED
  BY <1>1, <1>3 DEF TransportInv

(* A call moves; the routes and the cache are as they were, or the cache has  *)
(* one more rule of the server's.                                             *)
LEMMA OneCallMoves ==
    ASSUME TransportInv, UNCHANGED vars, phase = "calling",
           NEW c \in Callers, NEW to \in CallType, call' = [call EXCEPT ![c] = to],
           to.pc # "idle", to.procedure \in Known,
           to.pc = "done" => \/ to.rule = ServerRule(to.procedure)
                             \/ to.rule = {} /\ to.schema = "none",
           DOMAIN cache' = Known,
           \A p \in Known : cache'[p] \in {cache[p], {}, ServerRule(p)}
    PROVE  TransportInv'
<1>1. RouterInv' /\ phase' = "calling"
  BY RouterStep DEF TransportInv, vars
<1>2. \A p : ServerRule(p)' = ServerRule(p)
  BY DEF ServerRule, vars
<1>3. call' \in [Callers -> CallType]
  BY DEF TransportInv, Agreed
<1>4. \A p \in Known : cache'[p] # {} => cache'[p] = ServerRule(p)'
  BY <1>2 DEF TransportInv, Agreed
<1>5. ASSUME NEW d \in Callers
      PROVE  /\ call'[d].pc = "idle" => call'[d] = Idle
             /\ call'[d].pc # "idle" => call'[d].procedure \in Known
             /\ call'[d].pc = "done" =>
                   \/ call'[d].rule = ServerRule(call'[d].procedure)
                   \/ /\ call'[d].rule = {}
                      /\ call'[d].schema = "none" \/ ServerRule(call'[d].procedure) = {}
  <2>1. call \in [Callers -> CallType]
    BY DEF TransportInv, Agreed
  <2>2. CASE d = c
    <3>1. call'[d] = to
      BY <2>1, <2>2
    <3> QED
      BY <3>1
  <2>3. CASE d # c
    <3>1. call'[d] = call[d]
      BY <2>1, <2>3
    <3> QED
      BY <3>1 DEF Refused, TransportInv, Agreed
  <2> QED
    BY <2>2, <2>3
<1>6. Agreed'
  <2>1. \A d \in Callers : call'[d].pc = "done" =>
            Refused(d)' \/ (call[d].rule = ServerRule(call[d].procedure))'
    <3>1. UNCHANGED primary
      BY DEF vars
    <3>2. ASSUME NEW d \in Callers
          PROVE  (ServerRule(call[d].procedure))' = ServerRule(call'[d].procedure)
      BY <3>1, Zenon DEF ServerRule
    <3> HIDE DEF ServerRule
    <3> QED
      BY <1>5, <3>2 DEF Refused
  <2> QED
    BY <1>1, <1>3, <1>4, <1>5, <2>1 DEF Agreed
<1> QED
  BY <1>1, <1>6 DEF TransportInv

(* Nobody has called yet, and this step does not either.                      *)
LEMMA BeforeCalls ==
    ASSUME TransportInv, Mounting \/ Dial
    PROVE  TransportInv'
<1>1. RouterInv' /\ UNCHANGED <<cache, call>> /\ phase # "calling"
  BY RouterStep DEF TransportInv, Mounting, Dial, Next, AddEmbedded, EmbeddedDone, AddExternal,
                    Serve, Mounted
<1>2. /\ \A p \in Known : cache[p] = {}
      /\ \A c \in Callers : call[c].pc = "idle" /\ call[c] = Idle
  BY <1>1 DEF TransportInv, Agreed
<1>3. Agreed'
  BY <1>1, <1>2 DEF TransportInv, Agreed
<1> QED
  BY <1>1, <1>3 DEF TransportInv

LEMMA NewCallStep ==
    ASSUME TransportInv, NEW c \in Callers, NEW spec \in Specs, NewClientStream(c, spec)
    PROVE  TransportInv'
<1> DEFINE to == [pc |-> "load", procedure |-> spec.procedure, schema |-> spec.schema, rule |-> {}]
<1>1. to \in CallType /\ to.procedure \in Known
  BY DEF CallType, Known
<1>2. /\ call' = [call EXCEPT ![c] = to] /\ to.pc = "load" /\ phase = "calling"
      /\ UNCHANGED <<vars, cache>>
  BY DEF NewClientStream
<1> HIDE DEF to
<1> QED
  BY <1>1, <1>2, OneCallMoves DEF TransportInv, Agreed

LEMMA LoadStep ==
    ASSUME TransportInv, NEW c \in Callers, Load(c)
    PROVE  TransportInv'
<1> DEFINE p == call[c].procedure
           to == IF cache[p] # {} THEN [call[c] EXCEPT !.pc = "done", !.rule = cache[p]]
                                  ELSE [call[c] EXCEPT !.pc = "resolve"]
<1>1. /\ call[c] \in CallType /\ p \in Known /\ phase = "calling" /\ UNCHANGED <<vars, cache>>
      /\ DOMAIN cache = Known /\ call \in [Callers -> CallType] /\ call[c].pc = "load"
  BY DEF Load, TransportInv, Agreed
<1>2. cache[p] # {} => cache[p] = ServerRule(p) /\ cache[p] \in SUBSET Bindings
  BY <1>1, SameRule DEF TransportInv, Agreed
<1>3. call' = [call EXCEPT ![c] = to]
  BY <1>1 DEF Load, Answers
<1>4. /\ to \in CallType /\ to.pc # "idle" /\ to.procedure = p
      /\ to.pc = "done" => to.rule = ServerRule(p)
  BY <1>1, <1>2 DEF CallType
<1> HIDE DEF to
<1> QED
  BY <1>1, <1>3, <1>4, OneCallMoves

LEMMA ResolveStep ==
    ASSUME TransportInv, NEW c \in Callers, Resolve(c)
    PROVE  TransportInv'
<1> DEFINE p == call[c].procedure
           rule == IF call[c].schema = "none" THEN {} ELSE {b \in Rule(p) : b.supported}
           to == [call[c] EXCEPT !.pc = "done", !.rule = rule]
<1>1. /\ call[c] \in CallType /\ p \in Known /\ phase = "calling" /\ UNCHANGED vars
      /\ DOMAIN cache = Known /\ call \in [Callers -> CallType]
  BY DEF Resolve, TransportInv, Agreed
<1>2. /\ (rule = {} /\ call[c].schema = "none") \/ rule = ServerRule(p)
      /\ rule \in SUBSET Bindings
  BY <1>1, SameRule DEF TransportInv
<1>3. /\ call' = Answers(c, rule) /\ cache' = [cache EXCEPT ![p] = IF @ = {} THEN rule ELSE @]
  BY DEF Resolve
<1> HIDE DEF rule
<1>4. call' = [call EXCEPT ![c] = to]
  BY <1>1, <1>3 DEF Answers
<1>5. /\ to \in CallType /\ to.pc = "done" /\ to.procedure = p /\ to.rule = rule
      /\ to.schema = call[c].schema
  BY <1>1, <1>2 DEF CallType
<1>6. /\ DOMAIN cache' = Known
      /\ \A q \in Known : cache'[q] \in {cache[q], {}, ServerRule(q)}
  BY <1>1, <1>2, <1>3
<1> HIDE DEF to
<1> QED
  BY <1>1, <1>2, <1>4, <1>5, <1>6, OneCallMoves

LEMMA TransportStep == TransportInv /\ [TransportNext]_transportVars => TransportInv'
<1> SUFFICES ASSUME TransportInv, [TransportNext]_transportVars PROVE TransportInv'
  OBVIOUS
<1>1. CASE UNCHANGED transportVars
  <2>1. UNCHANGED <<vars, cache, call>> /\ phase' = phase
    BY <1>1 DEF transportVars, vars
  <2>2. RouterInv'
    BY <2>1, RouterStep DEF TransportInv
  <2>3. \A p : ServerRule(p)' = ServerRule(p)
    BY <2>1 DEF ServerRule, vars
  <2>4. \A c : Refused(c)' <=> Refused(c)
    BY <2>1, <2>3 DEF Refused
  <2>5. Agreed'
    BY <2>1, <2>3, <2>4 DEF TransportInv, Agreed
  <2> QED
    BY <2>2, <2>5 DEF TransportInv
<1>2. CASE Called
  BY <1>1, <1>2 DEF Called
<1> QED
  BY <1>1, <1>2, BeforeCalls, NewCallStep, LoadStep, ResolveStep DEF TransportNext

---------------------------------------------------------------------------
(* What the routes are once Mount has succeeded *)

LEMMA RulesRouted == ASSUME RouterInv, phase = "serving" PROVE Routes
<1>1. Exact /\ Done = Places
  BY AllDone
<1>2. \A t : t \in Targets <=>
          \E x \in Places : \E b \in ToSet(BindingsAt(x)) : t = Target(x[1], b)
  BY DEF Targets
<1>3. \A t \in Targets : trie[Key(t.binding)] = t
  BY <1>1, <1>2 DEF Exact, Routed, Target
<1>4. \A k : k \in DOMAIN trie <=> \E x \in Places : \E b \in ToSet(BindingsAt(x)) : k = Key(b)
  BY <1>1, KeysOf DEF Exact
<1>5. \A x, b : Target(x[1], b).binding = b
  BY DEF Target
<1>6. \A k : k \in DOMAIN trie <=> \E t \in Targets : k = Key(t.binding)
  BY <1>2, <1>4, <1>5
<1> QED
  BY <1>3, <1>6 DEF Routes

LEMMA TemplatesKept == ASSUME RouterInv, phase = "serving" PROVE Trie
<1>1. \A x \in Places : \A b \in ToSet(BindingsAt(x)) : BindingOK(b)
  <2>1. config \in Configs
    BY DEF RouterInv, Progress
  <2> QED
    BY <2>1, Rules, BindingsOf DEF Places
<1>2. ASSUME NEW key \in DOMAIN trie
      PROVE  /\ key[1] \in Seq(Symbols) /\ key[1] # <<>>
             /\ \A i \in 1 .. Len(key[1]) - 1 : key[1][i] # "**"
  <2>1. PICK b : BindingOK(b) /\ key = Key(b)
    BY <1>1, RulesRouted DEF Routes, Targets, Target
  <2>2. key[1] = b.path
    BY <2>1 DEF Key
  <2>3. b.path \in Seq(STRING)
    BY <2>1 DEF BindingOK, Bindings
  <2>4. b.path \in Seq(Symbols)
    BY <2>3 DEF Symbols
  <2> QED
    BY <2>1, <2>2, <2>4 DEF BindingOK
<1> QED
  BY <1>2 DEF Trie

---------------------------------------------------------------------------
(* Theorems *)

(* The inductive invariant of the routes and of the client's calls.           *)
THEOREM Invariance == TransportSpec => []TransportInv
BY TransportBegins, TransportStep, PTL DEF TransportSpec

(* The routes, the cache and the calls keep their types (resolveMethods and   *)
(* resolveMethod).                                                            *)
THEOREM TypeCorrect == TransportSpec => []TransportTypeOK
<1>1. TransportInv => TransportTypeOK
  <2> SUFFICES ASSUME TransportInv PROVE TransportTypeOK
    OBVIOUS
  <2>1. phase # "calling" => TypeOK
    BY DEF TransportInv, RouterInv, Progress, Keyed, TypeOK
  <2>2. phase # "calling" => call = [c \in Callers |-> Idle]
    BY DEF TransportInv, Agreed
  <2>3. ASSUME NEW p \in Known, NEW rule \in cache[p] PROVE BindingOK(rule)
    <3>1. phase = "calling" /\ p \in Procedures /\ rule \in primary[p]
      BY <2>3 DEF TransportInv, Agreed, ServerRule
    <3> QED
      BY <3>1, PrimaryRouted DEF TransportInv
  <2>4. \A c \in Callers : call[c].pc \in {"idle", "load", "resolve", "done"}
    BY DEF TransportInv, Agreed, CallType
  <2> QED
    BY <2>1, <2>2, <2>3, <2>4 DEF TransportTypeOK
<1> QED
  BY <1>1, Invariance, PTL

(* Mount fails exactly for rules in conflict or rules it cannot serve, in     *)
(* whatever order it visits the methods (addMethod and insert).               *)
THEOREM MountIsDecided == TransportSpec => []MountDecided
<1>1. TransportInv => MountDecided
  BY NothingRefused DEF TransportInv, RouterInv, MountDecided
<1> QED
  BY <1>1, Invariance, PTL

(* A method keeps the first rule it was given as the one it is known by       *)
(* (method.httpRule).                                                         *)
THEOREM FirstRuleIsPrimary == TransportSpec => []PrimaryIsFirst
<1>1. TransportInv => PrimaryIsFirst
  BY PrimaryDone DEF TransportInv, PrimaryIsFirst
<1> QED
  BY <1>1, Invariance, PTL

(* Once Mount has succeeded the routes are exactly the rules (insert).        *)
THEOREM EveryRuleIsRouted == TransportSpec => []RoutesAreTheRules
<1>1. TransportInv => RoutesAreTheRules
  BY RulesRouted DEF TransportInv, RoutesAreTheRules, Routes
<1> QED
  BY <1>1, Invariance, PTL

(* match answers every request as the rules say: the most specific template   *)
(* that fits decides, for a route without the request's verb the one of the   *)
(* whole final segment (match, findTarget and getTarget).                     *)
THEOREM BestIsMatched == TransportSpec => []MatchesBest
<1>1. TransportInv => MatchesBest
  BY RulesRouted, TemplatesKept, MatchIsExpected DEF TransportInv, MatchesBest
<1> QED
  BY <1>1, Invariance, PTL

(* Client and server agree on the rule of a method, whichever caller resolved *)
(* it first (resolveMethod against resolveMethods).                           *)
THEOREM ClientAndServerAgree == TransportSpec => []ClientAgrees
<1>1. TransportInv => ClientAgrees
  <2> SUFFICES ASSUME TransportInv, NEW c \in Callers, call[c].pc = "done"
               PROVE  LET p == call[c].procedure
                      IN IF call[c].rule = {} THEN call[c].schema = "none" \/ ServerRule(p) = {}
                         ELSE /\ call[c].rule = ServerRule(p)
                              /\ \A b \in call[c].rule : trie[Key(b)] = Target(p, b)
    BY DEF ClientAgrees
  <2>1. phase = "calling" /\ (Refused(c) \/ call[c].rule = ServerRule(call[c].procedure))
    BY DEF TransportInv, Agreed
  <2>2. ASSUME NEW p \in Procedures, NEW b \in primary[p] PROVE trie[Key(b)] = Target(p, b)
    BY <2>1, PrimaryRouted DEF TransportInv
  <2> QED
    BY <2>1, <2>2 DEF Refused, ServerRule
<1> QED
  BY <1>1, Invariance, PTL
=============================================================================
