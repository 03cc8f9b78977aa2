------------------------------- MODULE Router -------------------------------
(***************************************************************************)
(* Mount's routes: resolveMethods of method.go fills a routeTrie from the  *)
(* rules on the methods, in the order of a Go map, and then from those of  *)
(* WithRules; match of router.go answers requests from it.  A path is a    *)
(* sequence of canonical segments.  The trie is the function from (path,   *)
(* verb, HTTP method) to the target; its nodes are the prefixes of its     *)
(* paths.                                                                  *)
(***************************************************************************)
EXTENDS Naturals, Sequences, SequencesExt

CONSTANTS Procedures,   \* the registered methods
          Configs,      \* the rules to explore: see ConfigType
          Paths, Verbs, HTTPMethods, \* of the requests; "" is no verb
          Joined(_, _)  \* a final segment and a verb, read as one segment

(* A binding is a template and an HTTP method, "*" for any; the stream type of *)
(* its method may not suit its body.  External rules name a procedure.         *)
Bindings == [path : Seq(STRING), verb : STRING, method : STRING, supported : BOOLEAN]
BindingOK(b) ==
    b \in Bindings /\ b.path # <<>> /\ \A i \in 1 .. Len(b.path) - 1 : b.path[i] # "**"
ConfigOK(c) ==
    /\ c.embedded \in [Procedures -> Seq(Bindings)]
    /\ \A p \in Procedures : \A i \in DOMAIN c.embedded[p] : BindingOK(c.embedded[p][i])
    /\ c.external \in Seq([procedure : STRING, bindings : Seq(Bindings)])
    /\ \A i \in DOMAIN c.external :
          c.external[i].bindings # <<>>
          /\ \A j \in DOMAIN c.external[i].bindings : BindingOK(c.external[i].bindings[j])

ASSUME ConfigAssumption == \A c \in Configs : ConfigOK(c)

(* canonicalSegment escapes every star of a request's path, so that no segment *)
(* of it is a wildcard; one that holds a verb is no different.                 *)
Segment(s) == s \in STRING \ {"*", "**"}
ASSUME PathAssumption ==
    \A path \in Paths :
        /\ path \in Seq(STRING) /\ path # <<>> /\ \A i \in DOMAIN path : Segment(path[i])
        /\ \A verb \in Verbs \ {""} : Segment(Joined(path[Len(path)], verb))

VARIABLES
    config, \* fixed: the bindings on each method, and WithRules
    todo,   \* methods whose embedded rules are still to be added
    next,   \* the next external rule
    trie,
    primary, \* httpRule of each method, if it has one
    phase   \* "embedded", "external", "serving" or "failed"

vars == <<config, todo, next, trie, primary, phase>>

Key(b) == <<b.path, b.verb, b.method>>
Target(p, b) == [procedure |-> p, binding |-> b]

Init ==
    /\ config \in Configs
    /\ todo = {p \in Procedures : config.embedded[p] # <<>>} /\ next = 1
    /\ trie = <<>> /\ primary = [p \in Procedures |-> {}]
    /\ phase = "embedded"

---------------------------------------------------------------------------
(* Mount *)

(* insert refuses a route that is there already. *)
BadFree(t, keys) == TRUE
Free(t, keys) == keys \cap DOMAIN t = {}

Keys(bindings) == {Key(bindings[i]) : i \in DOMAIN bindings}
Distinct(bindings) == \A i, j \in DOMAIN bindings : Key(bindings[i]) = Key(bindings[j]) => i = j
CanInsert(bindings) == Distinct(bindings) /\ Free(trie, Keys(bindings))

BadWithRoutes(p, bindings) ==
    [k \in DOMAIN trie \cup Keys(bindings) |->
        IF k \in Keys(bindings) THEN Target(p, bindings[1]) ELSE trie[k]]
WithRoutes(p, bindings) ==
    [k \in DOMAIN trie \cup Keys(bindings) |->
        IF k \in Keys(bindings)
        THEN Target(p, CHOOSE b \in ToSet(bindings) : Key(b) = k) ELSE trie[k]]

AddEmbedded(p) ==
    /\ phase = "embedded" /\ p \in todo
    /\ todo' = todo \ {p}
    /\ IF CanInsert(config.embedded[p])
       THEN /\ trie' = WithRoutes(p, config.embedded[p])
            /\ primary' = [primary EXCEPT ![p] = {config.embedded[p][1]}]
            /\ UNCHANGED phase
       ELSE phase' = "failed" /\ UNCHANGED <<trie, primary>>
    /\ UNCHANGED <<config, next>>

EmbeddedDone ==
    /\ phase = "embedded" /\ todo = {}
    /\ phase' = "external"
    /\ UNCHANGED <<config, todo, next, trie, primary>>

(* An external rule has to name a registered method and suit its stream type. *)
BadKept(old, new) == new
Kept(old, new) == IF old = {} THEN new ELSE old

AddExternal ==
    /\ phase = "external" /\ next <= Len(config.external)
    /\ LET p == config.external[next].procedure
           bindings == config.external[next].bindings
       IN  IF /\ p \in Procedures /\ CanInsert(bindings)
              /\ \A i \in DOMAIN bindings : bindings[i].supported
           THEN /\ trie' = WithRoutes(p, bindings)
                /\ primary' = [primary EXCEPT ![p] = Kept(@, {bindings[1]})]
                /\ UNCHANGED phase
           ELSE phase' = "failed" /\ UNCHANGED <<trie, primary>>
    /\ next' = next + 1
    /\ UNCHANGED <<config, todo>>

Serve ==
    /\ phase = "external" /\ next > Len(config.external)
    /\ phase' = "serving"
    /\ UNCHANGED <<config, todo, next, trie, primary>>

Mounted == phase \in {"serving", "failed"} /\ UNCHANGED vars

Next ==
    \/ \E p \in Procedures : AddEmbedded(p)
    \/ EmbeddedDone \/ AddExternal \/ Serve
    \/ Mounted

Spec == Init /\ [][Next]_vars

---------------------------------------------------------------------------
(* match *)

None == [target |-> {}, methods |-> {}]
Nodes == UNION {{SubSeq(k[1], 1, n) : n \in 0 .. Len(k[1])} : k \in DOMAIN trie}

(* A target, if there is one, and the methods of the path and verb.  getTarget: *)
(* one of a node's methods may be "*".                                          *)
GetTarget(node, verb, method) ==
    LET methods == {k[3] : k \in {key \in DOMAIN trie : key[1] = node /\ key[2] = verb}}
        at(m) == [target |-> {trie[<<node, verb, m>>]}, methods |-> methods]
    IN  IF method \in methods THEN at(method)
        ELSE IF "*" \in methods THEN at("*")
        ELSE [target |-> {}, methods |-> methods]

(* findTarget goes on to the next kind of child only if this one has no route *)
(* for the path and the verb at all.                                          *)
BadMatched(found) == found.target # {}
Matched(found) == found.target # {} \/ found.methods # {}

(* At a node of the trie, given what is found below it, the next segment of the *)
(* path being the one after as many as the node has.                            *)
FoundAt(node, find, path, verb, method) ==
    LET child(segment) == Append(node, segment)
        under(segment) == IF child(segment) \in Nodes THEN find[child(segment)] ELSE None
        literal == under(path[Len(node) + 1])
        rest == IF child("**") \in Nodes
                THEN GetTarget(child("**"), verb, method) ELSE None
    IN  IF Len(node) >= Len(path) THEN GetTarget(node, verb, method)
        ELSE IF Matched(literal) THEN literal
        ELSE IF Matched(under("*")) THEN under("*")
        ELSE rest

FindTarget(path, verb, method) ==
    LET find[node \in Nodes \cup {<<>>}] == FoundAt(node, find, path, verb, method)
    IN  find[<<>>]

JoinedPath(path, verb) ==
    [path EXCEPT ![Len(path)] = Joined(path[Len(path)], verb)]

(* Without a route for the verb the colon may belong to the final segment. *)
Fallback(found, fallback) ==
    IF fallback.target # {} \/ found.methods = {} THEN fallback ELSE found

Match(path, verb, method) ==
    LET found == FindTarget(path, verb, method)
    IN  IF found.target = {} /\ verb # ""
        THEN Fallback(found, FindTarget(JoinedPath(path, verb), "", method))
        ELSE found

---------------------------------------------------------------------------
(* What match is to answer, from the rules alone *)

(* A place for rules is a method, where n is 0, or the nth rule of WithRules.  *)
Places ==
    {<<p, 0>> : p \in Procedures}
    \cup {<<config.external[n].procedure, n>> : n \in DOMAIN config.external}
BindingsAt(place) ==
    IF place[2] = 0 THEN config.embedded[place[1]] ELSE config.external[place[2]].bindings
Targets ==
    UNION {{Target(x[1], b) : b \in ToSet(BindingsAt(x))} : x \in Places}

Fits(template, path) ==
    LET open == template[Len(template)] = "**"
        fixed == IF open THEN Len(template) - 1 ELSE Len(template)
    IN  /\ IF open THEN Len(path) > fixed ELSE Len(path) = fixed
        /\ \A i \in 1 .. fixed : template[i] \in {"*", path[i]}

Rank(segment) == CASE segment = "*" -> 1 [] segment = "**" -> 2 [] OTHER -> 0
MoreSpecific(t, u) ==
    \E i \in DOMAIN t \cap DOMAIN u :
        /\ Rank(t[i]) < Rank(u[i])
        /\ \A j \in 1 .. i - 1 : t[j] = u[j]

(* The most specific template that fits decides, whatever methods it has. *)
Best(path, verb, method) ==
    LET fitting == {t \in Targets : t.binding.verb = verb /\ Fits(t.binding.path, path)}
        best == {t \in fitting : ~\E u \in fitting : MoreSpecific(u.binding.path, t.binding.path)}
        named(m) == {t \in best : t.binding.method = m}
        methods == {t.binding.method : t \in best}
    IN  [target |-> IF named(method) # {} THEN named(method) ELSE named("*"),
         methods |-> methods]

(* A verb that has a route for the method wins over a colon in the segment. *)
Expected(path, verb, method) ==
    LET asVerb == Best(path, verb, method)
        asSegment == Best(JoinedPath(path, verb), "", method)
    IN  IF verb = "" \/ asVerb.target # {} THEN asVerb
        ELSE IF asSegment.target # {} \/ asVerb.methods = {} THEN asSegment
        ELSE asVerb

Disjoint(x, y) == Keys(BindingsAt(x)) \cap Keys(BindingsAt(y)) = {}
Conflict ==
    \E x \in Places :
        ~Distinct(BindingsAt(x)) \/ \E y \in Places : x # y /\ ~Disjoint(x, y)
Misdirected ==
    \E r \in ToSet(config.external) :
        r.procedure \notin Procedures \/ \E b \in ToSet(r.bindings) : ~b.supported

(* The first rule of a method: its own, or the first that WithRules gives it. *)
FirstRule(p) ==
    LET given == {i \in DOMAIN config.external : config.external[i].procedure = p}
    IN  IF config.embedded[p] # <<>> THEN {config.embedded[p][1]}
        ELSE {config.external[i].bindings[1] : i \in {j \in given : \A k \in given : j <= k}}

---------------------------------------------------------------------------
(* Properties *)

(* The routes keep their types. *)
TypeOK ==
    /\ config \in Configs /\ todo \subseteq Procedures
    /\ next \in 1 .. Len(config.external) + 1
    /\ \A k \in DOMAIN trie : Key(trie[k].binding) = k /\ trie[k].procedure \in Procedures
    /\ phase \in {"embedded", "external", "serving", "failed"}

(* match finds the most specific route for every request, or the methods of    *)
(* it, and answers as the rules say, not as they happened to be inserted.      *)
MatchesBest ==
    phase = "serving" =>
        \A path \in Paths, verb \in Verbs, method \in HTTPMethods :
            Match(path, verb, method) = Expected(path, verb, method)

(* Whether Mount fails does not depend on the order in which it visits the     *)
(* methods: it fails exactly if two rules claim the same route, or WithRules   *)
(* names a method that is not there or cannot be served.                       *)
MountDecided ==
    /\ phase = "failed" => Conflict \/ Misdirected
    /\ phase = "serving" => ~Conflict /\ ~Misdirected

(* The rule a method is known by is its own, and else the first of WithRules,  *)
(* never an additional binding or a later rule.                                *)
PrimaryIsFirst == phase = "serving" => \A p \in Procedures : primary[p] = FirstRule(p)

(* Once Mount has succeeded the trie holds every binding of every rule, under  *)
(* its own path, verb and method and with the method it belongs to, and        *)
(* nothing else: no rule is lost to another, and none is left of a refused one.*)
RoutesAreTheRules ==
    phase = "serving" =>
        /\ DOMAIN trie = {Key(t.binding) : t \in Targets}
        /\ \A t \in Targets : trie[Key(t.binding)] = t
=============================================================================
