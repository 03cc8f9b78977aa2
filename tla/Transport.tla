------------------------------ MODULE Transport ------------------------------
(***************************************************************************)
(* The client's transport beside the server's routes: resolveMethod of     *)
(* vanguard.go finds the rule of a procedure in the Spec it is called with *)
(* or in WithRules, and caches it by procedure, while other callers do the *)
(* same.  Client and server have the same rules; calls start once Mount    *)
(* has succeeded.                                                          *)
(***************************************************************************)
EXTENDS Router

CONSTANTS Callers,
          Specs  \* [procedure, schema], the schema a "method" descriptor or "none"

VARIABLES
    cache, \* methods: the resolved rule of a procedure, if there is one
    call   \* what each caller asks for, where it is, and its answer

transportVars == <<vars, cache, call>>

Idle == [pc |-> "idle", procedure |-> "", schema |-> "none", rule |-> {}]
Known == {s.procedure : s \in Specs}

TransportInit == Init /\ cache = [p \in Known |-> {}] /\ call = [c \in Callers |-> Idle]

Mounting == Next /\ UNCHANGED <<cache, call>>

Dial ==
    /\ phase = "serving" /\ phase' = "calling"
    /\ UNCHANGED <<config, todo, next, trie, primary, cache, call>>

NewClientStream(c, spec) ==
    /\ phase = "calling" /\ call[c].pc = "idle"
    /\ call' = [call EXCEPT ![c] = [pc |-> "load", procedure |-> spec.procedure,
                                    schema |-> spec.schema, rule |-> {}]]
    /\ UNCHANGED <<vars, cache>>

Answers(c, rule) == [call EXCEPT ![c].pc = "done", ![c].rule = rule]

(* A cached rule answers whatever schema the Spec has. *)
Load(c) ==
    /\ call[c].pc = "load"
    /\ LET cached == cache[call[c].procedure]
       IN call' = IF cached # {} THEN Answers(c, cached) ELSE [call EXCEPT ![c].pc = "resolve"]
    /\ UNCHANGED <<vars, cache>>

(* The rule on the method, or the first of WithRules that names the procedure; of *)
(* its bindings only the primary one is used.                                     *)
BadExternalRule(p) ==
    {config.external[i].bindings[1] : i \in {j \in DOMAIN config.external :
        config.external[j].procedure = p
        /\ \A k \in DOMAIN config.external : config.external[k].procedure = p => k <= j}}
ExternalRule(p) ==
    {config.external[i].bindings[1] : i \in {j \in DOMAIN config.external :
        config.external[j].procedure = p
        /\ \A k \in DOMAIN config.external : config.external[k].procedure = p => j <= k}}

Rule(p) ==
    IF p \in Procedures /\ config.embedded[p] # <<>> THEN {config.embedded[p][1]}
                                                     ELSE ExternalRule(p)

(* No descriptor, no rule, or a stream REST cannot carry is an error; otherwise *)
(* the caller keeps its own method and LoadOrStore the first.                   *)
Resolve(c) ==
    /\ call[c].pc = "resolve"
    /\ LET p == call[c].procedure
           rule == IF call[c].schema = "none" THEN {} ELSE {b \in Rule(p) : b.supported}
       IN /\ call' = Answers(c, rule)
          /\ cache' = [cache EXCEPT ![p] = IF @ = {} THEN rule ELSE @]
    /\ UNCHANGED vars

Called == phase = "calling" /\ (\A c \in Callers : call[c].pc = "done") /\ UNCHANGED transportVars

TransportNext ==
    \/ Mounting \/ Dial
    \/ \E c \in Callers : Load(c) \/ Resolve(c) \/ \E spec \in Specs : NewClientStream(c, spec)
    \/ Called

TransportSpec == TransportInit /\ [][TransportNext]_transportVars

---------------------------------------------------------------------------
(* Properties *)

(* The routes, the cache and the calls keep their types. *)
TransportTypeOK ==
    /\ phase # "calling" => TypeOK /\ call = [c \in Callers |-> Idle]
    /\ \A p \in Known : \A rule \in cache[p] : BindingOK(rule)
    /\ \A c \in Callers : call[c].pc \in {"idle", "load", "resolve", "done"}

(* Client and server agree on the rule of a method, whichever caller resolved it  *)
(* first and wherever the answer came from: the one of a call is the one the      *)
(* server knows the method by, and in its routes, and a call is refused only if   *)
(* its Spec has no descriptor or the server serves the method over no rule or not *)
(* over REST (resolveMethod against resolveMethods).                              *)
ServerRule(p) == IF p \in Procedures THEN {b \in primary[p] : b.supported} ELSE {}
ClientAgrees ==
    \A c \in Callers : call[c].pc = "done" =>
        LET p == call[c].procedure
        IN IF call[c].rule = {} THEN call[c].schema = "none" \/ ServerRule(p) = {}
           ELSE /\ call[c].rule = ServerRule(p)
                /\ \A b \in call[c].rule : trie[Key(b)] = Target(p, b)
=============================================================================
