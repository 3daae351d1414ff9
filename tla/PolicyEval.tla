----------------------------- MODULE PolicyEval -----------------------------
(***************************************************************************)
(* What a policy document decides: evaluate_policy of the policy engine's  *)
(* engine.rs, one pass over the rules that remembers the first matching    *)
(* rule of each effect, and the mapping of its decision to the response of *)
(* the gRPC method evaluate (grpc.rs).                                     *)
(*                                                                         *)
(* A rule is told by its place in the document, which stands for its id.   *)
(***************************************************************************)
EXTENDS PolicyMatch

CONSTANTS PolicyRules,  \* bound: the rules
          Requests,     \* bound: the requests
          Cases,        \* bound: the pairs of a document and a request
          None          \* Option::None; the empty rule_id

Effects == {"Allow", "Deny"}

ASSUME EvalAssumption ==
    /\ Cases \subseteq Seq(PolicyRules) \X Requests
    /\ \A r \in PolicyRules : /\ r.effect \in Effects
                              /\ r.subject \in Strings
                              /\ r.actions \subseteq Strings
    /\ \A q \in Requests : q.subject \in Strings /\ q.action \in Strings
    /\ None \notin Nat

VARIABLES policy, request,
          next,         \* the rule the loop comes to next
          first_allow, first_deny,
          response      \* the response's effect and rule_id

vars == <<policy, request, next, first_allow, first_deny, response>>

Init == /\ \E c \in Cases : policy = c[1] /\ request = c[2]
        /\ next = 1
        /\ first_allow = None
        /\ first_deny = None
        /\ response = None

Matches(k) == matches_request(policy[k], request)
InLoop == next \in DOMAIN policy

Skip == /\ InLoop
        /\ ~Matches(next)
        /\ next' = next + 1
        /\ UNCHANGED <<policy, request, first_allow, first_deny, response>>

MatchAllow == /\ InLoop
              /\ Matches(next) /\ policy[next].effect = "Allow"
              /\ first_allow' = IF first_allow = None THEN next ELSE first_allow
              /\ next' = next + 1
              /\ UNCHANGED <<policy, request, first_deny, response>>

\* A mutant: the last matching rule is remembered.
MutMatchDenyLast == /\ InLoop
                    /\ Matches(next) /\ policy[next].effect = "Deny"
                    /\ first_deny' = next
                    /\ next' = next + 1
                    /\ UNCHANGED <<policy, request, first_allow, response>>

MatchDeny == /\ InLoop
             /\ Matches(next) /\ policy[next].effect = "Deny"
             /\ first_deny' = IF first_deny = None THEN next ELSE first_deny
             /\ next' = next + 1
             /\ UNCHANGED <<policy, request, first_allow, response>>

\* map_decision_fields after the end of evaluate_policy.
Response(effect, rule) == [effect |-> effect, rule_id |-> rule]

Decision == IF first_deny # None THEN Response("deny", first_deny)
            ELSE IF first_allow # None THEN Response("allow", first_allow)
            ELSE Response("deny", None)

Decide == /\ ~InLoop
          /\ response = None
          /\ response' = Decision
          /\ UNCHANGED <<policy, request, next, first_allow, first_deny>>

\* The response has been sent.
Responded == /\ response # None
             /\ UNCHANGED vars

Next == Skip \/ MatchAllow \/ MatchDeny \/ Decide \/ Responded

Spec == Init /\ [][Next]_vars
-----------------------------------------------------------------------------
Rules(effect) == {k \in DOMAIN policy : Matches(k) /\ policy[k].effect = effect}
First(S) == IF S = {} THEN None ELSE CHOOSE k \in S : \A j \in S : k <= j

TypeOK == /\ <<policy, request>> \in Cases
          /\ next \in 1..(Len(policy) + 1)
          /\ first_allow \in DOMAIN policy \cup {None}
          /\ first_deny \in DOMAIN policy \cup {None}
          /\ response \in [effect : {"allow", "deny"}, rule_id : Nat \cup {None}] \cup {None}

\* The engine denies unless some rule allows the request and no rule denies it,
\* wherever in the document the two stand; the response names the first rule
\* that matches with the effect decided on, or none if no rule matches.
DenyOverrides ==
    response # None =>
        response = IF Rules("Deny") = {} /\ Rules("Allow") # {}
                   THEN Response("allow", First(Rules("Allow")))
                   ELSE Response("deny", First(Rules("Deny")))

\* An action or resource pattern is a glob with one "*" at its end: a "*" elsewhere
\* is a literal, "*" alone matches everything, the empty string included.
PatternIsGlob ==
    \A k \in DOMAIN policy : \A p \in policy[k].actions :
        matches_pattern(p, request.action) <=> Glob(p, request.action)

\* subject_matches takes one of two ways for "ns/*", depending on whether the
\* subject parses as a workload id, but the way makes no difference: a subject
\* matches if and only if it begins with "ns/".  So a subject that is no valid
\* workload id gets neither more nor less than a valid one.
SubjectIsNamespacePrefix ==
    \A k \in DOMAIN policy : IsSuffix(<<"/", "*">>, policy[k].subject) =>
        (subject_matches(policy[k].subject, request.subject)
            <=> Glob(policy[k].subject, request.subject))
=============================================================================
