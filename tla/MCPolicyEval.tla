---------------------------- MODULE MCPolicyEval ----------------------------
(***************************************************************************)
(* PolicyEval for TLC, on two kinds of cases.  For the loop, every         *)
(* document of up to MaxRules rules made of a few patterns of each kind,   *)
(* so that a request is matched by none, one or several rules of either    *)
(* effect, in any order.  For the patterns, every pattern and value up to  *)
(* a length over an alphabet with the characters that mean something.      *)
(***************************************************************************)
EXTENDS PolicyEval

CONSTANTS MaxRules, Letters, MaxPattern, MaxValue  \* bounds

LoopRules == [effect : Effects,
              subject : {<<"*">>, <<"n", "/", "*">>, <<"n", "/", "a">>},
              actions : {{<<"r">>, <<"w">>}, {<<"r", "*">>}},
              resources : {{<<"*">>}}]
LoopDocuments == UNION {[1..k -> LoopRules] : k \in 0..MaxRules}
LoopRequests == [subject : {<<"n", "/", "a">>, <<"m", "/", "a">>},
                 action : {<<"r", "1">>, <<"w">>},
                 resource : {<<"f">>}]

Texts(n) == UNION {[1..k -> Letters] : k \in 0..n}
PatternRules == {[effect |-> "Allow", subject |-> p, actions |-> {p}, resources |-> {p}] :
                     p \in Texts(MaxPattern)}
PatternRequests == {[subject |-> v, action |-> v, resource |-> v] : v \in Texts(MaxValue)}

MCRules == LoopRules \cup PatternRules
MCRequests == LoopRequests \cup PatternRequests
MCCases == (LoopDocuments \X LoopRequests)
               \cup ({<<r>> : r \in PatternRules} \X PatternRequests)
=============================================================================
