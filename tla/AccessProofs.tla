---------------------------- MODULE AccessProofs ----------------------------
(***************************************************************************)
(* Who asks, and what he may do.                                           *)
(*                                                                         *)
(* PolicyEval for every document, every request and whatever the patterns  *)
(* match: the loop invariant of evaluate_policy and, from it, that the     *)
(* response is the one of DenyOverrides; and that the patterns are the     *)
(* globs they are meant to be.                                             *)
(*                                                                         *)
(* IdentityToken for any claims, encodings of them, keys and numbers of    *)
(* tokens: base64_decode undoes base64_encode, and from it, and from what  *)
(* a signature tells, that a signed token that is accepted was issued, and *)
(* that one that was issued is accepted.                                   *)
(***************************************************************************)
EXTENDS PolicyEval, IdentityToken, SequenceTheorems, WellFoundedInduction, TLAPS


\* first is the first matching rule of that effect among those the loop has
\* passed, if there is one.
FirstSoFar(first, effect) ==
    IF first = None
    THEN \A k \in DOMAIN policy : k < next => k \notin Rules(effect)
    ELSE /\ first \in Rules(effect)
         /\ first < next
         /\ \A k \in DOMAIN policy : k < first => k \notin Rules(effect)

Answer == response # None => next \notin DOMAIN policy /\ response = Decision

LoopInv == /\ TypeOK
           /\ FirstSoFar(first_allow, "Allow")
           /\ FirstSoFar(first_deny, "Deny")
           /\ Answer

LEMMA DomainOf == TypeOK => /\ policy \in Seq(PolicyRules)
                            /\ DOMAIN policy = 1..Len(policy) /\ Len(policy) \in Nat
BY EvalAssumption DEF TypeOK

\* First is the least element of a set of rules.
LEMMA FirstIs ==
    ASSUME NEW S, NEW k \in S, S \subseteq Nat, \A j \in S : k <= j
    PROVE  First(S) = k
<1>1. PICK f : f = First(S)
  OBVIOUS
<1>2. f = CHOOSE x \in S : \A j \in S : x <= j
  BY <1>1 DEF First
<1>3. f \in S /\ \A j \in S : f <= j
  BY <1>2, Zenon
<1>4. f <= k /\ k <= f /\ f \in Nat /\ k \in Nat
  BY <1>3
<1> QED
  BY <1>1, <1>4

LEMMA InitLoop == Init => LoopInv
<1> SUFFICES ASSUME Init PROVE LoopInv
  OBVIOUS
<1>0. <<policy, request>> \in Cases
  <2>1. PICK c \in Cases : policy = c[1] /\ request = c[2]
    BY DEF Init
  <2>2. c = <<c[1], c[2]>>
    BY EvalAssumption
  <2> QED
    BY <2>1, <2>2
<1>1. policy \in Seq(PolicyRules)
  BY <1>0, EvalAssumption
<1>2. TypeOK
  BY <1>0, <1>1 DEF Init, TypeOK
<1>3. \A k \in DOMAIN policy : ~(k < next)
  BY <1>1 DEF Init
<1> QED
  BY <1>2, <1>3 DEF Init, LoopInv, FirstSoFar, Answer

\* Each step keeps the loop invariant: the rule passed over either does not
\* match, or matches with one effect and comes after the first of that effect.
LEMMA StepLoop == LoopInv /\ [Next]_vars => LoopInv'
<1> SUFFICES ASSUME LoopInv, [Next]_vars PROVE LoopInv'
  OBVIOUS
<1> USE DEF LoopInv
<1>0. /\ policy \in Seq(PolicyRules) /\ DOMAIN policy = 1..Len(policy) /\ Len(policy) \in Nat
      /\ next \in Nat /\ None \notin Nat
      /\ \A k \in DOMAIN policy : k \in Nat
      /\ \A k \in DOMAIN policy : policy[k].effect \in Effects
  BY DomainOf, EvalAssumption DEF TypeOK
<1>1. CASE Skip
  <2>1. TypeOK'
    BY <1>0, <1>1 DEF Skip, InLoop, TypeOK
  <2>2. \A e : next \notin Rules(e)
    BY <1>1 DEF Skip, Rules
  <2>3. \A e : Rules(e)' = Rules(e)
    BY <1>1 DEF Skip, Rules, Matches
  <2>4. FirstSoFar(first_allow, "Allow")'
    BY <1>0, <1>1, <2>2, <2>3 DEF Skip, FirstSoFar, TypeOK
  <2>5. FirstSoFar(first_deny, "Deny")'
    BY <1>0, <1>1, <2>2, <2>3 DEF Skip, FirstSoFar, TypeOK
  <2>6. Answer'
    BY <1>0, <1>1 DEF Skip, InLoop, Answer
  <2> QED
    BY <2>1, <2>4, <2>5, <2>6
<1>2. CASE MatchAllow
  <2>1. TypeOK'
    BY <1>0, <1>2 DEF MatchAllow, InLoop, TypeOK
  <2>2. next \in Rules("Allow") /\ next \notin Rules("Deny")
    BY <1>2 DEF MatchAllow, InLoop, Rules
  <2>3. \A e : Rules(e)' = Rules(e)
    BY <1>2 DEF MatchAllow, Rules, Matches
  <2>4. FirstSoFar(first_allow, "Allow")'
    <3>1. CASE first_allow = None
      <4>1. first_allow' = next /\ next' = next + 1 /\ policy' = policy
        BY <1>2, <3>1 DEF MatchAllow
      <4>2. \A k \in DOMAIN policy : k < next => k \notin Rules("Allow")
        BY <3>1 DEF FirstSoFar
      <4> QED
        BY <1>0, <2>2, <2>3, <4>1, <4>2 DEF FirstSoFar
    <3>2. CASE first_allow # None
      <4>1. first_allow' = first_allow /\ next' = next + 1 /\ policy' = policy
        BY <1>2, <3>2 DEF MatchAllow
      <4>2. first_allow \in Nat
        BY <1>0, <3>2 DEF TypeOK
      <4> QED
        BY <1>0, <2>3, <3>2, <4>1, <4>2 DEF FirstSoFar
    <3> QED
      BY <3>1, <3>2
  <2>5. FirstSoFar(first_deny, "Deny")'
    BY <1>0, <1>2, <2>2, <2>3 DEF MatchAllow, FirstSoFar, TypeOK
  <2>6. Answer'
    BY <1>0, <1>2 DEF MatchAllow, InLoop, Answer
  <2> QED
    BY <2>1, <2>4, <2>5, <2>6
<1>3. CASE MatchDeny
  <2>1. TypeOK'
    BY <1>0, <1>3 DEF MatchDeny, InLoop, TypeOK
  <2>2. next \in Rules("Deny") /\ next \notin Rules("Allow")
    BY <1>3 DEF MatchDeny, InLoop, Rules
  <2>3. \A e : Rules(e)' = Rules(e)
    BY <1>3 DEF MatchDeny, Rules, Matches
  <2>4. FirstSoFar(first_allow, "Allow")'
    BY <1>0, <1>3, <2>2, <2>3 DEF MatchDeny, FirstSoFar, TypeOK
  <2>5. FirstSoFar(first_deny, "Deny")'
    <3>1. CASE first_deny = None
      <4>1. first_deny' = next /\ next' = next + 1 /\ policy' = policy
        BY <1>3, <3>1 DEF MatchDeny
      <4>2. \A k \in DOMAIN policy : k < next => k \notin Rules("Deny")
        BY <3>1 DEF FirstSoFar
      <4> QED
        BY <1>0, <2>2, <2>3, <4>1, <4>2 DEF FirstSoFar
    <3>2. CASE first_deny # None
      <4>1. first_deny' = first_deny /\ next' = next + 1 /\ policy' = policy
        BY <1>3, <3>2 DEF MatchDeny
      <4>2. first_deny \in Nat
        BY <1>0, <3>2 DEF TypeOK
      <4> QED
        BY <1>0, <2>3, <3>2, <4>1, <4>2 DEF FirstSoFar
    <3> QED
      BY <3>1, <3>2
  <2>6. Answer'
    BY <1>0, <1>3 DEF MatchDeny, InLoop, Answer
  <2> QED
    BY <2>1, <2>4, <2>5, <2>6
<1>4. CASE Decide
  <2>1. TypeOK'
    BY <1>0, <1>4 DEF Decide, Decision, Response, TypeOK
  <2>2. \A e : Rules(e)' = Rules(e)
    BY <1>4 DEF Decide, Rules, Matches
  <2>3. FirstSoFar(first_allow, "Allow")' /\ FirstSoFar(first_deny, "Deny")'
    BY <1>4, <2>2 DEF Decide, FirstSoFar
  <2>4. Answer'
    BY <1>4 DEF Decide, InLoop, Answer, Decision
  <2> QED
    BY <2>1, <2>3, <2>4
<1>5. CASE UNCHANGED vars
  <2>1. \A e : Rules(e)' = Rules(e)
    BY <1>5 DEF vars, Rules, Matches
  <2>2. FirstSoFar(first_allow, "Allow")' /\ FirstSoFar(first_deny, "Deny")'
    BY <1>5, <2>1 DEF vars, FirstSoFar
  <2> QED
    BY <1>5, <2>2 DEF vars, TypeOK, Answer, Decision
<1> QED
  BY <1>1, <1>2, <1>3, <1>4, <1>5 DEF Next, Responded

\* At the end of the loop, the rule remembered is the first of all.
LEMMA RememberedIsFirst ==
    ASSUME LoopInv, next \notin DOMAIN policy, NEW first, NEW effect,
           FirstSoFar(first, effect)
    PROVE  /\ first = None <=> Rules(effect) = {}
           /\ First(Rules(effect)) = first
<1>0. /\ DOMAIN policy = 1..Len(policy) /\ Len(policy) \in Nat /\ None \notin Nat
      /\ next = Len(policy) + 1
  BY DomainOf, EvalAssumption DEF LoopInv, TypeOK
<1>1. CASE first = None
  <2>1. Rules(effect) = {}
    BY <1>0, <1>1 DEF FirstSoFar, Rules
  <2> QED
    BY <1>1, <2>1 DEF First
<1>2. CASE first # None
  <2>1. first \in Rules(effect) /\ Rules(effect) \subseteq Nat
    BY <1>0, <1>2 DEF FirstSoFar, Rules
  <2>2. \A j \in Rules(effect) : first <= j
    BY <1>0, <1>2, <2>1 DEF FirstSoFar, Rules
  <2>3. First(Rules(effect)) = first
    BY <2>1, <2>2, FirstIs
  <2> QED
    BY <1>2, <2>1, <2>3
<1> QED
  BY <1>1, <1>2

\* The loop invariant holds of every evaluation, of a document of any length.
THEOREM LoopInvHolds == Spec => []LoopInv
<1> QED
  BY InitLoop, StepLoop, PTL DEF Spec

\* evaluate answers with deny-overrides semantics, for every document and request:
\* the two Option locals of evaluate_policy suffice in one pass, in any order of
\* the rules.
THEOREM DenyOverridesHolds == Spec => []DenyOverrides
<1>1. LoopInv => DenyOverrides
  <2> SUFFICES ASSUME LoopInv, response # None
               PROVE  response = IF Rules("Deny") = {} /\ Rules("Allow") # {}
                                 THEN Response("allow", First(Rules("Allow")))
                                 ELSE Response("deny", First(Rules("Deny")))
    BY DEF DenyOverrides
  <2>1. next \notin DOMAIN policy /\ response = Decision
    BY DEF LoopInv, Answer
  <2>2. /\ first_allow = None <=> Rules("Allow") = {}
        /\ First(Rules("Allow")) = first_allow
    BY <2>1, RememberedIsFirst DEF LoopInv
  <2>3. /\ first_deny = None <=> Rules("Deny") = {}
        /\ First(Rules("Deny")) = first_deny
    BY <2>1, RememberedIsFirst DEF LoopInv
  <2> QED
    BY <2>1, <2>2, <2>3 DEF Decision
<1> QED
  BY <1>1, LoopInvHolds, PTL
-----------------------------------------------------------------------------
(* What the patterns mean.                                                 *)

LEMMA PrefixIs ==
    ASSUME NEW s \in Strings, NEW t \in Strings
    PROVE  IsPrefix(s, t) <=> Len(s) <= Len(t) /\ \A i \in 1..Len(s) : s[i] = t[i]
<1>0. Len(s) \in Nat /\ Len(t) \in Nat /\ \A i \in 1..Len(s) : s[i] \in Chars
  BY DEF Strings
<1>1. /\ Len(SubSeq(s, 1, Len(s))) = Len(s)
      /\ \A i \in 1..Len(s) : SubSeq(s, 1, Len(s))[i] = s[i]
  BY <1>0 DEF Strings
<1>2. CASE Len(s) <= Len(t)
  <2> DEFINE a == SubSeq(s, 1, Len(s))
             b == SubSeq(t, 1, Len(s))
  <2>1. a \in Strings /\ Len(a) = Len(s) /\ \A i \in 1..Len(s) : a[i] = s[i]
    BY <1>1 DEF Strings
  <2>2. b \in Strings /\ Len(b) = Len(s) /\ \A i \in 1..Len(s) : b[i] = t[i]
    BY <1>0, <1>2 DEF Strings
  <2> HIDE DEF a, b
  <2>3. a = b <=> \A i \in 1..Len(s) : a[i] = b[i]
    BY <2>1, <2>2 DEF Strings
  <2> QED
    BY <1>2, <2>1, <2>2, <2>3 DEF IsPrefix, a, b
<1>3. CASE ~(Len(s) <= Len(t))
  BY <1>3 DEF IsPrefix
<1> QED
  BY <1>2, <1>3

LEMMA SuffixIs ==
    ASSUME NEW s \in Strings, NEW t \in Strings
    PROVE  IsSuffix(s, t) <=> /\ Len(s) <= Len(t)
                              /\ \A i \in 1..Len(s) : s[i] = t[Len(t) - Len(s) + i]
<1>0. Len(s) \in Nat /\ Len(t) \in Nat
  BY DEF Strings
<1>1. ASSUME NEW u \in Strings
      PROVE  /\ Reverse(u) \in Strings /\ Len(Reverse(u)) = Len(u)
             /\ \A i \in 1..Len(u) : Reverse(u)[i] = u[Len(u) - i + 1]
  <2>1. \A i \in 1..Len(u) : Len(u) - i + 1 \in 1..Len(u) /\ u[Len(u) - i + 1] \in Chars
    BY DEF Strings
  <2> QED
    BY <2>1 DEF Reverse, Strings
<1> DEFINE x == Reverse(s)
           y == Reverse(t)
<1>2. /\ x \in Strings /\ Len(x) = Len(s) /\ \A i \in 1..Len(s) : x[i] = s[Len(s) - i + 1]
      /\ y \in Strings /\ Len(y) = Len(t) /\ \A i \in 1..Len(t) : y[i] = t[Len(t) - i + 1]
  BY <1>1
<1> HIDE DEF x, y
<1>3. IsPrefix(x, y) <=> Len(s) <= Len(t) /\ \A i \in 1..Len(s) : x[i] = y[i]
  BY <1>2, PrefixIs
<1>4. ASSUME Len(s) <= Len(t)
      PROVE  (\A i \in 1..Len(s) : x[i] = y[i])
                 <=> \A i \in 1..Len(s) : s[i] = t[Len(t) - Len(s) + i]
  <2>1. ASSUME \A i \in 1..Len(s) : x[i] = y[i], NEW i \in 1..Len(s)
        PROVE  s[i] = t[Len(t) - Len(s) + i]
    <3>1. Len(s) - i + 1 \in 1..Len(s) /\ Len(s) - i + 1 \in 1..Len(t)
      BY <1>0, <1>4
    <3>2. x[Len(s) - i + 1] = y[Len(s) - i + 1]
      BY <2>1, <3>1
    <3>3. Len(s) - (Len(s) - i + 1) + 1 = i /\ Len(t) - (Len(s) - i + 1) + 1 = Len(t) - Len(s) + i
      BY <1>0
    <3> QED
      BY <1>2, <3>1, <3>2, <3>3
  <2>2. ASSUME \A i \in 1..Len(s) : s[i] = t[Len(t) - Len(s) + i], NEW i \in 1..Len(s)
        PROVE  x[i] = y[i]
    <3>1. Len(s) - i + 1 \in 1..Len(s) /\ i \in 1..Len(t)
      BY <1>0, <1>4
    <3>2. s[Len(s) - i + 1] = t[Len(t) - Len(s) + (Len(s) - i + 1)]
      BY <2>2, <3>1
    <3>3. Len(t) - Len(s) + (Len(s) - i + 1) = Len(t) - i + 1
      BY <1>0
    <3> QED
      BY <1>2, <3>1, <3>2, <3>3
  <2> QED
    BY <2>1, <2>2
<1> QED
  BY <1>3, <1>4 DEF IsSuffix, x, y

\* The last character, and the last two.
LEMMA EndsWithStar ==
    ASSUME NEW p \in Strings
    PROVE  IsSuffix(<<"*">>, p) <=> p # <<>> /\ p[Len(p)] = "*"
<1>1. <<"*">> \in Strings /\ Len(<<"*">>) = 1 /\ <<"*">>[1] = "*"
  BY CharsAssumption DEF Strings
<1>2. IsSuffix(<<"*">>, p) <=> 1 <= Len(p) /\ "*" = p[Len(p) - 1 + 1]
  <2> DEFINE e == <<"*">>
  <2>1. e \in Strings /\ Len(e) = 1 /\ e[1] = "*"
    BY <1>1
  <2> HIDE DEF e
  <2>2. IsSuffix(e, p) <=> 1 <= Len(p) /\ \A i \in 1..1 : e[i] = p[Len(p) - 1 + i]
    <3>1. IsSuffix(e, p) <=> /\ Len(e) <= Len(p)
                             /\ \A i \in 1..Len(e) : e[i] = p[Len(p) - Len(e) + i]
      BY <2>1, SuffixIs, Zenon
    <3> QED
      BY <2>1, <3>1, Zenon
  <2>3. IsSuffix(e, p) <=> 1 <= Len(p) /\ "*" = p[Len(p) - 1 + 1]
    BY <2>1, <2>2
  <2> QED
    BY <2>3 DEF e
<1>3. Len(p) \in Nat /\ (Len(p) = 0 <=> p = <<>>)
  BY DEF Strings
<1>4. Len(p) - 1 + 1 = Len(p)
  BY <1>3
<1> QED
  BY <1>2, <1>3, <1>4

LEMMA EndsWithSlashStar ==
    ASSUME NEW p \in Strings, IsSuffix(<<"/", "*">>, p)
    PROVE  Len(p) >= 2 /\ p[Len(p) - 1] = "/" /\ p[Len(p)] = "*"
<1> DEFINE e == <<"/", "*">>
<1>1. e \in Strings /\ Len(e) = 2 /\ e[1] = "/" /\ e[2] = "*"
  BY CharsAssumption DEF Strings
<1>2. IsSuffix(e, p)
  OBVIOUS
<1> HIDE DEF e
<1>3. Len(p) >= 2 /\ e[1] = p[Len(p) - 2 + 1] /\ e[2] = p[Len(p) - 2 + 2]
  <2>1. 2 <= Len(p) /\ \A i \in 1..2 : e[i] = p[Len(p) - 2 + i]
    BY <1>1, <1>2, SuffixIs
  <2> QED
    BY <2>1 DEF Strings
<1>4. Len(p) - 2 + 1 = Len(p) - 1 /\ Len(p) - 2 + 2 = Len(p)
  BY DEF Strings
<1> QED
  BY <1>1, <1>3, <1>4

\* The pattern without its end.
LEMMA FrontIs ==
    ASSUME NEW p \in Strings, NEW n \in 0..Len(p)
    PROVE  /\ SubSeq(p, 1, n) \in Strings /\ Len(SubSeq(p, 1, n)) = n
           /\ \A i \in 1..n : SubSeq(p, 1, n)[i] = p[i]
<1>1. \A i \in 1..n : p[i] \in Chars
  BY DEF Strings
<1> QED
  BY <1>1, SubSeqProperties DEF Strings

LEMMA PatternGlob ==
    ASSUME NEW p \in Strings, NEW v \in Strings
    PROVE  matches_pattern(p, v) <=> Glob(p, v)
<1>0. Len(p) \in Nat /\ Len(v) \in Nat /\ (Len(p) = 0 <=> p = <<>>)
  BY DEF Strings
<1>1. CASE p # <<>> /\ p[Len(p)] = "*"
  <2>1. Front(p) \in Strings /\ Len(Front(p)) = Len(p) - 1
        /\ \A i \in 1..(Len(p) - 1) : Front(p)[i] = p[i]
    <3>1. Len(p) - 1 \in 0..Len(p)
      BY <1>0, <1>1
    <3> QED
      BY <3>1, FrontIs DEF Front
  <2>2. IsPrefix(Front(p), v) <=> Extends(p, v)
    <3>1. IsPrefix(Front(p), v)
              <=> Len(Front(p)) <= Len(v) /\ \A i \in 1..Len(Front(p)) : Front(p)[i] = v[i]
      BY <2>1, PrefixIs
    <3> QED
      BY <1>0, <2>1, <3>1 DEF Extends
  <2>3. p = <<"*">> => Extends(p, v)
    BY <1>0 DEF Extends
  <2> QED
    BY <1>1, <2>2, <2>3, EndsWithStar DEF matches_pattern, Glob
<1>2. CASE ~(p # <<>> /\ p[Len(p)] = "*")
  <2>1. p # <<"*">>
    BY <1>2
  <2>2. ~IsSuffix(<<"*">>, p)
    BY <1>2, EndsWithStar
  <2> QED
    BY <1>2, <2>1, <2>2 DEF matches_pattern, Glob
<1> QED
  BY <1>1, <1>2

Below == {ss \in Nat \X Nat : ss[1] < ss[2]}

LEMMA BelowWellFounded == IsWellFoundedOn(Below, Nat)
  BY NatLessThanWellFounded, Zenon DEF OpToRel, Below

\* A set of natural numbers has a least one.
LEMMA LeastExists ==
    ASSUME NEW M, M \subseteq Nat, M # {}
    PROVE  \E i \in M : \A j \in M : i <= j
<1>1. PICK i \in M : \A j \in M : ~(<<j, i>> \in Below)
  BY BelowWellFounded, WFMin, Zenon
<1>2. ASSUME NEW j \in M PROVE i <= j
  <2>1. i \in Nat /\ j \in Nat /\ <<j, i>> \notin Below
    BY <1>1
  <2>2. j < i => <<j, i>> \in Below
    BY <2>1 DEF Below
  <2> QED
    BY <2>1, <2>2
<1> QED
  BY <1>2

\* There is a first "/", if there is one at all.
LEMMA FirstSlashIs ==
    ASSUME NEW s \in Strings, Slashes(s) # {}
    PROVE  /\ FirstSlash(s) \in 1..Len(s) /\ s[FirstSlash(s)] = "/"
           /\ \A j \in 1..(FirstSlash(s) - 1) : s[j] # "/"
<1> DEFINE M == Slashes(s)
<1>1. M \subseteq 1..Len(s) /\ Len(s) \in Nat
  BY DEF Slashes, Strings
<1>2. \E i \in M : \A j \in M : i <= j
  <2>1. M \subseteq Nat /\ M # {}
    BY <1>1
  <2> HIDE DEF M
  <2> QED
    BY <2>1, LeastExists
<1>3. FirstSlash(s) \in M /\ \A j \in M : FirstSlash(s) <= j
  <2>1. FirstSlash(s) = CHOOSE i \in M : \A j \in M : i <= j
    BY DEF FirstSlash
  <2> HIDE DEF M
  <2> QED
    BY <1>2, <2>1, Zenon
<1>4. FirstSlash(s) \in 1..Len(s) /\ s[FirstSlash(s)] = "/"
  BY <1>1, <1>3 DEF Slashes
<1>5. ASSUME NEW j \in 1..(FirstSlash(s) - 1) PROVE s[j] # "/"
  <2>1. j \in 1..Len(s) /\ ~(FirstSlash(s) <= j)
    BY <1>1, <1>4
  <2> QED
    BY <1>3, <2>1 DEF Slashes, Strings
<1> QED
  BY <1>4, <1>5

\* A workload id has exactly one "/".
LEMMA WorkloadSlash ==
    ASSUME NEW s \in Strings, IsWorkloadId(s), NEW j \in 1..Len(s), s[j] = "/"
    PROVE  j = FirstSlash(s)
<1> DEFINE f == FirstSlash(s)
           n == SubSeq(s, f + 1, Len(s))
<1>1. f \in 1..Len(s) /\ Len(s) \in Nat /\ \A k \in 1..(f - 1) : s[k] # "/"
  BY FirstSlashIs DEF IsWorkloadId, Strings
<1>2. ~(j < f)
  BY <1>1
<1>3. ~(j > f)
  <2> SUFFICES ASSUME j > f PROVE FALSE
    OBVIOUS
  <2>1. \A k \in (f + 1)..Len(s) : s[k] \in Chars
    BY <1>1 DEF Strings
  <2>2. n \in Seq(Chars) /\ Len(n) = Len(s) - f /\ \A k \in 1..(Len(s) - f) : n[k] = s[f + k]
    <3> DEFINE g == f + 1
               l == Len(s)
               t == SubSeq(s, g, l)
    <3>1. g \in Int /\ l \in Int /\ g <= l /\ g = f + 1 /\ f \in Int /\ \A k \in g..l : s[k] \in Chars
      BY <1>1, <2>1
    <3> HIDE DEF g, l
    <3>2. /\ t \in Seq(Chars) /\ Len(t) = IF g <= l THEN l - g + 1 ELSE 0
          /\ \A k \in 1..(l - g + 1) : t[k] = s[g + k - 1]
      BY <3>1, SubSeqProperties
    <3> HIDE DEF t
    <3>3. /\ t \in Seq(Chars) /\ Len(t) = l - f
          /\ \A k \in 1..(l - f) : t[k] = s[f + k]
      <4>1. g \in Int /\ l \in Int /\ f \in Int /\ g <= l /\ g = f + 1
        BY <3>1, Zenon
      <4> HIDE DEF f, n
      <4>2. l - g + 1 = l - f /\ \A k \in Int : g + k - 1 = f + k
        BY SMT, <4>1
      <4>3. Len(t) = l - f
        BY <3>2, <4>1, <4>2, Zenon
      <4>4. ASSUME NEW k \in 1..(l - f) PROVE t[k] = s[f + k]
        <5>1. k \in 1..(l - g + 1) /\ k \in Int
          BY SMT, <4>1
        <5> QED
          BY <3>2, <4>2, <5>1, Zenon
      <4> QED
        BY <3>2, <4>3, <4>4, Zenon
    <3> QED
      BY <3>3, Zenon DEF t, g, l
  <2>3. j - f \in DOMAIN n /\ n[j - f] = "/"
    <3>1. j - f \in 1..(Len(s) - f) /\ f + (j - f) = j
      BY <1>1
    <3>2. DOMAIN n = 1..(Len(s) - f)
      BY <2>2
    <3> QED
      BY <2>2, <3>1, <3>2
  <2>4. IsValidSegment(n)
    BY DEF IsWorkloadId, Name
  <2> HIDE DEF n
  <2> QED
    BY <2>3, <2>4 DEF IsValidSegment
<1> QED
  BY <1>1, <1>2, <1>3

LEMMA SubjectGlob ==
    ASSUME NEW p \in Strings, NEW s \in Strings, IsSuffix(<<"/", "*">>, p)
    PROVE  subject_matches(p, s) <=> Glob(p, s)
<1> DEFINE m == Len(p) - 1
           prefix == SubSeq(p, 1, Len(p) - 2)
<1>0. Len(p) \in Nat /\ Len(s) \in Nat /\ Len(p) >= 2 /\ p[m] = "/" /\ p[Len(p)] = "*"
  BY EndsWithSlashStar DEF Strings
<1>1. prefix \in Strings /\ Len(prefix) = m - 1 /\ \A i \in 1..(m - 1) : prefix[i] = p[i]
  <2>1. Len(p) - 2 \in 0..Len(p) /\ Len(p) - 2 = m - 1
    BY <1>0
  <2> QED
    BY <2>1, FrontIs
<1>2. Glob(p, s) <=> Len(s) >= m /\ \A i \in 1..m : s[i] = p[i]
  <2>1. p # <<>>
    BY <1>0
  <2> QED
    BY <1>0, <2>1 DEF Glob, Extends
<1>3. p # <<"*">>
  BY <1>0
<1> HIDE DEF prefix
<1>4. CASE IsWorkloadId(s)
  <2> DEFINE f == FirstSlash(s)
             space == SubSeq(s, 1, f - 1)
  <2>1. f \in 1..Len(s) /\ s[f] = "/"
    BY <1>4, FirstSlashIs DEF IsWorkloadId
  <2>2. space \in Strings /\ Len(space) = f - 1 /\ \A i \in 1..(f - 1) : space[i] = s[i]
    <3>1. f - 1 \in 0..Len(s)
      BY <1>0, <2>1
    <3> QED
      BY <3>1, FrontIs
  <2>3. subject_matches(p, s) <=> space = prefix
    BY <1>3, <1>4 DEF subject_matches, Namespace, prefix
  <2> HIDE DEF f, space
  <2>4. ASSUME space = prefix PROVE Len(s) >= m /\ \A i \in 1..m : s[i] = p[i]
    <3>1. f = m
      BY <1>0, <1>1, <2>1, <2>2, <2>4
    <3>2. \A i \in 1..(m - 1) : s[i] = p[i]
      BY <1>1, <2>2, <2>4, <3>1
    <3> QED
      BY <1>0, <2>1, <3>1, <3>2
  <2>5. ASSUME Len(s) >= m, \A i \in 1..m : s[i] = p[i] PROVE space = prefix
    <3>1. m \in 1..Len(s) /\ s[m] = "/"
      BY <1>0, <2>5
    <3>2. f = m
      BY <1>4, <3>1, WorkloadSlash DEF f
    <3>3. Len(space) = Len(prefix) /\ \A i \in 1..Len(space) : space[i] = prefix[i]
      BY <1>0, <1>1, <2>2, <2>5, <3>2
    <3>4. space \in Seq(Chars) /\ prefix \in Seq(Chars)
      BY <1>1, <2>2 DEF Strings
    <3> QED
      BY <3>3, <3>4, SeqEqual, Zenon
  <2> QED
    BY <1>2, <2>3, <2>4, <2>5
<1>5. CASE ~IsWorkloadId(s)
  <2> DEFINE slash == <<"/">>
             q == prefix \o slash
  <2>1. subject_matches(p, s) <=> IsPrefix(q, s)
    BY <1>3, <1>5 DEF subject_matches, prefix
  <2>2. slash \in Strings /\ Len(slash) = 1 /\ slash[1] = "/"
    BY CharsAssumption DEF Strings
  <2> HIDE DEF slash
  <2>3. /\ q \in Strings /\ Len(q) = Len(prefix) + Len(slash)
        /\ \A i \in 1..(Len(prefix) + Len(slash)) :
               q[i] = IF i <= Len(prefix) THEN prefix[i] ELSE slash[i - Len(prefix)]
    BY <1>1, <2>2, ConcatProperties DEF Strings
  <2> HIDE DEF q
  <2>4. Len(q) = m /\ \A i \in 1..m : q[i] = p[i]
    <3>1. Len(q) = m
      BY <1>0, <1>1, <2>2, <2>3
    <3>2. ASSUME NEW i \in 1..m PROVE q[i] = p[i]
      <4>1. CASE i <= m - 1
        BY <1>0, <1>1, <2>2, <2>3, <4>1
      <4>2. CASE i = m
        BY <1>0, <1>1, <2>2, <2>3, <4>2
      <4> QED
        BY <1>0, <4>1, <4>2
    <3> QED
      BY <3>1, <3>2
  <2>5. IsPrefix(q, s) <=> Len(q) <= Len(s) /\ \A i \in 1..Len(q) : q[i] = s[i]
    BY <2>3, PrefixIs
  <2> QED
    BY <1>0, <1>2, <2>1, <2>4, <2>5
<1> QED
  BY <1>4, <1>5

\* What the rules and the request of a case are.
LEMMA CaseStrings ==
    ASSUME TypeOK
    PROVE  /\ request.subject \in Strings /\ request.action \in Strings
           /\ \A k \in DOMAIN policy : /\ policy[k].subject \in Strings
                                       /\ policy[k].actions \subseteq Strings
<1>1. request \in Requests /\ policy \in Seq(PolicyRules)
  BY EvalAssumption DEF TypeOK
<1>2. \A k \in DOMAIN policy : policy[k] \in PolicyRules
  BY <1>1
<1> QED
  BY <1>1, <1>2, EvalAssumption

\* matches_pattern is a glob with one "*" at the end, for every pattern and value.
THEOREM PatternIsGlobHolds == Spec => []PatternIsGlob
<1>1. LoopInv => PatternIsGlob
  BY CaseStrings, PatternGlob DEF LoopInv, PatternIsGlob
<1> QED
  BY <1>1, LoopInvHolds, PTL

\* The two ways of subject_matches agree, for every pattern "ns/*" and subject.
THEOREM SubjectIsNamespacePrefixHolds == Spec => []SubjectIsNamespacePrefix
<1>1. LoopInv => SubjectIsNamespacePrefix
  BY CaseStrings, SubjectGlob DEF LoopInv, SubjectIsNamespacePrefix
<1> QED
  BY <1>1, LoopInvHolds, PTL
-----------------------------------------------------------------------------
(* Base64: base64_decode reads back what base64_encode writes.             *)

Byte == 0..255

\* The characters but for "=" and those that are none.
Digit == 0..63

LEMMA BitsAreDigits ==
    ASSUME NEW T \in Nat, NEW k \in 0..3
    PROVE  Bits(T, k) \in Digit
<1>1. k = 0 \/ k = 1 \/ k = 2 \/ k = 3
  BY SMT
<1>2. Bits(T, 0) \in Digit
  BY SMT DEF Bits, Digit
<1>3. Bits(T, 1) \in Digit
  BY SMT DEF Bits, Digit
<1>4. Bits(T, 2) \in Digit
  BY SMT DEF Bits, Digit
<1>5. Bits(T, 3) \in Digit
  BY SMT DEF Bits, Digit
<1> QED  BY <1>1, <1>2, <1>3, <1>4, <1>5

IsTriple(T) == T \in Nat /\ T < 16777216

\* The four digits of a triple make it up.
LEMMA BitsMakeTriple ==
    ASSUME NEW T, IsTriple(T)
    PROVE  T = 262144 * Bits(T, 0) + 4096 * Bits(T, 1) + 64 * Bits(T, 2) + Bits(T, 3)
<1> DEFINE b == Bits(T, 0)  c == Bits(T, 1)  d == Bits(T, 2)  e == Bits(T, 3)
<1>1. /\ b = (T \div 262144) % 64 /\ c = (T \div 4096) % 64
      /\ d = (T \div 64) % 64 /\ e = T % 64
  BY SMT DEF Bits, IsTriple
<1> HIDE DEF b, c, d, e
<1>2. b \in 0..63 /\ c \in 0..63 /\ d \in 0..63 /\ e \in 0..63
  BY SMT, <1>1 DEF IsTriple
<1>3. T = 262144 * b + 4096 * c + 64 * d + e
  <2>1. T = 64 * (T \div 64) + e /\ T \div 64 \in Nat
    BY SMT, <1>1 DEF IsTriple
  <2>2. T \div 64 = 64 * (T \div 4096) + d /\ T \div 4096 \in Nat
    BY SMT, <1>1 DEF IsTriple
  <2>3. T \div 4096 = 64 * (T \div 262144) + c /\ T \div 262144 \in Nat
    BY SMT, <1>1 DEF IsTriple
  <2>4. T \div 262144 = b
    BY SMT, <1>1 DEF IsTriple
  <2> QED  BY SMT, <2>1, <2>2, <2>3, <2>4, <1>2
<1> QED  BY <1>3, SMT DEF b, c, d, e

\* The bytes of a triple.
Bytes(T) == <<T \div 65536, (T \div 256) % 256, T % 256>>

Joined(a, b, c) == 65536 * a + 256 * b + c

LEMMA TripleIs ==
    ASSUME NEW a \in Byte, NEW b \in Byte, NEW c \in Byte
    PROVE  /\ IsTriple(Joined(a, b, c)) /\ Bytes(Joined(a, b, c)) = <<a, b, c>>
           /\ c = 0 => Bits(Joined(a, b, c), 3) = 0
           /\ b = 0 /\ c = 0 => Bits(Joined(a, b, c), 2) = 0
<1> DEFINE T == Joined(a, b, c)
<1>0. T = 65536 * a + 256 * b + c
  BY DEF Joined
<1> HIDE DEF T
<1>1. IsTriple(T)
  BY SMT, <1>0 DEF Byte, IsTriple
<1>2. T \div 65536 = a
  BY SMT, <1>0 DEF Byte
<1>3. T % 256 = c
  BY SMT, <1>0 DEF Byte
<1>4. (T \div 256) % 256 = b
  <2>1. T \div 256 = 256 * a + b
    BY SMT, <1>0 DEF Byte
  <2> QED  BY SMT, <1>0, <2>1 DEF Byte
<1>5. c = 0 => T % 64 = 0
  BY SMT, <1>0 DEF Byte
<1>6. b = 0 /\ c = 0 => (T \div 64) % 64 = 0
  BY SMT, <1>0 DEF Byte
<1>7. Bits(T, 3) = T % 64 /\ Bits(T, 2) = (T \div 64) % 64
  BY SMT, <1>1 DEF Bits, IsTriple
<1> QED  BY SMT, <1>1, <1>2, <1>3, <1>4, <1>5, <1>6, <1>7 DEF Bytes, T

Symbol == 0..Pad
Chunks(data) == (Len(data) + 2) \div 3

\* What base64_encode writes, character by character.
LEMMA EncodedIs ==
    ASSUME NEW data \in Seq(Byte)
    PROVE  LET text == base64_encode(data)
           IN  /\ Chunks(data) \in Nat
               /\ text \in Seq(Symbol) /\ Len(text) = 4 * Chunks(data)
               /\ \A chunk \in 0..(Chunks(data) - 1), k \in 0..3 :
                      text[4 * chunk + k + 1] =
                          IF k > Len(data) - 3 * chunk THEN Pad
                          ELSE Bits(Triple(data, chunk), k)
<1> DEFINE text == base64_encode(data)
           n == Chunks(data)
           Char(chunk, k) == IF k > Len(data) - 3 * chunk THEN Pad
                             ELSE Bits(Triple(data, chunk), k)
<1>1. n \in Nat
  BY SMT DEF Chunks
<1>2. text = [i \in 1..(4 * n) |-> Char((i - 1) \div 4, (i - 1) % 4)]
  BY DEF base64_encode, Chunks, Zenon
<1>3. \A chunk \in Nat, k \in 0..3 : Char(chunk, k) \in Symbol
  <2> SUFFICES ASSUME NEW chunk \in Nat, NEW k \in 0..3
               PROVE  Char(chunk, k) \in Symbol
    OBVIOUS
  <2>1. Triple(data, chunk) \in Nat
    <3>1. \A i \in Nat : ByteAt(data, i) \in Byte
      <4>1. \A i \in DOMAIN data : data[i] \in Byte
        OBVIOUS
      <4>2. 0 \in Byte
        BY SMT DEF Byte
      <4> QED  BY <4>1, <4>2, Zenon DEF ByteAt
    <3>2. /\ ByteAt(data, 3 * chunk + 1) \in Byte /\ ByteAt(data, 3 * chunk + 2) \in Byte
          /\ ByteAt(data, 3 * chunk + 3) \in Byte
      BY SMT, <3>1
    <3> QED  BY <3>2, TripleIs DEF Triple, Joined, IsTriple, SMT
  <2>2. Bits(Triple(data, chunk), k) \in Digit
    BY <2>1, BitsAreDigits
  <2> QED  BY SMT, <2>2 DEF Pad, Digit, Symbol
<1> HIDE DEF Char, n
<1>4. text \in Seq(Symbol) /\ Len(text) = 4 * n
  <2>1. \A i \in 1..(4 * n) : (i - 1) \div 4 \in Nat /\ (i - 1) % 4 \in 0..3
    BY SMT, <1>1
  <2>2. ASSUME NEW i \in 1..(4 * n) PROVE Char((i - 1) \div 4, (i - 1) % 4) \in Symbol
    BY <1>3, <2>1, Zenon
  <2>3. 4 * n \in Nat
    BY SMT, <1>1
  <2> HIDE DEF text
  <2>4. text \in [1..(4 * n) -> Symbol]
    BY <1>2, <2>2
  <2>5. Len(text) = 4 * n /\ text \in Seq(Symbol)
    BY SMT, <2>3, <2>4
  <2> QED  BY <2>5
<1>5. ASSUME NEW chunk \in 0..(n - 1), NEW k \in 0..3
      PROVE  text[4 * chunk + k + 1] = Char(chunk, k)
  <2>1. /\ 4 * chunk + k + 1 \in 1..(4 * n)
        /\ (4 * chunk + k) \div 4 = chunk /\ (4 * chunk + k) % 4 = k
        /\ (4 * chunk + k + 1) - 1 = 4 * chunk + k
    BY SMT, <1>1
  <2> HIDE DEF text
  <2> QED  BY <1>2, <2>1
<1> QED  BY <1>1, <1>4, <1>5 DEF Char, n

LEMMA StripDigit ==
    ASSUME NEW c \in Digit, NEW rest \in Seq(Digit)
    PROVE  /\ Strip(c, rest) \in Seq(Digit) /\ Len(Strip(c, rest)) = Len(rest) + 1
           /\ Strip(c, rest)[1] = c
           /\ \A i \in 1..Len(rest) : Strip(c, rest)[i + 1] = rest[i]
<1>1. c # Pad
  BY SMT DEF Digit, Pad
<1>2. Strip(c, rest) = <<c>> \o rest
  BY <1>1 DEF Strip
<1>3. /\ <<c>> \o rest \in Seq(Digit) /\ Len(<<c>> \o rest) = Len(rest) + 1
      /\ (<<c>> \o rest)[1] = c
  BY SMT
<1>4. ASSUME NEW i \in 1..Len(rest) PROVE (<<c>> \o rest)[i + 1] = rest[i]
  BY SMT
<1> QED  BY <1>2, <1>3, <1>4

LEMMA StripPad == \A rest : Strip(Pad, rest) = rest
BY DEF Strip

LEMMA StripTwoDigits ==
    ASSUME NEW c \in Digit, NEW d \in Digit, NEW rest \in Seq(Digit)
    PROVE  LET v == Strip(c, Strip(d, rest))
           IN  /\ v \in Seq(Digit) /\ Len(v) = Len(rest) + 2
               /\ v[1] = c /\ v[2] = d
               /\ \A i \in 1..Len(rest) : v[i + 2] = rest[i]
<1> DEFINE u == Strip(d, rest)
           v == Strip(c, u)
<1>1. /\ u \in Seq(Digit) /\ Len(u) = Len(rest) + 1 /\ u[1] = d
      /\ \A i \in 1..Len(rest) : u[i + 1] = rest[i]
  BY StripDigit
<1> HIDE DEF u
<1>2. /\ v \in Seq(Digit) /\ Len(v) = Len(u) + 1 /\ v[1] = c
      /\ \A i \in 1..Len(u) : v[i + 1] = u[i]
  BY <1>1, StripDigit
<1> HIDE DEF v
<1>3. v[2] = d /\ Len(v) = Len(rest) + 2
  BY SMT, <1>1, <1>2
<1>4. ASSUME NEW i \in 1..Len(rest) PROVE v[i + 2] = rest[i]
  <2>1. i + 1 \in 1..Len(u) /\ (i + 1) + 1 = i + 2
    BY SMT, <1>1
  <2> QED  BY <1>1, <1>2, <2>1, Zenon
<1> QED  BY <1>2, <1>3, <1>4 DEF v, u

LEMMA NoDigits == <<>> \in Seq(Digit) /\ Len(<<>>) = 0
BY SMT

\* The characters of a chunk that ends in two "=", in one, in none.
LEMMA SextetsAre ==
    ASSUME NEW text, NEW chunk,
           text[4 * chunk + 1] \in Digit, text[4 * chunk + 2] \in Digit
    PROVE  LET v == Sextets(text, chunk)
               w == text[4 * chunk + 1]
               x == text[4 * chunk + 2]
               y == text[4 * chunk + 3]
               z == text[4 * chunk + 4]
           IN  /\ y = Pad /\ z = Pad =>
                      v \in Seq(Digit) /\ Len(v) = 2 /\ v[1] = w /\ v[2] = x
               /\ y \in Digit /\ z = Pad =>
                      v \in Seq(Digit) /\ Len(v) = 3 /\ v[1] = w /\ v[2] = x /\ v[3] = y
               /\ y \in Digit /\ z \in Digit =>
                      v \in Seq(Digit) /\ Len(v) = 4 /\ v[1] = w /\ v[2] = x /\ v[3] = y /\ v[4] = z
<1> DEFINE w == text[4 * chunk + 1]
           x == text[4 * chunk + 2]
           y == text[4 * chunk + 3]
           z == text[4 * chunk + 4]
<1> DEFINE yz == Strip(y, Strip(z, <<>>))
           v == Strip(w, Strip(x, yz))
<1>1. Sextets(text, chunk) = v
  BY DEF Sextets
<1>0. w \in Digit /\ x \in Digit
  OBVIOUS
<1> HIDE DEF w, x, y, z
<1>2. ASSUME yz \in Seq(Digit)
      PROVE  /\ v \in Seq(Digit) /\ Len(v) = Len(yz) + 2
             /\ v[1] = w /\ v[2] = x
             /\ \A i \in 1..Len(yz) : v[i + 2] = yz[i]
  <2> HIDE DEF yz
  <2> QED  BY <1>0, <1>2, StripTwoDigits
<1>3. ASSUME y = Pad, z = Pad
      PROVE  yz \in Seq(Digit) /\ Len(yz) = 0
  <2>1. yz = <<>>
    BY <1>3, StripPad
  <2> QED  BY <2>1, NoDigits
<1>4. ASSUME y \in Digit, z = Pad
      PROVE  yz \in Seq(Digit) /\ Len(yz) = 1 /\ yz[1] = y
  <2> DEFINE e == <<>>
  <2>1. yz = Strip(y, e)
    BY <1>4, StripPad
  <2>2. e \in Seq(Digit) /\ Len(e) = 0 /\ 0 + 1 = 1
    BY NoDigits
  <2> HIDE DEF e, yz
  <2>3. yz \in Seq(Digit) /\ Len(yz) = Len(e) + 1 /\ yz[1] = y
    BY <1>4, <2>1, <2>2, StripDigit
  <2> QED  BY <2>2, <2>3
<1>5. ASSUME y \in Digit, z \in Digit
      PROVE  yz \in Seq(Digit) /\ Len(yz) = 2 /\ yz[1] = y /\ yz[2] = z
  <2> DEFINE e == <<>>
  <2>1. e \in Seq(Digit) /\ Len(e) = 0 /\ 0 + 1 = 1 /\ 1 + 1 = 2 /\ 1 \in 1..1
    BY NoDigits
  <2> HIDE DEF e
  <2> DEFINE u == Strip(z, e)
  <2>2. u \in Seq(Digit) /\ Len(u) = Len(e) + 1 /\ u[1] = z
    BY <1>5, <2>1, StripDigit
  <2> HIDE DEF u
  <2>3. /\ Strip(y, u) \in Seq(Digit) /\ Len(Strip(y, u)) = Len(u) + 1 /\ Strip(y, u)[1] = y
        /\ \A i \in 1..Len(u) : Strip(y, u)[i + 1] = u[i]
    BY <1>5, <2>2, StripDigit
  <2>4. Len(u) = 1
    BY <2>1, <2>2
  <2>5. Len(Strip(y, u)) = 2 /\ Strip(y, u)[2] = z
    BY <2>1, <2>2, <2>3, <2>4
  <2> QED  BY <2>3, <2>5 DEF u, e
<1> HIDE DEF v, yz
<1>6. 1 \in 1..1 /\ 1 \in 1..2 /\ 2 \in 1..2 /\ 0 + 2 = 2 /\ 1 + 2 = 3 /\ 2 + 2 = 4
  BY SMT
<1> SUFFICES /\ y = Pad /\ z = Pad =>
                    v \in Seq(Digit) /\ Len(v) = 2 /\ v[1] = w /\ v[2] = x
             /\ y \in Digit /\ z = Pad =>
                    v \in Seq(Digit) /\ Len(v) = 3 /\ v[1] = w /\ v[2] = x /\ v[3] = y
             /\ y \in Digit /\ z \in Digit =>
                    v \in Seq(Digit) /\ Len(v) = 4 /\ v[1] = w /\ v[2] = x /\ v[3] = y /\ v[4] = z
  BY <1>1 DEF w, x, y, z
<1>7. y = Pad /\ z = Pad => v \in Seq(Digit) /\ Len(v) = 2 /\ v[1] = w /\ v[2] = x
  BY <1>2, <1>3, <1>6
<1>8. y \in Digit /\ z = Pad =>
          v \in Seq(Digit) /\ Len(v) = 3 /\ v[1] = w /\ v[2] = x /\ v[3] = y
  BY <1>2, <1>4, <1>6
<1>9. y \in Digit /\ z \in Digit =>
          v \in Seq(Digit) /\ Len(v) = 4 /\ v[1] = w /\ v[2] = x /\ v[3] = y /\ v[4] = z
  BY <1>2, <1>5, <1>6
<1> QED  BY <1>7, <1>8, <1>9

\* Where the bytes of chunk end.
ChunkEnd(data, chunk) == IF 3 * chunk + 3 <= Len(data) THEN 3 * chunk + 3 ELSE Len(data)

\* ChunkBytes of a text whose chunk has the digits v, of the triple T.
LEMMA ChunkBytesAre ==
    ASSUME NEW text, NEW chunk, NEW T, NEW l \in 2..4,
           Sextets(text, chunk) \in Seq(Digit), Len(Sextets(text, chunk)) = l,
           IsTriple(T),
           \A i \in 1..l : Sextets(text, chunk)[i] = Bits(T, i - 1),
           \A i \in (l + 1)..4 : Bits(T, i - 1) = 0
    PROVE  ChunkBytes(text, chunk) =
               SubSeq(Bytes(T), 1, l - 1)
<1> DEFINE vals == Sextets(text, chunk)
           Val(i) == IF i \in DOMAIN vals THEN vals[i] ELSE 0
           triple == 262144 * Val(1) + 4096 * Val(2) + 64 * Val(3) + Val(4)
           all == <<triple \div 65536, (triple \div 256) % 256, triple % 256>>
<1>1. ChunkBytes(text, chunk) = SubSeq(all, 1, IF Len(vals) <= 2 THEN 1 ELSE Len(vals) - 1)
  BY DEF ChunkBytes
<1>2. DOMAIN vals = 1..l
  BY SMT
<1>3. \A i \in 1..4 : Val(i) = Bits(T, i - 1)
  <2> SUFFICES ASSUME NEW i \in 1..4 PROVE Val(i) = Bits(T, i - 1)
    OBVIOUS
  <2>1. i \in 1..l \/ i \in (l + 1)..4
    BY SMT
  <2>2. i \in (l + 1)..4 => i \notin 1..l
    BY SMT
  <2> QED  BY <1>2, <2>1, <2>2
<1>4. Val(1) = Bits(T, 0) /\ Val(2) = Bits(T, 1) /\ Val(3) = Bits(T, 2) /\ Val(4) = Bits(T, 3)
  <2>1. /\ 1 \in 1..4 /\ 2 \in 1..4 /\ 3 \in 1..4 /\ 4 \in 1..4
        /\ 1 - 1 = 0 /\ 2 - 1 = 1 /\ 3 - 1 = 2 /\ 4 - 1 = 3
    BY SMT
  <2> HIDE DEF Val
  <2> QED  BY <1>3, <2>1
<1>5. triple = T
  <2> HIDE DEF Val
  <2> QED  BY SMT, <1>4, BitsMakeTriple
<1>6. (IF Len(vals) <= 2 THEN 1 ELSE Len(vals) - 1) = l - 1
  BY SMT
<1>7. all = Bytes(triple)
  BY DEF Bytes
<1> HIDE DEF vals, triple, all
<1> QED  BY <1>1, <1>5, <1>6, <1>7

\* The first n of three bytes, and n bytes of the data that are the same.
LEMMA SameBytes ==
    ASSUME NEW data \in Seq(Byte), NEW p \in Nat, NEW n \in 1..3, p + n <= Len(data),
           NEW all \in Seq(Byte), Len(all) = 3,
           \A i \in 1..n : all[i] = data[p + i]
    PROVE  SubSeq(all, 1, n) = SubSeq(data, p + 1, p + n)
<1> DEFINE s == SubSeq(all, 1, n)
           t == SubSeq(data, p + 1, p + n)
<1>1. s \in Seq(Byte) /\ Len(s) = n /\ \A i \in 1..n : s[i] = all[i]
  BY SMT
<1>2. t \in Seq(Byte) /\ Len(t) = n /\ \A i \in 1..n : t[i] = data[p + i]
  BY SMT
<1> HIDE DEF s, t
<1>3. \A i \in 1..Len(s) : s[i] = t[i]
  BY <1>1, <1>2
<1>4. s = t
  BY <1>1, <1>2, <1>3, SeqEqual
<1> QED  BY <1>4 DEF s, t

LEMMA ByteAtIs ==
    ASSUME NEW data \in Seq(Byte), NEW i \in Nat
    PROVE  /\ ByteAt(data, i) \in Byte
           /\ i \in 1..Len(data) => ByteAt(data, i) = data[i]
           /\ i > Len(data) => ByteAt(data, i) = 0
<1>1. \A j \in DOMAIN data : data[j] \in Byte
  OBVIOUS
<1>2. 0 \in Byte
  BY SMT DEF Byte
<1>3. DOMAIN data = 1..Len(data)
  OBVIOUS
<1>4. i > Len(data) => i \notin 1..Len(data)
  BY SMT
<1> QED  BY <1>1, <1>2, <1>3, <1>4, Zenon DEF ByteAt

\* Every chunk has a byte.
LEMMA ChunkStarts ==
    ASSUME NEW data \in Seq(Byte), NEW chunk \in 0..(Chunks(data) - 1)
    PROVE  chunk \in Nat /\ 3 * chunk \in Nat /\ 3 * chunk < Len(data)
<1>1. Len(data) \in Nat
  OBVIOUS
<1> DEFINE L == Len(data)
<1> HIDE DEF L
<1>2. chunk \in 0..(((L + 2) \div 3) - 1)
  BY DEF L, Chunks
<1>3. L \in Nat
  BY <1>1 DEF L
<1>4. chunk \in Nat /\ 3 * chunk \in Nat /\ 3 * chunk < L
  BY SMT, <1>2, <1>3
<1> QED  BY <1>4 DEF L

\* A chunk of the text that base64_encode writes is decoded to its bytes.
LEMMA ChunkDecoded ==
    ASSUME NEW data \in Seq(Byte), NEW chunk \in 0..(Chunks(data) - 1)
    PROVE  ChunkBytes(base64_encode(data), chunk) =
               SubSeq(data, 3 * chunk + 1, ChunkEnd(data, chunk))
<1> DEFINE text == base64_encode(data)
           p == 3 * chunk
           L == Len(data)
           l == IF L >= p + 3 THEN 4 ELSE (L - p) + 1
           T == Triple(data, chunk)
           a == ByteAt(data, p + 1)
           b == ByteAt(data, p + 2)
           c == ByteAt(data, p + 3)
<1>0. chunk \in Nat /\ p \in Nat /\ p < L /\ L \in Nat
  BY ChunkStarts
<1>1. /\ l \in 2..4 /\ p + (l - 1) = ChunkEnd(data, chunk) /\ l - 1 \in 1..3
      /\ ChunkEnd(data, chunk) <= L
  <2> ChunkEnd(data, chunk) = IF p + 3 <= L THEN p + 3 ELSE L
    BY DEF ChunkEnd
  <2> HIDE DEF p, L
  <2> QED  BY SMT, <1>0
<1>2. /\ a = data[p + 1]
      /\ l >= 3 => b = data[p + 2]
      /\ l = 4 => c = data[p + 3]
      /\ l = 2 => b = 0
      /\ l <= 3 => c = 0
      /\ a \in Byte /\ b \in Byte /\ c \in Byte
  <2>1. /\ p + 1 \in Nat /\ p + 2 \in Nat /\ p + 3 \in Nat /\ p + 1 \in 1..L
        /\ l >= 3 => p + 2 \in 1..L
        /\ l = 4 => p + 3 \in 1..L
        /\ l = 2 => p + 2 > L
        /\ l <= 3 => p + 3 > L
    <3> HIDE DEF p, L
    <3> QED  BY SMT, <1>0
  <2> HIDE DEF p, l
  <2> QED  BY <2>1, ByteAtIs
<1>3. /\ IsTriple(T) /\ Bytes(T) = <<a, b, c>>
      /\ c = 0 => Bits(T, 3) = 0
      /\ b = 0 /\ c = 0 => Bits(T, 2) = 0
  <2>1. T = Joined(a, b, c)
    BY SMT DEF Triple, Joined
  <2> HIDE DEF a, b, c, T
  <2> QED  BY <1>2, <2>1, TripleIs, Zenon
<1>5. ASSUME NEW i \in (l + 1)..4 PROVE Bits(T, i - 1) = 0
  <2> HIDE DEF T, a, b, c, p, l
  <2>1. (i = 4 /\ i - 1 = 3 /\ l <= 3) \/ (i = 3 /\ i - 1 = 2 /\ l = 2 /\ l <= 3)
    BY SMT, <1>1
  <2> QED  BY <1>2, <1>3, <2>1
<1>6. Sextets(text, chunk) \in Seq(Digit) /\ Len(Sextets(text, chunk)) = l
      /\ \A i \in 1..l : Sextets(text, chunk)[i] = Bits(T, i - 1)
  <2> DEFINE Char(k) == IF k > L - p THEN Pad ELSE Bits(T, k)
  <2>1. \A k \in 0..3 : text[4 * chunk + k + 1] = Char(k)
    BY EncodedIs
  <2>2. \A k \in 0..3 : Bits(T, k) \in Digit
    <3> HIDE DEF T
    <3> QED  BY <1>3, BitsAreDigits DEF IsTriple
  <2>3. /\ text[4 * chunk + 1] = Char(0) /\ text[4 * chunk + 2] = Char(1)
        /\ text[4 * chunk + 3] = Char(2) /\ text[4 * chunk + 4] = Char(3)
    <3>1. /\ 4 * chunk + 0 + 1 = 4 * chunk + 1 /\ 4 * chunk + 1 + 1 = 4 * chunk + 2
          /\ 4 * chunk + 2 + 1 = 4 * chunk + 3 /\ 4 * chunk + 3 + 1 = 4 * chunk + 4
          /\ 0 \in 0..3 /\ 1 \in 0..3 /\ 2 \in 0..3 /\ 3 \in 0..3
      BY SMT, <1>0
    <3> HIDE DEF Char, text
    <3> QED  BY <2>1, <3>1
  <2>4. /\ Char(0) = Bits(T, 0) /\ Char(1) = Bits(T, 1)
        /\ l = 2 => Char(2) = Pad /\ Char(3) = Pad
        /\ l = 3 => Char(2) = Bits(T, 2) /\ Char(3) = Pad
        /\ l = 4 => Char(2) = Bits(T, 2) /\ Char(3) = Bits(T, 3)
    <3> HIDE DEF p, L, T
    <3> QED  BY SMT, <1>0
  <2>5. /\ Bits(T, 0) \in Digit /\ Bits(T, 1) \in Digit
        /\ Bits(T, 2) \in Digit /\ Bits(T, 3) \in Digit
    BY <2>2
  <2> HIDE DEF Char, T, text, l
  <2>6. l = 2 \/ l = 3 \/ l = 4
    BY SMT, <1>1
  <2> DEFINE v == Sextets(text, chunk)
  <2>7. CASE l = 2
    <3>1. v \in Seq(Digit) /\ Len(v) = 2 /\ v[1] = Bits(T, 0) /\ v[2] = Bits(T, 1)
      <4>1. /\ text[4 * chunk + 1] = Bits(T, 0) /\ text[4 * chunk + 2] = Bits(T, 1)
            /\ text[4 * chunk + 3] = Pad /\ text[4 * chunk + 4] = Pad
        BY <2>3, <2>4, <2>7, Zenon
      <4>2. text[4 * chunk + 1] \in Digit /\ text[4 * chunk + 2] \in Digit
        BY <2>5, <4>1, Zenon
      <4> QED  BY <4>1, <4>2, SextetsAre, Zenon
    <3>2. \A i \in 1..2 : (i = 1 /\ i - 1 = 0) \/ (i = 2 /\ i - 1 = 1)
      BY SMT
    <3> HIDE DEF v
    <3>3. \A i \in 1..2 : v[i] = Bits(T, i - 1)
      BY <3>1, <3>2
    <3> QED  BY <2>7, <3>1, <3>3 DEF v
  <2>8. CASE l = 3
    <3>1. /\ v \in Seq(Digit) /\ Len(v) = 3 /\ v[1] = Bits(T, 0) /\ v[2] = Bits(T, 1)
          /\ v[3] = Bits(T, 2)
      <4>1. /\ text[4 * chunk + 1] = Bits(T, 0) /\ text[4 * chunk + 2] = Bits(T, 1)
            /\ text[4 * chunk + 3] = Bits(T, 2) /\ text[4 * chunk + 4] = Pad
        BY <2>3, <2>4, <2>8
      <4> QED  BY <4>1, <2>5, SextetsAre
    <3>2. \A i \in 1..3 : (i = 1 /\ i - 1 = 0) \/ (i = 2 /\ i - 1 = 1) \/ (i = 3 /\ i - 1 = 2)
      BY SMT
    <3> HIDE DEF v
    <3>3. \A i \in 1..3 : v[i] = Bits(T, i - 1)
      BY <3>1, <3>2
    <3> QED  BY <2>8, <3>1, <3>3 DEF v
  <2>9. CASE l = 4
    <3>1. /\ v \in Seq(Digit) /\ Len(v) = 4 /\ v[1] = Bits(T, 0) /\ v[2] = Bits(T, 1)
          /\ v[3] = Bits(T, 2) /\ v[4] = Bits(T, 3)
      <4>1. /\ text[4 * chunk + 1] = Bits(T, 0) /\ text[4 * chunk + 2] = Bits(T, 1)
            /\ text[4 * chunk + 3] = Bits(T, 2) /\ text[4 * chunk + 4] = Bits(T, 3)
        BY <2>3, <2>4, <2>9
      <4> QED  BY <4>1, <2>5, SextetsAre
    <3>2. \A i \in 1..4 : \/ i = 1 /\ i - 1 = 0
                          \/ i = 2 /\ i - 1 = 1
                          \/ i = 3 /\ i - 1 = 2
                          \/ i = 4 /\ i - 1 = 3
      BY SMT
    <3> HIDE DEF v
    <3>3. \A i \in 1..4 : v[i] = Bits(T, i - 1)
      BY <3>1, <3>2
    <3> QED  BY <2>9, <3>1, <3>3 DEF v
  <2> QED  BY <2>6, <2>7, <2>8, <2>9
<1>7. Bytes(T) \in Seq(Byte) /\ Len(Bytes(T)) = 3
  <2> HIDE DEF a, b, c, T
  <2> QED  BY <1>2, <1>3
<1>8. ASSUME NEW i \in 1..(l - 1) PROVE Bytes(T)[i] = data[p + i]
  <2> HIDE DEF a, b, c, T, l, p
  <2>1. \/ i = 1 /\ l >= 2
        \/ i = 2 /\ l >= 3
        \/ i = 3 /\ l = 4
    BY SMT, <1>1
  <2> QED  BY <1>2, <1>3, <2>1
<1>9. ChunkBytes(text, chunk) = SubSeq(Bytes(T), 1, l - 1)
  <2> HIDE DEF T, text, l
  <2> QED  BY <1>1, <1>3, <1>5, <1>6, ChunkBytesAre
<1>10. SubSeq(Bytes(T), 1, l - 1) = SubSeq(data, p + 1, p + (l - 1))
  <2> HIDE DEF T, l, p
  <2> QED  BY <1>0, <1>1, <1>7, <1>8, SameBytes
<1> HIDE DEF text, p, l, T
<1>11. ChunkBytes(text, chunk) = SubSeq(data, p + 1, ChunkEnd(data, chunk))
  BY <1>1, <1>9, <1>10
<1> QED  BY <1>11 DEF text, p

\* The concatenation of the parts is what every prefix of them is followed to.
LEMMA FlattenIs ==
    ASSUME NEW seqs, NEW n \in Nat \ {0}, Len(seqs) = n,
           NEW g, g[1] = seqs[1], \A i \in 2..n : g[i] = g[i - 1] \o seqs[i]
    PROVE  FlattenSeq(seqs) = g[n]
<1> DEFINE Body(f) == [i \in 1..n |-> IF i = 1 THEN seqs[i] ELSE f[i - 1] \o seqs[i]]
           flat == CHOOSE f : f = Body(f)
           h == [i \in 1..n |-> g[i]]
<1>1. FlattenSeq(seqs) = flat[n]
  <2>1. Len(seqs) # 0
    BY SMT
  <2> QED  BY <2>1, Zenon DEF FlattenSeq
<1>2. h = Body(h)
  <2>1. ASSUME NEW i \in 1..n
        PROVE  h[i] = IF i = 1 THEN seqs[i] ELSE h[i - 1] \o seqs[i]
    <3>1. i = 1 \/ (i \in 2..n /\ i - 1 \in 1..n /\ i # 1)
      BY SMT
    <3> QED  BY <3>1
  <2> HIDE DEF h
  <2>2. h = [i \in 1..n |-> h[i]]
    BY DEF h
  <2> QED  BY <2>1, <2>2, Zenon
<1>3. flat = Body(flat)
  <2> HIDE DEF h, Body
  <2> QED  BY <1>2, Zenon
<1> HIDE DEF flat
<1>4. flat[1] = seqs[1] /\ \A i \in 2..n : flat[i] = flat[i - 1] \o seqs[i]
  <2>1. 1 \in 1..n /\ \A i \in 2..n : i \in 1..n /\ i # 1
    BY SMT
  <2>2. \A i \in 1..n : flat[i] = IF i = 1 THEN seqs[i] ELSE flat[i - 1] \o seqs[i]
    BY <1>3
  <2> QED  BY <2>1, <2>2, Zenon
<1> DEFINE Wrong == {i \in 1..n : flat[i] # g[i]}
<1>5. Wrong = {}
  <2> SUFFICES ASSUME Wrong # {} PROVE FALSE
    OBVIOUS
  <2>1. PICK i \in Wrong : \A j \in Wrong : i <= j
    <3>1. Wrong \subseteq Nat
      BY SMT
    <3> HIDE DEF Wrong
    <3> QED  BY <3>1, LeastExists
  <2>2. i \in 2..n
    <3>1. i # 1
      BY <1>4
    <3> QED  BY SMT, <3>1
  <2>3. i - 1 \in 1..n /\ i \in 1..n /\ i - 1 < i /\ ~(i <= i - 1)
    BY SMT, <2>2
  <2>4. i - 1 \notin Wrong
    BY <2>1, <2>3, Zenon
  <2>5. flat[i - 1] = g[i - 1]
    BY <2>3, <2>4
  <2> QED  BY <1>4, <2>2, <2>5
<1>6. n \in 1..n
  BY SMT
<1> QED  BY <1>1, <1>5, <1>6

\* Two pieces of the data, one behind the other.
LEMMA SplitAt ==
    ASSUME NEW data \in Seq(Byte), NEW p \in 0..Len(data), NEW e \in p..Len(data)
    PROVE  SubSeq(data, 1, p) \o SubSeq(data, p + 1, e) = SubSeq(data, 1, e)
<1> DEFINE s == SubSeq(data, 1, p)
           t == SubSeq(data, p + 1, e)
           u == SubSeq(data, 1, e)
<1>1. s \in Seq(Byte) /\ Len(s) = p /\ \A i \in 1..p : s[i] = data[i]
  BY SMT
<1>2. t \in Seq(Byte) /\ Len(t) = e - p /\ \A i \in 1..(e - p) : t[i] = data[p + i]
  BY SMT
<1>3. u \in Seq(Byte) /\ Len(u) = e /\ \A i \in 1..e : u[i] = data[i]
  BY SMT
<1>0. p \in Nat /\ e \in Nat /\ p <= e
  BY SMT
<1> HIDE DEF s, t, u
<1>4. /\ s \o t \in Seq(Byte) /\ Len(s \o t) = p + (e - p)
      /\ \A i \in 1..(p + (e - p)) : (s \o t)[i] = IF i <= p THEN s[i] ELSE t[i - p]
  <2>1. /\ s \o t \in Seq(Byte) /\ Len(s \o t) = Len(s) + Len(t)
        /\ \A i \in 1..(Len(s) + Len(t)) :
               (s \o t)[i] = IF i <= Len(s) THEN s[i] ELSE t[i - Len(s)]
    BY <1>1, <1>2, ConcatProperties
  <2> QED  BY <1>1, <1>2, <2>1
<1> DEFINE st == s \o t
<1> HIDE DEF st
<1>5. /\ st \in Seq(Byte) /\ Len(st) = e
      /\ \A i \in 1..e : st[i] = IF i <= p THEN s[i] ELSE t[i - p]
  <2>1. p + (e - p) = e
    BY SMT, <1>0
  <2> QED  BY <1>4, <2>1 DEF st
<1>6. ASSUME NEW i \in 1..e PROVE st[i] = u[i]
  <2>1. i \in 1..p \/ (~(i <= p) /\ i - p \in 1..(e - p) /\ p + (i - p) = i)
    BY SMT, <1>0
  <2>2. i \in 1..p => i <= p
    BY SMT, <1>0
  <2> QED  BY <1>1, <1>2, <1>3, <1>5, <2>1, <2>2
<1>7. st = u
  BY <1>3, <1>5, <1>6, SeqEqual
<1> QED  BY <1>7 DEF st, s, t, u

\* What base64_encode writes, base64_decode reads, whatever the length.
LEMMA RoundTrip ==
    ASSUME NEW data \in Seq(Byte)
    PROVE  base64_decode(base64_encode(data)) = data
<1> DEFINE text == base64_encode(data)
           n == Chunks(data)
           L == Len(data)
           seqs == [i \in 1..n |-> ChunkBytes(text, i - 1)]
           g == [i \in 1..n |-> SubSeq(data, 1, ChunkEnd(data, i - 1))]
<1>1. n \in Nat /\ L \in Nat /\ text \in Seq(Symbol) /\ Len(text) = 4 * n
  BY EncodedIs
<1>2. base64_decode(text) = FlattenSeq(seqs)
  <2> HIDE DEF n, text
  <2>1. Len(text) % 4 = 0 /\ Len(text) \div 4 = n
    BY SMT, <1>1
  <2>2. \A i \in DOMAIN text : text[i] # Bad
    <3>1. \A i \in DOMAIN text : text[i] \in Symbol
      BY <1>1
    <3>2. Bad \notin Symbol
      BY SMT DEF Bad, Symbol, Pad
    <3> QED  BY <3>1, <3>2
  <2> QED  BY <2>1, <2>2, Zenon DEF base64_decode
<1>3. CASE n = 0
  <2>1. data = <<>>
    <3>1. L = 0
      BY SMT, <1>3 DEF Chunks
    <3> QED  BY <3>1
  <2>2. Len(seqs) = 0 /\ seqs = <<>>
    BY <1>3
  <2> QED  BY <1>2, <2>1, <2>2, Zenon DEF FlattenSeq
<1>4. CASE n # 0
  <2>0. n \in Nat \ {0}
    BY <1>1, <1>4
  <2>1. ASSUME NEW i \in 1..n
        PROVE  /\ i - 1 \in 0..(n - 1) /\ 3 * (i - 1) \in Nat /\ 3 * (i - 1) < L
               /\ seqs[i] = SubSeq(data, 3 * (i - 1) + 1, ChunkEnd(data, i - 1))
    <3>1. i - 1 \in 0..(n - 1)
      BY SMT, <2>0
    <3>2. i - 1 \in Nat /\ 3 * (i - 1) \in Nat /\ 3 * (i - 1) < L
      BY <3>1, ChunkStarts
    <3>3. ChunkBytes(text, i - 1) = SubSeq(data, 3 * (i - 1) + 1, ChunkEnd(data, i - 1))
      BY <3>1, ChunkDecoded
    <3> QED  BY <3>1, <3>2, <3>3
  <2>2. Len(seqs) = n
    <3> HIDE DEF text, n
    <3> QED  BY <2>0
  <2>3. \A i \in 1..n : g[i] = SubSeq(data, 1, ChunkEnd(data, i - 1))
    OBVIOUS
  <2>4. g[1] = seqs[1]
    <3>1. 1 \in 1..n /\ 3 * (1 - 1) + 1 = 1
      BY SMT, <2>0
    <3> HIDE DEF g, seqs, n
    <3>2. seqs[1] = SubSeq(data, 3 * (1 - 1) + 1, ChunkEnd(data, 1 - 1))
      BY <2>1, <3>1, Zenon
    <3>3. g[1] = SubSeq(data, 1, ChunkEnd(data, 1 - 1))
      BY <2>3, <3>1, Zenon
    <3> QED  BY <3>1, <3>2, <3>3, Zenon
  <2>5. ASSUME NEW i \in 2..n PROVE g[i] = g[i - 1] \o seqs[i]
    <3> DEFINE p == 3 * (i - 1)  e == ChunkEnd(data, i - 1)
    <3>1. i \in 1..n /\ i - 1 \in 1..n /\ i - 1 \in Nat
      BY SMT, <2>0
    <3>2. p \in Nat /\ p < L
      BY <2>1, <3>1
    <3>3. ChunkEnd(data, (i - 1) - 1) = p
      <4>1. 3 * ((i - 1) - 1) + 3 = p
        BY SMT, <3>1
      <4> HIDE DEF p
      <4>2. p <= L
        BY SMT, <1>1, <3>2
      <4> QED  BY <4>1, <4>2 DEF ChunkEnd
    <3>4. p \in 0..L /\ e \in p..L
      <4>1. e = IF p + 3 <= L THEN p + 3 ELSE L
        BY DEF ChunkEnd
      <4> HIDE DEF p, e, L
      <4> QED  BY SMT, <1>1, <3>2, <4>1
    <3>5. g[i] = SubSeq(data, 1, e) /\ g[i - 1] = SubSeq(data, 1, p)
      <4> HIDE DEF g
      <4> QED  BY <2>3, <3>1, <3>3
    <3>6. seqs[i] = SubSeq(data, p + 1, e)
      BY <2>1, <3>1
    <3> HIDE DEF g, seqs, p, e
    <3>7. SubSeq(data, 1, p) \o SubSeq(data, p + 1, e) = SubSeq(data, 1, e)
      BY <3>4, SplitAt
    <3> QED  BY <3>5, <3>6, <3>7
  <2>6. FlattenSeq(seqs) = g[n]
    <3> HIDE DEF g, seqs, n
    <3>1. \A i \in 2..n : g[i] = g[i - 1] \o seqs[i]
      BY <2>5, Zenon
    <3> HIDE DEF text, L
    <3> QED  BY <2>0, <2>2, <2>4, <3>1, FlattenIs, ZenonT(60)
  <2>7. ChunkEnd(data, n - 1) = L
    <3>1. 3 * (n - 1) + 3 >= L
      <4>1. n = (L + 2) \div 3
        BY DEF Chunks
      <4> HIDE DEF n, L
      <4> QED  BY SMT, <1>1, <4>1
    <3>2. ChunkEnd(data, n - 1) = IF 3 * (n - 1) + 3 <= L THEN 3 * (n - 1) + 3 ELSE L
      BY DEF ChunkEnd
    <3> HIDE DEF n, L
    <3> QED  BY SMT, <1>1, <3>1, <3>2
  <2>8. g[n] = SubSeq(data, 1, L)
    <3>1. n \in 1..n
      BY SMT, <2>0
    <3> HIDE DEF g, n, L
    <3> QED  BY <2>3, <2>7, <3>1
  <2>9. SubSeq(data, 1, L) = data
    OBVIOUS
  <2> HIDE DEF g, n, L
  <2> QED  BY <1>2, <2>6, <2>8, <2>9
<1> QED  BY <1>3, <1>4

\* serde_json reads back what it wrote.
LEMMA JsonIs ==
    ASSUME NEW c \in Claims
    PROVE  Json[c] \in Seq(Byte) /\ Parse(Json[c]) = c
<1>1. Json[c] \in Seq(Byte)
  BY TokenAssumption DEF Byte
<1>2. \E d \in Claims : Json[d] = Json[c]
  OBVIOUS
<1>3. Parse(Json[c]) = CHOOSE d \in Claims : Json[d] = Json[c]
  BY <1>2, Zenon DEF Parse
<1>4. Parse(Json[c]) \in Claims /\ Json[Parse(Json[c])] = Json[c]
  BY <1>2, <1>3, Zenon
<1>5. \A x, y \in Claims : Json[x] = Json[y] => x = y
  BY TokenAssumption, Zenon
<1> QED  BY <1>1, <1>4, <1>5, Zenon

\* The claims come back from the text they were issued as.
LEMMA ClaimsComeBack ==
    ASSUME NEW c \in Claims
    PROVE  Parse(base64_decode(base64_encode(Json[c]))) = c
BY JsonIs, RoundTrip

\* A text with a "." in it is refused.
LEMMA DotRefused ==
    ASSUME NEW S, NEW text \in Seq(S)
    PROVE  Parse(base64_decode(text \o <<Bad>>)) = Nothing
<1> DEFINE t == text \o <<Bad>>
<1>1. Len(text) + 1 \in DOMAIN t /\ t[Len(text) + 1] = Bad
  <2> text \in Seq(S \cup {Bad}) /\ <<Bad>> \in Seq(S \cup {Bad}) /\ Len(<<Bad>>) = 1
    BY SMT
  <2> QED  BY SMT
<1>2. base64_decode(t) = Nothing
  <2> HIDE DEF t
  <2> QED  BY <1>1, Zenon DEF base64_decode
<1>3. \A c \in Claims : Json[c] # Nothing
  BY TokenAssumption
<1> QED  BY <1>2, <1>3, Zenon DEF Parse

-----------------------------------------------------------------------------
(* Tokens: what was issued, and what the verification just made looked at. *)

IssuedPlain(t) == \E c \in Claims : t = [raw |-> issue(c), claims |-> c, key |-> Nothing]
IssuedSigned(t) == \E c \in Claims, k \in Keys :
                       t = [raw |-> issue_signed(c, k), claims |-> c, key |-> k]

IssuedInv == \A t \in issued : IssuedPlain(t) \/ IssuedSigned(t)

\* The verdict is the one of now, about what is presented.
Checked(op, raw, arg, verdict) == [op |-> op, raw |-> raw, arg |-> arg, verdict |-> verdict]
CheckInv ==
    check # Nothing =>
        \E raw \in Presented :
            \/ check = Checked("verify", raw, Nothing, verify(raw))
            \/ \E s \in Subjects : check = Checked("verify_for", raw, s, verify_for(raw, s))
            \/ \E k \in Keys : check = Checked("verify_signed", raw, k, verify_signed(raw, k))

TokenInv == IssuedInv /\ CheckInv

LEMMA InitToken == TokenInit => TokenInv
BY DEF TokenInit, TokenInv, IssuedInv, CheckInv

\* Nothing a verification looks at has changed.
LEMMA SameVerdicts ==
    ASSUME UNCHANGED <<now, issued>>
    PROVE  /\ Presented' = Presented
           /\ \A raw : verify(raw)' = verify(raw)
           /\ \A raw, s : verify_for(raw, s)' = verify_for(raw, s)
           /\ \A raw, k : verify_signed(raw, k)' = verify_signed(raw, k)
BY Zenon DEF Presented, Signatures, verify, verify_for, verify_signed, InWindow

LEMMA StepToken == TokenInv /\ [TokenNext]_tokenVars => TokenInv'
<1> SUFFICES ASSUME TokenInv, [TokenNext]_tokenVars PROVE TokenInv'
  OBVIOUS
<1>1. ASSUME NEW c \in Claims, Issue(c) PROVE TokenInv'
  <2> DEFINE t == [raw |-> issue(c), claims |-> c, key |-> Nothing]
  <2>1. issued' = issued \cup {t} /\ check' = Nothing
    BY <1>1 DEF Issue
  <2>2. IssuedPlain(t)
    BY DEF IssuedPlain
  <2> HIDE DEF t
  <2>3. IssuedInv'
    BY <2>1, <2>2 DEF TokenInv, IssuedInv, IssuedPlain, IssuedSigned
  <2>4. CheckInv'
    BY <2>1 DEF CheckInv
  <2> QED  BY <2>3, <2>4 DEF TokenInv
<1>2. ASSUME NEW c \in Claims, NEW k \in Keys, IssueSigned(c, k) PROVE TokenInv'
  <2> DEFINE t == [raw |-> issue_signed(c, k), claims |-> c, key |-> k]
  <2>1. issued' = issued \cup {t} /\ check' = Nothing
    BY <1>2 DEF IssueSigned
  <2>2. IssuedSigned(t)
    BY DEF IssuedSigned
  <2> HIDE DEF t
  <2>3. IssuedInv'
    BY <2>1, <2>2 DEF TokenInv, IssuedInv, IssuedPlain, IssuedSigned
  <2>4. CheckInv'
    BY <2>1 DEF CheckInv
  <2> QED  BY <2>3, <2>4 DEF TokenInv
<1>3. CASE Clock
  <2>1. IssuedInv'
    BY <1>3 DEF Clock, TokenInv, IssuedInv, IssuedPlain, IssuedSigned
  <2>2. CheckInv'
    BY <1>3 DEF Clock, CheckInv
  <2> QED  BY <2>1, <2>2 DEF TokenInv
<1>4. ASSUME NEW op, NEW raw, NEW arg, NEW verdict, Check(op, raw, arg, verdict)
      PROVE  /\ UNCHANGED <<now, issued>> /\ check' = Checked(op, raw, arg, verdict)
             /\ IssuedInv'
  BY <1>4 DEF Check, Checked, TokenInv, IssuedInv, IssuedPlain, IssuedSigned
<1>5. ASSUME NEW raw \in Presented, Verify(raw) PROVE TokenInv'
  <2>1. /\ UNCHANGED <<now, issued>> /\ IssuedInv'
        /\ check' = Checked("verify", raw, Nothing, verify(raw))
    BY <1>4, <1>5 DEF Verify
  <2>2. raw \in Presented' /\ verify(raw)' = verify(raw)
    BY <2>1, SameVerdicts
  <2> QED  BY <2>1, <2>2 DEF TokenInv, CheckInv
<1>6. ASSUME NEW raw \in Presented, NEW s \in Subjects, VerifyFor(raw, s) PROVE TokenInv'
  <2>1. /\ UNCHANGED <<now, issued>> /\ IssuedInv'
        /\ check' = Checked("verify_for", raw, s, verify_for(raw, s))
    BY <1>4, <1>6 DEF VerifyFor
  <2>2. raw \in Presented' /\ verify_for(raw, s)' = verify_for(raw, s)
    BY <2>1, SameVerdicts
  <2> QED  BY <2>1, <2>2 DEF TokenInv, CheckInv
<1>7. ASSUME NEW raw \in Presented, NEW k \in Keys, VerifySigned(raw, k) PROVE TokenInv'
  <2>1. /\ UNCHANGED <<now, issued>> /\ IssuedInv'
        /\ check' = Checked("verify_signed", raw, k, verify_signed(raw, k))
    BY <1>4, <1>7 DEF VerifySigned
  <2>2. raw \in Presented' /\ verify_signed(raw, k)' = verify_signed(raw, k)
    BY <2>1, SameVerdicts
  <2> QED  BY <2>1, <2>2 DEF TokenInv, CheckInv
<1>8. CASE UNCHANGED tokenVars
  <2>1. UNCHANGED <<now, issued>> /\ check' = check
    BY <1>8 DEF tokenVars
  <2>2. IssuedInv'
    BY <2>1 DEF TokenInv, IssuedInv, IssuedPlain, IssuedSigned
  <2>3. CheckInv'
    BY <2>1, SameVerdicts DEF TokenInv, CheckInv
  <2> QED  BY <2>2, <2>3 DEF TokenInv
<1> QED  BY <1>1, <1>2, <1>3, <1>5, <1>6, <1>7, <1>8 DEF TokenNext

\* The inductive invariant: every token issued is one of issue or issue_signed, and
\* the verdict is that of one of the three verifiers on what may be presented.
THEOREM TokenInvHolds == TokenSpec => []TokenInv
<1>1. TokenInit => TokenInv
  BY InitToken
<1>2. TokenInv /\ [TokenNext]_tokenVars => TokenInv'
  BY StepToken
<1> QED
  BY <1>1, <1>2, PTL DEF TokenSpec

\* SHA-256 being ideal, a signature tells the text and the padded key.
LEMMA SignatureTells ==
    ASSUME NEW k, NEW l, NEW m, NEW n,
           hex_encode(hmac_sha256(k, m)) = hex_encode(hmac_sha256(l, n))
    PROVE  SameKey(k, l) /\ m = n
<1> DEFINE inner(key, message) == [i_key_pad |-> PaddedKey(key), message |-> message]
           outer(key, message) == [o_key_pad |-> PaddedKey(key),
                                   inner_hash |-> sha256(inner(key, message))]
<1>1. \A x, y : hex_encode(x) = hex_encode(y) => x = y
  <2> SUFFICES ASSUME NEW x, NEW y, [hex |-> x] = [hex |-> y] PROVE x = y
    BY DEF hex_encode
  <2>1. [hex |-> x].hex = [hex |-> y].hex
    OBVIOUS
  <2> QED  BY <2>1
<1>2. \A x, y : sha256(x) = sha256(y) => x = y
  <2> SUFFICES ASSUME NEW x, NEW y, [sha256 |-> x] = [sha256 |-> y] PROVE x = y
    BY DEF sha256
  <2>1. [sha256 |-> x].sha256 = [sha256 |-> y].sha256
    OBVIOUS
  <2> QED  BY <2>1
<1>3. \A key, message : hmac_sha256(key, message) = sha256(outer(key, message))
  BY DEF hmac_sha256
<1>4. outer(k, m) = outer(l, n)
  <2> HIDE DEF outer
  <2> QED  BY <1>1, <1>2, <1>3, Zenon
<1>5. PaddedKey(k) = PaddedKey(l) /\ sha256(inner(k, m)) = sha256(inner(l, n))
  <2> HIDE DEF inner
  <2>1. outer(k, m).o_key_pad = outer(l, n).o_key_pad /\ outer(k, m).inner_hash = outer(l, n).inner_hash
    BY <1>4
  <2> QED  BY <2>1
<1>6. inner(k, m) = inner(l, n)
  <2> HIDE DEF inner
  <2> QED  BY <1>2, <1>5, Zenon
<1>7. m = n
  <2>1. inner(k, m).message = inner(l, n).message
    BY <1>6
  <2> QED  BY <2>1
<1> QED  BY <1>5, <1>7 DEF SameKey

\* Garbage is the signature of nothing.
LEMMA NoSignature == \A k, m : hex_encode(hmac_sha256(k, m)) # Garbage
<1> SUFFICES ASSUME NEW k, NEW m, hex_encode(hmac_sha256(k, m)) = Garbage PROVE FALSE
  OBVIOUS
<1> DEFINE mac == hmac_sha256(k, m)  none == [bytes |-> <<>>]
<1>1. mac = none
  <2>1. [hex |-> mac] = [hex |-> none]
    BY DEF hex_encode, Garbage
  <2> HIDE DEF mac, none
  <2>2. [hex |-> mac].hex = [hex |-> none].hex
    BY <2>1
  <2> QED  BY <2>2
<1>2. DOMAIN mac = {"sha256"}
  BY DEF hmac_sha256, sha256
<1>3. DOMAIN none = {"bytes"}
  OBVIOUS
<1> QED  BY <1>1, <1>2, <1>3

\* The texts of issued tokens, by their parts.
LEMMA IssuedIs ==
    ASSUME IssuedInv, NEW t \in issued
    PROVE  \E c \in Claims :
               LET text == base64_encode(Json[c])
               IN  /\ t.claims = c
                   /\ \/ t.raw = <<text>> /\ t.key = Nothing
                      \/ /\ t.key \in Keys /\ t.key # Nothing
                         /\ t.raw = <<text, hex_encode(hmac_sha256(t.key, text))>>
<1>1. CASE IssuedPlain(t)
  BY <1>1 DEF IssuedPlain, issue
<1>2. CASE IssuedSigned(t)
  <2>1. PICK c \in Claims, k \in Keys :
            t = [raw |-> issue_signed(c, k), claims |-> c, key |-> k]
    BY <1>2 DEF IssuedSigned
  <2>2. k # Nothing
    BY TokenAssumption
  <2>3. /\ t.claims = c /\ t.key = k
        /\ t.raw = <<base64_encode(Json[c]), hex_encode(hmac_sha256(k, base64_encode(Json[c])))>>
    BY <2>1 DEF issue_signed
  <2> QED  BY <2>2, <2>3
<1> QED  BY <1>1, <1>2 DEF IssuedInv

\* What is presented is a text, alone or with a signature of some token or none.
LEMMA PresentedIs ==
    ASSUME IssuedInv, NEW raw \in Presented
    PROVE  \/ /\ Len(raw) = 1 /\ raw = <<raw[1]>> /\ raw[1] \in Bodies
           \/ /\ Len(raw) = 2 /\ raw = <<raw[1], raw[2]>> /\ raw[1] \in Bodies
              /\ \/ raw[2] = Garbage
                 \/ \E t \in issued : Len(t.raw) = 2 /\ raw[2] = t.raw[2]
<1>1. CASE \E text \in Bodies : raw = <<text>>
  BY <1>1
<1>2. CASE raw \in Bodies \X Signatures
  <2>1. Len(raw) = 2 /\ raw = <<raw[1], raw[2]>> /\ raw[1] \in Bodies /\ raw[2] \in Signatures
    BY <1>2
  <2>2. raw[2] = Garbage \/ \E t \in issued : Len(t.raw) = 2 /\ raw[2] = t.raw[2]
    BY <2>1, Zenon DEF Signatures
  <2> QED  BY <2>1, <2>2
<1> QED  BY <1>1, <1>2 DEF Presented

LEMMA BodiesAreTexts == \A text \in Bodies : \E S : text \in Seq(S)
<1>1. ASSUME NEW c \in Claims PROVE base64_encode(Json[c]) \in Seq(Symbol)
  BY JsonIs, EncodedIs
<1>2. \A text \in OtherBodies : text \in Seq(0..65)
  BY TokenAssumption, Zenon
<1>3. \A text \in Bodies : text \in Seq(Symbol) \/ text \in Seq(0..65)
  BY <1>1, <1>2, Zenon DEF Bodies
<1> QED  BY <1>3, Zenon

\* verify accepts no raw token that has a signature.
LEMMA UnsignedDecode ==
    ASSUME IssuedInv, NEW raw \in Presented, verify(raw).result = "Ok"
    PROVE  Len(raw) = 1
<1> SUFFICES ASSUME Len(raw) = 2 PROVE FALSE
  BY PresentedIs
<1>1. raw[1] \in Bodies
  BY PresentedIs
<1>2. PICK S : raw[1] \in Seq(S)
  BY <1>1, BodiesAreTexts
<1>3. decode(raw) = Nothing
  <2>1. decode(raw) = Parse(base64_decode(raw[1] \o <<Bad>>))
    BY DEF decode
  <2> QED  BY <1>2, <2>1, DotRefused
<1>4. verify(raw) = Refused("DecodeFailed")
  BY <1>3 DEF verify, InWindow
<1> QED  BY <1>4 DEF Refused

\* What verify_signed accepts was issued.
LEMMA SignedDecode ==
    ASSUME IssuedInv, NEW raw \in Presented, NEW k, verify_signed(raw, k).result = "Ok"
    PROVE  \E t \in issued : /\ t.raw = raw /\ t.claims = verify_signed(raw, k).claims
                             /\ t.key # Nothing /\ SameKey(t.key, k)
<1> DEFINE d == decode_signed(raw, k)
<1>1. d # Nothing /\ verify_signed(raw, k).claims = d
  <2>1. verify_signed(raw, k) = InWindow(d)
    BY DEF verify_signed
  <2> HIDE DEF d
  <2> QED  BY <2>1 DEF InWindow, Refused
<1>2. /\ Len(raw) = 2 /\ raw[2] = hex_encode(hmac_sha256(k, raw[1]))
      /\ d = Parse(base64_decode(raw[1]))
  BY <1>1 DEF decode_signed, constant_time_eq
<1>3. PICK t \in issued : Len(t.raw) = 2 /\ raw[2] = t.raw[2]
  BY <1>2, NoSignature, PresentedIs
<1>4. PICK c \in Claims :
          LET text == base64_encode(Json[c])
          IN  /\ t.claims = c
              /\ \/ t.raw = <<text>> /\ t.key = Nothing
                 \/ /\ t.key \in Keys /\ t.key # Nothing
                    /\ t.raw = <<text, hex_encode(hmac_sha256(t.key, text))>>
  BY IssuedIs
<1> DEFINE text == base64_encode(Json[c])
<1> HIDE DEF text
<1>5. /\ t.claims = c /\ t.key # Nothing
      /\ t.raw = <<text, hex_encode(hmac_sha256(t.key, text))>>
  <2>1. \A e : t.raw = <<e>> => Len(t.raw) = 1
    OBVIOUS
  <2> QED  BY <1>3, <1>4, <2>1 DEF text
<1>6. hex_encode(hmac_sha256(t.key, text)) = hex_encode(hmac_sha256(k, raw[1]))
  BY <1>2, <1>3, <1>5
<1>7. SameKey(t.key, k) /\ text = raw[1]
  BY <1>6, SignatureTells
<1>8. t.raw = raw
  BY <1>2, <1>3, <1>5, <1>7, PresentedIs
<1>9. d = c
  BY <1>2, <1>7, ClaimsComeBack DEF text
<1> QED  BY <1>1, <1>5, <1>7, <1>8, <1>9

\* A verification that is over was one of three calls, with the verdict of now.
LEMMA CheckIs ==
    ASSUME CheckInv, check # Nothing
    PROVE  /\ check.raw \in Presented
           /\ \/ check.op = "verify" /\ check.verdict = verify(check.raw)
              \/ /\ check.op = "verify_for"
                 /\ check.verdict = verify_for(check.raw, check.arg)
              \/ /\ check.op = "verify_signed"
                 /\ check.verdict = verify_signed(check.raw, check.arg)
BY DEF CheckInv, Checked

\* A token that verify_signed accepts was issued with these claims under this key,
\* and verify and verify_for accept no signed one; for any claims, encodings of them,
\* keys and numbers of tokens.
THEOREM SignedMeansIssuedHolds == TokenSpec => []SignedMeansIssued
<1>1. TokenInv => SignedMeansIssued
  <2> SUFFICES ASSUME TokenInv, check # Nothing, check.verdict.result = "Ok"
               PROVE  /\ check.op = "verify_signed" =>
                            \E t \in issued : /\ t.raw = check.raw
                                              /\ t.claims = check.verdict.claims
                                              /\ t.key # Nothing /\ SameKey(t.key, check.arg)
                      /\ check.op = "verify" \/ check.op = "verify_for" => Len(check.raw) = 1
    BY DEF SignedMeansIssued, Accepts
  <2>1. IssuedInv /\ CheckInv
    BY DEF TokenInv
  <2>2. CASE check.op = "verify" /\ check.verdict = verify(check.raw)
    BY <2>1, <2>2, CheckIs, UnsignedDecode
  <2>3. CASE check.op = "verify_for" /\ check.verdict = verify_for(check.raw, check.arg)
    <3>1. verify_for(check.raw, check.arg).result = "Ok" => verify(check.raw).result = "Ok"
      BY DEF verify_for, Refused
    <3> QED  BY <2>1, <2>3, <3>1, CheckIs, UnsignedDecode
  <2>4. CASE check.op = "verify_signed" /\ check.verdict = verify_signed(check.raw, check.arg)
    BY <2>1, <2>4, CheckIs, SignedDecode
  <2> QED  BY <2>1, <2>2, <2>3, <2>4, CheckIs
<1> QED
  BY <1>1, TokenInvHolds, PTL

\* An issued token is accepted by the verifier it was issued for from the moment it
\* was issued until it expires, with its claims; base64_decode reads back what
\* base64_encode writes, of every length.
THEOREM IssuedIsAcceptedHolds == TokenSpec => []IssuedIsAccepted
<1>1. TokenInv => IssuedIsAccepted
  <2> SUFFICES ASSUME TokenInv, check # Nothing, NEW t \in issued,
                      t.raw = check.raw, FitsToken(t)
               PROVE  check.verdict =
                          IF now < t.claims.issued_at THEN Refused("NotYetValid")
                          ELSE IF t.claims.expires_at <= now THEN Refused("Expired")
                          ELSE [result |-> "Ok", claims |-> t.claims]
    BY DEF IssuedIsAccepted
  <2>1. IssuedInv /\ CheckInv
    BY DEF TokenInv
  <2>2. PICK c \in Claims :
            LET text == base64_encode(Json[c])
            IN  /\ t.claims = c
                /\ \/ t.raw = <<text>> /\ t.key = Nothing
                   \/ /\ t.key \in Keys /\ t.key # Nothing
                      /\ t.raw = <<text, hex_encode(hmac_sha256(t.key, text))>>
    BY <2>1, IssuedIs
  <2> DEFINE text == base64_encode(Json[c])
  <2>3. Parse(base64_decode(text)) = c /\ c # Nothing
    BY ClaimsComeBack, TokenAssumption
  <2> HIDE DEF text
  <2>4. InWindow(c) = IF now < c.issued_at THEN Refused("NotYetValid")
                      ELSE IF c.expires_at <= now THEN Refused("Expired")
                      ELSE [result |-> "Ok", claims |-> c]
    BY <2>3 DEF InWindow
  <2>5. t.claims = c
    BY <2>2
  <2> SUFFICES check.verdict = InWindow(c)
    BY <2>4, <2>5
  <2>6. CASE t.key = Nothing
    <3>1. t.raw = <<text>>
      BY <2>2, <2>6 DEF text
    <3>2. decode(t.raw) = c
      <4>1. Len(t.raw) = 1 /\ t.raw[1] = text
        BY <3>1
      <4> QED  BY <2>3, <4>1 DEF decode
    <3>3. verify(t.raw) = InWindow(c)
      BY <3>2 DEF verify
    <3>4. (InWindow(c)).result = "Ok" => (InWindow(c)).claims = c
      BY <2>3 DEF InWindow, Refused
    <3>5. check.arg = c.subject => verify_for(t.raw, check.arg) = InWindow(c)
      BY <3>3, <3>4 DEF verify_for
    <3> QED  BY <2>1, <2>5, <2>6, <3>3, <3>5, CheckIs DEF FitsToken
  <2>7. CASE t.key # Nothing
    <3>1. t.raw = <<text, hex_encode(hmac_sha256(t.key, text))>>
      BY <2>2, <2>7 DEF text
    <3>2. check.op = "verify_signed" /\ PaddedKey(t.key) = PaddedKey(check.arg)
      BY <2>7 DEF FitsToken, SameKey
    <3>3. hmac_sha256(t.key, text) = hmac_sha256(check.arg, text)
      BY <3>2 DEF hmac_sha256
    <3>4. decode_signed(t.raw, check.arg) = c
      <4>1. Len(t.raw) = 2 /\ t.raw[1] = text /\ t.raw[2] = hex_encode(hmac_sha256(check.arg, text))
        BY <3>1, <3>3
      <4> QED  BY <2>3, <4>1 DEF decode_signed, constant_time_eq
    <3>5. verify_signed(t.raw, check.arg) = InWindow(c)
      BY <3>4 DEF verify_signed
    <3> QED  BY <2>1, <3>2, <3>5, CheckIs
  <2> QED  BY <2>6, <2>7
<1> QED
  BY <1>1, TokenInvHolds, PTL
=============================================================================
