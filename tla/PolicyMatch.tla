----------------------------- MODULE PolicyMatch -----------------------------
(***************************************************************************)
(* When a rule of a policy document matches a request: matches_request,    *)
(* any_pattern_matches and matches_pattern of the policy engine's          *)
(* engine.rs, subject_matches of its identity.rs and WorkloadId::parse of  *)
(* crates/identity.                                                        *)
(*                                                                         *)
(* A string is a sequence of characters.  Only "/" and "*" have a meaning  *)
(* of their own; BadChars are those a workload id must not have.           *)
(***************************************************************************)
EXTENDS Naturals, Sequences, SequencesExt

CONSTANTS Chars,    \* the characters
          BadChars  \* upper case, punctuation other than - and _, blanks, ...

ASSUME CharsAssumption == {"/", "*"} \subseteq Chars

Strings == Seq(Chars)

IsValidSegment(s) == \A i \in DOMAIN s : s[i] \notin BadChars \cup {"/", "*"}

\* split_once: the first "/" divides the string; 0 when there is none.
Slashes(s) == {i \in DOMAIN s : s[i] = "/"}
FirstSlash(s) == CHOOSE i \in Slashes(s) : \A j \in Slashes(s) : i <= j
Namespace(s) == SubSeq(s, 1, FirstSlash(s) - 1)
Name(s) == SubSeq(s, FirstSlash(s) + 1, Len(s))

\* WorkloadId::parse succeeds.
IsWorkloadId(s) == /\ Slashes(s) # {}
                   /\ Namespace(s) # <<>> /\ Name(s) # <<>>
                   /\ IsValidSegment(Namespace(s)) /\ IsValidSegment(Name(s))

\* A mutant: the "/" is stripped together with the "*".
MutSubjectMatchesLoose(pattern, subject) ==
    IF pattern = <<"*">> THEN TRUE
    ELSE IF IsSuffix(<<"/", "*">>, pattern)
    THEN LET prefix == SubSeq(pattern, 1, Len(pattern) - 2)
         IN  IF IsWorkloadId(subject)
             THEN Namespace(subject) = prefix
             ELSE IsPrefix(prefix, subject)
    ELSE pattern = subject

\* identity.rs: a pattern "ns/*" stands for a namespace.
subject_matches(pattern, subject) ==
    IF pattern = <<"*">> THEN TRUE
    ELSE IF IsSuffix(<<"/", "*">>, pattern)
    THEN LET prefix == SubSeq(pattern, 1, Len(pattern) - 2)
         IN  IF IsWorkloadId(subject)
             THEN Namespace(subject) = prefix
             ELSE IsPrefix(prefix \o <<"/">>, subject)
    ELSE pattern = subject

\* A mutant: a "*" anywhere ends the literal part of the pattern.
MutMatchesPatternAnyStar(pattern, value) ==
    IF \E i \in DOMAIN pattern : pattern[i] = "*"
    THEN \E n \in 0..(Len(pattern) - 1) :
             /\ pattern[n + 1] = "*"
             /\ IsPrefix(SubSeq(pattern, 1, n), value)
    ELSE pattern = value

\* engine.rs: a trailing "*" stands for any rest.
matches_pattern(pattern, value) ==
    \/ pattern = <<"*">>
    \/ IF IsSuffix(<<"*">>, pattern)
       THEN IsPrefix(Front(pattern), value)
       ELSE pattern = value

any_pattern_matches(patterns, value) == \E p \in patterns : matches_pattern(p, value)

matches_request(rule, req) == /\ subject_matches(rule.subject, req.subject)
                              /\ any_pattern_matches(rule.actions, req.action)
                              /\ any_pattern_matches(rule.resources, req.resource)
-----------------------------------------------------------------------------
(* What the patterns are meant to mean.                                    *)

\* s is p with its last character replaced by any string.
Extends(p, s) == /\ Len(s) >= Len(p) - 1
                 /\ \A i \in 1..(Len(p) - 1) : s[i] = p[i]

Glob(p, s) == IF p # <<>> /\ p[Len(p)] = "*" THEN Extends(p, s) ELSE s = p
=============================================================================
