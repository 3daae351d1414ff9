-------------------------- MODULE MCIdentityToken --------------------------
(***************************************************************************)
(* IdentityToken for TLC.  The claims take 3, 4 and 5 bytes, so that the   *)
(* base64 texts end in none, two and one "=", among them the largest byte  *)
(* and the smallest; one token is never valid.  Two keys are the same      *)
(* after padding; two are longer than a block, and the digest of one of    *)
(* them is another key, shorter by its zeros.  The other bodies are        *)
(* nothing, a text of the wrong length, one with a wrong character, and    *)
(* one that decodes to claims although nobody encodes them like that.      *)
(***************************************************************************)
EXTENDS IdentityToken

MCClaims == {[subject |-> 0, issued_at |-> 0, expires_at |-> 2, capabilities |-> <<>>],
             [subject |-> 255, issued_at |-> 1, expires_at |-> 3, capabilities |-> <<255>>],
             [subject |-> 0, issued_at |-> 1, expires_at |-> 3, capabilities |-> <<0, 129>>],
             [subject |-> 255, issued_at |-> 2, expires_at |-> 1, capabilities |-> <<>>]}

MCJson == [c \in MCClaims |-> <<c.subject, c.issued_at, c.expires_at>> \o c.capabilities]

MCKeys == {<<1>>, <<1, 0>>, <<2>>, <<1, 0, 0>>, <<1, 0, 1>>}

MCKeyDigest == [k \in {<<1, 0, 0>>, <<1, 0, 1>>} |-> IF k[3] = 0 THEN <<2, 0>> ELSE <<9, 9>>]

\* The text of the second claims with its padding in front of the last chunk.
MCOtherBodies == {<<>>, <<0, 0, 2>>, <<0, Bad, 0, 2>>, <<63, 48, 4, 3, Pad, Pad, 63, 48>>}
=============================================================================
