--------------------------- MODULE IdentityToken ---------------------------
(***************************************************************************)
(* The identity tokens of crates/identity: IdentityToken issues and        *)
(* decodes them (token.rs), TokenVerifier accepts or refuses them          *)
(* (verifier.rs), with its own base64 and HMAC-SHA256 (hmac.rs).           *)
(*                                                                         *)
(* A character is its base64 value, Pad for "=", or Bad for any other.  A  *)
(* raw token is <<text>>, or <<text, signature>> where it has a ".".       *)
(* SHA-256 is ideal: a digest is what it is a digest of; the one of a key  *)
(* is bytes, which KeyDigest gives.  serde_json is given by Json.          *)
(***************************************************************************)
EXTENDS Integers, Sequences, FiniteSets, SequencesExt

CONSTANTS Claims,      \* records with subject, issued_at and expires_at
          Json,        \* the bytes serde_json::to_vec writes claims as
          Keys,        \* sequences of bytes
          KeyDigest,   \* sha256 of the keys longer than a block, sequences of bytes
          BLOCK_SIZE,  \* of the hash, in bytes
          OtherBodies, \* bound: texts that no claims are encoded as
          MaxTime,     \* bound: the clock
          MaxTokens,   \* bound: the tokens issued
          Nothing      \* an error, no key, no check

ASSUME TokenAssumption ==
    /\ MaxTime \in Nat /\ MaxTokens \in Nat /\ BLOCK_SIZE \in Nat
    /\ \A c \in Claims : c.issued_at \in Nat /\ c.expires_at \in Nat
    /\ Json \in [Claims -> Seq(0..255)]
    /\ \A c, d \in Claims : Json[c] = Json[d] => c = d
    /\ KeyDigest \in [{k \in Keys : Len(k) > BLOCK_SIZE} -> Seq(0..255)]
    /\ OtherBodies \subseteq Seq(0..65)
    /\ Nothing \notin Claims /\ Nothing \notin Keys /\ Nothing \notin Seq(0..255)

VARIABLES now,     \* now_unix_millis; the system's clock may be set back
          issued,  \* history: the tokens issued, each with its claims and key
          check    \* the verification just made, Nothing at first

tokenVars == <<now, issued, check>>
-----------------------------------------------------------------------------
(* Base64.                                                                 *)

Pad == 64
Bad == 65

\* Byte i of a chunk of three, 0 where the data has ended.
ByteAt(data, i) == IF i \in DOMAIN data THEN data[i] ELSE 0
Triple(data, chunk) ==
    65536 * ByteAt(data, 3 * chunk + 1) + 256 * ByteAt(data, 3 * chunk + 2) + ByteAt(data, 3 * chunk + 3)

\* The six bits of a triple that character k of the chunk shows, k from 0 to 3.
Bits(triple, k) == (triple \div <<262144, 4096, 64, 1>>[k + 1]) % 64

\* A mutant: the padding starts a character too early.
MutBase64EncodePads(data) ==
    LET chunks == (Len(data) + 2) \div 3
    IN  [i \in 1..(4 * chunks) |->
            LET chunk == (i - 1) \div 4
                k == (i - 1) % 4
            IN  IF k >= Len(data) - 3 * chunk /\ k >= 2 THEN Pad
                ELSE Bits(Triple(data, chunk), k)]

base64_encode(data) ==
    LET chunks == (Len(data) + 2) \div 3
    IN  [i \in 1..(4 * chunks) |->
            LET chunk == (i - 1) \div 4
                k == (i - 1) % 4
            IN  IF k > Len(data) - 3 * chunk THEN Pad
                ELSE Bits(Triple(data, chunk), k)]

\* The chunk's characters but for the padding, wherever in it that stands.
Strip(c, rest) == IF c = Pad THEN rest ELSE <<c>> \o rest
Sextets(text, chunk) ==
    LET Char(k) == text[4 * chunk + k]
    IN  Strip(Char(1), Strip(Char(2), Strip(Char(3), Strip(Char(4), <<>>))))

\* The bytes of a chunk: one, two or three of them, and one even of nothing but Pad.
ChunkBytes(text, chunk) ==
    LET vals == Sextets(text, chunk)
        Val(i) == IF i \in DOMAIN vals THEN vals[i] ELSE 0
        triple == 262144 * Val(1) + 4096 * Val(2) + 64 * Val(3) + Val(4)
        all == <<triple \div 65536, (triple \div 256) % 256, triple % 256>>
    IN  SubSeq(all, 1, IF Len(vals) <= 2 THEN 1 ELSE Len(vals) - 1)

\* Nothing stands for an error.
base64_decode(text) ==
    IF Len(text) % 4 # 0 \/ \E i \in DOMAIN text : text[i] = Bad THEN Nothing
    ELSE FlattenSeq([i \in 1..(Len(text) \div 4) |-> ChunkBytes(text, i - 1)])
-----------------------------------------------------------------------------
(* HMAC-SHA256.                                                            *)

sha256(data) == [sha256 |-> data]

\* A key longer than a block is replaced by its digest, and what is shorter is
\* filled up with zeros: keys that differ in zeros at the end are one, and so are a
\* long key and the key that its digest is.
PaddedKey(key) == LET short == IF Len(key) > BLOCK_SIZE THEN KeyDigest[key] ELSE key
                  IN  [bytes |-> [i \in 1..BLOCK_SIZE |-> ByteAt(short, i)]]

hmac_sha256(key, message) ==
    sha256([o_key_pad |-> PaddedKey(key),
            inner_hash |-> sha256([i_key_pad |-> PaddedKey(key), message |-> message])])

\* Hexadecimal digits, of which no two digests have the same.
hex_encode(mac) == [hex |-> mac]

\* All of a and b is looked at, and the lengths first.
constant_time_eq(a, b) == a = b
-----------------------------------------------------------------------------
(* IdentityToken.                                                          *)

\* serde_json::from_slice, which fails on what is no claims.
Parse(bytes) == IF \E c \in Claims : Json[c] = bytes
                THEN CHOOSE c \in Claims : Json[c] = bytes ELSE Nothing

issue(claims) == <<base64_encode(Json[claims])>>

issue_signed(claims, key) ==
    LET encoded == base64_encode(Json[claims])
    IN  <<encoded, hex_encode(hmac_sha256(key, encoded))>>

\* The "." is no base64 character.
decode(raw) ==
    Parse(base64_decode(IF Len(raw) = 1 THEN raw[1] ELSE raw[1] \o <<Bad>>))

\* A mutant: the signature is compared after decoding, with that of the claims.
MutDecodeSignedReencodes(raw, key) ==
    LET claims == Parse(base64_decode(raw[1]))
    IN  IF Len(raw) = 2 /\ claims # Nothing /\ raw[2] = issue_signed(claims, key)[2]
        THEN claims ELSE Nothing

decode_signed(raw, key) ==
    IF /\ Len(raw) = 2
       /\ constant_time_eq(raw[2], hex_encode(hmac_sha256(key, raw[1])))
    THEN Parse(base64_decode(raw[1])) ELSE Nothing
-----------------------------------------------------------------------------
(* TokenVerifier.                                                          *)

Refused(error) == [result |-> error, claims |-> Nothing]

\* What verify and verify_signed do with the decoded claims.
InWindow(claims) ==
    IF claims = Nothing THEN Refused("DecodeFailed")
    ELSE IF now < claims.issued_at THEN Refused("NotYetValid")
    ELSE IF now >= claims.expires_at THEN Refused("Expired")
    ELSE [result |-> "Ok", claims |-> claims]

verify(raw) == InWindow(decode(raw))

verify_for(raw, expected) ==
    LET token == verify(raw)
    IN  IF token.result = "Ok" /\ token.claims.subject # expected
        THEN Refused("SubjectMismatch") ELSE token

verify_signed(raw, key) == InWindow(decode_signed(raw, key))
-----------------------------------------------------------------------------
\* What may be presented: any text with any signature that was ever made, with
\* one that was not, or with none.
Garbage == hex_encode([bytes |-> <<>>])
Bodies == {base64_encode(Json[c]) : c \in Claims} \cup OtherBodies
Signatures == {t.raw[2] : t \in {u \in issued : Len(u.raw) = 2}} \cup {Garbage}
Presented == {<<text>> : text \in Bodies} \cup (Bodies \X Signatures)
Subjects == {c.subject : c \in Claims}

TokenInit == now \in 0..MaxTime /\ issued = {} /\ check = Nothing

Issue(c) == /\ Cardinality(issued) < MaxTokens
            /\ issued' = issued \cup {[raw |-> issue(c), claims |-> c, key |-> Nothing]}
            /\ check' = Nothing
            /\ UNCHANGED now

IssueSigned(c, k) == /\ Cardinality(issued) < MaxTokens
                     /\ issued' = issued \cup {[raw |-> issue_signed(c, k), claims |-> c, key |-> k]}
                     /\ check' = Nothing
                     /\ UNCHANGED now

Clock == /\ now' \in 0..MaxTime
         /\ check' = Nothing
         /\ UNCHANGED issued

\* op is the function called, with its second argument, if it has one.
Check(op, raw, arg, verdict) == /\ check = Nothing
                                /\ check' = [op |-> op, raw |-> raw, arg |-> arg, verdict |-> verdict]
                                /\ UNCHANGED <<now, issued>>

Verify(raw) == Check("verify", raw, Nothing, verify(raw))
VerifyFor(raw, s) == Check("verify_for", raw, s, verify_for(raw, s))
VerifySigned(raw, k) == Check("verify_signed", raw, k, verify_signed(raw, k))

TokenNext == \/ \E c \in Claims : Issue(c) \/ \E k \in Keys : IssueSigned(c, k)
             \/ Clock
             \/ \E raw \in Presented : \/ Verify(raw)
                                       \/ \E s \in Subjects : VerifyFor(raw, s)
                                       \/ \E k \in Keys : VerifySigned(raw, k)

TokenSpec == TokenInit /\ [][TokenNext]_tokenVars
-----------------------------------------------------------------------------
Accepts(op) == check # Nothing /\ check.op = op /\ check.verdict.result = "Ok"
SameKey(k, l) == PaddedKey(k) = PaddedKey(l)

\* A token that verify_signed accepts is, to the character, one that was issued
\* with these claims under this key: no other text has a signature that fits, not
\* even another base64 text of the same claims, and the unsigned tokens of the
\* same claims do not pass.  (Keys that HMAC pads to the same block are one key.)
\* Nor do verify and verify_for, which look at no signature, take a signed token.
SignedMeansIssued ==
    /\ Accepts("verify_signed") =>
           \E t \in issued : /\ t.raw = check.raw
                             /\ t.claims = check.verdict.claims
                             /\ t.key # Nothing /\ SameKey(t.key, check.arg)
    /\ Accepts("verify") \/ Accepts("verify_for") => Len(check.raw) = 1

\* The verifier a token t was issued for is called, and with what it was issued.
FitsToken(t) == IF t.key = Nothing
                THEN check.op = "verify" \/ (check.op = "verify_for" /\ check.arg = t.claims.subject)
                ELSE check.op = "verify_signed" /\ SameKey(t.key, check.arg)

\* An issued token comes back from its text with the claims it was issued with,
\* whatever length their encoding has, and is accepted from the moment it was issued
\* until just before it expires; before and after, the error says which.
IssuedIsAccepted ==
    check # Nothing => \A t \in issued :
        t.raw = check.raw /\ FitsToken(t) =>
            check.verdict =
                IF now < t.claims.issued_at THEN Refused("NotYetValid")
                ELSE IF t.claims.expires_at <= now THEN Refused("Expired")
                ELSE [result |-> "Ok", claims |-> t.claims]
=============================================================================
