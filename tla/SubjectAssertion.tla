-------------------------- MODULE SubjectAssertion --------------------------
(***************************************************************************)
(* A relying party verifies ID tokens with app/subject_assertion.py and    *)
(* links the subjects that are durable.  The issuer signs tokens of        *)
(* several shapes; a token may arrive late, more than once, or altered in  *)
(* one part; the relying party's clock may be off, and its deployment may  *)
(* put another profile in the place of the one in use.                     *)
(*                                                                         *)
(* A token is a record of the parts the verifier looks at, and the person  *)
(* it is about.  A signature is the key that made it: altering any signed  *)
(* part leaves none that fits (the cryptography library).  A subject or a  *)
(* tenant is a sequence of characters, or None where the claim is absent   *)
(* or no string.  A time is None where the claim is absent and Bad where   *)
(* it is no NumericDate.                                                   *)
(***************************************************************************)
EXTENDS Integers, Sequences, FiniteSets, SequencesExt

CONSTANTS
  Self,       \* the audience of the profile
  Shapes,     \* token shapes the issuer signs (all but sub, times and nonce)
  Profiles,   \* candidate profiles
  Alterations(_), \* a token altered in one part
  SubjectOf(_, _, _), \* the sub an issuer has for a type and a person
  Invisible,  \* the characters of _INVISIBLE_CATEGORIES
  MaxSubjectLength, MaxTenantLength,
  Life,       \* how long a token lives
  MaxTime, MaxLogins,
  None, Bad

ASSUME SubjectAssertionAssumption ==
  /\ None \notin Nat /\ Bad \notin Nat /\ None # Bad
  /\ None \notin Profiles
  /\ \A s \in Shapes :
       {"sub", "iat", "exp", "nbf", "nonce", "person", "iss", "tenant"} \subseteq DOMAIN s
  /\ Life \in Nat /\ MaxTime \in Nat /\ MaxLogins \in Nat

Algorithms == {"ES256", "RS256"}
DurableSubjectTypes == {"public", "pairwise"}
SubjectTypes == DurableSubjectTypes \cup {"ephemeral"}
MaxLeeway == 300

(***************************************************************************)
(* An issuer never gives two persons one durable subject of one type.  Of  *)
(* subjects of different types, and of ephemeral ones, it promises nothing.*)
(***************************************************************************)
ASSUME IssuerAssumption ==
  \A s, u \in Shapes : \A type \in DurableSubjectTypes :
    s.iss = u.iss /\ SubjectOf(s.iss, type, s.person) = SubjectOf(u.iss, type, u.person)
      => s.person = u.person

(***************************************************************************)
(* A token of a shape, issued at a time with a nonce to a client that is   *)
(* registered for a type of subjects.                                      *)
(***************************************************************************)
Token(shape, at, nonce, type) ==
  [shape EXCEPT !.sub = SubjectOf(shape.iss, type, shape.person),
                !.iat = IF @ = Bad THEN Bad ELSE at,
                !.exp = IF @ = Bad THEN Bad ELSE at + Life,
                !.nbf = IF @ \in {None, Bad} THEN @ ELSE at,
                !.nonce = nonce]

Tokens ==
  {Token(s, at, nonce, type) :
     s \in Shapes, at \in 0 .. MaxTime, nonce \in 1 .. MaxLogins, type \in SubjectTypes}

(***************************************************************************)
(* An alteration spoils the encoding or the header, or no trusted key has  *)
(* made its signature.                                                     *)
(***************************************************************************)
ASSUME AlterationAssumption ==
  \A t \in Tokens : \A a \in Alterations(t) :
    \/ ~a.wellFormed
    \/ a.extraHeader
    \/ a.mediaType # "JWT"
    \/ \A p \in Profiles : a.signature \notin Range(p.keys)

VARIABLES
  now,      \* true time
  profile,  \* the profile in use, or None while none was accepted
  skew,     \* the relying party's clock is now + skew
  issued,   \* tokens the issuer signed
  login,    \* the nonce of the open login, 0 when there is none
  logins,   \* logins started so far
  result,   \* the verification just made, or None: token, verdict, true time,
            \* and whether the token is one the issuer signed
  accepted, \* history: the logins completed, each with its token
  links     \* correlation keys stored, each with whom it was stored for: the
            \* person, the token's tenant, and whether the profile is by tenant

vars == <<now, profile, skew, issued, login, logins, result, accepted, links>>

-----------------------------------------------------------------------------
(* The profile *)

(***************************************************************************)
(* _load_key_set: every entry is a public signature key of an allowed      *)
(* algorithm (_load_key), and no two share a key id.                       *)
(***************************************************************************)
KeySetValid(keys, allowed) ==
  /\ keys # <<>>
  /\ \A i \in DOMAIN keys : keys[i].alg \in allowed /\ keys[i].sound
  /\ \A i, j \in DOMAIN keys : keys[i].kid = keys[j].kid => i = j

(***************************************************************************)
(* SubjectAssertionProfile.__post_init__                                   *)
(***************************************************************************)
ProfileValid(p) ==
  /\ p.issuer # "bad"
  /\ p.algorithms # {} /\ p.algorithms \subseteq Algorithms
  /\ Self \notin p.extra
  /\ p.subjectType \in SubjectTypes
  /\ p.tenantClaim \in {None, "org"}
  /\ p.leeway \in 0 .. MaxLeeway
  /\ KeySetValid(p.keys, p.algorithms)

-----------------------------------------------------------------------------
(* The checks of _verify *)

\* _split_token and _decode_json_object: one spelling, strict JSON.
WellFormed(t) == t.wellFormed

\* Seeded fault: audiences the profile does not know are ignored.
AudienceValidLoose(t, p) == Self \in Range(t.aud) /\ (t.azp # None => t.azp = Self)

\* _check_audience
AudienceValid(t, p) ==
  /\ Self \in Range(t.aud)
  /\ Range(t.aud) \subseteq {Self} \cup p.extra
  /\ Len(t.aud) > 1 => t.azp # None
  /\ t.azp # None => t.azp = Self

\* _numeric_date
NumericDate(time) == time \notin {None, Bad}

\* Seeded fault: the leeway is applied to the wrong side of exp.
CheckTimesEarly(t, clock, leeway) ==
  IF ~NumericDate(t.exp) THEN "invalid_claim"
  ELSE IF clock + leeway > t.exp THEN "expired" ELSE "ok"

(***************************************************************************)
(* _check_times: exp and iat are required, nbf is not.                     *)
(***************************************************************************)
CheckTimes(t, clock, leeway) ==
  IF ~NumericDate(t.exp) \/ ~NumericDate(t.iat) \/ t.nbf = Bad THEN "invalid_claim"
  ELSE IF t.exp < t.iat THEN "invalid_claim"
  ELSE IF clock > t.exp + leeway THEN "expired"
  ELSE IF clock + leeway < t.iat \/ (t.nbf # None /\ clock + leeway < t.nbf)
       THEN "not_yet_valid"
  ELSE "ok"

KeyOf(p, kid) == CHOOSE k \in Range(p.keys) : k.kid = kid

\* _verify_signature: the key that made the signature is the trusted one.
SignedBy(t, key) == t.signature = key

Blank == " "

(***************************************************************************)
(* What _check_subject and _check_tenant ask of a text: not empty, bounded *)
(* and visible, without blanks at its ends.                                *)
(***************************************************************************)
Canonical(text, bound) ==
  /\ text \notin {None, <<>>}
  /\ Len(text) <= bound
  /\ Blank \notin {Head(text), Last(text)}
  /\ Range(text) \cap Invisible = {}

SubjectValid(sub) == Canonical(sub, MaxSubjectLength)
TenantValid(tenant) == Canonical(tenant, MaxTenantLength)

\* Seeded fault: the nonce is not compared.
NonceMatchesAny(t, nonce) == TRUE

NonceMatches(t, nonce) == nonce = None \/ t.nonce = nonce

(***************************************************************************)
(* The reason of _verify's first failing check, in its order, or           *)
(* "verified".                                                             *)
(***************************************************************************)
Verdict(t, p, clock, nonce) ==
  CASE ~WellFormed(t) -> "malformed_token"
    [] t.alg \notin p.algorithms -> "algorithm_not_allowed"
    [] t.extraHeader -> "unsupported_header"
    [] t.mediaType # "JWT" -> "token_type_mismatch"
    [] t.kid \notin {k.kid : k \in Range(p.keys)} -> "unknown_key"
    [] OTHER ->
  CASE KeyOf(p, t.kid).alg # t.alg -> "algorithm_not_allowed"
    [] ~SignedBy(t, KeyOf(p, t.kid)) -> "invalid_signature"
    [] t.typ # "ID" -> "token_type_mismatch"
    [] t.iss # p.issuer -> "issuer_mismatch"
    [] ~AudienceValid(t, p) -> "audience_mismatch"
    [] ~SubjectValid(t.sub) -> "invalid_claim"
    [] CheckTimes(t, clock, p.leeway) # "ok" -> CheckTimes(t, clock, p.leeway)
    [] ~NonceMatches(t, nonce) -> "nonce_mismatch"
    [] p.tenantClaim # None /\ ~TenantValid(t.tenant) -> "tenant_missing"
    [] OTHER -> "verified"

TenantOf(t, p) == IF p.tenantClaim = None THEN None ELSE t.tenant

Quote == "\""
Backslash == "\\"
Comma == ","

(***************************************************************************)
(* json.dumps of a list of ASCII texts and nulls, without spaces: quotes   *)
(* around a text, a backslash before each quote and backslash in it.       *)
(***************************************************************************)
JsonText(text) ==
  IF text = None THEN <<"n", "u", "l", "l">>
  ELSE <<Quote>>
       \o FlattenSeq([i \in DOMAIN text |->
                        IF text[i] \in {Quote, Backslash}
                        THEN <<Backslash, text[i]>> ELSE <<text[i]>>])
       \o <<Quote>>

CanonicalJson(texts) ==
  FlattenSeq([i \in DOMAIN texts |->
                (IF i = 1 THEN <<"[">> ELSE <<Comma>>) \o JsonText(texts[i])])
  \o <<"]">>

(***************************************************************************)
(* The bound coordinates of _correlation_key.  The texts of a profile have *)
(* no special characters and are one symbol each.                          *)
(***************************************************************************)
Coordinates(t, p) ==
  <<<<"v1">>, <<p.issuer>>, <<Self>>, <<p.subjectType>>, TenantOf(t, p), t.sub>>

CoordinateLists == {Coordinates(t, p) : t \in Tokens, p \in Profiles}

(***************************************************************************)
(* JSON is unambiguous: on the lists that can occur (CONTRACT_VERSION to   *)
(* subject) json.dumps gives different texts for different lists.          *)
(***************************************************************************)
ASSUME EncodingAssumption ==
  \A x, y \in CoordinateLists : CanonicalJson(x) = CanonicalJson(y) => x = y

\* Seeded fault: the type of the subject is left out of the key.
CorrelationKeyUntyped(t, p) ==
  CanonicalJson(<<<<"v1">>, <<p.issuer>>, <<Self>>, TenantOf(t, p), t.sub>>)

(***************************************************************************)
(* _correlation_key: the SHA-256 digest stands for the text it is taken of.*)
(***************************************************************************)
CorrelationKey(t, p) == CanonicalJson(Coordinates(t, p))

-----------------------------------------------------------------------------
(* The issuer and the relying party *)

Init ==
  /\ now = 0
  /\ profile = None
  /\ skew = 0
  /\ issued = {}
  /\ login = 0
  /\ logins = 0
  /\ result = None
  /\ accepted = {}
  /\ links = {}

(***************************************************************************)
(* A deployment constructs its profile, or another one in its place (an    *)
(* unsafe one raises ValueError), and the client's registration at the     *)
(* issuer follows.  The relying party starts again: the links it stored    *)
(* stay, an open login does not.                                           *)
(***************************************************************************)
Configure ==
  /\ \E p \in Profiles \ {profile} :
       /\ ProfileValid(p)
       /\ profile' = p
       /\ skew' \in -p.leeway .. p.leeway
  /\ login' = 0
  /\ result' = None
  /\ UNCHANGED <<now, issued, logins, accepted, links>>

Tick ==
  /\ profile # None
  /\ now < MaxTime
  /\ now' = now + 1
  /\ result' = None
  /\ UNCHANGED <<profile, skew, issued, login, logins, accepted, links>>

(***************************************************************************)
(* The issuer answers the open login.                                      *)
(***************************************************************************)
Issue ==
  /\ login # 0
  /\ \A t \in issued : t.nonce # login
  /\ \E s \in Shapes :
       issued' = issued \cup {Token(s, now, login, profile.subjectType)}
  /\ result' = None
  /\ UNCHANGED <<now, profile, skew, login, logins, accepted, links>>

StartLogin ==
  /\ profile # None
  /\ login = 0
  /\ logins < MaxLogins
  /\ logins' = logins + 1
  /\ login' = logins + 1
  /\ result' = None
  /\ UNCHANGED <<now, profile, skew, issued, accepted, links>>

(***************************************************************************)
(* verify_subject_assertion on the token that arrives for the open login;  *)
(* the relying party stores the key of a durable subject.                  *)
(***************************************************************************)
Verify ==
  /\ login # 0
  /\ \E t \in issued : \E a \in {t} \cup Alterations(t) :
       LET v == Verdict(a, profile, now + skew, login) IN
       /\ result' = [token |-> a, verdict |-> v, at |-> now, genuine |-> a \in issued]
       /\ accepted' = IF v = "verified" THEN accepted \cup {<<login, a>>} ELSE accepted
       /\ links' =
            IF v = "verified" /\ profile.subjectType \in DurableSubjectTypes
            THEN links \cup
                   {[key |-> CorrelationKey(a, profile), person |-> a.person,
                     tenant |-> a.tenant, byTenant |-> profile.tenantClaim # None]}
            ELSE links
  /\ login' = 0
  /\ UNCHANGED <<now, profile, skew, issued, logins>>

Next == Configure \/ Tick \/ Issue \/ StartLogin \/ Verify

Spec == Init /\ [][Next]_vars

-----------------------------------------------------------------------------
(***************************************************************************)
(* What verify_subject_assertion accepts is an unaltered ID token the      *)
(* issuer signed for this relying party and no audience it does not know,  *)
(* no later than exp plus twice the leeway in true time.                   *)
(***************************************************************************)
VerifiedIsGenuine ==
  result # None /\ result.verdict = "verified" =>
    LET t == result.token IN
    /\ result.genuine
    /\ t.typ = "ID"
    /\ Self \in Range(t.aud) /\ Range(t.aud) \subseteq {Self} \cup profile.extra
    /\ result.at <= t.exp + 2 * profile.leeway

(***************************************************************************)
(* A token's nonce lets it complete one login: a second delivery of the    *)
(* same token is rejected.                                                 *)
(***************************************************************************)
TokenVerifiedOnce ==
  \A a, b \in accepted : a[2] = b[2] => a[1] = b[1]

(***************************************************************************)
(* A genuine token that arrives within its lifetime is not rejected for    *)
(* its time, whatever the clocks' difference within the leeway.            *)
(***************************************************************************)
LiveTokenInTime ==
  (/\ result # None /\ result.genuine
   /\ NumericDate(result.token.exp) /\ result.at <= result.token.exp)
  => result.verdict \notin {"expired", "not_yet_valid"}

(***************************************************************************)
(* A correlation key names one person for good: a later login of another   *)
(* person never meets it, whatever profile is in use by then (public and   *)
(* pairwise subjects may coincide, and texts may look like JSON), and one  *)
(* stored for a tenant is met neither in another tenant nor without one.   *)
(***************************************************************************)
LinkNamesOnePerson ==
  \A k, l \in links :
    k.key = l.key =>
      /\ k.person = l.person
      /\ k.byTenant => l.byTenant /\ k.tenant = l.tenant
=============================================================================
