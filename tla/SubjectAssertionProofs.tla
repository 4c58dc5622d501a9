----------------------- MODULE SubjectAssertionProofs -----------------------
(***************************************************************************)
(* Token times, nonces and correlation keys, for every set of profiles,    *)
(* token shapes, subjects and alterations and every leeway and clock       *)
(* difference.                                                             *)
(***************************************************************************)
EXTENDS SubjectAssertion, TLAPS

(***************************************************************************)
(* The times of a token that was signed no later than a given time.        *)
(***************************************************************************)
PastTimes(t, time) ==
  /\ t.exp \in Nat \cup {Bad}
  /\ t.iat = Bad \/ (t.iat \in Nat /\ t.iat <= time)
  /\ t.nbf \in {None, Bad} \/ (t.nbf \in Nat /\ t.nbf <= time)

(***************************************************************************)
(* A token used between iat and nbf and exp gives _check_times no reason   *)
(* to call it expired or early on any clock off by at most the leeway.     *)
(***************************************************************************)
LEMMA TimesAccept ==
  ASSUME NEW time \in Nat, NEW t, PastTimes(t, time), NumericDate(t.exp),
         NEW leeway \in Nat, NEW off \in -leeway .. leeway, time <= t.exp
  PROVE  CheckTimes(t, time + off, leeway) \notin {"expired", "not_yet_valid"}
<1>1. t.exp \in Nat
  BY Zenon DEF PastTimes, NumericDate
<1>2. CASE t.iat = Bad \/ t.nbf = Bad
  BY <1>2, Zenon DEF CheckTimes, NumericDate
<1>3. CASE t.iat # Bad /\ t.nbf # Bad
  <2>1. t.iat \in Nat /\ t.iat <= time /\ (t.nbf # None => t.nbf \in Nat /\ t.nbf <= time)
    BY <1>3, Zenon DEF PastTimes
  <2>2. ~(time + off > t.exp + leeway) /\ ~(time + off + leeway < t.iat)
    BY <1>1, <2>1
  <2>3. t.nbf # None => ~(time + off + leeway < t.nbf)
    BY <2>1
  <2> QED BY <2>2, <2>3, Zenon DEF CheckTimes
<1> QED BY <1>2, <1>3, Zenon

(***************************************************************************)
(* _verify reports a time reason only when _check_times gave it.           *)
(***************************************************************************)
LEMMA TimeReason ==
  ASSUME NEW t, NEW p, NEW clock, NEW nonce,
         CheckTimes(t, clock, p.leeway) \notin {"expired", "not_yet_valid"}
  PROVE  Verdict(t, p, clock, nonce) \notin {"expired", "not_yet_valid"}
  BY Zenon DEF Verdict

(***************************************************************************)
(* A token _verify accepts against a nonce carries that nonce.             *)
(***************************************************************************)
LEMMA VerifiedNonce ==
  ASSUME NEW t, NEW p, NEW clock, NEW nonce, nonce # None,
         Verdict(t, p, clock, nonce) = "verified"
  PROVE  t.nonce = nonce
<1>1. CheckTimes(t, clock, p.leeway) # "verified"
  BY Zenon DEF CheckTimes
<1> QED BY <1>1, Zenon DEF Verdict, NonceMatches

(***************************************************************************)
(* A token _verify accepts has passed each of its checks.                  *)
(***************************************************************************)
LEMMA VerifiedChecks ==
  ASSUME NEW t, NEW p, NEW clock, NEW nonce,
         Verdict(t, p, clock, nonce) = "verified"
  PROVE  /\ t.wellFormed /\ ~t.extraHeader /\ t.mediaType = "JWT"
         /\ t.signature \in Range(p.keys)
         /\ t.typ = "ID" /\ t.iss = p.issuer /\ AudienceValid(t, p)
         /\ CheckTimes(t, clock, p.leeway) = "ok"
         /\ p.tenantClaim # None => TenantValid(t.tenant)
<1>1. CheckTimes(t, clock, p.leeway) # "verified"
  BY Zenon DEF CheckTimes
<1>2. /\ t.wellFormed /\ ~t.extraHeader /\ t.mediaType = "JWT"
      /\ t.kid \in {k.kid : k \in Range(p.keys)}
      /\ SignedBy(t, KeyOf(p, t.kid))
      /\ t.typ = "ID" /\ t.iss = p.issuer /\ AudienceValid(t, p)
      /\ CheckTimes(t, clock, p.leeway) = "ok"
      /\ p.tenantClaim # None => TenantValid(t.tenant)
  BY <1>1, Zenon DEF Verdict, WellFormed
<1>3. KeyOf(p, t.kid) \in Range(p.keys)
  BY <1>2, Zenon DEF KeyOf
<1> QED
  BY <1>2, <1>3, Zenon DEF SignedBy

(***************************************************************************)
(* What a token keeps of its shape, and what the issuer puts in.           *)
(***************************************************************************)
LEMMA TokenFields ==
  ASSUME NEW s \in Shapes, NEW at \in Nat, NEW nonce, NEW type
  PROVE  LET t == Token(s, at, nonce, type) IN
         /\ t.iss = s.iss /\ t.person = s.person /\ t.nonce = nonce
         /\ t.sub = SubjectOf(s.iss, type, s.person)
         /\ PastTimes(t, at)
<1> DEFINE t == Token(s, at, nonce, type)
<1>1. {"sub", "iat", "exp", "nbf", "nonce", "person", "iss", "tenant"} \subseteq DOMAIN s
  BY SubjectAssertionAssumption, Zenon
<1>2. /\ t.iss = s.iss /\ t.person = s.person /\ t.nonce = nonce
      /\ t.sub = SubjectOf(s.iss, type, s.person)
  BY <1>1, Zenon DEF Token
<1>3. /\ t.iat \in {Bad, at} /\ t.exp \in {Bad, at + Life} /\ t.nbf \in {None, Bad, at}
  BY <1>1, Zenon DEF Token
<1> HIDE DEF t
<1>4. at + Life \in Nat /\ at <= at
  BY SubjectAssertionAssumption
<1>5. PastTimes(t, at)
  BY <1>3, <1>4, Zenon DEF PastTimes
<1> QED BY <1>2, <1>5, Zenon DEF t

-----------------------------------------------------------------------------
(***************************************************************************)
(* The clock, the profile, and the tokens of the issuer: one that answers  *)
(* the open login has the subject of its type of profile.                  *)
(***************************************************************************)
ClockInv ==
  /\ now \in Nat /\ now <= MaxTime
  /\ login \in Nat /\ logins \in Nat /\ login <= logins /\ logins <= MaxLogins
  /\ login # 0 => profile # None
  /\ profile \in Profiles \cup {None}
  /\ profile # None =>
       /\ profile.subjectType \in SubjectTypes
       /\ profile.leeway \in Nat /\ skew \in -profile.leeway .. profile.leeway

AnswersLogin(t, s) ==
  /\ t.iss = s.iss /\ t.person = s.person
  /\ t.nonce = login => t.sub = SubjectOf(s.iss, profile.subjectType, s.person)

IssuedInv ==
  \A t \in issued :
    /\ t \in Tokens
    /\ t.nonce \in Nat /\ t.nonce # 0 /\ t.nonce <= logins
    /\ PastTimes(t, now)
    /\ \E s \in Shapes : AnswersLogin(t, s)

(***************************************************************************)
(* What the relying party keeps: completed logins name the nonce of their  *)
(* token, and a link was stored for a token of a durable profile's type.   *)
(***************************************************************************)
LinkFrom(l, s, t, p) ==
  /\ l.key = CorrelationKey(t, p)
  /\ l.person = s.person
  /\ l.tenant = t.tenant
  /\ l.byTenant <=> p.tenantClaim # None
  /\ p.tenantClaim # None => t.tenant # None
  /\ p.subjectType \in DurableSubjectTypes
  /\ p.issuer = s.iss
  /\ t.sub = SubjectOf(s.iss, p.subjectType, s.person)

KeptInv ==
  /\ \A a \in accepted : a[2].nonce = a[1]
  /\ \A l \in links :
       \E s \in Shapes : \E t \in Tokens : \E p \in Profiles : LinkFrom(l, s, t, p)

ResultInv ==
  /\ profile = None => result = None
  /\ LiveTokenInTime
  /\ VerifiedIsGenuine

IInv == ClockInv /\ IssuedInv /\ KeptInv /\ ResultInv

(***************************************************************************)
(* Before the profile is constructed nothing is issued or kept.            *)
(***************************************************************************)
LEMMA InitIInv == Init => IInv
  BY SubjectAssertionAssumption
     DEF Init, IInv, ClockInv, IssuedInv, KeptInv, ResultInv, LiveTokenInTime, VerifiedIsGenuine

(***************************************************************************)
(* Forgetting the last verification keeps what was said of it.             *)
(***************************************************************************)
LEMMA NoResult ==
  ASSUME result' = None
  PROVE  ResultInv'
  BY Zenon DEF ResultInv, LiveTokenInTime, VerifiedIsGenuine

(***************************************************************************)
(* __post_init__ bounds the leeway and names the type; a new profile has   *)
(* no open login.                                                          *)
(***************************************************************************)
LEMMA ConfigureIInv ==
  ASSUME IInv, Configure
  PROVE  IInv'
<1>1. PICK p \in Profiles :
        ProfileValid(p) /\ profile' = p /\ skew' \in -p.leeway .. p.leeway
  BY Zenon DEF Configure
<1>2. p.leeway \in Nat /\ p.subjectType \in SubjectTypes
  BY <1>1 DEF ProfileValid, MaxLeeway
<1>3. /\ login' = 0 /\ result' = None
      /\ UNCHANGED <<now, issued, logins, accepted, links>>
  BY Zenon DEF Configure
<1>4. ClockInv'
  <2>1. login' \in Nat /\ login' <= logins'
    BY <1>3 DEF IInv, ClockInv
  <2> QED BY <1>1, <1>2, <1>3, <2>1, Zenon DEF IInv, ClockInv
<1>5. IssuedInv'
  BY <1>3, Zenon DEF IInv, IssuedInv, AnswersLogin
<1>6. KeptInv'
  BY <1>3, Zenon DEF IInv, KeptInv
<1> QED BY <1>3, <1>4, <1>5, <1>6, NoResult, Zenon DEF IInv

(***************************************************************************)
(* Times past stay past.                                                   *)
(***************************************************************************)
LEMMA TickIInv ==
  ASSUME IInv, Tick
  PROVE  IInv'
<1>1. /\ now < MaxTime /\ now' = now + 1 /\ result' = None
      /\ UNCHANGED <<profile, skew, issued, login, logins, accepted, links>>
  BY Zenon DEF Tick
<1>2. ClockInv'
  BY <1>1, SubjectAssertionAssumption DEF IInv, ClockInv
<1>3. \A t \in issued : PastTimes(t, now')
  BY <1>1 DEF IInv, ClockInv, IssuedInv, PastTimes
<1>4. IssuedInv'
  BY <1>1, <1>3, Zenon DEF IInv, IssuedInv, AnswersLogin
<1>5. KeptInv'
  BY <1>1, Zenon DEF IInv, KeptInv
<1> QED BY <1>1, <1>2, <1>4, <1>5, NoResult, ZenonT(30) DEF IInv

(***************************************************************************)
(* The issuer dates a token with the current time and names the subject    *)
(* for the type of the profile in use.                                     *)
(***************************************************************************)
LEMMA IssueIInv ==
  ASSUME IInv, Issue
  PROVE  IInv'
<1>1. PICK s \in Shapes : issued' = issued \cup {Token(s, now, login, profile.subjectType)}
  BY Zenon DEF Issue
<1> DEFINE u == Token(s, now, login, profile.subjectType)
<1>2. /\ login # 0 /\ result' = None
      /\ UNCHANGED <<now, profile, skew, login, logins, accepted, links>>
  BY Zenon DEF Issue
<1>3. /\ now \in 0 .. MaxTime /\ login \in 1 .. MaxLogins
      /\ profile.subjectType \in SubjectTypes
  BY <1>2, SubjectAssertionAssumption DEF IInv, ClockInv
<1>4. u \in Tokens
  BY <1>3 DEF Tokens
<1>5. /\ u.iss = s.iss /\ u.person = s.person /\ u.nonce = login
      /\ u.sub = SubjectOf(s.iss, profile.subjectType, s.person)
      /\ PastTimes(u, now)
  BY TokenFields, Zenon DEF IInv, ClockInv
<1> HIDE DEF u
<1>6. ClockInv' /\ KeptInv'
  BY <1>2, Zenon DEF IInv, ClockInv, KeptInv
<1>7. IssuedInv'
  <2>1. \A t \in issued' : t \in issued \/ t = u
    BY <1>1, Zenon DEF u
  <2> SUFFICES ASSUME NEW t \in issued'
               PROVE  /\ t \in Tokens
                      /\ t.nonce \in Nat /\ t.nonce # 0 /\ t.nonce <= logins
                      /\ PastTimes(t, now)
                      /\ \E x \in Shapes : AnswersLogin(t, x)
    BY <1>2, Zenon DEF IssuedInv, AnswersLogin
  <2>2. CASE t \in issued
    BY <2>2, Zenon DEF IInv, IssuedInv
  <2>3. CASE t = u
    <3>1. AnswersLogin(u, s)
      BY <1>5, Zenon DEF AnswersLogin
    <3> QED BY <1>2, <1>4, <1>5, <2>3, <3>1, ZenonT(30) DEF IInv, ClockInv
  <2> QED BY <2>1, <2>2, <2>3, Zenon
<1> QED BY <1>2, <1>6, <1>7, NoResult, Zenon DEF IInv

(***************************************************************************)
(* A login has a nonce that no token carries yet.                          *)
(***************************************************************************)
LEMMA StartLoginIInv ==
  ASSUME IInv, StartLogin
  PROVE  IInv'
<1>1. /\ profile # None /\ logins < MaxLogins
      /\ logins' = logins + 1 /\ login' = logins + 1 /\ result' = None
      /\ UNCHANGED <<now, profile, skew, issued, accepted, links>>
  BY Zenon DEF StartLogin
<1>2. ClockInv'
  BY <1>1, SubjectAssertionAssumption DEF IInv, ClockInv
<1>3. \A t \in issued : t.nonce # login' /\ t.nonce <= logins'
  BY <1>1 DEF IInv, ClockInv, IssuedInv
<1>4. IssuedInv'
  BY <1>1, <1>3, Zenon DEF IInv, IssuedInv, AnswersLogin
<1>5. KeptInv'
  BY <1>1, Zenon DEF IInv, KeptInv
<1> QED BY <1>1, <1>2, <1>4, <1>5, NoResult, ZenonT(30) DEF IInv

(***************************************************************************)
(* verify_subject_assertion, whatever token arrives: only what the issuer  *)
(* signed is accepted, and its key is stored for its person.               *)
(***************************************************************************)
LEMMA VerifyIInv ==
  ASSUME IInv, Verify
  PROVE  IInv'
<1>1. PICK t \in issued : \E a \in {t} \cup Alterations(t) :
        LET v == Verdict(a, profile, now + skew, login) IN
        /\ result' = [token |-> a, verdict |-> v, at |-> now, genuine |-> a \in issued]
        /\ accepted' = IF v = "verified" THEN accepted \cup {<<login, a>>} ELSE accepted
        /\ links' =
             IF v = "verified" /\ profile.subjectType \in DurableSubjectTypes
             THEN links \cup
                    {[key |-> CorrelationKey(a, profile), person |-> a.person,
                      tenant |-> a.tenant, byTenant |-> profile.tenantClaim # None]}
             ELSE links
  BY Zenon DEF Verify
<1>2. PICK a \in {t} \cup Alterations(t) :
        LET v == Verdict(a, profile, now + skew, login) IN
        /\ result' = [token |-> a, verdict |-> v, at |-> now, genuine |-> a \in issued]
        /\ accepted' = IF v = "verified" THEN accepted \cup {<<login, a>>} ELSE accepted
        /\ links' =
             IF v = "verified" /\ profile.subjectType \in DurableSubjectTypes
             THEN links \cup
                    {[key |-> CorrelationKey(a, profile), person |-> a.person,
                      tenant |-> a.tenant, byTenant |-> profile.tenantClaim # None]}
             ELSE links
  BY <1>1, Zenon
<1> DEFINE v == Verdict(a, profile, now + skew, login)
           k == [key |-> CorrelationKey(a, profile), person |-> a.person,
                 tenant |-> a.tenant, byTenant |-> profile.tenantClaim # None]
<1>3. /\ login # 0 /\ login' = 0
      /\ UNCHANGED <<now, profile, skew, issued, logins>>
  BY Zenon DEF Verify
<1>4. /\ profile # None /\ profile \in Profiles
      /\ now \in Nat /\ profile.leeway \in Nat
      /\ skew \in -profile.leeway .. profile.leeway
  BY <1>3, Zenon DEF IInv, ClockInv
<1>5. /\ result'.token = a /\ result'.verdict = v
      /\ result'.at = now /\ (result'.genuine <=> a \in issued)
  BY <1>2, Zenon
<1>6. v = "verified" => a.nonce = login
  BY <1>3, VerifiedNonce, SubjectAssertionAssumption, Zenon DEF IInv, ClockInv
<1>7. (a \in issued /\ NumericDate(a.exp) /\ now <= a.exp)
        => v \notin {"expired", "not_yet_valid"}
  <2> SUFFICES ASSUME a \in issued, NumericDate(a.exp), now <= a.exp
               PROVE  v \notin {"expired", "not_yet_valid"}
    OBVIOUS
  <2>1. PastTimes(a, now)
    BY Zenon DEF IInv, IssuedInv
  <2>2. CheckTimes(a, now + skew, profile.leeway) \notin {"expired", "not_yet_valid"}
    BY <1>4, <2>1, TimesAccept, Zenon
  <2> QED BY <2>2, TimeReason, Zenon
<1>8. ASSUME v = "verified"
      PROVE  /\ a = t /\ a.typ = "ID" /\ a.iss = profile.issuer
             /\ AudienceValid(a, profile)
             /\ CheckTimes(a, now + skew, profile.leeway) = "ok"
             /\ profile.tenantClaim # None => TenantValid(a.tenant)
  <2>1. /\ a.wellFormed /\ ~a.extraHeader /\ a.mediaType = "JWT"
        /\ a.signature \in Range(profile.keys)
        /\ a.typ = "ID" /\ a.iss = profile.issuer /\ AudienceValid(a, profile)
        /\ CheckTimes(a, now + skew, profile.leeway) = "ok"
        /\ profile.tenantClaim # None => TenantValid(a.tenant)
    BY <1>8, VerifiedChecks, Zenon
  <2>2. t \in Tokens
    BY Zenon DEF IInv, IssuedInv
  <2>3. a = t
    BY <1>4, <2>1, <2>2, AlterationAssumption, Zenon
  <2> QED BY <2>1, <2>3, Zenon
<1> HIDE DEF v
<1>9. ASSUME v = "verified" PROVE now <= a.exp + 2 * profile.leeway
  <2>1. CheckTimes(a, now + skew, profile.leeway) = "ok" /\ PastTimes(a, now)
    BY <1>8, <1>9, Zenon DEF IInv, IssuedInv
  <2>2. NumericDate(a.exp) /\ ~(now + skew > a.exp + profile.leeway)
    BY <2>1, Zenon DEF CheckTimes
  <2>3. a.exp \in Nat
    BY <2>1, <2>2, Zenon DEF PastTimes, NumericDate
  <2> QED BY <1>4, <2>2, <2>3
<1>10. ResultInv'
  <2>1. LiveTokenInTime'
    BY <1>5, <1>7, ZenonT(30) DEF LiveTokenInTime
  <2>2. VerifiedIsGenuine'
    BY <1>3, <1>5, <1>8, <1>9, ZenonT(30) DEF VerifiedIsGenuine, AudienceValid
  <2> QED BY <1>3, <1>4, <2>1, <2>2, ZenonT(30) DEF ResultInv
<1>11. \A x \in accepted' : x[2].nonce = x[1]
  <2>1. accepted' = IF v = "verified" THEN accepted \cup {<<login, a>>} ELSE accepted
    BY <1>2, Zenon DEF v
  <2> QED BY <1>6, <2>1 DEF IInv, KeptInv
<1>12. ASSUME v = "verified", profile.subjectType \in DurableSubjectTypes
       PROVE  \E s \in Shapes : LinkFrom(k, s, a, profile)
  <2>1. PICK s \in Shapes : AnswersLogin(a, s)
    BY <1>8, <1>12, Zenon DEF IInv, IssuedInv
  <2>2. /\ k.key = CorrelationKey(a, profile) /\ k.person = a.person
        /\ k.tenant = a.tenant /\ (k.byTenant <=> profile.tenantClaim # None)
    BY Zenon
  <2>3. /\ a.iss = s.iss /\ a.person = s.person
        /\ a.sub = SubjectOf(s.iss, profile.subjectType, s.person)
    BY <1>6, <1>12, <2>1, Zenon DEF AnswersLogin
  <2>4. profile.tenantClaim # None => a.tenant # None
    BY <1>8, <1>12, Zenon DEF TenantValid, Canonical
  <2>5. LinkFrom(k, s, a, profile)
    BY <1>8, <1>12, <2>2, <2>3, <2>4, ZenonT(30) DEF LinkFrom
  <2> QED BY <2>5, Zenon
<1>13. \A l \in links' :
         \E s \in Shapes : \E x \in Tokens : \E p \in Profiles : LinkFrom(l, s, x, p)
  <2>1. links' = IF v = "verified" /\ profile.subjectType \in DurableSubjectTypes
                 THEN links \cup {k} ELSE links
    BY <1>2, Zenon DEF v
  <2>2. v = "verified" => a \in Tokens
    BY <1>8, Zenon DEF IInv, IssuedInv
  <2> HIDE DEF k
  <2> QED BY <1>4, <1>12, <2>1, <2>2, ZenonT(30) DEF IInv, KeptInv
<1>14. ClockInv'
  <2>1. login' \in Nat /\ login' <= logins'
    BY <1>3 DEF IInv, ClockInv
  <2> QED BY <1>3, <2>1, Zenon DEF IInv, ClockInv
<1>15. IssuedInv'
  BY <1>3, Zenon DEF IInv, IssuedInv, AnswersLogin
<1> QED BY <1>10, <1>11, <1>13, <1>14, <1>15, ZenonT(30) DEF IInv, KeptInv

(***************************************************************************)
(* The invariant holds throughout.                                         *)
(***************************************************************************)
THEOREM Invariance == Spec => []IInv
<1>1. ASSUME IInv, [Next]_vars PROVE IInv'
  <2>1. CASE UNCHANGED vars
    BY <1>1, <2>1, Zenon
       DEF vars, IInv, ClockInv, IssuedInv, AnswersLogin, KeptInv, ResultInv,
           LiveTokenInTime, VerifiedIsGenuine
  <2> QED BY <1>1, <2>1, ConfigureIInv, TickIInv, IssueIInv, StartLoginIInv, VerifyIInv,
             ZenonT(30) DEF Next
<1> QED BY InitIInv, <1>1, PTL DEF Spec

(***************************************************************************)
(* A genuine token within its lifetime is never rejected for its time, for *)
(* every leeway a profile may have and every clock within it.              *)
(***************************************************************************)
THEOREM LiveTokensInTime == Spec => []LiveTokenInTime
<1>1. IInv => LiveTokenInTime
  BY Zenon DEF IInv, ResultInv
<1> QED BY Invariance, <1>1, PTL

(***************************************************************************)
(* What verify_subject_assertion accepts is an unaltered ID token of the   *)
(* issuer for this audience and in time, given that no alteration carries  *)
(* a trusted key's signature.                                              *)
(***************************************************************************)
THEOREM VerifiedTokensAreGenuine == Spec => []VerifiedIsGenuine
<1>1. IInv => VerifiedIsGenuine
  BY Zenon DEF IInv, ResultInv
<1> QED BY Invariance, <1>1, PTL

(***************************************************************************)
(* One token completes at most one login.                                  *)
(***************************************************************************)
THEOREM TokensVerifiedOnce == Spec => []TokenVerifiedOnce
<1>1. IInv => TokenVerifiedOnce
  BY Zenon DEF IInv, KeptInv, TokenVerifiedOnce
<1> QED BY Invariance, <1>1, PTL

(***************************************************************************)
(* The texts _correlation_key writes agree only where issuer, type, tenant *)
(* and subject do.                                                         *)
(***************************************************************************)
LEMMA KeyNamesCoordinates ==
  ASSUME NEW t \in Tokens, NEW u \in Tokens, NEW p \in Profiles, NEW q \in Profiles,
         CorrelationKey(t, p) = CorrelationKey(u, q)
  PROVE  /\ p.issuer = q.issuer /\ p.subjectType = q.subjectType
         /\ TenantOf(t, p) = TenantOf(u, q) /\ t.sub = u.sub
<1>1. Coordinates(t, p) = Coordinates(u, q)
  <2>1. Coordinates(t, p) \in CoordinateLists /\ Coordinates(u, q) \in CoordinateLists
    BY SMT DEF CoordinateLists
  <2> QED BY <2>1, EncodingAssumption, ZenonT(30) DEF CorrelationKey
<1>2. /\ <<p.issuer>> = <<q.issuer>> /\ <<p.subjectType>> = <<q.subjectType>>
      /\ TenantOf(t, p) = TenantOf(u, q) /\ t.sub = u.sub
  BY <1>1, SMT DEF Coordinates
<1> QED BY <1>2

(***************************************************************************)
(* A correlation key stored for one person, through whatever profile, is   *)
(* stored for no other, and one stored for a tenant for no other tenant,   *)
(* given an issuer that never gives two persons one subject of a type.     *)
(***************************************************************************)
THEOREM LinksNameOnePerson == Spec => []LinkNamesOnePerson
<1>1. ASSUME IInv PROVE LinkNamesOnePerson
  <2> SUFFICES ASSUME NEW k \in links, NEW l \in links, k.key = l.key
               PROVE  /\ k.person = l.person
                      /\ k.byTenant => l.byTenant /\ k.tenant = l.tenant
    BY Zenon DEF LinkNamesOnePerson
  <2>1. PICK s \in Shapes, t \in Tokens, p \in Profiles : LinkFrom(k, s, t, p)
    BY <1>1, Zenon DEF IInv, KeptInv
  <2>2. PICK r \in Shapes, u \in Tokens, q \in Profiles : LinkFrom(l, r, u, q)
    BY <1>1, Zenon DEF IInv, KeptInv
  <2>3. CorrelationKey(t, p) = CorrelationKey(u, q)
    BY <2>1, <2>2, Zenon DEF LinkFrom
  <2>4. /\ p.issuer = q.issuer /\ p.subjectType = q.subjectType
        /\ TenantOf(t, p) = TenantOf(u, q) /\ t.sub = u.sub
    BY <2>3, KeyNamesCoordinates, ZenonT(30)
  <2>5. k.person = l.person
    <3>1. /\ s.iss = r.iss /\ p.subjectType \in DurableSubjectTypes
          /\ SubjectOf(s.iss, p.subjectType, s.person)
               = SubjectOf(r.iss, p.subjectType, r.person)
      BY <2>1, <2>2, <2>4, Zenon DEF LinkFrom
    <3>2. s.person = r.person
      BY <3>1, IssuerAssumption, Zenon
    <3> QED BY <2>1, <2>2, <3>2, Zenon DEF LinkFrom
  <2>6. k.byTenant => l.byTenant /\ k.tenant = l.tenant
    BY <2>1, <2>2, <2>4, Zenon DEF LinkFrom, TenantOf
  <2> QED BY <2>5, <2>6, Zenon
<1> QED BY Invariance, <1>1, PTL
=============================================================================
