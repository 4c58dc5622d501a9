----------------------------- MODULE ServiceProofs --------------------------
(***************************************************************************)
(* Proofs about what the service does besides its work on accounts and     *)
(* desired state, one part after the other, each about a module that       *)
(* stands by itself: the shared service-account token (TokenCache), the    *)
(* start and stop of a process and the seeding of its configuration        *)
(* (Startup), the merge verdict (Matching), and the walk of a realm export *)
(* (RealmFlows).  They hold for any threads, calls, tokens, runs of the    *)
(* seeding tool, starts, accounts and exports.                             *)
(***************************************************************************)
EXTENDS MCTokenCache, Startup, MCAlgorithms, TLAPS

-----------------------------------------------------------------------------
(* The shared token *)

(***************************************************************************)
(* Before its request is carried out (_send_with_reauth), a call has had   *)
(* no effect and no answer.                                                *)
(***************************************************************************)
EffectInv ==
  /\ pc \in [Workers -> {"idle", "header", "fetch", "assign", "reread", "send",
                         "refused"}]
  /\ tries \in [Workers -> {0, 1, 2}]
  /\ effects \in [Workers -> {0, 1}]
  /\ answer \in [Workers -> {"none", "ok", "unauthorized", "error"}]
  /\ \A w \in Workers : pc[w] # "idle" => effects[w] = 0 /\ answer[w] = "none"
  /\ AtMostOneEffect

(***************************************************************************)
(* The invariant holds initially and through every step.                   *)
(***************************************************************************)
THEOREM EffectInvariance == Spec => []EffectInv
<1> USE DEF EffectInv, AtMostOneEffect
<1>1. Init => EffectInv
  BY DEF Init
<1>2. ASSUME EffectInv, [Next]_vars PROVE EffectInv'
  <2> USE <1>2 DEF Goto, Return
  <2>1. CASE UNCHANGED vars
    BY <2>1, Zenon DEF vars
  <2>2. ASSUME NEW w \in Workers, Call(w) PROVE EffectInv'
    BY <2>2 DEF Call
  <2>3. ASSUME NEW w \in Workers, AuthHeader(w) \/ Fetch(w) \/ Assign(w) \/ Reread(w)
        PROVE  EffectInv'
    BY <2>3, ZenonT(60) DEF AuthHeader, Fetch, Assign, Reread
  <2>4. ASSUME NEW w \in Workers, Send(w) PROVE EffectInv'
    BY <2>4 DEF Send
  <2>5. ASSUME NEW w \in Workers, Refused(w) PROVE EffectInv'
    BY <2>5 DEF Refused
  <2>6. ASSUME NEW w \in Workers, Lost(w) PROVE EffectInv'
    BY <2>6 DEF Lost
  <2>7. ASSUME NEW w \in Workers, FetchFails(w) PROVE EffectInv'
    BY <2>7, Zenon DEF FetchFails
  <2>8. CASE Expire
    BY <2>8, Zenon DEF Expire
  <2> QED BY <2>1, <2>2, <2>3, <2>4, <2>5, <2>6, <2>7, <2>8, Zenon DEF Next, Step
<1> QED BY <1>1, <1>2, PTL DEF Spec

(***************************************************************************)
(* However many threads share the token and whatever expires or gets lost, *)
(* a call takes effect at most once, exactly once if it returned normally  *)
(* and never if it ended with 401.                                         *)
(***************************************************************************)
THEOREM EffectsAtMostOnce == Spec => []AtMostOneEffect
<1>1. EffectInv => AtMostOneEffect
  BY Zenon DEF EffectInv
<1> QED BY EffectInvariance, <1>1, PTL

-----------------------------------------------------------------------------
(***************************************************************************)
(* The cached token and those at hand have been issued, and one Keycloak   *)
(* no longer accepts has expired.                                          *)
(***************************************************************************)
TokensIssued ==
  /\ issued \in Nat
  /\ expiries \in Nat
  /\ valid \in SUBSET (1 .. issued)
  /\ token \in (1 .. issued) \cup {None}
  /\ bearer \in [Workers -> (1 .. issued) \cup {None}]
  /\ crossed \in [Workers -> BOOLEAN]
  /\ 1 .. issued # valid => expiries >= 1

(***************************************************************************)
(* How far a call is, as long as no other thread changed the token: what   *)
(* it sends was issued; after the first refusal a token has expired and    *)
(* the attribute is empty until the call fills it with a fresh token,      *)
(* which only a second expiry can spoil.                                   *)
(***************************************************************************)
OnItsOwn(w) ==
  /\ pc[w] \in {"assign", "reread", "send"} => bearer[w] # None
  /\ pc[w] = "reread" => token = bearer[w]
  /\ pc[w] # "idle" /\ tries[w] = 1 => expiries >= 1
  /\ pc[w] \in {"header", "fetch"} /\ tries[w] = 1 => token = None
  /\ pc[w] \in {"assign", "reread", "send"} /\ tries[w] = 1 =>
       bearer[w] \in valid \/ expiries >= 2
  /\ pc[w] # "idle" /\ tries[w] = 2 => expiries >= 2
  /\ pc[w] # "idle" => answer[w] = "none"
  /\ answer[w] = "unauthorized" => expiries >= 2

ExpiryInv ==
  /\ TokensIssued
  /\ \A w \in Workers : pc[w] \in {"header", "fetch", "assign", "reread", "send"} =>
       tries[w] # 2
  /\ \A w \in Workers : ~crossed[w] => OnItsOwn(w)

(***************************************************************************)
(* A call that nobody crossed so far was not crossed before either, and    *)
(* found the token as it left it.                                          *)
(***************************************************************************)
LEMMA NotCrossed ==
  ASSUME MCNext, NEW w \in Workers, ~crossed'[w]
  PROVE  \/ pc[w] = "idle" /\ pc'[w] # "idle"
         \/ ~crossed[w] /\ (pc[w] = "idle" \/ pc'[w] # pc[w] \/ token' = token)
BY Zenon DEF MCNext

(***************************************************************************)
(* The steps of another thread leave a call on its own as it is.           *)
(***************************************************************************)
LEMMA OthersOnTheirOwn ==
  ASSUME EffectInv, ExpiryInv, MCNext, NEW w \in Workers, ~crossed'[w],
         pc'[w] = pc[w], tries'[w] = tries[w], answer'[w] = answer[w],
         bearer'[w] = bearer[w], expiries' = expiries, valid \subseteq valid'
  PROVE  OnItsOwn(w)'
<1>1. ~crossed[w] /\ (pc[w] = "idle" \/ token' = token)
  BY NotCrossed, Zenon
<1> QED BY <1>1, Zenon DEF ExpiryInv, OnItsOwn

(***************************************************************************)
(* The invariant is preserved by a step of one thread.                     *)
(***************************************************************************)
LEMMA WorkerExpiryInv ==
  ASSUME EffectInv, ExpiryInv, MCNext, NEW w \in Workers,
         Call(w) \/ Step(w) \/ Lost(w) \/ FetchFails(w)
  PROVE  ExpiryInv'
<1> USE ConstantsAssumption DEF Goto, Return, bounds
<1>0. crossed' \in [Workers -> BOOLEAN]
  BY Zenon DEF MCNext
<1>1. TokensIssued'
  <2>1. CASE Fetch(w)
    <3>1. 1 .. issued + 1 = (1 .. issued) \cup {issued + 1}
      BY DEF ExpiryInv, TokensIssued
    <3> QED BY <1>0, <2>1, <3>1 DEF ExpiryInv, TokensIssued, Fetch
  <2>2. CASE Assign(w) \/ Reread(w) \/ AuthHeader(w) \/ Refused(w)
    BY <1>0, <2>2, ZenonT(60) DEF ExpiryInv, TokensIssued, Assign, Reread, AuthHeader, Refused
  <2>3. CASE Call(w) \/ Send(w) \/ Lost(w) \/ FetchFails(w)
    BY <1>0, <2>3, Zenon DEF ExpiryInv, TokensIssued, Call, Send, Lost, FetchFails
  <2> QED BY <2>1, <2>2, <2>3, Zenon DEF Step
<1>2. \A v \in Workers : pc'[v] \in {"header", "fetch", "assign", "reread", "send"} =>
        tries'[v] # 2
  <2>1. CASE Call(w) \/ Lost(w) \/ FetchFails(w) \/ Send(w)
    BY <2>1 DEF ExpiryInv, EffectInv, Call, Lost, FetchFails, Send
  <2>2. CASE AuthHeader(w) \/ Fetch(w) \/ Assign(w) \/ Reread(w) \/ Refused(w)
    BY <2>2 DEF ExpiryInv, EffectInv, AuthHeader, Fetch, Assign, Reread, Refused
  <2> QED BY <2>1, <2>2, Zenon DEF Step
<1>3. ASSUME NEW v \in Workers \ {w}, ~crossed'[v] PROVE OnItsOwn(v)'
  <2>1. /\ pc'[v] = pc[v] /\ tries'[v] = tries[v] /\ answer'[v] = answer[v]
        /\ bearer'[v] = bearer[v] /\ expiries' = expiries /\ valid \subseteq valid'
    BY DEF EffectInv, ExpiryInv, TokensIssued, Step, Call, AuthHeader, Fetch, Assign,
           Reread, Send, Refused, Lost, FetchFails
  <2> QED BY <1>3, <2>1, OthersOnTheirOwn, ZenonT(60)
<1>4. ASSUME ~crossed'[w] PROVE OnItsOwn(w)'
  <2>1. CASE Call(w)
    BY <2>1 DEF Call, OnItsOwn, EffectInv
  <2>2. CASE ~Call(w)
    <3>1. pc[w] # "idle"
      BY <2>2, Zenon DEF Step, AuthHeader, Fetch, Assign, Reread, Send, Refused, Lost, FetchFails
    <3>2. OnItsOwn(w)
      BY <1>4, <3>1, NotCrossed, Zenon DEF ExpiryInv
    <3> USE <1>1, <1>2, <3>2 DEF OnItsOwn, EffectInv, ExpiryInv, TokensIssued
    <3>3. CASE AuthHeader(w)
      BY <3>3, Zenon DEF AuthHeader
    <3>4. CASE Fetch(w)
      BY <3>4, Zenon DEF Fetch
    <3>5. CASE Assign(w)
      BY <3>5, ZenonT(60) DEF Assign
    <3>6. CASE Reread(w)
      BY <3>6 DEF Reread
    <3>7. CASE Send(w)
      BY <3>7 DEF Send
    <3>8. CASE Refused(w)
      BY <3>8, SMTT(30) DEF Refused
    <3>9. CASE Lost(w) \/ FetchFails(w)
      BY <3>9 DEF Lost, FetchFails
    <3> QED BY <2>2, <3>3, <3>4, <3>5, <3>6, <3>7, <3>8, <3>9, Zenon DEF Step
  <2> QED BY <2>1, <2>2, Zenon
<1> QED BY <1>1, <1>2, <1>3, <1>4, Zenon DEF ExpiryInv

(***************************************************************************)
(* The invariant is preserved when Keycloak lets its tokens expire.        *)
(***************************************************************************)
LEMMA ExpireExpiryInv ==
  ASSUME EffectInv, ExpiryInv, MCNext, Expire
  PROVE  ExpiryInv'
<1> USE DEF Expire
<1>1. TokensIssued'
  BY DEF MCNext, ExpiryInv, TokensIssued
<1>2. ASSUME NEW w \in Workers, ~crossed'[w] PROVE OnItsOwn(w)'
  <2>1. ~crossed[w]
    BY <1>2, NotCrossed, Zenon
  <2> QED BY <2>1 DEF ExpiryInv, TokensIssued, OnItsOwn, EffectInv
<1> QED BY <1>1, <1>2, Zenon DEF ExpiryInv

(***************************************************************************)
(* Both invariants hold initially and through every step, the history of   *)
(* who crossed whom included.                                              *)
(***************************************************************************)
THEOREM ExpiryInvariance == MCSpec => []ExpiryInv
<1>1. MCInit => ExpiryInv
  BY DEF MCInit, Init, ExpiryInv, TokensIssued, OnItsOwn
<1>2. ASSUME EffectInv, ExpiryInv, [MCNext]_<<vars, crossed>> PROVE ExpiryInv'
  <2>1. CASE UNCHANGED <<vars, crossed>>
    BY <1>2, <2>1, Zenon DEF vars, bounds, ExpiryInv, TokensIssued, OnItsOwn
  <2>2. CASE MCNext
    BY <1>2, <2>2, WorkerExpiryInv, ExpireExpiryInv, Zenon DEF MCNext, Next
  <2> QED BY <1>2, <2>1, <2>2, Zenon
<1>3. MCSpec => Spec
  <2>1. MCInit => Init
    BY Zenon DEF MCInit
  <2>2. [MCNext]_<<vars, crossed>> => [Next]_vars
    BY Zenon DEF MCNext
  <2> QED BY <2>1, <2>2, PTL DEF MCSpec, Spec
<1> QED BY <1>1, <1>2, <1>3, EffectInvariance, PTL DEF MCSpec

(***************************************************************************)
(* A call ends with 401 only after two expiries, unless another thread     *)
(* changed the shared attribute during the call.                           *)
(***************************************************************************)
THEOREM OneExpiryIsSurvived == MCSpec => []OneExpirySurvived
<1>1. ExpiryInv => OneExpirySurvived
  BY Zenon DEF ExpiryInv, OnItsOwn, OneExpirySurvived
<1> QED BY ExpiryInvariance, <1>1, PTL

-----------------------------------------------------------------------------
(* Start and stop of a process *)

(***************************************************************************)
(* What the configuration store and the seeding tool's arguments hold, and *)
(* by which run: the Keycloak settings are at least as new as the operator *)
(* token, and a run under way puts those it has not put yet before it.     *)
(***************************************************************************)
StoreInv ==
  /\ kv \in [Entries -> Values]
  /\ kv["operator"] \in Tokens \cup {Unset}
  /\ \A e \in {"registrationClient", "redirectUri"} : kv[e] \in {Unset, "good", "bad"}
  /\ \A e \in KeycloakEntries : kv[e] \in {Unset, "good"}
  /\ args \in Arguments \cup {Unset}
  /\ todo \in Seq(Entries)

PutFirst(e) ==
  \E i \in 1 .. Len(todo) : todo[i] = e /\ \A j \in 1 .. i - 1 : todo[j] # "operator"

OrderInv ==
  /\ seeds \in Nat
  /\ putBy \in [Entries -> Nat]
  /\ \A e \in Entries : putBy[e] <= seeds
  /\ \A e \in KeycloakEntries :
       /\ putBy["operator"] <= putBy[e]
       /\ args # Unset => putBy[e] = seeds \/ PutFirst(e)

(***************************************************************************)
(* What load_service_config has established when it reads an entry, and    *)
(* keeps for the rest of the start.                                        *)
(***************************************************************************)
AfterSecret == {"auditPath", "timeout", "directory", "audit", "wire", "up"}
AfterClientId == AfterSecret \cup {"clientSecret"}
AfterRealm == AfterClientId \cup {"clientId"}
AfterUrl == AfterRealm \cup {"realm"}
AfterLifespan == AfterUrl \cup {"serverUrl", "mergePolicy", "allowUnverified"}
AfterRedirect == AfterLifespan \cup {"lifespan"}
AfterRegistrationClient == AfterRedirect \cup {"redirectUri"}
AfterToken == AfterRegistrationClient \cup {"registrationClient"}
AfterOperator == AfterToken \cup {"registrationToken"}

NotOlder(e) == read[e] = "good" /\ readBy["operator"] <= readBy[e]

ReadInv ==
  /\ phase \in AfterOperator \cup {"operator", "down", "failed", "closing"}
  /\ read \in [Entries -> Values]
  /\ readBy \in [Entries -> Nat]
  /\ phase \in AfterOperator =>
       /\ read["operator"] \in Tokens
       /\ \A e \in KeycloakEntries : readBy["operator"] <= putBy[e]
  /\ phase \in AfterToken => read["registrationToken"] # read["operator"]
  /\ phase \in AfterRegistrationClient =>
       read["registrationToken"] = Unset \/ read["registrationClient"] = "good"
  /\ phase \in AfterRedirect =>
       read["registrationToken"] = Unset \/ read["redirectUri"] = "good"
  /\ phase \in AfterLifespan =>
       read["registrationToken"] = Unset \/ read["lifespan"] # "bad"
  /\ phase \in AfterUrl => NotOlder("serverUrl")
  /\ phase \in AfterRealm => NotOlder("realm")
  /\ phase \in AfterClientId => NotOlder("clientId")
  /\ phase \in AfterSecret => NotOlder("clientSecret")
  /\ ready \in BOOLEAN
  /\ ready => phase = "up"

(***************************************************************************)
(* There is one temporary lock database while the service that made it     *)
(* lives, lifespan knows of it, and each failure leaves one at most.       *)
(***************************************************************************)
Held ==
  IF (phase \in {"wire", "up"} /\ Memory) \/ (phase = "closing" /\ tempKnown) THEN 1 ELSE 0

TempInv ==
  /\ spoilt \in Nat /\ tempFiles \in Nat /\ tempKnown \in BOOLEAN
  /\ phase = "up" => (tempKnown <=> Memory)
  /\ Held <= tempFiles /\ tempFiles <= spoilt + Held

LifeInv == StoreInv /\ OrderInv /\ ReadInv /\ TempInv

(***************************************************************************)
(* The arguments of the seeding tool, entry by entry.                      *)
(***************************************************************************)
LEMMA ArgumentValues ==
  ASSUME NEW g \in Arguments
  PROVE  /\ g \in [Entries -> Values]
         /\ g["operator"] \in Tokens
         /\ \A e \in {"registrationClient", "redirectUri"} : g[e] \in {"good", "bad"}
         /\ \A e \in KeycloakEntries : g[e] = "good"
<1>1. PICK o \in Tokens, t \in Tokens \cup {Unset}, audit \in AuditPaths,
           flaw \in ArgumentFlaws \cup {"none"} : g = Argument(o, t, audit, flaw)
  BY SMTT(30) DEF Arguments
<1>2. /\ audit \in {"memory", "file"}
      /\ flaw \in {"registrationClient", "redirectUri", "lifespan", "none"}
  BY StartupAssumption, Zenon DEF RegistrationEntries
<1>3. \A e \in Entries :
        g[e] = CASE e = "operator" -> o
                 [] e = "registrationToken" -> t
                 [] e = "auditPath" -> audit
                 [] e = flaw -> "bad"
                 [] OTHER -> "good"
  BY <1>1, Zenon DEF Argument
<1>4. \A e \in Entries : g[e] \in Values
  BY <1>2, <1>3, Zenon DEF Values
<1>5. g \in [Entries -> Values]
  BY <1>1, <1>4, Zenon DEF Argument
<1>6. KeycloakEntries \subseteq Entries /\ "operator" \in Entries
      /\ "registrationClient" \in Entries /\ "redirectUri" \in Entries
  BY Zenon DEF Entries, RegistrationEntries
<1>7. g["operator"] \in Tokens
  BY <1>2, <1>3, <1>6, SMT
<1>8. \A e \in {"registrationClient", "redirectUri"} : g[e] \in {"good", "bad"}
  BY <1>3, <1>6, SMT
<1>9. \A e \in KeycloakEntries : g[e] = "good"
  BY <1>2, <1>3, <1>6, SMT DEF KeycloakEntries
<1> QED BY <1>5, <1>7, <1>8, <1>9, Zenon

(***************************************************************************)
(* main puts the four Keycloak settings first.                             *)
(***************************************************************************)
LEMMA SeedOrderFacts ==
  ASSUME NEW g \in Arguments
  PROVE  /\ SeedOrder(g) \in Seq(Entries)
         /\ Len(SeedOrder(g)) >= 4
         /\ SeedOrder(g)[1] = "serverUrl" /\ SeedOrder(g)[2] = "realm"
         /\ SeedOrder(g)[3] = "clientId" /\ SeedOrder(g)[4] = "clientSecret"
<1> USE DEF SeedOrder, Entries, KeycloakEntries, RegistrationEntries, FixedEntries
<1>1. CASE g["registrationToken"] = Unset
  BY <1>1, SMTT(30)
<1>2. CASE g["registrationToken"] # Unset
  BY <1>2, SMTT(30)
<1> QED BY <1>1, <1>2, Zenon

(***************************************************************************)
(* The seeding tool puts only what its arguments hold.                     *)
(***************************************************************************)
LEMMA SeederInv ==
  ASSUME StoreInv, SeedStart \/ SeedPut \/ SeedEnd \/ SeedDies
  PROVE  StoreInv'
<1> USE DEF StoreInv
<1>1. CASE SeedStart
  BY <1>1, SeedOrderFacts, Zenon DEF SeedStart
<1>2. CASE SeedPut
  <2>1. Head(todo) \in Entries /\ todo' \in Seq(Entries) /\ args \in Arguments
    BY <1>2 DEF SeedPut
  <2>2. /\ args[Head(todo)] \in Values
        /\ Head(todo) = "operator" => args[Head(todo)] \in Tokens
        /\ \A e \in {"registrationClient", "redirectUri"} :
             Head(todo) = e => args[Head(todo)] \in {"good", "bad"}
        /\ \A e \in KeycloakEntries : Head(todo) = e => args[Head(todo)] = "good"
    BY <2>1, ArgumentValues, Zenon
  <2>3. "operator" \in Entries /\ "registrationClient" \in Entries
        /\ "redirectUri" \in Entries /\ KeycloakEntries \subseteq Entries
    BY Zenon DEF Entries, RegistrationEntries
  <2>4. /\ kv' = [kv EXCEPT ![Head(todo)] = args[Head(todo)]] /\ args' = args
    BY <1>2, Zenon DEF SeedPut
  <2>5. kv' \in [Entries -> Values]
    BY <2>1, <2>2, <2>4, Zenon
  <2>6. \A e \in Entries : kv'[e] = IF e = Head(todo) THEN args[Head(todo)] ELSE kv[e]
    BY <2>4, Zenon
  <2> QED BY <2>1, <2>2, <2>3, <2>4, <2>5, <2>6, Zenon
<1>3. CASE SeedEnd
  BY <1>3, Zenon DEF SeedEnd
<1>4. CASE SeedDies
  BY <1>4 DEF SeedDies
<1> QED BY <1>1, <1>2, <1>3, <1>4, Zenon

(***************************************************************************)
(* The seeding tool never makes a Keycloak setting older than the operator *)
(* token, and what was put by a run is only replaced by a later one.       *)
(***************************************************************************)
LEMMA SeederOrder ==
  ASSUME StoreInv, OrderInv, SeedStart \/ SeedPut \/ SeedEnd \/ SeedDies
  PROVE  OrderInv' /\ \A e \in Entries : putBy[e] <= putBy'[e]
<1>0. "operator" \in Entries /\ KeycloakEntries \subseteq Entries
  BY Zenon DEF Entries
<1>1. CASE SeedStart
  <2>1. PICK g \in Arguments : args' = g /\ todo' = SeedOrder(g)
    BY <1>1, Zenon DEF SeedStart
  <2>2. seeds' = seeds + 1 /\ putBy' = putBy
    BY <1>1, Zenon DEF SeedStart
  <2>3. \A e \in KeycloakEntries : PutFirst(e)'
    <3>1. \A i \in 1 .. 4 : SeedOrder(g)[i] \in KeycloakEntries
      BY SeedOrderFacts, SMT DEF KeycloakEntries
    <3>2. "operator" \notin KeycloakEntries
      BY Zenon DEF KeycloakEntries
    <3>3. \A i \in 1 .. 4 : i \in 1 .. Len(SeedOrder(g))
            /\ \A j \in 1 .. i - 1 : SeedOrder(g)[j] # "operator"
      BY <3>1, <3>2, SeedOrderFacts, SMT
    <3>4. \A e \in KeycloakEntries : \E i \in 1 .. 4 : SeedOrder(g)[i] = e
      BY SeedOrderFacts, SMT DEF KeycloakEntries
    <3> QED BY <2>1, <3>3, <3>4, Zenon DEF PutFirst
  <2> QED BY <1>0, <2>2, <2>3, SMT DEF OrderInv
<1>2. CASE SeedPut
  <2> DEFINE h == Head(todo)
  <2>1. /\ args # Unset /\ todo # <<>> /\ args' = args /\ seeds' = seeds
        /\ putBy' = [putBy EXCEPT ![h] = seeds] /\ todo' = Tail(todo)
    BY <1>2, Zenon DEF SeedPut
  <2>2. /\ todo \in Seq(Entries) /\ h \in Entries /\ h = todo[1]
        /\ Len(todo') = Len(todo) - 1 /\ Len(todo) \in Nat /\ Len(todo) >= 1
        /\ \A i \in 1 .. Len(todo) - 1 : todo'[i] = todo[i + 1]
    BY <2>1 DEF StoreInv
  <2>3. \A e \in Entries : putBy'[e] = IF e = h THEN seeds ELSE putBy[e]
    BY <2>1, <2>2, Zenon DEF OrderInv
  <2>4. putBy' \in [Entries -> Nat]
    BY <2>1, <2>2, Zenon DEF OrderInv
  <2> HIDE DEF h
  <2>5. seeds \in Nat /\ \A e \in Entries : putBy[e] \in Nat /\ putBy[e] <= seeds
    BY Zenon DEF OrderInv
  <2>6. \A e \in Entries : putBy'[e] <= seeds /\ putBy[e] <= putBy'[e]
    BY <2>3, <2>5, SMT
  <2>7. ASSUME NEW e \in KeycloakEntries
        PROVE  /\ putBy'["operator"] <= putBy'[e]
               /\ putBy'[e] = seeds \/ PutFirst(e)'
    <3>0. e # "operator" /\ e \in Entries
      BY <1>0, Zenon DEF KeycloakEntries
    <3>1. CASE putBy[e] = seeds
      BY <1>0, <2>3, <2>6, <3>0, <3>1, Zenon
    <3>2. CASE h = e
      BY <1>0, <2>3, <2>6, <3>0, <3>2, Zenon
    <3>3. CASE putBy[e] # seeds /\ h # e
      <4>1. PICK i \in 1 .. Len(todo) :
              todo[i] = e /\ \A j \in 1 .. i - 1 : todo[j] # "operator"
        BY <2>1, <3>3, Zenon DEF OrderInv, PutFirst
      <4>2. i # 1
        BY <2>2, <3>3, <4>1, Zenon
      <4>3. 1 \in 1 .. i - 1 /\ i - 1 \in 1 .. Len(todo) - 1
        BY <2>2, <4>1, <4>2, SMT
      <4>4. h # "operator"
        BY <2>2, <4>1, <4>3, Zenon
      <4>5. todo'[i - 1] = e /\ i - 1 \in 1 .. Len(todo')
        BY <2>2, <4>1, <4>3, SMT
      <4>6. \A j \in 1 .. (i - 1) - 1 : todo'[j] # "operator"
        <5> SUFFICES ASSUME NEW j \in 1 .. (i - 1) - 1 PROVE todo'[j] # "operator"
          OBVIOUS
        <5>1. j \in 1 .. Len(todo) - 1 /\ j + 1 \in 1 .. i - 1
          BY <2>2, <4>1, SMT
        <5> QED BY <2>2, <4>1, <5>1, Zenon
      <4>7. PutFirst(e)'
        BY <4>5, <4>6, Zenon DEF PutFirst
      <4>8. putBy["operator"] <= putBy[e]
        BY Zenon DEF OrderInv
      <4> QED BY <1>0, <2>3, <3>0, <3>3, <4>4, <4>7, <4>8, Zenon
    <3> QED BY <3>1, <3>2, <3>3, Zenon
  <2> QED BY <2>1, <2>4, <2>5, <2>6, <2>7, Zenon DEF OrderInv
<1>3. CASE SeedEnd \/ SeedDies
  <2>1. args' = Unset /\ UNCHANGED <<putBy, seeds>>
    BY <1>3, Zenon DEF SeedEnd, SeedDies
  <2> QED BY <1>0, <2>1, SMT DEF OrderInv
<1> QED BY <1>1, <1>2, <1>3, Zenon

(***************************************************************************)
(* Each read goes on only with a value that load_service_config accepts.   *)
(***************************************************************************)
LEMMA ReadEntryInv ==
  ASSUME StoreInv, OrderInv, ReadInv, ReadEntry
  PROVE  ReadInv'
<1> USE DEF AfterSecret, AfterClientId, AfterRealm, AfterUrl, AfterLifespan, AfterRedirect,
            AfterRegistrationClient, AfterToken, AfterOperator
<1>1. /\ phase \in Entries /\ ready' = ready /\ putBy' = putBy
      /\ "up" \notin Entries
  BY Zenon DEF ReadEntry, Fails, seeder, Entries, KeycloakEntries, RegistrationEntries,
     FixedEntries
<1>2. ready' = FALSE
  BY <1>1, Zenon DEF ReadInv
<1>3. CASE ~Accepts(phase, kv[phase])
  <2>1. Unread \in [Entries -> Values] /\ ByNone \in [Entries -> Nat]
    BY SMT DEF Unread, ByNone, Values
  <2> QED BY <1>2, <1>3, <2>1, Zenon DEF ReadEntry, Fails, ReadInv
<1>4. CASE Accepts(phase, kv[phase])
  <2>1. /\ phase' = NextEntry(phase, kv[phase])
        /\ read' = [read EXCEPT ![phase] = kv[phase]]
        /\ readBy' = [readBy EXCEPT ![phase] = putBy[phase]]
    BY <1>4, Zenon DEF ReadEntry, Goes
  <2>2. read' \in [Entries -> Values] /\ readBy' \in [Entries -> Nat]
    BY <1>1, <2>1, Zenon DEF ReadInv, StoreInv, OrderInv
  <2>3. \A e \in Entries : /\ read'[e] = IF e = phase THEN kv[phase] ELSE read[e]
                           /\ readBy'[e] = IF e = phase THEN putBy[phase] ELSE readBy[e]
    BY <2>1, Zenon DEF ReadInv
  <2>4. /\ "operator" \in Entries /\ "registrationToken" \in Entries
        /\ RegistrationEntries \subseteq Entries /\ KeycloakEntries \subseteq Entries
    BY Zenon DEF Entries
  <2>5. \A e \in {"operator", "registrationToken"} \cup RegistrationEntries \cup KeycloakEntries :
          e # phase => read'[e] = read[e] /\ readBy'[e] = readBy[e]
    BY <2>3, <2>4, Zenon
  <2>6. read'[phase] = kv[phase] /\ readBy'[phase] = putBy[phase]
    BY <1>1, <2>3, Zenon
  <2> USE <1>1, <1>2, <1>4, <2>1, <2>2, <2>5, <2>6
      DEF ReadInv, Accepts, NextEntry, NotOlder, RegistrationEntries, KeycloakEntries
  <2>7. CASE phase = "operator"
    BY <2>7, Zenon DEF StoreInv, OrderInv, Required
  <2>8. CASE phase = "registrationToken"
    BY <2>8, Zenon
  <2>9. CASE phase \in RegistrationEntries
    <3>1. CASE phase = "registrationClient"
      BY <3>1, Zenon DEF StoreInv, Required
    <3>2. CASE phase = "redirectUri"
      BY <3>2, ZenonT(60) DEF StoreInv, Required
    <3>3. CASE phase = "lifespan"
      BY <3>3, Zenon
    <3> QED BY <2>9, <3>1, <3>2, <3>3, Zenon
  <2>10. CASE phase \in {"allowUnverified", "mergePolicy", "auditPath", "timeout"}
    BY <2>10, ZenonT(60)
  <2>11. CASE phase \in KeycloakEntries
    <3>1. CASE phase = "serverUrl"
      BY <3>1, ZenonT(60) DEF StoreInv, Required
    <3>2. CASE phase = "realm"
      BY <3>2, ZenonT(60) DEF StoreInv, Required
    <3>3. CASE phase = "clientId"
      BY <3>3, ZenonT(60) DEF StoreInv, Required
    <3>4. CASE phase = "clientSecret"
      BY <3>4, ZenonT(60) DEF StoreInv, Required
    <3> QED BY <2>11, <3>1, <3>2, <3>3, <3>4, Zenon
  <2> QED BY <2>7, <2>8, <2>9, <2>10, <2>11, Zenon DEF Entries, FixedEntries
<1> QED BY <1>3, <1>4, Zenon

(***************************************************************************)
(* Every other step of the service keeps what has been read.               *)
(***************************************************************************)
LEMMA ServiceReadInv ==
  ASSUME ReadInv,
         \/ Start \/ Build \/ BuildFails \/ Stop
         \/ Close \/ Remove \/ Exit
  PROVE  ReadInv'
<1> USE DEF Goes, Fails, ReadInv, NotOlder, seeder, AfterSecret, AfterClientId, AfterRealm,
            AfterUrl, AfterLifespan, AfterRedirect, AfterRegistrationClient, AfterToken,
            AfterOperator
<1>0. Unread \in [Entries -> Values] /\ ByNone \in [Entries -> Nat]
  BY SMT DEF Unread, ByNone, Values
<1>1. CASE Start
  BY <1>0, <1>1, Zenon DEF Start
<1>2. CASE Build
  <2>1. /\ phase \in {"directory", "audit", "wire"} /\ phase' \in {"audit", "wire", "up"}
        /\ ready' = ready \/ (ready' = TRUE /\ phase' = "up")
        /\ read' = read /\ readBy' = readBy /\ putBy' = putBy
    BY <1>2, Zenon DEF Build
  <2>2. ready' \in BOOLEAN /\ (ready' => phase' = "up")
    <3>1. ready = FALSE
      BY <2>1, Zenon
    <3> QED BY <2>1, <3>1, Zenon
  <2>3. /\ phase' \in AfterSecret /\ phase \in AfterSecret
        /\ AfterSecret \subseteq AfterOperator
    BY <2>1, Zenon
  <2> QED BY <2>1, <2>2, <2>3, Zenon
<1>3. CASE BuildFails
  BY <1>0, <1>3, Zenon DEF BuildFails
<1>4. CASE Stop
  BY <1>0, <1>4, Zenon DEF Stop
<1>5. CASE Close
  BY <1>5, Zenon DEF Close
<1>6. CASE Remove
  BY <1>6, Zenon DEF Remove
<1>7. CASE Exit
  BY <1>0, <1>7, Zenon DEF Exit
<1> QED BY <1>1, <1>2, <1>3, <1>4, <1>5, <1>6, <1>7, Zenon

(***************************************************************************)
(* Every step of the service accounts for the temporary lock database.     *)
(***************************************************************************)
LEMMA ServiceTempInv ==
  ASSUME ReadInv, TempInv,
         \/ Start \/ ReadEntry \/ Build \/ BuildFails
         \/ Stop \/ Close \/ Remove \/ Exit
  PROVE  TempInv'
<1> USE DEF Goes, TempInv, Held
<1>1. ASSUME spoilt' = spoilt + 1, tempFiles' = tempFiles, tempKnown' \in BOOLEAN,
             phase' \in {"failed", "down"}
      PROVE  TempInv'
  BY <1>1, SMT
<1>2. CASE Start
  <2>1. CASE phase' = "failed"
    BY <1>1, <1>2, <2>1, Zenon DEF Start
  <2>2. CASE phase' = "operator"
    <3>1. /\ phase = "down" /\ spoilt' = spoilt /\ tempFiles' = tempFiles
          /\ tempKnown' = FALSE
      BY <1>2, <2>2, Zenon DEF Start
    <3>2. Held = 0 /\ Held' = 0
      BY <2>2, <3>1, Zenon
    <3> QED BY <2>2, <3>1, <3>2, Zenon
  <2> QED BY <1>2, <2>1, <2>2, Zenon DEF Start
<1>3. CASE ReadEntry
  <2>1. CASE Accepts(phase, kv[phase])
    <3>1. phase \in Entries /\ phase' \in Entries \cup {"directory"}
      BY <1>3, <2>1, Zenon DEF ReadEntry, NextEntry, Entries, KeycloakEntries,
         RegistrationEntries, FixedEntries
    <3>2. Entries \cap {"wire", "up", "closing"} = {}
      BY Zenon DEF Entries, KeycloakEntries, RegistrationEntries, FixedEntries
    <3>3. UNCHANGED <<spoilt, tempFiles, tempKnown>>
      BY <1>3, <2>1, Zenon DEF ReadEntry
    <3>4. Held = 0 /\ Held' = 0 /\ phase' # "up"
      BY <3>1, <3>2, Zenon
    <3> QED BY <3>3, <3>4, Zenon
  <2>2. CASE ~Accepts(phase, kv[phase])
    BY <1>1, <1>3, <2>2, Zenon DEF ReadEntry, Fails
  <2> QED BY <2>1, <2>2, Zenon
<1>4. CASE Build
  <2>0. spoilt' = spoilt /\ Memory' = Memory
    BY <1>4, Zenon DEF Build, Memory
  <2>1. CASE phase = "directory"
    BY <1>4, <2>0, <2>1, Zenon DEF Build
  <2>2. CASE phase = "audit"
    BY <1>4, <2>0, <2>2, SMT DEF Build
  <2>3. CASE phase = "wire"
    <3>1. tempKnown' = Memory /\ tempFiles' = tempFiles /\ phase' = "up"
      BY <1>4, <2>3, Zenon DEF Build
    <3>2. Memory \in BOOLEAN
      BY Zenon DEF Memory
    <3> QED BY <2>0, <2>3, <3>1, <3>2, Zenon
  <2> QED BY <1>4, <2>1, <2>2, <2>3, Zenon DEF Build
<1>5. CASE BuildFails
  BY <1>1, <1>5, Zenon DEF BuildFails, Fails
<1>6. CASE Stop
  <2>1. phase = "up" /\ phase' = "closing" /\ UNCHANGED <<spoilt, tempFiles, tempKnown>>
    BY <1>6, Zenon DEF Stop
  <2>2. Held' = Held
    BY <2>1, Zenon
  <2> QED BY <2>1, <2>2, Zenon
<1>7. CASE Close
  <2>1. phase = "closing" /\ tempFiles' = tempFiles /\ tempKnown' = tempKnown
    BY <1>7, Zenon DEF Close
  <2>2. CASE phase' = "failed"
    BY <1>1, <1>7, <2>1, <2>2, Zenon DEF Close
  <2>3. CASE phase' # "failed"
    <3>1. phase' = phase /\ spoilt' = spoilt
      BY <1>7, <2>3, Zenon DEF Close
    <3> QED BY <2>1, <3>1, Zenon
  <2> QED BY <2>2, <2>3, Zenon
<1>8. CASE Remove
  <2>1. /\ phase = "closing" /\ phase' = "down" /\ spoilt' = spoilt /\ tempKnown' = FALSE
        /\ tempFiles' = IF tempKnown THEN tempFiles - 1 ELSE tempFiles
    BY <1>8, Zenon DEF Remove
  <2>2. CASE tempKnown
    <3>1. Held = 1 /\ Held' = 0
      BY <2>1, <2>2, Zenon
    <3>2. tempFiles' \in Nat /\ 0 <= tempFiles' /\ tempFiles' <= spoilt + 0
      BY <2>1, <2>2, <3>1
    <3> QED BY <2>1, <3>1, <3>2, Zenon
  <2>3. CASE ~tempKnown
    BY <2>1, <2>3, Zenon
  <2> QED BY <2>2, <2>3, Zenon
<1>9. CASE Exit
  <2>1. CASE phase = "failed"
    <3>1. /\ spoilt' = spoilt /\ tempFiles' = tempFiles /\ tempKnown' = FALSE
          /\ phase' = "down"
      BY <1>9, <2>1, Zenon DEF Exit
    <3> QED BY <2>1, <3>1, Zenon
  <2>2. CASE phase # "failed"
    BY <1>1, <1>9, <2>2, Zenon DEF Exit
  <2> QED BY <2>1, <2>2, Zenon
<1> QED BY <1>2, <1>3, <1>4, <1>5, <1>6, <1>7, <1>8, <1>9, Zenon

(***************************************************************************)
(* No step of the service writes the configuration store.                  *)
(***************************************************************************)
LEMMA UnchangedStore ==
  ASSUME StoreInv, OrderInv, UNCHANGED <<kv, seeder>>
  PROVE  StoreInv' /\ OrderInv'
<1>1. /\ kv' = kv /\ args' = args /\ todo' = todo /\ seeds' = seeds /\ putBy' = putBy
  BY Zenon DEF seeder
<1>2. \A e : PutFirst(e)' <=> PutFirst(e)
  BY <1>1, Zenon DEF PutFirst
<1>3. StoreInv'
  BY <1>1, Zenon DEF StoreInv
<1>4. OrderInv'
  BY <1>1, <1>2, Zenon DEF OrderInv
<1> QED BY <1>3, <1>4, Zenon

(***************************************************************************)
(* The invariant holds initially and through every step of the seeding     *)
(* tool and of the service.                                                *)
(***************************************************************************)
THEOREM LifeInvariance == LifeSpec => []LifeInv
<1>1. ASSUME LifeInit PROVE LifeInv
  <2>1. kv \in [Entries -> Values] /\ kv["operator"] \in Tokens \cup {Unset}
        /\ (\A e \in {"registrationClient", "redirectUri"} : kv[e] \in {Unset, "good", "bad"})
        /\ (\A e \in KeycloakEntries : kv[e] \in {Unset, "good"})
    <3>1. CASE kv = Unread
      BY <3>1, SMT DEF Unread, Entries, KeycloakEntries, RegistrationEntries, Values
    <3>2. CASE kv # Unread
      <4>1. PICK g \in Tokens, flaw \in PlatformFlaws : kv = PlatformStore(g, flaw)
        BY <1>1, <3>2, SMT DEF LifeInit
      <4>2. flaw \in {"allowUnverified", "mergePolicy", "timeout"}
        BY StartupAssumption, Zenon DEF FixedEntries
      <4> QED
        BY <4>1, <4>2, SMTT(30) DEF PlatformStore, Entries, KeycloakEntries,
           RegistrationEntries, FixedEntries, Values
    <3> QED BY <3>1, <3>2, Zenon
  <2>2. StoreInv
    BY <1>1, <2>1, SMT DEF LifeInit, StoreInv
  <2>3. OrderInv
    BY <1>1, SMT DEF LifeInit, OrderInv, ByNone, Entries
  <2>4. Unread \in [Entries -> Values] /\ ByNone \in [Entries -> Nat]
    BY SMT DEF Unread, ByNone, Values
  <2>5. ReadInv
    BY <1>1, <2>4, Zenon DEF LifeInit, ReadInv, AfterSecret, AfterClientId, AfterRealm,
       AfterUrl, AfterLifespan, AfterRedirect, AfterRegistrationClient, AfterToken,
       AfterOperator
  <2>6. TempInv
    <3>1. Held = 0
      BY <1>1, Zenon DEF LifeInit, Held
    <3>2. 0 \in Nat /\ 0 <= 0 /\ 0 <= 0 + 0
      OBVIOUS
    <3> QED BY <1>1, <3>1, <3>2, Zenon DEF LifeInit, TempInv
  <2> QED BY <2>2, <2>3, <2>5, <2>6, Zenon DEF LifeInv
<1>2. ASSUME LifeInv, [LifeNext]_lifeVars PROVE LifeInv'
  <2>1. CASE SeedStart \/ SeedPut \/ SeedEnd \/ SeedDies
    <3>1. UNCHANGED service
      BY <2>1, Zenon DEF SeedStart, SeedPut, SeedEnd, SeedDies
    <3>2. StoreInv' /\ OrderInv' /\ \A e \in Entries : putBy[e] <= putBy'[e]
      BY <1>2, <2>1, SeederInv, SeederOrder, Zenon DEF LifeInv
    <3>3. ASSUME phase \in AfterOperator
          PROVE  \A e \in KeycloakEntries : readBy["operator"] <= putBy'[e]
      <4>1. "operator" \in Entries /\ KeycloakEntries \subseteq Entries
        BY Zenon DEF Entries
      <4>2. \A e \in KeycloakEntries :
              /\ readBy["operator"] \in Nat /\ putBy[e] \in Nat /\ putBy'[e] \in Nat
              /\ readBy["operator"] <= putBy[e] /\ putBy[e] <= putBy'[e]
        BY <1>2, <3>2, <3>3, <4>1, Zenon DEF LifeInv, ReadInv, OrderInv
      <4> QED BY <4>2, SMT
    <3>4. ReadInv'
      <4>1. phase' = phase /\ read' = read /\ readBy' = readBy /\ ready' = ready
        BY <3>1, Zenon DEF service
      <4>2. \A e : NotOlder(e)' <=> NotOlder(e)
        BY <4>1, Zenon DEF NotOlder
      <4> QED BY <1>2, <3>3, <4>1, <4>2, ZenonT(60) DEF LifeInv, ReadInv
    <3>5. TempInv'
      BY <1>2, <3>1, Zenon DEF service, LifeInv, TempInv, Held, Memory
    <3> QED BY <3>2, <3>4, <3>5, Zenon DEF LifeInv
  <2>2. CASE \/ Start \/ ReadEntry \/ Build \/ BuildFails
             \/ Stop \/ Close \/ Remove \/ Exit
    <3>1. UNCHANGED <<kv, seeder>>
      BY <2>2, Zenon DEF Start, ReadEntry, Build, BuildFails,
         Stop, Close, Remove, Exit
    <3>2. StoreInv' /\ OrderInv'
      BY <1>2, <3>1, UnchangedStore, Zenon DEF LifeInv
    <3> QED BY <1>2, <2>2, <3>2, ReadEntryInv, ServiceReadInv, ServiceTempInv, Zenon DEF LifeInv
  <2>3. CASE UNCHANGED lifeVars
    <3>1. UNCHANGED <<kv, seeder>> /\ UNCHANGED service
      BY <2>3, Zenon DEF lifeVars
    <3>2. StoreInv' /\ OrderInv'
      BY <1>2, <3>1, UnchangedStore, Zenon DEF LifeInv
    <3>3. putBy' = putBy /\ phase' = phase /\ read' = read /\ readBy' = readBy /\ ready' = ready
      BY <3>1, Zenon DEF seeder, service
    <3>4. \A e : NotOlder(e)' <=> NotOlder(e)
      BY <3>3, Zenon DEF NotOlder
    <3>5. ReadInv'
      BY <1>2, <3>3, <3>4, ZenonT(60) DEF LifeInv, ReadInv
    <3>6. TempInv'
      BY <1>2, <3>1, Zenon DEF service, LifeInv, TempInv, Held, Memory
    <3> QED BY <3>2, <3>5, <3>6, Zenon DEF LifeInv
  <2> QED BY <1>2, <2>1, <2>2, <2>3, Zenon DEF LifeNext
<1> QED BY <1>1, <1>2, PTL DEF LifeSpec

(***************************************************************************)
(* A service that reports ready has read a configuration that hangs        *)
(* together, however the seeding tool wrote or died meanwhile, with        *)
(* Keycloak settings no older than its operator token.                     *)
(***************************************************************************)
THEOREM ReadyServicesAreWhole == LifeSpec => []ReadyIsWhole
<1>1. ASSUME LifeInv PROVE ReadyIsWhole
  <2> SUFFICES ASSUME ready PROVE ReadyIsWhole
    BY Zenon DEF ReadyIsWhole
  <2> USE DEF AfterSecret, AfterClientId, AfterRealm, AfterUrl, AfterLifespan, AfterRedirect,
              AfterRegistrationClient, AfterToken, AfterOperator
  <2>1. \A e \in KeycloakEntries : NotOlder(e)
    BY <1>1, Zenon DEF LifeInv, ReadInv, KeycloakEntries
  <2>2. \A e \in KeycloakEntries : readBy[e] >= readBy["operator"]
    <3>1. "operator" \in Entries /\ KeycloakEntries \subseteq Entries
      BY Zenon DEF Entries
    <3>2. \A e \in KeycloakEntries :
            readBy[e] \in Nat /\ readBy["operator"] \in Nat /\ readBy["operator"] <= readBy[e]
      BY <1>1, <2>1, <3>1, Zenon DEF LifeInv, ReadInv, NotOlder
    <3> QED BY <3>2, SMT
  <2> QED BY <1>1, <2>1, <2>2, Zenon DEF LifeInv, ReadInv, NotOlder, ReadyIsWhole
<1> QED BY LifeInvariance, <1>1, PTL

(***************************************************************************)
(* lifespan removes the temporary lock database it made; each start that   *)
(* failed, did not close or was killed leaves one at most.                 *)
(***************************************************************************)
THEOREM NothingLeftOver == LifeSpec => []NoLeftover
<1>1. LifeInv => NoLeftover
  BY DEF LifeInv, TempInv, Held, NoLeftover
<1> QED BY LifeInvariance, <1>1, PTL

-----------------------------------------------------------------------------
(* The merge verdict *)

(***************************************************************************)
(* The two accounts a merge is asked for are accounts: an e-mail or none,  *)
(* a verified flag and the external links.                                 *)
(***************************************************************************)
AccountsFit == survivor \in Accounts /\ duplicate \in Accounts

(***************************************************************************)
(* _normalize_email returns an address or nothing, and the address that    *)
(* was typed whenever one was: no address is mistaken for the absence of   *)
(* an e-mail.                                                              *)
(***************************************************************************)
LEMMA NormalizedAddress ==
  ASSUME NEW e \in RawEmails
  PROVE  /\ NormalizeEmail(e) \in Addresses \cup {NoEmail}
         /\ e # NoEmail /\ e.address # Blank =>
              NormalizeEmail(e) = e.address /\ e.address # NoEmail
<1>1. CASE e = NoEmail
  BY <1>1, Zenon DEF NormalizeEmail
<1>2. CASE e # NoEmail
  <2>1. e \in Spelt
    BY <1>2, Zenon DEF RawEmails
  <2>2. e.address \in Addresses \cup {Blank}
    BY <2>1 DEF Spelt
  <2>3. NoEmail \notin Addresses
    BY InputsAssumption, Zenon DEF MergeInputs
  <2> QED BY <1>2, <2>2, <2>3, Zenon DEF NormalizeEmail
<1> QED BY <1>1, <1>2, Zenon

(***************************************************************************)
(* The verdict reads an account only through its normalized address, its   *)
(* verified flag and its links.                                            *)
(***************************************************************************)
LEMMA SameInputs ==
  ASSUME NEW u, NEW v, NEW w, NEW l,
         NormalizeEmail(u.email) = NormalizeEmail(w.email),
         u.verified = w.verified, u.links = w.links
  PROVE  MergeVerdict(u, v, l) = MergeVerdict(w, v, l)
<1>1. HaveMatchingVerifiedEmail(u, v) <=> HaveMatchingVerifiedEmail(w, v)
  BY Zenon DEF HaveMatchingVerifiedEmail
<1>2. SharesExactIdpSubject(u, v) <=> SharesExactIdpSubject(w, v)
  BY Zenon DEF SharesExactIdpSubject
<1>3. DecideMatch(u, v, l) = DecideMatch(w, v, l)
  BY <1>1, <1>2, Zenon DEF DecideMatch
<1>4. SharesUnverifiedEmail(u, v) <=> SharesUnverifiedEmail(w, v)
  BY <1>1, Zenon DEF SharesUnverifiedEmail
<1> QED BY <1>3, <1>4, Zenon DEF MergeVerdict

(***************************************************************************)
(* decide_match and the unverified-email rule treat the two accounts       *)
(* alike.                                                                  *)
(***************************************************************************)
LEMMA Exchanged ==
  ASSUME NEW u, NEW v, NEW l
  PROVE  MergeVerdict(u, v, l) = MergeVerdict(v, u, l)
<1>1. HaveMatchingVerifiedEmail(u, v) <=> HaveMatchingVerifiedEmail(v, u)
  BY Zenon DEF HaveMatchingVerifiedEmail
<1>2. SharesExactIdpSubject(u, v) <=> SharesExactIdpSubject(v, u)
  <2>1. u.links \cap v.links = v.links \cap u.links
    BY Zenon
  <2> QED BY <2>1, Zenon DEF SharesExactIdpSubject
<1>3. DecideMatch(u, v, l) = DecideMatch(v, u, l)
  BY <1>1, <1>2, Zenon DEF DecideMatch
<1>4. SharesUnverifiedEmail(u, v) <=> SharesUnverifiedEmail(v, u)
  BY <1>1, Zenon DEF SharesUnverifiedEmail
<1> QED BY <1>3, <1>4, Zenon DEF MergeVerdict

(***************************************************************************)
(* An account whose address is written in other case or with blanks around *)
(* it is still an account, with the same normalized address, flag and      *)
(* links.                                                                  *)
(***************************************************************************)
LEMMA RespeltFit ==
  ASSUME AccountsFit, Respell
  PROVE  /\ survivor' \in Accounts
         /\ survivor'.verified = survivor.verified /\ survivor'.links = survivor.links
         /\ NormalizeEmail(survivor'.email) = NormalizeEmail(survivor.email)
<1>1. PICK p \in Spellings : survivor' = [survivor EXCEPT !.email.spelling = p]
  BY Zenon DEF Respell
<1>2. /\ survivor \in [email: RawEmails, verified: BOOLEAN, links: SUBSET Links]
      /\ survivor.email # NoEmail
      /\ survivor.email \in Spelt
  <2>1. survivor \in [email: RawEmails, verified: BOOLEAN, links: SUBSET Links]
    BY Zenon DEF AccountsFit, Accounts
  <2>2. survivor.email \in RawEmails /\ survivor.email # NoEmail
    <3>1. survivor.email \in RawEmails
      BY <2>1
    <3> QED BY <3>1, Zenon DEF Respell
  <2> QED BY <2>1, <2>2, Zenon DEF RawEmails
<1> DEFINE e == [survivor.email EXCEPT !.spelling = p]
<1>3. e \in Spelt /\ e.address = survivor.email.address
  BY <1>2 DEF Spelt
<1>4. e # NoEmail /\ e \in RawEmails
  <2>1. e \in RawEmails
    BY <1>3, Zenon DEF RawEmails
  <2>2. NoEmail \notin Spelt
    BY InputsAssumption, Zenon DEF MergeInputs
  <2> QED BY <1>3, <2>1, <2>2, Zenon
<1>5. survivor' = [survivor EXCEPT !.email = e]
  BY <1>1, <1>2
<1> HIDE DEF e
<1>6. /\ survivor' \in [email: RawEmails, verified: BOOLEAN, links: SUBSET Links]
      /\ survivor'.email = e
      /\ survivor'.verified = survivor.verified /\ survivor'.links = survivor.links
  BY <1>2, <1>4, <1>5
<1>7. NormalizeEmail(e) = NormalizeEmail(survivor.email)
  BY <1>2, <1>3, <1>4, Zenon DEF NormalizeEmail
<1> QED BY <1>6, <1>7, Zenon DEF Accounts

(***************************************************************************)
(* Every step leaves two accounts to decide on.                            *)
(***************************************************************************)
LEMMA AccountsStep ==
  ASSUME AccountsFit, [DecisionNext]_decisionVars
  PROVE  AccountsFit'
<1>1. UNCHANGED <<survivor, duplicate>> \/ Exchange \/ Respell
  BY Zenon DEF DecisionNext, decisionVars, mergeVars
<1>2. CASE Exchange
  BY <1>2, Zenon DEF Exchange, AccountsFit
<1>3. CASE Respell
  BY <1>3, RespeltFit, Zenon DEF Respell, AccountsFit
<1> QED BY <1>1, <1>2, <1>3, Zenon DEF AccountsFit

(***************************************************************************)
(* The verdict is only ever asked of accounts, whatever is exchanged or    *)
(* respelled; the absence of an e-mail is assumed to be no e-mail.         *)
(***************************************************************************)
THEOREM AccountsInvariance == DecisionSpec => []AccountsFit
<1>1. DecisionInit => AccountsFit
  <2>1. Nobody \in Accounts
    <3>1. NoEmail \in RawEmails
      BY Zenon DEF RawEmails
    <3> QED BY <3>1 DEF Nobody, Accounts
  <2> QED BY <2>1, Zenon DEF DecisionInit, NoMerge, AccountsFit
<1>2. AccountsFit /\ [DecisionNext]_decisionVars => AccountsFit'
  BY AccountsStep, Zenon
<1> QED BY <1>1, <1>2, PTL DEF DecisionSpec

(***************************************************************************)
(* For any addresses, spellings and links: service.py never merges two     *)
(* accounts on an address that one of them has not verified, even with     *)
(* explicit_link; two such accounts merge only over a link in common.      *)
(***************************************************************************)
THEOREM NeverMergedOnUnverifiedEmail == DecisionSpec => []NeverOnUnverifiedEmail
<1>1. ASSUME AccountsFit PROVE NeverOnUnverifiedEmail
  <2> SUFFICES ASSUME Verdict = "merge",
                      survivor.email # NoEmail, duplicate.email # NoEmail,
                      survivor.email.address = duplicate.email.address,
                      survivor.email.address # Blank,
                      ~(survivor.verified /\ duplicate.verified)
               PROVE  \E link \in Links : link \in survivor.links /\ link \in duplicate.links
    BY Zenon DEF NeverOnUnverifiedEmail
  <2>1. /\ survivor.email \in RawEmails /\ duplicate.email \in RawEmails
        /\ survivor.links \in SUBSET Links
    BY <1>1 DEF AccountsFit, Accounts
  <2>2. /\ NormalizeEmail(survivor.email) = NormalizeEmail(duplicate.email)
        /\ NormalizeEmail(survivor.email) # NoEmail
    BY <2>1, NormalizedAddress, Zenon
  <2>3. /\ SharesUnverifiedEmail(survivor, duplicate)
        /\ ~HaveMatchingVerifiedEmail(survivor, duplicate)
    BY <2>2, Zenon DEF SharesUnverifiedEmail, HaveMatchingVerifiedEmail
  <2>4. SharesExactIdpSubject(survivor, duplicate)
    BY <2>3, Zenon DEF Verdict, MergeVerdict, DecideMatch, StrongTies
  <2> QED BY <2>1, <2>4, Zenon DEF SharesExactIdpSubject
<1> QED BY <1>1, AccountsInvariance, PTL

(***************************************************************************)
(* For any addresses, spellings and links: the verdict of service.py does  *)
(* not depend on which account is the survivor, nor on the case and the    *)
(* blanks of an address.                                                   *)
(***************************************************************************)
THEOREM VerdictIsStable == DecisionSpec => VerdictStable
<1>1. ASSUME AccountsFit, [DecisionNext]_decisionVars
      PROVE  [decision = "merge" => Verdict' = Verdict]_decisionVars
  <2>1. CASE UNCHANGED decisionVars
    BY <2>1, Zenon
  <2>2. ASSUME DecisionNext, decision = "merge" PROVE Verdict' = Verdict
    <3>1. Exchange \/ Respell
      BY <2>2, Zenon DEF DecisionNext
    <3>2. CASE Exchange
      BY <3>2, Exchanged, Zenon DEF Exchange, Verdict
    <3>3. CASE Respell
      <4>1. UNCHANGED <<duplicate, explicitLink>>
        BY <3>3, Zenon DEF Respell
      <4>2. /\ survivor'.verified = survivor.verified /\ survivor'.links = survivor.links
            /\ NormalizeEmail(survivor'.email) = NormalizeEmail(survivor.email)
        BY <1>1, <3>3, RespeltFit, Zenon
      <4>3. MergeVerdict(survivor', duplicate, explicitLink) =
              MergeVerdict(survivor, duplicate, explicitLink)
        BY <4>2, SameInputs
      <4> QED BY <4>1, <4>3, Zenon DEF Verdict
    <3> QED BY <3>1, <3>2, <3>3, Zenon
  <2> QED BY <1>1, <2>1, <2>2, Zenon
<1> QED BY <1>1, AccountsInvariance, PTL DEF DecisionSpec, VerdictStable

-----------------------------------------------------------------------------
(* The walk of a realm export *)

(***************************************************************************)
(* The aliases that the active calls of _all_authenticators have still to  *)
(* visit.                                                                  *)
(***************************************************************************)
Waiting(c) == UNION {Flows!Range(c[i]) : i \in 1 .. Len(c)}

(***************************************************************************)
(* Taking the next alias of the innermost call removes one occurrence of   *)
(* it from what waits, and nothing else.                                   *)
(***************************************************************************)
LEMMA SkipOne ==
  ASSUME NEW c \in Seq(Seq(Aliases)), c # <<>>, c[Len(c)] # <<>>,
         NEW k, k = [c EXCEPT ![Len(c)] = Tail(@)]
  PROVE  /\ k \in Seq(Seq(Aliases))
         /\ Head(c[Len(c)]) \in Aliases
         /\ Waiting(c) = {Head(c[Len(c)])} \cup Waiting(k)
<1> DEFINE l == c[Len(c)]
<1>1. Len(c) \in 1 .. Len(c) /\ l \in Seq(Aliases) /\ l # <<>>
  OBVIOUS
<1> HIDE DEF l
<1>2. Tail(l) \in Seq(Aliases) /\ Head(l) \in Aliases
  BY <1>1
<1>3. k = [c EXCEPT ![Len(c)] = Tail(l)]
  BY DEF l
<1>4. /\ k \in Seq(Seq(Aliases)) /\ Len(k) = Len(c)
      /\ k[Len(c)] = Tail(l)
      /\ \A i \in 1 .. Len(c) : i # Len(c) => k[i] = c[i]
  BY <1>1, <1>2, <1>3, SMTT(30)
<1>5. Flows!Range(l) = {Head(l)} \cup Flows!Range(Tail(l))
  <2>1. ASSUME NEW i \in 1 .. Len(l) PROVE l[i] \in {Head(l)} \cup Flows!Range(Tail(l))
    <3>1. CASE i = 1
      BY <1>1, <3>1
    <3>2. CASE i # 1
      <4>1. i - 1 \in DOMAIN Tail(l) /\ Tail(l)[i - 1] = l[i]
        BY <1>1, <3>2
      <4> QED BY <4>1, Zenon DEF Flows!Range
    <3> QED BY <3>1, <3>2
  <2>2. ASSUME NEW i \in DOMAIN Tail(l) PROVE Tail(l)[i] \in Flows!Range(l)
    <3>1. i + 1 \in DOMAIN l /\ Tail(l)[i] = l[i + 1]
      BY <1>1
    <3> QED BY <3>1, Zenon DEF Flows!Range
  <2>3. Head(l) \in Flows!Range(l)
    <3>1. 1 \in DOMAIN l /\ Head(l) = l[1]
      BY <1>1
    <3> QED BY <3>1, Zenon DEF Flows!Range
  <2>4. DOMAIN l = 1 .. Len(l)
    BY <1>1
  <2> QED BY <2>1, <2>2, <2>3, <2>4, Zenon DEF Flows!Range
<1>6. Waiting(c) = {Head(l)} \cup Waiting(k)
  BY <1>1, <1>4, <1>5, Zenon DEF Waiting, l
<1> QED BY <1>2, <1>4, <1>6, Zenon DEF l

(***************************************************************************)
(* Descending into a flow (the recursive call of _all_authenticators) adds *)
(* its subflows to what waits.                                             *)
(***************************************************************************)
LEMMA DescendOne ==
  ASSUME NEW c \in Seq(Seq(Aliases)), NEW s \in Seq(Aliases)
  PROVE  /\ Append(c, s) \in Seq(Seq(Aliases))
         /\ Waiting(Append(c, s)) = Waiting(c) \cup Flows!Range(s)
<1>1. /\ Append(c, s) \in Seq(Seq(Aliases))
      /\ Len(Append(c, s)) = Len(c) + 1
      /\ \A i \in 1 .. Len(c) : Append(c, s)[i] = c[i]
      /\ Append(c, s)[Len(c) + 1] = s
      /\ Len(c) \in Nat
  OBVIOUS
<1>2. 1 .. (Len(c) + 1) = (1 .. Len(c)) \cup {Len(c) + 1}
  BY <1>1
<1> QED BY <1>1, <1>2, Zenon DEF Waiting

(***************************************************************************)
(* Returning from a call that has visited all its subflows changes nothing *)
(* of what waits.                                                          *)
(***************************************************************************)
LEMMA ReturnOne ==
  ASSUME NEW c \in Seq(Seq(Aliases)), c # <<>>, c[Len(c)] = <<>>
  PROVE  /\ SubSeq(c, 1, Len(c) - 1) \in Seq(Seq(Aliases))
         /\ Waiting(SubSeq(c, 1, Len(c) - 1)) = Waiting(c)
<1> DEFINE n == Len(c) - 1
           f == SubSeq(c, 1, n)
<1>1. n \in Nat /\ Len(c) = n + 1
  OBVIOUS
<1>2. f \in Seq(Seq(Aliases)) /\ Len(f) = n /\ \A i \in 1 .. n : f[i] = c[i]
  BY <1>1
<1>3. 1 .. Len(c) = (1 .. n) \cup {Len(c)}
  BY <1>1
<1>4. Flows!Range(c[Len(c)]) = {}
  <2>1. DOMAIN c[Len(c)] = {}
    OBVIOUS
  <2> QED BY <2>1, Zenon DEF Flows!Range
<1> HIDE DEF n, f
<1>5. Waiting(f) = Waiting(c)
  BY <1>2, <1>3, <1>4, Zenon DEF Waiting
<1> QED BY <1>2, <1>5, Zenon DEF f, n

(***************************************************************************)
(* The walk of _all_authenticators, half done.  The root and the subflows  *)
(* of every visited flow are visited or wait.  What is visited or waits    *)
(* lies in every set that holds the root and is closed under subflows, so  *)
(* nothing unreachable is ever looked at.  What was found is what the      *)
(* visited flows use.                                                      *)
(***************************************************************************)
WalkInv ==
  /\ realm \in Realms
  /\ visits \in Seq(Seq(Aliases))
  /\ seen \in SUBSET Aliases
  /\ Root \in seen \cup Waiting(visits)
  /\ \A x \in seen : Flows!Follows(realm, x) \subseteq seen \cup Waiting(visits)
  /\ \A t \in SUBSET Aliases :
       Root \in t /\ (\A x \in t : Flows!Follows(realm, x) \subseteq t) =>
         seen \cup Waiting(visits) \subseteq t
  /\ found = UNION {Flows!Executions(realm, x).uses : x \in seen}

(***************************************************************************)
(* The walk starts with the root waiting and nothing visited.              *)
(***************************************************************************)
LEMMA WalkStarts ==
  ASSUME Flows!Init
  PROVE  WalkInv
<1>1. /\ realm \in Realms /\ visits = <<<<Root>>>> /\ seen = {} /\ found = {} /\ Root \in Aliases
  BY InputsAssumption, Zenon DEF Flows!Init, FlowInputs
<1>2. visits \in Seq(Seq(Aliases))
  <2>1. <<Root>> \in Seq(Aliases)
    BY <1>1
  <2>2. \A S : \A x \in S : <<x>> \in Seq(S)
    OBVIOUS
  <2> QED BY <1>1, <2>1, <2>2, Zenon
<1>4. 1 .. Len(visits) = {1} /\ DOMAIN visits[1] = {1} /\ visits[1][1] = Root
  BY <1>1
<1>3. Waiting(visits) = {Root}
  <2>1. Flows!Range(visits[1]) = {Root}
    BY <1>4, Zenon DEF Flows!Range
  <2> QED BY <1>4, <2>1, Zenon DEF Waiting
<1> QED BY <1>1, <1>2, <1>3, Zenon DEF WalkInv

(***************************************************************************)
(* A visit, a skipped alias and a return each preserve the invariant.      *)
(***************************************************************************)
LEMMA WalkSteps ==
  ASSUME \A x \in Aliases : Flows!Executions(realm, x).subflows \in Seq(Aliases),
         WalkInv, Flows!Next
  PROVE  WalkInv'
<1>0. visits \in Seq(Seq(Aliases)) /\ visits # <<>> /\ UNCHANGED realm /\ realm \in Realms
  BY Zenon DEF WalkInv, Flows!Next, Flows!Visit, Flows!Return
<1>1. CASE Flows!Return
  <2>1. visits' \in Seq(Seq(Aliases)) /\ Waiting(visits') = Waiting(visits)
    BY <1>0, <1>1, ReturnOne, Zenon DEF Flows!Return, Flows!Current
  <2> QED BY <1>0, <1>1, <2>1, Zenon DEF WalkInv, Flows!Return
<1>2. CASE Flows!Visit
  <2> DEFINE next == Head(visits[Len(visits)])
             rest == [visits EXCEPT ![Len(visits)] = Tail(@)]
             flow == Flows!Executions(realm, next)
  <2>1. /\ rest \in Seq(Seq(Aliases)) /\ next \in Aliases
        /\ Waiting(visits) = {next} \cup Waiting(rest)
    BY <1>0, <1>2, SkipOne, Zenon DEF Flows!Visit, Flows!Current
  <2>2. \/ next \in seen /\ visits' = rest /\ UNCHANGED <<seen, found>>
        \/ /\ next \notin seen
           /\ seen' = seen \cup {next}
           /\ found' = found \cup flow.uses
           /\ visits' = Append(rest, flow.subflows)
    BY <1>2, Zenon DEF Flows!Visit, Flows!Current, Flows!Skipped
  <2> HIDE DEF next, rest
  <2>3. CASE next \in seen /\ visits' = rest /\ UNCHANGED <<seen, found>>
    <3>1. seen' \cup Waiting(visits') = seen \cup Waiting(visits)
      BY <2>1, <2>3, Zenon
    <3>2. visits' \in Seq(Seq(Aliases)) /\ UNCHANGED <<realm, seen, found>>
      BY <1>0, <2>1, <2>3, Zenon
    <3>3. \A x \in seen' :
            Flows!Follows(realm', x) \subseteq seen' \cup Waiting(visits')
      BY <3>1, <3>2, Zenon DEF WalkInv
    <3>4. ASSUME NEW t \in SUBSET Aliases, Root \in t,
                 \A x \in t : Flows!Follows(realm', x) \subseteq t
          PROVE  seen' \cup Waiting(visits') \subseteq t
      BY <3>1, <3>2, <3>4, Zenon DEF WalkInv
    <3>5. Root \in seen' \cup Waiting(visits')
      BY <3>1, Zenon DEF WalkInv
    <3>6. realm' \in Realms /\ seen' \in SUBSET Aliases
          /\ found' = UNION {Flows!Executions(realm', x).uses : x \in seen'}
      BY <3>2, Zenon DEF WalkInv
    <3> QED BY <3>2, <3>3, <3>4, <3>5, <3>6, Zenon DEF WalkInv
  <2>4. CASE /\ next \notin seen
             /\ seen' = seen \cup {next}
             /\ found' = found \cup flow.uses
             /\ visits' = Append(rest, flow.subflows)
    <3>1. flow.subflows \in Seq(Aliases)
      BY <2>1, Zenon
    <3>2. /\ visits' \in Seq(Seq(Aliases))
          /\ Waiting(visits') = Waiting(rest) \cup Flows!Follows(realm, next)
      BY <2>1, <2>4, <3>1, DescendOne, Zenon DEF Flows!Follows
    <3>3. seen' \cup Waiting(visits') =
            seen \cup Waiting(visits) \cup Flows!Follows(realm, next)
      BY <2>1, <2>4, <3>2, Zenon
    <3>4. \A x \in seen' :
            Flows!Follows(realm', x) \subseteq seen' \cup Waiting(visits')
      BY <1>0, <2>4, <3>3, Zenon DEF WalkInv
    <3>5. ASSUME NEW t \in SUBSET Aliases, Root \in t,
                 \A x \in t : Flows!Follows(realm', x) \subseteq t
          PROVE  seen' \cup Waiting(visits') \subseteq t
      <4>1. seen \cup Waiting(visits) \subseteq t
        BY <1>0, <3>5, Zenon DEF WalkInv
      <4>2. next \in t
        BY <2>1, <4>1, Zenon
      <4>3. Flows!Follows(realm, next) \subseteq t
        BY <1>0, <3>5, <4>2, Zenon
      <4> QED BY <3>3, <4>1, <4>3, Zenon
    <3>6. found' = UNION {Flows!Executions(realm', x).uses : x \in seen'}
      BY <1>0, <2>4, ZenonT(30) DEF WalkInv
    <3>7. seen' \in SUBSET Aliases /\ Root \in seen' \cup Waiting(visits')
      BY <2>1, <2>4, <3>3, Zenon DEF WalkInv
    <3> QED BY <1>0, <3>2, <3>4, <3>5, <3>6, <3>7, Zenon DEF WalkInv
  <2> QED BY <2>2, <2>3, <2>4, Zenon
<1> QED BY <1>1, <1>2, Zenon DEF Flows!Next

(***************************************************************************)
(* Once nothing waits, the visited aliases hold the root, are closed under *)
(* subflows and lie in every such set: they are the reachable ones.        *)
(***************************************************************************)
LEMMA WalkEnds ==
  ASSUME WalkInv
  PROVE  Flows!CollectsReachable
<1> SUFFICES ASSUME visits = <<>>
             PROVE  found = UNION {Flows!Executions(realm, x).uses :
                                     x \in Flows!Reachable(realm)}
  BY Zenon DEF Flows!CollectsReachable
<1> DEFINE Least(s) ==
      /\ Root \in s
      /\ \A x \in s : Flows!Follows(realm, x) \subseteq s
      /\ \A t \in SUBSET s :
           Root \in t /\ (\A x \in t : Flows!Follows(realm, x) \subseteq t) => t = s
<1>1. Waiting(visits) = {}
  <2>1. 1 .. Len(visits) = {}
    OBVIOUS
  <2> QED BY <2>1, Zenon DEF Waiting
<1>2. seen \in SUBSET Aliases /\ Root \in seen
      /\ \A x \in seen : Flows!Follows(realm, x) \subseteq seen
  BY <1>1, Zenon DEF WalkInv
<1>3. ASSUME NEW t \in SUBSET Aliases, Root \in t,
             \A x \in t : Flows!Follows(realm, x) \subseteq t
      PROVE  seen \subseteq t
  BY <1>3, Zenon DEF WalkInv
<1>4. Least(seen)
  BY <1>2, <1>3, Zenon
<1>5. ASSUME NEW s \in SUBSET Aliases, Least(s) PROVE s = seen
  <2>1. seen \in SUBSET s
    BY <1>3, <1>5, Zenon
  <2> QED BY <1>2, <1>5, <2>1, Zenon
<1>6. Flows!Reachable(realm) = CHOOSE s \in SUBSET Aliases : Least(s)
  BY Zenon DEF Flows!Reachable
<1> HIDE DEF Least
<1>7. Flows!Reachable(realm) = seen
  BY <1>2, <1>4, <1>5, <1>6, Zenon
<1> QED BY <1>7, Zenon DEF WalkInv

(***************************************************************************)
(* The walk runs in the behaviours that are about a realm export.          *)
(***************************************************************************)
FlowInv == decision = "flow" => WalkInv

-----------------------------------------------------------------------------
INSTANCE WellFoundedInduction

(***************************************************************************)
(* A set of positions that is not empty has a first one.                   *)
(***************************************************************************)
LEMMA SmallestOf ==
  ASSUME NEW S \in SUBSET Nat, S # {}
  PROVE  \E i \in S : \A j \in S : i <= j
<1>1. \E i \in S : \A j \in S : <<j, i>> \notin OpToRel(<, Nat)
  BY NatLessThanWellFounded, WFMin, Zenon
<1>2. ASSUME NEW i \in S, NEW j \in S, <<j, i>> \notin OpToRel(<, Nat) PROVE i <= j
  BY <1>2 DEF OpToRel
<1> QED BY <1>1, <1>2, Zenon

(***************************************************************************)
(* _executions returns a flow of the export, the first one of that alias,  *)
(* or an empty flow: either way a list of aliases to descend into.         *)
(***************************************************************************)
LEMMA ExecutionsFit ==
  ASSUME NEW r \in Realms, NEW x \in Aliases
  PROVE  Flows!Executions(r, x).subflows \in Seq(Aliases)
<1> DEFINE named == {i \in DOMAIN r : r[i].alias = x}
<1>0. r \in Seq([alias: Aliases, uses: SUBSET Flows!Authenticators,
                subflows: Seq(Aliases)])
  BY InputsAssumption, Zenon DEF FlowInputs
<1>1. CASE named = {}
  <2>1. Flows!Executions(r, x) = [alias |-> x, uses |-> {}, subflows |-> <<>>]
    BY <1>1, Zenon DEF Flows!Executions
  <2> QED BY <2>1
<1>2. CASE named # {}
  <2>1. named \in SUBSET Nat
    BY <1>0
  <2>2. \E i \in named : \A j \in named : i <= j
    BY <1>2, <2>1, SmallestOf, Zenon
  <2>3. \E i \in named : Flows!Executions(r, x) = r[i]
    BY <1>2, <2>2, Zenon DEF Flows!Executions
  <2>4. \E i \in DOMAIN r : Flows!Executions(r, x) = r[i]
    BY <2>3, Zenon
  <2>5. ASSUME NEW i \in DOMAIN r PROVE r[i].subflows \in Seq(Aliases)
    <3>1. r[i] \in [alias: Aliases, uses: SUBSET Flows!Authenticators,
                    subflows: Seq(Aliases)]
      <4>1. \A T : \A q \in Seq(T) : \A k \in DOMAIN q : q[k] \in T
        OBVIOUS
      <4> QED BY <1>0, <4>1, Zenon
    <3> QED BY <3>1
  <2> QED BY <2>4, <2>5, Zenon
<1> QED BY <1>1, <1>2, Zenon

(***************************************************************************)
(* For any export, with cycles, shared, missing and repeated subflows: the *)
(* walk of _all_authenticators ends with exactly the authenticators of the *)
(* flows that the browser flow can reach.                                  *)
(***************************************************************************)
THEOREM WalkCollectsReachable == DecisionSpec => []CollectsReachable
<1>1. DecisionInit => FlowInv
  BY WalkStarts, Zenon DEF DecisionInit, FlowInv
<1>2. ASSUME FlowInv, [DecisionNext]_decisionVars PROVE FlowInv'
  <2>1. \/ UNCHANGED <<decision, realm, visits, seen, found>>
        \/ UNCHANGED decision /\ decision = "flow" /\ Flows!Next
    BY <1>2, Zenon DEF DecisionNext, decisionVars, flowVars
  <2>2. UNCHANGED <<decision, realm, visits, seen, found>> => FlowInv'
    BY <1>2, Zenon DEF FlowInv, WalkInv
  <2>3. WalkInv => \A x \in Aliases :
          Flows!Executions(realm, x).subflows \in Seq(Aliases)
    BY ExecutionsFit, Zenon DEF WalkInv
  <2> QED BY <1>2, <2>1, <2>2, <2>3, WalkSteps, Zenon DEF FlowInv
<1>3. FlowInv => CollectsReachable
  BY WalkEnds, Zenon DEF FlowInv, CollectsReachable
<1> QED BY <1>1, <1>2, <1>3, PTL DEF DecisionSpec
=============================================================================
