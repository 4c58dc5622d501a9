----------------------------- MODULE TokenCache -----------------------------
(***************************************************************************)
(* The service-account token shared by the threads that call Keycloak      *)
(* (_authenticate and _auth_header of app/keycloak_client.py,              *)
(* _send_with_reauth of app/product_keycloak_client.py): cached in one     *)
(* attribute without a lock, fetched when there is none, dropped on 401,   *)
(* after which the request is sent once more.                              *)
(***************************************************************************)
EXTENDS Naturals, FiniteSets

CONSTANTS
  Workers,     \* threads
  None,
  MaxTokens,   \* bound on tokens issued
  MaxCalls,    \* bound on calls
  MaxExpiries, \* bound on expiries
  MaxLost      \* bound on requests whose answer is lost, and failed fetches

ASSUME ConstantsAssumption ==
  /\ None \notin Nat
  /\ {MaxTokens, MaxCalls, MaxExpiries, MaxLost} \subseteq Nat

VARIABLES
  token,    \* self._token
  valid,    \* Keycloak: the tokens it accepts
  issued,   \* tokens issued so far
  pc,
  bearer,   \* per worker: the token it was given or is about to send
  tries,    \* per worker: requests sent by the current call, 2 for more
  effects,  \* per worker: times the current call took effect in Keycloak
  answer,   \* per worker: how its last call ended
  calls, expiries, lost

bounds == <<calls, expiries, lost>>

vars == <<token, valid, issued, pc, bearer, tries, effects, answer, bounds>>

Init ==
  /\ token = None
  /\ valid = {}
  /\ issued = 0
  /\ pc = [w \in Workers |-> "idle"]
  /\ bearer = [w \in Workers |-> None]
  /\ tries = [w \in Workers |-> 0]
  /\ effects = [w \in Workers |-> 0]
  /\ answer = [w \in Workers |-> "none"]
  /\ calls = 0
  /\ expiries = 0
  /\ lost = 0

Goto(w, step) == pc' = [pc EXCEPT ![w] = step]

Return(w, a) == answer' = [answer EXCEPT ![w] = a] /\ Goto(w, "idle")

Call(w) ==
  /\ pc[w] = "idle"
  /\ calls < MaxCalls
  /\ calls' = calls + 1
  /\ tries' = [tries EXCEPT ![w] = 0]
  /\ effects' = [effects EXCEPT ![w] = 0]
  /\ answer' = [answer EXCEPT ![w] = "none"]
  /\ Goto(w, "header")
  /\ UNCHANGED <<token, valid, issued, bearer, expiries, lost>>

(***************************************************************************)
(* _auth_header: self._token or self._authenticate().                      *)
(***************************************************************************)
AuthHeader(w) ==
  /\ pc[w] = "header"
  /\ \/ /\ token # None
        /\ bearer' = [bearer EXCEPT ![w] = token]
        /\ Goto(w, "send")
     \/ /\ token = None
        /\ Goto(w, "fetch")
        /\ UNCHANGED bearer
  /\ UNCHANGED <<token, valid, issued, tries, effects, answer, bounds>>

(***************************************************************************)
(* _authenticate: the token endpoint answers, the answer is assigned to    *)
(* the attribute, and the attribute is read again for the return value.    *)
(***************************************************************************)
Fetch(w) ==
  /\ pc[w] = "fetch"
  /\ issued < MaxTokens
  /\ issued' = issued + 1
  /\ valid' = valid \cup {issued + 1}
  /\ bearer' = [bearer EXCEPT ![w] = issued + 1]
  /\ Goto(w, "assign")
  /\ UNCHANGED <<token, tries, effects, answer, bounds>>

Assign(w) ==
  /\ pc[w] = "assign"
  /\ token' = bearer[w]
  /\ Goto(w, "reread")
  /\ UNCHANGED <<valid, issued, bearer, tries, effects, answer, bounds>>

Reread(w) ==
  /\ pc[w] = "reread"
  /\ bearer' = [bearer EXCEPT ![w] = token]
  /\ Goto(w, "send")
  /\ UNCHANGED <<token, valid, issued, tries, effects, answer, bounds>>

(***************************************************************************)
(* One request: Keycloak carries it out, or answers 401.                   *)
(***************************************************************************)
Send(w) ==
  /\ pc[w] = "send"
  /\ tries' = [tries EXCEPT ![w] = IF @ = 0 THEN 1 ELSE 2]
  /\ \/ /\ bearer[w] \in valid
        /\ effects' = [effects EXCEPT ![w] = @ + 1]
        /\ Return(w, "ok")
     \/ /\ bearer[w] \notin valid
        /\ Goto(w, "refused")
        /\ UNCHANGED <<effects, answer>>
  /\ UNCHANGED <<token, valid, issued, bearer, bounds>>

\* Seeded fault: the retry is sent with the token at hand.
RefusedKeepingToken(w) ==
  /\ pc[w] = "refused"
  /\ \/ tries[w] = 1 /\ Goto(w, "header") /\ UNCHANGED answer
     \/ tries[w] > 1 /\ Return(w, "unauthorized")
  /\ UNCHANGED <<token, valid, issued, bearer, tries, effects, bounds>>

Refused(w) ==
  /\ pc[w] = "refused"
  /\ \/ /\ tries[w] = 1
        /\ token' = None
        /\ Goto(w, "header")
        /\ UNCHANGED answer
     \/ /\ tries[w] > 1
        /\ Return(w, "unauthorized")
        /\ UNCHANGED token
  /\ UNCHANGED <<valid, issued, bearer, tries, effects, bounds>>

\* Seeded fault: a lost answer is answered by another request.
LostResent(w) ==
  /\ pc[w] = "send"
  /\ lost < MaxLost
  /\ lost' = lost + 1
  /\ tries' = [tries EXCEPT ![w] = IF @ = 0 THEN 1 ELSE 2]
  /\ effects' = [effects EXCEPT ![w] = @ + (IF bearer[w] \in valid THEN 1 ELSE 0)]
  /\ Goto(w, "header")
  /\ UNCHANGED <<token, valid, issued, bearer, answer, calls, expiries>>

(***************************************************************************)
(* The answer to a request is lost and the exception leaves the call; or   *)
(* the token endpoint fails.                                               *)
(***************************************************************************)
Lost(w) ==
  /\ pc[w] = "send"
  /\ lost < MaxLost
  /\ lost' = lost + 1
  /\ tries' = [tries EXCEPT ![w] = IF @ = 0 THEN 1 ELSE 2]
  /\ effects' = [effects EXCEPT ![w] = @ + (IF bearer[w] \in valid THEN 1 ELSE 0)]
  /\ Return(w, "error")
  /\ UNCHANGED <<token, valid, issued, bearer, calls, expiries>>

FetchFails(w) ==
  /\ pc[w] = "fetch"
  /\ lost < MaxLost
  /\ lost' = lost + 1
  /\ Return(w, "error")
  /\ UNCHANGED <<token, valid, issued, bearer, tries, effects, calls, expiries>>

Expire ==
  /\ expiries < MaxExpiries
  /\ expiries' = expiries + 1
  /\ valid' = {}
  /\ UNCHANGED <<token, issued, pc, bearer, tries, effects, answer, calls, lost>>

Step(w) ==
  AuthHeader(w) \/ Fetch(w) \/ Assign(w) \/ Reread(w) \/ Send(w) \/ Refused(w)

Next ==
  \/ \E w \in Workers : Call(w) \/ Step(w) \/ Lost(w) \/ FetchFails(w)
  \/ Expire

Spec == Init /\ [][Next]_vars

-----------------------------------------------------------------------------
(***************************************************************************)
(* A call takes effect in Keycloak at most once, whatever expires or gets  *)
(* lost, and a call that returned normally took effect exactly once: the   *)
(* retry follows only a request that was refused.                          *)
(***************************************************************************)
AtMostOneEffect ==
  \A w \in Workers :
    /\ effects[w] <= 1
    /\ answer[w] = "ok" => effects[w] = 1
    /\ answer[w] = "unauthorized" => effects[w] = 0
=============================================================================
