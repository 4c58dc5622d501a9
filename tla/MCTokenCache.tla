---------------------------- MODULE MCTokenCache ----------------------------
(***************************************************************************)
(* The shared service-account token for TLC, with a history variable that  *)
(* tells which calls had the token changed under them.  MaxTokens is large *)
(* enough for every call to authenticate twice.                            *)
(***************************************************************************)
EXTENDS TokenCache

CONSTANTS a, b

TwoWorkers == {a, b}

VARIABLE crossed \* another thread changed the token during the current call

MCInit == Init /\ crossed = [w \in Workers |-> FALSE]

MCNext ==
  /\ Next
  /\ crossed' = [w \in Workers |->
       /\ pc[w] # "idle" \/ pc'[w] = "idle"
       /\ crossed[w] \/ (pc[w] # "idle" /\ pc'[w] = pc[w] /\ token' # token)]

MCSpec == MCInit /\ [][MCNext]_<<vars, crossed>>

(***************************************************************************)
(* "An expired token is refreshed once before a GET succeeds"              *)
(* (tests/test_keycloak_client.py:261): a call fails with 401 only if      *)
(* tokens expired twice, however many threads call, as long as no other    *)
(* thread assigns the shared attribute during the call.                    *)
(***************************************************************************)
OneExpirySurvived ==
  \A w \in Workers :
    answer[w] = "unauthorized" /\ ~crossed[w] => expiries >= 2

(***************************************************************************)
(* The same without the exception.                                         *)
(***************************************************************************)
OneExpiryAlwaysSurvived ==
  \A w \in Workers : answer[w] = "unauthorized" => expiries >= 2
=============================================================================
