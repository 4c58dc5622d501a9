-------------------------- MODULE MCRelyingParty --------------------------
(***************************************************************************)
(* Relying-party reconciliation for TLC, with a history variable that      *)
(* tells which requests ran undisturbed.                                   *)
(***************************************************************************)
EXTENDS RelyingParty, TLC

CONSTANTS r1, r2, foreign, u1, u2, u3, a, b

MCUuids == {u1, u2, u3}
MCRegistrations == {r1, r2}
MCWorkers == {a, b}
OneWorker == {a}
MCSymmetry ==
  Permutations(MCUuids) \cup Permutations(MCWorkers) \cup Permutations(MCRegistrations)

VARIABLE clean \* the worker's current request met no fault and no other change

MCInit == Init /\ clean = [w \in Workers |-> FALSE]

Moved(w) == pc'[w] # pc[w] \/ todo'[w] # todo[w]

MCNext ==
  /\ Next
  /\ clean' = [w \in Workers |->
       IF pc[w] = "idle"
       THEN pc'[w] # "idle"
       ELSE /\ clean[w]
            /\ events' = events
            /\ Moved(w) \/ UNCHANGED <<desired, receipt, live>>]

MCSpec == MCInit /\ [][MCNext]_<<vars, clean>>

Settled(c) ==
  \/ Cardinality(live'[c]) > 1
  \/ /\ receipt'[c] = desired'[c]
     /\ \E x \in live'[c] : live'[c] = {x} /\ x.val = desired'[c]

(***************************************************************************)
(* Whatever earlier failures, lost answers, crashes and outside edits left *)
(* behind, a put or a reconcile_all that runs undisturbed ends with one    *)
(* matching client and a matching receipt for every id it handled, unless  *)
(* Keycloak holds duplicates.                                              *)
(***************************************************************************)
UndisturbedConverges ==
  [][\A w \in Workers :
       (pc[w] # "idle" /\ pc'[w] = "idle" /\ clean[w] /\ clean'[w]) =>
         /\ op[w] = "put" => Settled(client[w])
         /\ op[w] = "reconcile" =>
              \A c \in Clients : desired'[c] # None => Settled(c)]_<<vars, clean>>
=============================================================================
