-------------------------- MODULE MCIdpFederation --------------------------
(***************************************************************************)
(* Identity-provider federation for TLC, with a history variable that      *)
(* tells which requests ran undisturbed.                                   *)
(***************************************************************************)
EXTENDS IdpFederation, TLC

CONSTANTS p1, p2, o1, o2, s1, s2, a, b

OneAlias == {p1}
TwoAliases == {p1, p2}
OneShown == {o1}
TwoShown == {o1, o2}
OneSecret == {s1}
TwoSecrets == {s1, s2}
MCWorkers == {a, b}
AllOps == {"put", "delete", "get", "apply"}
PutDelete == {"put", "delete", "get"}
MCSymmetry ==
  Permutations(MCWorkers) \cup Permutations(TwoAliases)
  \cup Permutations(TwoShown) \cup Permutations(TwoSecrets)

VARIABLE clean \* the worker's current request met no fault and no other change

MCInit == Init /\ clean = [w \in Workers |-> FALSE]

MCNext ==
  /\ Next
  /\ clean' = [w \in Workers |->
       IF pc[w] = "idle"
       THEN pc'[w] # "idle"
       ELSE /\ clean[w]
            /\ events' = events
            /\ pc'[w] # pc[w] \/ UNCHANGED <<desired, live>>]

MCSpec == MCInit /\ [][MCNext]_<<vars, clean>>

(***************************************************************************)
(* Whatever earlier failures, lost answers, crashes and outside edits left *)
(* behind, a put or an apply_all that runs undisturbed leaves in Keycloak  *)
(* exactly the stored registrations, secrets included, although secrets    *)
(* cannot be observed (_apply writes without comparing first).             *)
(***************************************************************************)
UndisturbedConverges ==
  [][\A w \in Workers :
       (pc[w] # "idle" /\ pc'[w] = "idle" /\ clean[w] /\ clean'[w]) =>
         \A p \in Aliases :
           ((op[w] = "put" /\ p = alias[w]) \/ (op[w] = "apply" /\ desired'[p] # None)) =>
             live'[p] = desired'[p]]_<<vars, clean>>
=============================================================================
