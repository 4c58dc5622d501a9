----------------------- MODULE MCDirectoryFederation -----------------------
(***************************************************************************)
(* Directory federation for TLC, with a history variable that tells which  *)
(* requests ran undisturbed.                                               *)
(***************************************************************************)
EXTENDS DirectoryFederation, TLC

CONSTANTS d1, d2, o1, o2, s1, s2, i1, i2, i3, a, b, x1, x2

OneDir == {d1}
TwoDirs == {d1, d2}
OneShown == {o1}
TwoShown == {o1, o2}
OneSecret == {s1}
TwoSecrets == {s1, s2}
TwoIds == {i1, i2}
MCIds == {i1, i2, i3}
MCWorkers == {a, b}
OneWorker == {a}
OneService == {x1}
TwoServices == {x1, x2}
AllOps == {"put", "delete", "get", "reconcile"}
PutDelete == {"put", "delete", "get"}
PutReconcile == {"put", "reconcile"}
MCSymmetry ==
  Permutations(MCIds) \cup Permutations(MCWorkers) \cup Permutations(TwoServices)
  \cup Permutations(TwoShown)

VARIABLE clean \* the worker's current request met no fault and no other change

MCInit == Init /\ clean = [w \in Workers |-> FALSE]

MCNext ==
  /\ Next
  /\ clean' = [w \in Workers |->
       IF pc[w] = "idle"
       THEN pc'[w] # "idle"
       ELSE /\ clean[w]
            /\ events' = events
            /\ pc'[w] # pc[w] \/ UNCHANGED <<desired, receipt, live>>]

MCSpec == MCInit /\ [][MCNext]_<<vars, clean>>

(***************************************************************************)
(* Whatever earlier failures, lost answers, crashes and outside edits left *)
(* behind, a put or a reconcile_all that runs undisturbed ends with a      *)
(* receipt for the stored intent and one live component that shows it,     *)
(* unless Keycloak holds duplicates.  Nothing is said of the secret: see   *)
(* SecretChangeForcesUpdate.                                               *)
(***************************************************************************)
UndisturbedConverges ==
  [][\A w \in Workers :
       (pc[w] # "idle" /\ pc'[w] = "idle" /\ clean[w] /\ clean'[w]) =>
         \A d \in Dirs :
           ((op[w] = "put" /\ d = dir[w]) \/ (op[w] = "reconcile" /\ desired'[d] # None)) =>
             \/ Cardinality(live'[d]) > 1
             \/ /\ receipt'[d] = desired'[d]
                /\ \E x \in live'[d] :
                     live'[d] = {x} /\ x.val.shown = desired'[d].shown
    ]_<<vars, clean>>
=============================================================================
