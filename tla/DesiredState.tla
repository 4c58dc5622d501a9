---------------------------- MODULE DesiredState ----------------------------
(***************************************************************************)
(* What desired-state reconciliation promises about one kind of Keycloak   *)
(* object (ADR 0004): intent is stored before anything is sent, only the   *)
(* current intent is ever sent, a receipt is written only for an intent    *)
(* that was sent, and intent is forgotten only when nothing that was sent  *)
(* is left in Keycloak.                                                    *)
(***************************************************************************)
CONSTANTS
  Keys,    \* names of the objects
  Values,  \* what an operator may want an object to be
  None

VARIABLES
  desired, \* the stored intent for each name, or None
  sent,    \* what the service last wrote to Keycloak and has not removed
  receipt  \* the intent whose application was last recorded, or None

vars == <<desired, sent, receipt>>

Init ==
  /\ desired = [k \in Keys |-> None]
  /\ sent = [k \in Keys |-> None]
  /\ receipt = [k \in Keys |-> None]

Store(k, v) ==
  /\ desired' = [desired EXCEPT ![k] = v]
  /\ UNCHANGED <<sent, receipt>>

Send(k) ==
  /\ desired[k] # None
  /\ sent' = [sent EXCEPT ![k] = desired[k]]
  /\ UNCHANGED <<desired, receipt>>

Record(k) ==
  /\ desired[k] # None
  /\ sent[k] = desired[k]
  /\ receipt' = [receipt EXCEPT ![k] = desired[k]]
  /\ UNCHANGED <<desired, sent>>

(***************************************************************************)
(* Deletion in three steps: Keycloak first, the receipt last.              *)
(***************************************************************************)
Retire(k) ==
  /\ desired[k] # None
  /\ sent' = [sent EXCEPT ![k] = None]
  /\ UNCHANGED <<desired, receipt>>

Withdraw(k) ==
  /\ sent[k] = None
  /\ desired' = [desired EXCEPT ![k] = None]
  /\ UNCHANGED <<sent, receipt>>

Discard(k) ==
  /\ desired[k] = None
  /\ receipt' = [receipt EXCEPT ![k] = None]
  /\ UNCHANGED <<desired, sent>>

Next ==
  \E k \in Keys :
    \/ \E v \in Values : Store(k, v)
    \/ Send(k)
    \/ Record(k)
    \/ Retire(k)
    \/ Withdraw(k)
    \/ Discard(k)

Spec == Init /\ [][Next]_vars
=============================================================================
