--------------------------- MODULE IdpFederation ---------------------------
(***************************************************************************)
(* Identity-provider federation (app/federation.py).  Keycloak holds at    *)
(* most one provider per alias and masks its secret.  There are no         *)
(* receipts: every put and every apply_all writes the provider and looks   *)
(* at it again.  apply_all takes its snapshot of the stored values before  *)
(* it holds the convergence lock.                                          *)
(***************************************************************************)
EXTENDS Naturals, FiniteSets

CONSTANTS
  Aliases,   \* provider aliases
  Shown,     \* observable halves of a registration
  Secrets,   \* client secrets
  Workers,   \* request threads
  Ops,       \* the kinds of request in play
  None,
  MaxCalls,  \* bound on requests
  MaxEvents  \* bound on failures, crashes and changes made elsewhere

Values == [shown: Shown, secret: Secrets]

ASSUME ConstantsAssumption ==
  /\ None \notin Workers \cup Aliases \cup Values
  /\ Ops \subseteq {"put", "delete", "get", "apply"}
  /\ MaxCalls \in Nat
  /\ MaxEvents \in Nat

VARIABLES
  desired,  \* KV namespace federation_identity_providers
  live,     \* Keycloak: the provider of each alias, or None
  sent,     \* history: what this service last wrote and has not removed
  lock,     \* the worker inside the convergence lock, or None
  pc, op, alias, value, todo,
  applied,  \* per worker: applied_to_keycloak of the last status, or None
  calls, events

local == <<op, alias, value, todo>>

vars == <<desired, live, sent, lock, pc, local, applied, calls, events>>

Init ==
  /\ desired = [a \in Aliases |-> None]
  /\ live = [a \in Aliases |-> None]
  /\ sent = [a \in Aliases |-> None]
  /\ lock = None
  /\ pc = [w \in Workers |-> "idle"]
  /\ op = [w \in Workers |-> "none"]
  /\ alias = [w \in Workers |-> None]
  /\ value = [w \in Workers |-> None]
  /\ todo = [w \in Workers |-> {}]
  /\ applied = [w \in Workers |-> None]
  /\ calls = 0
  /\ events = 0

Goto(w, step) == pc' = [pc EXCEPT ![w] = step]

Event == events < MaxEvents /\ events' = events + 1

Release(w) == lock' = IF lock = w THEN None ELSE lock

(***************************************************************************)
(* _try_apply or _status_for returns; apply_all keeps the lock and goes on *)
(* with its snapshot.                                                      *)
(***************************************************************************)
Answer(w, b) ==
  /\ applied' = [applied EXCEPT ![w] = b]
  /\ \/ op[w] = "apply" /\ Goto(w, "next") /\ UNCHANGED lock
     \/ op[w] # "apply" /\ Goto(w, "idle") /\ Release(w)

Request(w, o, a, v) ==
  /\ pc[w] = "idle"
  /\ o \in Ops
  /\ calls < MaxCalls
  /\ calls' = calls + 1
  /\ op' = [op EXCEPT ![w] = o]
  /\ alias' = [alias EXCEPT ![w] = a]
  /\ value' = [value EXCEPT ![w] = v]
  /\ applied' = [applied EXCEPT ![w] = None]
  /\ Goto(w, o)
  /\ UNCHANGED <<desired, live, sent, lock, todo, events>>

-----------------------------------------------------------------------------
(* put_registration and apply_all *)

Put(w) ==
  /\ pc[w] = "put"
  /\ lock = None
  /\ lock' = w
  /\ desired' = [desired EXCEPT ![alias[w]] = value[w]]
  /\ Goto(w, "existing")
  /\ UNCHANGED <<live, sent, local, applied, calls, events>>

Snapshot(w) ==
  /\ pc[w] = "apply"
  /\ todo' = [todo EXCEPT ![w] =
                {<<a, desired[a]>> : a \in {x \in Aliases : desired[x] # None}}]
  /\ Goto(w, "wait")
  /\ UNCHANGED <<desired, live, sent, lock, op, alias, value, applied, calls, events>>

ApplyLock(w) ==
  /\ pc[w] = "wait"
  /\ lock = None
  /\ lock' = w
  /\ Goto(w, "next")
  /\ UNCHANGED <<desired, live, sent, local, applied, calls, events>>

ApplyNext(w) ==
  /\ pc[w] = "next"
  /\ \E e \in todo[w] :
       /\ todo' = [todo EXCEPT ![w] = @ \ {e}]
       /\ alias' = [alias EXCEPT ![w] = e[1]]
       /\ value' = [value EXCEPT ![w] = e[2]]
  /\ Goto(w, "existing")
  /\ UNCHANGED <<desired, live, sent, lock, op, applied, calls, events>>

ApplyDone(w) ==
  /\ pc[w] = "next"
  /\ todo[w] = {}
  /\ Release(w)
  /\ Goto(w, "idle")
  /\ UNCHANGED <<desired, live, sent, local, applied, calls, events>>

-----------------------------------------------------------------------------
(* _apply, then _try_apply's second look *)

(***************************************************************************)
(* _provider_config_matches accepts the mask in place of the secret.       *)
(***************************************************************************)
Matches(v, x) == x # None /\ x.shown = v.shown

\* Seeded fault: a provider that already matches is not written.
ExistingUnlessMatching(w) ==
  /\ pc[w] = "existing"
  /\ Goto(w, IF live[alias[w]] = None THEN "create"
             ELSE IF Matches(value[w], live[alias[w]]) THEN "verify" ELSE "update")
  /\ UNCHANGED <<desired, live, sent, lock, local, applied, calls, events>>

Existing(w) ==
  /\ pc[w] = "existing"
  /\ Goto(w, IF live[alias[w]] = None THEN "create" ELSE "update")
  /\ UNCHANGED <<desired, live, sent, lock, local, applied, calls, events>>

Written(w) ==
  /\ (pc[w] = "create") = (live[alias[w]] = None)
  /\ live' = [live EXCEPT ![alias[w]] = value[w]]
  /\ sent' = [sent EXCEPT ![alias[w]] = value[w]]

(***************************************************************************)
(* Keycloak refuses to create a second provider of an alias, or to update  *)
(* one that has gone.                                                      *)
(***************************************************************************)
Write(w) ==
  /\ pc[w] \in {"create", "update"}
  /\ \/ Written(w) /\ Goto(w, "verify") /\ UNCHANGED <<lock, applied>>
     \/ /\ (pc[w] = "create") # (live[alias[w]] = None)
        /\ Answer(w, FALSE)
        /\ UNCHANGED <<live, sent>>
  /\ UNCHANGED <<desired, local, calls, events>>

Verify(w) ==
  /\ pc[w] = "verify"
  /\ Answer(w, Matches(value[w], live[alias[w]]))
  /\ UNCHANGED <<desired, live, sent, local, calls, events>>

-----------------------------------------------------------------------------
(* get_registration *)

Get(w) ==
  /\ pc[w] = "get"
  /\ \/ /\ desired[alias[w]] = None
        /\ Goto(w, "idle")
        /\ UNCHANGED value
     \/ /\ desired[alias[w]] # None
        /\ value' = [value EXCEPT ![w] = desired[alias[w]]]
        /\ Goto(w, "verify")
  /\ UNCHANGED <<desired, live, sent, lock, op, alias, todo, applied, calls, events>>

-----------------------------------------------------------------------------
(* delete_registration *)

DeleteRead(w) ==
  /\ pc[w] = "delete"
  /\ lock = None
  /\ \/ desired[alias[w]] = None /\ Goto(w, "idle") /\ UNCHANGED lock
     \/ desired[alias[w]] # None /\ lock' = w /\ Goto(w, "look")
  /\ UNCHANGED <<desired, live, sent, local, applied, calls, events>>

DeleteLook(w) ==
  /\ pc[w] = "look"
  /\ \/ /\ live[alias[w]] = None
        /\ sent' = [sent EXCEPT ![alias[w]] = None]
        /\ Goto(w, "forget")
     \/ /\ live[alias[w]] # None
        /\ Goto(w, "remove")
        /\ UNCHANGED sent
  /\ UNCHANGED <<desired, live, lock, local, applied, calls, events>>

Removed(w) ==
  /\ live[alias[w]] # None
  /\ live' = [live EXCEPT ![alias[w]] = None]
  /\ sent' = [sent EXCEPT ![alias[w]] = None]

\* Seeded fault: the intent is forgotten although the removal failed.
RemoveRegardless(w) ==
  /\ pc[w] = "remove"
  /\ Removed(w) \/ UNCHANGED <<live, sent>>
  /\ Goto(w, "forget")
  /\ UNCHANGED <<desired, lock, local, applied, calls, events>>

Remove(w) ==
  /\ pc[w] = "remove"
  /\ \/ Removed(w) /\ Goto(w, "forget") /\ UNCHANGED lock
     \/ /\ live[alias[w]] = None
        /\ Release(w)
        /\ Goto(w, "idle")
        /\ UNCHANGED <<live, sent>>
  /\ UNCHANGED <<desired, local, applied, calls, events>>

Forget(w) ==
  /\ pc[w] = "forget"
  /\ desired' = [desired EXCEPT ![alias[w]] = None]
  /\ Release(w)
  /\ Goto(w, "idle")
  /\ UNCHANGED <<live, sent, local, applied, calls, events>>

-----------------------------------------------------------------------------
(* Faults *)

(***************************************************************************)
(* A Keycloak call of _try_apply or _status_for fails and the answer is    *)
(* FALSE; the effect of a write may have landed.                           *)
(***************************************************************************)
CallFails(w) ==
  /\ pc[w] \in {"existing", "create", "update", "verify"}
  /\ Event
  /\ \/ UNCHANGED <<live, sent>>
     \/ pc[w] \in {"create", "update"} /\ Written(w)
  /\ Answer(w, FALSE)
  /\ UNCHANGED <<desired, local, calls>>

(***************************************************************************)
(* An exception of the KV store, or of a Keycloak call of                  *)
(* delete_registration, leaves the handler.                                *)
(***************************************************************************)
Abort(w) ==
  /\ pc[w] \in {"put", "apply", "get", "delete", "look", "remove", "forget"}
  /\ Event
  /\ \/ UNCHANGED <<live, sent>>
     \/ pc[w] = "remove" /\ Removed(w)
  /\ Release(w)
  /\ Goto(w, "idle")
  /\ UNCHANGED <<desired, local, applied, calls>>

Crash ==
  /\ Event
  /\ pc' = [w \in Workers |-> "idle"]
  /\ lock' = None
  /\ applied' = [w \in Workers |-> None]
  /\ UNCHANGED <<desired, live, sent, local, calls>>

OutOfBand(a) ==
  /\ Event
  /\ \E v \in Values \cup {None} : live' = [live EXCEPT ![a] = v]
  /\ UNCHANGED <<desired, sent, lock, pc, local, applied, calls>>

-----------------------------------------------------------------------------
Start(w) ==
  \/ \E a \in Aliases :
       \/ \E v \in Values : Request(w, "put", a, v)
       \/ Request(w, "delete", a, None)
       \/ Request(w, "get", a, None)
  \/ Request(w, "apply", None, None)

Step(w) ==
  \/ Put(w)
  \/ Snapshot(w)
  \/ ApplyLock(w)
  \/ ApplyNext(w)
  \/ ApplyDone(w)
  \/ Existing(w)
  \/ Write(w)
  \/ Verify(w)
  \/ Get(w)
  \/ DeleteRead(w)
  \/ DeleteLook(w)
  \/ Remove(w)
  \/ Forget(w)

Next ==
  \/ \E w \in Workers : Start(w) \/ Step(w) \/ CallFails(w) \/ Abort(w)
  \/ Crash
  \/ \E a \in Aliases : OutOfBand(a)

Spec == Init /\ [][Next]_vars

-----------------------------------------------------------------------------
DS == INSTANCE DesiredState
        WITH Keys <- Aliases, receipt <- [a \in Aliases |-> None]

(***************************************************************************)
(* What apply_all may do beyond the promise: write the value its snapshot  *)
(* holds, which may no longer be the stored one.                           *)
(***************************************************************************)
FromSnapshot ==
  \E w \in Workers :
    /\ op[w] = "apply"
    /\ pc[w] \in {"create", "update"}
    /\ UNCHANGED desired
    /\ sent' = [sent EXCEPT ![alias[w]] = value[w]]

(***************************************************************************)
(* Puts and deletes implement the abstract promise of ADR 0004, whatever   *)
(* fails and however they interleave with apply_all, which writes nothing  *)
(* but its snapshot.  There are no receipts.                               *)
(***************************************************************************)
ImplementsDesiredState ==
  DS!Init /\ [][DS!Next \/ FromSnapshot]_<<desired, sent>>

(***************************************************************************)
(* "Re-converge Keycloak from the stored desired state"                    *)
(* (federation.py:773): what apply_all writes is the stored registration.  *)
(***************************************************************************)
AppliesStoredState ==
  [][\A w \in Workers :
       op[w] = "apply" /\ pc[w] \in {"create", "update"} /\ pc'[w] = "verify" =>
         sent'[alias[w]] = desired[alias[w]]]_vars
=============================================================================
