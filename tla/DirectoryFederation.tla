------------------------ MODULE DirectoryFederation ------------------------
(***************************************************************************)
(* LDAP directory federation (app/directory_federation_state.py): the same *)
(* scheme as relying-party reconciliation with three differences.  Half of *)
(* a registration is secret and Keycloak never shows it; a receipt is      *)
(* written without looking again; and there is one convergence lock per    *)
(* service object, while reconcile_all takes its snapshot of the stored    *)
(* values before it holds that lock.  The service object is built by the   *)
(* first requests that need it.                                            *)
(***************************************************************************)
EXTENDS Naturals, FiniteSets

CONSTANTS
  Dirs,      \* directory names
  Shown,     \* observable halves of a registration
  Secrets,   \* bind credentials
  Ids,       \* Keycloak component ids
  Workers,   \* request threads
  Services,  \* service objects
  Wired,     \* the service object app.state starts with, or None
  Ops,       \* the kinds of request in play
  None,
  MaxCalls,  \* bound on requests
  MaxEvents  \* bound on failures, crashes and changes made elsewhere

Values == [shown: Shown, secret: Secrets]

ASSUME ConstantsAssumption ==
  /\ Wired \in Services \cup {None}
  /\ None \notin Services \cup Ids \cup Workers \cup Dirs \cup Values
  /\ Ops \subseteq {"put", "delete", "get", "reconcile"}
  /\ MaxCalls \in Nat
  /\ MaxEvents \in Nat

VARIABLES
  desired,   \* KV namespace directory_federation
  receipt,   \* KV namespace of apply receipts
  live,      \* Keycloak: the LDAP components with each name
  sent,      \* history: what this service last wrote and has not removed
  wired,     \* app.state.directory_federation_service
  lock,      \* the worker inside each service's convergence lock, or None
  pc, op, dir, value, receiptOk, expected, status,
  svc,       \* per worker: the service object its request uses
  raced,     \* history: a second service object was built
  todo,      \* per worker: reconcile_all's remaining snapshot
  calls,
  events

store == <<desired, receipt>>
local == <<op, dir, value, receiptOk, expected, svc, todo>>
bounds == <<calls, events>>

vars == <<store, live, sent, wired, raced, lock, pc, local, status, bounds>>

Init ==
  /\ desired = [d \in Dirs |-> None]
  /\ receipt = [d \in Dirs |-> None]
  /\ live = [d \in Dirs |-> {}]
  /\ sent = [d \in Dirs |-> None]
  /\ wired = Wired
  /\ raced = FALSE
  /\ lock = [s \in Services |-> None]
  /\ pc = [w \in Workers |-> "idle"]
  /\ op = [w \in Workers |-> "none"]
  /\ dir = [w \in Workers |-> None]
  /\ value = [w \in Workers |-> None]
  /\ receiptOk = [w \in Workers |-> FALSE]
  /\ expected = [w \in Workers |-> None]
  /\ svc = [w \in Workers |-> None]
  /\ todo = [w \in Workers |-> {}]
  /\ status = [w \in Workers |-> "none"]
  /\ calls = 0
  /\ events = 0

Goto(w, step) == pc' = [pc EXCEPT ![w] = step]

Event == events < MaxEvents /\ events' = events + 1

Release(w) ==
  lock' = [s \in Services |-> IF lock[s] = w THEN None ELSE lock[s]]

(***************************************************************************)
(* A status is returned; reconcile_all keeps the lock for its next value.  *)
(***************************************************************************)
Finish(w, s) ==
  /\ status' = [status EXCEPT ![w] = s]
  /\ \/ op[w] = "reconcile" /\ Goto(w, "next") /\ UNCHANGED lock
     \/ op[w] # "reconcile" /\ Goto(w, "idle") /\ Release(w)

(***************************************************************************)
(* delete_registration keeps _state_lock between its two store deletes.    *)
(***************************************************************************)
StateLockFree(w) ==
  \A x \in Workers : pc[x] = "discard" => svc[x] # svc[w]

-----------------------------------------------------------------------------
(* get_directory_federation_service *)

Request(w, o, d, v) ==
  /\ pc[w] = "idle"
  /\ o \in Ops
  /\ calls < MaxCalls
  /\ calls' = calls + 1
  /\ op' = [op EXCEPT ![w] = o]
  /\ dir' = [dir EXCEPT ![w] = d]
  /\ value' = [value EXCEPT ![w] = v]
  /\ status' = [status EXCEPT ![w] = "none"]
  /\ Goto(w, "resolve")
  /\ UNCHANGED <<store, live, sent, wired, raced, lock, receiptOk, expected, svc,
                 todo, events>>

Resolve(w) ==
  /\ pc[w] = "resolve"
  /\ \/ /\ wired # None
        /\ svc' = [svc EXCEPT ![w] = wired]
        /\ Goto(w, op[w])
     \/ /\ wired = None
        /\ Goto(w, "build")
        /\ UNCHANGED svc
  /\ UNCHANGED <<store, live, sent, wired, raced, lock, op, dir, value, receiptOk,
                 expected, todo, status, bounds>>

Build(w) ==
  /\ pc[w] = "build"
  /\ \E s \in Services :
       /\ s # wired /\ \A x \in Workers : svc[x] # s
       /\ svc' = [svc EXCEPT ![w] = s]
       /\ wired' = s
  /\ raced' = (raced \/ wired # None)
  /\ Goto(w, op[w])
  /\ UNCHANGED <<store, live, sent, lock, op, dir, value, receiptOk,
                 expected, todo, status, bounds>>

-----------------------------------------------------------------------------
(* put_registration, and the head of reconcile_all and of get_registration *)

\* Seeded fault: the intent is stored outside the convergence lock.
PutUnlocked(w) ==
  /\ pc[w] = "put"
  /\ StateLockFree(w)
  /\ desired' = [desired EXCEPT ![dir[w]] = value[w]]
  /\ Goto(w, "receipt")
  /\ UNCHANGED <<receipt, live, sent, wired, raced, lock, local, status, bounds>>

Put(w) ==
  /\ pc[w] = "put"
  /\ StateLockFree(w)
  /\ lock[svc[w]] = None
  /\ lock' = [lock EXCEPT ![svc[w]] = w]
  /\ desired' = [desired EXCEPT ![dir[w]] = value[w]]
  /\ Goto(w, "receipt")
  /\ UNCHANGED <<receipt, live, sent, wired, raced, local, status, bounds>>

Get(w) ==
  /\ pc[w] = "get"
  /\ StateLockFree(w)
  /\ \/ /\ desired[dir[w]] = None
        /\ Finish(w, "not_found")
        /\ UNCHANGED value
     \/ /\ desired[dir[w]] # None
        /\ value' = [value EXCEPT ![w] = desired[dir[w]]]
        /\ Goto(w, "receipt")
        /\ UNCHANGED <<lock, status>>
  /\ UNCHANGED <<store, live, sent, wired, raced, op, dir, receiptOk, expected, svc,
                 todo, bounds>>

Snapshot(w) ==
  /\ pc[w] = "reconcile"
  /\ StateLockFree(w)
  /\ todo' = [todo EXCEPT ![w] =
                {<<d, desired[d]>> : d \in {e \in Dirs : desired[e] # None}}]
  /\ Goto(w, "wait")
  /\ UNCHANGED <<store, live, sent, wired, raced, lock, op, dir, value, receiptOk,
                 expected, svc, status, bounds>>

ReconcileLock(w) ==
  /\ pc[w] = "wait"
  /\ lock[svc[w]] = None
  /\ lock' = [lock EXCEPT ![svc[w]] = w]
  /\ Goto(w, "next")
  /\ UNCHANGED <<store, live, sent, wired, raced, local, status, bounds>>

ReconcileNext(w) ==
  /\ pc[w] = "next"
  /\ \E e \in todo[w] :
       /\ todo' = [todo EXCEPT ![w] = @ \ {e}]
       /\ dir' = [dir EXCEPT ![w] = e[1]]
       /\ value' = [value EXCEPT ![w] = e[2]]
  /\ Goto(w, "receipt")
  /\ UNCHANGED <<store, live, sent, wired, raced, lock, op, receiptOk, expected, svc,
                 status, bounds>>

\* Seeded fault: reconcile_all does not release the lock.
ReconcileDoneHolding(w) ==
  /\ pc[w] = "next"
  /\ todo[w] = {}
  /\ Goto(w, "idle")
  /\ UNCHANGED <<store, live, sent, wired, raced, lock, local, status, bounds>>

ReconcileDone(w) ==
  /\ pc[w] = "next"
  /\ todo[w] = {}
  /\ Release(w)
  /\ Goto(w, "idle")
  /\ UNCHANGED <<store, live, sent, wired, raced, local, status, bounds>>

-----------------------------------------------------------------------------
(* _converge and _status_for *)

ReadReceipt(w) ==
  /\ pc[w] = "receipt"
  /\ StateLockFree(w)
  /\ receiptOk' = [receiptOk EXCEPT ![w] = receipt[dir[w]] = value[w]]
  /\ Goto(w, IF op[w] = "get" THEN "status" ELSE "observe")
  /\ UNCHANGED <<store, live, sent, wired, raced, lock, op, dir, value, expected, svc,
                 todo, status, bounds>>

\* Seeded fault: the receipt is not consulted.
ConvergedAnyReceipt(w, x) == x.val.shown = value[w].shown

(***************************************************************************)
(* _observable_component_matches skips the secret keys; only the receipt   *)
(* speaks for them.                                                        *)
(***************************************************************************)
Converged(w, x) == x.val.shown = value[w].shown /\ receiptOk[w]

Observe(w) ==
  /\ pc[w] = "observe"
  /\ \/ /\ Cardinality(live[dir[w]]) > 1
        /\ Finish(w, "ambiguous")
        /\ UNCHANGED expected
     \/ /\ live[dir[w]] = {}
        /\ Goto(w, "create")
        /\ UNCHANGED <<expected, lock, status>>
     \/ \E x \in live[dir[w]] :
          /\ live[dir[w]] = {x}
          /\ expected' = [expected EXCEPT ![w] = x.id]
          /\ \/ Converged(w, x) /\ Finish(w, "in_sync")
             \/ ~Converged(w, x) /\ Goto(w, "update") /\ UNCHANGED <<lock, status>>
  /\ UNCHANGED <<store, live, sent, wired, raced, op, dir, value, receiptOk, svc, todo,
                 bounds>>

Created(w) ==
  \E i \in Ids :
    /\ \A d \in Dirs : \A x \in live[d] : x.id # i
    /\ live' = [live EXCEPT ![dir[w]] =
                  @ \cup {[id |-> i, val |-> value[w], own |-> TRUE]}]
    /\ sent' = [sent EXCEPT ![dir[w]] = value[w]]

Updated(w) ==
  /\ \E x \in live[dir[w]] : x.id = expected[w]
  /\ live' = [live EXCEPT ![dir[w]] =
                {IF x.id = expected[w]
                 THEN [id |-> x.id, val |-> value[w], own |-> TRUE]
                 ELSE x : x \in @}]
  /\ sent' = [sent EXCEPT ![dir[w]] = value[w]]

Create(w) ==
  /\ pc[w] = "create"
  /\ Created(w)
  /\ Goto(w, "record")
  /\ UNCHANGED <<store, wired, raced, lock, local, status, bounds>>

Update(w) ==
  /\ pc[w] = "update"
  /\ \/ Updated(w) /\ Goto(w, "record") /\ UNCHANGED <<lock, status>>
     \/ /\ \A x \in live[dir[w]] : x.id # expected[w]
        /\ Finish(w, "apply_failed")
        /\ UNCHANGED <<live, sent>>
  /\ UNCHANGED <<store, wired, raced, local, bounds>>

Record(w) ==
  /\ pc[w] = "record"
  /\ StateLockFree(w)
  /\ receipt' = [receipt EXCEPT ![dir[w]] = value[w]]
  /\ Finish(w, "in_sync")
  /\ UNCHANGED <<desired, live, sent, wired, raced, local, bounds>>

StatusFor(w) ==
  /\ pc[w] = "status"
  /\ LET found == live[dir[w]] IN
       \/ found = {} /\ Finish(w, "absent")
       \/ Cardinality(found) > 1 /\ Finish(w, "ambiguous")
       \/ /\ Cardinality(found) = 1
          /\ Finish(w, IF \E x \in found : Converged(w, x)
                       THEN "in_sync" ELSE "drifted")
  /\ UNCHANGED <<store, live, sent, wired, raced, local, bounds>>

-----------------------------------------------------------------------------
(* delete_registration *)

DeleteRead(w) ==
  /\ pc[w] = "delete"
  /\ StateLockFree(w)
  /\ lock[svc[w]] = None
  /\ \/ desired[dir[w]] = None /\ Finish(w, "not_found")
     \/ /\ desired[dir[w]] # None
        /\ lock' = [lock EXCEPT ![svc[w]] = w]
        /\ Goto(w, "find")
        /\ UNCHANGED status
  /\ UNCHANGED <<store, live, sent, wired, raced, local, bounds>>

DeleteFind(w) ==
  /\ pc[w] = "find"
  /\ \/ /\ Cardinality(live[dir[w]]) > 1
        /\ Finish(w, "duplicate_components")
        /\ UNCHANGED <<sent, expected>>
     \/ /\ live[dir[w]] = {}
        /\ sent' = [sent EXCEPT ![dir[w]] = None]
        /\ Goto(w, "withdraw")
        /\ UNCHANGED <<expected, lock, status>>
     \/ \E x \in live[dir[w]] :
          /\ live[dir[w]] = {x}
          /\ expected' = [expected EXCEPT ![w] = x.id]
          /\ Goto(w, "remove")
          /\ UNCHANGED <<sent, lock, status>>
  /\ UNCHANGED <<store, live, wired, raced, op, dir, value, receiptOk, svc, todo, bounds>>

Removed(w) ==
  /\ \E x \in live[dir[w]] : x.id = expected[w]
  /\ live' = [live EXCEPT ![dir[w]] = {x \in @ : x.id # expected[w]}]
  /\ sent' = [sent EXCEPT ![dir[w]] = None]

\* Seeded fault: a failed removal forgets the intent all the same.
RemoveRegardless(w) ==
  /\ pc[w] = "remove"
  /\ Removed(w) \/ UNCHANGED <<live, sent>>
  /\ Goto(w, "withdraw")
  /\ UNCHANGED <<store, wired, raced, lock, local, status, bounds>>

Remove(w) ==
  /\ pc[w] = "remove"
  /\ \/ Removed(w) /\ Goto(w, "withdraw") /\ UNCHANGED <<lock, status>>
     \/ /\ \A x \in live[dir[w]] : x.id # expected[w]
        /\ Finish(w, "delete_failed")
        /\ UNCHANGED <<live, sent>>
  /\ UNCHANGED <<store, wired, raced, local, bounds>>

Withdraw(w) ==
  /\ pc[w] = "withdraw"
  /\ StateLockFree(w)
  /\ desired' = [desired EXCEPT ![dir[w]] = None]
  /\ Goto(w, "discard")
  /\ UNCHANGED <<receipt, live, sent, wired, raced, lock, local, status, bounds>>

Discard(w) ==
  /\ pc[w] = "discard"
  /\ receipt' = [receipt EXCEPT ![dir[w]] = None]
  /\ Finish(w, "deleted")
  /\ UNCHANGED <<desired, live, sent, wired, raced, local, bounds>>

-----------------------------------------------------------------------------
(* Faults *)

ReadFails(w) ==
  /\ pc[w] \in {"observe", "status", "find"}
  /\ Event
  /\ Finish(w, "unavailable")
  /\ UNCHANGED <<store, live, sent, wired, raced, local, calls>>

(***************************************************************************)
(* The effect of a failed write may have landed.                           *)
(***************************************************************************)
WriteFails(w) ==
  /\ pc[w] \in {"create", "update", "remove"}
  /\ Event
  /\ \/ UNCHANGED <<live, sent>>
     \/ pc[w] = "create" /\ Created(w)
     \/ pc[w] = "update" /\ Updated(w)
     \/ pc[w] = "remove" /\ Removed(w)
  /\ Finish(w, IF pc[w] = "remove" THEN "delete_failed" ELSE "apply_failed")
  /\ UNCHANGED <<store, wired, raced, local, calls>>

(***************************************************************************)
(* An exception of the KV store, or of _component_id on an unusable        *)
(* answer, leaves the whole request.                                       *)
(***************************************************************************)
Abort(w) ==
  /\ pc[w] \notin {"idle", "resolve", "build", "wait", "next", "create", "update",
                   "remove"}
  /\ Event
  /\ status' = [status EXCEPT ![w] = "error"]
  /\ Release(w)
  /\ Goto(w, "idle")
  /\ UNCHANGED <<store, live, sent, wired, raced, local, calls>>

Crash ==
  /\ Event
  /\ pc' = [w \in Workers |-> "idle"]
  /\ lock' = [s \in Services |-> None]
  /\ wired' = Wired
  /\ svc' = [w \in Workers |-> None]
  /\ status' = [w \in Workers |-> "none"]
  /\ UNCHANGED <<store, live, sent, raced, op, dir, value, receiptOk, expected,
                 todo, calls>>

OutOfBand(d) ==
  /\ Event
  /\ \/ \E x \in live[d] : live' = [live EXCEPT ![d] = @ \ {x}]
     \/ \E x \in live[d], v \in Values :
          live' = [live EXCEPT ![d] =
                     (@ \ {x}) \cup {[id |-> x.id, val |-> v, own |-> x.own]}]
     \/ \E i \in Ids, v \in Values :
          /\ \A e \in Dirs : \A x \in live[e] : x.id # i
          /\ live' = [live EXCEPT ![d] =
                        @ \cup {[id |-> i, val |-> v, own |-> FALSE]}]
  /\ UNCHANGED <<store, sent, wired, raced, lock, pc, local, status, calls>>

-----------------------------------------------------------------------------
Start(w) ==
  \/ \E d \in Dirs :
       \/ \E v \in Values : Request(w, "put", d, v)
       \/ Request(w, "delete", d, None)
       \/ Request(w, "get", d, None)
  \/ Request(w, "reconcile", None, None)

Step(w) ==
  \/ Resolve(w)
  \/ Build(w)
  \/ Put(w)
  \/ Get(w)
  \/ Snapshot(w)
  \/ ReconcileLock(w)
  \/ ReconcileNext(w)
  \/ ReconcileDone(w)
  \/ ReadReceipt(w)
  \/ Observe(w)
  \/ Create(w)
  \/ Update(w)
  \/ Record(w)
  \/ StatusFor(w)
  \/ DeleteRead(w)
  \/ DeleteFind(w)
  \/ Remove(w)
  \/ Withdraw(w)
  \/ Discard(w)

Next ==
  \/ \E w \in Workers : Start(w) \/ Step(w) \/ ReadFails(w) \/ WriteFails(w) \/ Abort(w)
  \/ Crash
  \/ \E d \in Dirs : OutOfBand(d)

Spec == Init /\ [][Next]_vars

-----------------------------------------------------------------------------
(***************************************************************************)
(* Unless two service objects were built, Keycloak never holds two         *)
(* components of one name that this service created or took over, stale    *)
(* snapshots, lost answers and crashes included (_converge under           *)
(* _convergence_lock).                                                     *)
(***************************************************************************)
OneOwnComponent ==
  ~raced => \A d \in Dirs : Cardinality({x \in live[d] : x.own}) <= 1

DS == INSTANCE DesiredState WITH Keys <- Dirs

(***************************************************************************)
(* What reconcile_all may do beyond the promise: write and record the      *)
(* value its snapshot holds, which may no longer be the stored one.        *)
(***************************************************************************)
FromSnapshot ==
  \E w \in Workers :
    /\ op[w] = "reconcile"
    /\ pc[w] \in {"create", "update", "record"}
    /\ UNCHANGED desired
    /\ sent' \in {sent, [sent EXCEPT ![dir[w]] = value[w]]}
    /\ receipt' \in {receipt, [receipt EXCEPT ![dir[w]] = value[w]]}

(***************************************************************************)
(* Puts and deletes implement the abstract promise of ADR 0004, whatever   *)
(* fails and however they interleave with reconcile_all, which writes      *)
(* nothing but its snapshot.  It ends when a second service object is      *)
(* built.                                                                  *)
(***************************************************************************)
ImplementsDesiredState ==
  DS!Init /\ [][DS!Next \/ FromSnapshot \/ raced]_<<desired, sent, receipt>>

(***************************************************************************)
(* Requests never all wait for one another: while some are under way, one  *)
(* of them can go on.  Every exit from put_registration, reconcile_all and *)
(* delete_registration, errors included, leaves the convergence lock free. *)
(***************************************************************************)
NoneStuck ==
  (\E w \in Workers : pc[w] # "idle") => \E w \in Workers : ENABLED Step(w)

(***************************************************************************)
(* While no call fails, nothing crashes and nobody else edits Keycloak, a  *)
(* put that answers in_sync leaves its secret as the last one written,     *)
(* although secrets are never observed: whatever other requests and old    *)
(* snapshots wrote before it, their receipts force the update              *)
(* (_receipt_matches in _converge).                                        *)
(***************************************************************************)
SecretKept ==
  [][\A w \in Workers :
       /\ events = 0 /\ ~raced
       /\ op[w] = "put" /\ status[w] = "none" /\ status'[w] = "in_sync"
       => sent'[dir[w]] # None /\ sent'[dir[w]].secret = value[w].secret]_vars

-----------------------------------------------------------------------------
(* What the documents say, and the code does not keep *)

Mutators ==
  {w \in Workers : pc[w] \in {"receipt", "observe", "create", "update", "record",
                              "find", "remove", "withdraw", "discard"}
                   /\ op[w] # "get"}

(***************************************************************************)
(* "Same-process mutations remain serialized by the convergence lock"      *)
(* (docs/operations/ldap-directory-reconciliation.md:89-90): at most one   *)
(* request is converging or deleting.                                      *)
(***************************************************************************)
MutationsSerialized == Cardinality(Mutators) <= 1

(***************************************************************************)
(* "intent is persisted before remote mutation" (docs/adr/0004:40): what   *)
(* a write puts into Keycloak has stored intent at that moment.            *)
(***************************************************************************)
IntentBeforeMutation ==
  [][\A d \in Dirs :
       sent'[d] # sent[d] /\ sent'[d] # None => desired[d] # None]_vars

(***************************************************************************)
(* "A real private value change produces a different receipt and forces an *)
(* update even when non-secret fields are unchanged"                       *)
(* (ldap-directory-reconciliation.md:66-68): a put that answers in_sync    *)
(* leaves the secret it was given as the last one written.                 *)
(***************************************************************************)
SecretChangeForcesUpdate ==
  [][\A w \in Workers :
       op[w] = "put" /\ status[w] = "none" /\ status'[w] = "in_sync" =>
         sent'[dir[w]] # None /\ sent'[dir[w]].secret = value[w].secret]_vars
=============================================================================
