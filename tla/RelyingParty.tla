---------------------------- MODULE RelyingParty ----------------------------
(***************************************************************************)
(* Relying-party reconciliation (app/relying_party_state.py): concurrent   *)
(* requests of one process that store intent in the KV store, converge     *)
(* Keycloak clients and keep apply receipts, one lock per client id.       *)
(*                                                                         *)
(* A registration is a model value: it stands for one validated payload    *)
(* and for its digest, which is injective.  Keycloak may hold any number   *)
(* of clients with one client id: the code does not rely on it to refuse a *)
(* second one.                                                             *)
(***************************************************************************)
EXTENDS Naturals, FiniteSets

CONSTANTS
  Clients,       \* client ids, numbers in the order of sorted()
  Registrations, \* validated payloads
  Foreign,       \* a client representation that is no registration
  Uuids,         \* Keycloak's client uuids
  Workers,       \* request threads
  None,
  MaxCalls,      \* bound on requests
  MaxEvents      \* bound on failures, crashes and changes made elsewhere

ASSUME ConstantsAssumption ==
  /\ Clients \subseteq Nat
  /\ Foreign \notin Registrations
  /\ None \notin Registrations \cup Uuids \cup Workers \cup {Foreign}
  /\ MaxCalls \in Nat
  /\ MaxEvents \in Nat

VARIABLES
  desired,   \* KV namespace relying_party_sources
  receipt,   \* KV namespace relying_party_apply_receipts
  live,      \* Keycloak: the clients with each client id
  sent,      \* history: what this service last wrote and has not removed
  lock,      \* the worker inside each client lock, or None
  pc,        \* the next step of each worker
  op,        \* per worker: the request being handled
  client,    \* per worker: the client id being handled
  value,     \* per worker: the registration being handled
  receiptOk, \* per worker: what _receipt_matches returned
  expected,  \* per worker: the uuid a mutation is about, or None
  todo,      \* per worker: ids reconcile_all has still to visit
  status,    \* per worker: the last answer
  calls,     \* requests so far
  events     \* failures, crashes and outside changes so far

store == <<desired, receipt>>
local == <<op, client, value, receiptOk, expected, todo>>
bounds == <<calls, events>>

vars == <<store, live, sent, lock, pc, local, status, bounds>>

LiveClient ==
  [uuid: Uuids, val: Registrations \cup {Foreign}, own: BOOLEAN]

-----------------------------------------------------------------------------
Init ==
  /\ desired = [c \in Clients |-> None]
  /\ receipt = [c \in Clients |-> None]
  /\ live = [c \in Clients |-> {}]
  /\ sent = [c \in Clients |-> None]
  /\ lock = [c \in Clients |-> None]
  /\ pc = [w \in Workers |-> "idle"]
  /\ op = [w \in Workers |-> "none"]
  /\ client = [w \in Workers |-> None]
  /\ value = [w \in Workers |-> None]
  /\ receiptOk = [w \in Workers |-> FALSE]
  /\ expected = [w \in Workers |-> None]
  /\ todo = [w \in Workers |-> {}]
  /\ status = [w \in Workers |-> "none"]
  /\ calls = 0
  /\ events = 0

Goto(w, step) == pc' = [pc EXCEPT ![w] = step]

Event == events < MaxEvents /\ events' = events + 1

Release(w) == lock' = [c \in Clients |-> IF lock[c] = w THEN None ELSE lock[c]]

\* Seeded fault: every call makes a lock of its own.
AcquireOwn(w, c) == lock' = [lock EXCEPT ![c] = w]

Acquire(w, c) == lock[c] = None /\ lock' = [lock EXCEPT ![c] = w]

(***************************************************************************)
(* The with block ends and the status is returned; reconcile_all goes on   *)
(* to the next id.                                                         *)
(***************************************************************************)
Finish(w, s) ==
  /\ status' = [status EXCEPT ![w] = s]
  /\ Release(w)
  /\ Goto(w, IF op[w] = "reconcile" THEN "next" ELSE "idle")

(***************************************************************************)
(* delete_registration keeps _state_lock between its two store deletes;    *)
(* every other use of it is a single store call.                           *)
(***************************************************************************)
StateLockFree == \A w \in Workers : pc[w] # "discard"

Begin(w, o, c, v, step) ==
  /\ pc[w] = "idle"
  /\ calls < MaxCalls
  /\ calls' = calls + 1
  /\ op' = [op EXCEPT ![w] = o]
  /\ client' = [client EXCEPT ![w] = c]
  /\ value' = [value EXCEPT ![w] = v]
  /\ status' = [status EXCEPT ![w] = "none"]
  /\ Goto(w, step)
  /\ UNCHANGED <<store, live, sent, lock, receiptOk, expected, events>>

-----------------------------------------------------------------------------
(* put_registration *)

PutStart(w, c, v) == Begin(w, "put", c, v, "store") /\ UNCHANGED todo

PutStore(w) ==
  /\ pc[w] = "store"
  /\ StateLockFree
  /\ Acquire(w, client[w])
  /\ desired' = [desired EXCEPT ![client[w]] = value[w]]
  /\ Goto(w, "receipt")
  /\ UNCHANGED <<receipt, live, sent, local, status, bounds>>

-----------------------------------------------------------------------------
(* reconcile_all: a snapshot of the ids, and each record read again under  *)
(* the lock of its client                                                  *)

ReconcileStart(w) ==
  /\ StateLockFree
  /\ Begin(w, "reconcile", None, None, "next")
  /\ todo' = [todo EXCEPT ![w] = {c \in Clients : desired[c] # None}]

\* Seeded fault: the id is converged with whatever registration the worker
\* handled before, when the record is gone.
ReconcileNextStale(w) ==
  /\ pc[w] = "next"
  /\ StateLockFree
  /\ \E c \in todo[w] :
       /\ \A d \in todo[w] : c <= d
       /\ lock[c] = None
       /\ todo' = [todo EXCEPT ![w] = @ \ {c}]
       /\ lock' = [lock EXCEPT ![c] = w]
       /\ client' = [client EXCEPT ![w] = c]
       /\ \E v \in Registrations :
            value' = [value EXCEPT ![w] = IF desired[c] = None THEN v ELSE desired[c]]
       /\ Goto(w, "receipt")
  /\ UNCHANGED <<store, live, sent, op, receiptOk, expected, status, bounds>>

ReconcileNext(w) ==
  /\ pc[w] = "next"
  /\ StateLockFree
  /\ \E c \in todo[w] :
       /\ \A d \in todo[w] : c <= d
       /\ lock[c] = None
       /\ todo' = [todo EXCEPT ![w] = @ \ {c}]
       /\ \/ /\ desired[c] = None
             /\ UNCHANGED <<lock, client, value, pc>>
          \/ /\ desired[c] # None
             /\ lock' = [lock EXCEPT ![c] = w]
             /\ client' = [client EXCEPT ![w] = c]
             /\ value' = [value EXCEPT ![w] = desired[c]]
             /\ Goto(w, "receipt")
  /\ UNCHANGED <<store, live, sent, op, receiptOk, expected, status, bounds>>

ReconcileDone(w) ==
  /\ pc[w] = "next"
  /\ todo[w] = {}
  /\ Goto(w, "idle")
  /\ UNCHANGED <<store, live, sent, lock, local, status, bounds>>

-----------------------------------------------------------------------------
(* _converge *)

ReadReceipt(w) ==
  /\ pc[w] = "receipt"
  /\ StateLockFree
  /\ receiptOk' = [receiptOk EXCEPT ![w] = receipt[client[w]] = value[w]]
  /\ Goto(w, IF op[w] = "get" THEN "status" ELSE "observe")
  /\ UNCHANGED <<store, live, sent, lock, op, client, value, expected, todo,
                 status, bounds>>

\* Seeded fault: a matching client is enough, whatever the receipt says.
ConvergedAnyReceipt(w, x) == x.val = value[w]

(***************************************************************************)
(* _observable_client_matches together with the receipt.                   *)
(***************************************************************************)
Converged(w, x) == x.val = value[w] /\ receiptOk[w]

Observe(w) ==
  /\ pc[w] = "observe"
  /\ \/ /\ Cardinality(live[client[w]]) > 1
        /\ Finish(w, "ambiguous")
        /\ UNCHANGED expected
     \/ /\ live[client[w]] = {}
        /\ Goto(w, "create")
        /\ UNCHANGED <<expected, lock, status>>
     \/ \E x \in live[client[w]] :
          /\ live[client[w]] = {x}
          /\ expected' = [expected EXCEPT ![w] = x.uuid]
          /\ \/ Converged(w, x) /\ Finish(w, "in_sync")
             \/ ~Converged(w, x) /\ Goto(w, "update") /\ UNCHANGED <<lock, status>>
  /\ UNCHANGED <<store, live, sent, op, client, value, receiptOk, todo, bounds>>

(***************************************************************************)
(* What a create or an update does in Keycloak.                            *)
(***************************************************************************)
Created(w, u) ==
  /\ \A c \in Clients : \A x \in live[c] : x.uuid # u
  /\ live' = [live EXCEPT ![client[w]] =
                @ \cup {[uuid |-> u, val |-> value[w], own |-> TRUE]}]
  /\ sent' = [sent EXCEPT ![client[w]] = value[w]]

Updated(w) ==
  /\ \E x \in live[client[w]] : x.uuid = expected[w]
  /\ live' = [live EXCEPT ![client[w]] =
                {IF x.uuid = expected[w]
                 THEN [uuid |-> x.uuid, val |-> value[w], own |-> TRUE]
                 ELSE x : x \in @}]
  /\ sent' = [sent EXCEPT ![client[w]] = value[w]]

(***************************************************************************)
(* The uuid comes from the Location header, and is None without one.       *)
(***************************************************************************)
Create(w) ==
  /\ pc[w] = "create"
  /\ \E u \in Uuids :
       /\ Created(w, u)
       /\ \E e \in {u, None} : expected' = [expected EXCEPT ![w] = e]
  /\ Goto(w, "verify")
  /\ UNCHANGED <<store, lock, op, client, value, receiptOk, todo, status, bounds>>

Update(w) ==
  /\ pc[w] = "update"
  /\ \/ Updated(w) /\ Goto(w, "verify") /\ UNCHANGED <<lock, status>>
     \/ /\ \A x \in live[client[w]] : x.uuid # expected[w]
        /\ Finish(w, "apply_failed")
        /\ UNCHANGED <<live, sent>>
  /\ UNCHANGED <<store, local, bounds>>

-----------------------------------------------------------------------------
(* _verify_mutation *)

Verified(w) ==
  \E x \in live[client[w]] :
    /\ live[client[w]] = {x}
    /\ expected[w] \in {None, x.uuid}
    /\ x.val = value[w]

Verify(w) ==
  /\ pc[w] = "verify"
  /\ \/ Verified(w) /\ Goto(w, "record") /\ UNCHANGED <<lock, status>>
     \/ /\ ~Verified(w)
        /\ Finish(w, IF Cardinality(live[client[w]]) > 1
                     THEN "ambiguous" ELSE "apply_failed")
  /\ UNCHANGED <<store, live, sent, local, bounds>>

Record(w) ==
  /\ pc[w] = "record"
  /\ StateLockFree
  /\ receipt' = [receipt EXCEPT ![client[w]] = value[w]]
  /\ Finish(w, "in_sync")
  /\ UNCHANGED <<desired, live, sent, local, bounds>>

-----------------------------------------------------------------------------
(* delete_registration *)

DeleteStart(w, c) == Begin(w, "delete", c, None, "read") /\ UNCHANGED todo

DeleteRead(w) ==
  /\ pc[w] = "read"
  /\ StateLockFree
  /\ lock[client[w]] = None
  /\ \/ /\ desired[client[w]] = None
        /\ status' = [status EXCEPT ![w] = "not_found"]
        /\ Goto(w, "idle")
        /\ UNCHANGED lock
     \/ /\ desired[client[w]] # None
        /\ lock' = [lock EXCEPT ![client[w]] = w]
        /\ Goto(w, "find")
        /\ UNCHANGED status
  /\ UNCHANGED <<store, live, sent, local, bounds>>

DeleteFind(w) ==
  /\ pc[w] = "find"
  /\ \/ /\ Cardinality(live[client[w]]) > 1
        /\ Finish(w, "duplicate_clients")
        /\ UNCHANGED <<sent, expected>>
     \/ /\ live[client[w]] = {}
        /\ sent' = [sent EXCEPT ![client[w]] = None]
        /\ Goto(w, "withdraw")
        /\ UNCHANGED <<expected, lock, status>>
     \/ \E x \in live[client[w]] :
          /\ live[client[w]] = {x}
          /\ expected' = [expected EXCEPT ![w] = x.uuid]
          /\ Goto(w, "remove")
          /\ UNCHANGED <<sent, lock, status>>
  /\ UNCHANGED <<store, live, op, client, value, receiptOk, todo, bounds>>

Removed(w) ==
  /\ \E x \in live[client[w]] : x.uuid = expected[w]
  /\ live' = [live EXCEPT ![client[w]] = {x \in @ : x.uuid # expected[w]}]
  /\ sent' = [sent EXCEPT ![client[w]] = None]

Remove(w) ==
  /\ pc[w] = "remove"
  /\ \/ Removed(w) /\ Goto(w, "withdraw") /\ UNCHANGED <<lock, status>>
     \/ /\ \A x \in live[client[w]] : x.uuid # expected[w]
        /\ Finish(w, "delete_failed")
        /\ UNCHANGED <<live, sent>>
  /\ UNCHANGED <<store, local, bounds>>

Withdraw(w) ==
  /\ pc[w] = "withdraw"
  /\ StateLockFree
  /\ desired' = [desired EXCEPT ![client[w]] = None]
  /\ Goto(w, "discard")
  /\ UNCHANGED <<receipt, live, sent, lock, local, status, bounds>>

Discard(w) ==
  /\ pc[w] = "discard"
  /\ receipt' = [receipt EXCEPT ![client[w]] = None]
  /\ Finish(w, "deleted")
  /\ UNCHANGED <<desired, live, sent, local, bounds>>

-----------------------------------------------------------------------------
(* get_registration: no lock *)

GetStart(w, c) ==
  /\ StateLockFree
  /\ desired[c] # None
  /\ Begin(w, "get", c, desired[c], "receipt")
  /\ UNCHANGED todo

StatusFor(w) ==
  /\ pc[w] = "status"
  /\ LET found == live[client[w]] IN
       Finish(w, CASE found = {} -> "absent"
                   [] Cardinality(found) > 1 -> "ambiguous"
                   [] found # {} /\ Cardinality(found) <= 1 ->
                        IF \E x \in found : Converged(w, x)
                        THEN "in_sync" ELSE "drifted")
  /\ UNCHANGED <<store, live, sent, local, bounds>>

-----------------------------------------------------------------------------
(* Faults *)

(***************************************************************************)
(* A Keycloak call that fails: a read, or a write whose effect may have    *)
(* landed although its answer was lost or could not be used.               *)
(***************************************************************************)
ReadFails(w) ==
  /\ pc[w] \in {"observe", "status", "verify", "find"}
  /\ Event
  /\ Finish(w, CASE pc[w] = "verify" -> "apply_failed"
                 [] pc[w] = "find" -> "delete_failed"
                 [] pc[w] \in {"observe", "status"} -> "unavailable")
  /\ UNCHANGED <<store, live, sent, local, calls>>

WriteFails(w) ==
  /\ pc[w] \in {"create", "update", "remove"}
  /\ Event
  /\ \/ UNCHANGED <<live, sent>>
     \/ pc[w] = "create" /\ \E u \in Uuids : Created(w, u)
     \/ pc[w] = "update" /\ Updated(w)
     \/ pc[w] = "remove" /\ Removed(w)
  /\ Finish(w, IF pc[w] = "remove" THEN "delete_failed" ELSE "apply_failed")
  /\ UNCHANGED <<store, local, calls>>

(***************************************************************************)
(* An exception of the KV store, or of _client_uuid on an unusable answer, *)
(* leaves the whole request.                                               *)
(***************************************************************************)
Abort(w) ==
  /\ pc[w] \notin {"idle", "create", "update", "remove"}
  /\ Event
  /\ status' = [status EXCEPT ![w] = "error"]
  /\ Release(w)
  /\ Goto(w, "idle")
  /\ UNCHANGED <<store, live, sent, local, calls>>

Crash ==
  /\ Event
  /\ pc' = [w \in Workers |-> "idle"]
  /\ lock' = [c \in Clients |-> None]
  /\ status' = [w \in Workers |-> "none"]
  /\ UNCHANGED <<store, live, sent, local, calls>>

(***************************************************************************)
(* Somebody edits, removes or adds a client in Keycloak directly.          *)
(***************************************************************************)
OutOfBand(c) ==
  /\ Event
  /\ \/ \E x \in live[c] : live' = [live EXCEPT ![c] = @ \ {x}]
     \/ \E x \in live[c], v \in Registrations \cup {Foreign} :
          live' = [live EXCEPT ![c] =
                     (@ \ {x}) \cup {[uuid |-> x.uuid, val |-> v, own |-> x.own]}]
     \/ \E u \in Uuids, v \in Registrations \cup {Foreign} :
          /\ \A d \in Clients : \A x \in live[d] : x.uuid # u
          /\ live' = [live EXCEPT ![c] =
                        @ \cup {[uuid |-> u, val |-> v, own |-> FALSE]}]
  /\ UNCHANGED <<store, sent, lock, pc, local, status, calls>>

-----------------------------------------------------------------------------
Start(w) ==
  \/ \E c \in Clients :
       \/ \E v \in Registrations : PutStart(w, c, v)
       \/ DeleteStart(w, c)
       \/ GetStart(w, c)
  \/ ReconcileStart(w)

(***************************************************************************)
(* The steps a request takes on its own.                                   *)
(***************************************************************************)
Step(w) ==
  \/ PutStore(w)
  \/ ReconcileNext(w)
  \/ ReconcileDone(w)
  \/ ReadReceipt(w)
  \/ Observe(w)
  \/ Create(w)
  \/ Update(w)
  \/ Verify(w)
  \/ Record(w)
  \/ DeleteRead(w)
  \/ DeleteFind(w)
  \/ Remove(w)
  \/ Withdraw(w)
  \/ Discard(w)
  \/ StatusFor(w)

Fault(w) == ReadFails(w) \/ WriteFails(w) \/ Abort(w)

Next ==
  \/ \E w \in Workers : Start(w) \/ Step(w) \/ Fault(w)
  \/ Crash
  \/ \E c \in Clients : OutOfBand(c)

Spec == Init /\ [][Next]_vars

-----------------------------------------------------------------------------
Steps ==
  {"idle", "store", "next", "receipt", "observe", "create", "update", "verify",
   "record", "read", "find", "remove", "withdraw", "discard", "status"}

(***************************************************************************)
(* Stored intent and receipts are registrations, and every step acts on a  *)
(* client id the service knows.                                            *)
(***************************************************************************)
TypeOK ==
  /\ desired \in [Clients -> Registrations \cup {None}]
  /\ receipt \in [Clients -> Registrations \cup {None}]
  /\ sent \in [Clients -> Registrations \cup {None}]
  /\ live \in [Clients -> SUBSET LiveClient]
  /\ lock \in [Clients -> Workers \cup {None}]
  /\ pc \in [Workers -> Steps]
  /\ op \in [Workers -> {"none", "put", "delete", "get", "reconcile"}]
  /\ client \in [Workers -> Clients \cup {None}]
  /\ value \in [Workers -> Registrations \cup {None}]
  /\ receiptOk \in [Workers -> BOOLEAN]
  /\ expected \in [Workers -> Uuids \cup {None}]
  /\ todo \in [Workers -> SUBSET Clients]
  /\ calls \in 0 .. MaxCalls
  /\ events \in 0 .. MaxEvents

Mutating(w) == op[w] # "get" /\ pc[w] \notin {"idle", "store", "next", "read"}

Converging == {"receipt", "observe", "create", "update", "verify", "record"}

InOrder(w) ==
  /\ pc[w] \in Steps \ {"idle", "next"} => client[w] \in Clients
  /\ Mutating(w) => lock[client[w]] = w
  /\ pc[w] \in Converging \cup {"store"} => value[w] \in Registrations
  /\ Mutating(w) /\ pc[w] \in Converging => desired[client[w]] = value[w]
  /\ pc[w] \in {"verify", "record"} => sent[client[w]] = value[w]
  /\ pc[w] \in {"find", "remove"} => desired[client[w]] # None
  /\ pc[w] = "withdraw" => sent[client[w]] = None
  /\ pc[w] = "discard" => desired[client[w]] = None
  /\ pc[w] = "status" <=> (op[w] = "get" /\ pc[w] \notin {"idle", "receipt"})

(***************************************************************************)
(* A mutating request works under the lock of its client, so that what     *)
(* _converge sends is the stored intent, what it records was sent, and     *)
(* what delete_registration forgets has been removed.                      *)
(***************************************************************************)
LockInv == \A w \in Workers : InOrder(w)

(***************************************************************************)
(* Keycloak never holds two clients with one client id that this service   *)
(* created or took over, however requests interleave and whichever calls   *)
(* fail (put_registration, _converge under _client_lock).                  *)
(***************************************************************************)
OneOwnClient ==
  \A c \in Clients : Cardinality({x \in live[c] : x.own}) <= 1

(***************************************************************************)
(* A mutating request that answers in_sync leaves the registration it      *)
(* handled as stored intent and as receipt, whatever other requests do     *)
(* meanwhile.                                                              *)
(***************************************************************************)
InSyncIsCurrent ==
  [][\A w \in Workers :
       (op[w] # "get" /\ status[w] = "none" /\ status'[w] = "in_sync") =>
         /\ desired'[client[w]] = value[w]
         /\ receipt'[client[w]] = value[w]]_vars

(***************************************************************************)
(* The service implements the abstract promise of ADR 0004: it sends only  *)
(* the stored intent, writes receipts only for what it sent, and forgets   *)
(* intent only when what it sent is removed.                               *)
(***************************************************************************)
DS == INSTANCE DesiredState
        WITH Keys <- Clients, Values <- Registrations

ImplementsDesiredState == DS!Spec

=============================================================================
