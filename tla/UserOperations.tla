--------------------------- MODULE UserOperations ---------------------------
(***************************************************************************)
(* Account merge (app/service.py) and the SCIM operations that write an    *)
(* existing user (app/scim.py), run by concurrent workers that share the   *)
(* SQLite user-operation lock (app/user_locks.py) and write the Keycloak   *)
(* user store through the Admin API (app/keycloak_client.py), one step per *)
(* call that changes Keycloak or the audit table.                          *)
(*                                                                         *)
(* A request is one of                                                     *)
(*   op "merge":  survivor, duplicate, explicitLink                        *)
(*   op "put":    user, active, email, externalId   (SCIM replace)         *)
(*   op "patch":  user, active                      (SCIM patch)           *)
(*   op "delete": user                              (SCIM delete)          *)
(*                                                                         *)
(* What an account owns is a set of items: federated-identity links, role  *)
(* mappings and group memberships.  An item has a kind, a slot (provider   *)
(* alias; client and role name; group id) and a value (the subject of a    *)
(* link).  An account has at most one item per kind and slot.              *)
(***************************************************************************)
EXTENDS Naturals, FiniteSets, Matching

CONSTANTS
  Users,       \* Keycloak user ids that requests may name
  Workers,     \* request handlers, of any number of processes
  Items,       \* links, roles and groups
  Emails,      \* raw e-mails, NoEmail included
  ExternalIds, \* values of the scim_external_id attribute
  Requests,    \* what clients may send
  Stores,      \* the user stores the system may start from
  MaxFaults,   \* bound on failed calls and crashes
  NoUser, NoWorker, NoRequest, NoItem, NoExternalId

Kinds == {"link", "role", "group"}

Store ==
  [present: SUBSET Users, enabled: [Users -> BOOLEAN],
   email: [Users -> Emails], verified: [Users -> BOOLEAN],
   externalId: [Users -> ExternalIds \cup {NoExternalId}],
   holds: [Users -> SUBSET Items]]

MergeRequest ==
  [op: {"merge"}, survivor: Users, duplicate: Users, explicitLink: BOOLEAN]

PutRequest ==
  [op: {"put"}, user: Users, active: BOOLEAN, email: Emails \ {NoEmail},
   externalId: ExternalIds \cup {NoExternalId}]

PatchRequest == [op: {"patch"}, user: Users, active: BOOLEAN]

DeleteRequest == [op: {"delete"}, user: Users]

SameSlot(a, b) == a.kind = b.kind /\ a.slot = b.slot

OneItemPerSlot(items) == \A a, b \in items : SameSlot(a, b) => a = b

ASSUME ConstantsAssumption ==
  /\ Requests \subseteq
       MergeRequest \cup PutRequest \cup PatchRequest \cup DeleteRequest
  /\ Stores \subseteq Store
  /\ \A store \in Stores : \A u \in Users : OneItemPerSlot(store.holds[u])
  /\ \A i \in Items : i.kind \in Kinds
  /\ NoEmail \in Emails
  /\ \A e \in Emails \ {NoEmail} : e.address # NoEmail
  /\ NoUser \notin Users
  /\ NoWorker \notin Workers
  /\ NoRequest \notin Requests
  /\ NoItem \notin Items
  /\ NoExternalId \notin ExternalIds
  /\ MaxFaults \in Nat

VARIABLES
  present,       \* Keycloak: the users that exist
  enabled,       \* Keycloak: the enabled flag of each user
  mergedInto,    \* Keycloak: the merged_into_user_id attribute, or NoUser
  externalId,    \* Keycloak: the scim_external_id attribute, or NoExternalId
  email,         \* Keycloak: the raw e-mail of each user
  verified,      \* Keycloak: the emailVerified flag of each user
  holds,         \* Keycloak: the items each user owns
  lock,          \* the worker whose BEGIN IMMEDIATE transaction is open
  pc,            \* the call each worker makes next
  req,           \* the request each worker handles, or NoRequest
  survivorSeen,  \* per worker: the survivor as get_user returned it
  duplicateSeen, \* per worker: the duplicate as get_user returned it
  moveKind,      \* per worker: the kind of item being moved
  taken,         \* per worker: the survivor's items of that kind, as listed
  todo,          \* per worker: the duplicate's listed items not yet handled
  moving,        \* per worker: the item being handled, or NoItem
  idRead,        \* per worker: scim_external_id as set_user_attribute read it
  audit,         \* the rows of account_merge_audit
  faults         \* failed calls and crashes so far

keycloak == <<present, enabled, mergedInto, externalId, email, verified, holds>>

local == <<survivorSeen, duplicateSeen, moveKind, taken, todo, moving, idRead>>

vars == <<keycloak, lock, pc, req, local, audit, faults>>

-----------------------------------------------------------------------------
(***************************************************************************)
(* What get_user returns of an account.                                    *)
(***************************************************************************)
Loaded == [enabled: BOOLEAN, email: Emails, verified: BOOLEAN]

NoAccount == [enabled |-> FALSE, email |-> NoEmail, verified |-> FALSE]

MergeSteps ==
  {"load", "list", "start", "move", "detach", "record", "stamp", "disable",
   "record_tombstone", "complete"}

ScimSteps == {"check", "put", "patch", "delete"}

Locked == MergeSteps \cup ScimSteps

OfKind(items, kind) == {i \in items : i.kind = kind}

\* Seeded fault: the membership key only, without the provider_taken test.
TakenByKey(items, item) == item \in items

Taken(items, item) == \E i \in items : SameSlot(i, item)

Without(items, item) == {i \in items : ~SameSlot(i, item)}

(***************************************************************************)
(* get_user                                                                *)
(***************************************************************************)
GetUser(u) ==
  [enabled |-> enabled[u], email |-> email[u], verified |-> verified[u]]

WithLinks(account, links) ==
  [email |-> account.email, verified |-> account.verified, links |-> links]

(***************************************************************************)
(* replace_user of the client: the payload of _to_keycloak_user has an     *)
(* attribute map only when the resource has an externalId, and then it     *)
(* holds nothing else: Keycloak replaces the stored map by it.             *)
(***************************************************************************)
PutUser(r) ==
  /\ enabled' = [enabled EXCEPT ![r.user] = r.active]
  /\ email' = [email EXCEPT ![r.user] = r.email]
  /\ verified' = [verified EXCEPT ![r.user] = TRUE]
  /\ IF r.externalId = NoExternalId
     THEN UNCHANGED <<externalId, mergedInto>>
     ELSE /\ externalId' = [externalId EXCEPT ![r.user] = r.externalId]
          /\ mergedInto' = [mergedInto EXCEPT ![r.user] = NoUser]

(***************************************************************************)
(* The PUT of set_user_attribute: the map as it was read, pointer added.   *)
(***************************************************************************)
PutAttributes(r, id) ==
  /\ mergedInto' = [mergedInto EXCEPT ![r.duplicate] = r.survivor]
  /\ externalId' = [externalId EXCEPT ![r.duplicate] = id]

DeactivateUser(u) == [enabled EXCEPT ![u] = FALSE]

(***************************************************************************)
(* An audit row; only the item events name an item.                        *)
(***************************************************************************)
EventTypes ==
  {"started", "conflict", "moved", "tombstoned", "completed"}

Event ==
  [type: EventTypes, survivor: Users, duplicate: Users,
   item: Items \cup {NoItem}]

Emit(type, r, item) ==
  audit' = audit \cup
    {[type |-> type, survivor |-> r.survivor, duplicate |-> r.duplicate,
      item |-> item]}

Goto(w, step) == pc' = [pc EXCEPT ![w] = step]

(***************************************************************************)
(* The local variables of a handler end with it.                           *)
(***************************************************************************)
Forget(w) ==
  /\ survivorSeen' = [survivorSeen EXCEPT ![w] = NoAccount]
  /\ duplicateSeen' = [duplicateSeen EXCEPT ![w] = NoAccount]
  /\ moveKind' = [moveKind EXCEPT ![w] = "link"]
  /\ taken' = [taken EXCEPT ![w] = {}]
  /\ todo' = [todo EXCEPT ![w] = {}]
  /\ moving' = [moving EXCEPT ![w] = NoItem]
  /\ idRead' = [idRead EXCEPT ![w] = NoExternalId]

(***************************************************************************)
(* Leaving the with block, normally or by an exception: rollback and close *)
(* in the finally clause of hold release the lock.                         *)
(***************************************************************************)
Return(w) ==
  /\ lock' = NoWorker
  /\ pc' = [pc EXCEPT ![w] = "idle"]
  /\ req' = [req EXCEPT ![w] = NoRequest]
  /\ Forget(w)

Init ==
  /\ \E store \in Stores :
       /\ present = store.present
       /\ enabled = store.enabled
       /\ externalId = store.externalId
       /\ email = store.email
       /\ verified = store.verified
       /\ holds = store.holds
  /\ mergedInto = [u \in Users |-> NoUser]
  /\ lock = NoWorker
  /\ pc = [w \in Workers |-> "idle"]
  /\ req = [w \in Workers |-> NoRequest]
  /\ survivorSeen = [w \in Workers |-> NoAccount]
  /\ duplicateSeen = [w \in Workers |-> NoAccount]
  /\ moveKind = [w \in Workers |-> "link"]
  /\ taken = [w \in Workers |-> {}]
  /\ todo = [w \in Workers |-> {}]
  /\ moving = [w \in Workers |-> NoItem]
  /\ idRead = [w \in Workers |-> NoExternalId]
  /\ audit = {}
  /\ faults = 0

-----------------------------------------------------------------------------
(* The user-operation lock *)

(***************************************************************************)
(* A request arrives.  merge_accounts refuses one that names the same      *)
(* account twice before it asks for the lock.                              *)
(***************************************************************************)
Submit(w, r) ==
  /\ pc[w] = "idle"
  /\ r.op = "merge" => r.survivor # r.duplicate
  /\ Goto(w, "wait")
  /\ req' = [req EXCEPT ![w] = r]
  /\ UNCHANGED <<keycloak, lock, local, audit, faults>>

\* Seeded fault: SCIM replace writes without the tombstone check.
FirstStepUnchecked(r) == IF r.op = "merge" THEN "load" ELSE r.op

FirstStep(r) ==
  IF r.op = "merge" THEN "load" ELSE IF r.op = "put" THEN "check" ELSE r.op

\* Seeded fault: every process has a lock database of its own.
AcquireOwnLock(w) ==
  /\ pc[w] = "wait"
  /\ lock' = w
  /\ Goto(w, FirstStep(req[w]))
  /\ UNCHANGED <<keycloak, req, local, audit, faults>>

(***************************************************************************)
(* hold: BEGIN IMMEDIATE succeeds when no other transaction is open ...    *)
(***************************************************************************)
AcquireLock(w) ==
  /\ pc[w] = "wait"
  /\ lock = NoWorker
  /\ lock' = w
  /\ Goto(w, FirstStep(req[w]))
  /\ UNCHANGED <<keycloak, req, local, audit, faults>>

(***************************************************************************)
(* ... and gives up after timeout_seconds while another one is: the caller *)
(* gets 503.                                                               *)
(***************************************************************************)
LockTimeout(w) ==
  /\ pc[w] = "wait"
  /\ lock # NoWorker
  /\ Goto(w, "idle")
  /\ req' = [req EXCEPT ![w] = NoRequest]
  /\ UNCHANGED <<keycloak, lock, local, audit, faults>>

(***************************************************************************)
(* A call fails, or the worker dies.  Every step that has an effect ends   *)
(* at a step where this action is enabled, so it also stands for a call    *)
(* whose effect took place and whose answer was lost.                      *)
(***************************************************************************)
Fail(w) ==
  /\ pc[w] \in Locked
  /\ faults < MaxFaults
  /\ faults' = faults + 1
  /\ Return(w)
  /\ UNCHANGED <<keycloak, audit>>

-----------------------------------------------------------------------------
(* merge_accounts, inside the lock *)

(***************************************************************************)
(* _load_user of the survivor, then of the duplicate.                      *)
(***************************************************************************)
LoadUsers(w) ==
  LET s == req[w].survivor
      d == req[w].duplicate
  IN  /\ pc[w] = "load"
      /\ IF {s, d} \subseteq present
         THEN /\ survivorSeen' = [survivorSeen EXCEPT ![w] = GetUser(s)]
              /\ duplicateSeen' = [duplicateSeen EXCEPT ![w] = GetUser(d)]
              /\ Goto(w, "list")
              /\ UNCHANGED <<lock, req, moveKind, taken, todo, moving, idRead>>
         ELSE Return(w)                              \* UserNotFoundError
      /\ UNCHANGED <<keycloak, audit, faults>>

\* Seeded fault: only the duplicate has to be active.
CheckMatchDuplicateOnly(w) ==
  LET s == req[w].survivor
      d == req[w].duplicate
      linksOfS == OfKind(holds[s], "link")
      linksOfD == OfKind(holds[d], "link")
      verdict == MergeVerdict(WithLinks(survivorSeen[w], linksOfS),
                              WithLinks(duplicateSeen[w], linksOfD),
                              req[w].explicitLink)
  IN  /\ pc[w] = "list"
      /\ IF duplicateSeen[w].enabled /\ verdict = "merge"
         THEN /\ moveKind' = [moveKind EXCEPT ![w] = "link"]
              /\ taken' = [taken EXCEPT ![w] = linksOfS]
              /\ todo' = [todo EXCEPT ![w] = linksOfD]
              /\ Goto(w, "start")
              /\ UNCHANGED <<lock, req, survivorSeen, duplicateSeen, moving,
                             idRead>>
         ELSE Return(w)
      /\ UNCHANGED <<keycloak, audit, faults>>

(***************************************************************************)
(* list_federated_identities of both accounts, _assert_active of both,     *)
(* decide_match and the unverified-email rule.                             *)
(***************************************************************************)
CheckMatch(w) ==
  LET s == req[w].survivor
      d == req[w].duplicate
      linksOfS == OfKind(holds[s], "link")
      linksOfD == OfKind(holds[d], "link")
      verdict == MergeVerdict(WithLinks(survivorSeen[w], linksOfS),
                              WithLinks(duplicateSeen[w], linksOfD),
                              req[w].explicitLink)
  IN  /\ pc[w] = "list"
      /\ IF /\ survivorSeen[w].enabled
            /\ duplicateSeen[w].enabled
            /\ verdict = "merge"
         THEN /\ moveKind' = [moveKind EXCEPT ![w] = "link"]
              /\ taken' = [taken EXCEPT ![w] = linksOfS]
              /\ todo' = [todo EXCEPT ![w] = linksOfD]
              /\ Goto(w, "start")
              /\ UNCHANGED <<lock, req, survivorSeen, duplicateSeen, moving,
                             idRead>>
         ELSE Return(w)      \* Inactive, UnverifiedEmailMerge or NoMatch error
      /\ UNCHANGED <<keycloak, audit, faults>>

RecordStart(w) ==
  /\ pc[w] = "start"
  /\ Emit("started", req[w], NoItem)
  /\ Goto(w, "move")
  /\ UNCHANGED <<keycloak, lock, req, local, faults>>

(***************************************************************************)
(* One round of the loop of _move_federated_identities,                    *)
(* _move_role_mappings or _move_group_memberships.  On a conflict the      *)
(* survivor keeps its item and the duplicate's is removed ...              *)
(***************************************************************************)
DropConflict(w) ==
  /\ pc[w] = "move"
  /\ \E i \in todo[w] :
       /\ Taken(taken[w], i)
       /\ holds' = [holds EXCEPT ![req[w].duplicate] = Without(@, i)]
       /\ moving' = [moving EXCEPT ![w] = i]
  /\ Goto(w, "record")
  /\ UNCHANGED <<present, enabled, mergedInto, externalId, email, verified,
                 lock, req, survivorSeen, duplicateSeen, moveKind, taken, todo,
                 idRead, audit, faults>>

\* Seeded fault: the item is removed before it is added.
AttachItemAfterRemoval(w) ==
  /\ pc[w] = "move"
  /\ \E i \in todo[w] :
       /\ ~Taken(taken[w], i)
       /\ holds' = [holds EXCEPT ![req[w].duplicate] = Without(@, i)]
       /\ moving' = [moving EXCEPT ![w] = i]
  /\ Goto(w, "detach")
  /\ UNCHANGED <<present, enabled, mergedInto, externalId, email, verified,
                 lock, req, survivorSeen, duplicateSeen, moveKind, taken, todo,
                 idRead, audit, faults>>

(***************************************************************************)
(* ... otherwise the item is added to the survivor ...                     *)
(***************************************************************************)
AttachItem(w) ==
  /\ pc[w] = "move"
  /\ \E i \in todo[w] :
       /\ ~Taken(taken[w], i)
       /\ holds' = [holds EXCEPT ![req[w].survivor] = @ \cup {i}]
       /\ moving' = [moving EXCEPT ![w] = i]
  /\ Goto(w, "detach")
  /\ UNCHANGED <<present, enabled, mergedInto, externalId, email, verified,
                 lock, req, survivorSeen, duplicateSeen, moveKind, taken, todo,
                 idRead, audit, faults>>

\* Seeded fault: the item is copied, not moved.
DetachItemForgotten(w) ==
  /\ pc[w] = "detach"
  /\ Goto(w, "record")
  /\ UNCHANGED <<keycloak, lock, req, local, audit, faults>>

(***************************************************************************)
(* ... and then removed from the duplicate.                                *)
(***************************************************************************)
DetachItem(w) ==
  /\ pc[w] = "detach"
  /\ holds' = [holds EXCEPT ![req[w].duplicate] = Without(@, moving[w])]
  /\ Goto(w, "record")
  /\ UNCHANGED <<present, enabled, mergedInto, externalId, email, verified,
                 lock, req, local, audit, faults>>

\* Seeded fault: the loop never advances.
RecordItemAgain(w) ==
  /\ pc[w] = "record"
  /\ Emit("conflict", req[w], moving[w])
  /\ moving' = [moving EXCEPT ![w] = NoItem]
  /\ Goto(w, "move")
  /\ UNCHANGED <<keycloak, lock, req, survivorSeen, duplicateSeen, moveKind,
                 taken, todo, idRead, faults>>

RecordItem(w) ==
  /\ pc[w] = "record"
  /\ Emit(IF Taken(taken[w], moving[w]) THEN "conflict" ELSE "moved",
          req[w], moving[w])
  /\ todo' = [todo EXCEPT ![w] = @ \ {moving[w]}]
  /\ moving' = [moving EXCEPT ![w] = NoItem]
  /\ Goto(w, "move")
  /\ UNCHANGED <<keycloak, lock, req, survivorSeen, duplicateSeen, moveKind,
                 taken, idRead, faults>>

(***************************************************************************)
(* The next helper lists both accounts afresh before its loop; links were  *)
(* listed before the match was decided.                                    *)
(***************************************************************************)
NextKind(w) ==
  LET next == IF moveKind[w] = "link" THEN "role" ELSE "group"
  IN  /\ pc[w] = "move"
      /\ todo[w] = {}
      /\ moveKind[w] # "group"
      /\ moveKind' = [moveKind EXCEPT ![w] = next]
      /\ taken' = [taken EXCEPT ![w] = OfKind(holds[req[w].survivor], next)]
      /\ todo' = [todo EXCEPT ![w] = OfKind(holds[req[w].duplicate], next)]
      /\ UNCHANGED <<keycloak, lock, pc, req, survivorSeen, duplicateSeen,
                     moving, idRead, audit, faults>>

\* Seeded fault: the duplicate is disabled before the pointer is written.
ReadAttributesAfterDisabling(w) ==
  /\ pc[w] = "move"
  /\ todo[w] = {}
  /\ moveKind[w] = "group"
  /\ enabled' = [enabled EXCEPT ![req[w].duplicate] = FALSE]
  /\ idRead' = [idRead EXCEPT ![w] = externalId[req[w].duplicate]]
  /\ Goto(w, "stamp")
  /\ UNCHANGED <<present, mergedInto, externalId, email, verified, holds, lock,
                 req, survivorSeen, duplicateSeen, moveKind, taken, todo, moving,
                 audit, faults>>

(***************************************************************************)
(* _tombstone: set_user_attribute reads the attribute map ...              *)
(***************************************************************************)
ReadAttributes(w) ==
  /\ pc[w] = "move"
  /\ todo[w] = {}
  /\ moveKind[w] = "group"
  /\ idRead' = [idRead EXCEPT ![w] = externalId[req[w].duplicate]]
  /\ Goto(w, "stamp")
  /\ UNCHANGED <<keycloak, lock, req, survivorSeen, duplicateSeen, moveKind,
                 taken, todo, moving, audit, faults>>

\* Seeded fault: the pointer is written as the whole attribute map.
StampTombstoneAlone(w) ==
  /\ pc[w] = "stamp"
  /\ PutAttributes(req[w], NoExternalId)
  /\ Goto(w, "disable")
  /\ UNCHANGED <<present, enabled, email, verified, holds,
                 lock, req, local, audit, faults>>

(***************************************************************************)
(* ... and writes it back with the pointer added; then the account is      *)
(* disabled and the merge recorded.                                        *)
(***************************************************************************)
StampTombstone(w) ==
  /\ pc[w] = "stamp"
  /\ PutAttributes(req[w], idRead[w])
  /\ Goto(w, "disable")
  /\ UNCHANGED <<present, enabled, email, verified, holds,
                 lock, req, local, audit, faults>>

DisableDuplicate(w) ==
  /\ pc[w] = "disable"
  /\ enabled' = DeactivateUser(req[w].duplicate)
  /\ Goto(w, "record_tombstone")
  /\ UNCHANGED <<present, mergedInto, externalId, email, verified, holds,
                 lock, req, local, audit, faults>>

RecordTombstone(w) ==
  /\ pc[w] = "record_tombstone"
  /\ Emit("tombstoned", req[w], NoItem)
  /\ Goto(w, "complete")
  /\ UNCHANGED <<keycloak, lock, req, local, faults>>

CompleteMerge(w) ==
  /\ pc[w] = "complete"
  /\ Emit("completed", req[w], NoItem)
  /\ Return(w)
  /\ UNCHANGED <<keycloak, faults>>

-----------------------------------------------------------------------------
(* SCIM replace, patch and delete, inside the lock *)

(***************************************************************************)
(* replace_user: 404 for an unknown user, 409 for one that carries the     *)
(* pointer.                                                                *)
(***************************************************************************)
CheckTombstone(w) ==
  /\ pc[w] = "check"
  /\ IF req[w].user \in present /\ mergedInto[req[w].user] = NoUser
     THEN Goto(w, "put") /\ UNCHANGED <<lock, req, local>>
     ELSE Return(w)
  /\ UNCHANGED <<keycloak, audit, faults>>

ReplaceUser(w) ==
  /\ pc[w] = "put"
  /\ PutUser(req[w])
  /\ Return(w)
  /\ UNCHANGED <<present, holds, audit, faults>>

(***************************************************************************)
(* patch_user only ever disables; delete_user disables.  Both answer 404   *)
(* for an unknown user.                                                    *)
(***************************************************************************)
PatchUser(w) ==
  /\ pc[w] = "patch"
  /\ enabled' = IF req[w].user \in present /\ ~req[w].active
                THEN DeactivateUser(req[w].user) ELSE enabled
  /\ Return(w)
  /\ UNCHANGED <<present, mergedInto, externalId, email, verified, holds,
                 audit, faults>>

DeleteUser(w) ==
  /\ pc[w] = "delete"
  /\ enabled' = IF req[w].user \in present
                THEN DeactivateUser(req[w].user) ELSE enabled
  /\ Return(w)
  /\ UNCHANGED <<present, mergedInto, externalId, email, verified, holds,
                 audit, faults>>

-----------------------------------------------------------------------------
MergeStep(w) ==
  \/ LoadUsers(w)
  \/ CheckMatch(w)
  \/ RecordStart(w)
  \/ DropConflict(w)
  \/ AttachItem(w)
  \/ DetachItem(w)
  \/ RecordItem(w)
  \/ NextKind(w)
  \/ ReadAttributes(w)
  \/ StampTombstone(w)
  \/ DisableDuplicate(w)
  \/ RecordTombstone(w)
  \/ CompleteMerge(w)

ScimStep(w) ==
  \/ CheckTombstone(w)
  \/ ReplaceUser(w)
  \/ PatchUser(w)
  \/ DeleteUser(w)

Next ==
  \E w \in Workers :
    \/ \E r \in Requests : Submit(w, r)
    \/ AcquireLock(w)
    \/ LockTimeout(w)
    \/ MergeStep(w)
    \/ ScimStep(w)
    \/ Fail(w)

Spec == Init /\ [][Next]_vars

(***************************************************************************)
(* A worker that holds the lock keeps running: every HTTP call returns or  *)
(* times out.  One that waits gets the lock or times out (SQLite's busy    *)
(* timeout); it is not promised the lock.                                  *)
(***************************************************************************)
Fairness ==
  \A w \in Workers :
    /\ WF_vars(MergeStep(w) \/ ScimStep(w))
    /\ WF_vars(AcquireLock(w) \/ LockTimeout(w))

FairSpec == Spec /\ Fairness

-----------------------------------------------------------------------------
(* Properties *)

(***************************************************************************)
(* Every variable keeps its type: a worker is idle, waits for the lock or  *)
(* is at a step of its handler, and the store and the audit table hold     *)
(* only what requests can put there.                                       *)
(***************************************************************************)
TypeOK ==
  /\ present \subseteq Users
  /\ enabled \in [Users -> BOOLEAN]
  /\ mergedInto \in [Users -> Users \cup {NoUser}]
  /\ externalId \in [Users -> ExternalIds \cup {NoExternalId}]
  /\ email \in [Users -> Emails]
  /\ verified \in [Users -> BOOLEAN]
  /\ holds \in [Users -> SUBSET Items]
  /\ lock \in Workers \cup {NoWorker}
  /\ pc \in [Workers -> Locked \cup {"idle", "wait"}]
  /\ req \in [Workers -> Requests \cup {NoRequest}]
  /\ survivorSeen \in [Workers -> Loaded]
  /\ duplicateSeen \in [Workers -> Loaded]
  /\ moveKind \in [Workers -> Kinds]
  /\ taken \in [Workers -> SUBSET Items]
  /\ todo \in [Workers -> SUBSET Items]
  /\ moving \in [Workers -> Items \cup {NoItem}]
  /\ idRead \in [Workers -> ExternalIds \cup {NoExternalId}]
  /\ audit \subseteq Event
  /\ faults \in 0 .. MaxFaults

Tombstoned(u) == ~enabled[u] /\ mergedInto[u] # NoUser

(***************************************************************************)
(* A tombstone is final: no later merge, SCIM replace, patch or delete,    *)
(* and no failure of one, enables a tombstoned account again, clears its   *)
(* pointer or makes it point elsewhere (the 409 of replace_user, the check *)
(* and the PUT under one lock, _assert_active).                            *)
(***************************************************************************)
TombstoneIsFinal ==
  [][\A u \in Users :
       Tombstoned(u) => ~enabled'[u] /\ mergedInto'[u] = mergedInto[u]]_vars

(***************************************************************************)
(* Once merge_completed is recorded the merge stays done: the duplicate is *)
(* disabled, points to the survivor and owns nothing, whatever ran since.  *)
(***************************************************************************)
CompletedMergeHolds ==
  \A e \in audit :
    e.type = "completed" =>
      /\ ~enabled[e.duplicate]
      /\ mergedInto[e.duplicate] = e.survivor
      /\ holds[e.duplicate] = {}

(***************************************************************************)
(* Survivor wins: no account ever holds two links of one provider, and no  *)
(* role or group twice, however often merges fail half-way and are rerun.  *)
(***************************************************************************)
SlotsStayUnique == \A u \in Users : OneItemPerSlot(holds[u])

Usable(i) == \E u \in Users : enabled[u] /\ i \in holds[u]

\* Worker w's SCIM request disables an account that holds i.
ScimDisables(w, i) ==
  /\ pc[w] \in {"put", "patch", "delete"}
  /\ enabled[req[w].user] /\ i \in holds[req[w].user]
  /\ ~enabled'[req[w].user]

\* Worker w's merge gives i up for what its survivor has in the same slot.
SurvivorWins(w, i) ==
  /\ pc[w] = "move" /\ pc'[w] = "record" /\ moving'[w] = i
  /\ i \in holds[req[w].duplicate]
  /\ enabled'[req[w].survivor]
  /\ \E j \in holds'[req[w].survivor] : SameSlot(i, j)

(***************************************************************************)
(* The very link, role or group that some enabled account holds is lost to *)
(* all enabled accounts in two ways only: a SCIM request disables an       *)
(* account that holds it, or a merge finds the slot taken on its survivor, *)
(* which is active and keeps its own item there, and is about to record    *)
(* this item as the conflict.  No other step of a merge, and no merge cut  *)
(* short, makes it unusable (the add comes before the remove).             *)
(***************************************************************************)
MergeLosesNothing ==
  [][\A i \in Items :
       Usable(i) /\ ~Usable(i)' =>
         \E w \in Workers : ScimDisables(w, i) \/ SurvivorWins(w, i)]_vars

(***************************************************************************)
(* The provisioning system's externalId of an account changes only to what *)
(* a SCIM PUT of that account says: the read-modify-write of the attribute *)
(* map in set_user_attribute never writes back a stale value.              *)
(***************************************************************************)
ExternalIdFromScim ==
  [][\A u \in Users :
       externalId'[u] # externalId[u] =>
         \E w \in Workers :
           /\ pc[w] = "put"
           /\ req[w].user = u
           /\ externalId'[u] = req[w].externalId]_vars

SameAddress(a, b) ==
  /\ NoEmail \notin {email[a], email[b]}
  /\ email[a].address = email[b].address
  /\ email[a].address # Blank

Tied(s, d, explicitLink) ==
  \/ \E i \in holds[s] \cap holds[d] : i.kind = "link"
  \/ SameAddress(s, d) /\ verified[s] /\ verified[d]
  \/ explicitLink /\ ~SameAddress(s, d)

(***************************************************************************)
(* A merge mutates only accounts that are both active and, at the moment   *)
(* it starts, tied by a shared link, by one address both sides verified,   *)
(* or by an operator's word for two accounts with no address in common:    *)
(* what decide_match was told is still so when the first mutation happens. *)
(***************************************************************************)
MergeJustified ==
  \A w \in Workers :
    /\ pc[w] = "start" =>
         Tied(req[w].survivor, req[w].duplicate, req[w].explicitLink)
    /\ pc[w] \in MergeSteps \ {"load", "list"} => enabled[req[w].survivor]
    /\ pc[w] \in {"start", "move", "detach", "record", "stamp", "disable"}
         => enabled[req[w].duplicate]

(***************************************************************************)
(* Whoever follows the pointers from any account comes to the end of them: *)
(* no set of accounts has all its pointers inside it, so there is neither  *)
(* a circle of merged accounts nor an endless chain.                       *)
(***************************************************************************)
PointersEnd ==
  \A chain \in (SUBSET Users) \ {{}} : \E u \in chain : mergedInto[u] \notin chain

(***************************************************************************)
(* As long as no call failed, following the pointers of merged accounts    *)
(* ends at an account that was not merged away, and whenever no operation  *)
(* is under way each pointer has its row in the audit table (_tombstone).  *)
(***************************************************************************)
PointersResolve ==
  faults = 0 =>
    /\ PointersEnd
    /\ lock = NoWorker =>
         \A u \in Users : mergedInto[u] # NoUser =>
           \E e \in audit : /\ e.type = "tombstoned"
                            /\ e.duplicate = u
                            /\ e.survivor = mergedInto[u]

(***************************************************************************)
(* Every request is answered: a worker that waits for the lock or holds it *)
(* gets back to idle.                                                      *)
(***************************************************************************)
RequestsAnswered == \A w \in Workers : pc[w] # "idle" ~> pc[w] = "idle"

-----------------------------------------------------------------------------
(* The inductive invariant behind the safety properties *)

Exclusive == \A w \in Workers : pc[w] \in Locked <=> lock = w

Distinct(r) == r \in MergeRequest /\ r.survivor # r.duplicate

RequestFitsStep(w) ==
  /\ pc[w] = "wait" => req[w] \in Requests /\
                       (req[w].op = "merge" => Distinct(req[w]))
  /\ pc[w] \in MergeSteps => Distinct(req[w])
  /\ pc[w] \in {"check", "put"} => req[w] \in PutRequest
  /\ pc[w] = "patch" => req[w] \in PatchRequest
  /\ pc[w] = "delete" => req[w] \in DeleteRequest

KindsDone(kind) ==
  {k \in Kinds : \/ kind = "role" /\ k = "link"
                 \/ kind = "group" /\ k # "group"}

(***************************************************************************)
(* What a worker knows of accounts s and d while it moves items: every     *)
(* item left on d is of a kind not yet done, and on the list if it is of   *)
(* the current kind; a listed item whose slot s has is a known conflict or *)
(* the one just attached; the slots taken at the start still are.          *)
(***************************************************************************)
MoveInProgress(w, s, d) ==
  /\ OneItemPerSlot(todo[w])
  /\ \A i \in todo[w] : i.kind = moveKind[w]
  /\ \A i \in holds[d] : i.kind \notin KindsDone(moveKind[w])
  /\ \A i \in holds[d] : i.kind = moveKind[w] => i \in todo[w]
  /\ \A i \in todo[w] : \A j \in holds[s] :
       SameSlot(i, j) =>
         \/ \E k \in taken[w] : SameSlot(i, k)
         \/ pc[w] \in {"detach", "record"} /\ i = moving[w]
  /\ \A i \in taken[w] : \E j \in holds[s] : SameSlot(i, j)
  /\ pc[w] \in {"detach", "record"} => moving[w] \in todo[w]
  /\ pc[w] = "detach" => moving[w] \in holds[s]
  /\ pc[w] = "record" => moving[w] \notin holds[d]

MergeInProgress(w, s, d) ==
  /\ pc[w] = "list" => survivorSeen[w] = GetUser(s) /\ duplicateSeen[w] = GetUser(d)
  /\ pc[w] \in {"start", "move", "detach", "record"} => MoveInProgress(w, s, d)
  /\ pc[w] \in {"start", "move", "detach", "record", "stamp", "disable"} => enabled[d]
  /\ pc[w] \in MergeSteps \ {"load", "list"} => enabled[s]
  /\ pc[w] \in {"stamp", "disable", "record_tombstone", "complete"} => holds[d] = {}
  /\ pc[w] = "stamp" => idRead[w] = externalId[d]
  /\ pc[w] \in {"disable", "record_tombstone", "complete"} => mergedInto[d] = s
  /\ pc[w] \in {"record_tombstone", "complete"} => ~enabled[d]

Undisturbed(w) ==
  /\ RequestFitsStep(w)
  /\ pc[w] \in MergeSteps =>
       MergeInProgress(w, req[w].survivor, req[w].duplicate)
  /\ pc[w] = "put" => mergedInto[req[w].user] = NoUser

(***************************************************************************)
(* The lock is held by exactly the worker inside the critical section, and *)
(* what that worker read of the store is still so: its match, its lists of *)
(* items, its copy of the attributes and its tombstone check.  This is     *)
(* what the user-operation lock is for.                                    *)
(***************************************************************************)
LockProtects == Exclusive /\ \A w \in Workers : Undisturbed(w)

(***************************************************************************)
(* While no call failed: an account that has a pointer and is enabled is   *)
(* between the two writes of its own merge, and a pointer without its row  *)
(* in the audit table is one whose merge is about to write the row.        *)
(***************************************************************************)
PointersTracked ==
  faults = 0 =>
    /\ PointersEnd
    /\ \A u \in Users : mergedInto[u] # NoUser /\ enabled[u] =>
         \E w \in Workers : pc[w] = "disable" /\ req[w].duplicate = u
    /\ \A u \in Users : mergedInto[u] # NoUser =>
         \/ \E w \in Workers : /\ pc[w] \in {"disable", "record_tombstone"}
                               /\ req[w].duplicate = u
         \/ \E e \in audit : /\ e.type = "tombstoned"
                             /\ e.duplicate = u
                             /\ e.survivor = mergedInto[u]

IndInv ==
  TypeOK /\ LockProtects /\ SlotsStayUnique /\ CompletedMergeHolds /\ MergeJustified
=============================================================================
