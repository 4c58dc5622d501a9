------------------------ MODULE UserOperationsProofs ------------------------
(***************************************************************************)
(* Proofs about UserOperations: the type invariant; that every step of a   *)
(* merge inside the critical section, leaving it included, that taking the *)
(* lock and that the SCIM handlers keep LockProtects; what a step may do   *)
(* to the items, the flags and the attributes of an account; why a merge   *)
(* was allowed to start; the inductive invariant, and the theorems.  All   *)
(* of it holds for any sets of users, workers, items and requests and any  *)
(* number of faults.                                                       *)
(***************************************************************************)
EXTENDS UserOperations, TLAPS

(***************************************************************************)
(* A request is told apart by its op field.                                *)
(***************************************************************************)
LEMMA RequestKinds ==
  ASSUME NEW r \in Requests
  PROVE  /\ r.op = "merge" => r \in MergeRequest
         /\ r.op = "put" => r \in PutRequest
         /\ r.op = "patch" => r \in PatchRequest
         /\ r.op = "delete" => r \in DeleteRequest
         /\ r.op \in {"merge", "put", "patch", "delete"}
BY ConstantsAssumption, Zenon DEF MergeRequest, PutRequest, PatchRequest, DeleteRequest

(***************************************************************************)
(* Loading an account reads the store's enabled flag.                      *)
(***************************************************************************)
LEMMA LoadedEnabled ==
  \A u : GetUser(u).enabled = enabled[u]
BY Zenon DEF GetUser

(***************************************************************************)
(* Every start store of the configuration satisfies the type invariant.    *)
(***************************************************************************)
LEMMA InitType == Init => TypeOK
<1> SUFFICES ASSUME Init PROVE TypeOK
  OBVIOUS
<1>1. PICK store \in Stores :
        /\ present = store.present
        /\ enabled = store.enabled
        /\ externalId = store.externalId
        /\ email = store.email
        /\ verified = store.verified
        /\ holds = store.holds
  BY Zenon DEF Init
<1>2. store \in Store
  BY ConstantsAssumption, Zenon
<1>3. NoAccount \in Loaded /\ "link" \in Kinds
  BY ConstantsAssumption, Zenon DEF NoAccount, Loaded, Kinds
<1> QED
  BY <1>1, <1>2, <1>3, ConstantsAssumption
  DEF Init, TypeOK, Store, Event

(***************************************************************************)
(* Leaving the critical section is type correct.                           *)
(***************************************************************************)
LEMMA ReturnType ==
  ASSUME TypeOK, NEW w \in Workers, Return(w)
  PROVE  /\ lock' \in Workers \cup {NoWorker}
         /\ pc' \in [Workers -> Locked \cup {"idle", "wait"}]
         /\ req' \in [Workers -> Requests \cup {NoRequest}]
         /\ survivorSeen' \in [Workers -> Loaded]
         /\ duplicateSeen' \in [Workers -> Loaded]
         /\ moveKind' \in [Workers -> Kinds]
         /\ taken' \in [Workers -> SUBSET Items]
         /\ todo' \in [Workers -> SUBSET Items]
         /\ moving' \in [Workers -> Items \cup {NoItem}]
         /\ idRead' \in [Workers -> ExternalIds \cup {NoExternalId}]
<1>1. NoAccount \in Loaded /\ "link" \in Kinds
  BY ConstantsAssumption, Zenon DEF NoAccount, Loaded, Kinds
<1> QED
  BY <1>1, Zenon DEF Return, Forget, TypeOK

(***************************************************************************)
(* Every step keeps the types, given that requests fit their steps.        *)
(***************************************************************************)
LEMMA StepType == TypeOK /\ LockProtects /\ [Next]_vars => TypeOK'
<1> SUFFICES ASSUME TypeOK, LockProtects, [Next]_vars PROVE TypeOK'
  OBVIOUS
<1> USE DEF keycloak, local
<1>0. CASE UNCHANGED vars
  BY <1>0, Zenon DEF TypeOK, vars
<1>1. ASSUME NEW w \in Workers, NEW r \in Requests, Submit(w, r) PROVE TypeOK'
  BY <1>1, Zenon DEF Submit, Goto, TypeOK
<1>2. ASSUME NEW w \in Workers, AcquireLock(w) PROVE TypeOK'
  <2>1. req[w] \in Requests
    BY <1>2, Zenon DEF AcquireLock, LockProtects, Undisturbed, RequestFitsStep
  <2>2. FirstStep(req[w]) \in Locked
    BY <2>1, RequestKinds, Zenon DEF FirstStep, Locked, MergeSteps, ScimSteps
  <2> QED
    BY <1>2, <2>2, Zenon DEF AcquireLock, Goto, TypeOK
<1>3. ASSUME NEW w \in Workers, LockTimeout(w) PROVE TypeOK'
  BY <1>3, Zenon DEF LockTimeout, Goto, TypeOK
<1>4. ASSUME NEW w \in Workers, Fail(w) PROVE TypeOK'
  <2>1. faults' \in 0 .. MaxFaults
    BY <1>4, ConstantsAssumption DEF Fail, TypeOK
  <2> QED
    BY <1>4, <2>1, ReturnType, Zenon DEF Fail, TypeOK
<1>5. ASSUME NEW w \in Workers, MergeStep(w) PROVE TypeOK'
  <2> DEFINE s == req[w].survivor
             d == req[w].duplicate
  <2>1. pc[w] \in MergeSteps
    BY <1>5, Zenon DEF MergeStep, LoadUsers, CheckMatch, RecordStart, DropConflict,
       AttachItem, DetachItem, RecordItem, NextKind, ReadAttributes,
       StampTombstone, PutAttributes, DisableDuplicate, DeactivateUser, RecordTombstone, CompleteMerge, MergeSteps
  <2>2. s \in Users /\ d \in Users
    BY <2>1, ZenonT(30) DEF LockProtects, Undisturbed, RequestFitsStep, Distinct, MergeRequest
  <2>4. ASSUME NEW type \in EventTypes, NEW item \in Items \cup {NoItem},
               Emit(type, req[w], item)
        PROVE  audit' \subseteq Event
    BY <2>2, <2>4 DEF Emit, TypeOK, Event
  <2>5. CASE LoadUsers(w)
    <3>1. GetUser(s) \in Loaded /\ GetUser(d) \in Loaded
      BY <2>2, Zenon DEF GetUser, Loaded, TypeOK
    <3>2. CASE {s, d} \subseteq present
      BY <2>5, <3>1, <3>2 DEF LoadUsers, Goto, TypeOK, Locked, MergeSteps
    <3>3. CASE ~({s, d} \subseteq present)
      BY <2>5, <3>3, ReturnType, Zenon DEF LoadUsers, TypeOK
    <3> QED
      BY <3>2, <3>3, Zenon
  <2>6. CASE CheckMatch(w)
    <3>1. CASE Return(w)
      BY <2>6, <3>1, ReturnType, ZenonT(30) DEF CheckMatch, TypeOK
    <3>2. CASE ~Return(w)
      BY <2>6, <2>2, <3>2
      DEF CheckMatch, Goto, TypeOK, OfKind, Kinds, Locked, MergeSteps
    <3> QED
      BY <3>1, <3>2, ZenonT(30)
  <2>7. CASE RecordStart(w)
    <3>1. audit' \subseteq Event
      BY <2>7, <2>4, Zenon DEF RecordStart, EventTypes
    <3> QED
      BY <2>7, <3>1, Zenon DEF RecordStart, Goto, TypeOK, Locked, MergeSteps
  <2>8. CASE DropConflict(w)
    BY <2>8, <2>2
    DEF DropConflict, Goto, TypeOK, Without, Locked, MergeSteps
  <2>9. CASE AttachItem(w)
    BY <2>9, <2>2
    DEF AttachItem, Goto, TypeOK, Locked, MergeSteps
  <2>10. CASE DetachItem(w)
    BY <2>10, <2>2, Zenon
    DEF DetachItem, Goto, TypeOK, Without, Locked, MergeSteps
  <2>11. CASE RecordItem(w)
    <3>1. audit' \subseteq Event
      BY <2>11, <2>4, Zenon DEF RecordItem, EventTypes, TypeOK
    <3> QED
      BY <2>11, <3>1, Zenon DEF RecordItem, Goto, TypeOK, Locked, MergeSteps
  <2>12. CASE NextKind(w)
    BY <2>12, <2>2, Zenon DEF NextKind, TypeOK, OfKind, Kinds
  <2>13. CASE ReadAttributes(w)
    BY <2>13, <2>2, Zenon DEF ReadAttributes, Goto, TypeOK, Locked, MergeSteps
  <2>14. CASE StampTombstone(w)
    BY <2>14, <2>2, Zenon
    DEF StampTombstone, PutAttributes, Goto, TypeOK, Locked, MergeSteps
  <2>15. CASE DisableDuplicate(w)
    BY <2>15, <2>2, Zenon DEF DisableDuplicate, DeactivateUser, Goto, TypeOK, Locked, MergeSteps
  <2>16. CASE RecordTombstone(w)
    <3>1. audit' \subseteq Event
      BY <2>16, <2>4, Zenon DEF RecordTombstone, EventTypes
    <3> QED
      BY <2>16, <3>1, Zenon DEF RecordTombstone, Goto, TypeOK, Locked, MergeSteps
  <2>17. CASE CompleteMerge(w)
    <3>1. audit' \subseteq Event
      BY <2>17, <2>4, Zenon DEF CompleteMerge, EventTypes
    <3> QED
      BY <2>17, <3>1, ReturnType, Zenon DEF CompleteMerge, TypeOK
  <2> QED
    BY <1>5, <2>5, <2>6, <2>7, <2>8, <2>9, <2>10, <2>11, <2>12, <2>13, <2>14, ZenonT(30),
       <2>15, <2>16, <2>17 DEF MergeStep
<1>6. ASSUME NEW w \in Workers, ScimStep(w) PROVE TypeOK'
  <2>1. CASE CheckTombstone(w)
    <3>1. CASE Return(w)
      BY <2>1, <3>1, ReturnType, Zenon DEF CheckTombstone, TypeOK
    <3>2. CASE ~Return(w)
      BY <2>1, <3>2, Zenon DEF CheckTombstone, Goto, TypeOK, Locked, ScimSteps
    <3> QED
      BY <3>1, <3>2, Zenon
  <2>2. CASE ReplaceUser(w)
    <3>1. req[w] \in PutRequest
      BY <2>2, Zenon DEF ReplaceUser, PutUser, LockProtects, Undisturbed, RequestFitsStep
    <3> QED
      BY <2>2, <3>1, ReturnType, ZenonT(30) DEF ReplaceUser, PutUser, TypeOK, PutRequest
  <2>3. CASE PatchUser(w)
    BY <2>3, ReturnType, Zenon DEF PatchUser, DeactivateUser, TypeOK
  <2>4. CASE DeleteUser(w)
    BY <2>4, ReturnType, ZenonT(30) DEF DeleteUser, DeactivateUser, TypeOK
  <2> QED
    BY <1>6, <2>1, <2>2, <2>3, <2>4, Zenon DEF ScimStep
<1> QED
  BY <1>0, <1>1, <1>2, <1>3, <1>4, <1>5, <1>6, Zenon DEF Next

(***************************************************************************)
(* While w is in the critical section, no other worker relies on the       *)
(* store: whatever w does, what the others wait for is as before.          *)
(***************************************************************************)
LEMMA OthersUndisturbed ==
  ASSUME LockProtects,
         NEW w \in Workers, pc[w] \in Locked,
         NEW v \in Workers, v # w, pc'[v] = pc[v], req'[v] = req[v]
  PROVE  Undisturbed(v)'
<1>1. pc[v] \notin Locked
  BY Zenon DEF LockProtects, Exclusive
<1>2. RequestFitsStep(v)
  BY Zenon DEF LockProtects, Undisturbed
<1> QED
  BY <1>1, <1>2, Zenon
  DEF Undisturbed, RequestFitsStep, Locked, MergeSteps, ScimSteps

(***************************************************************************)
(* A step of w inside the critical section keeps the invariant if it keeps *)
(* w's own part of it.                                                     *)
(***************************************************************************)
LEMMA CriticalStep ==
  ASSUME TypeOK, LockProtects, NEW w \in Workers, pc[w] \in Locked,
         NEW step \in Locked, pc' = [pc EXCEPT ![w] = step],
         UNCHANGED <<lock, req>>, Undisturbed(w)'
  PROVE  LockProtects'
<1>1. Exclusive'
  BY Zenon DEF TypeOK, LockProtects, Exclusive
<1>2. ASSUME NEW v \in Workers, v # w PROVE Undisturbed(v)'
  BY <1>2, OthersUndisturbed, Zenon DEF TypeOK
<1> QED
  BY <1>1, <1>2, Zenon DEF LockProtects

(***************************************************************************)
(* Leaving the critical section keeps the invariant, whatever the step did *)
(* to the store.                                                           *)
(***************************************************************************)
LEMMA ReturnStep ==
  ASSUME TypeOK, LockProtects, NEW w \in Workers, pc[w] \in Locked, Return(w)
  PROVE  LockProtects'
<1>1. lock = w
  BY Zenon DEF LockProtects, Exclusive
<1>2. Exclusive'
  BY <1>1, ConstantsAssumption, ZenonT(30)
  DEF TypeOK, LockProtects, Exclusive, Return, Locked, MergeSteps, ScimSteps
<1>3. Undisturbed(w)'
  BY Zenon DEF TypeOK, Return, Undisturbed, RequestFitsStep, MergeSteps
<1>4. ASSUME NEW v \in Workers, v # w PROVE Undisturbed(v)'
  BY <1>4, OthersUndisturbed, ZenonT(30) DEF TypeOK, Return
<1> QED
  BY <1>2, <1>3, <1>4, Zenon DEF LockProtects

(***************************************************************************)
(* A step that touches neither the store nor the locals leaves the other   *)
(* workers as they are.                                                    *)
(***************************************************************************)
LEMMA StoreUnchanged ==
  ASSUME NEW v \in Workers, Undisturbed(v), pc'[v] = pc[v], req'[v] = req[v],
         UNCHANGED <<keycloak, local>>
  PROVE  Undisturbed(v)'
BY DEF Undisturbed, RequestFitsStep, MergeInProgress, MoveInProgress, GetUser,
   keycloak, local

-----------------------------------------------------------------------------
(* The steps inside the critical section *)

(***************************************************************************)
(* Every step of a merge keeps what the merge knows of its two accounts.   *)
(***************************************************************************)
LEMMA MergeSteps_LockProtects ==
  ASSUME TypeOK, LockProtects, SlotsStayUnique, NEW w \in Workers, MergeStep(w)
  PROVE  LockProtects'
<1> DEFINE s == req[w].survivor
           d == req[w].duplicate
<1> USE DEF keycloak, local
<1>1. pc[w] \in MergeSteps
  BY ZenonT(30) DEF MergeStep, LoadUsers, CheckMatch, RecordStart, DropConflict,
     AttachItem, DetachItem, RecordItem, NextKind, ReadAttributes,
     StampTombstone, PutAttributes, DisableDuplicate, DeactivateUser, RecordTombstone, CompleteMerge, MergeSteps
<1>2. pc[w] \in Locked
  BY <1>1, Zenon DEF Locked
<1>3. Distinct(req[w]) /\ s \in Users /\ d \in Users /\ s # d
  BY <1>1, Zenon DEF LockProtects, Undisturbed, RequestFitsStep, Distinct, MergeRequest
<1>4. MergeInProgress(w, s, d)
  BY <1>1, Zenon DEF LockProtects, Undisturbed
<1>m. pc[w] \in {"start", "move", "detach", "record"} => MoveInProgress(w, s, d)
  BY <1>4, Zenon DEF MergeInProgress
<1>t. /\ pc \in [Workers -> Locked \cup {"idle", "wait"}]
      /\ moveKind \in [Workers -> Kinds]
      /\ todo \in [Workers -> SUBSET Items] /\ taken \in [Workers -> SUBSET Items]
      /\ moving \in [Workers -> Items \cup {NoItem}]
      /\ idRead \in [Workers -> ExternalIds \cup {NoExternalId}]
      /\ survivorSeen \in [Workers -> Loaded] /\ duplicateSeen \in [Workers -> Loaded]
  BY Zenon DEF TypeOK
<1>u. /\ enabled \in [Users -> BOOLEAN] /\ holds \in [Users -> SUBSET Items]
      /\ mergedInto \in [Users -> Users \cup {NoUser}]
  BY Zenon DEF TypeOK
<1>5. ASSUME NEW step \in MergeSteps, pc' = [pc EXCEPT ![w] = step],
             UNCHANGED <<lock, req>>, MergeInProgress(w, s, d)'
      PROVE  LockProtects'
  <2>1. step \in Locked /\ pc'[w] = step
    BY <1>5, Zenon DEF Locked, TypeOK
  <2>2. Undisturbed(w)'
    BY <1>3, <1>5, <2>1, Zenon DEF Undisturbed, RequestFitsStep, MergeSteps
  <2> QED
    BY <1>2, <1>5, <2>1, <2>2, CriticalStep, ZenonT(30)
<1>6. CASE LoadUsers(w)
  <2>1. CASE Return(w)
    BY <1>2, <2>1, ReturnStep, ZenonT(60)
  <2>2. CASE ~Return(w)
    <3>1. /\ pc' = [pc EXCEPT ![w] = "list"]
          /\ survivorSeen' = [survivorSeen EXCEPT ![w] = GetUser(s)]
          /\ duplicateSeen' = [duplicateSeen EXCEPT ![w] = GetUser(d)]
          /\ UNCHANGED <<keycloak, lock, req>>
      BY <1>6, <2>2, ZenonT(60) DEF LoadUsers, Goto
    <3>2. MergeInProgress(w, s, d)'
      BY <1>t, <1>u, <3>1, ZenonT(60) DEF MergeInProgress, GetUser, MergeSteps
    <3> QED
      BY <1>5, <3>1, <3>2, Zenon DEF MergeSteps
  <2> QED
    BY <2>1, <2>2, Zenon
<1>7. CASE CheckMatch(w)
  <2>1. CASE Return(w)
    BY <1>2, <2>1, ReturnStep, Zenon
  <2>2. CASE ~Return(w)
    <3>1. /\ pc' = [pc EXCEPT ![w] = "start"]
          /\ moveKind' = [moveKind EXCEPT ![w] = "link"]
          /\ taken' = [taken EXCEPT ![w] = OfKind(holds[s], "link")]
          /\ todo' = [todo EXCEPT ![w] = OfKind(holds[d], "link")]
          /\ survivorSeen[w].enabled /\ duplicateSeen[w].enabled
          /\ UNCHANGED <<keycloak, lock, req>>
      BY <1>7, <2>2, ZenonT(60) DEF CheckMatch, Goto
    <3>2. enabled[s] /\ enabled[d]
      <4>1. pc[w] = "list"
        BY <1>7, ZenonT(30) DEF CheckMatch
      <4>2. survivorSeen[w] = GetUser(s) /\ duplicateSeen[w] = GetUser(d)
        BY <1>4, <4>1, ZenonT(30) DEF MergeInProgress
      <4> QED
        BY <3>1, <4>2, LoadedEnabled, ZenonT(30)
    <3>3. MoveInProgress(w, s, d)'
      BY <1>3, <1>t, <1>u, <3>1
      DEF SlotsStayUnique, MoveInProgress, OneItemPerSlot, SameSlot, OfKind, KindsDone
    <3>4. MergeInProgress(w, s, d)'
      BY <1>t, <1>u, <3>1, <3>2, <3>3, ZenonT(30) DEF MergeInProgress, MergeSteps
    <3> QED
      BY <1>5, <3>1, <3>4, ZenonT(60) DEF MergeSteps
  <2> QED
    BY <2>1, <2>2, Zenon
<1>8. CASE RecordStart(w)
  <2>1. /\ pc[w] = "start"
        /\ pc' = [pc EXCEPT ![w] = "move"]
        /\ UNCHANGED <<keycloak, lock, req, local>>
    BY <1>8, ZenonT(30) DEF RecordStart, Goto
  <2>2. MoveInProgress(w, s, d)'
    BY <1>m, <1>t, <2>1, ZenonT(60) DEF MoveInProgress
  <2>3. MergeInProgress(w, s, d)'
    BY <1>t, <1>u, <1>4, <2>1, <2>2, ZenonT(60) DEF MergeInProgress, MergeSteps
  <2> QED
    BY <1>5, <2>1, <2>3, Zenon DEF MergeSteps
<1>9. CASE DropConflict(w)
  <2>1. PICK i \in todo[w] :
          /\ Taken(taken[w], i)
          /\ holds' = [holds EXCEPT ![d] = Without(@, i)]
          /\ moving' = [moving EXCEPT ![w] = i]
    BY <1>9, ZenonT(30) DEF DropConflict
  <2>2. /\ pc[w] = "move"
        /\ pc' = [pc EXCEPT ![w] = "record"]
        /\ UNCHANGED <<enabled, lock, req, moveKind, taken, todo>>
    BY <1>9, Zenon DEF DropConflict, Goto
  <2>3. holds'[d] = {j \in holds[d] : ~SameSlot(j, i)} /\ holds'[s] = holds[s]
    BY <1>3, <2>1, ZenonT(30) DEF TypeOK, Without
  <2>4. MoveInProgress(w, s, d)'
    BY <1>m, <1>t, <2>1, <2>2, <2>3 DEF MoveInProgress, SameSlot
  <2>5. MergeInProgress(w, s, d)'
    BY <1>t, <1>u, <1>4, <2>2, <2>4, ZenonT(30) DEF MergeInProgress, MergeSteps
  <2> QED
    BY <1>5, <2>2, <2>5, Zenon DEF MergeSteps
<1>10. CASE AttachItem(w)
  <2>1. PICK i \in todo[w] :
          /\ ~Taken(taken[w], i)
          /\ holds' = [holds EXCEPT ![s] = @ \cup {i}]
          /\ moving' = [moving EXCEPT ![w] = i]
    BY <1>10, ZenonT(30) DEF AttachItem
  <2>2. /\ pc[w] = "move"
        /\ pc' = [pc EXCEPT ![w] = "detach"]
        /\ UNCHANGED <<enabled, lock, req, moveKind, taken, todo>>
    BY <1>10, ZenonT(30) DEF AttachItem, Goto
  <2>3. holds'[d] = holds[d] /\ holds'[s] = holds[s] \cup {i}
    BY <1>3, <2>1, ZenonT(30) DEF TypeOK
  <2>4. MoveInProgress(w, s, d)'
    <3>1. MoveInProgress(w, s, d)
      BY <1>m, <2>2, ZenonT(30)
    <3>2. /\ pc'[w] = "detach" /\ moving'[w] = i
          /\ todo'[w] = todo[w] /\ taken'[w] = taken[w] /\ moveKind'[w] = moveKind[w]
      BY <1>t, <2>1, <2>2, ZenonT(30)
    <3> QED
      BY <2>1, <2>2, <2>3, <3>1, <3>2 DEF MoveInProgress, OneItemPerSlot
  <2>5. MergeInProgress(w, s, d)'
    BY <1>t, <1>u, <1>4, <2>2, <2>4, Zenon DEF MergeInProgress, MergeSteps
  <2> QED
    BY <1>5, <2>2, <2>5, ZenonT(60) DEF MergeSteps
<1>11. CASE DetachItem(w)
  <2>1. /\ pc[w] = "detach"
        /\ pc' = [pc EXCEPT ![w] = "record"]
        /\ UNCHANGED <<enabled, lock, req, local>>
        /\ holds' = [holds EXCEPT ![d] = Without(@, moving[w])]
    BY <1>11, Zenon DEF DetachItem, Goto
  <2>2. /\ holds'[d] = {j \in holds[d] : ~SameSlot(j, moving[w])}
        /\ holds'[s] = holds[s]
    BY <1>3, <2>1, ZenonT(30) DEF TypeOK, Without
  <2>3. MoveInProgress(w, s, d)'
    BY <1>m, <1>t, <2>1, <2>2 DEF MoveInProgress, SameSlot
  <2>4. MergeInProgress(w, s, d)'
    BY <1>t, <1>u, <1>4, <2>1, <2>3, ZenonT(30) DEF MergeInProgress, MergeSteps
  <2> QED
    BY <1>5, <2>1, <2>4, ZenonT(60) DEF MergeSteps
<1>12. CASE RecordItem(w)
  <2>1. /\ pc[w] = "record"
        /\ pc' = [pc EXCEPT ![w] = "move"]
        /\ todo' = [todo EXCEPT ![w] = @ \ {moving[w]}]
        /\ UNCHANGED <<enabled, holds, lock, req, moveKind, taken>>
    BY <1>12, ZenonT(30) DEF RecordItem, Goto
  <2>2. MoveInProgress(w, s, d)'
    BY <1>m, <1>t, <2>1, ZenonT(60) DEF MoveInProgress, OneItemPerSlot
  <2>3. MergeInProgress(w, s, d)'
    BY <1>t, <1>u, <1>4, <2>1, <2>2, ZenonT(30) DEF MergeInProgress, MergeSteps
  <2> QED
    BY <1>5, <2>1, <2>3, Zenon DEF MergeSteps
<1>13. CASE NextKind(w)
  <2> DEFINE next == IF moveKind[w] = "link" THEN "role" ELSE "group"
  <2>1. /\ pc[w] = "move" /\ todo[w] = {} /\ moveKind[w] # "group"
        /\ pc' = pc
        /\ moveKind' = [moveKind EXCEPT ![w] = next]
        /\ taken' = [taken EXCEPT ![w] = OfKind(holds[s], next)]
        /\ todo' = [todo EXCEPT ![w] = OfKind(holds[d], next)]
        /\ UNCHANGED <<enabled, holds, lock, req>>
    BY <1>13, ZenonT(30) DEF NextKind
  <2>2. MoveInProgress(w, s, d)
    BY <1>4, <2>1, Zenon DEF MergeInProgress
  <2>3. moveKind[w] \in {"link", "role"}
    BY <2>1, Zenon DEF TypeOK, Kinds
  <2>4. \A i \in holds[d] : i.kind \notin KindsDone(next)
    BY <2>1, <2>2, <2>3, ZenonT(30) DEF MoveInProgress, KindsDone, Kinds
  <2>5. MoveInProgress(w, s, d)'
    BY <1>3, <1>t, <1>u, <2>1, <2>4
    DEF SlotsStayUnique, MoveInProgress, OneItemPerSlot, SameSlot, OfKind
  <2>6. MergeInProgress(w, s, d)'
    BY <1>t, <1>u, <1>4, <2>1, <2>5, ZenonT(30) DEF MergeInProgress, MergeSteps
  <2>7. pc' = [pc EXCEPT ![w] = "move"]
    BY <2>1, ZenonT(30) DEF TypeOK
  <2> QED
    BY <1>5, <2>1, <2>6, <2>7, ZenonT(30) DEF MergeSteps
<1>14. CASE ReadAttributes(w)
  <2>1. /\ pc[w] = "move" /\ todo[w] = {} /\ moveKind[w] = "group"
        /\ pc' = [pc EXCEPT ![w] = "stamp"]
        /\ idRead' = [idRead EXCEPT ![w] = externalId[d]]
        /\ UNCHANGED <<enabled, externalId, holds, lock, req>>
    BY <1>14, ZenonT(30) DEF ReadAttributes, Goto
  <2>2. holds[d] = {}
    <3>1. MoveInProgress(w, s, d)
      BY <1>4, <2>1, ZenonT(30) DEF MergeInProgress
    <3>2. \A i \in holds[d] : i.kind \in Kinds
      BY <1>3, ConstantsAssumption, ZenonT(30) DEF TypeOK
    <3>3. \A i \in holds[d] : i.kind = "group"
      BY <2>1, <3>1, <3>2, ZenonT(30) DEF MoveInProgress, KindsDone
    <3> QED
      BY <2>1, <3>1, <3>3, ZenonT(30) DEF MoveInProgress
  <2>3. MergeInProgress(w, s, d)'
    BY <1>t, <1>u, <1>4, <2>1, <2>2, ZenonT(30) DEF MergeInProgress, MergeSteps
  <2> QED
    BY <1>5, <2>1, <2>3, ZenonT(30) DEF MergeSteps
<1>15. CASE StampTombstone(w)
  <2>1. /\ pc[w] = "stamp"
        /\ pc' = [pc EXCEPT ![w] = "disable"]
        /\ mergedInto' = [mergedInto EXCEPT ![d] = s]
        /\ UNCHANGED <<enabled, holds, lock, req>>
    BY <1>15, ZenonT(30) DEF StampTombstone, PutAttributes, Goto
  <2>2. MergeInProgress(w, s, d)'
    BY <1>t, <1>u, <1>3, <1>4, <2>1, ZenonT(30) DEF MergeInProgress, MergeSteps
  <2> QED
    BY <1>5, <2>1, <2>2, Zenon DEF MergeSteps
<1>16. CASE DisableDuplicate(w)
  <2>1. /\ pc[w] = "disable"
        /\ pc' = [pc EXCEPT ![w] = "record_tombstone"]
        /\ enabled' = [enabled EXCEPT ![d] = FALSE]
        /\ UNCHANGED <<mergedInto, holds, lock, req>>
    BY <1>16, ZenonT(30) DEF DisableDuplicate, DeactivateUser, Goto
  <2>2. MergeInProgress(w, s, d)'
    BY <1>t, <1>u, <1>3, <1>4, <2>1, ZenonT(30) DEF MergeInProgress, MergeSteps
  <2> QED
    BY <1>5, <2>1, <2>2, Zenon DEF MergeSteps
<1>17. CASE RecordTombstone(w)
  <2>1. /\ pc[w] = "record_tombstone"
        /\ pc' = [pc EXCEPT ![w] = "complete"]
        /\ UNCHANGED <<enabled, mergedInto, holds, lock, req>>
    BY <1>17, ZenonT(30) DEF RecordTombstone, Goto
  <2>2. MergeInProgress(w, s, d)'
    BY <1>t, <1>u, <1>4, <2>1, ZenonT(30) DEF MergeInProgress, MergeSteps
  <2> QED
    BY <1>5, <2>1, <2>2, Zenon DEF MergeSteps
<1>18. CASE CompleteMerge(w)
  BY <1>2, <1>18, ReturnStep, Zenon DEF CompleteMerge
<1> QED
  BY <1>6, <1>7, <1>8, <1>9, <1>10, <1>11, <1>12, <1>13, <1>14, <1>15, <1>16, ZenonT(30),
     <1>17, <1>18 DEF MergeStep


(***************************************************************************)
(* Asking for the lock, getting it, giving up on it and failing keep the   *)
(* invariant.                                                              *)
(***************************************************************************)
LEMMA LockSteps ==
  ASSUME TypeOK, LockProtects, NEW w \in Workers,
         \/ \E r \in Requests : Submit(w, r)
         \/ AcquireLock(w)
         \/ LockTimeout(w)
         \/ Fail(w)
  PROVE  LockProtects'
<1>1. ASSUME NEW r \in Requests, Submit(w, r) PROVE LockProtects'
  <2>1. Exclusive'
    BY <1>1, ZenonT(30) DEF Submit, Goto, TypeOK, LockProtects, Exclusive, Locked, MergeSteps, ScimSteps
  <2>2. Undisturbed(w)'
    BY <1>1, RequestKinds, ZenonT(30)
    DEF Submit, Goto, TypeOK, Undisturbed, RequestFitsStep, Distinct, MergeSteps
  <2>3. ASSUME NEW v \in Workers, v # w PROVE Undisturbed(v)'
    BY <1>1, <2>3, StoreUnchanged, Zenon DEF Submit, Goto, TypeOK, LockProtects
  <2> QED
    BY <2>1, <2>2, <2>3, ZenonT(30) DEF LockProtects
<1>2. CASE AcquireLock(w)
  <2>1. req[w] \in Requests /\ (req[w].op = "merge" => Distinct(req[w]))
    BY <1>2, ZenonT(30) DEF AcquireLock, LockProtects, Undisturbed, RequestFitsStep
  <2>2. pc' = [pc EXCEPT ![w] = FirstStep(req[w])] /\ FirstStep(req[w]) \in Locked
    BY <1>2, <2>1, RequestKinds, Zenon
    DEF AcquireLock, Goto, FirstStep, Locked, MergeSteps, ScimSteps
  <2>3. Exclusive'
    BY <1>2, <2>2, ConstantsAssumption, Zenon DEF AcquireLock, TypeOK, LockProtects, Exclusive
  <2>4. Undisturbed(w)'
    <3>1. /\ req' = req
          /\ pc'[w] = FirstStep(req[w])
      BY <1>2, <2>2, ZenonT(30) DEF AcquireLock, TypeOK
    <3>2. CASE req[w].op = "merge"
      BY <2>1, <3>1, <3>2, ZenonT(30)
      DEF Undisturbed, FirstStep, RequestFitsStep, MergeInProgress, MergeSteps
    <3>3. CASE req[w].op # "merge"
      BY <2>1, <3>1, <3>3, RequestKinds, Zenon
      DEF Undisturbed, FirstStep, RequestFitsStep, MergeSteps
    <3> QED
      BY <3>2, <3>3, Zenon
  <2>5. ASSUME NEW v \in Workers, v # w PROVE Undisturbed(v)'
    BY <1>2, <2>5, StoreUnchanged, Zenon DEF AcquireLock, Goto, TypeOK, LockProtects
  <2> QED
    BY <2>3, <2>4, <2>5, ZenonT(30) DEF LockProtects
<1>3. CASE LockTimeout(w)
  <2>1. Exclusive'
    BY <1>3, ZenonT(30)
    DEF LockTimeout, Goto, TypeOK, LockProtects, Exclusive, Locked, MergeSteps, ScimSteps
  <2>2. Undisturbed(w)'
    BY <1>3, Zenon DEF LockTimeout, Goto, TypeOK, Undisturbed, RequestFitsStep, MergeSteps
  <2>3. ASSUME NEW v \in Workers, v # w PROVE Undisturbed(v)'
    BY <1>3, <2>3, StoreUnchanged, Zenon DEF LockTimeout, Goto, TypeOK, LockProtects
  <2> QED
    BY <2>1, <2>2, <2>3, Zenon DEF LockProtects
<1>4. CASE Fail(w)
  BY <1>4, ReturnStep, Zenon DEF Fail
<1> QED
  BY <1>1, <1>2, <1>3, <1>4, Zenon

(***************************************************************************)
(* Every step of a SCIM request keeps the invariant; the tombstone check   *)
(* of replace_user still holds when it writes.                             *)
(***************************************************************************)
LEMMA ScimSteps_LockProtects ==
  ASSUME TypeOK, LockProtects, NEW w \in Workers, ScimStep(w)
  PROVE  LockProtects'
<1>1. pc[w] \in Locked
  BY Zenon DEF ScimStep, CheckTombstone, ReplaceUser, PutUser, PatchUser, DeleteUser, DeactivateUser, Locked, ScimSteps
<1>2. CASE Return(w)
  BY <1>1, <1>2, ReturnStep, Zenon
<1>3. CASE ~Return(w)
  <2>1. /\ pc[w] = "check"
        /\ pc' = [pc EXCEPT ![w] = "put"]
        /\ mergedInto[req[w].user] = NoUser
        /\ UNCHANGED <<mergedInto, lock, req>>
    BY <1>3, Zenon DEF ScimStep, CheckTombstone, ReplaceUser, PutUser, PatchUser, DeleteUser, DeactivateUser, Goto, keycloak
  <2>2. Undisturbed(w)'
    BY <2>1, Zenon DEF TypeOK, LockProtects, Undisturbed, RequestFitsStep, MergeSteps
  <2> QED
    BY <1>1, <2>1, <2>2, CriticalStep, ZenonT(30) DEF Locked, ScimSteps
<1> QED
  BY <1>2, <1>3, ZenonT(30)

(***************************************************************************)
(* What a step may do to the items of an account: only the holder of the   *)
(* lock changes them, by adding a listed item to an active survivor that   *)
(* has no item in its slot, or by taking one from the duplicate.           *)
(***************************************************************************)
LEMMA HoldsStep ==
  ASSUME TypeOK, LockProtects, [Next]_vars, holds' # holds
  PROVE  \E w \in Workers :
           LET s == req[w].survivor
               d == req[w].duplicate
           IN  /\ pc[w] \in {"move", "detach"}
               /\ s \in Users /\ d \in Users /\ s # d /\ enabled[s]
               /\ UNCHANGED enabled
               /\ UNCHANGED <<mergedInto, audit>>
               /\ \/ \E i \in Items :
                       /\ \A j \in holds[s] : ~SameSlot(i, j)
                       /\ holds' = [holds EXCEPT ![s] = @ \cup {i}]
                  \/ \E i \in Items :
                       /\ \E j \in holds[s] : SameSlot(i, j)
                       /\ holds' = [holds EXCEPT ![d] = Without(@, i)]
<1>1. PICK w \in Workers : DropConflict(w) \/ AttachItem(w) \/ DetachItem(w)
  BY ZenonT(60) DEF Next, vars, keycloak, Submit, AcquireLock, LockTimeout, Fail, MergeStep,
     ScimStep, LoadUsers, CheckMatch, RecordStart, RecordItem, NextKind,
     ReadAttributes, StampTombstone, PutAttributes, DisableDuplicate, DeactivateUser, RecordTombstone,
     CompleteMerge, CheckTombstone, ReplaceUser, PutUser, PatchUser, DeleteUser, DeactivateUser
<1> DEFINE s == req[w].survivor
           d == req[w].duplicate
<1>2. /\ pc[w] \in {"move", "detach"}
      /\ UNCHANGED <<enabled, mergedInto, audit>>
  BY <1>1, Zenon DEF DropConflict, AttachItem, DetachItem
<1>3. s \in Users /\ d \in Users /\ s # d
  BY <1>2, Zenon DEF LockProtects, Undisturbed, RequestFitsStep, Distinct, MergeRequest, MergeSteps
<1>4. MergeInProgress(w, s, d)
  BY <1>2, Zenon DEF LockProtects, Undisturbed, MergeSteps
<1>5. enabled[s] /\ MoveInProgress(w, s, d)
  BY <1>2, <1>4, Zenon DEF MergeInProgress, MergeSteps
<1>6. todo[w] \subseteq Items
  BY Zenon DEF TypeOK
<1>7. CASE DropConflict(w)
  <2>1. PICK i \in todo[w] :
          /\ Taken(taken[w], i)
          /\ holds' = [holds EXCEPT ![d] = Without(@, i)]
    BY <1>7, ZenonT(30) DEF DropConflict
  <2>2. \E j \in holds[s] : SameSlot(i, j)
    BY <1>5, <2>1 DEF MoveInProgress, Taken, SameSlot
  <2> QED
    BY <1>2, <1>3, <1>5, <1>6, <2>1, <2>2, ZenonT(30)
<1>8. CASE AttachItem(w)
  <2>1. PICK i \in todo[w] :
          /\ ~Taken(taken[w], i)
          /\ holds' = [holds EXCEPT ![s] = @ \cup {i}]
    BY <1>8, ZenonT(30) DEF AttachItem
  <2>2. \A j \in holds[s] : ~SameSlot(i, j)
    BY <1>5, <1>8, <2>1, Zenon DEF AttachItem, MoveInProgress, Taken, SameSlot
  <2> QED
    BY <1>2, <1>3, <1>5, <1>6, <2>1, <2>2, ZenonT(30)
<1>9. CASE DetachItem(w)
  <2>1. moving[w] \in todo[w] /\ moving[w] \in holds[s]
    BY <1>5, <1>9, Zenon DEF DetachItem, MoveInProgress
  <2>2. \E j \in holds[s] : SameSlot(moving[w], j)
    BY <2>1, Zenon DEF SameSlot
  <2>3. holds' = [holds EXCEPT ![d] = Without(@, moving[w])]
    BY <1>9, Zenon DEF DetachItem
  <2> QED
    BY <1>2, <1>3, <1>5, <1>6, <2>1, <2>2, <2>3, ZenonT(30)
<1> QED
  BY <1>1, <1>7, <1>8, <1>9, ZenonT(30)

(***************************************************************************)
(* No step gives an account two items of one kind and slot.                *)
(***************************************************************************)
LEMMA StepSlots ==
  TypeOK /\ LockProtects /\ SlotsStayUnique /\ [Next]_vars => SlotsStayUnique'
<1> SUFFICES ASSUME TypeOK, LockProtects, SlotsStayUnique, [Next]_vars
             PROVE  SlotsStayUnique'
  OBVIOUS
<1>1. CASE UNCHANGED holds
  BY <1>1, Zenon DEF SlotsStayUnique
<1>2. CASE holds' # holds
  <2>1. PICK w \in Workers :
          LET s == req[w].survivor
              d == req[w].duplicate
          IN  /\ s \in Users /\ d \in Users
              /\ \/ \E i \in Items :
                      /\ \A j \in holds[s] : ~SameSlot(i, j)
                      /\ holds' = [holds EXCEPT ![s] = @ \cup {i}]
                 \/ \E i \in Items : holds' = [holds EXCEPT ![d] = Without(@, i)]
    BY <1>2, HoldsStep, Zenon
  <2> QED
    BY <2>1 DEF TypeOK, SlotsStayUnique, OneItemPerSlot, SameSlot, Without
<1> QED
  BY <1>1, <1>2, Zenon

(***************************************************************************)
(* What a step may do to the enabled flag, the pointer and the attribute   *)
(* of an account: a merge stamps its active duplicate and disables it, a   *)
(* SCIM replacement writes an account without a pointer, and patch and     *)
(* delete disable.                                                         *)
(***************************************************************************)
LEMMA FlagsStep ==
  ASSUME TypeOK, LockProtects, [Next]_vars, NEW u \in Users
  PROVE  \/ UNCHANGED <<enabled[u], mergedInto[u], externalId[u]>>
         \/ \E w \in Workers :
              /\ pc[w] = "stamp" /\ enabled[u] /\ holds[u] = {}
              /\ u = req[w].duplicate
              /\ UNCHANGED <<enabled[u], externalId[u]>>
         \/ /\ ~enabled'[u]
            /\ UNCHANGED <<mergedInto[u], externalId[u]>>
         \/ \E w \in Workers :
              /\ pc[w] = "put" /\ req[w].user = u
              /\ mergedInto[u] = NoUser
              /\ externalId'[u] \in {externalId[u], req[w].externalId}
<1>0. CASE UNCHANGED <<enabled, mergedInto, externalId>>
  BY <1>0, Zenon
<1>1. CASE ~UNCHANGED <<enabled, mergedInto, externalId>>
  <2>1. PICK w \in Workers : \/ StampTombstone(w) \/ DisableDuplicate(w)
                             \/ ReplaceUser(w) \/ PatchUser(w) \/ DeleteUser(w)
    BY <1>1, ZenonT(30)
    DEF Next, vars, keycloak, Submit, AcquireLock, LockTimeout, Fail, MergeStep,
     ScimStep, LoadUsers, CheckMatch, RecordStart, DropConflict, AttachItem,
     DetachItem, RecordItem, NextKind, ReadAttributes, RecordTombstone,
     CompleteMerge, CheckTombstone
  <2> DEFINE s == req[w].survivor
             d == req[w].duplicate
  <2>2. CASE StampTombstone(w)
    <3>1. MergeInProgress(w, s, d) /\ pc[w] = "stamp"
      BY <2>2, Zenon DEF StampTombstone, PutAttributes, LockProtects, Undisturbed, MergeSteps
    <3>2. enabled[d] /\ holds[d] = {} /\ idRead[w] = externalId[d]
      BY <3>1, Zenon DEF MergeInProgress
    <3>3. /\ mergedInto' = [mergedInto EXCEPT ![d] = s]
          /\ externalId' = [externalId EXCEPT ![d] = idRead[w]]
          /\ UNCHANGED enabled
      BY <2>2, Zenon DEF StampTombstone, PutAttributes
    <3>4. CASE u = d
      BY <3>1, <3>2, <3>3, <3>4, Zenon DEF TypeOK
    <3>5. CASE u # d
      BY <3>3, <3>5, Zenon DEF TypeOK
    <3> QED
      BY <3>4, <3>5, Zenon
  <2>3. CASE DisableDuplicate(w)
    BY <2>3, ZenonT(30) DEF DisableDuplicate, DeactivateUser, TypeOK
  <2>4. CASE ReplaceUser(w)
    <3>1. mergedInto[req[w].user] = NoUser /\ pc[w] = "put"
      BY <2>4, ZenonT(30) DEF ReplaceUser, PutUser, LockProtects, Undisturbed
    <3> QED
      BY <2>4, <3>1, Zenon DEF ReplaceUser, PutUser, TypeOK
  <2>5. CASE PatchUser(w) \/ DeleteUser(w)
    BY <2>5 DEF PatchUser, DeleteUser, DeactivateUser, TypeOK
  <2> QED
    BY <2>1, <2>2, <2>3, <2>4, <2>5, Zenon
<1> QED
  BY <1>0, <1>1, Zenon

(***************************************************************************)
(* A completed merge stays done: its duplicate is disabled and points to   *)
(* an account, so no later step has it as a survivor, stamps it again or   *)
(* replaces it.                                                            *)
(***************************************************************************)
LEMMA StepCompleted ==
  TypeOK /\ LockProtects /\ CompletedMergeHolds /\ [Next]_vars
    => CompletedMergeHolds'
<1> SUFFICES ASSUME TypeOK, LockProtects, CompletedMergeHolds, [Next]_vars,
                    NEW e \in audit', e.type = "completed"
             PROVE  /\ ~enabled'[e.duplicate]
                    /\ mergedInto'[e.duplicate] = e.survivor
                    /\ holds'[e.duplicate] = {}
  BY Zenon DEF CompletedMergeHolds
<1>1. CASE e \in audit
  <2>1. /\ e.duplicate \in Users
        /\ ~enabled[e.duplicate]
        /\ mergedInto[e.duplicate] = e.survivor
        /\ mergedInto[e.duplicate] # NoUser
        /\ holds[e.duplicate] = {}
    BY <1>1, ConstantsAssumption DEF TypeOK, Event, CompletedMergeHolds
  <2>2. ~enabled'[e.duplicate] /\ mergedInto'[e.duplicate] = e.survivor
    BY <2>1, FlagsStep, Zenon
  <2>3. holds'[e.duplicate] = {}
    <3>1. CASE holds' = holds
      BY <2>1, <3>1, Zenon
    <3>2. CASE holds' # holds
      <4>1. PICK w \in Workers :
              LET s == req[w].survivor
                  d == req[w].duplicate
              IN  /\ s \in Users /\ d \in Users /\ enabled[s]
                  /\ \/ \E i \in Items : holds' = [holds EXCEPT ![s] = @ \cup {i}]
                     \/ \E i \in Items : holds' = [holds EXCEPT ![d] = Without(@, i)]
        BY <3>2, HoldsStep, Zenon
      <4> QED
        BY <2>1, <4>1 DEF TypeOK, Without
    <3> QED
      BY <3>1, <3>2, Zenon
  <2> QED
    BY <2>2, <2>3, Zenon
<1>2. CASE e \notin audit
  <2>1. PICK w \in Workers : CompleteMerge(w)
    <3>1. PICK w \in Workers :
            \/ CompleteMerge(w)
            \/ Emit("started", req[w], NoItem)
            \/ Emit("tombstoned", req[w], NoItem)
            \/ Emit(IF Taken(taken[w], moving[w]) THEN "conflict" ELSE "moved",
                    req[w], moving[w])
      BY <1>2, ZenonT(60)
      DEF Next, vars, Submit, AcquireLock, LockTimeout, Fail, MergeStep,
        ScimStep, LoadUsers, CheckMatch, RecordStart, DropConflict, AttachItem,
        DetachItem, RecordItem, NextKind, ReadAttributes, StampTombstone, PutAttributes,
        DisableDuplicate, DeactivateUser, RecordTombstone, CheckTombstone, ReplaceUser, PutUser,
        PatchUser, DeleteUser, DeactivateUser
    <3> QED
      BY <1>2, <3>1 DEF Emit
  <2> DEFINE s == req[w].survivor
             d == req[w].duplicate
  <2>2. e.survivor = s /\ e.duplicate = d
    BY <1>2, <2>1 DEF CompleteMerge, Emit
  <2>3. pc[w] = "complete" /\ MergeInProgress(w, s, d)
    BY <2>1, Zenon DEF CompleteMerge, LockProtects, Undisturbed, MergeSteps
  <2>4. ~enabled[d] /\ mergedInto[d] = s /\ holds[d] = {}
    BY <2>3, Zenon DEF MergeInProgress
  <2> QED
    BY <2>1, <2>2, <2>4, Zenon DEF CompleteMerge, keycloak
<1> QED
  BY <1>1, <1>2, Zenon

-----------------------------------------------------------------------------
(* The verdict, the invariant and the theorems *)

(***************************************************************************)
(* A merge verdict rests on one of the three ties.                         *)
(***************************************************************************)
LEMMA VerdictTies ==
  ASSUME NEW x, NEW y, NEW explicit \in BOOLEAN,
         MergeVerdict(x, y, explicit) = "merge"
  PROVE  \/ x.links \cap y.links # {}
         \/ HaveMatchingVerifiedEmail(x, y)
         \/ explicit /\ ~SharesUnverifiedEmail(x, y)
BY Zenon DEF MergeVerdict, DecideMatch, StrongTies, SharesExactIdpSubject

(***************************************************************************)
(* A step of one worker leaves the program counters and requests of the    *)
(* others alone.                                                           *)
(***************************************************************************)
LEMMA OthersStay ==
  ASSUME TypeOK, NEW v \in Workers, NEW w \in Workers, w # v,
         \/ \E r \in Requests : Submit(v, r)
         \/ AcquireLock(v)
         \/ LockTimeout(v)
         \/ Fail(v)
         \/ MergeStep(v)
         \/ ScimStep(v)
  PROVE  pc'[w] = pc[w] /\ req'[w] = req[w]
<1> USE DEF TypeOK, Goto
<1>1. CASE Return(v)
  BY <1>1, Zenon DEF Return
<1>2. ASSUME ~Return(v), MergeStep(v) PROVE pc'[w] = pc[w] /\ req'[w] = req[w]
  <2>1. CASE LoadUsers(v) \/ CheckMatch(v)
    BY <1>2, <2>1, ZenonT(60) DEF LoadUsers, CheckMatch
  <2>2. CASE RecordStart(v) \/ DropConflict(v) \/ AttachItem(v) \/ DetachItem(v)
    BY <2>2, ZenonT(60) DEF RecordStart, DropConflict, AttachItem, DetachItem
  <2>3. CASE RecordItem(v) \/ NextKind(v) \/ ReadAttributes(v)
    BY <2>3, ZenonT(60) DEF RecordItem, NextKind, ReadAttributes
  <2>4. CASE StampTombstone(v) \/ DisableDuplicate(v) \/ RecordTombstone(v)
    BY <2>4, ZenonT(60) DEF StampTombstone, PutAttributes, DisableDuplicate, DeactivateUser, RecordTombstone
  <2> QED
    BY <1>2, <2>1, <2>2, <2>3, <2>4, ZenonT(60) DEF MergeStep, CompleteMerge
<1>3. ASSUME ~Return(v), ScimStep(v) PROVE pc'[w] = pc[w] /\ req'[w] = req[w]
  BY <1>3, ZenonT(60) DEF ScimStep, CheckTombstone, ReplaceUser, PutUser, PatchUser, DeleteUser, DeactivateUser
<1>4. ASSUME \/ \E r \in Requests : Submit(v, r)
             \/ AcquireLock(v)
             \/ LockTimeout(v)
      PROVE  pc'[w] = pc[w] /\ req'[w] = req[w]
  BY <1>4, ZenonT(60) DEF Submit, AcquireLock, LockTimeout
<1> QED
  BY <1>1, <1>2, <1>3, <1>4, Zenon DEF Fail

(***************************************************************************)
(* A worker comes to mutate only through CheckMatch, and leaves at once.   *)
(***************************************************************************)
LEMMA StartFromCheck ==
  ASSUME TypeOK, NEW w \in Workers, pc'[w] = "start",
         \/ \E r \in Requests : Submit(w, r)
         \/ AcquireLock(w) /\ LockProtects
         \/ LockTimeout(w)
         \/ Fail(w)
         \/ MergeStep(w)
         \/ ScimStep(w)
  PROVE  CheckMatch(w) /\ ~Return(w)
<1> USE DEF TypeOK, Goto
<1>1. ~Return(w)
  BY Zenon DEF Return
<1>2. ASSUME MergeStep(w) PROVE CheckMatch(w)
  <2>1. ~(RecordStart(w) \/ DropConflict(w) \/ AttachItem(w) \/ DetachItem(w))
    BY ZenonT(60) DEF RecordStart, DropConflict, AttachItem, DetachItem
  <2>2. ~(RecordItem(w) \/ NextKind(w) \/ ReadAttributes(w))
    BY ZenonT(60) DEF RecordItem, NextKind, ReadAttributes
  <2>3. ~(StampTombstone(w) \/ DisableDuplicate(w) \/ RecordTombstone(w))
    BY ZenonT(60) DEF StampTombstone, PutAttributes, DisableDuplicate, DeactivateUser, RecordTombstone
  <2>4. ~LoadUsers(w)
    BY <1>1, ZenonT(30) DEF LoadUsers
  <2> QED
    BY <1>1, <1>2, <2>1, <2>2, <2>3, <2>4, ZenonT(60) DEF MergeStep, CompleteMerge
<1>3. ~ScimStep(w)
  BY <1>1, ZenonT(60) DEF ScimStep, CheckTombstone, ReplaceUser, PutUser, PatchUser, DeleteUser, DeactivateUser
<1>4. ~(AcquireLock(w) /\ LockProtects)
  <2> SUFFICES ASSUME AcquireLock(w), LockProtects PROVE FALSE
    OBVIOUS
  <2>1. req[w] \in Requests
    BY ZenonT(60) DEF AcquireLock, LockProtects, Undisturbed, RequestFitsStep
  <2> QED
    BY <2>1, RequestKinds, Zenon DEF AcquireLock, FirstStep
<1>5. ~LockTimeout(w) /\ ~(\E r \in Requests : Submit(w, r))
  BY Zenon DEF LockTimeout, Submit
<1> QED
  BY <1>1, <1>2, <1>3, <1>4, <1>5, Zenon DEF Fail

(***************************************************************************)
(* Merges start justified and go on between active accounts.               *)
(***************************************************************************)
LEMMA StepJustified ==
  TypeOK /\ LockProtects /\ MergeJustified /\ LockProtects' /\ [Next]_vars
    => MergeJustified'
<1> SUFFICES ASSUME TypeOK, LockProtects, MergeJustified, LockProtects',
                    [Next]_vars
             PROVE  MergeJustified'
  OBVIOUS
<1>1. ASSUME NEW w \in Workers
      PROVE  /\ pc'[w] \in MergeSteps \ {"load", "list"} => enabled'[req'[w].survivor]
             /\ pc'[w] \in {"start", "move", "detach", "record", "stamp", "disable"}
                  => enabled'[req'[w].duplicate]
  BY ZenonT(60) DEF LockProtects, Undisturbed, MergeInProgress, MergeSteps
<1>2. ASSUME NEW w \in Workers, pc'[w] = "start"
      PROVE  Tied(req[w].survivor, req[w].duplicate, req[w].explicitLink)'
  <2>1. CASE UNCHANGED vars
    BY <1>2, <2>1, ZenonT(60) DEF MergeJustified, Tied, SameAddress, vars, keycloak
  <2>2. ASSUME NEW v \in Workers, v # w,
               \/ \E r \in Requests : Submit(v, r)
               \/ AcquireLock(v)
               \/ LockTimeout(v)
               \/ Fail(v)
               \/ MergeStep(v)
               \/ ScimStep(v)
        PROVE  Tied(req[w].survivor, req[w].duplicate, req[w].explicitLink)'
    <3>1. pc[w] = "start" /\ req'[w] = req[w]
      BY <1>2, <2>2, OthersStay, Zenon
    <3>2. pc[v] \notin Locked
      BY <2>2, <3>1, Zenon DEF LockProtects, Exclusive, Locked, MergeSteps
    <3>3. ~Fail(v) /\ ~ScimStep(v)
      BY <3>2, ZenonT(30) DEF Fail, ScimStep, CheckTombstone, ReplaceUser, PutUser, PatchUser,
        DeleteUser, DeactivateUser, Locked, ScimSteps
    <3>4. ~MergeStep(v)
      BY <3>2, ZenonT(30) DEF MergeStep, LoadUsers, CheckMatch, RecordStart,
          DropConflict, AttachItem, DetachItem, RecordItem, NextKind,
          ReadAttributes, StampTombstone, PutAttributes, DisableDuplicate, DeactivateUser, RecordTombstone,
          CompleteMerge, Locked, MergeSteps
    <3>5. UNCHANGED <<holds, email, verified>>
      BY <2>2, <3>3, <3>4, ZenonT(30) DEF Submit, AcquireLock, LockTimeout, keycloak
    <3> QED
      BY <3>1, <3>5, Zenon DEF MergeJustified, Tied, SameAddress
  <2>3. ASSUME CheckMatch(w), ~Return(w)
        PROVE  Tied(req[w].survivor, req[w].duplicate, req[w].explicitLink)'
    <3> DEFINE s == req[w].survivor
               d == req[w].duplicate
               x == WithLinks(survivorSeen[w], OfKind(holds[s], "link"))
               y == WithLinks(duplicateSeen[w], OfKind(holds[d], "link"))
    <3>1. /\ MergeVerdict(x, y, req[w].explicitLink) = "merge"
          /\ UNCHANGED <<holds, email, verified, req>>
          /\ pc[w] = "list"
      BY <2>3, ZenonT(30) DEF CheckMatch, keycloak
    <3>2. /\ Distinct(req[w])
          /\ MergeInProgress(w, s, d)
      BY <3>1, ZenonT(30) DEF LockProtects, Undisturbed, RequestFitsStep, MergeSteps
    <3>3. /\ survivorSeen[w] = GetUser(s)
          /\ duplicateSeen[w] = GetUser(d)
      BY <3>1, <3>2, ZenonT(30) DEF MergeInProgress
    <3>4. /\ x.links = OfKind(holds[s], "link") /\ y.links = OfKind(holds[d], "link")
          /\ x.email = email[s] /\ y.email = email[d]
          /\ x.verified = verified[s] /\ y.verified = verified[d]
      BY <3>3 DEF WithLinks, GetUser
    <3>5. req[w].explicitLink \in BOOLEAN
      BY <3>2, ZenonT(30) DEF Distinct, MergeRequest
    <3>6. \/ x.links \cap y.links # {}
          \/ HaveMatchingVerifiedEmail(x, y)
          \/ req[w].explicitLink /\ ~SharesUnverifiedEmail(x, y)
      BY <3>1, <3>5, VerdictTies, ZenonT(30)
    <3>7. Tied(s, d, req[w].explicitLink)
      <4>1. CASE x.links \cap y.links # {}
        BY <3>4, <4>1, ZenonT(30) DEF Tied, OfKind
      <4>2. CASE HaveMatchingVerifiedEmail(x, y)
        BY <3>4, <4>2, ZenonT(30) DEF Tied, SameAddress, HaveMatchingVerifiedEmail, NormalizeEmail
      <4>3. CASE req[w].explicitLink /\ ~SharesUnverifiedEmail(x, y)
        <5>1. email[s] \in Emails
          BY <3>2, Zenon DEF TypeOK, Distinct, MergeRequest
        <5> QED
          BY <3>4, <4>3, <5>1, ConstantsAssumption, ZenonT(30)
          DEF Tied, SameAddress, SharesUnverifiedEmail,
              HaveMatchingVerifiedEmail, NormalizeEmail
      <4> QED
        BY <3>6, <4>1, <4>2, <4>3, ZenonT(30)
    <3> QED
      BY <3>1, <3>7, ZenonT(30) DEF Tied, SameAddress
  <2> QED
    BY <1>2, <2>1, <2>2, <2>3, StartFromCheck, ZenonT(60) DEF Next
<1> QED
  BY <1>1, <1>2, Zenon DEF MergeJustified

-----------------------------------------------------------------------------
(***************************************************************************)
(* The inductive invariant holds at the start and is kept by every step.   *)
(***************************************************************************)
LEMMA InitInv == Init => IndInv
<1> SUFFICES ASSUME Init PROVE IndInv
  OBVIOUS
<1>1. TypeOK
  BY InitType, Zenon
<1>2. LockProtects
  BY ConstantsAssumption, Zenon
  DEF Init, LockProtects, Exclusive, Undisturbed, RequestFitsStep, Locked, MergeSteps, ScimSteps
<1>3. SlotsStayUnique
  BY ConstantsAssumption, Zenon DEF Init, SlotsStayUnique
<1>4. CompletedMergeHolds /\ MergeJustified
  BY Zenon DEF Init, CompletedMergeHolds, MergeJustified, MergeSteps
<1> QED
  BY <1>1, <1>2, <1>3, <1>4, Zenon DEF IndInv

(***************************************************************************)
(* Every step of a merge, of a SCIM handler and of the lock, and every     *)
(* failure of one, preserves the inductive invariant.                      *)
(***************************************************************************)
LEMMA StepInv == IndInv /\ [Next]_vars => IndInv'
<1> SUFFICES ASSUME IndInv, [Next]_vars PROVE IndInv'
  OBVIOUS
<1> USE DEF IndInv
<1>1. TypeOK'
  BY StepType, Zenon
<1>2. LockProtects'
  <2>1. CASE UNCHANGED vars
    <3>1. \A w \in Workers : Undisturbed(w)'
      BY <2>1, StoreUnchanged, Zenon DEF vars, LockProtects
    <3> QED
      BY <2>1, <3>1, Zenon DEF vars, LockProtects, Exclusive
  <2>2. CASE Next
    BY <2>2, LockSteps, MergeSteps_LockProtects, ScimSteps_LockProtects, Zenon DEF Next
  <2> QED
    BY <2>1, <2>2, Zenon
<1>3. SlotsStayUnique'
  BY StepSlots, Zenon
<1>4. CompletedMergeHolds'
  BY StepCompleted, Zenon
<1>5. MergeJustified'
  BY <1>2, StepJustified, Zenon
<1> QED
  BY <1>1, <1>2, <1>3, <1>4, <1>5, Zenon

(***************************************************************************)
(* The inductive invariant holds of every behaviour of the handlers, for   *)
(* any number of users, workers, items and faults.                         *)
(***************************************************************************)
THEOREM Invariant == Spec => []IndInv
BY InitInv, StepInv, PTL DEF Spec

(***************************************************************************)
(* Type correctness of merge, SCIM and lock steps.                         *)
(***************************************************************************)
THEOREM TypeCorrect == Spec => []TypeOK
BY Invariant, PTL DEF IndInv

(***************************************************************************)
(* The user-operation lock does what it is for: what a merge or a SCIM     *)
(* replacement read is still so when it writes.                            *)
(***************************************************************************)
THEOREM LockProtectsHolds == Spec => []LockProtects
BY Invariant, PTL DEF IndInv

(***************************************************************************)
(* No account ever gets two links of one provider or a role or group       *)
(* twice, whatever fails and is rerun.                                     *)
(***************************************************************************)
THEOREM SlotsUnique == Spec => []SlotsStayUnique
BY Invariant, PTL DEF IndInv

(***************************************************************************)
(* A merge recorded as completed stays done.                               *)
(***************************************************************************)
THEOREM CompletedMergeStays == Spec => []CompletedMergeHolds
BY Invariant, PTL DEF IndInv

(***************************************************************************)
(* A merge mutates only accounts that are active and tied.                 *)
(***************************************************************************)
THEOREM MergesAreJustified == Spec => []MergeJustified
BY Invariant, PTL DEF IndInv

(***************************************************************************)
(* A tombstone is final.                                                   *)
(***************************************************************************)
THEOREM TombstonesAreFinal == Spec => TombstoneIsFinal
<1>1. ASSUME IndInv, [Next]_vars, NEW u \in Users, Tombstoned(u)
      PROVE  ~enabled'[u] /\ mergedInto'[u] = mergedInto[u]
  BY <1>1, FlagsStep, Zenon DEF IndInv, Tombstoned
<1>2. IndInv /\ [Next]_vars =>
        [\A u \in Users :
           Tombstoned(u) => ~enabled'[u] /\ mergedInto'[u] = mergedInto[u]]_vars
  BY <1>1, Zenon
<1> QED
  BY <1>2, Invariant, PTL DEF Spec, TombstoneIsFinal

(***************************************************************************)
(* scim_external_id changes only to what a SCIM replacement says.          *)
(***************************************************************************)
THEOREM ExternalIdsFromScim == Spec => ExternalIdFromScim
<1>1. ASSUME IndInv, [Next]_vars, NEW u \in Users, externalId'[u] # externalId[u]
      PROVE  \E w \in Workers : /\ pc[w] = "put"
                                /\ req[w].user = u
                                /\ externalId'[u] = req[w].externalId
  BY <1>1, FlagsStep, Zenon DEF IndInv
<1>2. IndInv /\ [Next]_vars =>
        [\A u \in Users :
           externalId'[u] # externalId[u] =>
             \E w \in Workers : /\ pc[w] = "put"
                                /\ req[w].user = u
                                /\ externalId'[u] = req[w].externalId]_vars
  BY <1>1, Zenon
<1> QED
  BY <1>2, Invariant, PTL DEF Spec, ExternalIdFromScim

(***************************************************************************)
(* Taking an item from the duplicate leaves every other item, and what the *)
(* other accounts hold (the loops of the three _move helpers).             *)
(***************************************************************************)
LEMMA ItemTaken ==
  ASSUME IndInv, NEW w \in Workers, pc[w] \in {"move", "detach"},
         NEW k \in todo[w], NEW u \in Users, NEW i \in holds[u],
         holds' = [holds EXCEPT ![req[w].duplicate] = Without(@, k)],
         i \notin holds'[u]
  PROVE  i = k /\ u = req[w].duplicate
<1>1. MoveInProgress(w, req[w].survivor, req[w].duplicate)
  BY ZenonT(30) DEF IndInv, LockProtects, Undisturbed, MergeInProgress, MergeSteps
<1>2. u = req[w].duplicate /\ SameSlot(i, k)
  BY ZenonT(30) DEF IndInv, TypeOK, Without
<1>3. k.kind = moveKind[w] /\ i \in todo[w]
  BY <1>1, <1>2, ZenonT(30) DEF MoveInProgress, SameSlot
<1> QED
  BY <1>1, <1>2, <1>3, ZenonT(30) DEF MoveInProgress, OneItemPerSlot

(***************************************************************************)
(* A link, role or group an active account holds is lost only to a SCIM    *)
(* request that disables its owner, or as the conflict a merge is about to *)
(* record while its active survivor keeps an item in the same slot.        *)
(***************************************************************************)
THEOREM MergesLoseNothing == Spec => MergeLosesNothing
<1>1. ASSUME IndInv, [Next]_vars, NEW i \in Items, Usable(i), ~Usable(i)'
      PROVE  \E w \in Workers : ScimDisables(w, i) \/ SurvivorWins(w, i)
  <2>1. PICK u \in Users : enabled[u] /\ i \in holds[u]
    BY <1>1, Zenon DEF Usable
  <2>2. ~(enabled'[u] /\ i \in holds'[u])
    BY <1>1, Zenon DEF Usable
  <2>3. CASE holds' # holds
    <3>1. PICK w \in Workers : DropConflict(w) \/ AttachItem(w) \/ DetachItem(w)
      BY <1>1, <2>3, ZenonT(60)
      DEF Next, vars, keycloak, Submit, AcquireLock, LockTimeout, Fail, MergeStep,
        ScimStep, LoadUsers, CheckMatch, RecordStart, RecordItem, NextKind,
        ReadAttributes, StampTombstone, PutAttributes, DisableDuplicate, DeactivateUser,
        RecordTombstone, CompleteMerge, CheckTombstone, ReplaceUser, PutUser, PatchUser,
        DeleteUser
    <3> DEFINE s == req[w].survivor
               d == req[w].duplicate
    <3>2. pc[w] \in {"move", "detach"} /\ UNCHANGED <<enabled, req>>
      BY <3>1, Zenon DEF DropConflict, AttachItem, DetachItem
    <3>3. s \in Users /\ d \in Users /\ s # d
      BY <1>1, <3>2, Zenon
      DEF IndInv, LockProtects, Undisturbed, RequestFitsStep, Distinct, MergeRequest, MergeSteps
    <3>4. enabled[s] /\ MoveInProgress(w, s, d)
      BY <1>1, <3>2, Zenon DEF IndInv, LockProtects, Undisturbed, MergeInProgress, MergeSteps
    <3>5. i \notin holds'[u]
      BY <2>1, <2>2, <3>2, Zenon
    <3>6. CASE AttachItem(w)
      <4>1. PICK k \in todo[w] : holds' = [holds EXCEPT ![s] = @ \cup {k}]
        BY <3>6, ZenonT(30) DEF AttachItem
      <4>2. i \in holds'[u]
        BY <1>1, <2>1, <3>3, <4>1, ZenonT(30) DEF IndInv, TypeOK
      <4> QED
        BY <3>5, <4>2, Zenon
    <3>7. CASE DetachItem(w)
      <4>1. moving[w] \in todo[w] /\ moving[w] \in holds[s]
        BY <3>4, <3>7, Zenon DEF DetachItem, MoveInProgress
      <4>2. holds' = [holds EXCEPT ![d] = Without(@, moving[w])]
        BY <3>7, Zenon DEF DetachItem
      <4>3. i = moving[w]
        BY <1>1, <2>1, <3>2, <3>5, <4>1, <4>2, ItemTaken, Zenon
      <4>4. i \in holds'[s]
        BY <1>1, <3>3, <4>1, <4>2, <4>3, Zenon DEF IndInv, TypeOK
      <4> QED
        BY <1>1, <3>2, <3>3, <3>4, <4>4, Zenon DEF Usable
    <3>8. CASE DropConflict(w)
      <4>1. PICK k \in todo[w] :
              /\ Taken(taken[w], k)
              /\ holds' = [holds EXCEPT ![d] = Without(@, k)]
              /\ moving' = [moving EXCEPT ![w] = k]
        BY <3>8, ZenonT(30) DEF DropConflict
      <4>2. i = k /\ u = d
        BY <1>1, <2>1, <3>2, <3>5, <4>1, ItemTaken, Zenon
      <4>3. \E j \in holds[s] : SameSlot(i, j)
        BY <3>4, <4>1, <4>2, ZenonT(40) DEF MoveInProgress, Taken, SameSlot
      <4>4. holds'[s] = holds[s] /\ moving'[w] = i
        BY <1>1, <3>3, <4>1, <4>2, Zenon DEF IndInv, TypeOK
      <4>5. pc[w] = "move" /\ pc'[w] = "record"
        BY <1>1, <3>8, Zenon DEF DropConflict, Goto, IndInv, TypeOK
      <4>6. SurvivorWins(w, i)
        BY <2>1, <3>2, <3>4, <4>2, <4>3, <4>4, <4>5, Zenon DEF SurvivorWins
      <4> QED
        BY <4>6, Zenon
    <3> QED
      BY <3>1, <3>6, <3>7, <3>8, Zenon
  <2>4. CASE holds' = holds
    <3>1. ~enabled'[u] /\ enabled' # enabled
      BY <2>1, <2>2, <2>4, Zenon
    <3>2. PICK w \in Workers : \/ DisableDuplicate(w) \/ ReplaceUser(w)
                               \/ PatchUser(w) \/ DeleteUser(w)
      BY <1>1, <3>1, ZenonT(60)
      DEF Next, vars, keycloak, Submit, AcquireLock, LockTimeout, Fail, MergeStep,
        ScimStep, LoadUsers, CheckMatch, RecordStart, DropConflict, AttachItem,
        DetachItem, RecordItem, NextKind, ReadAttributes, StampTombstone, PutAttributes,
        RecordTombstone, CompleteMerge, CheckTombstone
    <3>3. CASE DisableDuplicate(w)
      <4>1. holds[req[w].duplicate] = {}
        BY <1>1, <3>3, ZenonT(30)
        DEF DisableDuplicate, IndInv, LockProtects, Undisturbed, MergeInProgress, MergeSteps
      <4>2. u = req[w].duplicate
        BY <1>1, <2>1, <3>1, <3>3, Zenon DEF DisableDuplicate, DeactivateUser, IndInv, TypeOK
      <4> QED
        BY <2>1, <4>1, <4>2, Zenon
    <3>4. CASE ReplaceUser(w) \/ PatchUser(w) \/ DeleteUser(w)
      <4>1. pc[w] \in {"put", "patch", "delete"}
        BY <3>4, Zenon DEF ReplaceUser, PatchUser, DeleteUser
      <4>2. u = req[w].user
        BY <1>1, <2>1, <3>1, <3>4, ZenonT(30)
        DEF ReplaceUser, PutUser, PatchUser, DeleteUser, DeactivateUser, IndInv, TypeOK
      <4>3. ScimDisables(w, i)
        BY <2>1, <3>1, <4>1, <4>2, Zenon DEF ScimDisables
      <4> QED
        BY <4>3, Zenon
    <3> QED
      BY <3>2, <3>3, <3>4, Zenon
  <2> QED
    BY <2>3, <2>4, Zenon
<1>2. IndInv /\ [Next]_vars =>
        [\A i \in Items :
           Usable(i) /\ ~Usable(i)' =>
             \E w \in Workers : ScimDisables(w, i) \/ SurvivorWins(w, i)]_vars
  BY <1>1, Zenon
<1> QED
  BY <1>2, Invariant, PTL DEF Spec, MergeLosesNothing

-----------------------------------------------------------------------------
(***************************************************************************)
(* A worker at a step other than the three of _tombstone writes no pointer *)
(* and no row away, and enables no account that has a pointer: replace_user*)
(* found none on its account, under the same lock.                         *)
(***************************************************************************)
LEMMA OrdinaryStep ==
  ASSUME TypeOK, LockProtects, NEW w \in Workers,
         \/ \E r \in Requests : Submit(w, r)
         \/ AcquireLock(w)
         \/ LockTimeout(w)
         \/ MergeStep(w)
         \/ ScimStep(w),
         pc[w] \notin {"stamp", "disable", "record_tombstone"}
  PROVE  /\ mergedInto' = mergedInto
         /\ audit \subseteq audit'
         /\ \A u \in Users : mergedInto[u] # NoUser /\ enabled'[u] => enabled[u]
<1>1. CASE \E r \in Requests : Submit(w, r)
  BY <1>1, Zenon DEF Submit, keycloak
<1>2. CASE AcquireLock(w) \/ LockTimeout(w)
  BY <1>2, Zenon DEF AcquireLock, LockTimeout, keycloak
<1>3. CASE MergeStep(w)
  <2>1. UNCHANGED <<mergedInto, enabled>>
    BY <1>3, ZenonT(30) DEF MergeStep, LoadUsers, CheckMatch, RecordStart,
      DropConflict, AttachItem, DetachItem, RecordItem, NextKind, ReadAttributes,
      StampTombstone, DisableDuplicate, RecordTombstone, CompleteMerge, keycloak
  <2>2. audit \subseteq audit'
    BY <1>3, ZenonT(30) DEF MergeStep, LoadUsers, CheckMatch, RecordStart,
      DropConflict, AttachItem, DetachItem, RecordItem, NextKind, ReadAttributes,
      StampTombstone, DisableDuplicate, RecordTombstone, CompleteMerge, Emit
  <2> QED
    BY <2>1, <2>2, Zenon
<1>4. CASE CheckTombstone(w)
  BY <1>4, Zenon DEF CheckTombstone, keycloak
<1>5. CASE ReplaceUser(w)
  <2>1. pc[w] = "put"
    BY <1>5, Zenon DEF ReplaceUser
  <2>2. /\ req[w].user \in Users
        /\ mergedInto[req[w].user] = NoUser
    BY <2>1, ZenonT(30) DEF LockProtects, Undisturbed, RequestFitsStep, PutRequest
  <2>3. mergedInto' = mergedInto
    BY <1>5, <2>2 DEF ReplaceUser, PutUser, TypeOK
  <2>4. \A u \in Users : u # req[w].user => enabled'[u] = enabled[u]
    BY <1>5, <2>2, Zenon DEF ReplaceUser, PutUser, TypeOK
  <2>5. audit' = audit
    BY <1>5, Zenon DEF ReplaceUser
  <2> QED
    BY <2>2, <2>3, <2>4, <2>5, Zenon
<1>6. CASE PatchUser(w) \/ DeleteUser(w)
  <2>1. /\ UNCHANGED <<mergedInto, audit>>
        /\ enabled' = enabled \/ enabled' = DeactivateUser(req[w].user)
    BY <1>6, ZenonT(30) DEF PatchUser, DeleteUser
  <2>2. \A u \in Users : enabled'[u] => enabled[u]
    BY <2>1 DEF DeactivateUser, TypeOK
  <2> QED
    BY <2>1, <2>2, Zenon
<1> QED
  BY <1>1, <1>2, <1>3, <1>4, <1>5, <1>6, Zenon DEF ScimStep

(***************************************************************************)
(* A new pointer to an account that has none closes no circle.             *)
(***************************************************************************)
LEMMA StampKeepsEnd ==
  ASSUME TypeOK, PointersEnd, NEW s \in Users, NEW d \in Users, s # d,
         mergedInto[s] = NoUser,
         mergedInto' = [mergedInto EXCEPT ![d] = s]
  PROVE  PointersEnd'
<1> SUFFICES ASSUME NEW chain \in (SUBSET Users) \ {{}}
             PROVE  \E u \in chain : mergedInto'[u] \notin chain
  BY Zenon DEF PointersEnd
<1>1. CASE s \in chain
  <2>1. mergedInto'[s] = NoUser
    BY Zenon DEF TypeOK
  <2> QED
    BY <1>1, <2>1, ConstantsAssumption, Zenon
<1>2. CASE s \notin chain /\ d \in chain
  <2>1. mergedInto'[d] = s
    BY Zenon DEF TypeOK
  <2> QED
    BY <1>2, <2>1, Zenon
<1>3. CASE s \notin chain /\ d \notin chain
  <2>1. PICK u \in chain : mergedInto[u] \notin chain
    BY Zenon DEF PointersEnd
  <2>2. mergedInto'[u] = mergedInto[u]
    BY <1>3, <2>1, Zenon DEF TypeOK
  <2> QED
    BY <2>1, <2>2, Zenon
<1> QED
  BY <1>1, <1>2, <1>3, Zenon

(***************************************************************************)
(* Every step that does not fail keeps track of the pointers.              *)
(***************************************************************************)
LEMMA StepPointers ==
  IndInv /\ IndInv' /\ PointersTracked /\ [Next]_vars => PointersTracked'
<1> SUFFICES ASSUME IndInv, IndInv', PointersTracked, [Next]_vars, faults' = 0
             PROVE  PointersTracked'
  BY Zenon DEF PointersTracked
<1> DEFINE Done(u) == \E e \in audit : /\ e.type = "tombstoned"
                                       /\ e.duplicate = u
                                       /\ e.survivor = mergedInto[u]
           Stamped(w, u) == pc[w] = "disable" /\ req[w].duplicate = u
           Disabled(w, u) == pc[w] = "record_tombstone" /\ req[w].duplicate = u
<1>1. CASE UNCHANGED vars
  BY <1>1, ZenonT(30) DEF PointersTracked, PointersEnd, vars, keycloak
<1>2. ASSUME NEW w \in Workers,
             \/ \E r \in Requests : Submit(w, r)
             \/ AcquireLock(w)
             \/ LockTimeout(w)
             \/ MergeStep(w)
             \/ ScimStep(w)
      PROVE  PointersTracked'
  <2>1. faults = 0
    BY <1>2, ZenonT(30) DEF Submit, AcquireLock, LockTimeout, MergeStep, ScimStep,
      LoadUsers, CheckMatch, RecordStart, DropConflict, AttachItem, DetachItem,
      RecordItem, NextKind, ReadAttributes, StampTombstone, DisableDuplicate,
      RecordTombstone, CompleteMerge, CheckTombstone, ReplaceUser, PatchUser, DeleteUser
  <2>2. /\ PointersEnd
        /\ \A u \in Users : mergedInto[u] # NoUser /\ enabled[u] =>
             \E v \in Workers : Stamped(v, u)
        /\ \A u \in Users : mergedInto[u] # NoUser =>
             \/ \E v \in Workers : Stamped(v, u) \/ Disabled(v, u)
             \/ Done(u)
    BY <2>1, ZenonT(30) DEF PointersTracked
  <2>3. \A v \in Workers : v # w => pc'[v] = pc[v] /\ req'[v] = req[v]
    BY <1>2, OthersStay, Zenon DEF IndInv
  <2> SUFFICES
        /\ PointersEnd'
        /\ \A u \in Users : mergedInto'[u] # NoUser /\ enabled'[u] =>
             \E v \in Workers : Stamped(v, u)'
        /\ \A u \in Users : mergedInto'[u] # NoUser =>
             \/ \E v \in Workers : Stamped(v, u)' \/ Disabled(v, u)'
             \/ Done(u)'
    BY DEF PointersTracked
  <2>4. CASE pc[w] \notin {"stamp", "disable", "record_tombstone"}
    <3>1. /\ mergedInto' = mergedInto
          /\ audit \subseteq audit'
          /\ \A u \in Users : mergedInto[u] # NoUser /\ enabled'[u] => enabled[u]
      BY <1>2, <2>4, OrdinaryStep, Zenon DEF IndInv
    <3>2. \A v \in Workers : \A u : /\ Stamped(v, u) => Stamped(v, u)'
                                    /\ Disabled(v, u) => Disabled(v, u)'
      BY <2>3, <2>4, Zenon
    <3>3. \A u : Done(u) => Done(u)'
      BY <3>1, Zenon
    <3>4. PointersEnd'
      BY <2>2, <3>1, Zenon DEF PointersEnd
    <3> HIDE DEF Done, Stamped, Disabled
    <3> QED
      BY <2>2, <3>1, <3>2, <3>3, <3>4, Zenon
  <2>5. CASE pc[w] \in {"stamp", "disable", "record_tombstone"}
    <3> DEFINE s == req[w].survivor
               d == req[w].duplicate
    <3>1. /\ s \in Users /\ d \in Users /\ s # d
          /\ MergeInProgress(w, s, d)
      BY <2>5, ZenonT(30) DEF IndInv, LockProtects, Undisturbed, RequestFitsStep,
        Distinct, MergeRequest, MergeSteps
    <3>2. \A v \in Workers : v # w => pc[v] \notin Locked
      BY <2>5, ZenonT(30) DEF IndInv, LockProtects, Exclusive, Locked, MergeSteps
    <3>3. \A v \in Workers : \A u : Stamped(v, u) \/ Disabled(v, u) => v = w
      BY <3>2, Zenon DEF Locked, MergeSteps
    <3>4. CASE StampTombstone(w)
      <4>1. /\ mergedInto' = [mergedInto EXCEPT ![d] = s]
            /\ UNCHANGED <<enabled, audit>>
            /\ pc[w] = "stamp"
            /\ \A u : u = d => Stamped(w, u)'
        BY <3>4 DEF StampTombstone, PutAttributes, Goto, IndInv, TypeOK
      <4>2. enabled[s]
        BY <3>1, <4>1, Zenon DEF MergeInProgress, MergeSteps
      <4>3. \A v \in Workers : \A u : ~Stamped(v, u) /\ ~Disabled(v, u)
        BY <3>3, <4>1, Zenon
      <4>4. mergedInto[s] = NoUser
        BY <2>2, <3>1, <4>2, <4>3
      <4>5. PointersEnd'
        BY <2>2, <3>1, <4>1, <4>4, StampKeepsEnd, Zenon DEF IndInv
      <4>6. \A u \in Users : u # d => mergedInto'[u] = mergedInto[u]
        BY <3>1, <4>1, Zenon DEF IndInv, TypeOK
      <4>7. \A u \in Users : u # d /\ Done(u) => Done(u)'
        BY <4>1, <4>6, Zenon
      <4> HIDE DEF Done, Stamped, Disabled
      <4> QED
        BY <2>2, <4>1, <4>3, <4>5, <4>6, <4>7, SMTT(30)
    <3>5. CASE DisableDuplicate(w)
      <4>1. /\ enabled' = [enabled EXCEPT ![d] = FALSE]
            /\ UNCHANGED <<mergedInto, audit>>
            /\ pc[w] = "disable"
            /\ \A u : u = d => Disabled(w, u)'
        BY <3>5 DEF DisableDuplicate, DeactivateUser, Goto, IndInv, TypeOK
      <4>2. /\ ~enabled'[d]
            /\ \A u \in Users : u # d => enabled'[u] = enabled[u]
        BY <3>1, <4>1, Zenon DEF IndInv, TypeOK
      <4>3. \A v \in Workers : \A u : Stamped(v, u) \/ Disabled(v, u) => u = d
        BY <3>3, Zenon
      <4>4. \A u \in Users : Done(u) => Done(u)'
        BY <4>1, Zenon
      <4>5. PointersEnd'
        BY <2>2, <4>1, Zenon DEF PointersEnd
      <4> HIDE DEF Done, Stamped, Disabled
      <4> QED
        BY <2>2, <4>1, <4>2, <4>3, <4>4, <4>5, SMTT(30)
    <3>6. CASE RecordTombstone(w)
      <4> DEFINE row == [type |-> "tombstoned", survivor |-> s,
                         duplicate |-> d, item |-> NoItem]
      <4>1. /\ UNCHANGED <<mergedInto, enabled>>
            /\ audit' = audit \cup {row}
            /\ pc[w] = "record_tombstone"
        BY <3>6, Zenon DEF RecordTombstone, Emit, keycloak
      <4>2. mergedInto[d] = s
        BY <3>1, <4>1, Zenon DEF MergeInProgress
      <4>3. row.type = "tombstoned" /\ row.duplicate = d /\ row.survivor = s
        OBVIOUS
      <4>4. \A u : u = d => Done(u)'
        <5> HIDE DEF row
        <5> QED
          BY <4>1, <4>2, <4>3, Zenon
      <4>5. \A u \in Users : Done(u) => Done(u)'
        BY <4>1, Zenon
      <4>6. \A v \in Workers : \A u : /\ ~Stamped(v, u)
                                      /\ Disabled(v, u) => u = d
        BY <3>3, <4>1, Zenon
      <4>7. PointersEnd'
        BY <2>2, <4>1, Zenon DEF PointersEnd
      <4> HIDE DEF Done, Stamped, Disabled
      <4> QED
        BY <2>2, <4>1, <4>4, <4>5, <4>6, <4>7
    <3>7. StampTombstone(w) \/ DisableDuplicate(w) \/ RecordTombstone(w)
      BY <1>2, <2>5, ZenonT(30) DEF Submit, AcquireLock, LockTimeout, MergeStep, ScimStep,
        LoadUsers, CheckMatch, RecordStart, DropConflict, AttachItem, DetachItem,
        RecordItem, NextKind, ReadAttributes, CompleteMerge, CheckTombstone,
        ReplaceUser, PatchUser, DeleteUser
    <3> QED
      BY <3>4, <3>5, <3>6, <3>7, Zenon
  <2> QED
    BY <2>4, <2>5, Zenon
<1>3. ASSUME NEW w \in Workers, Fail(w) PROVE FALSE
  BY <1>3 DEF Fail, IndInv, TypeOK
<1> QED
  BY <1>1, <1>2, <1>3, Zenon DEF Next

(***************************************************************************)
(* While no call fails, following the merged_into_user_id pointers ends at *)
(* an account that was not merged away, and whenever the lock is free each *)
(* pointer has its duplicate_tombstoned row.                               *)
(***************************************************************************)
THEOREM PointersAlwaysResolve == Spec => []PointersResolve
<1>1. Init => PointersTracked
  <2> SUFFICES ASSUME Init PROVE PointersTracked
    OBVIOUS
  <2>1. \A u \in Users : mergedInto[u] = NoUser
    BY Zenon DEF Init
  <2>2. PointersEnd
    <3> SUFFICES ASSUME NEW chain \in (SUBSET Users) \ {{}}
                 PROVE  \E u \in chain : mergedInto[u] \notin chain
      BY Zenon DEF PointersEnd
    <3>1. PICK u : u \in chain
      <4>1. chain # {}
        OBVIOUS
      <4> QED
        BY <4>1, Zenon
    <3>2. u \in Users
      BY <3>1, Zenon
    <3> QED
      BY <2>1, <3>1, <3>2, ConstantsAssumption, Zenon
  <2> QED
    BY <2>1, <2>2, Zenon DEF PointersTracked
<1>2. Spec => []PointersTracked
  BY <1>1, StepPointers, Invariant, PTL DEF Spec
<1>3. IndInv /\ PointersTracked => PointersResolve
  <2> SUFFICES ASSUME IndInv, PointersTracked, faults = 0 PROVE PointersResolve
    BY Zenon DEF PointersResolve
  <2>1. lock = NoWorker => \A w \in Workers : pc[w] \notin Locked
    BY ConstantsAssumption, Zenon DEF IndInv, LockProtects, Exclusive
  <2> QED
    BY <2>1, Zenon DEF PointersTracked, PointersResolve, Locked, MergeSteps
<1> QED
  BY <1>2, <1>3, Invariant, PTL
=============================================================================
