--------------------- MODULE DirectoryFederationProofs ---------------------
(***************************************************************************)
(* Proofs about LDAP directory federation (DirectoryFederation), for any   *)
(* directories, values, concurrent requests, service objects, failures and *)
(* crashes.                                                                *)
(***************************************************************************)
EXTENDS MCDirectoryFederation, TLAPS

Components == [id: Ids, val: Values, own: BOOLEAN]

Converging == {"receipt", "observe", "create", "update", "record"}

Deleting == {"find", "remove", "withdraw", "discard"}

Steps ==
  {"idle", "resolve", "build", "put", "delete", "get", "reconcile", "wait", "next",
   "status"} \cup Converging \cup Deleting

Types ==
  /\ desired \in [Dirs -> Values \cup {None}]
  /\ receipt \in [Dirs -> Values \cup {None}]
  /\ sent \in [Dirs -> Values \cup {None}]
  /\ live \in [Dirs -> SUBSET Components]
  /\ wired \in Services \cup {None}
  /\ raced \in BOOLEAN
  /\ lock \in [Services -> Workers \cup {None}]
  /\ pc \in [Workers -> Steps]
  /\ op \in [Workers -> {"none", "put", "delete", "get", "reconcile"}]
  /\ dir \in [Workers -> Dirs \cup {None}]
  /\ value \in [Workers -> Values \cup {None}]
  /\ receiptOk \in [Workers -> BOOLEAN]
  /\ expected \in [Workers -> Ids \cup {None}]
  /\ svc \in [Workers -> Services \cup {None}]
  /\ todo \in [Workers -> SUBSET (Dirs \X Values)]
  /\ status = [w \in Workers |-> status[w]]
  /\ events \in Nat

(***************************************************************************)
(* A request that has its service object, and one inside the service's     *)
(* convergence lock.                                                       *)
(***************************************************************************)
AtWork(w) == pc[w] \notin {"idle", "resolve", "build"}

Locked(w) ==
  \/ pc[w] = "next"
  \/ pc[w] \in Converging /\ op[w] # "get"
  \/ pc[w] \in Deleting

(***************************************************************************)
(* The step a request is at fits its kind and its arguments.               *)
(***************************************************************************)
InOrder(w) ==
  /\ AtWork(w) => svc[w] \in Services
  /\ pc[w] \in {"resolve", "build"} => op[w] # "none"
  /\ pc[w] \in {"put", "delete", "get", "reconcile"} => op[w] = pc[w]
  /\ pc[w] \in {"wait", "next"} => op[w] = "reconcile"
  /\ pc[w] = "status" => op[w] = "get"
  /\ pc[w] \in Deleting => op[w] = "delete"
  /\ pc[w] \in Converging => op[w] \in {"put", "get", "reconcile"}
  /\ pc[w] \in Converging \ {"receipt"} => op[w] # "get"
  /\ pc[w] \in Converging \cup {"status"} => value[w] \in Values /\ dir[w] \in Dirs
  /\ pc[w] # "idle" /\ op[w] # "reconcile" => dir[w] \in Dirs
  /\ pc[w] # "idle" /\ op[w] = "put" => value[w] \in Values

(***************************************************************************)
(* A convergence lock is held by exactly the request that is inside it:    *)
(* nobody works without it and no exit leaves it behind.                   *)
(***************************************************************************)
LockKept(w) ==
  /\ Locked(w) => lock[svc[w]] = w
  /\ \A s \in Services : lock[s] = w => Locked(w) /\ svc[w] = s

(***************************************************************************)
(* Until a second service object is built all requests use the wired one,  *)
(* hence one lock ...                                                      *)
(***************************************************************************)
SameService(w) == ~raced /\ AtWork(w) => svc[w] = wired

(***************************************************************************)
(* ... under which what a put or a delete relies on stays so.              *)
(***************************************************************************)
IntentKept(w) ==
  ~raced =>
    /\ pc[w] \in Converging /\ op[w] = "put" => desired[dir[w]] = value[w]
    /\ pc[w] = "record" => sent[dir[w]] = value[w]
    /\ pc[w] \in {"find", "remove"} => desired[dir[w]] # None
    /\ pc[w] = "withdraw" => sent[dir[w]] = None
    /\ pc[w] = "discard" => desired[dir[w]] = None

Mine(w) == InOrder(w) /\ LockKept(w) /\ SameService(w) /\ IntentKept(w)

IInv == Types /\ \A w \in Workers : Mine(w)

Acts(w) == Start(w) \/ Step(w) \/ ReadFails(w) \/ WriteFails(w) \/ Abort(w)

-----------------------------------------------------------------------------
(***************************************************************************)
(* A step of one request changes the program counter and the local         *)
(* variables of no other.                                                  *)
(***************************************************************************)
LEMMA ActsLocally ==
  ASSUME Types, NEW w \in Workers, Acts(w), NEW v \in Workers, v # w
  PROVE  /\ pc'[v] = pc[v] /\ op'[v] = op[v] /\ dir'[v] = dir[v]
         /\ value'[v] = value[v] /\ receiptOk'[v] = receiptOk[v]
         /\ expected'[v] = expected[v] /\ svc'[v] = svc[v]
         /\ todo'[v] = todo[v] /\ status'[v] = status[v]
<1> USE DEF Acts, Start, Request, Step, Resolve, Build, Put, Get, Snapshot, ReconcileLock,
      ReconcileNext, ReconcileDone, ReadReceipt, Observe, Create, Update, Record,
      StatusFor, DeleteRead, DeleteFind, Remove, Withdraw, Discard, ReadFails,
      WriteFails, Abort, Finish, Goto, local
<1>1. \E e : pc' = [pc EXCEPT ![w] = e]
  BY ZenonT(60)
<1>2. op' = op \/ \E e : op' = [op EXCEPT ![w] = e]
  BY ZenonT(60)
<1>3. dir' = dir \/ \E e : dir' = [dir EXCEPT ![w] = e]
  BY ZenonT(60)
<1>4. value' = value \/ \E e : value' = [value EXCEPT ![w] = e]
  BY ZenonT(60)
<1>5. receiptOk' = receiptOk \/ \E e : receiptOk' = [receiptOk EXCEPT ![w] = e]
  BY ZenonT(60)
<1>6. expected' = expected \/ \E e : expected' = [expected EXCEPT ![w] = e]
  BY ZenonT(60)
<1>7. svc' = svc \/ \E e : svc' = [svc EXCEPT ![w] = e]
  BY ZenonT(60)
<1>8. todo' = todo \/ \E e : todo' = [todo EXCEPT ![w] = e]
  BY ZenonT(60)
<1>9. status' = status \/ \E e : status' = [status EXCEPT ![w] = e]
  BY ZenonT(60)
<1> USE DEF Types
<1>10. pc'[v] = pc[v] /\ op'[v] = op[v] /\ dir'[v] = dir[v]
  BY <1>1, <1>2, <1>3, Zenon DEF Types
<1>11. value'[v] = value[v] /\ receiptOk'[v] = receiptOk[v] /\ expected'[v] = expected[v]
  BY <1>4, <1>5, <1>6, Zenon
<1>12. svc'[v] = svc[v] /\ todo'[v] = todo[v] /\ status'[v] = status[v]
  BY <1>7, <1>8, <1>9, Zenon
<1> QED
  BY <1>10, <1>11, <1>12, Zenon

(***************************************************************************)
(* A step takes only a free lock, and gives up only its own.               *)
(***************************************************************************)
LEMMA LockStep ==
  ASSUME Types, NEW w \in Workers, InOrder(w), Acts(w)
  PROVE  /\ lock' \in [Services -> Workers \cup {None}]
         /\ \A s \in Services : lock[s] \notin {w, None} => lock'[s] = lock[s]
         /\ \A s \in Services : lock'[s] \notin {w, None} => lock'[s] = lock[s]
<1>1. \/ UNCHANGED lock
      \/ Release(w)
      \/ /\ pc[w] \in {"put", "delete", "wait"}
         /\ lock[svc[w]] = None
         /\ lock' = [lock EXCEPT ![svc[w]] = w]
  BY ZenonT(60) DEF Acts, Start, Request, Step, Resolve, Build, Put, Get, Snapshot,
    ReconcileLock, ReconcileNext, ReconcileDone, ReadReceipt, Observe, Create, Update,
    Record, StatusFor, DeleteRead, DeleteFind, Remove, Withdraw, Discard, ReadFails,
    WriteFails, Abort, Finish
<1>2. CASE UNCHANGED lock
  BY <1>2, Zenon DEF Types
<1>3. CASE Release(w)
  BY <1>3, Zenon DEF Types, Release
<1>4. CASE /\ pc[w] \in {"put", "delete", "wait"}
           /\ lock[svc[w]] = None
           /\ lock' = [lock EXCEPT ![svc[w]] = w]
  <2>1. svc[w] \in Services
    BY <1>4, Zenon DEF InOrder, AtWork
  <2> QED
    BY <1>4, <2>1, Zenon DEF Types
<1> QED
  BY <1>1, <1>2, <1>3, <1>4, Zenon

(***************************************************************************)
(* Only put_registration as it takes the lock, and what runs inside the    *)
(* lock, write to the store or to Keycloak.                                *)
(***************************************************************************)
LEMMA WritesLocked ==
  ASSUME Types, NEW w \in Workers, InOrder(w), Acts(w)
  PROVE  Locked(w) \/ Put(w) \/ UNCHANGED <<desired, receipt, sent, live>>
<1>1. \/ UNCHANGED <<desired, receipt, sent, live>>
      \/ Put(w)
      \/ pc[w] \in {"create", "update", "record", "find", "remove", "withdraw", "discard"}
  BY ZenonT(60) DEF Acts, Start, Request, Step, Resolve, Build, Get, Snapshot,
    ReconcileLock, ReconcileNext, ReconcileDone, ReadReceipt, Observe, Create, Update,
    Record, StatusFor, DeleteRead, DeleteFind, Remove, Withdraw, Discard, ReadFails,
    WriteFails, Abort, store
<1> QED
  BY <1>1, Zenon DEF Locked, InOrder, Converging, Deleting

(***************************************************************************)
(* Only building a service object changes which one is wired.              *)
(***************************************************************************)
LEMMA WiringStep ==
  ASSUME Types, NEW w \in Workers, Acts(w)
  PROVE  \/ UNCHANGED <<wired, raced>>
         \/ /\ Build(w)
            /\ wired' \in Services
            /\ raced' = (raced \/ wired # None)
BY ZenonT(60) DEF Acts, Start, Request, Step, Resolve, Build, Put, Get, Snapshot,
    ReconcileLock, ReconcileNext, ReconcileDone, ReadReceipt, Observe, Create, Update,
    Record, StatusFor, DeleteRead, DeleteFind, Remove, Withdraw, Discard, ReadFails,
    WriteFails, Abort, Finish

(***************************************************************************)
(* As long as there is one service object, nobody changes anything under a *)
(* request that is inside the lock.                                        *)
(***************************************************************************)
LEMMA LeavesAlone ==
  ASSUME IInv, ~raced, NEW w \in Workers, Acts(w), NEW v \in Workers, v # w, Locked(v)
  PROVE  UNCHANGED <<desired, receipt, sent, live>>
<1>1. svc[v] = wired /\ lock[wired] = v
  BY Zenon DEF IInv, Mine, SameService, LockKept, AtWork, Locked, Converging, Deleting
<1>2. ASSUME Locked(w) PROVE FALSE
  <2>1. lock[wired] = w
    BY <1>2, Zenon DEF IInv, Mine, SameService, LockKept, AtWork, Locked, Converging, Deleting
  <2> QED
    BY <1>1, <2>1, Zenon
<1>3. ASSUME Put(w) PROVE FALSE
  <2>1. svc[w] = wired /\ lock[svc[w]] = None
    BY <1>3, Zenon DEF Put, IInv, Mine, SameService, AtWork
  <2> QED
    BY <1>1, <2>1, ConstantsAssumption, Zenon
<1> QED
  BY <1>2, <1>3, WritesLocked, Zenon DEF IInv, Mine

(***************************************************************************)
(* What a request relies on survives the steps of the others.              *)
(***************************************************************************)
LEMMA OthersMine ==
  ASSUME IInv, NEW w \in Workers, Acts(w), NEW v \in Workers, v # w
  PROVE  Mine(v)'
<1>1. /\ pc'[v] = pc[v] /\ op'[v] = op[v] /\ dir'[v] = dir[v]
      /\ value'[v] = value[v] /\ svc'[v] = svc[v]
  BY ActsLocally, Zenon DEF IInv
<1>2. Mine(v) /\ InOrder(w)
  BY Zenon DEF IInv, Mine
<1>3. InOrder(v)'
  BY <1>1, <1>2, Zenon DEF Mine, InOrder, AtWork
<1>4. Locked(v)' <=> Locked(v)
  BY <1>1, Zenon DEF Locked
<1>5. Locked(v) => svc[v] \in Services
  BY <1>2, Zenon DEF Mine, InOrder, AtWork, Locked, Converging, Deleting
<1>6. LockKept(v)'
  <2>1. \A s \in Services : lock'[s] = v <=> lock[s] = v
    BY <1>2, LockStep, ConstantsAssumption, Zenon DEF IInv
  <2> QED
    BY <1>1, <1>2, <1>4, <1>5, <2>1, Zenon DEF Mine, LockKept
<1>7. SameService(v)'
  <2> SUFFICES ASSUME ~raced', AtWork(v)' PROVE svc'[v] = wired'
    BY Zenon DEF SameService
  <2>1. AtWork(v)
    BY <1>1, Zenon DEF AtWork
  <2>2. ~raced
    BY WiringStep, Zenon DEF IInv
  <2>3. svc[v] = wired /\ wired # None
    BY <1>2, <2>1, <2>2, ConstantsAssumption, Zenon DEF Mine, SameService, InOrder
  <2> QED
    BY <1>1, <2>3, WiringStep, Zenon DEF IInv
<1>8. IntentKept(v)'
  <2> SUFFICES ASSUME ~raced' PROVE IntentKept(v)'
    BY Zenon DEF IntentKept
  <2>1. ~raced
    BY WiringStep, Zenon DEF IInv
  <2>2. CASE Locked(v)
    <3>1. UNCHANGED <<desired, receipt, sent, live>>
      BY <2>1, <2>2, LeavesAlone, Zenon
    <3> QED
      BY <1>1, <1>2, <2>1, <3>1, Zenon DEF Mine, IntentKept
  <2>3. CASE ~Locked(v)
    BY <1>1, <1>2, <2>3, Zenon DEF Mine, InOrder, IntentKept, Locked, Converging, Deleting
  <2> QED
    BY <2>2, <2>3, Zenon
<1> QED
  BY <1>3, <1>6, <1>7, <1>8, Zenon DEF Mine

(***************************************************************************)
(* Leaving the handler, normally or by an exception, gives the lock back.  *)
(***************************************************************************)
LEMMA ReleaseMine ==
  ASSUME Types, NEW w \in Workers, Release(w), Goto(w, "idle")
  PROVE  Mine(w)'
<1>1. pc'[w] = "idle"
  BY Zenon DEF Types, Goto
<1>2. \A s \in Services : lock'[s] # w
  BY ConstantsAssumption, Zenon DEF Types, Release
<1> QED
  BY <1>1, <1>2, Zenon
  DEF Mine, InOrder, LockKept, SameService, IntentKept, AtWork, Locked, Converging, Deleting

(***************************************************************************)
(* A request goes on with the lock and the service object it has.          *)
(***************************************************************************)
LEMMA AdvanceMine ==
  ASSUME IInv, NEW w \in Workers, NEW step \in Steps \ {"idle", "resolve", "build"},
         Goto(w, step), AtWork(w),
         UNCHANGED <<lock, svc, wired, raced>>,
         Locked(w)' <=> Locked(w), InOrder(w)', IntentKept(w)'
  PROVE  Mine(w)'
<1>1. LockKept(w)'
  BY Zenon DEF IInv, Mine, LockKept
<1>2. SameService(w)'
  BY Zenon DEF IInv, Mine, SameService
<1> QED
  BY <1>1, <1>2, Zenon DEF Mine

(***************************************************************************)
(* A status is returned; reconcile_all goes on under its lock.             *)
(***************************************************************************)
LEMMA FinishMine ==
  ASSUME IInv, NEW w \in Workers, NEW s, Finish(w, s), AtWork(w),
         UNCHANGED <<op, dir, value, svc, wired, raced>>,
         op[w] = "reconcile" => Locked(w)
  PROVE  Mine(w)'
<1>1. CASE op[w] # "reconcile"
  BY <1>1, ReleaseMine, Zenon DEF Finish, IInv
<1>2. CASE op[w] = "reconcile"
  <2>1. Goto(w, "next") /\ UNCHANGED lock
    BY <1>2, Zenon DEF Finish
  <2>2. pc'[w] = "next" /\ op'[w] = "reconcile"
    BY <1>2, <2>1, Zenon DEF Goto, IInv, Types
  <2>3. InOrder(w)'
    BY <2>2, Zenon DEF IInv, Mine, InOrder, AtWork, Converging, Deleting
  <2>4. IntentKept(w)'
    BY <2>2, Zenon DEF IntentKept, Converging
  <2>5. Locked(w) /\ Locked(w)'
    BY <1>2, <2>2, Zenon DEF Locked
  <2> QED
    BY <2>1, <2>3, <2>4, <2>5, AdvanceMine, Zenon DEF Steps
<1> QED
  BY <1>1, <1>2, Zenon

(***************************************************************************)
(* A request arrives and gets its service object, which it builds when     *)
(* there is none (get_directory_federation_service).                       *)
(***************************************************************************)
LEMMA ResolveMine ==
  ASSUME IInv, NEW w \in Workers, Start(w) \/ Resolve(w) \/ Build(w)
  PROVE  Mine(w)'
<1>0. Mine(w)
  BY Zenon DEF IInv
<1>1. CASE Start(w)
  <2>1. PICK o \in {"put", "delete", "get", "reconcile"}, d \in Dirs \cup {None},
             v \in Values \cup {None} :
          /\ Request(w, o, d, v)
          /\ o # "reconcile" => d \in Dirs
          /\ o = "put" => v \in Values
    BY <1>1, Zenon DEF Start
  <2>2. /\ pc[w] = "idle" /\ pc'[w] = "resolve"
        /\ op'[w] = o /\ dir'[w] = d /\ value'[w] = v
        /\ UNCHANGED <<lock, svc, wired, raced>>
    BY <2>1, Zenon DEF Request, Goto, IInv, Types
  <2>3. InOrder(w)'
    BY <2>1, <2>2, Zenon DEF InOrder, AtWork, Converging, Deleting
  <2> QED
    BY <1>0, <2>2, <2>3, Zenon
    DEF Mine, LockKept, SameService, IntentKept, AtWork, Locked, Converging, Deleting
<1>2. ASSUME Resolve(w) \/ Build(w), pc'[w] = "build" PROVE Mine(w)'
  <2>1. pc[w] = "resolve" /\ UNCHANGED <<lock, svc, wired, raced, op, dir, value>>
    BY <1>0, <1>2, Zenon DEF Resolve, Build, Goto, Mine, InOrder, IInv, Types
  <2>2. InOrder(w)'
    BY <1>0, <1>2, <2>1, Zenon DEF Mine, InOrder, AtWork, Converging, Deleting
  <2> QED
    BY <1>0, <1>2, <2>1, <2>2, Zenon
    DEF Mine, LockKept, SameService, IntentKept, AtWork, Locked, Converging, Deleting
<1>3. ASSUME Resolve(w) \/ Build(w), pc'[w] # "build" PROVE Mine(w)'
  <2>1. /\ pc[w] \in {"resolve", "build"} /\ pc'[w] = op[w]
        /\ svc'[w] = wired' /\ wired' \in Services
        /\ UNCHANGED <<lock, op, dir, value>>
    BY <1>3, Zenon DEF Resolve, Build, Goto, IInv, Types
  <2>2. op[w] \in {"put", "delete", "get", "reconcile"}
    BY <1>0, <2>1, Zenon DEF Mine, InOrder, IInv, Types
  <2>3. InOrder(w)'
    BY <1>0, <2>1, <2>2, Zenon DEF Mine, InOrder, AtWork, Converging, Deleting
  <2>4. ~Locked(w) /\ ~Locked(w)'
    BY <2>1, <2>2, Zenon DEF Locked, Converging, Deleting
  <2>5. LockKept(w)'
    BY <1>0, <2>1, <2>4, Zenon DEF Mine, LockKept
  <2>6. IntentKept(w)'
    BY <2>1, <2>2, Zenon DEF IntentKept, Converging
  <2> QED
    BY <2>1, <2>3, <2>5, <2>6, Zenon DEF Mine, SameService
<1> QED
  BY <1>1, <1>2, <1>3, Zenon

(***************************************************************************)
(* put_registration stores its intent in the step that takes the lock,     *)
(* reconcile_all takes it after its snapshot, delete_registration if there *)
(* is something to delete.                                                 *)
(***************************************************************************)
LEMMA AcquireMine ==
  ASSUME IInv, NEW w \in Workers, Put(w) \/ ReconcileLock(w) \/ DeleteRead(w)
  PROVE  Mine(w)'
<1>0. Mine(w) /\ svc[w] \in Services
  BY Zenon DEF IInv, Mine, InOrder, AtWork, Put, ReconcileLock, DeleteRead
<1>1. ASSUME pc[w] = "delete", Finish(w, "not_found"),
             UNCHANGED <<op, dir, value, svc, wired, raced>>
      PROVE  Mine(w)'
  <2>1. AtWork(w) /\ op[w] # "reconcile"
    BY <1>0, <1>1, Zenon DEF AtWork, Mine, InOrder
  <2> QED
    BY <1>1, <2>1, FinishMine, Zenon
<1>2. ASSUME NEW step \in {"receipt", "next", "find"}, Goto(w, step),
             \/ pc[w] = "put" /\ step = "receipt"
             \/ pc[w] = "wait" /\ step = "next"
             \/ pc[w] = "delete" /\ step = "find",
             step = "receipt" => desired'[dir[w]] = value[w],
             step = "find" => desired'[dir[w]] # None,
             lock' = [lock EXCEPT ![svc[w]] = w],
             UNCHANGED <<op, dir, value, svc, wired, raced>>
      PROVE  Mine(w)'
  <2>1. /\ pc'[w] = step
        /\ lock'[svc[w]] = w
        /\ \A s \in Services : s # svc[w] => lock'[s] = lock[s]
    BY <1>0, <1>2, Zenon DEF Goto, IInv, Types
  <2>2. InOrder(w)'
    BY <1>0, <1>2, <2>1, Zenon DEF Mine, InOrder, AtWork, Converging, Deleting
  <2>3. Locked(w)' /\ ~Locked(w)
    BY <1>0, <1>2, <2>1, Zenon DEF Mine, InOrder, Locked, Converging, Deleting
  <2>4. LockKept(w)'
    BY <1>0, <1>2, <2>1, <2>3, Zenon DEF Mine, LockKept
  <2>5. SameService(w)'
    BY <1>0, <1>2, Zenon DEF Mine, SameService, AtWork
  <2>6. IntentKept(w)'
    BY <1>2, <2>1, Zenon DEF IntentKept, Converging
  <2> QED
    BY <2>2, <2>4, <2>5, <2>6, Zenon DEF Mine
<1>3. CASE Put(w)
  <2>1. dir[w] \in Dirs
    BY <1>0, <1>3, Zenon DEF Put, Mine, InOrder
  <2>2. desired'[dir[w]] = value[w]
    BY <1>3, <2>1, Zenon DEF Put, IInv, Types
  <2> QED
    BY <1>2, <1>3, <2>2, Zenon DEF Put, local
<1>4. CASE ReconcileLock(w)
  BY <1>2, <1>4, Zenon DEF ReconcileLock, local
<1>5. CASE DeleteRead(w)
  BY <1>1, <1>2, <1>5, Zenon DEF DeleteRead, local, store
<1> QED
  BY <1>3, <1>4, <1>5, Zenon

(***************************************************************************)
(* A put or a reconcile_all goes on within _converge ...                   *)
(***************************************************************************)
LEMMA ConvergingMine ==
  ASSUME IInv, NEW w \in Workers, pc[w] \in Converging, op[w] # "get",
         NEW step \in Converging \ {"receipt"}, Goto(w, step),
         UNCHANGED <<lock, svc, wired, raced, op, dir, value, desired>>,
         step = "record" => sent'[dir[w]] = value[w]
  PROVE  Mine(w)'
<1>1. Mine(w) /\ pc'[w] = step
  BY Zenon DEF IInv, Types, Goto
<1>2. AtWork(w) /\ Locked(w) /\ Locked(w)'
  BY <1>1, Zenon DEF AtWork, Locked, Converging
<1>3. InOrder(w)'
  BY <1>1, <1>2, Zenon DEF Mine, InOrder, AtWork, Converging, Deleting
<1>4. IntentKept(w)'
  BY <1>1, Zenon DEF Mine, IntentKept, Converging
<1>5. step \in Steps \ {"idle", "resolve", "build"}
  BY Zenon DEF Steps, Converging
<1> QED
  BY <1>2, <1>3, <1>4, <1>5, AdvanceMine, Zenon

(***************************************************************************)
(* ... and a delete within delete_registration.                            *)
(***************************************************************************)
LEMMA DeletingMine ==
  ASSUME IInv, NEW w \in Workers, pc[w] \in Deleting, NEW step \in Deleting \ {"find"},
         Goto(w, step),
         UNCHANGED <<lock, svc, wired, raced, op, dir, value>>,
         ~raced /\ step = "remove" => desired'[dir[w]] # None,
         step = "withdraw" => sent'[dir[w]] = None,
         step = "discard" => desired'[dir[w]] = None
  PROVE  Mine(w)'
<1>1. Mine(w) /\ pc'[w] = step
  BY Zenon DEF IInv, Types, Goto
<1>2. AtWork(w) /\ Locked(w) /\ Locked(w)'
  BY <1>1, Zenon DEF AtWork, Locked, Deleting
<1>3. InOrder(w)'
  BY <1>1, <1>2, Zenon DEF Mine, InOrder, AtWork, Converging, Deleting
<1>4. IntentKept(w)'
  BY <1>1, Zenon DEF IntentKept, Converging, Deleting
<1>5. step \in Steps \ {"idle", "resolve", "build"}
  BY Zenon DEF Steps, Deleting
<1> QED
  BY <1>2, <1>3, <1>4, <1>5, AdvanceMine, Zenon

(***************************************************************************)
(* get_registration, and what reconcile_all does around _converge.         *)
(***************************************************************************)
LEMMA ReadMine ==
  ASSUME IInv, NEW w \in Workers,
         \/ Get(w) \/ Snapshot(w) \/ ReconcileNext(w) \/ ReconcileDone(w)
         \/ ReadReceipt(w) \/ StatusFor(w)
  PROVE  Mine(w)'
<1>0. Mine(w) /\ AtWork(w)
  BY Zenon DEF IInv, Get, Snapshot, ReconcileNext, ReconcileDone, ReadReceipt, StatusFor, AtWork
<1>1. CASE Get(w)
  <2>1. op[w] = "get" /\ dir[w] \in Dirs /\ ~Locked(w)
    BY <1>0, <1>1, Zenon DEF Get, Mine, InOrder, Locked, Converging, Deleting
  <2>2. CASE Finish(w, "not_found") /\ UNCHANGED value
    BY <1>0, <1>1, <2>1, <2>2, FinishMine, Zenon DEF Get
  <2>3. CASE /\ desired[dir[w]] # None
             /\ value' = [value EXCEPT ![w] = desired[dir[w]]]
             /\ Goto(w, "receipt")
             /\ UNCHANGED <<lock, status>>
    <3>1. /\ pc'[w] = "receipt" /\ value'[w] \in Values
          /\ UNCHANGED <<lock, svc, wired, raced, op, dir>>
      BY <1>1, <2>1, <2>3, Zenon DEF Get, Goto, IInv, Types
    <3>2. InOrder(w)' /\ ~Locked(w)' /\ IntentKept(w)'
      BY <1>0, <2>1, <3>1, Zenon
      DEF Mine, InOrder, AtWork, Locked, IntentKept, Converging, Deleting
    <3> QED
      BY <1>0, <2>1, <2>3, <3>1, <3>2, AdvanceMine, Zenon DEF Steps, Converging
  <2> QED
    BY <1>1, <2>2, <2>3, Zenon DEF Get
<1>2. CASE Snapshot(w)
  <2>1. /\ pc[w] = "reconcile" /\ pc'[w] = "wait" /\ Goto(w, "wait")
        /\ UNCHANGED <<lock, svc, wired, raced, op, dir, value>>
    BY <1>2, Zenon DEF Snapshot, Goto, IInv, Types
  <2>2. InOrder(w)' /\ ~Locked(w) /\ ~Locked(w)' /\ IntentKept(w)'
    BY <1>0, <2>1, Zenon DEF Mine, InOrder, AtWork, Locked, IntentKept, Converging, Deleting
  <2> QED
    BY <1>0, <2>1, <2>2, AdvanceMine, Zenon DEF Steps
<1>3. CASE ReconcileNext(w)
  <2>1. PICK e \in todo[w] :
          /\ dir' = [dir EXCEPT ![w] = e[1]]
          /\ value' = [value EXCEPT ![w] = e[2]]
    BY <1>3, Zenon DEF ReconcileNext
  <2>2. e[1] \in Dirs /\ e[2] \in Values
    BY <2>1 DEF IInv, Types
  <2>3. /\ pc[w] = "next" /\ pc'[w] = "receipt" /\ Goto(w, "receipt")
        /\ dir'[w] \in Dirs /\ value'[w] \in Values
        /\ UNCHANGED <<lock, svc, wired, raced, op>>
    BY <1>3, <2>1, <2>2, Zenon DEF ReconcileNext, Goto, IInv, Types
  <2>4. op[w] = "reconcile"
    BY <1>0, <2>3, Zenon DEF Mine, InOrder
  <2>5. InOrder(w)' /\ Locked(w) /\ Locked(w)' /\ IntentKept(w)'
    BY <1>0, <2>3, <2>4, Zenon
    DEF Mine, InOrder, AtWork, Locked, IntentKept, Converging, Deleting
  <2> QED
    BY <1>0, <2>3, <2>5, AdvanceMine, Zenon DEF Steps, Converging
<1>4. CASE ReconcileDone(w)
  BY <1>4, ReleaseMine, Zenon DEF ReconcileDone, IInv
<1>5. CASE ReadReceipt(w)
  <2>1. /\ pc[w] = "receipt"
        /\ UNCHANGED <<lock, svc, wired, raced, op, dir, value, desired>>
    BY <1>5, Zenon DEF ReadReceipt, store
  <2>2. CASE op[w] # "get"
    <3>1. Goto(w, "observe")
      BY <1>5, <2>2, Zenon DEF ReadReceipt
    <3> QED
      BY <2>1, <2>2, <3>1, ConvergingMine, Zenon DEF Converging
  <2>3. CASE op[w] = "get"
    <3>1. Goto(w, "status") /\ pc'[w] = "status"
      BY <1>5, <2>3, Zenon DEF ReadReceipt, Goto, IInv, Types
    <3>2. InOrder(w)' /\ ~Locked(w) /\ ~Locked(w)' /\ IntentKept(w)'
      BY <1>0, <2>1, <2>3, <3>1, Zenon
      DEF Mine, InOrder, AtWork, Locked, IntentKept, Converging, Deleting
    <3> QED
      BY <1>0, <2>1, <3>1, <3>2, AdvanceMine, Zenon DEF Steps
  <2> QED
    BY <2>2, <2>3, Zenon
<1>6. CASE StatusFor(w)
  <2>1. PICK s : Finish(w, s)
    BY <1>6, Zenon DEF StatusFor
  <2>2. op[w] = "get" /\ UNCHANGED <<op, dir, value, svc, wired, raced>>
    BY <1>0, <1>6, Zenon DEF StatusFor, Mine, InOrder, local
  <2> QED
    BY <1>0, <2>1, <2>2, FinishMine, Zenon
<1> QED
  BY <1>1, <1>2, <1>3, <1>4, <1>5, <1>6, Zenon

(***************************************************************************)
(* The calls of _converge and of delete_registration, with their answers   *)
(* and without them.                                                       *)
(***************************************************************************)
LEMMA WriteMine ==
  ASSUME IInv, NEW w \in Workers,
         \/ Observe(w) \/ Create(w) \/ Update(w) \/ Record(w)
         \/ DeleteFind(w) \/ Remove(w) \/ Withdraw(w) \/ Discard(w)
         \/ ReadFails(w) \/ WriteFails(w)
  PROVE  Mine(w)'
<1>1. UNCHANGED <<op, dir, value, svc, wired, raced>>
  BY ZenonT(30) DEF Observe, Create, Update, Record, DeleteFind, Remove, Withdraw,
    Discard, ReadFails, WriteFails, local
<1>2. /\ AtWork(w)
      /\ op[w] = "reconcile" => Locked(w)
      /\ dir[w] \in Dirs
      /\ pc[w] \in Converging => op[w] # "get"
  <2>1. pc[w] \in {"observe", "create", "update", "record", "status"} \cup Deleting
    BY ZenonT(30) DEF Observe, Create, Update, Record, DeleteFind, Remove, Withdraw,
      Discard, ReadFails, WriteFails, Deleting
  <2>2. InOrder(w)
    BY Zenon DEF IInv, Mine
  <2> QED
    BY <2>1, <2>2, Zenon DEF InOrder, AtWork, Locked, Converging, Deleting
<1>3. ASSUME NEW s, Finish(w, s) PROVE Mine(w)'
  BY <1>1, <1>2, <1>3, FinishMine, Zenon
<1>4. ASSUME pc[w] \in {"observe", "create", "update"}, UNCHANGED <<lock, desired>>,
             \/ Goto(w, "create")
             \/ Goto(w, "update")
             \/ /\ Goto(w, "record")
                /\ sent' = [sent EXCEPT ![dir[w]] = value[w]]
      PROVE  Mine(w)'
  <2>1. ASSUME sent' = [sent EXCEPT ![dir[w]] = value[w]] PROVE sent'[dir[w]] = value[w]
    BY <1>2, <2>1, Zenon DEF IInv, Types
  <2> QED
    BY <1>1, <1>2, <1>4, <2>1, ConvergingMine, Zenon DEF Converging
<1>5. ASSUME pc[w] \in Deleting, UNCHANGED lock,
             \/ Goto(w, "remove") /\ (~raced => desired'[dir[w]] # None)
             \/ Goto(w, "withdraw") /\ sent' = [sent EXCEPT ![dir[w]] = None]
             \/ Goto(w, "discard") /\ desired' = [desired EXCEPT ![dir[w]] = None]
      PROVE  Mine(w)'
  <2>1. ASSUME sent' = [sent EXCEPT ![dir[w]] = None] PROVE sent'[dir[w]] = None
    BY <1>2, <2>1, Zenon DEF IInv, Types
  <2>2. ASSUME desired' = [desired EXCEPT ![dir[w]] = None] PROVE desired'[dir[w]] = None
    BY <1>2, <2>2, Zenon DEF IInv, Types
  <2> QED
    BY <1>1, <1>5, <2>1, <2>2, DeletingMine, Zenon DEF Deleting
<1>6. CASE Observe(w)
  BY <1>3, <1>4, <1>6, Zenon DEF Observe, store
<1>7. CASE Create(w)
  BY <1>4, <1>7, Zenon DEF Create, Created, store
<1>8. CASE Update(w)
  BY <1>3, <1>4, <1>8, Zenon DEF Update, Updated, store
<1>9. CASE Record(w) \/ Discard(w) \/ ReadFails(w) \/ WriteFails(w)
  BY <1>3, <1>9, Zenon DEF Record, Discard, ReadFails, WriteFails
<1>10. CASE DeleteFind(w)
  <2>1. ASSUME ~raced PROVE desired'[dir[w]] # None
    BY <1>10, <2>1, Zenon DEF DeleteFind, IInv, Mine, IntentKept, store
  <2> QED
    BY <1>3, <1>5, <1>10, <2>1, Zenon DEF DeleteFind, Deleting, store
<1>11. CASE Remove(w)
  BY <1>3, <1>5, <1>11, Zenon DEF Remove, Removed, Deleting
<1>12. CASE Withdraw(w)
  BY <1>5, <1>12, Zenon DEF Withdraw, Deleting
<1> QED
  BY <1>6, <1>7, <1>8, <1>9, <1>10, <1>11, <1>12, Zenon

(***************************************************************************)
(* What a request relies on survives its own steps.                        *)
(***************************************************************************)
LEMMA OwnMine ==
  ASSUME IInv, NEW w \in Workers, Acts(w)
  PROVE  Mine(w)'
<1>1. CASE Abort(w)
  BY <1>1, ReleaseMine, Zenon DEF Abort, IInv
<1> QED
  BY <1>1, ResolveMine, AcquireMine, ReadMine, WriteMine, Zenon DEF Acts, Step

(***************************************************************************)
(* What a step does to the store and to Keycloak, by the variable.         *)
(***************************************************************************)
LEMMA WriteForms ==
  ASSUME Types, NEW w \in Workers, Acts(w)
  PROVE  /\ \/ UNCHANGED desired
            \/ pc[w] = "put" /\ desired' = [desired EXCEPT ![dir[w]] = value[w]]
            \/ pc[w] = "withdraw" /\ desired' = [desired EXCEPT ![dir[w]] = None]
         /\ \/ UNCHANGED receipt
            \/ pc[w] = "record" /\ receipt' = [receipt EXCEPT ![dir[w]] = value[w]]
            \/ pc[w] = "discard" /\ receipt' = [receipt EXCEPT ![dir[w]] = None]
         /\ \/ UNCHANGED <<live, sent>>
            \/ pc[w] = "create" /\ Created(w)
            \/ pc[w] = "update" /\ Updated(w)
            \/ pc[w] = "remove" /\ Removed(w)
            \/ /\ pc[w] = "find" /\ live[dir[w]] = {}
               /\ UNCHANGED live /\ sent' = [sent EXCEPT ![dir[w]] = None]
<1> USE DEF Acts, Start, Request, Step, Resolve, Build, Put, Get, Snapshot,
      ReconcileLock, ReconcileNext, ReconcileDone, ReadReceipt, Observe, Create, Update,
      Record, StatusFor, DeleteRead, DeleteFind, Remove, Withdraw, Discard, ReadFails,
      WriteFails, Abort, store
<1>1. \/ UNCHANGED desired
      \/ pc[w] = "put" /\ desired' = [desired EXCEPT ![dir[w]] = value[w]]
      \/ pc[w] = "withdraw" /\ desired' = [desired EXCEPT ![dir[w]] = None]
  BY ZenonT(60)
<1>2. \/ UNCHANGED receipt
      \/ pc[w] = "record" /\ receipt' = [receipt EXCEPT ![dir[w]] = value[w]]
      \/ pc[w] = "discard" /\ receipt' = [receipt EXCEPT ![dir[w]] = None]
  BY ZenonT(60)
<1>3. \/ UNCHANGED <<live, sent>>
      \/ pc[w] = "create" /\ Created(w)
      \/ pc[w] = "update" /\ Updated(w)
      \/ pc[w] = "remove" /\ Removed(w)
      \/ /\ pc[w] = "find" /\ live[dir[w]] = {}
         /\ UNCHANGED live /\ sent' = [sent EXCEPT ![dir[w]] = None]
  BY ZenonT(60)
<1> QED
  BY <1>1, <1>2, <1>3, Zenon

(***************************************************************************)
(* What a step does to the request's own variables.                        *)
(***************************************************************************)
LEMMA LocalForms ==
  ASSUME Types, NEW w \in Workers, InOrder(w), Acts(w)
  PROVE  /\ \/ Goto(w, op[w]) /\ pc[w] \in {"resolve", "build"}
            \/ \E e \in Steps : Goto(w, e)
         /\ \/ UNCHANGED <<op, dir, value>>
            \/ \E o \in {"put", "delete", "get", "reconcile"}, d \in Dirs \cup {None},
                  v \in Values \cup {None} :
                 /\ op' = [op EXCEPT ![w] = o]
                 /\ dir' = [dir EXCEPT ![w] = d]
                 /\ value' = [value EXCEPT ![w] = v]
            \/ /\ UNCHANGED <<op, dir>> /\ dir[w] \in Dirs
               /\ value' = [value EXCEPT ![w] = desired[dir[w]]]
            \/ \E e \in todo[w] :
                 /\ UNCHANGED op
                 /\ dir' = [dir EXCEPT ![w] = e[1]]
                 /\ value' = [value EXCEPT ![w] = e[2]]
         /\ \/ UNCHANGED receiptOk
            \/ receiptOk' = [receiptOk EXCEPT ![w] = receipt[dir[w]] = value[w]]
         /\ \/ UNCHANGED expected
            \/ /\ dir[w] \in Dirs
               /\ \E x \in live[dir[w]] : expected' = [expected EXCEPT ![w] = x.id]
         /\ \/ UNCHANGED svc
            \/ \E s \in Services : svc' = [svc EXCEPT ![w] = s]
         /\ \/ UNCHANGED todo
            \/ todo' = [todo EXCEPT ![w] =
                          {<<d, desired[d]>> : d \in {e \in Dirs : desired[e] # None}}]
            \/ \E e : todo' = [todo EXCEPT ![w] = todo[w] \ {e}]
         /\ UNCHANGED status \/ \E s : status' = [status EXCEPT ![w] = s]
         /\ UNCHANGED events \/ events' = events + 1
<1>1. \/ Goto(w, op[w]) /\ pc[w] \in {"resolve", "build"}
      \/ \E e \in Steps : Goto(w, e)
  <2> DEFINE Goes == \E e \in Steps : Goto(w, e)
  <2>0. /\ Goto(w, "idle") \/ Goto(w, "resolve") \/ Goto(w, "build") => Goes
        /\ Goto(w, "wait") \/ Goto(w, "next") \/ Goto(w, "status") => Goes
        /\ Goto(w, "receipt") \/ Goto(w, "observe") \/ Goto(w, "create") => Goes
        /\ Goto(w, "update") \/ Goto(w, "record") \/ Goto(w, "remove") => Goes
        /\ Goto(w, "find") \/ Goto(w, "withdraw") \/ Goto(w, "discard") => Goes
    BY Zenon DEF Steps, Converging, Deleting
  <2>1. ASSUME NEW s, Finish(w, s) PROVE Goes
    BY <2>0, <2>1, Zenon DEF Finish
  <2> HIDE DEF Goes
  <2>2. ASSUME \/ Start(w) \/ Put(w) \/ Get(w) \/ Snapshot(w) \/ ReconcileLock(w)
               \/ ReconcileNext(w) \/ ReconcileDone(w)
        PROVE  Goes
    BY <2>0, <2>1, <2>2, ZenonT(30) DEF Start, Request, Put, Get, Snapshot, ReconcileLock,
      ReconcileNext, ReconcileDone
  <2>3. ASSUME \/ ReadReceipt(w) \/ Observe(w) \/ Create(w) \/ Update(w) \/ Record(w)
               \/ StatusFor(w)
        PROVE  Goes
    BY <2>0, <2>1, <2>3, ZenonT(30) DEF ReadReceipt, Observe, Create, Update, Record,
      StatusFor
  <2>4. ASSUME \/ DeleteRead(w) \/ DeleteFind(w) \/ Remove(w) \/ Withdraw(w) \/ Discard(w)
               \/ ReadFails(w) \/ WriteFails(w) \/ Abort(w)
        PROVE  Goes
    BY <2>0, <2>1, <2>4, ZenonT(30) DEF DeleteRead, DeleteFind, Remove, Withdraw, Discard,
      ReadFails, WriteFails, Abort
  <2>5. ASSUME Resolve(w) \/ Build(w)
        PROVE  Goes \/ (Goto(w, op[w]) /\ pc[w] \in {"resolve", "build"})
    BY <2>0, <2>5, Zenon DEF Resolve, Build
  <2> QED
    BY <2>2, <2>3, <2>4, <2>5, Zenon DEF Acts, Step, Goes
<1> USE DEF Acts, Start, Request, Step, Resolve, Build, Put, Get, Snapshot,
      ReconcileLock, ReconcileNext, ReconcileDone, ReadReceipt, Observe, Create, Update,
      Record, StatusFor, DeleteRead, DeleteFind, Remove, Withdraw, Discard, ReadFails,
      WriteFails, Abort, Finish, local
<1>2. \/ UNCHANGED <<op, dir, value>>
      \/ \E o \in {"put", "delete", "get", "reconcile"}, d \in Dirs \cup {None},
            v \in Values \cup {None} :
           /\ op' = [op EXCEPT ![w] = o]
           /\ dir' = [dir EXCEPT ![w] = d]
           /\ value' = [value EXCEPT ![w] = v]
      \/ /\ UNCHANGED <<op, dir>> /\ dir[w] \in Dirs
         /\ value' = [value EXCEPT ![w] = desired[dir[w]]]
      \/ \E e \in todo[w] :
           /\ UNCHANGED op
           /\ dir' = [dir EXCEPT ![w] = e[1]]
           /\ value' = [value EXCEPT ![w] = e[2]]
  <2>1. CASE Start(w)
    <3> HIDE DEF Request
    <3>1. PICK o \in {"put", "delete", "get", "reconcile"}, d \in Dirs \cup {None},
               v \in Values \cup {None} : Request(w, o, d, v)
      BY <2>1, Zenon
    <3> QED
      BY <3>1, Zenon DEF Request
  <2>2. CASE Get(w)
    BY <2>2, Zenon DEF InOrder
  <2>3. CASE ReconcileNext(w)
    BY <2>3, Zenon
  <2>4. CASE ~(Start(w) \/ Get(w) \/ ReconcileNext(w))
    <3> HIDE DEF Start, Get, ReconcileNext
    <3> QED
      BY <2>4, ZenonT(60)
  <2> QED
    BY <2>1, <2>2, <2>3, <2>4, Zenon
<1>3. \/ UNCHANGED receiptOk
      \/ receiptOk' = [receiptOk EXCEPT ![w] = receipt[dir[w]] = value[w]]
  BY ZenonT(60)
<1>4. \/ UNCHANGED expected
      \/ /\ dir[w] \in Dirs
         /\ \E x \in live[dir[w]] : expected' = [expected EXCEPT ![w] = x.id]
  BY ZenonT(60) DEF InOrder, Converging, Deleting
<1>5. \/ UNCHANGED svc
      \/ \E s \in Services : svc' = [svc EXCEPT ![w] = s]
  BY ZenonT(60) DEF Types
<1>6. \/ UNCHANGED todo
      \/ todo' = [todo EXCEPT ![w] =
                    {<<d, desired[d]>> : d \in {e \in Dirs : desired[e] # None}}]
      \/ \E e : todo' = [todo EXCEPT ![w] = todo[w] \ {e}]
  BY ZenonT(60) DEF Types
<1>7. UNCHANGED status \/ \E s : status' = [status EXCEPT ![w] = s]
  BY ZenonT(60)
<1>8. UNCHANGED events \/ events' = events + 1
  BY ZenonT(60) DEF Event, bounds
<1> QED
  BY <1>1, <1>2, <1>3, <1>4, <1>5, <1>6, <1>7, <1>8, Zenon

(***************************************************************************)
(* A function changed at one point stays a function.                       *)
(***************************************************************************)
LEMMA ExceptIn ==
  ASSUME NEW S, NEW T, NEW f \in [S -> T], NEW p, NEW y \in T
  PROVE  [f EXCEPT ![p] = y] \in [S -> T]
OBVIOUS

(***************************************************************************)
(* The variables keep their types.                                         *)
(***************************************************************************)
LEMMA TypesStep ==
  ASSUME IInv, NEW w \in Workers, Acts(w)
  PROVE  Types'
<1>0. Types /\ InOrder(w)
  BY Zenon DEF IInv, Mine
<1>1. pc' \in [Workers -> Steps]
  <2>1. ASSUME pc[w] \in {"resolve", "build"} PROVE op[w] \in Steps
    BY <1>0, <2>1, Zenon DEF InOrder, Types, Steps
  <2>2. \E e \in Steps : pc' = [pc EXCEPT ![w] = e]
    BY <1>0, <2>1, LocalForms, Zenon DEF Goto
  <2> QED
    BY <1>0, <2>2, SMT DEF Types
<1>2. /\ op' \in [Workers -> {"none", "put", "delete", "get", "reconcile"}]
      /\ dir' \in [Workers -> Dirs \cup {None}]
      /\ value' \in [Workers -> Values \cup {None}]
  <2>0. ASSUME dir[w] \in Dirs PROVE desired[dir[w]] \in Values \cup {None}
    BY <1>0, <2>0, Zenon DEF Types
  <2>1. ASSUME NEW e \in todo[w]
        PROVE  e[1] \in Dirs \cup {None} /\ e[2] \in Values \cup {None}
    BY <1>0, <2>1 DEF Types
  <2>2. UNCHANGED op \/ \E o \in {"put", "delete", "get", "reconcile"} :
                            op' = [op EXCEPT ![w] = o]
    BY <1>0, LocalForms, Zenon
  <2> DEFINE DirFits == \E d \in Dirs \cup {None} : dir' = [dir EXCEPT ![w] = d]
             ValueFits == \E v \in Values \cup {None} : value' = [value EXCEPT ![w] = v]
  <2>8. ASSUME NEW d \in Dirs \cup {None}, dir' = [dir EXCEPT ![w] = d] PROVE DirFits
    BY <2>8, Zenon
  <2>9. ASSUME NEW v \in Values \cup {None}, value' = [value EXCEPT ![w] = v]
        PROVE  ValueFits
    BY <2>9, Zenon
  <2> HIDE DEF DirFits, ValueFits
  <2>10. ASSUME NEW e \in todo[w], dir' = [dir EXCEPT ![w] = e[1]],
               value' = [value EXCEPT ![w] = e[2]]
        PROVE  DirFits /\ ValueFits
    BY <2>1, <2>8, <2>9, <2>10, Zenon
  <2>3. UNCHANGED dir \/ DirFits
    BY <1>0, <2>8, <2>10, LocalForms, Zenon
  <2>4. UNCHANGED value \/ ValueFits
    BY <1>0, <2>0, <2>9, <2>10, LocalForms, Zenon
  <2>5. op' \in [Workers -> {"none", "put", "delete", "get", "reconcile"}]
    BY <1>0, <2>2, SMT DEF Types
  <2>6. dir' \in [Workers -> Dirs \cup {None}]
    BY <1>0, <2>3, SMT DEF Types, DirFits
  <2>7. value' \in [Workers -> Values \cup {None}]
    BY <1>0, <2>4, SMT DEF Types, ValueFits
  <2> QED
    BY <2>5, <2>6, <2>7, Zenon
<1>3. receiptOk' \in [Workers -> BOOLEAN] /\ svc' \in [Workers -> Services \cup {None}]
  <2>1. UNCHANGED receiptOk \/ \E r \in BOOLEAN : receiptOk' = [receiptOk EXCEPT ![w] = r]
    BY <1>0, LocalForms, Zenon
  <2>2. receiptOk' \in [Workers -> BOOLEAN]
    BY <1>0, <2>1, SMT DEF Types
  <2>3. UNCHANGED svc \/ \E s \in Services : svc' = [svc EXCEPT ![w] = s]
    BY <1>0, LocalForms, Zenon
  <2>4. svc' \in [Workers -> Services \cup {None}]
    BY <1>0, <2>3, SMT DEF Types
  <2> QED
    BY <2>2, <2>4, Zenon
<1>4. expected' \in [Workers -> Ids \cup {None}]
  <2>1. ASSUME dir[w] \in Dirs, NEW x \in live[dir[w]] PROVE x.id \in Ids
    BY <1>0, <2>1 DEF Types, Components
  <2>2. \/ UNCHANGED expected
        \/ /\ dir[w] \in Dirs
           /\ \E x \in live[dir[w]] : expected' = [expected EXCEPT ![w] = x.id]
    BY <1>0, LocalForms, ZenonT(30)
  <2>3. UNCHANGED expected \/ \E i \in Ids : expected' = [expected EXCEPT ![w] = i]
    BY <2>1, <2>2, Zenon
  <2> QED
    BY <1>0, <2>3, SMT DEF Types
<1>5. todo' \in [Workers -> SUBSET (Dirs \X Values)]
  <2>1. CASE todo' = [todo EXCEPT ![w] =
                        {<<d, desired[d]>> : d \in {e \in Dirs : desired[e] # None}}]
    BY <1>0, <2>1, SMT DEF Types
  <2>2. CASE \E e : todo' = [todo EXCEPT ![w] = todo[w] \ {e}]
    BY <1>0, <2>2, SMT DEF Types
  <2> QED
    BY <1>0, <2>1, <2>2, LocalForms, Zenon DEF Types
<1>6. status' = [v \in Workers |-> status'[v]]
  BY <1>0, LocalForms, ZenonT(30) DEF Types
<1>7. events' \in Nat
  BY <1>0, LocalForms DEF Types
<1>8. wired' \in Services \cup {None} /\ raced' \in BOOLEAN
  BY <1>0, WiringStep, Zenon DEF Types
<1>9. ASSUME pc[w] \in {"put", "create", "update", "record"}
      PROVE  dir[w] \in Dirs /\ value[w] \in Values
  BY <1>0, <1>9, Zenon DEF InOrder, Converging
<1>10. /\ desired' \in [Dirs -> Values \cup {None}]
       /\ receipt' \in [Dirs -> Values \cup {None}]
  <2>1. UNCHANGED desired \/ \E v \in Values \cup {None} : desired' = [desired EXCEPT ![dir[w]] = v]
    BY <1>0, <1>9, WriteForms, Zenon
  <2>2. UNCHANGED receipt \/ \E v \in Values \cup {None} : receipt' = [receipt EXCEPT ![dir[w]] = v]
    BY <1>0, <1>9, WriteForms, Zenon
  <2>3. desired' \in [Dirs -> Values \cup {None}]
    BY <1>0, <2>1, SMT DEF Types
  <2>4. receipt' \in [Dirs -> Values \cup {None}]
    BY <1>0, <2>2, SMT DEF Types
  <2> QED
    BY <2>3, <2>4, Zenon
<1>11. sent' \in [Dirs -> Values \cup {None}]
  BY <1>0, <1>9, WriteForms, ZenonT(30) DEF Types, Created, Updated, Removed
<1>12. live' \in [Dirs -> SUBSET Components]
  <2>1. CASE UNCHANGED live
    BY <1>0, <2>1, Zenon DEF Types
  <2>2. CASE pc[w] = "create" /\ Created(w)
    <3>1. PICK i \in Ids :
            live' = [live EXCEPT ![dir[w]] =
                       @ \cup {[id |-> i, val |-> value[w], own |-> TRUE]}]
      BY <2>2, Zenon DEF Created
    <3>2. [id |-> i, val |-> value[w], own |-> TRUE] \in Components
      BY <1>9, <2>2, SMT DEF Components
    <3>3. live[dir[w]] \cup {[id |-> i, val |-> value[w], own |-> TRUE]} \in SUBSET Components
      BY <1>0, <1>9, <2>2, <3>2, Zenon DEF Types
    <3> QED
      BY <1>0, <3>1, <3>3, ExceptIn, Zenon DEF Types
  <2>3. CASE pc[w] = "update" /\ Updated(w)
    <3>0. live[dir[w]] \in SUBSET Components
      BY <1>0, <1>9, <2>3, Zenon DEF Types
    <3>1. ASSUME NEW x \in live[dir[w]]
          PROVE  (IF x.id = expected[w] THEN [id |-> x.id, val |-> value[w], own |-> TRUE]
                  ELSE x) \in Components
      BY <1>9, <2>3, <3>0, SMT DEF Components
    <3>2. {IF x.id = expected[w] THEN [id |-> x.id, val |-> value[w], own |-> TRUE]
           ELSE x : x \in live[dir[w]]} \in SUBSET Components
      BY <3>1, Zenon
    <3> QED
      BY <1>0, <2>3, <3>2, ExceptIn, Zenon DEF Types, Updated
  <2>4. CASE Removed(w)
    BY <1>0, <2>4 DEF Types, Removed
  <2> QED
    BY <1>0, <2>1, <2>2, <2>3, <2>4, WriteForms, Zenon
<1>13. lock' \in [Services -> Workers \cup {None}]
  BY <1>0, LockStep, Zenon
<1> QED
  BY <1>1, <1>2, <1>3, <1>4, <1>5, <1>6, <1>7, <1>8, <1>10, <1>11, <1>12, <1>13, Zenon
  DEF Types

(***************************************************************************)
(* A restart forgets every request and every lock; what is stored stays.   *)
(***************************************************************************)
LEMMA CrashMine ==
  ASSUME IInv, Crash
  PROVE  IInv'
<1>1. /\ pc' = [w \in Workers |-> "idle"] /\ lock' = [s \in Services |-> None]
      /\ wired' = Wired /\ svc' = [w \in Workers |-> None]
      /\ status' = [w \in Workers |-> "none"] /\ events' = events + 1
      /\ UNCHANGED <<desired, receipt, live, sent, raced, op, dir, value, receiptOk, expected,
                     todo>>
  BY Zenon DEF Crash, Event, store
<1>2. /\ pc' \in [Workers -> Steps] /\ lock' \in [Services -> Workers \cup {None}]
      /\ wired' \in Services \cup {None} /\ svc' \in [Workers -> Services \cup {None}]
      /\ status' = [w \in Workers |-> status'[w]]
  BY <1>1, ConstantsAssumption, Zenon DEF Steps
<1>3. events' \in Nat
  BY <1>1 DEF IInv, Types
<1>4. Types'
  BY <1>1, <1>2, <1>3, Zenon DEF IInv, Types
<1>5. ASSUME NEW w \in Workers PROVE Mine(w)'
  <2>1. pc'[w] = "idle" /\ \A s \in Services : lock'[s] # w
    BY <1>1, ConstantsAssumption, Zenon
  <2> QED
    BY <2>1, Zenon DEF Mine, InOrder, LockKept, SameService, IntentKept, AtWork, Locked,
      Converging, Deleting
<1> QED
  BY <1>4, <1>5, Zenon DEF IInv

(***************************************************************************)
(* Someone else edits Keycloak.                                            *)
(***************************************************************************)
LEMMA OutOfBandMine ==
  ASSUME IInv, NEW d \in Dirs, OutOfBand(d)
  PROVE  IInv'
<1>1. /\ UNCHANGED <<desired, receipt, sent, wired, raced, lock, pc, op, dir, value,
                     receiptOk, expected, svc, todo, status>>
      /\ events' = events + 1
  BY Zenon DEF OutOfBand, Event, store, local
<1>2. live' \in [Dirs -> SUBSET Components] /\ events' \in Nat
  <2>1. CASE \E x \in live[d] : live' = [live EXCEPT ![d] = @ \ {x}]
    BY <1>1, <2>1 DEF IInv, Types
  <2>2. CASE \E x \in live[d], v \in Values :
               live' = [live EXCEPT ![d] =
                          (@ \ {x}) \cup {[id |-> x.id, val |-> v, own |-> x.own]}]
    BY <1>1, <2>2 DEF IInv, Types, Components
  <2>3. CASE \E i \in Ids, v \in Values :
               live' = [live EXCEPT ![d] = @ \cup {[id |-> i, val |-> v, own |-> FALSE]}]
    <3>1. PICK i \in Ids, v \in Values :
            live' = [live EXCEPT ![d] = @ \cup {[id |-> i, val |-> v, own |-> FALSE]}]
      BY <2>3, Zenon
    <3>2. [id |-> i, val |-> v, own |-> FALSE] \in Components
      BY SMT DEF Components
    <3>3. live[d] \cup {[id |-> i, val |-> v, own |-> FALSE]} \in SUBSET Components
      BY <3>2, Zenon DEF IInv, Types
    <3>4. events' \in Nat
      BY <1>1, SMT DEF IInv, Types
    <3> QED
      BY <3>1, <3>3, <3>4, ExceptIn, Zenon DEF IInv, Types
  <2> QED
    BY <2>1, <2>2, <2>3, Zenon DEF OutOfBand
<1>3. Types'
  BY <1>1, <1>2, Zenon DEF IInv, Types
<1>4. ASSUME NEW w \in Workers PROVE Mine(w)'
  <2>1. InOrder(w)'
    BY <1>1, Zenon DEF IInv, Mine, InOrder, AtWork
  <2>2. LockKept(w)'
    BY <1>1, Zenon DEF IInv, Mine, LockKept, Locked
  <2>3. SameService(w)' /\ IntentKept(w)'
    BY <1>1, Zenon DEF IInv, Mine, SameService, IntentKept, AtWork
  <2> QED
    BY <2>1, <2>2, <2>3, Zenon DEF Mine
<1> QED
  BY <1>3, <1>4, Zenon DEF IInv

(***************************************************************************)
(* Every step keeps the invariant.                                         *)
(***************************************************************************)
LEMMA StepIInv ==
  ASSUME IInv, Next
  PROVE  IInv'
<1>1. ASSUME NEW w \in Workers, Acts(w) PROVE IInv'
  BY <1>1, TypesStep, OwnMine, OthersMine, Zenon DEF IInv
<1> QED
  BY <1>1, CrashMine, OutOfBandMine, Zenon DEF Next, Acts

(***************************************************************************)
(* The inductive invariant: the convergence lock of a service object is    *)
(* held by exactly the request that is inside it, and while there is one   *)
(* service object nobody changes what that request relies on.              *)
(***************************************************************************)
THEOREM Invariance == Spec => []IInv
<1>1. Init => IInv
  <2> SUFFICES ASSUME Init PROVE IInv
    OBVIOUS
  <2>1. Types
    <3>1. live \in [Dirs -> SUBSET Components] /\ todo \in [Workers -> SUBSET (Dirs \X Values)]
      BY DEF Init
    <3>2. pc \in [Workers -> Steps]
      BY Zenon DEF Init, Steps
    <3>3. events \in Nat
      BY DEF Init
    <3> QED
      BY <3>1, <3>2, <3>3, ConstantsAssumption, Zenon DEF Init, Types
  <2>2. ASSUME NEW w \in Workers PROVE Mine(w)
    <3>1. pc[w] = "idle" /\ \A s \in Services : lock[s] # w
      BY ConstantsAssumption, Zenon DEF Init
    <3> QED
      BY <3>1, Zenon DEF Mine, InOrder, LockKept, SameService, IntentKept, AtWork, Locked,
        Converging, Deleting
  <2> QED
    BY <2>1, <2>2, Zenon DEF IInv
<1>2. ASSUME IInv, UNCHANGED vars PROVE IInv'
  <2>1. UNCHANGED <<desired, receipt, live, sent, wired, raced, lock, pc, op, dir, value,
                    receiptOk, expected, svc, todo, status, events>>
    BY <1>2, Zenon DEF vars, store, local, bounds
  <2>2. Types'
    BY <1>2, <2>1, Zenon DEF IInv, Types
  <2>3. ASSUME NEW w \in Workers PROVE Mine(w)'
    <3>1. InOrder(w)'
      BY <1>2, <2>1, Zenon DEF IInv, Mine, InOrder, AtWork
    <3>2. LockKept(w)'
      BY <1>2, <2>1, Zenon DEF IInv, Mine, LockKept, Locked
    <3>3. SameService(w)' /\ IntentKept(w)'
      BY <1>2, <2>1, Zenon DEF IInv, Mine, SameService, IntentKept, AtWork
    <3> QED
      BY <3>1, <3>2, <3>3, Zenon DEF Mine
  <2> QED
    BY <2>2, <2>3, Zenon DEF IInv
<1> QED
  BY <1>1, <1>2, StepIInv, PTL DEF Spec

-----------------------------------------------------------------------------
(***************************************************************************)
(* One step of a request is a step of the promise, or reconcile_all        *)
(* working through its snapshot.                                           *)
(***************************************************************************)
LEMMA ActsImplement ==
  ASSUME IInv, NEW w \in Workers, Acts(w), ~raced
  PROVE  DS!Next \/ FromSnapshot \/ UNCHANGED <<desired, sent, receipt>>
<1>0. Types /\ InOrder(w) /\ IntentKept(w)
  BY Zenon DEF IInv, Mine
<1>1. CASE pc[w] = "put"
  <2>1. dir[w] \in Dirs /\ value[w] \in Values
    BY <1>0, <1>1, Zenon DEF InOrder
  <2>2. UNCHANGED <<sent, receipt>>
    BY <1>0, <1>1, WriteForms, Zenon
  <2>3. UNCHANGED desired \/ DS!Store(dir[w], value[w])
    BY <1>0, <1>1, <2>2, WriteForms, Zenon DEF DS!Store
  <2> QED
    BY <2>1, <2>2, <2>3, Zenon DEF DS!Next
<1>2. CASE pc[w] = "withdraw"
  <2>1. dir[w] \in Dirs /\ sent[dir[w]] = None
    BY <1>0, <1>2, Zenon DEF InOrder, IntentKept, Deleting
  <2>2. UNCHANGED <<sent, receipt>>
    BY <1>0, <1>2, WriteForms, Zenon
  <2>3. UNCHANGED desired \/ DS!Withdraw(dir[w])
    BY <1>0, <1>2, <2>1, <2>2, WriteForms, Zenon DEF DS!Withdraw
  <2> QED
    BY <2>1, <2>2, <2>3, Zenon DEF DS!Next
<1>3. CASE pc[w] = "discard"
  <2>1. dir[w] \in Dirs /\ desired[dir[w]] = None
    BY <1>0, <1>3, Zenon DEF InOrder, IntentKept, Deleting
  <2>2. UNCHANGED <<sent, desired>>
    BY <1>0, <1>3, WriteForms, Zenon
  <2>3. UNCHANGED receipt \/ DS!Discard(dir[w])
    BY <1>0, <1>3, <2>1, <2>2, WriteForms, Zenon DEF DS!Discard
  <2> QED
    BY <2>1, <2>2, <2>3, Zenon DEF DS!Next
<1>4. CASE pc[w] = "record"
  <2>1. dir[w] \in Dirs /\ sent[dir[w]] = value[w] /\ op[w] \in {"put", "reconcile"}
        /\ value[w] # None
    BY <1>0, <1>4, ConstantsAssumption, Zenon DEF InOrder, IntentKept, Converging
  <2>2. UNCHANGED <<sent, desired>>
    BY <1>0, <1>4, WriteForms, Zenon
  <2>3. UNCHANGED receipt \/ receipt' = [receipt EXCEPT ![dir[w]] = value[w]]
    BY <1>0, <1>4, WriteForms, Zenon
  <2>4. CASE op[w] = "reconcile"
    BY <1>4, <2>2, <2>3, <2>4, Zenon DEF FromSnapshot
  <2>5. CASE op[w] = "put"
    <3>1. desired[dir[w]] = value[w]
      BY <1>0, <1>4, <2>5, Zenon DEF IntentKept, Converging
    <3>2. UNCHANGED receipt \/ DS!Record(dir[w])
      BY <2>1, <2>2, <2>3, <3>1, Zenon DEF DS!Record
    <3> QED
      BY <2>1, <2>2, <3>2, Zenon DEF DS!Next
  <2> QED
    BY <2>1, <2>4, <2>5, Zenon
<1>5. CASE pc[w] \in {"create", "update"}
  <2>1. dir[w] \in Dirs /\ op[w] \in {"put", "reconcile"} /\ value[w] # None
    BY <1>0, <1>5, ConstantsAssumption, Zenon DEF InOrder, Converging
  <2>2. UNCHANGED <<receipt, desired>>
    BY <1>0, <1>5, WriteForms, Zenon
  <2>3. UNCHANGED sent \/ sent' = [sent EXCEPT ![dir[w]] = value[w]]
    BY <1>0, <1>5, WriteForms, Zenon DEF Created, Updated
  <2>4. CASE op[w] = "reconcile"
    BY <1>5, <2>2, <2>3, <2>4, Zenon DEF FromSnapshot
  <2>5. CASE op[w] = "put"
    <3>1. desired[dir[w]] = value[w]
      BY <1>0, <1>5, <2>5, Zenon DEF IntentKept, Converging
    <3>2. UNCHANGED sent \/ DS!Send(dir[w])
      BY <2>1, <2>2, <2>3, <3>1, Zenon DEF DS!Send
    <3> QED
      BY <2>1, <2>2, <3>2, Zenon DEF DS!Next
  <2> QED
    BY <2>1, <2>4, <2>5, Zenon
<1>6. CASE pc[w] \in {"find", "remove"}
  <2>1. dir[w] \in Dirs /\ desired[dir[w]] # None
    BY <1>0, <1>6, Zenon DEF InOrder, IntentKept, Deleting
  <2>2. UNCHANGED <<receipt, desired>>
    BY <1>0, <1>6, WriteForms, Zenon
  <2>3. UNCHANGED sent \/ DS!Retire(dir[w])
    BY <1>0, <1>6, <2>1, <2>2, WriteForms, Zenon DEF Removed, DS!Retire
  <2> QED
    BY <2>1, <2>2, <2>3, Zenon DEF DS!Next
<1> QED
  BY <1>0, <1>1, <1>2, <1>3, <1>4, <1>5, <1>6, WriteForms, Zenon

(***************************************************************************)
(* Puts and deletes keep the promise of ADR 0004 (intent is stored before  *)
(* anything is sent, only the current intent is sent and recorded, and     *)
(* intent is forgotten only when nothing that was sent is left) for any    *)
(* number of directories, requests, failures and restarts, and             *)
(* reconcile_all adds nothing but its snapshot, as long as one service     *)
(* object is built.                                                        *)
(***************************************************************************)
THEOREM DirectoryImplementsDesiredState == Spec => ImplementsDesiredState
<1>1. Init => DS!Init
  BY Zenon DEF Init, DS!Init
<1>2. ASSUME IInv, [Next]_vars
      PROVE  [DS!Next \/ FromSnapshot \/ raced]_<<desired, sent, receipt>>
  <2>1. CASE UNCHANGED vars \/ Crash \/ \E d \in Dirs : OutOfBand(d)
    BY <2>1, Zenon DEF vars, store, Crash, OutOfBand
  <2>2. ASSUME NEW w \in Workers, Acts(w)
        PROVE  [DS!Next \/ FromSnapshot \/ raced]_<<desired, sent, receipt>>
    BY <1>2, <2>2, ActsImplement, Zenon
  <2> QED
    BY <1>2, <2>1, <2>2, Zenon DEF Next, Acts
<1> QED
  BY <1>1, <1>2, Invariance, PTL DEF Spec, ImplementsDesiredState

-----------------------------------------------------------------------------
(***************************************************************************)
(* Of the components with one name, no two share an id and at most one is  *)
(* the service's own ...                                                   *)
(***************************************************************************)
Single(S) == \A x, y \in S : x.id = y.id \/ (x.own /\ y.own) => x = y

(***************************************************************************)
(* ... and a request about to write found nothing of its own, or only the  *)
(* component it is about to update.                                        *)
(***************************************************************************)
Ready(w) ==
  /\ pc[w] = "create" => \A x \in live[dir[w]] : ~x.own
  /\ pc[w] = "update" => \A x \in live[dir[w]] : x.own => x.id = expected[w]

ComponentInv ==
  ~raced => (\A d \in Dirs : Single(live[d])) /\ (\A w \in Workers : Ready(w))

(***************************************************************************)
(* A write by the request inside the lock keeps the components apart.      *)
(***************************************************************************)
LEMMA CreatedSingle ==
  ASSUME IInv, NEW w \in Workers, pc[w] = "create", Created(w), Ready(w),
         \A d \in Dirs : Single(live[d])
  PROVE  \A d \in Dirs : Single(live'[d])
<1>1. dir[w] \in Dirs
  BY Zenon DEF IInv, Mine, InOrder, Converging
<1>2. PICK i \in Ids :
        /\ \A d \in Dirs : \A x \in live[d] : x.id # i
        /\ live' = [live EXCEPT ![dir[w]] =
                      @ \cup {[id |-> i, val |-> value[w], own |-> TRUE]}]
  BY Zenon DEF Created
<1> DEFINE new == [id |-> i, val |-> value[w], own |-> TRUE]
<1>3. new.id = i
  BY Zenon
<1>4. live' = [live EXCEPT ![dir[w]] = @ \cup {new}]
  BY <1>2, Zenon
<1> HIDE DEF new
<1>5. \A x \in live[dir[w]] : ~x.own /\ x.id # i
  BY <1>1, <1>2, Zenon DEF Ready
<1>6. Single(live[dir[w]] \cup {new})
  BY <1>1, <1>3, <1>5, Zenon DEF Single
<1> QED
  BY <1>1, <1>4, <1>6, Zenon DEF IInv, Types

(***************************************************************************)
(* An update takes over the component with the expected id.                *)
(***************************************************************************)
LEMMA UpdatedSingle ==
  ASSUME IInv, NEW w \in Workers, pc[w] = "update", Updated(w), Ready(w),
         \A d \in Dirs : Single(live[d])
  PROVE  \A d \in Dirs : Single(live'[d])
<1>1. dir[w] \in Dirs
  BY Zenon DEF IInv, Mine, InOrder, Converging
<1> DEFINE old == live[dir[w]]
           changed(x) == IF x.id = expected[w]
                         THEN [id |-> x.id, val |-> value[w], own |-> TRUE]
                         ELSE x
           new == {changed(x) : x \in old}
<1>2. live' = [live EXCEPT ![dir[w]] = new]
  BY Zenon DEF Updated
<1>3. Single(old)
  BY <1>1, Zenon
<1>4. \A x \in old : x.own => x.id = expected[w]
  BY Zenon DEF Ready
<1>5. \A x \in old :
        /\ changed(x).id = x.id
        /\ changed(x).own => x.id = expected[w]
  BY <1>4, Zenon
<1> HIDE DEF old, changed
<1>6. Single(new)
  <2> SUFFICES ASSUME NEW x \in old, NEW y \in old,
                      \/ changed(x).id = changed(y).id
                      \/ changed(x).own /\ changed(y).own
               PROVE  changed(x) = changed(y)
    BY Zenon DEF Single
  <2>1. x.id = y.id
    BY <1>5, Zenon
  <2> QED
    BY <1>3, <2>1, Zenon DEF Single
<1> HIDE DEF new
<1> QED
  BY <1>1, <1>2, <1>6, Zenon DEF IInv, Types

(***************************************************************************)
(* A request's own steps: _converge looks before it writes.                *)
(***************************************************************************)
LEMMA OwnReady ==
  ASSUME IInv, NEW w \in Workers, Acts(w)
  PROVE  Ready(w)'
<1>0. Types /\ InOrder(w)
  BY Zenon DEF IInv, Mine
<1>1. CASE Observe(w)
  <2>1. UNCHANGED <<live, dir>>
    BY <1>1, Zenon DEF Observe
  <2>2. ASSUME NEW r, Finish(w, r) PROVE Ready(w)'
    BY <1>0, <2>2, Zenon DEF Finish, Goto, Ready, Types
  <2>3. ASSUME live[dir[w]] = {}, Goto(w, "create") PROVE Ready(w)'
    BY <1>0, <2>1, <2>3, Zenon DEF Goto, Ready, Types
  <2>4. ASSUME NEW x, live[dir[w]] = {x}, Goto(w, "update"),
               expected' = [expected EXCEPT ![w] = x.id]
        PROVE  Ready(w)'
    <3>1. pc'[w] = "update" /\ expected'[w] = x.id
      BY <1>0, <2>4, Zenon DEF Goto, Types
    <3> QED
      BY <2>1, <2>4, <3>1, Zenon DEF Ready
  <2> QED
    BY <1>1, <2>2, <2>3, <2>4, Zenon DEF Observe
<1>2. CASE ~Observe(w)
  <2>1. ASSUME NEW step, Goto(w, step), step \notin {"create", "update"}
        PROVE  pc'[w] \notin {"create", "update"}
    BY <1>0, <2>1, Zenon DEF Goto, Types
  <2>2. ASSUME NEW r, Finish(w, r) PROVE pc'[w] \notin {"create", "update"}
    BY <2>1, <2>2, Zenon DEF Finish
  <2>3. pc'[w] \notin {"create", "update"}
    <3>1. CASE Start(w) \/ Put(w) \/ Get(w) \/ Snapshot(w) \/ ReconcileLock(w)
      BY <2>1, <2>2, <3>1, Zenon DEF Start, Request, Put, Get, Snapshot, ReconcileLock
    <3>2. CASE Resolve(w) \/ Build(w)
      <4>1. pc[w] \in {"resolve", "build"}
        BY <3>2, Zenon DEF Resolve, Build
      <4>2. op[w] \notin {"create", "update"}
        BY <1>0, Zenon DEF Types
      <4> QED
        BY <2>1, <3>2, <4>2, Zenon DEF Resolve, Build
    <3>3. CASE ReconcileNext(w) \/ ReconcileDone(w) \/ ReadReceipt(w)
      BY <2>1, <3>3, Zenon DEF ReconcileNext, ReconcileDone, ReadReceipt
    <3>4. CASE Create(w) \/ Update(w) \/ Record(w) \/ StatusFor(w)
      BY <2>1, <2>2, <3>4, Zenon DEF Create, Update, Record, StatusFor
    <3>5. CASE DeleteRead(w) \/ DeleteFind(w) \/ Remove(w) \/ Withdraw(w) \/ Discard(w)
      BY <2>1, <2>2, <3>5, Zenon DEF DeleteRead, DeleteFind, Remove, Withdraw, Discard
    <3>6. CASE ReadFails(w) \/ WriteFails(w) \/ Abort(w)
      BY <2>1, <2>2, <3>6, Zenon DEF ReadFails, WriteFails, Abort
    <3> QED
      BY <1>2, <3>1, <3>2, <3>3, <3>4, <3>5, <3>6, Zenon DEF Acts, Step
  <2> QED
    BY <2>3, Zenon DEF Ready
<1> QED
  BY <1>1, <1>2, Zenon

(***************************************************************************)
(* A request's step keeps the components apart, and every other request    *)
(* as ready as it was.                                                     *)
(***************************************************************************)
LEMMA ActsComponents ==
  ASSUME IInv, ComponentInv, NEW w \in Workers, Acts(w)
  PROVE  ComponentInv'
<1> SUFFICES ASSUME ~raced'
             PROVE  (\A d \in Dirs : Single(live'[d])) /\ (\A v \in Workers : Ready(v)')
  BY Zenon DEF ComponentInv
<1>0. Types /\ InOrder(w)
  BY Zenon DEF IInv, Mine
<1>1. ~raced
  BY <1>0, WiringStep, Zenon
<1>2. (\A d \in Dirs : Single(live[d])) /\ (\A v \in Workers : Ready(v))
  BY <1>1, Zenon DEF ComponentInv
<1>3. \A d \in Dirs : Single(live'[d])
  <2>1. ASSUME pc[w] = "remove", Removed(w) PROVE \A d \in Dirs : live'[d] \subseteq live[d]
    <3>1. dir[w] \in Dirs
      BY <1>0, <2>1, Zenon DEF InOrder, Deleting
    <3> QED
      BY <1>0, <2>1, <3>1, Zenon DEF Removed, Types
  <2>2. ASSUME \A d \in Dirs : live'[d] \subseteq live[d] PROVE \A d \in Dirs : Single(live'[d])
    BY <1>2, <2>2, Zenon DEF Single
  <2> QED
    BY <1>0, <1>2, <2>1, <2>2, WriteForms, CreatedSingle, UpdatedSingle, Zenon
<1>4. ASSUME NEW v \in Workers, v # w PROVE Ready(v)'
  <2>1. pc'[v] = pc[v] /\ dir'[v] = dir[v] /\ expected'[v] = expected[v]
    BY <1>0, <1>4, ActsLocally, Zenon
  <2>2. CASE Locked(v)
    BY <1>1, <1>2, <1>4, <2>1, <2>2, LeavesAlone, Zenon DEF Ready
  <2>3. CASE ~Locked(v)
    <3>1. pc[v] \notin {"create", "update"}
      BY <2>3, Zenon DEF IInv, Mine, InOrder, Locked, Converging
    <3> QED
      BY <2>1, <3>1, Zenon DEF Ready
  <2> QED
    BY <2>2, <2>3, Zenon
<1> QED
  BY <1>3, <1>4, OwnReady, Zenon

(***************************************************************************)
(* Components edited, removed or added in Keycloak directly are not the    *)
(* service's own, unless they were before.                                 *)
(***************************************************************************)
LEMMA OutOfBandComponents ==
  ASSUME IInv, ComponentInv, NEW d \in Dirs, OutOfBand(d)
  PROVE  ComponentInv'
<1>1. UNCHANGED <<pc, dir, expected, raced>>
  BY Zenon DEF OutOfBand, local
<1> SUFFICES ASSUME ~raced
             PROVE  (\A e \in Dirs : Single(live'[e])) /\ (\A v \in Workers : Ready(v)')
  BY <1>1, Zenon DEF ComponentInv
<1>2. (\A e \in Dirs : Single(live[e])) /\ (\A v \in Workers : Ready(v))
  BY Zenon DEF ComponentInv
<1> DEFINE Edited(S) == /\ live' = [live EXCEPT ![d] = S]
                        /\ Single(S)
                        /\ \A y \in S : y.own => \E x \in live[d] : x.own /\ x.id = y.id
<1>3. PICK S : Edited(S)
  <2>0. Single(live[d])
    BY <1>2, Zenon
  <2>1. ASSUME NEW x \in live[d], live' = [live EXCEPT ![d] = @ \ {x}]
        PROVE  \E S : Edited(S)
    <3>1. Single(live[d] \ {x})
      BY <2>0, Zenon DEF Single
    <3>2. live' = [live EXCEPT ![d] = live[d] \ {x}]
      BY <2>1, Zenon
    <3>3. Edited(live[d] \ {x})
      BY <3>1, <3>2, Zenon
    <3> QED
      BY <3>3, Zenon
  <2>2. ASSUME NEW x \in live[d], NEW v \in Values,
               live' = [live EXCEPT ![d] =
                          (@ \ {x}) \cup {[id |-> x.id, val |-> v, own |-> x.own]}]
        PROVE  \E S : Edited(S)
    <3> DEFINE new == [id |-> x.id, val |-> v, own |-> x.own]
    <3>1. new.id = x.id /\ new.own = x.own
      BY Zenon
    <3>2. live' = [live EXCEPT ![d] = (live[d] \ {x}) \cup {new}]
      BY <2>2, Zenon
    <3> HIDE DEF new
    <3>3. Single((live[d] \ {x}) \cup {new})
      BY <2>0, <3>1, Zenon DEF Single
    <3>4. Edited((live[d] \ {x}) \cup {new})
      BY <3>1, <3>2, <3>3, Zenon
    <3> QED
      BY <3>4, Zenon
  <2>3. ASSUME NEW i \in Ids, NEW v \in Values, \A x \in live[d] : x.id # i,
               live' = [live EXCEPT ![d] = @ \cup {[id |-> i, val |-> v, own |-> FALSE]}]
        PROVE  \E S : Edited(S)
    <3> DEFINE new == [id |-> i, val |-> v, own |-> FALSE]
    <3>1. new.id = i /\ ~new.own
      BY Zenon
    <3>2. live' = [live EXCEPT ![d] = live[d] \cup {new}]
      BY <2>3, Zenon
    <3> HIDE DEF new
    <3>3. Single(live[d] \cup {new})
      BY <2>0, <2>3, <3>1, Zenon DEF Single
    <3>4. Edited(live[d] \cup {new})
      BY <3>1, <3>2, <3>3, Zenon
    <3> QED
      BY <3>4, Zenon
  <2> HIDE DEF Edited
  <2> QED
    BY <2>1, <2>2, <2>3, Zenon DEF OutOfBand
<1>4. \A e \in Dirs : live'[e] = IF e = d THEN S ELSE live[e]
  BY <1>3, Zenon DEF IInv, Types
<1>5. \A e \in Dirs : Single(live'[e])
  BY <1>2, <1>3, <1>4, Zenon
<1>6. ASSUME NEW w \in Workers PROVE Ready(w)'
  <2>1. Ready(w) /\ (pc[w] \in {"create", "update"} => dir[w] \in Dirs)
    BY <1>2, Zenon DEF IInv, Mine, InOrder, Converging
  <2>2. ASSUME pc[w] \in {"create", "update"}, NEW y \in live'[dir[w]], y.own
        PROVE  \E x \in live[dir[w]] : x.own /\ x.id = y.id
    BY <1>3, <1>4, <2>1, <2>2, ZenonT(30)
  <2> QED
    BY <1>1, <2>1, <2>2, Zenon DEF Ready
<1> QED
  BY <1>5, <1>6, Zenon

(***************************************************************************)
(* The components' invariant holds initially and through every step.       *)
(***************************************************************************)
THEOREM ComponentInvariance == Spec => []ComponentInv
<1>1. Init => ComponentInv
  BY Zenon DEF Init, ComponentInv, Single, Ready
<1>2. ASSUME IInv, ComponentInv, [Next]_vars PROVE ComponentInv'
  <2>1. CASE UNCHANGED vars
    BY <1>2, <2>1, Zenon DEF vars, local, ComponentInv, Ready
  <2>2. CASE Crash
    BY <1>2, <2>2, Zenon DEF Crash, ComponentInv, Ready
  <2>3. ASSUME NEW w \in Workers, Acts(w) PROVE ComponentInv'
    BY <1>2, <2>3, ActsComponents, Zenon
  <2> QED
    BY <1>2, <2>1, <2>2, <2>3, OutOfBandComponents, Zenon DEF Next, Acts
<1> QED
  BY <1>1, <1>2, Invariance, PTL DEF Spec

-----------------------------------------------------------------------------
(***************************************************************************)
(* What _receipt_matches answered is still so when _converge looks at      *)
(* Keycloak ...                                                            *)
(***************************************************************************)
ReadOk(w) ==
  ~raced => (pc[w] = "observe" /\ receiptOk[w] => receipt[dir[w]] = value[w])

(***************************************************************************)
(* ... and while no call has failed a receipt names what was last sent,    *)
(* except between a write and its receipt.                                 *)
(***************************************************************************)
Catching(w, d) == dir[w] = d /\ pc[w] \in {"record", "withdraw", "discard"}

ReceiptTold(d) ==
  events = 0 /\ ~raced /\ receipt[d] # None =>
    sent[d] = receipt[d] \/ \E w \in Workers : Catching(w, d)

ReceiptInv ==
  /\ \A w \in Workers : ReadOk(w)
  /\ \A d \in Dirs : ReceiptTold(d)

(***************************************************************************)
(* With one service object, one request at a time is inside the lock.      *)
(***************************************************************************)
LEMMA Exclusive ==
  ASSUME IInv, ~raced, NEW w \in Workers, NEW v \in Workers, Locked(w), Locked(v)
  PROVE  v = w
<1>1. lock[wired] = w /\ lock[wired] = v
  BY Zenon DEF IInv, Mine, SameService, LockKept, AtWork, Locked, Converging, Deleting
<1> QED
  BY <1>1, Zenon

(***************************************************************************)
(* Only _receipt_matches leads to the observation.                         *)
(***************************************************************************)
LEMMA ObserveNext ==
  ASSUME IInv, NEW w \in Workers, Acts(w), pc'[w] = "observe"
  PROVE  ReadReceipt(w)
<1>0. Types
  BY Zenon DEF IInv
<1>1. ASSUME NEW step, Goto(w, step) PROVE step = "observe"
  BY <1>0, <1>1, Zenon DEF Goto, Types
<1>2. ASSUME NEW r, Finish(w, r) PROVE FALSE
  BY <1>1, <1>2, Zenon DEF Finish
<1>3. ASSUME Start(w) \/ Put(w) \/ Get(w) \/ Snapshot(w) \/ ReconcileLock(w) PROVE FALSE
  BY <1>1, <1>2, <1>3, Zenon DEF Start, Request, Put, Get, Snapshot, ReconcileLock
<1>4. ASSUME Resolve(w) \/ Build(w) PROVE FALSE
  <2>1. op[w] # "observe"
    BY <1>0, Zenon DEF Types
  <2> QED
    BY <1>1, <1>4, <2>1, Zenon DEF Resolve, Build
<1>5. ASSUME ReconcileNext(w) \/ ReconcileDone(w) PROVE FALSE
  BY <1>1, <1>5, Zenon DEF ReconcileNext, ReconcileDone
<1>6. ASSUME Observe(w) \/ Create(w) \/ Update(w) \/ Record(w) \/ StatusFor(w) PROVE FALSE
  BY <1>1, <1>2, <1>6, Zenon DEF Observe, Create, Update, Record, StatusFor
<1>7. ASSUME DeleteRead(w) \/ DeleteFind(w) \/ Remove(w) \/ Withdraw(w) \/ Discard(w)
      PROVE  FALSE
  BY <1>1, <1>2, <1>7, Zenon DEF DeleteRead, DeleteFind, Remove, Withdraw, Discard
<1>8. ASSUME ReadFails(w) \/ WriteFails(w) \/ Abort(w) PROVE FALSE
  BY <1>1, <1>2, <1>8, Zenon DEF ReadFails, WriteFails, Abort
<1> QED
  BY <1>3, <1>4, <1>5, <1>6, <1>7, <1>8, Zenon DEF Acts, Step

(***************************************************************************)
(* What was read of the receipt stays true up to the observation.          *)
(***************************************************************************)
LEMMA ActsReadOk ==
  ASSUME IInv, ReceiptInv, NEW w \in Workers, Acts(w), NEW v \in Workers
  PROVE  ReadOk(v)'
<1> SUFFICES ASSUME ~raced', pc'[v] = "observe", receiptOk'[v]
             PROVE  receipt'[dir'[v]] = value'[v]
  BY Zenon DEF ReadOk
<1>0. Types /\ ~raced
  BY WiringStep, Zenon DEF IInv
<1>1. CASE v = w
  <2>1. ReadReceipt(w)
    BY <1>1, ObserveNext, Zenon
  <2>2. /\ receiptOk' = [receiptOk EXCEPT ![w] = receipt[dir[w]] = value[w]]
        /\ UNCHANGED <<receipt, dir, value>>
    BY <2>1, Zenon DEF ReadReceipt, store
  <2>3. receiptOk'[w] <=> receipt[dir[w]] = value[w]
    BY <1>0, <2>2, Zenon DEF Types
  <2> QED
    BY <1>1, <2>2, <2>3, Zenon
<1>2. CASE v # w
  <2>1. /\ pc'[v] = pc[v] /\ dir'[v] = dir[v] /\ value'[v] = value[v]
        /\ receiptOk'[v] = receiptOk[v]
    BY <1>0, <1>2, ActsLocally, Zenon
  <2>2. Locked(v)
    BY <2>1, Zenon DEF IInv, Mine, InOrder, Locked, Converging
  <2>3. UNCHANGED receipt
    BY <1>0, <1>2, <2>2, LeavesAlone, Zenon
  <2> QED
    BY <1>0, <2>1, <2>3, Zenon DEF ReceiptInv, ReadOk
<1> QED
  BY <1>1, <1>2, Zenon

(***************************************************************************)
(* A write is followed by its receipt, or by the end of the old one.       *)
(***************************************************************************)
LEMMA ActsReceiptTold ==
  ASSUME IInv, ReceiptInv, NEW w \in Workers, Acts(w), NEW d \in Dirs
  PROVE  ReceiptTold(d)'
<1> SUFFICES ASSUME events' = 0, ~raced', receipt'[d] # None
             PROVE  sent'[d] = receipt'[d] \/ \E v \in Workers : Catching(v, d)'
  BY Zenon DEF ReceiptTold
<1>0. Types /\ ~raced /\ InOrder(w) /\ IntentKept(w)
  BY WiringStep, Zenon DEF IInv, Mine
<1>1. events = 0 /\ ~ReadFails(w) /\ ~WriteFails(w) /\ ~Abort(w)
  <2>1. events + 1 # 0
    BY <1>0 DEF Types
  <2>2. events' # events + 1
    BY <2>1, Zenon
  <2>3. events' = events
    BY <1>0, <2>2, LocalForms, Zenon
  <2> QED
    BY <2>2, <2>3, Zenon DEF ReadFails, WriteFails, Abort, Event
<1>2. \A v \in Workers \ {w} : Catching(v, d)' <=> Catching(v, d)
  BY <1>0, ActsLocally, Zenon DEF Catching
<1>3. receipt[d] # None => sent[d] = receipt[d] \/ \E v \in Workers : Catching(v, d)
  BY <1>0, <1>1, Zenon DEF ReceiptInv, ReceiptTold
<1>4. CASE pc[w] \in {"create", "update", "find", "remove"}
  <2>1. dir[w] \in Dirs /\ UNCHANGED receipt /\ ~Catching(w, d)
    BY <1>0, <1>4, WriteForms, Zenon DEF InOrder, Converging, Deleting, Catching
  <2>2. CASE UNCHANGED sent
    BY <1>2, <1>3, <2>1, <2>2, Zenon
  <2>3. CASE ~UNCHANGED sent
    <3>1. /\ \E e : sent' = [sent EXCEPT ![dir[w]] = e]
          /\ UNCHANGED dir
          /\ Goto(w, "record") \/ Goto(w, "withdraw")
      <4>1. Create(w) \/ Update(w) \/ DeleteFind(w) \/ Remove(w)
        BY <1>1, <1>4, Zenon DEF Acts, Start, Request, Step, Resolve, Build, Put, Get, Snapshot,
          ReconcileLock, ReconcileNext, ReconcileDone, ReadReceipt, Observe, Record,
          StatusFor, DeleteRead, Withdraw, Discard
      <4> QED
        BY <2>3, <4>1, Zenon DEF Create, Created, Update, Updated, DeleteFind, Remove, Removed,
          local
    <3>2. pc'[w] \in {"record", "withdraw"}
      BY <1>0, <3>1, Zenon DEF Goto, Types
    <3>3. CASE dir[w] = d
      BY <3>1, <3>2, <3>3, Zenon DEF Catching
    <3>4. CASE dir[w] # d
      <4>1. sent'[d] = sent[d]
        BY <1>0, <3>1, <3>4, Zenon DEF Types
      <4> QED
        BY <1>2, <1>3, <2>1, <4>1, Zenon
    <3> QED
      BY <3>3, <3>4, Zenon
  <2> QED
    BY <2>2, <2>3, Zenon
<1>5. CASE pc[w] = "withdraw"
  <2>1. Withdraw(w)
    BY <1>1, <1>5, Zenon DEF Acts, Start, Request, Step, Resolve, Build, Put, Get, Snapshot,
      ReconcileLock, ReconcileNext, ReconcileDone, ReadReceipt, Observe, Create, Update,
      Record, StatusFor, DeleteRead, DeleteFind, Remove, Discard
  <2>2. pc'[w] = "discard" /\ UNCHANGED <<receipt, sent, dir>>
    BY <1>0, <2>1, Zenon DEF Withdraw, Goto, Types, local
  <2>3. Catching(w, d) => Catching(w, d)'
    BY <2>2, Zenon DEF Catching
  <2> QED
    BY <1>2, <1>3, <2>2, <2>3, Zenon
<1>6. CASE pc[w] \in {"record", "discard"}
  <2>1. dir[w] \in Dirs /\ UNCHANGED sent
    BY <1>0, <1>6, WriteForms, Zenon DEF InOrder, Converging, Deleting
  <2>2. \/ pc[w] = "record" /\ receipt' = [receipt EXCEPT ![dir[w]] = value[w]]
        \/ pc[w] = "discard" /\ receipt' = [receipt EXCEPT ![dir[w]] = None]
    <3>1. Record(w) \/ Discard(w)
      BY <1>1, <1>6, Zenon DEF Acts, Start, Request, Step, Resolve, Build, Put, Get, Snapshot,
        ReconcileLock, ReconcileNext, ReconcileDone, ReadReceipt, Observe, Create, Update,
        StatusFor, DeleteRead, DeleteFind, Remove, Withdraw
    <3> QED
      BY <3>1, Zenon DEF Record, Discard
  <2>3. CASE dir[w] = d
    BY <1>0, <2>1, <2>2, <2>3, Zenon DEF Types, IntentKept
  <2>4. CASE dir[w] # d
    <3>1. receipt'[d] = receipt[d] /\ ~Catching(w, d)
      BY <1>0, <2>2, <2>4, Zenon DEF Types, Catching
    <3> QED
      BY <1>2, <1>3, <2>1, <3>1, Zenon
  <2> QED
    BY <2>3, <2>4, Zenon
<1>7. CASE pc[w] \notin {"create", "update", "find", "remove", "withdraw", "record", "discard"}
  <2>1. UNCHANGED <<sent, receipt>> /\ ~Catching(w, d)
    BY <1>0, <1>7, WriteForms, Zenon DEF Catching
  <2> QED
    BY <1>2, <1>3, <2>1, Zenon
<1> QED
  BY <1>4, <1>5, <1>6, <1>7, Zenon

(***************************************************************************)
(* The invariant of the receipts holds initially and through every step.   *)
(***************************************************************************)
THEOREM ReceiptInvariance == Spec => []ReceiptInv
<1>1. Init => ReceiptInv
  BY Zenon DEF Init, ReceiptInv, ReadOk, ReceiptTold
<1>2. ASSUME IInv, ReceiptInv, [Next]_vars PROVE ReceiptInv'
  <2>1. CASE UNCHANGED vars
    <3>1. UNCHANGED <<receipt, sent, raced, events, pc, dir, value, receiptOk>>
      BY <2>1, Zenon DEF vars, store, local, bounds
    <3>2. ASSUME NEW w \in Workers PROVE ReadOk(w)'
      BY <1>2, <3>1, Zenon DEF ReceiptInv, ReadOk
    <3>3. ASSUME NEW d \in Dirs PROVE ReceiptTold(d)'
      BY <1>2, <3>1, Zenon DEF ReceiptInv, ReceiptTold, Catching
    <3> QED
      BY <3>2, <3>3, Zenon DEF ReceiptInv
  <2>2. CASE Crash \/ \E d \in Dirs : OutOfBand(d)
    <3>1. events' = events + 1
      BY <2>2, Zenon DEF Crash, OutOfBand, Event
    <3>2. events' # 0
      BY <1>2, <3>1 DEF IInv, Types
    <3>3. ASSUME NEW w \in Workers PROVE ReadOk(w)'
      <4>1. ReadOk(w)
        BY <1>2, Zenon DEF ReceiptInv
      <4>2. CASE Crash
        BY <4>2, Zenon DEF Crash, ReadOk
      <4>3. CASE \E d \in Dirs : OutOfBand(d)
        <5>1. UNCHANGED <<receipt, raced, pc, dir, value, receiptOk>>
          BY <4>3, Zenon DEF OutOfBand, store, local
        <5> QED
          BY <4>1, <5>1, Zenon DEF ReadOk
      <4> QED
        BY <2>2, <4>2, <4>3, Zenon
    <3> QED
      BY <3>2, <3>3, Zenon DEF ReceiptInv, ReceiptTold
  <2>3. ASSUME NEW w \in Workers, Acts(w) PROVE ReceiptInv'
    BY <1>2, <2>3, ActsReadOk, ActsReceiptTold, Zenon DEF ReceiptInv
  <2> QED
    BY <1>2, <2>1, <2>2, <2>3, Zenon DEF Next, Acts
<1> QED
  BY <1>1, <1>2, Invariance, PTL DEF Spec

(***************************************************************************)
(* Only two steps of a put answer in_sync: the observation of a converged  *)
(* component, and the receipt that follows a write.                        *)
(***************************************************************************)
LEMMA AnswersInSync ==
  ASSUME IInv, NEW w \in Workers, Acts(w),
         op[w] = "put", status[w] = "none", status'[w] = "in_sync"
  PROVE  \/ Record(w)
         \/ Observe(w) /\ receiptOk[w]
<1> USE DEF local
<1>0. Types /\ InOrder(w)
  BY Zenon DEF IInv, Mine
<1>1. ASSUME NEW r, status' = [status EXCEPT ![w] = r] PROVE r = "in_sync"
  BY <1>0, <1>1, Zenon DEF Types
<1>2. ASSUME NEW r, Finish(w, r) PROVE r = "in_sync"
  BY <1>1, <1>2, Zenon DEF Finish
<1>3. ASSUME Start(w) PROVE FALSE
  BY <1>1, <1>3, Zenon DEF Start, Request
<1>4. ASSUME \/ Resolve(w) \/ Build(w) \/ Put(w) \/ Snapshot(w) \/ ReconcileLock(w)
             \/ ReconcileNext(w) \/ ReconcileDone(w) \/ ReadReceipt(w) \/ Create(w)
             \/ Withdraw(w)
      PROVE  FALSE
  BY <1>4, Zenon DEF Resolve, Build, Put, Snapshot, ReconcileLock, ReconcileNext,
    ReconcileDone, ReadReceipt, Create, Withdraw
<1>5. ASSUME Get(w) \/ DeleteRead(w) \/ StatusFor(w) PROVE FALSE
  BY <1>0, <1>5, Zenon DEF Get, DeleteRead, StatusFor, InOrder
<1>6. CASE Observe(w)
  BY <1>2, <1>6, Zenon DEF Observe, Converged
<1>7. ASSUME Update(w) PROVE FALSE
  BY <1>2, <1>7, Zenon DEF Update
<1>8. ASSUME DeleteFind(w) \/ Remove(w) \/ Discard(w) PROVE FALSE
  BY <1>2, <1>8, Zenon DEF DeleteFind, Remove, Discard
<1>9. ASSUME ReadFails(w) PROVE FALSE
  BY <1>2, <1>9, Zenon DEF ReadFails
<1>10. ASSUME WriteFails(w) PROVE FALSE
  BY <1>2, <1>10, Zenon DEF WriteFails
<1>11. ASSUME Abort(w) PROVE FALSE
  BY <1>1, <1>11, Zenon DEF Abort
<1> QED
  BY <1>3, <1>4, <1>5, <1>6, <1>7, <1>8, <1>9, <1>10, <1>11, Zenon DEF Acts, Step

(***************************************************************************)
(* While no call fails and nobody else edits Keycloak, a put that answers  *)
(* in_sync leaves its secret as the last one written, whatever other       *)
(* requests and old snapshots wrote before it.                             *)
(***************************************************************************)
THEOREM SecretIsKept == Spec => SecretKept
<1> DEFINE Kept(w) ==
      /\ events = 0 /\ ~raced
      /\ op[w] = "put" /\ status[w] = "none" /\ status'[w] = "in_sync"
      => sent'[dir[w]] # None /\ sent'[dir[w]].secret = value[w].secret
<1>1. ASSUME IInv, ReceiptInv, Next, NEW w \in Workers PROVE Kept(w)
  <2> SUFFICES ASSUME events = 0, ~raced, op[w] = "put", status[w] = "none",
                      status'[w] = "in_sync"
               PROVE  sent'[dir[w]] # None /\ sent'[dir[w]].secret = value[w].secret
    OBVIOUS
  <2>1. ASSUME Crash \/ \E d \in Dirs : OutOfBand(d) PROVE FALSE
    BY <2>1, Zenon DEF Crash, OutOfBand
  <2>2. PICK v \in Workers : Acts(v)
    BY <1>1, <2>1, Zenon DEF Next, Acts
  <2>3. v = w
    BY <1>1, <2>2, ActsLocally, Zenon DEF IInv
  <2>4. Record(w) \/ (Observe(w) /\ receiptOk[w])
    BY <1>1, <2>2, <2>3, AnswersInSync, Zenon
  <2>5. pc[w] \in {"record", "observe"} /\ UNCHANGED sent
    BY <2>4, Zenon DEF Record, Observe
  <2>6. dir[w] \in Dirs /\ value[w] \in Values /\ value[w] # None /\ Locked(w)
    BY <1>1, <2>5, ConstantsAssumption, Zenon DEF IInv, Mine, InOrder, Locked, Converging
  <2>7. sent[dir[w]] = value[w]
    <3>1. CASE pc[w] = "record"
      BY <1>1, <3>1, Zenon DEF IInv, Mine, IntentKept
    <3>2. CASE pc[w] = "observe"
      <4>1. receiptOk[w]
        BY <2>4, <3>2, Zenon DEF Record
      <4>2. receipt[dir[w]] = value[w]
        BY <1>1, <3>2, <4>1, Zenon DEF ReceiptInv, ReadOk
      <4>3. ASSUME NEW u \in Workers, Catching(u, dir[w]) PROVE FALSE
        <5>1. Locked(u) /\ u # w
          BY <1>1, <3>2, <4>3, Zenon
          DEF IInv, Mine, InOrder, Locked, Catching, Converging, Deleting
        <5> QED
          BY <1>1, <2>6, <5>1, Exclusive, Zenon
      <4> QED
        BY <1>1, <2>6, <4>2, <4>3, Zenon DEF ReceiptInv, ReceiptTold
    <3> QED
      BY <2>5, <3>1, <3>2, Zenon
  <2> QED
    BY <2>5, <2>6, <2>7, Zenon
<1>2. ASSUME IInv, ReceiptInv, [Next]_vars PROVE [\A w \in Workers : Kept(w)]_vars
  BY <1>1, <1>2, Zenon
<1> QED
  BY <1>2, Invariance, ReceiptInvariance, PTL DEF Spec, SecretKept

-----------------------------------------------------------------------------
(***************************************************************************)
(* What reconcile_all is to leave behind for a directory, and how far it   *)
(* has come while nothing disturbs it: each stored value is still in its   *)
(* snapshot, at work, or settled.                                          *)
(***************************************************************************)
Settled(d) ==
  \/ Cardinality(live[d]) > 1
  \/ /\ receipt[d] = desired[d]
     /\ \E x \in live[d] : live[d] = {x} /\ x.val.shown = desired[d].shown

Snapped(w) ==
  /\ \A e \in todo[w] : e[2] = desired[e[1]]
  /\ \A d \in Dirs : desired[d] # None =>
       \/ <<d, desired[d]>> \in todo[w]
       \/ pc[w] \in Converging /\ dir[w] = d
       \/ Settled(d)

(***************************************************************************)
(* What _converge read and wrote is still so at each of its later steps.   *)
(***************************************************************************)
OnCourse(w) ==
  /\ pc[w] \in Converging /\ op[w] # "get" => desired[dir[w]] = value[w]
  /\ pc[w] = "observe" /\ receiptOk[w] => receipt[dir[w]] = value[w]
  /\ pc[w] = "create" => live[dir[w]] = {}
  /\ pc[w] = "update" => \E x \in live[dir[w]] : live[dir[w]] = {x} /\ x.id = expected[w]
  /\ pc[w] = "record" =>
       \E x \in live[dir[w]] : live[dir[w]] = {x} /\ x.val.shown = value[w].shown
  /\ op[w] = "reconcile" /\ pc[w] \in {"wait", "next"} \cup Converging => Snapped(w)

CleanInv == \A w \in Workers : clean[w] /\ pc[w] # "idle" => OnCourse(w)

(***************************************************************************)
(* Steps before and after the convergence have nothing to keep.            *)
(***************************************************************************)
LEMMA OffCourse ==
  ASSUME NEW w \in Workers,
         \/ pc'[w] \notin {"wait", "next"} \cup Converging
         \/ pc'[w] = "receipt" /\ op'[w] = "get"
         \/ pc'[w] = "next" /\ op'[w] # "reconcile"
  PROVE  OnCourse(w)'
BY Zenon DEF OnCourse, Converging

(***************************************************************************)
(* The snapshot is worked off one directory at a time.                     *)
(***************************************************************************)
LEMMA SnappedStep ==
  ASSUME NEW w \in Workers, Snapped(w), UNCHANGED desired, todo'[w] = todo[w],
         \A d \in Dirs : pc[w] \in Converging /\ dir[w] = d =>
           (pc'[w] \in Converging /\ dir'[w] = d) \/ Settled(d)',
         \A d \in Dirs : pc[w] \notin Converging \/ d # dir[w] =>
           live'[d] = live[d] /\ receipt'[d] = receipt[d]
  PROVE  Snapped(w)'
<1>1. \A e \in todo'[w] : e[2] = desired'[e[1]]
  BY Zenon DEF Snapped
<1>2. ASSUME NEW d \in Dirs, desired'[d] # None
      PROVE  \/ <<d, desired'[d]>> \in todo'[w]
             \/ pc'[w] \in Converging /\ dir'[w] = d
             \/ Settled(d)'
  <2>1. CASE <<d, desired[d]>> \in todo[w]
    BY <2>1, Zenon
  <2>2. CASE pc[w] \in Converging /\ dir[w] = d
    BY <2>2, Zenon
  <2>3. CASE Settled(d) /\ ~(pc[w] \in Converging /\ dir[w] = d)
    BY <2>3, Zenon DEF Settled
  <2> QED
    BY <1>2, <2>1, <2>2, <2>3, Zenon DEF Snapped
<1> QED
  BY <1>1, <1>2, Zenon DEF Snapped

(***************************************************************************)
(* reconcile_all takes its snapshot and goes through it.                   *)
(***************************************************************************)
LEMMA SnapshotOnCourse ==
  ASSUME IInv, NEW w \in Workers, OnCourse(w),
         Snapshot(w) \/ ReconcileLock(w) \/ ReconcileNext(w)
  PROVE  OnCourse(w)'
<1>0. Types /\ InOrder(w)
  BY Zenon DEF IInv, Mine
<1>1. CASE Snapshot(w)
  <2>1. /\ pc'[w] = "wait" /\ UNCHANGED desired
        /\ todo'[w] = {<<d, desired[d]>> : d \in {e \in Dirs : desired[e] # None}}
    BY <1>0, <1>1, Zenon DEF Snapshot, Goto, Types, store
  <2>2. \A e \in todo'[w] : e[2] = desired'[e[1]]
    BY <2>1
  <2>3. \A d \in Dirs : desired'[d] # None => <<d, desired'[d]>> \in todo'[w]
    BY <2>1, Zenon
  <2> QED
    BY <2>1, <2>2, <2>3, Zenon DEF OnCourse, Snapped, Converging
<1>2. CASE ReconcileLock(w)
  <2>1. /\ pc[w] = "wait" /\ pc'[w] = "next"
        /\ UNCHANGED <<desired, receipt, live, todo, op>>
    BY <1>0, <1>2, Zenon DEF ReconcileLock, Goto, Types, store, local
  <2>2. Snapped(w) /\ pc[w] \notin Converging
    BY <1>0, <2>1, Zenon DEF OnCourse, InOrder, Converging
  <2>3. Snapped(w)'
    BY <2>1, <2>2, SnappedStep, Zenon
  <2> QED
    BY <2>1, <2>3, Zenon DEF OnCourse, Converging
<1>3. CASE ReconcileNext(w)
  <2>1. PICK e \in todo[w] :
          /\ todo' = [todo EXCEPT ![w] = @ \ {e}]
          /\ dir' = [dir EXCEPT ![w] = e[1]]
          /\ value' = [value EXCEPT ![w] = e[2]]
    BY <1>3, Zenon DEF ReconcileNext
  <2>2. e = <<e[1], e[2]>>
    BY <1>0, <2>1 DEF Types
  <2>3. /\ pc[w] = "next" /\ pc'[w] = "receipt"
        /\ todo'[w] = todo[w] \ {e} /\ dir'[w] = e[1] /\ value'[w] = e[2]
        /\ UNCHANGED <<desired, receipt, live, op>>
    BY <1>0, <1>3, <2>1, Zenon DEF ReconcileNext, Goto, Types, store
  <2>4. Snapped(w) /\ op[w] = "reconcile"
    BY <1>0, <2>3, Zenon DEF OnCourse, InOrder
  <2>5. desired'[dir'[w]] = value'[w]
    BY <2>3, <2>4, Zenon DEF Snapped
  <2>6. Snapped(w)'
    <3>1. \A f \in todo'[w] : f[2] = desired'[f[1]]
      BY <2>3, <2>4, Zenon DEF Snapped
    <3>2. ASSUME NEW d \in Dirs, desired'[d] # None
          PROVE  \/ <<d, desired'[d]>> \in todo'[w]
                 \/ pc'[w] \in Converging /\ dir'[w] = d
                 \/ Settled(d)'
      <4>1. CASE <<d, desired[d]>> = e
        <5>1. e[1] = d
          BY <2>2, <4>1
        <5> QED
          BY <2>3, <5>1, Zenon DEF Converging
      <4>2. CASE <<d, desired[d]>> # e
        BY <2>3, <2>4, <3>2, <4>2, Zenon DEF Snapped, Settled, Converging
      <4> QED
        BY <4>1, <4>2, Zenon
    <3> QED
      BY <3>1, <3>2, Zenon DEF Snapped
  <2> QED
    BY <2>3, <2>5, <2>6, Zenon DEF OnCourse, Converging
<1> QED
  BY <1>1, <1>2, <1>3, Zenon

(***************************************************************************)
(* _converge goes on with the directory it has.                            *)
(***************************************************************************)
LEMMA ContinuesSnapped ==
  ASSUME IInv, NEW w \in Workers, OnCourse(w), pc[w] \in Converging, pc'[w] \in Converging,
         UNCHANGED <<desired, op, dir, todo>>,
         \A d \in Dirs : d # dir[w] => live'[d] = live[d] /\ receipt'[d] = receipt[d]
  PROVE  op'[w] = "reconcile" => Snapped(w)'
<1> SUFFICES ASSUME op[w] = "reconcile" PROVE Snapped(w)'
  BY Zenon
<1>1. Snapped(w)
  BY Zenon DEF OnCourse
<1> QED
  BY <1>1, SnappedStep, Zenon

(***************************************************************************)
(* _converge is through with a directory that it leaves settled.           *)
(***************************************************************************)
LEMMA FinishOnCourse ==
  ASSUME IInv, NEW w \in Workers, OnCourse(w), pc[w] \in Converging, NEW r, Finish(w, r),
         UNCHANGED <<desired, op, dir, todo>>, Settled(dir[w])',
         \A d \in Dirs : d # dir[w] => live'[d] = live[d] /\ receipt'[d] = receipt[d]
  PROVE  OnCourse(w)'
<1>0. Types
  BY Zenon DEF IInv
<1>1. CASE op[w] # "reconcile"
  <2>1. pc'[w] = "idle"
    BY <1>0, <1>1, Zenon DEF Finish, Goto, Types
  <2> QED
    BY <2>1, OffCourse, Zenon DEF Converging
<1>2. CASE op[w] = "reconcile"
  <2>1. pc'[w] = "next" /\ Snapped(w)
    BY <1>0, <1>2, Zenon DEF Finish, Goto, Types, OnCourse
  <2>2. \A d \in Dirs : dir[w] = d => Settled(d)'
    BY Zenon DEF Settled
  <2>3. Snapped(w)'
    BY <2>1, <2>2, SnappedStep, Zenon
  <2> QED
    BY <2>1, <2>3, Zenon DEF OnCourse, Converging
<1> QED
  BY <1>1, <1>2, Zenon

(***************************************************************************)
(* _converge looks: at the receipt, then at Keycloak.                      *)
(***************************************************************************)
LEMMA LookOnCourse ==
  ASSUME IInv, NEW w \in Workers, OnCourse(w), ReadReceipt(w) \/ Observe(w)
  PROVE  OnCourse(w)'
<1>0. Types /\ InOrder(w)
  BY Zenon DEF IInv, Mine
<1>1. UNCHANGED <<desired, receipt, live, op, dir, value, todo>>
  BY Zenon DEF ReadReceipt, Observe, store
<1>2. CASE ReadReceipt(w) /\ op[w] # "get"
  <2>1. pc[w] = "receipt" /\ pc'[w] = "observe"
    BY <1>0, <1>2, Zenon DEF ReadReceipt, Goto, Types
  <2>2. receiptOk'[w] <=> receipt[dir[w]] = value[w]
    BY <1>0, <1>2, Zenon DEF ReadReceipt, Types
  <2>3. op'[w] = "reconcile" => Snapped(w)'
    BY <1>1, <2>1, ContinuesSnapped, Zenon DEF Converging
  <2>4. desired'[dir'[w]] = value'[w]
    BY <1>1, <1>2, <2>1, Zenon DEF OnCourse, Converging
  <2> QED
    BY <1>1, <2>1, <2>2, <2>3, <2>4, Zenon DEF OnCourse, Converging
<1>3. CASE ReadReceipt(w) /\ op[w] = "get"
  <2>1. pc'[w] = "status"
    BY <1>0, <1>3, Zenon DEF ReadReceipt, Goto, Types
  <2> QED
    BY <2>1, OffCourse, Zenon DEF Converging
<1>4. CASE Observe(w)
  <2>0. /\ pc[w] = "observe" /\ dir[w] \in Dirs /\ op[w] # "get"
        /\ desired[dir[w]] = value[w]
        /\ receiptOk[w] => receipt[dir[w]] = value[w]
    BY <1>0, <1>4, Zenon DEF Observe, InOrder, OnCourse, Converging
  <2>1. ASSUME NEW step \in {"create", "update"}, Goto(w, step),
               step = "create" => live[dir[w]] = {},
               step = "update" =>
                 \E x \in live[dir[w]] : live[dir[w]] = {x} /\ x.id = expected'[w]
        PROVE  OnCourse(w)'
    <3>1. pc'[w] = step
      BY <1>0, <2>1, Zenon DEF Goto, Types
    <3>2. op'[w] = "reconcile" => Snapped(w)'
      BY <1>1, <2>0, <3>1, ContinuesSnapped, Zenon DEF Converging
    <3> QED
      BY <1>1, <2>0, <2>1, <3>1, <3>2, Zenon DEF OnCourse, Converging
  <2>2. ASSUME Settled(dir[w]), NEW r, Finish(w, r) PROVE OnCourse(w)'
    <3>1. Settled(dir[w])'
      BY <1>1, <2>2, Zenon DEF Settled
    <3> QED
      BY <1>1, <2>0, <2>2, <3>1, FinishOnCourse, Zenon DEF Converging
  <2>3. CASE Cardinality(live[dir[w]]) > 1 /\ Finish(w, "ambiguous")
    BY <2>2, <2>3, Zenon DEF Settled
  <2>4. CASE live[dir[w]] = {} /\ Goto(w, "create")
    BY <2>1, <2>4, Zenon
  <2>5. ASSUME NEW x \in live[dir[w]], live[dir[w]] = {x},
               expected' = [expected EXCEPT ![w] = x.id],
               \/ Converged(w, x) /\ Finish(w, "in_sync")
               \/ Goto(w, "update")
        PROVE  OnCourse(w)'
    <3>1. CASE Converged(w, x) /\ Finish(w, "in_sync")
      <4>1. Settled(dir[w])
        BY <2>0, <2>5, <3>1, Zenon DEF Converged, Settled
      <4> QED
        BY <2>2, <3>1, <4>1, Zenon
    <3>2. CASE Goto(w, "update")
      <4>1. expected'[w] = x.id
        BY <1>0, <2>5, Zenon DEF Types
      <4> QED
        BY <2>1, <2>5, <3>2, <4>1, Zenon
    <3> QED
      BY <2>5, <3>1, <3>2, Zenon
  <2> QED
    BY <1>4, <2>3, <2>4, <2>5, Zenon DEF Observe
<1> QED
  BY <1>2, <1>3, <1>4, Zenon

(***************************************************************************)
(* _converge writes: the component, then the receipt.                      *)
(***************************************************************************)
LEMMA WriteOnCourse ==
  ASSUME IInv, NEW w \in Workers, OnCourse(w), Create(w) \/ Update(w) \/ Record(w)
  PROVE  OnCourse(w)'
<1>0. Types /\ InOrder(w)
  BY Zenon DEF IInv, Mine
<1>1. UNCHANGED <<desired, op, dir, value, todo>>
  BY Zenon DEF Create, Update, Record, store, local
<1>2. /\ pc[w] \in Converging /\ dir[w] \in Dirs /\ op[w] # "get"
      /\ desired[dir[w]] = value[w]
  <2>1. pc[w] \in {"create", "update", "record"}
    BY Zenon DEF Create, Update, Record
  <2> QED
    BY <1>0, <2>1, Zenon DEF InOrder, OnCourse, Converging
<1>3. ASSUME NEW x, x.val = value[w], live' = [live EXCEPT ![dir[w]] = {x}], Goto(w, "record"),
             UNCHANGED receipt
      PROVE  OnCourse(w)'
  <2>1. /\ pc'[w] = "record" /\ live'[dir[w]] = {x}
        /\ \A d \in Dirs : d # dir[w] => live'[d] = live[d]
    BY <1>0, <1>2, <1>3, Zenon DEF Goto, Types
  <2>2. op'[w] = "reconcile" => Snapped(w)'
    BY <1>1, <1>2, <1>3, <2>1, ContinuesSnapped, Zenon DEF Converging
  <2> QED
    BY <1>1, <1>2, <1>3, <2>1, <2>2, Zenon DEF OnCourse, Converging
<1>4. CASE Create(w)
  <2>1. live[dir[w]] = {}
    BY <1>4, Zenon DEF Create, OnCourse
  <2>2. PICK i \in Ids : live' = [live EXCEPT ![dir[w]] =
                                    @ \cup {[id |-> i, val |-> value[w], own |-> TRUE]}]
    BY <1>4, Zenon DEF Create, Created
  <2> DEFINE new == [id |-> i, val |-> value[w], own |-> TRUE]
  <2>3. new.val = value[w]
    BY Zenon
  <2>4. live' = [live EXCEPT ![dir[w]] = {new}]
    <3>1. live[dir[w]] \cup {new} = {new}
      BY <2>1, Zenon
    <3> QED
      BY <2>2, <3>1, Zenon
  <2> HIDE DEF new
  <2> QED
    BY <1>3, <1>4, <2>3, <2>4, Zenon DEF Create, store
<1>5. CASE Update(w)
  <2>1. PICK x \in live[dir[w]] : live[dir[w]] = {x} /\ x.id = expected[w]
    BY <1>5, Zenon DEF Update, OnCourse
  <2>2. Updated(w) /\ Goto(w, "record")
    BY <1>5, <2>1, Zenon DEF Update
  <2> DEFINE new == [id |-> x.id, val |-> value[w], own |-> TRUE]
             changed(y) == IF y.id = expected[w]
                           THEN [id |-> y.id, val |-> value[w], own |-> TRUE]
                           ELSE y
  <2>3. new.val = value[w] /\ changed(x) = new
    BY <2>1, Zenon
  <2>4. live' = [live EXCEPT ![dir[w]] = {changed(y) : y \in live[dir[w]]}]
    BY <2>2, Zenon DEF Updated
  <2> HIDE DEF new, changed
  <2>5. {changed(y) : y \in live[dir[w]]} = {new}
    BY <2>1, <2>3, Zenon
  <2> QED
    BY <1>3, <1>5, <2>2, <2>3, <2>4, <2>5, Zenon DEF Update, store
<1>6. CASE Record(w)
  <2>1. /\ pc[w] = "record" /\ receipt' = [receipt EXCEPT ![dir[w]] = value[w]]
        /\ Finish(w, "in_sync") /\ UNCHANGED live
    BY <1>6, Zenon DEF Record
  <2>2. receipt'[dir[w]] = value[w] /\ \A d \in Dirs : d # dir[w] => receipt'[d] = receipt[d]
    BY <1>0, <1>2, <2>1, Zenon DEF Types
  <2>3. \E x \in live[dir[w]] : live[dir[w]] = {x} /\ x.val.shown = value[w].shown
    BY <2>1, Zenon DEF OnCourse
  <2>4. Settled(dir[w])'
    BY <1>1, <1>2, <2>1, <2>2, <2>3, Zenon DEF Settled
  <2> QED
    BY <1>1, <1>2, <2>1, <2>2, <2>4, FinishOnCourse, Zenon
<1> QED
  BY <1>4, <1>5, <1>6, Zenon

(***************************************************************************)
(* Every step of a request that meets no failure keeps it on course.       *)
(***************************************************************************)
LEMMA StepOnCourse ==
  ASSUME IInv, NEW w \in Workers, OnCourse(w), Step(w)
  PROVE  OnCourse(w)'
<1>0. Types /\ InOrder(w)
  BY Zenon DEF IInv, Mine
<1>1. ASSUME NEW step, Goto(w, step), step \notin {"wait", "next"} \cup Converging
      PROVE  OnCourse(w)'
  <2>1. pc'[w] = step
    BY <1>0, <1>1, Zenon DEF Goto, Types
  <2> QED
    BY <1>1, <2>1, OffCourse, Zenon
<1>2. ASSUME NEW r, Finish(w, r), op[w] # "reconcile" PROVE OnCourse(w)'
  BY <1>1, <1>2, Zenon DEF Finish, Converging
<1>3. CASE Resolve(w) \/ Build(w)
  <2>1. op[w] \notin {"wait", "next"} \cup Converging
    BY <1>0, Zenon DEF Types, Converging
  <2>2. "build" \notin {"wait", "next"} \cup Converging
    BY Zenon DEF Converging
  <2> QED
    BY <1>1, <1>3, <2>1, <2>2, Zenon DEF Resolve, Build
<1>4. CASE Put(w)
  <2>1. /\ pc'[w] = "receipt" /\ op[w] = "put" /\ dir[w] \in Dirs
        /\ UNCHANGED <<op, dir, value>>
    BY <1>0, <1>4, Zenon DEF Put, Goto, Types, InOrder, local
  <2>2. desired'[dir[w]] = value[w]
    BY <1>0, <1>4, <2>1, Zenon DEF Put, Types
  <2> QED
    BY <2>1, <2>2, Zenon DEF OnCourse
<1>5. CASE Get(w)
  <2>1. op[w] = "get" /\ UNCHANGED op
    BY <1>0, <1>5, Zenon DEF Get, InOrder
  <2>2. Finish(w, "not_found") \/ Goto(w, "receipt")
    BY <1>5, Zenon DEF Get
  <2>3. ASSUME Goto(w, "receipt") PROVE pc'[w] = "receipt"
    BY <1>0, <2>3, Zenon DEF Goto, Types
  <2> QED
    BY <1>2, <2>1, <2>2, <2>3, OffCourse, Zenon
<1>6. CASE ReconcileDone(w)
  BY <1>1, <1>6, Zenon DEF ReconcileDone, Converging
<1>7. CASE StatusFor(w)
  BY <1>0, <1>2, <1>7, Zenon DEF StatusFor, InOrder
<1>8. CASE DeleteRead(w) \/ DeleteFind(w) \/ Remove(w) \/ Withdraw(w) \/ Discard(w)
  <2>1. op[w] # "reconcile"
    BY <1>0, <1>8, Zenon DEF DeleteRead, DeleteFind, Remove, Withdraw, Discard, InOrder, Deleting
  <2>2. \/ \E r : Finish(w, r)
        \/ Goto(w, "find") \/ Goto(w, "withdraw") \/ Goto(w, "remove") \/ Goto(w, "discard")
    BY <1>8, Zenon DEF DeleteRead, DeleteFind, Remove, Withdraw, Discard
  <2> QED
    BY <1>1, <1>2, <2>1, <2>2, Zenon DEF Converging
<1> QED
  BY <1>3, <1>4, <1>5, <1>6, <1>7, <1>8, SnapshotOnCourse, LookOnCourse, WriteOnCourse, Zenon
  DEF Step

(***************************************************************************)
(* A request that nothing disturbs stays on course while others work.      *)
(***************************************************************************)
LEMMA CleanStep ==
  ASSUME IInv, MCNext, NEW w \in Workers, clean'[w], pc[w] # "idle"
  PROVE  /\ clean[w]
         /\ \/ Step(w)
            \/ /\ UNCHANGED <<desired, receipt, live>>
               /\ pc'[w] = pc[w] /\ op'[w] = op[w] /\ dir'[w] = dir[w]
               /\ value'[w] = value[w] /\ receiptOk'[w] = receiptOk[w]
               /\ expected'[w] = expected[w] /\ todo'[w] = todo[w]
<1>0. Types
  BY Zenon DEF IInv
<1>1. /\ clean[w] /\ events' = events
      /\ pc'[w] # pc[w] \/ UNCHANGED <<desired, receipt, live>>
  BY Zenon DEF MCNext
<1>2. ~Event
  <2>1. events + 1 # events
    BY <1>0 DEF Types
  <2> QED
    BY <1>1, <2>1, Zenon DEF Event
<1>3. PICK v \in Workers : Acts(v)
  BY <1>2, Zenon DEF MCNext, Next, Acts, Crash, OutOfBand
<1>4. CASE v = w
  <2>1. ~Start(w)
    BY Zenon DEF Start, Request
  <2> QED
    BY <1>1, <1>2, <1>3, <1>4, <2>1, Zenon DEF Acts, ReadFails, WriteFails, Abort
<1>5. CASE v # w
  <2>1. /\ pc'[w] = pc[w] /\ op'[w] = op[w] /\ dir'[w] = dir[w]
        /\ value'[w] = value[w] /\ receiptOk'[w] = receiptOk[w]
        /\ expected'[w] = expected[w] /\ todo'[w] = todo[w]
    BY <1>0, <1>3, <1>5, ActsLocally, Zenon
  <2> QED
    BY <1>1, <2>1, Zenon
<1> QED
  BY <1>4, <1>5, Zenon

(***************************************************************************)
(* The invariant of undisturbed requests holds through every step.         *)
(***************************************************************************)
LEMMA CleanKept ==
  ASSUME IInv, CleanInv, MCNext
  PROVE  CleanInv'
<1> SUFFICES ASSUME NEW w \in Workers, clean'[w], pc'[w] # "idle" PROVE OnCourse(w)'
  BY Zenon DEF CleanInv
<1>1. CASE pc[w] = "idle"
  <2>1. PICK v \in Workers : Acts(v)
    BY <1>1, Zenon DEF MCNext, Next, Acts, Crash, OutOfBand
  <2>2. v = w
    BY <1>1, <2>1, ActsLocally, Zenon DEF IInv
  <2>3. Start(w)
    BY <1>1, <2>1, <2>2, ZenonT(30) DEF Acts, Step, Resolve, Build, Put, Get, Snapshot, ReconcileLock,
      ReconcileNext, ReconcileDone, ReadReceipt, Observe, Create, Update, Record,
      StatusFor, DeleteRead, DeleteFind, Remove, Withdraw, Discard, ReadFails,
      WriteFails, Abort
  <2>4. pc'[w] = "resolve"
    BY <2>3, Zenon DEF Start, Request, Goto, IInv, Types
  <2> QED
    BY <2>4, OffCourse, Zenon DEF Converging
<1>2. CASE pc[w] # "idle"
  <2>1. OnCourse(w)
    BY <1>2, CleanStep, Zenon DEF CleanInv
  <2>2. CASE Step(w)
    BY <2>1, <2>2, StepOnCourse, Zenon
  <2>3. CASE /\ UNCHANGED <<desired, receipt, live>>
             /\ pc'[w] = pc[w] /\ op'[w] = op[w] /\ dir'[w] = dir[w]
             /\ value'[w] = value[w] /\ receiptOk'[w] = receiptOk[w]
             /\ expected'[w] = expected[w] /\ todo'[w] = todo[w]
    <3>1. Snapped(w) => Snapped(w)'
      BY <2>3, Zenon DEF Snapped, Settled
    <3> QED
      BY <2>1, <2>3, <3>1, Zenon DEF OnCourse
  <2> QED
    BY <1>2, <2>2, <2>3, CleanStep, Zenon
<1> QED
  BY <1>1, <1>2, Zenon

(***************************************************************************)
(* Whatever failures, lost answers, crashes and outside edits left behind, *)
(* and whatever service objects were built, a put or a reconcile_all that  *)
(* runs undisturbed ends with a receipt for the stored intent and one live *)
(* component that shows it, unless Keycloak holds duplicates.              *)
(***************************************************************************)
THEOREM UndisturbedDirectoryConverges == MCSpec => UndisturbedConverges
<1> DEFINE Converges ==
      \A w \in Workers :
        (pc[w] # "idle" /\ pc'[w] = "idle" /\ clean[w] /\ clean'[w]) =>
          \A d \in Dirs :
            ((op[w] = "put" /\ d = dir[w]) \/ (op[w] = "reconcile" /\ desired'[d] # None)) =>
              \/ Cardinality(live'[d]) > 1
              \/ /\ receipt'[d] = desired'[d]
                 /\ \E x \in live'[d] :
                      live'[d] = {x} /\ x.val.shown = desired'[d].shown
<1>1. MCInit => Init /\ CleanInv
  BY Zenon DEF MCInit, CleanInv
<1>2. [MCNext]_<<vars, clean>> => [Next]_vars
  BY Zenon DEF MCNext
<1>3. ASSUME IInv, CleanInv, [MCNext]_<<vars, clean>> PROVE CleanInv'
  <2>1. CASE UNCHANGED <<vars, clean>>
    <3>1. UNCHANGED <<desired, receipt, live, pc, op, dir, value, receiptOk, expected, todo,
                      clean>>
      BY <2>1, Zenon DEF vars, store, local
    <3>2. ASSUME NEW w \in Workers, OnCourse(w) PROVE OnCourse(w)'
      <4>1. Snapped(w) => Snapped(w)'
        BY <3>1, Zenon DEF Snapped, Settled
      <4> QED
        BY <3>1, <3>2, <4>1, Zenon DEF OnCourse
    <3> QED
      BY <1>3, <3>1, <3>2, Zenon DEF CleanInv
  <2> QED
    BY <1>3, <2>1, CleanKept, Zenon
<1>4. ASSUME IInv, CleanInv, MCNext PROVE Converges
  <2> SUFFICES ASSUME NEW w \in Workers, pc[w] # "idle", pc'[w] = "idle", clean'[w],
                      NEW d \in Dirs,
                      \/ op[w] = "put" /\ d = dir[w]
                      \/ op[w] = "reconcile" /\ desired'[d] # None
               PROVE  Settled(d)'
    BY Zenon DEF Settled
  <2>0. Types /\ InOrder(w)
    BY <1>4, Zenon DEF IInv, Mine
  <2>1. Step(w) /\ OnCourse(w)
    BY <1>4, CleanStep, Zenon DEF CleanInv
  <2>2. ASSUME NEW step, Goto(w, step) PROVE step = "idle"
    BY <2>0, <2>2, Zenon DEF Goto, Types
  <2>3. ASSUME NEW r, Finish(w, r) PROVE op[w] # "reconcile"
    BY <2>2, <2>3, Zenon DEF Finish
  <2>4. CASE op[w] = "reconcile"
    <3>1. ReconcileDone(w)
      <4>1. ~(Resolve(w) \/ Build(w))
        BY <2>0, <2>2, <2>4, Zenon DEF Resolve, Build
      <4>2. ~(Put(w) \/ Get(w) \/ Snapshot(w) \/ ReconcileLock(w) \/ ReconcileNext(w))
        BY <2>2, <2>3, <2>4, Zenon DEF Put, Get, Snapshot, ReconcileLock, ReconcileNext
      <4>3. ~(ReadReceipt(w) \/ Observe(w) \/ Create(w) \/ Update(w) \/ Record(w) \/ StatusFor(w))
        BY <2>2, <2>3, <2>4, Zenon
        DEF ReadReceipt, Observe, Create, Update, Record, StatusFor
      <4>4. ~(DeleteRead(w) \/ DeleteFind(w) \/ Remove(w) \/ Withdraw(w) \/ Discard(w))
        BY <2>2, <2>3, <2>4, Zenon
        DEF DeleteRead, DeleteFind, Remove, Withdraw, Discard
      <4> QED
        BY <2>1, <4>1, <4>2, <4>3, <4>4, Zenon DEF Step
    <3>2. pc[w] = "next" /\ todo[w] = {} /\ UNCHANGED <<desired, receipt, live>>
      BY <3>1, Zenon DEF ReconcileDone, store
    <3>3. Settled(d)
      BY <2>1, <2>4, <3>2, Zenon DEF OnCourse, Snapped, Converging
    <3> QED
      BY <3>2, <3>3, Zenon DEF Settled
  <2>5. CASE op[w] = "put" /\ d = dir[w]
    <3>1. Observe(w) \/ Update(w) \/ Record(w)
      <4>1. ~(Resolve(w) \/ Build(w))
        BY <2>0, <2>2, <2>5, Zenon DEF Resolve, Build
      <4>2. ~(Put(w) \/ Snapshot(w) \/ ReconcileLock(w) \/ ReconcileNext(w) \/ ReadReceipt(w) \/ Create(w))
        BY <2>2, Zenon DEF Put, Snapshot, ReconcileLock, ReconcileNext, ReadReceipt, Create
      <4>3. ~(Get(w) \/ ReconcileDone(w) \/ StatusFor(w) \/ DeleteRead(w))
        BY <2>0, <2>5, Zenon DEF Get, ReconcileDone, StatusFor, DeleteRead, InOrder
      <4>4. ~(DeleteFind(w) \/ Remove(w) \/ Withdraw(w) \/ Discard(w))
        BY <2>0, <2>5, Zenon DEF DeleteFind, Remove, Withdraw, Discard, InOrder, Deleting
      <4> QED
        BY <2>1, <4>1, <4>2, <4>3, <4>4, Zenon DEF Step
    <3>2. desired[d] = value[w] /\ UNCHANGED desired
      BY <2>1, <2>5, <3>1, Zenon DEF OnCourse, Observe, Update, Record, Converging, store
    <3>3. CASE Observe(w)
      <4>1. UNCHANGED <<live, receipt>> /\ pc[w] = "observe"
        BY <3>3, Zenon DEF Observe, store
      <4>2. Settled(d)
        <5>1. \/ Cardinality(live[d]) > 1
              \/ \E x \in live[d] : live[d] = {x} /\ Converged(w, x)
          BY <2>2, <2>5, <3>3, Zenon DEF Observe
        <5> QED
          BY <2>1, <2>5, <3>2, <4>1, <5>1, Zenon DEF OnCourse, Converged, Settled
      <4> QED
        BY <3>2, <4>1, <4>2, Zenon DEF Settled
    <3>4. CASE Update(w)
      <4>1. \E x \in live[dir[w]] : x.id = expected[w]
        BY <2>1, <3>4, Zenon DEF Update, OnCourse
      <4> QED
        BY <2>2, <3>4, <4>1, Zenon DEF Update
    <3>5. CASE Record(w)
      <4>1. receipt'[d] = value[w] /\ UNCHANGED live
        BY <2>0, <2>5, <3>5, Zenon DEF Record, Types
      <4>2. \E x \in live[d] : live[d] = {x} /\ x.val.shown = value[w].shown
        BY <2>1, <2>5, <3>5, Zenon DEF Record, OnCourse
      <4> QED
        BY <3>2, <4>1, <4>2, Zenon DEF Settled
    <3> QED
      BY <3>1, <3>3, <3>4, <3>5, Zenon
  <2> QED
    BY <2>4, <2>5, Zenon
<1>5. ASSUME IInv, CleanInv, [MCNext]_<<vars, clean>> PROVE [Converges]_<<vars, clean>>
  BY <1>4, <1>5, Zenon
<1>6. MCSpec => Spec
  BY <1>1, <1>2, PTL DEF MCSpec, Spec
<1>7. MCSpec => []IInv
  BY <1>6, Invariance, PTL
<1>8. MCSpec => []CleanInv
  BY <1>1, <1>3, <1>7, PTL DEF MCSpec
<1> QED
  BY <1>5, <1>7, <1>8, PTL DEF MCSpec, UndisturbedConverges

-----------------------------------------------------------------------------
INSTANCE FiniteSetTheorems

(***************************************************************************)
(* However puts, deletes and reconcile_all with its old snapshot           *)
(* interleave, fail or crash, Keycloak never holds two components of one   *)
(* name that this service created or took over, as long as one service     *)
(* object is built.                                                        *)
(***************************************************************************)
THEOREM AtMostOneOwnComponent == Spec => []OneOwnComponent
<1>1. ASSUME ComponentInv PROVE OneOwnComponent
  <2> SUFFICES ASSUME ~raced, NEW d \in Dirs
               PROVE  Cardinality({x \in live[d] : x.own}) <= 1
    BY Zenon DEF OneOwnComponent
  <2> DEFINE own == {x \in live[d] : x.own}
  <2>1. \A x, y \in own : x = y
    BY <1>1, Zenon DEF ComponentInv, Single
  <2>2. CASE own = {}
    BY <2>2, FS_EmptySet
  <2>3. ASSUME NEW x \in own PROVE Cardinality(own) <= 1
    <3>1. own = {x}
      BY <2>1, Zenon
    <3>2. Cardinality({x}) = 1
      BY FS_Singleton, Zenon
    <3> QED
      BY <3>1, <3>2
  <2> QED
    BY <2>2, <2>3, Zenon
<1> QED
  BY <1>1, ComponentInvariance, PTL
=============================================================================
