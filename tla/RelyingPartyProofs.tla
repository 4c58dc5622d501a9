------------------------- MODULE RelyingPartyProofs -------------------------
(***************************************************************************)
(* Proofs about relying-party reconciliation (RelyingParty), for any       *)
(* clients, registrations, concurrent requests, failures and crashes.      *)
(***************************************************************************)
EXTENDS MCRelyingParty, TLAPS

(***************************************************************************)
(* The types the argument needs; Keycloak's clients may be anything.       *)
(***************************************************************************)
Types ==
  /\ desired \in [Clients -> Registrations \cup {None}]
  /\ receipt \in [Clients -> Registrations \cup {None}]
  /\ sent \in [Clients -> Registrations \cup {None}]
  /\ lock \in [Clients -> Workers \cup {None}]
  /\ pc \in [Workers -> Steps]
  /\ op \in [Workers -> {"none", "put", "delete", "get", "reconcile"}]
  /\ client \in [Workers -> Clients \cup {None}]
  /\ value \in [Workers -> Registrations \cup {None}]
  /\ todo \in [Workers -> SUBSET Clients]

IInv == Types /\ LockInv

(***************************************************************************)
(* What a request relies on is untouched by others while they leave its    *)
(* own variables and the clients it has locked alone.                      *)
(***************************************************************************)
LEMMA Undisturbed ==
  ASSUME IInv, NEW v \in Workers,
         pc'[v] = pc[v], op'[v] = op[v], client'[v] = client[v], value'[v] = value[v],
         \A c \in Clients :
           lock[c] = v => lock'[c] = v /\ desired'[c] = desired[c] /\ sent'[c] = sent[c]
  PROVE  InOrder(v)'
<1> USE DEF InOrder, Mutating
<1>1. InOrder(v)
  BY Zenon DEF IInv, LockInv
<1>2. CASE Mutating(v)
  <2>1. client[v] \in Clients /\ lock[client[v]] = v
    BY <1>1, <1>2, Zenon DEF IInv, Types
  <2> QED BY <1>1, <1>2, <2>1, Zenon DEF IInv, Types
<1>3. CASE ~Mutating(v)
  BY <1>1, <1>3, Zenon DEF IInv, Types, Steps, Converging
<1> QED BY <1>2, <1>3, Zenon

(***************************************************************************)
(* A step of one request that keeps to itself, to free locks and to the    *)
(* clients it has locked disturbs no other.                                *)
(***************************************************************************)
LEMMA OthersInOrder ==
  ASSUME IInv, NEW w \in Workers, InOrder(w)',
         \A v \in Workers \ {w} :
           /\ pc'[v] = pc[v] /\ op'[v] = op[v]
           /\ client'[v] = client[v] /\ value'[v] = value[v],
         \A c \in Clients : lock[c] \notin {w, None} =>
           lock'[c] = lock[c] /\ desired'[c] = desired[c] /\ sent'[c] = sent[c]
  PROVE  LockInv'
<1> SUFFICES ASSUME NEW v \in Workers, v # w PROVE InOrder(v)'
  BY Zenon DEF LockInv
<1>1. \A c \in Clients :
        lock[c] = v => lock'[c] = v /\ desired'[c] = desired[c] /\ sent'[c] = sent[c]
  BY ConstantsAssumption, Zenon
<1> QED BY <1>1, Undisturbed, Zenon

(***************************************************************************)
(* Leaving the with block gives up only the request's own locks.           *)
(***************************************************************************)
LEMMA FinishTypes ==
  ASSUME IInv, NEW w \in Workers, Release(w)
  PROVE  /\ lock' \in [Clients -> Workers \cup {None}]
         /\ \A c \in Clients : lock[c] \notin {w, None} => lock'[c] = lock[c]
  BY Zenon DEF IInv, Types, Release

(***************************************************************************)
(* After a status is returned the request relies on nothing any more.      *)
(***************************************************************************)
LEMMA FinishIInv ==
  ASSUME IInv, NEW w \in Workers, NEW s, Finish(w, s),
         UNCHANGED <<op, client, value, todo>>,
         desired' \in [Clients -> Registrations \cup {None}],
         receipt' \in [Clients -> Registrations \cup {None}],
         sent' \in [Clients -> Registrations \cup {None}],
         \A c \in Clients : lock[c] \notin {w, None} =>
           desired'[c] = desired[c] /\ sent'[c] = sent[c]
  PROVE  IInv'
<1>1. pc'[w] \in {"idle", "next"} /\ (pc'[w] = "next" => op'[w] = "reconcile")
  BY Zenon DEF Finish, Goto, IInv, Types
<1>2. InOrder(w)'
  BY <1>1, Zenon DEF InOrder, Mutating, Converging
<1>3. \A v \in Workers \ {w} : pc'[v] = pc[v]
  BY Zenon DEF Finish, Goto, IInv, Types
<1>4. pc' \in [Workers -> Steps]
  BY Zenon DEF Finish, Goto, IInv, Types, Steps
<1>5. Release(w)
  BY Zenon DEF Finish
<1>6. LockInv'
  BY <1>2, <1>3, <1>5, FinishTypes, OthersInOrder, Zenon
<1> QED BY <1>4, <1>5, <1>6, FinishTypes, Zenon DEF IInv, Types

(***************************************************************************)
(* A request arrives: put_registration, delete_registration,               *)
(* get_registration or reconcile_all.                                      *)
(***************************************************************************)
LEMMA StartIInv ==
  ASSUME IInv, NEW w \in Workers, Start(w)
  PROVE  IInv'
<1>1. PICK o \in {"put", "delete", "get", "reconcile"}, c \in Clients \cup {None},
           v \in Registrations \cup {None}, step \in {"store", "read", "receipt", "next"} :
        /\ Begin(w, o, c, v, step)
        /\ step # "next" => c \in Clients
        /\ step \in {"store", "receipt"} => v \in Registrations
        /\ o = "get" <=> step = "receipt"
  BY Zenon DEF Start, PutStart, DeleteStart, GetStart, ReconcileStart, IInv, Types
<1>2. todo' \in [Workers -> SUBSET Clients]
  BY DEF Start, PutStart, DeleteStart, GetStart, ReconcileStart, IInv, Types
<1>3. Types'
  BY <1>1, <1>2, Zenon DEF Begin, Goto, store, IInv, Types, Steps
<1>4. InOrder(w)'
  BY <1>1, Zenon DEF Begin, Goto, IInv, Types, InOrder, Mutating, Converging, Steps
<1>5. LockInv'
  BY <1>1, <1>4, OthersInOrder, Zenon DEF Begin, Goto, store, IInv, Types
<1> QED BY <1>3, <1>5, Zenon DEF IInv

(***************************************************************************)
(* put_registration stores the intent in the step that takes the lock.     *)
(***************************************************************************)
LEMMA PutStoreIInv ==
  ASSUME IInv, NEW w \in Workers, PutStore(w)
  PROVE  IInv'
<1> USE DEF PutStore, Acquire, Goto, local
<1>1. client[w] \in Clients /\ value[w] \in Registrations /\ op[w] # "get"
  BY Zenon DEF IInv, LockInv, InOrder, Steps
<1>2. Types'
  BY <1>1, Zenon DEF IInv, Types, Steps
<1>3. InOrder(w)'
  BY <1>1, Zenon DEF IInv, Types, InOrder, Mutating, Converging, Steps
<1>4. LockInv'
  BY <1>1, <1>3, OthersInOrder, Zenon DEF IInv, Types
<1> QED BY <1>2, <1>4, Zenon DEF IInv

(***************************************************************************)
(* reconcile_all reads the record again in the step that takes the lock.   *)
(***************************************************************************)
LEMMA ReconcileNextIInv ==
  ASSUME IInv, NEW w \in Workers, ReconcileNext(w)
  PROVE  IInv'
<1> USE DEF Goto, store
<1>1. PICK c \in todo[w] :
        /\ lock[c] = None
        /\ todo' = [todo EXCEPT ![w] = @ \ {c}]
        /\ \/ /\ desired[c] = None
              /\ UNCHANGED <<lock, client, value, pc>>
           \/ /\ desired[c] # None
              /\ lock' = [lock EXCEPT ![c] = w]
              /\ client' = [client EXCEPT ![w] = c]
              /\ value' = [value EXCEPT ![w] = desired[c]]
              /\ Goto(w, "receipt")
  BY Zenon DEF ReconcileNext
<1>2. /\ c \in Clients /\ pc[w] = "next" /\ op[w] # "get"
      /\ UNCHANGED <<desired, receipt, sent, op>>
  BY Zenon DEF ReconcileNext, IInv, Types, LockInv, InOrder
<1>3. Types'
  BY <1>1, <1>2 DEF IInv, Types, Steps
<1>4. InOrder(w)'
  BY <1>1, <1>2 DEF IInv, Types, InOrder, Mutating, Converging, Steps
<1>5. LockInv'
  BY <1>1, <1>2, <1>4, OthersInOrder, Zenon DEF IInv, Types
<1> QED BY <1>3, <1>5, Zenon DEF IInv

(***************************************************************************)
(* A step that moves a request on, under the lock it already has.          *)
(***************************************************************************)
LEMMA AdvanceIInv ==
  ASSUME IInv, NEW w \in Workers, NEW step \in Steps, Goto(w, step),
         UNCHANGED <<lock, op, client, value, todo>>,
         receipt' \in [Clients -> Registrations \cup {None}],
         desired' \in [Clients -> Registrations \cup {None}],
         sent' \in [Clients -> Registrations \cup {None}],
         \A c \in Clients : lock[c] \notin {w, None} =>
           desired'[c] = desired[c] /\ sent'[c] = sent[c],
         InOrder(w)'
  PROVE  IInv'
<1>1. LockInv'
  BY OthersInOrder, Zenon DEF Goto, IInv, Types
<1> QED BY <1>1, Zenon DEF Goto, IInv, Types

(***************************************************************************)
(* What a request under its lock may rely on.                              *)
(***************************************************************************)
LEMMA Working ==
  ASSUME IInv, NEW w \in Workers,
         pc[w] \in {"observe", "create", "update", "verify", "record", "find",
                    "remove", "withdraw", "discard"}
  PROVE  /\ client[w] \in Clients
         /\ lock[client[w]] = w
         /\ op[w] # "get"
         /\ pc[w] \in Converging =>
              value[w] \in Registrations /\ desired[client[w]] = value[w]
  BY Zenon DEF IInv, LockInv, InOrder, Mutating, Converging, Steps

(***************************************************************************)
(* The end of reconcile_all and the steps of _converge.                    *)
(***************************************************************************)
LEMMA ConvergeIInv ==
  ASSUME IInv, NEW w \in Workers,
         \/ ReconcileDone(w) \/ ReadReceipt(w) \/ Observe(w) \/ Create(w)
         \/ Update(w) \/ Verify(w) \/ Record(w)
  PROVE  IInv'
<1> USE DEF store, local
<1>0. InOrder(w)
  BY Zenon DEF IInv, LockInv
<1>1. CASE ReconcileDone(w)
  <2>1. InOrder(w)'
    BY <1>1, Zenon DEF ReconcileDone, Goto, IInv, Types, InOrder, Mutating, Converging
  <2> QED BY <1>1, <2>1, AdvanceIInv, Zenon DEF ReconcileDone, IInv, Types, Steps
<1>2. CASE ReadReceipt(w)
  <2>1. InOrder(w)'
    BY <1>0, <1>2, Zenon
    DEF ReadReceipt, Goto, IInv, Types, InOrder, Mutating, Converging, Steps
  <2>2. PICK step \in {"status", "observe"} : Goto(w, step)
    BY <1>2, Zenon DEF ReadReceipt
  <2> QED BY <1>2, <2>1, <2>2, AdvanceIInv, Zenon DEF ReadReceipt, IInv, Types, Steps
<1>3. CASE Observe(w)
  <2>1. UNCHANGED <<desired, receipt, sent, op, client, value, todo>>
    BY <1>3, Zenon DEF Observe
  <2>2. ASSUME NEW r, Finish(w, r) PROVE IInv'
    BY <2>1, <2>2, FinishIInv, Zenon DEF IInv, Types
  <2>3. ASSUME NEW step \in {"create", "update"}, Goto(w, step), UNCHANGED lock
        PROVE  IInv'
    <3>1. InOrder(w)'
      BY <1>3, <2>1, <2>3, Working
      DEF Observe, Goto, IInv, Types, InOrder, Mutating, Converging, Steps
    <3> QED BY <2>1, <2>3, <3>1, AdvanceIInv, Zenon DEF IInv, Types, Steps
  <2> QED BY <1>3, <2>2, <2>3, Zenon DEF Observe
<1>4. CASE Create(w) \/ (Update(w) /\ Updated(w) /\ Goto(w, "verify") /\ UNCHANGED lock)
  <2>1. /\ pc[w] \in {"create", "update"} /\ Goto(w, "verify")
        /\ sent' = [sent EXCEPT ![client[w]] = value[w]]
        /\ UNCHANGED <<desired, receipt, lock, op, client, value, todo>>
    BY <1>4, Zenon DEF Create, Created, Update, Updated
  <2>2. InOrder(w)'
    BY <2>1, Working, Zenon DEF Goto, IInv, Types, InOrder, Mutating, Converging, Steps
  <2> QED BY <2>1, <2>2, AdvanceIInv, Working, Zenon DEF IInv, Types, Steps, Converging
<1>5. CASE Update(w) /\ Finish(w, "apply_failed") /\ UNCHANGED sent
  BY <1>5, FinishIInv, Zenon DEF Update, IInv, Types
<1>6. CASE Verify(w)
  <2>1. UNCHANGED <<desired, receipt, sent, op, client, value, todo>>
    BY <1>6, Zenon DEF Verify
  <2>2. ASSUME NEW r, Finish(w, r) PROVE IInv'
    BY <2>1, <2>2, FinishIInv, Zenon DEF IInv, Types
  <2>3. ASSUME Goto(w, "record"), UNCHANGED lock PROVE IInv'
    <3>1. InOrder(w)'
      BY <1>0, <1>6, <2>1, <2>3, Working, Zenon
      DEF Verify, Goto, IInv, Types, InOrder, Mutating, Converging, Steps
    <3> QED BY <2>1, <2>3, <3>1, AdvanceIInv, Zenon DEF IInv, Types, Steps
  <2> QED BY <1>6, <2>2, <2>3, Zenon DEF Verify
<1>7. CASE Record(w)
  BY <1>7, FinishIInv, Working, Zenon DEF Record, IInv, Types
<1> QED BY <1>1, <1>2, <1>3, <1>4, <1>5, <1>6, <1>7, Zenon DEF Update

(***************************************************************************)
(* The steps of delete_registration, and the end of get_registration.      *)
(***************************************************************************)
LEMMA DeleteIInv ==
  ASSUME IInv, NEW w \in Workers,
         \/ DeleteRead(w) \/ DeleteFind(w) \/ Remove(w) \/ Withdraw(w)
         \/ Discard(w) \/ StatusFor(w)
  PROVE  IInv'
<1> USE DEF store, local
<1>0. InOrder(w)
  BY Zenon DEF IInv, LockInv
<1>1. CASE DeleteRead(w)
  <2>1. /\ pc[w] = "read" /\ client[w] \in Clients /\ op[w] # "get"
        /\ lock[client[w]] = None
        /\ UNCHANGED <<desired, receipt, sent, op, client, value, todo>>
    BY <1>0, <1>1, Zenon DEF DeleteRead, InOrder, Steps
  <2>2. \/ Goto(w, "idle") /\ UNCHANGED lock
        \/ /\ desired[client[w]] # None
           /\ lock' = [lock EXCEPT ![client[w]] = w]
           /\ Goto(w, "find")
    BY <1>1, Zenon DEF DeleteRead
  <2>3. InOrder(w)'
    BY <2>1, <2>2, Zenon DEF Goto, IInv, Types, InOrder, Mutating, Converging, Steps
  <2>4. LockInv'
    BY <2>1, <2>2, <2>3, OthersInOrder, Zenon DEF Goto, IInv, Types
  <2> QED BY <2>1, <2>2, <2>4 DEF Goto, IInv, Types, Steps
<1>2. CASE DeleteFind(w) \/ Remove(w)
  <2>1. /\ pc[w] \in {"find", "remove"}
        /\ UNCHANGED <<desired, receipt, op, client, value, todo>>
    BY <1>2, Zenon DEF DeleteFind, Remove
  <2>2. ASSUME NEW r, Finish(w, r), UNCHANGED sent PROVE IInv'
    BY <2>1, <2>2, FinishIInv, Zenon DEF IInv, Types
  <2>3. ASSUME Goto(w, "withdraw"), UNCHANGED lock,
               sent' = [sent EXCEPT ![client[w]] = None]
        PROVE  IInv'
    <3>1. InOrder(w)'
      BY <2>1, <2>3, Working, Zenon
      DEF Goto, IInv, Types, InOrder, Mutating, Converging, Steps
    <3> QED BY <2>1, <2>3, <3>1, AdvanceIInv, Working, Zenon DEF IInv, Types, Steps
  <2>4. ASSUME Goto(w, "remove"), UNCHANGED <<lock, sent>>
        PROVE  IInv'
    <3>1. InOrder(w)'
      BY <1>0, <2>1, <2>4, Working, Zenon
      DEF Goto, IInv, Types, InOrder, Mutating, Converging, Steps
    <3> QED BY <2>1, <2>4, <3>1, AdvanceIInv, Zenon DEF IInv, Types, Steps
  <2> QED BY <1>2, <2>2, <2>3, <2>4, Zenon DEF DeleteFind, Remove, Removed
<1>3. CASE Withdraw(w)
  <2>1. /\ pc[w] = "withdraw" /\ Goto(w, "discard")
        /\ desired' = [desired EXCEPT ![client[w]] = None]
        /\ UNCHANGED <<receipt, sent, lock, op, client, value, todo>>
    BY <1>3, Zenon DEF Withdraw
  <2>2. InOrder(w)'
    BY <2>1, Working, Zenon DEF Goto, IInv, Types, InOrder, Mutating, Converging, Steps
  <2> QED BY <2>1, <2>2, AdvanceIInv, Working, Zenon DEF IInv, Types, Steps
<1>4. CASE Discard(w)
  BY <1>4, FinishIInv, Working, Zenon DEF Discard, IInv, Types
<1>5. CASE StatusFor(w)
  <2>1. PICK r : Finish(w, r)
    BY <1>5, Zenon DEF StatusFor
  <2> QED BY <1>5, <2>1, FinishIInv, Zenon DEF StatusFor, IInv, Types
<1> QED BY <1>1, <1>2, <1>3, <1>4, <1>5, Zenon

(***************************************************************************)
(* Failed calls, exceptions, the end of the process, changes made in       *)
(* Keycloak directly.                                                      *)
(***************************************************************************)
LEMMA FaultIInv ==
  ASSUME IInv, Crash \/ (\E w \in Workers : Fault(w)) \/ (\E c \in Clients : OutOfBand(c))
  PROVE  IInv'
<1> USE DEF store, local
<1>1. CASE Crash
  BY <1>1, Zenon DEF Crash, IInv, Types, LockInv, InOrder, Mutating, Converging, Steps
<1>2. ASSUME NEW c \in Clients, OutOfBand(c) PROVE IInv'
  BY <1>2, Zenon DEF OutOfBand, IInv, Types, LockInv, InOrder, Mutating
<1>3. ASSUME NEW w \in Workers, ReadFails(w) PROVE IInv'
  <2>1. PICK r : Finish(w, r)
    BY <1>3, Zenon DEF ReadFails
  <2> QED BY <1>3, <2>1, FinishIInv, Zenon DEF ReadFails, IInv, Types
<1>4. ASSUME NEW w \in Workers, WriteFails(w) PROVE IInv'
  <2>1. PICK r : Finish(w, r)
    BY <1>4, Zenon DEF WriteFails
  <2>2. /\ pc[w] \in {"create", "update", "remove"}
        /\ \E x \in {sent[client[w]], value[w], None} :
             sent' = [sent EXCEPT ![client[w]] = x]
        /\ UNCHANGED <<desired, receipt, op, client, value, todo>>
    BY <1>4, Zenon DEF WriteFails, Created, Updated, Removed, IInv, Types
  <2> QED BY <2>1, <2>2, FinishIInv, Working DEF IInv, Types
<1>5. ASSUME NEW w \in Workers, Abort(w) PROVE IInv'
  <2>1. Release(w) /\ Goto(w, "idle") /\ UNCHANGED <<desired, receipt, sent, op, client, value, todo>>
    BY <1>5, Zenon DEF Abort
  <2>2. InOrder(w)'
    BY <2>1, Zenon DEF Goto, IInv, Types, InOrder, Mutating, Converging
  <2>3. LockInv'
    BY <2>1, <2>2, FinishTypes, OthersInOrder, Zenon DEF Goto, IInv, Types
  <2> QED BY <2>1, <2>3, FinishTypes, Zenon DEF Goto, IInv, Types, Steps
<1> QED BY <1>1, <1>2, <1>3, <1>4, <1>5, Zenon DEF Fault

(***************************************************************************)
(* The invariant holds initially and through every step.                   *)
(***************************************************************************)
THEOREM Invariance == Spec => []IInv
<1>1. Init => IInv
  BY DEF Init, IInv, Types, LockInv, InOrder, Mutating, Converging, Steps
<1>2. ASSUME IInv, [Next]_vars PROVE IInv'
  <2>1. CASE UNCHANGED vars
    BY <1>2, <2>1, Zenon DEF vars, store, local, IInv, Types, LockInv, InOrder, Mutating
  <2>2. ASSUME NEW w \in Workers, Step(w) PROVE IInv'
    BY <1>2, <2>2, PutStoreIInv, ReconcileNextIInv, ConvergeIInv, DeleteIInv, Zenon DEF Step
  <2> QED BY <1>2, <2>1, <2>2, StartIInv, FaultIInv, Zenon DEF Next
<1> QED BY <1>1, <1>2, PTL DEF Spec

(***************************************************************************)
(* Whatever interleaving, failure or crash happens, every mutating request *)
(* works under its client's lock on the intent stored there.               *)
(***************************************************************************)
THEOREM LockInvHolds == Spec => []LockInv
<1>1. IInv => LockInv
  BY Zenon DEF IInv
<1> QED BY Invariance, <1>1, PTL

-----------------------------------------------------------------------------
(***************************************************************************)
(* Every step of the service is a step of the abstract promise, or leaves  *)
(* intent, receipts and what was sent as they are.                         *)
(***************************************************************************)
LEMMA StepImplements ==
  ASSUME IInv, Next
  PROVE  DS!Next \/ UNCHANGED <<desired, sent, receipt>>
<1> USE DEF store, local
<1>1. ASSUME NEW w \in Workers, Start(w) PROVE UNCHANGED <<desired, sent, receipt>>
  BY <1>1, Zenon DEF Start, PutStart, DeleteStart, GetStart, ReconcileStart, Begin
<1>2. ASSUME NEW w \in Workers, PutStore(w) PROVE DS!Next
  <2>1. client[w] \in Clients /\ value[w] \in Registrations
    BY <1>2, Zenon DEF PutStore, IInv, LockInv, InOrder, Steps
  <2>2. DS!Store(client[w], value[w])
    BY <1>2, Zenon DEF PutStore, DS!Store
  <2> QED BY <2>1, <2>2, Zenon DEF DS!Next
<1>3. ASSUME NEW w \in Workers, pc[w] \in {"create", "update"},
             sent' = [sent EXCEPT ![client[w]] = value[w]],
             UNCHANGED <<desired, receipt>>
      PROVE  DS!Next
  <2>1. client[w] \in Clients /\ value[w] # None /\ desired[client[w]] = value[w]
    BY <1>3, Working, ConstantsAssumption, Zenon DEF Converging
  <2>2. DS!Send(client[w])
    BY <1>3, <2>1, Zenon DEF DS!Send
  <2> QED BY <2>1, <2>2, Zenon DEF DS!Next
<1>4. ASSUME NEW w \in Workers, Record(w) PROVE DS!Next
  <2>1. /\ client[w] \in Clients /\ value[w] # None
        /\ desired[client[w]] = value[w] /\ sent[client[w]] = value[w]
    BY <1>4, Working, ConstantsAssumption, Zenon
    DEF Record, Converging, IInv, LockInv, InOrder
  <2>2. DS!Record(client[w])
    BY <1>4, <2>1, Zenon DEF Record, DS!Record
  <2> QED BY <2>1, <2>2, Zenon DEF DS!Next
<1>5. ASSUME NEW w \in Workers, pc[w] \in {"find", "remove"},
             sent' = [sent EXCEPT ![client[w]] = None], UNCHANGED <<desired, receipt>>
      PROVE  DS!Next
  <2>1. client[w] \in Clients /\ desired[client[w]] # None
    BY <1>5, Working, Zenon DEF IInv, LockInv, InOrder
  <2>2. DS!Retire(client[w])
    BY <1>5, <2>1, Zenon DEF DS!Retire
  <2> QED BY <2>1, <2>2, Zenon DEF DS!Next
<1>6. ASSUME NEW w \in Workers, Withdraw(w) PROVE DS!Next
  <2>1. client[w] \in Clients /\ sent[client[w]] = None
    BY <1>6, Working, Zenon DEF Withdraw, IInv, LockInv, InOrder
  <2>2. DS!Withdraw(client[w])
    BY <1>6, <2>1, Zenon DEF Withdraw, DS!Withdraw
  <2> QED BY <2>1, <2>2, Zenon DEF DS!Next
<1>7. ASSUME NEW w \in Workers, Discard(w) PROVE DS!Next
  <2>1. client[w] \in Clients /\ desired[client[w]] = None
    BY <1>7, Working, Zenon DEF Discard, IInv, LockInv, InOrder
  <2>2. DS!Discard(client[w])
    BY <1>7, <2>1, Zenon DEF Discard, DS!Discard
  <2> QED BY <2>1, <2>2, Zenon DEF DS!Next
<1>8. ASSUME NEW w \in Workers,
             \/ ReconcileNext(w) \/ ReconcileDone(w) \/ ReadReceipt(w) \/ Observe(w)
             \/ Verify(w) \/ DeleteRead(w) \/ StatusFor(w) \/ ReadFails(w) \/ Abort(w)
      PROVE  UNCHANGED <<desired, sent, receipt>>
  BY <1>8, Zenon DEF ReconcileNext, ReconcileDone, ReadReceipt, Observe, Verify, DeleteRead,
              StatusFor, ReadFails, Abort
<1>9. ASSUME NEW w \in Workers,
             \/ Create(w) \/ Update(w) \/ DeleteFind(w) \/ Remove(w) \/ WriteFails(w)
      PROVE  DS!Next \/ UNCHANGED <<desired, sent, receipt>>
  BY <1>3, <1>5, <1>9, Zenon
  DEF Create, Created, Update, Updated, DeleteFind, Remove, Removed, WriteFails
<1>10. CASE Crash \/ \E c \in Clients : OutOfBand(c)
  BY <1>10, Zenon DEF Crash, OutOfBand
<1> QED BY <1>1, <1>2, <1>4, <1>6, <1>7, <1>8, <1>9, <1>10, Zenon DEF Next, Step, Fault

(***************************************************************************)
(* put_registration, delete_registration, get_registration and             *)
(* reconcile_all together implement the desired-state promise of ADR 0004. *)
(***************************************************************************)
THEOREM Refinement == Spec => ImplementsDesiredState
<1>1. Init => DS!Init
  BY Zenon DEF Init, DS!Init
<1>2. ASSUME IInv, [Next]_vars PROVE [DS!Next]_(DS!vars)
  BY <1>2, StepImplements, Zenon DEF vars, store, DS!vars
<1> QED BY <1>1, <1>2, Invariance, PTL DEF Spec, ImplementsDesiredState, DS!Spec
-----------------------------------------------------------------------------
(***************************************************************************)
(* What _converge saw of Keycloak still holds, in so far as only this      *)
(* service can change it: no client of its own before a create, none but   *)
(* the one it is about before an update.                                   *)
(***************************************************************************)
Ready(w) ==
  /\ pc[w] = "create" => \A x \in live[client[w]] : ~x.own
  /\ pc[w] = "update" => \A x \in live[client[w]] : x.own => x.uuid = expected[w]

(***************************************************************************)
(* A uuid names one client, and at most one client is the service's own.   *)
(***************************************************************************)
Single(S) == \A x, y \in S : x.uuid = y.uuid \/ (x.own /\ y.own) => x = y

ClientInv ==
  /\ live \in [Clients -> SUBSET LiveClient]
  /\ expected \in [Workers -> Uuids \cup {None}]
  /\ \A c \in Clients : Single(live[c])
  /\ \A w \in Workers : Ready(w)

(***************************************************************************)
(* A step of one request that changes no client but under its own lock     *)
(* leaves true what the others saw.                                        *)
(***************************************************************************)
LEMMA OthersReady ==
  ASSUME IInv, ClientInv, NEW w \in Workers, Ready(w)',
         \A v \in Workers \ {w} :
           pc'[v] = pc[v] /\ client'[v] = client[v] /\ expected'[v] = expected[v],
         \A c \in Clients : lock[c] # w => live'[c] = live[c]
  PROVE  \A v \in Workers : Ready(v)'
<1> SUFFICES ASSUME NEW v \in Workers, v # w PROVE Ready(v)'
  OBVIOUS
<1>1. Ready(v) /\ pc'[v] = pc[v] /\ client'[v] = client[v] /\ expected'[v] = expected[v]
  BY Zenon DEF ClientInv
<1>2. ASSUME pc[v] \in {"create", "update"} PROVE live'[client[v]] = live[client[v]]
  BY <1>2, Working, Zenon
<1> QED BY <1>1, <1>2, Zenon DEF Ready

(***************************************************************************)
(* A step that leaves Keycloak alone and is not about to write there.      *)
(***************************************************************************)
LEMMA KeepsClients ==
  ASSUME IInv, ClientInv, NEW w \in Workers, UNCHANGED live,
         pc'[w] \notin {"create", "update"},
         expected' \in [Workers -> Uuids \cup {None}],
         \A v \in Workers \ {w} :
           pc'[v] = pc[v] /\ client'[v] = client[v] /\ expected'[v] = expected[v]
  PROVE  ClientInv'
<1>1. Ready(w)'
  BY Zenon DEF Ready
<1>2. \A v \in Workers : Ready(v)'
  BY <1>1, OthersReady, Zenon
<1> QED BY <1>2, Zenon DEF ClientInv

(***************************************************************************)
(* A create adds the only client of the service under a fresh uuid.        *)
(***************************************************************************)
LEMMA CreatedSingle ==
  ASSUME IInv, ClientInv, NEW w \in Workers, pc[w] = "create",
         NEW u \in Uuids, Created(w, u)
  PROVE  /\ live' \in [Clients -> SUBSET LiveClient]
         /\ \A c \in Clients : Single(live'[c])
         /\ \A c \in Clients : lock[c] # w => live'[c] = live[c]
<1>1. client[w] \in Clients /\ lock[client[w]] = w /\ value[w] \in Registrations
  BY Working, Zenon DEF Converging
<1> DEFINE new == [uuid |-> u, val |-> value[w], own |-> TRUE]
<1>2. new \in LiveClient /\ new.uuid = u
  BY <1>1, Zenon DEF LiveClient
<1>3. live' = [live EXCEPT ![client[w]] = @ \cup {new}]
  BY Zenon DEF Created
<1>4. \A x \in live[client[w]] : ~x.own /\ x.uuid # u
  BY <1>1, Zenon DEF Created, ClientInv, Ready
<1> HIDE DEF new
<1>5. Single(live[client[w]] \cup {new})
  <2>1. Single(live[client[w]])
    BY <1>1, Zenon DEF ClientInv
  <2> QED BY <1>2, <1>4, <2>1, Zenon DEF Single
<1> QED BY <1>1, <1>2, <1>3, <1>5, Zenon DEF ClientInv

(***************************************************************************)
(* An update takes over the client with the expected uuid, beside which    *)
(* the service owns none.                                                  *)
(***************************************************************************)
LEMMA UpdatedSingle ==
  ASSUME IInv, ClientInv, NEW w \in Workers, pc[w] = "update", Updated(w)
  PROVE  /\ live' \in [Clients -> SUBSET LiveClient]
         /\ \A c \in Clients : Single(live'[c])
         /\ \A c \in Clients : lock[c] # w => live'[c] = live[c]
<1>1. client[w] \in Clients /\ lock[client[w]] = w /\ value[w] \in Registrations
  BY Working, Zenon DEF Converging
<1> DEFINE old == live[client[w]]
           changed(x) == IF x.uuid = expected[w]
                         THEN [uuid |-> x.uuid, val |-> value[w], own |-> TRUE]
                         ELSE x
           new == {changed(x) : x \in old}
<1>2. live' = [live EXCEPT ![client[w]] = new]
  BY Zenon DEF Updated
<1>3. old \subseteq LiveClient /\ Single(old)
  BY <1>1, Zenon DEF ClientInv
<1>4. \A x \in old : x.own => x.uuid = expected[w]
  BY Zenon DEF ClientInv, Ready
<1>5. \A x \in old :
        /\ changed(x) \in LiveClient
        /\ changed(x).uuid = x.uuid
        /\ changed(x).own => x.uuid = expected[w]
  BY <1>1, <1>3, <1>4, Zenon DEF LiveClient
<1> HIDE DEF old, changed
<1>6. Single(new)
  <2> SUFFICES ASSUME NEW x \in old, NEW y \in old,
                      \/ changed(x).uuid = changed(y).uuid
                      \/ changed(x).own /\ changed(y).own
               PROVE  changed(x) = changed(y)
    BY Zenon DEF Single
  <2>1. x.uuid = y.uuid
    BY <1>5, Zenon
  <2> QED BY <1>3, <2>1, Zenon DEF Single
<1>7. new \subseteq LiveClient
  BY <1>5, Zenon
<1> HIDE DEF new
<1> QED BY <1>1, <1>2, <1>6, <1>7, Zenon DEF ClientInv

(***************************************************************************)
(* A removal leaves the other clients as they are.                         *)
(***************************************************************************)
LEMMA RemovedSingle ==
  ASSUME IInv, ClientInv, NEW w \in Workers, pc[w] = "remove", Removed(w)
  PROVE  /\ live' \in [Clients -> SUBSET LiveClient]
         /\ \A c \in Clients : Single(live'[c])
         /\ \A c \in Clients : lock[c] # w => live'[c] = live[c]
<1>1. client[w] \in Clients /\ lock[client[w]] = w
  BY Working, Zenon
<1>2. live' = [live EXCEPT ![client[w]] = {x \in @ : x.uuid # expected[w]}]
  BY Zenon DEF Removed
<1>3. \A c \in Clients : live'[c] \subseteq live[c]
  BY <1>1, <1>2, Zenon DEF ClientInv
<1> QED BY <1>1, <1>2, <1>3, Zenon DEF ClientInv, Single

(***************************************************************************)
(* Clients edited, removed or added in Keycloak directly are not the       *)
(* service's own, unless they were before.                                 *)
(***************************************************************************)
LEMMA OutOfBandClients ==
  ASSUME IInv, ClientInv, NEW c \in Clients, OutOfBand(c)
  PROVE  ClientInv'
<1>1. UNCHANGED <<pc, client, expected>>
  BY Zenon DEF OutOfBand, local
<1>2. live[c] \subseteq LiveClient /\ Single(live[c])
  BY Zenon DEF ClientInv
<1> DEFINE Edited(S) == /\ live' = [live EXCEPT ![c] = S]
                        /\ S \subseteq LiveClient
                        /\ Single(S)
                        /\ \A y \in S : y.own => \E x \in live[c] : x.own /\ x.uuid = y.uuid
<1>3. PICK S : Edited(S)
  <2>1. ASSUME NEW x \in live[c], live' = [live EXCEPT ![c] = @ \ {x}]
        PROVE  \E S : Edited(S)
    <3>1. Single(live[c] \ {x})
      BY <1>2, Zenon DEF Single
    <3>2. live' = [live EXCEPT ![c] = live[c] \ {x}]
      BY <2>1, Zenon
    <3>3. Edited(live[c] \ {x})
      BY <1>2, <3>1, <3>2, Zenon
    <3> QED BY <3>3, Zenon
  <2>2. ASSUME NEW x \in live[c], NEW v \in Registrations \cup {Foreign},
               live' = [live EXCEPT ![c] =
                          (@ \ {x}) \cup {[uuid |-> x.uuid, val |-> v, own |-> x.own]}]
        PROVE  \E S : Edited(S)
    <3> DEFINE new == [uuid |-> x.uuid, val |-> v, own |-> x.own]
    <3>1. new \in LiveClient /\ new.uuid = x.uuid /\ new.own = x.own
      BY <1>2, Zenon DEF LiveClient
    <3>2. live' = [live EXCEPT ![c] = (live[c] \ {x}) \cup {new}]
      BY <2>2, Zenon
    <3> HIDE DEF new
    <3>3. Single((live[c] \ {x}) \cup {new})
      BY <1>2, <3>1, Zenon DEF Single
    <3>4. Edited((live[c] \ {x}) \cup {new})
      BY <1>2, <3>1, <3>2, <3>3, Zenon
    <3> QED BY <3>4, Zenon
  <2>3. ASSUME NEW u \in Uuids, NEW v \in Registrations \cup {Foreign},
               \A x \in live[c] : x.uuid # u,
               live' = [live EXCEPT ![c] =
                          @ \cup {[uuid |-> u, val |-> v, own |-> FALSE]}]
        PROVE  \E S : Edited(S)
    <3> DEFINE new == [uuid |-> u, val |-> v, own |-> FALSE]
    <3>1. new \in LiveClient /\ new.uuid = u /\ ~new.own
      BY Zenon DEF LiveClient
    <3>2. live' = [live EXCEPT ![c] = live[c] \cup {new}]
      BY <2>3, Zenon
    <3> HIDE DEF new
    <3>3. Single(live[c] \cup {new})
      BY <1>2, <2>3, <3>1, Zenon DEF Single
    <3>4. Edited(live[c] \cup {new})
      BY <1>2, <3>1, <3>2, <3>3, Zenon
    <3> QED BY <3>4, Zenon
  <2> HIDE DEF Edited
  <2> QED BY <2>1, <2>2, <2>3, Zenon DEF OutOfBand
<1>4. \A d \in Clients : live'[d] = IF d = c THEN S ELSE live[d]
  BY <1>3, Zenon DEF ClientInv
<1>5. live' \in [Clients -> SUBSET LiveClient] /\ \A d \in Clients : Single(live'[d])
  BY <1>3, <1>4, Zenon DEF ClientInv
<1>6. ASSUME NEW w \in Workers PROVE Ready(w)'
  <2>1. Ready(w) /\ (pc[w] \in {"create", "update"} => client[w] \in Clients)
    BY Working, Zenon DEF ClientInv
  <2>2. ASSUME pc[w] \in {"create", "update"}, NEW y \in live'[client[w]], y.own
        PROVE  \E x \in live[client[w]] : x.own /\ x.uuid = y.uuid
    BY <1>3, <1>4, <2>1, <2>2, ZenonT(30)
  <2> QED BY <1>1, <2>1, <2>2, Zenon DEF Ready
<1> QED BY <1>1, <1>5, <1>6, Zenon DEF ClientInv

(***************************************************************************)
(* _converge looks before it writes: what it finds makes it ready.         *)
(***************************************************************************)
LEMMA ObserveClients ==
  ASSUME IInv, ClientInv, NEW w \in Workers, Observe(w)
  PROVE  ClientInv'
<1>1. /\ UNCHANGED <<live, client>>
      /\ \A v \in Workers \ {w} : pc'[v] = pc[v] /\ expected'[v] = expected[v]
      /\ expected' \in [Workers -> Uuids \cup {None}]
  <2>1. UNCHANGED <<live, client>>
    BY Zenon DEF Observe
  <2>2. PICK step : Goto(w, step)
    BY Zenon DEF Observe, Finish
  <2>3. expected' = expected \/ \E u \in Uuids : expected' = [expected EXCEPT ![w] = u]
    <3>1. client[w] \in Clients
      BY Working, Zenon DEF Observe
    <3>2. \A x \in live[client[w]] : x.uuid \in Uuids
      BY <3>1 DEF ClientInv, LiveClient
    <3> QED BY <3>2, Zenon DEF Observe
  <2> QED BY <2>1, <2>2, <2>3, ZenonT(30) DEF Goto, IInv, Types, ClientInv
<1>2. Ready(w)'
  <2>1. ASSUME NEW r, Finish(w, r) PROVE Ready(w)'
    BY <2>1, Zenon DEF Finish, Goto, Ready, IInv, Types
  <2>2. ASSUME live[client[w]] = {}, Goto(w, "create") PROVE Ready(w)'
    BY <1>1, <2>2, Zenon DEF Goto, Ready, IInv, Types
  <2>3. ASSUME NEW x, live[client[w]] = {x}, Goto(w, "update"),
               expected' = [expected EXCEPT ![w] = x.uuid]
        PROVE  Ready(w)'
    <3>1. pc'[w] = "update" /\ expected'[w] = x.uuid
      BY <2>3, Zenon DEF Goto, IInv, Types, ClientInv
    <3> QED BY <1>1, <2>3, <3>1, Zenon DEF Ready
  <2> QED BY <2>1, <2>2, <2>3, Zenon DEF Observe
<1>3. \A v \in Workers : Ready(v)'
  BY <1>1, <1>2, OthersReady, Zenon
<1> QED BY <1>1, <1>3, Zenon DEF ClientInv

(***************************************************************************)
(* A write that lands, whether or not its answer arrives.                  *)
(***************************************************************************)
LEMMA WriteClients ==
  ASSUME IInv, ClientInv, NEW w \in Workers,
         Create(w) \/ Update(w) \/ Remove(w) \/ WriteFails(w)
  PROVE  ClientInv'
<1>1. /\ live' \in [Clients -> SUBSET LiveClient]
      /\ \A c \in Clients : Single(live'[c])
      /\ \A c \in Clients : lock[c] # w => live'[c] = live[c]
  <2>1. ASSUME UNCHANGED live PROVE <1>1!:
    BY <2>1, Zenon DEF ClientInv
  <2>2. \/ UNCHANGED live
        \/ pc[w] = "create" /\ \E u \in Uuids : Created(w, u)
        \/ pc[w] = "update" /\ Updated(w)
        \/ pc[w] = "remove" /\ Removed(w)
    BY Zenon DEF Create, Update, Remove, WriteFails
  <2> QED BY <2>1, <2>2, CreatedSingle, UpdatedSingle, RemovedSingle, Zenon
<1>2. UNCHANGED client
  BY Zenon DEF Create, Update, Remove, WriteFails, local
<1>3. PICK step \in {"verify", "withdraw", "next", "idle"} : Goto(w, step)
  BY Zenon DEF Create, Update, Remove, WriteFails, Finish
<1>4. expected' = expected \/ \E e \in Uuids \cup {None} : expected' = [expected EXCEPT ![w] = e]
  BY Zenon DEF Create, Update, Remove, WriteFails, local
<1>5. /\ \A v \in Workers \ {w} : pc'[v] = pc[v] /\ expected'[v] = expected[v]
      /\ expected' \in [Workers -> Uuids \cup {None}]
      /\ pc'[w] = step
  BY <1>3, <1>4, Zenon DEF Goto, IInv, Types, ClientInv
<1>6. Ready(w)'
  BY <1>5, Zenon DEF Ready
<1>7. \A v \in Workers : Ready(v)'
  BY <1>1, <1>2, <1>5, <1>6, OthersReady, Zenon
<1> QED BY <1>1, <1>5, <1>7, Zenon DEF ClientInv

(***************************************************************************)
(* The steps that write nothing to Keycloak and do not lead to a write.    *)
(***************************************************************************)
LEMMA QuietClients ==
  ASSUME IInv, ClientInv, NEW w \in Workers,
         \/ Start(w) \/ PutStore(w) \/ ReconcileNext(w) \/ ReconcileDone(w)
         \/ ReadReceipt(w) \/ Verify(w) \/ Record(w) \/ DeleteRead(w) \/ Withdraw(w)
         \/ Discard(w) \/ StatusFor(w) \/ ReadFails(w) \/ Abort(w)
  PROVE  ClientInv'
<1> USE DEF local
<1>1. UNCHANGED <<live, expected>>
  BY Zenon DEF Start, PutStart, DeleteStart, GetStart, ReconcileStart, Begin, PutStore,
         ReconcileNext, ReconcileDone, ReadReceipt, Verify, Record, DeleteRead,
         Withdraw, Discard, StatusFor, ReadFails, Abort
<1>2. UNCHANGED pc \/ \E step \in Steps \ {"create", "update"} : Goto(w, step)
  <2>1. ASSUME NEW r, Finish(w, r) PROVE <1>2!:
    BY <2>1, Zenon DEF Finish, Steps
  <2>2. ASSUME NEW o, NEW c, NEW v,
               NEW step \in {"store", "read", "receipt", "next"}, Begin(w, o, c, v, step)
        PROVE  <1>2!:
    BY <2>2, Zenon DEF Begin, Steps
  <2>3. CASE Start(w)
    BY <2>2, <2>3, Zenon DEF Start, PutStart, DeleteStart, GetStart, ReconcileStart
  <2>4. CASE PutStore(w) \/ ReconcileNext(w) \/ ReconcileDone(w) \/ ReadReceipt(w)
    BY <2>4, Zenon DEF PutStore, ReconcileNext, ReconcileDone, ReadReceipt, Steps
  <2>5. CASE Verify(w) \/ Record(w) \/ Discard(w) \/ StatusFor(w) \/ ReadFails(w)
    BY <2>1, <2>5, Zenon DEF Verify, Record, Discard, StatusFor, ReadFails, Steps
  <2>6. CASE DeleteRead(w) \/ Withdraw(w) \/ Abort(w)
    BY <2>6, Zenon DEF DeleteRead, Withdraw, Abort, Steps
  <2> QED BY <2>3, <2>4, <2>5, <2>6, Zenon
<1>3. \A v \in Workers \ {w} : client'[v] = client[v]
  <2>1. UNCHANGED client \/ \E c : client' = [client EXCEPT ![w] = c]
    BY Zenon DEF Start, PutStart, DeleteStart, GetStart, ReconcileStart, Begin, PutStore,
           ReconcileNext, ReconcileDone, ReadReceipt, Verify, Record, DeleteRead,
           Withdraw, Discard, StatusFor, ReadFails, Abort
  <2> QED BY <2>1, Zenon DEF IInv, Types
<1>4. CASE UNCHANGED pc
  <2>1. \A v \in Workers : pc[v] \in {"create", "update"} => client'[v] = client[v]
    <3> SUFFICES ASSUME pc[w] \in {"create", "update"} PROVE client'[w] = client[w]
      BY <1>3, Zenon
    <3> QED BY Zenon DEF Start, PutStart, DeleteStart, GetStart, ReconcileStart, Begin, PutStore,
           ReconcileNext, ReconcileDone, ReadReceipt, Verify, Record, DeleteRead,
           Withdraw, Discard, StatusFor, ReadFails, Abort
  <2>2. \A v \in Workers : Ready(v)'
    BY <1>1, <1>4, <2>1, Zenon DEF ClientInv, Ready
  <2> QED BY <1>1, <2>2, Zenon DEF ClientInv
<1>5. ASSUME NEW step \in Steps \ {"create", "update"}, Goto(w, step) PROVE ClientInv'
  <2>1. pc'[w] = step /\ \A v \in Workers \ {w} : pc'[v] = pc[v]
    BY <1>5, Zenon DEF Goto, IInv, Types
  <2> QED BY <1>1, <1>3, <2>1, KeepsClients, Zenon DEF ClientInv
<1> QED BY <1>2, <1>4, <1>5, Zenon

(***************************************************************************)
(* delete_registration looks for what it has to remove.                    *)
(***************************************************************************)
LEMMA FindClients ==
  ASSUME IInv, ClientInv, NEW w \in Workers, DeleteFind(w)
  PROVE  ClientInv'
<1>1. UNCHANGED <<live, client>>
  BY Zenon DEF DeleteFind
<1>2. PICK step \in {"next", "idle", "withdraw", "remove"} : Goto(w, step)
  BY Zenon DEF DeleteFind, Finish
<1>3. \A x \in live[client[w]] : x.uuid \in Uuids
  BY Working DEF DeleteFind, ClientInv, LiveClient
<1>4. expected' = expected \/ \E u \in Uuids : expected' = [expected EXCEPT ![w] = u]
  BY <1>3, Zenon DEF DeleteFind
<1> QED BY <1>1, <1>2, <1>4, KeepsClients DEF Goto, IInv, Types, ClientInv

(***************************************************************************)
(* The clients' invariant holds initially and through every step.          *)
(***************************************************************************)
THEOREM ClientInvariance == Spec => []ClientInv
<1>1. Init => ClientInv
  BY DEF Init, ClientInv, Single, Ready
<1>2. ASSUME IInv, ClientInv, [Next]_vars PROVE ClientInv'
  <2>1. CASE UNCHANGED vars
    BY <1>2, <2>1, Zenon DEF vars, local, ClientInv, Ready
  <2>2. ASSUME NEW w \in Workers, Start(w) \/ Step(w) \/ Fault(w) PROVE ClientInv'
    BY <1>2, <2>2, QuietClients, ObserveClients, WriteClients, FindClients, Zenon DEF Step, Fault
  <2>3. CASE Crash
    BY <1>2, <2>3, Zenon DEF Crash, local, ClientInv, Ready
  <2> QED BY <1>2, <2>1, <2>2, <2>3, OutOfBandClients, Zenon DEF Next
<1> QED BY <1>1, <1>2, Invariance, PTL DEF Spec

-----------------------------------------------------------------------------
(***************************************************************************)
(* What _converge read of the receipt is still so when it looks at         *)
(* Keycloak: receipts change under the lock of their client only.          *)
(***************************************************************************)
ReceiptRead(w) ==
  pc[w] = "observe" /\ receiptOk[w] => receipt[client[w]] = value[w]

ReceiptInv ==
  /\ receiptOk \in [Workers -> BOOLEAN]
  /\ status = [w \in Workers |-> status[w]]
  /\ \A w \in Workers : ReceiptRead(w)

(***************************************************************************)
(* Another request's step keeps to the receipts of the clients it locked.  *)
(***************************************************************************)
LEMMA OthersRead ==
  ASSUME IInv, ReceiptInv, NEW w \in Workers, ReceiptRead(w)',
         \A v \in Workers \ {w} :
           /\ pc'[v] = pc[v] /\ client'[v] = client[v]
           /\ value'[v] = value[v] /\ receiptOk'[v] = receiptOk[v],
         \A c \in Clients : lock[c] # w => receipt'[c] = receipt[c]
  PROVE  \A v \in Workers : ReceiptRead(v)'
<1> SUFFICES ASSUME NEW v \in Workers, v # w PROVE ReceiptRead(v)'
  OBVIOUS
<1>1. /\ pc'[v] = pc[v] /\ client'[v] = client[v]
      /\ value'[v] = value[v] /\ receiptOk'[v] = receiptOk[v]
      /\ ReceiptRead(v)
  BY Zenon DEF ReceiptInv
<1>2. ASSUME pc[v] = "observe" PROVE receipt'[client[v]] = receipt[client[v]]
  BY <1>2, Working, Zenon
<1> QED BY <1>1, <1>2, Zenon DEF ReceiptRead

(***************************************************************************)
(* A request's step changes no variable of another request.                *)
(***************************************************************************)
LEMMA StepIsLocal ==
  ASSUME IInv, ReceiptInv, NEW w \in Workers, Start(w) \/ Step(w) \/ Fault(w)
  PROVE  /\ receiptOk' \in [Workers -> BOOLEAN]
         /\ status' = [v \in Workers |-> status'[v]]
         /\ \A v \in Workers \ {w} :
              /\ pc'[v] = pc[v] /\ client'[v] = client[v] /\ value'[v] = value[v]
              /\ receiptOk'[v] = receiptOk[v] /\ status'[v] = status[v]
<1> USE DEF local
<1>1. pc' = pc \/ \E e : pc' = [pc EXCEPT ![w] = e]
  BY Zenon DEF Start, PutStart, DeleteStart, GetStart, ReconcileStart, Begin, Step, PutStore,
         ReconcileNext, ReconcileDone, ReadReceipt, Observe, Create, Update, Verify,
         Record, DeleteRead, DeleteFind, Remove, Withdraw, Discard, StatusFor, Fault,
         ReadFails, WriteFails, Abort, Finish, Goto
<1>2. client' = client \/ \E e : client' = [client EXCEPT ![w] = e]
  BY Zenon DEF Start, PutStart, DeleteStart, GetStart, ReconcileStart, Begin, Step, PutStore,
         ReconcileNext, ReconcileDone, ReadReceipt, Observe, Create, Update, Verify,
         Record, DeleteRead, DeleteFind, Remove, Withdraw, Discard, StatusFor, Fault,
         ReadFails, WriteFails, Abort
<1>3. value' = value \/ \E e : value' = [value EXCEPT ![w] = e]
  BY Zenon DEF Start, PutStart, DeleteStart, GetStart, ReconcileStart, Begin, Step, PutStore,
         ReconcileNext, ReconcileDone, ReadReceipt, Observe, Create, Update, Verify,
         Record, DeleteRead, DeleteFind, Remove, Withdraw, Discard, StatusFor, Fault,
         ReadFails, WriteFails, Abort
<1>4. receiptOk' = receiptOk \/ \E e \in BOOLEAN : receiptOk' = [receiptOk EXCEPT ![w] = e]
  <2>1. CASE ReadReceipt(w)
    BY <2>1, Zenon DEF ReadReceipt
  <2>2. CASE ~ReadReceipt(w)
    BY <2>2, Zenon
    DEF Start, PutStart, DeleteStart, GetStart, ReconcileStart, Begin, Step, PutStore,
        ReconcileNext, ReconcileDone, Observe, Create, Update, Verify,
        Record, DeleteRead, DeleteFind, Remove, Withdraw, Discard, StatusFor, Fault,
        ReadFails, WriteFails, Abort
  <2> QED BY <2>1, <2>2, Zenon
<1>5. status' = status \/ \E e : status' = [status EXCEPT ![w] = e]
  BY Zenon DEF Start, PutStart, DeleteStart, GetStart, ReconcileStart, Begin, Step, PutStore,
         ReconcileNext, ReconcileDone, ReadReceipt, Observe, Create, Update, Verify,
         Record, DeleteRead, DeleteFind, Remove, Withdraw, Discard, StatusFor, Fault,
         ReadFails, WriteFails, Abort, Finish
<1>6. \A v \in Workers \ {w} : status'[v] = status[v]
  BY <1>5, Zenon DEF ReceiptInv
<1>7. status' = [v \in Workers |-> status'[v]]
  BY <1>5, Zenon DEF ReceiptInv
<1> QED BY <1>1, <1>2, <1>3, <1>4, <1>6, <1>7, Zenon DEF IInv, Types, ReceiptInv

(***************************************************************************)
(* No step but _receipt_matches leads to the observation, and a receipt    *)
(* changes under its lock only.                                            *)
(***************************************************************************)
LEMMA StepReads ==
  ASSUME IInv, ReceiptInv, NEW w \in Workers, Start(w) \/ Step(w) \/ Fault(w)
  PROVE  ReceiptInv'
<1>1. ReceiptRead(w)'
  <2>1. CASE ReadReceipt(w)
    <3>1. /\ receiptOk' = [receiptOk EXCEPT ![w] = receipt[client[w]] = value[w]]
          /\ UNCHANGED <<receipt, client, value>>
      BY <2>1, Zenon DEF ReadReceipt, store
    <3>2. receiptOk'[w] <=> receipt[client[w]] = value[w]
      BY <3>1, Zenon DEF ReceiptInv
    <3> QED BY <3>1, <3>2, Zenon DEF ReceiptRead
  <2>2. CASE ~ReadReceipt(w)
    <3>1. pc'[w] # "observe"
      <4>1. ASSUME NEW r, Finish(w, r) PROVE pc'[w] # "observe"
        BY <4>1, Zenon DEF Finish, Goto, IInv, Types
      <4>2. ASSUME NEW step, Goto(w, step), step # "observe" PROVE pc'[w] # "observe"
        BY <4>2, Zenon DEF Goto, IInv, Types
      <4>3. CASE Start(w)
        BY <4>2, <4>3, Zenon DEF Start, PutStart, DeleteStart, GetStart, ReconcileStart, Begin
      <4>4. CASE PutStore(w) \/ ReconcileNext(w) \/ ReconcileDone(w)
        BY <4>2, <4>4, Zenon DEF PutStore, ReconcileNext, ReconcileDone
      <4>5. CASE Observe(w) \/ Create(w) \/ Update(w) \/ Verify(w) \/ Record(w)
        BY <4>1, <4>2, <4>5, Zenon DEF Observe, Create, Update, Verify, Record
      <4>6. CASE DeleteRead(w) \/ DeleteFind(w) \/ Remove(w) \/ Withdraw(w) \/ Discard(w)
        BY <4>1, <4>2, <4>6, Zenon DEF DeleteRead, DeleteFind, Remove, Withdraw, Discard
      <4>7. CASE StatusFor(w) \/ Fault(w)
        BY <4>1, <4>2, <4>7, Zenon DEF StatusFor, Fault, ReadFails, WriteFails, Abort
      <4> QED BY <2>2, <4>3, <4>4, <4>5, <4>6, <4>7, Zenon DEF Step
    <3> QED BY <3>1, Zenon DEF ReceiptRead
  <2> QED BY <2>1, <2>2, Zenon
<1>2. \A c \in Clients : lock[c] # w => receipt'[c] = receipt[c]
  <2>1. CASE Record(w) \/ Discard(w)
    <3>1. lock[client[w]] = w /\ client[w] \in Clients
      BY <2>1, Working, Zenon DEF Record, Discard
    <3>2. \E e : receipt' = [receipt EXCEPT ![client[w]] = e]
      BY <2>1, Zenon DEF Record, Discard
    <3> QED BY <3>1, <3>2, Zenon DEF IInv, Types
  <2>2. CASE ~(Record(w) \/ Discard(w))
    <3>1. UNCHANGED receipt
      BY <2>2, Zenon
      DEF Start, PutStart, DeleteStart, GetStart, ReconcileStart, Begin, Step, PutStore,
          ReconcileNext, ReconcileDone, ReadReceipt, Observe, Create, Update, Verify,
          DeleteRead, DeleteFind, Remove, Withdraw, StatusFor, Fault, ReadFails,
          WriteFails, Abort, store
    <3> QED BY <3>1, Zenon
  <2> QED BY <2>1, <2>2, Zenon
<1>3. \A v \in Workers : ReceiptRead(v)'
  BY <1>1, <1>2, StepIsLocal, OthersRead, Zenon
<1> QED BY <1>3, StepIsLocal, Zenon DEF ReceiptInv

(***************************************************************************)
(* The invariant of the receipts holds initially and through every step.   *)
(***************************************************************************)
THEOREM ReceiptInvariance == Spec => []ReceiptInv
<1>1. Init => ReceiptInv
  BY DEF Init, ReceiptInv, ReceiptRead
<1>2. ASSUME IInv, ReceiptInv, [Next]_vars PROVE ReceiptInv'
  <2>1. CASE UNCHANGED vars \/ \E c \in Clients : OutOfBand(c)
    <3>1. UNCHANGED <<receipt, pc, client, value, receiptOk, status>>
      BY <2>1, Zenon DEF vars, store, local, OutOfBand
    <3> QED BY <1>2, <3>1, Zenon DEF ReceiptInv, ReceiptRead
  <2>2. CASE Crash
    BY <1>2, <2>2, Zenon DEF Crash, local, ReceiptInv, ReceiptRead
  <2> QED BY <1>2, <2>1, <2>2, StepReads, Zenon DEF Next
<1> QED BY <1>1, <1>2, Invariance, PTL DEF Spec

(***************************************************************************)
(* Of the steps of put_registration, reconcile_all and delete_registration *)
(* only two answer in_sync: the observation of a converged client, and the *)
(* receipt that follows a verified write.                                  *)
(***************************************************************************)
LEMMA AnswersInSync ==
  ASSUME IInv, ReceiptInv, NEW w \in Workers, Start(w) \/ Step(w) \/ Fault(w),
         op[w] # "get", status[w] = "none", status'[w] = "in_sync"
  PROVE  \/ Record(w)
         \/ Observe(w) /\ receiptOk[w]
<1> USE DEF local
<1>1. ASSUME NEW r, status' = [status EXCEPT ![w] = r] PROVE status'[w] = r
  BY <1>1, Zenon DEF ReceiptInv
<1>2. ASSUME Start(w) PROVE FALSE
  BY <1>1, <1>2, Zenon DEF Start, PutStart, DeleteStart, GetStart, ReconcileStart, Begin
<1>3. ASSUME \/ PutStore(w) \/ ReconcileNext(w) \/ ReconcileDone(w) \/ ReadReceipt(w)
             \/ Create(w) \/ Withdraw(w)
      PROVE  FALSE
  BY <1>3, Zenon DEF PutStore, ReconcileNext, ReconcileDone, ReadReceipt, Create, Withdraw
<1>4. ASSUME NEW r, Finish(w, r) PROVE r = "in_sync"
  BY <1>1, <1>4, Zenon DEF Finish
<1>5. CASE Observe(w)
  BY <1>4, <1>5, Zenon DEF Observe, Converged
<1>6. ASSUME Update(w) PROVE FALSE
  BY <1>4, <1>6, Zenon DEF Update
<1>7. ASSUME Verify(w) PROVE FALSE
  BY <1>4, <1>7, Zenon DEF Verify
<1>8. ASSUME DeleteRead(w) PROVE FALSE
  BY <1>1, <1>8, Zenon DEF DeleteRead
<1>9. ASSUME DeleteFind(w) \/ Remove(w) \/ Discard(w) PROVE FALSE
  BY <1>4, <1>9, Zenon DEF DeleteFind, Remove, Discard
<1>10. ASSUME StatusFor(w) PROVE FALSE
  BY <1>10, Zenon DEF StatusFor, IInv, LockInv, InOrder
<1>11. ASSUME ReadFails(w) PROVE FALSE
  BY <1>4, <1>11, Zenon DEF ReadFails
<1>12. ASSUME WriteFails(w) PROVE FALSE
  BY <1>4, <1>12, Zenon DEF WriteFails
<1>13. ASSUME Abort(w) PROVE FALSE
  BY <1>1, <1>13, Zenon DEF Abort
<1> QED BY <1>2, <1>3, <1>5, <1>6, <1>7, <1>8, <1>9, <1>10, <1>11, <1>12, <1>13, Zenon
        DEF Step, Fault

(***************************************************************************)
(* A put_registration or reconcile_all that answers in_sync leaves the     *)
(* registration it handled as stored intent and as receipt, whatever other *)
(* requests, failures and crashes do meanwhile.                            *)
(***************************************************************************)
THEOREM InSyncAnswersAreCurrent == Spec => InSyncIsCurrent
<1> DEFINE Current(w) ==
      (op[w] # "get" /\ status[w] = "none" /\ status'[w] = "in_sync") =>
        /\ desired'[client[w]] = value[w]
        /\ receipt'[client[w]] = value[w]
<1>1. ASSUME IInv, ReceiptInv, Next, NEW w \in Workers PROVE Current(w)
  <2> SUFFICES ASSUME op[w] # "get", status[w] = "none", status'[w] = "in_sync"
               PROVE  desired'[client[w]] = value[w] /\ receipt'[client[w]] = value[w]
    OBVIOUS
  <2>1. ASSUME Crash \/ \E c \in Clients : OutOfBand(c) PROVE FALSE
    BY <2>1, Zenon DEF Crash, OutOfBand
  <2>2. PICK v \in Workers : Start(v) \/ Step(v) \/ Fault(v)
    BY <1>1, <2>1, Zenon DEF Next
  <2>3. v = w
    BY <1>1, <2>2, StepIsLocal, Zenon
  <2>4. Record(w) \/ (Observe(w) /\ receiptOk[w])
    BY <1>1, <2>2, <2>3, AnswersInSync, Zenon
  <2>5. /\ client[w] \in Clients /\ desired[client[w]] = value[w]
        /\ UNCHANGED desired
    BY <1>1, <2>4, Working, Zenon DEF Record, Observe, store, Converging
  <2>6. receipt'[client[w]] = value[w]
    <3>1. CASE Record(w)
      BY <1>1, <2>5, <3>1, Zenon DEF Record, IInv, Types
    <3>2. CASE Observe(w) /\ receiptOk[w]
      BY <1>1, <3>2, Zenon DEF Observe, store, ReceiptInv, ReceiptRead
    <3> QED BY <2>4, <3>1, <3>2, Zenon
  <2> QED BY <2>5, <2>6, Zenon
<1>2. ASSUME IInv, ReceiptInv, [Next]_vars PROVE [\A w \in Workers : Current(w)]_vars
  BY <1>1, <1>2, Zenon
<1> QED BY <1>2, Invariance, ReceiptInvariance, PTL DEF Spec, InSyncIsCurrent

-----------------------------------------------------------------------------
(***************************************************************************)
(* What a put_registration or a reconcile_all is to leave behind for a     *)
(* client, and how far reconcile_all has come while nothing disturbs it:   *)
(* each stored id has still to be visited, is at work, or is done.         *)
(***************************************************************************)
Done(c) ==
  \/ Cardinality(live[c]) > 1
  \/ /\ receipt[c] = desired[c]
     /\ \E x \in live[c] : live[c] = {x} /\ x.val = desired[c]

Snapped(w) ==
  \A c \in Clients : desired[c] # None =>
    \/ c \in todo[w]
    \/ pc[w] \in Converging /\ client[w] = c
    \/ Done(c)

Deleting == {"read", "find", "remove", "withdraw", "discard"}

(***************************************************************************)
(* A request takes the steps of its kind, and what _converge saw and wrote *)
(* is still so at each of its later steps.                                 *)
(***************************************************************************)
OnCourse(w) ==
  /\ pc[w] = "store" => op[w] = "put"
  /\ pc[w] = "next" => op[w] = "reconcile"
  /\ pc[w] \in Deleting => op[w] = "delete"
  /\ pc[w] = "create" => live[client[w]] = {}
  /\ pc[w] = "update" =>
       \E x \in live[client[w]] : live[client[w]] = {x} /\ x.uuid = expected[w]
  /\ pc[w] \in {"verify", "record"} => Verified(w)
  /\ op[w] = "reconcile" => Snapped(w)

CleanInv ==
  /\ events \in Nat
  /\ \A w \in Workers : clean[w] /\ pc[w] # "idle" => OnCourse(w)

(***************************************************************************)
(* A request's step leaves the kind, the expected uuid and the list of ids *)
(* of every other request alone.                                           *)
(***************************************************************************)
LEMMA KindIsLocal ==
  ASSUME IInv, ClientInv, NEW w \in Workers, Start(w) \/ Step(w) \/ Fault(w),
         NEW v \in Workers, v # w
  PROVE  op'[v] = op[v] /\ expected'[v] = expected[v] /\ todo'[v] = todo[v]
<1> USE DEF Start, PutStart, DeleteStart, GetStart, ReconcileStart, Begin, Step, PutStore,
         ReconcileNext, ReconcileDone, ReadReceipt, Observe, Create, Update, Verify,
         Record, DeleteRead, DeleteFind, Remove, Withdraw, Discard, StatusFor, Fault,
         ReadFails, WriteFails, Abort, local
<1>1. op' = op \/ \E e : op' = [op EXCEPT ![w] = e]
  BY ZenonT(60)
<1>2. expected' = expected \/ \E e : expected' = [expected EXCEPT ![w] = e]
  BY ZenonT(60)
<1>3. todo' = todo \/ \E e : todo' = [todo EXCEPT ![w] = e]
  BY ZenonT(60)
<1> QED BY <1>1, <1>2, <1>3, ZenonT(30) DEF IInv, Types, ClientInv

(***************************************************************************)
(* A request starts on course: reconcile_all with every stored id on its   *)
(* list.                                                                   *)
(***************************************************************************)
LEMMA StartOnCourse ==
  ASSUME IInv, NEW w \in Workers, Start(w)
  PROVE  OnCourse(w)'
<1>0. Types
  BY Zenon DEF IInv
<1>1. ASSUME NEW o, NEW c, NEW v, NEW step, Begin(w, o, c, v, step)
      PROVE  op'[w] = o /\ pc'[w] = step /\ UNCHANGED desired
  BY <1>0, <1>1, Zenon DEF Begin, Goto, Types, store
<1>2. CASE ReconcileStart(w)
  <2>1. op'[w] = "reconcile" /\ pc'[w] = "next" /\ UNCHANGED desired
    BY <1>1, <1>2, Zenon DEF ReconcileStart
  <2>2. todo'[w] = {c \in Clients : desired[c] # None}
    BY <1>0, <1>2, Zenon DEF ReconcileStart, Types
  <2>3. Snapped(w)'
    BY <2>1, <2>2, Zenon DEF Snapped
  <2> QED BY <2>1, <2>3, Zenon DEF OnCourse, Deleting
<1>3. CASE ~ReconcileStart(w)
  <2>1. \/ op'[w] = "put" /\ pc'[w] = "store"
        \/ op'[w] = "delete" /\ pc'[w] = "read"
        \/ op'[w] = "get" /\ pc'[w] = "receipt"
    BY <1>1, <1>3, Zenon DEF Start, PutStart, DeleteStart, GetStart
  <2> QED BY <2>1, Zenon DEF OnCourse, Deleting
<1> QED BY <1>2, <1>3, Zenon

(***************************************************************************)
(* The list is worked off one client at a time.                            *)
(***************************************************************************)
LEMMA SnappedStep ==
  ASSUME NEW w \in Workers, Snapped(w), UNCHANGED desired, todo'[w] = todo[w],
         \A c \in Clients : pc[w] \in Converging /\ client[w] = c =>
           (pc'[w] \in Converging /\ client'[w] = c) \/ Done(c)',
         \A c \in Clients : pc[w] \notin Converging \/ c # client[w] =>
           live'[c] = live[c] /\ receipt'[c] = receipt[c]
  PROVE  Snapped(w)'
<1> SUFFICES ASSUME NEW c \in Clients, desired'[c] # None
             PROVE  \/ c \in todo'[w]
                    \/ pc'[w] \in Converging /\ client'[w] = c
                    \/ Done(c)'
  BY Zenon DEF Snapped
<1>1. CASE c \in todo[w]
  BY <1>1, Zenon
<1>2. CASE pc[w] \in Converging /\ client[w] = c
  BY <1>2, Zenon
<1>3. CASE Done(c) /\ ~(pc[w] \in Converging /\ client[w] = c)
  BY <1>3, Zenon DEF Done
<1> QED BY <1>1, <1>2, <1>3, Zenon DEF Snapped

(***************************************************************************)
(* reconcile_all takes the next id, and passes over one whose record is    *)
(* gone.                                                                   *)
(***************************************************************************)
LEMMA NextOnCourse ==
  ASSUME IInv, NEW w \in Workers, OnCourse(w), ReconcileNext(w)
  PROVE  OnCourse(w)'
<1>0. Types
  BY Zenon DEF IInv
<1>1. PICK c \in todo[w] :
        /\ todo' = [todo EXCEPT ![w] = @ \ {c}]
        /\ \/ desired[c] = None /\ UNCHANGED pc
           \/ client' = [client EXCEPT ![w] = c] /\ Goto(w, "receipt")
  BY Zenon DEF ReconcileNext
<1>2. /\ pc[w] = "next" /\ op[w] = "reconcile" /\ Snapped(w)
      /\ todo'[w] = todo[w] \ {c}
      /\ UNCHANGED <<desired, receipt, live, op>>
  BY <1>0, <1>1, Zenon DEF ReconcileNext, OnCourse, Types, store
<1>3. \/ desired[c] = None /\ pc'[w] = "next"
      \/ client'[w] = c /\ pc'[w] = "receipt"
  BY <1>0, <1>1, <1>2, Zenon DEF Goto, Types
<1>4. Snapped(w)'
  <2> SUFFICES ASSUME NEW d \in Clients, desired'[d] # None
               PROVE  \/ d \in todo'[w]
                      \/ pc'[w] \in Converging /\ client'[w] = d
                      \/ Done(d)'
    BY Zenon DEF Snapped
  <2>1. CASE d = c
    BY <1>2, <1>3, <2>1, Zenon DEF Converging
  <2>2. CASE d # c
    BY <1>2, <2>2, Zenon DEF Snapped, Done, Converging
  <2> QED BY <2>1, <2>2, Zenon
<1> QED BY <1>2, <1>3, <1>4, Zenon DEF OnCourse, Deleting

(***************************************************************************)
(* _converge goes on with the client it has.                               *)
(***************************************************************************)
LEMMA ContinuesSnapped ==
  ASSUME NEW w \in Workers, OnCourse(w), pc[w] \in Converging, pc'[w] \in Converging,
         UNCHANGED <<desired, op, client, todo>>,
         \A c \in Clients : c # client[w] => live'[c] = live[c] /\ receipt'[c] = receipt[c]
  PROVE  op'[w] = "reconcile" => Snapped(w)'
<1> SUFFICES ASSUME op[w] = "reconcile" PROVE Snapped(w)'
  BY Zenon
<1>1. Snapped(w)
  BY Zenon DEF OnCourse
<1> QED BY <1>1, SnappedStep, Zenon

(***************************************************************************)
(* _converge is through with a client: it answers, or reconcile_all goes   *)
(* on to the next id.                                                      *)
(***************************************************************************)
LEMMA FinishOnCourse ==
  ASSUME IInv, NEW w \in Workers, OnCourse(w), pc[w] \in Converging, NEW r, Finish(w, r),
         UNCHANGED <<desired, op, client, todo>>, Done(client[w])',
         \A c \in Clients : c # client[w] => live'[c] = live[c] /\ receipt'[c] = receipt[c],
         pc'[w] # "idle"
  PROVE  OnCourse(w)'
<1>0. Types
  BY Zenon DEF IInv
<1>1. pc'[w] = "next" /\ op[w] = "reconcile" /\ Snapped(w)
  BY <1>0, Zenon DEF Finish, Goto, Types, OnCourse
<1>2. \A c \in Clients : client[w] = c => Done(c)'
  BY Zenon DEF Done
<1>3. Snapped(w)'
  BY <1>1, <1>2, SnappedStep, Zenon
<1> QED BY <1>1, <1>3, Zenon DEF OnCourse, Deleting

(***************************************************************************)
(* Where the observation ends the work on a client, that client is done.   *)
(***************************************************************************)
LEMMA ObservedDone ==
  ASSUME IInv, ReceiptInv, NEW w \in Workers, Observe(w),
         pc'[w] \notin {"create", "update"}
  PROVE  /\ Done(client[w])'
         /\ \E r : Finish(w, r)
<1>0. Types
  BY Zenon DEF IInv
<1>1. pc[w] = "observe" /\ UNCHANGED <<desired, receipt, live, client, value>>
  BY Zenon DEF Observe, store
<1>2. desired[client[w]] = value[w] /\ (receiptOk[w] => receipt[client[w]] = value[w])
  BY <1>1, Working, Zenon DEF Converging, ReceiptInv, ReceiptRead
<1>3. ASSUME NEW step \in {"create", "update"}, Goto(w, step) PROVE FALSE
  BY <1>0, <1>3, Zenon DEF Goto, Types
<1>4. /\ \E r : Finish(w, r)
      /\ \/ Cardinality(live[client[w]]) > 1
         \/ \E x \in live[client[w]] : live[client[w]] = {x} /\ Converged(w, x)
  BY <1>3, Zenon DEF Observe
<1>5. Done(client[w])
  BY <1>2, <1>4, Zenon DEF Done, Converged
<1> QED BY <1>1, <1>4, <1>5, Zenon DEF Done

(***************************************************************************)
(* _converge looks: at the receipt, then at Keycloak.                      *)
(***************************************************************************)
LEMMA LookOnCourse ==
  ASSUME IInv, ClientInv, ReceiptInv, NEW w \in Workers, OnCourse(w),
         ReadReceipt(w) \/ Observe(w), pc'[w] # "idle"
  PROVE  OnCourse(w)'
<1>0. Types
  BY Zenon DEF IInv
<1>1. UNCHANGED <<desired, receipt, live, op, client, value, todo>>
  BY Zenon DEF ReadReceipt, Observe, store
<1>2. CASE ReadReceipt(w)
  <2>1. /\ pc[w] = "receipt"
        /\ pc'[w] = IF op[w] = "get" THEN "status" ELSE "observe"
    BY <1>0, <1>2, Zenon DEF ReadReceipt, Goto, Types
  <2>2. op'[w] = "reconcile" => Snapped(w)'
    <3> SUFFICES ASSUME op[w] = "reconcile" PROVE Snapped(w)'
      BY <1>1, Zenon
    <3> QED BY <1>1, <2>1, ContinuesSnapped, Zenon DEF Converging
  <2> QED BY <2>1, <2>2, Zenon DEF OnCourse, Deleting
<1>3. CASE Observe(w)
  <2>0. pc[w] = "observe" /\ pc[w] \in Converging
    BY <1>3, Zenon DEF Observe, Converging
  <2>1. CASE pc'[w] \notin {"create", "update"}
    BY <1>1, <1>3, <2>0, <2>1, ObservedDone, FinishOnCourse, Zenon
  <2>2. CASE pc'[w] \in {"create", "update"}
    <3>1. op'[w] = "reconcile" => Snapped(w)'
      BY <1>1, <2>0, <2>2, ContinuesSnapped, Zenon DEF Converging
    <3>2. ASSUME NEW step, Goto(w, step) PROVE pc'[w] = step
      BY <1>0, <3>2, Zenon DEF Goto, Types
    <3>3. ASSUME NEW r, Finish(w, r) PROVE FALSE
      BY <2>2, <3>2, <3>3, Zenon DEF Finish
    <3>4. \/ pc'[w] = "create" /\ live[client[w]] = {}
          \/ /\ pc'[w] = "update"
             /\ \E x \in live[client[w]] :
                  live[client[w]] = {x} /\ expected' = [expected EXCEPT ![w] = x.uuid]
      BY <1>3, <3>2, <3>3, Zenon DEF Observe
    <3>5. \A u : expected' = [expected EXCEPT ![w] = u] => expected'[w] = u
      BY Zenon DEF ClientInv
    <3>6. /\ pc'[w] = "create" => live'[client'[w]] = {}
          /\ pc'[w] = "update" =>
               \E x \in live'[client'[w]] : live'[client'[w]] = {x} /\ x.uuid = expected'[w]
      BY <1>1, <3>4, <3>5, Zenon
    <3> QED BY <2>2, <3>1, <3>6, Zenon DEF OnCourse, Deleting
  <2> QED BY <2>1, <2>2, Zenon
<1> QED BY <1>2, <1>3, Zenon

(***************************************************************************)
(* A create or an update leaves the one client it is about, as written.    *)
(***************************************************************************)
LEMMA WriteOnCourse ==
  ASSUME IInv, ClientInv, NEW w \in Workers, OnCourse(w), Create(w) \/ Update(w)
  PROVE  OnCourse(w)' /\ pc'[w] = "verify"
<1>0. Types
  BY Zenon DEF IInv
<1>1. UNCHANGED <<desired, receipt, op, client, value, todo>>
  BY Zenon DEF Create, Update, store, local
<1>2. /\ pc[w] \in {"create", "update"} /\ pc[w] \in Converging
      /\ client[w] \in Clients
  <2>1. pc[w] \in {"create", "update"}
    BY Zenon DEF Create, Update
  <2> QED BY <2>1, Working, Zenon DEF Converging
<1>3. ASSUME NEW x, x.val = value[w], expected'[w] \in {None, x.uuid},
             live' = [live EXCEPT ![client[w]] = {x}], Goto(w, "verify")
      PROVE  OnCourse(w)' /\ pc'[w] = "verify"
  <2>1. /\ pc'[w] = "verify" /\ live'[client[w]] = {x}
        /\ \A c \in Clients : c # client[w] => live'[c] = live[c]
    BY <1>0, <1>2, <1>3, Zenon DEF Goto, Types, ClientInv
  <2>2. op'[w] = "reconcile" => Snapped(w)'
    BY <1>1, <1>2, <2>1, ContinuesSnapped, Zenon DEF Converging
  <2>3. Verified(w)'
    BY <1>1, <1>3, <2>1, Zenon DEF Verified
  <2> QED BY <2>1, <2>2, <2>3, Zenon DEF OnCourse, Deleting
<1>4. CASE Create(w)
  <2>1. live[client[w]] = {}
    BY <1>4, Zenon DEF Create, OnCourse
  <2>2. PICK u \in Uuids :
          /\ Created(w, u)
          /\ \E e \in {u, None} : expected' = [expected EXCEPT ![w] = e]
    BY <1>4, Zenon DEF Create
  <2> DEFINE new == [uuid |-> u, val |-> value[w], own |-> TRUE]
  <2>3. new.val = value[w] /\ new.uuid = u
    BY Zenon
  <2>4. live' = [live EXCEPT ![client[w]] = {new}]
    <3>1. live[client[w]] \cup {new} = {new}
      BY <2>1, Zenon
    <3> QED BY <2>2, <3>1, Zenon DEF Created
  <2>5. expected'[w] \in {None, u}
    BY <2>2, Zenon DEF ClientInv
  <2> HIDE DEF new
  <2> QED BY <1>3, <1>4, <2>3, <2>4, <2>5, Zenon DEF Create
<1>5. CASE Update(w)
  <2>1. PICK x \in live[client[w]] : live[client[w]] = {x} /\ x.uuid = expected[w]
    BY <1>5, Zenon DEF Update, OnCourse
  <2>2. Updated(w) /\ Goto(w, "verify") /\ UNCHANGED expected
    BY <1>5, <2>1, Zenon DEF Update, local
  <2> DEFINE new == [uuid |-> x.uuid, val |-> value[w], own |-> TRUE]
             changed(y) == IF y.uuid = expected[w]
                           THEN [uuid |-> y.uuid, val |-> value[w], own |-> TRUE]
                           ELSE y
  <2>3. new.val = value[w] /\ new.uuid = expected[w] /\ changed(x) = new
    BY <2>1, Zenon
  <2>4. live' = [live EXCEPT ![client[w]] = {changed(y) : y \in live[client[w]]}]
    BY <2>2, Zenon DEF Updated
  <2> HIDE DEF new, changed
  <2>5. {changed(y) : y \in live[client[w]]} = {new}
    BY <2>1, <2>3, Zenon
  <2> QED BY <1>3, <2>2, <2>3, <2>4, <2>5, Zenon
<1> QED BY <1>4, <1>5, Zenon

(***************************************************************************)
(* _verify_mutation finds what was written, and the receipt is recorded.   *)
(***************************************************************************)
LEMMA RecordOnCourse ==
  ASSUME IInv, NEW w \in Workers, OnCourse(w), Verify(w) \/ Record(w), pc'[w] # "idle"
  PROVE  OnCourse(w)'
<1>0. Types
  BY Zenon DEF IInv
<1>1. UNCHANGED <<desired, live, op, client, value, expected, todo>>
  BY Zenon DEF Verify, Record, store, local
<1>2. /\ pc[w] \in {"verify", "record"} /\ pc[w] \in Converging
      /\ Verified(w) /\ client[w] \in Clients /\ desired[client[w]] = value[w]
  <2>1. pc[w] \in {"verify", "record"}
    BY Zenon DEF Verify, Record
  <2> QED BY <2>1, Working, Zenon DEF Converging, OnCourse
<1>3. CASE Verify(w)
  <2>1. pc'[w] = "record" /\ UNCHANGED receipt
    BY <1>0, <1>2, <1>3, Zenon DEF Verify, Goto, Types, store
  <2>2. op'[w] = "reconcile" => Snapped(w)'
    BY <1>1, <1>2, <2>1, ContinuesSnapped, Zenon DEF Converging
  <2>3. Verified(w)'
    BY <1>1, <1>2, Zenon DEF Verified
  <2> QED BY <2>1, <2>2, <2>3, Zenon DEF OnCourse, Deleting
<1>4. CASE Record(w)
  <2>1. receipt' = [receipt EXCEPT ![client[w]] = value[w]] /\ Finish(w, "in_sync")
    BY <1>4, Zenon DEF Record
  <2>2. /\ receipt'[client[w]] = value[w]
        /\ \A c \in Clients : c # client[w] => receipt'[c] = receipt[c]
    BY <1>0, <1>2, <2>1, Zenon DEF Types
  <2>3. Done(client[w])'
    BY <1>1, <1>2, <2>2, Zenon DEF Done, Verified
  <2> QED BY <1>1, <1>2, <2>1, <2>2, <2>3, FinishOnCourse, Zenon
<1> QED BY <1>3, <1>4, Zenon

(***************************************************************************)
(* Every step of a request that meets no failure keeps it on course until  *)
(* it answers.                                                             *)
(***************************************************************************)
LEMMA StepOnCourse ==
  ASSUME IInv, ClientInv, ReceiptInv, NEW w \in Workers, OnCourse(w), Step(w),
         pc'[w] # "idle"
  PROVE  OnCourse(w)'
<1>0. Types
  BY Zenon DEF IInv
<1>1. ASSUME NEW step, Goto(w, step) PROVE pc'[w] = step
  BY <1>0, <1>1, Zenon DEF Goto, Types
<1>2. ASSUME NEW r, Finish(w, r) PROVE op[w] = "reconcile"
  BY <1>1, <1>2, Zenon DEF Finish
<1>3. CASE PutStore(w)
  <2>1. pc'[w] = "receipt" /\ op'[w] = "put"
    BY <1>1, <1>3, Zenon DEF PutStore, OnCourse, local
  <2> QED BY <2>1, Zenon DEF OnCourse, Deleting
<1>4. CASE ReconcileDone(w)
  BY <1>1, <1>4, Zenon DEF ReconcileDone
<1>5. CASE StatusFor(w)
  <2>1. op[w] = "get"
    BY <1>5, Zenon DEF StatusFor, IInv, LockInv, InOrder
  <2> QED BY <1>2, <1>5, <2>1, Zenon DEF StatusFor
<1>6. CASE DeleteRead(w) \/ DeleteFind(w) \/ Remove(w) \/ Withdraw(w) \/ Discard(w)
  <2>1. op[w] = "delete" /\ UNCHANGED op
    BY <1>6, Zenon DEF DeleteRead, DeleteFind, Remove, Withdraw, Discard, OnCourse, Deleting,
         local
  <2>2. pc'[w] \in {"find", "withdraw", "remove", "discard"}
    BY <1>1, <1>2, <1>6, <2>1, Zenon DEF DeleteRead, DeleteFind, Remove, Withdraw, Discard
  <2> QED BY <2>1, <2>2, Zenon DEF OnCourse, Deleting
<1> QED BY <1>3, <1>4, <1>5, <1>6, NextOnCourse, LookOnCourse, WriteOnCourse, RecordOnCourse,
          Zenon DEF Step

(***************************************************************************)
(* A request that is still undisturbed after a step made that step itself, *)
(* or the step changed nothing it relies on.                               *)
(***************************************************************************)
LEMMA CleanStep ==
  ASSUME IInv, ClientInv, ReceiptInv, events \in Nat, MCNext, NEW w \in Workers, clean'[w],
         pc[w] # "idle"
  PROVE  /\ clean[w]
         /\ \/ Step(w)
            \/ /\ UNCHANGED <<desired, receipt, live>>
               /\ pc'[w] = pc[w] /\ op'[w] = op[w] /\ client'[w] = client[w]
               /\ value'[w] = value[w] /\ expected'[w] = expected[w]
               /\ todo'[w] = todo[w]
<1>1. /\ clean[w] /\ events' = events
      /\ Moved(w) \/ UNCHANGED <<desired, receipt, live>>
  BY Zenon DEF MCNext
<1>2. ~Event
  <2>1. events + 1 # events
    OBVIOUS
  <2> QED BY <1>1, <2>1, Zenon DEF Event
<1>3. PICK v \in Workers : Start(v) \/ Step(v) \/ Fault(v)
  BY <1>2, Zenon DEF MCNext, Next, Crash, OutOfBand
<1>4. CASE v = w
  <2>1. ~Start(w)
    BY Zenon DEF Start, PutStart, DeleteStart, GetStart, ReconcileStart, Begin
  <2> QED BY <1>1, <1>2, <1>3, <1>4, <2>1, Zenon DEF Fault, ReadFails, WriteFails, Abort
<1>5. CASE v # w
  <2>1. /\ pc'[w] = pc[w] /\ client'[w] = client[w] /\ value'[w] = value[w]
    BY <1>3, <1>5, StepIsLocal, Zenon
  <2>2. op'[w] = op[w] /\ expected'[w] = expected[w] /\ todo'[w] = todo[w]
    BY <1>3, <1>5, KindIsLocal, Zenon
  <2> QED BY <1>1, <2>1, <2>2, Zenon DEF Moved
<1> QED BY <1>4, <1>5, Zenon

(***************************************************************************)
(* What a request relies on does not change while nothing it depends on    *)
(* does.                                                                   *)
(***************************************************************************)
LEMMA StaysOnCourse ==
  ASSUME NEW w \in Workers, OnCourse(w), UNCHANGED <<desired, receipt, live>>,
         pc'[w] = pc[w], op'[w] = op[w], client'[w] = client[w],
         value'[w] = value[w], expected'[w] = expected[w], todo'[w] = todo[w]
  PROVE  OnCourse(w)'
<1>1. Snapped(w) => Snapped(w)'
  BY Zenon DEF Snapped, Done
<1>2. Verified(w) => Verified(w)'
  BY Zenon DEF Verified
<1> QED BY <1>1, <1>2, Zenon DEF OnCourse

(***************************************************************************)
(* The invariant of undisturbed requests holds through every step.         *)
(***************************************************************************)
LEMMA CleanKept ==
  ASSUME IInv, ClientInv, ReceiptInv, CleanInv, MCNext
  PROVE  CleanInv'
<1>1. events' \in Nat
  <2>1. UNCHANGED events \/ Event
    BY ZenonT(60)
    DEF MCNext, Next, Start, PutStart, DeleteStart, GetStart, ReconcileStart, Begin, Step,
        PutStore, ReconcileNext, ReconcileDone, ReadReceipt, Observe, Create, Update,
        Verify, Record, DeleteRead, DeleteFind, Remove, Withdraw, Discard, StatusFor, Fault,
        ReadFails, WriteFails, Abort, Crash, OutOfBand, bounds
  <2> QED BY <2>1 DEF Event, CleanInv
<1>2. ASSUME NEW w \in Workers, clean'[w], pc'[w] # "idle" PROVE OnCourse(w)'
  <2>1. CASE pc[w] = "idle"
    <3>1. PICK v \in Workers : Start(v) \/ Step(v) \/ Fault(v)
      BY <1>2, <2>1, Zenon DEF MCNext, Next, Crash, OutOfBand
    <3>2. v = w
      BY <1>2, <2>1, <3>1, StepIsLocal, Zenon
    <3>3. Start(w)
      BY <2>1, <3>1, <3>2, ZenonT(30)
      DEF Step, PutStore, ReconcileNext, ReconcileDone, ReadReceipt, Observe, Create, Update,
          Verify, Record, DeleteRead, DeleteFind, Remove, Withdraw, Discard, StatusFor,
          Fault, ReadFails, WriteFails, Abort
    <3> QED BY <3>3, StartOnCourse, Zenon
  <2>2. CASE pc[w] # "idle"
    <3>1. OnCourse(w)
      BY <1>2, <2>2, CleanStep, Zenon DEF CleanInv
    <3> QED BY <1>2, <2>2, <3>1, CleanStep, StepOnCourse, StaysOnCourse, Zenon DEF CleanInv
  <2> QED BY <2>1, <2>2, Zenon
<1> QED BY <1>1, <1>2, Zenon DEF CleanInv

(***************************************************************************)
(* Where an undisturbed request answers, what it handled is done.          *)
(***************************************************************************)
LEMMA AnswersDone ==
  ASSUME IInv, ClientInv, ReceiptInv, NEW w \in Workers, OnCourse(w), Step(w),
         pc[w] # "idle", pc'[w] = "idle"
  PROVE  /\ op[w] = "put" => Done(client[w])'
         /\ op[w] = "reconcile" => \A c \in Clients : desired'[c] # None => Done(c)'
<1>0. Types
  BY Zenon DEF IInv
<1>1. ASSUME NEW step, Goto(w, step) PROVE step = "idle"
  BY <1>0, <1>1, Zenon DEF Goto, Types
<1>2. ASSUME NEW r, Finish(w, r) PROVE op[w] # "reconcile"
  BY <1>1, <1>2, Zenon DEF Finish
<1>3. ~(PutStore(w) \/ ReconcileNext(w) \/ ReadReceipt(w) \/ Create(w) \/ Update(w))
  <2>1. ~(PutStore(w) \/ ReadReceipt(w))
    BY <1>1, Zenon DEF PutStore, ReadReceipt
  <2>2. ~ReconcileNext(w)
    BY <1>1, Zenon DEF ReconcileNext
  <2>3. ~(Create(w) \/ Update(w))
    BY WriteOnCourse, Zenon
  <2> QED BY <2>1, <2>2, <2>3, Zenon
<1>4. ASSUME DeleteRead(w) \/ DeleteFind(w) \/ Remove(w) \/ Withdraw(w) \/ Discard(w)
      PROVE  op[w] = "delete"
  BY <1>4, Zenon DEF DeleteRead, DeleteFind, Remove, Withdraw, Discard, OnCourse, Deleting
<1>5. ASSUME StatusFor(w) PROVE op[w] = "get"
  BY <1>5, Zenon DEF StatusFor, IInv, LockInv, InOrder
<1>6. ~Verify(w)
  BY <1>1, Zenon DEF Verify, OnCourse
<1>7. CASE ReconcileDone(w)
  <2>1. /\ pc[w] = "next" /\ op[w] = "reconcile" /\ todo[w] = {} /\ Snapped(w)
        /\ UNCHANGED <<desired, receipt, live>>
    BY <1>7, Zenon DEF ReconcileDone, OnCourse, store
  <2>2. \A c \in Clients : desired[c] # None => Done(c)
    BY <2>1, Zenon DEF Snapped, Converging
  <2> QED BY <2>1, <2>2, Zenon DEF Done
<1>8. CASE Observe(w)
  <2>1. Done(client[w])' /\ op[w] # "reconcile" /\ UNCHANGED client
    BY <1>2, <1>8, ObservedDone, Zenon DEF Observe
  <2> QED BY <2>1, Zenon
<1>9. CASE Record(w)
  <2>1. /\ pc[w] = "record" /\ receipt' = [receipt EXCEPT ![client[w]] = value[w]]
        /\ UNCHANGED <<desired, live, client>> /\ op[w] # "reconcile"
    BY <1>2, <1>9, Zenon DEF Record, local
  <2>2. Verified(w) /\ client[w] \in Clients /\ desired[client[w]] = value[w]
    BY <2>1, Working, Zenon DEF OnCourse, Converging
  <2>3. receipt'[client[w]] = value[w]
    BY <1>0, <2>1, <2>2, Zenon DEF Types
  <2>4. Done(client[w])'
    BY <2>1, <2>2, <2>3, Zenon DEF Done, Verified
  <2> QED BY <2>1, <2>4, Zenon
<1> QED BY <1>3, <1>4, <1>5, <1>6, <1>7, <1>8, <1>9, Zenon DEF Step

(***************************************************************************)
(* Whatever failures, lost answers, crashes and outside edits left behind, *)
(* a put_registration or a reconcile_all that runs undisturbed ends with   *)
(* one matching client and a matching receipt for every id it handled,     *)
(* unless Keycloak holds duplicates.                                       *)
(***************************************************************************)
THEOREM UndisturbedClientsConverge == MCSpec => UndisturbedConverges
<1> DEFINE Converges ==
      \A w \in Workers :
        (pc[w] # "idle" /\ pc'[w] = "idle" /\ clean[w] /\ clean'[w]) =>
          /\ op[w] = "put" => Settled(client[w])
          /\ op[w] = "reconcile" =>
               \A c \in Clients : desired'[c] # None => Settled(c)
<1>1. MCInit => Init /\ CleanInv
  <2>1. Init => events \in Nat
    BY DEF Init
  <2> QED BY <2>1, Zenon DEF MCInit, CleanInv
<1>2. [MCNext]_<<vars, clean>> => [Next]_vars
  BY Zenon DEF MCNext
<1>3. ASSUME IInv, ClientInv, ReceiptInv, CleanInv, [MCNext]_<<vars, clean>> PROVE CleanInv'
  <2>1. CASE UNCHANGED <<vars, clean>>
    <3>1. UNCHANGED <<desired, receipt, live, pc, op, client, value, expected, todo, events,
                      clean>>
      BY <2>1, Zenon DEF vars, store, local, bounds
    <3>2. ASSUME NEW w \in Workers, OnCourse(w) PROVE OnCourse(w)'
      BY <3>1, <3>2, StaysOnCourse, Zenon
    <3> QED BY <1>3, <3>1, <3>2, Zenon DEF CleanInv
  <2> QED BY <1>3, <2>1, CleanKept, Zenon
<1>4. ASSUME IInv, ClientInv, ReceiptInv, CleanInv, MCNext PROVE Converges
  <2> SUFFICES ASSUME NEW w \in Workers, pc[w] # "idle", pc'[w] = "idle", clean'[w]
               PROVE  /\ op[w] = "put" => Settled(client[w])
                      /\ op[w] = "reconcile" =>
                           \A c \in Clients : desired'[c] # None => Settled(c)
    BY Zenon
  <2>1. Step(w) /\ OnCourse(w)
    BY <1>4, CleanStep, Zenon DEF CleanInv
  <2>2. /\ op[w] = "put" => Done(client[w])'
        /\ op[w] = "reconcile" => \A c \in Clients : desired'[c] # None => Done(c)'
    BY <1>4, <2>1, AnswersDone, Zenon
  <2>3. op[w] = "put" => client'[w] = client[w]
    <3>1. \/ UNCHANGED client
          \/ ReconcileNext(w)
      BY <2>1, Zenon
      DEF Step, PutStore, ReconcileDone, ReadReceipt, Observe, Create, Update, Verify, Record,
          DeleteRead, DeleteFind, Remove, Withdraw, Discard, StatusFor, local
    <3> QED BY <2>1, <3>1, Zenon DEF ReconcileNext, OnCourse
  <2> QED BY <2>2, <2>3, Zenon DEF Done, Settled
<1>5. ASSUME IInv, ClientInv, ReceiptInv, CleanInv, [MCNext]_<<vars, clean>>
      PROVE  [Converges]_<<vars, clean>>
  BY <1>4, <1>5, Zenon
<1>6. MCSpec => Spec
  BY <1>1, <1>2, PTL DEF MCSpec, Spec
<1>7. MCSpec => [](IInv /\ ClientInv /\ ReceiptInv)
  BY <1>6, Invariance, ClientInvariance, ReceiptInvariance, PTL
<1>8. MCSpec => []CleanInv
  BY <1>1, <1>3, <1>7, PTL DEF MCSpec
<1> QED BY <1>5, <1>7, <1>8, PTL DEF MCSpec, UndisturbedConverges

-----------------------------------------------------------------------------
INSTANCE FiniteSetTheorems

(***************************************************************************)
(* However put_registration, delete_registration and reconcile_all         *)
(* interleave, fail or crash, Keycloak never holds two clients with one    *)
(* client id that this service created or took over.                       *)
(***************************************************************************)
THEOREM AtMostOneOwnClient == Spec => []OneOwnClient
<1>1. ASSUME ClientInv PROVE OneOwnClient
  <2> SUFFICES ASSUME NEW c \in Clients
               PROVE  Cardinality({x \in live[c] : x.own}) <= 1
    BY Zenon DEF OneOwnClient
  <2> DEFINE own == {x \in live[c] : x.own}
  <2>1. \A x, y \in own : x = y
    BY <1>1, Zenon DEF ClientInv, Single
  <2>2. CASE own = {}
    BY <2>2, FS_EmptySet
  <2>3. ASSUME NEW x \in own PROVE Cardinality(own) <= 1
    <3>1. own = {x}
      BY <2>1, Zenon
    <3>2. Cardinality({x}) = 1
      BY FS_Singleton, Zenon
    <3> QED BY <3>1, <3>2
  <2> QED BY <2>2, <2>3, Zenon
<1> QED BY <1>1, ClientInvariance, PTL
=============================================================================
