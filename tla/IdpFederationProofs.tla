------------------------ MODULE IdpFederationProofs ------------------------
(***************************************************************************)
(* Proofs about identity-provider federation (IdpFederation), for any      *)
(* aliases, registrations, concurrent requests, failures and crashes.      *)
(***************************************************************************)
EXTENDS MCIdpFederation, TLAPS

Applying == {"existing", "create", "update", "verify"}

Removing == {"look", "remove", "forget"}

Steps ==
  {"idle", "put", "delete", "get", "apply", "wait", "next"} \cup Applying \cup Removing

Types ==
  /\ desired \in [Aliases -> Values \cup {None}]
  /\ live \in [Aliases -> Values \cup {None}]
  /\ sent \in [Aliases -> Values \cup {None}]
  /\ lock \in Workers \cup {None}
  /\ pc \in [Workers -> Steps]
  /\ op \in [Workers -> {"none", "put", "delete", "get", "apply"}]
  /\ alias \in [Workers -> Aliases \cup {None}]
  /\ value \in [Workers -> Values \cup {None}]
  /\ todo \in [Workers -> SUBSET (Aliases \X Values)]
  /\ events \in Nat

(***************************************************************************)
(* A request inside the convergence lock.                                  *)
(***************************************************************************)
Locked(w) ==
  pc[w] = "next" \/ (pc[w] \in Applying /\ op[w] # "get") \/ pc[w] \in Removing

InOrder(w) ==
  /\ pc[w] \in {"put", "delete", "get", "apply"} => op[w] = pc[w]
  /\ pc[w] \in {"wait", "next"} => op[w] = "apply"
  /\ pc[w] \in Removing => op[w] = "delete"
  /\ pc[w] \in Applying =>
       op[w] \in {"put", "get", "apply"} /\ value[w] \in Values /\ alias[w] \in Aliases
  /\ pc[w] \in Applying \ {"verify"} => op[w] # "get"
  /\ pc[w] # "idle" /\ op[w] # "apply" => alias[w] \in Aliases
  /\ pc[w] # "idle" /\ op[w] = "put" => value[w] \in Values

(***************************************************************************)
(* What a put or a delete relies on under the lock.                        *)
(***************************************************************************)
IntentKept(w) ==
  /\ pc[w] \in Applying /\ op[w] = "put" => desired[alias[w]] = value[w]
  /\ pc[w] \in {"look", "remove"} => desired[alias[w]] # None
  /\ pc[w] = "forget" => sent[alias[w]] = None

Mine(w) == InOrder(w) /\ (Locked(w) <=> lock = w) /\ IntentKept(w)

ProviderInv == Types /\ \A w \in Workers : Mine(w)

Acts(w) == Start(w) \/ Step(w) \/ CallFails(w) \/ Abort(w)

(***************************************************************************)
(* A function changed at one point stays a function.                       *)
(***************************************************************************)
LEMMA ExceptIn ==
  ASSUME NEW S, NEW T, NEW f \in [S -> T], NEW p, NEW y \in T
  PROVE  [f EXCEPT ![p] = y] \in [S -> T]
OBVIOUS

(***************************************************************************)
(* A step of one request changes the local variables of no other.          *)
(***************************************************************************)
LEMMA ActsLocally ==
  ASSUME Types, NEW w \in Workers, Acts(w), NEW v \in Workers, v # w
  PROVE  /\ pc'[v] = pc[v] /\ op'[v] = op[v] /\ alias'[v] = alias[v]
         /\ value'[v] = value[v] /\ todo'[v] = todo[v]
<1> USE DEF Acts, Start, Request, Step, Put, Snapshot, ApplyLock,
      ApplyNext, ApplyDone, Existing, Write, Verify, Get,
      DeleteRead, DeleteLook, Remove, Forget, CallFails, Abort,
      Answer, Goto, local
<1>1. \E e : pc' = [pc EXCEPT ![w] = e]
  BY ZenonT(60)
<1>2. op' = op \/ \E e : op' = [op EXCEPT ![w] = e]
  BY ZenonT(60)
<1>3. alias' = alias \/ \E e : alias' = [alias EXCEPT ![w] = e]
  BY ZenonT(60)
<1>4. value' = value \/ \E e : value' = [value EXCEPT ![w] = e]
  BY ZenonT(60)
<1>5. todo' = todo \/ \E e : todo' = [todo EXCEPT ![w] = e]
  BY ZenonT(60)
<1> QED
  BY <1>1, <1>2, <1>3, <1>4, <1>5, Zenon DEF Types

(***************************************************************************)
(* What a step does to the store, to Keycloak and to the lock.             *)
(***************************************************************************)
LEMMA WriteForms ==
  ASSUME NEW w \in Workers, Acts(w)
  PROVE  /\ \/ UNCHANGED desired
            \/ /\ pc[w] = "put" /\ lock = None
               /\ desired' = [desired EXCEPT ![alias[w]] = value[w]]
            \/ pc[w] = "forget" /\ desired' = [desired EXCEPT ![alias[w]] = None]
         /\ \/ UNCHANGED <<live, sent>>
            \/ pc[w] \in {"create", "update"} /\ Written(w)
            \/ pc[w] = "remove" /\ Removed(w)
            \/ /\ pc[w] = "look" /\ UNCHANGED live
               /\ sent' = [sent EXCEPT ![alias[w]] = None]
         /\ \/ UNCHANGED lock
            \/ Release(w)
            \/ lock = None /\ lock' = w
<1> USE DEF Acts, Start, Request, Step, Put, Snapshot, ApplyLock,
      ApplyNext, ApplyDone, Existing, Write, Verify, Get,
      DeleteRead, DeleteLook, Remove, Forget, CallFails, Abort,
      Answer
<1>1. \/ UNCHANGED desired
      \/ /\ pc[w] = "put" /\ lock = None
         /\ desired' = [desired EXCEPT ![alias[w]] = value[w]]
      \/ pc[w] = "forget" /\ desired' = [desired EXCEPT ![alias[w]] = None]
  BY ZenonT(60)
<1>2. \/ UNCHANGED <<live, sent>>
      \/ pc[w] \in {"create", "update"} /\ Written(w)
      \/ pc[w] = "remove" /\ Removed(w)
      \/ /\ pc[w] = "look" /\ UNCHANGED live
         /\ sent' = [sent EXCEPT ![alias[w]] = None]
  BY ZenonT(60)
<1>3. \/ UNCHANGED lock
      \/ Release(w)
      \/ lock = None /\ lock' = w
  BY ZenonT(60)
<1> QED
  BY <1>1, <1>2, <1>3, Zenon

(***************************************************************************)
(* What a request relies on survives the steps of the others.              *)
(***************************************************************************)
LEMMA OthersMine ==
  ASSUME ProviderInv, NEW w \in Workers, Acts(w), NEW v \in Workers, v # w
  PROVE  Mine(v)'
<1>0. Mine(v) /\ Mine(w)
  BY Zenon DEF ProviderInv
<1>1. /\ pc'[v] = pc[v] /\ op'[v] = op[v] /\ alias'[v] = alias[v] /\ value'[v] = value[v]
  BY ActsLocally, Zenon DEF ProviderInv
<1>2. InOrder(v)'
  BY <1>0, <1>1, Zenon DEF Mine, InOrder
<1>3. Locked(v)' <=> Locked(v)
  BY <1>1, Zenon DEF Locked
<1>4. lock' = v <=> lock = v
  <2>1. None \notin Workers
    BY ConstantsAssumption, Zenon
  <2>2. UNCHANGED lock \/ Release(w) \/ (lock = None /\ lock' = w)
    BY WriteForms, Zenon
  <2> QED
    BY <2>1, <2>2 DEF Release
<1>5. IntentKept(v)'
  <2>1. CASE Locked(v)
    <3>1. lock = v /\ ~Locked(w)
      BY <1>0, <2>1, Zenon DEF Mine
    <3>2. pc[w] \notin {"create", "update", "look", "remove", "forget"}
      BY <1>0, <3>1, Zenon DEF Mine, InOrder, Locked, Applying, Removing
    <3>3. UNCHANGED <<desired, sent>>
      BY <3>1, <3>2, WriteForms, ConstantsAssumption, Zenon
    <3> QED
      BY <1>0, <1>1, <3>3, Zenon DEF Mine, IntentKept
  <2>2. CASE ~Locked(v)
    BY <1>1, <2>2, Zenon DEF IntentKept, Locked, Removing
  <2> QED
    BY <2>1, <2>2, Zenon
<1> QED
  BY <1>0, <1>2, <1>3, <1>4, <1>5, Zenon DEF Mine

(***************************************************************************)
(* Leaving the handler gives the lock back; apply_all goes on under it.    *)
(***************************************************************************)
LEMMA LeaveMine ==
  ASSUME ProviderInv, NEW w \in Workers,
         Goto(w, "idle"), Release(w) \/ (lock # w /\ UNCHANGED lock)
  PROVE  Mine(w)'
<1>1. pc'[w] = "idle" /\ lock' # w
  BY ConstantsAssumption, Zenon DEF ProviderInv, Types, Goto, Release
<1> QED
  BY <1>1, Zenon DEF Mine, InOrder, Locked, IntentKept, Applying, Removing

(***************************************************************************)
(* _try_apply or _status_for answers.                                      *)
(***************************************************************************)
LEMMA AnswerMine ==
  ASSUME ProviderInv, NEW w \in Workers, NEW r, Answer(w, r), pc[w] \in Applying,
         UNCHANGED <<op, alias, value>>
  PROVE  Mine(w)'
<1>1. CASE op[w] # "apply"
  BY <1>1, LeaveMine, Zenon DEF Answer
<1>2. CASE op[w] = "apply"
  <2>1. pc'[w] = "next" /\ UNCHANGED lock
    BY <1>2, Zenon DEF Answer, Goto, ProviderInv, Types
  <2>2. lock = w
    BY <1>2, Zenon DEF ProviderInv, Mine, Locked
  <2>3. InOrder(w)' /\ Locked(w)' /\ IntentKept(w)'
    BY <1>2, <2>1, Zenon DEF InOrder, Locked, IntentKept, Applying, Removing
  <2> QED
    BY <2>1, <2>2, <2>3, Zenon DEF Mine
<1> QED
  BY <1>1, <1>2, Zenon

(***************************************************************************)
(* What a request relies on survives its own steps.                        *)
(***************************************************************************)
LEMMA OwnMine ==
  ASSUME ProviderInv, NEW w \in Workers, Acts(w)
  PROVE  Mine(w)'
<1>0. Types /\ InOrder(w) /\ (Locked(w) <=> lock = w) /\ IntentKept(w)
  BY Zenon DEF ProviderInv, Mine
<1>1. CASE Start(w)
  <2>1. PICK o \in {"put", "delete", "get", "apply"}, d \in Aliases \cup {None},
             v \in Values \cup {None} :
          /\ Request(w, o, d, v)
          /\ o # "apply" => d \in Aliases
          /\ o = "put" => v \in Values
    BY <1>1, Zenon DEF Start, Values, Values
  <2>2. /\ pc[w] = "idle" /\ pc'[w] = o
        /\ op'[w] = o /\ alias'[w] = d /\ value'[w] = v
        /\ UNCHANGED lock
    BY <1>0, <2>1, Zenon DEF Request, Goto, Types
  <2>3. ~Locked(w) /\ ~Locked(w)'
    BY <2>2, Zenon DEF Locked, Applying, Removing
  <2>4. InOrder(w)' /\ IntentKept(w)'
    BY <2>1, <2>2, Zenon DEF InOrder, IntentKept, Applying, Removing
  <2> QED
    BY <1>0, <2>2, <2>3, <2>4, Zenon DEF Mine
<1>2. CASE Put(w)
  <2>1. /\ pc[w] = "put" /\ pc'[w] = "existing" /\ lock' = w
        /\ UNCHANGED <<op, alias, value>>
    BY <1>0, <1>2, Zenon DEF Put, Goto, Types, local
  <2>2. op[w] = "put" /\ alias[w] \in Aliases /\ value[w] \in Values
    BY <1>0, <2>1, Zenon DEF InOrder
  <2>3. desired'[alias[w]] = value[w]
    BY <1>0, <1>2, <2>2, Zenon DEF Put, Types
  <2>4. InOrder(w)' /\ Locked(w)' /\ IntentKept(w)'
    BY <2>1, <2>2, <2>3, Zenon DEF InOrder, Locked, IntentKept, Applying, Removing
  <2> QED
    BY <2>1, <2>4, Zenon DEF Mine
<1>3. CASE Snapshot(w) \/ ApplyLock(w)
  <2>1. /\ pc[w] \in {"apply", "wait"} /\ UNCHANGED <<op, alias, value>>
        /\ \/ pc'[w] = "wait" /\ UNCHANGED lock
           \/ pc'[w] = "next" /\ lock' = w
    BY <1>0, <1>3, Zenon DEF Snapshot, ApplyLock, Goto, Types, local
  <2>2. op[w] = "apply" /\ lock # w
    BY <1>0, <2>1, Zenon DEF InOrder, Locked, Applying, Removing
  <2>3. InOrder(w)' /\ IntentKept(w)' /\ (Locked(w)' <=> pc'[w] = "next")
    BY <2>1, <2>2, Zenon DEF InOrder, Locked, IntentKept, Applying, Removing
  <2> QED
    BY <2>1, <2>2, <2>3, Zenon DEF Mine
<1>4. CASE ApplyNext(w)
  <2>1. PICK e \in todo[w] :
          /\ alias' = [alias EXCEPT ![w] = e[1]]
          /\ value' = [value EXCEPT ![w] = e[2]]
    BY <1>4, Zenon DEF ApplyNext
  <2>2. e[1] \in Aliases /\ e[2] \in Values
    BY <1>0, <2>1 DEF Types
  <2>3. /\ pc[w] = "next" /\ pc'[w] = "existing"
        /\ alias'[w] \in Aliases /\ value'[w] \in Values
        /\ UNCHANGED <<lock, op>>
    BY <1>0, <1>4, <2>1, <2>2, Zenon DEF ApplyNext, Goto, Types
  <2>4. op[w] = "apply" /\ lock = w
    BY <1>0, <2>3, Zenon DEF InOrder, Locked
  <2>5. InOrder(w)' /\ Locked(w)' /\ IntentKept(w)'
    BY <2>3, <2>4, Zenon DEF InOrder, Locked, IntentKept, Applying, Removing
  <2> QED
    BY <2>3, <2>4, <2>5, Zenon DEF Mine
<1>5. CASE ApplyDone(w) \/ Forget(w) \/ Abort(w)
  BY <1>5, LeaveMine, Zenon DEF ApplyDone, Forget, Abort
<1>6. ASSUME pc[w] \in {"existing", "create", "update"},
             NEW step \in {"create", "update", "verify"}, Goto(w, step),
             UNCHANGED <<lock, op, alias, value, desired>>
      PROVE  Mine(w)'
  <2>1. pc'[w] = step /\ op[w] # "get" /\ lock = w
    BY <1>0, <1>6, Zenon DEF Goto, Types, InOrder, Locked, Applying
  <2>2. InOrder(w)' /\ Locked(w)' /\ IntentKept(w)'
    BY <1>0, <1>6, <2>1, Zenon DEF InOrder, Locked, IntentKept, Applying, Removing
  <2> QED
    BY <1>6, <2>1, <2>2, Zenon DEF Mine
<1>7. CASE Existing(w) \/ Write(w)
  <2>1. CASE Existing(w)
    BY <1>6, <2>1, Zenon DEF Existing, local
  <2>2. CASE Write(w)
    BY <1>6, <2>2, AnswerMine, Zenon DEF Write, local, Applying
  <2> QED
    BY <1>7, <2>1, <2>2, Zenon
<1>8. CASE Verify(w) \/ CallFails(w)
  BY <1>8, AnswerMine, Zenon DEF Verify, CallFails, local, Applying
<1>9. CASE Get(w)
  <2>1. pc[w] = "get" /\ UNCHANGED <<lock, op, alias>>
    BY <1>9, Zenon DEF Get
  <2>2. op[w] = "get" /\ alias[w] \in Aliases /\ lock # w
    BY <1>0, <2>1, Zenon DEF InOrder, Locked, Applying, Removing
  <2>3. CASE Goto(w, "idle")
    BY <2>1, <2>2, <2>3, LeaveMine, Zenon
  <2>4. CASE /\ desired[alias[w]] # None /\ Goto(w, "verify")
             /\ value' = [value EXCEPT ![w] = desired[alias[w]]]
    <3>1. pc'[w] = "verify" /\ value'[w] \in Values
      BY <1>0, <2>2, <2>4, Zenon DEF Goto, Types
    <3>2. InOrder(w)' /\ ~Locked(w)' /\ IntentKept(w)'
      BY <2>1, <2>2, <3>1, Zenon DEF InOrder, Locked, IntentKept, Applying, Removing
    <3> QED
      BY <2>1, <2>2, <3>2, Zenon DEF Mine
  <2> QED
    BY <1>9, <2>3, <2>4, Zenon DEF Get
<1>10. ASSUME pc[w] \in {"delete", "look", "remove"}, op[w] = "delete",
              NEW step \in Removing, Goto(w, step), lock' = w, UNCHANGED <<op, alias, value>>,
              step # "forget" => desired'[alias[w]] # None,
              step = "forget" => sent'[alias[w]] = None
       PROVE  Mine(w)'
  <2>1. pc'[w] = step
    BY <1>0, <1>10, Zenon DEF Goto, Types
  <2>2. InOrder(w)' /\ Locked(w)' /\ IntentKept(w)'
    BY <1>0, <1>10, <2>1, Zenon
    DEF InOrder, Locked, IntentKept, Applying, Removing
  <2> QED
    BY <1>10, <2>2, Zenon DEF Mine
<1>11. CASE DeleteRead(w) \/ DeleteLook(w) \/ Remove(w)
  <2>1. /\ op[w] = "delete" /\ alias[w] \in Aliases /\ pc[w] \in {"delete", "look", "remove"}
        /\ UNCHANGED <<op, alias, value, desired>>
    BY <1>0, <1>11, Zenon
    DEF DeleteRead, DeleteLook, Remove, InOrder, Removing, local
  <2>2. /\ pc[w] = "delete" => lock # w
        /\ pc[w] # "delete" => lock = w
    BY <1>0, <2>1, Zenon DEF Locked, Applying, Removing
  <2>3. ASSUME sent' = [sent EXCEPT ![alias[w]] = None] PROVE sent'[alias[w]] = None
    BY <1>0, <2>1, <2>3, Zenon DEF Types
  <2>4. CASE DeleteRead(w)
    BY <1>10, <2>1, <2>2, <2>4, LeaveMine, Zenon DEF DeleteRead, Removing
  <2>5. CASE DeleteLook(w)
    <3>1. desired[alias[w]] # None
      BY <1>0, <2>5, Zenon DEF DeleteLook, IntentKept
    <3> QED
      BY <1>10, <2>1, <2>2, <2>3, <2>5, <3>1, Zenon DEF DeleteLook, Removing
  <2>6. CASE Remove(w)
    BY <1>10, <2>1, <2>2, <2>3, <2>6, LeaveMine, Zenon DEF Remove, Removed, Removing
  <2> QED
    BY <1>11, <2>4, <2>5, <2>6, Zenon
<1> QED
  BY <1>1, <1>2, <1>3, <1>4, <1>5, <1>7, <1>8, <1>9, <1>11, Zenon DEF Acts, Step

(***************************************************************************)
(* What a step does to the requests' own variables.                        *)
(***************************************************************************)
LEMMA LocalForms ==
  ASSUME NEW w \in Workers, Acts(w)
  PROVE  /\ \E e \in Steps : Goto(w, e)
         /\ \/ UNCHANGED op
            \/ \E o \in {"put", "delete", "get", "apply"} : op' = [op EXCEPT ![w] = o]
         /\ \/ UNCHANGED <<alias, value>>
            \/ \E d \in Aliases \cup {None}, v \in Values \cup {None} :
                 alias' = [alias EXCEPT ![w] = d] /\ value' = [value EXCEPT ![w] = v]
            \/ \E e \in todo[w] :
                 alias' = [alias EXCEPT ![w] = e[1]] /\ value' = [value EXCEPT ![w] = e[2]]
            \/ /\ pc[w] = "get" /\ UNCHANGED alias
               /\ value' = [value EXCEPT ![w] = desired[alias[w]]]
         /\ \/ UNCHANGED todo
            \/ todo' = [todo EXCEPT ![w] =
                          {<<d, desired[d]>> : d \in {x \in Aliases : desired[x] # None}}]
            \/ \E e : todo' = [todo EXCEPT ![w] = @ \ {e}]
         /\ UNCHANGED events \/ events' = events + 1
<1> USE DEF Acts, Request, Step, Put, Snapshot, ApplyLock,
      ApplyNext, ApplyDone, Existing, Write, Verify, Get,
      DeleteRead, DeleteLook, Remove, Forget, CallFails, Abort,
      Answer, local
<1>0. Start(w) => \E o \in {"put", "delete", "get", "apply"}, d \in Aliases \cup {None},
                         v \in Values \cup {None} : Request(w, o, d, v)
  BY Zenon DEF Start, Values, Values
<1>1. \E e \in Steps : Goto(w, e)
  BY <1>0, ZenonT(60) DEF Steps, Applying, Removing
<1>2. \/ UNCHANGED op
      \/ \E o \in {"put", "delete", "get", "apply"} : op' = [op EXCEPT ![w] = o]
  BY <1>0, ZenonT(60)
<1>3. \/ UNCHANGED <<alias, value>>
      \/ \E d \in Aliases \cup {None}, v \in Values \cup {None} :
           alias' = [alias EXCEPT ![w] = d] /\ value' = [value EXCEPT ![w] = v]
      \/ \E e \in todo[w] :
           alias' = [alias EXCEPT ![w] = e[1]] /\ value' = [value EXCEPT ![w] = e[2]]
      \/ /\ pc[w] = "get" /\ UNCHANGED alias
         /\ value' = [value EXCEPT ![w] = desired[alias[w]]]
  BY <1>0, ZenonT(60)
<1>4. \/ UNCHANGED todo
      \/ todo' = [todo EXCEPT ![w] =
                    {<<d, desired[d]>> : d \in {x \in Aliases : desired[x] # None}}]
      \/ \E e : todo' = [todo EXCEPT ![w] = @ \ {e}]
  BY <1>0, ZenonT(60)
<1>5. UNCHANGED events \/ events' = events + 1
  BY <1>0, ZenonT(60) DEF Event
<1> QED
  BY <1>1, <1>2, <1>3, <1>4, <1>5, Zenon

(***************************************************************************)
(* The variables keep their types.                                         *)
(***************************************************************************)
LEMMA TypesStep ==
  ASSUME ProviderInv, NEW w \in Workers, Acts(w)
  PROVE  Types'
<1>0. Types /\ InOrder(w)
  BY Zenon DEF ProviderInv, Mine
<1>1. pc' \in [Workers -> Steps]
  BY <1>0, LocalForms, ExceptIn, ZenonT(30) DEF Goto, Types
<1>2. op' \in [Workers -> {"none", "put", "delete", "get", "apply"}]
  <2>1. UNCHANGED op \/ \E o \in {"none", "put", "delete", "get", "apply"} :
                           op' = [op EXCEPT ![w] = o]
    BY LocalForms, Zenon
  <2> QED
    BY <1>0, <2>1, SMT DEF Types
<1>3. alias' \in [Workers -> Aliases \cup {None}] /\ value' \in [Workers -> Values \cup {None}]
  <2>1. alias \in [Workers -> Aliases \cup {None}] /\ value \in [Workers -> Values \cup {None}]
    BY <1>0, Zenon DEF Types
  <2>2. CASE UNCHANGED <<alias, value>>
    BY <2>1, <2>2, Zenon
  <2>3. ASSUME NEW d \in Aliases \cup {None}, NEW v \in Values \cup {None},
               alias' = [alias EXCEPT ![w] = d], value' = [value EXCEPT ![w] = v]
        PROVE  /\ alias' \in [Workers -> Aliases \cup {None}]
               /\ value' \in [Workers -> Values \cup {None}]
    BY <2>1, <2>3, SMT
  <2>4. ASSUME NEW e \in todo[w]
        PROVE  e[1] \in Aliases \cup {None} /\ e[2] \in Values \cup {None}
    BY <1>0, <2>4 DEF Types
  <2>5. CASE /\ pc[w] = "get" /\ UNCHANGED alias
             /\ value' = [value EXCEPT ![w] = desired[alias[w]]]
    <3>1. desired[alias[w]] \in Values \cup {None}
      BY <1>0, <2>5, Zenon DEF Types, InOrder
    <3> QED
      BY <2>1, <2>5, <3>1, SMT
  <2>6. \/ UNCHANGED <<alias, value>>
        \/ \E d \in Aliases \cup {None}, v \in Values \cup {None} :
             alias' = [alias EXCEPT ![w] = d] /\ value' = [value EXCEPT ![w] = v]
        \/ \E e \in todo[w] :
             alias' = [alias EXCEPT ![w] = e[1]] /\ value' = [value EXCEPT ![w] = e[2]]
        \/ /\ pc[w] = "get" /\ UNCHANGED alias
           /\ value' = [value EXCEPT ![w] = desired[alias[w]]]
    BY LocalForms, ZenonT(30)
  <2> QED
    BY <2>2, <2>3, <2>4, <2>5, <2>6, Zenon
<1>4. todo' \in [Workers -> SUBSET (Aliases \X Values)]
  <2>0. todo \in [Workers -> SUBSET (Aliases \X Values)]
    BY <1>0, Zenon DEF Types
  <2>1. CASE todo' = [todo EXCEPT ![w] =
                        {<<d, desired[d]>> : d \in {x \in Aliases : desired[x] # None}}]
    <3>1. {<<d, desired[d]>> : d \in {x \in Aliases : desired[x] # None}}
            \in SUBSET (Aliases \X Values)
      BY <1>0 DEF Types
    <3> QED
      BY <2>0, <2>1, <3>1, SMT
  <2>2. ASSUME NEW e, todo' = [todo EXCEPT ![w] = @ \ {e}]
        PROVE  todo' \in [Workers -> SUBSET (Aliases \X Values)]
    BY <2>0, <2>2, SMT
  <2> QED
    BY <2>0, <2>1, <2>2, LocalForms, Zenon
<1>5. /\ desired' \in [Aliases -> Values \cup {None}]
      /\ live' \in [Aliases -> Values \cup {None}]
      /\ sent' \in [Aliases -> Values \cup {None}]
  <2>1. UNCHANGED desired \/ \E p \in Aliases, v \in Values \cup {None} :
                                desired' = [desired EXCEPT ![p] = v]
    BY <1>0, WriteForms, Zenon DEF InOrder, Removing
  <2>2. ASSUME pc[w] \in {"create", "update", "look", "remove"}
        PROVE  /\ alias[w] \in Aliases
               /\ pc[w] \in {"create", "update"} => value[w] \in Values
    BY <1>0, <2>2, Zenon DEF InOrder, Applying, Removing
  <2>3. UNCHANGED live \/ \E p \in Aliases, v \in Values \cup {None} :
                             live' = [live EXCEPT ![p] = v]
    BY <2>2, WriteForms, Zenon DEF Written, Removed
  <2>4. UNCHANGED sent \/ \E p \in Aliases, v \in Values \cup {None} :
                             sent' = [sent EXCEPT ![p] = v]
    BY <2>2, WriteForms, Zenon DEF Written, Removed
  <2>5. desired' \in [Aliases -> Values \cup {None}]
    BY <1>0, <2>1, SMT DEF Types
  <2>6. live' \in [Aliases -> Values \cup {None}]
    BY <1>0, <2>3, SMT DEF Types
  <2>7. sent' \in [Aliases -> Values \cup {None}]
    BY <1>0, <2>4, SMT DEF Types
  <2> QED
    BY <2>5, <2>6, <2>7, Zenon
<1>6. lock' \in Workers \cup {None}
  BY <1>0, WriteForms, Zenon DEF Types, Release
<1>7. events' \in Nat
  BY <1>0, LocalForms, SMT DEF Types
<1> QED
  BY <1>1, <1>2, <1>3, <1>4, <1>5, <1>6, <1>7, Zenon DEF Types

(***************************************************************************)
(* The invariant holds after a restart of the service and after a change   *)
(* of a provider made elsewhere.                                           *)
(***************************************************************************)
LEMMA OutsideMine ==
  ASSUME ProviderInv, Crash \/ \E d \in Aliases : OutOfBand(d)
  PROVE  ProviderInv'
<1>0. Types /\ \A w \in Workers : Mine(w)
  BY Zenon DEF ProviderInv
<1>1. events' \in Nat
  <2>1. events' = events + 1
    BY Zenon DEF Crash, OutOfBand, Event
  <2> QED
    BY <1>0, <2>1, SMT DEF Types
<1>2. CASE Crash
  <2>1. /\ pc' = [w \in Workers |-> "idle"] /\ lock' = None
        /\ UNCHANGED <<desired, live, sent, op, alias, value, todo>>
    BY <1>2, Zenon DEF Crash, local
  <2>2. pc' \in [Workers -> Steps]
    BY <2>1, Zenon DEF Steps
  <2>3. Types'
    BY <1>0, <1>1, <2>1, <2>2, Zenon DEF Types
  <2>4. ASSUME NEW w \in Workers PROVE Mine(w)'
    <3>1. pc'[w] = "idle" /\ lock' # w
      BY <2>1, ConstantsAssumption, Zenon
    <3> QED
      BY <3>1, Zenon DEF Mine, InOrder, Locked, IntentKept, Applying, Removing
  <2> QED
    BY <2>3, <2>4, Zenon DEF ProviderInv
<1>3. CASE \E d \in Aliases : OutOfBand(d)
  <2>1. UNCHANGED <<desired, sent, lock, pc, op, alias, value, todo>>
    BY <1>3, Zenon DEF OutOfBand, local
  <2>2. \E d \in Aliases, v \in Values \cup {None} : live' = [live EXCEPT ![d] = v]
    BY <1>3, Zenon DEF OutOfBand, Values, Values
  <2>3. live' \in [Aliases -> Values \cup {None}]
    BY <1>0, <2>2, SMT DEF Types
  <2>4. Types'
    BY <1>0, <1>1, <2>1, <2>3, Zenon DEF Types
  <2>5. ASSUME NEW w \in Workers PROVE Mine(w)'
    BY <1>0, <2>1, Zenon DEF Mine, InOrder, Locked, IntentKept
  <2> QED
    BY <2>4, <2>5, Zenon DEF ProviderInv
<1> QED
  BY <1>2, <1>3, Zenon

(***************************************************************************)
(* Every step keeps the invariant.                                         *)
(***************************************************************************)
LEMMA StepInv ==
  ASSUME ProviderInv, [Next]_vars
  PROVE  ProviderInv'
<1>1. CASE UNCHANGED vars
  <2>1. UNCHANGED <<desired, live, sent, lock, pc, op, alias, value, todo, events>>
    BY <1>1, Zenon DEF vars, local
  <2> QED
    BY <2>1, Zenon
    DEF ProviderInv, Types, Mine, InOrder, Locked, IntentKept
<1>2. ASSUME NEW w \in Workers, Acts(w) PROVE ProviderInv'
  BY <1>2, TypesStep, OwnMine, OthersMine, Zenon DEF ProviderInv
<1> QED
  BY <1>1, <1>2, OutsideMine, Zenon DEF Next, Acts

(***************************************************************************)
(* The inductive invariant of the provider service: the convergence lock   *)
(* is held by exactly the request inside it, a put under it still finds    *)
(* its registration stored, and a delete forgets only what it removed.     *)
(***************************************************************************)
THEOREM ProviderInvariance == Spec => []ProviderInv
<1>1. Init => ProviderInv
  <2> SUFFICES ASSUME Init PROVE ProviderInv
    OBVIOUS
  <2>1. pc \in [Workers -> Steps] /\ todo \in [Workers -> SUBSET (Aliases \X Values)]
    BY DEF Init, Steps
  <2>2. events \in Nat
    BY DEF Init
  <2>3. Types
    BY <2>1, <2>2, Zenon DEF Init, Types
  <2>4. ASSUME NEW w \in Workers PROVE Mine(w)
    <3>1. pc[w] = "idle" /\ lock # w
      BY ConstantsAssumption, Zenon DEF Init
    <3> QED
      BY <3>1, Zenon DEF Mine, InOrder, Locked, IntentKept, Applying, Removing
  <2> QED
    BY <2>3, <2>4, Zenon DEF ProviderInv
<1> QED
  BY <1>1, StepInv, PTL DEF Spec

(***************************************************************************)
(* Every step of a request is a step of the abstract promise, a write from *)
(* apply_all's snapshot, or invisible.                                     *)
(***************************************************************************)
LEMMA ActsImplement ==
  ASSUME ProviderInv, NEW w \in Workers, Acts(w)
  PROVE  DS!Next \/ FromSnapshot \/ UNCHANGED <<desired, sent>>
<1>0. Types /\ InOrder(w) /\ IntentKept(w)
  BY Zenon DEF ProviderInv, Mine
<1>1. CASE pc[w] = "put"
  <2>1. alias[w] \in Aliases /\ value[w] \in Values
    BY <1>0, <1>1, Zenon DEF InOrder, Values, Values
  <2>2. UNCHANGED sent
    BY <1>1, WriteForms, Zenon
  <2>3. UNCHANGED desired \/ DS!Store(alias[w], value[w])
    BY <1>1, <2>2, WriteForms, Zenon DEF DS!Store
  <2> QED
    BY <2>1, <2>2, <2>3, Zenon DEF DS!Next
<1>2. CASE pc[w] = "forget"
  <2>1. alias[w] \in Aliases /\ sent[alias[w]] = None
    BY <1>0, <1>2, Zenon DEF InOrder, IntentKept, Removing
  <2>2. UNCHANGED sent
    BY <1>2, WriteForms, Zenon
  <2>3. UNCHANGED desired \/ DS!Withdraw(alias[w])
    BY <1>2, <2>1, <2>2, WriteForms, Zenon DEF DS!Withdraw
  <2> QED
    BY <2>1, <2>2, <2>3, Zenon DEF DS!Next
<1>3. CASE pc[w] \in {"create", "update"}
  <2>1. alias[w] \in Aliases /\ op[w] \in {"put", "apply"} /\ value[w] # None
    BY <1>0, <1>3, ConstantsAssumption, Zenon DEF InOrder, Applying
  <2>2. UNCHANGED desired
    BY <1>3, WriteForms, Zenon
  <2>3. UNCHANGED sent \/ sent' = [sent EXCEPT ![alias[w]] = value[w]]
    BY <1>3, WriteForms, Zenon DEF Written
  <2>4. CASE op[w] = "apply"
    BY <1>3, <2>2, <2>3, <2>4, Zenon DEF FromSnapshot
  <2>5. CASE op[w] = "put"
    <3>1. desired[alias[w]] = value[w]
      BY <1>0, <1>3, <2>5, Zenon DEF IntentKept, Applying
    <3>2. UNCHANGED sent \/ DS!Send(alias[w])
      BY <2>1, <2>2, <2>3, <3>1, Zenon DEF DS!Send
    <3> QED
      BY <2>1, <2>2, <3>2, Zenon DEF DS!Next
  <2> QED
    BY <2>1, <2>4, <2>5, Zenon
<1>4. CASE pc[w] \in {"look", "remove"}
  <2>1. alias[w] \in Aliases /\ desired[alias[w]] # None
    BY <1>0, <1>4, Zenon DEF InOrder, IntentKept, Removing
  <2>2. UNCHANGED desired
    BY <1>4, WriteForms, Zenon
  <2>3. UNCHANGED sent \/ DS!Retire(alias[w])
    BY <1>4, <2>1, <2>2, WriteForms, Zenon DEF Removed, DS!Retire
  <2> QED
    BY <2>1, <2>2, <2>3, Zenon DEF DS!Next
<1>5. CASE pc[w] \notin {"put", "forget", "create", "update", "look", "remove"}
  BY <1>5, WriteForms, Zenon
<1> QED
  BY <1>1, <1>2, <1>3, <1>4, <1>5, Zenon

(***************************************************************************)
(* put_registration and delete_registration implement the promise of ADR   *)
(* 0004 with any number of request threads, through failures, lost         *)
(* answers, restarts and changes made elsewhere; apply_all writes nothing  *)
(* but its snapshot.                                                       *)
(***************************************************************************)
THEOREM ProviderImplementsDesiredState == Spec => ImplementsDesiredState
<1>1. Init => DS!Init
  BY Zenon DEF Init, DS!Init
<1>2. ASSUME ProviderInv, [Next]_vars
      PROVE  [DS!Next \/ FromSnapshot]_<<desired, sent>>
  <2>1. CASE UNCHANGED vars \/ Crash \/ \E d \in Aliases : OutOfBand(d)
    BY <2>1, Zenon DEF vars, Crash, OutOfBand
  <2>2. ASSUME NEW w \in Workers, Acts(w)
        PROVE  [DS!Next \/ FromSnapshot]_<<desired, sent>>
    BY <1>2, <2>2, ActsImplement, Zenon
  <2> QED
    BY <1>2, <2>1, <2>2, Zenon DEF Next, Acts
<1> QED
  BY <1>1, <1>2, ProviderInvariance, PTL DEF Spec, ImplementsDesiredState

-----------------------------------------------------------------------------
(***************************************************************************)
(* How far apply_all has come while nothing disturbs it: each stored       *)
(* registration is still in its snapshot, at work, or live.                *)
(***************************************************************************)
Snapped(w) ==
  /\ \A e \in todo[w] : e[2] = desired[e[1]]
  /\ \A d \in Aliases : desired[d] # None =>
       \/ <<d, desired[d]>> \in todo[w]
       \/ pc[w] \in Applying /\ alias[w] = d
       \/ live[d] = desired[d]

(***************************************************************************)
(* What _apply found and wrote is still so at each of its later steps.     *)
(***************************************************************************)
OnCourse(w) ==
  /\ pc[w] \in Applying /\ op[w] # "get" => desired[alias[w]] = value[w]
  /\ pc[w] = "create" => live[alias[w]] = None
  /\ pc[w] = "update" => live[alias[w]] # None
  /\ pc[w] = "verify" /\ op[w] # "get" => live[alias[w]] = value[w]
  /\ op[w] = "apply" /\ pc[w] \in {"wait", "next"} \cup Applying => Snapped(w)

CleanInv == \A w \in Workers : clean[w] /\ pc[w] # "idle" => OnCourse(w)

(***************************************************************************)
(* Steps before and after the convergence have nothing to keep.            *)
(***************************************************************************)
LEMMA OffCourse ==
  ASSUME NEW w \in Workers,
         \/ pc'[w] \notin {"wait", "next"} \cup Applying
         \/ pc'[w] = "verify" /\ op'[w] = "get"
  PROVE  OnCourse(w)'
BY Zenon DEF OnCourse, Applying

(***************************************************************************)
(* The snapshot is worked off one registration at a time.                  *)
(***************************************************************************)
LEMMA SnappedStep ==
  ASSUME NEW w \in Workers, Snapped(w), UNCHANGED desired, todo'[w] = todo[w],
         \A d \in Aliases : pc[w] \in Applying /\ alias[w] = d =>
           (pc'[w] \in Applying /\ alias'[w] = d) \/ live'[d] = desired[d],
         \A d \in Aliases : pc[w] \notin Applying \/ d # alias[w] => live'[d] = live[d]
  PROVE  Snapped(w)'
<1>1. \A e \in todo'[w] : e[2] = desired'[e[1]]
  BY Zenon DEF Snapped
<1>2. ASSUME NEW d \in Aliases, desired'[d] # None
      PROVE  \/ <<d, desired'[d]>> \in todo'[w]
             \/ pc'[w] \in Applying /\ alias'[w] = d
             \/ live'[d] = desired'[d]
  BY <1>2, Zenon DEF Snapped
<1> QED
  BY <1>1, <1>2, Zenon DEF Snapped

(***************************************************************************)
(* apply_all takes its snapshot, waits for the lock and goes through it.   *)
(***************************************************************************)
LEMMA SnapshotOnCourse ==
  ASSUME ProviderInv, NEW w \in Workers, OnCourse(w),
         Snapshot(w) \/ ApplyLock(w) \/ ApplyNext(w)
  PROVE  OnCourse(w)'
<1>0. Types /\ InOrder(w)
  BY Zenon DEF ProviderInv, Mine
<1>1. CASE Snapshot(w)
  <2>1. /\ pc'[w] = "wait" /\ UNCHANGED desired
        /\ todo'[w] = {<<d, desired[d]>> : d \in {x \in Aliases : desired[x] # None}}
    BY <1>0, <1>1, Zenon DEF Snapshot, Goto, Types
  <2>2. \A e \in todo'[w] : e[2] = desired'[e[1]]
    BY <2>1
  <2>3. \A d \in Aliases : desired'[d] # None => <<d, desired'[d]>> \in todo'[w]
    BY <2>1, Zenon
  <2> QED
    BY <2>1, <2>2, <2>3, Zenon DEF OnCourse, Snapped, Applying
<1>2. CASE ApplyLock(w)
  <2>1. /\ pc[w] = "wait" /\ pc'[w] = "next"
        /\ UNCHANGED <<desired, live, todo, op>>
    BY <1>0, <1>2, Zenon DEF ApplyLock, Goto, Types, local
  <2>2. Snapped(w) /\ pc[w] \notin Applying
    BY <1>0, <2>1, Zenon DEF OnCourse, InOrder, Applying
  <2>3. Snapped(w)'
    BY <2>1, <2>2, SnappedStep, Zenon
  <2> QED
    BY <2>1, <2>3, Zenon DEF OnCourse, Applying
<1>3. CASE ApplyNext(w)
  <2>1. PICK e \in todo[w] :
          /\ todo' = [todo EXCEPT ![w] = @ \ {e}]
          /\ alias' = [alias EXCEPT ![w] = e[1]]
          /\ value' = [value EXCEPT ![w] = e[2]]
    BY <1>3, Zenon DEF ApplyNext
  <2>2. e = <<e[1], e[2]>>
    BY <1>0, <2>1 DEF Types
  <2>3. /\ pc[w] = "next" /\ pc'[w] = "existing"
        /\ todo'[w] = todo[w] \ {e} /\ alias'[w] = e[1] /\ value'[w] = e[2]
        /\ UNCHANGED <<desired, live, op>>
    BY <1>0, <1>3, <2>1, Zenon DEF ApplyNext, Goto, Types
  <2>4. Snapped(w) /\ op[w] = "apply"
    BY <1>0, <2>3, Zenon DEF OnCourse, InOrder
  <2>5. desired'[alias'[w]] = value'[w]
    BY <2>3, <2>4, Zenon DEF Snapped
  <2>6. Snapped(w)'
    <3>1. \A f \in todo'[w] : f[2] = desired'[f[1]]
      BY <2>3, <2>4, Zenon DEF Snapped
    <3>2. ASSUME NEW d \in Aliases, desired'[d] # None
          PROVE  \/ <<d, desired'[d]>> \in todo'[w]
                 \/ pc'[w] \in Applying /\ alias'[w] = d
                 \/ live'[d] = desired'[d]
      <4>1. CASE <<d, desired[d]>> = e
        <5>1. e[1] = d
          BY <2>2, <4>1
        <5> QED
          BY <2>3, <5>1, Zenon DEF Applying
      <4>2. CASE <<d, desired[d]>> # e
        BY <2>3, <2>4, <3>2, <4>2, Zenon DEF Snapped, Applying
      <4> QED
        BY <4>1, <4>2, Zenon
    <3> QED
      BY <3>1, <3>2, Zenon DEF Snapped
  <2> QED
    BY <2>3, <2>5, <2>6, Zenon DEF OnCourse, Applying
<1> QED
  BY <1>1, <1>2, <1>3, Zenon

(***************************************************************************)
(* _apply looks, writes, and is looked at again; what an undisturbed one   *)
(* leaves live is the stored registration.                                 *)
(***************************************************************************)
LEMMA ApplyOnCourse ==
  ASSUME ProviderInv, NEW w \in Workers, OnCourse(w),
         Existing(w) \/ Write(w) \/ (Verify(w) /\ op[w] # "get")
  PROVE  OnCourse(w)'
<1>0. Types /\ InOrder(w)
  BY Zenon DEF ProviderInv, Mine
<1>1. UNCHANGED <<desired, op, alias, value, todo>>
  BY Zenon DEF Existing, Write, Verify, local
<1>2. /\ pc[w] \in Applying /\ alias[w] \in Aliases /\ op[w] # "get"
      /\ desired[alias[w]] = value[w] /\ value[w] # None
  <2>1. /\ pc[w] \in {"existing", "create", "update", "verify"}
        /\ pc[w] = "verify" => op[w] # "get"
    BY Zenon DEF Existing, Write, Verify
  <2> QED
    BY <1>0, <2>1, ConstantsAssumption, Zenon DEF InOrder, OnCourse, Applying
<1>3. ASSUME NEW step \in {"create", "update", "verify"}, Goto(w, step),
             \A d \in Aliases : d # alias[w] => live'[d] = live[d],
             step = "create" => live'[alias[w]] = None,
             step = "update" => live'[alias[w]] # None,
             step = "verify" => live'[alias[w]] = value[w]
      PROVE  OnCourse(w)'
  <2>1. pc'[w] = step /\ step \in Applying
    BY <1>0, <1>3, Zenon DEF Goto, Types, Applying
  <2>2. ASSUME op[w] = "apply" PROVE Snapped(w)'
    <3>1. Snapped(w)
      BY <1>2, <2>2, Zenon DEF OnCourse
    <3> QED
      BY <1>1, <1>2, <1>3, <2>1, <3>1, SnappedStep, Zenon
  <2> QED
    BY <1>1, <1>2, <1>3, <2>1, <2>2, Zenon DEF OnCourse
<1>4. CASE Existing(w)
  <2>1. UNCHANGED live
    BY <1>4, Zenon DEF Existing
  <2>2. \/ live[alias[w]] = None /\ Goto(w, "create")
        \/ live[alias[w]] # None /\ Goto(w, "update")
    BY <1>4, Zenon DEF Existing
  <2> QED
    BY <1>3, <2>1, <2>2, Zenon
<1>5. CASE Write(w)
  <2>1. pc[w] \in {"create", "update"} /\ ((pc[w] = "create") = (live[alias[w]] = None))
    BY <1>5, Zenon DEF Write, OnCourse
  <2>2. Written(w) /\ Goto(w, "verify")
    BY <1>5, <2>1, Zenon DEF Write
  <2>3. live'[alias[w]] = value[w] /\ \A d \in Aliases : d # alias[w] => live'[d] = live[d]
    BY <1>0, <1>2, <2>2, Zenon DEF Written, Types
  <2> QED
    BY <1>3, <2>2, <2>3, Zenon
<1>6. CASE Verify(w)
  <2>1. live[alias[w]] = value[w] /\ UNCHANGED live
    BY <1>2, <1>6, Zenon DEF Verify, OnCourse
  <2>2. CASE op[w] # "apply"
    <3>1. pc'[w] = "idle"
      BY <1>0, <1>6, <2>2, Zenon DEF Verify, Answer, Goto, Types
    <3> QED
      BY <3>1, OffCourse, Zenon DEF Applying
  <2>3. CASE op[w] = "apply"
    <3>1. pc'[w] = "next" /\ Snapped(w)
      BY <1>0, <1>2, <1>6, <2>3, Zenon
      DEF Verify, Answer, Goto, Types, OnCourse
    <3>2. Snapped(w)'
      BY <1>1, <1>2, <2>1, <3>1, SnappedStep, Zenon
    <3> QED
      BY <3>1, <3>2, Zenon DEF OnCourse, Applying
  <2> QED
    BY <2>2, <2>3, Zenon
<1> QED
  BY <1>4, <1>5, <1>6, Zenon

(***************************************************************************)
(* Every step of a request that meets no failure keeps it on course.       *)
(***************************************************************************)
LEMMA StepOnCourse ==
  ASSUME ProviderInv, NEW w \in Workers, OnCourse(w), Step(w)
  PROVE  OnCourse(w)'
<1>0. Types /\ InOrder(w)
  BY Zenon DEF ProviderInv, Mine
<1>1. ASSUME NEW step, Goto(w, step), step \notin {"wait", "next"} \cup Applying
      PROVE  OnCourse(w)'
  <2>1. pc'[w] = step
    BY <1>0, <1>1, Zenon DEF Goto, Types
  <2> QED
    BY <1>1, <2>1, OffCourse, Zenon
<1>2. CASE Put(w)
  <2>1. /\ pc'[w] = "existing" /\ op[w] = "put" /\ alias[w] \in Aliases
        /\ UNCHANGED <<op, alias, value>>
    BY <1>0, <1>2, Zenon DEF Put, Goto, Types, InOrder, local
  <2>2. desired'[alias[w]] = value[w]
    BY <1>0, <1>2, <2>1, Zenon DEF Put, Types
  <2> QED
    BY <2>1, <2>2, Zenon DEF OnCourse
<1>3. CASE Get(w)
  <2>1. op[w] = "get" /\ UNCHANGED op
    BY <1>0, <1>3, Zenon DEF Get, InOrder
  <2>2. Goto(w, "idle") \/ Goto(w, "verify")
    BY <1>3, Zenon DEF Get
  <2>3. ASSUME Goto(w, "verify") PROVE pc'[w] = "verify"
    BY <1>0, <2>3, Zenon DEF Goto, Types
  <2> QED
    BY <1>1, <2>1, <2>2, <2>3, OffCourse, Zenon DEF Applying
<1>4. CASE ApplyDone(w)
  BY <1>1, <1>4, Zenon DEF ApplyDone, Applying
<1>5. CASE Verify(w) /\ op[w] = "get"
  BY <1>1, <1>5, Zenon DEF Verify, Answer, Applying
<1>6. CASE DeleteRead(w) \/ DeleteLook(w) \/ Remove(w) \/ Forget(w)
  <2>1. \/ Goto(w, "idle") \/ Goto(w, "look")
        \/ Goto(w, "remove") \/ Goto(w, "forget")
    BY <1>6, Zenon DEF DeleteRead, DeleteLook, Remove, Forget
  <2> QED
    BY <1>1, <2>1, Zenon DEF Applying
<1> QED
  BY <1>2, <1>3, <1>4, <1>5, <1>6, SnapshotOnCourse, ApplyOnCourse, Zenon DEF Step

(***************************************************************************)
(* A request that nothing disturbs stays on course while others work.      *)
(***************************************************************************)
LEMMA CleanStep ==
  ASSUME ProviderInv, MCNext, NEW w \in Workers, clean'[w], pc[w] # "idle"
  PROVE  /\ clean[w]
         /\ \/ Step(w)
            \/ /\ UNCHANGED <<desired, live>>
               /\ pc'[w] = pc[w] /\ op'[w] = op[w] /\ alias'[w] = alias[w]
               /\ value'[w] = value[w] /\ todo'[w] = todo[w]
<1>0. Types
  BY Zenon DEF ProviderInv
<1>1. clean[w] /\ events' = events /\ (pc'[w] # pc[w] \/ UNCHANGED <<desired, live>>)
  BY Zenon DEF MCNext
<1>2. ~Event
  <2>1. events + 1 # events
    BY <1>0 DEF Types
  <2> QED
    BY <1>1, <2>1, Zenon DEF Event
<1>3. PICK v \in Workers : Acts(v)
  BY <1>2, Zenon DEF MCNext, Next, Acts, Crash, OutOfBand
<1>4. CASE v = w
  <2>1. ~Start(w)
    BY Zenon DEF Start, Request
  <2> QED
    BY <1>1, <1>2, <1>3, <1>4, <2>1, Zenon DEF Acts, CallFails, Abort
<1>5. CASE v # w
  <2>1. /\ pc'[w] = pc[w] /\ op'[w] = op[w] /\ alias'[w] = alias[w]
        /\ value'[w] = value[w] /\ todo'[w] = todo[w]
    BY <1>0, <1>3, <1>5, ActsLocally, Zenon
  <2> QED
    BY <1>1, <2>1, Zenon
<1> QED
  BY <1>4, <1>5, Zenon

(***************************************************************************)
(* The invariant of undisturbed requests holds through every step.         *)
(***************************************************************************)
LEMMA CleanKept ==
  ASSUME ProviderInv, CleanInv, MCNext
  PROVE  CleanInv'
<1> SUFFICES ASSUME NEW w \in Workers, clean'[w], pc'[w] # "idle" PROVE OnCourse(w)'
  BY Zenon DEF CleanInv
<1>1. CASE pc[w] = "idle"
  <2>1. PICK v \in Workers : Acts(v)
    BY <1>1, Zenon DEF MCNext, Next, Acts, Crash, OutOfBand
  <2>2. v = w
    BY <1>1, <2>1, ActsLocally, Zenon DEF ProviderInv
  <2>3. Start(w)
    BY <1>1, <2>1, <2>2, ZenonT(30) DEF Acts, Step, Put, Snapshot, ApplyLock,
      ApplyNext, ApplyDone, Existing, Write, Verify, Get,
      DeleteRead, DeleteLook, Remove, Forget, CallFails, Abort
  <2>4. PICK o \in {"put", "delete", "get", "apply"} : Goto(w, o)
    BY <2>3, Zenon DEF Start, Request
  <2>5. pc'[w] = o
    BY <2>4, Zenon DEF Goto, ProviderInv, Types
  <2> QED
    BY <2>4, <2>5, OffCourse, Zenon DEF Applying
<1>2. CASE pc[w] # "idle"
  <2>1. OnCourse(w)
    BY <1>2, CleanStep, Zenon DEF CleanInv
  <2>2. CASE Step(w)
    BY <2>1, <2>2, StepOnCourse, Zenon
  <2>3. CASE /\ UNCHANGED <<desired, live>>
             /\ pc'[w] = pc[w] /\ op'[w] = op[w] /\ alias'[w] = alias[w]
             /\ value'[w] = value[w] /\ todo'[w] = todo[w]
    <3>1. Snapped(w) => Snapped(w)'
      BY <2>3, Zenon DEF Snapped
    <3> QED
      BY <2>1, <2>3, <3>1, Zenon DEF OnCourse
  <2> QED
    BY <1>2, <2>2, <2>3, CleanStep, Zenon
<1> QED
  BY <1>1, <1>2, Zenon

(***************************************************************************)
(* Whatever failures, lost answers, crashes and outside edits left behind, *)
(* a put or an apply_all that runs undisturbed leaves live exactly the     *)
(* stored registrations, the unobservable secrets included.                *)
(***************************************************************************)
THEOREM UndisturbedProviderConverges == MCSpec => UndisturbedConverges
<1> DEFINE Converges ==
      \A w \in Workers :
        (pc[w] # "idle" /\ pc'[w] = "idle" /\ clean[w] /\ clean'[w]) =>
          \A p \in Aliases :
            ((op[w] = "put" /\ p = alias[w]) \/ (op[w] = "apply" /\ desired'[p] # None)) =>
              live'[p] = desired'[p]
<1>1. MCInit => Init /\ CleanInv
  BY Zenon DEF MCInit, CleanInv
<1>2. [MCNext]_<<vars, clean>> => [Next]_vars
  BY Zenon DEF MCNext
<1>3. ASSUME ProviderInv, CleanInv, [MCNext]_<<vars, clean>> PROVE CleanInv'
  <2>1. CASE UNCHANGED <<vars, clean>>
    <3>1. UNCHANGED <<desired, live, pc, op, alias, value, todo, clean>>
      BY <2>1, Zenon DEF vars, local
    <3>2. ASSUME NEW w \in Workers, OnCourse(w) PROVE OnCourse(w)'
      <4>1. Snapped(w) => Snapped(w)'
        BY <3>1, Zenon DEF Snapped
      <4> QED
        BY <3>1, <3>2, <4>1, Zenon DEF OnCourse
    <3> QED
      BY <1>3, <3>1, <3>2, Zenon DEF CleanInv
  <2> QED
    BY <1>3, <2>1, CleanKept, Zenon
<1>4. ASSUME ProviderInv, CleanInv, MCNext PROVE Converges
  <2> SUFFICES ASSUME NEW w \in Workers, pc[w] # "idle", pc'[w] = "idle", clean'[w],
                      NEW d \in Aliases,
                      \/ op[w] = "put" /\ d = alias[w]
                      \/ op[w] = "apply" /\ desired'[d] # None
               PROVE  live'[d] = desired'[d]
    BY Zenon
  <2>0. Types /\ InOrder(w)
    BY <1>4, Zenon DEF ProviderInv, Mine
  <2>1. Step(w) /\ OnCourse(w)
    BY <1>4, CleanStep, Zenon DEF CleanInv
  <2>2. ASSUME NEW step, Goto(w, step) PROVE step = "idle"
    BY <2>0, <2>2, Zenon DEF Goto, Types
  <2>3. ASSUME NEW r, Answer(w, r) PROVE op[w] # "apply"
    BY <2>2, <2>3, Zenon DEF Answer
  <2>4. ~(Put(w) \/ Snapshot(w) \/ ApplyLock(w) \/ ApplyNext(w) \/ Existing(w))
    BY <2>2, Zenon DEF Put, Snapshot, ApplyLock, ApplyNext, Existing
  <2>5. ~Get(w)
    BY <2>0, Zenon DEF Get, InOrder
  <2>6. ~(DeleteRead(w) \/ DeleteLook(w) \/ Remove(w) \/ Forget(w))
    BY <2>0, Zenon DEF DeleteRead, DeleteLook, Remove, Forget, InOrder, Removing
  <2>7. ~Write(w)
    <3>1. pc[w] \in {"create", "update"} => ((pc[w] = "create") = (live[alias[w]] = None))
      BY <2>1, Zenon DEF OnCourse
    <3> QED
      BY <2>2, <3>1, Zenon DEF Write
  <2>8. CASE op[w] = "apply"
    <3>1. ApplyDone(w)
      BY <2>1, <2>3, <2>4, <2>5, <2>6, <2>7, <2>8, Zenon DEF Step, Verify
    <3>2. pc[w] = "next" /\ todo[w] = {} /\ UNCHANGED <<desired, live>>
      BY <3>1, Zenon DEF ApplyDone
    <3> QED
      BY <2>1, <2>8, <3>2, Zenon DEF OnCourse, Snapped, Applying
  <2>9. CASE op[w] = "put" /\ d = alias[w]
    <3>1. Verify(w)
      BY <2>0, <2>1, <2>4, <2>5, <2>6, <2>7, <2>9, Zenon DEF Step, ApplyDone, InOrder
    <3>2. pc[w] = "verify" /\ UNCHANGED <<desired, live>>
      BY <3>1, Zenon DEF Verify
    <3> QED
      BY <2>1, <2>9, <3>2, Zenon DEF OnCourse, Applying
  <2> QED
    BY <2>8, <2>9, Zenon
<1>5. ASSUME ProviderInv, CleanInv, [MCNext]_<<vars, clean>>
      PROVE  [Converges]_<<vars, clean>>
  BY <1>4, <1>5, Zenon
<1>6. MCSpec => Spec
  BY <1>1, <1>2, PTL DEF MCSpec, Spec
<1>7. MCSpec => []ProviderInv
  BY <1>6, ProviderInvariance, PTL
<1>8. MCSpec => []CleanInv
  BY <1>1, <1>3, <1>7, PTL DEF MCSpec
<1> QED
  BY <1>5, <1>7, <1>8, PTL DEF MCSpec, UndisturbedConverges
=============================================================================
