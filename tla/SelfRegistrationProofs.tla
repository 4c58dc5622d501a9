----------------------- MODULE SelfRegistrationProofs -----------------------
(***************************************************************************)
(* Proofs about SelfRegistration, for any workers, addresses and callers   *)
(* and any number of requests and faults: what becomes of the accounts     *)
(* racing requests create, and how many attempts the limiter lets through. *)
(***************************************************************************)
EXTENDS SelfRegistration, FiniteSetTheorems, TLAPS

StoreTypes ==
  /\ accounts \in [Ids -> Emails \cup {None}]
  /\ nextId \in Nat
  /\ mailed \subseteq Ids /\ reported \subseteq Ids
  /\ maker \in [Ids -> Workers \cup {None}]
  /\ spoiled \in [Ids -> SUBSET {"create", "mail", "rollback", "crash"}]
  /\ tampered \in BOOLEAN

RequestTypes ==
  /\ pc \in [Workers -> {"idle", "find", "create", "lookup", "mail", "rollback"}]
  /\ kind \in [Workers -> {"none", "register", "scim"}]
  /\ email \in [Workers -> Emails \cup {None}]
  /\ account \in [Workers -> Nat]
  /\ answer \in [Workers -> Nat]
  /\ \A w \in Workers :
       /\ pc[w] # "idle" => email[w] \in Emails
       /\ pc[w] \in {"mail", "rollback"} => account[w] \in Ids

Types == StoreTypes /\ RequestTypes

(***************************************************************************)
(* Ids are fresh, and no two accounts share an address.                    *)
(***************************************************************************)
AddressInv ==
  /\ \A i \in Ids : i >= nextId => accounts[i] = None
  /\ \A i, j \in Ids : accounts[i] # None /\ accounts[i] = accounts[j] => i = j

(***************************************************************************)
(* While nobody else deletes accounts, a request that may still delete one *)
(* made it itself and no request has reported it.                          *)
(***************************************************************************)
OwnAccount(w) ==
  /\ pc[w] \in {"mail", "rollback"} =>
       /\ accounts[account[w]] # None
       /\ maker[account[w]] = w
       /\ account[w] \notin reported
  /\ pc[w] = "lookup" =>
       \E i \in Ids : accounts[i] = email[w] /\ maker[i] = w /\ i \notin reported

OwnInv ==
  ~tampered =>
    /\ \A w \in Workers : OwnAccount(w)
    /\ \A i \in reported : accounts[i] # None

AnswerInv ==
  \A w \in Workers :
    answer[w] = 201 =>
      /\ pc[w] = "idle"
      /\ account[w] \in reported
      /\ kind[w] = "register" => account[w] \in mailed

(***************************************************************************)
(* An account without an e-mail is explained, or the request that made it  *)
(* still has it in hand.                                                   *)
(***************************************************************************)
Explained(i) ==
  \/ "create" \in spoiled[i]
  \/ "crash" \in spoiled[i]
  \/ {"mail", "rollback"} \subseteq spoiled[i]

InHand(w, i) ==
  \/ pc[w] = "lookup" /\ accounts[i] = email[w]
  \/ pc[w] = "mail" /\ account[w] = i
  \/ pc[w] = "rollback" /\ account[w] = i /\ "mail" \in spoiled[i]

OrphanInv ==
  \A i \in Ids :
    accounts[i] # None /\ i \notin mailed \cup reported =>
      \/ Explained(i)
      \/ maker[i] \in Workers /\ InHand(maker[i], i)

(***************************************************************************)
(* A request at the limiter has not looked at its address yet.             *)
(***************************************************************************)
GateInv == \A w \in Workers : caller[w] # None => pc[w] = "find"

-----------------------------------------------------------------------------
(* What a step of the service does to the registrations *)

(***************************************************************************)
(* A request over the limit is answered before it looks for its address.   *)
(***************************************************************************)
Limited(w) ==
  /\ pc[w] = "find"
  /\ Answer(w, 429)
  /\ UNCHANGED <<keycloak, kind, email, account, history, calls, events>>

(***************************************************************************)
(* Every step of the service is a step of Registration, an answer of the   *)
(* limiter, or leaves the registrations alone.                             *)
(***************************************************************************)
LEMMA ServiceStep ==
  ASSUME GateInv, [ServiceNext]_allVars
  PROVE  \/ Next
         \/ \E w \in Workers : Limited(w)
         \/ UNCHANGED vars
<1>1. ASSUME NEW w \in Workers, NEW e \in Emails, NEW k \in Callers, Register(w, e, k)
      PROVE  Next
  BY <1>1, Zenon DEF Register, Next
<1>2. ASSUME NEW w \in Workers, NEW e \in Emails, Provision(w, e)
      PROVE  Next
  BY <1>2, Zenon DEF Provision, Next
<1>3. ASSUME NEW w \in Workers, Limit(w)
      PROVE  Limited(w) \/ UNCHANGED vars
  BY <1>3 DEF Limit, Limited, GateInv, Limiter!Attempt
<1>4. ASSUME NEW w \in Workers, Handle(w) \/ Fault(w) \/ Unavailable(w)
      PROVE  Next
  BY <1>4, Zenon DEF Handle, Fault, Next
<1>5. CASE Restart
  BY <1>5, Zenon DEF Restart, Next
<1>6. CASE UNCHANGED allVars
  BY <1>6, Zenon DEF allVars
<1> QED
  BY <1>1, <1>2, <1>3, <1>4, <1>5, <1>6, Zenon DEF ServiceNext, Next

(***************************************************************************)
(* The service starts in a state that satisfies the invariants.            *)
(***************************************************************************)
LEMMA RegistrationInit ==
  ASSUME Init
  PROVE  Types /\ AddressInv /\ OwnInv /\ AnswerInv /\ OrphanInv
<1>1. Types
  BY ConstantsAssumption, Zenon DEF Init, Types, StoreTypes, RequestTypes
<1>2. AddressInv /\ OwnInv /\ AnswerInv /\ OrphanInv
  BY ConstantsAssumption
  DEF Init, AddressInv, OwnInv, OwnAccount, AnswerInv, OrphanInv
<1> QED
  BY <1>1, <1>2, Zenon

(***************************************************************************)
(* Creating an account keeps the types of the store; the id is fresh and   *)
(* so is the address.                                                      *)
(***************************************************************************)
LEMMA CreatedStore ==
  ASSUME Types, AddressInv, NEW w \in Workers, pc[w] = "create", Created(w),
         \/ UNCHANGED spoiled
         \/ spoiled' = [spoiled EXCEPT ![nextId] = {"create"}]
  PROVE  StoreTypes' /\ AddressInv'
<1>1. email[w] \in Emails /\ nextId \in Ids
  BY Zenon DEF Types, RequestTypes, Created
<1>2. \A i \in Ids : accounts[i] # email[w]
  BY Zenon DEF Created, Holders
<1>3. accounts' = [accounts EXCEPT ![nextId] = email[w]] /\ nextId' = nextId + 1
  BY Zenon DEF Created
<1>4. StoreTypes'
  BY <1>1, <1>3 DEF Types, StoreTypes, Created
<1>5. AddressInv'
  BY <1>1, <1>2, <1>3, ConstantsAssumption DEF Types, StoreTypes, AddressInv, Ids
<1> QED
  BY <1>4, <1>5, Zenon

(***************************************************************************)
(* Answering keeps the types of a request.                                 *)
(***************************************************************************)
LEMMA AnswerTypes ==
  ASSUME RequestTypes, NEW w \in Workers, NEW code \in Nat, Answer(w, code),
         kind' \in [Workers -> {"none", "register", "scim"}],
         UNCHANGED <<email, account>>
  PROVE  RequestTypes'
BY Zenon DEF RequestTypes, Answer, Goto

(***************************************************************************)
(* Every step keeps the types of the store and of the history, and         *)
(* Keycloak gives no id and no address out twice.                          *)
(***************************************************************************)
LEMMA StoreStep ==
  ASSUME Types, AddressInv,
         Next \/ (\E w \in Workers : Limited(w)) \/ UNCHANGED vars
  PROVE  StoreTypes' /\ AddressInv'
<1> USE DEF keycloak, history
<1>1. ASSUME NEW w \in Workers, NEW k \in {"register", "scim"}, NEW e \in Emails, Begin(w, k, e)
      PROVE  StoreTypes' /\ AddressInv'
  BY <1>1, ConstantsAssumption, Zenon
  DEF Begin, Goto, Types, StoreTypes, RequestTypes, AddressInv, Ids
<1>2. ASSUME NEW w \in Workers, Unavailable(w)
      PROVE  StoreTypes' /\ AddressInv'
  BY <1>2, ConstantsAssumption, Zenon
  DEF Unavailable, Answer, Goto, Types, StoreTypes, RequestTypes, AddressInv, Ids
<1>3. ASSUME NEW w \in Workers, Refuse(w)
      PROVE  StoreTypes' /\ AddressInv'
  BY <1>3, ConstantsAssumption, Zenon
  DEF Refuse, Answer, Goto, Types, StoreTypes, RequestTypes, AddressInv, Ids
<1>4. ASSUME NEW w \in Workers, Find(w)
      PROVE  StoreTypes' /\ AddressInv'
  BY <1>4, ConstantsAssumption, Zenon
  DEF Find, Answer, Goto, Holders, Types, StoreTypes, RequestTypes, AddressInv, Ids
<1>5. ASSUME NEW w \in Workers, Create(w)
      PROVE  StoreTypes' /\ AddressInv'
  <2>1. CASE UNCHANGED <<keycloak, history>>
    BY <2>1, Zenon DEF Types, StoreTypes, AddressInv, keycloak, history
  <2>2. CASE ~UNCHANGED <<keycloak, history>>
    BY <1>5, <2>2, CreatedStore, Zenon DEF Create, keycloak, history
  <2> QED
    BY <2>1, <2>2, Zenon
<1>6. ASSUME NEW w \in Workers, Lookup(w)
      PROVE  StoreTypes' /\ AddressInv'
  BY <1>6, ConstantsAssumption, Zenon
  DEF Lookup, Answer, Goto, Holders, Types, StoreTypes, RequestTypes, AddressInv, Ids
<1>7. ASSUME NEW w \in Workers, Mail(w)
      PROVE  StoreTypes' /\ AddressInv'
  <2>1. account[w] \in Ids
    BY <1>7, Zenon DEF Mail, Types, RequestTypes
  <2> QED
    BY <1>7, <2>1, Zenon DEF Mail, Types, StoreTypes, AddressInv
<1>8. ASSUME NEW w \in Workers, Rollback(w)
      PROVE  StoreTypes' /\ AddressInv'
  BY <1>8, ConstantsAssumption, Zenon
  DEF Rollback, Answer, Goto, Types, StoreTypes, RequestTypes, AddressInv, Ids
<1>9. ASSUME NEW w \in Workers, ReadFails(w)
      PROVE  StoreTypes' /\ AddressInv'
  BY <1>9, ConstantsAssumption, Zenon
  DEF ReadFails, Answer, Goto, Event, Types, StoreTypes, RequestTypes, AddressInv, Ids
<1>10. ASSUME NEW w \in Workers, CreateFails(w)
      PROVE  StoreTypes' /\ AddressInv'
  <2>1. CASE UNCHANGED <<keycloak, history>>
    BY <2>1, Zenon DEF Types, StoreTypes, AddressInv, keycloak, history
  <2>2. CASE ~UNCHANGED <<keycloak, history>>
    BY <1>10, <2>2, CreatedStore, Zenon DEF CreateFails, keycloak, history
  <2> QED
    BY <2>1, <2>2, Zenon
<1>11. ASSUME NEW w \in Workers, MailFails(w)
      PROVE  StoreTypes' /\ AddressInv'
  BY <1>11, ConstantsAssumption, Zenon
  DEF MailFails, Answer, Goto, Event, Types, StoreTypes, RequestTypes, AddressInv, Ids
<1>12. ASSUME NEW w \in Workers, RollbackFails(w)
      PROVE  StoreTypes' /\ AddressInv'
  BY <1>12, ConstantsAssumption, Zenon
  DEF RollbackFails, Answer, Goto, Event, Types, StoreTypes, RequestTypes, AddressInv, Ids
<1>13. ASSUME NEW w \in Workers, Limited(w)
      PROVE  StoreTypes' /\ AddressInv'
  BY <1>13, ConstantsAssumption, Zenon
  DEF Limited, Answer, Goto, Types, StoreTypes, RequestTypes, AddressInv, Ids
<1>14. CASE Crash
  BY <1>14, ConstantsAssumption, Zenon
  DEF Crash, Event, Types, StoreTypes, RequestTypes, AddressInv, Ids
<1>15. ASSUME NEW i \in Ids, OutsideDelete(i)
      PROVE  StoreTypes' /\ AddressInv'
  BY <1>15, ConstantsAssumption, Zenon
  DEF OutsideDelete, Event, Types, StoreTypes, RequestTypes, AddressInv, Ids
<1>16. CASE UNCHANGED vars
  BY <1>16, Zenon
  DEF vars, Types, StoreTypes, RequestTypes, AddressInv, Ids
<1> QED
  BY <1>1, <1>2, <1>3, <1>4, <1>5, <1>6, <1>7, <1>8,
     <1>9, <1>10, <1>11, <1>12, <1>13, <1>14, <1>15, <1>16, ZenonT(30) DEF Next, Step

(***************************************************************************)
(* Every step keeps the types of the requests.                             *)
(***************************************************************************)
LEMMA RequestTypesStep ==
  ASSUME Types,
         Next \/ (\E w \in Workers : Limited(w)) \/ UNCHANGED vars
  PROVE  RequestTypes'
<1> USE DEF keycloak, history
<1>1. ASSUME NEW w \in Workers, NEW k \in {"register", "scim"}, NEW e \in Emails, Begin(w, k, e)
      PROVE  RequestTypes'
  BY <1>1, ConstantsAssumption, Zenon
  DEF Begin, Goto, Types, StoreTypes, RequestTypes, Ids
<1>2. ASSUME NEW w \in Workers, Unavailable(w)
      PROVE  RequestTypes'
  BY <1>2, ConstantsAssumption
  DEF Unavailable, Answer, Goto, Types, StoreTypes, RequestTypes, Ids
<1>3. ASSUME NEW w \in Workers, Refuse(w)
      PROVE  RequestTypes'
  BY <1>3, AnswerTypes DEF Refuse, Types, RequestTypes
<1>4. ASSUME NEW w \in Workers, Find(w)
      PROVE  RequestTypes'
  <2>1. CASE Goto(w, "create") /\ UNCHANGED answer
    BY <1>4, <2>1, Zenon DEF Find, Goto, Types, RequestTypes
  <2>2. CASE Answer(w, 409)
    BY <1>4, <2>2, AnswerTypes DEF Find, Types, RequestTypes
  <2> QED
    BY <1>4, <2>1, <2>2, Zenon DEF Find
<1>5. ASSUME NEW w \in Workers, Create(w)
      PROVE  RequestTypes'
  <2>1. CASE Goto(w, "mail") /\ account' = [account EXCEPT ![w] = nextId] /\ Created(w)
    BY <1>5, <2>1 DEF Create, Created, Goto, Types, RequestTypes, Ids
  <2>2. CASE Goto(w, "lookup") /\ UNCHANGED <<account, answer>>
    BY <1>5, <2>2, Zenon DEF Create, Goto, Types, RequestTypes
  <2>3. CASE (Answer(w, 409) \/ Answer(w, 500)) /\ UNCHANGED account
    BY <1>5, <2>3, AnswerTypes DEF Create, Types, RequestTypes
  <2> QED
    BY <1>5, <2>1, <2>2, <2>3, Zenon DEF Create
<1>6. ASSUME NEW w \in Workers, Lookup(w)
      PROVE  RequestTypes'
  <2>1. CASE \E i \in Ids : account' = [account EXCEPT ![w] = i] /\ Goto(w, "mail") /\ UNCHANGED answer
    BY <1>6, <2>1 DEF Lookup, Goto, Types, RequestTypes, Ids
  <2>2. CASE (Answer(w, 502) \/ Answer(w, 500)) /\ UNCHANGED account
    BY <1>6, <2>2, AnswerTypes DEF Lookup, Types, RequestTypes
  <2> QED
    BY <1>6, <2>1, <2>2, Zenon DEF Lookup, Holders
<1>7. ASSUME NEW w \in Workers, Mail(w)
      PROVE  RequestTypes'
  <2>1. CASE Goto(w, "rollback") /\ UNCHANGED answer
    BY <1>7, <2>1, Zenon DEF Mail, Goto, Types, RequestTypes
  <2>2. CASE Answer(w, 201) \/ Answer(w, 500)
    BY <1>7, <2>2, AnswerTypes DEF Mail, Types, RequestTypes
  <2> QED
    BY <1>7, <2>1, <2>2, Zenon DEF Mail
<1>8. ASSUME NEW w \in Workers, Rollback(w)
      PROVE  RequestTypes'
  BY <1>8, ConstantsAssumption
  DEF Rollback, Answer, Goto, Types, StoreTypes, RequestTypes, Ids
<1>9. ASSUME NEW w \in Workers, ReadFails(w)
      PROVE  RequestTypes'
  BY <1>9, ConstantsAssumption
  DEF ReadFails, Answer, Goto, Event, Types, StoreTypes, RequestTypes, Ids
<1>10. ASSUME NEW w \in Workers, CreateFails(w)
      PROVE  RequestTypes'
  BY <1>10, ConstantsAssumption
  DEF CreateFails, Answer, Goto, Created, Holders, Event, Types, StoreTypes, RequestTypes, Ids
<1>11. ASSUME NEW w \in Workers, MailFails(w)
      PROVE  RequestTypes'
  BY <1>11, ConstantsAssumption, Zenon
  DEF MailFails, Answer, Goto, Event, Types, StoreTypes, RequestTypes, Ids
<1>12. ASSUME NEW w \in Workers, RollbackFails(w)
      PROVE  RequestTypes'
  BY <1>12, ConstantsAssumption
  DEF RollbackFails, Answer, Goto, Event, Types, StoreTypes, RequestTypes, Ids
<1>13. ASSUME NEW w \in Workers, Limited(w)
      PROVE  RequestTypes'
  BY <1>13, ConstantsAssumption
  DEF Limited, Answer, Goto, Types, StoreTypes, RequestTypes, Ids
<1>14. CASE Crash
  BY <1>14, ConstantsAssumption, Zenon
  DEF Crash, Event, Types, StoreTypes, RequestTypes, Ids
<1>15. ASSUME NEW i \in Ids, OutsideDelete(i)
      PROVE  RequestTypes'
  BY <1>15, ConstantsAssumption, Zenon
  DEF OutsideDelete, Event, Types, StoreTypes, RequestTypes, Ids
<1>16. CASE UNCHANGED vars
  BY <1>16, Zenon
  DEF vars, Types, StoreTypes, RequestTypes, Ids
<1> QED
  BY <1>1, <1>2, <1>3, <1>4, <1>5, <1>6, <1>7, <1>8,
     <1>9, <1>10, <1>11, <1>12, <1>13, <1>14, <1>15, <1>16, ZenonT(30) DEF Next, Step

(***************************************************************************)
(* While nobody else deletes accounts, no step takes away an account       *)
(* another request reported or has in hand.                                *)
(***************************************************************************)
LEMMA OwnStep ==
  ASSUME Types, AddressInv, OwnInv,
         Next \/ (\E w \in Workers : Limited(w)) \/ UNCHANGED vars
  PROVE  OwnInv'
<1> USE DEF keycloak, history
<1>1. ASSUME NEW w \in Workers, NEW k \in {"register", "scim"}, NEW e \in Emails, Begin(w, k, e)
      PROVE  OwnInv'
  BY <1>1, ConstantsAssumption
  DEF Begin, Goto, Types, StoreTypes, RequestTypes, OwnInv, OwnAccount
<1>2. ASSUME NEW w \in Workers, Unavailable(w)
      PROVE  OwnInv'
  BY <1>2, ConstantsAssumption
  DEF Unavailable, Answer, Goto, Types, StoreTypes, RequestTypes, OwnInv, OwnAccount
<1>3. ASSUME NEW w \in Workers, Refuse(w)
      PROVE  OwnInv'
  BY <1>3, ConstantsAssumption
  DEF Refuse, Answer, Goto, Types, StoreTypes, RequestTypes, OwnInv, OwnAccount
<1>4. ASSUME NEW w \in Workers, Find(w)
      PROVE  OwnInv'
  BY <1>4, ConstantsAssumption
  DEF Find, Answer, Goto, Holders, Types, StoreTypes, RequestTypes, OwnInv, OwnAccount
<1>5. ASSUME NEW w \in Workers, Create(w)
      PROVE  OwnInv'
  <2>1. CASE UNCHANGED <<keycloak, history>>
    BY <1>5, <2>1 DEF Create, Answer, Goto, Types, StoreTypes, RequestTypes, OwnInv, OwnAccount, Created
  <2>2. CASE Created(w)
    <3> SUFFICES ASSUME ~tampered
                 PROVE  OwnInv'
      BY <2>2, Zenon DEF Created, OwnInv
    <3>1. /\ nextId \in Ids /\ accounts[nextId] = None /\ email[w] \in Emails /\ nextId \notin reported
          /\ accounts' = [accounts EXCEPT ![nextId] = email[w]]
          /\ maker' = [maker EXCEPT ![nextId] = w]
          /\ UNCHANGED <<email, reported>>
      BY <1>5, <2>2 DEF Create, Created, Types, StoreTypes, RequestTypes, AddressInv, OwnInv
    <3>2. ASSUME NEW v \in Workers, v # w PROVE OwnAccount(v)'
      BY <1>5, <3>1, <3>2, ConstantsAssumption
      DEF Create, Answer, Goto, Types, StoreTypes, RequestTypes, OwnInv, OwnAccount
    <3>3. OwnAccount(w)'
      BY <1>5, <2>2, <3>1, ConstantsAssumption DEF Create, Answer, Goto, Created, Types, StoreTypes, RequestTypes, OwnAccount
    <3>4. \A i \in reported' : accounts'[i] # None
      BY <3>1, ConstantsAssumption, Zenon DEF OwnInv, Types, StoreTypes
    <3> QED
      BY <3>2, <3>3, <3>4, Zenon DEF OwnInv
  <2> QED
    BY <1>5, <2>1, <2>2, Zenon DEF Create
<1>6. ASSUME NEW w \in Workers, Lookup(w)
      PROVE  OwnInv'
  <2> SUFFICES ASSUME ~tampered
               PROVE  OwnInv'
    BY <1>6, Zenon DEF Lookup, OwnInv
  <2>1. PICK i \in Ids : accounts[i] = email[w] /\ maker[i] = w /\ i \notin reported
    BY <1>6, Zenon DEF Lookup, OwnInv, OwnAccount
  <2>2. /\ account' = [account EXCEPT ![w] = i] /\ pc' = [pc EXCEPT ![w] = "mail"]
        /\ UNCHANGED <<accounts, maker, reported, email>>
    BY <1>6, <2>1, ConstantsAssumption DEF Lookup, Goto, Holders, Types, RequestTypes, AddressInv
  <2> QED
    BY <1>6, <2>1, <2>2, ConstantsAssumption DEF Lookup, Types, RequestTypes, OwnInv, OwnAccount
<1>7. ASSUME NEW w \in Workers, Mail(w)
      PROVE  OwnInv'
  BY <1>7, ConstantsAssumption
  DEF Mail, Answer, Goto, Types, StoreTypes, RequestTypes, OwnInv, OwnAccount
<1>8. ASSUME NEW w \in Workers, Rollback(w)
      PROVE  OwnInv'
  BY <1>8, ConstantsAssumption
  DEF Rollback, Answer, Goto, Types, StoreTypes, RequestTypes, OwnInv, OwnAccount
<1>9. ASSUME NEW w \in Workers, ReadFails(w)
      PROVE  OwnInv'
  BY <1>9, ConstantsAssumption
  DEF ReadFails, Answer, Goto, Event, Types, StoreTypes, RequestTypes, OwnInv, OwnAccount
<1>10. ASSUME NEW w \in Workers, CreateFails(w)
      PROVE  OwnInv'
  <2>1. CASE UNCHANGED <<keycloak, history>>
    BY <1>10, <2>1 DEF CreateFails, Answer, Goto, Types, StoreTypes, RequestTypes, OwnInv, OwnAccount, Created
  <2>2. CASE Created(w)
    <3> SUFFICES ASSUME ~tampered
                 PROVE  OwnInv'
      BY <2>2, Zenon DEF Created, OwnInv
    <3>1. /\ nextId \in Ids /\ accounts[nextId] = None /\ email[w] \in Emails /\ nextId \notin reported
          /\ accounts' = [accounts EXCEPT ![nextId] = email[w]]
          /\ maker' = [maker EXCEPT ![nextId] = w]
          /\ UNCHANGED <<email, reported>>
      BY <1>10, <2>2 DEF CreateFails, Created, Types, StoreTypes, RequestTypes, AddressInv, OwnInv
    <3>2. ASSUME NEW v \in Workers, v # w PROVE OwnAccount(v)'
      BY <1>10, <3>1, <3>2, ConstantsAssumption
      DEF CreateFails, Answer, Goto, Types, StoreTypes, RequestTypes, OwnInv, OwnAccount
    <3>3. OwnAccount(w)'
      BY <1>10, <2>2, <3>1, ConstantsAssumption DEF CreateFails, Answer, Goto, Created, Types, StoreTypes, RequestTypes, OwnAccount
    <3>4. \A i \in reported' : accounts'[i] # None
      BY <3>1, ConstantsAssumption, Zenon DEF OwnInv, Types, StoreTypes
    <3> QED
      BY <3>2, <3>3, <3>4, Zenon DEF OwnInv
  <2> QED
    BY <1>10, <2>1, <2>2, Zenon DEF CreateFails
<1>11. ASSUME NEW w \in Workers, MailFails(w)
      PROVE  OwnInv'
  BY <1>11, ConstantsAssumption
  DEF MailFails, Answer, Goto, Event, Types, StoreTypes, RequestTypes, OwnInv, OwnAccount
<1>12. ASSUME NEW w \in Workers, RollbackFails(w)
      PROVE  OwnInv'
  BY <1>12, ConstantsAssumption
  DEF RollbackFails, Answer, Goto, Event, Types, StoreTypes, RequestTypes, OwnInv, OwnAccount
<1>13. ASSUME NEW w \in Workers, Limited(w)
      PROVE  OwnInv'
  BY <1>13, ConstantsAssumption
  DEF Limited, Answer, Goto, Types, StoreTypes, RequestTypes, OwnInv, OwnAccount
<1>14. CASE Crash
  BY <1>14, ConstantsAssumption, Zenon
  DEF Crash, Event, Types, StoreTypes, RequestTypes, OwnInv, OwnAccount
<1>15. ASSUME NEW i \in Ids, OutsideDelete(i)
      PROVE  OwnInv'
  BY <1>15, ConstantsAssumption, Zenon
  DEF OutsideDelete, Event, Types, StoreTypes, RequestTypes, OwnInv, OwnAccount
<1>16. CASE UNCHANGED vars
  BY <1>16, Zenon
  DEF vars, Types, StoreTypes, RequestTypes, OwnInv, OwnAccount
<1> QED
  BY <1>1, <1>2, <1>3, <1>4, <1>5, <1>6, <1>7, <1>8,
     <1>9, <1>10, <1>11, <1>12, <1>13, <1>14, <1>15, <1>16, ZenonT(30) DEF Next, Step

(***************************************************************************)
(* A request answers 201 only for an account it reports, a registration    *)
(* only after its e-mail.                                                  *)
(***************************************************************************)
LEMMA AnswerStep ==
  ASSUME Types, AnswerInv,
         Next \/ (\E w \in Workers : Limited(w)) \/ UNCHANGED vars
  PROVE  AnswerInv'
<1> USE DEF keycloak, history
<1>1. ASSUME NEW w \in Workers, NEW k \in {"register", "scim"}, NEW e \in Emails, Begin(w, k, e)
      PROVE  AnswerInv'
  BY <1>1
  DEF Begin, Goto, Types, StoreTypes, RequestTypes, AnswerInv
<1>2. ASSUME NEW w \in Workers, Unavailable(w)
      PROVE  AnswerInv'
  BY <1>2
  DEF Unavailable, Answer, Goto, Types, StoreTypes, RequestTypes, AnswerInv
<1>3. ASSUME NEW w \in Workers, Refuse(w)
      PROVE  AnswerInv'
  BY <1>3
  DEF Refuse, Answer, Goto, Types, StoreTypes, RequestTypes, AnswerInv
<1>4. ASSUME NEW w \in Workers, Find(w)
      PROVE  AnswerInv'
  BY <1>4
  DEF Find, Answer, Goto, Holders, Types, StoreTypes, RequestTypes, AnswerInv
<1>5. ASSUME NEW w \in Workers, Create(w)
      PROVE  AnswerInv'
  BY <1>5
  DEF Create, Answer, Goto, Created, Holders, Types, StoreTypes, RequestTypes, AnswerInv
<1>6. ASSUME NEW w \in Workers, Lookup(w)
      PROVE  AnswerInv'
  BY <1>6
  DEF Lookup, Answer, Goto, Holders, Types, StoreTypes, RequestTypes, AnswerInv
<1>7. ASSUME NEW w \in Workers, Mail(w)
      PROVE  AnswerInv'
  BY <1>7
  DEF Mail, Answer, Goto, Types, StoreTypes, RequestTypes, AnswerInv
<1>8. ASSUME NEW w \in Workers, Rollback(w)
      PROVE  AnswerInv'
  BY <1>8
  DEF Rollback, Answer, Goto, Types, StoreTypes, RequestTypes, AnswerInv
<1>9. ASSUME NEW w \in Workers, ReadFails(w)
      PROVE  AnswerInv'
  BY <1>9
  DEF ReadFails, Answer, Goto, Event, Types, StoreTypes, RequestTypes, AnswerInv
<1>10. ASSUME NEW w \in Workers, CreateFails(w)
      PROVE  AnswerInv'
  BY <1>10
  DEF CreateFails, Answer, Goto, Created, Holders, Event, Types, StoreTypes, RequestTypes, AnswerInv
<1>11. ASSUME NEW w \in Workers, MailFails(w)
      PROVE  AnswerInv'
  BY <1>11
  DEF MailFails, Answer, Goto, Event, Types, StoreTypes, RequestTypes, AnswerInv
<1>12. ASSUME NEW w \in Workers, RollbackFails(w)
      PROVE  AnswerInv'
  BY <1>12
  DEF RollbackFails, Answer, Goto, Event, Types, StoreTypes, RequestTypes, AnswerInv
<1>13. ASSUME NEW w \in Workers, Limited(w)
      PROVE  AnswerInv'
  BY <1>13
  DEF Limited, Answer, Goto, Types, StoreTypes, RequestTypes, AnswerInv
<1>14. CASE Crash
  BY <1>14, Zenon
  DEF Crash, Event, Types, StoreTypes, RequestTypes, AnswerInv
<1>15. ASSUME NEW i \in Ids, OutsideDelete(i)
      PROVE  AnswerInv'
  BY <1>15, Zenon
  DEF OutsideDelete, Event, Types, StoreTypes, RequestTypes, AnswerInv
<1>16. CASE UNCHANGED vars
  BY <1>16, ZenonT(30)
  DEF vars, Types, StoreTypes, RequestTypes, AnswerInv
<1> QED
  BY <1>1, <1>2, <1>3, <1>4, <1>5, <1>6, <1>7, <1>8,
     <1>9, <1>10, <1>11, <1>12, <1>13, <1>14, <1>15, <1>16, ZenonT(30) DEF Next, Step

(***************************************************************************)
(* No step leaves an account without an e-mail behind unexplained.         *)
(***************************************************************************)
LEMMA OrphanStep ==
  ASSUME Types, AddressInv, OrphanInv,
         Next \/ (\E w \in Workers : Limited(w)) \/ UNCHANGED vars
  PROVE  OrphanInv'
<1> USE DEF keycloak, history
<1>1. ASSUME NEW w \in Workers, NEW k \in {"register", "scim"}, NEW e \in Emails, Begin(w, k, e)
      PROVE  OrphanInv'
  BY <1>1, ConstantsAssumption, Zenon
  DEF Begin, Goto, Types, StoreTypes, RequestTypes, AddressInv, OrphanInv, InHand, Explained, Ids
<1>2. ASSUME NEW w \in Workers, Unavailable(w)
      PROVE  OrphanInv'
  BY <1>2, ConstantsAssumption, Zenon
  DEF Unavailable, Answer, Goto, Types, StoreTypes, RequestTypes, AddressInv, OrphanInv, InHand, Explained, Ids
<1>3. ASSUME NEW w \in Workers, Refuse(w)
      PROVE  OrphanInv'
  BY <1>3, ConstantsAssumption
  DEF Refuse, Answer, Goto, Types, StoreTypes, RequestTypes, AddressInv, OrphanInv, InHand, Explained, Ids
<1>4. ASSUME NEW w \in Workers, Find(w)
      PROVE  OrphanInv'
  BY <1>4, ConstantsAssumption
  DEF Find, Answer, Goto, Holders, Types, StoreTypes, RequestTypes, AddressInv, OrphanInv, InHand, Explained, Ids
<1>5. ASSUME NEW w \in Workers, Create(w)
      PROVE  OrphanInv'
  BY <1>5, ConstantsAssumption, SMTT(30)
  DEF Create, Answer, Goto, Created, Holders, Types, StoreTypes, RequestTypes, AddressInv, OrphanInv, InHand, Explained, Ids
<1>6. ASSUME NEW w \in Workers, Lookup(w)
      PROVE  OrphanInv'
  <2> SUFFICES ASSUME NEW i \in Ids, accounts[i] # None, i \notin mailed \cup reported,
                      ~Explained(i)
               PROVE  maker[i] \in Workers /\ InHand(maker[i], i)'
    BY <1>6, Zenon DEF Lookup, OrphanInv, Explained
  <2>1. maker[i] \in Workers /\ InHand(maker[i], i)
    BY Zenon DEF OrphanInv
  <2>2. CASE maker[i] # w
    BY <1>6, <2>1, <2>2, Zenon DEF Lookup, Answer, Goto, InHand, Types, RequestTypes
  <2>3. CASE maker[i] = w
    <3>1. Holders(email[w]) = {i}
      BY <1>6, <2>1, <2>3, Zenon DEF Lookup, InHand, Holders, AddressInv
    <3> QED
      BY <1>6, <2>1, <2>3, <3>1, Zenon DEF Lookup, Goto, InHand, Types, RequestTypes
  <2> QED
    BY <2>2, <2>3, Zenon
<1>7. ASSUME NEW w \in Workers, Mail(w)
      PROVE  OrphanInv'
  BY <1>7, ConstantsAssumption
  DEF Mail, Answer, Goto, Types, StoreTypes, RequestTypes, AddressInv, OrphanInv, InHand, Explained, Ids
<1>8. ASSUME NEW w \in Workers, Rollback(w)
      PROVE  OrphanInv'
  BY <1>8, ConstantsAssumption
  DEF Rollback, Answer, Goto, Types, StoreTypes, RequestTypes, AddressInv, OrphanInv, InHand, Explained, Ids
<1>9. ASSUME NEW w \in Workers, ReadFails(w)
      PROVE  OrphanInv'
  BY <1>9, ConstantsAssumption, Zenon
  DEF ReadFails, Answer, Goto, Event, Types, StoreTypes, RequestTypes, AddressInv, OrphanInv, InHand, Explained, Ids
<1>10. ASSUME NEW w \in Workers, CreateFails(w)
      PROVE  OrphanInv'
  BY <1>10, ConstantsAssumption, SMTT(30)
  DEF CreateFails, Answer, Goto, Created, Holders, Event, Types, StoreTypes, RequestTypes, AddressInv, OrphanInv, InHand, Explained, Ids
<1>11. ASSUME NEW w \in Workers, MailFails(w)
      PROVE  OrphanInv'
  BY <1>11, ConstantsAssumption
  DEF MailFails, Answer, Goto, Event, Types, StoreTypes, RequestTypes, AddressInv, OrphanInv, InHand, Explained, Ids
<1>12. ASSUME NEW w \in Workers, RollbackFails(w)
      PROVE  OrphanInv'
  BY <1>12, ConstantsAssumption
  DEF RollbackFails, Answer, Goto, Event, Types, StoreTypes, RequestTypes, AddressInv, OrphanInv, InHand, Explained, Ids
<1>13. ASSUME NEW w \in Workers, Limited(w)
      PROVE  OrphanInv'
  BY <1>13, ConstantsAssumption, Zenon
  DEF Limited, Answer, Goto, Types, StoreTypes, RequestTypes, AddressInv, OrphanInv, InHand, Explained, Ids
<1>14. CASE Crash
  <2> SUFFICES ASSUME NEW i \in Ids, accounts[i] # None, i \notin mailed \cup reported
               PROVE  Explained(i)'
    BY <1>14, Zenon DEF Crash, OrphanInv
  <2>1. CASE Explained(i)
    BY <1>14, <2>1, Zenon DEF Crash, Explained
  <2>2. CASE ~Explained(i)
    <3>1. maker[i] \in Workers /\ pc[maker[i]] # "idle" /\ maker[i] # None
      BY <2>2, ConstantsAssumption, Zenon DEF OrphanInv, InHand
    <3> QED
      BY <1>14, <3>1, Zenon DEF Crash, Explained
  <2> QED
    BY <2>1, <2>2, Zenon
<1>15. ASSUME NEW i \in Ids, OutsideDelete(i)
      PROVE  OrphanInv'
  BY <1>15, ConstantsAssumption
  DEF OutsideDelete, Event, Types, StoreTypes, RequestTypes, AddressInv, OrphanInv, InHand, Explained, Ids
<1>16. CASE UNCHANGED vars
  BY <1>16, Zenon
  DEF vars, Types, StoreTypes, RequestTypes, AddressInv, OrphanInv, InHand, Explained, Ids
<1> QED
  BY <1>1, <1>2, <1>3, <1>4, <1>5, <1>6, <1>7, <1>8,
     <1>9, <1>10, <1>11, <1>12, <1>13, <1>14, <1>15, <1>16, ZenonT(30) DEF Next, Step

(***************************************************************************)
(* A request waits at the limiter only before it looks for its address.    *)
(***************************************************************************)
LEMMA GateStep ==
  ASSUME Types, GateInv, caller \in [Workers -> Callers \cup {None}], [ServiceNext]_allVars
  PROVE  GateInv'
<1> USE DEF GateInv, Types, RequestTypes
<1>1. ASSUME NEW w \in Workers, NEW e \in Emails, NEW k \in Callers, Register(w, e, k)
      PROVE  GateInv'
  BY <1>1, Zenon DEF Register, Begin, Goto, Limiter!ReadClock
<1>2. ASSUME NEW w \in Workers, NEW e \in Emails, Provision(w, e)
      PROVE  GateInv'
  BY <1>2, Zenon DEF Provision, Begin, Goto, limiterVars
<1>3. ASSUME NEW w \in Workers, Unavailable(w), UNCHANGED limiterVars
      PROVE  GateInv'
  BY <1>3, Zenon DEF Unavailable, Answer, Goto, limiterVars
<1>4. ASSUME NEW w \in Workers, Limit(w)
      PROVE  GateInv'
  BY <1>4 DEF Limit, Limiter!Attempt, Answer, Goto, vars
<1>5. ASSUME NEW w \in Workers, Handle(w) \/ Fault(w)
      PROVE  GateInv'
  <2>1. PastLimiter(w) /\ UNCHANGED caller
    BY <1>5, Zenon DEF Handle, Fault, limiterVars
  <2>2. \E step : pc' = [pc EXCEPT ![w] = step]
    BY <1>5, ZenonT(30) DEF Handle, Fault, Step, Refuse, Find, Create, Lookup, Mail, Rollback,
       ReadFails, CreateFails, MailFails, RollbackFails, Answer, Goto
  <2> QED
    BY <2>1, <2>2, Zenon DEF PastLimiter
<1>6. CASE Restart
  BY <1>6, Zenon DEF Restart
<1>7. ASSUME NEW i \in Ids, OutsideDelete(i), UNCHANGED limiterVars
      PROVE  GateInv'
  BY <1>7, Zenon DEF OutsideDelete, limiterVars
<1>8. CASE Limiter!Tick /\ UNCHANGED vars
  BY <1>8, Zenon DEF Limiter!Tick, vars
<1>9. CASE UNCHANGED allVars
  BY <1>9, Zenon DEF allVars, vars, limiterVars
<1> QED
  BY <1>1, <1>2, <1>3, <1>4, <1>5, <1>6, <1>7, <1>8, <1>9, ZenonT(30) DEF ServiceNext

-----------------------------------------------------------------------------
(* The limiter *)

Entry == [caller : Callers, at : Nat, window : Nat, ok : BOOLEAN]

LimiterTypes ==
  /\ clock \in Nat
  /\ start \in [Callers -> Nat \cup {None}]
  /\ count \in [Callers -> Nat]
  /\ caller \in [Workers -> Callers \cup {None}]
  /\ now \in [Workers -> Nat]
  /\ log \in Seq(Entry)

(***************************************************************************)
(* A reading is no older than Stall when it is used.                       *)
(***************************************************************************)
ReadingInv ==
  \A w \in Workers : now[w] <= clock /\ (caller[w] # None => clock <= now[w] + Stall)

(***************************************************************************)
(* The windows of one caller are more than Window apart, and an attempt    *)
(* counted in an earlier window was made at most Stall after the later     *)
(* window's first reading.                                                 *)
(***************************************************************************)
Earlier(entry, s) ==
  entry.window < s =>
    entry.window + Window < s /\ entry.at <= s + Stall

WindowInv ==
  /\ \A k \in Callers : start[k] # None => start[k] <= clock
  /\ \A i \in DOMAIN log :
       /\ log[i].window <= log[i].at /\ log[i].at <= clock
       /\ start[log[i].caller] # None
       /\ log[i].window <= start[log[i].caller]
       /\ Earlier(log[i], start[log[i].caller])
  /\ \A i, j \in DOMAIN log :
       log[i].caller = log[j].caller => Earlier(log[i], log[j].window)

AdmittedIn(k, s) == {i \in Limiter!Admissions(k) : log[i].window = s}

(***************************************************************************)
(* No window admits more than the limit.                                   *)
(***************************************************************************)
CountInv ==
  /\ \A k \in Callers : \A s \in Nat : Cardinality(AdmittedIn(k, s)) <= MaxAttempts
  /\ \A k \in Callers : start[k] # None => Cardinality(AdmittedIn(k, start[k])) <= count[k]

(***************************************************************************)
(* What a step of the service does to the limiter.                         *)
(***************************************************************************)
Cleared ==
  /\ start' = [k \in Callers |-> None]
  /\ count' = [k \in Callers |-> 0]
  /\ caller' = [w \in Workers |-> None]
  /\ now' = [w \in Workers |-> 0]
  /\ log' = <<>>
  /\ UNCHANGED clock

LimiterStep ==
  \/ \E w \in Workers, k \in Callers : Limiter!ReadClock(w, k)
  \/ \E w \in Workers : Limiter!Attempt(w)
  \/ Limiter!Tick
  \/ Cleared
  \/ UNCHANGED limiterVars

(***************************************************************************)
(* A step of the service reads the clock, counts an attempt, lets time     *)
(* pass, clears the limiter or leaves it alone.                            *)
(***************************************************************************)
LEMMA ServiceLimiterStep ==
  ASSUME [ServiceNext]_allVars
  PROVE  LimiterStep
BY ZenonT(30) DEF ServiceNext, LimiterStep, Register, Provision, Limit, Handle, Fault, Restart,
   Cleared, allVars

LimiterInv == LimiterTypes /\ ReadingInv /\ WindowInv /\ CountInv

(***************************************************************************)
(* The locked block appends one attempt, in the caller's window or in a    *)
(* new one that starts more than Window later.                             *)
(***************************************************************************)
LEMMA AttemptEntry ==
  ASSUME LimiterTypes, ReadingInv, WindowInv, NEW w \in Workers, Limiter!Attempt(w)
  PROVE  \E k \in Callers, s \in Nat, n \in Nat :
           /\ start' = [start EXCEPT ![k] = s]
           /\ count' = [count EXCEPT ![k] = n]
           /\ log' = Append(log, [caller |-> k, at |-> clock, window |-> s, ok |-> n <= MaxAttempts])
           /\ s <= clock
           /\ \/ s = start[k] /\ n = count[k] + 1
              \/ /\ clock <= s + Stall /\ n = 1
                 /\ start[k] # None => start[k] + Window < s
<1> DEFINE k == caller[w]
           s == IF Limiter!Expired(k, now[w]) THEN now[w] ELSE start[k]
           n == IF Limiter!Expired(k, now[w]) THEN 1 ELSE count[k] + 1
<1>1. k \in Callers /\ now[w] \in Nat /\ now[w] <= clock /\ clock <= now[w] + Stall
  BY Zenon DEF LimiterTypes, ReadingInv, Limiter!Attempt
<1>2. start[k] \in Nat \cup {None} /\ count[k] \in Nat
  BY <1>1, Zenon DEF LimiterTypes
<1>3. s \in Nat /\ n \in Nat /\ s <= clock
  BY <1>1, <1>2 DEF Limiter!Expired, WindowInv
<1>4. \/ s = start[k] /\ n = count[k] + 1
      \/ clock <= s + Stall /\ n = 1 /\ (start[k] # None => start[k] + Window < s)
  BY <1>1, <1>2, LimiterAssumption DEF Limiter!Expired
<1>5. /\ start' = [start EXCEPT ![k] = s]
      /\ count' = [count EXCEPT ![k] = n]
      /\ log' = Append(log, [caller |-> k, at |-> clock, window |-> s, ok |-> n <= MaxAttempts])
  BY Zenon DEF Limiter!Attempt, Limiter!Admitted
<1> HIDE DEF k, s, n
<1> QED
  BY <1>1, <1>3, <1>4, <1>5, Zenon

(***************************************************************************)
(* Counting an attempt keeps the windows of a caller apart and no window   *)
(* over the limit.                                                         *)
(***************************************************************************)
LEMMA AttemptInv ==
  ASSUME LimiterInv, NEW w \in Workers, Limiter!Attempt(w)
  PROVE  LimiterInv'
<1>1. PICK k \in Callers, s \in Nat, n \in Nat :
        /\ start' = [start EXCEPT ![k] = s]
        /\ count' = [count EXCEPT ![k] = n]
        /\ log' = Append(log, [caller |-> k, at |-> clock, window |-> s, ok |-> n <= MaxAttempts])
        /\ s <= clock
        /\ \/ s = start[k] /\ n = count[k] + 1
           \/ /\ clock <= s + Stall /\ n = 1
              /\ start[k] # None => start[k] + Window < s
  BY AttemptEntry, Zenon DEF LimiterInv
<1> DEFINE entry == [caller |-> k, at |-> clock, window |-> s, ok |-> n <= MaxAttempts]
           last == Len(log) + 1
<1>2. log \in Seq(Entry) /\ clock \in Nat /\ start \in [Callers -> Nat \cup {None}]
      /\ count \in [Callers -> Nat]
  BY Zenon DEF LimiterInv, LimiterTypes
<1>3. UNCHANGED <<clock, now>> /\ caller' = [caller EXCEPT ![w] = None]
  BY Zenon DEF Limiter!Attempt
<1>4. entry \in Entry
  BY <1>2 DEF Entry
<1>5. /\ DOMAIN log = 1 .. Len(log) /\ Len(log) \in Nat
      /\ DOMAIN log' = DOMAIN log \cup {last} /\ last \notin DOMAIN log
      /\ \A i \in DOMAIN log : log'[i] = log[i] /\ log[i] \in Entry
      /\ log'[last] = entry
      /\ log' \in Seq(Entry)
  BY <1>1, <1>2, <1>4
<1> HIDE DEF last
<1>6. LimiterTypes'
  BY <1>1, <1>2, <1>3, <1>5, Zenon DEF LimiterInv, LimiterTypes
<1>7. ReadingInv'
  BY <1>3, Zenon DEF LimiterInv, LimiterTypes, ReadingInv
<1>w. /\ s <= clock
      /\ s = start[k] \/ (clock <= s + Stall /\ (start[k] # None => start[k] + Window < s))
  BY <1>1, Zenon
<1>8. start[k] # None => start[k] \in Nat /\ start[k] <= s
  BY <1>1, <1>2, LimiterAssumption
<1>9. \A i \in DOMAIN log : log[i].caller = k =>
        log[i].window <= s /\ Earlier(log[i], s) /\ start[k] # None
  <2> SUFFICES ASSUME NEW i \in DOMAIN log, log[i].caller = k
               PROVE  log[i].window <= s /\ Earlier(log[i], s) /\ start[k] # None
    OBVIOUS
  <2>1. /\ log[i].window \in Nat /\ log[i].at \in Nat /\ log[i].at <= clock
        /\ start[k] # None /\ log[i].window <= start[k] /\ Earlier(log[i], start[k])
    BY <1>5, Zenon DEF LimiterInv, WindowInv, Entry
  <2>2. CASE s = start[k]
    BY <2>1, <2>2, Zenon
  <2>3. CASE clock <= s + Stall /\ start[k] + Window < s
    <3>1. log[i].window + Window < s /\ log[i].at <= s + Stall /\ log[i].window <= s
      <4>1. start[k] \in Nat /\ clock \in Nat /\ Window \in Nat /\ Stall \in Nat
        BY <1>2, <1>8, <2>1, LimiterAssumption
      <4> QED
        BY <2>1, <2>3, <4>1
    <3> QED
      BY <2>1, <3>1, Zenon DEF Earlier
  <2> QED
    BY <1>w, <2>1, <2>2, <2>3, Zenon
<1>10. WindowInv'
  <2>1. \A c \in Callers : start'[c] # None => start'[c] <= clock'
    BY <1>1, <1>2, <1>3, Zenon DEF LimiterInv, WindowInv
  <2>2. entry.window = s /\ entry.at = clock /\ entry.caller = k
    OBVIOUS
  <2> HIDE DEF entry
  <2>3. ASSUME NEW i \in DOMAIN log'
        PROVE  /\ log'[i].window <= log'[i].at /\ log'[i].at <= clock'
               /\ start'[log'[i].caller] # None
               /\ log'[i].window <= start'[log'[i].caller]
               /\ Earlier(log'[i], start'[log'[i].caller])
    <3>1. CASE i = last
      BY <1>1, <1>2, <1>3, <1>5, <2>2, <3>1, LimiterAssumption DEF Earlier
    <3>2. CASE i \in DOMAIN log /\ log[i].caller = k
      BY <1>1, <1>2, <1>3, <1>5, <1>9, <3>2, LimiterAssumption, Zenon DEF LimiterInv, WindowInv
    <3>3. CASE i \in DOMAIN log /\ log[i].caller # k
      BY <1>1, <1>2, <1>3, <1>5, <3>3, Zenon DEF LimiterInv, WindowInv, Entry
    <3> QED
      BY <1>5, <3>1, <3>2, <3>3, Zenon
  <2>4. ASSUME NEW i \in DOMAIN log', NEW j \in DOMAIN log', log'[i].caller = log'[j].caller
        PROVE  Earlier(log'[i], log'[j].window)
    <3>1. CASE i \in DOMAIN log /\ j \in DOMAIN log
      BY <1>5, <2>4, <3>1, Zenon DEF LimiterInv, WindowInv
    <3>2. CASE i \in DOMAIN log /\ j = last
      BY <1>5, <1>9, <2>2, <2>4, <3>2, Zenon
    <3>3. CASE i = last /\ j \in DOMAIN log
      BY <1>5, <1>9, <2>2, <2>4, <3>3 DEF Earlier, Entry
    <3>4. CASE i = last /\ j = last
      BY <1>5, <2>2, <3>4 DEF Earlier
    <3> QED
      BY <1>5, <3>1, <3>2, <3>3, <3>4, Zenon
  <2> QED
    BY <2>1, <2>3, <2>4, Zenon DEF WindowInv, Earlier
<1>11. CountInv'
  <2>0. entry.caller = k /\ entry.window = s /\ (entry.ok <=> n <= MaxAttempts)
    BY Zenon
  <2> HIDE DEF entry
  <2>1. ASSUME NEW c, NEW t
        PROVE  IsFiniteSet(AdmittedIn(c, t)) /\ Cardinality(AdmittedIn(c, t)) \in Nat
    <3>1. AdmittedIn(c, t) \subseteq 1 .. Len(log) /\ IsFiniteSet(1 .. Len(log))
      BY <1>5, FS_Interval DEF AdmittedIn, Limiter!Admissions, Limiter!Attempts
    <3> QED
      BY <3>1, FS_Subset, FS_CardinalityType, Zenon
  <2>2. ASSUME NEW c, NEW t, ~(c = k /\ t = s /\ n <= MaxAttempts)
        PROVE  AdmittedIn(c, t)' = AdmittedIn(c, t)
    BY <1>5, <2>2, <2>0, Zenon DEF AdmittedIn, Limiter!Admissions, Limiter!Attempts
  <2>3. ASSUME n <= MaxAttempts
        PROVE  AdmittedIn(k, s)' = AdmittedIn(k, s) \cup {last} /\ last \notin AdmittedIn(k, s)
    BY <1>5, <2>3, <2>0, Zenon DEF AdmittedIn, Limiter!Admissions, Limiter!Attempts
  <2>4. Cardinality(AdmittedIn(k, s)) + 1 <= n
    <3>1. CASE s = start[k] /\ n = count[k] + 1
      <4>1. start[k] # None
        BY <3>1, LimiterAssumption, Zenon
      <4>2. Cardinality(AdmittedIn(k, start[k])) <= count[k]
        BY <4>1, ZenonT(30) DEF LimiterInv, CountInv
      <4> QED
        BY <1>2, <2>1, <3>1, <4>2
    <3>2. CASE n = 1 /\ (start[k] # None => start[k] + Window < s)
      <4>1. ASSUME NEW i \in DOMAIN log, log[i].caller = k PROVE log[i].window # s
        <5>1. start[k] # None /\ log[i].window <= start[k] /\ log[i].window \in Nat
          BY <1>5, <4>1, Zenon DEF LimiterInv, WindowInv, Entry
        <5>2. start[k] \in Nat /\ Window \in Nat
          BY <1>8, <5>1, LimiterAssumption, Zenon
        <5> QED
          BY <3>2, <5>1, <5>2
      <4>2. AdmittedIn(k, s) = {}
        BY <4>1, Zenon DEF AdmittedIn, Limiter!Admissions, Limiter!Attempts
      <4> QED
        BY <3>2, <4>2, FS_EmptySet
    <3> QED
      BY <1>1, <3>1, <3>2, Zenon
  <2>5. Cardinality(AdmittedIn(k, s)') <= n /\ Cardinality(AdmittedIn(k, s)') <= MaxAttempts
    <3>1. CASE n <= MaxAttempts
      BY <2>1, <2>3, <2>4, <3>1, FS_AddElement, LimiterAssumption
    <3>2. CASE ~(n <= MaxAttempts)
      BY <2>1, <2>2, <2>4, <3>2, LimiterAssumption DEF LimiterInv, CountInv
    <3> QED
      BY <3>1, <3>2, Zenon
  <2>6. ASSUME NEW c \in Callers, NEW t \in Nat PROVE Cardinality(AdmittedIn(c, t)') <= MaxAttempts
    BY <2>2, <2>5, Zenon DEF LimiterInv, CountInv
  <2>7. ASSUME NEW c \in Callers, start'[c] # None
        PROVE  Cardinality(AdmittedIn(c, start[c])') <= count'[c]
    <3>1. CASE c = k
      BY <1>1, <1>2, <2>5, <3>1, Zenon
    <3>2. CASE c # k
      BY <1>1, <1>2, <2>2, <2>7, <3>2, Zenon DEF LimiterInv, CountInv
    <3> QED
      BY <3>1, <3>2, Zenon
  <2> QED
    BY <2>6, <2>7, Zenon DEF CountInv
<1> QED
  BY <1>6, <1>7, <1>10, <1>11, Zenon DEF LimiterInv

(***************************************************************************)
(* Every step of the service keeps the limiter's invariant.                *)
(***************************************************************************)
LEMMA LimiterInvStep ==
  ASSUME LimiterInv, LimiterStep
  PROVE  LimiterInv'
<1>0. ASSUME UNCHANGED <<start, count, log>>
      PROVE  CountInv'
  BY <1>0, Zenon DEF LimiterInv, CountInv, AdmittedIn, Limiter!Admissions, Limiter!Attempts
<1>1. ASSUME NEW w \in Workers, NEW k \in Callers, Limiter!ReadClock(w, k)
      PROVE  LimiterInv'
  <2>1. LimiterTypes'
    BY <1>1, Zenon DEF Limiter!ReadClock, LimiterInv, LimiterTypes
  <2>2. ReadingInv'
    BY <1>1, LimiterAssumption DEF Limiter!ReadClock, LimiterInv, LimiterTypes, ReadingInv
  <2>3. WindowInv'
    BY <1>1, Zenon DEF Limiter!ReadClock, LimiterInv, WindowInv
  <2> QED
    BY <1>0, <1>1, <2>1, <2>2, <2>3, Zenon DEF Limiter!ReadClock, LimiterInv
<1>2. ASSUME NEW w \in Workers, Limiter!Attempt(w)
      PROVE  LimiterInv'
  BY <1>2, AttemptInv, Zenon
<1>3. CASE Limiter!Tick
  <2>1. LimiterTypes'
    BY <1>3 DEF Limiter!Tick, LimiterInv, LimiterTypes
  <2>2. ReadingInv'
    BY <1>3, LimiterAssumption DEF Limiter!Tick, LimiterInv, LimiterTypes, ReadingInv
  <2>3. \A i \in DOMAIN log : log[i].at \in Nat
    <3>1. \A i \in DOMAIN log : log[i] \in Entry
      BY DEF LimiterInv, LimiterTypes
    <3> QED
      BY <3>1, Zenon DEF Entry
  <2>4. WindowInv'
    BY <1>3, <2>3, LimiterAssumption DEF Limiter!Tick, LimiterInv, LimiterTypes, WindowInv
  <2> QED
    BY <1>0, <1>3, <2>1, <2>2, <2>4, Zenon DEF Limiter!Tick, LimiterInv
<1>4. CASE Cleared
  <2>1. \A k, s : AdmittedIn(k, s)' = {}
    BY <1>4 DEF Cleared, AdmittedIn, Limiter!Admissions, Limiter!Attempts
  <2>2. \A k, s : Cardinality(AdmittedIn(k, s)') = 0
    BY <2>1, FS_EmptySet, ZenonT(30)
  <2>3. CountInv'
    BY <1>4, <2>2, LimiterAssumption, SMTT(30) DEF Cleared, CountInv
  <2>4. LimiterTypes' /\ ReadingInv' /\ WindowInv'
    BY <1>4, LimiterAssumption
    DEF Cleared, LimiterInv, LimiterTypes, ReadingInv, WindowInv
  <2> QED
    BY <2>3, <2>4, Zenon DEF LimiterInv
<1>5. CASE UNCHANGED limiterVars
  BY <1>5, ZenonT(30) DEF limiterVars, LimiterInv, LimiterTypes, ReadingInv, WindowInv, CountInv, AdmittedIn,
      Limiter!Admissions, Limiter!Attempts
<1> QED
  BY <1>1, <1>2, <1>3, <1>4, <1>5, Zenon DEF LimiterStep

(***************************************************************************)
(* No stretch of time as long as the window less the longest stall meets   *)
(* three windows of a caller.                                              *)
(***************************************************************************)
LEMMA TwoWindows ==
  ASSUME LimiterInv, NEW k \in Callers, NEW t \in Nat,
         NEW i \in Limiter!Admissions(k), NEW j \in Limiter!Admissions(k), NEW l \in Limiter!Admissions(k),
         log[i].at \in t .. t + (Window - Stall),
         log[l].at \in t .. t + (Window - Stall)
  PROVE  ~(log[i].window < log[j].window /\ log[j].window < log[l].window)
<1>1. /\ i \in DOMAIN log /\ j \in DOMAIN log /\ l \in DOMAIN log
      /\ log[i].caller = k /\ log[j].caller = k /\ log[l].caller = k
  BY Zenon DEF Limiter!Admissions, Limiter!Attempts
<1>2. log[i] \in Entry /\ log[j] \in Entry /\ log[l] \in Entry
  BY <1>1 DEF LimiterInv, LimiterTypes
<1>3. /\ Earlier(log[i], log[j].window)
      /\ Earlier(log[j], log[l].window)
      /\ log[l].window <= log[l].at
  BY <1>1, Zenon DEF LimiterInv, WindowInv
<1> QED
  BY <1>2, <1>3, LimiterAssumption DEF Earlier, Entry

(***************************************************************************)
(* The limiter's invariant bounds what a caller has admitted in a burst.   *)
(***************************************************************************)
LEMMA BurstBounded ==
  ASSUME LimiterInv
  PROVE  BurstBound
<1> SUFFICES ASSUME NEW k \in Callers, NEW t \in 0 .. MaxTime
             PROVE  Cardinality({i \in Limiter!Admissions(k) : log[i].at \in t .. t + (Window - Stall)})
                      <= 2 * MaxAttempts
  BY Zenon DEF BurstBound
<1> DEFINE burst == {i \in Limiter!Admissions(k) : log[i].at \in t .. t + (Window - Stall)}
<1>1. t \in Nat
  BY LimiterAssumption
<1>0. /\ DOMAIN log = 1 .. Len(log) /\ Len(log) \in Nat
      /\ \A i \in DOMAIN log : log[i] \in Entry
  BY DEF LimiterInv, LimiterTypes
<1>2. \A i \in burst : i \in DOMAIN log /\ log[i].window \in Nat
  BY <1>0, Zenon DEF Limiter!Admissions, Limiter!Attempts, Entry
<1>3. \E s, r \in Nat : burst \subseteq AdmittedIn(k, s) \cup AdmittedIn(k, r)
  <2>1. CASE burst = {}
    BY <2>1, Zenon
  <2>2. CASE \E i \in burst : \A j \in burst : log[j].window = log[i].window
    BY <1>2, <2>2, Zenon DEF AdmittedIn
  <2>3. CASE \E i, j \in burst : log[i].window # log[j].window
    <3>1. PICK i, j \in burst : log[i].window # log[j].window
      BY <2>3, Zenon
    <3>2. \A l \in burst : log[l].window \in {log[i].window, log[j].window}
      BY <1>1, <1>2, <3>1, TwoWindows
    <3> QED
      BY <1>2, <3>2, Zenon DEF AdmittedIn
  <2> QED
    BY <2>1, <2>2, <2>3
<1>4. PICK s, r \in Nat : burst \subseteq AdmittedIn(k, s) \cup AdmittedIn(k, r)
  BY <1>3, Zenon
<1>5. ASSUME NEW c, NEW v
      PROVE  IsFiniteSet(AdmittedIn(c, v))
  <2>1. AdmittedIn(c, v) \subseteq 1 .. Len(log) /\ IsFiniteSet(1 .. Len(log))
    BY <1>0, FS_Interval DEF AdmittedIn, Limiter!Admissions, Limiter!Attempts
  <2> QED
    BY <2>1, FS_Subset, Zenon
<1>6. /\ IsFiniteSet(AdmittedIn(k, s) \cup AdmittedIn(k, r))
      /\ Cardinality(AdmittedIn(k, s) \cup AdmittedIn(k, r))
           <= Cardinality(AdmittedIn(k, s)) + Cardinality(AdmittedIn(k, r))
  <2> DEFINE S == AdmittedIn(k, s)
             R == AdmittedIn(k, r)
  <2>1. IsFiniteSet(S) /\ IsFiniteSet(R)
    BY <1>5, Zenon
  <2> HIDE DEF S, R
  <2>2. /\ IsFiniteSet(S \cup R)
        /\ Cardinality(S \cup R) = Cardinality(S) + Cardinality(R) - Cardinality(S \cap R)
    BY <2>1, FS_Union, Zenon
  <2>3. Cardinality(S) \in Nat /\ Cardinality(R) \in Nat /\ Cardinality(S \cap R) \in Nat
    BY <2>1, FS_Intersection, FS_CardinalityType, Zenon
  <2>4. Cardinality(S \cup R) <= Cardinality(S) + Cardinality(R)
    BY <2>2, <2>3
  <2> QED
    BY <2>2, <2>4, Zenon DEF S, R
<1>7. Cardinality(burst) <= Cardinality(AdmittedIn(k, s) \cup AdmittedIn(k, r))
  BY <1>4, <1>6, FS_Subset, Zenon
<1>8. Cardinality(AdmittedIn(k, s)) <= MaxAttempts /\ Cardinality(AdmittedIn(k, r)) <= MaxAttempts
  BY Zenon DEF LimiterInv, CountInv
<1>9. /\ Cardinality(burst) \in Nat /\ Cardinality(AdmittedIn(k, s)) \in Nat
      /\ Cardinality(AdmittedIn(k, r)) \in Nat
      /\ Cardinality(AdmittedIn(k, s) \cup AdmittedIn(k, r)) \in Nat
  BY <1>4, <1>5, <1>6, FS_Subset, FS_CardinalityType, Zenon
<1> QED
  BY <1>6, <1>7, <1>8, <1>9, LimiterAssumption

-----------------------------------------------------------------------------
(* The invariants and the theorems *)

RegistrationInv ==
  Types /\ AddressInv /\ OwnInv /\ AnswerInv /\ OrphanInv /\ GateInv

(***************************************************************************)
(* Both invariants are inductive: the registrations' and the limiter's     *)
(* (_record_registration_attempt, register_account and create_user).       *)
(***************************************************************************)
THEOREM Invariance == ServiceSpec => [](RegistrationInv /\ LimiterInv)
<1>1. ServiceInit => RegistrationInv
  BY RegistrationInit, Zenon DEF ServiceInit, RegistrationInv, GateInv, Limiter!Init
<1>2. ServiceInit => LimiterInv
  <2> SUFFICES ASSUME Limiter!Init PROVE LimiterInv
    BY Zenon DEF ServiceInit
  <2>1. \A k, s : AdmittedIn(k, s) = {}
    BY DEF Limiter!Init, AdmittedIn, Limiter!Admissions, Limiter!Attempts
  <2>2. \A k, s : Cardinality(AdmittedIn(k, s)) = 0
    BY <2>1, FS_EmptySet, ZenonT(30)
  <2>3. CountInv
    BY <2>2, LimiterAssumption DEF Limiter!Init, CountInv
  <2>4. LimiterTypes /\ ReadingInv /\ WindowInv
    BY LimiterAssumption DEF Limiter!Init, LimiterTypes, ReadingInv, WindowInv
  <2> QED
    BY <2>3, <2>4, Zenon DEF LimiterInv
<1>3. RegistrationInv /\ LimiterInv /\ [ServiceNext]_allVars => RegistrationInv'
  BY ServiceStep, StoreStep, RequestTypesStep, OwnStep, AnswerStep, OrphanStep, GateStep, Zenon
  DEF RegistrationInv, Types, LimiterInv, LimiterTypes
<1>4. LimiterInv /\ [ServiceNext]_allVars => LimiterInv'
  BY ServiceLimiterStep, LimiterInvStep, Zenon
<1> QED
  BY <1>1, <1>2, <1>3, <1>4, PTL DEF ServiceSpec

(***************************************************************************)
(* No step of any request removes an account that some request answered    *)
(* with 201, and a registration so answered has had its e-mail sent        *)
(* (register_account, _initialize_account, create_user).                   *)
(***************************************************************************)
THEOREM ReportedAccountsAreKept == ServiceSpec => []ReportedAccountsStay
<1>1. RegistrationInv => ReportedAccountsStay
  <2> SUFFICES ASSUME RegistrationInv, ~tampered
               PROVE  /\ \A i \in reported : accounts[i] # None /\ Holders(accounts[i]) = {i}
                      /\ \A w \in Workers :
                           answer[w] = 201 =>
                             /\ account[w] \in reported
                             /\ kind[w] = "register" => account[w] \in mailed
    BY Zenon DEF ReportedAccountsStay
  <2>1. ASSUME NEW i \in reported
        PROVE  accounts[i] # None /\ Holders(accounts[i]) = {i}
    BY DEF RegistrationInv, Types, StoreTypes, OwnInv, AddressInv, Holders
  <2> QED
    BY <2>1, Zenon DEF RegistrationInv, AnswerInv
<1> QED
  BY <1>1, Invariance, PTL

(***************************************************************************)
(* An account is left without an e-mail only if the answer of its creation *)
(* was lost, the process died, or both e-mail and rollback failed          *)
(* (register_account, _initialize_account).                                *)
(***************************************************************************)
THEOREM OrphansAreExplained == ServiceSpec => []OrphansExplained
<1>1. RegistrationInv => OrphansExplained
  BY Zenon DEF RegistrationInv, OrphanInv, InHand, Explained, OrphansExplained, Orphan
<1> QED
  BY <1>1, Invariance, PTL

(***************************************************************************)
(* A caller has at most twice the limit admitted in any stretch of time no *)
(* longer than the window less the longest stall                           *)
(* (_record_registration_attempt).                                         *)
(***************************************************************************)
THEOREM BurstsAreBounded == ServiceSpec => []BurstBound
BY Invariance, BurstBounded, PTL
=============================================================================
