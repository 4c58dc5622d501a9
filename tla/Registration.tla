---------------------------- MODULE Registration ----------------------------
(***************************************************************************)
(* Self-registration (app/registration.py) and SCIM account creation       *)
(* (create_user of app/scim.py) against one Keycloak: look for the e-mail, *)
(* create the account, send the enrolment e-mail, and delete the account   *)
(* again when the e-mail fails.  Nothing locks the steps of one request    *)
(* against another.                                                        *)
(*                                                                         *)
(* Keycloak refuses a second account with one e-mail address (the realm    *)
(* uses the e-mail as username and forbids duplicates).  An address stands *)
(* for its normalised form.                                                *)
(***************************************************************************)
EXTENDS Naturals, FiniteSets

CONSTANTS
  Emails,    \* e-mail addresses
  Workers,   \* request threads
  None,
  MaxCalls,  \* bound on requests
  MaxEvents  \* bound on failed calls and crashes

ASSUME ConstantsAssumption ==
  /\ None \notin Emails \cup Workers
  /\ MaxCalls \in Nat
  /\ MaxEvents \in Nat

Ids == 1 .. MaxCalls

VARIABLES
  accounts,  \* Keycloak: account id -> its e-mail address, None when absent
  nextId,    \* the next account id; ids are not used twice
  mailed,    \* ids for which the enrolment e-mail was sent
  pc, kind, email, account,
  answer,    \* per worker: the status code of its last answer
  maker,     \* history: id -> the worker whose request created it
  reported,  \* history: ids answered with 201
  spoiled,   \* history: id -> what went wrong in the request that made it
  tampered,  \* history: somebody else has deleted an account in Keycloak
  calls, events

keycloak == <<accounts, nextId, mailed>>
history == <<maker, reported, spoiled, tampered>>

vars == <<keycloak, pc, kind, email, account, answer, history, calls, events>>

Init ==
  /\ accounts = [i \in Ids |-> None]
  /\ nextId = 1
  /\ mailed = {}
  /\ pc = [w \in Workers |-> "idle"]
  /\ kind = [w \in Workers |-> "none"]
  /\ email = [w \in Workers |-> None]
  /\ account = [w \in Workers |-> 0]
  /\ answer = [w \in Workers |-> 0]
  /\ maker = [i \in Ids |-> None]
  /\ reported = {}
  /\ spoiled = [i \in Ids |-> {}]
  /\ tampered = FALSE
  /\ calls = 0
  /\ events = 0

Goto(w, step) == pc' = [pc EXCEPT ![w] = step]

Event == events < MaxEvents /\ events' = events + 1

Answer(w, code) ==
  /\ answer' = [answer EXCEPT ![w] = code]
  /\ Goto(w, "idle")

Holders(e) == {i \in Ids : accounts[i] = e}

-----------------------------------------------------------------------------
(***************************************************************************)
(* A request begins.  Registration without settings is refused at once;    *)
(* the limiter (see SelfRegistration) comes next.  The validation of the   *)
(* address may refuse it then, and that of the names just before the       *)
(* account is created.                                                     *)
(***************************************************************************)
Begin(w, k, e) ==
  /\ pc[w] = "idle"
  /\ calls < MaxCalls
  /\ calls' = calls + 1
  /\ kind' = [kind EXCEPT ![w] = k]
  /\ email' = [email EXCEPT ![w] = e]
  /\ account' = [account EXCEPT ![w] = 0]
  /\ answer' = [answer EXCEPT ![w] = 0]
  /\ Goto(w, "find")
  /\ UNCHANGED <<keycloak, history, events>>

Unavailable(w) ==
  /\ pc[w] = "idle"
  /\ calls < MaxCalls
  /\ calls' = calls + 1
  /\ kind' = [kind EXCEPT ![w] = "register"]
  /\ Answer(w, 503)
  /\ UNCHANGED <<keycloak, email, account, history, events>>

Refuse(w) ==
  /\ \/ /\ pc[w] = "find"
        /\ Answer(w, IF kind[w] = "register" THEN 422 ELSE 400)
     \/ /\ pc[w] = "create" /\ kind[w] = "register"
        /\ Answer(w, 422)
  /\ UNCHANGED <<keycloak, kind, email, account, history, calls, events>>

Find(w) ==
  /\ pc[w] = "find"
  /\ \/ Holders(email[w]) # {} /\ Answer(w, 409)
     \/ Holders(email[w]) = {} /\ Goto(w, "create") /\ UNCHANGED answer
  /\ UNCHANGED <<keycloak, kind, email, account, history, calls, events>>

(***************************************************************************)
(* What create_user does in Keycloak when it is not refused.  The bound on *)
(* ids holds no request back: each has at most one account created.        *)
(***************************************************************************)
Created(w) ==
  /\ Holders(email[w]) = {}
  /\ nextId \in Ids
  /\ accounts' = [accounts EXCEPT ![nextId] = email[w]]
  /\ nextId' = nextId + 1
  /\ maker' = [maker EXCEPT ![nextId] = w]
  /\ UNCHANGED <<mailed, reported, tampered>>

\* Seeded fault: a conflict is taken for an account of one's own.
CreateAdopting(w) ==
  /\ pc[w] = "create"
  /\ \/ \E i \in Holders(email[w]) :
          /\ account' = [account EXCEPT ![w] = i]
          /\ UNCHANGED <<keycloak, history>>
     \/ /\ Created(w)
        /\ account' = [account EXCEPT ![w] = nextId]
        /\ UNCHANGED spoiled
  /\ Goto(w, "mail")
  /\ UNCHANGED <<kind, email, answer, calls, events>>

(***************************************************************************)
(* Refused: a conflict is 409 for a registration; SCIM lets the error      *)
(* through.  Accepted: the id comes from the Location header, or without   *)
(* one from a second look at the username.                                 *)
(***************************************************************************)
Create(w) ==
  /\ pc[w] = "create"
  /\ \/ /\ Holders(email[w]) # {}
        /\ Answer(w, IF kind[w] = "register" THEN 409 ELSE 500)
        /\ UNCHANGED <<keycloak, account, history>>
     \/ /\ Created(w)
        /\ account' = [account EXCEPT ![w] = nextId]
        /\ Goto(w, "mail")
        /\ UNCHANGED <<answer, spoiled>>
     \/ /\ Created(w)
        /\ Goto(w, "lookup")
        /\ UNCHANGED <<account, answer, spoiled>>
  /\ UNCHANGED <<kind, email, calls, events>>

Lookup(w) ==
  /\ pc[w] = "lookup"
  /\ \/ /\ Holders(email[w]) = {}
        /\ Answer(w, IF kind[w] = "register" THEN 502 ELSE 500)
        /\ UNCHANGED account
     \/ \E i \in Holders(email[w]) :
          /\ account' = [account EXCEPT ![w] = i]
          /\ Goto(w, "mail")
          /\ UNCHANGED answer
  /\ UNCHANGED <<keycloak, kind, email, history, calls, events>>

-----------------------------------------------------------------------------
(***************************************************************************)
(* _initialize_account for a registration; SCIM reads the account back and *)
(* sends nothing.                                                          *)
(***************************************************************************)
Mail(w) ==
  /\ pc[w] = "mail"
  /\ \/ /\ accounts[account[w]] # None
        /\ mailed' = IF kind[w] = "register" THEN mailed \cup {account[w]} ELSE mailed
        /\ reported' = reported \cup {account[w]}
        /\ Answer(w, 201)
     \/ /\ accounts[account[w]] = None
        /\ IF kind[w] = "register"
           THEN Goto(w, "rollback") /\ UNCHANGED answer
           ELSE Answer(w, 500)
        /\ UNCHANGED <<mailed, reported>>
  /\ UNCHANGED <<accounts, nextId, kind, email, account, maker, spoiled, tampered,
                 calls, events>>

\* Seeded fault: the failure is reported without the rollback.
RollbackForgotten(w) ==
  /\ pc[w] = "rollback"
  /\ Answer(w, 502)
  /\ UNCHANGED <<keycloak, kind, email, account, history, calls, events>>

Rollback(w) ==
  /\ pc[w] = "rollback"
  /\ accounts' = [accounts EXCEPT ![account[w]] = None]
  /\ Answer(w, 502)
  /\ UNCHANGED <<nextId, mailed, kind, email, account, history, calls, events>>

-----------------------------------------------------------------------------
(* Failed calls: the effect may have landed although the answer was lost *)

ReadFails(w) ==
  /\ pc[w] \in {"find", "lookup"} \/ (pc[w] = "mail" /\ kind[w] = "scim")
  /\ Event
  /\ spoiled' = [i \in Ids |-> IF maker[i] = w /\ pc[w] # "find" /\ i \notin reported
                               THEN spoiled[i] \cup {"create"} ELSE spoiled[i]]
  /\ Answer(w, 500)
  /\ UNCHANGED <<keycloak, kind, email, account, maker, reported, tampered,
                 calls>>

CreateFails(w) ==
  /\ pc[w] = "create"
  /\ Event
  /\ \/ UNCHANGED <<keycloak, history>>
     \/ Created(w) /\ spoiled' = [spoiled EXCEPT ![nextId] = {"create"}]
  /\ Answer(w, 500)
  /\ UNCHANGED <<kind, email, account, calls>>

MailFails(w) ==
  /\ pc[w] = "mail"
  /\ kind[w] = "register"
  /\ Event
  /\ \/ UNCHANGED mailed
     \/ accounts[account[w]] # None /\ mailed' = mailed \cup {account[w]}
  /\ spoiled' = [spoiled EXCEPT ![account[w]] = @ \cup {"mail"}]
  /\ Goto(w, "rollback")
  /\ UNCHANGED <<accounts, nextId, kind, email, account, answer, maker, reported,
                 tampered, calls>>

RollbackFails(w) ==
  /\ pc[w] = "rollback"
  /\ Event
  /\ \/ UNCHANGED accounts
     \/ accounts' = [accounts EXCEPT ![account[w]] = None]
  /\ spoiled' = [spoiled EXCEPT ![account[w]] = @ \cup {"rollback"}]
  /\ Answer(w, 502)
  /\ UNCHANGED <<nextId, mailed, kind, email, account, maker, reported, tampered,
                 calls>>

Crash ==
  /\ Event
  /\ pc' = [w \in Workers |-> "idle"]
  /\ spoiled' = [i \in Ids |->
       IF maker[i] # None /\ pc[maker[i]] # "idle" /\ i \notin reported
       THEN spoiled[i] \cup {"crash"} ELSE spoiled[i]]
  /\ UNCHANGED <<keycloak, kind, email, account, answer, maker, reported,
                 tampered, calls>>

OutsideDelete(i) ==
  /\ Event
  /\ tampered' = TRUE
  /\ accounts[i] # None
  /\ accounts' = [accounts EXCEPT ![i] = None]
  /\ UNCHANGED <<nextId, mailed, pc, kind, email, account, answer, maker, reported,
                 spoiled, calls>>

-----------------------------------------------------------------------------
Step(w) ==
  \/ Refuse(w)
  \/ Find(w)
  \/ Create(w)
  \/ Lookup(w)
  \/ Mail(w)
  \/ Rollback(w)

Next ==
  \/ \E w \in Workers :
       \/ \E k \in {"register", "scim"}, e \in Emails : Begin(w, k, e)
       \/ Unavailable(w)
       \/ Step(w)
       \/ ReadFails(w) \/ CreateFails(w) \/ MailFails(w) \/ RollbackFails(w)
  \/ Crash
  \/ \E i \in Ids : OutsideDelete(i)

Spec == Init /\ [][Next]_vars

-----------------------------------------------------------------------------
(***************************************************************************)
(* No step of any request removes an account that some request answered    *)
(* with 201, and that account stays the only one with its address: racing  *)
(* requests, lost answers and rollbacks included (_initialize_account      *)
(* deletes by id).  A registration so answered has had its enrolment       *)
(* e-mail sent.  Somebody else deleting accounts ends the promise.         *)
(***************************************************************************)
ReportedAccountsStay ==
  ~tampered =>
    /\ \A i \in reported : accounts[i] # None /\ Holders(accounts[i]) = {i}
    /\ \A w \in Workers :
         answer[w] = 201 =>
           /\ account[w] \in reported
           /\ kind[w] = "register" => account[w] \in mailed

(***************************************************************************)
(* An account is left without an e-mail and without a request at work on   *)
(* it only if the answer of its creation was lost, the process died, or    *)
(* both the e-mail and the rollback failed: one failed e-mail never leaves *)
(* an orphan (register_account, _initialize_account).                      *)
(***************************************************************************)
Orphan(i) ==
  /\ accounts[i] # None
  /\ i \notin mailed \cup reported
  /\ \A w \in Workers : maker[i] = w => pc[w] = "idle"

OrphansExplained ==
  \A i \in Ids :
    Orphan(i) => \/ "create" \in spoiled[i]
                 \/ "crash" \in spoiled[i]
                 \/ {"mail", "rollback"} \subseteq spoiled[i]

(***************************************************************************)
(* "A failed email request rolls the account back so no unusable orphan    *)
(* remains" (registration.py:5-6): when the request whose e-mail failed is *)
(* answered, its account is gone.                                          *)
(***************************************************************************)
FailedEmailLeavesNoOrphan ==
  [][\A w \in Workers :
       pc[w] = "rollback" /\ answer'[w] = 502 /\ pc'[w] = "idle" =>
         accounts'[account[w]] = None]_vars
=============================================================================
