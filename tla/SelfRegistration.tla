-------------------------- MODULE SelfRegistration --------------------------
(***************************************************************************)
(* register_account as a whole (app/registration.py): a registration first *)
(* passes the limiter (RateLimiter) and then looks for the address,        *)
(* creates, mails and rolls back (Registration).  SCIM requests do not     *)
(* meet the limiter.  The windows live in the process and end with it.     *)
(***************************************************************************)
EXTENDS Registration, Integers, Sequences

CONSTANTS
  Callers, Window, MaxAttempts, Stall, MaxTime

ASSUME LimiterAssumption ==
  /\ Window \in Nat
  /\ MaxAttempts \in Nat \ {0}
  /\ Stall \in 0 .. Window
  /\ None \notin Callers \cup Nat
  /\ MaxTime \in Nat

VARIABLES
  clock, start, count, caller, now, log,
  attempts  \* how many requests have reached the limiter

Limiter == INSTANCE RateLimiter WITH calls <- attempts

limiterVars == <<clock, start, count, caller, now, log, attempts>>

allVars == <<vars, limiterVars>>

ServiceInit == Init /\ Limiter!Init

Register(w, e, k) ==
  /\ Begin(w, "register", e)
  /\ Limiter!ReadClock(w, k)

Provision(w, e) ==
  /\ Begin(w, "scim", e)
  /\ UNCHANGED limiterVars

(***************************************************************************)
(* _record_registration_attempt: an attempt over the limit is answered     *)
(* with 429 before its address is looked at.                               *)
(***************************************************************************)
Limit(w) ==
  /\ Limiter!Attempt(w)
  /\ \/ log'[Len(log')].ok /\ UNCHANGED vars
     \/ /\ ~log'[Len(log')].ok
        /\ Answer(w, 429)
        /\ UNCHANGED <<keycloak, kind, email, account, history, calls, events>>

PastLimiter(w) == caller[w] = None

Handle(w) ==
  /\ PastLimiter(w)
  /\ Step(w)
  /\ UNCHANGED limiterVars

Fault(w) ==
  /\ PastLimiter(w)
  /\ ReadFails(w) \/ CreateFails(w) \/ MailFails(w) \/ RollbackFails(w)
  /\ UNCHANGED limiterVars

(***************************************************************************)
(* The process dies and a new one starts with empty windows.               *)
(***************************************************************************)
Restart ==
  /\ Crash
  /\ start' = [k \in Callers |-> None]
  /\ count' = [k \in Callers |-> 0]
  /\ caller' = [w \in Workers |-> None]
  /\ now' = [w \in Workers |-> 0]
  /\ log' = <<>>
  /\ UNCHANGED <<clock, attempts>>

ServiceNext ==
  \/ \E w \in Workers :
       \/ \E e \in Emails, k \in Callers : Register(w, e, k)
       \/ \E e \in Emails : Provision(w, e)
       \/ Unavailable(w) /\ UNCHANGED limiterVars
       \/ Limit(w)
       \/ Handle(w)
       \/ Fault(w)
  \/ Restart
  \/ \E i \in Ids : OutsideDelete(i) /\ UNCHANGED limiterVars
  \/ Limiter!Tick /\ UNCHANGED vars

ServiceSpec == ServiceInit /\ [][ServiceNext]_allVars

-----------------------------------------------------------------------------
(***************************************************************************)
(* In any stretch of time no longer than the window less the longest stall *)
(* one process admits at most twice the limit for a caller: readings taken *)
(* out of order do not open a third window (_record_registration_attempt). *)
(***************************************************************************)
BurstBound ==
  \A k \in Callers, t \in 0 .. MaxTime :
    Cardinality({i \in Limiter!Admissions(k) : log[i].at \in t .. t + (Window - Stall)})
      <= 2 * MaxAttempts
=============================================================================
