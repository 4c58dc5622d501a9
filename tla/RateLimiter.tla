---------------------------- MODULE RateLimiter ----------------------------
(***************************************************************************)
(* The fixed-window limiter of self-registration                           *)
(* (_record_registration_attempt of app/registration.py).  A request reads *)
(* the monotonic clock before it takes the lock, so an older reading may   *)
(* be counted after a newer one.                                           *)
(***************************************************************************)
EXTENDS Integers, Sequences

CONSTANTS
  Callers,     \* peer addresses
  Workers,     \* request threads
  Window,      \* REGISTRATION_RATE_LIMIT_WINDOW_SECONDS, in clock ticks
  MaxAttempts, \* REGISTRATION_RATE_LIMIT_MAX_ATTEMPTS
  Stall,       \* longest wait between reading the clock and having the lock
  None,
  MaxTime,     \* bound on the clock
  MaxCalls     \* bound on requests

VARIABLES
  clock,   \* time.monotonic()
  start,   \* window_start of each caller, None before the first attempt
  count,   \* attempt_count of each caller
  caller,  \* per worker: the caller of the request at the limiter, or None
  now,     \* per worker: the clock reading it took
  log,     \* history: the attempts in the order they took the lock
  calls

vars == <<clock, start, count, caller, now, log, calls>>

Init ==
  /\ clock = 0
  /\ start = [k \in Callers |-> None]
  /\ count = [k \in Callers |-> 0]
  /\ caller = [w \in Workers |-> None]
  /\ now = [w \in Workers |-> 0]
  /\ log = <<>>
  /\ calls = 0

ReadClock(w, k) ==
  /\ caller[w] = None
  /\ calls < MaxCalls
  /\ calls' = calls + 1
  /\ caller' = [caller EXCEPT ![w] = k]
  /\ now' = [now EXCEPT ![w] = clock]
  /\ UNCHANGED <<clock, start, count, log>>

Expired(k, t) == start[k] = None \/ t - start[k] > Window

\* Seeded fault: the attempt that exceeds the limit is let through.
AdmittedOneMore(n) == n <= MaxAttempts + 1

Admitted(n) == n <= MaxAttempts

(***************************************************************************)
(* The locked block: the attempt is counted, in a new window if the old    *)
(* one has expired, and then admitted or refused with 429.                 *)
(***************************************************************************)
Attempt(w) ==
  /\ caller[w] # None
  /\ LET k == caller[w]
         s == IF Expired(k, now[w]) THEN now[w] ELSE start[k]
         n == IF Expired(k, now[w]) THEN 1 ELSE count[k] + 1
     IN /\ start' = [start EXCEPT ![k] = s]
        /\ count' = [count EXCEPT ![k] = n]
        /\ log' = Append(log, [caller |-> k, at |-> clock, window |-> s,
                               ok |-> Admitted(n)])
  /\ caller' = [caller EXCEPT ![w] = None]
  /\ UNCHANGED <<clock, now, calls>>

(***************************************************************************)
(* Time passes; no thread is held up at the lock for longer than Stall.    *)
(***************************************************************************)
Tick ==
  /\ clock < MaxTime
  /\ \A w \in Workers : caller[w] # None => clock < now[w] + Stall
  /\ clock' = clock + 1
  /\ UNCHANGED <<start, count, caller, now, log, calls>>

Next ==
  \/ \E w \in Workers : (\E k \in Callers : ReadClock(w, k)) \/ Attempt(w)
  \/ Tick

Spec == Init /\ [][Next]_vars

-----------------------------------------------------------------------------
Attempts(k) == {i \in DOMAIN log : log[i].caller = k}
Admissions(k) == {i \in Attempts(k) : log[i].ok}
=============================================================================
