----------------------------- MODULE NimBroker ------------------------------
(***************************************************************************)
(* The loopback broker of the product workflow (scripts/ci/nim_proxy.py):  *)
(* one thread per connection, at most Slots requests upstream at a time, a *)
(* request beyond that refused at once.                                    *)
(*                                                                         *)
(* A thread serves one request and ends, so a handler is reused for the    *)
(* next connection.  What a path or a body says is reduced to whether it   *)
(* is accepted; a client may stay silent or go away at any point.          *)
(***************************************************************************)
EXTENDS Naturals, FiniteSets

CONSTANTS
  Handlers,  \* threads of the server
  Slots      \* max_concurrency

ASSUME NimBrokerAssumption ==
  Slots \in Nat \ {0} /\ IsFiniteSet(Handlers)

VARIABLES
  pc,      \* where each handler is
  slots,   \* permits left in request_slots
  answer   \* the status each handler sent last (0: none, 1: upstream's)

vars == <<pc, slots, answer>>

Statuses == {0, 1, 200, 400, 405, 429, 502}

\* Positions at which a handler holds a permit.
Holding == {"upstream", "failed"}

Holders == {h \in Handlers : pc[h] \in Holding}

Init ==
  /\ pc = [h \in Handlers |-> "idle"]
  /\ slots = Slots
  /\ answer = [h \in Handlers |-> 0]

Goto(h, at) == pc' = [pc EXCEPT ![h] = at]

(***************************************************************************)
(* do_GET, do_HEAD and do_PUT answer health checks and unsupported methods *)
(* themselves; anything else goes to _forward.                             *)
(***************************************************************************)
Serve(h) ==
  /\ pc[h] = "idle"
  /\ \/ /\ \E status \in {200, 405} : answer' = [answer EXCEPT ![h] = status]
        /\ UNCHANGED pc
     \/ /\ Goto(h, "reading")
        /\ answer' = [answer EXCEPT ![h] = 0]
  /\ UNCHANGED slots

(***************************************************************************)
(* _validate_path and _read_body: the body is read without a time limit.   *)
(***************************************************************************)
Read(h) ==
  /\ pc[h] = "reading"
  /\ \/ /\ Goto(h, "idle")
        /\ answer' = [answer EXCEPT ![h] = 400]
     \/ /\ Goto(h, "ready")
        /\ UNCHANGED answer
  /\ UNCHANGED slots

(***************************************************************************)
(* The non-blocking acquire of _forward.                                   *)
(***************************************************************************)
Acquire(h) ==
  /\ pc[h] = "ready"
  /\ \/ /\ slots > 0
        /\ slots' = slots - 1
        /\ Goto(h, "upstream")
        /\ UNCHANGED answer
     \/ /\ slots = 0
        /\ Goto(h, "idle")
        /\ answer' = [answer EXCEPT ![h] = 429]
        /\ UNCHANGED slots

\* Seeded fault: a failed request keeps its permit.
ReleaseForgotten == UNCHANGED slots

(***************************************************************************)
(* BoundedSemaphore.release in the finally clause.                         *)
(***************************************************************************)
Release == slots' = slots + 1

(***************************************************************************)
(* NimUpstreamClient.request: an answer, an error _forward catches, or one *)
(* it does not, which ends the thread without an answer.  Every socket     *)
(* operation has a time limit.                                             *)
(***************************************************************************)
Upstream(h) ==
  /\ pc[h] = "upstream"
  /\ \/ Goto(h, "writing") /\ Release
     \/ Goto(h, "idle") /\ Release
     \/ Goto(h, "failed") /\ UNCHANGED slots
  /\ UNCHANGED answer

(***************************************************************************)
(* The 502 is written before the finally clause gives the permit back; the *)
(* client may be gone by then.                                             *)
(***************************************************************************)
Fail(h) ==
  /\ pc[h] = "failed"
  /\ Goto(h, "idle")
  /\ \E status \in {0, 502} : answer' = [answer EXCEPT ![h] = status]
  /\ Release

(***************************************************************************)
(* The upstream answer is written after the permit is returned.            *)
(***************************************************************************)
Write(h) ==
  /\ pc[h] = "writing"
  /\ Goto(h, "idle")
  /\ \E status \in {0, 1} : answer' = [answer EXCEPT ![h] = status]
  /\ UNCHANGED slots

Step(h) == Acquire(h) \/ Upstream(h) \/ Fail(h)

Next == \E h \in Handlers : Serve(h) \/ Read(h) \/ Write(h) \/ Step(h)

Spec == Init /\ [][Next]_vars

-----------------------------------------------------------------------------
(***************************************************************************)
(* The permits left stay between 0 and Slots, the range BoundedSemaphore   *)
(* insists on, and every answer is one _forward sends.                     *)
(***************************************************************************)
TypeOK ==
  /\ pc \in [Handlers -> {"idle", "reading", "ready", "upstream", "failed", "writing"}]
  /\ slots \in 0 .. Slots
  /\ answer \in [Handlers -> Statuses]

(***************************************************************************)
(* The permits left and the handlers holding one always add up to Slots,   *)
(* on every path out of _forward: none is lost when the upstream or the    *)
(* client fails, and BoundedSemaphore never sees one release too many.     *)
(***************************************************************************)
PermitsAccounted == slots + Cardinality(Holders) = Slots

(***************************************************************************)
(* A request is refused with 429 only while Slots other handlers are       *)
(* talking to the upstream or reporting its failure.                       *)
(***************************************************************************)
RefusedOnlyWhenFull ==
  [][\A h \in Handlers :
       pc[h] = "ready" /\ answer'[h] = 429 =>
         Cardinality(Holders \ {h}) = Slots]_vars
=============================================================================
