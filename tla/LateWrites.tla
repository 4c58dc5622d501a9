----------------------------- MODULE LateWrites -----------------------------
(***************************************************************************)
(* UserOperations with a Keycloak that may carry out a PUT of a user after *)
(* the service gave up on it.  The HTTP client stops waiting after         *)
(* timeout_seconds and raises; the handler leaves the with block and       *)
(* releases the lock, but nothing recalls the request.                     *)
(***************************************************************************)
EXTENDS UserOperations

VARIABLE inflight   \* PUTs the service gave up on and Keycloak still has

lateVars == <<vars, inflight>>

LateInit == Init /\ inflight = {}

(***************************************************************************)
(* The client times out on the PUT of replace_user, of set_user_attribute  *)
(* (stamp) or of deactivate_user (disable, patch, delete).                 *)
(***************************************************************************)
TimeOut(w) ==
  /\ \/ pc[w] \in {"put", "stamp", "disable", "delete"}
     \/ pc[w] = "patch" /\ ~req[w].active
  /\ inflight' = inflight \cup
       {[call |-> pc[w], r |-> req[w], idRead |-> idRead[w]]}
  /\ Fail(w)

LateReplace(call) == call.call = "put" /\ PutUser(call.r)

LateStamp(call) ==
  /\ call.call = "stamp"
  /\ PutAttributes(call.r, call.idRead)
  /\ UNCHANGED <<enabled, email, verified>>

LateDisable(call) ==
  /\ call.call \in {"disable", "patch", "delete"}
  /\ LET u == IF call.call = "disable" THEN call.r.duplicate ELSE call.r.user
     IN  enabled' = IF u \in present THEN DeactivateUser(u) ELSE enabled
  /\ UNCHANGED <<mergedInto, externalId, email, verified>>

Arrive(call) ==
  /\ inflight' = inflight \ {call}
  /\ LateReplace(call) \/ LateStamp(call) \/ LateDisable(call)
  /\ UNCHANGED <<present, holds, lock, pc, req, local, audit, faults>>

LateNext ==
  \/ Next /\ UNCHANGED inflight
  \/ \E w \in Workers : TimeOut(w)
  \/ \E call \in inflight : Arrive(call)

LateSpec == LateInit /\ [][LateNext]_lateVars
=============================================================================
