---------------------------- MODULE MCLateWrites ----------------------------
(***************************************************************************)
(* Instances of LateWrites for TLC, on the accounts of MCUserOperations.   *)
(***************************************************************************)
EXTENDS LateWrites, MCUserOperations

LateStores == {SharedEmail}

LateRequests ==
  {Merge(a, b, FALSE), Merge(c, b, TRUE), Put(b, TRUE, "ann@x", x2),
   Put(a, FALSE, "ann@x", NoExternalId), Delete(b)}
=============================================================================
