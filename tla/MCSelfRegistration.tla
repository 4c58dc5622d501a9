------------------------- MODULE MCSelfRegistration -------------------------
(***************************************************************************)
(* Self-registration and SCIM creation for TLC.                            *)
(***************************************************************************)
EXTENDS SelfRegistration, TLC

CONSTANTS e1, e2, a, b, c, k1, k2

OneEmail == {e1}
TwoEmails == {e1, e2}
TwoWorkers == {a, b}
ThreeWorkers == {a, b, c}
OneCaller == {k1}
TwoCallers == {k1, k2}
MCSymmetry == Permutations(Workers) \cup Permutations(Callers)
=============================================================================
