----------------------------- MODULE RealmFlows -----------------------------
(***************************************************************************)
(* How scripts/validate_realm.py decides what the browser flow of a realm  *)
(* export can ask for: _all_authenticators walks the subflows depth first, *)
(* with one set of visited aliases shared by all its calls, over an export *)
(* that may hold cycles, missing subflows and two flows of one alias.      *)
(*                                                                         *)
(* An authenticator is the passkey, a credential form or another.          *)
(***************************************************************************)
EXTENDS Naturals, Sequences, FiniteSets, Functions

CONSTANTS
  Aliases,  \* flow aliases
  Realms,   \* exports: sequences of flows
  Root      \* browserFlow

Authenticators == {"passkey", "form", "other"}

VARIABLES
  realm,  \* authenticationFlows
  calls,  \* the subflows each active call has still to visit, innermost last
  seen,   \* the shared set of visited aliases
  found   \* authenticators collected so far

vars == <<realm, calls, seen, found>>

(***************************************************************************)
(* _executions: the first flow of that alias, or nothing.                  *)
(***************************************************************************)
Executions(r, alias) ==
  LET named == {i \in DOMAIN r : r[i].alias = alias}
  IN IF named = {} THEN [alias |-> alias, uses |-> {}, subflows |-> <<>>]
     ELSE r[CHOOSE i \in named : \A j \in named : i <= j]

Init ==
  /\ realm \in Realms
  /\ calls = <<<<Root>>>>
  /\ seen = {}
  /\ found = {}

Current == calls[Len(calls)]

Skipped == [calls EXCEPT ![Len(calls)] = Tail(@)]

(***************************************************************************)
(* The next subflow of the innermost call: skipped when it was visited,    *)
(* else collected and descended into.                                      *)
(***************************************************************************)
Visit ==
  /\ calls # <<>>
  /\ Current # <<>>
  /\ LET alias == Head(Current)
         flow == Executions(realm, alias)
     IN IF alias \in seen
        THEN calls' = Skipped /\ UNCHANGED <<seen, found>>
        ELSE /\ seen' = seen \cup {alias}
             /\ found' = found \cup flow.uses
             /\ calls' = Append([calls EXCEPT ![Len(calls)] = Tail(@)], flow.subflows)
  /\ UNCHANGED realm

\* Seeded fault: the walk ends with the first flow that has no more subflows.
ReturnFromAll ==
  /\ calls # <<>>
  /\ Current = <<>>
  /\ calls' = <<>>
  /\ UNCHANGED <<realm, seen, found>>

Return ==
  /\ calls # <<>>
  /\ Current = <<>>
  /\ calls' = SubSeq(calls, 1, Len(calls) - 1)
  /\ UNCHANGED <<realm, seen, found>>

Next == Visit \/ Return

Spec == Init /\ [][Next]_vars

-----------------------------------------------------------------------------
(* Reference: the flows that can be reached *)

Follows(r, a) == Range(Executions(r, a).subflows)

(***************************************************************************)
(* The least set that holds the root and is closed under subflows.         *)
(***************************************************************************)
Reachable(r) ==
  CHOOSE s \in SUBSET Aliases :
    /\ Root \in s
    /\ \A a \in s : Follows(r, a) \subseteq s
    /\ \A t \in SUBSET s :
         Root \in t /\ (\A a \in t : Follows(r, a) \subseteq t) => t = s

(***************************************************************************)
(* When the walk has ended it has collected exactly what the reachable     *)
(* flows use, so that the passkey policy of validate is decided on the     *)
(* whole browser flow, cycles and shared subflows included.                *)
(***************************************************************************)
CollectsReachable ==
  calls = <<>> =>
    found = UNION {Executions(realm, a).uses : a \in Reachable(realm)}
=============================================================================
