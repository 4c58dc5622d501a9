------------------------- MODULE DistinguishedName --------------------------
(***************************************************************************)
(* The check of LDAP distinguished names (_validate_distinguished_name of  *)
(* app/directory_federation.py), which splits at unescaped separators and  *)
(* then scans each value, against an automaton that reads the grammar of   *)
(* RFC 4514 from left to right.                                            *)
(*                                                                         *)
(* A name is a sequence of character classes: "h" a letter that is also a  *)
(* hexadecimal digit, "g" any other letter, and the characters that have a *)
(* meaning.  The reserved characters the code treats alike (quotes, angle  *)
(* brackets, semicolon) and numeric attribute types are left out.          *)
(***************************************************************************)
EXTENDS Naturals, Sequences, FiniteSets, FiniteSetsExt

CONSTANTS
  MaxAny,   \* every name up to this length is tried
  MaxLive   \* names that may still become valid are tried up to this length

Backslash == "\\"

Characters == {"h", "g", Backslash, ",", "+", "=", "#", " "}

Escapable == {" ", "#", "+", ",", "=", Backslash}  \* _DN_ESCAPABLE

Reserved == {",", "+", Backslash, "="}             \* _DN_RESERVED

VARIABLES
  name,  \* the characters typed so far
  at     \* where the grammar's automaton is

-----------------------------------------------------------------------------
(* The code *)

(***************************************************************************)
(* The flag of the splitting loops: a backslash protects what follows it   *)
(* unless it is protected itself.                                          *)
(***************************************************************************)
Escaped(s) ==
  LET esc[i \in 1 .. Len(s)] == i > 1 /\ s[i - 1] = Backslash /\ ~esc[i - 1]
  IN esc

\* Seeded fault: a backslash before a separator always protects it.
SeparatorsPlain(s, c) ==
  {i \in 1 .. Len(s) : s[i] = c /\ ~(i > 1 /\ s[i - 1] = Backslash)}

Separators(s, c) == {i \in 1 .. Len(s) : s[i] = c /\ ~Escaped(s)[i]}

(***************************************************************************)
(* _split_unescaped                                                        *)
(***************************************************************************)
SplitUnescaped(s, c) ==
  LET cuts == {0, Len(s) + 1} \cup Separators(s, c)
  IN {SubSeq(s, i + 1, Min({j \in cuts : j > i}) - 1) : i \in cuts \ {Len(s) + 1}}

(***************************************************************************)
(* The type part is a descriptor (_validate_ldap_identifier).              *)
(***************************************************************************)
IdentifierValid(s) == s # <<>> /\ \A i \in DOMAIN s : s[i] \in {"h", "g"}

(***************************************************************************)
(* prefix.rstrip: how many backslashes a text ends with.                   *)
(***************************************************************************)
TrailingBackslashes(s) ==
  Max({n \in 0 .. Len(s) : \A i \in Len(s) - n + 1 .. Len(s) : s[i] = Backslash})

EndsWell(s) ==
  s[Len(s)] = " " => TrailingBackslashes(SubSeq(s, 1, Len(s) - 1)) % 2 = 1

(***************************************************************************)
(* The loop of _validate_dn_value from index i on.                         *)
(***************************************************************************)
ScansFrom(s) ==
  LET HexPair(i) == i + 1 <= Len(s) /\ s[i] = "h" /\ s[i + 1] = "h"
      ok[i \in 1 .. Len(s) + 1] ==
        \/ i > Len(s)
        \/ /\ s[i] = Backslash
           /\ i < Len(s)
           /\ \/ HexPair(i + 1) /\ ok[i + 3]
              \/ ~HexPair(i + 1) /\ s[i + 1] \in Escapable /\ ok[i + 2]
        \/ s[i] \notin Reserved /\ ok[i + 1]
  IN ok

(***************************************************************************)
(* _validate_dn_value                                                      *)
(***************************************************************************)
ValueValid(s) ==
  /\ s # <<>>
  /\ IF s[1] = "#"
     THEN /\ Len(s) > 1 /\ (Len(s) - 1) % 2 = 0
          /\ \A i \in 2 .. Len(s) : s[i] = "h"
     ELSE s[1] # " " /\ EndsWell(s) /\ ScansFrom(s)[1]

(***************************************************************************)
(* One attribute-value assertion, split at its first unescaped equals sign *)
(* (_split_first_unescaped).                                               *)
(***************************************************************************)
AssertionValid(s) ==
  LET cuts == Separators(s, "=")
  IN /\ cuts # {}
     /\ IdentifierValid(SubSeq(s, 1, Min(cuts) - 1))
     /\ ValueValid(SubSeq(s, Min(cuts) + 1, Len(s)))

(***************************************************************************)
(* _validate_distinguished_name                                            *)
(***************************************************************************)
NameValid(s) ==
  /\ s # <<>>
  /\ \A rdn \in SplitUnescaped(s, ",") :
       \A assertion \in SplitUnescaped(rdn, "+") :
         assertion # <<>> /\ AssertionValid(assertion)

-----------------------------------------------------------------------------
(* The grammar of RFC 4514, in the code's profile (no bare equals sign) *)

(***************************************************************************)
(* Where the automaton goes from a position on a character:                *)
(*   type      at or in an attribute type         value   after a character *)
(*   equals    after the equals sign              space   after a space     *)
(*   hash, odd, even   in a hexadecimal value     escape, pair  in an escape *)
(***************************************************************************)
Moves(from, c) ==
  CASE from = "start" -> IF c \in {"h", "g"} THEN "type" ELSE "dead"
    [] from = "type" -> IF c \in {"h", "g"} THEN "type"
                        ELSE IF c = "=" THEN "equals" ELSE "dead"
    [] from = "equals" /\ c = "#" -> "hash"
    [] from = "equals" /\ c = " " -> "dead"
    [] from \in {"hash", "even"} /\ c = "h" -> "odd"
    [] from = "odd" /\ c = "h" -> "even"
    [] from \in {"value", "even"} /\ c \in {",", "+"} -> "start"
    [] from \in {"equals", "value", "space"} /\ c = Backslash -> "escape"
    [] from \in {"value", "space"} /\ c = " " -> "space"
    [] from \in {"equals", "value", "space"} /\ c \in {"h", "g", "#"} -> "value"
    [] from = "escape" /\ c \in Escapable -> "value"
    [] from = "escape" /\ c = "h" -> "pair"
    [] from = "pair" /\ c = "h" -> "value"
    [] OTHER -> "dead"

Accepting == {"value", "even"}

Init == name = <<>> /\ at = "start"

Type ==
  /\ Len(name) < IF at = "dead" THEN MaxAny ELSE MaxLive
  /\ \E c \in Characters : name' = Append(name, c) /\ at' = Moves(at, c)

Next == Type

Spec == Init /\ [][Next]_<<name, at>>

-----------------------------------------------------------------------------
(***************************************************************************)
(* _validate_distinguished_name accepts exactly the names of the grammar:  *)
(* escaped separators, escaped backslashes, hexadecimal pairs, leading and *)
(* trailing spaces included.                                               *)
(***************************************************************************)
AcceptsGrammar == NameValid(name) <=> at \in Accepting
=============================================================================
