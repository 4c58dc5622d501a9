---------------------------- MODULE MCAlgorithms ----------------------------
(***************************************************************************)
(* The pure decisions of the code over small inputs, one per behaviour:    *)
(*   merge  the merge verdict on a pair of accounts (Matching), asked      *)
(*          again with the roles exchanged or an address respelled;        *)
(*   name   the check of a distinguished name (DistinguishedName), typed   *)
(*          one character after the other;                                 *)
(*   flow   the walk of a realm export (RealmFlows): three flows, of three *)
(*          aliases or with one alias twice, each naming up to two         *)
(*          subflows of which one is not defined.                          *)
(***************************************************************************)
EXTENDS Matching, Naturals, Sequences, FiniteSets

CONSTANTS
  Addresses, Spellings, Links,  \* merge
  MaxAny, MaxLive,              \* name
  Aliases, Realms, Root         \* flow

VARIABLES
  decision,                           \* the decision this behaviour is about
  survivor, duplicate, explicitLink,  \* merge
  name, at,                           \* name
  realm, visits, seen, found          \* flow

mergeVars == <<survivor, duplicate, explicitLink>>
nameVars == <<name, at>>
flowVars == <<realm, visits, seen, found>>
decisionVars == <<decision, mergeVars, nameVars, flowVars>>

Spelt == [address: Addresses \cup {Blank}, spelling: Spellings]

RawEmails == {NoEmail} \cup Spelt

Accounts == [email: RawEmails, verified: BOOLEAN, links: SUBSET Links]

Verdict == MergeVerdict(survivor, duplicate, explicitLink)

Names == INSTANCE DistinguishedName

FlowAliases == {"a", "b", "c", "undefined"}

Subflows == {<<>>} \cup {<<x>> : x \in FlowAliases}
              \cup {<<x, y>> : x \in FlowAliases, y \in FlowAliases}

Flow(alias) ==
  [alias: {alias}, uses: {{"passkey"}, {"form"}}, subflows: Subflows]

FlowRealms ==
  {<<f, g, h>> : f \in Flow("a"), g \in Flow("b"), h \in Flow("c")}
  \cup {<<f, g, h>> : f \in [alias: {"a"}, uses: {{"passkey"}}, subflows: Subflows],
                      g \in [alias: {"b"}, uses: {{"other"}}, subflows: Subflows],
                      h \in [alias: {"b"}, uses: {{"form"}}, subflows: {<<>>}]}

Flows == INSTANCE RealmFlows WITH calls <- visits

(***************************************************************************)
(* What the merge decision and the walk are given: the absence of an       *)
(* e-mail is no e-mail, and a realm export is a list of flows.             *)
(***************************************************************************)
MergeInputs == NoEmail \notin Addresses \cup Spelt

FlowInputs ==
  /\ Root \in Aliases
  /\ Realms \subseteq Seq([alias: Aliases, uses: SUBSET Flows!Authenticators,
                           subflows: Seq(Aliases)])

ASSUME InputsAssumption == MergeInputs /\ FlowInputs

-----------------------------------------------------------------------------
Nobody == [email |-> NoEmail, verified |-> FALSE, links |-> {}]

NoMerge == survivor = Nobody /\ duplicate = Nobody /\ explicitLink = FALSE

NoWalk == realm = <<>> /\ visits = <<>> /\ seen = {} /\ found = {}

DecisionInit ==
  \/ /\ decision = "merge"
     /\ survivor \in Accounts
     /\ duplicate \in Accounts
     /\ explicitLink \in BOOLEAN
     /\ Names!Init
     /\ NoWalk
  \/ decision = "name" /\ NoMerge /\ Names!Init /\ NoWalk
  \/ decision = "flow" /\ NoMerge /\ Names!Init /\ Flows!Init

Exchange ==
  /\ survivor' = duplicate
  /\ duplicate' = survivor
  /\ UNCHANGED explicitLink

Respell ==
  /\ survivor.email # NoEmail
  /\ \E spelling \in Spellings :
       survivor' = [survivor EXCEPT !.email.spelling = spelling]
  /\ UNCHANGED <<duplicate, explicitLink>>

DecisionNext ==
  /\ UNCHANGED decision
  /\ \/ /\ decision = "merge"
        /\ Exchange \/ Respell
        /\ UNCHANGED <<nameVars, flowVars>>
     \/ /\ decision = "name"
        /\ Names!Next
        /\ UNCHANGED <<mergeVars, flowVars>>
     \/ /\ decision = "flow"
        /\ Flows!Next
        /\ UNCHANGED <<mergeVars, nameVars>>

DecisionSpec == DecisionInit /\ [][DecisionNext]_decisionVars

-----------------------------------------------------------------------------
(***************************************************************************)
(* decide_match and the unverified-email rule treat the two accounts       *)
(* alike, and neither case nor surrounding blanks of an address matter, in *)
(* matching.py or in the comparison service.py makes again: exchanging the *)
(* accounts or respelling an address never changes the verdict.            *)
(***************************************************************************)
VerdictStable ==
  [][decision = "merge" => Verdict' = Verdict]_decisionVars

(***************************************************************************)
(* The hard rule of service.py: an unverified address in common never      *)
(* carries a merge, even with explicit_link; only a link in common does.   *)
(***************************************************************************)
NeverOnUnverifiedEmail ==
  (/\ Verdict = "merge"
   /\ NoEmail \notin {survivor.email, duplicate.email}
   /\ survivor.email.address = duplicate.email.address
   /\ survivor.email.address # Blank
   /\ ~(survivor.verified /\ duplicate.verified))
  => \E link \in Links : link \in survivor.links /\ link \in duplicate.links

(***************************************************************************)
(* _validate_distinguished_name accepts exactly the names of the grammar   *)
(* of RFC 4514 in the code's profile: escaped separators and backslashes,  *)
(* hexadecimal pairs, leading and trailing spaces included.                *)
(***************************************************************************)
AcceptsGrammar == decision = "name" => Names!AcceptsGrammar

(***************************************************************************)
(* When _all_authenticators has ended it has collected exactly what the    *)
(* reachable flows use, cycles and shared subflows included, so that the   *)
(* passkey policy is decided on the whole browser flow.                    *)
(***************************************************************************)
CollectsReachable == decision = "flow" => Flows!CollectsReachable
=============================================================================
