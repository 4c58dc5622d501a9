------------------------------ MODULE Startup -------------------------------
(***************************************************************************)
(* The life of one service process (app/main.py, app/bootstrap.py,         *)
(* app/config.py) and the tool that seeds its configuration store          *)
(* (tools/seed_config_store.py), which commits one entry at a time and may *)
(* run, or die, while a service starts.                                    *)
(*                                                                         *)
(* A text value is only ever good or bad (what a parser of config.py       *)
(* refuses); the two bearer tokens are told apart because load_service_    *)
(* config compares them.  Each entry of the store is one of Entries, put   *)
(* and read by a transaction of its own.                                   *)
(***************************************************************************)
EXTENDS Naturals, Sequences, FiniteSets, TLC

CONSTANTS
  Tokens,     \* bearer tokens
  AuditPaths, \* audit database paths the tool is given: "memory", "file"
  ArgumentFlaws, \* registration settings the tool may be given unfit
  PlatformFlaws, \* fixed settings a platform store may hold other than fixed
  MaxSeeds,   \* bound on runs of the seeding tool
  MaxStarts,  \* bound on service starts
  Unset

KeycloakEntries == {"serverUrl", "realm", "clientId", "clientSecret"}
RegistrationEntries == {"registrationClient", "redirectUri", "lifespan"}
FixedEntries == {"allowUnverified", "mergePolicy", "timeout"}

ASSUME StartupAssumption ==
  /\ AuditPaths \subseteq {"memory", "file"}
  /\ ArgumentFlaws \subseteq RegistrationEntries
  /\ PlatformFlaws \subseteq FixedEntries

Entries ==
  KeycloakEntries \cup RegistrationEntries \cup FixedEntries
    \cup {"operator", "registrationToken", "auditPath"}

Values == Tokens \cup {Unset, "good", "bad", "memory", "file"}

Resources == {"store", "api", "audit"}

VARIABLES
  kv,        \* the configuration store
  args,      \* arguments of the seeding run under way, or Unset
  todo,      \* entries it has still to put, in order
  seeds,     \* seeding runs started
  putBy,     \* history: the seeding run that put each entry, 0 for none
  phase,     \* where the service is
  read,      \* entries load_service_config has read, with their values
  readBy,    \* history: the seeding runs that put what was read
  open,      \* resources of the service that are open
  ready,     \* app.state.ready
  tempFiles, \* temporary lock databases on disk
  tempKnown, \* app.state knows of a temporary lock database
  starts,    \* service starts
  spoilt     \* history: starts after which something failed

seeder == <<args, todo, seeds, putBy>>
service == <<phase, read, readBy, open, ready, tempFiles, tempKnown, starts, spoilt>>
lifeVars == <<kv, seeder, service>>

Unread == [e \in Entries |-> Unset]
ByNone == [e \in Entries |-> 0]

(***************************************************************************)
(* A platform store, one of whose fixed settings may be other than fixed.  *)
(***************************************************************************)
PlatformStore(token, flaw) ==
  [e \in Entries |->
     CASE e = "operator" -> token
       [] e = flaw -> "bad"
       [] e \in KeycloakEntries -> "good"
       [] OTHER -> Unset]

LifeInit ==
  /\ kv \in {Unread} \cup
            {PlatformStore(token, flaw) : token \in Tokens, flaw \in PlatformFlaws}
  /\ args = Unset
  /\ todo = <<>>
  /\ seeds = 0
  /\ putBy = ByNone
  /\ phase = "down"
  /\ read = Unread
  /\ readBy = ByNone
  /\ open = {}
  /\ ready = FALSE
  /\ tempFiles = 0
  /\ tempKnown = FALSE
  /\ starts = 0
  /\ spoilt = 0

-----------------------------------------------------------------------------
(* The seeding tool *)

(***************************************************************************)
(* The arguments of main, of which one of the registration settings may be *)
(* unfit: the tool does not look at them.                                  *)
(***************************************************************************)
Argument(operator, token, audit, flaw) ==
  [e \in Entries |->
     CASE e = "operator" -> operator
       [] e = "registrationToken" -> token
       [] e = "auditPath" -> audit
       [] e = flaw -> "bad"
       [] OTHER -> "good"]

Arguments ==
  {Argument(operator, Unset, audit, "none") :
     operator \in Tokens, audit \in AuditPaths}
  \cup
  {Argument(operator, token, audit, flaw) :
     operator \in Tokens, token \in Tokens, audit \in AuditPaths,
     flaw \in ArgumentFlaws \cup {"none"}}

\* Seeded fault: the operator token is put first.
SeedOrderTokenFirst(a) ==
  <<"operator", "serverUrl", "realm", "clientId", "clientSecret">>

(***************************************************************************)
(* What main puts, in order: _registration_entries adds its entries,       *)
(* complete, only for a registration token.                                *)
(***************************************************************************)
SeedOrder(a) ==
  <<"serverUrl", "realm", "clientId", "clientSecret", "mergePolicy", "allowUnverified",
    "operator", "auditPath">> \o
  IF a["registrationToken"] = Unset THEN <<>>
  ELSE <<"registrationToken", "registrationClient", "redirectUri", "lifespan">>

SeedStart ==
  /\ args = Unset
  /\ seeds < MaxSeeds
  /\ \E a \in Arguments : args' = a /\ todo' = SeedOrder(a)
  /\ seeds' = seeds + 1
  /\ UNCHANGED <<kv, putBy, service>>

SeedPut ==
  /\ args # Unset
  /\ todo # <<>>
  /\ kv' = [kv EXCEPT ![Head(todo)] = args[Head(todo)]]
  /\ putBy' = [putBy EXCEPT ![Head(todo)] = seeds]
  /\ todo' = Tail(todo)
  /\ UNCHANGED <<args, seeds, service>>

SeedEnd ==
  /\ args # Unset
  /\ todo = <<>>
  /\ args' = Unset
  /\ UNCHANGED <<kv, putBy, todo, seeds, service>>

SeedDies ==
  /\ args # Unset
  /\ args' = Unset
  /\ todo' = <<>>
  /\ UNCHANGED <<kv, putBy, seeds, service>>

-----------------------------------------------------------------------------
(* Starting *)

(***************************************************************************)
(* A step of build_service raises: lifespan has not entered its try, so    *)
(* nothing is closed before the process ends; what was read is gone.       *)
(***************************************************************************)
Fails ==
  /\ phase' = "failed"
  /\ spoilt' = spoilt + 1
  /\ read' = Unread
  /\ readBy' = ByNone
  /\ UNCHANGED <<open, ready, tempFiles, tempKnown, starts>>

Goes(next) == phase' = next /\ UNCHANGED spoilt

(***************************************************************************)
(* load_bootstrap_descriptor and open_config_store.                        *)
(***************************************************************************)
Start ==
  /\ phase = "down"
  /\ starts < MaxStarts
  /\ starts' = starts + 1
  /\ read' = Unread
  /\ readBy' = ByNone
  /\ ready' = FALSE
  /\ \/ Goes("operator") /\ open' = {"store"}
     \/ phase' = "failed" /\ spoilt' = spoilt + 1 /\ UNCHANGED open
  /\ tempKnown' = FALSE
  /\ UNCHANGED <<kv, seeder, tempFiles>>

(***************************************************************************)
(* The order in which load_service_config reads: the registration settings *)
(* only for a registration token.                                          *)
(***************************************************************************)
NextEntry(e, value) ==
  CASE e = "operator" -> "registrationToken"
    [] e = "registrationToken" ->
         IF value = Unset THEN "allowUnverified" ELSE "registrationClient"
    [] e = "registrationClient" -> "redirectUri"
    [] e = "redirectUri" -> "lifespan"
    [] e = "lifespan" -> "allowUnverified"
    [] e = "allowUnverified" -> "mergePolicy"
    [] e = "mergePolicy" -> "serverUrl"
    [] e = "serverUrl" -> "realm"
    [] e = "realm" -> "clientId"
    [] e = "clientId" -> "clientSecret"
    [] e = "clientSecret" -> "auditPath"
    [] e = "auditPath" -> "timeout"
    [] e = "timeout" -> "directory"

Required == KeycloakEntries \cup {"operator", "registrationClient", "redirectUri"}

(***************************************************************************)
(* _require, the parsers and the comparison of load_service_config.        *)
(***************************************************************************)
Accepts(e, value) ==
  /\ value # "bad"
  /\ e \in Required => value # Unset
  /\ e = "registrationToken" => value # read["operator"]

(***************************************************************************)
(* store.get is a transaction of its own: the seeding tool may commit      *)
(* between two of them.                                                    *)
(***************************************************************************)
ReadEntry ==
  /\ phase \in Entries
  /\ IF Accepts(phase, kv[phase])
     THEN /\ read' = [read EXCEPT ![phase] = kv[phase]]
          /\ readBy' = [readBy EXCEPT ![phase] = putBy[phase]]
          /\ Goes(NextEntry(phase, kv[phase]))
          /\ UNCHANGED <<open, ready, tempFiles, tempKnown, starts>>
     ELSE Fails
  /\ UNCHANGED <<kv, seeder>>

Memory == read["auditPath"] = "memory"

(***************************************************************************)
(* _ensure_parent_directory, the API client, the audit sink, the lock path *)
(* (a temporary file for an in-memory audit database) and the lock         *)
(* database, then the wiring of app.state, which cannot fail.              *)
(***************************************************************************)
Build ==
  /\ \/ /\ phase = "directory"
        /\ open' = open \cup {"api"}
        /\ Goes("audit")
        /\ UNCHANGED <<ready, tempFiles, tempKnown>>
     \/ /\ phase = "audit"
        /\ open' = open \cup {"audit"}
        /\ tempFiles' = IF Memory THEN tempFiles + 1 ELSE tempFiles
        /\ Goes("wire")
        /\ UNCHANGED <<ready, tempKnown>>
     \/ /\ phase = "wire"
        /\ tempKnown' = Memory
        /\ ready' = TRUE
        /\ Goes("up")
        /\ UNCHANGED <<open, tempFiles>>
  /\ UNCHANGED <<kv, seeder, read, readBy, starts>>

BuildFails ==
  /\ phase \in {"directory", "audit", "wire"}
  /\ Fails
  /\ UNCHANGED <<kv, seeder>>

-----------------------------------------------------------------------------
(* Stopping *)

(***************************************************************************)
(* lifespan's finally clause, from its first line on; the configuration is *)
(* used no more.                                                           *)
(***************************************************************************)
Stop ==
  /\ phase = "up"
  /\ Goes("closing")
  /\ ready' = FALSE
  /\ read' = Unread
  /\ readBy' = ByNone
  /\ UNCHANGED <<kv, seeder, open, tempFiles, tempKnown, starts>>

CloseOrder == <<"api", "audit", "store">>

NextOpen == CHOOSE i \in 1 .. 3 : /\ CloseOrder[i] \in open
                                  /\ \A j \in 1 .. i - 1 : CloseOrder[j] \notin open

(***************************************************************************)
(* _close_resource, one after another; one that raises skips the rest and  *)
(* the removal of the temporary file.                                      *)
(***************************************************************************)
Close ==
  /\ phase = "closing"
  /\ open # {}
  /\ \/ /\ open' = open \ {CloseOrder[NextOpen]}
        /\ UNCHANGED <<phase, spoilt>>
     \/ /\ phase' = "failed"
        /\ spoilt' = spoilt + 1
        /\ UNCHANGED open
  /\ UNCHANGED <<kv, seeder, read, readBy, ready, tempFiles, tempKnown, starts>>

\* Seeded fault: the temporary database is left behind.
RemoveNothing ==
  /\ phase = "closing"
  /\ open = {}
  /\ Goes("down")
  /\ UNCHANGED <<kv, seeder, read, readBy, open, ready, tempFiles, tempKnown, starts>>

(***************************************************************************)
(* _remove_temporary_lock_database                                         *)
(***************************************************************************)
Remove ==
  /\ phase = "closing"
  /\ open = {}
  /\ tempFiles' = IF tempKnown THEN tempFiles - 1 ELSE tempFiles
  /\ tempKnown' = FALSE
  /\ Goes("down")
  /\ UNCHANGED <<kv, seeder, read, readBy, open, ready, starts>>

(***************************************************************************)
(* The process ends, after a failure or killed; what it held is released.  *)
(***************************************************************************)
Exit ==
  /\ phase # "down"
  /\ phase' = "down"
  /\ open' = {}
  /\ ready' = FALSE
  /\ tempKnown' = FALSE
  /\ spoilt' = IF phase = "failed" THEN spoilt ELSE spoilt + 1
  /\ read' = Unread
  /\ readBy' = ByNone
  /\ UNCHANGED <<kv, seeder, tempFiles, starts>>

LifeNext ==
  \/ SeedStart \/ SeedPut \/ SeedEnd \/ SeedDies
  \/ Start \/ ReadEntry \/ Build \/ BuildFails
  \/ Stop \/ Close \/ Remove \/ Exit

LifeSpec == LifeInit /\ [][LifeNext]_lifeVars

\* The tokens are only compared with each other.
TokenSymmetry == Permutations(Tokens)

-----------------------------------------------------------------------------
(***************************************************************************)
(* However the seeding tool's writes fall between the reads, a ready       *)
(* service has an operator token, no registration token equal to it, fit   *)
(* registration settings whenever it has a registration token, and         *)
(* Keycloak settings that are all at least as new as its operator token:   *)
(* main puts them before the token and load_service_config reads them      *)
(* after it.                                                               *)
(***************************************************************************)
ReadyIsWhole ==
  ready =>
    /\ read["operator"] \in Tokens
    /\ read["registrationToken"] # read["operator"]
    /\ read["registrationToken"] # Unset =>
         /\ read["registrationClient"] = "good"
         /\ read["redirectUri"] = "good"
         /\ read["lifespan"] # "bad"
    /\ \A e \in KeycloakEntries :
         read[e] = "good" /\ readBy[e] >= readBy["operator"]

(***************************************************************************)
(* Every start that fails, does not close or is killed leaves at most one  *)
(* temporary lock database behind, and one that went well leaves none.     *)
(***************************************************************************)
NoLeftover == phase = "down" => tempFiles <= spoilt

(***************************************************************************)
(* "Registration remains disabled unless its dedicated token is supplied   *)
(* explicitly": when a seeding run without a registration token has put    *)
(* all it has to put, a service that reads the store does not enable       *)
(* registration.                                                           *)
(***************************************************************************)
UnseededRegistrationDisabled ==
  args # Unset /\ todo = <<>> /\ args["registrationToken"] = Unset =>
    kv["registrationToken"] = Unset
=============================================================================
