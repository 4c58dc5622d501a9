----------------------- MODULE ProductWorkflowProofs -----------------------
(***************************************************************************)
(* Proofs about the product workflow: the broker's permits add up for any  *)
(* number of handlers and slots, and what the guard publishes, for any     *)
(* paths, workspaces and limits and however the artifacts are altered.     *)
(***************************************************************************)
EXTENDS ProductWorkflow, FiniteSetTheorems, TLAPS

-----------------------------------------------------------------------------
(* The broker *)

(***************************************************************************)
(* The inductive invariant: the permits add up.                            *)
(***************************************************************************)
Inv == TypeOK /\ PermitsAccounted

(***************************************************************************)
(* A handler still reading its request has answered nothing yet.           *)
(***************************************************************************)
Unanswered ==
  \A h \in Handlers : pc[h] \in {"reading", "ready"} => answer[h] = 0

(***************************************************************************)
(* The handlers that hold a permit are finitely many.                      *)
(***************************************************************************)
LEMMA HoldersFinite == IsFiniteSet(Holders) /\ Cardinality(Holders) \in Nat
  BY NimBrokerAssumption, FS_Subset, FS_CardinalityType, Zenon DEF Holders

(***************************************************************************)
(* At the start every permit of request_slots is there.                    *)
(***************************************************************************)
LEMMA InitInv == Init => Inv
<1> SUFFICES ASSUME Init PROVE Inv
  OBVIOUS
<1>1. Holders = {}
  BY Zenon DEF Init, Holders, Holding
<1>2. Cardinality(Holders) = 0
  BY <1>1, FS_EmptySet, Zenon
<1> QED BY <1>2, NimBrokerAssumption DEF Init, Inv, TypeOK, PermitsAccounted, Statuses

(***************************************************************************)
(* A handler that takes a permit becomes a holder.                         *)
(***************************************************************************)
LEMMA HolderAdded ==
  ASSUME TypeOK, NEW h \in Handlers, pc[h] \notin Holding,
         NEW at \in Holding, pc' = [pc EXCEPT ![h] = at]
  PROVE  Cardinality(Holders') = Cardinality(Holders) + 1
<1>1. Holders' = Holders \cup {h} /\ h \notin Holders
  BY Zenon DEF TypeOK, Holders
<1> QED BY <1>1, HoldersFinite, FS_AddElement, Zenon

(***************************************************************************)
(* A handler that gives its permit back is no longer a holder.             *)
(***************************************************************************)
LEMMA HolderRemoved ==
  ASSUME TypeOK, NEW h \in Handlers, pc[h] \in Holding,
         NEW at, at \notin Holding, pc' = [pc EXCEPT ![h] = at]
  PROVE  Cardinality(Holders') = Cardinality(Holders) - 1 /\ Cardinality(Holders) > 0
<1>1. Holders' = Holders \ {h} /\ h \in Holders
  BY Zenon DEF TypeOK, Holders
<1>2. Cardinality(Holders \ {h}) = Cardinality(Holders) - 1
  BY <1>1, HoldersFinite, FS_RemoveElement, Zenon
<1>3. IsFiniteSet(Holders \ {h})
  BY <1>1, HoldersFinite, FS_Subset, Zenon
<1>4. Cardinality(Holders \ {h}) \in Nat
  BY <1>3, FS_CardinalityType, Zenon
<1> QED BY <1>1, <1>2, <1>4, HoldersFinite

(***************************************************************************)
(* Any other move leaves the holders alone.                                *)
(***************************************************************************)
LEMMA HoldersKept ==
  ASSUME TypeOK, NEW h \in Handlers, NEW at, (pc[h] \in Holding) <=> (at \in Holding),
         pc' = [pc EXCEPT ![h] = at]
  PROVE  Holders' = Holders
  BY Zenon DEF TypeOK, Holders

(***************************************************************************)
(* Every step of the broker keeps the account of its permits.              *)
(***************************************************************************)
LEMMA NextInv ==
  ASSUME Inv, [Next]_vars
  PROVE  Inv'
<1> USE DEF Inv, TypeOK, PermitsAccounted, Goto, Statuses
<1>1. CASE UNCHANGED vars
  BY <1>1 DEF vars, Holders
<1>2. ASSUME NEW h \in Handlers, Serve(h) PROVE Inv'
  <2>1. CASE UNCHANGED pc
    BY <1>2, <2>1 DEF Serve, Holders
  <2>2. CASE Goto(h, "reading")
    <3>1. Holders' = Holders
      BY <1>2, <2>2, HoldersKept, ZenonT(30) DEF Serve, Holding
    <3> QED BY <1>2, <2>2, <3>1 DEF Serve
  <2> QED BY <1>2, <2>1, <2>2, ZenonT(30) DEF Serve
<1>3. ASSUME NEW h \in Handlers, Read(h) PROVE Inv'
  <2>1. Holders' = Holders
    BY <1>3, HoldersKept DEF Read, Holding
  <2> QED BY <1>3, <2>1 DEF Read
<1>4. ASSUME NEW h \in Handlers, Acquire(h) PROVE Inv'
  <2>1. CASE slots > 0
    <3>1. Cardinality(Holders') = Cardinality(Holders) + 1
      BY <1>4, <2>1, HolderAdded DEF Acquire, Holding
    <3> QED BY <1>4, <2>1, <3>1, HoldersFinite, NimBrokerAssumption DEF Acquire
  <2>2. CASE slots = 0
    <3>1. Holders' = Holders
      BY <1>4, <2>2, HoldersKept DEF Acquire, Holding
    <3> QED BY <1>4, <2>2, <3>1 DEF Acquire
  <2> QED BY <1>4, <2>1, <2>2, ZenonT(30) DEF Acquire
<1>5. ASSUME NEW h \in Handlers, Upstream(h) PROVE Inv'
  <2>1. CASE Goto(h, "failed") /\ UNCHANGED slots
    <3>1. Holders' = Holders
      BY <1>5, <2>1, HoldersKept, ZenonT(30) DEF Upstream, Holding
    <3> QED BY <1>5, <2>1, <3>1, ZenonT(30) DEF Upstream
  <2>2. ASSUME NEW at \in {"writing", "idle"}, Goto(h, at), Release PROVE Inv'
    <3>1. Cardinality(Holders') = Cardinality(Holders) - 1 /\ Cardinality(Holders) > 0
      BY <1>5, <2>2, HolderRemoved, ZenonT(30) DEF Upstream, Holding
    <3> QED BY <1>5, <2>2, <3>1, HoldersFinite, NimBrokerAssumption DEF Upstream, Release
  <2> QED BY <1>5, <2>1, <2>2, ZenonT(30) DEF Upstream
<1>6. ASSUME NEW h \in Handlers, Fail(h) PROVE Inv'
  <2>1. Cardinality(Holders') = Cardinality(Holders) - 1 /\ Cardinality(Holders) > 0
    <3>1. pc[h] \in Holding /\ "idle" \notin Holding /\ pc' = [pc EXCEPT ![h] = "idle"]
      BY <1>6, ZenonT(30) DEF Fail, Holding
    <3> QED BY <3>1, HolderRemoved, ZenonT(30)
  <2> QED BY <1>6, <2>1, HoldersFinite, NimBrokerAssumption DEF Fail, Release
<1>7. ASSUME NEW h \in Handlers, Write(h) PROVE Inv'
  <2>1. Holders' = Holders
    BY <1>7, HoldersKept, ZenonT(30) DEF Write, Holding
  <2> QED BY <1>7, <2>1 DEF Write
<1> QED BY <1>1, <1>2, <1>3, <1>4, <1>5, <1>6, <1>7, ZenonT(30) DEF Next, Step

(***************************************************************************)
(* On every path through _forward the permits left and the permits held    *)
(* make up max_concurrency.                                                *)
(***************************************************************************)
THEOREM PermitsAlwaysAccounted == Spec => []PermitsAccounted
<1>1. Inv => PermitsAccounted
  BY Zenon DEF Inv
<1> QED BY InitInv, NextInv, <1>1, PTL DEF Spec

(***************************************************************************)
(* Serve forgets the handler's earlier answer before _forward runs.        *)
(***************************************************************************)
LEMMA NextUnanswered ==
  ASSUME Inv, Unanswered, [Next]_vars
  PROVE  Unanswered'
  BY DEF Inv, TypeOK, Unanswered, Next, vars, Serve, Read, Write, Step, Acquire,
         Upstream, Fail, Goto

(***************************************************************************)
(* A handler answers 429 only while max_concurrency others hold a permit.  *)
(***************************************************************************)
THEOREM RefusalsJustified == Spec => RefusedOnlyWhenFull
<1> DEFINE Justified ==
      \A h \in Handlers :
        pc[h] = "ready" /\ answer'[h] = 429 => Cardinality(Holders \ {h}) = Slots
<1>1. Init => Unanswered
  BY Zenon DEF Init, Unanswered
<1>2. ASSUME Inv, Unanswered, [Next]_vars PROVE [Justified]_vars
  <2> SUFFICES ASSUME Next, NEW h \in Handlers, pc[h] = "ready", answer'[h] = 429
               PROVE  Cardinality(Holders \ {h}) = Slots
    BY <1>2, Zenon
  <2>1. Holders \ {h} = Holders
    BY Zenon DEF Holders, Holding
  <2>2. answer[h] = 0
    BY <1>2, ZenonT(30) DEF Unanswered
  <2>3. PICK g \in Handlers : Serve(g) \/ Read(g) \/ Write(g) \/ Step(g)
    BY Zenon DEF Next
  <2>4. slots = 0
    BY <1>2, <2>2, <2>3
    DEF Inv, TypeOK, Serve, Read, Write, Step, Acquire, Upstream, Fail, Goto
  <2> QED BY <1>2, <2>1, <2>4, HoldersFinite DEF Inv, PermitsAccounted
<1> QED BY InitInv, NextInv, <1>1, NextUnanswered, <1>2, PTL
    DEF Spec, RefusedOnlyWhenFull

-----------------------------------------------------------------------------
(* The guard *)

Stages ==
  {"develop", "unchanged", "refused", "captured", "published", "rejected"}

(***************************************************************************)
(* From the capture on, the workspace is what was captured, and an         *)
(* artifact nobody altered is as sealed.                                   *)
(***************************************************************************)
SealInv ==
  stage \in {"captured", "published", "rejected"} =>
    /\ Guard!WorktreeValid(work)
    /\ Guard!NoCredential(work)
    /\ Guard!ProposalReadable(meta)
    /\ Guard!PatchBytes(work) <= MaxPatchBytes
    /\ sealed = <<work, [base |-> base, digest |-> work, paths |-> Guard!PathsOf(work),
                         meta |-> meta]>>
    /\ patch \in Workspaces \cup Patches
    /\ "patch" \notin altered => patch = work
    /\ "envelope" \notin altered => envelope = sealed[2]

(***************************************************************************)
(* The verdict of the later job still holds of what it decided on.         *)
(***************************************************************************)
VerdictInv ==
  /\ stage = "published" =>
       /\ Guard!ApplyAccepts
       /\ published = [base |-> head, change |-> Guard!Materialized(patch)]
  /\ stage # "published" => published = None
  /\ stage = "rejected" => ~Guard!ApplyAccepts \/ ~Guard!SurelyApplies

GuardInv ==
  /\ stage \in Stages
  /\ running => stage = "develop"
  /\ work \in Workspaces
  /\ altered \subseteq {"patch", "envelope"}
  /\ SealInv
  /\ VerdictInv

(***************************************************************************)
(* Every step of the workflow keeps the guard's invariant.                 *)
(***************************************************************************)
LEMMA GuardStep ==
  ASSUME GuardInv, [WorkflowNext]_workflowVars
  PROVE  GuardInv'
<1>1. CASE UNCHANGED <<guardVars, running>>
  BY <1>1, Zenon DEF guardVars, GuardInv, SealInv, VerdictInv, Guard!ApplyAccepts, Guard!SealIntact, Guard!BaseUnmoved,
    Guard!SurelyApplies
<1>2. CASE StopBroker
  BY <1>2, Zenon DEF StopBroker, GuardInv, SealInv, VerdictInv
<1>3. CASE Guard!MoveBranch /\ UNCHANGED running
  BY <1>3, Zenon DEF Guard!MoveBranch, GuardInv, SealInv, VerdictInv
<1>4. CASE Guard!MoveBaseline /\ UNCHANGED running
  BY <1>4, Zenon DEF Guard!MoveBaseline, GuardInv, SealInv, VerdictInv
<1>5. CASE Guard!Capture /\ UNCHANGED running /\ ~running
  <2>1. CASE stage' \in {"unchanged", "refused"}
    BY <1>5, <2>1, Zenon DEF Guard!Capture, GuardInv, SealInv, VerdictInv, Stages
  <2>2. CASE stage' = "captured"
    <3>1. Guard!CaptureAccepts
      BY <1>5, <2>2, Zenon DEF Guard!Capture
    <3> QED
      BY <1>5, <2>2, <3>1 DEF Guard!Capture, Guard!CaptureAccepts, GuardInv, SealInv, VerdictInv, Stages
  <2> QED
    BY <1>5, <2>1, <2>2, Zenon DEF Guard!Capture
<1>6. CASE Guard!Apply /\ UNCHANGED running /\ ~running
  <2>1. /\ Guard!ApplyAccepts' <=> Guard!ApplyAccepts
        /\ Guard!SurelyApplies' <=> Guard!SurelyApplies
    BY <1>6, Zenon DEF Guard!Apply, Guard!ApplyAccepts, Guard!SealIntact, Guard!BaseUnmoved,
       Guard!SurelyApplies
  <2> QED
    BY <1>6, <2>1, Zenon DEF Guard!Apply, GuardInv, SealInv, VerdictInv, Stages
<1>7. CASE Guard!AlterPatch /\ UNCHANGED running /\ ~running
  BY <1>7, Zenon DEF Guard!AlterPatch, GuardInv, SealInv, VerdictInv
<1>8. CASE Guard!AlterEnvelope /\ UNCHANGED running /\ ~running
  BY <1>8, Zenon DEF Guard!AlterEnvelope, GuardInv, SealInv, VerdictInv
<1> QED
  BY <1>1, <1>2, <1>3, <1>4, <1>5, <1>6, <1>7, <1>8, Zenon
  DEF WorkflowNext, workflowVars, Broker, Around, Jobs

(***************************************************************************)
(* git apply makes a change without hard links and empty entries as it is. *)
(***************************************************************************)
LEMMA MaterializedKept ==
  ASSUME NEW p, p \subseteq Guard!Entry,
         \A e \in p : e.kind # "noop" /\ e.file # "hardlink"
  PROVE  Guard!Materialized(p) = p
<1>1. \A e \in p : [e EXCEPT !.file = IF @ = "hardlink" THEN "regular" ELSE @] = e
  BY Zenon DEF Guard!Entry
<1>2. {x \in p : x.kind # "noop"} = p
  OBVIOUS
<1> QED
  BY <1>1, <1>2, Zenon DEF Guard!Materialized

(***************************************************************************)
(* A workspace has as many entries as paths: it names no file twice.       *)
(***************************************************************************)
LEMMA OneEntryPerPath ==
  ASSUME NEW p \in Workspaces
  PROVE  Guard!Cardinality(p) = Guard!Cardinality(Guard!PathsOf(p))
<1>1. \A S : Guard!Cardinality(S) = Cardinality(S)
  BY Zenon DEF Guard!Cardinality, Cardinality
<1>2. IsFiniteSet(p) /\ \A e, f \in p : e.path = f.path => e = f
  BY WorkflowAssumption, Zenon
<1> DEFINE path == [e \in p |-> e.path]
<1>3. path \in Bijection(p, Guard!PathsOf(p))
  BY <1>2, Zenon DEF Bijection, Injection, Surjection, IsInjective, Guard!PathsOf
<1>4. Cardinality(p) = Cardinality(Guard!PathsOf(p))
  BY <1>2, <1>3, FS_Bijection, Zenon DEF ExistsBijection
<1> QED
  BY <1>1, <1>4, Zenon

(***************************************************************************)
(* A captured workspace is what git apply makes of its patch.              *)
(***************************************************************************)
LEMMA CapturedKept ==
  ASSUME GuardInv, stage \in {"captured", "published", "rejected"}
  PROVE  /\ Guard!Materialized(work) = work
         /\ sealed[1] = work
         /\ sealed[2].base = base /\ sealed[2].digest = work
         /\ sealed[2].paths = Guard!PathsOf(work) /\ sealed[2].meta = meta
<1>1. Guard!WorktreeValid(work) /\ work \in Workspaces
  BY Zenon DEF GuardInv, SealInv
<1>2. \A e \in work : e.kind # "noop" /\ e.file # "hardlink"
  BY <1>1, WorkflowAssumption, Zenon DEF Guard!WorktreeValid
<1>3. Guard!Materialized(work) = work
  BY <1>1, <1>2, MaterializedKept, WorkflowAssumption, Zenon
<1> QED
  BY <1>3 DEF GuardInv, SealInv

(***************************************************************************)
(* The invariant holds throughout the workflow (capture, apply_patch).     *)
(***************************************************************************)
THEOREM GuardInvariance == WorkflowSpec => []GuardInv
<1>1. WorkflowInit => GuardInv
  BY WorkflowAssumption, Zenon DEF WorkflowInit, Guard!Init, GuardInv, SealInv, VerdictInv, Stages
<1> QED
  BY <1>1, GuardStep, PTL DEF WorkflowSpec

(***************************************************************************)
(* Digest and base of the envelope tie what apply_patch publishes to the   *)
(* captured change.                                                        *)
(***************************************************************************)
LEMMA PublishedIsCaptured == GuardInv => PublishedAsCaptured
<1> SUFFICES ASSUME GuardInv, published # None
             PROVE  /\ altered # {"patch", "envelope"} => published.change = sealed[1]
                    /\ "envelope" \notin altered => published.base = base
  BY Zenon DEF PublishedAsCaptured, Guard!PublishedAsCaptured
<1>1. /\ stage = "published" /\ Guard!SealIntact /\ Guard!BaseUnmoved
      /\ published = [base |-> head, change |-> Guard!Materialized(patch)]
  BY Zenon DEF GuardInv, VerdictInv, Guard!ApplyAccepts
<1>2. /\ "patch" \notin altered => patch = work
      /\ "envelope" \notin altered => envelope = sealed[2]
  BY <1>1, Zenon DEF GuardInv, SealInv
<1>3. ASSUME altered # {"patch", "envelope"} PROVE patch = work
  <2>1. "patch" \notin altered \/ "envelope" \notin altered
    BY <1>3, Zenon DEF GuardInv
  <2> QED
    BY <1>1, <1>2, <2>1, CapturedKept, Zenon DEF Guard!SealIntact
<1> QED
  BY <1>1, <1>2, <1>3, CapturedKept, Zenon DEF Guard!BaseUnmoved

(***************************************************************************)
(* With one of the two artifacts intact what apply_patch publishes is the  *)
(* captured change, and with the envelope intact on its base.              *)
(***************************************************************************)
THEOREM PublishesTheCapture == WorkflowSpec => []PublishedAsCaptured
  BY PublishedIsCaptured, GuardInvariance, PTL

(***************************************************************************)
(* Whatever happened to the artifacts, what apply_patch publishes is       *)
(* within the boundary (validate_worktree_diff on what git apply made),    *)
(* and with one artifact intact free of credentials, as captured.          *)
(***************************************************************************)
THEOREM PublishesWithinBoundary == WorkflowSpec => []PublishedWithinBoundary
<1>1. GuardInv => PublishedWithinBoundary
  <2> SUFFICES ASSUME GuardInv, published # None
               PROVE  Guard!PublishedWithinBoundary
    BY Zenon DEF PublishedWithinBoundary, Guard!PublishedWithinBoundary
  <2> DEFINE c == Guard!Materialized(patch)
  <2>1. /\ stage = "published" /\ published.change = c
        /\ Guard!WorktreeValid(c) /\ patch \in Workspaces \cup Patches
    BY DEF GuardInv, SealInv, VerdictInv, Guard!ApplyAccepts
  <2>2. ASSUME NEW e \in c PROVE e.kind \in {"edit", "new", "delete", "mode"}
    <3>1. PICK x \in patch :
            /\ x.kind # "noop"
            /\ e = [x EXCEPT !.file = IF @ = "hardlink" THEN "regular" ELSE @]
      BY Zenon DEF Guard!Materialized
    <3>2. x \in Guard!Entry
      BY <2>1, WorkflowAssumption, Zenon
    <3>3. e.kind = x.kind
      BY <3>1, <3>2, Zenon DEF Guard!Entry
    <3> QED
      BY <3>1, <3>2, <3>3, Zenon DEF Guard!Entry
  <2> HIDE DEF c
  <2>3. \A e \in c : e.kind \in {"edit", "new"} /\ e.file = "regular"
    BY <2>1, <2>2, Zenon DEF Guard!WorktreeValid
  <2>4. Guard!PathsOf(c) \subseteq Allowed
    BY <2>1, Zenon DEF Guard!WorktreeValid, Guard!PathsOf
  <2>5. altered # {"patch", "envelope"} => Guard!NoCredential(c)
    BY <2>1, PublishedIsCaptured, CapturedKept, Zenon
    DEF PublishedAsCaptured, Guard!PublishedAsCaptured, GuardInv, SealInv
  <2> QED
    BY <2>1, <2>3, <2>4, <2>5, Zenon DEF Guard!PublishedWithinBoundary, Guard!WorktreeValid
<1> QED
  BY <1>1, GuardInvariance, PTL

(***************************************************************************)
(* apply_patch refuses an unaltered capture on an unmoved branch only for  *)
(* a diff that is not UTF-8 or reads like a file marker or a directive, or *)
(* for metadata that grows when escaped.                                   *)
(***************************************************************************)
THEOREM CapturesAreApplied == WorkflowSpec => []CapturedIsApplied
<1>1. GuardInv => CapturedIsApplied
  <2> SUFFICES ASSUME GuardInv, stage = "rejected", altered = {}, head = base,
                      \A e \in work : e.text \notin {"notUtf8", "marker", "directive"},
                      meta # "escapes"
               PROVE  Guard!ApplyAccepts /\ Guard!SurelyApplies
    BY CapturedKept, Zenon DEF CapturedIsApplied, Guard!CapturedIsApplied, GuardInv, VerdictInv
  <2>1. /\ Guard!WorktreeValid(work) /\ Guard!ProposalReadable(meta)
        /\ Guard!PatchBytes(work) <= MaxPatchBytes
        /\ patch = work /\ envelope = sealed[2] /\ work \in Workspaces
    BY Zenon DEF GuardInv, SealInv
  <2>2. /\ envelope.base = base /\ envelope.digest = work
        /\ envelope.paths = Guard!PathsOf(work) /\ envelope.meta = meta
        /\ Guard!Materialized(patch) = work
    BY <2>1, CapturedKept, Zenon
  <2>3. Guard!EnvelopeValid(envelope)
    BY <2>1, <2>2
    DEF Guard!EnvelopeValid, Guard!WorktreeValid, Guard!PathsOf, Guard!ProposalReadable
  <2>4. ASSUME NEW e \in work
        PROVE  /\ e.path = e.right /\ e.path \in Allowed
               /\ e.kind \notin {"delete", "mode"} /\ e.file = "regular"
               /\ e.text \notin {"binary", "notUtf8", "marker", "directive"}
               /\ \A f \in work : f.path = e.path => f = e
    BY <2>1, WorkflowAssumption DEF Guard!WorktreeValid, Guard!Entry
  <2>5. Guard!PatchTextValid(patch)
    BY <2>1, <2>4, OneEntryPerPath, Zenon DEF Guard!PatchTextValid, Guard!WorktreeValid
  <2> QED
    BY <2>1, <2>2, <2>3, <2>5, Zenon
    DEF Guard!ApplyAccepts, Guard!SealIntact, Guard!BaseUnmoved, Guard!SurelyApplies
<1> QED
  BY <1>1, GuardInvariance, PTL

(***************************************************************************)
(* Killing the broker with its requests returns every permit with them:    *)
(* the permits add up throughout the workflow.                             *)
(***************************************************************************)
THEOREM PermitsThroughoutWorkflow == WorkflowSpec => []PermitsAccounted
<1>1. WorkflowInit => Inv
  BY InitInv, Zenon DEF WorkflowInit
<1>2. Inv /\ [WorkflowNext]_workflowVars => Inv'
  <2> SUFFICES ASSUME Inv, [WorkflowNext]_workflowVars PROVE Inv'
    OBVIOUS
  <2>1. CASE [Next]_vars
    BY <2>1, NextInv, Zenon
  <2>2. CASE StopBroker
    <3>1. Holders' = {}
      BY <2>2, Zenon DEF StopBroker, Holders, Holding
    <3>2. Cardinality(Holders') = 0
      BY <3>1, FS_EmptySet, Zenon
    <3> QED
      BY <2>2, <3>2, NimBrokerAssumption DEF StopBroker, Inv, TypeOK, PermitsAccounted, Statuses
  <2> QED
    BY <2>1, <2>2, Zenon DEF WorkflowNext, workflowVars, Broker, Around, Jobs
<1>3. Inv => PermitsAccounted
  BY Zenon DEF Inv
<1> QED
  BY <1>1, <1>2, <1>3, PTL DEF WorkflowSpec
=============================================================================
