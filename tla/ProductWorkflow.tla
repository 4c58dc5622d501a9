-------------------------- MODULE ProductWorkflow ---------------------------
(***************************************************************************)
(* The hourly product workflow: while a model session edits the workspace  *)
(* the broker (NimBroker) serves it; then the broker and whatever the      *)
(* session left running are killed, and only then the guard (ProductGuard) *)
(* captures the change and a later job applies it.                         *)
(***************************************************************************)
EXTENDS NimBroker

CONSTANTS
  Paths, Production, Tests, Changelog, Allowed, Workspaces, Patches, Metas,
  MaxFiles, MaxFileBytes, MaxTotalBytes, MaxLines, MaxPatchBytes, MaxHead, None

VARIABLES
  head, base, baseline, work, meta, stage, patch, envelope, sealed, altered,
  published,
  running  \* whether the broker's process runs

Guard == INSTANCE ProductGuard

(***************************************************************************)
(* A workspace's diff is taken without renames (DIFF_SAFETY): it has one   *)
(* entry per file that differs.                                            *)
(***************************************************************************)
ASSUME WorkflowAssumption ==
  /\ Production \cup Tests \cup {Changelog} \subseteq Allowed
  /\ Allowed \subseteq Paths
  /\ {} \in Workspaces /\ "absent" \in Metas
  /\ \A p \in Workspaces \cup Patches : p \subseteq Guard!Entry
  /\ \A p \in Workspaces :
       /\ IsFiniteSet(p)
       /\ \A e \in p : e.right = e.path /\ e.kind # "noop"
       /\ \A e, f \in p : e.path = f.path => e = f
  /\ Metas \subseteq {"plain", "absent", "linked", "long", "control",
                      "credential", "escapes"}
  /\ {MaxFiles, MaxFileBytes, MaxTotalBytes, MaxLines, MaxPatchBytes,
      MaxHead} \subseteq Nat

guardVars == <<head, base, baseline, work, meta, stage, patch, envelope, sealed,
               altered, published>>

workflowVars == <<vars, guardVars, running>>

WorkflowInit ==
  /\ Init
  /\ Guard!Init
  /\ work = {} /\ meta = "absent"
  /\ running = TRUE

Broker ==
  /\ running
  /\ Next
  /\ UNCHANGED <<guardVars, running>>

(***************************************************************************)
(* The session ends with some workspace and the broker is killed, its      *)
(* requests with it.                                                       *)
(***************************************************************************)
StopBroker ==
  /\ running
  /\ running' = FALSE
  /\ pc' = [h \in Handlers |-> "idle"]
  /\ slots' = Slots
  /\ answer' = [h \in Handlers |-> 0]
  /\ work' \in Workspaces
  /\ meta' \in Metas
  /\ UNCHANGED <<head, base, baseline, stage, patch, envelope, sealed, altered,
                 published>>

\* The protected branch moves whatever the workflow does.
Around ==
  /\ Guard!MoveBranch \/ Guard!MoveBaseline
  /\ UNCHANGED <<vars, running>>

Jobs ==
  /\ ~running
  /\ Guard!Capture \/ Guard!Apply \/ Guard!AlterPatch \/ Guard!AlterEnvelope
  /\ UNCHANGED <<vars, running>>

WorkflowNext == Broker \/ StopBroker \/ Around \/ Jobs

WorkflowSpec == WorkflowInit /\ [][WorkflowNext]_workflowVars

-----------------------------------------------------------------------------
(***************************************************************************)
(* With at most one of the two artifacts altered, what is published is the *)
(* captured change; with the envelope intact it also lands on the commit   *)
(* it was captured against, however the branch moved.                      *)
(***************************************************************************)
PublishedAsCaptured == Guard!PublishedAsCaptured

(***************************************************************************)
(* Whatever happened to the artifacts, the published change touches only   *)
(* product paths, deletes and links nothing, is whole (code, tests,        *)
(* changelog) and within the limits taken together; with at most one of    *)
(* the two artifacts altered it holds no credential.                       *)
(***************************************************************************)
PublishedWithinBoundary == Guard!PublishedWithinBoundary

(***************************************************************************)
(* A captured change that arrives unaltered while the branch has not moved *)
(* is published, unless its diff is not UTF-8, has a line that reads like  *)
(* a file marker or a patch directive, or the metadata grows beyond the    *)
(* envelope's limit when it is escaped: on everything else the checks of   *)
(* the two jobs agree.                                                     *)
(***************************************************************************)
CapturedIsApplied == Guard!CapturedIsApplied
=============================================================================
