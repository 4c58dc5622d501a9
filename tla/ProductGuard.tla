---------------------------- MODULE ProductGuard ----------------------------
(***************************************************************************)
(* The guard of the hourly product workflow                                *)
(* (scripts/ci/hourly_product_guard.py).  One job captures the change a    *)
(* model made to a workspace as a patch and an envelope that names its     *)
(* base commit, digest and paths; a later job on a fresh checkout applies  *)
(* the patch and publishes it.  Between the two the protected branch may   *)
(* move and the artifacts may arrive altered.                              *)
(*                                                                         *)
(* A change is a set of entries, one per file, of which only what the      *)
(* guard looks at is kept.  The text of an entry is what is special about  *)
(* the lines of its diff:                                                  *)
(*   binary      NUL bytes                                                 *)
(*   credential  the model provider's credential                           *)
(*   whitespace  an error git diff --check reports                         *)
(*   notUtf8     bytes that are not UTF-8, without a NUL                   *)
(*   marker      a line that reads "--- x" or "+++ x" in the diff          *)
(*   directive   one of the phrases validate_patch_text forbids            *)
(* A digest stands for the patch it is taken of.                           *)
(***************************************************************************)
EXTENDS Naturals, FiniteSets, FiniteSetsExt

CONSTANTS
  Paths,       \* file names
  Production,  \* those under PRODUCTION_ROOTS
  Tests,       \* those under TEST_ROOT
  Changelog,   \* CHANGELOG.md
  Allowed,     \* those _path_allowed accepts
  Workspaces,  \* changes a workspace may hold
  Patches,     \* patches an altered artifact may hold
  Metas,       \* what PR_MESSAGE.md may be like
  MaxFiles,
  MaxFileBytes,
  MaxTotalBytes,
  MaxLines,
  MaxPatchBytes,
  MaxHead,     \* bound on moves of the protected branch
  None

Entry ==
  [path: Paths, right: Paths,
   kind: {"edit", "new", "delete", "mode", "noop"},
   file: {"regular", "symlink", "hardlink", "executable"},
   text: {"plain", "binary", "credential", "whitespace", "notUtf8", "marker",
          "directive"},
   size: Nat, lines: Nat]

VARIABLES
  head,      \* the protected branch
  base,      \* the base SHA file of the capturing job
  baseline,  \* HEAD of the clone the diff is taken against
  work,      \* the workspace: what differs from its base
  meta,      \* PR_MESSAGE.md
  stage,     \* how far the workflow has come
  patch,     \* artifact: the patch
  envelope,  \* artifact: proposal.json
  sealed,    \* history: patch and envelope as captured
  altered,   \* history: which artifacts arrived altered
  published  \* the change written to the checkout, with its base, or None

vars == <<head, base, baseline, work, meta, stage, patch, envelope, sealed,
          altered, published>>

PathsOf(p) == {e.path : e \in p}

Init ==
  /\ head = 1
  /\ base = 1
  /\ baseline = 1
  /\ work \in Workspaces
  /\ meta \in Metas
  /\ stage = "develop"
  /\ patch = None
  /\ envelope = None
  /\ sealed = None
  /\ altered = {}
  /\ published = None

-----------------------------------------------------------------------------
(* The boundary *)

(***************************************************************************)
(* _require_product_vertical                                               *)
(***************************************************************************)
ProductVertical(names) ==
  /\ names \cap Production # {}
  /\ names \cap Tests # {}
  /\ Changelog \in names

TotalBytes(p) == MapThenSumSet(LAMBDA e : e.size, p)
TotalLines(p) == MapThenSumSet(LAMBDA e : e.lines, p)

\* A patch grows with the lines it adds and removes, not with its files.
PatchBytes(p) == TotalLines(p)

\* Seeded fault: files are judged one by one, not together.
WorktreeValidEach(p) ==
  /\ p # {}
  /\ Cardinality(PathsOf(p)) <= MaxFiles
  /\ \A e \in p :
       /\ e.kind \notin {"delete", "mode"}
       /\ e.path \in Allowed
       /\ e.file = "regular"
       /\ e.size <= MaxFileBytes
       /\ e.text \notin {"binary", "whitespace"}
  /\ ProductVertical(PathsOf(p))

(***************************************************************************)
(* validate_worktree_diff on the materialised change, but for its scan for *)
(* credentials, which only the capturing job can do.                       *)
(***************************************************************************)
WorktreeValid(p) ==
  /\ p # {}
  /\ Cardinality(PathsOf(p)) <= MaxFiles
  /\ \A e \in p :
       /\ e.kind \notin {"delete", "mode"}
       /\ e.path \in Allowed
       /\ e.file = "regular"
       /\ e.size <= MaxFileBytes
       /\ e.text \notin {"binary", "whitespace"}
  /\ TotalBytes(p) <= MaxTotalBytes
  /\ ProductVertical(PathsOf(p))
  /\ TotalLines(p) <= MaxLines

(***************************************************************************)
(* _reject_forbidden_tokens with the fingerprint the workflow hands to the *)
(* capturing job; it hands none to the later jobs, whose scans find none.  *)
(***************************************************************************)
NoCredential(p) == \A e \in p : e.text # "credential"

\* Seeded fault: the later job allows one file fewer.
PatchTextValidStrict(p) ==
  /\ PatchBytes(p) <= MaxPatchBytes
  /\ p # {}
  /\ Cardinality(p) < MaxFiles
  /\ \A e \in p : e.path \in Allowed /\ e.text \in {"plain", "credential"}
  /\ ProductVertical(PathsOf(p))

(***************************************************************************)
(* validate_patch_text before anything is written.  The patch is decoded   *)
(* as a whole, and file markers and forbidden directives are looked for in *)
(* all its lines, so a file whose text looks like one is refused as well.  *)
(***************************************************************************)
PatchTextValid(p) ==
  /\ PatchBytes(p) <= MaxPatchBytes
  /\ p # {}
  /\ Cardinality(p) <= MaxFiles
  /\ \A e \in p :
       /\ e.path = e.right
       /\ e.path \in Allowed
       /\ e.kind \notin {"delete", "mode"}
       /\ e.text \notin {"binary", "notUtf8", "marker", "directive"}
       /\ e.file \in {"regular", "hardlink"}
       /\ \A f \in p : f.path = e.path => f = e
  /\ ProductVertical(PathsOf(p))

(***************************************************************************)
(* _read_proposal: what of PR_MESSAGE.md is accepted.                      *)
(***************************************************************************)
ProposalReadable(m) == m \in {"plain", "absent", "escapes"}

(***************************************************************************)
(* _load_proposal: the envelope is bounded after JSON escaping, the paths  *)
(* are allowed and make a product vertical.                                *)
(***************************************************************************)
EnvelopeValid(env) ==
  /\ env.meta \in {"plain", "absent", "credential"}
  /\ env.paths # {}
  /\ env.paths \subseteq Allowed
  /\ ProductVertical(env.paths)

-----------------------------------------------------------------------------
(* The jobs *)

(***************************************************************************)
(* capture: the baseline is still the recorded base, the metadata and the  *)
(* change are within bounds; an unchanged workspace ends the workflow.     *)
(***************************************************************************)
CaptureAccepts ==
  /\ baseline = base
  /\ ProposalReadable(meta)
  /\ WorktreeValid(work)
  /\ NoCredential(work)
  /\ PatchBytes(work) <= MaxPatchBytes

Capture ==
  /\ stage = "develop"
  /\ \/ /\ baseline = base /\ ProposalReadable(meta) /\ work = {}
        /\ stage' = "unchanged"
        /\ UNCHANGED <<patch, envelope, sealed>>
     \/ /\ work # {} \/ baseline # base \/ ~ProposalReadable(meta)
        /\ ~CaptureAccepts
        /\ stage' = "refused"
        /\ UNCHANGED <<patch, envelope, sealed>>
     \/ /\ CaptureAccepts
        /\ stage' = "captured"
        /\ patch' = work
        /\ envelope' = [base |-> base, digest |-> work, paths |-> PathsOf(work),
                        meta |-> meta]
        /\ sealed' = <<patch', envelope'>>
  /\ UNCHANGED <<head, base, baseline, work, meta, altered, published>>

\* Seeded fault: the digest is not compared.
SealIntactAnyDigest == PathsOf(patch) = envelope.paths

(***************************************************************************)
(* The patch is the one the envelope names.                                *)
(***************************************************************************)
SealIntact == patch = envelope.digest /\ PathsOf(patch) = envelope.paths

BaseUnmoved == head = envelope.base

(***************************************************************************)
(* What git apply makes of a patch: an entry without a hunk changes        *)
(* nothing, and no entry makes a hard link.                                *)
(***************************************************************************)
Materialized(p) ==
  {[e EXCEPT !.file = IF @ = "hardlink" THEN "regular" ELSE @] :
     e \in {x \in p : x.kind # "noop"}}

(***************************************************************************)
(* The checks of apply_patch on a checkout of the branch.                  *)
(***************************************************************************)
ApplyAccepts ==
  /\ EnvelopeValid(envelope)
  /\ SealIntact
  /\ BaseUnmoved
  /\ PatchTextValid(patch)
  /\ WorktreeValid(Materialized(patch))
  /\ PathsOf(Materialized(patch)) = PathsOf(patch)

(***************************************************************************)
(* git apply --check takes the diff of a workspace on the commit the diff  *)
(* was taken against; anything else it may take or refuse.                 *)
(***************************************************************************)
SurelyApplies == patch = work /\ head = base

(***************************************************************************)
(* apply_patch: every check passes and the change is published, or one     *)
(* fails, or git apply refuses.                                            *)
(***************************************************************************)
Apply ==
  /\ stage = "captured"
  /\ \/ /\ ApplyAccepts
        /\ stage' = "published"
        /\ published' = [base |-> head, change |-> Materialized(patch)]
     \/ /\ ~ApplyAccepts \/ ~SurelyApplies
        /\ stage' = "rejected"
        /\ UNCHANGED published
  /\ UNCHANGED <<head, base, baseline, work, meta, patch, envelope, sealed, altered>>

-----------------------------------------------------------------------------
(* What happens around them *)

MoveBranch ==
  /\ stage \in {"develop", "captured"}
  /\ head < MaxHead
  /\ head' = head + 1
  /\ UNCHANGED <<base, baseline, work, meta, stage, patch, envelope, sealed,
                 altered, published>>

MoveBaseline ==
  /\ stage = "develop"
  /\ baseline < MaxHead
  /\ baseline' = baseline + 1
  /\ UNCHANGED <<head, base, work, meta, stage, patch, envelope, sealed,
                 altered, published>>

AlterPatch ==
  /\ stage = "captured"
  /\ \E p \in Patches : patch' = p
  /\ altered' = altered \cup {"patch"}
  /\ UNCHANGED <<head, base, baseline, work, meta, stage, envelope, sealed, published>>

AlterEnvelope ==
  /\ stage = "captured"
  /\ \E p \in Patches \cup {patch}, h \in 1 .. MaxHead :
       envelope' = [base |-> h, digest |-> p, paths |-> PathsOf(p), meta |-> meta]
  /\ altered' = altered \cup {"envelope"}
  /\ UNCHANGED <<head, base, baseline, work, meta, stage, patch, sealed, published>>

Next == Capture \/ Apply \/ MoveBranch \/ MoveBaseline \/ AlterPatch \/ AlterEnvelope

Spec == Init /\ [][Next]_vars

-----------------------------------------------------------------------------
(***************************************************************************)
(* With at most one of the two artifacts altered, what is published is the *)
(* captured change; with the envelope intact it also lands on the commit   *)
(* it was captured against, however the branch moved.                      *)
(***************************************************************************)
PublishedAsCaptured ==
  published # None =>
    /\ altered # {"patch", "envelope"} => published.change = sealed[1]
    /\ "envelope" \notin altered => published.base = base

(***************************************************************************)
(* Whatever happened to the artifacts, the published change touches only   *)
(* product paths, deletes and links nothing, is whole (code, tests,        *)
(* changelog) and within the limits taken together; with at most one of    *)
(* the two artifacts altered it holds no credential.                       *)
(***************************************************************************)
PublishedWithinBoundary ==
  published # None =>
    LET c == published.change IN
    /\ PathsOf(c) \subseteq Allowed
    /\ ProductVertical(PathsOf(c))
    /\ \A e \in c : /\ e.kind \in {"edit", "new"}
                    /\ e.file = "regular"
    /\ TotalBytes(c) <= MaxTotalBytes
    /\ TotalLines(c) <= MaxLines
    /\ altered # {"patch", "envelope"} => NoCredential(c)

(***************************************************************************)
(* A captured change that arrives unaltered while the branch has not moved *)
(* is published, unless its diff is not UTF-8, has a line that reads like  *)
(* a file marker or a patch directive, or the metadata grows beyond the    *)
(* envelope's limit when it is escaped: on everything else the checks of   *)
(* the two jobs agree.                                                     *)
(***************************************************************************)
CapturedIsApplied ==
  stage = "rejected" /\ altered = {} /\ head = base =>
    \/ \E e \in sealed[1] : e.text \in {"notUtf8", "marker", "directive"}
    \/ meta = "escapes"
=============================================================================
