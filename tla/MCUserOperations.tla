-------------------------- MODULE MCUserOperations --------------------------
(***************************************************************************)
(* Instances of UserOperations for TLC: three accounts and two workers.    *)
(***************************************************************************)
EXTENDS UserOperations, TLC

CONSTANTS a, b, c, x1, x2, w1, w2

Link(provider, subject) == [kind |-> "link", slot |-> provider, value |-> subject]
Role(name) == [kind |-> "role", slot |-> name, value |-> "-"]
Group(id) == [kind |-> "group", slot |-> id, value |-> "-"]

Corp == Link("corp", "s1")
CorpOther == Link("corp", "s2")
Social == Link("social", "s3")

MCItems == {Corp, CorpOther, Social, Role("admin"), Group("staff")}

Mail(address, spelling) == [address |-> address, spelling |-> spelling]

MCEmails ==
  {NoEmail, Mail("ann@x", "lower"), Mail("ann@x", "mixed"), Mail("bob@x", "lower")}

Merge(s, d, explicit) ==
  [op |-> "merge", survivor |-> s, duplicate |-> d, explicitLink |-> explicit]
Put(u, active, address, id) ==
  [op |-> "put", user |-> u, active |-> active, email |-> Mail(address, "lower"),
   externalId |-> id]
Patch(u, active) == [op |-> "patch", user |-> u, active |-> active]
Delete(u) == [op |-> "delete", user |-> u]

Of(va, vb, vc) == [u \in Users |-> CASE u = a -> va [] u = b -> vb [] u = c -> vc]

(***************************************************************************)
(* a and b were linked to one corporate identity and c is not provisioned. *)
(***************************************************************************)
SharedLink ==
  [present |-> {a, b}, enabled |-> Of(TRUE, TRUE, FALSE),
   email |-> Of(NoEmail, Mail("bob@x", "lower"), NoEmail),
   verified |-> Of(FALSE, FALSE, FALSE),
   externalId |-> Of(NoExternalId, x1, NoExternalId),
   holds |-> Of({Corp}, {Corp, Role("admin"), Group("staff")}, {})]

(***************************************************************************)
(* a and b carry one verified address in two spellings; their corporate    *)
(* links and their roles conflict.  c has another address.                 *)
(***************************************************************************)
SharedEmail ==
  [present |-> {a, b, c}, enabled |-> Of(TRUE, TRUE, TRUE),
   email |-> Of(Mail("ann@x", "lower"), Mail("ann@x", "mixed"), Mail("bob@x", "lower")),
   verified |-> Of(TRUE, TRUE, FALSE),
   externalId |-> Of(x1, NoExternalId, NoExternalId),
   holds |-> Of({Corp, Role("admin")}, {CorpOther, Social, Role("admin")},
                {Group("staff")})]

(***************************************************************************)
(* As SharedEmail, but b never verified the address; c is disabled.        *)
(***************************************************************************)
Unverified ==
  [SharedEmail EXCEPT !.verified = Of(TRUE, FALSE, FALSE),
                      !.enabled = Of(TRUE, TRUE, FALSE)]

WorkerSymmetry == Permutations(Workers)

MCStores == {SharedLink, SharedEmail, Unverified}

MCRequests ==
  {Merge(a, b, FALSE), Merge(b, a, TRUE), Merge(c, b, TRUE), Merge(a, a, TRUE),
   Put(b, TRUE, "ann@x", x2), Put(a, FALSE, "bob@x", NoExternalId),
   Patch(b, FALSE), Patch(c, TRUE), Delete(a), Delete(c)}

ProgressRequests ==
  {Merge(a, b, FALSE), Put(b, TRUE, "ann@x", x2), Patch(b, FALSE), Delete(c)}

-----------------------------------------------------------------------------
(* One merge, sent again until it is done *)

SharedEmailOnly == {SharedEmail}
SharedLinkOnly == {SharedLink}

MergeOnly == {Merge(a, b, FALSE)}

(***************************************************************************)
(* The operator repeats the request for as long as it is refused.          *)
(***************************************************************************)
RetrySpec ==
  FairSpec /\ \A w \in Workers : WF_vars(Submit(w, Merge(a, b, FALSE)))

Done == ~enabled[b] /\ mergedInto[b] = a /\ holds[b] = {}

TiedByEmail ==
  /\ verified[a] /\ verified[b]
  /\ NoEmail \notin {email[a], email[b]}
  /\ email[a].address = email[b].address

(***************************************************************************)
(* A merge cut short by failed calls and sent again unchanged gets done:   *)
(* if a verified address ties the accounts and nothing else is asked, then *)
(* in the end, and from then on, the duplicate is disabled, points to the  *)
(* survivor and owns nothing (merge_accounts starts over from what it      *)
(* observes, and the tie between the accounts is still there).             *)
(***************************************************************************)
RetryFinishesMerge ==
  TiedByEmail /\ [](\A w \in Workers : req[w] \in {NoRequest} \cup MergeOnly)
    => <>[]Done

(***************************************************************************)
(* "can be retried or recovered from observed" state (ADR 0006): a merge   *)
(* sent again gets done whatever tied the accounts.                        *)
(***************************************************************************)
EveryRetryFinishes == <>[]Done

(***************************************************************************)
(* A merge that did not go through leaves two distinct accounts as they    *)
(* were: when no operation is under way and b is not tombstoned, every     *)
(* account owns what it owned before.                                      *)
(***************************************************************************)
FailedMergeRolledBack ==
  lock = NoWorker /\ enabled[b] => holds = SharedEmail.holds

(***************************************************************************)
(* Every mutating merge action is recorded: a pointer in the store has its *)
(* duplicate_tombstoned row whenever no operation is under way.            *)
(***************************************************************************)
EveryTombstoneRecorded ==
  lock = NoWorker =>
    \A u \in Users : mergedInto[u] # NoUser =>
      \E e \in audit : e.type = "tombstoned" /\ e.duplicate = u

(***************************************************************************)
(* A stale reference resolves to a survivor: following the pointers ends   *)
(* at an account that was not merged away.                                 *)
(***************************************************************************)
StaleReferenceResolves == PointersEnd
=============================================================================
