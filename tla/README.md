# Keyverse account unification: TLA+ models and proofs

Keyverse is a FastAPI service beside a Keycloak realm.  It merges duplicate
accounts, provisions accounts over SCIM, registers accounts without passwords,
and keeps identity providers, LDAP directories and OIDC clients of the realm in
line with a stored desired state.  Keycloak has no transactions across calls of
its Admin API, so what the service promises depends on the order of its calls,
on its locks, and on what a failure leaves behind.  That is what is modelled.

Paths below are relative to `services/account_unification/app/`, or to the
repository where they start with `scripts/`, `docs/` or `tests/`.

## Inventory

| Part | State | Operations | Meets |
|---|---|---|---|
| Matching policy (`matching.py`) | none | `decide_match` | merge |
| Account merge (`service.py`) | Keycloak users, audit table | `merge_accounts` | SCIM writes, lock, audit |
| SCIM shim (`scim.py`) | Keycloak users | create, replace, patch, delete, search | merge, registration |
| User-operation lock (`user_locks.py`) | a SQLite write transaction | `hold` | merge, SCIM |
| Audit log (`audit.py`) | `account_merge_audit` | `emit`, `events_for` | merge |
| Admin API client (`keycloak_client.py`, `product_keycloak_client.py`, `relying_party_admin.py`) | bearer token | one method per Admin API call, one retry on 401 | everything |
| Registration (`registration.py`) | Keycloak users, attempt windows | `register_account` | SCIM create, merge |
| Identity-provider federation (`federation.py`) | KV namespace, Keycloak providers | put, delete, apply all | itself, concurrently |
| Directory federation (`directory_federation_state.py`) | KV namespace, receipts, components | put, delete, reconcile all, status | itself, concurrently |
| Relying parties (`relying_party_state.py`) | KV namespace, receipts, clients | put, delete, reconcile all, status | itself, concurrently |
| Subject assertions (`subject_assertion.py`) | none | `verify_subject_assertion` | relying parties |
| Configuration and start-up (`kv_store.py`, `config.py`, `bootstrap.py`, `main.py`, `tools/seed_config_store.py`) | KV store, temporary lock database | seed, start, stop | reconciliation |
| Product workflow (`scripts/ci/nim_proxy.py`, `scripts/ci/hourly_product_guard.py`) | permits, patch and envelope | forward, capture, apply | the protected branch |
| Realm validator (`scripts/validate_realm.py`) | none | walk over authentication flows | |

What makes the system hard: several workers in several processes act on one
Keycloak; each operation is a sequence of calls that can stop anywhere (error
status, time-out, crash); the answer to a call may be lost although the call
took effect; a call may take effect after its caller gave up; values are read
in one call and written back in another.

What should hold:

* a tombstoned duplicate stays disabled and keeps its pointer;
* a merge touches only active accounts that a matching rule ties together, and
  an unverified address in common never is such a rule;
* moving links, roles and groups loses nothing and doubles nothing, even when
  a merge is cut short and run again, except that the survivor's own item wins
  where both accounts have one in the same slot;
* one operation at a time works on users, and the lock always becomes free;
* desired state, receipts and Keycloak agree whenever the service says so;
* an account reported as created stays, and one left without enrolment has a
  failure that explains it;
* a request to Keycloak takes effect at most once, and an expired token costs a
  retry and not the call;
* only genuine tokens verify, each for one login, and a correlation key stands
  for one person;
* a service that says it is ready never has Keycloak settings older than its
  operator token, nor a registration token without fit settings for it;
* what the workflow publishes is the captured change, within its limits.

`PROJECT.json` lists every component and every hazard with its place in the
code.

## Modules

| Module | Models |
|---|---|
| `Matching` | `matching.py` and the guard of `_merge_accounts_locked`, as operators |
| `UserOperations`, `MCUserOperations` | merge, SCIM replace, patch and delete, the lock, the audit rows, the Keycloak user store |
| `LateWrites`, `MCLateWrites` | `UserOperations` with PUTs that take effect after the client timed out |
| `DesiredState` | what reconciliation promises (ADR 0004), the abstract specification of the next three |
| `RelyingParty`, `MCRelyingParty` | `relying_party_state.py`, clients of `relying_party_admin.py` |
| `DirectoryFederation`, `MCDirectoryFederation` | `directory_federation_state.py` |
| `IdpFederation`, `MCIdpFederation` | the service of `federation.py` |
| `Registration` | `register_account` and SCIM `create_user` after admission |
| `RateLimiter` | the fixed-window limiter of `registration.py` |
| `SelfRegistration`, `MCSelfRegistration` | composition: registrations behind the limiter, SCIM creates beside it |
| `TokenCache`, `MCTokenCache` | the cached service-account token and the single retry on 401 |
| `SubjectAssertion`, `MCSubjectAssertion` | `subject_assertion.py` in the life of a relying party |
| `Startup` | seeding the configuration store, starting and stopping a service |
| `NimBroker`, `ProductGuard` | the broker's permits; capture and apply of the guard |
| `ProductWorkflow`, `MCProductWorkflow` | composition: the broker while a session runs, then the jobs |
| `DistinguishedName`, `RealmFlows` | two algorithms: names of `directory_federation.py`, the walk of `validate_realm.py` |
| `MCAlgorithms` | all small inputs of `Matching`, `DistinguishedName` and `RealmFlows` |
| `UserOperationsProofs`, `RelyingPartyProofs`, `DirectoryFederationProofs`, `IdpFederationProofs`, `SelfRegistrationProofs`, `SubjectAssertionProofs` | proofs about those modules |
| `ServiceProofs` | proofs about `TokenCache`, `Startup`, the merge verdict and `RealmFlows` |
| `ProductWorkflowProofs` | proofs about `NimBroker` alone and about the composed `ProductWorkflow` |

### Matching

A raw e-mail is `NoEmail` or an address with a spelling; `NormalizeEmail`
forgets the spelling (case and surrounding blanks) and turns a blank string into
no e-mail.  `MergeVerdict` is the answer of the merge handler after both
accounts are loaded and found active.

### UserOperations

State that lives in Keycloak: `present`, `enabled`, `mergedInto` (the attribute
`merged_into_user_id`), `externalId` (the attribute `scim_external_id`), `email`,
`verified`, and `holds`, the links, roles and groups of each account.  An item
has a kind, a slot and a value; Keycloak keeps one item per kind and slot, and
the removal of a link names its provider only, which is why `Without` removes by
slot.  State of the service: `lock`, the audit rows, and for each worker its
next call (`pc`), its request and what it has read so far (`survivorSeen`,
`duplicateSeen`, `moveKind`, `taken`, `todo`, `moving`, `idRead`).

| Action | Code |
|---|---|
| `Submit` | a request arrives; `merge_accounts` refuses equal ids before locking |
| `AcquireLock`, `LockTimeout` | `BEGIN IMMEDIATE` in `hold` |
| `LoadUsers`, `CheckMatch` | loading both accounts; links, `_assert_active`, matching |
| `RecordStart` | `merge_started` |
| `DropConflict`, `AttachItem`, `DetachItem`, `RecordItem` | one round of a move loop |
| `NextKind` | the next `_move_*` helper lists both accounts |
| `ReadAttributes`, `StampTombstone`, `DisableDuplicate`, `RecordTombstone` | `_tombstone` |
| `CompleteMerge` | `merge_completed`, and the with block ends |
| `CheckTombstone`, `ReplaceUser` | SCIM `replace_user` |
| `PatchUser`, `DeleteUser` | SCIM `patch_user`, `delete_user` |
| `Fail` | a call raises, its answer is lost, the audit insert fails, or the worker dies |

Choices worth knowing:

* The calls of one step read or write at one instant.  A step that only reads is
  joined to its neighbour when the lock, which the model does not assume but
  states as `LockProtects`, is all that could tell the difference.
* A failed call and a crash have the same effect on shared state: the lock is
  released (the finally clause, or SQLite when the process ends) and nothing is
  undone.  A lost answer is `Fail` after the step.
* Audit rows form a set without correlation id, payload and time.
* The order in which Keycloak lists items is left open.
* A SCIM resource carries an e-mail; what Keycloak does with a null e-mail is
  not modelled.  A PUT of a user replaces the attribute map when it has one and
  leaves it alone otherwise.
* The HTTP client raises a status error, not `KeyError`, for an unknown user;
  both end the request without effect, so the model does not tell them apart.
* Accounts are not created or deleted here: `present` is constant.
* A WAL database with `synchronous = NORMAL` may lose its last commits on power
  loss; that is not modelled.

### LateWrites

`TimeOut` is a failure that leaves the PUT in flight; `Arrive` carries it out at
any later time.  Everything else is `UserOperations`.

### DesiredState, RelyingParty, DirectoryFederation, IdpFederation

`DesiredState` has three variables: the stored intent, what was last sent to
Keycloak and not removed, and the receipt.  Only current intent is sent, a
receipt is written only for what was sent, and intent is forgotten only when
nothing sent is left.

The three services have the same shape: `desired` and `receipt` are KV
namespaces, `live` is Keycloak, `sent` is a history variable, and each request
is a worker that moves through `pc` one call at a time.

| Actions | Code |
|---|---|
| `PutStart`, `PutStore` (or `Put`) | `put_registration` up to the stored intent |
| `ReadReceipt`, `Observe`, `Create`, `Update`, `Verify`, `Record` | `_converge` |
| `ReconcileStart`, `ReconcileNext`, `ReconcileDone` (`Snapshot`, `ReconcileLock` for directories; `Snapshot`, `ApplyLock`, `ApplyNext`, `ApplyDone` for providers) | `reconcile_all`, `apply_all` |
| `DeleteRead`, `DeleteFind`, `Remove`, `Withdraw`, `Discard` (`DeleteLook`, `Forget`) | deletion: Keycloak, then intent, then receipt |
| `StatusFor`, `Get` | the status answered to a reader |
| `ReadFails`, `WriteFails`, `CallFails`, `Abort`, `Crash` | a call fails before or after its effect, another exception, the process ends |
| `OutOfBand` | somebody edits Keycloak directly |

What distinguishes them is where the locks are.  Relying parties have a lock for
each client and read intent again under it.  Directories have one convergence
lock per service object, and reconciliation works on a snapshot read before that
lock; the object is built on first use, and two first requests may build two
(`Resolve`, `Build`).  Identity providers have one lock around `apply_all` only.
Clients and components may exist several times under one name, as the code does
not rely on Keycloak to refuse it.  A directory or provider value has a part that
Keycloak shows and a secret that it does not.

### Registration, RateLimiter, SelfRegistration

`accounts` maps Keycloak's user ids to addresses.  A registration looks the
address up, creates, looks the id up when the answer has no Location, sends the
enrolment e-mail and deletes the account if that fails; a SCIM create does the
first three.  Every call may fail before or after its effect; `spoiled` and
`tampered` record failures and deletions made elsewhere.  In the limiter an
attempt reads the clock (`ReadClock`) and takes the lock later (`Attempt`), at
most `Stall` apart.  `SelfRegistration` joins them: a registration passes the
limiter before it is handled, a restart forgets the windows.

### TokenCache

`Fetch` is the answer of the token endpoint, `Assign` the assignment to the
shared attribute, `Reread` the later read of it when the header is built, which
may meet another thread's token or none.

### SubjectAssertion

A token is a record of what the verifier looks at, and the person it is about.
`Verdict` is the chain of checks in the order of the code, `CheckTimes` its
integer comparisons with a claim that is absent or no NumericDate as a case of
its own, `Canonical` what is asked of a subject or tenant.  Subjects and tenants
are sequences of characters, since the correlation key is the digest of a JSON
list: `CanonicalJson` writes the list as `json.dumps` does, with its quotes and
escapes (for ASCII; `\u` escapes of other characters are not modelled), and the
digest stands for the text.

The relying party configures a profile, starts logins with a fresh nonce,
verifies a delivered token, altered or not, and stores the correlation key of a
durable subject.  `Configure` may put another profile in the place of the one in
use; the open login is lost then and the stored links stay.  The relying party
(login, nonce, link) and the issuer are modelled from the module's interface and
marked external.

What is assumed of the world outside:

* `IssuerAssumption`: an issuer gives no two persons one durable subject of one
  type.  Subjects of different types or issuers may coincide, ephemeral ones too.
* `AlterationAssumption`: an alteration spoils the encoding or the header, or
  leaves a signature that no trusted key made.
* `EncodingAssumption`: JSON is unambiguous on the lists that occur.  TLC computes
  both sides for the lists of the run, whose texts have quotes, commas and a tenant
  spelled null.

### Startup

The store has thirteen entries, each put and read by a transaction of its own in
the order of the code.  A text is good or bad (refused by its parser), a bearer
token one of `Tokens`.  The seeding tool commits entry by entry and may die; a
service reads entry by entry, validates, builds its resources, serves, and closes
them in order, where building and each close may fail.  `putBy` and `readBy` are
history: the seeding run that put each entry, and each value read.  `spoilt`
counts the starts that failed, did not close or were killed.  `ArgumentFlaws` and
`PlatformFlaws` are the settings that may be unfit in the tool's arguments and in
a store the platform filled, `AuditPaths` the kinds of audit path the tool may be
given.

### NimBroker, ProductGuard, ProductWorkflow

A handler takes a permit without waiting or answers 429, and gives it back in
the finally clause.  The guard captures a workspace as patch and envelope and
applies it in a later job; in between the branch moves and artifacts may change.
A change is a set of entries with path, kind of edit, kind of file, text, size
and lines; the text says what is special about the lines of the diff (a NUL, a
credential, a whitespace error, bytes that are not UTF-8, a line that reads like a
file marker or a patch directive).  `NoCredential` is checked by the capture
alone: the workflow hands the fingerprint to that job and to no later one.  `git
apply` takes the diff of a workspace on the commit it was taken against
(`SurelyApplies`) and may take or refuse anything else.  Conversions that a
`.gitattributes` file asks for are not modelled.  The workflow checks and applies
the patch in two later jobs with the same command; the model has that step once.

### DistinguishedName, RealmFlows

The first is the splitting and scanning of the code, checked against an
automaton of the grammar; the second the depth-first walk with its one shared set
of visited aliases, checked against reachability.

## Runs

| Run | Instance | States | Shows |
|---|---|---|---|
| `algorithms` | two addresses, two spellings, two links; every name up to 6 characters and those still viable up to 9; three flows of up to two subflows | 1,535,033 | verdict symmetric, blind to spelling, never by an unverified address; names accepted as the grammar says; the walk collects what is reachable |
| `user_operations` | three stores, ten requests, two workers, one failure | 510,340 | lock, tombstones, slots, items lost to a conflict only, pointers and their audit rows |
| `progress` | four requests, two failures, fairness | 56,760 | every request is answered; a repeated merge gets done |
| `late_writes` | as `user_operations`, with late PUTs | violation | see Disagreements |
| `relying_party` | two clients, two workers, three requests, one fault | 413,906 | refinement, one own client, answers are current, convergence |
| `directory` | one directory, two shown values, two secrets, two services, three requests, one fault | 903,585 | refinement, one own component, no lock kept, secrets, convergence |
| `idp` | two providers, two workers, three requests, two faults | 433,235 | refinement, convergence with secrets |
| `registration` | one address, two workers, one caller, window 2, four calls, two faults | 2,350,283 | reported accounts stay, orphans explained, bound on bursts |
| `token_cache` | two threads, four calls, two expiries, one lost answer | 206,668 | at most one effect, one expiry survived |
| `subject_assertion` | fourteen shapes of tokens, six alterations of each, twelve profiles, two logins, times 0..2 | 1,382,229 | only genuine tokens, once, in time; one key, one person |
| `startup` | two tokens, two seedings, two starts, one flaw of each kind | 3,072,268 | ready means settings as new as the token, and fit; a file left for a failed start only |
| `product_workflow` | three handlers, two permits; workspaces at and beyond each limit and of each kind of text | 103,588 | permits, published as captured and within the limits, refusals of a capture |

### Why the bounds are enough

Three accounts are the fewest with which a survivor can itself be merged away
and a bystander exists; two workers suffice for every race of one operation with
another; the items give each outcome of the move loops (same link, another
subject at the same provider, a role both have, a group only one has); the
stores give each matching rule and each refusal.  One failure reaches every
place a merge can stop, and the requests sent afterwards meet what it left.

In the reconciliation runs three requests are a put, something that races it and
something that meets what the two left; two clients let `reconcile_all` go on to
a second one while the first changes.  `relying_party` was also run with two
faults and four uuids (3,997,061 states, no error), which takes more than five
minutes.  In `registration` both workers can meet in every call, and the window
of 2 with a stall of 1 puts late readings on both sides of its end.  In
`token_cache` there are enough tokens for every call to authenticate twice.
In `subject_assertion` times 0 to 2 with a life of 1, leeways 0 and 1 and clocks
off by the leeway reach both sides of every comparison; two logins, with a change
of profile between them, are what two links with one key take.  The pairwise
subjects of two persons are their public ones exchanged, the second issuer has the
same subjects for other persons, and quotes and commas in a subject or a tenant
would read as two texts if they were not escaped.  In `startup` two seedings and
two starts let a service read while a second configuration is half written, and
meet what a failed start left; the audit path is in memory, which is the case with
a temporary file.

Workers, uuids, ids, shown values, secrets, names and bearer tokens are symmetry sets where
nothing but equality is asked of them; `progress`, the run with liveness, uses
none.  `CHECK_DEADLOCK FALSE` stands where the bounds on requests end every
behaviour; that requests never all wait for one another is stated in
`NoneStuck` and in `RequestsAnswered`.

### Fairness

Only `progress` assumes any.  A worker that holds the lock takes its next step:
every HTTP call returns or runs into the client's time-out.  A worker that waits
gets the lock or gives up: SQLite's busy time-out.  No worker is promised the
lock, and failures are not fair.  `RetrySpec` adds that the operator sends the
request again.  The number of failures is bounded by `MaxFaults`, so the liveness
results speak of behaviours that in the end have no more of them.  That the lock
becomes free follows from `RequestsAnswered` and `LockProtects`: only a worker
that is not idle has it.

### Refinement

`ImplementsDesiredState` is the specification of `DesiredState` under the
mapping that takes each variable to the one of its name (`receipt` is constantly
none for providers, which have no receipts).  For relying parties it is
`DS!Spec` itself.  For directories and providers one more step is allowed,
`FromSnapshot`: their reconciliation writes values of a snapshot that may be out
of date (see Disagreements), and the property says that this is all it does.  For
directories it ends when a second service object has been built (`raced`).

### Seeded faults

Definitions commented as seeded faults are plausible mistakes (a dropped guard,
a swapped order, a forgotten removal).  `PROJECT.json` pairs each with a
property that catches it.

## Disagreements

The repository's own sentences that the code does not keep, each stated as a
property of its own with a configuration that lets TLC show a counterexample.

| Configuration (module) | Sentence | What the code does |
|---|---|---|
| `LateWritesTombstone.cfg` (`MCLateWrites`, the run `late_writes`) | merge flow: a SCIM PUT cannot wipe a tombstone | a PUT that timed out takes effect after a merge completed |
| `RetrySharedLink.cfg` (`MCUserOperations`) | `docs/adr/0006` line 12: merges "can be retried or recovered from observed durable state" | a merge tied only by a shared link removes that link from the duplicate first; if it then fails, the retry finds no match (`service.py:205`) |
| `FailedMerge.cfg` (`MCUserOperations`; with `-continue` TLC shows both) | `docs/UML.md:122`: a failed merge returns to distinct accounts | items already moved stay moved (`service.py:217`) |
| the same | `audit.py:3`: "Every mutating merge action is recorded." | a failure falls between the tombstone and its row (`service.py:318`) |
| `StaleReference.cfg` (`MCUserOperations`) | `docs/merge-unification-flow.md:74`: stale references resolve | a failure between pointer and disabling, then the merge the other way round: two accounts point to each other |
| `DirectorySecondService.cfg` (`MCDirectoryFederation`) | `docs/operations/ldap-directory-reconciliation.md:89`: "Same-process mutations remain serialized by the convergence lock." | two first requests build two services with a lock each (`directory_federation_state.py:464`) |
| `DirectorySnapshot.cfg` (`MCDirectoryFederation`) | `docs/adr/0004` line 40: "intent is persisted before remote mutation" | `reconcile_all` writes a directory deleted since its snapshot (`directory_federation_state.py:166`) |
| `DirectorySecret.cfg` (`MCDirectoryFederation`) | `docs/operations/ldap-directory-reconciliation.md:66`: a secret change forces an update | an update whose answer was lost leaves the receipt of the earlier secret; putting that one back is then skipped (`directory_federation_state.py:312`) |
| `IdpSnapshot.cfg` (`MCIdpFederation`) | `federation.py:773`: "Re-converge Keycloak from the stored desired state." | `apply_all` writes a snapshot that a put has replaced (`federation.py:248`) |
| `RegistrationOrphan.cfg` (`MCSelfRegistration`) | `registration.py:5`: a failed e-mail leaves no orphan | the rollback is a call that may fail too (`registration.py:225`) |
| `TokenCacheShared.cfg` (`MCTokenCache`) | `tests/test_keycloak_client.py:261`: an expired token is refreshed once | another thread stores a token that has expired, and the retry uses it (`product_keycloak_client.py:325`) |
| `StartupReseed.cfg` (`Startup`) | `tools/seed_config_store.py:5`: registration stays disabled unless its token is supplied | a second seeding without it leaves the earlier token (`seed_config_store.py:79`) |

Besides, the receipt of a directory is written as soon as the create or update
has answered, without another look at the component
(`directory_federation_state.py:302`), where `ARCHITECTURE.md:209` says "Mutation
receipts are written only after exact live re-observation."  The model follows
the code, and so does `DesiredState`, which asks that the value was sent.

Next to each of these the passing runs state what does hold: `PointersResolve`
without failures, `RetryFinishesMerge` for accounts tied by an address,
`MergeLosesNothing` whatever the tie and the failures,
`SecretKept` without failures, `OrphansExplained`, `OneExpirySurvived` unless
another thread changes the token meanwhile, refinement up to `FromSnapshot`.

## Proofs

### UserOperations

For any sets of users, workers, items, requests and initial stores that satisfy
`ConstantsAssumption`, and any bound on failures: `TypeCorrect`,
`LockProtectsHolds`, `SlotsUnique`, `CompletedMergeStays`, `MergesAreJustified`,
`PointersAlwaysResolve` (the invariants of the run), `TombstonesAreFinal`,
`ExternalIdsFromScim`, `MergesLoseNothing` (its action properties).

None of these is inductive alone.  `IndInv` joins them with `LockProtects`: at
most one worker is inside the lock, and for that worker what it has read is
still so.  While items move this says that everything left on the duplicate is
on the list or of a kind still to come (`MoveInProgress`), so that the duplicate
is empty when it is stamped; that slots listed as taken still are, so that a
conflict may be dropped without loss; that the attribute map written back is the
current one; and that an account about to be replaced has no pointer.  The proof
has one step per action.  `OthersUndisturbed` and `StoreUnchanged` reduce it to
the worker that moves, since the others are outside the lock.

`MergesLoseNothing` is about the very item: a step after which no enabled account
holds it, although one did before, is a SCIM request that disables its account or
the conflict of the move loop, with the survivor active and holding its own item
in that slot.  Disabling the duplicate loses nothing because it is empty by then;
removing from it loses nothing because the lock kept the survivor as the loop read
and wrote it (`ItemTaken`).

`PointersAlwaysResolve` needs a word on chains of any length.  `PointersEnd` says
that no set of accounts has all its pointers inside it, which rules out circles
and endless chains without recursion.  A merge stamps a duplicate with a pointer
to a survivor that has none, under the lock, so that the new pointer closes no
circle (`StampKeepsEnd`); `PointersTracked` adds that an enabled account with a
pointer is the one being tombstoned, and that a pointer without its row is the
one whose row comes next.

The assumptions say that requests and stores are well formed, that the markers
(`NoUser` and so on) are not values, and that every initial account has at most
one item per slot, as Keycloak ensures.

### RelyingParty

For any clients, registrations, workers and bounds.

* `LockInvHolds` and `Refinement`, that the service implements `DesiredState`.
  The invariant is `Types /\ LockInv`; `LockInv` says of each request past its
  first step that it holds its client's lock, that the value it works on is the
  stored intent, that it records only what was sent and withdraws only what was
  retired.  `OthersInOrder` reduces a step to the request that takes it, and
  `StepImplements` maps each action to an abstract step or to a stutter.
* `AtMostOneOwnClient` (`OneOwnClient`).  What makes it inductive is that what
  `_converge` observed stays true in so far as only this service can change it
  (`Ready`): before a create no client with the id is the service's own, before
  an update none but the one to be updated.  Other requests need the lock to
  change that, and a client added in Keycloak directly is nobody's own.
* `InSyncAnswersAreCurrent` (the action property `InSyncIsCurrent`).  The
  invariant `ReceiptInv` says that the receipt read before the observation is
  still there; `AnswersInSync` finds the two steps that answer `in_sync`.
* `UndisturbedClientsConverge` (`UndisturbedConverges`), about `MCSpec`, which
  adds the history of requests that met no fault and no other change.  `OnCourse`
  follows such a request: what it saw and wrote of its client is still so, and
  each stored id is on the list of `reconcile_all`, at work or done (`Snapped`).
  Nothing is assumed of what was in Keycloak and in the store before.

### DirectoryFederation

For any directories, values, workers, service objects and bounds.

* `Invariance`.  The convergence lock of a service object is held by exactly the
  request inside it: nobody works without it and no exit, failure or crash leaves
  it behind (`LockKept`).  Until a second service object is at work all requests
  use one lock (`SameService`), under which what a put or a delete relies on
  stays so (`IntentKept`).
* `DirectoryImplementsDesiredState`, refinement of `DesiredState` in which
  `reconcile_all` adds nothing but its snapshot, until two service objects are at
  work.
* `AtMostOneOwnComponent`, by the argument of `AtMostOneOwnClient`, with the one
  convergence lock in place of a lock per client.
* `SecretIsKept`.  While no call has failed a receipt names what was last sent,
  except between a write and its receipt (`ReceiptTold`): the secret, which
  cannot be observed, is told from the receipt alone.
* `UndisturbedDirectoryConverges`, as for relying parties.  It needs no lock: a
  request that another one disturbs is not undisturbed, whichever service object
  either uses.

### IdpFederation

For any aliases, registrations, workers and bounds: `ProviderInvariance` (the
lock is held by exactly the request inside it, and what a put or a delete relies
on stays so), `ProviderImplementsDesiredState` (refinement up to the snapshot of
`apply_all`), `UndisturbedProviderConverges`.  The last says more than for
directories: the live registration is the stored one, its secret included,
because `_apply` writes without comparing first.

### SelfRegistration

For any addresses, workers, callers, limits, window and stall, with accounts and
attempts in one composed specification.

* `ReportedAccountsAreKept` and `OrphansAreExplained`.  The invariant says that
  no two accounts share an address; that, while nobody else deletes accounts, a
  request that may still delete one made it and nobody has reported it
  (`OwnInv`); and that an account without e-mail either has its explanation or
  is in the hands of the request that made it (`OrphanInv`).
* `BurstsAreBounded`.  The windows of a caller are more than `Window` apart, and
  an attempt counted in an earlier window was made at most `Stall` after the
  first reading of the later one (`WindowInv`); each window admits at most the
  limit (`CountInv`).  A stretch of `Window - Stall` therefore meets at most two
  windows (`TwoWindows`), and cardinalities add up.

`Created` takes the next id of `1 .. MaxCalls`, a bound of the model; a request
creates at most one account, so the bound holds no request back.

### TokenCache (in ServiceProofs)

For any number of threads, calls, tokens, expiries and lost answers:
`EffectsAtMostOnce` (before its request is carried out a call has had no effect
and no answer) and `OneExpiryIsSurvived`, about `MCSpec`, which adds the history
of calls another thread crossed.  `OnItsOwn` follows one call: after its first
refusal a token has expired and the attribute is empty until the call itself
fills it with a fresh token, which only a second expiry can spoil.

### Startup (in ServiceProofs)

For any set of tokens, flaws and audit paths and any number of seedings and
starts: `ReadyServicesAreWhole` and `NothingLeftOver`.

The first compares values read at different times with writes made at different
times.  `OrderInv` says of the store that each Keycloak entry was put by a run at
least as late as the one that put the operator token, because a run puts them
first (`PutFirst`) and may only die in between.  The service reads the token
first; what it then reads was put no earlier (`NotOlder`), since `putBy` never
decreases.  `ReadInv` says for each point of `load_service_config` which entries
have been read, found fit and found not older.

For the second, `Held` is the number of temporary databases the living service
answers for, by its phase, and `TempInv` says that the files on disk are at most
that number and the starts that went wrong so far.

### Matching and RealmFlows (in ServiceProofs)

About `MCAlgorithms`, from its assumption (`MergeInputs`: the absence of an
e-mail is no e-mail; `FlowInputs`: an export is a list of flows, each with its
alias, authenticators and subflows), which TLC evaluates for the inputs of the
run.

* `NeverMergedOnUnverifiedEmail` and `VerdictIsStable`, for any addresses,
  spellings and links.  The verdict reads an account only through its normalized
  address, its flag and its links (`SameInputs`), and treats both accounts alike
  (`Exchanged`).
* `WalkCollectsReachable`, for any export.  `WalkInv` says of the walk half done
  that the root and the subflows of every visited flow are visited or wait, that
  whatever is visited or waits lies in every set that holds the root and is closed
  under subflows, and that what was found is what the visited flows use.  When
  nothing waits the visited flows are the least such set, the reference
  `Reachable`.  That every walk ends is not claimed.

### NimBroker and ProductWorkflow

For any number of permits and any finite set of handlers, of the broker alone:
`PermitsAlwaysAccounted` and `RefusalsJustified` (429 only when no permit is
left).  The invariant adds the types; the lemmas count holders added and removed.
`PermitsThroughoutWorkflow` carries the first over to the composition, where the
broker's end is one more step.

For any workspaces, patches, metadata and limits, of the composition:
`PublishesTheCapture`, `PublishesWithinBoundary`, `CapturesAreApplied` (its
exceptions are texts the capture does not look at: not UTF-8, a file marker, a
directive; and metadata that grows when escaped).  `SealInv`
says that from the capture on the workspace is the one captured and that an
artifact nobody altered is as sealed; `VerdictInv`, that the verdict of the later
job still holds of what it decided on.  `WorkflowAssumption` says what a
workspace is: finite, one entry per path, the path the same on both sides, and
no empty entry, since the guard takes its diff with `--no-renames`
(`DIFF_SAFETY`).  Patches, which somebody else may have written, satisfy none of
this.

### SubjectAssertion

For any shapes, profiles, subjects and alterations that satisfy the assumptions
above: `LiveTokensInTime`, `TokensVerifiedOnce`, `LinksNameOnePerson`,
`VerifiedTokensAreGenuine`.  The invariant has four parts: the clock is off by at
most the leeway of the profile in use (`ClockInv`); what was issued is a token the
issuer makes, not from the future (`IssuedInv`); each completed login has the
nonce of its token, and each link has the key of a token the issuer makes, under
a profile of that token's issuer and type (`KeptInv`); and what is claimed of the
last verification (`ResultInv`), which rests on `VerifiedChecks`: what verified
passed every check of the verdict.

`LinksNameOnePerson` puts three facts together.  Equal keys come from equal
coordinates (`EncodingAssumption`, `KeyNamesCoordinates`); the coordinates hold
the issuer and the type, and the verified token is of that issuer and type
(`TokenFields`); of one issuer and type a subject has one person
(`IssuerAssumption`).  That the type is among the coordinates matters: without it
TLC finds two persons whose public and pairwise subjects coincide.

### Only model-checked

* Liveness (`RequestsAnswered`, `RetryFinishesMerge`) and `NoneStuck`, which
  speaks of `ENABLED`: not within the prover's reach.  What `NoneStuck` rests on
  for directories, that no exit leaves a lock behind, is part of `Invariance`.
* `AcceptsGrammar`: the reference is a grammar over names of any length, and what
  the check computes for every name needs induction over data.

## Not modelled

* The validators of registrations (`relying_party.py`, most of `federation.py`
  and `directory_federation.py`), of paths and URLs (`path_security.py`,
  `identifiers.py`) and of the realm export other than its flows: straight-line
  predicates on one input.  Of them only the distinguished names have a grammar
  with states, and that is modelled.
* `api.py`, `auth.py`: routing, a constant-time comparison, rendering.
* `InMemoryUserOperationLocks`: constructed by tests only.
* How the guard's search finds a credential fingerprint, `healthcheck.py`, deployment
  scripts and the generator of assertion fixtures: file and network I/O without
  state.
* Cryptography, Base64 and the parsing of JSON: a signature fits or it does not, a
  token is well formed or not.
* Logins that write Keycloak while a merge moves links: the repository does not
  say what a merge promises then.
* Deletion of a user by a registration's rollback while a merge works on that
  user: `present` is constant in `UserOperations`, and the two modules are checked
  apart.
