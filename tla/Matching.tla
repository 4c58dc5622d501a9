------------------------------ MODULE Matching ------------------------------
(***************************************************************************)
(* The matching policy of app/matching.py and the merge guard built on it  *)
(* in app/service.py, as operators on loaded accounts.                     *)
(*                                                                         *)
(* An account is a record with fields email, verified and links, where     *)
(* links is a set of (provider, subject) pairs.  A raw e-mail is NoEmail   *)
(* or a record [address, spelling]: two spellings of one address differ in *)
(* case or in surrounding blanks, and a string of blanks alone has address *)
(* Blank.                                                                  *)
(***************************************************************************)

CONSTANTS
  NoEmail,   \* the account has no e-mail
  Blank      \* the address of an e-mail that is empty once stripped

(***************************************************************************)
(* _normalize_email: strip and lower-case, and None for a blank string.    *)
(***************************************************************************)
NormalizeEmail(email) ==
  IF email = NoEmail THEN NoEmail
  ELSE IF email.address = Blank THEN NoEmail ELSE email.address

SharesExactIdpSubject(a, b) == a.links \cap b.links # {}

\* Seeded fault: the survivor's verification is enough.
HaveMatchingEmailVerifiedOnce(a, b) ==
  /\ NormalizeEmail(a.email) # NoEmail
  /\ NormalizeEmail(a.email) = NormalizeEmail(b.email)
  /\ a.verified

HaveMatchingVerifiedEmail(a, b) ==
  /\ NormalizeEmail(a.email) # NoEmail
  /\ NormalizeEmail(a.email) = NormalizeEmail(b.email)
  /\ a.verified
  /\ b.verified

(***************************************************************************)
(* decide_match: the reason of the first rule that applies.                *)
(***************************************************************************)
DecideMatch(survivor, duplicate, explicitLink) ==
  IF SharesExactIdpSubject(survivor, duplicate) THEN "exact_idp_subject"
  ELSE IF HaveMatchingVerifiedEmail(survivor, duplicate) THEN "verified_email"
  ELSE IF explicitLink THEN "explicit_link"
  ELSE "no_match"

StrongTies == {"exact_idp_subject", "verified_email"}

(***************************************************************************)
(* The accounts carry the same address and the two sides do not both       *)
(* vouch for it.                                                           *)
(***************************************************************************)
SharesUnverifiedEmail(survivor, duplicate) ==
  /\ NormalizeEmail(survivor.email) # NoEmail
  /\ NormalizeEmail(survivor.email) = NormalizeEmail(duplicate.email)
  /\ ~HaveMatchingVerifiedEmail(survivor, duplicate)

\* Seeded fault: the operator's word overrides the unverified-email rule.
MergeVerdictTrusting(survivor, duplicate, explicitLink) ==
  IF DecideMatch(survivor, duplicate, explicitLink) = "no_match"
  THEN "no_match" ELSE "merge"

(***************************************************************************)
(* What _merge_accounts_locked answers once both accounts are loaded and   *)
(* active: "merge", or the error it raises.                                *)
(***************************************************************************)
MergeVerdict(survivor, duplicate, explicitLink) ==
  LET reason == DecideMatch(survivor, duplicate, explicitLink)
  IN  IF SharesUnverifiedEmail(survivor, duplicate) /\ reason \notin StrongTies
      THEN "unverified_email"
      ELSE IF reason = "no_match" THEN "no_match" ELSE "merge"
=============================================================================
