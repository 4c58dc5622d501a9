SPECIFICATION Spec
CONSTANTS
  Self = self
  Shapes <- MCShapes
  Profiles <- MCProfiles
  Alterations <- MCAlterations
  SubjectOf <- MCSubjectOf
  Invisible <- MCInvisible
  MaxSubjectLength = 5
  MaxTenantLength = 5
  Life = 1
  MaxTime = 2
  MaxLogins = 2
  None = None
  Bad = Bad
  self = self
  other = other
  known = known
  alice = alice
  bob = bob
  carol = carol
  odd = odd
INVARIANTS VerifiedIsGenuine TokenVerifiedOnce LiveTokenInTime LinkNamesOnePerson
CHECK_DEADLOCK FALSE
