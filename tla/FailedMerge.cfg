CONSTANTS
  a = a
  b = b
  c = c
  x1 = x1
  x2 = x2
  w1 = w1
  w2 = w2
  NoEmail = NoEmail
  Blank = Blank
  NoUser = NoUser
  NoWorker = NoWorker
  NoRequest = NoRequest
  NoItem = NoItem
  NoExternalId = NoExternalId
  Users = {a, b, c}
  Workers = {w1, w2}
  ExternalIds = {x1, x2}
  Items <- MCItems
  Emails <- MCEmails
  Requests <- MergeOnly
  Stores <- SharedEmailOnly
  MaxFaults = 1
SPECIFICATION Spec
INVARIANTS FailedMergeRolledBack EveryTombstoneRecorded
