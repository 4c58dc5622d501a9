SPECIFICATION DecisionSpec
CONSTANTS
  NoEmail = NoEmail
  Blank = Blank
  Addresses = {ann, bob}
  Spellings = {lower, mixed}
  Links = {l1, l2}
  MaxAny = 6
  MaxLive = 9
  Aliases <- FlowAliases
  Realms <- FlowRealms
  Root = "a"
INVARIANTS NeverOnUnverifiedEmail AcceptsGrammar CollectsReachable
PROPERTIES VerdictStable
CHECK_DEADLOCK FALSE
