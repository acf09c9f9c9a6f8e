CONSTANTS
  S = S
  P = P
  Q = Q
  T = T
  Self = S
  Node = {S, P, Q, T}
  DnsNodes = {P, Q}
  Pairs <- MCPairs
  Existing <- MCExisting
  FeeSchedules <- MCFeeSchedules
  BadLists <- MCBadLists
  RouteStrategy = "diverse"
  FeePenalty = 1
  DiversityPenalty = 1
  Payers = {1}
  Targets = {P, T}
  MaxEvents = 3
  MaxCalls = 1
SPECIFICATION Spec
INVARIANTS
  GraphConsistent
  ClosedIsGone
  
  RouteSound
  Cheapest
CHECK_DEADLOCK FALSE
