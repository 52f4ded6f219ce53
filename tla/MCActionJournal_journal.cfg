SPECIFICATION Spec
CONSTANTS
  cal = cal
  chat = chat
  work = work
  home = home
  Plans <- PlanSet
  Accounts <- AccountSet
  AccountOf <- AccountMap
  KindOf <- PlanKinds
  NumOps <- PlanOps
  Times = {1}
  NoOp = NoOp
  NoPlan = NoPlan
  MaxCrashes = 2
  MaxFaults = 2
INVARIANTS FinalizedIsFaithful OncePerIncarnation CompletionFollowsOutcomes NoLostWakeup
PROPERTIES TerminalIsFinal EventuallyFinalized ImplementsContract
