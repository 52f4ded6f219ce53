SPECIFICATION PipelineSpec
CONSTANTS
  p1 = p1
  acc = acc
  Plans <- OnePlan
  Accounts <- OneAccount
  AccountOf <- SameAccount
  KindOf <- MailKind
  NumOps <- OneOpEach
  Times = {1}
  NoOp = NoOp
  NoPlan = NoPlan
  MaxCrashes = 2
  MaxFaults = 0
  MaxTimeouts = 0
INVARIANTS NotForgotten
PROPERTIES Settles
