SPECIFICATION PipelineSpec
CONSTANTS
  p1 = p1
  acc = acc
  Plans <- OnePlan
  Accounts <- OneAccount
  AccountOf <- SameAccount
  KindOf <- MailKind
  NumOps <- TwoOpsEach
  Times = {1}
  NoOp = NoOp
  NoPlan = NoPlan
  MaxCrashes = 1
  MaxFaults = 1
  MaxTimeouts = 1
INVARIANTS ShownIsStored StreamedIsWhole NoFalseRollback
