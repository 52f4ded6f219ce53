-------------------------- MODULE MCActionPipeline --------------------------
(* Small instances of the action pipeline: one plan of one or two          *)
(* operations.                                                             *)
EXTENDS ActionPipeline

CONSTANTS p1, acc

OnePlan == {p1}
OneAccount == {acc}
MailKind == [p \in Plans |-> "mail_plan"]
SameAccount == [p \in Plans |-> acc]
OneOpEach == [p \in Plans |-> 1]
TwoOpsEach == [p \in Plans |-> 2]
=============================================================================
