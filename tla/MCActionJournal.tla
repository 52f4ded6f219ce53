-------------------------- MODULE MCActionJournal --------------------------
(* A small instance of the action journal: a calendar plan of two          *)
(* operations, whose fallback results are a mail plan's, and a quiet chat   *)
(* job, on two accounts.  Mail plans are in the runs of ActionPipeline.     *)
EXTENDS ActionJournalContract, TLC

CONSTANTS cal, chat, work, home

PlanSet == {cal, chat}
AccountSet == {work, home}
AccountMap == cal :> work @@ chat :> home
PlanKinds == cal :> "calendar_plan" @@ chat :> "mark_chat_read"
PlanOps == cal :> 2 @@ chat :> 0
=============================================================================
