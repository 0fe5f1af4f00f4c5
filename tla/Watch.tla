------------------------------- MODULE Watch -------------------------------
(* What is watched for the operators: the alert inbox, and beside it the    *)
(* operations briefing.  The two share no variable.                         *)
EXTENDS AlertInbox

CONSTANTS
    Cats, Notifiers, MaxChanges, MaxRefreshes, MaxRestarts      \* of the briefing

VARIABLES
    truth, fp, pending, forced, count, failed, wake, receipt, receiptAge, note, work,
    made, changes, refreshes, restarts

Briefing == INSTANCE OperationsBriefing WITH
    Silent <- FALSE, MaxDeaths <- MaxRestarts,
    source <- truth, age <- receiptAge, deaths <- restarts

ASSUME BriefingAssumption == Briefing!OperationsBriefingAssumption

briefingVars ==
    <<truth, fp, pending, forced, count, failed, wake, receipt, receiptAge, note, work,
      made, changes, refreshes, restarts>>

(* What is checked, beside ToldInOrder and InboxIsTrue of AlertInbox: the   *)
(* worker goes to sleep on no announced change, and signs no receipt that   *)
(* nothing asked for.                                                       *)
BriefingIsFresh == Briefing!TypeOK /\ Briefing!NothingForgotten /\ Briefing!NoChurn
=============================================================================
