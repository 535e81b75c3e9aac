------------------------------- MODULE TaskIds -------------------------------
(* The identifiers of the tasks that ModelCalls and InboxFlow speak of.      *)
EXTENDS FiniteSets

CONSTANTS Tasks, NoTask

ASSUME TaskAssumption == NoTask \notin Tasks /\ IsFiniteSet(Tasks)
=============================================================================
