---------------------------- MODULE Parts_proofs -----------------------------
(***************************************************************************)
(* Theorems about MCParts, in which the parts that share no state run side *)
(* by side: a step of one is a stuttering step of the others, so that what *)
(* was proved of each part alone holds of the run that checks them all.    *)
(***************************************************************************)
EXTENDS MCParts, Requests_proofs, InboxChat_proofs, MessageHistory_proofs, FrontEnds_proofs

\* A step of the run is, for every part, a step of it or none.
LEMMA StepOfEach ==
  ASSUME [Next]_<<part, parts>>
  PROVE  /\ [CallNext]_callVars /\ [LoopNext]_loopVars /\ [DeskNext]_deskVars /\ [LinkNext]_linkVars
         /\ [ChatNext]_chatVars /\ [HistNext]_histVars /\ [ControllerNext]_ctrlVars /\ [GuardNext]_guardVars
<1>1. CASE UNCHANGED <<part, parts>>  BY <1>1 DEF parts
<1>2. CASE OnlyCalls /\ CallNext  BY <1>2 DEF OnlyCalls
<1>3. CASE OnlyLoop /\ LoopNext  BY <1>3 DEF OnlyLoop
<1>4. CASE OnlyDesk /\ DeskNext  BY <1>4 DEF OnlyDesk
<1>5. CASE OnlyLink /\ LinkNext  BY <1>5 DEF OnlyLink
<1>6. CASE OnlyChat /\ ChatNext  BY <1>6 DEF OnlyChat
<1>7. CASE OnlyHistory /\ HistNext  BY <1>7 DEF OnlyHistory
<1>8. CASE OnlyScreen /\ ControllerNext  BY <1>8 DEF OnlyScreen
<1>9. CASE OnlyGuard /\ GuardNext  BY <1>9 DEF OnlyGuard
<1> QED BY <1>1, <1>2, <1>3, <1>4, <1>5, <1>6, <1>7, <1>8, <1>9 DEF Next

\* The run is a behaviour of each part: nothing that one of them does disturbs
\* another.  Of the parts whose specification has no fairness, their whole
\* specification holds, of the others all but their fairness.
THEOREM PartsStandAlone ==
  Spec => /\ CallSpec /\ DeskSpec /\ ChatSpec /\ HistSpec /\ GuardSpec
          /\ LoopInit /\ [][LoopNext]_loopVars
          /\ LinkInit /\ [][LinkNext]_linkVars
          /\ ControllerInit /\ [][ControllerNext]_ctrlVars
<1>1. Init => /\ CallInit /\ LoopInit /\ DeskInit /\ LinkInit
              /\ ChatInit /\ HistInit /\ ControllerInit /\ GuardInit
  BY DEF Init
<1>2. [Next]_<<part, parts>> =>
        /\ [CallNext]_callVars /\ [LoopNext]_loopVars /\ [DeskNext]_deskVars /\ [LinkNext]_linkVars
        /\ [ChatNext]_chatVars /\ [HistNext]_histVars /\ [ControllerNext]_ctrlVars /\ [GuardNext]_guardVars
  BY StepOfEach
<1> QED BY <1>1, <1>2, PTL DEF Spec, CallSpec, DeskSpec, ChatSpec, HistSpec, GuardSpec

\* The invariants of the parts whose fairness the run states in its own way.
LinkInv == TableOK /\ ChildrenOK /\ OneChild /\ AnswerIsOwn

\* The types of all parts are right in every state of the run that checks them.
THEOREM PartsTypeCorrect == Spec => []PartsTypeOK
<1>1. LoopInit => LoopTypeOK  BY InitLoopType
<1>2. LoopTypeOK /\ [LoopNext]_loopVars => LoopTypeOK'  BY LoopTypeStep
<1>3. LinkInit => LinkInv  BY InitTable, InitChild DEF LinkInv
<1>4. LinkInv /\ [LinkNext]_linkVars => LinkInv'  BY TableStep, ChildStep DEF LinkInv
<1>5. LinkInv => LinkTypeOK  BY TypesFollow DEF LinkInv
<1>6. ControllerInit => ScreenInv  BY ScreenStarts
<1>7. ScreenInv /\ [ControllerNext]_ctrlVars => ScreenInv'  BY ScreenStep
<1>8. ScreenInv => ChatTypeInv  BY DEF ScreenInv
<1>9. CallTypeOK /\ LoopTypeOK /\ DeskTypeOK /\ LinkTypeOK
      /\ ChatTypeOK /\ HistTypeOK /\ ChatTypeInv /\ GuardTypeOK => PartsTypeOK
  BY DEF PartsTypeOK
<1> QED
  BY <1>1, <1>2, <1>3, <1>4, <1>5, <1>6, <1>7, <1>8, <1>9, PartsStandAlone, CallTypeCorrect,
     DeskTypeCorrect, ChatTypeCorrect, HistTypeCorrect, GuardTypeCorrect, PTL
=============================================================================
