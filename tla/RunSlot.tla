------------------------------- MODULE RunSlot -------------------------------
(***************************************************************************)
(* What the scheduler promises about the background work of a schedule:    *)
(* one slot per schedule that is free, holds one queued run, or is busy    *)
(* with one.  Work is claimed in batches, a claimed run never returns to   *)
(* the queue, and a queued run is neither dropped nor overtaken by another *)
(* run of its schedule.                                                    *)
(***************************************************************************)
CONSTANT Schedules
VARIABLE slot

SlotTypeOK == slot \in [Schedules -> {"free", "queued", "busy"}]

Init == slot = [s \in Schedules |-> "free"]

Enqueue(s) ==
  /\ slot[s] = "free"
  /\ slot' = [slot EXCEPT ![s] = "queued"]

Claim(S) ==
  /\ \A s \in S : slot[s] = "queued"
  /\ slot' = [s \in Schedules |-> IF s \in S THEN "busy" ELSE slot[s]]

Finish(s) ==
  /\ slot[s] = "busy"
  /\ slot' = [slot EXCEPT ![s] = "free"]

Next ==
  \/ \E s \in Schedules : Enqueue(s) \/ Finish(s)
  \/ \E S \in SUBSET Schedules : Claim(S)

Spec == Init /\ [][Next]_slot
=============================================================================
