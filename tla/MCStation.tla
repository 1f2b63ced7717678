----------------------------- MODULE MCStation -----------------------------
(* Values of the constants for the runs of Station. *)
EXTENDS StationProperties

OneFast == {1}
TwoFast == {1, 2}
AllFast == [p \in Piles |-> "FAST"]
FastAndSlow == [p \in Piles |-> IF p = Max(Piles) THEN "SLOW" ELSE "FAST"]
ModelPower == [p \in Piles |-> IF PileType[p] = "FAST" THEN 3 ELSE 1]

\* The buttons of the two front ends, but for the optimization page.
UiOps == {"submit", "cancel", "stop", "queueStatus", "basic", "fault", "recover",
          "powerOn", "powerOff", "reschedulePriority"}
\* What fills and empties queues, without what rearranges them by queue number.
QueueOps == {"submit", "cancel", "start", "stop", "queueStatus", "basic", "single", "fault",
             "reschedulePriority"}
RaceOps == {"submit", "cancel", "basic", "fault"}
ModeOps == {"submit", "modifyMode", "modifyAmount", "cancel", "start", "basicAll", "batch",
            "single", "fault", "recover", "rescheduleTimeOrder", "powerOn", "powerOff"}
LiveOps == {"submit", "fault", "recover"}

Symmetric == Permutations(Users) \cup Permutations(Slots)

FastOne == {<<"FAST", 1>>}
FastOrSlow == {<<"FAST", 1>>, <<"SLOW", 1>>}
FastTwo == {<<"FAST", 2>>}
=============================================================================
