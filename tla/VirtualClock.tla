---------------------------- MODULE VirtualClock ----------------------------
(***************************************************************************)
(* common/clock.ts: the clock of a station that is shown faster than it    *)
(* runs.  It lives in the memory of the server: it is set by the endpoint  *)
(* clock-speed and starts anew, at the real time, with the process.        *)
(*                                                                         *)
(* Real time is in hours.  Speeds are in tenths (10 is real time), so that *)
(* virtual time is in tenths of an hour: MeteredAmount and the tariff use  *)
(* the same unit.                                                          *)
(***************************************************************************)
EXTENDS Integers

CONSTANTS Speeds,        \* values sent to clock-speed; 0 stands for no number
          Starts,        \* real times the server may first be started at
          MaxElapsed,    \* bound: real time that passes in a run
          MaxSettings,   \* bound: settings of the speed
          MaxBoots       \* bound: starts of the process

ASSUME ClockAssumption ==
    /\ Speeds \subseteq Int
    /\ Starts \subseteq Nat
    /\ {MaxElapsed, MaxSettings, MaxBoots} \subseteq Nat

VARIABLES
    real,          \* Date.now()
    opened,        \* when the run began: only for the bound
    baseReal, baseVirtual, speed,
    boot,          \* how many times the process was started
    settings       \* how many times the speed was set

clock == <<real, opened, baseReal, baseVirtual, speed, boot, settings>>

RealTime == 10
Slowest == 1
Fastest == 1000

VirtualNow == baseVirtual + (real - baseReal) * speed

(* virtualElapsedMs: never negative, whatever the clock did. *)
VirtualElapsed(since) == IF VirtualNow < since THEN 0 ELSE VirtualNow - since

ClockInit ==
    /\ real \in Starts
    /\ opened = real
    /\ baseReal = real
    /\ baseVirtual = RealTime * real
    /\ speed = RealTime
    /\ boot = 1
    /\ settings = 0

Advance ==
    /\ real - opened < MaxElapsed
    /\ real' = real + 1
    /\ UNCHANGED <<opened, baseReal, baseVirtual, speed, boot, settings>>

(* Mutant of Clamped: the number is taken as it was sent. *)
ClampedNot(v) == v

(* Number(speed) || 1, then between 0.1 and 100. *)
Clamped(v) ==
    LET asked == IF v = 0 THEN RealTime ELSE v
    IN  IF asked < Slowest THEN Slowest ELSE IF asked > Fastest THEN Fastest ELSE asked

(* Mutant of RebasedVirtual: the bases stay where they were. *)
RebasedNever == baseVirtual

(* The virtual time at which the new speed takes over. *)
RebasedVirtual == VirtualNow

SetClockSpeed(v) ==
    /\ settings < MaxSettings
    /\ baseVirtual' = RebasedVirtual
    /\ baseReal' = real
    /\ speed' = Clamped(v)
    /\ settings' = settings + 1
    /\ UNCHANGED <<real, opened, boot>>

(* The module is loaded again: its three variables have their first values. *)
Reboot ==
    /\ boot < MaxBoots
    /\ boot' = boot + 1
    /\ baseReal' = real
    /\ baseVirtual' = RealTime * real
    /\ speed' = RealTime
    /\ UNCHANGED <<real, opened, settings>>

ClockNext == Advance \/ (\E v \in Speeds : SetClockSpeed(v)) \/ Reboot

ClockSpec == ClockInit /\ [][ClockNext]_clock

-----------------------------------------------------------------------------
(* Properties *)

ClockTypeOK ==
    /\ {real, opened, baseReal, boot, settings} \subseteq Nat
    /\ baseVirtual \in Nat
    /\ speed \in Slowest..Fastest
    /\ baseReal <= real

\* Until the process restarts, the clock does not run backwards, and a change of
\* its speed does not move it (setClockSpeed takes new bases).
ClockRunsOn ==
    [][boot' = boot => /\ VirtualNow' >= VirtualNow
                       /\ real' = real => VirtualNow' = VirtualNow]_clock
=============================================================================
