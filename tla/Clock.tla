-------------------------------- MODULE Clock --------------------------------
(***************************************************************************)
(* The wall clock that the roles read with time.Now().  JWT times are      *)
(* whole seconds; the clock runs in finer ticks.                           *)
(***************************************************************************)
EXTENDS Integers

CONSTANTS
  TicksPerSecond, \* clock resolution
  MaxTime         \* bound on the clock

ASSUME ClockAssumption == TicksPerSecond \in Nat \ {0} /\ MaxTime \in Nat

VARIABLE clock    \* wall clock, in ticks

TimePasses == clock < MaxTime /\ clock' = clock + 1
=============================================================================
