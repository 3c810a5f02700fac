-------------------------------- MODULE Clock --------------------------------
(***************************************************************************)
(* std::chrono::steady_clock as MicMap reads it.  A tick is a fraction of  *)
(* a millisecond; a time point is kept as its age in ticks, saturating     *)
(* where no comparison of the code can tell larger ages apart.             *)
(***************************************************************************)
EXTENDS Integers

CONSTANT TicksPerMs

ASSUME ClockAssumption == TicksPerMs \in Nat \ {0}

\* duration_cast<milliseconds> truncates.
Milliseconds(ticks) == ticks \div TicksPerMs

Saturate(n, cap) == IF n < cap THEN n ELSE cap
=============================================================================
