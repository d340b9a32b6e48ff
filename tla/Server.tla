------------------------------- MODULE Server -------------------------------
(***************************************************************************)
(* What Connections and Registration have in common: they are two parts of *)
(* one process, src/server/handlers.ts, and see the same devices and       *)
(* addresses under the same clock.                                         *)
(***************************************************************************)
EXTENDS Integers, FiniteSets

CONSTANTS
  Device,     \* the ids that browsers make up for themselves
  Address,    \* where a connection comes from
  None,
  MaxClock    \* bound: ticks

ASSUME ClockAssumption == MaxClock \in Nat

VARIABLE clock  \* Date.now, in ticks
=============================================================================
