------------------------------ MODULE TripLatch ------------------------------
(***************************************************************************)
(* What the safety chain promises LinuxCNC, whatever the processes behind  *)
(* it do: the machine is enabled only while the heartbeat is alive and the *)
(* latch is clear, losing the heartbeat for a single servo cycle latches,  *)
(* and one operator reset releases at most one trip.                       *)
(***************************************************************************)
EXTENDS Naturals

VARIABLES
  alive,     \* the heartbeat as the servo thread sees it
  latched,   \* the trip latch
  enabled,   \* LinuxCNC's enable input
  credits    \* operator resets that have not released a trip yet

vars == <<alive, latched, enabled, credits>>

Init == alive = FALSE /\ latched = TRUE /\ enabled = FALSE /\ credits = 0

OperatorReset ==
  /\ credits' = credits + 1
  /\ UNCHANGED <<alive, latched, enabled>>

\* A servo cycle without heartbeat.
Dead ==
  /\ ~alive' /\ latched' /\ ~enabled'
  /\ UNCHANGED credits

\* A servo cycle with heartbeat; the enable input may stay low for reasons of
\* its own (E-stop, no client).
Alive ==
  /\ alive'
  /\ enabled' \in {FALSE, ~latched}
  /\ UNCHANGED <<latched, credits>>

\* A servo cycle in which an operator's reset releases the latch.
Release ==
  /\ latched /\ credits > 0
  /\ alive' /\ ~latched' /\ ~enabled'
  /\ credits' = credits - 1

Next == OperatorReset \/ Dead \/ Alive \/ Release

Spec == Init /\ [][Next]_vars
=============================================================================
