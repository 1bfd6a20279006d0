------------------------------ MODULE HubClock ------------------------------
(***************************************************************************)
(* What the parts of the admin surface share: a clock, and the number of   *)
(* things the outside world has done (requests, logins, key rotations,     *)
(* failures, restarts), which bounds a behaviour.                          *)
(***************************************************************************)
EXTENDS Integers, FiniteSets

CONSTANTS None, MaxClock, MaxEvents

ASSUME ClockAssumption == MaxClock \in Nat /\ MaxEvents \in Nat

VARIABLES clock, events

clockVars == <<clock, events>>

ClockInit == clock = 0 /\ events = 0

(* Bound MaxEvents. *)
Happens == events < MaxEvents /\ events' = events + 1 /\ UNCHANGED clock
Quietly == UNCHANGED clockVars

=============================================================================
