--------------------------------- MODULE Clock ---------------------------------
(***************************************************************************)
(* The wall clock every component asks for the time.  It goes on, and the  *)
(* operator or time synchronisation may set it back.                       *)
(***************************************************************************)
EXTENDS Naturals

CONSTANTS
    MaxTime,  \* bound: the clock
    MaxBack   \* bound: times the clock is set back

ASSUME ClockAssumption == MaxTime \in Nat /\ MaxBack \in Nat

VARIABLES now, backs

clockVars == <<now, backs>>

ClockInit == now = 0 /\ backs = 0

Tick ==
    \/ now < MaxTime /\ now' = now + 1 /\ UNCHANGED backs
    \/ now > 0 /\ backs < MaxBack /\ now' = now - 1 /\ backs' = backs + 1

ClockTypeOK == now \in 0..MaxTime /\ backs \in 0..MaxBack
================================================================================
