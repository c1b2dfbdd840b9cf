--------------------------- MODULE MCCooldownGate ---------------------------
(***************************************************************************)
(* Two callers race on one cooldown; a delay of 1 asked for later can    *)
(* end before a delay of 3 asked for earlier.  Deadline 2 defers a wait,   *)
(* deadline 6 outlives every cooldown the bounds allow.                    *)
(***************************************************************************)
EXTENDS CooldownGate

MCDelays == {1, 3}
MCDeadlines == {2, 6}
=============================================================================
