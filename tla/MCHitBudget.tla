---------------------------- MODULE MCHitBudget -----------------------------
(***************************************************************************)
(* Days of two hours of two seconds; two callers take 1 or 2 of 2 uses an  *)
(* hour and 3 a day, and the clock crosses into a second day.              *)
(***************************************************************************)
EXTENDS HitBudget

MCUses == {1, 2}
MCHours == 0..2
MCDays == 0..1
=============================================================================
