-------------------------- MODULE MCStartRateGate --------------------------
(***************************************************************************)
(* Two callers, 2 starts per 5 ms: the gap is 3, and rounding it down      *)
(* would let a third start into a window.  The clock runs to 9, three      *)
(* slots; one deadline (2) expires before the first slot, one outlives     *)
(* them all.                                                               *)
(***************************************************************************)
EXTENDS StartRateGate

MCDeadlines == {2, 9}
=============================================================================
