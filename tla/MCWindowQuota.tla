--------------------------- MODULE MCWindowQuota ----------------------------
(***************************************************************************)
(* Two callers reserve 1 or 2 uses of a quota of 3 per 2 ms; the clock     *)
(* crosses two window boundaries.                                          *)
(***************************************************************************)
EXTENDS WindowQuota

MCUses == {1, 2}
MCBuckets == 0..2
=============================================================================
