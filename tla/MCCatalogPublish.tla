------------------------- MODULE MCCatalogPublish ---------------------------
(***************************************************************************)
(* r1 and r2 release the same rule pack; r3, where a run has it, releases  *)
(* a plugin only.                                                          *)
(***************************************************************************)
EXTENDS CatalogPublish, TLC

CONSTANTS run1, run2, run3, pack

MCTwoRuns == {run1, run2}
MCThreeRuns == {run1, run2, run3}
MCSymmetry == Permutations(MCTwoRuns)
MCPacks == {pack}
MCPackOf == [r \in Runs |-> IF r = run3 THEN {} ELSE {pack}]
=============================================================================
