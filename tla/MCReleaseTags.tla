--------------------------- MODULE MCReleaseTags ----------------------------
(***************************************************************************)
(* A maintainer's clone and the workflow.  The refresh pull requests of    *)
(* "engine" and "pack" merge as commits 1 and 2; "engine" has a new        *)
(* version at commit 2, "pack" has the same at both.                       *)
(***************************************************************************)
EXTENDS ReleaseTags

MCRequests == {<<1, "engine">>, <<2, "pack">>}
MCCommits == 1..2
MCVersion == [k \in Components |-> [c \in Commits |-> IF k = "engine" THEN c ELSE 1]]
MCLine == [v \in 1..2 |-> 1]
=============================================================================
