--------------------------- MODULE CatalogPointer ---------------------------
(***************************************************************************)
(* What publishing the central catalog promises: one atomic pointer to the *)
(* served master catalog.  Each move publishes one run's master, merged    *)
(* onto the master the pointer named until then, so nothing published is   *)
(* ever lost; only where an operator named the merge base does a master    *)
(* leave out what was published since, and it says so.                     *)
(***************************************************************************)
EXTENDS Naturals

CONSTANTS
    Runs,           \* release-trigger runs; each publishes at most one master
    Genesis         \* the master served before the first run

VARIABLES
    served,         \* the master the pointer names
    catalog         \* per published master: its generation, what it contains,
                    \* and whether it repairs the catalog

pointerVars == <<served, catalog>>

Published == DOMAIN catalog

Init ==
    /\ served = Genesis
    /\ catalog = [m \in {Genesis} |-> [generation |-> 1, runs |-> {}, repair |-> FALSE]]

MergedOnto(m, r) ==
    [generation |-> catalog[m].generation + 1, runs |-> catalog[m].runs \union {r},
     repair |-> m # served]

MoveTo(r, onto) ==
    /\ r \notin Published
    /\ served' = r
    /\ catalog' = [m \in Published \union {r} |->
                     IF m = r THEN MergedOnto(onto, r) ELSE catalog[m]]

Publish(r) == MoveTo(r, served)
Repair(r) == \E m \in Published \ {served} : MoveTo(r, m)

Next == \E r \in Runs : Publish(r) \/ Repair(r)

Spec == Init /\ [][Next]_pointerVars
=============================================================================
