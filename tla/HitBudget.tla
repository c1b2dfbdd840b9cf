----------------------------- MODULE HitBudget -----------------------------
(***************************************************************************)
(* The hit budget of src/indexers/newznab-common/src/lib.rs: an hourly and *)
(* a daily request allowance counted together in one state cell, reserved  *)
(* by a get / clock / compare-and-set loop.  A third operation answers, to *)
(* a caller that was refused, how long to wait.                            *)
(***************************************************************************)
EXTENDS HostRuntime

CONSTANTS
    Callers,
    HourlyLimit, DailyLimit,
    HourLen, DayLen,    \* 3_600 and 86_400 seconds in the code
    Uses,               \* amounts that are reserved
    WallHorizon,        \* BOUND: the last instant of the wall clock
    Hours, Days,        \* the hour and day numbers up to then
    NoBudget            \* the state cell before the first reservation (None)

ASSUME CallersAssumption == Callers # {}
ASSUME LimitAssumption == HourlyLimit \in Nat /\ DailyLimit \in Nat
ASSUME LenAssumption == HourLen \in Nat \ {0} /\ DayLen \in Nat \ {0} /\ DayLen % HourLen = 0
ASSUME UsesAssumption == Uses \subseteq Nat
ASSUME WallHorizonAssumption == WallHorizon \in Nat
ASSUME BucketsAssumption ==
    /\ Hours \subseteq Nat /\ Days \subseteq Nat
    /\ \A t \in 0..WallHorizon : t \div HourLen \in Hours /\ t \div DayLen \in Days

VARIABLES
    wall,               \* wall clock in seconds; it does not step back here
    cell,               \* the budget's state cell
    call,               \* per caller: where its operation is, and its locals
    hourly, daily       \* history: uses admitted so far, per hour and per day

vars == <<wall, cell, call, hourly, daily>>

Stored == [hour : Nat, hourly : Nat, day : Nat, daily : Nat]

ASSUME NoBudgetAssumption == NoBudget \notin Stored

\* StoredHitBudget::default
DefaultStored == [hour |-> 0, hourly |-> 0, day |-> 0, daily |-> 0]

PCs == {"idle", "get", "clock", "cas", "ok", "exhausted", "r_load", "answered"}

Call == [pc       : PCs,
         uses     : Nat,
         expected : Stored \union {NoBudget},
         next     : Stored,
         seen     : Nat,        \* retry query: its clock reading
         retry    : Nat]        \* retry query: its answer, 0 for None

IdleCall == [pc |-> "idle", uses |-> 0, expected |-> NoBudget, next |-> DefaultStored,
             seen |-> 0, retry |-> 0]

Init ==
    /\ wall = 0
    /\ cell = NoBudget
    /\ call = [c \in Callers |-> IdleCall]
    /\ hourly = [h \in Hours |-> 0]
    /\ daily = [d \in Days |-> 0]

OrDefault(state) == IF state = NoBudget THEN DefaultStored ELSE state

\* the buckets that snapshot_for_budget counts in
Hour(t) == t \div HourLen
Day(t) == t \div DayLen

\* snapshot_for_budget: each counter restarts when its own bucket changes
Snapshot(state, t) ==
    LET hour == Hour(t)
        day  == Day(t)
    IN [hour   |-> hour,
        hourly |-> IF state.hour = hour THEN state.hourly ELSE 0,
        day    |-> day,
        daily  |-> IF state.day = day THEN state.daily ELSE 0]

\* what reserve_hit_budget_uses admits on a snapshot
Admits(s, uses) ==
    /\ s.hourly < HourlyLimit /\ s.daily < DailyLimit
    /\ uses <= SatSub(HourlyLimit, s.hourly)
    /\ uses <= SatSub(DailyLimit, s.daily)

Returned(c) == call[c].pc \in {"idle", "ok", "exhausted", "answered"}

Reserving(uses) == [IdleCall EXCEPT !.pc = "get", !.uses = uses]

(***************************************************************************)
(* reserve_hit_budget_uses                                                 *)
(***************************************************************************)
Begin(c, uses) ==
    /\ Returned(c)
    /\ call' = [call EXCEPT ![c] = Reserving(uses)]
    /\ UNCHANGED <<wall, cell, hourly, daily>>

Get(c) ==
    /\ call[c].pc = "get"
    /\ call' = [call EXCEPT ![c].pc = "clock", ![c].expected = cell]
    /\ UNCHANGED <<wall, cell, hourly, daily>>

Clock(c) ==
    /\ call[c].pc = "clock"
    /\ LET s == Snapshot(OrDefault(call[c].expected), wall)
       IN \/ /\ ~Admits(s, call[c].uses)
             /\ call' = [call EXCEPT ![c] = [IdleCall EXCEPT !.pc = "exhausted"]]
          \/ /\ Admits(s, call[c].uses)
             /\ call' = [call EXCEPT ![c].pc = "cas",
                            ![c].next = [s EXCEPT !.hourly = @ + call[c].uses,
                                                  !.daily = @ + call[c].uses]]
    /\ UNCHANGED <<wall, cell, hourly, daily>>

Grant(c) ==
    /\ hourly' = [hourly EXCEPT ![call[c].next.hour] = @ + call[c].uses]
    /\ daily' = [daily EXCEPT ![call[c].next.day] = @ + call[c].uses]

\* Mutant: a plain write where the code compares and sets.
BlindWrite(c) ==
    /\ call[c].pc = "cas"
    /\ cell' = call[c].next
    /\ Grant(c)
    /\ call' = [call EXCEPT ![c] = [IdleCall EXCEPT !.pc = "ok"]]
    /\ UNCHANGED wall

Cas(c) ==
    /\ call[c].pc = "cas"
    /\ \/ /\ cell = call[c].expected
          /\ cell' = call[c].next
          /\ Grant(c)
          /\ call' = [call EXCEPT ![c] = [IdleCall EXCEPT !.pc = "ok"]]
       \/ /\ cell # call[c].expected
          /\ call' = [call EXCEPT ![c] = Reserving(call[c].uses)]
          /\ UNCHANGED <<cell, hourly, daily>>
    /\ UNCHANGED wall

(***************************************************************************)
(* hit_budget_retry_after_seconds(required): clock, then state.            *)
(***************************************************************************)
\* Mutant: the wait runs to the next hour although the day is used up.
RetryNextHour(s, uses, t) ==
    IF uses > SatSub(HourlyLimit, s.hourly) \/ uses > SatSub(DailyLimit, s.daily)
      THEN (t \div HourLen + 1) * HourLen - t
      ELSE 0

\* Mutant: the wait is measured to the bucket's start instead of its end.
RetryFromStart(s, uses, t) ==
    IF uses > SatSub(DailyLimit, s.daily) THEN (t \div DayLen) * DayLen - t
    ELSE IF uses > SatSub(HourlyLimit, s.hourly) THEN (t \div HourLen) * HourLen - t
    ELSE 0

RetryAfter(s, uses, t) ==
    LET nextHour == (t \div HourLen + 1) * HourLen - t
        nextDay  == (t \div DayLen + 1) * DayLen - t
    IN MaxOf(IF uses > SatSub(HourlyLimit, s.hourly) THEN nextHour ELSE 0,
             IF uses > SatSub(DailyLimit, s.daily) THEN nextDay ELSE 0)

BeginRetryAfter(c, uses) ==
    /\ Returned(c)
    /\ call' = [call EXCEPT ![c] = [IdleCall EXCEPT !.pc = "r_load", !.uses = uses,
                                                    !.seen = wall]]
    /\ UNCHANGED <<wall, cell, hourly, daily>>

RetryLoad(c) ==
    /\ call[c].pc = "r_load"
    /\ LET s == Snapshot(OrDefault(cell), call[c].seen)
       IN call' = [call EXCEPT ![c].pc = "answered", ![c].expected = cell,
                               ![c].retry = RetryAfter(s, call[c].uses, call[c].seen)]
    /\ UNCHANGED <<wall, cell, hourly, daily>>

Step(c) == Get(c) \/ Clock(c) \/ Cas(c) \/ RetryLoad(c)

Tick ==
    /\ wall < WallHorizon
    /\ wall' = wall + 1
    /\ UNCHANGED <<cell, call, hourly, daily>>

Next ==
    \/ Tick
    \/ \E c \in Callers :
         \/ Step(c)
         \/ \E uses \in Uses : Begin(c, uses) \/ BeginRetryAfter(c, uses)

Spec == Init /\ [][Next]_vars

-----------------------------------------------------------------------------
TypeOK ==
    /\ wall \in 0..WallHorizon
    /\ cell \in Stored \union {NoBudget}
    /\ call \in [Callers -> Call]
    /\ hourly \in [Hours -> Nat]
    /\ daily \in [Days -> Nat]

(***************************************************************************)
(* Neither allowance is ever overrun, however reservations race each other *)
(* and the two roll-overs: an hour that ends inside a day restarts the     *)
(* hourly count only.                                                      *)
(***************************************************************************)
BudgetHeld ==
    /\ \A h \in Hours : hourly[h] <= HourlyLimit
    /\ \A d \in Days : daily[d] <= DailyLimit

(***************************************************************************)
(* The retry hint is honest: a request both limits could ever admit is     *)
(* admitted once the hinted time has passed, unless someone else used the  *)
(* budget meanwhile.                                                       *)
(***************************************************************************)
RetryAfterSuffices ==
    \A c \in Callers :
        /\ call[c].pc = "answered"
        /\ call[c].uses \in 1..MinOf(HourlyLimit, DailyLimit)
        => Admits(Snapshot(OrDefault(call[c].expected), call[c].seen + call[c].retry),
                  call[c].uses)

(***************************************************************************)
(* The inductive invariant behind BudgetHeld: the cell's hour and day are  *)
(* not ahead of the clock and count what they granted, nothing was granted *)
(* later, and a caller about to write has rolled over from what it read.   *)
(***************************************************************************)
CellCounts ==
    LET s == OrDefault(cell)
    IN /\ s.hour \in Hours /\ s.hour <= Hour(wall)
       /\ hourly[s.hour] = s.hourly
       /\ \A h \in Hours : h > s.hour => hourly[h] = 0
       /\ s.day \in Days /\ s.day <= Day(wall)
       /\ daily[s.day] = s.daily
       /\ \A d \in Days : d > s.day => daily[d] = 0
CasPrepared ==
    \A c \in Callers :
        LET s == OrDefault(call[c].expected)
            n == call[c].next
        IN /\ call[c].pc \in {"clock", "cas"} =>
                /\ s.hour <= Hour(wall) /\ s.hourly <= HourlyLimit
                /\ s.day <= Day(wall) /\ s.daily <= DailyLimit
           /\ call[c].pc = "cas" =>
                /\ n.hour \in Hours /\ s.hour <= n.hour /\ n.hour <= Hour(wall)
                /\ n.hourly = (IF s.hour = n.hour THEN s.hourly ELSE 0) + call[c].uses
                /\ n.hourly <= HourlyLimit
                /\ n.day \in Days /\ s.day <= n.day /\ n.day <= Day(wall)
                /\ n.daily = (IF s.day = n.day THEN s.daily ELSE 0) + call[c].uses
                /\ n.daily <= DailyLimit
BudgetInv == TypeOK /\ CellCounts /\ CasPrepared /\ BudgetHeld
=============================================================================
