-------------------------- MODULE PoliteHttpProofs --------------------------
(***************************************************************************)
(* For any callers, limits, deadlines and responses, the request loop of   *)
(* polite_http_get_redacting keeps within its attempts and its retry       *)
(* budget, sends nothing before a backoff is over, and takes nothing from  *)
(* what the start gate, the cooldown and the hit budget promise alone.     *)
(* What the budget granted is what was sent, plus the grants about to be   *)
(* sent.                                                                   *)
(***************************************************************************)
EXTENDS PoliteHttp, FiniteSetTheorems, WellFoundedInduction, TLAPS

(***************************************************************************)
(* The components.  What is proved of each one alone holds of it here,     *)
(* with the loop's variables for its own; only a call that the loop        *)
(* forgets is a step that the component does not take by itself.           *)
(***************************************************************************)
GateAlone == INSTANCE StartRateGateProofs
               WITH call <- gate, Starts <- 1, IntervalMs <- MaxOf(PreRequestDelay, 1),
                    Deadlines <- Nat
CoolAlone == INSTANCE CooldownGateProofs
               WITH call <- cool, LastDefer <- Horizon, Delays <- Nat, Deadlines <- Nat
BudgetAlone == INSTANCE HitBudgetProofs
                 WITH call <- hit, wall <- now, WallHorizon <- Horizon, Uses <- {1}

(***************************************************************************)
(* The start gate.                                                         *)
(***************************************************************************)
LEMMA GateAgrees ==
    /\ Gate!Init => GateAlone!Init
    /\ Gate!SpacingInv <=> GateAlone!SpacingInv
    /\ Gate!Next => GateAlone!Next
<1> USE DEF Gate!Gap, GateAlone!Gap, Gate!MaxOf, GateAlone!MaxOf, Gate!DivCeil, GateAlone!DivCeil
<1>1. Gate!Call = GateAlone!Call /\ Gate!IdleCall = GateAlone!IdleCall
  BY DEF Gate!Call, GateAlone!Call, Gate!PCs, GateAlone!PCs, Gate!IdleCall, GateAlone!IdleCall
<1>2. Gate!TypeOK <=> GateAlone!TypeOK
  BY <1>1 DEF Gate!TypeOK, GateAlone!TypeOK
<1>3. Gate!Spacing <=> GateAlone!Spacing
  BY DEF Gate!Spacing, GateAlone!Spacing
<1>4. Gate!SpacingInv <=> GateAlone!SpacingInv
  BY <1>2, <1>3 DEF Gate!SpacingInv, GateAlone!SpacingInv, Gate!LatestStamp,
                    GateAlone!LatestStamp, Gate!CasReady, GateAlone!CasReady
<1>5. Gate!Next => GateAlone!Next
  <2>1. ASSUME NEW c PROVE Gate!Step(c) => GateAlone!Step(c)
    BY <1>1 DEF Gate!Step, GateAlone!Step, Gate!Get, GateAlone!Get, Gate!Clock, GateAlone!Clock,
                Gate!Budget, GateAlone!Budget, Gate!Wake, GateAlone!Wake, Gate!Cas, GateAlone!Cas,
                Gate!EligibleAt, GateAlone!EligibleAt, Gate!SatAdd, GateAlone!SatAdd,
                Gate!SatSub, GateAlone!SatSub, Gate!MinOf, GateAlone!MinOf,
                Gate!Looping, GateAlone!Looping, Gate!Returning, GateAlone!Returning,
                Gate!SleepUntilDeadline, GateAlone!SleepUntilDeadline
  <2>2. ASSUME NEW c, NEW d PROVE Gate!Begin(c, d) => GateAlone!Begin(c, d)
    BY <1>1 DEF Gate!Begin, GateAlone!Begin, Gate!Looping, GateAlone!Looping,
                Gate!Returned, GateAlone!Returned
  <2>3. ASSUME NEW c PROVE Gate!Cancel(c) => GateAlone!Cancel(c)
    BY <1>1 DEF Gate!Cancel, GateAlone!Cancel
  <2>4. Gate!Tick => GateAlone!Tick
    BY DEF Gate!Tick, GateAlone!Tick
  <2> QED BY <2>1, <2>2, <2>3, <2>4 DEF Gate!Next, GateAlone!Next
<1>6. Gate!Init => GateAlone!Init
  BY <1>1 DEF Gate!Init, GateAlone!Init
<1> QED BY <1>4, <1>5, <1>6

LEMMA GateMoves ==
    /\ Gate!Init => Gate!SpacingInv
    /\ Gate!SpacingInv /\ Gate!Next => Gate!SpacingInv'
<1>1. /\ MaxOf(PreRequestDelay, 1) \in Nat /\ 1 \in Nat /\ Nat \subseteq Nat
      /\ Callers # {} /\ NoStamp \notin Nat
  BY DelayAssumption, CallersAssumption, EmptyCellAssumption DEF MaxOf
<1>2. GateAlone!Init => GateAlone!SpacingInv
  BY <1>1, GateAlone!InitInv, U64MaxAssumption, HorizonAssumption
<1>3. GateAlone!SpacingInv /\ GateAlone!Next => GateAlone!SpacingInv'
  BY <1>1, GateAlone!NextInv, U64MaxAssumption, HorizonAssumption
<1>4. Gate!SpacingInv' <=> GateAlone!SpacingInv'
  BY GateAgrees, PTL
<1> QED BY <1>2, <1>3, <1>4, GateAgrees

LEMMA GateStepInv ==
    ASSUME Gate!SpacingInv, NEW c \in Callers, Gate!Step(c)
    PROVE  Gate!SpacingInv' /\ now' = now
<1>1. now' = now
  BY DEF Gate!Step, Gate!Get, Gate!Clock, Gate!Budget, Gate!Wake, Gate!Cas
<1> QED BY <1>1, GateMoves DEF Gate!Next

LEMMA GateBeginInv ==
    ASSUME Gate!SpacingInv, NEW c \in Callers, NEW d \in Nat, Gate!Begin(c, d)
    PROVE  Gate!SpacingInv' /\ now' = now
<1>1. now' = now
  BY DEF Gate!Begin
<1> QED BY <1>1, GateMoves DEF Gate!Next

LEMMA GateDoneInv ==
    ASSUME Gate!SpacingInv, NEW c \in Callers, GateDone(c), UNCHANGED <<now, stamp, starts>>
    PROVE  Gate!SpacingInv'
<1>1. Gate!IdleCall \in Gate!Call /\ Gate!IdleCall.pc = "idle"
  BY DEF Gate!IdleCall, Gate!Call, Gate!PCs
<1> QED BY <1>1 DEF GateDone, Gate!SpacingInv, Gate!TypeOK, Gate!LatestStamp, Gate!CasReady,
                    Gate!Spacing

(***************************************************************************)
(* The cooldown.                                                           *)
(***************************************************************************)
LEMMA CellType ==
    ASSUME NEW x \in Nat \union {NoCooldown}
    PROVE  Cool!OrDefault(x) \in Nat
BY DEF Cool!OrDefault

LEMMA CoolAgrees ==
    /\ Cool!Init => CoolAlone!Init
    /\ Cool!CooldownInv <=> CoolAlone!CooldownInv
    /\ Cool!Next => CoolAlone!Next
<1> USE DEF Cool!OrDefault, CoolAlone!OrDefault
<1>1. Cool!Call = CoolAlone!Call /\ Cool!IdleCall = CoolAlone!IdleCall
  BY DEF Cool!Call, CoolAlone!Call, Cool!PCs, CoolAlone!PCs, Cool!IdleCall, CoolAlone!IdleCall
<1>2. Cool!TypeOK <=> CoolAlone!TypeOK
  BY <1>1 DEF Cool!TypeOK, CoolAlone!TypeOK
<1>3. Cool!CooldownInv <=> CoolAlone!CooldownInv
  BY <1>2 DEF Cool!CooldownInv, CoolAlone!CooldownInv, Cool!DeferTakesEffect,
              CoolAlone!DeferTakesEffect, Cool!WaitedOut, CoolAlone!WaitedOut,
              Cool!OwedKept, CoolAlone!OwedKept
<1>4. Cool!Next => CoolAlone!Next
  <2>1. ASSUME NEW c PROVE Cool!Step(c) => CoolAlone!Step(c)
    BY <1>1 DEF Cool!Step, CoolAlone!Step, Cool!WaitGet, CoolAlone!WaitGet,
                Cool!WaitClock, CoolAlone!WaitClock, Cool!Budget, CoolAlone!Budget,
                Cool!Wake, CoolAlone!Wake, Cool!DeferGet, CoolAlone!DeferGet,
                Cool!DeferCas, CoolAlone!DeferCas, Cool!Replacement, CoolAlone!Replacement,
                Cool!MaxOf, CoolAlone!MaxOf, Cool!SatSub, CoolAlone!SatSub,
                Cool!Waiting, CoolAlone!Waiting,
                Cool!SleepUntilDeadline, CoolAlone!SleepUntilDeadline
  <2>2. ASSUME NEW c, NEW d PROVE Cool!BeginWait(c, d) => CoolAlone!BeginWait(c, d)
    BY <1>1 DEF Cool!BeginWait, CoolAlone!BeginWait, Cool!Waiting, CoolAlone!Waiting,
                Cool!Returned, CoolAlone!Returned
  <2>3. ASSUME NEW c, NEW d PROVE Cool!BeginDefer(c, d) => CoolAlone!BeginDefer(c, d)
    BY <1>1 DEF Cool!BeginDefer, CoolAlone!BeginDefer, Cool!Returned, CoolAlone!Returned,
                Cool!SatAdd, CoolAlone!SatAdd, Cool!MinOf, CoolAlone!MinOf
  <2>4. ASSUME NEW c PROVE Cool!Cancel(c) => CoolAlone!Cancel(c)
    BY <1>1 DEF Cool!Cancel, CoolAlone!Cancel
  <2>5. Cool!Tick => CoolAlone!Tick
    BY DEF Cool!Tick, CoolAlone!Tick
  <2> QED BY <2>1, <2>2, <2>3, <2>4, <2>5 DEF Cool!Next, CoolAlone!Next
<1>5. Cool!Init => CoolAlone!Init
  BY <1>1 DEF Cool!Init, CoolAlone!Init
<1> QED BY <1>3, <1>4, <1>5

LEMMA CoolMoves ==
    /\ Cool!Init => Cool!CooldownInv
    /\ Cool!CooldownInv /\ Cool!Next => Cool!CooldownInv'
<1>1. /\ Nat \subseteq Nat /\ Callers # {} /\ NoCooldown \notin Nat
      /\ Horizon \in Nat /\ Horizon \in Nat
  BY CallersAssumption, EmptyCellAssumption, HorizonAssumption
<1>2. CoolAlone!Init => CoolAlone!CooldownInv
  BY <1>1, CoolAlone!InitInv, U64MaxAssumption
<1>3. CoolAlone!CooldownInv /\ CoolAlone!Next => CoolAlone!CooldownInv'
  BY <1>1, CoolAlone!NextInv, U64MaxAssumption
<1>4. Cool!CooldownInv' <=> CoolAlone!CooldownInv'
  BY CoolAgrees, PTL
<1> QED BY <1>2, <1>3, <1>4, CoolAgrees

LEMMA CoolStepInv ==
    ASSUME Cool!CooldownInv, NEW c \in Callers, Cool!Step(c)
    PROVE  Cool!CooldownInv' /\ now' = now
<1>1. now' = now
  BY DEF Cool!Step, Cool!WaitGet, Cool!WaitClock, Cool!Budget, Cool!Wake, Cool!DeferGet,
         Cool!DeferCas
<1> QED BY <1>1, CoolMoves DEF Cool!Next

LEMMA CoolBeginWaitInv ==
    ASSUME Cool!CooldownInv, NEW c \in Callers, NEW d \in Nat, Cool!BeginWait(c, d)
    PROVE  Cool!CooldownInv' /\ now' = now
<1>1. now' = now
  BY DEF Cool!BeginWait
<1> QED BY <1>1, CoolMoves DEF Cool!Next

LEMMA CoolBeginDeferInv ==
    ASSUME Cool!CooldownInv, NEW c \in Callers, NEW d \in Nat, Cool!BeginDefer(c, d)
    PROVE  Cool!CooldownInv' /\ now' = now
<1>1. now' = now
  BY DEF Cool!BeginDefer
<1> QED BY <1>1, CoolMoves DEF Cool!Next

LEMMA CoolDoneInv ==
    ASSUME Cool!CooldownInv, NEW c \in Callers, CoolDone(c), UNCHANGED <<now, until>>
    PROVE  Cool!CooldownInv'
<1>1. Cool!IdleCall \in Cool!Call /\ Cool!IdleCall.pc = "idle"
  BY DEF Cool!IdleCall, Cool!Call, Cool!PCs
<1> QED BY <1>1 DEF CoolDone, Cool!CooldownInv, Cool!TypeOK, Cool!DeferTakesEffect,
                    Cool!WaitedOut, Cool!OwedKept

(***************************************************************************)
(* The hit budget.                                                         *)
(***************************************************************************)
LEMMA BudgetAgrees ==
    /\ Budget!Init => BudgetAlone!Init
    /\ Budget!BudgetInv <=> BudgetAlone!BudgetInv
    /\ Budget!Next => BudgetAlone!Next
<1> USE DEF Budget!DefaultStored, BudgetAlone!DefaultStored, Budget!OrDefault,
            BudgetAlone!OrDefault, Budget!Hour, BudgetAlone!Hour, Budget!Day, BudgetAlone!Day
<1>1. Budget!Stored = BudgetAlone!Stored
  BY DEF Budget!Stored, BudgetAlone!Stored
<1>2. Budget!Call = BudgetAlone!Call /\ Budget!IdleCall = BudgetAlone!IdleCall
  BY <1>1 DEF Budget!Call, BudgetAlone!Call, Budget!PCs, BudgetAlone!PCs,
              Budget!IdleCall, BudgetAlone!IdleCall
<1>3. Budget!TypeOK <=> BudgetAlone!TypeOK
  BY <1>1, <1>2 DEF Budget!TypeOK, BudgetAlone!TypeOK
<1>4. Budget!CellCounts <=> BudgetAlone!CellCounts
  BY DEF Budget!CellCounts, BudgetAlone!CellCounts
<1>5. Budget!CasPrepared <=> BudgetAlone!CasPrepared
  BY DEF Budget!CasPrepared, BudgetAlone!CasPrepared
<1>6. Budget!BudgetInv <=> BudgetAlone!BudgetInv
  BY <1>3, <1>4, <1>5 DEF Budget!BudgetInv, BudgetAlone!BudgetInv,
                          Budget!BudgetHeld, BudgetAlone!BudgetHeld
<1>7. Budget!Next => BudgetAlone!Next
  <2> USE DEF Budget!SatSub, BudgetAlone!SatSub, Budget!Reserving, BudgetAlone!Reserving,
              Budget!Snapshot, BudgetAlone!Snapshot, Budget!Returned, BudgetAlone!Returned
  <2>1. ASSUME NEW c PROVE Budget!Get(c) => BudgetAlone!Get(c)
    BY DEF Budget!Get, BudgetAlone!Get
  <2>2. ASSUME NEW c PROVE Budget!Clock(c) => BudgetAlone!Clock(c)
    BY <1>2 DEF Budget!Clock, BudgetAlone!Clock, Budget!Admits, BudgetAlone!Admits
  <2>3. ASSUME NEW c PROVE Budget!Cas(c) => BudgetAlone!Cas(c)
    BY <1>2 DEF Budget!Cas, BudgetAlone!Cas, Budget!Grant, BudgetAlone!Grant
  <2>4. ASSUME NEW c PROVE Budget!RetryLoad(c) => BudgetAlone!RetryLoad(c)
    BY DEF Budget!RetryLoad, BudgetAlone!RetryLoad, Budget!RetryAfter, BudgetAlone!RetryAfter,
           Budget!MaxOf, BudgetAlone!MaxOf
  <2>5. ASSUME NEW c, NEW u PROVE Budget!Begin(c, u) => BudgetAlone!Begin(c, u)
    BY <1>2 DEF Budget!Begin, BudgetAlone!Begin
  <2>6. ASSUME NEW c, NEW u PROVE Budget!BeginRetryAfter(c, u) => BudgetAlone!BeginRetryAfter(c, u)
    BY <1>2 DEF Budget!BeginRetryAfter, BudgetAlone!BeginRetryAfter
  <2>7. Budget!Tick => BudgetAlone!Tick
    BY DEF Budget!Tick, BudgetAlone!Tick
  <2> QED BY <2>1, <2>2, <2>3, <2>4, <2>5, <2>6, <2>7
          DEF Budget!Next, BudgetAlone!Next, Budget!Step, BudgetAlone!Step
<1>8. Budget!Init => BudgetAlone!Init
  BY <1>2 DEF Budget!Init, BudgetAlone!Init
<1> QED BY <1>6, <1>7, <1>8

LEMMA BudgetMoves ==
    /\ Budget!Init => Budget!BudgetInv
    /\ Budget!BudgetInv /\ Budget!Next => Budget!BudgetInv'
<1>1. /\ {1} \subseteq Nat /\ Callers # {} /\ Horizon \in Nat
      /\ NoBudget \notin BudgetAlone!Stored
      /\ Hours \subseteq Nat /\ Days \subseteq Nat
      /\ \A t \in 0..Horizon : t \div HourLen \in Hours /\ t \div DayLen \in Days
  BY CallersAssumption, EmptyCellAssumption, HorizonAssumption, BucketsAssumption
     DEF BudgetAlone!Stored
<1>2. BudgetAlone!Init => BudgetAlone!BudgetInv
  BY <1>1, BudgetAlone!InitInv, U64MaxAssumption, LimitAssumption, LenAssumption
<1>3. BudgetAlone!BudgetInv /\ BudgetAlone!Next => BudgetAlone!BudgetInv'
  BY <1>1, BudgetAlone!NextInv, U64MaxAssumption, LimitAssumption, LenAssumption
<1>4. Budget!BudgetInv' <=> BudgetAlone!BudgetInv'
  BY BudgetAgrees, PTL
<1> QED BY <1>2, <1>3, <1>4, BudgetAgrees

LEMMA HitStepInv ==
    ASSUME Budget!BudgetInv, NEW c \in Callers, Budget!Step(c)
    PROVE  Budget!BudgetInv' /\ now' = now
<1>1. now' = now
  BY DEF Budget!Step, Budget!Get, Budget!Clock, Budget!Cas, Budget!RetryLoad
<1> QED BY <1>1, BudgetMoves DEF Budget!Next

LEMMA HitBeginInv ==
    ASSUME Budget!BudgetInv, NEW c \in Callers, Budget!Begin(c, 1)
    PROVE  Budget!BudgetInv' /\ now' = now
<1>1. now' = now
  BY DEF Budget!Begin
<1> QED BY <1>1, BudgetMoves DEF Budget!Next

LEMMA HitDoneInv ==
    ASSUME Budget!BudgetInv, NEW c \in Callers, HitDone(c), UNCHANGED <<now, cell, hourly, daily>>
    PROVE  Budget!BudgetInv'
<1>1. Budget!IdleCall \in Budget!Call /\ Budget!IdleCall.pc = "idle"
  BY DEF Budget!IdleCall, Budget!DefaultStored, Budget!Stored, Budget!Call, Budget!PCs
<1>2. Budget!TypeOK'
  BY <1>1 DEF HitDone, Budget!BudgetInv, Budget!TypeOK
<1>3. Budget!CellCounts' /\ Budget!BudgetHeld'
  BY DEF Budget!BudgetInv, Budget!CellCounts, Budget!BudgetHeld
<1>4. Budget!CasPrepared'
  BY <1>1 DEF HitDone, Budget!BudgetInv, Budget!TypeOK, Budget!CasPrepared
<1> QED BY <1>2, <1>3, <1>4 DEF Budget!BudgetInv

\* time passes for all three
LEMMA TickComponents ==
    ASSUME ComponentsInv, Tick
    PROVE  ComponentsInv'
<1>1. Gate!Next /\ Cool!Next /\ Budget!Next
  BY DEF Tick, gateVars, coolVars, hitVars, Gate!Next, Cool!Next, Budget!Next,
         Gate!Tick, Cool!Tick, Budget!Tick
<1> QED BY <1>1, GateMoves, CoolMoves, BudgetMoves DEF ComponentsInv

(***************************************************************************)
(* The retry loop.                                                         *)
(***************************************************************************)
LEMMA MaxAttempts == MaxOf(RetryMaxAttempts, 1) \in Nat /\ MaxOf(RetryMaxAttempts, 1) >= 1
BY RetryAssumption DEF MaxOf

LEMMA ClampType ==
    ASSUME NEW d \in Nat
    PROVE  Clamp(d) \in Nat
BY RetryAssumption DEF Clamp, MinOf

\* a delay that is retried, or that pauses everyone, is one
LEMMA DelayType ==
    ASSUME NEW r \in Responses
    PROVE  /\ RetryDelay(r) # NoDelay => RetryDelay(r) \in Nat
           /\ PauseDelay(r) # NoDelay => PauseDelay(r) \in Nat
<1>1. r.retry \in Nat \union {NoDelay}
  BY ResponseAssumption DEF Response
<1> QED BY <1>1, ClampType, RetryAssumption DEF RetryDelay, PauseDelay

\* moving an operation on changes nothing else of it
LEMMA Moved ==
    ASSUME NEW k \in Req, NEW pc \in PCs
    PROVE  LET n == [k EXCEPT !.pc = pc]
           IN /\ n \in Req /\ n.pc = pc
              /\ n.attempt = k.attempt /\ n.total = k.total /\ n.delay = k.delay
              /\ n.notBefore = k.notBefore
BY DEF Req

\* an operation that is not in its loop fits at any time
LEMMA IdleFits ==
    ASSUME NEW t, NEW pc \in {"idle", "done", "deferred", "exhausted", "limited", "failed"}
    PROVE  LET k == [Idle EXCEPT !.pc = pc] IN k \in Req /\ Fits(k, t)
<1> DEFINE k == [Idle EXCEPT !.pc = pc]
<1>1. k \in Req /\ k.pc = pc /\ k.attempt = 0 /\ k.total = 0 /\ k.delay = 0
  BY DEF Idle, Req, PCs
<1> HIDE DEF k
<1>2. Fits(k, t)
  BY <1>1, MaxAttempts, RetryAssumption DEF Fits
<1> QED BY <1>1, <1>2 DEF k

\* the components' invariants include their types
LEMMA ComponentTypes ==
    /\ Gate!SpacingInv => Gate!TypeOK
    /\ Cool!CooldownInv => Cool!TypeOK
    /\ Budget!BudgetInv => Budget!TypeOK
    /\ Gate!SpacingInv' => Gate!TypeOK'
    /\ Cool!CooldownInv' => Cool!TypeOK'
    /\ Budget!BudgetInv' => Budget!TypeOK'
BY DEF Gate!SpacingInv, Cool!CooldownInv, Budget!BudgetInv

\* A step that changes one operation, into one that fits, keeps the invariant ...
LEMMA LoopMoved ==
    ASSUME LoopInv, NEW c \in Callers, NEW k \in Req, Fits(k, now),
           req' = [req EXCEPT ![c] = k], now' = now,
           Gate!SpacingInv', Cool!CooldownInv', Budget!BudgetInv', UNCHANGED sendVars
    PROVE  LoopInv'
<1>1. TypeOK' /\ ComponentsInv'
  BY ComponentTypes DEF LoopInv, TypeOK, sendVars, ComponentsInv
<1>2. ASSUME NEW e \in Callers PROVE Fits(req'[e], now')
  BY DEF LoopInv, TypeOK
<1> QED BY <1>1, <1>2 DEF LoopInv

\* ... and so does one that changes none.
LEMMA LoopUnmoved ==
    ASSUME LoopInv, req' = req, now' = now,
           Gate!SpacingInv', Cool!CooldownInv', Budget!BudgetInv',
           slotOwed' \in [Callers -> Nat], sent' = sent
    PROVE  LoopInv'
BY ComponentTypes DEF LoopInv, TypeOK, ComponentsInv

\* what a component's type rests on
LEMMA ComponentsKept ==
    ASSUME ComponentsInv, now' = now
    PROVE  /\ UNCHANGED gateVars => Gate!SpacingInv'
           /\ UNCHANGED coolVars => Cool!CooldownInv'
           /\ UNCHANGED hitVars => Budget!BudgetInv'
<1>1. UNCHANGED gateVars => Gate!SpacingInv'
  BY DEF ComponentsInv, gateVars, Gate!SpacingInv, Gate!TypeOK, Gate!LatestStamp,
         Gate!CasReady, Gate!Spacing
<1>2. UNCHANGED coolVars => Cool!CooldownInv'
  BY DEF ComponentsInv, coolVars, Cool!CooldownInv, Cool!TypeOK, Cool!DeferTakesEffect,
         Cool!WaitedOut, Cool!OwedKept
<1>3. UNCHANGED hitVars => Budget!BudgetInv'
  BY DEF ComponentsInv, hitVars, Budget!BudgetInv, Budget!TypeOK, Budget!CellCounts,
         Budget!CasPrepared, Budget!BudgetHeld
<1> QED BY <1>1, <1>2, <1>3

LEMMA InitInv == Init => LoopInv
<1> SUFFICES ASSUME Init PROVE LoopInv
  OBVIOUS
<1>1. ComponentsInv
  BY GateMoves, CoolMoves, BudgetMoves DEF Init, ComponentsInv
<1>2. Gate!TypeOK /\ Cool!TypeOK /\ Budget!TypeOK
  BY <1>1, ComponentTypes DEF ComponentsInv
<1>3. Idle \in Req /\ Fits(Idle, now)
  <2>1. Idle = [Idle EXCEPT !.pc = "idle"]
    BY DEF Idle
  <2> QED BY <2>1, IdleFits
<1> QED BY <1>1, <1>2, <1>3 DEF Init, LoopInv, TypeOK

\* Begin: the first attempt owes no backoff.
LEMMA BeginInv ==
    ASSUME LoopInv, NEW c \in Callers, NEW d \in Deadlines, Begin(c, d)
    PROVE  LoopInv'
<1> DEFINE k == [Idle EXCEPT !.pc = "cooling", !.attempt = 1, !.deadline = d]
<1>0. d \in Nat /\ now \in Nat
  BY CallersAssumption, HorizonAssumption DEF LoopInv, TypeOK, Gate!TypeOK
<1>1. /\ k \in Req /\ k.pc = "cooling" /\ k.attempt = 1 /\ k.total = 0 /\ k.delay = 0
      /\ k.notBefore = 0
  BY <1>0 DEF Idle, Req, PCs
<1>2. /\ req' = [req EXCEPT ![c] = k] /\ Cool!BeginWait(c, d)
      /\ UNCHANGED <<gateVars, hitVars, sendVars>>
  BY DEF Begin
<1> HIDE DEF k
<1>3. Fits(k, now)
  BY <1>0, <1>1, MaxAttempts, RetryAssumption DEF Fits
<1>4. Cool!CooldownInv' /\ now' = now
  BY <1>0, <1>2, CoolBeginWaitInv DEF LoopInv, TypeOK, ComponentsInv
<1>5. Gate!SpacingInv' /\ Budget!BudgetInv'
  BY <1>2, <1>4, ComponentsKept DEF LoopInv
<1> QED BY <1>1, <1>2, <1>3, <1>4, <1>5, LoopMoved

\* an operation that returns fits
LEMMA ReturnInv ==
    ASSUME LoopInv, NEW c \in Callers,
           NEW pc \in {"done", "deferred", "exhausted", "limited", "failed"}, Return(c, pc),
           now' = now, Gate!SpacingInv', Cool!CooldownInv', Budget!BudgetInv', UNCHANGED sendVars
    PROVE  LoopInv'
<1> DEFINE k == [Idle EXCEPT !.pc = pc]
<1>1. k \in Req /\ Fits(k, now)
  BY IdleFits
<1>2. req' = [req EXCEPT ![c] = k]
  BY DEF Return
<1> HIDE DEF k
<1> QED BY <1>1, <1>2, LoopMoved

\* on its way to the request an operation keeps what it has waited
LEMMA GotoFits ==
    ASSUME LoopInv, NEW c \in Callers, req[c].pc \in {"cooling", "gating", "paying", "http"},
           NEW pc \in {"gating", "paying", "http", "pausing"}
    PROVE  LET k == [req[c] EXCEPT !.pc = pc] IN k \in Req /\ Fits(k, now)
<1> DEFINE k == [req[c] EXCEPT !.pc = pc]
<1>1. req[c] \in Req /\ Fits(req[c], now) /\ pc \in PCs
  BY DEF LoopInv, TypeOK, PCs
<1>2. /\ k \in Req /\ k.pc = pc
      /\ k.attempt = req[c].attempt /\ k.total = req[c].total /\ k.delay = req[c].delay
      /\ k.notBefore = req[c].notBefore
  BY <1>1, Moved
<1> HIDE DEF k
<1>3. Fits(k, now)
  BY <1>1, <1>2 DEF Fits
<1> QED BY <1>2, <1>3 DEF k

LEMMA GotoInv ==
    ASSUME LoopInv, NEW c \in Callers, req[c].pc \in {"cooling", "gating", "paying", "http"},
           NEW pc \in {"gating", "paying", "pausing"}, Goto(c, pc),
           now' = now, Gate!SpacingInv', Cool!CooldownInv', Budget!BudgetInv', UNCHANGED sendVars
    PROVE  LoopInv'
<1> DEFINE k == [req[c] EXCEPT !.pc = pc]
<1>1. k \in Req /\ Fits(k, now)
  BY GotoFits
<1>2. req' = [req EXCEPT ![c] = k]
  BY DEF Goto
<1> HIDE DEF k
<1> QED BY <1>1, <1>2, LoopMoved

LEMMA CooledInv ==
    ASSUME LoopInv, NEW c \in Callers, Cooled(c)
    PROVE  LoopInv'
<1>0. TypeOK /\ ComponentsInv /\ req[c].deadline \in Nat /\ req[c].pc = "cooling"
  BY DEF LoopInv, TypeOK, Req, Cooled
<1>1. now' = now
  BY DEF Cooled, Gate!Begin
<1>2. Cool!CooldownInv' /\ Budget!BudgetInv'
  BY <1>0, <1>1, CoolDoneInv, ComponentsKept DEF Cooled, TypeOK, ComponentsInv
<1>3. CASE Goto(c, "gating") /\ Gate!Begin(c, req[c].deadline)
  <2>1. Gate!SpacingInv'
    BY <1>0, <1>3, GateBeginInv DEF TypeOK, ComponentsInv
  <2> QED BY <1>0, <1>1, <1>2, <1>3, <2>1, GotoInv DEF Cooled
<1>4. CASE Return(c, "deferred") /\ UNCHANGED gateVars
  <2>1. Gate!SpacingInv'
    BY <1>0, <1>1, <1>4, ComponentsKept
  <2> QED BY <1>1, <1>2, <1>4, <2>1, ReturnInv DEF Cooled
<1> QED BY <1>3, <1>4 DEF Cooled

LEMMA GatedInv ==
    ASSUME LoopInv, NEW c \in Callers, Gated(c)
    PROVE  LoopInv'
<1>0. TypeOK /\ ComponentsInv /\ req[c].pc = "gating"
  BY DEF LoopInv, Gated
<1>1. now' = now
  BY DEF Gated, Budget!Begin
<1>2. Gate!SpacingInv' /\ Cool!CooldownInv'
  BY <1>0, <1>1, GateDoneInv, ComponentsKept DEF Gated, TypeOK, ComponentsInv
<1>3. CASE Goto(c, "paying") /\ Budget!Begin(c, 1)
  <2>1. Budget!BudgetInv'
    BY <1>0, <1>3, HitBeginInv DEF TypeOK, ComponentsInv
  <2> QED BY <1>0, <1>1, <1>2, <1>3, <2>1, GotoInv DEF Gated
<1>4. CASE Return(c, "deferred") /\ UNCHANGED hitVars
  <2>1. Budget!BudgetInv'
    BY <1>0, <1>1, <1>4, ComponentsKept
  <2> QED BY <1>1, <1>2, <1>4, <2>1, ReturnInv DEF Gated
<1> QED BY <1>3, <1>4 DEF Gated

LEMMA SendInv ==
    ASSUME LoopInv, NEW c \in Callers, Send(c)
    PROVE  LoopInv'
<1>0. TypeOK /\ ComponentsInv /\ req[c].pc = "paying" /\ now' = now
  BY DEF LoopInv, Send
<1>1. Gate!SpacingInv' /\ Cool!CooldownInv' /\ Budget!BudgetInv'
  BY <1>0, HitDoneInv, ComponentsKept DEF Send, TypeOK, ComponentsInv
<1>2. CASE Return(c, "exhausted") /\ UNCHANGED sendVars
  BY <1>0, <1>1, <1>2, ReturnInv
<1>3. CASE Goto(c, "http") /\ sent' = sent + 1 /\ slotOwed' = [slotOwed EXCEPT ![c] = 0]
  <2> DEFINE k == [req[c] EXCEPT !.pc = "http"]
  <2>1. k \in Req /\ Fits(k, now)
    BY <1>0, GotoFits
  <2>2. req' = [req EXCEPT ![c] = k]
    BY <1>3 DEF Goto
  <2> HIDE DEF k
  <2>3. TypeOK' /\ ComponentsInv'
    BY <1>0, <1>1, <1>3, <2>1, <2>2, ComponentTypes DEF TypeOK, ComponentsInv
  <2>4. ASSUME NEW e \in Callers PROVE Fits(req'[e], now')
    BY <1>0, <2>1, <2>2 DEF LoopInv, TypeOK
  <2> QED BY <2>3, <2>4 DEF LoopInv
<1> QED BY <1>2, <1>3 DEF Send

\* Backoff: the guard of Retries leaves an attempt and pays for the delay.
LEMMA BackoffInv ==
    ASSUME LoopInv, NEW c \in Callers, NEW r \in Responses, Backoff(c, r)
    PROVE  LoopInv'
<1> DEFINE d == RetryDelay(r)
           k == [req[c] EXCEPT !.pc = "deferring", !.delay = d, !.notBefore = now + d]
<1>0. /\ TypeOK /\ ComponentsInv /\ req[c] \in Req /\ Fits(req[c], now) /\ now \in Nat
  BY HorizonAssumption DEF LoopInv, TypeOK, Gate!TypeOK
<1>1. /\ d \in Nat /\ req[c].pc = "http"
      /\ req[c].attempt < MaxOf(RetryMaxAttempts, 1) /\ req[c].total + d <= RetryTotalBudget
  BY DelayType DEF Backoff, Retries
<1>2. req' = [req EXCEPT ![c] = k] /\ Cool!BeginDefer(c, d) /\ UNCHANGED <<gateVars, hitVars, sendVars>>
  BY DEF Backoff
<1> HIDE DEF d
<1>3. now + d \in Nat
  BY <1>0, <1>1
<1>4. /\ k \in Req /\ k.pc = "deferring" /\ k.attempt = req[c].attempt
      /\ k.total = req[c].total /\ k.delay = d /\ k.notBefore = now + d
  BY <1>0, <1>1, <1>3 DEF Req, PCs
<1> HIDE DEF k
<1>5. Fits(k, now)
  BY <1>0, <1>1, <1>3, <1>4 DEF Fits
<1>6. Cool!CooldownInv' /\ now' = now
  BY <1>0, <1>1, <1>2, CoolBeginDeferInv DEF TypeOK, ComponentsInv
<1>7. Gate!SpacingInv' /\ Budget!BudgetInv'
  BY <1>0, <1>2, <1>6, ComponentsKept
<1> QED BY <1>2, <1>4, <1>5, <1>6, <1>7, LoopMoved

LEMMA AnswerInv ==
    ASSUME LoopInv, NEW c \in Callers, NEW r \in Responses, Answer(c, r)
    PROVE  LoopInv'
<1>0. TypeOK /\ ComponentsInv /\ req[c].pc = "http" /\ UNCHANGED <<gateVars, hitVars, sendVars>>
  BY DEF LoopInv, Answer
<1>1. CASE UNCHANGED <<now, until, cool, owed>> /\ (Return(c, "limited") \/ Return(c, "done"))
  <2>1. now' = now /\ Gate!SpacingInv' /\ Cool!CooldownInv' /\ Budget!BudgetInv'
    BY <1>0, <1>1, ComponentsKept DEF coolVars
  <2> QED BY <1>0, <1>1, <2>1, ReturnInv
<1>2. CASE PauseDelay(r) # NoDelay /\ Goto(c, "pausing") /\ Cool!BeginDefer(c, PauseDelay(r))
  <2>1. Cool!CooldownInv' /\ now' = now
    BY <1>0, <1>2, DelayType, CoolBeginDeferInv DEF TypeOK, ComponentsInv
  <2>2. Gate!SpacingInv' /\ Budget!BudgetInv'
    BY <1>0, <2>1, ComponentsKept
  <2> QED BY <1>0, <1>2, <2>1, <2>2, GotoInv
<1> QED BY <1>1, <1>2 DEF Answer

LEMMA TransportErrorInv ==
    ASSUME LoopInv, NEW c \in Callers, NEW r \in Responses, TransportError(c, r)
    PROVE  LoopInv'
<1>1. TypeOK /\ ComponentsInv /\ now' = now
  BY DEF LoopInv, TransportError
<1>2. Gate!SpacingInv' /\ Cool!CooldownInv' /\ Budget!BudgetInv'
  BY <1>1, ComponentsKept DEF TransportError
<1> QED BY <1>1, <1>2, ReturnInv DEF TransportError

LEMMA PausedInv ==
    ASSUME LoopInv, NEW c \in Callers, Paused(c)
    PROVE  LoopInv'
<1>1. TypeOK /\ ComponentsInv /\ now' = now
  BY DEF LoopInv, Paused
<1>2. Gate!SpacingInv' /\ Cool!CooldownInv' /\ Budget!BudgetInv'
  BY <1>1, CoolDoneInv, ComponentsKept DEF Paused, TypeOK, ComponentsInv
<1> QED BY <1>1, <1>2, ReturnInv DEF Paused

\* Deferred: the sleep that is asked for is the whole delay.
LEMMA DeferredInv ==
    ASSUME LoopInv, NEW c \in Callers, Deferred(c)
    PROVE  LoopInv'
<1> DEFINE k == [req[c] EXCEPT !.pc = "budget", !.duration = req[c].delay]
<1>0. /\ TypeOK /\ ComponentsInv /\ now' = now /\ req[c] \in Req /\ Fits(req[c], now)
      /\ req[c].pc = "deferring" /\ req[c].delay \in Nat
  BY DEF LoopInv, TypeOK, Deferred, Req
<1>1. Gate!SpacingInv' /\ Cool!CooldownInv' /\ Budget!BudgetInv'
  BY <1>0, CoolDoneInv, ComponentsKept DEF Deferred, TypeOK, ComponentsInv
<1>2. req' = [req EXCEPT ![c] = k]
  BY DEF Deferred
<1>3. /\ k \in Req /\ k.pc = "budget" /\ k.attempt = req[c].attempt
      /\ k.total = req[c].total /\ k.delay = req[c].delay /\ k.duration = req[c].delay
      /\ k.notBefore = req[c].notBefore
  BY <1>0 DEF Req, PCs
<1> HIDE DEF k
<1>4. Fits(k, now)
  BY <1>0, <1>3 DEF Fits
<1> QED BY <1>0, <1>1, <1>2, <1>3, <1>4, LoopMoved DEF Deferred

\* Sleep: sleep_until_deadline registers the sleep at the clock it reads.
LEMMA SleepInv ==
    ASSUME LoopInv, NEW c \in Callers, Sleep(c)
    PROVE  LoopInv'
<1> DEFINE wake == now + req[c].duration
           k == [req[c] EXCEPT !.pc = "sleep", !.duration = 0, !.wake = wake]
           slept == SleepUntilDeadline(req[c], now)
<1>0. /\ TypeOK /\ ComponentsInv /\ now' = now /\ now \in Nat /\ req[c] \in Req /\ Fits(req[c], now)
      /\ req[c].pc = "budget" /\ req[c].duration \in Nat
  BY HorizonAssumption DEF LoopInv, TypeOK, Gate!TypeOK, Sleep, Req
<1>1. Gate!SpacingInv' /\ Cool!CooldownInv' /\ Budget!BudgetInv' /\ UNCHANGED sendVars
  BY <1>0, ComponentsKept DEF Sleep
<1>2. wake \in Nat
  BY <1>0
<1>3. slept = k \/ slept.pc = "deferred"
  BY <1>0 DEF SleepUntilDeadline, Req
<1>4. CASE slept.pc = "deferred"
  <2>1. Return(c, "deferred")
    BY <1>4 DEF Sleep, Return
  <2> QED BY <1>0, <1>1, <2>1, ReturnInv
<1>5. CASE slept = k /\ slept.pc # "deferred"
  <2>1. req' = [req EXCEPT ![c] = k]
    BY <1>5 DEF Sleep
  <2> HIDE DEF wake
  <2>2. /\ k \in Req /\ k.pc = "sleep" /\ k.attempt = req[c].attempt
        /\ k.total = req[c].total /\ k.delay = req[c].delay /\ k.wake = wake
        /\ k.notBefore = req[c].notBefore
    BY <1>0, <1>2 DEF Req, PCs
  <2> HIDE DEF k, slept
  <2>3. Fits(k, now)
    BY <1>0, <2>2 DEF Fits, wake
  <2> QED BY <1>0, <1>1, <2>1, <2>2, <2>3, LoopMoved
<1> QED BY <1>3, <1>4, <1>5

\* Retry: the delay that was slept is booked, and the backoff is over.
LEMMA RetryInv ==
    ASSUME LoopInv, NEW c \in Callers, Retry(c)
    PROVE  LoopInv'
<1> DEFINE attempt == req[c].attempt + 1
           total == req[c].total + req[c].delay
           k == [req[c] EXCEPT !.pc = "cooling", !.attempt = attempt,
                               !.total = total, !.delay = 0, !.wake = 0]
<1>0. /\ TypeOK /\ ComponentsInv /\ now \in Nat /\ req[c] \in Req /\ Fits(req[c], now)
      /\ req[c].pc = "sleep" /\ now >= req[c].wake
  BY HorizonAssumption DEF LoopInv, TypeOK, Gate!TypeOK, Retry
<1>1. /\ req[c].attempt \in Nat /\ req[c].total \in Nat /\ req[c].delay \in Nat
      /\ req[c].wake \in Nat /\ req[c].notBefore \in Nat /\ req[c].deadline \in Nat
  BY <1>0 DEF Req
<1>2. attempt \in Nat /\ total \in Nat
  BY <1>1
<1>3. /\ req' = [req EXCEPT ![c] = k] /\ Cool!BeginWait(c, req[c].deadline)
      /\ UNCHANGED <<gateVars, hitVars, sendVars>>
  BY DEF Retry
<1>4. attempt <= MaxOf(RetryMaxAttempts, 1) /\ total <= RetryTotalBudget
      /\ req[c].notBefore <= now
  BY <1>0, <1>1, MaxAttempts DEF Fits
<1> HIDE DEF attempt, total
<1>5. /\ k \in Req /\ k.pc = "cooling" /\ k.attempt = attempt /\ k.total = total /\ k.delay = 0
      /\ k.notBefore = req[c].notBefore
  BY <1>0, <1>2 DEF Req, PCs
<1> HIDE DEF k
<1>6. Fits(k, now)
  BY <1>0, <1>1, <1>2, <1>4, <1>5 DEF Fits
<1>7. Cool!CooldownInv' /\ now' = now
  BY <1>0, <1>1, <1>3, CoolBeginWaitInv DEF TypeOK, ComponentsInv
<1>8. Gate!SpacingInv' /\ Budget!BudgetInv'
  BY <1>0, <1>3, <1>7, ComponentsKept
<1> QED BY <1>3, <1>5, <1>6, <1>7, <1>8, LoopMoved

\* The steps inside the components leave the request loop alone.
LEMMA InsideInv ==
    ASSUME LoopInv, NEW c \in Callers, CoolStep(c) \/ GateStep(c) \/ HitStep(c)
    PROVE  LoopInv'
<1>0. TypeOK /\ ComponentsInv /\ slotOwed \in [Callers -> Nat] /\ Cool!OrDefault(until) \in Nat
  BY CellType DEF LoopInv, TypeOK, Cool!TypeOK
<1>1. CASE CoolStep(c)
  <2>1. Cool!CooldownInv' /\ now' = now
    BY <1>0, <1>1, CoolStepInv DEF CoolStep, TypeOK, ComponentsInv
  <2>2. Gate!SpacingInv' /\ Budget!BudgetInv'
    BY <1>0, <1>1, <2>1, ComponentsKept DEF CoolStep
  <2> QED BY <1>0, <1>1, <2>1, <2>2, LoopUnmoved DEF CoolStep, sendVars
<1>2. CASE GateStep(c)
  <2>1. Gate!SpacingInv' /\ now' = now
    BY <1>0, <1>2, GateStepInv DEF GateStep, TypeOK, ComponentsInv
  <2>2. Cool!CooldownInv' /\ Budget!BudgetInv'
    BY <1>0, <1>2, <2>1, ComponentsKept DEF GateStep
  <2>3. slotOwed' \in [Callers -> Nat]
    BY <1>0, <1>2 DEF GateStep
  <2> QED BY <1>2, <2>1, <2>2, <2>3, LoopUnmoved DEF GateStep
<1>3. CASE HitStep(c)
  <2>1. Budget!BudgetInv' /\ now' = now
    BY <1>0, <1>3, HitStepInv DEF HitStep, TypeOK, ComponentsInv
  <2>2. Gate!SpacingInv' /\ Cool!CooldownInv'
    BY <1>0, <1>3, <2>1, ComponentsKept DEF HitStep
  <2> QED BY <1>0, <1>3, <2>1, <2>2, LoopUnmoved DEF HitStep, sendVars
<1> QED BY <1>1, <1>2, <1>3

LEMMA CancelInv ==
    ASSUME LoopInv, NEW c \in Callers, Cancel(c)
    PROVE  LoopInv'
<1>1. TypeOK /\ ComponentsInv /\ now' = now
  BY DEF LoopInv, Cancel
<1>2. Gate!SpacingInv' /\ Cool!CooldownInv' /\ Budget!BudgetInv'
  BY <1>1, GateDoneInv, CoolDoneInv, ComponentsKept DEF Cancel, TypeOK, ComponentsInv
<1>3. Idle \in Req /\ Fits(Idle, now)
  <2>1. Idle = [Idle EXCEPT !.pc = "idle"]
    BY DEF Idle
  <2> QED BY <2>1, IdleFits
<1> QED BY <1>1, <1>2, <1>3, LoopMoved DEF Cancel

LEMMA TickInv ==
    ASSUME LoopInv, Tick
    PROVE  LoopInv'
<1>0. /\ TypeOK /\ ComponentsInv /\ now \in Nat /\ now' \in 0..Horizon /\ now' \in Nat /\ now <= now'
      /\ req' = req /\ UNCHANGED <<gateVars, coolVars, hitVars, sendVars>>
  BY HorizonAssumption DEF LoopInv, TypeOK, Gate!TypeOK, Tick
<1>1. TypeOK' /\ ComponentsInv'
  BY <1>0, TickComponents, ComponentTypes DEF TypeOK, ComponentsInv, sendVars
<1>2. ASSUME NEW c \in Callers PROVE Fits(req[c], now')
  <2>1. Fits(req[c], now) /\ req[c] \in Req
    BY DEF LoopInv, TypeOK
  <2>2. req[c].notBefore \in Nat /\ req[c].delay \in Nat /\ req[c].duration \in Nat
    BY <2>1 DEF Req
  <2> QED BY <1>0, <2>1, <2>2 DEF Fits
<1> QED BY <1>0, <1>1, <1>2 DEF LoopInv

LEMMA NextInv == LoopInv /\ [Next]_vars => LoopInv'
<1> SUFFICES ASSUME LoopInv, [Next]_vars PROVE LoopInv'
  OBVIOUS
<1>1. CASE UNCHANGED vars
  BY <1>1, ComponentsKept, LoopUnmoved DEF vars, sendVars, LoopInv, TypeOK
<1>2. CASE Tick
  BY <1>2, TickInv
<1>3. ASSUME NEW c \in Callers, NEW d \in Deadlines, Begin(c, d) PROVE LoopInv'
  BY <1>3, BeginInv
<1>4. ASSUME NEW c \in Callers, Respond(c) PROVE LoopInv'
  BY <1>4, BackoffInv, AnswerInv, TransportErrorInv DEF Respond
<1>5. ASSUME NEW c \in Callers, Step(c) PROVE LoopInv'
  BY <1>4, <1>5, CooledInv, GatedInv, SendInv, PausedInv, DeferredInv, SleepInv, RetryInv,
     InsideInv DEF Step
<1>6. ASSUME NEW c \in Callers, Cancel(c) PROVE LoopInv'
  BY <1>6, CancelInv
<1> QED BY <1>1, <1>2, <1>3, <1>5, <1>6 DEF Next

\* Every reachable state is well typed: the request loop never leaves a gate,
\* the cooldown or the hit budget in a state they could not be in alone
\* (polite_http_get_redacting).
THEOREM TypeCorrect == Spec => []TypeOK
<1>1. LoopInv => TypeOK
  BY DEF LoopInv
<1> QED BY <1>1, InitInv, NextInv, PTL DEF Spec

\* Put together, the components keep what each promises alone: StartRateGate's
\* spacing, what CooldownGate's wait and defer_for promise, and the allowances of
\* reserve_hit_budget_uses.
THEOREM ComponentsStayTrue == Spec => []ComponentsHold
<1>1. LoopInv => ComponentsHold
  BY DEF LoopInv, ComponentsInv, ComponentsHold, Gate!SpacingInv, Cool!CooldownInv,
         Budget!BudgetInv
<1> QED BY <1>1, InitInv, NextInv, PTL DEF Spec

\* The retry loop of polite_http_get_redacting stays within its attempts and
\* its total budget, whatever the upstream answers.
THEOREM RetriesAreBounded == Spec => []RetryBounded
<1>1. LoopInv => RetryBounded
  BY DEF LoopInv, Fits, RetryBounded
<1> QED BY <1>1, InitInv, NextInv, PTL DEF Spec

\* A caller told to back off sends nothing before that delay is over.
THEOREM BackoffIsHonoured == Spec => []BackoffHonoured
<1>1. LoopInv => BackoffHonoured
  BY DEF LoopInv, Fits, BackoffHonoured
<1> QED BY <1>1, InitInv, NextInv, PTL DEF Spec

(***************************************************************************)
(* Sums over a finite set.  The recursion adds the chosen element first;   *)
(* two sums over the same set choose alike, so what holds of all sums is   *)
(* shown of a smallest set for which it would fail.                        *)
(***************************************************************************)
Pick(s) == CHOOSE x \in s : TRUE

Adds(F, f, S) ==
    F = [s \in SUBSET S |-> IF s = {} THEN 0 ELSE f[Pick(s)] + F[s \ {Pick(s)}]]

Total(f, S) == (CHOOSE F : Adds(F, f, S))[S]

\* Among some subsets of a finite set there is one that includes no other.
LEMMA Smallest ==
    ASSUME NEW S, IsFiniteSet(S), NEW T \in SUBSET (SUBSET S), T # {}
    PROVE  \E U \in T : \A V \in T : V \subseteq U => V = U
<1>1. T \subseteq FiniteSubsetsOf(S)
  BY FS_Subset DEF FiniteSubsetsOf
<1>2. PICK U \in T : \A V \in T : <<V, U>> \notin StrictSubsetOrdering(S)
  BY <1>1, FS_StrictSubsetOrderingWellFounded, WFMin
<1>3. ASSUME NEW V \in T, V \subseteq U, V # U PROVE FALSE
  BY <1>2, <1>3 DEF StrictSubsetOrdering
<1> QED BY <1>3

LEMMA PickIn == ASSUME NEW s, s # {} PROVE Pick(s) \in s
BY DEF Pick

\* Two such recursions agree where both are defined.
LEMMA Agreement ==
    ASSUME NEW f, NEW A, NEW B, IsFiniteSet(A), NEW F, NEW G, Adds(F, f, A), Adds(G, f, B)
    PROVE  \A s \in SUBSET (A \cap B) : F[s] = G[s]
<1> DEFINE T == {s \in SUBSET (A \cap B) : F[s] # G[s]}
<1>1. SUFFICES ASSUME T # {} PROVE FALSE
  OBVIOUS
<1>2. PICK U \in T : \A V \in T : V \subseteq U => V = U
  <2>1. T \in SUBSET (SUBSET A)
    OBVIOUS
  <2> HIDE DEF T
  <2> QED BY <1>1, <2>1, Smallest
<1>3. U \subseteq A /\ U \subseteq B /\ F[U] # G[U]
  OBVIOUS
<1>4. /\ F[U] = IF U = {} THEN 0 ELSE f[Pick(U)] + F[U \ {Pick(U)}]
      /\ G[U] = IF U = {} THEN 0 ELSE f[Pick(U)] + G[U \ {Pick(U)}]
  BY <1>3 DEF Adds
<1>5. CASE U = {}
  BY <1>3, <1>4, <1>5
<1>6. CASE U # {}
  <2>1. U \ {Pick(U)} # U /\ U \ {Pick(U)} \subseteq U
    BY <1>6, PickIn
  <2>2. F[U \ {Pick(U)}] = G[U \ {Pick(U)}]
    BY <1>2, <1>3, <2>1
  <2> QED BY <1>3, <1>4, <1>6, <2>2
<1> QED BY <1>5, <1>6

\* The recursion that defines a sum has a solution.
LEMMA Summable ==
    ASSUME NEW f, NEW S, IsFiniteSet(S)
    PROVE  \E F : Adds(F, f, S)
<1> DEFINE T == {s \in SUBSET S : ~ \E F : Adds(F, f, s)}
<1>1. SUFFICES ASSUME T # {} PROVE FALSE
  OBVIOUS
<1>2. PICK U \in T : \A V \in T : V \subseteq U => V = U
  <2>1. T \in SUBSET (SUBSET S)
    OBVIOUS
  <2> HIDE DEF T
  <2> QED BY <1>1, <2>1, Smallest
<1> DEFINE H(t) == CHOOSE F : Adds(F, f, t)
           val(s) == IF s = {} THEN 0 ELSE f[Pick(s)] + H(s \ {Pick(s)})[s \ {Pick(s)}]
           G == [s \in SUBSET U |-> val(s)]
<1>3. ASSUME NEW t \in SUBSET U, t # U PROVE Adds(H(t), f, t)
  <2>1. \E F : Adds(F, f, t)
    BY <1>2, <1>3
  <2> QED BY <2>1
<1>4. ASSUME NEW t \in SUBSET U, t # U PROVE H(t)[t] = val(t)
  <2> DEFINE h == H(t)
  <2>1. Adds(h, f, t)
    BY <1>3, <1>4
  <2>2. h[t] = IF t = {} THEN 0 ELSE f[Pick(t)] + h[t \ {Pick(t)}]
    BY <2>1 DEF Adds
  <2>3. CASE t = {}
    BY <2>2, <2>3
  <2>4. CASE t # {}
    <3> DEFINE w == t \ {Pick(t)}
    <3>1. w \in SUBSET U /\ w # U /\ w \in SUBSET (t \cap w)
      BY <1>4
    <3>2. Adds(H(w), f, w)
      BY <1>3, <3>1
    <3>3. IsFiniteSet(t)
      BY FS_Subset
    <3> HIDE DEF H
    <3>4. h[w] = H(w)[w]
      BY <2>1, <3>1, <3>2, <3>3, Agreement
    <3> QED BY <2>2, <2>4, <3>4
  <2> QED BY <2>3, <2>4
<1>5. Adds(G, f, U)
  <2>1. ASSUME NEW s \in SUBSET U
        PROVE  val(s) = IF s = {} THEN 0 ELSE f[Pick(s)] + G[s \ {Pick(s)}]
    <3>1. CASE s = {}
      BY <3>1
    <3>2. CASE s # {}
      <4> DEFINE w == s \ {Pick(s)}
      <4>1. w \in SUBSET U /\ w # U
        BY <3>2, PickIn
      <4> HIDE DEF H
      <4>2. G[w] = H(w)[w]
        BY <1>4, <4>1
      <4> QED BY <3>2, <4>2
    <3> QED BY <3>1, <3>2
  <2> HIDE DEF val
  <2>2. G = [s \in SUBSET U |-> IF s = {} THEN 0 ELSE f[Pick(s)] + G[s \ {Pick(s)}]]
    BY <2>1
  <2> QED BY <2>2 DEF Adds
<1> QED BY <1>2, <1>5

LEMMA TotalAdds ==
    ASSUME NEW f, NEW S, IsFiniteSet(S)
    PROVE  \E F : Adds(F, f, S) /\ Total(f, S) = F[S]
<1> DEFINE F == CHOOSE F : Adds(F, f, S)
<1>1. Adds(F, f, S)
  BY Summable
<1> QED BY <1>1 DEF Total

\* Adding a function that is zero gives nothing.
LEMMA TotalOfZero ==
    ASSUME NEW S, IsFiniteSet(S)
    PROVE  Total([d \in S |-> 0], S) = 0
<1> DEFINE z == [d \in S |-> 0]
<1>1. PICK F : Adds(F, z, S) /\ Total(z, S) = F[S]
  BY TotalAdds
<1> DEFINE T == {s \in SUBSET S : F[s] # 0}
<1>2. SUFFICES ASSUME T # {} PROVE FALSE
  BY <1>1
<1>3. PICK U \in T : \A V \in T : V \subseteq U => V = U
  <2>1. T \in SUBSET (SUBSET S)
    OBVIOUS
  <2> HIDE DEF T
  <2> QED BY <1>2, <2>1, Smallest
<1>4. F[U] = IF U = {} THEN 0 ELSE z[Pick(U)] + F[U \ {Pick(U)}]
  BY <1>1, <1>3 DEF Adds
<1>5. U # {} /\ F[U] # 0
  BY <1>3, <1>4
<1>6. Pick(U) \in S /\ U \ {Pick(U)} # U /\ U \ {Pick(U)} \subseteq U
  BY <1>3, <1>5, PickIn
<1>7. F[U \ {Pick(U)}] = 0
  BY <1>3, <1>6
<1> QED BY <1>4, <1>5, <1>6, <1>7

\* One more at one point is one more in all.
LEMMA TotalOfOneMore ==
    ASSUME NEW S, IsFiniteSet(S), NEW f \in [S -> Nat], NEW p \in S
    PROVE  Total([f EXCEPT ![p] = @ + 1], S) = Total(f, S) + 1
<1> DEFINE g == [f EXCEPT ![p] = @ + 1]
           more(s) == IF p \in s THEN 1 ELSE 0
<1>1. PICK F : Adds(F, f, S) /\ Total(f, S) = F[S]
  BY TotalAdds
<1>2. PICK G : Adds(G, g, S) /\ Total(g, S) = G[S]
  BY TotalAdds
<1> DEFINE T == {s \in SUBSET S : ~(F[s] \in Nat /\ G[s] = F[s] + more(s))}
<1>3. SUFFICES ASSUME T # {} PROVE FALSE
  BY <1>1, <1>2
<1>4. PICK U \in T : \A V \in T : V \subseteq U => V = U
  <2>1. T \in SUBSET (SUBSET S)
    OBVIOUS
  <2> HIDE DEF T
  <2> QED BY <1>3, <2>1, Smallest
<1>5. /\ F[U] = IF U = {} THEN 0 ELSE f[Pick(U)] + F[U \ {Pick(U)}]
      /\ G[U] = IF U = {} THEN 0 ELSE g[Pick(U)] + G[U \ {Pick(U)}]
  BY <1>1, <1>2, <1>4 DEF Adds
<1>6. CASE U = {}
  BY <1>4, <1>5, <1>6
<1>7. CASE U # {}
  <2> DEFINE w == U \ {Pick(U)}
  <2>1. Pick(U) \in U /\ Pick(U) \in S /\ w # U /\ w \subseteq U /\ w \in SUBSET S
    BY <1>4, <1>7, PickIn
  <2>2. F[w] \in Nat /\ G[w] = F[w] + more(w)
    BY <1>4, <2>1
  <2>3. f[Pick(U)] \in Nat /\ g[Pick(U)] = IF Pick(U) = p THEN f[Pick(U)] + 1 ELSE f[Pick(U)]
    BY <2>1
  <2>4. more(U) = IF Pick(U) = p THEN 1 ELSE more(w)
    BY <2>1
  <2>5. Pick(U) = p => more(w) = 0
    OBVIOUS
  <2>6. more(w) \in Nat
    OBVIOUS
  <2>7. F[U] = f[Pick(U)] + F[w] /\ G[U] = g[Pick(U)] + G[w]
    BY <1>5, <1>7
  <2>8. ~(F[U] \in Nat /\ G[U] = F[U] + more(U))
    BY <1>4
  <2> HIDE DEF w, more, g
  <2> QED BY <2>2, <2>3, <2>4, <2>5, <2>6, <2>7, <2>8
<1> QED BY <1>6, <1>7

(***************************************************************************)
(* Every request is paid for.                                              *)
(***************************************************************************)
LEMMA PaidSum ==
    /\ EverySendPaid  <=> Total(daily, Days) = sent + Cardinality(Owing)
    /\ EverySendPaid' <=> Total(daily', Days) = sent' + Cardinality(Owing')
<1>1. EverySendPaid <=> Total(daily, Days) = sent + Cardinality(Owing)
  BY DEF EverySendPaid, MapThenSumSet, MapThenFoldSet, Total, Adds, Pick
<1>2. EverySendPaid' <=> Total(daily', Days) = sent' + Cardinality(Owing')
  BY DEF EverySendPaid, MapThenSumSet, MapThenFoldSet, Total, Adds, Pick
<1> QED BY <1>1, <1>2

\* An operation that was not paying and still is not owes nothing.
LEMMA PaidElsewhere ==
    ASSUME PaidInv, LoopInv', NEW c \in Callers, NEW k, req' = [req EXCEPT ![c] = k],
           req[c].pc # "paying", k.pc # "paying", UNCHANGED hitVars, sent' = sent
    PROVE  PaidInv'
<1>0. req \in [Callers -> Req] /\ hit' = hit /\ daily' = daily
  BY DEF PaidInv, LoopInv, TypeOK, hitVars
<1>1. Owing' = Owing
  BY <1>0 DEF Owing
<1>2. EverySendPaid'
  BY <1>0, <1>1, PaidSum DEF PaidInv
<1>3. ASSUME NEW e \in Callers PROVE Charging(e)'
  BY <1>0 DEF PaidInv, Charging
<1> QED BY <1>1, <1>2, <1>3 DEF PaidInv

LEMMA PaidUnmoved ==
    ASSUME PaidInv, LoopInv', req' = req, UNCHANGED hitVars, sent' = sent
    PROVE  PaidInv'
<1>0. hit' = hit /\ daily' = daily
  BY DEF hitVars
<1>1. Owing' = Owing
  BY <1>0 DEF Owing
<1>2. EverySendPaid'
  BY <1>0, <1>1, PaidSum DEF PaidInv
<1>3. ASSUME NEW e \in Callers PROVE Charging(e)'
  BY <1>0 DEF PaidInv, Charging
<1> QED BY <1>1, <1>2, <1>3 DEF PaidInv

LEMMA PaidGated ==
    ASSUME PaidInv, LoopInv', NEW c \in Callers, Gated(c)
    PROVE  PaidInv'
<1>0. /\ req \in [Callers -> Req] /\ hit \in [Callers -> Budget!Call]
      /\ req[c].pc = "gating" /\ sent' = sent
  BY DEF PaidInv, LoopInv, TypeOK, Budget!TypeOK, Gated, sendVars
<1>1. CASE Return(c, "deferred") /\ UNCHANGED hitVars
  <2>1. [Idle EXCEPT !.pc = "deferred"].pc # "paying"
    BY DEF Idle
  <2> QED BY <1>0, <1>1, <2>1, PaidElsewhere DEF Return
<1>2. CASE Goto(c, "paying") /\ Budget!Begin(c, 1)
  <2>1. /\ req' = [req EXCEPT ![c] = [req[c] EXCEPT !.pc = "paying"]]
        /\ hit' = [hit EXCEPT ![c] = Budget!Reserving(1)] /\ daily' = daily
    BY <1>2 DEF Goto, Budget!Begin
  <2>2. Budget!Reserving(1).pc = "get" /\ Budget!Reserving(1).uses = 1
    BY DEF Budget!Reserving, Budget!IdleCall
  <2>3. Owing' = Owing
    BY <1>0, <2>1, <2>2 DEF Owing
  <2>4. EverySendPaid'
    BY <1>0, <2>1, <2>3, PaidSum DEF PaidInv
  <2>5. req'[c].pc = "paying"
    BY <1>0, <2>1 DEF Req
  <2>6. ASSUME NEW e \in Callers PROVE Charging(e)'
    <3>1. CASE e = c
      BY <1>0, <2>1, <2>2, <2>5, <3>1 DEF Charging
    <3>2. CASE e # c
      BY <1>0, <2>1, <3>2 DEF PaidInv, Charging
    <3> QED BY <3>1, <3>2
  <2> QED BY <2>3, <2>4, <2>6 DEF PaidInv
<1> QED BY <1>1, <1>2 DEF Gated

\* Send: the request that leaves was owed.
LEMMA PaidSend ==
    ASSUME PaidInv, LoopInv', NEW c \in Callers, Send(c)
    PROVE  PaidInv'
<1>0. /\ req \in [Callers -> Req] /\ hit \in [Callers -> Budget!Call] /\ sent \in Nat
      /\ req[c].pc = "paying" /\ daily' = daily
      /\ hit' = [hit EXCEPT ![c] = Budget!IdleCall] /\ Budget!IdleCall.pc = "idle"
      /\ IsFiniteSet(Owing) /\ Cardinality(Owing) \in Nat
  BY FS_CardinalityType
     DEF PaidInv, LoopInv, TypeOK, Budget!TypeOK, Send, HitDone, Budget!IdleCall
<1>1. ASSUME NEW e \in Callers, NEW k, req' = [req EXCEPT ![c] = k] PROVE Charging(e)'
  <2>1. CASE e = c
    BY <1>0, <1>1, <2>1 DEF Charging
  <2>2. CASE e # c
    BY <1>0, <1>1, <2>2 DEF PaidInv, Charging
  <2> QED BY <2>1, <2>2
<1>2. CASE hit[c].pc = "exhausted" /\ Return(c, "exhausted") /\ UNCHANGED sendVars
  <2>1. req' = [req EXCEPT ![c] = [Idle EXCEPT !.pc = "exhausted"]] /\ sent' = sent
    BY <1>2 DEF Return, sendVars
  <2>2. Owing' = Owing
    BY <1>0, <1>2, <2>1 DEF Owing, Idle
  <2>3. EverySendPaid'
    BY <1>0, <2>1, <2>2, PaidSum DEF PaidInv
  <2> QED BY <1>1, <2>1, <2>2, <2>3 DEF PaidInv
<1>3. CASE hit[c].pc = "ok" /\ Goto(c, "http") /\ sent' = sent + 1
  <2>1. req' = [req EXCEPT ![c] = [req[c] EXCEPT !.pc = "http"]]
    BY <1>3 DEF Goto
  <2>2. Owing' = Owing \ {c} /\ c \in Owing
    BY <1>0, <1>3, <2>1 DEF Owing
  <2>3. IsFiniteSet(Owing') /\ Cardinality(Owing') = Cardinality(Owing) - 1
    BY <1>0, <2>2, FS_RemoveElement
  <2>4. EverySendPaid'
    BY <1>0, <1>3, <2>3, PaidSum DEF PaidInv
  <2> QED BY <1>1, <2>1, <2>3, <2>4 DEF PaidInv
<1> QED BY <1>2, <1>3 DEF Send

\* The reservation: a use is counted as the grant is owed to its operation.
LEMMA PaidHitStep ==
    ASSUME PaidInv, LoopInv', NEW c \in Callers, HitStep(c)
    PROVE  PaidInv'
<1>0. /\ req' = req /\ sent' = sent /\ sent \in Nat /\ hit \in [Callers -> Budget!Call]
      /\ daily \in [Days -> Nat] /\ now \in 0..Horizon
      /\ IsFiniteSet(Owing) /\ Cardinality(Owing) \in Nat /\ Charging(c)
      /\ cell \in Budget!Stored \union {NoBudget}
  BY FS_CardinalityType DEF PaidInv, LoopInv, TypeOK, Budget!TypeOK, HitStep, sendVars
<1>1. ASSUME NEW k, hit' = [hit EXCEPT ![c] = k], Owing' = Owing, daily' = daily,
             k.pc # "r_load",
             k.pc \in {"get", "clock", "cas"} => req[c].pc = "paying" /\ k.uses = 1,
             k.pc = "cas" => k.next.day \in Days
      PROVE  PaidInv'
  <2>1. EverySendPaid'
    BY <1>0, <1>1, PaidSum DEF PaidInv
  <2>2. ASSUME NEW e \in Callers PROVE Charging(e)'
    <3>1. CASE e = c
      BY <1>0, <1>1, <3>1 DEF Charging
    <3>2. CASE e # c
      BY <1>0, <1>1, <3>2 DEF PaidInv, Charging
    <3> QED BY <3>1, <3>2
  <2> QED BY <1>1, <2>1, <2>2 DEF PaidInv
<1>2. CASE Budget!Get(c)
  <2> DEFINE k == [hit[c] EXCEPT !.pc = "clock", !.expected = cell]
  <2>1. hit' = [hit EXCEPT ![c] = k] /\ daily' = daily
    BY <1>2 DEF Budget!Get
  <2>2. k.pc = "clock" /\ k.uses = hit[c].uses /\ hit[c].pc = "get"
    BY <1>0, <1>2 DEF Budget!Get, Budget!Call
  <2> HIDE DEF k
  <2>3. Owing' = Owing
    BY <1>0, <2>1, <2>2 DEF Owing
  <2> QED BY <1>0, <1>1, <2>1, <2>2, <2>3 DEF Charging
<1>3. CASE Budget!Clock(c)
  <2>0. hit[c].pc = "clock" /\ daily' = daily
    BY <1>3 DEF Budget!Clock
  <2> DEFINE s == Budget!Snapshot(Budget!OrDefault(hit[c].expected), now)
             n == [s EXCEPT !.hourly = @ + hit[c].uses, !.daily = @ + hit[c].uses]
             x == [Budget!IdleCall EXCEPT !.pc = "exhausted"]
             k == [hit[c] EXCEPT !.pc = "cas", !.next = n]
  <2>1. hit' = [hit EXCEPT ![c] = x] \/ hit' = [hit EXCEPT ![c] = k]
    BY <1>3 DEF Budget!Clock
  <2>2. n.day \in Days
    <3>1. s.day = now \div DayLen
      BY DEF Budget!Snapshot, Budget!Day
    <3>2. n.day = s.day
      BY DEF Budget!Snapshot
    <3> QED BY <1>0, <3>1, <3>2, BucketsAssumption
  <2> HIDE DEF n
  <2>3. x.pc = "exhausted" /\ k.pc = "cas" /\ k.uses = hit[c].uses /\ k.next = n
    BY <1>0 DEF Budget!IdleCall, Budget!Call
  <2> HIDE DEF x, k
  <2>4. Owing' = Owing
    BY <1>0, <2>0, <2>1, <2>3 DEF Owing
  <2>5. CASE hit' = [hit EXCEPT ![c] = x]
    BY <1>1, <2>0, <2>3, <2>4, <2>5
  <2>6. CASE hit' = [hit EXCEPT ![c] = k]
    BY <1>0, <1>1, <2>0, <2>2, <2>3, <2>4, <2>6 DEF Charging
  <2> QED BY <2>1, <2>5, <2>6
<1>4. CASE Budget!Cas(c)
  <2> DEFINE x == [Budget!IdleCall EXCEPT !.pc = "ok"]
             k == Budget!Reserving(hit[c].uses)
  <2>0. hit[c].pc = "cas" /\ hit[c].uses = 1 /\ req[c].pc = "paying" /\ hit[c].next.day \in Days
    BY <1>0, <1>4 DEF Budget!Cas, Charging
  <2>1. x.pc = "ok" /\ k.pc = "get" /\ k.uses = hit[c].uses
    BY DEF Budget!IdleCall, Budget!Reserving
  <2>2. CASE hit' = [hit EXCEPT ![c] = k] /\ daily' = daily
    <3> HIDE DEF k
    <3>1. Owing' = Owing
      BY <1>0, <2>0, <2>1, <2>2 DEF Owing
    <3> QED BY <1>1, <2>0, <2>1, <2>2, <3>1
  <2>3. CASE hit' = [hit EXCEPT ![c] = x] /\ Budget!Grant(c)
    <3> HIDE DEF x
    <3>1. Owing' = Owing \union {c} /\ c \notin Owing
      BY <1>0, <2>0, <2>1, <2>3 DEF Owing
    <3>2. IsFiniteSet(Owing') /\ Cardinality(Owing') = Cardinality(Owing) + 1
      BY <1>0, <3>1, FS_AddElement
    <3>3. PICK p \in Days : p = hit[c].next.day
      BY <2>0
    <3>4. daily' = [daily EXCEPT ![p] = @ + 1]
      BY <2>0, <2>3, <3>3 DEF Budget!Grant
    <3>5. Total(daily', Days) = Total(daily, Days) + 1
      BY <1>0, <3>4, TotalOfOneMore, BucketsAssumption
    <3>6. EverySendPaid'
      <4>1. Total(daily, Days) = sent + Cardinality(Owing)
        BY PaidSum DEF PaidInv
      <4>2. Total(daily', Days) = sent' + Cardinality(Owing')
        BY <1>0, <3>2, <3>5, <4>1
      <4> QED BY <4>2, PaidSum
    <3>7. ASSUME NEW e \in Callers PROVE Charging(e)'
      <4>1. CASE e = c
        BY <1>0, <2>1, <2>3, <4>1 DEF Charging
      <4>2. CASE e # c
        BY <1>0, <2>3, <4>2 DEF PaidInv, Charging
      <4> QED BY <4>1, <4>2
    <3> QED BY <3>2, <3>6, <3>7 DEF PaidInv
  <2> QED BY <1>4, <2>2, <2>3 DEF Budget!Cas
<1>5. ~ Budget!RetryLoad(c)
  BY <1>0 DEF Charging, Budget!RetryLoad
<1> QED BY <1>2, <1>3, <1>4, <1>5 DEF HitStep, Budget!Step

\* The steps of the loop around the reservation and the request.
LEMMA PaidLoop ==
    ASSUME PaidInv, LoopInv', NEW c \in Callers,
           \/ \E d \in Deadlines : Begin(c, d)
           \/ Cooled(c) \/ Respond(c) \/ Paused(c) \/ Deferred(c) \/ Sleep(c) \/ Retry(c)
           \/ Cancel(c)
    PROVE  PaidInv'
<1>0. req \in [Callers -> Req] /\ req[c] \in Req
  BY DEF PaidInv, LoopInv, TypeOK
<1>1. ASSUME NEW k, req' = [req EXCEPT ![c] = k], k.pc # "paying", req[c].pc # "paying",
             UNCHANGED <<hitVars, sendVars>>
      PROVE  PaidInv'
  BY <1>1, PaidElsewhere DEF sendVars
<1>2. ASSUME NEW pc, pc # "paying", Return(c, pc) \/ Goto(c, pc), req[c].pc # "paying",
             UNCHANGED <<hitVars, sendVars>>
      PROVE  PaidInv'
  <2>1. [Idle EXCEPT !.pc = pc].pc = pc /\ [req[c] EXCEPT !.pc = pc].pc = pc
    BY <1>0 DEF Idle, Req
  <2> QED BY <1>1, <1>2, <2>1 DEF Return, Goto
<1>3. ASSUME NEW d \in Deadlines, Begin(c, d) PROVE PaidInv'
  <2> DEFINE k == [Idle EXCEPT !.pc = "cooling", !.attempt = 1, !.deadline = d]
  <2>1. k.pc = "cooling" /\ req[c].pc # "paying"
    BY <1>3 DEF Idle, Begin, Returned
  <2>2. req' = [req EXCEPT ![c] = k] /\ UNCHANGED <<hitVars, sendVars>>
    BY <1>3 DEF Begin
  <2> QED BY <1>1, <2>1, <2>2
<1>4. CASE Cooled(c)
  BY <1>2, <1>4 DEF Cooled
<1>5. ASSUME NEW r \in Responses, Backoff(c, r) PROVE PaidInv'
  <2> DEFINE k == [req[c] EXCEPT !.pc = "deferring", !.delay = RetryDelay(r),
                                 !.notBefore = now + RetryDelay(r)]
  <2>1. k.pc = "deferring"
    BY <1>0 DEF Req
  <2>2. req' = [req EXCEPT ![c] = k] /\ req[c].pc = "http" /\ UNCHANGED <<hitVars, sendVars>>
    BY <1>5 DEF Backoff
  <2> QED BY <1>1, <2>1, <2>2
<1>6. ASSUME NEW r \in Responses, Answer(c, r) \/ TransportError(c, r) PROVE PaidInv'
  BY <1>2, <1>6 DEF Answer, TransportError
<1>7. CASE Respond(c)
  BY <1>5, <1>6, <1>7 DEF Respond
<1>8. CASE Paused(c)
  BY <1>2, <1>8 DEF Paused
<1>9. CASE Deferred(c)
  <2> DEFINE k == [req[c] EXCEPT !.pc = "budget", !.duration = req[c].delay]
  <2>1. k.pc = "budget"
    BY <1>0 DEF Req
  <2>2. req' = [req EXCEPT ![c] = k] /\ req[c].pc = "deferring"
        /\ UNCHANGED <<hitVars, sendVars>>
    BY <1>9 DEF Deferred
  <2> QED BY <1>1, <2>1, <2>2
<1>10. CASE Sleep(c)
  <2> DEFINE slept == SleepUntilDeadline(req[c], now)
             k == IF slept.pc = "deferred" THEN [Idle EXCEPT !.pc = "deferred"] ELSE slept
  <2>1. k.pc # "paying"
    BY <1>0 DEF Req, Idle, SleepUntilDeadline
  <2>2. req' = [req EXCEPT ![c] = k] /\ req[c].pc = "budget" /\ UNCHANGED <<hitVars, sendVars>>
    BY <1>10 DEF Sleep
  <2> QED BY <1>1, <2>1, <2>2
<1>11. CASE Retry(c)
  <2> DEFINE k == [req[c] EXCEPT !.pc = "cooling", !.attempt = @ + 1,
                                 !.total = @ + req[c].delay, !.delay = 0, !.wake = 0]
  <2>1. k.pc = "cooling"
    BY <1>0 DEF Req
  <2>2. req' = [req EXCEPT ![c] = k] /\ req[c].pc = "sleep" /\ UNCHANGED <<hitVars, sendVars>>
    BY <1>11 DEF Retry
  <2> QED BY <1>1, <2>1, <2>2
<1>12. CASE Cancel(c)
  <2>1. Idle.pc # "paying" /\ req[c].pc # "paying"
    BY <1>12 DEF Idle, Cancel
  <2>2. req' = [req EXCEPT ![c] = Idle] /\ UNCHANGED <<hitVars, sendVars>>
    BY <1>12 DEF Cancel
  <2> QED BY <1>1, <2>1, <2>2
<1> QED BY <1>3, <1>4, <1>7, <1>8, <1>9, <1>10, <1>11, <1>12

LEMMA PaidInit == Init => PaidInv
<1> SUFFICES ASSUME Init PROVE PaidInv
  OBVIOUS
<1>1. Owing = {} /\ sent = 0
  BY DEF Init, Owing, Idle
<1>2. daily = [d \in Days |-> 0] /\ hit = [c \in Callers |-> Budget!IdleCall]
  BY DEF Init, Budget!Init
<1>3. EverySendPaid
  <2>1. Total(daily, Days) = 0
    BY <1>2, TotalOfZero, BucketsAssumption
  <2>2. Total(daily, Days) = sent + Cardinality(Owing)
    BY <1>1, <2>1, FS_EmptySet
  <2> QED BY <2>2, PaidSum
<1>4. ASSUME NEW c \in Callers PROVE Charging(c)
  BY <1>2 DEF Charging, Budget!IdleCall
<1> QED BY <1>1, <1>3, <1>4, InitInv, FS_EmptySet DEF PaidInv

LEMMA PaidNext == PaidInv /\ [Next]_vars => PaidInv'
<1> SUFFICES ASSUME PaidInv, [Next]_vars PROVE PaidInv'
  OBVIOUS
<1>0. LoopInv'
  BY NextInv DEF PaidInv
<1>1. CASE UNCHANGED vars \/ Tick
  BY <1>0, <1>1, PaidUnmoved DEF vars, Tick, sendVars
<1>2. ASSUME NEW c \in Callers, CoolStep(c) \/ GateStep(c) PROVE PaidInv'
  BY <1>0, <1>2, PaidUnmoved DEF CoolStep, GateStep, sendVars
<1>3. ASSUME NEW c \in Callers, Step(c) PROVE PaidInv'
  BY <1>0, <1>2, <1>3, PaidLoop, PaidGated, PaidSend, PaidHitStep DEF Step
<1>4. ASSUME NEW c \in Callers, (\E d \in Deadlines : Begin(c, d)) \/ Cancel(c) PROVE PaidInv'
  BY <1>0, <1>4, PaidLoop
<1> QED BY <1>1, <1>3, <1>4 DEF Next

\* What the hit budget granted is what polite_http_get_redacting sent, retries
\* included, plus the grants whose operation is about to send: no request
\* leaves unpaid, and none is paid for twice.
THEOREM SendsArePaid == Spec => []EverySendPaid
<1>1. PaidInv => EverySendPaid
  BY DEF PaidInv
<1> QED BY <1>1, PaidInit, PaidNext, PTL DEF Spec
=============================================================================
