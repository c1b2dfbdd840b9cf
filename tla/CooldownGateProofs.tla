------------------------- MODULE CooldownGateProofs -------------------------
(***************************************************************************)
(* The shared cooldown only moves later, a defer_for() that returned stays *)
(* in effect, and wait() returns only once what was recorded before its    *)
(* last await point is over: for any callers, delays and deadlines.        *)
(***************************************************************************)
EXTENDS CooldownGate, TLAPS

\* sleep_until_deadline returns a well-formed call that has not returned Ok.
LEMMA SleepType ==
    ASSUME NEW k \in Call, NEW t \in Nat
    PROVE  /\ SleepUntilDeadline(k, t) \in Call
           /\ SleepUntilDeadline(k, t).pc \in {"sleep", "deferred"}
<1>1. t + k.duration \in Nat
  BY DEF Call
<1> QED BY <1>1 DEF SleepUntilDeadline, Call, PCs

LEMMA CellType ==
    ASSUME NEW x \in Nat \union {NoCooldown}
    PROVE  OrDefault(x) \in Nat
BY DEF OrDefault

\* defer_for writes the later of what is on record and what was asked for.
LEMMA ReplacementIsLater ==
    ASSUME NEW x \in Nat, NEW y \in Nat
    PROVE  /\ Replacement(x, y) \in Nat
           /\ Replacement(x, y) >= x /\ Replacement(x, y) >= y
BY DEF Replacement, MaxOf

LEMMA IdleType == IdleCall \in Call /\ IdleCall.pc = "idle"
BY DEF IdleCall, Call, PCs

LEMMA WaitingType ==
    ASSUME NEW d \in Nat
    PROVE  Waiting(d) \in Call /\ Waiting(d).pc = "w_get"
BY DEF Waiting, IdleCall, Call, PCs

\* moving a call on and noting what its state_get returned keeps it well formed
LEMMA NotedType ==
    ASSUME NEW k \in Call, NEW pc \in PCs, NEW e \in Nat \union {NoCooldown}
    PROVE  [k EXCEPT !.pc = pc, !.expected = e] \in Call
BY DEF Call

LEMMA InitInv == Init => CooldownInv
BY IdleType, HorizonAssumption
   DEF Init, CooldownInv, TypeOK, DeferTakesEffect, WaitedOut, OwedKept

LEMMA NextInv ==
    CooldownInv /\ [Next]_vars => CooldownInv' /\ OrDefault(until') >= OrDefault(until)
<1> SUFFICES ASSUME CooldownInv, [Next]_vars
             PROVE  CooldownInv' /\ OrDefault(until') >= OrDefault(until)
  OBVIOUS
<1> DEFINE Goal == CooldownInv' /\ OrDefault(until') >= OrDefault(until)
<1> USE HorizonAssumption DEF CooldownInv, TypeOK
<1>0. /\ now \in Nat /\ now' \in 0..Horizon /\ now' >= now
      /\ OrDefault(until) \in Nat
  <2>1. now' = now \/ Tick
    BY DEF Next, Step, BeginWait, WaitGet, WaitClock, Budget, Wake, BeginDefer,
           DeferGet, DeferCas, Cancel, vars
  <2> QED BY <2>1, CellType DEF Tick
<1>1. CASE UNCHANGED vars
  BY <1>0, <1>1 DEF vars, DeferTakesEffect, WaitedOut, OwedKept
<1>2. CASE Tick
  BY <1>0, <1>2 DEF Tick, DeferTakesEffect, WaitedOut, OwedKept
<1>3. ASSUME NEW c \in Callers, NEW d \in Deadlines, BeginWait(c, d) PROVE Goal
  BY <1>3, <1>0, WaitingType, DeadlineAssumption
     DEF BeginWait, DeferTakesEffect, WaitedOut, OwedKept
<1>4. ASSUME NEW c \in Callers, WaitGet(c) PROVE Goal
  <2>1. TypeOK'
    <3>1. call' = [call EXCEPT ![c] = [call[c] EXCEPT !.pc = "w_clock", !.expected = until]]
      BY <1>4 DEF WaitGet
    <3>2. [call[c] EXCEPT !.pc = "w_clock", !.expected = until] \in Call
      BY NotedType DEF PCs
    <3> QED BY <1>0, <1>4, <3>1, <3>2 DEF WaitGet
  <2>2. OwedKept'
    BY <1>4, <1>0 DEF WaitGet, OwedKept
  <2> QED BY <1>4, <1>0, <2>1, <2>2 DEF WaitGet, DeferTakesEffect, WaitedOut
<1>5. ASSUME NEW c \in Callers, WaitClock(c) PROVE Goal
  <2> DEFINE recorded == OrDefault(call[c].expected)
  <2>1. recorded \in Nat /\ owed[c] <= recorded
    BY <1>5, CellType DEF WaitClock, OwedKept, Call
  <2>2. CASE recorded <= now /\ call' = [call EXCEPT ![c] = [IdleCall EXCEPT !.pc = "w_ok"]]
    <3>1. /\ [IdleCall EXCEPT !.pc = "w_ok"] \in Call
          /\ [IdleCall EXCEPT !.pc = "w_ok"].pc = "w_ok"
      BY IdleType DEF IdleCall, Call, PCs
    <3>2. owed[c] <= now
      BY <2>1, <2>2, <1>0
    <3> QED BY <1>5, <1>0, <2>2, <3>1, <3>2
            DEF WaitClock, DeferTakesEffect, WaitedOut, OwedKept
  <2>3. CASE /\ recorded > now
             /\ call' = [call EXCEPT ![c].pc = "budget", ![c].expected = NoCooldown,
                                     ![c].duration = SatSub(recorded, now)]
    <3>1. SatSub(recorded, now) \in Nat
      BY <1>0, <2>1 DEF SatSub
    <3>2. TypeOK'
      BY <1>5, <1>0, <2>3, <3>1 DEF WaitClock, Call, PCs
    <3> QED BY <1>5, <1>0, <2>3, <3>2
            DEF WaitClock, DeferTakesEffect, WaitedOut, OwedKept
  <2> QED BY <1>5, <2>2, <2>3 DEF WaitClock
<1>6. ASSUME NEW c \in Callers, Budget(c) PROVE Goal
  <2> DEFINE k == SleepUntilDeadline(call[c], now)
  <2>1. k \in Call /\ k.pc \in {"sleep", "deferred"}
    BY <1>0, SleepType
  <2>2. /\ call' = [call EXCEPT ![c] = k]
        /\ until' = until /\ now' = now /\ owed' = owed
    BY <1>6 DEF Budget
  <2> HIDE DEF k
  <2> QED BY <1>0, <2>1, <2>2 DEF DeferTakesEffect, WaitedOut, OwedKept
<1>7. ASSUME NEW c \in Callers, Wake(c) PROVE Goal
  <2>1. call[c].deadline \in Nat
    BY DEF Call
  <2> QED BY <1>7, <1>0, <2>1, WaitingType DEF Wake, DeferTakesEffect, WaitedOut, OwedKept
<1>8. ASSUME NEW c \in Callers, NEW d \in Delays, BeginDefer(c, d) PROVE Goal
  <2> DEFINE k == [IdleCall EXCEPT !.pc = "d_get", !.requested = SatAdd(now, d)]
  <2>1. SatAdd(now, d) \in Nat
    BY <1>0, DelayAssumption, U64MaxAssumption DEF SatAdd, MinOf
  <2>2. k \in Call /\ k.pc = "d_get"
    BY <2>1, IdleType DEF IdleCall, Call, PCs
  <2>3. /\ call' = [call EXCEPT ![c] = k] /\ until' = until /\ now' = now
        /\ owed' = [owed EXCEPT ![c] = 0]
    BY <1>8 DEF BeginDefer
  <2> HIDE DEF k
  <2> QED BY <1>0, <2>2, <2>3 DEF DeferTakesEffect, WaitedOut, OwedKept
<1>9. ASSUME NEW c \in Callers, DeferGet(c) PROVE Goal
  <2>1. TypeOK'
    <3>1. call' = [call EXCEPT ![c] = [call[c] EXCEPT !.pc = "d_cas", !.expected = until]]
      BY <1>9 DEF DeferGet
    <3>2. [call[c] EXCEPT !.pc = "d_cas", !.expected = until] \in Call
      BY NotedType DEF PCs
    <3> QED BY <1>0, <1>9, <3>1, <3>2 DEF DeferGet
  <2> QED BY <1>9, <1>0, <2>1 DEF DeferGet, DeferTakesEffect, WaitedOut, OwedKept
<1>10. ASSUME NEW c \in Callers, DeferCas(c) PROVE Goal
  <2>0. call[c].requested \in Nat
    BY DEF Call
  <2>1. CASE until # call[c].expected
    <3>2. /\ call' = [call EXCEPT ![c].pc = "d_get", ![c].expected = NoCooldown]
          /\ until' = until /\ now' = now /\ owed' = owed
      BY <1>10, <2>1 DEF DeferCas
    <3>1. TypeOK'
      <4>1. call' = [call EXCEPT ![c] = [call[c] EXCEPT !.pc = "d_get", !.expected = NoCooldown]]
        BY <3>2
      <4>2. [call[c] EXCEPT !.pc = "d_get", !.expected = NoCooldown] \in Call
        BY NotedType DEF PCs
      <4> QED BY <1>0, <3>2, <4>1, <4>2
    <3>3. DeferTakesEffect' /\ WaitedOut'
      BY <3>2 DEF DeferTakesEffect, WaitedOut
    <3>4. OwedKept'
      BY <3>2 DEF OwedKept
    <3> QED BY <1>0, <3>1, <3>2, <3>3, <3>4
  <2>2. CASE until = call[c].expected
    <3> DEFINE r == Replacement(OrDefault(call[c].expected), call[c].requested)
    <3>1. r \in Nat /\ r >= OrDefault(until) /\ r >= call[c].requested
      BY <2>0, <2>2, <1>0, ReplacementIsLater
    <3>2. /\ until' = r /\ now' = now /\ owed' = owed
          /\ call' = [call EXCEPT ![c].pc = "d_done", ![c].expected = NoCooldown]
      BY <1>10, <2>2 DEF DeferCas
    <3> HIDE DEF r
    <3>3. OrDefault(until') = r
      BY <3>1, <3>2, NoCooldownAssumption DEF OrDefault
    <3>4. TypeOK'
      <4>1. call' = [call EXCEPT ![c] = [call[c] EXCEPT !.pc = "d_done", !.expected = NoCooldown]]
        BY <3>2
      <4>2. [call[c] EXCEPT !.pc = "d_done", !.expected = NoCooldown] \in Call
        BY NotedType DEF PCs
      <4> QED BY <1>0, <3>1, <3>2, <4>1, <4>2
    <3>5. DeferTakesEffect'
      <4>1. ASSUME NEW e \in Callers, call'[e].pc = "d_done"
            PROVE  OrDefault(until') >= call'[e].requested
        <5>1. CASE e = c
          BY <3>1, <3>2, <3>3, <5>1
        <5>2. CASE e # c
          <6>1. call[e].requested \in Nat /\ OrDefault(until) >= call[e].requested
            BY <3>2, <4>1, <5>2 DEF DeferTakesEffect, Call
          <6> QED BY <1>0, <3>1, <3>2, <3>3, <5>2, <6>1
        <5> QED BY <5>1, <5>2
      <4> QED BY <4>1 DEF DeferTakesEffect
    <3>6. WaitedOut'
      BY <3>2 DEF WaitedOut
    <3>7. OwedKept'
      <4>1. ASSUME NEW e \in Callers, call'[e].pc = "w_get" PROVE owed'[e] <= OrDefault(until')
        <5>1. e # c /\ call[e].pc = "w_get" /\ owed[e] \in Nat
          BY <3>2, <4>1
        <5> QED BY <5>1, <1>0, <3>1, <3>2, <3>3 DEF OwedKept
      <4> QED BY <3>2, <4>1 DEF OwedKept
    <3> QED BY <3>1, <3>3, <3>4, <3>5, <3>6, <3>7
  <2> QED BY <2>1, <2>2
<1>11. ASSUME NEW c \in Callers, Cancel(c) PROVE Goal
  BY <1>11, <1>0, IdleType DEF Cancel, DeferTakesEffect, WaitedOut, OwedKept
<1> QED
  BY <1>1, <1>2, <1>3, <1>4, <1>5, <1>6, <1>7, <1>8, <1>9, <1>10, <1>11 DEF Next, Step

\* Every reachable state is well typed (CooldownGate::wait and defer_for).
THEOREM TypeCorrect == Spec => []TypeOK
<1>1. CooldownInv => TypeOK
  BY DEF CooldownInv
<1> QED BY <1>1, InitInv, NextInv, PTL DEF Spec

\* CooldownGate::defer_for never shortens a longer concurrent cooldown.
THEOREM CooldownNeverShortened == Spec => NeverShortened
<1>1. CooldownInv /\ [Next]_vars => [OrDefault(until') >= OrDefault(until)]_vars
  BY NextInv
<1> QED BY <1>1, InitInv, NextInv, PTL DEF Spec, NeverShortened

\* A CooldownGate::defer_for that returned stays in effect.
THEOREM DeferIsDurable == Spec => []DeferTakesEffect
<1>1. CooldownInv => DeferTakesEffect
  BY DEF CooldownInv
<1> QED BY <1>1, InitInv, NextInv, PTL DEF Spec

\* CooldownGate::wait waits out every cooldown recorded before its last await point.
THEOREM WaitIsSound == Spec => []WaitedOut
<1>1. CooldownInv => WaitedOut
  BY DEF CooldownInv
<1> QED BY <1>1, InitInv, NextInv, PTL DEF Spec
=============================================================================
