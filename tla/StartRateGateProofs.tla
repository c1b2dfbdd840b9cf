------------------------ MODULE StartRateGateProofs ------------------------
(***************************************************************************)
(* Spacing holds for every number of callers, every rate and every         *)
(* deadline: SpacingInv is inductive.                                      *)
(***************************************************************************)
EXTENDS StartRateGate, FiniteSetTheorems, TLAPS

\* The gap StartRateGate::new computes is at least one millisecond.
LEMMA GapPositive == Gap \in Nat /\ Gap >= 1
<1> DEFINE ivl == MaxOf(IntervalMs, 1)
           per == MaxOf(Starts, 1)
<1>1. ivl \in Nat /\ ivl >= 1 /\ per \in Nat /\ per >= 1
  BY RateAssumption DEF MaxOf
<1>2. ivl + per - 1 \in Nat
  BY <1>1
<1> HIDE DEF ivl, per
<1>3. (ivl + per - 1) \div per \in Nat
  BY <1>1, <1>2
<1>4. Gap = MaxOf((ivl + per - 1) \div per, 1)
  BY DEF Gap, DivCeil, ivl, per
<1> QED BY <1>3, <1>4 DEF MaxOf

\* sleep_until_deadline returns a well-formed call that is not at the
\* compare-and-set.
LEMMA SleepType ==
    ASSUME NEW k \in Call, NEW t \in Nat
    PROVE  /\ SleepUntilDeadline(k, t) \in Call
           /\ SleepUntilDeadline(k, t).pc \in {"sleep", "deferred"}
<1>1. t + k.duration \in Nat
  BY DEF Call
<1> QED BY <1>1 DEF SleepUntilDeadline, Call, PCs

\* A caller that finds itself eligible has seen the clock at least Gap after
\* the stamp it read: the saturated sum is not the one that was compared,
\* because the clock never gets near the largest u64.
LEMMA EligibleIsLater ==
    ASSUME NEW p \in Nat, NEW t \in 0..Horizon, EligibleAt(p, t) <= t
    PROVE  p + Gap <= t
BY GapPositive, NoStampAssumption, HorizonAssumption, U64MaxAssumption
   DEF EligibleAt, SatAdd, MinOf

LEMMA EligibleType ==
    ASSUME NEW p \in Nat \union {NoStamp}, NEW t \in Nat
    PROVE  EligibleAt(p, t) \in Nat
BY GapPositive, U64MaxAssumption DEF EligibleAt, SatAdd, SatSub, MinOf

LEMMA IdleType == IdleCall \in Call /\ IdleCall.pc = "idle"
BY DEF IdleCall, Call, PCs

LEMMA LoopType ==
    ASSUME NEW d \in Nat
    PROVE  Looping(d) \in Call /\ Looping(d).pc = "get"
BY DEF Looping, IdleCall, Call, PCs

LEMMA ReturningType ==
    ASSUME NEW p \in PCs
    PROVE  Returning(p) \in Call /\ Returning(p).pc = p
BY DEF Returning, IdleCall, Call

\* moving a call on and noting what its state_get returned keeps it well formed
LEMMA NotedType ==
    ASSUME NEW k \in Call, NEW pc \in PCs, NEW e \in Nat \union {NoStamp}
    PROVE  [k EXCEPT !.pc = pc, !.expected = e] \in Call
BY DEF Call

LEMMA InitInv == Init => SpacingInv
BY IdleType, HorizonAssumption
   DEF Init, SpacingInv, TypeOK, LatestStamp, CasReady, Spacing

LEMMA NextInv == SpacingInv /\ [Next]_vars => SpacingInv'
<1> SUFFICES ASSUME SpacingInv, [Next]_vars PROVE SpacingInv'
  OBVIOUS
<1> USE HorizonAssumption DEF SpacingInv, TypeOK
<1>0. now \in Nat /\ now' \in 0..Horizon
  <2>1. now' = now \/ Tick
    BY DEF Next, Step, Begin, Get, Clock, Budget, Wake, Cas, Cancel, vars
  <2> QED BY <2>1 DEF Tick
<1>1. CASE UNCHANGED vars
  BY <1>1 DEF vars, LatestStamp, CasReady, Spacing
<1>2. CASE Tick
  BY <1>2 DEF Tick, LatestStamp, CasReady, Spacing
<1>3. ASSUME NEW c \in Callers, NEW d \in Deadlines, Begin(c, d) PROVE SpacingInv'
  BY <1>3, <1>0, LoopType, DeadlineAssumption
     DEF Begin, LatestStamp, CasReady, Spacing
<1>4. ASSUME NEW c \in Callers, Get(c) PROVE SpacingInv'
  <2>1. TypeOK'
    <3>1. call' = [call EXCEPT ![c] = [call[c] EXCEPT !.pc = "clock", !.expected = stamp]]
      BY <1>4 DEF Get
    <3>2. [call[c] EXCEPT !.pc = "clock", !.expected = stamp] \in Call
      BY NotedType DEF PCs
    <3> QED BY <1>0, <1>4, <3>1, <3>2 DEF Get
  <2>2. CasReady'
    BY <1>4 DEF Get, CasReady
  <2> QED BY <1>4, <2>1, <2>2 DEF Get, LatestStamp, Spacing
<1>5. ASSUME NEW c \in Callers, Clock(c) PROVE SpacingInv'
  <2>1. EligibleAt(call[c].expected, now) \in Nat
    BY <1>0, EligibleType DEF Call
  <2>2. SatSub(EligibleAt(call[c].expected, now), now) \in Nat
    BY <1>0, <2>1 DEF SatSub
  <2>3. TypeOK'
    BY <1>5, <1>0, <2>2 DEF Clock, Call, PCs
  <2>4. CasReady'
    <3>1. ASSUME NEW e \in Callers, call'[e].pc = "cas", call'[e].expected # NoStamp
          PROVE  call'[e].expected + Gap <= call'[e].seen
      <4>1. CASE e # c
        BY <1>5, <3>1, <4>1 DEF Clock, CasReady
      <4>2. CASE e = c
        <5>1. /\ EligibleAt(call[c].expected, now) <= now
              /\ call'[c].expected = call[c].expected /\ call'[c].seen = now
          BY <1>5, <3>1, <4>2 DEF Clock, Call
        <5>2. call[c].expected \in Nat
          BY <3>1, <4>2, <5>1 DEF Call
        <5> QED BY <5>1, <5>2, <4>2, EligibleIsLater
      <4> QED BY <4>1, <4>2
    <3> QED BY <3>1 DEF CasReady
  <2> QED BY <1>5, <2>3, <2>4 DEF Clock, LatestStamp, Spacing
<1>6. ASSUME NEW c \in Callers, Budget(c) PROVE SpacingInv'
  BY <1>6, <1>0, SleepType DEF Budget, LatestStamp, CasReady, Spacing
<1>7. ASSUME NEW c \in Callers, Wake(c) PROVE SpacingInv'
  <2>1. call[c].deadline \in Nat
    BY DEF Call
  <2> QED BY <1>7, <1>0, <2>1, LoopType DEF Wake, LatestStamp, CasReady, Spacing
<1>8. ASSUME NEW c \in Callers, Cas(c) PROVE SpacingInv'
  <2>0. call[c].deadline \in Nat /\ call[c].seen \in Nat /\ call[c].pc = "cas"
    BY <1>8 DEF Cas, Call
  <2>1. CASE stamp # call[c].expected
    BY <1>8, <1>0, <2>0, <2>1, LoopType DEF Cas, LatestStamp, CasReady, Spacing
  <2>2. CASE stamp = call[c].expected
    <3> DEFINE new == [by |-> c, stamp |-> call[c].seen]
    <3>0. "ok" \in PCs
      BY DEF PCs
    <3>1. /\ stamp' = call[c].seen /\ starts' = starts \union {new}
          /\ call' = [call EXCEPT ![c] = Returning("ok")]
      BY <1>8, <2>2 DEF Cas
    <3>2. TypeOK'
      BY <1>0, <2>0, <3>0, <3>1, ReturningType DEF Call
    <3>3. CasReady'
      BY <3>0, <3>1, ReturningType DEF CasReady
    <3>4. \A s \in starts : s.stamp + Gap <= new.stamp
      BY <2>0, <2>2, GapPositive, NoStampAssumption DEF LatestStamp, CasReady
    <3>5. \A s \in starts : s.stamp \in Nat
      OBVIOUS
    <3>6. LatestStamp'
      BY <2>0, <3>1, <3>4, <3>5, GapPositive, NoStampAssumption DEF LatestStamp
    <3>7. Spacing'
      BY <3>1, <3>4 DEF Spacing
    <3> QED BY <3>2, <3>3, <3>6, <3>7
  <2> QED BY <2>1, <2>2
<1>9. ASSUME NEW c \in Callers, Cancel(c) PROVE SpacingInv'
  BY <1>9, <1>0, IdleType DEF Cancel, LatestStamp, CasReady, Spacing
<1> QED
  BY <1>1, <1>2, <1>3, <1>4, <1>5, <1>6, <1>7, <1>8, <1>9 DEF Next, Step

\* Every reachable state is well typed (StartRateGate::acquire).
THEOREM TypeCorrect == Spec => []TypeOK
<1>1. SpacingInv => TypeOK
  BY DEF SpacingInv
<1> QED BY <1>1, InitInv, NextInv, PTL DEF Spec

\* Starts admitted by StartRateGate::acquire are at least Gap apart, for any
\* number of racing callers, any rate and any deadlines.
THEOREM StartsAreSpaced == Spec => []Spacing
<1>1. SpacingInv => Spacing
  BY DEF SpacingInv
<1> QED BY <1>1, InitInv, NextInv, PTL DEF Spec

-----------------------------------------------------------------------------
(***************************************************************************)
(* From spacing to the rate: the starts of one window fall into different  *)
(* slots of Gap milliseconds each, and the window has as many slots as the *)
(* policy allows starts, because the gap was rounded up.                   *)
(***************************************************************************)
Slot(w, stamped) == (stamped - w) \div Gap

\* Rounded up, the gap times the number of starts covers the interval.
LEMMA GapCovers ==
    /\ MaxOf(Starts, 1) \in Nat \ {0} /\ MaxOf(IntervalMs, 1) \in Nat
    /\ MaxOf(IntervalMs, 1) <= Gap * MaxOf(Starts, 1)
<1> DEFINE ivl == MaxOf(IntervalMs, 1)
           per == MaxOf(Starts, 1)
           q   == (ivl + per - 1) \div per
<1>1. ivl \in Nat /\ ivl >= 1 /\ per \in Nat /\ per >= 1
  BY RateAssumption DEF MaxOf
<1>2. Gap = MaxOf(q, 1)
  BY DEF Gap, DivCeil
<1> HIDE DEF ivl, per
<1>3. q \in Nat /\ ivl + per - 1 < per * (q + 1)
  <2>1. ivl + per - 1 \in Nat
    BY <1>1
  <2> QED BY <1>1, <2>1
<1> HIDE DEF q
<1>4. ivl <= per * q
  <2>1. per * (q + 1) = per * q + per
    BY <1>1, <1>3
  <2>2. per * q \in Nat
    BY <1>1, <1>3
  <2> QED BY <1>1, <1>3, <2>1, <2>2
<1>5. CASE q >= 1
  <2>1. Gap = q
    BY <1>2, <1>5 DEF MaxOf
  <2>2. per * q = Gap * per
    BY <1>1, <1>3, <2>1
  <2> QED BY <1>1, <1>4, <2>2 DEF ivl, per
<1>6. CASE q = 0
  <2>1. per * q = 0
    BY <1>1, <1>6
  <2> QED BY <1>1, <1>4, <2>1
<1> QED BY <1>3, <1>5, <1>6

\* A start of the window that begins at w has one of its slots ...
LEMMA SlotType ==
    ASSUME NEW w \in Nat, NEW s \in Nat, w <= s, s < w + MaxOf(IntervalMs, 1)
    PROVE  Slot(w, s) \in 0 .. MaxOf(Starts, 1) - 1
<1> DEFINE x == s - w
           q == x \div Gap
           per == MaxOf(Starts, 1)
<1>1. x \in Nat /\ per \in Nat \ {0} /\ x < Gap * per
  <2>1. Gap * per \in Nat
    BY GapPositive, GapCovers
  <2> QED BY <2>1, GapCovers
<1> HIDE DEF x, per
<1>2. q \in Nat /\ Gap * q <= x
  BY <1>1, GapPositive
<1> HIDE DEF q
<1>3. q < per
  <2> SUFFICES ASSUME q >= per PROVE FALSE
    BY <1>1, <1>2
  <2>1. Gap * q >= Gap * per
    BY <1>1, <1>2, GapPositive
  <2> QED BY <1>1, <1>2, <2>1, GapPositive
<1> QED BY <1>1, <1>2, <1>3 DEF Slot, q, x, per

\* ... and two starts that are spaced have different ones.
LEMMA SlotsDiffer ==
    ASSUME NEW w \in Nat, NEW s \in Nat, NEW t \in Nat, w <= s, s + Gap <= t
    PROVE  Slot(w, s) # Slot(w, t)
<1> DEFINE x == s - w
           y == t - w
           q == x \div Gap
<1>1. x \in Nat /\ y \in Nat /\ x + Gap <= y
  BY GapPositive
<1> HIDE DEF x, y
<1>2. q \in Nat /\ x < Gap * (q + 1)
  BY <1>1, GapPositive
<1>3. Gap * (y \div Gap) <= y /\ y < Gap * (y \div Gap + 1) /\ y \div Gap \in Nat
  BY <1>1, GapPositive
<1> HIDE DEF q
<1> SUFFICES ASSUME q = y \div Gap PROVE FALSE
  BY DEF Slot, x, y, q
<1>4. Gap * q <= x
  BY <1>1, GapPositive DEF q
<1>5. Gap * (q + 1) = Gap * q + Gap /\ Gap * q \in Nat
  BY <1>2, GapPositive
<1>6. y < Gap * (q + 1)
  BY <1>3
<1> QED BY <1>1, <1>4, <1>5, <1>6, GapPositive

LEMMA SpacingBoundsRate == TypeOK /\ Spacing => RateHonoured
<1> SUFFICES ASSUME TypeOK, Spacing, NEW w \in 0..Horizon
             PROVE  Cardinality({s \in starts : w <= s.stamp /\ s.stamp < w + MaxOf(IntervalMs, 1)})
                      <= MaxOf(Starts, 1)
  BY DEF RateHonoured
<1> DEFINE T == {s \in starts : w <= s.stamp /\ s.stamp < w + MaxOf(IntervalMs, 1)}
           D == 0 .. MaxOf(Starts, 1) - 1
           f == [s \in T |-> Slot(w, s.stamp)]
<1>1. w \in Nat /\ \A s \in T : s.stamp \in Nat
  BY HorizonAssumption DEF TypeOK
<1>2. f \in [T -> D]
  BY <1>1, SlotType
<1>3. \A s, t \in T : s # t => f[s] # f[t]
  <2> SUFFICES ASSUME NEW s \in T, NEW t \in T, s # t
               PROVE  Slot(w, s.stamp) # Slot(w, t.stamp)
    OBVIOUS
  <2>1. s.stamp + Gap <= t.stamp \/ t.stamp + Gap <= s.stamp
    BY DEF Spacing
  <2> QED BY <1>1, <2>1, SlotsDiffer
<1>4. f \in Injection(T, D)
  BY <1>2, <1>3 DEF Injection, IsInjective
<1>5. IsFiniteSet(D) /\ Cardinality(D) = MaxOf(Starts, 1)
  <2>1. 0 \in Int /\ MaxOf(Starts, 1) - 1 \in Int /\ MaxOf(Starts, 1) \in Nat \ {0}
    BY GapCovers
  <2> QED BY <2>1, FS_Interval
<1> HIDE DEF T, D, f
<1>6. Cardinality(T) <= Cardinality(D)
  BY <1>4, <1>5, FS_Injection
<1> QED BY <1>5, <1>6 DEF T

\* The policy a plugin asked StartRateGate::new for: no window of the interval
\* holds more starts than it allows, whether or not they divide the interval.
THEOREM RateIsHonoured == Spec => []RateHonoured
<1>1. SpacingInv => RateHonoured
  BY SpacingBoundsRate DEF SpacingInv
<1> QED BY <1>1, InitInv, NextInv, PTL DEF Spec
=============================================================================
