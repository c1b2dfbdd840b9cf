--------------------------- MODULE HitBudgetProofs ---------------------------
(***************************************************************************)
(* Neither the hourly nor the daily allowance is overrun, for any callers, *)
(* limits, amounts and bucket lengths, as long as the wall clock does not  *)
(* step back.                                                              *)
(***************************************************************************)
EXTENDS HitBudget, TLAPS

\* Later instants are in later buckets.
LEMMA DivMonotone ==
    ASSUME NEW a \in Nat, NEW b \in Nat, NEW w \in Nat, w >= 1, a <= b
    PROVE  a \div w <= b \div w
<1> DEFINE qa == a \div w
           qb == b \div w
<1>1. /\ qa \in Nat /\ qb \in Nat
      /\ w * qa <= a /\ b < w * (qb + 1)
  OBVIOUS
<1>2. w * qa < w * (qb + 1)
  BY <1>1
<1> HIDE DEF qa, qb
<1>3. ASSUME qa >= qb + 1 PROVE FALSE
  <2>1. w * qa >= w * (qb + 1)
    BY <1>1, <1>3
  <2> QED BY <1>1, <1>2, <2>1
<1>4. qa <= qb
  BY <1>1, <1>3
<1> QED BY <1>4 DEF qa, qb

LEMMA BucketMonotone ==
    ASSUME NEW s \in Nat, NEW t \in Nat, s <= t
    PROVE  /\ Hour(s) \in Nat /\ Hour(s) <= Hour(t)
           /\ Day(s) \in Nat /\ Day(s) <= Day(t)
<1>1. s \div HourLen \in Nat /\ s \div DayLen \in Nat
  BY LenAssumption
<1> QED BY <1>1, DivMonotone, LenAssumption DEF Hour, Day

\* The next bucket begins after now: the retry hint is a natural number.
LEMMA NextBucketType ==
    ASSUME NEW t \in Nat, NEW w \in Nat \ {0}
    PROVE  (t \div w + 1) * w - t \in Nat
<1> DEFINE q == t \div w
<1>1. q \in Nat /\ t < w * (q + 1)
  OBVIOUS
<1> HIDE DEF q
<1>2. (q + 1) * w - t \in Nat
  BY <1>1
<1> QED BY <1>2 DEF q

LEMMA RetryType ==
    ASSUME NEW s \in Stored, NEW u \in Nat, NEW t \in Nat
    PROVE  RetryAfter(s, u, t) \in Nat
<1>1. (t \div HourLen + 1) * HourLen - t \in Nat /\ (t \div DayLen + 1) * DayLen - t \in Nat
  BY NextBucketType, LenAssumption
<1> QED BY <1>1 DEF RetryAfter, MaxOf

LEMMA DefaultType == DefaultStored \in Stored
BY DEF DefaultStored, Stored

LEMMA OrDefaultType ==
    ASSUME NEW x \in Stored \union {NoBudget}
    PROVE  OrDefault(x) \in Stored
BY DefaultType DEF OrDefault

LEMMA SnapshotType ==
    ASSUME NEW s \in Stored, NEW t \in Nat
    PROVE  /\ Snapshot(s, t) \in Stored
           /\ Snapshot(s, t).hour = Hour(t) /\ Snapshot(s, t).day = Day(t)
           /\ Snapshot(s, t).hourly = IF s.hour = Hour(t) THEN s.hourly ELSE 0
           /\ Snapshot(s, t).daily = IF s.day = Day(t) THEN s.daily ELSE 0
<1>1. Hour(t) \in Nat /\ Day(t) \in Nat
  BY BucketMonotone
<1> QED BY <1>1 DEF Snapshot, Stored, Hour, Day

LEMMA IdleType == IdleCall \in Call /\ IdleCall.pc = "idle"
BY DefaultType DEF IdleCall, Call, PCs

LEMMA ReservingType ==
    ASSUME NEW u \in Nat
    PROVE  Reserving(u) \in Call /\ Reserving(u).pc = "get"
BY DefaultType DEF Reserving, IdleCall, Call, PCs

\* moving a call on and noting what it read, or is to write, keeps it well formed
LEMMA NotedType ==
    ASSUME NEW k \in Call, NEW pc \in PCs
    PROVE  /\ \A x \in Stored \union {NoBudget} : [k EXCEPT !.pc = pc, !.expected = x] \in Call
           /\ \A n \in Stored : [k EXCEPT !.pc = pc, !.next = n] \in Call
           /\ \A x \in Stored \union {NoBudget}, r \in Nat :
                [k EXCEPT !.pc = pc, !.expected = x, !.retry = r] \in Call
BY DEF Call

\* what Grant does to the uses counted per bucket, hourly or daily
LEMMA CounterKept ==
    ASSUME NEW B, NEW g \in [B -> Nat], NEW next \in B, NEW u \in Nat
    PROVE  /\ [g EXCEPT ![next] = @ + u] \in [B -> Nat]
           /\ [g EXCEPT ![next] = @ + u][next] = g[next] + u
           /\ \A x \in B : x # next => [g EXCEPT ![next] = @ + u][x] = g[x]
OBVIOUS

\* what Clock adds to a snapshot
LEMMA AddedType ==
    ASSUME NEW s \in Stored, NEW u \in Nat
    PROVE  LET n == [s EXCEPT !.hourly = @ + u, !.daily = @ + u]
           IN /\ n \in Stored /\ n.hour = s.hour /\ n.day = s.day
              /\ n.hourly = s.hourly + u /\ n.daily = s.daily + u
<1>1. s.hourly \in Nat /\ s.daily \in Nat /\ s.hour \in Nat /\ s.day \in Nat
  BY DEF Stored
<1>2. s.hourly + u \in Nat /\ s.daily + u \in Nat
  BY <1>1
<1> QED BY <1>1, <1>2, Zenon DEF Stored

LEMMA InitInv == Init => BudgetInv
<1> SUFFICES ASSUME Init PROVE BudgetInv
  OBVIOUS
<1>1. 0 \div HourLen = 0 /\ 0 \div DayLen = 0 /\ 0 \in 0..WallHorizon
  BY LenAssumption, WallHorizonAssumption
<1>2. 0 \in Hours /\ 0 \in Days
  BY <1>1, BucketsAssumption
<1>3. TypeOK
  BY <1>1, IdleType DEF Init, TypeOK
<1>4. CellCounts
  BY <1>1, <1>2 DEF Init, CellCounts, OrDefault, DefaultStored, Hour, Day
<1>5. CasPrepared
  BY IdleType DEF Init, CasPrepared
<1>6. BudgetHeld
  BY LimitAssumption DEF Init, BudgetHeld
<1> QED BY <1>3, <1>4, <1>5, <1>6 DEF BudgetInv

LEMMA NextInv == BudgetInv /\ [Next]_vars => BudgetInv'
<1> SUFFICES ASSUME BudgetInv, [Next]_vars PROVE BudgetInv'
  OBVIOUS
<1> USE LimitAssumption, LenAssumption, WallHorizonAssumption DEF BudgetInv, TypeOK
<1>0. /\ wall \in Nat /\ wall' \in 0..WallHorizon /\ wall' \in Nat
      /\ Hour(wall) \in Hours /\ Day(wall) \in Days
      /\ Hour(wall) \in Nat /\ Hour(wall') \in Nat /\ Hour(wall) <= Hour(wall')
      /\ Day(wall) \in Nat /\ Day(wall') \in Nat /\ Day(wall) <= Day(wall')
  <2>1. wall' = wall \/ Tick
    BY DEF Next, Step, Begin, Get, Clock, Cas, BeginRetryAfter, RetryLoad, vars
  <2>2. wall' \in 0..WallHorizon /\ wall \in Nat /\ wall' \in Nat /\ wall <= wall'
    BY <2>1 DEF Tick
  <2>3. Hour(wall) \in Hours /\ Day(wall) \in Days
    BY BucketsAssumption DEF Hour, Day
  <2> QED BY <2>2, <2>3, BucketMonotone
<1>1. CASE UNCHANGED vars
  BY <1>1 DEF vars, CellCounts, CasPrepared, BudgetHeld
<1>2. CASE Tick
  <2>1. /\ cell' = cell /\ call' = call /\ hourly' = hourly /\ daily' = daily
    BY <1>2 DEF Tick
  <2>2. TypeOK' /\ BudgetHeld'
    BY <1>0, <2>1 DEF BudgetHeld
  <2>3. CellCounts'
    <3>1. OrDefault(cell).hour \in Nat /\ OrDefault(cell).day \in Nat
      BY OrDefaultType DEF Stored
    <3> QED BY <1>0, <2>1, <3>1 DEF CellCounts
  <2>4. CasPrepared'
    <3>1. \A c \in Callers :
            /\ OrDefault(call[c].expected).hour \in Nat /\ OrDefault(call[c].expected).day \in Nat
            /\ call[c].next.hour \in Nat /\ call[c].next.day \in Nat
      BY OrDefaultType DEF Call, Stored
    <3> QED BY <1>0, <2>1, <3>1 DEF CasPrepared
  <2> QED BY <2>2, <2>3, <2>4
<1>3. ASSUME NEW c \in Callers, NEW k \in Call,
             call' = [call EXCEPT ![c] = k], k.pc \notin {"clock", "cas"},
             wall' = wall, cell' = cell, hourly' = hourly, daily' = daily
      PROVE  BudgetInv'
  <2>1. TypeOK'
    BY <1>0, <1>3
  <2>2. CellCounts' /\ BudgetHeld'
    BY <1>3 DEF CellCounts, BudgetHeld
  <2>3. CasPrepared'
    BY <1>3 DEF CasPrepared
  <2> QED BY <2>1, <2>2, <2>3
<1>4. ASSUME NEW c \in Callers, NEW u \in Uses, Begin(c, u) PROVE BudgetInv'
  <2>1. Reserving(u) \in Call /\ Reserving(u).pc \notin {"clock", "cas"}
    BY ReservingType, UsesAssumption
  <2> QED BY <1>3, <1>4, <2>1 DEF Begin
<1>5. ASSUME NEW c \in Callers, NEW u \in Uses, BeginRetryAfter(c, u) PROVE BudgetInv'
  <2> DEFINE k == [IdleCall EXCEPT !.pc = "r_load", !.uses = u, !.seen = wall]
  <2>1. k \in Call /\ k.pc \notin {"clock", "cas"}
    BY <1>0, IdleType, UsesAssumption DEF IdleCall, Call, PCs
  <2>2. /\ call' = [call EXCEPT ![c] = k]
        /\ wall' = wall /\ cell' = cell /\ hourly' = hourly /\ daily' = daily
    BY <1>5 DEF BeginRetryAfter
  <2> HIDE DEF k
  <2> QED BY <1>3, <2>1, <2>2
<1>6. ASSUME NEW c \in Callers, RetryLoad(c) PROVE BudgetInv'
  <2> DEFINE s == Snapshot(OrDefault(cell), call[c].seen)
             r == RetryAfter(s, call[c].uses, call[c].seen)
             k == [call[c] EXCEPT !.pc = "answered", !.expected = cell, !.retry = r]
  <2>1. r \in Nat
    BY OrDefaultType, SnapshotType, RetryType DEF Call
  <2> HIDE DEF r
  <2>2. k \in Call
    BY <2>1, NotedType DEF PCs
  <2>3. k.pc = "answered"
    BY DEF Call
  <2>4. /\ call' = [call EXCEPT ![c] = k]
        /\ wall' = wall /\ cell' = cell /\ hourly' = hourly /\ daily' = daily
    BY <1>6 DEF RetryLoad, r
  <2> HIDE DEF k
  <2> QED BY <1>3, <2>2, <2>3, <2>4
<1>7. ASSUME NEW c \in Callers, Get(c) PROVE BudgetInv'
  <2> DEFINE k == [call[c] EXCEPT !.pc = "clock", !.expected = cell]
             s == OrDefault(cell)
  <2>1. /\ call' = [call EXCEPT ![c] = k]
        /\ wall' = wall /\ cell' = cell /\ hourly' = hourly /\ daily' = daily
    BY <1>7 DEF Get
  <2>2. k \in Call
    BY NotedType DEF PCs
  <2>3. k.pc = "clock" /\ k.expected = cell
    BY DEF Call
  <2>4. /\ s.hour <= Hour(wall) /\ s.hourly <= HourlyLimit
        /\ s.day <= Day(wall) /\ s.daily <= DailyLimit
    BY DEF CellCounts, BudgetHeld
  <2> HIDE DEF k
  <2>5. TypeOK' /\ CellCounts' /\ BudgetHeld'
    BY <1>0, <2>1, <2>2 DEF CellCounts, BudgetHeld
  <2>6. CasPrepared'
    BY <2>1, <2>3, <2>4 DEF CasPrepared
  <2> QED BY <2>5, <2>6
<1>8. ASSUME NEW c \in Callers, Clock(c) PROVE BudgetInv'
  <2> DEFINE s0 == OrDefault(call[c].expected)
             s  == Snapshot(s0, wall)
             n  == [s EXCEPT !.hourly = @ + call[c].uses, !.daily = @ + call[c].uses]
             k  == [call[c] EXCEPT !.pc = "cas", !.next = n]
  <2>0. /\ call[c].pc = "clock" /\ call[c].uses \in Nat
        /\ wall' = wall /\ cell' = cell /\ hourly' = hourly /\ daily' = daily
    BY <1>8 DEF Clock, Call
  <2>1. s0 \in Stored
    BY OrDefaultType DEF Call
  <2>2. /\ s \in Stored /\ s.hour = Hour(wall) /\ s.day = Day(wall)
        /\ s.hourly = IF s0.hour = Hour(wall) THEN s0.hourly ELSE 0
        /\ s.daily = IF s0.day = Day(wall) THEN s0.daily ELSE 0
    BY <1>0, <2>1, SnapshotType
  <2>3. CASE call' = [call EXCEPT ![c] = [IdleCall EXCEPT !.pc = "exhausted"]]
    <3>1. /\ [IdleCall EXCEPT !.pc = "exhausted"] \in Call
          /\ [IdleCall EXCEPT !.pc = "exhausted"].pc = "exhausted"
      BY DefaultType DEF IdleCall, Call, PCs
    <3> QED BY <1>3, <2>0, <2>3, <3>1
  <2>4. CASE Admits(s, call[c].uses) /\ call' = [call EXCEPT ![c] = k]
    <3>1. /\ s0.hour <= Hour(wall) /\ s0.hourly <= HourlyLimit
          /\ s0.day <= Day(wall) /\ s0.daily <= DailyLimit
      BY <2>0 DEF CasPrepared
    <3> HIDE DEF s0, s
    <3>2. s.hourly \in Nat /\ s.daily \in Nat
      BY <2>2 DEF Stored
    <3>3. /\ n \in Stored
          /\ n.hour = Hour(wall) /\ n.day = Day(wall)
          /\ n.hourly = s.hourly + call[c].uses /\ n.daily = s.daily + call[c].uses
      BY <2>0, <2>2, AddedType
    <3>4. n.hourly <= HourlyLimit /\ n.daily <= DailyLimit
      BY <2>0, <2>4, <3>2, <3>3 DEF Admits, SatSub
    <3> HIDE DEF n
    <3>5. k \in Call
      BY <3>3, NotedType DEF PCs
    <3>6. k.pc = "cas" /\ k.next = n /\ k.expected = call[c].expected /\ k.uses = call[c].uses
      BY DEF Call
    <3> HIDE DEF k
    <3>7. TypeOK' /\ CellCounts' /\ BudgetHeld'
      BY <1>0, <2>0, <2>4, <3>5 DEF CellCounts, BudgetHeld
    <3>8. CasPrepared'
      <4>1. ASSUME NEW e \in Callers, e # c PROVE call'[e] = call[e]
        BY <2>4, <4>1
      <4>2. call'[c] = k
        BY <2>4
      <4>3. /\ n.hour \in Hours /\ s0.hour <= n.hour /\ n.hour <= Hour(wall)
            /\ n.hourly = (IF s0.hour = n.hour THEN s0.hourly ELSE 0) + k.uses
            /\ n.day \in Days /\ s0.day <= n.day /\ n.day <= Day(wall)
            /\ n.daily = (IF s0.day = n.day THEN s0.daily ELSE 0) + k.uses
        BY <1>0, <2>2, <3>1, <3>3, <3>6 DEF Hour, Day
      <4>4. s0 = OrDefault(k.expected)
        BY <3>6 DEF s0
      <4> QED BY <2>0, <3>1, <3>4, <3>6, <4>1, <4>2, <4>3, <4>4 DEF CasPrepared
    <3> QED BY <3>7, <3>8
  <2> QED BY <1>8, <2>3, <2>4 DEF Clock
<1>9. ASSUME NEW c \in Callers, Cas(c) PROVE BudgetInv'
  <2> DEFINE n == call[c].next
             u == call[c].uses
             k == [IdleCall EXCEPT !.pc = "ok"]
             s == OrDefault(cell)
  <2>0. call[c].pc = "cas" /\ wall' = wall /\ u \in Nat /\ n \in Stored
    BY <1>9 DEF Cas, Call
  <2>1. CASE cell # call[c].expected
    <3>1. /\ call' = [call EXCEPT ![c] = Reserving(u)]
          /\ cell' = cell /\ hourly' = hourly /\ daily' = daily
      BY <1>9, <2>1 DEF Cas
    <3>2. Reserving(u) \in Call /\ Reserving(u).pc \notin {"clock", "cas"}
      BY <2>0, ReservingType
    <3> QED BY <1>3, <2>0, <3>1, <3>2
  <2>2. CASE cell = call[c].expected
    <3>1. /\ cell' = n /\ call' = [call EXCEPT ![c] = k]
          /\ hourly' = [hourly EXCEPT ![n.hour] = @ + u]
          /\ daily' = [daily EXCEPT ![n.day] = @ + u]
      BY <1>9, <2>2 DEF Cas, Grant
    <3>2. /\ n.hour \in Hours /\ s.hour <= n.hour /\ n.hour <= Hour(wall)
          /\ n.hourly = (IF s.hour = n.hour THEN s.hourly ELSE 0) + u
          /\ n.hourly <= HourlyLimit
          /\ n.day \in Days /\ s.day <= n.day /\ n.day <= Day(wall)
          /\ n.daily = (IF s.day = n.day THEN s.daily ELSE 0) + u
          /\ n.daily <= DailyLimit
      BY <2>0, <2>2 DEF CasPrepared
    <3>3. s \in Stored
      BY OrDefaultType
    <3>4. k \in Call /\ k.pc = "ok"
      BY DefaultType DEF IdleCall, Call, PCs
    <3>5. OrDefault(cell') = n
      BY <2>0, <3>1, NoBudgetAssumption DEF OrDefault
    <3> HIDE DEF n, u, k, s
    <3>6. /\ s.hour \in Hours /\ hourly[s.hour] = s.hourly /\ s.hourly \in Nat
          /\ \A h \in Hours : h > s.hour => hourly[h] = 0
          /\ s.day \in Days /\ daily[s.day] = s.daily /\ s.daily \in Nat
          /\ \A d \in Days : d > s.day => daily[d] = 0
      BY <3>3 DEF CellCounts, Stored, s
    <3>7. /\ hourly' \in [Hours -> Nat] /\ hourly'[n.hour] = n.hourly
          /\ \A h \in Hours : h > n.hour => hourly'[h] = 0
          /\ \A h \in Hours : h # n.hour => hourly'[h] = hourly[h]
      <4>1. /\ hourly[n.hour] = IF s.hour = n.hour THEN s.hourly ELSE 0
            /\ \A x \in Hours : x > n.hour => hourly[x] = 0 /\ x # n.hour
        <5>1. Hours \subseteq Nat
          BY BucketsAssumption
        <5>2. s.hour \in Nat /\ n.hour \in Nat
          BY <3>2, <3>6, <5>1
        <5>3. CASE s.hour = n.hour
          BY <3>6, <5>1, <5>2, <5>3
        <5>4. CASE s.hour # n.hour
          <6>1. n.hour > s.hour /\ hourly[n.hour] = 0
            BY <3>2, <3>6, <5>2, <5>4
          <6> QED BY <3>6, <5>1, <5>2, <5>4, <6>1
        <5> QED BY <5>3, <5>4
      <4>2. /\ hourly' \in [Hours -> Nat] /\ hourly'[n.hour] = hourly[n.hour] + u
            /\ \A x \in Hours : x # n.hour => hourly'[x] = hourly[x]
        BY <2>0, <3>1, <3>2, CounterKept
      <4> QED BY <3>2, <4>1, <4>2
    <3>8. /\ daily' \in [Days -> Nat] /\ daily'[n.day] = n.daily
          /\ \A d \in Days : d > n.day => daily'[d] = 0
          /\ \A d \in Days : d # n.day => daily'[d] = daily[d]
      <4>1. /\ daily[n.day] = IF s.day = n.day THEN s.daily ELSE 0
            /\ \A x \in Days : x > n.day => daily[x] = 0 /\ x # n.day
        <5>1. Days \subseteq Nat
          BY BucketsAssumption
        <5>2. s.day \in Nat /\ n.day \in Nat
          BY <3>2, <3>6, <5>1
        <5>3. CASE s.day = n.day
          BY <3>6, <5>1, <5>2, <5>3
        <5>4. CASE s.day # n.day
          <6>1. n.day > s.day /\ daily[n.day] = 0
            BY <3>2, <3>6, <5>2, <5>4
          <6> QED BY <3>6, <5>1, <5>2, <5>4, <6>1
        <5> QED BY <5>3, <5>4
      <4>2. /\ daily' \in [Days -> Nat] /\ daily'[n.day] = daily[n.day] + u
            /\ \A x \in Days : x # n.day => daily'[x] = daily[x]
        BY <2>0, <3>1, <3>2, CounterKept
      <4> QED BY <3>2, <4>1, <4>2
    <3>9. TypeOK'
      BY <1>0, <2>0, <3>1, <3>4, <3>7, <3>8
    <3>10. CellCounts'
      BY <2>0, <3>2, <3>5, <3>7, <3>8 DEF CellCounts
    <3>11. CasPrepared'
      BY <2>0, <3>1, <3>4 DEF CasPrepared
    <3>12. BudgetHeld'
      BY <3>2, <3>7, <3>8 DEF BudgetHeld
    <3> QED BY <3>9, <3>10, <3>11, <3>12
  <2> QED BY <2>1, <2>2
<1> QED BY <1>1, <1>2, <1>4, <1>5, <1>6, <1>7, <1>8, <1>9 DEF Next, Step

\* Every reachable state is well typed (reserve_hit_budget_uses and
\* hit_budget_retry_after_seconds).
THEOREM TypeCorrect == Spec => []TypeOK
<1>1. BudgetInv => TypeOK
  BY DEF BudgetInv
<1> QED BY <1>1, InitInv, NextInv, PTL DEF Spec

\* reserve_hit_budget_uses never admits more than the hourly or the daily limit.
THEOREM BudgetIsHeld == Spec => []BudgetHeld
<1>1. BudgetInv => BudgetHeld
  BY DEF BudgetInv
<1> QED BY <1>1, InitInv, NextInv, PTL DEF Spec

-----------------------------------------------------------------------------
(***************************************************************************)
(* The retry hint.  A day is a whole number of hours, so the hour of a     *)
(* count determines its day; that is what lets one clock reading and a     *)
(* later read of the state be combined.                                    *)
(***************************************************************************)
PerDay == DayLen \div HourLen
Dated(s) == s.day = s.hour \div PerDay

LEMMA DivUnique ==
    ASSUME NEW a \in Nat, NEW k \in Nat, NEW w \in Nat, w >= 1,
           w * k <= a, a < w * (k + 1)
    PROVE  a \div w = k
<1> DEFINE q == a \div w
<1>1. q \in Nat /\ w * q <= a /\ a < w * (q + 1)
  OBVIOUS
<1> HIDE DEF q
<1>2. ~(q >= k + 1)
  <2> SUFFICES ASSUME q >= k + 1 PROVE FALSE
    OBVIOUS
  <2>1. w * q >= w * (k + 1)
    BY <1>1
  <2> QED BY <1>1, <2>1
<1>3. ~(k >= q + 1)
  <2> SUFFICES ASSUME k >= q + 1 PROVE FALSE
    OBVIOUS
  <2>1. w * k >= w * (q + 1)
    BY <1>1
  <2> QED BY <1>1, <2>1
<1>4. q = k
  BY <1>1, <1>2, <1>3
<1> QED BY <1>4 DEF q

LEMMA DivAtLeast ==
    ASSUME NEW a \in Nat, NEW k \in Nat, NEW w \in Nat, w >= 1, a >= w * k
    PROVE  a \div w \in Nat /\ a \div w >= k
<1> DEFINE q == a \div w
<1>1. q \in Nat /\ a < w * (q + 1)
  OBVIOUS
<1> HIDE DEF q
<1>2. ~(k >= q + 1)
  <2> SUFFICES ASSUME k >= q + 1 PROVE FALSE
    OBVIOUS
  <2>1. w * k >= w * (q + 1)
    BY <1>1
  <2> QED BY <1>1, <2>1
<1>3. q >= k
  BY <1>1, <1>2
<1> QED BY <1>1, <1>3 DEF q

LEMMA DayOfHours == PerDay \in Nat \ {0} /\ DayLen = HourLen * PerDay
<1>1. /\ PerDay \in Nat /\ DayLen = HourLen * PerDay + (DayLen % HourLen)
  BY LenAssumption DEF PerDay
<1>2. DayLen = HourLen * PerDay
  BY <1>1, LenAssumption
<1>3. PerDay # 0
  <2> SUFFICES ASSUME PerDay = 0 PROVE FALSE
    OBVIOUS
  <2>1. HourLen * PerDay = 0
    BY LenAssumption
  <2> QED BY <1>2, <2>1, LenAssumption
<1> QED BY <1>1, <1>2, <1>3

LEMMA HoursMakeDays ==
    ASSUME NEW t \in Nat
    PROVE  Day(t) = Hour(t) \div PerDay
<1> DEFINE h == Hour(t)
           d == h \div PerDay
<1>1. h \in Nat /\ HourLen * h <= t /\ t < HourLen * (h + 1)
  BY LenAssumption DEF Hour
<1> HIDE DEF h
<1>2. d \in Nat /\ PerDay * d <= h /\ h < PerDay * (d + 1)
  BY <1>1, DayOfHours
<1> HIDE DEF d
<1>3. DayLen * d <= t
  <2> DEFINE x == PerDay * d
  <2>1. x \in Nat /\ DayLen * d = HourLen * x
    BY <1>2, DayOfHours, LenAssumption
  <2>2. x <= h
    BY <1>2
  <2> HIDE DEF x
  <2>3. HourLen * x <= HourLen * h
    BY <1>1, <2>1, <2>2, LenAssumption
  <2> QED BY <1>1, <2>1, <2>3, LenAssumption
<1>4. t < DayLen * (d + 1)
  <2> DEFINE x == PerDay * (d + 1)
  <2>1. x \in Nat /\ DayLen * (d + 1) = HourLen * x
    BY <1>2, DayOfHours, LenAssumption
  <2>2. h + 1 <= x
    BY <1>1, <1>2, <2>1
  <2> HIDE DEF x
  <2>3. HourLen * (h + 1) <= HourLen * x
    BY <1>1, <2>1, <2>2, LenAssumption
  <2> QED BY <1>1, <2>1, <2>3, LenAssumption
<1>5. t \div DayLen = d
  BY <1>2, <1>3, <1>4, LenAssumption, DivUnique
<1> QED BY <1>5 DEF Day, d, h

\* Once the hint is over, a request that both limits could ever admit is
\* admitted on the count that was read.
LEMMA HintSuffices ==
    ASSUME NEW e \in Stored, Dated(e), NEW t \in Nat, NEW u \in 1..MinOf(HourlyLimit, DailyLimit),
           NEW r, r = RetryAfter(Snapshot(e, t), u, t)
    PROVE  Admits(Snapshot(e, t + r), u)
<1> DEFINE s == Snapshot(e, t)
           hourFull == u > SatSub(HourlyLimit, s.hourly)
           dayFull == u > SatSub(DailyLimit, s.daily)
           toHour == (t \div HourLen + 1) * HourLen - t
           toDay == (t \div DayLen + 1) * DayLen - t
<1>1. /\ s \in Stored /\ s.hourly = (IF e.hour = Hour(t) THEN e.hourly ELSE 0)
      /\ s.daily = (IF e.day = Day(t) THEN e.daily ELSE 0)
      /\ e.hourly \in Nat /\ e.daily \in Nat /\ e.hour \in Nat /\ e.day \in Nat
      /\ Hour(t) \in Nat /\ Day(t) \in Nat
  <2>1. e.hourly \in Nat /\ e.daily \in Nat /\ e.hour \in Nat /\ e.day \in Nat
    BY DEF Stored
  <2>2. Hour(t) \in Nat /\ Day(t) \in Nat
    BY BucketMonotone
  <2> QED BY <2>1, <2>2, SnapshotType
<1>2. u \in Nat /\ u >= 1 /\ u <= HourlyLimit /\ u <= DailyLimit
  BY LimitAssumption DEF MinOf
<1>3. toHour \in Nat /\ toDay \in Nat
  BY NextBucketType, LenAssumption
<1>4. r = MaxOf(IF hourFull THEN toHour ELSE 0, IF dayFull THEN toDay ELSE 0)
  BY DEF RetryAfter
<1> HIDE DEF s, toHour, toDay
<1>5. /\ r \in Nat /\ t + r \in Nat
      /\ hourFull => r >= toHour
      /\ dayFull => r >= toDay
      /\ ~hourFull /\ ~dayFull => r = 0
  BY <1>3, <1>4 DEF MaxOf
<1>6. /\ Snapshot(e, t + r).hourly = IF e.hour = Hour(t + r) THEN e.hourly ELSE 0
      /\ Snapshot(e, t + r).daily = IF e.day = Day(t + r) THEN e.daily ELSE 0
  BY <1>5, SnapshotType
<1>7. hourFull => e.hour = Hour(t) /\ e.day = Day(t) /\ e.hour # Hour(t + r)
  <2> SUFFICES ASSUME hourFull PROVE e.hour = Hour(t) /\ e.day = Day(t) /\ e.hour # Hour(t + r)
    OBVIOUS
  <2>1. e.hour = Hour(t)
    BY <1>1, <1>2, LimitAssumption DEF SatSub
  <2>2. e.day = Day(t)
    BY <2>1, HoursMakeDays DEF Dated
  <2>3. t + r >= HourLen * (Hour(t) + 1)
    BY <1>1, <1>3, <1>5, LenAssumption DEF toHour, Hour
  <2>4. Hour(t + r) \in Nat /\ Hour(t + r) >= Hour(t) + 1
    <3>1. (t + r) \div HourLen \in Nat /\ (t + r) \div HourLen >= Hour(t) + 1
      BY <1>1, <1>5, <2>3, LenAssumption, DivAtLeast
    <3> QED BY <3>1 DEF Hour
  <2> QED BY <1>1, <2>1, <2>2, <2>4
<1>8. dayFull => e.day # Day(t + r) /\ e.hour # Hour(t + r)
  <2> SUFFICES ASSUME dayFull PROVE e.day # Day(t + r) /\ e.hour # Hour(t + r)
    OBVIOUS
  <2>1. e.day = Day(t)
    BY <1>1, <1>2, LimitAssumption DEF SatSub
  <2>2. t + r >= DayLen * (Day(t) + 1)
    BY <1>1, <1>3, <1>5, LenAssumption DEF toDay, Day
  <2>3. Day(t + r) \in Nat /\ Day(t + r) >= Day(t) + 1
    <3>1. (t + r) \div DayLen \in Nat /\ (t + r) \div DayLen >= Day(t) + 1
      BY <1>1, <1>5, <2>2, LenAssumption, DivAtLeast
    <3> QED BY <3>1 DEF Day
  <2>4. e.day # Day(t + r)
    BY <1>1, <2>1, <2>3
  <2> QED BY <1>5, <2>4, HoursMakeDays DEF Dated
<1>9. ~hourFull /\ ~dayFull => t + r = t
  BY <1>5
<1>10. /\ Snapshot(e, t + r).hourly = s.hourly \/ Snapshot(e, t + r).hourly = 0
       /\ Snapshot(e, t + r).daily = s.daily \/ Snapshot(e, t + r).daily = 0
       /\ hourFull => Snapshot(e, t + r).hourly = 0
       /\ dayFull => Snapshot(e, t + r).daily = 0
  <2>1. CASE ~hourFull /\ ~dayFull
    BY <1>9, <2>1 DEF s
  <2>2. CASE hourFull
    BY <1>1, <1>6, <1>7, <1>8, <2>2
  <2>3. CASE dayFull
    BY <1>1, <1>6, <1>8, <2>3
  <2> QED BY <2>1, <2>2, <2>3
<1>11. s.hourly \in Nat /\ s.daily \in Nat
  BY <1>1
<1>12. \A limit \in Nat, x \in Nat : u <= SatSub(limit, x) => x < limit
  BY <1>2 DEF SatSub
<1>13. /\ u <= SatSub(HourlyLimit, Snapshot(e, t + r).hourly)
       /\ u <= SatSub(DailyLimit, Snapshot(e, t + r).daily)
       /\ Snapshot(e, t + r).hourly \in Nat /\ Snapshot(e, t + r).daily \in Nat
  <2>1. u <= SatSub(HourlyLimit, 0) /\ u <= SatSub(DailyLimit, 0)
    BY <1>2, LimitAssumption DEF SatSub
  <2>2. SatSub(HourlyLimit, s.hourly) \in Nat /\ SatSub(DailyLimit, s.daily) \in Nat
    BY <1>11, LimitAssumption DEF SatSub
  <2> QED BY <1>2, <1>10, <1>11, <2>1, <2>2
<1> QED BY <1>12, <1>13, LimitAssumption DEF Admits

\* What was stored was stored at one instant; an answer is the hint for the
\* count it was read from.
HintInv ==
    /\ Dated(OrDefault(cell))
    /\ \A c \in Callers :
         /\ call[c].pc = "cas" => Dated(call[c].next)
         /\ call[c].pc = "answered" =>
              LET e == OrDefault(call[c].expected)
              IN /\ Dated(e)
                 /\ call[c].retry =
                      RetryAfter(Snapshot(e, call[c].seen), call[c].uses, call[c].seen)

LEMMA SnapshotDated ==
    ASSUME NEW s \in Stored, NEW t \in Nat
    PROVE  Dated(Snapshot(s, t))
BY SnapshotType, HoursMakeDays DEF Dated

LEMMA DefaultDated == Dated(DefaultStored)
<1>1. 0 \div PerDay = 0
  BY DayOfHours
<1> QED BY <1>1 DEF Dated, DefaultStored

LEMMA HintInit == Init => HintInv
BY DefaultDated, IdleType DEF Init, HintInv, OrDefault

LEMMA HintNext == TypeOK /\ HintInv /\ [Next]_vars => HintInv'
<1> SUFFICES ASSUME TypeOK, HintInv, [Next]_vars PROVE HintInv'
  OBVIOUS
<1> USE WallHorizonAssumption DEF TypeOK
<1>1. CASE call' = call /\ cell' = cell
  BY <1>1 DEF HintInv
<1>2. ASSUME NEW c \in Callers, NEW k \in Call, call' = [call EXCEPT ![c] = k],
             k.pc \notin {"cas", "answered"}, cell' = cell
      PROVE  HintInv'
  BY <1>2 DEF HintInv
<1>3. ASSUME NEW c \in Callers, NEW u \in Uses, Begin(c, u) PROVE HintInv'
  BY <1>2, <1>3, ReservingType, UsesAssumption DEF Begin
<1>4. ASSUME NEW c \in Callers, NEW u \in Uses, BeginRetryAfter(c, u) PROVE HintInv'
  <2> DEFINE k == [IdleCall EXCEPT !.pc = "r_load", !.uses = u, !.seen = wall]
  <2>1. k \in Call /\ k.pc \notin {"cas", "answered"}
    <3>1. u \in Nat /\ wall \in Nat
      BY UsesAssumption
    <3> QED BY <3>1, IdleType DEF IdleCall, Call, PCs
  <2>2. call' = [call EXCEPT ![c] = k] /\ cell' = cell
    BY <1>4 DEF BeginRetryAfter
  <2> HIDE DEF k
  <2> QED BY <1>2, <2>1, <2>2
<1>5. ASSUME NEW c \in Callers, RetryLoad(c) PROVE HintInv'
  <2> DEFINE r == RetryAfter(Snapshot(OrDefault(cell), call[c].seen), call[c].uses, call[c].seen)
             k == [call[c] EXCEPT !.pc = "answered", !.expected = cell, !.retry = r]
  <2>1. call' = [call EXCEPT ![c] = k] /\ cell' = cell
    BY <1>5 DEF RetryLoad
  <2> HIDE DEF r
  <2>2. /\ k.pc = "answered" /\ k.expected = cell /\ k.retry = r
        /\ k.seen = call[c].seen /\ k.uses = call[c].uses
    BY DEF Call
  <2> HIDE DEF k
  <2>3. call'[c] = k /\ \A e \in Callers \ {c} : call'[e] = call[e]
    BY <2>1
  <2> QED BY <2>1, <2>2, <2>3 DEF HintInv, r
<1>6. ASSUME NEW c \in Callers, Get(c) PROVE HintInv'
  <2> DEFINE k == [call[c] EXCEPT !.pc = "clock", !.expected = cell]
  <2>1. call' = [call EXCEPT ![c] = k] /\ cell' = cell
    BY <1>6 DEF Get
  <2>2. k \in Call /\ k.pc = "clock"
    <3>1. k \in Call
      BY NotedType DEF PCs
    <3>2. k.pc = "clock"
      BY DEF Call
    <3> QED BY <3>1, <3>2
  <2> HIDE DEF k
  <2> QED BY <1>2, <2>1, <2>2
<1>7. ASSUME NEW c \in Callers, Clock(c) PROVE HintInv'
  <2> DEFINE s == Snapshot(OrDefault(call[c].expected), wall)
             n == [s EXCEPT !.hourly = @ + call[c].uses, !.daily = @ + call[c].uses]
             k == [call[c] EXCEPT !.pc = "cas", !.next = n]
  <2>1. CASE call' = [call EXCEPT ![c] = [IdleCall EXCEPT !.pc = "exhausted"]]
    <3>1. /\ [IdleCall EXCEPT !.pc = "exhausted"] \in Call
          /\ [IdleCall EXCEPT !.pc = "exhausted"].pc = "exhausted"
      BY DefaultType DEF IdleCall, Call, PCs
    <3>2. cell' = cell
      BY <1>7 DEF Clock
    <3> QED BY <1>2, <2>1, <3>1, <3>2
  <2>2. CASE call' = [call EXCEPT ![c] = k]
    <3>1. s \in Stored /\ Dated(s) /\ call[c].uses \in Nat /\ cell' = cell
      <4>1. OrDefault(call[c].expected) \in Stored /\ call[c].uses \in Nat
        BY OrDefaultType DEF Call
      <4>2. cell' = cell
        BY <1>7 DEF Clock
      <4> QED BY <4>1, <4>2, SnapshotType, SnapshotDated
    <3> HIDE DEF s
    <3>2. n.hour = s.hour /\ n.day = s.day
      BY <3>1, AddedType
    <3> HIDE DEF n
    <3>3. k.pc = "cas" /\ k.next = n
      BY DEF Call
    <3> HIDE DEF k
    <3>4. call'[c] = k /\ \A e \in Callers \ {c} : call'[e] = call[e]
      BY <2>2
    <3> QED BY <3>1, <3>2, <3>3, <3>4 DEF HintInv, Dated
  <2> QED BY <1>7, <2>1, <2>2 DEF Clock
<1>8. ASSUME NEW c \in Callers, Cas(c) PROVE HintInv'
  <2>1. CASE cell # call[c].expected
    <3>1. call' = [call EXCEPT ![c] = Reserving(call[c].uses)] /\ cell' = cell
      BY <1>8, <2>1 DEF Cas
    <3>2. call[c].uses \in Nat
      BY DEF Call
    <3> QED BY <1>2, <3>1, <3>2, ReservingType
  <2>2. CASE cell = call[c].expected
    <3> DEFINE k == [IdleCall EXCEPT !.pc = "ok"]
    <3>1. /\ cell' = call[c].next /\ call' = [call EXCEPT ![c] = k]
          /\ call[c].next \in Stored /\ Dated(call[c].next)
      BY <1>8, <2>2 DEF Cas, HintInv, Call
    <3>2. k.pc = "ok"
      BY DEF IdleCall
    <3> HIDE DEF k
    <3>3. OrDefault(cell') = call[c].next
      BY <3>1, NoBudgetAssumption DEF OrDefault
    <3> QED BY <3>1, <3>2, <3>3 DEF HintInv
  <2> QED BY <2>1, <2>2
<1> QED
  BY <1>1, <1>3, <1>4, <1>5, <1>6, <1>7, <1>8 DEF Next, Step, Tick, vars

\* hit_budget_retry_after_seconds is honest for every pair of limits and every
\* amount, although it reads the clock before the state and the count may
\* already be of a later hour.
THEOREM RetrySuffices == Spec => []RetryAfterSuffices
<1>1. TypeOK /\ HintInv => RetryAfterSuffices
  <2> SUFFICES ASSUME TypeOK, HintInv, NEW c \in Callers, call[c].pc = "answered",
                      call[c].uses \in 1..MinOf(HourlyLimit, DailyLimit)
               PROVE  Admits(Snapshot(OrDefault(call[c].expected), call[c].seen + call[c].retry),
                             call[c].uses)
    BY DEF RetryAfterSuffices
  <2>1. call[c].seen \in Nat /\ OrDefault(call[c].expected) \in Stored
    BY OrDefaultType DEF TypeOK, Call
  <2> QED BY <2>1, HintSuffices DEF HintInv
<1> QED BY <1>1, HintInit, HintNext, TypeCorrect, PTL DEF Spec
=============================================================================
