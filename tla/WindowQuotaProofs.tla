-------------------------- MODULE WindowQuotaProofs --------------------------
(***************************************************************************)
(* No window admits more than its limit, for any callers, limit, window    *)
(* length and amounts, as long as the wall clock does not step back.       *)
(***************************************************************************)
EXTENDS WindowQuota, TLAPS

LEMMA WindowPositive == Window \in Nat /\ Window >= 1
BY QuotaAssumption DEF Window, MaxOf

\* Later instants are in later windows.
LEMMA DivMonotone ==
    ASSUME NEW a \in Nat, NEW b \in Nat, NEW w \in Nat, w >= 1, a <= b
    PROVE  a \div w <= b \div w
<1> DEFINE qa == a \div w
           qb == b \div w
<1>1. /\ qa \in Nat /\ qb \in Nat
      /\ w * qa <= a /\ b < w * (qb + 1)
  OBVIOUS
<1>2. w * qa < w * (qb + 1)
  BY <1>1
<1> HIDE DEF qa, qb
<1>3. ASSUME qa >= qb + 1 PROVE FALSE
  <2>1. w * qa >= w * (qb + 1)
    BY <1>1, <1>3
  <2> QED BY <1>1, <1>2, <2>1
<1>4. qa <= qb
  BY <1>1, <1>3
<1> QED BY <1>4 DEF qa, qb

LEMMA BucketMonotone ==
    ASSUME NEW s \in Nat, NEW t \in Nat, s <= t
    PROVE  Bucket(s) \in Nat /\ Bucket(s) <= Bucket(t)
<1>1. s \div Window \in Nat
  BY WindowPositive
<1>2. s \div Window <= t \div Window
  BY WindowPositive, DivMonotone
<1> QED BY <1>1, <1>2 DEF Bucket

LEMMA UsedType ==
    ASSUME NEW x \in Quota \union {NoQuota}, NEW b \in Nat
    PROVE  Used(x, b) \in Nat
BY DEF Used, Quota

LEMMA RetryType ==
    ASSUME NEW t \in Nat
    PROVE  RetryAfter(t) \in Nat
<1>1. t % Window \in Nat
  BY WindowPositive
<1> QED BY <1>1, WindowPositive DEF RetryAfter, MaxOf, SatSub

LEMMA IdleType == IdleCall \in Call /\ IdleCall.pc = "idle"
BY DEF IdleCall, Call, PCs

LEMMA ReservingType ==
    ASSUME NEW u \in Nat
    PROVE  Reserving(u) \in Call /\ Reserving(u).pc = "get"
BY DEF Reserving, IdleCall, Call, PCs

\* moving a call on and noting what it read, or is to write, keeps it well formed
LEMMA NotedType ==
    ASSUME NEW k \in Call, NEW pc \in PCs, NEW q \in Quota \union {NoQuota}
    PROVE  /\ [k EXCEPT !.pc = pc, !.expected = q] \in Call
           /\ [k EXCEPT !.pc = pc, !.next = q] \in Call
BY DEF Call

LEMMA InitInv == Init => QuotaInv
BY IdleType, QuotaAssumption, WallHorizonAssumption
   DEF Init, QuotaInv, TypeOK, CellCounts, CasPrepared, QuotaHeld

LEMMA NextInv == QuotaInv /\ [Next]_vars => QuotaInv'
<1> SUFFICES ASSUME QuotaInv, [Next]_vars PROVE QuotaInv'
  OBVIOUS
<1> USE QuotaAssumption, WallHorizonAssumption DEF QuotaInv, TypeOK
<1>0. /\ wall \in Nat /\ wall' \in 0..WallHorizon
      /\ Bucket(wall) \in Buckets /\ Bucket(wall) \in Nat
      /\ Bucket(wall') \in Nat /\ Bucket(wall) <= Bucket(wall')
  <2>1. wall' = wall \/ Tick
    BY DEF Next, Step, Begin, Get, Clock, Cas, vars
  <2>2. wall' \in 0..WallHorizon /\ wall \in Nat /\ wall' \in Nat /\ wall <= wall'
    BY <2>1 DEF Tick
  <2> QED BY <2>2, BucketMonotone, BucketsAssumption
<1>1. CASE UNCHANGED vars
  BY <1>1 DEF vars, CellCounts, CasPrepared, QuotaHeld, Bucket
<1>2. CASE Tick
  <2>1. TypeOK' /\ QuotaHeld'
    BY <1>0, <1>2 DEF Tick, QuotaHeld
  <2>2. CellCounts'
    <3>1. cell # NoQuota => cell.bucket \in Nat
      BY DEF Quota
    <3> QED BY <1>0, <1>2, <3>1 DEF Tick, CellCounts
  <2>3. CasPrepared'
    <3>1. \A c \in Callers :
            /\ call[c].expected # NoQuota => call[c].expected.bucket \in Nat
            /\ call[c].next # NoQuota => call[c].next.bucket \in Nat
      BY DEF Call, Quota
    <3> QED BY <1>0, <1>2, <3>1 DEF Tick, CasPrepared
  <2> QED BY <2>1, <2>2, <2>3
<1>3. ASSUME NEW c \in Callers, NEW u \in Uses, Begin(c, u) PROVE QuotaInv'
  BY <1>3, ReservingType, UsesAssumption
     DEF Begin, CellCounts, CasPrepared, QuotaHeld, Bucket
<1>4. ASSUME NEW c \in Callers, Get(c) PROVE QuotaInv'
  <2>1. TypeOK' /\ QuotaHeld' /\ CellCounts'
    <3>1. call' = [call EXCEPT ![c] = [call[c] EXCEPT !.pc = "clock", !.expected = cell]]
      BY <1>4 DEF Get
    <3>2. [call[c] EXCEPT !.pc = "clock", !.expected = cell] \in Call
      BY NotedType DEF PCs
    <3> QED BY <1>4, <3>1, <3>2 DEF Get, QuotaHeld, CellCounts, Bucket
  <2>2. CasPrepared'
    <3>1. cell # NoQuota => cell.bucket <= Bucket(wall)
      BY DEF CellCounts
    <3>2. cell # NoQuota => cell.used <= Limit
      BY DEF CellCounts, QuotaHeld
    <3> QED BY <1>4, <3>1, <3>2 DEF Get, CasPrepared, Bucket
  <2> QED BY <2>1, <2>2
<1>5. ASSUME NEW c \in Callers, Clock(c) PROVE QuotaInv'
  <2> DEFINE used == Used(call[c].expected, Bucket(wall))
  <2>0. /\ used \in Nat /\ call[c].uses \in Nat
        /\ call[c].pc = "clock" /\ wall' = wall /\ cell' = cell /\ granted' = granted
        /\ Bucket(wall') = Bucket(wall)
    BY <1>5, <1>0, UsedType DEF Clock, Call
  <2>1. CASE call' = [call EXCEPT ![c] = [IdleCall EXCEPT !.pc = "exhausted",
                                             !.seen = wall, !.retry = RetryAfter(wall)]]
    <3> DEFINE k == [IdleCall EXCEPT !.pc = "exhausted",
                        !.seen = wall, !.retry = RetryAfter(wall)]
    <3>1. k \in Call /\ k.pc = "exhausted"
      BY <1>0, RetryType, IdleType DEF IdleCall, Call, PCs
    <3>2. call' = [call EXCEPT ![c] = k]
      BY <2>1
    <3> HIDE DEF k
    <3> QED BY <2>0, <3>1, <3>2 DEF CellCounts, CasPrepared, QuotaHeld
  <2>2. CASE /\ call[c].uses <= SatSub(Limit, used)
             /\ call' = [call EXCEPT ![c].pc = "cas",
                           ![c].next = [bucket |-> Bucket(wall), used |-> used + call[c].uses]]
    <3>1. [bucket |-> Bucket(wall), used |-> used + call[c].uses] \in Quota
      BY <1>0, <2>0 DEF Quota
    <3>2. TypeOK'
      <4> DEFINE nxt == [bucket |-> Bucket(wall), used |-> used + call[c].uses]
      <4>1. call' = [call EXCEPT ![c] = [call[c] EXCEPT !.pc = "cas", !.next = nxt]]
        BY <2>2
      <4>2. [call[c] EXCEPT !.pc = "cas", !.next = nxt] \in Call
        BY <3>1, NotedType DEF PCs
      <4> HIDE DEF nxt
      <4> QED BY <1>0, <2>0, <4>1, <4>2
    <3>3. used <= Limit
      BY <2>0 DEF CasPrepared, Used
    <3>4. used + call[c].uses <= Limit
      BY <2>0, <2>2, <3>3 DEF SatSub
    <3>5. CasPrepared'
      <4> DEFINE nxt == [bucket |-> Bucket(wall), used |-> used + call[c].uses]
      <4>1. /\ call'[c].pc = "cas" /\ call'[c].uses = call[c].uses
            /\ call'[c].expected = call[c].expected /\ call'[c].next = nxt
            /\ \A e \in Callers : e # c => call'[e] = call[e]
        BY <2>2 DEF Call
      <4>2. nxt # NoQuota
        BY <3>1, NoQuotaAssumption DEF Quota
      <4>3. /\ call[c].expected # NoQuota
                 => call[c].expected.bucket <= Bucket(wall) /\ call[c].expected.used <= Limit
        BY <2>0 DEF CasPrepared
      <4> QED BY <1>0, <2>0, <3>4, <4>1, <4>2, <4>3 DEF CasPrepared
    <3> QED BY <2>0, <3>2, <3>5 DEF CellCounts, QuotaHeld
  <2> QED BY <1>5, <2>1, <2>2 DEF Clock
<1>6. ASSUME NEW c \in Callers, Cas(c) PROVE QuotaInv'
  <2>0. /\ call[c].pc = "cas" /\ wall' = wall /\ call[c].uses \in Nat
        /\ Bucket(wall') = Bucket(wall)
    BY <1>6 DEF Cas, Call
  <2>1. CASE cell # call[c].expected
    <3>1. /\ call' = [call EXCEPT ![c] = Reserving(call[c].uses)]
          /\ cell' = cell /\ granted' = granted
      BY <1>6, <2>1 DEF Cas
    <3> QED BY <2>0, <3>1, ReservingType DEF CellCounts, CasPrepared, QuotaHeld
  <2>2. CASE cell = call[c].expected
    <3> DEFINE nxt == call[c].next
               old == Used(cell, nxt.bucket)
               k   == [IdleCall EXCEPT !.pc = "ok"]
    <3>1. /\ cell' = nxt /\ call' = [call EXCEPT ![c] = k]
          /\ granted' = [granted EXCEPT ![nxt.bucket] = @ + call[c].uses]
      BY <1>6, <2>2 DEF Cas
    <3>2. /\ nxt \in Quota /\ nxt # NoQuota /\ nxt.bucket \in Buckets /\ nxt.bucket \in Nat
          /\ nxt.bucket <= Bucket(wall) /\ nxt.used <= Limit /\ nxt.used \in Nat
          /\ nxt.used = old + call[c].uses
          /\ cell # NoQuota => cell.bucket <= nxt.bucket
      BY <2>0, <2>2 DEF CasPrepared, Call, Quota
    <3>3. granted[nxt.bucket] = old
      <4>1. CASE cell = NoQuota
        BY <3>2, <4>1 DEF CellCounts, Used
      <4>2. CASE cell # NoQuota
        <5>1. cell.bucket \in Nat
          BY <4>2 DEF Quota
        <5>2. CASE cell.bucket = nxt.bucket
          BY <4>2, <5>2 DEF CellCounts, Used
        <5>3. CASE cell.bucket # nxt.bucket
          <6>1. nxt.bucket > cell.bucket
            BY <3>2, <4>2, <5>1, <5>3
          <6> QED BY <3>2, <4>2, <5>3, <6>1 DEF CellCounts, Used
        <5> QED BY <5>2, <5>3
      <4> QED BY <4>1, <4>2
    <3>4. \A b \in Buckets : b > nxt.bucket => granted[b] = 0
      <4>1. cell # NoQuota => cell.bucket \in Nat
        BY DEF Quota
      <4> QED BY <3>2, <4>1, BucketsAssumption DEF CellCounts
    <3>5. k \in Call /\ k.pc = "ok"
      BY IdleType DEF IdleCall, Call, PCs
    <3> HIDE DEF nxt, old, k
    <3>6. granted'[nxt.bucket] = nxt.used
      BY <3>1, <3>2, <3>3
    <3>7. \A b \in Buckets : b # nxt.bucket => granted'[b] = granted[b]
      BY <3>1
    <3>8. TypeOK'
      BY <2>0, <3>1, <3>2, <3>5
    <3>9. CellCounts'
      <4>1. \A b \in Buckets : b > nxt.bucket => granted'[b] = 0
        BY <3>2, <3>4, <3>7, BucketsAssumption
      <4> QED BY <2>0, <3>1, <3>2, <3>6, <4>1 DEF CellCounts
    <3>10. CasPrepared'
      BY <2>0, <3>1, <3>5 DEF CasPrepared
    <3>11. QuotaHeld'
      BY <3>2, <3>6, <3>7 DEF QuotaHeld
    <3> QED BY <3>8, <3>9, <3>10, <3>11
  <2> QED BY <2>1, <2>2
<1> QED BY <1>1, <1>2, <1>3, <1>4, <1>5, <1>6 DEF Next, Step

\* Every reachable state is well typed (WindowQuota::reserve).
THEOREM TypeCorrect == Spec => []TypeOK
<1>1. QuotaInv => TypeOK
  BY DEF QuotaInv
<1> QED BY <1>1, InitInv, NextInv, PTL DEF Spec

\* WindowQuota::reserve never admits more than the limit in one window.
THEOREM QuotaIsHeld == Spec => []QuotaHeld
<1>1. QuotaInv => QuotaHeld
  BY DEF QuotaInv
<1> QED BY <1>1, InitInv, NextInv, PTL DEF Spec

-----------------------------------------------------------------------------
(***************************************************************************)
(* The hint of a refusal.                                                  *)
(***************************************************************************)
LEMMA DivUnique ==
    ASSUME NEW a \in Nat, NEW k \in Nat, NEW w \in Nat, w >= 1,
           w * k <= a, a < w * (k + 1)
    PROVE  a \div w = k
<1> DEFINE q == a \div w
<1>1. q \in Nat /\ w * q <= a /\ a < w * (q + 1)
  OBVIOUS
<1> HIDE DEF q
<1>2. ~(q >= k + 1)
  <2> SUFFICES ASSUME q >= k + 1 PROVE FALSE
    OBVIOUS
  <2>1. w * q >= w * (k + 1)
    BY <1>1
  <2> QED BY <1>1, <2>1
<1>3. ~(k >= q + 1)
  <2> SUFFICES ASSUME k >= q + 1 PROVE FALSE
    OBVIOUS
  <2>1. w * k >= w * (q + 1)
    BY <1>1
  <2> QED BY <1>1, <2>1
<1>4. q = k
  BY <1>1, <1>2, <1>3
<1> QED BY <1>4 DEF q

\* The hint leads exactly to the boundary of the window it was computed in.
LEMMA HintIsExact ==
    ASSUME NEW t \in Nat
    PROVE  /\ Bucket(t + RetryAfter(t)) = Bucket(t) + 1
           /\ Bucket(t + RetryAfter(t) - 1) = Bucket(t)
<1> DEFINE q == t \div Window
           m == t % Window
           next == Window * (q + 1)
<1>1. q \in Nat /\ m \in Nat /\ m < Window /\ t = Window * q + m
  BY WindowPositive
<1>2. RetryAfter(t) = Window - m
  BY <1>1, WindowPositive DEF RetryAfter, MaxOf, SatSub
<1> HIDE DEF q, m
<1>3. next \in Nat /\ next = Window * q + Window /\ Window * q \in Nat
  BY <1>1, WindowPositive
<1>4. Window * (q + 1 + 1) = next + Window
  BY <1>1, WindowPositive
<1> HIDE DEF next
<1>5. t + RetryAfter(t) = next
  BY <1>1, <1>2, <1>3, WindowPositive
<1>6. next \div Window = q + 1
  <2>1. Window * (q + 1) <= next /\ next < Window * (q + 1 + 1)
    BY <1>3, <1>4, WindowPositive DEF next
  <2> QED BY <1>1, <1>3, <2>1, WindowPositive, DivUnique
<1>7. (next - 1) \div Window = q
  <2>1. next - 1 \in Nat /\ Window * q <= next - 1 /\ next - 1 < Window * (q + 1)
    BY <1>3, WindowPositive DEF next
  <2> QED BY <1>1, <2>1, WindowPositive, DivUnique
<1>8. Bucket(t) = q /\ Bucket(next) = q + 1 /\ Bucket(next - 1) = q
  BY <1>6, <1>7 DEF Bucket, q
<1>9. t + RetryAfter(t) - 1 = next - 1
  BY <1>3, <1>5, RetryType
<1> QED BY <1>5, <1>8, <1>9, Zenon

\* A refused caller's hint is the one of the reading it was refused at.
HintAnswers ==
    \A c \in Callers : call[c].pc = "exhausted" => call[c].retry = RetryAfter(call[c].seen)

LEMMA HintNext == QuotaInv /\ HintAnswers /\ [Next]_vars => HintAnswers'
<1> SUFFICES ASSUME QuotaInv, HintAnswers, [Next]_vars PROVE HintAnswers'
  OBVIOUS
<1> USE DEF QuotaInv, TypeOK
<1>1. CASE call' = call
  BY <1>1 DEF HintAnswers
<1>2. ASSUME NEW c \in Callers, NEW k \in Call, call' = [call EXCEPT ![c] = k],
             k.pc = "exhausted" => k.retry = RetryAfter(k.seen)
      PROVE  HintAnswers'
  BY <1>2 DEF HintAnswers
<1>3. ASSUME NEW c \in Callers, NEW u \in Uses, Begin(c, u) PROVE HintAnswers'
  BY <1>2, <1>3, ReservingType, UsesAssumption DEF Begin
<1>4. ASSUME NEW c \in Callers, Get(c) PROVE HintAnswers'
  BY <1>4 DEF Get, HintAnswers
<1>5. ASSUME NEW c \in Callers, Clock(c) PROVE HintAnswers'
  <2>1. CASE call' = [call EXCEPT ![c] = [IdleCall EXCEPT !.pc = "exhausted",
                                             !.seen = wall, !.retry = RetryAfter(wall)]]
    <3> DEFINE k == [IdleCall EXCEPT !.pc = "exhausted",
                        !.seen = wall, !.retry = RetryAfter(wall)]
    <3>1. k \in Call /\ k.retry = RetryAfter(k.seen)
      <4>1. wall \in Nat /\ RetryAfter(wall) \in Nat
        BY WallHorizonAssumption, RetryType
      <4> QED BY <4>1, IdleType DEF IdleCall, Call, PCs
    <3>2. call' = [call EXCEPT ![c] = k]
      BY <2>1
    <3> HIDE DEF k
    <3> QED BY <1>2, <3>1, <3>2
  <2>2. CASE \E n : call' = [call EXCEPT ![c].pc = "cas", ![c].next = n]
    BY <2>2 DEF HintAnswers
  <2> QED BY <1>5, <2>1, <2>2 DEF Clock
<1>6. ASSUME NEW c \in Callers, Cas(c) PROVE HintAnswers'
  <2>1. CASE call' = [call EXCEPT ![c] = Reserving(call[c].uses)]
    <3>1. call[c].uses \in Nat
      BY DEF Call
    <3> QED BY <1>2, <2>1, <3>1, ReservingType
  <2>2. CASE call' = [call EXCEPT ![c] = [IdleCall EXCEPT !.pc = "ok"]]
    <3>1. [IdleCall EXCEPT !.pc = "ok"] \in Call /\ [IdleCall EXCEPT !.pc = "ok"].pc = "ok"
      BY IdleType DEF IdleCall, Call, PCs
    <3> QED BY <1>2, <2>2, <3>1
  <2> QED BY <1>6, <2>1, <2>2 DEF Cas
<1> QED BY <1>1, <1>3, <1>4, <1>5, <1>6 DEF Next, Step, Tick, vars

\* QuotaExhausted.retry_after_ms: that long after the reading it answers, and
\* not a millisecond earlier, the window is the next one -- for every window
\* length, the one of a boundary reading included.
THEOREM RetryIsExact == Spec => []RetryAfterExact
<1>1. Init => HintAnswers
  BY IdleType DEF Init, HintAnswers
<1>2. QuotaInv /\ HintAnswers => RetryAfterExact
  BY HintIsExact DEF QuotaInv, TypeOK, Call, HintAnswers, RetryAfterExact
<1> QED BY <1>1, <1>2, InitInv, NextInv, HintNext, PTL DEF Spec
=============================================================================
