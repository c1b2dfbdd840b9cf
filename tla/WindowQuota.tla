---------------------------- MODULE WindowQuota ----------------------------
(***************************************************************************)
(* WindowQuota of src/pdk/scryer-plugin-pdk/src/runtime.rs: at most        *)
(* `limit` uses per fixed wall-clock window, counted in one state cell     *)
(* that holds <<window number, uses>>.  reserve() is a get / clock /       *)
(* compare-and-set loop; each host call is a step of its own.              *)
(***************************************************************************)
EXTENDS HostRuntime

CONSTANTS
    Callers,        \* operations that share the quota
    Limit,          \* WindowQuota::new's `limit` ...
    WindowMs,       \* ... per `window_ms`
    Uses,           \* amounts reserve() is called with
    WallHorizon,    \* BOUND: the last instant of the wall clock
    Buckets,        \* the windows up to then
    NoQuota         \* the state cell before the first reservation (None)

ASSUME CallersAssumption == Callers # {}
ASSUME QuotaAssumption == Limit \in Nat /\ WindowMs \in Nat
ASSUME UsesAssumption == Uses \subseteq Nat
ASSUME WallHorizonAssumption == WallHorizon \in Nat
\* the u32 addition `used + uses` cannot overflow once uses <= limit - used
ASSUME NoQuotaAssumption == NoQuota \notin [bucket : Nat, used : Nat]

VARIABLES
    wall,           \* wall clock; it does not step back here
    cell,           \* the quota's state cell
    call,           \* per caller: where its reserve() is, and its locals
    granted         \* history: uses admitted so far, per window

vars == <<wall, cell, call, granted>>

Window == MaxOf(WindowMs, 1)
Bucket(t) == t \div Window

ASSUME BucketsAssumption ==
    Buckets \subseteq Nat /\ \A t \in 0..WallHorizon : Bucket(t) \in Buckets

Quota == [bucket : Nat, used : Nat]

PCs == {"idle", "get", "clock", "cas", "ok", "exhausted"}

Call == [pc       : PCs,
         uses     : Nat,
         expected : Quota \union {NoQuota},   \* bytes the last state_get returned
         next     : Quota \union {NoQuota},   \* replacement to write
         seen     : Nat,                      \* `now` when it was refused
         retry    : Nat]                      \* QuotaExhausted.retry_after_ms

IdleCall == [pc |-> "idle", uses |-> 0, expected |-> NoQuota, next |-> NoQuota,
             seen |-> 0, retry |-> 0]

Init ==
    /\ wall \in 0..WallHorizon
    /\ cell = NoQuota
    /\ call = [c \in Callers |-> IdleCall]
    /\ granted = [b \in Buckets |-> 0]

Reserving(uses) == [IdleCall EXCEPT !.pc = "get", !.uses = uses]

Returned(c) == call[c].pc \in {"idle", "ok", "exhausted"}

Begin(c, uses) ==
    /\ Returned(c)
    /\ call' = [call EXCEPT ![c] = Reserving(uses)]
    /\ UNCHANGED <<wall, cell, granted>>

\* let expected = state_get(key)
Get(c) ==
    /\ call[c].pc = "get"
    /\ call' = [call EXCEPT ![c].pc = "clock", ![c].expected = cell]
    /\ UNCHANGED <<wall, cell, granted>>

\* uses on record for window b: a count of another window is no longer one
Used(state, b) == IF state # NoQuota /\ state.bucket = b THEN state.used ELSE 0

\* Mutant: the operands of the subtraction are swapped.
RetryAfterSwapped(t) == (t % Window) - Window

\* Mutant: one too many, so that a boundary waits for a whole window more.
RetryAfterLate(t) == SatSub(Window, t % Window) + 1

RetryAfter(t) == MaxOf(SatSub(Window, t % Window), 1)

\* let now = wall_now_ms(): refuse, or prepare the replacement
Clock(c) ==
    /\ call[c].pc = "clock"
    /\ LET used == Used(call[c].expected, Bucket(wall))
       IN \/ /\ call[c].uses > SatSub(Limit, used)
             /\ call' = [call EXCEPT ![c] = [IdleCall EXCEPT !.pc = "exhausted",
                                                             !.seen = wall, !.retry = RetryAfter(wall)]]
          \/ /\ call[c].uses <= SatSub(Limit, used)
             /\ call' = [call EXCEPT ![c].pc = "cas",
                            ![c].next = [bucket |-> Bucket(wall), used |-> used + call[c].uses]]
    /\ UNCHANGED <<wall, cell, granted>>

\* Mutant: a plain write where the code compares and sets.
CasBlindWrite(c) ==
    /\ call[c].pc = "cas"
    /\ cell' = call[c].next
    /\ granted' = [granted EXCEPT ![call[c].next.bucket] = @ + call[c].uses]
    /\ call' = [call EXCEPT ![c] = [IdleCall EXCEPT !.pc = "ok"]]
    /\ UNCHANGED wall

\* Mutant: a lost compare-and-set is tried again without a new state_get.
CasAgain(c) ==
    /\ call[c].pc = "cas"
    /\ \/ /\ cell = call[c].expected
          /\ cell' = call[c].next
          /\ granted' = [granted EXCEPT ![call[c].next.bucket] = @ + call[c].uses]
          /\ call' = [call EXCEPT ![c] = [IdleCall EXCEPT !.pc = "ok"]]
       \/ /\ cell # call[c].expected
          /\ UNCHANGED <<cell, granted, call>>
    /\ UNCHANGED wall

\* state_cas(key, expected, replacement): return, or loop
Cas(c) ==
    /\ call[c].pc = "cas"
    /\ \/ /\ cell = call[c].expected
          /\ cell' = call[c].next
          /\ granted' = [granted EXCEPT ![call[c].next.bucket] = @ + call[c].uses]
          /\ call' = [call EXCEPT ![c] = [IdleCall EXCEPT !.pc = "ok"]]
       \/ /\ cell # call[c].expected
          /\ call' = [call EXCEPT ![c] = Reserving(call[c].uses)]
          /\ UNCHANGED <<cell, granted>>
    /\ UNCHANGED wall

Step(c) == Get(c) \/ Clock(c) \/ Cas(c)

Tick ==
    /\ wall < WallHorizon
    /\ wall' = wall + 1
    /\ UNCHANGED <<cell, call, granted>>

Next ==
    \/ Tick
    \/ \E c \in Callers : Step(c) \/ \E uses \in Uses : Begin(c, uses)

\* reserve() has no await point: the host runs it to its end.
Fairness == \A c \in Callers : WF_vars(Step(c))

Spec == Init /\ [][Next]_vars /\ Fairness

-----------------------------------------------------------------------------
TypeOK ==
    /\ wall \in 0..WallHorizon
    /\ cell \in Quota \union {NoQuota}
    /\ call \in [Callers -> Call]
    /\ granted \in [Buckets -> Nat]

(***************************************************************************)
(* No window ever admits more than `limit` uses, however reservations      *)
(* race each other and the roll-over to the next window.                   *)
(***************************************************************************)
QuotaHeld == \A b \in Buckets : granted[b] <= Limit

(***************************************************************************)
(* QuotaExhausted.retry_after_ms is exact: that long after the clock       *)
(* reading it answers, and not a millisecond earlier, the window is the    *)
(* next one.                                                               *)
(***************************************************************************)
RetryAfterExact ==
    \A c \in Callers :
        call[c].pc = "exhausted" =>
            /\ Bucket(call[c].seen + call[c].retry) = Bucket(call[c].seen) + 1
            /\ Bucket(call[c].seen + call[c].retry - 1) = Bucket(call[c].seen)

(***************************************************************************)
(* The compare-and-set loop is lock-free: a reservation fails only because *)
(* another one succeeded, so every reserve() returns.                      *)
(***************************************************************************)
ReserveReturns == \A c \in Callers : (call[c].pc = "get") ~> Returned(c)

(***************************************************************************)
(* The inductive invariant behind QuotaHeld.  The cell's window is never   *)
(* ahead of the clock and counts what it granted; nothing was granted in a *)
(* window ahead of the cell's; and a caller about to write onto the cell   *)
(* it read has a window no older than the cell's.                          *)
(***************************************************************************)
CellCounts ==
    /\ cell = NoQuota => \A b \in Buckets : granted[b] = 0
    /\ cell # NoQuota =>
         /\ cell.bucket \in Buckets /\ cell.bucket <= Bucket(wall)
         /\ granted[cell.bucket] = cell.used
         /\ \A b \in Buckets : b > cell.bucket => granted[b] = 0
CasPrepared ==
    \A c \in Callers :
        /\ call[c].pc \in {"clock", "cas"} /\ call[c].expected # NoQuota
              => call[c].expected.bucket <= Bucket(wall) /\ call[c].expected.used <= Limit
        /\ call[c].pc = "cas" =>
             /\ call[c].next # NoQuota
             /\ call[c].next.bucket \in Buckets
             /\ call[c].next.bucket <= Bucket(wall)
             /\ call[c].expected # NoQuota => call[c].expected.bucket <= call[c].next.bucket
             /\ call[c].next.used = Used(call[c].expected, call[c].next.bucket) + call[c].uses
             /\ call[c].next.used <= Limit
QuotaInv == TypeOK /\ CellCounts /\ CasPrepared /\ QuotaHeld
=============================================================================
