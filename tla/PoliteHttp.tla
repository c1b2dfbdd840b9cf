----------------------------- MODULE PoliteHttp -----------------------------
(***************************************************************************)
(* polite_http_get_redacting of src/indexers/newznab-common/src/lib.rs:    *)
(* one upstream GET that waits out the shared cooldown, takes a start      *)
(* slot, pays the hit budget, sends, and on 429 / 503 defers everyone and  *)
(* tries again.  It composes the two PDK gates and the hit budget, whose   *)
(* steps interleave between all concurrent operations.                     *)
(***************************************************************************)
EXTENDS HostRuntime, FiniteSets, FiniteSetsExt

CONSTANTS
    Callers,                    \* concurrent operations of one plugin
    Deadlines,                  \* deadlines an operation may carry
    PreRequestDelay,            \* NewznabHttpBehavior.pre_request_delay
    RetryDefaultDelay, RetryMaxDelay, RetryTotalBudget, RetryMaxAttempts,
    HourlyLimit, DailyLimit, HourLen, DayLen, Hours, Days,
    Responses,                  \* what the upstream may answer
    NoDelay,                    \* no usable retry header
    NoStamp, NoCooldown, NoBudget,
    Horizon                     \* BOUND: the last instant of the clock

ASSUME RetryAssumption ==
    /\ RetryDefaultDelay \in Nat /\ RetryMaxDelay \in Nat
    /\ RetryTotalBudget \in Nat /\ RetryMaxAttempts \in Nat
ASSUME NoDelayAssumption == NoDelay \notin Nat
\* What the gates and the hit budget assume of theirs.
ASSUME CallersAssumption == Callers # {} /\ Deadlines \subseteq Nat
ASSUME DelayAssumption == PreRequestDelay \in Nat
ASSUME LimitAssumption == HourlyLimit \in Nat /\ DailyLimit \in Nat
ASSUME LenAssumption == HourLen \in Nat \ {0} /\ DayLen \in Nat \ {0} /\ DayLen % HourLen = 0
ASSUME HorizonAssumption == Horizon \in Nat /\ Horizon < U64Max
ASSUME BucketsAssumption ==
    /\ Hours \subseteq Nat /\ Days \subseteq Nat
    /\ IsFiniteSet(Days)
    /\ \A t \in 0..Horizon : t \div HourLen \in Hours /\ t \div DayLen \in Days
ASSUME EmptyCellAssumption ==
    /\ NoStamp \notin Nat /\ NoCooldown \notin Nat
    /\ NoBudget \notin [hour : Nat, hourly : Nat, day : Nat, daily : Nat]

(***************************************************************************)
(* A response: its status (a transport error is no response), the delay    *)
(* its retry headers carry, and whether its remaining-requests header is   *)
(* 0.                                                                      *)
(***************************************************************************)
Statuses == {"ok", "429", "503", "error"}
Response == [status : Statuses, retry : Nat \union {NoDelay}, drained : BOOLEAN]
ASSUME ResponseAssumption == Responses \subseteq Response

VARIABLES
    now,                        \* host clocks (the wall clock runs along)
    stamp, gate, starts,        \* StartRateGate
    until, cool, owed,          \* CooldownGate
    cell, hit, hourly, daily,   \* HitBudget
    req,                        \* per caller: its request and retry loop
    slotOwed,                   \* history: per caller, the cooldown on record when
                                \* it last woke up from its wait for a start slot
    sent                        \* history: number of requests sent

gateVars == <<stamp, gate, starts>>
coolVars == <<until, cool, owed>>
hitVars  == <<cell, hit, hourly, daily>>
sendVars == <<slotOwed, sent>>
vars == <<now, gateVars, coolVars, hitVars, req, sendVars>>

Gate == INSTANCE StartRateGate
          WITH call <- gate, Starts <- 1, IntervalMs <- MaxOf(PreRequestDelay, 1),
               Deadlines <- Nat
Cool == INSTANCE CooldownGate
          WITH call <- cool, LastDefer <- Horizon, Delays <- Nat, Deadlines <- Nat
Budget == INSTANCE HitBudget
          WITH call <- hit, wall <- now, WallHorizon <- Horizon, Uses <- {1}

PCs == {"idle", "cooling", "gating", "paying", "http", "deferring", "budget", "sleep",
        "pausing", "done", "deferred", "exhausted", "limited", "failed"}

Req == [pc        : PCs,
        attempt   : Nat,
        total     : Nat,        \* total_wait
        delay     : Nat,        \* the delay of the current backoff
        duration  : Nat,        \* wait asked of sleep_until_deadline
        wake      : Nat,
        notBefore : Nat,        \* history: when the backoff allows the next send
        deadline  : Nat]

Idle == [pc |-> "idle", attempt |-> 0, total |-> 0, delay |-> 0, duration |-> 0,
         wake |-> 0, notBefore |-> 0, deadline |-> 0]

Init ==
    /\ Gate!Init /\ Cool!Init /\ Budget!Init
    /\ req = [c \in Callers |-> Idle]
    /\ slotOwed = [c \in Callers |-> 0]
    /\ sent = 0

Returned(c) ==
    req[c].pc \in {"idle", "done", "deferred", "exhausted", "limited", "failed"}

Goto(c, pc) == req' = [req EXCEPT ![c].pc = pc]
Return(c, pc) == req' = [req EXCEPT ![c] = [Idle EXCEPT !.pc = pc]]

\* a finished wait(), defer_for(), acquire() or reserve() leaves nothing behind
CoolDone(c) ==
    /\ cool' = [cool EXCEPT ![c] = Cool!IdleCall]
    /\ owed' = [owed EXCEPT ![c] = 0]
GateDone(c) == gate' = [gate EXCEPT ![c] = Gate!IdleCall]
HitDone(c) == hit' = [hit EXCEPT ![c] = Budget!IdleCall]

(***************************************************************************)
(* The sequence at the top of the loop.                                    *)
(***************************************************************************)
Begin(c, deadline) ==
    /\ Returned(c)
    /\ req' = [req EXCEPT ![c] = [Idle EXCEPT !.pc = "cooling", !.attempt = 1,
                                              !.deadline = deadline]]
    /\ Cool!BeginWait(c, deadline)
    /\ UNCHANGED <<gateVars, hitVars, sendVars>>

\* Mutant: DeadlineExceeded is taken for a transient error and waited out.
CooledTryAgain(c) ==
    /\ req[c].pc = "cooling"
    /\ \/ /\ cool[c].pc = "w_ok"
          /\ Goto(c, "gating")
          /\ Gate!Begin(c, req[c].deadline)
          /\ CoolDone(c)
       \/ /\ cool[c].pc = "deferred"
          /\ Cool!BeginWait(c, req[c].deadline)
          /\ UNCHANGED <<gateVars, req>>
    /\ UNCHANGED <<until, hitVars, sendVars>>

\* cooldown.wait().await? done: start_gate.acquire()
Cooled(c) ==
    /\ req[c].pc = "cooling"
    /\ \/ /\ cool[c].pc = "w_ok"
          /\ Goto(c, "gating")
          /\ Gate!Begin(c, req[c].deadline)
       \/ /\ cool[c].pc = "deferred"
          /\ Return(c, "deferred")
          /\ UNCHANGED <<now, gateVars>>
    /\ CoolDone(c)
    /\ UNCHANGED <<until, hitVars, sendVars>>

\* start_gate.acquire().await? done: record_hit_budget_use()
Gated(c) ==
    /\ req[c].pc = "gating"
    /\ \/ /\ gate[c].pc = "ok"
          /\ Goto(c, "paying")
          /\ Budget!Begin(c, 1)
       \/ /\ gate[c].pc = "deferred"
          /\ Return(c, "deferred")
          /\ UNCHANGED <<now, hitVars>>
    /\ GateDone(c)
    /\ UNCHANGED <<stamp, starts, coolVars, sendVars>>

\* the budget is paid: component::http(..)
Send(c) ==
    /\ req[c].pc = "paying"
    /\ \/ /\ hit[c].pc = "ok"
          /\ Goto(c, "http")
          /\ sent' = sent + 1
          /\ slotOwed' = [slotOwed EXCEPT ![c] = 0]
       \/ /\ hit[c].pc = "exhausted"
          /\ Return(c, "exhausted")
          /\ UNCHANGED sendVars
    /\ HitDone(c)
    /\ UNCHANGED <<now, gateVars, coolVars, cell, hourly, daily>>

(***************************************************************************)
(* The response.                                                           *)
(***************************************************************************)
\* clamp_duration: a zero maximum does not clamp
Clamp(delay) == IF RetryMaxDelay = 0 THEN delay ELSE MinOf(delay, RetryMaxDelay)

Retryable(r) == r.status \in {"429", "503"}

\* the clamped delay of a retryable response; NoDelay for a 503 without header
RetryDelay(r) ==
    IF r.retry # NoDelay THEN Clamp(r.retry)
    ELSE IF r.status = "429" THEN Clamp(RetryDefaultDelay)
    ELSE NoDelay

\* Mutant: the total is compared before this delay is added.
RetriesLate(c, r) ==
    /\ Retryable(r)
    /\ RetryDelay(r) \notin {NoDelay, 0}
    /\ req[c].attempt < MaxOf(RetryMaxAttempts, 1)
    /\ req[c].total <= RetryTotalBudget

Retries(c, r) ==
    /\ Retryable(r)
    /\ RetryDelay(r) \notin {NoDelay, 0}
    /\ req[c].attempt < MaxOf(RetryMaxAttempts, 1)
    /\ req[c].total + RetryDelay(r) <= RetryTotalBudget

\* cooldown.defer_for(delay), then back off
Backoff(c, r) ==
    /\ req[c].pc = "http"
    /\ r.status # "error"
    /\ Retries(c, r)
    /\ req' = [req EXCEPT ![c].pc = "deferring", ![c].delay = RetryDelay(r),
                          ![c].notBefore = now + RetryDelay(r)]
    /\ Cool!BeginDefer(c, RetryDelay(r))
    /\ UNCHANGED <<gateVars, hitVars, sendVars>>

\* rate_limit_pause_from_headers: no requests remain until the headers' delay
PauseDelay(r) == IF r.drained /\ r.retry # NoDelay THEN Clamp(r.retry) ELSE NoDelay

\* no retry: report the 429, or return the response
Answer(c, r) ==
    /\ req[c].pc = "http"
    /\ r.status # "error"
    /\ ~Retries(c, r)
    /\ \/ /\ r.status = "429"
          /\ Return(c, "limited")
          /\ UNCHANGED <<now, until, cool, owed>>
       \/ /\ r.status # "429"
          /\ PauseDelay(r) # NoDelay
          /\ Goto(c, "pausing")
          /\ Cool!BeginDefer(c, PauseDelay(r))
       \/ /\ r.status # "429"
          /\ PauseDelay(r) = NoDelay
          /\ Return(c, "done")
          /\ UNCHANGED <<now, until, cool, owed>>
    /\ UNCHANGED <<gateVars, hitVars, sendVars>>

\* Err(HostError): no response, no cooldown
TransportError(c, r) ==
    /\ req[c].pc = "http"
    /\ r.status = "error"
    /\ Return(c, "failed")
    /\ UNCHANGED <<now, gateVars, coolVars, hitVars, sendVars>>

Respond(c) == \E r \in Responses : Backoff(c, r) \/ Answer(c, r) \/ TransportError(c, r)

\* the defer_for() of rate_limit_pause is written: return the response
Paused(c) ==
    /\ req[c].pc = "pausing"
    /\ cool[c].pc = "d_done"
    /\ Return(c, "done")
    /\ CoolDone(c)
    /\ UNCHANGED <<now, gateVars, until, hitVars, sendVars>>

\* Mutant: the retry is sent before the backoff sleep.
ResendBeforeSleep(c) ==
    /\ req[c].pc = "deferring"
    /\ cool[c].pc = "d_done"
    /\ req' = [req EXCEPT ![c].pc = "http", ![c].attempt = @ + 1]
    /\ sent' = sent + 1
    /\ CoolDone(c)
    /\ UNCHANGED <<now, gateVars, until, hitVars, slotOwed>>

\* the defer_for() of the backoff is written: sleep_until_deadline(delay)
Deferred(c) ==
    /\ req[c].pc = "deferring"
    /\ cool[c].pc = "d_done"
    /\ req' = [req EXCEPT ![c].pc = "budget", ![c].duration = req[c].delay]
    /\ CoolDone(c)
    /\ UNCHANGED <<now, gateVars, until, hitVars, sendVars>>

Sleep(c) ==
    /\ req[c].pc = "budget"
    /\ LET slept == SleepUntilDeadline(req[c], now)
       IN req' = [req EXCEPT ![c] = IF slept.pc = "deferred" THEN [Idle EXCEPT !.pc = "deferred"]
                                                              ELSE slept]
    /\ UNCHANGED <<now, gateVars, coolVars, hitVars, sendVars>>

\* Mutant: the retry sends at once, without slot, cooldown or budget.
ResendAtOnce(c) ==
    /\ req[c].pc = "sleep"
    /\ now >= req[c].wake
    /\ req' = [req EXCEPT ![c].pc = "http", ![c].attempt = @ + 1,
                          ![c].total = @ + req[c].delay, ![c].delay = 0, ![c].wake = 0]
    /\ sent' = sent + 1
    /\ UNCHANGED <<now, gateVars, coolVars, hitVars, slotOwed>>

\* Mutant: the total counts down from zero.
RetryCountsDown(c) ==
    /\ req[c].pc = "sleep"
    /\ now >= req[c].wake
    /\ req' = [req EXCEPT ![c].pc = "cooling", ![c].attempt = @ + 1,
                          ![c].total = @ - req[c].delay, ![c].delay = 0, ![c].wake = 0]
    /\ Cool!BeginWait(c, req[c].deadline)
    /\ UNCHANGED <<gateVars, hitVars, sendVars>>

\* total_wait += delay; attempt += 1; continue
Retry(c) ==
    /\ req[c].pc = "sleep"
    /\ now >= req[c].wake
    /\ req' = [req EXCEPT ![c].pc = "cooling", ![c].attempt = @ + 1,
                          ![c].total = @ + req[c].delay, ![c].delay = 0, ![c].wake = 0]
    /\ Cool!BeginWait(c, req[c].deadline)
    /\ UNCHANGED <<gateVars, hitVars, sendVars>>

(***************************************************************************)
(* Steps inside the gates, the host, and the clock.                        *)
(***************************************************************************)
CoolStep(c) ==
    /\ Cool!Step(c)
    /\ UNCHANGED <<gateVars, hitVars, req, sendVars>>
GateStep(c) ==
    /\ Gate!Step(c)
    /\ slotOwed' = IF gate[c].pc = "sleep"
                     THEN [slotOwed EXCEPT ![c] = Cool!OrDefault(until)] ELSE slotOwed
    /\ UNCHANGED <<coolVars, hitVars, req, sent>>
HitStep(c) == Budget!Step(c) /\ UNCHANGED <<gateVars, coolVars, req, sendVars>>

\* The host drops a cancelled operation while it is parked at an await point.
Cancel(c) ==
    /\ \/ req[c].pc \in {"sleep", "http"}
       \/ req[c].pc = "cooling" /\ cool[c].pc = "sleep"
       \/ req[c].pc = "gating" /\ gate[c].pc = "sleep"
    /\ req' = [req EXCEPT ![c] = Idle]
    /\ CoolDone(c) /\ GateDone(c)
    /\ UNCHANGED <<now, stamp, starts, until, hitVars, sendVars>>

Step(c) ==
    \/ Cooled(c) \/ Gated(c) \/ Send(c) \/ Respond(c) \/ Paused(c) \/ Deferred(c)
    \/ Sleep(c) \/ Retry(c) \/ CoolStep(c) \/ GateStep(c) \/ HitStep(c)

Tick ==
    /\ now < Horizon
    /\ now' = now + 1
    /\ UNCHANGED <<gateVars, coolVars, hitVars, req, sendVars>>

Next ==
    \/ Tick
    \/ \E c \in Callers :
         \/ \E deadline \in Deadlines : Begin(c, deadline)
         \/ Step(c)
         \/ Cancel(c)

\* The host polls every future that is ready, its clock advances, and its
\* http call returns (a response or HostError::Timeout).
Fairness == WF_vars(Tick) /\ \A c \in Callers : WF_vars(Step(c))

Spec == Init /\ [][Next]_vars /\ Fairness

-----------------------------------------------------------------------------
TypeOK ==
    /\ Gate!TypeOK /\ Cool!TypeOK /\ Budget!TypeOK
    /\ req \in [Callers -> Req]
    /\ slotOwed \in [Callers -> Nat]
    /\ sent \in Nat

(***************************************************************************)
(* Put together, the components keep what each promises alone: starts are  *)
(* spaced, waits are waited out, deferrals last and the allowances hold,   *)
(* although the retry loop begins, forgets and drops calls at any point of *)
(* the others.                                                             *)
(***************************************************************************)
ComponentsHold ==
    /\ Gate!Spacing
    /\ Cool!WaitedOut /\ Cool!DeferTakesEffect
    /\ Budget!BudgetHeld

(***************************************************************************)
(* Every request that leaves, retries included, has been paid for exactly  *)
(* once: what the budget granted is what was sent, plus the grants whose   *)
(* caller is about to send.                                                *)
(***************************************************************************)
Owing == {c \in Callers : req[c].pc = "paying" /\ hit[c].pc = "ok"}

EverySendPaid == MapThenSumSet(LAMBDA d : daily[d], Days) = sent + Cardinality(Owing)

(***************************************************************************)
(* The retry loop stays within retry_max_attempts and retry_total_budget.  *)
(***************************************************************************)
RetryBounded ==
    \A c \in Callers :
        /\ req[c].attempt <= MaxOf(RetryMaxAttempts, 1)
        /\ req[c].total + req[c].delay <= RetryTotalBudget

(***************************************************************************)
(* A caller told to back off does not send again before that delay is over.*)
(***************************************************************************)
BackoffHonoured == \A c \in Callers : req[c].pc = "http" => now >= req[c].notBefore

(***************************************************************************)
(* Every request returns -- a response, an error or a deferral -- whatever *)
(* the upstream answers and whoever else defers it or is cancelled.        *)
(***************************************************************************)
RequestReturns == \A c \in Callers : (req[c].pc = "cooling") ~> Returned(c)

(***************************************************************************)
(* "Delay a request until any recorded cooldown has elapsed" (the comment  *)
(* on CooldownGate::wait): a request that slept for its start slot does    *)
(* not leave during a cooldown recorded before it woke up.  The code waits *)
(* for the cooldown first and for the slot after it, and does not look at  *)
(* the cooldown again.                                                     *)
(***************************************************************************)
NoSendInCooldown ==
    [][\A c \in Callers :
          req[c].pc # "http" /\ req'[c].pc = "http" => slotOwed[c] <= now]_vars

(***************************************************************************)
(* The inductive invariant behind ComponentsHold, RetryBounded and         *)
(* BackoffHonoured: the components' own invariants; an operation that      *)
(* backs off has an attempt left, and from the 429 to the end of its sleep *)
(* the time still to be waited reaches the end of the backoff; after it    *)
(* the backoff is over.                                                    *)
(***************************************************************************)
Fits(k, t) ==
    /\ k.attempt <= MaxOf(RetryMaxAttempts, 1)
    /\ k.pc \in {"deferring", "budget", "sleep"} => k.attempt < MaxOf(RetryMaxAttempts, 1)
    /\ k.total + k.delay <= RetryTotalBudget
    /\ k.pc \in {"cooling", "gating", "paying", "http"} => t >= k.notBefore
    /\ k.pc = "deferring" => k.notBefore <= t + k.delay
    /\ k.pc = "budget" => k.notBefore <= t + k.duration
    /\ k.pc = "sleep" => k.notBefore <= k.wake
ComponentsInv == Gate!SpacingInv /\ Cool!CooldownInv /\ Budget!BudgetInv
LoopInv == TypeOK /\ ComponentsInv /\ \A c \in Callers : Fits(req[c], now)

(***************************************************************************)
(* The inductive invariant behind EverySendPaid: a reservation in flight   *)
(* belongs to an operation that is paying, asks for one use, and counts it *)
(* in a day of the calendar.                                               *)
(***************************************************************************)
Charging(c) ==
    /\ hit[c].pc # "r_load"
    /\ hit[c].pc \in {"get", "clock", "cas"} => req[c].pc = "paying" /\ hit[c].uses = 1
    /\ hit[c].pc = "cas" => hit[c].next.day \in Days
PaidInv == LoopInv /\ IsFiniteSet(Owing) /\ EverySendPaid /\ \A c \in Callers : Charging(c)
=============================================================================
