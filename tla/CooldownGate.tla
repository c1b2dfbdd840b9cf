---------------------------- MODULE CooldownGate ----------------------------
(***************************************************************************)
(* CooldownGate of src/pdk/scryer-plugin-pdk/src/runtime.rs: a deadline    *)
(* `until`, shared by every concurrent operation, before which no request  *)
(* may start.  wait() sleeps it off; defer_for() pushes it back after a    *)
(* 429 or an upstream reset hint.  Each host call is a step of its own.    *)
(***************************************************************************)
EXTENDS HostRuntime

CONSTANTS
    Callers,        \* operations that share the gate
    Delays,         \* durations defer_for() is called with
    Deadlines,      \* deadlines an operation may carry
    Horizon,        \* BOUND: the last instant of the clock
    LastDefer,      \* BOUND: defer_for() is not called after this instant
    NoCooldown      \* the state cell before the first defer_for (None)

ASSUME CallersAssumption == Callers # {}
ASSUME DelayAssumption == Delays \subseteq Nat
ASSUME DeadlineAssumption == Deadlines \subseteq Nat
ASSUME HorizonAssumption == Horizon \in Nat /\ LastDefer \in Nat
ASSUME NoCooldownAssumption == NoCooldown \notin Nat

VARIABLES
    now,            \* host monotonic clock
    until,          \* the gate's state cell
    call,           \* per caller: its wait() or defer_for(), with its locals
    owed            \* history: per caller, the cooldown on record when its
                    \* wait() last began or woke up

vars == <<now, until, call, owed>>

PCs == {"idle", "w_get", "w_clock", "budget", "sleep", "w_ok", "deferred",
        "d_get", "d_cas", "d_done"}

Call == [pc        : PCs,
         expected  : Nat \union {NoCooldown},   \* bytes the last state_get returned
         requested : Nat,                       \* defer_for: requested_until
         duration  : Nat,                       \* wait asked of sleep_until_deadline
         wake      : Nat,
         deadline  : Nat]

IdleCall == [pc |-> "idle", expected |-> NoCooldown, requested |-> 0,
             duration |-> 0, wake |-> 0, deadline |-> 0]

Init ==
    /\ now = 0
    /\ until = NoCooldown
    /\ call = [c \in Callers |-> IdleCall]
    /\ owed = [c \in Callers |-> 0]

\* state_get(..).and_then(..).unwrap_or_default()
OrDefault(cell) == IF cell = NoCooldown THEN 0 ELSE cell

Returned(c) == call[c].pc \in {"idle", "w_ok", "deferred", "d_done"}

(***************************************************************************)
(* wait(): loop { until = get; now; return if over; sleep }                *)
(***************************************************************************)
Waiting(deadline) == [IdleCall EXCEPT !.pc = "w_get", !.deadline = deadline]

BeginWait(c, deadline) ==
    /\ Returned(c)
    /\ call' = [call EXCEPT ![c] = Waiting(deadline)]
    /\ owed' = [owed EXCEPT ![c] = OrDefault(until)]
    /\ UNCHANGED <<now, until>>

WaitGet(c) ==
    /\ call[c].pc = "w_get"
    /\ call' = [call EXCEPT ![c].pc = "w_clock", ![c].expected = until]
    /\ UNCHANGED <<now, until, owed>>

\* Mutant: the operands of the wait's subtraction are swapped.
WaitClockSwapped(c) ==
    /\ call[c].pc = "w_clock"
    /\ LET recorded == OrDefault(call[c].expected)
       IN \/ /\ recorded <= now
             /\ call' = [call EXCEPT ![c] = [IdleCall EXCEPT !.pc = "w_ok"]]
          \/ /\ recorded > now
             /\ call' = [call EXCEPT ![c].pc = "budget", ![c].expected = NoCooldown,
                                     ![c].duration = now - recorded]
    /\ UNCHANGED <<now, until, owed>>

WaitClock(c) ==
    /\ call[c].pc = "w_clock"
    /\ LET recorded == OrDefault(call[c].expected)
       IN \/ /\ recorded <= now
             /\ call' = [call EXCEPT ![c] = [IdleCall EXCEPT !.pc = "w_ok"]]
          \/ /\ recorded > now
             /\ call' = [call EXCEPT ![c].pc = "budget", ![c].expected = NoCooldown,
                                     ![c].duration = SatSub(recorded, now)]
    /\ UNCHANGED <<now, until, owed>>

\* sleep_until_deadline(until - now).await?
Budget(c) ==
    /\ call[c].pc = "budget"
    /\ call' = [call EXCEPT ![c] = SleepUntilDeadline(call[c], now)]
    /\ UNCHANGED <<now, until, owed>>

\* Mutant: one sleep instead of a loop, although the cooldown may have grown.
WakeAndReturn(c) ==
    /\ call[c].pc = "sleep"
    /\ now >= call[c].wake
    /\ call' = [call EXCEPT ![c] = [IdleCall EXCEPT !.pc = "w_ok"]]
    /\ owed' = [owed EXCEPT ![c] = OrDefault(until)]
    /\ UNCHANGED <<now, until>>

Wake(c) ==
    /\ call[c].pc = "sleep"
    /\ now >= call[c].wake
    /\ call' = [call EXCEPT ![c] = Waiting(call[c].deadline)]
    /\ owed' = [owed EXCEPT ![c] = OrDefault(until)]
    /\ UNCHANGED <<now, until>>

(***************************************************************************)
(* defer_for(d): the requested instant is computed once; the loop then     *)
(* writes the later of it and what is on record.                           *)
(***************************************************************************)
BeginDefer(c, delay) ==
    /\ Returned(c)
    /\ now <= LastDefer
    /\ call' = [call EXCEPT ![c] = [IdleCall EXCEPT !.pc = "d_get",
                                                    !.requested = SatAdd(now, delay)]]
    /\ owed' = [owed EXCEPT ![c] = 0]
    /\ UNCHANGED <<now, until>>

DeferGet(c) ==
    /\ call[c].pc = "d_get"
    /\ call' = [call EXCEPT ![c].pc = "d_cas", ![c].expected = until]
    /\ UNCHANGED <<now, until, owed>>

\* Mutant: the newest request wins, even when it is the shorter one.
LatestWins(existing, requested) == requested

\* existing_until.max(requested_until)
Replacement(existing, requested) == MaxOf(existing, requested)

\* Mutant: a plain write where the code compares and sets.
DeferBlindWrite(c) ==
    /\ call[c].pc = "d_cas"
    /\ until' = Replacement(OrDefault(call[c].expected), call[c].requested)
    /\ call' = [call EXCEPT ![c].pc = "d_done", ![c].expected = NoCooldown]
    /\ UNCHANGED <<now, owed>>

\* Mutant: a lost compare-and-set is tried again without a new state_get.
DeferCasAgain(c) ==
    /\ call[c].pc = "d_cas"
    /\ \/ /\ until = call[c].expected
          /\ until' = Replacement(OrDefault(call[c].expected), call[c].requested)
          /\ call' = [call EXCEPT ![c].pc = "d_done", ![c].expected = NoCooldown]
       \/ /\ until # call[c].expected
          /\ UNCHANGED <<until, call>>
    /\ UNCHANGED <<now, owed>>

DeferCas(c) ==
    /\ call[c].pc = "d_cas"
    /\ \/ /\ until = call[c].expected
          /\ until' = Replacement(OrDefault(call[c].expected), call[c].requested)
          /\ call' = [call EXCEPT ![c].pc = "d_done", ![c].expected = NoCooldown]
       \/ /\ until # call[c].expected
          /\ call' = [call EXCEPT ![c].pc = "d_get", ![c].expected = NoCooldown]
          /\ UNCHANGED until
    /\ UNCHANGED <<now, owed>>

\* The host drops the future of a cancelled operation at an await point.
Cancel(c) ==
    /\ call[c].pc = "sleep"
    /\ call' = [call EXCEPT ![c] = IdleCall]
    /\ UNCHANGED <<now, until, owed>>

Step(c) ==
    \/ WaitGet(c) \/ WaitClock(c) \/ Budget(c) \/ Wake(c)
    \/ DeferGet(c) \/ DeferCas(c)

Tick ==
    /\ now < Horizon
    /\ now' = now + 1
    /\ UNCHANGED <<until, call, owed>>

Next ==
    \/ Tick
    \/ \E c \in Callers :
         \/ \E deadline \in Deadlines : BeginWait(c, deadline)
         \/ \E delay \in Delays : BeginDefer(c, delay)
         \/ Step(c)
         \/ Cancel(c)

\* The host polls every future that is ready, and its clock advances.
Fairness == WF_vars(Tick) /\ \A c \in Callers : WF_vars(Step(c))

Spec == Init /\ [][Next]_vars /\ Fairness

-----------------------------------------------------------------------------
TypeOK ==
    /\ now \in 0..Horizon
    /\ until \in Nat \union {NoCooldown}
    /\ call \in [Callers -> Call]
    /\ owed \in [Callers -> Nat]

(***************************************************************************)
(* "Extend the shared cooldown without shortening a longer concurrent one" *)
(* (defer_for): whatever defer_for() calls race, the recorded instant only *)
(* ever moves later.                                                       *)
(***************************************************************************)
NeverShortened == [][OrDefault(until') >= OrDefault(until)]_vars

(***************************************************************************)
(* A defer_for() that returned has taken effect, and no later call of      *)
(* anyone takes it back.                                                   *)
(***************************************************************************)
DeferTakesEffect ==
    \A c \in Callers :
        call[c].pc = "d_done" => OrDefault(until) >= call[c].requested

(***************************************************************************)
(* "Delay a request until any recorded cooldown has elapsed" (wait): when  *)
(* wait() returns Ok, every cooldown recorded before its last await point  *)
(* is over, also one recorded or extended while it slept.                  *)
(***************************************************************************)
WaitedOut == \A c \in Callers : call[c].pc = "w_ok" => owed[c] <= now

(***************************************************************************)
(* The inductive invariant behind the three: from its last await point to  *)
(* its return a wait() holds on to a value no earlier than what it owed.   *)
(***************************************************************************)
OwedKept ==
    \A c \in Callers :
        /\ call[c].pc = "w_get" => owed[c] <= OrDefault(until)
        /\ call[c].pc = "w_clock" => owed[c] <= OrDefault(call[c].expected)
CooldownInv == TypeOK /\ DeferTakesEffect /\ WaitedOut /\ OwedKept

(***************************************************************************)
(* Every wait() and defer_for() returns, although others keep pushing the  *)
(* cooldown back: the deadline or the last deferral bounds the wait.       *)
(***************************************************************************)
CallReturns ==
    \A c \in Callers : (call[c].pc \in {"w_get", "d_get"}) ~> Returned(c)
=============================================================================
