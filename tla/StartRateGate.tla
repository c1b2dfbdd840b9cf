--------------------------- MODULE StartRateGate ---------------------------
(***************************************************************************)
(* StartRateGate of src/pdk/scryer-plugin-pdk/src/runtime.rs: requests of  *)
(* concurrent operations are spread out in time through one shared state   *)
(* cell that holds the stamp of the latest start.  acquire() is a          *)
(* read / clock / compare-and-set loop without a lock; every host call in  *)
(* it is a separate step, so that callers (guest futures, or operations    *)
(* in several component instances that share the state) interleave between *)
(* any two of them and the clock may move in between.                      *)
(***************************************************************************)
EXTENDS HostRuntime, FiniteSets

CONSTANTS
    Callers,        \* operations that use the gate
    Starts,         \* StartRateGate::new's `starts` ...
    IntervalMs,     \* ... per `interval_ms`
    Deadlines,      \* deadlines an operation may carry
    Horizon,        \* BOUND: the last instant of the clock
    NoStamp         \* the state cell before the first start (None)

ASSUME CallersAssumption == Callers # {}
ASSUME RateAssumption == Starts \in Nat /\ IntervalMs \in Nat
ASSUME DeadlineAssumption == Deadlines \subseteq Nat
\* The clock counts milliseconds from a boot: it never gets near 2^64.
ASSUME HorizonAssumption == Horizon \in Nat /\ Horizon < U64Max
ASSUME NoStampAssumption == NoStamp \notin Nat

VARIABLES
    now,            \* host monotonic clock
    stamp,          \* the gate's state cell
    call,           \* per caller: where its acquire() is, and its locals
    starts          \* history: every start the gate has admitted

vars == <<now, stamp, call, starts>>

\* Mutant: the interval is divided without rounding up.
GapFloor == MaxOf(MaxOf(IntervalMs, 1) \div MaxOf(Starts, 1), 1)

\* StartRateGate::new: an evenly spaced gate never rounds the gap down.
Gap == MaxOf(DivCeil(MaxOf(IntervalMs, 1), MaxOf(Starts, 1)), 1)

PCs == {"idle", "get", "clock", "budget", "sleep", "cas", "ok", "deferred"}

Call == [pc       : PCs,
         expected : Nat \union {NoStamp},   \* bytes the last state_get returned
         seen     : Nat,                    \* `now` read after it
         duration : Nat,                    \* wait asked of sleep_until_deadline
         wake     : Nat,
         deadline : Nat]

IdleCall == [pc |-> "idle", expected |-> NoStamp, seen |-> 0,
             duration |-> 0, wake |-> 0, deadline |-> 0]

\* A call at the top of the loop: the locals of an earlier turn are gone.
Looping(deadline) == [IdleCall EXCEPT !.pc = "get", !.deadline = deadline]
Returning(pc) == [IdleCall EXCEPT !.pc = pc]

Init ==
    /\ now = 0
    /\ stamp = NoStamp
    /\ call = [c \in Callers |-> IdleCall]
    /\ starts = {}

(***************************************************************************)
(* Steps of acquire().                                                     *)
(***************************************************************************)
Returned(c) == call[c].pc \in {"idle", "ok", "deferred"}

Begin(c, deadline) ==
    /\ Returned(c)
    /\ call' = [call EXCEPT ![c] = Looping(deadline)]
    /\ UNCHANGED <<now, stamp, starts>>

\* let expected = state_get(key)
Get(c) ==
    /\ call[c].pc = "get"
    /\ call' = [call EXCEPT ![c].pc = "clock", ![c].expected = stamp]
    /\ UNCHANGED <<now, stamp, starts>>

\* previous.unwrap_or(now - interval) + interval, saturating on both sides
EligibleAt(previous, t) ==
    SatAdd(IF previous = NoStamp THEN SatSub(t, Gap) ELSE previous, Gap)

\* Mutant: the operands of the wait's subtraction are swapped.
ClockSwapped(c) ==
    /\ call[c].pc = "clock"
    /\ \/ /\ EligibleAt(call[c].expected, now) > now
          /\ call' = [call EXCEPT ![c].pc = "budget", ![c].expected = NoStamp,
                        ![c].duration = now - EligibleAt(call[c].expected, now)]
       \/ /\ EligibleAt(call[c].expected, now) <= now
          /\ call' = [call EXCEPT ![c].pc = "cas", ![c].seen = now]
    /\ UNCHANGED <<now, stamp, starts>>

\* let now = monotonic_now_ms(): wait for the slot, or try to take it
Clock(c) ==
    /\ call[c].pc = "clock"
    /\ \/ /\ EligibleAt(call[c].expected, now) > now
          /\ call' = [call EXCEPT ![c].pc = "budget", ![c].expected = NoStamp,
                        ![c].duration = SatSub(EligibleAt(call[c].expected, now), now)]
       \/ /\ EligibleAt(call[c].expected, now) <= now
          /\ call' = [call EXCEPT ![c].pc = "cas", ![c].seen = now]
    /\ UNCHANGED <<now, stamp, starts>>

\* sleep_until_deadline(eligible_at - now).await?
Budget(c) ==
    /\ call[c].pc = "budget"
    /\ call' = [call EXCEPT ![c] = SleepUntilDeadline(call[c], now)]
    /\ UNCHANGED <<now, stamp, starts>>

\* the sleep is over; continue the loop
Wake(c) ==
    /\ call[c].pc = "sleep"
    /\ now >= call[c].wake
    /\ call' = [call EXCEPT ![c] = Looping(call[c].deadline)]
    /\ UNCHANGED <<now, stamp, starts>>

\* Mutant: a plain write where the code compares and sets.
CasBlindWrite(c) ==
    /\ call[c].pc = "cas"
    /\ stamp' = call[c].seen
    /\ starts' = starts \union {[by |-> c, stamp |-> call[c].seen]}
    /\ call' = [call EXCEPT ![c] = Returning("ok")]
    /\ UNCHANGED now

\* Mutant: a lost compare-and-set is tried again without a new state_get.
CasAgain(c) ==
    /\ call[c].pc = "cas"
    /\ \/ /\ stamp = call[c].expected
          /\ stamp' = call[c].seen
          /\ starts' = starts \union {[by |-> c, stamp |-> call[c].seen]}
          /\ call' = [call EXCEPT ![c] = Returning("ok")]
       \/ /\ stamp # call[c].expected
          /\ UNCHANGED <<stamp, starts, call>>
    /\ UNCHANGED now

\* state_cas(key, expected, now): return, or loop
Cas(c) ==
    /\ call[c].pc = "cas"
    /\ \/ /\ stamp = call[c].expected
          /\ stamp' = call[c].seen
          /\ starts' = starts \union {[by |-> c, stamp |-> call[c].seen]}
          /\ call' = [call EXCEPT ![c] = Returning("ok")]
       \/ /\ stamp # call[c].expected
          /\ call' = [call EXCEPT ![c] = Looping(call[c].deadline)]
          /\ UNCHANGED <<stamp, starts>>
    /\ UNCHANGED now

\* The host drops the future of a cancelled operation at an await point.
Cancel(c) ==
    /\ call[c].pc = "sleep"
    /\ call' = [call EXCEPT ![c] = IdleCall]
    /\ UNCHANGED <<now, stamp, starts>>

Step(c) == Get(c) \/ Clock(c) \/ Budget(c) \/ Wake(c) \/ Cas(c)

Tick ==
    /\ now < Horizon
    /\ now' = now + 1
    /\ UNCHANGED <<stamp, call, starts>>

Next ==
    \/ Tick
    \/ \E c \in Callers :
         \/ \E deadline \in Deadlines : Begin(c, deadline)
         \/ Step(c)
         \/ Cancel(c)

\* The host polls every future that is ready, and its clock advances.
Fairness == WF_vars(Tick) /\ \A c \in Callers : WF_vars(Step(c))

Spec == Init /\ [][Next]_vars /\ Fairness

-----------------------------------------------------------------------------
TypeOK ==
    /\ now \in 0..Horizon
    /\ stamp \in Nat \union {NoStamp}
    /\ call \in [Callers -> Call]
    /\ starts \subseteq [by : Callers, stamp : Nat]

(***************************************************************************)
(* Any two starts the gate admits, to whichever callers, are at least Gap  *)
(* apart: acquire()'s read, clock reading and compare-and-set lose no race *)
(* although nothing is locked between them.                                *)
(***************************************************************************)
Spacing ==
    \A a, b \in starts :
        a # b => \/ a.stamp + Gap <= b.stamp
                 \/ b.stamp + Gap <= a.stamp

(***************************************************************************)
(* The policy a plugin asked for: no window of IntervalMs holds more than  *)
(* `starts` starts.  Rounding the gap up in StartRateGate::new is what     *)
(* makes spacing imply it when `starts` does not divide the interval.      *)
(***************************************************************************)
RateHonoured ==
    \A w \in 0..Horizon :
        Cardinality({s \in starts : w <= s.stamp /\ s.stamp < w + MaxOf(IntervalMs, 1)})
            <= MaxOf(Starts, 1)

(***************************************************************************)
(* Every acquire() returns: it is admitted, or deferred because the wait   *)
(* does not fit in the operation's deadline, however the others interleave *)
(* and although a cancelled waiter never comes back.                       *)
(***************************************************************************)
AcquireReturns == \A c \in Callers : (call[c].pc = "get") ~> Returned(c)

(***************************************************************************)
(* The inductive invariant behind Spacing: the cell holds the latest       *)
(* stamp, and whoever is about to compare-and-set has seen the clock at    *)
(* least Gap after the stamp it expects.                                   *)
(***************************************************************************)
LatestStamp ==
    /\ stamp = NoStamp => starts = {}
    /\ \A s \in starts : stamp \in Nat /\ s.stamp <= stamp
CasReady ==
    \A c \in Callers :
        call[c].pc = "cas" /\ call[c].expected # NoStamp
            => call[c].expected + Gap <= call[c].seen
SpacingInv == TypeOK /\ LatestStamp /\ CasReady /\ Spacing
=============================================================================
