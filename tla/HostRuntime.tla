---------------------------- MODULE HostRuntime ----------------------------
(***************************************************************************)
(* What src/pdk/scryer-plugin-pdk/src/runtime.rs gives every plugin: u64   *)
(* millisecond arithmetic that saturates, and sleep_until_deadline, the    *)
(* wait that refuses to outlive the operation it serves.  The host's side  *)
(* (atomic state_get / state_cas, the clocks) is external: a module that   *)
(* uses it declares the state cell and the clock as variables, and reads   *)
(* and writes each of them in a step of its own.                           *)
(***************************************************************************)
EXTENDS Integers

CONSTANT U64Max        \* the largest u64; far above every clock reading

ASSUME U64MaxAssumption == U64Max \in Nat

MaxOf(a, b) == IF a >= b THEN a ELSE b
MinOf(a, b) == IF a <= b THEN a ELSE b

\* u64::saturating_add and u64::saturating_sub
SatAdd(a, b) == MinOf(a + b, U64Max)
SatSub(a, b) == IF a > b THEN a - b ELSE 0

\* u64::div_ceil, for b > 0
DivCeil(a, b) == (a + b - 1) \div b

(***************************************************************************)
(* sleep_until_deadline(call.duration): the second clock reading `now`     *)
(* (the caller took an earlier one to compute the duration) decides        *)
(* between registering the sleep and DeadlineExceeded.  A zero duration is *)
(* a sleep that is over at once.                                           *)
(***************************************************************************)
SleepUntilDeadline(call, now) ==
    IF call.duration <= SatSub(call.deadline, now)
      THEN [call EXCEPT !.pc = "sleep", !.duration = 0, !.wake = now + call.duration]
      ELSE [call EXCEPT !.pc = "deferred"]
=============================================================================
