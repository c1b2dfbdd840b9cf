---------------------------- MODULE MCPoliteHttp ----------------------------
(***************************************************************************)
(* Two operations, two attempts each; start slots two apart; a 429 asks    *)
(* for 2, a drained response pauses everyone.  The clock holds three start *)
(* slots and reaches a second hour; the hit budget is one request an hour, *)
(* two a day, so it runs out for whoever comes second or retries at once.  *)
(***************************************************************************)
EXTENDS PoliteHttp

MCDeadlines == {4}
MCHours == 0..1
MCDays == 0..0
MCResponses ==
    { [status |-> "ok",    retry |-> NoDelay, drained |-> FALSE],
      [status |-> "ok",    retry |-> 3,       drained |-> TRUE],
      [status |-> "429",   retry |-> NoDelay, drained |-> FALSE],
      [status |-> "503",   retry |-> 1,       drained |-> FALSE],
      [status |-> "503",   retry |-> NoDelay, drained |-> FALSE],
      [status |-> "error", retry |-> NoDelay, drained |-> FALSE] }
=============================================================================
