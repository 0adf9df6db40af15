---------------------------- MODULE MCSchedules ----------------------------
EXTENDS Schedules, TLC

CONSTANTS once, hourly, daily, c1

(* A plan of each kind; time is counted in the shortest period. *)
MCKind     == (once :> "once") @@ (hourly :> "interval") @@ (daily :> "cron")
MCEvery    == [s \in {once, hourly, daily} |-> 1]
MCCalendar == (once :> {1}) @@ (hourly :> {}) @@ (daily :> {2, 3})

(* Ticks wait, and the resumptions of one plan. *)
MCWaits == {<<"admit", None>>, <<"resume", hourly>>}
=============================================================================
