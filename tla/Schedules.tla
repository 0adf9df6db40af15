----------------------------- MODULE Schedules -----------------------------
(***************************************************************************)
(* The plans of one session and work directory: the tables schedules and    *)
(* schedule_occurrences (persistence/schedule_store.py), and for every      *)
(* occurrence the task that it puts into the durable queue.                 *)
(*                                                                         *)
(* Every process that has the session open ticks over the same rows while   *)
(* users change them.  A call reads the clock first and then runs one       *)
(* BEGIN IMMEDIATE transaction; while it waits for the transaction of       *)
(* another process, time passes and the rows change.                        *)
(*                                                                         *)
(* The queue is seen from outside: a task is claimed, ends, or is cancelled.*)
(* That a claimed task of a schedule is never queued again is               *)
(* ScheduledRunsOnce of DurableTasks.                                       *)
(***************************************************************************)
EXTENDS Naturals, FiniteSets, FiniteSetsExt

CONSTANTS
  Schedules,   \* ids of the schedules
  Waiters,     \* calls that may wait for the transactions of others
  None,        \* SQL NULL
  Kind,        \* Kind[s]: "once", "interval" or "cron"
  Every,       \* Every[s]: the period of an interval
  Calendar,    \* Calendar[s]: the times of a cron, or the one of a once plan
  Horizon,     \* the last time of the clock that is looked at
  MaxActive,   \* plans of a session that may be active (50)
  Limit,       \* plans one admission looks at (20)
  Waits        \* the calls that may have to wait

Times == 0 .. Horizon
Calls == ({"create", "pause", "resume", "delete"} \X Schedules) \cup {<<"admit", None>>}

ASSUME SchedulesAssumption ==
  /\ None \notin Nat
  /\ Kind \in [Schedules -> {"once", "interval", "cron"}]
  /\ Every \in [Schedules -> Nat \ {0}]
  /\ Calendar \in [Schedules -> SUBSET Nat]
  /\ \A s \in Schedules :
       /\ Kind[s] = "once" => \E t \in Calendar[s] : Calendar[s] = {t}
       /\ Kind[s] = "cron" => \A t \in Times : \E c \in Calendar[s] : c > t
  /\ Horizon \in Nat
  /\ MaxActive \in Nat
  /\ Limit \in Nat \ {0}
  /\ Waits \subseteq Calls

VARIABLES
  now,    \* the clock
  plan,   \* plan[s]: the row of s in schedules
  occ,    \* occ[s][t]: the occurrence of s scheduled for t, and its task
  call,   \* call[w]: what the waiting call w does, and the time it has read
  behind  \* history: the plans whose next time was computed from a clock that
          \* had been read before an admission of the plan

vars == <<now, plan, occ, call, behind>>
-----------------------------------------------------------------------------
Status == {"absent", "enabled", "paused", "running", "completed", "failed", "deleted"}
Plan   == [status : Status, next : Nat \cup {None}]
Tasks  == {"none", "queued", "held", "succeeded", "stopped"}

TypeOK ==
  /\ now \in Times
  /\ plan \in [Schedules -> Plan]
  /\ occ \in [Schedules -> [Times -> [at : Times, task : Tasks]]]
  /\ call \in [Waiters -> (Calls \X Times) \cup {None}]
  /\ behind \subseteq Schedules

Init ==
  /\ now = 0
  /\ plan = [s \in Schedules |-> [status |-> "absent", next |-> None]]
  /\ occ = [s \in Schedules |-> [t \in Times |-> [at |-> 0, task |-> "none"]]]
  /\ call = [w \in Waiters |-> None]
  /\ behind = {}
-----------------------------------------------------------------------------
(* next_occurrence *)
NextOccurrence(s, t) ==
  LET later == {c \in Calendar[s] : c > t}
  IN  IF Kind[s] = "interval" THEN t + Every[s]
      ELSE IF later = {} THEN None ELSE Min(later)

(* Mutant: a task that nobody has claimed yet does not count. *)
PendingOnlyHeld(task) == task = "held"

(* Mutant: a failed task counts until somebody deals with it. *)
PendingUntilSuccess(task) == task \in {"queued", "held", "stopped"}

Pending(task) == task \in {"queued", "held"}

Active(s) == \E t \in Times : Pending(occ[s][t].task)

Ran(s) == \E t \in Times : occ[s][t].task = "succeeded"

(* An occurrence of s has been admitted at a later time than t. *)
Overtaken(s, t) == \E u \in Times : occ[s][u].task # "none" /\ occ[s][u].at > t

Create(s, t) ==
  LET due    == NextOccurrence(s, t)
      active == {q \in Schedules : plan[q].status \in {"enabled", "paused", "running"}}
  IN  /\ plan' = IF plan[s].status = "absent" /\ due # None /\ Cardinality(active) < MaxActive
                 THEN [plan EXCEPT ![s] = [status |-> "enabled", next |-> due]]
                 ELSE plan
      /\ UNCHANGED <<occ, behind>>

Exists(s) == plan[s].status \notin {"absent", "deleted"}

(* Mutant: only delete cancels what is queued. *)
PauseKeepsQueued(s) ==
  /\ plan' = IF Exists(s) THEN [plan EXCEPT ![s].status = "paused"] ELSE plan
  /\ UNCHANGED <<occ, behind>>

(* A task that is claimed goes on. *)
Withdraw(s, status) ==
  /\ plan' = [plan EXCEPT ![s].status = status]
  /\ occ' = [occ EXCEPT ![s] =
       [t \in Times |-> IF @[t].task = "queued" THEN [@[t] EXCEPT !.task = "stopped"]
                                               ELSE @[t]]]
  /\ UNCHANGED behind

(* change, one operator for each of its actions. *)
Pause(s)  == IF Exists(s) THEN Withdraw(s, "paused") ELSE UNCHANGED <<plan, occ, behind>>

Delete(s) == IF Exists(s) THEN Withdraw(s, "deleted") ELSE UNCHANGED <<plan, occ, behind>>

Resume(s, t) ==
  /\ IF plan[s].status = "paused" /\ NextOccurrence(s, t) # None
     THEN /\ plan' = [plan EXCEPT ![s] = [status |-> "enabled", next |-> NextOccurrence(s, t)]]
          /\ behind' = IF Overtaken(s, t) THEN behind \cup {s} ELSE behind \ {s}
     ELSE UNCHANGED <<plan, behind>>
  /\ UNCHANGED occ

Due(s, t) == plan[s].status = "enabled" /\ plan[s].next <= t

(* Mutant: the next occurrence follows the admitted one, not the clock. *)
FollowingPlanned(s, t) ==
  IF Kind[s] = "once" THEN [status |-> "running", next |-> None]
  ELSE [status |-> "enabled", next |-> NextOccurrence(s, plan[s].next)]

Following(s, t) ==
  IF Kind[s] = "once" THEN [status |-> "running", next |-> None]
  ELSE [status |-> "enabled", next |-> NextOccurrence(s, t)]

(* Mutant: a once plan takes over the status of its task. *)
SettledAsTask(s) ==
  IF plan[s].status = "running" /\ ~Active(s)
  THEN [plan[s] EXCEPT !.status = IF Ran(s) THEN "succeeded" ELSE "failed"]
  ELSE plan[s]

(* A once plan is settled by its task. *)
Settled(s) ==
  IF plan[s].status = "running" /\ ~Active(s)
  THEN [plan[s] EXCEPT !.status = IF Ran(s) THEN "completed" ELSE "failed"]
  ELSE plan[s]

(* admit_due: the Limit most overdue plans are looked at, the ones with an  *)
(* active task are skipped.  The primary key of schedule_occurrences undoes *)
(* the whole admission when one occurrence has been admitted before.        *)
AdmitDue(t) ==
  LET due == {s \in Schedules : Due(s, t)}
  IN  \E first \in kSubset(Min({Limit, Cardinality(due)}), due) :
        LET admitted == {s \in first : ~Active(s)}
        IN  /\ \A s \in first, q \in due \ first : plan[s].next <= plan[q].next
            /\ IF \E s \in admitted : occ[s][plan[s].next].task # "none"
               THEN UNCHANGED <<plan, occ, behind>>
               ELSE /\ behind' = behind \ {s \in admitted : ~Overtaken(s, t)}
                    /\ occ' = [s \in Schedules |-> IF s \in admitted
                         THEN [occ[s] EXCEPT ![plan[s].next] = [at |-> t, task |-> "queued"]]
                         ELSE occ[s]]
                    /\ plan' = [s \in Schedules |->
                         IF s \in admitted THEN Following(s, t) ELSE Settled(s)]

Transact(c, t) ==
  CASE c[1] = "create" -> Create(c[2], t)
    [] c[1] = "pause"  -> Pause(c[2])
    [] c[1] = "resume" -> Resume(c[2], t)
    [] c[1] = "delete" -> Delete(c[2])
    [] c[1] = "admit"  -> AdmitDue(t)

(* A call that does not have to wait. *)
CallNow(c) == Transact(c, now) /\ UNCHANGED <<now, call>>

(* A call that has to: current is read, the transaction comes later. *)
ReadClock(w, c) ==
  /\ call[w] = None
  /\ c \in Waits
  /\ call' = [call EXCEPT ![w] = <<c, now>>]
  /\ UNCHANGED <<now, plan, occ, behind>>

CallLate(w) ==
  /\ call[w] # None
  /\ Transact(call[w][1], call[w][2])
  /\ call' = [call EXCEPT ![w] = None]
  /\ UNCHANGED now
-----------------------------------------------------------------------------
(* The durable queue, and the clock. *)
SetTask(s, t, task) ==
  /\ occ' = [occ EXCEPT ![s][t].task = task]
  /\ UNCHANGED <<now, plan, call, behind>>

TaskClaimed(s, t) == occ[s][t].task = "queued" /\ SetTask(s, t, "held")

TaskEnds(s, t) ==
  /\ occ[s][t].task = "held"
  /\ \E task \in {"succeeded", "stopped"} : SetTask(s, t, task)

TaskCancelled(s, t) == occ[s][t].task = "queued" /\ SetTask(s, t, "stopped")

Tick ==
  /\ now < Horizon
  /\ now' = now + 1
  /\ UNCHANGED <<plan, occ, call, behind>>

Next ==
  \/ \E c \in Calls : CallNow(c)
  \/ \E w \in Waiters, c \in Calls : ReadClock(w, c)
  \/ \E w \in Waiters : CallLate(w)
  \/ \E s \in Schedules, t \in Times :
       TaskClaimed(s, t) \/ TaskEnds(s, t) \/ TaskCancelled(s, t)
  \/ Tick

Spec == Init /\ [][Next]_vars
-----------------------------------------------------------------------------
(* Executions of one plan never overlap: whatever processes tick, users      *)
(* pause and resume, and tasks of earlier occurrences still do, at most one  *)
(* task of a plan is queued or at work (README.md:252).                     *)
NoOverlap ==
  \A s \in Schedules : \A t, u \in Times :
    occ[s][t].task \in {"queued", "held"} /\ occ[s][u].task \in {"queued", "held"} => t = u

(* Missed periods are merged into one run (README.md:252): what was due      *)
(* already when an occurrence of the plan was admitted is not made up for,  *)
(* by no tick, whatever it has waited for, and by no resumption.  Except:   *)
(* change and admit_due read the clock before they wait for their           *)
(* transaction, so a resumption that an admission overtakes meanwhile aims  *)
(* at a time that is past, and the next admission makes up for it.          *)
MissedAreCoalesced ==
  [][\A s \in Schedules \ behind : \A t, u \in Times :
       /\ occ[s][t].task # "none"
       /\ occ[s][u].task = "none" /\ occ'[s][u].task # "none"
       => u > occ[s][t].at]_vars

(* What a user reads of a plan agrees with its tasks: a paused or deleted    *)
(* plan has nothing left to be claimed, a once plan is reported as completed *)
(* or failed only behind a task that ended so (README.md:256,               *)
(* schedule_store.py:104).                                                  *)
StatusAgreesWithTasks ==
  \A s \in Schedules :
    LET tasks == {occ[s][t].task : t \in Times}
    IN  /\ plan[s].status \in {"paused", "deleted"} => "queued" \notin tasks
        /\ plan[s].status = "completed" => "succeeded" \in tasks
        /\ plan[s].status = "failed" =>
             tasks \cap {"queued", "held", "succeeded"} = {} /\ tasks # {"none"}
-----------------------------------------------------------------------------
(* Liveness.  Every process ticks for as long as it lives (CronRuntime), a    *)
(* call that waits gets its transaction, claimed tasks end and some process  *)
(* adopts the queued ones (ResumableTasksFinish of DurableTasks): of a plan  *)
(* at most one is pending (NoOverlap).                                      *)
Fairness ==
  /\ WF_vars(CallNow(<<"admit", None>>))
  /\ \A w \in Waiters : WF_vars(CallLate(w))
  /\ \A s \in Schedules :
       /\ WF_vars(\E t \in Times : TaskClaimed(s, t))
       /\ WF_vars(\E t \in Times : TaskEnds(s, t))

FairSpec == Spec /\ Fairness

(* The next time of a plan that a resumption has set behind may have been    *)
(* admitted before: its row exists, and as long as the plan is due every     *)
(* admission of the session is undone.                                      *)
Clash == \E s \in behind : Due(s, now) /\ occ[s][plan[s].next].task # "none"

(* A due plan is admitted or withdrawn, however many plans are more overdue  *)
(* or blocked by work in progress; and a once plan does not stay running     *)
(* after its task has ended.  Except behind a clash.                         *)
Waiting(s) == Due(s, now) \/ plan[s].status = "running"

PlansMoveOn == \A s \in Schedules : Waiting(s) ~> ~Waiting(s) \/ Clash
=============================================================================
