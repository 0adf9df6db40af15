---------------------------- MODULE DurableTasks ----------------------------
(***************************************************************************)
(* The durable background-task queue: the tables tasks and task_attempts    *)
(* (persistence/task_store.py), written by every process that has the       *)
(* database open, and the coroutine that each process runs per task         *)
(* (agents/durable_task_manager.py).                                        *)
(*                                                                         *)
(* One action is one BEGIN IMMEDIATE transaction, together with the local   *)
(* steps up to the next database access.  A coroutine that makes several    *)
(* accesses without an await in between is, inside its own process, not     *)
(* preempted (AtAwait); the other processes interleave freely.              *)
(*                                                                         *)
(* A worker id names one process incarnation: a restarted process draws a   *)
(* fresh id (uuid4), so a worker that is down never comes back.             *)
(***************************************************************************)
EXTENDS Naturals, Sequences, FiniteSets

CONSTANTS
  Tasks,        \* ids of the background tasks
  Workers,      \* ids of the process incarnations
  None,         \* SQL NULL
  Deps,         \* Deps[t]: the dependencies t is created with
  MaxAttempts,  \* max_attempts given to launch
  Resumable,    \* tasks with a reconstruction descriptor (resume_spec)
  Scheduled,    \* resumable tasks that admit_due inserts for a schedule
  TeamTasks,    \* tasks whose agent is a teammate: it idles after its success
  Mortal,       \* workers that may crash or shut down
  Stalls        \* may a live worker miss its heartbeats for a whole lease?

ASSUME DurableTasksAssumption ==
  /\ None \notin Workers
  /\ Deps \in [Tasks -> SUBSET Tasks]
  /\ MaxAttempts \in Nat \ {0}
  /\ Resumable \subseteq Tasks
  /\ Scheduled \subseteq Resumable
  /\ TeamTasks \subseteq Tasks \ Resumable
  /\ Mortal \subseteq Workers
  /\ Stalls \in BOOLEAN

VARIABLES
  row,        \* row[t]: the row of t in tasks
  attempts,   \* attempts[t]: the rows of t in task_attempts, by attempt number
  proc,       \* proc[w]: life of the process w
  pc,         \* pc[w][t]: where the coroutine of w for t is
  seen,       \* seen[w][t]: the task row that coroutine read before it writes
  cancelling  \* cancelling[w]: task whose status cancel() has read as queued

vars == <<row, attempts, proc, pc, seen, cancelling>>
-----------------------------------------------------------------------------
(* Types.  attempt_count is Len(attempts[t]): one transaction, claim, writes *)
(* both.  lapsed stands for lease_expires_at <= now, backoff for            *)
(* next_retry_at > now, closed for completed_at IS NOT NULL.                *)

Finished == {"succeeded", "failed", "cancelled"}
Held     == {"leased", "running"}
Status   == {"absent", "queued"} \cup Held \cup Finished

AttemptStatus == {"leased", "running", "succeeded", "failed", "expired",
                  "interrupted", "cancelled"}

Row     == [status : Status, owner : Workers \cup {None},
            lapsed : BOOLEAN, backoff : BOOLEAN, max : Nat]
Attempt == [worker : Workers, status : AttemptStatus, closed : BOOLEAN]
Seen    == [attempt : Nat, exhausted : BOOLEAN]

(* Where a coroutine can be.  In the second set it is between two database  *)
(* accesses with no await, in the first it waits and may be cancelled.      *)
Cancellable == {"poll", "exec", "backoff", "idle"}
Unwinding   == {"unwind3", "unwind2", "unwind1"}
Atomic      == {"claimed", "succeed", "commit", "raised", "failing", "requeue"}
Live        == Cancellable \cup Unwinding \cup Atomic
Place       == Live \cup {"none", "done"}

TypeOK ==
  /\ row \in [Tasks -> Row]
  /\ attempts \in [Tasks -> Seq(Attempt)]
  /\ proc \in [Workers -> {"unborn", "up", "stopping", "down"}]
  /\ pc \in [Workers -> [Tasks -> Place]]
  /\ seen \in [Workers -> [Tasks -> Seen]]
  /\ cancelling \in [Workers -> Tasks \cup {None}]

NoSeen == [attempt |-> 0, exhausted |-> FALSE]

(* max_attempts of a new row. *)
Budget(t) == IF t \in Scheduled THEN 1 ELSE MaxAttempts

Init ==
  /\ row = [t \in Tasks |-> [status |-> "absent", owner |-> None, lapsed |-> FALSE,
                            backoff |-> FALSE, max |-> Budget(t)]]
  /\ attempts = [t \in Tasks |-> <<>>]
  /\ proc = [w \in Workers |-> "unborn"]
  /\ pc = [w \in Workers |-> [t \in Tasks |-> "none"]]
  /\ seen = [w \in Workers |-> [t \in Tasks |-> NoSeen]]
  /\ cancelling = [w \in Workers |-> None]
-----------------------------------------------------------------------------
(* The tables.                                                              *)

(* TASK_TRANSITIONS; equal states are accepted and change nothing. *)
Allowed(from, to) ==
  CASE from = "queued"  -> to \in {"leased", "cancelled"}
    [] from = "leased"  -> to \in {"running", "queued", "failed", "cancelled"}
    [] from = "running" -> to \in Finished \cup {"queued"}
    [] from = "failed"  -> to = "queued"
    [] OTHER            -> FALSE

Exhausted(t) == Len(attempts[t]) >= row[t].max

(* Mutant: a dependency that failed or was cancelled counts as done. *)
DependenciesReadyWhenFinished(t) == \A d \in Deps[t] : row[d].status \in Finished

DependenciesReady(t) == \A d \in Deps[t] : row[d].status = "succeeded"

(* Mutant: the claim does not compare attempt_count with max_attempts. *)
ClaimableBeyondBudget(t) ==
  /\ row[t].status = "queued"
  /\ ~row[t].backoff
  /\ DependenciesReady(t)

Claimable(t) ==
  /\ row[t].status = "queued"
  /\ ~row[t].backoff
  /\ ~Exhausted(t)
  /\ DependenciesReady(t)

(* A row whose lease columns are cleared. *)
NoLease(status, backoff, max) ==
  [status |-> status, owner |-> None, lapsed |-> FALSE,
   backoff |-> backoff, max |-> max]

Unowned(r, status) == NoLease(status, r.backoff, r.max)

(* UPDATE task_attempts ... WHERE task_id = ? AND attempt = n *)
CloseAttempt(t, n, status) ==
  [attempts EXCEPT ![t][n] = [worker |-> @.worker, status |-> status, closed |-> TRUE]]

(* ... AND completed_at IS NULL, for the latest attempt *)
CloseOpen(t, status) ==
  IF attempts[t] # <<>> /\ ~attempts[t][Len(attempts[t])].closed
  THEN CloseAttempt(t, Len(attempts[t]), status)
  ELSE attempts

(* Mutant: the finished states are not excluded. *)
CancelForWorkerAlsoFinished(t, w) ==
  IF row[t].status # "absent" /\ row[t].owner \in {w, None}
  THEN /\ attempts' = CloseOpen(t, "cancelled")
       /\ row' = [row EXCEPT ![t] = Unowned(@, "cancelled")]
  ELSE UNCHANGED <<row, attempts>>

CancelForWorker(t, w) ==
  IF row[t].status = "queued" \/ (row[t].status \in Held /\ row[t].owner = w)
  THEN /\ attempts' = CloseOpen(t, "cancelled")
       /\ row' = [row EXCEPT ![t] = Unowned(@, "cancelled")]
  ELSE UNCHANGED <<row, attempts>>

(* Mutant: max_attempts is not raised. *)
ReleaseForShutdownKeepsMax(t, w) ==
  IF row[t].status \in Held /\ row[t].owner = w
  THEN /\ attempts' = CloseOpen(t, "interrupted")
       /\ row' = [row EXCEPT ![t] = NoLease("queued", FALSE, @.max)]
  ELSE UNCHANGED <<row, attempts>>

ReleaseForShutdown(t, w) ==
  IF row[t].status \in Held /\ row[t].owner = w
  THEN /\ attempts' = CloseOpen(t, "interrupted")
       /\ row' = [row EXCEPT ![t] = NoLease("queued", FALSE, @.max + 1)]
  ELSE UNCHANGED <<row, attempts>>

(* Mutant: the expiry is not compared with the clock. *)
RecoverAllLeases ==
  /\ row' = [t \in Tasks |->
       IF row[t].status \in Held
       THEN Unowned(row[t], IF Exhausted(t) THEN "failed" ELSE "queued")
       ELSE row[t]]
  /\ attempts' = [t \in Tasks |->
       IF row[t].status \in Held THEN CloseOpen(t, "expired")[t] ELSE attempts[t]]

(* Mutant: the retry budget is not looked at. *)
RecoverAlwaysQueued ==
  /\ row' = [t \in Tasks |->
       IF row[t].lapsed THEN Unowned(row[t], "queued") ELSE row[t]]
  /\ attempts' = [t \in Tasks |->
       IF row[t].lapsed THEN CloseOpen(t, "expired")[t] ELSE attempts[t]]

(* One transaction over every held row whose lease has run out. *)
RecoverExpiredLeases ==
  /\ row' = [t \in Tasks |->
       IF row[t].lapsed
       THEN Unowned(row[t], IF Exhausted(t) THEN "failed" ELSE "queued")
       ELSE row[t]]
  /\ attempts' = [t \in Tasks |->
       IF row[t].lapsed THEN CloseOpen(t, "expired")[t] ELSE attempts[t]]
-----------------------------------------------------------------------------
(* Scheduling inside one process.                                           *)

Goto(w, t, place) == pc' = [pc EXCEPT ![w][t] = place]

(* No coroutine of w is between two database accesses without an await. *)
AtAwait(w) ==
  /\ \A t \in Tasks : pc[w][t] \notin Atomic
  /\ cancelling[w] = None

Awaits(w, t, places) ==
  /\ pc[w][t] \in places
  /\ AtAwait(w)

Start(w) ==
  /\ proc[w] = "unborn"
  /\ proc' = [proc EXCEPT ![w] = "up"]
  /\ RecoverExpiredLeases
  /\ UNCHANGED <<pc, seen, cancelling>>

(* _maintenance_loop *)
Maintain(w) ==
  /\ proc[w] = "up"
  /\ AtAwait(w)
  /\ \E t \in Tasks : row[t].lapsed
  /\ RecoverExpiredLeases
  /\ UNCHANGED <<proc, pc, seen, cancelling>>

Launch(w, t) ==
  /\ proc[w] = "up"
  /\ AtAwait(w)
  /\ t \notin Scheduled
  /\ row[t].status = "absent"
  /\ \A d \in Deps[t] : row[d].status # "absent"
  /\ row' = [row EXCEPT ![t].status = "queued"]
  /\ Goto(w, t, "poll")
  /\ UNCHANGED <<attempts, proc, seen, cancelling>>

(* ScheduleStore.admit_due inserts the task of an occurrence that is due; it *)
(* gets a coroutine when some process adopts it.                            *)
Admit(w, t) ==
  /\ proc[w] = "up"
  /\ AtAwait(w)
  /\ t \in Scheduled
  /\ row[t].status = "absent"
  /\ row' = [row EXCEPT ![t].status = "queued"]
  /\ UNCHANGED <<attempts, proc, pc, seen, cancelling>>

(* ScheduleStore.change, pause or delete: an unclaimed task is cancelled. *)
Withdraw(w, t) ==
  /\ proc[w] = "up"
  /\ AtAwait(w)
  /\ t \in Scheduled
  /\ row[t].status = "queued"
  /\ row' = [row EXCEPT ![t].status = "cancelled"]
  /\ UNCHANGED <<attempts, proc, pc, seen, cancelling>>

(* Mutant: a task that was attempted before is not adopted. *)
AdoptOnlyFresh(w, t) ==
  /\ proc[w] = "up"
  /\ Awaits(w, t, {"none"})
  /\ t \in Resumable
  /\ row[t].status = "queued"
  /\ attempts[t] = <<>>
  /\ Goto(w, t, "poll")
  /\ UNCHANGED <<row, attempts, proc, seen, cancelling>>

(* recover_persisted_tasks: never a task this process already has a handle of *)
AdoptPersisted(w, t) ==
  /\ proc[w] = "up"
  /\ Awaits(w, t, {"none"})
  /\ t \in Resumable
  /\ row[t].status = "queued"
  /\ Goto(w, t, "poll")
  /\ UNCHANGED <<row, attempts, proc, seen, cancelling>>
-----------------------------------------------------------------------------
(* The coroutine: _run_durable, _execute_attempts, _claim_when_ready.       *)

(* The polling loop finds the task finished by someone. *)
PollFinished(w, t) ==
  /\ Awaits(w, t, {"poll"})
  /\ row[t].status \in Finished
  /\ Goto(w, t, "done")
  /\ UNCHANGED <<row, attempts, proc, seen, cancelling>>

(* Mutant: no row is inserted into task_attempts when one exists already. *)
ClaimReusesAttempt(w, t) ==
  /\ Awaits(w, t, {"poll"})
  /\ Claimable(t)
  /\ row' = [row EXCEPT ![t] = [status |-> "leased", owner |-> w, lapsed |-> FALSE,
                               backoff |-> FALSE, max |-> @.max]]
  /\ attempts' = IF attempts[t] # <<>> THEN attempts ELSE [attempts EXCEPT ![t] =
                    Append(@, [worker |-> w, status |-> "leased", closed |-> FALSE])]
  /\ Goto(w, t, "claimed")
  /\ UNCHANGED <<proc, seen, cancelling>>

Claim(w, t) ==
  /\ Awaits(w, t, {"poll"})
  /\ Claimable(t)
  /\ row' = [row EXCEPT ![t] = [status |-> "leased", owner |-> w, lapsed |-> FALSE,
                               backoff |-> FALSE, max |-> @.max]]
  /\ attempts' = [attempts EXCEPT ![t] =
                    Append(@, [worker |-> w, status |-> "leased", closed |-> FALSE])]
  /\ Goto(w, t, "claimed")
  /\ UNCHANGED <<proc, seen, cancelling>>

(* Mutant: only the owner is checked, not the status. *)
MarkRunningByOwner(w, t) ==
  /\ pc[w][t] = "claimed"
  /\ IF row[t].owner = w
     THEN /\ row' = [row EXCEPT ![t].status = "running"]
          /\ attempts' = [attempts EXCEPT ![t][Len(attempts[t])].status = "running"]
          /\ Goto(w, t, "exec")
     ELSE /\ Goto(w, t, "done")
          /\ UNCHANGED <<row, attempts>>
  /\ UNCHANGED <<proc, seen, cancelling>>

(* Its ValueError is raised outside the try of _execute_attempts. *)
MarkRunning(w, t) ==
  /\ pc[w][t] = "claimed"
  /\ IF row[t].status = "leased" /\ row[t].owner = w
     THEN /\ row' = [row EXCEPT ![t].status = "running"]
          /\ attempts' = [attempts EXCEPT ![t][Len(attempts[t])].status = "running"]
          /\ Goto(w, t, "exec")
     ELSE /\ Goto(w, t, "done")
          /\ UNCHANGED <<row, attempts>>
  /\ UNCHANGED <<proc, seen, cancelling>>

(* A lease that is renewed late, but before it is recovered, is live again. *)
Heartbeat(w, t) ==
  /\ Awaits(w, t, {"exec"})
  /\ row[t].status \in Held
  /\ row[t].owner = w
  /\ row[t].lapsed
  /\ row' = [row EXCEPT ![t].lapsed = FALSE]
  /\ UNCHANGED <<attempts, proc, pc, seen, cancelling>>

Read(w, t) ==
  seen' = [seen EXCEPT ![w][t] =
             [attempt |-> Len(attempts[t]), exhausted |-> Exhausted(t)]]

Forget(w, t) == seen' = [seen EXCEPT ![w][t] = NoSeen]

(* run_to_completion returns and _succeed reads the row. *)
AgentReturns(w, t) ==
  /\ Awaits(w, t, {"exec"})
  /\ Read(w, t)
  /\ Goto(w, t, "succeed")
  /\ UNCHANGED <<row, attempts, proc, cancelling>>

(* Mutant: finish_attempt is called after the transition only, too late. *)
FinishSucceededLater(w, t) ==
  /\ pc[w][t] = "succeed"
  /\ Forget(w, t)
  /\ Goto(w, t, "commit")
  /\ UNCHANGED <<row, attempts, proc, cancelling>>

FinishSucceeded(w, t) ==
  /\ pc[w][t] = "succeed"
  /\ attempts' = CloseAttempt(t, seen[w][t].attempt, "succeeded")
  /\ Forget(w, t)
  /\ Goto(w, t, "commit")
  /\ UNCHANGED <<row, proc, cancelling>>

(* InvalidTransitionError is an Exception: the except clause of             *)
(* _execute_attempts takes the finished work for a failed attempt.          *)
CommitSucceeded(w, t) ==
  /\ pc[w][t] = "commit"
  /\ IF row[t].status = "succeeded" \/ Allowed(row[t].status, "succeeded")
     THEN Goto(w, t, IF t \in TeamTasks THEN "idle" ELSE "done")
     ELSE Goto(w, t, "raised")
  /\ row' = IF Allowed(row[t].status, "succeeded")
            THEN [row EXCEPT ![t] = Unowned(@, "succeeded")]
            ELSE row
  /\ UNCHANGED <<attempts, proc, seen, cancelling>>

(* run_to_completion raises, in an attempt or for a message read while idle. *)
AgentRaises(w, t) ==
  /\ Awaits(w, t, {"exec", "idle"})
  /\ Goto(w, t, "raised")
  /\ UNCHANGED <<row, attempts, proc, seen, cancelling>>

(* _fail_or_requeue: read the row, close the attempt, transition the task. *)
ReadFailure(w, t) ==
  /\ pc[w][t] = "raised"
  /\ Read(w, t)
  /\ Goto(w, t, "failing")
  /\ UNCHANGED <<row, attempts, proc, cancelling>>

FinishFailed(w, t) ==
  /\ pc[w][t] = "failing"
  /\ attempts' = CloseAttempt(t, seen[w][t].attempt, "failed")
  /\ Goto(w, t, "requeue")
  /\ UNCHANGED <<row, proc, seen, cancelling>>

(* Mutant: the task goes to a status the table does not know. *)
FailOrBlock(w, t) ==
  /\ pc[w][t] = "requeue"
  /\ Goto(w, t, "done")
  /\ row' = [row EXCEPT ![t] = Unowned(@, "blocked")]
  /\ Forget(w, t)
  /\ UNCHANGED <<attempts, proc, cancelling>>

(* An invalid transition leaves the coroutine; nothing catches it. *)
FailOrRequeue(w, t) ==
  LET target == IF seen[w][t].exhausted THEN "failed" ELSE "queued"
  IN  /\ pc[w][t] = "requeue"
      /\ IF target = "queued"
            /\ (row[t].status = "queued" \/ Allowed(row[t].status, "queued"))
         THEN Goto(w, t, "backoff")
         ELSE Goto(w, t, "done")
      /\ row' = IF Allowed(row[t].status, target)
                THEN [row EXCEPT ![t] =
                        NoLease(target, target = "queued" \/ @.backoff, @.max)]
                ELSE row
      /\ Forget(w, t)
      /\ UNCHANGED <<attempts, proc, cancelling>>

(* The local sleep of the retry delay ends. *)
RetryDelayOver(w, t) ==
  /\ Awaits(w, t, {"backoff"})
  /\ Goto(w, t, "poll")
  /\ UNCHANGED <<row, attempts, proc, seen, cancelling>>

(* _teammate_idle_loop gives up after sixty rounds. *)
IdleEnds(w, t) ==
  /\ Awaits(w, t, {"idle"})
  /\ Goto(w, t, "done")
  /\ UNCHANGED <<row, attempts, proc, seen, cancelling>>
-----------------------------------------------------------------------------
(* Cancellation and shutdown.                                               *)

(* cancel() with a live handle: handle.cancel() and _cancel_persisted. *)
CancelOwn(w, t) ==
  /\ proc[w] = "up"
  /\ Awaits(w, t, {"poll", "exec", "backoff"})
  /\ CancelForWorker(t, w)
  /\ Goto(w, t, IF pc[w][t] = "exec" THEN "unwind2" ELSE "unwind1")
  /\ UNCHANGED <<proc, seen, cancelling>>

(* cancel() of a task with no live handle here: it reads the status ... *)
CancelRead(w, t) ==
  /\ proc[w] = "up"
  /\ Awaits(w, t, Place \ {"poll", "exec", "backoff"})
  /\ row[t].status = "queued"
  /\ cancelling' = [cancelling EXCEPT ![w] = t]
  /\ UNCHANGED <<row, attempts, proc, pc, seen>>

(* ... and writes in a second transaction, whoever has the lease by now. *)
CancelWrite(w, t) ==
  /\ cancelling[w] = t
  /\ row' = IF Allowed(row[t].status, "cancelled")
            THEN [row EXCEPT ![t] = [status |-> "cancelled", owner |-> @.owner,
                       lapsed |-> FALSE, backoff |-> @.backoff, max |-> @.max]]
            ELSE row
  /\ cancelling' = [cancelling EXCEPT ![w] = None]
  /\ UNCHANGED <<attempts, proc, pc, seen>>

(* Mutant: a task of a schedule is treated like any resumable task. *)
RequeuesResumable(t) == t \in Resumable

(* What shutdown() gives back to the queue: a task of a schedule only while  *)
(* it is queued; once claimed, such a task never is again.                  *)
Requeues(t) ==
  /\ t \in Resumable
  /\ t \in Scheduled => row[t].status = "queued"

(* Each handler the CancelledError passes runs _cancel_persisted once more. *)
Unwind(w, t) ==
  /\ Awaits(w, t, Unwinding)
  /\ Goto(w, t, CASE pc[w][t] = "unwind3" -> "unwind2"
                  [] pc[w][t] = "unwind2" -> "unwind1"
                  [] pc[w][t] = "unwind1" -> "done")
  /\ IF proc[w] = "stopping" /\ Requeues(t)
     THEN ReleaseForShutdown(t, w)
     ELSE CancelForWorker(t, w)
  /\ UNCHANGED <<proc, seen, cancelling>>

(* shutdown(): a handle that is not requeued is cancelled at once, then    *)
(* every handle gets a CancelledError.                                      *)
Shutdown(w) ==
  /\ w \in Mortal
  /\ proc[w] = "up"
  /\ AtAwait(w)
  /\ proc' = [proc EXCEPT ![w] = "stopping"]
  /\ pc' = [pc EXCEPT ![w] = [t \in Tasks |->
       CASE pc[w][t] = "exec" /\ Requeues(t)         -> "unwind2"
         [] pc[w][t] \in {"exec", "idle"}            -> "unwind3"
         [] pc[w][t] \in Cancellable /\ Requeues(t)  -> "unwind1"
         [] pc[w][t] \in Cancellable                 -> "unwind2"
         [] OTHER                                    -> pc[w][t]]]
  /\ UNCHANGED <<row, attempts, seen, cancelling>>

(* The process dies, or a shutdown has awaited every handle. *)
Exit(w) ==
  /\ \/ /\ w \in Mortal
        /\ proc[w] \in {"up", "stopping"}
     \/ /\ proc[w] = "stopping"
        /\ \A t \in Tasks : pc[w][t] \notin Live
  /\ proc' = [proc EXCEPT ![w] = "down"]
  /\ pc' = [pc EXCEPT ![w] = [t \in Tasks |-> "none"]]
  /\ seen' = [seen EXCEPT ![w] = [t \in Tasks |-> NoSeen]]
  /\ cancelling' = [cancelling EXCEPT ![w] = None]
  /\ UNCHANGED <<row, attempts>>
-----------------------------------------------------------------------------
(* Time.                                                                    *)

(* A lease runs out: always when nobody renews it, and under Stalls also    *)
(* when its worker is suspended or its event loop is blocked.               *)
Lapse(t) ==
  /\ row[t].status \in Held
  /\ ~row[t].lapsed
  /\ Stalls \/ pc[row[t].owner][t] \notin Live
  /\ row' = [row EXCEPT ![t].lapsed = TRUE]
  /\ UNCHANGED <<attempts, proc, pc, seen, cancelling>>

NextRetryDue(t) ==
  /\ row[t].backoff
  /\ row' = [row EXCEPT ![t].backoff = FALSE]
  /\ UNCHANGED <<attempts, proc, pc, seen, cancelling>>
-----------------------------------------------------------------------------
(* The steps a coroutine takes by itself. *)
Step(w, t) ==
  \/ PollFinished(w, t) \/ Claim(w, t)           \/ MarkRunning(w, t)
  \/ AgentReturns(w, t) \/ FinishSucceeded(w, t) \/ CommitSucceeded(w, t)
  \/ AgentRaises(w, t)  \/ ReadFailure(w, t)     \/ FinishFailed(w, t)
  \/ FailOrRequeue(w, t) \/ RetryDelayOver(w, t) \/ IdleEnds(w, t)
  \/ Unwind(w, t)       \/ CancelWrite(w, t)

Next ==
  \/ \E w \in Workers :
       Start(w) \/ Maintain(w) \/ Shutdown(w) \/ Exit(w)
  \/ \E w \in Workers, t \in Tasks :
       \/ Step(w, t)
       \/ Launch(w, t) \/ Admit(w, t) \/ Withdraw(w, t)
       \/ AdoptPersisted(w, t) \/ Heartbeat(w, t)
       \/ CancelOwn(w, t) \/ CancelRead(w, t)
  \/ \E t \in Tasks : Lapse(t) \/ NextRetryDue(t)

Spec == Init /\ [][Next]_vars
-----------------------------------------------------------------------------
(* Properties that hold whatever the workers do, stalled ones included.     *)

(* A held task belongs to the worker that made its latest attempt: no        *)
(* recovery, late commit or cancellation leaves a lease on a row whose       *)
(* attempt was made by someone else, or on a row that was never claimed.     *)
LeaseMatchesAttempt ==
  \A t \in Tasks : row[t].status \in Held =>
    /\ attempts[t] # <<>>
    /\ row[t].owner = attempts[t][Len(attempts[t])].worker

(* Work starts only behind its dependencies, and stays so: once an attempt   *)
(* of t was made, every task t depends on is succeeded for good.            *)
DependenciesRespected ==
  \A t \in Tasks : attempts[t] # <<>> =>
    \A d \in Deps[t] : row[d].status = "succeeded"

(* No interleaving of expiry, adoption, shutdown and late commits makes more *)
(* attempts than max_attempts allows at any time.                           *)
AttemptBudget ==
  \A t \in Tasks : Len(attempts[t]) <= row[t].max

(* What the queue never gives up, whatever the workers do: leases belong to    *)
(* the latest attempt, budgets bound the attempts, dependencies come first.   *)
QueueDiscipline == LeaseMatchesAttempt /\ AttemptBudget /\ DependenciesRespected

(* Only a held lease can run out: a row that is queued or finished carries   *)
(* no expiry that the next sweep of recover_expired_leases would act on.    *)
LapsedIsHeld ==
  \A t \in Tasks : row[t].lapsed => row[t].status \in Held

(* A succeeded or cancelled task is never reopened, not even by a worker     *)
(* that finishes late (require_transition and TASK_TRANSITIONS).            *)
OutcomeIsFinal ==
  [][\A t \in Tasks : row[t].status \in {"succeeded", "cancelled"} =>
       row'[t].status = row[t].status]_vars
-----------------------------------------------------------------------------
(* Properties of timely workers (Stalls = FALSE): a lease lapses only when   *)
(* nobody works under it.                                                   *)

Executing == {"exec", "succeed", "commit"}

(* One task is never executed by two workers at a time. *)
SingleExecution ==
  \A t \in Tasks, v, w \in Workers :
    pc[v][t] \in Executing /\ pc[w][t] \in Executing => v = w

(* A queued task can still be claimed: no path leaves one waiting with its   *)
(* budget used up, where no worker would ever take or fail it.              *)
QueuedHasBudget ==
  \A t \in Tasks : row[t].status = "queued" => ~Exhausted(t)

(* release_for_shutdown keeps the retry budget: what a task gained beyond    *)
(* its own budget is what was interrupted.                                  *)
InterruptedRetriesReturned ==
  \A t \in Tasks : row[t].max - Budget(t) =
    Cardinality({n \in DOMAIN attempts[t] : attempts[t][n].status = "interrupted"})

(* Retries are accounted for: none is lost while the task waits, and none is   *)
(* gained but for the attempts a shutdown cut short.                          *)
RetriesBudgeted == QueuedHasBudget /\ InterruptedRetriesReturned

(* A task of a schedule that was started is never started again, whoever     *)
(* crashes, shuts down or takes over: it may have had its effects.          *)
ScheduledRunsOnce == \A t \in Scheduled : Len(attempts[t]) <= 1

(* The audit trail agrees with the task: a succeeded task ended with an      *)
(* attempt recorded as succeeded, a failed one did not end interrupted.      *)
OutcomeIsRecorded ==
  \A t \in Tasks : row[t].status \in {"succeeded", "failed"} =>
    LET last == attempts[t][Len(attempts[t])].status
    IN  IF row[t].status = "succeeded" THEN last = "succeeded"
        ELSE last \in {"failed", "expired", "succeeded"}

(* A succeeded or failed attempt is committed by the worker that holds the   *)
(* lease: no late worker decides about a run that another one has taken over.*)
FencedCommit ==
  [][\A w \in Workers, t \in Tasks :
       /\ pc[w][t] \in {"commit", "requeue"}
       /\ pc'[w][t] # pc[w][t]
       /\ row'[t].status # row[t].status
       => row[t].owner = w]_vars

(* A cancellation that cancel() accepted (it returned True and the user was  *)
(* told so) is terminal: the task is finished by then.                      *)
CancelIsTerminal ==
  [][\A w \in Workers, t \in Tasks :
       /\ proc[w] = "up"
       /\ pc[w][t] \in {"poll", "exec", "backoff"}
       /\ pc'[w][t] \in Unwinding
       /\ proc'[w] = "up"
       => row'[t].status \in Finished]_vars
-----------------------------------------------------------------------------
(* With timely workers the queue implements TaskLifecycle.                  *)

AtWork == Executing \cup {"raised", "failing", "requeue"}

StateOf == [t \in Tasks |->
  CASE row[t].status \in Held     -> "taken"
    [] row[t].status = "queued"   -> "waiting"
    [] OTHER                      -> row[t].status]

Busy(t) == {w \in Workers : pc[w][t] \in AtWork}

RunnerOf == [t \in Tasks |->
  IF Busy(t) = {} \/ row[t].status = "succeeded"
  THEN None
  ELSE CHOOSE w \in Busy(t) : TRUE]

Lifecycle == INSTANCE TaskLifecycle WITH state <- StateOf, runner <- RunnerOf

(* The promise of the task queue to its users, TaskLifecycle, is kept.      *)
ImplementsLifecycle == Lifecycle!Spec
-----------------------------------------------------------------------------
(* Liveness.  The event loop of a live process runs every coroutine that is *)
(* ready (asyncio is FIFO), agents end (they have iteration limits), the    *)
(* maintenance loop and the adoption of queued tasks (CronRuntime.tick)     *)
(* repeat for as long as the process lives; users, crashes and failures of  *)
(* the agent are never forced to happen.                                    *)
Fairness ==
  /\ \A w \in Workers : WF_vars(Start(w)) /\ WF_vars(Maintain(w))
  /\ \A w \in Workers, t \in Tasks :
       WF_vars(Step(w, t)) /\ WF_vars(AdoptPersisted(w, t))
  /\ \A t \in Tasks : WF_vars(Lapse(t)) /\ WF_vars(NextRetryDue(t))

FairSpec == Spec /\ Fairness

(* The user has cancelled t in a process that stays up: it took the local   *)
(* coroutine away, and this process never adopts t again.                   *)
GivenUp(t) ==
  \E w \in Workers \ Mortal : pc[w][t] \in Unwinding \cup {"done"}

(* While one process stays up, every resumable task whose dependencies have  *)
(* succeeded comes to an outcome, through any crashes and shutdowns of the   *)
(* processes that held it, unless a user cancelled it there.                *)
ResumableTasksFinish ==
  \A t \in Resumable :
    row[t].status = "queued" /\ (\A d \in Deps[t] : row[d].status = "succeeded")
      ~> row[t].status \in Finished \/ GivenUp(t)
=============================================================================
