---------------------------- MODULE TaskLifecycle ----------------------------
(***************************************************************************)
(* What the durable task queue promises, without leases, attempts, clocks   *)
(* or transactions: a task is run by at most one worker at a time, starts   *)
(* behind its dependencies, only the worker that runs it decides its        *)
(* outcome, and a task that succeeded or was cancelled stays so.            *)
(***************************************************************************)
CONSTANTS Tasks, Workers, None, Deps

VARIABLES
  state,    \* state[t]: what every process reads of the task
  runner    \* runner[t]: the worker that runs the task, or None

lifecycle == <<state, runner>>

States == {"absent", "waiting", "taken", "succeeded", "failed", "cancelled"}

TypeOK ==
  /\ state \in [Tasks -> States]
  /\ runner \in [Tasks -> Workers \cup {None}]

Init ==
  /\ state = [t \in Tasks |-> "absent"]
  /\ runner = [t \in Tasks |-> None]

Submit(t) ==
  /\ state[t] = "absent"
  /\ state' = [state EXCEPT ![t] = "waiting"]
  /\ UNCHANGED runner

Take(t) ==
  /\ state[t] = "waiting"
  /\ \A d \in Deps[t] : state[d] = "succeeded"
  /\ state' = [state EXCEPT ![t] = "taken"]
  /\ UNCHANGED runner

(* The taker starts to run the task; nobody else runs it. *)
Run(w, t) ==
  /\ state[t] = "taken"
  /\ runner[t] = None
  /\ runner' = [runner EXCEPT ![t] = w]
  /\ UNCHANGED state

(* The runner decides: done, failed for good, or back to the queue. *)
Decide(w, t) ==
  /\ state[t] = "taken"
  /\ runner[t] = w
  /\ \E s \in {"succeeded", "failed", "waiting"} : state' = [state EXCEPT ![t] = s]
  /\ runner' = [runner EXCEPT ![t] = None]

(* Runners stop undecided: their process died or they were cancelled. *)
Stop(S) ==
  /\ runner' = [t \in Tasks |-> IF t \in S THEN None ELSE runner[t]]
  /\ UNCHANGED state

(* Tasks that were taken and that nobody runs go back to the queue or fail: *)
(* one sweep of the lease recovery takes any number of them.                *)
Reclaim(S) ==
  /\ \A t \in S : state[t] = "taken" /\ runner[t] = None
  /\ \E new \in [S -> {"waiting", "failed"}] :
       state' = [t \in Tasks |-> IF t \in S THEN new[t] ELSE state[t]]
  /\ UNCHANGED runner

(* A user may cancel a task anybody runs; whoever runs it may run on. *)
Cancel(t) ==
  /\ state[t] \in {"waiting", "taken"}
  /\ state' = [state EXCEPT ![t] = "cancelled"]
  /\ \/ UNCHANGED runner
     \/ runner' = [runner EXCEPT ![t] = None]

Next ==
  \/ \E t \in Tasks : Submit(t) \/ Take(t) \/ Cancel(t)
  \/ \E w \in Workers, t \in Tasks : Run(w, t) \/ Decide(w, t)
  \/ \E S \in SUBSET Tasks : Reclaim(S) \/ Stop(S)

Spec == Init /\ [][Next]_lifecycle
=============================================================================
