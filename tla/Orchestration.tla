---------------------------- MODULE Orchestration ----------------------------
(***************************************************************************)
(* One persistent workflow instance: its rows in orchestrations and         *)
(* orchestration_nodes (persistence/orchestration_store.py) and the runs    *)
(* that execute it (WorkflowRuntime, runtime/workflow.py).                  *)
(*                                                                         *)
(* A run is one call of WorkflowRuntime.run in some process; it draws a     *)
(* fresh owner id, so a run that ended or died never comes back.  One       *)
(* action is one transaction of the store with the local steps up to the    *)
(* next one.  Within a run, siblings that are between two transactions      *)
(* without an await are not interrupted (AtAwait).                          *)
(***************************************************************************)
EXTENDS Naturals, FiniteSets

CONSTANTS
  NodeCount,    \* the definition lists the nodes 1 .. NodeCount
  Deps,         \* Deps[n]: depends_on
  Kind,         \* Kind[n]: "write" or "read" agent, or "control" (branch, join)
  Conditional,  \* nodes with a when predicate
  Retries,      \* Retries[n]: automatic retries, for read-only agents only
  MaxParallel,  \* max_parallel
  Runs,         \* owner ids
  None,         \* SQL NULL
  Mortal,       \* runs whose process may crash
  Stalled,      \* runs whose process may be suspended for a whole lease
  MaxConfirms   \* bound on the user's confirmed retries of one node

Nodes == 1 .. NodeCount

ASSUME OrchestrationAssumption ==
  /\ NodeCount \in Nat
  /\ Deps \in [Nodes -> SUBSET Nodes]
  /\ Kind \in [Nodes -> {"write", "read", "control"}]
  /\ Conditional \subseteq Nodes
  /\ Retries \in [Nodes -> Nat]
  /\ \A n \in Nodes : Retries[n] > 0 => Kind[n] = "read"
  /\ MaxParallel \in Nat \ {0}
  /\ None \notin Runs
  /\ Mortal \subseteq Runs
  /\ Stalled \subseteq Runs
  /\ MaxConfirms \in Nat

VARIABLES
  inst,       \* the row of the instance
  node,       \* node[n]: the row of n in the journal
  confirmed,  \* confirmed[n]: confirmed retries of n so far
  starter,    \* starter[n]: the run that began the latest attempt of n (history)
  pc,         \* pc[r]: where the run r is
  token,      \* token[r]: the epoch r was given by its claim
  at          \* at[r][n]: where the sibling task of r for n is

vars == <<inst, node, confirmed, starter, pc, token, at>>
-----------------------------------------------------------------------------
Settled == {"succeeded", "skipped"}

(* lapsed stands for lease_until <= now. *)
Instance == [status : {"pending", "running", "blocked", "completed"},
             owner : Runs \cup {None}, epoch : Nat, lapsed : BOOLEAN]

NodeRow == [status : {"pending", "running", "blocked"} \cup Settled, attempts : Nat]

(* A sibling waits at begin (not yet scheduled) and exec (its agent runs);  *)
(* in a Writing place it is about to commit that status of its node.        *)
Writing  == {"pending", "blocked"} \cup Settled
Atomic   == Writing \cup {"error"}
Ended    == {"none", "done", "raised"}
Place    == {"begin", "exec"} \cup Atomic \cup Ended

Working == {"plan", "batch", "unwind", "complete", "abort"}

TypeOK ==
  /\ inst \in Instance
  /\ node \in [Nodes -> NodeRow]
  /\ confirmed \in [Nodes -> Nat]
  /\ starter \in [Nodes -> Runs \cup {None}]
  /\ pc \in [Runs -> Working \cup {"idle", "done", "dead"}]
  /\ token \in [Runs -> Nat]
  /\ at \in [Runs -> [Nodes -> Place]]

Init ==
  /\ inst = [status |-> "pending", owner |-> None, epoch |-> 0, lapsed |-> FALSE]
  /\ node = [n \in Nodes |-> [status |-> "pending", attempts |-> 0]]
  /\ confirmed = [n \in Nodes |-> 0]
  /\ starter = [n \in Nodes |-> None]
  /\ pc = [r \in Runs |-> "idle"]
  /\ token = [r \in Runs |-> 0]
  /\ at = [r \in Runs |-> [n \in Nodes |-> "none"]]
-----------------------------------------------------------------------------
(* The store.                                                               *)

(* Mutant: the fence does not compare the lease with the clock. *)
FenceIgnoresExpiry(r) ==
  /\ inst.owner = r
  /\ inst.epoch = token[r]
  /\ inst.status = "running"

Fence(r) ==
  /\ inst.owner = r
  /\ inst.epoch = token[r]
  /\ inst.status = "running"
  /\ ~inst.lapsed

Leased == inst.owner # None /\ ~inst.lapsed

(* UPDATE orchestration_nodes SET status='blocked' ... WHERE status='running' *)
HoldRunning ==
  [n \in Nodes |-> IF node[n].status = "running" THEN [node[n] EXCEPT !.status = "blocked"]
                   ELSE node[n]]

Released(status) == [status |-> status, owner |-> None, epoch |-> inst.epoch, lapsed |-> FALSE]

(* Mutant: running nodes of the earlier run are queued again. *)
ClaimReplaysRunning(r) ==
  /\ pc[r] = "idle"
  /\ ~Leased
  /\ inst.status # "completed"
  /\ node' = [n \in Nodes |-> IF node[n].status = "running"
                              THEN [node[n] EXCEPT !.status = "pending"] ELSE node[n]]
  /\ IF \E n \in Nodes : node'[n].status = "blocked"
     THEN inst' = Released("blocked") /\ UNCHANGED <<pc, token>>
     ELSE /\ inst' = [status |-> "running", owner |-> r, epoch |-> inst.epoch + 1,
                      lapsed |-> FALSE]
          /\ token' = [token EXCEPT ![r] = inst.epoch + 1]
          /\ pc' = [pc EXCEPT ![r] = "plan"]
  /\ UNCHANGED <<confirmed, starter, at>>

(* A refused claim leaves the run id unused. *)
Claim(r) ==
  /\ pc[r] = "idle"
  /\ ~Leased
  /\ inst.status # "completed"
  /\ node' = HoldRunning
  /\ IF \E n \in Nodes : node'[n].status = "blocked"
     THEN inst' = Released("blocked") /\ UNCHANGED <<pc, token>>
     ELSE /\ inst' = [status |-> "running", owner |-> r, epoch |-> inst.epoch + 1,
                      lapsed |-> FALSE]
          /\ token' = [token EXCEPT ![r] = inst.epoch + 1]
          /\ pc' = [pc EXCEPT ![r] = "plan"]
  /\ UNCHANGED <<confirmed, starter, at>>

(* The user confirms that n, held or interrupted, may run again. *)
RetryNode(n) ==
  /\ confirmed[n] < MaxConfirms
  /\ inst.status # "completed"
  /\ ~Leased
  /\ node[n].status = "blocked"
  /\ node' = [node EXCEPT ![n].status = "pending"]
  /\ inst' = Released("pending")
  /\ confirmed' = [confirmed EXCEPT ![n] = @ + 1]
  /\ UNCHANGED <<starter, pc, token, at>>
-----------------------------------------------------------------------------
(* The loop of a run.                                                       *)

Pending == {n \in Nodes : node[n].status = "pending"}

Ready == {n \in Pending : \A d \in Deps[n] : node[d].status \in Settled}

(* The first k of S in the order of the definition. *)
FirstOf(S, k) == {n \in S : Cardinality({m \in S : m < n}) < k}

(* Mutant: writing agents share a batch with the other nodes. *)
BatchTogether == FirstOf(Ready, MaxParallel)

Batch ==
  LET writes == {n \in Ready : Kind[n] = "write"}
  IN  IF writes # {} THEN FirstOf(writes, 1) ELSE FirstOf(Ready, MaxParallel)

Plan(r) ==
  /\ pc[r] = "plan"
  /\ IF (\E n \in Nodes : node[n].status = "blocked") \/ (Pending # {} /\ Ready = {})
     THEN pc' = [pc EXCEPT ![r] = "abort"] /\ UNCHANGED at
     ELSE IF Pending = {}
     THEN pc' = [pc EXCEPT ![r] = "complete"] /\ UNCHANGED at
     ELSE /\ pc' = [pc EXCEPT ![r] = "batch"]
          /\ at' = [at EXCEPT ![r] = [n \in Nodes |-> IF n \in Batch THEN "begin" ELSE "none"]]
  /\ UNCHANGED <<inst, node, confirmed, starter, token>>

(* No sibling of r is between two transactions without an await. *)
AtAwait(r) == \A n \in Nodes : at[r][n] \notin Atomic

Goto(r, n, place) == at' = [at EXCEPT ![r][n] = place]

(* After begin_node: skipped by its condition, settled at once (branch and  *)
(* join), held (rendered prompt too long), or handed to the agent.          *)
Opening(n) ==
  (IF n \in Conditional THEN {"skipped"} ELSE {})
    \cup (IF Kind[n] = "control" THEN {"succeeded"} ELSE {"blocked", "exec"})

BeginNode(r, n) ==
  /\ at[r][n] = "begin"
  /\ pc[r] = "batch"
  /\ AtAwait(r)
  /\ IF Fence(r) /\ node[n].status = "pending"
     THEN /\ node' = [node EXCEPT ![n] = [status |-> "running", attempts |-> @.attempts + 1]]
          /\ starter' = [starter EXCEPT ![n] = r]
          /\ \E p \in Opening(n) : Goto(r, n, p)
     ELSE Goto(r, n, "raised") /\ UNCHANGED <<node, starter>>
  /\ UNCHANGED <<inst, confirmed, pc, token>>

(* The agent succeeds, is refused a permission, or fails or times out. *)
AgentEnds(r, n) ==
  /\ at[r][n] = "exec"
  /\ pc[r] = "batch"
  /\ AtAwait(r)
  /\ \E p \in {"succeeded", "blocked", "error"} : Goto(r, n, p)
  /\ UNCHANGED <<inst, node, confirmed, starter, pc, token>>

(* Mutant: one automatic retry too many. *)
ReadAttemptsOffByOne(r, n) ==
  /\ at[r][n] = "error"
  /\ Goto(r, n, IF Kind[n] = "read" /\ node[n].attempts <= Retries[n] + 1
                THEN "pending" ELSE "blocked")
  /\ UNCHANGED <<inst, node, confirmed, starter, pc, token>>

(* Mutant: a status the workflow does not use. *)
ReadAttemptsFails(r, n) ==
  /\ at[r][n] = "error"
  /\ Goto(r, n, "failed")
  /\ UNCHANGED <<inst, node, confirmed, starter, pc, token>>

(* The except clause of _node reads the attempts so far. *)
ReadAttempts(r, n) ==
  /\ at[r][n] = "error"
  /\ Goto(r, n, IF Kind[n] = "read" /\ node[n].attempts <= Retries[n]
                THEN "pending" ELSE "blocked")
  /\ UNCHANGED <<inst, node, confirmed, starter, pc, token>>

FinishNode(r, n) ==
  /\ at[r][n] \in Writing
  /\ IF Fence(r) /\ node[n].status = "running"
     THEN /\ node' = [node EXCEPT ![n].status = at[r][n]]
          /\ Goto(r, n, "done")
     ELSE Goto(r, n, "raised") /\ UNCHANGED node
  /\ UNCHANGED <<inst, confirmed, starter, pc, token>>

AllEnded(r) == \A n \in Nodes : at[r][n] \in Ended

(* Mutant: the batch is over when its first sibling is. *)
BatchDoneFirst(r) ==
  /\ pc[r] = "batch"
  /\ AtAwait(r)
  /\ \E n \in Nodes : at[r][n] = "done"
  /\ pc' = [pc EXCEPT ![r] = "plan"]
  /\ at' = [at EXCEPT ![r] = [n \in Nodes |-> "none"]]
  /\ UNCHANGED <<inst, node, confirmed, starter, token>>

(* gather returns. *)
BatchDone(r) ==
  /\ pc[r] = "batch"
  /\ \A n \in Nodes : at[r][n] \in {"none", "done"}
  /\ pc' = [pc EXCEPT ![r] = "plan"]
  /\ at' = [at EXCEPT ![r] = [n \in Nodes |-> "none"]]
  /\ UNCHANGED <<inst, node, confirmed, starter, token>>
-----------------------------------------------------------------------------
(* Failure, cancellation, crash.                                            *)

(* gather raises: a sibling raised, ... *)
Unwind(r) ==
  /\ pc[r] = "batch"
  /\ AtAwait(r)
  /\ pc' = [pc EXCEPT ![r] = "unwind"]
  /\ UNCHANGED <<inst, node, confirmed, starter, token, at>>

SiblingFails(r) == (\E n \in Nodes : at[r][n] = "raised") /\ Unwind(r)

(* ... keepalive found the lease lost, or the user cancelled. *)
KeepaliveLost(r) == ~Fence(r) /\ Unwind(r)

Cancel(r) == Unwind(r)

(* Mutant: a sibling that was not scheduled yet is not cancelled. *)
SiblingStopsStarted(r, n) ==
  /\ pc[r] = "unwind"
  /\ at[r][n] = "exec"
  /\ Goto(r, n, "none")
  /\ UNCHANGED <<inst, node, confirmed, starter, pc, token>>

(* A cancelled sibling has released what its agent held. *)
SiblingStops(r, n) ==
  /\ pc[r] = "unwind"
  /\ at[r][n] \in {"begin", "exec"}
  /\ Goto(r, n, "none")
  /\ UNCHANGED <<inst, node, confirmed, starter, pc, token>>

(* Mutant: the siblings are not awaited. *)
AbortAtOnce(r) ==
  /\ pc[r] \in {"abort", "unwind"}
  /\ IF Fence(r)
     THEN node' = HoldRunning /\ inst' = Released("blocked")
     ELSE UNCHANGED <<node, inst>>
  /\ pc' = [pc EXCEPT ![r] = "done"]
  /\ UNCHANGED <<confirmed, starter, token, at>>

(* Mutant: the nodes that were running are left so. *)
AbortLeavesRunning(r) ==
  /\ pc[r] \in {"abort", "unwind"}
  /\ AllEnded(r)
  /\ IF Fence(r) THEN inst' = Released("blocked") ELSE UNCHANGED inst
  /\ pc' = [pc EXCEPT ![r] = "done"]
  /\ at' = [at EXCEPT ![r] = [n \in Nodes |-> "none"]]
  /\ UNCHANGED <<node, confirmed, starter, token>>

(* Mutant: the exception leaves run without finish. *)
AbortForgetsFinish(r) ==
  /\ pc[r] \in {"abort", "unwind"}
  /\ AllEnded(r)
  /\ pc' = [pc EXCEPT ![r] = "done"]
  /\ at' = [at EXCEPT ![r] = [n \in Nodes |-> "none"]]
  /\ UNCHANGED <<inst, node, confirmed, starter, token>>

(* finish(..., "blocked"), from the loop or from the except clause of run;  *)
(* a LeaseLost is swallowed.                                                *)
Abort(r) ==
  /\ pc[r] \in {"abort", "unwind"}
  /\ AllEnded(r)
  /\ IF Fence(r)
     THEN node' = HoldRunning /\ inst' = Released("blocked")
     ELSE UNCHANGED <<node, inst>>
  /\ pc' = [pc EXCEPT ![r] = "done"]
  /\ at' = [at EXCEPT ![r] = [n \in Nodes |-> "none"]]
  /\ UNCHANGED <<confirmed, starter, token>>

(* finish(..., "completed"); an error takes the path of Abort. *)
Complete(r) ==
  /\ pc[r] = "complete"
  /\ IF Fence(r) /\ \A n \in Nodes : node[n].status \in Settled
     THEN inst' = Released("completed") /\ pc' = [pc EXCEPT ![r] = "done"]
     ELSE pc' = [pc EXCEPT ![r] = "abort"] /\ UNCHANGED inst
  /\ UNCHANGED <<node, confirmed, starter, token, at>>

Crash(r) ==
  /\ r \in Mortal
  /\ pc[r] \in Working
  /\ pc' = [pc EXCEPT ![r] = "dead"]
  /\ at' = [at EXCEPT ![r] = [n \in Nodes |-> "none"]]
  /\ UNCHANGED <<inst, node, confirmed, starter, token>>

(* Nobody renews the lease of a dead run; a live one is renewed every five   *)
(* seconds unless its process is suspended.  A lease that ran out is never   *)
(* renewed: _fence refuses it.                                              *)
Lapse ==
  /\ Leased
  /\ inst.owner \in Stalled \/ pc[inst.owner] = "dead"
  /\ inst' = [inst EXCEPT !.lapsed = TRUE]
  /\ UNCHANGED <<node, confirmed, starter, pc, token, at>>
-----------------------------------------------------------------------------
(* The steps a run takes by itself. *)
Step(r) ==
  \/ Plan(r) \/ BatchDone(r) \/ SiblingFails(r) \/ KeepaliveLost(r)
  \/ Abort(r) \/ Complete(r)
  \/ \E n \in Nodes :
       \/ BeginNode(r, n) \/ AgentEnds(r, n) \/ ReadAttempts(r, n)
       \/ FinishNode(r, n) \/ SiblingStops(r, n)

Next ==
  \/ \E r \in Runs : Step(r) \/ Claim(r) \/ Cancel(r) \/ Crash(r)
  \/ \E n \in Nodes : RetryNode(n)
  \/ Lapse

Spec == Init /\ [][Next]_vars
-----------------------------------------------------------------------------
(* Properties that hold whatever the runs do, stalled ones included.        *)

(* A node was started only behind its dependencies, and they stay settled:   *)
(* begin_node uses a plan read in an earlier transaction.                   *)
DependenciesRespected ==
  \A n \in Nodes : node[n].attempts > 0 =>
    \A d \in Deps[n] : node[d].status \in Settled

(* No crash, expiry or late error handler starts a node more often than its  *)
(* automatic retries plus the confirmations of the user: a writing agent     *)
(* runs once per confirmation.                                              *)
RerunsConfirmed ==
  \A n \in Nodes : node[n].attempts <= 1 + Retries[n] + confirmed[n]

(* A workflow that is reported as completed has no node left behind, even    *)
(* when a run that lost its lease reaches the end of its loop.              *)
CompletedIsComplete ==
  inst.status = "completed" => \A n \in Nodes : node[n].status \in Settled

(* An instance that is reported as blocked or completed has no node that     *)
(* the journal shows as running: every exit path of run settles or holds it. *)
RestingHasNoRunning ==
  inst.status \in {"blocked", "completed"} =>
    \A n \in Nodes : node[n].status # "running"

(* A run that ended by any path leaves no live lease behind, so that resume  *)
(* and retry never have to wait for one of its leases.                      *)
ReleasedAtEnd ==
  \A r \in Runs : pc[r] = "done" /\ inst.owner = r => inst.lapsed

(* A node that is recorded as running under a live lease is attended by the  *)
(* run that began it: its sibling is at work or the run is about to hold it. *)
RunningIsAttended ==
  \A n \in Nodes, r \in Runs :
    node[n].status = "running" /\ Fence(r) =>
      /\ starter[n] = r
      /\ pc[r] \in {"unwind", "dead"} \/ at[r][n] \in {"exec"} \cup Atomic

(* A succeeded or skipped node never changes again: it is not rerun, and no  *)
(* late result replaces the recorded one.                                   *)
SettledIsFinal ==
  [][\A n \in Nodes : node[n].status \in Settled => node'[n] = node[n]]_vars

(* A result is recorded by the run that began the attempt, while it has the  *)
(* lease: what a run returns after it was replaced is dropped.              *)
ResultFromStarter ==
  [][\A n \in Nodes :
       node[n].status = "running" /\ node'[n].status \in Settled
       => /\ inst.owner = starter[n]
          /\ ~inst.lapsed
          /\ at[starter[n]][n] = node'[n].status]_vars
-----------------------------------------------------------------------------
(* A property of the runs that renew their lease in time.                   *)

AtWork(r, n) == at[r][n] = "exec"

(* While a writing agent works, no other agent of the instance works, in     *)
(* this run or in another: also not while a cancelled run unwinds.          *)
WriterAlone ==
  \A r, s \in Runs \ Stalled, n, m \in Nodes :
    Kind[n] = "write" /\ AtWork(r, n) /\ AtWork(s, m) => r = s /\ n = m

(* What the journal says of running nodes is what the runs do: none rests     *)
(* running, none under a live lease is abandoned, and writers work alone.     *)
NodesAttended == RestingHasNoRunning /\ RunningIsAttended /\ WriterAlone
-----------------------------------------------------------------------------
(* The workflow keeps WorkflowPromise, stalled runs included.               *)

PhaseOf ==
  [n \in Nodes |-> IF node[n].status \in Settled THEN "settled" ELSE node[n].status]

StartsLeft == [n \in Nodes |-> (1 + Retries[n] + confirmed[n]) - node[n].attempts]

Reported == inst.status = "completed"

Promise == INSTANCE WorkflowPromise WITH
             phase <- PhaseOf, starts <- StartsLeft, closed <- Reported

(* What is promised to the user of a workflow, WorkflowPromise, is kept by    *)
(* every interleaving of runs, crashes, expiries and confirmations.         *)
KeepsPromise == Promise!Spec
-----------------------------------------------------------------------------
(* Liveness.  The event loop runs every coroutine that is ready, agents end  *)
(* (timeout_seconds), and a cancelled agent stops; users and crashes are     *)
(* never forced to act.                                                     *)
Fairness == \A r \in Runs : WF_vars(Step(r))

FairSpec == Spec /\ Fairness

(* Every run comes to an end: neither automatic retries, a lost lease nor a  *)
(* sibling that waits keeps run looping or waiting.                         *)
RunsEnd == \A r \in Runs : pc[r] = "plan" ~> pc[r] \in {"done", "dead"}
=============================================================================
