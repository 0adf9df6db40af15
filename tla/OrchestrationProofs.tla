------------------------- MODULE OrchestrationProofs -------------------------
(***************************************************************************)
(* Theorems about Orchestration for any definition, any number of runs and  *)
(* any number of confirmations, with and without stalled runs.  IInv is the *)
(* inductive strengthening: what a sibling is about to write is justified   *)
(* by what it read (Planned, RetryJustified), and between the read and the  *)
(* write only the owner of the lease changes the journal (Owned, Begun).    *)
(***************************************************************************)
EXTENDS Orchestration, FiniteSetTheorems, TLAPS

(* An instance has an owner while it runs, and the owner has its epoch. *)
Owned ==
  /\ inst.status = "running" <=> inst.owner # None
  /\ \A r \in Runs : inst.owner = r => inst.epoch = token[r]

(* Only a run that awaits its batch, or unwinds it, has siblings. *)
Placed ==
  \A r \in Runs : pc[r] \notin {"batch", "unwind"} => \A n \in Nodes : at[r][n] = "none"

(* What is running while there is an owner was begun by the owner. *)
Begun ==
  \A n \in Nodes : node[n].status = "running" /\ inst.owner # None => starter[n] = inst.owner

(* Siblings are created only for nodes whose dependencies were settled. *)
Planned ==
  \A r \in Runs, n \in Nodes : at[r][n] # "none" =>
    \A d \in Deps[n] : node[d].status \in Settled

(* A node that waits for a start has one left ... *)
PendingHasStart ==
  \A n \in Nodes : node[n].status = "pending" =>
    node[n].attempts <= Retries[n] + confirmed[n]

(* ... and so has one that its error handler is about to queue again. *)
RetryJustified ==
  \A r \in Runs, n \in Nodes :
    at[r][n] = "pending" /\ inst.owner = r /\ node[n].status = "running" =>
      node[n].attempts <= Retries[n] + confirmed[n]

(* A run that renews its lease in time has it while it works. *)
WorksUnderLease ==
  \A r \in Runs \ Stalled : pc[r] \in Working => inst.owner = r /\ ~inst.lapsed

(* A writing agent is the only node of its batch. *)
AloneInBatch ==
  \A r \in Runs, n, m \in Nodes :
    Kind[n] = "write" /\ at[r][n] # "none" /\ at[r][m] # "none" => n = m

(* The first conjunct of RunningIsAttended follows from Begun. *)
Attended ==
  \A n \in Nodes, r \in Runs :
    node[n].status = "running" /\ inst.owner = r /\ ~inst.lapsed =>
      pc[r] \in {"unwind", "dead"} \/ at[r][n] \in {"exec"} \cup Atomic

IInv ==
  /\ TypeOK
  /\ Owned /\ Placed /\ Begun /\ Planned
  /\ PendingHasStart /\ RetryJustified /\ RerunsConfirmed
  /\ DependenciesRespected /\ CompletedIsComplete /\ RestingHasNoRunning
  /\ ReleasedAtEnd /\ Attended /\ WorksUnderLease /\ AloneInBatch
-----------------------------------------------------------------------------
LEMMA InitIInv == OrchestrationAssumption /\ Init => IInv
BY DEF Init, IInv, TypeOK, Owned, Placed, Begun, Planned, PendingHasStart,
       RetryJustified, RerunsConfirmed, DependenciesRespected,
       CompletedIsComplete, RestingHasNoRunning, ReleasedAtEnd, Attended,
       WorksUnderLease, AloneInBatch, OrchestrationAssumption, Instance,
       NodeRow, Settled, Place, Ended, Atomic, Writing, Working

(* What one record or table update does, field by field. *)
LEMMA ReleasedRow ==
  ASSUME TypeOK, NEW s \in {"pending", "blocked", "completed"}
  PROVE  /\ Released(s) \in Instance
         /\ Released(s).status = s
         /\ Released(s).owner = None
         /\ Released(s).epoch = inst.epoch
         /\ ~Released(s).lapsed
BY DEF Released, Instance, TypeOK

LEMMA HeldNodes ==
  ASSUME TypeOK
  PROVE  /\ HoldRunning \in [Nodes -> NodeRow]
         /\ \A n \in Nodes :
              /\ HoldRunning[n].attempts = node[n].attempts
              /\ HoldRunning[n].status =
                   IF node[n].status = "running" THEN "blocked" ELSE node[n].status
<1> SUFFICES ASSUME NEW n \in Nodes
             PROVE  /\ HoldRunning[n] \in NodeRow
                    /\ HoldRunning[n].attempts = node[n].attempts
                    /\ HoldRunning[n].status =
                         IF node[n].status = "running" THEN "blocked" ELSE node[n].status
  BY DEF HoldRunning
<1>1. node[n] \in NodeRow
  BY DEF TypeOK
<1>2. /\ [node[n] EXCEPT !.status = "blocked"] \in NodeRow
      /\ [node[n] EXCEPT !.status = "blocked"].attempts = node[n].attempts
      /\ [node[n] EXCEPT !.status = "blocked"].status = "blocked"
  BY <1>1 DEF NodeRow
<1>3. QED
  BY <1>1, <1>2 DEF HoldRunning

LEMMA SetStatus ==
  ASSUME TypeOK, NEW n \in Nodes, NEW s \in Writing \cup {"running"},
         node' = [node EXCEPT ![n].status = s]
  PROVE  /\ node' \in [Nodes -> NodeRow]
         /\ node'[n].status = s
         /\ node'[n].attempts = node[n].attempts
         /\ \A m \in Nodes \ {n} : node'[m] = node[m]
<1>1. node[n] \in NodeRow
  BY DEF TypeOK
<1>2. /\ [node[n] EXCEPT !.status = s] \in NodeRow
      /\ [node[n] EXCEPT !.status = s].attempts = node[n].attempts
      /\ [node[n] EXCEPT !.status = s].status = s
  BY <1>1 DEF NodeRow, Writing, Settled
<1>3. QED
  BY <1>2 DEF TypeOK

LEMMA SetPlace ==
  ASSUME TypeOK, NEW r \in Runs, NEW n \in Nodes, NEW p \in Place, Goto(r, n, p)
  PROVE  /\ at' \in [Runs -> [Nodes -> Place]]
         /\ at'[r][n] = p
         /\ \A s \in Runs, m \in Nodes : s # r \/ m # n => at'[s][m] = at[s][m]
BY DEF TypeOK, Goto

(* FirstOf(S, 1) has one element at most. *)
LEMMA FirstIsAlone ==
  ASSUME NodeCount \in Nat, NEW S \in SUBSET Nodes, NEW n \in FirstOf(S, 1), NEW m \in FirstOf(S, 1)
  PROVE  n = m
<1>1. \A k \in FirstOf(S, 1) : {i \in S : i < k} = {}
  <2> SUFFICES ASSUME NEW k \in FirstOf(S, 1)
               PROVE  {i \in S : i < k} = {}
    OBVIOUS
  <2>1. IsFiniteSet({i \in S : i < k})
    <3>1. IsFiniteSet(1 .. NodeCount)
      BY FS_Interval
    <3>2. QED
      BY <3>1, FS_Subset DEF Nodes
  <2>2. Cardinality({i \in S : i < k}) \in Nat /\ Cardinality({i \in S : i < k}) < 1
    BY <2>1, FS_CardinalityType DEF FirstOf
  <2>3. Cardinality({i \in S : i < k}) = 0
    BY <2>2
  <2>4. QED
    BY <2>1, <2>3, FS_EmptySet
<1>2. n \in S /\ m \in S /\ n \in Nat /\ m \in Nat
  BY DEF FirstOf, Nodes
<1>3. ~(n < m) /\ ~(m < n)
  BY <1>1, <1>2
<1>4. QED
  BY <1>2, <1>3
-----------------------------------------------------------------------------
(* The steps that leave the database alone. *)
Local == UNCHANGED <<inst, node, confirmed, starter, token>>

(* What a local step may do to the siblings: each stays as it is, ends, or    *)
(* goes on to what its agent or its error handler decides.                  *)
LocalSafe ==
  /\ pc' \in [Runs -> Working \cup {"idle", "done", "dead"}]
  /\ at' \in [Runs -> [Nodes -> Place]]
  /\ Placed' /\ Planned' /\ RetryJustified' /\ ReleasedAtEnd'
  /\ Attended' /\ WorksUnderLease' /\ AloneInBatch'

LEMMA LocalStep ==
  ASSUME IInv, Local, LocalSafe
  PROVE  IInv'
<1> USE DEF Local, LocalSafe, IInv
<1>1. TypeOK'
  BY DEF TypeOK
<1>2. Owned' /\ Begun' /\ PendingHasStart' /\ RerunsConfirmed'
  BY DEF Owned, Begun, PendingHasStart, RerunsConfirmed
<1>3. DependenciesRespected' /\ CompletedIsComplete' /\ RestingHasNoRunning'
  BY DEF DependenciesRespected, CompletedIsComplete, RestingHasNoRunning
<1>4. QED
  BY <1>1, <1>2, <1>3

LEMMA BeginPlaces ==
  [n \in Nodes |-> IF n \in Batch THEN "begin" ELSE "none"] \in [Nodes -> Place]
BY DEF Place, Ended

LEMMA PlanStep ==
  ASSUME OrchestrationAssumption, IInv, NEW r \in Runs, Plan(r)
  PROVE  Local /\ LocalSafe
<1> USE DEF IInv
<1>1. Local /\ pc[r] = "plan" /\ \A n \in Nodes : at[r][n] = "none"
  BY DEF Plan, Local, Placed
<1>2. CASE UNCHANGED at /\ \E p \in {"abort", "complete"} : pc' = [pc EXCEPT ![r] = p]
  <2>1. PICK p \in {"abort", "complete"} : pc' = [pc EXCEPT ![r] = p]
    BY <1>2
  <2>2. /\ pc' \in [Runs -> Working \cup {"idle", "done", "dead"}]
        /\ pc'[r] = p
        /\ \A s \in Runs \ {r} : pc'[s] = pc[s]
    BY <2>1 DEF TypeOK, Working
  <2>3. at' \in [Runs -> [Nodes -> Place]] /\ Placed'
    BY <1>1, <1>2, <2>2 DEF TypeOK, Placed
  <2>4. Planned' /\ RetryJustified' /\ AloneInBatch'
    BY <1>1, <1>2 DEF Local, Planned, RetryJustified, AloneInBatch
  <2>5. ReleasedAtEnd' /\ Attended'
    BY <1>1, <1>2, <2>2 DEF Local, ReleasedAtEnd, Attended, Atomic, Writing, Settled
  <2>6. WorksUnderLease'
    BY <1>1, <2>2 DEF Local, WorksUnderLease, Working
  <2>7. QED
    BY <1>1, <2>2, <2>3, <2>4, <2>5, <2>6 DEF LocalSafe
<1>3. CASE /\ pc' = [pc EXCEPT ![r] = "batch"]
           /\ at' = [at EXCEPT ![r] = [n \in Nodes |-> IF n \in Batch THEN "begin" ELSE "none"]]
  <2>1. /\ pc' \in [Runs -> Working \cup {"idle", "done", "dead"}]
        /\ pc'[r] = "batch"
        /\ \A s \in Runs \ {r} : pc'[s] = pc[s]
    BY <1>3 DEF TypeOK, Working
  <2>2. /\ at' \in [Runs -> [Nodes -> Place]]
        /\ \A n \in Nodes : at'[r][n] = IF n \in Batch THEN "begin" ELSE "none"
        /\ \A s \in Runs \ {r} : at'[s] = at[s]
    BY <1>3, BeginPlaces DEF TypeOK
  <2>3. Placed'
    BY <2>1, <2>2 DEF Placed
  <2>4. Batch \subseteq Ready
    BY DEF Batch, FirstOf
  <2>5. Planned'
    <3>1. \A n \in Batch : \A d \in Deps[n] : node[d].status \in Settled
      BY <2>4 DEF Ready
    <3>2. QED
      BY <1>1, <2>2, <3>1 DEF Local, Planned
  <2>6. RetryJustified' /\ ReleasedAtEnd'
    BY <1>1, <2>1, <2>2 DEF Local, RetryJustified, ReleasedAtEnd
  <2>7. Attended'
    <3>1. \A n \in Nodes : ~(node[n].status = "running" /\ inst.owner = r /\ ~inst.lapsed)
      BY <1>1 DEF Attended, Atomic, Writing, Settled
    <3>2. QED
      BY <1>1, <2>1, <2>2, <3>1 DEF Local, Attended
  <2>8. WorksUnderLease'
    BY <1>1, <2>1 DEF Local, WorksUnderLease, Working
  <2>9. AloneInBatch'
    <3>1. \A n, m \in Batch : Kind[n] = "write" => n = m
      <4> SUFFICES ASSUME NEW n \in Batch, NEW m \in Batch, Kind[n] = "write"
                   PROVE  n = m
        OBVIOUS
      <4> DEFINE writes == {k \in Ready : Kind[k] = "write"}
      <4>1. n \in writes
        BY <2>4
      <4>2. Batch = FirstOf(writes, 1) /\ writes \in SUBSET Nodes
        BY <4>1 DEF Batch, Ready, Pending
      <4>3. QED
        BY <4>2, FirstIsAlone DEF OrchestrationAssumption
    <3>2. QED
      BY <2>2, <3>1 DEF AloneInBatch
  <2>10. QED
    BY <1>1, <2>1, <2>2, <2>3, <2>5, <2>6, <2>7, <2>8, <2>9 DEF LocalSafe
<1>4. QED
  BY <1>2, <1>3 DEF Plan

(* A local step that moves one sibling. *)
LEMMA MoveStep ==
  ASSUME IInv, Local, UNCHANGED pc,
         NEW r \in Runs, NEW n \in Nodes, NEW p \in Place, Goto(r, n, p),
         at[r][n] # "none",
         p = "pending" => node[n].attempts <= Retries[n] + confirmed[n],
         \/ pc[r] = "unwind"
         \/ p \in {"exec"} \cup Atomic
         \/ ~(node[n].status = "running" /\ inst.owner = r /\ ~inst.lapsed)
  PROVE  LocalSafe
<1> USE DEF IInv, Local
<1>1. /\ at' \in [Runs -> [Nodes -> Place]]
      /\ at'[r][n] = p
      /\ \A s \in Runs, m \in Nodes : s # r \/ m # n => at'[s][m] = at[s][m]
  BY SetPlace
<1>2. Placed'
  BY <1>1 DEF Placed
<1>3. Planned'
  BY <1>1 DEF Planned
<1>4. RetryJustified'
  BY <1>1 DEF RetryJustified
<1>5. ReleasedAtEnd' /\ WorksUnderLease'
  BY DEF ReleasedAtEnd, WorksUnderLease
<1>6. Attended'
  BY <1>1 DEF Attended
<1>7. AloneInBatch'
  BY <1>1 DEF AloneInBatch
<1>8. QED
  BY <1>1, <1>2, <1>3, <1>4, <1>5, <1>6, <1>7 DEF LocalSafe, TypeOK

LEMMA AgentEndsStep ==
  ASSUME IInv, NEW r \in Runs, NEW n \in Nodes, AgentEnds(r, n)
  PROVE  Local /\ LocalSafe
<1>1. PICK p \in {"succeeded", "blocked", "error"} : Goto(r, n, p)
  BY DEF AgentEnds
<1>2. p \in Place /\ p \in Atomic /\ p # "pending" /\ at[r][n] # "none"
  BY DEF AgentEnds, Place, Atomic, Writing, Settled
<1>3. Local /\ UNCHANGED pc
  BY DEF AgentEnds, Local
<1>4. QED
  BY <1>1, <1>2, <1>3, MoveStep

LEMMA ReadAttemptsStep ==
  ASSUME OrchestrationAssumption, IInv, NEW r \in Runs, NEW n \in Nodes, ReadAttempts(r, n)
  PROVE  Local /\ LocalSafe
<1>1. PICK p \in {"pending", "blocked"} :
        Goto(r, n, p) /\ (p = "pending" => node[n].attempts <= Retries[n])
  BY DEF ReadAttempts
<1>2. p \in Place /\ p \in Atomic /\ at[r][n] # "none"
  BY DEF ReadAttempts, Place, Atomic, Writing
<1>3. Local /\ UNCHANGED pc
  BY DEF ReadAttempts, Local
<1>4. p = "pending" => node[n].attempts <= Retries[n] + confirmed[n]
  BY <1>1 DEF IInv, TypeOK, NodeRow, OrchestrationAssumption
<1>5. QED
  BY <1>1, <1>2, <1>3, <1>4, MoveStep

LEMMA SiblingStopsStep ==
  ASSUME IInv, NEW r \in Runs, NEW n \in Nodes, SiblingStops(r, n)
  PROVE  Local /\ LocalSafe
<1>1. Goto(r, n, "none") /\ at[r][n] # "none" /\ pc[r] = "unwind" /\ "none" \in Place
  BY DEF SiblingStops, Place, Ended
<1>2. Local /\ UNCHANGED pc
  BY DEF SiblingStops, Local
<1>3. QED
  BY <1>1, <1>2, MoveStep

(* A local step that moves a run on and forgets its siblings. *)
LEMMA ForgetStep ==
  ASSUME IInv, Local, NEW r \in Runs, NEW p \in {"plan", "dead"},
         pc[r] \in Working,
         pc' = [pc EXCEPT ![r] = p],
         at' = [at EXCEPT ![r] = [n \in Nodes |-> "none"]],
         p = "plan" => \A n \in Nodes : at[r][n] \in {"none", "done"} /\ pc[r] = "batch"
  PROVE  LocalSafe
<1> USE DEF IInv, Local
<1>1. /\ pc' \in [Runs -> Working \cup {"idle", "done", "dead"}]
      /\ pc'[r] = p
      /\ \A s \in Runs \ {r} : pc'[s] = pc[s]
  BY DEF TypeOK, Working
<1>2. [n \in Nodes |-> "none"] \in [Nodes -> Place]
  BY DEF Place, Ended
<1>3. /\ at' \in [Runs -> [Nodes -> Place]]
      /\ \A n \in Nodes : at'[r][n] = "none"
      /\ \A s \in Runs \ {r} : at'[s] = at[s]
  BY <1>2 DEF TypeOK
<1>4. Placed'
  BY <1>1, <1>3 DEF Placed
<1>5. Planned'
  BY <1>3 DEF Planned
<1>6. RetryJustified'
  BY <1>3 DEF RetryJustified
<1>7. ReleasedAtEnd'
  BY <1>1 DEF ReleasedAtEnd
<1>8. Attended'
  <2>1. p = "plan" => \A n \in Nodes : at[r][n] \notin {"exec"} \cup Atomic
    BY DEF Atomic, Writing, Settled
  <2>2. QED
    BY <1>1, <1>3, <2>1 DEF Attended
<1>9. WorksUnderLease'
  BY <1>1 DEF WorksUnderLease, Working
<1>10. AloneInBatch'
  BY <1>3 DEF AloneInBatch
<1>11. QED
  BY <1>1, <1>3, <1>4, <1>5, <1>6, <1>7, <1>8, <1>9, <1>10 DEF LocalSafe

LEMMA BatchDoneStep ==
  ASSUME IInv, NEW r \in Runs, BatchDone(r)
  PROVE  Local /\ LocalSafe
BY ForgetStep DEF BatchDone, Local, Working

LEMMA CrashStep ==
  ASSUME IInv, NEW r \in Runs, Crash(r)
  PROVE  Local /\ LocalSafe
BY ForgetStep DEF Crash, Local

LEMMA UnwindStep ==
  ASSUME IInv, NEW r \in Runs, Unwind(r)
  PROVE  Local /\ LocalSafe
<1> USE DEF IInv
<1>1. Local /\ UNCHANGED at /\ pc[r] = "batch"
  BY DEF Unwind, Local
<1>2. /\ pc' \in [Runs -> Working \cup {"idle", "done", "dead"}]
      /\ pc'[r] = "unwind"
      /\ \A s \in Runs \ {r} : pc'[s] = pc[s]
  BY DEF TypeOK, Working, Unwind
<1>3. at' \in [Runs -> [Nodes -> Place]] /\ Placed' /\ Planned' /\ RetryJustified' /\ AloneInBatch'
  BY <1>1, <1>2 DEF Local, TypeOK, Placed, Planned, RetryJustified, AloneInBatch
<1>4. ReleasedAtEnd' /\ Attended'
  BY <1>1, <1>2 DEF Local, ReleasedAtEnd, Attended
<1>5. WorksUnderLease'
  BY <1>1, <1>2 DEF Local, WorksUnderLease, Working
<1>6. QED
  BY <1>1, <1>2, <1>3, <1>4, <1>5 DEF LocalSafe
-----------------------------------------------------------------------------
(* The transactions of a run. *)

LEMMA BeginNodeStep ==
  ASSUME OrchestrationAssumption, IInv, NEW r \in Runs, NEW n \in Nodes, BeginNode(r, n)
  PROVE  IInv'
<1> USE DEF IInv
<1>1. at[r][n] = "begin" /\ pc[r] = "batch" /\ UNCHANGED <<inst, confirmed, pc, token>>
  BY DEF BeginNode
<1>2. CASE ~(Fence(r) /\ node[n].status = "pending")
  <2>1. Goto(r, n, "raised") /\ Local
    BY <1>1, <1>2 DEF BeginNode, Local
  <2>2. ~(node[n].status = "running" /\ inst.owner = r /\ ~inst.lapsed)
    BY <1>1 DEF Attended, Atomic, Writing, Settled
  <2>3. LocalSafe
    BY <1>1, <2>1, <2>2, MoveStep DEF Place, Ended
  <2>4. QED
    BY <2>1, <2>3, LocalStep
<1>3. CASE Fence(r) /\ node[n].status = "pending"
  <2>1. PICK p \in Opening(n) : Goto(r, n, p)
    BY <1>3 DEF BeginNode
  <2>2. p \in Place /\ p \in {"exec"} \cup Atomic /\ p # "pending"
    BY DEF Opening, Place, Atomic, Writing, Settled
  <2>3. /\ at' \in [Runs -> [Nodes -> Place]]
        /\ at'[r][n] = p
        /\ \A s \in Runs, m \in Nodes : s # r \/ m # n => at'[s][m] = at[s][m]
    BY <2>1, <2>2, SetPlace
  <2>4. /\ node' = [node EXCEPT ![n] = [status |-> "running", attempts |-> @.attempts + 1]]
        /\ starter' = [starter EXCEPT ![n] = r]
    BY <1>3 DEF BeginNode
  <2>5. node[n].attempts \in Nat
    BY DEF TypeOK, NodeRow
  <2>6. /\ node' \in [Nodes -> NodeRow]
        /\ node'[n].status = "running"
        /\ node'[n].attempts = node[n].attempts + 1
        /\ \A m \in Nodes \ {n} : node'[m] = node[m]
    BY <2>4, <2>5 DEF TypeOK, NodeRow
  <2>7. /\ starter' \in [Nodes -> Runs \cup {None}]
        /\ starter'[n] = r
        /\ \A m \in Nodes \ {n} : starter'[m] = starter[m]
    BY <2>4 DEF TypeOK
  <2>8. inst.owner = r /\ inst.status = "running" /\ ~inst.lapsed
    BY <1>3 DEF Fence
  <2>9. TypeOK'
    BY <1>1, <2>3, <2>6, <2>7 DEF TypeOK
  <2>10. Owned' /\ Placed'
    BY <1>1, <2>3 DEF Owned, Placed
  <2>11. Begun'
    BY <1>1, <2>6, <2>7, <2>8 DEF Begun
  <2>12. \A m \in Nodes : node[m].status \in Settled => node'[m] = node[m]
    BY <1>3, <2>6 DEF Settled
  <2>13. Planned'
    BY <1>1, <2>3, <2>12, OrchestrationAssumption DEF Planned, OrchestrationAssumption
  <2>14. PendingHasStart'
    BY <1>1, <2>6 DEF PendingHasStart
  <2>15. RetryJustified'
    <3> SUFFICES ASSUME NEW s \in Runs, NEW m \in Nodes, at'[s][m] = "pending",
                        inst.owner = s, node'[m].status = "running"
                 PROVE  node'[m].attempts <= Retries[m] + confirmed[m]
      BY <1>1 DEF RetryJustified
    <3>1. s = r /\ m # n
      BY <2>2, <2>3, <2>8
    <3>2. QED
      BY <2>3, <2>6, <3>1 DEF RetryJustified
  <2>16. RerunsConfirmed'
    <3>1. node[n].attempts <= Retries[n] + confirmed[n]
      BY <1>3 DEF PendingHasStart
    <3>2. Retries[n] \in Nat /\ confirmed[n] \in Nat
      BY DEF TypeOK, OrchestrationAssumption
    <3>3. QED
      BY <1>1, <2>5, <2>6, <3>1, <3>2 DEF RerunsConfirmed
  <2>17. DependenciesRespected'
    <3>1. \A d \in Deps[n] : node[d].status \in Settled
      BY <1>1 DEF Planned
    <3>2. QED
      BY <2>6, <2>12, <3>1 DEF DependenciesRespected, OrchestrationAssumption
  <2>18. CompletedIsComplete' /\ RestingHasNoRunning'
    BY <1>1, <2>8 DEF CompletedIsComplete, RestingHasNoRunning
  <2>19. ReleasedAtEnd' /\ WorksUnderLease'
    BY <1>1 DEF ReleasedAtEnd, WorksUnderLease
  <2>20. Attended'
    BY <1>1, <2>2, <2>3, <2>6, <2>8 DEF Attended
  <2>21. AloneInBatch'
    BY <1>1, <2>3 DEF AloneInBatch
  <2>22. QED
    BY <2>9, <2>10, <2>11, <2>13, <2>14, <2>15, <2>16, <2>17, <2>18, <2>19, <2>20, <2>21
<1>4. QED
  BY <1>2, <1>3

LEMMA FinishNodeStep ==
  ASSUME OrchestrationAssumption, IInv, NEW r \in Runs, NEW n \in Nodes, FinishNode(r, n)
  PROVE  IInv'
<1> USE DEF IInv
<1>1. /\ at[r][n] \in Writing /\ at[r][n] # "none"
      /\ UNCHANGED <<inst, confirmed, starter, pc, token>>
  BY DEF FinishNode, Writing, Settled
<1>2. CASE ~(Fence(r) /\ node[n].status = "running")
  <2>1. Goto(r, n, "raised") /\ Local
    BY <1>1, <1>2 DEF FinishNode, Local
  <2>2. ~(node[n].status = "running" /\ inst.owner = r /\ ~inst.lapsed)
    BY <1>2 DEF Fence, Owned, TypeOK, OrchestrationAssumption
  <2>3. LocalSafe
    BY <1>1, <2>1, <2>2, MoveStep DEF Place, Ended
  <2>4. QED
    BY <2>1, <2>3, LocalStep
<1>3. CASE Fence(r) /\ node[n].status = "running"
  <2> DEFINE s == at[r][n]
  <2>1. Goto(r, n, "done") /\ node' = [node EXCEPT ![n].status = s]
    BY <1>3 DEF FinishNode
  <2>2. /\ at' \in [Runs -> [Nodes -> Place]]
        /\ at'[r][n] = "done"
        /\ \A q \in Runs, m \in Nodes : q # r \/ m # n => at'[q][m] = at[q][m]
    BY <2>1, SetPlace DEF Place, Ended
  <2>3. /\ node' \in [Nodes -> NodeRow]
        /\ node'[n].status = s
        /\ node'[n].attempts = node[n].attempts
        /\ \A m \in Nodes \ {n} : node'[m] = node[m]
    BY <1>1, <2>1, SetStatus
  <2>4. inst.owner = r /\ inst.status = "running" /\ ~inst.lapsed
    BY <1>3 DEF Fence
  <2>5. s # "running"
    BY <1>1 DEF Writing, Settled
  <2>6. \A m \in Nodes : node[m].status \in Settled => node'[m] = node[m]
    BY <1>3, <2>3 DEF Settled
  <2>7. TypeOK'
    BY <1>1, <2>2, <2>3 DEF TypeOK
  <2>8. Owned' /\ Placed' /\ Begun'
    BY <1>1, <2>2, <2>3, <2>5 DEF Owned, Placed, Begun
  <2>9. Planned'
    BY <1>1, <2>2, <2>6 DEF Planned, OrchestrationAssumption
  <2>10. PendingHasStart'
    <3>1. s = "pending" => node[n].attempts <= Retries[n] + confirmed[n]
      BY <1>3, <2>4 DEF RetryJustified
    <3>2. QED
      BY <1>1, <2>3, <3>1 DEF PendingHasStart
  <2>11. RetryJustified'
    BY <1>1, <2>2, <2>3, <2>5 DEF RetryJustified
  <2>12. RerunsConfirmed' /\ DependenciesRespected'
    BY <1>1, <2>3, <2>6 DEF RerunsConfirmed, DependenciesRespected, OrchestrationAssumption
  <2>13. CompletedIsComplete' /\ RestingHasNoRunning'
    BY <1>1, <2>4 DEF CompletedIsComplete, RestingHasNoRunning
  <2>14. ReleasedAtEnd' /\ WorksUnderLease'
    BY <1>1 DEF ReleasedAtEnd, WorksUnderLease
  <2>15. Attended'
    BY <1>1, <2>2, <2>3, <2>5 DEF Attended
  <2>16. AloneInBatch'
    BY <1>1, <2>2 DEF AloneInBatch
  <2>17. QED
    BY <2>7, <2>8, <2>9, <2>10, <2>11, <2>12, <2>13, <2>14, <2>15, <2>16
<1>4. QED
  BY <1>2, <1>3
-----------------------------------------------------------------------------
(* The transactions that give, take back or lose the lease.  They change no  *)
(* attempt and no settled node, and leave no node pending that was not.      *)
Keeps ==
  /\ node' \in [Nodes -> NodeRow]
  /\ \A n \in Nodes :
       /\ node'[n].attempts = node[n].attempts
       /\ node[n].status \in Settled => node'[n] = node[n]
       /\ node'[n].status # node[n].status =>
            node[n].status = "running" /\ node'[n].status = "blocked"

LEMMA HoldKeeps ==
  ASSUME TypeOK, node' = HoldRunning
  PROVE  Keeps /\ \A n \in Nodes : node'[n].status # "running"
<1>1. \A n \in Nodes : node[n].status # "running" => HoldRunning[n] = node[n]
  BY DEF HoldRunning
<1>2. QED
  BY <1>1, HeldNodes DEF Keeps, Settled

LEMMA KeepsInvariants ==
  ASSUME OrchestrationAssumption, IInv, Keeps, UNCHANGED confirmed
  PROVE  /\ PendingHasStart' /\ RerunsConfirmed' /\ DependenciesRespected'
         /\ (UNCHANGED at => Planned' /\ AloneInBatch')
<1> USE DEF IInv, Keeps
<1>1. PendingHasStart'
  BY DEF PendingHasStart
<1>2. RerunsConfirmed'
  BY DEF RerunsConfirmed
<1>3. DependenciesRespected'
  BY DEF DependenciesRespected, OrchestrationAssumption
<1>4. UNCHANGED at => Planned' /\ AloneInBatch'
  BY DEF Planned, AloneInBatch, OrchestrationAssumption
<1>5. QED
  BY <1>1, <1>2, <1>3, <1>4

LEMMA ClaimStep ==
  ASSUME OrchestrationAssumption, IInv, NEW r \in Runs, Claim(r)
  PROVE  IInv'
<1> USE DEF IInv
<1>1. /\ pc[r] = "idle" /\ ~Leased /\ inst.status # "completed"
      /\ UNCHANGED <<confirmed, starter, at>>
      /\ node' = HoldRunning
  BY DEF Claim
<1>2. Keeps /\ \A n \in Nodes : node'[n].status # "running"
  BY <1>1, HoldKeeps
<1>3. /\ PendingHasStart' /\ RerunsConfirmed' /\ DependenciesRespected'
      /\ Planned' /\ AloneInBatch'
  BY <1>1, <1>2, KeepsInvariants
<1>4. Begun' /\ RetryJustified' /\ RestingHasNoRunning' /\ Attended'
  BY <1>2 DEF Begun, RetryJustified, RestingHasNoRunning, Attended
<1>5. \A s \in Runs \ Stalled : pc[s] \notin Working
  BY <1>1 DEF WorksUnderLease, Leased, OrchestrationAssumption
<1>6. CASE inst' = Released("blocked") /\ UNCHANGED <<pc, token>>
  <2>1. inst' \in Instance /\ inst'.status = "blocked" /\ inst'.owner = None
    BY <1>6, ReleasedRow
  <2>2. TypeOK'
    BY <1>1, <1>2, <1>6, <2>1 DEF TypeOK, Keeps
  <2>3. Owned' /\ Placed'
    BY <1>1, <1>6, <2>1 DEF Owned, Placed, OrchestrationAssumption
  <2>4. CompletedIsComplete' /\ ReleasedAtEnd' /\ WorksUnderLease'
    BY <1>5, <1>6, <2>1 DEF CompletedIsComplete, ReleasedAtEnd, WorksUnderLease, OrchestrationAssumption
  <2>5. QED
    BY <1>3, <1>4, <2>2, <2>3, <2>4
<1>7. CASE /\ inst' = [status |-> "running", owner |-> r, epoch |-> inst.epoch + 1, lapsed |-> FALSE]
           /\ token' = [token EXCEPT ![r] = inst.epoch + 1]
           /\ pc' = [pc EXCEPT ![r] = "plan"]
  <2>1. inst.epoch \in Nat
    BY DEF TypeOK, Instance
  <2>2. /\ inst' \in Instance /\ inst'.status = "running" /\ inst'.owner = r
        /\ inst'.epoch = inst.epoch + 1 /\ ~inst'.lapsed
    BY <1>7, <2>1 DEF Instance
  <2>3. /\ token' \in [Runs -> Nat] /\ token'[r] = inst.epoch + 1
        /\ pc' \in [Runs -> Working \cup {"idle", "done", "dead"}]
        /\ pc'[r] = "plan"
        /\ \A s \in Runs \ {r} : pc'[s] = pc[s]
    BY <1>7, <2>1 DEF TypeOK, Working
  <2>4. TypeOK'
    BY <1>1, <1>2, <2>2, <2>3 DEF TypeOK, Keeps
  <2>5. Owned' /\ Placed'
    BY <1>1, <2>2, <2>3 DEF Owned, Placed, OrchestrationAssumption
  <2>6. CompletedIsComplete' /\ ReleasedAtEnd'
    BY <2>2, <2>3 DEF CompletedIsComplete, ReleasedAtEnd
  <2>7. WorksUnderLease'
    BY <1>5, <2>2, <2>3 DEF WorksUnderLease
  <2>8. QED
    BY <1>3, <1>4, <2>4, <2>5, <2>6, <2>7
<1>8. QED
  BY <1>6, <1>7 DEF Claim

LEMMA RetryNodeStep ==
  ASSUME OrchestrationAssumption, IInv, NEW n \in Nodes, RetryNode(n)
  PROVE  IInv'
<1> USE DEF IInv
<1>1. /\ ~Leased /\ node[n].status = "blocked"
      /\ node' = [node EXCEPT ![n].status = "pending"]
      /\ inst' = Released("pending")
      /\ confirmed' = [confirmed EXCEPT ![n] = @ + 1]
      /\ UNCHANGED <<starter, pc, token, at>>
  BY DEF RetryNode
<1>2. /\ node' \in [Nodes -> NodeRow]
      /\ node'[n].status = "pending"
      /\ node'[n].attempts = node[n].attempts
      /\ \A m \in Nodes \ {n} : node'[m] = node[m]
  BY <1>1, SetStatus DEF Writing
<1>3. inst' \in Instance /\ inst'.status = "pending" /\ inst'.owner = None
  BY <1>1, ReleasedRow
<1>4. /\ confirmed' \in [Nodes -> Nat]
      /\ confirmed'[n] = confirmed[n] + 1
      /\ \A m \in Nodes \ {n} : confirmed'[m] = confirmed[m]
  BY <1>1 DEF TypeOK
<1>5. \A m \in Nodes : node[m].status \in Settled => node'[m] = node[m]
  BY <1>1, <1>2 DEF Settled
<1>6. /\ node[n].attempts \in Nat /\ confirmed[n] \in Nat /\ Retries[n] \in Nat
  BY DEF TypeOK, NodeRow, OrchestrationAssumption
<1>7. TypeOK'
  BY <1>1, <1>2, <1>3, <1>4 DEF TypeOK
<1>8. Owned' /\ Placed' /\ Begun'
  BY <1>1, <1>3 DEF Owned, Placed, Begun, OrchestrationAssumption
<1>9. Planned' /\ AloneInBatch'
  BY <1>1, <1>5 DEF Planned, AloneInBatch, OrchestrationAssumption
<1>10. node[n].attempts <= 1 + Retries[n] + confirmed[n]
  BY DEF RerunsConfirmed
<1>11. PendingHasStart' /\ RerunsConfirmed'
  BY <1>2, <1>4, <1>6, <1>10 DEF PendingHasStart, RerunsConfirmed
<1>12. RetryJustified' /\ Attended' /\ ReleasedAtEnd'
  BY <1>1, <1>3 DEF RetryJustified, Attended, ReleasedAtEnd, OrchestrationAssumption
<1>13. DependenciesRespected' /\ CompletedIsComplete' /\ RestingHasNoRunning'
  BY <1>2, <1>3, <1>5 DEF DependenciesRespected, CompletedIsComplete, RestingHasNoRunning,
                          OrchestrationAssumption
<1>14. WorksUnderLease'
  BY <1>1 DEF WorksUnderLease, Leased, OrchestrationAssumption
<1>15. QED
  BY <1>7, <1>8, <1>9, <1>11, <1>12, <1>13, <1>14

LEMMA AbortStep ==
  ASSUME OrchestrationAssumption, IInv, NEW r \in Runs, Abort(r)
  PROVE  IInv'
<1> USE DEF IInv
<1>1. /\ pc[r] \in Working
      /\ pc' = [pc EXCEPT ![r] = "done"]
      /\ at' = [at EXCEPT ![r] = [n \in Nodes |-> "none"]]
      /\ UNCHANGED <<confirmed, starter, token>>
  BY DEF Abort, Working
<1>2. /\ pc' \in [Runs -> Working \cup {"idle", "done", "dead"}]
      /\ pc'[r] = "done"
      /\ \A s \in Runs \ {r} : pc'[s] = pc[s]
  BY <1>1 DEF TypeOK, Working
<1>3. [n \in Nodes |-> "none"] \in [Nodes -> Place]
  BY DEF Place, Ended
<1>4. /\ at' \in [Runs -> [Nodes -> Place]]
      /\ \A n \in Nodes : at'[r][n] = "none"
      /\ \A s \in Runs \ {r} : at'[s] = at[s]
  BY <1>1, <1>3 DEF TypeOK
<1>5. Placed' /\ AloneInBatch'
  <2>1. Placed'
    BY <1>2, <1>4 DEF Placed
  <2>2. AloneInBatch'
    BY <1>4 DEF AloneInBatch
  <2>3. QED
    BY <2>1, <2>2
<1>6. CASE Fence(r)
  <2>1. node' = HoldRunning /\ inst' = Released("blocked")
    BY <1>6 DEF Abort
  <2>2. Keeps /\ \A n \in Nodes : node'[n].status # "running"
    BY <2>1, HoldKeeps
  <2>3. inst' \in Instance /\ inst'.status = "blocked" /\ inst'.owner = None
    BY <2>1, ReleasedRow
  <2>4. TypeOK'
    BY <1>1, <1>2, <1>4, <2>2, <2>3 DEF TypeOK, Keeps
  <2>5. PendingHasStart' /\ RerunsConfirmed' /\ DependenciesRespected'
    BY <1>1, <2>2, KeepsInvariants
  <2>6. Owned' /\ Begun' /\ RetryJustified' /\ RestingHasNoRunning' /\ Attended'
    BY <1>1, <2>2, <2>3 DEF Owned, Begun, RetryJustified, RestingHasNoRunning, Attended,
                             OrchestrationAssumption
  <2>7. Planned'
    BY <1>4, <2>2 DEF Planned, Keeps, OrchestrationAssumption
  <2>8. CompletedIsComplete' /\ ReleasedAtEnd'
    BY <2>3 DEF CompletedIsComplete, ReleasedAtEnd, OrchestrationAssumption
  <2>9. WorksUnderLease'
    BY <1>2, <1>6 DEF WorksUnderLease, Fence, Working
  <2>10. QED
    BY <1>5, <2>4, <2>5, <2>6, <2>7, <2>8, <2>9
<1>7. CASE ~Fence(r)
  <2>1. UNCHANGED <<node, inst>>
    BY <1>7 DEF Abort
  <2>2. inst.owner = r => inst.lapsed
    BY <1>7 DEF Fence, Owned, TypeOK, OrchestrationAssumption
  <2>3. TypeOK'
    BY <1>1, <1>2, <1>4, <2>1 DEF TypeOK
  <2>4. Owned' /\ Begun' /\ PendingHasStart' /\ RerunsConfirmed'
    BY <1>1, <2>1 DEF Owned, Begun, PendingHasStart, RerunsConfirmed
  <2>5. DependenciesRespected' /\ CompletedIsComplete' /\ RestingHasNoRunning'
    BY <2>1 DEF DependenciesRespected, CompletedIsComplete, RestingHasNoRunning
  <2>6. Planned' /\ RetryJustified'
    BY <1>1, <1>4, <2>1 DEF Planned, RetryJustified
  <2>7. ReleasedAtEnd' /\ Attended'
    BY <1>2, <1>4, <2>1, <2>2 DEF ReleasedAtEnd, Attended
  <2>8. WorksUnderLease'
    BY <1>2, <2>1 DEF WorksUnderLease, Working
  <2>9. QED
    BY <1>5, <2>3, <2>4, <2>5, <2>6, <2>7, <2>8
<1>8. QED
  BY <1>6, <1>7

LEMMA CompleteStep ==
  ASSUME OrchestrationAssumption, IInv, NEW r \in Runs, Complete(r)
  PROVE  IInv'
<1> USE DEF IInv
<1>1. /\ pc[r] = "complete" /\ UNCHANGED <<node, confirmed, starter, token, at>>
      /\ \A n \in Nodes : at[r][n] = "none"
  BY DEF Complete, Placed
<1>2. Planned' /\ PendingHasStart' /\ RerunsConfirmed' /\ DependenciesRespected' /\ AloneInBatch'
  BY <1>1 DEF Planned, PendingHasStart, RerunsConfirmed, DependenciesRespected, AloneInBatch
<1>3. CASE /\ Fence(r) /\ inst' = Released("completed")
           /\ \A n \in Nodes : node[n].status \in Settled
           /\ pc' = [pc EXCEPT ![r] = "done"]
  <2>1. inst' \in Instance /\ inst'.status = "completed" /\ inst'.owner = None
    BY <1>3, ReleasedRow
  <2>2. /\ pc' \in [Runs -> Working \cup {"idle", "done", "dead"}]
        /\ pc'[r] = "done"
        /\ \A s \in Runs \ {r} : pc'[s] = pc[s]
    BY <1>3 DEF TypeOK, Working
  <2>3. TypeOK'
    BY <1>1, <2>1, <2>2 DEF TypeOK
  <2>4. Owned' /\ Placed' /\ Begun' /\ RetryJustified'
    BY <1>1, <2>1, <2>2 DEF Owned, Placed, Begun, RetryJustified, OrchestrationAssumption
  <2>5. CompletedIsComplete' /\ RestingHasNoRunning'
    BY <1>1, <1>3, <2>1 DEF CompletedIsComplete, RestingHasNoRunning, Settled
  <2>6. ReleasedAtEnd' /\ Attended'
    BY <1>1, <2>1, <2>2 DEF ReleasedAtEnd, Attended, OrchestrationAssumption
  <2>7. WorksUnderLease'
    BY <1>3, <2>2 DEF WorksUnderLease, Fence, Working
  <2>8. QED
    BY <1>2, <2>3, <2>4, <2>5, <2>6, <2>7
<1>4. CASE UNCHANGED inst /\ pc' = [pc EXCEPT ![r] = "abort"]
  <2>1. /\ pc' \in [Runs -> Working \cup {"idle", "done", "dead"}]
        /\ pc'[r] = "abort"
        /\ \A s \in Runs \ {r} : pc'[s] = pc[s]
    BY <1>4 DEF TypeOK, Working
  <2>2. TypeOK' /\ Placed'
    BY <1>1, <1>4, <2>1 DEF TypeOK, Placed
  <2>3. Owned' /\ Begun' /\ RetryJustified' /\ CompletedIsComplete' /\ RestingHasNoRunning'
    BY <1>1, <1>4 DEF Owned, Begun, RetryJustified, CompletedIsComplete, RestingHasNoRunning
  <2>4. ReleasedAtEnd' /\ WorksUnderLease'
    BY <1>1, <1>4, <2>1 DEF ReleasedAtEnd, WorksUnderLease, Working
  <2>5. Attended'
    BY <1>1, <1>4, <2>1 DEF Attended
  <2>6. QED
    BY <1>2, <2>2, <2>3, <2>4, <2>5
<1>5. QED
  BY <1>3, <1>4 DEF Complete

LEMMA LapseStep ==
  ASSUME OrchestrationAssumption, IInv, Lapse
  PROVE  IInv'
<1> USE DEF IInv
<1>1. /\ Leased /\ (inst.owner \in Stalled \/ pc[inst.owner] = "dead")
      /\ inst' = [inst EXCEPT !.lapsed = TRUE]
      /\ UNCHANGED <<node, confirmed, starter, pc, token, at>>
  BY DEF Lapse
<1>2. /\ inst' \in Instance /\ inst'.status = inst.status /\ inst'.owner = inst.owner
      /\ inst'.epoch = inst.epoch /\ inst'.lapsed
  BY <1>1 DEF TypeOK, Instance
<1>3. TypeOK'
  BY <1>1, <1>2 DEF TypeOK
<1>4. Owned' /\ Placed' /\ Begun' /\ Planned' /\ AloneInBatch'
  BY <1>1, <1>2 DEF Owned, Placed, Begun, Planned, AloneInBatch
<1>5. PendingHasStart' /\ RetryJustified' /\ RerunsConfirmed'
  BY <1>1, <1>2 DEF PendingHasStart, RetryJustified, RerunsConfirmed
<1>6. DependenciesRespected' /\ CompletedIsComplete' /\ RestingHasNoRunning'
  BY <1>1, <1>2 DEF DependenciesRespected, CompletedIsComplete, RestingHasNoRunning
<1>7. ReleasedAtEnd' /\ Attended'
  BY <1>1, <1>2 DEF ReleasedAtEnd, Attended
<1>8. WorksUnderLease'
  <2> SUFFICES ASSUME NEW s \in Runs \ Stalled, pc[s] \in Working
               PROVE  FALSE
    BY <1>1 DEF WorksUnderLease
  <2>1. inst.owner = s
    BY DEF WorksUnderLease
  <2>2. QED
    BY <1>1, <2>1 DEF Working
<1>9. QED
  BY <1>3, <1>4, <1>5, <1>6, <1>7, <1>8
-----------------------------------------------------------------------------
LEMMA NextStep ==
  ASSUME OrchestrationAssumption, IInv, Next
  PROVE  IInv'
<1>1. ASSUME NEW r \in Runs, Step(r)
      PROVE  IInv'
  <2>1. CASE Plan(r) \/ BatchDone(r) \/ SiblingFails(r) \/ KeepaliveLost(r)
    BY <2>1, PlanStep, BatchDoneStep, UnwindStep, LocalStep DEF SiblingFails, KeepaliveLost
  <2>2. CASE Abort(r) \/ Complete(r)
    BY <2>2, AbortStep, CompleteStep
  <2>3. ASSUME NEW n \in Nodes,
               AgentEnds(r, n) \/ ReadAttempts(r, n) \/ SiblingStops(r, n)
        PROVE  IInv'
    BY <2>3, AgentEndsStep, ReadAttemptsStep, SiblingStopsStep, LocalStep
  <2>4. ASSUME NEW n \in Nodes, BeginNode(r, n) \/ FinishNode(r, n)
        PROVE  IInv'
    BY <2>4, BeginNodeStep, FinishNodeStep
  <2>5. QED
    BY <1>1, <2>1, <2>2, <2>3, <2>4 DEF Step
<1>2. ASSUME NEW r \in Runs, Claim(r) \/ Cancel(r) \/ Crash(r)
      PROVE  IInv'
  BY <1>2, ClaimStep, UnwindStep, CrashStep, LocalStep DEF Cancel
<1>3. ASSUME NEW n \in Nodes, RetryNode(n)
      PROVE  IInv'
  BY <1>3, RetryNodeStep
<1>4. CASE Lapse
  BY <1>4, LapseStep
<1>5. QED
  BY <1>1, <1>2, <1>3, <1>4 DEF Next

LEMMA StutterStep ==
  ASSUME IInv, UNCHANGED vars
  PROVE  IInv'
BY DEF vars, IInv, TypeOK, Owned, Placed, Begun, Planned, PendingHasStart,
       RetryJustified, RerunsConfirmed, DependenciesRespected,
       CompletedIsComplete, RestingHasNoRunning, ReleasedAtEnd, Attended,
       WorksUnderLease, AloneInBatch

(* IInv holds in every reachable state, for every value of the constants. *)
THEOREM Inductive == Spec => []IInv
<1>1. Init => IInv
  BY OrchestrationAssumption, InitIInv
<1>2. IInv /\ [Next]_vars => IInv'
  BY OrchestrationAssumption, NextStep, StutterStep
<1>3. QED
  BY <1>1, <1>2, PTL DEF Spec

(* The rows and the local variables of every run keep their types. *)
THEOREM TypeCorrect == Spec => []TypeOK
<1>1. IInv => TypeOK
  BY DEF IInv
<1>2. QED
  BY <1>1, Inductive, PTL

(* A node is started only behind its dependencies, which stay settled. *)
THEOREM DependencyOrder == Spec => []DependenciesRespected
<1>1. IInv => DependenciesRespected
  BY DEF IInv
<1>2. QED
  BY <1>1, Inductive, PTL

(* A node is started no more often than retries and confirmations allow. *)
THEOREM RerunsBounded == Spec => []RerunsConfirmed
<1>1. IInv => RerunsConfirmed
  BY DEF IInv
<1>2. QED
  BY <1>1, Inductive, PTL

(* A completed workflow is complete. *)
THEOREM CompletionSound == Spec => []CompletedIsComplete
<1>1. IInv => CompletedIsComplete
  BY DEF IInv
<1>2. QED
  BY <1>1, Inductive, PTL

(* A blocked or completed instance has no running node. *)
THEOREM RestingSound == Spec => []RestingHasNoRunning
<1>1. IInv => RestingHasNoRunning
  BY DEF IInv
<1>2. QED
  BY <1>1, Inductive, PTL

(* No exit path of a run leaves a live lease. *)
THEOREM NoLeakedLease == Spec => []ReleasedAtEnd
<1>1. IInv => ReleasedAtEnd
  BY DEF IInv
<1>2. QED
  BY <1>1, Inductive, PTL

(* A running node under a live lease has its run behind it. *)
THEOREM NoOrphanedNode == Spec => []RunningIsAttended
<1>1. IInv => RunningIsAttended
  <2> SUFFICES ASSUME IInv, NEW n \in Nodes, NEW r \in Runs,
                      node[n].status = "running", Fence(r)
               PROVE  /\ starter[n] = r
                      /\ pc[r] \in {"unwind", "dead"} \/ at[r][n] \in {"exec"} \cup Atomic
    BY DEF RunningIsAttended
  <2>1. inst.owner = r /\ ~inst.lapsed /\ inst.owner # None
    BY OrchestrationAssumption DEF Fence, OrchestrationAssumption
  <2>2. QED
    BY <2>1 DEF IInv, Begun, Attended
<1>2. QED
  BY <1>1, Inductive, PTL

(* Among runs that renew their lease in time, a writing agent works alone. *)
THEOREM WritersSerial == Spec => []WriterAlone
<1>1. IInv => WriterAlone
  <2> SUFFICES ASSUME IInv, NEW r \in Runs \ Stalled, NEW s \in Runs \ Stalled,
                      NEW n \in Nodes, NEW m \in Nodes,
                      Kind[n] = "write", AtWork(r, n), AtWork(s, m)
               PROVE  r = s /\ n = m
    BY DEF WriterAlone
  <2>1. pc[r] \in Working /\ pc[s] \in Working
    BY DEF IInv, Placed, AtWork, Working
  <2>2. r = s
    BY <2>1 DEF IInv, WorksUnderLease
  <2>3. QED
    BY <2>2 DEF IInv, AloneInBatch, AtWork
<1>2. QED
  BY <1>1, Inductive, PTL
-----------------------------------------------------------------------------
(* What a step does to the journal. *)
Journal == <<node, confirmed, Reported>>

(* Running nodes are attended, rest nowhere and write one at a time. *)
THEOREM NodesInHand == Spec => []NodesAttended
<1>1. RestingHasNoRunning /\ RunningIsAttended /\ WriterAlone => NodesAttended
  BY DEF NodesAttended
<1>2. QED
  BY <1>1, RestingSound, NoOrphanedNode, WritersSerial, PTL

LEMMA LocalJournal ==
  ASSUME Local
  PROVE  UNCHANGED Journal
BY DEF Local, Journal, Reported

LEMMA BeginNodeJournal ==
  ASSUME IInv, NEW r \in Runs, NEW n \in Nodes, BeginNode(r, n)
  PROVE  \/ UNCHANGED Journal
         \/ /\ UNCHANGED <<confirmed, Reported>>
            /\ ~Reported
            /\ node[n].status = "pending"
            /\ \A d \in Deps[n] : node[d].status \in Settled
            /\ node'[n].status = "running"
            /\ node'[n].attempts = node[n].attempts + 1
            /\ \A m \in Nodes \ {n} : node'[m] = node[m]
<1> USE DEF IInv
<1>1. CASE ~(Fence(r) /\ node[n].status = "pending")
  BY <1>1 DEF BeginNode, Journal, Reported
<1>2. CASE Fence(r) /\ node[n].status = "pending"
  <2>1. /\ node' = [node EXCEPT ![n] = [status |-> "running", attempts |-> @.attempts + 1]]
        /\ UNCHANGED <<inst, confirmed>>
        /\ at[r][n] # "none"
    BY <1>2 DEF BeginNode
  <2>2. /\ node'[n].status = "running"
        /\ node'[n].attempts = node[n].attempts + 1
        /\ \A m \in Nodes \ {n} : node'[m] = node[m]
    BY <2>1 DEF TypeOK
  <2>3. \A d \in Deps[n] : node[d].status \in Settled
    BY <2>1 DEF Planned
  <2>4. QED
    BY <1>2, <2>1, <2>2, <2>3 DEF Fence, Reported
<1>3. QED
  BY <1>1, <1>2

LEMMA FinishNodeJournal ==
  ASSUME OrchestrationAssumption, IInv, NEW r \in Runs, NEW n \in Nodes, FinishNode(r, n)
  PROVE  \/ UNCHANGED Journal
         \/ /\ UNCHANGED <<confirmed, Reported>>
            /\ node[n].status = "running"
            /\ node'[n].status = at[r][n]
            /\ at[r][n] \in Writing
            /\ at[r][n] = "pending" => node[n].attempts <= Retries[n] + confirmed[n]
            /\ node'[n].attempts = node[n].attempts
            /\ \A m \in Nodes \ {n} : node'[m] = node[m]
            /\ inst.owner = starter[n] /\ inst.owner = r /\ ~inst.lapsed
<1> USE DEF IInv
<1>1. CASE ~(Fence(r) /\ node[n].status = "running")
  BY <1>1 DEF FinishNode, Journal, Reported
<1>2. CASE Fence(r) /\ node[n].status = "running"
  <2>1. /\ at[r][n] \in Writing
        /\ node' = [node EXCEPT ![n].status = at[r][n]]
        /\ UNCHANGED <<inst, confirmed>>
    BY <1>2 DEF FinishNode
  <2>2. /\ node'[n].status = at[r][n]
        /\ node'[n].attempts = node[n].attempts
        /\ \A m \in Nodes \ {n} : node'[m] = node[m]
    BY <2>1, SetStatus
  <2>3. inst.owner = r /\ ~inst.lapsed
    BY <1>2 DEF Fence
  <2>4. inst.owner = starter[n]
    BY <1>2, <2>3 DEF Begun, OrchestrationAssumption
  <2>5. at[r][n] = "pending" => node[n].attempts <= Retries[n] + confirmed[n]
    BY <1>2, <2>3 DEF RetryJustified
  <2>6. QED
    BY <1>2, <2>1, <2>2, <2>3, <2>4, <2>5 DEF Reported
<1>3. QED
  BY <1>1, <1>2

(* Claim and Abort hold what was running, or leave the journal. *)
LEMMA HoldJournal ==
  ASSUME IInv, NEW r \in Runs, Claim(r) \/ Abort(r)
  PROVE  \/ UNCHANGED Journal
         \/ UNCHANGED <<confirmed, Reported>> /\ node' = HoldRunning
<1> USE DEF IInv
<1>1. CASE Claim(r)
  <2>1. /\ node' = HoldRunning /\ UNCHANGED confirmed /\ inst.status # "completed"
        /\ \/ inst' = Released("blocked")
           \/ inst' = [status |-> "running", owner |-> r, epoch |-> inst.epoch + 1, lapsed |-> FALSE]
    BY <1>1 DEF Claim
  <2>2. inst'.status # "completed"
    BY <2>1, ReleasedRow
  <2>3. QED
    BY <2>1, <2>2 DEF Reported
<1>2. CASE Abort(r)
  <2>1. CASE Fence(r)
    <3>1. /\ node' = HoldRunning /\ UNCHANGED confirmed /\ inst.status # "completed"
          /\ inst' = Released("blocked")
      BY <1>2, <2>1 DEF Abort, Fence
    <3>2. inst'.status # "completed"
      BY <3>1, ReleasedRow
    <3>3. QED
      BY <3>1, <3>2 DEF Reported
  <2>2. CASE ~Fence(r)
    BY <1>2, <2>2 DEF Abort, Journal, Reported
  <2>3. QED
    BY <2>1, <2>2
<1>3. QED
  BY <1>1, <1>2

LEMMA RetryNodeJournal ==
  ASSUME IInv, NEW n \in Nodes, RetryNode(n)
  PROVE  /\ UNCHANGED Reported /\ ~Reported
         /\ node[n].status = "blocked"
         /\ node'[n].status = "pending"
         /\ node'[n].attempts = node[n].attempts
         /\ \A m \in Nodes \ {n} : node'[m] = node[m]
         /\ confirmed'[n] = confirmed[n] + 1
         /\ \A m \in Nodes \ {n} : confirmed'[m] = confirmed[m]
<1> USE DEF IInv
<1>1. /\ node[n].status = "blocked" /\ inst.status # "completed"
      /\ node' = [node EXCEPT ![n].status = "pending"]
      /\ inst' = Released("pending")
      /\ confirmed' = [confirmed EXCEPT ![n] = @ + 1]
  BY DEF RetryNode
<1>2. inst'.status = "pending"
  BY <1>1, ReleasedRow
<1>3. /\ node'[n].status = "pending"
      /\ node'[n].attempts = node[n].attempts
      /\ \A m \in Nodes \ {n} : node'[m] = node[m]
  BY <1>1, SetStatus DEF Writing
<1>4. QED
  BY <1>1, <1>2, <1>3 DEF TypeOK, Reported

LEMMA CompleteJournal ==
  ASSUME IInv, NEW r \in Runs, Complete(r)
  PROVE  \/ UNCHANGED Journal
         \/ /\ UNCHANGED <<node, confirmed>>
            /\ Reported'
            /\ \A n \in Nodes : node[n].status \in Settled
<1> USE DEF IInv
<1>1. CASE Fence(r) /\ \A n \in Nodes : node[n].status \in Settled
  <2>1. inst' = Released("completed") /\ UNCHANGED <<node, confirmed>>
    BY <1>1 DEF Complete
  <2>2. QED
    BY <1>1, <2>1, ReleasedRow DEF Reported
<1>2. CASE ~(Fence(r) /\ \A n \in Nodes : node[n].status \in Settled)
  BY <1>2 DEF Complete, Journal, Reported
<1>3. QED
  BY <1>1, <1>2

LEMMA LapseJournal ==
  ASSUME IInv, Lapse
  PROVE  UNCHANGED Journal
BY DEF Lapse, Journal, Reported, IInv, TypeOK, Instance

(* The steps that may change the journal; all others leave it. *)
LEMMA JournalSteps ==
  ASSUME OrchestrationAssumption, IInv, [Next]_vars
  PROVE  \/ UNCHANGED Journal
         \/ \E r \in Runs : Claim(r) \/ Abort(r) \/ Complete(r)
         \/ \E r \in Runs, n \in Nodes : BeginNode(r, n) \/ FinishNode(r, n)
         \/ \E n \in Nodes : RetryNode(n)
<1>1. ASSUME NEW r \in Runs, Plan(r) \/ BatchDone(r) \/ Unwind(r) \/ Crash(r)
      PROVE  UNCHANGED Journal
  BY <1>1, PlanStep, BatchDoneStep, UnwindStep, CrashStep, LocalJournal
<1>2. ASSUME NEW r \in Runs, NEW n \in Nodes,
             AgentEnds(r, n) \/ ReadAttempts(r, n) \/ SiblingStops(r, n)
      PROVE  UNCHANGED Journal
  BY <1>2, AgentEndsStep, ReadAttemptsStep, SiblingStopsStep, LocalJournal
<1>3. CASE UNCHANGED vars
  BY <1>3 DEF vars, Journal, Reported
<1>4. QED
  BY <1>1, <1>2, <1>3, LapseJournal DEF Next, Step, SiblingFails, KeepaliveLost, Cancel
-----------------------------------------------------------------------------
LEMMA SettledStep ==
  ASSUME OrchestrationAssumption, IInv, [Next]_vars,
         NEW m \in Nodes, node[m].status \in Settled
  PROVE  node'[m] = node[m]
<1> USE DEF Settled
<1>1. CASE UNCHANGED Journal
  BY <1>1 DEF Journal
<1>2. ASSUME NEW r \in Runs, Claim(r) \/ Abort(r) \/ Complete(r)
      PROVE  node'[m] = node[m]
  <2>1. CASE node' = HoldRunning
    BY <2>1 DEF HoldRunning
  <2>2. QED
    BY <1>2, <2>1, HoldJournal, CompleteJournal DEF Journal
<1>3. ASSUME NEW r \in Runs, NEW n \in Nodes, BeginNode(r, n) \/ FinishNode(r, n)
      PROVE  node'[m] = node[m]
  BY <1>3, BeginNodeJournal, FinishNodeJournal DEF Journal
<1>4. ASSUME NEW n \in Nodes, RetryNode(n)
      PROVE  node'[m] = node[m]
  BY <1>4, RetryNodeJournal
<1>5. QED
  BY <1>1, <1>2, <1>3, <1>4, JournalSteps

(* A succeeded or skipped node never changes again. *)
THEOREM SettledForever == Spec => SettledIsFinal
<1>1. IInv /\ [Next]_vars =>
        [\A n \in Nodes : node[n].status \in Settled => node'[n] = node[n]]_vars
  BY OrchestrationAssumption, SettledStep
<1>2. QED
  BY <1>1, Inductive, PTL DEF Spec, SettledIsFinal

LEMMA ResultStep ==
  ASSUME OrchestrationAssumption, IInv, [Next]_vars,
         NEW m \in Nodes, node[m].status = "running", node'[m].status \in Settled
  PROVE  /\ inst.owner = starter[m]
         /\ ~inst.lapsed
         /\ at[starter[m]][m] = node'[m].status
<1>1. "running" \notin Settled /\ "blocked" \notin Settled /\ "pending" \notin Settled
  BY DEF Settled
<1>2. ASSUME NEW r \in Runs, NEW n \in Nodes, FinishNode(r, n)
      PROVE  /\ inst.owner = starter[m]
             /\ ~inst.lapsed
             /\ at[starter[m]][m] = node'[m].status
  BY <1>1, <1>2, FinishNodeJournal DEF Journal
<1>3. ASSUME NEW r \in Runs, Claim(r) \/ Abort(r) \/ Complete(r)
      PROVE  FALSE
  <2>1. node' # HoldRunning
    BY <1>1 DEF HoldRunning, IInv, TypeOK, NodeRow
  <2>2. QED
    BY <1>1, <1>3, <2>1, HoldJournal, CompleteJournal DEF Journal
<1>4. ASSUME NEW r \in Runs, NEW n \in Nodes, BeginNode(r, n)
      PROVE  FALSE
  BY <1>1, <1>4, BeginNodeJournal DEF Journal
<1>5. ASSUME NEW n \in Nodes, RetryNode(n)
      PROVE  FALSE
  BY <1>1, <1>5, RetryNodeJournal
<1>6. QED
  BY <1>1, <1>2, <1>3, <1>4, <1>5, JournalSteps DEF Journal

(* A result is recorded by the run that began the attempt, under its lease. *)
THEOREM StarterReports == Spec => ResultFromStarter
<1>1. IInv /\ [Next]_vars =>
        [\A n \in Nodes :
           node[n].status = "running" /\ node'[n].status \in Settled
           => /\ inst.owner = starter[n]
              /\ ~inst.lapsed
              /\ at[starter[n]][n] = node'[n].status]_vars
  BY OrchestrationAssumption, ResultStep
<1>2. QED
  BY <1>1, Inductive, PTL DEF Spec, ResultFromStarter
-----------------------------------------------------------------------------
(* The workflow implements WorkflowPromise. *)

LEMMA PromiseInit ==
  ASSUME OrchestrationAssumption, Init
  PROVE  Promise!Init
BY DEF Init, Promise!Init, PhaseOf, StartsLeft, Reported, Settled, OrchestrationAssumption

(* The refinement mapping, node by node. *)
LEMMA Mapped ==
  ASSUME OrchestrationAssumption, IInv
  PROVE  /\ PhaseOf = [n \in Nodes |-> PhaseOf[n]]
         /\ StartsLeft = [n \in Nodes |-> StartsLeft[n]]
         /\ \A n \in Nodes :
              /\ PhaseOf[n] = IF node[n].status \in Settled THEN "settled" ELSE node[n].status
              /\ StartsLeft[n] = (1 + Retries[n] + confirmed[n]) - node[n].attempts
              /\ Retries[n] \in Nat /\ confirmed[n] \in Nat /\ node[n].attempts \in Nat
              /\ StartsLeft[n] \in Nat
BY DEF PhaseOf, StartsLeft, IInv, TypeOK, NodeRow, RerunsConfirmed, OrchestrationAssumption

LEMMA PromiseStep ==
  ASSUME OrchestrationAssumption, IInv, [Next]_vars
  PROVE  [Promise!Next]_(Promise!promise)
<1> USE DEF Settled
<1>1. IInv'
  BY NextStep, StutterStep
<1>2. /\ PhaseOf' = [n \in Nodes |-> PhaseOf'[n]]
      /\ StartsLeft' = [n \in Nodes |-> StartsLeft'[n]]
      /\ \A n \in Nodes :
           /\ PhaseOf'[n] = IF node'[n].status \in Settled THEN "settled" ELSE node'[n].status
           /\ StartsLeft'[n] = (1 + Retries[n] + confirmed'[n]) - node'[n].attempts
  BY DEF PhaseOf, StartsLeft
<1>3. CASE UNCHANGED Journal
  BY <1>3 DEF Journal, Promise!promise, PhaseOf, StartsLeft, Reported
<1>4. CASE UNCHANGED <<confirmed, Reported>> /\ node' = HoldRunning
  <2>1. \A n \in Nodes :
          /\ PhaseOf'[n] = IF PhaseOf[n] = "running" THEN "blocked" ELSE PhaseOf[n]
          /\ StartsLeft'[n] = StartsLeft[n]
    BY <1>2, <1>4, Mapped, HeldNodes DEF IInv
  <2>2. Promise!Interrupt
    BY <1>2, <1>4, <2>1, Mapped DEF Promise!Interrupt
  <2>3. QED
    BY <2>2 DEF Promise!Next
<1>5. ASSUME NEW r \in Runs, Complete(r)
      PROVE  [Promise!Next]_(Promise!promise)
  <2>1. CASE UNCHANGED <<node, confirmed>> /\ Reported' /\ \A n \in Nodes : node[n].status \in Settled
    <3>1. UNCHANGED <<PhaseOf, StartsLeft>>
      BY <2>1 DEF PhaseOf, StartsLeft
    <3>2. Promise!Close
      BY <2>1, <3>1, Mapped DEF Promise!Close
    <3>3. QED
      BY <3>2 DEF Promise!Next
  <2>2. QED
    BY <1>3, <1>5, <2>1, CompleteJournal
<1>6. ASSUME NEW r \in Runs, NEW n \in Nodes, BeginNode(r, n), ~UNCHANGED Journal
      PROVE  [Promise!Next]_(Promise!promise)
  <2>1. /\ UNCHANGED <<confirmed, Reported>>
        /\ ~Reported
        /\ node[n].status = "pending"
        /\ \A d \in Deps[n] : node[d].status \in Settled
        /\ node'[n].status = "running"
        /\ node'[n].attempts = node[n].attempts + 1
        /\ \A m \in Nodes \ {n} : node'[m] = node[m]
    BY <1>6, BeginNodeJournal
  <2>2. PhaseOf[n] = "pending" /\ PhaseOf'[n] = "running"
    BY <1>2, <2>1, Mapped
  <2>3. StartsLeft[n] > 0 /\ StartsLeft'[n] = StartsLeft[n] - 1
    <3>1. node[n].attempts <= Retries[n] + confirmed[n]
      BY <2>1 DEF IInv, PendingHasStart
    <3>2. QED
      BY <1>2, <2>1, <3>1, Mapped
  <2>4. \A m \in Nodes \ {n} : PhaseOf'[m] = PhaseOf[m] /\ StartsLeft'[m] = StartsLeft[m]
    BY <1>2, <2>1, Mapped
  <2>5. \A d \in Deps[n] : PhaseOf[d] = "settled"
    BY <2>1, Mapped DEF OrchestrationAssumption
  <2>6. /\ PhaseOf' = [PhaseOf EXCEPT ![n] = "running"]
        /\ StartsLeft' = [StartsLeft EXCEPT ![n] = @ - 1]
    BY <1>2, <2>2, <2>3, <2>4, Mapped
  <2>7. Promise!Start(n)
    BY <2>1, <2>2, <2>3, <2>5, <2>6 DEF Promise!Start
  <2>8. QED
    BY <2>7 DEF Promise!Next
<1>7. ASSUME NEW r \in Runs, NEW n \in Nodes, FinishNode(r, n), ~UNCHANGED Journal
      PROVE  [Promise!Next]_(Promise!promise)
  <2>1. /\ UNCHANGED <<confirmed, Reported>>
        /\ node[n].status = "running"
        /\ node'[n].status \in Writing
        /\ node'[n].status = "pending" => node[n].attempts <= Retries[n] + confirmed[n]
        /\ node'[n].attempts = node[n].attempts
        /\ \A m \in Nodes \ {n} : node'[m] = node[m]
    BY <1>7, FinishNodeJournal
  <2>2. /\ PhaseOf[n] = "running"
        /\ PhaseOf'[n] \in {"settled", "blocked", "pending"}
        /\ PhaseOf'[n] = "pending" => StartsLeft[n] > 0
    BY <1>2, <2>1, Mapped DEF Writing
  <2>3. /\ \A m \in Nodes : StartsLeft'[m] = StartsLeft[m]
        /\ \A m \in Nodes \ {n} : PhaseOf'[m] = PhaseOf[m]
    BY <1>2, <2>1, Mapped
  <2>4. StartsLeft' = StartsLeft /\ PhaseOf' = [PhaseOf EXCEPT ![n] = PhaseOf'[n]]
    BY <1>2, <2>3, Mapped
  <2>5. Promise!End(n)
    BY <2>1, <2>2, <2>4 DEF Promise!End
  <2>6. QED
    BY <2>5 DEF Promise!Next
<1>8. ASSUME NEW n \in Nodes, RetryNode(n)
      PROVE  [Promise!Next]_(Promise!promise)
  <2>1. /\ UNCHANGED Reported /\ ~Reported
        /\ node[n].status = "blocked"
        /\ node'[n].status = "pending"
        /\ node'[n].attempts = node[n].attempts
        /\ \A m \in Nodes \ {n} : node'[m] = node[m]
        /\ confirmed'[n] = confirmed[n] + 1
        /\ \A m \in Nodes \ {n} : confirmed'[m] = confirmed[m]
    BY <1>8, RetryNodeJournal
  <2>2. PhaseOf[n] = "blocked" /\ PhaseOf'[n] = "pending" /\ StartsLeft'[n] = StartsLeft[n] + 1
    BY <1>2, <2>1, Mapped
  <2>3. \A m \in Nodes \ {n} : PhaseOf'[m] = PhaseOf[m] /\ StartsLeft'[m] = StartsLeft[m]
    BY <1>2, <2>1, Mapped
  <2>4. /\ PhaseOf' = [PhaseOf EXCEPT ![n] = "pending"]
        /\ StartsLeft' = [StartsLeft EXCEPT ![n] = @ + 1]
    BY <1>2, <2>2, <2>3, Mapped
  <2>5. Promise!Confirm(n)
    BY <2>1, <2>2, <2>4 DEF Promise!Confirm
  <2>6. QED
    BY <2>5 DEF Promise!Next
<1>9. QED
  BY <1>3, <1>4, <1>5, <1>6, <1>7, <1>8, HoldJournal, JournalSteps

(* Every behaviour of the workflow is one that WorkflowPromise allows. *)
THEOREM PromiseKept == Spec => KeepsPromise
<1>1. Init => Promise!Init
  BY OrchestrationAssumption, PromiseInit
<1>2. IInv /\ [Next]_vars => [Promise!Next]_(Promise!promise)
  BY OrchestrationAssumption, PromiseStep
<1>3. QED
  BY <1>1, <1>2, Inductive, PTL DEF Spec, KeepsPromise, Promise!Spec
=============================================================================
