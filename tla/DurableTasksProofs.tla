------------------------- MODULE DurableTasksProofs -------------------------
(***************************************************************************)
(* Theorems about DurableTasks for any tasks, workers, dependencies and     *)
(* budgets, with and without stalled workers.  IInv is the inductive        *)
(* strengthening: the properties hold each other up.  A held row has an     *)
(* attempt (LeaseMatchesAttempt), a claim made it behind its dependencies   *)
(* (DependenciesRespected), and a dependency that succeeded is never        *)
(* touched again because a sweep only takes held rows (LapsedIsHeld).       *)
(* The second half is about timely workers, and about the life cycle that   *)
(* the queue implements with them.                                          *)
(***************************************************************************)
EXTENDS DurableTasks, FiniteSetTheorems, SequenceTheorems, TLAPS

IInv ==
  /\ TypeOK
  /\ LapsedIsHeld
  /\ LeaseMatchesAttempt
  /\ AttemptBudget
  /\ DependenciesRespected

(* The same attempts by the same workers, whatever their outcome. *)
SameHistory(a, b) ==
  /\ b \in [Tasks -> Seq(Attempt)]
  /\ \A t \in Tasks :
       /\ Len(b[t]) = Len(a[t])
       /\ \A n \in 1..Len(a[t]) : b[t][n].worker = a[t][n].worker

(* No row changes its outcome once it is succeeded or cancelled. *)
KeepsOutcomes ==
  \A t \in Tasks : row[t].status \in {"succeeded", "cancelled"} =>
    row'[t].status = row[t].status
-----------------------------------------------------------------------------
(* Closing an attempt row changes neither their number nor their workers. *)
LEMMA CloseAttemptKeepsHistory ==
  ASSUME TypeOK, NEW t \in Tasks, NEW n \in Nat, NEW s \in AttemptStatus
  PROVE  SameHistory(attempts, CloseAttempt(t, n, s))
<1> DEFINE a == attempts[t]
           e == [worker |-> a[n].worker, status |-> s, closed |-> TRUE]
           c == [a EXCEPT ![n] = e]
<1>1. a \in Seq(Attempt)
  BY DEF TypeOK
<1>2. CloseAttempt(t, n, s) = [attempts EXCEPT ![t] = c]
  BY DEF CloseAttempt, TypeOK
<1>3. CASE n \in 1..Len(a)
  <2>1. a[n] \in Attempt
    BY <1>1, <1>3
  <2>2. e \in Attempt /\ e.worker = a[n].worker
    BY <2>1 DEF Attempt
  <2>3. /\ c \in Seq(Attempt)
        /\ Len(c) = Len(a)
        /\ \A i \in 1..Len(a) : c[i] = IF i = n THEN e ELSE a[i]
    <3> HIDE DEF e, a
    <3> QED
      BY <1>1, <1>3, <2>2, ExceptSeq
  <2>4. QED
    BY <1>2, <2>2, <2>3 DEF SameHistory, TypeOK
<1>4. CASE n \notin 1..Len(a)
  <2>1. c = a
    BY <1>1, <1>4
  <2>2. QED
    BY <1>2, <2>1 DEF SameHistory, TypeOK
<1>5. QED
  BY <1>3, <1>4

LEMMA CloseOpenKeepsHistory ==
  ASSUME TypeOK, NEW t \in Tasks, NEW s \in AttemptStatus
  PROVE  SameHistory(attempts, CloseOpen(t, s))
<1>1. Len(attempts[t]) \in Nat
  BY DEF TypeOK
<1>2. SameHistory(attempts, attempts)
  BY DEF SameHistory, TypeOK
<1>3. QED
  BY <1>1, <1>2, CloseAttemptKeepsHistory DEF CloseOpen

(* What clearing the lease columns does to a row. *)
LEMMA NoLeaseRow ==
  ASSUME NEW s \in Status, NEW b \in BOOLEAN, NEW m \in Nat
  PROVE  /\ NoLease(s, b, m) \in Row
         /\ NoLease(s, b, m).status = s
         /\ ~NoLease(s, b, m).lapsed
         /\ NoLease(s, b, m).max = m
BY DEF NoLease, Row
(* Writing one column of a row leaves the others. *)
LEMMA SetStatus ==
  ASSUME NEW r \in Row, NEW s \in Status
  PROVE  /\ [r EXCEPT !.status = s] \in Row
         /\ [r EXCEPT !.status = s].status = s
         /\ [r EXCEPT !.status = s].owner = r.owner
         /\ [r EXCEPT !.status = s].lapsed = r.lapsed
         /\ [r EXCEPT !.status = s].max = r.max
BY DEF Row

LEMMA SetLapsed ==
  ASSUME NEW r \in Row, NEW b \in BOOLEAN
  PROVE  /\ [r EXCEPT !.lapsed = b] \in Row
         /\ [r EXCEPT !.lapsed = b].status = r.status
         /\ [r EXCEPT !.lapsed = b].owner = r.owner
         /\ [r EXCEPT !.lapsed = b].lapsed = b
         /\ [r EXCEPT !.lapsed = b].max = r.max
BY DEF Row

LEMMA SetBackoff ==
  ASSUME NEW r \in Row, NEW b \in BOOLEAN
  PROVE  /\ [r EXCEPT !.backoff = b] \in Row
         /\ [r EXCEPT !.backoff = b].status = r.status
         /\ [r EXCEPT !.backoff = b].owner = r.owner
         /\ [r EXCEPT !.backoff = b].lapsed = r.lapsed
         /\ [r EXCEPT !.backoff = b].max = r.max
BY DEF Row
-----------------------------------------------------------------------------
(* What every action but Claim does to a row: a lease is never given, an     *)
(* outcome never taken back, the budget never cut.                          *)
RowStep(r, q) ==
  /\ q \in Row
  /\ q.max >= r.max
  /\ q.lapsed => q.status \in Held
  /\ q.status \in Held => r.status \in Held /\ q.owner = r.owner
  /\ r.status \in {"succeeded", "cancelled"} => q.status = r.status

NoClaim ==
  /\ SameHistory(attempts, attempts')
  /\ row' \in [Tasks -> Row]
  /\ \A t \in Tasks : RowStep(row[t], row'[t])

LEMMA NoClaimPreserves ==
  ASSUME IInv, NoClaim, DurableTasksAssumption
  PROVE  /\ LapsedIsHeld' /\ LeaseMatchesAttempt' /\ AttemptBudget'
         /\ DependenciesRespected' /\ KeepsOutcomes
<1> USE DEF NoClaim, IInv
<1>1. \A t \in Tasks : /\ attempts[t] \in Seq(Attempt) /\ attempts'[t] \in Seq(Attempt)
                       /\ Len(attempts[t]) \in Nat
                       /\ Len(attempts'[t]) = Len(attempts[t])
                       /\ row[t].max \in Nat /\ row'[t].max \in Nat
  BY DEF TypeOK, SameHistory, Row
<1>2. LapsedIsHeld'
  BY DEF LapsedIsHeld, RowStep
<1>3. LeaseMatchesAttempt'
  <2> SUFFICES ASSUME NEW t \in Tasks, row'[t].status \in Held
               PROVE  /\ attempts'[t] # <<>>
                      /\ row'[t].owner = attempts'[t][Len(attempts'[t])].worker
    BY DEF LeaseMatchesAttempt
  <2>1. row[t].status \in Held /\ row'[t].owner = row[t].owner
    BY DEF RowStep
  <2>2. attempts[t] # <<>> /\ row[t].owner = attempts[t][Len(attempts[t])].worker
    BY <2>1 DEF LeaseMatchesAttempt
  <2>3. Len(attempts[t]) \in 1..Len(attempts[t])
    BY <1>1, <2>2
  <2>4. QED
    BY <1>1, <2>1, <2>2, <2>3 DEF SameHistory
<1>4. AttemptBudget'
  BY <1>1 DEF AttemptBudget, RowStep
<1>5. KeepsOutcomes
  BY DEF KeepsOutcomes, RowStep
<1>6. DependenciesRespected'
  <2> SUFFICES ASSUME NEW t \in Tasks, attempts'[t] # <<>>, NEW d \in Deps[t]
               PROVE  row'[d].status = "succeeded"
    BY DEF DependenciesRespected
  <2>1. attempts[t] # <<>>
    BY <1>1
  <2>2. d \in Tasks
    BY DEF DurableTasksAssumption
  <2>3. row[d].status = "succeeded"
    BY <2>1 DEF DependenciesRespected
  <2>4. QED
    BY <1>5, <2>2, <2>3 DEF KeepsOutcomes
<1>7. QED
  BY <1>2, <1>3, <1>4, <1>5, <1>6
-----------------------------------------------------------------------------
(* The store side of each action. *)

LEMMA SameHistoryUnchanged ==
  ASSUME TypeOK
  PROVE  SameHistory(attempts, attempts)
BY DEF SameHistory, TypeOK

LEMMA RowStepUnchanged ==
  ASSUME TypeOK, LapsedIsHeld, NEW t \in Tasks
  PROVE  RowStep(row[t], row[t])
BY DEF RowStep, TypeOK, LapsedIsHeld, Row

(* One row changes by a RowStep, the others stay. *)
LEMMA OneRow ==
  ASSUME TypeOK, LapsedIsHeld, NEW t \in Tasks, NEW q,
         RowStep(row[t], q), row' = [row EXCEPT ![t] = q],
         SameHistory(attempts, attempts')
  PROVE  NoClaim
<1>1. \A u \in Tasks : row'[u] = IF u = t THEN q ELSE row[u]
  BY DEF TypeOK
<1>2. q \in Row
  BY DEF RowStep
<1>3. row' \in [Tasks -> Row]
  BY <1>2 DEF TypeOK
<1>4. QED
  BY <1>1, <1>3, RowStepUnchanged DEF NoClaim

LEMMA NoRowChange ==
  ASSUME TypeOK, LapsedIsHeld, UNCHANGED row, SameHistory(attempts, attempts')
  PROVE  NoClaim
BY RowStepUnchanged DEF NoClaim, TypeOK

(* Clearing the lease of a row is a RowStep unless it reopens an outcome. *)
LEMMA NoLeaseStep ==
  ASSUME NEW r \in Row, NEW s \in Status \ Held, NEW b \in BOOLEAN,
         NEW m \in Nat, m >= r.max,
         r.status \in {"succeeded", "cancelled"} => s = r.status
  PROVE  RowStep(r, NoLease(s, b, m))
BY NoLeaseRow DEF RowStep, Held

LEMMA CancelForWorkerStep ==
  ASSUME TypeOK, LapsedIsHeld, NEW t \in Tasks, NEW w \in Workers,
         CancelForWorker(t, w)
  PROVE  NoClaim
<1>1. row[t] \in Row /\ row[t].backoff \in BOOLEAN /\ row[t].max \in Nat
  BY DEF TypeOK, Row
<1>2. CASE row[t].status = "queued" \/ (row[t].status \in Held /\ row[t].owner = w)
  <2>1. RowStep(row[t], Unowned(row[t], "cancelled"))
    BY <1>1, <1>2, NoLeaseStep DEF Unowned, Status, Finished, Held
  <2>2. SameHistory(attempts, attempts')
    BY <1>2, CloseOpenKeepsHistory DEF CancelForWorker, AttemptStatus
  <2>3. row' = [row EXCEPT ![t] = Unowned(row[t], "cancelled")]
    BY <1>2 DEF CancelForWorker
  <2>4. QED
    BY <2>1, <2>2, <2>3, OneRow
<1>3. CASE ~(row[t].status = "queued" \/ (row[t].status \in Held /\ row[t].owner = w))
  BY <1>3, NoRowChange, SameHistoryUnchanged DEF CancelForWorker
<1>4. QED
  BY <1>2, <1>3

LEMMA ReleaseForShutdownStep ==
  ASSUME TypeOK, LapsedIsHeld, NEW t \in Tasks, NEW w \in Workers,
         ReleaseForShutdown(t, w)
  PROVE  NoClaim
<1>1. row[t] \in Row /\ row[t].max \in Nat
  BY DEF TypeOK, Row
<1>2. CASE row[t].status \in Held /\ row[t].owner = w
  <2>1. RowStep(row[t], NoLease("queued", FALSE, row[t].max + 1))
    <3>1. "queued" \in Status \ Held /\ row[t].status \notin {"succeeded", "cancelled"}
      BY <1>2 DEF Status, Held
    <3>2. row[t].max + 1 \in Nat /\ row[t].max + 1 >= row[t].max
      BY <1>1
    <3>3. QED
      BY <1>1, <3>1, <3>2, NoLeaseStep
  <2>2. SameHistory(attempts, attempts')
    BY <1>2, CloseOpenKeepsHistory DEF ReleaseForShutdown, AttemptStatus
  <2>3. row' = [row EXCEPT ![t] = NoLease("queued", FALSE, row[t].max + 1)]
    BY <1>2 DEF ReleaseForShutdown
  <2>4. QED
    BY <2>1, <2>2, <2>3, OneRow
<1>3. CASE ~(row[t].status \in Held /\ row[t].owner = w)
  BY <1>3, NoRowChange, SameHistoryUnchanged DEF ReleaseForShutdown
<1>4. QED
  BY <1>2, <1>3

LEMMA RecoverStep ==
  ASSUME TypeOK, LapsedIsHeld, RecoverExpiredLeases
  PROVE  NoClaim
<1>1. ASSUME NEW t \in Tasks
      PROVE  RowStep(row[t], row'[t])
  <2>1. row[t] \in Row /\ row[t].backoff \in BOOLEAN /\ row[t].max \in Nat
    BY DEF TypeOK, Row
  <2>2. CASE row[t].lapsed
    <3>1. row[t].status \notin {"succeeded", "cancelled"}
      BY <2>2 DEF LapsedIsHeld, Held
    <3>2. PICK s \in {"failed", "queued"} : row'[t] = Unowned(row[t], s)
      BY <2>2 DEF RecoverExpiredLeases
    <3>3. s \in Status \ Held
      BY DEF Status, Held, Finished
    <3>4. QED
      BY <2>1, <3>1, <3>2, <3>3, NoLeaseStep DEF Unowned
  <2>3. CASE ~row[t].lapsed
    BY <2>3, RowStepUnchanged DEF RecoverExpiredLeases
  <2>4. QED
    BY <2>2, <2>3
<1>2. row' \in [Tasks -> Row]
  BY <1>1 DEF RecoverExpiredLeases, RowStep
<1>3. ASSUME NEW t \in Tasks
      PROVE  /\ attempts'[t] \in Seq(Attempt)
             /\ Len(attempts'[t]) = Len(attempts[t])
             /\ \A n \in 1..Len(attempts[t]) :
                  attempts'[t][n].worker = attempts[t][n].worker
  <2>1. SameHistory(attempts, CloseOpen(t, "expired"))
    BY CloseOpenKeepsHistory DEF AttemptStatus
  <2>2. attempts'[t] = CloseOpen(t, "expired")[t] \/ attempts'[t] = attempts[t]
    BY DEF RecoverExpiredLeases
  <2>3. QED
    BY <2>1, <2>2, SameHistoryUnchanged DEF SameHistory
<1>4. SameHistory(attempts, attempts')
  <2>1. attempts' = [t \in Tasks |-> attempts'[t]]
    BY DEF RecoverExpiredLeases
  <2>2. QED
    BY <1>3, <2>1 DEF SameHistory
<1>5. QED
  BY <1>1, <1>2, <1>4 DEF NoClaim

LEMMA MarkRunningStep ==
  ASSUME IInv, NEW t \in Tasks, NEW w \in Workers, MarkRunning(w, t)
  PROVE  NoClaim
<1> USE DEF IInv
<1>1. CASE row[t].status = "leased" /\ row[t].owner = w
  <2> DEFINE n == Len(attempts[t])
             e == [attempts[t][n] EXCEPT !.status = "running"]
             q == [row[t] EXCEPT !.status = "running"]
  <2>1. attempts[t] \in Seq(Attempt) /\ n \in 1..Len(attempts[t])
    BY <1>1 DEF TypeOK, LeaseMatchesAttempt, Held
  <2>2. e \in Attempt /\ e.worker = attempts[t][n].worker
    <3>1. attempts[t][n] \in Attempt
      BY <2>1
    <3> HIDE DEF n
    <3>2. QED
      BY <3>1 DEF Attempt, AttemptStatus
  <2>3. /\ [attempts[t] EXCEPT ![n] = e] \in Seq(Attempt)
        /\ Len([attempts[t] EXCEPT ![n] = e]) = Len(attempts[t])
        /\ \A i \in 1..Len(attempts[t]) :
             [attempts[t] EXCEPT ![n] = e][i] = IF i = n THEN e ELSE attempts[t][i]
    <3> HIDE DEF e, n
    <3> QED
      BY <2>1, <2>2, ExceptSeq
  <2>4. attempts' = [attempts EXCEPT ![t] = [attempts[t] EXCEPT ![n] = e]]
    BY <1>1 DEF MarkRunning, TypeOK
  <2>5. SameHistory(attempts, attempts')
    <3> HIDE DEF e, n
    <3>1. \A u \in Tasks : attempts'[u] =
            IF u = t THEN [attempts[t] EXCEPT ![n] = e] ELSE attempts[u]
      BY <2>4 DEF TypeOK
    <3>2. attempts' \in [Tasks -> Seq(Attempt)]
      BY <2>3, <2>4 DEF TypeOK
    <3>3. QED
      BY <2>2, <2>3, <3>1, <3>2 DEF SameHistory
  <2>6. RowStep(row[t], q)
    <3>1. row[t] \in Row /\ row[t].max \in Nat /\ "running" \in Status
      BY DEF TypeOK, Row, Status, Held
    <3>2. row[t].status \in Held /\ "running" \in Held
      BY <1>1 DEF Held
    <3>3. /\ q \in Row /\ q.status = "running" /\ q.owner = row[t].owner
          /\ q.max = row[t].max
      BY <3>1, SetStatus
    <3> HIDE DEF q
    <3>4. QED
      BY <3>1, <3>2, <3>3 DEF RowStep, Held
  <2>7. row' = [row EXCEPT ![t] = q]
    BY <1>1 DEF MarkRunning, TypeOK
  <2>8. QED
    BY <2>5, <2>6, <2>7, OneRow
<1>2. CASE ~(row[t].status = "leased" /\ row[t].owner = w)
  BY <1>2, NoRowChange, SameHistoryUnchanged DEF MarkRunning
<1>3. QED
  BY <1>1, <1>2

LEMMA CommitSucceededStep ==
  ASSUME IInv, NEW t \in Tasks, NEW w \in Workers, CommitSucceeded(w, t)
  PROVE  NoClaim
<1> USE DEF IInv
<1>1. SameHistory(attempts, attempts')
  BY SameHistoryUnchanged DEF CommitSucceeded
<1>2. CASE Allowed(row[t].status, "succeeded")
  <2>1. row[t].status = "running"
    BY <1>2 DEF Allowed
  <2>2. row' = [row EXCEPT ![t] = NoLease("succeeded", row[t].backoff, row[t].max)]
    BY <1>2 DEF CommitSucceeded, Unowned
  <2>3. row[t] \in Row /\ row[t].backoff \in BOOLEAN /\ row[t].max \in Nat
    BY DEF TypeOK, Row
  <2>4. "succeeded" \in Status \ Held
    BY DEF Status, Held, Finished
  <2>5. RowStep(row[t], NoLease("succeeded", row[t].backoff, row[t].max))
    BY <2>1, <2>3, <2>4, NoLeaseStep
  <2>6. QED
    BY <1>1, <2>2, <2>5, OneRow
<1>3. CASE ~Allowed(row[t].status, "succeeded")
  BY <1>1, <1>3, NoRowChange DEF CommitSucceeded
<1>4. QED
  BY <1>2, <1>3

LEMMA FailOrRequeueStep ==
  ASSUME IInv, NEW t \in Tasks, NEW w \in Workers, FailOrRequeue(w, t)
  PROVE  NoClaim
<1> USE DEF IInv
<1>1. SameHistory(attempts, attempts')
  BY SameHistoryUnchanged DEF FailOrRequeue
<1> DEFINE s == IF seen[w][t].exhausted THEN "failed" ELSE "queued"
           b == s = "queued" \/ row[t].backoff
<1>2. CASE Allowed(row[t].status, s)
  <2>1. row[t].status \notin {"succeeded", "cancelled"}
    BY <1>2 DEF Allowed
  <2>2. row' = [row EXCEPT ![t] = NoLease(s, b, row[t].max)]
    BY <1>2 DEF FailOrRequeue
  <2>3. row[t] \in Row /\ row[t].max \in Nat /\ b \in BOOLEAN
    BY DEF TypeOK, Row
  <2>4. s \in Status \ Held
    BY DEF Status, Held, Finished
  <2>5. RowStep(row[t], NoLease(s, b, row[t].max))
    <3> HIDE DEF s, b
    <3> QED
      BY <2>1, <2>3, <2>4, NoLeaseStep
  <2>6. QED
    BY <1>1, <2>2, <2>5, OneRow
<1>3. CASE ~Allowed(row[t].status, s)
  BY <1>1, <1>3, NoRowChange DEF FailOrRequeue
<1>4. QED
  BY <1>2, <1>3

LEMMA CancelWriteStep ==
  ASSUME IInv, NEW t \in Tasks, NEW w \in Workers, CancelWrite(w, t)
  PROVE  NoClaim
<1> USE DEF IInv
<1> DEFINE q == [status |-> "cancelled", owner |-> row[t].owner, lapsed |-> FALSE,
                 backoff |-> row[t].backoff, max |-> row[t].max]
<1>1. SameHistory(attempts, attempts')
  BY SameHistoryUnchanged DEF CancelWrite
<1>2. CASE Allowed(row[t].status, "cancelled")
  <2>1. row[t].status \notin {"succeeded", "cancelled"}
    BY <1>2 DEF Allowed
  <2>2. row' = [row EXCEPT ![t] = q]
    BY <1>2 DEF CancelWrite
  <2>3. RowStep(row[t], q)
    BY <2>1 DEF RowStep, TypeOK, Row, Status, Held, Finished
  <2>4. QED
    BY <1>1, <2>2, <2>3, OneRow
<1>3. CASE ~Allowed(row[t].status, "cancelled")
  BY <1>1, <1>3, NoRowChange DEF CancelWrite
<1>4. QED
  BY <1>2, <1>3

LEMMA FinishAttemptStep ==
  ASSUME IInv, NEW t \in Tasks, NEW w \in Workers,
         FinishSucceeded(w, t) \/ FinishFailed(w, t)
  PROVE  NoClaim
<1> USE DEF IInv
<1>1. seen[w][t].attempt \in Nat
  BY DEF TypeOK, Seen
<1>2. SameHistory(attempts, attempts')
  BY <1>1, CloseAttemptKeepsHistory DEF FinishSucceeded, FinishFailed, AttemptStatus
<1>3. QED
  BY <1>2, NoRowChange DEF FinishSucceeded, FinishFailed

(* The actions that set one column. *)
LEMMA ColumnStep ==
  ASSUME IInv, NEW t \in Tasks,
         \/ \E w \in Workers : \/ Launch(w, t) \/ Admit(w, t) \/ Withdraw(w, t)
                              \/ Heartbeat(w, t)
         \/ Lapse(t) \/ NextRetryDue(t)
  PROVE  NoClaim
<1> USE DEF IInv
<1>1. SameHistory(attempts, attempts')
  BY SameHistoryUnchanged DEF Launch, Admit, Withdraw, Heartbeat, Lapse, NextRetryDue
<1>2. row[t] \in Row /\ row[t].max \in Nat
  BY DEF TypeOK, Row
<1>3. row[t].lapsed => row[t].status \in Held
  BY DEF LapsedIsHeld
<1>4. ASSUME NEW s \in {"queued", "cancelled"}, row[t].status \in {"absent", "queued"},
             row' = [row EXCEPT ![t].status = s]
      PROVE  NoClaim
  <2> DEFINE q == [row[t] EXCEPT !.status = s]
  <2>1. row' = [row EXCEPT ![t] = q]
    BY <1>4 DEF TypeOK
  <2>2. /\ q \in Row /\ q.status = s /\ q.lapsed = row[t].lapsed
        /\ q.max = row[t].max
    BY <1>2, SetStatus DEF Status, Finished
  <2> HIDE DEF q
  <2>3. RowStep(row[t], q)
    BY <1>2, <1>3, <1>4, <2>2 DEF RowStep, Held
  <2>4. QED
    BY <1>1, <2>1, <2>3, OneRow
<1>5. ASSUME NEW b \in BOOLEAN, b => row[t].status \in Held,
             row' = [row EXCEPT ![t].lapsed = b]
      PROVE  NoClaim
  <2> DEFINE q == [row[t] EXCEPT !.lapsed = b]
  <2>1. row' = [row EXCEPT ![t] = q]
    BY <1>5 DEF TypeOK
  <2>2. /\ q \in Row /\ q.status = row[t].status /\ q.owner = row[t].owner
        /\ q.lapsed = b /\ q.max = row[t].max
    BY <1>2, SetLapsed
  <2> HIDE DEF q
  <2>3. RowStep(row[t], q)
    BY <1>2, <1>5, <2>2 DEF RowStep
  <2>4. QED
    BY <1>1, <2>1, <2>3, OneRow
<1>6. CASE NextRetryDue(t)
  <2> DEFINE q == [row[t] EXCEPT !.backoff = FALSE]
  <2>1. row' = [row EXCEPT ![t] = q]
    BY <1>6 DEF NextRetryDue, TypeOK
  <2>2. /\ q \in Row /\ q.status = row[t].status /\ q.owner = row[t].owner
        /\ q.lapsed = row[t].lapsed /\ q.max = row[t].max
    BY <1>2, SetBackoff
  <2> HIDE DEF q
  <2>3. RowStep(row[t], q)
    BY <1>2, <1>3, <2>2 DEF RowStep
  <2>4. QED
    BY <1>1, <2>1, <2>3, OneRow
<1>7. QED
  BY <1>4, <1>5, <1>6 DEF Launch, Admit, Withdraw, Heartbeat, Lapse
-----------------------------------------------------------------------------
(* Claim, the only action that gives a lease and makes an attempt. *)

LEMMA ClaimPreserves ==
  ASSUME IInv, DurableTasksAssumption, NEW w \in Workers, NEW t \in Tasks,
         Claim(w, t)
  PROVE  /\ row' \in [Tasks -> Row]
         /\ attempts' \in [Tasks -> Seq(Attempt)]
         /\ LapsedIsHeld' /\ LeaseMatchesAttempt' /\ AttemptBudget'
         /\ DependenciesRespected' /\ KeepsOutcomes
<1> DEFINE q == [status |-> "leased", owner |-> w, lapsed |-> FALSE,
                 backoff |-> FALSE, max |-> row[t].max]
           e == [worker |-> w, status |-> "leased", closed |-> FALSE]
<1> USE DEF IInv
<1>1. /\ attempts[t] \in Seq(Attempt)
      /\ Len(attempts[t]) \in Nat
      /\ row[t] \in Row /\ row[t].max \in Nat
  BY DEF TypeOK, Row
<1>2. /\ e \in Attempt /\ e.worker = w
      /\ q \in Row /\ q.status = "leased" /\ q.owner = w /\ ~q.lapsed
      /\ q.max = row[t].max
  BY <1>1 DEF Attempt, AttemptStatus, Row, Status, Held
<1>3. /\ row[t].status = "queued"
      /\ Len(attempts[t]) < row[t].max
      /\ \A d \in Deps[t] : row[d].status = "succeeded"
  BY <1>1 DEF Claim, Claimable, Exhausted, DependenciesReady
<1>4. /\ row' = [row EXCEPT ![t] = q]
      /\ attempts' = [attempts EXCEPT ![t] = Append(attempts[t], e)]
  BY DEF Claim
<1> HIDE DEF q, e
<1>5. /\ Append(attempts[t], e) \in Seq(Attempt)
      /\ Append(attempts[t], e) # <<>>
      /\ Len(Append(attempts[t], e)) = Len(attempts[t]) + 1
      /\ Append(attempts[t], e)[Len(attempts[t]) + 1] = e
  BY <1>1, <1>2, AppendProperties
<1>6. \A u \in Tasks : /\ row'[u] = IF u = t THEN q ELSE row[u]
                       /\ attempts'[u] = IF u = t THEN Append(attempts[t], e)
                                                  ELSE attempts[u]
  BY <1>4 DEF TypeOK
<1>7. row' \in [Tasks -> Row] /\ attempts' \in [Tasks -> Seq(Attempt)]
  BY <1>2, <1>4, <1>5 DEF TypeOK
<1>8. LapsedIsHeld'
  BY <1>2, <1>6 DEF LapsedIsHeld
<1>9. LeaseMatchesAttempt'
  BY <1>2, <1>5, <1>6 DEF LeaseMatchesAttempt
<1>10. AttemptBudget'
  <2> SUFFICES ASSUME NEW u \in Tasks
               PROVE  Len(attempts'[u]) <= row'[u].max
    BY DEF AttemptBudget
  <2>1. CASE u = t
    <3>1. /\ Len(attempts'[u]) = Len(attempts[t]) + 1
          /\ row'[u].max = row[t].max
      BY <1>2, <1>5, <1>6, <2>1
    <3>2. QED
      BY <1>1, <1>3, <3>1
  <2>2. CASE u # t
    BY <1>6, <2>2 DEF AttemptBudget
  <2>3. QED
    BY <2>1, <2>2
<1>11. KeepsOutcomes
  BY <1>3, <1>6 DEF KeepsOutcomes
<1>12. DependenciesRespected'
  <2> SUFFICES ASSUME NEW u \in Tasks, attempts'[u] # <<>>, NEW d \in Deps[u]
               PROVE  row'[d].status = "succeeded"
    BY DEF DependenciesRespected
  <2>1. d \in Tasks
    BY DEF DurableTasksAssumption
  <2>2. row[d].status = "succeeded"
    BY <1>3, <1>6 DEF DependenciesRespected
  <2>3. QED
    BY <1>11, <2>1, <2>2 DEF KeepsOutcomes
<1>13. QED
  BY <1>7, <1>8, <1>9, <1>10, <1>11, <1>12
-----------------------------------------------------------------------------
(* What a process keeps to itself stays well typed. *)
LocalTypeOK ==
  /\ proc \in [Workers -> {"unborn", "up", "stopping", "down"}]
  /\ pc \in [Workers -> [Tasks -> Place]]
  /\ seen \in [Workers -> [Tasks -> Seen]]
  /\ cancelling \in [Workers -> Tasks \cup {None}]

LEMMA GotoType ==
  ASSUME TypeOK, NEW w \in Workers, NEW t \in Tasks, NEW p \in Place, Goto(w, t, p)
  PROVE  pc' \in [Workers -> [Tasks -> Place]]
BY DEF TypeOK, Goto

LEMMA SeenType ==
  ASSUME TypeOK, NEW w \in Workers, NEW t \in Tasks, Read(w, t) \/ Forget(w, t)
  PROVE  seen' \in [Workers -> [Tasks -> Seen]]
<1>1. [attempt |-> Len(attempts[t]), exhausted |-> Exhausted(t)] \in Seen
  BY DEF TypeOK, Seen, Exhausted, Row
<1>2. NoSeen \in Seen
  BY DEF NoSeen, Seen
<1>3. PICK s \in Seen : seen' = [seen EXCEPT ![w][t] = s]
  BY <1>1, <1>2 DEF Read, Forget
<1>4. QED
  BY <1>3 DEF TypeOK

LEMMA StepTypes ==
  ASSUME TypeOK, NEW w \in Workers, NEW t \in Tasks,
         Step(w, t) \/ Launch(w, t) \/ Admit(w, t) \/ Withdraw(w, t)
           \/ AdoptPersisted(w, t) \/ Heartbeat(w, t)
           \/ CancelOwn(w, t) \/ CancelRead(w, t)
  PROVE  LocalTypeOK'
<1> USE DEF LocalTypeOK, Place, Live, Cancellable, Unwinding, Atomic
<1>1. CASE PollFinished(w, t)
  BY <1>1, GotoType DEF PollFinished, TypeOK
<1>2. CASE Claim(w, t)
  BY <1>2, GotoType DEF Claim, TypeOK
<1>3. CASE MarkRunning(w, t)
  BY <1>3, GotoType DEF MarkRunning, TypeOK
<1>4. CASE AgentReturns(w, t)
  BY <1>4, GotoType, SeenType DEF AgentReturns, TypeOK
<1>5. CASE FinishSucceeded(w, t)
  BY <1>5, GotoType, SeenType DEF FinishSucceeded, TypeOK
<1>6. CASE CommitSucceeded(w, t)
  BY <1>6, GotoType DEF CommitSucceeded, TypeOK
<1>7. CASE AgentRaises(w, t)
  BY <1>7, GotoType DEF AgentRaises, TypeOK
<1>8. CASE ReadFailure(w, t)
  BY <1>8, GotoType, SeenType DEF ReadFailure, TypeOK
<1>9. CASE FinishFailed(w, t)
  BY <1>9, GotoType DEF FinishFailed, TypeOK
<1>10. CASE FailOrRequeue(w, t)
  BY <1>10, GotoType, SeenType DEF FailOrRequeue, TypeOK
<1>11. CASE RetryDelayOver(w, t)
  BY <1>11, GotoType DEF RetryDelayOver, TypeOK
<1>12. CASE IdleEnds(w, t)
  BY <1>12, GotoType DEF IdleEnds, TypeOK
<1>13. CASE Unwind(w, t)
  <2>1. pc[w][t] \in {"unwind3", "unwind2", "unwind1"}
    BY <1>13 DEF Unwind, Awaits
  <2>2. \E p \in Place : Goto(w, t, p)
    BY <1>13, <2>1 DEF Unwind
  <2>3. QED
    BY <1>13, <2>2, GotoType DEF Unwind, TypeOK
<1>14. CASE CancelWrite(w, t)
  BY <1>14 DEF CancelWrite, TypeOK
<1>15. CASE Launch(w, t)
  BY <1>15, GotoType DEF Launch, TypeOK
<1>16. CASE AdoptPersisted(w, t)
  BY <1>16, GotoType DEF AdoptPersisted, TypeOK
<1>17. CASE Heartbeat(w, t)
  BY <1>17 DEF Heartbeat, TypeOK
<1>18. CASE CancelOwn(w, t)
  BY <1>18, GotoType DEF CancelOwn, TypeOK
<1>19. CASE CancelRead(w, t)
  BY <1>19 DEF CancelRead, TypeOK
<1>20. CASE Admit(w, t) \/ Withdraw(w, t)
  BY <1>20 DEF Admit, Withdraw, TypeOK
<1>21. QED
  BY <1>1, <1>2, <1>3, <1>4, <1>5, <1>6, <1>7, <1>8, <1>9, <1>10, <1>11, <1>12,
     <1>13, <1>14, <1>15, <1>16, <1>17, <1>18, <1>19, <1>20 DEF Step

LEMMA ProcessTypes ==
  ASSUME TypeOK, NEW w \in Workers,
         Start(w) \/ Maintain(w) \/ Shutdown(w) \/ Exit(w)
  PROVE  LocalTypeOK'
<1> USE DEF LocalTypeOK, TypeOK, Place, Live, Cancellable, Unwinding, Atomic
<1>1. CASE Start(w) \/ Maintain(w)
  BY <1>1 DEF Start, Maintain
<1>2. CASE Shutdown(w)
  <2>1. \A t \in Tasks : pc[w][t] \in Place
    OBVIOUS
  <2> DEFINE p == [t \in Tasks |->
       CASE pc[w][t] = "exec" /\ Requeues(t)         -> "unwind2"
         [] pc[w][t] \in {"exec", "idle"}            -> "unwind3"
         [] pc[w][t] \in Cancellable /\ Requeues(t)  -> "unwind1"
         [] pc[w][t] \in Cancellable                 -> "unwind2"
         [] OTHER                                    -> pc[w][t]]
  <2>2. p \in [Tasks -> Place]
    BY <2>1
  <2>3. pc' = [pc EXCEPT ![w] = p]
    BY <1>2 DEF Shutdown
  <2> HIDE DEF p
  <2>4. QED
    BY <1>2, <2>2, <2>3 DEF Shutdown
<1>3. CASE Exit(w)
  BY <1>3 DEF Exit, NoSeen, Seen
<1>4. QED
  BY <1>1, <1>2, <1>3
-----------------------------------------------------------------------------
(* The initial states, and every step of the system. *)

LEMMA InitEstablishes ==
  ASSUME DurableTasksAssumption, Init
  PROVE  IInv
<1>1. TypeOK
  BY DEF DurableTasksAssumption, Init, Budget, TypeOK, Row, Status, Finished, Held, Seen,
         NoSeen, Place, Live
<1>2. LapsedIsHeld /\ LeaseMatchesAttempt /\ DependenciesRespected
  BY DEF Init, LapsedIsHeld, LeaseMatchesAttempt, DependenciesRespected, Held
<1>3. AttemptBudget
  BY DEF DurableTasksAssumption, Init, Budget, AttemptBudget
<1>4. QED
  BY <1>1, <1>2, <1>3 DEF IInv

(* Every step but Claim is a NoClaim. *)
LEMMA OtherSteps ==
  ASSUME IInv, Next,
         ~ \E w \in Workers, t \in Tasks : Claim(w, t)
  PROVE  NoClaim /\ LocalTypeOK'
<1> USE DEF IInv
<1>1. ASSUME NEW w \in Workers, Start(w) \/ Maintain(w) \/ Shutdown(w) \/ Exit(w)
      PROVE  NoClaim /\ LocalTypeOK'
  <2>1. CASE Start(w) \/ Maintain(w)
    BY <1>1, <2>1, RecoverStep, ProcessTypes DEF Start, Maintain
  <2>2. CASE Shutdown(w) \/ Exit(w)
    BY <1>1, <2>2, NoRowChange, SameHistoryUnchanged, ProcessTypes DEF Shutdown, Exit
  <2>3. QED
    BY <1>1, <2>1, <2>2
<1>2. ASSUME NEW w \in Workers, NEW t \in Tasks, Step(w, t)
      PROVE  NoClaim
  <2>1. CASE MarkRunning(w, t)
    BY <2>1, MarkRunningStep
  <2>2. CASE FinishSucceeded(w, t) \/ FinishFailed(w, t)
    BY <2>2, FinishAttemptStep
  <2>3. CASE CommitSucceeded(w, t)
    BY <2>3, CommitSucceededStep
  <2>4. CASE FailOrRequeue(w, t)
    BY <2>4, FailOrRequeueStep
  <2>5. CASE Unwind(w, t)
    BY <2>5, CancelForWorkerStep, ReleaseForShutdownStep DEF Unwind
  <2>6. CASE CancelWrite(w, t)
    BY <2>6, CancelWriteStep
  <2>7. CASE PollFinished(w, t) \/ AgentReturns(w, t) \/ AgentRaises(w, t)
               \/ ReadFailure(w, t) \/ RetryDelayOver(w, t) \/ IdleEnds(w, t)
    BY <2>7, NoRowChange, SameHistoryUnchanged
       DEF PollFinished, AgentReturns, AgentRaises, ReadFailure, RetryDelayOver, IdleEnds
  <2>8. QED
    BY <1>2, <2>1, <2>2, <2>3, <2>4, <2>5, <2>6, <2>7 DEF Step
<1>3. ASSUME NEW w \in Workers, NEW t \in Tasks,
             \/ Launch(w, t) \/ Admit(w, t) \/ Withdraw(w, t)
             \/ AdoptPersisted(w, t) \/ Heartbeat(w, t)
             \/ CancelOwn(w, t) \/ CancelRead(w, t)
      PROVE  NoClaim
  <2>1. CASE Launch(w, t) \/ Admit(w, t) \/ Withdraw(w, t) \/ Heartbeat(w, t)
    BY <2>1, ColumnStep
  <2>2. CASE CancelOwn(w, t)
    BY <2>2, CancelForWorkerStep DEF CancelOwn
  <2>3. CASE AdoptPersisted(w, t) \/ CancelRead(w, t)
    BY <2>3, NoRowChange, SameHistoryUnchanged DEF AdoptPersisted, CancelRead
  <2>4. QED
    BY <1>3, <2>1, <2>2, <2>3
<1>4. ASSUME NEW t \in Tasks, Lapse(t) \/ NextRetryDue(t)
      PROVE  NoClaim /\ LocalTypeOK'
  BY <1>4, ColumnStep DEF Lapse, NextRetryDue, LocalTypeOK, TypeOK
<1>5. QED
  BY <1>1, <1>2, <1>3, <1>4, StepTypes DEF Next

LEMMA NextPreserves ==
  ASSUME IInv, DurableTasksAssumption, [Next]_vars
  PROVE  IInv' /\ KeepsOutcomes
<1>1. CASE UNCHANGED vars
  <2>1. IInv'
    BY <1>1 DEF vars, IInv, TypeOK, LapsedIsHeld, LeaseMatchesAttempt, AttemptBudget,
                DependenciesRespected
  <2>2. KeepsOutcomes
    BY <1>1 DEF vars, KeepsOutcomes
  <2>3. QED
    BY <2>1, <2>2
<1>2. ASSUME NEW w \in Workers, NEW t \in Tasks, Claim(w, t)
      PROVE  IInv' /\ KeepsOutcomes
  <2>1. LocalTypeOK'
    BY <1>2, StepTypes DEF IInv, Step
  <2>2. QED
    BY <1>2, <2>1, ClaimPreserves DEF IInv, TypeOK, LocalTypeOK
<1>3. CASE Next /\ ~ \E w \in Workers, t \in Tasks : Claim(w, t)
  <2>1. NoClaim /\ LocalTypeOK'
    BY <1>3, OtherSteps
  <2>2. TypeOK'
    BY <2>1 DEF NoClaim, SameHistory, LocalTypeOK, TypeOK
  <2>3. QED
    BY <2>1, <2>2, NoClaimPreserves DEF IInv
<1>4. QED
  BY <1>1, <1>2, <1>3
-----------------------------------------------------------------------------
(* IInv holds throughout, whatever stalls, crashes and late commits happen. *)
THEOREM Inductive == Spec => []IInv
<1>1. Init => IInv
  BY DurableTasksAssumption, InitEstablishes
<1>2. IInv /\ [Next]_vars => IInv'
  BY DurableTasksAssumption, NextPreserves
<1>3. QED
  BY <1>1, <1>2, PTL DEF Spec

(* Every value the store and the processes hold has its type. *)
THEOREM TypeCorrect == Spec => []TypeOK
<1>1. IInv => TypeOK
  BY DEF IInv
<1>2. QED
  BY <1>1, Inductive, PTL

(* A held task belongs to the worker that made its latest attempt. *)
THEOREM LeaseOwnership == Spec => []LeaseMatchesAttempt
<1>1. IInv => LeaseMatchesAttempt
  BY DEF IInv
<1>2. QED
  BY <1>1, Inductive, PTL

(* Never more attempts than max_attempts. *)
THEOREM BudgetRespected == Spec => []AttemptBudget
<1>1. IInv => AttemptBudget
  BY DEF IInv
<1>2. QED
  BY <1>1, Inductive, PTL

(* An attempt is made only behind dependencies that succeeded for good. *)
THEOREM DependencyOrder == Spec => []DependenciesRespected
<1>1. IInv => DependenciesRespected
  BY DEF IInv
<1>2. QED
  BY <1>1, Inductive, PTL

(* Leases, budgets and dependencies together: the discipline of the queue. *)
THEOREM Disciplined == Spec => []QueueDiscipline
<1>1. LeaseMatchesAttempt /\ AttemptBudget /\ DependenciesRespected => QueueDiscipline
  BY DEF QueueDiscipline
<1>2. QED
  BY <1>1, LeaseOwnership, BudgetRespected, DependencyOrder, PTL

(* A succeeded or cancelled task stays so, whoever commits late. *)
THEOREM FinalOutcomes == Spec => OutcomeIsFinal
<1>1. IInv /\ [Next]_vars =>
        [\A t \in Tasks : row[t].status \in {"succeeded", "cancelled"} =>
           row'[t].status = row[t].status]_vars
  BY DurableTasksAssumption, NextPreserves DEF KeepsOutcomes
<1>2. QED
  BY <1>1, Inductive, PTL DEF Spec, OutcomeIsFinal

-----------------------------------------------------------------------------
(***************************************************************************)
(* Timely workers (Stalls = FALSE: a lease lapses only when no coroutine    *)
(* works under it).  TimelyInv says, for each coroutine and each place it   *)
(* can be at, what it may rely on: the row is still its own or was          *)
(* cancelled under it, its attempt is the latest one, and what it read      *)
(* before its writes is still so.                                           *)
(*                                                                         *)
(* TaskOK and RunOK are about values (a row r, its attempts a, a place p of *)
(* the coroutine, what it has seen s), so that a step is a change of values *)
(* at one task and the rest of the state drops out of the argument.         *)
(*                                                                         *)
(* With timely workers the queue also implements TaskLifecycle (last part): *)
(* the runner of a task is the coroutine between MarkRunning and the        *)
(* transition that ends the attempt; TimelyInv makes it unique while the    *)
(* task is undecided.  Every step of the queue changes the state and the    *)
(* runner of one task as one action of TaskLifecycle does, except a sweep   *)
(* of the leases (Reclaim) and the end of a process (Stop), which change    *)
(* any number of them.                                                     *)
(***************************************************************************)
Last(a) == a[Len(a)]

Interrupted(a) == {n \in DOMAIN a : a[n].status = "interrupted"}

Failing == {"raised", "failing", "requeue"}
Working == {"claimed", "exec", "succeed", "commit"} \cup Failing

(* A row and its attempts: budgets, the trail of attempts, cleared leases. *)
TaskOK(t, r, a) ==
  /\ r.status \in {"absent", "queued", "succeeded", "failed"} => r.owner = None
  /\ r.status = "absent" => a = <<>>
  /\ r.status = "queued" => Len(a) < r.max
  /\ r.max = Budget(t) + Cardinality(Interrupted(a))
  /\ t \in Scheduled => r.max = 1
  /\ \A n \in 1..Len(a) : a[n].closed \/ a[n].status \in {"leased", "running"}
  /\ r.status \in Held /\ Last(a).closed => Last(a).status \in {"succeeded", "failed"}
  /\ r.status = "succeeded" =>
       /\ Last(a).status \in {"succeeded", "failed"}
       /\ t \notin TeamTasks => Last(a).status = "succeeded"
  /\ r.status = "failed" => Last(a).status \in {"failed", "expired", "succeeded"}

(* The coroutine of w for t at place p, that has seen s.  A teammate may     *)
(* fail on a message after its task has succeeded.                          *)
RunOK(w, t, r, a, p, s) ==
  /\ p \in Working =>
       /\ a # <<>>
       /\ \/ r.owner = w /\ r.status \in Held \cup {"cancelled"}
          \/ p \in Failing /\ r.status = "succeeded" /\ t \in TeamTasks
  /\ p = "idle" => a # <<>> /\ r.status = "succeeded" /\ t \in TeamTasks
  /\ p \in {"poll", "backoff"} => r.owner # w
  /\ p \in Live => ~(r.lapsed /\ r.owner = w)
  /\ p \in Unwinding /\ r.owner = w /\ r.status \in Held => ~Last(a).closed
  /\ p \in {"claimed", "exec", "succeed"} => ~Last(a).closed
  /\ p = "commit" => Last(a).status = "succeeded"
  /\ p \in {"raised", "failing"} =>
       Last(a).status \in {"leased", "running", "succeeded", "failed"}
  /\ p = "requeue" => Last(a).status = "failed"
  /\ p \in {"succeed", "failing", "requeue"} => s.attempt = Len(a)
  /\ p \in {"failing", "requeue"} => s.exhausted = (Len(a) >= r.max)

TimelyInv ==
  \A t \in Tasks :
    /\ TaskOK(t, row[t], attempts[t])
    /\ \A w \in Workers : RunOK(w, t, row[t], attempts[t], pc[w][t], seen[w][t])
-----------------------------------------------------------------------------
(* Attempts that differ at most in the outcome of the latest one. *)
Amended(a, b, s, c) ==
  /\ a # <<>>
  /\ b \in Seq(Attempt)
  /\ Len(b) = Len(a)
  /\ \A n \in 1..Len(a) : n # Len(a) => b[n] = a[n]
  /\ Last(b).status = s
  /\ Last(b).closed = c

LEMMA CountType ==
  ASSUME NEW a \in Seq(Attempt)
  PROVE  IsFiniteSet(Interrupted(a)) /\ Cardinality(Interrupted(a)) \in Nat
<1>1. IsFiniteSet(1..Len(a))
  BY FS_Interval
<1>2. Interrupted(a) \subseteq 1..Len(a)
  BY DEF Interrupted
<1>3. QED
  BY <1>1, <1>2, FS_Subset, FS_CardinalityType

(* An outcome other than an interruption leaves the count. *)
LEMMA AmendKeepsCount ==
  ASSUME NEW a \in Seq(Attempt), NEW b, NEW s, NEW c, Amended(a, b, s, c),
         s # "interrupted", Last(a).status # "interrupted"
  PROVE  Interrupted(b) = Interrupted(a)
<1>1. /\ DOMAIN a = 1..Len(a) /\ DOMAIN b = 1..Len(a)
      /\ Len(b) = Len(a)
  BY DEF Amended
<1>2. \A n \in 1..Len(a) :
        b[n].status = "interrupted" <=> a[n].status = "interrupted"
  BY <1>1 DEF Amended, Last
<1>3. QED
  BY <1>1, <1>2 DEF Interrupted

(* An interruption adds one. *)
LEMMA InterruptionCounts ==
  ASSUME NEW a \in Seq(Attempt), NEW b, NEW c, Amended(a, b, "interrupted", c),
         Last(a).status # "interrupted"
  PROVE  Cardinality(Interrupted(b)) = Cardinality(Interrupted(a)) + 1
<1>1. /\ DOMAIN a = 1..Len(a) /\ DOMAIN b = 1..Len(a)
      /\ Len(b) = Len(a) /\ Len(a) \in 1..Len(a)
  BY DEF Amended
<1>2. \A n \in 1..Len(a) :
        b[n].status = "interrupted" <=> a[n].status = "interrupted" \/ n = Len(a)
  BY <1>1 DEF Amended, Last
<1>3. Interrupted(b) = Interrupted(a) \cup {Len(a)} /\ Len(a) \notin Interrupted(a)
  BY <1>1, <1>2 DEF Interrupted, Last
<1>4. QED
  BY <1>3, CountType, FS_AddElement

LEMMA AppendKeepsCount ==
  ASSUME NEW a \in Seq(Attempt), NEW e \in Attempt, e.status # "interrupted"
  PROVE  Interrupted(Append(a, e)) = Interrupted(a)
<1> DEFINE b == Append(a, e)
<1>1. /\ b \in Seq(Attempt) /\ Len(b) = Len(a) + 1 /\ b[Len(a) + 1] = e
      /\ \A n \in 1..Len(a) : b[n] = a[n]
  BY AppendProperties
<1>2. DOMAIN a = 1..Len(a) /\ DOMAIN b = 1..(Len(a) + 1) /\ Len(a) \in Nat
  BY <1>1
<1> HIDE DEF b
<1>3. Interrupted(b) = Interrupted(a)
  BY <1>1, <1>2 DEF Interrupted
<1>4. QED
  BY <1>3 DEF b
-----------------------------------------------------------------------------
(* UPDATE task_attempts of the latest attempt. *)
LEMMA CloseLatest ==
  ASSUME TypeOK, NEW t \in Tasks, NEW s \in AttemptStatus, attempts[t] # <<>>
  PROVE  /\ Amended(attempts[t], CloseAttempt(t, Len(attempts[t]), s)[t], s, TRUE)
         /\ \A u \in Tasks : u # t =>
              CloseAttempt(t, Len(attempts[t]), s)[u] = attempts[u]
<1> DEFINE a == attempts[t]
           e == [worker |-> a[Len(a)].worker, status |-> s, closed |-> TRUE]
           b == [a EXCEPT ![Len(a)] = e]
<1>1. a \in Seq(Attempt) /\ Len(a) \in 1..Len(a) /\ a[Len(a)] \in Attempt
  BY DEF TypeOK
<1>2. CloseAttempt(t, Len(a), s) = [attempts EXCEPT ![t] = b]
  BY DEF CloseAttempt, TypeOK
<1>3. e \in Attempt /\ e.status = s /\ e.closed
  BY <1>1 DEF Attempt
<1>4. attempts \in [Tasks -> Seq(Attempt)]
  BY DEF TypeOK
<1> HIDE DEF e, a
<1>5. /\ b \in Seq(Attempt) /\ Len(b) = Len(a)
      /\ \A i \in 1..Len(a) : b[i] = IF i = Len(a) THEN e ELSE a[i]
  BY <1>1, <1>3, ExceptSeq
<1>6. a # <<>>
  BY DEF a
<1> HIDE DEF b
<1>7. Amended(a, b, s, TRUE)
  BY <1>1, <1>3, <1>5, <1>6 DEF Amended, Last
<1>8. [attempts EXCEPT ![t] = b][t] = b
      /\ \A u \in Tasks : u # t => [attempts EXCEPT ![t] = b][u] = attempts[u]
  BY <1>4
<1>9. QED
  BY <1>2, <1>7, <1>8 DEF a

(* CloseOpen closes the latest attempt or changes nothing. *)
LEMMA CloseOpenLatest ==
  ASSUME TypeOK, NEW t \in Tasks, NEW s \in AttemptStatus
  PROVE  /\ \/ /\ CloseOpen(t, s)[t] = attempts[t]
               /\ attempts[t] = <<>> \/ Last(attempts[t]).closed
            \/ /\ Amended(attempts[t], CloseOpen(t, s)[t], s, TRUE)
               /\ ~Last(attempts[t]).closed
         /\ \A u \in Tasks : u # t => CloseOpen(t, s)[u] = attempts[u]
BY CloseLatest DEF CloseOpen, Last
-----------------------------------------------------------------------------
(* A step changes one task, and mostly one coroutine of it. *)

LEMMA OneTask ==
  ASSUME TimelyInv, NEW t \in Tasks,
         \A u \in Tasks : u # t =>
           /\ row'[u] = row[u] /\ attempts'[u] = attempts[u]
           /\ \A v \in Workers : pc'[v][u] = pc[v][u] /\ seen'[v][u] = seen[v][u],
         TaskOK(t, row'[t], attempts'[t]),
         \A v \in Workers : RunOK(v, t, row'[t], attempts'[t], pc'[v][t], seen'[v][t])
  PROVE  TimelyInv'
BY DEF TimelyInv

(* What all coroutines but that of w for t have read stays. *)
OthersSeen(w, t) ==
  \A v \in Workers, u \in Tasks : v # w \/ u # t => seen'[v][u] = seen[v][u]

LEMMA SeenEffect ==
  ASSUME TypeOK, NEW w \in Workers, NEW t \in Tasks,
         Read(w, t) \/ Forget(w, t) \/ UNCHANGED seen
  PROVE  /\ OthersSeen(w, t)
         /\ Read(w, t) =>
              seen'[w][t] = [attempt |-> Len(attempts[t]), exhausted |-> Exhausted(t)]
         /\ UNCHANGED seen => seen'[w][t] = seen[w][t]
BY DEF TypeOK, Read, Forget, OthersSeen

LEMMA OneRun ==
  ASSUME TypeOK, TimelyInv, NEW w \in Workers, NEW t \in Tasks, NEW p,
         Goto(w, t, p), OthersSeen(w, t),
         \A u \in Tasks : u # t => row'[u] = row[u] /\ attempts'[u] = attempts[u],
         TaskOK(t, row'[t], attempts'[t]),
         RunOK(w, t, row'[t], attempts'[t], p, seen'[w][t]),
         \A v \in Workers : v # w =>
           RunOK(v, t, row'[t], attempts'[t], pc[v][t], seen[v][t])
  PROVE  TimelyInv'
<1>1. \A v \in Workers, u \in Tasks :
        pc'[v][u] = IF v = w /\ u = t THEN p ELSE pc[v][u]
  BY DEF TypeOK, Goto
<1>2. \A v \in Workers :
        RunOK(v, t, row'[t], attempts'[t], pc'[v][t], seen'[v][t])
  BY <1>1 DEF OthersSeen
<1>3. \A u \in Tasks : u # t =>
        \A v \in Workers : pc'[v][u] = pc[v][u] /\ seen'[v][u] = seen[v][u]
  BY <1>1 DEF OthersSeen
<1>4. QED
  BY <1>2, <1>3, OneTask

(* The store stays as it is. *)
LEMMA OnlyGoto ==
  ASSUME TypeOK, TimelyInv, NEW w \in Workers, NEW t \in Tasks, NEW p,
         UNCHANGED <<row, attempts>>, Goto(w, t, p), OthersSeen(w, t),
         RunOK(w, t, row[t], attempts[t], p, seen'[w][t])
  PROVE  TimelyInv'
BY OneRun DEF TimelyInv

(* The coroutines stay where they are. *)
LEMMA OnlyRow ==
  ASSUME TypeOK, TimelyInv, NEW t \in Tasks, UNCHANGED <<pc, seen>>,
         \A u \in Tasks : u # t => row'[u] = row[u] /\ attempts'[u] = attempts[u],
         TaskOK(t, row'[t], attempts'[t]),
         \A v \in Workers : RunOK(v, t, row'[t], attempts'[t], pc[v][t], seen[v][t])
  PROVE  TimelyInv'
BY OneTask

(* The values at one task. *)
LEMMA Values ==
  ASSUME TypeOK, TimelyInv, NEW w \in Workers, NEW t \in Tasks
  PROVE  /\ row[t] \in Row /\ attempts[t] \in Seq(Attempt)
         /\ pc[w][t] \in Place /\ seen[w][t] \in Seen
         /\ TaskOK(t, row[t], attempts[t])
         /\ RunOK(w, t, row[t], attempts[t], pc[w][t], seen[w][t])
BY DEF TypeOK, TimelyInv
-----------------------------------------------------------------------------
(* The coroutines of a task beside the one that acts. *)
USE DEF Held, Finished, Failing

(* Nothing is asked of a coroutine that is over. *)
LEMMA Over ==
  ASSUME NEW w, NEW t, NEW r, NEW a, NEW s, NEW p \in {"done", "none"}
  PROVE  RunOK(w, t, r, a, p, s)
BY DEF RunOK, Working, Unwinding, Live, Cancellable, Atomic

(* A coroutine that only waits needs no more than that the row is not its.   *)
LEMMA Waiting ==
  ASSUME NEW w, NEW t, NEW r, NEW a, NEW s, NEW p, p \notin Working \cup {"idle"},
         r.owner # w
  PROVE  RunOK(w, t, r, a, p, s)
BY DEF RunOK, Working, Unwinding, Live, Cancellable, Atomic

(* While the row is queued or w's, the coroutines of the others only wait.   *)
LEMMA Bystander ==
  ASSUME DurableTasksAssumption, NEW v \in Workers, NEW w \in Workers, v # w,
         NEW t, NEW r, NEW a, NEW p, NEW s, NEW q, NEW b,
         RunOK(v, t, r, a, p, s),
         \/ r.status \in {"absent", "queued"}
         \/ r.owner = w /\ r.status \in Held \cup {"cancelled"},
         q.owner \in {None, w}
  PROVE  RunOK(v, t, q, b, p, s)
<1>1. p \notin Working \cup {"idle"}
  BY DEF RunOK
<1>2. q.owner # v
  BY DEF DurableTasksAssumption
<1>3. QED
  BY <1>1, <1>2, Waiting
-----------------------------------------------------------------------------
(* Steps of a coroutine that leave the store as it is. *)

LEMMA QuietStep ==
  ASSUME IInv, TimelyInv, DurableTasksAssumption, NEW w \in Workers, NEW t \in Tasks,
         \/ PollFinished(w, t) \/ AgentReturns(w, t) \/ AgentRaises(w, t)
         \/ ReadFailure(w, t) \/ RetryDelayOver(w, t) \/ IdleEnds(w, t)
         \/ AdoptPersisted(w, t)
  PROVE  TimelyInv'
<1> DEFINE r == row[t]
           a == attempts[t]
           p == pc[w][t]
<1>1. /\ r \in Row /\ a \in Seq(Attempt)
      /\ TaskOK(t, r, a) /\ RunOK(w, t, r, a, p, seen[w][t])
  BY Values DEF IInv
<1>2. TypeOK
  BY DEF IInv
<1>3. CASE PollFinished(w, t) \/ IdleEnds(w, t)
  BY <1>2, <1>3, Over, SeenEffect, OnlyGoto DEF PollFinished, IdleEnds
<1>4. CASE AgentReturns(w, t)
  <2>1. p = "exec"
    BY <1>4 DEF AgentReturns, Awaits
  <2>2. seen'[w][t] = [attempt |-> Len(a), exhausted |-> Exhausted(t)]
    BY <1>2, <1>4, SeenEffect DEF AgentReturns
  <2>3. RunOK(w, t, r, a, "succeed", seen'[w][t])
    BY <1>1, <2>1, <2>2 DEF RunOK, Working, Unwinding, Live, Cancellable, Atomic
  <2>4. QED
    BY <1>2, <1>4, <2>3, SeenEffect, OnlyGoto DEF AgentReturns
<1>5. CASE AgentRaises(w, t)
  <2>1. p \in {"exec", "idle"}
    BY <1>5 DEF AgentRaises, Awaits
  <2>2. a # <<>> => Last(a).closed \/ Last(a).status \in {"leased", "running"}
    BY <1>1 DEF TaskOK, Last
  <2>3. RunOK(w, t, r, a, "raised", seen[w][t])
    BY <1>1, <2>1, <2>2 DEF RunOK, TaskOK, Working, Unwinding, Live, Cancellable, Atomic
  <2>4. QED
    BY <1>2, <1>5, <2>3, SeenEffect, OnlyGoto DEF AgentRaises
<1>6. CASE ReadFailure(w, t)
  <2>1. p = "raised"
    BY <1>6 DEF ReadFailure
  <2>2. seen'[w][t] = [attempt |-> Len(a), exhausted |-> Exhausted(t)]
    BY <1>2, <1>6, SeenEffect DEF ReadFailure
  <2>3. RunOK(w, t, r, a, "failing", seen'[w][t])
    BY <1>1, <2>1, <2>2
       DEF RunOK, Working, Unwinding, Live, Cancellable, Atomic, Exhausted
  <2>4. QED
    BY <1>2, <1>6, <2>3, SeenEffect, OnlyGoto DEF ReadFailure
<1>7. CASE RetryDelayOver(w, t)
  <2>1. p = "backoff"
    BY <1>7 DEF RetryDelayOver, Awaits
  <2>2. RunOK(w, t, r, a, "poll", seen[w][t])
    BY <1>1, <2>1 DEF RunOK, Working, Unwinding, Live, Cancellable, Atomic
  <2>3. QED
    BY <1>2, <1>7, <2>2, SeenEffect, OnlyGoto DEF RetryDelayOver
<1>8. CASE AdoptPersisted(w, t)
  <2>1. r.owner # w
    BY <1>1, <1>8 DEF AdoptPersisted, TaskOK, DurableTasksAssumption
  <2>2. RunOK(w, t, r, a, "poll", seen[w][t])
    BY <2>1, Waiting DEF Working
  <2>3. QED
    BY <1>2, <1>8, <2>2, SeenEffect, OnlyGoto DEF AdoptPersisted
<1>9. QED
  BY <1>3, <1>4, <1>5, <1>6, <1>7, <1>8
-----------------------------------------------------------------------------
(* Steps that write one column of a row. *)

LEMMA ColumnKeeps ==
  ASSUME IInv, TimelyInv, DurableTasksAssumption, NEW t \in Tasks,
         \/ \E w \in Workers : Admit(w, t) \/ Withdraw(w, t) \/ Heartbeat(w, t)
         \/ NextRetryDue(t)
         \/ ~Stalls /\ Lapse(t)
  PROVE  TimelyInv'
<1> DEFINE r == row[t]
           a == attempts[t]
           q == row'[t]
<1>1. /\ TypeOK /\ r \in Row /\ a \in Seq(Attempt) /\ Len(a) \in Nat
      /\ TaskOK(t, r, a)
      /\ r.max \in Nat /\ Len(a) <= r.max
  BY Values DEF IInv, TimelyInv, TypeOK, AttemptBudget, Row
<1>2. /\ \A u \in Tasks : u # t => row'[u] = row[u]
      /\ UNCHANGED <<attempts, pc, seen>>
  BY <1>1 DEF Admit, Withdraw, Heartbeat, NextRetryDue, Lapse, TypeOK
<1>3. \A v \in Workers : RunOK(v, t, r, a, pc[v][t], seen[v][t])
  BY DEF TimelyInv
<1>4. CASE \E w \in Workers : Admit(w, t)
  <2>1. /\ r.status = "absent"
        /\ q.status = "queued" /\ q.owner = r.owner /\ q.max = r.max
        /\ q.lapsed = r.lapsed
    BY <1>1, <1>4 DEF Admit, TypeOK, Row
  <2>2. a = <<>> /\ q.owner = None
    BY <1>1, <2>1 DEF TaskOK
  <2>3. Len(a) < q.max
    <3>1. Budget(t) \in Nat \ {0}
      BY DEF Budget, DurableTasksAssumption
    <3>2. r.max = Budget(t) + Cardinality(Interrupted(a)) /\ Len(a) = 0
      BY <1>1, <2>2 DEF TaskOK
    <3>3. Cardinality(Interrupted(a)) \in Nat
      BY <1>1, CountType
    <3>4. QED
      BY <2>1, <3>1, <3>2, <3>3
  <2>4. TaskOK(t, q, a)
    BY <1>1, <2>1, <2>2, <2>3 DEF TaskOK
  <2>5. \A v \in Workers : RunOK(v, t, q, a, pc[v][t], seen[v][t])
    BY <1>3, <2>1, <2>2, Waiting DEF RunOK, DurableTasksAssumption
  <2>6. QED
    BY <1>1, <1>2, <2>4, <2>5, OnlyRow
<1>5. CASE \E w \in Workers : Withdraw(w, t)
  <2>1. /\ r.status = "queued"
        /\ q.status = "cancelled" /\ q.owner = r.owner /\ q.max = r.max
    BY <1>1, <1>5 DEF Withdraw, TypeOK, Row
  <2>2. q.owner = None
    BY <1>1, <2>1 DEF TaskOK
  <2>3. TaskOK(t, q, a)
    BY <1>1, <2>1, <2>2 DEF TaskOK
  <2>4. \A v \in Workers : RunOK(v, t, q, a, pc[v][t], seen[v][t])
    BY <1>3, <2>1, <2>2, Waiting DEF RunOK, DurableTasksAssumption
  <2>5. QED
    BY <1>1, <1>2, <2>3, <2>4, OnlyRow
<1>6. CASE (\E w \in Workers : Heartbeat(w, t)) \/ NextRetryDue(t)
  <2>1. /\ q.status = r.status /\ q.owner = r.owner /\ q.max = r.max
        /\ q.lapsed => r.lapsed
    <3>1. CASE \E w \in Workers : Heartbeat(w, t)
      BY <1>1, <3>1, SetLapsed DEF Heartbeat, TypeOK
    <3>2. CASE NextRetryDue(t)
      BY <1>1, <3>2, SetBackoff DEF NextRetryDue, TypeOK
    <3>3. QED
      BY <1>6, <3>1, <3>2
  <2>2. TaskOK(t, q, a)
    BY <1>1, <2>1 DEF TaskOK
  <2>3. \A v \in Workers : RunOK(v, t, q, a, pc[v][t], seen[v][t])
    BY <1>3, <2>1 DEF RunOK
  <2>4. QED
    BY <1>1, <1>2, <2>2, <2>3, OnlyRow
<1>7. CASE ~Stalls /\ Lapse(t)
  <2>1. /\ q.status = r.status /\ q.owner = r.owner /\ q.max = r.max
        /\ pc[r.owner][t] \notin Live
    BY <1>1, <1>7 DEF Lapse, TypeOK, Row
  <2>2. TaskOK(t, q, a)
    BY <1>1, <2>1 DEF TaskOK
  <2>3. \A v \in Workers : RunOK(v, t, q, a, pc[v][t], seen[v][t])
    BY <1>3, <2>1 DEF RunOK
  <2>4. QED
    BY <1>1, <1>2, <2>2, <2>3, OnlyRow
<1>8. QED
  BY <1>4, <1>5, <1>6, <1>7

(* A launch makes the row and its first coroutine. *)
LEMMA LaunchKeeps ==
  ASSUME IInv, TimelyInv, DurableTasksAssumption, NEW w \in Workers, NEW t \in Tasks,
         Launch(w, t)
  PROVE  TimelyInv'
<1> DEFINE r == row[t]
           a == attempts[t]
           q == row'[t]
<1>1. /\ TypeOK /\ r \in Row /\ a \in Seq(Attempt) /\ TaskOK(t, r, a)
  BY Values DEF IInv
<1>2. /\ \A u \in Tasks : u # t => row'[u] = row[u]
      /\ UNCHANGED <<attempts, seen>> /\ Goto(w, t, "poll")
  BY <1>1 DEF Launch, TypeOK
<1>3. /\ r.status = "absent"
      /\ q.status = "queued" /\ q.owner = r.owner /\ q.max = r.max
  BY <1>1 DEF Launch, TypeOK, Row
<1>4. a = <<>> /\ q.owner = None
  BY <1>1, <1>3 DEF TaskOK
<1>5. Len(a) < q.max
  <2>1. Budget(t) \in Nat \ {0}
    BY DEF Budget, DurableTasksAssumption
  <2>2. r.max = Budget(t) + Cardinality(Interrupted(a)) /\ Len(a) = 0
    BY <1>1, <1>4 DEF TaskOK
  <2>3. Cardinality(Interrupted(a)) \in Nat
    BY <1>1, CountType
  <2>4. QED
    BY <1>3, <2>1, <2>2, <2>3
<1>6. TaskOK(t, q, a)
  BY <1>1, <1>3, <1>4, <1>5 DEF TaskOK
<1>7. RunOK(w, t, q, a, "poll", seen[w][t])
  BY <1>4, Waiting DEF Working, DurableTasksAssumption
<1>8. \A v \in Workers : v # w => RunOK(v, t, q, a, pc[v][t], seen[v][t])
  BY <1>3, <1>4, Bystander DEF TimelyInv
<1>9. OthersSeen(w, t) /\ seen'[w][t] = seen[w][t]
  BY <1>1, <1>2, SeenEffect
<1>10. QED
  BY <1>1, <1>2, <1>6, <1>7, <1>8, <1>9, OneRun

(* A claim starts from a queued row, that no coroutine works on. *)
LEMMA ClaimKeeps ==
  ASSUME IInv, TimelyInv, DurableTasksAssumption, NEW w \in Workers, NEW t \in Tasks,
         Claim(w, t)
  PROVE  TimelyInv'
<1> DEFINE r == row[t]
           a == attempts[t]
           e == [worker |-> w, status |-> "leased", closed |-> FALSE]
           b == Append(a, e)
           q == [status |-> "leased", owner |-> w, lapsed |-> FALSE,
                 backoff |-> FALSE, max |-> r.max]
<1>1. /\ TypeOK /\ r \in Row /\ a \in Seq(Attempt) /\ TaskOK(t, r, a)
  BY Values DEF IInv
<1>2. /\ r.status = "queued"
      /\ row' = [row EXCEPT ![t] = q]
      /\ attempts' = [attempts EXCEPT ![t] = b]
      /\ Goto(w, t, "claimed") /\ UNCHANGED seen
  BY DEF Claim, Claimable
<1>3. /\ \A u \in Tasks : u # t => row'[u] = row[u] /\ attempts'[u] = attempts[u]
      /\ row'[t] = q /\ attempts'[t] = b
  BY <1>1, <1>2 DEF TypeOK
<1>4. e \in Attempt /\ e.status = "leased" /\ ~e.closed
  BY DEF Attempt, AttemptStatus
<1>5. Interrupted(b) = Interrupted(a)
  BY <1>1, <1>4, AppendKeepsCount
<1>6. q.status = "leased" /\ q.owner = w /\ q.max = r.max /\ ~q.lapsed
  OBVIOUS
<1> HIDE DEF e, q
<1>7. /\ b # <<>> /\ Last(b) = e
      /\ \A n \in 1..Len(b) : b[n] = e \/ (n \in 1..Len(a) /\ b[n] = a[n])
  BY <1>1, <1>4, AppendProperties DEF Last
<1> HIDE DEF b
<1>8. TaskOK(t, q, b)
  BY <1>1, <1>4, <1>5, <1>6, <1>7 DEF TaskOK
<1>9. RunOK(w, t, q, b, "claimed", seen[w][t])
  BY <1>4, <1>6, <1>7 DEF RunOK, Unwinding
<1>10. \A v \in Workers : v # w => RunOK(v, t, q, b, pc[v][t], seen[v][t])
  BY <1>2, <1>6, Bystander DEF TimelyInv
<1>11. OthersSeen(w, t) /\ seen'[w][t] = seen[w][t]
  BY <1>1, <1>2, SeenEffect
<1>12. QED
  BY <1>1, <1>2, <1>3, <1>8, <1>9, <1>10, <1>11, OneRun
-----------------------------------------------------------------------------
(* The attempts of a coroutine that works: MarkRunning, finish_attempt. *)

(* With the latest attempt closed, every open attempt is one under way. *)
LEMMA AmendedTrail ==
  ASSUME NEW a \in Seq(Attempt), NEW b, NEW s, Amended(a, b, s, TRUE),
         \A n \in 1..Len(a) : a[n].closed \/ a[n].status \in {"leased", "running"}
  PROVE  \A n \in 1..Len(b) : b[n].closed \/ b[n].status \in {"leased", "running"}
BY DEF Amended, Last

LEMMA MarkRunningKeeps ==
  ASSUME IInv, TimelyInv, DurableTasksAssumption, NEW w \in Workers, NEW t \in Tasks,
         MarkRunning(w, t)
  PROVE  TimelyInv'
<1> DEFINE r == row[t]
           a == attempts[t]
           p == pc[w][t]
           e == [a[Len(a)] EXCEPT !.status = "running"]
           b == [a EXCEPT ![Len(a)] = e]
           q == [r EXCEPT !.status = "running"]
<1>1. /\ TypeOK /\ r \in Row /\ a \in Seq(Attempt) /\ TaskOK(t, r, a)
      /\ RunOK(w, t, r, a, p, seen[w][t]) /\ p = "claimed"
  BY Values DEF IInv, MarkRunning
<1>2. OthersSeen(w, t) /\ seen'[w][t] = seen[w][t]
  BY <1>1, SeenEffect DEF MarkRunning
<1>3. CASE r.status = "leased" /\ r.owner = w
  <2>1. a # <<>> /\ Len(a) \in 1..Len(a) /\ a[Len(a)] \in Attempt /\ ~Last(a).closed
    BY <1>1 DEF RunOK, Working
  <2>2. /\ e \in Attempt /\ e.status = "running" /\ e.closed = a[Len(a)].closed
    BY <2>1 DEF Attempt, AttemptStatus
  <2>3. /\ row' = [row EXCEPT ![t] = q]
        /\ attempts' = [attempts EXCEPT ![t] = b]
        /\ Goto(w, t, "exec")
    BY <1>1, <1>3 DEF MarkRunning, TypeOK
  <2>4. /\ \A u \in Tasks : u # t => row'[u] = row[u] /\ attempts'[u] = attempts[u]
        /\ row'[t] = q /\ attempts'[t] = b
    BY <1>1, <2>3 DEF TypeOK
  <2>5. q.status = "running" /\ q.owner = w /\ q.max = r.max /\ q.lapsed = r.lapsed
    BY <1>1, <1>3 DEF Row
  <2> HIDE DEF e, q
  <2>6. /\ b \in Seq(Attempt) /\ Len(b) = Len(a)
        /\ \A i \in 1..Len(a) : b[i] = IF i = Len(a) THEN e ELSE a[i]
    BY <1>1, <2>1, <2>2, ExceptSeq
  <2> HIDE DEF b
  <2>7. Amended(a, b, "running", FALSE)
    BY <2>1, <2>2, <2>6 DEF Amended, Last, Attempt
  <2>8. Interrupted(b) = Interrupted(a)
    BY <1>1, <2>1, <2>7, AmendKeepsCount DEF TaskOK, Last
  <2>9. TaskOK(t, q, b)
    <3>1. \A n \in 1..Len(b) : b[n].closed \/ b[n].status \in {"leased", "running"}
      BY <1>1, <2>2, <2>6 DEF TaskOK
    <3>2. QED
      BY <1>1, <2>5, <2>7, <2>8, <3>1 DEF TaskOK, Amended
  <2>10. RunOK(w, t, q, b, "exec", seen[w][t])
    <3>1. b # <<>>
      BY <2>1, <2>6
    <3>2. ~q.lapsed
      BY <1>1, <1>3, <2>5 DEF RunOK, Live, Atomic
    <3>3. QED
      BY <2>5, <2>7, <3>1, <3>2 DEF RunOK, Amended, Unwinding
  <2>11. \A v \in Workers : v # w => RunOK(v, t, q, b, pc[v][t], seen[v][t])
    BY <1>3, <2>5, Bystander DEF TimelyInv
  <2>12. QED
    BY <1>1, <1>2, <2>3, <2>4, <2>9, <2>10, <2>11, OneRun
<1>4. CASE ~(r.status = "leased" /\ r.owner = w)
  BY <1>1, <1>2, <1>4, Over, OnlyGoto DEF MarkRunning
<1>5. QED
  BY <1>3, <1>4

(* _succeed closes the attempt it has read: that is still the latest one. *)
LEMMA FinishSucceededKeeps ==
  ASSUME IInv, TimelyInv, DurableTasksAssumption, NEW w \in Workers, NEW t \in Tasks,
         FinishSucceeded(w, t)
  PROVE  TimelyInv'
<1> DEFINE r == row[t]
           a == attempts[t]
           p == pc[w][t]
           b == attempts'[t]
<1>1. /\ TypeOK /\ r \in Row /\ a \in Seq(Attempt) /\ TaskOK(t, r, a)
      /\ RunOK(w, t, r, a, p, seen[w][t]) /\ p = "succeed"
  BY Values DEF IInv, FinishSucceeded
<1>2. OthersSeen(w, t) /\ UNCHANGED row /\ Goto(w, t, "commit")
  BY <1>1, SeenEffect DEF FinishSucceeded
<1>3. /\ a # <<>> /\ ~Last(a).closed /\ seen[w][t].attempt = Len(a)
      /\ r.owner = w /\ r.status \in Held \cup {"cancelled"} /\ ~r.lapsed
  BY <1>1 DEF RunOK, Working, Live, Atomic
<1>4. /\ Amended(a, b, "succeeded", TRUE)
      /\ \A u \in Tasks : u # t => attempts'[u] = attempts[u]
  <2>1. attempts' = CloseAttempt(t, Len(attempts[t]), "succeeded")
    BY <1>3 DEF FinishSucceeded
  <2>2. "succeeded" \in AttemptStatus
    BY DEF AttemptStatus
  <2>3. QED
    BY <1>1, <1>3, <2>1, <2>2, CloseLatest
<1>5. Interrupted(b) = Interrupted(a)
  <2>1. Last(a).status # "interrupted"
    BY <1>1, <1>3 DEF TaskOK, Last
  <2>2. QED
    BY <1>1, <1>4, <2>1, AmendKeepsCount
<1>6. TaskOK(t, r, b)
  <2>1. \A n \in 1..Len(b) : b[n].closed \/ b[n].status \in {"leased", "running"}
    BY <1>1, <1>4, AmendedTrail DEF TaskOK
  <2>2. QED
    BY <1>1, <1>3, <1>4, <1>5, <2>1 DEF TaskOK, Amended
<1>7. RunOK(w, t, r, b, "commit", seen'[w][t])
  <2>1. b # <<>>
    BY <1>1, <1>4 DEF Amended
  <2>2. QED
    BY <1>3, <1>4, <2>1 DEF RunOK, Amended, Unwinding
<1>8. \A v \in Workers : v # w => RunOK(v, t, r, b, pc[v][t], seen[v][t])
  BY <1>3, Bystander DEF TimelyInv
<1>9. QED
  BY <1>1, <1>2, <1>4, <1>6, <1>7, <1>8, OneRun

(* _fail_or_requeue closes it too, that of a teammate once more. *)
LEMMA FinishFailedKeeps ==
  ASSUME IInv, TimelyInv, DurableTasksAssumption, NEW w \in Workers, NEW t \in Tasks,
         FinishFailed(w, t)
  PROVE  TimelyInv'
<1> DEFINE r == row[t]
           a == attempts[t]
           p == pc[w][t]
           b == attempts'[t]
<1>1. /\ TypeOK /\ r \in Row /\ a \in Seq(Attempt) /\ TaskOK(t, r, a)
      /\ RunOK(w, t, r, a, p, seen[w][t]) /\ p = "failing"
  BY Values DEF IInv, FinishFailed
<1>2. OthersSeen(w, t) /\ seen'[w][t] = seen[w][t] /\ UNCHANGED row /\ Goto(w, t, "requeue")
  BY <1>1, SeenEffect DEF FinishFailed
<1>3. /\ a # <<>> /\ seen[w][t].attempt = Len(a)
      /\ seen[w][t].exhausted = (Len(a) >= r.max)
      /\ Last(a).status \in {"leased", "running", "succeeded", "failed"}
      /\ ~(r.lapsed /\ r.owner = w)
      /\ \/ r.owner = w /\ r.status \in Held \cup {"cancelled"}
         \/ r.status = "succeeded" /\ t \in TeamTasks
  BY <1>1 DEF RunOK, Working, Live, Atomic
<1>4. /\ Amended(a, b, "failed", TRUE)
      /\ \A u \in Tasks : u # t => attempts'[u] = attempts[u]
  <2>1. attempts' = CloseAttempt(t, Len(attempts[t]), "failed")
    BY <1>3 DEF FinishFailed
  <2>2. "failed" \in AttemptStatus
    BY DEF AttemptStatus
  <2>3. QED
    BY <1>1, <1>3, <2>1, <2>2, CloseLatest
<1>5. Interrupted(b) = Interrupted(a)
  BY <1>1, <1>3, <1>4, AmendKeepsCount
<1>6. b # <<>> /\ Len(b) = Len(a)
  BY <1>1, <1>4 DEF Amended
<1>7. TaskOK(t, r, b)
  <2>1. \A n \in 1..Len(b) : b[n].closed \/ b[n].status \in {"leased", "running"}
    BY <1>1, <1>4, AmendedTrail DEF TaskOK
  <2>2. QED
    BY <1>1, <1>3, <1>4, <1>5, <1>6, <2>1 DEF TaskOK, Amended
<1>8. RunOK(w, t, r, b, "requeue", seen[w][t])
  BY <1>3, <1>4, <1>6 DEF RunOK, Amended, Unwinding
<1>9. ASSUME NEW v \in Workers, v # w
      PROVE  RunOK(v, t, r, b, pc[v][t], seen[v][t])
  <2>1. RunOK(v, t, r, a, pc[v][t], seen[v][t])
    BY DEF TimelyInv
  <2>2. CASE r.owner = w /\ r.status \in Held \cup {"cancelled"}
    BY <1>9, <2>1, <2>2, Bystander
  <2>3. CASE r.status = "succeeded" /\ t \in TeamTasks
    BY <1>4, <1>6, <2>1, <2>3 DEF RunOK, Amended, Working
  <2>4. QED
    BY <1>3, <2>2, <2>3
<1>10. QED
  BY <1>1, <1>2, <1>4, <1>7, <1>8, <1>9, OneRun
-----------------------------------------------------------------------------
(* The transition at the end of an attempt. *)

LEMMA CommitSucceededKeeps ==
  ASSUME IInv, TimelyInv, DurableTasksAssumption, NEW w \in Workers, NEW t \in Tasks,
         CommitSucceeded(w, t)
  PROVE  TimelyInv'
<1> DEFINE r == row[t]
           a == attempts[t]
           p == pc[w][t]
           q == Unowned(r, "succeeded")
<1>1. /\ TypeOK /\ r \in Row /\ a \in Seq(Attempt) /\ TaskOK(t, r, a)
      /\ RunOK(w, t, r, a, p, seen[w][t]) /\ p = "commit"
  BY Values DEF IInv, CommitSucceeded
<1>2. OthersSeen(w, t) /\ seen'[w][t] = seen[w][t] /\ UNCHANGED attempts
  BY <1>1, SeenEffect DEF CommitSucceeded
<1>3. /\ a # <<>> /\ Last(a).status = "succeeded" /\ ~(r.lapsed /\ r.owner = w)
      /\ r.owner = w /\ r.status \in Held \cup {"cancelled"}
  BY <1>1 DEF RunOK, Working, Live, Atomic
<1>4. CASE r.status = "running"
  <2>1. /\ row' = [row EXCEPT ![t] = q]
        /\ Goto(w, t, IF t \in TeamTasks THEN "idle" ELSE "done")
    BY <1>4 DEF CommitSucceeded, Allowed
  <2>2. q.status = "succeeded" /\ q.owner = None /\ q.max = r.max /\ ~q.lapsed
    BY DEF Unowned, NoLease
  <2> HIDE DEF q
  <2>3. /\ \A u \in Tasks : u # t => row'[u] = row[u]
        /\ row'[t] = q
    BY <1>1, <2>1 DEF TypeOK
  <2>4. TaskOK(t, q, a)
    BY <1>1, <1>3, <2>2 DEF TaskOK
  <2>5. RunOK(w, t, q, a, IF t \in TeamTasks THEN "idle" ELSE "done", seen[w][t])
    BY <1>3, <2>2 DEF RunOK, Working, Unwinding
  <2>6. \A v \in Workers : v # w => RunOK(v, t, q, a, pc[v][t], seen[v][t])
    BY <1>3, <1>4, <2>2, Bystander DEF TimelyInv
  <2>7. QED
    BY <1>1, <1>2, <2>1, <2>3, <2>4, <2>5, <2>6, OneRun
<1>5. CASE r.status # "running"
  <2>1. UNCHANGED row /\ Goto(w, t, "raised")
    BY <1>3, <1>5 DEF CommitSucceeded, Allowed
  <2>2. RunOK(w, t, r, a, "raised", seen[w][t])
    BY <1>3 DEF RunOK, Unwinding
  <2>3. QED
    BY <1>1, <1>2, <2>1, <2>2, OnlyGoto
<1>6. QED
  BY <1>4, <1>5

LEMMA FailOrRequeueKeeps ==
  ASSUME IInv, TimelyInv, DurableTasksAssumption, NEW w \in Workers, NEW t \in Tasks,
         FailOrRequeue(w, t)
  PROVE  TimelyInv'
<1> DEFINE r == row[t]
           a == attempts[t]
           p == pc[w][t]
           s == IF seen[w][t].exhausted THEN "failed" ELSE "queued"
           q == NoLease(s, s = "queued" \/ r.backoff, r.max)
<1>1. /\ TypeOK /\ r \in Row /\ a \in Seq(Attempt) /\ TaskOK(t, r, a)
      /\ RunOK(w, t, r, a, p, seen[w][t]) /\ p = "requeue"
      /\ Len(a) \in Nat /\ r.max \in Nat
  BY Values DEF IInv, FailOrRequeue, Row
<1>2. OthersSeen(w, t) /\ UNCHANGED attempts
  BY <1>1, SeenEffect DEF FailOrRequeue
<1>3. /\ a # <<>> /\ Last(a).status = "failed"
      /\ seen[w][t].exhausted = (Len(a) >= r.max)
      /\ \/ r.owner = w /\ r.status \in Held \cup {"cancelled"}
         \/ r.status = "succeeded" /\ t \in TeamTasks
  BY <1>1 DEF RunOK, Working
<1>4. CASE r.owner = w /\ r.status \in Held
  <2>1. /\ row' = [row EXCEPT ![t] = q]
        /\ Goto(w, t, IF s = "queued" THEN "backoff" ELSE "done")
    BY <1>4 DEF FailOrRequeue, Allowed
  <2>2. /\ q.status = s /\ q.owner = None /\ q.max = r.max /\ ~q.lapsed
        /\ s = "queued" => Len(a) < r.max
        /\ s \in {"queued", "failed"}
    <3>1. s = IF Len(a) >= r.max THEN "failed" ELSE "queued"
      BY <1>3
    <3>2. s = "queued" => Len(a) < r.max
      BY <1>1, <3>1
    <3>3. s \in {"queued", "failed"}
      OBVIOUS
    <3> HIDE DEF s
    <3>4. QED
      BY <3>2, <3>3 DEF NoLease
  <2> HIDE DEF q, s
  <2>3. /\ \A u \in Tasks : u # t => row'[u] = row[u]
        /\ row'[t] = q
    BY <1>1, <2>1 DEF TypeOK
  <2>4. TaskOK(t, q, a)
    BY <1>1, <1>3, <2>2 DEF TaskOK
  <2>5. RunOK(w, t, q, a, IF s = "queued" THEN "backoff" ELSE "done", seen'[w][t])
    BY <2>2, Waiting DEF Working, DurableTasksAssumption
  <2>6. \A v \in Workers : v # w => RunOK(v, t, q, a, pc[v][t], seen[v][t])
    BY <1>4, <2>2, Bystander DEF TimelyInv
  <2>7. QED
    BY <1>1, <1>2, <2>1, <2>3, <2>4, <2>5, <2>6, OneRun
<1>5. CASE r.status \in {"cancelled", "succeeded"}
  <2>1. UNCHANGED row /\ Goto(w, t, "done")
    BY <1>5 DEF FailOrRequeue, Allowed
  <2>2. QED
    BY <1>1, <1>2, <2>1, Over, OnlyGoto
<1>6. QED
  BY <1>3, <1>4, <1>5
-----------------------------------------------------------------------------
(* Cancellation and shutdown. *)

LEMMA CancelledTask ==
  ASSUME NEW t, NEW r, NEW a \in Seq(Attempt), NEW q, NEW b, TaskOK(t, r, a),
         q.status = "cancelled", q.max = r.max,
         \/ b = a
         \/ Amended(a, b, "cancelled", TRUE) /\ ~Last(a).closed
  PROVE  TaskOK(t, q, b)
<1>1. CASE b = a
  BY <1>1 DEF TaskOK
<1>2. CASE Amended(a, b, "cancelled", TRUE) /\ ~Last(a).closed
  <2>1. Last(a).status # "interrupted"
    BY <1>2 DEF TaskOK, Amended, Last
  <2>2. Interrupted(b) = Interrupted(a)
    BY <1>2, <2>1, AmendKeepsCount
  <2>3. \A n \in 1..Len(b) : b[n].closed \/ b[n].status \in {"leased", "running"}
    BY <1>2, AmendedTrail DEF TaskOK
  <2>4. QED
    BY <2>2, <2>3 DEF TaskOK
<1>3. QED
  BY <1>1, <1>2

LEMMA CancelForWorkerKeeps ==
  ASSUME IInv, TimelyInv, DurableTasksAssumption, NEW w \in Workers, NEW t \in Tasks,
         NEW p \in Unwinding \cup {"done"}, pc[w][t] \in {"poll", "exec", "backoff"} \cup Unwinding,
         CancelForWorker(t, w), Goto(w, t, p), UNCHANGED seen
  PROVE  TimelyInv'
<1> DEFINE r == row[t]
           a == attempts[t]
           b == attempts'[t]
           q == Unowned(r, "cancelled")
<1>1. /\ TypeOK /\ r \in Row /\ a \in Seq(Attempt) /\ TaskOK(t, r, a)
      /\ RunOK(w, t, r, a, pc[w][t], seen[w][t])
  BY Values DEF IInv
<1>2. OthersSeen(w, t) /\ seen'[w][t] = seen[w][t]
  BY <1>1, SeenEffect
<1>3. p \notin Working \cup {"idle"}
  BY DEF Working, Unwinding
<1>4. CASE r.status = "queued" \/ (r.status \in Held /\ r.owner = w)
  <2>1. row' = [row EXCEPT ![t] = q] /\ attempts' = CloseOpen(t, "cancelled")
    BY <1>4 DEF CancelForWorker
  <2>2. q.status = "cancelled" /\ q.owner = None /\ q.max = r.max
    BY DEF Unowned, NoLease
  <2> HIDE DEF q
  <2>3. /\ \A u \in Tasks : u # t => row'[u] = row[u]
        /\ row'[t] = q
    BY <1>1, <2>1 DEF TypeOK
  <2>4. "cancelled" \in AttemptStatus
    BY DEF AttemptStatus
  <2>5. /\ b = a \/ (Amended(a, b, "cancelled", TRUE) /\ ~Last(a).closed)
        /\ \A u \in Tasks : u # t => attempts'[u] = attempts[u]
    BY <1>1, <2>1, <2>4, CloseOpenLatest
  <2>6. TaskOK(t, q, b)
    BY <1>1, <2>2, <2>5, CancelledTask
  <2>7. RunOK(w, t, q, b, p, seen[w][t])
    BY <1>3, <2>2, Waiting DEF DurableTasksAssumption
  <2>8. \A v \in Workers : v # w => RunOK(v, t, q, b, pc[v][t], seen[v][t])
    BY <1>4, <2>2, Bystander DEF TimelyInv
  <2>9. QED
    BY <1>1, <1>2, <2>3, <2>5, <2>6, <2>7, <2>8, OneRun
<1>5. CASE ~(r.status = "queued" \/ (r.status \in Held /\ r.owner = w))
  <2>1. UNCHANGED <<row, attempts>>
    BY <1>5 DEF CancelForWorker
  <2>2. ~(r.lapsed /\ r.owner = w)
    BY <1>1 DEF RunOK, Live, Cancellable
  <2>3. RunOK(w, t, r, a, p, seen[w][t])
    BY <1>3, <1>5, <2>2 DEF RunOK, Working, Unwinding
  <2>4. QED
    BY <1>1, <1>2, <2>1, <2>3, OnlyGoto
<1>6. QED
  BY <1>4, <1>5

LEMMA CancelOwnKeeps ==
  ASSUME IInv, TimelyInv, DurableTasksAssumption, NEW w \in Workers, NEW t \in Tasks,
         CancelOwn(w, t)
  PROVE  TimelyInv'
<1> DEFINE p == IF pc[w][t] = "exec" THEN "unwind2" ELSE "unwind1"
<1>1. p \in Unwinding \cup {"done"} /\ Goto(w, t, p)
  BY DEF Unwinding, CancelOwn
<1> HIDE DEF p
<1>2. QED
  BY <1>1, CancelForWorkerKeeps DEF CancelOwn, Awaits

(* A claimed run of a schedule is not given back to the queue: only a row    *)
(* of another task loses its lease here, and with a retry more.             *)
LEMMA ReleaseForShutdownKeeps ==
  ASSUME IInv, TimelyInv, DurableTasksAssumption, NEW w \in Workers, NEW t \in Tasks,
         NEW p \in Unwinding \cup {"done"}, pc[w][t] \in Unwinding, Requeues(t),
         ReleaseForShutdown(t, w), Goto(w, t, p), UNCHANGED seen
  PROVE  TimelyInv'
<1> DEFINE r == row[t]
           a == attempts[t]
           b == attempts'[t]
           q == NoLease("queued", FALSE, r.max + 1)
<1>1. /\ TypeOK /\ r \in Row /\ a \in Seq(Attempt) /\ TaskOK(t, r, a)
      /\ RunOK(w, t, r, a, pc[w][t], seen[w][t])
      /\ r.max \in Nat /\ Len(a) \in Nat /\ Len(a) <= r.max
  BY Values DEF IInv, AttemptBudget, Row
<1>2. OthersSeen(w, t) /\ seen'[w][t] = seen[w][t]
  BY <1>1, SeenEffect
<1>3. p \notin Working \cup {"idle"}
  BY DEF Working, Unwinding
<1>4. CASE r.status \in Held /\ r.owner = w
  <2>1. row' = [row EXCEPT ![t] = q] /\ attempts' = CloseOpen(t, "interrupted")
    BY <1>4 DEF ReleaseForShutdown
  <2>2. q.status = "queued" /\ q.owner = None /\ q.max = r.max + 1 /\ ~q.lapsed
    BY DEF NoLease
  <2> HIDE DEF q
  <2>3. /\ \A u \in Tasks : u # t => row'[u] = row[u]
        /\ row'[t] = q
    BY <1>1, <2>1 DEF TypeOK
  <2>4. "interrupted" \in AttemptStatus
    BY DEF AttemptStatus
  <2>5. ~Last(a).closed /\ a # <<>>
    BY <1>1, <1>4 DEF RunOK, IInv, LeaseMatchesAttempt
  <2>6. /\ Amended(a, b, "interrupted", TRUE)
        /\ \A u \in Tasks : u # t => attempts'[u] = attempts[u]
    BY <1>1, <2>1, <2>4, <2>5, CloseOpenLatest
  <2>7. Last(a).status # "interrupted"
    BY <1>1, <2>5 DEF TaskOK, Last
  <2>8. /\ Cardinality(Interrupted(b)) = Cardinality(Interrupted(a)) + 1
        /\ Cardinality(Interrupted(a)) \in Nat
    BY <1>1, <2>6, <2>7, InterruptionCounts, CountType
  <2>9. TaskOK(t, q, b)
    <3>1. \A n \in 1..Len(b) : b[n].closed \/ b[n].status \in {"leased", "running"}
      BY <1>1, <2>6, AmendedTrail DEF TaskOK
    <3>2. q.max = Budget(t) + Cardinality(Interrupted(b))
      <4>1. Budget(t) \in Nat
        BY DEF Budget, DurableTasksAssumption
      <4>2. r.max = Budget(t) + Cardinality(Interrupted(a))
        BY <1>1 DEF TaskOK
      <4>3. QED
        BY <2>2, <2>8, <4>1, <4>2
    <3>3. t \notin Scheduled
      BY <1>4 DEF Requeues
    <3>4. Len(b) < q.max
      BY <1>1, <2>2, <2>6 DEF Amended
    <3>5. QED
      BY <2>2, <3>1, <3>2, <3>3, <3>4 DEF TaskOK
  <2>10. RunOK(w, t, q, b, p, seen[w][t])
    BY <1>3, <2>2, Waiting DEF DurableTasksAssumption
  <2>11. \A v \in Workers : v # w => RunOK(v, t, q, b, pc[v][t], seen[v][t])
    BY <1>4, <2>2, Bystander DEF TimelyInv
  <2>12. QED
    BY <1>1, <1>2, <2>3, <2>6, <2>9, <2>10, <2>11, OneRun
<1>5. CASE ~(r.status \in Held /\ r.owner = w)
  <2>1. UNCHANGED <<row, attempts>>
    BY <1>5 DEF ReleaseForShutdown
  <2>2. ~(r.lapsed /\ r.owner = w)
    BY <1>1 DEF RunOK, Live
  <2>3. RunOK(w, t, r, a, p, seen[w][t])
    BY <1>3, <1>5, <2>2 DEF RunOK, Working, Unwinding
  <2>4. QED
    BY <1>1, <1>2, <2>1, <2>3, OnlyGoto
<1>6. QED
  BY <1>4, <1>5

LEMMA UnwindKeeps ==
  ASSUME IInv, TimelyInv, DurableTasksAssumption, NEW w \in Workers, NEW t \in Tasks,
         Unwind(w, t)
  PROVE  TimelyInv'
<1>1. pc[w][t] \in Unwinding
  BY DEF Unwind, Awaits
<1>2. PICK p \in Unwinding \cup {"done"} : Goto(w, t, p)
  BY <1>1 DEF Unwind, Unwinding
<1>3. QED
  BY <1>1, <1>2, CancelForWorkerKeeps, ReleaseForShutdownKeeps DEF Unwind

(* The write of a cancellation leaves the owner: whoever works on the task    *)
(* still finds itself there, and finds the task cancelled.                  *)
LEMMA CancelWriteKeeps ==
  ASSUME IInv, TimelyInv, DurableTasksAssumption, NEW w \in Workers, NEW t \in Tasks,
         CancelWrite(w, t)
  PROVE  TimelyInv'
<1> DEFINE r == row[t]
           a == attempts[t]
           q == [status |-> "cancelled", owner |-> r.owner,
                 lapsed |-> FALSE, backoff |-> r.backoff, max |-> r.max]
<1>1. /\ TypeOK /\ r \in Row /\ a \in Seq(Attempt) /\ TaskOK(t, r, a)
      /\ UNCHANGED <<attempts, pc, seen>>
  BY Values DEF IInv, CancelWrite
<1>2. CASE r.status \in {"queued", "leased", "running"}
  <2>1. row' = [row EXCEPT ![t] = q]
    BY <1>2 DEF CancelWrite, Allowed
  <2>2. q.status = "cancelled" /\ q.owner = r.owner /\ q.max = r.max /\ ~q.lapsed
    OBVIOUS
  <2> HIDE DEF q
  <2>3. /\ \A u \in Tasks : u # t => row'[u] = row[u]
        /\ row'[t] = q
    BY <1>1, <2>1 DEF TypeOK
  <2>4. TaskOK(t, q, a)
    BY <1>1, <2>2, CancelledTask
  <2>5. ASSUME NEW v \in Workers
        PROVE  RunOK(v, t, q, a, pc[v][t], seen[v][t])
    <3>1. RunOK(v, t, r, a, pc[v][t], seen[v][t])
      BY DEF TimelyInv
    <3>2. QED
      BY <1>2, <2>2, <3>1 DEF RunOK
  <2>6. QED
    BY <1>1, <2>3, <2>4, <2>5, OnlyRow
<1>3. CASE r.status \notin {"queued", "leased", "running"}
  <2>1. UNCHANGED row
    BY <1>3 DEF CancelWrite, Allowed
  <2>2. QED
    BY <1>1, <2>1 DEF TimelyInv
<1>4. QED
  BY <1>2, <1>3
-----------------------------------------------------------------------------
(* Steps of a process. *)

(* A sweep takes only rows under which no coroutine works.                  *)
LEMMA RecoverKeeps ==
  ASSUME IInv, TimelyInv, DurableTasksAssumption,
         RecoverExpiredLeases, UNCHANGED <<pc, seen>>
  PROVE  TimelyInv'
<1> SUFFICES ASSUME NEW t \in Tasks
             PROVE  /\ TaskOK(t, row'[t], attempts'[t])
                    /\ \A v \in Workers :
                         RunOK(v, t, row'[t], attempts'[t], pc[v][t], seen[v][t])
  BY DEF TimelyInv
<1> DEFINE r == row[t]
           a == attempts[t]
           b == attempts'[t]
           s == IF Exhausted(t) THEN "failed" ELSE "queued"
           q == Unowned(r, s)
<1>1. /\ TypeOK /\ r \in Row /\ a \in Seq(Attempt) /\ TaskOK(t, r, a)
      /\ r.max \in Nat /\ Len(a) \in Nat
      /\ \A v \in Workers : RunOK(v, t, r, a, pc[v][t], seen[v][t])
  BY DEF IInv, TimelyInv, TypeOK, Row
<1>2. CASE r.lapsed
  <2>1. row'[t] = q /\ b = CloseOpen(t, "expired")[t]
    BY <1>2 DEF RecoverExpiredLeases
  <2>2. /\ s \in {"failed", "queued"}
        /\ s = "queued" => Len(a) < r.max
    BY <1>1 DEF Exhausted
  <2>3. q.status = s /\ q.owner = None /\ q.max = r.max /\ ~q.lapsed
    BY DEF Unowned, NoLease
  <2> HIDE DEF q, s
  <2>4. r.status \in Held /\ a # <<>>
    BY <1>2 DEF IInv, LapsedIsHeld, LeaseMatchesAttempt
  <2>5. "expired" \in AttemptStatus
    BY DEF AttemptStatus
  <2>6. \/ b = a /\ Last(a).closed
        \/ Amended(a, b, "expired", TRUE) /\ ~Last(a).closed
    BY <1>1, <2>1, <2>4, <2>5, CloseOpenLatest
  <2>7. TaskOK(t, q, b)
    <3>1. CASE b = a /\ Last(a).closed
      BY <1>1, <2>2, <2>3, <2>4, <3>1 DEF TaskOK
    <3>2. CASE Amended(a, b, "expired", TRUE) /\ ~Last(a).closed
      <4>1. Last(a).status # "interrupted"
        BY <1>1, <2>4, <3>2 DEF TaskOK, Last
      <4>2. Interrupted(b) = Interrupted(a)
        BY <1>1, <3>2, <4>1, AmendKeepsCount
      <4>3. \A n \in 1..Len(b) : b[n].closed \/ b[n].status \in {"leased", "running"}
        BY <1>1, <3>2, AmendedTrail DEF TaskOK
      <4>4. QED
        BY <1>1, <2>2, <2>3, <3>2, <4>2, <4>3 DEF TaskOK, Amended
    <3>3. QED
      BY <2>6, <3>1, <3>2
  <2>8. ASSUME NEW v \in Workers
        PROVE  RunOK(v, t, q, b, pc[v][t], seen[v][t])
    <3>1. RunOK(v, t, r, a, pc[v][t], seen[v][t])
      BY <1>1
    <3>2. pc[v][t] \notin Working \cup {"idle"}
      BY <1>2, <2>4, <3>1 DEF RunOK, Working, Live, Atomic, Cancellable
    <3>3. QED
      BY <2>3, <3>2, Waiting DEF DurableTasksAssumption
  <2>9. QED
    BY <2>1, <2>7, <2>8
<1>3. CASE ~r.lapsed
  BY <1>1, <1>3 DEF RecoverExpiredLeases
<1>4. QED
  BY <1>2, <1>3

(* shutdown() unwinds what waits or executes; nothing else is interrupted.   *)
LEMMA ShutdownKeeps ==
  ASSUME IInv, TimelyInv, DurableTasksAssumption, NEW w \in Workers, Shutdown(w)
  PROVE  TimelyInv'
<1> SUFFICES ASSUME NEW t \in Tasks, NEW v \in Workers
             PROVE  RunOK(v, t, row[t], attempts[t], pc'[v][t], seen[v][t])
  BY DEF TimelyInv, Shutdown
<1>1. TypeOK /\ RunOK(v, t, row[t], attempts[t], pc[v][t], seen[v][t])
  BY DEF IInv, TimelyInv
<1>2. CASE v # w
  BY <1>1, <1>2 DEF TypeOK, Shutdown
<1>3. CASE v = w
  <2>1. pc[v][t] \in Place \ Atomic
    BY <1>1, <1>3 DEF TypeOK, Shutdown, AtAwait
  <2>2. \/ pc'[v][t] \in Unwinding /\ pc[v][t] \in Cancellable
        \/ pc'[v][t] = pc[v][t]
    BY <1>1, <1>3 DEF TypeOK, Shutdown, Unwinding, Cancellable
  <2>3. CASE pc'[v][t] \in Unwinding /\ pc[v][t] \in Cancellable
    BY <1>1, <2>3 DEF RunOK, Working, Unwinding, Live, Cancellable, Atomic
  <2>4. QED
    BY <1>1, <2>2, <2>3
<1>4. QED
  BY <1>2, <1>3

(* A process that is gone leaves its rows to the sweep of the others.        *)
LEMMA ExitKeeps ==
  ASSUME IInv, TimelyInv, NEW w \in Workers, Exit(w)
  PROVE  TimelyInv'
<1> SUFFICES ASSUME NEW t \in Tasks, NEW v \in Workers
             PROVE  RunOK(v, t, row[t], attempts[t], pc'[v][t], seen'[v][t])
  BY DEF TimelyInv, Exit
<1>1. TypeOK /\ RunOK(v, t, row[t], attempts[t], pc[v][t], seen[v][t])
  BY DEF IInv, TimelyInv
<1>2. CASE v # w
  BY <1>1, <1>2 DEF TypeOK, Exit
<1>3. CASE v = w
  <2>1. pc'[v][t] = "none"
    BY <1>1, <1>3 DEF TypeOK, Exit
  <2>2. QED
    BY <2>1, Over
<1>4. QED
  BY <1>2, <1>3
-----------------------------------------------------------------------------
(* The initial states, and every step of the system. *)

LEMMA TimelyInit ==
  ASSUME DurableTasksAssumption, Init
  PROVE  TimelyInv
<1> SUFFICES ASSUME NEW t \in Tasks
             PROVE  /\ TaskOK(t, row[t], attempts[t])
                    /\ \A w \in Workers :
                         RunOK(w, t, row[t], attempts[t], pc[w][t], seen[w][t])
  BY DEF TimelyInv
<1>1. /\ row[t].status = "absent" /\ row[t].owner = None
      /\ row[t].max = Budget(t) /\ ~row[t].lapsed
      /\ attempts[t] = <<>> /\ Len(attempts[t]) = 0
  BY DEF Init
<1>2. \A w \in Workers : pc[w][t] = "none"
  BY DEF Init
<1>3. Interrupted(attempts[t]) = {}
  BY <1>1 DEF Interrupted
<1>4. Budget(t) \in Nat /\ (t \in Scheduled => Budget(t) = 1)
  BY DEF Budget, DurableTasksAssumption
<1>5. TaskOK(t, row[t], attempts[t])
  <2>1. Cardinality(Interrupted(attempts[t])) = 0
    BY <1>3, FS_EmptySet
  <2>2. QED
    BY <1>1, <1>4, <2>1 DEF TaskOK
<1>6. QED
  BY <1>2, <1>5, Over

LEMMA TimelyStep ==
  ASSUME IInv, TimelyInv, DurableTasksAssumption, ~Stalls, [Next]_vars
  PROVE  TimelyInv'
<1>1. CASE UNCHANGED vars
  BY <1>1 DEF vars, TimelyInv
<1>2. ASSUME NEW w \in Workers, Start(w) \/ Maintain(w) \/ Shutdown(w) \/ Exit(w)
      PROVE  TimelyInv'
  BY <1>2, RecoverKeeps, ShutdownKeeps, ExitKeeps DEF Start, Maintain
<1>3. ASSUME NEW w \in Workers, NEW t \in Tasks, Step(w, t)
      PROVE  TimelyInv'
  BY <1>3, QuietStep, ClaimKeeps, MarkRunningKeeps, FinishSucceededKeeps,
     CommitSucceededKeeps, FinishFailedKeeps, FailOrRequeueKeeps, UnwindKeeps,
     CancelWriteKeeps DEF Step
<1>4. ASSUME NEW w \in Workers, NEW t \in Tasks,
             \/ Launch(w, t) \/ Admit(w, t) \/ Withdraw(w, t)
             \/ AdoptPersisted(w, t) \/ Heartbeat(w, t) \/ CancelOwn(w, t)
      PROVE  TimelyInv'
  BY <1>4, LaunchKeeps, ColumnKeeps, QuietStep, CancelOwnKeeps
<1>5. ASSUME NEW w \in Workers, NEW t \in Tasks, CancelRead(w, t)
      PROVE  TimelyInv'
  BY <1>5 DEF CancelRead, TimelyInv
<1>6. ASSUME NEW t \in Tasks, Lapse(t) \/ NextRetryDue(t)
      PROVE  TimelyInv'
  BY <1>6, ColumnKeeps
<1>7. QED
  BY <1>1, <1>2, <1>3, <1>4, <1>5, <1>6 DEF Next
-----------------------------------------------------------------------------
(* With timely workers every coroutine can rely on what its place says.      *)
THEOREM TimelyInductive ==
  ASSUME ~Stalls
  PROVE  Spec => []TimelyInv
<1>1. Init => TimelyInv
  BY DurableTasksAssumption, TimelyInit
<1>2. IInv /\ TimelyInv /\ [Next]_vars => TimelyInv'
  BY DurableTasksAssumption, TimelyStep
<1>3. QED
  BY <1>1, <1>2, Inductive, PTL DEF Spec

(* One task is never executed by two timely workers at a time: both would    *)
(* have to own its row.                                                     *)
THEOREM SingleExecutionHolds ==
  ASSUME ~Stalls
  PROVE  Spec => []SingleExecution
<1>1. TimelyInv => SingleExecution
  <2> SUFFICES ASSUME TimelyInv, NEW t \in Tasks, NEW v \in Workers, NEW w \in Workers,
                      pc[v][t] \in Executing, pc[w][t] \in Executing
               PROVE  v = w
    BY DEF SingleExecution
  <2>1. row[t].owner = v /\ row[t].owner = w
    BY DEF TimelyInv, RunOK, Executing, Working
  <2>2. QED
    BY <2>1
<1>2. QED
  BY <1>1, TimelyInductive, PTL

(* A queued task can always be claimed once more, and what a task may try    *)
(* beyond its budget is exactly what shutdowns have interrupted.            *)
THEOREM RetriesAccounted ==
  ASSUME ~Stalls
  PROVE  Spec => []RetriesBudgeted
<1>1. IInv /\ TimelyInv => RetriesBudgeted
  <2> SUFFICES ASSUME IInv, TimelyInv, NEW t \in Tasks
               PROVE  /\ row[t].status = "queued" => ~Exhausted(t)
                      /\ row[t].max - Budget(t) = Cardinality(Interrupted(attempts[t]))
    BY DEF RetriesBudgeted, QueuedHasBudget, InterruptedRetriesReturned, Interrupted
  <2>1. /\ attempts[t] \in Seq(Attempt) /\ Len(attempts[t]) \in Nat
        /\ row[t].max \in Nat /\ TaskOK(t, row[t], attempts[t])
    BY DEF IInv, TypeOK, TimelyInv, Row
  <2>2. row[t].status = "queued" => ~Exhausted(t)
    BY <2>1 DEF TaskOK, Exhausted
  <2>3. Budget(t) \in Nat /\ Cardinality(Interrupted(attempts[t])) \in Nat
    BY <2>1, CountType, DurableTasksAssumption DEF Budget, DurableTasksAssumption
  <2>4. row[t].max = Budget(t) + Cardinality(Interrupted(attempts[t]))
    BY <2>1 DEF TaskOK
  <2>5. QED
    BY <2>1, <2>2, <2>3, <2>4
<1>2. QED
  BY <1>1, Inductive, TimelyInductive, PTL

(* A run of a schedule that was started is never started again. *)
THEOREM ScheduledOnce ==
  ASSUME ~Stalls
  PROVE  Spec => []ScheduledRunsOnce
<1>1. IInv /\ TimelyInv => ScheduledRunsOnce
  <2> SUFFICES ASSUME IInv, TimelyInv, NEW t \in Scheduled
               PROVE  Len(attempts[t]) <= 1
    BY DEF ScheduledRunsOnce
  <2>1. t \in Tasks
    BY DurableTasksAssumption DEF DurableTasksAssumption
  <2>2. row[t].max = 1 /\ Len(attempts[t]) <= row[t].max
    BY <2>1 DEF IInv, TimelyInv, TaskOK, AttemptBudget
  <2>3. QED
    BY <2>2
<1>2. QED
  BY <1>1, Inductive, TimelyInductive, PTL

(* The trail of attempts agrees with the outcome.  A teammate is left out:   *)
(* one that fails on a message after its success has its attempt rewritten. *)
THEOREM OutcomeRecorded ==
  ASSUME ~Stalls, TeamTasks = {}
  PROVE  Spec => []OutcomeIsRecorded
<1>1. TimelyInv => OutcomeIsRecorded
  BY DEF TimelyInv, TaskOK, OutcomeIsRecorded, Last
<1>2. QED
  BY <1>1, TimelyInductive, PTL

(* Only the holder of the lease moves a task on from a finished attempt. *)
THEOREM CommitsFenced ==
  ASSUME ~Stalls
  PROVE  Spec => FencedCommit
<1>1. IInv /\ TimelyInv /\ [Next]_vars =>
        [\A w \in Workers, t \in Tasks :
           /\ pc[w][t] \in {"commit", "requeue"}
           /\ pc'[w][t] # pc[w][t]
           /\ row'[t].status # row[t].status
           => row[t].owner = w]_vars
  <2> SUFFICES ASSUME IInv, TimelyInv, [Next]_vars, NEW w \in Workers, NEW t \in Tasks,
                      pc[w][t] \in {"commit", "requeue"},
                      row'[t].status # row[t].status
               PROVE  row[t].owner = w
    OBVIOUS
  <2>1. row[t].status # "succeeded"
    BY DurableTasksAssumption, NextPreserves DEF KeepsOutcomes
  <2>2. QED
    BY <2>1 DEF TimelyInv, RunOK, Working
<1>2. QED
  BY <1>1, Inductive, TimelyInductive, PTL DEF Spec, FencedCommit

-----------------------------------------------------------------------------
(* The refinement of TaskLifecycle. *)
USE DEF Held, Finished, Failing

LEMMA LifecycleInit ==
  ASSUME DurableTasksAssumption, Init
  PROVE  Lifecycle!Init
BY DEF Init, Lifecycle!Init, StateOf, RunnerOf, Busy, AtWork, Executing

(* The refinement mapping at one task, before and after a step. *)
LEMMA MappedState ==
  ASSUME NEW t \in Tasks
  PROVE  /\ row[t].status \in Held => StateOf[t] = "taken"
         /\ row[t].status = "queued" => StateOf[t] = "waiting"
         /\ row[t].status \notin Held \cup {"queued"} => StateOf[t] = row[t].status
         /\ row'[t].status \in Held => StateOf'[t] = "taken"
         /\ row'[t].status = "queued" => StateOf'[t] = "waiting"
         /\ row'[t].status \notin Held \cup {"queued"} => StateOf'[t] = row'[t].status
BY DEF StateOf

LEMMA MappedRunner ==
  ASSUME NEW t \in Tasks
  PROVE  /\ Busy(t) = {} \/ row[t].status = "succeeded" => RunnerOf[t] = None
         /\ \A w : Busy(t) = {w} /\ row[t].status # "succeeded" => RunnerOf[t] = w
         /\ Busy(t)' = {} \/ row'[t].status = "succeeded" => RunnerOf'[t] = None
         /\ \A w : Busy(t)' = {w} /\ row'[t].status # "succeeded" => RunnerOf'[t] = w
BY DEF RunnerOf

(* Who is busy with a task that has not succeeded owns its row. *)
LEMMA BusyOwner ==
  ASSUME TimelyInv, NEW t \in Tasks, NEW w \in Busy(t), row[t].status # "succeeded"
  PROVE  /\ Busy(t) = {w} /\ row[t].owner = w
         /\ row[t].status \in Held \cup {"cancelled"}
<1>1. \A v \in Busy(t) : v \in Workers /\ row[t].owner = v
                         /\ row[t].status \in Held \cup {"cancelled"}
  BY DEF TimelyInv, RunOK, Busy, AtWork, Executing, Working
<1>2. QED
  BY <1>1

LEMMA BusyGoto ==
  ASSUME TypeOK, NEW w \in Workers, NEW t \in Tasks, NEW p, Goto(w, t, p)
  PROVE  /\ \A u \in Tasks : u # t => Busy(u)' = Busy(u)
         /\ p \in AtWork => Busy(t)' = Busy(t) \cup {w}
         /\ p \notin AtWork => Busy(t)' = Busy(t) \ {w}
<1>1. \A v \in Workers, u \in Tasks :
        pc'[v][u] = IF v = w /\ u = t THEN p ELSE pc[v][u]
  BY DEF TypeOK, Goto
<1>2. QED
  BY <1>1 DEF Busy

(* Nothing of a task that TaskLifecycle sees has changed. *)
LEMMA SameImage ==
  ASSUME NEW u \in Tasks, row'[u].status = row[u].status, Busy(u)' = Busy(u)
  PROVE  StateOf'[u] = StateOf[u] /\ RunnerOf'[u] = RunnerOf[u]
BY DEF StateOf, RunnerOf

LEMMA SameRunner ==
  ASSUME NEW u \in Tasks, Busy(u)' = Busy(u),
         row[u].status # "succeeded", row'[u].status # "succeeded"
  PROVE  RunnerOf'[u] = RunnerOf[u]
BY DEF RunnerOf

LEMMA Stutter ==
  ASSUME \A u \in Tasks : StateOf'[u] = StateOf[u] /\ RunnerOf'[u] = RunnerOf[u]
  PROVE  UNCHANGED Lifecycle!lifecycle
<1>1. StateOf' = StateOf /\ RunnerOf' = RunnerOf
  BY DEF StateOf, RunnerOf
<1>2. QED
  BY <1>1 DEF Lifecycle!lifecycle

(* The actions of TaskLifecycle as changes of one task. *)
LEMMA OneTaskImage ==
  ASSUME DurableTasksAssumption, NEW t \in Tasks,
         \A u \in Tasks : u # t => StateOf'[u] = StateOf[u] /\ RunnerOf'[u] = RunnerOf[u],
         \/ StateOf'[t] = StateOf[t] /\ RunnerOf'[t] \in {RunnerOf[t], None}
         \/ /\ StateOf[t] = "absent" /\ StateOf'[t] = "waiting"
            /\ RunnerOf'[t] = RunnerOf[t]
         \/ /\ StateOf[t] = "waiting" /\ StateOf'[t] = "taken"
            /\ \A d \in Deps[t] : StateOf[d] = "succeeded"
            /\ RunnerOf'[t] = RunnerOf[t]
         \/ /\ StateOf[t] = "taken" /\ StateOf'[t] = "taken"
            /\ RunnerOf[t] = None /\ RunnerOf'[t] \in Workers
         \/ /\ StateOf[t] = "taken" /\ StateOf'[t] \in {"succeeded", "failed", "waiting"}
            /\ RunnerOf[t] \in Workers /\ RunnerOf'[t] = None
         \/ /\ StateOf[t] = "taken" /\ StateOf'[t] \in {"waiting", "failed"}
            /\ RunnerOf[t] = None /\ RunnerOf'[t] = None
         \/ /\ StateOf[t] \in {"waiting", "taken"} /\ StateOf'[t] = "cancelled"
            /\ RunnerOf'[t] \in {RunnerOf[t], None}
  PROVE  [Lifecycle!Next]_(Lifecycle!lifecycle)
<1>1. /\ StateOf = [u \in Tasks |-> StateOf[u]]
      /\ RunnerOf = [u \in Tasks |-> RunnerOf[u]]
      /\ StateOf' = [StateOf EXCEPT ![t] = StateOf'[t]]
      /\ RunnerOf' = [RunnerOf EXCEPT ![t] = RunnerOf'[t]]
  <2>1. StateOf = [u \in Tasks |-> StateOf[u]] /\ RunnerOf = [u \in Tasks |-> RunnerOf[u]]
    BY DEF StateOf, RunnerOf
  <2>2. StateOf' = [u \in Tasks |-> StateOf'[u]]
    BY DEF StateOf
  <2>3. RunnerOf' = [u \in Tasks |-> RunnerOf'[u]]
    BY DEF RunnerOf
  <2>4. QED
    BY <2>1, <2>2, <2>3
<1>2. CASE StateOf'[t] = StateOf[t] /\ RunnerOf'[t] \in {RunnerOf[t], None}
  <2>1. CASE RunnerOf'[t] = RunnerOf[t]
    BY <1>2, <2>1, Stutter
  <2>2. CASE RunnerOf'[t] = None
    <3>1. StateOf' = StateOf
      BY <1>1, <1>2
    <3>2. RunnerOf' = [u \in Tasks |-> IF u \in {t} THEN None ELSE RunnerOf[u]]
      BY <1>1, <2>2
    <3>3. Lifecycle!Stop({t})
      BY <3>1, <3>2 DEF Lifecycle!Stop
    <3>4. QED
      BY <3>3 DEF Lifecycle!Next
  <2>3. QED
    BY <1>2, <2>1, <2>2
<1>3. CASE /\ StateOf[t] = "absent" /\ StateOf'[t] = "waiting"
           /\ RunnerOf'[t] = RunnerOf[t]
  <2>1. Lifecycle!Submit(t)
    BY <1>1, <1>3 DEF Lifecycle!Submit
  <2>2. QED
    BY <2>1 DEF Lifecycle!Next
<1>4. CASE /\ StateOf[t] = "waiting" /\ StateOf'[t] = "taken"
           /\ \A d \in Deps[t] : StateOf[d] = "succeeded"
           /\ RunnerOf'[t] = RunnerOf[t]
  <2>1. Lifecycle!Take(t)
    BY <1>1, <1>4 DEF Lifecycle!Take
  <2>2. QED
    BY <2>1 DEF Lifecycle!Next
<1>5. CASE /\ StateOf[t] = "taken" /\ StateOf'[t] = "taken"
           /\ RunnerOf[t] = None /\ RunnerOf'[t] \in Workers
  <2>1. Lifecycle!Run(RunnerOf'[t], t)
    BY <1>1, <1>5 DEF Lifecycle!Run
  <2>2. QED
    BY <1>5, <2>1 DEF Lifecycle!Next
<1>6. CASE /\ StateOf[t] = "taken" /\ StateOf'[t] \in {"succeeded", "failed", "waiting"}
           /\ RunnerOf[t] \in Workers /\ RunnerOf'[t] = None
  <2>1. Lifecycle!Decide(RunnerOf[t], t)
    BY <1>1, <1>6 DEF Lifecycle!Decide
  <2>2. QED
    BY <1>6, <2>1 DEF Lifecycle!Next
<1>7. CASE /\ StateOf[t] = "taken" /\ StateOf'[t] \in {"waiting", "failed"}
           /\ RunnerOf[t] = None /\ RunnerOf'[t] = None
  <2> DEFINE new == [u \in {t} |-> StateOf'[t]]
  <2>1. new \in [{t} -> {"waiting", "failed"}]
    BY <1>7
  <2>2. StateOf' = [u \in Tasks |-> IF u \in {t} THEN new[u] ELSE StateOf[u]]
    BY <1>1
  <2>3. RunnerOf' = RunnerOf
    BY <1>1, <1>7
  <2>4. Lifecycle!Reclaim({t})
    BY <1>7, <2>1, <2>2, <2>3 DEF Lifecycle!Reclaim
  <2>5. QED
    BY <2>4 DEF Lifecycle!Next
<1>8. CASE /\ StateOf[t] \in {"waiting", "taken"} /\ StateOf'[t] = "cancelled"
           /\ RunnerOf'[t] \in {RunnerOf[t], None}
  <2>1. Lifecycle!Cancel(t)
    BY <1>1, <1>8 DEF Lifecycle!Cancel
  <2>2. QED
    BY <2>1 DEF Lifecycle!Next
<1>9. QED
  BY <1>2, <1>3, <1>4, <1>5, <1>6, <1>7, <1>8
-----------------------------------------------------------------------------
(* The steps of the queue. *)

(* The row keeps its status; the coroutine goes on, or stops being busy. *)
LEMMA GoingOn ==
  ASSUME DurableTasksAssumption, TypeOK, TimelyInv, NEW w \in Workers, NEW t \in Tasks,
         NEW p, Goto(w, t, p), \A u \in Tasks : row'[u].status = row[u].status,
         p \in AtWork => pc[w][t] \in AtWork \/ row[t].status = "succeeded"
  PROVE  [Lifecycle!Next]_(Lifecycle!lifecycle)
<1>1. \A u \in Tasks : u # t => StateOf'[u] = StateOf[u] /\ RunnerOf'[u] = RunnerOf[u]
  BY BusyGoto, SameImage
<1>2. StateOf'[t] = StateOf[t]
  BY DEF StateOf
<1>3. RunnerOf'[t] \in {RunnerOf[t], None}
  <2>1. CASE row[t].status = "succeeded"
    BY <2>1, MappedRunner
  <2>2. CASE row[t].status # "succeeded" /\ w \in Busy(t)
    <3>1. Busy(t) = {w}
      BY <2>2, BusyOwner
    <3>2. Busy(t)' = {w} \/ Busy(t)' = {}
      BY <3>1, BusyGoto
    <3>3. RunnerOf[t] = w /\ row'[t].status # "succeeded"
      BY <2>2, <3>1, MappedRunner
    <3>4. CASE Busy(t)' = {w}
      BY <3>3, <3>4, MappedRunner
    <3>5. CASE Busy(t)' = {}
      BY <3>5, MappedRunner
    <3>6. QED
      BY <3>2, <3>4, <3>5
  <2>3. CASE row[t].status # "succeeded" /\ w \notin Busy(t)
    <3>1. p \notin AtWork
      BY <2>3 DEF Busy
    <3>2. Busy(t)' = Busy(t)
      <4>1. Busy(t)' = Busy(t) \ {w}
        BY <3>1, BusyGoto
      <4>2. Busy(t) \ {w} = Busy(t)
        BY <2>3
      <4>3. QED
        BY <4>1, <4>2
    <3>3. QED
      BY <3>2, SameImage
  <2>4. QED
    BY <2>1, <2>2, <2>3
<1>4. QED
  BY <1>1, <1>2, <1>3, OneTaskImage

(* The coroutines stay where they are; one row may change. *)
LEMMA OnlyStatus ==
  ASSUME DurableTasksAssumption, TypeOK, NEW t \in Tasks, UNCHANGED pc,
         \A u \in Tasks : u # t => row'[u] = row[u],
         \/ row'[t].status = row[t].status
         \/ row[t].status = "absent" /\ row'[t].status = "queued"
         \/ row[t].status \in {"queued", "leased", "running"} /\ row'[t].status = "cancelled"
  PROVE  [Lifecycle!Next]_(Lifecycle!lifecycle)
<1>1. \A u \in Tasks : Busy(u)' = Busy(u)
  BY DEF Busy
<1>2. \A u \in Tasks : u # t => StateOf'[u] = StateOf[u] /\ RunnerOf'[u] = RunnerOf[u]
  BY <1>1, SameImage
<1>3. CASE row'[t].status = row[t].status
  BY <1>1, <1>2, <1>3, SameImage, Stutter
<1>4. CASE row'[t].status # row[t].status
  <2>1. row[t].status # "succeeded" /\ row'[t].status # "succeeded"
    BY <1>4
  <2>2. RunnerOf'[t] = RunnerOf[t]
    BY <1>1, <2>1, SameRunner
  <2>3. \/ StateOf[t] = "absent" /\ StateOf'[t] = "waiting"
        \/ StateOf[t] \in {"waiting", "taken"} /\ StateOf'[t] = "cancelled"
    BY <1>4, MappedState
  <2>4. QED
    BY <1>2, <2>2, <2>3, OneTaskImage
<1>5. QED
  BY <1>3, <1>4

(* One row goes to another status while w's coroutine for it moves on. *)
LEMMA Deciding ==
  ASSUME DurableTasksAssumption, TypeOK, TimelyInv, NEW w \in Workers, NEW t \in Tasks,
         NEW p, Goto(w, t, p), p \notin AtWork,
         \A u \in Tasks : u # t => row'[u] = row[u],
         \/ row[t].status = "absent" /\ row'[t].status = "queued"
         \/ /\ row[t].status = "queued" /\ row'[t].status \in Held
            /\ \A d \in Deps[t] : row[d].status = "succeeded"
         \/ /\ row[t].status \in Held /\ row[t].owner = w
            /\ row'[t].status \in {"succeeded", "failed", "queued"}
            /\ row'[t].status = "succeeded" => w \in Busy(t)
         \/ row[t].status \in Held \cup {"queued"} /\ row'[t].status = "cancelled"
  PROVE  [Lifecycle!Next]_(Lifecycle!lifecycle)
<1>1. \A u \in Tasks : u # t => StateOf'[u] = StateOf[u] /\ RunnerOf'[u] = RunnerOf[u]
  BY BusyGoto, SameImage
<1>2. Busy(t)' = Busy(t) \ {w} /\ row[t].status # "succeeded"
  BY BusyGoto
<1>3. CASE w \in Busy(t)
  <2>1. Busy(t) = {w} /\ Busy(t)' = {} /\ row[t].status \in Held
    BY <1>2, <1>3, BusyOwner
  <2>2. RunnerOf[t] = w /\ RunnerOf'[t] = None
    BY <1>2, <2>1, MappedRunner
  <2>3. /\ StateOf[t] = "taken"
        /\ StateOf'[t] \in {"succeeded", "failed", "waiting", "cancelled"}
    BY <2>1, MappedState
  <2>4. QED
    BY <1>1, <2>2, <2>3, OneTaskImage
<1>4. CASE w \notin Busy(t)
  <2>1. Busy(t)' = Busy(t)
    BY <1>2, <1>4
  <2>2. row'[t].status # "succeeded"
    BY <1>4
  <2>3. RunnerOf'[t] = RunnerOf[t]
    BY <1>2, <2>1, <2>2, SameRunner
  <2>4. row[t].owner = w /\ row[t].status \in Held => RunnerOf[t] = None
    <3>1. row[t].owner = w => Busy(t) = {}
      BY <1>2, <1>4, BusyOwner
    <3>2. QED
      BY <3>1, MappedRunner
  <2>5. \A d \in Deps[t] : d \in Tasks
    BY DEF DurableTasksAssumption
  <2>6. CASE row[t].status = "absent" /\ row'[t].status = "queued"
    BY <1>1, <2>3, <2>6, MappedState, OneTaskImage
  <2>7. CASE /\ row[t].status = "queued" /\ row'[t].status \in Held
             /\ \A d \in Deps[t] : row[d].status = "succeeded"
    <3>1. StateOf[t] = "waiting" /\ StateOf'[t] = "taken"
      BY <2>7, MappedState
    <3>2. \A d \in Deps[t] : StateOf[d] = "succeeded"
      BY <2>5, <2>7, MappedState
    <3>3. QED
      BY <1>1, <2>3, <3>1, <3>2, OneTaskImage
  <2>8. CASE /\ row[t].status \in Held /\ row[t].owner = w
             /\ row'[t].status \in {"succeeded", "failed", "queued"}
    <3>1. StateOf[t] = "taken" /\ StateOf'[t] \in {"waiting", "failed"}
      BY <2>2, <2>8, MappedState
    <3>2. QED
      BY <1>1, <2>3, <2>4, <2>8, <3>1, OneTaskImage
  <2>9. CASE row[t].status \in Held \cup {"queued"} /\ row'[t].status = "cancelled"
    <3>1. StateOf[t] \in {"waiting", "taken"} /\ StateOf'[t] = "cancelled"
      BY <2>9, MappedState
    <3>2. QED
      BY <1>1, <2>3, <3>1, OneTaskImage
  <2>10. QED
    BY <2>6, <2>7, <2>8, <2>9
<1>5. QED
  BY <1>3, <1>4
-----------------------------------------------------------------------------
LEMMA CoroutineStep ==
  ASSUME DurableTasksAssumption, IInv, TimelyInv, NEW w \in Workers, NEW t \in Tasks,
         Step(w, t) \/ Launch(w, t) \/ AdoptPersisted(w, t) \/ CancelOwn(w, t)
  PROVE  [Lifecycle!Next]_(Lifecycle!lifecycle)
<1> USE DEF AtWork, Executing
<1>1. TypeOK
  BY DEF IInv
<1>2. CASE \/ PollFinished(w, t) \/ AgentReturns(w, t) \/ FinishSucceeded(w, t)
           \/ ReadFailure(w, t) \/ FinishFailed(w, t) \/ RetryDelayOver(w, t)
           \/ IdleEnds(w, t) \/ AdoptPersisted(w, t)
  BY <1>1, <1>2, GoingOn
     DEF PollFinished, AgentReturns, FinishSucceeded, ReadFailure, FinishFailed,
         RetryDelayOver, IdleEnds, AdoptPersisted, Awaits
<1>3. CASE AgentRaises(w, t)
  <2>1. pc[w][t] \in AtWork \/ row[t].status = "succeeded"
    BY <1>3 DEF AgentRaises, Awaits, TimelyInv, RunOK
  <2>2. QED
    BY <1>1, <1>3, <2>1, GoingOn DEF AgentRaises
<1>4. CASE Launch(w, t)
  <2>1. /\ row[t].status = "absent" /\ row'[t].status = "queued"
        /\ \A u \in Tasks : u # t => row'[u] = row[u]
        /\ Goto(w, t, "poll")
    BY <1>1, <1>4 DEF Launch, TypeOK, Row
  <2>2. QED
    BY <1>1, <2>1, Deciding
<1>5. CASE Claim(w, t)
  <2>1. /\ row[t].status = "queued" /\ row'[t].status \in Held
        /\ \A d \in Deps[t] : row[d].status = "succeeded"
        /\ \A u \in Tasks : u # t => row'[u] = row[u]
        /\ Goto(w, t, "claimed")
    BY <1>1, <1>5 DEF Claim, Claimable, DependenciesReady, TypeOK
  <2>2. QED
    BY <1>1, <2>1, Deciding
<1>6. CASE CommitSucceeded(w, t)
  <2>1. pc[w][t] = "commit" /\ w \in Busy(t)
    BY <1>6 DEF CommitSucceeded, Busy
  <2>2. row[t].owner = w /\ row[t].status \in Held \cup {"cancelled"}
    BY <2>1 DEF TimelyInv, RunOK, Working
  <2>3. CASE row[t].status = "running"
    <3>1. /\ row'[t].status = "succeeded"
          /\ \A u \in Tasks : u # t => row'[u] = row[u]
          /\ Goto(w, t, IF t \in TeamTasks THEN "idle" ELSE "done")
      BY <1>1, <1>6, <2>3 DEF CommitSucceeded, Allowed, Unowned, NoLease, TypeOK
    <3>2. QED
      BY <1>1, <2>1, <2>2, <2>3, <3>1, Deciding
  <2>4. CASE row[t].status # "running"
    <3>1. UNCHANGED row /\ Goto(w, t, "raised")
      BY <1>6, <2>2, <2>4 DEF CommitSucceeded, Allowed
    <3>2. QED
      BY <1>1, <2>1, <3>1, GoingOn
  <2>5. QED
    BY <2>3, <2>4
<1>7. CASE FailOrRequeue(w, t)
  <2>1. \/ row[t].owner = w /\ row[t].status \in Held
        \/ row[t].status \in {"cancelled", "succeeded"}
    BY <1>7 DEF FailOrRequeue, TimelyInv, RunOK, Working
  <2>2. \E p \in {"backoff", "done"} : Goto(w, t, p)
    BY <1>7 DEF FailOrRequeue
  <2>3. CASE row[t].owner = w /\ row[t].status \in Held
    <3>1. /\ row'[t].status \in {"failed", "queued"}
          /\ \A u \in Tasks : u # t => row'[u] = row[u]
      BY <1>1, <1>7, <2>3 DEF FailOrRequeue, Allowed, NoLease, TypeOK
    <3>2. QED
      BY <1>1, <2>2, <2>3, <3>1, Deciding
  <2>4. CASE row[t].status \in {"cancelled", "succeeded"}
    <3>1. UNCHANGED row
      BY <1>7, <2>4 DEF FailOrRequeue, Allowed
    <3>2. QED
      BY <1>1, <2>2, <3>1, GoingOn
  <2>5. QED
    BY <2>1, <2>3, <2>4
<1>8. ASSUME NEW p, p \notin AtWork, Goto(w, t, p), CancelForWorker(t, w)
      PROVE  [Lifecycle!Next]_(Lifecycle!lifecycle)
  <2>1. CASE row[t].status = "queued" \/ (row[t].status \in Held /\ row[t].owner = w)
    <3>1. /\ row'[t].status = "cancelled"
          /\ \A u \in Tasks : u # t => row'[u] = row[u]
      BY <1>1, <1>8, <2>1 DEF CancelForWorker, Unowned, NoLease, TypeOK
    <3>2. QED
      BY <1>1, <1>8, <2>1, <3>1, Deciding
  <2>2. CASE ~(row[t].status = "queued" \/ (row[t].status \in Held /\ row[t].owner = w))
    <3>1. UNCHANGED row
      BY <1>8, <2>2 DEF CancelForWorker
    <3>2. QED
      BY <1>1, <1>8, <3>1, GoingOn
  <2>3. QED
    BY <2>1, <2>2
<1>9. CASE CancelOwn(w, t)
  <2>1. \E p \in {"unwind1", "unwind2"} : Goto(w, t, p)
    BY <1>9 DEF CancelOwn
  <2>2. QED
    BY <1>8, <1>9, <2>1 DEF CancelOwn
<1>10. CASE Unwind(w, t)
  <2>1. pc[w][t] \in {"unwind3", "unwind2", "unwind1"}
    BY <1>10 DEF Unwind, Awaits, Unwinding
  <2>2. PICK p \in {"unwind2", "unwind1", "done"} : Goto(w, t, p)
    BY <1>10, <2>1 DEF Unwind
  <2>3. CASE CancelForWorker(t, w)
    BY <1>8, <2>2, <2>3
  <2>4. CASE ReleaseForShutdown(t, w)
    <3>1. CASE row[t].status \in Held /\ row[t].owner = w
      <4>1. /\ row'[t].status = "queued"
            /\ \A u \in Tasks : u # t => row'[u] = row[u]
        BY <1>1, <2>4, <3>1 DEF ReleaseForShutdown, NoLease, TypeOK
      <4>2. QED
        BY <1>1, <2>2, <3>1, <4>1, Deciding
    <3>2. CASE ~(row[t].status \in Held /\ row[t].owner = w)
      <4>1. UNCHANGED row
        BY <2>4, <3>2 DEF ReleaseForShutdown
      <4>2. QED
        BY <1>1, <2>2, <4>1, GoingOn
    <3>3. QED
      BY <3>1, <3>2
  <2>5. QED
    BY <1>10, <2>3, <2>4 DEF Unwind
<1>11. CASE MarkRunning(w, t)
  <2>1. pc[w][t] = "claimed" /\ w \notin Busy(t)
    BY <1>11 DEF MarkRunning, Busy
  <2>2. CASE row[t].status = "leased" /\ row[t].owner = w
    <3>1. /\ row'[t].status = "running"
          /\ \A u \in Tasks : u # t => row'[u] = row[u]
          /\ Goto(w, t, "exec")
      BY <1>1, <1>11, <2>2 DEF MarkRunning, TypeOK, Row
    <3>2. Busy(t) = {}
      BY <2>1, <2>2, BusyOwner
    <3>3. Busy(t)' = {w} /\ \A u \in Tasks : u # t => Busy(u)' = Busy(u)
      BY <1>1, <3>1, <3>2, BusyGoto
    <3>4. RunnerOf[t] = None /\ RunnerOf'[t] = w
      BY <3>1, <3>2, <3>3, MappedRunner
    <3>5. StateOf[t] = "taken" /\ StateOf'[t] = "taken"
      BY <2>2, <3>1, MappedState
    <3>6. \A u \in Tasks : u # t => StateOf'[u] = StateOf[u] /\ RunnerOf'[u] = RunnerOf[u]
      BY <3>1, <3>3, SameImage
    <3>7. QED
      BY <3>4, <3>5, <3>6, OneTaskImage
  <2>3. CASE ~(row[t].status = "leased" /\ row[t].owner = w)
    BY <1>1, <1>11, <2>3, GoingOn DEF MarkRunning
  <2>4. QED
    BY <2>2, <2>3
<1>12. CASE CancelWrite(w, t)
  <2>1. /\ UNCHANGED pc
        /\ \A u \in Tasks : u # t => row'[u] = row[u]
        /\ \/ row'[t].status = row[t].status
           \/ /\ row[t].status \in {"queued", "leased", "running"}
              /\ row'[t].status = "cancelled"
    BY <1>1, <1>12 DEF CancelWrite, Allowed, TypeOK
  <2>2. QED
    BY <1>1, <2>1, OnlyStatus
<1>13. QED
  BY <1>2, <1>3, <1>4, <1>5, <1>6, <1>7, <1>9, <1>10, <1>11, <1>12 DEF Step

(* The steps that move no coroutine: the row of one task, or none. *)
LEMMA RowOnlyStep ==
  ASSUME DurableTasksAssumption, IInv, NEW t \in Tasks,
         \/ \E w \in Workers :
              Admit(w, t) \/ Withdraw(w, t) \/ Heartbeat(w, t) \/ CancelRead(w, t)
         \/ Lapse(t) \/ NextRetryDue(t)
  PROVE  [Lifecycle!Next]_(Lifecycle!lifecycle)
<1>1. TypeOK /\ row[t] \in Row
  BY DEF IInv, TypeOK
<1>2. /\ UNCHANGED pc
      /\ \A u \in Tasks : u # t => row'[u] = row[u]
  BY <1>1 DEF Admit, Withdraw, Heartbeat, CancelRead, Lapse, NextRetryDue, TypeOK
<1>3. CASE \E w \in Workers : Admit(w, t) \/ Withdraw(w, t)
  <2>1. \/ row[t].status = "absent" /\ row'[t].status = "queued"
        \/ row[t].status = "queued" /\ row'[t].status = "cancelled"
    BY <1>1, <1>3 DEF Admit, Withdraw, TypeOK, Row
  <2>2. QED
    BY <1>1, <1>2, <2>1, OnlyStatus
<1>4. CASE \E w \in Workers : Heartbeat(w, t) \/ CancelRead(w, t)
  <2>1. row'[t].status = row[t].status
    BY <1>1, <1>4, SetLapsed DEF Heartbeat, CancelRead, TypeOK
  <2>2. QED
    BY <1>1, <1>2, <2>1, OnlyStatus
<1>5. CASE Lapse(t)
  <2>1. row'[t].status = row[t].status
    BY <1>1, <1>5, SetLapsed DEF Lapse, TypeOK
  <2>2. QED
    BY <1>1, <1>2, <2>1, OnlyStatus
<1>6. CASE NextRetryDue(t)
  <2>1. row'[t].status = row[t].status
    BY <1>1, <1>6, SetBackoff DEF NextRetryDue, TypeOK
  <2>2. QED
    BY <1>1, <1>2, <2>1, OnlyStatus
<1>7. QED
  BY <1>3, <1>4, <1>5, <1>6

(* A sweep reclaims every task whose lease has lapsed: nobody runs it. *)
LEMMA SweepStep ==
  ASSUME DurableTasksAssumption, IInv, TimelyInv, RecoverExpiredLeases, UNCHANGED pc
  PROVE  [Lifecycle!Next]_(Lifecycle!lifecycle)
<1> DEFINE S == {t \in Tasks : row[t].lapsed}
           new == [t \in S |-> StateOf'[t]]
<1>1. \A t \in Tasks : Busy(t)' = Busy(t)
  BY DEF Busy
<1>2. ASSUME NEW t \in S
      PROVE  /\ StateOf[t] = "taken" /\ StateOf'[t] \in {"waiting", "failed"}
             /\ RunnerOf[t] = None /\ RunnerOf'[t] = None
  <2>1. row[t].status \in Held
    BY DEF IInv, LapsedIsHeld
  <2>2. row'[t].status \in {"queued", "failed"}
    BY DEF RecoverExpiredLeases, Unowned, NoLease
  <2>3. Busy(t) = {}
    <3>1. ASSUME NEW w \in Busy(t) PROVE FALSE
      <4>1. row[t].owner = w
        BY <2>1, BusyOwner
      <4>2. pc[w][t] \in Live /\ w \in Workers
        BY DEF Busy, AtWork, Executing, Live, Cancellable, Atomic
      <4>3. QED
        BY <4>1, <4>2 DEF TimelyInv, RunOK
    <3>2. QED
      BY <3>1
  <2>4. QED
    BY <1>1, <2>1, <2>2, <2>3, MappedState, MappedRunner
<1>3. \A t \in Tasks \ S : StateOf'[t] = StateOf[t] /\ RunnerOf'[t] = RunnerOf[t]
  <2>1. \A t \in Tasks \ S : row'[t] = row[t]
    BY DEF RecoverExpiredLeases
  <2>2. QED
    BY <1>1, <2>1, SameImage
<1>4. S \in SUBSET Tasks
  OBVIOUS
<1> HIDE DEF S
<1>5. new \in [S -> {"waiting", "failed"}]
  BY <1>2
<1>6. StateOf' = [t \in Tasks |-> IF t \in S THEN new[t] ELSE StateOf[t]]
  <2>1. StateOf' = [t \in Tasks |-> StateOf'[t]]
    BY DEF StateOf
  <2>2. QED
    BY <1>3, <2>1
<1>7. RunnerOf' = RunnerOf
  <2>1. \A t \in Tasks : RunnerOf'[t] = RunnerOf[t]
    BY <1>2, <1>3
  <2>2. QED
    BY <2>1 DEF RunnerOf
<1>8. Lifecycle!Reclaim(S)
  BY <1>2, <1>5, <1>6, <1>7 DEF Lifecycle!Reclaim
<1>9. QED
  BY <1>4, <1>8 DEF Lifecycle!Next

(* The end of a process, or the cancellation of its coroutines, stops runners. *)
LEMMA StopStep ==
  ASSUME DurableTasksAssumption, IInv, TimelyInv, NEW w \in Workers,
         Shutdown(w) \/ Exit(w)
  PROVE  [Lifecycle!Next]_(Lifecycle!lifecycle)
<1> DEFINE S == {t \in Tasks : RunnerOf'[t] # RunnerOf[t]}
<1>1. TypeOK /\ UNCHANGED row
  BY DEF IInv, Shutdown, Exit
<1>2. StateOf' = StateOf
  BY <1>1 DEF StateOf
<1>3. ASSUME NEW t \in Tasks
      PROVE  Busy(t)' = Busy(t) \/ Busy(t)' = Busy(t) \ {w}
  <2>1. \A v \in Workers : v # w => pc'[v][t] = pc[v][t]
    BY <1>1 DEF Shutdown, Exit, TypeOK
  <2>2. pc'[w][t] \in AtWork => pc[w][t] \in AtWork
    <3>1. CASE Shutdown(w)
      BY <1>1, <3>1 DEF Shutdown, TypeOK, AtWork, Executing, Cancellable
    <3>2. CASE Exit(w)
      BY <1>1, <3>2 DEF Exit, TypeOK, AtWork, Executing
    <3>3. QED
      BY <3>1, <3>2
  <2>3. QED
    BY <2>1, <2>2 DEF Busy
<1>4. ASSUME NEW t \in Tasks
      PROVE  RunnerOf'[t] \in {RunnerOf[t], None}
  <2>1. CASE row[t].status = "succeeded" \/ Busy(t)' = Busy(t)
    BY <1>1, <2>1, SameImage, MappedRunner
  <2>2. CASE row[t].status # "succeeded" /\ Busy(t)' # Busy(t)
    <3>1. w \in Busy(t) /\ Busy(t)' = Busy(t) \ {w}
      BY <1>3, <2>2
    <3>2. Busy(t) = {w}
      BY <2>2, <3>1, BusyOwner
    <3>3. Busy(t)' = {}
      BY <3>1, <3>2
    <3>4. QED
      BY <3>3, MappedRunner
  <2>3. QED
    BY <2>1, <2>2
<1>5. S \in SUBSET Tasks
  OBVIOUS
<1>6. \A t \in Tasks : RunnerOf'[t] = IF t \in S THEN None ELSE RunnerOf[t]
  BY <1>4
<1> HIDE DEF S
<1>7. RunnerOf' = [t \in Tasks |-> IF t \in S THEN None ELSE RunnerOf[t]]
  <2>1. RunnerOf' = [t \in Tasks |-> RunnerOf'[t]]
    BY DEF RunnerOf
  <2>2. QED
    BY <1>6, <2>1
<1>8. Lifecycle!Stop(S)
  BY <1>2, <1>7 DEF Lifecycle!Stop
<1>9. QED
  BY <1>5, <1>8 DEF Lifecycle!Next

LEMMA LifecycleStep ==
  ASSUME DurableTasksAssumption, IInv, TimelyInv, [Next]_vars
  PROVE  [Lifecycle!Next]_(Lifecycle!lifecycle)
<1>1. CASE UNCHANGED vars
  BY <1>1 DEF vars, Lifecycle!lifecycle, StateOf, RunnerOf, Busy
<1>2. ASSUME NEW w \in Workers, Start(w) \/ Maintain(w) \/ Shutdown(w) \/ Exit(w)
      PROVE  [Lifecycle!Next]_(Lifecycle!lifecycle)
  BY <1>2, SweepStep, StopStep DEF Start, Maintain
<1>3. ASSUME NEW w \in Workers, NEW t \in Tasks,
             \/ Step(w, t) \/ Launch(w, t) \/ Admit(w, t) \/ Withdraw(w, t)
             \/ AdoptPersisted(w, t) \/ Heartbeat(w, t)
             \/ CancelOwn(w, t) \/ CancelRead(w, t)
      PROVE  [Lifecycle!Next]_(Lifecycle!lifecycle)
  BY <1>3, CoroutineStep, RowOnlyStep
<1>4. ASSUME NEW t \in Tasks, Lapse(t) \/ NextRetryDue(t)
      PROVE  [Lifecycle!Next]_(Lifecycle!lifecycle)
  BY <1>4, RowOnlyStep
<1>5. QED
  BY <1>1, <1>2, <1>3, <1>4 DEF Next

(* With timely workers every behaviour of the queue, with its leases, its     *)
(* attempts, crashes and late writes, is one that TaskLifecycle allows.      *)
THEOREM LifecycleImplemented ==
  ASSUME ~Stalls
  PROVE  Spec => ImplementsLifecycle
<1>1. Init => Lifecycle!Init
  BY DurableTasksAssumption, LifecycleInit
<1>2. IInv /\ TimelyInv /\ [Next]_vars => [Lifecycle!Next]_(Lifecycle!lifecycle)
  BY DurableTasksAssumption, LifecycleStep
<1>3. QED
  BY <1>1, <1>2, Inductive, TimelyInductive, PTL
     DEF Spec, ImplementsLifecycle, Lifecycle!Spec
=============================================================================
