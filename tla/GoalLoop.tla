------------------------------ MODULE GoalLoop ------------------------------
(***************************************************************************)
(* One persistent goal: rounds of a worker and an independent verifier      *)
(* (runtime/goal.py) over the rows of orchestrations and                    *)
(* orchestration_nodes (persistence/orchestration_store.py).                *)
(*                                                                         *)
(* A run is one call of GoalRuntime.run with a fresh owner id.  Its only    *)
(* await is the agent of the current phase, so it can be cancelled there    *)
(* and nowhere else; other processes interleave between any two of its      *)
(* transactions.  The evidence files are one variable that workers, users   *)
(* and other processes change at any time.                                  *)
(***************************************************************************)
EXTENDS Naturals, FiniteSets, Functions

CONSTANTS
  MaxRounds,      \* max_rounds
  MaxNoProgress,  \* max_no_progress
  MaxTokens,      \* max_tokens
  MaxCost,        \* bound on the tokens one phase reports
  Contents,       \* contents the evidence files can have
  Required,       \* contents that pass the hard check (contains)
  Runs,           \* owner ids
  None,           \* SQL NULL
  Mortal,         \* runs whose process may crash
  Stalled,        \* runs whose process may be suspended for a whole lease
  Roaming,        \* runs whose process may switch to another session
  Overlapping     \* may a run read the journal while another one is active?

ASSUME GoalAssumption ==
  /\ MaxRounds \in Nat \ {0}
  /\ MaxNoProgress \in Nat \ {0}
  /\ MaxTokens \in Nat \ {0}
  /\ MaxCost \in Nat
  /\ Required \subseteq Contents
  /\ None \notin Runs \cup Contents
  /\ Mortal \subseteq Runs
  /\ Stalled \subseteq Runs
  /\ Roaming \subseteq Runs
  /\ Overlapping \in BOOLEAN

VARIABLES
  inst,     \* the row of the instance
  node,     \* node[p, n]: the journal row of phase p of round n
  verdict,  \* verdict[n]: the assessment in the metadata of verifier n, or None
  used,     \* tokens recorded by finish_node so far (history)
  files,    \* what the evidence files contain
  pc,       \* pc[r]: where the run r is
  my,       \* my[r]: the local variables of r
  moved     \* moved[r]: the process of r has left the session of the goal

vars == <<inst, node, verdict, used, files, pc, my, moved>>
-----------------------------------------------------------------------------
Rounds == 1 .. MaxRounds
Phases == {"worker", "verifier"}
Nodes  == Phases \X Rounds

(* "halt" stands for the blockers that end a goal: missing_evidence,        *)
(* needs_user_input, run_failed and external_wait.                          *)
Blockers == {"none", "goal_not_met_yet", "halt"}

(* met: every check is satisfied. *)
Verdict == [content : Contents, met : BOOLEAN, blocker : Blockers]

Signature(v) == <<v.content, v.met>>
Signatures   == Contents \X BOOLEAN

(* NULL is neither an assessment nor the signature of one. *)
ASSUME NullAssumption == None \notin Verdict \cup Signatures

Instance == [status : {"pending", "running", "blocked", "completed"},
             owner : Runs \cup {None}, epoch : Nat, lapsed : BOOLEAN]

NodeRow == [status : {"absent", "pending", "running", "succeeded", "blocked"},
            spent : Nat]

Local == [token : Nat, count : Nat, number : Rounds, repeats : Nat,
          previous : Signatures \cup {None},
          phase : Phases, verdict : Verdict \cup {None}, cost : Nat]

Landing == {"succeed", "fail", "cancelled"}
Working == {"round", "look", "add", "begin", "work", "judge", "invalidate",
            "record", "complete", "stop"} \cup Landing

TypeOK ==
  /\ inst \in Instance
  /\ node \in [Nodes -> NodeRow]
  /\ verdict \in [Rounds -> Verdict \cup {None}]
  /\ used \in Nat
  /\ files \in Contents
  /\ pc \in [Runs -> Working \cup {"idle", "claim", "done", "dead"}]
  /\ my \in [Runs -> Local]
  /\ moved \in [Runs -> BOOLEAN]

Fresh == [token |-> 0, count |-> 0, number |-> 1, repeats |-> 0, previous |-> None,
          phase |-> "worker", verdict |-> None, cost |-> 0]

Init ==
  /\ inst = [status |-> "pending", owner |-> None, epoch |-> 0, lapsed |-> FALSE]
  /\ node = [pn \in Nodes |->
               [status |-> IF pn[2] = 1 THEN "pending" ELSE "absent", spent |-> 0]]
  /\ verdict = [n \in Rounds |-> None]
  /\ used = 0
  /\ files \in Contents
  /\ pc = [r \in Runs |-> "idle"]
  /\ my = [r \in Runs |-> Fresh]
  /\ moved = [r \in Runs |-> FALSE]
-----------------------------------------------------------------------------
(* The store.                                                               *)

Fence(r) ==
  /\ inst.owner = r
  /\ inst.epoch = my[r].token
  /\ inst.status = "running"
  /\ ~inst.lapsed

Leased == inst.owner # None /\ ~inst.lapsed

HoldRunning ==
  [pn \in Nodes |-> IF node[pn].status = "running"
                    THEN [node[pn] EXCEPT !.status = "blocked"] ELSE node[pn]]

Released(status) == [status |-> status, owner |-> None, epoch |-> inst.epoch, lapsed |-> FALSE]

Opened == {n \in Rounds : node["worker", n].status # "absent"}

Spent == FoldFunction(LAMBDA row, sum : row.spent + sum, 0, node)

Goto(r, place) == pc' = [pc EXCEPT ![r] = place]

(* run returns, raises or dies: its local variables are gone. *)
Leave(r, place) == Goto(r, place) /\ my' = [my EXCEPT ![r] = Fresh]

(* Mutant: the counters are cleared with the rest of the metadata. *)
RetryNodeForgetsUsage(p, n) ==
  /\ inst.status # "completed"
  /\ ~Leased
  /\ node[p, n].status = "blocked"
  /\ node' = [node EXCEPT ![<<p, n>>] = [status |-> "pending", spent |-> 0]]
  /\ verdict' = IF p = "verifier" THEN [verdict EXCEPT ![n] = None] ELSE verdict
  /\ inst' = Released("pending")
  /\ UNCHANGED <<used, files, pc, my, moved>>

(* The user confirms that a held phase may run again; its metadata is       *)
(* cleared but for the usage counters.                                      *)
RetryNode(p, n) ==
  /\ inst.status # "completed"
  /\ ~Leased
  /\ node[p, n].status = "blocked"
  /\ node' = [node EXCEPT ![<<p, n>>].status = "pending"]
  /\ verdict' = IF p = "verifier" THEN [verdict EXCEPT ![n] = None] ELSE verdict
  /\ inst' = Released("pending")
  /\ UNCHANGED <<used, files, pc, my, moved>>
-----------------------------------------------------------------------------
(* A run.                                                                   *)

(* run counts the rounds of the journal before it claims the instance. *)
ReadJournal(r) ==
  /\ pc[r] = "idle"
  /\ Overlapping \/ (~Leased /\ \A s \in Runs : pc[s] # "claim")
  /\ my' = [my EXCEPT ![r].count = Cardinality(Opened)]
  /\ Goto(r, "claim")
  /\ UNCHANGED <<inst, node, verdict, used, files, moved>>

Claim(r) ==
  /\ pc[r] = "claim"
  /\ IF Leased \/ inst.status = "completed"
     THEN Leave(r, "done") /\ UNCHANGED <<inst, node>>
     ELSE /\ node' = HoldRunning
          /\ IF \E pn \in Nodes : node'[pn].status = "blocked"
             THEN inst' = Released("blocked") /\ Leave(r, "done")
             ELSE /\ inst' = [status |-> "running", owner |-> r,
                              epoch |-> inst.epoch + 1, lapsed |-> FALSE]
                  /\ my' = [my EXCEPT ![r].token = inst.epoch + 1]
                  /\ Goto(r, "round")
  /\ UNCHANGED <<verdict, used, files, moved>>

(* Read the journal and decide what the current round needs next; the scope *)
(* is compared at the top of a round only.                                  *)
Look(r) ==
  LET n       == my[r].number
      missing == {p \in Phases : node[p, n].status # "succeeded"}
      next    == IF "worker" \in missing THEN "worker" ELSE "verifier"
  IN  /\ pc[r] \in {"round", "look"}
      /\ \/ /\ pc[r] = "round" /\ moved[r]
            /\ Goto(r, "stop") /\ UNCHANGED my
         \/ /\ ~(pc[r] = "round" /\ moved[r])
            /\ missing # {}
            /\ Goto(r, IF Spent >= MaxTokens THEN "stop"
                       ELSE IF n \notin Opened THEN "add" ELSE "begin")
            /\ my' = [my EXCEPT ![r].phase = next]
         \/ /\ ~(pc[r] = "round" /\ moved[r])
            /\ missing = {}
            /\ Goto(r, "judge")
            /\ my' = [my EXCEPT ![r].verdict = verdict[n]]
      /\ UNCHANGED <<inst, node, verdict, used, files, moved>>

AddNodes(r) ==
  /\ pc[r] = "add"
  /\ IF Fence(r)
     THEN /\ node' = [node EXCEPT ![<<"worker", my[r].number>>].status = "pending",
                                  ![<<"verifier", my[r].number>>].status = "pending"]
          /\ Goto(r, "look")
     ELSE Goto(r, "stop") /\ UNCHANGED node
  /\ UNCHANGED <<inst, verdict, used, files, my, moved>>

BeginNode(r) ==
  LET pn == <<my[r].phase, my[r].number>>
  IN  /\ pc[r] = "begin"
      /\ IF Fence(r) /\ node[pn].status = "pending"
         THEN node' = [node EXCEPT ![pn].status = "running"] /\ Goto(r, "work")
         ELSE Goto(r, "stop") /\ UNCHANGED node
      /\ UNCHANGED <<inst, verdict, used, files, my, moved>>

(* Mutant: the hard check does not overrule the verifier. *)
AssessTrusting(content, met, blocker) ==
  [content |-> content, met |-> met, blocker |-> blocker]

(* _assess: a file without the required text overrules the verifier. *)
Assess(content, met, blocker) ==
  IF content \in Required
  THEN [content |-> content, met |-> met, blocker |-> blocker]
  ELSE [content |-> content, met |-> FALSE,
        blocker |-> IF blocker = "none" THEN "goal_not_met_yet" ELSE blocker]

(* The agent of the phase returns.  It fails when it raises, runs out of    *)
(* time or was refused a permission; a verifier also when its report is not *)
(* valid, not about the files as they are now, or contradicts itself.       *)
AgentEnds(r) ==
  /\ pc[r] = "work"
  /\ \E cost \in 0 .. MaxCost :
       \/ /\ Goto(r, "fail")
          /\ my' = [my EXCEPT ![r].cost = cost]
       \/ /\ my[r].phase = "worker"
          /\ Goto(r, "succeed")
          /\ my' = [my EXCEPT ![r].cost = cost]
       \/ /\ my[r].phase = "verifier"
          /\ Goto(r, "succeed")
          /\ \E met \in BOOLEAN, b \in Blockers :
               LET v == Assess(files, met, b)
               IN  /\ v.blocker = "none" => v.met
                   /\ my' = [my EXCEPT ![r].cost = cost, ![r].verdict = v]
  /\ UNCHANGED <<inst, node, verdict, used, files, moved>>

(* The user cancels, or keepalive has found the lease lost. *)
Cancel(r) ==
  /\ pc[r] = "work"
  /\ Goto(r, "cancelled")
  /\ \E cost \in 0 .. MaxCost : my' = [my EXCEPT ![r].cost = cost]
  /\ UNCHANGED <<inst, node, verdict, used, files, moved>>

(* finish_node, from _phase or from its except clause. *)
FinishNode(r) ==
  LET pn == <<my[r].phase, my[r].number>>
  IN  /\ pc[r] \in Landing
      /\ IF Fence(r) /\ node[pn].status = "running"
         THEN /\ node' = [node EXCEPT ![pn] =
                   [status |-> IF pc[r] = "succeed" THEN "succeeded" ELSE "blocked",
                    spent |-> node[pn].spent + my[r].cost]]
              /\ used' = used + my[r].cost
              /\ verdict' = IF pc[r] = "succeed" /\ my[r].phase = "verifier"
                            THEN [verdict EXCEPT ![my[r].number] = my[r].verdict]
                            ELSE verdict
              /\ Goto(r, IF pc[r] = "succeed" THEN "look" ELSE "stop")
         ELSE Goto(r, "stop") /\ UNCHANGED <<node, used, verdict>>
      /\ my' = [my EXCEPT ![r].cost = 0, ![r].verdict = None]
      /\ UNCHANGED <<inst, files, moved>>

(* Mutant: superseded evidence is checked like that of the last round. *)
JudgeEveryRound(r) ==
  LET v == my[r].verdict
  IN  /\ pc[r] = "judge"
      /\ IF v = None \/ v.content # files
         THEN Goto(r, "invalidate") /\ UNCHANGED my
         ELSE /\ Goto(r, "record")
              /\ my' = [my EXCEPT
                   ![r].repeats = IF my[r].previous = Signature(v) THEN @ + 1 ELSE 0,
                   ![r].previous = Signature(v)]
      /\ UNCHANGED <<inst, node, verdict, used, files, moved>>

(* Mutant: the rounds of an earlier run are not counted again. *)
JudgeForgetsProgress(r) ==
  LET v == my[r].verdict
  IN  /\ pc[r] = "judge"
      /\ IF my[r].number >= my[r].count /\ v.content # files
         THEN Goto(r, "invalidate") /\ UNCHANGED my
         ELSE /\ Goto(r, "record")
              /\ my' = IF my[r].number < my[r].count THEN my ELSE [my EXCEPT
                   ![r].repeats = IF my[r].previous = Signature(v) THEN @ + 1 ELSE 0,
                   ![r].previous = Signature(v)]
      /\ UNCHANGED <<inst, node, verdict, used, files, moved>>

(* _fresh for the last round of the journal and later ones; then the count  *)
(* of rounds without progress, which a resumed run replays from round one.  *)
Judge(r) ==
  LET v == my[r].verdict
  IN  /\ pc[r] = "judge"
      /\ \/ /\ my[r].number >= my[r].count
            /\ v = None \/ v.content # files
            /\ Goto(r, "invalidate")
            /\ UNCHANGED my
         \/ /\ v = None /\ my[r].number < my[r].count
            /\ Goto(r, "stop")
            /\ UNCHANGED my
         \/ /\ v # None
            /\ my[r].number >= my[r].count => v.content = files
            /\ Goto(r, "record")
            /\ my' = [my EXCEPT
                 ![r].repeats = IF my[r].previous = Signature(v) THEN my[r].repeats + 1 ELSE 0,
                 ![r].previous = Signature(v)]
      /\ UNCHANGED <<inst, node, verdict, used, files, moved>>

(* Mutant: a status the journal does not use for goals. *)
InvalidateAsFailed(r) ==
  LET pn == <<"verifier", my[r].number>>
  IN  /\ pc[r] = "invalidate"
      /\ node' = IF Fence(r) /\ node[pn].status = "succeeded"
                 THEN [node EXCEPT ![pn].status = "failed"] ELSE node
      /\ Goto(r, "stop")
      /\ UNCHANGED <<inst, verdict, used, files, my, moved>>

InvalidateNode(r) ==
  LET pn == <<"verifier", my[r].number>>
  IN  /\ pc[r] = "invalidate"
      /\ node' = IF Fence(r) /\ node[pn].status = "succeeded"
                 THEN [node EXCEPT ![pn].status = "blocked"] ELSE node
      /\ Goto(r, "stop")
      /\ UNCHANGED <<inst, verdict, used, files, my, moved>>

(* update_state, and what the assessment asks for. *)
Record(r) ==
  /\ pc[r] = "record"
  /\ \/ ~Fence(r) /\ Goto(r, "stop") /\ UNCHANGED my
     \/ /\ Fence(r)
        /\ my[r].verdict.blocker = "none"
        /\ Goto(r, "complete") /\ UNCHANGED my
     \/ /\ Fence(r)
        /\ my[r].verdict.blocker = "goal_not_met_yet"
        /\ my[r].repeats < MaxNoProgress
        /\ my[r].number < MaxRounds
        /\ Goto(r, "round") /\ my' = [my EXCEPT ![r].number = my[r].number + 1]
     \/ /\ Fence(r)
        /\ my[r].verdict.blocker # "none"
        /\ \/ my[r].verdict.blocker = "halt"
           \/ my[r].repeats >= MaxNoProgress
           \/ my[r].number = MaxRounds
        /\ Goto(r, "stop") /\ UNCHANGED my
  /\ UNCHANGED <<inst, node, verdict, used, files, moved>>

Complete(r) ==
  /\ pc[r] = "complete"
  /\ IF Fence(r) /\ \A pn \in Nodes : node[pn].status \in {"absent", "succeeded"}
     THEN inst' = Released("completed") /\ Leave(r, "done")
     ELSE Goto(r, "stop") /\ UNCHANGED <<inst, my>>
  /\ UNCHANGED <<node, verdict, used, files, moved>>

(* Mutant: the journal is settled, the lease is not given back. *)
StopKeepsLease(r) ==
  /\ pc[r] = "stop"
  /\ node' = IF Fence(r) /\ ~moved[r] THEN HoldRunning ELSE node
  /\ Leave(r, "done")
  /\ UNCHANGED <<inst, verdict, used, files, moved>>

(* _stop; it reads the status of the goal in the scope of the process first, *)
(* which raises when the session was switched.                              *)
Stop(r) ==
  /\ pc[r] = "stop"
  /\ IF Fence(r) /\ ~moved[r]
     THEN node' = HoldRunning /\ inst' = Released("blocked")
     ELSE UNCHANGED <<node, inst>>
  /\ Leave(r, "done")
  /\ UNCHANGED <<verdict, used, files, moved>>
-----------------------------------------------------------------------------
(* The environment.                                                         *)

Edit ==
  /\ \E c \in Contents : files' = c
  /\ UNCHANGED <<inst, node, verdict, used, pc, my, moved>>

SwitchSession(r) ==
  /\ r \in Roaming
  /\ pc[r] = "work"
  /\ moved' = [moved EXCEPT ![r] = TRUE]
  /\ UNCHANGED <<inst, node, verdict, used, files, pc, my>>

Crash(r) ==
  /\ r \in Mortal
  /\ pc[r] \in Working
  /\ Leave(r, "dead")
  /\ UNCHANGED <<inst, node, verdict, used, files, moved>>

(* A lease runs out when nobody renews it: keepalive ends with the run. *)
Lapse ==
  /\ Leased
  /\ inst.owner \in Stalled \/ pc[inst.owner] \in {"dead", "done"}
  /\ inst' = [inst EXCEPT !.lapsed = TRUE]
  /\ UNCHANGED <<node, verdict, used, files, pc, my, moved>>
-----------------------------------------------------------------------------
Step(r) ==
  \/ Look(r) \/ AddNodes(r) \/ BeginNode(r) \/ AgentEnds(r) \/ FinishNode(r)
  \/ Judge(r) \/ InvalidateNode(r) \/ Record(r) \/ Complete(r) \/ Stop(r)

Next ==
  \/ \E r \in Runs :
       \/ Step(r) \/ ReadJournal(r) \/ Claim(r) \/ Cancel(r)
       \/ SwitchSession(r) \/ Crash(r)
  \/ \E p \in Phases, n \in Rounds : RetryNode(p, n)
  \/ Edit
  \/ Lapse

Spec == Init /\ [][Next]_vars
-----------------------------------------------------------------------------
(* Rounds without progress up to round n, by the journal alone. *)
Repeats[n \in Rounds] ==
  IF n > 1 /\ Signature(verdict[n - 1]) = Signature(verdict[n])
  THEN Repeats[n - 1] + 1 ELSE 0

(* A round is opened only when the round before it was verified as not met   *)
(* yet and the goal was not without progress for too long, counted over all  *)
(* runs and restarts; and it stays so: superseded rounds are never reopened. *)
RoundsJustified ==
  \A n \in Rounds : n + 1 \in Opened =>
    /\ \A p \in Phases : node[p, n].status = "succeeded"
    /\ verdict[n].blocker = "goal_not_met_yet"
    /\ Repeats[n] < MaxNoProgress

(* Evidence of a superseded round stands: once a later round was opened, the *)
(* verdict that led to it is not taken back.                                *)
SupersededEvidenceStands ==
  [][\A n \in Rounds :
       n + 1 \in Opened /\ node["verifier", n].status = "succeeded"
       => node'["verifier", n].status = "succeeded"]_vars

(* A verifier is started only behind its worker, whose success stands.      *)
VerifierBehindWorker ==
  \A n \in Rounds : node["verifier", n].status \in {"running", "succeeded", "blocked"} =>
    node["worker", n].status = "succeeded"

(* A goal is reported as completed only on an assessment of the last round   *)
(* that finds every criterion met, of files that pass the hard check; no     *)
(* path from blocked, interrupted or refused phases leads there.            *)
CompletedOnEvidence ==
  inst.status = "completed" =>
    LET v == verdict[Cardinality(Opened)]
    IN  /\ \A n \in Opened, p \in Phases : node[p, n].status = "succeeded"
        /\ v.met /\ v.blocker = "none"
        /\ v.content \in Required

(* Neither a round nor the end of a goal rests on anything but verdicts of    *)
(* the verifier and the hard check.                                           *)
VerdictsSound == RoundsJustified /\ CompletedOnEvidence

(* Confirmed retries, crashes and takeovers do not reset the reported usage: *)
(* at most the phase that was begun within the budget goes beyond it.       *)
UsageWithinBudget == used < MaxTokens + MaxCost

(* A run that ended by any path but a switch of the session has given back   *)
(* its lease or lost it.                                                    *)
ReleasedAtEnd ==
  \A r \in Runs : pc[r] = "done" /\ inst.owner = r => inst.lapsed \/ moved[r]
=============================================================================
