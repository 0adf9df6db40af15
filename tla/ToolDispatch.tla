---------------------------- MODULE ToolDispatch -----------------------------
(***************************************************************************)
(* What the agent loop does with an answer of the model (agent.py): a cut   *)
(* answer is continued, the calls are split into batches, a batch of reads  *)
(* whose every call is allowed runs at once, the others one by one behind   *)
(* the hooks and the permission check, and the results go back in the order *)
(* of the calls.  Reads ahead are in ModelTurn, rows in RunRecovery.        *)
(***************************************************************************)
EXTENDS Naturals, Sequences, FiniteSets

CONSTANTS
    ToolNames, SafeNames,   \* names a model may call; those that may run at once
    NoSuchTool,             \* names no tool is registered under
    MaxRecoveries,          \* MAX_OUTPUT_TOKENS_RECOVERIES
    MaxUnknown,             \* consecutive unknown calls that end the run
    MaxAnswers, MaxBatch, MaxShifts   \* bounds: answers, calls of one, changes of standing

ASSUME DispatchAssumption ==
    /\ SafeNames \subseteq ToolNames \ NoSuchTool /\ NoSuchTool \subseteq ToolNames
    /\ {MaxRecoveries, MaxUnknown, MaxAnswers, MaxBatch, MaxShifts} \subseteq Nat \ {0}

VARIABLES
    answer,   \* the calls of the answer, by name, and the batches they were split into
    stage,    \* where the loop is: at the model, at a batch, over
    fates,    \* each call: where it is
    passed,   \* each call: the guards it went through before its tool ran
    replies,  \* the results that wait to go back, as positions of calls
    tally,    \* unknown calls in a row, cut answers in a row, escalated or not
    standing    \* hooks installed or not; each name: enabled, and what the check says

dispatchVars == <<answer, stage, fates, passed, replies, tally, standing>>

Effects3 == {"allow", "ask", "deny"}
Positions == 1..Len(answer.calls)

\* partition_tool_calls: neighbouring safe calls share a batch.
IsSafe(name) == name \in SafeNames /\ standing.on[name]

\* Mutant: a call joins the batch in front of it when it is safe itself.
JoinsAny(calls, i) == i > 1 /\ IsSafe(calls[i])

Joins(calls, i) == i > 1 /\ IsSafe(calls[i]) /\ IsSafe(calls[i - 1])
Starts(calls) == {i \in 1..Len(calls) : ~Joins(calls, i)}
BatchAt(i) == {j \in Positions : j >= i /\ \A k \in (i + 1)..j : k \notin answer.starts}
Following(i) == {j \in answer.starts : j > i}

DispatchInit ==
    /\ answer = [calls |-> <<>>, starts |-> {}]
    /\ stage = [pc |-> "ask", at |-> 0, n |-> 0]
    /\ fates = <<>> /\ passed = <<>> /\ replies = <<>>
    /\ tally = [unknown |-> 0, cuts |-> 0, row |-> 0, escalated |-> FALSE]
    /\ \E hooks \in BOOLEAN : standing = [hooks |-> hooks, on |-> [t \in ToolNames |-> TRUE],
                                        says |-> [t \in ToolNames |-> "allow"], n |-> 0]

(***************************************************************************)
(* The answer.  The first cut answer of the run raises the output limit,    *)
(* later ones are continued at most MaxRecoveries times in a row; after     *)
(* that a cut answer is taken as it is.  row: cut answers in a row.         *)
(***************************************************************************)

\* Mutant: every cut answer is continued.
ContinuedAlways(cut) == cut

Continued(cut) == cut /\ (~tally.escalated \/ tally.cuts < MaxRecoveries)
Answered(calls, cut) ==
    /\ stage.pc = "ask" /\ stage.n < MaxAnswers
    /\ tally' = IF Continued(cut)
                THEN IF tally.escalated
                     THEN [tally EXCEPT !.cuts = @ + 1, !.row = @ + 1]
                     ELSE [tally EXCEPT !.escalated = TRUE, !.row = @ + 1]
                ELSE [tally EXCEPT !.cuts = IF cut THEN @ ELSE 0, !.row = 0]
    /\ IF Continued(cut)
       THEN /\ stage' = [stage EXCEPT !.n = @ + 1]
            /\ UNCHANGED <<answer, fates, passed, replies>>
       ELSE /\ stage' = [pc |-> IF calls = <<>> THEN "over" ELSE "batch", at |-> 1, n |-> stage.n + 1]
            /\ answer' = [calls |-> calls, starts |-> Starts(calls)]
            /\ fates' = [i \in 1..Len(calls) |-> "due"]
            /\ passed' = [i \in 1..Len(calls) |-> {}]
            /\ replies' = <<>>
    /\ UNCHANGED standing

(***************************************************************************)
(* A batch at once: only without hooks, and only if every call is allowed   *)
(* before the first starts.                                                 *)
(***************************************************************************)

\* Mutant: hooks do not keep a batch from running in parallel.
CanExecuteIfAllowed(calls) == \A i \in calls : standing.on[answer.calls[i]] /\ standing.says[answer.calls[i]] = "allow"

CanExecuteBatchParallel(calls) ==
    ~standing.hooks /\ \A i \in calls : /\ standing.on[answer.calls[i]]
                                 /\ standing.says[answer.calls[i]] = "allow"
StartBatch ==
    /\ stage.pc = "batch"
    /\ IF Cardinality(BatchAt(stage.at)) > 1 /\ CanExecuteBatchParallel(BatchAt(stage.at))
       THEN /\ fates' = [i \in Positions |-> IF i \in BatchAt(stage.at) THEN "started" ELSE fates[i]]
            /\ passed' = [i \in Positions |-> IF i \in BatchAt(stage.at) THEN {"standing"} ELSE passed[i]]
            /\ stage' = [stage EXCEPT !.pc = "parallel"]
       ELSE /\ stage' = [stage EXCEPT !.pc = "serial"]
            /\ UNCHANGED <<fates, passed>>
    /\ UNCHANGED <<answer, replies, tally, standing>>

Counted(unknown) == [tally EXCEPT !.unknown = IF unknown THEN @ + 1 ELSE 0]

DirectStarts(i) ==
    /\ stage.pc = "parallel" /\ fates[i] = "started"
    /\ fates' = [fates EXCEPT ![i] = IF standing.on[answer.calls[i]] THEN "running" ELSE "disabled"]
    /\ UNCHANGED <<answer, stage, passed, replies, tally, standing>>
ToolEnds(i) ==
    /\ fates[i] = "running"
    /\ fates' = [fates EXCEPT ![i] = "done"]
    /\ UNCHANGED <<answer, stage, passed, replies, tally, standing>>

\* gather has returned: the results are read in the order of the calls.
BatchOver ==
    /\ stage.pc = "parallel"
    /\ \A i \in BatchAt(stage.at) : fates[i] \in {"done", "disabled"}
    /\ replies' = replies \o [k \in 1..Cardinality(BatchAt(stage.at)) |-> stage.at + k - 1]
    /\ tally' = Counted(FALSE)
    /\ stage' = [stage EXCEPT !.pc = "batch", !.at = @ + Cardinality(BatchAt(stage.at))]
    /\ UNCHANGED <<answer, fates, passed, standing>>

(***************************************************************************)
(* One by one: hooks, lookup, permission, tool, hooks.  A rejected call     *)
(* leaves the count of unknown calls alone.                                 *)
(***************************************************************************)
Serial(i) == stage.pc = "serial" /\ stage.at = i
BeforeHooks(i, rejects) ==
    /\ standing.hooks /\ Serial(i) /\ fates[i] = "due" /\ passed[i] = {}
    /\ IF rejects THEN fates' = [fates EXCEPT ![i] = "rejected"] /\ UNCHANGED passed
                  ELSE passed' = [passed EXCEPT ![i] = {"hooks"}] /\ UNCHANGED fates
    /\ UNCHANGED <<answer, stage, replies, tally, standing>>
LookUp(i) ==
    LET t == answer.calls[i] IN
    /\ Serial(i) /\ fates[i] = "due" /\ (standing.hooks => "hooks" \in passed[i])
    /\ fates' = [fates EXCEPT ![i] =
            IF t \in NoSuchTool THEN "unknown" ELSE IF ~standing.on[t] THEN "disabled"
            ELSE CASE standing.says[t] = "allow" -> "running" [] standing.says[t] = "ask" -> "asked"
                   [] standing.says[t] = "deny" -> "denied"]
    /\ passed' = IF t \notin NoSuchTool /\ standing.on[t] /\ standing.says[t] = "allow"
                 THEN [passed EXCEPT ![i] = @ \cup {"standing"}] ELSE passed
    /\ UNCHANGED <<answer, stage, replies, tally, standing>>
UserAnswers(i, allows) ==
    /\ Serial(i) /\ fates[i] = "asked"
    /\ fates' = [fates EXCEPT ![i] = IF allows THEN "running" ELSE "denied"]
    /\ passed' = IF allows THEN [passed EXCEPT ![i] = @ \cup {"user"}] ELSE passed
    /\ UNCHANGED <<answer, stage, replies, tally, standing>>
\* permission_timeout or the token: the run ends with the calls unanswered.
WaitBreaks(i) ==
    /\ fates[i] \in {"asked", "running"}
    /\ stage' = [stage EXCEPT !.pc = "failed"]
    /\ fates' = [j \in Positions |-> IF fates[j] \in {"started", "running"} THEN "stopped" ELSE fates[j]]
    /\ UNCHANGED <<answer, passed, replies, tally, standing>>
CallOver(i) ==
    /\ Serial(i) /\ fates[i] \in {"done", "rejected", "unknown", "disabled", "denied"}
    /\ replies' = Append(replies, i)
    /\ tally' = IF fates[i] = "rejected" THEN tally ELSE Counted(fates[i] = "unknown")
    /\ stage' = [stage EXCEPT !.at = @ + 1,
                              !.pc = IF i = Len(answer.calls) \/ (i + 1) \in answer.starts
                                     THEN "batch" ELSE "serial"]
    /\ UNCHANGED <<answer, fates, passed, standing>>

\* All batches are done: too many unknown calls end the run without the
\* results, the plan's exit ends it with them, otherwise the model is asked.
AnswerOver(exitPlan) ==
    /\ stage.pc = "batch" /\ stage.at > Len(answer.calls)
    /\ stage' = [stage EXCEPT !.pc = IF tally.unknown >= MaxUnknown THEN "failed"
                                     ELSE IF exitPlan THEN "over" ELSE "ask"]
    /\ UNCHANGED <<answer, fates, passed, replies, tally, standing>>

\* A mode, a rule or the set of enabled tools changes.
PolicyShifts ==
    /\ standing.n < MaxShifts
    /\ \/ \E t \in ToolNames, e \in Effects3 :
             standing' = [standing EXCEPT !.says[t] = e, !.n = @ + 1]
       \/ \E t \in ToolNames : standing' = [standing EXCEPT !.on[t] = ~@, !.n = @ + 1]
    /\ UNCHANGED <<answer, stage, fates, passed, replies, tally>>

CallMoves(i) == \/ DirectStarts(i) \/ ToolEnds(i) \/ LookUp(i) \/ WaitBreaks(i) \/ CallOver(i)
                \/ \E b \in BOOLEAN : BeforeHooks(i, b) \/ UserAnswers(i, b)
LoopMoves == \/ StartBatch /\ stage.at <= Len(answer.calls)
             \/ BatchOver
             \/ \E b \in BOOLEAN : AnswerOver(b)
Dispatches == LoopMoves \/ \E i \in Positions : CallMoves(i)
Answers == \E k \in 0..MaxBatch : \E calls \in [1..k -> ToolNames], cut \in BOOLEAN : Answered(calls, cut)

DispatchNext == Dispatches \/ Answers \/ PolicyShifts
DispatchSpec == DispatchInit /\ [][DispatchNext]_dispatchVars /\ WF_dispatchVars(Dispatches)

-----------------------------------------------------------------------------
DispatchTypeOK ==
    /\ answer.starts \subseteq Positions
    /\ stage.pc \in {"ask", "batch", "parallel", "serial", "over", "failed"}
    /\ DOMAIN fates = Positions /\ DOMAIN passed = Positions
    /\ \A i \in Positions : passed[i] \subseteq {"hooks", "standing", "user"}
    /\ tally.cuts \in 0..MaxRecoveries /\ tally.escalated \in BOOLEAN
    /\ standing.on \in [ToolNames -> BOOLEAN] /\ standing.says \in [ToolNames -> Effects3]

\* Tools only overlap if all of them may run at once, and the results a model is
\* asked with answer its calls one for one, in their order.
AnswersInOrder ==
    /\ \A i, j \in Positions : i # j /\ fates[i] = "running" /\ fates[j] = "running" =>
           {answer.calls[i], answer.calls[j]} \subseteq SafeNames
    /\ stage.pc = "ask" => replies = [i \in Positions |-> i]
    /\ \A k \in 1..Len(replies) : replies[k] = k

\* No call reaches its tool around a guard: it went through the hooks if there
\* are any, and was allowed by the check or by the user.
NoGuardBypassed ==
    \A i \in Positions : fates[i] \in {"running", "done", "stopped"} =>
        /\ standing.hooks => "hooks" \in passed[i]
        /\ passed[i] \cap {"standing", "user"} # {}

\* A run of unknown calls or of cut answers comes to an end: the model is not
\* asked again after MaxUnknown of them, nor to go on after the escalation and
\* MaxRecoveries continuations.
NoEndlessRepair ==
    /\ stage.pc = "ask" => tally.unknown < MaxUnknown
    /\ tally.row <= 1 + MaxRecoveries

\* The calls of an answer are over at last: every wait of theirs has a deadline.
DispatchEnds == []<>(stage.pc \in {"ask", "over", "failed"})
=============================================================================
