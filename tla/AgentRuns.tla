----------------------------- MODULE AgentRuns -----------------------------
(***************************************************************************)
(* One request of an agent (agent.py: Agent.run and Agent._run_loop) and    *)
(* the rows it keeps of it in the control database (run_store.py): a run,   *)
(* its steps (one per model call) and the tool calls of the responses.      *)
(*                                                                         *)
(* Every write to the database is a transaction of its own and best-effort: *)
(* an illegal transition is logged and swallowed (Agent._control_call), the *)
(* agent goes on.  Agent.run is a generator: at a yield it waits for its     *)
(* consumer, which may drop it there; at an await it may be cancelled.       *)
(*                                                                         *)
(* The model, the tools, the user and the hooks are choices.  Transcript     *)
(* writes are those of the terminal UI, which owns the session file.         *)
(***************************************************************************)
EXTENDS Naturals, Sequences, FiniteSets

CONSTANTS
  Hosts,       \* processes that can run the program in the work directory
  Runs,        \* ids of runs, all of one session
  Tools,       \* tool-call ids that a model may use in a run
  Class,       \* Class[t]: "read", "write" or "external"
  Concurrent,  \* calls of tools that are safe to run beside each other
  None,        \* no run
  MaxIterations,  \* max_iterations of the agent, at least 1 here
  MaxSteps     \* bound: steps of a run, over the requests that resume it

ASSUME AgentAssumption ==
  /\ Class \in [Tools -> {"read", "write", "external"}]
  /\ Concurrent \subseteq Tools
  /\ None \notin Runs
  /\ MaxIterations \in Nat \ {0}
  /\ MaxSteps \in Nat /\ MaxSteps >= MaxIterations

VARIABLES
  run,       \* run[r]: status of the row of r in runs
  steps,     \* steps[r]: statuses of its rows in steps, in sequence
  calls,     \* calls[r][t]: status of the row r:t in tool_calls
  lines,     \* lines[r][t]: tool_use and tool_result lines in the transcript
  acted,     \* acted[r]: its recorded calls that have changed something
             \* (a history, nothing in the code reads it)
  agent,     \* agent[h]: what the agent of h holds in memory
  dropped    \* dropped[h]: runs a consumer in h has dropped and no start has
             \* interrupted since (a history, nothing in the code reads it)

store == <<run, steps, calls>>
agentVars == <<run, steps, calls, lines, acted, agent, dropped>>
-----------------------------------------------------------------------------
(* The rows and their transitions. *)
RUN_TRANSITIONS ==
  [pending     |-> {"running", "interrupted", "cancelled"},
   running     |-> {"completed", "failed", "interrupted", "cancelled", "blocked"},
   blocked     |-> {"running", "failed", "interrupted", "cancelled"},
   interrupted |-> {"running", "failed"},
   completed   |-> {}, failed |-> {}, cancelled |-> {}]

STEP_TRANSITIONS == RUN_TRANSITIONS

TOOL_CALL_TRANSITIONS ==
  [pending   |-> {"running", "uncertain", "cancelled", "denied"},
   running   |-> {"completed", "failed", "uncertain", "cancelled", "denied"},
   uncertain |-> {"running", "completed", "failed", "cancelled", "denied"},
   completed |-> {}, failed |-> {}, cancelled |-> {}, denied |-> {}]

Legal(table, from, to) == to = from \/ to \in table[from]

(* A transition whose refusal is swallowed. *)
Attempt(table, from, to) == IF Legal(table, from, to) THEN to ELSE from

Open     == {"pending", "running", "blocked"}
Settled  == {"completed", "failed", "cancelled", "denied"}
Unfinished == {r \in Runs : run[r] \in Open}
-----------------------------------------------------------------------------
(* The agent in memory.  pc names where Agent.run stands. *)
Idle ==
  [pc |-> "idle", run |-> None, iteration |-> 0, step |-> 0, ids |-> {}, todo |-> {},
   batch |-> {}, did |-> {}, mode |-> "free", turn |-> {}, last |-> FALSE,
   end |-> "completed", open |-> {}]

PCs == {"idle", "created", "loop", "step", "stream", "serve", "exec", "ask",
        "report", "turn", "results", "closing"}

Memory ==
  [pc : PCs, run : Runs \cup {None}, iteration : 0 .. MaxIterations,
   step : 0 .. MaxSteps,
   ids : SUBSET Tools, todo : SUBSET Tools, batch : SUBSET Tools,
   did : SUBSET Tools, mode : {"free", "batch", "approved", "refused", "held"},
   turn : SUBSET Tools, last : BOOLEAN,
   end : {"completed", "failed", "cancelled", "interrupted"}, open : SUBSET Tools]

AgentTypeOK ==
  /\ run \in [Runs -> DOMAIN RUN_TRANSITIONS \cup {"absent"}]
  /\ steps \in [Runs -> Seq(DOMAIN STEP_TRANSITIONS)]
  /\ \A r \in Runs : Len(steps[r]) <= MaxSteps
  /\ calls \in [Runs -> [Tools -> DOMAIN TOOL_CALL_TRANSITIONS \cup {"absent"}]]
  /\ lines \in [Runs -> [Tools -> [uses : Nat, results : Nat]]]
  /\ acted \in [Runs -> SUBSET Tools]
  /\ agent \in [Hosts -> Memory]
  /\ dropped \in [Hosts -> SUBSET Runs]

AgentInit ==
  /\ run = [r \in Runs |-> "absent"]
  /\ steps = [r \in Runs |-> <<>>]
  /\ calls = [r \in Runs |-> [t \in Tools |-> "absent"]]
  /\ lines = [r \in Runs |-> [t \in Tools |-> [uses |-> 0, results |-> 0]]]
  /\ acted = [r \in Runs |-> {}]
  /\ agent = [h \in Hosts |-> Idle]
  /\ dropped = [h \in Hosts |-> {}]

Current(h) == agent[h].run
At(h, pcs) == agent[h].pc \in pcs

(* _finish_control_run and _finish_control_step *)
WriteRun(r, status) ==
  run' = [run EXCEPT ![r] = Attempt(RUN_TRANSITIONS, @, status)]

WriteStep(h, status) ==
  steps' = IF agent[h].step = 0 THEN steps
           ELSE [steps EXCEPT ![Current(h)][agent[h].step] =
                   Attempt(STEP_TRANSITIONS, @, status)]

(* _transition_control_tool: a settled call stays as it is, and an uncertain *)
(* one is only ever started again.                                           *)
ControlTool(status, target) ==
  IF status \in Settled \/ (status = "uncertain" /\ target # "running")
  THEN status
  ELSE Attempt(TOOL_CALL_TRANSITIONS, status, target)

WriteCalls(h, ts, target) ==
  calls' = [calls EXCEPT ![Current(h)] =
              [t \in Tools |-> IF t \in ts \cap agent[h].ids
                               THEN ControlTool(@[t], target) ELSE @[t]]]
-----------------------------------------------------------------------------
(* A request begins: create_run, then the transition to running. *)
StartRun(h, r) ==
  /\ At(h, {"idle"})
  /\ run[r] = "absent"
  /\ run' = [run EXCEPT ![r] = "pending"]
  /\ agent' = [agent EXCEPT ![h] = [Idle EXCEPT !.pc = "created", !.run = r]]
  /\ UNCHANGED <<steps, calls, lines, acted, dropped>>

BeginRun(h) ==
  /\ At(h, {"created"})
  /\ WriteRun(Current(h), "running")
  /\ agent' = [agent EXCEPT ![h].pc = "loop"]
  /\ UNCHANGED <<steps, calls, lines, acted, dropped>>

(* resume_run, and the request that follows it, for a run that was           *)
(* interrupted or that a consumer has dropped.  Bounded by MaxSteps.         *)
ResumeRun(h, r) ==
  /\ At(h, {"idle"})
  /\ run[r] \in {"interrupted", "running"}
  /\ Len(steps[r]) + MaxIterations <= MaxSteps
  /\ WriteRun(r, "running")
  /\ agent' = [agent EXCEPT ![h] = [Idle EXCEPT !.pc = "loop", !.run = r]]
  /\ UNCHANGED <<steps, calls, lines, acted, dropped>>

(* The end of the request: what _run_loop leaves is written by run.  Calls  *)
(* are cancelled only when the request is.                                   *)
Ended(h, status, step) ==
  [Idle EXCEPT !.pc = "closing", !.run = Current(h), !.step = step, !.end = status,
     !.open = IF status = "cancelled"
              THEN {t \in Tools : calls[Current(h)][t] \in {"pending", "running"}}
              ELSE {}]

End(h, status) ==
  agent' = [agent EXCEPT ![h] = Ended(h, status, agent[h].step)]

(* Mutant: one iteration more than max_iterations. *)
StartStepOneMore(h) ==
  /\ At(h, {"loop"})
  /\ agent[h].iteration <= MaxIterations
  /\ steps' = [steps EXCEPT ![Current(h)] = Append(@, "pending")]
  /\ agent' = [agent EXCEPT ![h].pc = "step", ![h].iteration = @ + 1,
                 ![h].step = Len(steps'[Current(h)])]
  /\ UNCHANGED <<run, calls, lines, acted, dropped>>

(* The next iteration: create_step, then its transition to running.         *)
StartStep(h) ==
  /\ At(h, {"loop"})
  /\ agent[h].iteration < MaxIterations
  /\ steps' = [steps EXCEPT ![Current(h)] = Append(@, "pending")]
  /\ agent' = [agent EXCEPT ![h].pc = "step", ![h].iteration = @ + 1,
                 ![h].step = Len(steps'[Current(h)])]
  /\ UNCHANGED <<run, calls, lines, acted, dropped>>

BeginStep(h) ==
  /\ At(h, {"step"})
  /\ WriteStep(h, "running")
  /\ agent' = [agent EXCEPT ![h].pc = "stream"]
  /\ UNCHANGED <<run, calls, lines, acted, dropped>>

IterationLimit(h) ==
  /\ At(h, {"loop"})
  /\ agent[h].iteration = MaxIterations
  /\ End(h, "interrupted")
  /\ UNCHANGED <<run, steps, calls, lines, acted, dropped>>
-----------------------------------------------------------------------------
(* The response of the model. *)

(* Calls: each is registered before any is run, once per id of the run.  The *)
(* row of an id is found again when its arguments are the same; when they    *)
(* are not, the insertion is refused and the agent does not learn of the row *)
(* (unless it knows it from an earlier response).                            *)
Respond(h, ts) ==
  LET new == {t \in ts : calls[Current(h)][t] = "absent"} IN
  /\ At(h, {"stream"})
  /\ ts # {}
  /\ calls' = [calls EXCEPT ![Current(h)] =
                 [t \in Tools |-> IF t \in new THEN "pending" ELSE @[t]]]
  /\ \E same \in SUBSET (ts \ (new \cup agent[h].ids)) :
       agent' = [agent EXCEPT ![h].pc = "serve", ![h].todo = ts, ![h].turn = ts,
                   ![h].ids = @ \cup new \cup same]
  /\ UNCHANGED <<run, steps, lines, acted, dropped>>

(* No calls: the request is complete once the consumer has seen it.         *)
ReplyText(h) ==
  /\ At(h, {"stream"})
  /\ WriteStep(h, "completed")
  /\ agent' = [agent EXCEPT ![h].pc = "turn", ![h].turn = {}, ![h].last = TRUE, ![h].step = 0]
  /\ UNCHANGED <<run, calls, lines, acted, dropped>>

(* Stopped by max_tokens: asked again, or, when the recoveries are used up,  *)
(* its calls are run although no step is left to register them under.        *)
Truncate(h, ts) ==
  /\ At(h, {"stream"})
  /\ WriteStep(h, "completed")
  /\ agent' = [agent EXCEPT ![h].pc = IF ts = {} THEN "loop" ELSE "serve",
                 ![h].todo = ts, ![h].turn = ts, ![h].step = 0]
  /\ UNCHANGED <<run, calls, lines, acted, dropped>>

(* The loop guard: the same call too often in a row. *)
LoopGuard(h) ==
  /\ At(h, {"stream"})
  /\ WriteStep(h, "failed")
  /\ agent' = [agent EXCEPT ![h] = Ended(h, "interrupted", 0)]
  /\ UNCHANGED <<run, calls, lines, acted, dropped>>
-----------------------------------------------------------------------------
(* The calls of a response. *)
Registered(h, t) == t \in agent[h].ids

(* Mutant: a stored result is not looked for. *)
NoResult(h, t) == FALSE

(* _control_existing_tool_result *)
HasResult(h, t) == Registered(h, t) /\ calls[Current(h)][t] = "completed"

Withheld(h, t) ==
  Registered(h, t) /\ calls[Current(h)][t] = "uncertain" /\ Class[t] # "read"

Reuse(h, t) ==
  /\ At(h, {"serve"})
  /\ t \in agent[h].todo
  /\ HasResult(h, t)
  /\ agent' = [agent EXCEPT ![h].todo = @ \ {t}]
  /\ UNCHANGED <<run, steps, calls, lines, acted, dropped>>

(* An uncertain call is answered by an error instead of being run; its row  *)
(* is moved to running all the same.                                         *)
Withhold(h, t) ==
  /\ At(h, {"serve"})
  /\ t \in agent[h].todo
  /\ Withheld(h, t)
  /\ WriteCalls(h, {t}, "running")
  /\ agent' = [agent EXCEPT ![h].pc = "report", ![h].todo = @ \ {t}, ![h].batch = {t},
                 ![h].did = {}, ![h].mode = "held"]
  /\ UNCHANGED <<run, steps, lines, acted, dropped>>

(* Mutant: the row is moved to running when the tool has returned. *)
LaunchUnmarked(h, ts) ==
  /\ At(h, {"serve"})
  /\ ts \subseteq agent[h].todo
  /\ Cardinality(ts) = 1 \/ (ts # {} /\ ts \subseteq Concurrent)
  /\ \A t \in ts : ~HasResult(h, t) /\ ~Withheld(h, t)
  /\ agent' = [agent EXCEPT ![h].pc = "exec", ![h].todo = @ \ ts, ![h].batch = ts,
                 ![h].did = {}, ![h].mode = IF Cardinality(ts) = 1 THEN "free" ELSE "batch"]
  /\ UNCHANGED <<run, steps, calls, lines, acted, dropped>>

(* One call, or several safe ones that need no hook and no permission.      *)
Launch(h, ts) ==
  /\ At(h, {"serve"})
  /\ ts \subseteq agent[h].todo
  /\ Cardinality(ts) = 1 \/ (ts # {} /\ ts \subseteq Concurrent)
  /\ \A t \in ts : ~HasResult(h, t) /\ ~Withheld(h, t)
  /\ WriteCalls(h, ts, "running")
  /\ agent' = [agent EXCEPT ![h].pc = "exec", ![h].todo = @ \ ts, ![h].batch = ts,
                 ![h].did = {}, ![h].mode = IF Cardinality(ts) = 1 THEN "free" ELSE "batch"]
  /\ UNCHANGED <<run, steps, lines, acted, dropped>>

(* The permission checker says "ask". *)
Ask(h) ==
  /\ At(h, {"exec"})
  /\ agent[h].mode = "free"
  /\ agent[h].did = {}
  /\ WriteStep(h, "blocked")
  /\ WriteRun(Current(h), "blocked")
  /\ agent' = [agent EXCEPT ![h].pc = "ask"]
  /\ UNCHANGED <<calls, lines, acted, dropped>>

Answer(h, allow) ==
  /\ At(h, {"ask"})
  /\ WriteRun(Current(h), "running")
  /\ WriteStep(h, "running")
  /\ agent' = [agent EXCEPT ![h].pc = IF allow THEN "exec" ELSE "report",
                 ![h].mode = IF allow THEN "approved" ELSE "refused"]
  /\ UNCHANGED <<calls, lines, acted, dropped>>

(* The tool acts.  What an unregistered call does leaves no trace here.     *)
Act(h, t) ==
  /\ At(h, {"exec"})
  /\ t \in agent[h].batch \ agent[h].did
  /\ agent' = [agent EXCEPT ![h].did = @ \cup {t}]
  /\ acted' = IF Registered(h, t) /\ Class[t] # "read"
              THEN [acted EXCEPT ![Current(h)] = @ \cup {t}] ELSE acted
  /\ UNCHANGED <<run, steps, calls, lines, dropped>>

(* Every call of the batch has returned, failed, timed out or was denied.   *)
Return(h) ==
  /\ At(h, {"exec"})
  /\ agent' = [agent EXCEPT ![h].pc = "report"]
  /\ UNCHANGED <<run, steps, calls, lines, acted, dropped>>

Outcomes(h, t) ==
  CASE agent[h].mode = "held"     -> {"failed"}
    [] agent[h].mode = "refused"  -> {"denied"}
    [] t \in agent[h].did         -> {"completed", "failed"}
    [] agent[h].mode \in {"approved", "batch"} -> {"failed"}
    [] OTHER                      -> {"failed", "denied"}

Report(h, t) ==
  /\ At(h, {"report"})
  /\ t \in agent[h].batch
  /\ \E status \in Outcomes(h, t) : WriteCalls(h, {t}, status)
  /\ agent' = [agent EXCEPT ![h] =
                 IF @.batch = {t}
                 THEN [@ EXCEPT !.pc = "serve", !.batch = {}, !.did = {}, !.mode = "free"]
                 ELSE [@ EXCEPT !.batch = agent[h].batch \ {t}]]
  /\ UNCHANGED <<run, steps, lines, acted, dropped>>
-----------------------------------------------------------------------------
(* The end of an iteration: the step is completed before the consumer sees   *)
(* TurnComplete, or LoopComplete after a call of ExitPlanMode.               *)
TurnDone(h) ==
  /\ At(h, {"serve"})
  /\ agent[h].todo = {}
  /\ WriteStep(h, "completed")
  /\ \E last \in BOOLEAN :
       agent' = [agent EXCEPT ![h].pc = "turn", ![h].last = last, ![h].step = 0]
  /\ UNCHANGED <<run, calls, lines, acted, dropped>>

(* Three calls of unknown tools in a row. *)
UnknownTools(h) ==
  /\ At(h, {"serve"})
  /\ agent[h].todo = {}
  /\ WriteStep(h, "failed")
  /\ agent' = [agent EXCEPT ![h] = Ended(h, "interrupted", 0)]
  /\ UNCHANGED <<run, calls, lines, acted, dropped>>

AddUse(line)    == [line EXCEPT !.uses = @ + 1]
AddResult(line) == [line EXCEPT !.results = @ + 1]

(* The consumer appends the messages of the turn to the session file, the   *)
(* assistant message first, and asks for the next event.                     *)
AppendUses(h) ==
  /\ At(h, {"turn"})
  /\ lines' = [lines EXCEPT ![Current(h)] =
                 [t \in Tools |-> IF t \in agent[h].turn THEN AddUse(@[t]) ELSE @[t]]]
  /\ agent' = [agent EXCEPT ![h].pc = "results"]
  /\ UNCHANGED <<run, steps, calls, acted, dropped>>

AppendResults(h) ==
  /\ At(h, {"results"})
  /\ lines' = [lines EXCEPT ![Current(h)] =
                 [t \in Tools |-> IF t \in agent[h].turn THEN AddResult(@[t]) ELSE @[t]]]
  /\ agent' = [agent EXCEPT ![h] =
                 IF @.last THEN Ended(h, "completed", 0)
                 ELSE [@ EXCEPT !.pc = "loop", !.turn = {}]]
  /\ UNCHANGED <<run, steps, calls, acted, dropped>>
-----------------------------------------------------------------------------
(* The other ends of a request. *)

(* An await of the loop itself, with hooks around it: not in a tool. *)
Awaits(h) ==
  \/ At(h, {"loop", "stream", "ask"})
  \/ At(h, {"report"}) /\ agent[h].mode \in {"free", "approved", "refused"}
  \/ At(h, {"turn"}) /\ ~agent[h].last

(* An exception: a hook, a compaction, the model, the wait for a permission, *)
(* or the file of an oversized result.  run does not touch the calls.        *)
Fail(h) ==
  /\ Awaits(h) \/ At(h, {"report"})
  /\ End(h, "failed")
  /\ UNCHANGED <<run, steps, calls, lines, acted, dropped>>

(* CancelledError at an await. *)
Cancel(h) ==
  /\ Awaits(h) \/ At(h, {"exec"})
  /\ End(h, "cancelled")
  /\ UNCHANGED <<run, steps, calls, lines, acted, dropped>>

(* The consumer leaves the generator at a yield, cancelled itself or by a   *)
(* break: GeneratorExit passes all the handlers of run.  So does a cancel    *)
(* that arrives in the error hook of a failed request.                       *)
Drop(h) ==
  /\ \/ At(h, {"loop", "stream", "serve", "ask", "turn"})
     \/ At(h, {"closing"}) /\ agent[h].end = "failed" /\ agent[h].step # 0
  /\ dropped' = [dropped EXCEPT ![h] = @ \cup {Current(h)}]
  /\ agent' = [agent EXCEPT ![h] = Idle]
  /\ UNCHANGED <<run, steps, calls, lines, acted>>

(* _cancel_control_tools *)
CancelCall(h, t) ==
  /\ At(h, {"closing"})
  /\ t \in agent[h].open
  /\ calls' = [calls EXCEPT ![Current(h)][t] = Attempt(TOOL_CALL_TRANSITIONS, @, "cancelled")]
  /\ agent' = [agent EXCEPT ![h].open = @ \ {t}]
  /\ UNCHANGED <<run, steps, lines, acted, dropped>>

(* Mutant: the run is closed without its step. *)
CloseStepForgotten(h) ==
  /\ At(h, {"closing"})
  /\ agent[h].open = {}
  /\ agent[h].step # 0
  /\ agent' = [agent EXCEPT ![h].step = 0]
  /\ UNCHANGED <<run, steps, calls, lines, acted, dropped>>

CloseStep(h) ==
  /\ At(h, {"closing"})
  /\ agent[h].open = {}
  /\ agent[h].step # 0
  /\ WriteStep(h, agent[h].end)
  /\ agent' = [agent EXCEPT ![h].step = 0]
  /\ UNCHANGED <<run, calls, lines, acted, dropped>>

CloseRun(h) ==
  /\ At(h, {"closing"})
  /\ agent[h].open = {}
  /\ agent[h].step = 0
  /\ WriteRun(Current(h), agent[h].end)
  /\ agent' = [agent EXCEPT ![h] = Idle]
  /\ UNCHANGED <<steps, calls, lines, acted, dropped>>
-----------------------------------------------------------------------------
(* What happens without the user.  Model calls and tools have deadlines.    *)
Progress(h) ==
  \/ BeginRun(h) \/ StartStep(h) \/ BeginStep(h) \/ IterationLimit(h)
  \/ \E ts \in SUBSET Tools : Respond(h, ts) \/ Truncate(h, ts) \/ Launch(h, ts)
  \/ ReplyText(h) \/ LoopGuard(h)
  \/ \E t \in Tools : Reuse(h, t) \/ Withhold(h, t) \/ Act(h, t) \/ Report(h, t)
                      \/ CancelCall(h, t)
  \/ Return(h) \/ TurnDone(h) \/ UnknownTools(h) \/ AppendUses(h) \/ AppendResults(h)
  \/ CloseStep(h) \/ CloseRun(h)

AgentNext(h) ==
  \/ Progress(h)
  \/ \E r \in Runs : StartRun(h, r) \/ ResumeRun(h, r)
  \/ Ask(h) \/ \E allow \in BOOLEAN : Answer(h, allow)
  \/ Fail(h) \/ Cancel(h) \/ Drop(h)
=============================================================================
