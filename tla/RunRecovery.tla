---------------------------- MODULE RunRecovery ----------------------------
(***************************************************************************)
(* The start of a process (recovery.py: RecoveryService, called by          *)
(* SessionManager.__init__ before an agent exists): the runs that the        *)
(* database holds as unfinished are taken for leftovers of a dead process    *)
(* and reconciled, in many transactions, between which the process can die. *)
(*                                                                         *)
(* With Shared, a process may start while another one is running.           *)
(***************************************************************************)
EXTENDS AgentRuns

CONSTANTS
  Shared,     \* may several processes be up in one work directory
  MaxStarts   \* bound: starts of processes

ASSUME RecoveryAssumption ==
  /\ Shared \in BOOLEAN
  /\ MaxStarts \in Nat

VARIABLES
  up,      \* up[h]: "down", "scanning" or "up"
  scan,    \* scan[h]: how far the scan of h has come
  advice,  \* advice[r][t]: what the last scan says of the call r:t
  starts   \* number of starts so far

hostVars == <<up, scan, advice, starts>>
vars == <<agentVars, hostVars>>
-----------------------------------------------------------------------------
NoScan == [stage |-> "pick", todo |-> {}, run |-> None, open |-> {},
           seen |-> [t \in Tools |-> "absent"], missing |-> {}]

Scan == [stage : {"pick", "calls", "repair", "steps"},
         todo : SUBSET Runs, run : Runs \cup {None}, open : SUBSET (1 .. MaxSteps),
         seen : [Tools -> DOMAIN TOOL_CALL_TRANSITIONS \cup {"absent"}],
         missing : SUBSET Tools]

TypeOK ==
  /\ AgentTypeOK
  /\ up \in [Hosts -> {"down", "scanning", "up"}]
  /\ scan \in [Hosts -> Scan]
  /\ advice \in [Runs -> [Tools -> {"none", "retry", "reuse_result", "confirm"}]]
  /\ starts \in 0 .. MaxStarts

Init ==
  /\ AgentInit
  /\ up = [h \in Hosts |-> "down"]
  /\ scan = [h \in Hosts |-> NoScan]
  /\ advice = [r \in Runs |-> [t \in Tools |-> "none"]]
  /\ starts = 0

Scanning(h, stage) == up[h] = "scanning" /\ scan[h].stage = stage
-----------------------------------------------------------------------------
(* Mutant: runs that wait for a permission are not asked for.               *)
LeftoversNotBlocked == {r \in Runs : run[r] \in {"pending", "running"}}

(* list_unfinished_runs asks for pending, running and blocked runs.         *)
Leftovers == Unfinished

Start(h) ==
  /\ up[h] = "down"
  /\ Shared \/ \A g \in Hosts : up[g] = "down"
  /\ starts < MaxStarts
  /\ starts' = starts + 1
  /\ up' = [up EXCEPT ![h] = "scanning"]
  /\ scan' = [scan EXCEPT ![h] = [NoScan EXCEPT !.todo = Leftovers]]
  /\ UNCHANGED <<agentVars, advice>>

(* list_steps and list_tool_calls of the next run. *)
ScanRun(h) ==
  /\ Scanning(h, "pick")
  /\ \E r \in scan[h].todo :
       scan' = [scan EXCEPT ![h] =
                  [stage |-> "calls", todo |-> scan[h].todo \ {r}, run |-> r,
                   open |-> {i \in DOMAIN steps[r] : steps[r][i] \in Open},
                   seen |-> [t \in Tools |->
                               IF calls[r][t] \in {"pending", "running", "uncertain"}
                               THEN calls[r][t] ELSE "absent"],
                   missing |-> {}]]
  /\ UNCHANGED <<agentVars, up, advice, starts>>

ScanDone(h) ==
  /\ Scanning(h, "pick")
  /\ scan[h].todo = {}
  /\ up' = [up EXCEPT ![h] = "up"]
  /\ scan' = [scan EXCEPT ![h] = NoScan]
  /\ UNCHANGED <<agentVars, advice, starts>>

(* A refused transition is an exception here, which ends the process: the    *)
(* steps below ask for a legal one, and leave only Crash if there is none.   *)

(* Mutant: a command that was running is taken to be safe to run again.     *)
VerdictsRetryCommands(t, seen) ==
  CASE seen = "uncertain"    -> {<<"uncertain", "confirm">>}
    [] seen = "pending"      -> {<<"pending", "retry">>}
    [] Class[t] = "write"    -> {<<"completed", "reuse_result">>, <<"uncertain", "confirm">>}
    [] OTHER                 -> {<<"uncertain", "retry">>}

(* What _reconcile_tool makes of a call, as <<status, advice>>.  A written  *)
(* file may show what the call was to write, whoever wrote it.               *)
Verdicts(t, seen) ==
  CASE seen = "uncertain"    -> {<<"uncertain", "confirm">>}
    [] seen = "pending"      -> {<<"pending", "retry">>}
    [] Class[t] = "read"     -> {<<"uncertain", "retry">>}
    [] Class[t] = "write"    -> {<<"completed", "reuse_result">>, <<"uncertain", "confirm">>}
    [] Class[t] = "external" -> {<<"uncertain", "confirm">>}

ReconcileTool(h, t) ==
  LET r == scan[h].run
      seen == scan[h].seen[t]
  IN  /\ Scanning(h, "calls")
      /\ seen # "absent"
      /\ \E v \in Verdicts(t, seen) :
           /\ v[1] = seen \/ Legal(TOOL_CALL_TRANSITIONS, calls[r][t], v[1])
           /\ calls' = IF v[1] = seen THEN calls ELSE [calls EXCEPT ![r][t] = v[1]]
           /\ advice' = [advice EXCEPT ![r][t] = v[2]]
      /\ scan' = [scan EXCEPT ![h].seen[t] = "absent"]
      /\ UNCHANGED <<run, steps, lines, acted, agent, dropped, up, starts>>

(* _validate_transcript: committed results that the transcript lacks.       *)
Missing(r) == {t \in Tools : calls[r][t] = "completed" /\ lines[r][t].results = 0}

ValidateTranscript(h) ==
  /\ Scanning(h, "calls")
  /\ \A t \in Tools : scan[h].seen[t] = "absent"
  /\ scan' = [scan EXCEPT ![h].stage = "repair", ![h].missing = Missing(scan[h].run)]
  /\ UNCHANGED <<agentVars, up, advice, starts>>

(* Mutant: results are appended whether or not the transcript has the use.  *)
RepairsAll(r, missing) == missing

(* _repair_transcript: only for calls that the transcript has a use of.     *)
Repairs(r, missing) == {t \in missing : lines[r][t].uses > 0}

RepairTranscript(h) ==
  /\ Scanning(h, "repair")
  /\ LET r == scan[h].run IN
       lines' = [lines EXCEPT ![r] =
                   [t \in Tools |-> IF t \in Repairs(r, scan[h].missing)
                                    THEN AddResult(@[t]) ELSE @[t]]]
  /\ scan' = [scan EXCEPT ![h].stage = "steps", ![h].missing = {}]
  /\ UNCHANGED <<run, steps, calls, acted, agent, dropped, up, advice, starts>>

InterruptStep(h, i) ==
  LET r == scan[h].run IN
  /\ Scanning(h, "steps")
  /\ i \in scan[h].open
  /\ Legal(STEP_TRANSITIONS, steps[r][i], "interrupted")
  /\ steps' = [steps EXCEPT ![r][i] = "interrupted"]
  /\ scan' = [scan EXCEPT ![h].open = @ \ {i}]
  /\ UNCHANGED <<run, calls, lines, acted, agent, dropped, up, advice, starts>>

InterruptRun(h) ==
  LET r == scan[h].run IN
  /\ Scanning(h, "steps")
  /\ scan[h].open = {}
  /\ Legal(RUN_TRANSITIONS, run[r], "interrupted")
  /\ run' = [run EXCEPT ![r] = "interrupted"]
  /\ dropped' = [g \in Hosts |-> dropped[g] \ {r}]
  /\ scan' = [scan EXCEPT ![h].stage = "pick", ![h].run = None]
  /\ UNCHANGED <<steps, calls, lines, acted, agent, up, advice, starts>>

Recover(h) ==
  \/ ScanRun(h) \/ ScanDone(h) \/ ValidateTranscript(h) \/ RepairTranscript(h)
  \/ InterruptRun(h)
  \/ \E t \in Tools : ReconcileTool(h, t)
  \/ \E i \in 1 .. MaxSteps : InterruptStep(h, i)
-----------------------------------------------------------------------------
(* resolve_uncertain_tool: the user decides about a call. *)
ResolveUncertainTool(h, r, t) ==
  /\ up[h] = "up"
  /\ calls[r][t] = "uncertain"
  /\ \E status \in {"running", "cancelled"} : calls' = [calls EXCEPT ![r][t] = status]
  /\ UNCHANGED <<run, steps, lines, acted, agent, dropped, hostVars>>

(* The process ends, at any point; another start must be possible after it. *)
Crash(h) ==
  /\ up[h] # "down"
  /\ starts < MaxStarts
  /\ up' = [up EXCEPT ![h] = "down"]
  /\ scan' = [scan EXCEPT ![h] = NoScan]
  /\ agent' = [agent EXCEPT ![h] = Idle]
  /\ UNCHANGED <<store, lines, acted, dropped, advice, starts>>

Next ==
  \E h \in Hosts :
    \/ Start(h)
    \/ Recover(h)
    \/ up[h] = "up" /\ AgentNext(h) /\ UNCHANGED hostVars
    \/ \E r \in Runs, t \in Tools : ResolveUncertainTool(h, r, t)
    \/ Crash(h)

Spec == Init /\ [][Next]_vars

(* A process that died is started again; scans and requests go on.  Users   *)
(* need not answer, and need not send anything.                              *)
FairSpec ==
  /\ Spec
  /\ WF_vars(\E h \in Hosts : Start(h))
  /\ \A h \in Hosts : WF_vars(Recover(h))
  /\ \A h \in Hosts : WF_vars(up[h] = "up" /\ Progress(h) /\ UNCHANGED hostVars)
-----------------------------------------------------------------------------
Closed(r) == run[r] \in {"completed", "failed", "interrupted", "cancelled"}

(* Rows and agents agree, through every end of a request and every start:    *)
(* in a live process an unfinished run is the one its agent works on, or one *)
(* that a consumer has dropped; a run is blocked while its agent asks and    *)
(* running while it works; a closed run has no open step, unless it was      *)
(* dropped and resumed in the same process.                                  *)
Attended ==
  (\E h \in Hosts : up[h] = "up") =>
    \A r \in Unfinished : \E h \in Hosts :
      up[h] = "up" /\ (Current(h) = r \/ r \in dropped[h])

StatusFollowsAgent ==
  \A h \in Hosts :
    LET a == agent[h] IN
    /\ a.pc = "ask" => run[a.run] = "blocked"
    /\ a.pc \in {"loop", "step", "stream", "serve", "exec", "report", "turn", "results"}
         => run[a.run] = "running"
    /\ a.step # 0 /\ a.pc \in {"stream", "serve", "exec", "report"}
         => steps[a.run][a.step] = "running"

Dropped(r) == \E h \in Hosts : r \in dropped[h]

NoStepLeftOpen ==
  \A r \in Runs : Closed(r) /\ ~Dropped(r) => \A i \in DOMAIN steps[r] : steps[r][i] \notin Open

RowsFollowAgents == Attended /\ StatusFollowsAgent /\ NoStepLeftOpen

(* What the rows say of tool calls can be relied on after a crash: a call    *)
(* that is pending has not acted, and a run that ended other than by an      *)
(* exception or a drop has no running call but those that a start left to    *)
(* the user, who may allow them to run again.                                *)
WrittenAhead ==
  \A r \in Runs, t \in Tools : calls[r][t] = "pending" => t \notin acted[r]

NoneLeftRunning ==
  \A r \in Runs, t \in Tools :
    \/ run[r] \notin {"completed", "interrupted", "cancelled"} \/ Dropped(r)
    \/ calls[r][t] # "running"
    \/ advice[r][t] = "confirm"
    \/ Class[t] = "read" /\ advice[r][t] = "retry"

CallsAccounted == WrittenAhead /\ NoneLeftRunning

(* The journal of runs, steps and calls agrees with what the agents did.      *)
RunsAccounted == RowsFollowAgents /\ CallsAccounted

(* No agent lets a recorded call act whose result is committed or whose      *)
(* outcome is open, and no start advises to retry a call that has acted,     *)
(* unless it only reads.                                                     *)
NothingActsTwice ==
  [][\A t \in Tools :
       /\ \A h \in Hosts :
            t \in agent'[h].did \ agent[h].did /\ Registered(h, t) /\ Class[t] # "read"
              => calls[Current(h)][t] \notin {"completed", "uncertain"}
       /\ \A r \in Runs :
            advice'[r][t] = "retry" /\ advice[r][t] # "retry" => t \notin acted[r]]_vars

(* The session file: it never has a result without its use, nor two results  *)
(* for one use, however often a start is repeated; and a start that closes a *)
(* run leaves every committed result there whose use was written.            *)
TranscriptRepaired ==
  [][\A r \in Runs, t \in Tools :
       /\ lines'[r][t].results <= lines'[r][t].uses
       /\ run'[r] = "interrupted" /\ run[r] # "interrupted"
          /\ (\E h \in Hosts : up[h] = "scanning")
          /\ calls[r][t] = "completed" /\ lines[r][t].uses > 0
            => lines[r][t].results > 0]_vars

(* An unfinished run is closed, by its agent or by a later start, unless it  *)
(* waits for a permission or its consumer has dropped it.                    *)
RunsSettle ==
  \A r \in Runs :
    r \in Unfinished ~>
      \/ r \notin Unfinished
      \/ \E h \in Hosts : up[h] = "up" /\ (r \in dropped[h] \/ (Current(h) = r /\ At(h, {"ask"})))

(* A start interrupts only runs that no process is working on. *)
OnlyLeftoversInterrupted ==
  [][\A h \in Hosts, r \in Runs :
       up[h] = "scanning" /\ run'[r] = "interrupted" /\ run[r] # "interrupted"
         => \A g \in Hosts : Current(g) # r]_vars
=============================================================================
