------------------------------ MODULE SubAgents ------------------------------
(***************************************************************************)
(* The sub-agents of one process: the Agent tool launches them and the      *)
(* in-memory TaskManager runs them beside the lead (tools/agent_tool.py,    *)
(* agents/task_manager.py).  A child shares the cancellation token of the   *)
(* run it was started in.                                                   *)
(***************************************************************************)
EXTENDS Naturals, Sequences, FiniteSets

CONSTANTS
    Agents,     \* the background tasks
    Teamed,     \* those of a team: they wait for mail after their prompt
    Boarded,    \* those dispatched for an item of the shared board
    MaxRuns,    \* bound: runs of the lead
    MaxRounds   \* bound: times a member is woken by mail

ASSUME SubAgentAssumption == /\ Teamed \subseteq Agents /\ Boarded \subseteq Agents
                             /\ {MaxRuns, MaxRounds} \subseteq Nat \ {0}

VARIABLES
    bg,       \* BackgroundTask and its coroutine, by agent
    run,      \* the lead's run: its number, which is its token
    stopped,  \* the tokens that are set
    notes,    \* _notify_queue
    told,     \* how often the lead was notified of a task
    item,     \* the board row an agent was dispatched for
    down      \* shutdown(): no, going on, over

subVars == <<bg, run, stopped, notes, told, item, down>>

-----------------------------------------------------------------------------
SubInit ==
    /\ bg = [a \in Agents |-> [st |-> "unused", pc |-> "none", token |-> 0, asked |-> FALSE,
                               rounds |-> 0, synced |-> FALSE]]
    /\ run = 1 /\ stopped = {}
    /\ notes = <<>>
    /\ told = [a \in Agents |-> 0]
    /\ item = [a \in Boarded |-> "claimed"]
    /\ down = "no"

Active == {a \in Agents : bg[a].pc \in {"created", "running", "idle", "again"}}
InRun(a) == bg[a].pc \in {"running", "again"}

\* A bug: a child looks at the token its lead has now, not at its own run's.
StopsWithLead(a) == bg[a].asked \/ (InRun(a) /\ run \in stopped)

Stops(a) == bg[a].asked \/ (InRun(a) /\ bg[a].token \in stopped)

\* _sync_board_task: the first outcome settles the board row, once.
Synced(row, a, outcome) ==
    IF a \in Boarded /\ ~bg[a].synced
    THEN [row EXCEPT ![a] = IF outcome = "completed" THEN "completed" ELSE "blocked"]
    ELSE row

\* The finally of _run_background.
Finish(a, st) ==
    /\ bg' = [bg EXCEPT ![a].st = st, ![a].pc = "gone", ![a].synced = TRUE]
    /\ notes' = Append(notes, a)

Launch(a) ==
    /\ bg[a].pc = "none" /\ down = "no"
    /\ bg' = [bg EXCEPT ![a].st = "running", ![a].pc = "created", ![a].token = run]
    /\ UNCHANGED <<run, stopped, notes, told, item, down>>

FirstSlice(a) ==
    /\ bg[a].pc = "created" /\ ~bg[a].asked
    /\ bg' = [bg EXCEPT ![a].pc = "running"]
    /\ UNCHANGED <<run, stopped, notes, told, item, down>>

\* A bug: a task that was told to stop may still report its result.
PromptDoneAnyway(a) ==
    /\ bg[a].pc = "running"
    /\ item' = Synced(item, a, "completed")
    /\ Finish(a, "completed")
    /\ UNCHANGED <<run, stopped, told, down>>

PromptDone(a) ==
    /\ bg[a].pc = "running" /\ ~bg[a].asked
    /\ item' = Synced(item, a, "completed")
    /\ IF a \in Teamed
       THEN /\ bg' = [bg EXCEPT ![a].st = "completed", ![a].pc = "idle", ![a].synced = TRUE]
            /\ UNCHANGED notes
       ELSE Finish(a, "completed")
    /\ UNCHANGED <<run, stopped, told, down>>

Mailed(a) ==
    /\ bg[a].pc = "idle" /\ ~bg[a].asked /\ bg[a].rounds < MaxRounds
    /\ bg' = [bg EXCEPT ![a].pc = "again", ![a].rounds = @ + 1]
    /\ UNCHANGED <<run, stopped, notes, told, item, down>>

MailDone(a) ==
    /\ bg[a].pc = "again" /\ ~bg[a].asked
    /\ bg' = [bg EXCEPT ![a].pc = "idle"]
    /\ UNCHANGED <<run, stopped, notes, told, item, down>>

IdleOver(a) ==
    /\ bg[a].pc = "idle" /\ ~bg[a].asked
    /\ Finish(a, bg[a].st)
    /\ UNCHANGED <<run, stopped, told, item, down>>

AgentFails(a) ==
    /\ InRun(a) /\ ~bg[a].asked
    /\ Finish(a, "failed")
    /\ item' = Synced(item, a, "failed")
    /\ UNCHANGED <<run, stopped, told, down>>

\* CancelledError in the coroutine.  Inside a run, run_to_completion also sets
\* the agent's token, which is the token of everything the run started.
AgentCancelled(a) ==
    /\ Stops(a) /\ bg[a].pc \in {"running", "idle", "again"}
    /\ stopped' = IF InRun(a) THEN stopped \cup {bg[a].token} ELSE stopped
    /\ Finish(a, "cancelled")
    /\ item' = Synced(item, a, "cancelled")
    /\ UNCHANGED <<run, told, down>>

\* A task cancelled before its first slice never runs, not even its finally.
NeverStarted(a) ==
    /\ bg[a].pc = "created" /\ bg[a].asked
    /\ bg' = [bg EXCEPT ![a].pc = "dropped"]
    /\ UNCHANGED <<run, stopped, notes, told, item, down>>

CancelTask(a) ==
    /\ bg[a].st = "running" /\ a \in Active
    /\ bg' = [bg EXCEPT ![a].st = "cancelled", ![a].asked = TRUE, ![a].synced = TRUE]
    /\ item' = Synced(item, a, "cancelled")
    /\ UNCHANGED <<run, stopped, notes, told, down>>

\* poll_completed, for the notifications of the lead's next turn.
TimesQueued(a) == Cardinality({i \in DOMAIN notes : notes[i] = a})

Poll ==
    /\ notes # <<>>
    /\ told' = [a \in Agents |-> told[a] + TimesQueued(a)]
    /\ notes' = <<>>
    /\ UNCHANGED <<bg, run, stopped, item, down>>

LeadCancelled ==
    /\ stopped' = stopped \cup {run}
    /\ UNCHANGED <<bg, run, notes, told, item, down>>

LeadRunsAgain ==
    /\ run < MaxRuns
    /\ run' = run + 1
    /\ UNCHANGED <<bg, stopped, notes, told, item, down>>

ShutdownBegins ==
    /\ down = "no"
    /\ down' = "going"
    /\ bg' = [a \in Agents |-> IF a \in Active THEN [bg[a] EXCEPT !.asked = TRUE] ELSE bg[a]]
    /\ UNCHANGED <<run, stopped, notes, told, item>>

\* A bug: nobody looks after a task that never got a first slice.
ShutdownEndsAtOnce ==
    /\ down = "going" /\ Active = {}
    /\ down' = "over"
    /\ UNCHANGED <<bg, item, run, stopped, notes, told>>

ShutdownEnds ==
    /\ down = "going" /\ Active = {}
    /\ down' = "over"
    /\ LET silent == {a \in Agents : bg[a].pc = "dropped" /\ bg[a].st = "running"} IN
       /\ bg' = [a \in Agents |-> IF a \in silent
                                  THEN [bg[a] EXCEPT !.st = "cancelled", !.synced = TRUE]
                                  ELSE bg[a]]
       /\ item' = [a \in Boarded |-> IF a \in silent THEN Synced(item, a, "cancelled")[a]
                                                     ELSE item[a]]
    /\ UNCHANGED <<run, stopped, notes, told>>

AgentMoves(a) == \/ FirstSlice(a) \/ PromptDone(a) \/ MailDone(a) \/ IdleOver(a)
                 \/ AgentFails(a) \/ AgentCancelled(a) \/ NeverStarted(a)

SubNext ==
    \/ \E a \in Agents : Launch(a) \/ AgentMoves(a) \/ Mailed(a) \/ CancelTask(a)
    \/ Poll \/ LeadCancelled \/ LeadRunsAgain \/ ShutdownBegins \/ ShutdownEnds

\* A model's answer and a tool's result come at some time (they have deadlines),
\* a member's waiting ends after sixty seconds, the lead polls every turn.
SubFairness == /\ \A a \in Agents : WF_subVars(AgentMoves(a))
               /\ WF_subVars(Poll) /\ WF_subVars(ShutdownEnds)

SubSpec == SubInit /\ [][SubNext]_subVars /\ SubFairness

-----------------------------------------------------------------------------
SubTypeOK ==
    /\ \A a \in Agents :
         /\ bg[a].st \in {"unused", "running", "completed", "failed", "cancelled"}
         /\ bg[a].pc \in {"none", "created", "running", "idle", "again", "gone", "dropped"}
    /\ stopped \subseteq 1..MaxRuns
    /\ item \in [Boarded -> {"claimed", "blocked", "completed"}]

\* The lead hears of every task whose coroutine ran, once; a board row is held
\* exactly as long as its task has no outcome, and is completed only by a
\* prompt that was.  After shutdown() no task runs and none counts as running.
TasksReported ==
    \A a \in Agents :
        /\ told[a] + TimesQueued(a) = IF bg[a].pc = "gone" THEN 1 ELSE 0
        /\ a \in Boarded => (item[a] = "claimed" <=> bg[a].st \in {"unused", "running"})
        /\ down = "over" => Active = {} /\ bg[a].st # "running"

\* An agent ends cancelled only if it was asked to, or the token of the run it
\* was started in was set; and a set token was the lead's doing, or that of a
\* task of the same run which was asked to stop.
CancelStaysInTheRun ==
    [][\A a \in Agents : bg'[a].st = "cancelled" /\ bg[a].st # "cancelled" =>
         \/ bg'[a].asked
         \/ bg[a].token \in stopped]_subVars

\* A cancelled task is never reported as completed or failed.
CancelledIsFinal ==
    [][\A a \in Agents : bg[a].st = "cancelled" => bg'[a].st = "cancelled"]_subVars

\* shutdown() comes to an end, and the lead hears of every task at last whose
\* coroutine was not cancelled before its first slice.
AgentsEnd ==
    /\ []<>(down # "going")
    /\ \A a \in Agents : []<>(bg[a].pc = "none" \/ told[a] = 1 \/ bg[a].pc = "dropped")
=============================================================================
