------------------------------ MODULE AgentKinds -----------------------------
(***************************************************************************)
(* The agents the Agent tool builds, with which tools and which permission  *)
(* mode (tools/agent_tool.py, agents/tool_filter.py, agents/fork.py).  A    *)
(* tool stands for the lists of names it is in.  The clone of the tool that *)
(* a fork gets still has the lead for its parent agent.                     *)
(***************************************************************************)
EXTENDS Naturals, Sequences

CONSTANT MaxDepth   \* bound: length of a chain of spawned agents

ASSUME DepthAssumption == MaxDepth \in Nat \ {0}

VARIABLE chain   \* [kind, mode] of the agents spawned one from the other, the lead first

Tooling == {"Agent", "AskUser", "Workflow", "Goal", "Todo", "TaskUpdate", "TaskDispatch",
            "Cron", "SendMessage", "TeamCreate", "Read", "Mcp"}
Foreground == Tooling \ {"Agent", "AskUser", "Workflow", "Goal", "Todo", "TaskUpdate",
                         "TaskDispatch", "Cron"}                    \* ALL_AGENT_DISALLOWED_TOOLS
Custom == Foreground \ {"Agent", "AskUser", "Workflow", "Goal"}     \* CUSTOM_AGENT_DISALLOWED_TOOLS
Background == {"Read"}                                              \* ASYNC_AGENT_ALLOWED_TOOLS
Coordination == {"TaskUpdate", "SendMessage"}                       \* TEAMMATE_COORDINATION_TOOLS

Defined == {"inline", "custom", "background"}     \* execute() with a subagent_type
Kinds == Defined \cup {"lead", "fork", "worktree", "teammate", "recovered", "scheduled"}

ToolsOf(kind) ==
    CASE kind = "lead"       -> Tooling
      [] kind = "fork"       -> Tooling \ {"Todo", "Cron"}           \* clone_registry_for_fork
      [] kind \in {"inline", "worktree"} -> Foreground
      [] kind \in {"background", "recovered", "scheduled"} -> (Foreground \cap Background) \cup {"Mcp"}
      [] kind = "custom"     -> Custom
      [] kind = "teammate"   -> Background \cup {"Mcp"} \cup Coordination

\* What a definition may ask for, from narrow to wide.
Asked == <<"default", "acceptEdits", "bypassPermissions">>
Askable == {Asked[i] : i \in 1..3}
Rank(mode) == CHOOSE i \in 1..3 : Asked[i] = mode
LeadMode == chain[1].mode

\* Mutant: the definition alone decides.
TeammateModeAsAsked(requested) == requested

\* _teammate_permission_mode: the narrower of what is asked and what the lead has.
TeammateMode(requested) ==
    IF LeadMode = "plan" \/ Rank(LeadMode) <= Rank(requested) THEN LeadMode ELSE requested

-----------------------------------------------------------------------------
KindInit == chain = <<[kind |-> "lead", mode |-> "default"]>>

\* action_cycle_mode, before the lead spawns anything.
LeadChangesMode ==
    /\ Len(chain) = 1
    /\ \E mode \in Askable \cup {"plan"} : chain' = <<[kind |-> "lead", mode |-> mode]>>

Spawner == chain[Len(chain)].kind
Spawned(kind, mode) ==
    /\ Len(chain) < MaxDepth
    /\ chain' = Append(chain, [kind |-> kind, mode |-> mode])
CallsAgent == "Agent" \in ToolsOf(Spawner)

\* Mutant: a fork may fork again.
SpawnForkFreely == CallsAgent /\ Spawned("fork", "bypassPermissions")

\* No type: the conversation is forked, with all tools and no permission asked.
SpawnFork == CallsAgent /\ Spawner # "fork" /\ Spawned("fork", "bypassPermissions")
SpawnDefined == CallsAgent /\ \E kind \in Defined, mode \in Askable : Spawned(kind, mode)
SpawnIsolated == CallsAgent /\ \E mode \in Askable : Spawned("worktree", mode)
SpawnTeammate == CallsAgent /\ \E mode \in Askable : Spawned("teammate", TeammateMode(mode))

\* recover_persisted_tasks: the lead adopts queued tasks, those of a schedule
\* only if their definition asks for the default mode.
Recover ==
    /\ Spawner = "lead"
    /\ \/ \E mode \in Askable : Spawned("recovered", mode)
       \/ \E mode \in Askable : mode = "default" /\ Spawned("scheduled", mode)

KindNext == LeadChangesMode \/ SpawnFork \/ SpawnDefined \/ SpawnIsolated \/ SpawnTeammate \/ Recover
KindSpec == KindInit /\ [][KindNext]_chain

-----------------------------------------------------------------------------
KindTypeOK ==
    /\ Len(chain) \in 1..MaxDepth
    /\ \A i \in 1..Len(chain) : chain[i] \in [kind : Kinds, mode : Askable \cup {"plan"}]

\* However agents spawn agents, a chain ends: only a fork passes the Agent tool
\* on, it does not fork again, and nothing below it can spawn at all.
NestingEnds == Len(chain) <= 3

\* No member of a team, whoever spawned it, has a wider mode than the lead, and
\* nothing a schedule starts runs with more than the default mode.
NoWiderMode ==
    \A i \in 2..Len(chain) :
        /\ chain[i].kind = "teammate" =>
             IF LeadMode = "plan" THEN chain[i].mode = "plan"
             ELSE Rank(chain[i].mode) <= Rank(LeadMode)
        /\ chain[i].kind = "scheduled" => chain[i].mode = "default"
=============================================================================
