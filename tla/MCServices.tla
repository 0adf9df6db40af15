----------------------------- MODULE MCServices -----------------------------
(***************************************************************************)
(* The components around the durable core, checked in one run.  They share  *)
(* no variable, so a behaviour is one of one component: `part` names it, the *)
(* others keep their initial state, and the states are the sum of theirs.   *)
(***************************************************************************)
EXTENDS Mailbox, TeamBoard, PaneWorkers, McpConnection, ToolRegistry, ModelTurn,
        SubAgents, AgentKinds, QuietRun, Compaction, SessionLog, Permissions, HookRuns,
        ToolDispatch, Worktrees, RemoteFront, TerminalFront, FileEdits, MemoryNotes,
        MemoryRecall, TeamRoster, McpServers, SkillCatalog, TLC

CONSTANTS ann, cli, d1, plugin, mcp

VARIABLE part

HostOf == ann :> 2 @@ cli :> 1 @@ Lead :> 1     \* ann works in a pane
WorkerFor == d1 :> cli
Precedence == plugin :> 1 @@ mcp :> 2
ResultIds == 1..3
ResultSizes == <<2, 3, 6>>
BeforeCall == <<"greet", "guard">>
AfterCall == <<"notify">>
TeamSlugs == <<"t", "t-2">>
TwoServers == <<"docs", "git">>
CallsOf == [a \in HookAgents |-> IF a = Lead THEN 2 ELSE 1]

servicesVars == <<mailVars, boardVars, paneVars, mcpVars, regVars, turnVars, subVars, chain,
                  quietVars, compactVars, sessionVars, permVars, hookVars, dispatchVars,
                  treeVars, remoteVars, screenVars, fileVars, notesVars, recallVars,
                  rosterVars, serversVars, skillVars, part>>

AllParts == {"mail", "board", "pane", "mcp", "registry", "turn", "tasks", "kinds", "quiet",
             "compact", "session", "permit", "hooks", "dispatch", "trees", "remote", "screen",
             "files", "notes", "recall", "roster", "servers", "skills"}

ServicesInit ==
    /\ part \in AllParts
    /\ MailInit /\ BoardInit /\ PaneInit /\ McpInit /\ RegInit /\ TurnInit /\ SubInit /\ KindInit
    /\ QuietInit /\ CompactInit /\ SessionInit /\ PermInit /\ HookInit /\ DispatchInit
    /\ TreeInit /\ RemoteInit /\ ScreenInit /\ FilesInit /\ NotesInit /\ RecallInit
    /\ RosterInit /\ ServersInit /\ SkillInit
    /\ part # "dispatch" => ~standing.hooks     \* an idle component starts in one way
    /\ part # "servers" => hosted.now
    /\ part # "skills" => installed.version = Old

Idles(p, v) == IF part = p THEN TRUE ELSE UNCHANGED v

\* A step of the component p; the others do nothing.
Only(p, Step) ==
    /\ part = p
    /\ Step
    /\ Idles("mail", mailVars) /\ Idles("board", boardVars) /\ Idles("pane", paneVars)
    /\ Idles("mcp", mcpVars) /\ Idles("registry", regVars) /\ Idles("turn", turnVars)
    /\ Idles("tasks", subVars) /\ Idles("kinds", chain) /\ Idles("quiet", quietVars)
    /\ Idles("compact", compactVars) /\ Idles("session", sessionVars) /\ Idles("permit", permVars)
    /\ Idles("hooks", hookVars) /\ Idles("dispatch", dispatchVars) /\ Idles("trees", treeVars)
    /\ Idles("remote", remoteVars) /\ Idles("screen", screenVars) /\ Idles("files", fileVars)
    /\ Idles("notes", notesVars) /\ Idles("recall", recallVars) /\ Idles("roster", rosterVars)
    /\ Idles("servers", serversVars) /\ Idles("skills", skillVars)
    /\ UNCHANGED part

ServicesNext ==
    \/ Only("mail", MailNext)       \/ Only("board", BoardNext)     \/ Only("pane", PaneNext)
    \/ Only("mcp", McpNext)         \/ Only("registry", RegNext)    \/ Only("turn", TurnNext)
    \/ Only("tasks", SubNext)       \/ Only("kinds", KindNext)      \/ Only("quiet", QuietNext)
    \/ Only("compact", CompactNext) \/ Only("session", SessionNext) \/ Only("permit", PermNext)
    \/ Only("hooks", HookNext)      \/ Only("dispatch", DispatchNext) \/ Only("trees", TreeNext)
    \/ Only("remote", RemoteNext)   \/ Only("screen", ScreenNext)   \/ Only("files", FilesNext)
    \/ Only("notes", NotesNext)     \/ Only("recall", RecallNext)   \/ Only("roster", RosterNext)
    \/ Only("servers", ServersNext) \/ Only("skills", SkillNext)

\* The fairness of each component (see its specification) in the behaviours where
\* it is the one that moves; its own variables are all that its steps change.
ServicesFairness ==
    /\ \A u \in Users : WF_mailVars(part = "mail" /\ MailAdvance(u))
    /\ \A w \in Processes : WF_paneVars(part = "pane" /\ PaneProgress(w))
    /\ WF_paneVars(part = "pane" /\ PanePoll)     /\ WF_paneVars(part = "pane" /\ PaneForgotten)
    /\ WF_mcpVars(part = "mcp" /\ McpOwner)
    /\ \A c \in Callers : SF_mcpVars(part = "mcp" /\ McpCaller(c))
    /\ WF_turnVars(part = "turn" /\ StreamMoves)  /\ WF_turnVars(part = "turn" /\ TurnMoves)
    /\ \A i \in 1..MaxTurnCalls : WF_turnVars(part = "turn" /\ ReadMoves(i))
    /\ \A a \in Agents : WF_subVars(part = "tasks" /\ AgentMoves(a))
    /\ WF_subVars(part = "tasks" /\ Poll)         /\ WF_subVars(part = "tasks" /\ ShutdownEnds)
    /\ WF_quietVars(part = "quiet" /\ QuietGoes)  /\ WF_compactVars(part = "compact" /\ CompactSweeps)
    /\ WF_hookVars(part = "hooks" /\ HookProgress)
    /\ WF_dispatchVars(part = "dispatch" /\ Dispatches)
    /\ WF_notesVars(part = "notes" /\ NotesMoves)
ServicesSpec == ServicesInit /\ [][ServicesNext]_servicesVars /\ ServicesFairness

\* The VIEW of the run: what tells two states apart.  The idle components are as they
\* began, in the one way ServicesInit leaves them, so `part` and its variables do.
Moving == <<part,
    CASE part = "remote"   -> remoteVars   [] part = "pane"    -> paneVars
      [] part = "dispatch" -> dispatchVars [] part = "board"   -> boardVars
      [] part = "screen"   -> screenVars   [] part = "trees"   -> treeVars
      [] part = "roster"   -> rosterVars   [] part = "files"   -> fileVars
      [] part = "compact"  -> compactVars  [] part = "notes"   -> notesVars
      [] part = "tasks"    -> subVars      [] part = "hooks"   -> hookVars
      [] part = "turn"     -> turnVars     [] part = "mcp"     -> mcpVars
      [] part = "session"  -> sessionVars  [] part = "mail"    -> mailVars
      [] part = "permit"   -> permVars     [] part = "registry" -> regVars
      [] part = "skills"   -> skillVars    [] part = "quiet"   -> quietVars
      [] part = "recall"   -> recallVars   [] part = "servers" -> serversVars
      [] part = "kinds"    -> <<chain>> >>

-----------------------------------------------------------------------------
\* The idle components are in their initial states, so each property looks at the
\* one that moves.
In(p, P) == part = p => P

\* Every component's variables keep their types.
ServicesTypeOK ==
    /\ In("mail", MailTypeOK)       /\ In("board", BoardTypeOK)     /\ In("pane", PaneTypeOK)
    /\ In("mcp", McpTypeOK)         /\ In("registry", RegTypeOK)    /\ In("turn", TurnTypeOK)
    /\ In("tasks", SubTypeOK)       /\ In("kinds", KindTypeOK)      /\ In("quiet", QuietTypeOK)
    /\ In("compact", CompactTypeOK) /\ In("session", SessionTypeOK) /\ In("permit", PermTypeOK)
    /\ In("hooks", HookTypeOK)      /\ In("dispatch", DispatchTypeOK)
    /\ In("trees", TreeTypeOK)      /\ In("remote", RemoteTypeOK)   /\ In("screen", ScreenTypeOK)
    /\ In("files", FilesTypeOK)     /\ In("notes", NotesTypeOK)     /\ In("recall", RecallTypeOK)
    /\ In("roster", RosterTypeOK)   /\ In("servers", ServersTypeOK) /\ In("skills", SkillTypeOK)

\* Teams: until a process dies a letter arrives exactly once, between updates that
\* do not overlap the board says what the store acts on and no item has two owners,
\* no launch is worked for twice, and the copies of a team agree until it is deleted
\* for good.
TeamsConsistent ==
    /\ In("mail", MailExactlyOnce)  /\ In("board", BoardSound /\ OneOwner)
    /\ In("pane", PaneSound)
    /\ In("roster", CopiesAgree /\ DeletedStaysDeleted /\ NarrowWhileItLeads)

\* Sub-agents: the lead hears of every task once, no chain of agents goes on for
\* ever or gains authority, and a run without a user closes what it opened, unless
\* a cancellation met the hooks of its failure.
AgentsAccounted ==
    /\ In("tasks", TasksReported)   /\ In("kinds", NestingEnds /\ NoWiderMode)
    /\ In("quiet", QuietClosed)

\* Tool calls: answered in order, through every guard, with results of this attempt,
\* by a tool, a connection and a skill that are there, the skill whole unless an
\* installer was stopped while it replaced it; hooks are accounted for.
ToolsGuarded ==
    /\ In("dispatch", AnswersInOrder /\ NoGuardBypassed /\ NoEndlessRepair)
    /\ In("turn", ReadsOfThisAttempt /\ NoCallRepeatsForEver)
    /\ In("registry", RegNothingLost) /\ In("mcp", McpNothingLost)
    /\ In("permit", AuthorityKept /\ GrantsExact) /\ In("hooks", HooksAccounted)
    /\ In("servers", ServersAccounted) /\ In("skills", InstalledWhole /\ CatalogTrue)

\* The context: requests are well formed and what they name is there, a session
\* replays as it was written and all that was said but the reminders between two
\* runs, and memories are neither passed over nor repeated.
ContextWhole ==
    /\ In("compact", RequestsWhole /\ PreviewsReadable)
    /\ In("session", ReplayIsWhole /\ RestIsLogged)
    /\ In("notes", NotesAccounted)  /\ In("recall", ToldOnce)



\* What no step may do: lose a permit but in the known race, use a result that is
\* no longer allowed, cancel beyond the run, revive a cancelled task, or run a tool
\* past a hook that rejects.
StepsAllowed ==
    PermitsOnlyLostInTheRace /\ ReadAheadStillAllowed /\ CancelStaysInTheRun /\ CancelledIsFinal
    /\ GuardsHold

\* Whatever was begun comes to an end: calls to an inbox and to an MCP server,
\* orphaned panes, turns, tasks and their shutdown, released artifacts, hooks, the
\* calls of an answer, extractions that were put off.
Settled ==
    CASE part = "mail"     -> \A u \in Users : hand[u].pc \in {"idle", "dead"}
      [] part = "pane"     -> \A w \in Processes :
                                ~lead.owned /\ lead.phase = "launched" => worker[w] \in PaneOver
      [] part = "mcp"      -> \A c \in Callers :
                                call[c].at \in {"idle", "answered", "failed", "gone", "closed"}
      [] part = "turn"     -> TurnSettled
      [] part = "tasks"    -> /\ down # "going"
                              /\ \A a \in Agents : bg[a].pc \in {"none", "dropped"} \/ told[a] = 1
      [] part = "quiet"    -> QuietSettled
      [] part = "compact"  -> \A r \in Results : index[r] # "released"
      [] part = "hooks"    -> engine # "waiting" /\ \A a \in HookAgents : hookCall[a].pc = "idle"
      [] part = "dispatch" -> stage.pc \in {"ask", "over", "failed"}
      [] part = "notes"    -> ~stashed /\ due = {}
      [] OTHER             -> TRUE
EverythingSettles == []<>Settled
=============================================================================
