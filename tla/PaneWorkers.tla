----------------------------- MODULE PaneWorkers -----------------------------
(***************************************************************************)
(* A teammate that runs in a terminal pane as a process of its own: the     *)
(* launch files and their claim (teams/worker_launch.py), the worker        *)
(* (teams/worker.py), the lead's supervisor (teams/pane_supervisor.py), and  *)
(* the parts of TeamManager and AgentTool that start and stop it.  Lead and  *)
(* worker meet only in files with thirty-second heartbeats and in one row    *)
(* of team_members; killing a pane may fail, and is then only logged.        *)
(***************************************************************************)
EXTENDS Naturals, FiniteSets

CONSTANTS Processes,   \* the processes started on the launch manifest
          Nobody,      \* no claim file
          MaxPrompts   \* bound on the prompts a worker is given, the one of its launch included
ASSUME PaneAssumption == Nobody \notin Processes /\ MaxPrompts \in Nat \ {0}

VARIABLES
    lead,     \* the lead: launch progress, whether it is alive, its team
    parent,   \* the .parent file: [fresh, stop]
    report,   \* the .state file: [status, fresh]
    claim,    \* the .claim file
    worker,   \* where each process is
    active,   \* is_active in team_members
    poll,     \* the supervisor's loop: what it holds of this worker
    begun     \* the prompts each process began to work on

paneVars == <<lead, parent, report, claim, worker, active, poll, begun>>

Terminal == {"stopped", "failed"}
PaneOver == {"none", "ended", "refused", "killed"}

\* register_member has stored the member as active; nothing is launched.
PaneInit ==
    /\ lead = [phase |-> "registered", alive |-> TRUE, team |-> TRUE, owned |-> FALSE,
               sees |-> TRUE, last |-> "none"]
    /\ parent = [fresh |-> FALSE, stop |-> FALSE]
    /\ report = [status |-> "none", fresh |-> FALSE]
    /\ claim = Nobody
    /\ worker = [w \in Processes |-> "none"]
    /\ active = TRUE
    /\ poll = [at |-> "idle", saw |-> "none"]
    /\ begun = [w \in Processes |-> 0]

\* A bug: the age of the parent's heartbeat is not looked at.
ParentNotStopped == ~parent.stop

ParentAlive == parent.fresh /\ ~parent.stop
HeartbeatParent(stop) == parent' = [fresh |-> TRUE, stop |-> stop]
UpdateState(status) == report' = [status |-> status, fresh |-> TRUE]
\* _kill_pane: the process dies without its cleanup, or the kill fails.
KillPane == \/ worker' = worker
            \/ worker' = [w \in Processes |-> IF worker[w] \in PaneOver THEN worker[w] ELSE "killed"]

-----------------------------------------------------------------------------
\* The lead launches

PanePrepare ==
    /\ lead.alive /\ lead.phase = "registered"
    /\ lead' = [lead EXCEPT !.phase = "prepared"]
    /\ HeartbeatParent(FALSE) /\ UpdateState("starting")
    /\ UNCHANGED <<claim, worker, active, poll, begun>>

\* The command of the pane starts; it may be started again by hand.  The processes
\* are alike, so they start in one order.
PaneSpawn(w) ==
    /\ lead.phase # "registered" /\ worker[w] = "none"
    /\ w = CHOOSE v \in Processes : worker[v] = "none"
    /\ worker' = [worker EXCEPT ![w] = "init"]
    /\ UNCHANGED <<lead, parent, report, claim, active, poll, begun>>

PaneRegister ==
    /\ lead.alive /\ lead.phase = "prepared"
    /\ lead' = [lead EXCEPT !.phase = "launched", !.owned = TRUE]
    /\ UNCHANGED <<parent, report, claim, worker, active, poll, begun>>

\* An error or a cancellation on the way: stop file, kill, member inactive.
PaneSpawnFails ==
    /\ lead.alive /\ lead.phase = "prepared"
    /\ lead' = [lead EXCEPT !.phase = "launched", !.sees = FALSE]
    /\ HeartbeatParent(TRUE) /\ KillPane /\ active' = FALSE
    /\ UNCHANGED <<report, claim, poll, begun>>

-----------------------------------------------------------------------------
\* The supervisor: one pass reads the state file, acts on it, and then kills or
\* beats; a pass keeps a worker it took up although stop_member drops it meanwhile.

PanePollStart ==
    /\ lead.alive /\ lead.owned /\ poll.at = "idle"
    /\ poll' = [at |-> "due", saw |-> "none"]
    /\ UNCHANGED <<lead, parent, report, claim, worker, active, begun>>

PanePollRead ==
    /\ lead.alive /\ poll.at = "due"
    /\ poll' = [at |-> "read", saw |-> IF report.fresh THEN report.status ELSE "failed"]
    /\ IF report.fresh THEN UNCHANGED parent ELSE HeartbeatParent(TRUE)
    /\ UNCHANGED <<lead, report, claim, worker, active, begun>>

\* _apply: the row is written when the status is another than last time.
PanePollApply ==
    /\ lead.alive /\ poll.at = "read"
    /\ LET live == poll.saw \in {"starting", "running"} IN
       /\ active' = IF lead.last = poll.saw THEN active ELSE live
       /\ lead' = [lead EXCEPT !.sees = live, !.last = poll.saw]
       /\ poll' = [poll EXCEPT !.at = IF poll.saw \in Terminal THEN "kill" ELSE "beat"]
    /\ UNCHANGED <<parent, report, claim, worker, begun>>

PanePollBeat ==
    /\ lead.alive /\ poll.at = "beat"
    /\ HeartbeatParent(FALSE)
    /\ poll' = [at |-> "idle", saw |-> "none"]
    /\ UNCHANGED <<lead, report, claim, worker, active, begun>>

PanePollKill ==
    /\ lead.alive /\ poll.at = "kill"
    /\ KillPane
    /\ lead' = [lead EXCEPT !.owned = FALSE]
    /\ poll' = [at |-> "idle", saw |-> "none"]
    /\ UNCHANGED <<parent, report, claim, active, begun>>

\* Between reading and beating, a pass does not await.
Yielding == poll.at \in {"idle", "due", "kill"}

\* delete_team, when the lead sees the member inactive.
PaneDeleteTeam ==
    /\ Yielding /\ lead.alive /\ lead.team /\ ~lead.sees /\ lead.phase = "launched"
    /\ lead' = [lead EXCEPT !.team = FALSE, !.owned = FALSE]
    /\ IF lead.owned THEN HeartbeatParent(TRUE) ELSE UNCHANGED parent
    /\ KillPane /\ active' = FALSE
    /\ UNCHANGED <<report, claim, poll, begun>>

\* close, when the lead's session ends: the poll is cancelled, every owned
\* worker gets the stop file, two seconds, the kill and a stopped row.
PaneClose ==
    /\ Yielding /\ lead.alive /\ lead.phase = "launched"
    /\ lead' = [lead EXCEPT !.alive = FALSE, !.owned = FALSE, !.sees = ~lead.owned /\ lead.sees]
    /\ IF lead.owned THEN HeartbeatParent(TRUE) /\ KillPane /\ active' = FALSE
                     ELSE UNCHANGED <<parent, worker, active>>
    /\ poll' = [at |-> "idle", saw |-> "none"]
    /\ UNCHANGED <<report, claim, begun>>

PaneLeadDies ==
    /\ lead.alive /\ lead.phase # "registered"
    /\ lead' = [lead EXCEPT !.alive = FALSE, !.owned = FALSE]
    /\ poll' = [at |-> "idle", saw |-> "none"]
    /\ UNCHANGED <<parent, report, claim, worker, active, begun>>

-----------------------------------------------------------------------------
\* The worker

Goes(w, from, to) == worker[w] = from /\ worker' = [worker EXCEPT ![w] = to]

\* claim: validate, look at the parent, then create the claim file exclusively.
PaneLook(w) ==
    /\ Goes(w, "init", IF ParentAlive THEN "checked" ELSE "refused")
    /\ UNCHANGED <<lead, parent, report, claim, active, poll, begun>>

\* A bug: the claim file is opened without "x".
PaneClaimShared(w) ==
    /\ worker[w] = "checked"
    /\ worker' = [worker EXCEPT ![w] = "claimed"] /\ claim' = w
    /\ UNCHANGED <<lead, parent, report, active, poll, begun>>

PaneClaim(w) ==
    /\ Goes(w, "checked", IF claim = Nobody THEN "claimed" ELSE "refused")
    /\ claim' = IF claim = Nobody THEN w ELSE claim
    /\ UNCHANGED <<lead, parent, report, active, poll, begun>>

\* The outer loop: only a live parent is worked for; the state, then the row.
PaneLoop(w) ==
    /\ IF ParentAlive THEN Goes(w, "claimed", "loop") /\ UpdateState("running")
                      ELSE Goes(w, "claimed", "closing") /\ UNCHANGED report
    /\ UNCHANGED <<lead, parent, claim, active, poll, begun>>
PaneWork(w) ==
    /\ Goes(w, "loop", "working") /\ active' = TRUE
    /\ begun' = [begun EXCEPT ![w] = @ + 1]
    /\ UNCHANGED <<lead, parent, report, claim, poll>>

\* The run is over, or was cancelled by monitor(): inactive, then the idle state.
PaneRunOver(w) ==
    /\ Goes(w, "working", "resting") /\ active' = FALSE
    /\ UNCHANGED <<lead, parent, report, claim, poll, begun>>
PaneIdle(w) ==
    /\ Goes(w, "resting", "idle") /\ UpdateState("idle")
    /\ UNCHANGED <<lead, parent, claim, active, poll, begun>>
PaneMessage(w) ==
    /\ ParentAlive /\ begun[w] < MaxPrompts
    /\ Goes(w, "idle", "claimed")
    /\ UNCHANGED <<lead, parent, report, claim, active, poll, begun>>
\* A shutdown request, a dead parent, a failed start-up or a failed run.
PaneLeaves(w) ==
    /\ \/ Goes(w, "idle", "closing")
       \/ Goes(w, "claimed", "closing") /\ begun[w] = 0
       \/ Goes(w, "working", "closing")
    /\ UNCHANGED <<lead, parent, report, claim, active, poll, begun>>

\* The finally block: the state file, then the row.
PaneReportEnd(w) ==
    /\ Goes(w, "closing", "closed")
    /\ \E s \in Terminal : UpdateState(s)
    /\ UNCHANGED <<lead, parent, claim, active, poll, begun>>
PaneEnd(w) ==
    /\ Goes(w, "closed", "ended") /\ active' = FALSE
    /\ UNCHANGED <<lead, parent, report, claim, poll, begun>>

\* monitor(): a heartbeat every second, unless the process is stalled.
PaneBeat(w) ==
    /\ worker[w] \in {"working", "idle"} /\ ~report.fresh
    /\ UpdateState(IF worker[w] = "idle" THEN "idle" ELSE "running")
    /\ UNCHANGED <<lead, parent, claim, worker, active, poll, begun>>

\* Thirty seconds pass without a write.
PaneParentAges ==
    /\ parent.fresh /\ parent' = [parent EXCEPT !.fresh = FALSE]
    /\ UNCHANGED <<lead, report, claim, worker, active, poll, begun>>
PaneReportAges ==
    /\ report.fresh /\ report' = [report EXCEPT !.fresh = FALSE]
    /\ UNCHANGED <<lead, parent, claim, worker, active, poll, begun>>

\* What a process does by itself; an idle one leaves when its parent is dead.
PaneProgress(w) ==
    \/ PaneLook(w) \/ PaneClaim(w) \/ PaneLoop(w) \/ PaneWork(w) \/ PaneRunOver(w)
    \/ PaneIdle(w) \/ PaneReportEnd(w) \/ PaneEnd(w)
    \/ ~ParentAlive /\ worker[w] = "idle" /\ PaneLeaves(w)
PanePoll == PanePollStart \/ PanePollRead \/ PanePollApply \/ PanePollBeat \/ PanePollKill
PaneForgotten == ~lead.owned /\ lead.phase = "launched" /\ poll.at = "idle" /\ PaneParentAges

PaneNext ==
    \/ PanePrepare \/ PaneRegister \/ PaneSpawnFails \/ PanePoll
    \/ PaneDeleteTeam \/ PaneClose \/ PaneLeadDies \/ PaneParentAges \/ PaneReportAges
    \/ \E w \in Processes : \/ PaneSpawn(w) \/ PaneProgress(w) \/ PaneMessage(w)
                            \/ PaneLeaves(w) \/ PaneBeat(w)

PaneSpec == /\ PaneInit /\ [][PaneNext]_paneVars
            /\ \A w \in Processes : WF_paneVars(PaneProgress(w))
            /\ WF_paneVars(PanePoll) /\ WF_paneVars(PaneForgotten)

-----------------------------------------------------------------------------

PaneTypeOK ==
    /\ claim \in Processes \cup {Nobody}
    /\ report.status \in {"none", "starting", "running", "idle"} \cup Terminal
    /\ poll.at \in {"idle", "due", "read", "beat", "kill"}
    /\ \A w \in Processes : begun[w] \in 0..MaxPrompts

\* A launch is never worked for twice, however often its command is started, and
\* only the claimant touches row and state.  When the worker has left by itself
\* and its lead has let go of it, the member is inactive, so the team can be
\* deleted: no late write of either side revives it.
PaneSound ==
    /\ \A w \in Processes : begun[w] > 0 => claim = w
    /\ \A w \in Processes :
         (worker[w] = "ended" /\ lead.alive /\ lead.team /\ ~lead.owned /\ lead.phase = "launched")
           => ~active

\* A worker does not outlive its lead: when the lead has let go of it (give-up,
\* deletion, end or death of the session) the process ends, even if its pane
\* could not be killed.
PaneOrphansEnd ==
    \A w \in Processes :
      []<>(~lead.owned /\ lead.phase = "launched" => worker[w] \in PaneOver)
=============================================================================
