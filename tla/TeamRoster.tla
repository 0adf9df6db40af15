------------------------------ MODULE TeamRoster ------------------------------
(***************************************************************************)
(* Teams and their in-process members: teams/manager.py over config.json    *)
(* (teams/models.py) and the team tables (persistence/team_store.py), as    *)
(* TeamCreate, TeamDelete, Agent with a team name and the task manager use  *)
(* them.  A call runs to its end without an await, so within a process no    *)
(* other call comes between its writes; another process does, and so does   *)
(* the death of the process.  Pane members are the subject of PaneWorkers.  *)
(***************************************************************************)
EXTENDS Naturals, Sequences, FiniteSets

CONSTANTS
    Leads,       \* processes that share the state directory and the database
    NoLead,      \* no process
    Slugs,       \* sequence of directory names a team may get
    Mates,       \* members, each spawned once
    MaxTeams,    \* bound on the teams created
    MaxDeaths    \* bound on the processes that die
ASSUME RosterAssumption == MaxTeams \in Nat /\ MaxDeaths \in Nat /\ NoLead \notin Leads

VARIABLES
    config,    \* config.json of each team: [file, members]
    stored,    \* teams and team_members: [team, members]
    team,      \* TeamManager._teams of each process: [held, members]
    proc,      \* each process: [alive, todo, narrowed, own]
    mate,      \* each member: [at, home, of]
    ledger     \* what happened: teams deleted or left over, members cut off at work, counts

rosterVars == <<config, stored, team, proc, mate, ledger>>

Names == {Slugs[i] : i \in DOMAIN Slugs}
Nowhere == [m \in Mates |-> "out"]
FreshProc == [alive |-> TRUE, todo |-> <<>>, narrowed |-> FALSE, own |-> {}]
NotHeld == [held |-> FALSE, members |-> Nowhere]

RosterInit ==
    /\ config = [n \in Names |-> [file |-> "none", members |-> Nowhere]]
    /\ stored = [n \in Names |-> [team |-> "none", members |-> Nowhere]]
    /\ team = [p \in Leads |-> [n \in Names |-> NotHeld]]
    /\ proc = [p \in Leads |-> FreshProc]
    /\ mate = [m \in Mates |-> [at |-> "none", home |-> NoLead, of |-> Slugs[1]]]
    /\ ledger = [gone |-> {}, left |-> {}, cut |-> {}, made |-> 0, deaths |-> 0]

Write(what, n, members) == [do |-> what, of |-> n, members |-> members]

\* get_team: what is held, else the configuration, else an active row; a torn
\* configuration raises.
TeamFound(p, n) ==
    \/ team[p][n].held
    \/ config[n].file = "whole"
    \/ config[n].file = "none" /\ stored[n].team = "active"
TeamSeen(p, n) ==
    IF team[p][n].held THEN team[p][n].members
    ELSE IF config[n].file = "whole" THEN config[n].members
    ELSE stored[n].members

\* A bug: members the database does not know are not put back.
LoadWritesTeamOnly(p, n) ==
    IF team[p][n].held \/ config[n].file # "whole" THEN <<>>
    ELSE <<Write("enlist", n, Nowhere)>>

\* Loading a configuration repairs the database: the team, then missing members.
LoadWrites(p, n) ==
    IF team[p][n].held \/ config[n].file # "whole" THEN <<>>
    ELSE <<Write("enlist", n, Nowhere), Write("repair", n, config[n].members)>>

\* A call of p about the team n: nobody else in this process is in the middle of
\* one.  Bound: no other living process has the team; nothing in the code keeps two
\* leads from a team, and then their copies, each written whole, diverge.
Begins(p, n) ==
    /\ proc[p].alive /\ proc[p].todo = <<>>
    /\ \A q \in Leads \ {p} : /\ ~team[q][n].held
                               /\ \A i \in DOMAIN proc[q].todo : proc[q].todo[i].of # n
Holds(p, n, members) == team' = [team EXCEPT ![p][n] = [held |-> TRUE, members |-> members]]
Performs(p, todo) == proc' = [proc EXCEPT ![p].todo = todo]

-----------------------------------------------------------------------------
\* The lead's tools

\* unique_team_name: the first directory that is not there (one that a death left
\* without a configuration counts as free).
SlugFree(n) == config[n].file = "none"
RosterCreate(p) ==
    \E i \in DOMAIN Slugs :
      LET n == Slugs[i] IN
      /\ Begins(p, n) /\ ledger.made < MaxTeams
      /\ SlugFree(n) /\ \A j \in 1..(i - 1) : ~SlugFree(Slugs[j])
      /\ Holds(p, n, Nowhere)
      /\ proc' = [proc EXCEPT ![p].todo = <<Write("save", n, Nowhere), Write("enlist", n, Nowhere)>>,
                              ![p].narrowed = TRUE, ![p].own = @ \cup {n}]
      /\ ledger' = [ledger EXCEPT !.made = @ + 1, !.gone = @ \ {n}, !.left = @ \ {n}]
      /\ UNCHANGED <<config, stored, mate>>

\* Agent with a team name: look the team up, then await the worktree.
RosterSpawn(p, n, m) ==
    /\ Begins(p, n) /\ TeamFound(p, n) /\ mate[m].at = "none"
    /\ Holds(p, n, TeamSeen(p, n))
    /\ Performs(p, LoadWrites(p, n))
    /\ mate' = [mate EXCEPT ![m] = [at |-> "trees", home |-> p, of |-> n]]
    /\ UNCHANGED <<config, stored, ledger>>
RosterTreeFails(m) ==
    /\ mate[m].at = "trees" /\ Begins(mate[m].home, mate[m].of)
    /\ mate' = [mate EXCEPT ![m].at = "refused"]
    /\ UNCHANGED <<config, stored, team, proc, ledger>>

\* A change of one member as register_member and set_member_* make it: the object,
\* the whole configuration, then the member's row.
Marks(p, n, m, flag, how) ==
    LET members == [TeamSeen(p, n) EXCEPT ![m] = flag] IN
    /\ Holds(p, n, members)
    /\ Performs(p, LoadWrites(p, n) \o
                   <<Write("save", n, members), Write(how, n, [Nowhere EXCEPT ![m] = flag])>>)

\* register_member looks the team up again; it may be gone by now.
RosterRegister(m) ==
    LET p == mate[m].home  n == mate[m].of IN
    /\ mate[m].at = "trees" /\ Begins(p, n)
    /\ IF TeamFound(p, n)
       THEN /\ Marks(p, n, m, "yes", "member")
            /\ mate' = [mate EXCEPT ![m].at = "working"]
       ELSE /\ mate' = [mate EXCEPT ![m].at = "refused"]
            /\ UNCHANGED <<team, proc>>
    /\ UNCHANGED <<config, stored, ledger>>

\* A bug: the flag kept in memory is not looked at.
DeletableAnyway(p, n) == TeamFound(p, n)

Deletable(p, n) == TeamFound(p, n) /\ \A m \in Mates : TeamSeen(p, n)[m] # "yes"

\* A bug: the stored are marked before the files are removed.
DeletionRowsFirst(n) ==
    <<Write("retire", n, Nowhere), Write("remove", n, Nowhere), Write("widen", n, Nowhere)>>

\* delete_team removes the files, then marks the stored; TeamDelete then looks
\* whether any team is left.
Deletion(n) ==
    <<Write("remove", n, Nowhere), Write("retire", n, Nowhere), Write("widen", n, Nowhere)>>

\* The tasks of this process that wait for letters are cancelled.
RosterDelete(p, n) ==
    /\ Begins(p, n) /\ Deletable(p, n)
    /\ team' = [team EXCEPT ![p][n] = NotHeld]
    /\ proc' = [proc EXCEPT ![p].todo = LoadWrites(p, n) \o Deletion(n), ![p].own = @ \ {n}]
    /\ mate' = [m \in Mates |->
         IF mate[m].home = p /\ mate[m].at \in {"working", "waiting"} /\ TeamSeen(p, n)[m] # "out"
         THEN [mate[m] EXCEPT !.at = "stopped"] ELSE mate[m]]
    /\ ledger' = [ledger EXCEPT !.cut = @ \cup {m \in Mates : mate[m].at = "working" /\ mate'[m].at = "stopped"}]
    /\ UNCHANGED <<config, stored>>
\* Refused because of an active member, but the team is loaded.
RosterKeep(p, n) ==
    /\ Begins(p, n) /\ TeamFound(p, n) /\ ~Deletable(p, n) /\ ~team[p][n].held
    /\ Holds(p, n, TeamSeen(p, n))
    /\ Performs(p, LoadWrites(p, n))
    /\ UNCHANGED <<config, stored, mate, ledger>>

-----------------------------------------------------------------------------
\* The task of a member

\* set_member_active and set_member_idle; the latter returns when it is idle.
Turns(m, flag, to) ==
    LET p == mate[m].home  n == mate[m].of IN
    /\ Begins(p, n)
    /\ IF TeamFound(p, n)
       THEN IF TeamSeen(p, n)[m] = "out" \/ (flag = "no" /\ TeamSeen(p, n)[m] = "no")
            THEN Holds(p, n, TeamSeen(p, n)) /\ Performs(p, LoadWrites(p, n))
            ELSE Marks(p, n, m, flag, "flag")
       ELSE UNCHANGED <<team, proc>>
    /\ mate' = [mate EXCEPT ![m].at = to]
    /\ UNCHANGED <<config, stored, ledger>>

RosterIdle(m) == mate[m].at = "working" /\ Turns(m, "no", "waiting")
RosterWake(m) == mate[m].at = "waiting" /\ Turns(m, "yes", "working")
\* on_teammate_completed: failed, waited for a minute in vain, or was cancelled.
RosterOver(m) ==
    mate[m].at \in {"working", "waiting", "stopped"} /\ Turns(m, "no", "over")

-----------------------------------------------------------------------------
\* The writes of a call, one by one

Overlaid(old, fresh) == [m \in Mates |-> IF old[m] = "out" THEN "out" ELSE fresh[m]]
\* What a write does to the stored.
NewRows(w, r) ==
    CASE w.do = "enlist" -> [r EXCEPT !.team = "active"]
      [] w.do = "repair" -> [r EXCEPT !.members = [m \in Mates |-> IF @[m] = "out" THEN w.members[m] ELSE @[m]]]
      [] w.do = "member" -> [r EXCEPT !.members = [m \in Mates |-> IF w.members[m] = "out" THEN @[m] ELSE w.members[m]]]
      [] w.do = "flag"   -> [r EXCEPT !.members = [m \in Mates |-> IF "out" \in {w.members[m], @[m]} THEN @[m] ELSE w.members[m]]]
      [] w.do = "retire" -> [team |-> IF r.team = "none" THEN "none" ELSE "deleted",
                             members |-> Overlaid(r.members, [m \in Mates |-> "no"])]
      [] OTHER           -> r

\* A bug: the lead gets its tools back with any deletion.
NoTeamListedEver(p) == TRUE

\* list_teams: held by this process, or active in the database.
NoTeamListed(p) == \A n \in Names : ~team[p][n].held /\ stored[n].team # "active"

RosterWrites(p) ==
    /\ proc[p].alive /\ proc[p].todo # <<>>
    /\ LET w == Head(proc[p].todo)  n == w.of IN
       /\ stored' = [stored EXCEPT ![n] = NewRows(w, @)]
       /\ \/ /\ config' = CASE w.do = "save"   -> [config EXCEPT ![n] = [file |-> "whole", members |-> w.members]]
                            [] w.do = "remove" -> [config EXCEPT ![n] = [file |-> "none", members |-> Nowhere]]
                            [] OTHER           -> config
             /\ ledger' = IF w.do = "retire" THEN [ledger EXCEPT !.gone = @ \cup {n}] ELSE ledger
          \/ /\ w.do = "remove" /\ config[n].file # "none"     \* rmtree with ignore_errors
             /\ ledger' = [ledger EXCEPT !.left = @ \cup {n}]
             /\ UNCHANGED config
       /\ proc' = [proc EXCEPT ![p].todo = Tail(@),
                     ![p].narrowed = @ /\ ~(w.do = "widen" /\ NoTeamListed(p))]
    /\ UNCHANGED <<team, mate>>

\* The process dies; a configuration it is writing may be torn.
RosterDies(p) ==
    /\ proc[p].alive /\ ledger.deaths < MaxDeaths
    /\ \/ UNCHANGED config
       \/ /\ proc[p].todo # <<>> /\ Head(proc[p].todo).do = "save"
          /\ config' = [config EXCEPT ![Head(proc[p].todo).of].file = "torn"]
    /\ proc' = [proc EXCEPT ![p] = [FreshProc EXCEPT !.alive = FALSE]]
    /\ team' = [team EXCEPT ![p] = [n \in Names |-> NotHeld]]
    /\ mate' = [m \in Mates |-> IF mate[m].home = p THEN [mate[m] EXCEPT !.at = "lost"] ELSE mate[m]]
    /\ ledger' = [ledger EXCEPT !.deaths = @ + 1]
    /\ UNCHANGED stored
RosterRestarts(p) ==
    /\ ~proc[p].alive
    /\ proc' = [proc EXCEPT ![p] = FreshProc]
    /\ UNCHANGED <<config, stored, team, mate, ledger>>

RosterNext ==
    \/ \E p \in Leads :
         \/ RosterCreate(p) \/ RosterWrites(p) \/ RosterDies(p) \/ RosterRestarts(p)
         \/ \E n \in Names : \/ RosterDelete(p, n) \/ RosterKeep(p, n)
                             \/ \E m \in Mates : RosterSpawn(p, n, m)
    \/ \E m \in Mates : \/ RosterTreeFails(m) \/ RosterRegister(m)
                        \/ RosterIdle(m) \/ RosterWake(m) \/ RosterOver(m)
RosterSpec == RosterInit /\ [][RosterNext]_rosterVars

-----------------------------------------------------------------------------

RosterTypeOK ==
    /\ \A n \in Names : /\ config[n].file \in {"none", "whole", "torn"}
                        /\ stored[n].team \in {"none", "active", "deleted"}
    /\ \A m \in Mates : mate[m].at \in {"none", "trees", "working", "waiting", "stopped",
                                        "over", "refused", "lost"}

Calm(p) == proc[p].alive /\ proc[p].todo = <<>>

\* Three copies of a team agree for the process that has it, whatever the death of
\* an earlier one left: the configuration is what is held, every member has a
\* row, and a member of this process is active in all three exactly while it
\* works, so that no deletion cuts it off at its work.
CopiesAgree ==
    /\ ledger.cut = {}
    /\ \A p \in Leads, n \in Names :
         Calm(p) =>
           /\ team[p][n].held =>
                /\ stored[n].team = "active"
                /\ config[n].file = "whole" => config[n].members = team[p][n].members
                /\ \A m \in Mates : team[p][n].members[m] # "out" => stored[n].members[m] # "out"
           /\ \A m \in Mates : mate[m].home = p /\ mate[m].of = n =>
                /\ mate[m].at = "working" => "yes" = team[p][n].members[m] /\ "yes" = stored[n].members[m]
                /\ mate[m].at = "waiting" => "no" = team[p][n].members[m] /\ "no" = stored[n].members[m]

\* A team whose deletion is done does not come back, neither through a spawn that
\* was under way, nor through the end of a member, nor because a process died in
\* the middle of the deletion, unless files of it were left.
DeletedStaysDeleted ==
    \A n \in ledger.gone \ ledger.left :
      config[n].file = "none" /\ stored[n].team = "deleted"

\* A lead in coordinator mode keeps it until the last of its teams is deleted.
NarrowWhileItLeads == \A p \in Leads : proc[p].own # {} => proc[p].narrowed
=============================================================================
