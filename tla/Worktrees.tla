------------------------------ MODULE Worktrees ------------------------------
(***************************************************************************)
(* The managed Git worktrees of a repository and the session that works in  *)
(* one (worktree/*.py, the worktree tools and command, the isolated agents  *)
(* of agent_tool.py).  What git keeps of a tree is whether it is dirty and  *)
(* how many commits it has, how many of them at a remote; git may refuse    *)
(* every question it is asked about them.                                   *)
(***************************************************************************)
EXTENDS Naturals, FiniteSets

CONSTANTS
    Trees,       \* names of worktrees
    Ephemeral,   \* names of isolated agents: the sweeper looks only at these
    NoTree,      \* no name
    MaxCommits, MaxStarts   \* bounds: commits of a tree, starts of the program

ASSUME TreeAssumption == /\ Ephemeral \subseteq Trees /\ NoTree \notin Trees
                         /\ {MaxCommits, MaxStarts} \subseteq Nat

VARIABLES
    disk,      \* a tree: its directory and its branch exist, dirty, commits, at a remote
    liveTrees,    \* manager.liveTrees: known or not, and the commits at head_commit
    current,   \* manager.current_session: the tree and whether Exit counts from before it
    saved,     \* worktree_session.json
    lockedBy,  \* the removal that holds manager._lock: the tree, whether it ends the
               \* session, whether the directory is gone, and what takes work with it
    workers,   \* isolated agents under way
    started,     \* starts of the program
    loss       \* what took work with the tree removed last; whether the session went astray

treeVars == <<disk, liveTrees, current, saved, lockedBy, workers, started, loss>>

Absent == [dir |-> FALSE, branch |-> FALSE, dirty |-> FALSE, commits |-> 0, pushed |-> 0]
Unknown == [known |-> FALSE, base |-> 0]
NoRemoval == [tree |-> NoTree, ends |-> FALSE, gone |-> TRUE, how |-> "none"]

TreeInit ==
    /\ disk = [t \in Trees |-> Absent] /\ liveTrees = [t \in Trees |-> Unknown]
    /\ current = NoTree /\ saved = NoTree /\ lockedBy = NoRemoval
    /\ workers = {} /\ started = 1
    /\ loss = [how |-> "none", astray |-> FALSE]

Unlocked == lockedBy = NoRemoval
HasChanges(t, base) == disk[t].dirty \/ disk[t].commits > base
Unpushed(t) == disk[t].commits > disk[t].pushed
Work(t) == disk[t].dirty \/ Unpushed(t)

(***************************************************************************)
(* create(): a directory that is still a worktree is taken over as it is,   *)
(* its present head becoming the base; a branch without one is refused.     *)
(* The setup may leave files that git reports as untracked.                 *)
(***************************************************************************)
Creatable(t) == ~liveTrees[t].known /\ (disk[t].dir \/ ~disk[t].branch)
Create(t) ==
    /\ liveTrees' = [liveTrees EXCEPT ![t] = [known |-> TRUE,
                                        base |-> IF disk[t].dir THEN disk[t].commits ELSE 0]]
    /\ IF disk[t].dir THEN UNCHANGED disk
       ELSE \E untracked \in BOOLEAN :
                disk' = [disk EXCEPT ![t] = [Absent EXCEPT !.dir = TRUE, !.branch = TRUE,
                                                           !.dirty = untracked]]

\* enter() also looks that git still lists the tree.
Enter(t) ==
    /\ Unlocked /\ current = NoTree /\ liveTrees[t].known /\ disk[t].dir
    /\ current' = t /\ saved' = t
    /\ UNCHANGED <<disk, liveTrees, lockedBy, workers, started, loss>>

\* The tool and the command create and then enter; the lock is free in between.
CreateForSession(t) ==
    /\ Unlocked /\ Creatable(t)
    /\ Create(t)
    /\ UNCHANGED <<current, saved, lockedBy, workers, started, loss>>

StartWorker(t) ==
    /\ Unlocked /\ t \in Ephemeral /\ Creatable(t) /\ ~disk[t].dir
    /\ Create(t)
    /\ workers' = workers \cup {t}
    /\ UNCHANGED <<current, saved, lockedBy, started, loss>>

(***************************************************************************)
(* Removal.  git is asked first: count_worktree_changes takes a question    *)
(* that git refuses for no change, so the tree may be judged clean whatever *)
(* it holds, and one that cannot be put for a change, so it may be kept     *)
(* although it is clean.  The directory then goes by force, at once for the *)
(* process but not for whoever else works in the tree; the lock is held     *)
(* over a sleep; then the branch goes and the name is forgotten.            *)
(***************************************************************************)
WhyClean(t, base, own) ==
    IF ~Work(t) THEN "since"
    ELSE IF HasChanges(t, base) THEN "refused"
    ELSE IF base > 0 /\ ~own THEN "recovered" ELSE "judged"
Judges(t, how, ends) ==
    /\ Unlocked /\ disk[t].dir
    /\ lockedBy' = [tree |-> t, ends |-> ends, gone |-> FALSE, how |-> how]
Removes ==
    /\ ~lockedBy.gone
    /\ LET t == lockedBy.tree IN
       /\ disk[t].dir
       /\ disk' = [disk EXCEPT ![t].dir = FALSE, ![t].dirty = FALSE]
       /\ loss' = [how |-> IF Work(t) THEN lockedBy.how ELSE "none",
                   astray |-> loss.astray \/ (~lockedBy.ends /\ t = current)]
    /\ lockedBy' = [lockedBy EXCEPT !.gone = TRUE]
    /\ UNCHANGED <<liveTrees, current, saved, workers, started>>
\* git refuses to remove: everything stays.
RemovalRefused ==
    /\ ~lockedBy.gone
    /\ lockedBy' = NoRemoval
    /\ UNCHANGED <<disk, liveTrees, current, saved, workers, started, loss>>
RemovalDone ==
    /\ ~Unlocked /\ lockedBy.gone
    /\ LET t == lockedBy.tree IN
       /\ disk' = [disk EXCEPT ![t] = [@ EXCEPT !.branch = FALSE, !.commits = 0, !.pushed = 0]]
       /\ liveTrees' = [liveTrees EXCEPT ![t] = Unknown]
    /\ IF lockedBy.ends THEN current' = NoTree /\ saved' = NoTree ELSE UNCHANGED <<current, saved>>
    /\ lockedBy' = NoRemoval
    /\ UNCHANGED <<workers, started, loss>>
\* The call that removes is cancelled in its sleep: branch, name and session stay.
RemovalCancelled ==
    /\ ~Unlocked /\ lockedBy.gone
    /\ lockedBy' = NoRemoval
    /\ loss' = [loss EXCEPT !.astray = @ \/ lockedBy.ends]
    /\ UNCHANGED <<disk, liveTrees, current, saved, workers, started>>

\* exit(): the base of the tree is its head when this process created or took it
\* over.  A directory that is gone counts as changed.
ExitKeep ==
    /\ Unlocked /\ current # NoTree /\ liveTrees[current].known
    /\ current' = NoTree /\ saved' = NoTree
    /\ UNCHANGED <<disk, liveTrees, lockedBy, workers, started, loss>>
ExitRemove(discard) ==
    /\ current # NoTree /\ liveTrees[current].known
    /\ Judges(current, IF discard THEN "discard"
                       ELSE WhyClean(current, liveTrees[current].base, FALSE), TRUE)
    /\ UNCHANGED <<disk, liveTrees, current, saved, workers, started, loss>>

\* An isolated agent is over, however: auto_cleanup keeps a tree with changes.
WorkerEnds(t) ==
    /\ Unlocked /\ t \in workers
    /\ workers' = workers \ {t}
    /\ \/ /\ liveTrees[t].known
          /\ Judges(t, WhyClean(t, liveTrees[t].base, TRUE), FALSE)
       \/ UNCHANGED lockedBy
    /\ UNCHANGED <<disk, liveTrees, current, saved, started, loss>>

\* The sweeper: an old tree of an agent, clean and wholly at a remote; of the
\* remote a refused question keeps the tree.  Whether its agent still runs is
\* not asked.
SweepStale(t) ==
    /\ t \in Ephemeral /\ current # t
    /\ ~Unpushed(t)
    /\ Judges(t, WhyClean(t, disk[t].commits, TRUE), FALSE)
    /\ UNCHANGED <<disk, liveTrees, current, saved, workers, started, loss>>

\* delete_team: the members' trees, by force, without the manager's lock (between
\* the judgement of a removal and its force nothing else of the process runs).
TeamDeletes(t) ==
    /\ disk[t].dir /\ t \notin workers /\ lockedBy.gone
    /\ disk' = [disk EXCEPT ![t] = Absent]
    /\ loss' = [how |-> IF Work(t) THEN "team" ELSE "none",
                astray |-> loss.astray \/ t \in {current, saved}]
    /\ UNCHANGED <<liveTrees, current, saved, lockedBy, workers, started>>

(***************************************************************************)
(* restore_session at the next start: the file counts only if git still     *)
(* lists the tree on its branch.                                            *)
(***************************************************************************)
Restart ==
    /\ started < MaxStarts
    /\ started' = started + 1 /\ workers' = {} /\ lockedBy' = NoRemoval
    /\ LET back == IF saved # NoTree /\ disk[saved].dir THEN saved ELSE NoTree IN
       /\ current' = back /\ saved' = back
       /\ liveTrees' = [t \in Trees |-> IF t = back THEN [known |-> TRUE, base |-> disk[t].commits]
                                                 ELSE Unknown]
    /\ loss' = [loss EXCEPT !.astray = FALSE]
    /\ UNCHANGED disk

Edits(t) ==
    /\ disk[t].dir
    /\ \/ disk' = [disk EXCEPT ![t].dirty = TRUE]
       \/ /\ disk[t].dirty /\ disk[t].commits < MaxCommits
          /\ disk' = [disk EXCEPT ![t].dirty = FALSE, ![t].commits = @ + 1]
       \/ disk' = [disk EXCEPT ![t].pushed = disk[t].commits]
    /\ UNCHANGED <<liveTrees, current, saved, lockedBy, workers, started, loss>>

TreeNext ==
    \/ Removes \/ RemovalRefused \/ RemovalDone \/ RemovalCancelled \/ ExitKeep \/ Restart
    \/ \E b \in BOOLEAN : ExitRemove(b)
    \/ \E t \in Trees : \/ CreateForSession(t) \/ Enter(t) \/ StartWorker(t) \/ WorkerEnds(t)
                        \/ SweepStale(t) \/ TeamDeletes(t) \/ Edits(t)
TreeSpec == TreeInit /\ [][TreeNext]_treeVars

-----------------------------------------------------------------------------
TreeTypeOK ==
    /\ \A t \in Trees : /\ {disk[t].dir, disk[t].branch, disk[t].dirty} \subseteq BOOLEAN
                        /\ disk[t].commits \in 0..MaxCommits /\ disk[t].pushed <= disk[t].commits
                        /\ liveTrees[t].known \in BOOLEAN
    /\ {current, saved, lockedBy.tree} \subseteq Trees \cup {NoTree}
    /\ {lockedBy.gone, lockedBy.ends} \subseteq BOOLEAN
    /\ workers \subseteq Ephemeral

\* Work in a tree, uncommitted or at no remote, is thrown away only on demand:
\* by an exit that says discard or the deletion of a team, with three exceptions:
\* git refused to say what the tree holds, the work came between the judgement
\* and the force, or the tree was taken over after a restart, its commits so far
\* being its base.
WorkIsKept == loss.how \in {"none", "discard", "team", "refused", "since", "recovered"}

\* The session is in a tree that exists and that its file names, unless its own
\* removal was cancelled half-way or the tree was a member's or an agent's that
\* went with its owner; the next start puts it right.
SessionHasItsTree ==
    /\ saved = current
    /\ Unlocked /\ ~loss.astray /\ current # NoTree => disk[current].dir /\ liveTrees[current].known
    /\ lockedBy.ends => lockedBy.tree = current
=============================================================================
