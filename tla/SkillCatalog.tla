----------------------------- MODULE SkillCatalog -----------------------------
(***************************************************************************)
(* One skill name in the user's skill directory: skills/install.py fetches  *)
(* it into a staging directory beside the installed ones and moves it into  *)
(* place, skills/loader.py scans the directory and notices by its           *)
(* modification time that it changed.  Installers and loaders are in        *)
(* different processes; within one, only the fetch gives way to others.     *)
(* GitHub is external: a fetch may fail at any point.                       *)
(***************************************************************************)
EXTENDS Naturals, FiniteSets

CONSTANTS Installers,   \* calls of install_skill, each fetching a version
          Loaders,      \* processes that show skills to a model or a user
          NoVersion, Old
ASSUME SkillAssumption == NoVersion \notin Installers /\ Old \notin Installers \cup {NoVersion}

VARIABLES
    installed,  \* <root>/<name>: its version and what is left of it: all of it (whole),
                \* a part with its manifest, or files without one (bare)
    staging,    \* .install-<name>-*: none, begun, manifest, whole
    install,    \* where each installer is
    victim,     \* the version whose directory an installer began to remove
    catalog,    \* each loader: [shows, changed, scanning, missed]
    mishaps     \* installations cut short, and whether there was a skill

skillVars == <<installed, staging, install, victim, catalog, mishaps>>

NoSkill == [version |-> NoVersion, left |-> "whole"]

SkillInit ==
    /\ \E v \in {NoVersion, Old} : installed = [version |-> v, left |-> "whole"]
    /\ staging = [i \in Installers |-> "none"]
    /\ install = [i \in Installers |-> "idle"]
    /\ victim = [i \in Installers |-> NoVersion]
    /\ catalog = [l \in Loaders |-> [shows |-> installed, changed |-> FALSE,
                                     scanning |-> FALSE, missed |-> FALSE]]
    /\ mishaps = [stopped |-> {}, had |-> installed.version = Old]

\* What there is of a skill in a staging directory with a manifest.
LeftOf(dir) == IF dir = "whole" THEN "whole" ELSE "part"

\* An entry of the directory comes or goes: its modification time changes.
Touched ==
    catalog' = [l \in Loaders |-> [catalog[l] EXCEPT !.changed = TRUE, !.missed = @ \/ catalog[l].scanning]]
InFlight == {"fetching", "fetched", "removing", "deleting", "moving"}
Proceeds(i, from, to) == install[i] = from /\ install' = [install EXCEPT ![i] = to]

-----------------------------------------------------------------------------
\* An installation

SkillStages(i) ==
    /\ Proceeds(i, "idle", "fetching")
    /\ staging' = [staging EXCEPT ![i] = "begun"]
    /\ Touched
    /\ UNCHANGED <<installed, victim, mishaps>>
\* Files arrive one by one, the manifest among them.
SkillArrives(i) ==
    /\ install[i] = "fetching" /\ staging[i] = "begun"
    /\ staging' = [staging EXCEPT ![i] = "manifest"]
    /\ UNCHANGED <<installed, install, victim, catalog, mishaps>>
SkillFetched(i) ==
    /\ staging[i] = "manifest" /\ Proceeds(i, "fetching", "fetched")
    /\ staging' = [staging EXCEPT ![i] = "whole"]
    /\ UNCHANGED <<installed, victim, catalog, mishaps>>

Cleans(i) == staging' = [staging EXCEPT ![i] = "none"]
\* A request, a limit or the missing manifest fails it: staging is removed.
SkillFails(i) ==
    /\ Proceeds(i, "fetching", "failed") /\ Cleans(i) /\ Touched
    /\ UNCHANGED <<installed, victim, mishaps>>

\* An old installation is removed first, if one is seen.
SkillLooks(i) ==
    /\ Proceeds(i, "fetched", IF installed.version = NoVersion THEN "moving" ELSE "removing")
    /\ UNCHANGED <<installed, staging, victim, catalog, mishaps>>

\* rmtree opens the directory that has the name now, which another installer may
\* have removed or replaced since the look ...
SkillOpens(i) ==
    /\ installed.version # NoVersion
    /\ Proceeds(i, "removing", "deleting")
    /\ victim' = [victim EXCEPT ![i] = installed.version]
    /\ UNCHANGED <<installed, staging, catalog, mishaps>>
\* ... deletes its files one by one, in no order; the catalogue's directory does
\* not change by that ...
SkillDeletes(i) ==
    /\ install[i] = "deleting" /\ installed.version = victim[i] /\ installed.left # "bare"
    /\ \E left \in {"part", "bare"} : installed' = [installed EXCEPT !.left = left]
    /\ UNCHANGED <<staging, install, victim, catalog, mishaps>>
\* ... and then the directory.
SkillRemoves(i) ==
    /\ installed.version = victim[i] /\ installed.left = "bare"
    /\ Proceeds(i, "deleting", "moving")
    /\ installed' = NoSkill /\ Touched
    /\ UNCHANGED <<staging, victim, mishaps>>
\* It raises where the directory is gone, a file cannot be deleted or was deleted
\* by another installer: the clean-up removes staging, what is left stays.
SkillRemoveFails(i) ==
    /\ \/ installed.version = NoVersion /\ Proceeds(i, "removing", "failed")
       \/ Proceeds(i, "deleting", "failed")
    /\ Cleans(i) /\ Touched
    /\ UNCHANGED <<installed, victim, mishaps>>

\* rename puts staging in place of nothing or of an empty directory, and fails on
\* one with files that another installer put there or could not remove.
SkillMoves(i) ==
    /\ installed.version = NoVersion \/ installed.left = "bare"
    /\ Proceeds(i, "moving", "done")
    /\ installed' = [version |-> i, left |-> LeftOf(staging[i])]
    /\ mishaps' = [mishaps EXCEPT !.had = TRUE]
    /\ Cleans(i) /\ Touched /\ UNCHANGED victim
SkillMoveFails(i) ==
    /\ installed.version # NoVersion
    /\ Proceeds(i, "moving", "failed")
    /\ mishaps' = [mishaps EXCEPT !.had = TRUE]
    /\ Cleans(i) /\ Touched /\ UNCHANGED <<installed, victim>>

\* Cut short: the tool call is cancelled in a request or the process dies anywhere,
\* neither of which is an Exception that the clean-up catches; or the file system
\* refuses the clean-up behind a failure, whose errors are ignored.
SkillStopped(i) ==
    /\ install[i] \in InFlight
    /\ install' = [install EXCEPT ![i] = "stopped"]
    /\ mishaps' = [mishaps EXCEPT !.stopped = @ \cup {i}]
    /\ UNCHANGED <<installed, staging, victim, catalog>>
\* The file system refuses the rename: the old skill is gone by then.
SkillMoveRefused(i) ==
    /\ Proceeds(i, "moving", "failed") /\ Cleans(i) /\ Touched
    /\ mishaps' = [mishaps EXCEPT !.stopped = @ \cup {i}]
    /\ UNCHANGED <<installed, victim>>

-----------------------------------------------------------------------------
\* Loaders

\* A scan in the order of names takes the first that has the skill's name; staging
\* directories begin with a dot, so they come before the installed one.  Without a
\* manifest a directory is no skill.
FoundSkill == IF installed.left = "bare" THEN NoSkill ELSE installed
Scan ==
    LET staged == {i \in Installers : staging[i] \in {"manifest", "whole"}} IN
    IF staged = {} THEN {FoundSkill}
    ELSE {[version |-> i, left |-> LeftOf(staging[i])] : i \in staged}

\* needs_reload, before a turn or after an installation of its own process.
LoaderScans(l) ==
    /\ catalog[l].changed /\ ~catalog[l].scanning
    /\ \E s \in Scan :
         catalog' = [catalog EXCEPT ![l] = [@ EXCEPT !.shows = s, !.scanning = TRUE, !.missed = FALSE]]
    /\ UNCHANGED <<installed, staging, install, victim, mishaps>>
\* The modification times are taken after the scan.
LoaderSnapshots(l) ==
    /\ catalog[l].scanning
    /\ catalog' = [catalog EXCEPT ![l] = [@ EXCEPT !.scanning = FALSE, !.changed = FALSE]]
    /\ UNCHANGED <<installed, staging, install, victim, mishaps>>

SkillNext ==
    \/ \E i \in Installers : \/ SkillStages(i) \/ SkillArrives(i) \/ SkillFetched(i) \/ SkillFails(i)
                             \/ SkillLooks(i) \/ SkillOpens(i) \/ SkillDeletes(i) \/ SkillRemoves(i)
                             \/ SkillRemoveFails(i) \/ SkillMoves(i) \/ SkillMoveFails(i)
                             \/ SkillMoveRefused(i) \/ SkillStopped(i)
    \/ \E l \in Loaders : LoaderScans(l) \/ LoaderSnapshots(l)
SkillSpec == SkillInit /\ [][SkillNext]_skillVars

-----------------------------------------------------------------------------

Ended == {"idle", "done", "failed", "stopped"}

SkillTypeOK ==
    /\ installed.version \in Installers \cup {NoVersion, Old}
    /\ installed.left \in {"whole", "part", "bare"}
    /\ \A i \in Installers : /\ staging[i] \in {"none", "begun", "manifest", "whole"}
                             /\ install[i] \in Ended \cup InFlight
                             /\ victim[i] \in Installers \cup {NoVersion, Old}

\* An installed skill is whole, unless an installer is removing it to replace it, or
\* stopped half way: what was fetched in part is never installed, whatever failed.
\* Where no installation was cut short, one that failed leaves a skill of that name
\* if there was one, perhaps of another installer, and no staging directory, which
\* a scan would take for a skill.
InstalledWhole ==
    /\ installed.left # "whole" =>
         \E i \in Installers : /\ victim[i] = installed.version
                               /\ install[i] \in {"deleting", "failed", "stopped"}
    /\ mishaps.stopped = {} /\ (\A i \in Installers : install[i] \in Ended) =>
         /\ \A i \in Installers : staging[i] = "none"
         /\ mishaps.had => installed.version # NoVersion

\* A loader that sees no change shows what is installed, once the installations
\* are through: a half fetched skill it may have shown meanwhile is replaced.
\* Left out are installations cut short, whose staging directory comes first for
\* ever, and a change between a scan and its snapshot, which is never noticed.
CatalogTrue ==
    \A l \in Loaders :
      mishaps.stopped = {} /\ (\A i \in Installers : install[i] \in Ended)
        /\ ~catalog[l].changed /\ ~catalog[l].scanning /\ ~catalog[l].missed
      => catalog[l].shows = FoundSkill
=============================================================================
