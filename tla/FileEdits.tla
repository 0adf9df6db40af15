----------------------------- MODULE FileEdits -----------------------------
(***************************************************************************)
(* Reading, editing and rewinding files: ReadFile, EditFile and WriteFile  *)
(* with the state cache they share, the backups FileHistory keeps of every *)
(* edit, its checkpoints at the end of a turn, and /rewind.                *)
(*                                                                         *)
(* A file is its text and the stamp of its last writing.  The tools run    *)
(* without an await, so one call is one step.  (FileCache is never filled: *)
(* an empty one counts as false where it is asked for, so it is left out.) *)
(***************************************************************************)
EXTENDS Integers, Sequences, FiniteSets

CONSTANTS Paths,
          Editors,         \* the lead and the sub-agents that share its tools
          MaxWrites,       \* bound: writings of files
          MaxTracked,      \* bound: edits of one file that are tracked
          MAX_SNAPSHOTS

ASSUME FilesAssumption ==
  /\ IsFiniteSet(Paths) /\ IsFiniteSet(Editors)
  /\ MaxWrites \in Nat /\ MaxTracked \in Nat \ {0} /\ MAX_SNAPSHOTS \in Nat \ {0}

NoFile == 0
FileTexts == 0 .. MaxWrites
TextOf == [text : FileTexts, at : 0 .. MaxWrites]

VARIABLES
  onDisk,     \* the text of every file and the stamp of its writing
  readAt,     \* FileStateCache: the stamp under which a file was read
  knows,      \* ghost: the last text every agent has read or written
  tracked,    \* FileHistory: the number of the last backup of a file
  backups,    \* the backup files, by path and number
  snapshots,  \* the checkpoints
  before,     \* ghost: what the backup of that number has to hold
  reused,     \* ghost: backups of an abandoned future that name an edit again
  clobbered   \* ghost: for each writing over a text its agent did not know, who knew it

fileVars == <<onDisk, readAt, knows, tracked, backups, snapshots, before, reused, clobbered>>

FilesTypeOK ==
  /\ onDisk \in [Paths -> TextOf]
  /\ readAt \in [Paths -> -1 .. MaxWrites]
  /\ knows \in [Editors -> [Paths -> FileTexts]]
  /\ tracked \in [Paths -> 0 .. MaxTracked]
  /\ DOMAIN backups \subseteq Paths \X (1 .. MaxTracked)
  /\ Len(snapshots) <= MAX_SNAPSHOTS
  /\ reused \subseteq Paths \X (1 .. MaxTracked)

FilesInit ==
  /\ onDisk = [p \in Paths |-> [text |-> NoFile, at |-> 0]]
  /\ readAt = [p \in Paths |-> -1]
  /\ knows = [e \in Editors |-> [p \in Paths |-> NoFile]]
  /\ tracked = [p \in Paths |-> 0] /\ backups = <<>> /\ snapshots = <<>>
  /\ before = [p \in Paths |-> NoFile] /\ reused = {} /\ clobbered = {}

InUse == {onDisk[p].at : p \in Paths} \cup {onDisk[p].text : p \in Paths} \cup {readAt[p] : p \in Paths}
         \cup {backups[k] : k \in DOMAIN backups}
Stamp == 1 + CHOOSE m \in InUse : \A n \in InUse : n <= m     \* a stamp above all that are in use
Exists(p) == onDisk[p].text # NoFile
Put(p, text, stamp) == onDisk' = [onDisk EXCEPT ![p] = [text |-> text, at |-> stamp]]


\* FileStateCache.check: the file was read, and not written since; a file that is
\* gone may be written.
MayWrite(p) == Exists(p) => readAt[p] = onDisk[p].at

-----------------------------------------------------------------------------
ReadFile(e, p) ==
  /\ Exists(p)
  /\ readAt' = [readAt EXCEPT ![p] = onDisk[p].at]
  /\ knows' = [knows EXCEPT ![e][p] = onDisk[p].text]
  /\ UNCHANGED <<onDisk, tracked, backups, snapshots, before, reused, clobbered>>

\* track_edit, before the file is looked at: a call that fails counts too.
Track(p) ==
  LET k == <<p, tracked[p] + 1>>
  IN /\ tracked[p] < MaxTracked
     /\ tracked' = [tracked EXCEPT ![p] = @ + 1]
     /\ before' = [before EXCEPT ![p] = onDisk[p].text]
     /\ backups' = IF Exists(p)
                   THEN [j \in DOMAIN backups \cup {k} |-> IF j = k THEN onDisk[p].text ELSE backups[j]]
                   ELSE backups
     /\ reused' = IF ~ Exists(p) /\ k \in DOMAIN backups THEN reused \cup {k} ELSE reused \ {k}

\* EditFile (the file must exist) and WriteFile, by any agent that has the tools.
WriteRefused(e, p) ==
  /\ ~ MayWrite(p) \/ ~ Exists(p)     \* not read, stale; or EditFile without a file
  /\ Track(p)
  /\ UNCHANGED <<onDisk, readAt, knows, snapshots, clobbered>>

WriteDone(e, p) ==
  /\ MayWrite(p) /\ Stamp <= MaxWrites
  /\ Track(p)
  /\ Put(p, Stamp, Stamp)
  /\ readAt' = [readAt EXCEPT ![p] = Stamp]
  /\ knows' = [knows EXCEPT ![e][p] = Stamp]
  /\ clobbered' = IF Exists(p) /\ knows[e][p] # onDisk[p].text
                  THEN clobbered \cup {{a \in Editors : knows[a][p] = onDisk[p].text}} ELSE clobbered
  /\ UNCHANGED snapshots

\* The user's editor, or a shell command of an agent.
OutsideWrites(p) ==
  /\ Stamp <= MaxWrites
  /\ \/ Put(p, Stamp, Stamp)
     \/ Exists(p) /\ Put(p, NoFile, onDisk[p].at)
  /\ UNCHANGED <<readAt, knows, tracked, backups, snapshots, before, reused, clobbered>>

\* The end of a turn: a tracked file without a backup of that number gets one now.
Unsaved == {p \in Paths : tracked[p] > 0 /\ Exists(p) /\ <<p, tracked[p]>> \notin DOMAIN backups}
LastOf(s, n) == SubSeq(s, (IF Len(s) > n THEN Len(s) - n ELSE 0) + 1, Len(s))

\* Mutant: a checkpoint backs up every tracked file again.
UnsavedAll == {p \in Paths : tracked[p] > 0 /\ Exists(p)}
SnapshotAfresh ==
  /\ backups' = [k \in DOMAIN backups \cup {<<p, tracked[p]>> : p \in UnsavedAll} |->
                   IF \E p \in UnsavedAll : k = <<p, tracked[p]>> THEN onDisk[k[1]].text ELSE backups[k]]
  /\ before' = before
  /\ snapshots' = LastOf(Append(snapshots, [version |-> tracked, text |-> before,
                                            reused |-> {p \in Paths : <<p, tracked[p]>> \in reused}]),
                         MAX_SNAPSHOTS)
  /\ UNCHANGED <<onDisk, readAt, knows, tracked, reused, clobbered>>

MakeSnapshot ==
  /\ backups' = [k \in DOMAIN backups \cup {<<p, tracked[p]>> : p \in Unsaved} |->
                   IF k \in DOMAIN backups THEN backups[k] ELSE onDisk[k[1]].text]
  /\ before' = [p \in Paths |-> IF p \in Unsaved THEN onDisk[p].text ELSE before[p]]
  /\ snapshots' = LastOf(Append(snapshots, [version |-> tracked, text |-> before',
                                            reused |-> {p \in Paths : <<p, tracked[p]>> \in reused}]),
                         MAX_SNAPSHOTS)
  /\ UNCHANGED <<onDisk, readAt, knows, tracked, reused, clobbered>>

\* /rewind n: every file the checkpoint names gets its backup, or is removed when
\* there is none; later checkpoints are forgotten and the numbers go back.
Restored(s, p) == IF <<p, s.version[p]>> \in DOMAIN backups THEN backups[<<p, s.version[p]>>] ELSE NoFile
Rewind ==
  /\ Stamp <= MaxWrites
  /\ \E n \in 1 .. Len(snapshots) :
       LET s == snapshots[n]
           differs == {p \in Paths : s.version[p] > 0 /\ onDisk[p].text # Restored(s, p)}
       IN /\ onDisk' = [p \in Paths |-> IF p \in differs THEN [text |-> Restored(s, p), at |-> Stamp] ELSE onDisk[p]]
          /\ snapshots' = SubSeq(snapshots, 1, n)
          /\ tracked' = [p \in Paths |-> IF s.version[p] > 0 THEN s.version[p] ELSE tracked[p]]
          /\ before' = [p \in Paths |-> IF s.version[p] > 0 THEN Restored(s, p) ELSE before[p]]
  /\ UNCHANGED <<readAt, knows, backups, reused, clobbered>>

\* /clear: a new session with a history of its own; the state cache stays.
NewHistory ==
  /\ tracked' = [p \in Paths |-> 0] /\ backups' = <<>> /\ snapshots' = <<>> /\ reused' = {}
  /\ UNCHANGED <<onDisk, readAt, knows, before, clobbered>>

FilesNext ==
  \/ \E e \in Editors, p \in Paths : ReadFile(e, p) \/ WriteRefused(e, p) \/ WriteDone(e, p)
  \/ \E p \in Paths : OutsideWrites(p)
  \/ MakeSnapshot \/ Rewind \/ NewHistory

FilesSpec == FilesInit /\ [][FilesNext]_fileVars

-----------------------------------------------------------------------------
(* The gate of the state cache: a text of the user's editor, of a command  *)
(* or of a rewind is replaced only after some agent has read it.  Another  *)
(* agent's reading is enough, because the cache is one for all of them.    *)
NothingUnseenReplaced == {} \notin clobbered

(* A checkpoint stands for the text a file had before its last edit (or,   *)
(* when it had none then, at the next checkpoint), and keeps it while      *)
(* edits, refused edits, rewinds and new edits under the same numbers      *)
(* follow.  Two exceptions: a file that was absent may get the text of a   *)
(* later checkpoint, and an edit of an absent file after a rewind takes    *)
(* over the backup of the abandoned future.                                *)
CheckpointsStand ==
  \A n \in 1 .. Len(snapshots) : \A p \in Paths :
    LET s == snapshots[n]
    IN s.version[p] > 0 =>
         s.text[p] = NoFile \/ p \in s.reused \/ Restored(s, p) = s.text[p]
=============================================================================
