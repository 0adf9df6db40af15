------------------------------ MODULE SessionLog -----------------------------
(***************************************************************************)
(* The JSONL transcript of a session, written behind the conversation by    *)
(* the terminal UI and replayed when the session is resumed                 *)
(* (memory/session.py, the cursor in app.py, checkpoint_store.py).          *)
(***************************************************************************)
EXTENDS Naturals, Sequences, FiniteSets, SequencesExt

CONSTANTS
    MaxMessages,    \* bound: messages of the conversation
    MaxResumes      \* bound

ASSUME SessionAssumption == {MaxMessages, MaxResumes} \subseteq Nat \ {0}

VARIABLES
    conv,      \* [hist, env, keep]: the messages in memory, whether the environment is
               \* injected, and the tail a compaction is about to keep
    cursor,    \* history_cursor: what is in the log already
    log,       \* the lines of the transcript, each whole
    torn,      \* whether a line without its end follows them
    indexed,     \* the checkpoints in the database
    at,        \* where the front end is
    count,     \* [msg, resume]
    happened   \* what may keep a message out of the log

sessionVars == <<conv, cursor, log, torn, indexed, at, count, happened>>

Entry(k, n) == [k |-> k, n |-> n]
Parts == 1..2                                    \* results of one message, a line each
Line(k, n, i, keep) == [k |-> k, n |-> n, i |-> i, keep |-> keep]

\* from_message: a message of results is one line per result.
LinesOf(m) == IF m.k = "results" THEN [i \in Parts |-> Line("result", m.n, i, <<>>)]
              ELSE <<Line(m.k, m.n, 0, <<>>)>>
AllLines(ms) == FlattenSeq([j \in 1..Len(ms) |-> LinesOf(ms[j])])

\* Appending to a file that ends in a torn line spoils the first new line with it.
Written(ls) == log \o IF torn /\ ls # <<>> THEN Tail(ls) ELSE ls

-----------------------------------------------------------------------------
\* _resume: from the last boundary, cut where calls without results begin.
Boundaries == {i \in 1..Len(log) : log[i].k = "boundary"}
Suffix == IF Boundaries = {} THEN log
          ELSE SubSeq(log, CHOOSE b \in Boundaries : \A c \in Boundaries : c <= b, Len(log))
Unlogged(ls, j) ==     \* validate_message_chain after j lines
    {np \in (1..MaxMessages) \X Parts :
        \E a \in 1..j : /\ ls[a].k = "calls" /\ ls[a].n = np[1]
                        /\ ~\E b \in a..j : ls[b].k = "result" /\ <<ls[b].n, ls[b].i>> = np}

ValidCount(ls) == CHOOSE j \in 0..Len(ls) : /\ j = 0 \/ Unlogged(ls, j) = {}
                                            /\ \A h \in (j + 1)..Len(ls) : Unlogged(ls, h) # {}
Replayed ==           \* records_to_messages, before results are grouped
    LET ls == SubSeq(Suffix, 1, ValidCount(Suffix)) IN
    FlattenSeq([j \in 1..Len(ls) |->
        IF ls[j].k = "boundary" THEN <<Line("summary", ls[j].n, 0, <<>>)>> \o AllLines(ls[j].keep)
        ELSE <<ls[j]>>])
Grouped(ls) ==        \* records_to_messages: results in a row are of one message
    LET group[j \in 0..Len(ls)] ==
          IF j = 0 THEN <<>>
          ELSE IF ls[j].k = "result" /\ j > 1 /\ ls[j - 1].k = "result" THEN group[j - 1]
          ELSE Append(group[j - 1], Entry(IF ls[j].k = "result" THEN "results" ELSE ls[j].k, ls[j].n))
    IN group[Len(ls)]

-----------------------------------------------------------------------------
SessionInit ==
    /\ conv = [hist |-> <<>>, env |-> FALSE, keep |-> <<>>] /\ cursor = 0
    /\ log = <<>> /\ torn = FALSE /\ indexed = {}
    /\ at = "idle" /\ count = [msg |-> 0, resume |-> 0] /\ happened = {}

Next1 == count.msg + 1
Took == /\ count.msg < MaxMessages /\ count' = [count EXCEPT !.msg = @ + 1]

\* A run begins: the cursor is set behind what is there now, logged or not; then
\* the agent puts the environment in front, and instructions and memories if any.
Opens(h) ==
    /\ cursor' = Len(h)
    /\ \E front \in {<<Entry("env", 0)>>, <<Entry("env", 0), Entry("env", 0)>>} :
         conv' = [conv EXCEPT !.hist = IF conv.env THEN h ELSE front \o h, !.env = TRUE]
    /\ at' = "running"

\* The user writes: the text goes to the conversation and to the log, a reminder of
\* the MCP servers that have connected meanwhile only to the conversation.
UserWrites ==
    /\ at = "idle" /\ Took
    /\ \E notes \in {<<>>, <<Entry("note", Next1)>>} :
         Opens(Append(conv.hist, Entry("user", Next1)) \o notes)
    /\ log' = Written(LinesOf(Entry("user", Next1))) /\ torn' = FALSE
    /\ UNCHANGED <<indexed, happened>>

\* A background task has finished or a letter came for the lead: a reminder joins
\* the conversation, and a run without a text is asked for ...
NoteArrives ==
    /\ at = "idle" /\ Took
    /\ conv' = [conv EXCEPT !.hist = Append(@, Entry("note", Next1))]
    /\ at' = "noted"
    /\ UNCHANGED <<cursor, log, torn, indexed, happened>>
\* ... which logs nothing, or does not begin while a workflow or a goal runs.
NotifiedRun ==
    /\ at = "noted"
    /\ \/ Opens(conv.hist)
       \/ at' = "idle" /\ UNCHANGED <<conv, cursor>>
    /\ UNCHANGED <<log, torn, indexed, count, happened>>

ToolTurn ==
    /\ at = "running" /\ Took
    /\ conv' = [conv EXCEPT !.hist = @ \o <<Entry("calls", Next1), Entry("results", Next1)>>]
    /\ at' = "turned"
    /\ UNCHANGED <<cursor, log, torn, indexed, happened>>
TextTurn ==
    /\ at = "running" /\ Took
    /\ conv' = [conv EXCEPT !.hist = Append(@, Entry("text", Next1))]
    /\ at' = "ended"
    /\ UNCHANGED <<cursor, log, torn, indexed, happened>>

\* TurnComplete or LoopComplete: everything behind the cursor is appended.
Behind == AllLines(SubSeq(conv.hist, cursor + 1, Len(conv.hist)))

Flush ==
    /\ at \in {"turned", "ended"}
    /\ log' = Written(Behind) /\ torn' = (torn /\ Behind = <<>>)
    /\ cursor' = Len(conv.hist)
    /\ at' = IF at = "turned" THEN "running" ELSE "idle"
    /\ UNCHANGED <<conv, indexed, count, happened>>

\* An automatic compaction: its notification is handled (the boundary written
\* and indexed, the cursor set behind the conversation as it is now) before the
\* agent replaces the conversation.
CutPoints == {c \in 3..Len(conv.hist) : conv.hist[c].k # "results"}
Compact ==
    /\ at = "running" /\ "compacted" \notin happened /\ Took
    /\ \E c \in CutPoints :
         LET keep == SubSeq(conv.hist, c, Len(conv.hist)) IN
         /\ log' = Written(<<Line("boundary", Next1, 0, keep)>>)
         /\ conv' = [conv EXCEPT !.keep = keep]
    /\ torn' = FALSE
    /\ indexed' = indexed \cup {Next1}
    /\ cursor' = Len(conv.hist)
    /\ happened' = happened \cup {"compacted"}
    /\ at' = "adopting"
Adopt1 ==
    /\ at = "adopting"
    /\ \E front \in {<<Entry("env", 0)>>, <<Entry("env", 0), Entry("env", 0)>>} :
         conv' = [hist |-> front \o <<Entry("summary", count.msg)>> \o conv.keep,
                  env |-> TRUE, keep |-> <<>>]
    /\ at' = "running"
    /\ UNCHANGED <<cursor, log, torn, indexed, count, happened>>

\* The run is cancelled or gives up: calls may be left without results, or a
\* turn without having been flushed.
Interrupted ==
    /\ at = "running" /\ Took
    /\ \E ms \in {<<>>, <<Entry("calls", Next1)>>, <<Entry("calls", Next1), Entry("results", Next1)>>} :
         conv' = [conv EXCEPT !.hist = @ \o ms]
    /\ happened' = happened \cup {"interrupted"}
    /\ at' = "idle"
    /\ UNCHANGED <<cursor, log, torn, indexed>>

\* The process dies, perhaps in the middle of an append or between the boundary
\* and its entry in the index.
Dies(lines, cut, ix) ==
    /\ at # "down"
    /\ log' = lines /\ torn' = cut /\ indexed' = ix
    /\ conv' = [hist |-> <<>>, env |-> FALSE, keep |-> <<>>] /\ cursor' = 0
    /\ happened' = happened \cup {"crashed"} /\ at' = "down"
    /\ UNCHANGED count
Crash1 == Dies(log, torn, indexed)
CrashInFlush ==
    /\ at \in {"turned", "ended"}
    /\ \E n \in 0..(Len(Behind) - 1), cut \in BOOLEAN :
         Dies(Written(SubSeq(Behind, 1, n)), cut \/ (torn /\ n = 0), indexed)
CrashBeforeIndex ==
    /\ at = "adopting" /\ Dies(log, torn, indexed \ {count.msg})

Resume ==
    /\ at = "down" /\ count.resume < MaxResumes
    /\ count' = [count EXCEPT !.resume = @ + 1]
    /\ conv' = [conv EXCEPT !.hist = Grouped(Replayed)]
    /\ indexed' = indexed \cup {log[b].n : b \in Boundaries}
    /\ at' = "idle"
    /\ UNCHANGED <<cursor, log, torn, happened>>

SessionNext ==
    \/ UserWrites \/ NoteArrives \/ NotifiedRun \/ ToolTurn \/ TextTurn \/ Flush \/ Compact \/ Adopt1
    \/ Interrupted \/ Crash1 \/ CrashInFlush \/ CrashBeforeIndex \/ Resume
SessionSpec == SessionInit /\ [][SessionNext]_sessionVars

-----------------------------------------------------------------------------
SessionTypeOK ==
    /\ conv.env \in BOOLEAN /\ torn \in BOOLEAN
    /\ \A i \in 1..Len(conv.hist) :
         conv.hist[i].k \in {"env", "user", "note", "calls", "results", "text", "summary"}
    /\ cursor \in Nat /\ indexed \subseteq 1..MaxMessages
    /\ at \in {"idle", "noted", "running", "turned", "ended", "adopting", "down"}
    /\ happened \subseteq {"compacted", "interrupted", "crashed"}

\* What a resumed session replays has all the results behind every line of calls,
\* even when an append was cut short, and no result elsewhere but a repeated one: the
\* first run after a resumption puts two messages in front, so that the cursor it has
\* set points two messages too low, and results that were the last are logged again.
ReplayIsWhole ==
    "compacted" \notin happened =>
      LET ls == Replayed IN
      /\ \A j \in 1..Len(ls) : ls[j].k = "calls" =>
           \A p \in Parts : j + p <= Len(ls) /\ ls[j + p] = Line("result", ls[j].n, p, <<>>)
      /\ \A j \in 1..Len(ls) : ls[j].k = "result" =>
           \/ \E p \in Parts : j > p /\ ls[j - p].k = "calls" /\ ls[j - p].n = ls[j].n
           \/ "crashed" \in happened /\ \E h \in 1..(j - 1) : ls[h] = ls[j]

\* What stood in the conversation before a cursor was set is logged by nobody else:
\* reminders from between two runs, and the agent's own front matter.
NotMeantForIt == {"env", "note"}
InLog(ms) == LET ls == Replayed IN
    \A i \in 1..Len(ms) : ms[i].k \notin NotMeantForIt =>
        \A l \in {LinesOf(ms[i])[j] : j \in 1..Len(LinesOf(ms[i]))} : \E j \in 1..Len(ls) : ls[j] = l

\* A session at rest that was neither interrupted nor compacted replays all that was
\* said in it - texts of the user and of the model, calls and results - but not the
\* reminders that came between two runs; and every boundary of the log is indexed.
RestIsLogged ==
    at = "idle" => /\ happened = {} => InLog(conv.hist)
                   /\ {log[b].n : b \in Boundaries} \subseteq indexed

\* app.py 1578-1582: after a compaction the cursor is moved to the end of the
\* rebuilt history, so that only new messages are appended behind the boundary.
\* They then are in what a resumed session replays.
CompactedTurnsLogged == at = "idle" /\ happened \subseteq {"compacted"} => InLog(conv.hist)
=============================================================================
