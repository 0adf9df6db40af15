--------------------------- MODULE TerminalFront ---------------------------
(***************************************************************************)
(* The Textual front end (app.py).  The input handler, the notification    *)
(* timer and the message tasks share `_streaming`, `_agent_task` and the   *)
(* conversation.  A task sets `_streaming` in its first slice, or only     *)
(* after the MCP servers are connected, and not where it is created.       *)
(***************************************************************************)
EXTENDS Integers, FiniteSets, SequencesExt

CONSTANTS MaxTurnsAsked,   \* bound: message tasks
          MaxFinds         \* bound: background completions, and letters to the lead

ASSUME TerminalAssumption == MaxTurnsAsked \in Nat \ {0} /\ MaxFinds \in Nat

TurnTasks == 1 .. MaxTurnsAsked
NoTurn == 0
Why == {"poll found both", "new input met a notification", "flag not set yet", "command"}

VARIABLES
  screen,    \* `_streaming`, `_agent_task`, MCP ready, the state of the input handler
  turns,     \* every message task
  asked,     \* tasks with a cancellation under way
  finds,     \* what waits outside: completions and letters
  inTalk,    \* the completions and letters the conversation holds
  snapshot,  \* the conversation a /compact in the foreground has summarised
  excuses,   \* ghost: the situations that let two runs share the conversation
  polled     \* ghost: completions and letters that were taken

screenVars == <<screen, turns, asked, finds, inTalk, snapshot, excuses, polled>>

Found == [kind : {"completion", "letter"}, no : 1 .. MaxFinds]

ScreenTypeOK ==
  /\ screen \in [streaming : BOOLEAN, task : TurnTasks \cup {NoTurn}, mcp : BOOLEAN,
                 input : {"idle", "superseding", "command"}, waits : TurnTasks \cup {NoTurn}]
  /\ turns \in [TurnTasks -> {"none", "created", "connecting", "running", "over"}]
  /\ asked \subseteq TurnTasks
  /\ finds \subseteq Found /\ polled \subseteq Found
  /\ inTalk \subseteq Found /\ snapshot \subseteq Found
  /\ excuses \subseteq Why

ScreenInit ==
  /\ screen = [streaming |-> FALSE, task |-> NoTurn, mcp |-> FALSE, input |-> "idle", waits |-> NoTurn]
  /\ turns = [t \in TurnTasks |-> "none"] /\ asked = {}
  /\ finds = {} /\ polled = {} /\ inTalk = {} /\ snapshot = {} /\ excuses = {}

Alive(t) == t # NoTurn /\ turns[t] \in {"created", "connecting", "running"}
Working == {t \in TurnTasks : turns[t] = "running"}
LiveTurns == {t \in TurnTasks : Alive(t)}
Unflagged == {t \in TurnTasks : turns[t] \in {"created", "connecting"}}
FirstNew(n) == {t \in TurnTasks : turns[t] = "none" /\ Cardinality({u \in 1 .. t - 1 : turns[u] = "none"}) < n}
NewTasks(S) == turns' = [t \in TurnTasks |-> IF t \in S THEN "created" ELSE turns[t]]
Room(n) == Cardinality(FirstNew(n)) = n
Newest(S) == CHOOSE t \in S : \A u \in S : u <= t
Excused(why) == excuses' = excuses \cup why

-----------------------------------------------------------------------------
\* A message is typed.  A response that streams is cancelled and waited for first.
Submit ==
  /\ screen.input = "idle" /\ Room(1)
  /\ IF screen.streaming /\ Alive(screen.task)
     THEN /\ asked' = asked \cup {screen.task}
          /\ screen' = [screen EXCEPT !.input = "superseding", !.waits = screen.task]
          /\ UNCHANGED <<turns, excuses>>
     ELSE /\ NewTasks(FirstNew(1))
          /\ screen' = [screen EXCEPT !.streaming = FALSE, !.task = Newest(FirstNew(1))]
          /\ Excused(IF Unflagged = {} THEN {} ELSE {"flag not set yet"})
          /\ UNCHANGED asked
  /\ UNCHANGED <<finds, inTalk, snapshot, polled>>

\* Mutant: the message gets its task while the cancelled one still winds up.
SupersededAtOnce ==
  /\ screen.input = "superseding" /\ Room(1)
  /\ NewTasks(FirstNew(1))
  /\ screen' = [screen EXCEPT !.streaming = FALSE, !.task = Newest(FirstNew(1)),
                              !.input = "idle", !.waits = NoTurn]
  /\ UNCHANGED <<asked, finds, inTalk, snapshot, excuses, polled>>

\* The cancelled task is over: the flags are reset and the message gets its task.
Superseded ==
  /\ screen.input = "superseding" /\ ~ Alive(screen.waits) /\ Room(1)
  /\ NewTasks(FirstNew(1))
  /\ screen' = [screen EXCEPT !.streaming = FALSE, !.task = Newest(FirstNew(1)),
                              !.input = "idle", !.waits = NoTurn]
  /\ Excused(IF LiveTurns = {} THEN {} ELSE {"new input met a notification"})
  /\ UNCHANGED <<asked, finds, inTalk, snapshot, polled>>

\* A message task begins; with MCP servers under way it waits without a flag set.
TurnBegins(t) ==
  /\ turns[t] = "created" /\ t \notin asked
  /\ IF screen.mcp
     THEN /\ turns' = [turns EXCEPT ![t] = "running"]
          /\ screen' = [screen EXCEPT !.streaming = TRUE]
     ELSE /\ turns' = [turns EXCEPT ![t] = "connecting"]
          /\ UNCHANGED screen
  /\ UNCHANGED <<asked, finds, inTalk, snapshot, excuses, polled>>

TurnConnected(t) ==
  /\ turns[t] = "connecting" /\ screen.mcp /\ t \notin asked
  /\ turns' = [turns EXCEPT ![t] = "running"]
  /\ screen' = [screen EXCEPT !.streaming = TRUE]
  /\ UNCHANGED <<asked, finds, inTalk, snapshot, excuses, polled>>

ScreenConnected ==
  /\ ~ screen.mcp
  /\ screen' = [screen EXCEPT !.mcp = TRUE]
  /\ UNCHANGED <<turns, asked, finds, inTalk, snapshot, excuses, polled>>

\* Completed background work goes into the conversation and gets a task of its own.
Completed == {f \in finds : f.kind = "completion"}
Notes == {f \in finds : f.kind = "letter"}
Taken(S) == /\ finds' = finds \ S /\ polled' = polled \cup S /\ inTalk' = inTalk \cup S

\* A run ends, fails or is cancelled; its cleanup looks for completed work at once.
TurnEnds(t) ==
  /\ turns[t] = "running"
  /\ IF Completed = {}
     THEN /\ turns' = [turns EXCEPT ![t] = "over"]
          /\ screen' = [screen EXCEPT !.streaming = FALSE, !.task = NoTurn]
          /\ UNCHANGED <<finds, polled, inTalk, excuses>>
     ELSE /\ Room(1)
          /\ turns' = [u \in TurnTasks |-> IF u = t THEN "over"
                                          ELSE IF u \in FirstNew(1) THEN "created" ELSE turns[u]]
          /\ screen' = [screen EXCEPT !.streaming = FALSE, !.task = Newest(FirstNew(1))]
          /\ Taken(Completed)
          /\ Excused(IF Unflagged = {} THEN {} ELSE {"flag not set yet"})
  /\ asked' = asked \ {t}
  /\ UNCHANGED snapshot

\* A task that is cancelled before `_streaming` is set ends without any cleanup.
TurnNeverRan(t) ==
  /\ turns[t] \in {"created", "connecting"} /\ t \in asked
  /\ turns' = [turns EXCEPT ![t] = "over"] /\ asked' = asked \ {t}
  /\ UNCHANGED <<screen, finds, inTalk, snapshot, excuses, polled>>

\* Ctrl-C cancels the task the screen knows of.
CancelPressed ==
  /\ Alive(screen.task)
  /\ asked' = asked \cup {screen.task}
  /\ UNCHANGED <<screen, turns, finds, inTalk, snapshot, excuses, polled>>

\* Every two seconds: completions, then letters to the lead, each with a task.
Tick ==
  /\ ~ screen.streaming /\ finds # {}
  /\ LET n == (IF Completed # {} THEN 1 ELSE 0) + (IF Notes # {} THEN 1 ELSE 0)
     IN /\ Room(n)
        /\ NewTasks(FirstNew(n))
        /\ screen' = [screen EXCEPT !.task = Newest(FirstNew(n))]
        /\ Excused((IF n = 2 THEN {"poll found both"} ELSE {})
                   \cup (IF Unflagged = {} THEN {} ELSE {"flag not set yet"}))
  /\ Taken(finds)
  /\ UNCHANGED <<asked, snapshot>>

\* A slash command is handled while a response may stream: /compact summarises
\* what the conversation holds now and replaces it when the model has answered.
CommandBegins ==
  /\ screen.input = "idle"
  /\ screen' = [screen EXCEPT !.input = "command"]
  /\ snapshot' = inTalk
  /\ UNCHANGED <<turns, asked, finds, inTalk, excuses, polled>>

CommandEnds ==
  /\ screen.input = "command"
  /\ screen' = [screen EXCEPT !.input = "idle"]
  /\ inTalk' = snapshot /\ snapshot' = {}
  /\ Excused(IF inTalk = snapshot THEN {} ELSE {"command"})
  /\ UNCHANGED <<turns, asked, finds, polled>>

Outside ==
  /\ \E f \in Found \ (finds \cup polled) : finds' = finds \cup {f}
  /\ UNCHANGED <<screen, turns, asked, inTalk, snapshot, excuses, polled>>

ScreenNext ==
  \/ Submit \/ Superseded \/ ScreenConnected \/ CancelPressed \/ Tick
  \/ CommandBegins \/ CommandEnds \/ Outside
  \/ \E t \in TurnTasks : TurnBegins(t) \/ TurnConnected(t) \/ TurnEnds(t) \/ TurnNeverRan(t)

ScreenSpec == ScreenInit /\ [][ScreenNext]_screenVars

-----------------------------------------------------------------------------
(* Two runs of the agent share the conversation only in the situations the *)
(* model names: one poll that found completions and letters, new input     *)
(* that met the notification run of the response it replaced, and a task   *)
(* created while an earlier one had not set `_streaming` yet (it waits for *)
(* the MCP servers, or its first slice).  Otherwise the run that works is  *)
(* the one the screen shows and Ctrl-C cancels.  A compaction by command   *)
(* is the only thing that takes a completion or a letter out of the        *)
(* conversation again.                                                     *)
ScreenTellsTheTruth ==
  /\ excuses \subseteq {"command"} =>
       /\ Cardinality(Working) <= 1
       /\ \A t \in Working : screen.streaming /\ screen.task = t
  /\ "command" \notin excuses => polled \subseteq inTalk
=============================================================================
