---------------------------- MODULE RemoteFront ----------------------------
(***************************************************************************)
(* The front end for browsers (remote.py).  Every message of a client is   *)
(* handled by a task of its own, and a poller turns finished background    *)
(* work into a message to the agent.  Only `_streaming` keeps their runs   *)
(* apart.  Between two awaits a handler is atomic.                         *)
(*                                                                         *)
(* A plan is shown to the user, who approves, changes or rejects it after  *)
(* the run that wrote it ended; the file may be edited meanwhile.          *)
(***************************************************************************)
EXTENDS Integers, Sequences, FiniteSets

CONSTANTS RemoteRequests,   \* requests of clients: an interval 1 .. n
          Poller,           \* the notification poller
          Completions,      \* background tasks that finish
          RemoteSessions,         \* sessions on disk and to come; the program starts in session 1
          NoRunner,         \* `_streaming` is False
          MaxEdits          \* bound: how often the plan file is written, and shown

ASSUME RemoteAssumption ==
  /\ RemoteRequests = 1 .. Cardinality(RemoteRequests)
  /\ Poller \notin RemoteRequests /\ NoRunner \notin RemoteRequests \cup {Poller}
  /\ MaxEdits \in Nat \ {0} /\ 1 \in RemoteSessions

RemoteKinds == {"message", "compact", "switch", "clear", "plan", "approve", "feedback", "reject"}
Runners == RemoteRequests \cup {Poller}
NoPlan == [id |-> 0, text |-> 0]

VARIABLES
  front,      \* streaming, the session, plan mode and the plan that waits for its approval
  request,    \* every request: what it asks, which plan it answers, how far it is
  planFile,   \* the version of the plan on disk
  pending,    \* runs with an open permission request or question
  words,      \* the completions the conversation in use holds
  taken,      \* completions the poller has taken and not yet told
  polling,    \* the poller still runs
  waiting,    \* completions in the task manager, with the session they belong to
  kept,       \* what a compaction has summarised, and whether its conversation is in use
  shown,      \* ghost: the text of every plan that was shown
  carried,    \* ghost: the plan, and the text, that an approved run was given
  ended,   \* ghost: the completions there were
  gone        \* ghost: completions no conversation in use will tell of, with the reason

completionVars == <<words, taken, polling, waiting, ended, gone>>
remoteVars == <<front, request, planFile, pending, kept, shown, carried, completionVars>>

RemoteTypeOK ==
  /\ front \in [run : Runners \cup {NoRunner}, session : RemoteSessions, planning : BOOLEAN,
                plan : [id : Nat, text : 0 .. MaxEdits], shows : 0 .. MaxEdits,
                cancelled : BOOLEAN]
  /\ request \in [RemoteRequests ->
       [kind : RemoteKinds, names : Nat,
        at : {"unused", "spawned", "run", "announced", "compacting", "over"}]]
  /\ planFile \in 0 .. MaxEdits
  /\ pending \subseteq Runners
  /\ words \cup taken \cup DOMAIN waiting \cup kept.of \subseteq ended
  /\ ended \subseteq Completions
  /\ \A g \in gone : g.what \in ended

Nothing == [live |-> FALSE, of |-> {}]

RemoteInit ==
  /\ front = [run |-> NoRunner, session |-> 1, planning |-> FALSE, plan |-> NoPlan, shows |-> 0,
               cancelled |-> FALSE]
  /\ request = [r \in RemoteRequests |-> [kind |-> "message", names |-> 0, at |-> "unused"]]
  /\ planFile = 0
  /\ pending = {} /\ words = {}
  /\ taken = {} /\ polling = TRUE /\ ended = {} /\ waiting = [c \in {} |-> 1]
  /\ kept = Nothing
  /\ shown = <<>> /\ carried = [r \in {} |-> NoPlan] /\ gone = {}

\* What is over is forgotten, but for the answer that had a plan carried out.
Reached(r, at) ==
  request' = [request EXCEPT ![r] = IF at = "over" /\ r \notin DOMAIN carried
                                    THEN [kind |-> "message", names |-> 0, at |-> at]
                                    ELSE [@ EXCEPT !.at = at]]
Idle == front.run = NoRunner /\ front.plan = NoPlan
Lost(cs, why) == gone' = gone \cup [what : cs, why : {why}]

-----------------------------------------------------------------------------
(* Clients and requests.                                                   *)

\* A client sends something; the answer to a plan names the plan it was shown.
Arrives(r) ==
  /\ request[r].at = "unused" /\ \A q \in 1 .. r - 1 : request[q].at # "unused"
  /\ \E k \in RemoteKinds, names \in 0 .. front.shows :
       /\ (k \in {"approve", "feedback", "reject"}) = (names # 0)
       /\ request' = [request EXCEPT ![r] = [kind |-> k, names |-> names, at |-> "spawned"]]
  /\ UNCHANGED <<front, planFile, pending, kept, shown, carried, completionVars>>

\* A handler begins while a run streams, or while a plan waits: nothing happens.
Refused(r) ==
  /\ request[r].at = "spawned"
  /\ request[r].kind \in {"message", "compact", "switch", "clear", "plan"} /\ ~ Idle
  /\ Reached(r, "over")
  /\ UNCHANGED <<front, planFile, pending, kept, shown, carried, completionVars>>

\* A message starts a run at once: nothing is awaited after `_streaming` was read.
MessageRuns(r) ==
  /\ request[r].at = "spawned" /\ request[r].kind = "message" /\ Idle
  /\ front' = [front EXCEPT !.run = r, !.cancelled = FALSE]
  /\ Reached(r, "run")
  /\ UNCHANGED <<planFile, pending, kept, shown, carried, completionVars>>

\* /plan: the mode changes.
PlanMode(r) ==
  /\ request[r].at = "spawned" /\ request[r].kind = "plan" /\ Idle
  /\ front' = [front EXCEPT !.planning = TRUE]
  /\ Reached(r, "over")
  /\ UNCHANGED <<planFile, pending, kept, shown, carried, completionVars>>

\* /session switches to a new session or to one on disk, /clear stays in its own:
\* either way another conversation takes the place of the one in use, of which
\* this front end writes nothing to the session's log.
ConversationReplaced(r) ==
  /\ request[r].at = "spawned" /\ Idle
  /\ \/ /\ request[r].kind = "switch"
        /\ \E s \in RemoteSessions \ {front.session} :
             front' = [front EXCEPT !.session = s, !.plan = NoPlan]
        /\ pending' = {}
     \/ request[r].kind = "clear" /\ UNCHANGED <<front, pending>>
  /\ words' = {} /\ Lost(words, "dropped")
  /\ kept' = [kept EXCEPT !.live = FALSE]
  /\ Reached(r, "over")
  /\ UNCHANGED <<planFile, taken, polling, waiting, ended, shown, carried>>

\* /compact announces itself, then summarises the conversation of that moment,
\* then replaces what the conversation holds; `_streaming` stays False throughout.
CompactAnnounced(r) ==
  /\ request[r].at = "spawned" /\ request[r].kind = "compact" /\ Idle
  /\ Reached(r, "announced")
  /\ UNCHANGED <<front, planFile, pending, kept, shown, carried, completionVars>>

CompactSummarises(r) ==
  /\ request[r].at = "announced" /\ \A q \in RemoteRequests : request[q].at # "compacting"
  /\ kept' = [live |-> TRUE, of |-> words]
  /\ Reached(r, "compacting")
  /\ UNCHANGED <<front, planFile, pending, shown, carried, completionVars>>

CompactEnds(r) ==
  /\ request[r].at = "compacting"
  /\ \/ kept.live /\ words' = kept.of /\ Lost(words \ kept.of, "compacted")
     \/ UNCHANGED <<words, gone>>
  /\ kept' = Nothing
  /\ Reached(r, "over")
  /\ UNCHANGED <<front, planFile, pending, taken, polling, waiting, ended, shown, carried>>

-----------------------------------------------------------------------------
(* A run.                                                                  *)

\* The agent asks for a permission or asks the user; the client answers, or the
\* question runs into its timeout of five minutes.
RunAsks ==
  /\ front.run # NoRunner /\ front.run \notin pending
  /\ pending' = pending \cup {front.run}
  /\ UNCHANGED <<front, request, planFile, kept, shown, carried, completionVars>>

RunAnswered ==
  /\ \E r \in pending : pending' = pending \ {r}
  /\ UNCHANGED <<front, request, planFile, kept, shown, carried, completionVars>>

\* The agent, or the user in an editor, writes the plan file.
PlanWritten ==
  /\ planFile < MaxEdits
  /\ planFile' = planFile + 1
  /\ UNCHANGED <<front, request, pending, kept, shown, carried, completionVars>>

\* ExitPlanMode succeeded: the plan is read and shown under a fresh name.
PlanShown ==
  /\ front.run # NoRunner /\ front.run \notin pending
  /\ front.planning /\ planFile > 0 /\ front.shows < MaxEdits
  /\ front' = [front EXCEPT !.plan = [id |-> front.shows + 1, text |-> planFile],
                            !.shows = @ + 1]
  /\ shown' = Append(shown, planFile)
  /\ UNCHANGED <<request, planFile, pending, kept, carried, completionVars>>

CancelSent ==
  /\ front.run # NoRunner /\ ~ front.cancelled
  /\ front' = [front EXCEPT !.cancelled = TRUE]
  /\ UNCHANGED <<request, planFile, pending, kept, shown, carried, completionVars>>

\* The loop ends, is cancelled or fails: open requests are denied.
RunOver ==
  /\ front.run # NoRunner /\ (front.run \in pending => front.cancelled)
  /\ front' = [front EXCEPT !.run = NoRunner, !.cancelled = FALSE]
  /\ pending' = {}
  /\ IF front.run = Poller THEN UNCHANGED request ELSE Reached(front.run, "over")
  /\ UNCHANGED <<planFile, kept, shown, carried, completionVars>>

-----------------------------------------------------------------------------
(* The answer to a plan.                                                   *)

AnswerFits(r) ==
  /\ request[r].at = "spawned" /\ request[r].kind \in {"approve", "feedback", "reject"}
  /\ front.run = NoRunner /\ front.plan # NoPlan /\ request[r].names = front.plan.id

\* An answer while a run streams, or to a plan that no longer waits, is dropped.
AnswerDropped(r) ==
  /\ request[r].at = "spawned" /\ request[r].kind \in {"approve", "feedback", "reject"}
  /\ ~ AnswerFits(r)
  /\ Reached(r, "over")
  /\ UNCHANGED <<front, planFile, pending, kept, shown, carried, completionVars>>


PlanAsShown == planFile = front.plan.text

PlanApproved(r) ==
  /\ AnswerFits(r) /\ request[r].kind = "approve"
  /\ IF PlanAsShown
     THEN /\ front' = [front EXCEPT !.plan = NoPlan, !.planning = FALSE, !.run = r,
                                  !.cancelled = FALSE]
          /\ carried' = [q \in DOMAIN carried \cup {r} |->
                           IF q = r THEN [id |-> request[r].names, text |-> planFile] ELSE carried[q]]
          /\ Reached(r, "run")
     ELSE /\ front' = [front EXCEPT !.plan = NoPlan]
          /\ Reached(r, "over") /\ UNCHANGED carried
  /\ UNCHANGED <<planFile, pending, kept, shown, completionVars>>

PlanAnswered(r) ==
  /\ AnswerFits(r)
  /\ \/ /\ request[r].kind = "feedback"
        /\ front' = [front EXCEPT !.plan = NoPlan, !.run = r, !.cancelled = FALSE]
        /\ Reached(r, "run")
     \/ /\ request[r].kind = "reject"
        /\ front' = [front EXCEPT !.plan = NoPlan]
        /\ Reached(r, "over")
  /\ UNCHANGED <<planFile, pending, kept, shown, carried, completionVars>>

-----------------------------------------------------------------------------
(* Background work.                                                        *)

TaskCompletes(c) ==
  /\ c \notin ended
  /\ ended' = ended \cup {c}
  /\ \E s \in RemoteSessions :
       waiting' = [d \in DOMAIN waiting \cup {c} |-> IF d = c THEN s ELSE waiting[d]]
  /\ UNCHANGED <<front, request, planFile, pending, words, taken, polling, kept, shown, carried, gone>>

Ours == {c \in DOMAIN waiting : waiting[c] = front.session}

\* The poller takes every completion and announces those of this session.
PollTakes ==
  /\ polling /\ Idle /\ taken = {} /\ DOMAIN waiting # {}
  /\ taken' = Ours /\ Lost(DOMAIN waiting \ Ours, "other session")
  /\ waiting' = [c \in {} |-> 1]
  /\ UNCHANGED <<front, request, planFile, pending, words, polling, ended, kept, shown, carried>>

\* A team's file or mailbox cannot be read or written: only a cancellation is
\* caught, so the poller ends, and with it what it had taken.
PollFails ==
  /\ polling /\ Idle /\ taken = {}
  /\ polling' = FALSE
  /\ Lost(DOMAIN waiting, "poller ended")
  /\ waiting' = [c \in {} |-> 1]
  /\ UNCHANGED <<front, request, planFile, pending, words, taken, ended, kept, shown, carried>>

\* The announcement is over.  A request that came first has it thrown away; a
\* conversation that came first, of this session or another, is told.
PollTells ==
  /\ taken # {}
  /\ IF Idle
     THEN /\ front' = [front EXCEPT !.run = Poller, !.cancelled = FALSE]
          /\ words' = words \cup taken
          /\ UNCHANGED gone
     ELSE Lost(taken, "busy") /\ UNCHANGED <<front, words>>
  /\ taken' = {}
  /\ UNCHANGED <<request, planFile, pending, polling, waiting, ended, kept, shown, carried>>

RemoteNext ==
  \/ \E r \in RemoteRequests :
       \/ Arrives(r) \/ Refused(r) \/ MessageRuns(r) \/ PlanMode(r) \/ ConversationReplaced(r)
       \/ CompactAnnounced(r) \/ CompactSummarises(r) \/ CompactEnds(r)
       \/ AnswerDropped(r) \/ PlanApproved(r) \/ PlanAnswered(r)
  \/ RunAsks \/ RunAnswered \/ PlanWritten \/ PlanShown \/ CancelSent \/ RunOver
  \/ \E c \in Completions : TaskCompletes(c)
  \/ PollTakes \/ PollFails \/ PollTells

RemoteSpec == RemoteInit /\ [][RemoteNext]_remoteVars

-----------------------------------------------------------------------------
(* Between the handlers: requests that are open belong to the one run that *)
(* streams.  A run leaves plan mode only with the text the user was shown  *)
(* under the name the user answered, and no plan is carried out twice.     *)
(* (`_settle_interactions`, "Consume once before scheduling another run".) *)
RemoteInOrder ==
  /\ pending \subseteq {front.run}
  /\ Cardinality({r \in RemoteRequests : request[r].at = "run"} \cup ({Poller} \cap {front.run}))
       = IF front.run = NoRunner THEN 0 ELSE 1
  /\ \A r \in DOMAIN carried : carried[r] = [id |-> request[r].names, text |-> shown[request[r].names]]
  /\ \A r, q \in DOMAIN carried : carried[r].id = carried[q].id => r = q

PlacesOf(c) ==
  {g.why : g \in {h \in gone : h.what = c}}
    \cup {p \in {"waiting", "taken", "told"} : \/ p = "waiting" /\ c \in DOMAIN waiting
                                               \/ p = "taken" /\ c \in taken
                                               \/ p = "told" /\ c \in words}

(* While the program lives, a completion of background work is at exactly  *)
(* one place: it waits, is taken, is told by the conversation in use, or is *)
(* lost to it for one of five reasons: it belonged to another session when *)
(* it was polled, a request came while it was announced, the conversation  *)
(* that held it was replaced, a compaction replaced what it held, or the   *)
(* poll that took it failed.                                               *)
CompletionsAccounted ==
  \A c \in Completions :
    /\ Cardinality(PlacesOf(c)) = (IF c \in ended THEN 1 ELSE 0)
    /\ "busy" \in PlacesOf(c) => \E r \in RemoteRequests : request[r].at # "unused"
=============================================================================
