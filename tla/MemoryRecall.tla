---------------------------- MODULE MemoryRecall ----------------------------
(***************************************************************************)
(* Memories recalled into a conversation: the search starts when a request  *)
(* is sent, its result is waited for by the first iteration of the run      *)
(* (memory/recall.py, _prefetch_relevant_memories in app.py,                *)
(* _consume_memory_recall in agent.py).                                     *)
(***************************************************************************)
EXTENDS Naturals

CONSTANTS
    Talks,        \* bound: the sessions
    Memories,    \* the memory files
    MaxSends     \* bound: requests

ASSUME RecallAssumption == Talks # {} /\ MaxSends \in Nat

VARIABLES
    recall,     \* [known, from, into]: memory_recall_task; what the search leaves out,
                \* the session it started in and the one the run is bound to
    surfaced,   \* SurfacedMemoryStore and its copy in memory, by session
    tellings,       \* history: how often a session was told a memory
    slipped,    \* history: memories searched for one session and told to another
    inSession, sends

recallVars == <<recall, surfaced, tellings, slipped, inSession, sends>>

NoRecall == [known |-> {}, from |-> "none", into |-> "none"]

RecallInit ==
    /\ recall = NoRecall /\ slipped = {} /\ sends = 0
    /\ surfaced = [s \in Talks |-> {}] /\ tellings = [s \in Talks |-> [m \in Memories |-> 0]]
    /\ inSession = CHOOSE s \in Talks : TRUE

\* Mutant: the candidates include what the session was told.
KnownNothing == {}

\* _prefetch_relevant_memories: what the session has been told so far is no candidate.
Known == surfaced[inSession]

\* A request, also one that supersedes another whose recall was not used yet.
SendAsked ==
    /\ sends < MaxSends /\ sends' = sends + 1
    /\ recall' = [known |-> Known, from |-> inSession, into |-> "none"]
    /\ UNCHANGED <<surfaced, tellings, slipped, inSession>>

\* The message is on the screen: the run is bound to the session of this moment.
RunBound ==
    /\ recall.from # "none" /\ recall.into = "none"
    /\ recall' = [recall EXCEPT !.into = inSession]
    /\ UNCHANGED <<surfaced, tellings, slipped, inSession, sends>>

Candidates == Memories \ recall.known

\* At most five files the selector chose of the candidates and that can be read; a
\* selector that fails or takes too long chooses none.
Chosen == SUBSET Candidates

\* _mark_surfaced_memories: added to what the session's store holds and saved.
Marked(s, found) == [surfaced EXCEPT ![s] = @ \cup found]

\* _consume_memory_recall, in the first iteration of the run.
Recalled(found) ==
    /\ recall.into # "none"
    /\ surfaced' = Marked(recall.into, found)
    /\ tellings' = [tellings EXCEPT ![recall.into] =
                    [m \in Memories |-> @[m] + IF m \in found THEN 1 ELSE 0]]
    /\ slipped' = IF recall.from = recall.into THEN slipped ELSE slipped \cup found
    /\ recall' = NoRecall
    /\ UNCHANGED <<inSession, sends>>

TurnToSession(s) ==
    /\ s # inSession /\ inSession' = s
    /\ UNCHANGED <<recall, surfaced, tellings, slipped, sends>>

RecallNext ==
    \/ SendAsked \/ RunBound
    \/ \E found \in Chosen : Recalled(found)
    \/ \E s \in Talks : TurnToSession(s)
RecallSpec == RecallInit /\ [][RecallNext]_recallVars

-----------------------------------------------------------------------------
RecallTypeOK ==
    /\ recall \in [known : SUBSET Memories, from : Talks \cup {"none"}, into : Talks \cup {"none"}]
    /\ surfaced \in [Talks -> SUBSET Memories] /\ slipped \subseteq Memories
    /\ tellings \in [Talks -> [Memories -> 0..MaxSends]] /\ inSession \in Talks /\ sends \in 0..MaxSends

\* A session is told a memory once, whatever its runs and however they were
\* superseded, unless it was switched to between the search and the run.
ToldOnce == \A s \in Talks, m \in Memories \ slipped : tellings[s][m] <= 1
=============================================================================
