----------------------------- MODULE MemoryNotes -----------------------------
(***************************************************************************)
(* Memories taken from a conversation in the background                     *)
(* (memory/auto_memory.py and its callers in agent.py and app.py).          *)
(***************************************************************************)
EXTENDS Naturals, Sequences

CONSTANTS
    Chats,          \* bound: the sessions, each with its conversation
    ExtractEvery,   \* MEMORY_EXTRACTION_INTERVAL
    MaxSaid         \* bound: messages

NoChat == "no conversation"
ASSUME MemoryAssumption == /\ Chats # {} /\ NoChat \notin Chats
                           /\ ExtractEvery \in Nat \ {0} /\ MaxSaid \in Nat

VARIABLES
    diary,     \* [said, ids, counted, loops, noted, repeated]: the messages of each
               \* conversation and how many there were, _last_extraction_msg_count,
               \* _loop_count, the messages extracted, and those extracted again
    chat,      \* the conversation of the front end
    due,       \* the conversations an extraction was scheduled for
    taking,    \* [of, batch]: the extraction under way
    stashed,   \* _pending_extraction
    overtaken, \* history: messages appended while their conversation was extracted
    replaced   \* history: "compacted" and "left", when a conversation was compacted or
               \* left for another one

notesVars == <<diary, chat, due, taking, stashed, overtaken, replaced>>

NotesInit ==
    /\ diary = [said |-> [c \in Chats |-> <<>>], ids |-> 0, counted |-> 0, loops |-> 0,
                noted |-> {}, repeated |-> {}]
    /\ chat \in {CHOOSE c \in Chats : TRUE}
    /\ due = {} /\ taking = [of |-> NoChat, batch |-> {}] /\ stashed = FALSE
    /\ overtaken = {} /\ replaced = {}

NextMessage == diary.ids + 1

-----------------------------------------------------------------------------
\* A message joins the conversation; a text answer counts as a loop, and every
\* ExtractEvery-th one schedules an extraction.
Say(answer) ==
    /\ NextMessage <= MaxSaid
    /\ diary' = [diary EXCEPT !.said[chat] = Append(@, NextMessage), !.ids = @ + 1,
                              !.loops = IF answer THEN @ + 1 ELSE @]
    /\ due' = IF answer /\ diary'.loops % ExtractEvery = 0 THEN due \cup {chat} ELSE due
    /\ overtaken' = IF taking.of = chat THEN overtaken \cup {NextMessage} ELSE overtaken
    /\ UNCHANGED <<chat, taking, stashed, replaced>>

\* extract: the messages past the count.
Recent(n, c) == {n.said[c][i] : i \in {j \in DOMAIN n.said[c] : j > n.counted}}

\* _extract_memories: a request during an extraction is only remembered.
ExtractionAsked(c) ==
    /\ c \in due
    /\ due' = due \ {c}
    /\ IF taking.of # NoChat
       THEN stashed' = TRUE /\ UNCHANGED taking
       ELSE /\ taking' = IF Recent(diary, c) = {} THEN taking
                         ELSE [of |-> c, batch |-> Recent(diary, c)]
            /\ UNCHANGED stashed
    /\ UNCHANGED <<diary, chat, overtaken, replaced>>

\* Mutant: a failed extraction counts its messages too.
CountedAnyway(ok) == [diary EXCEPT !.counted = Len(diary.said[taking.of]),
                                   !.noted = IF ok THEN @ \cup taking.batch ELSE @]

\* The model answered: everything the conversation holds by now counts as extracted.
NotesCounted(ok) ==
    IF ok THEN [diary EXCEPT !.counted = Len(diary.said[taking.of]),
                             !.noted = @ \cup taking.batch,
                             !.repeated = @ \cup (taking.batch \cap diary.noted)]
    ELSE diary

\* Mutant: what was asked meanwhile is forgotten to be run.
ExtractedOnly(ok) ==
    /\ taking.of # NoChat
    /\ diary' = NotesCounted(ok)
    /\ taking' = [of |-> NoChat, batch |-> {}] /\ UNCHANGED stashed
    /\ UNCHANGED <<chat, due, overtaken, replaced>>

\* It ends, or fails, or finds no text among the messages; what was asked meanwhile
\* runs at once, on the conversation of the extraction that ends.
Extracted(ok) ==
    /\ taking.of # NoChat
    /\ diary' = NotesCounted(ok)
    /\ taking' = IF stashed /\ Recent(diary', taking.of) # {}
                 THEN [of |-> taking.of, batch |-> Recent(diary', taking.of)]
                 ELSE [of |-> NoChat, batch |-> {}]
    /\ stashed' = FALSE
    /\ UNCHANGED <<chat, due, overtaken, replaced>>

\* Compaction puts a summary and the last message in the place of the history; the
\* front end may turn to another session.  The count stays what it was.
HistoryCompacted ==
    /\ NextMessage <= MaxSaid /\ Len(diary.said[chat]) > 2
    /\ diary' = [diary EXCEPT !.said[chat] = <<NextMessage, @[Len(@)]>>, !.ids = @ + 1]
    /\ replaced' = replaced \cup {"compacted"}
    /\ UNCHANGED <<chat, due, taking, stashed, overtaken>>

TurnTo(c) ==
    /\ chat # c
    /\ chat' = c /\ replaced' = replaced \cup {"left"}
    /\ UNCHANGED <<diary, due, taking, stashed, overtaken>>

NotesNext ==
    \/ \E answer \in BOOLEAN : Say(answer)
    \/ \E c \in Chats : ExtractionAsked(c) \/ TurnTo(c)
    \/ \E ok \in BOOLEAN : Extracted(ok)
    \/ HistoryCompacted
NotesMoves == (\E ok \in BOOLEAN : Extracted(ok)) \/ \E c \in Chats : ExtractionAsked(c)
NotesSpec == NotesInit /\ [][NotesNext]_notesVars /\ WF_notesVars(NotesMoves)

-----------------------------------------------------------------------------
NotesTypeOK ==
    /\ diary.said \in [Chats -> Seq(1..MaxSaid)]
    /\ diary.ids \in 0..MaxSaid /\ diary.counted \in 0..MaxSaid
    /\ chat \in Chats /\ due \subseteq Chats /\ taking.of \in Chats \cup {NoChat}

\* While one conversation goes on as it is, no message is passed over, but for those
\* appended while an extraction was under way.  None is extracted twice unless a
\* conversation was compacted and one was left for another: then the count may go
\* back to what the compacted one holds, which is less than was taken of another.
NotesAccounted ==
    /\ {"compacted", "left"} \subseteq replaced \/ diary.repeated = {}
    /\ \/ replaced # {}
       \/ \A i \in DOMAIN diary.said[chat] :
            i <= diary.counted => diary.said[chat][i] \in diary.noted \cup overtaken

\* A request made during an extraction does not stay behind for ever.
NotesSettle == []<>(~stashed /\ due = {})
=============================================================================
