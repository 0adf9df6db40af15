------------------------------ MODULE Compaction -----------------------------
(***************************************************************************)
(* What a model request shows of the conversation: large tool results are   *)
(* spilled to files and replaced by previews, an old prefix is replaced by  *)
(* a summary, and files nothing refers to any more are reclaimed            *)
(* (context/manager.py, conversation.py, result_artifact_store.py and their *)
(* use in agent.py).                                                        *)
(***************************************************************************)
EXTENDS Naturals, Sequences, FiniteSets, FiniteSetsExt

CONSTANTS
    Results,        \* tool results, each of one call
    Size,           \* their sizes, in the unit of the limits below
    Single,         \* SINGLE_RESULT_CHAR_LIMIT
    Aggregate,      \* AGGREGATE_CHAR_LIMIT, for the results of one message
    KeepRecent,     \* KEEP_RECENT_TOKENS
    KeepMax,        \* KEEP_MAX_TOKENS
    MinKeep,        \* MIN_KEEP_MESSAGES
    MinPrefix,      \* MIN_SUMMARIZE_PREFIX_TOKENS
    MaxFailures,    \* of the circuit breaker
    MaxCompactions  \* bound

PerMessage == 2     \* bound: results of one message, whose previews fit in the aggregate limit
ASSUME CompactionAssumption ==
    /\ IsFiniteSet(Results) /\ Results \subseteq Nat   \* numbered as they came
    /\ Size \in [Results -> Nat \ {0}]
    /\ {Single, Aggregate, KeepRecent, KeepMax, MinKeep, MinPrefix, MaxFailures, MaxCompactions}
         \subseteq Nat \ {0}
    /\ PerMessage <= Aggregate

VARIABLES
    talk,      \* [hist, text]: the conversation, whether a result is raw or a preview in it
    budget,    \* [seen, replaced]: ContentReplacementState
    files,     \* spilled results on disk
    index,     \* result_artifacts row state, by result
    step,      \* where the agent is between two requests
    new,       \* the compacted conversation that is not adopted yet
    fails,     \* consecutive failures of the summary
    done,      \* compactions so far
    mishap     \* whether something happened that may cost a file

compactVars == <<talk, budget, files, index, step, new, fails, done, mishap>>

Msg(kind, rs) == [kind |-> kind, rs |-> rs]
Env == Msg("env", {})
InTalk(h) == UNION {h[i].rs : i \in {j \in 1..Len(h) : h[j].kind = "results"}}

-----------------------------------------------------------------------------
\* apply_tool_result_budget: what is decided stays decided; of the fresh results
\* of a message those over the limit go, then the largest until the rest fits.
Fresh(m) == {r \in m.rs : r \notin budget.seen \cup budget.replaced /\ talk.text[r] = "raw"}
Weight(size, rs) == MapThenSumSet(LAMBDA r : size[r], rs)
Shown(gone) == [r \in Results |-> IF r \in gone \/ talk.text[r] = "preview" THEN 1 ELSE Size[r]]
Ranked(r, s) == Size[r] > Size[s] \/ (Size[r] = Size[s] /\ r < s)
Spilled(m) ==
    LET large == {r \in Fresh(m) : Size[r] > Single}
        without(rs) == Weight(Shown(budget.replaced \cup rs), m.rs)
    IN large \cup {r \in Fresh(m) \ large :
                     without(large \cup {s \in Fresh(m) \ large : Ranked(s, r)}) > Aggregate}
Decided ==
    LET ms == {talk.hist[i] : i \in {j \in 1..Len(talk.hist) : talk.hist[j].kind = "results"}}
        tagged == {r \in InTalk(talk.hist) \ (budget.seen \cup budget.replaced) : talk.text[r] = "preview"}
    IN [seen |-> budget.seen \cup InTalk(talk.hist),
        replaced |-> budget.replaced \cup tagged \cup UNION {Spilled(m) : m \in ms}]
ViewText == [r \in Results |-> IF r \in budget.replaced THEN "preview" ELSE talk.text[r]]

\* _persist_tool_result: write the file, register the row.
Persist(rs) ==
    /\ files' = files \cup rs
    /\ index' = [r \in Results |-> IF r \in rs THEN "active" ELSE index[r]]

\* _compute_keep_start_index, _align_keep_start_to_tool_pair and
\* _prefix_too_small_to_compact, of a history whose results read text.
Cost(m, text) == IF m.kind # "results" THEN 1
                 ELSE Weight([r \in Results |-> IF text[r] = "preview" THEN 1 ELSE Size[r]], m.rs)
Spent(h, text, i, j) == MapThenSumSet(LAMBDA k : Cost(h[k], text), i..j)
KeepStart(h, text) ==
    LET n == Len(h) IN
    Min({i \in 1..n : \/ i = n
                      \/ /\ Spent(h, text, i, n) <= KeepMax
                         /\ Spent(h, text, i + 1, n) < KeepRecent
                         /\ n - i < MinKeep})

\* Mutant: the cut may fall between calls and their results.
AlignNever(h, k) == k

Align(h, k) == IF k > 1 /\ h[k].kind = "results" /\ h[k - 1].kind = "calls" THEN k - 1 ELSE k
Start(text) == Align(talk.hist, KeepStart(talk.hist, text))
Worth(text) == Start(text) > 1 /\ Spent(talk.hist, text, 1, Start(text) - 1) >= MinPrefix

\* Mutant: the references are read from the prefix that is cut off.
ReferencedBefore(tail, text) == InTalk(talk.hist) \ InTalk(tail)

\* _cleanup_result_artifacts: the rows of results the kept tail does not refer to.
Referenced(tail, text) ==
    LET named == {r \in InTalk(tail) : text[r] = "preview"} IN
    IF named # {} THEN named ELSE InTalk(tail)

-----------------------------------------------------------------------------
CompactInit ==
    /\ talk = [hist |-> <<Env, Msg("user", {})>>, text |-> [r \in Results |-> "raw"]]
    /\ budget = [seen |-> {}, replaced |-> {}]
    /\ files = {} /\ index = [r \in Results |-> "none"]
    /\ step = "idle" /\ new = <<>> /\ fails = 0 /\ done = 0 /\ mishap = FALSE

\* Layer 1, before every request.
ApplyBudget ==
    /\ step = "idle"
    /\ budget' = Decided
    /\ Persist(Decided.replaced \ (budget.replaced \cup {r \in Results : talk.text[r] = "preview"}))
    /\ step' = "budgeted"
    /\ UNCHANGED <<talk, new, fails, done, mishap>>

\* auto_compact below the soft limit, with the breaker open below the hard one,
\* or with too small a prefix: the request goes out as it is.
NoCompaction ==
    /\ step = "budgeted"
    /\ step' = "asking"
    /\ UNCHANGED <<talk, budget, files, index, new, fails, done, mishap>>

\* The summary cannot be had: an error event, and the request goes out.
SummaryFails ==
    /\ step \in {"budgeted", "manual"} /\ Worth(IF step = "manual" THEN talk.text ELSE ViewText)
    /\ fails < MaxFailures
    /\ fails' = fails + 1
    /\ step' = IF step = "manual" THEN "idle" ELSE "asking"
    /\ UNCHANGED <<talk, budget, files, index, new, done, mishap>>

\* The summary is there: the copy of the conversation is rewritten and the rows
\* of the artifacts are reconciled in one transaction.  Between the limits only
\* while the breaker is closed; above the hard one (zone) in any case.
Summarise(text) ==
    /\ done < MaxCompactions /\ Worth(text)
    /\ \E zone \in {"soft", "hard"} : step = "manual" \/ zone = "hard" \/ fails < MaxFailures
    /\ LET tail == SubSeq(talk.hist, Start(text), Len(talk.hist))
           kept == Referenced(tail, text)
       IN /\ new' = <<Msg("summary", {})>> \o tail
          /\ index' = [r \in Results |-> IF index[r] \notin {"active", "released"} THEN index[r]
                                      ELSE IF r \in kept THEN "active" ELSE "released"]
    /\ fails' = 0 /\ done' = done + 1
    /\ UNCHANGED <<talk, budget, files>>
AutoCompacts ==
    /\ step = "budgeted" /\ Summarise(ViewText)
    /\ step' = "sweeping"
    /\ UNCHANGED mishap

\* /compact between two runs works on the conversation itself, whose results are
\* raw where only the view of a request has a preview.
ManualStarts ==
    /\ step = "idle" /\ done < MaxCompactions
    /\ step' = "manual"
    /\ UNCHANGED <<talk, budget, files, index, new, fails, done, mishap>>
ManualSkips ==
    /\ step = "manual" /\ ~Worth(talk.text)
    /\ step' = "idle"
    /\ UNCHANGED <<talk, budget, files, index, new, fails, done, mishap>>
ManualCompacts ==
    /\ step = "manual" /\ Summarise(talk.text)
    /\ mishap' = TRUE
    /\ step' = "reclaiming"

\* sweep_released: unlink, then settle the row.
Unlink(r) ==
    /\ step \in {"sweeping", "reclaiming", "resumed"} /\ index[r] = "released" /\ r \in files
    /\ files' = files \ {r}
    /\ UNCHANGED <<talk, budget, index, step, new, fails, done, mishap>>

\* Mutant: a row whose file is gone already is left to the next sweep.
SettleIfThere(r) ==
    /\ step \in {"sweeping", "reclaiming", "resumed"} /\ index[r] = "released" /\ r \in files
    /\ index' = [index EXCEPT ![r] = "deleted"]
    /\ UNCHANGED <<talk, budget, files, step, new, fails, done, mishap>>

Settle(r) ==
    /\ step \in {"sweeping", "reclaiming", "resumed"} /\ index[r] = "released" /\ r \notin files
    /\ index' = [index EXCEPT ![r] = "deleted"]
    /\ UNCHANGED <<talk, budget, files, step, new, fails, done, mishap>>
Swept ==
    /\ \A r \in Results : index[r] # "released"
    /\ step' = CASE step = "sweeping" -> "notified" [] step = "resumed" -> "idle" [] OTHER -> "adopting"
    /\ step \in {"sweeping", "reclaiming", "resumed"}
    /\ UNCHANGED <<talk, budget, files, index, new, fails, done, mishap>>

\* The notification was yielded; the consumer writes the boundary to the session
\* and asks for the next event, or the run is cancelled there.
Adopt ==
    /\ step \in {"notified", "adopting"}
    /\ talk' = [hist |-> <<Env>> \o new,
                text |-> IF step = "notified" THEN ViewText ELSE talk.text]
    /\ new' = <<>>
    /\ step' = IF step = "notified" THEN "again" ELSE "idle"
    /\ UNCHANGED <<budget, files, index, fails, done, mishap>>
AbandonAdoption ==
    /\ step = "notified"
    /\ mishap' = TRUE
    /\ new' = <<>> /\ step' = "idle"
    /\ UNCHANGED <<talk, budget, files, index, fails, done>>

\* The budget of the rebuilt conversation; then the request.
BudgetAgain ==
    /\ step = "again"
    /\ budget' = Decided
    /\ Persist(Decided.replaced \ (budget.replaced \cup {r \in Results : talk.text[r] = "preview"}))
    /\ step' = "asking"
    /\ UNCHANGED <<talk, new, fails, done, mishap>>

\* The reply calls tools, whose results over their own limit become previews
\* before they reach the conversation; or it is text and the user writes again.
ToolsAnswer ==
    /\ step = "asking"
    /\ \E rs \in SUBSET {r \in Results : r \notin budget.seen \cup InTalk(talk.hist) \cup InTalk(new)} :
         LET large == {r \in rs : Size[r] > Single} IN
         /\ rs # {} /\ Cardinality(rs) <= PerMessage
         /\ \A r \in rs : index[r] = "none"
         /\ talk' = [talk EXCEPT !.hist = @ \o <<Msg("calls", rs), Msg("results", rs)>>,
                                 !.text = [r \in Results |-> IF r \in large THEN "preview" ELSE @[r]]]
         /\ Persist(large)
    /\ step' = "idle"
    /\ UNCHANGED <<budget, new, fails, done, mishap>>
TextAnswer ==
    /\ step = "asking" /\ Len(talk.hist) < 7     \* bound
    /\ talk' = [talk EXCEPT !.hist = @ \o <<Msg("text", {}), Msg("user", {})>>]
    /\ step' = "idle"
    /\ UNCHANGED <<budget, files, index, new, fails, done, mishap>>

\* A sub-agent has no index: its compaction removes every file its own tail does
\* not refer to under the directory it shares with its parent.
SubAgentCompacts ==
    /\ step = "asking" /\ files # {}
    /\ files' = {} /\ mishap' = TRUE
    /\ UNCHANGED <<talk, budget, index, step, new, fails, done>>

\* The process dies; the session is resumed from its log with fresh decisions,
\* the boundary having been written or not, and its first run sweeps.
Crash ==
    /\ step # "resumed"
    /\ \E written \in BOOLEAN :
         /\ written => step = "notified"
         /\ talk' = IF written THEN [talk EXCEPT !.hist = <<Env>> \o new, !.text = ViewText] ELSE talk
         /\ mishap' = (mishap \/ (~written /\ step \in {"sweeping", "notified"}))
    /\ budget' = [seen |-> {}, replaced |-> {}]
    /\ new' = <<>> /\ fails' = 0 /\ step' = "resumed"
    /\ UNCHANGED <<files, index, done>>

CompactNext ==
    \/ ApplyBudget \/ NoCompaction \/ SummaryFails \/ AutoCompacts
    \/ ManualStarts \/ ManualSkips \/ ManualCompacts
    \/ \E r \in Results : Unlink(r) \/ Settle(r)
    \/ Swept \/ Adopt \/ AbandonAdoption \/ BudgetAgain
    \/ ToolsAnswer \/ TextAnswer \/ SubAgentCompacts \/ Crash

CompactSweeps == Swept \/ (\E r \in Results : Unlink(r) \/ Settle(r))
CompactSpec == CompactInit /\ [][CompactNext]_compactVars /\ WF_compactVars(CompactSweeps)

-----------------------------------------------------------------------------
CompactTypeOK ==
    /\ talk.text \in [Results -> {"raw", "preview"}]
    /\ \A i \in 1..Len(talk.hist) : talk.hist[i].rs \subseteq Results
    /\ budget \in [seen : SUBSET Results, replaced : SUBSET Results]
    /\ files \subseteq Results
    /\ index \in [Results -> {"none", "active", "released", "deleted"}]
    /\ step \in {"idle", "budgeted", "manual", "sweeping", "reclaiming", "notified",
                 "adopting", "again", "asking", "resumed"}
    /\ fails \in 0..MaxFailures /\ done \in 0..MaxCompactions

\* What a request sends is well formed: the environment is there once, in front;
\* the results of every message follow their calls, wherever the cut fell; and
\* the results of one message are within the aggregate limit.
RequestsWhole ==
    step = "asking" =>
      LET h == talk.hist IN
      /\ \A i \in 1..Len(h) : (h[i].kind = "env") <=> (i = 1)
      /\ \A i \in 1..Len(h) : h[i].kind = "results" => h[i - 1] = Msg("calls", h[i].rs)
      /\ \A i \in 1..Len(h) : h[i].kind = "results" =>
           Weight(Shown(budget.replaced), h[i].rs) <= Aggregate

\* A preview in a request names a file that is there, unless the conversation
\* was compacted by hand, a compaction was cut short after its cleanup, or a
\* sub-agent compacted its own.
PreviewsReadable ==
    step = "asking" /\ ~mishap => {r \in InTalk(talk.hist) : ViewText[r] = "preview"} \subseteq files

\* No artifact stays released: the sweep ends, also after a crash in it.
ReleasedAreSwept == \A r \in Results : []<>(index[r] # "released")
=============================================================================
