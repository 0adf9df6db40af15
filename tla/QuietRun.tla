------------------------------- MODULE QuietRun ------------------------------
(***************************************************************************)
(* run_to_completion (agent.py): the run of an agent nobody watches - a     *)
(* sub-agent, a member of a team, a task in the background.  Nobody can     *)
(* answer a question, so a call that would be asked about is refused.       *)
(* The journal's rows of the run, of its open step and of the calls of the  *)
(* current answer are kept next to the transcript.                          *)
(***************************************************************************)
EXTENDS Naturals, Sequences, FiniteSets

CONSTANTS
    MaxIterations,   \* agent.max_iterations
    MaxQuietCalls,        \* bound: calls in one answer
    QuietMode        \* the permission mode: "default" or "bypass"

ASSUME QuietAssumption == /\ {MaxIterations, MaxQuietCalls} \subseteq Nat \ {0}
                          /\ QuietMode \in {"default", "bypass"}

VARIABLES
    quiet,   \* where the loop is: pc, iteration, index of the call
    rows,    \* the journal: status of the run, of the open step, of the calls
    said,    \* the transcript: "user", "text", "calls", "results"
    acted    \* the calls whose tool ran in this answer, and how they were judged

quietVars == <<quiet, rows, said, acted>>

QuietInit ==
    /\ quiet = [pc |-> "start", iter |-> 0, at |-> 0]
    /\ rows = [run |-> "none", step |-> "none", calls |-> <<>>]
    /\ said = <<>>
    /\ acted = {}

QuietOver(pc, run, step) ==
    /\ quiet' = [quiet EXCEPT !.pc = pc]
    /\ rows' = [rows EXCEPT !.run = run, !.step = IF @ = "running" THEN step ELSE @]

QuietStarts ==
    /\ quiet.pc = "start"
    /\ quiet' = [quiet EXCEPT !.pc = "turn"]
    /\ rows' = [rows EXCEPT !.run = "running"]
    /\ said' = <<"user">>
    /\ UNCHANGED acted

\* The top of the loop: mail and reminders join the transcript, which is then
\* budgeted and perhaps compacted; the step of this iteration opens.
QuietAsks ==
    /\ quiet.pc = "turn"
    /\ IF quiet.iter = MaxIterations
       THEN QuietOver("over", "interrupted", "interrupted") /\ UNCHANGED said
       ELSE /\ quiet' = [quiet EXCEPT !.pc = "model", !.iter = @ + 1, !.at = 0]
            /\ rows' = [rows EXCEPT !.step = "running", !.calls = <<>>]
            /\ \/ UNCHANGED said
               \/ said' = Append(said, "user")
    /\ acted' = {}

\* An answer without calls is the last one; the hooks of its end are awaited
\* before step and run are closed.
QuietText ==
    /\ quiet.pc = "model"
    /\ quiet' = [quiet EXCEPT !.pc = "ending"]
    /\ said' = Append(said, "text")
    /\ UNCHANGED <<rows, acted>>

QuietCompletes ==
    /\ quiet.pc = "ending"
    /\ QuietOver("over", "completed", "completed")
    /\ UNCHANGED <<said, acted>>

\* The loop guard stops the run before the calls are registered.
QuietLoops ==
    /\ quiet.pc = "model"
    /\ quiet' = [quiet EXCEPT !.pc = "over"]
    /\ rows' = [rows EXCEPT !.run = "interrupted", !.step = "failed"]
    /\ UNCHANGED <<said, acted>>

QuietCalls(n) ==
    /\ quiet.pc = "model"
    /\ quiet' = [quiet EXCEPT !.pc = "calls", !.at = 1]
    /\ rows' = [rows EXCEPT !.calls = [i \in 1..n |-> "pending"]]
    /\ said' = Append(said, "calls")
    /\ UNCHANGED acted

\* One call: unknown, disabled, rejected by a hook or denied ends in an error
\* without acting; a question is a refusal unless the mode approves of all.
Runs(verdict) == verdict = "allow" \/ (verdict = "ask" /\ QuietMode = "bypass")

QuietCall(verdict) ==
    /\ quiet.pc = "calls" /\ rows.calls[quiet.at] = "pending"
    /\ rows' = [rows EXCEPT !.calls[quiet.at] = "running"]
    /\ acted' = IF Runs(verdict) THEN acted \cup {<<quiet.at, verdict>>} ELSE acted
    /\ UNCHANGED <<quiet, said>>

QuietResult(outcome) ==
    /\ quiet.pc = "calls" /\ rows.calls[quiet.at] = "running"
    /\ (outcome = "completed") => \E v \in {"allow", "ask"} : <<quiet.at, v>> \in acted
    /\ rows' = [rows EXCEPT !.calls[quiet.at] = outcome]
    /\ quiet' = IF quiet.at < Len(rows.calls) THEN [quiet EXCEPT !.at = @ + 1]
                                              ELSE [quiet EXCEPT !.pc = "report"]
    /\ UNCHANGED <<said, acted>>

QuietReports ==
    /\ quiet.pc = "report"
    /\ said' = Append(said, "results")
    /\ rows' = [rows EXCEPT !.step = "completed"]
    /\ quiet' = [quiet EXCEPT !.pc = "turn"]
    /\ UNCHANGED acted

QuietWorks == quiet.pc \in {"turn", "model", "calls", "report", "ending"}

\* An exception: the error hooks are awaited before anything is closed.
QuietFails ==
    /\ QuietWorks
    /\ quiet' = [quiet EXCEPT !.pc = "failing"]
    /\ UNCHANGED <<rows, said, acted>>

\* Behind them the run and its open step are closed, the calls are not.
QuietFailed ==
    /\ quiet.pc = "failing"
    /\ QuietOver("over", "failed", "failed")
    /\ UNCHANGED <<said, acted>>

\* A cancellation that arrives while they run leaves through the handler of the
\* exception: nothing is closed.
QuietDropped ==
    /\ quiet.pc = "failing"
    /\ quiet' = [quiet EXCEPT !.pc = "dropped"]
    /\ UNCHANGED <<rows, said, acted>>

\* A bug: the calls of the interrupted answer stay open.
QuietCancelledShort ==
    /\ QuietWorks
    /\ QuietOver("over", "cancelled", "cancelled")
    /\ UNCHANGED <<said, acted>>

\* A cancellation of the work closes the run, the open step and the open calls.
QuietCancelled ==
    /\ QuietWorks
    /\ quiet' = [quiet EXCEPT !.pc = "over"]
    /\ rows' = [run |-> "cancelled",
                step |-> IF rows.step = "running" THEN "cancelled" ELSE rows.step,
                calls |-> [i \in DOMAIN rows.calls |->
                             IF rows.calls[i] \in {"pending", "running"} THEN "cancelled"
                                                                         ELSE rows.calls[i]]]
    /\ UNCHANGED <<said, acted>>

QuietGoes ==
    \/ QuietStarts \/ QuietAsks \/ QuietText \/ QuietCompletes \/ QuietLoops
    \/ QuietReports \/ QuietFailed
    \/ \E n \in 1..MaxQuietCalls : QuietCalls(n)
    \/ \E verdict \in {"allow", "ask", "deny", "unknown", "rejected"} : QuietCall(verdict)
    \/ \E outcome \in {"completed", "failed"} : QuietResult(outcome)

QuietNext == QuietGoes \/ QuietFails \/ QuietCancelled \/ QuietDropped

QuietSpec == QuietInit /\ [][QuietNext]_quietVars /\ WF_quietVars(QuietGoes)

-----------------------------------------------------------------------------
QuietTypeOK ==
    /\ quiet.pc \in {"start", "turn", "model", "calls", "report", "ending", "failing", "over", "dropped"}
    /\ quiet.iter \in 0..MaxIterations
    /\ rows.run \in {"none", "running", "completed", "failed", "interrupted", "cancelled"}
    /\ rows.step \in {"none", "running", "completed", "failed", "interrupted", "cancelled"}
    /\ \A i \in DOMAIN rows.calls : rows.calls[i] \in {"pending", "running", "completed",
                                                       "failed", "cancelled"}

\* A run that ended leaves nothing open: its row and its step's are terminal, and
\* the calls' too unless it failed between two of them.  One ending is excepted, a
\* cancellation while the hooks of a failure run: it leaves the rows as they were.
\* The model is never asked while a call of the last answer has no result.
QuietClosed ==
    /\ quiet.pc = "over" =>
         /\ rows.run # "running" /\ rows.step # "running"
         /\ rows.run # "failed" =>
              \A i \in DOMAIN rows.calls : rows.calls[i] \notin {"pending", "running"}
    /\ quiet.pc \in {"turn", "model"} =>
         Cardinality({i \in DOMAIN said : said[i] = "calls"})
           = Cardinality({i \in DOMAIN said : said[i] = "results"})

\* A run without a user ends: with its text, a limit, an error or a cancellation.
QuietSettled == quiet.pc \in {"over", "dropped"}
QuietEnds == []<>QuietSettled
=============================================================================
