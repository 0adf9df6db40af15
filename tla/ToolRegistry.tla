----------------------------- MODULE ToolRegistry -----------------------------
(***************************************************************************)
(* One tool name in the layered registry (tools/registry.py): registrations *)
(* of several sources lie over each other and the highest source, then the  *)
(* latest, is the active one.  Releasing a scope closes its tools one by     *)
(* one, awaiting each, and only then unregisters them.                       *)
(***************************************************************************)
EXTENDS Naturals, FiniteSets

CONSTANTS
    Tools,      \* tool objects of this name
    Scopes,     \* scopes, each of one source
    Priority,   \* [Scopes -> Nat]: Built-in < Plugin < MCP < Session
    NoTool
ASSUME RegAssumption == Priority \in [Scopes -> Nat] /\ NoTool \notin Tools

VARIABLES
    entries,     \* registrations: [tool, scope, seq]
    retired,     \* replaced in their slot, not closed yet
    marks,       \* whether the name is disabled, discovered, and as which tool
    releasing,   \* a release in progress: [scope, todo], scope = {} when none
    toolFate         \* of each tool: new, held, closed, dropped

regVars == <<entries, retired, marks, releasing, toolFate>>

RegInit ==
    /\ entries = {} /\ retired = {}
    /\ marks = [disabled |-> FALSE, found |-> FALSE, as |-> NoTool]
    /\ releasing = [scope |-> {}, todo |-> {}]
    /\ toolFate = [t \in Tools |-> "new"]

\* _sort_key: priority, then sequence.
Over(e, f) == \/ Priority[e.scope] > Priority[f.scope]
              \/ Priority[e.scope] = Priority[f.scope] /\ e.seq > f.seq
Winner(es) == IF es = {} THEN NoTool ELSE (CHOOSE e \in es : \A f \in es \ {e} : Over(e, f)).tool
NextSeq == 1 + Cardinality({t \in Tools : toolFate[t] # "new"})

\* The discovered mark belongs to one implementation: it goes when another wins.
Forgotten(es) ==
    IF Winner(entries) = NoTool \/ Winner(es) = NoTool \/ Winner(entries) # Winner(es)
    THEN [marks EXCEPT !.found = FALSE, !.as = NoTool] ELSE marks
Undisabled(es, m) == IF es = {} THEN [m EXCEPT !.disabled = FALSE] ELSE m

\* A bug: the tool replaced in its slot is simply overwritten.
RegRegisterOver(t, s) ==
    /\ toolFate[t] = "new" /\ s \notin releasing.scope
    /\ LET es == {e \in entries : e.scope # s} \cup {[tool |-> t, scope |-> s, seq |-> NextSeq]} IN
       entries' = es /\ marks' = Forgotten(es)
    /\ toolFate' = [toolFate EXCEPT ![t] = "held"]
    /\ UNCHANGED <<retired, releasing>>

\* register; who releases a scope registers nothing in it meanwhile (the MCP
\* manager holds its lifecycle lock, sessions and plug-ins release at their end).
RegRegister(t, s) ==
    /\ toolFate[t] = "new" /\ s \notin releasing.scope
    /\ LET slot == {e \in entries : e.scope = s}
           es == (entries \ slot) \cup {[tool |-> t, scope |-> s, seq |-> NextSeq]} IN
       /\ entries' = es
       /\ retired' = retired \cup slot
       /\ marks' = Forgotten(es)
    /\ toolFate' = [toolFate EXCEPT ![t] = "held"]
    /\ UNCHANGED releasing

\* unregister of one scope by its owner, which keeps the tools it gets back.
RegUnregister(s) ==
    /\ s \notin releasing.scope /\ \E e \in entries : e.scope = s
    /\ LET gone == {e \in entries : e.scope = s}  es == entries \ gone IN
       /\ entries' = es
       /\ marks' = Undisabled(es, Forgotten(es))
       /\ toolFate' = [t \in Tools |-> IF \E e \in gone : e.tool = t THEN "dropped" ELSE toolFate[t]]
    /\ UNCHANGED <<retired, releasing>>

RegDisable ==
    /\ entries # {} /\ marks' = [marks EXCEPT !.disabled = TRUE]
    /\ UNCHANGED <<entries, retired, releasing, toolFate>>
RegEnable ==
    /\ marks' = [marks EXCEPT !.disabled = FALSE]
    /\ UNCHANGED <<entries, retired, releasing, toolFate>>
RegDiscover ==
    /\ entries # {} /\ marks' = [marks EXCEPT !.found = TRUE, !.as = Winner(entries)]
    /\ UNCHANGED <<entries, retired, releasing, toolFate>>

\* release_scope: what it will close is fixed before the first await.
RegRelease(s) ==
    /\ releasing.scope = {}
    /\ LET todo == {e \in entries \cup retired : e.scope = s} IN
       /\ todo # {} /\ releasing' = [scope |-> {s}, todo |-> todo]
       /\ retired' = retired \ todo
    /\ UNCHANGED <<entries, marks, toolFate>>
\* One close returned or failed: the entry goes, if it was an active one.
RegClosed(e) ==
    /\ e \in releasing.todo
    /\ LET es == IF e \in entries THEN {f \in entries : f.scope # e.scope} ELSE entries IN
       /\ entries' = es
       /\ marks' = IF e \in entries THEN Undisabled(es, Forgotten(es)) ELSE marks
    /\ releasing' = LET rest == releasing.todo \ {e}
                    IN [scope |-> IF rest = {} THEN {} ELSE releasing.scope, todo |-> rest]
    /\ toolFate' = [toolFate EXCEPT ![e.tool] = "closed"]
    /\ UNCHANGED retired

RegNext ==
    \/ \E s \in Scopes : RegUnregister(s) \/ RegRelease(s) \/ \E t \in Tools : RegRegister(t, s)
    \/ \E e \in releasing.todo : RegClosed(e)
    \/ RegDisable \/ RegEnable \/ RegDiscover
RegSpec == RegInit /\ [][RegNext]_regVars

\* What the model is shown: get_all_schemas and get_deferred_tool_names.
Offered(deferred) == entries # {} /\ ~marks.disabled /\ (deferred => marks.found)

-----------------------------------------------------------------------------

RegTypeOK ==
    /\ \A e \in entries \cup retired \cup releasing.todo : e.tool \in Tools /\ e.scope \in Scopes
    /\ marks.disabled \in BOOLEAN /\ marks.found \in BOOLEAN

\* No tool object is lost: each is in a slot, waits there or in the retired list
\* for its scope's release, is being closed, or was closed or handed back, and
\* none is closed twice.  A discovered or disabled mark never passes to another
\* implementation that a release reveals, or outlives the last one.
RegNothingLost ==
    /\ \A t \in Tools : toolFate[t] = "held" <=>
         \E e \in entries \cup retired \cup releasing.todo : e.tool = t
    /\ \A e, f \in entries : e.scope = f.scope => e = f
    /\ marks.found => entries # {} /\ marks.as = Winner(entries)
    /\ marks.disabled => entries # {}
    /\ Offered(TRUE) => Offered(FALSE)
=============================================================================
