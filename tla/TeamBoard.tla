------------------------------ MODULE TeamBoard ------------------------------
(***************************************************************************)
(* The shared task board of a team: teams/shared_task.py over the board     *)
(* operations of persistence/task_store.py, as the task tools of members    *)
(* and lead and TaskDispatch use them.  An update reads the row, changes a  *)
(* copy and writes all of it back in later transactions; no await lies      *)
(* between them, so only users in different processes (Host) interleave.    *)
(***************************************************************************)
EXTENDS Naturals, FiniteSets

CONSTANTS
    Members,     \* teammates, and the names background runs work under
    Lead,        \* the team lead
    NoOne,       \* the empty assignee
    BoardEditors,     \* who creates and updates items: any member, or the lead
    Host,        \* [Members \cup {Lead} -> process]
    BoardDispatches,  \* TaskDispatch calls
    WorkerOf,    \* [BoardDispatches -> Members]: the name each call gives its worker
    MaxItems,    \* bound on the items of the board
    MaxBoardEdits     \* bound on the creations and updates

ASSUME BoardAssumption ==
    /\ NoOne \notin Members /\ Lead \notin Members
    /\ BoardEditors \subseteq Members \cup {Lead}
    /\ DOMAIN Host = Members \cup {Lead}
    /\ WorkerOf \in [BoardDispatches -> Members]
    /\ MaxItems \in Nat /\ MaxBoardEdits \in Nat

VARIABLES
    items,     \* the rows: [used, shown, status, who, by]
    edges,     \* task_dependencies: <<item, the item it depends on>>
    editing,   \* what each user is in the middle of
    dispatch,  \* the state of each TaskDispatch call and of its worker
    owners,    \* who was told that it owns an item and was not told otherwise
    overlap,   \* a call began while another process was in the middle of one
    edits      \* how many creations and updates were asked for

boardVars == <<items, edges, editing, dispatch, owners, overlap, edits>>

Items == 1..MaxItems
Unused == [used |-> FALSE, shown |-> "pending", status |-> "queued", who |-> NoOne, by |-> {}]
Plain == [status |-> "same", who |-> {}, by |-> {}, blocks |-> {}]
AtRest == [pc |-> "idle", item |-> 0, ask |-> Plain, copy |-> Unused]

BoardInit ==
    /\ items = [t \in Items |-> Unused]
    /\ edges = {}
    /\ editing = [u \in Members \cup {Lead} |-> AtRest]
    /\ dispatch = [d \in BoardDispatches |-> [phase |-> "no", item |-> 0, was |-> NoOne]]
    /\ owners = [t \in Items |-> {}]
    /\ overlap = FALSE
    /\ edits = 0

Made == {t \in Items : items[t].used}
Quiet == \A u \in DOMAIN editing : editing[u].pc = "idle"

\* A call begins: its own process is in the middle of none.
Free(u) ==
    /\ \A v \in DOMAIN editing : Host[v] = Host[u] => editing[v].pc = "idle"
    /\ overlap' = (overlap \/ ~Quiet)
StatusOf(shown) == CASE shown = "completed" -> "succeeded"
                     [] shown = "in_progress" -> "running"
                     [] OTHER -> "queued"

\* _apply_dependency_relations: over the blocked_by lists as they are read now.
Blocked == {td \in Made \X Made : td[2] \in items[td[1]].by}
Cyclic(pairs) == \E ring \in (SUBSET Items) \ {{}} : \A t \in ring : \E d \in ring : <<t, d>> \in pairs
Acceptable(t, ask) ==
    /\ ask.by \cup ask.blocks \subseteq Made \ {t}
    /\ ~Cyclic(Blocked \cup {<<t, d>> : d \in ask.by} \cup {<<b, t>> : b \in ask.blocks})

\* Bound: "blocked" is left out, which the store treats as "pending", and so is a
\* creation that names the items it blocks, which goes on like such an update.
Asks(t) ==
    {Plain}
      \cup {[Plain EXCEPT !.status = s] : s \in {"pending", "completed"}}
      \cup {[Plain EXCEPT !.who = {w}] : w \in Members \cup {NoOne}}
      \cup {[Plain EXCEPT !.by = {d}] : d \in Items \ {t}}
      \cup {[Plain EXCEPT !.blocks = {b}] : b \in Items \ {t}}

\* create: the next free number and the validation, as read now.
NextId == Cardinality(Made) + 1
BoardCreate(u) ==
    /\ edits < MaxBoardEdits /\ edits' = edits + 1
    /\ Free(u) /\ NextId \in Items
    /\ \E ask \in {a \in Asks(NextId) : a.status = "same" /\ a.who = {} /\ a.blocks = {}} :
         /\ Acceptable(NextId, ask)
         /\ editing' = [editing EXCEPT ![u] = [AtRest EXCEPT !.pc = "insert",
                                                 !.item = NextId, !.ask = ask]]
    /\ UNCHANGED <<items, edges, dispatch, owners>>

AfterWrite(u) == IF editing[u].ask.blocks = {} THEN AtRest ELSE [editing[u] EXCEPT !.pc = "target"]

\* An IntegrityError (another process took the number) starts over.
BoardInsert(u) ==
    /\ editing[u].pc = "insert"
    /\ LET t == editing[u].item  ask == editing[u].ask IN
       IF items[t].used
       THEN /\ editing' = [editing EXCEPT ![u] = IF NextId \in Items /\ Acceptable(NextId, ask)
                                                 THEN [@ EXCEPT !.item = NextId] ELSE AtRest]
            /\ UNCHANGED <<items, edges>>
       ELSE /\ items' = [items EXCEPT ![t] = [Unused EXCEPT !.used = TRUE, !.by = ask.by]]
            /\ edges' = edges \cup {<<t, d>> : d \in ask.by}
            /\ editing' = [editing EXCEPT ![u] = AfterWrite(u)]
    /\ UNCHANGED <<dispatch, owners, overlap, edits>>

\* The copy an update will write back.
Changed(t, ask) ==
    [items[t] EXCEPT !.shown = IF ask.status = "same" THEN @ ELSE ask.status,
                     !.who = IF ask.who = {} THEN @ ELSE CHOOSE w \in ask.who : TRUE,
                     !.by = @ \cup ask.by]
StartUpdate(u, t, ask) ==
    editing' = [editing EXCEPT ![u] = [pc |-> "details", item |-> t, ask |-> ask,
                                       copy |-> Changed(t, ask)]]

\* TaskUpdate without a claim; the lead's TaskUpdate delegates to the same code.
BoardUpdate(u, t) ==
    /\ edits < MaxBoardEdits /\ edits' = edits + 1
    /\ Free(u) /\ t \in Made
    /\ \E ask \in Asks(t) : Acceptable(t, ask) /\ StartUpdate(u, t, ask)
    /\ UNCHANGED <<items, edges, dispatch, owners>>

\* update_details: the whole copy replaces input_json, the new edges are added.
BoardDetails(u) ==
    /\ editing[u].pc = "details"
    /\ LET t == editing[u].item  ask == editing[u].ask  c == editing[u].copy IN
       /\ items' = [items EXCEPT ![t].shown = c.shown, ![t].who = c.who, ![t].by = c.by]
       /\ edges' = edges \cup {<<t, d>> : d \in ask.by}
       /\ owners' = IF ask.status = "same" /\ ask.who = {} THEN owners
                    ELSE [owners EXCEPT ![t] = {}]
       /\ editing' = [editing EXCEPT ![u] = IF ask.status = "same" THEN AfterWrite(u)
                                            ELSE [@ EXCEPT !.pc = "status"]]
    /\ UNCHANGED <<dispatch, overlap, edits>>

\* update_board_status, a transaction of its own.
BoardStatus(u) ==
    /\ editing[u].pc = "status"
    /\ LET t == editing[u].item  s == editing[u].ask.status IN
       items' = [items EXCEPT ![t].shown = s, ![t].status = StatusOf(s)]
    /\ editing' = [editing EXCEPT ![u] = AfterWrite(u)]
    /\ UNCHANGED <<edges, dispatch, owners, overlap, edits>>

\* The inverse relation: the blocked item is read, then written back.
LinkTarget(e) == CHOOSE b \in e.ask.blocks : TRUE
BoardTarget(u) ==
    /\ editing[u].pc = "target"
    /\ editing' = [editing EXCEPT ![u].pc = "link",
         ![u].copy = [items[LinkTarget(editing[u])] EXCEPT !.by = @ \cup {editing[u].item}]]
    /\ UNCHANGED <<items, edges, dispatch, owners, overlap, edits>>
BoardLink(u) ==
    /\ editing[u].pc = "link"
    /\ LET b == LinkTarget(editing[u])  c == editing[u].copy IN
       /\ items' = [items EXCEPT ![b].shown = c.shown, ![b].who = c.who, ![b].by = c.by]
       /\ edges' = edges \cup {<<b, editing[u].item>>}
    /\ editing' = [editing EXCEPT ![u] = AtRest]
    /\ UNCHANGED <<dispatch, owners, overlap, edits>>

\* A bug: the assignee of the row is not looked at.
ClaimableByAnyone(t, w) ==
    /\ t \in Made
    /\ items[t].shown \in {"pending", "blocked", "in_progress"}
    /\ \A d \in Items : <<t, d>> \in edges => items[d].status = "succeeded"

\* claim_board_task, one transaction: ready items only, and an item somebody
\* else has or is assigned is refused.
Claimable(t, w) ==
    /\ t \in Made
    /\ \/ items[t].shown = "in_progress" /\ items[t].who = w
       \/ /\ items[t].shown \in {"pending", "blocked"}
          /\ items[t].who \in {NoOne, w}
          /\ \A d \in Items : <<t, d>> \in edges => items[d].status = "succeeded"
Claimed(t, w) ==
    /\ items' = [items EXCEPT ![t].shown = "in_progress", ![t].status = "running", ![t].who = w]
    /\ owners' = [owners EXCEPT ![t] = @ \cup {w}]

BoardClaim(u, t) ==
    /\ Free(u) /\ u # Lead /\ Claimable(t, u)
    /\ Claimed(t, u)
    /\ UNCHANGED <<edges, editing, dispatch, edits>>

\* TaskDispatch: the item is claimed for the worker, then the launch is awaited.
BoardDispatch(d, t) ==
    /\ Free(Lead) /\ dispatch[d].phase = "no" /\ Claimable(t, WorkerOf[d])
    /\ \A e \in BoardDispatches : dispatch[e].phase # "launching"
    /\ Claimed(t, WorkerOf[d])
    /\ dispatch' = [dispatch EXCEPT ![d] = [phase |-> "launching", item |-> t, was |-> items[t].who]]
    /\ UNCHANGED <<edges, editing, edits>>
BoardLaunched(d) ==
    /\ dispatch[d].phase = "launching"
    /\ dispatch' = [dispatch EXCEPT ![d].phase = "working"]
    /\ UNCHANGED <<items, edges, editing, owners, overlap, edits>>
\* The launch failed: the item goes back to pending and to its old assignee.
BoardLaunchFails(d) ==
    /\ Free(Lead) /\ dispatch[d].phase = "launching"
    /\ dispatch' = [dispatch EXCEPT ![d].phase = "over"]
    /\ StartUpdate(Lead, dispatch[d].item,
                   [Plain EXCEPT !.status = "pending", !.who = {dispatch[d].was}])
    /\ UNCHANGED <<items, edges, owners, edits>>

\* _sync_board_task -> finish_board_claim: compare and set by assignee name.
Current(t, w) == items[t].shown = "in_progress" /\ items[t].who = w

\* A bug: a late result is written over whatever the item became.
BoardFinishBlindly(d, ok) ==
    /\ Free(Lead) /\ dispatch[d].phase = "working"
    /\ LET t == dispatch[d].item  shown == IF ok THEN "completed" ELSE "blocked" IN
       items' = [items EXCEPT ![t].shown = shown, ![t].status = StatusOf(shown)]
    /\ owners' = [owners EXCEPT ![dispatch[d].item] = @ \ {WorkerOf[d]}]
    /\ dispatch' = [dispatch EXCEPT ![d].phase = "over"]
    /\ UNCHANGED <<edges, editing, edits>>

BoardFinish(d, ok) ==
    /\ Free(Lead) /\ dispatch[d].phase = "working"
    /\ LET t == dispatch[d].item  w == WorkerOf[d]
           shown == IF ok THEN "completed" ELSE "blocked" IN
       /\ items' = IF Current(t, w)
                   THEN [items EXCEPT ![t].shown = shown, ![t].status = StatusOf(shown)]
                   ELSE items
       /\ owners' = [owners EXCEPT ![t] = @ \ {w}]
    /\ dispatch' = [dispatch EXCEPT ![d].phase = "over"]
    /\ UNCHANGED <<edges, editing, edits>>

BoardStep(u) ==
    \/ BoardInsert(u) \/ BoardDetails(u) \/ BoardStatus(u) \/ BoardTarget(u) \/ BoardLink(u)
BoardNext ==
    \/ \E u \in Members \cup {Lead} :
         \/ BoardStep(u)
         \/ \E t \in Items : BoardClaim(u, t)
         \/ u \in BoardEditors /\ (BoardCreate(u) \/ \E t \in Items : BoardUpdate(u, t))
    \/ \E d \in BoardDispatches :
         \/ BoardLaunched(d) \/ BoardLaunchFails(d)
         \/ \E t \in Items : BoardDispatch(d, t)
         \/ \E ok \in BOOLEAN : BoardFinish(d, ok)

BoardSpec == BoardInit /\ [][BoardNext]_boardVars

-----------------------------------------------------------------------------

BoardTypeOK ==
    /\ \A t \in Items : /\ items[t].shown \in {"pending", "blocked", "in_progress", "completed"}
                        /\ items[t].status \in {"queued", "running", "succeeded"}
                        /\ items[t].who \in Members \cup {NoOne}
                        /\ items[t].by \subseteq Made
    /\ edges \subseteq Made \X Made
    /\ \A d \in BoardDispatches : dispatch[d].phase \in {"no", "launching", "working", "over"}

\* What an item waits for is never only shown: every blocked_by entry is a stored
\* edge, the thing a claim looks at, even when updates of two processes overlap
\* and one loses what the other wrote.  As long as no call began in the middle of
\* another process's, the board at rest is whole: the status members see is the
\* one the store acts on, the edges are all shown and have no cycle, and whoever
\* was told that it owns an item is the assignee of an item in progress: a stale
\* result, a rolled back launch and an edit of another field take no claim away.
BoardSound ==
    /\ Blocked \subseteq edges
    /\ Quiet /\ ~overlap =>
         /\ \A t \in Items : items[t].status = StatusOf(items[t].shown)
         /\ edges = Blocked /\ ~Cyclic(edges)
         /\ \A t \in Items : \A w \in owners[t] : Current(t, w)

\* Without such an overlap no two were told that they own the same item.
OneOwner == ~overlap => \A t \in Items : Cardinality(owners[t]) <= 1
=============================================================================
