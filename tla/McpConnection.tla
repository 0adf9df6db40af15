---------------------------- MODULE McpConnection ----------------------------
(***************************************************************************)
(* One MCP server connection (mcp/client.py) and the calls that share it:   *)
(* a single owner task opens the session, serves a queue of requests and    *)
(* closes it; callers connect under a lock, put a request in the queue and  *)
(* wait with a deadline; close stops the owner.  The server is external: it *)
(* may answer, refuse, or break the connection, and it may be slow.         *)
(***************************************************************************)
EXTENDS Naturals, Sequences, FiniteSets

CONSTANTS
    Calls,       \* requests of tools and of the catalog, one each
    Closer,      \* the task that closes the client
    MaxMcpRetries,  \* config.max_retries
    NoCall
ASSUME McpAssumption == MaxMcpRetries \in Nat /\ Closer \notin Calls /\ NoCall \notin Calls \cup {Closer}

VARIABLES
    owner,     \* the owner task: [at, failed, active, ready, alive, stop]
    queue,     \* _requests
    gate,      \* who has _connect_lock
    call,      \* each caller: [at, future]
    executed   \* the requests the server was asked to perform, in order

mcpVars == <<owner, queue, gate, call, executed>>

Callers == Calls \cup {Closer}
NoOwner == [at |-> "none", failed |-> 0, active |-> NoCall, ready |-> "no",
            alive |-> FALSE, stop |-> FALSE]

McpInit ==
    /\ owner = NoOwner
    /\ queue = <<>>
    /\ gate = NoCall
    /\ call = [c \in Callers |-> [at |-> "idle", future |-> "none"]]
    /\ executed = <<>>

Moves(c, from, to) == call[c].at = from /\ call' = [call EXCEPT ![c].at = to]
Pending(c) == call[c].future = "pending"
Resolved(cs, how) ==
    [c \in Callers |-> IF c \in cs /\ Pending(c) THEN [call[c] EXCEPT !.future = how] ELSE call[c]]
Queued == {queue[i] : i \in DOMAIN queue}

\* put_nowait, in the same step as the look at _alive.
Send(c) ==
    IF owner.alive
    THEN /\ queue' = Append(queue, c)
         /\ call' = [call EXCEPT ![c] = [at |-> "wait", future |-> "pending"]]
    ELSE /\ call' = [call EXCEPT ![c].at = "failed"]
         /\ UNCHANGED queue

-----------------------------------------------------------------------------
\* Callers

McpAsk(c) ==
    /\ Moves(c, "idle", "lock") /\ UNCHANGED <<owner, queue, gate, executed>>

\* connect(): alive already, or the former owner is stopped first.
McpEnter(c) ==
    /\ call[c].at = "lock" /\ gate = NoCall
    /\ IF owner.alive /\ c # Closer
       THEN Send(c) /\ UNCHANGED <<owner, gate>>
       ELSE /\ gate' = c /\ Moves(c, "lock", "stop")
            /\ owner' = [owner EXCEPT !.alive = FALSE]
            /\ UNCHANGED queue
    /\ UNCHANGED executed

\* _stop_owner: cancel it unless it is closing or cleaning, and wait for its end.
McpStop(c) ==
    /\ Moves(c, "stop", "stopped")
    /\ owner' = IF owner.at = "none" THEN owner
                ELSE [owner EXCEPT !.stop = TRUE,
                        !.at = IF @ \in {"opening", "pausing", "serving", "busy"} THEN "cancelled" ELSE @]
    /\ UNCHANGED <<queue, gate, executed>>

McpStart(c) ==
    /\ c # Closer /\ owner.at \in {"none", "done"} /\ Moves(c, "stopped", "ready")
    /\ owner' = [NoOwner EXCEPT !.at = "opening"]
    /\ queue' = <<>>
    /\ UNCHANGED <<gate, executed>>

McpClosed ==
    /\ owner.at \in {"none", "done"} /\ Moves(Closer, "stopped", "closed")
    /\ owner' = NoOwner /\ gate' = NoCall
    /\ UNCHANGED <<queue, executed>>

\* The ready future: the caller goes on, or stops the owner and raises.
McpConnected(c) ==
    /\ call[c].at = "ready" /\ owner.ready = "yes"
    /\ gate' = NoCall /\ Send(c)
    /\ UNCHANGED <<owner, executed>>
McpRefused(c) ==
    /\ owner.ready = "failed" /\ Moves(c, "ready", "abort")
    /\ UNCHANGED <<owner, queue, gate, executed>>
McpAbort(c) ==
    /\ Moves(c, "abort", "aborting")
    /\ owner' = [owner EXCEPT !.stop = TRUE,
                   !.at = IF @ \in {"opening", "pausing", "serving", "busy"} THEN "cancelled" ELSE @]
    /\ UNCHANGED <<queue, gate, executed>>
McpAborted(c) ==
    /\ owner.at = "done" /\ Moves(c, "aborting", "failed")
    /\ owner' = NoOwner /\ gate' = NoCall
    /\ UNCHANGED <<queue, executed>>

McpReturns(c) ==
    /\ call[c].at = "wait" /\ ~Pending(c)
    /\ call' = [call EXCEPT ![c].at = IF call[c].future = "value" THEN "answered" ELSE "failed"]
    /\ UNCHANGED <<owner, queue, gate, executed>>

\* The deadline of the request, or the cancellation of its caller: the future is
\* cancelled.  A caller cancelled while it connects leaves through _stop_owner;
\* one that waits for the owner's end leaves it to the next to wait.
McpGivesUp(c) ==
    /\ c # Closer
    /\ \/ /\ Pending(c)
          /\ call' = [call EXCEPT ![c] = [at |-> "gone", future |-> "cancelled"]]
          /\ UNCHANGED gate
       \/ Moves(c, "ready", "abort") /\ UNCHANGED gate
       \/ Moves(c, "lock", "gone") /\ UNCHANGED gate
       \/ /\ \/ Moves(c, "stopped", "gone") \/ Moves(c, "aborting", "gone")
          /\ gate' = NoCall
    /\ UNCHANGED <<owner, queue, executed>>

-----------------------------------------------------------------------------
\* The owner task

Owner(from, to) == owner.at = from /\ owner' = [owner EXCEPT !.at = to]

McpOpens ==
    /\ owner.at = "opening"
    /\ owner' = [owner EXCEPT !.at = "serving", !.alive = TRUE, !.ready = "yes"]
    /\ UNCHANGED <<queue, gate, call, executed>>
McpOpenFails ==
    /\ owner.at = "opening"
    /\ owner' = [owner EXCEPT !.at = "cleaning", !.failed = @ + 1]
    /\ UNCHANGED <<queue, gate, call, executed>>
McpCleaned ==
    /\ owner.at = "cleaning"
    /\ owner' = [owner EXCEPT !.at = IF owner.stop THEN "cancelled"
                                     ELSE IF owner.failed > MaxMcpRetries THEN "broken" ELSE "pausing"]
    /\ UNCHANGED <<queue, gate, call, executed>>
McpPaused == Owner("pausing", "opening") /\ UNCHANGED <<queue, gate, call, executed>>

\* The next request: one whose caller left is skipped, one whose deadline passed
\* in the queue is refused, another goes to the server.
McpTake ==
    /\ owner.at = "serving" /\ queue # <<>>
    /\ queue' = Tail(queue)
    /\ IF ~Pending(Head(queue))
       THEN UNCHANGED <<owner, call, executed>>
       ELSE \/ /\ call' = Resolved({Head(queue)}, "error")
               /\ UNCHANGED <<owner, executed>>
            \/ /\ owner' = [owner EXCEPT !.at = "busy", !.active = Head(queue)]
               /\ executed' = Append(executed, Head(queue))
               /\ UNCHANGED call
    /\ UNCHANGED gate

McpReply ==
    /\ owner.at = "busy"
    /\ \E how \in {"value", "error"} : call' = Resolved({owner.active}, how)
    /\ owner' = [owner EXCEPT !.at = "serving", !.active = NoCall]
    /\ UNCHANGED <<queue, gate, executed>>

\* A time-out or a transport error: the outcome is unknown and the owner ends.
McpBreaks ==
    /\ owner.at = "busy"
    /\ call' = Resolved({owner.active}, "error")
    /\ owner' = [owner EXCEPT !.at = "broken"]
    /\ UNCHANGED <<queue, gate, executed>>

\* A bug: only the request at work is failed, those in the queue are dropped.
McpFinallyActiveOnly ==
    /\ owner.at \in {"cancelled", "broken"}
    /\ call' = Resolved({owner.active}, "error")
    /\ queue' = <<>>
    /\ owner' = [owner EXCEPT !.at = "closing", !.active = NoCall, !.alive = FALSE,
                              !.ready = IF @ = "no" THEN "failed" ELSE @]
    /\ UNCHANGED <<gate, executed>>

\* The finally block: nobody who waits is forgotten; then the transport closes.
McpFinally ==
    /\ owner.at \in {"cancelled", "broken"}
    /\ call' = Resolved({owner.active} \cup Queued, "error")
    /\ queue' = <<>>
    /\ owner' = [owner EXCEPT !.at = "closing", !.active = NoCall, !.alive = FALSE,
                              !.ready = IF @ = "no" THEN "failed" ELSE @]
    /\ UNCHANGED <<gate, executed>>
McpDone == Owner("closing", "done") /\ UNCHANGED <<queue, gate, call, executed>>

McpOwner ==
    \/ McpOpens \/ McpOpenFails \/ McpCleaned \/ McpPaused \/ McpTake
    \/ McpReply \/ McpBreaks \/ McpFinally \/ McpDone
McpCaller(c) ==
    \/ McpEnter(c) \/ McpStop(c) \/ McpStart(c) \/ McpConnected(c) \/ McpRefused(c)
    \/ McpAbort(c) \/ McpAborted(c) \/ McpReturns(c)
    \/ c = Closer /\ McpClosed

McpNext == McpOwner \/ \E c \in Callers : McpAsk(c) \/ McpCaller(c) \/ McpGivesUp(c)
McpSpec == /\ McpInit /\ [][McpNext]_mcpVars
           /\ WF_mcpVars(McpOwner) /\ \A c \in Callers : SF_mcpVars(McpCaller(c))

-----------------------------------------------------------------------------

McpTypeOK ==
    /\ owner.at \in {"none", "opening", "cleaning", "pausing", "serving", "busy", "broken",
                     "cancelled", "closing", "done"}
    /\ owner.failed \in 0..(MaxMcpRetries + 1)
    /\ gate \in Callers \cup {NoCall}
    /\ \A c \in Callers : call[c].future \in {"none", "pending", "value", "error", "cancelled"}

\* A request whose caller still waits is in the queue of the living owner, or is
\* the one it works on: no connection takes a request with it.  No request is
\* performed twice, a new connection repeats nothing, and "answered" means that
\* this request was performed.
McpNothingLost ==
    /\ \A c \in Calls : Pending(c) =>
         /\ c \in Queued \cup {owner.active}
         /\ owner.at \in {"serving", "busy", "broken", "cancelled"}
    /\ \A i, j \in DOMAIN executed : executed[i] = executed[j] => i = j
    /\ \A c \in Calls : call[c].at = "answered" => \E i \in DOMAIN executed : executed[i] = c
    /\ owner.alive => owner.at \in {"serving", "busy", "broken", "cancelled"}

\* Every caller gets an answer or an error, the closer included: no owner is
\* waited for that nobody told to stop.
McpCallsReturn ==
    \A c \in Callers : []<>(call[c].at \in {"idle", "answered", "failed", "gone", "closed"})
=============================================================================
