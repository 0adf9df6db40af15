------------------------------ MODULE McpServers ------------------------------
(***************************************************************************)
(* The MCP servers of a session: mcp/manager.py connects them one after     *)
(* the other under its lifecycle lock and registers their tools, a host     *)
(* keeps the manager and shuts it down at the end (app.py, remote.py,       *)
(* __main__.py), and a tool whose connection broke opens it again           *)
(* (mcp/tool_wrapper.py).  What happens inside one connection is            *)
(* McpConnection.                                                           *)
(***************************************************************************)
EXTENDS Naturals, Sequences, FiniteSets

CONSTANT Servers     \* sequence of the configured servers

\* The keys of a dict: each server is configured once.
ASSUME ServersAssumption ==
    /\ Len(Servers) \in Nat /\ DOMAIN Servers = 1..Len(Servers)
    /\ \A i, j \in DOMAIN Servers : Servers[i] = Servers[j] => i = j

VARIABLES
    link,     \* the connection of each server: off, opening, up, closing
    clients,  \* MCPManager._clients
    exposed,  \* servers whose tools are registered and not released
    starting, \* the call of register_all_tools: [at, i, failed]
    stopping, \* the host's shutdown: [at, i]
    hosted,     \* whether the host keeps the manager, and since before the start
    use       \* a tool call per server: [at, begun]

serversVars == <<link, clients, exposed, starting, stopping, hosted, use>>

Hosts == {Servers[i] : i \in DOMAIN Servers}
StartOver == {"idle", "done", "cancelled"}

\* The command line keeps the manager before it starts it, the front ends after.
ServersInit ==
    /\ link = [s \in Hosts |-> "off"]
    /\ clients = {} /\ exposed = {}
    /\ starting = [at |-> "idle", i |-> 1, failed |-> {}]
    /\ stopping = [at |-> "idle", i |-> 1]
    /\ \E early \in BOOLEAN : hosted = [before |-> early, now |-> early]
    /\ use = [s \in Hosts |-> [at |-> "no", begun |-> FALSE]]

Now == Servers[starting.i]

\* _connect_all, behind the lock, which shutdown takes only after it was cancelled.
ServersBegin ==
    /\ starting.at = "idle" /\ stopping.at = "idle"
    /\ starting' = [starting EXCEPT !.at = "next"]
    /\ UNCHANGED <<link, clients, exposed, stopping, hosted, use>>
ServersConnect ==
    /\ starting.at = "next" /\ starting.i <= Len(Servers)
    /\ link' = [link EXCEPT ![Now] = "opening"]
    /\ starting' = [starting EXCEPT !.at = "connect"]
    /\ UNCHANGED <<clients, exposed, stopping, hosted, use>>
ServersConnected ==
    /\ starting.at = "connect"
    /\ link' = [link EXCEPT ![Now] = "up"]
    /\ starting' = [starting EXCEPT !.at = "list"]
    /\ UNCHANGED <<clients, exposed, stopping, hosted, use>>
ServersListed ==
    /\ starting.at = "list" /\ link[Now] = "up"
    /\ clients' = clients \cup {Now}
    /\ starting' = [starting EXCEPT !.at = "next", !.i = @ + 1]
    /\ UNCHANGED <<link, exposed, stopping, hosted, use>>

Closing(s) == [link EXCEPT ![s] = IF @ = "off" THEN "off" ELSE "closing"]

\* A bug: the client of a failed server is dropped without closing it.
ServersFailsOpen ==
    /\ starting.at \in {"connect", "list"}
    /\ starting' = [starting EXCEPT !.at = "next", !.i = @ + 1, !.failed = @ \cup {Now}]
    /\ UNCHANGED <<link, clients, exposed, stopping, hosted, use>>

\* Connecting or listing failed: the client is closed and left out, others follow.
ServersFails ==
    /\ starting.at \in {"connect", "list"}
    /\ link' = Closing(Now)
    /\ starting' = [starting EXCEPT !.at = "drop", !.failed = @ \cup {Now}]
    /\ UNCHANGED <<clients, exposed, stopping, hosted, use>>
ServersDropped ==
    /\ starting.at = "drop" /\ link[Now] = "off"
    /\ starting' = [starting EXCEPT !.at = "next", !.i = @ + 1]
    /\ UNCHANGED <<link, clients, exposed, stopping, hosted, use>>
\* register_all_tools registers and returns, and the host keeps the manager.
ServersRegister ==
    /\ starting.at = "next" /\ starting.i > Len(Servers)
    /\ exposed' = Hosts \ starting.failed
    /\ hosted' = [hosted EXCEPT !.now = TRUE]
    /\ starting' = [starting EXCEPT !.at = "done"]
    /\ UNCHANGED <<link, clients, stopping, use>>
\* After a cancellation the client at hand was closed.
ServersCancelled ==
    /\ starting.at = "cleanup" /\ link[Now] = "off"
    /\ starting' = [starting EXCEPT !.at = "cancelled"]
    /\ UNCHANGED <<link, clients, exposed, stopping, hosted, use>>

\* The owner task of a connection closes it, whoever waits.
LinkEnds(s) ==
    /\ link[s] = "closing" /\ link' = [link EXCEPT ![s] = "off"]
    /\ UNCHANGED <<clients, exposed, starting, stopping, hosted, use>>
LinkBreaks(s) ==
    /\ link[s] = "up" /\ link' = [link EXCEPT ![s] = "off"]
    /\ UNCHANGED <<clients, exposed, starting, stopping, hosted, use>>

-----------------------------------------------------------------------------
\* A tool call

\* A bug: whether the tool was released is not looked at.
UseAnyTool(s) ==
    /\ s \in clients /\ use[s].at = "no" /\ starting.at = "done"
    /\ use' = [use EXCEPT ![s] = [at |-> IF link[s] = "up" THEN "over" ELSE "reopen",
                                  begun |-> s \in exposed]]
    /\ UNCHANGED <<link, clients, exposed, starting, stopping, hosted>>

\* A released tool refuses; one that is not alive connects, at once or when the
\* one who has the connection's lock is through.
UseTool(s) ==
    /\ s \in exposed /\ use[s].at = "no"
    /\ use' = [use EXCEPT ![s] = [at |-> IF link[s] = "up" THEN "over" ELSE "reopen",
                                  begun |-> TRUE]]
    /\ UNCHANGED <<link, clients, exposed, starting, stopping, hosted>>
UseReopens(s) ==
    /\ use[s].at = "reopen" /\ link[s] = "off"
    /\ link' = [link EXCEPT ![s] = "opening"]
    /\ use' = [use EXCEPT ![s].at = "opening"]
    /\ UNCHANGED <<clients, exposed, starting, stopping, hosted>>
UseOver(s) ==
    /\ use[s].at = "opening"
    /\ \E to \in {"up", "off"} : link' = [link EXCEPT ![s] = to]
    /\ use' = [use EXCEPT ![s].at = "over"]
    /\ UNCHANGED <<clients, exposed, starting, stopping, hosted>>

-----------------------------------------------------------------------------
\* Shutdown

\* The start is cancelled: the client at hand is closed, unless that was under way.
ServersStop ==
    /\ stopping.at = "idle"
    /\ starting.at = "next" => starting.i = 1     \* later ones are no awaits
    /\ stopping' = [stopping EXCEPT !.at = "await"]
    /\ CASE starting.at \in {"connect", "list"} ->
              link' = Closing(Now) /\ starting' = [starting EXCEPT !.at = "cleanup"]
         [] starting.at \in {"next", "drop"} ->
              starting' = [starting EXCEPT !.at = "cancelled"] /\ UNCHANGED link
         [] OTHER -> UNCHANGED <<starting, link>>
    /\ UNCHANGED <<clients, exposed, hosted, use>>

\* A bug: the clients are closed while their tools can still be called.
ServersReleaseLate ==
    /\ stopping.at = "await" /\ starting.at \in StartOver
    /\ stopping' = [stopping EXCEPT !.at = IF hosted.now THEN "close" ELSE "done"]
    /\ UNCHANGED <<link, clients, exposed, starting, hosted, use>>

\* A manager nobody hosted is not shut down; else the tools go first.
ServersRelease ==
    /\ stopping.at = "await" /\ starting.at \in StartOver
    /\ IF hosted.now
       THEN exposed' = {} /\ stopping' = [stopping EXCEPT !.at = "close"]
       ELSE stopping' = [stopping EXCEPT !.at = "done"] /\ UNCHANGED exposed
    /\ UNCHANGED <<link, clients, starting, hosted, use>>
\* One client after the other, waiting for whoever opens its connection.
ServersClose ==
    /\ stopping.at = "close"
    /\ IF stopping.i > Len(Servers)
       THEN /\ clients' = {} /\ stopping' = [stopping EXCEPT !.at = "done"]
            /\ UNCHANGED link
       ELSE LET s == Servers[stopping.i] IN
            IF s \in clients
            THEN /\ link[s] # "opening" /\ link' = Closing(s)
                 /\ stopping' = [stopping EXCEPT !.at = "closing"]
                 /\ UNCHANGED clients
            ELSE stopping' = [stopping EXCEPT !.i = @ + 1] /\ UNCHANGED <<link, clients>>
    /\ UNCHANGED <<exposed, starting, hosted, use>>
ServersClosed ==
    /\ stopping.at = "closing" /\ link[Servers[stopping.i]] = "off"
    /\ stopping' = [at |-> "close", i |-> stopping.i + 1]
    /\ UNCHANGED <<link, clients, exposed, starting, hosted, use>>
\* The terminal waits three seconds and then cancels what still closes.
ServersCut ==
    /\ ~hosted.before
    /\ \/ /\ stopping.at \in {"close", "closing"}
          /\ stopping' = [stopping EXCEPT !.at = "cut"] /\ UNCHANGED starting
       \/ /\ stopping.at = "await" /\ starting.at = "cleanup"
          /\ starting' = [starting EXCEPT !.at = "cancelled"] /\ UNCHANGED stopping
    /\ UNCHANGED <<link, clients, exposed, hosted, use>>

ServersNext ==
    \/ ServersBegin \/ ServersConnect \/ ServersConnected \/ ServersListed \/ ServersFails
    \/ ServersDropped \/ ServersRegister \/ ServersCancelled
    \/ ServersStop \/ ServersRelease \/ ServersClose \/ ServersClosed \/ ServersCut
    \/ \E s \in Hosts : \/ LinkEnds(s) \/ LinkBreaks(s)
                        \/ UseTool(s) \/ UseReopens(s) \/ UseOver(s)
ServersSpec == ServersInit /\ [][ServersNext]_serversVars

-----------------------------------------------------------------------------

ServersTypeOK ==
    /\ \A s \in Hosts : /\ link[s] \in {"off", "opening", "up", "closing"}
                        /\ use[s].at \in {"no", "reopen", "opening", "over"}
    /\ starting.at \in {"next", "connect", "list", "drop", "cleanup"} \cup StartOver
    /\ stopping.at \in {"idle", "await", "close", "closing", "done", "cut"}

\* One server that fails takes no other with it, and leaves no connection: after
\* the start each server's tools are there or its client is closed.  After a
\* shutdown no tool is registered and no connection is up or on the way, but for
\* two: a start that was cancelled before the host kept its manager leaves the
\* servers it had reached, and a call that began before the release may open its
\* connection again behind the closing.
ServersAccounted ==
    /\ starting.at = "done" /\ stopping.at = "idle" =>
         /\ exposed = clients /\ exposed = Hosts \ starting.failed
         /\ \A s \in starting.failed : link[s] = "off"
    /\ stopping.at = "done" =>
         /\ exposed = {}
         /\ \A s \in Hosts : link[s] \in {"up", "opening"} =>
              \/ use[s].begun
              \/ starting.at = "cancelled" /\ ~hosted.before /\ s \in clients
=============================================================================
