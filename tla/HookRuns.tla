------------------------------ MODULE HookRuns -------------------------------
(***************************************************************************)
(* The hooks around tool calls: one engine, shared by the lead and its      *)
(* sub-agents (hooks/engine.py, models.py, conditions.py, executors.py and  *)
(* their use in agent.py).                                                  *)
(***************************************************************************)
EXTENDS Naturals, Sequences, FiniteSets, SequencesExt

CONSTANTS
    HookAgents,     \* agents that share the engine
    PreHooks,       \* hooks of pre_tool_use, in the order of the configuration
    PostHooks,      \* hooks of post_tool_use
    OnceHooks,      \* those with once
    RejectHooks,    \* those with reject: only of pre_tool_use
    AsyncHooks,     \* those with async: never of pre_tool_use (load_hooks)
    MaxHookCalls    \* bound: tool calls of each agent

Hooks == ToSet(PreHooks) \cup ToSet(PostHooks)
ASSUME HookAssumption == /\ ToSet(PreHooks) \cap ToSet(PostHooks) = {}
                         /\ RejectHooks \subseteq ToSet(PreHooks)
                         /\ AsyncHooks \subseteq ToSet(PostHooks)
                         /\ OnceHooks \subseteq Hooks
                         /\ PreHooks \in Seq(Hooks) /\ IsInjective(PreHooks)
                         /\ PostHooks \in Seq(Hooks) /\ IsInjective(PostHooks)
                         /\ IsFiniteSet(HookAgents)
                         /\ MaxHookCalls \in [HookAgents -> Nat]

VARIABLES
    hookCall,  \* the call of an agent: where it is, the hooks matched, those that remain
    marked,  \* Hook.executed, as the number of times it was marked
    aside,     \* asynchronous runs under way, by hook
    hookNotes,     \* _notifications not drained yet, by hook
    drained,   \* notifications that reached an agent, by hook
    killed,    \* runs that were cancelled with their agent
    engine     \* open, waiting in shutdown(), closed

hookVars == <<hookCall, marked, aside, hookNotes, drained, killed, engine>>

Bump(f, h) == [f EXCEPT ![h] = @ + 1]

\* Mutant: hooks that run once are found again.
MatchingAll(met) == met

\* find_matching_hooks: those whose condition holds (met) and that may still run.
\* What it returns is not looked at again.
Matching(met) == {h \in met : ~(h \in OnceHooks /\ marked[h] > 0)}

\* The loop over what was matched goes in the order of the configuration.
HookAt(call) ==
    LET hooks == IF call.pc = "pre" THEN PreHooks ELSE PostHooks
    IN hooks[CHOOSE i \in DOMAIN hooks :
                /\ hooks[i] \in call.todo
                /\ \A j \in DOMAIN hooks : hooks[j] \in call.todo => i <= j]

HookInit ==
    /\ hookCall = [a \in HookAgents |-> [pc |-> "idle", matched |-> {}, todo |-> {},
                                         now |-> FALSE, n |-> 0]]
    /\ marked = [h \in Hooks |-> 0] /\ aside = [h \in Hooks |-> 0]
    /\ hookNotes = [h \in Hooks |-> 0] /\ drained = [h \in Hooks |-> 0]
    /\ killed = [h \in Hooks |-> 0]
    /\ engine = "open"

Matched(a, pc, hooks) ==
    \E met \in SUBSET ToSet(hooks) :
        hookCall' = [hookCall EXCEPT ![a].pc = pc, ![a].now = FALSE,
                                     ![a].matched = Matching(met),
                                     ![a].todo = Matching(met)]

CallTool(a) ==
    /\ hookCall[a].pc = "idle" /\ hookCall[a].n < MaxHookCalls[a] /\ engine = "open"
    /\ Matched(a, "pre", PreHooks)
    /\ UNCHANGED <<marked, aside, hookNotes, drained, killed, engine>>

\* The next hook is marked and started; an asynchronous one is not waited for.
HookStarts(a) ==
    LET h == HookAt(hookCall[a]) IN
    /\ hookCall[a].todo # {} /\ ~hookCall[a].now
    /\ marked' = Bump(marked, h)
    /\ IF h \in AsyncHooks
       THEN /\ aside' = Bump(aside, h)
            /\ hookCall' = [hookCall EXCEPT ![a].todo = @ \ {h}]
       ELSE /\ hookCall' = [hookCall EXCEPT ![a].now = TRUE]
            /\ UNCHANGED aside
    /\ UNCHANGED <<hookNotes, drained, killed, engine>>

\* Mutant: a hook that fails lets the call pass, and a reject hook only rejects
\* when it ends well.
HookEndsOpen(a) ==
    LET h == HookAt(hookCall[a]) IN
    /\ hookCall[a].now
    /\ hookNotes' = Bump(hookNotes, h)
    /\ \E well \in BOOLEAN :
         hookCall' = [hookCall EXCEPT ![a].now = FALSE,
                                      ![a].todo = IF h \in RejectHooks /\ well THEN {} ELSE @ \ {h},
                                      ![a].pc = IF h \in RejectHooks /\ well THEN "rejected" ELSE @]
    /\ UNCHANGED <<marked, aside, drained, killed, engine>>

\* It ends: well, with an error or at its timeout, which all leave a
\* notification.  A reject hook rejects the call in every case.
HookEnds(a) ==
    LET h == HookAt(hookCall[a]) IN
    /\ hookCall[a].now
    /\ hookNotes' = Bump(hookNotes, h)
    /\ hookCall' = [hookCall EXCEPT ![a].now = FALSE,
                                    ![a].todo = IF h \in RejectHooks THEN {} ELSE @ \ {h},
                                    ![a].pc = IF h \in RejectHooks THEN "rejected" ELSE @]
    /\ UNCHANGED <<marked, aside, drained, killed, engine>>
AsyncEnds(h) ==
    /\ aside[h] > 0
    /\ aside' = [aside EXCEPT ![h] = @ - 1]
    /\ hookNotes' = Bump(hookNotes, h)
    /\ UNCHANGED <<hookCall, marked, drained, killed, engine>>

\* _drain_hook_events and get_prompt_messages: the agent that asks first gets
\* what the hooks of all agents left.
Drained ==
    /\ drained' = [h \in Hooks |-> drained[h] + hookNotes[h]]
    /\ hookNotes' = [h \in Hooks |-> 0]
ToolRuns(a) ==
    /\ hookCall[a].pc = "pre" /\ hookCall[a].todo = {}
    /\ Drained
    /\ Matched(a, "post", PostHooks)
    /\ UNCHANGED <<marked, aside, killed, engine>>
HookedCallOver(a) ==
    /\ hookCall[a].pc \in {"post", "rejected"} /\ hookCall[a].todo = {}
    /\ Drained
    /\ hookCall' = [hookCall EXCEPT ![a].pc = "idle", ![a].matched = {}, ![a].n = @ + 1]
    /\ UNCHANGED <<marked, aside, killed, engine>>

HookCallerCancelled(a) ==
    /\ hookCall[a].pc # "idle"
    /\ killed' = IF hookCall[a].now THEN Bump(killed, HookAt(hookCall[a])) ELSE killed
    /\ hookCall' = [hookCall EXCEPT ![a] = [pc |-> "idle", matched |-> {}, todo |-> {},
                                            now |-> FALSE, n |-> @.n + 1]]
    /\ UNCHANGED <<marked, aside, hookNotes, drained, engine>>

\* shutdown() after the agents are stopped: wait for the asynchronous runs.
ShutdownStarts ==
    /\ engine = "open" /\ \A a \in HookAgents : hookCall[a].pc = "idle"
    /\ engine' = "waiting"
    /\ UNCHANGED <<hookCall, marked, aside, hookNotes, drained, killed>>

\* Mutant: shutdown() does not wait for the asynchronous runs.
HooksShutDownAtOnce ==
    /\ engine = "waiting"
    /\ engine' = "closed"
    /\ UNCHANGED <<hookCall, marked, aside, hookNotes, drained, killed>>

HooksShutDown ==
    /\ engine = "waiting" /\ \A h \in Hooks : aside[h] = 0
    /\ engine' = "closed"
    /\ UNCHANGED <<hookCall, marked, aside, hookNotes, drained, killed>>

HookProgress == \/ \E a \in HookAgents : HookStarts(a) \/ HookEnds(a) \/ ToolRuns(a) \/ HookedCallOver(a)
                \/ \E h \in Hooks : AsyncEnds(h)
                \/ HooksShutDown
HookNext == \/ HookProgress \/ ShutdownStarts
            \/ \E a \in HookAgents : CallTool(a) \/ HookCallerCancelled(a)
HookSpec == HookInit /\ [][HookNext]_hookVars /\ WF_hookVars(HookProgress)

-----------------------------------------------------------------------------
HookTypeOK ==
    /\ \A a \in HookAgents : /\ hookCall[a].pc \in {"idle", "pre", "post", "rejected"}
                             /\ hookCall[a].matched \subseteq Hooks
                             /\ hookCall[a].now \in BOOLEAN /\ hookCall[a].n \in 0..MaxHookCalls[a]
    /\ {marked, aside, hookNotes, drained, killed} \subseteq [Hooks -> Nat]
    /\ engine \in {"open", "waiting", "closed"}

\* A reject hook is fail closed: no tool runs while one was matched for its call,
\* whatever became of the hook.
GuardsHold == [][\A a \in HookAgents :
    hookCall[a].pc = "pre" /\ hookCall'[a].pc = "post" =>
        hookCall[a].matched \cap RejectHooks = {}]_hookVars

\* Every run of a hook is told about exactly once, unless it was cancelled; a
\* once hook runs again only while another agent was already about to run it;
\* and nothing is under way when shutdown() has returned.
Running(h) == Cardinality({a \in HookAgents : hookCall[a].now /\ HookAt(hookCall[a]) = h})
HooksAccounted ==
    /\ \A h \in Hooks : marked[h] = Running(h) + aside[h] + hookNotes[h] + drained[h] + killed[h]
    /\ \A h \in OnceHooks : marked[h] <= Cardinality(HookAgents)
    /\ engine = "closed" => \A h \in Hooks : aside[h] = 0

\* A call under way is over at last, and so is a shutdown.
HooksEnd == /\ \A a \in HookAgents : []<>(hookCall[a].pc = "idle")
            /\ []<>(engine # "waiting")
=============================================================================
