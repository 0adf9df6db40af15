----------------------------- MODULE Permissions -----------------------------
(***************************************************************************)
(* The decision on a tool call and the grants of a session                  *)
(* (permissions/checker.py, rules.py, modes.py, session_store.py, the       *)
(* question in agent.py and its answer in the front ends).                  *)
(***************************************************************************)
EXTENDS Naturals, FiniteSets

CONSTANTS
    Sessions,       \* bound: sessions of one project
    Settles,        \* whether a switch of session settles open questions: remote.py
                    \* does, app.py does not
    MaxLoad         \* bound: departures from the default policy, open questions and grants

ASSUME PermissionAssumption == /\ Sessions # {} /\ Settles \in BOOLEAN
                               /\ MaxLoad \in Nat \ {0}

VARIABLES
    policy,    \* [mode, user, project, local, scopes, sandboxed]: what the decision
               \* depends on besides the call.  The last matching rule of each rules
               \* file, and those of the active skills
    session,   \* the session of the front end
    checker,   \* [in, grants] by agent: the lead and an agent with a clone of its checker
    store,     \* the grants on disk, by session
    question,  \* the call an agent asks about, and the session it asked in
    approved   \* what the user granted to each session

permVars == <<policy, session, checker, store, question, approved>>

\* Calls, one for each case the decision tells apart: a harmless and a destructive
\* command, two that need consent, one of which works outside the project, edits of a
\* file and of the plan, a file outside the project, the to-do list and a sub-agent.
Commands  == {"list", "wipe", "build", "touch"}
PermCalls == Commands \cup {"edit", "read", "todo", "agent", "notes"}
Writes    == {"edit", "notes"}
Effects   == {"none", "allow", "deny", "ask"}
PermModes == {"default", "acceptEdits", "plan", "bypass"}

\* What the command and path scanners say of each.
KnownSafe(c)   == c = "list"     \* is_safe_command
Destructive(c) == c = "wipe"     \* DangerousCommandDetector.detect
PathOutside(c) == c = "touch"    \* find_shell_path_issues
FileOutside(c) == c = "read"     \* PathSandbox.check

ModeDecides(mode, c) ==    \* mode_decide
    IF \/ mode = "bypass"
       \/ c \notin Commands \cup Writes \cup {"agent"}
       \/ mode = "acceptEdits" /\ c \in Writes
    THEN "allow" ELSE "ask"

\* evaluate: the first file with a matching rule.  evaluate_scoped: the strictest
\* of the skills.
Rule(p) == IF p.user # "none" THEN p.user ELSE IF p.project # "none" THEN p.project ELSE p.local
ScopedAny(p) == IF p.scopes = {} THEN "none" ELSE CHOOSE e \in p.scopes : TRUE    \* mutant
Scoped(p) == IF p.scopes = {} THEN "none" ELSE
             CHOOSE e \in p.scopes : \A f \in p.scopes :
                 f = e \/ e = "deny" \/ (e = "ask" /\ f = "allow")

\* check(): the first layer that has something to say.
Check(p, granted, c) ==
    IF p.mode = "plan" /\ c \in {"agent", "notes"} THEN "allow"
    ELSE IF KnownSafe(c) THEN (IF Rule(p) \in {"deny", "ask"} THEN Rule(p) ELSE "allow")
    ELSE IF Destructive(c) THEN "deny"
    ELSE IF PathOutside(c) /\ p.mode # "bypass" /\ (Rule(p) \in {"deny", "ask"} \/ ~granted)
         THEN (IF Rule(p) = "deny" THEN "deny" ELSE "ask")
    ELSE IF c \in Commands /\ p.sandboxed
         THEN (IF Rule(p) \in {"deny", "ask"} THEN Rule(p) ELSE "allow")
    ELSE IF FileOutside(c) /\ p.mode # "bypass" THEN "ask"
    ELSE IF Rule(p) # "none" THEN Rule(p)
    ELSE IF p.scopes # {} THEN Scoped(p)
    ELSE IF c = "todo" \/ granted THEN "allow"
    ELSE ModeDecides(p.mode, c)

-----------------------------------------------------------------------------
PermAgents == {"lead", "clone"}
NoCommand == "none"
First == CHOOSE s \in Sessions : TRUE

Default == [mode |-> "default", user |-> "none", project |-> "none", local |-> "none",
            scopes |-> {}, sandboxed |-> FALSE]
Policies == [mode : PermModes, user : Effects, project : Effects, local : Effects,
             scopes : SUBSET (Effects \ {"none"}), sandboxed : BOOLEAN]
Load == Cardinality({f \in DOMAIN policy : policy[f] # Default[f]})
        + Cardinality({a \in PermAgents : question[a].call # NoCommand})
        + Cardinality(UNION {approved[s] \X {s} : s \in Sessions})

PermInit ==
    /\ policy = Default
    /\ session = First
    /\ checker = [a \in PermAgents |-> [in |-> First, grants |-> {}]]
    /\ store = [s \in Sessions |-> {}]
    /\ question = [a \in PermAgents |-> [call |-> NoCommand, in |-> First]]
    /\ approved = [s \in Sessions |-> {}]

\* set_permission_mode, a rule file edited, a skill activated or cleared, the OS
\* sandbox attached: any of them, also while a question is open.
Reconfigure ==
    /\ \/ \E mode \in PermModes : policy' = [policy EXCEPT !.mode = mode]
       \/ \E file \in {"user", "project", "local"}, e \in Effects : policy' = [policy EXCEPT ![file] = e]
       \/ \E es \in SUBSET (Effects \ {"none"}) : policy' = [policy EXCEPT !.scopes = es]
       \/ policy' = [policy EXCEPT !.sandboxed = TRUE]
    /\ UNCHANGED <<session, checker, store, question, approved>>
    /\ Load' <= MaxLoad

\* A call that needs an answer suspends its agent with a question.
Ask(a) ==
    /\ question[a].call = NoCommand /\ Load < MaxLoad
    /\ \E c \in PermCalls :
         /\ Check(policy, c \in checker[a].grants, c) = "ask"
         /\ c \in {"build", "touch"}     \* bound: the others are alike
         /\ question' = [question EXCEPT ![a] = [call |-> c, in |-> session]]
    /\ UNCHANGED <<policy, session, checker, store, approved>>

\* Yes or no for this once, or the wait ends in a timeout or a cancellation.
AnswerOnce(a) ==
    /\ question[a].call # NoCommand
    /\ question' = [question EXCEPT ![a].call = NoCommand]
    /\ UNCHANGED <<policy, session, checker, store, approved>>

\* What the file of a session grants.
Granted(s) == store[s]

\* Mutant: a checker saves its own snapshot over what others saved.
MergedOwn(a) == checker[a].grants \cup {question[a].call}

\* add_session_allow: what other checkers of the session saved is taken over first.
Merged(a) == checker[a].grants \cup Granted(checker[a].in) \cup {question[a].call}
AnswerForSession(a) ==
    /\ question[a].call # NoCommand
    /\ checker' = [checker EXCEPT ![a].grants = Merged(a)]
    /\ store' = [store EXCEPT ![checker[a].in] = Merged(a)]
    /\ approved' = [approved EXCEPT ![IF a = "lead" THEN question[a].in ELSE checker[a].in] =
                                      @ \cup {question[a].call}]
    /\ question' = [question EXCEPT ![a].call = NoCommand]
    /\ UNCHANGED <<policy, session>>

\* clone(): a child starts with the lead's grants and its store.
CloneChecker ==
    /\ question["clone"].call = NoCommand
    /\ checker' = [checker EXCEPT !["clone"] = checker["lead"]]
    /\ UNCHANGED <<policy, session, store, question, approved>>

\* _set_session and bind_session: the lead's checker takes the grants of the
\* session it is bound to and no others.
SwitchSession(s) ==
    /\ s # session
    /\ session' = s
    /\ checker' = [checker EXCEPT !["lead"] = [in |-> s, grants |-> Granted(s)]]
    /\ question' = IF Settles THEN [a \in PermAgents |-> [question[a] EXCEPT !.call = NoCommand]]
                   ELSE question
    /\ UNCHANGED <<policy, store, approved>>

PermNext ==
    \/ Reconfigure \/ CloneChecker
    \/ \E a \in PermAgents : Ask(a) \/ AnswerOnce(a) \/ AnswerForSession(a)
    \/ \E s \in Sessions : SwitchSession(s)
PermSpec == PermInit /\ [][PermNext]_permVars

-----------------------------------------------------------------------------
PermTypeOK ==
    /\ policy \in Policies
    /\ session \in Sessions
    /\ checker \in [PermAgents -> [in : Sessions, grants : SUBSET PermCalls]]
    /\ store \in [Sessions -> SUBSET PermCalls] /\ approved \in [Sessions -> SUBSET PermCalls]
    /\ question \in [PermAgents -> [call : PermCalls \cup {NoCommand}, in : Sessions]]

\* No layer overrules one of more authority: a destructive command is never let
\* through, what a rules file forbids or wants asked is not allowed by the file of
\* a narrower tier, a skill, a grant, a mode or the OS sandbox (but for the
\* exceptions of plan mode), no skill overrules a stricter one,
\* and what leaves the project is asked about however it is allowed otherwise.
AuthorityKept ==
    \A c \in PermCalls, granted \in BOOLEAN :
      LET e == Check(policy, granted, c)
          planned == policy.mode = "plan" /\ c \in {"agent", "notes"}
      IN /\ c = "wipe" => e = "deny"
         /\ policy.user \in {"deny", "ask"} /\ ~planned => e # "allow"
         /\ policy.user = "none" /\ policy.project \in {"deny", "ask"} /\ ~planned => e # "allow"
         /\ "deny" \in policy.scopes /\ Rule(policy) = "none" /\ c = "edit" => e = "deny"
         /\ c = "read" /\ policy.mode # "bypass" => e = "ask"
         /\ c = "touch" /\ policy.mode # "bypass" /\ ~granted => e # "allow"

\* The grants of a session are those the user gave in it: none is lost to a
\* checker with an older snapshot, none reaches another session.
GrantsExact ==
    \A s \in Sessions : /\ store[s] = approved[s]
                        /\ \A a \in PermAgents : checker[a].in = s => checker[a].grants \subseteq approved[s]
=============================================================================
