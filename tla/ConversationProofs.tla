-------------------------- MODULE ConversationProofs --------------------------
(***************************************************************************)
(* Theorems about the components a conversation goes through, for any       *)
(* values of their constants: the hooks around a call, the answer of the    *)
(* model as it streams, the dispatch of its calls, what is kept of their    *)
(* results and of the conversation, and the notes that are taken of what    *)
(* was said.  Each has its inductive invariant in the form of               *)
(* ComponentProofs.                                                         *)
(***************************************************************************)
EXTENDS HookRuns, ModelTurn, ToolDispatch, Compaction, MemoryNotes,
        FiniteSetTheorems, SequenceTheorems, WellFoundedInduction, TLAPS

(* A function that was changed at one place. *)
LEMMA Assigned ==
  ASSUME NEW D, NEW S, NEW f \in [D -> S], NEW d \in D, NEW m \in S, NEW g,
         g = [f EXCEPT ![d] = m]
  PROVE  g \in [D -> S] /\ g[d] = m /\ \A e \in D \ {d} : g[e] = f[e]
OBVIOUS


(* A set of numbers has a least one. *)
LEMMA LeastNumber ==
  ASSUME NEW S \in SUBSET Nat, S # {}
  PROVE  \E m \in S : \A n \in S : m <= n
<1>1. IsWellFoundedOn(OpToRel(<, Nat), Nat)
  BY NatLessThanWellFounded, Zenon
<1>2. S \subseteq Nat
  OBVIOUS
<1>3. PICK m \in S : \A n \in S : <<n, m>> \notin OpToRel(<, Nat)
  BY <1>1, <1>2, WFMin, Zenon
<1>4. \A n \in S : n < m => <<n, m>> \in OpToRel(<, Nat)
  BY Zenon DEF OpToRel
<1>5. \A n \in S : ~(n < m)
  BY <1>3, <1>4, Zenon
<1>6. \A n \in S : m <= n
  <2> HIDE <1>3, <1>4
  <2> QED BY <1>5, SMT
<1> QED BY <1>6

-----------------------------------------------------------------------------
(* Hooks.  A row of hookCall says which hooks of its call are still to come; a *)
(* reject hook leaves them only with the call rejected, and a hook that runs   *)
(* once was matched while it was not marked.                                   *)
CallPlaces == {"idle", "pre", "post", "rejected"}
HookRow == [pc : CallPlaces, matched : SUBSET Hooks, todo : SUBSET Hooks,
            now : BOOLEAN, n : Nat]
HookCounts == [Hooks -> Nat]

RowFits(row) ==
  /\ row.pc \in {"idle", "rejected"} => row.todo = {}
  /\ row.pc = "pre" => row.todo \subseteq ToSet(PreHooks) /\ row.matched \cap RejectHooks \subseteq row.todo
  /\ row.pc = "post" => row.todo \subseteq ToSet(PostHooks)
  /\ row.now => row.todo # {}

\* A call under way is one of its agent's.
TurnsFit(row, top) == row.n <= top /\ (row.pc # "idle" => row.n < top)

\* The hook that runs in a call, and those it will still run.
RunsIn(row, h) == row.now /\ HookAt(row) = h
WaitsIn(row, h) == h \in row.todo /\ ~RunsIn(row, h)
RunnersOf(h) == {a \in HookAgents : RunsIn(hookCall[a], h)}
WaitersOf(h) == {a \in HookAgents : WaitsIn(hookCall[a], h)}

CallsFit == /\ hookCall \in [HookAgents -> HookRow]
            /\ \A a \in HookAgents : RowFits(hookCall[a]) /\ TurnsFit(hookCall[a], MaxHookCalls[a])
CountsFit == /\ marked \in HookCounts /\ aside \in HookCounts /\ hookNotes \in HookCounts
             /\ drained \in HookCounts /\ killed \in HookCounts
EngineFits == /\ engine \in {"open", "waiting", "closed"}
              /\ engine # "open" => \A a \in HookAgents : hookCall[a].pc = "idle"
              /\ engine = "closed" => \A h \in Hooks : aside[h] = 0
Balanced(h, c) == marked[h] = c + aside[h] + hookNotes[h] + drained[h] + killed[h]
RunsBalance == \A h \in Hooks : Balanced(h, Cardinality(RunnersOf(h)))
OnceBounded == \A h \in OnceHooks : marked[h] + Cardinality(WaitersOf(h)) <= Cardinality(HookAgents)

HookInv == CallsFit /\ CountsFit /\ EngineFits /\ RunsBalance /\ OnceBounded

One(b) == IF b THEN 1 ELSE 0

(* One member more or less in a set of agents. *)
LEMMA OneMember ==
  ASSUME NEW A, IsFiniteSet(A), NEW S \in SUBSET A, NEW T \in SUBSET A, NEW a \in A,
         S \ {a} = T \ {a}
  PROVE  /\ Cardinality(S) \in Nat /\ Cardinality(T) \in Nat
         /\ Cardinality(T) + One(a \in S) = Cardinality(S) + One(a \in T)
<1> DEFINE R == S \ {a}
<1>1. IsFiniteSet(R) /\ IsFiniteSet(S) /\ IsFiniteSet(T)
  BY FS_Subset
<1>2. Cardinality(R) \in Nat /\ Cardinality(S) \in Nat /\ Cardinality(T) \in Nat
  BY <1>1, FS_CardinalityType
<1>3. a \notin R
  OBVIOUS
<1> HIDE DEF R
<1>4. Cardinality(R \cup {a}) = Cardinality(R) + 1
  BY <1>1, <1>3, FS_AddElement
<1>5. Cardinality(S) = Cardinality(R) + One(a \in S)
  <2>1. CASE a \in S
    <3>1. S = R \cup {a}
      BY <2>1 DEF R
    <3> QED BY <2>1, <3>1, <1>4 DEF One
  <2>2. CASE a \notin S
    <3>1. S = R
      BY <2>2 DEF R
    <3> QED BY <2>2, <3>1, <1>2 DEF One
  <2> QED BY <2>1, <2>2
<1>6. Cardinality(T) = Cardinality(R) + One(a \in T)
  <2>1. CASE a \in T
    <3>1. T = R \cup {a}
      BY <2>1 DEF R
    <3> QED BY <2>1, <3>1, <1>4 DEF One
  <2>2. CASE a \notin T
    <3>1. T = R
      BY <2>2 DEF R
    <3> QED BY <2>2, <3>1, <1>2 DEF One
  <2> QED BY <2>1, <2>2
<1>7. One(a \in S) \in Nat /\ One(a \in T) \in Nat
  BY DEF One
<1> QED BY <1>2, <1>5, <1>6, <1>7

(* The next hook is one of those to come. *)
LEMMA NextToCome ==
  ASSUME NEW row \in HookRow, RowFits(row), row.todo # {}
  PROVE  HookAt(row) \in row.todo /\ HookAt(row) \in Hooks
<1> DEFINE hooks == IF row.pc = "pre" THEN PreHooks ELSE PostHooks
           Here == {i \in DOMAIN hooks : hooks[i] \in row.todo}
<1>1. row.todo \subseteq ToSet(hooks)
  BY DEF RowFits, HookRow, CallPlaces
<1>2. hooks \in {PreHooks, PostHooks}
  OBVIOUS
<1>3. DOMAIN hooks \subseteq Nat
  BY <1>2, HookAssumption
<1>4. Here # {}
  BY <1>1 DEF ToSet
<1>5. Here \subseteq Nat
  BY <1>3
<1>6. \E i \in Here : \A j \in Here : i <= j
  <2> HIDE DEF Here
  <2> QED BY <1>4, <1>5, LeastNumber
<1>7. \E i \in DOMAIN hooks : hooks[i] \in row.todo /\ \A j \in DOMAIN hooks : hooks[j] \in row.todo => i <= j
  BY <1>6
<1>8. HookAt(row) = hooks[CHOOSE i \in DOMAIN hooks :
          hooks[i] \in row.todo /\ \A j \in DOMAIN hooks : hooks[j] \in row.todo => i <= j]
  BY Zenon DEF HookAt
<1>9. HookAt(row) \in row.todo
  <2> HIDE DEF hooks
  <2>1. PICK i : i = CHOOSE x \in DOMAIN hooks :
          hooks[x] \in row.todo /\ \A j \in DOMAIN hooks : hooks[j] \in row.todo => x <= j
    OBVIOUS
  <2>2. hooks[i] \in row.todo
    BY <2>1, <1>7, Zenon
  <2> QED BY <2>1, <2>2, <1>8, Zenon
<1> QED BY <1>9 DEF HookRow

(* What a row of one agent's call changes in the sets of agents. *)
RunCount(h) == Cardinality(RunnersOf(h))
WaitCount(h) == Cardinality(WaitersOf(h))
RunMoves(row, q) == \A h \in Hooks :
  /\ RunCount(h) \in Nat /\ RunCount(h)' \in Nat
  /\ RunCount(h)' + One(RunsIn(row, h)) = RunCount(h) + One(RunsIn(q, h))
WaitMoves(row, q) == \A h \in Hooks :
  /\ WaitCount(h) \in Nat /\ WaitCount(h)' \in Nat
  /\ WaitCount(h)' + One(WaitsIn(row, h)) = WaitCount(h) + One(WaitsIn(q, h))

LEMMA CallGoesOn ==
  ASSUME CallsFit, NEW a \in HookAgents, NEW q \in HookRow, RowFits(q),
         TurnsFit(q, MaxHookCalls[a]), hookCall' = [hookCall EXCEPT ![a] = q]
  PROVE  /\ CallsFit' /\ hookCall'[a] = q
         /\ \A b \in HookAgents \ {a} : hookCall'[b] = hookCall[b]
         /\ RunMoves(hookCall[a], q) /\ WaitMoves(hookCall[a], q)
<1>0. hookCall \in [HookAgents -> HookRow]
  BY DEF CallsFit
<1>1. /\ hookCall' \in [HookAgents -> HookRow] /\ hookCall'[a] = q
      /\ \A b \in HookAgents \ {a} : hookCall'[b] = hookCall[b]
  BY <1>0, Assigned
<1>2. CallsFit'
  <2>1. \A b \in HookAgents : RowFits(hookCall'[b]) /\ TurnsFit(hookCall'[b], MaxHookCalls[b])
    BY <1>1, Zenon DEF CallsFit
  <2> QED BY <1>1, <2>1, Zenon DEF CallsFit
<1>f. IsFiniteSet(HookAgents)
  BY HookAssumption
<1>3. ASSUME NEW h \in Hooks
      PROVE /\ RunCount(h) \in Nat /\ RunCount(h)' \in Nat
            /\ RunCount(h)' + One(RunsIn(hookCall[a], h)) = RunCount(h) + One(RunsIn(q, h))
  <2> DEFINE S == RunnersOf(h)
             T == {b \in HookAgents : RunsIn(hookCall'[b], h)}
  <2>1. T = RunnersOf(h)'
    BY DEF RunnersOf, RunsIn
  <2>2. S \subseteq HookAgents /\ T \subseteq HookAgents
    BY DEF RunnersOf
  <2>3. S \ {a} = T \ {a}
    BY <1>1, Zenon DEF RunnersOf
  <2>4. (a \in S <=> RunsIn(hookCall[a], h)) /\ (a \in T <=> RunsIn(q, h))
    BY <1>1, Zenon DEF RunnersOf
  <2>5. One(a \in S) = One(RunsIn(hookCall[a], h)) /\ One(a \in T) = One(RunsIn(q, h))
    BY <2>4, Zenon DEF One
  <2> HIDE DEF S, T
  <2>6. /\ Cardinality(S) \in Nat /\ Cardinality(T) \in Nat
        /\ Cardinality(T) + One(a \in S) = Cardinality(S) + One(a \in T)
    BY <1>f, <2>2, <2>3, OneMember
  <2>7. RunCount(h) = Cardinality(S) /\ RunCount(h)' = Cardinality(T)
    BY <2>1, Zenon DEF RunCount, S
  <2> QED BY <2>5, <2>6, <2>7
<1>4. ASSUME NEW h \in Hooks
      PROVE /\ WaitCount(h) \in Nat /\ WaitCount(h)' \in Nat
            /\ WaitCount(h)' + One(WaitsIn(hookCall[a], h)) = WaitCount(h) + One(WaitsIn(q, h))
  <2> DEFINE S == WaitersOf(h)
             T == {b \in HookAgents : WaitsIn(hookCall'[b], h)}
  <2>1. T = WaitersOf(h)'
    BY DEF WaitersOf, WaitsIn, RunsIn
  <2>2. S \subseteq HookAgents /\ T \subseteq HookAgents
    BY DEF WaitersOf
  <2>3. S \ {a} = T \ {a}
    BY <1>1, Zenon DEF WaitersOf
  <2>4. (a \in S <=> WaitsIn(hookCall[a], h)) /\ (a \in T <=> WaitsIn(q, h))
    BY <1>1, Zenon DEF WaitersOf
  <2>5. One(a \in S) = One(WaitsIn(hookCall[a], h)) /\ One(a \in T) = One(WaitsIn(q, h))
    BY <2>4, Zenon DEF One
  <2> HIDE DEF S, T
  <2>6. /\ Cardinality(S) \in Nat /\ Cardinality(T) \in Nat
        /\ Cardinality(T) + One(a \in S) = Cardinality(S) + One(a \in T)
    BY <1>f, <2>2, <2>3, OneMember
  <2>7. WaitCount(h) = Cardinality(S) /\ WaitCount(h)' = Cardinality(T)
    BY <2>1, Zenon DEF WaitCount, S
  <2> QED BY <2>5, <2>6, <2>7
<1> QED BY <1>1, <1>2, <1>3, <1>4 DEF RunMoves, WaitMoves

(* The counts of one hook after a bump. *)
LEMMA Bumped ==
  ASSUME NEW f \in HookCounts, NEW h \in Hooks, NEW g, g = Bump(f, h)
  PROVE  g \in HookCounts /\ g[h] = f[h] + 1 /\ \A k \in Hooks \ {h} : g[k] = f[k]
<1>1. PICK m \in Nat : m = f[h] + 1
  BY DEF HookCounts
<1>2. g = [f EXCEPT ![h] = m]
  BY <1>1, Zenon DEF Bump
<1> QED BY <1>1, <1>2 DEF HookCounts

(* What a matched row is. *)
LEMMA MatchedRow ==
  ASSUME CallsFit, CountsFit, NEW a \in HookAgents, NEW pc \in {"pre", "post"},
         NEW hooks, hooks = (IF pc = "pre" THEN PreHooks ELSE PostHooks), Matched(a, pc, hooks),
         hookCall[a].n < MaxHookCalls[a]
  PROVE  \E q \in HookRow :
           /\ hookCall' = [hookCall EXCEPT ![a] = q] /\ q.pc = pc /\ ~q.now
           /\ RowFits(q) /\ TurnsFit(q, MaxHookCalls[a])
           /\ \A h \in OnceHooks : h \in q.todo => marked[h] = 0
<1>1. PICK met \in SUBSET ToSet(hooks) :
        hookCall' = [hookCall EXCEPT ![a].pc = pc, ![a].now = FALSE,
                                     ![a].matched = Matching(met), ![a].todo = Matching(met)]
  BY Zenon DEF Matched
<1>2. PICK row \in HookRow : row = hookCall[a]
  BY DEF CallsFit
<1>3. PICK M : M = Matching(met)
  OBVIOUS
<1>4. M \subseteq ToSet(hooks) /\ M \subseteq Hooks /\ \A h \in OnceHooks : h \in M => ~(marked[h] > 0)
  <2>1. M \subseteq met
    BY <1>3 DEF Matching
  <2>2. \A h \in OnceHooks : h \in M => ~(marked[h] > 0)
    BY <1>3 DEF Matching
  <2>3. met \subseteq ToSet(hooks) /\ ToSet(hooks) \subseteq Hooks
    BY DEF Hooks
  <2> QED BY <2>1, <2>2, <2>3
<1>5. PICK q : q = [row EXCEPT !.pc = pc, !.now = FALSE, !.matched = M, !.todo = M]
  OBVIOUS
<1>6. hookCall' = [hookCall EXCEPT ![a] = q]
  BY <1>1, <1>2, <1>3, <1>5, Zenon
<1>7. q \in HookRow /\ q.pc = pc /\ q.now = FALSE /\ q.matched = M /\ q.todo = M /\ q.n = row.n
  BY <1>2, <1>4, <1>5 DEF HookRow, CallPlaces
<1>8. RowFits(q)
  BY <1>4, <1>7 DEF RowFits
<1>9. TurnsFit(q, MaxHookCalls[a])
  <2>1. MaxHookCalls[a] \in Nat
    BY HookAssumption
  <2> QED BY <1>2, <1>7, <2>1 DEF TurnsFit, HookRow
<1>10. \A h \in OnceHooks : h \in q.todo => marked[h] = 0
  <2>1. \A h \in OnceHooks : marked[h] \in Nat
    BY HookAssumption DEF CountsFit, HookCounts
  <2> QED BY <1>4, <1>7, <2>1
<1> QED BY <1>6, <1>7, <1>8, <1>9, <1>10

LEMMA CountsAre ==
  ASSUME NEW h \in Hooks
  PROVE  /\ CountsFit => /\ marked[h] \in Nat /\ aside[h] \in Nat /\ hookNotes[h] \in Nat
                         /\ drained[h] \in Nat /\ killed[h] \in Nat
         /\ CountsFit' => /\ marked'[h] \in Nat /\ aside'[h] \in Nat /\ hookNotes'[h] \in Nat
                          /\ drained'[h] \in Nat /\ killed'[h] \in Nat
         /\ \A b : One(b) \in Nat
BY DEF CountsFit, HookCounts, One

\* What is counted of a hook moves together.
BalanceMoves(row, q, h) ==
  marked'[h] + One(RunsIn(row, h)) + aside[h] + hookNotes[h] + drained[h] + killed[h]
  = marked[h] + One(RunsIn(q, h)) + aside'[h] + hookNotes'[h] + drained'[h] + killed'[h]

LEMMA BalanceKept ==
  ASSUME RunsBalance, CountsFit, CountsFit', NEW row, NEW q, RunMoves(row, q),
         \A h \in Hooks : BalanceMoves(row, q, h)
  PROVE  RunsBalance'
<1> SUFFICES ASSUME NEW h \in Hooks PROVE Balanced(h, RunCount(h))'
  BY Zenon DEF RunsBalance, RunCount
<1>1. PICK c : c = RunCount(h)
  OBVIOUS
<1>2. PICK d : d = RunCount(h)'
  OBVIOUS
<1>3. c \in Nat /\ d \in Nat /\ d + One(RunsIn(row, h)) = c + One(RunsIn(q, h))
  BY <1>1, <1>2, Zenon DEF RunMoves
<1>4. marked[h] = c + aside[h] + hookNotes[h] + drained[h] + killed[h]
  BY <1>1, Zenon DEF RunsBalance, RunCount, Balanced
<1>5. marked'[h] = d + aside'[h] + hookNotes'[h] + drained'[h] + killed'[h]
  BY <1>3, <1>4, CountsAre DEF BalanceMoves
<1> QED BY <1>2, <1>5, Zenon DEF Balanced

\* A hook that runs once is waited for no more than it was, or is not marked.
OnceMoves(row, q, h) ==
  \/ marked'[h] = 0
  \/ marked'[h] + One(WaitsIn(q, h)) <= marked[h] + One(WaitsIn(row, h))

LEMMA OnceKept ==
  ASSUME OnceBounded, CountsFit, CountsFit', NEW row, NEW q, WaitMoves(row, q),
         \A h \in OnceHooks : OnceMoves(row, q, h)
  PROVE  OnceBounded'
<1> SUFFICES ASSUME NEW h \in OnceHooks
             PROVE (marked[h] + WaitCount(h) <= Cardinality(HookAgents))'
  BY Zenon DEF OnceBounded, WaitCount
<1>h. h \in Hooks /\ IsFiniteSet(HookAgents)
  BY HookAssumption
<1>1. PICK c : c = WaitCount(h)
  OBVIOUS
<1>2. PICK d : d = WaitCount(h)'
  OBVIOUS
<1>3. c \in Nat /\ d \in Nat /\ d + One(WaitsIn(row, h)) = c + One(WaitsIn(q, h))
  BY <1>h, <1>1, <1>2, Zenon DEF WaitMoves
<1>4. PICK N : N = Cardinality(HookAgents)
  OBVIOUS
<1>5. N \in Nat
  BY <1>h, <1>4, FS_CardinalityType
<1>6. marked[h] + c <= N
  BY <1>1, <1>4, Zenon DEF OnceBounded, WaitCount
<1>7. d <= N
  <2> DEFINE T == {b \in HookAgents : WaitsIn(hookCall'[b], h)}
  <2>1. T = WaitersOf(h)' /\ T \subseteq HookAgents
    BY DEF WaitersOf, WaitsIn, RunsIn
  <2> HIDE DEF T
  <2>2. Cardinality(T) <= Cardinality(HookAgents)
    BY <1>h, <2>1, FS_Subset
  <2>3. d = Cardinality(T)
    BY <1>2, <2>1, Zenon DEF WaitCount
  <2> QED BY <1>4, <2>2, <2>3
<1>8. marked'[h] + d <= N
  BY <1>h, <1>3, <1>5, <1>6, <1>7, CountsAre DEF OnceMoves
<1> QED BY <1>2, <1>4, <1>8, Zenon

(* A call asks, its tool runs, it is over: no run changes but what is drained. *)
LEMMA DrainedCounts ==
  ASSUME CountsFit, Drained
  PROVE  /\ hookNotes' \in HookCounts /\ drained' \in HookCounts
         /\ \A h \in Hooks : hookNotes'[h] = 0 /\ drained'[h] = drained[h] + hookNotes[h]
BY DEF CountsFit, HookCounts, Drained

LEMMA CallToolStep ==
  ASSUME HookInv, NEW a \in HookAgents, CallTool(a)
  PROVE  HookInv'
<1>1. CallsFit /\ CountsFit /\ EngineFits /\ RunsBalance /\ OnceBounded
  BY DEF HookInv
<1>2. PICK q \in HookRow :
           /\ hookCall' = [hookCall EXCEPT ![a] = q] /\ q.pc = "pre" /\ ~q.now
           /\ RowFits(q) /\ TurnsFit(q, MaxHookCalls[a])
           /\ \A h \in OnceHooks : h \in q.todo => marked[h] = 0
  <2>1. Matched(a, "pre", PreHooks) /\ hookCall[a].n < MaxHookCalls[a]
    BY DEF CallTool
  <2> QED BY <1>1, <2>1, MatchedRow
<1>3. UNCHANGED <<marked, aside, hookNotes, drained, killed, engine>> /\ engine = "open"
      /\ hookCall[a].pc = "idle"
  BY DEF CallTool
<1>4. CallsFit' /\ RunMoves(hookCall[a], q) /\ WaitMoves(hookCall[a], q)
  BY <1>1, <1>2, CallGoesOn
<1>5. CountsFit' /\ EngineFits'
  BY <1>1, <1>3 DEF CountsFit, EngineFits
<1>6. ~hookCall[a].now /\ hookCall[a].todo = {}
  BY <1>1, <1>3 DEF CallsFit, RowFits, HookRow
<1>7. \A h \in Hooks : BalanceMoves(hookCall[a], q, h)
  BY <1>2, <1>3, <1>6, Zenon DEF BalanceMoves, RunsIn, One
<1>8. \A h \in OnceHooks : OnceMoves(hookCall[a], q, h)
  <2> SUFFICES ASSUME NEW h \in OnceHooks PROVE OnceMoves(hookCall[a], q, h)
    OBVIOUS
  <2>1. CASE h \in q.todo
    BY <1>2, <1>3, <2>1 DEF OnceMoves
  <2>2. CASE h \notin q.todo
    <3>1. One(WaitsIn(q, h)) = 0 /\ One(WaitsIn(hookCall[a], h)) = 0
      BY <1>6, <2>2 DEF One, WaitsIn
    <3>2. marked[h] \in Nat
      BY <1>1, HookAssumption, CountsAre
    <3> QED BY <1>3, <3>1, <3>2 DEF OnceMoves
  <2> QED BY <2>1, <2>2
<1>9. RunsBalance'
  BY <1>1, <1>4, <1>5, <1>7, BalanceKept
<1>10. OnceBounded'
  BY <1>1, <1>4, <1>5, <1>8, OnceKept
<1> QED BY <1>4, <1>5, <1>9, <1>10 DEF HookInv

LEMMA StartsStep ==
  ASSUME HookInv, NEW a \in HookAgents, HookStarts(a)
  PROVE  HookInv'
<1>1. CallsFit /\ CountsFit /\ EngineFits /\ RunsBalance /\ OnceBounded
  BY DEF HookInv
<1>2. PICK row \in HookRow : row = hookCall[a]
  BY <1>1 DEF CallsFit
<1>3. RowFits(row) /\ TurnsFit(row, MaxHookCalls[a]) /\ row.todo # {} /\ ~row.now
  BY <1>1, <1>2, Zenon DEF CallsFit, HookStarts
<1>4. PICK h : h = HookAt(row)
  OBVIOUS
<1>5. h \in row.todo /\ h \in Hooks
  BY <1>3, <1>4, NextToCome
<1>6. /\ marked' = Bump(marked, h) /\ UNCHANGED <<hookNotes, drained, killed, engine>>
      /\ h \in AsyncHooks => /\ aside' = Bump(aside, h)
                             /\ hookCall' = [hookCall EXCEPT ![a].todo = @ \ {h}]
      /\ h \notin AsyncHooks => aside' = aside /\ hookCall' = [hookCall EXCEPT ![a].now = TRUE]
  BY <1>2, <1>4, Zenon DEF HookStarts
<1>7. marked' \in HookCounts /\ marked'[h] = marked[h] + 1 /\ \A k \in Hooks \ {h} : marked'[k] = marked[k]
  BY <1>1, <1>5, <1>6, Bumped DEF CountsFit
<1>8. row.pc \in {"pre", "post"} /\ row.n \in Nat
  BY <1>3 DEF RowFits, HookRow, CallPlaces
<1>9. CASE h \in AsyncHooks
  <2>1. aside' \in HookCounts /\ aside'[h] = aside[h] + 1 /\ \A k \in Hooks \ {h} : aside'[k] = aside[k]
    BY <1>1, <1>5, <1>6, <1>9, Bumped DEF CountsFit
  <2>2. PICK D : D = row.todo \ {h}
    OBVIOUS
  <2>3. PICK q : q = [row EXCEPT !.todo = D]
    OBVIOUS
  <2>4. hookCall' = [hookCall EXCEPT ![a] = q]
    BY <1>2, <1>6, <1>9, <2>2, <2>3, Zenon
  <2>5. q \in HookRow /\ q.pc = row.pc /\ q.now = row.now /\ q.matched = row.matched
        /\ q.todo = D /\ q.n = row.n /\ D \subseteq Hooks
    BY <2>2, <2>3 DEF HookRow
  <2>6. h \notin RejectHooks
    <3>1. h \in ToSet(PostHooks) /\ h \notin ToSet(PreHooks)
      BY <1>9, HookAssumption
    <3> QED BY <3>1, HookAssumption
  <2>7. RowFits(q)
    BY <1>3, <1>8, <2>2, <2>5, <2>6 DEF RowFits
  <2>8. TurnsFit(q, MaxHookCalls[a])
    BY <1>3, <2>5, Zenon DEF TurnsFit
  <2>9. CallsFit' /\ RunMoves(row, q) /\ WaitMoves(row, q) /\ hookCall'[a] = q
        /\ \A b \in HookAgents \ {a} : hookCall'[b] = hookCall[b]
    BY <1>1, <1>2, <2>4, <2>7, <2>8, <2>5, CallGoesOn
  <2>10. CountsFit'
    BY <1>1, <1>6, <1>7, <2>1 DEF CountsFit
  <2>11. EngineFits'
    BY <1>1, <1>2, <1>6, <1>8 DEF EngineFits
  <2>12. \A k \in Hooks : BalanceMoves(row, q, k)
    <3> SUFFICES ASSUME NEW k \in Hooks PROVE BalanceMoves(row, q, k)
      OBVIOUS
    <3>1. One(RunsIn(row, k)) = 0 /\ One(RunsIn(q, k)) = 0
      BY <1>3, <2>5, Zenon DEF One, RunsIn
    <3>2. marked'[k] + aside[k] = marked[k] + aside'[k]
      BY <1>1, <1>7, <2>1, CountsAre
    <3> QED BY <1>1, <1>6, <2>10, <3>1, <3>2, CountsAre DEF BalanceMoves
  <2>13. \A k \in OnceHooks : OnceMoves(row, q, k)
    <3> SUFFICES ASSUME NEW k \in OnceHooks PROVE OnceMoves(row, q, k)
      OBVIOUS
    <3>1. WaitsIn(row, k) <=> k \in row.todo
      BY <1>3, Zenon DEF WaitsIn, RunsIn
    <3>2. WaitsIn(q, k) <=> k \in D
      BY <1>3, <2>5, Zenon DEF WaitsIn, RunsIn
    <3>3. k \in Hooks
      BY HookAssumption
    <3>4. One(WaitsIn(row, k)) = One(k \in row.todo) /\ One(WaitsIn(q, k)) = One(k \in D)
      BY <3>1, <3>2, Zenon DEF One
    <3>5. marked[k] \in Nat
      BY <1>1, <3>3, CountsAre
    <3>6. marked'[k] + One(k \in D) <= marked[k] + One(k \in row.todo)
      BY <1>5, <1>7, <2>2, <3>3, <3>5 DEF One
    <3> QED BY <3>4, <3>6, Zenon DEF OnceMoves
  <2>14. RunsBalance'
    BY <1>1, <2>9, <2>10, <2>12, BalanceKept
  <2>15. OnceBounded'
    BY <1>1, <2>9, <2>10, <2>13, OnceKept
  <2> QED BY <2>9, <2>10, <2>11, <2>14, <2>15 DEF HookInv
<1>10. CASE h \notin AsyncHooks
  <2>3. PICK q : q = [row EXCEPT !.now = TRUE]
    OBVIOUS
  <2>4. hookCall' = [hookCall EXCEPT ![a] = q]
    BY <1>2, <1>6, <1>10, <2>3, Zenon
  <2>5. q \in HookRow /\ q.pc = row.pc /\ q.now = TRUE /\ q.matched = row.matched
        /\ q.todo = row.todo /\ q.n = row.n
    BY <2>3 DEF HookRow
  <2>6. HookAt(q) = h
    BY <1>4, <2>5, Zenon DEF HookAt
  <2>7. RowFits(q)
    BY <1>3, <2>5, Zenon DEF RowFits
  <2>8. TurnsFit(q, MaxHookCalls[a])
    BY <1>3, <2>5, Zenon DEF TurnsFit
  <2>9. CallsFit' /\ RunMoves(row, q) /\ WaitMoves(row, q)
    BY <1>1, <1>2, <2>4, <2>7, <2>8, <2>5, CallGoesOn
  <2>10. CountsFit' /\ aside' = aside
    BY <1>1, <1>6, <1>7, <1>10 DEF CountsFit
  <2>11. EngineFits'
    BY <1>1, <1>2, <1>6, <1>8 DEF EngineFits
  <2>12. \A k \in Hooks : BalanceMoves(row, q, k)
    <3> SUFFICES ASSUME NEW k \in Hooks PROVE BalanceMoves(row, q, k)
      OBVIOUS
    <3>1. One(RunsIn(row, k)) = 0 /\ One(RunsIn(q, k)) = One(h = k)
      BY <1>3, <2>5, <2>6, Zenon DEF One, RunsIn
    <3>2. marked'[k] = marked[k] + One(h = k)
      BY <1>1, <1>7, CountsAre DEF One
    <3> QED BY <1>1, <1>6, <2>10, <3>1, <3>2, CountsAre DEF BalanceMoves
  <2>13. \A k \in OnceHooks : OnceMoves(row, q, k)
    <3> SUFFICES ASSUME NEW k \in OnceHooks PROVE OnceMoves(row, q, k)
      OBVIOUS
    <3>1. WaitsIn(row, k) <=> k \in row.todo
      BY <1>3, Zenon DEF WaitsIn, RunsIn
    <3>2. WaitsIn(q, k) <=> k \in row.todo /\ h # k
      BY <2>5, <2>6, Zenon DEF WaitsIn, RunsIn
    <3>3. k \in Hooks
      BY HookAssumption
    <3>4. One(WaitsIn(row, k)) = One(k \in row.todo)
          /\ One(WaitsIn(q, k)) = One(k \in row.todo /\ h # k)
      BY <3>1, <3>2, Zenon DEF One
    <3>5. marked[k] \in Nat
      BY <1>1, <3>3, CountsAre
    <3>6. marked'[k] + One(k \in row.todo /\ h # k) <= marked[k] + One(k \in row.todo)
      BY <1>5, <1>7, <3>3, <3>5 DEF One
    <3> QED BY <3>4, <3>6, Zenon DEF OnceMoves
  <2>14. RunsBalance'
    BY <1>1, <2>9, <2>10, <2>12, BalanceKept
  <2>15. OnceBounded'
    BY <1>1, <2>9, <2>10, <2>13, OnceKept
  <2> QED BY <2>9, <2>10, <2>11, <2>14, <2>15 DEF HookInv
<1> QED BY <1>9, <1>10

LEMMA EndsStep ==
  ASSUME HookInv, NEW a \in HookAgents, HookEnds(a)
  PROVE  HookInv' /\ (hookCall'[a].pc = "post" => hookCall[a].pc # "pre")
         /\ \A b \in HookAgents \ {a} : hookCall'[b] = hookCall[b]
<1>1. CallsFit /\ CountsFit /\ EngineFits /\ RunsBalance /\ OnceBounded
  BY DEF HookInv
<1>2. PICK row \in HookRow : row = hookCall[a]
  BY <1>1 DEF CallsFit
<1>3. RowFits(row) /\ TurnsFit(row, MaxHookCalls[a]) /\ row.now
  BY <1>1, <1>2, Zenon DEF CallsFit, HookEnds
<1>4. PICK h : h = HookAt(row)
  OBVIOUS
<1>5. h \in row.todo /\ h \in Hooks
  BY <1>3, <1>4, NextToCome DEF RowFits
<1>6. PICK D : D = IF h \in RejectHooks THEN {} ELSE row.todo \ {h}
  OBVIOUS
<1>7. PICK p : p = IF h \in RejectHooks THEN "rejected" ELSE row.pc
  OBVIOUS
<1>8. PICK q : q = [row EXCEPT !.now = FALSE, !.todo = D, !.pc = p]
  OBVIOUS
<1>9. /\ hookNotes' = Bump(hookNotes, h) /\ UNCHANGED <<marked, aside, drained, killed, engine>>
      /\ hookCall' = [hookCall EXCEPT ![a] = q]
  <2>1. /\ hookNotes' = Bump(hookNotes, h) /\ UNCHANGED <<marked, aside, drained, killed, engine>>
    BY <1>2, <1>4, Zenon DEF HookEnds
  <2>2. hookCall' = [hookCall EXCEPT ![a].now = FALSE,
                                    ![a].todo = IF h \in RejectHooks THEN {} ELSE @ \ {h},
                                    ![a].pc = IF h \in RejectHooks THEN "rejected" ELSE @]
    BY <1>2, <1>4, Zenon DEF HookEnds
  <2>3. hookCall' = [hookCall EXCEPT ![a] = q]
    BY <1>2, <1>6, <1>7, <1>8, <2>2, Zenon
  <2> QED BY <2>1, <2>3
<1>10. row.pc \in {"pre", "post"} /\ row.n \in Nat
  BY <1>3, <1>5 DEF RowFits, HookRow, CallPlaces
<1>11. q \in HookRow /\ q.pc = p /\ q.now = FALSE /\ q.matched = row.matched
       /\ q.todo = D /\ q.n = row.n /\ p \in CallPlaces /\ D \subseteq Hooks
  BY <1>6, <1>7, <1>8 DEF HookRow, CallPlaces
<1>12. RowFits(q)
  BY <1>3, <1>6, <1>7, <1>10, <1>11 DEF RowFits
<1>13. TurnsFit(q, MaxHookCalls[a])
  BY <1>3, <1>7, <1>10, <1>11 DEF TurnsFit
<1>14. CallsFit' /\ RunMoves(row, q) /\ WaitMoves(row, q) /\ hookCall'[a] = q
       /\ \A b \in HookAgents \ {a} : hookCall'[b] = hookCall[b]
  BY <1>1, <1>2, <1>9, <1>11, <1>12, <1>13, CallGoesOn
<1>15. hookNotes' \in HookCounts /\ hookNotes'[h] = hookNotes[h] + 1
       /\ \A k \in Hooks \ {h} : hookNotes'[k] = hookNotes[k]
  BY <1>1, <1>5, <1>9, Bumped DEF CountsFit
<1>16. CountsFit'
  BY <1>1, <1>9, <1>15 DEF CountsFit
<1>17. EngineFits'
  BY <1>1, <1>2, <1>9, <1>10 DEF EngineFits
<1>18. \A k \in Hooks : BalanceMoves(row, q, k)
  <2> SUFFICES ASSUME NEW k \in Hooks PROVE BalanceMoves(row, q, k)
    OBVIOUS
  <2>1. One(RunsIn(row, k)) = One(h = k) /\ One(RunsIn(q, k)) = 0
    BY <1>3, <1>4, <1>11, Zenon DEF One, RunsIn
  <2>2. hookNotes'[k] = hookNotes[k] + One(h = k)
    BY <1>1, <1>15, CountsAre DEF One
  <2> QED BY <1>1, <1>9, <1>16, <2>1, <2>2, CountsAre DEF BalanceMoves
<1>19. \A k \in OnceHooks : OnceMoves(row, q, k)
  <2> SUFFICES ASSUME NEW k \in OnceHooks PROVE OnceMoves(row, q, k)
    OBVIOUS
  <2>1. WaitsIn(q, k) => WaitsIn(row, k)
    BY <1>4, <1>6, <1>11 DEF WaitsIn, RunsIn
  <2>2. One(WaitsIn(q, k)) <= One(WaitsIn(row, k))
    BY <2>1 DEF One
  <2>3. marked'[k] = marked[k] /\ marked[k] \in Nat
    BY <1>1, <1>9, HookAssumption, CountsAre
  <2> QED BY <2>2, <2>3, CountsAre, HookAssumption DEF OnceMoves
<1>20. RunsBalance'
  BY <1>1, <1>14, <1>16, <1>18, BalanceKept
<1>21. OnceBounded'
  BY <1>1, <1>14, <1>16, <1>19, OnceKept
<1>22. HookInv'
  BY <1>14, <1>16, <1>17, <1>20, <1>21 DEF HookInv
<1>23. p = "post" => row.pc # "pre"
  BY <1>7
<1> QED BY <1>2, <1>11, <1>14, <1>22, <1>23

(* A row that neither ran nor waits for a hook, before or after. *)
LEMMA QuietMove ==
  ASSUME CallsFit, CountsFit, NEW row \in HookRow, row.todo = {}, ~row.now, RunsBalance, OnceBounded,
         NEW q \in HookRow, ~q.now, RunMoves(row, q), WaitMoves(row, q), CountsFit',
         UNCHANGED <<marked, aside, killed>>,
         \A h \in Hooks : hookNotes'[h] + drained'[h] = hookNotes[h] + drained[h],
         \A h \in OnceHooks : h \in q.todo => marked[h] = 0
  PROVE  RunsBalance' /\ OnceBounded'
<1>1. \A h \in Hooks : BalanceMoves(row, q, h)
  <2> SUFFICES ASSUME NEW h \in Hooks PROVE BalanceMoves(row, q, h)
    OBVIOUS
  <2>1. One(RunsIn(row, h)) = 0 /\ One(RunsIn(q, h)) = 0
    BY Zenon DEF RunsIn, One
  <2> QED BY <2>1, CountsAre DEF BalanceMoves
<1>2. \A h \in OnceHooks : OnceMoves(row, q, h)
  <2> SUFFICES ASSUME NEW h \in OnceHooks PROVE OnceMoves(row, q, h)
    OBVIOUS
  <2>1. CASE h \in q.todo
    BY <2>1 DEF OnceMoves
  <2>2. CASE h \notin q.todo
    <3>1. One(WaitsIn(q, h)) = 0 /\ One(WaitsIn(row, h)) = 0
      BY <2>2 DEF One, WaitsIn
    <3>2. marked[h] \in Nat
      BY HookAssumption, CountsAre
    <3> QED BY <3>1, <3>2 DEF OnceMoves
  <2> QED BY <2>1, <2>2
<1>3. RunsBalance'
  BY <1>1, BalanceKept
<1>4. OnceBounded'
  BY <1>2, OnceKept
<1> QED BY <1>3, <1>4

LEMMA ToolRunsStep ==
  ASSUME HookInv, NEW a \in HookAgents, ToolRuns(a)
  PROVE  HookInv' /\ hookCall[a].matched \cap RejectHooks = {}
         /\ \A b \in HookAgents \ {a} : hookCall'[b] = hookCall[b]
<1>1. CallsFit /\ CountsFit /\ EngineFits /\ RunsBalance /\ OnceBounded
  BY DEF HookInv
<1>2. PICK row \in HookRow : row = hookCall[a]
  BY <1>1 DEF CallsFit
<1>3. RowFits(row) /\ TurnsFit(row, MaxHookCalls[a]) /\ row.pc = "pre" /\ row.todo = {} /\ Drained
      /\ Matched(a, "post", PostHooks)
  BY <1>1, <1>2, Zenon DEF CallsFit, ToolRuns
<1>4. UNCHANGED <<marked, aside, killed, engine>>
  BY DEF ToolRuns
<1>5. row.matched \cap RejectHooks = {} /\ ~row.now /\ row.n < MaxHookCalls[a]
  BY <1>3 DEF RowFits, TurnsFit
<1>6. PICK q \in HookRow :
           /\ hookCall' = [hookCall EXCEPT ![a] = q] /\ q.pc = "post" /\ ~q.now
           /\ RowFits(q) /\ TurnsFit(q, MaxHookCalls[a])
           /\ \A h \in OnceHooks : h \in q.todo => marked[h] = 0
  BY <1>1, <1>2, <1>3, <1>5, MatchedRow
<1>7. CallsFit' /\ RunMoves(row, q) /\ WaitMoves(row, q)
      /\ \A b \in HookAgents \ {a} : hookCall'[b] = hookCall[b]
  BY <1>1, <1>2, <1>6, CallGoesOn
<1>8. /\ hookNotes' \in HookCounts /\ drained' \in HookCounts
      /\ \A h \in Hooks : hookNotes'[h] = 0 /\ drained'[h] = drained[h] + hookNotes[h]
  BY <1>1, <1>3, DrainedCounts
<1>9. CountsFit'
  BY <1>1, <1>4, <1>8 DEF CountsFit
<1>10. EngineFits'
  BY <1>1, <1>2, <1>3, <1>4 DEF EngineFits
<1>11. \A h \in Hooks : hookNotes'[h] + drained'[h] = hookNotes[h] + drained[h]
  BY <1>1, <1>8, CountsAre
<1>12. RunsBalance' /\ OnceBounded'
  BY <1>1, <1>3, <1>4, <1>5, <1>6, <1>7, <1>9, <1>11, QuietMove
<1> QED BY <1>2, <1>5, <1>7, <1>9, <1>10, <1>12 DEF HookInv

LEMMA CallEndsStep ==
  ASSUME HookInv, NEW a \in HookAgents, HookedCallOver(a)
  PROVE  HookInv' /\ hookCall'[a].pc = "idle"
         /\ \A b \in HookAgents \ {a} : hookCall'[b] = hookCall[b]
<1>1. CallsFit /\ CountsFit /\ EngineFits /\ RunsBalance /\ OnceBounded
  BY DEF HookInv
<1>2. PICK row \in HookRow : row = hookCall[a]
  BY <1>1 DEF CallsFit
<1>3. RowFits(row) /\ TurnsFit(row, MaxHookCalls[a]) /\ row.pc \in {"post", "rejected"}
      /\ row.todo = {} /\ Drained
  BY <1>1, <1>2, Zenon DEF CallsFit, HookedCallOver
<1>4. UNCHANGED <<marked, aside, killed, engine>>
  BY DEF HookedCallOver
<1>5. PICK m \in Nat : m = row.n + 1
  BY DEF HookRow
<1>6. PICK E \in SUBSET Hooks : E = {}
  OBVIOUS
<1>7. PICK q : q = [row EXCEPT !.pc = "idle", !.matched = E, !.n = m]
  OBVIOUS
<1>8. hookCall' = [hookCall EXCEPT ![a] = q]
  BY <1>2, <1>5, <1>6, <1>7, Zenon DEF HookedCallOver
<1>9. q \in HookRow /\ q.pc = "idle" /\ q.now = row.now /\ q.todo = {} /\ q.n = m
  BY <1>3, <1>7 DEF HookRow, CallPlaces
<1>10. ~row.now
  BY <1>3 DEF RowFits
<1>11. RowFits(q)
  BY <1>9, <1>10 DEF RowFits
<1>12. TurnsFit(q, MaxHookCalls[a])
  <2>1. MaxHookCalls[a] \in Nat /\ row.n \in Nat
    BY HookAssumption DEF HookRow
  <2> QED BY <1>3, <1>5, <1>9, <2>1 DEF TurnsFit
<1>13. CallsFit' /\ RunMoves(row, q) /\ WaitMoves(row, q) /\ hookCall'[a] = q
       /\ \A b \in HookAgents \ {a} : hookCall'[b] = hookCall[b]
  BY <1>1, <1>2, <1>8, <1>9, <1>11, <1>12, CallGoesOn
<1>14. /\ hookNotes' \in HookCounts /\ drained' \in HookCounts
       /\ \A h \in Hooks : hookNotes'[h] = 0 /\ drained'[h] = drained[h] + hookNotes[h]
  BY <1>1, <1>3, DrainedCounts
<1>15. CountsFit'
  BY <1>1, <1>4, <1>14 DEF CountsFit
<1>16. EngineFits'
  BY <1>1, <1>2, <1>3, <1>4 DEF EngineFits
<1>17. \A h \in Hooks : hookNotes'[h] + drained'[h] = hookNotes[h] + drained[h]
  BY <1>1, <1>14, CountsAre
<1>18. RunsBalance' /\ OnceBounded'
  <2>1. ~q.now /\ \A h \in OnceHooks : h \in q.todo => marked[h] = 0
    BY <1>9, <1>10
  <2> QED BY <1>1, <1>3, <1>4, <1>9, <1>10, <1>13, <1>15, <1>17, <2>1, QuietMove
<1> QED BY <1>9, <1>13, <1>15, <1>16, <1>18 DEF HookInv

LEMMA HookCancelStep ==
  ASSUME HookInv, NEW a \in HookAgents, HookCallerCancelled(a)
  PROVE  HookInv' /\ hookCall'[a].pc = "idle"
         /\ \A b \in HookAgents \ {a} : hookCall'[b] = hookCall[b]
<1>1. CallsFit /\ CountsFit /\ EngineFits /\ RunsBalance /\ OnceBounded
  BY DEF HookInv
<1>2. PICK row \in HookRow : row = hookCall[a]
  BY <1>1 DEF CallsFit
<1>3. RowFits(row) /\ TurnsFit(row, MaxHookCalls[a]) /\ row.pc # "idle"
  BY <1>1, <1>2, Zenon DEF CallsFit, HookCallerCancelled
<1>4. UNCHANGED <<marked, aside, hookNotes, drained, engine>>
  BY DEF HookCallerCancelled
<1>5. PICK m \in Nat : m = row.n + 1
  BY DEF HookRow
<1>6. PICK E \in SUBSET Hooks : E = {}
  OBVIOUS
<1>7. PICK q : q = [pc |-> "idle", matched |-> E, todo |-> E, now |-> FALSE, n |-> m]
  OBVIOUS
<1>8. hookCall' = [hookCall EXCEPT ![a] = q]
  BY <1>2, <1>5, <1>6, <1>7, Zenon DEF HookCallerCancelled
<1>9. q \in HookRow /\ q.pc = "idle" /\ q.now = FALSE /\ q.todo = {} /\ q.n = m
  BY <1>6, <1>7 DEF HookRow, CallPlaces
<1>11. RowFits(q)
  BY <1>9 DEF RowFits
<1>12. TurnsFit(q, MaxHookCalls[a])
  <2>1. MaxHookCalls[a] \in Nat /\ row.n \in Nat
    BY HookAssumption DEF HookRow
  <2> QED BY <1>3, <1>5, <1>9, <2>1 DEF TurnsFit
<1>13. CallsFit' /\ RunMoves(row, q) /\ WaitMoves(row, q) /\ hookCall'[a] = q
       /\ \A b \in HookAgents \ {a} : hookCall'[b] = hookCall[b]
  BY <1>1, <1>2, <1>8, <1>9, <1>11, <1>12, CallGoesOn
<1>14. PICK h : h = HookAt(row)
  OBVIOUS
<1>15. killed' \in HookCounts /\ \A k \in Hooks : killed'[k] = killed[k] + One(RunsIn(row, k))
  <2>1. CASE row.now
    <3>1. killed' = Bump(killed, h)
      BY <1>2, <1>14, <2>1, Zenon DEF HookCallerCancelled
    <3>2. h \in Hooks
      BY <1>3, <1>14, <2>1, NextToCome DEF RowFits
    <3>3. killed' \in HookCounts /\ killed'[h] = killed[h] + 1
          /\ \A k \in Hooks \ {h} : killed'[k] = killed[k]
      BY <1>1, <3>1, <3>2, Bumped DEF CountsFit
    <3>4. \A k : One(RunsIn(row, k)) = One(h = k)
      BY <1>14, <2>1, Zenon DEF One, RunsIn
    <3>5. \A k \in Hooks : killed'[k] = killed[k] + One(h = k)
      BY <1>1, <3>3, CountsAre DEF One
    <3> QED BY <3>3, <3>4, <3>5
  <2>2. CASE ~row.now
    <3>1. killed' = killed
      BY <1>2, <2>2, Zenon DEF HookCallerCancelled
    <3>2. \A k : One(RunsIn(row, k)) = 0
      BY <2>2, Zenon DEF One, RunsIn
    <3> QED BY <1>1, <3>1, <3>2, CountsAre DEF CountsFit
  <2> QED BY <2>1, <2>2
<1>16. CountsFit'
  BY <1>1, <1>4, <1>15 DEF CountsFit
<1>17. EngineFits'
  BY <1>1, <1>2, <1>3, <1>4 DEF EngineFits
<1>18. \A k \in Hooks : BalanceMoves(row, q, k)
  <2> SUFFICES ASSUME NEW k \in Hooks PROVE BalanceMoves(row, q, k)
    OBVIOUS
  <2>1. One(RunsIn(q, k)) = 0
    BY <1>9, Zenon DEF RunsIn, One
  <2> QED BY <1>1, <1>4, <1>15, <1>16, <2>1, CountsAre DEF BalanceMoves
<1>19. \A k \in OnceHooks : OnceMoves(row, q, k)
  <2> SUFFICES ASSUME NEW k \in OnceHooks PROVE OnceMoves(row, q, k)
    OBVIOUS
  <2>1. One(WaitsIn(q, k)) = 0 /\ marked'[k] = marked[k]
    BY <1>4, <1>9 DEF WaitsIn, One
  <2>2. marked[k] \in Nat /\ One(WaitsIn(row, k)) \in Nat
    BY <1>1, HookAssumption, CountsAre
  <2> QED BY <2>1, <2>2 DEF OnceMoves
<1>20. RunsBalance'
  BY <1>1, <1>13, <1>16, <1>18, BalanceKept
<1>21. OnceBounded'
  BY <1>1, <1>13, <1>16, <1>19, OnceKept
<1> QED BY <1>9, <1>13, <1>16, <1>17, <1>20, <1>21 DEF HookInv

(* The agents' calls stay where they are. *)
LEMMA CallsStay ==
  ASSUME HookInv, hookCall' = hookCall, marked' = marked, CountsFit', EngineFits',
         \A h \in Hooks : aside'[h] + hookNotes'[h] + drained'[h] + killed'[h]
                        = aside[h] + hookNotes[h] + drained[h] + killed[h]
  PROVE  HookInv'
<1>1. CallsFit'
  BY Zenon DEF HookInv, CallsFit
<1>2. \A h : RunCount(h)' = RunCount(h) /\ WaitCount(h)' = WaitCount(h)
  BY DEF RunCount, WaitCount, RunnersOf, WaitersOf, RunsIn, WaitsIn
<1>3. OnceBounded'
  BY <1>2, Zenon DEF HookInv, OnceBounded, WaitCount
<1>4. RunsBalance'
  <2> SUFFICES ASSUME NEW h \in Hooks PROVE Balanced(h, RunCount(h))'
    BY Zenon DEF RunsBalance, RunCount
  <2>1. PICK c : c = RunCount(h)
    OBVIOUS
  <2>2. marked[h] = c + aside[h] + hookNotes[h] + drained[h] + killed[h]
    BY <2>1, Zenon DEF HookInv, RunsBalance, RunCount, Balanced
  <2>3. c \in Nat
    <3>1. IsFiniteSet(HookAgents) /\ RunnersOf(h) \subseteq HookAgents
      BY HookAssumption DEF RunnersOf
    <3>2. IsFiniteSet(RunnersOf(h))
      BY <3>1, FS_Subset
    <3> QED BY <2>1, <3>2, FS_CardinalityType DEF RunCount
  <2>4. marked'[h] = c + aside'[h] + hookNotes'[h] + drained'[h] + killed'[h]
    BY <2>2, <2>3, CountsAre DEF HookInv
  <2> QED BY <1>2, <2>1, <2>4, Zenon DEF Balanced
<1> QED BY <1>1, <1>3, <1>4 DEF HookInv

LEMMA AsyncStep ==
  ASSUME HookInv, NEW h \in Hooks, AsyncEnds(h)
  PROVE  HookInv'
<1>1. CallsFit /\ CountsFit /\ EngineFits
  BY DEF HookInv
<1>2. UNCHANGED <<hookCall, marked, drained, killed, engine>> /\ hookNotes' = Bump(hookNotes, h)
      /\ aside[h] > 0
  BY DEF AsyncEnds
<1>3. PICK m \in Nat : m = aside[h] - 1
  BY <1>1, <1>2 DEF CountsFit, HookCounts
<1>4. aside' = [aside EXCEPT ![h] = m]
  BY <1>3, Zenon DEF AsyncEnds
<1>5. aside' \in HookCounts /\ aside'[h] = m /\ \A k \in Hooks \ {h} : aside'[k] = aside[k]
  BY <1>1, <1>4 DEF CountsFit, HookCounts
<1>6. hookNotes' \in HookCounts /\ hookNotes'[h] = hookNotes[h] + 1
      /\ \A k \in Hooks \ {h} : hookNotes'[k] = hookNotes[k]
  BY <1>1, <1>2, Bumped DEF CountsFit
<1>7. CountsFit'
  BY <1>1, <1>2, <1>5, <1>6 DEF CountsFit
<1>8. EngineFits'
  BY <1>1, <1>2 DEF EngineFits
<1>9. \A k \in Hooks : aside'[k] + hookNotes'[k] = aside[k] + hookNotes[k]
  <2> SUFFICES ASSUME NEW k \in Hooks PROVE aside'[k] + hookNotes'[k] = aside[k] + hookNotes[k]
    OBVIOUS
  <2>1. aside[k] \in Nat /\ hookNotes[k] \in Nat /\ aside[h] \in Nat
    BY <1>1, CountsAre
  <2> QED BY <1>3, <1>5, <1>6, <2>1
<1>10. \A k \in Hooks : aside'[k] + hookNotes'[k] + drained'[k] + killed'[k]
                     = aside[k] + hookNotes[k] + drained[k] + killed[k]
  BY <1>1, <1>2, <1>7, <1>9, CountsAre
<1> QED BY <1>2, <1>7, <1>8, <1>10, CallsStay

LEMMA HookShutdownStep ==
  ASSUME HookInv, ShutdownStarts \/ HooksShutDown
  PROVE  HookInv'
<1>1. CallsFit /\ CountsFit /\ EngineFits
  BY DEF HookInv
<1>2. UNCHANGED <<hookCall, marked, aside, hookNotes, drained, killed>>
  BY DEF ShutdownStarts, HooksShutDown
<1>3. CountsFit'
  BY <1>1, <1>2 DEF CountsFit
<1>4. EngineFits'
  BY <1>1, <1>2 DEF EngineFits, ShutdownStarts, HooksShutDown
<1> QED BY <1>2, <1>3, <1>4, CallsStay

LEMMA HookInvInit == HookInit => HookInv
<1> SUFFICES ASSUME HookInit PROVE HookInv
  OBVIOUS
<1>e. PICK E \in SUBSET Hooks : E = {}
  OBVIOUS
<1>1. PICK q : q = [pc |-> "idle", matched |-> E, todo |-> E, now |-> FALSE, n |-> 0]
  OBVIOUS
<1>2. hookCall = [a \in HookAgents |-> q]
  BY <1>e, <1>1, Zenon DEF HookInit
<1>3. q \in HookRow /\ q.pc = "idle" /\ q.todo = {} /\ ~q.now /\ q.n = 0
  BY <1>e, <1>1 DEF HookRow, CallPlaces
<1>4. CallsFit
  <2>1. \A a \in HookAgents : MaxHookCalls[a] \in Nat
    BY HookAssumption
  <2>2. RowFits(q)
    BY <1>3 DEF RowFits
  <2>3. \A a \in HookAgents : TurnsFit(q, MaxHookCalls[a])
    BY <1>3, <2>1 DEF TurnsFit
  <2>4. hookCall \in [HookAgents -> HookRow] /\ \A a \in HookAgents : hookCall[a] = q
    BY <1>2, <1>3
  <2> QED BY <2>2, <2>3, <2>4, Zenon DEF CallsFit
<1>5. CountsFit /\ EngineFits
  BY <1>2, <1>3 DEF HookInit, CountsFit, EngineFits, HookCounts
<1>6. \A h : RunnersOf(h) = {} /\ WaitersOf(h) = {}
  BY <1>2, <1>3 DEF RunnersOf, WaitersOf, RunsIn, WaitsIn
<1>7. \A h : Cardinality(RunnersOf(h)) = 0 /\ Cardinality(WaitersOf(h)) = 0
  BY <1>6, FS_EmptySet
<1>8. RunsBalance
  BY <1>7 DEF RunsBalance, Balanced, HookInit
<1>9. OnceBounded
  <2>1. Cardinality(HookAgents) \in Nat
    BY HookAssumption, FS_CardinalityType
  <2>2. \A h \in OnceHooks : marked[h] = 0
    BY HookAssumption DEF HookInit
  <2> QED BY <1>7, <2>1, <2>2 DEF OnceBounded
<1> QED BY <1>4, <1>5, <1>8, <1>9 DEF HookInv

\* A step of the hooks keeps the invariant, and lets no guarded call through.
CallsGuarded == \A a \in HookAgents :
    hookCall[a].pc = "pre" /\ hookCall'[a].pc = "post" => hookCall[a].matched \cap RejectHooks = {}

LEMMA HookSteps ==
  ASSUME HookInv, [HookNext]_hookVars
  PROVE  HookInv' /\ CallsGuarded
<1>0. \A a \in HookAgents : hookCall[a].pc \in CallPlaces
  BY DEF HookInv, CallsFit, HookRow
<1>1. ASSUME NEW a \in HookAgents, CallTool(a) PROVE HookInv' /\ CallsGuarded
  <2>1. HookInv'
    BY <1>1, CallToolStep
  <2>2. hookCall[a].pc = "idle" /\ \A b \in HookAgents \ {a} : hookCall'[b] = hookCall[b]
    <3>1. CallsFit /\ CountsFit /\ Matched(a, "pre", PreHooks) /\ hookCall[a].n < MaxHookCalls[a]
          /\ hookCall[a].pc = "idle"
      BY <1>1 DEF CallTool, HookInv
    <3>2. PICK q \in HookRow : hookCall' = [hookCall EXCEPT ![a] = q] /\ RowFits(q)
                               /\ TurnsFit(q, MaxHookCalls[a])
      BY <3>1, MatchedRow
    <3> QED BY <3>1, <3>2, CallGoesOn
  <2> QED BY <2>1, <2>2 DEF CallsGuarded
<1>2. ASSUME NEW a \in HookAgents, HookStarts(a) PROVE HookInv' /\ CallsGuarded
  <2>1. HookInv'
    BY <1>2, StartsStep
  <2>2. \A b \in HookAgents : hookCall'[b].pc = hookCall[b].pc
    <3>1. hookCall \in [HookAgents -> HookRow]
      BY DEF HookInv, CallsFit
    <3>2. PICK row \in HookRow : row = hookCall[a]
      BY <3>1
    <3>3. PICK h : h = HookAt(row)
      OBVIOUS
    <3>4. hookCall' = [hookCall EXCEPT ![a].todo = @ \ {h}] \/ hookCall' = [hookCall EXCEPT ![a].now = TRUE]
      BY <1>2, <3>2, <3>3, Zenon DEF HookStarts
    <3>5. CASE hookCall' = [hookCall EXCEPT ![a].todo = @ \ {h}]
      <4>1. PICK D \in SUBSET Hooks : D = row.todo \ {h}
        BY DEF HookRow
      <4>2. PICK q : q = [row EXCEPT !.todo = D]
        OBVIOUS
      <4>3. hookCall' = [hookCall EXCEPT ![a] = q]
        BY <3>2, <3>5, <4>1, <4>2, Zenon
      <4>4. q.pc = row.pc /\ q \in HookRow
        BY <4>2 DEF HookRow
      <4> QED BY <3>1, <3>2, <4>3, <4>4, Assigned
    <3>6. CASE hookCall' = [hookCall EXCEPT ![a].now = TRUE]
      <4>2. PICK q : q = [row EXCEPT !.now = TRUE]
        OBVIOUS
      <4>3. hookCall' = [hookCall EXCEPT ![a] = q]
        BY <3>2, <3>6, <4>2, Zenon
      <4>4. q.pc = row.pc /\ q \in HookRow
        BY <4>2 DEF HookRow
      <4> QED BY <3>1, <3>2, <4>3, <4>4, Assigned
    <3> QED BY <3>4, <3>5, <3>6
  <2> QED BY <2>1, <2>2, <1>0 DEF CallsGuarded
<1>3. ASSUME NEW a \in HookAgents, HookEnds(a) PROVE HookInv' /\ CallsGuarded
  BY <1>3, EndsStep DEF CallsGuarded
<1>4. ASSUME NEW a \in HookAgents, ToolRuns(a) PROVE HookInv' /\ CallsGuarded
  BY <1>4, ToolRunsStep DEF CallsGuarded
<1>5. ASSUME NEW a \in HookAgents, HookedCallOver(a) PROVE HookInv' /\ CallsGuarded
  BY <1>5, CallEndsStep DEF CallsGuarded
<1>6. ASSUME NEW a \in HookAgents, HookCallerCancelled(a) PROVE HookInv' /\ CallsGuarded
  BY <1>6, HookCancelStep DEF CallsGuarded
<1>7. ASSUME NEW h \in Hooks, AsyncEnds(h) PROVE HookInv' /\ CallsGuarded
  <2>1. HookInv'
    BY <1>7, AsyncStep
  <2>2. hookCall' = hookCall
    BY <1>7 DEF AsyncEnds
  <2> QED BY <2>1, <2>2 DEF CallsGuarded
<1>8. ASSUME ShutdownStarts \/ HooksShutDown PROVE HookInv' /\ CallsGuarded
  <2>1. HookInv'
    BY <1>8, HookShutdownStep
  <2>2. hookCall' = hookCall
    BY <1>8 DEF ShutdownStarts, HooksShutDown
  <2> QED BY <2>1, <2>2 DEF CallsGuarded
<1>9. CASE UNCHANGED hookVars
  <2>1. UNCHANGED <<hookCall, marked, aside, hookNotes, drained, killed, engine>>
    BY <1>9 DEF hookVars
  <2>2. CountsFit'
    BY <2>1 DEF HookInv, CountsFit
  <2>3. EngineFits'
    BY <2>1 DEF HookInv, EngineFits
  <2>4. HookInv'
    BY <2>1, <2>2, <2>3, CallsStay
  <2> QED BY <2>1, <2>4 DEF CallsGuarded
<1> QED BY <1>1, <1>2, <1>3, <1>4, <1>5, <1>6, <1>7, <1>8, <1>9, Zenon DEF HookNext, HookProgress

LEMMA HookInvNext == HookInv /\ [HookNext]_hookVars => HookInv'
  BY HookSteps

LEMMA HookInvGives == HookInv => HookTypeOK /\ HooksAccounted
<1> SUFFICES ASSUME HookInv PROVE HookTypeOK /\ HooksAccounted
  OBVIOUS
<1>1. CallsFit /\ CountsFit /\ EngineFits /\ RunsBalance /\ OnceBounded
  BY DEF HookInv
<1>2. HookTypeOK
  <2>1. ASSUME NEW a \in HookAgents
        PROVE  /\ hookCall[a].pc \in {"idle", "pre", "post", "rejected"}
               /\ hookCall[a].matched \subseteq Hooks
               /\ hookCall[a].now \in BOOLEAN /\ hookCall[a].n \in 0..MaxHookCalls[a]
    <3>1. hookCall[a] \in HookRow /\ TurnsFit(hookCall[a], MaxHookCalls[a]) /\ MaxHookCalls[a] \in Nat
      BY <1>1, HookAssumption DEF CallsFit
    <3> QED BY <3>1 DEF HookRow, CallPlaces, TurnsFit
  <2> QED BY <1>1, <2>1, Zenon DEF HookTypeOK, CountsFit, HookCounts, EngineFits
<1>3. \A h \in Hooks : marked[h] = Running(h) + aside[h] + hookNotes[h] + drained[h] + killed[h]
  BY <1>1, Zenon DEF RunsBalance, Balanced, Running, RunnersOf, RunsIn
<1>4. \A h \in OnceHooks : marked[h] <= Cardinality(HookAgents)
  <2> SUFFICES ASSUME NEW h \in OnceHooks PROVE marked[h] <= Cardinality(HookAgents)
    OBVIOUS
  <2>1. IsFiniteSet(HookAgents) /\ WaitersOf(h) \subseteq HookAgents /\ h \in Hooks
    BY HookAssumption DEF WaitersOf
  <2>2. Cardinality(WaitersOf(h)) \in Nat /\ Cardinality(HookAgents) \in Nat
    BY <2>1, FS_Subset, FS_CardinalityType
  <2>3. marked[h] \in Nat /\ marked[h] + Cardinality(WaitersOf(h)) <= Cardinality(HookAgents)
    BY <1>1, <2>1, CountsAre DEF OnceBounded
  <2> QED BY <2>2, <2>3
<1> QED BY <1>1, <1>2, <1>3, <1>4, Zenon DEF HooksAccounted, EngineFits

-----------------------------------------------------------------------------
(* A request to the model.  The guard of the loop knows how long the last calls *)
(* were the same; while an answer's calls run, it stands at the end of them,   *)
(* and the states it went through say how far it knew at the call at hand.     *)
TurnPlaces == {"stream", "backoff", "collect", "check", "execute", "answered",
               "finished", "failed", "cancelled", "looped"}
GuardRow == [last : SUBSET Signatures, count : Nat]
TurnRow == [pc : TurnPlaces, n : Nat, tried : Nat, waited : Nat, calls : Seq(Signatures), at : Nat,
            prefix : BOOLEAN, shadow : GuardRow]
AheadRow == [st : {"none", "waiting", "granted", "running", "refused", "done"}, attempt : Nat, seq : Nat]
WorldRow == [denied : SUBSET Signatures, seq : [Signatures -> Nat], stop : BOOLEAN, n : Nat]
RanRow == [sig : Signatures, ahead : BOOLEAN]

TurnTypes ==
  /\ turn \in TurnRow /\ Len(turn.calls) <= MaxTurnCalls
  /\ ahead \in [1..MaxTurnCalls -> AheadRow]
  /\ free \in Nat /\ guard \in GuardRow /\ world \in WorldRow /\ ran \in Seq(RanRow)

ReadFits(i) == ahead[i].st # "none" =>
  /\ turn.pc \in {"stream", "collect", "check", "execute", "answered", "finished", "looped"}
  /\ ahead[i].attempt = turn.tried
  /\ i <= Len(turn.calls)
  /\ \A j \in 1..i : turn.calls[j] \in Readable
  /\ ahead[i].st \in {"waiting", "granted", "running"} => turn.pc \in {"stream", "collect"}

PermitsFit == free + Cardinality(Holding) <= Permits

PrefixFits ==
  /\ turn.pc = "stream" /\ turn.prefix => \A j \in 1..Len(turn.calls) : turn.calls[j] \in Readable
  /\ turn.pc = "backoff" => turn.calls = <<>>
  /\ turn.pc \in {"stream", "backoff", "collect", "check"} => turn.at = 1

\* A guard knows at least how long the last calls were the same.
Follows(g, r) == r # <<>> =>
  /\ g.last = {r[Len(r)].sig}
  /\ \A k \in 1..Len(r) : (\A j \in k..Len(r) : r[j].sig = r[Len(r)].sig) => Len(r) - k + 1 <= g.count

\* The guard's states along the calls of an answer, none of which it blocks.
Passes(gs, calls) ==
  /\ gs \in [0..Len(calls) -> GuardRow] /\ gs[Len(calls)] = guard
  /\ \A i \in 1..Len(calls) : gs[i] = Seen(gs[i - 1], calls[i]) /\ gs[i].count < RepeatLimit

GuardFits ==
  /\ turn.pc \in {"stream", "backoff", "collect", "check", "answered"} => Follows(guard, ran)
  /\ turn.pc = "execute" /\ turn.calls # <<>> =>
       /\ turn.at \in 1..Len(turn.calls)
       /\ \E gs \in [0..Len(turn.calls) -> GuardRow] :
            Passes(gs, turn.calls) /\ Follows(gs[turn.at - 1], ran)

TurnInv ==
  /\ TurnTypes /\ PermitsFit /\ PrefixFits /\ GuardFits /\ NoCallRepeatsForEver
  /\ \A i \in 1..MaxTurnCalls : ReadFits(i)

LEMMA TurnTallies ==
  /\ MaxTurnCalls \in Nat /\ Permits \in Nat /\ RepeatLimit \in Nat /\ RepeatLimit > 1
  /\ MaxStreamRetries \in Nat /\ MaxWait \in Nat /\ MaxTurns \in Nat /\ Readable \subseteq Signatures
BY TurnAssumption

LEMMA HoldingFinite ==
  ASSUME NEW S, S \subseteq 1..MaxTurnCalls
  PROVE  IsFiniteSet(S) /\ Cardinality(S) \in Nat
<1>1. IsFiniteSet(1..MaxTurnCalls)
  BY TurnTallies, FS_Interval
<1>2. IsFiniteSet(S)
  BY <1>1, FS_Subset
<1> QED BY <1>2, FS_CardinalityType

LEMMA TurnInvGives == TurnInv => TurnTypeOK /\ ReadsOfThisAttempt /\ NoCallRepeatsForEver
<1> SUFFICES ASSUME TurnInv PROVE TurnTypeOK /\ ReadsOfThisAttempt
  BY DEF TurnInv
<1>1. turn.pc \in TurnPlaces /\ world.denied \subseteq Signatures /\ turn.calls \in Seq(Signatures)
      /\ Len(turn.calls) <= MaxTurnCalls
  BY DEF TurnInv, TurnTypes, TurnRow, WorldRow
<1>2. turn.calls \in UNION {[1..k -> Signatures] : k \in 0..MaxTurnCalls}
  <2>1. Len(turn.calls) \in 0..MaxTurnCalls /\ turn.calls \in [1..Len(turn.calls) -> Signatures]
    BY <1>1, TurnTallies
  <2> QED BY <2>1
<1>3. free \in 0..Permits
  <2>1. Cardinality(Holding) \in Nat
    BY HoldingFinite DEF Holding
  <2> QED BY <2>1, TurnTallies DEF TurnInv, TurnTypes, PermitsFit
<1>4. \A i \in 1..MaxTurnCalls : ahead[i].st \in {"none", "waiting", "granted", "running", "refused", "done"}
  BY DEF TurnInv, TurnTypes, AheadRow
<1>5. TurnTypeOK
  BY <1>1, <1>2, <1>3, <1>4 DEF TurnTypeOK, TurnPlaces
<1>6. ReadsOfThisAttempt
  BY DEF TurnInv, ReadFits, ReadsOfThisAttempt
<1> QED BY <1>5, <1>6

LEMMA TurnInvInit == TurnInit => TurnInv
<1> SUFFICES ASSUME TurnInit PROVE TurnInv
  OBVIOUS
<1>1. \A i \in 1..MaxTurnCalls : ahead[i].st = "none"
  BY DEF TurnInit, NoTask
<1>2. ahead \in [1..MaxTurnCalls -> AheadRow] /\ free = Permits /\ ran = <<>>
  BY DEF TurnInit, NoTask, AheadRow
<1>3. guard \in GuardRow
  BY DEF TurnInit, GuardRow
<1>4. /\ turn \in TurnRow /\ turn.pc = "stream" /\ turn.calls = <<>> /\ turn.at = 1
  <2>1. PICK g \in GuardRow : g = [last |-> {}, count |-> 0]
    BY DEF GuardRow
  <2>2. turn = [pc |-> "stream", n |-> 1, tried |-> 0, waited |-> 0, calls |-> <<>>, at |-> 1,
                prefix |-> TRUE, shadow |-> g]
    BY <2>1, Zenon DEF TurnInit, NewRequest
  <2>3. <<>> \in Seq(Signatures)
    OBVIOUS
  <2> QED BY <2>2, <2>3 DEF TurnRow, TurnPlaces
<1>5. world \in WorldRow
  BY DEF TurnInit, WorldRow
<1>6. TurnTypes
  BY <1>2, <1>3, <1>4, <1>5, TurnTallies DEF TurnTypes
<1>7. PermitsFit
  <2>1. Holding = {}
    BY <1>1 DEF Holding
  <2> QED BY <1>2, <2>1, FS_EmptySet, TurnTallies DEF PermitsFit
<1>8. PrefixFits /\ GuardFits /\ NoCallRepeatsForEver
  BY <1>2, <1>4 DEF PrefixFits, GuardFits, Follows, NoCallRepeatsForEver
<1> QED BY <1>1, <1>6, <1>7, <1>8 DEF TurnInv, ReadFits

-----------------------------------------------------------------------------
(* The guard of the loop. *)

LEMMA SeenRow ==
  ASSUME NEW g \in GuardRow, NEW s \in Signatures
  PROVE  /\ Seen(g, s) \in GuardRow /\ Seen(g, s).last = {s}
         /\ Seen(g, s).count = IF g.last = {s} THEN g.count + 1 ELSE 1
<1>1. PICK k \in Nat : k = IF g.last = {s} THEN g.count + 1 ELSE 1
  BY DEF GuardRow
<1>2. PICK D \in SUBSET Signatures : D = {s}
  OBVIOUS
<1>3. PICK q : q = [last |-> D, count |-> k]
  OBVIOUS
<1>4. q \in GuardRow /\ q.last = D /\ q.count = k
  BY <1>3 DEF GuardRow
<1>5. Seen(g, s) = q
  BY <1>1, <1>2, <1>3, Zenon DEF Seen
<1> QED BY <1>1, <1>2, <1>4, <1>5, Zenon

LEMMA RanAppended ==
  ASSUME NEW r \in Seq(RanRow), NEW q \in RanRow, NEW t, t = Append(r, q)
  PROVE  /\ t \in Seq(RanRow) /\ t # <<>> /\ Len(t) = Len(r) + 1 /\ t[Len(r) + 1] = q
         /\ Len(r) \in Nat /\ \A j \in 1..Len(r) : t[j] = r[j]
         /\ r = <<>> => Len(r) = 0
OBVIOUS

LEMMA SeenFollows ==
  ASSUME NEW g \in GuardRow, NEW r \in Seq(RanRow), NEW q \in RanRow, Follows(g, r),
         NEW t, t = Append(r, q)
  PROVE  Follows(Seen(g, q.sig), t)
<1> DEFINE n == Len(r)
<1>1. /\ t # <<>> /\ Len(t) = n + 1 /\ t[n + 1] = q /\ n \in Nat /\ \A j \in 1..n : t[j] = r[j]
      /\ r = <<>> => n = 0
  BY RanAppended
<1>2. q.sig \in Signatures
  BY DEF RanRow
<1>3. PICK h \in GuardRow : /\ h = Seen(g, q.sig) /\ h.last = {q.sig}
                            /\ h.count = IF g.last = {q.sig} THEN g.count + 1 ELSE 1
  BY <1>2, SeenRow
<1>4. h.count \in Nat /\ h.count >= 1 /\ g.count \in Nat
  BY <1>3 DEF GuardRow
<1> HIDE DEF n
<1>5. ASSUME NEW k \in 1..(n + 1), \A j \in k..(n + 1) : t[j].sig = q.sig
      PROVE  (n + 1) - k + 1 <= h.count
  <2>1. CASE k = n + 1
    BY <1>1, <1>4, <2>1
  <2>2. CASE k # n + 1
    <3>1. k \in 1..n /\ n >= 1
      BY <1>1, <2>2
    <3>2. \A j \in k..n : r[j].sig = q.sig
      BY <1>1, <1>5, <3>1
    <3>3. r # <<>> /\ r[n].sig = q.sig
      BY <1>1, <3>1, <3>2 DEF n
    <3>4. g.last = {q.sig} /\ n - k + 1 <= g.count
      BY <3>1, <3>2, <3>3 DEF Follows, n
    <3> QED BY <1>1, <1>3, <1>4, <3>4
  <2> QED BY <2>1, <2>2
<1>6. t[Len(t)].sig = q.sig
  BY <1>1
<1>7. Follows(h, t)
  BY <1>1, <1>3, <1>5, <1>6 DEF Follows
<1> QED BY <1>3, <1>7

LEMMA NoRepeatAdded ==
  ASSUME NEW q \in RanRow, ran \in Seq(RanRow), ran' = Append(ran, q), NoCallRepeatsForEver,
         NEW g \in GuardRow, g.count < RepeatLimit, Follows(g, ran')
  PROVE  NoCallRepeatsForEver'
<1>1. /\ ran' # <<>> /\ Len(ran') = Len(ran) + 1 /\ Len(ran) \in Nat
      /\ \A j \in 1..Len(ran) : ran'[j] = ran[j]
  BY RanAppended
<1>2. g.count \in Nat /\ RepeatLimit \in Nat /\ RepeatLimit > 1
  BY TurnTallies DEF GuardRow
<1> SUFFICES ASSUME NEW i \in 1..Len(ran'), ~(i < RepeatLimit)
             PROVE  \E j \in (i - RepeatLimit + 1)..i : ran'[j].sig # ran'[i].sig
  BY DEF NoCallRepeatsForEver
<1>3. CASE i \in 1..Len(ran)
  <2>1. PICK j \in (i - RepeatLimit + 1)..i : ran[j].sig # ran[i].sig
    BY <1>3 DEF NoCallRepeatsForEver
  <2>2. j \in 1..Len(ran)
    BY <1>2, <1>3
  <2> QED BY <1>1, <1>3, <2>1, <2>2
<1>4. CASE i = Len(ran')
  <2> SUFFICES ASSUME \A j \in (i - RepeatLimit + 1)..i : ran'[j].sig = ran'[i].sig PROVE FALSE
    OBVIOUS
  <2>1. PICK k \in 1..Len(ran') : k = i - RepeatLimit + 1
    BY <1>1, <1>2
  <2>2. Len(ran') - k + 1 <= g.count
    BY <1>1, <1>4, <2>1 DEF Follows
  <2> QED BY <1>1, <1>2, <1>4, <2>1, <2>2
<1> QED BY <1>1, <1>2, <1>3, <1>4

(* The states that the guard goes through along the calls of the answer: the   *)
(* recursive function has a value.                                            *)
Solves(f, n) ==
  /\ f \in [0..n -> GuardRow]
  /\ \A i \in 0..n : f[i] = IF i = 0 \/ i > Len(turn.calls) THEN guard ELSE Seen(f[i - 1], turn.calls[i])

LEMMA OneMoreSolved ==
  ASSUME TurnTypes, NEW n \in Nat, NEW f, Solves(f, n)
  PROVE  \E h : Solves(h, n + 1)
<1>1. PICK x \in GuardRow : x = IF n + 1 > Len(turn.calls) THEN guard ELSE Seen(f[n], turn.calls[n + 1])
  <2>1. CASE n + 1 > Len(turn.calls)
    BY <2>1 DEF TurnTypes
  <2>2. CASE ~(n + 1 > Len(turn.calls))
    <3>1. turn.calls[n + 1] \in Signatures /\ f[n] \in GuardRow
      BY <2>2 DEF TurnTypes, TurnRow, Solves
    <3>2. Seen(f[n], turn.calls[n + 1]) \in GuardRow
      BY <3>1, SeenRow
    <3> QED BY <2>2, <3>2, Zenon
  <2> QED BY <2>1, <2>2
<1>2. PICK h : h = [i \in 0..(n + 1) |-> IF i = n + 1 THEN x ELSE f[i]]
  OBVIOUS
<1>3. h \in [0..(n + 1) -> GuardRow] /\ h[n + 1] = x /\ \A i \in 0..n : h[i] = f[i]
  BY <1>2 DEF Solves
<1>4. ASSUME NEW i \in 0..n
      PROVE  h[i] = IF i = 0 \/ i > Len(turn.calls) THEN guard ELSE Seen(h[i - 1], turn.calls[i])
  <2>1. CASE i = 0
    BY <1>3, <2>1 DEF Solves
  <2>2. CASE i # 0
    <3>1. i - 1 \in 0..n
      BY <2>2
    <3>2. h[i] = f[i] /\ h[i - 1] = f[i - 1]
      BY <1>3, <3>1
    <3> QED BY <3>2, Zenon DEF Solves
  <2> QED BY <2>1, <2>2
<1>5. h[n + 1] = IF n + 1 = 0 \/ n + 1 > Len(turn.calls) THEN guard ELSE Seen(h[(n + 1) - 1], turn.calls[n + 1])
  <2>1. n + 1 # 0 /\ (n + 1) - 1 = n /\ h[n] = f[n]
    BY <1>3
  <2> QED BY <1>1, <1>3, <2>1, Zenon
<1>6. \A i \in 0..(n + 1) : i \in 0..n \/ i = n + 1
  OBVIOUS
<1> QED BY <1>3, <1>4, <1>5, <1>6, Zenon DEF Solves

LEMMA GuardsKnown ==
  ASSUME TurnTypes
  PROVE  /\ Guards \in [0..MaxTurnCalls -> GuardRow] /\ Guards[0] = guard
         /\ \A i \in 1..Len(turn.calls) : Guards[i] = Seen(Guards[i - 1], turn.calls[i])
<1> DEFINE Unsolved == {n \in Nat : ~\E f : Solves(f, n)}
<1>1. \E f : Solves(f, 0)
  <2>1. PICK f : f = [i \in 0..0 |-> guard]
    OBVIOUS
  <2>2. f \in [0..0 -> GuardRow] /\ \A i \in 0..0 : i = 0 /\ f[i] = guard
    BY <2>1 DEF TurnTypes
  <2>3. Solves(f, 0)
    BY <2>2, Zenon DEF Solves
  <2> QED BY <2>3
<1>2. Unsolved = {}
  <2> SUFFICES ASSUME Unsolved # {} PROVE FALSE
    OBVIOUS
  <2>1. PICK m \in Unsolved : \A n \in Unsolved : m <= n
    <3>1. Unsolved \in SUBSET Nat
      OBVIOUS
    <3> HIDE DEF Unsolved
    <3> QED BY <3>1, LeastNumber
  <2>2. m \in Nat /\ m # 0
    BY <1>1
  <2>3. m - 1 \in Nat /\ m - 1 \notin Unsolved /\ (m - 1) + 1 = m
    BY <2>1, <2>2
  <2>4. PICK f : Solves(f, m - 1)
    BY <2>3
  <2>5. \E h : Solves(h, m)
    BY <2>3, <2>4, OneMoreSolved
  <2> QED BY <2>5
<1>3. MaxTurnCalls \in Nat
  BY TurnTallies
<1>4. PICK f : Solves(f, MaxTurnCalls)
  BY <1>2, <1>3
<1>5. f = [i \in 0..MaxTurnCalls |-> IF i = 0 \/ i > Len(turn.calls) THEN guard ELSE Seen(f[i - 1], turn.calls[i])]
  BY <1>4, Zenon DEF Solves
<1>6. Guards = [i \in 0..MaxTurnCalls |-> IF i = 0 \/ i > Len(turn.calls) THEN guard ELSE Seen(Guards[i - 1], turn.calls[i])]
  BY <1>5, Zenon DEF Guards
<1> DEFINE Other == {i \in 0..MaxTurnCalls : Guards[i] # f[i]}
<1>7. Other = {}
  <2> SUFFICES ASSUME Other # {} PROVE FALSE
    OBVIOUS
  <2>1. PICK m \in Other : \A n \in Other : m <= n
    <3>1. Other \in SUBSET Nat
      OBVIOUS
    <3> HIDE DEF Other
    <3> QED BY <3>1, LeastNumber
  <2>2. m \in 0..MaxTurnCalls /\ Guards[m] # f[m]
    BY <2>1
  <2>3. CASE m = 0
    BY <1>5, <1>6, <2>2, <2>3, Zenon
  <2>4. CASE m # 0
    <3>1. m - 1 \in 0..MaxTurnCalls /\ m - 1 \notin Other
      BY <1>3, <2>1, <2>2, <2>4
    <3>2. Guards[m - 1] = f[m - 1]
      BY <3>1
    <3>3. Guards[m] = IF m = 0 \/ m > Len(turn.calls) THEN guard ELSE Seen(Guards[m - 1], turn.calls[m])
      BY <1>6, <2>2, Zenon
    <3>4. f[m] = IF m = 0 \/ m > Len(turn.calls) THEN guard ELSE Seen(f[m - 1], turn.calls[m])
      BY <1>4, <2>2, Zenon DEF Solves
    <3> QED BY <2>2, <3>2, <3>3, <3>4, Zenon
  <2> QED BY <2>3, <2>4
<1>8. \A i \in 0..MaxTurnCalls : Guards[i] = f[i]
  BY <1>7
<1>9. DOMAIN Guards = 0..MaxTurnCalls /\ Guards = [i \in 0..MaxTurnCalls |-> Guards[i]]
  BY <1>6, Zenon
<1>10. \A i \in 0..MaxTurnCalls : f[i] \in GuardRow
  BY <1>4 DEF Solves
<1>11. Guards \in [0..MaxTurnCalls -> GuardRow]
  BY <1>8, <1>9, <1>10
<1>12. 0 \in 0..MaxTurnCalls /\ \A i \in 1..Len(turn.calls) : i \in 0..MaxTurnCalls /\ i # 0 /\ ~(i > Len(turn.calls))
  BY <1>3 DEF TurnTypes, TurnRow
<1>13. Guards[0] = guard
  BY <1>4, <1>8, <1>12, Zenon DEF Solves
<1>14. ASSUME NEW i \in 1..Len(turn.calls) PROVE Guards[i] = Seen(Guards[i - 1], turn.calls[i])
  <2>1. Guards[i] = IF i = 0 \/ i > Len(turn.calls) THEN guard ELSE Seen(Guards[i - 1], turn.calls[i])
    BY <1>6, <1>12, Zenon
  <2> QED BY <1>12, <2>1, Zenon
<1> QED BY <1>11, <1>13, <1>14

-----------------------------------------------------------------------------
(* The permits. *)

\* No permit is lost but with a task that was granted one and did not come to use it.
RaceOnly ==
  free' + Cardinality(Holding') < free + Cardinality(Holding) =>
     \E i \in Holding : ahead[i].st = "granted" /\ ahead'[i].st = "none"

AllowedOnly ==
  \A k \in 1..Len(ran') : k > Len(ran) /\ ran'[k].ahead =>
     /\ ran'[k].sig \notin world.denied
     /\ world.seq[ran'[k].sig] = ahead[turn.at].seq

TurnStepFine == TurnInv' /\ RaceOnly /\ AllowedOnly

(* A step that leaves the calls that ran alone, and the reads or their permits. *)
LEMMA NothingRan ==
  ASSUME ran' = ran, ran \in Seq(RanRow)
  PROVE  AllowedOnly /\ (NoCallRepeatsForEver => NoCallRepeatsForEver')
<1>1. \A k \in 1..Len(ran') : ~(k > Len(ran))
  OBVIOUS
<1>2. NoCallRepeatsForEver => NoCallRepeatsForEver'
  BY DEF NoCallRepeatsForEver
<1> QED BY <1>1, <1>2 DEF AllowedOnly

LEMMA SamePermits ==
  ASSUME UNCHANGED <<ahead, free>>, PermitsFit, free \in Nat
  PROVE  PermitsFit' /\ RaceOnly
<1>1. Holding' = Holding
  BY DEF Holding
<1>2. Cardinality(Holding) \in Nat
  BY HoldingFinite DEF Holding
<1> QED BY <1>1, <1>2 DEF PermitsFit, RaceOnly

(* A read goes on. *)
ReadGoes(i, to) ==
  /\ ahead' \in [1..MaxTurnCalls -> AheadRow]
  /\ ahead'[i].st = to /\ ahead'[i].attempt = ahead[i].attempt /\ ahead'[i].seq = ahead[i].seq
  /\ \A j \in (1..MaxTurnCalls) \ {i} : ahead'[j] = ahead[j]

LEMMA ReadMovesOn ==
  ASSUME TurnTypes, NEW i \in 1..MaxTurnCalls, NEW to \in {"granted", "running", "refused", "done"},
         ahead' = [ahead EXCEPT ![i].st = to]
  PROVE  ReadGoes(i, to)
<1>1. ahead \in [1..MaxTurnCalls -> AheadRow] /\ ahead[i] \in AheadRow
  BY DEF TurnTypes
<1>2. PICK q : q = [ahead[i] EXCEPT !.st = to]
  OBVIOUS
<1>3. q \in AheadRow /\ q.st = to /\ q.attempt = ahead[i].attempt /\ q.seq = ahead[i].seq
  BY <1>1, <1>2 DEF AheadRow
<1>4. ahead' = [ahead EXCEPT ![i] = q]
  BY <1>2, Zenon
<1>5. ahead' \in [1..MaxTurnCalls -> AheadRow] /\ ahead'[i] = q
      /\ \A j \in (1..MaxTurnCalls) \ {i} : ahead'[j] = ahead[j]
  BY <1>1, <1>3, <1>4, Assigned
<1> QED BY <1>3, <1>5 DEF ReadGoes

\* What a read holds is not in the semaphore.
PermitMoves(from, to) ==
  /\ from \in {"waiting", "granted", "running"} /\ to \in {"granted", "running", "refused", "done"}
  /\ free' \in Nat
  /\ free' + (IF to \in {"granted", "running"} THEN 1 ELSE 0)
       = free + (IF from \in {"granted", "running"} THEN 1 ELSE 0)

LEMMA ReadStep ==
  ASSUME TurnInv, NEW i \in 1..MaxTurnCalls, NEW to,
         PermitMoves(ahead[i].st, to), ahead' = [ahead EXCEPT ![i].st = to],
         UNCHANGED <<turn, guard, world, ran>>
  PROVE  TurnStepFine
<1>0. /\ TurnTypes /\ PermitsFit /\ ahead[i].st \in {"waiting", "granted", "running"} /\ free' \in Nat
      /\ to \in {"granted", "running", "refused", "done"}
      /\ free' + (IF to \in {"granted", "running"} THEN 1 ELSE 0)
           = free + (IF ahead[i].st \in {"granted", "running"} THEN 1 ELSE 0)
  BY DEF TurnInv, PermitMoves
<1>1. ReadGoes(i, to)
  BY <1>0, ReadMovesOn
<1>2. TurnTypes'
  BY <1>0, <1>1 DEF TurnTypes, ReadGoes
<1>3. Cardinality(Holding') + (IF ahead[i].st \in {"granted", "running"} THEN 1 ELSE 0)
        = Cardinality(Holding) + (IF to \in {"granted", "running"} THEN 1 ELSE 0)
      /\ Cardinality(Holding) \in Nat /\ Cardinality(Holding') \in Nat
  <2> DEFINE Rest == Holding \ {i}
  <2>1. /\ Holding = IF ahead[i].st \in {"granted", "running"} THEN Rest \cup {i} ELSE Rest
        /\ Holding' = IF to \in {"granted", "running"} THEN Rest \cup {i} ELSE Rest
    BY <1>1 DEF Holding, ReadGoes
  <2>2. IsFiniteSet(Rest) /\ Cardinality(Rest) \in Nat /\ i \notin Rest
    BY HoldingFinite DEF Holding
  <2>3. Cardinality(Rest \cup {i}) = Cardinality(Rest) + 1
    <3> HIDE DEF Rest
    <3> QED BY <2>2, FS_AddElement
  <2> HIDE DEF Rest
  <2> QED BY <2>1, <2>2, <2>3
<1>4. free' + Cardinality(Holding') = free + Cardinality(Holding)
  BY <1>0, <1>3 DEF TurnTypes
<1>5. PermitsFit' /\ RaceOnly
  BY <1>0, <1>3, <1>4 DEF PermitsFit, RaceOnly, TurnTypes
<1>6. PrefixFits' /\ GuardFits'
  BY DEF TurnInv, PrefixFits, GuardFits, Follows, Passes
<1>7. AllowedOnly /\ NoCallRepeatsForEver'
  BY <1>0, NothingRan DEF TurnInv, TurnTypes
<1>8. ASSUME NEW j \in 1..MaxTurnCalls PROVE ReadFits(j)'
  BY <1>0, <1>1 DEF TurnInv, ReadFits, ReadGoes
<1> QED BY <1>2, <1>5, <1>6, <1>7, <1>8 DEF TurnInv, TurnStepFine

LEMMA ReadMovesFine == ASSUME TurnInv, NEW i \in 1..MaxTurnCalls, ReadMoves(i) PROVE TurnStepFine
<1>0. free \in Nat /\ UNCHANGED <<turn, guard, world, ran>>
  BY DEF TurnInv, TurnTypes, ReadMoves, GrantPermit, ReadStarts, ReadReturns
<1>1. CASE GrantPermit(i)
  <2>1. PermitMoves(ahead[i].st, "granted") /\ ahead' = [ahead EXCEPT ![i].st = "granted"]
    BY <1>0, <1>1 DEF GrantPermit, PermitMoves
  <2> QED BY <1>0, <2>1, ReadStep
<1>2. CASE ReadReturns(i)
  <2>1. PermitMoves(ahead[i].st, "done") /\ ahead' = [ahead EXCEPT ![i].st = "done"]
    BY <1>0, <1>2 DEF ReadReturns, PermitMoves
  <2> QED BY <1>0, <2>1, ReadStep
<1>3. CASE ReadStarts(i)
  <2>1. CASE ahead' = [ahead EXCEPT ![i].st = "running"] /\ free' = free
    <3>1. PermitMoves(ahead[i].st, "running")
      BY <1>0, <1>3, <2>1 DEF ReadStarts, PermitMoves
    <3> QED BY <1>0, <2>1, <3>1, ReadStep
  <2>2. CASE ahead' = [ahead EXCEPT ![i].st = "refused"] /\ free' = free + 1
    <3>1. PermitMoves(ahead[i].st, "refused")
      BY <1>0, <1>3, <2>2 DEF ReadStarts, PermitMoves
    <3> QED BY <1>0, <2>2, <3>1, ReadStep
  <2> QED BY <1>3, <2>1, <2>2 DEF ReadStarts
<1> QED BY <1>1, <1>2, <1>3 DEF ReadMoves

(* All reads are stopped. *)
LEMMA ShutdownEffect ==
  ASSUME TurnInv, Shutdown
  PROVE  /\ ahead' \in [1..MaxTurnCalls -> AheadRow] /\ \A i \in 1..MaxTurnCalls : ahead'[i].st = "none"
         /\ free' \in Nat /\ PermitsFit' /\ RaceOnly
<1> DEFINE Readers == {i \in Holding : ahead[i].st = "running"}
<1>1. /\ ahead' \in [1..MaxTurnCalls -> AheadRow] /\ \A i \in 1..MaxTurnCalls : ahead'[i].st = "none"
  BY DEF Shutdown, NoTask, AheadRow
<1>2. Holding' = {} /\ Cardinality(Holding') = 0
  <2>1. Holding' = {}
    BY <1>1 DEF Holding
  <2> QED BY <2>1, FS_EmptySet
<1>3. /\ IsFiniteSet(Holding) /\ Cardinality(Holding) \in Nat /\ Cardinality(Readers) \in Nat
      /\ Readers \in SUBSET Holding
  BY HoldingFinite DEF Holding
<1>4. Cardinality(Readers) <= Cardinality(Holding) /\ (Cardinality(Readers) = Cardinality(Holding) => Readers = Holding)
  <2> HIDE DEF Readers
  <2> QED BY <1>3, FS_Subset
<1>5. free' = free + Cardinality(Readers) /\ free \in Nat
  BY DEF Shutdown, TurnInv, TurnTypes
<1>6. free' \in Nat
  BY <1>3, <1>5
<1>7. PermitsFit'
  BY <1>2, <1>3, <1>4, <1>5, TurnTallies DEF PermitsFit, TurnInv
<1>8. RaceOnly
  <2> SUFFICES ASSUME free' + Cardinality(Holding') < free + Cardinality(Holding)
               PROVE  \E i \in Holding : ahead[i].st = "granted" /\ ahead'[i].st = "none"
    BY DEF RaceOnly
  <2>1. Readers # Holding
    <3> HIDE DEF Readers
    <3> QED BY <1>2, <1>3, <1>5
  <2>2. PICK i \in Holding : i \notin Readers
    BY <1>3, <2>1
  <2>3. ahead[i].st = "granted" /\ i \in 1..MaxTurnCalls
    BY <2>2 DEF Holding
  <2> QED BY <1>1, <2>3
<1> QED BY <1>1, <1>6, <1>7, <1>8

-----------------------------------------------------------------------------
(* The stream. *)

\* The request goes on: another place, another answer, another attempt.
TurnGoes(to, calls, tried, n) ==
  /\ turn' \in TurnRow /\ turn'.pc = to /\ turn'.calls = calls /\ turn'.tried = tried /\ turn'.at = n

\* Nothing ran, and the reads that are left are those of the same answer.
LEMMA PlainStep ==
  ASSUME TurnInv, NEW to, NEW calls, NEW tried, NEW n, TurnGoes(to, calls, tried, n),
         Len(calls) <= MaxTurnCalls, PrefixFits', GuardFits',
         PermitsFit', RaceOnly, free' \in Nat, guard' \in GuardRow, world' \in WorldRow, ran' = ran,
         ahead' \in [1..MaxTurnCalls -> AheadRow],
         \A i \in 1..MaxTurnCalls : ReadFits(i)'
  PROVE  TurnStepFine
<1>1. ran \in Seq(RanRow)
  BY DEF TurnInv, TurnTypes
<1>2. AllowedOnly /\ NoCallRepeatsForEver'
  BY <1>1, NothingRan DEF TurnInv
<1>3. TurnTypes'
  BY <1>1 DEF TurnTypes, TurnGoes
<1> QED BY <1>2, <1>3 DEF TurnInv, TurnStepFine

(* All reads are stopped, and the request goes on or is over. *)
LEMMA StoppedStep ==
  ASSUME TurnInv, Shutdown, NEW to, NEW calls, NEW tried, NEW n, TurnGoes(to, calls, tried, n),
         calls = <<>> \/ calls = turn.calls,
         to = "backoff" => calls = <<>> /\ turn.at = 1,
         to \in {"backoff", "answered", "failed", "cancelled"},
         n = turn.at, to \in {"backoff", "answered"} => turn.pc = "stream",
         UNCHANGED <<guard, world, ran>>
  PROVE  TurnStepFine
<1>1. /\ ahead' \in [1..MaxTurnCalls -> AheadRow] /\ \A i \in 1..MaxTurnCalls : ahead'[i].st = "none"
      /\ free' \in Nat /\ PermitsFit' /\ RaceOnly
  BY ShutdownEffect
<1>2. Len(calls) <= MaxTurnCalls
  BY TurnTallies DEF TurnInv, TurnTypes
<1>3. PrefixFits'
  BY DEF PrefixFits, TurnGoes
<1>4. GuardFits'
  BY DEF TurnInv, GuardFits, TurnGoes
<1>5. \A i \in 1..MaxTurnCalls : ReadFits(i)'
  BY <1>1 DEF ReadFits
<1>6. guard' \in GuardRow /\ world' \in WorldRow
  BY DEF TurnInv, TurnTypes
<1> QED BY <1>1, <1>2, <1>3, <1>4, <1>5, <1>6, PlainStep

LEMMA StreamFailsFine ==
  ASSUME TurnInv, NEW retryable \in BOOLEAN, NEW delay \in 0..1, StreamFails(retryable, delay)
  PROVE  TurnStepFine
<1>0. turn.pc = "stream" /\ Shutdown /\ UNCHANGED <<guard, world, ran>> /\ turn \in TurnRow /\ turn.at = 1
  BY DEF StreamFails, TurnInv, TurnTypes, PrefixFits
<1>1. CASE turn' = [turn EXCEPT !.pc = "backoff", !.tried = @ + 1, !.waited = @ + delay, !.calls = <<>>]
  <2>1. PICK k \in Nat : k = turn.tried + 1
    BY <1>0 DEF TurnRow
  <2>2. PICK w \in Nat : w = turn.waited + delay
    BY <1>0 DEF TurnRow
  <2>3. PICK e \in Seq(Signatures) : e = <<>>
    <3>1. <<>> \in Seq(Signatures)
      OBVIOUS
    <3> QED BY <3>1, Zenon
  <2>4. turn' = [turn EXCEPT !.pc = "backoff", !.tried = k, !.waited = w, !.calls = e]
    BY <1>1, <2>1, <2>2, <2>3, Zenon
  <2>5. TurnGoes("backoff", e, k, turn.at)
    BY <1>0, <2>4 DEF TurnRow, TurnPlaces, TurnGoes
  <2> QED BY <1>0, <2>3, <2>5, StoppedStep
<1>2. CASE turn' = [turn EXCEPT !.pc = "failed"]
  <2>1. TurnGoes("failed", turn.calls, turn.tried, turn.at)
    BY <1>0, <1>2 DEF TurnRow, TurnPlaces, TurnGoes
  <2> QED BY <1>0, <2>1, StoppedStep
<1> QED BY <1>1, <1>2 DEF StreamFails

(* The request goes to another place, with the reads it has. *)
LEMMA OnlyPlace ==
  ASSUME TurnInv, NEW to, TurnGoes(to, turn.calls, turn.tried, turn.at), turn.at = 1,
         \/ turn.pc = "stream" /\ to = "collect"
         \/ turn.pc = "collect" /\ to = "check" /\ Live = {},
         UNCHANGED <<ahead, free, guard, world, ran>>
  PROVE  TurnStepFine
<1>0. Len(turn.calls) <= MaxTurnCalls /\ free \in Nat /\ guard \in GuardRow /\ world \in WorldRow
      /\ ahead \in [1..MaxTurnCalls -> AheadRow]
  BY DEF TurnInv, TurnTypes
<1>1. PermitsFit' /\ RaceOnly
  BY <1>0, SamePermits DEF TurnInv
<1>2. PrefixFits'
  BY DEF PrefixFits, TurnGoes
<1>3. GuardFits'
  BY DEF TurnInv, GuardFits, TurnGoes
<1>4. ASSUME NEW i \in 1..MaxTurnCalls PROVE ReadFits(i)'
  <2>1. to = "check" => ahead[i].st \notin {"waiting", "granted", "running"}
    BY DEF Live
  <2> QED BY <2>1 DEF TurnInv, ReadFits, TurnGoes
<1> QED BY <1>0, <1>1, <1>2, <1>3, <1>4, PlainStep

LEMMA StreamEndsFine ==
  ASSUME TurnInv, NEW truncated \in BOOLEAN, StreamEnds(truncated)
  PROVE  TurnStepFine
<1>0. turn.pc = "stream" /\ UNCHANGED <<guard, world, ran>> /\ turn \in TurnRow /\ turn.at = 1
  BY DEF StreamEnds, TurnInv, TurnTypes, PrefixFits
<1>1. CASE Shutdown /\ turn' = [turn EXCEPT !.pc = "answered", !.calls = <<>>]
  <2>1. PICK e \in Seq(Signatures) : e = <<>>
    <3>1. <<>> \in Seq(Signatures)
      OBVIOUS
    <3> QED BY <3>1, Zenon
  <2>2. turn' = [turn EXCEPT !.pc = "answered", !.calls = e]
    BY <1>1, <2>1, Zenon
  <2>3. TurnGoes("answered", e, turn.tried, turn.at)
    BY <1>0, <2>2 DEF TurnRow, TurnPlaces, TurnGoes
  <2> QED BY <1>0, <1>1, <2>1, <2>3, StoppedStep
<1>2. CASE UNCHANGED <<ahead, free>> /\ turn' = [turn EXCEPT !.pc = "collect"]
  <2>1. TurnGoes("collect", turn.calls, turn.tried, turn.at)
    BY <1>0, <1>2 DEF TurnRow, TurnPlaces, TurnGoes
  <2> QED BY <1>0, <1>2, <2>1, OnlyPlace
<1> QED BY <1>1, <1>2 DEF StreamEnds

LEMMA CancelledFine == TurnInv /\ TurnCancelled => TurnStepFine
<1> SUFFICES ASSUME TurnInv, TurnCancelled PROVE TurnStepFine
  OBVIOUS
<1>1. Shutdown /\ UNCHANGED <<guard, world, ran>> /\ turn' = [turn EXCEPT !.pc = "cancelled"] /\ turn \in TurnRow
  BY DEF TurnCancelled, TurnInv, TurnTypes
<1>2. TurnGoes("cancelled", turn.calls, turn.tried, turn.at)
  BY <1>1 DEF TurnRow, TurnPlaces, TurnGoes
<1> QED BY <1>1, <1>2, StoppedStep

(* A call of the answer arrives. *)
LEMMA CallAppended ==
  ASSUME TurnTypes, NEW s \in Signatures, Len(turn.calls) < MaxTurnCalls,
         NEW calls, calls = Append(turn.calls, s)
  PROVE  /\ calls \in Seq(Signatures) /\ Len(calls) = Len(turn.calls) + 1 /\ Len(calls) <= MaxTurnCalls
         /\ Len(turn.calls) \in Nat /\ Len(turn.calls) + 1 \in 1..MaxTurnCalls
         /\ calls[Len(turn.calls) + 1] = s /\ \A j \in 1..Len(turn.calls) : calls[j] = turn.calls[j]
<1>1. turn.calls \in Seq(Signatures)
  BY DEF TurnTypes, TurnRow
<1> QED BY <1>1, TurnTallies

LEMMA StreamCallFine == ASSUME TurnInv, NEW s \in Signatures, StreamCall(s) PROVE TurnStepFine
<1> DEFINE i == Len(turn.calls) + 1
<1>0. /\ turn.pc = "stream" /\ turn.at = 1 /\ turn \in TurnRow /\ Len(turn.calls) < MaxTurnCalls
      /\ turn.prefix \in BOOLEAN /\ turn.shadow \in GuardRow /\ turn.tried \in Nat
      /\ UNCHANGED <<free, guard, world, ran>> /\ TurnTypes /\ free \in Nat /\ guard \in GuardRow
      /\ world \in WorldRow
  BY DEF StreamCall, TurnInv, TurnTypes, PrefixFits, TurnRow
<1>1. PICK h \in GuardRow : h = IF turn.prefix THEN Seen(turn.shadow, s) ELSE turn.shadow
  <2>1. Seen(turn.shadow, s) \in GuardRow
    BY <1>0, SeenRow
  <2> QED BY <1>0, <2>1, Zenon
<1>2. PICK b \in BOOLEAN : b = (turn.prefix /\ ~Blocks(h) /\ CanStream(s))
  OBVIOUS
<1>3. PICK calls : calls = Append(turn.calls, s)
  OBVIOUS
<1>4. /\ turn' = [turn EXCEPT !.calls = calls, !.shadow = h, !.prefix = b]
      /\ ahead' = IF b THEN [ahead EXCEPT ![i] = [st |-> "waiting", attempt |-> turn.tried, seq |-> world.seq[s]]]
                  ELSE ahead
  BY <1>1, <1>2, <1>3, Zenon DEF StreamCall
<1>5. /\ calls \in Seq(Signatures) /\ Len(calls) = i /\ Len(calls) <= MaxTurnCalls /\ i \in 1..MaxTurnCalls
      /\ i - 1 = Len(turn.calls)
      /\ calls[i] = s /\ \A j \in 1..(i - 1) : calls[j] = turn.calls[j]
  <2>1. /\ calls \in Seq(Signatures) /\ Len(calls) = i /\ Len(calls) <= MaxTurnCalls /\ i \in 1..MaxTurnCalls
        /\ Len(turn.calls) \in Nat
        /\ calls[i] = s /\ \A j \in 1..Len(turn.calls) : calls[j] = turn.calls[j]
    BY <1>0, <1>3, CallAppended, ZenonT(60)
  <2>2. i - 1 = Len(turn.calls)
    BY <2>1
  <2> QED BY <2>1, <2>2, Zenon
<1>6. TurnGoes("stream", calls, turn.tried, 1) /\ turn'.prefix = b
  BY <1>0, <1>4, <1>5 DEF TurnRow, TurnGoes
<1> HIDE DEF i
<1>7. b => \A j \in 1..i : calls[j] \in Readable
  <2> SUFFICES ASSUME b PROVE \A j \in 1..i : calls[j] \in Readable
    OBVIOUS
  <2>1. turn.prefix /\ s \in Readable
    BY <1>2, Zenon DEF CanStream
  <2>2. \A j \in 1..(i - 1) : turn.calls[j] \in Readable
    BY <1>0, <1>5, <2>1 DEF TurnInv, PrefixFits
  <2>3. \A j \in 1..i : j \in 1..(i - 1) \/ j = i
    BY <1>5
  <2> QED BY <1>5, <2>1, <2>2, <2>3
<1>8. /\ ahead' \in [1..MaxTurnCalls -> AheadRow]
      /\ \A j \in 1..MaxTurnCalls : ahead'[j] = ahead[j]
            \/ (b /\ j = i /\ ahead'[i].st = "waiting" /\ ahead'[i].attempt = turn.tried)
  <2>1. ahead \in [1..MaxTurnCalls -> AheadRow]
    BY DEF TurnInv, TurnTypes
  <2>2. CASE b
    <3>1. PICK k \in Nat : k = world.seq[s]
      BY <1>0 DEF WorldRow
    <3>2. PICK q : q = [st |-> "waiting", attempt |-> turn.tried, seq |-> k]
      OBVIOUS
    <3>3. q \in AheadRow /\ q.st = "waiting" /\ q.attempt = turn.tried
      BY <1>0, <3>2 DEF AheadRow
    <3>4. ahead' = [ahead EXCEPT ![i] = q]
      BY <1>4, <2>2, <3>1, <3>2, Zenon
    <3>5. ahead' \in [1..MaxTurnCalls -> AheadRow] /\ ahead'[i] = q
          /\ \A j \in (1..MaxTurnCalls) \ {i} : ahead'[j] = ahead[j]
      BY <1>5, <2>1, <3>3, <3>4, Assigned
    <3> QED BY <2>2, <3>3, <3>5
  <2>3. CASE ~b
    BY <1>4, <2>1, <2>3
  <2> QED BY <2>2, <2>3
<1>9. ahead[i].st = "none"
  BY <1>5 DEF TurnInv, ReadFits
<1>10. Holding' = Holding
  BY <1>8, <1>9 DEF Holding
<1>11. PermitsFit' /\ RaceOnly
  <2>1. Cardinality(Holding) \in Nat
    BY HoldingFinite DEF Holding
  <2> QED BY <1>0, <1>10, <2>1 DEF PermitsFit, RaceOnly, TurnInv
<1>12. PrefixFits'
  BY <1>5, <1>6, <1>7 DEF PrefixFits, TurnGoes
<1>13. GuardFits'
  BY <1>0, <1>6 DEF TurnInv, GuardFits, TurnGoes
<1>14. ASSUME NEW j \in 1..MaxTurnCalls PROVE ReadFits(j)'
  <2>1. CASE ahead'[j] = ahead[j]
    <3>1. ahead[j].st # "none" => /\ ahead[j].attempt = turn.tried /\ j <= Len(turn.calls)
                                  /\ \A k \in 1..j : turn.calls[k] \in Readable
      BY DEF TurnInv, ReadFits
    <3>2. j <= Len(turn.calls) => j <= Len(calls) /\ \A k \in 1..j : calls[k] = turn.calls[k]
      BY <1>5
    <3> QED BY <1>6, <2>1, <3>1, <3>2 DEF ReadFits, TurnGoes
  <2>2. CASE b /\ j = i /\ ahead'[i].st = "waiting" /\ ahead'[i].attempt = turn.tried
    BY <1>5, <1>6, <1>7, <2>2 DEF ReadFits, TurnGoes
  <2> QED BY <1>8, <2>1, <2>2
<1> QED BY <1>0, <1>5, <1>6, <1>8, <1>11, <1>12, <1>13, <1>14, PlainStep

LEMMA RetryFine == TurnInv /\ RetryNow => TurnStepFine
<1> SUFFICES ASSUME TurnInv, RetryNow PROVE TurnStepFine
  OBVIOUS
<1>0. /\ turn.pc = "backoff" /\ turn.calls = <<>> /\ turn.at = 1 /\ turn \in TurnRow
      /\ UNCHANGED <<ahead, free, guard, world, ran>>
      /\ free \in Nat /\ guard \in GuardRow /\ world \in WorldRow /\ ahead \in [1..MaxTurnCalls -> AheadRow]
      /\ Len(turn.calls) <= MaxTurnCalls
  BY DEF RetryNow, TurnInv, TurnTypes, PrefixFits
<1>1. turn' = [turn EXCEPT !.pc = "stream", !.prefix = TRUE, !.shadow = guard]
  BY DEF RetryNow
<1>2. TurnGoes("stream", turn.calls, turn.tried, 1)
  BY <1>0, <1>1 DEF TurnRow, TurnPlaces, TurnGoes
<1>3. PermitsFit' /\ RaceOnly
  BY <1>0, SamePermits DEF TurnInv
<1>4. PrefixFits' /\ GuardFits'
  BY <1>0, <1>2 DEF TurnInv, PrefixFits, GuardFits, TurnGoes
<1>5. \A i \in 1..MaxTurnCalls : ReadFits(i)'
  BY <1>0 DEF TurnInv, ReadFits
<1> QED BY <1>0, <1>2, <1>3, <1>4, <1>5, PlainStep

LEMMA CollectFine == TurnInv /\ CollectResults => TurnStepFine
<1> SUFFICES ASSUME TurnInv, CollectResults PROVE TurnStepFine
  OBVIOUS
<1>1. /\ turn.pc = "collect" /\ Live = {} /\ UNCHANGED <<ahead, free, guard, world, ran>>
      /\ turn' = [turn EXCEPT !.pc = "check"] /\ turn \in TurnRow /\ turn.at = 1
  BY DEF CollectResults, TurnInv, TurnTypes, PrefixFits
<1>2. TurnGoes("check", turn.calls, turn.tried, turn.at)
  BY <1>1 DEF TurnRow, TurnPlaces, TurnGoes
<1> QED BY <1>1, <1>2, OnlyPlace

-----------------------------------------------------------------------------
(* The answer's calls. *)

\* A later place of an answer that stands; its reads are over.
LEMMA StandingReads ==
  ASSUME TurnInv, turn.pc \in {"check", "execute"}, NEW to, NEW n, TurnGoes(to, turn.calls, turn.tried, n),
         to \in {"execute", "looped", "answered", "finished"}, UNCHANGED <<ahead, free>>
  PROVE  /\ \A i \in 1..MaxTurnCalls : ReadFits(i)'
         /\ PrefixFits' /\ PermitsFit' /\ RaceOnly /\ free' \in Nat
         /\ ahead' \in [1..MaxTurnCalls -> AheadRow]
<1>1. free \in Nat /\ ahead \in [1..MaxTurnCalls -> AheadRow]
  BY DEF TurnInv, TurnTypes
<1>2. PermitsFit' /\ RaceOnly
  BY <1>1, SamePermits DEF TurnInv
<1>3. PrefixFits'
  BY DEF PrefixFits, TurnGoes
<1>4. ASSUME NEW i \in 1..MaxTurnCalls PROVE ReadFits(i)'
  BY DEF TurnInv, ReadFits, TurnGoes
<1> QED BY <1>1, <1>2, <1>3, <1>4

LEMMA CheckFine == TurnInv /\ CheckToolLoop => TurnStepFine
<1> SUFFICES ASSUME TurnInv, CheckToolLoop PROVE TurnStepFine
  OBVIOUS
<1> DEFINE blocked == {i \in 1..Len(turn.calls) : Blocks(Guards[i])}
           n == Len(turn.calls)
<1>0. /\ turn.pc = "check" /\ turn.at = 1 /\ turn \in TurnRow /\ UNCHANGED <<ahead, free, world, ran>>
      /\ n \in Nat /\ n <= MaxTurnCalls /\ turn.calls \in Seq(Signatures) /\ Follows(guard, ran)
      /\ world \in WorldRow /\ guard \in GuardRow
  BY DEF CheckToolLoop, TurnInv, TurnTypes, TurnRow, PrefixFits, GuardFits
<1>1. /\ Guards \in [0..MaxTurnCalls -> GuardRow] /\ Guards[0] = guard
      /\ \A i \in 1..n : Guards[i] = Seen(Guards[i - 1], turn.calls[i])
  BY GuardsKnown DEF TurnInv
<1>2. CASE blocked = {} /\ turn' = [turn EXCEPT !.pc = "execute"]
           /\ guard' = IF turn.calls = <<>> THEN guard ELSE Guards[n]
  <2>1. TurnGoes("execute", turn.calls, turn.tried, 1)
    BY <1>0, <1>2 DEF TurnRow, TurnPlaces, TurnGoes
  <2>2. guard' = Guards[n] /\ guard' \in GuardRow
    <3>1. CASE turn.calls = <<>>
      <4>1. n = 0
        BY <3>1
      <4> QED BY <1>0, <1>1, <1>2, <3>1, <4>1
    <3>2. CASE turn.calls # <<>>
      BY <1>0, <1>1, <1>2, <3>2, TurnTallies
    <3> QED BY <3>1, <3>2
  <2>3. PICK gs : gs = [i \in 0..n |-> Guards[i]]
    OBVIOUS
  <2>4. gs \in [0..n -> GuardRow] /\ \A i \in 0..n : gs[i] = Guards[i]
    <3>1. \A i \in 0..n : Guards[i] \in GuardRow
      BY <1>0, <1>1, TurnTallies
    <3> QED BY <2>3, <3>1
  <2>5. \A i \in 1..n : gs[i] = Seen(gs[i - 1], turn.calls[i]) /\ gs[i].count < RepeatLimit
    <3> SUFFICES ASSUME NEW i \in 1..n PROVE gs[i] = Seen(gs[i - 1], turn.calls[i]) /\ gs[i].count < RepeatLimit
      OBVIOUS
    <3>1. i \in 0..n /\ i - 1 \in 0..n
      BY <1>0
    <3>2. ~(Guards[i].count >= RepeatLimit) /\ gs[i].count \in Nat
      BY <1>2, <2>4, <3>1 DEF Blocks, GuardRow
    <3>3. gs[i].count < RepeatLimit
      BY <2>4, <3>1, <3>2, TurnTallies
    <3>4. gs[i] = Seen(gs[i - 1], turn.calls[i])
      BY <1>1, <2>4, <3>1, Zenon
    <3> QED BY <3>3, <3>4
  <2>6. gs[n] = guard' /\ gs[0] = guard
    BY <1>0, <1>1, <2>2, <2>4
  <2>7. Passes(gs, turn.calls)'
    BY <2>1, <2>4, <2>5, <2>6, Zenon DEF Passes, TurnGoes
  <2>8. GuardFits'
    <3>1. turn.calls # <<>> => 1 \in 1..n
      BY <1>0
    <3>2. Follows(gs[1 - 1], ran')
      BY <1>0, <2>6
    <3> QED BY <2>1, <2>4, <2>7, <3>1, <3>2 DEF GuardFits, TurnGoes
  <2> QED BY <1>0, <2>1, <2>2, <2>8, StandingReads, PlainStep
<1>3. CASE blocked # {} /\ turn' = [turn EXCEPT !.pc = "looped"]
           /\ guard' = Guards[CHOOSE i \in blocked : \A j \in blocked : i <= j]
  <2>1. TurnGoes("looped", turn.calls, turn.tried, 1)
    BY <1>0, <1>3 DEF TurnRow, TurnPlaces, TurnGoes
  <2>2. guard' \in GuardRow
    <3>1. blocked \in SUBSET Nat /\ blocked \subseteq 0..MaxTurnCalls
      BY <1>0, TurnTallies
    <3> HIDE DEF blocked
    <3>2. \E i \in blocked : \A j \in blocked : i <= j
      BY <1>3, <3>1, LeastNumber
    <3>3. (CHOOSE i \in blocked : \A j \in blocked : i <= j) \in blocked
      BY <3>2, Zenon
    <3> QED BY <1>1, <1>3, <3>1, <3>3
  <2>3. GuardFits'
    BY <2>1 DEF GuardFits, TurnGoes
  <2> QED BY <1>0, <2>1, <2>2, <2>3, StandingReads, PlainStep
<1> QED BY <1>2, <1>3, Zenon DEF CheckToolLoop

LEMMA RunFine == TurnInv /\ RunCall => TurnStepFine
<1> SUFFICES ASSUME TurnInv, RunCall PROVE TurnStepFine
  OBVIOUS
<1> DEFINE i == turn.at
           n == Len(turn.calls)
<1>0. /\ turn.pc = "execute" /\ turn.calls # <<>> /\ turn \in TurnRow /\ UNCHANGED <<ahead, free, guard, world>>
      /\ i \in 1..n /\ n \in Nat /\ n <= MaxTurnCalls /\ turn.calls \in Seq(Signatures)
      /\ ran \in Seq(RanRow) /\ world \in WorldRow /\ guard \in GuardRow
  BY DEF RunCall, TurnInv, TurnTypes, TurnRow, GuardFits
<1>1. PICK gs \in [0..n -> GuardRow] : Passes(gs, turn.calls) /\ Follows(gs[i - 1], ran)
  BY <1>0 DEF TurnInv, GuardFits
<1>2. PICK b \in BOOLEAN : b = Reusable(i)
  BY DEF Reusable
<1>3. PICK q : q = [sig |-> turn.calls[i], ahead |-> b]
  OBVIOUS
<1>4. q \in RanRow /\ q.sig = turn.calls[i] /\ q.ahead = b
  BY <1>0, <1>3 DEF RanRow
<1>5. ran' = Append(ran, q)
  BY <1>2, <1>3, Zenon DEF RunCall
<1>6. /\ gs[i - 1] \in GuardRow /\ gs[i] \in GuardRow /\ gs[i] = Seen(gs[i - 1], turn.calls[i])
      /\ gs[i].count < RepeatLimit
  <2>1. i \in 0..n /\ i - 1 \in 0..n
    BY <1>0
  <2> QED BY <1>0, <1>1, <2>1 DEF Passes
<1>7. Follows(gs[i], ran')
  BY <1>0, <1>1, <1>4, <1>5, <1>6, SeenFollows
<1>8. NoCallRepeatsForEver'
  BY <1>0, <1>4, <1>5, <1>6, <1>7, NoRepeatAdded DEF TurnInv
<1>9. AllowedOnly
  <2>1. /\ Len(ran') = Len(ran) + 1 /\ ran'[Len(ran) + 1] = q /\ Len(ran) \in Nat
    BY <1>0, <1>4, <1>5, RanAppended
  <2>2. b => /\ turn.calls[i] \notin world.denied
             /\ ahead[i].seq = world.seq[turn.calls[i]]
    BY <1>2, Zenon DEF Reusable, CanStream
  <2>3. \A k \in 1..Len(ran') : k > Len(ran) => ran'[k] = q
    BY <2>1
  <2> QED BY <1>4, <2>2, <2>3, Zenon DEF AllowedOnly
<1>10. ran' \in Seq(RanRow)
  BY <1>0, <1>4, <1>5, RanAppended
<1>11. PICK to \in {"execute", "answered"}, k \in Nat :
         /\ TurnGoes(to, turn.calls, turn.tried, k)
         /\ to = "execute" => i < n /\ k = i + 1
         /\ to = "answered" => i = n
  <2>1. CASE i < n
    <3>1. PICK k \in Nat : k = i + 1
      BY <1>0
    <3>2. turn' = [turn EXCEPT !.at = k]
      BY <2>1, <3>1, Zenon DEF RunCall
    <3>3. TurnGoes("execute", turn.calls, turn.tried, k)
      BY <1>0, <3>2 DEF TurnRow, TurnGoes
    <3> QED BY <2>1, <3>1, <3>3
  <2>2. CASE ~(i < n)
    <3>1. turn' = [turn EXCEPT !.pc = "answered"] /\ i = n /\ i \in Nat
      BY <1>0, <2>2 DEF RunCall
    <3>2. TurnGoes("answered", turn.calls, turn.tried, i)
      BY <1>0, <3>1 DEF TurnRow, TurnPlaces, TurnGoes
    <3> QED BY <3>1, <3>2
  <2> QED BY <2>1, <2>2
<1>12. GuardFits'
  <2>1. CASE to = "answered"
    <3>1. gs[i] = guard
      BY <1>1, <1>11, <2>1 DEF Passes
    <3> QED BY <1>0, <1>7, <1>11, <2>1, <3>1 DEF GuardFits, TurnGoes
  <2>2. CASE to = "execute"
    <3>1. k \in 1..n /\ k - 1 = i
      BY <1>0, <1>11, <2>2
    <3>2. Passes(gs, turn.calls)' /\ Follows(gs[k - 1], ran')
      BY <1>0, <1>1, <1>7, <1>11, <3>1 DEF Passes, TurnGoes
    <3> QED BY <1>11, <2>2, <3>1, <3>2 DEF GuardFits, TurnGoes
  <2> QED BY <2>1, <2>2
<1>13. /\ \A j \in 1..MaxTurnCalls : ReadFits(j)'
       /\ PrefixFits' /\ PermitsFit' /\ RaceOnly /\ free' \in Nat
       /\ ahead' \in [1..MaxTurnCalls -> AheadRow]
  BY <1>0, <1>11, StandingReads
<1>14. TurnTypes'
  BY <1>0, <1>10, <1>11, <1>13 DEF TurnTypes, TurnGoes
<1> QED BY <1>8, <1>9, <1>12, <1>13, <1>14 DEF TurnInv, TurnStepFine

LEMMA NextTurnFine == TurnInv /\ NextTurn => TurnStepFine
<1> SUFFICES ASSUME TurnInv, NextTurn PROVE TurnStepFine
  OBVIOUS
<1>0. /\ UNCHANGED <<free, guard, world, ran>> /\ turn \in TurnRow /\ free \in Nat
      /\ world \in WorldRow /\ guard \in GuardRow /\ Len(turn.calls) <= MaxTurnCalls
      /\ ahead \in [1..MaxTurnCalls -> AheadRow]
  BY DEF NextTurn, TurnInv, TurnTypes
<1>1. CASE turn.pc = "execute" /\ turn' = [turn EXCEPT !.pc = "finished"] /\ ahead' = ahead
  <2>1. TurnGoes("finished", turn.calls, turn.tried, turn.at)
    BY <1>0, <1>1 DEF TurnRow, TurnPlaces, TurnGoes
  <2>2. GuardFits'
    BY <2>1 DEF GuardFits, TurnGoes
  <2> QED BY <1>0, <1>1, <2>1, <2>2, StandingReads, PlainStep
<1>2. ASSUME turn.pc = "answered", ahead' = [i \in 1..MaxTurnCalls |-> NoTask],
             \/ turn' = [NewRequest(turn.n + 1) EXCEPT !.shadow = guard]
             \/ turn' = [turn EXCEPT !.pc = "finished"]
      PROVE  TurnStepFine
  <2>1. ahead' \in [1..MaxTurnCalls -> AheadRow] /\ \A i \in 1..MaxTurnCalls : ahead'[i].st = "none"
    BY <1>2 DEF NoTask, AheadRow
  <2>2. Holding = {} /\ Holding' = {}
    BY <1>2, <2>1 DEF TurnInv, ReadFits, Holding
  <2>3. PermitsFit' /\ RaceOnly
    BY <1>0, <2>2, FS_EmptySet DEF PermitsFit, RaceOnly, TurnInv
  <2>4. \A i \in 1..MaxTurnCalls : ReadFits(i)'
    BY <2>1 DEF ReadFits
  <2>5. Follows(guard, ran)
    BY <1>2 DEF TurnInv, GuardFits
  <2>6. CASE turn' = [turn EXCEPT !.pc = "finished"]
    <3>1. TurnGoes("finished", turn.calls, turn.tried, turn.at)
      BY <1>0, <2>6 DEF TurnRow, TurnPlaces, TurnGoes
    <3>2. GuardFits' /\ PrefixFits'
      BY <3>1 DEF GuardFits, PrefixFits, TurnGoes
    <3> QED BY <1>0, <2>1, <2>3, <2>4, <3>1, <3>2, PlainStep
  <2>7. CASE turn' = [NewRequest(turn.n + 1) EXCEPT !.shadow = guard]
    <3>1. PICK k \in Nat : k = turn.n + 1
      BY <1>0 DEF TurnRow
    <3>2. PICK e \in Seq(Signatures) : e = <<>>
      <4>1. <<>> \in Seq(Signatures)
        OBVIOUS
      <4> QED BY <4>1, Zenon
    <3>3. PICK g : g = [last |-> {}, count |-> 0]
      OBVIOUS
    <3>4. PICK q : q = [pc |-> "stream", n |-> k, tried |-> 0, waited |-> 0, calls |-> e, at |-> 1,
                        prefix |-> TRUE, shadow |-> g]
      OBVIOUS
    <3>5. turn' = [q EXCEPT !.shadow = guard]
      BY <2>7, <3>1, <3>2, <3>3, <3>4, Zenon DEF NewRequest
    <3>6. turn' = [pc |-> "stream", n |-> k, tried |-> 0, waited |-> 0, calls |-> e, at |-> 1,
                   prefix |-> TRUE, shadow |-> guard]
      BY <3>4, <3>5
    <3>7. TurnGoes("stream", e, 0, 1)
      BY <1>0, <3>6 DEF TurnRow, TurnPlaces, TurnGoes
    <3>8. PrefixFits' /\ GuardFits' /\ Len(e) <= MaxTurnCalls
      BY <1>0, <2>5, <3>2, <3>7, TurnTallies DEF PrefixFits, GuardFits, TurnGoes
    <3> QED BY <1>0, <2>1, <2>3, <2>4, <3>7, <3>8, PlainStep
  <2> QED BY <1>2, <2>6, <2>7
<1> QED BY <1>1, <1>2 DEF NextTurn

LEMMA OutsideFine ==
  ASSUME TurnInv, OutsideChange \/ UNCHANGED turnVars
  PROVE  TurnStepFine
<1>0. UNCHANGED <<turn, ahead, free, guard, ran>> /\ free \in Nat /\ TurnTypes
  BY DEF OutsideChange, turnVars, TurnInv, TurnTypes
<1>1. world' \in WorldRow
  <2>0. world \in WorldRow /\ world.n \in Nat /\ Readable \subseteq Signatures
    BY TurnTallies DEF TurnInv, TurnTypes, WorldRow
  <2>1. PICK k \in Nat : k = world.n + 1
    BY <2>0
  <2>2. CASE UNCHANGED turnVars
    BY <2>0, <2>2 DEF turnVars
  <2>3. ASSUME NEW s \in Readable, world' = [world EXCEPT !.denied = @ \cup {s}, !.n = @ + 1]
        PROVE  world' \in WorldRow
    <3>1. PICK D \in SUBSET Signatures : D = world.denied \cup {s}
      BY <2>0 DEF WorldRow
    <3>2. world' = [world EXCEPT !.denied = D, !.n = k]
      BY <2>1, <2>3, <3>1, Zenon
    <3> QED BY <2>0, <3>2 DEF WorldRow
  <2>4. ASSUME NEW s \in Readable, world' = [world EXCEPT !.seq[s] = @ + 1, !.n = @ + 1]
        PROVE  world' \in WorldRow
    <3>1. world.seq \in [Signatures -> Nat] /\ s \in Signatures
      BY <2>0, <2>4 DEF WorldRow
    <3>2. PICK m \in Nat : m = world.seq[s] + 1
      BY <3>1
    <3>3. PICK f : f = [world.seq EXCEPT ![s] = m]
      OBVIOUS
    <3>4. f \in [Signatures -> Nat]
      BY <3>1, <3>3
    <3>5. world' = [world EXCEPT !.seq = f, !.n = k]
      BY <2>1, <2>4, <3>2, <3>3, Zenon
    <3> QED BY <2>0, <3>4, <3>5 DEF WorldRow
  <2>5. CASE world' = [world EXCEPT !.stop = TRUE, !.n = @ + 1]
    <3>1. world' = [world EXCEPT !.stop = TRUE, !.n = k]
      BY <2>1, <2>5, Zenon
    <3> QED BY <2>0, <3>1 DEF WorldRow
  <2> QED BY <2>2, <2>3, <2>4, <2>5 DEF OutsideChange
<1>2. PermitsFit' /\ RaceOnly
  BY <1>0, SamePermits DEF TurnInv
<1>3. PrefixFits' /\ GuardFits'
  BY <1>0 DEF TurnInv, PrefixFits, GuardFits, Follows, Passes
<1>4. AllowedOnly /\ NoCallRepeatsForEver'
  BY <1>0, NothingRan DEF TurnInv, TurnTypes
<1>5. TurnTypes' /\ \A i \in 1..MaxTurnCalls : ReadFits(i)'
  BY <1>0, <1>1 DEF TurnInv, TurnTypes, ReadFits
<1> QED BY <1>2, <1>3, <1>4, <1>5 DEF TurnInv, TurnStepFine

LEMMA TurnSteps == TurnInv /\ [TurnNext]_turnVars => TurnStepFine
<1> SUFFICES ASSUME TurnInv, [TurnNext]_turnVars PROVE TurnStepFine
  OBVIOUS
<1>1. CASE StreamMoves
  BY <1>1, StreamCallFine, StreamFailsFine, StreamEndsFine DEF StreamMoves
<1>2. CASE \E i \in 1..MaxTurnCalls : ReadMoves(i)
  BY <1>2, ReadMovesFine
<1>3. CASE TurnMoves
  BY <1>3, RetryFine, CollectFine, CancelledFine, CheckFine, RunFine, NextTurnFine DEF TurnMoves
<1>4. CASE OutsideChange \/ UNCHANGED turnVars
  BY <1>4, OutsideFine
<1> QED BY <1>1, <1>2, <1>3, <1>4 DEF TurnNext

LEMMA TurnInvNext == TurnInv /\ [TurnNext]_turnVars => TurnInv'
BY TurnSteps DEF TurnStepFine

-----------------------------------------------------------------------------
(* Dispatch.  The results so far are the positions in front of the loop's; the *)
(* calls there are settled, those behind its batch are due, and of a batch at  *)
(* once every call but a lone one may overlap with the others.                 *)
Guards3 == {"hooks", "standing", "user"}
LoopPlaces == {"ask", "batch", "parallel", "serial", "over", "failed"}
EndFate == {"done", "rejected", "unknown", "disabled", "denied"}
CallFates == EndFate \cup {"due", "started", "running", "asked", "stopped"}
StageRow == [pc : LoopPlaces, at : Nat, n : Nat]
TallyRow == [unknown : Nat, cuts : Nat, row : Nat, escalated : BOOLEAN]
StandingRow == [hooks : BOOLEAN, on : [ToolNames -> BOOLEAN], says : [ToolNames -> Effects3], n : Nat]

AnswerFine ==
  /\ answer.calls \in Seq(ToolNames) /\ answer.starts \subseteq Positions
  /\ \A k \in Positions : k \notin answer.starts =>
        k > 1 /\ answer.calls[k] \in SafeNames /\ answer.calls[k - 1] \in SafeNames
DispatchRows ==
  /\ stage \in StageRow /\ tally \in TallyRow /\ standing \in StandingRow
  /\ fates \in [Positions -> CallFates] /\ passed \in [Positions -> SUBSET Guards3]

\* Where the loop is, and the calls: j stands in the batch at once or not.
FateFits(row, j, mark, inBatch) ==
  /\ row.pc = "ask" => mark \in EndFate
  /\ row.pc \in {"over", "failed"} => mark \notin {"started", "running"}
  /\ row.pc \in {"batch", "parallel", "serial"} /\ j < row.at => mark \in EndFate
  /\ row.pc = "batch" /\ row.at <= j => mark = "due"
  /\ row.pc = "parallel" /\ inBatch => mark \in {"started", "running", "disabled", "done"}
  /\ row.pc = "parallel" /\ row.at <= j /\ ~inBatch => mark = "due"
  /\ row.pc = "serial" /\ row.at < j => mark = "due"
  /\ row.pc = "serial" /\ row.at = j => mark \notin {"started", "stopped"}
LoopFits ==
  /\ \A j \in Positions : FateFits(stage, j, fates[j], j \in BatchAt(stage.at))
  /\ stage.pc = "batch" => stage.at \in 1..(Len(answer.calls) + 1)
  /\ stage.pc \in {"parallel", "serial"} => stage.at \in Positions
  /\ stage.pc = "parallel" => ~standing.hooks
RepliesFit ==
  /\ replies \in Seq(Nat) /\ \A k \in 1..Len(replies) : replies[k] = k
  /\ stage.pc = "ask" => Len(replies) = Len(answer.calls)
  /\ stage.pc \in {"batch", "parallel", "serial"} => Len(replies) = stage.at - 1

\* A call that started passed its guards; one that asks passed the hooks.
Guarded(hooks, mark, by) ==
  /\ mark \in {"started", "running", "done", "stopped"} =>
       (hooks => "hooks" \in by) /\ ("standing" \in by \/ "user" \in by)
  /\ mark = "asked" => (hooks => "hooks" \in by)
GuardsFit == \A j \in Positions : Guarded(standing.hooks, fates[j], passed[j])

TallyFits ==
  /\ tally.cuts <= MaxRecoveries
  /\ tally.row <= IF tally.escalated THEN tally.cuts + 1 ELSE 0
  /\ stage.pc = "ask" => tally.unknown < MaxUnknown

DispatchInv == AnswerFine /\ DispatchRows /\ LoopFits /\ RepliesFit /\ GuardsFit /\ TallyFits

(* The positions of a batch are those up to the start of the next one. *)
LEMMA BatchInterval ==
  ASSUME AnswerFine, NEW i \in Positions
  PROVE  \E e \in Nat : /\ i < e /\ e <= Len(answer.calls) + 1
                       /\ BatchAt(i) = i..(e - 1) /\ Cardinality(BatchAt(i)) = e - i
<1>1. Len(answer.calls) \in Nat
  BY DEF AnswerFine
<1>2. PICK N \in Nat : N = Len(answer.calls)
  BY <1>1
<1> DEFINE Ends == {k \in 1..(N + 1) : k > i /\ (k \in answer.starts \/ k = N + 1)}
<1>3. i \in 1..N /\ Ends \in SUBSET Nat /\ N + 1 \in Ends
  BY <1>2 DEF Positions
<1>4. \E e \in Ends : \A k \in Ends : e <= k
  <2> HIDE DEF Ends
  <2> QED BY <1>3, LeastNumber
<1>5. PICK e \in Ends : \A k \in Ends : e <= k
  BY <1>4
<1>6. e \in Nat /\ i < e /\ e <= N + 1 /\ (e \in answer.starts \/ e = N + 1)
  BY <1>5
<1>7. \A k \in (i + 1)..(e - 1) : k \notin answer.starts
  BY <1>3, <1>5, <1>6
<1>8. BatchAt(i) = i..(e - 1)
  <2>1. ASSUME NEW j \in i..(e - 1) PROVE j \in BatchAt(i)
    <3>1. j \in 1..N /\ j >= i
      BY <1>3, <1>6, <2>1
    <3>2. \A k \in (i + 1)..j : k \in (i + 1)..(e - 1)
      BY <1>3, <1>6, <2>1
    <3> QED BY <1>2, <1>7, <3>1, <3>2 DEF BatchAt, Positions
  <2>2. ASSUME NEW j \in BatchAt(i) PROVE j \in i..(e - 1)
    <3>1. j \in 1..N /\ j >= i /\ \A k \in (i + 1)..j : k \notin answer.starts
      BY <1>2, <2>2 DEF BatchAt, Positions
    <3>2. ~(e <= j)
      <4> SUFFICES ASSUME e <= j PROVE FALSE
        OBVIOUS
      <4>1. e \in (i + 1)..j /\ e # N + 1
        BY <1>3, <1>6, <3>1
      <4> QED BY <1>6, <3>1, <4>1
    <3> QED BY <1>3, <1>6, <3>1, <3>2
  <2> QED BY <2>1, <2>2
<1>9. Cardinality(i..(e - 1)) = e - i
  <2>1. i \in Int /\ e - 1 \in Int
    BY <1>3, <1>6
  <2>2. Cardinality(i..(e - 1)) = IF i > e - 1 THEN 0 ELSE (e - 1) - i + 1
    BY <2>1, FS_Interval
  <2> QED BY <1>3, <1>6, <2>2
<1> QED BY <1>2, <1>6, <1>8, <1>9

(* Two calls of one batch may both run at once. *)
LEMMA BatchSafe ==
  ASSUME AnswerFine, NEW i \in Positions, NEW j \in BatchAt(i), NEW k \in BatchAt(i), j # k
  PROVE  answer.calls[j] \in SafeNames /\ answer.calls[k] \in SafeNames
<1> SUFFICES ASSUME NEW x \in BatchAt(i), NEW y \in BatchAt(i), x < y
             PROVE  answer.calls[x] \in SafeNames /\ answer.calls[y] \in SafeNames
  <2>1. j \in Nat /\ k \in Nat
    BY DEF BatchAt, Positions
  <2>2. j < k \/ k < j
    BY <2>1
  <2> QED BY <2>2
<1>1. PICK N \in Nat : N = Len(answer.calls)
  BY DEF AnswerFine
<1>2. /\ i \in 1..N /\ x \in 1..N /\ y \in 1..N /\ x >= i
      /\ \A z \in (i + 1)..y : z \notin answer.starts
  BY <1>1 DEF BatchAt, Positions
<1>3. x + 1 \in (i + 1)..y /\ y \in (i + 1)..y /\ x + 1 \in 1..N
  BY <1>2
<1>4. x + 1 \notin answer.starts /\ y \notin answer.starts
  BY <1>2, <1>3
<1>5. answer.calls[x + 1 - 1] \in SafeNames /\ answer.calls[y] \in SafeNames
  BY <1>1, <1>2, <1>3, <1>4 DEF AnswerFine, Positions
<1>6. x + 1 - 1 = x
  BY <1>2
<1> QED BY <1>5, <1>6

(* Results in order, and one or a batch more. *)
LEMMA OneReply ==
  ASSUME NEW s \in Seq(Nat), \A k \in 1..Len(s) : s[k] = k, NEW i \in Nat, i = Len(s) + 1
  PROVE  Append(s, i) \in Seq(Nat) /\ Len(Append(s, i)) = i
         /\ \A k \in 1..Len(Append(s, i)) : Append(s, i)[k] = k
OBVIOUS

RepliesTo(s, i) == s \in Seq(Nat) /\ Len(s) + 1 = i /\ \A k \in 1..Len(s) : s[k] = k

LEMMA MoreReplies ==
  ASSUME NEW s, NEW i \in Nat, RepliesTo(s, i), NEW c \in Nat, NEW t,
         t = [k \in 1..c |-> i + k - 1]
  PROVE  RepliesTo(s \o t, i + c)
<1>0. s \in Seq(Nat) /\ Len(s) \in Nat /\ i = Len(s) + 1 /\ \A k \in 1..Len(s) : s[k] = k
  BY DEF RepliesTo
<1>1. t \in Seq(Nat) /\ Len(t) = c /\ \A k \in 1..c : t[k] = i + k - 1
  <2>1. t \in [1..c -> Nat]
    BY <1>0
  <2>2. t \in Seq(Nat) /\ Len(t) = c
    BY <2>1
  <2> QED BY <2>1, <2>2
<1>2. s \o t \in Seq(Nat) /\ Len(s \o t) = Len(s) + c
  BY <1>0, <1>1
<1>3. ASSUME NEW k \in 1..(Len(s) + c) PROVE (s \o t)[k] = k
  <2>1. CASE k <= Len(s)
    BY <1>0, <1>1, <2>1
  <2>2. CASE k > Len(s)
    <3>1. (s \o t)[k] = t[k - Len(s)]
      BY <1>0, <1>1, <2>2
    <3>2. k - Len(s) \in 1..c
      BY <1>0, <2>2
    <3> QED BY <1>0, <1>1, <3>1, <3>2
  <2> QED BY <2>1, <2>2
<1> QED BY <1>0, <1>2, <1>3 DEF RepliesTo

(* One call moves: the loop stays where it is. *)
LEMMA CallStep ==
  ASSUME DispatchInv, NEW i \in Positions, NEW f \in CallFates, NEW g \in SUBSET Guards3,
         fates' = [fates EXCEPT ![i] = f], passed' = [passed EXCEPT ![i] = g],
         UNCHANGED <<answer, stage, replies, tally, standing>>,
         FateFits(stage, i, f, i \in BatchAt(stage.at)), Guarded(standing.hooks, f, g)
  PROVE  DispatchInv'
<1>1. AnswerFine /\ DispatchRows /\ LoopFits /\ RepliesFit /\ GuardsFit /\ TallyFits
  BY DEF DispatchInv
<1>2. Positions' = Positions /\ BatchAt(stage.at)' = BatchAt(stage.at)
  BY DEF Positions, BatchAt
<1>3. /\ fates' \in [Positions -> CallFates] /\ fates'[i] = f
      /\ \A j \in Positions \ {i} : fates'[j] = fates[j]
  BY <1>1, Assigned DEF DispatchRows
<1>4. /\ passed' \in [Positions -> SUBSET Guards3] /\ passed'[i] = g
      /\ \A j \in Positions \ {i} : passed'[j] = passed[j]
  BY <1>1, Assigned DEF DispatchRows
<1>5. AnswerFine' /\ DispatchRows'
  <2>1. AnswerFine'
    BY <1>1, <1>2 DEF AnswerFine
  <2>2. DispatchRows'
    BY <1>1, <1>2, <1>3, <1>4 DEF DispatchRows
  <2> QED BY <2>1, <2>2
<1>6. LoopFits'
  <2>1. \A j \in Positions : FateFits(stage, j, fates'[j], j \in BatchAt(stage.at))
    <3> SUFFICES ASSUME NEW j \in Positions PROVE FateFits(stage, j, fates'[j], j \in BatchAt(stage.at))
      OBVIOUS
    <3>1. CASE j = i
      BY <1>3, <3>1, Zenon
    <3>2. CASE j # i
      <4>1. fates'[j] = fates[j]
        BY <1>3, <3>2
      <4> QED BY <1>1, <4>1, Zenon DEF LoopFits
    <3> QED BY <3>1, <3>2
  <2>2. \A j \in Positions' : FateFits(stage', j, fates'[j], j \in BatchAt(stage.at)')
    BY <1>2, <2>1
  <2>3. /\ stage'.pc = "batch" => stage'.at \in 1..(Len(answer'.calls) + 1)
        /\ stage'.pc \in {"parallel", "serial"} => stage'.at \in Positions'
        /\ stage'.pc = "parallel" => ~standing'.hooks
    BY <1>1, <1>2, Zenon DEF LoopFits
  <2> QED BY <2>2, <2>3, Zenon DEF LoopFits
<1>7. RepliesFit' /\ TallyFits'
  BY <1>1 DEF RepliesFit, TallyFits
<1>8. GuardsFit'
  <2>1. \A j \in Positions : Guarded(standing.hooks, fates'[j], passed'[j])
    <3> SUFFICES ASSUME NEW j \in Positions PROVE Guarded(standing.hooks, fates'[j], passed'[j])
      OBVIOUS
    <3>1. CASE j = i
      BY <1>3, <1>4, <3>1, Zenon
    <3>2. CASE j # i
      <4>1. fates'[j] = fates[j] /\ passed'[j] = passed[j]
        BY <1>3, <1>4, <3>2
      <4> QED BY <1>1, <4>1, Zenon DEF GuardsFit
    <3> QED BY <3>1, <3>2
  <2> QED BY <1>2, <2>1, Zenon DEF GuardsFit
<1> QED BY <1>5, <1>6, <1>7, <1>8 DEF DispatchInv

\* What a call's row tells of it.
LEMMA CallTold ==
  ASSUME DispatchInv, NEW i \in Positions
  PROVE  /\ i \in Nat /\ i >= 1 /\ fates[i] \in CallFates /\ passed[i] \in SUBSET Guards3
         /\ FateFits(stage, i, fates[i], i \in BatchAt(stage.at))
         /\ Guarded(standing.hooks, fates[i], passed[i])
         /\ stage \in StageRow /\ standing \in StandingRow
         /\ answer.calls[i] \in ToolNames
<1>1. fates[i] \in CallFates /\ passed[i] \in SUBSET Guards3 /\ stage \in StageRow /\ standing \in StandingRow
  BY DEF DispatchInv, DispatchRows
<1>2. FateFits(stage, i, fates[i], i \in BatchAt(stage.at)) /\ Guarded(standing.hooks, fates[i], passed[i])
  BY Zenon DEF DispatchInv, LoopFits, GuardsFit
<1>3. i \in Nat /\ i >= 1 /\ answer.calls[i] \in ToolNames
  BY DEF DispatchInv, AnswerFine, Positions
<1> QED BY <1>1, <1>2, <1>3

LEMMA SamePassed ==
  ASSUME DispatchInv, NEW i \in Positions, passed' = passed
  PROVE  passed' = [passed EXCEPT ![i] = passed[i]]
BY DEF DispatchInv, DispatchRows

LEMMA SameFates ==
  ASSUME DispatchInv, NEW i \in Positions, fates' = fates
  PROVE  fates' = [fates EXCEPT ![i] = fates[i]]
BY DEF DispatchInv, DispatchRows

LEMMA DirectStep ==
  ASSUME DispatchInv, NEW i \in Positions, DirectStarts(i)
  PROVE  DispatchInv'
<1>1. stage.pc = "parallel" /\ fates[i] = "started" /\ UNCHANGED <<answer, stage, passed, replies, tally, standing>>
  BY DEF DirectStarts
<1>2. PICK f : f = IF standing.on[answer.calls[i]] THEN "running" ELSE "disabled"
  OBVIOUS
<1>3. fates' = [fates EXCEPT ![i] = f] /\ f \in {"running", "disabled"}
  BY <1>2, Zenon DEF DirectStarts
<1>4. FateFits(stage, i, f, i \in BatchAt(stage.at))
  BY <1>1, <1>3, CallTold DEF FateFits, EndFate
<1>5. Guarded(standing.hooks, f, passed[i])
  BY <1>1, <1>3, CallTold DEF Guarded
<1>6. f \in CallFates
  BY <1>3 DEF CallFates, EndFate
<1> QED BY <1>1, <1>3, <1>4, <1>5, <1>6, SamePassed, CallTold, CallStep

LEMMA ToolEndsStep ==
  ASSUME DispatchInv, NEW i \in Positions, ToolEnds(i)
  PROVE  DispatchInv'
<1>1. fates[i] = "running" /\ UNCHANGED <<answer, stage, passed, replies, tally, standing>>
  BY DEF ToolEnds
<1>2. fates' = [fates EXCEPT ![i] = "done"] /\ "done" \in CallFates
  BY DEF ToolEnds, CallFates, EndFate
<1>3. FateFits(stage, i, "done", i \in BatchAt(stage.at))
  BY <1>1, CallTold DEF FateFits, EndFate, StageRow, LoopPlaces
<1>4. Guarded(standing.hooks, "done", passed[i])
  BY <1>1, CallTold DEF Guarded
<1> QED BY <1>1, <1>2, <1>3, <1>4, SamePassed, CallTold, CallStep

LEMMA HooksStep ==
  ASSUME DispatchInv, NEW i \in Positions, NEW b \in BOOLEAN, BeforeHooks(i, b)
  PROVE  DispatchInv'
<1>1. stage.pc = "serial" /\ stage.at = i /\ fates[i] = "due" /\ UNCHANGED <<answer, stage, replies, tally, standing>>
  BY DEF BeforeHooks, Serial
<1>2. CASE b
  <2>1. fates' = [fates EXCEPT ![i] = "rejected"] /\ passed' = passed
    BY <1>2 DEF BeforeHooks
  <2>2. FateFits(stage, i, "rejected", i \in BatchAt(stage.at)) /\ "rejected" \in CallFates
    BY <1>1, CallTold DEF FateFits, EndFate, CallFates
  <2>3. Guarded(standing.hooks, "rejected", passed[i])
    BY DEF Guarded
  <2> QED BY <1>1, <2>1, <2>2, <2>3, SamePassed, CallTold, CallStep
<1>3. CASE ~b
  <2>1. fates' = fates /\ passed' = [passed EXCEPT ![i] = {"hooks"}]
    BY <1>3 DEF BeforeHooks
  <2>2. PICK g \in SUBSET Guards3 : g = {"hooks"}
    BY DEF Guards3
  <2>3. Guarded(standing.hooks, fates[i], g)
    BY <1>1 DEF Guarded
  <2>4. passed' = [passed EXCEPT ![i] = g]
    BY <2>1, <2>2, Zenon
  <2> QED BY <1>1, <2>1, <2>3, <2>4, SameFates, CallTold, CallStep
<1> QED BY <1>2, <1>3

LEMMA LookUpStep ==
  ASSUME DispatchInv, NEW i \in Positions, LookUp(i)
  PROVE  DispatchInv'
<1>1. /\ stage.pc = "serial" /\ stage.at = i /\ fates[i] = "due"
      /\ standing.hooks => "hooks" \in passed[i]
      /\ UNCHANGED <<answer, stage, replies, tally, standing>>
  BY DEF LookUp, Serial
<1>2. PICK t \in ToolNames : t = answer.calls[i]
  BY CallTold
<1>3. PICK s \in Effects3 : s = standing.says[t]
  BY CallTold DEF StandingRow
<1>4. PICK c : c = (CASE s = "allow" -> "running" [] s = "ask" -> "asked" [] s = "deny" -> "denied")
  OBVIOUS
<1>5. /\ s = "allow" => c = "running"
      /\ s = "ask" => c = "asked"
      /\ s = "deny" => c = "denied"
  BY <1>4
<1>6. PICK f : f = IF t \in NoSuchTool THEN "unknown" ELSE IF ~standing.on[t] THEN "disabled" ELSE c
  OBVIOUS
<1>7. PICK g : g = IF t \notin NoSuchTool /\ standing.on[t] /\ s = "allow"
                   THEN passed[i] \cup {"standing"} ELSE passed[i]
  OBVIOUS
<1>8. fates' = [fates EXCEPT ![i] = f]
  <2>1. PICK x : x = IF answer.calls[i] \in NoSuchTool THEN "unknown"
                     ELSE IF ~standing.on[answer.calls[i]] THEN "disabled"
                     ELSE CASE standing.says[answer.calls[i]] = "allow" -> "running"
                            [] standing.says[answer.calls[i]] = "ask" -> "asked"
                            [] standing.says[answer.calls[i]] = "deny" -> "denied"
    OBVIOUS
  <2>2. fates' = [fates EXCEPT ![i] = x]
    BY <2>1, SMT DEF LookUp
  <2>3. x = f
    BY <1>2, <1>3, <1>4, <1>6, <2>1
  <2> QED BY <2>2, <2>3
<1>9. passed' = [passed EXCEPT ![i] = g]
  <2>1. CASE t \notin NoSuchTool /\ standing.on[t] /\ s = "allow"
    BY <1>2, <1>3, <1>7, <2>1, Zenon DEF LookUp
  <2>2. CASE ~(t \notin NoSuchTool /\ standing.on[t] /\ s = "allow")
    <3>1. passed' = passed /\ g = passed[i]
      BY <1>2, <1>3, <1>7, <2>2, Zenon DEF LookUp
    <3> QED BY <3>1, SamePassed
  <2> QED BY <2>1, <2>2
<1>10. f \in {"unknown", "disabled", "running", "asked", "denied"} /\ f # "started" /\ f # "stopped"
       /\ (f = "running" => "standing" \in g) /\ g \in SUBSET Guards3 /\ passed[i] \subseteq g
  <2>1. c \in {"running", "asked", "denied"} /\ (c = "running" => s = "allow")
    BY <1>3, <1>5 DEF Effects3
  <2>2. f \in {"unknown", "disabled", "running", "asked", "denied"} /\ f # "started" /\ f # "stopped"
    BY <1>6, <2>1
  <2>3. f = "running" => t \notin NoSuchTool /\ standing.on[t] /\ s = "allow"
    BY <1>6, <2>1
  <2>4. g \in SUBSET Guards3 /\ passed[i] \subseteq g
    BY <1>7, CallTold DEF Guards3
  <2>5. f = "running" => "standing" \in g
    BY <1>7, <2>3
  <2> QED BY <2>2, <2>4, <2>5
<1>11. FateFits(stage, i, f, i \in BatchAt(stage.at)) /\ f \in CallFates
  BY <1>1, <1>10, CallTold DEF FateFits, CallFates, EndFate
<1>12. Guarded(standing.hooks, f, g)
  BY <1>1, <1>10 DEF Guarded
<1> QED BY <1>1, <1>8, <1>9, <1>10, <1>11, <1>12, CallStep

LEMMA UserStep ==
  ASSUME DispatchInv, NEW i \in Positions, NEW b \in BOOLEAN, UserAnswers(i, b)
  PROVE  DispatchInv'
<1>1. /\ stage.pc = "serial" /\ stage.at = i /\ fates[i] = "asked"
      /\ UNCHANGED <<answer, stage, replies, tally, standing>>
  BY DEF UserAnswers, Serial
<1>2. PICK f : f = IF b THEN "running" ELSE "denied"
  OBVIOUS
<1>3. PICK g : g = IF b THEN passed[i] \cup {"user"} ELSE passed[i]
  OBVIOUS
<1>4. fates' = [fates EXCEPT ![i] = f]
  BY <1>2, Zenon DEF UserAnswers
<1>5. passed' = [passed EXCEPT ![i] = g]
  <2>1. CASE b
    BY <1>3, <2>1, Zenon DEF UserAnswers
  <2>2. CASE ~b
    <3>1. passed' = passed /\ g = passed[i]
      BY <1>3, <2>2, Zenon DEF UserAnswers
    <3> QED BY <3>1, SamePassed
  <2> QED BY <2>1, <2>2
<1>6. f \in {"running", "denied"} /\ (f = "running" => b)
  BY <1>2
<1>7. g \in SUBSET Guards3 /\ passed[i] \subseteq g /\ (b => "user" \in g)
  BY <1>3, CallTold DEF Guards3
<1>8. FateFits(stage, i, f, i \in BatchAt(stage.at)) /\ f \in CallFates
  BY <1>1, <1>6, CallTold DEF FateFits, CallFates, EndFate
<1>9. Guarded(standing.hooks, f, g)
  <2>1. standing.hooks => "hooks" \in g
    BY <1>1, <1>7, CallTold DEF Guarded
  <2> QED BY <1>6, <1>7, <2>1 DEF Guarded
<1> QED BY <1>1, <1>4, <1>5, <1>7, <1>8, <1>9, CallStep

(* The loop moves and the calls stay as they are. *)
LEMMA LoopStep ==
  ASSUME DispatchInv, UNCHANGED <<answer, fates, passed, standing>>, NEW q \in StageRow, stage' = q,
         tally' \in TallyRow, TallyFits',
         \A j \in Positions : FateFits(q, j, fates[j], j \in BatchAt(q.at)),
         q.pc # "parallel", q.pc = "batch" => q.at \in 1..(Len(answer.calls) + 1),
         q.pc = "serial" => q.at \in Positions, RepliesFit'
  PROVE  DispatchInv'
<1>1. AnswerFine /\ DispatchRows /\ LoopFits /\ GuardsFit
  BY DEF DispatchInv
<1>2. Positions' = Positions
  BY DEF Positions
<1>3. AnswerFine' /\ DispatchRows'
  <2>1. AnswerFine'
    BY <1>1, <1>2 DEF AnswerFine
  <2>2. DispatchRows'
    BY <1>1, <1>2 DEF DispatchRows
  <2> QED BY <2>1, <2>2
<1>4. BatchAt(stage.at)' = BatchAt(q.at)
  BY DEF BatchAt, Positions
<1>5. LoopFits'
  <2>1. \A j \in Positions' : FateFits(stage', j, fates'[j], j \in BatchAt(stage.at)')
    BY <1>2, <1>4
  <2>2. /\ stage'.pc = "batch" => stage'.at \in 1..(Len(answer'.calls) + 1)
        /\ stage'.pc \in {"parallel", "serial"} => stage'.at \in Positions'
        /\ stage'.pc = "parallel" => ~standing'.hooks
    BY <1>2
  <2> QED BY <2>1, <2>2, Zenon DEF LoopFits
<1>6. GuardsFit'
  BY <1>1, <1>2, Zenon DEF GuardsFit
<1> QED BY <1>3, <1>5, <1>6 DEF DispatchInv

LEMMA CountedFits ==
  ASSUME tally \in TallyRow, NEW b \in BOOLEAN, TallyFits, tally' = Counted(b), stage'.pc # "ask"
  PROVE  tally' \in TallyRow /\ TallyFits'
<1>1. PICK m \in Nat : m = IF b THEN tally.unknown + 1 ELSE 0
  BY DEF TallyRow
<1>2. tally' = [tally EXCEPT !.unknown = m]
  BY <1>1, Zenon DEF Counted
<1>3. tally' \in TallyRow /\ tally'.cuts = tally.cuts /\ tally'.row = tally.row
      /\ tally'.escalated = tally.escalated
  BY <1>2 DEF TallyRow
<1> QED BY <1>3 DEF TallyFits

LEMMA CallOverStep ==
  ASSUME DispatchInv, NEW i \in Positions, CallOver(i)
  PROVE  DispatchInv'
<1>1. /\ stage.pc = "serial" /\ stage.at = i /\ fates[i] \in EndFate /\ replies' = Append(replies, i)
      /\ UNCHANGED <<answer, fates, passed, standing>>
  BY DEF CallOver, Serial, EndFate
<1>2. AnswerFine /\ DispatchRows /\ LoopFits /\ RepliesFit /\ GuardsFit /\ TallyFits
  BY DEF DispatchInv
<1>3. PICK N \in Nat : N = Len(answer.calls)
  BY <1>2 DEF AnswerFine
<1>4. i \in 1..N
  BY <1>3 DEF Positions
<1>5. PICK p : p = IF i = Len(answer.calls) \/ (i + 1) \in answer.starts THEN "batch" ELSE "serial"
  OBVIOUS
<1>6. PICK m \in Nat : m = i + 1
  BY <1>4
<1>7. PICK q : q = [stage EXCEPT !.at = m, !.pc = p]
  OBVIOUS
<1>8. stage' = q
  <2>1. stage' = [stage EXCEPT !.at = @ + 1,
                              !.pc = IF i = Len(answer.calls) \/ (i + 1) \in answer.starts
                                     THEN "batch" ELSE "serial"]
    BY Zenon DEF CallOver
  <2>2. stage.at + 1 = m
    BY <1>1, <1>6
  <2> QED BY <1>5, <1>7, <2>1, <2>2, Zenon
<1>9. q \in StageRow /\ q.pc = p /\ q.at = m /\ p \in {"batch", "serial"} /\ (p = "serial" => i # N)
  <2>1. p \in {"batch", "serial"} /\ (p = "serial" => i # N)
    BY <1>3, <1>5
  <2>2. stage \in StageRow
    BY <1>2 DEF DispatchRows
  <2> QED BY <1>7, <2>1, <2>2 DEF StageRow, LoopPlaces
<1>10. \A j \in Positions : FateFits(q, j, fates[j], j \in BatchAt(q.at))
  <2> SUFFICES ASSUME NEW j \in Positions PROVE FateFits(q, j, fates[j], j \in BatchAt(q.at))
    OBVIOUS
  <2>1. j \in Nat /\ FateFits(stage, j, fates[j], j \in BatchAt(stage.at))
    BY CallTold
  <2>2. j < i => fates[j] \in EndFate
    BY <1>1, <2>1 DEF FateFits
  <2>3. j > i => fates[j] = "due"
    BY <1>1, <2>1, <1>4 DEF FateFits
  <2>4. j < m => fates[j] \in EndFate
    BY <1>1, <1>4, <1>6, <2>1, <2>2
  <2>5. m <= j => fates[j] = "due"
    BY <1>4, <1>6, <2>1, <2>3
  <2> QED BY <1>6, <1>9, <2>1, <2>4, <2>5 DEF FateFits
<1>11. q.pc = "batch" => q.at \in 1..(Len(answer.calls) + 1)
  BY <1>3, <1>4, <1>6, <1>9
<1>12. q.pc = "serial" => q.at \in Positions
  BY <1>3, <1>4, <1>6, <1>9 DEF Positions
<1>13. RepliesFit'
  <2>1. replies \in Seq(Nat) /\ (\A k \in 1..Len(replies) : replies[k] = k) /\ Len(replies) = i - 1
    BY <1>1, <1>2 DEF RepliesFit
  <2>2. i \in Nat /\ Len(replies) \in Nat /\ i = Len(replies) + 1
    BY <1>4, <2>1
  <2>3. /\ replies' \in Seq(Nat) /\ Len(replies') = i
        /\ \A k \in 1..Len(replies') : replies'[k] = k
    BY <1>1, <2>1, <2>2, OneReply, Zenon
  <2>4. i = m - 1
    BY <1>4, <1>6
  <2> QED BY <1>8, <1>9, <2>3, <2>4 DEF RepliesFit
<1>14. tally' \in TallyRow /\ TallyFits'
  <2>1. tally \in TallyRow /\ stage'.pc # "ask"
    BY <1>2, <1>8, <1>9 DEF DispatchRows
  <2>2. CASE fates[i] = "rejected"
    <3>1. tally' = tally
      BY <2>2, Zenon DEF CallOver
    <3> QED BY <1>2, <2>1, <3>1 DEF TallyFits
  <2>3. CASE fates[i] # "rejected"
    <3>1. PICK b \in BOOLEAN : b = (fates[i] = "unknown")
      OBVIOUS
    <3>2. tally' = Counted(b)
      BY <2>3, <3>1, Zenon DEF CallOver
    <3> QED BY <1>2, <2>1, <3>2, CountedFits
  <2> QED BY <2>2, <2>3
<1>15. q.pc # "parallel"
  BY <1>9
<1> QED BY <1>1, <1>8, <1>9, <1>10, <1>11, <1>12, <1>13, <1>14, <1>15, LoopStep

LEMMA AnswerOverStep ==
  ASSUME DispatchInv, NEW b \in BOOLEAN, AnswerOver(b)
  PROVE  DispatchInv'
<1>1. /\ stage.pc = "batch" /\ stage.at > Len(answer.calls)
      /\ UNCHANGED <<answer, fates, passed, replies, tally, standing>>
  BY DEF AnswerOver
<1>2. AnswerFine /\ DispatchRows /\ LoopFits /\ RepliesFit /\ GuardsFit /\ TallyFits
  BY DEF DispatchInv
<1>3. PICK p : p = IF tally.unknown >= MaxUnknown THEN "failed" ELSE IF b THEN "over" ELSE "ask"
  OBVIOUS
<1>4. PICK q : q = [stage EXCEPT !.pc = p]
  OBVIOUS
<1>5. stage' = q
  BY <1>3, <1>4, Zenon DEF AnswerOver
<1>6. p \in {"failed", "over", "ask"} /\ (p = "ask" => tally.unknown < MaxUnknown)
  <2>1. tally.unknown \in Nat /\ MaxUnknown \in Nat
    BY <1>2, DispatchAssumption DEF DispatchRows, TallyRow
  <2> QED BY <1>3, <2>1
<1>7. stage \in StageRow /\ q \in StageRow /\ q.pc = p
  BY <1>2, <1>4, <1>6 DEF DispatchRows, StageRow, LoopPlaces
<1>8. stage.at = Len(answer.calls) + 1 /\ Len(answer.calls) \in Nat
  BY <1>1, <1>2, <1>7 DEF LoopFits, AnswerFine, StageRow
<1>9. \A j \in Positions : FateFits(q, j, fates[j], j \in BatchAt(q.at))
  <2> SUFFICES ASSUME NEW j \in Positions PROVE FateFits(q, j, fates[j], j \in BatchAt(q.at))
    OBVIOUS
  <2>1. j \in Nat /\ FateFits(stage, j, fates[j], j \in BatchAt(stage.at))
    BY CallTold
  <2>2. j < stage.at
    BY <1>8 DEF Positions
  <2>3. fates[j] \in EndFate
    BY <1>1, <2>1, <2>2 DEF FateFits
  <2> QED BY <1>6, <1>7, <2>3 DEF FateFits, EndFate
<1>10. RepliesFit'
  BY <1>1, <1>2, <1>5, <1>6, <1>7, <1>8 DEF RepliesFit
<1>11. tally' \in TallyRow /\ TallyFits'
  BY <1>1, <1>2, <1>5, <1>6, <1>7 DEF TallyFits, DispatchRows
<1>12. q.pc # "parallel" /\ q.pc # "batch" /\ q.pc # "serial"
  BY <1>6, <1>7
<1> QED BY <1>1, <1>5, <1>7, <1>9, <1>10, <1>11, <1>12, LoopStep

LEMMA BatchStep ==
  ASSUME DispatchInv, StartBatch, stage.at <= Len(answer.calls)
  PROVE  DispatchInv'
<1>1. stage.pc = "batch" /\ UNCHANGED <<answer, replies, tally, standing>>
  BY DEF StartBatch
<1>2. AnswerFine /\ DispatchRows /\ LoopFits /\ RepliesFit /\ GuardsFit /\ TallyFits
  BY DEF DispatchInv
<1>3. stage \in StageRow /\ stage.at \in Positions
  BY <1>1, <1>2 DEF DispatchRows, LoopFits, Positions, AnswerFine
<1>p. Positions' = Positions
  BY <1>1 DEF Positions
<1>a. AnswerFine'
  BY <1>1, <1>2, <1>p DEF AnswerFine
<1>b. \A j \in Positions : (j < stage.at => fates[j] \in EndFate) /\ (stage.at <= j => fates[j] = "due")
  BY <1>1, CallTold DEF FateFits
<1>4. CASE Cardinality(BatchAt(stage.at)) > 1 /\ CanExecuteBatchParallel(BatchAt(stage.at))
  <2> DEFINE B == BatchAt(stage.at)
  <2>1. PICK q : q = [stage EXCEPT !.pc = "parallel"]
    OBVIOUS
  <2>2. /\ fates' = [i \in Positions |-> IF i \in B THEN "started" ELSE fates[i]]
        /\ passed' = [i \in Positions |-> IF i \in B THEN {"standing"} ELSE passed[i]]
        /\ stage' = q
    BY <1>4, <2>1, Zenon DEF StartBatch
  <2>3. ~standing.hooks
    BY <1>4 DEF CanExecuteBatchParallel
  <2>4. q \in StageRow /\ q.pc = "parallel" /\ q.at = stage.at
    BY <1>3, <2>1 DEF StageRow, LoopPlaces
  <2>5. BatchAt(stage.at)' = B
    BY <1>1, <2>2, <2>4 DEF BatchAt, Positions
  <2> HIDE DEF B
  <2>6. PICK g \in SUBSET Guards3 : g = {"standing"}
    BY DEF Guards3
  <2>7. \A j \in Positions :
          fates'[j] = (IF j \in B THEN "started" ELSE fates[j]) /\ passed'[j] = (IF j \in B THEN g ELSE passed[j])
    BY <2>2, <2>6
  <2>8. fates' \in [Positions -> CallFates] /\ passed' \in [Positions -> SUBSET Guards3]
    <3>1. fates' \in [Positions -> CallFates]
      BY <1>2, <2>2 DEF DispatchRows, CallFates
    <3>2. passed' = [i \in Positions |-> IF i \in B THEN g ELSE passed[i]]
      BY <2>2, <2>6, Zenon
    <3>3. passed' \in [Positions -> SUBSET Guards3]
      BY <1>2, <3>2 DEF DispatchRows
    <3> QED BY <3>1, <3>3
  <2>9. DispatchRows'
    BY <1>1, <1>2, <1>p, <2>2, <2>4, <2>8 DEF DispatchRows
  <2>10. LoopFits'
    <3>1. \A j \in Positions : FateFits(q, j, fates'[j], j \in B)
      <4> SUFFICES ASSUME NEW j \in Positions PROVE FateFits(q, j, fates'[j], j \in B)
        OBVIOUS
      <4>1. j \in B => j >= stage.at
        BY DEF B, BatchAt
      <4>2. j \in Nat /\ stage.at \in Nat
        BY <1>3, CallTold DEF StageRow
      <4>3. CASE j \in B
        BY <2>4, <2>7, <4>1, <4>2, <4>3 DEF FateFits
      <4>4. CASE j \notin B
        BY <1>b, <2>4, <2>7, <4>2, <4>4 DEF FateFits
      <4> QED BY <4>3, <4>4
    <3>2. \A j \in Positions' : FateFits(stage', j, fates'[j], j \in BatchAt(stage.at)')
      BY <1>p, <2>2, <2>5, <3>1
    <3>3. /\ stage'.pc = "batch" => stage'.at \in 1..(Len(answer'.calls) + 1)
          /\ stage'.pc \in {"parallel", "serial"} => stage'.at \in Positions'
          /\ stage'.pc = "parallel" => ~standing'.hooks
      BY <1>1, <1>3, <1>p, <2>2, <2>3, <2>4
    <3> QED BY <3>2, <3>3, Zenon DEF LoopFits
  <2>11. RepliesFit' /\ TallyFits'
    BY <1>1, <1>2, <2>2, <2>4 DEF RepliesFit, TallyFits
  <2>12. GuardsFit'
    <3>1. \A j \in Positions : Guarded(standing.hooks, fates'[j], passed'[j])
      <4> SUFFICES ASSUME NEW j \in Positions PROVE Guarded(standing.hooks, fates'[j], passed'[j])
        OBVIOUS
      <4>1. CASE j \in B
        BY <2>3, <2>6, <2>7, <4>1 DEF Guarded
      <4>2. CASE j \notin B
        <5>1. fates'[j] = fates[j] /\ passed'[j] = passed[j]
          BY <2>7, <4>2
        <5> QED BY <1>2, <5>1, Zenon DEF GuardsFit
      <4> QED BY <4>1, <4>2
    <3> QED BY <1>1, <1>p, <3>1 DEF GuardsFit
  <2> QED BY <1>a, <2>9, <2>10, <2>11, <2>12 DEF DispatchInv
<1>5. CASE ~(Cardinality(BatchAt(stage.at)) > 1 /\ CanExecuteBatchParallel(BatchAt(stage.at)))
  <2>1. PICK q : q = [stage EXCEPT !.pc = "serial"]
    OBVIOUS
  <2>2. UNCHANGED <<fates, passed>> /\ stage' = q
    BY <1>5, <2>1, Zenon DEF StartBatch
  <2>4. q \in StageRow /\ q.pc = "serial" /\ q.at = stage.at
    BY <1>3, <2>1 DEF StageRow, LoopPlaces
  <2>5. \A j \in Positions : FateFits(q, j, fates[j], j \in BatchAt(q.at))
    <3> SUFFICES ASSUME NEW j \in Positions PROVE FateFits(q, j, fates[j], j \in BatchAt(q.at))
      OBVIOUS
    <3>1. j \in Nat /\ stage.at \in Nat
      BY <1>3, CallTold DEF StageRow
    <3> QED BY <1>b, <2>4, <3>1 DEF FateFits
  <2>6. RepliesFit' /\ TallyFits' /\ tally' \in TallyRow
    BY <1>1, <1>2, <2>2, <2>4 DEF RepliesFit, TallyFits, DispatchRows
  <2>7. q.pc # "parallel" /\ q.pc # "batch"
    BY <2>4
  <2> QED BY <1>1, <1>3, <2>2, <2>4, <2>5, <2>6, <2>7, LoopStep
<1> QED BY <1>4, <1>5

LEMMA BatchOverStep ==
  ASSUME DispatchInv, BatchOver
  PROVE  DispatchInv'
<1>1. /\ stage.pc = "parallel" /\ UNCHANGED <<answer, fates, passed, standing>> /\ tally' = Counted(FALSE)
      /\ \A i \in BatchAt(stage.at) : fates[i] \in {"done", "disabled"}
  BY DEF BatchOver
<1>2. AnswerFine /\ DispatchRows /\ LoopFits /\ RepliesFit /\ GuardsFit /\ TallyFits
  BY DEF DispatchInv
<1>3. stage \in StageRow /\ stage.at \in Positions
  BY <1>1, <1>2 DEF DispatchRows, LoopFits
<1>4. PICK i \in Positions : i = stage.at
  BY <1>3
<1>5. PICK e \in Nat : /\ i < e /\ e <= Len(answer.calls) + 1
                       /\ BatchAt(i) = i..(e - 1) /\ Cardinality(BatchAt(i)) = e - i
  BY <1>2, BatchInterval
<1>6. i \in Nat /\ i >= 1 /\ Len(answer.calls) \in Nat
  BY <1>2 DEF Positions, AnswerFine
<1>7. PICK c \in Nat : c = e - i
  BY <1>5, <1>6
<1>8. PICK q : q = [stage EXCEPT !.pc = "batch", !.at = e]
  OBVIOUS
<1>9. stage' = q
  <2>1. stage' = [stage EXCEPT !.pc = "batch", !.at = @ + Cardinality(BatchAt(stage.at))]
    BY DEF BatchOver
  <2>2. PICK x : x = stage.at + Cardinality(BatchAt(stage.at))
    OBVIOUS
  <2>3. x = i + (e - i)
    BY <1>4, <1>5, <2>2
  <2>4. x = e
    BY <1>6, <2>3
  <2> QED BY <1>8, <2>1, <2>2, <2>4, Zenon
<1>10. q \in StageRow /\ q.pc = "batch" /\ q.at = e
  BY <1>3, <1>8 DEF StageRow, LoopPlaces
<1>11. \A j \in Positions : FateFits(q, j, fates[j], j \in BatchAt(q.at))
  <2> SUFFICES ASSUME NEW j \in Positions PROVE FateFits(q, j, fates[j], j \in BatchAt(q.at))
    OBVIOUS
  <2>1. j \in Nat /\ FateFits(stage, j, fates[j], j \in BatchAt(stage.at))
    BY CallTold
  <2>2. j < i => fates[j] \in EndFate
    BY <1>1, <1>4, <2>1 DEF FateFits
  <2>3. j \in i..(e - 1) => fates[j] \in EndFate
    BY <1>1, <1>4, <1>5 DEF EndFate
  <2>4. e <= j => fates[j] = "due"
    <3> SUFFICES ASSUME e <= j PROVE fates[j] = "due"
      OBVIOUS
    <3>1. j \notin BatchAt(stage.at) /\ stage.at <= j
      BY <1>4, <1>5, <1>6, <2>1
    <3> QED BY <1>1, <2>1, <3>1 DEF FateFits
  <2>5. j < e => fates[j] \in EndFate
    BY <1>6, <2>1, <2>2, <2>3
  <2> QED BY <1>10, <2>4, <2>5 DEF FateFits
<1>12. RepliesFit'
  <2>1. replies \in Seq(Nat) /\ (\A k \in 1..Len(replies) : replies[k] = k) /\ Len(replies) = i - 1
    BY <1>1, <1>2, <1>4 DEF RepliesFit
  <2>2. PICK t : t = [k \in 1..c |-> i + k - 1]
    OBVIOUS
  <2>3. replies' = replies \o t
    <3>1. replies' = replies \o [k \in 1..Cardinality(BatchAt(stage.at)) |-> stage.at + k - 1]
      BY DEF BatchOver
    <3>2. c = Cardinality(BatchAt(stage.at))
      BY <1>4, <1>5, <1>7
    <3> QED BY <1>4, <2>2, <3>1, <3>2, Zenon
  <2>4. i = Len(replies) + 1 /\ Len(replies) \in Nat
    BY <1>6, <2>1
  <2>5. /\ replies' \in Seq(Nat) /\ Len(replies') = Len(replies) + c
        /\ \A k \in 1..Len(replies') : replies'[k] = k
    <3>1. RepliesTo(replies, i)
      BY <2>1, <2>4 DEF RepliesTo
    <3>2. RepliesTo(replies', i + c)
      BY <1>6, <2>2, <2>3, <3>1, MoreReplies, Zenon
    <3> QED BY <1>6, <2>4, <3>2 DEF RepliesTo
  <2>6. Len(replies') = e - 1
    BY <1>6, <1>7, <2>4, <2>5
  <2> QED BY <1>9, <1>10, <2>5, <2>6 DEF RepliesFit
<1>13. tally' \in TallyRow /\ TallyFits'
  <2>1. tally \in TallyRow /\ stage'.pc # "ask"
    BY <1>2, <1>9, <1>10 DEF DispatchRows
  <2> QED BY <1>1, <1>2, <2>1, CountedFits
<1>14. q.pc # "parallel" /\ q.pc # "serial" /\ q.at \in 1..(Len(answer.calls) + 1)
  BY <1>5, <1>6, <1>10
<1> QED BY <1>1, <1>9, <1>10, <1>11, <1>12, <1>13, <1>14, LoopStep

LEMMA BreakStep ==
  ASSUME DispatchInv, NEW i \in Positions, WaitBreaks(i)
  PROVE  DispatchInv'
<1>1. UNCHANGED <<answer, passed, replies, tally, standing>>
  BY DEF WaitBreaks
<1>2. AnswerFine /\ DispatchRows /\ LoopFits /\ RepliesFit /\ GuardsFit /\ TallyFits
  BY DEF DispatchInv
<1>p. Positions' = Positions
  BY <1>1 DEF Positions
<1>3. PICK q : q = [stage EXCEPT !.pc = "failed"]
  OBVIOUS
<1>4. stage' = q
  BY <1>3, Zenon DEF WaitBreaks
<1>5. q \in StageRow /\ q.pc = "failed"
  BY <1>2, <1>3 DEF DispatchRows, StageRow, LoopPlaces
<1>6. fates' = [j \in Positions |-> IF fates[j] \in {"started", "running"} THEN "stopped" ELSE fates[j]]
  BY DEF WaitBreaks
<1>7. fates' \in [Positions -> CallFates]
  BY <1>2, <1>6 DEF DispatchRows, CallFates
<1>8. AnswerFine' /\ DispatchRows'
  <2>1. AnswerFine'
    BY <1>1, <1>2, <1>p DEF AnswerFine
  <2>2. DispatchRows'
    BY <1>1, <1>2, <1>p, <1>4, <1>5, <1>7 DEF DispatchRows
  <2> QED BY <2>1, <2>2
<1>9. LoopFits'
  <2>1. \A j \in Positions : fates'[j] \notin {"started", "running"}
    BY <1>6
  <2>2. \A j \in Positions' : FateFits(stage', j, fates'[j], j \in BatchAt(stage.at)')
    BY <1>p, <1>4, <1>5, <2>1 DEF FateFits
  <2>3. /\ stage'.pc = "batch" => stage'.at \in 1..(Len(answer'.calls) + 1)
        /\ stage'.pc \in {"parallel", "serial"} => stage'.at \in Positions'
        /\ stage'.pc = "parallel" => ~standing'.hooks
    BY <1>4, <1>5
  <2> QED BY <2>2, <2>3, Zenon DEF LoopFits
<1>10. RepliesFit' /\ TallyFits'
  BY <1>1, <1>2, <1>4, <1>5 DEF RepliesFit, TallyFits
<1>11. GuardsFit'
  <2>1. \A j \in Positions : Guarded(standing.hooks, fates'[j], passed[j])
    BY <1>2, <1>6 DEF GuardsFit, Guarded
  <2> QED BY <1>1, <1>p, <2>1 DEF GuardsFit
<1> QED BY <1>8, <1>9, <1>10, <1>11 DEF DispatchInv

(* The answer as it is taken. *)
LEMMA ContinuedStep ==
  ASSUME DispatchInv, NEW calls, NEW cut \in BOOLEAN, Answered(calls, cut), Continued(cut)
  PROVE  DispatchInv'
<1>1. UNCHANGED <<answer, fates, passed, replies, standing>> /\ stage.pc = "ask"
      /\ cut /\ (~tally.escalated \/ tally.cuts < MaxRecoveries)
  BY DEF Answered, Continued
<1>2. AnswerFine /\ DispatchRows /\ LoopFits /\ RepliesFit /\ GuardsFit /\ TallyFits
  BY DEF DispatchInv
<1>3. PICK m \in Nat : m = stage.n + 1
  BY <1>2 DEF DispatchRows, StageRow
<1>4. PICK q : q = [stage EXCEPT !.n = m]
  OBVIOUS
<1>5. stage' = q
  BY <1>3, <1>4, Zenon DEF Answered
<1>6. q \in StageRow /\ q.pc = "ask" /\ q.at = stage.at
  BY <1>1, <1>2, <1>4 DEF DispatchRows, StageRow
<1>7. \A j \in Positions : FateFits(q, j, fates[j], j \in BatchAt(q.at))
  <2> SUFFICES ASSUME NEW j \in Positions PROVE FateFits(q, j, fates[j], j \in BatchAt(q.at))
    OBVIOUS
  <2>1. fates[j] \in EndFate
    BY <1>1, CallTold DEF FateFits
  <2> QED BY <1>6, <2>1 DEF FateFits
<1>8. RepliesFit'
  BY <1>1, <1>2, <1>5, <1>6 DEF RepliesFit
<1>9. tally' \in TallyRow /\ TallyFits'
  <2>1. tally \in TallyRow
    BY <1>2 DEF DispatchRows
  <2>2. PICK x \in Nat : x = tally.row + 1
    BY <2>1 DEF TallyRow
  <2>3. CASE tally.escalated
    <3>1. PICK y \in Nat : y = tally.cuts + 1
      BY <2>1 DEF TallyRow
    <3>2. tally' = [tally EXCEPT !.cuts = y, !.row = x]
      BY <2>2, <2>3, <3>1, Zenon DEF Answered
    <3>3. tally' \in TallyRow /\ tally'.cuts = y /\ tally'.row = x /\ tally'.unknown = tally.unknown
          /\ tally'.escalated = tally.escalated
      BY <2>1, <3>2 DEF TallyRow
    <3>4. y <= MaxRecoveries /\ x <= y + 1
      <4>1. tally.cuts \in Nat /\ tally.row \in Nat /\ MaxRecoveries \in Nat
        BY <2>1, DispatchAssumption DEF TallyRow
      <4> QED BY <1>1, <1>2, <2>2, <2>3, <3>1, <4>1 DEF TallyFits
    <3> QED BY <1>1, <1>2, <2>3, <3>3, <3>4 DEF TallyFits
  <2>4. CASE ~tally.escalated
    <3>2. tally' = [tally EXCEPT !.escalated = TRUE, !.row = x]
      BY <2>2, <2>4, Zenon DEF Answered
    <3>3. tally' \in TallyRow /\ tally'.cuts = tally.cuts /\ tally'.row = x /\ tally'.unknown = tally.unknown
          /\ tally'.escalated = TRUE
      BY <2>1, <3>2 DEF TallyRow
    <3>4. x <= tally.cuts + 1
      BY <1>2, <2>1, <2>2, <2>4 DEF TallyFits, TallyRow
    <3> QED BY <1>1, <1>2, <3>3, <3>4 DEF TallyFits
  <2> QED BY <2>3, <2>4
<1>10. q.pc # "parallel" /\ q.pc # "serial" /\ q.pc # "batch"
  BY <1>6
<1> QED BY <1>1, <1>5, <1>6, <1>7, <1>8, <1>9, <1>10, LoopStep

LEMMA TakenStep ==
  ASSUME DispatchInv, NEW k \in Nat, NEW calls \in [1..k -> ToolNames], NEW cut \in BOOLEAN,
         Answered(calls, cut), ~Continued(cut)
  PROVE  DispatchInv'
<1>1. /\ stage.pc = "ask" /\ answer' = [calls |-> calls, starts |-> Starts(calls)]
      /\ fates' = [i \in 1..Len(calls) |-> "due"] /\ passed' = [i \in 1..Len(calls) |-> {}]
      /\ replies' = <<>> /\ standing' = standing
  BY DEF Answered
<1>2. AnswerFine /\ DispatchRows /\ LoopFits /\ RepliesFit /\ GuardsFit /\ TallyFits
  BY DEF DispatchInv
<1>3. calls \in Seq(ToolNames) /\ Len(calls) = k
  OBVIOUS
<1>4. PICK D : D = Starts(calls)
  OBVIOUS
<1>5. answer'.calls = calls /\ answer'.starts = D
  BY <1>1, <1>4
<1>p. Positions' = 1..k
  BY <1>3, <1>5 DEF Positions
<1>6. AnswerFine'
  <2>1. D \subseteq 1..k
    BY <1>3, <1>4 DEF Starts
  <2>2. ASSUME NEW i \in 1..k, i \notin D
        PROVE  i > 1 /\ calls[i] \in SafeNames /\ calls[i - 1] \in SafeNames
    BY <1>3, <1>4, <2>2 DEF Starts, Joins, IsSafe
  <2> QED BY <1>3, <1>5, <1>p, <2>1, <2>2 DEF AnswerFine
<1>7. PICK m \in Nat : m = stage.n + 1
  BY <1>2 DEF DispatchRows, StageRow
<1>8. PICK p : p = IF calls = <<>> THEN "over" ELSE "batch"
  OBVIOUS
<1>9. PICK q : q = [pc |-> p, at |-> 1, n |-> m]
  OBVIOUS
<1>10. stage' = q
  BY <1>7, <1>8, <1>9, Zenon DEF Answered
<1>11. q \in StageRow /\ q.pc = p /\ q.at = 1 /\ p \in {"over", "batch"}
  BY <1>8, <1>9 DEF StageRow, LoopPlaces
<1>12. \A j \in 1..k : fates'[j] = "due" /\ passed'[j] = {}
  BY <1>1, <1>3
<1>13. tally' \in TallyRow /\ TallyFits'
  <2>1. tally \in TallyRow
    BY <1>2 DEF DispatchRows
  <2>2. PICK y \in {0, tally.cuts} : y = IF cut THEN tally.cuts ELSE 0
    OBVIOUS
  <2>3. tally' = [tally EXCEPT !.cuts = y, !.row = 0]
    <3>1. tally' = [tally EXCEPT !.cuts = IF cut THEN @ ELSE 0, !.row = 0]
      BY Zenon DEF Answered
    <3> QED BY <2>2, <3>1, Zenon
  <2>4. tally' \in TallyRow /\ tally'.cuts = y /\ tally'.row = 0 /\ tally'.unknown = tally.unknown
        /\ tally'.escalated = tally.escalated /\ y \in Nat
    BY <2>1, <2>2, <2>3 DEF TallyRow
  <2>5. y <= MaxRecoveries
    BY <1>2, <2>1, <2>2, DispatchAssumption DEF TallyFits, TallyRow
  <2> QED BY <1>10, <1>11, <2>4, <2>5 DEF TallyFits
<1>14. DispatchRows'
  <2>1. fates' \in [1..k -> CallFates] /\ passed' \in [1..k -> SUBSET Guards3]
    BY <1>1, <1>3 DEF CallFates
  <2> QED BY <1>1, <1>2, <1>p, <1>10, <1>11, <1>13, <2>1 DEF DispatchRows
<1>15. LoopFits'
  <2>1. \A j \in 1..k : \A b : FateFits(q, j, fates'[j], b)
    BY <1>11, <1>12 DEF FateFits
  <2>2. \A j \in Positions' : FateFits(stage', j, fates'[j], j \in BatchAt(stage.at)')
    BY <1>p, <1>10, <2>1, Zenon
  <2>3. /\ stage'.pc = "batch" => stage'.at \in 1..(Len(answer'.calls) + 1)
        /\ stage'.pc \in {"parallel", "serial"} => stage'.at \in Positions'
        /\ stage'.pc = "parallel" => ~standing'.hooks
    BY <1>3, <1>5, <1>10, <1>11
  <2> QED BY <2>2, <2>3, Zenon DEF LoopFits
<1>16. RepliesFit'
  BY <1>1, <1>10, <1>11 DEF RepliesFit
<1>17. GuardsFit'
  BY <1>p, <1>12 DEF GuardsFit, Guarded
<1> QED BY <1>6, <1>13, <1>14, <1>15, <1>16, <1>17 DEF DispatchInv

LEMMA ShiftStep ==
  ASSUME DispatchInv, PolicyShifts
  PROVE  DispatchInv'
<1>1. UNCHANGED <<answer, stage, fates, passed, replies, tally>>
  BY DEF PolicyShifts
<1>2. AnswerFine /\ DispatchRows /\ LoopFits /\ RepliesFit /\ GuardsFit /\ TallyFits
  BY DEF DispatchInv
<1>3. PICK w \in StandingRow : w = standing
  BY <1>2 DEF DispatchRows
<1>4. PICK m \in Nat : m = w.n + 1
  BY DEF StandingRow
<1>5. standing' \in StandingRow /\ standing'.hooks = standing.hooks
  <2>1. ASSUME NEW t \in ToolNames, NEW e \in Effects3,
               standing' = [standing EXCEPT !.says[t] = e, !.n = @ + 1]
        PROVE  standing' \in StandingRow /\ standing'.hooks = standing.hooks
    <3>1. PICK f \in [ToolNames -> Effects3] : f = [w.says EXCEPT ![t] = e]
      BY DEF StandingRow
    <3>2. standing' = [w EXCEPT !.says = f, !.n = m]
      BY <1>3, <1>4, <2>1, <3>1, Zenon
    <3> QED BY <1>3, <3>2 DEF StandingRow
  <2>2. ASSUME NEW t \in ToolNames, standing' = [standing EXCEPT !.on[t] = ~@, !.n = @ + 1]
        PROVE  standing' \in StandingRow /\ standing'.hooks = standing.hooks
    <3>1. PICK b \in BOOLEAN : b = ~w.on[t]
      OBVIOUS
    <3>2. PICK f \in [ToolNames -> BOOLEAN] : f = [w.on EXCEPT ![t] = b]
      BY DEF StandingRow
    <3>3. standing' = [w EXCEPT !.on = f, !.n = m]
      BY <1>3, <1>4, <2>2, <3>1, <3>2, Zenon
    <3> QED BY <1>3, <3>3 DEF StandingRow
  <2> QED BY <2>1, <2>2, Zenon DEF PolicyShifts
<1>6. Positions' = Positions /\ BatchAt(stage.at)' = BatchAt(stage.at)
  BY <1>1 DEF Positions, BatchAt
<1>7. AnswerFine' /\ DispatchRows'
  <2>1. AnswerFine'
    BY <1>1, <1>2, <1>6 DEF AnswerFine
  <2>2. DispatchRows'
    BY <1>1, <1>2, <1>5, <1>6 DEF DispatchRows
  <2> QED BY <2>1, <2>2
<1>8. LoopFits'
  BY <1>1, <1>2, <1>5, <1>6, Zenon DEF LoopFits
<1>9. RepliesFit' /\ TallyFits'
  BY <1>1, <1>2 DEF RepliesFit, TallyFits
<1>10. GuardsFit'
  BY <1>1, <1>2, <1>5, <1>6, Zenon DEF GuardsFit
<1> QED BY <1>7, <1>8, <1>9, <1>10 DEF DispatchInv

LEMMA DispatchInvInit == DispatchInit => DispatchInv
<1> SUFFICES ASSUME DispatchInit PROVE DispatchInv
  OBVIOUS
<1>e. <<>> \in Seq(ToolNames) /\ Len(<<>>) = 0
  OBVIOUS
<1>1. answer = [calls |-> <<>>, starts |-> {}] /\ fates = <<>> /\ passed = <<>> /\ replies = <<>>
  BY DEF DispatchInit
<1>2. answer.calls = <<>> /\ answer.starts = {}
  BY <1>1
<1>3. Len(answer.calls) = 0 /\ Positions = {}
  BY <1>2, <1>e DEF Positions
<1>4. stage = [pc |-> "ask", at |-> 0, n |-> 0]
  BY DEF DispatchInit
<1>5. stage \in StageRow /\ stage.pc = "ask"
  BY <1>4 DEF StageRow, LoopPlaces
<1>6. tally \in TallyRow /\ tally.unknown = 0 /\ tally.cuts = 0 /\ tally.row = 0 /\ ~tally.escalated
  <2>1. tally = [unknown |-> 0, cuts |-> 0, row |-> 0, escalated |-> FALSE]
    BY DEF DispatchInit
  <2> QED BY <2>1 DEF TallyRow
<1>7. standing \in StandingRow
  <2>1. PICK h \in BOOLEAN : standing = [hooks |-> h, on |-> [t \in ToolNames |-> TRUE],
                                        says |-> [t \in ToolNames |-> "allow"], n |-> 0]
    BY Zenon DEF DispatchInit
  <2>2. PICK f \in [ToolNames -> BOOLEAN] : f = [t \in ToolNames |-> TRUE]
    OBVIOUS
  <2>3. PICK g \in [ToolNames -> Effects3] : g = [t \in ToolNames |-> "allow"]
    BY DEF Effects3
  <2>4. standing = [hooks |-> h, on |-> f, says |-> g, n |-> 0]
    BY <2>1, <2>2, <2>3, Zenon
  <2> QED BY <2>4 DEF StandingRow
<1>8. AnswerFine
  BY <1>e, <1>2, <1>3 DEF AnswerFine
<1>9. DispatchRows
  <2>1. fates \in [Positions -> CallFates] /\ passed \in [Positions -> SUBSET Guards3]
    BY <1>1, <1>3
  <2> QED BY <1>5, <1>6, <1>7, <2>1 DEF DispatchRows
<1>10. LoopFits
  BY <1>3, <1>5 DEF LoopFits
<1>11. RepliesFit
  BY <1>1, <1>3, <1>5 DEF RepliesFit
<1>12. GuardsFit
  BY <1>3 DEF GuardsFit
<1>13. TallyFits
  BY <1>6, DispatchAssumption DEF TallyFits
<1> QED BY <1>8, <1>9, <1>10, <1>11, <1>12, <1>13 DEF DispatchInv

LEMMA DispatchStutter ==
  ASSUME DispatchInv, UNCHANGED dispatchVars
  PROVE  DispatchInv'
<1>1. UNCHANGED <<answer, stage, fates, passed, replies, tally, standing>>
  BY DEF dispatchVars
<1>2. Positions' = Positions /\ BatchAt(stage.at)' = BatchAt(stage.at)
  BY <1>1 DEF Positions, BatchAt
<1>3. AnswerFine' /\ DispatchRows'
  <2>1. AnswerFine'
    BY <1>1, <1>2 DEF DispatchInv, AnswerFine
  <2>2. DispatchRows'
    BY <1>1, <1>2 DEF DispatchInv, DispatchRows
  <2> QED BY <2>1, <2>2
<1>4. LoopFits'
  BY <1>1, <1>2, Zenon DEF DispatchInv, LoopFits
<1>5. RepliesFit' /\ TallyFits'
  BY <1>1 DEF DispatchInv, RepliesFit, TallyFits
<1>6. GuardsFit'
  BY <1>1, <1>2, Zenon DEF DispatchInv, GuardsFit
<1> QED BY <1>3, <1>4, <1>5, <1>6 DEF DispatchInv

LEMMA DispatchInvNext == DispatchInv /\ [DispatchNext]_dispatchVars => DispatchInv'
<1> SUFFICES ASSUME DispatchInv, [DispatchNext]_dispatchVars PROVE DispatchInv'
  OBVIOUS
<1>1. CASE LoopMoves
  <2>1. CASE StartBatch /\ stage.at <= Len(answer.calls)
    BY <2>1, BatchStep
  <2>2. CASE BatchOver
    BY <2>2, BatchOverStep
  <2>3. ASSUME NEW b \in BOOLEAN, AnswerOver(b) PROVE DispatchInv'
    BY <2>3, AnswerOverStep
  <2> QED BY <1>1, <2>1, <2>2, <2>3, Zenon DEF LoopMoves
<1>2. ASSUME NEW i \in Positions, CallMoves(i) PROVE DispatchInv'
  <2>1. CASE DirectStarts(i)
    BY <2>1, DirectStep
  <2>2. CASE ToolEnds(i)
    BY <2>2, ToolEndsStep
  <2>3. CASE LookUp(i)
    BY <2>3, LookUpStep
  <2>4. CASE WaitBreaks(i)
    BY <2>4, BreakStep
  <2>5. CASE CallOver(i)
    BY <2>5, CallOverStep
  <2>6. ASSUME NEW b \in BOOLEAN, BeforeHooks(i, b) PROVE DispatchInv'
    BY <2>6, HooksStep
  <2>7. ASSUME NEW b \in BOOLEAN, UserAnswers(i, b) PROVE DispatchInv'
    BY <2>7, UserStep
  <2> QED BY <1>2, <2>1, <2>2, <2>3, <2>4, <2>5, <2>6, <2>7, Zenon DEF CallMoves
<1>3. CASE Answers
  <2>1. PICK k \in 0..MaxBatch : \E calls \in [1..k -> ToolNames], cut \in BOOLEAN : Answered(calls, cut)
    BY <1>3, Zenon DEF Answers
  <2>2. PICK calls \in [1..k -> ToolNames], cut \in BOOLEAN : Answered(calls, cut)
    BY <2>1, Zenon
  <2>3. k \in Nat
    BY <2>1
  <2>4. CASE Continued(cut)
    BY <2>2, <2>4, ContinuedStep
  <2>5. CASE ~Continued(cut)
    BY <2>2, <2>3, <2>5, TakenStep
  <2> QED BY <2>4, <2>5
<1>4. CASE PolicyShifts
  BY <1>4, ShiftStep
<1>5. CASE UNCHANGED dispatchVars
  BY <1>5, DispatchStutter
<1> QED BY <1>1, <1>2, <1>3, <1>4, <1>5, Zenon DEF DispatchNext, Dispatches

LEMMA DispatchInvGives ==
  DispatchInv => DispatchTypeOK /\ AnswersInOrder /\ NoGuardBypassed /\ NoEndlessRepair
<1> SUFFICES ASSUME DispatchInv
             PROVE DispatchTypeOK /\ AnswersInOrder /\ NoGuardBypassed /\ NoEndlessRepair
  OBVIOUS
<1>1. AnswerFine /\ DispatchRows /\ LoopFits /\ RepliesFit /\ GuardsFit /\ TallyFits
  BY DEF DispatchInv
<1>2. DispatchTypeOK
  <2>1. tally.cuts \in 0..MaxRecoveries /\ tally.escalated \in BOOLEAN
    BY <1>1, DispatchAssumption DEF DispatchRows, TallyRow, TallyFits
  <2>2. standing.on \in [ToolNames -> BOOLEAN] /\ standing.says \in [ToolNames -> Effects3]
    BY <1>1 DEF DispatchRows, StandingRow
  <2>3. DOMAIN fates = Positions /\ DOMAIN passed = Positions
        /\ \A i \in Positions : passed[i] \subseteq {"hooks", "standing", "user"}
    BY <1>1 DEF DispatchRows, Guards3
  <2>4. stage.pc \in {"ask", "batch", "parallel", "serial", "over", "failed"}
    BY <1>1 DEF DispatchRows, StageRow, LoopPlaces
  <2> QED BY <1>1, <2>1, <2>2, <2>3, <2>4 DEF DispatchTypeOK, AnswerFine
<1>3. ASSUME NEW i \in Positions, NEW j \in Positions, i # j, fates[i] = "running", fates[j] = "running"
      PROVE  {answer.calls[i], answer.calls[j]} \subseteq SafeNames
  <2>0. stage \in StageRow /\ i \in Nat /\ j \in Nat
    BY CallTold
  <2>1. FateFits(stage, i, "running", i \in BatchAt(stage.at))
        /\ FateFits(stage, j, "running", j \in BatchAt(stage.at))
    BY <1>3, CallTold
  <2>2. stage.pc = "parallel"
    <3>1. stage.at \in Nat /\ stage.pc \in LoopPlaces
      BY <2>0 DEF StageRow
    <3>2. ASSUME stage.pc = "serial" PROVE FALSE
      <4>1. i = stage.at /\ j = stage.at
        BY <2>0, <2>1, <3>1, <3>2 DEF FateFits, EndFate
      <4> QED BY <1>3, <4>1
    <3>3. ASSUME stage.pc = "batch" PROVE FALSE
      BY <2>0, <2>1, <3>1, <3>3 DEF FateFits, EndFate
    <3> QED BY <2>1, <3>1, <3>2, <3>3 DEF FateFits, EndFate, LoopPlaces
  <2>3. i \in BatchAt(stage.at) /\ j \in BatchAt(stage.at) /\ stage.at \in Positions
    <3>1. stage.at \in Nat
      BY <2>0 DEF StageRow
    <3> QED BY <1>1, <2>0, <2>1, <2>2, <3>1 DEF FateFits, EndFate, LoopFits
  <2>4. answer.calls[i] \in SafeNames /\ answer.calls[j] \in SafeNames
    BY <1>1, <1>3, <2>3, BatchSafe
  <2> QED BY <2>4
<1>4. stage.pc = "ask" => replies = [i \in Positions |-> i]
  <2> SUFFICES ASSUME stage.pc = "ask" PROVE replies = [i \in Positions |-> i]
    OBVIOUS
  <2>1. replies \in Seq(Nat) /\ Len(replies) = Len(answer.calls) /\ \A k \in 1..Len(replies) : replies[k] = k
    BY <1>1 DEF RepliesFit
  <2>2. replies = [k \in 1..Len(replies) |-> replies[k]]
    BY <2>1
  <2>3. Positions = 1..Len(replies)
    BY <2>1 DEF Positions
  <2> QED BY <2>1, <2>2, <2>3
<1>5. AnswersInOrder
  BY <1>1, <1>3, <1>4, Zenon DEF AnswersInOrder, RepliesFit
<1>6. NoGuardBypassed
  <2> SUFFICES ASSUME NEW i \in Positions, fates[i] \in {"running", "done", "stopped"}
               PROVE  /\ standing.hooks => "hooks" \in passed[i]
                      /\ passed[i] \cap {"standing", "user"} # {}
    BY DEF NoGuardBypassed
  <2>1. (standing.hooks => "hooks" \in passed[i]) /\ ("standing" \in passed[i] \/ "user" \in passed[i])
    BY CallTold DEF Guarded
  <2> QED BY <2>1
<1>7. NoEndlessRepair
  <2>1. tally.row \in Nat /\ tally.cuts \in Nat /\ MaxRecoveries \in Nat
    BY <1>1, DispatchAssumption DEF DispatchRows, TallyRow
  <2>2. tally.row <= 1 + MaxRecoveries
    BY <1>1, <2>1 DEF TallyFits
  <2> QED BY <1>1, <2>2 DEF NoEndlessRepair, TallyFits
<1> QED BY <1>2, <1>5, <1>6, <1>7

-----------------------------------------------------------------------------
(* Sums over finite sets.  MapThenSumSet takes the elements one after another;  *)
(* what holds of the empty set, and of a set when it holds of what is left      *)
(* after its first element, holds of every finite set.                          *)
FirstOf(s) == CHOOSE x \in s : TRUE
RestOf(s) == s \ {FirstOf(s)}

LEMMA FirstAndRest ==
  ASSUME NEW s, s # {}, IsFiniteSet(s)
  PROVE  /\ FirstOf(s) \in s /\ RestOf(s) \subseteq s /\ IsFiniteSet(RestOf(s))
         /\ Cardinality(s) \in Nat /\ Cardinality(RestOf(s)) \in Nat
         /\ Cardinality(s) = Cardinality(RestOf(s)) + 1
<1>1. PICK c : c = FirstOf(s)
  OBVIOUS
<1>2. c \in s
  BY <1>1, Zenon DEF FirstOf
<1>3. Cardinality(s) \in Nat
  BY FS_CardinalityType
<1>4. IsFiniteSet(s \ {c}) /\ Cardinality(s \ {c}) = Cardinality(s) - 1
  BY <1>2, FS_RemoveElement, Zenon
<1>5. Cardinality(s \ {c}) \in Nat
  BY <1>4, FS_CardinalityType
<1>6. RestOf(s) = s \ {c}
  BY <1>1, Zenon DEF RestOf
<1>7. Cardinality(s) = Cardinality(s \ {c}) + 1
  BY <1>3, <1>4, SMT
<1> QED BY <1>1, <1>2, <1>3, <1>4, <1>5, <1>6, <1>7, Zenon

LEMMA OnSubsets ==
  ASSUME NEW S, IsFiniteSet(S), NEW P,
         {} \in P, \A s \in SUBSET S : s # {} /\ RestOf(s) \in P => s \in P
  PROVE  SUBSET S \subseteq P
<1> DEFINE Bad == {n \in Nat : \E s \in SUBSET S : s \notin P /\ Cardinality(s) = n}
<1>1. ASSUME Bad # {} PROVE FALSE
  <2>1. Bad \in SUBSET Nat
    OBVIOUS
  <2>2. PICK n \in Bad : \A m \in Bad : n <= m
    <3> HIDE DEF Bad
    <3> QED BY <1>1, <2>1, LeastNumber, Zenon
  <2>3. PICK s \in SUBSET S : s \notin P /\ Cardinality(s) = n
    BY <2>2
  <2>4. s # {} /\ IsFiniteSet(s)
    <3>1. s # {}
      BY <2>3, Zenon
    <3> QED BY <3>1, FS_Subset, Zenon
  <2>5. /\ RestOf(s) \subseteq s /\ Cardinality(RestOf(s)) \in Nat
        /\ Cardinality(s) = Cardinality(RestOf(s)) + 1
    BY <2>4, FirstAndRest, Zenon
  <2>6. RestOf(s) \notin P
    BY <2>3, <2>4, Zenon
  <2>7. Cardinality(RestOf(s)) \in Bad
    BY <2>5, <2>6, Zenon
  <2>8. n <= Cardinality(RestOf(s))
    BY <2>2, <2>7
  <2> QED BY <2>3, <2>5, <2>8, SMT
<1> SUFFICES ASSUME NEW s \in SUBSET S, s \notin P PROVE FALSE
  OBVIOUS
<1>2. Cardinality(s) \in Nat
  BY FS_Subset, FS_CardinalityType, Zenon
<1>3. Cardinality(s) \in Bad
  BY <1>2, Zenon
<1> QED BY <1>1, <1>3, Zenon

AddsUp(f, g, s) == IF s = {} THEN 0 ELSE f[FirstOf(s)] + g[RestOf(s)]
SumsUp(f, S, g) == g = [s \in SUBSET S |-> AddsUp(f, g, s)]

LEMMA WeightSums ==
  ASSUME NEW f, NEW S, NEW h, SumsUp(f, S, h)
  PROVE  \E g : SumsUp(f, S, g) /\ Weight(f, S) = g[S]
<1>1. Weight(f, S) = (CHOOSE g : SumsUp(f, S, g))[S]
  BY DEF Weight, MapThenSumSet, MapThenFoldSet, SumsUp, AddsUp, FirstOf, RestOf
<1> QED BY <1>1, Zenon

\* There is such a sum.
Small(S, n) == {s \in SUBSET S : Cardinality(s) <= n}
SumsTo(f, S, n, h) == h \in [Small(S, n) -> Nat] /\ \A s \in Small(S, n) : h[s] = AddsUp(f, h, s)

LEMMA Predecessor ==
  ASSUME NEW n \in Nat, n # 0
  PROVE  \E k \in Nat : n = k + 1
<1> WITNESS n - 1 \in Nat
<1> QED OBVIOUS

LEMMA SumExists ==
  ASSUME NEW S, IsFiniteSet(S), NEW f, \A x \in S : f[x] \in Nat
  PROVE  \E h : SumsUp(f, S, h)
<1> DEFINE Bad == {n \in Nat : ~\E h : SumsTo(f, S, n, h)}
<1>1. \A s \in SUBSET S : IsFiniteSet(s) /\ Cardinality(s) \in Nat
  BY FS_Subset, FS_CardinalityType, Zenon
<1>2. ASSUME Bad # {} PROVE FALSE
  <2>1. Bad \in SUBSET Nat
    OBVIOUS
  <2>2. PICK n \in Bad : \A m \in Bad : n <= m
    <3> HIDE DEF Bad
    <3> QED BY <1>2, <2>1, LeastNumber, Zenon
  <2>3. n \in Nat /\ ~\E h : SumsTo(f, S, n, h)
    BY <2>2
  <2>4. CASE n = 0
    <3>1. \A s \in Small(S, 0) : s = {}
      <4> SUFFICES ASSUME NEW s \in Small(S, 0), s # {} PROVE FALSE
        OBVIOUS
      <4>1. s \in SUBSET S /\ Cardinality(s) <= 0
        BY DEF Small
      <4>2. Cardinality(RestOf(s)) \in Nat /\ Cardinality(s) = Cardinality(RestOf(s)) + 1
        BY <1>1, <4>1, FirstAndRest, Zenon
      <4> QED BY <4>1, <4>2, SMT
    <3>2. PICK h : h = [s \in Small(S, 0) |-> 0]
      OBVIOUS
    <3>3. SumsTo(f, S, 0, h)
      BY <3>1, <3>2 DEF SumsTo, AddsUp
    <3> QED BY <2>3, <2>4, <3>3, Zenon
  <2>5. CASE n # 0
    <3>1. PICK k \in Nat : n = k + 1
      BY <2>3, <2>5, Predecessor, Zenon
    <3>2. k \notin Bad
      BY <2>2, <2>3, <3>1, SMT
    <3>3. PICK h : SumsTo(f, S, k, h)
      BY <3>2
    <3>4. PICK g : g = [s \in Small(S, n) |-> AddsUp(f, h, s)]
      OBVIOUS
    <3>5. ASSUME NEW s \in Small(S, n), s # {} PROVE RestOf(s) \in Small(S, k) /\ FirstOf(s) \in S
      <4>1. s \in SUBSET S /\ Cardinality(s) <= n
        BY DEF Small
      <4>2. /\ FirstOf(s) \in s /\ RestOf(s) \subseteq s
            /\ Cardinality(s) \in Nat /\ Cardinality(RestOf(s)) \in Nat
            /\ Cardinality(s) = Cardinality(RestOf(s)) + 1
        BY <1>1, <3>5, <4>1, FirstAndRest, Zenon
      <4>3. Cardinality(RestOf(s)) <= k
        BY <3>1, <4>1, <4>2, SMT
      <4>4. RestOf(s) \in SUBSET S
        BY <4>1, <4>2, Zenon
      <4>5. RestOf(s) \in Small(S, k)
        BY <4>3, <4>4, Zenon DEF Small
      <4> QED BY <4>1, <4>2, <4>5, Zenon
    <3>6. ASSUME NEW s \in Small(S, n) PROVE AddsUp(f, h, s) \in Nat
      <4>1. CASE s = {}
        BY <4>1 DEF AddsUp
      <4>2. CASE s # {}
        <5>1. h[RestOf(s)] \in Nat /\ f[FirstOf(s)] \in Nat
          BY <3>3, <3>5, <4>2, Zenon DEF SumsTo
        <5> QED BY <4>2, <5>1 DEF AddsUp
      <4> QED BY <4>1, <4>2
    <3>7. Small(S, k) \subseteq Small(S, n)
      BY <1>1, <3>1, SMT DEF Small
    <3>8. ASSUME NEW s \in Small(S, k) PROVE g[s] = h[s]
      <4>1. g[s] = AddsUp(f, h, s)
        BY <3>4, <3>7, Zenon
      <4> QED BY <3>3, <4>1, Zenon DEF SumsTo
    <3>9. ASSUME NEW s \in Small(S, n) PROVE g[s] = AddsUp(f, g, s)
      <4>1. g[s] = AddsUp(f, h, s)
        BY <3>4, Zenon
      <4>2. CASE s = {}
        BY <4>1, <4>2, Zenon DEF AddsUp
      <4>3. CASE s # {}
        <5>1. g[RestOf(s)] = h[RestOf(s)]
          BY <3>5, <3>8, <4>3, Zenon
        <5> QED BY <4>1, <4>3, <5>1, Zenon DEF AddsUp
      <4> QED BY <4>2, <4>3
    <3>10. g \in [Small(S, n) -> Nat]
      BY <3>4, <3>6, Zenon
    <3>11. SumsTo(f, S, n, g)
      BY <3>9, <3>10, Zenon DEF SumsTo
    <3> QED BY <2>3, <3>11, Zenon
  <2> QED BY <2>4, <2>5
<1>3. PICK h : SumsTo(f, S, Cardinality(S), h)
  <2>1. Cardinality(S) \in Nat
    BY FS_CardinalityType
  <2> QED BY <1>2, <2>1, Zenon
<1>4. Small(S, Cardinality(S)) = SUBSET S
  <2>1. \A s \in SUBSET S : Cardinality(s) <= Cardinality(S)
    BY FS_Subset, Zenon
  <2> QED BY <2>1, Zenon DEF Small
<1>5. h = [s \in SUBSET S |-> AddsUp(f, h, s)]
  <2>1. h \in [SUBSET S -> Nat] /\ \A s \in SUBSET S : h[s] = AddsUp(f, h, s)
    BY <1>3, <1>4, Zenon DEF SumsTo
  <2> QED BY <2>1, Zenon
<1> QED BY <1>5, Zenon DEF SumsUp

LEMMA WeightOf ==
  ASSUME NEW S, IsFiniteSet(S), NEW f, \A x \in S : f[x] \in Nat
  PROVE  \E h : /\ \A s \in SUBSET S : h[s] = AddsUp(f, h, s)
               /\ \A s \in SUBSET S : h[s] \in Nat
               /\ Weight(f, S) = h[S]
<1>1. PICK h : SumsUp(f, S, h) /\ Weight(f, S) = h[S]
  BY SumExists, WeightSums, Zenon
<1>2. \A s \in SUBSET S : h[s] = AddsUp(f, h, s)
  BY <1>1, Zenon DEF SumsUp
<1> DEFINE P == {s \in SUBSET S : h[s] \in Nat}
<1>3. {} \in P
  BY <1>2 DEF AddsUp
<1>4. ASSUME NEW s \in SUBSET S, s # {}, RestOf(s) \in P PROVE s \in P
  <2>1. IsFiniteSet(s)
    BY FS_Subset, Zenon
  <2>2. FirstOf(s) \in S
    BY <1>4, <2>1, FirstAndRest, Zenon
  <2>3. h[s] = f[FirstOf(s)] + h[RestOf(s)]
    BY <1>2, <1>4, Zenon DEF AddsUp
  <2>4. f[FirstOf(s)] \in Nat /\ h[RestOf(s)] \in Nat
    BY <1>4, <2>2, Zenon
  <2> QED BY <2>3, <2>4, SMT
<1>5. SUBSET S \subseteq P
  <2> HIDE DEF P
  <2> QED BY <1>3, <1>4, OnSubsets, Zenon
<1>6. \A s \in SUBSET S : h[s] \in Nat
  BY <1>5, Zenon
<1> QED BY <1>1, <1>2, <1>6, Zenon

(* A sum of smaller numbers is smaller, and one of ones is at most the size. *)
LEMMA WeightOrdered ==
  ASSUME NEW S, IsFiniteSet(S), NEW f, NEW g, \A x \in S : f[x] \in Nat /\ g[x] \in Nat /\ f[x] <= g[x]
  PROVE  Weight(f, S) \in Nat /\ Weight(g, S) \in Nat /\ Weight(f, S) <= Weight(g, S)
<1>1. PICK h : /\ \A s \in SUBSET S : h[s] = AddsUp(f, h, s)
               /\ \A s \in SUBSET S : h[s] \in Nat
               /\ Weight(f, S) = h[S]
  BY WeightOf, Zenon
<1>2. PICK k : /\ \A s \in SUBSET S : k[s] = AddsUp(g, k, s)
               /\ \A s \in SUBSET S : k[s] \in Nat
               /\ Weight(g, S) = k[S]
  BY WeightOf, Zenon
<1> DEFINE P == {s \in SUBSET S : h[s] <= k[s]}
<1>3. {} \in P
  BY <1>1, <1>2 DEF AddsUp
<1>4. ASSUME NEW s \in SUBSET S, s # {}, RestOf(s) \in P PROVE s \in P
  <2>1. FirstOf(s) \in S
    BY <1>4, FS_Subset, FirstAndRest, Zenon
  <2>2. h[s] = f[FirstOf(s)] + h[RestOf(s)] /\ k[s] = g[FirstOf(s)] + k[RestOf(s)]
    BY <1>1, <1>2, <1>4, Zenon DEF AddsUp
  <2>3. /\ f[FirstOf(s)] \in Nat /\ g[FirstOf(s)] \in Nat /\ f[FirstOf(s)] <= g[FirstOf(s)]
        /\ h[RestOf(s)] \in Nat /\ k[RestOf(s)] \in Nat /\ h[RestOf(s)] <= k[RestOf(s)]
    BY <1>1, <1>2, <1>4, <2>1, Zenon
  <2> QED BY <2>2, <2>3, SMT
<1>5. SUBSET S \subseteq P
  <2> HIDE DEF P
  <2> QED BY <1>3, <1>4, OnSubsets, Zenon
<1>6. h[S] <= k[S]
  BY <1>5, Zenon
<1> QED BY <1>1, <1>2, <1>6, Zenon

LEMMA WeightOfOnes ==
  ASSUME NEW S, IsFiniteSet(S), NEW f, \A x \in S : f[x] = 1
  PROVE  Weight(f, S) = Cardinality(S)
<1>0. \A x \in S : f[x] \in Nat
  BY SMT
<1>1. PICK h : /\ \A s \in SUBSET S : h[s] = AddsUp(f, h, s)
               /\ \A s \in SUBSET S : h[s] \in Nat
               /\ Weight(f, S) = h[S]
  BY <1>0, WeightOf, Zenon
<1> DEFINE P == {s \in SUBSET S : h[s] = Cardinality(s)}
<1>3. {} \in P
  BY <1>1, FS_EmptySet DEF AddsUp
<1>4. ASSUME NEW s \in SUBSET S, s # {}, RestOf(s) \in P PROVE s \in P
  <2>1. /\ FirstOf(s) \in S /\ Cardinality(RestOf(s)) \in Nat
        /\ Cardinality(s) = Cardinality(RestOf(s)) + 1
    BY <1>4, FS_Subset, FirstAndRest, Zenon
  <2>2. h[s] = f[FirstOf(s)] + h[RestOf(s)]
    BY <1>1, <1>4, Zenon DEF AddsUp
  <2> QED BY <1>4, <2>1, <2>2, SMT
<1>5. SUBSET S \subseteq P
  <2> HIDE DEF P
  <2> QED BY <1>3, <1>4, OnSubsets, Zenon
<1>6. h[S] = Cardinality(S)
  BY <1>5, Zenon
<1> QED BY <1>1, <1>6, Zenon

-----------------------------------------------------------------------------
(* The conversation and its files.  The results of a message are decided        *)
(* together or are still all open, so that what was decided within the limit    *)
(* stays within it; and a preview's file goes only in a sweep, after which the  *)
(* conversation that still names it is replaced, unless something interferes.   *)
MsgKinds == {"env", "user", "summary", "calls", "results", "text"}
Messages == [kind : MsgKinds, rs : SUBSET Results]
Texts == [Results -> {"raw", "preview"}]
IndexRows == [Results -> {"none", "active", "released", "deleted"}]
CompactPlaces == {"idle", "budgeted", "manual", "sweeping", "reclaiming", "notified",
                 "adopting", "again", "asking", "resumed"}

CompactTyped ==
  /\ talk \in [hist : Seq(Messages), text : Texts] /\ new \in Seq(Messages)
  /\ budget \in [seen : SUBSET Results, replaced : SUBSET Results]
  /\ files \subseteq Results /\ index \in IndexRows /\ step \in CompactPlaces
  /\ fails \in 0..MaxFailures /\ done \in 0..MaxCompactions /\ mishap \in BOOLEAN

\* What is true of a conversation, whatever was decided about its results.
EnvLeads(h) == \A i \in DOMAIN h : h[i].kind = "env" <=> i = 1
NoEnv(h) == \A i \in DOMAIN h : h[i].kind # "env"
Paired(h) == \A i \in DOMAIN h : h[i].kind = "results" => i > 1 /\ h[i - 1] = Msg("calls", h[i].rs)
FewEach(h) == \A i \in DOMAIN h : Cardinality(h[i].rs) <= PerMessage

\* Its results as they are shown, and where they fit: see Shown in Compaction.
ShownBy(text, cut) == [r \in Results |-> IF r \in cut \/ text[r] = "preview" THEN 1 ELSE Size[r]]
Fits(text, b, m) == \/ m.rs \cap b.seen = {}
                    \/ Weight(ShownBy(text, b.replaced), m.rs) <= Aggregate
AllFit(text, b, h) == \A i \in DOMAIN h : h[i].kind = "results" => Fits(text, b, h[i])

\* r is in h, and a preview there.
IsIn(r, h) == \E i \in DOMAIN h : h[i].kind = "results" /\ r \in h[i].rs
IsPreview(r, text, b) == text[r] = "preview" \/ r \in b.replaced
NamedIn(text, b, h) == {r \in Results : IsIn(r, h) /\ IsPreview(r, text, b)}

TalkFits == /\ EnvLeads(talk.hist) /\ Paired(talk.hist) /\ FewEach(talk.hist)
            /\ AllFit(talk.text, budget, talk.hist) /\ Len(talk.hist) > 0
NewFits == /\ NoEnv(new) /\ Paired(new) /\ FewEach(new) /\ AllFit(talk.text, budget, new)
Renewing == {"sweeping", "reclaiming", "notified", "adopting"}
BudgetFits == /\ budget.replaced \subseteq budget.seen
              /\ \A r \in Results : IsPreview(r, talk.text, budget) => index[r] # "none"
              /\ step \in {"budgeted", "asking"} => \A r \in Results : IsIn(r, talk.hist) => r \in budget.seen
FilesFit ==
  /\ step \notin {"reclaiming", "adopting"}
  /\ step \notin {"sweeping", "notified"} => NamedIn(talk.text, budget, talk.hist) \subseteq files
  /\ step \in {"sweeping", "notified"} => NamedIn(talk.text, budget, new) \subseteq files
  /\ step = "sweeping" => \A r \in NamedIn(talk.text, budget, new) : index[r] # "released"
  /\ step # "sweeping" => \A r \in Results : index[r] # "released"
CompactInv == /\ CompactTyped /\ TalkFits /\ BudgetFits
              /\ step \in Renewing => NewFits
              /\ mishap \/ FilesFit

LEMMA InTalkIs ==
  ASSUME NEW h \in Seq(Messages)
  PROVE  InTalk(h) = {r \in Results : IsIn(r, h)}
<1>1. DOMAIN h = 1..Len(h) /\ \A i \in DOMAIN h : h[i] \in Messages
  BY SMT
<1>2. \A r : r \in InTalk(h) <=> IsIn(r, h)
  BY <1>1, Zenon DEF InTalk, IsIn
<1>3. \A r : IsIn(r, h) => r \in Results
  BY <1>1, SMT DEF IsIn, Messages
<1> QED BY <1>2, <1>3, Zenon

LEMMA MessageIs ==
  ASSUME NEW h \in Seq(Messages), NEW i \in DOMAIN h
  PROVE  h[i].rs \subseteq Results /\ IsFiniteSet(h[i].rs) /\ h[i].kind \in MsgKinds
<1>1. h[i] \in Messages
  BY SMT
<1>2. h[i].rs \subseteq Results /\ h[i].kind \in MsgKinds
  BY <1>1, SMT DEF Messages
<1> QED BY <1>2, FS_Subset, CompactionAssumption, Zenon

LEMMA CompactInvGives == CompactInv => CompactTypeOK /\ RequestsWhole /\ PreviewsReadable
<1> SUFFICES ASSUME CompactInv PROVE CompactTypeOK /\ RequestsWhole /\ PreviewsReadable
  OBVIOUS
<1>1. CompactTyped /\ TalkFits /\ BudgetFits /\ (mishap \/ FilesFit)
  BY DEF CompactInv
<1>2. PICK h \in Seq(Messages) : h = talk.hist
  BY <1>1, SMT DEF CompactTyped
<1>3. DOMAIN h = 1..Len(h)
  BY SMT
<1>4. CompactTypeOK
  <2>1. \A i \in 1..Len(talk.hist) : talk.hist[i].rs \subseteq Results
    BY <1>2, <1>3, MessageIs, Zenon
  <2>2. talk.text \in [Results -> {"raw", "preview"}]
    BY <1>1, SMT DEF CompactTyped, Texts
  <2> QED BY <1>1, <2>1, <2>2, Zenon DEF CompactTyped, CompactTypeOK, CompactPlaces, IndexRows
<1>5. RequestsWhole
  <2> SUFFICES ASSUME step = "asking"
               PROVE  /\ \A i \in 1..Len(h) : (h[i].kind = "env") <=> (i = 1)
                      /\ \A i \in 1..Len(h) : h[i].kind = "results" => h[i - 1] = Msg("calls", h[i].rs)
                      /\ \A i \in 1..Len(h) : h[i].kind = "results" =>
                           Weight(Shown(budget.replaced), h[i].rs) <= Aggregate
    BY <1>2, Zenon DEF RequestsWhole
  <2>1. \A i \in 1..Len(h) : (h[i].kind = "env") <=> (i = 1)
    BY <1>1, <1>2, <1>3, Zenon DEF TalkFits, EnvLeads
  <2>2. \A i \in 1..Len(h) : h[i].kind = "results" => h[i - 1] = Msg("calls", h[i].rs)
    BY <1>1, <1>2, <1>3, Zenon DEF TalkFits, Paired
  <2>3. ASSUME NEW i \in 1..Len(h), h[i].kind = "results"
        PROVE  Weight(Shown(budget.replaced), h[i].rs) <= Aggregate
    <3>1. PICK m : m = h[i]
      OBVIOUS
    <3>2. Fits(talk.text, budget, m)
      BY <1>1, <1>2, <1>3, <2>3, <3>1, Zenon DEF TalkFits, AllFit
    <3>3. Shown(budget.replaced) = ShownBy(talk.text, budget.replaced)
      BY DEF Shown, ShownBy
    <3>4. CASE m.rs \cap budget.seen = {}
      <4>1. m.rs \subseteq Results
        BY <1>3, <3>1, MessageIs, Zenon
      <4>2. \A r \in m.rs : IsIn(r, talk.hist)
        BY <1>2, <1>3, <2>3, <3>1, Zenon DEF IsIn
      <4>3. \A r \in m.rs : r \in budget.seen
        BY <1>1, <4>1, <4>2, SMT DEF BudgetFits
      <4>4. m.rs = {}
        BY <3>4, <4>3, Zenon
      <4>5. \A x \in m.rs : Shown(budget.replaced)[x] = 1
        BY <4>4
      <4>6. Weight(Shown(budget.replaced), m.rs) = 0
        BY <4>4, <4>5, WeightOfOnes, FS_EmptySet, Zenon
      <4> QED BY <3>1, <4>6, CompactionAssumption, SMT
    <3> QED BY <3>1, <3>2, <3>3, <3>4, Zenon DEF Fits
  <2> QED BY <2>1, <2>2, <2>3, Zenon
<1>6. PreviewsReadable
  <2> SUFFICES ASSUME step = "asking", ~mishap
               PROVE  {r \in InTalk(talk.hist) : ViewText[r] = "preview"} \subseteq files
    BY Zenon DEF PreviewsReadable
  <2>1. NamedIn(talk.text, budget, talk.hist) \subseteq files
    BY <1>1, SMT DEF FilesFit
  <2>2. \A r \in Results : ViewText[r] = "preview" => IsPreview(r, talk.text, budget)
    BY Zenon DEF ViewText, IsPreview
  <2> QED BY <1>2, <2>1, <2>2, InTalkIs, Zenon DEF NamedIn
<1> QED BY <1>4, <1>5, <1>6

LEMMA TalkRow ==
  ASSUME NEW h \in Seq(Messages), NEW t \in Texts
  PROVE  /\ [hist |-> h, text |-> t].hist = h /\ [hist |-> h, text |-> t].text = t
         /\ [hist |-> h, text |-> t] \in [hist : Seq(Messages), text : Texts]
OBVIOUS

LEMMA CompactInvInit == CompactInit => CompactInv
<1> SUFFICES ASSUME CompactInit PROVE CompactInv
  OBVIOUS
<1> USE DEF CompactInit
<1>1. PICK h : h = <<Env, Msg("user", {})>>
  OBVIOUS
<1>2. h \in Seq(Messages) /\ DOMAIN h = {1, 2} /\ Len(h) = 2
      /\ h[1].kind = "env" /\ h[2].kind = "user" /\ h[1].rs = {} /\ h[2].rs = {}
  BY <1>1, SMT DEF Env, Msg, Messages, MsgKinds
<1>3. PICK t \in Texts : t = [r \in Results |-> "raw"]
  BY SMT DEF Texts
<1>4. talk = [hist |-> h, text |-> t]
  BY <1>1, <1>3, Zenon
<1>5. talk.hist = h /\ talk.text = t /\ talk \in [hist : Seq(Messages), text : Texts]
  <2> HIDE DEF CompactInit
  <2>1. h \in Seq(Messages)
    BY <1>2
  <2> QED BY <2>1, <1>4, TalkRow, Zenon
<1>6. index \in IndexRows /\ \A r \in Results : index[r] = "none"
  BY SMT DEF IndexRows
<1>7. budget.seen = {} /\ budget.replaced = {} /\ new \in Seq(Messages)
      /\ budget \in [seen : SUBSET Results, replaced : SUBSET Results]
  BY SMT
<1>8. CompactTyped
  <2>1. 0 \in 0..MaxFailures /\ 0 \in 0..MaxCompactions
    BY CompactionAssumption, SMT
  <2>2. step \in CompactPlaces /\ files \subseteq Results /\ mishap \in BOOLEAN
        /\ fails = 0 /\ done = 0
    BY Zenon DEF CompactPlaces
  <2> HIDE DEF CompactInit
  <2> QED BY <1>5, <1>6, <1>7, <2>1, <2>2, Zenon DEF CompactTyped
<1>9. TalkFits
  <2>1. EnvLeads(h) /\ Paired(h) /\ AllFit(t, budget, h)
    BY <1>2, SMT DEF EnvLeads, Paired, AllFit
  <2>2. FewEach(h)
    <3>1. \A i \in DOMAIN h : h[i].rs = {}
      BY <1>2, Zenon
    <3>2. Cardinality({}) <= PerMessage
      BY FS_EmptySet, SMT DEF PerMessage
    <3> QED BY <3>1, <3>2, Zenon DEF FewEach
  <2> QED BY <1>2, <1>5, <2>1, <2>2, SMT DEF TalkFits
<1>10. \A r \in Results : ~IsPreview(r, talk.text, budget) /\ ~IsIn(r, talk.hist)
  <2>1. \A r \in Results : t[r] = "raw"
    BY <1>3, Zenon
  <2>2. \A i \in DOMAIN h : h[i].kind # "results"
    BY <1>2, SMT
  <2> QED BY <1>5, <1>7, <2>1, <2>2, SMT DEF IsPreview, IsIn
<1>11. BudgetFits
  BY <1>7, <1>10, SMT DEF BudgetFits
<1>12. FilesFit
  BY <1>6, <1>10, SMT DEF FilesFit, NamedIn
<1> QED BY <1>8, <1>9, <1>11, <1>12, SMT DEF CompactInv, Renewing

(* Where more results are previews, less is shown. *)
LEMMA ShownOrdered ==
  ASSUME NEW S \in SUBSET Results, NEW t, NEW u, NEW A, NEW B,
         \A r \in S : t[r] = "preview" \/ r \in A => u[r] = "preview" \/ r \in B
  PROVE  /\ Weight(ShownBy(u, B), S) \in Nat /\ Weight(ShownBy(t, A), S) \in Nat
         /\ Weight(ShownBy(u, B), S) <= Weight(ShownBy(t, A), S)
<1>1. IsFiniteSet(S)
  BY CompactionAssumption, FS_Subset, Zenon
<1>2. PICK f : f = ShownBy(u, B)
  OBVIOUS
<1>3. PICK g : g = ShownBy(t, A)
  OBVIOUS
<1>4. ASSUME NEW r \in S PROVE f[r] \in Nat /\ g[r] \in Nat /\ f[r] <= g[r]
  <2>1. Size[r] \in Nat \ {0}
    BY CompactionAssumption, SMT
  <2>2. f[r] = IF r \in B \/ u[r] = "preview" THEN 1 ELSE Size[r]
    BY <1>2, Zenon DEF ShownBy
  <2>3. g[r] = IF r \in A \/ t[r] = "preview" THEN 1 ELSE Size[r]
    BY <1>3, Zenon DEF ShownBy
  <2> HIDE <1>2, <1>3
  <2>4. CASE r \in A \/ t[r] = "preview"
    <3>1. r \in B \/ u[r] = "preview"
      BY <2>4, Zenon
    <3> QED BY <2>2, <2>3, <2>4, <3>1, SMT
  <2>5. CASE ~(r \in A \/ t[r] = "preview")
    BY <2>1, <2>2, <2>3, <2>5, SMT
  <2> QED BY <2>4, <2>5
<1> QED BY <1>1, <1>2, <1>3, <1>4, WeightOrdered, Zenon

LEMMA FitsStill ==
  ASSUME NEW m, m.rs \in SUBSET Results, NEW t, NEW u, NEW b, NEW c, Fits(t, b, m),
         m.rs \cap b.seen = {} => m.rs \cap c.seen = {},
         \A r \in m.rs : IsPreview(r, t, b) => IsPreview(r, u, c)
  PROVE  Fits(u, c, m)
<1>1. CASE m.rs \cap b.seen = {}
  BY <1>1, Zenon DEF Fits
<1>2. CASE Weight(ShownBy(t, b.replaced), m.rs) <= Aggregate
  <2>1. /\ Weight(ShownBy(u, c.replaced), m.rs) \in Nat /\ Weight(ShownBy(t, b.replaced), m.rs) \in Nat
        /\ Weight(ShownBy(u, c.replaced), m.rs) <= Weight(ShownBy(t, b.replaced), m.rs)
    BY ShownOrdered, Zenon DEF IsPreview
  <2>2. Aggregate \in Nat
    BY CompactionAssumption, SMT
  <2>3. Weight(ShownBy(u, c.replaced), m.rs) <= Aggregate
    BY <1>2, <2>1, <2>2, SMT
  <2> QED BY <2>3 DEF Fits
<1> QED BY <1>1, <1>2, Zenon DEF Fits

(* Of the results that are left, one is the first in rank. *)
LEMMA FirstInRank ==
  ASSUME NEW U \in SUBSET Results, U # {}, \A r \in U : Size[r] <= Single
  PROVE  \E r \in U : \A s \in U : ~Ranked(s, r)
<1>1. Results \subseteq Nat /\ Single \in Nat /\ \A r \in Results : Size[r] \in Nat
  BY CompactionAssumption, SMT
<1>2. PICK D : D = {Single - Size[r] : r \in U}
  OBVIOUS
<1>3. D \in SUBSET Nat /\ D # {}
  <2>1. \A r \in U : Single - Size[r] \in Nat
    BY <1>1, SMT
  <2>2. D \subseteq Nat
    BY <1>2, <2>1, Zenon
  <2> QED BY <1>2, <2>2, Zenon
<1>4. PICK d \in D : \A e \in D : d <= e
  BY <1>3, LeastNumber, Zenon
<1>5. PICK k \in U : d = Single - Size[k]
  BY <1>2, <1>4
<1>6. \A s \in U : Size[s] <= Size[k]
  <2> SUFFICES ASSUME NEW s \in U PROVE Size[s] <= Size[k]
    OBVIOUS
  <2>1. Single - Size[s] \in D
    BY <1>2
  <2>2. Single - Size[k] <= Single - Size[s]
    BY <1>4, <1>5, <2>1, Zenon
  <2> QED BY <1>1, <2>2, SMT
<1>7. PICK E : E = {r \in U : Size[r] = Size[k]}
  OBVIOUS
<1>8. E \in SUBSET Nat /\ E # {}
  <2>1. \A r \in U : r \in Nat
    BY <1>1
  <2> QED BY <1>7, <2>1, Zenon
<1>9. PICK r \in E : \A s \in E : r <= s
  BY <1>8, LeastNumber, Zenon
<1>10. \A s \in U : ~Ranked(s, r)
  <2> SUFFICES ASSUME NEW s \in U, Ranked(s, r) PROVE FALSE
    OBVIOUS
  <2>1. Size[s] \in Nat /\ Size[r] \in Nat /\ s \in Nat /\ r \in Nat /\ Size[k] \in Nat
        /\ Size[r] = Size[k] /\ Size[s] <= Size[k]
    BY <1>1, <1>6, <1>7, SMT
  <2>2. Size[s] = Size[r] /\ s < r
    BY <2>1, SMT DEF Ranked
  <2>3. s \in E
    BY <1>7, <2>1, <2>2, Zenon
  <2>4. r <= s
    BY <1>9, <2>3
  <2> QED BY <2>1, <2>2, <2>4, SMT
<1> QED BY <1>7, <1>9, <1>10, Zenon

(* What is spilled of a message none of whose results was decided before. *)
LEMMA SpilledFits ==
  ASSUME CompactTyped, budget.replaced \subseteq budget.seen,
         NEW m, m.rs \in SUBSET Results, Cardinality(m.rs) <= PerMessage, m.rs \cap budget.seen = {}
  PROVE  /\ Spilled(m) \subseteq m.rs
         /\ Weight(ShownBy(talk.text, budget.replaced \cup Spilled(m)), m.rs) <= Aggregate
<1> DEFINE W(cut) == Weight(ShownBy(talk.text, budget.replaced \cup cut), m.rs)
<1>1. PICK F : F = Fresh(m)
  OBVIOUS
<1>2. PICK L : L = {r \in F : Size[r] > Single}
  OBVIOUS
<1>3. PICK P : P = Spilled(m)
  OBVIOUS
<1>4. \A r : r \in F <=> r \in m.rs /\ r \notin budget.replaced /\ talk.text[r] = "raw"
  BY <1>1, Zenon DEF Fresh
<1>5. \A r : r \in L <=> r \in F /\ Size[r] > Single
  BY <1>2, Zenon
<1>6. \A cut : Weight(Shown(budget.replaced \cup cut), m.rs) = W(cut)
  BY Zenon DEF Shown, ShownBy
<1>7. P = L \cup {r \in F \ L : W(L \cup {s \in F \ L : Ranked(s, r)}) > Aggregate}
  BY <1>1, <1>2, <1>3, <1>6, Zenon DEF Spilled
<1>8. F \subseteq m.rs /\ L \subseteq F /\ P \subseteq F
  BY <1>4, <1>5, <1>7, Zenon
<1>9. \A A, B : A \subseteq B => W(A) \in Nat /\ W(B) \in Nat /\ W(B) <= W(A)
  <2> SUFFICES ASSUME NEW A, NEW B, A \subseteq B
               PROVE  W(A) \in Nat /\ W(B) \in Nat /\ W(B) <= W(A)
    OBVIOUS
  <2>1. \A r \in m.rs : talk.text[r] = "preview" \/ r \in budget.replaced \cup A =>
                            talk.text[r] = "preview" \/ r \in budget.replaced \cup B
    OBVIOUS
  <2> QED BY <2>1, ShownOrdered, Zenon
<1>10. Aggregate \in Nat /\ PerMessage <= Aggregate /\ PerMessage \in Nat
  BY CompactionAssumption, SMT DEF PerMessage
<1>11. IsFiniteSet(m.rs) /\ Cardinality(m.rs) \in Nat
  BY CompactionAssumption, FS_Subset, FS_CardinalityType, Zenon
<1>12. CASE F \subseteq P
  <2>1. \A r \in m.rs : ShownBy(talk.text, budget.replaced \cup P)[r] = 1
    <3> SUFFICES ASSUME NEW r \in m.rs PROVE r \in budget.replaced \cup P \/ talk.text[r] = "preview"
      BY Zenon DEF ShownBy
    <3>1. talk.text[r] \in {"raw", "preview"}
      BY SMT DEF CompactTyped, Texts
    <3> QED BY <1>4, <1>12, <3>1, Zenon
  <2>2. W(P) = Cardinality(m.rs)
    BY <1>11, <2>1, WeightOfOnes, Zenon
  <2>3. W(P) <= Aggregate
    BY <1>10, <1>11, <2>2, SMT
  <2> QED BY <1>3, <1>8, <2>3, Zenon
<1>13. CASE ~(F \subseteq P)
  <2>1. PICK U : U = F \ P
    OBVIOUS
  <2>2. U \in SUBSET Results /\ U # {} /\ \A r \in U : r \in F /\ r \notin L /\ r \notin P
    BY <1>7, <1>8, <1>13, <2>1, Zenon
  <2>3. \A r \in U : Size[r] <= Single
    BY <1>5, <2>2, CompactionAssumption, SMT
  <2>4. PICK r \in U : \A s \in U : ~Ranked(s, r)
    BY <2>2, <2>3, FirstInRank, Zenon
  <2>5. PICK A : A = L \cup {s \in F \ L : Ranked(s, r)}
    OBVIOUS
  <2>6. A \subseteq P
    <3> SUFFICES ASSUME NEW s \in A, s \notin P PROVE FALSE
      OBVIOUS
    <3>1. s \in F /\ s \notin L /\ Ranked(s, r)
      BY <1>7, <2>5, Zenon
    <3> QED BY <2>1, <2>4, <3>1, Zenon
  <2>7. ~(W(A) > Aggregate)
    BY <1>7, <2>2, <2>4, <2>5, Zenon
  <2>8. W(A) \in Nat /\ W(P) \in Nat /\ W(P) <= W(A)
    BY <1>9, <2>6, Zenon
  <2>9. W(P) <= Aggregate
    <3> HIDE DEF W
    <3> QED BY <1>10, <2>7, <2>8, SMT
  <2> QED BY <1>3, <1>8, <2>9, Zenon
<1> QED BY <1>12, <1>13

(* Layer 1: what is decided before a request. *)
LEMMA DecidedIs ==
  ASSUME CompactTyped, TalkFits, budget.replaced \subseteq budget.seen,
         NEW D, D = Decided
  PROVE  /\ D \in [seen : SUBSET Results, replaced : SUBSET Results]
         /\ D.seen = budget.seen \cup {r \in Results : IsIn(r, talk.hist)}
         /\ budget.replaced \subseteq D.replaced /\ D.replaced \subseteq D.seen
         /\ AllFit(talk.text, D, talk.hist)
<1>1. PICK h \in Seq(Messages) : h = talk.hist
  BY SMT DEF CompactTyped
<1>2. PICK B : B = budget
  OBVIOUS
<1>3. B.seen \subseteq Results /\ B.replaced \subseteq Results /\ B.replaced \subseteq B.seen
  BY <1>2, SMT DEF CompactTyped
<1>4. PICK I : I = {r \in Results : IsIn(r, h)}
  OBVIOUS
<1>5. InTalk(h) = I
  BY <1>4, InTalkIs, Zenon
<1>6. PICK ms : ms = {h[i] : i \in {j \in 1..Len(h) : h[j].kind = "results"}}
  OBVIOUS
<1>7. PICK G : G = {r \in I \ (B.seen \cup B.replaced) : talk.text[r] = "preview"}
  OBVIOUS
<1>8. PICK S : S = UNION {Spilled(m) : m \in ms}
  OBVIOUS
<1>9. D = [seen |-> B.seen \cup I, replaced |-> B.replaced \cup G \cup S]
  BY <1>1, <1>2, <1>5, <1>6, <1>7, <1>8, ZenonT(60) DEF Decided
<1>10. D.seen = B.seen \cup I /\ D.replaced = B.replaced \cup G \cup S
  BY <1>9, SMT
<1>11. DOMAIN h = 1..Len(h)
  BY SMT
\* The messages whose results are decided now.
<1>12. ASSUME NEW i \in DOMAIN h, h[i].kind = "results"
       PROVE  /\ h[i] \in ms /\ h[i].rs \in SUBSET Results /\ h[i].rs \subseteq I
              /\ Cardinality(h[i].rs) <= PerMessage
  <2>1. h[i] \in ms
    BY <1>6, <1>11, <1>12, Zenon
  <2>2. h[i].rs \in SUBSET Results
    BY MessageIs, Zenon
  <2>3. h[i].rs \subseteq I
    BY <1>4, <1>12, <2>2, Zenon DEF IsIn
  <2>4. Cardinality(h[i].rs) <= PerMessage
    BY <1>1, Zenon DEF TalkFits, FewEach
  <2> QED BY <2>1, <2>2, <2>3, <2>4
<1>13. S \subseteq I
  <2> SUFFICES ASSUME NEW m \in ms PROVE Spilled(m) \subseteq I
    BY <1>8, Zenon
  <2>1. PICK i \in DOMAIN h : m = h[i] /\ h[i].kind = "results"
    BY <1>6, <1>11, Zenon
  <2>2. m.rs \subseteq I
    BY <1>12, <2>1, Zenon
  <2>3. Spilled(m) \subseteq m.rs
    BY Zenon DEF Spilled, Fresh
  <2> QED BY <2>2, <2>3, Zenon
<1>14. D \in [seen : SUBSET Results, replaced : SUBSET Results]
  <2>1. B.seen \cup I \in SUBSET Results /\ B.replaced \cup G \cup S \in SUBSET Results
    BY <1>3, <1>4, <1>7, <1>13, Zenon
  <2> QED BY <1>9, <2>1, SMT
<1>15. ASSUME NEW i \in DOMAIN h, h[i].kind = "results" PROVE Fits(talk.text, D, h[i])
  <2>1. PICK m : m = h[i]
    OBVIOUS
  <2>2. m \in ms /\ m.rs \in SUBSET Results /\ Cardinality(m.rs) <= PerMessage
    BY <1>12, <1>15, <2>1, Zenon
  <2>3. CASE m.rs \cap B.seen = {}
    <3>1. Weight(ShownBy(talk.text, B.replaced \cup Spilled(m)), m.rs) <= Aggregate
      BY <1>2, <2>2, <2>3, SpilledFits, Zenon
    <3>2. B.replaced \cup Spilled(m) \subseteq D.replaced
      BY <1>8, <1>10, <2>2, Zenon
    <3>3. /\ Weight(ShownBy(talk.text, D.replaced), m.rs) \in Nat
          /\ Weight(ShownBy(talk.text, B.replaced \cup Spilled(m)), m.rs) \in Nat
          /\ Weight(ShownBy(talk.text, D.replaced), m.rs)
               <= Weight(ShownBy(talk.text, B.replaced \cup Spilled(m)), m.rs)
      BY <2>2, <3>2, ShownOrdered, Zenon
    <3>4. Aggregate \in Nat
      BY CompactionAssumption, SMT
    <3>5. Weight(ShownBy(talk.text, D.replaced), m.rs) <= Aggregate
      BY <3>1, <3>3, <3>4, SMT
    <3> QED BY <2>1, <3>5, Zenon DEF Fits
  <2>4. CASE m.rs \cap B.seen # {}
    <3>1. Fits(talk.text, B, m)
      BY <1>1, <1>2, <1>15, <2>1, Zenon DEF TalkFits, AllFit
    <3>2. \A r \in m.rs : IsPreview(r, talk.text, B) => IsPreview(r, talk.text, D)
      BY <1>10, Zenon DEF IsPreview
    <3> QED BY <2>1, <2>2, <2>4, <3>1, <3>2, FitsStill, Zenon
  <2> QED BY <2>3, <2>4
<1>16. D.replaced \subseteq D.seen
  BY <1>3, <1>7, <1>10, <1>13, Zenon
<1> QED BY <1>1, <1>2, <1>4, <1>10, <1>14, <1>15, <1>16, Zenon DEF AllFit

LEMMA BudgetSteps ==
  ASSUME CompactInv, ApplyBudget \/ BudgetAgain
  PROVE  CompactInv'
<1>1. PICK D : D = Decided
  OBVIOUS
<1>2. PICK X : X = D.replaced \ (budget.replaced \cup {r \in Results : talk.text[r] = "preview"})
  OBVIOUS
<1>3. /\ budget' = D /\ UNCHANGED <<talk, new, fails, done, mishap>>
      /\ files' = files \cup X /\ index' = [r \in Results |-> IF r \in X THEN "active" ELSE index[r]]
  BY <1>1, <1>2, Zenon DEF ApplyBudget, BudgetAgain, Persist
<1>4. step \in {"idle", "again"} /\ step' \in {"budgeted", "asking"}
  BY Zenon DEF ApplyBudget, BudgetAgain
<1>5. CompactTyped /\ TalkFits /\ BudgetFits /\ (mishap \/ FilesFit)
  BY DEF CompactInv
<1>6. /\ D \in [seen : SUBSET Results, replaced : SUBSET Results]
      /\ D.seen = budget.seen \cup {r \in Results : IsIn(r, talk.hist)}
      /\ budget.replaced \subseteq D.replaced /\ D.replaced \subseteq D.seen
      /\ AllFit(talk.text, D, talk.hist)
  BY <1>1, <1>5, DecidedIs, Zenon DEF BudgetFits
<1>7. D.replaced \subseteq Results /\ X \subseteq Results
  BY <1>2, <1>6, SMT
<1>8. CompactTyped'
  <2>1. index' \in IndexRows
    BY <1>3, <1>5, SMT DEF CompactTyped, IndexRows
  <2>2. step' \in CompactPlaces
    BY <1>4, Zenon DEF CompactPlaces
  <2> QED BY <1>3, <1>5, <1>6, <1>7, <2>1, <2>2, Zenon DEF CompactTyped
<1>9. TalkFits'
  BY <1>3, <1>5, <1>6, Zenon DEF TalkFits
<1>10. \A r \in Results : index'[r] = IF r \in X THEN "active" ELSE index[r]
  BY <1>3, Zenon
<1>11. \A r \in Results : IsPreview(r, talk.text, D) => r \in X \/ IsPreview(r, talk.text, budget)
  BY <1>2, Zenon DEF IsPreview
<1>12. BudgetFits'
  <2>1. \A r \in Results : IsPreview(r, talk.text, D) => index'[r] # "none"
    BY <1>5, <1>10, <1>11, SMT DEF BudgetFits
  <2>2. \A r \in Results : IsIn(r, talk.hist) => r \in D.seen
    BY <1>6, Zenon
  <2> QED BY <1>3, <1>6, <2>1, <2>2, Zenon DEF BudgetFits
<1>13. FilesFit => FilesFit'
  <2> SUFFICES ASSUME FilesFit PROVE FilesFit'
    OBVIOUS
  <2>1. NamedIn(talk.text, budget, talk.hist) \subseteq files /\ \A r \in Results : index[r] # "released"
    BY <1>4, Zenon DEF FilesFit
  <2>2. \A r \in Results : index'[r] # "released"
    BY <1>10, <2>1, SMT
  <2>3. NamedIn(talk.text, D, talk.hist) \subseteq files'
    BY <1>3, <1>11, <2>1, Zenon DEF NamedIn
  <2> QED BY <1>3, <1>4, <2>2, <2>3, Zenon DEF FilesFit
<1> QED BY <1>3, <1>4, <1>5, <1>8, <1>9, <1>12, <1>13, Zenon DEF CompactInv, Renewing

LEMMA CompactRests ==
  ASSUME CompactInv, NoCompaction \/ SummaryFails \/ ManualStarts \/ ManualSkips
  PROVE  CompactInv'
<1>1. UNCHANGED <<talk, budget, files, index, new, done, mishap>>
  BY Zenon DEF NoCompaction, SummaryFails, ManualStarts, ManualSkips
<1>2. /\ step \in {"budgeted", "manual", "idle"} /\ step' \in {"asking", "idle", "manual"}
      /\ step' = "asking" => step = "budgeted"
  BY SMT DEF NoCompaction, SummaryFails, ManualStarts, ManualSkips
<1>3. CompactTyped /\ TalkFits /\ BudgetFits /\ (mishap \/ FilesFit)
  BY DEF CompactInv
<1>4. fails' \in 0..MaxFailures
  <2>1. MaxFailures \in Nat /\ fails \in 0..MaxFailures
    BY <1>3, CompactionAssumption, SMT DEF CompactTyped
  <2>2. fails' = fails \/ (fails' = fails + 1 /\ fails < MaxFailures)
    BY Zenon DEF NoCompaction, SummaryFails, ManualStarts, ManualSkips
  <2> QED BY <2>1, <2>2, SMT
<1>5. CompactTyped'
  <2>1. step' \in CompactPlaces
    BY <1>2, Zenon DEF CompactPlaces
  <2> QED BY <1>1, <1>3, <1>4, <2>1, Zenon DEF CompactTyped
<1>6. TalkFits'
  BY <1>1, <1>3, Zenon DEF TalkFits
<1>7. BudgetFits'
  <2>1. step' \in {"budgeted", "asking"} => step \in {"budgeted", "asking"}
    BY <1>2, SMT
  <2> QED BY <1>1, <1>3, <2>1, Zenon DEF BudgetFits
<1>8. FilesFit => FilesFit'
  <2>1. /\ step' \notin {"sweeping", "notified"} /\ step \notin {"sweeping", "notified"}
        /\ step' # "sweeping" /\ step # "sweeping" /\ step' \notin {"reclaiming", "adopting"}
    BY <1>2, Zenon
  <2> QED BY <1>1, <2>1, Zenon DEF FilesFit
<1> QED BY <1>1, <1>2, <1>3, <1>5, <1>6, <1>7, <1>8, Zenon DEF CompactInv, Renewing

(* Where the history is cut: never in front of results. *)
CutAt(m, h, k) == <<m>> \o SubSeq(h, k, Len(h))
IsCut(g, S, m, h, k) ==
  /\ g \in Seq(S) /\ g[1] = m /\ DOMAIN g = 1..(Len(h) - k + 2)
  /\ \A j \in DOMAIN g : j = 1 \/ (j \in 2..(Len(h) - k + 2) /\ k + j - 2 \in k..Len(h) /\ g[j] = h[k + j - 2])

LEMMA TailOfHistory ==
  ASSUME NEW S, NEW h \in Seq(S), NEW k \in 1..Len(h), NEW m \in S
  PROVE  IsCut(CutAt(m, h, k), S, m, h, k)
<1>1. PICK n \in Nat : n = Len(h)
  OBVIOUS
<1>2. PICK t : t = SubSeq(h, k, n)
  OBVIOUS
<1>3. t \in Seq(S) /\ Len(t) = n - k + 1 /\ \A i \in 1..(n - k + 1) : t[i] = h[k + i - 1]
  BY <1>1, <1>2, SMT
<1>4. PICK g : g = <<m>> \o t
  OBVIOUS
<1>8. g \in Seq(S) /\ Len(g) = n - k + 2 /\ g[1] = m /\ \A j \in 2..(n - k + 2) : g[j] = t[j - 1]
  <2>1. g \in Seq(S) /\ Len(g) = 1 + Len(t) /\ g[1] = m /\ \A j \in 2..(1 + Len(t)) : g[j] = t[j - 1]
    <3>1. t \in Seq(S) /\ m \in S
      BY <1>3
    <3> HIDE <1>3
    <3> QED BY <1>4, <3>1, SMT
  <2>2. 1 + Len(t) = n - k + 2
    BY <1>1, <1>3, SMT
  <2> HIDE <1>4
  <2> QED BY <2>1, <2>2, Zenon
<1>5. \A j \in 2..(n - k + 2) : g[j] = h[k + j - 2]
  <2> SUFFICES ASSUME NEW j \in 2..(n - k + 2) PROVE g[j] = h[k + j - 2]
    OBVIOUS
  <2>1. j - 1 \in 1..(n - k + 1) /\ k + (j - 1) - 1 = k + j - 2
    BY <1>1, SMT
  <2>2. t[j - 1] = h[k + (j - 1) - 1]
    BY <1>3, <2>1, Zenon
  <2>3. g[j] = t[j - 1]
    BY <1>8
  <2> QED BY <2>1, <2>2, <2>3, Zenon
<1>6. DOMAIN g = 1..(n - k + 2)
  BY <1>8, SMT
<1>7. \A j \in DOMAIN g : j = 1 \/ (j \in 2..(n - k + 2) /\ k + j - 2 \in k..n)
  BY <1>1, <1>6, SMT
<1>9. CutAt(m, h, k) = g
  BY <1>1, <1>2, <1>4, Zenon DEF CutAt
<1> HIDE <1>4
<1> QED BY <1>1, <1>8, <1>5, <1>6, <1>7, <1>9, Zenon DEF IsCut

LEMMA CutIs ==
  ASSUME CompactTyped, TalkFits, NEW text, Worth(text),
         NEW k, k = Start(text)
  PROVE  k \in 1..Len(talk.hist) /\ k > 1 /\ talk.hist[k].kind # "results"
<1>1. PICK h \in Seq(Messages) : h = talk.hist
  BY SMT DEF CompactTyped
<1>2. PICK n \in Nat : n = Len(h)
  BY SMT
<1>3. n > 0 /\ Paired(h) /\ DOMAIN h = 1..n
  BY <1>1, <1>2, SMT DEF TalkFits
<1>4. PICK j : j = KeepStart(h, text)
  OBVIOUS
<1>5. j \in 1..n
  <2>1. PICK T : T = {i \in 1..n : \/ i = n
                                   \/ /\ Spent(h, text, i, n) <= KeepMax
                                      /\ Spent(h, text, i + 1, n) < KeepRecent
                                      /\ n - i < MinKeep}
    OBVIOUS
  <2>2. j = Min(T)
    BY <1>2, <1>4, <2>1, Zenon DEF KeepStart
  <2>3. T \in SUBSET (1..n) /\ n \in T
    <3>1. n \in 1..n
      BY <1>3, SMT
    <3> QED BY <2>1, <3>1, Zenon
  <2>4. T \in SUBSET Nat /\ T # {}
    BY <2>3, SMT
  <2>5. PICK x \in T : \A y \in T : x <= y
    BY <2>4, LeastNumber, Zenon
  <2>6. j \in T
    BY <2>2, <2>5, Zenon DEF Min
  <2> QED BY <2>3, <2>6, Zenon
<1>6. k = Align(h, j) /\ k > 1
  BY <1>1, <1>4, Zenon DEF Start, Worth
<1>7. CASE h[j].kind = "results"
  <2>1. j > 1 /\ h[j - 1] = Msg("calls", h[j].rs)
    BY <1>3, <1>5, <1>7, Zenon DEF Paired
  <2>2. h[j - 1].kind = "calls"
    BY <2>1, SMT DEF Msg
  <2>3. k = j - 1
    BY <1>6, <1>7, <2>1, <2>2, Zenon DEF Align
  <2>4. k \in 1..n
    BY <1>5, <1>6, <2>3, SMT
  <2>5. h[k].kind # "results"
    BY <2>2, <2>3, SMT
  <2> QED BY <1>1, <1>2, <1>6, <2>4, <2>5, Zenon
<1>8. CASE h[j].kind # "results"
  <2>1. k = j
    BY <1>6, <1>8, Zenon DEF Align
  <2> QED BY <1>1, <1>2, <1>5, <1>6, <1>8, <2>1, Zenon
<1> QED BY <1>7, <1>8

(* The rewritten conversation, and the rows that are reconciled with it. *)
LEMMA Rewritten ==
  ASSUME CompactInv, NEW text, Summarise(text)
  PROVE  /\ new' \in Seq(Messages) /\ NoEnv(new') /\ Paired(new') /\ FewEach(new')
         /\ AllFit(talk.text, budget, new')
         /\ \A r : IsIn(r, new') => IsIn(r, talk.hist)
         /\ index' \in IndexRows /\ \A r \in Results : index'[r] = "none" => index[r] = "none"
         /\ \A r \in Results : IsIn(r, new') /\ text[r] = "preview" => index'[r] # "released"
         /\ UNCHANGED <<talk, budget, files>> /\ fails' \in 0..MaxFailures /\ done' \in 0..MaxCompactions
<1>1. CompactTyped /\ TalkFits
  BY DEF CompactInv
<1>2. PICK h \in Seq(Messages) : h = talk.hist
  BY <1>1, SMT DEF CompactTyped
<1>3. PICK n \in Nat : n = Len(h)
  BY SMT
<1>4. PICK k : k = Start(text)
  OBVIOUS
<1>5. k \in 1..n /\ k > 1 /\ h[k].kind # "results"
  BY <1>1, <1>2, <1>3, <1>4, CutIs, Zenon DEF Summarise
<1>6. PICK m : m = Msg("summary", {})
  OBVIOUS
<1>7. m \in Messages /\ m.kind = "summary" /\ m.rs = {}
  BY <1>6, SMT DEF Msg, Messages, MsgKinds
<1>8. PICK tail : tail = SubSeq(h, k, n)
  OBVIOUS
<1>9. PICK g : g = <<m>> \o tail
  OBVIOUS
<1>10. PICK spared : spared = Referenced(tail, text)
  OBVIOUS
<1>11. /\ new' = g /\ UNCHANGED <<talk, budget, files>> /\ fails' = 0
       /\ done < MaxCompactions /\ done' = done + 1
  BY <1>2, <1>3, <1>4, <1>6, <1>8, <1>9, Zenon DEF Summarise
<1>12. /\ g \in Seq(Messages) /\ g[1] = m /\ DOMAIN g = 1..(n - k + 2)
       /\ \A j \in DOMAIN g : j = 1 \/ (j \in 2..(n - k + 2) /\ k + j - 2 \in k..n /\ g[j] = h[k + j - 2])
  <2>1. k \in 1..Len(h) /\ g = CutAt(m, h, k)
    BY <1>3, <1>5, <1>8, <1>9, Zenon DEF CutAt
  <2>2. IsCut(g, Messages, m, h, k)
    BY <1>7, <2>1, TailOfHistory, Zenon
  <2> QED BY <1>3, <2>2, Zenon DEF IsCut
<1>13. DOMAIN h = 1..n
  BY <1>3, SMT
<1>14. ASSUME NEW j \in DOMAIN g, j # 1
       PROVE  /\ j \in 2..(n - k + 2) /\ k + j - 2 \in DOMAIN h /\ k + j - 2 # 1 /\ g[j] = h[k + j - 2]
  <2>1. j \in 2..(n - k + 2) /\ k + j - 2 \in k..n /\ g[j] = h[k + j - 2]
    BY <1>12, <1>14, Zenon
  <2>2. k + j - 2 \in 1..n /\ k + j - 2 # 1
    BY <1>3, <1>5, <2>1, SMT
  <2> QED BY <1>13, <2>1, <2>2, Zenon
<1>15. EnvLeads(h) /\ Paired(h) /\ FewEach(h) /\ AllFit(talk.text, budget, h)
  BY <1>1, <1>2, Zenon DEF TalkFits
<1>16. NoEnv(g)
  <2> SUFFICES ASSUME NEW j \in DOMAIN g PROVE g[j].kind # "env"
    BY DEF NoEnv
  <2>1. CASE j = 1
    BY <1>7, <1>12, <2>1, SMT
  <2>2. CASE j # 1
    BY <1>14, <1>15, <2>2, Zenon DEF EnvLeads
  <2> QED BY <2>1, <2>2
<1>17. Paired(g)
  <2> SUFFICES ASSUME NEW j \in DOMAIN g, g[j].kind = "results"
               PROVE  j > 1 /\ g[j - 1] = Msg("calls", g[j].rs)
    BY DEF Paired
  <2>1. j # 1
    BY <1>7, <1>12, SMT
  <2>2. j \in 2..(n - k + 2) /\ k + j - 2 \in DOMAIN h /\ g[j] = h[k + j - 2]
    BY <1>14, <2>1, Zenon
  <2>3. PICK i \in Nat : i = k + j - 2
    BY <1>3, <1>5, <2>2, SMT
  <2>4. i > 1 /\ h[i - 1] = Msg("calls", g[j].rs)
    BY <1>15, <2>2, <2>3, Zenon DEF Paired
  <2>5. i # k
    BY <1>5, <2>2, <2>3, Zenon
  <2>6. j - 1 \in DOMAIN g /\ j - 1 # 1 /\ k + (j - 1) - 2 = i - 1 /\ j > 1
    <3>1. DOMAIN g = 1..(n - k + 2)
      BY <1>12, Zenon
    <3>2. j \in 2..(n - k + 2)
      BY <2>2, Zenon
    <3> QED BY <1>3, <1>5, <2>3, <2>5, <3>1, <3>2, SMTT(60)
  <2>7. g[j - 1] = h[k + (j - 1) - 2]
    BY <1>14, <2>6, Zenon
  <2> QED BY <2>4, <2>6, <2>7, Zenon
<1>18. FewEach(g)
  <2> SUFFICES ASSUME NEW j \in DOMAIN g PROVE Cardinality(g[j].rs) <= PerMessage
    BY DEF FewEach
  <2>1. CASE j = 1
    <3>1. Cardinality(g[j].rs) = 0
      BY <1>7, <1>12, <2>1, FS_EmptySet, Zenon
    <3> QED BY <3>1, SMT DEF PerMessage
  <2>2. CASE j # 1
    BY <1>14, <1>15, <2>2, Zenon DEF FewEach
  <2> QED BY <2>1, <2>2
<1>19. AllFit(talk.text, budget, g)
  <2> SUFFICES ASSUME NEW j \in DOMAIN g, g[j].kind = "results" PROVE Fits(talk.text, budget, g[j])
    BY DEF AllFit
  <2>1. j # 1
    BY <1>7, <1>12, SMT
  <2> QED BY <1>14, <1>15, <2>1, Zenon DEF AllFit
<1>20. ASSUME NEW r, IsIn(r, g) PROVE IsIn(r, h) /\ IsIn(r, tail)
  <2>1. PICK j \in DOMAIN g : g[j].kind = "results" /\ r \in g[j].rs
    BY <1>20 DEF IsIn
  <2>2. j # 1
    BY <1>7, <1>12, <2>1, SMT
  <2>3. IsIn(r, h)
    BY <1>14, <2>1, <2>2, Zenon DEF IsIn
  <2>4. DOMAIN tail = 1..(n - k + 1) /\ tail \in Seq(Messages)
    BY <1>3, <1>5, <1>8, SMT
  <2>5. j - 1 \in DOMAIN tail
    BY <1>3, <1>5, <1>12, <2>2, <2>4, SMT
  <2>6. g[j] = tail[j - 1]
    BY <1>3, <1>5, <1>9, <1>12, <2>2, <2>4, SMT
  <2>7. IsIn(r, tail)
    BY <2>1, <2>5, <2>6, Zenon DEF IsIn
  <2> QED BY <2>3, <2>7
<1>21. ASSUME NEW r \in Results, IsIn(r, g), text[r] = "preview" PROVE r \in spared
  <2>1. tail \in Seq(Messages)
    BY <1>3, <1>5, <1>8, SMT
  <2>2. InTalk(tail) = {x \in Results : IsIn(x, tail)}
    BY <2>1, InTalkIs
  <2>3. r \in InTalk(tail)
    BY <1>20, <1>21, <2>2, Zenon
  <2>4. PICK named : named = {x \in InTalk(tail) : text[x] = "preview"}
    OBVIOUS
  <2>5. r \in named
    BY <1>21, <2>3, <2>4, Zenon
  <2>6. spared = IF named # {} THEN named ELSE InTalk(tail)
    BY <1>10, <2>4, Zenon DEF Referenced
  <2> QED BY <2>5, <2>6, Zenon
<1>22. index \in [Results -> {"none", "active", "released", "deleted"}]
  BY <1>1, Zenon DEF CompactTyped, IndexRows
<1>23. /\ index' \in IndexRows
       /\ \A r \in Results : \/ index[r] \notin {"active", "released"} /\ index'[r] = index[r]
                             \/ index[r] \in {"active", "released"} /\ r \in spared /\ index'[r] = "active"
                             \/ index[r] \in {"active", "released"} /\ r \notin spared /\ index'[r] = "released"
  <2>1. PICK away : away = SubSeq(talk.hist, Start(text), Len(talk.hist))
    OBVIOUS
  <2>2. PICK refs : refs = Referenced(away, text)
    OBVIOUS
  <2>3. index' = [r \in Results |-> IF index[r] \notin {"active", "released"} THEN index[r]
                                    ELSE IF r \in refs THEN "active" ELSE "released"]
    BY <2>1, <2>2 DEF Summarise
  <2>4. refs = spared
    BY <1>2, <1>3, <1>4, <1>8, <1>10, <2>1, <2>2, Zenon
  <2> HIDE <2>2
  <2>5. \A r \in Results : \/ index[r] \notin {"active", "released"} /\ index'[r] = index[r]
                           \/ index[r] \in {"active", "released"} /\ r \in refs /\ index'[r] = "active"
                           \/ index[r] \in {"active", "released"} /\ r \notin refs /\ index'[r] = "released"
    BY <2>3, Zenon
  <2>6. index' \in [Results -> {"none", "active", "released", "deleted"}]
    BY <1>22, <2>3, SMT
  <2> QED BY <2>4, <2>5, <2>6, Zenon DEF IndexRows
<1>25. \A r \in Results : index'[r] = "none" => index[r] = "none"
  BY <1>22, <1>23, SMT
<1>26. \A r \in Results : r \in spared => index'[r] # "released"
  BY <1>22, <1>23, SMT
<1>27. fails' \in 0..MaxFailures /\ done' \in 0..MaxCompactions
  <2>1. MaxFailures \in Nat /\ MaxCompactions \in Nat /\ done \in 0..MaxCompactions
    BY <1>1, CompactionAssumption, SMT DEF CompactTyped
  <2> QED BY <1>11, <2>1, SMT
<1> QED BY <1>2, <1>11, <1>12, <1>16, <1>17, <1>18, <1>19, <1>20, <1>21, <1>23, <1>25, <1>26, <1>27, Zenon

LEMMA CompactRenews ==
  ASSUME CompactInv, AutoCompacts \/ ManualCompacts
  PROVE  CompactInv'
<1>1. PICK text : text = IF AutoCompacts THEN ViewText ELSE talk.text
  OBVIOUS
<1>2. Summarise(text)
  BY <1>1, Zenon DEF AutoCompacts, ManualCompacts
<1>3. /\ new' \in Seq(Messages) /\ NoEnv(new') /\ Paired(new') /\ FewEach(new')
      /\ AllFit(talk.text, budget, new')
      /\ \A r : IsIn(r, new') => IsIn(r, talk.hist)
      /\ index' \in IndexRows /\ \A r \in Results : index'[r] = "none" => index[r] = "none"
      /\ \A r \in Results : IsIn(r, new') /\ text[r] = "preview" => index'[r] # "released"
      /\ UNCHANGED <<talk, budget, files>> /\ fails' \in 0..MaxFailures /\ done' \in 0..MaxCompactions
  BY <1>2, Rewritten, Zenon
<1>4. CompactTyped /\ TalkFits /\ BudgetFits /\ (mishap \/ FilesFit)
  BY DEF CompactInv
<1>5. /\ step' \in {"sweeping", "reclaiming"} /\ mishap' \in {mishap, TRUE}
      /\ mishap' \/ (step = "budgeted" /\ step' = "sweeping" /\ text = ViewText /\ mishap' = mishap)
  BY <1>1, Zenon DEF AutoCompacts, ManualCompacts
<1>6. CompactTyped'
  <2>1. step' \in CompactPlaces
    BY <1>5, Zenon DEF CompactPlaces
  <2>2. mishap' \in BOOLEAN
    BY <1>4, <1>5, Zenon DEF CompactTyped
  <2> QED BY <1>3, <1>4, <2>1, <2>2, Zenon DEF CompactTyped
<1>7. TalkFits'
  BY <1>3, <1>4, Zenon DEF TalkFits
<1>8. BudgetFits'
  <2>1. step' \notin {"budgeted", "asking"}
    BY <1>5, Zenon
  <2> QED BY <1>3, <1>4, <2>1, Zenon DEF BudgetFits
<1>9. NewFits'
  BY <1>3, Zenon DEF NewFits
<1>10. mishap' \/ FilesFit'
  <2> SUFFICES ASSUME ~mishap' PROVE FilesFit'
    OBVIOUS
  <2>1. step = "budgeted" /\ step' = "sweeping" /\ text = ViewText /\ ~mishap
    <3>1. step = "budgeted" /\ step' = "sweeping" /\ text = ViewText /\ mishap' = mishap
      BY <1>5, Zenon
    <3> QED BY <3>1, Zenon
  <2>2. NamedIn(talk.text, budget, talk.hist) \subseteq files
    BY <1>4, <2>1, SMT DEF FilesFit
  <2>3. NamedIn(talk.text, budget, new') \subseteq files
    BY <1>3, <2>2, Zenon DEF NamedIn
  <2>4. \A r \in Results : IsPreview(r, talk.text, budget) => text[r] = "preview"
    BY <2>1, Zenon DEF IsPreview, ViewText
  <2>5. \A r \in NamedIn(talk.text, budget, new') : index'[r] # "released"
    BY <1>3, <2>4, Zenon DEF NamedIn
  <2> QED BY <1>3, <2>1, <2>3, <2>5, Zenon DEF FilesFit
<1> QED BY <1>6, <1>7, <1>8, <1>9, <1>10, Zenon DEF CompactInv

(* The sweep takes rows of what the kept tail does not name. *)
LEMMA CompactSweepSteps ==
  ASSUME CompactInv, Swept \/ \E r \in Results : Unlink(r) \/ Settle(r)
  PROVE  CompactInv'
<1>1. CompactTyped /\ TalkFits /\ BudgetFits /\ (mishap \/ FilesFit) /\ (step \in Renewing => NewFits)
  BY DEF CompactInv
<1>2. UNCHANGED <<talk, budget, new, fails, done, mishap>>
  BY Zenon DEF Swept, Unlink, Settle
<1>3. step \in {"sweeping", "reclaiming", "resumed"}
  BY Zenon DEF Swept, Unlink, Settle
<1>4. TalkFits'
  BY <1>1, <1>2, Zenon DEF TalkFits
<1>5. CASE Swept
  <2>1. /\ step' \in {"notified", "idle", "adopting"} /\ UNCHANGED <<files, index>>
        /\ step' \in {"notified", "adopting"} => step \in {"sweeping", "reclaiming"}
        /\ step' = "notified" <=> step = "sweeping"
        /\ step' = "adopting" <=> step = "reclaiming"
        /\ \A r \in Results : index[r] # "released"
    <3>1. /\ step' = CASE step = "sweeping" -> "notified" [] step = "resumed" -> "idle" [] OTHER -> "adopting"
          /\ UNCHANGED <<files, index>> /\ \A r \in Results : index[r] # "released"
      BY <1>5, Zenon DEF Swept
    <3>2. CASE step = "sweeping"
      BY <3>1, <3>2, SMT
    <3>3. CASE step = "resumed"
      BY <3>1, <3>3, SMT
    <3>4. CASE step = "reclaiming"
      BY <3>1, <3>4, SMT
    <3> QED BY <1>3, <3>2, <3>3, <3>4, Zenon
  <2>2. CompactTyped'
    <3>1. step' \in CompactPlaces
      BY <2>1, Zenon DEF CompactPlaces
    <3> QED BY <1>1, <1>2, <2>1, <3>1, Zenon DEF CompactTyped
  <2>3. BudgetFits'
    <3>1. step' \notin {"budgeted", "asking"}
      BY <2>1, Zenon
    <3> QED BY <1>1, <1>2, <2>1, <3>1, Zenon DEF BudgetFits
  <2>4. step' \in Renewing => NewFits'
    <3>1. step' \in Renewing => step \in Renewing
      BY <2>1, SMT DEF Renewing
    <3> QED BY <1>1, <1>2, <3>1, Zenon DEF NewFits
  <2>5. FilesFit => FilesFit'
    <3> SUFFICES ASSUME FilesFit PROVE FilesFit'
      OBVIOUS
    <3>1. step' \notin {"reclaiming", "adopting", "sweeping"}
      BY <1>3, <2>1, SMT DEF FilesFit
    <3>2. step' \notin {"sweeping", "notified"} => step \notin {"sweeping", "notified"}
      BY <1>3, <2>1, SMT
    <3>3. step' \in {"sweeping", "notified"} => step \in {"sweeping", "notified"}
      BY <2>1, <3>1, SMT
    <3> QED BY <1>2, <2>1, <3>1, <3>2, <3>3, Zenon DEF FilesFit
  <2> QED BY <1>1, <1>2, <1>4, <2>2, <2>3, <2>4, <2>5, Zenon DEF CompactInv
<1>6. CASE \E r \in Results : Unlink(r) \/ Settle(r)
  <2>1. PICK x \in Results : Unlink(x) \/ Settle(x)
    BY <1>6
  <2>2. /\ step' = step /\ index[x] = "released"
        /\ files' \in {files, files \ {x}} /\ index' \in {index, [index EXCEPT ![x] = "deleted"]}
    BY <2>1, Zenon DEF Unlink, Settle
  <2>3. /\ files' \subseteq Results /\ files \ {x} \subseteq files' /\ index' \in IndexRows
        /\ \A r \in Results : index'[r] = index[r] \/ (r = x /\ index'[r] = "deleted")
    <3>1. files \subseteq Results /\ index \in [Results -> {"none", "active", "released", "deleted"}]
      BY <1>1, Zenon DEF CompactTyped, IndexRows
    <3>2. CASE index' = index
      BY <2>2, <3>1, <3>2, Zenon DEF IndexRows
    <3>3. CASE index' = [index EXCEPT ![x] = "deleted"]
      <4>1. /\ index' \in [Results -> {"none", "active", "released", "deleted"}]
            /\ \A r \in Results : index'[r] = index[r] \/ (r = x /\ index'[r] = "deleted")
        BY <3>1, <3>3, SMT
      <4> QED BY <2>2, <3>1, <4>1, Zenon DEF IndexRows
    <3> QED BY <2>2, <3>2, <3>3, Zenon
  <2>4. CompactTyped'
    BY <1>1, <1>2, <2>2, <2>3, Zenon DEF CompactTyped
  <2>5. BudgetFits'
    <3>1. \A r \in Results : IsPreview(r, talk.text, budget) => index'[r] # "none"
      BY <1>1, <2>3, SMT DEF BudgetFits
    <3> QED BY <1>1, <1>2, <2>2, <3>1, Zenon DEF BudgetFits
  <2>6. step' \in Renewing => NewFits'
    BY <1>1, <1>2, <2>2, Zenon DEF NewFits
  <2>7. FilesFit => FilesFit'
    <3> SUFFICES ASSUME FilesFit PROVE FilesFit'
      OBVIOUS
    <3>1. step = "sweeping"
      BY <2>2, Zenon DEF FilesFit
    <3>2. NamedIn(talk.text, budget, new) \subseteq files /\ \A r \in NamedIn(talk.text, budget, new) : index[r] # "released"
      BY <3>1, Zenon DEF FilesFit
    <3>3. x \notin NamedIn(talk.text, budget, new)
      BY <2>2, <3>2, Zenon
    <3>4. NamedIn(talk.text, budget, new) \subseteq files'
      BY <2>3, <3>2, <3>3, Zenon
    <3>5. \A r \in NamedIn(talk.text, budget, new) : index'[r] # "released"
      <4>1. NamedIn(talk.text, budget, new) \subseteq Results
        BY Zenon DEF NamedIn
      <4> QED BY <2>3, <3>2, <4>1, SMT
    <3>6. step' \in {"sweeping", "notified"} /\ step' \notin {"reclaiming", "adopting"} /\ step' = "sweeping"
      BY <2>2, <3>1, SMT
    <3> QED BY <1>2, <3>4, <3>5, <3>6, Zenon DEF FilesFit
  <2> QED BY <1>1, <1>2, <1>4, <2>4, <2>5, <2>6, <2>7, Zenon DEF CompactInv
<1> QED BY <1>5, <1>6

(* The conversation with the environment in front again. *)
Renewed(h) == <<Env>> \o h
WholeTalk(h) == EnvLeads(h) /\ Paired(h) /\ FewEach(h) /\ Len(h) > 0
FromOf(g, h) == \A i \in DOMAIN g : g[i].kind = "results" => \E j \in DOMAIN h : g[i] = h[j]

LEMMA RenewedIs ==
  ASSUME NEW h \in Seq(Messages), NoEnv(h), Paired(h), FewEach(h)
  PROVE  Renewed(h) \in Seq(Messages) /\ WholeTalk(Renewed(h)) /\ FromOf(Renewed(h), h)
<1>1. PICK e : e = Env
  OBVIOUS
<1>2. e \in Messages /\ e.kind = "env" /\ e.rs = {}
  BY <1>1, SMT DEF Env, Msg, Messages, MsgKinds
<1>3. PICK g : g = <<e>> \o h
  OBVIOUS
<1>4. PICK n \in Nat : n = Len(h)
  BY SMT
<1>5. g \in Seq(Messages) /\ Len(g) = n + 1 /\ g[1] = e /\ \A i \in 2..(n + 1) : g[i] = h[i - 1]
  <2> HIDE <1>1
  <2> QED BY <1>2, <1>3, <1>4, SMT
<1>6. DOMAIN g = 1..(n + 1) /\ DOMAIN h = 1..n
  BY <1>4, <1>5, SMT
<1>7. ASSUME NEW i \in DOMAIN g, i # 1
      PROVE  i \in 2..(n + 1) /\ i - 1 \in DOMAIN h /\ g[i] = h[i - 1]
  <2>1. i \in 2..(n + 1) /\ i - 1 \in 1..n
    BY <1>6, <1>7, SMT
  <2> QED BY <1>5, <1>6, <2>1, Zenon
<1>8. EnvLeads(g)
  <2> SUFFICES ASSUME NEW i \in DOMAIN g PROVE g[i].kind = "env" <=> i = 1
    BY DEF EnvLeads
  <2>1. CASE i = 1
    BY <1>2, <1>5, <2>1, SMT
  <2>2. CASE i # 1
    BY <1>7, <2>2, Zenon DEF NoEnv
  <2> QED BY <2>1, <2>2
<1>9. Paired(g)
  <2> SUFFICES ASSUME NEW i \in DOMAIN g, g[i].kind = "results"
               PROVE  i > 1 /\ g[i - 1] = Msg("calls", g[i].rs)
    BY DEF Paired
  <2>1. i # 1
    BY <1>2, <1>5, SMT
  <2>2. PICK j \in Nat : j = i - 1
    BY <1>4, <1>7, <2>1, SMT
  <2>3. j \in DOMAIN h /\ g[i] = h[j]
    BY <1>7, <2>1, <2>2, Zenon
  <2>4. j > 1 /\ h[j - 1] = Msg("calls", g[i].rs)
    BY <2>3, Zenon DEF Paired
  <2>5. j \in DOMAIN g /\ j # 1 /\ i > 1
    BY <1>4, <1>6, <2>2, <2>3, <2>4, SMT
  <2>6. g[j] = h[j - 1]
    BY <1>7, <2>5, Zenon
  <2> QED BY <2>2, <2>4, <2>5, <2>6, Zenon
<1>10. FewEach(g)
  <2> SUFFICES ASSUME NEW i \in DOMAIN g PROVE Cardinality(g[i].rs) <= PerMessage
    BY DEF FewEach
  <2>1. CASE i = 1
    <3>1. Cardinality(g[i].rs) = 0
      BY <1>2, <1>5, <2>1, FS_EmptySet, Zenon
    <3> QED BY <3>1, SMT DEF PerMessage
  <2>2. CASE i # 1
    BY <1>7, <2>2, Zenon DEF FewEach
  <2> QED BY <2>1, <2>2
<1>11. FromOf(g, h)
  <2> SUFFICES ASSUME NEW i \in DOMAIN g, g[i].kind = "results" PROVE \E j \in DOMAIN h : g[i] = h[j]
    BY DEF FromOf
  <2>1. i # 1
    BY <1>2, <1>5, SMT
  <2> QED BY <1>7, <2>1, Zenon
<1>12. Len(g) > 0
  BY <1>4, <1>5, SMT
<1>13. Renewed(h) = g
  BY <1>1, <1>3, Zenon DEF Renewed
<1> HIDE <1>3
<1> QED BY <1>5, <1>8, <1>9, <1>10, <1>11, <1>12, <1>13, Zenon DEF WholeTalk

(* The conversation with two messages more. *)
Longer(h, a, b) == h \o <<a, b>>
FollowsIn(a, b) == /\ a.kind \notin {"env", "results"} /\ b.kind # "env"
                   /\ b.kind = "results" => a = Msg("calls", b.rs)
                   /\ Cardinality(a.rs) <= PerMessage /\ Cardinality(b.rs) <= PerMessage
FromOrIs(g, h, b) == \A i \in DOMAIN g : g[i].kind = "results" => g[i] = b \/ \E j \in DOMAIN h : g[i] = h[j]

LEMMA LongerIs ==
  ASSUME NEW h \in Seq(Messages), WholeTalk(h), NEW a \in Messages, NEW b \in Messages, FollowsIn(a, b)
  PROVE  Longer(h, a, b) \in Seq(Messages) /\ WholeTalk(Longer(h, a, b)) /\ FromOrIs(Longer(h, a, b), h, b)
<1>1. PICK g : g = h \o <<a, b>>
  OBVIOUS
<1>2. PICK n \in Nat : n = Len(h)
  BY SMT
<1>3. /\ g \in Seq(Messages) /\ Len(g) = n + 2 /\ g[n + 1] = a /\ g[n + 2] = b
      /\ \A i \in 1..n : g[i] = h[i]
  BY <1>1, <1>2, SMT
<1>4. DOMAIN g = 1..(n + 2) /\ DOMAIN h = 1..n /\ n > 0
  BY <1>2, <1>3, SMT DEF WholeTalk
<1>5. ASSUME NEW i \in DOMAIN g
      PROVE  \/ i \in DOMAIN h /\ g[i] = h[i]
             \/ i = n + 1 /\ g[i] = a
             \/ i = n + 2 /\ g[i] = b
  <2>1. i \in 1..n \/ i = n + 1 \/ i = n + 2
    BY <1>4, SMT
  <2> QED BY <1>3, <1>4, <2>1, Zenon
<1>6. EnvLeads(g)
  <2> SUFFICES ASSUME NEW i \in DOMAIN g PROVE g[i].kind = "env" <=> i = 1
    BY DEF EnvLeads
  <2>1. CASE i \in DOMAIN h /\ g[i] = h[i]
    BY <2>1, Zenon DEF WholeTalk, EnvLeads
  <2>2. CASE i = n + 1 /\ g[i] = a
    BY <1>4, <2>2, SMT DEF FollowsIn
  <2>3. CASE i = n + 2 /\ g[i] = b
    BY <1>4, <2>3, SMT DEF FollowsIn
  <2> QED BY <1>5, <2>1, <2>2, <2>3, Zenon
<1>7. Paired(g)
  <2> SUFFICES ASSUME NEW i \in DOMAIN g, g[i].kind = "results"
               PROVE  i > 1 /\ g[i - 1] = Msg("calls", g[i].rs)
    BY DEF Paired
  <2>1. CASE i \in DOMAIN h /\ g[i] = h[i]
    <3>1. i > 1 /\ h[i - 1] = Msg("calls", g[i].rs)
      BY <2>1, Zenon DEF WholeTalk, Paired
    <3>2. i - 1 \in 1..n
      BY <1>4, <2>1, <3>1, SMT
    <3> QED BY <1>3, <3>1, <3>2, Zenon
  <2>2. CASE i = n + 1 /\ g[i] = a
    BY <2>2, Zenon DEF FollowsIn
  <2>3. CASE i = n + 2 /\ g[i] = b
    <3>1. i > 1 /\ i - 1 = n + 1
      BY <1>4, <2>3, SMT
    <3> QED BY <1>3, <2>3, <3>1, Zenon DEF FollowsIn
  <2> QED BY <1>5, <2>1, <2>2, <2>3, Zenon
<1>8. FewEach(g)
  BY <1>5, Zenon DEF FewEach, WholeTalk, FollowsIn
<1>9. FromOrIs(g, h, b)
  BY <1>5, Zenon DEF FromOrIs, FollowsIn
<1>10. Len(g) > 0
  BY <1>2, <1>3, SMT
<1>11. Longer(h, a, b) = g
  BY <1>1, Zenon DEF Longer
<1> HIDE <1>1
<1> QED BY <1>3, <1>6, <1>7, <1>8, <1>9, <1>10, <1>11, Zenon DEF WholeTalk

(* The new conversation is adopted: by the loop that was told of it, by the    *)
(* command, or from the session's log.                                         *)
LEMMA AdoptionIs ==
  ASSUME CompactInv, step \in {"notified", "adopting"},
         NEW t, t \in {[hist |-> Renewed(new), text |-> ViewText],
                       [hist |-> Renewed(new), text |-> talk.text]},
         NEW b, b \in {budget, [seen |-> {}, replaced |-> {}]}
  PROVE  /\ t \in [hist : Seq(Messages), text : Texts] /\ WholeTalk(t.hist)
         /\ AllFit(t.text, b, t.hist)
         /\ NamedIn(t.text, b, t.hist) \subseteq NamedIn(talk.text, budget, new)
         /\ \A r \in Results : IsPreview(r, t.text, b) => IsPreview(r, talk.text, budget)
<1>1. NewFits /\ CompactTyped
  BY SMT DEF CompactInv, Renewing
<1>2. PICK h \in Seq(Messages) : h = new
  BY <1>1, Zenon DEF CompactTyped
<1>3. PICK g : g = Renewed(h)
  OBVIOUS
<1>4. g \in Seq(Messages) /\ WholeTalk(g) /\ FromOf(g, h)
  BY <1>1, <1>2, <1>3, RenewedIs, Zenon DEF NewFits
<1>5. t.hist = g /\ t.text \in {ViewText, talk.text} /\ t = [hist |-> g, text |-> t.text]
  BY <1>2, <1>3, SMT
<1>6. talk.text \in Texts /\ ViewText \in Texts
  <2>1. talk.text \in Texts
    BY <1>1, SMT DEF CompactTyped
  <2> QED BY <2>1, SMT DEF ViewText, Texts
<1>7. t \in [hist : Seq(Messages), text : Texts]
  BY <1>4, <1>5, <1>6, SMT
<1>8. PICK u \in Texts : u = t.text
  BY <1>5, <1>6, Zenon
<1>9. b = budget \/ (b.seen = {} /\ b.replaced = {})
  BY SMT
<1>10. \A r \in Results : IsPreview(r, u, b) => IsPreview(r, talk.text, budget)
  <2>1. \A r \in Results : u[r] = "preview" => IsPreview(r, talk.text, budget)
    BY <1>5, <1>8, Zenon DEF ViewText, IsPreview
  <2> QED BY <1>9, <2>1, Zenon DEF IsPreview
<1>11. \A r \in Results : talk.text[r] = "preview" => u[r] = "preview"
  BY <1>5, <1>8, Zenon DEF ViewText
<1>12. ASSUME NEW i \in DOMAIN g, g[i].kind = "results" PROVE Fits(u, b, g[i])
  <2>1. PICK j \in DOMAIN h : g[i] = h[j]
    BY <1>4, <1>12, Zenon DEF FromOf
  <2>2. Fits(talk.text, budget, h[j])
    BY <1>1, <1>2, <1>12, <2>1, Zenon DEF NewFits, AllFit
  <2>3. CASE b = budget
    <3>1. PICK m : m = h[j]
      OBVIOUS
    <3>2. m.rs \in SUBSET Results
      BY <2>1, <3>1, MessageIs, Zenon
    <3>3. \A r \in m.rs : IsPreview(r, talk.text, budget) => IsPreview(r, u, budget)
      BY <1>11, <3>2, Zenon DEF IsPreview
    <3>4. Fits(u, budget, m)
      BY <2>2, <3>1, <3>2, <3>3, FitsStill, Zenon
    <3> QED BY <2>1, <2>3, <3>1, <3>4, Zenon
  <2>4. CASE b.seen = {}
    BY <2>4, Zenon DEF Fits
  <2> QED BY <1>9, <2>3, <2>4, Zenon
<1>13. \A r : IsIn(r, g) => IsIn(r, h)
  BY <1>4, Zenon DEF FromOf, IsIn
<1>14. AllFit(u, b, g)
  BY <1>12, Zenon DEF AllFit
<1>15. NamedIn(u, b, g) \subseteq NamedIn(talk.text, budget, h)
  BY <1>10, <1>13, Zenon DEF NamedIn
<1> QED BY <1>2, <1>4, <1>5, <1>7, <1>8, <1>10, <1>14, <1>15, Zenon

LEMMA AdoptSteps ==
  ASSUME CompactInv, Adopt \/ AbandonAdoption
  PROVE  CompactInv'
<1>1. CompactTyped /\ TalkFits /\ BudgetFits /\ (mishap \/ FilesFit)
  BY DEF CompactInv
<1>2. UNCHANGED <<budget, files, index, fails, done>> /\ new' = <<>>
  BY Zenon DEF Adopt, AbandonAdoption
<1>3. step' \in {"again", "idle"}
  BY SMT DEF Adopt, AbandonAdoption
<1>4. step' \in CompactPlaces /\ step' \notin Renewing /\ step' \notin {"budgeted", "asking"}
      /\ step' \notin {"sweeping", "notified"} /\ step' # "sweeping" /\ step' \notin {"reclaiming", "adopting"}
  BY <1>3, SMT DEF CompactPlaces, Renewing
<1>5. new' \in Seq(Messages)
  BY <1>2, SMT
<1>6. CASE AbandonAdoption
  <2>1. talk' = talk /\ mishap' = TRUE
    BY <1>6, Zenon DEF AbandonAdoption
  <2>2. CompactTyped'
    BY <1>1, <1>2, <1>4, <1>5, <2>1, Zenon DEF CompactTyped
  <2>3. TalkFits' /\ BudgetFits'
    BY <1>1, <1>2, <1>4, <2>1, Zenon DEF TalkFits, BudgetFits
  <2> QED BY <1>4, <2>1, <2>2, <2>3, Zenon DEF CompactInv
<1>7. CASE Adopt
  <2>1. step \in {"notified", "adopting"} /\ mishap' = mishap
        /\ talk' \in {[hist |-> Renewed(new), text |-> ViewText], [hist |-> Renewed(new), text |-> talk.text]}
    BY <1>7, Zenon DEF Adopt, Renewed
  <2>2. PICK t : t = talk'
    OBVIOUS
  <2>3. /\ t \in [hist : Seq(Messages), text : Texts] /\ WholeTalk(t.hist)
        /\ AllFit(t.text, budget, t.hist)
        /\ NamedIn(t.text, budget, t.hist) \subseteq NamedIn(talk.text, budget, new)
        /\ \A r \in Results : IsPreview(r, t.text, budget) => IsPreview(r, talk.text, budget)
    BY <2>1, <2>2, AdoptionIs, Zenon
  <2>4. CompactTyped'
    BY <1>1, <1>2, <1>4, <1>5, <2>1, <2>2, <2>3, Zenon DEF CompactTyped
  <2>5. TalkFits'
    BY <1>2, <2>2, <2>3, Zenon DEF TalkFits, WholeTalk
  <2>6. BudgetFits'
    <3>1. \A r \in Results : IsPreview(r, t.text, budget) => index[r] # "none"
      BY <1>1, <2>3, Zenon DEF BudgetFits
    <3> QED BY <1>1, <1>2, <1>4, <2>2, <3>1, Zenon DEF BudgetFits
  <2>7. FilesFit => FilesFit'
    <3> SUFFICES ASSUME FilesFit PROVE FilesFit'
      OBVIOUS
    <3>1. step = "notified"
      BY <2>1, Zenon DEF FilesFit
    <3>2. NamedIn(talk.text, budget, new) \subseteq files /\ \A r \in Results : index[r] # "released"
      BY <3>1, SMT DEF FilesFit
    <3>3. NamedIn(t.text, budget, t.hist) \subseteq files
      BY <2>3, <3>2, Zenon
    <3> QED BY <1>2, <1>4, <2>2, <3>2, <3>3, Zenon DEF FilesFit
  <2> QED BY <1>1, <1>4, <2>1, <2>4, <2>5, <2>6, <2>7, Zenon DEF CompactInv
<1> QED BY <1>6, <1>7

LEMMA CompactCrashKeeps ==
  ASSUME CompactInv, Crash
  PROVE  CompactInv'
<1>1. CompactTyped /\ TalkFits /\ BudgetFits /\ (mishap \/ FilesFit)
  BY DEF CompactInv
<1>2. PICK b : b = [seen |-> {}, replaced |-> {}]
  OBVIOUS
<1>3. b.seen = {} /\ b.replaced = {} /\ b \in [seen : SUBSET Results, replaced : SUBSET Results]
  BY <1>2, SMT
<1>4. /\ budget' = b /\ UNCHANGED <<files, index, done>> /\ new' = <<>> /\ fails' = 0 /\ step' = "resumed"
      /\ mishap' \in BOOLEAN /\ (mishap => mishap')
  BY <1>1, <1>2, Zenon DEF Crash, CompactTyped
<1>5. \/ talk' = talk /\ (step \in {"sweeping", "notified"} => mishap')
      \/ step = "notified" /\ talk' = [talk EXCEPT !.hist = Renewed(new), !.text = ViewText]
  BY Zenon DEF Crash, Renewed
<1>6. step' \in CompactPlaces /\ step' \notin Renewing /\ step' \notin {"budgeted", "asking"}
      /\ step' \notin {"sweeping", "notified"} /\ step' # "sweeping" /\ step' \notin {"reclaiming", "adopting"}
  BY <1>4, SMT DEF CompactPlaces, Renewing
<1>7. new' \in Seq(Messages) /\ fails' \in 0..MaxFailures
  BY <1>4, CompactionAssumption, SMT
<1>8. PICK t : t = talk'
  OBVIOUS
<1>9. /\ t \in [hist : Seq(Messages), text : Texts] /\ WholeTalk(t.hist)
      /\ AllFit(t.text, b, t.hist)
      /\ \A r \in Results : IsPreview(r, t.text, b) => IsPreview(r, talk.text, budget)
      /\ mishap' \/ NamedIn(t.text, b, t.hist) \subseteq files
  <2>1. CASE talk' = talk /\ (step \in {"sweeping", "notified"} => mishap')
    <3>1. \A r \in Results : IsPreview(r, t.text, b) => IsPreview(r, talk.text, budget)
      BY <1>3, <1>8, <2>1, Zenon DEF IsPreview
    <3>2. AllFit(t.text, b, t.hist)
      BY <1>3, Zenon DEF AllFit, Fits
    <3>3. ASSUME ~mishap' PROVE NamedIn(t.text, b, t.hist) \subseteq files
      <4>1. FilesFit /\ step \notin {"sweeping", "notified"}
        BY <1>1, <1>4, <2>1, <3>3, Zenon
      <4>2. NamedIn(talk.text, budget, talk.hist) \subseteq files
        BY <4>1, Zenon DEF FilesFit
      <4> QED BY <1>8, <2>1, <3>1, <4>2, Zenon DEF NamedIn
    <3> QED BY <1>1, <1>8, <2>1, <3>1, <3>2, <3>3, Zenon DEF WholeTalk, TalkFits, CompactTyped
  <2>2. CASE step = "notified" /\ talk' = [talk EXCEPT !.hist = Renewed(new), !.text = ViewText]
    <3>1. t = [hist |-> Renewed(new), text |-> ViewText]
      <4>1. PICK H : H = Renewed(new)
        OBVIOUS
      <4>2. PICK V : V = ViewText
        OBVIOUS
      <4>3. PICK x : x = [talk EXCEPT !.hist = H]
        OBVIOUS
      <4>4. t = [x EXCEPT !.text = V]
        BY <1>8, <2>2, <4>1, <4>2, <4>3, Zenon
      <4> HIDE <4>1, <4>2
      <4>5. x = [hist |-> H, text |-> talk.text]
        BY <1>1, <4>3, SMT DEF CompactTyped
      <4>6. t = [hist |-> H, text |-> V]
        BY <4>4, <4>5, SMT
      <4> QED BY <4>1, <4>2, <4>6, Zenon
    <3>2. /\ t \in [hist : Seq(Messages), text : Texts] /\ WholeTalk(t.hist)
          /\ AllFit(t.text, b, t.hist)
          /\ NamedIn(t.text, b, t.hist) \subseteq NamedIn(talk.text, budget, new)
          /\ \A r \in Results : IsPreview(r, t.text, b) => IsPreview(r, talk.text, budget)
      BY <1>2, <2>2, <3>1, AdoptionIs, Zenon
    <3>3. ASSUME ~mishap' PROVE NamedIn(t.text, b, t.hist) \subseteq files
      <4>1. FilesFit
        BY <1>1, <1>4, <3>3, Zenon
      <4>2. NamedIn(talk.text, budget, new) \subseteq files
        BY <2>2, <4>1, SMT DEF FilesFit
      <4> QED BY <3>2, <4>2, Zenon
    <3> QED BY <3>2, <3>3
  <2> QED BY <1>5, <2>1, <2>2
<1>10. CompactTyped'
  BY <1>1, <1>3, <1>4, <1>6, <1>7, <1>8, <1>9, Zenon DEF CompactTyped
<1>11. TalkFits'
  BY <1>4, <1>8, <1>9, Zenon DEF TalkFits, WholeTalk
<1>12. BudgetFits'
  <2>1. \A r \in Results : IsPreview(r, t.text, b) => index[r] # "none"
    BY <1>1, <1>9, Zenon DEF BudgetFits
  <2>2. b.replaced \subseteq b.seen
    BY <1>3, Zenon
  <2> QED BY <1>4, <1>6, <1>8, <2>1, <2>2, Zenon DEF BudgetFits
<1>13. mishap' \/ FilesFit'
  <2> SUFFICES ASSUME ~mishap' PROVE FilesFit'
    OBVIOUS
  <2>1. FilesFit /\ NamedIn(t.text, b, t.hist) \subseteq files
    BY <1>1, <1>4, <1>9, Zenon
  <2>2. \A r \in Results : index[r] # "released"
    <3>1. CASE step = "sweeping"
      <4>1. talk' # talk \/ mishap'
        BY <3>1, <1>5, SMT
      <4>2. step # "notified"
        BY <3>1, SMT
      <4> QED BY <1>5, <3>1, <4>1, <4>2, Zenon
    <3> QED BY <2>1, <3>1, Zenon DEF FilesFit
  <2> QED BY <1>4, <1>6, <1>8, <2>1, <2>2, Zenon DEF FilesFit
<1> QED BY <1>6, <1>10, <1>11, <1>12, <1>13, Zenon DEF CompactInv

LEMMA CompactTextKeeps ==
  ASSUME CompactInv, TextAnswer \/ SubAgentCompacts
  PROVE  CompactInv'
<1>1. CompactTyped /\ TalkFits /\ BudgetFits /\ (mishap \/ FilesFit)
  BY DEF CompactInv
<1>2. UNCHANGED <<budget, index, new, fails, done>> /\ step = "asking"
  BY Zenon DEF TextAnswer, SubAgentCompacts
<1>3. CASE SubAgentCompacts
  <2>1. UNCHANGED <<talk, step>> /\ files' = {} /\ mishap' = TRUE
    BY <1>3, Zenon DEF SubAgentCompacts
  <2>2. CompactTyped' /\ TalkFits' /\ BudgetFits'
    BY <1>1, <1>2, <2>1, Zenon DEF CompactTyped, TalkFits, BudgetFits
  <2>3. step' \notin Renewing
    BY <1>2, <2>1, SMT DEF Renewing
  <2> QED BY <2>1, <2>2, <2>3, Zenon DEF CompactInv
<1>4. CASE TextAnswer
  <2>1. PICK a : a = Msg("text", {})
    OBVIOUS
  <2>2. PICK b : b = Msg("user", {})
    OBVIOUS
  <2>3. a \in Messages /\ b \in Messages /\ FollowsIn(a, b) /\ b.kind # "results"
    <3>1. a \in Messages /\ b \in Messages /\ a.kind = "text" /\ b.kind = "user" /\ a.rs = {} /\ b.rs = {}
      BY <2>1, <2>2, SMT DEF Msg, Messages, MsgKinds
    <3>2. Cardinality(a.rs) = 0 /\ Cardinality(b.rs) = 0
      BY <3>1, FS_EmptySet, Zenon
    <3> QED BY <3>1, <3>2, SMT DEF FollowsIn, PerMessage
  <2>4. PICK h \in Seq(Messages) : h = talk.hist
    BY <1>1, SMT DEF CompactTyped
  <2>5. PICK g : g = Longer(h, a, b)
    OBVIOUS
  <2>6. g \in Seq(Messages) /\ WholeTalk(g) /\ FromOrIs(g, h, b)
    BY <1>1, <2>3, <2>4, <2>5, LongerIs, Zenon DEF TalkFits, WholeTalk
  <2>7. UNCHANGED <<files, mishap>> /\ step' = "idle" /\ talk' = [talk EXCEPT !.hist = talk.hist \o <<a, b>>]
    BY <1>4, <2>1, <2>2, Zenon DEF TextAnswer
  <2>8. talk' \in [hist : Seq(Messages), text : Texts] /\ talk'.hist = g /\ talk'.text = talk.text
    <3>1. g = talk.hist \o <<a, b>>
      BY <2>4, <2>5, Zenon DEF Longer
    <3>2. talk' = [talk EXCEPT !.hist = g]
      BY <2>7, <3>1, Zenon
    <3>3. talk \in [hist : Seq(Messages), text : Texts]
      BY <1>1, Zenon DEF CompactTyped
    <3> HIDE <2>5
    <3> QED BY <2>6, <3>2, <3>3, SMT
  <2>9. step' \in CompactPlaces /\ step' \notin Renewing /\ step' \notin {"budgeted", "asking"}
        /\ step' \notin {"sweeping", "notified"} /\ step' # "sweeping" /\ step' \notin {"reclaiming", "adopting"}
    BY <2>7, SMT DEF CompactPlaces, Renewing
  <2>10. CompactTyped'
    BY <1>1, <1>2, <2>7, <2>8, <2>9, Zenon DEF CompactTyped
  <2>11. AllFit(talk.text, budget, g)
    BY <1>1, <2>3, <2>4, <2>6, Zenon DEF TalkFits, AllFit, FromOrIs
  <2>12. TalkFits'
    BY <1>2, <2>6, <2>8, <2>11, Zenon DEF TalkFits, WholeTalk
  <2>13. BudgetFits'
    BY <1>1, <1>2, <2>8, <2>9, Zenon DEF BudgetFits
  <2>14. \A r : IsIn(r, g) => IsIn(r, h)
    BY <2>3, <2>6, Zenon DEF FromOrIs, IsIn
  <2>15. FilesFit => FilesFit'
    <3> SUFFICES ASSUME FilesFit PROVE FilesFit'
      OBVIOUS
    <3>1. NamedIn(talk.text, budget, h) \subseteq files /\ \A r \in Results : index[r] # "released"
      BY <1>2, <2>4, SMT DEF FilesFit
    <3>2. NamedIn(talk.text, budget, g) \subseteq files
      BY <2>14, <3>1, Zenon DEF NamedIn
    <3> QED BY <1>2, <2>7, <2>8, <2>9, <3>1, <3>2, Zenon DEF FilesFit
  <2> QED BY <1>1, <2>7, <2>9, <2>10, <2>12, <2>13, <2>15, Zenon DEF CompactInv
<1> QED BY <1>3, <1>4

(* The results of a reply come without a row, and not in the conversation yet. *)
LEMMA ToolsKeep ==
  ASSUME CompactInv, ToolsAnswer
  PROVE  CompactInv'
<1>1. CompactTyped /\ TalkFits /\ BudgetFits /\ (mishap \/ FilesFit)
  BY DEF CompactInv
<1>2. PICK h \in Seq(Messages) : h = talk.hist
  BY <1>1, SMT DEF CompactTyped
<1>3. InTalk(h) = {r \in Results : IsIn(r, h)}
  BY InTalkIs
<1>4. PICK rs \in SUBSET {r \in Results : r \notin budget.seen \cup InTalk(talk.hist) \cup InTalk(new)} :
        LET large == {r \in rs : Size[r] > Single} IN
        /\ rs # {} /\ Cardinality(rs) <= PerMessage
        /\ \A r \in rs : index[r] = "none"
        /\ talk' = [talk EXCEPT !.hist = @ \o <<Msg("calls", rs), Msg("results", rs)>>,
                                !.text = [r \in Results |-> IF r \in large THEN "preview" ELSE @[r]]]
        /\ Persist(large)
  BY Zenon DEF ToolsAnswer
<1>5. PICK large : large = {r \in rs : Size[r] > Single}
  OBVIOUS
<1>6. PICK a : a = Msg("calls", rs)
  OBVIOUS
<1>7. PICK b : b = Msg("results", rs)
  OBVIOUS
<1>8. PICK u : u = [r \in Results |-> IF r \in large THEN "preview" ELSE talk.text[r]]
  OBVIOUS
<1>9. PICK g : g = Longer(h, a, b)
  OBVIOUS
<1>10. rs \subseteq Results /\ large \subseteq rs /\ rs \cap budget.seen = {}
  BY <1>4, <1>5, Zenon
<1>11. a \in Messages /\ b \in Messages /\ FollowsIn(a, b) /\ b.rs = rs /\ b.kind = "results"
  <2>1. /\ a \in Messages /\ b \in Messages /\ a.kind = "calls" /\ b.kind = "results"
        /\ a.rs = rs /\ b.rs = rs
    BY <1>6, <1>7, <1>10, SMT DEF Msg, Messages, MsgKinds
  <2>2. a.kind \notin {"env", "results"} /\ b.kind # "env"
    BY <2>1, SMT
  <2> QED BY <1>4, <1>6, <2>1, <2>2, Zenon DEF FollowsIn
<1>12. g \in Seq(Messages) /\ WholeTalk(g) /\ FromOrIs(g, h, b)
  BY <1>1, <1>2, <1>9, <1>11, LongerIs, Zenon DEF TalkFits, WholeTalk
<1>13. /\ talk' = [[talk EXCEPT !.hist = g] EXCEPT !.text = u]
       /\ files' = files \cup large
       /\ index' = [r \in Results |-> IF r \in large THEN "active" ELSE index[r]]
  BY <1>2, <1>4, <1>5, <1>6, <1>7, <1>8, <1>9, Zenon DEF Persist, Longer
<1>14. UNCHANGED <<budget, new, fails, done, mishap>> /\ step = "asking" /\ step' = "idle"
  BY Zenon DEF ToolsAnswer
<1>15. u \in Texts /\ \A r \in Results : u[r] = IF r \in large THEN "preview" ELSE talk.text[r]
  <2>1. talk.text \in [Results -> {"raw", "preview"}]
    BY <1>1, SMT DEF CompactTyped, Texts
  <2> QED BY <1>8, <2>1, SMT DEF Texts
<1>16. talk' \in [hist : Seq(Messages), text : Texts] /\ talk'.hist = g /\ talk'.text = u
  <2>1. talk \in [hist : Seq(Messages), text : Texts]
    BY <1>1, Zenon DEF CompactTyped
  <2>2. PICK x : x = [talk EXCEPT !.hist = g]
    OBVIOUS
  <2>3. talk' = [x EXCEPT !.text = u]
    BY <1>13, <2>2, Zenon
  <2> HIDE <1>8, <1>9
  <2>4. x \in [hist : Seq(Messages), text : Texts] /\ x.hist = g
    BY <1>12, <2>1, <2>2, SMT
  <2> QED BY <1>15, <2>3, <2>4, SMT
<1>17. step' \in CompactPlaces /\ step' \notin Renewing /\ step' \notin {"budgeted", "asking"}
       /\ step' \notin {"sweeping", "notified"} /\ step' # "sweeping" /\ step' \notin {"reclaiming", "adopting"}
  BY <1>14, SMT DEF CompactPlaces, Renewing
<1>18. files' \subseteq Results /\ index' \in IndexRows
       /\ \A r \in Results : index'[r] = IF r \in large THEN "active" ELSE index[r]
  <2>1. index \in [Results -> {"none", "active", "released", "deleted"}] /\ files \subseteq Results
    BY <1>1, Zenon DEF CompactTyped, IndexRows
  <2>2. index' \in [Results -> {"none", "active", "released", "deleted"}]
        /\ \A r \in Results : index'[r] = IF r \in large THEN "active" ELSE index[r]
    BY <1>13, <2>1, SMT
  <2> QED BY <1>10, <1>13, <2>1, <2>2, Zenon DEF IndexRows
<1>19. CompactTyped'
  BY <1>1, <1>14, <1>16, <1>17, <1>18, Zenon DEF CompactTyped
\* None of the new results was a preview before.
<1>20. \A r \in rs : ~IsPreview(r, talk.text, budget)
  BY <1>1, <1>4, <1>10, Zenon DEF BudgetFits
<1>21. \A r \in Results : IsPreview(r, talk.text, budget) => IsPreview(r, u, budget)
  BY <1>15, Zenon DEF IsPreview
<1>22. \A r \in Results : IsPreview(r, u, budget) => r \in large \/ IsPreview(r, talk.text, budget)
  BY <1>15, Zenon DEF IsPreview
<1>23. AllFit(u, budget, g)
  <2> SUFFICES ASSUME NEW i \in DOMAIN g, g[i].kind = "results" PROVE Fits(u, budget, g[i])
    BY DEF AllFit
  <2>1. CASE g[i] = b
    <3>1. g[i].rs \cap budget.seen = {}
      BY <1>10, <1>11, <2>1, Zenon
    <3> QED BY <3>1, Zenon DEF Fits
  <2>2. CASE g[i] # b
    <3>1. PICK j \in DOMAIN h : g[i] = h[j]
      BY <1>12, <2>2, Zenon DEF FromOrIs
    <3>2. PICK m : m = h[j]
      OBVIOUS
    <3>3. Fits(talk.text, budget, m)
      BY <1>1, <1>2, <3>1, <3>2, Zenon DEF TalkFits, AllFit
    <3>4. m.rs \in SUBSET Results
      BY <3>1, <3>2, MessageIs, Zenon
    <3>5. \A r \in m.rs : IsPreview(r, talk.text, budget) => IsPreview(r, u, budget)
      BY <1>21, <3>4, Zenon
    <3>6. Fits(u, budget, m)
      BY <3>3, <3>4, <3>5, FitsStill, Zenon
    <3> QED BY <3>1, <3>2, <3>6, Zenon
  <2> QED BY <2>1, <2>2
<1>24. TalkFits'
  BY <1>12, <1>14, <1>16, <1>23, Zenon DEF TalkFits, WholeTalk
<1>25. BudgetFits'
  <2>1. \A r \in Results : IsPreview(r, u, budget) => index'[r] # "none"
    BY <1>1, <1>18, <1>22, SMT DEF BudgetFits
  <2> QED BY <1>1, <1>14, <1>16, <1>17, <2>1, Zenon DEF BudgetFits
<1>26. FilesFit => FilesFit'
  <2> SUFFICES ASSUME FilesFit PROVE FilesFit'
    OBVIOUS
  <2>1. NamedIn(talk.text, budget, h) \subseteq files /\ \A r \in Results : index[r] # "released"
    BY <1>2, <1>14, SMT DEF FilesFit
  <2>2. \A r : IsIn(r, g) => IsIn(r, h) \/ r \in rs
    BY <1>11, <1>12, Zenon DEF FromOrIs, IsIn
  <2>3. NamedIn(u, budget, g) \subseteq files'
    <3> SUFFICES ASSUME NEW r \in Results, IsIn(r, g), IsPreview(r, u, budget), r \notin large
                 PROVE  r \in files
      BY <1>13, Zenon DEF NamedIn
    <3>1. IsPreview(r, talk.text, budget)
      BY <1>22, Zenon
    <3>2. IsIn(r, h)
      BY <1>20, <2>2, <3>1, Zenon
    <3> QED BY <2>1, <3>1, <3>2, Zenon DEF NamedIn
  <2>4. \A r \in Results : index'[r] # "released"
    BY <1>18, <2>1, SMT
  <2> QED BY <1>14, <1>16, <1>17, <2>3, <2>4, Zenon DEF FilesFit
<1> QED BY <1>1, <1>14, <1>17, <1>19, <1>24, <1>25, <1>26, Zenon DEF CompactInv

LEMMA CompactInvNext == CompactInv /\ [CompactNext]_compactVars => CompactInv'
<1> SUFFICES ASSUME CompactInv, [CompactNext]_compactVars PROVE CompactInv'
  OBVIOUS
<1>1. CASE UNCHANGED compactVars
  BY <1>1, Zenon DEF compactVars, CompactInv, CompactTyped, TalkFits, BudgetFits, FilesFit, NewFits
<1>2. CASE CompactNext
  BY <1>2, BudgetSteps, CompactRests, CompactRenews, CompactSweepSteps, AdoptSteps, CompactCrashKeeps,
     CompactTextKeeps, ToolsKeep, Zenon DEF CompactNext
<1> QED BY <1>1, <1>2

-----------------------------------------------------------------------------
(* Memories.  A message that was taken lies at or before the count, and what    *)
(* is being taken was not taken yet: which only a compacted conversation and    *)
(* another one can break together, for the one moves messages to the front, and *)
(* the other sets the count.                                                    *)
ChatSaid == [Chats -> Seq(Nat)]
DiaryRow == [said : ChatSaid, ids : Nat, counted : Nat, loops : Nat,
             noted : SUBSET Nat, repeated : SUBSET Nat]
TakingRow == [of : Chats \cup {NoChat}, batch : SUBSET Nat]

NotesTyped == /\ diary \in DiaryRow /\ taking \in TakingRow
              /\ chat \in Chats /\ due \subseteq Chats
\* Nothing is known that was not said.
NotesBounded == /\ diary.ids <= MaxSaid /\ diary.counted <= diary.ids
                /\ diary.noted \subseteq 1..diary.ids /\ taking.batch \subseteq 1..diary.ids
                /\ \A c \in Chats : /\ Len(diary.said[c]) <= diary.ids
                                    /\ \A i \in DOMAIN diary.said[c] : diary.said[c][i] \in 1..diary.ids

NotedBefore(s, n, k) == \A c \in Chats : \A i \in DOMAIN s[c] : s[c][i] \in n => i <= k
ChatsApart(s) == \A c, d \in Chats : c # d => \A i \in DOMAIN s[c], j \in DOMAIN s[d] : s[c][i] # s[d][j]
AllSaidIn(b, s) == \A m \in b : \E i \in DOMAIN s : s[i] = m
\* The positions of s up to k (or after it) hold messages of n.
HeldUpTo(s, k, n) == \A i \in DOMAIN s : i <= k => s[i] \in n
HeldAfter(s, k, n) == \A i \in DOMAIN s : i > k => s[i] \in n

TakenOnce == /\ diary.repeated = {} /\ taking.batch \cap diary.noted = {}
             /\ NotedBefore(diary.said, diary.noted, diary.counted)
NeverLeft == /\ \A c \in Chats \ {chat} : diary.said[c] = <<>>
             /\ due \subseteq {chat} /\ taking.of \in {chat, NoChat}
NeverCompacted == /\ ChatsApart(diary.said)
                  /\ taking.of # NoChat => /\ AllSaidIn(taking.batch, diary.said[taking.of])
                                           /\ diary.counted < Len(diary.said[taking.of])
NothingPassed == /\ HeldUpTo(diary.said[chat], diary.counted, diary.noted \cup overtaken)
                 /\ diary.counted <= Len(diary.said[chat])
                 /\ taking.of = chat => HeldAfter(diary.said[chat], diary.counted,
                                                  taking.batch \cup overtaken)
NotesInv ==
  /\ NotesTyped /\ NotesBounded
  /\ ("compacted" \in replaced /\ "left" \in replaced) \/ TakenOnce
  /\ "left" \in replaced \/ NeverLeft
  /\ "compacted" \in replaced \/ NeverCompacted
  /\ replaced # {} \/ NothingPassed

LEMMA SeqMembers ==
  ASSUME NEW S, NEW T, NEW s \in Seq(S), \A i \in 1..Len(s) : s[i] \in T
  PROVE  s \in Seq(T)
<1>1. Len(s) \in Nat /\ s = [i \in 1..Len(s) |-> s[i]]
  BY SMT
<1>2. [i \in 1..Len(s) |-> s[i]] \in Seq(T)
  BY <1>1, IsASeq
<1> QED BY <1>1, <1>2, Zenon

LEMMA NotesInvGives == NotesInv => NotesTypeOK /\ NotesAccounted
<1> SUFFICES ASSUME NotesInv PROVE NotesTypeOK /\ NotesAccounted
  OBVIOUS
<1> USE MemoryAssumption DEF NotesInv, NotesTyped, NotesBounded, DiaryRow, ChatSaid, TakingRow
<1>1. ASSUME NEW c \in Chats PROVE diary.said[c] \in Seq(1..MaxSaid)
  <2>1. diary.said[c] \in Seq(Nat) /\ \A i \in DOMAIN diary.said[c] : diary.said[c][i] \in 1..MaxSaid
    BY SMT
  <2>2. PICK s : s = diary.said[c]
    OBVIOUS
  <2> HIDE DEF NotesInv, NotesTyped, NotesBounded, DiaryRow, TakingRow
  <2>3. s \in Seq(Nat) /\ \A i \in 1..Len(s) : s[i] \in 1..MaxSaid
    BY <2>1, <2>2, SMT
  <2>4. s \in Seq(1..MaxSaid)
    BY <2>3, SeqMembers, Zenon
  <2> QED BY <2>2, <2>4, Zenon
<1>2. diary.said \in [Chats -> Seq(1..MaxSaid)]
  BY <1>1, Zenon
<1>3. NotesTypeOK
  BY <1>2, SMT DEF NotesTypeOK
<1>4. {"compacted", "left"} \subseteq replaced \/ diary.repeated = {}
  BY SMT DEF TakenOnce
<1>5. replaced # {} \/ \A i \in DOMAIN diary.said[chat] :
         i <= diary.counted => diary.said[chat][i] \in diary.noted \cup overtaken
  BY Zenon DEF NothingPassed, HeldUpTo
<1> QED BY <1>3, <1>4, <1>5, Zenon DEF NotesAccounted

LEMMA NotesInvInit == NotesInit => NotesInv
<1> SUFFICES ASSUME NotesInit PROVE NotesInv
  OBVIOUS
<1> USE MemoryAssumption DEF NotesInit
<1>1. chat \in Chats
  BY Zenon
<1>2. diary.said = [c \in Chats |-> <<>>] /\ diary.ids = 0 /\ diary.counted = 0
      /\ diary.noted = {} /\ diary.repeated = {} /\ diary.loops = 0
  BY SMT
<1>3. taking.of = NoChat /\ taking.batch = {} /\ NoChat \notin Chats
  BY SMT
<1>4. NotesTyped
  BY <1>1, SMT DEF NotesTyped, DiaryRow, ChatSaid, TakingRow
<1>5. \A c \in Chats : diary.said[c] = <<>>
  BY <1>2, Zenon
<1>6. NotesBounded
  BY <1>2, <1>3, <1>5, SMT DEF NotesBounded
<1>7. TakenOnce
  BY <1>2, <1>3, <1>5, SMT DEF TakenOnce, NotedBefore
<1>8. NeverLeft
  BY <1>1, <1>3, <1>5, SMT DEF NeverLeft
<1>9. NeverCompacted
  BY <1>3, <1>5, SMT DEF NeverCompacted, ChatsApart
<1>10. NothingPassed
  BY <1>1, <1>3, <1>5, SMT DEF NothingPassed, HeldUpTo
<1> QED BY <1>4, <1>6, <1>7, <1>8, <1>9, <1>10, Zenon DEF NotesInv

(* What a step makes of the conversation it is about, in each of its parts. *)
DiaryWith(d, f, k, l) == [d EXCEPT !.said = f, !.ids = k, !.loops = l]
DiaryHas(e, d, f, k) == /\ e \in DiaryRow /\ e.ids = k /\ e.said = f
                        /\ e.counted = d.counted /\ e.noted = d.noted /\ e.repeated = d.repeated
LEMMA DiaryParts ==
  ASSUME NEW d \in DiaryRow, NEW f \in ChatSaid, NEW k \in Nat, NEW l \in Nat
  PROVE  DiaryHas(DiaryWith(d, f, k, l), d, f, k)
<1>1. PICK a : a = [d EXCEPT !.said = f]
  OBVIOUS
<1>2. PICK b : b = [a EXCEPT !.ids = k]
  OBVIOUS
<1>3. PICK e : e = [b EXCEPT !.loops = l]
  OBVIOUS
<1>4. /\ a \in DiaryRow /\ a.said = f
      /\ a.counted = d.counted /\ a.noted = d.noted /\ a.repeated = d.repeated
  BY <1>1, SMT DEF DiaryRow
<1>5. /\ b \in DiaryRow /\ b.ids = k /\ b.said = a.said
      /\ b.counted = a.counted /\ b.noted = a.noted /\ b.repeated = a.repeated
  BY <1>2, <1>4, SMT DEF DiaryRow
<1>6. /\ e \in DiaryRow /\ e.ids = b.ids /\ e.said = b.said
      /\ e.counted = b.counted /\ e.noted = b.noted /\ e.repeated = b.repeated
  BY <1>3, <1>5, SMT DEF DiaryRow
<1>7. e = DiaryWith(d, f, k, l)
  BY <1>1, <1>2, <1>3, Zenon DEF DiaryWith
<1>8. DiaryHas(e, d, f, k)
  BY <1>4, <1>5, <1>6, Zenon DEF DiaryHas
<1> QED BY <1>7, <1>8, Zenon

LEMMA DiarySaid ==
  ASSUME NEW c \in Chats, NEW s \in Seq(Nat), NEW l \in Nat, diary \in DiaryRow,
         diary' = [diary EXCEPT !.said[c] = s, !.ids = @ + 1, !.loops = l]
  PROVE  /\ diary' \in DiaryRow /\ diary'.ids = diary.ids + 1 /\ diary'.said[c] = s
         /\ \A x \in Chats \ {c} : diary'.said[x] = diary.said[x]
         /\ diary'.counted = diary.counted /\ diary'.noted = diary.noted
         /\ diary'.repeated = diary.repeated
<1>1. PICK f : f = [diary.said EXCEPT ![c] = s]
  OBVIOUS
<1>2. PICK k : k = diary.ids + 1
  OBVIOUS
<1>3. diary.said \in [Chats -> Seq(Nat)] /\ k \in Nat
  BY <1>2, SMT DEF DiaryRow, ChatSaid
<1>4. diary' = DiaryWith(diary, f, k, l)
  BY <1>1, <1>2, Zenon DEF DiaryWith
<1>5. f \in [Chats -> Seq(Nat)] /\ f[c] = s /\ \A x \in Chats \ {c} : f[x] = diary.said[x]
  BY <1>1, <1>3, Assigned, Zenon
<1>6. f \in ChatSaid
  BY <1>5, Zenon DEF ChatSaid
<1>7. DiaryHas(DiaryWith(diary, f, k, l), diary, f, k)
  BY <1>3, <1>6, DiaryParts, Zenon
<1>8. DiaryHas(diary', diary, f, k)
  BY <1>4, <1>7, Zenon
<1> QED BY <1>2, <1>5, <1>8, Zenon DEF DiaryHas

LEMMA NotesSay ==
  ASSUME NotesInv, NEW reply \in BOOLEAN, Say(reply)
  PROVE  NotesInv'
<1> USE MemoryAssumption
<1> DEFINE s == diary.said[chat]
           n == diary.ids + 1
<1>1. /\ diary \in DiaryRow /\ taking \in TakingRow /\ chat \in Chats /\ due \subseteq Chats
      /\ diary.said \in [Chats -> Seq(Nat)] /\ s \in Seq(Nat) /\ n \in Nat /\ diary.counted \in Nat
  BY SMT DEF NotesInv, NotesTyped, DiaryRow, ChatSaid
<1>2. UNCHANGED <<chat, taking, stashed, replaced>> /\ n <= MaxSaid
  BY DEF Say, NextMessage
<1>3. due' \subseteq due \cup {chat}
  BY DEF Say
<1>4. overtaken \subseteq overtaken' /\ (taking.of = chat => n \in overtaken')
  BY SMT DEF Say, NextMessage
<1>5. /\ diary' \in DiaryRow /\ diary'.ids = n
      /\ diary'.said[chat] = Append(s, n)
      /\ \A d \in Chats \ {chat} : diary'.said[d] = diary.said[d]
      /\ diary'.counted = diary.counted /\ diary'.noted = diary.noted
      /\ diary'.repeated = diary.repeated
  <2>1. PICK t : t = Append(s, n)
    OBVIOUS
  <2>2. PICK l : l = IF reply THEN diary.loops + 1 ELSE diary.loops
    OBVIOUS
  <2>3. t \in Seq(Nat) /\ l \in Nat
    BY <1>1, <2>1, <2>2, SMT DEF DiaryRow
  <2>4. diary' = [diary EXCEPT !.said[chat] = t, !.ids = @ + 1, !.loops = l]
    BY <2>1, <2>2, Zenon DEF Say, NextMessage
  <2> HIDE DEF s, n
  <2> QED BY <1>1, <2>1, <2>3, <2>4, DiarySaid, Zenon DEF n
<1>6. /\ Len(diary'.said[chat]) = Len(s) + 1 /\ Len(s) \in Nat
      /\ diary'.said[chat][Len(s) + 1] = n
      /\ \A i \in 1..Len(s) : diary'.said[chat][i] = s[i]
      /\ DOMAIN diary'.said[chat] = 1..(Len(s) + 1) /\ DOMAIN s = 1..Len(s)
  BY <1>1, <1>5, SMT
<1>7. /\ diary.ids \in Nat /\ diary.counted <= diary.ids
      /\ diary.noted \subseteq 1..diary.ids /\ taking.batch \subseteq 1..diary.ids
      /\ \A c \in Chats : /\ Len(diary.said[c]) <= diary.ids
                          /\ \A i \in DOMAIN diary.said[c] : diary.said[c][i] \in 1..diary.ids
  BY SMT DEF NotesInv, NotesTyped, NotesBounded, DiaryRow
<1>8. NotesTyped'
  BY <1>1, <1>2, <1>3, <1>5, SMT DEF NotesTyped
<1> HIDE DEF s
\* A message of the new conversations is an old one at its place, or the new one.
<1>9. ASSUME NEW c \in Chats, NEW i \in DOMAIN diary'.said[c]
      PROVE  \/ i \in DOMAIN diary.said[c] /\ diary'.said[c][i] = diary.said[c][i]
             \/ c = chat /\ diary'.said[c][i] = n /\ i = Len(s) + 1
  <2>1. CASE c = chat
    <3>1. i \in 1..(Len(s) + 1)
      BY <1>6, <2>1, Zenon
    <3>2. i \in 1..Len(s) \/ i = Len(s) + 1
      BY <1>6, <3>1, SMT
    <3> QED BY <1>6, <2>1, <3>2, Zenon DEF s
  <2>2. CASE c # chat
    BY <1>5, <2>2, Zenon
  <2> QED BY <2>1, <2>2
<1>10. NotesBounded'
  <2>1. ASSUME NEW c \in Chats PROVE Len(diary'.said[c]) <= n
    <3>1. CASE c = chat
      BY <1>1, <1>6, <1>7, <3>1, SMT DEF s
    <3>2. CASE c # chat
      <4>1. diary'.said[c] = diary.said[c] /\ Len(diary.said[c]) <= diary.ids
        BY <1>5, <1>7, <3>2, Zenon
      <4>2. Len(diary.said[c]) \in Nat
        BY <1>1, SMT
      <4> QED BY <1>7, <4>1, <4>2, SMT
    <3> QED BY <3>1, <3>2
  <2>2. ASSUME NEW c \in Chats, NEW i \in DOMAIN diary'.said[c] PROVE diary'.said[c][i] \in 1..n
    <3>1. CASE diary'.said[c][i] = n
      BY <1>1, <1>7, <3>1, SMT
    <3>2. CASE i \in DOMAIN diary.said[c] /\ diary'.said[c][i] = diary.said[c][i]
      <4>1. diary'.said[c][i] \in 1..diary.ids
        BY <1>7, <3>2, Zenon
      <4> QED BY <1>7, <4>1, SMT
    <3> QED BY <1>9, <3>1, <3>2, Zenon
  <2>3. /\ diary'.ids <= MaxSaid /\ diary'.counted <= diary'.ids
        /\ diary'.noted \subseteq 1..diary'.ids /\ taking'.batch \subseteq 1..diary'.ids
    BY <1>1, <1>2, <1>5, <1>7, SMT
  <2> QED BY <1>5, <2>1, <2>2, <2>3, Zenon DEF NotesBounded
<1>11. n \notin diary.noted /\ n \notin taking.batch /\ \A c \in Chats : \A i \in DOMAIN diary.said[c] : diary.said[c][i] # n
  BY <1>7, SMT
<1>12. TakenOnce => TakenOnce'
  BY <1>2, <1>5, <1>9, <1>11, Zenon DEF TakenOnce, NotedBefore
<1>13. NeverLeft => NeverLeft'
  BY <1>2, <1>3, <1>5, Zenon DEF NeverLeft
<1>14. NeverCompacted => NeverCompacted'
  <2> SUFFICES ASSUME NeverCompacted PROVE NeverCompacted'
    OBVIOUS
  <2>1. ChatsApart(diary'.said)
    <3> SUFFICES ASSUME NEW c \in Chats, NEW d \in Chats, c # d,
                        NEW i \in DOMAIN diary'.said[c], NEW j \in DOMAIN diary'.said[d]
                 PROVE  diary'.said[c][i] # diary'.said[d][j]
      BY Zenon DEF ChatsApart
    <3>1. \A x \in DOMAIN diary.said[c], y \in DOMAIN diary.said[d] : diary.said[c][x] # diary.said[d][y]
      BY Zenon DEF NeverCompacted, ChatsApart
    <3>2. \/ i \in DOMAIN diary.said[c] /\ diary'.said[c][i] = diary.said[c][i]
          \/ c = chat /\ diary'.said[c][i] = n
      BY <1>9, Zenon
    <3>3. \/ j \in DOMAIN diary.said[d] /\ diary'.said[d][j] = diary.said[d][j]
          \/ d = chat /\ diary'.said[d][j] = n
      BY <1>9, Zenon
    <3> HIDE DEF n
    <3> QED BY <1>11, <3>1, <3>2, <3>3, Zenon
  <2>2. ASSUME taking.of # NoChat
        PROVE  AllSaidIn(taking.batch, diary'.said[taking.of]) /\ diary'.counted < Len(diary'.said[taking.of])
    <3>1. taking.of \in Chats
      BY <1>1, <2>2, SMT DEF TakingRow
    <3>2. AllSaidIn(taking.batch, diary.said[taking.of]) /\ diary.counted < Len(diary.said[taking.of])
      BY <2>2, Zenon DEF NeverCompacted
    <3>3. CASE taking.of = chat
      <4>1. AllSaidIn(taking.batch, s) /\ diary.counted < Len(s)
        BY <3>2, <3>3, Zenon DEF s
      <4>2. diary'.counted < Len(diary'.said[chat])
        BY <1>1, <1>5, <1>6, <4>1, SMT
      <4>3. DOMAIN s \subseteq DOMAIN diary'.said[chat]
        BY <1>6, SMT
      <4>4. AllSaidIn(taking.batch, diary'.said[chat])
        BY <1>6, <4>1, <4>3, Zenon DEF AllSaidIn
      <4> QED BY <3>3, <4>2, <4>4, Zenon
    <3>4. CASE taking.of # chat
      BY <1>5, <3>1, <3>2, <3>4, Zenon
    <3> QED BY <3>3, <3>4
  <2> QED BY <1>2, <2>1, <2>2, Zenon DEF NeverCompacted
<1>15. NothingPassed => NothingPassed'
  <2> SUFFICES ASSUME NothingPassed PROVE NothingPassed'
    OBVIOUS
  <2>1. HeldUpTo(s, diary.counted, diary.noted \cup overtaken) /\ diary.counted <= Len(s)
        /\ (taking.of = chat => HeldAfter(s, diary.counted, taking.batch \cup overtaken))
    BY Zenon DEF NothingPassed, s
  <2>2. diary'.counted <= Len(diary'.said[chat])
    BY <1>1, <1>5, <1>6, <2>1, SMT
  <2>3. HeldUpTo(diary'.said[chat], diary'.counted, diary'.noted \cup overtaken')
    BY <1>1, <1>4, <1>5, <1>6, <2>1, SMT DEF HeldUpTo
  <2>4. taking.of = chat => HeldAfter(diary'.said[chat], diary'.counted, taking.batch \cup overtaken')
    BY <1>1, <1>4, <1>5, <1>6, <2>1, SMT DEF HeldAfter
  <2> QED BY <1>2, <2>2, <2>3, <2>4, Zenon DEF NothingPassed
<1> QED BY <1>2, <1>8, <1>10, <1>12, <1>13, <1>14, <1>15, Zenon DEF NotesInv

(* What an extraction takes: the messages past the count. *)
TakesFrom(d, c, b) == /\ b \subseteq Nat /\ HeldAfter(d.said[c], d.counted, b)
                      /\ \A m \in b : \E i \in DOMAIN d.said[c] : i > d.counted /\ d.said[c][i] = m
                      /\ b # {} => d.counted < Len(d.said[c])
LEMMA RecentTakes ==
  ASSUME NEW d \in DiaryRow, NEW c \in Chats
  PROVE  TakesFrom(d, c, Recent(d, c))
<1>1. PICK s \in Seq(Nat) : s = d.said[c]
  BY SMT DEF DiaryRow, ChatSaid
<1>2. PICK k \in Nat : k = d.counted
  BY SMT DEF DiaryRow
<1>3. PICK b : b = {s[i] : i \in {j \in DOMAIN s : j > k}}
  OBVIOUS
<1>4. Recent(d, c) = b
  BY <1>1, <1>2, <1>3, Zenon DEF Recent
<1>5. \A m : m \in b <=> \E i \in DOMAIN s : i > k /\ s[i] = m
  BY <1>3, Zenon
<1>6. DOMAIN s = 1..Len(s) /\ Len(s) \in Nat /\ \A i \in DOMAIN s : s[i] \in Nat
  BY SMT
<1> HIDE <1>3
<1>7. b \subseteq Nat
  BY <1>5, <1>6, Zenon
<1>8. HeldAfter(s, k, b)
  BY <1>5, Zenon DEF HeldAfter
<1>9. b # {} => k < Len(s)
  BY <1>5, <1>6, SMT
<1> QED BY <1>1, <1>2, <1>4, <1>5, <1>7, <1>8, <1>9, Zenon DEF TakesFrom

(* An extraction that starts, on messages that were not taken. *)
LEMMA TakesGives ==
  ASSUME NEW d \in DiaryRow, NEW c \in Chats, NEW b, TakesFrom(d, c, b)
  PROVE  /\ AllSaidIn(b, d.said[c])
         /\ NotedBefore(d.said, d.noted, d.counted) => b \cap d.noted = {}
         /\ (\A i \in DOMAIN d.said[c] : d.said[c][i] \in 1..d.ids) => b \subseteq 1..d.ids
<1>1. \A m \in b : \E i \in DOMAIN d.said[c] : i > d.counted /\ d.said[c][i] = m
  BY Zenon DEF TakesFrom
<1>2. AllSaidIn(b, d.said[c])
  BY <1>1, Zenon DEF AllSaidIn
<1>3. (\A i \in DOMAIN d.said[c] : d.said[c][i] \in 1..d.ids) => b \subseteq 1..d.ids
  BY <1>1, Zenon
<1>4. ASSUME NotedBefore(d.said, d.noted, d.counted), NEW m \in b, m \in d.noted PROVE FALSE
  <2>1. PICK i \in DOMAIN d.said[c] : i > d.counted /\ d.said[c][i] = m
    BY <1>1
  <2>2. i <= d.counted
    BY <1>4, <2>1, Zenon DEF NotedBefore
  <2>3. PICK s \in Seq(Nat) : s = d.said[c]
    BY SMT DEF DiaryRow, ChatSaid
  <2>4. i \in DOMAIN s /\ d.counted \in Nat
    BY <2>3, SMT DEF DiaryRow
  <2> QED BY <2>1, <2>2, <2>4, SMT
<1> QED BY <1>2, <1>3, <1>4, Zenon

LEMMA NotesAsked ==
  ASSUME NotesInv, NEW c \in Chats, ExtractionAsked(c)
  PROVE  NotesInv'
<1>1. /\ diary \in DiaryRow /\ taking \in TakingRow /\ chat \in Chats /\ due \subseteq Chats
  BY Zenon DEF NotesInv, NotesTyped
<1>2. UNCHANGED <<diary, chat, overtaken, replaced>> /\ due' \subseteq due /\ c \in due
  BY Zenon DEF ExtractionAsked
<1>3. CASE taking' = taking
  BY <1>2, <1>3, Zenon DEF NotesInv, NotesTyped, NotesBounded, TakenOnce, NeverLeft, NeverCompacted,
                           NothingPassed
<1>4. CASE taking.of = NoChat /\ taking' = [of |-> c, batch |-> Recent(diary, c)] /\ Recent(diary, c) # {}
  <2>1. PICK b : b = Recent(diary, c)
    OBVIOUS
  <2>2. TakesFrom(diary, c, b) /\ b # {}
    BY <1>1, <1>4, <2>1, RecentTakes, Zenon
  <2>3. /\ AllSaidIn(b, diary.said[c])
        /\ NotedBefore(diary.said, diary.noted, diary.counted) => b \cap diary.noted = {}
        /\ (\A i \in DOMAIN diary.said[c] : diary.said[c][i] \in 1..diary.ids) => b \subseteq 1..diary.ids
    BY <1>1, <2>2, TakesGives, Zenon
  <2>4. taking' = [of |-> c, batch |-> b]
    BY <1>4, <2>1, Zenon
  <2>5. taking'.of = c /\ taking'.batch = b
    BY <2>4, SMT
  <2>6. NotesTyped'
    BY <1>1, <1>2, <2>2, <2>4, SMT DEF NotesTyped, TakingRow, TakesFrom
  <2>7. NotesBounded'
    BY <1>2, <2>3, <2>5, Zenon DEF NotesInv, NotesBounded
  <2>8. TakenOnce => TakenOnce'
    BY <1>2, <2>3, <2>5, Zenon DEF TakenOnce
  <2>9. NeverLeft => NeverLeft'
    BY <1>2, <2>5, Zenon DEF NeverLeft
  <2>10. NeverCompacted => NeverCompacted'
    BY <1>2, <2>2, <2>3, <2>5, Zenon DEF NeverCompacted, TakesFrom
  <2>11. NothingPassed => NothingPassed'
    <3>1. \A x \in DOMAIN diary.said[c] : x > diary.counted => diary.said[c][x] \in b \cup overtaken
      BY <2>2, Zenon DEF TakesFrom, HeldAfter
    <3> QED BY <1>2, <2>5, <3>1, Zenon DEF NothingPassed, HeldAfter
  <2> QED BY <1>2, <2>6, <2>7, <2>8, <2>9, <2>10, <2>11, Zenon DEF NotesInv
<1> QED BY <1>3, <1>4, Zenon DEF ExtractionAsked

LEMMA NotesCountedParts ==
  ASSUME NotesInv, NEW ok \in BOOLEAN, taking.of \in Chats, diary' = NotesCounted(ok)
  PROVE  /\ diary' \in DiaryRow /\ diary'.said = diary.said /\ diary'.ids = diary.ids
         /\ \/ diary' = diary
            \/ /\ diary'.counted = Len(diary.said[taking.of])
               /\ diary'.noted = diary.noted \cup taking.batch
               /\ diary'.repeated = diary.repeated \cup (taking.batch \cap diary.noted)
<1>1. diary \in DiaryRow /\ taking \in TakingRow
  BY Zenon DEF NotesInv, NotesTyped
<1>2. CASE ~ok
  BY <1>1, <1>2, Zenon DEF NotesCounted
<1>3. CASE ok
  <2>1. PICK k : k = Len(diary.said[taking.of])
    OBVIOUS
  <2>2. PICK n : n = diary.noted \cup taking.batch
    OBVIOUS
  <2>3. PICK r : r = diary.repeated \cup (taking.batch \cap diary.noted)
    OBVIOUS
  <2>4. k \in Nat /\ n \in SUBSET Nat /\ r \in SUBSET Nat
    <3>1. PICK t \in Seq(Nat) : t = diary.said[taking.of]
      BY <1>1, SMT DEF DiaryRow, ChatSaid
    <3>2. k \in Nat
      BY <2>1, <3>1, SMT
    <3> QED BY <1>1, <2>2, <2>3, <3>2, SMT DEF DiaryRow, TakingRow
  <2>5. PICK a : a = [diary EXCEPT !.counted = k]
    OBVIOUS
  <2>6. PICK b : b = [a EXCEPT !.noted = n]
    OBVIOUS
  <2>7. diary' = [b EXCEPT !.repeated = r]
    BY <1>3, <2>1, <2>2, <2>3, <2>5, <2>6, Zenon DEF NotesCounted
  <2> HIDE <1>3
  <2>8. /\ a \in DiaryRow /\ a.said = diary.said /\ a.ids = diary.ids /\ a.counted = k
        /\ a.noted = diary.noted /\ a.repeated = diary.repeated
    BY <1>1, <2>4, <2>5, SMT DEF DiaryRow
  <2>9. /\ b \in DiaryRow /\ b.said = a.said /\ b.ids = a.ids /\ b.counted = a.counted
        /\ b.noted = n /\ b.repeated = a.repeated
    BY <2>4, <2>6, <2>8, SMT DEF DiaryRow
  <2>10. /\ diary' \in DiaryRow /\ diary'.said = b.said /\ diary'.ids = b.ids
         /\ diary'.counted = b.counted /\ diary'.noted = b.noted /\ diary'.repeated = r
    BY <2>4, <2>7, <2>9, SMT DEF DiaryRow
  <2> QED BY <2>1, <2>2, <2>3, <2>8, <2>9, <2>10, Zenon
<1> QED BY <1>2, <1>3

LEMMA NotesExtracted ==
  ASSUME NotesInv, NEW ok \in BOOLEAN, Extracted(ok)
  PROVE  NotesInv'
<1>1. /\ diary \in DiaryRow /\ taking \in TakingRow /\ chat \in Chats /\ due \subseteq Chats
  BY Zenon DEF NotesInv, NotesTyped
<1>2. PICK c \in Chats : c = taking.of
  BY <1>1, SMT DEF TakingRow, Extracted
<1>3. UNCHANGED <<chat, due, overtaken, replaced>>
  BY DEF Extracted
<1>4. PICK b : b = taking.batch
  OBVIOUS
<1>5. PICK D : D = diary.said
  OBVIOUS
<1>6. /\ diary' \in DiaryRow /\ diary'.said = D /\ diary'.ids = diary.ids
      /\ \/ diary' = diary
         \/ /\ diary'.counted = Len(D[c])
            /\ diary'.noted = diary.noted \cup b
            /\ diary'.repeated = diary.repeated \cup (b \cap diary.noted)
  BY <1>2, <1>4, <1>5, NotesCountedParts, Zenon DEF Extracted
\* What was asked meanwhile, if anything, is taken from what is left.
<1>7. PICK n : TakesFrom(diary', c, n)
  BY <1>2, <1>6, RecentTakes, Zenon
<1>8. \/ taking' = [of |-> NoChat, batch |-> {}]
      \/ \E m : taking' = [of |-> c, batch |-> m] /\ m # {} /\ TakesFrom(diary', c, m)
  <2>1. TakesFrom(diary', c, Recent(diary', c))
    BY <1>6, RecentTakes, Zenon
  <2>2. \/ taking' = [of |-> NoChat, batch |-> {}]
        \/ taking' = [of |-> c, batch |-> Recent(diary', c)] /\ Recent(diary', c) # {}
    BY <1>2, Zenon DEF Extracted
  <2> QED BY <2>1, <2>2, Zenon
<1>9. PICK m : /\ m = taking'.batch
               /\ \/ taking'.of = NoChat /\ m = {}
                  \/ taking'.of = c /\ m # {} /\ TakesFrom(diary', c, m)
  <2>1. CASE taking' = [of |-> NoChat, batch |-> {}]
    BY <2>1, SMT
  <2>2. ASSUME NEW x, taking' = [of |-> c, batch |-> x], x # {}, TakesFrom(diary', c, x)
        PROVE  taking'.of = c /\ taking'.batch = x
    BY <2>2, SMT
  <2> QED BY <1>8, <2>1, <2>2, Zenon
<1>10. NoChat \notin Chats
  BY MemoryAssumption
<1>11. taking' \in TakingRow
  <2>1. \E o, x : taking' = [of |-> o, batch |-> x] /\ o \in Chats \cup {NoChat} /\ x \subseteq Nat
    <3>1. ASSUME NEW x, taking' = [of |-> c, batch |-> x], TakesFrom(diary', c, x)
          PROVE  \E o, y : taking' = [of |-> o, batch |-> y] /\ o \in Chats \cup {NoChat} /\ y \subseteq Nat
      BY <3>1, Zenon DEF TakesFrom
    <3>2. {} \subseteq Nat
      OBVIOUS
    <3>3. CASE taking' = [of |-> NoChat, batch |-> {}]
      <4>1. NoChat \in Chats \cup {NoChat}
        OBVIOUS
      <4> QED BY <3>2, <3>3, <4>1, Zenon
    <3> QED BY <1>8, <3>1, <3>3
  <2> QED BY <2>1, SMT DEF TakingRow
<1>12. NotesTyped'
  BY <1>1, <1>3, <1>6, <1>11, Zenon DEF NotesTyped
\* What follows where a new extraction starts.
<1>13. TakesFrom(diary', c, m) =>
         /\ AllSaidIn(m, D[c])
         /\ NotedBefore(D, diary'.noted, diary'.counted) => m \cap diary'.noted = {}
         /\ (\A i \in DOMAIN D[c] : D[c][i] \in 1..diary.ids) => m \subseteq 1..diary.ids
  BY <1>6, TakesGives, Zenon
<1>14. NotesBounded'
  <2>1. NotesBounded
    BY DEF NotesInv
  <2>2. m \subseteq 1..diary.ids
    BY <1>5, <1>9, <1>13, <2>1, Zenon DEF NotesBounded
  <2>3. diary'.counted <= diary.ids /\ diary'.noted \subseteq 1..diary.ids
    BY <1>4, <1>5, <1>6, <2>1, Zenon DEF NotesBounded
  <2> QED BY <1>5, <1>6, <1>9, <2>1, <2>2, <2>3, Zenon DEF NotesBounded
<1>15. ASSUME TakenOnce, NeverLeft \/ NeverCompacted PROVE TakenOnce'
  <2>1. NotedBefore(D, diary'.noted, diary'.counted)
    <3>1. CASE diary' = diary
      BY <1>5, <1>15, <3>1, Zenon DEF TakenOnce
    <3>2. CASE diary'.counted = Len(D[c]) /\ diary'.noted = diary.noted \cup b
      <4> SUFFICES ASSUME NEW d \in Chats, NEW i \in DOMAIN D[d], D[d][i] \in diary.noted \cup b
                   PROVE  i <= Len(D[c])
        BY <3>2, Zenon DEF NotedBefore
      <4>1. PICK t \in Seq(Nat) : t = D[d]
        BY <1>1, <1>5, SMT DEF DiaryRow, ChatSaid
      <4>2. i \in Nat /\ i <= Len(D[d])
        BY <4>1, SMT
      <4>3. CASE d = c
        BY <4>2, <4>3
      <4>4. CASE d # c
        <5>1. NeverCompacted
          <6> SUFFICES ASSUME NeverLeft PROVE FALSE
            BY <1>15
          <6>1. c = chat
            BY <1>2, <1>10, Zenon DEF NeverLeft
          <6>2. D[d] = <<>>
            BY <1>5, <4>4, <6>1, Zenon DEF NeverLeft
          <6>3. t = <<>> /\ i \in DOMAIN t
            BY <4>1, <6>2, Zenon
          <6> QED BY <6>3, SMT
        <5>2. ChatsApart(D) /\ AllSaidIn(b, D[c]) /\ diary.counted < Len(D[c])
          BY <1>2, <1>4, <1>5, <1>10, <5>1, Zenon DEF NeverCompacted
        <5>3. D[d][i] \notin b
          BY <4>4, <5>2, Zenon DEF ChatsApart, AllSaidIn
        <5>4. i <= diary.counted
          BY <1>5, <1>15, <5>3, Zenon DEF TakenOnce, NotedBefore
        <5>5. PICK u \in Seq(Nat) : u = D[c]
          BY <1>1, <1>5, SMT DEF DiaryRow, ChatSaid
        <5>6. diary.counted \in Nat /\ Len(D[c]) \in Nat
          BY <1>1, <5>5, SMT DEF DiaryRow
        <5> QED BY <4>2, <5>2, <5>4, <5>6, SMT
      <4> QED BY <4>3, <4>4
    <3> QED BY <1>6, <3>1, <3>2
  <2>2. diary'.repeated = {}
    BY <1>4, <1>6, <1>15, Zenon DEF TakenOnce
  <2>3. m \cap diary'.noted = {}
    BY <1>9, <1>13, <2>1, Zenon
  <2> QED BY <1>6, <1>9, <2>1, <2>2, <2>3, Zenon DEF TakenOnce
<1>16. NeverLeft => NeverLeft'
  BY <1>2, <1>3, <1>5, <1>6, <1>9, <1>10, Zenon DEF NeverLeft
<1>17. NeverCompacted => NeverCompacted'
  BY <1>5, <1>6, <1>9, <1>13, Zenon DEF NeverCompacted, TakesFrom
<1>18. ASSUME NeverLeft, NothingPassed PROVE NothingPassed'
  <2>1. c = chat
    BY <1>2, <1>10, <1>18, Zenon DEF NeverLeft
  <2>2. PICK t \in Seq(Nat) : t = D[c]
    BY <1>1, <1>5, SMT DEF DiaryRow, ChatSaid
  <2>3. diary.counted \in Nat
    BY <1>1, SMT DEF DiaryRow
  <2>4. /\ HeldUpTo(t, diary.counted, diary.noted \cup overtaken) /\ diary.counted <= Len(t)
        /\ HeldAfter(t, diary.counted, b \cup overtaken)
    BY <1>2, <1>4, <1>5, <1>18, <2>1, <2>2, Zenon DEF NothingPassed
  <2>5. diary'.counted <= Len(t) /\ HeldUpTo(t, diary'.counted, diary'.noted \cup overtaken)
    <3>1. CASE diary' = diary
      BY <2>4, <3>1, Zenon
    <3>2. CASE diary'.counted = Len(D[c]) /\ diary'.noted = diary.noted \cup b
      BY <2>2, <2>3, <2>4, <3>2, SMT DEF HeldUpTo, HeldAfter
    <3> QED BY <1>6, <3>1, <3>2
  <2>6. taking'.of = c => HeldAfter(t, diary'.counted, m \cup overtaken)
    <3> SUFFICES ASSUME taking'.of = c PROVE HeldAfter(t, diary'.counted, m \cup overtaken)
      OBVIOUS
    <3>1. HeldAfter(t, diary'.counted, m)
      BY <1>2, <1>6, <1>9, <1>10, <2>2, Zenon DEF TakesFrom
    <3> QED BY <3>1, Zenon DEF HeldAfter
  <2> QED BY <1>3, <1>6, <1>9, <2>1, <2>2, <2>5, <2>6, Zenon DEF NothingPassed
<1> QED BY <1>3, <1>12, <1>14, <1>15, <1>16, <1>17, <1>18, Zenon DEF NotesInv

LEMMA NotesCompacted ==
  ASSUME NotesInv, HistoryCompacted
  PROVE  NotesInv'
<1> DEFINE s == diary.said[chat]
           n == diary.ids + 1
<1>1. /\ diary \in DiaryRow /\ taking \in TakingRow /\ chat \in Chats /\ due \subseteq Chats
      /\ diary.said \in [Chats -> Seq(Nat)] /\ s \in Seq(Nat) /\ n \in Nat /\ diary.counted \in Nat
  BY SMT DEF NotesInv, NotesTyped, DiaryRow, ChatSaid
<1>2. UNCHANGED <<chat, due, taking, overtaken>> /\ "compacted" \in replaced'
      /\ ("left" \in replaced => "left" \in replaced') /\ n <= MaxSaid /\ Len(s) > 2
  BY SMT DEF HistoryCompacted, NextMessage
<1>3. PICK l : l = s[Len(s)]
  OBVIOUS
<1>4. l \in Nat /\ Len(s) \in DOMAIN s /\ Len(s) \in Nat
  BY <1>1, <1>2, <1>3, SMT
<1>5. PICK t : t = <<n, l>>
  OBVIOUS
<1>6. t \in Seq(Nat) /\ DOMAIN t = {1, 2} /\ t[1] = n /\ t[2] = l /\ Len(t) = 2
  BY <1>1, <1>4, <1>5, SMT
<1>7. /\ diary' \in DiaryRow /\ diary'.ids = n /\ diary'.said[chat] = t
      /\ \A x \in Chats \ {chat} : diary'.said[x] = diary.said[x]
      /\ diary'.counted = diary.counted /\ diary'.noted = diary.noted
      /\ diary'.repeated = diary.repeated
  <2>1. PICK k \in Nat : k = diary.loops
    BY <1>1, SMT DEF DiaryRow
  <2>2. diary' = [diary EXCEPT !.said[chat] = t, !.ids = @ + 1]
    BY <1>3, <1>5, Zenon DEF HistoryCompacted, NextMessage
  <2>3. PICK e : e = [diary EXCEPT !.said[chat] = t, !.ids = @ + 1]
    OBVIOUS
  <2>4. [e EXCEPT !.loops = k] = e
    <3>1. PICK f \in ChatSaid : f = [diary.said EXCEPT ![chat] = t]
      BY <1>1, <1>6, Assigned, Zenon DEF ChatSaid
    <3>2. PICK a : a = [diary EXCEPT !.said = f]
      OBVIOUS
    <3>3. a \in DiaryRow /\ a.loops = diary.loops /\ a.ids = diary.ids
      <4>1. diary \in DiaryRow
        BY <1>1
      <4> QED BY <3>2, <4>1, SMT DEF DiaryRow
    <3>4. PICK j \in Nat : j = diary.ids + 1
      BY <1>1
    <3>5. e = [a EXCEPT !.ids = j]
      BY <2>3, <3>1, <3>2, <3>4, Zenon
    <3>6. e \in DiaryRow /\ e.loops = k
      BY <2>1, <3>3, <3>5, SMT DEF DiaryRow
    <3> QED BY <3>6, SMT DEF DiaryRow
  <2>5. diary' = [diary EXCEPT !.said[chat] = t, !.ids = @ + 1, !.loops = k]
    BY <2>2, <2>3, <2>4, Zenon
  <2> HIDE DEF s, n
  <2> QED BY <1>1, <1>6, <2>1, <2>5, DiarySaid, Zenon DEF n
<1>8. NotesBounded
  BY DEF NotesInv
<1>9. NotesTyped'
  BY <1>1, <1>2, <1>7, SMT DEF NotesTyped
<1>10. l \in 1..diary.ids /\ Len(s) <= diary.ids /\ diary.ids \in Nat /\ diary.ids > 2
  <2>1. l \in 1..diary.ids /\ Len(s) <= diary.ids
    BY <1>1, <1>3, <1>4, <1>8, Zenon DEF NotesBounded
  <2> QED BY <1>1, <1>2, <1>4, <2>1, SMT DEF DiaryRow
<1>11. NotesBounded'
  <2>1. /\ diary'.ids <= MaxSaid /\ diary'.counted <= diary'.ids
        /\ diary'.noted \subseteq 1..diary'.ids /\ taking'.batch \subseteq 1..diary'.ids
    BY <1>1, <1>2, <1>7, <1>8, <1>10, SMT DEF NotesBounded
  <2>2. ASSUME NEW c \in Chats
        PROVE  Len(diary'.said[c]) <= n /\ \A i \in DOMAIN diary'.said[c] : diary'.said[c][i] \in 1..n
    <3>1. CASE c = chat
      <4>1. Len(t) <= n /\ n \in 1..n /\ l \in 1..n
        BY <1>6, <1>10, SMT
      <4>2. \A i \in DOMAIN t : t[i] \in 1..n
        BY <1>6, <4>1, Zenon
      <4> QED BY <1>7, <3>1, <4>1, <4>2, Zenon
    <3>2. CASE c # chat
      <4>1. PICK u \in Seq(Nat) : u = diary.said[c]
        BY <1>1, SMT
      <4>2. Len(u) <= diary.ids /\ (\A i \in DOMAIN u : u[i] \in 1..diary.ids) /\ diary'.said[c] = u
        BY <1>7, <1>8, <3>2, <4>1, Zenon DEF NotesBounded
      <4>3. Len(u) <= n /\ \A i \in DOMAIN u : u[i] \in 1..n
        BY <1>10, <4>2, SMT
      <4> QED BY <4>2, <4>3, Zenon
    <3> QED BY <3>1, <3>2
  <2> QED BY <1>7, <2>1, <2>2, Zenon DEF NotesBounded
<1>12. ASSUME TakenOnce, NeverLeft PROVE TakenOnce'
  <2>1. n \notin diary.noted
    BY <1>8, <1>10, SMT DEF NotesBounded
  <2>2. l \in diary.noted => 2 <= diary.counted
    <3>1. l \in diary.noted => Len(s) <= diary.counted
      BY <1>1, <1>3, <1>4, <1>12, Zenon DEF TakenOnce, NotedBefore
    <3> QED BY <1>1, <1>2, <1>4, <3>1, SMT
  <2>3. NotedBefore(diary'.said, diary'.noted, diary'.counted)
    <3> SUFFICES ASSUME NEW c \in Chats, NEW i \in DOMAIN diary'.said[c], diary'.said[c][i] \in diary.noted
                 PROVE  i <= diary.counted
      BY <1>7, Zenon DEF NotedBefore
    <3>1. CASE c = chat
      <4>1. (i = 1 \/ i = 2) /\ t[i] \in diary.noted
        BY <1>6, <1>7, <3>1, Zenon
      <4>2. i = 2
        BY <1>6, <2>1, <4>1, Zenon
      <4> QED BY <1>6, <2>2, <4>1, <4>2, Zenon
    <3>2. CASE c # chat
      BY <1>7, <1>12, <3>2, Zenon DEF TakenOnce, NotedBefore
    <3> QED BY <3>1, <3>2
  <2> QED BY <1>2, <1>7, <1>12, <2>3, Zenon DEF TakenOnce
<1>13. NeverLeft => NeverLeft'
  BY <1>2, <1>7, Zenon DEF NeverLeft
<1>14. replaced' # {}
  BY <1>2
<1>15. "left" \in replaced' \/ TakenOnce'
  BY <1>2, <1>12, SMT DEF NotesInv
<1>16. "left" \in replaced' \/ NeverLeft'
  BY <1>2, <1>13, SMT DEF NotesInv
<1> QED BY <1>2, <1>9, <1>11, <1>14, <1>15, <1>16, Zenon DEF NotesInv

LEMMA NotesInvNext == NotesInv /\ [NotesNext]_notesVars => NotesInv'
<1> SUFFICES ASSUME NotesInv, [NotesNext]_notesVars PROVE NotesInv'
  OBVIOUS
<1>1. ASSUME NEW c \in Chats, TurnTo(c) PROVE NotesInv'
  <2>1. UNCHANGED <<diary, due, taking, overtaken>> /\ chat' \in Chats /\ "left" \in replaced'
        /\ ("compacted" \in replaced => "compacted" \in replaced')
    BY <1>1, SMT DEF TurnTo
  <2>2. replaced' # {}
    BY <2>1
  <2>3. NotesTyped' /\ NotesBounded'
    BY <2>1, Zenon DEF NotesInv, NotesTyped, NotesBounded
  <2>4. (TakenOnce => TakenOnce') /\ (NeverCompacted => NeverCompacted')
    BY <2>1, Zenon DEF TakenOnce, NeverCompacted
  <2> QED BY <2>1, <2>2, <2>3, <2>4, SMT DEF NotesInv
<1>2. CASE UNCHANGED notesVars
  BY <1>2, Zenon DEF NotesInv, NotesTyped, NotesBounded, TakenOnce, NeverLeft, NeverCompacted,
                     NothingPassed, notesVars
<1> QED BY <1>1, <1>2, NotesSay, NotesAsked, NotesExtracted, NotesCompacted, Zenon DEF NotesNext

-----------------------------------------------------------------------------
(* Every run of a hook is told about once unless it was cancelled, a once   *)
(* hook runs again only in the race of agents, and a closed engine has      *)
(* nothing under way.                                                       *)
THEOREM HooksAlwaysAccounted == HookSpec => []HooksAccounted
<1>1. HookInv => HooksAccounted
  BY HookInvGives
<1> QED BY <1>1, HookInvInit, HookInvNext, PTL DEF HookSpec

(* No tool runs past a hook that rejects, whatever became of the hook.      *)
THEOREM RejectingHooksHold == HookSpec => GuardsHold
<1>1. HookInv /\ [HookNext]_hookVars =>
        [\A a \in HookAgents :
           hookCall[a].pc = "pre" /\ hookCall'[a].pc = "post" =>
             hookCall[a].matched \cap RejectHooks = {}]_hookVars
  BY HookSteps, Zenon DEF CallsGuarded
<1> QED BY <1>1, HookInvInit, HookInvNext, PTL DEF HookSpec, GuardsHold

(* A read that ran ahead belongs to the attempt whose answer stands, behind *)
(* calls that only read; and a call that repeats is cut off.                *)
THEOREM ReadsBelongToTheirAttempt == TurnSpec => [](ReadsOfThisAttempt /\ NoCallRepeatsForEver)
<1>1. TurnInv => ReadsOfThisAttempt /\ NoCallRepeatsForEver
  BY TurnInvGives
<1> QED BY <1>1, TurnInvInit, TurnInvNext, PTL DEF TurnSpec

(* A permit is lost only in the known race, and a result read ahead is used *)
(* only while the call is allowed and its tool is the one that ran.         *)
THEOREM ReadsStayAllowed == TurnSpec => PermitsOnlyLostInTheRace /\ ReadAheadStillAllowed
<1>1. TurnInv /\ [TurnNext]_turnVars =>
        /\ [free' + Cardinality(Holding') < free + Cardinality(Holding) =>
              \E i \in Holding : ahead[i].st = "granted" /\ ahead'[i].st = "none"]_turnVars
        /\ [\A k \in 1..Len(ran') : k > Len(ran) /\ ran'[k].ahead =>
              /\ ran'[k].sig \notin world.denied
              /\ world.seq[ran'[k].sig] = ahead[turn.at].seq]_turnVars
  BY TurnSteps, Zenon DEF TurnStepFine, RaceOnly, AllowedOnly
<1> QED BY <1>1, TurnInvInit, TurnInvNext, PTL
        DEF TurnSpec, PermitsOnlyLostInTheRace, ReadAheadStillAllowed

(* The results of an answer go back in the order of its calls, no call      *)
(* reaches its tool around a hook or the permission check, and repairs end. *)
THEOREM CallsAlwaysGuarded == DispatchSpec => [](AnswersInOrder /\ NoGuardBypassed /\ NoEndlessRepair)
<1>1. DispatchInv => AnswersInOrder /\ NoGuardBypassed /\ NoEndlessRepair
  BY DispatchInvGives
<1> QED BY <1>1, DispatchInvInit, DispatchInvNext, PTL DEF DispatchSpec

(* Whatever is cut, summarised or swept, a request is well formed and the results  *)
(* of a message fit; and a preview can still be read, unless a compaction by hand, *)
(* of a sub-agent, or one cut short behind its cleanup took the file away.         *)
THEOREM RequestsAlwaysWhole == CompactSpec => [](RequestsWhole /\ PreviewsReadable)
<1>1. CompactInv => RequestsWhole /\ PreviewsReadable
  BY CompactInvGives
<1> QED BY <1>1, CompactInvInit, CompactInvNext, PTL DEF CompactSpec

(* Until a compaction or another conversation takes its place, whatever the count *)
(* covers of a conversation was taken by an extraction or arrived during one, and *)
(* no message is taken twice unless the conversation was both compacted and left. *)
THEOREM NothingSaidIsPassedOver == NotesSpec => []NotesAccounted
<1>1. NotesInv => NotesAccounted
  BY NotesInvGives
<1> QED BY <1>1, NotesInvInit, NotesInvNext, PTL DEF NotesSpec
=============================================================================
