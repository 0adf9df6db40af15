--------------------------- MODULE ComponentProofs ---------------------------
(***************************************************************************)
(* Theorems about components around the durable core, for any values of     *)
(* their constants: agents, the workspace and the front ends.  A component  *)
(* has an inductive invariant of its own, which implies its type invariant  *)
(* and its properties: lemmas say that its initial states satisfy it        *)
(* (...InvInit), that its steps preserve it (...InvNext), and what it gives *)
(* (...InvGives).  ConversationProofs has those a conversation goes         *)
(* through, ServicesProofs those of a team and of the tools.                *)
(***************************************************************************)
EXTENDS AgentKinds, QuietRun, SubAgents, Worktrees, FileEdits, MemoryRecall, TerminalFront,
        RemoteFront, FiniteSetTheorems, SequenceTheorems, WellFoundedInduction, TLAPS

(* A function that was changed at one place. *)
LEMMA Assigned ==
  ASSUME NEW D, NEW S, NEW f \in [D -> S], NEW d \in D, NEW m \in S, NEW g,
         g = [f EXCEPT ![d] = m]
  PROVE  g \in [D -> S] /\ g[d] = m /\ \A e \in D \ {d} : g[e] = f[e]
OBVIOUS


(* A set of numbers has a least one. *)
LEMMA LeastNumber ==
  ASSUME NEW S \in SUBSET Nat, S # {}
  PROVE  \E m \in S : \A n \in S : m <= n
<1>1. IsWellFoundedOn(OpToRel(<, Nat), Nat)
  BY NatLessThanWellFounded, Zenon
<1>2. S \subseteq Nat
  OBVIOUS
<1>3. PICK m \in S : \A n \in S : <<n, m>> \notin OpToRel(<, Nat)
  BY <1>1, <1>2, WFMin, Zenon
<1>4. \A n \in S : n < m => <<n, m>> \in OpToRel(<, Nat)
  BY Zenon DEF OpToRel
<1>5. \A n \in S : ~(n < m)
  BY <1>3, <1>4, Zenon
<1>6. \A n \in S : m <= n
  <2> HIDE <1>3, <1>4
  <2> QED BY <1>5, SMT
<1> QED BY <1>6

(* How often something is in a sequence. *)
Times(s, x) == Cardinality({i \in DOMAIN s : s[i] = x})

LEMMA TimesAppended ==
  ASSUME NEW S, NEW s \in Seq(S), NEW y \in S, NEW x
  PROVE  /\ Times(s, x) \in Nat
         /\ Times(Append(s, y), x) = Times(s, x) + IF x = y THEN 1 ELSE 0
<1> DEFINE n == Len(s)
           a == {i \in DOMAIN s : s[i] = x}
           t == Append(s, y)
           b == {i \in DOMAIN t : t[i] = x}
<1>1. n \in Nat /\ DOMAIN s = 1 .. n
  OBVIOUS
<1>2. DOMAIN t = 1 .. n + 1 /\ t[n + 1] = y /\ \A i \in 1 .. n : t[i] = s[i]
  OBVIOUS
<1> HIDE DEF t, n
<1>3. IsFiniteSet(1 .. n)
  BY <1>1, FS_Interval
<1>4. IsFiniteSet(a) /\ Cardinality(a) \in Nat
  <2>1. a \subseteq 1 .. n
    BY <1>1
  <2> HIDE DEF a
  <2> QED BY <1>3, <2>1, FS_Subset, FS_CardinalityType
<1>5. n + 1 \notin a
  BY <1>1, SMT
<1>6. \A i : i \in 1 .. n + 1 <=> i \in 1 .. n \/ i = n + 1
  BY <1>1, SMT
<1>7. b = IF x = y THEN a \cup {n + 1} ELSE a
  BY <1>1, <1>2, <1>6
<1> HIDE DEF a, b
<1>8. Cardinality(b) = Cardinality(a) + IF x = y THEN 1 ELSE 0
  <2>1. Cardinality(a \cup {n + 1}) = Cardinality(a) + 1
    BY <1>4, <1>5, FS_AddElement
  <2> QED BY <1>4, <1>7, <2>1, SMT
<1> QED BY <1>4, <1>8 DEF Times, a, b, t

LEMMA TimesNone == \A x : Times(<<>>, x) = 0
<1> SUFFICES ASSUME NEW x PROVE Times(<<>>, x) = 0
  OBVIOUS
<1>1. {i \in DOMAIN <<>> : <<>>[i] = x} = {}
  OBVIOUS
<1> QED BY <1>1, FS_EmptySet DEF Times

-----------------------------------------------------------------------------
(* Chains of agents.  Only the second of a chain can be a fork, and only a   *)
(* fork or the lead is followed by another agent.                            *)
Spawnling == [kind : Kinds, mode : Askable \cup {"plan"}]

ForksPass ==
  /\ chain[1].kind = "lead"
  /\ \A i \in 2 .. Len(chain) : chain[i].kind # "lead" /\ (i > 2 => chain[i].kind # "fork")
  /\ \A i \in 2 .. Len(chain) - 1 : chain[i].kind = "fork"

KindInv == /\ chain \in Seq(Spawnling) /\ Len(chain) \in 1 .. MaxDepth
           /\ ForksPass /\ NoWiderMode

LEMMA AgentToolHolders ==
  ASSUME NEW k \in Kinds, "Agent" \in ToolsOf(k)
  PROVE  k \in {"lead", "fork"}
<1>1. "Agent" \notin Foreground /\ "Agent" \notin Custom /\ "Agent" \notin Background
      /\ "Agent" \notin Coordination
  BY DEF Foreground, Custom, Background, Coordination
<1> QED BY <1>1, SMT DEF Kinds, Defined, ToolsOf

LEMMA ModeRanked ==
  ASSUME NEW mode \in Askable
  PROVE  Rank(mode) \in 1 .. 3 /\ Asked[Rank(mode)] = mode
<1>1. \E i \in 1 .. 3 : Asked[i] = mode
  BY Zenon DEF Askable
<1> QED BY <1>1, Zenon DEF Rank

LEMMA NarrowerOfTwo ==
  ASSUME NEW mode \in Askable, LeadMode \in Askable \cup {"plan"}
  PROVE  /\ TeammateMode(mode) \in Askable \cup {"plan"}
         /\ IF LeadMode = "plan" THEN TeammateMode(mode) = "plan"
            ELSE Rank(TeammateMode(mode)) <= Rank(LeadMode)
<1>1. CASE LeadMode = "plan"
  BY <1>1 DEF TeammateMode
<1>2. CASE LeadMode # "plan"
  <2>1. Rank(LeadMode) \in 1 .. 3 /\ Rank(mode) \in 1 .. 3
    BY <1>2, ModeRanked
  <2> QED BY <1>2, <2>1 DEF TeammateMode
<1> QED BY <1>1, <1>2

LEMMA KindInvInit == KindInit => KindInv
<1> SUFFICES ASSUME KindInit PROVE KindInv
  OBVIOUS
<1> DEFINE l == [kind |-> "lead", mode |-> "default"]
<1>1. "default" \in Askable
  <2>1. Asked[1] = "default" /\ 1 \in 1 .. 3
    BY DEF Asked
  <2> QED BY <2>1 DEF Askable
<1>2. l \in Spawnling /\ l.kind = "lead"
  BY <1>1 DEF Spawnling, Kinds
<1>3. chain = <<l>>
  BY DEF KindInit
<1> HIDE DEF l
<1>4. chain \in Seq(Spawnling) /\ Len(chain) = 1 /\ chain[1] = l
  BY <1>2, <1>3
<1>5. \A i \in 2 .. Len(chain) : FALSE
  BY <1>4, SMT
<1>6. \A i \in 2 .. Len(chain) - 1 : FALSE
  BY <1>4, SMT
<1>7. ForksPass
  BY <1>2, <1>4, <1>5, <1>6 DEF ForksPass
<1>8. NoWiderMode
  BY <1>5 DEF NoWiderMode
<1>9. Len(chain) \in 1 .. MaxDepth
  BY <1>4, DepthAssumption, SMT
<1> QED BY <1>4, <1>7, <1>8, <1>9 DEF KindInv

(* A spawned agent joins the chain. *)
LEMMA KindInvSpawned ==
  ASSUME KindInv, NEW kind \in Kinds \ {"lead"}, NEW mode \in Askable \cup {"plan"},
         Spawned(kind, mode),
         Spawner \in {"lead", "fork"}, Spawner = "fork" => kind # "fork",
         kind = "teammate" => IF LeadMode = "plan" THEN mode = "plan"
                              ELSE Rank(mode) <= Rank(LeadMode),
         kind = "scheduled" => mode = "default"
  PROVE  KindInv'
<1> DEFINE x == [kind |-> kind, mode |-> mode]
           n == Len(chain)
<1>1. x \in Spawnling /\ x.kind = kind /\ x.mode = mode
  BY DEF Spawnling
<1>2. chain' = Append(chain, x) /\ n < MaxDepth
  BY DEF Spawned
<1> HIDE DEF x
<1>3. chain \in Seq(Spawnling) /\ n \in 1 .. MaxDepth /\ n \in Nat
  BY DEF KindInv
<1>4. /\ chain' \in Seq(Spawnling) /\ Len(chain') = n + 1 /\ chain'[n + 1] = x
      /\ \A i \in 1 .. n : chain'[i] = chain[i]
  BY <1>1, <1>2, <1>3
<1>5. Len(chain') \in 1 .. MaxDepth
  BY <1>2, <1>3, <1>4, DepthAssumption, SMT
<1>6. ForksPass
  BY DEF KindInv
<1>7. chain[n].kind \in {"lead", "fork"} /\ (chain[n].kind = "fork" => kind # "fork")
  BY DEF Spawner
<1>8. chain'[1] = chain[1]
  BY <1>3, <1>4, SMT
<1>9. n \in {1, 2} /\ (n = 2 => chain[n].kind = "fork")
  <2>1. CASE n = 1
    BY <2>1
  <2>2. CASE n # 1
    <3>1. n \in 2 .. n
      <4> HIDE DEF n
      <4> QED BY <1>3, <2>2, DepthAssumption, SMT
    <3>2. chain[n].kind # "lead" /\ (n > 2 => chain[n].kind # "fork")
      BY <1>6, <3>1 DEF ForksPass
    <3>3. ~(n > 2) /\ chain[n].kind = "fork"
      BY <1>7, <3>2
    <3> HIDE DEF n
    <3> QED BY <3>1, <3>3, <1>3, SMT
  <2> QED BY <2>1, <2>2
<1> HIDE DEF n
<1>10. ForksPass'
  <2>1. \A i \in 2 .. n + 1 : /\ chain'[i].kind # "lead"
                              /\ (i > 2 => chain'[i].kind # "fork")
    <3> SUFFICES ASSUME NEW i \in 2 .. n + 1
                 PROVE  chain'[i].kind # "lead" /\ (i > 2 => chain'[i].kind # "fork")
      OBVIOUS
    <3>1. CASE i = n + 1
      BY <1>1, <1>4, <1>7, <1>9, <3>1, SMT
    <3>2. CASE i # n + 1
      <4>1. i \in 2 .. n /\ i \in 1 .. n
        BY <1>3, <3>2, SMT
      <4> QED BY <1>4, <1>6, <4>1 DEF ForksPass, n
    <3> QED BY <3>1, <3>2
  <2>2. \A i \in 2 .. n : chain'[i].kind = "fork"
    BY <1>3, <1>4, <1>9, SMT
  <2>3. Len(chain') - 1 = n
    BY <1>3, <1>4, SMT
  <2> QED BY <1>4, <1>6, <1>8, <2>1, <2>2, <2>3 DEF ForksPass
<1>11. NoWiderMode'
  <2>1. LeadMode' = LeadMode
    BY <1>8 DEF LeadMode
  <2> SUFFICES ASSUME NEW i \in 2 .. n + 1
               PROVE  /\ chain'[i].kind = "teammate" =>
                           IF LeadMode = "plan" THEN chain'[i].mode = "plan"
                           ELSE Rank(chain'[i].mode) <= Rank(LeadMode)
                      /\ chain'[i].kind = "scheduled" => chain'[i].mode = "default"
    BY <1>4, <2>1 DEF NoWiderMode
  <2>2. CASE i = n + 1
    BY <1>1, <1>4, <2>2
  <2>3. CASE i # n + 1
    <3>1. i \in 2 .. n /\ i \in 1 .. n
      BY <1>3, <2>3, SMT
    <3> QED BY <1>4, <3>1 DEF KindInv, NoWiderMode, n
  <2> QED BY <2>2, <2>3
<1> QED BY <1>4, <1>5, <1>10, <1>11 DEF KindInv

LEMMA KindInvNext == KindInv /\ [KindNext]_chain => KindInv'
<1> SUFFICES ASSUME KindInv, [KindNext]_chain PROVE KindInv'
  OBVIOUS
<1>0. /\ chain \in Seq(Spawnling) /\ Len(chain) \in 1 .. MaxDepth /\ Len(chain) \in Nat
      /\ Spawner \in Kinds /\ LeadMode \in Askable \cup {"plan"}
  <2>1. chain \in Seq(Spawnling) /\ Len(chain) \in 1 .. MaxDepth /\ Len(chain) \in Nat
    BY DEF KindInv
  <2>2. Len(chain) \in 1 .. Len(chain) /\ 1 \in 1 .. Len(chain)
    BY <2>1, SMT
  <2>3. chain[Len(chain)] \in Spawnling /\ chain[1] \in Spawnling
    BY <2>1, <2>2
  <2> QED BY <2>1, <2>3 DEF Spawner, LeadMode, Spawnling
<1>1. CASE LeadChangesMode
  <2>1. PICK mode \in Askable \cup {"plan"} : chain' = <<[kind |-> "lead", mode |-> mode]>>
    BY <1>1 DEF LeadChangesMode
  <2> DEFINE l == [kind |-> "lead", mode |-> mode]
  <2>2. l \in Spawnling /\ l.kind = "lead"
    BY DEF Spawnling, Kinds
  <2> HIDE DEF l
  <2>3. chain' = <<l>>
    BY <2>1 DEF l
  <2>4. chain' \in Seq(Spawnling) /\ Len(chain') = 1 /\ chain'[1] = l
    BY <2>2, <2>3
  <2>5. \A i \in 2 .. Len(chain') : FALSE
    BY <2>4, SMT
  <2>6. \A i \in 2 .. Len(chain') - 1 : FALSE
    BY <2>4, SMT
  <2>7. Len(chain') \in 1 .. MaxDepth
    BY <2>4, DepthAssumption, SMT
  <2> QED BY <2>2, <2>4, <2>5, <2>6, <2>7 DEF KindInv, ForksPass, NoWiderMode
<1>2. CASE SpawnFork
  <2>1. Spawner \in {"lead", "fork"}
    BY <1>0, <1>2, AgentToolHolders DEF SpawnFork, CallsAgent
  <2>2. "bypassPermissions" \in Askable
    <3>1. Asked[3] = "bypassPermissions" /\ 3 \in 1 .. 3
      BY DEF Asked
    <3> QED BY <3>1 DEF Askable
  <2>3. "fork" \in Kinds \ {"lead"}
    BY DEF Kinds
  <2> QED BY <1>2, <2>1, <2>2, <2>3, KindInvSpawned DEF SpawnFork
<1>3. CASE SpawnDefined
  <2>1. Spawner \in {"lead", "fork"}
    BY <1>0, <1>3, AgentToolHolders DEF SpawnDefined, CallsAgent
  <2>2. PICK kind \in Defined, mode \in Askable : Spawned(kind, mode)
    BY <1>3 DEF SpawnDefined
  <2>3. /\ kind \in Kinds \ {"lead"} /\ kind # "fork" /\ kind # "teammate" /\ kind # "scheduled"
    BY DEF Kinds, Defined
  <2> QED BY <2>1, <2>2, <2>3, KindInvSpawned
<1>4. CASE SpawnIsolated
  <2>1. Spawner \in {"lead", "fork"}
    BY <1>0, <1>4, AgentToolHolders DEF SpawnIsolated, CallsAgent
  <2>2. PICK mode \in Askable : Spawned("worktree", mode)
    BY <1>4 DEF SpawnIsolated
  <2>3. "worktree" \in Kinds \ {"lead"}
    BY DEF Kinds
  <2> QED BY <2>1, <2>2, <2>3, KindInvSpawned
<1>5. CASE SpawnTeammate
  <2>1. Spawner \in {"lead", "fork"}
    BY <1>0, <1>5, AgentToolHolders DEF SpawnTeammate, CallsAgent
  <2>2. PICK mode \in Askable : Spawned("teammate", TeammateMode(mode))
    BY <1>5 DEF SpawnTeammate
  <2>3. "teammate" \in Kinds \ {"lead"}
    BY DEF Kinds
  <2>4. /\ TeammateMode(mode) \in Askable \cup {"plan"}
        /\ IF LeadMode = "plan" THEN TeammateMode(mode) = "plan"
           ELSE Rank(TeammateMode(mode)) <= Rank(LeadMode)
    BY <1>0, NarrowerOfTwo
  <2> QED BY <2>1, <2>2, <2>3, <2>4, KindInvSpawned
<1>6. CASE Recover
  <2>1. Spawner \in {"lead", "fork"} /\ Spawner # "fork"
    BY <1>6 DEF Recover
  <2>2. PICK kind \in {"recovered", "scheduled"}, mode \in Askable :
          Spawned(kind, mode) /\ (kind = "scheduled" => mode = "default")
    BY <1>6, Zenon DEF Recover
  <2>3. kind \in Kinds \ {"lead"} /\ kind # "teammate"
    BY DEF Kinds
  <2> QED BY <2>1, <2>2, <2>3, KindInvSpawned
<1>7. CASE UNCHANGED chain
  BY <1>7 DEF KindInv, ForksPass, NoWiderMode, LeadMode
<1> QED BY <1>1, <1>2, <1>3, <1>4, <1>5, <1>6, <1>7 DEF KindNext

LEMMA KindInvGives == KindInv => KindTypeOK /\ NestingEnds /\ NoWiderMode
<1> SUFFICES ASSUME KindInv PROVE KindTypeOK /\ NestingEnds
  BY DEF KindInv
<1>1. chain \in Seq(Spawnling) /\ Len(chain) \in 1 .. MaxDepth /\ Len(chain) \in Nat
  BY DEF KindInv
<1>2. \A i \in 1 .. Len(chain) : chain[i] \in Spawnling
  BY <1>1
<1>3. Len(chain) <= 3
  <2> SUFFICES ASSUME Len(chain) > 3 PROVE FALSE
    BY <1>1, SMT
  <2>1. 3 \in 2 .. Len(chain) /\ 3 \in 2 .. Len(chain) - 1 /\ 3 > 2
    BY <1>1, SMT
  <2> QED BY <2>1 DEF KindInv, ForksPass
<1> QED BY <1>1, <1>2, <1>3 DEF KindTypeOK, NestingEnds, Spawnling

-----------------------------------------------------------------------------
(* The quiet run.  What the rows look like at each place of the loop, and    *)
(* that every answer with calls is followed by results before the next.      *)
QuietStatus == {"none", "running", "completed", "failed", "interrupted", "cancelled"}
CallStatus == {"pending", "running", "completed", "failed", "cancelled"}
QuietRow == [run : QuietStatus, step : QuietStatus, calls : Seq(CallStatus)]
QuietPcs == {"start", "turn", "model", "calls", "report", "ending", "failing", "over", "dropped"}
QuietPlace == [pc : QuietPcs, iter : 0..MaxIterations, at : Nat]
QuietSaid == {"user", "text", "calls", "results"}

QuietTypes == quiet \in QuietPlace /\ rows \in QuietRow /\ said \in Seq(QuietSaid)

Closed(c) == c \notin {"pending", "running"}
AllClosed == \A i \in 1 .. Len(rows.calls) : Closed(rows.calls[i])

RowsInPlace ==
  /\ quiet.pc \in {"start", "turn"} => rows.step # "running" /\ AllClosed
  /\ quiet.pc \in {"model", "ending"} => rows.calls = <<>>
  /\ quiet.pc = "calls" => /\ quiet.at \in 1 .. Len(rows.calls)
                           /\ \A i \in 1 .. quiet.at - 1 : Closed(rows.calls[i])
  /\ quiet.pc = "report" => AllClosed
  /\ quiet.pc = "over" => /\ rows.run # "running" /\ rows.step # "running"
                          /\ rows.run # "failed" => AllClosed

CallsAnswered ==
  /\ quiet.pc \in {"start", "turn", "model"} => Times(said, "calls") = Times(said, "results")
  /\ quiet.pc \in {"calls", "report"} => Times(said, "calls") = Times(said, "results") + 1

QuietInv == QuietTypes /\ RowsInPlace /\ CallsAnswered

(* Text, reminders and letters count neither as calls nor as results. *)
LEMMA TimesOfText ==
  ASSUME said \in Seq(QuietSaid), NEW y \in {"user", "text"}
  PROVE  /\ Times(Append(said, y), "calls") = Times(said, "calls")
         /\ Times(Append(said, y), "results") = Times(said, "results")
<1>1. y \in QuietSaid /\ "calls" # y /\ "results" # y
  BY DEF QuietSaid
<1> QED BY <1>1, TimesAppended, SMT

LEMMA QuietInvInit == QuietInit => QuietInv
<1> SUFFICES ASSUME QuietInit PROVE QuietInv
  OBVIOUS
<1>1. rows.calls = <<>> /\ rows.step = "none" /\ quiet.pc = "start" /\ said = <<>> /\ acted = {}
  BY DEF QuietInit
<1>2. QuietTypes
  BY QuietAssumption, SMT DEF QuietInit, QuietTypes, QuietRow, QuietPlace, QuietPcs, QuietStatus
<1>3. RowsInPlace
  BY <1>1, SMT DEF RowsInPlace, AllClosed
<1>4. CallsAnswered
  BY <1>1, TimesNone DEF CallsAnswered
<1> QED BY <1>1, <1>2, <1>3, <1>4 DEF QuietInv

(* Records of the loop and of the rows that changed. *)
LEMMA PlaceSet ==
  ASSUME NEW q \in QuietPlace, NEW p \in QuietPcs, NEW r, r = [q EXCEPT !.pc = p]
  PROVE  r \in QuietPlace /\ r.pc = p /\ r.iter = q.iter /\ r.at = q.at
BY DEF QuietPlace, QuietPcs

LEMMA PlaceAt ==
  ASSUME NEW q \in QuietPlace, NEW n \in Nat, NEW r, r = [q EXCEPT !.at = n]
  PROVE  r \in QuietPlace /\ r.pc = q.pc /\ r.iter = q.iter /\ r.at = n
BY DEF QuietPlace, QuietPcs

Placed(q, p, i, n) == [q EXCEPT !.pc = p, !.iter = i, !.at = n]
PlacedAt(q, p, n) == [q EXCEPT !.pc = p, !.at = n]
Rowed(r, x, y) == [r EXCEPT !.run = x, !.step = y]
RowedCalls(r, y, c) == [r EXCEPT !.step = y, !.calls = c]

LEMMA PlaceSetAt ==
  ASSUME NEW q \in QuietPlace, NEW p \in QuietPcs,
         NEW n \in Nat
  PROVE  /\ PlacedAt(q, p, n) \in QuietPlace /\ PlacedAt(q, p, n).pc = p
         /\ PlacedAt(q, p, n).iter = q.iter /\ PlacedAt(q, p, n).at = n
BY DEF QuietPlace, QuietPcs, PlacedAt

LEMMA PlaceAll ==
  ASSUME NEW q \in QuietPlace, NEW p \in QuietPcs,
         NEW i \in 0..MaxIterations, NEW n \in Nat
  PROVE  /\ Placed(q, p, i, n) \in QuietPlace /\ Placed(q, p, i, n).pc = p
         /\ Placed(q, p, i, n).iter = i /\ Placed(q, p, i, n).at = n
BY DEF QuietPlace, QuietPcs, Placed

LEMMA RowSet ==
  ASSUME NEW r \in QuietRow, NEW x \in QuietStatus, NEW y \in QuietStatus
  PROVE  /\ Rowed(r, x, y) \in QuietRow /\ Rowed(r, x, y).run = x
         /\ Rowed(r, x, y).step = y /\ Rowed(r, x, y).calls = r.calls
BY DEF QuietRow, Rowed

LEMMA RowRun ==
  ASSUME NEW r \in QuietRow, NEW x \in QuietStatus, NEW q, q = [r EXCEPT !.run = x]
  PROVE  q \in QuietRow /\ q.run = x /\ q.step = r.step /\ q.calls = r.calls
BY DEF QuietRow

LEMMA RowStep ==
  ASSUME NEW r \in QuietRow, NEW y \in QuietStatus, NEW q, q = [r EXCEPT !.step = y]
  PROVE  q \in QuietRow /\ q.run = r.run /\ q.step = y /\ q.calls = r.calls
BY DEF QuietRow

LEMMA RowStepCalls ==
  ASSUME NEW r \in QuietRow, NEW y \in QuietStatus, NEW c \in Seq(CallStatus)
  PROVE  /\ RowedCalls(r, y, c) \in QuietRow /\ RowedCalls(r, y, c).run = r.run
         /\ RowedCalls(r, y, c).step = y /\ RowedCalls(r, y, c).calls = c
BY DEF QuietRow, RowedCalls

LEMMA RowCalls ==
  ASSUME NEW r \in QuietRow, NEW c \in Seq(CallStatus), NEW q, q = [r EXCEPT !.calls = c]
  PROVE  q \in QuietRow /\ q.run = r.run /\ q.step = r.step /\ q.calls = c
BY DEF QuietRow

LEMMA RowCall ==
  ASSUME NEW r \in QuietRow, NEW n \in 1 .. Len(r.calls), NEW x \in CallStatus, NEW q,
         q = [r EXCEPT !.calls[n] = x]
  PROVE  /\ q \in QuietRow /\ q.run = r.run /\ q.step = r.step
         /\ Len(q.calls) = Len(r.calls) /\ q.calls[n] = x
         /\ \A i \in 1 .. Len(r.calls) : i # n => q.calls[i] = r.calls[i]
<1> DEFINE c == [r.calls EXCEPT ![n] = x]
<1>1. r.calls \in Seq(CallStatus)
  BY DEF QuietRow
<1>2. /\ c \in Seq(CallStatus) /\ Len(c) = Len(r.calls) /\ c[n] = x
      /\ \A i \in 1 .. Len(r.calls) : i # n => c[i] = r.calls[i]
  BY <1>1
<1>3. q = [r EXCEPT !.calls = c]
  BY Zenon
<1> HIDE DEF c
<1>4. q \in QuietRow /\ q.run = r.run /\ q.step = r.step /\ q.calls = c
  BY <1>2, <1>3, RowCalls
<1> QED BY <1>2, <1>4

(* The end of a run: the row of the run and the open step get a last status. *)
LEMMA OverEffect ==
  ASSUME QuietTypes, NEW r \in QuietStatus \ {"running"}, NEW s \in QuietStatus \ {"running"},
         QuietOver("over", r, s)
  PROVE  /\ quiet' \in QuietPlace /\ quiet'.pc = "over"
         /\ rows' \in QuietRow /\ rows'.run = r /\ rows'.step # "running"
         /\ rows'.calls = rows.calls
<1> DEFINE y == IF rows.step = "running" THEN s ELSE rows.step
<1>0. quiet \in QuietPlace /\ rows \in QuietRow
  BY DEF QuietTypes
<1>1. quiet' = [quiet EXCEPT !.pc = "over"]
  BY DEF QuietOver
<1>2. rows' = Rowed(rows, r, y)
  BY Zenon DEF QuietOver, Rowed
<1>3. y \in QuietStatus /\ y # "running"
  BY <1>0 DEF QuietRow
<1> HIDE DEF y
<1>4. quiet' \in QuietPlace /\ quiet'.pc = "over"
  BY <1>0, <1>1, PlaceSet DEF QuietPcs
<1>5. rows' \in QuietRow /\ rows'.run = r /\ rows'.step = y /\ rows'.calls = rows.calls
  <2>1. r \in QuietStatus
    OBVIOUS
  <2>2. /\ Rowed(rows, r, y) \in QuietRow /\ Rowed(rows, r, y).run = r
        /\ Rowed(rows, r, y).step = y /\ Rowed(rows, r, y).calls = rows.calls
    BY <1>0, <1>3, <2>1, RowSet
  <2> QED BY <1>2, <2>2
<1> QED BY <1>3, <1>4, <1>5

LEMMA QuietInvNext == QuietInv /\ [QuietNext]_quietVars => QuietInv'
<1> SUFFICES ASSUME QuietInv, [QuietNext]_quietVars PROVE QuietInv'
  OBVIOUS
<1>0. /\ QuietTypes /\ RowsInPlace /\ CallsAnswered
      /\ quiet \in QuietPlace /\ rows \in QuietRow /\ said \in Seq(QuietSaid)
      /\ rows.calls \in Seq(CallStatus) /\ Len(rows.calls) \in Nat /\ quiet.at \in Nat
      /\ quiet.iter \in 0..MaxIterations /\ MaxIterations \in Nat /\ MaxQuietCalls \in Nat \ {0}
  BY QuietAssumption DEF QuietInv, QuietTypes, QuietRow, QuietPlace
<1>1. CASE QuietStarts
  <2>1. /\ quiet.pc = "start" /\ quiet' = [quiet EXCEPT !.pc = "turn"]
        /\ rows' = [rows EXCEPT !.run = "running"] /\ said' = <<"user">> /\ acted' = acted
    BY <1>1 DEF QuietStarts
  <2>2. quiet' \in QuietPlace /\ quiet'.pc = "turn"
    BY <1>0, <2>1, PlaceSet DEF QuietPcs
  <2>3. rows' \in QuietRow /\ rows'.step = rows.step /\ rows'.calls = rows.calls
    BY <1>0, <2>1, RowRun DEF QuietStatus
  <2>4. said' \in Seq(QuietSaid) /\ said' = Append(<<>>, "user") /\ "user" \in QuietSaid
        /\ <<>> \in Seq(QuietSaid)
    BY <2>1 DEF QuietSaid
  <2>5. Times(said', "calls") = 0 /\ Times(said', "results") = 0
    <3>1. "calls" # "user" /\ "results" # "user"
      OBVIOUS
    <3>2. PICK e \in Seq(QuietSaid), y \in QuietSaid : e = <<>> /\ y = "user"
      BY <2>4, Zenon
    <3>3. \A x : Times(Append(e, y), x) = Times(e, x) + IF x = y THEN 1 ELSE 0
      BY TimesAppended
    <3> QED BY <2>4, <3>1, <3>2, <3>3, TimesNone, SMT
  <2>6. RowsInPlace'
    BY <1>0, <2>1, <2>2, <2>3 DEF RowsInPlace, AllClosed
  <2> QED BY <1>0, <2>1, <2>2, <2>3, <2>4, <2>5, <2>6
          DEF QuietInv, QuietTypes, CallsAnswered
<1>2. CASE QuietAsks
  <2>0. quiet.pc = "turn" /\ acted' = {}
    BY <1>2 DEF QuietAsks
  <2>1. CASE quiet.iter = MaxIterations
    <3>1. QuietOver("over", "interrupted", "interrupted") /\ said' = said
      BY <1>2, <2>1 DEF QuietAsks
    <3>2. /\ quiet' \in QuietPlace /\ quiet'.pc = "over"
          /\ rows' \in QuietRow /\ rows'.run = "interrupted" /\ rows'.step # "running"
          /\ rows'.calls = rows.calls
      BY <1>0, <3>1, OverEffect DEF QuietStatus
    <3>3. RowsInPlace' /\ CallsAnswered'
      BY <1>0, <2>0, <3>1, <3>2 DEF RowsInPlace, AllClosed, CallsAnswered
    <3> QED BY <1>0, <2>0, <3>1, <3>2, <3>3 DEF QuietInv, QuietTypes
  <2>2. CASE quiet.iter # MaxIterations
    <3> DEFINE i == quiet.iter + 1
    <3>1. /\ quiet' = Placed(quiet, "model", i, 0)
          /\ rows' = RowedCalls(rows, "running", <<>>)
          /\ said' = said \/ said' = Append(said, "user")
      BY <1>2, <2>2, Zenon DEF QuietAsks, Placed, RowedCalls
    <3>2. i \in 0..MaxIterations
      BY <1>0, <2>2, SMT
    <3> HIDE DEF i
    <3>3. quiet' \in QuietPlace /\ quiet'.pc = "model"
      <4>1. /\ 0 \in Nat /\ "model" \in QuietPcs
            /\ quiet \in QuietPlace
        BY <1>0 DEF QuietPcs
      <4>2. /\ Placed(quiet, "model", i, 0) \in QuietPlace
            /\ Placed(quiet, "model", i, 0).pc = "model"
        BY <3>2, <4>1, PlaceAll
      <4> QED BY <3>1, <4>2
    <3>4. <<>> \in Seq(CallStatus) /\ "running" \in QuietStatus
      BY DEF QuietStatus
    <3>5. rows' \in QuietRow /\ rows'.calls = <<>>
      BY <1>0, <3>1, <3>4, RowStepCalls
    <3>6. said' \in Seq(QuietSaid)
      BY <1>0, <3>1 DEF QuietSaid
    <3>7. /\ Times(said', "calls") = Times(said, "calls")
          /\ Times(said', "results") = Times(said, "results")
      BY <1>0, <3>1, TimesOfText
    <3>8. CallsAnswered' /\ RowsInPlace'
      BY <1>0, <2>0, <3>3, <3>5, <3>7 DEF CallsAnswered, RowsInPlace
    <3> QED BY <2>0, <3>3, <3>5, <3>6, <3>8 DEF QuietInv, QuietTypes
  <2> QED BY <2>1, <2>2
<1>3. CASE QuietText
  <2>1. /\ quiet.pc = "model" /\ quiet' = [quiet EXCEPT !.pc = "ending"] /\ rows' = rows
        /\ said' = Append(said, "text")
    BY <1>3 DEF QuietText
  <2>2. quiet' \in QuietPlace /\ quiet'.pc = "ending"
    BY <1>0, <2>1, PlaceSet DEF QuietPcs
  <2>3. said' \in Seq(QuietSaid)
    BY <1>0, <2>1 DEF QuietSaid
  <2> QED BY <1>0, <2>1, <2>2, <2>3 DEF QuietInv, QuietTypes, RowsInPlace, CallsAnswered
<1>12. CASE QuietCompletes
  <2>1. quiet.pc = "ending" /\ QuietOver("over", "completed", "completed") /\ said' = said
    BY <1>12 DEF QuietCompletes
  <2>2. /\ quiet' \in QuietPlace /\ quiet'.pc = "over"
        /\ rows' \in QuietRow /\ rows'.run = "completed" /\ rows'.step # "running"
        /\ rows'.calls = rows.calls
    BY <1>0, <2>1, OverEffect DEF QuietStatus
  <2>3. AllClosed'
    BY <1>0, <2>1, <2>2, SMT DEF RowsInPlace, AllClosed
  <2> QED BY <1>0, <2>1, <2>2, <2>3 DEF QuietInv, QuietTypes, RowsInPlace, CallsAnswered
<1>4. CASE QuietLoops
  <2>1. /\ quiet.pc = "model" /\ quiet' = [quiet EXCEPT !.pc = "over"]
        /\ rows' = Rowed(rows, "interrupted", "failed")
        /\ said' = said /\ acted' = acted
    BY <1>4, Zenon DEF QuietLoops, Rowed
  <2>2. quiet' \in QuietPlace /\ quiet'.pc = "over"
    BY <1>0, <2>1, PlaceSet DEF QuietPcs
  <2>3. /\ rows' \in QuietRow /\ rows'.run = "interrupted" /\ rows'.step = "failed"
        /\ rows'.calls = rows.calls
    <3>1. "interrupted" \in QuietStatus /\ "failed" \in QuietStatus
      BY DEF QuietStatus
    <3> QED BY <1>0, <2>1, <3>1, RowSet
  <2>4. AllClosed'
    BY <1>0, <2>1, <2>3, SMT DEF RowsInPlace, AllClosed
  <2> QED BY <1>0, <2>1, <2>2, <2>3, <2>4
          DEF QuietInv, QuietTypes, RowsInPlace, CallsAnswered
<1>5. ASSUME NEW n \in 1 .. MaxQuietCalls, QuietCalls(n) PROVE QuietInv'
  <2> DEFINE c == [i \in 1 .. n |-> "pending"]
  <2>1. /\ quiet.pc = "model" /\ quiet' = PlacedAt(quiet, "calls", 1)
        /\ rows' = [rows EXCEPT !.calls = c]
        /\ said' = Append(said, "calls") /\ acted' = acted
    BY <1>5, Zenon DEF QuietCalls, PlacedAt
  <2>2. c \in Seq(CallStatus) /\ Len(c) = n /\ n \in Nat /\ n >= 1
    BY <1>0, SMT DEF CallStatus
  <2> HIDE DEF c
  <2>3. quiet' \in QuietPlace /\ quiet'.pc = "calls" /\ quiet'.at = 1
    <3>1. 1 \in Nat /\ "calls" \in QuietPcs
      BY DEF QuietPcs
    <3>2. /\ PlacedAt(quiet, "calls", 1) \in QuietPlace
          /\ PlacedAt(quiet, "calls", 1).pc = "calls" /\ PlacedAt(quiet, "calls", 1).at = 1
      BY <1>0, <3>1, PlaceSetAt
    <3> QED BY <2>1, <3>2
  <2>4. rows' \in QuietRow /\ rows'.calls = c
    BY <1>0, <2>1, <2>2, RowCalls
  <2>5. said' \in Seq(QuietSaid) /\ "calls" \in QuietSaid
    BY <1>0, <2>1 DEF QuietSaid
  <2>6. /\ Times(said', "calls") = Times(said, "calls") + 1
        /\ Times(said', "results") = Times(said, "results")
    BY <1>0, <2>1, <2>5, TimesAppended, SMT
  <2>7. CallsAnswered'
    BY <1>0, <2>1, <2>3, <2>6 DEF CallsAnswered
  <2>8. RowsInPlace'
    BY <2>2, <2>3, <2>4, SMT DEF RowsInPlace
  <2> QED BY <1>0, <2>1, <2>3, <2>4, <2>5, <2>7, <2>8 DEF QuietInv, QuietTypes
<1>6. ASSUME NEW verdict \in {"allow", "ask", "deny", "unknown", "rejected"}, QuietCall(verdict)
      PROVE  QuietInv'
  <2>1. /\ quiet.pc = "calls" /\ rows' = [rows EXCEPT !.calls[quiet.at] = "running"]
        /\ acted' = IF Runs(verdict) THEN acted \cup {<<quiet.at, verdict>>} ELSE acted
        /\ quiet' = quiet /\ said' = said
    BY <1>6 DEF QuietCall
  <2>2. quiet.at \in 1 .. Len(rows.calls) /\ "running" \in CallStatus
    BY <1>0, <2>1 DEF RowsInPlace, CallStatus
  <2>3. /\ rows' \in QuietRow /\ Len(rows'.calls) = Len(rows.calls)
        /\ \A i \in 1 .. Len(rows.calls) : i # quiet.at => rows'.calls[i] = rows.calls[i]
    BY <1>0, <2>1, <2>2, RowCall
  <2>4. \A i \in 1 .. quiet.at - 1 : i # quiet.at /\ i \in 1 .. Len(rows.calls)
    BY <1>0, <2>2, SMT
  <2>5. RowsInPlace'
    BY <1>0, <2>1, <2>2, <2>3, <2>4 DEF RowsInPlace
  <2> QED BY <1>0, <2>1, <2>3, <2>5 DEF QuietInv, QuietTypes, CallsAnswered
<1>7. ASSUME NEW outcome \in {"completed", "failed"}, QuietResult(outcome) PROVE QuietInv'
  <2> DEFINE n == quiet.at + 1
  <2>1. /\ quiet.pc = "calls" /\ rows' = [rows EXCEPT !.calls[quiet.at] = outcome]
        /\ quiet' = IF quiet.at < Len(rows.calls) THEN [quiet EXCEPT !.at = n]
                                                  ELSE [quiet EXCEPT !.pc = "report"]
        /\ said' = said /\ acted' = acted
    BY <1>7, Zenon DEF QuietResult
  <2>2. quiet.at \in 1 .. Len(rows.calls) /\ outcome \in CallStatus
    BY <1>0, <2>1 DEF RowsInPlace, CallStatus
  <2>3. /\ rows' \in QuietRow /\ Len(rows'.calls) = Len(rows.calls)
        /\ rows'.calls[quiet.at] = outcome
        /\ \A i \in 1 .. Len(rows.calls) : i # quiet.at => rows'.calls[i] = rows.calls[i]
    BY <1>0, <2>1, <2>2, RowCall
  <2>4. n \in Nat /\ (quiet.at < Len(rows.calls) => n \in 1 .. Len(rows.calls))
    BY <1>0, <2>2, SMT
  <2>5. \A i \in 1 .. quiet.at : Closed(rows'.calls[i])
    <3> SUFFICES ASSUME NEW i \in 1 .. quiet.at PROVE Closed(rows'.calls[i])
      OBVIOUS
    <3>1. CASE i = quiet.at
      BY <2>3, <3>1 DEF Closed
    <3>2. CASE i # quiet.at
      <4>1. i \in 1 .. quiet.at - 1 /\ i \in 1 .. Len(rows.calls)
        BY <1>0, <2>2, <3>2, SMT
      <4> QED BY <1>0, <2>1, <2>3, <3>2, <4>1 DEF RowsInPlace
    <3> QED BY <3>1, <3>2
  <2>6. CASE quiet.at < Len(rows.calls)
    <3>1. quiet' = [quiet EXCEPT !.at = n]
      BY <2>1, <2>6
    <3>2. n - 1 = quiet.at
      BY <1>0, SMT
    <3> HIDE DEF n
    <3>3. quiet' \in QuietPlace /\ quiet'.pc = "calls" /\ quiet'.at = n
      <4>1. quiet' \in QuietPlace /\ quiet'.pc = quiet.pc /\ quiet'.at = n
        BY <1>0, <2>4, <3>1, PlaceAt
      <4> QED BY <2>1, <4>1
    <3>4. RowsInPlace'
      BY <2>3, <2>4, <2>5, <2>6, <3>2, <3>3 DEF RowsInPlace
    <3> QED BY <1>0, <2>1, <2>3, <3>3, <3>4 DEF QuietInv, QuietTypes, CallsAnswered
  <2>7. CASE ~(quiet.at < Len(rows.calls))
    <3>1. quiet' = [quiet EXCEPT !.pc = "report"]
      BY <2>1, <2>7
    <3>2. quiet' \in QuietPlace /\ quiet'.pc = "report"
      BY <1>0, <3>1, PlaceSet DEF QuietPcs
    <3>3. quiet.at = Len(rows.calls)
      BY <1>0, <2>2, <2>7, SMT
    <3>4. RowsInPlace'
      BY <2>3, <2>5, <3>2, <3>3 DEF RowsInPlace, AllClosed
    <3> QED BY <1>0, <2>1, <2>3, <3>2, <3>4 DEF QuietInv, QuietTypes, CallsAnswered
  <2> QED BY <2>6, <2>7
<1>8. CASE QuietReports
  <2>1. /\ quiet.pc = "report" /\ said' = Append(said, "results")
        /\ rows' = [rows EXCEPT !.step = "completed"]
        /\ quiet' = [quiet EXCEPT !.pc = "turn"] /\ acted' = acted
    BY <1>8 DEF QuietReports
  <2>2. quiet' \in QuietPlace /\ quiet'.pc = "turn"
    BY <1>0, <2>1, PlaceSet DEF QuietPcs
  <2>3. rows' \in QuietRow /\ rows'.step = "completed" /\ rows'.calls = rows.calls
    BY <1>0, <2>1, RowStep DEF QuietStatus
  <2>4. said' \in Seq(QuietSaid) /\ "results" \in QuietSaid
    BY <1>0, <2>1 DEF QuietSaid
  <2>5. /\ Times(said', "calls") = Times(said, "calls")
        /\ Times(said', "results") = Times(said, "results") + 1
    BY <1>0, <2>1, <2>4, TimesAppended, SMT
  <2>6. CallsAnswered' /\ RowsInPlace'
    BY <1>0, <2>1, <2>2, <2>3, <2>5 DEF CallsAnswered, RowsInPlace, AllClosed
  <2> QED BY <1>0, <2>1, <2>2, <2>3, <2>4, <2>6 DEF QuietInv, QuietTypes
<1>9. CASE QuietFailed
  <2>1. QuietOver("over", "failed", "failed") /\ said' = said
    BY <1>9 DEF QuietFailed
  <2>2. /\ quiet' \in QuietPlace /\ quiet'.pc = "over"
        /\ rows' \in QuietRow /\ rows'.run = "failed" /\ rows'.step # "running"
    BY <1>0, <2>1, OverEffect DEF QuietStatus
  <2> QED BY <1>0, <2>1, <2>2 DEF QuietInv, QuietTypes, RowsInPlace, CallsAnswered
<1>13. CASE QuietFails \/ QuietDropped
  <2>1. PICK p \in {"failing", "dropped"} : quiet' = [quiet EXCEPT !.pc = p]
    BY <1>13, Zenon DEF QuietFails, QuietDropped
  <2>2. rows' = rows /\ said' = said
    BY <1>13 DEF QuietFails, QuietDropped
  <2>3. quiet' \in QuietPlace /\ quiet'.pc = p
    BY <1>0, <2>1, PlaceSet DEF QuietPcs
  <2> QED BY <1>0, <2>2, <2>3 DEF QuietInv, QuietTypes, RowsInPlace, CallsAnswered
<1>10. CASE QuietCancelled
  <2> DEFINE c == [i \in DOMAIN rows.calls |->
                     IF rows.calls[i] \in {"pending", "running"} THEN "cancelled" ELSE rows.calls[i]]
             s == IF rows.step = "running" THEN "cancelled" ELSE rows.step
  <2>1. /\ quiet' = [quiet EXCEPT !.pc = "over"]
        /\ rows' = [run |-> "cancelled", step |-> s, calls |-> c]
        /\ said' = said /\ acted' = acted
    BY <1>10 DEF QuietCancelled
  <2>2. quiet' \in QuietPlace /\ quiet'.pc = "over"
    BY <1>0, <2>1, PlaceSet DEF QuietPcs
  <2>3. c \in Seq(CallStatus) /\ \A i \in 1 .. Len(c) : Closed(c[i])
    <3>1. DOMAIN rows.calls = 1 .. Len(rows.calls)
      BY <1>0
    <3>2. \A i \in 1 .. Len(rows.calls) : c[i] \in CallStatus /\ Closed(c[i])
      BY <1>0, <3>1 DEF CallStatus, Closed
    <3>3. c \in [1 .. Len(rows.calls) -> CallStatus]
      BY <3>1, <3>2
    <3> HIDE DEF c
    <3>4. c \in Seq(CallStatus) /\ Len(c) = Len(rows.calls)
      BY <1>0, <3>3
    <3> QED BY <3>2, <3>4
  <2>4. s \in QuietStatus /\ s # "running" /\ "cancelled" \in QuietStatus
    BY <1>0 DEF QuietStatus, QuietRow
  <2> HIDE DEF c, s
  <2>5. /\ rows' \in QuietRow /\ rows'.run = "cancelled" /\ rows'.step # "running"
        /\ rows'.calls = c
    BY <2>1, <2>3, <2>4 DEF QuietRow
  <2> QED BY <1>0, <2>1, <2>2, <2>3, <2>5
          DEF QuietInv, QuietTypes, RowsInPlace, AllClosed, CallsAnswered
<1>11. CASE UNCHANGED quietVars
  BY <1>0, <1>11 DEF quietVars, QuietInv, QuietTypes, RowsInPlace, AllClosed, CallsAnswered
<1> QED BY <1>1, <1>2, <1>3, <1>4, <1>5, <1>6, <1>7, <1>8, <1>9, <1>10, <1>11, <1>12, <1>13
        DEF QuietNext, QuietGoes

LEMMA QuietInvGives == QuietInv => QuietTypeOK /\ QuietClosed
<1> SUFFICES ASSUME QuietInv PROVE QuietTypeOK /\ QuietClosed
  OBVIOUS
<1>0. rows.calls \in Seq(CallStatus)
  BY DEF QuietInv, QuietTypes, QuietRow
<1>1. DOMAIN rows.calls = 1 .. Len(rows.calls)
  BY <1>0
<1>2. QuietTypeOK
  BY <1>0, <1>1 DEF QuietInv, QuietTypes, QuietRow, QuietPlace, QuietPcs, QuietTypeOK, QuietStatus, CallStatus
<1>3. QuietClosed
  BY <1>1 DEF QuietInv, RowsInPlace, AllClosed, Closed, CallsAnswered, Times, QuietClosed
<1> QED BY <1>2, <1>3

-----------------------------------------------------------------------------
(* Sub-agents.  What is known of a task by its place, and that each report   *)
(* was either told or is queued, once the coroutine is gone.                 *)
TaskStatus == {"unused", "running", "completed", "failed", "cancelled"}
TaskPlace == {"none", "created", "running", "idle", "again", "gone", "dropped"}
TaskRow == [st : TaskStatus, pc : TaskPlace, token : Nat, asked : BOOLEAN, rounds : Nat,
            synced : BOOLEAN]
ActivePlace == {"created", "running", "idle", "again"}
RowStatus == {"claimed", "blocked", "completed"}

SubTypes ==
  /\ bg \in [Agents -> TaskRow]
  /\ run \in 1 .. MaxRuns /\ stopped \subseteq 1 .. MaxRuns
  /\ notes \in Seq(Agents) /\ told \in [Agents -> Nat]
  /\ item \in [Boarded -> RowStatus]

TaskSound(r) ==
  /\ r.st = "unused" <=> r.pc = "none"
  /\ r.st = "running" => r.pc \in {"created", "running", "dropped"}
  /\ r.synced <=> r.st \notin {"unused", "running"}
  /\ r.pc # "none" => r.token \in 1 .. MaxRuns
  /\ r.pc = "dropped" => r.asked
  /\ r.st = "cancelled" /\ r.pc \in ActivePlace => r.asked

RowHeld(a) == item[a] = "claimed" <=> ~bg[a].synced
Reported(a) == told[a] + Times(notes, a) = IF bg[a].pc = "gone" THEN 1 ELSE 0
QuietAfterwards == down = "over" => \A a \in Agents : bg[a].pc \notin ActivePlace /\ bg[a].st # "running"

SubInv ==
  /\ SubTypes /\ QuietAfterwards
  /\ \A a \in Agents : TaskSound(bg[a]) /\ Reported(a)
  /\ \A a \in Boarded : RowHeld(a)

LEMMA SubInvInit == SubInit => SubInv
<1> SUFFICES ASSUME SubInit PROVE SubInv
  OBVIOUS
<1>0. MaxRuns \in Nat \ {0} /\ Boarded \subseteq Agents
  BY SubAgentAssumption
<1>1. SubTypes
  BY <1>0, SMT DEF SubInit, SubTypes, TaskRow, TaskStatus, TaskPlace, RowStatus
<1>2. ASSUME NEW a \in Agents PROVE TaskSound(bg[a]) /\ Reported(a)
  <2>1. bg[a] = [st |-> "unused", pc |-> "none", token |-> 0, asked |-> FALSE,
                 rounds |-> 0, synced |-> FALSE]
    BY DEF SubInit
  <2>2. told[a] = 0 /\ Times(notes, a) = 0
    BY TimesNone DEF SubInit
  <2> QED BY <2>1, <2>2 DEF TaskSound, ActivePlace, Reported
<1>3. ASSUME NEW a \in Boarded PROVE RowHeld(a)
  BY <1>0, <1>3 DEF SubInit, RowHeld
<1>4. QuietAfterwards
  BY DEF SubInit, QuietAfterwards
<1> QED BY <1>1, <1>2, <1>3, <1>4 DEF SubInv

(* One task moves: its record is q, and if the move is its last one it       *)
(* reports; its board row is held exactly when q is not settled.             *)
OneMoves(a, q) ==
  /\ q \in TaskRow /\ TaskSound(q)
  /\ bg' = [bg EXCEPT ![a] = q] /\ bg[a].pc # "gone"
  /\ notes' = IF q.pc = "gone" THEN Append(notes, a) ELSE notes
  /\ told' = told /\ run' = run /\ stopped' \subseteq 1 .. MaxRuns
  /\ item' \in [Boarded -> RowStatus]
  /\ \A b \in Boarded \ {a} : item'[b] = item[b]
  /\ a \in Boarded => (item'[a] = "claimed" <=> ~q.synced)
  /\ down # "over" /\ down' = down

LEMMA OneMovesKeeps ==
  ASSUME SubInv, NEW a \in Agents, NEW q, OneMoves(a, q)
  PROVE  SubInv'
<1>0. /\ bg \in [Agents -> TaskRow] /\ notes \in Seq(Agents) /\ told \in [Agents -> Nat]
      /\ run \in 1 .. MaxRuns /\ Boarded \subseteq Agents
  BY SubAgentAssumption DEF SubInv, SubTypes
<1>1. bg' \in [Agents -> TaskRow] /\ bg'[a] = q /\ \A b \in Agents \ {a} : bg'[b] = bg[b]
  BY <1>0, Assigned DEF OneMoves
<1>2. notes' \in Seq(Agents)
  BY <1>0 DEF OneMoves
<1>3. SubTypes'
  BY <1>0, <1>1, <1>2 DEF OneMoves, SubTypes
<1>4. ASSUME NEW b \in Agents PROVE TaskSound(bg'[b]) /\ Reported(b)'
  <2>1. TaskSound(bg'[b])
    BY <1>1 DEF SubInv, OneMoves
  <2>2. /\ Times(notes, b) \in Nat /\ told[b] \in Nat /\ told' = told
        /\ told[b] + Times(notes, b) = IF bg[b].pc = "gone" THEN 1 ELSE 0
    BY <1>0, TimesAppended DEF SubInv, Reported, OneMoves
  <2>3. CASE b = a /\ q.pc = "gone"
    <3>1. notes' = Append(notes, a) /\ bg[a].pc # "gone" /\ bg'[b].pc = "gone"
      BY <1>1, <2>3 DEF OneMoves
    <3>2. Times(notes', b) = Times(notes, b) + 1
      BY <1>0, <2>3, <3>1, TimesAppended
    <3>3. told'[b] + Times(notes', b) = 1
      BY <2>2, <2>3, <3>1, <3>2, SMT
    <3> QED BY <2>1, <3>1, <3>3 DEF Reported
  <2>4. CASE ~(b = a /\ q.pc = "gone")
    <3>1. Times(notes', b) = Times(notes, b)
      <4>1. CASE q.pc = "gone"
        <5>1. notes' = Append(notes, a) /\ b # a
          BY <2>4, <4>1 DEF OneMoves
        <5>2. Times(Append(notes, a), b) = Times(notes, b) + IF b = a THEN 1 ELSE 0
          BY <1>0, TimesAppended
        <5> QED BY <2>2, <5>1, <5>2, SMT
      <4>2. CASE q.pc # "gone"
        BY <4>2 DEF OneMoves
      <4> QED BY <4>1, <4>2
    <3>2. bg'[b].pc = "gone" <=> bg[b].pc = "gone"
      BY <1>1, <2>4 DEF OneMoves
    <3>3. told'[b] + Times(notes', b) = IF bg'[b].pc = "gone" THEN 1 ELSE 0
      BY <2>2, <3>1, <3>2
    <3> QED BY <2>1, <3>3 DEF Reported
  <2> QED BY <2>3, <2>4
<1>5. ASSUME NEW b \in Boarded PROVE RowHeld(b)'
  BY <1>0, <1>1, <1>5 DEF SubInv, OneMoves, RowHeld
<1>6. QuietAfterwards'
  BY DEF OneMoves, QuietAfterwards
<1> QED BY <1>3, <1>4, <1>5, <1>6 DEF SubInv

(* The board row of a task that has an outcome. *)
LEMMA RowSettled ==
  ASSUME SubInv, NEW a \in Agents, NEW outcome, item' = Synced(item, a, outcome)
  PROVE  /\ item' \in [Boarded -> RowStatus]
         /\ \A b \in Boarded \ {a} : item'[b] = item[b]
         /\ a \in Boarded => item'[a] # "claimed"
<1>0. item \in [Boarded -> RowStatus]
  BY DEF SubInv, SubTypes
<1>1. CASE a \in Boarded /\ ~bg[a].synced
  <2> DEFINE m == IF outcome = "completed" THEN "completed" ELSE "blocked"
  <2>1. m \in RowStatus /\ m # "claimed"
    BY DEF RowStatus
  <2>2. item' = [item EXCEPT ![a] = m]
    BY <1>1 DEF Synced
  <2> HIDE DEF m
  <2> QED BY <1>0, <1>1, <2>1, <2>2, Assigned
<1>2. CASE ~(a \in Boarded /\ ~bg[a].synced)
  <2>1. item' = item
    BY <1>2 DEF Synced
  <2> QED BY <1>0, <1>2, <2>1 DEF SubInv, RowHeld
<1> QED BY <1>1, <1>2

(* The records of a task. *)
LEMMA TaskFinished ==
  ASSUME NEW r \in TaskRow, NEW s \in {"completed", "failed", "cancelled"}
  PROVE  LET q == [r EXCEPT !.st = s, !.pc = "gone", !.synced = TRUE]
         IN  q \in TaskRow /\ q.st = s /\ q.pc = "gone" /\ q.synced /\ q.token = r.token /\ q.asked = r.asked
BY DEF TaskRow, TaskStatus, TaskPlace

LEMMA TaskSettled ==
  ASSUME NEW r \in TaskRow
  PROVE  LET q == [r EXCEPT !.st = "completed", !.pc = "idle", !.synced = TRUE]
         IN  /\ q \in TaskRow /\ q.st = "completed" /\ q.pc = "idle" /\ q.synced
             /\ q.token = r.token /\ q.asked = r.asked
BY DEF TaskRow, TaskStatus, TaskPlace

LEMMA TaskPlaced ==
  ASSUME NEW r \in TaskRow, NEW p \in TaskPlace
  PROVE  LET q == [r EXCEPT !.pc = p]
         IN  q \in TaskRow /\ q.st = r.st /\ q.pc = p /\ q.synced = r.synced /\ q.token = r.token /\ q.asked = r.asked
BY DEF TaskRow, TaskPlace

LEMMA TaskWoken ==
  ASSUME NEW r \in TaskRow, NEW n \in Nat
  PROVE  LET q == [r EXCEPT !.pc = "again", !.rounds = n]
         IN  q \in TaskRow /\ q.st = r.st /\ q.pc = "again" /\ q.synced = r.synced /\ q.token = r.token /\ q.asked = r.asked
BY DEF TaskRow, TaskPlace

LEMMA TaskLaunched ==
  ASSUME NEW r \in TaskRow, NEW n \in Nat
  PROVE  LET q == [r EXCEPT !.st = "running", !.pc = "created", !.token = n]
         IN  q \in TaskRow /\ q.st = "running" /\ q.pc = "created" /\ q.synced = r.synced /\ q.token = n /\ q.asked = r.asked
BY DEF TaskRow, TaskStatus, TaskPlace

LEMMA TaskCancelled ==
  ASSUME NEW r \in TaskRow
  PROVE  LET q == [r EXCEPT !.st = "cancelled", !.asked = TRUE, !.synced = TRUE]
         IN  q \in TaskRow /\ q.st = "cancelled" /\ q.pc = r.pc /\ q.synced /\ q.token = r.token /\ q.asked
BY DEF TaskRow, TaskStatus

LEMMA TaskAsked ==
  ASSUME NEW r \in TaskRow
  PROVE  LET q == [r EXCEPT !.asked = TRUE]
         IN  q \in TaskRow /\ q.st = r.st /\ q.pc = r.pc /\ q.synced = r.synced /\ q.token = r.token /\ q.asked
BY DEF TaskRow

LEMMA TaskGivenUp ==
  ASSUME NEW r \in TaskRow
  PROVE  LET q == [r EXCEPT !.st = "cancelled", !.synced = TRUE]
         IN  q \in TaskRow /\ q.st = "cancelled" /\ q.pc = r.pc /\ q.synced /\ q.token = r.token /\ q.asked = r.asked
BY DEF TaskRow, TaskStatus

LEMMA SubInvNext == SubInv /\ [SubNext]_subVars => SubInv'
<1> SUFFICES ASSUME SubInv, [SubNext]_subVars PROVE SubInv'
  OBVIOUS
<1>0. /\ bg \in [Agents -> TaskRow] /\ notes \in Seq(Agents) /\ told \in [Agents -> Nat]
      /\ run \in 1 .. MaxRuns /\ run \in Nat /\ stopped \subseteq 1 .. MaxRuns
      /\ item \in [Boarded -> RowStatus] /\ Boarded \subseteq Agents
      /\ MaxRuns \in Nat
  BY SubAgentAssumption DEF SubInv, SubTypes
(* At any place but the last one a task can move only before the shutdown is over. *)
<1>a. ASSUME NEW a \in Agents, bg[a].pc \in ActivePlace
      PROVE  /\ down # "over" /\ bg[a].pc # "gone" /\ bg[a] \in TaskRow /\ TaskSound(bg[a])
             /\ a \in Boarded => RowHeld(a)
  BY <1>0, <1>a DEF SubInv, QuietAfterwards, ActivePlace
<1>1. ASSUME NEW a \in Agents, Launch(a) PROVE SubInv'
  <2> DEFINE q == [bg[a] EXCEPT !.st = "running", !.pc = "created", !.token = run]
  <2>1. /\ bg[a].pc = "none" /\ down = "no" /\ bg' = [bg EXCEPT ![a] = q]
        /\ UNCHANGED <<run, stopped, notes, told, item, down>>
    BY <1>1, Zenon DEF Launch
  <2>2. bg[a] \in TaskRow
    BY <1>0
  <2>3. /\ q \in TaskRow /\ q.st = "running" /\ q.pc = "created" /\ q.synced = bg[a].synced
        /\ q.token = run /\ q.asked = bg[a].asked
    <3>1. PICK r \in TaskRow : r = bg[a]
      BY <2>2
    <3>2. PICK n \in Nat : n = run
      BY <1>0
    <3>3. PICK x : x = [r EXCEPT !.st = "running", !.pc = "created", !.token = n]
      OBVIOUS
    <3>4. /\ x \in TaskRow /\ x.st = "running" /\ x.pc = "created" /\ x.synced = r.synced
          /\ x.token = n /\ x.asked = r.asked
      BY <3>3, TaskLaunched
    <3> QED BY <3>1, <3>2, <3>3, <3>4, Zenon
  <2> HIDE DEF q
  <2>4. TaskSound(q) /\ (a \in Boarded => RowHeld(a))
    BY <1>0, <2>1, <2>3 DEF SubInv, TaskSound, ActivePlace
  <2>5. OneMoves(a, q)
    BY <1>0, <2>1, <2>3, <2>4 DEF OneMoves, RowHeld
  <2> QED BY <2>5, OneMovesKeeps
<1>2. ASSUME NEW a \in Agents, FirstSlice(a) PROVE SubInv'
  <2> DEFINE q == [bg[a] EXCEPT !.pc = "running"]
  <2>1. /\ bg[a].pc = "created" /\ bg' = [bg EXCEPT ![a] = q]
        /\ UNCHANGED <<run, stopped, notes, told, item, down>>
    BY <1>2, Zenon DEF FirstSlice
  <2>2. /\ down # "over" /\ bg[a].pc # "gone" /\ bg[a] \in TaskRow /\ TaskSound(bg[a])
        /\ a \in Boarded => RowHeld(a)
    BY <1>a, <2>1 DEF ActivePlace
  <2>3. /\ q \in TaskRow /\ q.st = bg[a].st /\ q.pc = "running" /\ q.synced = bg[a].synced
        /\ q.token = bg[a].token /\ q.asked = bg[a].asked
    BY <2>2, TaskPlaced DEF TaskPlace
  <2> HIDE DEF q
  <2>4. TaskSound(q)
    BY <2>1, <2>2, <2>3 DEF TaskSound, ActivePlace
  <2>5. OneMoves(a, q)
    BY <1>0, <2>1, <2>2, <2>3, <2>4 DEF OneMoves, RowHeld
  <2> QED BY <2>5, OneMovesKeeps
(* What ends, whatever its status and its board row. *)
<1>b. ASSUME NEW a \in Agents, NEW s \in {"completed", "failed", "cancelled"},
             bg[a].pc \in ActivePlace, Finish(a, s),
             item' \in [Boarded -> RowStatus], \A b \in Boarded \ {a} : item'[b] = item[b],
             a \in Boarded => item'[a] # "claimed",
             told' = told, run' = run, down' = down, stopped' \subseteq 1 .. MaxRuns
      PROVE  SubInv'
  <2> DEFINE q == [bg[a] EXCEPT !.st = s, !.pc = "gone", !.synced = TRUE]
  <2>1. bg' = [bg EXCEPT ![a] = q] /\ notes' = Append(notes, a)
    BY <1>b, Zenon DEF Finish
  <2>2. /\ down # "over" /\ bg[a].pc # "gone" /\ bg[a] \in TaskRow /\ TaskSound(bg[a])
        /\ a \in Boarded => RowHeld(a)
    BY <1>a, <1>b
  <2>3. /\ q \in TaskRow /\ q.st = s /\ q.pc = "gone" /\ q.synced /\ q.token = bg[a].token /\ q.asked = bg[a].asked
    BY <2>2, TaskFinished
  <2> HIDE DEF q
  <2>4. TaskSound(q)
    BY <1>b, <2>2, <2>3 DEF TaskSound, ActivePlace
  <2>5. OneMoves(a, q)
    BY <1>b, <2>1, <2>2, <2>3, <2>4 DEF OneMoves
  <2> QED BY <2>5, OneMovesKeeps
<1>3. ASSUME NEW a \in Agents, PromptDone(a) PROVE SubInv'
  <2>1. /\ bg[a].pc = "running" /\ item' = Synced(item, a, "completed")
        /\ UNCHANGED <<run, stopped, told, down>>
    BY <1>3 DEF PromptDone
  <2>2. /\ item' \in [Boarded -> RowStatus] /\ \A b \in Boarded \ {a} : item'[b] = item[b]
        /\ a \in Boarded => item'[a] # "claimed"
    BY <2>1, RowSettled
  <2>3. CASE a \in Teamed
    <3> DEFINE q == [bg[a] EXCEPT !.st = "completed", !.pc = "idle", !.synced = TRUE]
    <3>1. bg' = [bg EXCEPT ![a] = q] /\ notes' = notes
      BY <1>3, <2>3, Zenon DEF PromptDone
    <3>2. down # "over" /\ bg[a].pc # "gone" /\ bg[a] \in TaskRow /\ TaskSound(bg[a])
      BY <1>a, <2>1 DEF ActivePlace
    <3>4. /\ q \in TaskRow /\ q.st = "completed" /\ q.pc = "idle" /\ q.synced
          /\ q.token = bg[a].token /\ q.asked = bg[a].asked
      BY <3>2, TaskSettled
    <3> HIDE DEF q
    <3>5. TaskSound(q)
      BY <2>1, <3>2, <3>4 DEF TaskSound, ActivePlace
    <3>6. OneMoves(a, q)
      BY <1>0, <2>1, <2>2, <3>1, <3>2, <3>4, <3>5 DEF OneMoves
    <3> QED BY <3>6, OneMovesKeeps
  <2>4. CASE a \notin Teamed
    <3>1. Finish(a, "completed")
      BY <1>3, <2>4 DEF PromptDone
    <3> QED BY <1>0, <1>b, <2>1, <2>2, <3>1 DEF ActivePlace
  <2> QED BY <2>3, <2>4
<1>4. ASSUME NEW a \in Agents, MailDone(a) PROVE SubInv'
  <2> DEFINE q == [bg[a] EXCEPT !.pc = "idle"]
  <2>1. /\ bg[a].pc = "again" /\ bg' = [bg EXCEPT ![a] = q]
        /\ UNCHANGED <<run, stopped, notes, told, item, down>>
    BY <1>4, Zenon DEF MailDone
  <2>2. /\ down # "over" /\ bg[a].pc # "gone" /\ bg[a] \in TaskRow /\ TaskSound(bg[a])
        /\ a \in Boarded => RowHeld(a)
    BY <1>a, <2>1 DEF ActivePlace
  <2>3. /\ q \in TaskRow /\ q.st = bg[a].st /\ q.pc = "idle" /\ q.synced = bg[a].synced
        /\ q.token = bg[a].token /\ q.asked = bg[a].asked
    BY <2>2, TaskPlaced DEF TaskPlace
  <2> HIDE DEF q
  <2>4. TaskSound(q)
    BY <2>1, <2>2, <2>3 DEF TaskSound, ActivePlace
  <2>5. OneMoves(a, q)
    BY <1>0, <2>1, <2>2, <2>3, <2>4 DEF OneMoves, RowHeld
  <2> QED BY <2>5, OneMovesKeeps
<1>5. ASSUME NEW a \in Agents, IdleOver(a) PROVE SubInv'
  <2>1. /\ bg[a].pc = "idle" /\ Finish(a, bg[a].st)
        /\ UNCHANGED <<run, stopped, told, item, down>>
    BY <1>5 DEF IdleOver
  <2>2. /\ bg[a] \in TaskRow /\ TaskSound(bg[a]) /\ (a \in Boarded => RowHeld(a))
    BY <1>a, <2>1 DEF ActivePlace
  <2>3. bg[a].st \in {"completed", "failed", "cancelled"} /\ bg[a].synced
    BY <2>1, <2>2 DEF TaskSound, TaskRow, TaskStatus
  <2>4. a \in Boarded => item'[a] # "claimed"
    BY <2>1, <2>2, <2>3 DEF RowHeld
  <2> QED BY <1>0, <1>b, <2>1, <2>3, <2>4 DEF ActivePlace
<1>6. ASSUME NEW a \in Agents, AgentFails(a) PROVE SubInv'
  <2>1. /\ bg[a].pc \in {"running", "again"} /\ Finish(a, "failed")
        /\ item' = Synced(item, a, "failed") /\ UNCHANGED <<run, stopped, told, down>>
    BY <1>6 DEF AgentFails, InRun
  <2>2. /\ item' \in [Boarded -> RowStatus] /\ \A b \in Boarded \ {a} : item'[b] = item[b]
        /\ a \in Boarded => item'[a] # "claimed"
    BY <2>1, RowSettled
  <2> QED BY <1>0, <1>b, <2>1, <2>2 DEF ActivePlace
<1>7. ASSUME NEW a \in Agents, AgentCancelled(a) PROVE SubInv'
  <2>1. /\ bg[a].pc \in {"running", "idle", "again"} /\ Finish(a, "cancelled")
        /\ item' = Synced(item, a, "cancelled") /\ UNCHANGED <<run, told, down>>
        /\ stopped' = stopped \/ stopped' = stopped \cup {bg[a].token}
    BY <1>7 DEF AgentCancelled
  <2>2. /\ item' \in [Boarded -> RowStatus] /\ \A b \in Boarded \ {a} : item'[b] = item[b]
        /\ a \in Boarded => item'[a] # "claimed"
    BY <2>1, RowSettled
  <2>3. bg[a].token \in 1 .. MaxRuns
    BY <2>1 DEF SubInv, TaskSound, ActivePlace
  <2>4. stopped' \subseteq 1 .. MaxRuns
    BY <1>0, <2>1, <2>3
  <2> QED BY <1>b, <2>1, <2>2, <2>4 DEF ActivePlace
<1>8. ASSUME NEW a \in Agents, NeverStarted(a) PROVE SubInv'
  <2> DEFINE q == [bg[a] EXCEPT !.pc = "dropped"]
  <2>1. /\ bg[a].pc = "created" /\ bg[a].asked /\ bg' = [bg EXCEPT ![a] = q]
        /\ UNCHANGED <<run, stopped, notes, told, item, down>>
    BY <1>8, Zenon DEF NeverStarted
  <2>2. /\ down # "over" /\ bg[a].pc # "gone" /\ bg[a] \in TaskRow /\ TaskSound(bg[a])
        /\ a \in Boarded => RowHeld(a)
    BY <1>a, <2>1 DEF ActivePlace
  <2>3. /\ q \in TaskRow /\ q.st = bg[a].st /\ q.pc = "dropped" /\ q.synced = bg[a].synced
        /\ q.token = bg[a].token /\ q.asked = bg[a].asked
    BY <2>2, TaskPlaced DEF TaskPlace
  <2> HIDE DEF q
  <2>4. TaskSound(q)
    BY <2>1, <2>2, <2>3 DEF TaskSound, ActivePlace
  <2>5. OneMoves(a, q)
    BY <1>0, <2>1, <2>2, <2>3, <2>4 DEF OneMoves, RowHeld
  <2> QED BY <2>5, OneMovesKeeps
<1>9. ASSUME NEW a \in Agents, Mailed(a) PROVE SubInv'
  <2> DEFINE n == bg[a].rounds + 1
             q == [bg[a] EXCEPT !.pc = "again", !.rounds = n]
  <2>1. /\ bg[a].pc = "idle" /\ bg' = [bg EXCEPT ![a] = q]
        /\ UNCHANGED <<run, stopped, notes, told, item, down>>
    BY <1>9, Zenon DEF Mailed
  <2>2. /\ down # "over" /\ bg[a].pc # "gone" /\ bg[a] \in TaskRow /\ TaskSound(bg[a])
        /\ a \in Boarded => RowHeld(a)
    BY <1>a, <2>1 DEF ActivePlace
  <2>3. n \in Nat
    BY <2>2 DEF TaskRow
  <2>4. /\ q \in TaskRow /\ q.st = bg[a].st /\ q.pc = "again" /\ q.synced = bg[a].synced
        /\ q.token = bg[a].token /\ q.asked = bg[a].asked
    <3> HIDE DEF n
    <3> QED BY <2>2, <2>3, TaskWoken
  <2> HIDE DEF q
  <2>5. TaskSound(q)
    BY <2>1, <2>2, <2>4 DEF TaskSound, ActivePlace
  <2>6. OneMoves(a, q)
    BY <1>0, <2>1, <2>2, <2>4, <2>5 DEF OneMoves, RowHeld
  <2> QED BY <2>6, OneMovesKeeps
<1>10. ASSUME NEW a \in Agents, CancelTask(a) PROVE SubInv'
  <2> DEFINE q == [bg[a] EXCEPT !.st = "cancelled", !.asked = TRUE, !.synced = TRUE]
  <2>1. /\ bg[a].pc \in ActivePlace /\ bg' = [bg EXCEPT ![a] = q]
        /\ item' = Synced(item, a, "cancelled") /\ UNCHANGED <<run, stopped, notes, told, down>>
    BY <1>10, Zenon DEF CancelTask, Active, ActivePlace
  <2>2. /\ item' \in [Boarded -> RowStatus] /\ \A b \in Boarded \ {a} : item'[b] = item[b]
        /\ a \in Boarded => item'[a] # "claimed"
    BY <2>1, RowSettled
  <2>3. down # "over" /\ bg[a].pc # "gone" /\ bg[a] \in TaskRow /\ TaskSound(bg[a])
    BY <1>a, <2>1
  <2>4. q \in TaskRow /\ q.st = "cancelled" /\ q.pc = bg[a].pc /\ q.synced /\ q.token = bg[a].token /\ q.asked
    BY <2>3, TaskCancelled
  <2> HIDE DEF q
  <2>5. TaskSound(q)
    BY <2>1, <2>3, <2>4 DEF TaskSound, ActivePlace
  <2>6. OneMoves(a, q)
    BY <1>0, <2>1, <2>2, <2>3, <2>4, <2>5 DEF OneMoves
  <2> QED BY <2>6, OneMovesKeeps
<1>11. CASE Poll
  <2>1. /\ told' = [a \in Agents |-> told[a] + Times(notes, a)] /\ notes' = <<>>
        /\ UNCHANGED <<bg, run, stopped, item, down>>
    BY <1>11 DEF Poll, TimesQueued, Times
  <2>2. \A a \in Agents : Times(notes, a) \in Nat
    BY <1>0, TimesAppended
  <2>3. told' \in [Agents -> Nat] /\ \A a \in Agents : told'[a] = told[a] + Times(notes, a)
    BY <1>0, <2>1, <2>2
  <2>4. notes' \in Seq(Agents)
    BY <2>1
  <2>5. ASSUME NEW a \in Agents PROVE Reported(a)'
    <3>1. Times(notes', a) = 0
      BY <2>1, TimesNone
    <3>2. told'[a] + Times(notes', a) = told[a] + Times(notes, a)
      BY <1>0, <2>2, <2>3, <3>1, SMT
    <3> QED BY <2>1, <3>2 DEF SubInv, Reported
  <2> QED BY <1>0, <2>1, <2>3, <2>4, <2>5 DEF SubInv, SubTypes, RowHeld, QuietAfterwards
<1>12. CASE LeadCancelled
  <2>1. stopped' = stopped \cup {run} /\ UNCHANGED <<bg, run, notes, told, item, down>>
    BY <1>12 DEF LeadCancelled
  <2> QED BY <1>0, <2>1 DEF SubInv, SubTypes, Reported, RowHeld, QuietAfterwards
<1>13. CASE LeadRunsAgain
  <2>1. run < MaxRuns /\ run' = run + 1 /\ UNCHANGED <<bg, stopped, notes, told, item, down>>
    BY <1>13 DEF LeadRunsAgain
  <2>2. run' \in 1 .. MaxRuns
    BY <1>0, <2>1, SMT
  <2> QED BY <1>0, <2>1, <2>2 DEF SubInv, SubTypes, Reported, RowHeld, QuietAfterwards
<1>14. CASE ShutdownBegins
  <2>1. /\ down' = "going" /\ UNCHANGED <<run, stopped, notes, told, item>>
        /\ bg' = [a \in Agents |-> IF a \in Active THEN [bg[a] EXCEPT !.asked = TRUE] ELSE bg[a]]
    BY <1>14 DEF ShutdownBegins
  <2>2. ASSUME NEW a \in Agents
        PROVE  /\ bg'[a] \in TaskRow /\ bg'[a].st = bg[a].st /\ bg'[a].pc = bg[a].pc
               /\ bg'[a].synced = bg[a].synced /\ bg'[a].token = bg[a].token
               /\ bg[a].asked => bg'[a].asked
    <3> DEFINE q == [bg[a] EXCEPT !.asked = TRUE]
    <3>1. bg'[a] = bg[a] \/ bg'[a] = q
      BY <2>1, Zenon
    <3>2. /\ q \in TaskRow /\ q.st = bg[a].st /\ q.pc = bg[a].pc
          /\ q.synced = bg[a].synced /\ q.token = bg[a].token /\ q.asked
      BY <1>0, TaskAsked
    <3> HIDE DEF q
    <3> QED BY <1>0, <3>1, <3>2
  <2>3. bg' \in [Agents -> TaskRow]
    <3>1. bg' = [a \in Agents |-> bg'[a]]
      BY <2>1, Zenon
    <3> QED BY <2>2, <3>1
  <2>4. ASSUME NEW a \in Agents PROVE TaskSound(bg'[a]) /\ Reported(a)'
    BY <2>1, <2>2 DEF SubInv, TaskSound, ActivePlace, Reported
  <2>5. ASSUME NEW a \in Boarded PROVE RowHeld(a)'
    BY <1>0, <2>1, <2>2, <2>5 DEF SubInv, RowHeld
  <2> QED BY <1>0, <2>1, <2>3, <2>4, <2>5 DEF SubInv, SubTypes, QuietAfterwards
<1>15. CASE ShutdownEnds
  <2> DEFINE silent == {a \in Agents : bg[a].pc = "dropped" /\ bg[a].st = "running"}
  <2>1. /\ Active = {} /\ down' = "over" /\ UNCHANGED <<run, stopped, notes, told>>
        /\ bg' = [a \in Agents |-> IF a \in silent
                                   THEN [bg[a] EXCEPT !.st = "cancelled", !.synced = TRUE]
                                   ELSE bg[a]]
        /\ item' = [a \in Boarded |-> IF a \in silent THEN Synced(item, a, "cancelled")[a]
                                                      ELSE item[a]]
    BY <1>15, Zenon DEF ShutdownEnds
  <2>2. ASSUME NEW a \in Agents
        PROVE  /\ bg'[a] \in TaskRow /\ bg'[a].pc = bg[a].pc /\ bg'[a].token = bg[a].token
               /\ bg'[a].asked = bg[a].asked
               /\ a \in silent => bg'[a].st = "cancelled" /\ bg'[a].synced
               /\ a \notin silent => bg'[a] = bg[a]
    <3> DEFINE q == [bg[a] EXCEPT !.st = "cancelled", !.synced = TRUE]
    <3>1. bg'[a] = IF a \in silent THEN q ELSE bg[a]
      BY <2>1, Zenon
    <3>2. /\ q \in TaskRow /\ q.st = "cancelled" /\ q.pc = bg[a].pc
          /\ q.synced /\ q.token = bg[a].token /\ q.asked = bg[a].asked
      BY <1>0, TaskGivenUp
    <3> HIDE DEF q, silent
    <3> QED BY <1>0, <3>1, <3>2
  <2>3. bg' \in [Agents -> TaskRow]
    <3>1. bg' = [a \in Agents |-> bg'[a]]
      BY <2>1, Zenon
    <3> QED BY <2>2, <3>1
  <2>4. ASSUME NEW a \in Agents
        PROVE  /\ TaskSound(bg'[a]) /\ Reported(a)'
               /\ bg'[a].pc \notin ActivePlace /\ bg'[a].st # "running"
    <3>1. bg[a].pc \notin ActivePlace
      BY <2>1 DEF Active, ActivePlace
    <3>2. TaskSound(bg[a]) /\ Reported(a)
      BY DEF SubInv
    <3>3. Reported(a)'
      BY <2>1, <2>2, <3>2 DEF Reported
    <3>4. CASE a \in silent
      BY <2>2, <3>1, <3>2, <3>3, <3>4 DEF TaskSound, ActivePlace
    <3>5. CASE a \notin silent
      BY <2>2, <3>1, <3>2, <3>3, <3>5 DEF TaskSound, ActivePlace
    <3> QED BY <3>4, <3>5
  <2>5. ASSUME NEW a \in Boarded PROVE item'[a] \in RowStatus /\ RowHeld(a)'
    <3>0. a \in Agents /\ RowHeld(a) /\ item[a] \in RowStatus
      BY <1>0, <2>5 DEF SubInv
    <3>1. CASE a \in silent
      <4>1. ~bg[a].synced
        BY <3>0, <3>1 DEF SubInv, TaskSound, ActivePlace
      <4>2. Synced(item, a, "cancelled")[a] = "blocked"
        BY <1>0, <2>5, <4>1 DEF Synced
      <4>3. item'[a] = "blocked"
        BY <2>1, <2>5, <3>1, <4>2
      <4> QED BY <2>2, <3>0, <3>1, <4>3 DEF RowHeld, RowStatus
    <3>2. CASE a \notin silent
      <4>1. item'[a] = item[a] /\ bg'[a] = bg[a]
        BY <2>1, <2>2, <2>5, <3>0, <3>2
      <4> QED BY <3>0, <4>1 DEF RowHeld
    <3> QED BY <3>1, <3>2
  <2>6. item' \in [Boarded -> RowStatus]
    <3>1. item' = [a \in Boarded |-> item'[a]]
      BY <2>1, Zenon
    <3> QED BY <2>5, <3>1
  <2>7. SubTypes' /\ QuietAfterwards'
    BY <1>0, <2>1, <2>3, <2>4, <2>6 DEF SubTypes, QuietAfterwards
  <2> QED BY <2>4, <2>5, <2>7 DEF SubInv
<1>16. CASE UNCHANGED subVars
  BY <1>16 DEF subVars, SubInv, SubTypes, Reported, RowHeld, QuietAfterwards
<1> QED BY <1>1, <1>2, <1>3, <1>4, <1>5, <1>6, <1>7, <1>8, <1>9, <1>10, <1>11, <1>12, <1>13,
           <1>14, <1>15, <1>16 DEF SubNext, AgentMoves

LEMMA SubInvGives == SubInv => SubTypeOK /\ TasksReported
<1> SUFFICES ASSUME SubInv PROVE SubTypeOK /\ TasksReported
  OBVIOUS
<1>0. bg \in [Agents -> TaskRow] /\ item \in [Boarded -> RowStatus] /\ Boarded \subseteq Agents
  BY SubAgentAssumption DEF SubInv, SubTypes
<1>1. SubTypeOK
  BY <1>0 DEF SubInv, SubTypes, SubTypeOK, TaskRow, TaskStatus, TaskPlace, RowStatus
<1>2. ASSUME NEW a \in Agents
      PROVE  told[a] + TimesQueued(a) = IF bg[a].pc = "gone" THEN 1 ELSE 0
  BY DEF SubInv, Reported, Times, TimesQueued
<1>3. ASSUME NEW a \in Agents, a \in Boarded
      PROVE  item[a] = "claimed" <=> bg[a].st \in {"unused", "running"}
  BY <1>3 DEF SubInv, RowHeld, TaskSound
<1>4. ASSUME down = "over", NEW a \in Agents PROVE Active = {} /\ bg[a].st # "running"
  BY <1>4 DEF SubInv, QuietAfterwards, ActivePlace, Active
<1> QED BY <1>1, <1>2, <1>3, <1>4 DEF TasksReported

(* A task ends cancelled only if it was asked to, or the token of the run it *)
(* was started in was set; and then it stays cancelled.                      *)
CancelStep(a) ==
  /\ bg'[a].st = "cancelled" /\ bg[a].st # "cancelled" => bg'[a].asked \/ bg[a].token \in stopped
  /\ bg[a].st = "cancelled" => bg'[a].st = "cancelled"

LEMMA CancelSteps ==
  ASSUME SubInv, [SubNext]_subVars
  PROVE  \A b \in Agents : CancelStep(b)
<1> SUFFICES ASSUME NEW b \in Agents PROVE CancelStep(b)
  OBVIOUS
<1>0. bg \in [Agents -> TaskRow] /\ bg[b] \in TaskRow /\ TaskSound(bg[b])
  BY DEF SubInv, SubTypes
<1>1. CASE bg' = bg
  BY <1>1 DEF CancelStep
<1>2. ASSUME NEW a \in Agents, NEW q, bg' = [bg EXCEPT ![a] = q],
             /\ q.st = "cancelled" /\ bg[a].st # "cancelled" => q.asked \/ bg[a].token \in stopped
             /\ bg[a].st = "cancelled" => q.st = "cancelled"
      PROVE  CancelStep(b)
  <2>1. bg'[b] = IF b = a THEN q ELSE bg[b]
    BY <1>0, <1>2
  <2> QED BY <1>2, <2>1 DEF CancelStep
<1>a. \A a \in Agents : bg[a] \in TaskRow /\ TaskSound(bg[a])
  BY DEF SubInv, SubTypes
<1>3. ASSUME NEW a \in Agents, NEW s, Finish(a, s), s = "cancelled" /\ bg[a].st # "cancelled" => Stops(a),
             bg[a].st = "cancelled" => s = "cancelled" 
      PROVE  CancelStep(b)
  <2> DEFINE q == [bg[a] EXCEPT !.st = s, !.pc = "gone", !.synced = TRUE]
  <2>1. bg' = [bg EXCEPT ![a] = q]
    BY <1>3, Zenon DEF Finish
  <2>2. q.st = s /\ q.asked = bg[a].asked
    BY <1>a DEF TaskRow
  <2> HIDE DEF q
  <2>3. s = "cancelled" /\ bg[a].st # "cancelled" => q.asked \/ bg[a].token \in stopped
    BY <1>3, <2>2 DEF Stops
  <2> QED BY <1>2, <1>3, <2>1, <2>2, <2>3
<1>4. ASSUME NEW a \in Agents, NEW p, bg' = [bg EXCEPT ![a] = [bg[a] EXCEPT !.pc = p]]
      PROVE  CancelStep(b)
  <2> DEFINE q == [bg[a] EXCEPT !.pc = p]
  <2>1. bg' = [bg EXCEPT ![a] = q]
    BY <1>4, Zenon
  <2>2. q.st = bg[a].st
    BY <1>a DEF TaskRow
  <2> HIDE DEF q
  <2> QED BY <1>2, <2>1, <2>2
<1>5. ASSUME NEW a \in Agents, Launch(a) PROVE CancelStep(b)
  <2> DEFINE q == [bg[a] EXCEPT !.st = "running", !.pc = "created", !.token = run]
  <2>1. bg[a].pc = "none" /\ bg' = [bg EXCEPT ![a] = q]
    BY <1>5, Zenon DEF Launch
  <2>2. bg[a].st = "unused" /\ q.st = "running"
    BY <1>a, <2>1 DEF TaskRow, TaskSound
  <2> HIDE DEF q
  <2> QED BY <1>2, <2>1, <2>2
<1>6. ASSUME NEW a \in Agents, FirstSlice(a) \/ MailDone(a) \/ NeverStarted(a) PROVE CancelStep(b)
  <2>1. \E p : bg' = [bg EXCEPT ![a] = [bg[a] EXCEPT !.pc = p]]
    BY <1>6, Zenon DEF FirstSlice, MailDone, NeverStarted
  <2> QED BY <1>4, <2>1
<1>7. ASSUME NEW a \in Agents, Mailed(a) PROVE CancelStep(b)
  <2> DEFINE q == [bg[a] EXCEPT !.pc = "again", !.rounds = @ + 1]
  <2>1. bg' = [bg EXCEPT ![a] = q]
    BY <1>7, Zenon DEF Mailed
  <2>2. q.st = bg[a].st
    BY <1>a DEF TaskRow
  <2> HIDE DEF q
  <2> QED BY <1>2, <2>1, <2>2
<1>8. ASSUME NEW a \in Agents, PromptDone(a) PROVE CancelStep(b)
  <2>1. bg[a].pc = "running" /\ ~bg[a].asked
    BY <1>8 DEF PromptDone
  <2>2. bg[a].st # "cancelled"
    BY <1>a, <2>1 DEF TaskSound, ActivePlace
  <2>3. CASE a \in Teamed
    <3> DEFINE q == [bg[a] EXCEPT !.st = "completed", !.pc = "idle", !.synced = TRUE]
    <3>1. bg' = [bg EXCEPT ![a] = q]
      BY <1>8, <2>3, Zenon DEF PromptDone
    <3>2. q.st = "completed"
      BY <1>a DEF TaskRow
    <3> HIDE DEF q
    <3> QED BY <1>2, <2>2, <3>1, <3>2
  <2>4. CASE a \notin Teamed
    BY <1>3, <1>8, <2>2, <2>4 DEF PromptDone
  <2> QED BY <2>3, <2>4
<1>9. ASSUME NEW a \in Agents, IdleOver(a) PROVE CancelStep(b)
  BY <1>3, <1>9 DEF IdleOver
<1>10. ASSUME NEW a \in Agents, AgentFails(a) PROVE CancelStep(b)
  <2>1. bg[a].st # "cancelled" /\ Finish(a, "failed")
    BY <1>a, <1>10 DEF AgentFails, InRun, TaskSound, ActivePlace
  <2> QED BY <1>3, <2>1
<1>11. ASSUME NEW a \in Agents, AgentCancelled(a) PROVE CancelStep(b)
  BY <1>3, <1>11 DEF AgentCancelled
<1>12. ASSUME NEW a \in Agents, CancelTask(a) PROVE CancelStep(b)
  <2> DEFINE q == [bg[a] EXCEPT !.st = "cancelled", !.asked = TRUE, !.synced = TRUE]
  <2>1. bg' = [bg EXCEPT ![a] = q]
    BY <1>12, Zenon DEF CancelTask
  <2>2. q.st = "cancelled" /\ q.asked
    BY <1>a DEF TaskRow
  <2> HIDE DEF q
  <2> QED BY <1>2, <2>1, <2>2
<1>13. CASE ShutdownBegins
  <2> DEFINE q == [bg[b] EXCEPT !.asked = TRUE]
  <2>1. bg'[b] = bg[b] \/ bg'[b] = q
    BY <1>13, Zenon DEF ShutdownBegins
  <2>2. q.st = bg[b].st
    BY <1>a DEF TaskRow
  <2> HIDE DEF q
  <2> QED BY <2>1, <2>2 DEF CancelStep
<1>14. CASE ShutdownEnds
  <2> DEFINE silent == {a \in Agents : bg[a].pc = "dropped" /\ bg[a].st = "running"}
             q == [bg[b] EXCEPT !.st = "cancelled", !.synced = TRUE]
  <2>1. bg'[b] = IF b \in silent THEN q ELSE bg[b]
    BY <1>14, Zenon DEF ShutdownEnds
  <2>2. q.st = "cancelled" /\ q.asked = bg[b].asked
    BY <1>a DEF TaskRow
  <2>3. b \in silent => bg[b].asked
    BY <1>0 DEF TaskSound
  <2> HIDE DEF q, silent
  <2> QED BY <2>1, <2>2, <2>3 DEF CancelStep
<1>15. CASE Poll \/ LeadCancelled \/ LeadRunsAgain \/ UNCHANGED subVars
  BY <1>1, <1>15 DEF Poll, LeadCancelled, LeadRunsAgain, subVars
<1> QED BY <1>5, <1>6, <1>7, <1>8, <1>9, <1>10, <1>11, <1>12, <1>13, <1>14, <1>15
        DEF SubNext, AgentMoves

(* Worktrees.  A removal that sleeps has taken its directory away, and what   *)
(* takes work with it was named when it was judged; a tree with an agent at  *)
(* work counts from its beginning; a session that is not astray is never in  *)
(* the tree that the removal of somebody else works on.                      *)
DiskRow == [dir : BOOLEAN, branch : BOOLEAN, dirty : BOOLEAN, commits : 0..MaxCommits,
            pushed : 0..MaxCommits]

NamedWays == {"discard", "team", "refused", "since", "recovered"}
Ways == {"discard", "team", "refused", "since", "recovered", "judged", "none"}

TreeTypes ==
  /\ disk \in [Trees -> DiskRow]
  /\ \A t \in Trees : disk[t].pushed <= disk[t].commits
  /\ liveTrees \in [Trees -> [known : BOOLEAN, base : 0..MaxCommits]]
  /\ current \in Trees \cup {NoTree} /\ saved = current
  /\ lockedBy \in [tree : Trees \cup {NoTree}, ends : BOOLEAN, gone : BOOLEAN, how : Ways]
  /\ workers \subseteq Ephemeral
  /\ loss \in [how : Ways, astray : BOOLEAN]

RemovalInv ==
  /\ lockedBy.tree = NoTree => lockedBy = NoRemoval
  /\ lockedBy.tree # NoTree /\ lockedBy.gone => ~disk[lockedBy.tree].dir
  /\ lockedBy.ends => lockedBy.tree = current
  /\ ~lockedBy.gone => lockedBy.how \in NamedWays

WorkersInv ==
  \A t \in workers : liveTrees[t].base = 0 /\ (liveTrees[t].known \/ ~disk[t].dir)

SessionInv ==
  ~loss.astray /\ current # NoTree /\ ~(lockedBy.ends /\ lockedBy.gone) =>
    /\ disk[current].dir /\ liveTrees[current].known
    /\ lockedBy.gone => lockedBy.tree # current

TreeInv == TreeTypes /\ RemovalInv /\ WorkersInv /\ SessionInv /\ WorkIsKept

LEMMA TreeBounds == MaxCommits \in Nat /\ Ephemeral \subseteq Trees /\ NoTree \notin Trees
BY TreeAssumption

LEMMA TreeInvInit == TreeInit => TreeInv
<1> SUFFICES ASSUME TreeInit PROVE TreeInv
  OBVIOUS
<1> USE TreeBounds DEF TreeInit
<1>1. TreeTypes
  BY DEF TreeTypes, DiskRow, Absent, Unknown, NoRemoval, Ways
<1>2. RemovalInv /\ WorkersInv /\ SessionInv /\ WorkIsKept
  BY DEF RemovalInv, WorkersInv, SessionInv, WorkIsKept, NoRemoval, Unknown, Absent
<1> QED BY <1>1, <1>2 DEF TreeInv

(* A tree whose directory goes. *)
LEMMA DirectoryGone ==
  ASSUME NEW r \in DiskRow
  PROVE  LET q == [r EXCEPT !.dir = FALSE, !.dirty = FALSE]
         IN  q \in DiskRow /\ ~q.dir /\ q.commits = r.commits /\ q.pushed = r.pushed
BY DEF DiskRow

LEMMA BranchGone ==
  ASSUME NEW r \in DiskRow, NEW z \in 0..MaxCommits
  PROVE  LET q == [r EXCEPT !.branch = FALSE, !.commits = z, !.pushed = z]
         IN  q \in DiskRow /\ q.dir = r.dir /\ q.commits = z /\ q.pushed = z
BY DEF DiskRow

LEMMA DirectoryThere ==
  ASSUME NEW r \in DiskRow, NEW b \in BOOLEAN
  PROVE  LET q == [r EXCEPT !.dir = TRUE, !.branch = TRUE, !.dirty = b]
         IN  q \in DiskRow /\ q.dir /\ q.commits = r.commits /\ q.pushed = r.pushed
BY DEF DiskRow

LEMMA Dirtied ==
  ASSUME NEW r \in DiskRow, NEW b \in BOOLEAN, NEW c \in 0..MaxCommits
  PROVE  LET q == [r EXCEPT !.dirty = b, !.commits = c]
         IN  q \in DiskRow /\ q.dir = r.dir /\ q.commits = c /\ q.pushed = r.pushed
BY DEF DiskRow

LEMMA RowUntouched ==
  ASSUME NEW r \in DiskRow
  PROVE  [r EXCEPT !.dirty = TRUE] = [r EXCEPT !.dirty = TRUE, !.commits = r.commits]
BY DEF DiskRow

LEMMA PushedOut ==
  ASSUME NEW r \in DiskRow, NEW c \in 0..MaxCommits
  PROVE  LET q == [r EXCEPT !.pushed = c]
         IN  q \in DiskRow /\ q.dir = r.dir /\ q.commits = r.commits /\ q.pushed = c
BY DEF DiskRow

LEMMA AbsentRow == Absent \in DiskRow /\ ~Absent.dir /\ Absent.pushed = 0 /\ Absent.commits = 0
BY TreeBounds, SMT DEF DiskRow, Absent

(* What create() leaves. *)
LEMMA CreateEffect ==
  ASSUME TreeTypes, NEW t \in Trees, Create(t)
  PROVE  /\ disk' \in [Trees -> DiskRow]
         /\ \A s \in Trees : disk'[s].pushed <= disk'[s].commits
         /\ disk'[t].dir
         /\ \A s \in Trees \ {t} : disk'[s] = disk[s]
         /\ liveTrees' \in [Trees -> [known : BOOLEAN, base : 0..MaxCommits]]
         /\ liveTrees'[t].known
         /\ ~disk[t].dir => liveTrees'[t].base = 0
         /\ \A s \in Trees \ {t} : liveTrees'[s] = liveTrees[s]
<1> DEFINE m == [known |-> TRUE, base |-> IF disk[t].dir THEN disk[t].commits ELSE 0]
<1>0. disk[t] \in DiskRow
  BY DEF TreeTypes
<1>1. m \in [known : BOOLEAN, base : 0..MaxCommits]
  BY <1>0, TreeBounds, SMT DEF DiskRow
<1>2. liveTrees' = [liveTrees EXCEPT ![t] = m] /\ m.known /\ (~disk[t].dir => m.base = 0)
  BY DEF Create
<1>3. liveTrees \in [Trees -> [known : BOOLEAN, base : 0..MaxCommits]]
  BY DEF TreeTypes
<1>4. /\ liveTrees' \in [Trees -> [known : BOOLEAN, base : 0..MaxCommits]]
      /\ liveTrees'[t] = m
      /\ \A s \in Trees \ {t} : liveTrees'[s] = liveTrees[s]
  <2> HIDE DEF m
  <2> QED BY <1>1, <1>2, <1>3, Assigned
<1> HIDE DEF m
<1>5. CASE disk[t].dir
  BY <1>2, <1>4, <1>5 DEF Create, TreeTypes
<1>6. CASE ~disk[t].dir
  <2>1. PICK u \in BOOLEAN :
          disk' = [disk EXCEPT ![t] = [Absent EXCEPT !.dir = TRUE, !.branch = TRUE, !.dirty = u]]
    BY <1>6 DEF Create
  <2> DEFINE q == [Absent EXCEPT !.dir = TRUE, !.branch = TRUE, !.dirty = u]
  <2>2. q \in DiskRow /\ q.dir /\ q.commits = 0 /\ q.pushed = 0
    BY DirectoryThere, AbsentRow
  <2> HIDE DEF q
  <2>3. disk' \in [Trees -> DiskRow] /\ disk'[t] = q /\ \A s \in Trees \ {t} : disk'[s] = disk[s]
    BY <2>1, <2>2, Assigned DEF TreeTypes, q
  <2>4. \A s \in Trees : disk'[s].pushed <= disk'[s].commits
    BY <2>2, <2>3, SMT DEF TreeTypes
  <2> QED BY <1>2, <1>4, <2>2, <2>3, <2>4
<1> QED BY <1>5, <1>6

(* Whatever git says, the judgement has a name. *)
LEMMA JudgementNamed ==
  ASSUME TreeTypes, NEW t \in Trees, NEW base \in 0..MaxCommits, NEW own \in BOOLEAN,
         own => base = 0 \/ ~Unpushed(t)
  PROVE  WhyClean(t, base, own) \in NamedWays
BY TreeBounds, SMT DEF WhyClean, Work, HasChanges, Unpushed, NamedWays, TreeTypes, DiskRow

LEMMA RemovalJudged ==
  ASSUME TreeInv, NEW t \in Trees, NEW how \in NamedWays, NEW ends \in BOOLEAN,
         Judges(t, how, ends), ends => t = current,
         UNCHANGED <<disk, liveTrees, current, saved, started, loss>>, workers' \subseteq workers
  PROVE  TreeInv'
<1> USE DEF TreeInv, Judges
<1>1. TreeTypes'
  BY SMT DEF TreeTypes, Ways, NamedWays
<1>2. RemovalInv'
  BY TreeBounds, SMT DEF RemovalInv
<1>3. WorkersInv' /\ SessionInv' /\ WorkIsKept'
  BY SMT DEF WorkersInv, SessionInv, WorkIsKept, Unlocked, NoRemoval
<1> QED BY <1>1, <1>2, <1>3

LEMMA LockKept ==
  ASSUME NEW l \in [tree : Trees \cup {NoTree}, ends : BOOLEAN, gone : BOOLEAN, how : Ways]
  PROVE  [l EXCEPT !.gone = TRUE] \in [tree : Trees \cup {NoTree}, ends : BOOLEAN, gone : BOOLEAN, how : Ways]
OBVIOUS

(* The directory goes at once, and what goes with it is noted. *)
LEMMA DirectoryRemoved ==
  ASSUME TreeInv, Removes
  PROVE  TreeInv'
<1> USE TreeBounds DEF TreeInv
<1> DEFINE t == lockedBy.tree
           q == [disk[t] EXCEPT !.dir = FALSE, !.dirty = FALSE]
<1>0. t \in Trees /\ t # NoTree
  BY SMT DEF Removes, RemovalInv, TreeTypes, NoRemoval
<1>1. disk[t] \in DiskRow
  BY <1>0 DEF TreeTypes
<1>2. q \in DiskRow /\ ~q.dir /\ q.commits = disk[t].commits /\ q.pushed = disk[t].pushed
  BY <1>1, DirectoryGone
<1>3. disk' = [disk EXCEPT ![t] = q]
  BY Zenon DEF Removes
<1>9. loss'.how \in NamedWays \cup {"none"} /\ loss'.astray = (loss.astray \/ (~lockedBy.ends /\ t = current))
  BY SMT DEF Removes, RemovalInv, TreeTypes
<1>10. /\ lockedBy' = [lockedBy EXCEPT !.gone = TRUE]
       /\ UNCHANGED <<liveTrees, current, saved, workers, started>>
  BY Zenon DEF Removes
<1>11. loss' \in [how : Ways, astray : BOOLEAN]
  BY <1>9, SMT DEF Removes, TreeTypes, Ways, NamedWays
<1>12. ~lockedBy.gone
  BY DEF Removes
<1> HIDE DEF q
<1>4. disk' \in [Trees -> DiskRow] /\ disk'[t] = q /\ \A s \in Trees \ {t} : disk'[s] = disk[s]
  BY <1>0, <1>2, <1>3, Assigned DEF TreeTypes
<1>5. TreeTypes'
  <2>1. \A s \in Trees : disk'[s].pushed <= disk'[s].commits
    BY <1>0, <1>2, <1>4, SMT DEF TreeTypes
  <2>2. lockedBy' \in [tree : Trees \cup {NoTree}, ends : BOOLEAN, gone : BOOLEAN, how : Ways]
    BY <1>10, LockKept, Zenon DEF TreeTypes
  <2> QED BY <1>4, <1>10, <1>11, <2>1, <2>2, SMT DEF TreeTypes
<1>6. RemovalInv'
  BY <1>0, <1>2, <1>4, <1>10, SMT DEF RemovalInv, TreeTypes, NoRemoval
<1>7. WorkersInv'
  BY <1>0, <1>2, <1>4, <1>10, SMT DEF TreeTypes, WorkersInv
<1>8. SessionInv'
  BY <1>0, <1>4, <1>9, <1>10, <1>12, SMT DEF TreeTypes, SessionInv
<1>13. WorkIsKept'
  BY <1>9, SMT DEF WorkIsKept, NamedWays
<1> QED BY <1>5, <1>6, <1>7, <1>8, <1>13

LEMMA TreeInvNext == TreeInv /\ [TreeNext]_treeVars => TreeInv'
<1> SUFFICES ASSUME TreeInv, [TreeNext]_treeVars PROVE TreeInv'
  OBVIOUS
<1> USE TreeBounds DEF TreeInv
<1>0. Trees \cap {NoTree} = {} /\ (Unlocked <=> lockedBy.tree = NoTree)
  BY SMT DEF Unlocked, NoRemoval, RemovalInv
<1>15. CASE Removes
  BY <1>15, DirectoryRemoved
<1>14. CASE RemovalRefused
  BY <1>14, SMT DEF RemovalRefused, TreeTypes, RemovalInv, WorkersInv, SessionInv, WorkIsKept, NoRemoval, Ways
<1>1. CASE RemovalDone
  <2> USE <1>1 DEF RemovalDone
  <2>0. lockedBy.tree \in Trees
    BY <1>0 DEF TreeTypes
  <2> DEFINE t == lockedBy.tree
             q == [disk[t] EXCEPT !.branch = FALSE, !.commits = 0, !.pushed = 0]
  <2>5. disk' = [disk EXCEPT ![t] = q] /\ liveTrees' = [liveTrees EXCEPT ![t] = Unknown]
    BY Zenon
  <2>6. q \in DiskRow /\ q.dir = disk[t].dir /\ q.commits = 0 /\ q.pushed = 0
    <3>1. 0 \in 0..MaxCommits /\ disk[t] \in DiskRow
      BY <2>0, SMT DEF TreeTypes
    <3> QED BY <3>1, BranchGone
  <2>7. Unknown \in [known : BOOLEAN, base : 0..MaxCommits] /\ ~Unknown.known /\ Unknown.base = 0
    BY SMT DEF Unknown
  <2> HIDE DEF q, Unknown
  <2>8. disk' \in [Trees -> DiskRow] /\ disk'[t] = q /\ \A s \in Trees \ {t} : disk'[s] = disk[s]
    BY <2>0, <2>5, <2>6, Assigned DEF TreeTypes
  <2>9. /\ liveTrees' \in [Trees -> [known : BOOLEAN, base : 0..MaxCommits]] /\ liveTrees'[t] = Unknown
        /\ \A s \in Trees \ {t} : liveTrees'[s] = liveTrees[s]
    BY <2>0, <2>5, <2>7, Assigned DEF TreeTypes
  <2>1. TreeTypes'
    <3>1. \A s \in Trees : disk'[s].pushed <= disk'[s].commits
      BY <2>6, <2>8, SMT DEF TreeTypes
    <3>2. current' \in Trees \cup {NoTree} /\ saved' = current'
      BY DEF TreeTypes
    <3> QED BY <2>8, <2>9, <3>1, <3>2, SMT DEF TreeTypes, NoRemoval, Ways
  <2>2. RemovalInv'
    BY <2>0, SMT DEF RemovalInv, NoRemoval
  <2>3. WorkersInv'
    BY <2>0, <1>0, <2>6, <2>7, <2>8, <2>9, SMT DEF WorkersInv, TreeTypes, RemovalInv
  <2>4. SessionInv'
    BY <2>0, <1>0, <2>6, <2>7, <2>8, <2>9, SMT DEF SessionInv, TreeTypes, NoRemoval
  <2> QED BY <2>1, <2>2, <2>3, <2>4 DEF WorkIsKept
<1>2. CASE RemovalCancelled
  <2> USE <1>2 DEF RemovalCancelled
  <2>1. TreeTypes'
    BY SMT DEF TreeTypes, NoRemoval, Ways
  <2>2. RemovalInv' /\ WorkersInv'
    BY SMT DEF RemovalInv, NoRemoval, WorkersInv
  <2>3. SessionInv' /\ WorkIsKept'
    BY SMT DEF TreeTypes, SessionInv, NoRemoval, WorkIsKept
  <2> QED BY <2>1, <2>2, <2>3
<1>3. CASE ExitKeep
  BY <1>3, SMT DEF ExitKeep, TreeTypes, DiskRow, RemovalInv, WorkersInv, SessionInv, WorkIsKept, Unlocked, NoRemoval
<1>4. CASE Restart
  <2> USE <1>4 DEF Restart
  <2>1. current' \in Trees \cup {NoTree} /\ saved' = current'
    BY SMT DEF TreeTypes
  <2>5. liveTrees' \in [Trees -> [known : BOOLEAN, base : 0..MaxCommits]]
    <3>1. \A s \in Trees : disk[s].commits \in 0..MaxCommits
      BY DEF TreeTypes, DiskRow
    <3> QED BY <3>1, SMT DEF Unknown
  <2>6. loss' \in [how : Ways, astray : BOOLEAN]
    BY DEF TreeTypes
  <2>2. TreeTypes'
    BY <2>1, <2>5, <2>6, SMT DEF TreeTypes, NoRemoval, Ways
  <2>3. RemovalInv' /\ WorkersInv' /\ WorkIsKept'
    BY SMT DEF RemovalInv, NoRemoval, WorkersInv, WorkIsKept, TreeTypes
  <2>4. SessionInv'
    BY <2>1, SMT DEF SessionInv, TreeTypes, DiskRow, NoRemoval
  <2> QED BY <2>2, <2>3, <2>4
<1>5. ASSUME NEW b \in BOOLEAN, ExitRemove(b) PROVE TreeInv'
  <2> DEFINE how == IF b THEN "discard"
                    ELSE WhyClean(current, liveTrees[current].base, FALSE)
  <2>1. current \in Trees
    BY <1>5, SMT DEF ExitRemove, TreeTypes
  <2>2. liveTrees[current].base \in 0..MaxCommits
    BY <2>1 DEF TreeTypes
  <2>3. WhyClean(current, liveTrees[current].base, FALSE) \in NamedWays
    BY <2>1, <2>2, JudgementNamed, Zenon
  <2>4. how \in NamedWays
    BY <2>3 DEF NamedWays
  <2>5. Judges(current, how, TRUE)
    BY <1>5, Zenon DEF ExitRemove
  <2> HIDE DEF how
  <2>6. UNCHANGED <<disk, liveTrees, current, saved, workers, started, loss>>
    BY <1>5 DEF ExitRemove
  <2> QED BY <2>1, <2>4, <2>5, <2>6, RemovalJudged
<1>6. ASSUME NEW t \in Trees, CreateForSession(t) PROVE TreeInv'
  <2>1. Create(t) /\ Creatable(t) /\ Unlocked
    BY <1>6 DEF CreateForSession
  <2>2. TreeTypes'
    BY <1>6, <2>1, CreateEffect, SMT DEF CreateForSession, TreeTypes
  <2>3. RemovalInv' /\ WorkIsKept'
    BY <1>6, <1>0, <2>1, SMT DEF CreateForSession, RemovalInv, WorkIsKept
  <2>4. WorkersInv'
    BY <1>6, <2>1, CreateEffect, SMT DEF CreateForSession, Creatable, WorkersInv, TreeTypes
  <2>5. SessionInv'
    BY <1>6, <2>1, CreateEffect, SMT DEF CreateForSession, Creatable, SessionInv, TreeTypes
  <2> QED BY <2>2, <2>3, <2>4, <2>5
<1>7. ASSUME NEW t \in Trees, Enter(t) PROVE TreeInv'
  BY <1>7, <1>0, SMT DEF Enter, TreeTypes, DiskRow, RemovalInv, WorkersInv, SessionInv, WorkIsKept, Unlocked, NoRemoval
<1>8. ASSUME NEW t \in Trees, StartWorker(t) PROVE TreeInv'
  <2>1. Create(t) /\ Creatable(t) /\ Unlocked
    BY <1>8 DEF StartWorker
  <2>2. TreeTypes'
    BY <1>8, <2>1, CreateEffect, SMT DEF StartWorker, TreeTypes
  <2>3. RemovalInv' /\ WorkIsKept'
    BY <1>8, <1>0, <2>1, SMT DEF StartWorker, RemovalInv, WorkIsKept
  <2>4. WorkersInv'
    BY <1>8, <2>1, CreateEffect, SMT DEF StartWorker, Creatable, WorkersInv, TreeTypes
  <2>5. SessionInv'
    BY <1>8, <2>1, CreateEffect, SMT DEF StartWorker, Creatable, SessionInv, TreeTypes
  <2> QED BY <2>2, <2>3, <2>4, <2>5
<1>9. ASSUME NEW t \in Trees, WorkerEnds(t) PROVE TreeInv'
  <2> DEFINE how == WhyClean(t, liveTrees[t].base, TRUE)
  <2>1. CASE UNCHANGED lockedBy
    BY <1>9, <2>1, SMT DEF WorkerEnds, TreeTypes, RemovalInv, WorkersInv, SessionInv, WorkIsKept
  <2>2. CASE liveTrees[t].known /\ Judges(t, how, FALSE)
    <3>1. liveTrees[t].base = 0 /\ 0 \in 0..MaxCommits
      BY <1>9, SMT DEF WorkerEnds, WorkersInv
    <3>2. how \in NamedWays
      BY <3>1, JudgementNamed, Zenon
    <3> HIDE DEF how
    <3>3. UNCHANGED <<disk, liveTrees, current, saved, started, loss>> /\ workers' \subseteq workers
      BY <1>9 DEF WorkerEnds
    <3> QED BY <2>2, <3>2, <3>3, RemovalJudged
  <2> QED BY <1>9, <2>1, <2>2, Zenon DEF WorkerEnds
<1>10. ASSUME NEW t \in Trees, SweepStale(t) PROVE TreeInv'
  <2> DEFINE how == WhyClean(t, disk[t].commits, TRUE)
  <2>1. disk[t].commits \in 0..MaxCommits /\ ~Unpushed(t)
    BY <1>10 DEF SweepStale, TreeTypes, DiskRow
  <2>2. how \in NamedWays
    BY <2>1, JudgementNamed, Zenon
  <2>3. Judges(t, how, FALSE)
    BY <1>10, Zenon DEF SweepStale
  <2> HIDE DEF how
  <2>4. UNCHANGED <<disk, liveTrees, current, saved, workers, started, loss>>
    BY <1>10 DEF SweepStale
  <2> QED BY <2>2, <2>3, <2>4, RemovalJudged
<1>11. ASSUME NEW t \in Trees, TeamDeletes(t) PROVE TreeInv'
  <2> USE <1>11 DEF TeamDeletes
  <2>5. Absent \in DiskRow /\ ~Absent.dir /\ Absent.pushed = 0 /\ Absent.commits = 0
    BY SMT DEF DiskRow, Absent
  <2>6. disk' \in [Trees -> DiskRow] /\ disk'[t] = Absent /\ \A s \in Trees \ {t} : disk'[s] = disk[s]
    <3> HIDE DEF Absent
    <3> QED BY <2>5, Assigned DEF TreeTypes
  <2>1. TreeTypes'
    <3>1. loss' \in [how : Ways, astray : BOOLEAN]
      BY SMT DEF TreeTypes, Ways
    <3> QED BY <3>1, <2>5, <2>6, SMT DEF TreeTypes
  <2>2. RemovalInv'
    BY <1>0, <2>5, <2>6, SMT DEF RemovalInv, TreeTypes
  <2>3. WorkersInv' /\ WorkIsKept'
    BY <2>5, <2>6, SMT DEF WorkersInv, TreeTypes, WorkIsKept
  <2>4. SessionInv'
    BY <1>0, <2>5, <2>6, SMT DEF SessionInv, TreeTypes
  <2> QED BY <2>1, <2>2, <2>3, <2>4
<1>12. ASSUME NEW t \in Trees, Edits(t) PROVE TreeInv'
  <2> USE <1>12 DEF Edits
  <2> DEFINE r == disk[t]
  <2>5. /\ r \in DiskRow /\ r.pushed <= r.commits /\ r.commits \in 0..MaxCommits
        /\ r.pushed \in 0..MaxCommits
    BY SMT DEF TreeTypes, DiskRow
  <2>6. PICK q \in DiskRow : /\ disk' = [disk EXCEPT ![t] = q]
                             /\ q.dir = r.dir /\ q.pushed <= q.commits
    <3>1. CASE disk' = [disk EXCEPT ![t].dirty = TRUE]
      <4> DEFINE p == [r EXCEPT !.dirty = TRUE, !.commits = r.commits]
      <4>1. disk' = [disk EXCEPT ![t] = [r EXCEPT !.dirty = TRUE]]
        BY <3>1, Zenon
      <4>2. [r EXCEPT !.dirty = TRUE] = p
        BY <2>5, RowUntouched
      <4>3. p \in DiskRow /\ p.dir = r.dir /\ p.pushed <= p.commits
        <5> HIDE DEF r
        <5> QED BY <2>5, Dirtied
      <4> QED BY <4>1, <4>2, <4>3, Zenon
    <3>2. CASE r.commits < MaxCommits /\ disk' = [disk EXCEPT ![t].dirty = FALSE, ![t].commits = @ + 1]
      <4> DEFINE c == r.commits + 1
                 p == [r EXCEPT !.dirty = FALSE, !.commits = c]
      <4>1. disk' = [disk EXCEPT ![t] = p]
        BY <3>2, Zenon
      <4>2. c \in 0..MaxCommits /\ r.pushed <= c
        <5> HIDE DEF r
        <5> QED BY <2>5, <3>2, SMT
      <4>3. p \in DiskRow /\ p.dir = r.dir /\ p.pushed <= p.commits
        <5> HIDE DEF r, c
        <5> QED BY <2>5, <4>2, Dirtied
      <4> QED BY <4>1, <4>3, Zenon
    <3>3. CASE disk' = [disk EXCEPT ![t].pushed = disk[t].commits]
      <4> DEFINE p == [r EXCEPT !.pushed = r.commits]
      <4>1. disk' = [disk EXCEPT ![t] = p]
        BY <3>3, Zenon
      <4>2. p \in DiskRow /\ p.dir = r.dir /\ p.pushed <= p.commits
        <5> HIDE DEF r
        <5> QED BY <2>5, PushedOut, SMT
      <4> QED BY <4>1, <4>2, Zenon
    <3> QED BY <3>1, <3>2, <3>3
  <2> HIDE DEF r
  <2>7. disk' \in [Trees -> DiskRow] /\ disk'[t] = q /\ \A s \in Trees \ {t} : disk'[s] = disk[s]
    BY <2>6, Assigned DEF TreeTypes
  <2>1. TreeTypes'
    BY <2>6, <2>7, SMT DEF TreeTypes
  <2>2. \A s \in Trees : disk'[s].dir = disk[s].dir
    BY <2>6, <2>7 DEF r
  <2>3. RemovalInv' /\ WorkersInv' /\ WorkIsKept'
    BY <2>2, <1>0, SMT DEF RemovalInv, WorkersInv, WorkIsKept, TreeTypes
  <2>4. SessionInv'
    BY <2>2, SMT DEF SessionInv, TreeTypes
  <2> QED BY <2>1, <2>3, <2>4
<1>13. CASE UNCHANGED treeVars
  BY <1>13 DEF treeVars, TreeTypes, RemovalInv, WorkersInv, SessionInv, WorkIsKept
<1> QED BY <1>1, <1>2, <1>3, <1>4, <1>5, <1>6, <1>7, <1>8, <1>9, <1>10, <1>11, <1>12, <1>13, <1>14, <1>15, Zenon DEF TreeNext

LEMMA TreeInvGives == TreeInv => TreeTypeOK /\ WorkIsKept /\ SessionHasItsTree
<1> SUFFICES ASSUME TreeInv PROVE TreeTypeOK /\ SessionHasItsTree
  BY DEF TreeInv
<1>1. TreeTypeOK
  BY DEF TreeInv, TreeTypes, DiskRow, TreeTypeOK
<1>2. SessionHasItsTree
  BY DEF TreeInv, TreeTypes, SessionInv, RemovalInv, SessionHasItsTree, Unlocked, NoRemoval
<1> QED BY <1>1, <1>2

-----------------------------------------------------------------------------
(* Files.  A stamp that counts as read is one that some agent has seen; a   *)
(* checkpoint names no number that an edit will still use, and the numbers  *)
(* of a path never go down from one checkpoint to the next.                 *)
Checkpoint == [version : [Paths -> 0..MaxTracked], text : [Paths -> FileTexts],
               reused : SUBSET Paths]

\* The text a backup of that number gives back.
Kept(b, p, v) == IF <<p, v>> \in DOMAIN b THEN b[<<p, v>>] ELSE NoFile

FileTypes ==
  /\ onDisk \in [Paths -> TextOf]
  /\ readAt \in [Paths -> -1 .. MaxWrites]
  /\ knows \in [Editors -> [Paths -> FileTexts]]
  /\ tracked \in [Paths -> 0 .. MaxTracked]
  /\ DOMAIN backups \subseteq Paths \X (1 .. MaxTracked)
  /\ \A k \in DOMAIN backups : backups[k] \in FileTexts
  /\ snapshots \in Seq(Checkpoint) /\ Len(snapshots) <= MAX_SNAPSHOTS
  /\ before \in [Paths -> FileTexts]
  /\ reused \subseteq Paths \X (1 .. MaxTracked)

ReadIsKnown ==
  \A p \in Paths : Exists(p) /\ readAt[p] = onDisk[p].at =>
                     \E e \in Editors : knows[e][p] = onDisk[p].text

BeforeIsKept ==
  \A p \in Paths : tracked[p] > 0 => before[p] \in {NoFile, Kept(backups, p, tracked[p])}

VersionsGrow ==
  \A n \in 1 .. Len(snapshots), p \in Paths :
    /\ snapshots[n].version[p] <= tracked[p]
    /\ \A m \in 1 .. n : snapshots[m].version[p] <= snapshots[n].version[p]

FilesInv == /\ FileTypes /\ ReadIsKnown /\ BeforeIsKept /\ VersionsGrow
            /\ NothingUnseenReplaced /\ CheckpointsStand

LEMMA FilesBounds == MaxWrites \in Nat /\ MaxTracked \in Nat \ {0} /\ MAX_SNAPSHOTS \in Nat \ {0}
BY FilesAssumption

LEMMA FilesInvInit == FilesInit => FilesInv
<1> SUFFICES ASSUME FilesInit PROVE FilesInv
  OBVIOUS
<1> USE FilesBounds DEF FilesInit
<1>1. FileTypes
  BY SMT DEF FileTypes, TextOf, FileTexts, NoFile, Checkpoint
<1>2. ReadIsKnown /\ BeforeIsKept
  BY SMT DEF ReadIsKnown, BeforeIsKept, Exists
<1>3. Len(snapshots) = 0
  BY SMT
<1>4. VersionsGrow /\ CheckpointsStand /\ NothingUnseenReplaced
  BY <1>3, SMT DEF VersionsGrow, CheckpointsStand, NothingUnseenReplaced
<1> QED BY <1>1, <1>2, <1>4 DEF FilesInv

(* A new stamp is above everything in use. *)
LEMMA StampIsNew ==
  ASSUME FileTypes, NEW p \in Paths
  PROVE  Stamp \in Nat /\ \A m \in InUse : m < Stamp
<1> USE FilesBounds
<1>1. InUse \subseteq -1 .. MaxWrites
  <2>1. \A q \in Paths : onDisk[q].at \in 0 .. MaxWrites /\ onDisk[q].text \in FileTexts
    BY DEF FileTypes, TextOf
  <2>2. \A q \in Paths : readAt[q] \in -1 .. MaxWrites
    BY DEF FileTypes
  <2>3. \A k \in DOMAIN backups : backups[k] \in FileTexts
    BY DEF FileTypes
  <2>4. FileTexts \subseteq -1 .. MaxWrites /\ 0 .. MaxWrites \subseteq -1 .. MaxWrites
    BY DEF FileTexts
  <2>5. \A m \in InUse : m \in -1 .. MaxWrites
    BY <2>1, <2>2, <2>3, <2>4 DEF InUse
  <2> QED BY <2>5
<1>2. onDisk[p].at \in InUse /\ onDisk[p].at \in 0 .. MaxWrites
  BY SMT DEF InUse, FileTypes, TextOf
<1> DEFINE gap == {MaxWrites - m : m \in InUse}
<1>3. gap \in SUBSET Nat /\ gap # {}
  <2> HIDE DEF InUse
  <2> QED BY <1>1, <1>2, SMT
<1>4. PICK g \in gap : \A h \in gap : g <= h
  <2> HIDE DEF gap
  <2> QED BY <1>3, LeastNumber
<1> HIDE DEF InUse
<1>5. PICK m \in InUse : g = MaxWrites - m
  BY <1>4
<1>6. \A n \in InUse : n <= m
  <2> SUFFICES ASSUME NEW n \in InUse PROVE n <= m
    OBVIOUS
  <2>1. g <= MaxWrites - n
    BY <1>4
  <2> QED BY <2>1, <1>1, <1>5, SMT
<1> DEFINE top == CHOOSE i \in InUse : \A n \in InUse : n <= i
<1>7. top \in InUse /\ \A n \in InUse : n <= top
  BY <1>6, Zenon
<1>8. Stamp = 1 + top
  BY DEF Stamp
<1> HIDE DEF top
<1>9. top \in -1 .. MaxWrites
  BY <1>1, <1>7
<1>10. \A n \in InUse : n \in Int
  BY <1>1, SMT
<1> QED BY <1>2, <1>7, <1>8, <1>9, <1>10, SMT

(* What it means that an edit is tracked: only the backup of its own number *)
(* changes, and it holds what the file held.                                *)
LEMMA TrackEffect ==
  ASSUME FileTypes, NEW p \in Paths, Track(p)
  PROVE  /\ tracked' \in [Paths -> 0 .. MaxTracked] /\ tracked'[p] = tracked[p] + 1
         /\ \A q \in Paths \ {p} : tracked'[q] = tracked[q]
         /\ before' \in [Paths -> FileTexts]
         /\ \A q \in Paths \ {p} : before'[q] = before[q]
         /\ DOMAIN backups' \subseteq Paths \X (1 .. MaxTracked)
         /\ \A k \in DOMAIN backups' : backups'[k] \in FileTexts
         /\ reused' \subseteq Paths \X (1 .. MaxTracked)
         /\ before'[p] \in {NoFile, Kept(backups', p, tracked[p] + 1)}
         /\ \A q \in Paths, v \in 0 .. MaxTracked :
               q # p \/ v <= tracked[p] => Kept(backups', q, v) = Kept(backups, q, v)
<1> USE FilesBounds
<1> DEFINE n == tracked[p] + 1
           k == <<p, n>>
           x == onDisk[p].text
<1>1. n \in 1 .. MaxTracked /\ n \in 0 .. MaxTracked /\ x \in FileTexts
  BY SMT DEF Track, FileTypes, TextOf
<1>2. tracked' = [tracked EXCEPT ![p] = n] /\ before' = [before EXCEPT ![p] = x]
  BY DEF Track
<1>3. backups' = IF x # NoFile THEN [j \in DOMAIN backups \cup {k} |-> IF j = k THEN x ELSE backups[j]]
                 ELSE backups
  BY DEF Track, Exists
<1>4. reused' \subseteq reused \cup {k}
  BY DEF Track
<1>5. k \in Paths \X (1 .. MaxTracked)
  <2> HIDE DEF n
  <2> QED BY <1>1
<1> HIDE DEF x
<1>6. /\ tracked' \in [Paths -> 0 .. MaxTracked] /\ tracked'[p] = n
      /\ \A q \in Paths \ {p} : tracked'[q] = tracked[q]
  <2> HIDE DEF n
  <2> QED BY <1>1, <1>2, Assigned DEF FileTypes
<1>7. /\ before' \in [Paths -> FileTexts] /\ before'[p] = x
      /\ \A q \in Paths \ {p} : before'[q] = before[q]
  BY <1>1, <1>2, Assigned DEF FileTypes
<1>8. \A q \in Paths, v \in 0 .. MaxTracked : q # p \/ v <= tracked[p] => <<q, v>> # k
  BY SMT DEF FileTypes
<1>9. tracked[p] + 1 = n
  OBVIOUS
<1> HIDE DEF k, n
<1>10. /\ DOMAIN backups' \subseteq Paths \X (1 .. MaxTracked)
       /\ \A j \in DOMAIN backups' : backups'[j] \in FileTexts
  BY <1>1, <1>3, <1>5 DEF FileTypes
<1>11. \A j : j # k => /\ j \in DOMAIN backups' <=> j \in DOMAIN backups
                       /\ j \in DOMAIN backups => backups'[j] = backups[j]
  BY <1>3
<1>12. x # NoFile => k \in DOMAIN backups' /\ backups'[k] = x
  BY <1>3
<1>13. x # NoFile => Kept(backups', p, n) = x
  BY <1>12 DEF Kept, k
<1>14. \A q \in Paths, v \in 0 .. MaxTracked :
               q # p \/ v <= tracked[p] => Kept(backups', q, v) = Kept(backups, q, v)
  BY <1>8, <1>11 DEF Kept
<1>15. reused' \subseteq Paths \X (1 .. MaxTracked)
  BY <1>4, <1>5 DEF FileTypes
<1> QED BY <1>6, <1>7, <1>9, <1>10, <1>13, <1>14, <1>15

LEMMA CheckpointFields ==
  ASSUME FileTypes, NEW n \in 1 .. Len(snapshots)
  PROVE  /\ snapshots[n] \in Checkpoint
         /\ snapshots[n].version \in [Paths -> 0 .. MaxTracked]
         /\ snapshots[n].text \in [Paths -> FileTexts]
<1>1. snapshots[n] \in Checkpoint
  BY DEF FileTypes
<1> QED BY <1>1 DEF Checkpoint

(* The parts of the invariant that are about the history, when an edit is    *)
(* tracked and when nothing of the history changes.                         *)
LEMMA HistoryAfterTrack ==
  ASSUME FilesInv, NEW p \in Paths, Track(p), UNCHANGED snapshots
  PROVE  BeforeIsKept' /\ VersionsGrow' /\ CheckpointsStand'
<1> USE FilesBounds DEF FilesInv
<1>0. tracked[p] \in Nat /\ \A q \in Paths : tracked[q] \in 0 .. MaxTracked
  BY SMT DEF FileTypes
<1>1. BeforeIsKept'
  <2> SUFFICES ASSUME NEW q \in Paths, tracked'[q] > 0
               PROVE  before'[q] \in {NoFile, Kept(backups', q, tracked'[q])}
    BY DEF BeforeIsKept
  <2>1. CASE q = p
    BY <2>1, TrackEffect
  <2>2. CASE q # p
    BY <2>2, <1>0, TrackEffect DEF BeforeIsKept
  <2> QED BY <2>1, <2>2
<1>2. VersionsGrow'
  <2> SUFFICES ASSUME NEW n \in 1 .. Len(snapshots), NEW q \in Paths
               PROVE  /\ snapshots[n].version[q] <= tracked'[q]
                      /\ \A m \in 1 .. n : snapshots[m].version[q] <= snapshots[n].version[q]
    BY DEF VersionsGrow
  <2>1. snapshots[n].version[q] <= tracked[q] /\ snapshots[n].version[q] \in 0 .. MaxTracked
    BY CheckpointFields DEF VersionsGrow
  <2>2. tracked'[q] \in {tracked[q], tracked[q] + 1}
    BY TrackEffect
  <2> QED BY <2>1, <2>2, <1>0, SMT DEF VersionsGrow
<1>3. CheckpointsStand'
  <2> SUFFICES ASSUME NEW n \in 1 .. Len(snapshots), NEW q \in Paths, snapshots[n].version[q] > 0
               PROVE  \/ snapshots[n].text[q] = NoFile \/ q \in snapshots[n].reused
                      \/ Kept(backups', q, snapshots[n].version[q]) = snapshots[n].text[q]
    BY DEF CheckpointsStand, Restored, Kept
  <2>1. snapshots[n].version[q] <= tracked[q] /\ snapshots[n].version[q] \in 0 .. MaxTracked
    BY CheckpointFields DEF VersionsGrow
  <2>2. q # p \/ snapshots[n].version[q] <= tracked[p]
    BY <2>1
  <2>3. Kept(backups', q, snapshots[n].version[q]) = Kept(backups, q, snapshots[n].version[q])
    BY <2>1, <2>2, TrackEffect
  <2>4. \/ snapshots[n].text[q] = NoFile \/ q \in snapshots[n].reused
        \/ Kept(backups, q, snapshots[n].version[q]) = snapshots[n].text[q]
    BY DEF CheckpointsStand, Restored, Kept
  <2> QED BY <2>3, <2>4
<1> QED BY <1>1, <1>2, <1>3

LEMMA HistoryKept ==
  ASSUME FilesInv, UNCHANGED <<tracked, backups, snapshots, before>>
  PROVE  BeforeIsKept' /\ VersionsGrow' /\ CheckpointsStand'
BY DEF FilesInv, BeforeIsKept, VersionsGrow, CheckpointsStand, Restored, Kept

(* A file with a new stamp is not one that counts as read. *)
LEMMA NewStampUnread ==
  ASSUME FileTypes, NEW p \in Paths
  PROVE  readAt[p] # Stamp
<1>1. readAt[p] \in InUse
  BY DEF InUse
<1>2. readAt[p] < Stamp
  BY <1>1, StampIsNew
<1>3. Stamp \in Int
  BY StampIsNew
<1>4. readAt[p] \in Int
  BY FilesBounds DEF FileTypes
<1> QED BY <1>2, <1>3, <1>4, SMT

(* A file is put in the place of another one under a new stamp. *)
LEMMA PutEffect ==
  ASSUME FileTypes, NEW p \in Paths, NEW text \in FileTexts, NEW n \in 0 .. MaxWrites,
         Put(p, text, n)
  PROVE  /\ onDisk' \in [Paths -> TextOf]
         /\ onDisk'[p].text = text /\ onDisk'[p].at = n
         /\ \A q \in Paths \ {p} : onDisk'[q] = onDisk[q]
<1> DEFINE x == [text |-> text, at |-> n]
<1>1. x \in TextOf /\ x.text = text /\ x.at = n
  BY DEF TextOf
<1>2. onDisk' = [onDisk EXCEPT ![p] = x]
  BY DEF Put
<1> HIDE DEF x
<1> QED BY <1>1, <1>2, Assigned DEF FileTypes

(* What an agent knows of a file. *)
LEMMA KnowsEffect ==
  ASSUME FileTypes, NEW e \in Editors, NEW p \in Paths, NEW text \in FileTexts,
         knows' = [knows EXCEPT ![e][p] = text]
  PROVE  /\ knows' \in [Editors -> [Paths -> FileTexts]]
         /\ knows'[e][p] = text
         /\ \A d \in Editors, q \in Paths : q # p => knows'[d][q] = knows[d][q]
<1> DEFINE x == [knows[e] EXCEPT ![p] = text]
<1>1. knows[e] \in [Paths -> FileTexts]
  BY DEF FileTypes
<1>2. x \in [Paths -> FileTexts] /\ x[p] = text /\ \A q \in Paths \ {p} : x[q] = knows[e][q]
  BY <1>1
<1>3. knows' = [knows EXCEPT ![e] = x]
  BY Zenon
<1> HIDE DEF x
<1>4. /\ knows' \in [Editors -> [Paths -> FileTexts]] /\ knows'[e] = x
      /\ \A d \in Editors \ {e} : knows'[d] = knows[d]
  BY <1>2, <1>3, Assigned DEF FileTypes
<1> QED BY <1>2, <1>4

LEMMA FilesInvNext == FilesInv /\ [FilesNext]_fileVars => FilesInv'
<1> SUFFICES ASSUME FilesInv, [FilesNext]_fileVars PROVE FilesInv'
  OBVIOUS
<1> USE FilesBounds
<1>0. FileTypes /\ ReadIsKnown /\ NothingUnseenReplaced /\ BeforeIsKept /\ VersionsGrow
      /\ CheckpointsStand
  BY DEF FilesInv
<1>1. ASSUME NEW e \in Editors, NEW p \in Paths, ReadFile(e, p) PROVE FilesInv'
  <2>0. onDisk[p].text \in FileTexts /\ onDisk[p].at \in -1 .. MaxWrites
    BY <1>0, SMT DEF FileTypes, TextOf
  <2>1. /\ readAt' = [readAt EXCEPT ![p] = onDisk[p].at]
        /\ knows' = [knows EXCEPT ![e][p] = onDisk[p].text]
        /\ UNCHANGED <<onDisk, tracked, backups, snapshots, before, reused, clobbered>>
    BY <1>1 DEF ReadFile
  <2>2. /\ knows' \in [Editors -> [Paths -> FileTexts]] /\ knows'[e][p] = onDisk[p].text
        /\ \A d \in Editors, q \in Paths : q # p => knows'[d][q] = knows[d][q]
    <3>t. PICK text : text = onDisk[p].text
      OBVIOUS
    <3>1. knows' = [knows EXCEPT ![e][p] = text]
      BY <2>1, <3>t, Zenon
    <3>2. text \in FileTexts
      BY <1>0, <2>0, <2>1, <3>t
    <3>3. FileTypes
      BY <1>0
    <3>4. /\ knows' \in [Editors -> [Paths -> FileTexts]] /\ knows'[e][p] = text
          /\ \A d \in Editors, q \in Paths : q # p => knows'[d][q] = knows[d][q]
      BY <3>1, <3>2, <3>3, KnowsEffect, Zenon
    <3> QED BY <3>t, <3>4, Zenon
  <2>3. /\ readAt' \in [Paths -> -1 .. MaxWrites]
        /\ \A q \in Paths \ {p} : readAt'[q] = readAt[q]
    BY <1>0, <2>0, <2>1, Assigned DEF FileTypes
  <2>4. FileTypes'
    BY <1>0, <2>1, <2>2, <2>3 DEF FileTypes
  <2>5. ReadIsKnown'
    BY <1>0, <2>1, <2>2, <2>3 DEF ReadIsKnown, Exists
  <2>6. BeforeIsKept' /\ VersionsGrow' /\ CheckpointsStand'
    BY <2>1, HistoryKept
  <2> QED BY <1>0, <2>1, <2>4, <2>5, <2>6 DEF FilesInv, NothingUnseenReplaced
<1>2. ASSUME NEW e \in Editors, NEW p \in Paths, WriteRefused(e, p) PROVE FilesInv'
  <2>1. Track(p) /\ UNCHANGED <<onDisk, readAt, knows, snapshots, clobbered>>
    BY <1>2 DEF WriteRefused
  <2>2. FileTypes'
    BY <1>0, <2>1, TrackEffect DEF FileTypes
  <2>3. BeforeIsKept' /\ VersionsGrow' /\ CheckpointsStand'
    BY <2>1, HistoryAfterTrack
  <2> QED BY <1>0, <2>1, <2>2, <2>3 DEF FilesInv, NothingUnseenReplaced, ReadIsKnown, Exists
<1>3. ASSUME NEW e \in Editors, NEW p \in Paths, WriteDone(e, p) PROVE FilesInv'
  <2>1. /\ Track(p) /\ Put(p, Stamp, Stamp) /\ MayWrite(p) /\ Stamp <= MaxWrites
        /\ readAt' = [readAt EXCEPT ![p] = Stamp]
        /\ knows' = [knows EXCEPT ![e][p] = Stamp]
        /\ clobbered' \subseteq clobbered \cup
             (IF Exists(p) THEN {{a \in Editors : knows[a][p] = onDisk[p].text}} ELSE {})
        /\ UNCHANGED snapshots
    BY <1>3 DEF WriteDone
  <2>2. Stamp \in FileTexts /\ Stamp \in 0 .. MaxWrites /\ Stamp \in -1 .. MaxWrites
    BY <1>0, <2>1, StampIsNew, SMT DEF FileTexts
  <2>3. /\ onDisk' \in [Paths -> TextOf] /\ onDisk'[p].text = Stamp
        /\ \A q \in Paths \ {p} : onDisk'[q] = onDisk[q]
    BY <1>0, <2>1, <2>2, PutEffect
  <2>4. /\ knows' \in [Editors -> [Paths -> FileTexts]] /\ knows'[e][p] = Stamp
        /\ \A d \in Editors, q \in Paths : q # p => knows'[d][q] = knows[d][q]
    <3>t. PICK text : text = Stamp
      OBVIOUS
    <3>1. knows' = [knows EXCEPT ![e][p] = text]
      BY <2>1, <3>t, Zenon
    <3>2. text \in FileTexts
      BY <1>0, <2>1, <2>2, <3>t
    <3>3. FileTypes
      BY <1>0
    <3>4. /\ knows' \in [Editors -> [Paths -> FileTexts]] /\ knows'[e][p] = text
          /\ \A d \in Editors, q \in Paths : q # p => knows'[d][q] = knows[d][q]
      BY <3>1, <3>2, <3>3, KnowsEffect, Zenon
    <3> QED BY <3>t, <3>4, Zenon
  <2>5. /\ readAt' \in [Paths -> -1 .. MaxWrites]
        /\ \A q \in Paths \ {p} : readAt'[q] = readAt[q]
    BY <1>0, <2>1, <2>2, Assigned DEF FileTypes
  <2>6. FileTypes'
    BY <1>0, <2>1, <2>3, <2>4, <2>5, TrackEffect DEF FileTypes
  <2>7. ReadIsKnown'
    BY <1>0, <2>3, <2>4, <2>5 DEF ReadIsKnown, Exists
  <2>8. BeforeIsKept' /\ VersionsGrow' /\ CheckpointsStand'
    BY <2>1, HistoryAfterTrack
  <2>9. Exists(p) => \E a \in Editors : knows[a][p] = onDisk[p].text
    BY <1>0, <2>1 DEF MayWrite, ReadIsKnown
  <2>10. NothingUnseenReplaced'
    BY <1>0, <2>1, <2>9 DEF NothingUnseenReplaced
  <2> QED BY <2>6, <2>7, <2>8, <2>10 DEF FilesInv
<1>4. ASSUME NEW p \in Paths, OutsideWrites(p) PROVE FilesInv'
  <2>1. /\ Stamp <= MaxWrites
        /\ Put(p, Stamp, Stamp) \/ Put(p, NoFile, onDisk[p].at)
        /\ UNCHANGED <<readAt, knows, tracked, backups, snapshots, before, reused, clobbered>>
    BY <1>4 DEF OutsideWrites
  <2>2. Stamp \in FileTexts /\ Stamp \in 0 .. MaxWrites
    BY <1>0, <2>1, StampIsNew, SMT DEF FileTexts
  <2>3. NoFile \in FileTexts /\ onDisk[p].at \in 0 .. MaxWrites
    BY <1>0, SMT DEF FileTypes, TextOf, FileTexts, NoFile
  <2>4. /\ onDisk' \in [Paths -> TextOf] /\ \A q \in Paths \ {p} : onDisk'[q] = onDisk[q]
        /\ onDisk'[p].text = NoFile \/ onDisk'[p].at = Stamp
    BY <1>0, <2>1, <2>2, <2>3, PutEffect
  <2>5. FileTypes'
    BY <1>0, <2>1, <2>4 DEF FileTypes
  <2>6. readAt[p] # Stamp
    BY <1>0, NewStampUnread
  <2>7. ReadIsKnown'
    BY <1>0, <2>1, <2>4, <2>6 DEF ReadIsKnown, Exists
  <2>8. BeforeIsKept' /\ VersionsGrow' /\ CheckpointsStand'
    BY <2>1, HistoryKept
  <2> QED BY <1>0, <2>1, <2>5, <2>7, <2>8 DEF FilesInv, NothingUnseenReplaced
<1>5. CASE MakeSnapshot
  <2> DEFINE s == [version |-> tracked, text |-> before',
                   reused |-> {p \in Paths : <<p, tracked[p]>> \in reused}]
             longer == Append(snapshots, s)
             keys == {<<p, tracked[p]>> : p \in Unsaved}
  <2>1. /\ backups' = [k \in DOMAIN backups \cup keys |->
                         IF k \in DOMAIN backups THEN backups[k] ELSE onDisk[k[1]].text]
        /\ before' = [p \in Paths |-> IF p \in Unsaved THEN onDisk[p].text ELSE before[p]]
        /\ snapshots' = LastOf(longer, MAX_SNAPSHOTS)
        /\ UNCHANGED <<onDisk, readAt, knows, tracked, reused, clobbered>>
    BY <1>5 DEF MakeSnapshot
  <2>2. \A p \in Unsaved : /\ p \in Paths /\ tracked[p] \in 1 .. MaxTracked
                           /\ onDisk[p].text \in FileTexts
    BY <1>0, SMT DEF Unsaved, FileTypes, TextOf
  <2>3. before' \in [Paths -> FileTexts]
    BY <1>0, <2>1, <2>2 DEF FileTypes
  <2>4. s \in Checkpoint /\ s.version = tracked /\ s.text = before'
    BY <1>0, <2>3 DEF Checkpoint, FileTypes
  <2> HIDE DEF s
  <2>5. keys \subseteq Paths \X (1 .. MaxTracked)
    BY <2>2
  <2>6. \A k \in keys : onDisk[k[1]].text \in FileTexts
    BY <2>2
  <2>7. DOMAIN backups' = DOMAIN backups \cup keys
    BY <2>1
  <2>8. \A k \in DOMAIN backups' : backups'[k] \in FileTexts
    BY <1>0, <2>1, <2>6, <2>7 DEF FileTypes
  <2>9. longer \in Seq(Checkpoint) /\ Len(longer) = Len(snapshots) + 1 /\ Len(snapshots) \in Nat
    BY <1>0, <2>4 DEF FileTypes
  <2>10. longer[Len(longer)] = s /\ \A n \in 1 .. Len(snapshots) : longer[n] = snapshots[n]
    BY <1>0, <2>4 DEF FileTypes
  <2> HIDE DEF longer
  <2> DEFINE d == IF Len(longer) > MAX_SNAPSHOTS THEN Len(longer) - MAX_SNAPSHOTS ELSE 0
  <2>11. d \in 0 .. Len(longer)
    BY <2>9, SMT
  <2>12. /\ snapshots' \in Seq(Checkpoint) /\ Len(snapshots') = Len(longer) - d
         /\ \A n \in 1 .. Len(snapshots') : snapshots'[n] = longer[n + d]
    <3>1. snapshots' = SubSeq(longer, d + 1, Len(longer))
      BY <2>1 DEF LastOf
    <3> HIDE DEF d
    <3> QED BY <2>9, <2>11, <3>1, SMT
  <2>13. Len(snapshots') <= MAX_SNAPSHOTS
    BY <2>9, <2>12, SMT
  <2>14. FileTypes'
    <3> HIDE DEF keys
    <3> QED BY <1>0, <2>1, <2>3, <2>5, <2>7, <2>8, <2>12, <2>13 DEF FileTypes
  <2>15. \A q \in Paths, v \in 0 .. MaxTracked :
            \/ Kept(backups', q, v) = Kept(backups, q, v)
            \/ /\ v = tracked[q] /\ q \in Unsaved
               /\ Kept(backups, q, v) = NoFile
    <3> SUFFICES ASSUME NEW q \in Paths, NEW v \in 0 .. MaxTracked,
                        Kept(backups', q, v) # Kept(backups, q, v)
                 PROVE  v = tracked[q] /\ q \in Unsaved /\ Kept(backups, q, v) = NoFile
      OBVIOUS
    <3>1. <<q, v>> \notin DOMAIN backups /\ <<q, v>> \in keys
      BY <2>1, <2>7 DEF Kept
    <3> QED BY <3>1 DEF Kept
  <2>16. \A q \in Paths : tracked[q] > 0 =>
            before'[q] \in {NoFile, Kept(backups', q, tracked[q])}
    <3> SUFFICES ASSUME NEW q \in Paths, tracked[q] > 0
                 PROVE  before'[q] \in {NoFile, Kept(backups', q, tracked[q])}
      OBVIOUS
    <3>1. CASE q \in Unsaved
      <4>1. <<q, tracked[q]>> \in keys /\ <<q, tracked[q]>> \notin DOMAIN backups
        BY <3>1 DEF Unsaved
      <4>2. backups'[<<q, tracked[q]>>] = onDisk[q].text /\ <<q, tracked[q]>> \in DOMAIN backups'
        BY <2>1, <2>7, <4>1
      <4> QED BY <2>1, <3>1, <4>2 DEF Kept
    <3>2. CASE q \notin Unsaved
      <4>1. Kept(backups', q, tracked[q]) = Kept(backups, q, tracked[q])
        BY <1>0, <2>15, <3>2 DEF FileTypes
      <4> QED BY <1>0, <2>1, <3>2, <4>1 DEF BeforeIsKept
    <3> QED BY <3>1, <3>2
  <2>17. BeforeIsKept'
    BY <2>1, <2>16 DEF BeforeIsKept
  <2> DEFINE L == Len(snapshots)
  <2>18. VersionsGrow'
    <3> SUFFICES ASSUME NEW n \in 1 .. Len(snapshots'), NEW m \in 1 .. n, NEW q \in Paths
                 PROVE  /\ snapshots'[n].version[q] <= tracked[q]
                        /\ snapshots'[m].version[q] <= snapshots'[n].version[q]
      <4>1. \A i \in 1 .. Len(snapshots') : i \in 1 .. i
        BY <2>12, SMT
      <4> QED BY <2>1, <4>1 DEF VersionsGrow
    <3>1. n + d \in 1 .. Len(longer) /\ m + d \in 1 .. n + d
      <4> HIDE DEF d
      <4> QED BY <2>9, <2>11, <2>12, SMT
    <3>2. snapshots'[n] = longer[n + d] /\ snapshots'[m] = longer[m + d]
      <4>1. m \in 1 .. Len(snapshots')
        BY <2>12, SMT
      <4> QED BY <2>12, <4>1
    <3>3. tracked[q] \in 0 .. MaxTracked
      BY <1>0 DEF FileTypes
    <3> HIDE DEF d
    <3>4. CASE n + d = L + 1
      <4>1. longer[n + d] = s
        BY <2>9, <2>10, <3>4
      <4>2. CASE m + d = n + d
        BY <2>4, <3>2, <3>3, <4>1, <4>2, SMT
      <4>3. CASE m + d # n + d
        <5>1. m + d \in 1 .. L
          BY <2>9, <3>1, <3>4, <4>3, SMT
        <5>2. snapshots'[m] = snapshots[m + d]
          BY <2>10, <3>2, <5>1
        <5> QED BY <1>0, <2>4, <3>2, <3>3, <4>1, <5>1, <5>2, SMT DEF VersionsGrow
      <4> QED BY <4>2, <4>3
    <3>5. CASE n + d # L + 1
      <4>1. n + d \in 1 .. L /\ m + d \in 1 .. L
        BY <2>9, <3>1, <3>5, SMT
      <4>2. snapshots'[n] = snapshots[n + d] /\ snapshots'[m] = snapshots[m + d]
        BY <2>10, <3>2, <4>1
      <4> QED BY <1>0, <3>1, <4>1, <4>2 DEF VersionsGrow
    <3> QED BY <3>4, <3>5
  <2>19. CheckpointsStand'
    <3> SUFFICES ASSUME NEW n \in 1 .. Len(snapshots'), NEW q \in Paths,
                        snapshots'[n].version[q] > 0
                 PROVE  \/ snapshots'[n].text[q] = NoFile \/ q \in snapshots'[n].reused
                        \/ Kept(backups', q, snapshots'[n].version[q]) = snapshots'[n].text[q]
      BY DEF CheckpointsStand, Restored, Kept
    <3>1. n + d \in 1 .. Len(longer) /\ snapshots'[n] = longer[n + d]
      <4> HIDE DEF d
      <4> QED BY <2>9, <2>11, <2>12, SMT
    <3> HIDE DEF d
    <3>2. CASE n + d = L + 1
      <4>1. snapshots'[n] = s
        BY <2>9, <2>10, <3>1, <3>2
      <4> QED BY <2>4, <2>16, <4>1
    <3>3. CASE n + d # L + 1
      <4>1. n + d \in 1 .. L
        BY <2>9, <3>1, <3>3, SMT
      <4>2. snapshots'[n] = snapshots[n + d]
        BY <2>10, <3>1, <4>1
      <4> DEFINE c == snapshots[n + d]
      <4>3. \/ c.text[q] = NoFile \/ q \in c.reused \/ Kept(backups, q, c.version[q]) = c.text[q]
        BY <1>0, <4>1, <4>2 DEF CheckpointsStand, Restored, Kept
      <4>4. c.version[q] \in 0 .. MaxTracked
        BY <1>0, <4>1, CheckpointFields
      <4> QED BY <2>15, <4>2, <4>3, <4>4
    <3> QED BY <3>2, <3>3
  <2>20. NothingUnseenReplaced' /\ ReadIsKnown'
    BY <1>0, <2>1 DEF NothingUnseenReplaced, ReadIsKnown, Exists
  <2> QED BY <2>14, <2>17, <2>18, <2>19, <2>20 DEF FilesInv
<1>6. CASE Rewind
  <2>0. Stamp <= MaxWrites /\ UNCHANGED <<readAt, knows, backups, reused, clobbered>>
    BY <1>6 DEF Rewind
  <2>1. PICK n \in 1 .. Len(snapshots) :
          /\ onDisk' = [p \in Paths |->
               IF p \in {q \in Paths : /\ snapshots[n].version[q] > 0
                                       /\ onDisk[q].text # Restored(snapshots[n], q)}
               THEN [text |-> Restored(snapshots[n], p), at |-> Stamp] ELSE onDisk[p]]
          /\ snapshots' = SubSeq(snapshots, 1, n)
          /\ tracked' = [p \in Paths |-> IF snapshots[n].version[p] > 0
                                         THEN snapshots[n].version[p] ELSE tracked[p]]
          /\ before' = [p \in Paths |-> IF snapshots[n].version[p] > 0
                                        THEN Restored(snapshots[n], p) ELSE before[p]]
    BY <1>6 DEF Rewind
  <2> DEFINE c == snapshots[n]
  <2>2. /\ c \in Checkpoint /\ c.version \in [Paths -> 0 .. MaxTracked]
        /\ c.text \in [Paths -> FileTexts]
    BY <1>0, CheckpointFields
  <2>3. \A p \in Paths : Restored(c, p) \in FileTexts /\ Restored(c, p) = Kept(backups, p, c.version[p])
    BY <1>0, SMT DEF Restored, Kept, FileTypes, FileTexts, NoFile
  <2>4. \A p \in Paths : \/ onDisk'[p] = onDisk[p]
                         \/ onDisk'[p] = [text |-> Restored(c, p), at |-> Stamp]
    BY <2>1
  <2>5. Stamp \in 0 .. MaxWrites \/ Paths = {}
    BY <1>0, <2>0, StampIsNew, SMT
  <2>6. onDisk' \in [Paths -> TextOf]
    BY <1>0, <2>1, <2>3, <2>5 DEF FileTypes, TextOf
  <2>7. tracked' \in [Paths -> 0 .. MaxTracked] /\ before' \in [Paths -> FileTexts]
    BY <1>0, <2>1, <2>2, <2>3 DEF FileTypes
  <2>8. /\ snapshots' \in Seq(Checkpoint) /\ Len(snapshots') = n
        /\ \A m \in 1 .. n : snapshots'[m] = snapshots[m]
    BY <1>0, <2>1 DEF FileTypes
  <2>9. n <= MAX_SNAPSHOTS
    BY <1>0, SMT DEF FileTypes
  <2>10. FileTypes'
    BY <1>0, <2>0, <2>6, <2>7, <2>8, <2>9 DEF FileTypes
  <2>11. ReadIsKnown'
    <3> SUFFICES ASSUME NEW p \in Paths, onDisk'[p].text # NoFile, readAt[p] = onDisk'[p].at
                 PROVE  \E e \in Editors : knows[e][p] = onDisk'[p].text
      BY <2>0 DEF ReadIsKnown, Exists
    <3>1. CASE onDisk'[p] = onDisk[p]
      BY <1>0, <3>1 DEF ReadIsKnown, Exists
    <3>2. CASE onDisk'[p] = [text |-> Restored(c, p), at |-> Stamp]
      BY <1>0, <3>2, NewStampUnread
    <3> QED BY <2>4, <3>1, <3>2
  <2>12. BeforeIsKept'
    BY <1>0, <2>0, <2>1, <2>3 DEF BeforeIsKept
  <2>13. VersionsGrow'
    <3> SUFFICES ASSUME NEW m \in 1 .. n, NEW q \in Paths
                 PROVE  /\ snapshots[m].version[q] <= tracked'[q]
                        /\ \A i \in 1 .. m : snapshots[i].version[q] <= snapshots[m].version[q]
      <4>1. \A j \in 1 .. n : \A i \in 1 .. j : i \in 1 .. n
        BY SMT
      <4> QED BY <2>8, <4>1 DEF VersionsGrow
    <3>1. m \in 1 .. Len(snapshots)
      BY <1>0, SMT DEF FileTypes
    <3>2. snapshots[m].version[q] <= c.version[q] /\ snapshots[m].version[q] <= tracked[q]
      BY <1>0, <3>1 DEF VersionsGrow
    <3> QED BY <1>0, <2>1, <3>1, <3>2 DEF VersionsGrow
  <2>14. CheckpointsStand'
    <3> SUFFICES ASSUME NEW m \in 1 .. n, NEW q \in Paths, snapshots[m].version[q] > 0
                 PROVE  \/ snapshots[m].text[q] = NoFile \/ q \in snapshots[m].reused
                        \/ Restored(snapshots[m], q) = snapshots[m].text[q]
      BY <2>0, <2>8 DEF CheckpointsStand, Restored
    <3>1. m \in 1 .. Len(snapshots)
      BY <1>0, SMT DEF FileTypes
    <3> QED BY <1>0, <3>1 DEF CheckpointsStand
  <2> QED BY <1>0, <2>0, <2>10, <2>11, <2>12, <2>13, <2>14 DEF FilesInv, NothingUnseenReplaced
<1>7. CASE NewHistory
  <2>1. /\ tracked' = [p \in Paths |-> 0] /\ backups' = <<>> /\ snapshots' = <<>> /\ reused' = {}
        /\ UNCHANGED <<onDisk, readAt, knows, before, clobbered>>
    BY <1>7 DEF NewHistory
  <2>2. FileTypes'
    BY <1>0, <2>1, SMT DEF FileTypes
  <2>3. Len(snapshots') = 0
    BY <2>1
  <2>4. VersionsGrow' /\ CheckpointsStand' /\ BeforeIsKept'
    BY <2>1, <2>3, SMT DEF VersionsGrow, CheckpointsStand, BeforeIsKept
  <2> QED BY <1>0, <2>1, <2>2, <2>4 DEF FilesInv, NothingUnseenReplaced, ReadIsKnown, Exists
<1>8. CASE UNCHANGED fileVars
  <2>1. FileTypes' /\ ReadIsKnown' /\ NothingUnseenReplaced'
    BY <1>0, <1>8 DEF fileVars, FileTypes, ReadIsKnown, NothingUnseenReplaced, Exists
  <2>2. BeforeIsKept' /\ VersionsGrow' /\ CheckpointsStand'
    BY <1>8, HistoryKept DEF fileVars
  <2> QED BY <2>1, <2>2 DEF FilesInv
<1> QED BY <1>1, <1>2, <1>3, <1>4, <1>5, <1>6, <1>7, <1>8 DEF FilesNext

LEMMA FilesInvGives == FilesInv => FilesTypeOK /\ NothingUnseenReplaced /\ CheckpointsStand
BY DEF FilesInv, FileTypes, FilesTypeOK

-----------------------------------------------------------------------------
(* Recalled memories.  A search leaves out what its session has been told,   *)
(* which does not change before its result is used; each use needs a request. *)
Search == [known : SUBSET Memories, from : Talks \cup {"none"}, into : Talks \cup {"none"}]

RecallTypes ==
  /\ recall \in Search
  /\ surfaced \in [Talks -> SUBSET Memories] /\ slipped \subseteq Memories
  /\ tellings \in [Talks -> [Memories -> Nat]] /\ inSession \in Talks /\ sends \in 0..MaxSends

Underway == IF recall.from # "none" THEN 1 ELSE 0

RecallInv ==
  /\ RecallTypes
  /\ recall.into # "none" => recall.from # "none"
  /\ recall.from # "none" => recall.known = surfaced[recall.from]
  /\ \A s \in Talks, m \in Memories : /\ tellings[s][m] + Underway <= sends
                                      /\ tellings[s][m] > 0 => m \in surfaced[s]
  /\ Underway <= sends
  /\ ToldOnce

LEMMA RecallInvInit == RecallInit => RecallInv
<1> SUFFICES ASSUME RecallInit PROVE RecallInv
  OBVIOUS
<1>1. inSession \in Talks
  BY RecallAssumption, Zenon DEF RecallInit
<1>2. recall \in Search /\ Underway = 0
  BY DEF RecallInit, NoRecall, Search, Underway
<1>3. sends = 0 /\ sends \in 0..MaxSends /\ recall.from = "none" /\ recall.into = "none"
  BY RecallAssumption, SMT DEF RecallInit, NoRecall
<1>4. /\ surfaced \in [Talks -> SUBSET Memories] /\ slipped \subseteq Memories
      /\ tellings \in [Talks -> [Memories -> Nat]]
      /\ \A s \in Talks, m \in Memories : tellings[s][m] = 0
  BY DEF RecallInit
<1> QED BY <1>1, <1>2, <1>3, <1>4 DEF RecallInv, RecallTypes, ToldOnce

LEMMA SearchBound ==
  ASSUME NEW r \in Search, NEW s \in Talks
  PROVE  LET q == [r EXCEPT !.into = s]
         IN  q \in Search /\ q.from = r.from /\ q.known = r.known /\ q.into = s
BY DEF Search

LEMMA RecallInvNext == RecallInv /\ [RecallNext]_recallVars => RecallInv'
<1> SUFFICES ASSUME RecallInv, [RecallNext]_recallVars PROVE RecallInv'
  OBVIOUS
<1>0. /\ RecallTypes /\ ToldOnce /\ MaxSends \in Nat /\ Underway \in {0, 1}
      /\ \A s \in Talks, m \in Memories : tellings[s][m] \in Nat
  BY RecallAssumption DEF RecallInv, RecallTypes, Underway
<1>1. CASE SendAsked
  <2>1. /\ sends < MaxSends /\ sends' = sends + 1
        /\ recall' = [known |-> surfaced[inSession], from |-> inSession, into |-> "none"]
        /\ UNCHANGED <<surfaced, tellings, slipped, inSession>>
    BY <1>1 DEF SendAsked, Known
  <2>2. /\ recall' \in Search /\ recall'.from = inSession /\ recall'.into = "none"
        /\ recall'.known = surfaced[inSession]
    BY <1>0, <2>1 DEF Search, RecallTypes
  <2>3. sends' \in 0..MaxSends /\ sends' = sends + 1 /\ sends \in Nat
    BY <1>0, <2>1, SMT DEF RecallTypes
  <2>4. Underway' \in {0, 1}
    BY DEF Underway
  <2>5. \A s \in Talks, m \in Memories : tellings[s][m] + Underway' <= sends'
    BY <1>0, <2>3, <2>4, SMT DEF RecallInv
  <2>6. RecallTypes'
    BY <1>0, <2>1, <2>2, <2>3 DEF RecallTypes
  <2>7. Underway' <= sends'
    BY <2>3, <2>4, SMT
  <2>8. \A s \in Talks, m \in Memories : tellings[s][m] > 0 => m \in surfaced[s]
    BY DEF RecallInv
  <2> QED BY <1>0, <2>1, <2>2, <2>5, <2>6, <2>7, <2>8 DEF RecallInv, ToldOnce
<1>2. CASE RunBound
  <2>1. /\ recall.from # "none" /\ recall' = [recall EXCEPT !.into = inSession]
        /\ UNCHANGED <<surfaced, tellings, slipped, inSession, sends>>
    BY <1>2 DEF RunBound
  <2>2. recall' \in Search /\ recall'.from = recall.from /\ recall'.known = recall.known
    BY <1>0, <2>1, SearchBound DEF RecallTypes
  <2>3. Underway' = Underway
    BY <2>2 DEF Underway
  <2> QED BY <1>0, <2>1, <2>2, <2>3 DEF RecallInv, RecallTypes, ToldOnce
<1>3. ASSUME NEW found \in Chosen, Recalled(found) PROVE RecallInv'
  <2> DEFINE i == recall.into
             t == [m \in Memories |-> tellings[i][m] + IF m \in found THEN 1 ELSE 0]
  <2>1. /\ i # "none" /\ i \in Talks
        /\ surfaced' = [surfaced EXCEPT ![i] = surfaced[i] \cup found]
        /\ slipped' = IF recall.from = i THEN slipped ELSE slipped \cup found
        /\ recall' = NoRecall
        /\ UNCHANGED <<inSession, sends>>
    BY <1>0, <1>3 DEF Recalled, Marked, RecallTypes, Search
  <2>2. tellings' = [tellings EXCEPT ![i] = t]
    BY <1>3, Zenon DEF Recalled
  <2>3. t \in [Memories -> Nat] /\ \A m \in Memories : t[m] = tellings[i][m] + IF m \in found THEN 1 ELSE 0
    BY <1>0, <2>1, SMT DEF RecallTypes
  <2> HIDE DEF t
  <2>4. /\ tellings' \in [Talks -> [Memories -> Nat]] /\ tellings'[i] = t
        /\ \A s \in Talks \ {i} : tellings'[s] = tellings[s]
    BY <1>0, <2>1, <2>2, <2>3, Assigned DEF RecallTypes
  <2>5. found \subseteq Memories /\ found \cap recall.known = {}
    BY DEF Chosen, Candidates
  <2>6. /\ surfaced' \in [Talks -> SUBSET Memories] /\ surfaced'[i] = surfaced[i] \cup found
        /\ \A s \in Talks \ {i} : surfaced'[s] = surfaced[s]
    BY <1>0, <2>1, <2>5 DEF RecallTypes
  <2>7. recall' \in Search /\ recall'.from = "none" /\ recall'.into = "none" /\ Underway' = 0
    BY <2>1 DEF NoRecall, Search, Underway
  <2>8. Underway = 1 /\ sends \in Nat /\ recall.from # "none"
    BY <1>0, <2>1 DEF RecallInv, Underway, RecallTypes
  <2>9. RecallTypes'
    BY <1>0, <2>1, <2>4, <2>5, <2>6, <2>7 DEF RecallTypes
  <2>10. \A s \in Talks, m \in Memories : /\ tellings'[s][m] <= sends
                                          /\ tellings'[s][m] > 0 => m \in surfaced'[s]
    <3> SUFFICES ASSUME NEW s \in Talks, NEW m \in Memories
                 PROVE  tellings'[s][m] <= sends /\ (tellings'[s][m] > 0 => m \in surfaced'[s])
      OBVIOUS
    <3>1. tellings[s][m] + 1 <= sends /\ (tellings[s][m] > 0 => m \in surfaced[s])
      BY <2>8 DEF RecallInv
    <3>2. CASE s = i
      BY <1>0, <2>3, <2>4, <2>6, <2>8, <3>1, <3>2, SMT
    <3>3. CASE s # i
      BY <1>0, <2>4, <2>6, <2>8, <3>1, <3>3, SMT
    <3> QED BY <3>2, <3>3
  <2>11. ToldOnce'
    <3> SUFFICES ASSUME NEW s \in Talks, NEW m \in Memories, m \notin slipped' PROVE tellings'[s][m] <= 1
      BY DEF ToldOnce
    <3>1. m \notin slipped /\ tellings[s][m] <= 1
      BY <1>0, <2>1 DEF ToldOnce
    <3>2. CASE s = i /\ m \in found
      <4>1. recall.from = i /\ m \notin surfaced[i]
        BY <2>1, <2>5, <2>8, <3>2 DEF RecallInv
      <4>2. ~(tellings[i][m] > 0)
        BY <2>1, <4>1 DEF RecallInv
      <4> QED BY <1>0, <2>1, <2>3, <2>4, <3>2, <4>2, SMT
    <3>3. CASE ~(s = i /\ m \in found)
      BY <1>0, <2>1, <2>3, <2>4, <3>1, <3>3, SMT
    <3> QED BY <3>2, <3>3
  <2> QED BY <1>0, <2>1, <2>4, <2>7, <2>8, <2>9, <2>10, <2>11, SMT DEF RecallInv, RecallTypes
<1>4. ASSUME NEW s \in Talks, TurnToSession(s) PROVE RecallInv'
  BY <1>4 DEF TurnToSession, RecallInv, RecallTypes, ToldOnce, Underway
<1>5. CASE UNCHANGED recallVars
  BY <1>5 DEF recallVars, RecallInv, RecallTypes, ToldOnce, Underway
<1> QED BY <1>1, <1>2, <1>3, <1>4, <1>5 DEF RecallNext

LEMMA RecallInvGives == RecallInv => RecallTypeOK /\ ToldOnce
<1> SUFFICES ASSUME RecallInv PROVE RecallTypeOK /\ ToldOnce
  OBVIOUS
<1>1. RecallTypes /\ ToldOnce /\ MaxSends \in Nat
  BY RecallAssumption DEF RecallInv
<1>2. \A s \in Talks, m \in Memories : tellings[s][m] \in 0..MaxSends
  <2> SUFFICES ASSUME NEW s \in Talks, NEW m \in Memories PROVE tellings[s][m] \in 0..MaxSends
    OBVIOUS
  <2>1. tellings[s][m] + Underway <= sends /\ Underway \in {0, 1} /\ tellings[s][m] \in Nat
        /\ sends \in 0..MaxSends
    BY <1>1 DEF RecallInv, Underway, RecallTypes
  <2> QED BY <1>1, <2>1, SMT
<1>3. tellings \in [Talks -> [Memories -> 0..MaxSends]]
  BY <1>1, <1>2 DEF RecallTypes
<1> QED BY <1>1, <1>3 DEF RecallTypeOK, RecallTypes, Search

-----------------------------------------------------------------------------
(* The terminal.  Unless something excuses it, no task but the one the       *)
(* screen shows is alive, and it works only while the flag is set.           *)
ScreenRow == [streaming : BOOLEAN, task : TurnTasks \cup {NoTurn}, mcp : BOOLEAN,
              input : {"idle", "superseding", "command"}, waits : TurnTasks \cup {NoTurn}]
TurnState == {"none", "created", "connecting", "running", "over"}

OneTurn == excuses \subseteq {"command"} =>
             LiveTurns \subseteq {screen.task} /\ (Working # {} => screen.streaming)

ToldIsKept == "command" \notin excuses => polled \subseteq inTalk

ScreenInv == ScreenTypeOK /\ OneTurn /\ ToldIsKept

LEMMA ScreenInvInit == ScreenInit => ScreenInv
<1> SUFFICES ASSUME ScreenInit PROVE ScreenInv
  OBVIOUS
<1>1. ScreenTypeOK
  BY DEF ScreenInit, ScreenTypeOK
<1>2. \A t \in TurnTasks : turns[t] = "none"
  BY DEF ScreenInit
<1>3. OneTurn
  BY <1>2 DEF OneTurn, LiveTurns, Working, Alive
<1> QED BY <1>1, <1>3 DEF ScreenInv, ToldIsKept, ScreenInit

LEMMA TurnNumbers == TurnTasks \subseteq Nat \ {0} /\ NoTurn \notin TurnTasks /\ MaxTurnsAsked \in Nat \ {0}
BY TerminalAssumption, SMT DEF TurnTasks, NoTurn

(* A non-empty set of tasks has a latest one. *)
LEMMA NewestOf ==
  ASSUME NEW S \in SUBSET TurnTasks, S # {}
  PROVE  Newest(S) \in S
<1> DEFINE bounds == {n \in Nat : \A u \in S : u <= n}
<1>0. S \subseteq Nat \ {0} /\ MaxTurnsAsked \in Nat
  BY TurnNumbers
<1>1. MaxTurnsAsked \in bounds
  BY <1>0, SMT DEF TurnTasks
<1>2. bounds \in SUBSET Nat
  OBVIOUS
<1>3. PICK m \in bounds : \A n \in bounds : m <= n
  <2> HIDE DEF bounds
  <2> QED BY <1>1, <1>2, LeastNumber
<1>4. m \in S
  <2> SUFFICES ASSUME m \notin S PROVE FALSE
    OBVIOUS
  <2>1. m \in Nat /\ \A u \in S : u <= m /\ u # m /\ u \in Nat /\ u > 0
    BY <1>0, <1>3
  <2>2. m > 0
    BY <2>1, SMT
  <2>3. m - 1 \in Nat /\ \A u \in S : u <= m - 1
    BY <2>1, <2>2, SMT
  <2>4. m - 1 \in bounds
    BY <2>3
  <2> QED BY <1>3, <2>1, <2>3, <2>4, SMT
<1>5. \A u \in S : u <= m
  BY <1>3
<1> QED BY <1>4, <1>5, Zenon DEF Newest

LEMMA OneNew ==
  ASSUME Room(1)
  PROVE  \E x \in TurnTasks : FirstNew(1) = {x} /\ turns[x] = "none" /\ Newest(FirstNew(1)) = x
<1>1. FirstNew(1) \subseteq TurnTasks /\ \A t \in FirstNew(1) : turns[t] = "none"
  BY DEF FirstNew
<1>2. IsFiniteSet(FirstNew(1))
  <2>1. IsFiniteSet(TurnTasks)
    BY TerminalAssumption, FS_Interval DEF TurnTasks
  <2> QED BY <1>1, <2>1, FS_Subset
<1>3. PICK x : FirstNew(1) = {x}
  BY <1>2, FS_Singleton DEF Room
<1>4. x \in TurnTasks /\ turns[x] = "none"
  BY <1>1, <1>3
<1>5. Newest(FirstNew(1)) \in {x}
  BY <1>3, <1>4, NewestOf
<1> QED BY <1>3, <1>4, <1>5

(* The records of the screen. *)
LEMMA ScreenWaits ==
  ASSUME NEW s \in ScreenRow, NEW x \in TurnTasks \cup {NoTurn}
  PROVE  LET q == [s EXCEPT !.input = "superseding", !.waits = x]
         IN  q \in ScreenRow /\ q.streaming = s.streaming /\ q.task = s.task
BY DEF ScreenRow

LEMMA ScreenStops ==
  ASSUME NEW s \in ScreenRow, NEW x \in TurnTasks \cup {NoTurn}
  PROVE  LET q == [s EXCEPT !.streaming = FALSE, !.task = x]
         IN  q \in ScreenRow /\ q.streaming = FALSE /\ q.task = x
BY DEF ScreenRow

LEMMA ScreenNewTurn ==
  ASSUME NEW s \in ScreenRow, NEW x \in TurnTasks
  PROVE  LET q == [s EXCEPT !.streaming = FALSE, !.task = x, !.input = "idle", !.waits = NoTurn]
         IN  q \in ScreenRow /\ q.streaming = FALSE /\ q.task = x
BY DEF ScreenRow

LEMMA ScreenStreams ==
  ASSUME NEW s \in ScreenRow
  PROVE  LET q == [s EXCEPT !.streaming = TRUE]
         IN  q \in ScreenRow /\ q.streaming = TRUE /\ q.task = s.task
BY DEF ScreenRow

LEMMA ScreenTask ==
  ASSUME NEW s \in ScreenRow, NEW x \in TurnTasks
  PROVE  LET q == [s EXCEPT !.task = x]
         IN  q \in ScreenRow /\ q.streaming = s.streaming /\ q.task = x
BY DEF ScreenRow

LEMMA ScreenMcp ==
  ASSUME NEW s \in ScreenRow
  PROVE  LET q == [s EXCEPT !.mcp = TRUE]
         IN  q \in ScreenRow /\ q.streaming = s.streaming /\ q.task = s.task
BY DEF ScreenRow

LEMMA ScreenInput ==
  ASSUME NEW s \in ScreenRow, NEW i \in {"idle", "command"}
  PROVE  LET q == [s EXCEPT !.input = i]
         IN  q \in ScreenRow /\ q.streaming = s.streaming /\ q.task = s.task
BY DEF ScreenRow

(* One task is created while no other is alive. *)
LEMMA TurnCreated ==
  ASSUME ScreenTypeOK, NEW S \in SUBSET TurnTasks, NewTasks(S)
  PROVE  /\ turns' \in [TurnTasks -> TurnState]
         /\ LiveTurns' \subseteq LiveTurns \cup S
         /\ Working' \subseteq Working
<1>1. turns \in [TurnTasks -> TurnState]
  BY DEF ScreenTypeOK, TurnState
<1>2. turns' = [t \in TurnTasks |-> IF t \in S THEN "created" ELSE turns[t]]
  BY DEF NewTasks
<1>3. turns' \in [TurnTasks -> TurnState]
  BY <1>1, <1>2 DEF TurnState
<1>4. \A t \in TurnTasks : turns'[t] = IF t \in S THEN "created" ELSE turns[t]
  BY <1>2
<1> QED BY <1>3, <1>4 DEF LiveTurns, Alive, Working

(* Where nothing is unflagged, a task that is alive works. *)
LEMMA AllWork ==
  ASSUME ScreenInv, excuses \subseteq {"command"}, Unflagged = {}
  PROVE  /\ LiveTurns = Working
         /\ Working # {} => screen.streaming /\ Alive(screen.task)
<1>1. LiveTurns = Working
  BY TurnNumbers DEF LiveTurns, Alive, Working, Unflagged
<1>2. Working \subseteq {screen.task}
  BY <1>1 DEF ScreenInv, OneTurn
<1> QED BY <1>1, <1>2 DEF ScreenInv, OneTurn, LiveTurns

(* A move of the screen that creates no task, and leaves what is told. *)
LEMMA ScreenStill ==
  ASSUME ScreenInv, turns' = turns, screen' \in ScreenRow, screen'.task = screen.task,
         screen'.streaming = screen.streaming, excuses' = excuses
  PROVE  OneTurn'
BY DEF ScreenInv, OneTurn, LiveTurns, Alive, Working

LEMMA ScreenInvNext == ScreenInv /\ [ScreenNext]_screenVars => ScreenInv'
<1> SUFFICES ASSUME ScreenInv, [ScreenNext]_screenVars PROVE ScreenInv'
  OBVIOUS
<1>0. /\ ScreenTypeOK /\ OneTurn /\ ToldIsKept /\ screen \in ScreenRow
      /\ turns \in [TurnTasks -> TurnState] /\ asked \subseteq TurnTasks
      /\ screen.task \in TurnTasks \cup {NoTurn}
      /\ finds \subseteq Found /\ polled \subseteq Found /\ inTalk \subseteq Found
      /\ snapshot \subseteq Found /\ excuses \subseteq Why
  BY DEF ScreenInv, ScreenTypeOK, ScreenRow, TurnState
<1>1. CASE Submit
  <2>1. UNCHANGED <<finds, inTalk, snapshot, polled>> /\ Room(1)
    BY <1>1 DEF Submit
  <2>2. CASE screen.streaming /\ Alive(screen.task)
    <3> DEFINE q == [screen EXCEPT !.input = "superseding", !.waits = screen.task]
    <3>1. asked' = asked \cup {screen.task} /\ screen' = q /\ UNCHANGED <<turns, excuses>>
      BY <1>1, <2>2, Zenon DEF Submit
    <3>2. q \in ScreenRow /\ q.streaming = screen.streaming /\ q.task = screen.task
      BY <1>0, ScreenWaits
    <3> HIDE DEF q
    <3>3. screen.task \in TurnTasks
      BY <1>0, <2>2 DEF Alive
    <3>4. OneTurn'
      BY <3>1, <3>2, ScreenStill
    <3> QED BY <1>0, <2>1, <3>1, <3>2, <3>3, <3>4
            DEF ScreenInv, ScreenTypeOK, ScreenRow, TurnState, ToldIsKept
  <2>3. CASE ~(screen.streaming /\ Alive(screen.task))
    <3>1. PICK x \in TurnTasks : FirstNew(1) = {x} /\ turns[x] = "none" /\ Newest(FirstNew(1)) = x
      BY <2>1, OneNew
    <3> DEFINE q == [screen EXCEPT !.streaming = FALSE, !.task = x]
    <3>2. /\ NewTasks(FirstNew(1)) /\ screen' = q /\ asked' = asked
          /\ excuses' = excuses \cup IF Unflagged = {} THEN {} ELSE {"flag not set yet"}
      BY <1>1, <2>3, <3>1, Zenon DEF Submit, Excused
    <3>3. q \in ScreenRow /\ q.streaming = FALSE /\ q.task = x
      BY <1>0, ScreenStops
    <3> HIDE DEF q
    <3>4. /\ turns' \in [TurnTasks -> TurnState] /\ LiveTurns' \subseteq LiveTurns \cup {x}
          /\ Working' \subseteq Working
      BY <1>0, <3>1, <3>2, TurnCreated
    <3>5. excuses' \subseteq Why
      BY <1>0, <3>2 DEF Why
    <3>6. OneTurn'
      <4> SUFFICES ASSUME excuses' \subseteq {"command"} PROVE LiveTurns' \subseteq {x} /\ Working' = {}
        BY <3>2, <3>3 DEF OneTurn
      <4>1. Unflagged = {} /\ excuses \subseteq {"command"}
        BY <3>2
      <4>2. LiveTurns = {} /\ Working = {}
        BY <2>3, <4>1, AllWork
      <4> QED BY <3>4, <4>2
    <3>7. ToldIsKept'
      BY <1>0, <2>1, <3>2 DEF ToldIsKept
    <3> QED BY <1>0, <2>1, <3>2, <3>3, <3>4, <3>5, <3>6, <3>7
            DEF ScreenInv, ScreenTypeOK, ScreenRow, TurnState
  <2> QED BY <2>2, <2>3
<1>2. CASE Superseded
  <2>1. UNCHANGED <<asked, finds, inTalk, snapshot, polled>> /\ Room(1)
    BY <1>2 DEF Superseded
  <2>2. PICK x \in TurnTasks : FirstNew(1) = {x} /\ turns[x] = "none" /\ Newest(FirstNew(1)) = x
    BY <2>1, OneNew
  <2> DEFINE q == [screen EXCEPT !.streaming = FALSE, !.task = x, !.input = "idle", !.waits = NoTurn]
  <2>3. /\ NewTasks(FirstNew(1)) /\ screen' = q
        /\ excuses' = excuses \cup IF LiveTurns = {} THEN {} ELSE {"new input met a notification"}
    BY <1>2, <2>2, Zenon DEF Superseded, Excused
  <2>4. q \in ScreenRow /\ q.streaming = FALSE /\ q.task = x
    BY <1>0, ScreenNewTurn
  <2> HIDE DEF q
  <2>5. /\ turns' \in [TurnTasks -> TurnState] /\ LiveTurns' \subseteq LiveTurns \cup {x}
        /\ Working' \subseteq Working
    BY <1>0, <2>2, <2>3, TurnCreated
  <2>6. excuses' \subseteq Why
    BY <1>0, <2>3 DEF Why
  <2>7. OneTurn'
    <3> SUFFICES ASSUME excuses' \subseteq {"command"} PROVE LiveTurns' \subseteq {x} /\ Working' = {}
      BY <2>3, <2>4 DEF OneTurn
    <3>1. LiveTurns = {}
      BY <2>3
    <3>2. Working \subseteq LiveTurns
      BY TurnNumbers DEF Working, LiveTurns, Alive
    <3> QED BY <2>5, <3>1, <3>2
  <2>8. ToldIsKept'
    BY <1>0, <2>1, <2>3 DEF ToldIsKept
  <2> QED BY <1>0, <2>1, <2>3, <2>4, <2>5, <2>6, <2>7, <2>8
          DEF ScreenInv, ScreenTypeOK, ScreenRow, TurnState
(* A task that was alive goes on, is over, or works while the flag is set. *)
<1>a. ASSUME NEW t \in TurnTasks, NEW s \in TurnState, turns' = [turns EXCEPT ![t] = s],
             s = "over" \/ Alive(t), screen' \in ScreenRow, screen'.task = screen.task,
             s = "running" => screen'.streaming, screen.streaming => screen'.streaming,
             asked' \subseteq asked, UNCHANGED <<finds, inTalk, snapshot, excuses, polled>>
      PROVE  ScreenInv'
  <2>1. /\ turns' \in [TurnTasks -> TurnState] /\ turns'[t] = s
        /\ \A u \in TurnTasks \ {t} : turns'[u] = turns[u]
    BY <1>0, <1>a, Assigned
  <2>2. LiveTurns' \subseteq LiveTurns
    BY <1>a, <2>1 DEF LiveTurns, Alive
  <2>3. Working' \subseteq Working \/ screen'.streaming
    BY <1>a, <2>1 DEF Working
  <2>4. OneTurn'
    BY <1>0, <1>a, <2>2, <2>3 DEF OneTurn
  <2> QED BY <1>0, <1>a, <2>1, <2>4 DEF ScreenInv, ScreenTypeOK, ScreenRow, TurnState, ToldIsKept
<1>3. ASSUME NEW t \in TurnTasks, TurnBegins(t) PROVE ScreenInv'
  <2>1. /\ turns[t] = "created" /\ Alive(t)
        /\ UNCHANGED <<asked, finds, inTalk, snapshot, excuses, polled>>
    BY <1>3, TurnNumbers DEF TurnBegins, Alive
  <2> DEFINE q == [screen EXCEPT !.streaming = TRUE]
  <2>2. q \in ScreenRow /\ q.streaming = TRUE /\ q.task = screen.task
    BY <1>0, ScreenStreams
  <2>3. \/ turns' = [turns EXCEPT ![t] = "running"] /\ screen' = q
        \/ turns' = [turns EXCEPT ![t] = "connecting"] /\ screen' = screen
    BY <1>3, Zenon DEF TurnBegins
  <2> HIDE DEF q
  <2>4. CASE turns' = [turns EXCEPT ![t] = "running"] /\ screen' = q
    BY <1>a, <2>1, <2>2, <2>4 DEF TurnState
  <2>5. CASE turns' = [turns EXCEPT ![t] = "connecting"] /\ screen' = screen
    BY <1>0, <1>a, <2>1, <2>5 DEF TurnState
  <2> QED BY <2>3, <2>4, <2>5
<1>4. ASSUME NEW t \in TurnTasks, TurnConnected(t) PROVE ScreenInv'
  <2> DEFINE q == [screen EXCEPT !.streaming = TRUE]
  <2>1. /\ Alive(t) /\ UNCHANGED <<asked, finds, inTalk, snapshot, excuses, polled>>
        /\ turns' = [turns EXCEPT ![t] = "running"] /\ screen' = q
    BY <1>4, TurnNumbers, Zenon DEF TurnConnected, Alive
  <2>2. q \in ScreenRow /\ q.streaming = TRUE /\ q.task = screen.task
    BY <1>0, ScreenStreams
  <2> HIDE DEF q
  <2> QED BY <1>a, <2>1, <2>2 DEF TurnState
<1>5. ASSUME NEW t \in TurnTasks, TurnNeverRan(t) PROVE ScreenInv'
  <2>1. /\ turns' = [turns EXCEPT ![t] = "over"] /\ asked' = asked \ {t}
        /\ UNCHANGED <<screen, finds, inTalk, snapshot, excuses, polled>>
    BY <1>5 DEF TurnNeverRan
  <2> QED BY <1>0, <1>a, <2>1 DEF TurnState
<1>6. CASE ScreenConnected
  <2> DEFINE q == [screen EXCEPT !.mcp = TRUE]
  <2>1. screen' = q /\ UNCHANGED <<turns, asked, finds, inTalk, snapshot, excuses, polled>>
    BY <1>6 DEF ScreenConnected
  <2>2. q \in ScreenRow /\ q.streaming = screen.streaming /\ q.task = screen.task
    BY <1>0, ScreenMcp
  <2> HIDE DEF q
  <2>3. OneTurn'
    BY <2>1, <2>2, ScreenStill
  <2> QED BY <1>0, <2>1, <2>2, <2>3 DEF ScreenInv, ScreenTypeOK, ScreenRow, TurnState, ToldIsKept
<1>7. ASSUME NEW t \in TurnTasks, TurnEnds(t) PROVE ScreenInv'
  <2>0. turns[t] = "running" /\ asked' = asked \ {t} /\ snapshot' = snapshot /\ t \in Working
    BY <1>7 DEF TurnEnds, Working
  <2>a. excuses \subseteq {"command"} => LiveTurns \subseteq {t}
    <3>1. t \in LiveTurns
      BY <2>0, TurnNumbers DEF LiveTurns, Alive
    <3> QED BY <1>0, <3>1 DEF OneTurn
  <2>1. CASE Completed = {}
    <3> DEFINE q == [screen EXCEPT !.streaming = FALSE, !.task = NoTurn]
    <3>1. /\ turns' = [turns EXCEPT ![t] = "over"] /\ screen' = q
          /\ UNCHANGED <<finds, polled, inTalk, excuses>>
      BY <1>7, <2>1, Zenon DEF TurnEnds
    <3>2. q \in ScreenRow
      BY <1>0, ScreenStops
    <3> HIDE DEF q
    <3>3. /\ turns' \in [TurnTasks -> TurnState] /\ turns'[t] = "over"
          /\ \A u \in TurnTasks \ {t} : turns'[u] = turns[u]
      BY <1>0, <3>1, Assigned DEF TurnState
    <3>4. excuses \subseteq {"command"} => LiveTurns' = {} /\ Working' = {}
      <4>1. LiveTurns' \subseteq LiveTurns \ {t} /\ Working' \subseteq LiveTurns'
        BY <3>3, TurnNumbers DEF LiveTurns, Alive, Working
      <4> QED BY <2>a, <4>1
    <3>5. OneTurn'
      BY <3>1, <3>4 DEF OneTurn
    <3> QED BY <1>0, <2>0, <3>1, <3>2, <3>3, <3>5
            DEF ScreenInv, ScreenTypeOK, ScreenRow, TurnState, ToldIsKept
  <2>2. CASE Completed # {}
    <3>0. Room(1)
      BY <1>7, <2>2 DEF TurnEnds
    <3>1. PICK x \in TurnTasks : FirstNew(1) = {x} /\ turns[x] = "none" /\ Newest(FirstNew(1)) = x
      BY <3>0, OneNew
    <3> DEFINE q == [screen EXCEPT !.streaming = FALSE, !.task = x]
    <3>2. /\ turns' = [u \in TurnTasks |-> IF u = t THEN "over"
                                           ELSE IF u \in {x} THEN "created" ELSE turns[u]]
          /\ screen' = q
          /\ finds' = finds \ Completed /\ polled' = polled \cup Completed
          /\ inTalk' = inTalk \cup Completed
          /\ excuses' = excuses \cup IF Unflagged = {} THEN {} ELSE {"flag not set yet"}
      BY <1>7, <2>2, <3>1, Zenon DEF TurnEnds, Taken, Excused
    <3>3. q \in ScreenRow /\ q.task = x
      BY <1>0, ScreenStops
    <3> HIDE DEF q
    <3>4. /\ turns' \in [TurnTasks -> TurnState]
          /\ \A u \in TurnTasks : turns'[u] = IF u = t THEN "over"
                                              ELSE IF u = x THEN "created" ELSE turns[u]
      BY <1>0, <3>2 DEF TurnState
    <3>5. LiveTurns' \subseteq (LiveTurns \ {t}) \cup {x} /\ Working' \subseteq LiveTurns \ {t}
      BY <3>4, TurnNumbers DEF LiveTurns, Alive, Working
    <3>6. OneTurn'
      BY <2>a, <3>2, <3>3, <3>5 DEF OneTurn
    <3>7. Completed \subseteq finds /\ excuses' \subseteq Why
      BY <1>0, <3>2 DEF Completed, Why
    <3>8. ToldIsKept'
      BY <1>0, <3>2 DEF ToldIsKept
    <3> QED BY <1>0, <2>0, <3>2, <3>3, <3>4, <3>6, <3>7, <3>8
            DEF ScreenInv, ScreenTypeOK, ScreenRow, TurnState
  <2> QED BY <2>1, <2>2
<1>8. CASE CancelPressed
  <2>1. /\ asked' = asked \cup {screen.task} /\ screen.task \in TurnTasks
        /\ UNCHANGED <<screen, turns, finds, inTalk, snapshot, excuses, polled>>
    BY <1>0, <1>8 DEF CancelPressed, Alive
  <2>2. OneTurn'
    BY <1>0, <2>1, ScreenStill
  <2> QED BY <1>0, <2>1, <2>2 DEF ScreenInv, ScreenTypeOK, ScreenRow, TurnState, ToldIsKept
<1>9. CASE Tick
  <2> DEFINE n == (IF Completed # {} THEN 1 ELSE 0) + (IF Notes # {} THEN 1 ELSE 0)
             S == FirstNew(n)
             x == Newest(S)
             q == [screen EXCEPT !.task = x]
  <2>1. /\ ~screen.streaming /\ finds # {} /\ Room(n) /\ NewTasks(S) /\ screen' = q
        /\ excuses' = excuses \cup ((IF n = 2 THEN {"poll found both"} ELSE {})
                                    \cup (IF Unflagged = {} THEN {} ELSE {"flag not set yet"}))
        /\ finds' = finds \ finds /\ polled' = polled \cup finds /\ inTalk' = inTalk \cup finds
        /\ asked' = asked /\ snapshot' = snapshot
    BY <1>9, Zenon DEF Tick, Taken, Excused
  <2>2. n \in {1, 2}
    <3>1. \A f \in finds : f \in Completed \/ f \in Notes
      BY <1>0 DEF Completed, Notes, Found
    <3>2. finds # {}
      BY <2>1
    <3>3. Completed # {} \/ Notes # {}
      BY <3>1, <3>2, Zenon
    <3> QED BY <3>3
  <2>3. excuses' \subseteq Why
    BY <1>0, <2>1 DEF Why
  <2>4. S \subseteq TurnTasks /\ S # {}
    <3>1. S \subseteq TurnTasks
      BY DEF FirstNew
    <3>2. Cardinality(S) = n
      BY <2>1 DEF Room
    <3>3. Cardinality({}) = 0
      BY FS_EmptySet
    <3> HIDE DEF S, n
    <3> QED BY <2>2, <3>1, <3>2, <3>3
  <2>5. x \in S
    <3> HIDE DEF S, n
    <3> QED BY <2>4, NewestOf
  <2>6. q \in ScreenRow /\ q.streaming = screen.streaming /\ q.task = x
    <3>1. x \in TurnTasks
      BY <2>4, <2>5
    <3> HIDE DEF x
    <3> QED BY <1>0, <3>1, ScreenTask
  <2>7. /\ turns' \in [TurnTasks -> TurnState] /\ LiveTurns' \subseteq LiveTurns \cup S
        /\ Working' \subseteq Working
    <3> HIDE DEF S
    <3> QED BY <1>0, <2>1, <2>4, TurnCreated
  <2>8. OneTurn'
    <3> SUFFICES ASSUME excuses' \subseteq {"command"} PROVE LiveTurns' \subseteq {x} /\ Working' = {}
      BY <2>1, <2>6 DEF OneTurn
    <3>1. n # 2 /\ Unflagged = {} /\ excuses \subseteq {"command"}
      <4> HIDE DEF n, S, x, q
      <4> QED BY <2>1
    <3>2. LiveTurns = {} /\ Working = {}
      BY <2>1, <3>1, AllWork
    <3>3. \E y \in TurnTasks : S = {y}
      <4>1. n = 1
        BY <2>2, <3>1
      <4>2. Room(n) /\ S = FirstNew(n)
        BY <2>1
      <4> HIDE DEF n, S
      <4>3. Room(1) /\ S = FirstNew(1)
        BY <4>1, <4>2
      <4>4. \E y \in TurnTasks : FirstNew(1) = {y} /\ turns[y] = "none" /\ Newest(FirstNew(1)) = y
        BY <4>3, OneNew
      <4> QED BY <4>3, <4>4
    <3>4. S = {x}
      <4> HIDE DEF S, x
      <4> QED BY <2>5, <3>3
    <3> QED BY <2>7, <3>2, <3>4
  <2>9. ToldIsKept'
    <3> HIDE DEF n, S, x, q
    <3> QED BY <1>0, <2>1 DEF ToldIsKept
  <2> HIDE DEF n, S, x, q
  <2> QED BY <1>0, <2>1, <2>3, <2>6, <2>7, <2>8, <2>9 DEF ScreenInv, ScreenTypeOK, ScreenRow, TurnState
<1>10. CASE CommandBegins
  <2> DEFINE q == [screen EXCEPT !.input = "command"]
  <2>1. /\ screen' = q /\ snapshot' = inTalk
        /\ UNCHANGED <<turns, asked, finds, inTalk, excuses, polled>>
    BY <1>10 DEF CommandBegins
  <2>2. q \in ScreenRow /\ q.streaming = screen.streaming /\ q.task = screen.task
    BY <1>0, ScreenInput
  <2> HIDE DEF q
  <2>3. OneTurn'
    BY <2>1, <2>2, ScreenStill
  <2> QED BY <1>0, <2>1, <2>2, <2>3 DEF ScreenInv, ScreenTypeOK, ScreenRow, TurnState, ToldIsKept
<1>11. CASE CommandEnds
  <2> DEFINE q == [screen EXCEPT !.input = "idle"]
  <2>1. /\ screen' = q /\ inTalk' = snapshot /\ snapshot' = {}
        /\ excuses' = excuses \cup IF inTalk = snapshot THEN {} ELSE {"command"}
        /\ UNCHANGED <<turns, asked, finds, polled>>
    BY <1>11 DEF CommandEnds, Excused
  <2>2. q \in ScreenRow /\ q.streaming = screen.streaming /\ q.task = screen.task
    BY <1>0, ScreenInput
  <2> HIDE DEF q
  <2>3. OneTurn'
    <3>1. excuses' \subseteq {"command"} => excuses \subseteq {"command"}
      BY <2>1
    <3> QED BY <1>0, <2>1, <2>2, <3>1 DEF OneTurn, LiveTurns, Alive, Working
  <2>4. excuses' \subseteq Why /\ ToldIsKept'
    BY <1>0, <2>1 DEF Why, ToldIsKept
  <2> QED BY <1>0, <2>1, <2>2, <2>3, <2>4 DEF ScreenInv, ScreenTypeOK, ScreenRow, TurnState
<1>12. CASE Outside
  <2>1. /\ finds' \subseteq Found
        /\ UNCHANGED <<screen, turns, asked, inTalk, snapshot, excuses, polled>>
    BY <1>0, <1>12 DEF Outside
  <2>2. OneTurn'
    BY <1>0, <2>1, ScreenStill
  <2> QED BY <1>0, <2>1, <2>2 DEF ScreenInv, ScreenTypeOK, ScreenRow, TurnState, ToldIsKept
<1>13. CASE UNCHANGED screenVars
  BY <1>0, <1>13
     DEF screenVars, ScreenInv, ScreenTypeOK, OneTurn, ToldIsKept, LiveTurns, Alive, Working
<1> QED BY <1>1, <1>2, <1>3, <1>4, <1>5, <1>6, <1>7, <1>8, <1>9, <1>10, <1>11, <1>12, <1>13
        DEF ScreenNext

LEMMA ScreenInvGives == ScreenInv => ScreenTypeOK /\ ScreenTellsTheTruth
<1> SUFFICES ASSUME ScreenInv PROVE ScreenTellsTheTruth
  BY DEF ScreenInv
<1>1. ASSUME excuses \subseteq {"command"}
      PROVE  Cardinality(Working) <= 1 /\ \A t \in Working : screen.streaming /\ screen.task = t
  <2>1. Working \subseteq {screen.task} /\ (Working # {} => screen.streaming)
    BY <1>1, TurnNumbers DEF ScreenInv, OneTurn, Working, LiveTurns, Alive
  <2>2. Working = {} \/ Working = {screen.task}
    BY <2>1
  <2>3. Cardinality(Working) <= 1
    BY <2>2, FS_EmptySet, FS_Singleton, SMT
  <2> QED BY <2>1, <2>3
<1> QED BY <1>1 DEF ScreenInv, ToldIsKept, ScreenTellsTheTruth

-----------------------------------------------------------------------------
(* The browsers' front end.  A request runs exactly while the front end says *)
(* so; an answer names a plan that was shown; a completion that happened is   *)
(* at one place; and what a compaction has summarised is still in its         *)
(* conversation while that is in use.                                         *)
PlanOf == [id : Nat, text : 0 .. MaxEdits]
FrontRow == [run : Runners \cup {NoRunner}, session : RemoteSessions, planning : BOOLEAN,
             plan : PlanOf, shows : 0 .. MaxEdits, cancelled : BOOLEAN]
Stages == {"unused", "spawned", "run", "announced", "compacting", "over"}
RequestRow == [kind : RemoteKinds, names : Nat, at : Stages]
KeptRow == [live : BOOLEAN, of : SUBSET Completions]
Reasons == {"busy", "compacted", "dropped", "other session", "poller ended"}

RemoteTypes ==
  /\ front \in FrontRow
  /\ request \in [RemoteRequests -> RequestRow]
  /\ planFile \in 0 .. MaxEdits
  /\ pending \subseteq Runners /\ kept \in KeptRow
  /\ words \cup taken \cup DOMAIN waiting \cup kept.of \subseteq ended
  /\ ended \subseteq Completions
  /\ gone \subseteq [what : ended, why : Reasons]
  /\ shown \in Seq(0 .. MaxEdits) /\ Len(shown) = front.shows
  /\ DOMAIN carried \subseteq RemoteRequests

RunsMatch ==
  /\ pending \subseteq {front.run} \ {NoRunner}
  /\ \A r \in RemoteRequests : request[r].at = "run" <=> front.run = r
  /\ \A r \in RemoteRequests : request[r].names <= front.shows

PlansMatch ==
  /\ \A r \in DOMAIN carried :
       /\ request[r].at \in {"run", "over"} /\ request[r].names \in 1 .. front.shows
       /\ carried[r] = [id |-> request[r].names, text |-> shown[request[r].names]]
       /\ front.plan # NoPlan => front.plan.id # request[r].names
  /\ front.plan # NoPlan => /\ front.plan.id \in 1 .. front.shows
                            /\ front.plan.text = shown[front.plan.id]
  /\ \A r, q \in DOMAIN carried : carried[r].id = carried[q].id => r = q

(* The places of a completion. *)
Held == words \cup taken \cup DOMAIN waiting
Apart == /\ words \cap taken = {} /\ words \cap DOMAIN waiting = {}
         /\ taken \cap DOMAIN waiting = {}
OnePlace ==
  /\ Apart
  /\ \A g \in gone : g.what \notin Held
  /\ \A g, h \in gone : g.what = h.what => g = h
  /\ \A c \in ended : c \in Held \/ \E g \in gone : g.what = c

Summarised ==
  /\ \A r, q \in RemoteRequests :
       request[r].at = "compacting" /\ request[q].at = "compacting" => r = q
  /\ kept.live => kept.of \subseteq words

(* Nothing is busy before a client has asked for something. *)
Used == \E r \in RemoteRequests : request[r].at # "unused"
BusyForAReason ==
  /\ front.planning \/ front.plan # NoPlan => Used
  /\ \A g \in gone : g.why = "busy" => Used
  /\ taken # {} => front.run # Poller

RemoteInv == RemoteTypes /\ RunsMatch /\ PlansMatch /\ OnePlace /\ Summarised /\ BusyForAReason

LEMMA RemoteNames ==
  /\ Poller \notin RemoteRequests /\ NoRunner \notin RemoteRequests /\ NoRunner # Poller
  /\ MaxEdits \in Nat \ {0} /\ 1 \in RemoteSessions /\ Runners = RemoteRequests \cup {Poller}
BY RemoteAssumption DEF Runners

LEMMA RemoteInvInit == RemoteInit => RemoteInv
<1> SUFFICES ASSUME RemoteInit PROVE RemoteInv
  OBVIOUS
<1> USE RemoteNames DEF completionVars
<1>1. /\ \A r \in RemoteRequests : request[r].at = "unused" /\ request[r].names = 0
      /\ request \in [RemoteRequests -> RequestRow]
  BY DEF RemoteInit, RequestRow, RemoteKinds, Stages
<1>2. /\ front.run = NoRunner /\ front.planning = FALSE /\ front.plan = NoPlan
      /\ front.shows = 0 /\ front \in FrontRow
  <2>1. NoPlan \in PlanOf
    BY SMT DEF NoPlan, PlanOf
  <2> QED BY <2>1, SMT DEF RemoteInit, FrontRow
<1>3. /\ words = {} /\ ended = {} /\ kept = Nothing /\ kept \in KeptRow
      /\ DOMAIN waiting = {} /\ DOMAIN carried = {} /\ taken = {} /\ gone = {} /\ pending = {}
      /\ shown = <<>> /\ planFile = 0
  BY SMT DEF RemoteInit, Nothing, KeptRow
<1>4. shown \in Seq(0 .. MaxEdits) /\ Len(shown) = 0
  BY <1>3
<1>5. RemoteTypes
  BY <1>1, <1>2, <1>3, <1>4, SMT DEF RemoteTypes, Nothing
<1>6. RunsMatch /\ PlansMatch
  BY <1>1, <1>2, <1>3 DEF RunsMatch, PlansMatch
<1>7. OnePlace
  BY <1>3 DEF OnePlace, Held, Apart
<1>8. Summarised
  BY <1>1, <1>3 DEF Summarised, Nothing
<1>9. BusyForAReason
  BY <1>2, <1>3 DEF BusyForAReason
<1> QED BY <1>5, <1>6, <1>7, <1>8, <1>9 DEF RemoteInv

(* The records of the front end. *)
LEMMA FrontRuns ==
  ASSUME NEW f \in FrontRow, NEW r \in Runners \cup {NoRunner}
  PROVE  LET q == [f EXCEPT !.run = r, !.cancelled = FALSE]
         IN  /\ q \in FrontRow /\ q.run = r /\ q.planning = f.planning
             /\ q.plan = f.plan /\ q.shows = f.shows
BY DEF FrontRow

LEMMA FrontPlans ==
  ASSUME NEW f \in FrontRow
  PROVE  LET q == [f EXCEPT !.planning = TRUE]
         IN  /\ q \in FrontRow /\ q.run = f.run /\ q.planning = TRUE
             /\ q.plan = f.plan /\ q.shows = f.shows
BY DEF FrontRow

LEMMA FrontCancelled ==
  ASSUME NEW f \in FrontRow
  PROVE  LET q == [f EXCEPT !.cancelled = TRUE]
         IN  /\ q \in FrontRow /\ q.run = f.run /\ q.planning = f.planning
             /\ q.plan = f.plan /\ q.shows = f.shows
BY DEF FrontRow

LEMMA FrontSwitches ==
  ASSUME NEW f \in FrontRow, NEW n \in RemoteSessions, NEW p \in PlanOf
  PROVE  LET q == [f EXCEPT !.session = n, !.plan = p]
         IN  /\ q \in FrontRow /\ q.run = f.run /\ q.planning = f.planning
             /\ q.plan = p /\ q.shows = f.shows
BY DEF FrontRow

LEMMA FrontAnswered ==
  ASSUME NEW f \in FrontRow, NEW p \in PlanOf
  PROVE  LET q == [f EXCEPT !.plan = p]
         IN  /\ q \in FrontRow /\ q.run = f.run /\ q.planning = f.planning
             /\ q.plan = p /\ q.shows = f.shows
BY DEF FrontRow

LEMMA NoPlanTyped == NoPlan \in PlanOf
BY RemoteNames, SMT DEF NoPlan, PlanOf

(* A request comes to a stage; an answer that had a plan carried out is kept.  *)
LEMMA ReachedEffect ==
  ASSUME RemoteTypes, NEW r \in RemoteRequests, NEW a \in Stages, Reached(r, a)
  PROVE  /\ request' \in [RemoteRequests -> RequestRow]
         /\ request'[r].at = a
         /\ request'[r].names \in {0, request[r].names}
         /\ r \in DOMAIN carried => request'[r].names = request[r].names
         /\ a # "over" => request'[r].names = request[r].names
         /\ \A q \in RemoteRequests \ {r} : request'[q] = request[q]
<1> DEFINE m == IF a = "over" /\ r \notin DOMAIN carried
                THEN [kind |-> "message", names |-> 0, at |-> a]
                ELSE [request[r] EXCEPT !.at = a]
<1>1. request' = [request EXCEPT ![r] = m]
  BY Zenon DEF Reached
<1>2. request \in [RemoteRequests -> RequestRow] /\ request[r] \in RequestRow
  BY DEF RemoteTypes
<1>3. /\ m \in RequestRow /\ m.at = a /\ m.names \in {0, request[r].names}
      /\ (r \in DOMAIN carried => m.names = request[r].names)
      /\ (a # "over" => m.names = request[r].names)
  <2>1. CASE a = "over" /\ r \notin DOMAIN carried
    BY <2>1 DEF RequestRow, RemoteKinds, Stages
  <2>2. CASE ~(a = "over" /\ r \notin DOMAIN carried)
    <3>1. [request[r] EXCEPT !.at = a] \in RequestRow
      BY <1>2 DEF RequestRow
    <3>2. [request[r] EXCEPT !.at = a].at = a /\ [request[r] EXCEPT !.at = a].names = request[r].names
      BY <1>2 DEF RequestRow
    <3> QED BY <2>2, <3>1, <3>2, Zenon
  <2> QED BY <2>1, <2>2
<1> HIDE DEF m
<1> QED BY <1>1, <1>2, <1>3, Assigned

(* Steps that leave completions and conversations alone. *)
LEMMA PlacesKept ==
  ASSUME OnePlace, UNCHANGED completionVars
  PROVE  OnePlace'
BY DEF OnePlace, Held, Apart, completionVars

(* Completions that are lost leave their place, and the reason is new. *)
LEMMA PlacesLost ==
  ASSUME RemoteTypes, OnePlace, NEW cs, NEW why \in Reasons, Lost(cs, why), cs \subseteq Held,
         Held' = Held \ cs, Apart', UNCHANGED ended
  PROVE  /\ OnePlace' /\ gone' \subseteq [what : ended, why : Reasons]
         /\ \A g \in gone' : g \in gone \/ g.why = why
<1>1. /\ \A g \in gone' : g \in gone \/ (g.what \in cs /\ g = [what |-> g.what, why |-> why])
      /\ gone \subseteq gone'
  BY DEF Lost
<1>2. cs \subseteq ended /\ gone \subseteq [what : ended, why : Reasons]
  BY DEF RemoteTypes, Held
<1>3. \A g \in gone' : g \in gone \/ g.why = why
  <2>1. ASSUME NEW g \in gone', g \notin gone PROVE g.why = why
    <3>1. g = [what |-> g.what, why |-> why]
      BY <2>1, <1>1
    <3> QED BY <3>1
  <2> QED BY <2>1
<1>4. gone' \subseteq [what : ended, why : Reasons]
  <2>1. ASSUME NEW g \in gone', g \notin gone PROVE g \in [what : ended, why : Reasons]
    <3>1. g.what \in ended /\ g = [what |-> g.what, why |-> why]
      BY <2>1, <1>1, <1>2
    <3> QED BY <3>1
  <2> QED BY <2>1, <1>2
<1>5. \A g \in gone : g.what \notin Held
  BY DEF OnePlace
<1>6. \A g \in gone' : g.what \notin Held'
  BY <1>1, <1>5
<1>7. \A g, h \in gone' : g.what = h.what => g = h
  <2>1. \A g, h \in gone : g.what = h.what => g = h
    BY DEF OnePlace
  <2> QED BY <1>1, <1>5, <2>1
<1>8. \A c \in ended' : c \in Held' \/ \E g \in gone' : g.what = c
  <2>1. ASSUME NEW c \in ended, c \notin Held' PROVE \E g \in gone' : g.what = c
    <3>1. CASE c \in cs
      <4>1. [what |-> c, why |-> why] \in gone'
        BY <3>1 DEF Lost
      <4> QED BY <4>1
    <3>2. CASE c \notin cs
      <4>1. PICK g \in gone : g.what = c
        BY <3>2, <2>1 DEF OnePlace
      <4> QED BY <4>1, <1>1
    <3> QED BY <3>1, <3>2
  <2> QED BY <2>1
<1> QED BY <1>3, <1>4, <1>6, <1>7, <1>8 DEF OnePlace

LEMMA UsedStays ==
  ASSUME RemoteTypes, NEW r \in RemoteRequests, NEW a \in Stages \ {"unused"}, Reached(r, a)
  PROVE  Used'
<1>1. request'[r].at = a
  BY ReachedEffect
<1> QED BY <1>1 DEF Used

(* A request that does not run comes to a stage that is not the run. *)
LEMMA RequestMoves ==
  ASSUME RemoteInv, NEW r \in RemoteRequests, NEW a \in {"announced", "compacting", "over"},
         request[r].at \in {"spawned", "announced", "compacting"}, Reached(r, a),
         front'.run = front.run, front'.shows = front.shows, front'.plan \in {front.plan, NoPlan},
         pending' \subseteq pending, UNCHANGED <<shown, carried>>
  PROVE  RunsMatch' /\ PlansMatch'
<1>1. RemoteTypes /\ RunsMatch /\ PlansMatch
  BY DEF RemoteInv
<1>2. /\ request'[r].at = a /\ request'[r].names \in {0, request[r].names}
      /\ \A q \in RemoteRequests \ {r} : request'[q] = request[q]
  BY <1>1, ReachedEffect DEF Stages
<1>3. front.run # r /\ r \notin DOMAIN carried
  BY <1>1 DEF RunsMatch, PlansMatch
<1>4. front.shows \in Nat /\ request[r].names <= front.shows
  BY <1>1, RemoteNames DEF RemoteTypes, FrontRow, RunsMatch
<1>5. RunsMatch'
  <2>1. ASSUME NEW q \in RemoteRequests
        PROVE  (request'[q].at = "run" <=> front'.run = q) /\ request'[q].names <= front'.shows
    <3>1. CASE q = r
      <4>1. request'[q].names <= front'.shows
        BY <3>1, <1>2, <1>4
      <4>2. request'[q].at # "run"
        BY <3>1, <1>2
      <4> QED BY <3>1, <4>1, <4>2, <1>3
    <3>2. CASE q # r
      BY <3>2, <1>1, <1>2 DEF RunsMatch
    <3> QED BY <3>1, <3>2
  <2> QED BY <2>1, <1>1 DEF RunsMatch
<1>6. \A q \in DOMAIN carried : request'[q] = request[q]
  BY <1>1, <1>2, <1>3 DEF RemoteTypes
<1>7. PlansMatch'
  BY <1>1, <1>6 DEF PlansMatch
<1> QED BY <1>5, <1>7

(* A request starts the one run. *)
LEMMA RequestRuns ==
  ASSUME RemoteInv, NEW r \in RemoteRequests, request[r].at = "spawned", front.run = NoRunner,
         Reached(r, "run"), front'.run = r, front'.shows = front.shows, UNCHANGED pending
  PROVE  /\ RunsMatch' /\ r \notin DOMAIN carried
         /\ request'[r].at = "run" /\ request'[r].names = request[r].names
         /\ \A q \in RemoteRequests \ {r} : request'[q] = request[q]
<1>1. RemoteTypes /\ RunsMatch /\ PlansMatch
  BY DEF RemoteInv
<1>2. /\ request'[r].at = "run" /\ request'[r].names = request[r].names
      /\ \A q \in RemoteRequests \ {r} : request'[q] = request[q]
  BY <1>1, ReachedEffect DEF Stages
<1>3. r \notin DOMAIN carried
  BY <1>1 DEF PlansMatch
<1>4. \A q \in RemoteRequests : request[q].at # "run"
  BY <1>1, RemoteNames DEF RunsMatch
<1>5. RunsMatch'
  <2>1. ASSUME NEW q \in RemoteRequests
        PROVE  (request'[q].at = "run" <=> front'.run = q) /\ request'[q].names <= front'.shows
    <3>1. CASE q = r
      BY <3>1, <1>1, <1>2 DEF RunsMatch
    <3>2. CASE q # r
      BY <3>2, <1>1, <1>2, <1>4 DEF RunsMatch
    <3> QED BY <3>1, <3>2
  <2>2. pending' = {}
    BY <1>1 DEF RunsMatch
  <2> QED BY <2>1, <2>2 DEF RunsMatch
<1> QED BY <1>2, <1>3, <1>5

LEMMA PlansStay ==
  ASSUME RemoteInv, NEW r \in RemoteRequests, r \notin DOMAIN carried,
         \A q \in RemoteRequests \ {r} : request'[q] = request[q],
         front'.shows = front.shows, front'.plan \in {front.plan, NoPlan}, UNCHANGED <<shown, carried>>
  PROVE  PlansMatch'
<1>1. RemoteTypes /\ PlansMatch
  BY DEF RemoteInv
<1>2. \A q \in DOMAIN carried : request'[q] = request[q]
  BY <1>1 DEF RemoteTypes
<1> QED BY <1>1, <1>2 DEF PlansMatch

(* What a compaction has summarised stays: the conversation in use only grows. *)
LEMMA SummaryStays ==
  ASSUME RemoteInv, NEW r \in RemoteRequests, NEW a \in Stages \ {"compacting"}, Reached(r, a),
         UNCHANGED kept, words \subseteq words'
  PROVE  Summarised'
<1>1. RemoteTypes /\ Summarised
  BY DEF RemoteInv
<1>2. request'[r].at = a /\ \A q \in RemoteRequests \ {r} : request'[q] = request[q]
  BY <1>1, ReachedEffect
<1>3. \A q \in RemoteRequests : request'[q].at = "compacting" => q # r /\ request[q].at = "compacting"
  BY <1>2
<1> QED BY <1>1, <1>3 DEF Summarised

(* A reason that was there stays one: no request becomes unused again. *)
LEMMA ReasonStays ==
  ASSUME RemoteTypes, NEW r \in RemoteRequests, NEW a \in Stages \ {"unused"}, Reached(r, a),
         taken' # {} => front'.run # Poller
  PROVE  BusyForAReason'
BY UsedStays DEF BusyForAReason

LEMMA TypesStay ==
  ASSUME RemoteTypes, front' \in FrontRow, front'.shows = front.shows,
         request' \in [RemoteRequests -> RequestRow], pending' \subseteq Runners,
         UNCHANGED <<planFile, shown, kept, completionVars>>, DOMAIN carried' \subseteq RemoteRequests
  PROVE  RemoteTypes'
BY DEF RemoteTypes, completionVars

(* The steps of a request. *)
LEMMA RequestSteps ==
  ASSUME RemoteInv, NEW r \in RemoteRequests,
         \/ Arrives(r) \/ Refused(r) \/ MessageRuns(r) \/ CompactAnnounced(r) \/ AnswerDropped(r)
  PROVE  RemoteInv'
<1> USE RemoteNames DEF completionVars
<1>0. RemoteTypes /\ RunsMatch /\ PlansMatch /\ OnePlace /\ Summarised /\ BusyForAReason
  BY DEF RemoteInv
<1>f. /\ front \in FrontRow /\ request \in [RemoteRequests -> RequestRow] /\ request[r] \in RequestRow
      /\ pending \subseteq Runners /\ DOMAIN carried \subseteq RemoteRequests
      /\ front.shows \in 0 .. MaxEdits /\ front.run \in Runners \cup {NoRunner}
  <2>1. front \in FrontRow /\ request \in [RemoteRequests -> RequestRow]
        /\ pending \subseteq Runners /\ DOMAIN carried \subseteq RemoteRequests
    BY <1>0 DEF RemoteTypes
  <2> QED BY <2>1 DEF FrontRow
<1>1. CASE Arrives(r)
  <2>1. PICK k \in RemoteKinds, n \in 0 .. front.shows :
          request' = [request EXCEPT ![r] = [kind |-> k, names |-> n, at |-> "spawned"]]
    BY <1>1 DEF Arrives
  <2>2. /\ request[r].at = "unused"
        /\ UNCHANGED <<front, planFile, pending, kept, shown, carried, completionVars>>
    BY <1>1 DEF Arrives
  <2> DEFINE m == [kind |-> k, names |-> n, at |-> "spawned"]
  <2>3. m \in RequestRow /\ m.at = "spawned" /\ m.names = n /\ n <= front.shows
    BY <1>f DEF RequestRow, Stages
  <2> HIDE DEF m
  <2>4. /\ request' \in [RemoteRequests -> RequestRow] /\ request'[r] = m
        /\ \A q \in RemoteRequests \ {r} : request'[q] = request[q]
    BY <2>1, <2>3, <1>f, Assigned DEF m
  <2>5. RemoteTypes'
    BY <2>2, <2>4, <1>0, <1>f, TypesStay
  <2>6. front.run # r /\ r \notin DOMAIN carried
    BY <2>2, <1>0 DEF RunsMatch, PlansMatch
  <2>7. RunsMatch'
    <3>1. ASSUME NEW q \in RemoteRequests
          PROVE  (request'[q].at = "run" <=> front'.run = q) /\ request'[q].names <= front'.shows
      <4>1. CASE q = r
        BY <4>1, <2>2, <2>3, <2>4, <2>6
      <4>2. CASE q # r
        BY <4>2, <2>2, <2>4, <1>0 DEF RunsMatch
      <4> QED BY <4>1, <4>2
    <3> QED BY <3>1, <2>2, <1>0 DEF RunsMatch
  <2>8. PlansMatch'
    BY <2>2, <2>4, <2>6, PlansStay
  <2>9. OnePlace'
    BY <2>2, <1>0, PlacesKept
  <2>10. Summarised'
    <3>1. \A q \in RemoteRequests : request'[q].at = "compacting" => q # r /\ request[q].at = "compacting"
      BY <2>3, <2>4
    <3> QED BY <3>1, <2>2, <1>0 DEF Summarised
  <2>11. BusyForAReason'
    <3>1. Used'
      BY <2>3, <2>4 DEF Used
    <3> QED BY <3>1, <2>2, <1>0 DEF BusyForAReason
  <2> QED BY <2>5, <2>7, <2>8, <2>9, <2>10, <2>11 DEF RemoteInv
<1>2. ASSUME NEW a \in {"announced", "over"}, Reached(r, a), request[r].at = "spawned",
             UNCHANGED <<front, planFile, pending, kept, shown, carried, completionVars>>
      PROVE  RemoteInv'
  <2>1. request' \in [RemoteRequests -> RequestRow]
    BY <1>2, <1>0, ReachedEffect DEF Stages
  <2>2. RemoteTypes'
    BY <2>1, <1>2, <1>0, <1>f, TypesStay
  <2>3. RunsMatch' /\ PlansMatch'
    BY <1>2, RequestMoves
  <2>4. OnePlace'
    BY <1>2, <1>0, PlacesKept
  <2>5. Summarised'
    BY <1>2, SummaryStays DEF Stages
  <2>6. BusyForAReason'
    <3>1. taken' # {} => front'.run # Poller
      BY <1>2, <1>0 DEF BusyForAReason
    <3> QED BY <3>1, <1>2, <1>0, ReasonStays DEF Stages
  <2> QED BY <2>2, <2>3, <2>4, <2>5, <2>6 DEF RemoteInv
<1>3. CASE Refused(r)
  BY <1>3, <1>2, Zenon DEF Refused
<1>4. CASE CompactAnnounced(r)
  BY <1>4, <1>2, Zenon DEF CompactAnnounced
<1>5. CASE AnswerDropped(r)
  BY <1>5, <1>2, Zenon DEF AnswerDropped
<1>6. CASE MessageRuns(r)
  <2>1. /\ request[r].at = "spawned" /\ front.run = NoRunner /\ Reached(r, "run")
        /\ front' = [front EXCEPT !.run = r, !.cancelled = FALSE]
        /\ UNCHANGED <<planFile, pending, kept, shown, carried, completionVars>>
    BY <1>6, Zenon DEF MessageRuns, Idle
  <2>2. /\ front' \in FrontRow /\ front'.run = r
        /\ front'.plan = front.plan /\ front'.shows = front.shows
    <3>1. r \in Runners \cup {NoRunner}
      OBVIOUS
    <3>2. front' = [front EXCEPT !.run = r, !.cancelled = FALSE]
      BY <2>1
    <3> QED BY ONLY <3>1, <3>2, <1>f, FrontRuns
  <2>3. request' \in [RemoteRequests -> RequestRow]
    BY <2>1, <1>0, ReachedEffect DEF Stages
  <2>4. RemoteTypes'
    BY <2>1, <2>2, <2>3, <1>0, <1>f, TypesStay
  <2>5. /\ RunsMatch' /\ r \notin DOMAIN carried
        /\ \A q \in RemoteRequests \ {r} : request'[q] = request[q]
    BY <2>1, <2>2, RequestRuns
  <2>6. PlansMatch'
    BY <2>1, <2>2, <2>5, PlansStay
  <2>7. OnePlace'
    BY <2>1, <1>0, PlacesKept
  <2>8. Summarised'
    BY <2>1, SummaryStays DEF Stages
  <2>9. BusyForAReason'
    <3>1. front'.run # Poller
      BY <2>2
    <3> QED BY <3>1, <2>1, <1>0, ReasonStays DEF Stages
  <2> QED BY <2>4, <2>5, <2>6, <2>7, <2>8, <2>9 DEF RemoteInv
<1> QED BY <1>1, <1>3, <1>4, <1>5, <1>6

(* A command, and a compaction. *)
LEMMA CommandSteps ==
  ASSUME RemoteInv, NEW r \in RemoteRequests, PlanMode(r) \/ ConversationReplaced(r)
  PROVE  RemoteInv'
<1> USE RemoteNames DEF completionVars
<1>0. RemoteTypes /\ RunsMatch /\ PlansMatch /\ OnePlace /\ Summarised /\ BusyForAReason
  BY DEF RemoteInv
<1>1. /\ request[r].at = "spawned" /\ Reached(r, "over") /\ front.run = NoRunner
      /\ UNCHANGED <<planFile, taken, polling, waiting, ended, shown, carried>>
  BY Zenon DEF PlanMode, ConversationReplaced, Idle
<1>f. /\ front \in FrontRow /\ request' \in [RemoteRequests -> RequestRow]
      /\ pending \subseteq Runners /\ DOMAIN carried \subseteq RemoteRequests
      /\ kept.of \subseteq ended
  <2>1. /\ front \in FrontRow /\ pending \subseteq Runners /\ DOMAIN carried \subseteq RemoteRequests
        /\ kept.of \subseteq ended
    BY <1>0 DEF RemoteTypes
  <2>2. request' \in [RemoteRequests -> RequestRow]
    BY <1>0, <1>1, ReachedEffect DEF Stages
  <2> QED BY <2>1, <2>2
<1>2. CASE PlanMode(r)
  <2>0. front' = [front EXCEPT !.planning = TRUE] /\ UNCHANGED <<pending, kept, words, gone>>
    BY <1>2 DEF PlanMode
  <2>1. /\ front' \in FrontRow /\ front'.run = front.run
        /\ front'.plan = front.plan /\ front'.shows = front.shows
    BY <2>0, <1>f, FrontPlans
  <2>2. RemoteTypes'
    BY <2>0, <2>1, <1>0, <1>1, <1>f, TypesStay
  <2>3. RunsMatch' /\ PlansMatch'
    BY <1>1, <2>0, <2>1, RequestMoves
  <2>4. OnePlace'
    BY <1>1, <2>0, <1>0, PlacesKept
  <2>5. Summarised'
    BY <1>1, <2>0, SummaryStays DEF Stages
  <2>6. BusyForAReason'
    <3>1. Used'
      BY <1>0, <1>1, UsedStays DEF Stages
    <3> QED BY <3>1, <2>1, <1>1 DEF BusyForAReason
  <2> QED BY <2>2, <2>3, <2>4, <2>5, <2>6 DEF RemoteInv
<1>3. CASE ConversationReplaced(r)
  <2>0. /\ words' = {} /\ Lost(words, "dropped") /\ kept' = [kept EXCEPT !.live = FALSE]
        /\ pending' \subseteq pending
    BY <1>3, Zenon DEF ConversationReplaced
  <2>1. /\ front' \in FrontRow /\ front'.run = front.run
        /\ front'.plan \in {front.plan, NoPlan} /\ front'.shows = front.shows
    <3>1. CASE UNCHANGED front
      BY <3>1, <1>f
    <3>2. CASE \E n \in RemoteSessions \ {front.session} : front' = [front EXCEPT !.session = n, !.plan = NoPlan]
      <4>1. PICK n \in RemoteSessions : front' = [front EXCEPT !.session = n, !.plan = NoPlan]
        BY <3>2
      <4>2. front \in FrontRow /\ n \in RemoteSessions
        BY <1>f
      <4>3. front' \in FrontRow /\ front'.run = front.run /\ front'.plan = NoPlan /\ front'.shows = front.shows
        BY ONLY <4>1, <4>2, FrontSwitches, NoPlanTyped
      <4> QED BY <4>3
    <3> QED BY <1>3, <3>1, <3>2, Zenon DEF ConversationReplaced
  <2>2. "dropped" \in Reasons /\ "dropped" # "busy"
    BY DEF Reasons
  <2>3. words \subseteq Held /\ Held' = Held \ words /\ Apart'
    BY <2>0, <1>1, <1>0 DEF Held, Apart, OnePlace
  <2>4. /\ OnePlace' /\ gone' \subseteq [what : ended, why : Reasons]
        /\ \A g \in gone' : g \in gone \/ g.why = "dropped"
    BY <2>0, <2>2, <2>3, <1>0, <1>1, PlacesLost
  <2>5. kept'.of \subseteq ended
    BY <2>0, <1>f, <1>0 DEF KeptRow, RemoteTypes
  <2>6. RemoteTypes'
    <3>1. planFile' \in 0 .. MaxEdits /\ pending' \subseteq Runners /\ shown' \in Seq(0 .. MaxEdits)
          /\ Len(shown') = front'.shows /\ DOMAIN carried' \subseteq RemoteRequests
      BY <1>0, <1>1, <1>f, <2>0, <2>1 DEF RemoteTypes
    <3>2. words' \cup taken' \cup DOMAIN waiting' \cup kept'.of \subseteq ended' /\ ended' \subseteq Completions
      BY <1>0, <1>1, <2>0, <2>5 DEF RemoteTypes
    <3>3. kept' \in KeptRow
      BY <1>0, <2>0 DEF RemoteTypes, KeptRow
    <3> QED BY <3>1, <3>2, <3>3, <2>1, <2>4, <1>1, <1>f DEF RemoteTypes
  <2>7. RunsMatch' /\ PlansMatch'
    BY <1>1, <2>0, <2>1, RequestMoves
  <2>8. Summarised'
    <3>1. request'[r].at = "over" /\ \A q \in RemoteRequests \ {r} : request'[q] = request[q]
      BY <1>1, <1>0, ReachedEffect DEF Stages
    <3>2. \A q \in RemoteRequests : request'[q].at = "compacting" => q # r /\ request[q].at = "compacting"
      BY <3>1
    <3>3. ~kept'.live
      BY <2>0, <1>0 DEF KeptRow, RemoteTypes
    <3> QED BY <3>2, <3>3, <1>0 DEF Summarised
  <2>9. BusyForAReason'
    <3>1. Used'
      BY <1>0, <1>1, UsedStays DEF Stages
    <3> QED BY <3>1, <2>1, <1>1 DEF BusyForAReason
  <2> QED BY <2>4, <2>6, <2>7, <2>8, <2>9 DEF RemoteInv
<1> QED BY <1>2, <1>3

LEMMA CompactSteps ==
  ASSUME RemoteInv, NEW r \in RemoteRequests, CompactSummarises(r) \/ CompactEnds(r)
  PROVE  RemoteInv'
<1> USE RemoteNames DEF completionVars
<1>0. RemoteTypes /\ RunsMatch /\ PlansMatch /\ OnePlace /\ Summarised /\ BusyForAReason
  BY DEF RemoteInv
<1>f. /\ front \in FrontRow /\ pending \subseteq Runners /\ DOMAIN carried \subseteq RemoteRequests
      /\ words \subseteq ended /\ ended \subseteq Completions /\ kept \in KeptRow
      /\ taken # {} => front.run # Poller
  <2>1. /\ front \in FrontRow /\ pending \subseteq Runners /\ DOMAIN carried \subseteq RemoteRequests
        /\ words \subseteq ended /\ ended \subseteq Completions /\ kept \in KeptRow
    BY <1>0 DEF RemoteTypes
  <2>2. taken # {} => front.run # Poller
    BY <1>0 DEF BusyForAReason
  <2> QED BY <2>1, <2>2
<1>1. CASE CompactSummarises(r)
  <2>1. /\ request[r].at = "announced" /\ \A q \in RemoteRequests : request[q].at # "compacting"
        /\ kept' = [live |-> TRUE, of |-> words]
        /\ Reached(r, "compacting")
        /\ UNCHANGED <<front, planFile, pending, shown, carried, completionVars>>
    BY <1>1 DEF CompactSummarises
  <2>2. /\ request' \in [RemoteRequests -> RequestRow]
        /\ \A q \in RemoteRequests \ {r} : request'[q] = request[q]
    BY <2>1, <1>0, ReachedEffect DEF Stages
  <2>k. kept' \in KeptRow /\ kept'.of = words
    BY <2>1, <1>f DEF KeptRow
  <2>3. RemoteTypes'
    <3>1. words' \cup taken' \cup DOMAIN waiting' \cup kept'.of \subseteq ended'
      BY <2>1, <2>k, <1>0 DEF RemoteTypes
    <3> QED BY <3>1, <2>1, <2>2, <2>k, <1>0, <1>f DEF RemoteTypes
  <2>4. RunsMatch' /\ PlansMatch'
    BY <2>1, RequestMoves
  <2>5. OnePlace'
    BY <2>1, <1>0, PlacesKept
  <2>6. Summarised'
    <3>1. \A q \in RemoteRequests : request'[q].at = "compacting" => q = r
      BY <2>1, <2>2
    <3> QED BY <3>1, <2>1, <2>k DEF Summarised
  <2>7. BusyForAReason'
    BY <2>1, <1>0, <1>f, ReasonStays DEF Stages
  <2> QED BY <2>3, <2>4, <2>5, <2>6, <2>7 DEF RemoteInv
<1>2. CASE CompactEnds(r)
  <2>1. /\ request[r].at = "compacting" /\ Reached(r, "over") /\ kept' = Nothing
        /\ UNCHANGED <<front, planFile, pending, taken, polling, waiting, ended, shown, carried>>
        /\ \/ kept.live /\ words' = kept.of /\ Lost(words \ kept.of, "compacted")
           \/ UNCHANGED <<words, gone>>
    BY <1>2 DEF CompactEnds
  <2>2. "compacted" \in Reasons /\ "compacted" # "busy"
    BY DEF Reasons
  <2>3. /\ OnePlace' /\ gone' \subseteq [what : ended, why : Reasons] /\ words' \subseteq words
        /\ \A g \in gone' : g \in gone \/ g.why = "compacted"
    <3>1. CASE UNCHANGED <<words, gone>>
      <4>1. OnePlace'
        BY <3>1, <2>1, <1>0, PlacesKept
      <4> QED BY <3>1, <4>1, <1>0 DEF RemoteTypes
    <3>2. CASE kept.live /\ words' = kept.of /\ Lost(words \ kept.of, "compacted")
      <4>1. words' \subseteq words
        BY <3>2, <1>0 DEF Summarised
      <4>2. words \ kept.of \subseteq Held /\ Held' = Held \ (words \ kept.of) /\ Apart'
        BY <3>2, <4>1, <2>1, <1>0 DEF Held, Apart, OnePlace
      <4> QED BY <3>2, <4>1, <4>2, <2>1, <2>2, <1>0, PlacesLost
    <3> QED BY <3>1, <3>2, <2>1
  <2>7. request' \in [RemoteRequests -> RequestRow]
    BY <2>1, <1>0, ReachedEffect DEF Stages
  <2>k. kept' \in KeptRow /\ kept'.of = {} /\ ~kept'.live
    BY <2>1 DEF KeptRow, Nothing
  <2>8. RemoteTypes'
    <3>1. words' \cup taken' \cup DOMAIN waiting' \cup kept'.of \subseteq ended'
      BY <2>1, <2>3, <2>k, <1>0 DEF RemoteTypes
    <3> QED BY <3>1, <2>1, <2>3, <2>7, <2>k, <1>0 DEF RemoteTypes
  <2>9. RunsMatch' /\ PlansMatch'
    BY <2>1, RequestMoves
  <2>11. Summarised'
    <3>1. request'[r].at = "over" /\ \A q \in RemoteRequests \ {r} : request'[q] = request[q]
      BY <2>1, <1>0, ReachedEffect DEF Stages
    <3>2. \A q \in RemoteRequests : request'[q].at # "compacting"
      BY <2>1, <3>1, <1>0 DEF Summarised
    <3> QED BY <3>2, <2>k DEF Summarised
  <2>12. BusyForAReason'
    <3>1. Used'
      BY <1>0, <2>1, UsedStays DEF Stages
    <3> QED BY <3>1, <2>1, <1>f DEF BusyForAReason
  <2> QED BY <2>3, <2>8, <2>9, <2>11, <2>12 DEF RemoteInv
<1> QED BY <1>1, <1>2

(* The steps of a run. *)
LEMMA RunSteps ==
  ASSUME RemoteInv, RunAsks \/ RunAnswered \/ PlanWritten \/ CancelSent
  PROVE  RemoteInv'
<1> USE RemoteNames DEF completionVars
<1>0. RemoteTypes /\ RunsMatch /\ PlansMatch /\ OnePlace /\ Summarised /\ BusyForAReason
  BY DEF RemoteInv
<1>f. front \in FrontRow /\ front.run \in Runners \cup {NoRunner}
  BY <1>0 DEF RemoteTypes, FrontRow
<1>1. ASSUME UNCHANGED <<request, kept, shown, carried, completionVars>>,
             planFile' \in 0 .. MaxEdits, pending' \subseteq {front.run} \ {NoRunner},
             front' \in FrontRow, front'.run = front.run,
             front'.planning = front.planning, front'.plan = front.plan, front'.shows = front.shows
      PROVE  RemoteInv'
  <2>1. RemoteTypes'
    BY <1>1, <1>0, <1>f DEF RemoteTypes
  <2>2. RunsMatch' /\ PlansMatch'
    BY <1>1, <1>0 DEF RunsMatch, PlansMatch
  <2>3. OnePlace'
    BY <1>1, <1>0, PlacesKept
  <2>4. Summarised'
    BY <1>1, <1>0 DEF Summarised
  <2>5. BusyForAReason'
    BY <1>1, <1>0 DEF BusyForAReason, Used
  <2> QED BY <2>1, <2>2, <2>3, <2>4, <2>5 DEF RemoteInv
<1>2. pending \subseteq {front.run} \ {NoRunner} /\ planFile \in 0 .. MaxEdits
  BY <1>0 DEF RunsMatch, RemoteTypes
<1>3. CASE RunAsks
  BY <1>3, <1>2, <1>f, <1>1 DEF RunAsks
<1>4. CASE RunAnswered
  BY <1>4, <1>2, <1>f, <1>1 DEF RunAnswered
<1>5. CASE PlanWritten
  BY <1>5, <1>2, <1>f, <1>1 DEF PlanWritten
<1>6. CASE CancelSent
  <2>1. /\ front' = [front EXCEPT !.cancelled = TRUE]
        /\ UNCHANGED <<request, planFile, pending, kept, shown, carried, completionVars>>
    BY <1>6 DEF CancelSent
  <2>2. /\ front' \in FrontRow /\ front'.run = front.run
        /\ front'.planning = front.planning /\ front'.plan = front.plan /\ front'.shows = front.shows
    BY <2>1, <1>f, FrontCancelled
  <2> QED BY <2>1, <2>2, <1>2, <1>1
<1> QED BY <1>3, <1>4, <1>5, <1>6

LEMMA RunEnds ==
  ASSUME RemoteInv, RunOver
  PROVE  RemoteInv'
<1> USE RemoteNames DEF completionVars
<1>0. RemoteTypes /\ RunsMatch /\ PlansMatch /\ OnePlace /\ Summarised /\ BusyForAReason
  BY DEF RemoteInv
<1>1. /\ front.run # NoRunner /\ front' = [front EXCEPT !.run = NoRunner, !.cancelled = FALSE]
      /\ pending' = {}
      /\ UNCHANGED <<planFile, kept, shown, carried, completionVars>>
      /\ IF front.run = Poller THEN UNCHANGED request ELSE Reached(front.run, "over")
  BY Zenon DEF RunOver
<1>f. /\ front \in FrontRow /\ front.run \in Runners \cup {NoRunner}
      /\ request \in [RemoteRequests -> RequestRow] /\ DOMAIN carried \subseteq RemoteRequests
  BY <1>0 DEF RemoteTypes, FrontRow
<1>2. /\ front' \in FrontRow /\ front'.run = NoRunner
      /\ front'.planning = front.planning /\ front'.plan = front.plan /\ front'.shows = front.shows
  <2>1. NoRunner \in Runners \cup {NoRunner} /\ front' = [front EXCEPT !.run = NoRunner, !.cancelled = FALSE]
    BY <1>1
  <2> QED BY ONLY <2>1, <1>f, FrontRuns
<1>3. /\ request' \in [RemoteRequests -> RequestRow]
      /\ \A q \in RemoteRequests : q # front.run => request'[q] = request[q]
      /\ front.run \in RemoteRequests =>
           /\ request'[front.run].at = "over"
           /\ request'[front.run].names \in {0, request[front.run].names}
           /\ front.run \in DOMAIN carried => request'[front.run].names = request[front.run].names
  <2>1. CASE front.run = Poller
    BY <2>1, <1>1, <1>f
  <2>2. CASE front.run # Poller
    <3>1. front.run \in RemoteRequests /\ Reached(front.run, "over")
      BY <2>2, <1>1, <1>f
    <3> QED BY <3>1, <1>0, ReachedEffect DEF Stages
  <2> QED BY <2>1, <2>2
<1>4. RemoteTypes'
  BY <1>0, <1>1, <1>2, <1>3, <1>f, TypesStay
<1>5. RunsMatch'
  <2>1. ASSUME NEW q \in RemoteRequests
        PROVE  request'[q].at # "run" /\ request'[q].names <= front'.shows
    <3>1. request[q].names <= front.shows /\ front.shows \in Nat
      BY <1>0 DEF RunsMatch, FrontRow, RemoteTypes
    <3>2. CASE q = front.run
      <4>1. request'[q].at # "run" /\ request'[q].names \in {0, request[q].names}
        BY <3>2, <1>3
      <4> QED BY <4>1, <3>1, <1>2
    <3>3. CASE q # front.run
      <4>1. request'[q] = request[q]
        BY <3>3, <1>3
      <4> QED BY <4>1, <3>1, <3>3, <1>2, <1>0 DEF RunsMatch
    <3> QED BY <3>2, <3>3
  <2> QED BY <2>1, <1>1, <1>2 DEF RunsMatch
<1>6. PlansMatch'
  <2>1. \A q \in DOMAIN carried : /\ request'[q].names = request[q].names
                                  /\ request'[q].at \in {request[q].at, "over"}
    BY <1>3, <1>f
  <2> QED BY <2>1, <1>1, <1>2, <1>0 DEF PlansMatch
<1>7. OnePlace'
  BY <1>1, <1>0, PlacesKept
<1>8. Summarised'
  <2>1. \A q \in RemoteRequests : request'[q].at = "compacting" => request[q].at = "compacting"
    BY <1>3
  <2> QED BY <2>1, <1>1, <1>0 DEF Summarised
<1>9. BusyForAReason'
  <2>1. Used => Used'
    <3>1. ASSUME NEW q \in RemoteRequests, request[q].at # "unused"
          PROVE  request'[q].at # "unused"
      BY <3>1, <1>3
    <3> QED BY <3>1 DEF Used
  <2> QED BY <2>1, <1>1, <1>2, <1>0 DEF BusyForAReason
<1> QED BY <1>4, <1>5, <1>6, <1>7, <1>8, <1>9 DEF RemoteInv

LEMMA PlanIsShown ==
  ASSUME RemoteInv, PlanShown
  PROVE  RemoteInv'
<1> USE RemoteNames DEF completionVars
<1>0. RemoteTypes /\ RunsMatch /\ PlansMatch /\ OnePlace /\ Summarised /\ BusyForAReason
  BY DEF RemoteInv
<1>1. /\ front.planning /\ front.shows < MaxEdits
      /\ shown' = Append(shown, planFile)
      /\ UNCHANGED <<request, planFile, pending, kept, carried, completionVars>>
  BY DEF PlanShown
<1>f. /\ front \in FrontRow /\ front.shows \in 0 .. MaxEdits /\ planFile \in 0 .. MaxEdits
      /\ shown \in Seq(0 .. MaxEdits) /\ Len(shown) = front.shows
      /\ DOMAIN carried \subseteq RemoteRequests
  BY <1>0 DEF RemoteTypes, FrontRow
<1>2. PICK n \in 0 .. MaxEdits : n = front.shows + 1
  BY <1>1, <1>f
<1>3. PICK x \in PlanOf : x = [id |-> n, text |-> planFile]
  <2>1. n \in Nat
    BY <1>2, <1>f
  <2>2. [id |-> n, text |-> planFile] \in PlanOf
    BY <2>1, <1>f DEF PlanOf
  <2> QED BY <2>2
<1>4. front' = [front EXCEPT !.plan = x, !.shows = n]
  <2>1. front' = [front EXCEPT !.plan = [id |-> front.shows + 1, text |-> planFile],
                               !.shows = front.shows + 1]
    BY Zenon DEF PlanShown
  <2> QED BY <2>1, <1>2, <1>3, Zenon
<1>5. /\ front' \in FrontRow /\ front'.run = front.run
      /\ front'.planning = front.planning /\ front'.plan = x /\ front'.shows = n
  BY ONLY <1>4, <1>f DEF FrontRow
<1>6. x.id = n /\ x.text = planFile
  BY <1>3
<1>7. /\ shown' \in Seq(0 .. MaxEdits) /\ Len(shown') = n /\ shown'[n] = planFile
      /\ \A i \in 1 .. front.shows : shown'[i] = shown[i]
  BY <1>1, <1>2, <1>f
<1>8. RemoteTypes'
  BY <1>0, <1>1, <1>5, <1>7 DEF RemoteTypes
<1>9. RunsMatch'
  <2>1. \A q \in RemoteRequests : request[q].names <= n
    <3>1. \A q \in RemoteRequests : request[q].names \in Nat /\ request[q].names <= front.shows
      BY <1>0 DEF RunsMatch, RemoteTypes, RequestRow
    <3> QED BY <3>1, <1>2, <1>f
  <2> QED BY <2>1, <1>0, <1>1, <1>5 DEF RunsMatch
<1>10. PlansMatch'
  <2>1. ASSUME NEW r \in DOMAIN carried
        PROVE  /\ request[r].at \in {"run", "over"} /\ request[r].names \in 1 .. n
               /\ carried[r] = [id |-> request[r].names, text |-> shown'[request[r].names]]
               /\ x.id # request[r].names
    <3>1. /\ request[r].at \in {"run", "over"} /\ request[r].names \in 1 .. front.shows
          /\ carried[r] = [id |-> request[r].names, text |-> shown[request[r].names]]
      BY <1>0 DEF PlansMatch
    <3>2. request[r].names \in 1 .. n /\ n # request[r].names
      BY <3>1, <1>2, <1>f
    <3> QED BY <3>1, <3>2, <1>6, <1>7
  <2>2. n \in 1 .. n
    BY <1>2, <1>f
  <2>3. \A r, q \in DOMAIN carried : carried[r].id = carried[q].id => r = q
    BY <1>0 DEF PlansMatch
  <2> QED BY <2>1, <2>2, <2>3, <1>1, <1>5, <1>6, <1>7 DEF PlansMatch
<1>11. OnePlace'
  BY <1>1, <1>0, PlacesKept
<1>12. Summarised'
  BY <1>1, <1>0 DEF Summarised
<1>13. BusyForAReason'
  BY <1>1, <1>5, <1>0 DEF BusyForAReason, Used
<1> QED BY <1>8, <1>9, <1>10, <1>11, <1>12, <1>13 DEF RemoteInv

(* The answers to a plan. *)
LEMMA AnswerSteps ==
  ASSUME RemoteInv, NEW r \in RemoteRequests, PlanApproved(r) \/ PlanAnswered(r)
  PROVE  RemoteInv'
<1> USE RemoteNames DEF completionVars
<1>0. RemoteTypes /\ RunsMatch /\ PlansMatch /\ OnePlace /\ Summarised /\ BusyForAReason
  BY DEF RemoteInv
<1>f. /\ front \in FrontRow /\ DOMAIN carried \subseteq RemoteRequests /\ pending \subseteq Runners
  BY <1>0 DEF RemoteTypes
<1>a. AnswerFits(r) /\ UNCHANGED <<planFile, pending, kept, shown, completionVars>>
  BY Zenon DEF PlanApproved, PlanAnswered
<1>1. /\ request[r].at = "spawned" /\ front.run = NoRunner
      /\ front.plan # NoPlan /\ request[r].names = front.plan.id
  BY <1>a DEF AnswerFits
<1>2. ASSUME front' = [front EXCEPT !.plan = NoPlan], Reached(r, "over"), UNCHANGED carried
      PROVE  RemoteInv'
  <2>1. /\ front' \in FrontRow /\ front'.run = front.run
        /\ front'.planning = front.planning /\ front'.plan = NoPlan /\ front'.shows = front.shows
    BY ONLY <1>2, <1>f, FrontAnswered, NoPlanTyped
  <2>2. request' \in [RemoteRequests -> RequestRow]
    BY <1>2, <1>0, ReachedEffect DEF Stages
  <2>3. RemoteTypes'
    BY <1>2, <1>a, <2>1, <2>2, <1>0, <1>f, TypesStay
  <2>4. RunsMatch' /\ PlansMatch'
    BY <1>1, <1>2, <1>a, <2>1, RequestMoves
  <2>5. OnePlace'
    BY <1>a, <1>0, PlacesKept
  <2>6. Summarised'
    BY <1>2, <1>a, SummaryStays DEF Stages
  <2>7. BusyForAReason'
    <3>1. front'.run # Poller
      BY <2>1, <1>1
    <3> QED BY <3>1, <1>2, <1>0, ReasonStays DEF Stages
  <2> QED BY <2>3, <2>4, <2>5, <2>6, <2>7 DEF RemoteInv
<1>3. ASSUME front' \in FrontRow, front'.run = r,
             front'.plan = NoPlan, front'.shows = front.shows, Reached(r, "run"),
             DOMAIN carried' \subseteq RemoteRequests, PlansMatch'
      PROVE  RemoteInv'
  <2>2. request' \in [RemoteRequests -> RequestRow]
    BY <1>3, <1>0, ReachedEffect DEF Stages
  <2>3. RemoteTypes'
    BY <1>3, <1>a, <2>2, <1>0, <1>f, TypesStay
  <2>4. RunsMatch'
    BY <1>1, <1>3, <1>a, RequestRuns
  <2>5. OnePlace'
    BY <1>a, <1>0, PlacesKept
  <2>6. Summarised'
    BY <1>3, <1>a, SummaryStays DEF Stages
  <2>7. BusyForAReason'
    BY <1>3, <1>0, ReasonStays DEF Stages
  <2> QED BY <1>3, <2>3, <2>4, <2>5, <2>6, <2>7 DEF RemoteInv
<1>4. CASE PlanAnswered(r)
  <2>1. CASE /\ front' = [front EXCEPT !.plan = NoPlan, !.run = r, !.cancelled = FALSE]
             /\ Reached(r, "run")
    <3>1. /\ front' \in FrontRow /\ front'.run = r
          /\ front'.plan = NoPlan /\ front'.shows = front.shows
      <4>1. front' = [front EXCEPT !.plan = NoPlan, !.run = r, !.cancelled = FALSE] /\ r \in RemoteRequests
        BY <2>1
      <4> QED BY ONLY <4>1, <1>f, NoPlanTyped DEF FrontRow, Runners
    <3>2. UNCHANGED carried
      BY <1>4 DEF PlanAnswered
    <3>3. r \notin DOMAIN carried /\ \A q \in RemoteRequests \ {r} : request'[q] = request[q]
      BY <2>1, <3>1, <1>1, <1>a, RequestRuns
    <3>4. PlansMatch'
      BY <3>1, <3>2, <3>3, <1>a, PlansStay
    <3> QED BY <2>1, <3>1, <3>2, <3>4, <1>3, <1>f
  <2>2. CASE front' = [front EXCEPT !.plan = NoPlan] /\ Reached(r, "over")
    <3>1. UNCHANGED carried
      BY <1>4 DEF PlanAnswered
    <3> QED BY <2>2, <3>1, <1>2
  <2> QED BY <2>1, <2>2, <1>4, Zenon DEF PlanAnswered
<1>5. CASE PlanApproved(r) /\ ~PlanAsShown
  <2>1. front' = [front EXCEPT !.plan = NoPlan] /\ Reached(r, "over") /\ UNCHANGED carried
    BY <1>5, Zenon DEF PlanApproved
  <2> QED BY <2>1, <1>2
<1>6. CASE PlanApproved(r) /\ PlanAsShown
  <2>1. /\ front' = [front EXCEPT !.plan = NoPlan, !.planning = FALSE, !.run = r, !.cancelled = FALSE]
        /\ carried' = [q \in DOMAIN carried \cup {r} |->
                         IF q = r THEN [id |-> request[r].names, text |-> planFile] ELSE carried[q]]
        /\ Reached(r, "run")
    BY <1>6, Zenon DEF PlanApproved
  <2>2. /\ front' \in FrontRow /\ front'.run = r
        /\ front'.plan = NoPlan /\ front'.shows = front.shows
    <3>1. /\ front' = [front EXCEPT !.plan = NoPlan, !.planning = FALSE, !.run = r, !.cancelled = FALSE]
          /\ r \in RemoteRequests
      BY <2>1
    <3> QED BY ONLY <3>1, <1>f, NoPlanTyped DEF FrontRow, Runners
  <2>3. /\ r \notin DOMAIN carried
        /\ request'[r].at = "run" /\ request'[r].names = request[r].names
        /\ \A q \in RemoteRequests \ {r} : request'[q] = request[q]
    BY <2>1, <2>2, <1>1, <1>a, RequestRuns
  <2>4. /\ DOMAIN carried' = DOMAIN carried \cup {r}
        /\ carried'[r] = [id |-> request[r].names, text |-> planFile]
        /\ \A q \in DOMAIN carried : carried'[q] = carried[q] /\ request'[q] = request[q] /\ q # r
    BY <2>1, <2>3, <1>f
  <2>5. /\ request[r].names \in 1 .. front.shows /\ shown[request[r].names] = planFile
    <3>1. planFile = front.plan.text
      BY <1>6 DEF PlanAsShown
    <3> QED BY <3>1, <1>1, <1>0 DEF PlansMatch
  <2>6. PlansMatch'
    <3>1. \A q \in DOMAIN carried :
            /\ request[q].at \in {"run", "over"} /\ request[q].names \in 1 .. front.shows
            /\ carried[q] = [id |-> request[q].names, text |-> shown[request[q].names]]
            /\ request[r].names # request[q].names
      BY <1>0, <1>1 DEF PlansMatch
    <3>2. ASSUME NEW q \in DOMAIN carried'
          PROVE  /\ request'[q].at \in {"run", "over"} /\ request'[q].names \in 1 .. front'.shows
                 /\ carried'[q] = [id |-> request'[q].names, text |-> shown'[request'[q].names]]
      <4>1. CASE q = r
        BY <4>1, <2>2, <2>3, <2>4, <2>5, <1>a
      <4>2. CASE q # r
        BY <4>2, <2>2, <2>4, <3>1, <1>a
      <4> QED BY <4>1, <4>2
    <3>3. \A q \in DOMAIN carried : carried'[q].id # carried'[r].id
      BY <3>1, <2>4
    <3>4. \A q, t \in DOMAIN carried : carried'[q].id = carried'[t].id => q = t
      <4>1. \A q, t \in DOMAIN carried : carried[q].id = carried[t].id => q = t
        BY <1>0 DEF PlansMatch
      <4> QED BY <4>1, <2>4
    <3>5. \A q, t \in DOMAIN carried' : carried'[q].id = carried'[t].id => q = t
      BY <3>3, <3>4, <2>4
    <3> QED BY <3>2, <3>5, <2>2 DEF PlansMatch
  <2> QED BY <2>1, <2>2, <2>4, <2>6, <1>3, <1>f
<1> QED BY <1>4, <1>5, <1>6

(* Background work: the steps that touch neither requests nor plans. *)
LEMMA BackgroundSteps ==
  ASSUME RemoteInv, (\E c \in Completions : TaskCompletes(c)) \/ PollTakes \/ PollFails \/ PollTells
  PROVE  RemoteInv'
<1> USE RemoteNames DEF completionVars
<1>0. RemoteTypes /\ RunsMatch /\ PlansMatch /\ OnePlace /\ Summarised /\ BusyForAReason
  BY DEF RemoteInv
<1>f. /\ front \in FrontRow /\ front.run \in Runners \cup {NoRunner}
      /\ words \cup taken \cup DOMAIN waiting \cup kept.of \subseteq ended
      /\ ended \subseteq Completions /\ gone \subseteq [what : ended, why : Reasons]
  BY <1>0 DEF RemoteTypes, FrontRow
<1>1. ASSUME UNCHANGED <<front, request, planFile, pending, words, kept, shown, carried>>,
             taken' \cup DOMAIN waiting' \subseteq ended', ended \subseteq ended', ended' \subseteq Completions,
             gone' \subseteq [what : ended', why : Reasons], OnePlace',
             \A g \in gone' : g.why = "busy" => g \in gone \/ Used,
             taken' # {} => front.run # Poller
      PROVE  RemoteInv'
  <2>1. RemoteTypes'
    <3>1. words' \cup taken' \cup DOMAIN waiting' \cup kept'.of \subseteq ended'
      BY <1>1, <1>f
    <3> QED BY <3>1, <1>1, <1>0 DEF RemoteTypes
  <2>2. RunsMatch' /\ PlansMatch'
    BY <1>1, <1>0 DEF RunsMatch, PlansMatch
  <2>3. Summarised'
    BY <1>1, <1>0 DEF Summarised
  <2>4. BusyForAReason'
    BY <1>1, <1>0 DEF BusyForAReason, Used
  <2> QED BY <1>1, <2>1, <2>2, <2>3, <2>4 DEF RemoteInv
<1>2. ASSUME NEW c \in Completions, TaskCompletes(c)
      PROVE  RemoteInv'
  <2>1. /\ c \notin ended /\ ended' = ended \cup {c}
        /\ UNCHANGED <<front, request, planFile, pending, words, taken, polling, kept, shown, carried, gone>>
    BY <1>2 DEF TaskCompletes
  <2>2. DOMAIN waiting' = DOMAIN waiting \cup {c}
    BY <1>2 DEF TaskCompletes
  <2>3. c \notin Held /\ \A g \in gone : g.what # c
    BY <2>1, <1>f DEF Held
  <2>4. Held' = Held \cup {c} /\ Apart'
    BY <2>1, <2>2, <2>3, <1>0 DEF Held, Apart, OnePlace
  <2>5. OnePlace'
    BY <2>1, <2>3, <2>4, <1>0 DEF OnePlace
  <2>6. taken' # {} => front.run # Poller
    BY <2>1, <1>0 DEF BusyForAReason
  <2>7. gone' \subseteq [what : ended', why : Reasons]
    BY <2>1, <1>f
  <2> QED BY <2>1, <2>2, <2>5, <2>6, <2>7, <1>1, <1>f
<1>3. ASSUME NEW why \in Reasons, why # "busy", NEW cs, cs \subseteq DOMAIN waiting, Lost(cs, why),
             taken = {}, taken' = DOMAIN waiting \ cs, DOMAIN waiting' = {}, front.run = NoRunner,
             UNCHANGED <<front, request, planFile, pending, words, ended, kept, shown, carried>>
      PROVE  RemoteInv'
  <2>1. cs \subseteq Held /\ Held' = Held \ cs /\ Apart'
    BY <1>3, <1>0 DEF Held, Apart, OnePlace
  <2>2. /\ OnePlace' /\ gone' \subseteq [what : ended, why : Reasons]
        /\ \A g \in gone' : g \in gone \/ g.why = why
    BY <1>3, <2>1, <1>0, PlacesLost
  <2>3. taken' # {} => front.run # Poller
    BY <1>3
  <2> QED BY <1>3, <2>2, <2>3, <1>1, <1>f
<1>4. CASE PollTakes
  <2>1. /\ front.run = NoRunner /\ taken = {} /\ taken' = Ours /\ DOMAIN waiting' = {}
        /\ Lost(DOMAIN waiting \ Ours, "other session")
        /\ UNCHANGED <<front, request, planFile, pending, words, ended, kept, shown, carried>>
    BY <1>4, Zenon DEF PollTakes, Idle
  <2>2. Ours = DOMAIN waiting \ (DOMAIN waiting \ Ours)
    BY DEF Ours
  <2>3. "other session" \in Reasons /\ "other session" # "busy"
    BY DEF Reasons
  <2> DEFINE cs == DOMAIN waiting \ Ours
  <2>4. cs \subseteq DOMAIN waiting /\ taken' = DOMAIN waiting \ cs /\ Lost(cs, "other session")
    BY <2>1, <2>2
  <2> HIDE DEF cs
  <2> QED BY <2>1, <2>3, <2>4, <1>3
<1>5. CASE PollFails
  <2>1. /\ front.run = NoRunner /\ taken = {} /\ taken' = {} /\ DOMAIN waiting' = {}
        /\ Lost(DOMAIN waiting, "poller ended")
        /\ UNCHANGED <<front, request, planFile, pending, words, ended, kept, shown, carried>>
    BY <1>5, Zenon DEF PollFails, Idle
  <2>2. "poller ended" \in Reasons /\ "poller ended" # "busy"
    BY DEF Reasons
  <2>3. taken' = DOMAIN waiting \ DOMAIN waiting
    BY <2>1
  <2> QED BY <2>1, <2>2, <2>3, <1>3
<1>6. CASE PollTells /\ ~Idle
  <2>1. /\ taken # {} /\ taken' = {} /\ Lost(taken, "busy")
        /\ UNCHANGED <<front, request, planFile, pending, words, polling, waiting, ended, kept, shown, carried>>
    BY <1>6 DEF PollTells
  <2>2. Used
    <3>1. CASE front.plan # NoPlan
      BY <3>1, <1>0 DEF BusyForAReason
    <3>2. CASE front.run # NoRunner
      <4>1. front.run \in RemoteRequests
        BY <3>2, <2>1, <1>f, <1>0 DEF BusyForAReason
      <4>2. request[front.run].at = "run"
        BY <4>1, <1>0 DEF RunsMatch
      <4> QED BY <4>1, <4>2 DEF Used
    <3> QED BY <3>1, <3>2, <1>6 DEF Idle
  <2>3. "busy" \in Reasons
    BY DEF Reasons
  <2>4. taken \subseteq Held /\ Held' = Held \ taken /\ Apart'
    BY <2>1, <1>0 DEF Held, Apart, OnePlace
  <2>5. OnePlace' /\ gone' \subseteq [what : ended, why : Reasons]
    BY <2>1, <2>3, <2>4, <1>0, PlacesLost
  <2> QED BY <2>1, <2>2, <2>5, <1>1, <1>f
<1>7. CASE PollTells /\ Idle
  <2>1. /\ front.run = NoRunner /\ taken' = {}
        /\ front' = [front EXCEPT !.run = Poller, !.cancelled = FALSE]
        /\ words' = words \cup taken
        /\ UNCHANGED <<request, planFile, pending, waiting, ended, gone, kept, shown, carried>>
    BY <1>7, Zenon DEF PollTells, Idle
  <2>2. /\ front' \in FrontRow /\ front'.run = Poller
        /\ front'.planning = front.planning /\ front'.plan = front.plan /\ front'.shows = front.shows
    BY ONLY <2>1, <1>f, RemoteNames DEF FrontRow, Runners
  <2>4. RemoteTypes'
    <3>1. words' \cup taken' \cup DOMAIN waiting' \cup kept'.of \subseteq ended'
      BY <2>1, <1>f
    <3> QED BY <3>1, <2>1, <2>2, <1>0 DEF RemoteTypes
  <2>5. RunsMatch'
    <3>1. pending = {} /\ \A q \in RemoteRequests : request[q].at # "run" /\ front'.run # q
      BY <2>1, <2>2, <1>0 DEF RunsMatch
    <3>2. \A q \in RemoteRequests : request[q].names <= front'.shows
      BY <2>2, <1>0 DEF RunsMatch
    <3> QED BY <3>1, <3>2, <2>1 DEF RunsMatch
  <2>6. PlansMatch'
    BY <2>1, <2>2, <1>0 DEF PlansMatch
  <2>7. OnePlace'
    <3>1. Held' = Held /\ Apart'
      BY <2>1, <1>0 DEF Held, Apart, OnePlace
    <3> QED BY <3>1, <2>1, <1>0 DEF OnePlace
  <2>8. Summarised'
    BY <2>1, <1>0 DEF Summarised
  <2>9. BusyForAReason'
    BY <2>1, <2>2, <1>0 DEF BusyForAReason, Used
  <2> QED BY <2>4, <2>5, <2>6, <2>7, <2>8, <2>9 DEF RemoteInv
<1> QED BY <1>2, <1>4, <1>5, <1>6, <1>7

LEMMA RemoteInvNext == RemoteInv /\ [RemoteNext]_remoteVars => RemoteInv'
<1> SUFFICES ASSUME RemoteInv, [RemoteNext]_remoteVars PROVE RemoteInv'
  OBVIOUS
<1>1. ASSUME NEW r \in RemoteRequests,
             \/ Arrives(r) \/ Refused(r) \/ MessageRuns(r) \/ PlanMode(r) \/ ConversationReplaced(r)
             \/ CompactAnnounced(r) \/ CompactSummarises(r) \/ CompactEnds(r)
             \/ AnswerDropped(r) \/ PlanApproved(r) \/ PlanAnswered(r)
      PROVE  RemoteInv'
  BY <1>1, RequestSteps, CommandSteps, CompactSteps, AnswerSteps, Zenon
<1>2. CASE RunAsks \/ RunAnswered \/ PlanWritten \/ PlanShown \/ CancelSent \/ RunOver
  BY <1>2, RunSteps, PlanIsShown, RunEnds, Zenon
<1>3. CASE (\E c \in Completions : TaskCompletes(c)) \/ PollTakes \/ PollFails \/ PollTells
  BY <1>3, BackgroundSteps, Zenon
<1>4. CASE UNCHANGED remoteVars
  <2> USE <1>4 DEF remoteVars, completionVars
  <2>1. RemoteTypes /\ RunsMatch /\ PlansMatch /\ OnePlace /\ Summarised /\ BusyForAReason
    BY DEF RemoteInv
  <2>2. RemoteTypes'
    BY <2>1 DEF RemoteTypes
  <2>3. RunsMatch' /\ PlansMatch'
    BY <2>1 DEF RunsMatch, PlansMatch
  <2>4. OnePlace'
    BY <2>1, PlacesKept
  <2>5. Summarised' /\ BusyForAReason'
    BY <2>1 DEF Summarised, BusyForAReason, Used
  <2> QED BY <2>2, <2>3, <2>4, <2>5 DEF RemoteInv
<1> QED BY <1>1, <1>2, <1>3, <1>4, Zenon DEF RemoteNext

LEMMA RemoteInvGives == RemoteInv => RemoteTypeOK /\ RemoteInOrder /\ CompletionsAccounted
<1> SUFFICES ASSUME RemoteInv PROVE RemoteTypeOK /\ RemoteInOrder /\ CompletionsAccounted
  OBVIOUS
<1> USE RemoteNames DEF completionVars
<1>0. RemoteTypes /\ RunsMatch /\ PlansMatch /\ OnePlace /\ Summarised /\ BusyForAReason
  BY DEF RemoteInv
<1>f. front \in FrontRow /\ front.run \in Runners \cup {NoRunner}
  BY <1>0 DEF RemoteTypes, FrontRow
<1>1. RemoteTypeOK
  <2>1. \A g \in gone : g.what \in ended
    BY <1>0 DEF RemoteTypes
  <2> QED BY <2>1, <1>0 DEF RemoteTypes, RemoteTypeOK, FrontRow, PlanOf, RequestRow, Stages
<1>2. RemoteInOrder
  <2> DEFINE running == {r \in RemoteRequests : request[r].at = "run"} \cup ({Poller} \cap {front.run})
  <2>1. CASE front.run = NoRunner
    <3>1. running = {}
      BY <2>1, <1>0 DEF RunsMatch
    <3>2. Cardinality(running) = 0
      BY <3>1, FS_EmptySet
    <3> QED BY <3>2, <2>1, <1>0 DEF RunsMatch, PlansMatch, RemoteInOrder
  <2>2. CASE front.run # NoRunner
    <3>1. running = {front.run}
      BY <2>2, <1>f, <1>0 DEF RunsMatch
    <3>2. Cardinality(running) = 1
      BY <3>1, FS_Singleton
    <3> QED BY <3>2, <2>2, <1>0 DEF RunsMatch, PlansMatch, RemoteInOrder
  <2> QED BY <2>1, <2>2
<1>3. CompletionsAccounted
  <2> SUFFICES ASSUME NEW c \in Completions
               PROVE  /\ Cardinality(PlacesOf(c)) = (IF c \in ended THEN 1 ELSE 0)
                      /\ "busy" \in PlacesOf(c) => Used
    BY DEF CompletionsAccounted, Used
  <2> DEFINE G == {g.why : g \in {h \in gone : h.what = c}}
  <2>1. /\ \A p : p \in PlacesOf(c) <=> \/ p \in G
                                        \/ p = "waiting" /\ c \in DOMAIN waiting
                                        \/ p = "taken" /\ c \in taken
                                        \/ p = "told" /\ c \in words
    BY DEF PlacesOf
  <2>2. /\ words \cup taken \cup DOMAIN waiting \subseteq ended
        /\ \A g \in gone : g.what \in ended
    BY <1>0 DEF RemoteTypes
  <2>3. CASE c \notin ended
    <3>1. PlacesOf(c) = {}
      BY <2>1, <2>2, <2>3
    <3> QED BY <3>1, <2>3, FS_EmptySet
  <2>4. CASE c \in ended /\ c \in Held
    <3>1. G = {}
      BY <2>4, <1>0 DEF OnePlace
    <3>2. PICK p \in {"waiting", "taken", "told"} : PlacesOf(c) = {p}
      <4>1. \/ c \in words /\ c \notin taken /\ c \notin DOMAIN waiting
            \/ c \in taken /\ c \notin words /\ c \notin DOMAIN waiting
            \/ c \in DOMAIN waiting /\ c \notin taken /\ c \notin words
        BY <2>4, <1>0 DEF Held, Apart, OnePlace
      <4> HIDE DEF G
      <4>2. CASE c \in words /\ c \notin taken /\ c \notin DOMAIN waiting
        <5>1. PlacesOf(c) = {"told"}
          BY <4>2, <3>1, <2>1
        <5> QED BY <5>1
      <4>3. CASE c \in taken /\ c \notin words /\ c \notin DOMAIN waiting
        <5>1. PlacesOf(c) = {"taken"}
          BY <4>3, <3>1, <2>1
        <5> QED BY <5>1
      <4>4. CASE c \in DOMAIN waiting /\ c \notin taken /\ c \notin words
        <5>1. PlacesOf(c) = {"waiting"}
          BY <4>4, <3>1, <2>1
        <5> QED BY <5>1
      <4> QED BY <4>1, <4>2, <4>3, <4>4
    <3>3. Cardinality(PlacesOf(c)) = 1
      BY <3>2, FS_Singleton
    <3> QED BY <3>2, <3>3, <2>4
  <2>5. CASE c \in ended /\ c \notin Held
    <3>1. PICK g \in gone : g.what = c
      BY <2>5, <1>0 DEF OnePlace
    <3>2. \A h \in gone : h.what = c => h = g
      BY <3>1, <1>0 DEF OnePlace
    <3>3. PlacesOf(c) = {g.why}
      BY <3>1, <3>2, <2>1, <2>5 DEF Held
    <3>4. Cardinality(PlacesOf(c)) = 1
      BY <3>3, FS_Singleton
    <3>5. "busy" \in PlacesOf(c) => Used
      BY <3>1, <3>3, <1>0 DEF BusyForAReason
    <3> QED BY <3>4, <3>5, <2>5
  <2> QED BY <2>3, <2>4, <2>5
<1> QED BY <1>1, <1>2, <1>3

-----------------------------------------------------------------------------
(* However agents spawn agents, by tools, teams or schedules, a chain of    *)
(* them ends, and none gains authority on the way.                          *)
THEOREM AgentChainsEnd == KindSpec => [](NestingEnds /\ NoWiderMode)
<1>1. KindInv => NestingEnds /\ NoWiderMode
  BY KindInvGives
<1> QED BY <1>1, KindInvInit, KindInvNext, PTL DEF KindSpec

(* A run without a user that ended leaves its row and its step closed, and  *)
(* the model is never asked while a call has no result; a run cut off at    *)
(* its error hook is no ending.                                             *)
THEOREM QuietRunsClose == QuietSpec => []QuietClosed
<1>1. QuietInv => QuietClosed
  BY QuietInvGives
<1> QED BY <1>1, QuietInvInit, QuietInvNext, PTL DEF QuietSpec

(* The lead hears once of every task whose coroutine ran, a board row is    *)
(* held exactly as long as its task has no outcome, and after the shutdown  *)
(* nothing runs.                                                            *)
THEOREM TasksAlwaysReported == SubSpec => []TasksReported
<1>1. SubInv => TasksReported
  BY SubInvGives
<1> QED BY <1>1, SubInvInit, SubInvNext, PTL DEF SubSpec

(* A task ends cancelled only if it was asked to, or the token of the run it *)
(* was started in was set; and a cancelled task is never reported otherwise.  *)
THEOREM CancellationStands == SubSpec => CancelStaysInTheRun /\ CancelledIsFinal
<1>1. SubInv /\ [SubNext]_subVars =>
        /\ [\A a \in Agents : bg'[a].st = "cancelled" /\ bg[a].st # "cancelled" =>
               \/ bg'[a].asked
               \/ bg[a].token \in stopped]_subVars
        /\ [\A a \in Agents : bg[a].st = "cancelled" => bg'[a].st = "cancelled"]_subVars
  BY CancelSteps DEF CancelStep
<1> QED BY <1>1, SubInvInit, SubInvNext, PTL DEF SubSpec, CancelStaysInTheRun, CancelledIsFinal

(* No tree goes with work in it, unless it was asked for or git would not   *)
(* say, the work came behind the judgement, or the tree was taken over      *)
(* after a restart; and a session finds the tree its file names.            *)
THEOREM WorkInTreesIsKept == TreeSpec => [](WorkIsKept /\ SessionHasItsTree)
<1>1. TreeInv => WorkIsKept /\ SessionHasItsTree
  BY TreeInvGives
<1> QED BY <1>1, TreeInvInit, TreeInvNext, PTL DEF TreeSpec

(* No edit replaces a text that no agent has read, and a checkpoint         *)
(* restores the text it stands for, but for the two cases it names.         *)
THEOREM EditsReplaceWhatWasSeen == FilesSpec => [](NothingUnseenReplaced /\ CheckpointsStand)
<1>1. FilesInv => NothingUnseenReplaced /\ CheckpointsStand
  BY FilesInvGives
<1> QED BY <1>1, FilesInvInit, FilesInvNext, PTL DEF FilesSpec

(* No session is told of a memory twice, however searches and sends overlap. *)
THEOREM MemoriesToldOnce == RecallSpec => []ToldOnce
<1>1. RecallInv => ToldOnce
  BY RecallInvGives
<1> QED BY <1>1, RecallInvInit, RecallInvNext, PTL DEF RecallSpec

(* Where no known race came in between, one turn works in the terminal, the *)
(* screen shows it, Ctrl-C cancels it, and what was polled is in the        *)
(* conversation.                                                            *)
THEOREM ScreenAlwaysTrue == ScreenSpec => []ScreenTellsTheTruth
<1>1. ScreenInv => ScreenTellsTheTruth
  BY ScreenInvGives
<1> QED BY <1>1, ScreenInvInit, ScreenInvNext, PTL DEF ScreenSpec

(* In the browser front end one run streams at a time and the open          *)
(* questions are its own, a plan is carried out once with the text that was *)
(* shown, and a completion is at exactly one place, which is the            *)
(* conversation in use or one of the known losses once it is polled.        *)
THEOREM BrowserRunsInOrder == RemoteSpec => [](RemoteInOrder /\ CompletionsAccounted)
<1>1. RemoteInv => RemoteInOrder /\ CompletionsAccounted
  BY RemoteInvGives
<1> QED BY <1>1, RemoteInvInit, RemoteInvNext, PTL DEF RemoteSpec
=============================================================================
