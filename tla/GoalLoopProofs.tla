--------------------------- MODULE GoalLoopProofs ---------------------------
(***************************************************************************)
(* Theorems about GoalLoop, for any number of runs, rounds and tokens and   *)
(* any crashes, lapses, switches of the session and confirmed retries.      *)
(*                                                                         *)
(* The usage and the lease need no more than the invariant AccountInv; what *)
(* the journal is evidence of needs JournalInv, and with it that a run does *)
(* not read the journal while another one is active (~Overlapping): without *)
(* it the run goal_overlap finds a superseded verdict taken back.           *)
(*                                                                         *)
(* The sum of the usage and the count of rounds without progress are        *)
(* recursive functions; what they compute is shown by induction in the form *)
(* of sets: a nonempty set of numbers has a least element.                  *)
(***************************************************************************)
EXTENDS GoalLoop, FiniteSetTheorems, WellFoundedInduction, TLAPS

(* Every nonempty set of numbers has a least element. *)
LEMMA LeastNumber ==
  ASSUME NEW S \in SUBSET Nat, S # {}
  PROVE  \E m \in S : \A n \in S : m <= n
<1>1. IsWellFoundedOn(OpToRel(<, Nat), Nat)
  BY NatLessThanWellFounded, Zenon
<1>2. S \subseteq Nat
  OBVIOUS
<1>3. PICK m \in S : \A n \in S : <<n, m>> \notin OpToRel(<, Nat)
  BY <1>1, <1>2, WFMin, Zenon
<1>4. \A n \in S : n < m => <<n, m>> \in OpToRel(<, Nat)
  BY Zenon DEF OpToRel
<1>5. \A n \in S : ~(n < m)
  BY <1>3, <1>4, Zenon
<1>6. \A n \in S : m <= n
  <2> HIDE <1>3, <1>4
  <2> QED BY <1>5, SMT
<1> QED BY <1>6

(* The sum of FoldFunction, as a function of the rows that are added up.    *)
Pick(s) == CHOOSE x \in s : TRUE
Row(it, f, s) == IF s = {} THEN 0 ELSE f[Pick(s)].spent + it[s \ {Pick(s)}]

IsTally(it, f) == it = [s \in SUBSET DOMAIN f |-> Row(it, f, s)]

Tally(f) == CHOOSE it : IsTally(it, f)

LEMMA SpentTally == Spent = Tally(node)[DOMAIN node]
BY Zenon DEF Spent, Tally, IsTally, Row, Pick, FoldFunction, FoldFunctionOnSet, MapThenFoldSet

Small(D, n) == {s \in SUBSET D : Cardinality(s) <= n}

LEMMA PickMember == ASSUME NEW s, s # {} PROVE Pick(s) \in s
BY Zenon DEF Pick

LEMMA Smaller ==
  ASSUME NEW D, IsFiniteSet(D), NEW s \in SUBSET D, s # {}
  PROVE  /\ s \ {Pick(s)} \in SUBSET D
         /\ Cardinality(s) \in Nat
         /\ Cardinality(s \ {Pick(s)}) = Cardinality(s) - 1
<1>1. IsFiniteSet(s) /\ Cardinality(s) \in Nat
  BY FS_Subset, FS_CardinalityType
<1>2. Pick(s) \in s
  BY PickMember
<1>3. Cardinality(s \ {Pick(s)}) = Cardinality(s) - 1
  BY <1>1, <1>2, FS_RemoveElement
<1> QED BY <1>1, <1>3

LEMMA TallyDefined ==
  ASSUME NEW f, IsFiniteSet(DOMAIN f)
  PROVE  IsTally(Tally(f), f)
<1> DEFINE D == DOMAIN f
<1> DEFINE Part(n) == \E it : it = [s \in Small(D, n) |-> Row(it, f, s)]
<1>1. \A s \in SUBSET D : Cardinality(s) \in Nat /\ (Cardinality(s) = 0 => s = {})
  BY FS_Subset, FS_CardinalityType, FS_EmptySet
<1>2. Part(0)
  <2> DEFINE it == [s \in Small(D, 0) |-> 0]
  <2>1. \A s \in Small(D, 0) : s = {}
    BY <1>1 DEF Small
  <2>2. \A s \in Small(D, 0) : Row(it, f, s) = 0
    BY <2>1 DEF Row
  <2>3. it = [s \in Small(D, 0) |-> Row(it, f, s)]
    BY <2>2
  <2> QED BY <2>3
<1>3. ASSUME NEW n \in Nat, Part(n)
      PROVE  Part(n + 1)
  <2>1. PICK it : it = [s \in Small(D, n) |-> Row(it, f, s)]
    BY <1>3
  <2> DEFINE jt == [s \in Small(D, n + 1) |-> IF s \in Small(D, n) THEN it[s] ELSE Row(it, f, s)]
  <2>2. ASSUME NEW s \in Small(D, n + 1)
        PROVE  jt[s] = Row(jt, f, s)
    <3>1. CASE s = {}
      <4>1. s \in Small(D, n)
        BY <3>1, FS_EmptySet DEF Small
      <4>2. jt[s] = it[s] /\ it[s] = Row(it, f, s)
        BY <4>1, <2>1
      <4> QED BY <4>2, <3>1 DEF Row
    <3>2. CASE s # {}
      <4> DEFINE t == s \ {Pick(s)}
      <4>1. s \in SUBSET D /\ Cardinality(s) <= n + 1
        BY DEF Small
      <4>2. t \in SUBSET D /\ Cardinality(s) \in Nat /\ Cardinality(t) = Cardinality(s) - 1
        BY <4>1, <3>2, Smaller
      <4>3. t \in Small(D, n) /\ t \in Small(D, n + 1)
        BY <4>1, <4>2 DEF Small
      <4>4. jt[t] = it[t]
        BY <4>3
      <4>5. jt[s] = Row(it, f, s)
        <5>1. CASE s \in Small(D, n)
          <6>1. it[s] = Row(it, f, s)
            BY <5>1, <2>1
          <6> QED BY <5>1, <6>1
        <5>2. CASE s \notin Small(D, n)
          BY <5>2
        <5> QED BY <5>1, <5>2
      <4>6. Row(it, f, s) = f[Pick(s)].spent + it[t]
        BY <3>2, Zenon DEF Row
      <4>7. Row(jt, f, s) = f[Pick(s)].spent + jt[t]
        BY <3>2, Zenon DEF Row
      <4> QED BY <4>4, <4>5, <4>6, <4>7, Zenon
    <3> QED BY <3>1, <3>2
  <2>3. jt = [s \in Small(D, n + 1) |-> Row(jt, f, s)]
    <3>1. jt = [s \in Small(D, n + 1) |-> jt[s]]
      BY Zenon
    <3> HIDE DEF jt
    <3> QED BY <2>2, <3>1
  <2> QED BY <2>3
<1> DEFINE Bad == {n \in Nat : ~Part(n)}
<1>4. Part(Cardinality(D))
  <2> SUFFICES ASSUME ~Part(Cardinality(D)) PROVE FALSE
    OBVIOUS
  <2>1. Cardinality(D) \in Bad
    BY <1>1
  <2>2. PICK m \in Bad : \A n \in Bad : m <= n
    <3> HIDE DEF Part
    <3> QED BY <2>1, LeastNumber
  <2>3. m \in Nat /\ ~Part(m)
    BY <2>2
  <2> HIDE DEF Part
  <2>4. m # 0
    BY <1>2, <2>3
  <2>5. m - 1 \in Nat /\ Part(m - 1)
    BY <2>2, <2>3, <2>4
  <2>6. Part((m - 1) + 1)
    BY <2>5, <1>3
  <2>7. (m - 1) + 1 = m
    BY <2>3
  <2> QED BY <2>3, <2>6, <2>7
<1>5. Small(D, Cardinality(D)) = SUBSET D
  BY FS_Subset DEF Small
<1>6. \E it : IsTally(it, f)
  BY <1>4, <1>5, Zenon DEF IsTally
<1> QED BY <1>6, Zenon DEF Tally

LEMMA TallyRow ==
  ASSUME NEW f, IsFiniteSet(DOMAIN f), NEW s \in SUBSET DOMAIN f
  PROVE  Tally(f)[s] = Row(Tally(f), f, s)
<1>1. Tally(f) = [t \in SUBSET DOMAIN f |-> Row(Tally(f), f, t)]
  BY TallyDefined, Zenon DEF IsTally
<1> HIDE DEF Tally
<1> DEFINE it == Tally(f)
<1>2. it = [t \in SUBSET DOMAIN f |-> Row(it, f, t)]
  BY <1>1
<1> HIDE DEF it
<1>3. it[s] = Row(it, f, s)
  BY <1>2, Zenon
<1> QED BY <1>3 DEF it

(* The sum over rows of which one has grown by d. *)
LEMMA TallyGrows ==
  ASSUME NEW D, IsFiniteSet(D), NEW d \in Nat, NEW x \in D,
         NEW f, DOMAIN f = D, NEW g, DOMAIN g = D,
         \A y \in D : f[y].spent \in Nat,
         \A y \in D : g[y].spent = f[y].spent + (IF y = x THEN d ELSE 0)
  PROVE  /\ Tally(f)[D] \in Nat
         /\ Tally(g)[D] = Tally(f)[D] + d
<1> DEFINE F == Tally(f)
           G == Tally(g)
           Good(s) == F[s] \in Nat /\ G[s] = F[s] + (IF x \in s THEN d ELSE 0)
<1>1. \A s \in SUBSET D : Cardinality(s) \in Nat
  BY FS_Subset, FS_CardinalityType
<1>2. \A s \in SUBSET D : F[s] = Row(F, f, s) /\ G[s] = Row(G, g, s)
  BY TallyRow
<1> HIDE DEF F, G
<1>3. ASSUME NEW s \in SUBSET D,
             \A t \in SUBSET D : Cardinality(t) < Cardinality(s) => Good(t)
      PROVE  Good(s)
  <2>1. CASE s = {}
    <3>1. F[s] = 0 /\ G[s] = 0
      BY <1>2, <2>1, Zenon DEF Row
    <3> QED BY <3>1, <2>1
  <2>2. CASE s # {}
    <3> DEFINE y == Pick(s)
               t == s \ {y}
    <3>1. y \in s
      BY <2>2, PickMember
    <3>2. t \in SUBSET D /\ Cardinality(t) < Cardinality(s)
      BY <2>2, Smaller
    <3>3. F[s] = f[y].spent + F[t] /\ G[s] = g[y].spent + G[t]
      BY <1>2, <2>2, Zenon DEF Row
    <3>4. F[t] \in Nat /\ G[t] = F[t] + (IF x \in t THEN d ELSE 0)
      BY <3>2, <1>3
    <3>5. f[y].spent \in Nat /\ g[y].spent = f[y].spent + (IF y = x THEN d ELSE 0)
      BY <3>1
    <3>6. x \in t <=> x \in s /\ x # y
      OBVIOUS
    <3> HIDE DEF y, t
    <3> QED BY <3>1, <3>3, <3>4, <3>5, <3>6
  <2> QED BY <2>1, <2>2
<1> HIDE DEF Good
<1> DEFINE Bad == {n \in Nat : \E s \in SUBSET D : Cardinality(s) = n /\ ~Good(s)}
<1>4. \A s \in SUBSET D : Good(s)
  <2> SUFFICES ASSUME NEW s \in SUBSET D, ~Good(s) PROVE FALSE
    OBVIOUS
  <2>1. Cardinality(s) \in Bad
    BY <1>1
  <2>2. PICK m \in Bad : \A n \in Bad : m <= n
    BY <2>1, LeastNumber
  <2>3. PICK t \in SUBSET D : Cardinality(t) = m /\ ~Good(t)
    BY <2>2
  <2>4. \A u \in SUBSET D : Cardinality(u) < Cardinality(t) => Good(u)
    BY <1>1, <2>2, <2>3
  <2> QED BY <1>3, <2>3, <2>4
<1>5. Good(D)
  BY <1>4
<1> QED BY <1>5 DEF Good, F, G

(* The sum over rows that have used nothing. *)
LEMMA TallyZero ==
  ASSUME NEW f, IsFiniteSet(DOMAIN f), \A y \in DOMAIN f : f[y].spent = 0
  PROVE  Tally(f)[DOMAIN f] = 0
<1> DEFINE D == DOMAIN f
           F == Tally(f)
<1>1. \A s \in SUBSET D : Cardinality(s) \in Nat
  BY FS_Subset, FS_CardinalityType
<1>2. \A s \in SUBSET D : F[s] = Row(F, f, s)
  BY TallyRow
<1> HIDE DEF F
<1>3. ASSUME NEW s \in SUBSET D,
             \A t \in SUBSET D : Cardinality(t) < Cardinality(s) => F[t] = 0
      PROVE  F[s] = 0
  <2>1. CASE s = {}
    BY <1>2, <2>1, Zenon DEF Row
  <2>2. CASE s # {}
    <3> DEFINE t == s \ {Pick(s)}
    <3>1. Pick(s) \in s
      BY <2>2, PickMember
    <3>2. t \in SUBSET D /\ Cardinality(t) < Cardinality(s)
      BY <2>2, Smaller
    <3>3. F[s] = f[Pick(s)].spent + F[t]
      BY <1>2, <2>2, Zenon DEF Row
    <3>4. F[t] = 0
      BY <3>2, <1>3
    <3> HIDE DEF t
    <3> QED BY <3>1, <3>3, <3>4
  <2> QED BY <2>1, <2>2
<1> DEFINE Bad == {n \in Nat : \E s \in SUBSET D : Cardinality(s) = n /\ F[s] # 0}
<1>4. \A s \in SUBSET D : F[s] = 0
  <2> SUFFICES ASSUME NEW s \in SUBSET D, F[s] # 0 PROVE FALSE
    OBVIOUS
  <2>1. Cardinality(s) \in Bad
    BY <1>1
  <2>2. PICK m \in Bad : \A n \in Bad : m <= n
    BY <2>1, LeastNumber
  <2>3. PICK t \in SUBSET D : Cardinality(t) = m /\ F[t] # 0
    BY <2>2
  <2>4. \A u \in SUBSET D : Cardinality(u) < Cardinality(t) => F[u] = 0
    BY <1>1, <2>2, <2>3
  <2> QED BY <1>3, <2>3, <2>4
<1> QED BY <1>4 DEF F

(* The sum over the rows of the journal. *)
LEMMA NodesFinite == IsFiniteSet(Nodes) /\ <<"worker", 1>> \in Nodes
<1>1. IsFiniteSet(Rounds) /\ 1 \in Rounds
  BY FS_Interval, GoalAssumption DEF Rounds
<1>2. IsFiniteSet(Phases)
  <2>1. IsFiniteSet({"worker"} \cup {"verifier"})
    BY FS_Singleton, FS_AddElement
  <2>2. Phases = {"worker"} \cup {"verifier"}
    BY DEF Phases
  <2> QED BY <2>1, <2>2
<1>3. IsFiniteSet(Nodes)
  BY <1>1, <1>2, FS_Product DEF Nodes
<1> QED BY <1>1, <1>3 DEF Nodes, Phases

LEMMA SpentNat == TypeOK => Spent \in Nat
<1> SUFFICES ASSUME TypeOK PROVE Spent \in Nat
  OBVIOUS
<1>1. DOMAIN node = Nodes /\ \A y \in Nodes : node[y].spent \in Nat
  BY DEF TypeOK, NodeRow
<1>2. \A y \in Nodes : node[y].spent = node[y].spent + (IF y = <<"worker", 1>> THEN 0 ELSE 0)
  BY <1>1
<1>3. Tally(node)[Nodes] \in Nat
  BY <1>1, <1>2, NodesFinite, TallyGrows
<1> QED BY <1>1, <1>3, SpentTally

(* What one step adds to the row of one phase it adds to the sum. *)
LEMMA SpentGrows ==
  ASSUME TypeOK, TypeOK', NEW pn \in Nodes, NEW d \in Nat,
         node'[pn].spent = node[pn].spent + d,
         \A y \in Nodes \ {pn} : node'[y].spent = node[y].spent
  PROVE  Spent' = Spent + d
<1>1. /\ DOMAIN node = Nodes /\ \A y \in Nodes : node[y].spent \in Nat
      /\ DOMAIN node' = Nodes
  BY DEF TypeOK, NodeRow
<1>2. \A y \in Nodes : node'[y].spent = node[y].spent + (IF y = pn THEN d ELSE 0)
  BY <1>1
<1>3. Tally(node')[Nodes] = Tally(node)[Nodes] + d
  BY <1>1, <1>2, NodesFinite, TallyGrows
<1>4. Spent' = Tally(node')[DOMAIN node']
  BY Zenon DEF Spent, Tally, IsTally, Row, Pick, FoldFunction, FoldFunctionOnSet, MapThenFoldSet
<1> QED BY <1>1, <1>3, <1>4, SpentTally

LEMMA SpentSame ==
  ASSUME TypeOK, TypeOK', \A y \in Nodes : node'[y].spent = node[y].spent
  PROVE  Spent' = Spent
<1>1. <<"worker", 1>> \in Nodes
  BY NodesFinite
<1>2. node[<<"worker", 1>>].spent \in Nat
  BY <1>1 DEF TypeOK, NodeRow
<1>3. Spent' = Spent + 0
  BY <1>1, <1>2, SpentGrows
<1> QED BY <1>3, SpentNat

-----------------------------------------------------------------------------
(* What a step does to the local variables of a run. *)
(* The places a run can be at. *)
Places == Working \cup {"idle", "claim", "done", "dead"}

(* A function of the runs that was changed at one of them. *)
LEMMA Assigned ==
  ASSUME NEW S, NEW f \in [Runs -> S], NEW r \in Runs, NEW m \in S, NEW g,
         g = [f EXCEPT ![r] = m]
  PROVE  /\ g \in [Runs -> S]
         /\ g[r] = m
         /\ \A s \in Runs \ {r} : g[s] = f[s]
OBVIOUS

LEMMA SetCount ==
  ASSUME NEW m \in Local, NEW c \in Nat
  PROVE  LET k == [m EXCEPT !.count = c]
         IN  /\ k \in Local
             /\ k.count = c /\ k.token = m.token /\ k.number = m.number
             /\ k.repeats = m.repeats /\ k.previous = m.previous /\ k.phase = m.phase
             /\ k.verdict = m.verdict /\ k.cost = m.cost
BY DEF Local

LEMMA SetToken ==
  ASSUME NEW m \in Local, NEW c \in Nat
  PROVE  LET k == [m EXCEPT !.token = c]
         IN  /\ k \in Local
             /\ k.count = m.count /\ k.token = c /\ k.number = m.number
             /\ k.repeats = m.repeats /\ k.previous = m.previous /\ k.phase = m.phase
             /\ k.verdict = m.verdict /\ k.cost = m.cost
BY DEF Local

LEMMA SetNumber ==
  ASSUME NEW m \in Local, NEW c \in Rounds
  PROVE  LET k == [m EXCEPT !.number = c]
         IN  /\ k \in Local
             /\ k.count = m.count /\ k.token = m.token /\ k.number = c
             /\ k.repeats = m.repeats /\ k.previous = m.previous /\ k.phase = m.phase
             /\ k.verdict = m.verdict /\ k.cost = m.cost
BY DEF Local

LEMMA SetPhase ==
  ASSUME NEW m \in Local, NEW p \in Phases
  PROVE  LET k == [m EXCEPT !.phase = p]
         IN  /\ k \in Local
             /\ k.count = m.count /\ k.token = m.token /\ k.number = m.number
             /\ k.repeats = m.repeats /\ k.previous = m.previous /\ k.phase = p
             /\ k.verdict = m.verdict /\ k.cost = m.cost
BY DEF Local

LEMMA SetVerdict ==
  ASSUME NEW m \in Local, NEW v \in Verdict \cup {None}
  PROVE  LET k == [m EXCEPT !.verdict = v]
         IN  /\ k \in Local
             /\ k.count = m.count /\ k.token = m.token /\ k.number = m.number
             /\ k.repeats = m.repeats /\ k.previous = m.previous /\ k.phase = m.phase
             /\ k.verdict = v /\ k.cost = m.cost
BY DEF Local

LEMMA SetCost ==
  ASSUME NEW m \in Local, NEW c \in Nat
  PROVE  LET k == [m EXCEPT !.cost = c]
         IN  /\ k \in Local
             /\ k.count = m.count /\ k.token = m.token /\ k.number = m.number
             /\ k.repeats = m.repeats /\ k.previous = m.previous /\ k.phase = m.phase
             /\ k.verdict = m.verdict /\ k.cost = c
BY DEF Local

LEMMA SetCostVerdict ==
  ASSUME NEW m \in Local, NEW c \in Nat, NEW v \in Verdict \cup {None}
  PROVE  LET k == [m EXCEPT !.cost = c, !.verdict = v]
         IN  /\ k \in Local
             /\ k.count = m.count /\ k.token = m.token /\ k.number = m.number
             /\ k.repeats = m.repeats /\ k.previous = m.previous /\ k.phase = m.phase
             /\ k.verdict = v /\ k.cost = c
BY DEF Local

LEMMA SetRepeats ==
  ASSUME NEW m \in Local, NEW c \in Nat, NEW q \in Signatures
  PROVE  LET k == [m EXCEPT !.repeats = c, !.previous = q]
         IN  /\ k \in Local
             /\ k.count = m.count /\ k.token = m.token /\ k.number = m.number
             /\ k.repeats = c /\ k.previous = q /\ k.phase = m.phase
             /\ k.verdict = m.verdict /\ k.cost = m.cost
BY DEF Local

LEMMA FreshLocal ==
  /\ Fresh \in Local
  /\ Fresh.number = 1 /\ Fresh.repeats = 0 /\ Fresh.previous = None
  /\ Fresh.verdict = None /\ Fresh.cost = 0
BY GoalAssumption DEF Fresh, Local, Rounds, Phases

Others(r) == \A s \in Runs \ {r} : pc'[s] = pc[s] /\ my'[s] = my[s]

LEMMA OpenedFinite ==
  IsFiniteSet(Rounds) /\ IsFiniteSet(Opened) /\ Cardinality(Opened) \in Nat
<1>1. IsFiniteSet(Rounds)
  BY FS_Interval, GoalAssumption DEF Rounds
<1>2. \A n \in Opened : n \in Rounds
  BY DEF Opened
<1> HIDE DEF Opened
<1>3. Opened \in SUBSET Rounds
  BY <1>2
<1> QED BY <1>1, <1>3, FS_Subset, FS_CardinalityType

(* A run leaves: its local variables are fresh. *)
LEMMA LeaveEffect ==
  ASSUME TypeOK, NEW r \in Runs, NEW x \in Places, Leave(r, x)
  PROVE  /\ pc' \in [Runs -> Places] /\ my' \in [Runs -> Local]
         /\ Others(r) /\ pc'[r] = x /\ my'[r] = Fresh
<1>1. pc' = [pc EXCEPT ![r] = x] /\ my' = [my EXCEPT ![r] = Fresh]
  BY DEF Leave, Goto
<1>2. pc \in [Runs -> Places] /\ my \in [Runs -> Local]
  BY DEF TypeOK, Places
<1>3. Fresh \in Local
  BY FreshLocal
<1> HIDE DEF Places
<1> QED BY <1>1, <1>2, <1>3 DEF Others

(* A run goes on with the local variables m. *)
LEMMA GotoEffect ==
  ASSUME TypeOK, NEW r \in Runs, NEW x \in Places, Goto(r, x),
         NEW m \in Local, my' = [my EXCEPT ![r] = m]
  PROVE  /\ pc' \in [Runs -> Places] /\ my' \in [Runs -> Local]
         /\ Others(r) /\ pc'[r] = x /\ my'[r] = m
<1>1. pc' = [pc EXCEPT ![r] = x]
  BY DEF Goto
<1>2. pc \in [Runs -> Places] /\ my \in [Runs -> Local]
  BY DEF TypeOK, Places
<1> HIDE DEF Places
<1> QED BY <1>1, <1>2 DEF Others

LEMMA GotoOnly ==
  ASSUME TypeOK, NEW r \in Runs, NEW x \in Places, Goto(r, x), UNCHANGED my
  PROVE  /\ pc' \in [Runs -> Places] /\ my' \in [Runs -> Local]
         /\ Others(r) /\ pc'[r] = x /\ my'[r] = my[r]
<1>1. pc' = [pc EXCEPT ![r] = x]
  BY DEF Goto
<1>2. pc \in [Runs -> Places] /\ my \in [Runs -> Local]
  BY DEF TypeOK, Places
<1> HIDE DEF Places
<1> QED BY <1>1, <1>2 DEF Others

LEMMA ReadJournalEffect ==
  ASSUME TypeOK, NEW r \in Runs, ReadJournal(r)
  PROVE  /\ TypeOK' /\ Others(r)
         /\ pc[r] = "idle" /\ pc'[r] = "claim"
         /\ Overlapping \/ (~Leased /\ \A s \in Runs : pc[s] # "claim")
         /\ my'[r] = [my[r] EXCEPT !.count = Cardinality(Opened)]
         /\ UNCHANGED <<inst, node, verdict, used, moved>>
<1> DEFINE m == [my[r] EXCEPT !.count = Cardinality(Opened)]
<1>1. my[r] \in Local
  BY DEF TypeOK
<1>2. m \in Local
  BY <1>1, OpenedFinite, SetCount
<1>3. my' = [my EXCEPT ![r] = m] /\ Goto(r, "claim") /\ UNCHANGED <<inst, node, verdict, used, files, moved>>
      /\ pc[r] = "idle" /\ (Overlapping \/ (~Leased /\ \A s \in Runs : pc[s] # "claim"))
  BY DEF ReadJournal
<1>4. "claim" \in Places
  BY DEF Places
<1> HIDE DEF m
<1>5. /\ pc' \in [Runs -> Places] /\ my' \in [Runs -> Local]
      /\ Others(r) /\ pc'[r] = "claim" /\ my'[r] = m
  BY <1>2, <1>3, <1>4, GotoEffect
<1>6. TypeOK'
  BY <1>3, <1>5 DEF TypeOK, Places
<1> QED BY <1>3, <1>5, <1>6 DEF m

-----------------------------------------------------------------------------
(* What each action does, as far as the invariants need it: TypeOK holds    *)
(* again, the other runs stay where they are, and the rows change as stated. *)
LEMMA ReleasedType ==
  ASSUME TypeOK, NEW x \in {"pending", "blocked", "completed"}
  PROVE  Released(x) \in Instance
<1>1. inst.epoch \in Nat
  BY DEF TypeOK, Instance
<1> QED BY <1>1 DEF Released, Instance

LEMMA HeldRows ==
  ASSUME TypeOK
  PROVE  /\ HoldRunning \in [Nodes -> NodeRow]
         /\ \A pn \in Nodes :
              /\ HoldRunning[pn].spent = node[pn].spent
              /\ HoldRunning[pn].status =
                   IF node[pn].status = "running" THEN "blocked" ELSE node[pn].status
<1> DEFINE Statuses == {"absent", "pending", "running", "succeeded", "blocked"}
<1>1. node \in [Nodes -> [status : Statuses, spent : Nat]]
  BY DEF TypeOK, NodeRow
<1>2. ASSUME NEW pn \in Nodes
      PROVE  /\ HoldRunning[pn] \in [status : Statuses, spent : Nat]
             /\ HoldRunning[pn].spent = node[pn].spent
             /\ HoldRunning[pn].status =
                  IF node[pn].status = "running" THEN "blocked" ELSE node[pn].status
  <2>1. HoldRunning[pn] = IF node[pn].status = "running"
                          THEN [node[pn] EXCEPT !.status = "blocked"] ELSE node[pn]
    BY DEF HoldRunning
  <2>2. node[pn] \in [status : Statuses, spent : Nat]
    BY <1>1
  <2> HIDE <1>1
  <2> QED BY <2>1, <2>2
<1>3. HoldRunning = [pn \in Nodes |-> HoldRunning[pn]]
  BY DEF HoldRunning
<1> HIDE DEF Statuses
<1>4. HoldRunning \in [Nodes -> [status : Statuses, spent : Nat]]
  BY <1>2, <1>3
<1> QED BY <1>2, <1>4 DEF NodeRow, Statuses

LEMMA ClaimEffect ==
  ASSUME TypeOK, NEW r \in Runs, Claim(r)
  PROVE  /\ TypeOK' /\ Others(r)
         /\ pc[r] = "claim"
         /\ UNCHANGED <<verdict, used, moved>>
         /\ \/ /\ UNCHANGED <<inst, node>>
               /\ pc'[r] = "done" /\ my'[r] = Fresh
            \/ /\ ~Leased /\ inst.status # "completed"
               /\ node' = HoldRunning /\ inst' = Released("blocked")
               /\ pc'[r] = "done" /\ my'[r] = Fresh
            \/ /\ ~Leased /\ inst.status # "completed"
               /\ node' = HoldRunning
               /\ inst' = [status |-> "running", owner |-> r,
                           epoch |-> inst.epoch + 1, lapsed |-> FALSE]
               /\ pc'[r] = "round" /\ my'[r] = [my[r] EXCEPT !.token = inst.epoch + 1]
<1>1. pc[r] = "claim" /\ UNCHANGED <<verdict, used, files, moved>>
  BY DEF Claim
<1>2. "done" \in Places /\ "round" \in Places
  BY DEF Places, Working
<1>3. my[r] \in Local /\ inst.epoch + 1 \in Nat
  BY DEF TypeOK, Instance
<1>4. CASE Leased \/ inst.status = "completed"
  <2>1. Leave(r, "done") /\ UNCHANGED <<inst, node>>
    BY <1>4 DEF Claim
  <2>2. /\ pc' \in [Runs -> Places] /\ my' \in [Runs -> Local]
        /\ Others(r) /\ pc'[r] = "done" /\ my'[r] = Fresh
    BY <2>1, <1>2, LeaveEffect
  <2>3. TypeOK'
    BY <1>1, <2>1, <2>2 DEF TypeOK, Places
  <2> QED BY <1>1, <2>1, <2>2, <2>3
<1>5. CASE ~(Leased \/ inst.status = "completed")
  <2> DEFINE Stuck == \E pn \in Nodes : node'[pn].status = "blocked"
             m == [my[r] EXCEPT !.token = inst.epoch + 1]
  <2>1. /\ node' = HoldRunning
        /\ IF Stuck
           THEN inst' = Released("blocked") /\ Leave(r, "done")
           ELSE /\ inst' = [status |-> "running", owner |-> r,
                            epoch |-> inst.epoch + 1, lapsed |-> FALSE]
                /\ my' = [my EXCEPT ![r] = m]
                /\ Goto(r, "round")
    BY <1>5 DEF Claim
  <2> HIDE DEF Stuck
  <2>2. node' \in [Nodes -> NodeRow]
    BY <2>1, HeldRows
  <2>3. m \in Local
    BY <1>3, SetToken
  <2> HIDE DEF m
  <2>4. CASE Stuck
    <3>1. /\ pc' \in [Runs -> Places] /\ my' \in [Runs -> Local]
          /\ Others(r) /\ pc'[r] = "done" /\ my'[r] = Fresh
      BY <2>1, <2>4, <1>2, LeaveEffect
    <3>2. inst' \in Instance
      <4>1. inst' = Released("blocked")
        BY <2>1, <2>4
      <4> QED BY <4>1, ReleasedType
    <3>3. TypeOK'
      BY <1>1, <2>2, <3>1, <3>2 DEF TypeOK, Places
    <3> QED BY <1>1, <1>5, <2>1, <2>4, <3>1, <3>3
  <2>5. CASE ~Stuck
    <3>1. /\ pc' \in [Runs -> Places] /\ my' \in [Runs -> Local]
          /\ Others(r) /\ pc'[r] = "round" /\ my'[r] = m
      BY <2>1, <2>3, <2>5, <1>2, GotoEffect
    <3>2. inst' \in Instance
      <4>1. inst' = [status |-> "running", owner |-> r,
                     epoch |-> inst.epoch + 1, lapsed |-> FALSE]
        BY <2>1, <2>5
      <4> HIDE <2>1
      <4> QED BY <4>1, <1>3 DEF Instance
    <3>3. TypeOK'
      BY <1>1, <2>2, <3>1, <3>2 DEF TypeOK, Places
    <3> QED BY <1>1, <1>5, <2>1, <2>5, <3>1, <3>3 DEF m
  <2> QED BY <2>4, <2>5
<1> QED BY <1>4, <1>5

Succeeded(nd, n) == \A p \in Phases : nd[<<p, n>>].status = "succeeded"

LEMMA LookEffect ==
  ASSUME TypeOK, NEW r \in Runs, Look(r)
  PROVE  /\ TypeOK' /\ Others(r)
         /\ pc[r] \in {"round", "look"}
         /\ UNCHANGED <<inst, node, verdict, used, moved>>
         /\ \/ /\ pc'[r] = "stop" /\ my'[r] = my[r]
            \/ /\ \E p \in Phases : my'[r] = [my[r] EXCEPT !.phase = p]
               /\ \/ pc'[r] = "stop"
                  \/ Spent < MaxTokens /\ pc'[r] = "add" /\ my[r].number \notin Opened
                  \/ Spent < MaxTokens /\ pc'[r] = "begin"
            \/ /\ pc'[r] = "judge" /\ Succeeded(node, my[r].number)
               /\ my'[r] = [my[r] EXCEPT !.verdict = verdict[my[r].number]]
<1> DEFINE n       == my[r].number
           missing == {p \in Phases : node[p, n].status # "succeeded"}
           next    == IF "worker" \in missing THEN "worker" ELSE "verifier"
           mp      == [my[r] EXCEPT !.phase = next]
           mv      == [my[r] EXCEPT !.verdict = verdict[n]]
           place   == IF Spent >= MaxTokens THEN "stop"
                      ELSE IF n \notin Opened THEN "add" ELSE "begin"
<1>1. pc[r] \in {"round", "look"} /\ UNCHANGED <<inst, node, verdict, used, files, moved>>
  BY DEF Look
<1>2. /\ my[r] \in Local /\ n \in Rounds /\ next \in Phases
      /\ verdict[n] \in Verdict \cup {None}
  BY DEF TypeOK, Local, Phases
<1>3. mp \in Local /\ mv \in Local
  BY <1>2, SetPhase, SetVerdict
<1>4. {"stop", "add", "begin", "judge"} \subseteq Places
  BY DEF Places, Working
<1>5. \/ Goto(r, "stop") /\ UNCHANGED my
      \/ Goto(r, place) /\ my' = [my EXCEPT ![r] = mp]
      \/ missing = {} /\ Goto(r, "judge") /\ my' = [my EXCEPT ![r] = mv]
  BY DEF Look
<1>6. missing = {} => Succeeded(node, n)
  BY DEF Succeeded
<1>7. place \in {"stop", "add", "begin"}
  OBVIOUS
<1>8. Spent \in Nat => /\ place = "add" => Spent < MaxTokens /\ n \notin Opened
                       /\ place = "begin" => Spent < MaxTokens
  BY GoalAssumption
<1> HIDE DEF mp, mv, missing, place
<1>9. CASE Goto(r, "stop") /\ UNCHANGED my
  <2>1. /\ pc' \in [Runs -> Places] /\ my' \in [Runs -> Local]
        /\ Others(r) /\ pc'[r] = "stop" /\ my'[r] = my[r]
    BY <1>4, <1>9, GotoOnly
  <2>2. TypeOK'
    BY <1>1, <2>1 DEF TypeOK, Places
  <2> QED BY <1>1, <2>1, <2>2
<1>10. CASE Goto(r, place) /\ my' = [my EXCEPT ![r] = mp]
  <2>1. place \in Places
    BY <1>4, <1>7
  <2>2. /\ pc' \in [Runs -> Places] /\ my' \in [Runs -> Local]
        /\ Others(r) /\ pc'[r] = place /\ my'[r] = mp
    BY <1>3, <1>10, <2>1, GotoEffect
  <2>3. TypeOK'
    BY <1>1, <2>2 DEF TypeOK, Places
  <2> QED BY <1>1, <1>2, <1>7, <1>8, <2>2, <2>3, SpentNat DEF mp
<1>11. CASE missing = {} /\ Goto(r, "judge") /\ my' = [my EXCEPT ![r] = mv]
  <2>1. /\ pc' \in [Runs -> Places] /\ my' \in [Runs -> Local]
        /\ Others(r) /\ pc'[r] = "judge" /\ my'[r] = mv
    BY <1>3, <1>4, <1>11, GotoEffect
  <2>2. TypeOK'
    BY <1>1, <2>1 DEF TypeOK, Places
  <2> QED BY <1>1, <1>6, <1>11, <2>1, <2>2 DEF mv
<1> QED BY <1>5, <1>9, <1>10, <1>11

(* The statuses of a row of the journal. *)
Statuses == {"absent", "pending", "running", "succeeded", "blocked"}

(* The journal rows but for the status of one phase. *)
LEMMA SetStatus ==
  ASSUME NEW nd \in [Nodes -> NodeRow], NEW pn \in Nodes, NEW x \in Statuses
  PROVE  LET nd2 == [nd EXCEPT ![pn].status = x]
         IN  /\ nd2 \in [Nodes -> NodeRow]
             /\ nd2[pn].status = x /\ nd2[pn].spent = nd[pn].spent
             /\ \A y \in Nodes \ {pn} : nd2[y] = nd[y]
BY DEF NodeRow, Statuses

LEMMA AddNodesEffect ==
  ASSUME TypeOK, NEW r \in Runs, AddNodes(r)
  PROVE  /\ TypeOK' /\ Others(r)
         /\ pc[r] = "add" /\ my'[r] = my[r]
         /\ UNCHANGED <<inst, verdict, used, moved>>
         /\ \/ UNCHANGED node /\ pc'[r] = "stop"
            \/ /\ Fence(r) /\ pc'[r] = "look"
               /\ \A y \in Nodes :
                    /\ node'[y].spent = node[y].spent
                    /\ node'[y].status = IF y[2] = my[r].number THEN "pending" ELSE node[y].status
<1> DEFINE n == my[r].number
           w == <<"worker", n>>
           v == <<"verifier", n>>
<1>1. pc[r] = "add" /\ UNCHANGED <<inst, verdict, used, files, my, moved>>
  BY DEF AddNodes
<1>2. n \in Rounds /\ w \in Nodes /\ v \in Nodes /\ w # v
  BY DEF TypeOK, Local, Nodes, Phases
<1>3. {"stop", "look"} \subseteq Places
  BY DEF Places, Working
<1>4. CASE Fence(r)
  <2> DEFINE nd == [node EXCEPT ![w].status = "pending"]
  <2>1. node' = [nd EXCEPT ![v].status = "pending"] /\ Goto(r, "look")
    BY <1>2, <1>4 DEF AddNodes
  <2>2. node \in [Nodes -> NodeRow] /\ "pending" \in Statuses
    BY DEF TypeOK, Statuses
  <2>3. /\ nd \in [Nodes -> NodeRow]
        /\ nd[w].status = "pending" /\ nd[w].spent = node[w].spent
        /\ \A y \in Nodes \ {w} : nd[y] = node[y]
    BY <1>2, <2>2, SetStatus
  <2> HIDE DEF nd, w, v
  <2>4. /\ node' \in [Nodes -> NodeRow]
        /\ node'[v].status = "pending" /\ node'[v].spent = nd[v].spent
        /\ \A y \in Nodes \ {v} : node'[y] = nd[y]
    BY <1>2, <2>1, <2>2, <2>3, SetStatus
  <2>5. \A y \in Nodes : node'[y].spent = node[y].spent
    BY <1>2, <2>3, <2>4
  <2>6. ASSUME NEW y \in Nodes
        PROVE  node'[y].status = IF y[2] = n THEN "pending" ELSE node[y].status
    <3>1. y[2] = n <=> y = w \/ y = v
      BY DEF Nodes, Phases, w, v
    <3> QED BY <1>2, <2>3, <2>4, <3>1
  <2>7. /\ pc' \in [Runs -> Places] /\ my' \in [Runs -> Local]
        /\ Others(r) /\ pc'[r] = "look" /\ my'[r] = my[r]
    BY <1>1, <1>3, <2>1, GotoOnly
  <2>8. TypeOK'
    BY <1>1, <2>4, <2>7 DEF TypeOK, Places
  <2> QED BY <1>1, <1>4, <2>5, <2>6, <2>7, <2>8
<1>5. CASE ~Fence(r)
  <2>1. Goto(r, "stop") /\ UNCHANGED node
    BY <1>5 DEF AddNodes
  <2>2. /\ pc' \in [Runs -> Places] /\ my' \in [Runs -> Local]
        /\ Others(r) /\ pc'[r] = "stop" /\ my'[r] = my[r]
    BY <1>1, <1>3, <2>1, GotoOnly
  <2>3. TypeOK'
    BY <1>1, <2>1, <2>2 DEF TypeOK, Places
  <2> QED BY <1>1, <2>1, <2>2, <2>3
<1> QED BY <1>4, <1>5

LEMMA BeginNodeEffect ==
  ASSUME TypeOK, NEW r \in Runs, BeginNode(r)
  PROVE  LET pn == <<my[r].phase, my[r].number>>
         IN  /\ TypeOK' /\ Others(r)
             /\ pc[r] = "begin" /\ my'[r] = my[r] /\ pn \in Nodes
             /\ UNCHANGED <<inst, verdict, used, moved>>
             /\ \/ UNCHANGED node /\ pc'[r] = "stop"
                \/ /\ Fence(r) /\ pc'[r] = "work"
                   /\ node[pn].status = "pending" /\ node'[pn].status = "running"
                   /\ node'[pn].spent = node[pn].spent
                   /\ \A y \in Nodes \ {pn} : node'[y] = node[y]
<1> DEFINE pn == <<my[r].phase, my[r].number>>
<1>1. pc[r] = "begin" /\ UNCHANGED <<inst, verdict, used, files, my, moved>>
  BY DEF BeginNode
<1>2. pn \in Nodes
  BY DEF TypeOK, Local, Nodes
<1>3. {"stop", "work"} \subseteq Places
  BY DEF Places, Working
<1>4. IF Fence(r) /\ node[pn].status = "pending"
      THEN node' = [node EXCEPT ![pn].status = "running"] /\ Goto(r, "work")
      ELSE Goto(r, "stop") /\ UNCHANGED node
  BY DEF BeginNode
<1> HIDE DEF pn
<1>5. CASE Fence(r) /\ node[pn].status = "pending"
  <2>1. node' = [node EXCEPT ![pn].status = "running"] /\ Goto(r, "work")
    BY <1>4, <1>5
  <2>2. node \in [Nodes -> NodeRow] /\ "running" \in Statuses
    BY DEF TypeOK, Statuses
  <2>3. /\ node' \in [Nodes -> NodeRow]
        /\ node'[pn].status = "running" /\ node'[pn].spent = node[pn].spent
        /\ \A y \in Nodes \ {pn} : node'[y] = node[y]
    BY <1>2, <2>1, <2>2, SetStatus
  <2>4. /\ pc' \in [Runs -> Places] /\ my' \in [Runs -> Local]
        /\ Others(r) /\ pc'[r] = "work" /\ my'[r] = my[r]
    BY <1>1, <1>3, <2>1, GotoOnly
  <2>5. TypeOK'
    BY <1>1, <2>3, <2>4 DEF TypeOK, Places
  <2> QED BY <1>1, <1>2, <1>5, <2>3, <2>4, <2>5 DEF pn
<1>6. CASE ~(Fence(r) /\ node[pn].status = "pending")
  <2>1. Goto(r, "stop") /\ UNCHANGED node
    BY <1>4, <1>6
  <2>2. /\ pc' \in [Runs -> Places] /\ my' \in [Runs -> Local]
        /\ Others(r) /\ pc'[r] = "stop" /\ my'[r] = my[r]
    BY <1>1, <1>3, <2>1, GotoOnly
  <2>3. TypeOK'
    BY <1>1, <2>1, <2>2 DEF TypeOK, Places
  <2> QED BY <1>1, <1>2, <2>1, <2>2, <2>3 DEF pn
<1> QED BY <1>5, <1>6

(* A verdict without a blocker is one on met criteria and on files that pass *)
(* the hard check.                                                          *)
Sound(v) == v # None /\ v.blocker = "none" => v.met /\ v.content \in Required

LEMMA AgentEndsEffect ==
  ASSUME TypeOK, NEW r \in Runs, AgentEnds(r)
  PROVE  /\ TypeOK' /\ Others(r)
         /\ pc[r] = "work"
         /\ UNCHANGED <<inst, node, verdict, used, moved>>
         /\ \E cost \in 0 .. MaxCost :
              \/ pc'[r] = "fail" /\ my'[r] = [my[r] EXCEPT !.cost = cost]
              \/ /\ my[r].phase = "worker" /\ pc'[r] = "succeed"
                 /\ my'[r] = [my[r] EXCEPT !.cost = cost]
              \/ /\ my[r].phase = "verifier" /\ pc'[r] = "succeed"
                 /\ \E v \in Verdict : Sound(v) /\ my'[r] = [my[r] EXCEPT !.cost = cost, !.verdict = v]
<1>1. pc[r] = "work" /\ UNCHANGED <<inst, node, verdict, used, files, moved>>
  BY DEF AgentEnds
<1>2. my[r] \in Local /\ files \in Contents
  BY DEF TypeOK
<1>3. {"fail", "succeed"} \subseteq Places
  BY DEF Places, Working, Landing
<1>4. PICK cost \in 0 .. MaxCost :
        \/ Goto(r, "fail") /\ my' = [my EXCEPT ![r].cost = cost]
        \/ /\ my[r].phase = "worker" /\ Goto(r, "succeed")
           /\ my' = [my EXCEPT ![r].cost = cost]
        \/ /\ my[r].phase = "verifier" /\ Goto(r, "succeed")
           /\ \E met \in BOOLEAN, b \in Blockers :
                LET v == Assess(files, met, b)
                IN  /\ v.blocker = "none" => v.met
                    /\ my' = [my EXCEPT ![r].cost = cost, ![r].verdict = v]
  BY DEF AgentEnds
<1>5. cost \in Nat
  BY GoalAssumption
<1> DEFINE mc == [my[r] EXCEPT !.cost = cost]
<1>6. mc \in Local
  BY <1>2, <1>5, SetCost
<1>7. CASE Goto(r, "fail") /\ my' = [my EXCEPT ![r].cost = cost]
  <2>1. my' = [my EXCEPT ![r] = mc] /\ Goto(r, "fail")
    BY <1>7
  <2> HIDE DEF mc
  <2>2. /\ pc' \in [Runs -> Places] /\ my' \in [Runs -> Local]
        /\ Others(r) /\ pc'[r] = "fail" /\ my'[r] = mc
    BY <1>3, <1>6, <2>1, GotoEffect
  <2>3. TypeOK'
    BY <1>1, <2>2 DEF TypeOK, Places
  <2> QED BY <1>1, <2>2, <2>3 DEF mc
<1>8. CASE /\ my[r].phase = "worker" /\ Goto(r, "succeed")
           /\ my' = [my EXCEPT ![r].cost = cost]
  <2>1. my' = [my EXCEPT ![r] = mc] /\ Goto(r, "succeed")
    BY <1>8
  <2> HIDE DEF mc
  <2>2. /\ pc' \in [Runs -> Places] /\ my' \in [Runs -> Local]
        /\ Others(r) /\ pc'[r] = "succeed" /\ my'[r] = mc
    BY <1>3, <1>6, <2>1, GotoEffect
  <2>3. TypeOK'
    BY <1>1, <2>2 DEF TypeOK, Places
  <2> QED BY <1>1, <1>8, <2>2, <2>3 DEF mc
<1>9. CASE /\ my[r].phase = "verifier" /\ Goto(r, "succeed")
           /\ \E met \in BOOLEAN, b \in Blockers :
                LET v == Assess(files, met, b)
                IN  /\ v.blocker = "none" => v.met
                    /\ my' = [my EXCEPT ![r].cost = cost, ![r].verdict = v]
  <2>1. PICK met \in BOOLEAN, b \in Blockers :
          /\ Assess(files, met, b).blocker = "none" => Assess(files, met, b).met
          /\ my' = [my EXCEPT ![r].cost = cost, ![r].verdict = Assess(files, met, b)]
    BY <1>9
  <2>2. PICK v : v = Assess(files, met, b)
    OBVIOUS
  <2>3. v \in Verdict /\ (v.blocker = "none" => v.met) /\ Sound(v)
    <3>1. v.blocker = "none" => v.met
      BY <2>1, <2>2
    <3>2. v = IF files \in Required
              THEN [content |-> files, met |-> met, blocker |-> b]
              ELSE [content |-> files, met |-> FALSE,
                    blocker |-> IF b = "none" THEN "goal_not_met_yet" ELSE b]
      BY <2>2 DEF Assess
    <3> HIDE <2>1
    <3>3. v \in Verdict
      BY <1>2, <3>2 DEF Verdict, Blockers
    <3>4. v.blocker = "none" => v.content \in Required
      BY <3>2
    <3> QED BY <3>1, <3>3, <3>4 DEF Sound
  <2> DEFINE mv == [my[r] EXCEPT !.cost = cost, !.verdict = v]
  <2>4. mv \in Local
    BY <1>2, <1>5, <2>3, SetCostVerdict
  <2>5. my' = [my EXCEPT ![r] = mv] /\ Goto(r, "succeed")
    <3>1. my' = [my EXCEPT ![r].cost = cost, ![r].verdict = v]
      BY <2>1, <2>2
    <3>2. my \in [Runs -> Local]
      BY DEF TypeOK
    <3> QED BY <1>9, <3>1, <3>2
  <2> HIDE DEF mv
  <2>6. /\ pc' \in [Runs -> Places] /\ my' \in [Runs -> Local]
        /\ Others(r) /\ pc'[r] = "succeed" /\ my'[r] = mv
    BY <1>3, <2>4, <2>5, GotoEffect
  <2>7. TypeOK'
    BY <1>1, <2>6 DEF TypeOK, Places
  <2> QED BY <1>1, <1>9, <2>3, <2>6, <2>7 DEF mv
<1> QED BY <1>4, <1>7, <1>8, <1>9

LEMMA CancelEffect ==
  ASSUME TypeOK, NEW r \in Runs, Cancel(r)
  PROVE  /\ TypeOK' /\ Others(r)
         /\ pc[r] = "work" /\ pc'[r] = "cancelled"
         /\ UNCHANGED <<inst, node, verdict, used, moved>>
         /\ \E cost \in 0 .. MaxCost : my'[r] = [my[r] EXCEPT !.cost = cost]
<1>1. /\ pc[r] = "work" /\ Goto(r, "cancelled")
      /\ UNCHANGED <<inst, node, verdict, used, files, moved>>
  BY DEF Cancel
<1>2. PICK cost \in 0 .. MaxCost : my' = [my EXCEPT ![r].cost = cost]
  BY DEF Cancel
<1> DEFINE mc == [my[r] EXCEPT !.cost = cost]
<1>3. mc \in Local /\ my' = [my EXCEPT ![r] = mc]
  <2>1. my[r] \in Local /\ cost \in Nat
    BY GoalAssumption DEF TypeOK
  <2> QED BY <1>2, <2>1, SetCost
<1>4. "cancelled" \in Places
  BY DEF Places, Working, Landing
<1> HIDE DEF mc
<1>5. /\ pc' \in [Runs -> Places] /\ my' \in [Runs -> Local]
      /\ Others(r) /\ pc'[r] = "cancelled" /\ my'[r] = mc
  BY <1>1, <1>3, <1>4, GotoEffect
<1>6. TypeOK'
  BY <1>1, <1>5 DEF TypeOK, Places
<1> QED BY <1>1, <1>5, <1>6 DEF mc

LEMMA FinishNodeEffect ==
  ASSUME TypeOK, NEW r \in Runs, FinishNode(r)
  PROVE  LET pn == <<my[r].phase, my[r].number>>
         IN  /\ TypeOK' /\ Others(r)
             /\ pc[r] \in Landing /\ pn \in Nodes
             /\ my'[r] = [my[r] EXCEPT !.cost = 0, !.verdict = None]
             /\ UNCHANGED <<inst, moved>>
             /\ \/ UNCHANGED <<node, used, verdict>> /\ pc'[r] = "stop"
                \/ /\ Fence(r) /\ node[pn].status = "running"
                   /\ node'[pn].status = IF pc[r] = "succeed" THEN "succeeded" ELSE "blocked"
                   /\ node'[pn].spent = node[pn].spent + my[r].cost
                   /\ \A y \in Nodes \ {pn} : node'[y] = node[y]
                   /\ used' = used + my[r].cost
                   /\ verdict' = IF pc[r] = "succeed" /\ my[r].phase = "verifier"
                                 THEN [verdict EXCEPT ![my[r].number] = my[r].verdict]
                                 ELSE verdict
                   /\ pc'[r] = IF pc[r] = "succeed" THEN "look" ELSE "stop"
<1> DEFINE pn    == <<my[r].phase, my[r].number>>
           m     == [my[r] EXCEPT !.cost = 0, !.verdict = None]
           row   == [status |-> IF pc[r] = "succeed" THEN "succeeded" ELSE "blocked",
                     spent |-> node[pn].spent + my[r].cost]
           place == IF pc[r] = "succeed" THEN "look" ELSE "stop"
           vd    == IF pc[r] = "succeed" /\ my[r].phase = "verifier"
                    THEN [verdict EXCEPT ![my[r].number] = my[r].verdict] ELSE verdict
<1>1. pc[r] \in Landing /\ UNCHANGED <<inst, files, moved>>
  BY DEF FinishNode
<1>2. pn \in Nodes /\ my[r] \in Local /\ my[r].cost \in Nat /\ my[r].number \in Rounds
      /\ my[r].verdict \in Verdict \cup {None}
  BY DEF TypeOK, Local, Nodes
<1>3. {"stop", "look"} \subseteq Places
  BY DEF Places, Working
<1>4. IF Fence(r) /\ node[pn].status = "running"
      THEN /\ node' = [node EXCEPT ![pn] = row]
           /\ used' = used + my[r].cost
           /\ verdict' = vd
           /\ Goto(r, place)
      ELSE Goto(r, "stop") /\ UNCHANGED <<node, used, verdict>>
  BY DEF FinishNode
<1>5. my' = [my EXCEPT ![r] = m]
  <2>1. my' = [my EXCEPT ![r].cost = 0, ![r].verdict = None]
    BY DEF FinishNode
  <2>2. my \in [Runs -> Local]
    BY DEF TypeOK
  <2> QED BY <2>1, <2>2
<1>6. m \in Local
  BY <1>2, SetCostVerdict
<1>7. place \in Places
  BY <1>3
<1>8. vd \in [Rounds -> Verdict \cup {None}]
  BY <1>2 DEF TypeOK
<1>9. row \in NodeRow
  <2>1. node[pn].spent \in Nat
    BY <1>2 DEF TypeOK, NodeRow
  <2> QED BY <1>2, <2>1 DEF NodeRow
<1>10. node \in [Nodes -> NodeRow] /\ used \in Nat
  BY DEF TypeOK
<1> HIDE DEF pn, m, place, vd
<1>11. CASE Fence(r) /\ node[pn].status = "running"
  <2>1. /\ node' = [node EXCEPT ![pn] = row]
        /\ used' = used + my[r].cost /\ verdict' = vd /\ Goto(r, place)
    BY <1>4, <1>11
  <2>2. /\ pc' \in [Runs -> Places] /\ my' \in [Runs -> Local]
        /\ Others(r) /\ pc'[r] = place /\ my'[r] = m
    BY <1>5, <1>6, <1>7, <2>1, GotoEffect
  <2>3. /\ node' \in [Nodes -> NodeRow] /\ node'[pn] = row
        /\ \A y \in Nodes \ {pn} : node'[y] = node[y]
    <3> HIDE DEF row
    <3> QED BY <1>2, <1>9, <1>10, <2>1
  <2>4. used' \in Nat
    BY <1>2, <1>10, <2>1
  <2>5. TypeOK'
    BY <1>1, <1>8, <2>1, <2>2, <2>3, <2>4 DEF TypeOK, Places
  <2> QED BY <1>1, <1>2, <1>11, <2>1, <2>2, <2>3, <2>5 DEF pn, m, place, vd
<1>12. CASE ~(Fence(r) /\ node[pn].status = "running")
  <2>1. Goto(r, "stop") /\ UNCHANGED <<node, used, verdict>>
    BY <1>4, <1>12
  <2>2. /\ pc' \in [Runs -> Places] /\ my' \in [Runs -> Local]
        /\ Others(r) /\ pc'[r] = "stop" /\ my'[r] = m
    BY <1>3, <1>5, <1>6, <2>1, GotoEffect
  <2>3. TypeOK'
    BY <1>1, <2>1, <2>2 DEF TypeOK, Places
  <2> QED BY <1>1, <1>2, <2>1, <2>2, <2>3 DEF pn, m
<1> QED BY <1>11, <1>12

LEMMA JudgeEffect ==
  ASSUME TypeOK, NEW r \in Runs, Judge(r)
  PROVE  LET v == my[r].verdict
         IN  /\ TypeOK' /\ Others(r)
             /\ pc[r] = "judge"
             /\ UNCHANGED <<inst, node, verdict, used, moved>>
             /\ \/ /\ my[r].number >= my[r].count
                   /\ pc'[r] = "invalidate" /\ my'[r] = my[r]
                \/ pc'[r] = "stop" /\ my'[r] = my[r]
                \/ /\ v # None /\ pc'[r] = "record"
                   /\ my'[r] = [my[r] EXCEPT
                        !.repeats = IF my[r].previous = Signature(v) THEN my[r].repeats + 1 ELSE 0,
                        !.previous = Signature(v)]
<1> DEFINE v == my[r].verdict
           c == IF my[r].previous = Signature(v) THEN my[r].repeats + 1 ELSE 0
           m == [my[r] EXCEPT !.repeats = c, !.previous = Signature(v)]
<1>1. pc[r] = "judge" /\ UNCHANGED <<inst, node, verdict, used, files, moved>>
  BY DEF Judge
<1>2. \/ my[r].number >= my[r].count /\ Goto(r, "invalidate") /\ UNCHANGED my
      \/ Goto(r, "stop") /\ UNCHANGED my
      \/ v # None /\ Goto(r, "record")
         /\ my' = [my EXCEPT ![r].repeats = c, ![r].previous = Signature(v)]
  BY DEF Judge
<1>3. {"invalidate", "stop", "record"} \subseteq Places
  BY DEF Places, Working
<1>4. my[r] \in Local /\ c \in Nat /\ v \in Verdict \cup {None}
  BY DEF TypeOK, Local
<1>5. CASE my[r].number >= my[r].count /\ Goto(r, "invalidate") /\ UNCHANGED my
  <2>1. /\ pc' \in [Runs -> Places] /\ my' \in [Runs -> Local]
        /\ Others(r) /\ pc'[r] = "invalidate" /\ my'[r] = my[r]
    BY <1>3, <1>5, GotoOnly
  <2>2. TypeOK'
    BY <1>1, <2>1 DEF TypeOK, Places
  <2> QED BY <1>1, <1>5, <2>1, <2>2
<1>6. CASE Goto(r, "stop") /\ UNCHANGED my
  <2>1. /\ pc' \in [Runs -> Places] /\ my' \in [Runs -> Local]
        /\ Others(r) /\ pc'[r] = "stop" /\ my'[r] = my[r]
    BY <1>3, <1>6, GotoOnly
  <2>2. TypeOK'
    BY <1>1, <2>1 DEF TypeOK, Places
  <2> QED BY <1>1, <2>1, <2>2
<1>7. CASE /\ v # None /\ Goto(r, "record")
           /\ my' = [my EXCEPT ![r].repeats = c, ![r].previous = Signature(v)]
  <2>1. Signature(v) \in Signatures
    BY <1>4, <1>7 DEF Signature, Signatures, Verdict
  <2>2. m \in Local
    <3> HIDE DEF c
    <3> QED BY <1>4, <2>1, SetRepeats
  <2>3. my' = [my EXCEPT ![r] = m]
    <3>1. my' = [my EXCEPT ![r].repeats = c, ![r].previous = Signature(v)]
      BY <1>7
    <3>2. my \in [Runs -> Local]
      BY DEF TypeOK
    <3> HIDE DEF c
    <3> QED BY <3>1, <3>2
  <2> HIDE DEF m
  <2>4. Goto(r, "record")
    BY <1>7
  <2>5. /\ pc' \in [Runs -> Places] /\ my' \in [Runs -> Local]
        /\ Others(r) /\ pc'[r] = "record" /\ my'[r] = m
    BY <1>3, <2>2, <2>3, <2>4, GotoEffect
  <2>6. TypeOK'
    BY <1>1, <2>5 DEF TypeOK, Places
  <2> QED BY <1>1, <1>7, <2>5, <2>6 DEF m
<1> QED BY <1>2, <1>5, <1>6, <1>7

LEMMA InvalidateNodeEffect ==
  ASSUME TypeOK, NEW r \in Runs, InvalidateNode(r)
  PROVE  LET pn == <<"verifier", my[r].number>>
         IN  /\ TypeOK' /\ Others(r)
             /\ pc[r] = "invalidate" /\ pc'[r] = "stop" /\ my'[r] = my[r] /\ pn \in Nodes
             /\ UNCHANGED <<inst, verdict, used, moved>>
             /\ \/ UNCHANGED node
                \/ /\ Fence(r) /\ node[pn].status = "succeeded"
                   /\ node'[pn].status = "blocked" /\ node'[pn].spent = node[pn].spent
                   /\ \A y \in Nodes \ {pn} : node'[y] = node[y]
<1> DEFINE pn == <<"verifier", my[r].number>>
<1>1. /\ pc[r] = "invalidate" /\ Goto(r, "stop")
      /\ UNCHANGED <<inst, verdict, used, files, my, moved>>
  BY DEF InvalidateNode
<1>2. pn \in Nodes
  BY DEF TypeOK, Local, Nodes, Phases
<1>3. node' = IF Fence(r) /\ node[pn].status = "succeeded"
              THEN [node EXCEPT ![pn].status = "blocked"] ELSE node
  BY DEF InvalidateNode
<1>4. "stop" \in Places
  BY DEF Places, Working
<1> HIDE DEF pn
<1>5. /\ pc' \in [Runs -> Places] /\ my' \in [Runs -> Local]
      /\ Others(r) /\ pc'[r] = "stop" /\ my'[r] = my[r]
  BY <1>1, <1>4, GotoOnly
<1>6. node \in [Nodes -> NodeRow] /\ "blocked" \in Statuses
  BY DEF TypeOK, Statuses
<1>7. CASE Fence(r) /\ node[pn].status = "succeeded"
  <2>1. node' = [node EXCEPT ![pn].status = "blocked"]
    BY <1>3, <1>7
  <2>2. /\ node' \in [Nodes -> NodeRow]
        /\ node'[pn].status = "blocked" /\ node'[pn].spent = node[pn].spent
        /\ \A y \in Nodes \ {pn} : node'[y] = node[y]
    BY <1>2, <1>6, <2>1, SetStatus
  <2>3. TypeOK'
    BY <1>1, <1>5, <2>2 DEF TypeOK, Places
  <2> QED BY <1>1, <1>2, <1>5, <1>7, <2>2, <2>3 DEF pn
<1>8. CASE ~(Fence(r) /\ node[pn].status = "succeeded")
  <2>1. UNCHANGED node
    BY <1>3, <1>8
  <2>2. TypeOK'
    BY <1>1, <1>5, <2>1 DEF TypeOK, Places
  <2> QED BY <1>1, <1>2, <1>5, <2>1, <2>2 DEF pn
<1> QED BY <1>7, <1>8

LEMMA RecordEffect ==
  ASSUME TypeOK, NEW r \in Runs, Record(r)
  PROVE  /\ TypeOK' /\ Others(r)
         /\ pc[r] = "record"
         /\ UNCHANGED <<inst, node, verdict, used, moved>>
         /\ \/ pc'[r] = "stop" /\ my'[r] = my[r]
            \/ my[r].verdict.blocker = "none" /\ pc'[r] = "complete" /\ my'[r] = my[r]
            \/ /\ my[r].verdict.blocker = "goal_not_met_yet"
               /\ my[r].repeats < MaxNoProgress
               /\ my[r].number < MaxRounds
               /\ pc'[r] = "round" /\ my'[r] = [my[r] EXCEPT !.number = my[r].number + 1]
<1> DEFINE m == [my[r] EXCEPT !.number = my[r].number + 1]
<1>1. pc[r] = "record" /\ UNCHANGED <<inst, node, verdict, used, files, moved>>
  BY DEF Record
<1>2. \/ Goto(r, "stop") /\ UNCHANGED my
      \/ my[r].verdict.blocker = "none" /\ Goto(r, "complete") /\ UNCHANGED my
      \/ /\ my[r].verdict.blocker = "goal_not_met_yet"
         /\ my[r].repeats < MaxNoProgress
         /\ my[r].number < MaxRounds
         /\ Goto(r, "round") /\ my' = [my EXCEPT ![r].number = my[r].number + 1]
  BY DEF Record
<1>3. {"stop", "complete", "round"} \subseteq Places
  BY DEF Places, Working
<1>4. CASE Goto(r, "stop") /\ UNCHANGED my
  <2>1. /\ pc' \in [Runs -> Places] /\ my' \in [Runs -> Local]
        /\ Others(r) /\ pc'[r] = "stop" /\ my'[r] = my[r]
    BY <1>3, <1>4, GotoOnly
  <2>2. TypeOK'
    BY <1>1, <2>1 DEF TypeOK, Places
  <2> QED BY <1>1, <2>1, <2>2
<1>5. CASE my[r].verdict.blocker = "none" /\ Goto(r, "complete") /\ UNCHANGED my
  <2>1. /\ pc' \in [Runs -> Places] /\ my' \in [Runs -> Local]
        /\ Others(r) /\ pc'[r] = "complete" /\ my'[r] = my[r]
    BY <1>3, <1>5, GotoOnly
  <2>2. TypeOK'
    BY <1>1, <2>1 DEF TypeOK, Places
  <2> QED BY <1>1, <1>5, <2>1, <2>2
<1>6. CASE /\ my[r].verdict.blocker = "goal_not_met_yet"
           /\ my[r].repeats < MaxNoProgress
           /\ my[r].number < MaxRounds
           /\ Goto(r, "round") /\ my' = [my EXCEPT ![r].number = my[r].number + 1]
  <2>1. my[r] \in Local /\ my[r].number + 1 \in Rounds
    BY <1>6, GoalAssumption DEF TypeOK, Local, Rounds
  <2>2. m \in Local
    BY <2>1, SetNumber
  <2>3. my' = [my EXCEPT ![r] = m] /\ Goto(r, "round")
    BY <1>6
  <2> HIDE DEF m
  <2>4. /\ pc' \in [Runs -> Places] /\ my' \in [Runs -> Local]
        /\ Others(r) /\ pc'[r] = "round" /\ my'[r] = m
    BY <1>3, <2>2, <2>3, GotoEffect
  <2>5. TypeOK'
    BY <1>1, <2>4 DEF TypeOK, Places
  <2> QED BY <1>1, <1>6, <2>4, <2>5 DEF m
<1> QED BY <1>2, <1>4, <1>5, <1>6

LEMMA CompleteEffect ==
  ASSUME TypeOK, NEW r \in Runs, Complete(r)
  PROVE  /\ TypeOK' /\ Others(r)
         /\ pc[r] = "complete"
         /\ UNCHANGED <<node, verdict, used, moved>>
         /\ \/ /\ Fence(r) /\ \A pn \in Nodes : node[pn].status \in {"absent", "succeeded"}
               /\ inst' = Released("completed") /\ pc'[r] = "done" /\ my'[r] = Fresh
            \/ /\ UNCHANGED inst /\ pc'[r] = "stop" /\ my'[r] = my[r]
<1> DEFINE Settled == Fence(r) /\ \A pn \in Nodes : node[pn].status \in {"absent", "succeeded"}
<1>1. pc[r] = "complete" /\ UNCHANGED <<node, verdict, used, files, moved>>
  BY DEF Complete
<1>2. IF Settled THEN inst' = Released("completed") /\ Leave(r, "done")
      ELSE Goto(r, "stop") /\ UNCHANGED <<inst, my>>
  BY DEF Complete
<1>3. {"stop", "done"} \subseteq Places
  BY DEF Places, Working
<1> HIDE DEF Settled
<1>4. CASE Settled
  <2>1. inst' = Released("completed") /\ Leave(r, "done")
    BY <1>2, <1>4
  <2>2. /\ pc' \in [Runs -> Places] /\ my' \in [Runs -> Local]
        /\ Others(r) /\ pc'[r] = "done" /\ my'[r] = Fresh
    BY <1>3, <2>1, LeaveEffect
  <2>3. inst' \in Instance
    BY <2>1, ReleasedType
  <2>4. TypeOK'
    BY <1>1, <2>2, <2>3 DEF TypeOK, Places
  <2> QED BY <1>1, <1>4, <2>1, <2>2, <2>4 DEF Settled
<1>5. CASE ~Settled
  <2>1. Goto(r, "stop") /\ UNCHANGED <<inst, my>>
    BY <1>2, <1>5
  <2>2. /\ pc' \in [Runs -> Places] /\ my' \in [Runs -> Local]
        /\ Others(r) /\ pc'[r] = "stop" /\ my'[r] = my[r]
    BY <1>3, <2>1, GotoOnly
  <2>3. TypeOK'
    BY <1>1, <2>1, <2>2 DEF TypeOK, Places
  <2> QED BY <1>1, <2>1, <2>2, <2>3
<1> QED BY <1>4, <1>5

LEMMA StopEffect ==
  ASSUME TypeOK, NEW r \in Runs, Stop(r)
  PROVE  /\ TypeOK' /\ Others(r)
         /\ pc[r] = "stop" /\ pc'[r] = "done" /\ my'[r] = Fresh
         /\ UNCHANGED <<verdict, used, moved>>
         /\ \/ Fence(r) /\ ~moved[r] /\ node' = HoldRunning /\ inst' = Released("blocked")
            \/ ~(Fence(r) /\ ~moved[r]) /\ UNCHANGED <<node, inst>>
<1>1. pc[r] = "stop" /\ Leave(r, "done") /\ UNCHANGED <<verdict, used, files, moved>>
  BY DEF Stop
<1>2. IF Fence(r) /\ ~moved[r] THEN node' = HoldRunning /\ inst' = Released("blocked")
      ELSE UNCHANGED <<node, inst>>
  BY DEF Stop
<1>3. "done" \in Places
  BY DEF Places
<1>4. /\ pc' \in [Runs -> Places] /\ my' \in [Runs -> Local]
      /\ Others(r) /\ pc'[r] = "done" /\ my'[r] = Fresh
  BY <1>1, <1>3, LeaveEffect
<1>5. node' \in [Nodes -> NodeRow] /\ inst' \in Instance
  <2>1. CASE Fence(r) /\ ~moved[r]
    BY <1>2, <2>1, HeldRows, ReleasedType
  <2>2. CASE ~(Fence(r) /\ ~moved[r])
    BY <1>2, <2>2 DEF TypeOK
  <2> QED BY <2>1, <2>2
<1>6. TypeOK'
  BY <1>1, <1>4, <1>5 DEF TypeOK, Places
<1> QED BY <1>1, <1>2, <1>4, <1>6

LEMMA RetryNodeEffect ==
  ASSUME TypeOK, NEW p \in Phases, NEW n \in Rounds, RetryNode(p, n)
  PROVE  /\ TypeOK' /\ <<p, n>> \in Nodes
         /\ inst.status # "completed" /\ ~Leased /\ inst' = Released("pending")
         /\ node[<<p, n>>].status = "blocked" /\ node'[<<p, n>>].status = "pending"
         /\ node'[<<p, n>>].spent = node[<<p, n>>].spent
         /\ \A y \in Nodes \ {<<p, n>>} : node'[y] = node[y]
         /\ verdict' = IF p = "verifier" THEN [verdict EXCEPT ![n] = None] ELSE verdict
         /\ UNCHANGED <<used, pc, my, moved>>
<1> DEFINE pn == <<p, n>>
<1>1. /\ inst.status # "completed" /\ ~Leased /\ inst' = Released("pending")
      /\ node[pn].status = "blocked"
      /\ verdict' = IF p = "verifier" THEN [verdict EXCEPT ![n] = None] ELSE verdict
      /\ UNCHANGED <<used, files, pc, my, moved>>
  BY DEF RetryNode
<1>2. node' = [node EXCEPT ![pn].status = "pending"]
  BY DEF RetryNode
<1>3. pn \in Nodes
  BY DEF Nodes
<1> HIDE DEF pn
<1>4. node \in [Nodes -> NodeRow] /\ "pending" \in Statuses
  BY DEF TypeOK, Statuses
<1>5. /\ node' \in [Nodes -> NodeRow]
      /\ node'[pn].status = "pending" /\ node'[pn].spent = node[pn].spent
      /\ \A y \in Nodes \ {pn} : node'[y] = node[y]
  BY <1>2, <1>3, <1>4, SetStatus
<1>6. verdict' \in [Rounds -> Verdict \cup {None}]
  BY <1>1 DEF TypeOK
<1>7. inst' \in Instance
  BY <1>1, ReleasedType
<1>8. TypeOK'
  BY <1>1, <1>5, <1>6, <1>7 DEF TypeOK
<1> QED BY <1>1, <1>3, <1>5, <1>8 DEF pn

LEMMA EditEffect ==
  ASSUME TypeOK, Edit
  PROVE  TypeOK' /\ UNCHANGED <<inst, node, verdict, used, pc, my, moved>>
BY DEF Edit, TypeOK

LEMMA SwitchSessionEffect ==
  ASSUME TypeOK, NEW r \in Runs, SwitchSession(r)
  PROVE  /\ TypeOK' /\ moved' \in [Runs -> BOOLEAN]
         /\ \A s \in Runs : moved[s] => moved'[s]
         /\ UNCHANGED <<inst, node, verdict, used, pc, my>>
BY DEF SwitchSession, TypeOK

LEMMA CrashEffect ==
  ASSUME TypeOK, NEW r \in Runs, Crash(r)
  PROVE  /\ TypeOK' /\ Others(r)
         /\ pc[r] \in Working /\ pc'[r] = "dead" /\ my'[r] = Fresh
         /\ UNCHANGED <<inst, node, verdict, used, moved>>
<1>1. pc[r] \in Working /\ Leave(r, "dead") /\ UNCHANGED <<inst, node, verdict, used, files, moved>>
  BY DEF Crash
<1>2. "dead" \in Places
  BY DEF Places
<1>3. /\ pc' \in [Runs -> Places] /\ my' \in [Runs -> Local]
      /\ Others(r) /\ pc'[r] = "dead" /\ my'[r] = Fresh
  BY <1>1, <1>2, LeaveEffect
<1>4. TypeOK'
  BY <1>1, <1>3 DEF TypeOK, Places
<1> QED BY <1>1, <1>3, <1>4

LEMMA LapseEffect ==
  ASSUME TypeOK, Lapse
  PROVE  /\ TypeOK' /\ Leased
         /\ inst'.status = inst.status /\ inst'.owner = inst.owner
         /\ inst'.epoch = inst.epoch /\ inst'.lapsed
         /\ UNCHANGED <<node, verdict, used, pc, my, moved>>
<1>1. /\ Leased /\ inst' = [inst EXCEPT !.lapsed = TRUE]
      /\ UNCHANGED <<node, verdict, used, files, pc, my, moved>>
  BY DEF Lapse
<1>2. inst \in Instance
  BY DEF TypeOK
<1>3. /\ inst' \in Instance
      /\ inst'.status = inst.status /\ inst'.owner = inst.owner
      /\ inst'.epoch = inst.epoch /\ inst'.lapsed
  BY <1>1, <1>2 DEF Instance
<1>4. TypeOK'
  BY <1>1, <1>3 DEF TypeOK
<1> QED BY <1>1, <1>3, <1>4

LEMMA InitType == Init => TypeOK
<1> SUFFICES ASSUME Init PROVE TypeOK
  OBVIOUS
<1>1. inst \in Instance
  BY DEF Init, Instance
<1>2. node \in [Nodes -> NodeRow]
  BY DEF Init, NodeRow
<1>3. verdict \in [Rounds -> Verdict \cup {None}] /\ used \in Nat /\ files \in Contents
  BY DEF Init
<1>4. my \in [Runs -> Local]
  BY FreshLocal DEF Init
<1>5. pc \in [Runs -> Working \cup {"idle", "claim", "done", "dead"}] /\ moved \in [Runs -> BOOLEAN]
  BY DEF Init
<1> QED BY <1>1, <1>2, <1>3, <1>4, <1>5 DEF TypeOK

LEMMA NextType == TypeOK /\ [Next]_vars => TypeOK'
<1> SUFFICES ASSUME TypeOK, [Next]_vars PROVE TypeOK'
  OBVIOUS
<1>1. CASE UNCHANGED vars
  BY <1>1 DEF vars, TypeOK
<1>2. ASSUME NEW r \in Runs, Step(r) PROVE TypeOK'
  BY <1>2, LookEffect, AddNodesEffect, BeginNodeEffect, AgentEndsEffect, FinishNodeEffect,
     JudgeEffect, InvalidateNodeEffect, RecordEffect, CompleteEffect, StopEffect DEF Step
<1>3. ASSUME NEW r \in Runs,
             ReadJournal(r) \/ Claim(r) \/ Cancel(r) \/ SwitchSession(r) \/ Crash(r)
      PROVE  TypeOK'
  BY <1>3, ReadJournalEffect, ClaimEffect, CancelEffect, SwitchSessionEffect, CrashEffect
<1>4. ASSUME NEW p \in Phases, NEW n \in Rounds, RetryNode(p, n) PROVE TypeOK'
  BY <1>4, RetryNodeEffect
<1>5. CASE Edit \/ Lapse
  BY <1>5, EditEffect, LapseEffect
<1> QED BY <1>1, <1>2, <1>3, <1>4, <1>5 DEF Next

(* The state of the goal, its journal and its runs is always of the type     *)
(* the database columns and the local variables of run have.                *)
THEOREM TypeCorrect == Spec => []TypeOK
<1> QED BY InitType, NextType, PTL DEF Spec

-----------------------------------------------------------------------------
(* The usage and the lease. *)
(* The places of a run from the moment it found tokens left until it has    *)
(* recorded what the phase used.                                            *)
Spending == {"add", "begin", "work"} \cup Landing

(* The journal adds up to the recorded usage, and a fenced run that is about *)
(* to spend found the budget not yet used up.                               *)
LedgerInv ==
  /\ used = Spent
  /\ used < MaxTokens + MaxCost
  /\ \A r \in Runs :
       /\ my[r].cost <= MaxCost
       /\ Fence(r) /\ pc[r] \in Spending => used < MaxTokens

(* Who owns the lease has claimed it in the current epoch, and gives it back *)
(* at the end unless it lapsed or the process has left the session.         *)
LeaseInv ==
  /\ inst.owner # None => inst.status = "running"
  /\ \A r \in Runs : inst.owner = r =>
       /\ pc[r] \notin {"idle", "claim"}
       /\ pc[r] \in Working => my[r].token = inst.epoch
       /\ pc[r] = "done" => inst.lapsed \/ moved[r]

AccountInv == TypeOK /\ LeaseInv /\ LedgerInv

SameSpending == \A y \in Nodes : node'[y].spent = node[y].spent

LEMMA FreshCost == Fresh.cost <= MaxCost
BY FreshLocal, GoalAssumption

LEMMA Costs ==
  ASSUME AccountInv, NEW r \in Runs, Others(r), my'[r].cost <= MaxCost
  PROVE  \A s \in Runs : my'[s].cost <= MaxCost
BY DEF AccountInv, LedgerInv, Others

(* A run goes on under the same lease, and nothing is spent. *)
LEMMA GoesOn ==
  ASSUME AccountInv, TypeOK', NEW r \in Runs, Others(r),
         UNCHANGED <<inst, used, moved>>, SameSpending,
         pc[r] \in Working, pc'[r] \in Working,
         my'[r].token = my[r].token, my'[r].cost <= MaxCost,
         pc'[r] \in Spending => pc[r] \in Spending \/ Spent < MaxTokens
  PROVE  AccountInv'
<1>1. Spent' = Spent
  BY SpentSame DEF AccountInv, SameSpending
<1>2. used' = Spent' /\ used' < MaxTokens + MaxCost /\ used = Spent
  BY <1>1 DEF AccountInv, LedgerInv
<1>3. \A s \in Runs : my'[s].cost <= MaxCost
  BY Costs
<1>4. ASSUME NEW s \in Runs, Fence(s)', pc'[s] \in Spending
      PROVE  used' < MaxTokens
  <2>1. CASE s = r
    <3>1. Fence(s)
      BY <1>4, <2>1 DEF Fence
    <3> QED BY <1>2, <1>4, <2>1, <3>1 DEF AccountInv, LedgerInv
  <2>2. CASE s # r
    <3>1. Fence(s) /\ pc[s] \in Spending
      BY <1>4, <2>2 DEF Fence, Others
    <3> QED BY <3>1 DEF AccountInv, LedgerInv
  <2> QED BY <2>1, <2>2
<1>5. LedgerInv'
  BY <1>2, <1>3, <1>4 DEF LedgerInv
<1>6. LeaseInv'
  <2>1. ASSUME NEW s \in Runs, inst'.owner = s
        PROVE  /\ pc'[s] \notin {"idle", "claim"}
               /\ pc'[s] \in Working => my'[s].token = inst'.epoch
               /\ pc'[s] = "done" => inst'.lapsed \/ moved'[s]
    <3>1. CASE s = r
      BY <2>1, <3>1 DEF AccountInv, LeaseInv, Working, Landing
    <3>2. CASE s # r
      BY <2>1, <3>2 DEF AccountInv, LeaseInv, Others
    <3> QED BY <3>1, <3>2
  <2> QED BY <2>1 DEF AccountInv, LeaseInv
<1> QED BY <1>5, <1>6 DEF AccountInv

(* A run ends and leaves the row of the instance as it is. *)
LEMMA Ends ==
  ASSUME AccountInv, TypeOK', NEW r \in Runs, Others(r),
         UNCHANGED <<inst, used, moved>>, SameSpending,
         pc'[r] \in {"done", "dead"}, my'[r] = Fresh,
         inst.owner = r /\ pc'[r] = "done" => inst.lapsed \/ moved[r]
  PROVE  AccountInv'
<1>1. Spent' = Spent
  BY SpentSame DEF AccountInv, SameSpending
<1>2. used' = Spent' /\ used' < MaxTokens + MaxCost
  BY <1>1 DEF AccountInv, LedgerInv
<1>3. \A s \in Runs : my'[s].cost <= MaxCost
  BY Costs, FreshCost
<1>4. pc'[r] \notin Spending /\ pc'[r] \notin Working /\ pc'[r] \notin {"idle", "claim"}
  BY DEF Spending, Landing, Working
<1>5. ASSUME NEW s \in Runs, Fence(s)', pc'[s] \in Spending
      PROVE  used' < MaxTokens
  <2>1. s # r
    BY <1>4, <1>5
  <2>2. Fence(s) /\ pc[s] \in Spending
    BY <1>5, <2>1 DEF Fence, Others
  <2> QED BY <2>2 DEF AccountInv, LedgerInv
<1>6. LedgerInv'
  BY <1>2, <1>3, <1>5 DEF LedgerInv
<1>7. LeaseInv'
  <2>1. ASSUME NEW s \in Runs, inst'.owner = s
        PROVE  /\ pc'[s] \notin {"idle", "claim"}
               /\ pc'[s] \in Working => my'[s].token = inst'.epoch
               /\ pc'[s] = "done" => inst'.lapsed \/ moved'[s]
    <3>1. CASE s = r
      BY <1>4, <2>1, <3>1
    <3>2. CASE s # r
      BY <2>1, <3>2 DEF AccountInv, LeaseInv, Others
    <3> QED BY <3>1, <3>2
  <2> QED BY <2>1 DEF AccountInv, LeaseInv
<1> QED BY <1>6, <1>7 DEF AccountInv

(* The lease is given back. *)
LEMMA Frees ==
  ASSUME AccountInv, TypeOK', inst'.owner = None, UNCHANGED used, SameSpending,
         \A s \in Runs : my'[s].cost <= MaxCost
  PROVE  AccountInv'
<1>1. Spent' = Spent
  BY SpentSame DEF AccountInv, SameSpending
<1>2. used' = Spent' /\ used' < MaxTokens + MaxCost
  BY <1>1 DEF AccountInv, LedgerInv
<1>3. \A s \in Runs : s # None
  BY GoalAssumption
<1>4. \A s \in Runs : ~Fence(s)'
  BY <1>3 DEF Fence
<1>5. LedgerInv'
  BY <1>2, <1>4 DEF LedgerInv
<1>6. LeaseInv'
  BY <1>3 DEF LeaseInv
<1> QED BY <1>5, <1>6 DEF AccountInv

LEMMA AccountInit == Init => AccountInv
<1> SUFFICES ASSUME Init PROVE AccountInv
  OBVIOUS
<1>1. TypeOK
  BY InitType
<1>2. inst.owner = None /\ \A s \in Runs : s # None
  BY GoalAssumption DEF Init
<1>3. LeaseInv
  BY <1>2 DEF LeaseInv
<1>4. Spent = 0
  <2>1. DOMAIN node = Nodes /\ \A y \in Nodes : node[y].spent = 0
    BY DEF Init
  <2> QED BY <2>1, NodesFinite, TallyZero, SpentTally
<1>5. LedgerInv
  <2>1. used = 0 /\ \A s \in Runs : my[s].cost = 0
    BY FreshLocal DEF Init
  <2>2. \A s \in Runs : ~Fence(s)
    BY <1>2 DEF Fence
  <2> QED BY <1>4, <2>1, <2>2, GoalAssumption DEF LedgerInv
<1> QED BY <1>1, <1>3, <1>5 DEF AccountInv

LEMMA AccountStep ==
  ASSUME AccountInv, NEW r \in Runs, Step(r)
  PROVE  AccountInv'
<1> USE DEF SameSpending
<1>0. TypeOK /\ my[r] \in Local /\ my[r].cost <= MaxCost /\ my[r].cost \in Nat
  BY DEF AccountInv, LedgerInv, TypeOK, Local
<1>1. CASE Look(r)
  <2>1. my'[r].token = my[r].token /\ my'[r].cost = my[r].cost
    <3>1. \A n \in Rounds : verdict[n] \in Verdict \cup {None}
      BY <1>0 DEF TypeOK
    <3>2. my[r].number \in Rounds
      BY <1>0 DEF Local
    <3> DEFINE kp(p) == [my[r] EXCEPT !.phase = p]
               kv == [my[r] EXCEPT !.verdict = verdict[my[r].number]]
    <3>3. /\ \A p \in Phases : kp(p).token = my[r].token /\ kp(p).cost = my[r].cost
          /\ kv.token = my[r].token /\ kv.cost = my[r].cost
      BY <1>0, <3>1, <3>2, SetPhase, SetVerdict
    <3>4. my'[r] = my[r] \/ (\E p \in Phases : my'[r] = kp(p)) \/ my'[r] = kv
      BY <1>0, <1>1, LookEffect
    <3> HIDE DEF kp, kv
    <3> QED BY <3>3, <3>4
  <2>2. pc[r] \in Working /\ pc'[r] \in Working /\ (pc'[r] \in Spending => Spent < MaxTokens)
    BY <1>0, <1>1, LookEffect DEF Working, Spending, Landing
  <2> QED BY <1>0, <1>1, <2>1, <2>2, LookEffect, GoesOn
<1>2. CASE AddNodes(r)
  <2>1. pc[r] \in Working /\ pc'[r] \in Working /\ pc[r] \in Spending
    BY <1>0, <1>2, AddNodesEffect DEF Working, Spending, Landing
  <2> QED BY <1>0, <1>2, <2>1, AddNodesEffect, GoesOn
<1>3. CASE BeginNode(r)
  <2>1. pc[r] \in Working /\ pc'[r] \in Working /\ pc[r] \in Spending
    BY <1>0, <1>3, BeginNodeEffect DEF Working, Spending, Landing
  <2>2. \A y \in Nodes : node'[y].spent = node[y].spent
    BY <1>0, <1>3, BeginNodeEffect
  <2> QED BY <1>0, <1>3, <2>1, <2>2, BeginNodeEffect, GoesOn
<1>4. CASE AgentEnds(r)
  <2>1. my'[r].token = my[r].token /\ my'[r].cost <= MaxCost
    <3>1. \A c \in 0 .. MaxCost : c \in Nat /\ c <= MaxCost
      BY GoalAssumption
    <3>2. PICK m : m = my[r]
      OBVIOUS
    <3>3. m \in Local
      BY <1>0, <3>2
    <3>0. \E c \in 0 .. MaxCost :
            \/ my'[r] = [my[r] EXCEPT !.cost = c]
            \/ \E v \in Verdict : my'[r] = [my[r] EXCEPT !.cost = c, !.verdict = v]
      <4>1. TypeOK /\ AgentEnds(r)
        BY <1>0, <1>4
      <4>2. \E c \in 0 .. MaxCost :
              \/ pc'[r] = "fail" /\ my'[r] = [my[r] EXCEPT !.cost = c]
              \/ /\ my[r].phase = "worker" /\ pc'[r] = "succeed"
                 /\ my'[r] = [my[r] EXCEPT !.cost = c]
              \/ /\ my[r].phase = "verifier" /\ pc'[r] = "succeed"
                 /\ \E v \in Verdict : Sound(v) /\ my'[r] = [my[r] EXCEPT !.cost = c, !.verdict = v]
        BY <4>1, AgentEndsEffect, Zenon
      <4> QED BY <4>2, Zenon
    <3>4. PICK c \in 0 .. MaxCost :
            \/ my'[r] = [m EXCEPT !.cost = c]
            \/ \E v \in Verdict : my'[r] = [m EXCEPT !.cost = c, !.verdict = v]
      BY <3>0, <3>2, Zenon
    <3>5. CASE my'[r] = [m EXCEPT !.cost = c]
      <4>1. my'[r].token = m.token /\ my'[r].cost = c
        BY <3>1, <3>3, <3>5, SetCost
      <4> QED BY <3>1, <3>2, <4>1
    <3>6. CASE \E v \in Verdict : my'[r] = [m EXCEPT !.cost = c, !.verdict = v]
      <4>1. PICK v \in Verdict : my'[r] = [m EXCEPT !.cost = c, !.verdict = v]
        BY <3>6
      <4>2. my'[r].token = m.token /\ my'[r].cost = c
        BY <3>3, <4>1 DEF Local
      <4> QED BY <3>1, <3>2, <4>2
    <3> QED BY <3>4, <3>5, <3>6
  <2>2. pc[r] \in Working /\ pc'[r] \in Working /\ pc[r] \in Spending
    BY <1>0, <1>4, AgentEndsEffect DEF Working, Spending, Landing
  <2> QED BY <1>0, <1>4, <2>1, <2>2, AgentEndsEffect, GoesOn
<1>5. CASE FinishNode(r)
  <2> DEFINE pn == <<my[r].phase, my[r].number>>
  <2>1. /\ TypeOK' /\ Others(r) /\ pc[r] \in Landing /\ pn \in Nodes
        /\ my'[r] = [my[r] EXCEPT !.cost = 0, !.verdict = None]
        /\ UNCHANGED <<inst, moved>>
        /\ \/ UNCHANGED <<node, used, verdict>> /\ pc'[r] = "stop"
           \/ /\ Fence(r)
              /\ node'[pn].spent = node[pn].spent + my[r].cost
              /\ \A y \in Nodes \ {pn} : node'[y] = node[y]
              /\ used' = used + my[r].cost
              /\ pc'[r] = IF pc[r] = "succeed" THEN "look" ELSE "stop"
    BY <1>0, <1>5, FinishNodeEffect
  <2>2. my'[r].token = my[r].token /\ my'[r].cost = 0
    <3>1. PICK m : m = my[r]
      OBVIOUS
    <3>2. m \in Local /\ my'[r] = [m EXCEPT !.cost = 0, !.verdict = None]
      BY <1>0, <2>1, <3>1
    <3>3. my'[r].token = m.token /\ my'[r].cost = 0
      BY <3>2 DEF Local
    <3> QED BY <3>1, <3>3
  <2>3. /\ pc[r] \in Working /\ pc'[r] \in Working /\ pc[r] \in Spending
        /\ pc'[r] \notin Spending /\ 0 <= MaxCost
    BY <2>1, GoalAssumption DEF Working, Spending, Landing
  <2> HIDE DEF pn
  <2>4. CASE UNCHANGED <<node, used, verdict>>
    BY <2>1, <2>2, <2>3, <2>4, GoesOn
  <2>5. CASE /\ Fence(r)
             /\ node'[pn].spent = node[pn].spent + my[r].cost
             /\ \A y \in Nodes \ {pn} : node'[y] = node[y]
             /\ used' = used + my[r].cost
    <3>1. Spent' = Spent + my[r].cost
      BY <1>0, <2>1, <2>5, SpentGrows
    <3>2. used = Spent /\ used < MaxTokens /\ used \in Nat
      BY <2>3, <2>5 DEF AccountInv, LedgerInv, TypeOK
    <3>3. used' = Spent' /\ used' < MaxTokens + MaxCost
      BY <1>0, <2>5, <3>1, <3>2, GoalAssumption
    <3>4. \A s \in Runs : my'[s].cost <= MaxCost
      BY <2>1, <2>2, <2>3, Costs
    <3>5. \A s \in Runs : ~(Fence(s)' /\ pc'[s] \in Spending)
      <4>1. \A s \in Runs \ {r} : ~Fence(s)'
        BY <2>1, <2>5 DEF Fence
      <4> QED BY <2>3, <4>1
    <3>6. LedgerInv'
      BY <3>3, <3>4, <3>5 DEF LedgerInv
    <3>7. LeaseInv'
      <4>1. inst.owner = r
        BY <2>5 DEF Fence
      <4>2. pc'[r] \notin {"idle", "claim", "done"}
        BY <2>3 DEF Working, Landing
      <4> QED BY <2>1, <2>2, <2>3, <4>1, <4>2 DEF AccountInv, LeaseInv
    <3> QED BY <2>1, <3>6, <3>7 DEF AccountInv
  <2> QED BY <2>1, <2>4, <2>5
<1>6. CASE Judge(r)
  <2>1. my'[r].token = my[r].token /\ my'[r].cost = my[r].cost
    <3> DEFINE v == my[r].verdict
               c == IF my[r].previous = Signature(v) THEN my[r].repeats + 1 ELSE 0
    <3>1. c \in Nat /\ v \in Verdict \cup {None}
      BY <1>0 DEF Local
    <3>2. v # None => Signature(v) \in Signatures
      BY <3>1 DEF Signature, Signatures, Verdict
    <3>3. my'[r] = my[r] \/ (v # None /\ my'[r] = [my[r] EXCEPT !.repeats = c, !.previous = Signature(v)])
      BY <1>0, <1>6, JudgeEffect
    <3> HIDE DEF c, v
    <3>4. PICK m : m = my[r]
      OBVIOUS
    <3>5. PICK x : x = Signature(v)
      OBVIOUS
    <3>6. m \in Local /\ (my'[r] = m \/ my'[r] = [m EXCEPT !.repeats = c, !.previous = x])
      BY <1>0, <3>3, <3>4, <3>5
    <3>7. my'[r].token = m.token /\ my'[r].cost = m.cost
      BY <3>6 DEF Local
    <3> QED BY <3>4, <3>7
  <2>2. pc[r] \in Working /\ pc'[r] \in Working /\ pc'[r] \notin Spending
    BY <1>0, <1>6, JudgeEffect DEF Working, Spending, Landing
  <2> QED BY <1>0, <1>6, <2>1, <2>2, JudgeEffect, GoesOn
<1>7. CASE InvalidateNode(r)
  <2>1. pc[r] \in Working /\ pc'[r] \in Working /\ pc'[r] \notin Spending
    BY <1>0, <1>7, InvalidateNodeEffect DEF Working, Spending, Landing
  <2>2. \A y \in Nodes : node'[y].spent = node[y].spent
    BY <1>0, <1>7, InvalidateNodeEffect
  <2> QED BY <1>0, <1>7, <2>1, <2>2, InvalidateNodeEffect, GoesOn
<1>8. CASE Record(r)
  <2>1. my'[r].token = my[r].token /\ my'[r].cost = my[r].cost
    <3>1. my[r].number < MaxRounds => my[r].number + 1 \in Rounds
      BY <1>0, GoalAssumption DEF Local, Rounds
    <3> DEFINE k == [my[r] EXCEPT !.number = my[r].number + 1]
    <3>2. my[r].number < MaxRounds => k.token = my[r].token /\ k.cost = my[r].cost
      BY <1>0, <3>1, SetNumber
    <3>3. my'[r] = my[r] \/ (my[r].number < MaxRounds /\ my'[r] = k)
      BY <1>0, <1>8, RecordEffect
    <3> HIDE DEF k
    <3> QED BY <3>2, <3>3
  <2>2. pc[r] \in Working /\ pc'[r] \in Working /\ pc'[r] \notin Spending
    BY <1>0, <1>8, RecordEffect DEF Working, Spending, Landing
  <2> QED BY <1>0, <1>8, <2>1, <2>2, RecordEffect, GoesOn
<1>9. CASE Complete(r)
  <2>1. CASE inst' = Released("completed") /\ my'[r] = Fresh
    <3>1. inst'.owner = None
      BY <2>1 DEF Released
    <3>2. \A s \in Runs : my'[s].cost <= MaxCost
      BY <1>0, <1>9, <2>1, CompleteEffect, FreshCost, Costs
    <3> QED BY <1>0, <1>9, <3>1, <3>2, CompleteEffect, Frees
  <2>2. CASE UNCHANGED inst /\ pc'[r] = "stop" /\ my'[r] = my[r]
    <3>1. pc[r] \in Working /\ pc'[r] \in Working /\ pc'[r] \notin Spending
      BY <1>0, <1>9, <2>2, CompleteEffect DEF Working, Spending, Landing
    <3> QED BY <1>0, <1>9, <2>2, <3>1, CompleteEffect, GoesOn
  <2> QED BY <1>0, <1>9, <2>1, <2>2, CompleteEffect
<1>10. CASE Stop(r)
  <2>1. CASE node' = HoldRunning /\ inst' = Released("blocked")
    <3>1. inst'.owner = None
      BY <2>1 DEF Released
    <3>2. \A s \in Runs : my'[s].cost <= MaxCost
      BY <1>0, <1>10, StopEffect, FreshCost, Costs
    <3>3. \A y \in Nodes : node'[y].spent = node[y].spent
      BY <1>0, <2>1, HeldRows
    <3> QED BY <1>0, <1>10, <3>1, <3>2, <3>3, StopEffect, Frees
  <2>2. CASE ~(Fence(r) /\ ~moved[r]) /\ UNCHANGED <<node, inst>>
    <3>1. pc[r] \in Working
      BY <1>0, <1>10, StopEffect DEF Working
    <3>2. inst.owner = r => inst.lapsed \/ moved[r]
      BY <2>2, <3>1, GoalAssumption DEF Fence, AccountInv, LeaseInv
    <3> QED BY <1>0, <1>10, <2>2, <3>2, StopEffect, Ends
  <2> QED BY <1>0, <1>10, <2>1, <2>2, StopEffect
<1> QED BY <1>1, <1>2, <1>3, <1>4, <1>5, <1>6, <1>7, <1>8, <1>9, <1>10 DEF Step

LEMMA AccountNext == AccountInv /\ [Next]_vars => AccountInv'
<1> SUFFICES ASSUME AccountInv, [Next]_vars PROVE AccountInv'
  OBVIOUS
<1> USE DEF SameSpending
<1>0. TypeOK
  BY DEF AccountInv
<1>1. CASE UNCHANGED <<inst, node, used, pc, my, moved>> /\ TypeOK'
  <2>1. Spent' = Spent
    BY <1>0, <1>1, SpentSame
  <2> QED BY <1>1, <2>1 DEF AccountInv, LedgerInv, LeaseInv, Fence
<1>2. CASE UNCHANGED vars
  BY <1>1, <1>2, NextType, <1>0 DEF vars
<1>3. ASSUME NEW r \in Runs, Step(r) PROVE AccountInv'
  BY <1>3, AccountStep
<1>4. ASSUME NEW r \in Runs, ReadJournal(r) PROVE AccountInv'
  <2> DEFINE c == Cardinality(Opened)
  <2>1. c \in Nat /\ my[r] \in Local
    BY <1>0, OpenedFinite DEF TypeOK
  <2>2. /\ TypeOK' /\ Others(r) /\ pc[r] = "idle" /\ pc'[r] = "claim"
        /\ my'[r] = [my[r] EXCEPT !.count = c]
        /\ UNCHANGED <<inst, node, verdict, used, moved>>
    BY <1>0, <1>4, ReadJournalEffect
  <2> HIDE DEF c
  <2>3. my'[r].cost <= MaxCost
    BY <2>1, <2>2, SetCount DEF AccountInv, LedgerInv
  <2>4. \A s \in Runs : my'[s].cost <= MaxCost
    BY <2>2, <2>3, Costs
  <2>5. Spent' = Spent
    BY <1>0, <2>2, SpentSame
  <2>6. ASSUME NEW s \in Runs, Fence(s)', pc'[s] \in Spending
        PROVE  used' < MaxTokens
    <3>1. s # r
      BY <2>2, <2>6 DEF Spending, Landing
    <3>2. Fence(s) /\ pc[s] \in Spending
      BY <2>2, <2>6, <3>1 DEF Fence, Others
    <3> QED BY <2>2, <3>2 DEF AccountInv, LedgerInv
  <2>7. LedgerInv'
    BY <2>2, <2>4, <2>5, <2>6 DEF AccountInv, LedgerInv
  <2>8. LeaseInv'
    BY <2>2 DEF AccountInv, LeaseInv, Others
  <2> QED BY <2>2, <2>7, <2>8 DEF AccountInv
<1>5. ASSUME NEW r \in Runs, Claim(r) PROVE AccountInv'
  <2>1. CASE UNCHANGED <<inst, node>> /\ pc'[r] = "done" /\ my'[r] = Fresh
    <3>1. inst.owner # r
      BY <1>0, <1>5, ClaimEffect DEF AccountInv, LeaseInv
    <3> QED BY <1>0, <1>5, <2>1, <3>1, ClaimEffect, Ends
  <2>2. CASE node' = HoldRunning /\ inst' = Released("blocked") /\ my'[r] = Fresh
    <3>1. inst'.owner = None
      BY <2>2 DEF Released
    <3>2. \A s \in Runs : my'[s].cost <= MaxCost
      BY <1>0, <1>5, <2>2, ClaimEffect, FreshCost, Costs
    <3>3. \A y \in Nodes : node'[y].spent = node[y].spent
      BY <1>0, <2>2, HeldRows
    <3> QED BY <1>0, <1>5, <3>1, <3>2, <3>3, ClaimEffect, Frees
  <2>3. CASE /\ node' = HoldRunning
             /\ inst' = [status |-> "running", owner |-> r,
                         epoch |-> inst.epoch + 1, lapsed |-> FALSE]
             /\ pc'[r] = "round" /\ my'[r] = [my[r] EXCEPT !.token = inst.epoch + 1]
    <3>1. my[r] \in Local /\ inst.epoch + 1 \in Nat
      BY <1>0 DEF TypeOK, Instance
    <3>2. my'[r].token = inst'.epoch /\ my'[r].cost <= MaxCost
      BY <2>3, <3>1, SetToken DEF AccountInv, LedgerInv
    <3>3. \A s \in Runs : my'[s].cost <= MaxCost
      BY <1>0, <1>5, <3>2, ClaimEffect, Costs
    <3>4. \A y \in Nodes : node'[y].spent = node[y].spent
      BY <1>0, <2>3, HeldRows
    <3>5. Spent' = Spent
      BY <1>0, <1>5, <3>4, ClaimEffect, SpentSame
    <3>6. \A s \in Runs : ~(Fence(s)' /\ pc'[s] \in Spending)
      <4>1. \A s \in Runs \ {r} : ~Fence(s)'
        BY <2>3 DEF Fence
      <4>2. pc'[r] \notin Spending
        BY <2>3 DEF Spending, Landing
      <4> QED BY <4>1, <4>2
    <3>7. LedgerInv'
      BY <1>0, <1>5, <3>3, <3>5, <3>6, ClaimEffect DEF AccountInv, LedgerInv
    <3>8. LeaseInv'
      <4>1. inst'.owner = r /\ inst'.status = "running"
        BY <2>3
      <4> QED BY <2>3, <3>2, <4>1 DEF LeaseInv
    <3> QED BY <1>0, <1>5, <3>7, <3>8, ClaimEffect DEF AccountInv
  <2> QED BY <1>0, <1>5, <2>1, <2>2, <2>3, ClaimEffect
<1>6. ASSUME NEW r \in Runs, Cancel(r) PROVE AccountInv'
  <2>1. my'[r].token = my[r].token /\ my'[r].cost <= MaxCost
    <3>1. my[r] \in Local /\ \A c \in 0 .. MaxCost : c \in Nat /\ c <= MaxCost
      BY <1>0, GoalAssumption DEF TypeOK
    <3>2. PICK c \in 0 .. MaxCost : my'[r] = [my[r] EXCEPT !.cost = c]
      BY <1>0, <1>6, CancelEffect
    <3> DEFINE k == [my[r] EXCEPT !.cost = c]
    <3>3. k.token = my[r].token /\ k.cost = c
      BY <3>1, SetCost
    <3>4. my'[r] = k
      BY <3>2
    <3> HIDE DEF k
    <3> QED BY <3>1, <3>3, <3>4
  <2>2. pc[r] \in Working /\ pc'[r] \in Working /\ pc[r] \in Spending
    BY <1>0, <1>6, CancelEffect DEF Working, Spending, Landing
  <2> QED BY <1>0, <1>6, <2>1, <2>2, CancelEffect, GoesOn
<1>7. ASSUME NEW r \in Runs, SwitchSession(r) PROVE AccountInv'
  <2>1. /\ TypeOK' /\ UNCHANGED <<inst, node, verdict, used, pc, my>>
        /\ \A s \in Runs : moved[s] => moved'[s]
    BY <1>0, <1>7, SwitchSessionEffect
  <2>2. Spent' = Spent
    BY <1>0, <2>1, SpentSame
  <2> QED BY <2>1, <2>2 DEF AccountInv, LedgerInv, LeaseInv, Fence
<1>8. ASSUME NEW r \in Runs, Crash(r) PROVE AccountInv'
  BY <1>0, <1>8, CrashEffect, Ends
<1>9. ASSUME NEW p \in Phases, NEW n \in Rounds, RetryNode(p, n) PROVE AccountInv'
  <2>1. /\ TypeOK' /\ inst' = Released("pending")
        /\ node'[<<p, n>>].spent = node[<<p, n>>].spent
        /\ \A y \in Nodes \ {<<p, n>>} : node'[y] = node[y]
        /\ UNCHANGED <<used, my>>
    BY <1>0, <1>9, RetryNodeEffect
  <2>2. inst'.owner = None
    BY <2>1 DEF Released
  <2>3. \A y \in Nodes : node'[y].spent = node[y].spent
    BY <2>1
  <2>4. \A s \in Runs : my'[s].cost <= MaxCost
    BY <2>1 DEF AccountInv, LedgerInv
  <2> QED BY <2>1, <2>2, <2>3, <2>4, Frees
<1>10. CASE Edit
  BY <1>0, <1>1, <1>10, EditEffect
<1>11. CASE Lapse
  <2>1. /\ TypeOK' /\ inst'.status = inst.status /\ inst'.owner = inst.owner
        /\ inst'.epoch = inst.epoch /\ inst'.lapsed
        /\ UNCHANGED <<node, verdict, used, pc, my, moved>>
    BY <1>0, <1>11, LapseEffect
  <2>2. Spent' = Spent
    BY <1>0, <2>1, SpentSame
  <2> QED BY <2>1, <2>2 DEF AccountInv, LedgerInv, LeaseInv, Fence
<1> QED BY <1>2, <1>3, <1>4, <1>5, <1>6, <1>7, <1>8, <1>9, <1>10, <1>11 DEF Next

(* The inductive invariant of the usage and of the lease. *)
THEOREM AccountInductive == Spec => []AccountInv
<1> QED BY AccountInit, AccountNext, PTL DEF Spec

(* Whatever retries, crashes and takeovers happen, the usage that            *)
(* finish_node has recorded stays below the budget and one more phase.      *)
THEOREM UsageBounded == Spec => []UsageWithinBudget
<1>1. AccountInv => UsageWithinBudget
  BY DEF AccountInv, LedgerInv, UsageWithinBudget
<1> QED BY <1>1, AccountInductive, PTL

(* A run that ended owns the lease only when it has lapsed or its process    *)
(* has left the session.                                                    *)
THEOREM LeaseReleased == Spec => []ReleasedAtEnd
<1>1. AccountInv => ReleasedAtEnd
  BY DEF AccountInv, LeaseInv, ReleasedAtEnd
<1> QED BY <1>1, AccountInductive, PTL

-----------------------------------------------------------------------------
(* Repeats, the count of rounds without progress. *)
(* Induction over the rounds, in the form of sets. *)
LEMMA RoundInduction ==
  ASSUME NEW S \in SUBSET Rounds,
         \A n \in Rounds : n = 1 \/ n - 1 \in S => n \in S
  PROVE  S = Rounds
<1> SUFFICES ASSUME S # Rounds PROVE FALSE
  OBVIOUS
<1>1. Rounds \ S \in SUBSET Nat /\ Rounds \ S # {}
  <2>1. Rounds \subseteq Nat
    BY GoalAssumption DEF Rounds
  <2> QED BY <2>1
<1>2. PICK m \in Rounds \ S : \A n \in Rounds \ S : m <= n
  BY <1>1, LeastNumber
<1>3. m = 1 \/ m - 1 \in Rounds
  BY <1>2, GoalAssumption DEF Rounds
<1>4. m - 1 \in Rounds => m - 1 \in S
  BY <1>2 DEF Rounds
<1> QED BY <1>2, <1>3, <1>4

(* Repeats as a function of the verdicts that are counted.                  *)
Same(v, n) == n > 1 /\ Signature(v[n - 1]) = Signature(v[n])

IsRun(g, v) == g = [n \in Rounds |-> IF Same(v, n) THEN g[n - 1] + 1 ELSE 0]

RunOf(v) == CHOOSE g : IsRun(g, v)

LEMMA RepeatsRun == Repeats = RunOf(verdict)
BY Zenon DEF Repeats, RunOf, IsRun, Same

LEMMA RunDefined ==
  ASSUME NEW v
  PROVE  IsRun(RunOf(v), v)
<1> DEFINE Count(g, n) == IF Same(v, n) THEN g[n - 1] + 1 ELSE 0
           Part(k) == \E g : g = [n \in 1 .. k |-> Count(g, n)]
           S == {k \in Rounds : Part(k)}
<1>1. Part(1)
  <2> DEFINE g == [n \in 1 .. 1 |-> 0]
  <2>1. \A n \in 1 .. 1 : Count(g, n) = 0
    BY DEF Same
  <2>2. g = [n \in 1 .. 1 |-> Count(g, n)]
    BY <2>1
  <2> QED BY <2>2
<1>2. ASSUME NEW k \in Nat, k > 0, Part(k)
      PROVE  Part(k + 1)
  <2>1. PICK g : g = [n \in 1 .. k |-> Count(g, n)]
    BY <1>2
  <2> DEFINE h == [n \in 1 .. (k + 1) |-> IF n <= k THEN g[n] ELSE Count(g, n)]
  <2>2. ASSUME NEW n \in 1 .. (k + 1) PROVE h[n] = Count(h, n)
    <3>1. h[n] = Count(g, n)
      <4>1. n <= k => n \in 1 .. k
        BY <1>2
      <4> HIDE DEF Count
      <4>2. n <= k => g[n] = Count(g, n)
        BY <2>1, <4>1
      <4> QED BY <4>2
    <3>2. Same(v, n) => h[n - 1] = g[n - 1]
      <4>1. n > 1 => n - 1 \in 1 .. (k + 1) /\ n - 1 <= k
        BY <1>2
      <4> QED BY <4>1 DEF Same
    <3> HIDE DEF h
    <3> QED BY <3>1, <3>2
  <2>3. h = [n \in 1 .. (k + 1) |-> Count(h, n)]
    <3>1. h = [n \in 1 .. (k + 1) |-> h[n]]
      BY Zenon
    <3> HIDE DEF h, Count
    <3> QED BY <2>2, <3>1
  <2> QED BY <2>3
<1> HIDE DEF Part
<1>3. \A n \in Rounds : n = 1 \/ n - 1 \in S => n \in S
  <2> SUFFICES ASSUME NEW n \in Rounds, n = 1 \/ n - 1 \in S PROVE Part(n)
    OBVIOUS
  <2>1. CASE n = 1
    BY <1>1, <2>1
  <2>2. CASE n - 1 \in S
    <3>1. n - 1 \in Nat /\ n - 1 > 0 /\ Part(n - 1) /\ (n - 1) + 1 = n
      BY <2>2 DEF Rounds
    <3>2. Part((n - 1) + 1)
      BY <1>2, <3>1
    <3> QED BY <3>1, <3>2
  <2> QED BY <2>1, <2>2
<1>4. S = Rounds
  BY <1>3, RoundInduction
<1>5. Part(MaxRounds)
  BY <1>4, GoalAssumption DEF Rounds
<1>6. \E g : IsRun(g, v)
  BY <1>5, Zenon DEF Part, IsRun, Rounds
<1> QED BY <1>6, Zenon DEF RunOf

LEMMA RunRow ==
  ASSUME NEW v, NEW n \in Rounds
  PROVE  RunOf(v)[n] = IF Same(v, n) THEN RunOf(v)[n - 1] + 1 ELSE 0
<1>1. RunOf(v) = [i \in Rounds |-> IF Same(v, i) THEN RunOf(v)[i - 1] + 1 ELSE 0]
  BY RunDefined, Zenon DEF IsRun
<1> HIDE DEF RunOf
<1> DEFINE g == RunOf(v)
<1>2. g = [i \in Rounds |-> IF Same(v, i) THEN g[i - 1] + 1 ELSE 0]
  BY <1>1
<1> HIDE DEF g
<1>3. g[n] = IF Same(v, n) THEN g[n - 1] + 1 ELSE 0
  BY <1>2, Zenon
<1> QED BY <1>3 DEF g

LEMMA RunType ==
  ASSUME NEW v
  PROVE  \A n \in Rounds : RunOf(v)[n] \in Nat
<1> DEFINE S == {n \in Rounds : RunOf(v)[n] \in Nat}
<1>1. ASSUME NEW n \in Rounds, n = 1 \/ n - 1 \in S PROVE n \in S
  <2>1. RunOf(v)[n] = IF Same(v, n) THEN RunOf(v)[n - 1] + 1 ELSE 0
    BY RunRow
  <2>2. n = 1 => ~Same(v, n)
    BY DEF Same
  <2> QED BY <1>1, <2>1, <2>2
<1>2. S = Rounds
  BY <1>1, RoundInduction
<1> QED BY <1>2

(* The count at a round depends on the verdicts up to it only. *)
LEMMA RunPrefix ==
  ASSUME NEW v, NEW w, NEW k \in Rounds, \A n \in 1 .. k : v[n] = w[n]
  PROVE  RunOf(v)[k] = RunOf(w)[k]
<1> DEFINE S == {n \in Rounds : n <= k => RunOf(v)[n] = RunOf(w)[n]}
<1>1. ASSUME NEW n \in Rounds, n = 1 \/ n - 1 \in S PROVE n \in S
  <2> SUFFICES ASSUME n <= k PROVE RunOf(v)[n] = RunOf(w)[n]
    OBVIOUS
  <2>1. /\ RunOf(v)[n] = IF Same(v, n) THEN RunOf(v)[n - 1] + 1 ELSE 0
        /\ RunOf(w)[n] = IF Same(w, n) THEN RunOf(w)[n - 1] + 1 ELSE 0
    BY RunRow
  <2>2. Same(v, n) <=> Same(w, n)
    <3>1. v[n] = w[n] /\ (n > 1 => v[n - 1] = w[n - 1])
      BY DEF Rounds
    <3> QED BY <3>1 DEF Same
  <2>3. Same(v, n) => RunOf(v)[n - 1] = RunOf(w)[n - 1]
    BY <1>1 DEF Same, Rounds
  <2> QED BY <2>1, <2>2, <2>3
<1>2. S = Rounds
  BY <1>1, RoundInduction
<1>3. k \in S /\ k <= k
  BY <1>2, GoalAssumption DEF Rounds
<1> QED BY <1>3

-----------------------------------------------------------------------------
(* The journal. *)
(* The places of a run before the assessment of its current round. *)
Judging == {"round", "look", "judge"} \cup Spending

OpenIn(nd) == {n \in Rounds : nd[<<"worker", n>>].status # "absent"}

(* What has to be known of round n before the next one may be opened. *)
Stands(nd, vd, n) ==
  /\ Succeeded(nd, n)
  /\ vd[n] # None
  /\ vd[n].blocker = "goal_not_met_yet"
  /\ RunOf(vd)[n] < MaxNoProgress

JournalOK(nd, vd) ==
  /\ \E k \in Rounds : OpenIn(nd) = 1 .. k
  /\ \A n \in Rounds : nd[<<"verifier", n>>].status = "absent" <=> n \notin OpenIn(nd)
  /\ \A n \in Rounds : Sound(vd[n])
  /\ \A n \in Rounds : nd[<<"verifier", n>>].status = "succeeded" => vd[n] # None
  /\ \A n \in Rounds : n + 1 \in OpenIn(nd) => Stands(nd, vd, n)

(* What the local variables m of a run at the place p say of the journal. *)
Progress(nd, vd, p, m) ==
  LET n == m.number
  IN  /\ \A k \in OpenIn(nd) : k <= m.count \/ k <= n
      /\ n > 1 => Stands(nd, vd, n - 1)
      /\ p \in Judging =>
           /\ n = 1 => m.previous = None /\ m.repeats = 0
           /\ n > 1 => m.previous = Signature(vd[n - 1]) /\ m.repeats = RunOf(vd)[n - 1]
      /\ p = "add" => n \notin OpenIn(nd)
      /\ p = "invalidate" => n >= m.count
      /\ p \in {"judge", "record", "complete"} => Succeeded(nd, n) /\ m.verdict = vd[n]
      /\ p \in {"record", "complete"} =>
           m.previous = Signature(vd[n]) /\ m.repeats = RunOf(vd)[n]
      /\ p = "complete" => m.verdict.blocker = "none"

(* What a completed goal rests on. *)
Evidence(nd, vd) ==
  LET v == vd[Cardinality(OpenIn(nd))]
  IN  /\ \A n \in OpenIn(nd), p \in Phases : nd[<<p, n>>].status = "succeeded"
      /\ v.met /\ v.blocker = "none" /\ v.content \in Required

(* Two journals that differ only in what is not yet or no longer done. *)
Alike(x, y) == (x = "absent" <=> y = "absent") /\ (x = "succeeded" <=> y = "succeeded")

LEMMA OpenedIs == Opened = OpenIn(node)
BY DEF Opened, OpenIn

LEMMA AlikeJournal ==
  ASSUME NEW nd, NEW nd2, NEW vd,
         \A y \in Nodes : Alike(nd[y].status, nd2[y].status)
  PROVE  /\ OpenIn(nd2) = OpenIn(nd)
         /\ \A n \in Rounds : Succeeded(nd2, n) <=> Succeeded(nd, n)
         /\ JournalOK(nd, vd) => JournalOK(nd2, vd)
         /\ \A n \in Rounds : Stands(nd, vd, n) => Stands(nd2, vd, n)
<1>1. \A n \in Rounds : <<"worker", n>> \in Nodes /\ <<"verifier", n>> \in Nodes
  BY DEF Nodes, Phases
<1>2. OpenIn(nd2) = OpenIn(nd)
  BY <1>1 DEF OpenIn, Alike
<1>3. \A n \in Rounds : Succeeded(nd2, n) <=> Succeeded(nd, n)
  BY DEF Succeeded, Alike, Nodes
<1>4. \A n \in Rounds : Stands(nd, vd, n) => Stands(nd2, vd, n)
  BY <1>3 DEF Stands
<1>5. ASSUME JournalOK(nd, vd) PROVE JournalOK(nd2, vd)
  <2>1. \A n \in Rounds : /\ nd[<<"verifier", n>>].status = "absent" <=> nd2[<<"verifier", n>>].status = "absent"
                          /\ nd[<<"verifier", n>>].status = "succeeded" <=> nd2[<<"verifier", n>>].status = "succeeded"
    BY <1>1 DEF Alike
  <2> QED BY <1>2, <1>4, <1>5, <2>1 DEF JournalOK
<1> QED BY <1>2, <1>3, <1>4, <1>5

LEMMA StandsKept ==
  ASSUME NEW nd, NEW nd2, NEW vd, NEW vd2, NEW n \in Rounds, NEW m \in Rounds, m < n,
         Stands(nd, vd, m), Succeeded(nd2, m),
         \A x \in Rounds \ {n} : vd2[x] = vd[x]
  PROVE  Stands(nd2, vd2, m) /\ RunOf(vd2)[m] = RunOf(vd)[m] /\ vd2[m] = vd[m]
<1>1. \A x \in 1 .. m : x \in Rounds \ {n}
  BY GoalAssumption DEF Rounds
<1>2. \A x \in 1 .. m : vd2[x] = vd[x]
  BY <1>1
<1>3. RunOf(vd2)[m] = RunOf(vd)[m]
  BY <1>2, RunPrefix
<1>4. vd2[m] = vd[m]
  <2>1. m # n
    BY GoalAssumption DEF Rounds
  <2> QED BY <2>1
<1> QED BY <1>3, <1>4 DEF Stands

(* One phase of the last opened round, or its verdict, changes. *)
ChangesLast(nd, vd, nd2, vd2, p, n) ==
  /\ JournalOK(nd, vd) /\ n + 1 \notin OpenIn(nd)
  /\ \A y \in Nodes \ {<<p, n>>} : nd2[y] = nd[y]
  /\ nd[<<p, n>>].status # "absent" /\ nd2[<<p, n>>].status # "absent"
  /\ \A x \in Rounds \ {n} : vd2[x] = vd[x]
  /\ Sound(vd2[n])
  /\ nd2[<<"verifier", n>>].status = "succeeded" => vd2[n] # None

KeepsEarlier(nd, vd, nd2, vd2, n) ==
  /\ JournalOK(nd2, vd2)
  /\ OpenIn(nd2) = OpenIn(nd)
  /\ \A m \in Rounds : m < n /\ Stands(nd, vd, m) =>
       Stands(nd2, vd2, m) /\ RunOf(vd2)[m] = RunOf(vd)[m] /\ vd2[m] = vd[m]

LEMMA LastChanged ==
  ASSUME NEW nd, NEW nd2, NEW vd, NEW vd2, NEW n \in Rounds, NEW p \in Phases,
         ChangesLast(nd, vd, nd2, vd2, p, n)
  PROVE  KeepsEarlier(nd, vd, nd2, vd2, n)
<1>0. /\ JournalOK(nd, vd) /\ n + 1 \notin OpenIn(nd)
      /\ \A y \in Nodes \ {<<p, n>>} : nd2[y] = nd[y]
      /\ nd[<<p, n>>].status # "absent" /\ nd2[<<p, n>>].status # "absent"
      /\ \A x \in Rounds \ {n} : vd2[x] = vd[x]
      /\ Sound(vd2[n])
      /\ nd2[<<"verifier", n>>].status = "succeeded" => vd2[n] # None
  BY Zenon DEF ChangesLast
<1> USE <1>0
<1>1. /\ <<p, n>> \in Nodes
      /\ \A x \in Rounds : <<"worker", x>> \in Nodes /\ <<"verifier", x>> \in Nodes
      /\ \A x \in Rounds, q \in Phases : <<q, x>> \in Nodes
  BY DEF Nodes, Phases
<1>2. \A y \in Nodes : nd2[y].status = "absent" <=> nd[y].status = "absent"
  BY <1>1
<1>3. OpenIn(nd2) = OpenIn(nd)
  BY <1>1, <1>2 DEF OpenIn
<1>4. ASSUME NEW m \in Rounds, m < n, Stands(nd, vd, m)
      PROVE  Stands(nd2, vd2, m) /\ RunOf(vd2)[m] = RunOf(vd)[m] /\ vd2[m] = vd[m]
  <2>1. \A q \in Phases : nd2[<<q, m>>] = nd[<<q, m>>]
    <3>1. \A q \in Phases : <<q, m>> # <<p, n>>
      BY <1>4, GoalAssumption DEF Rounds
    <3> QED BY <1>1, <3>1
  <2>2. Succeeded(nd2, m)
    BY <1>4, <2>1 DEF Stands, Succeeded
  <2> QED BY <1>4, <2>2, StandsKept
<1>5. ASSUME NEW m \in Rounds, m + 1 \in OpenIn(nd)
      PROVE  Stands(nd2, vd2, m)
  <2>1. m < n
    <3>1. PICK k \in Rounds : OpenIn(nd) = 1 .. k
      BY DEF JournalOK
    <3> QED BY <1>5, <3>1, GoalAssumption DEF Rounds
  <2>2. Stands(nd, vd, m)
    BY <1>5 DEF JournalOK
  <2> QED BY <1>4, <2>1, <2>2
<1>6. \A x \in Rounds : Sound(vd2[x])
  <2>1. \A x \in Rounds : Sound(vd[x])
    BY DEF JournalOK
  <2> QED BY <2>1
<1>7. \A x \in Rounds : nd2[<<"verifier", x>>].status = "succeeded" => vd2[x] # None
  <2> SUFFICES ASSUME NEW x \in Rounds, x # n, nd2[<<"verifier", x>>].status = "succeeded"
               PROVE  vd2[x] # None
    OBVIOUS
  <2>1. nd2[<<"verifier", x>>] = nd[<<"verifier", x>>]
    BY <1>1
  <2> QED BY <2>1 DEF JournalOK
<1>8. \A x \in Rounds : nd2[<<"verifier", x>>].status = "absent" <=> x \notin OpenIn(nd)
  BY <1>1, <1>2 DEF JournalOK
<1>9. \E k \in Rounds : OpenIn(nd) = 1 .. k
  BY DEF JournalOK
<1>10. JournalOK(nd2, vd2)
  BY <1>3, <1>5, <1>6, <1>7, <1>8, <1>9 DEF JournalOK
<1> QED BY <1>3, <1>4, <1>10 DEF KeepsEarlier

(* The next round is opened behind one that stands. *)
LEMMA RoundAdded ==
  ASSUME NEW nd, NEW nd2, NEW vd, NEW n \in Rounds,
         JournalOK(nd, vd), n \notin OpenIn(nd), n > 1 => Stands(nd, vd, n - 1),
         \A y \in Nodes : nd2[y].status = IF y[2] = n THEN "pending" ELSE nd[y].status
  PROVE  /\ JournalOK(nd2, vd)
         /\ OpenIn(nd2) = OpenIn(nd) \cup {n}
         /\ n > 1 => Stands(nd2, vd, n - 1)
<1>1. ASSUME NEW x \in Rounds, NEW q \in Phases
      PROVE  nd2[<<q, x>>].status = IF x = n THEN "pending" ELSE nd[<<q, x>>].status
  <2>1. <<q, x>> \in Nodes /\ <<q, x>>[2] = x
    BY DEF Nodes
  <2> QED BY <2>1
<1>2. "worker" \in Phases /\ "verifier" \in Phases
  BY DEF Phases
<1>3. OpenIn(nd2) = OpenIn(nd) \cup {n}
  BY <1>1, <1>2 DEF OpenIn
<1>4. PICK k \in Rounds : OpenIn(nd) = 1 .. k
  BY DEF JournalOK
<1>5. k + 1 = n /\ n > 1
  <2>1. n > 1 => n - 1 \in Rounds
    BY GoalAssumption DEF Rounds
  <2>2. n > 1 => n - 1 \in OpenIn(nd)
    <3> SUFFICES ASSUME n > 1 PROVE n - 1 \in OpenIn(nd)
      OBVIOUS
    <3>1. nd[<<"worker", n - 1>>].status = "succeeded"
      BY <1>2 DEF Stands, Succeeded
    <3> QED BY <2>1, <3>1 DEF OpenIn
  <2>3. k \in Nat /\ k >= 1 /\ n \in Nat /\ n >= 1
    BY GoalAssumption DEF Rounds
  <2> QED BY <1>4, <2>2, <2>3
<1>6. OpenIn(nd2) = 1 .. n
  BY <1>3, <1>4, <1>5, GoalAssumption DEF Rounds
<1>7. ASSUME NEW m \in Rounds, m # n, Stands(nd, vd, m)
      PROVE  Stands(nd2, vd, m)
  BY <1>1, <1>7 DEF Stands, Succeeded
<1>8. n > 1 => Stands(nd2, vd, n - 1)
  <2>1. n - 1 \in Rounds /\ n - 1 # n
    BY <1>5, GoalAssumption DEF Rounds
  <2> QED BY <1>7, <2>1
<1>9. ASSUME NEW m \in Rounds, m + 1 \in OpenIn(nd2)
      PROVE  Stands(nd2, vd, m)
  <2>1. CASE m + 1 \in OpenIn(nd)
    <3>1. Stands(nd, vd, m)
      BY <2>1 DEF JournalOK
    <3>2. m # n
      BY <1>4, <1>5, <2>1, GoalAssumption DEF Rounds
    <3> QED BY <1>7, <3>1, <3>2
  <2>2. CASE m + 1 = n
    <3>1. m = n - 1
      BY <2>2, GoalAssumption DEF Rounds
    <3> QED BY <1>5, <1>8, <3>1
  <2> QED BY <1>3, <1>9, <2>1, <2>2
<1>10. \A x \in Rounds : nd2[<<"verifier", x>>].status = "absent" <=> x \notin OpenIn(nd2)
  BY <1>1, <1>2, <1>3 DEF JournalOK
<1>11. \A x \in Rounds : nd2[<<"verifier", x>>].status = "succeeded" => vd[x] # None
  BY <1>1, <1>2 DEF JournalOK
<1>12. JournalOK(nd2, vd)
  BY <1>6, <1>9, <1>10, <1>11 DEF JournalOK
<1> QED BY <1>3, <1>8, <1>12

(* The runs before their claim know the journal as it is.                   *)
ReadInv ==
  \A r \in Runs :
    /\ pc[r] \in {"idle", "claim"} =>
         my[r].number = 1 /\ my[r].repeats = 0 /\ my[r].previous = None
    /\ pc[r] = "claim" =>
         /\ ~Leased
         /\ OpenIn(node) = 1 .. my[r].count
         /\ \A s \in Runs \ {r} : pc[s] # "claim"

Holds(r) == inst.owner = r /\ ~inst.lapsed

(* The report of a verifier that is on its way into the journal. *)
Reported(p, m) ==
  /\ Sound(m.verdict)
  /\ p = "succeed" /\ m.phase = "verifier" => m.verdict # None

JournalInv ==
  /\ AccountInv
  /\ JournalOK(node, verdict)
  /\ ReadInv
  /\ \A r \in Runs : Reported(pc[r], my[r])
  /\ \A r \in Runs : Holds(r) /\ pc[r] \in Working => Progress(node, verdict, pc[r], my[r])
  /\ inst.status = "completed" => Evidence(node, verdict)

LEMMA FenceHolds ==
  ASSUME AccountInv, NEW r \in Runs, Fence(r)
  PROVE  /\ Holds(r) /\ Leased /\ inst.status # "completed"
         /\ \A s \in Runs \ {r} : ~Holds(s)
BY GoalAssumption DEF Fence, Holds, Leased

(* A claimed run makes a step under the row of the instance as it is. *)
LEMMA Advances ==
  ASSUME JournalInv, AccountInv', NEW r \in Runs, Others(r), UNCHANGED inst,
         pc[r] # "idle", pc'[r] \notin {"idle", "claim"},
         Fence(r) \/ UNCHANGED <<node, verdict>>,
         JournalOK(node', verdict'),
         Reported(pc'[r], my'[r]),
         Holds(r) /\ pc'[r] \in Working => Progress(node', verdict', pc'[r], my'[r])
  PROVE  JournalInv'
<1>1. AccountInv
  BY DEF JournalInv
<1>2. \A s \in Runs : Reported(pc'[s], my'[s])
  BY DEF JournalInv, Others
<1>3. ASSUME NEW s \in Runs, Holds(s)', pc'[s] \in Working
      PROVE  Progress(node', verdict', pc'[s], my'[s])
  <2>1. Holds(s)
    BY <1>3 DEF Holds
  <2>2. CASE s = r
    BY <1>3, <2>1, <2>2
  <2>3. CASE s # r
    <3>1. UNCHANGED <<node, verdict>> /\ pc'[s] = pc[s] /\ my'[s] = my[s]
      BY <1>1, <2>1, <2>3, FenceHolds DEF Others
    <3> QED BY <1>3, <2>1, <3>1 DEF JournalInv
  <2> QED BY <2>2, <2>3
<1>4. ReadInv'
  <2>1. ASSUME NEW s \in Runs, pc'[s] \in {"idle", "claim"}
        PROVE  my'[s].number = 1 /\ my'[s].repeats = 0 /\ my'[s].previous = None
    <3>1. pc'[s] = pc[s] /\ my'[s] = my[s]
      BY <2>1 DEF Others
    <3> QED BY <2>1, <3>1 DEF JournalInv, ReadInv
  <2>2. ASSUME NEW s \in Runs, pc'[s] = "claim"
        PROVE  /\ ~Leased' /\ OpenIn(node') = 1 .. my'[s].count
               /\ \A t \in Runs \ {s} : pc'[t] # "claim"
    <3>1. pc[s] = "claim" /\ my'[s] = my[s]
      BY <2>2 DEF Others
    <3>2. ~Leased /\ OpenIn(node) = 1 .. my[s].count /\ \A t \in Runs \ {s} : pc[t] # "claim"
      BY <3>1 DEF JournalInv, ReadInv
    <3>3. UNCHANGED node
      BY <1>1, <3>2, FenceHolds
    <3>4. ~Leased'
      BY <3>2 DEF Leased
    <3>5. \A t \in Runs \ {s} : pc'[t] # "claim"
      BY <3>2 DEF Others
    <3> QED BY <3>1, <3>2, <3>3, <3>4, <3>5
  <2> QED BY <2>1, <2>2 DEF ReadInv
<1>5. inst'.status = "completed" => Evidence(node', verdict')
  BY <1>1, FenceHolds DEF JournalInv
<1> QED BY <1>2, <1>3, <1>4, <1>5 DEF JournalInv

(* The lease is given back and no round opened. *)
LEMMA GivesBack ==
  ASSUME JournalInv, AccountInv', inst'.owner = None,
         \A s \in Runs : /\ pc'[s] # "claim" \/ (pc'[s] = pc[s] /\ my'[s] = my[s])
                         /\ pc'[s] = "idle" => pc[s] = "idle" /\ my'[s] = my[s]
                         /\ Reported(pc'[s], my'[s]),
         OpenIn(node') = OpenIn(node),
         JournalOK(node', verdict'),
         inst'.status = "completed" => Evidence(node', verdict')
  PROVE  JournalInv'
<1>1. \A s \in Runs : ~Holds(s)'
  BY GoalAssumption DEF Holds
<1>2. ReadInv'
  <2>1. ASSUME NEW s \in Runs, pc'[s] \in {"idle", "claim"}
        PROVE  my'[s].number = 1 /\ my'[s].repeats = 0 /\ my'[s].previous = None
    <3>1. pc[s] \in {"idle", "claim"} /\ my'[s] = my[s]
      BY <2>1
    <3> QED BY <3>1 DEF JournalInv, ReadInv
  <2>2. ASSUME NEW s \in Runs, pc'[s] = "claim"
        PROVE  /\ ~Leased' /\ OpenIn(node') = 1 .. my'[s].count
               /\ \A t \in Runs \ {s} : pc'[t] # "claim"
    <3>1. pc[s] = "claim" /\ my'[s] = my[s]
      BY <2>2
    <3>2. OpenIn(node) = 1 .. my[s].count /\ \A t \in Runs \ {s} : pc[t] # "claim"
      BY <3>1 DEF JournalInv, ReadInv
    <3>3. \A t \in Runs \ {s} : pc'[t] # "claim"
      BY <3>2
    <3> QED BY <3>1, <3>2, <3>3 DEF Leased
  <2> QED BY <2>1, <2>2 DEF ReadInv
<1> QED BY <1>1, <1>2 DEF JournalInv

(* Nothing has happened to the journal and the runs. *)
LEMMA Idles ==
  ASSUME JournalInv, AccountInv', UNCHANGED <<node, verdict, pc, my>>,
         inst'.status = inst.status, inst'.owner = inst.owner,
         inst.lapsed => inst'.lapsed
  PROVE  JournalInv'
<1>1. \A s \in Runs : Holds(s)' => Holds(s)
  BY DEF Holds
<1>2. Leased' => Leased
  BY DEF Leased
<1>3. ReadInv'
  BY <1>2 DEF JournalInv, ReadInv
<1>4. \A s \in Runs : Holds(s)' /\ pc'[s] \in Working => Progress(node', verdict', pc'[s], my'[s])
  BY <1>1 DEF JournalInv
<1> QED BY <1>3, <1>4 DEF JournalInv

(* A verdict without a blocker ends the goal only in its last opened round. *)
LEMMA Concluded ==
  ASSUME NEW nd, NEW vd, NEW m, JournalOK(nd, vd), m.number \in Rounds,
         Progress(nd, vd, "complete", m),
         \A y \in Nodes : nd[y].status \in {"absent", "succeeded"}
  PROVE  Evidence(nd, vd)
<1> DEFINE n == m.number
<1>1. Succeeded(nd, n) /\ m.verdict = vd[n] /\ vd[n].blocker = "none"
  BY DEF Progress
<1>2. "worker" \in Phases /\ "verifier" \in Phases /\ \A x \in Rounds, q \in Phases : <<q, x>> \in Nodes
  BY DEF Nodes, Phases
<1>3. n \in OpenIn(nd) /\ vd[n] # None
  BY <1>1, <1>2 DEF Succeeded, OpenIn, JournalOK
<1>4. n + 1 \notin OpenIn(nd)
  <2>1. n + 1 \in OpenIn(nd) => vd[n].blocker = "goal_not_met_yet"
    BY DEF JournalOK, Stands
  <2> QED BY <1>1, <2>1
<1>5. OpenIn(nd) = 1 .. n
  <2>1. PICK k \in Rounds : OpenIn(nd) = 1 .. k
    BY DEF JournalOK
  <2>2. k = n
    BY <1>3, <1>4, <2>1, GoalAssumption DEF Rounds
  <2> QED BY <2>1, <2>2
<1>6. Cardinality(OpenIn(nd)) = n
  <2>1. n \in Nat /\ 1 \in Nat
    BY GoalAssumption DEF Rounds
  <2>2. Cardinality(1 .. n) = IF 1 > n THEN 0 ELSE n - 1 + 1
    <3>1. 1 \in Int /\ n \in Int
      BY <2>1
    <3> QED BY <3>1, FS_Interval, Zenon
  <2>3. n >= 1
    BY DEF Rounds
  <2> QED BY <1>5, <2>1, <2>2, <2>3
<1>7. \A x \in OpenIn(nd), q \in Phases : nd[<<q, x>>].status = "succeeded"
  <2> SUFFICES ASSUME NEW x \in OpenIn(nd), NEW q \in Phases PROVE nd[<<q, x>>].status = "succeeded"
    OBVIOUS
  <2>1. x \in Rounds /\ nd[<<"worker", x>>].status # "absent" /\ nd[<<"verifier", x>>].status # "absent"
    BY DEF OpenIn, JournalOK
  <2>2. nd[<<q, x>>].status # "absent"
    BY <2>1 DEF Phases
  <2> QED BY <1>2, <2>1, <2>2
<1>8. Sound(vd[n])
  BY DEF JournalOK
<1>9. vd[n].met /\ vd[n].content \in Required
  BY <1>1, <1>3, <1>8 DEF Sound
<1> QED BY <1>1, <1>6, <1>7, <1>9 DEF Evidence

-----------------------------------------------------------------------------
(* The steps of a run keep JournalInv. *)
(* A run stops, or goes on within a round, and the journal stays. *)
LEMMA GoesOnJudging ==
  ASSUME JournalInv, AccountInv', NEW r \in Runs, Others(r), UNCHANGED <<inst, node, verdict>>,
         pc[r] \in Working, pc'[r] \notin {"idle", "claim"},
         my'[r].number = my[r].number, my'[r].count = my[r].count,
         pc'[r] \in Judging => /\ pc[r] \in Judging
                               /\ my'[r].previous = my[r].previous
                               /\ my'[r].repeats = my[r].repeats,
         pc'[r] \notin {"add", "invalidate", "judge", "record", "complete"},
         Reported(pc'[r], my'[r])
  PROVE  JournalInv'
<1>1. JournalOK(node', verdict')
  BY DEF JournalInv
<1>2. ASSUME Holds(r) PROVE Progress(node', verdict', pc'[r], my'[r])
  <2>1. Progress(node, verdict, pc[r], my[r])
    BY <1>2 DEF JournalInv
  <2>2. Progress(node, verdict, pc'[r], my'[r])
    BY <2>1 DEF Progress
  <2> QED BY <2>2
<1>3. pc[r] # "idle"
  BY DEF Working, Landing
<1> QED BY <1>1, <1>2, <1>3, Advances

LEMMA JournalLook ==
  ASSUME JournalInv, NEW r \in Runs, Look(r)
  PROVE  JournalInv'
<1>0. /\ AccountInv /\ TypeOK /\ my[r] \in Local /\ AccountInv'
      /\ JournalOK(node, verdict) /\ Reported(pc[r], my[r])
  BY AccountStep DEF JournalInv, AccountInv, TypeOK, Step
<1>1. /\ Others(r) /\ pc[r] \in {"round", "look"}
      /\ UNCHANGED <<inst, node, verdict, used, moved>>
      /\ \/ /\ pc'[r] = "stop" /\ my'[r] = my[r]
         \/ /\ \E p \in Phases : my'[r] = [my[r] EXCEPT !.phase = p]
            /\ \/ pc'[r] = "stop"
               \/ Spent < MaxTokens /\ pc'[r] = "add" /\ my[r].number \notin Opened
               \/ Spent < MaxTokens /\ pc'[r] = "begin"
         \/ /\ pc'[r] = "judge" /\ Succeeded(node, my[r].number)
            /\ my'[r] = [my[r] EXCEPT !.verdict = verdict[my[r].number]]
  BY <1>0, LookEffect
<1>2. /\ pc[r] \in Working /\ pc[r] \in Judging /\ pc[r] # "idle"
      /\ {"add", "begin", "judge"} \subseteq Judging /\ "stop" \notin Judging
  BY <1>1 DEF Working, Judging, Spending, Landing
<1>3. Holds(r) => Progress(node, verdict, pc[r], my[r])
  BY <1>2 DEF JournalInv
<1>4. CASE pc'[r] = "stop" /\ my'[r] = my[r]
  <2>1. Reported("stop", my[r])
    BY <1>0 DEF Reported
  <2> QED BY <1>0, <1>1, <1>2, <1>4, <2>1, GoesOnJudging
<1>5. CASE /\ \E p \in Phases : my'[r] = [my[r] EXCEPT !.phase = p]
           /\ \/ pc'[r] = "stop"
              \/ pc'[r] = "add" /\ my[r].number \notin Opened
              \/ pc'[r] = "begin"
  <2>1. /\ my'[r].number = my[r].number /\ my'[r].count = my[r].count
        /\ my'[r].previous = my[r].previous /\ my'[r].repeats = my[r].repeats
        /\ my'[r].verdict = my[r].verdict
    BY <1>0, <1>5, SetPhase
  <2>2. Reported(pc'[r], my'[r])
    BY <1>0, <1>5, <2>1 DEF Reported
  <2>3. Holds(r) => Progress(node, verdict, pc'[r], my'[r])
    BY <1>2, <1>3, <1>5, <2>1, OpenedIs DEF Progress
  <2>4. JournalOK(node', verdict') /\ (Holds(r) => Progress(node', verdict', pc'[r], my'[r]))
    BY <1>0, <1>1, <2>3
  <2>5. pc'[r] \notin {"idle", "claim"}
    BY <1>5
  <2> QED BY <1>0, <1>1, <1>2, <2>2, <2>4, <2>5, Advances
<1>6. CASE /\ pc'[r] = "judge" /\ Succeeded(node, my[r].number)
           /\ my'[r] = [my[r] EXCEPT !.verdict = verdict[my[r].number]]
  <2>0. my[r].number \in Rounds /\ verdict[my[r].number] \in Verdict \cup {None}
    BY <1>0 DEF Local, TypeOK
  <2>1. /\ my'[r].number = my[r].number /\ my'[r].count = my[r].count
        /\ my'[r].previous = my[r].previous /\ my'[r].repeats = my[r].repeats
        /\ my'[r].verdict = verdict[my[r].number]
    BY <1>0, <1>6, <2>0, SetVerdict
  <2>2. Reported(pc'[r], my'[r])
    BY <1>0, <1>6, <2>0, <2>1 DEF Reported, JournalOK
  <2>3. Holds(r) => Progress(node, verdict, pc'[r], my'[r])
    BY <1>2, <1>3, <1>6, <2>1 DEF Progress
  <2>4. JournalOK(node', verdict') /\ (Holds(r) => Progress(node', verdict', pc'[r], my'[r]))
    BY <1>0, <1>1, <2>3
  <2>5. pc'[r] \notin {"idle", "claim"}
    BY <1>6
  <2> QED BY <1>0, <1>1, <1>2, <2>2, <2>4, <2>5, Advances
<1> QED BY <1>1, <1>4, <1>5, <1>6

LEMMA JournalAdd ==
  ASSUME JournalInv, NEW r \in Runs, AddNodes(r)
  PROVE  JournalInv'
<1>0. /\ AccountInv /\ TypeOK /\ my[r] \in Local /\ AccountInv'
      /\ JournalOK(node, verdict) /\ Reported(pc[r], my[r]) /\ my[r].number \in Rounds
  BY AccountStep DEF JournalInv, AccountInv, TypeOK, Step, Local
<1>1. /\ Others(r) /\ pc[r] = "add" /\ my'[r] = my[r]
      /\ UNCHANGED <<inst, verdict, used, moved>>
      /\ \/ UNCHANGED node /\ pc'[r] = "stop"
         \/ /\ Fence(r) /\ pc'[r] = "look"
            /\ \A y \in Nodes :
                 /\ node'[y].spent = node[y].spent
                 /\ node'[y].status = IF y[2] = my[r].number THEN "pending" ELSE node[y].status
  BY <1>0, AddNodesEffect
<1>2. /\ pc[r] \in Working /\ pc[r] \in Judging /\ pc[r] # "idle" /\ "stop" \notin Judging
      /\ "look" \in Judging
  BY <1>1 DEF Working, Judging, Spending, Landing
<1>3. Reported("stop", my[r]) /\ Reported("look", my[r])
  BY <1>0 DEF Reported
<1>4. CASE UNCHANGED node /\ pc'[r] = "stop"
  BY <1>0, <1>1, <1>2, <1>3, <1>4, GoesOnJudging
<1>5. CASE /\ Fence(r) /\ pc'[r] = "look"
           /\ \A y \in Nodes :
                node'[y].status = IF y[2] = my[r].number THEN "pending" ELSE node[y].status
  <2> DEFINE n == my[r].number
  <2>1. Holds(r)
    BY <1>0, <1>5, FenceHolds
  <2>2. Progress(node, verdict, "add", my[r])
    BY <1>1, <1>2, <2>1 DEF JournalInv
  <2>3. n \notin OpenIn(node) /\ (n > 1 => Stands(node, verdict, n - 1))
    BY <2>2 DEF Progress
  <2>4. /\ JournalOK(node', verdict)
        /\ OpenIn(node') = OpenIn(node) \cup {n}
        /\ n > 1 => Stands(node', verdict, n - 1)
    BY <1>0, <1>5, <2>3, RoundAdded
  <2>5. Progress(node', verdict, "look", my[r])
    <3>1. \A k \in OpenIn(node') : k <= my[r].count \/ k <= n
      BY <1>0, <2>2, <2>4, GoalAssumption DEF Progress, Rounds
    <3>2. "add" \in Judging
      BY DEF Judging, Spending
    <3> QED BY <2>2, <2>4, <3>1, <3>2 DEF Progress
  <2>6. JournalOK(node', verdict') /\ Progress(node', verdict', pc'[r], my'[r])
    BY <1>1, <1>5, <2>4, <2>5
  <2>7. pc'[r] \notin {"idle", "claim"} /\ Reported(pc'[r], my'[r])
    BY <1>1, <1>3, <1>5
  <2> QED BY <1>0, <1>1, <1>2, <1>5, <2>6, <2>7, Advances
<1> QED BY <1>1, <1>4, <1>5

(* A phase is begun. *)
LEMMA JournalBegin ==
  ASSUME JournalInv, NEW r \in Runs, BeginNode(r)
  PROVE  JournalInv'
<1> DEFINE pn == <<my[r].phase, my[r].number>>
<1>0. /\ AccountInv /\ TypeOK /\ my[r] \in Local /\ AccountInv'
      /\ JournalOK(node, verdict) /\ Reported(pc[r], my[r]) /\ my[r].number \in Rounds
  BY AccountStep DEF JournalInv, AccountInv, TypeOK, Step, Local
<1>1. /\ Others(r) /\ pc[r] = "begin" /\ my'[r] = my[r] /\ pn \in Nodes
      /\ UNCHANGED <<inst, verdict, used, moved>>
      /\ \/ UNCHANGED node /\ pc'[r] = "stop"
         \/ /\ Fence(r) /\ pc'[r] = "work"
            /\ node[pn].status = "pending" /\ node'[pn].status = "running"
            /\ \A y \in Nodes \ {pn} : node'[y] = node[y]
  BY <1>0, BeginNodeEffect
<1> HIDE DEF pn
<1>2. /\ pc[r] \in Working /\ pc[r] \in Judging /\ pc[r] # "idle" /\ "stop" \notin Judging
      /\ "work" \in Judging
  BY <1>1 DEF Working, Judging, Spending, Landing
<1>3. Reported("stop", my[r]) /\ Reported("work", my[r])
  BY <1>0 DEF Reported
<1>4. CASE UNCHANGED node /\ pc'[r] = "stop"
  BY <1>0, <1>1, <1>2, <1>3, <1>4, GoesOnJudging
<1>5. CASE /\ Fence(r) /\ pc'[r] = "work"
           /\ node[pn].status = "pending" /\ node'[pn].status = "running"
           /\ \A y \in Nodes \ {pn} : node'[y] = node[y]
  <2>1. Progress(node, verdict, pc[r], my[r])
    BY <1>0, <1>2, <1>5, FenceHolds DEF JournalInv
  <2>2. \A y \in Nodes : Alike(node[y].status, node'[y].status)
    BY <1>5 DEF Alike
  <2>3. /\ JournalOK(node', verdict) /\ OpenIn(node') = OpenIn(node)
        /\ \A n \in Rounds : Stands(node, verdict, n) => Stands(node', verdict, n)
    BY <1>0, <2>2, AlikeJournal
  <2>4. my[r].number > 1 => my[r].number - 1 \in Rounds /\ Stands(node', verdict, my[r].number - 1)
    BY <1>0, <2>1, <2>3, GoalAssumption DEF Progress, Rounds
  <2>5. Progress(node', verdict, "work", my[r])
    BY <1>2, <2>1, <2>3, <2>4 DEF Progress
  <2>6. /\ JournalOK(node', verdict') /\ Progress(node', verdict', pc'[r], my'[r])
        /\ pc'[r] \notin {"idle", "claim"} /\ Reported(pc'[r], my'[r])
    BY <1>1, <1>3, <1>5, <2>3, <2>5
  <2> QED BY <1>0, <1>1, <1>2, <1>5, <2>6, Advances
<1> QED BY <1>1, <1>4, <1>5

(* The agent of a phase ends or is cancelled. *)
LEMMA JournalAgent ==
  ASSUME JournalInv, NEW r \in Runs, AgentEnds(r) \/ Cancel(r)
  PROVE  JournalInv'
<1>0. /\ AccountInv /\ TypeOK /\ my[r] \in Local /\ Reported(pc[r], my[r])
  BY DEF JournalInv, AccountInv, TypeOK
<1>1. AccountInv'
  BY <1>0, AccountStep, AccountNext DEF Step, Next
<1>2. /\ Others(r) /\ pc[r] = "work" /\ UNCHANGED <<inst, node, verdict, used, moved>>
  BY <1>0, AgentEndsEffect, CancelEffect
<1>3. \E c \in 0 .. MaxCost :
        \/ pc'[r] \in {"fail", "cancelled"} /\ my'[r] = [my[r] EXCEPT !.cost = c]
        \/ /\ my[r].phase = "worker" /\ pc'[r] = "succeed"
           /\ my'[r] = [my[r] EXCEPT !.cost = c]
        \/ /\ my[r].phase = "verifier" /\ pc'[r] = "succeed"
           /\ \E v \in Verdict : Sound(v) /\ my'[r] = [my[r] EXCEPT !.cost = c, !.verdict = v]
  <2>1. CASE AgentEnds(r)
    <3>1. \E c \in 0 .. MaxCost :
            \/ pc'[r] = "fail" /\ my'[r] = [my[r] EXCEPT !.cost = c]
            \/ /\ my[r].phase = "worker" /\ pc'[r] = "succeed"
               /\ my'[r] = [my[r] EXCEPT !.cost = c]
            \/ /\ my[r].phase = "verifier" /\ pc'[r] = "succeed"
               /\ \E v \in Verdict : Sound(v) /\ my'[r] = [my[r] EXCEPT !.cost = c, !.verdict = v]
      BY <1>0, <2>1, AgentEndsEffect, Zenon
    <3> QED BY <3>1, Zenon
  <2>2. CASE Cancel(r)
    <3>1. pc'[r] = "cancelled" /\ \E c \in 0 .. MaxCost : my'[r] = [my[r] EXCEPT !.cost = c]
      BY <1>0, <2>2, CancelEffect, Zenon
    <3> QED BY <3>1, Zenon
  <2> QED BY <2>1, <2>2
<1>4. /\ my'[r].number = my[r].number /\ my'[r].count = my[r].count
      /\ my'[r].previous = my[r].previous /\ my'[r].repeats = my[r].repeats
      /\ Reported(pc'[r], my'[r]) /\ pc'[r] \in Landing
  <2>1. PICK m : m = my[r]
    OBVIOUS
  <2>2. m \in Local /\ Reported(pc[r], m)
    BY <1>0, <2>1
  <2>3. PICK c \in 0 .. MaxCost :
          \/ pc'[r] \in {"fail", "cancelled"} /\ my'[r] = [m EXCEPT !.cost = c]
          \/ /\ m.phase = "worker" /\ pc'[r] = "succeed"
             /\ my'[r] = [m EXCEPT !.cost = c]
          \/ /\ m.phase = "verifier" /\ pc'[r] = "succeed"
             /\ \E v \in Verdict : Sound(v) /\ my'[r] = [m EXCEPT !.cost = c, !.verdict = v]
    BY <1>3, <2>1, Zenon
  <2>4. c \in Nat
    BY GoalAssumption
  <2>5. CASE my'[r] = [m EXCEPT !.cost = c] /\ (pc'[r] \in {"fail", "cancelled"} \/ (m.phase = "worker" /\ pc'[r] = "succeed"))
    <3>1. /\ my'[r].number = m.number /\ my'[r].count = m.count
          /\ my'[r].previous = m.previous /\ my'[r].repeats = m.repeats
          /\ my'[r].verdict = m.verdict /\ my'[r].phase = m.phase
      BY <2>2, <2>4, <2>5, SetCost
    <3>2. Reported(pc'[r], my'[r])
      BY <2>2, <2>5, <3>1 DEF Reported
    <3> QED BY <2>1, <2>5, <3>1, <3>2 DEF Landing
  <2>6. CASE /\ m.phase = "verifier" /\ pc'[r] = "succeed"
             /\ \E v \in Verdict : Sound(v) /\ my'[r] = [m EXCEPT !.cost = c, !.verdict = v]
    <3>1. PICK v \in Verdict : Sound(v) /\ my'[r] = [m EXCEPT !.cost = c, !.verdict = v]
      BY <2>6
    <3>2. /\ my'[r].number = m.number /\ my'[r].count = m.count
          /\ my'[r].previous = m.previous /\ my'[r].repeats = m.repeats
          /\ my'[r].verdict = v
      BY <2>2, <3>1 DEF Local
    <3>3. v # None
      BY <3>1, NullAssumption
    <3>4. Reported(pc'[r], my'[r])
      BY <3>1, <3>2, <3>3 DEF Reported
    <3> QED BY <2>1, <2>6, <3>2, <3>4 DEF Landing
  <2> QED BY <2>3, <2>5, <2>6
<1>5. /\ pc[r] \in Working /\ pc[r] \in Judging /\ pc'[r] \notin {"idle", "claim"}
      /\ pc'[r] \notin {"add", "invalidate", "judge", "record", "complete"}
  BY <1>2, <1>4 DEF Working, Judging, Spending, Landing
<1> QED BY <1>1, <1>2, <1>4, <1>5, GoesOnJudging

(* The result of a phase is written. *)
LEMMA JournalFinish ==
  ASSUME JournalInv, NEW r \in Runs, FinishNode(r)
  PROVE  JournalInv'
<1> DEFINE pn == <<my[r].phase, my[r].number>>
           n  == my[r].number
<1>0. /\ AccountInv /\ TypeOK /\ my[r] \in Local /\ AccountInv' /\ TypeOK'
      /\ JournalOK(node, verdict) /\ Reported(pc[r], my[r])
      /\ n \in Rounds /\ my[r].phase \in Phases /\ my[r].verdict \in Verdict \cup {None}
      /\ verdict \in [Rounds -> Verdict \cup {None}]
  BY AccountStep DEF JournalInv, AccountInv, TypeOK, Step, Local
<1>1. /\ Others(r) /\ pc[r] \in Landing /\ pn \in Nodes
      /\ my'[r] = [my[r] EXCEPT !.cost = 0, !.verdict = None]
      /\ UNCHANGED <<inst, moved>>
      /\ \/ UNCHANGED <<node, used, verdict>> /\ pc'[r] = "stop"
         \/ /\ Fence(r) /\ node[pn].status = "running"
            /\ node'[pn].status = IF pc[r] = "succeed" THEN "succeeded" ELSE "blocked"
            /\ \A y \in Nodes \ {pn} : node'[y] = node[y]
            /\ verdict' = IF pc[r] = "succeed" /\ my[r].phase = "verifier"
                          THEN [verdict EXCEPT ![n] = my[r].verdict] ELSE verdict
            /\ pc'[r] = IF pc[r] = "succeed" THEN "look" ELSE "stop"
  BY <1>0, FinishNodeEffect
<1>2. /\ my'[r].number = n /\ my'[r].count = my[r].count
      /\ my'[r].previous = my[r].previous /\ my'[r].repeats = my[r].repeats
      /\ my'[r].verdict = None
  <2>1. PICK m : m = my[r]
    OBVIOUS
  <2>2. m \in Local /\ my'[r] = [m EXCEPT !.cost = 0, !.verdict = None]
    BY <1>0, <1>1, <2>1
  <2>3. /\ my'[r].number = m.number /\ my'[r].count = m.count
        /\ my'[r].previous = m.previous /\ my'[r].repeats = m.repeats
        /\ my'[r].verdict = None
    BY <2>2 DEF Local
  <2> QED BY <2>1, <2>3
<1>3. /\ pc[r] \in Working /\ pc[r] \in Judging /\ pc[r] # "idle"
      /\ pc'[r] \in {"look", "stop"} /\ pc[r] \notin {"judge", "record", "complete"}
  BY <1>1 DEF Working, Judging, Spending, Landing
<1>4. Reported(pc'[r], my'[r])
  BY <1>2, <1>3 DEF Reported, Sound
<1>5. CASE UNCHANGED <<node, used, verdict>> /\ pc'[r] = "stop"
  <2>1. "stop" \notin Judging
    BY DEF Judging, Spending, Landing
  <2> QED BY <1>0, <1>1, <1>2, <1>3, <1>4, <1>5, <2>1, GoesOnJudging
<1>6. CASE /\ Fence(r) /\ node[pn].status = "running"
           /\ node'[pn].status = IF pc[r] = "succeed" THEN "succeeded" ELSE "blocked"
           /\ \A y \in Nodes \ {pn} : node'[y] = node[y]
           /\ verdict' = IF pc[r] = "succeed" /\ my[r].phase = "verifier"
                         THEN [verdict EXCEPT ![n] = my[r].verdict] ELSE verdict
           /\ pc'[r] = IF pc[r] = "succeed" THEN "look" ELSE "stop"
  <2>1. Progress(node, verdict, pc[r], my[r])
    BY <1>0, <1>3, <1>6, FenceHolds DEF JournalInv
  <2>2. n + 1 \notin OpenIn(node)
    <3>1. ~Succeeded(node, n)
      BY <1>0, <1>6 DEF Succeeded
    <3> QED BY <1>0, <3>1 DEF JournalOK, Stands
  <2>3. /\ \A x \in Rounds \ {n} : verdict'[x] = verdict[x]
        /\ verdict'[n] = my[r].verdict \/ verdict'[n] = verdict[n]
        /\ pc[r] = "succeed" /\ my[r].phase = "verifier" => verdict'[n] = my[r].verdict
    BY <1>0, <1>6
  <2>4. Sound(verdict'[n])
    BY <1>0, <2>3 DEF JournalOK, Reported
  <2>5. node'[<<"verifier", n>>].status = "succeeded" => verdict'[n] # None
    <3> SUFFICES ASSUME node'[<<"verifier", n>>].status = "succeeded" PROVE verdict'[n] # None
      OBVIOUS
    <3>1. CASE my[r].phase = "verifier"
      <4>1. pc[r] = "succeed"
        BY <1>6, <3>1
      <4>2. my[r].verdict # None
        BY <1>0, <3>1, <4>1 DEF Reported
      <4> QED BY <2>3, <3>1, <4>1, <4>2
    <3>2. CASE my[r].phase # "verifier"
      <4>1. <<"verifier", n>> \in Nodes \ {pn}
        BY <1>0, <3>2 DEF Nodes, Phases
      <4>2. node[<<"verifier", n>>].status = "succeeded"
        BY <1>6, <4>1
      <4>3. verdict[n] # None
        BY <1>0, <4>2 DEF JournalOK
      <4>4. verdict' = verdict
        BY <1>6, <3>2
      <4> QED BY <4>3, <4>4
    <3> QED BY <3>1, <3>2
  <2>6. node[pn].status # "absent" /\ node'[pn].status # "absent"
    BY <1>6
  <2>7. /\ JournalOK(node', verdict')
        /\ OpenIn(node') = OpenIn(node)
        /\ \A m \in Rounds : m < n /\ Stands(node, verdict, m) =>
             Stands(node', verdict', m) /\ RunOf(verdict')[m] = RunOf(verdict)[m] /\ verdict'[m] = verdict[m]
    <3>1. PICK p \in Phases, k \in Rounds : p = my[r].phase /\ k = n
      BY <1>0
    <3>2. /\ JournalOK(node, verdict) /\ k + 1 \notin OpenIn(node)
          /\ \A y \in Nodes \ {<<p, k>>} : node'[y] = node[y]
          /\ node[<<p, k>>].status # "absent" /\ node'[<<p, k>>].status # "absent"
          /\ \A x \in Rounds \ {k} : verdict'[x] = verdict[x]
          /\ Sound(verdict'[k])
          /\ node'[<<"verifier", k>>].status = "succeeded" => verdict'[k] # None
      BY <1>0, <1>6, <2>2, <2>3, <2>4, <2>5, <2>6, <3>1
    <3>3. /\ JournalOK(node', verdict')
          /\ OpenIn(node') = OpenIn(node)
          /\ \A m \in Rounds : m < k /\ Stands(node, verdict, m) =>
               Stands(node', verdict', m) /\ RunOf(verdict')[m] = RunOf(verdict)[m] /\ verdict'[m] = verdict[m]
      <4> HIDE <1>0, <1>1, <1>2, <1>3, <1>4, <1>6, <2>1, <2>2, <2>3, <2>4, <2>5, <2>6, <3>1
      <4>1. ChangesLast(node, verdict, node', verdict', p, k)
        BY <3>2, Zenon DEF ChangesLast
      <4>2. KeepsEarlier(node, verdict, node', verdict', k)
        BY <4>1, LastChanged, Zenon
      <4> QED BY <4>2, Zenon DEF KeepsEarlier
    <3> QED BY <3>1, <3>3
  <2>8. n > 1 => /\ Stands(node', verdict', n - 1)
                 /\ verdict'[n - 1] = verdict[n - 1]
                 /\ RunOf(verdict')[n - 1] = RunOf(verdict)[n - 1]
    <3>1. n > 1 => n - 1 \in Rounds /\ n - 1 < n
      BY <1>0, GoalAssumption DEF Rounds
    <3>2. n > 1 => Stands(node, verdict, n - 1)
      BY <2>1 DEF Progress
    <3> QED BY <2>7, <3>1, <3>2
  <2>9. Progress(node', verdict', pc'[r], my'[r])
    <3>1. pc'[r] \notin {"add", "invalidate", "judge", "record", "complete"}
      BY <1>3
    <3> QED BY <1>2, <1>3, <2>1, <2>7, <2>8, <3>1 DEF Progress
  <2>10. pc'[r] \notin {"idle", "claim"}
    BY <1>3
  <2> QED BY <1>0, <1>1, <1>3, <1>4, <1>6, <2>7, <2>9, <2>10, Advances
<1> QED BY <1>1, <1>5, <1>6

LEMMA JournalJudge ==
  ASSUME JournalInv, NEW r \in Runs, Judge(r)
  PROVE  JournalInv'
<1> DEFINE v == my[r].verdict
           n == my[r].number
           c == IF my[r].previous = Signature(v) THEN my[r].repeats + 1 ELSE 0
<1>0. /\ AccountInv /\ TypeOK /\ my[r] \in Local /\ AccountInv'
      /\ JournalOK(node, verdict) /\ Reported(pc[r], my[r])
      /\ n \in Rounds /\ v \in Verdict \cup {None}
  BY AccountStep DEF JournalInv, AccountInv, TypeOK, Step, Local
<1>1. /\ Others(r) /\ pc[r] = "judge" /\ UNCHANGED <<inst, node, verdict, used, moved>>
      /\ \/ n >= my[r].count /\ pc'[r] = "invalidate" /\ my'[r] = my[r]
         \/ pc'[r] = "stop" /\ my'[r] = my[r]
         \/ /\ v # None /\ pc'[r] = "record"
            /\ my'[r] = [my[r] EXCEPT !.repeats = c, !.previous = Signature(v)]
  BY <1>0, JudgeEffect
<1>2. /\ pc[r] \in Working /\ pc[r] \in Judging /\ pc[r] # "idle"
      /\ {"stop", "invalidate", "record"} \cap Judging = {}
  BY <1>1 DEF Working, Judging, Spending, Landing
<1>3. Holds(r) => Progress(node, verdict, "judge", my[r])
  BY <1>1, <1>2 DEF JournalInv
<1>4. CASE pc'[r] = "stop" /\ my'[r] = my[r]
  <2>1. Reported("stop", my[r])
    BY <1>0 DEF Reported
  <2> QED BY <1>0, <1>1, <1>2, <1>4, <2>1, GoesOnJudging
<1>5. CASE n >= my[r].count /\ pc'[r] = "invalidate" /\ my'[r] = my[r]
  <2>1. Holds(r) => Progress(node, verdict, "invalidate", my[r])
    BY <1>2, <1>3, <1>5 DEF Progress
  <2>2. Reported("invalidate", my[r])
    BY <1>0 DEF Reported
  <2>3. /\ JournalOK(node', verdict') /\ (Holds(r) => Progress(node', verdict', pc'[r], my'[r]))
        /\ pc'[r] \notin {"idle", "claim"} /\ Reported(pc'[r], my'[r])
    BY <1>0, <1>1, <1>5, <2>1, <2>2
  <2> QED BY <1>0, <1>1, <1>2, <2>3, Advances
<1>6. CASE /\ v # None /\ pc'[r] = "record"
           /\ my'[r] = [my[r] EXCEPT !.repeats = c, !.previous = Signature(v)]
  <2>1. /\ my'[r].number = n /\ my'[r].count = my[r].count
        /\ my'[r].previous = Signature(v) /\ my'[r].repeats = c
        /\ my'[r].verdict = v
    <3>1. PICK m : m = my[r]
      OBVIOUS
    <3>2. PICK x : x = Signature(v)
      OBVIOUS
    <3> HIDE DEF c
    <3>3. m \in Local /\ my'[r] = [m EXCEPT !.repeats = c, !.previous = x]
      BY <1>0, <1>6, <3>1, <3>2
    <3>4. /\ my'[r].number = m.number /\ my'[r].count = m.count
          /\ my'[r].previous = x /\ my'[r].repeats = c
          /\ my'[r].verdict = m.verdict
      BY <3>3 DEF Local
    <3> QED BY <3>1, <3>2, <3>4
  <2>2. ASSUME Holds(r) PROVE Progress(node, verdict, "record", my'[r])
    <3>1. Progress(node, verdict, "judge", my[r]) /\ v = verdict[n]
      BY <1>3, <2>2 DEF Progress
    <3>2. c = RunOf(verdict)[n]
      <4>1. RunOf(verdict)[n] = IF Same(verdict, n) THEN RunOf(verdict)[n - 1] + 1 ELSE 0
        BY <1>0, RunRow
      <4>2. CASE n = 1
        <5>1. my[r].previous = None
          BY <1>2, <3>1, <4>2, <1>1 DEF Progress
        <5>2. Signature(v) \in Signatures
          BY <1>0, <1>6 DEF Signature, Signatures, Verdict
        <5>3. None # Signature(v)
          BY <5>2, NullAssumption
        <5>4. ~Same(verdict, n)
          BY <4>2 DEF Same
        <5> QED BY <4>1, <5>1, <5>3, <5>4
      <4>3. CASE n # 1
        <5>1. n > 1
          BY <1>0, <4>3, GoalAssumption DEF Rounds
        <5>2. my[r].previous = Signature(verdict[n - 1]) /\ my[r].repeats = RunOf(verdict)[n - 1]
          BY <1>1, <1>2, <3>1, <5>1 DEF Progress
        <5>3. Same(verdict, n) <=> my[r].previous = Signature(v)
          BY <3>1, <5>1, <5>2 DEF Same
        <5> QED BY <4>1, <5>2, <5>3
      <4> QED BY <4>2, <4>3
    <3> HIDE DEF c
    <3> QED BY <1>2, <2>1, <3>1, <3>2 DEF Progress
  <2>3. Reported("record", my'[r])
    BY <1>0, <2>1 DEF Reported
  <2>4. /\ JournalOK(node', verdict') /\ (Holds(r) => Progress(node', verdict', pc'[r], my'[r]))
        /\ pc'[r] \notin {"idle", "claim"} /\ Reported(pc'[r], my'[r])
    BY <1>0, <1>1, <1>6, <2>2, <2>3
  <2> QED BY <1>0, <1>1, <1>2, <2>4, Advances
<1> QED BY <1>1, <1>4, <1>5, <1>6

(* A verdict on evidence that has changed is taken back: it is the last one. *)
LEMMA LastJudged ==
  ASSUME NEW nd, NEW vd, NEW m \in Local, JournalOK(nd, vd),
         Progress(nd, vd, "invalidate", m)
  PROVE  m.number + 1 \notin OpenIn(nd)
<1>1. m.number \in Nat /\ m.count \in Nat /\ m.number >= m.count
  BY GoalAssumption DEF Progress, Rounds, Local
<1>2. \A k \in OpenIn(nd) : k <= m.count \/ k <= m.number
  BY DEF Progress
<1>3. ASSUME m.number + 1 \in OpenIn(nd) PROVE FALSE
  <2>1. m.number + 1 <= m.count \/ m.number + 1 <= m.number
    BY <1>2, <1>3
  <2> QED BY <1>1, <2>1
<1> QED BY <1>3

LEMMA JournalInvalidate ==
  ASSUME JournalInv, NEW r \in Runs, InvalidateNode(r)
  PROVE  JournalInv'
<1> DEFINE n == my[r].number
           pn == <<"verifier", n>>
<1>0. /\ AccountInv /\ TypeOK /\ my[r] \in Local /\ AccountInv'
      /\ JournalOK(node, verdict) /\ Reported(pc[r], my[r]) /\ n \in Rounds
  BY AccountStep DEF JournalInv, AccountInv, TypeOK, Step, Local
<1>1. /\ Others(r) /\ pc[r] = "invalidate" /\ pc'[r] = "stop" /\ my'[r] = my[r]
      /\ UNCHANGED <<inst, verdict, used, moved>>
      /\ \/ UNCHANGED node
         \/ /\ Fence(r) /\ node[pn].status = "succeeded" /\ node'[pn].status = "blocked"
            /\ \A y \in Nodes \ {pn} : node'[y] = node[y]
  BY <1>0, InvalidateNodeEffect
<1>2. /\ pc[r] \in Working /\ pc[r] # "idle" /\ "stop" \notin Judging
  BY <1>1 DEF Working, Judging, Spending, Landing
<1>3. Reported("stop", my[r])
  BY <1>0 DEF Reported
<1>4. CASE UNCHANGED node
  BY <1>0, <1>1, <1>2, <1>3, <1>4, GoesOnJudging
<1>5. CASE /\ Fence(r) /\ node[pn].status = "succeeded" /\ node'[pn].status = "blocked"
           /\ \A y \in Nodes \ {pn} : node'[y] = node[y]
  <2>1. Progress(node, verdict, "invalidate", my[r])
    BY <1>0, <1>1, <1>2, <1>5, FenceHolds DEF JournalInv
  <2>2. n + 1 \notin OpenIn(node)
    BY <1>0, <2>1, LastJudged
  <2>3. "verifier" \in Phases /\ Sound(verdict[n])
    BY <1>0 DEF Phases, JournalOK
  <2>4. node[pn].status # "absent" /\ node'[pn].status # "absent" /\ node'[pn].status # "succeeded"
    BY <1>5
  <2>5. /\ JournalOK(node', verdict)
        /\ OpenIn(node') = OpenIn(node)
        /\ \A m \in Rounds : m < n /\ Stands(node, verdict, m) => Stands(node', verdict, m)
    <3>0. verdict' = verdict
      BY <1>1
    <3>1. PICK p \in Phases, k \in Rounds : p = "verifier" /\ k = n
      BY <1>0, <2>3
    <3>2. /\ JournalOK(node, verdict) /\ k + 1 \notin OpenIn(node)
          /\ \A y \in Nodes \ {<<p, k>>} : node'[y] = node[y]
          /\ node[<<p, k>>].status # "absent" /\ node'[<<p, k>>].status # "absent"
          /\ \A x \in Rounds \ {k} : verdict'[x] = verdict[x]
          /\ Sound(verdict'[k])
          /\ node'[<<"verifier", k>>].status = "succeeded" => verdict'[k] # None
      BY <1>0, <1>5, <2>2, <2>3, <2>4, <3>0, <3>1
    <3>3. /\ JournalOK(node', verdict')
          /\ OpenIn(node') = OpenIn(node)
          /\ \A m \in Rounds : m < k /\ Stands(node, verdict, m) =>
               Stands(node', verdict', m) /\ RunOf(verdict')[m] = RunOf(verdict)[m] /\ verdict'[m] = verdict[m]
      <4> HIDE <1>0, <1>1, <1>2, <1>3, <1>5, <2>1, <2>2, <2>3, <2>4, <3>0, <3>1
      <4>1. ChangesLast(node, verdict, node', verdict', p, k)
        BY <3>2, Zenon DEF ChangesLast
      <4>2. KeepsEarlier(node, verdict, node', verdict', k)
        BY <4>1, LastChanged, Zenon
      <4> QED BY <4>2, Zenon DEF KeepsEarlier
    <3> QED BY <3>0, <3>1, <3>3
  <2>6. n > 1 => Stands(node', verdict, n - 1)
    <3>1. n > 1 => n - 1 \in Rounds /\ n - 1 < n
      BY <1>0, GoalAssumption DEF Rounds
    <3> QED BY <2>1, <2>5, <3>1 DEF Progress
  <2>7. Progress(node', verdict, "stop", my[r])
    BY <1>2, <2>1, <2>5, <2>6 DEF Progress
  <2>8. /\ JournalOK(node', verdict') /\ Progress(node', verdict', pc'[r], my'[r])
        /\ pc'[r] \notin {"idle", "claim"} /\ Reported(pc'[r], my'[r])
    BY <1>1, <1>3, <2>5, <2>7
  <2> QED BY <1>0, <1>1, <1>2, <1>5, <2>8, Advances
<1> QED BY <1>1, <1>4, <1>5

LEMMA JournalRecord ==
  ASSUME JournalInv, NEW r \in Runs, Record(r)
  PROVE  JournalInv'
<1> DEFINE n == my[r].number
<1>0. /\ AccountInv /\ TypeOK /\ my[r] \in Local /\ AccountInv'
      /\ JournalOK(node, verdict) /\ Reported(pc[r], my[r]) /\ n \in Rounds
  BY AccountStep DEF JournalInv, AccountInv, TypeOK, Step, Local
<1>1. /\ Others(r) /\ pc[r] = "record" /\ UNCHANGED <<inst, node, verdict, used, moved>>
      /\ \/ pc'[r] = "stop" /\ my'[r] = my[r]
         \/ my[r].verdict.blocker = "none" /\ pc'[r] = "complete" /\ my'[r] = my[r]
         \/ /\ my[r].verdict.blocker = "goal_not_met_yet"
            /\ my[r].repeats < MaxNoProgress
            /\ n < MaxRounds
            /\ pc'[r] = "round" /\ my'[r] = [my[r] EXCEPT !.number = n + 1]
  BY <1>0, RecordEffect
<1>2. /\ pc[r] \in Working /\ pc[r] # "idle" /\ "stop" \notin Judging /\ "complete" \notin Judging
      /\ "round" \in Judging
  BY <1>1 DEF Working, Judging, Spending, Landing
<1>3. Holds(r) => Progress(node, verdict, "record", my[r])
  BY <1>1, <1>2 DEF JournalInv
<1>4. Reported("stop", my[r]) /\ Reported("complete", my[r])
  BY <1>0 DEF Reported
<1>5. CASE pc'[r] = "stop" /\ my'[r] = my[r]
  BY <1>0, <1>1, <1>2, <1>4, <1>5, GoesOnJudging
<1>6. CASE my[r].verdict.blocker = "none" /\ pc'[r] = "complete" /\ my'[r] = my[r]
  <2>1. Holds(r) => Progress(node, verdict, "complete", my[r])
    BY <1>2, <1>3, <1>6 DEF Progress
  <2>2. /\ JournalOK(node', verdict') /\ (Holds(r) => Progress(node', verdict', pc'[r], my'[r]))
        /\ pc'[r] \notin {"idle", "claim"} /\ Reported(pc'[r], my'[r])
    BY <1>0, <1>1, <1>4, <1>6, <2>1
  <2> QED BY <1>0, <1>1, <1>2, <2>2, Advances
<1>7. CASE /\ my[r].verdict.blocker = "goal_not_met_yet"
           /\ my[r].repeats < MaxNoProgress
           /\ n < MaxRounds
           /\ pc'[r] = "round" /\ my'[r] = [my[r] EXCEPT !.number = n + 1]
  <2>1. n + 1 \in Rounds /\ n + 1 > 1 /\ (n + 1) - 1 = n
    BY <1>0, <1>7, GoalAssumption DEF Rounds
  <2>2. /\ my'[r].number = n + 1 /\ my'[r].count = my[r].count
        /\ my'[r].previous = my[r].previous /\ my'[r].repeats = my[r].repeats
        /\ my'[r].verdict = my[r].verdict
    BY <1>0, <1>7, <2>1, SetNumber
  <2>3. ASSUME Holds(r) PROVE Progress(node, verdict, "round", my'[r])
    <3>1. /\ Progress(node, verdict, "record", my[r])
          /\ Succeeded(node, n) /\ my[r].verdict = verdict[n]
          /\ my[r].previous = Signature(verdict[n]) /\ my[r].repeats = RunOf(verdict)[n]
          /\ \A k \in OpenIn(node) : k <= my[r].count \/ k <= n
      BY <1>3, <2>3 DEF Progress
    <3>2. verdict[n] # None
      BY <1>0, <3>1 DEF JournalOK, Succeeded, Phases
    <3>3. Stands(node, verdict, n)
      BY <1>7, <3>1, <3>2 DEF Stands
    <3>4. \A k \in OpenIn(node) : k <= my[r].count \/ k <= n + 1
      BY <1>0, <3>1, GoalAssumption DEF OpenIn, Rounds
    <3>5. n + 1 # 1
      BY <2>1
    <3> QED BY <2>1, <2>2, <3>1, <3>3, <3>4, <3>5 DEF Progress
  <2>4. Reported("round", my'[r])
    BY <1>0, <2>2 DEF Reported
  <2>5. /\ JournalOK(node', verdict') /\ (Holds(r) => Progress(node', verdict', pc'[r], my'[r]))
        /\ pc'[r] \notin {"idle", "claim"} /\ Reported(pc'[r], my'[r])
    BY <1>0, <1>1, <1>7, <2>3, <2>4
  <2> QED BY <1>0, <1>1, <1>2, <2>5, Advances
<1> QED BY <1>1, <1>5, <1>6, <1>7

LEMMA FreshReported == ASSUME NEW p PROVE Reported(p, Fresh) \/ p = "succeed"
BY FreshLocal DEF Reported, Sound

(* The rows that were running are held. *)
LEMMA HeldJournal ==
  ASSUME TypeOK, JournalOK(node, verdict)
  PROVE  JournalOK(HoldRunning, verdict) /\ OpenIn(HoldRunning) = OpenIn(node)
<1>1. \A y \in Nodes : Alike(node[y].status, HoldRunning[y].status)
  BY HeldRows DEF Alike
<1> QED BY <1>1, AlikeJournal

LEMMA JournalComplete ==
  ASSUME JournalInv, NEW r \in Runs, Complete(r)
  PROVE  JournalInv'
<1>0. /\ AccountInv /\ TypeOK /\ my[r] \in Local /\ AccountInv'
      /\ JournalOK(node, verdict) /\ Reported(pc[r], my[r]) /\ my[r].number \in Rounds
      /\ \A s \in Runs : Reported(pc[s], my[s])
  BY AccountStep DEF JournalInv, AccountInv, TypeOK, Step, Local
<1>1. /\ Others(r) /\ pc[r] = "complete"
      /\ UNCHANGED <<node, verdict, used, moved>>
      /\ \/ /\ Fence(r) /\ \A pn \in Nodes : node[pn].status \in {"absent", "succeeded"}
            /\ inst' = Released("completed") /\ pc'[r] = "done" /\ my'[r] = Fresh
         \/ /\ UNCHANGED inst /\ pc'[r] = "stop" /\ my'[r] = my[r]
  BY <1>0, CompleteEffect
<1>2. /\ pc[r] \in Working /\ pc[r] # "idle" /\ "stop" \notin Judging
  BY <1>1 DEF Working, Judging, Spending, Landing
<1>3. CASE UNCHANGED inst /\ pc'[r] = "stop" /\ my'[r] = my[r]
  <2>1. Reported("stop", my[r])
    BY <1>0 DEF Reported
  <2> QED BY <1>0, <1>1, <1>2, <1>3, <2>1, GoesOnJudging
<1>4. CASE /\ Fence(r) /\ \A pn \in Nodes : node[pn].status \in {"absent", "succeeded"}
           /\ inst' = Released("completed") /\ pc'[r] = "done" /\ my'[r] = Fresh
  <2>1. Progress(node, verdict, "complete", my[r])
    BY <1>0, <1>1, <1>2, <1>4, FenceHolds DEF JournalInv
  <2>2. Evidence(node, verdict)
    BY <1>0, <1>4, <2>1, Concluded
  <2>3. inst'.owner = None
    BY <1>4 DEF Released
  <2>4. Reported("done", Fresh)
    BY FreshReported
  <2>5. \A s \in Runs : /\ pc'[s] # "claim" \/ (pc'[s] = pc[s] /\ my'[s] = my[s])
                        /\ pc'[s] = "idle" => pc[s] = "idle" /\ my'[s] = my[s]
                        /\ Reported(pc'[s], my'[s])
    BY <1>0, <1>1, <1>4, <2>4 DEF Others
  <2>6. OpenIn(node') = OpenIn(node) /\ JournalOK(node', verdict') /\ Evidence(node', verdict')
    BY <1>0, <1>1, <2>2
  <2> QED BY <1>0, <2>3, <2>5, <2>6, GivesBack
<1> QED BY <1>1, <1>3, <1>4

(* A run ends and the row of the instance stays. *)
LEMMA JournalEnds ==
  ASSUME JournalInv, AccountInv', NEW r \in Runs, Others(r),
         UNCHANGED <<inst, node, verdict>>,
         pc[r] # "idle", pc'[r] \in {"done", "dead"}, my'[r] = Fresh
  PROVE  JournalInv'
<1>1. pc'[r] \notin Working /\ pc'[r] \notin {"idle", "claim"}
  BY DEF Working, Landing
<1>2. Reported(pc'[r], my'[r])
  BY FreshReported
<1>3. JournalOK(node', verdict')
  BY DEF JournalInv
<1> QED BY <1>1, <1>2, <1>3, Advances

LEMMA JournalStop ==
  ASSUME JournalInv, NEW r \in Runs, Stop(r)
  PROVE  JournalInv'
<1>0. /\ AccountInv /\ TypeOK /\ AccountInv' /\ JournalOK(node, verdict)
      /\ \A s \in Runs : Reported(pc[s], my[s])
  BY AccountStep DEF JournalInv, AccountInv, Step
<1>1. /\ Others(r) /\ pc[r] = "stop" /\ pc'[r] = "done" /\ my'[r] = Fresh
      /\ UNCHANGED <<verdict, used, moved>>
      /\ \/ node' = HoldRunning /\ inst' = Released("blocked")
         \/ UNCHANGED <<node, inst>>
  BY <1>0, StopEffect
<1>2. CASE UNCHANGED <<node, inst>>
  BY <1>0, <1>1, <1>2, JournalEnds
<1>3. CASE node' = HoldRunning /\ inst' = Released("blocked")
  <2>1. inst'.owner = None /\ inst'.status # "completed"
    BY <1>3 DEF Released
  <2>2. Reported("done", Fresh)
    BY FreshReported
  <2>3. \A s \in Runs : /\ pc'[s] # "claim" \/ (pc'[s] = pc[s] /\ my'[s] = my[s])
                        /\ pc'[s] = "idle" => pc[s] = "idle" /\ my'[s] = my[s]
                        /\ Reported(pc'[s], my'[s])
    BY <1>0, <1>1, <2>2 DEF Others
  <2>4. OpenIn(node') = OpenIn(node) /\ JournalOK(node', verdict')
    BY <1>0, <1>1, <1>3, HeldJournal
  <2> QED BY <1>0, <2>1, <2>3, <2>4, GivesBack
<1> QED BY <1>1, <1>2, <1>3

LEMMA JournalClaim ==
  ASSUME JournalInv, NEW r \in Runs, Claim(r)
  PROVE  JournalInv'
<1>0. /\ AccountInv /\ TypeOK /\ my[r] \in Local /\ JournalOK(node, verdict)
      /\ \A s \in Runs : Reported(pc[s], my[s])
  BY DEF JournalInv, AccountInv, TypeOK
<1>1. AccountInv'
  BY <1>0, AccountNext DEF Next
<1>2. /\ Others(r) /\ pc[r] = "claim"
      /\ UNCHANGED <<verdict, used, moved>>
      /\ \/ /\ UNCHANGED <<inst, node>> /\ pc'[r] = "done" /\ my'[r] = Fresh
         \/ /\ node' = HoldRunning /\ inst' = Released("blocked")
            /\ pc'[r] = "done" /\ my'[r] = Fresh
         \/ /\ node' = HoldRunning
            /\ inst' = [status |-> "running", owner |-> r,
                        epoch |-> inst.epoch + 1, lapsed |-> FALSE]
            /\ pc'[r] = "round" /\ my'[r] = [my[r] EXCEPT !.token = inst.epoch + 1]
  BY <1>0, ClaimEffect
<1>3. CASE UNCHANGED <<inst, node>> /\ pc'[r] = "done" /\ my'[r] = Fresh
  BY <1>1, <1>2, <1>3, JournalEnds
<1>4. CASE /\ node' = HoldRunning /\ inst' = Released("blocked")
           /\ pc'[r] = "done" /\ my'[r] = Fresh
  <2>1. inst'.owner = None /\ inst'.status # "completed"
    BY <1>4 DEF Released
  <2>2. Reported("done", Fresh)
    BY FreshReported
  <2>3. \A s \in Runs : /\ pc'[s] # "claim" \/ (pc'[s] = pc[s] /\ my'[s] = my[s])
                        /\ pc'[s] = "idle" => pc[s] = "idle" /\ my'[s] = my[s]
                        /\ Reported(pc'[s], my'[s])
    BY <1>0, <1>2, <1>4, <2>2 DEF Others
  <2>4. OpenIn(node') = OpenIn(node) /\ JournalOK(node', verdict')
    BY <1>0, <1>2, <1>4, HeldJournal
  <2> QED BY <1>1, <2>1, <2>3, <2>4, GivesBack
<1>5. CASE /\ node' = HoldRunning
           /\ inst' = [status |-> "running", owner |-> r,
                       epoch |-> inst.epoch + 1, lapsed |-> FALSE]
           /\ pc'[r] = "round" /\ my'[r] = [my[r] EXCEPT !.token = inst.epoch + 1]
  <2>1. inst.epoch + 1 \in Nat
    BY <1>0 DEF TypeOK, Instance
  <2>2. /\ my'[r].number = my[r].number /\ my'[r].count = my[r].count
        /\ my'[r].previous = my[r].previous /\ my'[r].repeats = my[r].repeats
        /\ my'[r].verdict = my[r].verdict
    BY <1>0, <1>5, <2>1, SetToken
  <2>3. /\ my[r].number = 1 /\ my[r].repeats = 0 /\ my[r].previous = None
        /\ OpenIn(node) = 1 .. my[r].count
        /\ \A s \in Runs \ {r} : pc[s] # "claim"
    BY <1>2 DEF JournalInv, ReadInv
  <2>4. OpenIn(node') = OpenIn(node) /\ JournalOK(node', verdict')
    BY <1>0, <1>2, <1>5, HeldJournal
  <2>5. Progress(node', verdict', pc'[r], my'[r])
    <3>1. \A k \in OpenIn(node') : k <= my[r].count
      BY <2>3, <2>4
    <3>2. ~(1 > 1)
      OBVIOUS
    <3> QED BY <1>5, <2>2, <2>3, <3>1, <3>2 DEF Progress
  <2>6. \A s \in Runs : Holds(s)' => s = r
    BY <1>5 DEF Holds
  <2>7. \A s \in Runs : Reported(pc'[s], my'[s])
    <3>1. Reported("round", my'[r])
      BY <1>0, <2>2 DEF Reported
    <3> QED BY <1>0, <1>2, <1>5, <3>1 DEF Others
  <2>8. ReadInv'
    <3>1. \A s \in Runs : pc'[s] # "claim"
      BY <1>2, <1>5, <2>3 DEF Others
    <3>2. ASSUME NEW s \in Runs, pc'[s] = "idle"
          PROVE  my'[s].number = 1 /\ my'[s].repeats = 0 /\ my'[s].previous = None
      <4>1. pc[s] = "idle" /\ my'[s] = my[s]
        BY <1>2, <1>5, <3>2 DEF Others
      <4> QED BY <4>1 DEF JournalInv, ReadInv
    <3> QED BY <3>1, <3>2 DEF ReadInv
  <2>9. inst'.status # "completed"
    BY <1>5
  <2> QED BY <1>1, <2>4, <2>5, <2>6, <2>7, <2>8, <2>9 DEF JournalInv
<1> QED BY <1>2, <1>3, <1>4, <1>5

LEMMA JournalRetry ==
  ASSUME JournalInv, NEW p \in Phases, NEW n \in Rounds, RetryNode(p, n)
  PROVE  JournalInv'
<1> DEFINE pn == <<p, n>>
<1>0. /\ AccountInv /\ TypeOK /\ JournalOK(node, verdict)
      /\ verdict \in [Rounds -> Verdict \cup {None}]
      /\ \A s \in Runs : Reported(pc[s], my[s])
  BY DEF JournalInv, AccountInv, TypeOK
<1>1. AccountInv'
  BY <1>0, AccountNext DEF Next
<1>2. /\ pn \in Nodes /\ inst' = Released("pending")
      /\ node[pn].status = "blocked" /\ node'[pn].status = "pending"
      /\ \A y \in Nodes \ {pn} : node'[y] = node[y]
      /\ verdict' = IF p = "verifier" THEN [verdict EXCEPT ![n] = None] ELSE verdict
      /\ UNCHANGED <<used, pc, my, moved>>
  BY <1>0, RetryNodeEffect
<1>3. inst'.owner = None /\ inst'.status # "completed"
  BY <1>2 DEF Released
<1>4. n + 1 \notin OpenIn(node)
  <2>1. ~Succeeded(node, n)
    BY <1>2 DEF Succeeded
  <2> QED BY <1>0, <2>1 DEF JournalOK, Stands
<1>5. /\ \A x \in Rounds \ {n} : verdict'[x] = verdict[x]
      /\ verdict'[n] = None \/ (verdict'[n] = verdict[n] /\ p # "verifier")
  BY <1>0, <1>2
<1>6. Sound(verdict'[n])
  BY <1>0, <1>5 DEF Sound, JournalOK
<1>7. node'[<<"verifier", n>>].status = "succeeded" => verdict'[n] # None
  <2> SUFFICES ASSUME node'[<<"verifier", n>>].status = "succeeded" PROVE verdict'[n] # None
    OBVIOUS
  <2>1. p # "verifier"
    BY <1>2
  <2>2. <<"verifier", n>> \in Nodes \ {pn}
    BY <2>1 DEF Nodes, Phases
  <2>3. node[<<"verifier", n>>].status = "succeeded"
    BY <1>2, <2>2
  <2>4. verdict' = verdict
    BY <1>2, <2>1
  <2> QED BY <1>0, <2>3, <2>4 DEF JournalOK
<1>8. node[pn].status # "absent" /\ node'[pn].status # "absent"
  BY <1>2
<1>9. \A y \in Nodes \ {pn} : node'[y] = node[y]
  BY <1>2
<1>10. JournalOK(node', verdict') /\ OpenIn(node') = OpenIn(node)
  <2> HIDE <1>1, <1>2, <1>3
  <2>1. ChangesLast(node, verdict, node', verdict', p, n)
    BY <1>0, <1>4, <1>5, <1>6, <1>7, <1>8, <1>9, Zenon DEF ChangesLast
  <2>2. KeepsEarlier(node, verdict, node', verdict', n)
    BY <2>1, LastChanged, Zenon
  <2> QED BY <2>2, Zenon DEF KeepsEarlier
<1>11. \A s \in Runs : /\ pc'[s] # "claim" \/ (pc'[s] = pc[s] /\ my'[s] = my[s])
                       /\ pc'[s] = "idle" => pc[s] = "idle" /\ my'[s] = my[s]
                       /\ Reported(pc'[s], my'[s])
  BY <1>0, <1>2
<1> QED BY <1>1, <1>3, <1>10, <1>11, GivesBack

LEMMA JournalRead ==
  ASSUME ~Overlapping, JournalInv, NEW r \in Runs, ReadJournal(r)
  PROVE  JournalInv'
<1> DEFINE c == Cardinality(Opened)
<1>0. /\ AccountInv /\ TypeOK /\ my[r] \in Local /\ JournalOK(node, verdict) /\ c \in Nat
      /\ Reported(pc[r], my[r])
  BY OpenedFinite DEF JournalInv, AccountInv, TypeOK
<1>1. AccountInv'
  BY <1>0, AccountNext DEF Next
<1>2. /\ Others(r) /\ pc[r] = "idle" /\ pc'[r] = "claim"
      /\ ~Leased /\ \A s \in Runs : pc[s] # "claim"
      /\ my'[r] = [my[r] EXCEPT !.count = c]
      /\ UNCHANGED <<inst, node, verdict, used, moved>>
  BY <1>0, ReadJournalEffect
<1>3. OpenIn(node) = 1 .. c
  <2>1. PICK k \in Rounds : OpenIn(node) = 1 .. k
    BY <1>0 DEF JournalOK
  <2>2. k \in Nat /\ k >= 1 /\ 1 \in Nat
    BY GoalAssumption DEF Rounds
  <2>3. Cardinality(1 .. k) = IF 1 > k THEN 0 ELSE k - 1 + 1
    BY <2>2, FS_Interval
  <2>4. c = k
    BY <2>1, <2>2, <2>3, OpenedIs
  <2> QED BY <2>1, <2>4
<1> HIDE DEF c
<1>4. /\ my'[r].number = my[r].number /\ my'[r].count = c
      /\ my'[r].previous = my[r].previous /\ my'[r].repeats = my[r].repeats
      /\ my'[r].verdict = my[r].verdict
  BY <1>0, <1>2, SetCount
<1>5. ReadInv'
  <2>1. ~Leased'
    BY <1>2 DEF Leased
  <2>2. \A s \in Runs \ {r} : pc'[s] # "claim" /\ pc'[s] = pc[s] /\ my'[s] = my[s]
    BY <1>2 DEF Others
  <2>3. my[r].number = 1 /\ my[r].repeats = 0 /\ my[r].previous = None
    BY <1>2 DEF JournalInv, ReadInv
  <2>4. OpenIn(node') = 1 .. my'[r].count
    BY <1>2, <1>3, <1>4
  <2>5. \A s \in Runs \ {r} : pc[s] = "idle" => my[s].number = 1 /\ my[s].repeats = 0 /\ my[s].previous = None
    BY DEF JournalInv, ReadInv
  <2>6. ASSUME NEW s \in Runs, pc'[s] \in {"idle", "claim"}
        PROVE  my'[s].number = 1 /\ my'[s].repeats = 0 /\ my'[s].previous = None
    <3>1. CASE s = r
      BY <1>4, <2>3, <3>1
    <3>2. CASE s # r
      BY <2>2, <2>5, <2>6, <3>2
    <3> QED BY <3>1, <3>2
  <2>7. ASSUME NEW s \in Runs, pc'[s] = "claim"
        PROVE  OpenIn(node') = 1 .. my'[s].count /\ \A t \in Runs \ {s} : pc'[t] # "claim"
    <3>1. s = r
      BY <2>2, <2>7
    <3> QED BY <2>2, <2>4, <3>1
  <2> QED BY <2>1, <2>6, <2>7 DEF ReadInv
<1>6. \A s \in Runs : Reported(pc'[s], my'[s])
  <2>1. Reported("claim", my'[r])
    BY <1>0, <1>4 DEF Reported
  <2>2. \A s \in Runs : Reported(pc[s], my[s])
    BY DEF JournalInv
  <2> QED BY <1>2, <2>1, <2>2 DEF Others
<1>7. ASSUME NEW s \in Runs, Holds(s)', pc'[s] \in Working
      PROVE  Progress(node', verdict', pc'[s], my'[s])
  <2>1. Leased'
    BY <1>7, GoalAssumption DEF Holds, Leased
  <2> QED BY <1>2, <2>1 DEF Leased
<1>8. JournalOK(node', verdict') /\ (inst'.status = "completed" => Evidence(node', verdict'))
  BY <1>0, <1>2 DEF JournalInv
<1> QED BY <1>1, <1>5, <1>6, <1>7, <1>8 DEF JournalInv

LEMMA JournalInit == Init => JournalInv
<1> SUFFICES ASSUME Init PROVE JournalInv
  OBVIOUS
<1>1. AccountInv
  BY AccountInit
<1>2. /\ inst.owner = None /\ inst.status = "pending"
      /\ pc = [r \in Runs |-> "idle"] /\ my = [r \in Runs |-> Fresh]
      /\ verdict = [n \in Rounds |-> None]
  BY DEF Init
<1>3. \A p \in Phases, n \in Rounds : node[<<p, n>>].status = IF n = 1 THEN "pending" ELSE "absent"
  <2>1. \A p \in Phases, n \in Rounds : <<p, n>> \in Nodes /\ <<p, n>>[2] = n
    BY DEF Nodes
  <2> QED BY <2>1 DEF Init
<1>4. 1 \in Rounds /\ "worker" \in Phases /\ "verifier" \in Phases
  BY GoalAssumption DEF Rounds, Phases
<1>5. OpenIn(node) = 1 .. 1
  <2>1. OpenIn(node) = {1}
    BY <1>3, <1>4 DEF OpenIn
  <2> QED BY <2>1
<1>6. JournalOK(node, verdict)
  <2>1. \A n \in Rounds : n + 1 \notin OpenIn(node)
    BY <1>5, GoalAssumption DEF Rounds
  <2>2. \A n \in Rounds : Sound(verdict[n])
    BY <1>2 DEF Sound
  <2>3. \A n \in Rounds : node[<<"verifier", n>>].status = "absent" <=> n \notin OpenIn(node)
    BY <1>3, <1>4, <1>5
  <2>4. \A n \in Rounds : node[<<"verifier", n>>].status # "succeeded"
    BY <1>3, <1>4
  <2> QED BY <1>4, <1>5, <2>1, <2>2, <2>3, <2>4 DEF JournalOK
<1>7. ReadInv
  BY <1>2, FreshLocal DEF ReadInv
<1>8. \A r \in Runs : Reported(pc[r], my[r])
  BY <1>2, FreshReported
<1>9. \A r \in Runs : ~Holds(r)
  BY <1>2, GoalAssumption DEF Holds
<1> QED BY <1>1, <1>2, <1>6, <1>7, <1>8, <1>9 DEF JournalInv

LEMMA JournalNext ==
  ASSUME ~Overlapping
  PROVE  JournalInv /\ [Next]_vars => JournalInv'
<1> SUFFICES ASSUME JournalInv, [Next]_vars PROVE JournalInv'
  OBVIOUS
<1>0. AccountInv /\ TypeOK /\ AccountInv'
  BY AccountNext DEF JournalInv, AccountInv
<1>1. CASE UNCHANGED vars
  BY <1>0, <1>1, Idles DEF vars
<1>2. ASSUME NEW r \in Runs, Step(r) PROVE JournalInv'
  BY <1>2, JournalLook, JournalAdd, JournalBegin, JournalAgent, JournalFinish, JournalJudge,
     JournalInvalidate, JournalRecord, JournalComplete, JournalStop DEF Step
<1>3. ASSUME NEW r \in Runs, ReadJournal(r) \/ Claim(r) \/ Cancel(r) PROVE JournalInv'
  BY <1>3, JournalRead, JournalClaim, JournalAgent
<1>4. ASSUME NEW r \in Runs, SwitchSession(r) PROVE JournalInv'
  BY <1>0, <1>4, SwitchSessionEffect, Idles
<1>5. ASSUME NEW r \in Runs, Crash(r) PROVE JournalInv'
  <2>1. pc[r] # "idle" /\ Others(r) /\ UNCHANGED <<inst, node, verdict>>
        /\ pc'[r] = "dead" /\ my'[r] = Fresh
    BY <1>0, <1>5, CrashEffect DEF Working, Landing
  <2> QED BY <1>0, <2>1, JournalEnds
<1>6. ASSUME NEW p \in Phases, NEW n \in Rounds, RetryNode(p, n) PROVE JournalInv'
  BY <1>6, JournalRetry
<1>7. CASE Edit
  BY <1>0, <1>7, EditEffect, Idles
<1>8. CASE Lapse
  BY <1>0, <1>8, LapseEffect, Idles
<1> QED BY <1>1, <1>2, <1>3, <1>4, <1>5, <1>6, <1>7, <1>8 DEF Next

(* The inductive invariant of the journal, for runs that read it before      *)
(* their claim while no other run is active.                                *)
THEOREM JournalInductive ==
  ASSUME ~Overlapping
  PROVE  Spec => []JournalInv
<1> QED BY JournalInit, JournalNext, PTL DEF Spec

(* A round is opened only behind one that was verified as not met yet and    *)
(* within the budget of rounds without progress, and a goal is reported as   *)
(* completed only on sound evidence for its last round.                     *)
THEOREM VerdictsHold ==
  ASSUME ~Overlapping
  PROVE  Spec => []VerdictsSound
<1>1. JournalInv => RoundsJustified
  <2> SUFFICES ASSUME JournalInv, NEW n \in Rounds, n + 1 \in Opened
               PROVE  /\ \A p \in Phases : node[p, n].status = "succeeded"
                      /\ verdict[n].blocker = "goal_not_met_yet"
                      /\ Repeats[n] < MaxNoProgress
    BY DEF RoundsJustified
  <2>1. Stands(node, verdict, n)
    BY OpenedIs DEF JournalInv, JournalOK
  <2>2. Repeats[n] < MaxNoProgress
    BY <2>1, RepeatsRun DEF Stands
  <2> QED BY <2>1, <2>2 DEF Stands, Succeeded
<1>2. JournalInv => CompletedOnEvidence
  <2>1. JournalInv /\ inst.status = "completed" => Evidence(node, verdict)
    BY DEF JournalInv
  <2> QED BY <2>1, OpenedIs, Zenon DEF CompletedOnEvidence, Evidence
<1>3. JournalInv => VerdictsSound
  BY <1>1, <1>2 DEF VerdictsSound
<1> QED BY <1>3, JournalInductive, PTL

(* No step takes back the verdict of a round behind which a later one was    *)
(* opened: only the verdict of the last round is ever invalidated.          *)
LEMMA EvidenceKept ==
  ASSUME JournalInv, [Next]_vars, NEW n \in Rounds, n + 1 \in Opened,
         node[<<"verifier", n>>].status = "succeeded"
  PROVE  node'[<<"verifier", n>>].status = "succeeded"
<1> DEFINE vn == <<"verifier", n>>
<1>0. AccountInv /\ TypeOK /\ JournalOK(node, verdict) /\ vn \in Nodes /\ n + 1 \in OpenIn(node)
  BY OpenedIs DEF JournalInv, AccountInv, Nodes, Phases
<1>1. HoldRunning[vn] = node[vn] \/ HoldRunning[vn].status = "succeeded"
  BY <1>0, HeldRows
<1>2. CASE UNCHANGED node
  BY <1>2
<1>3. CASE node' = HoldRunning
  BY <1>1, <1>3
<1>4. ASSUME NEW r \in Runs, AddNodes(r) PROVE node'[vn].status = "succeeded"
  <2>1. CASE UNCHANGED node
    BY <2>1
  <2>2. CASE ~UNCHANGED node
    <3>1. /\ Fence(r) /\ pc[r] = "add"
          /\ node'[vn].status = IF vn[2] = my[r].number THEN "pending" ELSE node[vn].status
      BY <1>0, <1>4, <2>2, AddNodesEffect
    <3>2. Progress(node, verdict, "add", my[r])
      BY <1>0, <3>1, FenceHolds DEF JournalInv, Working
    <3>3. n # my[r].number
      <4>1. n \in OpenIn(node)
        BY <1>0 DEF JournalOK
      <4> QED BY <3>2, <4>1 DEF Progress
    <3> QED BY <3>1, <3>3
  <2> QED BY <2>1, <2>2
<1>5. ASSUME NEW r \in Runs, BeginNode(r) PROVE node'[vn].status = "succeeded"
  <2> DEFINE pn == <<my[r].phase, my[r].number>>
  <2>1. \/ UNCHANGED node
        \/ node[pn].status = "pending" /\ \A y \in Nodes \ {pn} : node'[y] = node[y]
    BY <1>0, <1>5, BeginNodeEffect
  <2> HIDE DEF pn
  <2> QED BY <1>0, <2>1
<1>6. ASSUME NEW r \in Runs, FinishNode(r) PROVE node'[vn].status = "succeeded"
  <2> DEFINE pn == <<my[r].phase, my[r].number>>
  <2>1. \/ UNCHANGED node
        \/ node[pn].status = "running" /\ \A y \in Nodes \ {pn} : node'[y] = node[y]
    BY <1>0, <1>6, FinishNodeEffect
  <2> HIDE DEF pn
  <2> QED BY <1>0, <2>1
<1>7. ASSUME NEW r \in Runs, InvalidateNode(r) PROVE node'[vn].status = "succeeded"
  <2> DEFINE pn == <<"verifier", my[r].number>>
  <2>1. \/ UNCHANGED node
        \/ /\ Fence(r) /\ pc[r] = "invalidate"
           /\ \A y \in Nodes \ {pn} : node'[y] = node[y]
    BY <1>0, <1>7, InvalidateNodeEffect
  <2>2. CASE Fence(r) /\ pc[r] = "invalidate" /\ \A y \in Nodes \ {pn} : node'[y] = node[y]
    <3>1. Progress(node, verdict, "invalidate", my[r])
      BY <1>0, <2>2, FenceHolds DEF JournalInv, Working
    <3>2. my[r].number + 1 \notin OpenIn(node)
      BY <1>0, <3>1, LastJudged DEF TypeOK
    <3>3. vn \in Nodes \ {pn}
      BY <1>0, <3>2
    <3> QED BY <2>2, <3>3
  <2> QED BY <2>1, <2>2
<1>8. ASSUME NEW p \in Phases, NEW m \in Rounds, RetryNode(p, m)
      PROVE  node'[vn].status = "succeeded"
  <2>1. node[<<p, m>>].status = "blocked" /\ \A y \in Nodes \ {<<p, m>>} : node'[y] = node[y]
    BY <1>0, <1>8, RetryNodeEffect
  <2>2. vn \in Nodes \ {<<p, m>>}
    BY <1>0, <2>1
  <2> QED BY <2>1, <2>2
<1>9. ASSUME NEW r \in Runs,
             \/ Look(r) \/ AgentEnds(r) \/ Judge(r) \/ Record(r) \/ Complete(r)
             \/ ReadJournal(r) \/ Cancel(r) \/ SwitchSession(r) \/ Crash(r)
      PROVE  UNCHANGED node
  BY <1>9 DEF Look, AgentEnds, Judge, Record, Complete, ReadJournal, Cancel, SwitchSession, Crash
<1>10. ASSUME NEW r \in Runs, Stop(r) \/ Claim(r) PROVE UNCHANGED node \/ node' = HoldRunning
  BY <1>10 DEF Stop, Claim
<1>11. CASE Edit \/ Lapse \/ UNCHANGED vars
  BY <1>2, <1>11 DEF Edit, Lapse, vars
<1>12. ASSUME NEW r \in Runs, Step(r) PROVE node'[vn].status = "succeeded"
  BY <1>2, <1>3, <1>4, <1>5, <1>6, <1>7, <1>9, <1>10, <1>12 DEF Step
<1>13. ASSUME NEW r \in Runs,
              ReadJournal(r) \/ Claim(r) \/ Cancel(r) \/ SwitchSession(r) \/ Crash(r)
       PROVE  node'[vn].status = "succeeded"
  BY <1>2, <1>3, <1>9, <1>10, <1>13
<1> QED BY <1>8, <1>11, <1>12, <1>13 DEF Next

(* Once a later round was opened, the success of the verifier that led to    *)
(* it stands in every later step.                                           *)
THEOREM EvidenceStands ==
  ASSUME ~Overlapping
  PROVE  Spec => SupersededEvidenceStands
<1>1. JournalInv /\ [Next]_vars =>
        [\A n \in Rounds : n + 1 \in Opened /\ node["verifier", n].status = "succeeded"
                           => node'["verifier", n].status = "succeeded"]_vars
  BY EvidenceKept
<1> QED BY <1>1, JournalInductive, PTL DEF Spec, SupersededEvidenceStands
=============================================================================
