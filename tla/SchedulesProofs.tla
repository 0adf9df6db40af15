-------------------------- MODULE SchedulesProofs --------------------------
(***************************************************************************)
(* Theorems about Schedules, for any plans, calendars, limits, clocks and   *)
(* any number of calls that wait.  The invariant is stated plan by plan:    *)
(* a call changes one plan, or every plan by itself.                        *)
(***************************************************************************)
EXTENDS Schedules, WellFoundedInduction, TLAPS

Occurrence == [at : Times, task : Tasks]

Admitted(o, t) == o[t].task # "none"

(* What holds of a plan p and its occurrences o however long calls wait. *)
Sound(p, o) ==
  /\ p.status = "absent" => \A t \in Times : ~Admitted(o, t)
  /\ p.status = "enabled" => p.next \in Nat
  /\ \A t, u \in Times : Pending(o[t].task) /\ Pending(o[u].task) => t = u
  /\ p.status \in {"paused", "deleted"} => \A t \in Times : o[t].task # "queued"
  /\ p.status = "running" => \E t \in Times : Admitted(o, t)
  /\ p.status = "completed" => \E t \in Times : o[t].task = "succeeded"
  /\ p.status = "failed" =>
       /\ \E t \in Times : Admitted(o, t)
       /\ \A t \in Times : o[t].task \in {"none", "stopped"}

(* An enabled plan aims beyond the moment of every admission it has had,      *)
(* unless a resumption has set it behind (bh).                              *)
Timed(p, o, bh, n) ==
  /\ \A t \in Times : Admitted(o, t) => t <= o[t].at /\ o[t].at <= n
  /\ p.status = "enabled" /\ ~bh => \A t \in Times : Admitted(o, t) => o[t].at < p.next

AllTimed == \A s \in Schedules : Timed(plan[s], occ[s], s \in behind, now)

CallsOK == \A w \in Waiters : call[w] # None => call[w][2] <= now

IInv ==
  /\ TypeOK
  /\ CallsOK
  /\ \A s \in Schedules : Sound(plan[s], occ[s])
  /\ AllTimed

(* What a step may admit, for any plan: the body of MissedAreCoalesced. *)
Merges ==
  \A s \in Schedules \ behind : \A t, u \in Times :
    /\ occ[s][t].task # "none"
    /\ occ[s][u].task = "none" /\ occ'[s][u].task # "none"
    => u > occ[s][t].at

(* What a change of plans and occurrences keeps. *)
Rows ==
  /\ plan \in [Schedules -> Plan]
  /\ occ \in [Schedules -> [Times -> Occurrence]]
  /\ behind \subseteq Schedules
  /\ \A s \in Schedules : Sound(plan[s], occ[s])
  /\ AllTimed
-----------------------------------------------------------------------------
(* The calendar. *)
LEMMA TimesAreNat ==
  ASSUME SchedulesAssumption
  PROVE  Times \subseteq Nat
BY DEF SchedulesAssumption, Times

LEMMA MinIsLeast ==
  ASSUME NEW S \in SUBSET Nat, S # {}
  PROVE  Min(S) \in S
<1> DEFINE less == {mn \in Nat \X Nat : mn[1] < mn[2]}
<1>1. IsWellFoundedOn(less, Nat)
  <2>1. OpToRel(<, Nat) = less
    BY DEF OpToRel
  <2>2. QED
    BY <2>1, NatLessThanWellFounded
<1> HIDE DEF less
<1>2. PICK n \in S : \A m \in S : <<m, n>> \notin less
  BY <1>1, WFMin
<1>3. ASSUME NEW m \in S
      PROVE  n <= m
  <2>1. m < n => <<m, n>> \in less
    BY DEF less
  <2>2. QED
    BY <1>2, <2>1
<1>4. QED
  BY <1>3 DEF Min

(* What next_occurrence returns lies after the clock it was given. *)
LEMMA NextIsLater ==
  ASSUME SchedulesAssumption, NEW s \in Schedules, NEW t \in Times
  PROVE  /\ NextOccurrence(s, t) \in Nat \cup {None}
         /\ NextOccurrence(s, t) # None => NextOccurrence(s, t) > t
         /\ Kind[s] # "once" => NextOccurrence(s, t) \in Nat
<1> DEFINE later == {c \in Calendar[s] : c > t}
<1>1. /\ t \in Nat /\ Every[s] \in Nat \ {0} /\ None \notin Nat
      /\ Calendar[s] \in SUBSET Nat /\ Kind[s] \in {"once", "interval", "cron"}
      /\ Kind[s] = "cron" => \E c \in Calendar[s] : c > t
  BY TimesAreNat DEF SchedulesAssumption
<1>2. CASE Kind[s] = "interval"
  BY <1>1, <1>2 DEF NextOccurrence
<1>3. CASE Kind[s] # "interval" /\ later = {}
  BY <1>1, <1>3 DEF NextOccurrence
<1>4. CASE Kind[s] # "interval" /\ later # {}
  <2>1. later \in SUBSET Nat
    BY <1>1
  <2> HIDE DEF later
  <2>2. Min(later) \in later
    BY <1>4, <2>1, MinIsLeast
  <2>3. NextOccurrence(s, t) = Min(later)
    BY <1>4 DEF NextOccurrence, later
  <2>4. QED
    BY <1>1, <2>1, <2>2, <2>3 DEF later
<1>5. QED
  BY <1>2, <1>3, <1>4
-----------------------------------------------------------------------------
(* Calls that change one plan. *)
LEMMA OnePlan ==
  ASSUME Rows, NEW s \in Schedules,
         NEW p \in Plan, NEW o \in [Times -> Occurrence], Sound(p, o),
         plan' = [plan EXCEPT ![s] = p],
         occ' = [occ EXCEPT ![s] = o],
         behind' \subseteq Schedules, behind' \ {s} = behind \ {s},
         Timed(p, o, s \in behind', now),
         \A t \in Times : Admitted(o, t) => Admitted(occ[s], t),
         now' = now
  PROVE  Rows' /\ Merges
<1>1. \A q \in Schedules : /\ plan'[q] = IF q = s THEN p ELSE plan[q]
                           /\ occ'[q] = IF q = s THEN o ELSE occ[q]
  BY DEF Rows
<1>2. \A q \in Schedules : q # s => (q \in behind' <=> q \in behind)
  OBVIOUS
<1>3. AllTimed'
  <2> SUFFICES ASSUME NEW q \in Schedules
               PROVE  Timed(plan'[q], occ'[q], q \in behind', now)
    BY DEF AllTimed
  <2>1. CASE q = s
    BY <1>1, <2>1
  <2>2. CASE q # s
    <3>1. Timed(plan[q], occ[q], q \in behind, now)
      BY DEF Rows, AllTimed
    <3>2. QED
      BY <1>1, <1>2, <2>2, <3>1 DEF Timed
  <2>3. QED
    BY <2>1, <2>2
<1>4. Rows'
  BY <1>1, <1>3 DEF Rows
<1>5. Merges
  BY <1>1 DEF Merges, Admitted
<1>6. QED
  BY <1>4, <1>5

LEMMA NothingChanges ==
  ASSUME Rows, UNCHANGED <<plan, occ, now, behind>>
  PROVE  Rows' /\ Merges
BY DEF Rows, AllTimed, Merges

LEMMA CreateStep ==
  ASSUME SchedulesAssumption, Rows, NEW s \in Schedules, NEW t \in Times,
         Create(s, t), now' = now
  PROVE  Rows' /\ Merges
<1>1. CASE plan' = plan
  BY <1>1, NothingChanges DEF Create
<1>2. CASE plan' # plan
  <2> DEFINE p == [status |-> "enabled", next |-> NextOccurrence(s, t)]
  <2>1. /\ plan[s].status = "absent" /\ NextOccurrence(s, t) # None
        /\ plan' = [plan EXCEPT ![s] = p] /\ occ' = occ
    BY <1>2 DEF Create
  <2>2. NextOccurrence(s, t) \in Nat
    BY <2>1, NextIsLater
  <2>3. p \in Plan /\ p.status = "enabled" /\ p.next \in Nat
    BY <2>2 DEF Plan, Status
  <2> HIDE DEF p
  <2>4. /\ occ[s] \in [Times -> Occurrence]
        /\ occ' = [occ EXCEPT ![s] = occ[s]]
        /\ \A u \in Times : ~Admitted(occ[s], u)
    BY <2>1 DEF Rows, Sound
  <2>5. Sound(p, occ[s])
    BY <2>3, <2>4 DEF Sound, Admitted, Pending
  <2>6. behind' = behind /\ behind \subseteq Schedules
    BY DEF Create, Rows
  <2>7. Timed(p, occ[s], s \in behind', now)
    BY <2>4 DEF Timed
  <2>8. QED
    BY <2>1, <2>3, <2>4, <2>5, <2>6, <2>7, OnePlan
<1>3. QED
  BY <1>1, <1>2

LEMMA WithdrawStep ==
  ASSUME SchedulesAssumption, Rows, NEW s \in Schedules,
         NEW status \in {"paused", "deleted"}, Withdraw(s, status), now' = now
  PROVE  Rows' /\ Merges
<1> DEFINE p == [plan[s] EXCEPT !.status = status]
           o == [t \in Times |->
                   IF occ[s][t].task = "queued" THEN [occ[s][t] EXCEPT !.task = "stopped"]
                                                ELSE occ[s][t]]
<1>1. plan[s] \in Plan /\ occ[s] \in [Times -> Occurrence] /\ Sound(plan[s], occ[s])
  BY DEF Rows
<1>2. plan' = [plan EXCEPT ![s] = p] /\ occ' = [occ EXCEPT ![s] = o]
  BY DEF Withdraw, Rows
<1>3. p \in Plan /\ p.status = status
  BY <1>1 DEF Plan, Status
<1>4. o \in [Times -> Occurrence]
  BY <1>1 DEF Occurrence, Tasks
<1>5. \A t \in Times : /\ o[t].at = occ[s][t].at
                       /\ o[t].task = IF occ[s][t].task = "queued" THEN "stopped"
                                                                   ELSE occ[s][t].task
  BY <1>1 DEF Occurrence
<1> HIDE DEF p, o
<1>6. Sound(p, o)
  BY <1>1, <1>3, <1>5 DEF Sound, Pending
<1>7. behind' = behind /\ behind \subseteq Schedules
  BY DEF Withdraw, Rows
<1>8. Timed(p, o, s \in behind', now)
  BY <1>3, <1>5 DEF Rows, AllTimed, Timed, Admitted
<1>9. \A t \in Times : Admitted(o, t) => Admitted(occ[s], t)
  BY <1>5 DEF Admitted
<1>10. QED
  BY <1>2, <1>3, <1>4, <1>6, <1>7, <1>8, <1>9, OnePlan

(* A resumption that has not been overtaken aims beyond every admission. *)
LEMMA ResumeStep ==
  ASSUME SchedulesAssumption, Rows, now \in Times, NEW s \in Schedules, NEW t \in Times,
         Resume(s, t), now' = now
  PROVE  Rows' /\ Merges
<1>1. CASE UNCHANGED <<plan, behind>>
  BY <1>1, NothingChanges DEF Resume
<1>2. CASE ~ UNCHANGED <<plan, behind>>
  <2> DEFINE p == [status |-> "enabled", next |-> NextOccurrence(s, t)]
  <2>1. /\ plan[s].status = "paused" /\ NextOccurrence(s, t) # None
        /\ plan' = [plan EXCEPT ![s] = p] /\ occ' = occ
    BY <1>2 DEF Resume
  <2>2. NextOccurrence(s, t) \in Nat /\ NextOccurrence(s, t) > t
    BY <2>1, NextIsLater
  <2>3. p \in Plan /\ p.status = "enabled" /\ p.next \in Nat /\ p.next > t
    BY <2>2 DEF Plan, Status
  <2> HIDE DEF p
  <2>4. /\ occ[s] \in [Times -> Occurrence]
        /\ occ' = [occ EXCEPT ![s] = occ[s]]
        /\ Sound(plan[s], occ[s])
    BY <2>1 DEF Rows
  <2>5. Sound(p, occ[s])
    BY <2>3, <2>4 DEF Sound
  <2>6. /\ behind' = IF Overtaken(s, t) THEN behind \cup {s} ELSE behind \ {s}
        /\ behind \subseteq Schedules
    BY <1>2 DEF Resume, Rows
  <2>7. Timed(p, occ[s], s \in behind', now)
    <3>1. \A u \in Times : occ[s][u].at \in Nat /\ t \in Nat
      BY <2>4, TimesAreNat DEF Occurrence
    <3>2. s \notin behind' => \A u \in Times : Admitted(occ[s], u) => ~(occ[s][u].at > t)
      BY <2>6 DEF Overtaken, Admitted
    <3>3. s \notin behind' => \A u \in Times : Admitted(occ[s], u) => occ[s][u].at < p.next
      BY <2>3, <3>1, <3>2
    <3>4. QED
      BY <3>3 DEF Rows, AllTimed, Timed
  <2>8. behind' \subseteq Schedules /\ behind' \ {s} = behind \ {s}
    BY <2>6
  <2>9. QED
    BY <2>1, <2>3, <2>4, <2>5, <2>7, <2>8, OnePlan
<1>3. QED
  BY <1>1, <1>2
-----------------------------------------------------------------------------
(* Admission. *)
LEMMA AdmitOne ==
  ASSUME SchedulesAssumption, NEW s \in Schedules, NEW t \in Times, Rows, now \in Times,
         Due(s, t), ~Active(s), t <= now
  PROVE  LET o == [occ[s] EXCEPT ![plan[s].next] = [at |-> t, task |-> "queued"]]
         IN  /\ Following(s, t) \in Plan
             /\ o \in [Times -> Occurrence]
             /\ Sound(Following(s, t), o)
             /\ Timed(Following(s, t), o, s \in behind /\ Overtaken(s, t), now)
             /\ s \notin behind =>
                  \A v \in Times : Admitted(occ[s], v) => occ[s][v].at < plan[s].next
<1> DEFINE u == plan[s].next
           f == Following(s, t)
           o == [occ[s] EXCEPT ![plan[s].next] = [at |-> t, task |-> "queued"]]
<1>1. /\ plan[s] \in Plan /\ occ[s] \in [Times -> Occurrence] /\ Sound(plan[s], occ[s])
      /\ plan[s].status = "enabled" /\ u \in Nat /\ u <= t
  BY DEF Rows, Due, Sound
<1>2. u \in Times
  BY <1>1 DEF Times, SchedulesAssumption
<1>3. /\ \A v \in Times : o[v] = IF v = u THEN [at |-> t, task |-> "queued"] ELSE occ[s][v]
      /\ o \in [Times -> Occurrence]
  BY <1>1, <1>2 DEF Occurrence, Tasks
<1>4. /\ f \in Plan
      /\ \/ f.status = "running"
         \/ f.status = "enabled" /\ f.next \in Nat /\ f.next > t
  BY NextIsLater DEF Following, Plan, Status, SchedulesAssumption
<1>5. \A v \in Times : ~Pending(occ[s][v].task)
  BY DEF Active
<1> HIDE DEF u, f, o
<1>6. Sound(f, o)
  <2>1. o[u].task = "queued" /\ Admitted(o, u)
    BY <1>2, <1>3 DEF Admitted
  <2>2. \A v \in Times : Pending(o[v].task) => v = u
    BY <1>3, <1>5
  <2>3. QED
    BY <1>2, <1>4, <2>1, <2>2 DEF Sound
<1>7. Timed(plan[s], occ[s], s \in behind, now)
  BY DEF Rows, AllTimed
<1>8. /\ t \in Nat /\ now \in Nat /\ u \in Nat
      /\ \A v \in Times : v \in Nat /\ occ[s][v].at \in Nat
  BY <1>1, TimesAreNat DEF Occurrence
<1>9. s \notin behind => \A v \in Times : Admitted(occ[s], v) => occ[s][v].at < u
  BY <1>1, <1>7 DEF Timed, u
<1>10. Timed(f, o, s \in behind /\ Overtaken(s, t), now)
  <2>1. \A v \in Times : Admitted(o, v) => v <= o[v].at /\ o[v].at <= now
    BY <1>1, <1>3, <1>7, <1>8 DEF Timed, Admitted
  <2>2. ~(s \in behind /\ Overtaken(s, t)) =>
          \A v \in Times : Admitted(occ[s], v) => occ[s][v].at <= t
    BY <1>1, <1>8, <1>9 DEF Overtaken, Admitted
  <2>3. f.status = "enabled" /\ ~(s \in behind /\ Overtaken(s, t)) =>
          \A v \in Times : Admitted(o, v) => o[v].at < f.next
    <3> SUFFICES ASSUME f.status = "enabled", ~(s \in behind /\ Overtaken(s, t)),
                        NEW v \in Times, Admitted(o, v)
                 PROVE  o[v].at < f.next
      OBVIOUS
    <3>1. f.next \in Nat /\ f.next > t
      BY <1>4
    <3>2. o[v].at <= t /\ o[v].at \in Nat
      <4>1. CASE v = u
        BY <1>3, <1>8, <4>1
      <4>2. CASE v # u
        <5>1. o[v] = occ[s][v] /\ Admitted(occ[s], v)
          BY <1>3, <4>2 DEF Admitted
        <5>2. QED
          BY <1>8, <2>2, <5>1
      <4>3. QED
        BY <4>1, <4>2
    <3>3. QED
      BY <1>8, <3>1, <3>2
  <2>4. QED
    BY <2>1, <2>3 DEF Timed
<1>11. QED
  BY <1>3, <1>4, <1>6, <1>9, <1>10 DEF f, o, u

LEMMA SettleOne ==
  ASSUME Rows, NEW s \in Schedules
  PROVE  /\ Settled(s) \in Plan
         /\ Sound(Settled(s), occ[s])
         /\ Timed(Settled(s), occ[s], s \in behind, now)
<1>1. /\ plan[s] \in Plan /\ occ[s] \in [Times -> Occurrence] /\ Sound(plan[s], occ[s])
      /\ Timed(plan[s], occ[s], s \in behind, now)
  BY DEF Rows, AllTimed
<1>2. CASE ~(plan[s].status = "running" /\ ~Active(s))
  BY <1>1, <1>2 DEF Settled
<1>3. CASE plan[s].status = "running" /\ ~Active(s)
  <2> DEFINE x == IF Ran(s) THEN "completed" ELSE "failed"
             p == [plan[s] EXCEPT !.status = x]
  <2>1. Settled(s) = p
    BY <1>3 DEF Settled
  <2>2. p \in Plan /\ p.status = x
    BY <1>1 DEF Plan, Status
  <2>3. \A t \in Times : ~Pending(occ[s][t].task) /\ occ[s][t].task \in Tasks
    BY <1>1, <1>3 DEF Active, Occurrence
  <2>4. \E t \in Times : Admitted(occ[s], t)
    BY <1>1, <1>3 DEF Sound
  <2> HIDE DEF p
  <2>5. CASE Ran(s)
    <3>1. p.status = "completed" /\ \E t \in Times : occ[s][t].task = "succeeded"
      BY <2>2, <2>5 DEF Ran
    <3>2. Sound(p, occ[s])
      BY <2>3, <3>1 DEF Sound
    <3>3. QED
      BY <1>1, <2>1, <2>2, <3>1, <3>2 DEF Timed
  <2>6. CASE ~Ran(s)
    <3>1. p.status = "failed"
      BY <2>2, <2>6
    <3>2. \A t \in Times : occ[s][t].task \in {"none", "stopped"}
      BY <2>3, <2>6 DEF Ran, Pending, Tasks
    <3>3. Sound(p, occ[s])
      BY <2>3, <2>4, <3>1, <3>2 DEF Sound
    <3>4. QED
      BY <1>1, <2>1, <2>2, <3>1, <3>3 DEF Timed
  <2>7. QED
    BY <2>5, <2>6
<1>4. QED
  BY <1>2, <1>3

LEMMA AdmitStep ==
  ASSUME SchedulesAssumption, Rows, now \in Times, NEW t \in Times, t <= now,
         AdmitDue(t), now' = now
  PROVE  Rows' /\ Merges
<1> DEFINE due == {s \in Schedules : Due(s, t)}
<1>1. PICK first \in kSubset(Min({Limit, Cardinality(due)}), due) :
        LET admitted == {s \in first : ~Active(s)}
        IN  /\ \A s \in first, q \in due \ first : plan[s].next <= plan[q].next
            /\ IF \E s \in admitted : occ[s][plan[s].next].task # "none"
               THEN UNCHANGED <<plan, occ, behind>>
               ELSE /\ behind' = behind \ {s \in admitted : ~Overtaken(s, t)}
                    /\ occ' = [s \in Schedules |-> IF s \in admitted
                         THEN [occ[s] EXCEPT ![plan[s].next] = [at |-> t, task |-> "queued"]]
                         ELSE occ[s]]
                    /\ plan' = [s \in Schedules |->
                         IF s \in admitted THEN Following(s, t) ELSE Settled(s)]
  BY DEF AdmitDue
<1>2. first \subseteq due
  BY <1>1 DEF kSubset
<1>3. CASE UNCHANGED <<plan, occ, behind>>
  BY <1>3, NothingChanges
<1>4. CASE ~ UNCHANGED <<plan, occ, behind>>
  <2> DEFINE admitted == {s \in first : ~Active(s)}
  <2>1. \A s \in Schedules :
          /\ occ'[s] = IF s \in admitted
               THEN [occ[s] EXCEPT ![plan[s].next] = [at |-> t, task |-> "queued"]]
               ELSE occ[s]
          /\ plan'[s] = IF s \in admitted THEN Following(s, t) ELSE Settled(s)
    BY <1>1, <1>4
  <2>2. /\ plan' = [s \in Schedules |-> plan'[s]]
        /\ occ' = [s \in Schedules |-> occ'[s]]
        /\ behind' = behind \ {s \in admitted : ~Overtaken(s, t)}
        /\ behind \subseteq Schedules
    BY <1>1, <1>4 DEF Rows
  <2>3. ASSUME NEW s \in Schedules
        PROVE  /\ plan'[s] \in Plan /\ occ'[s] \in [Times -> Occurrence]
               /\ Sound(plan'[s], occ'[s])
               /\ Timed(plan'[s], occ'[s], s \in behind', now')
               /\ s \notin behind => \A v, x \in Times :
                    Admitted(occ[s], v) /\ ~Admitted(occ[s], x) /\ Admitted(occ'[s], x)
                    => occ[s][v].at < x
    <3>1. CASE s \in admitted
      <4>1. Due(s, t) /\ ~Active(s)
        BY <1>2, <3>1
      <4>2. /\ plan'[s] = Following(s, t)
            /\ occ'[s] = [occ[s] EXCEPT ![plan[s].next] = [at |-> t, task |-> "queued"]]
        BY <2>1, <3>1
      <4>3. (s \in behind') <=> (s \in behind /\ Overtaken(s, t))
        BY <2>2, <3>1
      <4>4. /\ plan'[s] \in Plan /\ occ'[s] \in [Times -> Occurrence]
            /\ Sound(plan'[s], occ'[s])
            /\ Timed(plan'[s], occ'[s], s \in behind /\ Overtaken(s, t), now)
            /\ s \notin behind =>
                 \A v \in Times : Admitted(occ[s], v) => occ[s][v].at < plan[s].next
        BY <4>1, <4>2, AdmitOne
      <4>5. \A x \in Times : ~Admitted(occ[s], x) /\ Admitted(occ'[s], x) => x = plan[s].next
        BY <4>2 DEF Rows, Admitted
      <4>6. Timed(plan'[s], occ'[s], s \in behind', now')
        BY <4>3, <4>4 DEF Timed
      <4>7. QED
        BY <4>4, <4>5, <4>6
    <3>2. CASE s \notin admitted
      <4>1. occ'[s] = occ[s] /\ plan'[s] = Settled(s)
        BY <2>1, <3>2
      <4>2. occ[s] \in [Times -> Occurrence]
        BY DEF Rows
      <4>3. (s \in behind') <=> (s \in behind)
        BY <2>2, <3>2
      <4>4. Timed(plan'[s], occ'[s], s \in behind', now')
        <5>1. Timed(Settled(s), occ[s], s \in behind, now)
          BY SettleOne
        <5>2. QED
          BY <4>1, <4>3, <5>1 DEF Timed
      <4>5. QED
        BY <4>1, <4>2, <4>4, SettleOne
    <3>3. QED
      BY <3>1, <3>2
  <2>4. behind' \subseteq Schedules /\ plan' \in [Schedules -> Plan]
        /\ occ' \in [Schedules -> [Times -> Occurrence]]
    BY <2>2, <2>3
  <2>5. Rows'
    BY <2>3, <2>4 DEF Rows, AllTimed
  <2>6. Merges
    BY <2>3 DEF Merges, Admitted, Rows, Occurrence
  <2>7. QED
    BY <2>5, <2>6
<1>5. QED
  BY <1>3, <1>4
-----------------------------------------------------------------------------
(* A task is claimed, ends or is cancelled. *)
LEMMA TaskStep ==
  ASSUME SchedulesAssumption, Rows, NEW s \in Schedules, NEW t \in Times,
         NEW task \in {"held", "succeeded", "stopped"}, SetTask(s, t, task),
         \/ occ[s][t].task = "queued"
         \/ occ[s][t].task = "held" /\ task # "held"
  PROVE  Rows' /\ Merges
<1> DEFINE o == [occ[s] EXCEPT ![t].task = task]
<1>1. plan[s] \in Plan /\ occ[s] \in [Times -> Occurrence] /\ Sound(plan[s], occ[s])
  BY DEF Rows
<1>2. plan' = [plan EXCEPT ![s] = plan[s]] /\ occ' = [occ EXCEPT ![s] = o] /\ now' = now
  BY DEF SetTask, Rows
<1>3. o \in [Times -> Occurrence]
  BY <1>1 DEF Occurrence, Tasks
<1>4. \A u \in Times : /\ o[u].at = occ[s][u].at
                       /\ o[u].task = IF u = t THEN task ELSE occ[s][u].task
  BY <1>1 DEF Occurrence
<1> HIDE DEF o
<1>5. \A u \in Times : /\ Pending(o[u].task) => Pending(occ[s][u].task)
                       /\ Admitted(o, u) <=> Admitted(occ[s], u)
                       /\ occ[s][u].task = "succeeded" => o[u].task = "succeeded"
  BY <1>4 DEF Pending, Admitted
<1>6. Sound(plan[s], o)
  BY <1>1, <1>4, <1>5 DEF Sound
<1>7. behind' = behind /\ behind \subseteq Schedules
  BY DEF SetTask, Rows
<1>8. Timed(plan[s], o, s \in behind', now)
  BY <1>4, <1>5, <1>7 DEF Rows, AllTimed, Timed
<1>9. QED
  BY <1>1, <1>2, <1>3, <1>5, <1>6, <1>7, <1>8, OnePlan

LEMMA TransactStep ==
  ASSUME SchedulesAssumption, Rows, now \in Times, NEW c \in Calls, NEW t \in Times,
         t <= now, Transact(c, t), now' = now
  PROVE  Rows' /\ Merges
<1>1. CASE c = <<"admit", None>>
  BY <1>1, AdmitStep DEF Transact
<1>2. CASE c \in {"create", "pause", "resume", "delete"} \X Schedules
  <2>1. PICK op \in {"create", "pause", "resume", "delete"}, s \in Schedules : c = <<op, s>>
    BY <1>2
  <2>2. CASE op = "create"
    BY <2>1, <2>2, CreateStep DEF Transact
  <2>3. CASE op = "pause"
    BY <2>1, <2>3, WithdrawStep, NothingChanges DEF Transact, Pause
  <2>4. CASE op = "resume"
    BY <2>1, <2>4, ResumeStep DEF Transact
  <2>5. CASE op = "delete"
    BY <2>1, <2>5, WithdrawStep, NothingChanges DEF Transact, Delete
  <2>6. QED
    BY <2>2, <2>3, <2>4, <2>5
<1>3. QED
  BY <1>1, <1>2 DEF Calls
-----------------------------------------------------------------------------
LEMMA RowsOfIInv == ASSUME IInv PROVE Rows
BY DEF IInv, TypeOK, Rows, Occurrence

LEMMA InitEstablishes ==
  ASSUME SchedulesAssumption, Init
  PROVE  IInv
<1>1. TypeOK
  BY DEF SchedulesAssumption, Init, TypeOK, Times, Plan, Status, Tasks
<1>2. CallsOK
  BY DEF Init, CallsOK
<1>3. \A s \in Schedules : Sound(plan[s], occ[s])
  BY DEF Init, Sound, Admitted, Pending
<1>4. AllTimed
  BY DEF Init, AllTimed, Timed, Admitted
<1>5. QED
  BY <1>1, <1>2, <1>3, <1>4 DEF IInv

(* Every step keeps the invariant, and admits nothing that is made up for. *)
LEMMA StepPreserves ==
  ASSUME SchedulesAssumption, IInv, [Next]_vars
  PROVE  IInv' /\ Merges
<1> USE RowsOfIInv DEF IInv
<1>1. now \in Times /\ call \in [Waiters -> (Calls \X Times) \cup {None}] /\ CallsOK
  BY DEF TypeOK
<1>2. ASSUME Rows', Merges, call' = call, now' = now
      PROVE  IInv' /\ Merges
  BY <1>1, <1>2 DEF TypeOK, Rows, Occurrence, CallsOK
<1>3. ASSUME NEW c \in Calls, CallNow(c)
      PROVE  IInv' /\ Merges
  <2>1. now <= now
    BY <1>1, TimesAreNat
  <2>2. Rows' /\ Merges
    BY <1>1, <1>3, <2>1, TransactStep DEF CallNow
  <2>3. QED
    BY <1>2, <1>3, <2>2 DEF CallNow
<1>4. ASSUME NEW w \in Waiters, NEW c \in Calls, ReadClock(w, c)
      PROVE  IInv' /\ Merges
  <2>1. /\ UNCHANGED <<plan, occ, now, behind>>
        /\ call' = [call EXCEPT ![w] = <<c, now>>]
    BY <1>4 DEF ReadClock
  <2>2. call' \in [Waiters -> (Calls \X Times) \cup {None}]
    BY <1>1, <2>1
  <2>3. CallsOK'
    BY <1>1, <2>1, TimesAreNat DEF CallsOK
  <2>4. QED
    BY <2>1, <2>2, <2>3, NothingChanges DEF TypeOK, Rows, Occurrence
<1>5. ASSUME NEW w \in Waiters, CallLate(w)
      PROVE  IInv' /\ Merges
  <2>1. /\ call[w] \in Calls \X Times /\ call[w][2] <= now
        /\ call' = [call EXCEPT ![w] = None] /\ now' = now
    BY <1>1, <1>5 DEF CallLate, CallsOK
  <2>2. PICK c \in Calls, t \in Times : call[w] = <<c, t>>
    BY <2>1
  <2>3. t <= now /\ Transact(c, t)
    BY <1>5, <2>1, <2>2 DEF CallLate
  <2>4. Rows' /\ Merges
    BY <1>1, <2>1, <2>3, TransactStep
  <2>5. call' \in [Waiters -> (Calls \X Times) \cup {None}] /\ CallsOK'
    BY <1>1, <2>1 DEF CallsOK
  <2>6. QED
    BY <1>1, <2>1, <2>4, <2>5 DEF TypeOK, Rows, Occurrence
<1>6. ASSUME NEW s \in Schedules, NEW t \in Times,
             TaskClaimed(s, t) \/ TaskEnds(s, t) \/ TaskCancelled(s, t)
      PROVE  IInv' /\ Merges
  <2>1. PICK task \in {"held", "succeeded", "stopped"} :
          /\ SetTask(s, t, task)
          /\ \/ occ[s][t].task = "queued"
             \/ occ[s][t].task = "held" /\ task # "held"
    BY <1>6 DEF TaskClaimed, TaskEnds, TaskCancelled
  <2>2. Rows' /\ Merges
    BY <2>1, TaskStep
  <2>3. QED
    BY <1>2, <2>1, <2>2 DEF SetTask
<1>7. CASE Tick
  <2>1. now' \in Times /\ now < now' /\ UNCHANGED <<plan, occ, call, behind>>
    BY <1>1, <1>7 DEF Tick, Times, SchedulesAssumption
  <2>2. CallsOK'
    <3> SUFFICES ASSUME NEW w \in Waiters, call[w] # None
                 PROVE  call[w][2] <= now'
      BY <2>1 DEF CallsOK
    <3>1. call[w][2] \in Nat /\ now \in Nat /\ now' \in Nat
      BY <1>1, <2>1, TimesAreNat
    <3>2. QED
      BY <1>1, <2>1, <3>1 DEF CallsOK
  <2>3. AllTimed'
    <3>1. \A s \in Schedules, t \in Times : occ[s][t].at \in Nat /\ now \in Nat /\ now' \in Nat
      BY <1>1, <2>1, TimesAreNat DEF TypeOK
    <3>2. QED
      BY <2>1, <3>1 DEF AllTimed, Timed
  <2>4. Merges
    BY <2>1 DEF Merges
  <2>5. QED
    BY <2>1, <2>2, <2>3, <2>4 DEF TypeOK
<1>8. CASE UNCHANGED vars
  BY <1>2, <1>8, NothingChanges DEF vars
<1>9. QED
  BY <1>3, <1>4, <1>5, <1>6, <1>7, <1>8 DEF Next

(* The invariant behind the theorems below. *)
THEOREM Inductive == Spec => []IInv
<1>1. Init => IInv
  BY SchedulesAssumption, InitEstablishes
<1>2. IInv /\ [Next]_vars => IInv'
  BY SchedulesAssumption, StepPreserves
<1>3. QED
  BY <1>1, <1>2, PTL DEF Spec

(* Every row and every waiting call has its type. *)
THEOREM TypeCorrect == Spec => []TypeOK
<1>1. IInv => TypeOK
  BY DEF IInv
<1>2. QED
  BY <1>1, Inductive, PTL

(* Two tasks of one plan are never queued or at work together, however long  *)
(* the calls of any process wait for their transactions.                    *)
THEOREM ExecutionsDisjoint == Spec => []NoOverlap
<1>1. IInv => NoOverlap
  BY DEF IInv, Sound, Pending, NoOverlap
<1>2. QED
  BY <1>1, Inductive, PTL

(* What a user reads of a plan agrees with its tasks. *)
THEOREM StatusSound == Spec => []StatusAgreesWithTasks
<1>1. IInv => StatusAgreesWithTasks
  <2> SUFFICES ASSUME IInv, NEW s \in Schedules
               PROVE  LET tasks == {occ[s][t].task : t \in Times}
                      IN  /\ plan[s].status \in {"paused", "deleted"} => "queued" \notin tasks
                          /\ plan[s].status = "completed" => "succeeded" \in tasks
                          /\ plan[s].status = "failed" =>
                               tasks \cap {"queued", "held", "succeeded"} = {} /\ tasks # {"none"}
    BY DEF StatusAgreesWithTasks
  <2>1. Sound(plan[s], occ[s])
    BY DEF IInv
  <2>2. QED
    BY <2>1 DEF Sound, Admitted
<1>2. QED
  BY <1>1, Inductive, PTL

(* Missed periods are merged, however long ticks and resumptions wait: only   *)
(* behind a resumption that an admission has overtaken is one made up for.  *)
THEOREM PeriodsMerged == Spec => MissedAreCoalesced
<1>1. IInv /\ [Next]_vars =>
        [\A s \in Schedules \ behind : \A t, u \in Times :
           /\ occ[s][t].task # "none"
           /\ occ[s][u].task = "none" /\ occ'[s][u].task # "none"
           => u > occ[s][t].at]_vars
  BY SchedulesAssumption, StepPreserves DEF Merges
<1>2. QED
  BY <1>1, Inductive, PTL DEF Spec, MissedAreCoalesced
=============================================================================
