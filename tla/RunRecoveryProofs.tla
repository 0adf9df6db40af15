-------------------------- MODULE RunRecoveryProofs --------------------------
(***************************************************************************)
(* Theorems about AgentRuns and RunRecovery when at most one process is up  *)
(* in a work directory (~Shared), for any tools, any number of runs, starts *)
(* and iterations.  RInv says what the rows of a run look like at each      *)
(* place of the agent that works on it, what a run that nobody works on     *)
(* looks like, and what a scan may rely on of what it has read.             *)
(*                                                                         *)
(* Fits is about one agent and one run: a step of an agent changes no rows   *)
(* but those of its run, so that it preserves RInv if Fits holds after it   *)
(* (AgentEffect); the same with ScanOf for a step of a scan (ScanEffect).   *)
(***************************************************************************)
EXTENDS RunRecovery, TLAPS

(* Places at which a request works, with its run running. *)
Busy == {"loop", "step", "stream", "serve", "exec", "report", "turn", "results"}

(* At most one process is up or starting; its memory goes with it. *)
OneProcess ==
  /\ \A g, h \in Hosts : up[g] # "down" /\ up[h] # "down" => g = h
  /\ \A h \in Hosts : up[h] # "up" => agent[h] = Idle
  /\ \A h \in Hosts : up[h] # "scanning" => scan[h] = NoScan

(* What an agent holds, at each place of Agent.run. *)
Shape(a) ==
  /\ a.pc = "idle" => a = Idle
  /\ a.pc # "idle" => a.run \in Runs
  /\ a.pc \in {"created", "loop", "turn", "results"} => a.step = 0
  /\ a.pc = "step" => a.step # 0
  /\ a.pc \notin {"exec", "ask", "report"} => a.batch = {}

(* The row rs of its run and the statuses ss of the steps, the current one    *)
(* included; the steps that the request may still append fit the bound.      *)
RowsOf(a, rs, ss) ==
  /\ a.pc = "created" => rs = "pending"
  /\ a.pc \in Busy => rs = "running"
  /\ a.pc = "ask" => rs = "blocked"
  /\ a.pc = "closing" => \/ rs = "running"
                         \/ rs = "blocked" /\ a.end \in {"failed", "cancelled"}
  /\ a.pc # "closing" => Len(ss) + MaxIterations <= MaxSteps + a.iteration
  /\ a.step <= Len(ss)
  /\ a.step # 0 =>
       /\ a.pc = "step" => ss[a.step] = "pending"
       /\ a.pc \in {"stream", "serve", "exec", "report"} => ss[a.step] = "running"
       /\ a.pc = "ask" => ss[a.step] = "blocked"
       /\ a.pc = "closing" =>
            \/ ss[a.step] = "running"
            \/ ss[a.step] = "blocked" /\ a.end \in {"failed", "cancelled"}

(* The calls an agent knows of are recorded, and those it has in hand were   *)
(* moved to running before.                                                  *)
CallsOf(a, cs) ==
  /\ \A t \in a.ids : cs[t] # "absent"
  /\ \A t \in a.batch \cap a.ids : cs[t] \in {"running", "failed", "cancelled", "denied"}

(* The transcript of the run, between the uses of a turn and its results.   *)
LinesOf(a, r, ls) ==
  /\ \A t \in Tools : ls[t].results <= ls[t].uses
  /\ a.run = r /\ a.pc = "results" => \A t \in a.turn : ls[t].results < ls[t].uses

(* An open step of run r belongs to an unfinished run, and is the current   *)
(* one of the agent that works on it.                                       *)
OpenOf(a, r, rs, ss) ==
  \A i \in DOMAIN ss : ss[i] \in Open => rs \in Open /\ a.run = r /\ a.step = i

(* By the advice ad the user decides about the call, or it only reads. *)
Deferred(t, ad) ==
  \/ ad[t] = "confirm"
  \/ Class[t] = "read" /\ ad[t] = "retry"

(* The agent has the running call t of run r in hand, or will close it if    *)
(* the request does not end by an exception.                                 *)
InBatch(a, r, t) ==
  /\ a.run = r
  /\ \/ t \in a.batch \cap a.ids
     \/ a.pc = "closing" /\ a.end = "failed"
     \/ a.pc = "closing" /\ t \in a.open

RunningOf(a, r, rs, cs, ad) ==
  \A t \in Tools : cs[t] = "running" /\ ~Deferred(t, ad) =>
    \/ rs = "failed"
    \/ rs \in Open /\ InBatch(a, r, t)

(* Nothing acts before its row was moved to running; what a start has left   *)
(* open was deferred.                                                        *)
ActedOf(cs, ac, ad) ==
  \A t \in Tools :
    /\ cs[t] \in {"absent", "pending"} => t \notin ac
    /\ Class[t] = "read" => t \notin ac
    /\ cs[t] = "uncertain" => Deferred(t, ad)

Typed(h, r) ==
  /\ agent[h] \in Memory
  /\ run[r] \in DOMAIN RUN_TRANSITIONS \cup {"absent"}
  /\ steps[r] \in Seq(DOMAIN STEP_TRANSITIONS)
  /\ Len(steps[r]) <= MaxSteps
  /\ calls[r] \in [Tools -> DOMAIN TOOL_CALL_TRANSITIONS \cup {"absent"}]
  /\ lines[r] \in [Tools -> [uses : Nat, results : Nat]]
  /\ acted[r] \subseteq Tools

(* The agent of the process h that is up, and a run, which may be its own or *)
(* not; all but the types.                                                   *)
Fits(h, r) ==
  /\ Shape(agent[h])
  /\ agent[h].run = r => RowsOf(agent[h], run[r], steps[r]) /\ CallsOf(agent[h], calls[r])
  /\ LinesOf(agent[h], r, lines[r])
  /\ run[r] = "absent" => steps[r] = <<>>
  /\ run[r] \in Open => agent[h].run = r \/ r \in dropped[h]
  /\ Dropped(r) \/ OpenOf(agent[h], r, run[r], steps[r])
  /\ Dropped(r) \/ RunningOf(agent[h], r, run[r], calls[r], advice[r])
  /\ ActedOf(calls[r], acted[r], advice[r])

(* What is left of it without the process. *)
Resting(r) ==
  /\ \A t \in Tools : lines[r][t].results <= lines[r][t].uses
  /\ run[r] = "absent" => steps[r] = <<>>
  /\ Dropped(r) \/ \A i \in DOMAIN steps[r] : steps[r][i] \in Open => run[r] \in Open
  /\ Dropped(r) \/ \A t \in Tools : calls[r][t] = "running" =>
                     Deferred(t, advice[r]) \/ run[r] \in Open \cup {"failed"}
  /\ ActedOf(calls[r], acted[r], advice[r])

(* What a scan has read of its run stays true until it is used. *)
ScanOf(s, ss, cs, ls) ==
  /\ \A i \in DOMAIN ss : ss[i] \in Open => i \in s.open
  /\ s.stage = "calls" =>
       \A t \in Tools : /\ s.seen[t] # "absent" => s.seen[t] = cs[t]
                        /\ cs[t] = "running" => s.seen[t] = "running"
  /\ s.stage \in {"repair", "steps"} => \A t \in Tools : cs[t] # "running"
  /\ s.stage = "repair" =>
       s.missing = {t \in Tools : cs[t] = "completed" /\ ls[t].results = 0}
  /\ s.stage = "steps" =>
       \A t \in Tools : cs[t] = "completed" /\ ls[t].uses > 0 => ls[t].results > 0

ScanFits(h) ==
  LET s == scan[h] IN
  /\ s.stage = "pick" => s.run = None
  /\ s.stage # "pick" => s.run \in Runs /\ ScanOf(s, steps[s.run], calls[s.run], lines[s.run])
  /\ Unfinished \subseteq s.todo \cup {s.run}

RInv ==
  /\ TypeOK
  /\ OneProcess
  /\ \A r \in Runs : Resting(r)
  /\ \A h \in Hosts : Shape(agent[h])
  /\ \A h \in Hosts : up[h] = "up" => \A r \in Runs : Fits(h, r)
  /\ \A h \in Hosts : up[h] = "scanning" => ScanFits(h)
-----------------------------------------------------------------------------
(* The transitions that are asked for. *)
LEMMA Transitions ==
  /\ \A from \in {"pending", "running", "blocked", "interrupted"} :
       Attempt(RUN_TRANSITIONS, from, "running") = "running"
  /\ \A to \in {"completed", "failed", "interrupted", "cancelled", "blocked"} :
       Attempt(RUN_TRANSITIONS, "running", to) = to
  /\ \A to \in {"failed", "cancelled"} : Attempt(RUN_TRANSITIONS, "blocked", to) = to
  /\ STEP_TRANSITIONS = RUN_TRANSITIONS
  BY DEF Attempt, Legal, RUN_TRANSITIONS, STEP_TRANSITIONS

LEMMA AttemptType ==
  ASSUME NEW table, NEW from, NEW to
  PROVE  Attempt(table, from, to) \in {from, to}
  BY DEF Attempt

LEMMA Domains ==
  /\ DOMAIN RUN_TRANSITIONS = {"pending", "running", "blocked", "interrupted",
                              "completed", "failed", "cancelled"}
  /\ DOMAIN STEP_TRANSITIONS = DOMAIN RUN_TRANSITIONS
  /\ DOMAIN TOOL_CALL_TRANSITIONS = {"pending", "running", "uncertain", "completed",
                                    "failed", "cancelled", "denied"}
  BY DEF RUN_TRANSITIONS, STEP_TRANSITIONS, TOOL_CALL_TRANSITIONS

LEMMA CallTransitions ==
  /\ ControlTool("absent", "running") \in {"absent", "running"}
  /\ \A from \in {"pending", "running", "uncertain"} : ControlTool(from, "running") = "running"
  /\ \A from \in Settled, to \in {"running", "completed", "failed", "denied"} :
       ControlTool(from, to) = from
  /\ \A to \in {"completed", "failed", "denied"} : ControlTool("running", to) = to
  /\ \A from \in {"pending", "running"} :
       Attempt(TOOL_CALL_TRANSITIONS, from, "cancelled") = "cancelled"
  BY DEF ControlTool, Attempt, Legal, TOOL_CALL_TRANSITIONS, Settled

LEMMA IdleFacts ==
  ASSUME AgentAssumption
  PROVE  /\ Idle \in Memory
         /\ Idle.pc = "idle" /\ Idle.run = None /\ Idle.step = 0 /\ Idle.iteration = 0
         /\ Idle.batch = {} /\ Idle.ids = {} /\ Idle.did = {} /\ Idle.open = {}
         /\ Shape(Idle)
  BY DEF AgentAssumption, Idle, Memory, PCs, Shape

LEMMA Zero ==
  ASSUME AgentAssumption
  PROVE  0 \in 0 .. MaxSteps /\ {} \in SUBSET Tools
  BY DEF AgentAssumption

LEMMA EndedFacts ==
  ASSUME AgentAssumption, NEW h \in Hosts, agent[h] \in Memory, Current(h) \in Runs,
         NEW status \in {"completed", "failed", "cancelled", "interrupted"},
         NEW step \in 0 .. MaxSteps
  PROVE  LET b == Ended(h, status, step) IN
         /\ b \in Memory
         /\ b.pc = "closing" /\ b.run = Current(h) /\ b.step = step /\ b.end = status
         /\ b.batch = {} /\ b.ids = {} /\ b.did = {}
         /\ status = "cancelled" =>
              b.open = {t \in Tools : calls[Current(h)][t] \in {"pending", "running"}}
         /\ Shape(b)
<1> DEFINE o == IF status = "cancelled"
                THEN {t \in Tools : calls[Current(h)][t] \in {"pending", "running"}}
                ELSE {}
           b == [Idle EXCEPT !.pc = "closing", !.run = Current(h), !.step = step,
                             !.end = status, !.open = o]
<1>1. o \in SUBSET Tools
  OBVIOUS
<1>2. Ended(h, status, step) = b
  BY DEF Ended
<1>3. status = "cancelled" =>
        o = {t \in Tools : calls[Current(h)][t] \in {"pending", "running"}}
  OBVIOUS
<1> HIDE DEF o
<1>4. b \in Memory
  BY <1>1, IdleFacts DEF Memory, PCs
<1>5. /\ b.pc = "closing" /\ b.run = Current(h) /\ b.step = step /\ b.end = status
      /\ b.batch = {} /\ b.ids = {} /\ b.did = {} /\ b.open = o
  BY DEF Idle
<1> HIDE DEF b
<1>6. Shape(b)
  BY <1>5 DEF Shape
<1>7. QED
  BY <1>2, <1>3, <1>4, <1>5, <1>6
-----------------------------------------------------------------------------
(* A step of the agent of h, on the run r. *)
Frame(h, r) ==
  /\ agent[h].run \in {None, r}
  /\ agent' = [agent EXCEPT ![h] = agent'[h]]
  /\ agent'[h].run \in {None, r}
  /\ run' = [run EXCEPT ![r] = run'[r]]
  /\ steps' = [steps EXCEPT ![r] = steps'[r]]
  /\ calls' = [calls EXCEPT ![r] = calls'[r]]
  /\ lines' = [lines EXCEPT ![r] = lines'[r]]
  /\ acted' = [acted EXCEPT ![r] = acted'[r]]
  /\ dropped' = [dropped EXCEPT ![h] = dropped'[h]]
  /\ dropped[h] \subseteq dropped'[h]
  /\ dropped'[h] \subseteq dropped[h] \cup {r}

LEMMA FrameTypes ==
  ASSUME TypeOK, NEW h \in Hosts, NEW r \in Runs, UNCHANGED hostVars,
         Frame(h, r), Typed(h, r)'
  PROVE  TypeOK'
<1>1. /\ agent' \in [Hosts -> Memory]
      /\ run' \in [Runs -> DOMAIN RUN_TRANSITIONS \cup {"absent"}]
      /\ calls' \in [Runs -> [Tools -> DOMAIN TOOL_CALL_TRANSITIONS \cup {"absent"}]]
      /\ lines' \in [Runs -> [Tools -> [uses : Nat, results : Nat]]]
  BY DEF TypeOK, AgentTypeOK, Frame, Typed
<1>2. acted' \in [Runs -> SUBSET Tools]
  BY DEF TypeOK, AgentTypeOK, Frame, Typed
<1>3. dropped' \in [Hosts -> SUBSET Runs]
  <2>1. dropped'[h] \in SUBSET Runs
    BY DEF TypeOK, AgentTypeOK, Frame
  <2>2. QED
    BY <2>1 DEF TypeOK, AgentTypeOK, Frame
<1>4. /\ steps' \in [Runs -> Seq(DOMAIN STEP_TRANSITIONS)]
      /\ \A q \in Runs : Len(steps'[q]) <= MaxSteps
  <2>1. /\ steps \in [Runs -> Seq(DOMAIN STEP_TRANSITIONS)]
        /\ \A q \in Runs : Len(steps[q]) <= MaxSteps
    BY DEF TypeOK, AgentTypeOK
  <2>2. /\ steps' = [steps EXCEPT ![r] = steps'[r]]
        /\ steps'[r] \in Seq(DOMAIN STEP_TRANSITIONS) /\ Len(steps'[r]) <= MaxSteps
    BY DEF Frame, Typed
  <2>3. steps' \in [Runs -> Seq(DOMAIN STEP_TRANSITIONS)]
    BY <2>1, <2>2
  <2>4. \A q \in Runs \ {r} : steps'[q] = steps[q]
    BY <2>1, <2>2
  <2> QED BY <2>1, <2>2, <2>3, <2>4
<1>5. QED
  BY <1>1, <1>2, <1>3, <1>4 DEF TypeOK, AgentTypeOK, hostVars

LEMMA FrameValues ==
  ASSUME TypeOK, NEW h \in Hosts, NEW r \in Runs, Frame(h, r)
  PROVE  /\ \A g \in Hosts \ {h} : agent'[g] = agent[g] /\ dropped'[g] = dropped[g]
         /\ \A q \in Runs \ {r} :
              /\ run'[q] = run[q] /\ steps'[q] = steps[q] /\ calls'[q] = calls[q]
              /\ lines'[q] = lines[q] /\ acted'[q] = acted[q]
              /\ Dropped(q)' = Dropped(q)
              /\ q \in dropped'[h] <=> q \in dropped[h]
         /\ Dropped(r) => Dropped(r)'
<1>1. /\ \A g \in Hosts \ {h} : agent'[g] = agent[g] /\ dropped'[g] = dropped[g]
      /\ \A q \in Runs \ {r} :
           /\ run'[q] = run[q] /\ steps'[q] = steps[q] /\ calls'[q] = calls[q]
           /\ lines'[q] = lines[q] /\ acted'[q] = acted[q]
           /\ q \in dropped'[h] <=> q \in dropped[h]
  BY DEF TypeOK, AgentTypeOK, Frame
<1>2. \A q \in Runs \ {r} : Dropped(q)' = Dropped(q)
  BY <1>1 DEF Dropped
<1>3. Dropped(r) => Dropped(r)'
  BY <1>1 DEF Dropped, Frame
<1>4. QED
  BY <1>1, <1>2, <1>3

LEMMA FitsRests ==
  ASSUME NEW h \in Hosts, NEW r \in Runs, Fits(h, r)
  PROVE  Resting(r)
  BY DEF Fits, Resting, LinesOf, OpenOf, RunningOf

LEMMA AgentEffect ==
  ASSUME AgentAssumption, RInv, NEW h \in Hosts, up[h] = "up", UNCHANGED hostVars,
         NEW r \in Runs, Frame(h, r), Typed(h, r)', Fits(h, r)'
  PROVE  RInv'
<1>1. TypeOK /\ TypeOK'
  BY FrameTypes DEF RInv
<1>2. OneProcess'
  BY FrameValues, <1>1 DEF RInv, OneProcess, hostVars
<1>3. \A g \in Hosts : g # h => up[g] = "down"
  BY <1>1 DEF RInv, OneProcess, TypeOK
<1>4. ASSUME NEW q \in Runs
      PROVE  Fits(h, q)'
  <2>1. CASE q = r
    BY <2>1
  <2>2. CASE q # r
    <3>1. /\ run'[q] = run[q] /\ steps'[q] = steps[q] /\ calls'[q] = calls[q]
          /\ lines'[q] = lines[q] /\ acted'[q] = acted[q]
          /\ Dropped(q)' = Dropped(q)
          /\ q \in dropped'[h] <=> q \in dropped[h]
      BY <2>2, <1>1, FrameValues
    <3>2. agent[h].run # q /\ agent'[h].run # q
      BY <2>2 DEF Frame, AgentAssumption
    <3>3. Fits(h, q) /\ Shape(agent'[h])
      BY DEF RInv, Fits
    <3>4. UNCHANGED advice
      BY DEF hostVars
    <3>5. (Dropped(q) \/ OpenOf(agent[h], q, run[q], steps[q]))'
      BY <3>1, <3>2, <3>3 DEF Fits, OpenOf
    <3>6. (Dropped(q) \/ RunningOf(agent[h], q, run[q], calls[q], advice[q]))'
      BY <3>1, <3>2, <3>3, <3>4 DEF Fits, RunningOf, InBatch, Deferred
    <3>7. ActedOf(calls[q], acted[q], advice[q])'
      BY <3>1, <3>3, <3>4 DEF Fits, ActedOf, Deferred
    <3>8. LinesOf(agent[h], q, lines[q])'
      BY <3>1, <3>2, <3>3 DEF Fits, LinesOf
    <3>9. /\ Shape(agent[h])'
          /\ (agent[h].run = q =>
                RowsOf(agent[h], run[q], steps[q]) /\ CallsOf(agent[h], calls[q]))'
          /\ (run[q] = "absent" => steps[q] = <<>>)'
          /\ (run[q] \in Open => agent[h].run = q \/ q \in dropped[h])'
      BY <3>1, <3>2, <3>3 DEF Fits
    <3>10. QED
      BY <3>5, <3>6, <3>7, <3>8, <3>9 DEF Fits
  <2>3. QED
    BY <2>1, <2>2
<1>5. \A q \in Runs : Resting(q)'
  <2> SUFFICES ASSUME NEW q \in Runs
               PROVE  Resting(q)'
    OBVIOUS
  <2>1. Fits(h, q)'
    BY <1>4
  <2>2. QED
    BY <2>1 DEF Fits, Resting, LinesOf, OpenOf, RunningOf
<1>6. \A g \in Hosts : up'[g] = "up" => g = h
  BY <1>3 DEF hostVars
<1>7. \A g \in Hosts : up'[g] # "scanning"
  BY <1>3 DEF hostVars
<1>8. \A g \in Hosts : Shape(agent[g])'
  BY <1>1, FrameValues DEF RInv, Fits
<1>9. QED
  BY <1>1, <1>2, <1>4, <1>5, <1>6, <1>7, <1>8 DEF RInv
-----------------------------------------------------------------------------
(* An agent in the middle of a request, and its run. *)
LEMMA AtWork ==
  ASSUME AgentAssumption, RInv, NEW h \in Hosts, up[h] = "up",
         NEW r \in Runs, agent[h].run = r
  PROVE  /\ TypeOK /\ Typed(h, r) /\ Fits(h, r)
         /\ Shape(agent[h]) /\ agent[h].pc # "idle"
         /\ RowsOf(agent[h], run[r], steps[r])
         /\ CallsOf(agent[h], calls[r])
         /\ LinesOf(agent[h], r, lines[r])
         /\ Dropped(r) \/ OpenOf(agent[h], r, run[r], steps[r])
         /\ Dropped(r) \/ RunningOf(agent[h], r, run[r], calls[r], advice[r])
         /\ ActedOf(calls[r], acted[r], advice[r])
         /\ run[r] \in {"pending", "running", "blocked"}
<1>1. TypeOK /\ Fits(h, r)
  BY DEF RInv
<1>2. Typed(h, r)
  BY <1>1 DEF TypeOK, AgentTypeOK, Typed
<1>3. Shape(agent[h]) /\ agent[h].pc # "idle"
  BY <1>1, IdleFacts DEF Fits, Shape, AgentAssumption
<1>4. agent[h].run = r /\ agent[h].pc \in PCs /\ RowsOf(agent[h], run[r], steps[r])
  BY <1>1, <1>2 DEF Fits, Typed, Memory
<1>5. run[r] \in {"pending", "running", "blocked"}
  BY <1>3, <1>4 DEF RowsOf, Busy, PCs
<1>6. QED
  BY <1>1, <1>2, <1>3, <1>5 DEF Fits

LEMMA InRequest ==
  ASSUME AgentAssumption, RInv, NEW h \in Hosts, up[h] = "up", agent[h].pc # "idle"
  PROVE  agent[h].run \in Runs
  BY DEF RInv, Shape

LEMMA FrameOf ==
  ASSUME TypeOK, NEW h \in Hosts, NEW r \in Runs, agent[h].run \in {None, r}
  PROVE  /\ \A b : agent' = [agent EXCEPT ![h] = b] => agent'[h] = b
         /\ UNCHANGED run => run' = [run EXCEPT ![r] = run'[r]]
         /\ UNCHANGED steps => steps' = [steps EXCEPT ![r] = steps'[r]]
         /\ UNCHANGED calls => calls' = [calls EXCEPT ![r] = calls'[r]]
         /\ UNCHANGED lines => lines' = [lines EXCEPT ![r] = lines'[r]]
         /\ UNCHANGED acted => acted' = [acted EXCEPT ![r] = acted'[r]]
         /\ UNCHANGED dropped => dropped' = [dropped EXCEPT ![h] = dropped'[h]]
<1>1. /\ agent \in [Hosts -> Memory]
      /\ run \in [Runs -> DOMAIN RUN_TRANSITIONS \cup {"absent"}]
      /\ steps \in [Runs -> Seq(DOMAIN STEP_TRANSITIONS)]
      /\ calls \in [Runs -> [Tools -> DOMAIN TOOL_CALL_TRANSITIONS \cup {"absent"}]]
      /\ lines \in [Runs -> [Tools -> [uses : Nat, results : Nat]]]
      /\ acted \in [Runs -> SUBSET Tools]
      /\ dropped \in [Hosts -> SUBSET Runs]
  BY DEF TypeOK, AgentTypeOK
<1>2. QED
  BY <1>1
-----------------------------------------------------------------------------
(* A step that writes neither calls nor the transcript. *)
LEMMA QuietStep ==
  ASSUME AgentAssumption, RInv, NEW h \in Hosts, up[h] = "up", UNCHANGED hostVars,
         NEW r \in Runs, agent[h].run = r,
         UNCHANGED <<calls, lines, acted, dropped>>,
         agent' = [agent EXCEPT ![h] = agent'[h]],
         run' = [run EXCEPT ![r] = run'[r]],
         steps' = [steps EXCEPT ![r] = steps'[r]],
         agent'[h] \in Memory, agent'[h].run = r, agent'[h].pc # "results",
         run'[r] \in {"pending", "running", "blocked"},
         steps'[r] \in Seq(DOMAIN STEP_TRANSITIONS), Len(steps'[r]) <= MaxSteps,
         Shape(agent'[h]),
         RowsOf(agent'[h], run'[r], steps'[r]),
         CallsOf(agent'[h], calls[r]),
         Dropped(r) \/ OpenOf(agent'[h], r, run'[r], steps'[r]),
         Dropped(r) \/ RunningOf(agent'[h], r, run'[r], calls[r], advice[r])
  PROVE  RInv'
<1>1. /\ TypeOK /\ Typed(h, r) /\ Fits(h, r)
      /\ LinesOf(agent[h], r, lines[r])
      /\ ActedOf(calls[r], acted[r], advice[r])
  BY AtWork
<1>2. Frame(h, r)
  BY <1>1, FrameOf DEF Frame
<1>3. Typed(h, r)'
  BY <1>1, Domains DEF Typed
<1>4. Dropped(r)' = Dropped(r) /\ UNCHANGED advice
  BY DEF Dropped, hostVars
<1>5. LinesOf(agent'[h], r, lines[r])
  BY <1>1 DEF LinesOf
<1>6. Fits(h, r)'
  BY <1>1, <1>4, <1>5 DEF Fits
<1>7. QED
  BY <1>2, <1>3, <1>6, AgentEffect

(* What is running stays in the hands of the agent. *)
LEMMA KeepsRunning ==
  ASSUME NEW a, NEW b, NEW r, NEW rs, NEW rt, NEW cs, NEW ad,
         RunningOf(a, r, rs, cs, ad), rs # "failed", rt \in {"pending", "running", "blocked"},
         b.run = r,
         a.batch \cap a.ids \subseteq b.batch \cap b.ids,
         a.pc = "closing" => b.pc = "closing" /\ b.end = a.end /\ b.open = a.open
  PROVE  RunningOf(b, r, rt, cs, ad)
  BY DEF RunningOf, InBatch, Open

(* A request that ends by an exception leaves the calls, one that is          *)
(* cancelled closes them, one that ends otherwise has none in hand.          *)
LEMMA EndKeepsRunning ==
  ASSUME NEW a, NEW b, NEW r, NEW rs, NEW cs, NEW ad,
         RunningOf(a, r, rs, cs, ad), rs \in {"pending", "running", "blocked"},
         a.pc # "closing",
         b.run = r, b.pc = "closing",
         \/ b.end = "failed"
         \/ a.batch = {}
         \/ b.open = {t \in Tools : cs[t] \in {"pending", "running"}}
  PROVE  RunningOf(b, r, rs, cs, ad)
  BY DEF RunningOf, InBatch, Open

(* The current step k of the agent, if there is one, is asked to become s. *)
StepWritten(h, r, s) ==
  LET k == agent[h].step
      ss == steps[r]
  IN  /\ steps' = [steps EXCEPT ![r] = steps'[r]]
      /\ steps'[r] \in Seq(DOMAIN STEP_TRANSITIONS)
      /\ Len(ss) \in Nat /\ Len(steps'[r]) = Len(ss) /\ Len(ss) <= MaxSteps
      /\ DOMAIN steps'[r] = DOMAIN ss /\ 0 \notin DOMAIN ss
      /\ \A i \in DOMAIN ss : i # k => steps'[r][i] = ss[i]
      /\ k = 0 => steps'[r] = ss
      /\ k # 0 => k \in DOMAIN ss /\ steps'[r][k] = Attempt(STEP_TRANSITIONS, ss[k], s)

LEMMA WriteStepValues ==
  ASSUME TypeOK, NEW h \in Hosts, NEW r \in Runs, agent[h].run = r,
         agent[h].step <= Len(steps[r]), NEW s, WriteStep(h, s),
         s \in DOMAIN STEP_TRANSITIONS
  PROVE  StepWritten(h, r, s)
<1> DEFINE k == agent[h].step
           D == DOMAIN STEP_TRANSITIONS
<1>1. k \in Nat /\ steps \in [Runs -> Seq(D)] /\ steps[r] \in Seq(D)
  BY DEF TypeOK, AgentTypeOK, Memory
<1>2. /\ DOMAIN steps[r] = 1 .. Len(steps[r]) /\ Len(steps[r]) \in Nat
      /\ Len(steps[r]) <= MaxSteps /\ 0 \notin DOMAIN steps[r]
  BY <1>1 DEF TypeOK, AgentTypeOK
<1>3. CASE k = 0
  BY <1>1, <1>2, <1>3 DEF WriteStep, StepWritten
<1>4. CASE k # 0
  <2> DEFINE x == Attempt(STEP_TRANSITIONS, steps[r][k], s)
             y == [steps[r] EXCEPT ![k] = x]
  <2>1. k \in 1 .. Len(steps[r])
    BY <1>1, <1>2, <1>4
  <2>2. steps' = [steps EXCEPT ![r] = y]
    BY <1>4 DEF WriteStep, Current
  <2>3. x \in D
    BY <1>1, <1>2, <2>1, AttemptType
  <2> HIDE DEF x
  <2>4. y \in Seq(D) /\ Len(y) = Len(steps[r]) /\ DOMAIN y = DOMAIN steps[r]
    BY <1>1, <1>2, <2>1, <2>3
  <2>5. y[k] = x /\ \A i \in DOMAIN steps[r] : i # k => y[i] = steps[r][i]
    BY <1>1, <1>2, <2>1
  <2> HIDE DEF y
  <2>6. steps'[r] = y
    BY <1>1, <2>2
  <2>7. QED
    BY <1>2, <1>4, <2>1, <2>2, <2>4, <2>5, <2>6 DEF x, StepWritten
<1>5. QED
  BY <1>3, <1>4

(* The current step is written: it is still the current one or closed. *)
LEMMA OpenAfterWrite ==
  ASSUME NEW a, NEW b, NEW r, NEW rs, NEW rt, NEW ss, NEW st,
         OpenOf(a, r, rs, ss),
         DOMAIN st = DOMAIN ss,
         \A i \in DOMAIN ss : i # a.step => st[i] = ss[i],
         0 \notin DOMAIN ss, rt \in {"pending", "running", "blocked"}, b.run = r,
         \/ b.step = a.step
         \/ a.step # 0 => st[a.step] \notin {"pending", "running", "blocked"}
  PROVE  OpenOf(b, r, rt, st)
  BY DEF OpenOf, Open
-----------------------------------------------------------------------------
LEMMA BeginRunStep ==
  ASSUME AgentAssumption, RInv, NEW h \in Hosts, up[h] = "up", UNCHANGED hostVars,
         NEW r \in Runs, agent[h].run = r, BeginRun(h)
  PROVE  RInv'
<1> DEFINE a == agent[h]
           b == agent'[h]
<1>1. /\ TypeOK /\ Typed(h, r) /\ a.pc = "created"
      /\ Shape(a) /\ RowsOf(a, run[r], steps[r]) /\ CallsOf(a, calls[r])
      /\ Dropped(r) \/ OpenOf(a, r, run[r], steps[r])
      /\ Dropped(r) \/ RunningOf(a, r, run[r], calls[r], advice[r])
  BY AtWork DEF BeginRun, At
<1>2. /\ b \in Memory /\ b.pc = "loop"
      /\ b.run = r /\ b.step = 0 /\ b.iteration = a.iteration /\ b.batch = {} /\ b.ids = a.ids
  <2>1. agent \in [Hosts -> Memory] /\ a \in Memory /\ a.step = 0 /\ a.batch = {}
    BY <1>1 DEF TypeOK, AgentTypeOK, Shape
  <2>2. QED
    BY <2>1, Zero DEF BeginRun, Memory, PCs
<1>3. /\ run' = [run EXCEPT ![r] = "running"]
      /\ agent' = [agent EXCEPT ![h] = b]
      /\ UNCHANGED <<steps, calls, lines, acted, dropped, advice>>
  BY <1>1, Transitions DEF BeginRun, Current, WriteRun, TypeOK, AgentTypeOK, RowsOf, hostVars
<1>4. run'[r] = "running" /\ steps' = [steps EXCEPT ![r] = steps'[r]]
  BY <1>1, <1>3 DEF TypeOK, AgentTypeOK
<1> HIDE DEF a, b
<1>5. Shape(b) /\ CallsOf(b, calls[r]) /\ RowsOf(b, run'[r], steps[r])
  BY <1>1, <1>2, <1>4 DEF Shape, CallsOf, RowsOf, Busy
<1>6. Dropped(r) \/ OpenOf(b, r, run'[r], steps[r])
  BY <1>1, <1>2, <1>4 DEF OpenOf, Open, Shape
<1>7. Dropped(r) \/ RunningOf(b, r, run'[r], calls[r], advice[r])
  BY <1>1, <1>2, <1>4, KeepsRunning DEF RowsOf, Shape
<1>8. QED
  BY <1>1, <1>2, <1>3, <1>4, <1>5, <1>6, <1>7, QuietStep DEF b, Typed
LEMMA StartStepStep ==
  ASSUME AgentAssumption, RInv, NEW h \in Hosts, up[h] = "up", UNCHANGED hostVars,
         NEW r \in Runs, agent[h].run = r, StartStep(h)
  PROVE  RInv'
<1> DEFINE a == agent[h]
           b == agent'[h]
<1>1. /\ TypeOK /\ Typed(h, r) /\ a.pc = "loop"
      /\ Shape(a) /\ RowsOf(a, run[r], steps[r]) /\ CallsOf(a, calls[r])
      /\ Dropped(r) \/ OpenOf(a, r, run[r], steps[r])
      /\ Dropped(r) \/ RunningOf(a, r, run[r], calls[r], advice[r])
      /\ run[r] \in {"pending", "running", "blocked"}
  BY AtWork DEF StartStep, At
<1>2. Len(steps[r]) \in Nat /\ Len(steps[r]) + 1 <= MaxSteps /\ a.iteration \in Nat
  BY <1>1 DEF StartStep, RowsOf, Typed, Memory, AgentAssumption
<1>3. /\ steps' = [steps EXCEPT ![r] = Append(steps[r], "pending")]
      /\ steps'[r] = Append(steps[r], "pending")
  BY <1>1 DEF StartStep, Current, TypeOK, AgentTypeOK
<1>4. /\ steps'[r] \in Seq(DOMAIN STEP_TRANSITIONS)
      /\ Len(steps'[r]) = Len(steps[r]) + 1
      /\ steps'[r][Len(steps[r]) + 1] = "pending"
      /\ DOMAIN steps'[r] = DOMAIN steps[r] \cup {Len(steps[r]) + 1}
      /\ \A i \in DOMAIN steps[r] : steps'[r][i] = steps[r][i]
  BY <1>1, <1>3, Domains DEF Typed
<1>5. /\ b \in Memory /\ b.pc = "step" /\ b.step = Len(steps[r]) + 1
      /\ b.run = r /\ b.iteration = a.iteration + 1 /\ b.batch = {} /\ b.ids = a.ids
  BY <1>1, <1>2, <1>4
     DEF StartStep, Current, TypeOK, AgentTypeOK, Memory, PCs, Typed, Shape, AgentAssumption
<1>6. /\ agent' = [agent EXCEPT ![h] = b] /\ run' = [run EXCEPT ![r] = run'[r]]
      /\ UNCHANGED <<calls, lines, acted, dropped, advice>>
  <2>1. agent' = [agent EXCEPT ![h] = b]
    <3>1. PICK n : agent' = [agent EXCEPT ![h].pc = "step", ![h].iteration = @ + 1, ![h].step = n]
      BY DEF StartStep
    <3>2. QED
      BY <1>1, <3>1 DEF TypeOK, AgentTypeOK
  <2>2. run' = [run EXCEPT ![r] = run'[r]]
    BY <1>1 DEF StartStep, TypeOK, AgentTypeOK
  <2>3. QED
    BY <2>1, <2>2 DEF StartStep, hostVars
<1>6a. run'[r] = "running"
  BY <1>1 DEF StartStep, RowsOf, Busy
<1> HIDE DEF a, b
<1>7. Shape(b) /\ CallsOf(b, calls[r]) /\ RowsOf(b, run'[r], steps'[r])
  BY <1>1, <1>2, <1>4, <1>5, <1>6, <1>6a DEF Shape, CallsOf, RowsOf, Busy, AgentAssumption
<1>8. Dropped(r) \/ OpenOf(b, r, run'[r], steps'[r])
  <2>1. a.step = 0 /\ 0 \notin DOMAIN steps[r]
    BY <1>1 DEF Shape, Typed
  <2>2. QED
    BY <1>1, <1>4, <1>5, <1>6, <1>6a, <2>1 DEF OpenOf, Open
<1>9. Dropped(r) \/ RunningOf(b, r, run'[r], calls[r], advice[r])
  BY <1>1, <1>5, <1>6, <1>6a, KeepsRunning DEF RowsOf, Shape
<1>10. QED
  BY <1>1, <1>2, <1>3, <1>4, <1>5, <1>6, <1>6a, <1>7, <1>8, <1>9, QuietStep DEF b, Typed

LEMMA BeginStepStep ==
  ASSUME AgentAssumption, RInv, NEW h \in Hosts, up[h] = "up", UNCHANGED hostVars,
         NEW r \in Runs, agent[h].run = r, BeginStep(h)
  PROVE  RInv'
<1> DEFINE a == agent[h]
           b == agent'[h]
<1>1. /\ TypeOK /\ Typed(h, r) /\ a.pc = "step"
      /\ Shape(a) /\ RowsOf(a, run[r], steps[r]) /\ CallsOf(a, calls[r])
      /\ Dropped(r) \/ OpenOf(a, r, run[r], steps[r])
      /\ Dropped(r) \/ RunningOf(a, r, run[r], calls[r], advice[r])
      /\ run[r] \in {"pending", "running", "blocked"}
  BY AtWork DEF BeginStep, At
<1>2. /\ b.pc = "stream" /\ b.step = a.step
      /\ b.run = r /\ b.iteration = a.iteration /\ b.batch = {} /\ b.ids = a.ids
  BY <1>1 DEF BeginStep, Current, TypeOK, AgentTypeOK, Memory, PCs, Typed, Shape
<1>2a. b \in Memory
  <2>1. agent \in [Hosts -> Memory] /\ a \in Memory
    BY <1>1 DEF TypeOK, AgentTypeOK
  <2>2. QED
    BY <2>1, Zero DEF BeginStep, Memory, PCs
<1>3. StepWritten(h, r, "running")
  <2>1. WriteStep(h, "running")
    BY DEF BeginStep
  <2>2. "running" \in DOMAIN STEP_TRANSITIONS
    BY Domains
  <2>3. a.step <= Len(steps[r])
    BY <1>1 DEF RowsOf
  <2>4. QED
    BY <1>1, <2>1, <2>2, <2>3, WriteStepValues
<1>4. /\ steps' = [steps EXCEPT ![r] = steps'[r]]
      /\ steps'[r] \in Seq(DOMAIN STEP_TRANSITIONS)
      /\ Len(steps'[r]) = Len(steps[r]) /\ Len(steps'[r]) <= MaxSteps
      /\ Len(steps[r]) \in Nat
      /\ DOMAIN steps'[r] = DOMAIN steps[r] /\ 0 \notin DOMAIN steps[r]
      /\ \A i \in DOMAIN steps[r] : i # a.step => steps'[r][i] = steps[r][i]
  BY <1>3 DEF StepWritten
<1>4a. a.step # 0 => steps'[r][a.step] = "running"
  BY <1>1, <1>3, Transitions DEF StepWritten, RowsOf
<1>5. /\ agent' = [agent EXCEPT ![h] = b] /\ run' = [run EXCEPT ![r] = run'[r]]
      /\ UNCHANGED <<calls, lines, acted, dropped, advice>>
      /\ run'[r] = "running"
  <2>1. agent' = [agent EXCEPT ![h] = b]
    BY <1>1 DEF BeginStep, TypeOK, AgentTypeOK
  <2>2. UNCHANGED <<calls, lines, acted, dropped, advice>>
    BY DEF BeginStep, hostVars
  <2>3. run' = [run EXCEPT ![r] = run'[r]] /\ run'[r] = "running"
    BY <1>1 DEF BeginStep, TypeOK, AgentTypeOK, RowsOf, Busy
  <2>4. QED
    BY <2>1, <2>2, <2>3
<1> HIDE DEF a, b
<1>6. Shape(b) /\ CallsOf(b, calls[r])
  BY <1>1, <1>2 DEF Shape, CallsOf
<1>7. RowsOf(b, run'[r], steps'[r])
  BY <1>1, <1>2, <1>4, <1>4a, <1>5 DEF RowsOf, Busy
<1>8. Dropped(r) \/ OpenOf(b, r, run'[r], steps'[r])
  <2>1. b.step = a.step
    BY <1>2
  <2>2. run'[r] \in {"pending", "running", "blocked"} /\ b.run = r
    BY <1>2, <1>5
  <2>3. QED
    BY <1>1, <1>4, <2>1, <2>2 DEF OpenOf, Open
<1>9. Dropped(r) \/ RunningOf(b, r, run'[r], calls[r], advice[r])
  <2>1. a.batch \cap a.ids \subseteq b.batch \cap b.ids
    BY <1>1, <1>2 DEF Shape
  <2>2. QED
    BY <1>1, <1>2, <1>5, <2>1, KeepsRunning
<1>10. QED
  BY <1>1, <1>2, <1>2a, <1>4, <1>5, <1>6, <1>7, <1>8, <1>9, QuietStep DEF b

LEMMA ReplyTextStep ==
  ASSUME AgentAssumption, RInv, NEW h \in Hosts, up[h] = "up", UNCHANGED hostVars,
         NEW r \in Runs, agent[h].run = r, ReplyText(h)
  PROVE  RInv'
<1> DEFINE a == agent[h]
           b == agent'[h]
<1>1. /\ TypeOK /\ Typed(h, r) /\ a.pc = "stream"
      /\ Shape(a) /\ RowsOf(a, run[r], steps[r]) /\ CallsOf(a, calls[r])
      /\ Dropped(r) \/ OpenOf(a, r, run[r], steps[r])
      /\ Dropped(r) \/ RunningOf(a, r, run[r], calls[r], advice[r])
      /\ run[r] \in {"pending", "running", "blocked"}
  BY AtWork DEF ReplyText, At
<1>2. /\ b.pc = "turn" /\ b.step = 0
      /\ b.run = r /\ b.iteration = a.iteration /\ b.batch = {} /\ b.ids = a.ids
  BY <1>1 DEF ReplyText, Current, TypeOK, AgentTypeOK, Memory, PCs, Typed, Shape
<1>2a. b \in Memory
  <2>1. agent \in [Hosts -> Memory] /\ a \in Memory
    BY <1>1 DEF TypeOK, AgentTypeOK
  <2>2. QED
    BY <2>1, Zero DEF ReplyText, Memory, PCs
<1>3. StepWritten(h, r, "completed")
  <2>1. WriteStep(h, "completed")
    BY DEF ReplyText
  <2>2. "completed" \in DOMAIN STEP_TRANSITIONS
    BY Domains
  <2>3. a.step <= Len(steps[r])
    BY <1>1 DEF RowsOf
  <2>4. QED
    BY <1>1, <2>1, <2>2, <2>3, WriteStepValues
<1>4. /\ steps' = [steps EXCEPT ![r] = steps'[r]]
      /\ steps'[r] \in Seq(DOMAIN STEP_TRANSITIONS)
      /\ Len(steps'[r]) = Len(steps[r]) /\ Len(steps'[r]) <= MaxSteps
      /\ Len(steps[r]) \in Nat
      /\ DOMAIN steps'[r] = DOMAIN steps[r] /\ 0 \notin DOMAIN steps[r]
      /\ \A i \in DOMAIN steps[r] : i # a.step => steps'[r][i] = steps[r][i]
  BY <1>3 DEF StepWritten
<1>4a. a.step # 0 => steps'[r][a.step] = "completed"
  BY <1>1, <1>3, Transitions DEF StepWritten, RowsOf
<1>5. /\ agent' = [agent EXCEPT ![h] = b] /\ run' = [run EXCEPT ![r] = run'[r]]
      /\ UNCHANGED <<calls, lines, acted, dropped, advice>>
      /\ run'[r] = "running"
  <2>1. agent' = [agent EXCEPT ![h] = b]
    BY <1>1 DEF ReplyText, TypeOK, AgentTypeOK
  <2>2. UNCHANGED <<calls, lines, acted, dropped, advice>>
    BY DEF ReplyText, hostVars
  <2>3. run' = [run EXCEPT ![r] = run'[r]] /\ run'[r] = "running"
    BY <1>1 DEF ReplyText, TypeOK, AgentTypeOK, RowsOf, Busy
  <2>4. QED
    BY <2>1, <2>2, <2>3
<1> HIDE DEF a, b
<1>6. Shape(b) /\ CallsOf(b, calls[r])
  BY <1>1, <1>2 DEF Shape, CallsOf
<1>7. RowsOf(b, run'[r], steps'[r])
  BY <1>1, <1>2, <1>4, <1>4a, <1>5 DEF RowsOf, Busy
<1>8. Dropped(r) \/ OpenOf(b, r, run'[r], steps'[r])
  <2>1. a.step # 0 => steps'[r][a.step] \notin {"pending", "running", "blocked"}
    BY <1>4a
  <2>2. run'[r] \in {"pending", "running", "blocked"} /\ b.run = r
    BY <1>2, <1>5
  <2>3. QED
    BY <1>1, <1>4, <2>1, <2>2 DEF OpenOf, Open
<1>9. Dropped(r) \/ RunningOf(b, r, run'[r], calls[r], advice[r])
  <2>1. a.batch \cap a.ids \subseteq b.batch \cap b.ids
    BY <1>1, <1>2 DEF Shape
  <2>2. QED
    BY <1>1, <1>2, <1>5, <2>1, KeepsRunning
<1>10. QED
  BY <1>1, <1>2, <1>2a, <1>4, <1>5, <1>6, <1>7, <1>8, <1>9, QuietStep DEF b

LEMMA TruncateStep ==
  ASSUME AgentAssumption, RInv, NEW h \in Hosts, up[h] = "up", UNCHANGED hostVars,
         NEW r \in Runs, agent[h].run = r, NEW ts \in SUBSET Tools, Truncate(h, ts)
  PROVE  RInv'
<1> DEFINE a == agent[h]
           b == agent'[h]
<1>1. /\ TypeOK /\ Typed(h, r) /\ a.pc = "stream"
      /\ Shape(a) /\ RowsOf(a, run[r], steps[r]) /\ CallsOf(a, calls[r])
      /\ Dropped(r) \/ OpenOf(a, r, run[r], steps[r])
      /\ Dropped(r) \/ RunningOf(a, r, run[r], calls[r], advice[r])
      /\ run[r] \in {"pending", "running", "blocked"}
  BY AtWork DEF Truncate, At
<1>1a. agent \in [Hosts -> Memory] /\ a \in Memory /\ a.batch = {}
  BY <1>1 DEF TypeOK, AgentTypeOK, Shape
<1>1b. PICK pc \in {"loop", "serve"} :
         agent' = [agent EXCEPT ![h].pc = pc, ![h].todo = ts, ![h].turn = ts, ![h].step = 0]
  BY DEF Truncate
<1>2. /\ b.pc \in {"loop", "serve"} /\ b.step = 0
      /\ b.run = r /\ b.iteration = a.iteration /\ b.batch = {} /\ b.ids = a.ids
  BY <1>1a, <1>1b DEF Memory
<1>2a. b \in Memory
  BY <1>1a, <1>1b, Zero DEF Memory, PCs
<1>3. StepWritten(h, r, "completed")
  <2>1. WriteStep(h, "completed")
    BY DEF Truncate
  <2>2. "completed" \in DOMAIN STEP_TRANSITIONS
    BY Domains
  <2>3. a.step <= Len(steps[r])
    BY <1>1 DEF RowsOf
  <2>4. QED
    BY <1>1, <2>1, <2>2, <2>3, WriteStepValues
<1>4. /\ steps' = [steps EXCEPT ![r] = steps'[r]]
      /\ steps'[r] \in Seq(DOMAIN STEP_TRANSITIONS)
      /\ Len(steps'[r]) = Len(steps[r]) /\ Len(steps'[r]) <= MaxSteps
      /\ Len(steps[r]) \in Nat
      /\ DOMAIN steps'[r] = DOMAIN steps[r] /\ 0 \notin DOMAIN steps[r]
      /\ \A i \in DOMAIN steps[r] : i # a.step => steps'[r][i] = steps[r][i]
  BY <1>3 DEF StepWritten
<1>4a. a.step # 0 => steps'[r][a.step] = "completed"
  BY <1>1, <1>3, Transitions DEF StepWritten, RowsOf
<1>5. /\ agent' = [agent EXCEPT ![h] = b] /\ run' = [run EXCEPT ![r] = run'[r]]
      /\ UNCHANGED <<calls, lines, acted, dropped, advice>>
      /\ run'[r] = "running"
  <2>1. agent' = [agent EXCEPT ![h] = b]
    BY <1>1a, <1>1b
  <2>2. UNCHANGED <<calls, lines, acted, dropped, advice>>
    BY DEF Truncate, hostVars
  <2>3. run' = [run EXCEPT ![r] = run'[r]] /\ run'[r] = "running"
    BY <1>1 DEF Truncate, TypeOK, AgentTypeOK, RowsOf, Busy
  <2>4. QED
    BY <2>1, <2>2, <2>3
<1> HIDE DEF a, b
<1>6. Shape(b) /\ CallsOf(b, calls[r])
  BY <1>1, <1>2 DEF Shape, CallsOf
<1>7. RowsOf(b, run'[r], steps'[r])
  BY <1>1, <1>2, <1>4, <1>4a, <1>5 DEF RowsOf, Busy
<1>8. Dropped(r) \/ OpenOf(b, r, run'[r], steps'[r])
  <2>1. a.step # 0 => steps'[r][a.step] \notin {"pending", "running", "blocked"}
    BY <1>4a
  <2>2. run'[r] \in {"pending", "running", "blocked"} /\ b.run = r
    BY <1>2, <1>5
  <2>3. QED
    BY <1>1, <1>4, <2>1, <2>2 DEF OpenOf, Open
<1>9. Dropped(r) \/ RunningOf(b, r, run'[r], calls[r], advice[r])
  <2>1. a.batch \cap a.ids \subseteq b.batch \cap b.ids
    BY <1>1, <1>2 DEF Shape
  <2>2. QED
    BY <1>1, <1>2, <1>5, <2>1, KeepsRunning
<1>10. QED
  BY <1>1, <1>2, <1>2a, <1>4, <1>5, <1>6, <1>7, <1>8, <1>9, QuietStep DEF b

LEMMA TurnDoneStep ==
  ASSUME AgentAssumption, RInv, NEW h \in Hosts, up[h] = "up", UNCHANGED hostVars,
         NEW r \in Runs, agent[h].run = r, TurnDone(h)
  PROVE  RInv'
<1> DEFINE a == agent[h]
           b == agent'[h]
<1>1. /\ TypeOK /\ Typed(h, r) /\ a.pc = "serve"
      /\ Shape(a) /\ RowsOf(a, run[r], steps[r]) /\ CallsOf(a, calls[r])
      /\ Dropped(r) \/ OpenOf(a, r, run[r], steps[r])
      /\ Dropped(r) \/ RunningOf(a, r, run[r], calls[r], advice[r])
      /\ run[r] \in {"pending", "running", "blocked"}
  BY AtWork DEF TurnDone, At
<1>2. /\ b.pc = "turn" /\ b.step = 0
      /\ b.run = r /\ b.iteration = a.iteration /\ b.batch = {} /\ b.ids = a.ids
  BY <1>1 DEF TurnDone, Current, TypeOK, AgentTypeOK, Memory, PCs, Typed, Shape
<1>2a. b \in Memory
  <2>1. PICK last \in BOOLEAN :
          agent' = [agent EXCEPT ![h].pc = "turn", ![h].last = last, ![h].step = 0]
    BY DEF TurnDone
  <2>2. QED
    <3>1. agent \in [Hosts -> Memory] /\ a \in Memory
      BY <1>1 DEF TypeOK, AgentTypeOK
    <3>2. QED
      BY <2>1, <3>1, Zero DEF Memory, PCs
<1>3. StepWritten(h, r, "completed")
  <2>1. WriteStep(h, "completed")
    BY DEF TurnDone
  <2>2. "completed" \in DOMAIN STEP_TRANSITIONS
    BY Domains
  <2>3. a.step <= Len(steps[r])
    BY <1>1 DEF RowsOf
  <2>4. QED
    BY <1>1, <2>1, <2>2, <2>3, WriteStepValues
<1>4. /\ steps' = [steps EXCEPT ![r] = steps'[r]]
      /\ steps'[r] \in Seq(DOMAIN STEP_TRANSITIONS)
      /\ Len(steps'[r]) = Len(steps[r]) /\ Len(steps'[r]) <= MaxSteps
      /\ Len(steps[r]) \in Nat
      /\ DOMAIN steps'[r] = DOMAIN steps[r] /\ 0 \notin DOMAIN steps[r]
      /\ \A i \in DOMAIN steps[r] : i # a.step => steps'[r][i] = steps[r][i]
  BY <1>3 DEF StepWritten
<1>4a. a.step # 0 => steps'[r][a.step] = "completed"
  BY <1>1, <1>3, Transitions DEF StepWritten, RowsOf
<1>5. /\ agent' = [agent EXCEPT ![h] = b] /\ run' = [run EXCEPT ![r] = run'[r]]
      /\ UNCHANGED <<calls, lines, acted, dropped, advice>>
      /\ run'[r] = "running"
  <2>1. agent' = [agent EXCEPT ![h] = b]
    BY <1>1 DEF TurnDone, TypeOK, AgentTypeOK
  <2>2. UNCHANGED <<calls, lines, acted, dropped, advice>>
    BY DEF TurnDone, hostVars
  <2>3. run' = [run EXCEPT ![r] = run'[r]] /\ run'[r] = "running"
    BY <1>1 DEF TurnDone, TypeOK, AgentTypeOK, RowsOf, Busy
  <2>4. QED
    BY <2>1, <2>2, <2>3
<1> HIDE DEF a, b
<1>6. Shape(b) /\ CallsOf(b, calls[r])
  BY <1>1, <1>2 DEF Shape, CallsOf
<1>7. RowsOf(b, run'[r], steps'[r])
  BY <1>1, <1>2, <1>4, <1>4a, <1>5 DEF RowsOf, Busy
<1>8. Dropped(r) \/ OpenOf(b, r, run'[r], steps'[r])
  <2>1. a.step # 0 => steps'[r][a.step] \notin {"pending", "running", "blocked"}
    BY <1>4a
  <2>2. run'[r] \in {"pending", "running", "blocked"} /\ b.run = r
    BY <1>2, <1>5
  <2>3. QED
    BY <1>1, <1>4, <2>1, <2>2 DEF OpenOf, Open
<1>9. Dropped(r) \/ RunningOf(b, r, run'[r], calls[r], advice[r])
  <2>1. a.batch \cap a.ids \subseteq b.batch \cap b.ids
    BY <1>1, <1>2 DEF Shape
  <2>2. QED
    BY <1>1, <1>2, <1>5, <2>1, KeepsRunning
<1>10. QED
  BY <1>1, <1>2, <1>2a, <1>4, <1>5, <1>6, <1>7, <1>8, <1>9, QuietStep DEF b

LEMMA AskStep ==
  ASSUME AgentAssumption, RInv, NEW h \in Hosts, up[h] = "up", UNCHANGED hostVars,
         NEW r \in Runs, agent[h].run = r, Ask(h)
  PROVE  RInv'
<1> DEFINE a == agent[h]
           b == agent'[h]
<1>1. /\ TypeOK /\ Typed(h, r) /\ a.pc = "exec"
      /\ Shape(a) /\ RowsOf(a, run[r], steps[r]) /\ CallsOf(a, calls[r])
      /\ Dropped(r) \/ OpenOf(a, r, run[r], steps[r])
      /\ Dropped(r) \/ RunningOf(a, r, run[r], calls[r], advice[r])
      /\ run[r] \in {"pending", "running", "blocked"}
  BY AtWork DEF Ask, At
<1>2. /\ b.pc = "ask" /\ b.step = a.step
      /\ b.run = r /\ b.iteration = a.iteration /\ b.batch = a.batch /\ b.ids = a.ids
  BY <1>1 DEF Ask, Current, TypeOK, AgentTypeOK, Memory, PCs, Typed, Shape
<1>2a. b \in Memory
  <2>1. agent \in [Hosts -> Memory] /\ a \in Memory
    BY <1>1 DEF TypeOK, AgentTypeOK
  <2>2. QED
    BY <2>1, Zero DEF Ask, Memory, PCs
<1>3. StepWritten(h, r, "blocked")
  <2>1. WriteStep(h, "blocked")
    BY DEF Ask
  <2>2. "blocked" \in DOMAIN STEP_TRANSITIONS
    BY Domains
  <2>3. a.step <= Len(steps[r])
    BY <1>1 DEF RowsOf
  <2>4. QED
    BY <1>1, <2>1, <2>2, <2>3, WriteStepValues
<1>4. /\ steps' = [steps EXCEPT ![r] = steps'[r]]
      /\ steps'[r] \in Seq(DOMAIN STEP_TRANSITIONS)
      /\ Len(steps'[r]) = Len(steps[r]) /\ Len(steps'[r]) <= MaxSteps
      /\ Len(steps[r]) \in Nat
      /\ DOMAIN steps'[r] = DOMAIN steps[r] /\ 0 \notin DOMAIN steps[r]
      /\ \A i \in DOMAIN steps[r] : i # a.step => steps'[r][i] = steps[r][i]
  BY <1>3 DEF StepWritten
<1>4a. a.step # 0 => steps'[r][a.step] = "blocked"
  BY <1>1, <1>3, Transitions DEF StepWritten, RowsOf
<1>5. /\ agent' = [agent EXCEPT ![h] = b] /\ run' = [run EXCEPT ![r] = run'[r]]
      /\ UNCHANGED <<calls, lines, acted, dropped, advice>>
      /\ run'[r] = "blocked"
  <2>1. agent' = [agent EXCEPT ![h] = b]
    BY <1>1 DEF Ask, TypeOK, AgentTypeOK
  <2>2. UNCHANGED <<calls, lines, acted, dropped, advice>>
    BY DEF Ask, hostVars
  <2>3. run' = [run EXCEPT ![r] = run'[r]] /\ run'[r] = "blocked"
    BY <1>1, Transitions DEF Ask, TypeOK, AgentTypeOK, RowsOf, Busy, WriteRun, Current
  <2>4. QED
    BY <2>1, <2>2, <2>3
<1> HIDE DEF a, b
<1>6. Shape(b) /\ CallsOf(b, calls[r])
  BY <1>1, <1>2 DEF Shape, CallsOf
<1>7. RowsOf(b, run'[r], steps'[r])
  BY <1>1, <1>2, <1>4, <1>4a, <1>5 DEF RowsOf, Busy
<1>8. Dropped(r) \/ OpenOf(b, r, run'[r], steps'[r])
  <2>1. b.step = a.step
    BY <1>2
  <2>2. run'[r] \in {"pending", "running", "blocked"} /\ b.run = r
    BY <1>2, <1>5
  <2>3. QED
    BY <1>1, <1>4, <2>1, <2>2 DEF OpenOf, Open
<1>9. Dropped(r) \/ RunningOf(b, r, run'[r], calls[r], advice[r])
  <2>1. a.batch \cap a.ids \subseteq b.batch \cap b.ids
    BY <1>1, <1>2 DEF Shape
  <2>2. QED
    BY <1>1, <1>2, <1>5, <2>1, KeepsRunning
<1>10. QED
  BY <1>1, <1>2, <1>2a, <1>4, <1>5, <1>6, <1>7, <1>8, <1>9, QuietStep DEF b

LEMMA AnswerStep ==
  ASSUME AgentAssumption, RInv, NEW h \in Hosts, up[h] = "up", UNCHANGED hostVars,
         NEW r \in Runs, agent[h].run = r, NEW allow \in BOOLEAN, Answer(h, allow)
  PROVE  RInv'
<1> DEFINE a == agent[h]
           b == agent'[h]
<1>1. /\ TypeOK /\ Typed(h, r) /\ a.pc = "ask"
      /\ Shape(a) /\ RowsOf(a, run[r], steps[r]) /\ CallsOf(a, calls[r])
      /\ Dropped(r) \/ OpenOf(a, r, run[r], steps[r])
      /\ Dropped(r) \/ RunningOf(a, r, run[r], calls[r], advice[r])
      /\ run[r] \in {"pending", "running", "blocked"}
  BY AtWork DEF Answer, At
<1>2. /\ b.pc \in {"exec", "report"} /\ b.step = a.step
      /\ b.run = r /\ b.iteration = a.iteration /\ b.batch = a.batch /\ b.ids = a.ids
  BY <1>1 DEF Answer, Current, TypeOK, AgentTypeOK, Memory, PCs, Typed, Shape
<1>2a. b \in Memory
  <2>1. agent \in [Hosts -> Memory] /\ a \in Memory
    BY <1>1 DEF TypeOK, AgentTypeOK
  <2>2. PICK pc \in PCs, mode \in {"approved", "refused"} :
          agent' = [agent EXCEPT ![h].pc = pc, ![h].mode = mode]
    BY DEF Answer, PCs
  <2>3. QED
    BY <2>1, <2>2 DEF Memory
<1>3. StepWritten(h, r, "running")
  <2>1. WriteStep(h, "running")
    BY DEF Answer
  <2>2. "running" \in DOMAIN STEP_TRANSITIONS
    BY Domains
  <2>3. a.step <= Len(steps[r])
    BY <1>1 DEF RowsOf
  <2>4. QED
    BY <1>1, <2>1, <2>2, <2>3, WriteStepValues
<1>4. /\ steps' = [steps EXCEPT ![r] = steps'[r]]
      /\ steps'[r] \in Seq(DOMAIN STEP_TRANSITIONS)
      /\ Len(steps'[r]) = Len(steps[r]) /\ Len(steps'[r]) <= MaxSteps
      /\ Len(steps[r]) \in Nat
      /\ DOMAIN steps'[r] = DOMAIN steps[r] /\ 0 \notin DOMAIN steps[r]
      /\ \A i \in DOMAIN steps[r] : i # a.step => steps'[r][i] = steps[r][i]
  BY <1>3 DEF StepWritten
<1>4a. a.step # 0 => steps'[r][a.step] = "running"
  BY <1>1, <1>3, Transitions DEF StepWritten, RowsOf
<1>5. /\ agent' = [agent EXCEPT ![h] = b] /\ run' = [run EXCEPT ![r] = run'[r]]
      /\ UNCHANGED <<calls, lines, acted, dropped, advice>>
      /\ run'[r] = "running"
  <2>1. agent' = [agent EXCEPT ![h] = b]
    BY <1>1 DEF Answer, TypeOK, AgentTypeOK
  <2>2. UNCHANGED <<calls, lines, acted, dropped, advice>>
    BY DEF Answer, hostVars
  <2>3. run' = [run EXCEPT ![r] = run'[r]] /\ run'[r] = "running"
    BY <1>1, Transitions DEF Answer, TypeOK, AgentTypeOK, RowsOf, Busy, WriteRun, Current
  <2>4. QED
    BY <2>1, <2>2, <2>3
<1> HIDE DEF a, b
<1>6. Shape(b) /\ CallsOf(b, calls[r])
  BY <1>1, <1>2 DEF Shape, CallsOf
<1>7. RowsOf(b, run'[r], steps'[r])
  BY <1>1, <1>2, <1>4, <1>4a, <1>5 DEF RowsOf, Busy
<1>8. Dropped(r) \/ OpenOf(b, r, run'[r], steps'[r])
  <2>1. b.step = a.step
    BY <1>2
  <2>2. run'[r] \in {"pending", "running", "blocked"} /\ b.run = r
    BY <1>2, <1>5
  <2>3. QED
    BY <1>1, <1>4, <2>1, <2>2 DEF OpenOf, Open
<1>9. Dropped(r) \/ RunningOf(b, r, run'[r], calls[r], advice[r])
  <2>1. a.batch \cap a.ids \subseteq b.batch \cap b.ids
    BY <1>1, <1>2 DEF Shape
  <2>2. QED
    BY <1>1, <1>2, <1>5, <2>1, KeepsRunning
<1>10. QED
  BY <1>1, <1>2, <1>2a, <1>4, <1>5, <1>6, <1>7, <1>8, <1>9, QuietStep DEF b

LEMMA ReuseStep ==
  ASSUME AgentAssumption, RInv, NEW h \in Hosts, up[h] = "up", UNCHANGED hostVars,
         NEW r \in Runs, agent[h].run = r, NEW t \in Tools, Reuse(h, t)
  PROVE  RInv'
<1> DEFINE a == agent[h]
           b == agent'[h]
<1>1. /\ TypeOK /\ Typed(h, r) /\ a.pc = "serve"
      /\ Shape(a) /\ RowsOf(a, run[r], steps[r]) /\ CallsOf(a, calls[r])
      /\ Dropped(r) \/ OpenOf(a, r, run[r], steps[r])
      /\ Dropped(r) \/ RunningOf(a, r, run[r], calls[r], advice[r])
      /\ run[r] \in {"pending", "running", "blocked"}
  BY AtWork DEF Reuse, At
<1>2. /\ b \in Memory /\ b.pc = "serve" /\ b.step = a.step /\ b.run = r
      /\ b.iteration = a.iteration /\ b.batch = a.batch /\ b.ids = a.ids
  <2>1. agent \in [Hosts -> Memory] /\ a \in Memory /\ a.run = r /\ a.pc = "serve"
    BY <1>1 DEF TypeOK, AgentTypeOK
  <2>2. QED
    BY <2>1, Zero DEF Reuse, Memory, PCs
<1>2a. agent' = [agent EXCEPT ![h] = b]
  BY <1>1 DEF Reuse, TypeOK, AgentTypeOK
<1>3. /\ UNCHANGED <<run, steps, calls, lines, acted, dropped>>
      /\ run' = [run EXCEPT ![r] = run'[r]] /\ steps' = [steps EXCEPT ![r] = steps'[r]]
  BY <1>1, FrameOf DEF Reuse
<1> HIDE DEF a, b
<1>4. Shape(b) /\ CallsOf(b, calls[r]) /\ RowsOf(b, run'[r], steps'[r])
  BY <1>1, <1>2, <1>3 DEF Shape, CallsOf, RowsOf, Busy
<1>5. Dropped(r) \/ OpenOf(b, r, run'[r], steps'[r])
  BY <1>1, <1>2, <1>3 DEF OpenOf
<1>6. Dropped(r) \/ RunningOf(b, r, run'[r], calls[r], advice[r])
  BY <1>1, <1>2, <1>3, KeepsRunning
<1>7. QED
  BY <1>1, <1>2, <1>2a, <1>3, <1>4, <1>5, <1>6, QuietStep DEF b, Typed

LEMMA ReturnStep ==
  ASSUME AgentAssumption, RInv, NEW h \in Hosts, up[h] = "up", UNCHANGED hostVars,
         NEW r \in Runs, agent[h].run = r, Return(h)
  PROVE  RInv'
<1> DEFINE a == agent[h]
           b == agent'[h]
<1>1. /\ TypeOK /\ Typed(h, r) /\ a.pc = "exec"
      /\ Shape(a) /\ RowsOf(a, run[r], steps[r]) /\ CallsOf(a, calls[r])
      /\ Dropped(r) \/ OpenOf(a, r, run[r], steps[r])
      /\ Dropped(r) \/ RunningOf(a, r, run[r], calls[r], advice[r])
      /\ run[r] \in {"pending", "running", "blocked"}
  BY AtWork DEF Return, At
<1>2. /\ b \in Memory /\ b.pc = "report" /\ b.step = a.step /\ b.run = r
      /\ b.iteration = a.iteration /\ b.batch = a.batch /\ b.ids = a.ids
  <2>1. agent \in [Hosts -> Memory] /\ a \in Memory
    BY <1>1 DEF TypeOK, AgentTypeOK
  <2>2. QED
    BY <2>1, Zero DEF Return, Memory, PCs
<1>2a. agent' = [agent EXCEPT ![h] = b]
  BY <1>1 DEF Return, TypeOK, AgentTypeOK
<1>3. /\ UNCHANGED <<run, steps, calls, lines, acted, dropped>>
      /\ run' = [run EXCEPT ![r] = run'[r]] /\ steps' = [steps EXCEPT ![r] = steps'[r]]
  BY <1>1, FrameOf DEF Return
<1> HIDE DEF a, b
<1>4. Shape(b) /\ CallsOf(b, calls[r]) /\ RowsOf(b, run'[r], steps'[r])
  BY <1>1, <1>2, <1>3 DEF Shape, CallsOf, RowsOf, Busy
<1>5. Dropped(r) \/ OpenOf(b, r, run'[r], steps'[r])
  BY <1>1, <1>2, <1>3 DEF OpenOf
<1>6. Dropped(r) \/ RunningOf(b, r, run'[r], calls[r], advice[r])
  BY <1>1, <1>2, <1>3, KeepsRunning
<1>7. QED
  BY <1>1, <1>2, <1>2a, <1>3, <1>4, <1>5, <1>6, QuietStep DEF b, Typed

(* A request ends: _run_loop is left for the clauses that close the rows.     *)
LEMMA EndsOpen ==
  ASSUME AgentAssumption, RInv, NEW h \in Hosts, up[h] = "up", UNCHANGED hostVars,
         NEW r \in Runs, agent[h].run = r,
         NEW status \in {"completed", "failed", "cancelled", "interrupted"},
         End(h, status), UNCHANGED <<run, steps, calls, lines, acted, dropped>>,
         \/ agent[h].pc \in Busy \ {"step"}
         \/ agent[h].pc = "ask" /\ status \in {"failed", "cancelled"},
         \/ status \in {"failed", "cancelled"}
         \/ agent[h].pc = "loop"
  PROVE  RInv'
<1> DEFINE a == agent[h]
           b == agent'[h]
<1>1. /\ TypeOK /\ Typed(h, r) /\ a.pc # "closing"
      /\ Shape(a) /\ RowsOf(a, run[r], steps[r]) /\ CallsOf(a, calls[r])
      /\ Dropped(r) \/ OpenOf(a, r, run[r], steps[r])
      /\ Dropped(r) \/ RunningOf(a, r, run[r], calls[r], advice[r])
      /\ run[r] \in {"pending", "running", "blocked"}
  BY AtWork DEF Busy
<1>2. /\ agent' = [agent EXCEPT ![h] = Ended(h, status, a.step)]
      /\ a \in Memory /\ a.step \in 0 .. MaxSteps /\ Current(h) = r
  BY <1>1 DEF End, Typed, Memory, Current
<1>3. b = Ended(h, status, a.step) /\ agent' = [agent EXCEPT ![h] = b]
  BY <1>1, <1>2 DEF TypeOK, AgentTypeOK
<1> HIDE DEF b
<1>4. /\ b \in Memory /\ Shape(b)
      /\ b.pc = "closing" /\ b.run = r /\ b.step = a.step /\ b.end = status
      /\ b.batch = {} /\ b.ids = {}
      /\ status = "cancelled" => b.open = {t \in Tools : calls[r][t] \in {"pending", "running"}}
  BY <1>2, <1>3, EndedFacts
<1>5. run' = [run EXCEPT ![r] = run'[r]] /\ steps' = [steps EXCEPT ![r] = steps'[r]]
  BY <1>1, FrameOf
<1> HIDE DEF a
<1>6. CallsOf(b, calls[r]) /\ RowsOf(b, run[r], steps[r])
  <2>1. a.pc \in Busy \ {"step"} \/ (a.pc = "ask" /\ status \in {"failed", "cancelled"})
    BY DEF a
  <2>2. QED
    BY <1>1, <1>4, <2>1 DEF CallsOf, RowsOf, Busy, Shape
<1>7. Dropped(r) \/ OpenOf(b, r, run[r], steps[r])
  BY <1>1, <1>4 DEF OpenOf
<1>8. Dropped(r) \/ RunningOf(b, r, run[r], calls[r], advice[r])
  <2>1. \/ b.end = "failed"
        \/ a.batch = {}
        \/ b.open = {t \in Tools : calls[r][t] \in {"pending", "running"}}
    BY <1>1, <1>4 DEF Shape, a
  <2>2. QED
    BY <1>1, <1>4, <2>1, EndKeepsRunning
<1>9. QED
  BY <1>1, <1>3, <1>4, <1>5, <1>6, <1>7, <1>8, QuietStep DEF b, Typed

LEMMA FailStep ==
  ASSUME AgentAssumption, RInv, NEW h \in Hosts, up[h] = "up", UNCHANGED hostVars,
         NEW r \in Runs, agent[h].run = r, Fail(h)
  PROVE  RInv'
<1>1. agent[h].pc \in {"loop", "stream", "ask", "report", "turn"}
  BY DEF Fail, Awaits, At
<1>2. QED
  BY <1>1, EndsOpen DEF Fail, Busy

LEMMA CancelStep ==
  ASSUME AgentAssumption, RInv, NEW h \in Hosts, up[h] = "up", UNCHANGED hostVars,
         NEW r \in Runs, agent[h].run = r, Cancel(h)
  PROVE  RInv'
<1>1. agent[h].pc \in {"loop", "stream", "ask", "report", "turn", "exec"}
  BY DEF Cancel, Awaits, At
<1>2. QED
  BY <1>1, EndsOpen DEF Cancel, Busy

LEMMA IterationLimitStep ==
  ASSUME AgentAssumption, RInv, NEW h \in Hosts, up[h] = "up", UNCHANGED hostVars,
         NEW r \in Runs, agent[h].run = r, IterationLimit(h)
  PROVE  RInv'
<1>1. agent[h].pc = "loop"
  BY DEF IterationLimit, At
<1>2. QED
  BY <1>1, EndsOpen DEF IterationLimit, Busy

(* The guards of the loop close the step themselves. *)
LEMMA EndsClosed ==
  ASSUME AgentAssumption, RInv, NEW h \in Hosts, up[h] = "up", UNCHANGED hostVars,
         NEW r \in Runs, agent[h].run = r,
         WriteStep(h, "failed"), agent' = [agent EXCEPT ![h] = Ended(h, "interrupted", 0)],
         UNCHANGED <<run, calls, lines, acted, dropped>>,
         agent[h].pc \in {"stream", "serve"}
  PROVE  RInv'
<1> DEFINE a == agent[h]
           b == agent'[h]
<1>1. /\ TypeOK /\ Typed(h, r) /\ a.pc \in {"stream", "serve"}
      /\ Shape(a) /\ RowsOf(a, run[r], steps[r]) /\ CallsOf(a, calls[r])
      /\ Dropped(r) \/ OpenOf(a, r, run[r], steps[r])
      /\ Dropped(r) \/ RunningOf(a, r, run[r], calls[r], advice[r])
      /\ run[r] \in {"pending", "running", "blocked"}
  BY AtWork
<1>2. a \in Memory /\ Current(h) = r /\ b = Ended(h, "interrupted", 0)
  BY <1>1 DEF Typed, Current, TypeOK, AgentTypeOK
<1>3. agent' = [agent EXCEPT ![h] = b]
  BY <1>1, <1>2
<1> HIDE DEF b
<1>4. /\ b \in Memory /\ Shape(b)
      /\ b.pc = "closing" /\ b.run = r /\ b.step = 0 /\ b.end = "interrupted"
      /\ b.batch = {} /\ b.ids = {}
  BY <1>2, EndedFacts, Zero
<1>5. StepWritten(h, r, "failed")
  <2>1. "failed" \in DOMAIN STEP_TRANSITIONS /\ a.step <= Len(steps[r])
    BY <1>1, Domains DEF RowsOf
  <2>2. QED
    BY <1>1, <2>1, WriteStepValues
<1>5a. a.step # 0 => steps'[r][a.step] = "failed"
  BY <1>1, <1>5, Transitions DEF StepWritten, RowsOf
<1>6. run' = [run EXCEPT ![r] = run'[r]]
  BY <1>1, FrameOf
<1>7. CallsOf(b, calls[r]) /\ RowsOf(b, run[r], steps'[r])
  BY <1>1, <1>4, <1>5 DEF CallsOf, RowsOf, Busy, StepWritten
<1>8. Dropped(r) \/ OpenOf(b, r, run[r], steps'[r])
  BY <1>1, <1>4, <1>5, <1>5a, OpenAfterWrite DEF StepWritten
<1>9. Dropped(r) \/ RunningOf(b, r, run[r], calls[r], advice[r])
  <2>1. a.batch = {} /\ a.pc # "closing"
    BY <1>1 DEF Shape
  <2>2. QED
    BY <1>1, <1>4, <2>1, EndKeepsRunning
<1>10. QED
  BY <1>1, <1>3, <1>4, <1>5, <1>6, <1>7, <1>8, <1>9, QuietStep DEF b, StepWritten

LEMMA LoopGuardStep ==
  ASSUME AgentAssumption, RInv, NEW h \in Hosts, up[h] = "up", UNCHANGED hostVars,
         NEW r \in Runs, agent[h].run = r, LoopGuard(h)
  PROVE  RInv'
  BY EndsClosed DEF LoopGuard, At

LEMMA UnknownToolsStep ==
  ASSUME AgentAssumption, RInv, NEW h \in Hosts, up[h] = "up", UNCHANGED hostVars,
         NEW r \in Runs, agent[h].run = r, UnknownTools(h)
  PROVE  RInv'
  BY EndsClosed DEF UnknownTools, At

(* _finish_control_step of the end of a request. *)
LEMMA CloseStepStep ==
  ASSUME AgentAssumption, RInv, NEW h \in Hosts, up[h] = "up", UNCHANGED hostVars,
         NEW r \in Runs, agent[h].run = r, CloseStep(h)
  PROVE  RInv'
<1> DEFINE a == agent[h]
           b == agent'[h]
<1>1. /\ TypeOK /\ Typed(h, r) /\ a.pc = "closing" /\ a.step # 0
      /\ Shape(a) /\ RowsOf(a, run[r], steps[r]) /\ CallsOf(a, calls[r])
      /\ Dropped(r) \/ OpenOf(a, r, run[r], steps[r])
      /\ Dropped(r) \/ RunningOf(a, r, run[r], calls[r], advice[r])
      /\ run[r] \in {"pending", "running", "blocked"}
  BY AtWork DEF CloseStep, At
<1>2. /\ b \in Memory /\ b.pc = "closing" /\ b.step = 0 /\ b.run = r
      /\ b.batch = a.batch /\ b.ids = a.ids /\ b.end = a.end /\ b.open = a.open
  <2>1. agent \in [Hosts -> Memory] /\ a \in Memory /\ a.run = r /\ a.pc = "closing"
    BY <1>1 DEF TypeOK, AgentTypeOK
  <2>2. QED
    BY <2>1, Zero DEF CloseStep, Memory, PCs
<1>2a. agent' = [agent EXCEPT ![h] = b]
  BY <1>1 DEF CloseStep, TypeOK, AgentTypeOK
<1>3. a.end \in {"completed", "failed", "cancelled", "interrupted"}
  BY <1>1 DEF Typed, Memory
<1>3a. StepWritten(h, r, a.end)
  <2>1. a.end \in DOMAIN STEP_TRANSITIONS
    BY <1>3, Domains
  <2>2. WriteStep(h, a.end) /\ a.step <= Len(steps[r])
    BY <1>1 DEF RowsOf, CloseStep
  <2>3. QED
    BY <1>1, <2>1, <2>2, WriteStepValues
<1>3b. steps'[r][a.step] = a.end
  <2>1. \/ steps[r][a.step] = "running"
        \/ steps[r][a.step] = "blocked" /\ a.end \in {"failed", "cancelled"}
    BY <1>1 DEF RowsOf
  <2>2. Attempt(STEP_TRANSITIONS, steps[r][a.step], a.end) = a.end
    BY <1>3, <2>1, Transitions
  <2>3. QED
    BY <1>1, <1>3a, <2>2 DEF StepWritten
<1>4. UNCHANGED <<run, calls, lines, acted, dropped>> /\ run' = [run EXCEPT ![r] = run'[r]]
  BY <1>1, FrameOf DEF CloseStep
<1>5. Shape(b) /\ CallsOf(b, calls[r]) /\ RowsOf(b, run[r], steps'[r])
  BY <1>1, <1>2, <1>3a DEF Shape, CallsOf, RowsOf, Busy, StepWritten
<1>6. Dropped(r) \/ OpenOf(b, r, run[r], steps'[r])
  <2>1. a.end \notin {"pending", "running", "blocked"}
    BY <1>3
  <2>2. QED
    BY <1>1, <1>2, <1>3a, <1>3b, <2>1 DEF StepWritten, OpenOf, Open
<1>7. Dropped(r) \/ RunningOf(b, r, run[r], calls[r], advice[r])
  BY <1>1, <1>2, KeepsRunning
<1>8. QED
  BY <1>1, <1>2, <1>2a, <1>3a, <1>4, <1>5, <1>6, <1>7, QuietStep DEF StepWritten

-----------------------------------------------------------------------------
(* Calls are written by an agent that stays in the same request. *)
LEMMA CallsStep ==
  ASSUME AgentAssumption, RInv, NEW h \in Hosts, up[h] = "up", UNCHANGED hostVars,
         NEW r \in Runs, agent[h].run = r,
         UNCHANGED <<run, steps, lines, dropped>>,
         agent' = [agent EXCEPT ![h] = agent'[h]],
         calls' = [calls EXCEPT ![r] = calls'[r]],
         acted' = [acted EXCEPT ![r] = acted'[r]],
         agent'[h] \in Memory, agent'[h].run = r,
         agent'[h].step = agent[h].step, agent'[h].iteration = agent[h].iteration,
         \/ {agent[h].pc, agent'[h].pc} \subseteq {"stream", "serve", "exec", "report"}
         \/ agent[h].pc = "closing" /\ agent'[h].pc = "closing" /\ agent'[h].end = agent[h].end,
         calls'[r] \in [Tools -> DOMAIN TOOL_CALL_TRANSITIONS \cup {"absent"}],
         acted'[r] \subseteq Tools,
         Shape(agent'[h]),
         CallsOf(agent'[h], calls'[r]),
         Dropped(r) \/ RunningOf(agent'[h], r, run[r], calls'[r], advice[r]),
         ActedOf(calls'[r], acted'[r], advice[r])
  PROVE  RInv'
<1> DEFINE a == agent[h]
           b == agent'[h]
<1>1. /\ TypeOK /\ Typed(h, r) /\ Fits(h, r)
      /\ LinesOf(a, r, lines[r]) /\ RowsOf(a, run[r], steps[r])
      /\ Dropped(r) \/ OpenOf(a, r, run[r], steps[r])
  BY AtWork
<1>2. Frame(h, r)
  BY <1>1, FrameOf DEF Frame
<1>3. Typed(h, r)'
  BY <1>1 DEF Typed
<1>4. Dropped(r)' = Dropped(r) /\ UNCHANGED advice
  BY DEF Dropped, hostVars
<1>5. b.pc # "results" /\ b.pc # "idle"
  OBVIOUS
<1>6. LinesOf(b, r, lines[r])
  BY <1>1, <1>5 DEF LinesOf
<1>7. RowsOf(b, run[r], steps[r])
  BY <1>1 DEF RowsOf, Busy
<1>8. Dropped(r) \/ OpenOf(b, r, run[r], steps[r])
  BY <1>1 DEF OpenOf
<1>9. Fits(h, r)'
  BY <1>1, <1>4, <1>6, <1>7, <1>8 DEF Fits
<1>10. QED
  BY <1>2, <1>3, <1>9, AgentEffect

(* The calls of r after _transition_control_tool. *)
LEMMA CallsWritten ==
  ASSUME TypeOK, NEW h \in Hosts, NEW r \in Runs, agent[h].run = r,
         NEW ts, NEW target \in DOMAIN TOOL_CALL_TRANSITIONS, WriteCalls(h, ts, target)
  PROVE  /\ calls' = [calls EXCEPT ![r] = calls'[r]]
         /\ calls'[r] \in [Tools -> DOMAIN TOOL_CALL_TRANSITIONS \cup {"absent"}]
         /\ \A t \in Tools : calls'[r][t] = IF t \in ts \cap agent[h].ids
                                             THEN ControlTool(calls[r][t], target)
                                             ELSE calls[r][t]
<1> DEFINE D == DOMAIN TOOL_CALL_TRANSITIONS \cup {"absent"}
           cs == [t \in Tools |-> IF t \in ts \cap agent[h].ids
                                  THEN ControlTool(calls[r][t], target) ELSE calls[r][t]]
<1>1. calls \in [Runs -> [Tools -> D]] /\ calls[r] \in [Tools -> D]
  BY DEF TypeOK, AgentTypeOK
<1>2. calls' = [calls EXCEPT ![r] = cs]
  BY <1>1 DEF WriteCalls, Current
<1>3. \A t \in Tools : ControlTool(calls[r][t], target) \in D
  BY <1>1 DEF ControlTool, Attempt
<1> HIDE DEF D
<1>4. cs \in [Tools -> D]
  BY <1>1, <1>3
<1>5. calls'[r] = cs
  BY <1>1, <1>2
<1>6. QED
  BY <1>2, <1>4, <1>5 DEF D

LEMMA RespondStep ==
  ASSUME AgentAssumption, RInv, NEW h \in Hosts, up[h] = "up", UNCHANGED hostVars,
         NEW r \in Runs, agent[h].run = r, NEW ts \in SUBSET Tools, Respond(h, ts)
  PROVE  RInv'
<1> DEFINE a == agent[h]
           b == agent'[h]
           new == {t \in ts : calls[r][t] = "absent"}
           D == DOMAIN TOOL_CALL_TRANSITIONS \cup {"absent"}
           cs == [t \in Tools |-> IF t \in new THEN "pending" ELSE calls[r][t]]
<1>1. /\ TypeOK /\ Typed(h, r) /\ a.pc = "stream"
      /\ Shape(a) /\ CallsOf(a, calls[r])
      /\ Dropped(r) \/ RunningOf(a, r, run[r], calls[r], advice[r])
      /\ ActedOf(calls[r], acted[r], advice[r])
      /\ run[r] \in {"pending", "running", "blocked"}
  BY AtWork DEF Respond, At
<1>2. PICK same \in SUBSET (ts \ (new \cup a.ids)) :
        agent' = [agent EXCEPT ![h].pc = "serve", ![h].todo = ts, ![h].turn = ts,
                               ![h].ids = @ \cup new \cup same]
  BY DEF Respond, Current
<1>3. a.ids \cup new \cup same \subseteq Tools
  BY <1>1 DEF Typed, Memory
<1>4. /\ b.pc = "serve" /\ b.ids = a.ids \cup new \cup same
      /\ b.run = r /\ b.step = a.step /\ b.iteration = a.iteration /\ b.batch = {}
      /\ agent' = [agent EXCEPT ![h] = b] /\ b \in Memory
  <2> DEFINE A1 == [agent EXCEPT ![h].pc = "serve"]
               A2 == [A1 EXCEPT ![h].todo = ts]
               A3 == [A2 EXCEPT ![h].turn = ts]
               A4 == [A3 EXCEPT ![h].ids = @ \cup new \cup same]
  <2>1. agent' = A4
    BY <1>2, Zenon
  <2>2. agent \in [Hosts -> Memory] /\ a \in Memory
    BY <1>1 DEF TypeOK, AgentTypeOK
  <2>3. /\ A1 \in [Hosts -> Memory]
        /\ \A g \in Hosts : g # h => A1[g] = agent[g]
        /\ A1[h].run = a.run /\ A1[h].step = a.step /\ A1[h].iteration = a.iteration
        /\ A1[h].ids = a.ids /\ A1[h].batch = a.batch /\ A1[h].pc = "serve" /\ A1[h].todo = a.todo
    BY <2>2 DEF Memory, PCs
  <2> HIDE DEF A1
  <2>4. /\ A2 \in [Hosts -> Memory]
        /\ \A g \in Hosts : g # h => A2[g] = agent[g]
        /\ A2[h].run = a.run /\ A2[h].step = a.step /\ A2[h].iteration = a.iteration
        /\ A2[h].ids = a.ids /\ A2[h].batch = a.batch /\ A2[h].pc = "serve"
    BY <1>3, <2>3 DEF Memory
  <2> HIDE DEF A2
  <2>5. /\ A3 \in [Hosts -> Memory]
        /\ \A g \in Hosts : g # h => A3[g] = agent[g]
        /\ A3[h].run = a.run /\ A3[h].step = a.step /\ A3[h].iteration = a.iteration
        /\ A3[h].ids = a.ids /\ A3[h].batch = a.batch /\ A3[h].pc = "serve"
    BY <1>3, <2>4 DEF Memory
  <2> HIDE DEF A3
  <2>6. /\ A4 \in [Hosts -> Memory]
        /\ \A g \in Hosts : g # h => A4[g] = agent[g]
        /\ A4[h].run = a.run /\ A4[h].step = a.step /\ A4[h].iteration = a.iteration
        /\ A4[h].ids = a.ids \cup new \cup same /\ A4[h].batch = a.batch /\ A4[h].pc = "serve"
    BY <1>3, <2>5 DEF Memory
  <2> HIDE DEF A4
  <2>7. QED
    BY <1>1, <2>1, <2>2, <2>6 DEF Shape
<1>6. /\ calls' = [calls EXCEPT ![r] = calls'[r]]
      /\ calls'[r] = cs
  BY <1>1 DEF Respond, Current, TypeOK, AgentTypeOK
<1>7. cs \in [Tools -> D] /\ \A t \in Tools : cs[t] = IF t \in new THEN "pending" ELSE calls[r][t]
  BY <1>1, Domains DEF Typed
<1>8. \A t \in new : calls[r][t] = "absent" /\ t \in ts
  OBVIOUS
<1>9. \A t \in same : calls[r][t] # "absent"
  OBVIOUS
<1>10. UNCHANGED <<run, steps, lines, acted, dropped>> /\ acted' = [acted EXCEPT ![r] = acted'[r]]
  BY <1>1, FrameOf DEF Respond
<1> HIDE DEF a, b, cs, new
<1>11. Shape(b) /\ CallsOf(b, cs)
  <2>1. \A t \in b.ids : t \in Tools
    BY <1>3, <1>4
  <2>2. QED
    BY <1>1, <1>4, <1>7, <1>9, <2>1 DEF Shape, CallsOf
<1>12. Dropped(r) \/ RunningOf(b, r, run[r], cs, advice[r])
  <2>1. a.batch = {} /\ \A t \in Tools : cs[t] = "running" => calls[r][t] = "running"
    BY <1>1, <1>7 DEF Shape
  <2>2. QED
    BY <1>1, <1>4, <2>1 DEF RunningOf, InBatch, Open
<1>13. ActedOf(cs, acted[r], advice[r])
  BY <1>1, <1>7, <1>8 DEF ActedOf
<1>14. QED
  BY <1>1, <1>4, <1>6, <1>7, <1>10, <1>11, <1>12, <1>13, CallsStep DEF a, b, D, Typed

LEMMA WithholdStep ==
  ASSUME AgentAssumption, RInv, NEW h \in Hosts, up[h] = "up", UNCHANGED hostVars,
         NEW r \in Runs, agent[h].run = r, NEW t \in Tools, Withhold(h, t)
  PROVE  RInv'
<1> DEFINE a == agent[h]
           b == agent'[h]
           cs == calls'[r]
<1>1. /\ TypeOK /\ Typed(h, r) /\ a.pc = "serve"
      /\ Shape(a) /\ CallsOf(a, calls[r])
      /\ Dropped(r) \/ RunningOf(a, r, run[r], calls[r], advice[r])
      /\ ActedOf(calls[r], acted[r], advice[r])
      /\ run[r] \in {"pending", "running", "blocked"}
  BY AtWork DEF Withhold, At
<1>2. /\ t \in a.ids /\ calls[r][t] = "uncertain"
      /\ WriteCalls(h, {t}, "running")
  BY DEF Withhold, Withheld, Registered, Current
<1>3. /\ b.pc = "report" /\ b.ids = a.ids /\ b.batch = {t}
      /\ b.run = r /\ b.step = a.step /\ b.iteration = a.iteration
      /\ agent' = [agent EXCEPT ![h] = b] /\ b \in Memory
  <2> DEFINE A1 == [agent EXCEPT ![h].pc = "report"]
               A2 == [A1 EXCEPT ![h].todo = @ \ {t}]
               A3 == [A2 EXCEPT ![h].batch = {t}]
               A4 == [A3 EXCEPT ![h].did = {}]
               A5 == [A4 EXCEPT ![h].mode = "held"]
  <2>1. agent' = A5
    BY DEF Withhold
  <2>2. agent \in [Hosts -> Memory] /\ a \in Memory
    BY <1>1 DEF TypeOK, AgentTypeOK
  <2>3. /\ A1 \in [Hosts -> Memory]
        /\ \A g \in Hosts : g # h => A1[g] = agent[g]
        /\ A1[h].run = a.run /\ A1[h].step = a.step /\ A1[h].iteration = a.iteration
        /\ A1[h].ids = a.ids /\ A1[h].batch = a.batch /\ A1[h].pc = "report" /\ A1[h].todo = a.todo
    BY <2>2 DEF Memory, PCs
  <2> HIDE DEF A1
  <2>4. /\ A2 \in [Hosts -> Memory]
        /\ \A g \in Hosts : g # h => A2[g] = agent[g]
        /\ A2[h].run = a.run /\ A2[h].step = a.step /\ A2[h].iteration = a.iteration
        /\ A2[h].ids = a.ids /\ A2[h].batch = a.batch /\ A2[h].pc = "report"
    BY Zero, <2>3 DEF Memory
  <2> HIDE DEF A2
  <2>5. /\ A3 \in [Hosts -> Memory]
        /\ \A g \in Hosts : g # h => A3[g] = agent[g]
        /\ A3[h].run = a.run /\ A3[h].step = a.step /\ A3[h].iteration = a.iteration
        /\ A3[h].ids = a.ids /\ A3[h].batch = {t} /\ A3[h].pc = "report"
    BY Zero, <2>4 DEF Memory
  <2> HIDE DEF A3
  <2>6. /\ A4 \in [Hosts -> Memory]
        /\ \A g \in Hosts : g # h => A4[g] = agent[g]
        /\ A4[h].run = a.run /\ A4[h].step = a.step /\ A4[h].iteration = a.iteration
        /\ A4[h].ids = a.ids /\ A4[h].batch = {t} /\ A4[h].pc = "report"
    BY Zero, <2>5 DEF Memory
  <2> HIDE DEF A4
  <2>7. /\ A5 \in [Hosts -> Memory]
        /\ \A g \in Hosts : g # h => A5[g] = agent[g]
        /\ A5[h].run = a.run /\ A5[h].step = a.step /\ A5[h].iteration = a.iteration
        /\ A5[h].ids = a.ids /\ A5[h].batch = {t} /\ A5[h].pc = "report"
    BY Zero, <2>6 DEF Memory
  <2> HIDE DEF A5
  <2>8. QED
    BY <1>1, <2>1, <2>2, <2>7 DEF Shape
<1>5. /\ calls' = [calls EXCEPT ![r] = calls'[r]]
      /\ cs \in [Tools -> DOMAIN TOOL_CALL_TRANSITIONS \cup {"absent"}]
      /\ \A u \in Tools : cs[u] = IF u \in {t} \cap a.ids
                                  THEN ControlTool(calls[r][u], "running") ELSE calls[r][u]
  BY <1>1, <1>2, CallsWritten, Domains
<1>6. cs[t] = "running" /\ \A u \in Tools \ {t} : cs[u] = calls[r][u]
  BY <1>2, <1>5, CallTransitions
<1>7. UNCHANGED <<run, steps, lines, acted, dropped>> /\ acted' = [acted EXCEPT ![r] = acted'[r]]
  BY <1>1, FrameOf DEF Withhold
<1>8. a.ids \subseteq Tools
  BY <1>1 DEF Typed, Memory
<1> HIDE DEF a, b, cs
<1>9. Shape(b) /\ CallsOf(b, cs)
  BY <1>1, <1>3, <1>6, <1>8 DEF Shape, CallsOf
<1>10. Dropped(r) \/ RunningOf(b, r, run[r], cs, advice[r])
  <2>1. a.batch = {}
    BY <1>1 DEF Shape
  <2>2. QED
    BY <1>1, <1>2, <1>3, <1>6, <2>1 DEF RunningOf, InBatch, Open
<1>11. ActedOf(cs, acted[r], advice[r])
  BY <1>1, <1>6 DEF ActedOf
<1>12. QED
  BY <1>1, <1>3, <1>5, <1>7, <1>9, <1>10, <1>11, CallsStep DEF a, b, cs, Typed

LEMMA LaunchStep ==
  ASSUME AgentAssumption, RInv, NEW h \in Hosts, up[h] = "up", UNCHANGED hostVars,
         NEW r \in Runs, agent[h].run = r, NEW ts \in SUBSET Tools, Launch(h, ts)
  PROVE  RInv'
<1> DEFINE a == agent[h]
           b == agent'[h]
           cs == calls'[r]
<1>1. /\ TypeOK /\ Typed(h, r) /\ a.pc = "serve"
      /\ Shape(a) /\ CallsOf(a, calls[r])
      /\ Dropped(r) \/ RunningOf(a, r, run[r], calls[r], advice[r])
      /\ ActedOf(calls[r], acted[r], advice[r])
      /\ run[r] \in {"pending", "running", "blocked"}
  BY AtWork DEF Launch, At
<1>2. WriteCalls(h, ts, "running") /\ \A t \in ts \cap a.ids : calls[r][t] # "completed"
  BY DEF Launch, HasResult, Registered, Current
<1>3. /\ b.pc = "exec" /\ b.ids = a.ids /\ b.batch = ts
      /\ b.run = r /\ b.step = a.step /\ b.iteration = a.iteration
      /\ agent' = [agent EXCEPT ![h] = b]
      /\ b \in Memory
  <2> DEFINE A1 == [agent EXCEPT ![h].pc = "exec"]
               A2 == [A1 EXCEPT ![h].todo = @ \ ts]
               A3 == [A2 EXCEPT ![h].batch = ts]
               A4 == [A3 EXCEPT ![h].did = {}]
               A5 == [A4 EXCEPT ![h].mode = IF Cardinality(ts) = 1 THEN "free" ELSE "batch"]
  <2>1. agent' = A5
    BY DEF Launch
  <2>2. agent \in [Hosts -> Memory] /\ a \in Memory
    BY <1>1 DEF TypeOK, AgentTypeOK
  <2>3. /\ A1 \in [Hosts -> Memory]
        /\ \A g \in Hosts : g # h => A1[g] = agent[g]
        /\ A1[h].run = a.run /\ A1[h].step = a.step /\ A1[h].iteration = a.iteration
        /\ A1[h].ids = a.ids /\ A1[h].batch = a.batch /\ A1[h].pc = "exec" /\ A1[h].todo = a.todo
    BY <2>2 DEF Memory, PCs
  <2> HIDE DEF A1
  <2>4. /\ A2 \in [Hosts -> Memory]
        /\ \A g \in Hosts : g # h => A2[g] = agent[g]
        /\ A2[h].run = a.run /\ A2[h].step = a.step /\ A2[h].iteration = a.iteration
        /\ A2[h].ids = a.ids /\ A2[h].batch = a.batch /\ A2[h].pc = "exec"
    BY Zero, <2>3 DEF Memory
  <2> HIDE DEF A2
  <2>5. /\ A3 \in [Hosts -> Memory]
        /\ \A g \in Hosts : g # h => A3[g] = agent[g]
        /\ A3[h].run = a.run /\ A3[h].step = a.step /\ A3[h].iteration = a.iteration
        /\ A3[h].ids = a.ids /\ A3[h].batch = ts /\ A3[h].pc = "exec"
    BY Zero, <2>4 DEF Memory
  <2> HIDE DEF A3
  <2>6. /\ A4 \in [Hosts -> Memory]
        /\ \A g \in Hosts : g # h => A4[g] = agent[g]
        /\ A4[h].run = a.run /\ A4[h].step = a.step /\ A4[h].iteration = a.iteration
        /\ A4[h].ids = a.ids /\ A4[h].batch = ts /\ A4[h].pc = "exec"
    BY Zero, <2>5 DEF Memory
  <2> HIDE DEF A4
  <2>7. /\ A5 \in [Hosts -> Memory]
        /\ \A g \in Hosts : g # h => A5[g] = agent[g]
        /\ A5[h].run = a.run /\ A5[h].step = a.step /\ A5[h].iteration = a.iteration
        /\ A5[h].ids = a.ids /\ A5[h].batch = ts /\ A5[h].pc = "exec"
    BY Zero, <2>6 DEF Memory
  <2> HIDE DEF A5
  <2>8. QED
    BY <1>1, <2>1, <2>2, <2>7 DEF Shape
<1>4. /\ calls' = [calls EXCEPT ![r] = calls'[r]]
      /\ cs \in [Tools -> DOMAIN TOOL_CALL_TRANSITIONS \cup {"absent"}]
      /\ \A u \in Tools : cs[u] = IF u \in ts \cap a.ids
                                  THEN ControlTool(calls[r][u], "running") ELSE calls[r][u]
  BY <1>1, <1>2, CallsWritten, Domains
<1>5. a.ids \subseteq Tools /\ calls[r] \in [Tools -> DOMAIN TOOL_CALL_TRANSITIONS \cup {"absent"}]
  BY <1>1 DEF Typed, Memory
<1>6. \A t \in ts \cap a.ids : cs[t] \in {"running", "failed", "cancelled", "denied"}
  <2> SUFFICES ASSUME NEW t \in ts \cap a.ids
               PROVE  cs[t] \in {"running", "failed", "cancelled", "denied"}
    OBVIOUS
  <2>1. t \in Tools /\ cs[t] = ControlTool(calls[r][t], "running")
    BY <1>4, <1>5
  <2>2. calls[r][t] \in {"pending", "running", "uncertain", "failed", "cancelled", "denied"}
    BY <1>1, <1>2, <1>5, <2>1, Domains DEF CallsOf
  <2>3. QED
    BY <2>1, <2>2, CallTransitions DEF Settled
<1>7. \A t \in Tools : t \notin ts \cap a.ids => cs[t] = calls[r][t]
  BY <1>4
<1>8. UNCHANGED <<run, steps, lines, acted, dropped>> /\ acted' = [acted EXCEPT ![r] = acted'[r]]
  BY <1>1, FrameOf DEF Launch
<1> HIDE DEF a, b, cs
<1>9. Shape(b) /\ CallsOf(b, cs)
  <2>1. \A t \in a.ids : cs[t] # "absent"
    BY <1>1, <1>5, <1>6, <1>7 DEF CallsOf
  <2>2. QED
    BY <1>3, <1>6, <2>1 DEF Shape, CallsOf
<1>10. Dropped(r) \/ RunningOf(b, r, run[r], cs, advice[r])
  <2>1. a.batch = {}
    BY <1>1 DEF Shape
  <2>2. QED
    BY <1>1, <1>3, <1>7, <2>1 DEF RunningOf, InBatch, Open
<1>11. ActedOf(cs, acted[r], advice[r])
  <2>1. \A t \in Tools : cs[t] \in {"absent", "pending", "uncertain"} => cs[t] = calls[r][t]
    BY <1>6, <1>7
  <2>2. QED
    BY <1>1, <2>1 DEF ActedOf
<1>12. QED
  BY <1>1, <1>3, <1>4, <1>8, <1>9, <1>10, <1>11, CallsStep DEF a, b, cs, Typed

LEMMA ReportStep ==
  ASSUME AgentAssumption, RInv, NEW h \in Hosts, up[h] = "up", UNCHANGED hostVars,
         NEW r \in Runs, agent[h].run = r, NEW t \in Tools, Report(h, t)
  PROVE  RInv'
<1> DEFINE a == agent[h]
           b == agent'[h]
           cs == calls'[r]
<1>1. /\ TypeOK /\ Typed(h, r) /\ a.pc = "report" /\ t \in a.batch
      /\ Shape(a) /\ CallsOf(a, calls[r])
      /\ Dropped(r) \/ RunningOf(a, r, run[r], calls[r], advice[r])
      /\ ActedOf(calls[r], acted[r], advice[r])
      /\ run[r] \in {"pending", "running", "blocked"}
  BY AtWork DEF Report, At
<1>2. PICK status \in {"completed", "failed", "denied"} : WriteCalls(h, {t}, status)
  <2>1. Outcomes(h, t) \subseteq {"completed", "failed", "denied"}
    BY DEF Outcomes
  <2>2. QED
    BY <2>1 DEF Report
<1>3. /\ b.ids = a.ids /\ b.run = r /\ b.step = a.step /\ b.iteration = a.iteration
      /\ b.batch = a.batch \ {t}
      /\ b.pc \in {"report", "serve"} /\ (b.pc = "serve" => b.batch = {})
      /\ agent' = [agent EXCEPT ![h] = b]
      /\ b \in Memory
  <2>1. CASE a.batch = {t}
    <3>1. b = [a EXCEPT !.pc = "serve", !.batch = {}, !.did = {}, !.mode = "free"]
      BY <1>1, <2>1 DEF Report, TypeOK, AgentTypeOK
    <3>2. agent' = [agent EXCEPT ![h] = b]
      BY <1>1, <2>1, <3>1 DEF Report
    <3>3. b \in Memory
      BY <1>1, <3>1, Zero DEF Typed, Memory, PCs
    <3>4. QED
      BY <1>1, <2>1, <3>1, <3>2, <3>3 DEF Typed, Memory
  <2>2. CASE a.batch # {t}
    <3>0. agent' = [agent EXCEPT ![h] = [a EXCEPT !.batch = a.batch \ {t}]]
      BY <2>2 DEF Report
    <3>1. b = [a EXCEPT !.batch = a.batch \ {t}]
      BY <1>1, <3>0 DEF TypeOK, AgentTypeOK
    <3>2. agent' = [agent EXCEPT ![h] = b]
      BY <3>0, <3>1
    <3>3. PICK rest \in SUBSET Tools : rest = a.batch \ {t}
      BY <1>1 DEF Typed, Memory
    <3>4. b \in Memory
      <4>1. PICK m \in Memory : m = a
        BY <1>1 DEF Typed
      <4>2. [m EXCEPT !.batch = rest] \in Memory
        BY DEF Memory
      <4> QED BY <3>1, <3>3, <4>1, <4>2, Zenon
    <3>5. QED
      BY <1>1, <3>1, <3>2, <3>4 DEF Typed, Memory
  <2>3. QED
    BY <2>1, <2>2
<1>4. /\ calls' = [calls EXCEPT ![r] = calls'[r]]
      /\ cs \in [Tools -> DOMAIN TOOL_CALL_TRANSITIONS \cup {"absent"}]
      /\ \A u \in Tools : cs[u] = IF u \in {t} \cap a.ids
                                  THEN ControlTool(calls[r][u], status) ELSE calls[r][u]
  BY <1>1, <1>2, CallsWritten, Domains
<1>5. \A u \in Tools : u # t \/ u \notin a.ids => cs[u] = calls[r][u]
  BY <1>4
<1>6. t \in a.ids => cs[t] \in Settled
  <2>1. SUFFICES ASSUME t \in a.ids
                 PROVE  cs[t] \in Settled
    OBVIOUS
  <2>2. calls[r][t] \in {"running", "failed", "cancelled", "denied"}
    BY <1>1, <2>1 DEF CallsOf
  <2>3. cs[t] = ControlTool(calls[r][t], status)
    BY <1>4, <2>1
  <2>4. QED
    BY <1>2, <2>2, <2>3, CallTransitions DEF Settled
<1>7. UNCHANGED <<run, steps, lines, acted, dropped>> /\ acted' = [acted EXCEPT ![r] = acted'[r]]
  BY <1>1, FrameOf DEF Report
<1>8. a.ids \subseteq Tools
  BY <1>1 DEF Typed, Memory
<1> HIDE DEF a, b, cs
<1>9. Shape(b) /\ CallsOf(b, cs)
  BY <1>1, <1>3, <1>5, <1>6, <1>8 DEF Shape, CallsOf, Settled
<1>10. Dropped(r) \/ RunningOf(b, r, run[r], cs, advice[r])
  BY <1>1, <1>3, <1>5, <1>6 DEF RunningOf, InBatch, Open, Settled
<1>11. ActedOf(cs, acted[r], advice[r])
  BY <1>1, <1>5, <1>6 DEF ActedOf, Settled
<1>12. QED
  BY <1>1, <1>3, <1>4, <1>7, <1>9, <1>10, <1>11, CallsStep DEF a, b, cs, Typed

LEMMA CancelCallStep ==
  ASSUME AgentAssumption, RInv, NEW h \in Hosts, up[h] = "up", UNCHANGED hostVars,
         NEW r \in Runs, agent[h].run = r, NEW t \in Tools, CancelCall(h, t)
  PROVE  RInv'
<1> DEFINE a == agent[h]
           b == agent'[h]
           cs == calls'[r]
<1>1. /\ TypeOK /\ Typed(h, r) /\ a.pc = "closing"
      /\ Shape(a) /\ CallsOf(a, calls[r])
      /\ Dropped(r) \/ RunningOf(a, r, run[r], calls[r], advice[r])
      /\ ActedOf(calls[r], acted[r], advice[r])
      /\ run[r] \in {"pending", "running", "blocked"}
  BY AtWork DEF CancelCall, At
<1>2. /\ b.ids = a.ids /\ b.run = r /\ b.step = a.step /\ b.iteration = a.iteration
      /\ b.batch = a.batch /\ b.pc = "closing" /\ b.end = a.end /\ b.open = a.open \ {t}
      /\ agent' = [agent EXCEPT ![h] = b]
      /\ b \in Memory
  <2>1. b = [a EXCEPT !.open = a.open \ {t}] /\ agent' = [agent EXCEPT ![h] = b]
    BY <1>1 DEF CancelCall, TypeOK, AgentTypeOK
  <2>2. a.open \ {t} \in SUBSET Tools
    BY <1>1 DEF Typed, Memory
  <2>2a. a \in Memory
    BY <1>1 DEF Typed
  <2>3. b \in Memory
    BY <2>1, <2>2, <2>2a DEF Memory
  <2>4. QED
    BY <1>1, <2>1, <2>3 DEF Typed, Memory
<1>3. /\ calls' = [calls EXCEPT ![r] = calls'[r]]
      /\ cs \in [Tools -> DOMAIN TOOL_CALL_TRANSITIONS \cup {"absent"}]
      /\ cs[t] \in {calls[r][t], "cancelled"}
      /\ calls[r][t] = "running" => cs[t] = "cancelled"
      /\ \A u \in Tools : u # t => cs[u] = calls[r][u]
  <2> DEFINE x == Attempt(TOOL_CALL_TRANSITIONS, calls[r][t], "cancelled")
  <2>1. x \in {calls[r][t], "cancelled"} /\ (calls[r][t] = "running" => x = "cancelled")
    BY CallTransitions, AttemptType
  <2>2. calls' = [calls EXCEPT ![r][t] = x]
    BY DEF CancelCall, Current
  <2> HIDE DEF x
  <2>3. x \in DOMAIN TOOL_CALL_TRANSITIONS \cup {"absent"}
    BY <1>1, <2>1, Domains DEF Typed
  <2>4. QED
    BY <1>1, <2>1, <2>2, <2>3 DEF TypeOK, AgentTypeOK
<1>4. UNCHANGED <<run, steps, lines, acted, dropped>> /\ acted' = [acted EXCEPT ![r] = acted'[r]]
  BY <1>1, FrameOf DEF CancelCall
<1>5. a.ids \subseteq Tools
  BY <1>1 DEF Typed, Memory
<1> HIDE DEF a, b, cs
<1>6. Shape(b) /\ CallsOf(b, cs)
  BY <1>1, <1>2, <1>3, <1>5 DEF Shape, CallsOf
<1>7. Dropped(r) \/ RunningOf(b, r, run[r], cs, advice[r])
  BY <1>1, <1>2, <1>3 DEF RunningOf, InBatch, Open
<1>8. ActedOf(cs, acted[r], advice[r])
  BY <1>1, <1>3 DEF ActedOf
<1>9. QED
  BY <1>1, <1>2, <1>3, <1>4, <1>6, <1>7, <1>8, CallsStep DEF a, b, cs, Typed

LEMMA ActStep ==
  ASSUME AgentAssumption, RInv, NEW h \in Hosts, up[h] = "up", UNCHANGED hostVars,
         NEW r \in Runs, agent[h].run = r, NEW t \in Tools, Act(h, t)
  PROVE  RInv'
<1> DEFINE a == agent[h]
           b == agent'[h]
<1>1. /\ TypeOK /\ Typed(h, r) /\ a.pc = "exec" /\ t \in a.batch
      /\ Shape(a) /\ CallsOf(a, calls[r])
      /\ Dropped(r) \/ RunningOf(a, r, run[r], calls[r], advice[r])
      /\ ActedOf(calls[r], acted[r], advice[r])
      /\ run[r] \in {"pending", "running", "blocked"}
  BY AtWork DEF Act, At
<1>2. /\ b.ids = a.ids /\ b.run = r /\ b.step = a.step /\ b.iteration = a.iteration
      /\ b.batch = a.batch /\ b.pc = "exec"
      /\ agent' = [agent EXCEPT ![h] = b]
      /\ b \in Memory
  <2>1. b = [a EXCEPT !.did = a.did \cup {t}] /\ agent' = [agent EXCEPT ![h] = b]
    BY <1>1 DEF Act, TypeOK, AgentTypeOK
  <2>2. a.did \cup {t} \in SUBSET Tools
    BY <1>1 DEF Typed, Memory
  <2>2a. a \in Memory
    BY <1>1 DEF Typed
  <2>3. b \in Memory
    BY <2>1, <2>2, <2>2a DEF Memory
  <2>4. QED
    BY <1>1, <2>1, <2>3 DEF Typed, Memory
<1>3. /\ acted' = [acted EXCEPT ![r] = acted'[r]]
      /\ \/ acted'[r] = acted[r]
         \/ t \in a.ids /\ Class[t] # "read" /\ acted'[r] = acted[r] \cup {t}
  BY <1>1 DEF Act, Registered, Current, TypeOK, AgentTypeOK
<1>4. /\ UNCHANGED <<run, steps, calls, lines, dropped>>
      /\ calls' = [calls EXCEPT ![r] = calls'[r]]
  BY <1>1, FrameOf DEF Act
<1> HIDE DEF a, b
<1>5. Shape(b) /\ CallsOf(b, calls[r]) /\ acted'[r] \subseteq Tools
  BY <1>1, <1>2, <1>3 DEF Shape, CallsOf, Typed
<1>6. Dropped(r) \/ RunningOf(b, r, run[r], calls[r], advice[r])
  BY <1>1, <1>2, KeepsRunning
<1>7. ActedOf(calls[r], acted'[r], advice[r])
  BY <1>1, <1>3 DEF ActedOf, CallsOf
<1>8. QED
  BY <1>1, <1>2, <1>3, <1>4, <1>5, <1>6, <1>7, CallsStep DEF a, b, Typed

(* The transcript is written by an agent that stays in the same request. *)
LEMMA LinesStep ==
  ASSUME AgentAssumption, RInv, NEW h \in Hosts, up[h] = "up", UNCHANGED hostVars,
         NEW r \in Runs, agent[h].run = r,
         UNCHANGED <<run, steps, calls, acted, dropped>>,
         agent' = [agent EXCEPT ![h] = agent'[h]],
         lines' = [lines EXCEPT ![r] = lines'[r]],
         agent'[h] \in Memory, agent'[h].run = r, agent'[h].step = agent[h].step,
         lines'[r] \in [Tools -> [uses : Nat, results : Nat]],
         Shape(agent'[h]),
         RowsOf(agent'[h], run[r], steps[r]),
         CallsOf(agent'[h], calls[r]),
         LinesOf(agent'[h], r, lines'[r]),
         Dropped(r) \/ RunningOf(agent'[h], r, run[r], calls[r], advice[r])
  PROVE  RInv'
<1>1. /\ TypeOK /\ Typed(h, r) /\ Fits(h, r)
      /\ ActedOf(calls[r], acted[r], advice[r])
      /\ Dropped(r) \/ OpenOf(agent[h], r, run[r], steps[r])
  BY AtWork
<1>2. Frame(h, r)
  BY <1>1, FrameOf DEF Frame
<1>3. Typed(h, r)'
  BY <1>1 DEF Typed
<1>4. Dropped(r)' = Dropped(r) /\ UNCHANGED advice
  BY DEF Dropped, hostVars
<1>5. Dropped(r) \/ OpenOf(agent'[h], r, run[r], steps[r])
  BY <1>1 DEF OpenOf
<1>6. Fits(h, r)'
  BY <1>1, <1>4, <1>5 DEF Fits
<1>7. QED
  BY <1>2, <1>3, <1>6, AgentEffect

LEMMA AppendUsesStep ==
  ASSUME AgentAssumption, RInv, NEW h \in Hosts, up[h] = "up", UNCHANGED hostVars,
         NEW r \in Runs, agent[h].run = r, AppendUses(h)
  PROVE  RInv'
<1> DEFINE a == agent[h]
           b == agent'[h]
           ls == [t \in Tools |-> IF t \in a.turn
                                  THEN AddUse(lines[r][t])
                                  ELSE lines[r][t]]
<1>1. /\ TypeOK /\ Typed(h, r) /\ a.pc = "turn" /\ a.run = r
      /\ Shape(a) /\ RowsOf(a, run[r], steps[r]) /\ CallsOf(a, calls[r])
      /\ LinesOf(a, r, lines[r])
      /\ Dropped(r) \/ RunningOf(a, r, run[r], calls[r], advice[r])
      /\ run[r] \in {"pending", "running", "blocked"}
  BY AtWork DEF AppendUses, At
<1>2. /\ b.ids = a.ids /\ b.run = r /\ b.step = a.step /\ b.iteration = a.iteration
      /\ b.batch = a.batch /\ b.pc = "results" /\ b.turn = a.turn
      /\ agent' = [agent EXCEPT ![h] = b]
      /\ b \in Memory
  <2>1. agent \in [Hosts -> Memory] /\ a \in Memory
    BY <1>1 DEF TypeOK, AgentTypeOK
  <2>2. QED
    BY <2>1, Zero DEF AppendUses, Memory, PCs
<1>3. lines' = [lines EXCEPT ![r] = ls]
  BY <1>1 DEF AppendUses, Current
<1>4. lines \in [Runs -> [Tools -> [uses : Nat, results : Nat]]]
  BY <1>1 DEF TypeOK, AgentTypeOK
<1>5. /\ ls \in [Tools -> [uses : Nat, results : Nat]]
      /\ \A t \in Tools : /\ ls[t].results = lines[r][t].results
                          /\ ls[t].uses = IF t \in a.turn THEN lines[r][t].uses + 1
                                          ELSE lines[r][t].uses
  BY <1>4 DEF AddUse
<1> HIDE DEF a, b, ls
<1>6. lines'[r] = ls
  BY <1>3, <1>4
<1>7. LinesOf(b, r, ls)
  <2>1. \A t \in Tools : lines[r][t].results \in Nat /\ lines[r][t].uses \in Nat
    BY <1>4
  <2>2. \A t \in Tools : lines[r][t].results <= lines[r][t].uses
    BY <1>1 DEF LinesOf
  <2>3. \A t \in a.turn : t \in Tools
    BY <1>1 DEF Typed, Memory, a
  <2>4. QED
    BY <1>2, <1>5, <2>1, <2>2, <2>3 DEF LinesOf
<1>8. Shape(b) /\ CallsOf(b, calls[r]) /\ RowsOf(b, run[r], steps[r])
  BY <1>1, <1>2 DEF Shape, CallsOf, RowsOf, Busy
<1>9. Dropped(r) \/ RunningOf(b, r, run[r], calls[r], advice[r])
  BY <1>1, <1>2, KeepsRunning
<1>10. UNCHANGED <<run, steps, calls, acted, dropped>>
  BY DEF AppendUses
<1>11. QED
  BY <1>2, <1>3, <1>5, <1>6, <1>7, <1>8, <1>9, <1>10, LinesStep DEF a, b

LEMMA AppendResultsStep ==
  ASSUME AgentAssumption, RInv, NEW h \in Hosts, up[h] = "up", UNCHANGED hostVars,
         NEW r \in Runs, agent[h].run = r, AppendResults(h)
  PROVE  RInv'
<1> DEFINE a == agent[h]
           b == agent'[h]
           ls == [t \in Tools |-> IF t \in a.turn
                                  THEN AddResult(lines[r][t])
                                  ELSE lines[r][t]]
<1>1. /\ TypeOK /\ Typed(h, r) /\ a.pc = "results" /\ a.run = r
      /\ Shape(a) /\ RowsOf(a, run[r], steps[r]) /\ CallsOf(a, calls[r])
      /\ LinesOf(a, r, lines[r])
      /\ Dropped(r) \/ RunningOf(a, r, run[r], calls[r], advice[r])
      /\ run[r] \in {"pending", "running", "blocked"}
  BY AtWork DEF AppendResults, At
<1>1a. a.step = 0 /\ a.batch = {} /\ run[r] = "running" /\ a \in Memory
  BY <1>1 DEF Shape, RowsOf, Busy, Typed
<1>2. /\ b.run = r /\ b.step = 0 /\ b.batch = {} /\ b.pc \in {"closing", "loop"}
      /\ b.pc = "loop" => b.ids = a.ids /\ b.iteration = a.iteration
      /\ b.pc = "closing" => b.ids = {}
      /\ agent' = [agent EXCEPT ![h] = b]
      /\ b \in Memory
  <2>1. CASE a.last
    <3>1. agent' = [agent EXCEPT ![h] = Ended(h, "completed", 0)]
      BY <2>1 DEF AppendResults
    <3>2. b = Ended(h, "completed", 0)
      BY <1>1, <3>1 DEF TypeOK, AgentTypeOK
    <3>3. Current(h) = r /\ 0 \in 0 .. MaxSteps
      BY Zero DEF Current
    <3>4. /\ b \in Memory /\ b.pc = "closing" /\ b.run = Current(h) /\ b.step = 0
          /\ b.batch = {} /\ b.ids = {}
      BY <1>1a, <3>2, <3>3, EndedFacts
    <3>5. agent' = [agent EXCEPT ![h] = b]
      BY <3>1, <3>2
    <3>6. QED
      BY <3>3, <3>4, <3>5
  <2>2. CASE ~a.last
    <3>1. agent' = [agent EXCEPT ![h] = [a EXCEPT !.pc = "loop", !.turn = {}]]
      BY <2>2 DEF AppendResults
    <3>2. b = [a EXCEPT !.pc = "loop", !.turn = {}]
      BY <1>1, <3>1 DEF TypeOK, AgentTypeOK
    <3>3. b \in Memory
      BY <1>1a, <3>2, Zero DEF Memory, PCs
    <3>4. agent' = [agent EXCEPT ![h] = b]
      BY <3>1, <3>2
    <3>5. QED
      BY <1>1, <1>1a, <3>2, <3>3, <3>4 DEF Memory
  <2>3. QED
    BY <2>1, <2>2
<1>3. lines' = [lines EXCEPT ![r] = ls]
  BY <1>1 DEF AppendResults, Current
<1>4. lines \in [Runs -> [Tools -> [uses : Nat, results : Nat]]]
  BY <1>1 DEF TypeOK, AgentTypeOK
<1>5. /\ ls \in [Tools -> [uses : Nat, results : Nat]]
      /\ \A t \in Tools : /\ ls[t].uses = lines[r][t].uses
                          /\ ls[t].results = IF t \in a.turn THEN lines[r][t].results + 1
                                             ELSE lines[r][t].results
  BY <1>4 DEF AddResult
<1> HIDE DEF a, b, ls
<1>6. lines'[r] = ls
  BY <1>3, <1>4
<1>7. LinesOf(b, r, ls)
  <2>1. \A t \in Tools : lines[r][t].results \in Nat /\ lines[r][t].uses \in Nat
    BY <1>4
  <2>2. QED
    BY <1>1, <1>2, <1>5, <2>1 DEF LinesOf
<1>8. Shape(b) /\ CallsOf(b, calls[r]) /\ RowsOf(b, run[r], steps[r])
  <2>1. Shape(b)
    BY <1>2 DEF Shape
  <2>2. CallsOf(b, calls[r])
    BY <1>1, <1>2 DEF CallsOf
  <2>3. RowsOf(b, run[r], steps[r])
    BY <1>1, <1>1a, <1>2 DEF RowsOf, Busy
  <2>4. QED
    BY <2>1, <2>2, <2>3
<1>9. Dropped(r) \/ RunningOf(b, r, run[r], calls[r], advice[r])
  BY <1>1, <1>1a, <1>2 DEF RunningOf, InBatch, Open
<1>10. UNCHANGED <<run, steps, calls, acted, dropped>>
  BY DEF AppendResults
<1>11. QED
  BY <1>1a, <1>2, <1>3, <1>5, <1>6, <1>7, <1>8, <1>9, <1>10, LinesStep DEF a, b

-----------------------------------------------------------------------------
(* The ends and the beginnings of a request. *)
LEMMA DropStep ==
  ASSUME AgentAssumption, RInv, NEW h \in Hosts, up[h] = "up", UNCHANGED hostVars,
         NEW r \in Runs, agent[h].run = r, Drop(h)
  PROVE  RInv'
<1>1. /\ TypeOK /\ Typed(h, r) /\ Fits(h, r)
      /\ LinesOf(agent[h], r, lines[r]) /\ ActedOf(calls[r], acted[r], advice[r])
      /\ run[r] \in {"pending", "running", "blocked"}
  BY AtWork
<1>2. /\ agent' = [agent EXCEPT ![h] = Idle] /\ agent'[h] = Idle
      /\ dropped' = [dropped EXCEPT ![h] = dropped[h] \cup {r}]
      /\ dropped'[h] = dropped[h] \cup {r}
      /\ UNCHANGED <<run, steps, calls, lines, acted, advice>>
  BY <1>1 DEF Drop, Current, TypeOK, AgentTypeOK, hostVars
<1>3. Frame(h, r)
  BY <1>1, <1>2, FrameOf, IdleFacts DEF Frame
<1>4. Typed(h, r)'
  BY <1>1, <1>2, IdleFacts DEF Typed
<1>5. Dropped(r)'
  BY <1>2 DEF Dropped
<1>6. Idle.run # r /\ Idle.pc # "results" /\ Shape(Idle)
  BY IdleFacts DEF AgentAssumption
<1>7. LinesOf(Idle, r, lines[r])
  BY <1>1, <1>6 DEF LinesOf
<1>8. run[r] # "absent" /\ r \in dropped'[h]
  BY <1>1, <1>2
<1>9. Fits(h, r)'
  BY <1>1, <1>2, <1>5, <1>6, <1>7, <1>8 DEF Fits
<1>10. QED
  BY <1>3, <1>4, <1>9, AgentEffect

LEMMA CloseRunStep ==
  ASSUME AgentAssumption, RInv, NEW h \in Hosts, up[h] = "up", UNCHANGED hostVars,
         NEW r \in Runs, agent[h].run = r, CloseRun(h)
  PROVE  RInv'
<1> DEFINE a == agent[h]
<1>1. /\ TypeOK /\ Typed(h, r) /\ Fits(h, r)
      /\ a.pc = "closing" /\ a.step = 0 /\ a.open = {} /\ a.batch = {} /\ a.run = r
      /\ RowsOf(a, run[r], steps[r])
      /\ LinesOf(a, r, lines[r]) /\ ActedOf(calls[r], acted[r], advice[r])
      /\ Dropped(r) \/ OpenOf(a, r, run[r], steps[r])
      /\ Dropped(r) \/ RunningOf(a, r, run[r], calls[r], advice[r])
      /\ run[r] \in {"pending", "running", "blocked"}
  BY AtWork DEF CloseRun, At, Shape
<1>2. a.end \in {"completed", "failed", "cancelled", "interrupted"}
  BY <1>1 DEF Typed, Memory
<1>3. Attempt(RUN_TRANSITIONS, run[r], a.end) = a.end
  <2>1. \/ run[r] = "running"
        \/ run[r] = "blocked" /\ a.end \in {"failed", "cancelled"}
    BY <1>1 DEF RowsOf
  <2>2. QED
    BY <1>2, <2>1, Transitions
<1>4. /\ agent' = [agent EXCEPT ![h] = Idle] /\ agent'[h] = Idle
      /\ run' = [run EXCEPT ![r] = a.end] /\ run'[r] = a.end
      /\ UNCHANGED <<dropped, steps, calls, lines, acted, advice>>
  BY <1>1, <1>3 DEF CloseRun, Current, WriteRun, TypeOK, AgentTypeOK, hostVars
<1>5. Frame(h, r)
  BY <1>1, <1>4, FrameOf, IdleFacts DEF Frame
<1>6. Typed(h, r)'
  BY <1>1, <1>2, <1>4, IdleFacts, Domains DEF Typed
<1>7. Dropped(r)' = Dropped(r)
  BY <1>4 DEF Dropped
<1>8. Idle.run # r /\ Idle.pc # "results" /\ Shape(Idle)
  BY IdleFacts DEF AgentAssumption
<1> HIDE DEF a
<1>9. LinesOf(Idle, r, lines[r])
  BY <1>1, <1>8 DEF LinesOf
<1>10. Dropped(r) \/ OpenOf(Idle, r, run'[r], steps[r])
  <2>1. 0 \notin DOMAIN steps[r]
    BY <1>1 DEF Typed
  <2>2. QED
    BY <1>1, <2>1 DEF OpenOf
<1>11. Dropped(r) \/ RunningOf(Idle, r, run'[r], calls[r], advice[r])
  BY <1>1, <1>4 DEF RunningOf, InBatch, Open
<1>12. run'[r] \notin Open /\ run'[r] # "absent"
  BY <1>2, <1>4 DEF Open
<1>13. Fits(h, r)'
  BY <1>1, <1>4, <1>7, <1>8, <1>9, <1>10, <1>11, <1>12 DEF Fits
<1>14. QED
  BY <1>5, <1>6, <1>13, AgentEffect

LEMMA StartRunStep ==
  ASSUME AgentAssumption, RInv, NEW h \in Hosts, up[h] = "up", UNCHANGED hostVars,
         NEW r \in Runs, StartRun(h, r)
  PROVE  RInv'
<1> DEFINE b == [Idle EXCEPT !.pc = "created", !.run = r]
<1>1. /\ TypeOK /\ Fits(h, r) /\ agent[h] = Idle /\ agent[h].run = None
      /\ run[r] = "absent"
  BY IdleFacts DEF RInv, StartRun, At, Fits, Shape
<1>2. /\ b \in Memory /\ b.pc = "created" /\ b.run = r /\ b.step = 0 /\ b.iteration = 0
      /\ b.batch = {} /\ b.ids = {}
  BY IdleFacts DEF Idle, Memory, PCs
<1>3. /\ agent' = [agent EXCEPT ![h] = b] /\ run' = [run EXCEPT ![r] = "pending"]
      /\ UNCHANGED <<steps, calls, lines, acted, dropped, advice>>
  BY DEF StartRun, hostVars
<1> HIDE DEF b
<1>4. agent'[h] = b /\ run'[r] = "pending"
  BY <1>1, <1>3 DEF TypeOK, AgentTypeOK
<1>5. Typed(h, r)'
  BY <1>1, <1>2, <1>3, <1>4, Domains DEF Typed, TypeOK, AgentTypeOK
<1>6. Frame(h, r)
  BY <1>1, <1>2, <1>3, <1>4, FrameOf DEF Frame
<1>7. /\ steps[r] = <<>> /\ LinesOf(agent[h], r, lines[r])
      /\ ActedOf(calls[r], acted[r], advice[r])
      /\ Dropped(r) \/ RunningOf(agent[h], r, run[r], calls[r], advice[r])
  BY <1>1 DEF Fits
<1>8. Dropped(r)' = Dropped(r)
  BY <1>3 DEF Dropped
<1>9. Shape(b) /\ LinesOf(b, r, lines[r]) /\ CallsOf(b, calls[r])
  BY <1>2, <1>7 DEF Shape, LinesOf, CallsOf
<1>10. RowsOf(b, run'[r], steps[r]) /\ OpenOf(b, r, run'[r], steps[r])
  <2>1. Len(steps[r]) = 0 /\ DOMAIN steps[r] = {}
    BY <1>7
  <2>2. QED
    BY <1>2, <1>4, <2>1 DEF RowsOf, OpenOf, Busy, AgentAssumption
<1>11. Dropped(r) \/ RunningOf(b, r, run'[r], calls[r], advice[r])
  BY <1>1, <1>7 DEF RunningOf, Open
<1>12. Fits(h, r)'
  BY <1>2, <1>3, <1>4, <1>7, <1>8, <1>9, <1>10, <1>11 DEF Fits
<1>13. QED
  BY <1>5, <1>6, <1>12, AgentEffect

LEMMA ResumeRunStep ==
  ASSUME AgentAssumption, RInv, NEW h \in Hosts, up[h] = "up", UNCHANGED hostVars,
         NEW r \in Runs, ResumeRun(h, r)
  PROVE  RInv'
<1> DEFINE b == [Idle EXCEPT !.pc = "loop", !.run = r]
<1>1. /\ TypeOK /\ Fits(h, r) /\ agent[h] = Idle /\ agent[h].run = None
      /\ run[r] \in {"interrupted", "running"}
      /\ Len(steps[r]) + MaxIterations <= MaxSteps
  BY IdleFacts DEF RInv, ResumeRun, At, Fits, Shape
<1>2. /\ b \in Memory /\ b.pc = "loop" /\ b.run = r /\ b.step = 0 /\ b.iteration = 0
      /\ b.batch = {} /\ b.ids = {}
  BY IdleFacts DEF Idle, Memory, PCs
<1>3. /\ agent' = [agent EXCEPT ![h] = b] /\ run' = [run EXCEPT ![r] = "running"]
      /\ UNCHANGED <<steps, calls, lines, acted, dropped, advice>>
  BY <1>1, Transitions DEF ResumeRun, WriteRun, TypeOK, AgentTypeOK, hostVars
<1> HIDE DEF b
<1>4. agent'[h] = b /\ run'[r] = "running"
  BY <1>1, <1>3 DEF TypeOK, AgentTypeOK
<1>5. Typed(h, r)'
  BY <1>1, <1>2, <1>3, <1>4, Domains DEF Typed, TypeOK, AgentTypeOK
<1>6. Frame(h, r)
  BY <1>1, <1>2, <1>3, <1>4, FrameOf DEF Frame
<1>7. /\ LinesOf(agent[h], r, lines[r]) /\ ActedOf(calls[r], acted[r], advice[r])
      /\ Dropped(r) \/ OpenOf(agent[h], r, run[r], steps[r])
      /\ Dropped(r) \/ RunningOf(agent[h], r, run[r], calls[r], advice[r])
      /\ run[r] \in Open => r \in dropped[h]
      /\ agent[h].run # r
  BY <1>1 DEF Fits, AgentAssumption
<1>8. Dropped(r)' = Dropped(r)
  BY <1>3 DEF Dropped
<1>9. Shape(b) /\ LinesOf(b, r, lines[r]) /\ CallsOf(b, calls[r])
  BY <1>2, <1>7 DEF Shape, LinesOf, CallsOf
<1>10. RowsOf(b, run'[r], steps[r])
  <2>1. Len(steps[r]) \in Nat
    BY <1>1 DEF TypeOK, AgentTypeOK
  <2>2. QED
    BY <1>1, <1>2, <1>4, <2>1 DEF RowsOf, Busy, AgentAssumption
<1>11. Dropped(r) \/ OpenOf(b, r, run'[r], steps[r])
  BY <1>7 DEF OpenOf
<1>12. Dropped(r) \/ RunningOf(b, r, run'[r], calls[r], advice[r])
  BY <1>1, <1>7 DEF RunningOf, InBatch
<1>13. Fits(h, r)'
  BY <1>2, <1>3, <1>4, <1>8, <1>9, <1>10, <1>11, <1>12, <1>7 DEF Fits
<1>14. QED
  BY <1>5, <1>6, <1>13, AgentEffect

-----------------------------------------------------------------------------
LEMMA AgentStep ==
  ASSUME AgentAssumption, RInv, NEW h \in Hosts, up[h] = "up", UNCHANGED hostVars,
         AgentNext(h)
  PROVE  RInv'
<1>1. CASE \E q \in Runs : StartRun(h, q) \/ ResumeRun(h, q)
  BY <1>1, StartRunStep, ResumeRunStep
<1>2. CASE agent[h].pc # "idle"
  <2>1. PICK r \in Runs : agent[h].run = r
    BY <1>2, InRequest
  <2>2. CASE BeginRun(h) \/ StartStep(h) \/ BeginStep(h) \/ IterationLimit(h)
    BY <2>1, <2>2, BeginRunStep, StartStepStep, BeginStepStep, IterationLimitStep
  <2>3. CASE \E ts \in SUBSET Tools : Respond(h, ts) \/ Truncate(h, ts) \/ Launch(h, ts)
    BY <2>1, <2>3, RespondStep, TruncateStep, LaunchStep
  <2>4. CASE ReplyText(h) \/ LoopGuard(h)
    BY <2>1, <2>4, ReplyTextStep, LoopGuardStep
  <2>5. CASE \E t \in Tools : \/ Reuse(h, t) \/ Withhold(h, t) \/ Act(h, t) \/ Report(h, t)
                             \/ CancelCall(h, t)
    BY <2>1, <2>5, ReuseStep, WithholdStep, ActStep, ReportStep, CancelCallStep
  <2>6. CASE Return(h) \/ TurnDone(h) \/ UnknownTools(h)
    BY <2>1, <2>6, ReturnStep, TurnDoneStep, UnknownToolsStep
  <2>7. CASE AppendUses(h) \/ AppendResults(h) \/ CloseStep(h) \/ CloseRun(h)
    BY <2>1, <2>7, AppendUsesStep, AppendResultsStep, CloseStepStep, CloseRunStep
  <2>8. CASE Ask(h) \/ \E allow \in BOOLEAN : Answer(h, allow)
    BY <2>1, <2>8, AskStep, AnswerStep
  <2>9. CASE Fail(h) \/ Cancel(h) \/ Drop(h)
    BY <2>1, <2>9, FailStep, CancelStep, DropStep
  <2>10. CASE \E q \in Runs : StartRun(h, q) \/ ResumeRun(h, q)
    BY <1>1, <2>10
  <2>11. QED
    BY <2>2, <2>3, <2>4, <2>5, <2>6, <2>7, <2>8, <2>9, <2>10 DEF AgentNext, Progress
<1>3. CASE agent[h].pc = "idle"
  BY <1>1, <1>3
     DEF AgentNext, Progress, At, Awaits, BeginRun, StartStep, BeginStep, IterationLimit, Respond,
         Truncate, Launch, ReplyText, LoopGuard, Reuse, Withhold, Act, Report, CancelCall,
         Return, TurnDone, UnknownTools, AppendUses, AppendResults, CloseStep, CloseRun,
         Ask, Answer, Fail, Cancel, Drop
<1>4. QED
  BY <1>2, <1>3
-----------------------------------------------------------------------------
(* What a start may write of a run that it does not scan: nothing. *)
RowsKept(q) ==
  /\ run'[q] = run[q] /\ steps'[q] = steps[q] /\ calls'[q] = calls[q]
  /\ lines'[q] = lines[q] /\ acted'[q] = acted[q] /\ advice'[q] = advice[q]
  /\ Dropped(q)' = Dropped(q)

LEMMA ScanEffect ==
  ASSUME AgentAssumption, RInv, NEW h \in Hosts, up[h] = "scanning", NEW r \in Runs,
         TypeOK', UNCHANGED <<agent, up>>,
         scan' = [scan EXCEPT ![h] = scan'[h]],
         \A q \in Runs \ {r} : RowsKept(q),
         Resting(r)', ScanFits(h)'
  PROVE  RInv'
<1>1. \A g \in Hosts : g # h => up[g] = "down" /\ scan'[g] = scan[g]
  BY DEF RInv, OneProcess, TypeOK
<1>2. OneProcess'
  BY <1>1 DEF RInv, OneProcess
<1>3. ASSUME NEW q \in Runs, q # r
      PROVE  Resting(q)'
  <2>1. RowsKept(q) /\ Resting(q)
    BY <1>3 DEF RInv
  <2>2. QED
    BY <2>1 DEF RowsKept, Resting, ActedOf, Deferred
<1>4. \A g \in Hosts : up'[g] # "up" /\ (up'[g] = "scanning" => g = h)
  BY <1>1
<1>5. QED
  BY <1>2, <1>3, <1>4 DEF RInv

(* A scan and the run it has taken. *)
LEMMA Scanned ==
  ASSUME AgentAssumption, RInv, NEW h \in Hosts, up[h] = "scanning"
  PROVE  /\ TypeOK /\ scan[h] \in Scan /\ ScanFits(h)
         /\ \A g \in Hosts : g # h => up[g] = "down"
         /\ \A g \in Hosts : agent[g] = Idle
         /\ scan[h].stage # "pick" =>
              /\ scan[h].run \in Runs
              /\ Resting(scan[h].run)
              /\ ScanOf(scan[h], steps[scan[h].run], calls[scan[h].run], lines[scan[h].run])
<1>1. TypeOK /\ scan[h] \in Scan /\ ScanFits(h)
  BY DEF RInv, TypeOK
<1>2. \A g \in Hosts : g # h => up[g] = "down"
  BY DEF RInv, OneProcess, TypeOK
<1>3. \A g \in Hosts : agent[g] = Idle
  BY <1>2 DEF RInv, OneProcess
<1>4. scan[h].stage # "pick" =>
        /\ scan[h].run \in Runs
        /\ ScanOf(scan[h], steps[scan[h].run], calls[scan[h].run], lines[scan[h].run])
  BY <1>1 DEF ScanFits
<1>5. QED
  BY <1>1, <1>2, <1>3, <1>4 DEF RInv

LEMMA ReconcileStep ==
  ASSUME AgentAssumption, RInv, NEW h \in Hosts, NEW t \in Tools, ReconcileTool(h, t)
  PROVE  RInv'
<1> DEFINE s == scan[h]
           z == scan'[h]
<1>1. up[h] = "scanning" /\ s.stage = "calls"
  BY DEF ReconcileTool, Scanning
<1>2. PICK r \in Runs : s.run = r
  BY <1>1, Scanned
<1>3. /\ TypeOK /\ s \in Scan /\ Resting(r)
      /\ ScanOf(s, steps[r], calls[r], lines[r])
      /\ Unfinished \subseteq s.todo \cup {s.run}
  BY <1>1, <1>2, Scanned DEF ScanFits
<1>4. s.seen[t] # "absent" /\ s.seen[t] = calls[r][t]
  BY <1>1, <1>3 DEF ReconcileTool, ScanOf
<1>5. PICK v \in Verdicts(t, calls[r][t]) :
        /\ calls' = IF v[1] = calls[r][t] THEN calls ELSE [calls EXCEPT ![r][t] = v[1]]
        /\ advice' = [advice EXCEPT ![r][t] = v[2]]
  BY <1>2, <1>4 DEF ReconcileTool
<1>6. /\ v[1] \in {"pending", "uncertain", "completed"}
      /\ v[2] \in {"retry", "reuse_result", "confirm"}
      /\ v[1] = "pending" => calls[r][t] = "pending"
      /\ v[1] = "uncertain" => v[2] = "confirm" \/ (Class[t] = "read" /\ v[2] = "retry")
  BY <1>5 DEF Verdicts, AgentAssumption
<1>7. /\ calls'[r] \in [Tools -> DOMAIN TOOL_CALL_TRANSITIONS \cup {"absent"}]
      /\ calls' = [calls EXCEPT ![r] = calls'[r]]
      /\ calls'[r][t] = v[1] /\ \A u \in Tools \ {t} : calls'[r][u] = calls[r][u]
  BY <1>3, <1>5, <1>6, Domains DEF TypeOK, AgentTypeOK
<1>8. /\ advice'[r] \in [Tools -> {"none", "retry", "reuse_result", "confirm"}]
      /\ advice' = [advice EXCEPT ![r] = advice'[r]]
      /\ advice'[r][t] = v[2] /\ \A u \in Tools \ {t} : advice'[r][u] = advice[r][u]
  BY <1>3, <1>5, <1>6 DEF TypeOK
<1>9. /\ scan' = [scan EXCEPT ![h] = z]
      /\ z \in Scan /\ z.stage = s.stage /\ z.run = s.run /\ z.todo = s.todo /\ z.open = s.open
      /\ z.seen[t] = "absent" /\ \A u \in Tools \ {t} : z.seen[u] = s.seen[u]
  <2>1. scan \in [Hosts -> Scan]
    BY <1>3 DEF TypeOK
  <2>2. scan' = [scan EXCEPT ![h].seen[t] = "absent"]
    BY DEF ReconcileTool
  <2>3. QED
    BY <2>1, <2>2 DEF Scan
<1>10. UNCHANGED <<run, steps, lines, acted, agent, dropped, up, starts>>
  BY DEF ReconcileTool
<1>11. TypeOK'
  <2>1. scan' \in [Hosts -> Scan]
    BY <1>3, <1>9 DEF TypeOK
  <2>2. calls' \in [Runs -> [Tools -> DOMAIN TOOL_CALL_TRANSITIONS \cup {"absent"}]]
    BY <1>3, <1>7 DEF TypeOK, AgentTypeOK
  <2>3. advice' \in [Runs -> [Tools -> {"none", "retry", "reuse_result", "confirm"}]]
    BY <1>3, <1>8 DEF TypeOK
  <2>4. QED
    BY <1>3, <1>10, <2>1, <2>2, <2>3 DEF TypeOK, AgentTypeOK
<1>12. \A q \in Runs \ {r} : RowsKept(q)
  BY <1>3, <1>7, <1>8, <1>10 DEF RowsKept, Dropped, TypeOK, AgentTypeOK
<1>13. Dropped(r)' = Dropped(r)
  BY <1>10 DEF Dropped
<1> HIDE DEF s, z
<1>14. ActedOf(calls[r], acted[r], advice[r])
  BY <1>3 DEF Resting
<1>15. ActedOf(calls'[r], acted[r], advice'[r])
  BY <1>6, <1>7, <1>8, <1>14 DEF ActedOf, Deferred
<1>16. \A u \in Tools : calls'[r][u] = "running" =>
         u # t /\ calls[r][u] = "running" /\ advice'[r][u] = advice[r][u]
  BY <1>6, <1>7, <1>8
<1>17. Resting(r)'
  BY <1>3, <1>10, <1>13, <1>15, <1>16 DEF Resting, Deferred
<1>18. ScanOf(z, steps[r], calls'[r], lines[r])
  BY <1>1, <1>3, <1>6, <1>7, <1>9 DEF ScanOf
<1>19. ScanFits(h)'
  <2>1. Unfinished' = Unfinished
    BY <1>10 DEF Unfinished
  <2>2. z.stage = "calls" /\ z.run = r
    BY <1>1, <1>2, <1>9
  <2>3. QED
    BY <1>3, <1>9, <1>10, <1>18, <2>1, <2>2 DEF ScanFits, z
<1>20. QED
  BY <1>1, <1>9, <1>10, <1>11, <1>12, <1>17, <1>19, ScanEffect DEF z

LEMMA ValidateStep ==
  ASSUME AgentAssumption, RInv, NEW h \in Hosts, ValidateTranscript(h)
  PROVE  RInv'
<1> DEFINE s == scan[h]
           z == scan'[h]
<1>1. up[h] = "scanning" /\ s.stage = "calls"
  BY DEF ValidateTranscript, Scanning
<1>2. PICK r \in Runs : s.run = r
  BY <1>1, Scanned
<1>3. /\ TypeOK /\ s \in Scan /\ Resting(r)
      /\ ScanOf(s, steps[r], calls[r], lines[r])
      /\ Unfinished \subseteq s.todo \cup {s.run}
  BY <1>1, <1>2, Scanned DEF ScanFits
<1>4. /\ scan' = [scan EXCEPT ![h] = z]
      /\ z \in Scan /\ z.stage = "repair" /\ z.run = r /\ z.todo = s.todo /\ z.open = s.open
      /\ z.missing = Missing(r)
  <2>1. scan \in [Hosts -> Scan] /\ Missing(r) \in SUBSET Tools
    BY <1>3 DEF TypeOK, Missing
  <2>2. scan' = [scan EXCEPT ![h].stage = "repair", ![h].missing = Missing(r)]
    BY <1>2 DEF ValidateTranscript
  <2>3. s \in Scan /\ s.run = r
    BY <1>2, <1>3
  <2>4. QED
    BY <2>1, <2>2, <2>3 DEF Scan
<1>5. UNCHANGED <<run, steps, calls, lines, acted, agent, dropped, up, advice, starts>>
  BY DEF ValidateTranscript, agentVars, store
<1>6. TypeOK'
  <2>1. scan' \in [Hosts -> Scan]
    BY <1>3, <1>4 DEF TypeOK
  <2>2. QED
    BY <1>3, <1>5, <2>1 DEF TypeOK, AgentTypeOK
<1>7. \A q \in Runs : RowsKept(q)
  BY <1>5 DEF RowsKept, Dropped
<1>8. Resting(r)'
  BY <1>3, <1>5, <1>7 DEF Resting, RowsKept
<1>9. \A t \in Tools : s.seen[t] = "absent"
  BY DEF ValidateTranscript
<1> HIDE DEF s, z
<1>10. \A t \in Tools : calls[r][t] # "running"
  BY <1>1, <1>3, <1>9 DEF ScanOf
<1>11. ScanOf(z, steps[r], calls[r], lines[r])
  BY <1>3, <1>4, <1>10 DEF ScanOf, Missing
<1>12. ScanFits(h)'
  <2>1. Unfinished' = Unfinished
    BY <1>5 DEF Unfinished
  <2>2. QED
    BY <1>2, <1>3, <1>4, <1>5, <1>11, <2>1 DEF ScanFits, z
<1>13. QED
  BY <1>1, <1>4, <1>5, <1>6, <1>7, <1>8, <1>12, ScanEffect DEF z

LEMMA RepairStep ==
  ASSUME AgentAssumption, RInv, NEW h \in Hosts, RepairTranscript(h)
  PROVE  RInv'
<1> DEFINE s == scan[h]
           z == scan'[h]
<1>1. up[h] = "scanning" /\ s.stage = "repair"
  BY DEF RepairTranscript, Scanning
<1>2. PICK r \in Runs : s.run = r
  BY <1>1, Scanned
<1>3. /\ TypeOK /\ s \in Scan /\ Resting(r)
      /\ ScanOf(s, steps[r], calls[r], lines[r])
      /\ Unfinished \subseteq s.todo \cup {s.run}
  BY <1>1, <1>2, Scanned DEF ScanFits
<1> DEFINE ls == [t \in Tools |-> IF t \in s.missing /\ lines[r][t].uses > 0
                                  THEN AddResult(lines[r][t]) ELSE lines[r][t]]
<1>4. /\ scan' = [scan EXCEPT ![h] = z]
      /\ z \in Scan /\ z.stage = "steps" /\ z.run = r /\ z.todo = s.todo /\ z.open = s.open
  <2>1. scan \in [Hosts -> Scan]
    BY <1>3 DEF TypeOK
  <2>2. scan' = [scan EXCEPT ![h].stage = "steps", ![h].missing = {}]
    BY DEF RepairTranscript
  <2>3. QED
    BY <1>2, <2>1, <2>2, Zero DEF Scan
<1>5. /\ UNCHANGED <<run, steps, calls, acted, agent, dropped, up, advice, starts>>
      /\ lines' = [lines EXCEPT ![r] = ls]
  BY <1>2 DEF RepairTranscript, Repairs
<1>6. lines \in [Runs -> [Tools -> [uses : Nat, results : Nat]]]
  BY <1>3 DEF TypeOK, AgentTypeOK
<1>7. /\ ls \in [Tools -> [uses : Nat, results : Nat]]
      /\ \A t \in Tools : /\ ls[t].uses = lines[r][t].uses
                          /\ ls[t].results = IF t \in s.missing /\ lines[r][t].uses > 0
                                             THEN lines[r][t].results + 1
                                             ELSE lines[r][t].results
  BY <1>6 DEF AddResult
<1> HIDE DEF ls
<1>8. lines'[r] = ls
  BY <1>5, <1>6
<1>9. TypeOK'
  BY <1>3, <1>4, <1>5, <1>6, <1>7 DEF TypeOK, AgentTypeOK
<1>10. \A q \in Runs \ {r} : RowsKept(q)
  BY <1>5, <1>6 DEF RowsKept, Dropped
<1> HIDE DEF s, z
<1>11. \A t \in Tools : t \in s.missing <=> calls[r][t] = "completed" /\ lines[r][t].results = 0
  BY <1>1, <1>3 DEF ScanOf
<1>12. \A t \in Tools : lines[r][t].uses \in Nat /\ lines[r][t].results \in Nat
  BY <1>6
<1>13. \A t \in Tools : ls[t].results <= ls[t].uses
  <2>1. \A t \in Tools : lines[r][t].results <= lines[r][t].uses
    BY <1>3 DEF Resting
  <2>2. QED
    BY <1>7, <1>11, <1>12, <2>1
<1>14. \A t \in Tools : calls[r][t] = "completed" /\ ls[t].uses > 0 => ls[t].results > 0
  BY <1>7, <1>11, <1>12
<1>15. Resting(r)'
  <2>1. Dropped(r)' = Dropped(r)
    BY <1>5 DEF Dropped
  <2>2. QED
    BY <1>3, <1>5, <1>8, <1>13, <2>1 DEF Resting
<1>16. ScanOf(z, steps[r], calls[r], ls)
  BY <1>1, <1>3, <1>4, <1>14 DEF ScanOf
<1>17. ScanFits(h)'
  <2>1. Unfinished' = Unfinished
    BY <1>5 DEF Unfinished
  <2>2. QED
    BY <1>2, <1>3, <1>4, <1>5, <1>8, <1>16, <2>1 DEF ScanFits, z
<1>18. QED
  BY <1>1, <1>4, <1>5, <1>9, <1>10, <1>15, <1>17, ScanEffect DEF z

LEMMA InterruptStepStep ==
  ASSUME AgentAssumption, RInv, NEW h \in Hosts, NEW i \in 1 .. MaxSteps, InterruptStep(h, i)
  PROVE  RInv'
<1> DEFINE s == scan[h]
           z == scan'[h]
           D == DOMAIN STEP_TRANSITIONS
<1>1. up[h] = "scanning" /\ s.stage = "steps"
  BY DEF InterruptStep, Scanning
<1>2. PICK r \in Runs : s.run = r
  BY <1>1, Scanned
<1>3. /\ TypeOK /\ s \in Scan /\ Resting(r)
      /\ ScanOf(s, steps[r], calls[r], lines[r])
      /\ Unfinished \subseteq s.todo \cup {s.run}
  BY <1>1, <1>2, Scanned DEF ScanFits
<1> DEFINE ss == [steps[r] EXCEPT ![i] = "interrupted"]
<1>4. /\ scan' = [scan EXCEPT ![h] = z]
      /\ z \in Scan /\ z.stage = "steps" /\ z.run = r /\ z.todo = s.todo
      /\ z.open = s.open \ {i}
  <2>1. scan \in [Hosts -> Scan] /\ s.open \ {i} \in SUBSET (1 .. MaxSteps)
    BY <1>3 DEF TypeOK, Scan
  <2>2. scan' = [scan EXCEPT ![h].open = s.open \ {i}]
    BY DEF InterruptStep
  <2>3. QED
    BY <1>1, <1>2, <2>1, <2>2 DEF Scan
<1>5. /\ UNCHANGED <<run, calls, lines, acted, agent, dropped, up, advice, starts>>
      /\ steps' = [steps EXCEPT ![r] = ss]
  BY <1>2 DEF InterruptStep
<1>6. steps \in [Runs -> Seq(D)] /\ Len(steps[r]) <= MaxSteps /\ "interrupted" \in D
  BY <1>3, Domains DEF TypeOK, AgentTypeOK
<1> HIDE DEF D
<1>7. /\ ss \in Seq(D) /\ Len(ss) = Len(steps[r]) /\ DOMAIN ss = DOMAIN steps[r]
      /\ \A j \in DOMAIN ss : ss[j] = IF j = i THEN "interrupted" ELSE steps[r][j]
  <2>1. steps[r] \in Seq(D) /\ DOMAIN steps[r] = 1 .. Len(steps[r]) /\ Len(steps[r]) \in Nat
    BY <1>6
  <2>2. CASE i \in 1 .. Len(steps[r])
    BY <1>6, <2>1, <2>2
  <2>3. CASE i \notin 1 .. Len(steps[r])
    <3>1. ss = steps[r]
      BY <2>1, <2>3
    <3> HIDE DEF ss
    <3>2. QED
      BY <2>1, <2>3, <3>1
  <2>4. QED
    BY <2>2, <2>3
<1> HIDE DEF ss
<1>8. steps'[r] = ss
  BY <1>5, <1>6
<1>9. TypeOK'
  BY <1>3, <1>4, <1>5, <1>6, <1>7 DEF TypeOK, AgentTypeOK, D
<1>10. \A q \in Runs \ {r} : RowsKept(q)
  BY <1>5, <1>6 DEF RowsKept, Dropped
<1> HIDE DEF s, z
<1>11. \A j \in DOMAIN ss : ss[j] \in Open => j # i /\ steps[r][j] \in Open
  BY <1>7 DEF Open
<1>12. Resting(r)'
  <2>1. Dropped(r)' = Dropped(r)
    BY <1>5 DEF Dropped
  <2>2. run[r] # "absent" \/ ss = <<>>
    BY <1>3, <1>6, <1>7 DEF Resting
  <2>3. QED
    BY <1>3, <1>5, <1>7, <1>8, <1>11, <2>1, <2>2 DEF Resting
<1>13. ScanOf(z, ss, calls[r], lines[r])
  BY <1>1, <1>3, <1>4, <1>7, <1>11 DEF ScanOf
<1>14. ScanFits(h)'
  <2>1. Unfinished' = Unfinished
    BY <1>5 DEF Unfinished
  <2>2. QED
    BY <1>2, <1>3, <1>4, <1>5, <1>8, <1>13, <2>1 DEF ScanFits, z
<1>15. QED
  BY <1>1, <1>4, <1>5, <1>9, <1>10, <1>12, <1>14, ScanEffect DEF z

LEMMA InterruptRunStep ==
  ASSUME AgentAssumption, RInv, NEW h \in Hosts, InterruptRun(h)
  PROVE  RInv'
<1> DEFINE s == scan[h]
           z == scan'[h]
<1>1. up[h] = "scanning" /\ s.stage = "steps" /\ s.open = {}
  BY DEF InterruptRun, Scanning
<1>2. PICK r \in Runs : s.run = r
  BY <1>1, Scanned
<1>3. /\ TypeOK /\ s \in Scan /\ Resting(r)
      /\ ScanOf(s, steps[r], calls[r], lines[r])
      /\ Unfinished \subseteq s.todo \cup {s.run}
  BY <1>1, <1>2, Scanned DEF ScanFits
<1>4. /\ scan' = [scan EXCEPT ![h] = z]
      /\ z \in Scan /\ z.stage = "pick" /\ z.run = None /\ z.todo = s.todo
  <2>1. scan \in [Hosts -> Scan]
    BY <1>3 DEF TypeOK
  <2>2. scan' = [scan EXCEPT ![h].stage = "pick", ![h].run = None]
    BY DEF InterruptRun
  <2>3. QED
    BY <2>1, <2>2 DEF Scan
<1>5. /\ UNCHANGED <<steps, calls, lines, acted, agent, up, advice, starts>>
      /\ run' = [run EXCEPT ![r] = "interrupted"]
      /\ dropped' = [g \in Hosts |-> dropped[g] \ {r}]
  BY <1>2 DEF InterruptRun
<1>6. run'[r] = "interrupted" /\ \A q \in Runs \ {r} : run'[q] = run[q]
  BY <1>3, <1>5 DEF TypeOK, AgentTypeOK
<1>7. TypeOK'
  BY <1>3, <1>4, <1>5, Domains DEF TypeOK, AgentTypeOK
<1>8. \A q \in Runs \ {r} : RowsKept(q)
  BY <1>5, <1>6 DEF RowsKept, Dropped
<1> HIDE DEF s, z
<1>9. /\ \A i \in DOMAIN steps[r] : steps[r][i] \notin Open
      /\ \A t \in Tools : calls[r][t] # "running"
  BY <1>1, <1>3 DEF ScanOf
<1>10. Resting(r)'
  BY <1>3, <1>5, <1>6, <1>9 DEF Resting
<1>11. ScanFits(h)'
  <2>1. Unfinished' \subseteq Unfinished \ {r}
    BY <1>6 DEF Unfinished, Open
  <2>2. QED
    BY <1>2, <1>3, <1>4, <2>1 DEF ScanFits, z
<1>12. QED
  BY <1>1, <1>4, <1>5, <1>7, <1>8, <1>10, <1>11, ScanEffect DEF z

LEMMA ScanRunStep ==
  ASSUME AgentAssumption, RInv, NEW h \in Hosts, ScanRun(h)
  PROVE  RInv'
<1> DEFINE s == scan[h]
           z == scan'[h]
<1>1. up[h] = "scanning" /\ s.stage = "pick"
  BY DEF ScanRun, Scanning
<1>2. /\ TypeOK /\ s \in Scan /\ s.run = None
      /\ Unfinished \subseteq s.todo \cup {s.run}
  BY <1>1, Scanned DEF ScanFits
<1>3. PICK r \in s.todo :
        scan' = [scan EXCEPT ![h] =
                   [stage |-> "calls", todo |-> s.todo \ {r}, run |-> r,
                    open |-> {i \in DOMAIN steps[r] : steps[r][i] \in Open},
                    seen |-> [t \in Tools |->
                                IF calls[r][t] \in {"pending", "running", "uncertain"}
                                THEN calls[r][t] ELSE "absent"],
                    missing |-> {}]]
  BY DEF ScanRun
<1>4. r \in Runs
  BY <1>2 DEF Scan
<1> DEFINE op == {i \in DOMAIN steps[r] : steps[r][i] \in Open}
           sn == [t \in Tools |-> IF calls[r][t] \in {"pending", "running", "uncertain"}
                                  THEN calls[r][t] ELSE "absent"]
<1>5. /\ steps[r] \in Seq(DOMAIN STEP_TRANSITIONS) /\ Len(steps[r]) <= MaxSteps
      /\ calls[r] \in [Tools -> DOMAIN TOOL_CALL_TRANSITIONS \cup {"absent"}]
      /\ scan \in [Hosts -> Scan]
  BY <1>2, <1>4 DEF TypeOK, AgentTypeOK
<1>6. op \in SUBSET (1 .. MaxSteps)
  BY <1>5 DEF AgentAssumption
<1>7. sn \in [Tools -> DOMAIN TOOL_CALL_TRANSITIONS \cup {"absent"}]
  BY <1>5
<1>8. /\ scan' = [scan EXCEPT ![h] = z]
      /\ z \in Scan /\ z.stage = "calls" /\ z.run = r /\ z.todo = s.todo \ {r}
      /\ z.open = op /\ z.seen = sn
  <2> DEFINE c == [stage |-> "calls", todo |-> s.todo \ {r}, run |-> r, open |-> op,
                   seen |-> sn, missing |-> {}]
  <2>1. scan' = [scan EXCEPT ![h] = c]
    BY <1>3
  <2>2. s.todo \ {r} \in SUBSET Runs
    BY <1>2 DEF Scan
  <2> HIDE DEF op, sn
  <2>3. /\ c \in Scan /\ c.stage = "calls" /\ c.run = r /\ c.todo = s.todo \ {r}
        /\ c.open = op /\ c.seen = sn
    BY <1>4, <1>6, <1>7, <2>2, Zero DEF Scan
  <2> HIDE DEF c
  <2>4. z = c
    BY <1>5, <2>1
  <2>5. QED
    BY <2>1, <2>3, <2>4
<1>9. UNCHANGED <<run, steps, calls, lines, acted, agent, dropped, up, advice, starts>>
  BY DEF ScanRun, agentVars, store
<1>10. TypeOK'
  <2>1. scan' \in [Hosts -> Scan]
    BY <1>2, <1>8 DEF TypeOK
  <2>2. QED
    BY <1>2, <1>9, <2>1 DEF TypeOK, AgentTypeOK
<1>11. \A q \in Runs : RowsKept(q)
  BY <1>9 DEF RowsKept, Dropped
<1>12. Resting(r)'
  BY <1>4, <1>9, <1>11 DEF Resting, RowsKept, RInv
<1>13. ScanOf(z, steps[r], calls[r], lines[r])
  BY <1>8 DEF ScanOf
<1> HIDE DEF s, z, op, sn
<1>14. ScanFits(h)'
  <2>1. Unfinished' = Unfinished /\ None \notin Unfinished
    BY <1>9 DEF Unfinished, AgentAssumption
  <2>2. QED
    BY <1>2, <1>4, <1>8, <1>9, <1>13, <2>1 DEF ScanFits, z
<1>15. QED
  BY <1>1, <1>4, <1>8, <1>9, <1>10, <1>11, <1>12, <1>14, ScanEffect DEF z

LEMMA ScanDoneStep ==
  ASSUME AgentAssumption, RInv, NEW h \in Hosts, ScanDone(h)
  PROVE  RInv'
<1>1. /\ up[h] = "scanning" /\ scan[h].stage = "pick" /\ scan[h].todo = {}
      /\ up' = [up EXCEPT ![h] = "up"]
      /\ scan' = [scan EXCEPT ![h] = NoScan]
      /\ UNCHANGED <<run, steps, calls, lines, acted, agent, dropped, advice, starts>>
  BY DEF ScanDone, Scanning, agentVars, store
<1>2. /\ TypeOK /\ scan[h].run = None
      /\ Unfinished \subseteq scan[h].todo \cup {scan[h].run}
      /\ \A g \in Hosts : g # h => up[g] = "down"
      /\ \A g \in Hosts : agent[g] = Idle
  BY <1>1, Scanned DEF ScanFits
<1>3. \A r \in Runs : run[r] \notin Open
  BY <1>1, <1>2 DEF Unfinished, AgentAssumption
<1>4. NoScan \in Scan
  BY Zero DEF NoScan, Scan
<1>5. TypeOK'
  BY <1>1, <1>2, <1>4 DEF TypeOK, AgentTypeOK
<1>6. /\ up'[h] = "up" /\ scan'[h] = NoScan
      /\ \A g \in Hosts : g # h => up'[g] = "down" /\ scan'[g] = scan[g]
  BY <1>1, <1>2 DEF TypeOK
<1>7. OneProcess'
  BY <1>1, <1>2, <1>6 DEF RInv, OneProcess
<1>8. \A r \in Runs : Dropped(r)' = Dropped(r)
  BY <1>1 DEF Dropped
<1>9. ASSUME NEW r \in Runs
      PROVE  Resting(r)' /\ Fits(h, r)'
  <2>1. Resting(r)
    BY DEF RInv
  <2>2. Resting(r)'
    BY <1>1, <1>8, <2>1 DEF Resting
  <2>3. agent'[h] = Idle /\ Idle.run # r /\ Idle.pc # "results" /\ Shape(Idle)
    BY <1>1, <1>2, IdleFacts DEF AgentAssumption
  <2>4. LinesOf(Idle, r, lines[r])
    BY <2>1, <2>3 DEF LinesOf, Resting
  <2>5. Dropped(r) \/ OpenOf(Idle, r, run[r], steps[r])
    BY <1>3, <2>1 DEF OpenOf, Resting
  <2>6. Dropped(r) \/ RunningOf(Idle, r, run[r], calls[r], advice[r])
    BY <1>3, <2>1 DEF RunningOf, Resting
  <2>7. Fits(h, r)'
    BY <1>1, <1>3, <1>8, <2>1, <2>3, <2>4, <2>5, <2>6 DEF Fits, Resting
  <2>8. QED
    BY <2>2, <2>7
<1>10. \A g \in Hosts : up'[g] # "scanning" /\ (up'[g] = "up" => g = h)
  BY <1>6
<1>11. \A g \in Hosts : Shape(agent[g])'
  BY <1>1 DEF RInv
<1>12. QED
  BY <1>5, <1>7, <1>9, <1>10, <1>11 DEF RInv

LEMMA StartHostStep ==
  ASSUME AgentAssumption, RecoveryAssumption, ~Shared, RInv, NEW h \in Hosts, Start(h)
  PROVE  RInv'
<1> DEFINE z == [NoScan EXCEPT !.todo = Leftovers]
<1>1. /\ \A g \in Hosts : up[g] = "down"
      /\ up' = [up EXCEPT ![h] = "scanning"]
      /\ scan' = [scan EXCEPT ![h] = z]
      /\ starts' = starts + 1 /\ starts < MaxStarts
      /\ UNCHANGED <<run, steps, calls, lines, acted, agent, dropped, advice>>
  BY DEF Start, agentVars, store
<1>2. TypeOK
  BY DEF RInv
<1>3. z \in Scan /\ z.stage = "pick" /\ z.run = None /\ z.todo = Unfinished
  BY Zero DEF NoScan, Scan, Leftovers, Unfinished
<1> HIDE DEF z
<1>4. TypeOK'
  <2>1. starts' \in 0 .. MaxStarts
    BY <1>1, <1>2 DEF TypeOK, RecoveryAssumption
  <2>2. up' \in [Hosts -> {"down", "scanning", "up"}] /\ scan' \in [Hosts -> Scan]
    BY <1>1, <1>2, <1>3 DEF TypeOK
  <2>3. QED
    BY <1>1, <1>2, <2>1, <2>2 DEF TypeOK, AgentTypeOK
<1>5. /\ up'[h] = "scanning" /\ scan'[h] = z
      /\ \A g \in Hosts : g # h => up'[g] = "down" /\ scan'[g] = scan[g]
  BY <1>1, <1>2 DEF TypeOK
<1>6. OneProcess'
  BY <1>1, <1>5 DEF RInv, OneProcess
<1>7. \A r \in Runs : Resting(r)'
  BY <1>1 DEF RInv, Resting, Dropped
<1>8. ScanFits(h)'
  BY <1>1, <1>3, <1>5 DEF ScanFits, Unfinished
<1>9. QED
  BY <1>1, <1>4, <1>5, <1>6, <1>7, <1>8 DEF RInv

LEMMA CrashStep ==
  ASSUME AgentAssumption, RInv, NEW h \in Hosts, Crash(h)
  PROVE  RInv'
<1>1. /\ up[h] # "down"
      /\ up' = [up EXCEPT ![h] = "down"]
      /\ scan' = [scan EXCEPT ![h] = NoScan]
      /\ agent' = [agent EXCEPT ![h] = Idle]
      /\ UNCHANGED <<run, steps, calls, lines, acted, dropped, advice, starts>>
  BY DEF Crash, store
<1>2. TypeOK /\ \A g \in Hosts : g # h => up[g] = "down"
  BY <1>1 DEF RInv, OneProcess, TypeOK
<1>3. NoScan \in Scan /\ Idle \in Memory /\ Shape(Idle)
  BY Zero, IdleFacts DEF NoScan, Scan
<1>4. TypeOK'
  BY <1>1, <1>2, <1>3 DEF TypeOK, AgentTypeOK
<1>5. /\ \A g \in Hosts : up'[g] = "down"
      /\ agent'[h] = Idle /\ scan'[h] = NoScan
      /\ \A g \in Hosts : g # h => agent'[g] = agent[g] /\ scan'[g] = scan[g]
  BY <1>1, <1>2 DEF TypeOK, AgentTypeOK
<1>6. OneProcess'
  BY <1>1, <1>2, <1>5 DEF RInv, OneProcess
<1>7. \A r \in Runs : Resting(r)'
  BY <1>1 DEF RInv, Resting, Dropped
<1>8. \A g \in Hosts : Shape(agent[g])'
  BY <1>3, <1>5 DEF RInv
<1>9. QED
  BY <1>4, <1>5, <1>6, <1>7, <1>8 DEF RInv

LEMMA ResolveStep ==
  ASSUME AgentAssumption, RInv, NEW h \in Hosts, NEW r \in Runs, NEW t \in Tools,
         ResolveUncertainTool(h, r, t)
  PROVE  RInv'
<1>1. PICK status \in {"running", "cancelled"} : calls' = [calls EXCEPT ![r][t] = status]
  BY DEF ResolveUncertainTool
<1>2. /\ up[h] = "up" /\ calls[r][t] = "uncertain"
      /\ UNCHANGED <<run, steps, lines, acted, agent, dropped, up, scan, advice, starts>>
  BY DEF ResolveUncertainTool, hostVars
<1>3. TypeOK /\ \A g \in Hosts : g # h => up[g] = "down"
  BY <1>2 DEF RInv, OneProcess, TypeOK
<1>4. /\ \A q \in Runs \ {r} : calls'[q] = calls[q]
      /\ calls'[r][t] = status /\ \A u \in Tools \ {t} : calls'[r][u] = calls[r][u]
      /\ calls' \in [Runs -> [Tools -> DOMAIN TOOL_CALL_TRANSITIONS \cup {"absent"}]]
  BY <1>1, <1>3, Domains DEF TypeOK, AgentTypeOK
<1>5. TypeOK'
  BY <1>2, <1>3, <1>4 DEF TypeOK, AgentTypeOK
<1>6. \A q \in Runs : Dropped(q)' = Dropped(q)
  BY <1>2 DEF Dropped
<1>7. ASSUME NEW q \in Runs
      PROVE  Fits(h, q)' /\ Resting(q)'
  <2> DEFINE a == agent[h]
  <2>1. Fits(h, q) /\ Resting(q)
    BY <1>2 DEF RInv
  <2>2. CASE q # r
    <3>1. calls'[q] = calls[q] /\ Dropped(q)' = Dropped(q)
      BY <1>4, <1>6, <2>2
    <3>2. QED
      BY <1>2, <2>1, <3>1 DEF Fits, Resting
  <2>3. CASE q = r
    <3>1. /\ a.run = r => RowsOf(a, run[r], steps[r]) /\ CallsOf(a, calls[r])
          /\ Dropped(r) \/ RunningOf(a, r, run[r], calls[r], advice[r])
          /\ ActedOf(calls[r], acted[r], advice[r])
      BY <2>1, <2>3 DEF Fits
    <3>2. Deferred(t, advice[r])
      BY <1>2, <3>1 DEF ActedOf
    <3> HIDE DEF a
    <3>3. a.run = r => CallsOf(a, calls'[r])
      <4>1. a \in Memory
        BY <1>3 DEF TypeOK, AgentTypeOK, a
      <4>2. \A u \in a.ids : u \in Tools
        BY <4>1 DEF Memory
      <4>3. a.run = r => CallsOf(a, calls[r])
        BY <3>1
      <4>4. \A u \in Tools : calls'[r][u] = calls[r][u] \/ (u = t /\ calls'[r][u] = status)
        BY <1>4
      <4>5. QED
        BY <1>2, <4>2, <4>3, <4>4 DEF CallsOf
    <3>4. Dropped(r) \/ RunningOf(a, r, run[r], calls'[r], advice[r])
      BY <1>4, <3>1, <3>2 DEF RunningOf
    <3>5. ActedOf(calls'[r], acted[r], advice[r])
      BY <1>4, <3>1 DEF ActedOf
    <3>6. Fits(h, r)'
      BY <1>2, <1>6, <2>1, <2>3, <3>3, <3>4, <3>5 DEF Fits, a
    <3>7. \A u \in Tools : calls'[r][u] = "running" /\ ~Deferred(u, advice[r])
            => calls[r][u] = "running"
      BY <1>4, <3>2
    <3>8. Resting(r)'
      BY <1>2, <1>6, <2>1, <2>3, <3>5, <3>7 DEF Resting, Deferred
    <3>9. QED
      BY <2>3, <3>6, <3>8
  <2>4. QED
    BY <2>2, <2>3
<1>8. OneProcess' /\ \A g \in Hosts : Shape(agent[g])'
  BY <1>2 DEF RInv, OneProcess
<1>9. \A g \in Hosts : up'[g] # "scanning" /\ (up'[g] = "up" => g = h)
  BY <1>2, <1>3
<1>10. QED
  BY <1>5, <1>7, <1>8, <1>9 DEF RInv
-----------------------------------------------------------------------------
LEMMA RecoveryInit ==
  ASSUME AgentAssumption, RecoveryAssumption, Init
  PROVE  RInv
<1>1. /\ run = [r \in Runs |-> "absent"] /\ steps = [r \in Runs |-> <<>>]
      /\ calls = [r \in Runs |-> [t \in Tools |-> "absent"]]
      /\ lines = [r \in Runs |-> [t \in Tools |-> [uses |-> 0, results |-> 0]]]
      /\ acted = [r \in Runs |-> {}]
      /\ agent = [h \in Hosts |-> Idle]
      /\ dropped = [h \in Hosts |-> {}]
      /\ up = [h \in Hosts |-> "down"]
      /\ scan = [h \in Hosts |-> NoScan]
      /\ advice = [r \in Runs |-> [t \in Tools |-> "none"]]
      /\ starts = 0
  BY DEF Init, AgentInit
<1>2. NoScan \in Scan /\ Idle \in Memory /\ Shape(Idle)
  BY Zero, IdleFacts DEF NoScan, Scan
<1>3. steps \in [Runs -> Seq(DOMAIN STEP_TRANSITIONS)] /\ \A r \in Runs : Len(steps[r]) <= MaxSteps
  <2>1. <<>> \in Seq(DOMAIN STEP_TRANSITIONS) /\ Len(<<>>) = 0 /\ 0 <= MaxSteps
    BY DEF AgentAssumption
  <2>2. QED
    BY <1>1, <2>1
<1>4. TypeOK
  BY <1>1, <1>2, <1>3 DEF TypeOK, AgentTypeOK, RecoveryAssumption
<1>5. OneProcess
  BY <1>1 DEF OneProcess
<1>6. \A r \in Runs : Resting(r)
  BY <1>1 DEF Resting, ActedOf
<1>7. QED
  BY <1>1, <1>2, <1>4, <1>5, <1>6 DEF RInv

LEMMA RecoveryStep ==
  ASSUME AgentAssumption, RecoveryAssumption, ~Shared, RInv, [Next]_vars
  PROVE  RInv'
<1>1. CASE UNCHANGED vars
  BY <1>1 DEF RInv, vars, agentVars, hostVars, store, TypeOK, AgentTypeOK, OneProcess, Resting,
              Fits, ScanFits, Unfinished, Dropped
<1>2. CASE Next
  <2>1. PICK h \in Hosts :
          \/ Start(h)
          \/ Recover(h)
          \/ up[h] = "up" /\ AgentNext(h) /\ UNCHANGED hostVars
          \/ \E r \in Runs, t \in Tools : ResolveUncertainTool(h, r, t)
          \/ Crash(h)
    BY <1>2 DEF Next
  <2>2. CASE Recover(h)
    <3>1. CASE ScanRun(h) \/ ScanDone(h) \/ ValidateTranscript(h) \/ RepairTranscript(h)
      BY <3>1, ScanRunStep, ScanDoneStep, ValidateStep, RepairStep
    <3>2. CASE InterruptRun(h) \/ \E t \in Tools : ReconcileTool(h, t)
      BY <3>2, InterruptRunStep, ReconcileStep
    <3>3. CASE \E i \in 1 .. MaxSteps : InterruptStep(h, i)
      BY <3>3, InterruptStepStep
    <3>4. QED
      BY <2>2, <3>1, <3>2, <3>3 DEF Recover
  <2>3. QED
    BY <2>1, <2>2, StartHostStep, AgentStep, ResolveStep, CrashStep
<1>3. QED
  BY <1>1, <1>2

(* What the rows, the agents and the scans look like, in all behaviours of   *)
(* processes that follow each other in a work directory.                     *)
THEOREM RecoveryInductive == ASSUME ~Shared PROVE Spec => []RInv
<1>1. Init => RInv
  BY AgentAssumption, RecoveryAssumption, RecoveryInit
<1>2. RInv /\ [Next]_vars => RInv'
  BY AgentAssumption, RecoveryAssumption, RecoveryStep
<1>3. QED
  BY <1>1, <1>2, PTL DEF Spec

(* The state of runs, agents and scans stays within its types. *)
THEOREM TypeCorrect == ASSUME ~Shared PROVE Spec => []TypeOK
<1>1. RInv => TypeOK
  BY DEF RInv
<1>2. QED
  BY <1>1, RecoveryInductive, PTL

(* RunsAccounted: the journal of runs, steps and calls agrees with what the   *)
(* agents did, through every end of a request, every crash and every start.  *)
THEOREM RunsAccountedHolds == ASSUME ~Shared PROVE Spec => []RunsAccounted
<1>1. RInv => RunsAccounted
  <2> SUFFICES ASSUME RInv
               PROVE  RunsAccounted
    OBVIOUS
  <2>1. Attended
    BY DEF Attended, Unfinished, Current, RInv, Fits
  <2>2. StatusFollowsAgent
    <3> SUFFICES ASSUME NEW h \in Hosts,
                        agent[h].pc \in Busy \cup {"ask"}
                 PROVE  LET a == agent[h] IN
                        /\ a.pc = "ask" => run[a.run] = "blocked"
                        /\ a.pc \in Busy => run[a.run] = "running"
                        /\ a.step # 0 /\ a.pc \in {"stream", "serve", "exec", "report"}
                             => steps[a.run][a.step] = "running"
      BY DEF StatusFollowsAgent, Busy
    <3>1. agent[h].pc # "idle"
      BY DEF Busy
    <3>2. up[h] = "up"
      BY <3>1, IdleFacts, AgentAssumption DEF RInv, OneProcess
    <3>3. PICK r \in Runs : agent[h].run = r
      BY <3>1, <3>2, InRequest, AgentAssumption
    <3>4. RowsOf(agent[h], run[r], steps[r])
      BY <3>2, <3>3, AtWork, AgentAssumption
    <3>5. QED
      BY <3>3, <3>4 DEF RowsOf
  <2>3. NoStepLeftOpen
    BY DEF NoStepLeftOpen, Closed, Open, RInv, Resting
  <2>4. WrittenAhead
    BY DEF WrittenAhead, RInv, Resting, ActedOf
  <2>5. NoneLeftRunning
    BY DEF NoneLeftRunning, RInv, Resting, Deferred, Open
  <2>6. QED
    BY <2>1, <2>2, <2>3, <2>4, <2>5 DEF RunsAccounted, RowsFollowAgents, CallsAccounted
<1>2. QED
  BY <1>1, RecoveryInductive, PTL
-----------------------------------------------------------------------------
(* A tool acts in Act, and nowhere else. *)
LEMMA ActsInAct ==
  ASSUME AgentAssumption, RInv, NEW h \in Hosts, up[h] = "up", AgentNext(h),
         NEW t \in agent'[h].did \ agent[h].did
  PROVE  t \in Tools /\ Act(h, t)
<1> DEFINE a == agent[h]
           b == agent'[h]
<1>1. agent \in [Hosts -> Memory] /\ a \in Memory /\ a.did \subseteq Tools
  BY DEF RInv, TypeOK, AgentTypeOK, Memory
<1>2. Idle.did = {}
  BY IdleFacts
<1>3. ASSUME NEW c, c.did = {}, agent' = [agent EXCEPT ![h] = c]
      PROVE  FALSE
  BY <1>1, <1>3
<1>4. ASSUME b.did = a.did \/ b.did = {}
      PROVE  FALSE
  BY <1>4
<1>5. \A status, step : Ended(h, status, step).did = {}
  BY <1>2 DEF Ended, Idle
<1>6. ~(BeginRun(h) \/ BeginStep(h) \/ Ask(h) \/ Return(h) \/ CloseStep(h) \/ AppendUses(h))
  BY <1>1, <1>4 DEF BeginRun, BeginStep, Ask, Return, CloseStep, AppendUses, Memory
<1>7. ~StartStep(h)
  BY <1>1, <1>4 DEF StartStep, Memory
<1>8. ~(IterationLimit(h) \/ LoopGuard(h) \/ UnknownTools(h) \/ Fail(h) \/ Cancel(h))
  BY <1>3, <1>5 DEF IterationLimit, LoopGuard, UnknownTools, Fail, Cancel, End
<1>9. ~(Drop(h) \/ CloseRun(h))
  BY <1>2, <1>3 DEF Drop, CloseRun
<1>10. ~\E r \in Runs : StartRun(h, r) \/ ResumeRun(h, r)
  BY <1>3 DEF StartRun, ResumeRun, Idle
<1>11. ~(ReplyText(h) \/ TurnDone(h) \/ \E allow \in BOOLEAN : Answer(h, allow))
  <2>1. ASSUME ReplyText(h)
        PROVE  b.did = a.did
    BY <1>1, <2>1 DEF ReplyText, Memory
  <2>2. ASSUME TurnDone(h)
        PROVE  b.did = a.did
    <3>1. PICK last : agent' = [agent EXCEPT ![h].pc = "turn", ![h].last = last, ![h].step = 0]
      BY <2>2 DEF TurnDone
    <3>2. QED
      BY <1>1, <3>1 DEF Memory
  <2>3. ASSUME NEW allow \in BOOLEAN, Answer(h, allow)
        PROVE  b.did = a.did
    <3>1. PICK pc, mode : agent' = [agent EXCEPT ![h].pc = pc, ![h].mode = mode]
      BY <2>3 DEF Answer
    <3>2. QED
      BY <1>1, <3>1 DEF Memory
  <2>4. QED
    BY <1>4, <2>1, <2>2, <2>3
<1>12. ASSUME NEW ts \in SUBSET Tools
       PROVE  ~Respond(h, ts) /\ ~Truncate(h, ts) /\ ~Launch(h, ts)
  <2>1. ~Respond(h, ts)
    <3> SUFFICES ASSUME Respond(h, ts)
                 PROVE  FALSE
      OBVIOUS
    <3>1. PICK ids : agent' = [agent EXCEPT ![h].pc = "serve", ![h].todo = ts, ![h].turn = ts,
                                           ![h].ids = ids]
      <4>1. PICK same : agent' = [agent EXCEPT ![h].pc = "serve", ![h].todo = ts, ![h].turn = ts,
                      ![h].ids = @ \cup {u \in ts : calls[Current(h)][u] = "absent"} \cup same]
        BY DEF Respond
      <4>2. QED
        BY <4>1
    <3>2. b.did = a.did
      BY <1>1, <3>1 DEF Memory
    <3>3. QED
      BY <1>4, <3>2
  <2>2. ~Truncate(h, ts)
    <3> SUFFICES ASSUME Truncate(h, ts)
                 PROVE  FALSE
      OBVIOUS
    <3>1. PICK pc : agent' = [agent EXCEPT ![h].pc = pc, ![h].todo = ts, ![h].turn = ts,
                                          ![h].step = 0]
      BY DEF Truncate
    <3>2. b.did = a.did
      BY <1>1, <3>1
    <3>3. QED
      BY <1>4, <3>2
  <2>3. ~Launch(h, ts)
    BY <1>1, <1>4 DEF Launch, Memory
  <2>4. QED
    BY <2>1, <2>2, <2>3
<1>13. ASSUME NEW u \in Tools
       PROVE  ~Reuse(h, u) /\ ~Withhold(h, u) /\ ~Report(h, u) /\ ~CancelCall(h, u)
  <2>1. ~Reuse(h, u) /\ ~CancelCall(h, u)
    BY <1>1, <1>4 DEF Reuse, CancelCall, Memory
  <2>2. ~Withhold(h, u)
    BY <1>1, <1>4 DEF Withhold, Memory
  <2>3. ~Report(h, u)
    <3> SUFFICES ASSUME Report(h, u)
                 PROVE  FALSE
      OBVIOUS
    <3> DEFINE c == IF a.batch = {u}
                    THEN [a EXCEPT !.pc = "serve", !.batch = {}, !.did = {}, !.mode = "free"]
                    ELSE [a EXCEPT !.batch = a.batch \ {u}]
    <3>1. agent' = [agent EXCEPT ![h] = c]
      BY DEF Report
    <3>2. c.did = a.did \/ c.did = {}
      BY <1>1 DEF Memory
    <3> HIDE DEF c
    <3>3. b = c
      BY <1>1, <3>1
    <3>4. QED
      BY <1>4, <3>2, <3>3
  <2>4. QED
    BY <2>1, <2>2, <2>3
<1>14. ~AppendResults(h)
  <2> SUFFICES ASSUME AppendResults(h)
               PROVE  FALSE
    OBVIOUS
  <2>1. CASE a.last
    BY <1>3, <1>5, <2>1 DEF AppendResults
  <2>2. CASE ~a.last
    BY <1>1, <1>4, <2>2 DEF AppendResults, Memory
  <2>3. QED
    BY <2>1, <2>2
<1>15. PICK u \in Tools : Act(h, u)
  BY <1>6, <1>7, <1>8, <1>9, <1>10, <1>11, <1>12, <1>13, <1>14 DEF AgentNext, Progress
<1>16. b.did = a.did \cup {u}
  BY <1>1, <1>15 DEF Act, Memory
<1>17. QED
  BY <1>15, <1>16

(* A start advises to retry only what has not acted, or only reads. *)
LEMMA RetriesOnlyUnacted ==
  ASSUME AgentAssumption, RInv, NEW h \in Hosts, NEW u \in Tools, ReconcileTool(h, u),
         NEW r \in Runs, NEW t \in Tools, advice'[r][t] = "retry", advice[r][t] # "retry"
  PROVE  t \notin acted[r]
<1> DEFINE s == scan[h]
<1>1. up[h] = "scanning" /\ s.stage = "calls"
  BY DEF ReconcileTool, Scanning
<1>2. PICK q \in Runs : s.run = q
  BY <1>1, Scanned
<1>3. TypeOK /\ Resting(q) /\ ScanOf(s, steps[q], calls[q], lines[q])
  BY <1>1, <1>2, Scanned
<1>4. s.seen[u] # "absent" /\ s.seen[u] = calls[q][u]
  BY <1>1, <1>3 DEF ReconcileTool, ScanOf
<1>5. PICK v \in Verdicts(u, calls[q][u]) : advice' = [advice EXCEPT ![q][u] = v[2]]
  BY <1>2, <1>4 DEF ReconcileTool
<1>6. r = q /\ t = u /\ v[2] = "retry"
  BY <1>3, <1>5 DEF TypeOK
<1>7. calls[q][u] = "pending" \/ Class[u] = "read"
  BY <1>5, <1>6 DEF Verdicts, AgentAssumption
<1>8. QED
  BY <1>3, <1>6, <1>7 DEF Resting, ActedOf

(* NothingActsTwice: no call acts again whose result is committed or whose   *)
(* outcome is open, and no start advises to.                                 *)
THEOREM ActsOnce == ASSUME ~Shared PROVE Spec => NothingActsTwice
<1> DEFINE Once ==
      \A t \in Tools :
        /\ \A h \in Hosts :
             t \in agent'[h].did \ agent[h].did /\ Registered(h, t) /\ Class[t] # "read"
               => calls[Current(h)][t] \notin {"completed", "uncertain"}
        /\ \A r \in Runs :
             advice'[r][t] = "retry" /\ advice[r][t] # "retry" => t \notin acted[r]
<1>1. ASSUME RInv, [Next]_vars
      PROVE  [Once]_vars
  <2> SUFFICES ASSUME Next
               PROVE  Once
    BY <1>1
  <2> USE AgentAssumption, <1>1
  <2>1. PICK g \in Hosts :
          \/ Start(g)
          \/ Recover(g)
          \/ up[g] = "up" /\ AgentNext(g) /\ UNCHANGED hostVars
          \/ \E r \in Runs, t \in Tools : ResolveUncertainTool(g, r, t)
          \/ Crash(g)
    BY DEF Next
  <2>2. TypeOK /\ agent \in [Hosts -> Memory]
    BY DEF RInv, TypeOK, AgentTypeOK
  <2>3. ASSUME NEW t \in Tools, NEW h \in Hosts, t \in agent'[h].did \ agent[h].did,
               Registered(h, t)
        PROVE  calls[Current(h)][t] \notin {"completed", "uncertain"}
    <3>1. ~Start(g) /\ ~Recover(g) /\ ~\E r \in Runs, u \in Tools : ResolveUncertainTool(g, r, u)
      BY <2>3 DEF Start, Recover, ScanRun, ScanDone, ValidateTranscript, RepairTranscript,
                  InterruptRun, ReconcileTool, InterruptStep, ResolveUncertainTool, agentVars
    <3>2. ~Crash(g)
      <4>1. Idle.did = {}
        BY IdleFacts
      <4>2. QED
        BY <2>2, <2>3, <4>1 DEF Crash
    <3>3. up[g] = "up" /\ AgentNext(g) /\ UNCHANGED hostVars
      BY <2>1, <3>1, <3>2
    <3>4. g = h
      <4> SUFFICES ASSUME g # h
                   PROVE  FALSE
        OBVIOUS
      <4>1. RInv'
        BY <3>3, AgentStep
      <4>2. up'[h] # "up" /\ up[h] # "up"
        BY <3>3 DEF RInv, OneProcess, hostVars
      <4>3. agent'[h] = Idle /\ agent[h] = Idle
        BY <4>1, <4>2 DEF RInv, OneProcess
      <4>4. QED
        BY <2>3, <4>3
    <3>5. Act(h, t)
      BY <2>3, <3>3, <3>4, ActsInAct
    <3>6. agent[h].pc = "exec" /\ t \in agent[h].batch \cap agent[h].ids
      BY <2>3, <3>5 DEF Act, At, Registered
    <3>7. PICK r \in Runs : agent[h].run = r
      BY <3>3, <3>4, <3>6, InRequest
    <3>8. CallsOf(agent[h], calls[r])
      BY <3>3, <3>4, <3>7, AtWork
    <3>9. QED
      BY <3>6, <3>7, <3>8 DEF CallsOf, Current
  <2>4. ASSUME NEW t \in Tools, NEW r \in Runs, advice'[r][t] = "retry", advice[r][t] # "retry"
        PROVE  t \notin acted[r]
    <3>0. advice' # advice
      BY <2>4
    <3>1. PICK u \in Tools : ReconcileTool(g, u)
      BY <2>1, <3>0 DEF Start, Recover, ScanRun, ScanDone, ValidateTranscript, RepairTranscript,
                        InterruptRun, InterruptStep, ResolveUncertainTool, Crash, hostVars
    <3>2. QED
      BY <2>4, <3>1, RetriesOnlyUnacted
  <2>5. QED
    BY <2>3, <2>4
<1>2. QED
  BY <1>1, RecoveryInductive, PTL DEF Spec, NothingActsTwice

(* TranscriptRepaired: the session file has no result without a use and none  *)
(* twice, and a start that closes a run leaves every committed result there. *)
THEOREM TranscriptHolds == ASSUME ~Shared PROVE Spec => TranscriptRepaired
<1> DEFINE Repaired ==
      \A r \in Runs, t \in Tools :
        /\ lines'[r][t].results <= lines'[r][t].uses
        /\ run'[r] = "interrupted" /\ run[r] # "interrupted"
           /\ (\E h \in Hosts : up[h] = "scanning")
           /\ calls[r][t] = "completed" /\ lines[r][t].uses > 0
             => lines[r][t].results > 0
<1>1. ASSUME RInv, RInv', [Next]_vars
      PROVE  [Repaired]_vars
  <2> SUFFICES ASSUME Next, NEW r \in Runs, NEW t \in Tools
               PROVE  /\ lines'[r][t].results <= lines'[r][t].uses
                      /\ run'[r] = "interrupted" /\ run[r] # "interrupted"
                         /\ (\E h \in Hosts : up[h] = "scanning")
                         /\ calls[r][t] = "completed" /\ lines[r][t].uses > 0
                           => lines[r][t].results > 0
    BY <1>1
  <2> USE AgentAssumption
  <2>1. lines'[r][t].results <= lines'[r][t].uses
    BY <1>1 DEF RInv, Resting
  <2>2. ASSUME run'[r] = "interrupted", run[r] # "interrupted",
               NEW h \in Hosts, up[h] = "scanning",
               calls[r][t] = "completed", lines[r][t].uses > 0
        PROVE  lines[r][t].results > 0
    <3>0. OneProcess /\ up \in [Hosts -> {"down", "scanning", "up"}]
      BY <1>1 DEF RInv, TypeOK
    <3>1. \A g \in Hosts : g # h => up[g] = "down"
      BY <2>2, <3>0 DEF OneProcess
    <3>1a. run' # run /\ \A g \in Hosts : up[g] # "up" /\ (up[g] = "scanning" => g = h)
      BY <2>2, <3>1
    <3>2. InterruptRun(h)
      <4>1. PICK g \in Hosts : \/ Start(g) \/ Recover(g) \/ up[g] = "up" \/ Crash(g)
                               \/ \E q \in Runs, u \in Tools : ResolveUncertainTool(g, q, u)
        BY Zenon DEF Next
      <4>2. up[g] # "up" /\ run' # run /\ (up[g] = "scanning" => g = h)
        BY <3>1a
      <4>3. ~Start(g)
        BY <4>2 DEF Start, agentVars, store
      <4>4. ~Crash(g)
        BY <4>2 DEF Crash, store
      <4>5. ~\E q \in Runs, u \in Tools : ResolveUncertainTool(g, q, u)
        BY <4>2 DEF ResolveUncertainTool
      <4>6. ~ScanRun(g) /\ ~ScanDone(g) /\ ~ValidateTranscript(g)
        BY <4>2 DEF ScanRun, ScanDone, ValidateTranscript, agentVars, store
      <4>7. ~RepairTranscript(g)
        BY <4>2, Zenon DEF RepairTranscript
      <4>8. \A u \in Tools : ~ReconcileTool(g, u)
        BY <4>2, Zenon DEF ReconcileTool
      <4>9. \A i \in 1 .. MaxSteps : ~InterruptStep(g, i)
        BY <4>2, Zenon DEF InterruptStep
      <4>10. InterruptRun(g)
        BY <4>1, <4>2, <4>3, <4>4, <4>5, <4>6, <4>7, <4>8, <4>9, Zenon DEF Recover
      <4>11. g = h
        BY <4>2, <4>10, Zenon DEF InterruptRun, Scanning
      <4> QED BY <4>10, <4>11
    <3>3. scan[h].stage = "steps"
      BY <3>2 DEF InterruptRun, Scanning
    <3>4. PICK q \in Runs : scan[h].run = q
      BY <1>1, <2>2, <3>3, Scanned
    <3>5. ScanOf(scan[h], steps[q], calls[q], lines[q]) /\ TypeOK
      BY <1>1, <2>2, <3>3, <3>4, Scanned
    <3>6. r = q
      BY <2>2, <3>2, <3>4, <3>5 DEF InterruptRun, TypeOK, AgentTypeOK
    <3>7. QED
      BY <2>2, <3>3, <3>5, <3>6 DEF ScanOf
  <2>3. QED
    BY <2>1, <2>2
<1>2. QED
  BY <1>1, RecoveryInductive, PTL DEF Spec, TranscriptRepaired
=============================================================================
