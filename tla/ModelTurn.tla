------------------------------ MODULE ModelTurn ------------------------------
(***************************************************************************)
(* One request to the model and what runs around it: the stream is read     *)
(* under a token and a deadline, a failed attempt is replayed under the     *)
(* retry policy, the calls at the front of the answer that only read are    *)
(* started while it still streams, and the loop guard looks at the calls    *)
(* before they run (agent.py, runtime/execution.py, runtime/retry.py,       *)
(* runtime/loop_guard.py).  A call is abstracted to its signature.          *)
(***************************************************************************)
EXTENDS Naturals, Sequences, FiniteSets

CONSTANTS
    Signatures,   \* tool name and arguments, as the loop guard canonises them
    Readable,     \* those of enabled built-in tools that only read
    Permits,      \* max_concurrent_tools
    MaxStreamRetries,   \* retry_policy.max_retries
    MaxWait,      \* retry_policy.max_total_wait
    RepeatLimit,  \* loop_guard.repeat_limit
    MaxTurnCalls, MaxTurns, MaxChanges   \* bounds: calls of an answer, turns, outside changes

ASSUME TurnAssumption == /\ Readable \subseteq Signatures
                         /\ Permits \in Nat \ {0} /\ RepeatLimit \in Nat \ {0, 1}
                         /\ {MaxStreamRetries, MaxWait, MaxTurnCalls, MaxTurns, MaxChanges} \subseteq Nat

VARIABLES
    turn,     \* the request: where it is, retries, wait, the answer so far
    ahead,    \* the tasks of the StreamingExecutor, by position in the answer
    free,     \* the value of the semaphore _tool_capacity
    guard,    \* loop_guard: the last signature and how often it was seen
    world,    \* what may change meanwhile: denied signatures, registrations, token
    ran       \* the calls of the answers that ran: signature, whether read ahead

turnVars == <<turn, ahead, free, guard, world, ran>>

NewRequest(n) == [pc |-> "stream", n |-> n, tried |-> 0, waited |-> 0, calls |-> <<>>, at |-> 1,
                  prefix |-> TRUE, shadow |-> [last |-> {}, count |-> 0]]
NoTask == [st |-> "none", attempt |-> 0, seq |-> 0]

TurnInit ==
    /\ turn = NewRequest(1)
    /\ ahead = [i \in 1..MaxTurnCalls |-> NoTask]
    /\ free = Permits
    /\ guard = [last |-> {}, count |-> 0]
    /\ world = [denied |-> {}, seq |-> [s \in Signatures |-> 1], stop |-> FALSE, n |-> 0]
    /\ ran = <<>>

Holding == {i \in 1..MaxTurnCalls : ahead[i].st \in {"granted", "running"}}
Live == {i \in 1..MaxTurnCalls : ahead[i].st \in {"waiting", "granted", "running"}}
CanStream(s) == s \in Readable /\ s \notin world.denied

Seen(g, s) == [last |-> {s}, count |-> IF g.last = {s} THEN g.count + 1 ELSE 1]

\* A bug: one repetition too many.
BlocksLate(g) == g.count > RepeatLimit

Blocks(g) == g.count >= RepeatLimit

(***************************************************************************)
(* The stream.  The shadow guard is a copy of the guard and is only asked   *)
(* while the prefix lasts; the first call that may not run ahead ends it.   *)
(***************************************************************************)
StreamCall(s) ==
    /\ turn.pc = "stream" /\ ~world.stop /\ Len(turn.calls) < MaxTurnCalls
    /\ LET i == Len(turn.calls) + 1
           shadow == IF turn.prefix THEN Seen(turn.shadow, s) ELSE turn.shadow
           starts == turn.prefix /\ ~Blocks(shadow) /\ CanStream(s)
       IN /\ turn' = [turn EXCEPT !.calls = Append(@, s), !.shadow = shadow, !.prefix = starts]
          /\ ahead' = IF starts
                      THEN [ahead EXCEPT ![i] = [st |-> "waiting", attempt |-> turn.tried,
                                                 seq |-> world.seq[s]]]
                      ELSE ahead
    /\ UNCHANGED <<free, guard, world, ran>>

\* The semaphore's acquire is done; the task has not been resumed yet.
GrantPermit(i) ==
    /\ ahead[i].st = "waiting" /\ free > 0
    /\ free' = free - 1
    /\ ahead' = [ahead EXCEPT ![i].st = "granted"]
    /\ UNCHANGED <<turn, guard, world, ran>>

\* A bug: a read that is refused after it got its permit keeps it.
ReadStartsKeeping(i) ==
    /\ ahead[i].st = "granted" /\ ~world.stop
    /\ LET s == turn.calls[i] IN
       ahead' = [ahead EXCEPT ![i].st = IF world.seq[s] = ahead[i].seq /\ CanStream(s)
                                        THEN "running" ELSE "refused"]
    /\ UNCHANGED <<turn, free, guard, world, ran>>

\* wait() returns the permit and the tool starts, if it still may.
ReadStarts(i) ==
    /\ ahead[i].st = "granted" /\ ~world.stop
    /\ LET s == turn.calls[i] IN
       IF world.seq[s] = ahead[i].seq /\ CanStream(s)
       THEN ahead' = [ahead EXCEPT ![i].st = "running"] /\ UNCHANGED free
       ELSE ahead' = [ahead EXCEPT ![i].st = "refused"] /\ free' = free + 1
    /\ UNCHANGED <<turn, guard, world, ran>>

\* The tool returned, failed or ran into its deadline: a result all the same.
ReadReturns(i) ==
    /\ ahead[i].st = "running"
    /\ ahead' = [ahead EXCEPT ![i].st = "done"]
    /\ free' = free + 1
    /\ UNCHANGED <<turn, guard, world, ran>>

\* executor.shutdown() cancels the tasks and waits for them; a running tool
\* gives its permit back, one whose acquire was just done does not.
Shutdown ==
    /\ ahead' = [i \in 1..MaxTurnCalls |-> NoTask]
    /\ free' = free + Cardinality({i \in Holding : ahead[i].st = "running"})

(***************************************************************************)
(* decide(): a retryable error is retried while retries and waiting last;   *)
(* the partial answer is dropped and every task of the attempt stopped.     *)
(***************************************************************************)
Decision(retryable, delay) ==
    retryable /\ turn.tried < MaxStreamRetries /\ turn.waited + delay <= MaxWait

\* A bug: the reads of the failed attempt are left running.
StreamFailsLeaving(retryable, delay) ==
    /\ turn.pc = "stream" /\ ~world.stop
    /\ turn' = IF Decision(retryable, delay)
               THEN [turn EXCEPT !.pc = "backoff", !.tried = @ + 1, !.waited = @ + delay,
                                 !.calls = <<>>]
               ELSE [turn EXCEPT !.pc = "failed"]
    /\ UNCHANGED <<ahead, free, guard, world, ran>>

StreamFails(retryable, delay) ==
    /\ turn.pc = "stream" /\ ~world.stop
    /\ turn' = IF Decision(retryable, delay)
               THEN [turn EXCEPT !.pc = "backoff", !.tried = @ + 1, !.waited = @ + delay,
                                 !.calls = <<>>]
               ELSE [turn EXCEPT !.pc = "failed"]
    /\ Shutdown
    /\ UNCHANGED <<guard, world, ran>>

RetryNow ==
    /\ turn.pc = "backoff"
    /\ turn' = [turn EXCEPT !.pc = "stream", !.prefix = TRUE, !.shadow = guard]
    /\ UNCHANGED <<ahead, free, guard, world, ran>>

StreamEnds(truncated) ==
    /\ turn.pc = "stream" /\ ~world.stop
    /\ IF truncated
       THEN Shutdown /\ turn' = [turn EXCEPT !.pc = "answered", !.calls = <<>>]
       ELSE UNCHANGED <<ahead, free>> /\ turn' = [turn EXCEPT !.pc = "collect"]
    /\ UNCHANGED <<guard, world, ran>>

\* collect_results: the answer stands once every task has returned.
CollectResults ==
    /\ turn.pc = "collect" /\ Live = {}
    /\ turn' = [turn EXCEPT !.pc = "check"]
    /\ UNCHANGED <<ahead, free, guard, world, ran>>

\* The token is set: the stream, or the wait for the results, raises.
TurnCancelled ==
    /\ world.stop
    /\ \/ turn.pc \in {"stream", "backoff"}
       \/ turn.pc = "collect" /\ Live # {}
       \/ turn.pc = "execute" /\ turn.calls # <<>>
    /\ turn' = [turn EXCEPT !.pc = "cancelled"]
    /\ Shutdown
    /\ UNCHANGED <<guard, world, ran>>

(***************************************************************************)
(* _check_tool_loop, then the calls one by one.  A result read ahead stands *)
(* for the call only if the call could still be made, of the same           *)
(* registration.                                                            *)
(***************************************************************************)
Guards[i \in 0..MaxTurnCalls] ==
    IF i = 0 \/ i > Len(turn.calls) THEN guard ELSE Seen(Guards[i - 1], turn.calls[i])

CheckToolLoop ==
    /\ turn.pc = "check"
    /\ LET blocked == {i \in 1..Len(turn.calls) : Blocks(Guards[i])} IN
       IF blocked = {}
       THEN /\ turn' = [turn EXCEPT !.pc = "execute"]
            /\ guard' = IF turn.calls = <<>> THEN guard ELSE Guards[Len(turn.calls)]
       ELSE /\ turn' = [turn EXCEPT !.pc = "looped"]
            /\ guard' = Guards[CHOOSE i \in blocked : \A j \in blocked : i <= j]
    /\ UNCHANGED <<ahead, free, world, ran>>

\* A bug: what was read ahead is always taken.
ReusableAlways(i) == ahead[i].st = "done"

Reusable(i) == LET s == turn.calls[i] IN
    ahead[i].st = "done" /\ ahead[i].seq = world.seq[s] /\ CanStream(s)

RunCall ==
    /\ turn.pc = "execute" /\ turn.calls # <<>> /\ ~world.stop
    /\ LET i == turn.at IN
       /\ ran' = Append(ran, [sig |-> turn.calls[i], ahead |-> Reusable(i)])
       /\ turn' = IF i < Len(turn.calls) THEN [turn EXCEPT !.at = i + 1]
                                         ELSE [turn EXCEPT !.pc = "answered"]
    /\ UNCHANGED <<ahead, free, guard, world>>

\* An answer without calls ends the run; results (or a cut answer) ask again.
NextTurn ==
    \/ /\ turn.pc = "execute" /\ turn.calls = <<>>
       /\ turn' = [turn EXCEPT !.pc = "finished"]
       /\ UNCHANGED <<ahead, free, guard, world, ran>>
    \/ /\ turn.pc = "answered"
       /\ turn' = IF turn.n < MaxTurns THEN [NewRequest(turn.n + 1) EXCEPT !.shadow = guard]
                                       ELSE [turn EXCEPT !.pc = "finished"]
       /\ ahead' = [i \in 1..MaxTurnCalls |-> NoTask]
       /\ UNCHANGED <<free, guard, world, ran>>

(***************************************************************************)
(* Outside: a permission rule changes, a tool is registered again, the user *)
(* stops the run.                                                           *)
(***************************************************************************)
OutsideChange ==
    /\ world.n < MaxChanges
    /\ \/ \E s \in Readable : world' = [world EXCEPT !.denied = @ \cup {s}, !.n = @ + 1]
       \/ \E s \in Readable : world' = [world EXCEPT !.seq[s] = @ + 1, !.n = @ + 1]
       \/ world' = [world EXCEPT !.stop = TRUE, !.n = @ + 1]
    /\ UNCHANGED <<turn, ahead, free, guard, ran>>

StreamMoves ==
    \/ \E s \in Signatures : StreamCall(s)
    \/ \E retryable \in BOOLEAN, delay \in 0..1 : StreamFails(retryable, delay)
    \/ \E truncated \in BOOLEAN : StreamEnds(truncated)
ReadMoves(i) == GrantPermit(i) \/ ReadStarts(i) \/ ReadReturns(i)
TurnMoves == RetryNow \/ CollectResults \/ TurnCancelled \/ CheckToolLoop \/ RunCall \/ NextTurn

TurnNext == StreamMoves \/ (\E i \in 1..MaxTurnCalls : ReadMoves(i)) \/ TurnMoves \/ OutsideChange

TurnFairness == /\ WF_turnVars(StreamMoves)
                /\ \A i \in 1..MaxTurnCalls : WF_turnVars(ReadMoves(i))
                /\ WF_turnVars(TurnMoves)

TurnSpec == TurnInit /\ [][TurnNext]_turnVars /\ TurnFairness

-----------------------------------------------------------------------------
TurnTypeOK ==
    /\ turn.pc \in {"stream", "backoff", "collect", "check", "execute", "answered",
                    "finished", "failed", "cancelled", "looped"}
    /\ turn.calls \in UNION {[1..k -> Signatures] : k \in 0..MaxTurnCalls}
    /\ \A i \in 1..MaxTurnCalls : ahead[i].st \in {"none", "waiting", "granted", "running",
                                               "refused", "done"}
    /\ free \in 0..Permits
    /\ world.denied \subseteq Signatures

\* A read that was started early belongs to the attempt whose answer stands:
\* after a failed, cut or cancelled attempt none of its tasks is left, and
\* every call before a read that ran ahead was itself one that only reads.
ReadsOfThisAttempt ==
    \A i \in 1..MaxTurnCalls : ahead[i].st # "none" =>
        /\ turn.pc \in {"stream", "collect", "check", "execute", "answered", "finished", "looped"}
        /\ ahead[i].attempt = turn.tried
        /\ i <= Len(turn.calls)
        /\ \A j \in 1..i : turn.calls[j] \in Readable

\* No answer's tool call runs that is the same as the RepeatLimit - 1 calls that
\* ran just before it, over the turns of the run.
NoCallRepeatsForEver ==
    \A i \in 1..Len(ran) : i < RepeatLimit \/
        \E j \in (i - RepeatLimit + 1)..i : ran[j].sig # ran[i].sig

\* A permit disappears only with a task that is cancelled between the end of its
\* acquire and the return of wait(): the semaphore then stays one lower.
PermitsOnlyLostInTheRace ==
    [][free' + Cardinality(Holding') < free + Cardinality(Holding) =>
         \E i \in Holding : ahead[i].st = "granted" /\ ahead'[i].st = "none"]_turnVars

\* A result read ahead is given to a call only if the call is still allowed and
\* its tool has not been registered again since the read was started.
ReadAheadStillAllowed ==
    [][\A k \in 1..Len(ran') : k > Len(ran) /\ ran'[k].ahead =>
         /\ ran'[k].sig \notin world.denied
         /\ world.seq[ran'[k].sig] = ahead[turn.at].seq]_turnVars

\* Every request ends, unless all permits were lost: a wait for a permit has no
\* deadline of its own.
TurnSettled == \/ turn.pc \in {"finished", "failed", "cancelled", "looped"}
               \/ free + Cardinality(Holding) = 0
TurnsEnd == []<>TurnSettled
=============================================================================
