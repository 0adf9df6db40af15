--------------------------- MODULE WorkflowPromise ---------------------------
(***************************************************************************)
(* What a persistent workflow promises its user, without runs, leases,      *)
(* epochs or batches: a node starts behind its dependencies, a settled node *)
(* stays settled, a node that was stopped or refused waits for the user's   *)
(* confirmation, and no node is started more often than its automatic       *)
(* retries and the confirmations allow.                                     *)
(***************************************************************************)
EXTENDS Naturals

CONSTANTS Nodes, Deps, Retries

VARIABLES
  phase,    \* phase[n]: what the journal says of node n
  starts,   \* starts[n]: how many more times n may be started
  closed    \* the workflow is reported as completed

promise == <<phase, starts, closed>>

Init ==
  /\ phase = [n \in Nodes |-> "pending"]
  /\ starts = [n \in Nodes |-> 1 + Retries[n]]
  /\ closed = FALSE

Start(n) ==
  /\ ~closed
  /\ phase[n] = "pending"
  /\ starts[n] > 0
  /\ \A d \in Deps[n] : phase[d] = "settled"
  /\ phase' = [phase EXCEPT ![n] = "running"]
  /\ starts' = [starts EXCEPT ![n] = @ - 1]
  /\ UNCHANGED closed

(* Settled, held for the user, or, with starts to spare, tried again. *)
End(n) ==
  /\ phase[n] = "running"
  /\ \E p \in {"settled", "blocked"} \cup (IF starts[n] > 0 THEN {"pending"} ELSE {}) :
       phase' = [phase EXCEPT ![n] = p]
  /\ UNCHANGED <<starts, closed>>

(* An interruption holds every running node. *)
Interrupt ==
  /\ phase' = [n \in Nodes |-> IF phase[n] = "running" THEN "blocked" ELSE phase[n]]
  /\ UNCHANGED <<starts, closed>>

Confirm(n) ==
  /\ ~closed
  /\ phase[n] = "blocked"
  /\ phase' = [phase EXCEPT ![n] = "pending"]
  /\ starts' = [starts EXCEPT ![n] = @ + 1]
  /\ UNCHANGED closed

Close ==
  /\ \A n \in Nodes : phase[n] = "settled"
  /\ closed' = TRUE
  /\ UNCHANGED <<phase, starts>>

Next ==
  \/ \E n \in Nodes : Start(n) \/ End(n) \/ Confirm(n)
  \/ Interrupt
  \/ Close

Spec == Init /\ [][Next]_promise
=============================================================================
