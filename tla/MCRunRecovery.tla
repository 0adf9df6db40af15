---------------------------- MODULE MCRunRecovery --------------------------
EXTENDS RunRecovery, TLC

CONSTANTS h1, h2, r1, read, edit, bash

(* One call of each class; a read may run beside another call. *)
MCClass == (read :> "read") @@ (edit :> "write") @@ (bash :> "external")
ToolClass == [t \in Tools |-> MCClass[t]]
=============================================================================
