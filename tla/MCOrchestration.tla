--------------------------- MODULE MCOrchestration ---------------------------
EXTENDS Orchestration, TLC

(* A reader with one retry and a writer that are ready together, and a join *)
(* behind the writer that shares a batch with the reader.                   *)
FlowDeps    == <<{}, {}, {2}>>
FlowKind    == <<"read", "write", "control">>
FlowRetries == <<1, 0, 0>>
=============================================================================
