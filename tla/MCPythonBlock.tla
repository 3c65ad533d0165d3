---- MODULE MCPythonBlock ----
(* One block at work, with tunable parameters and a forecast() of its own,   *)
(* and one that starts and stops on the same worker.                         *)
EXTENDS PythonBlock

CONSTANTS b1, b2

MCTunable == [b \in Block |-> IF b = b1 THEN Callback ELSE {}]
MCMaxCalls == [b \in Block |-> IF b = b1 THEN 1 ELSE 0]
====
