-------------------------------- MODULE MCMbox --------------------------------
(***************************************************************************)
(* Mbox for TLC: two tasks and two channels; each task on a channel of its *)
(* own (Apart), or both on both (Shared).                                  *)
(***************************************************************************)
EXTENDS Mbox

CONSTANTS t1, t2
MCTasks == {t1, t2}
Apart   == [t \in MCTasks |-> IF t = t1 THEN {0} ELSE {1}]
Shared  == [t \in MCTasks |-> {0}]
First   == [t \in MCTasks |-> IF t = t1 THEN {0} ELSE {}]
Quiet   == [t \in MCTasks |-> {}]
===============================================================================
