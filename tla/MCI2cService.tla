----------------------------- MODULE MCI2cService -----------------------------
(* I2cService for TLC: two tasks on one port, or each on its own.          *)
EXTENDS I2cService
CONSTANTS t1, t2, p1, p2
MCTasks == {t1, t2}
Shared == {[t \in MCTasks |-> p1]}
Apart  == {[t \in MCTasks |-> IF t = t1 THEN p1 ELSE p2]}
================================================================================
