---------------------------- MODULE MCRpmsgInit -----------------------------
(* RpmsgInit for TLC: three tasks. *)
EXTENDS RpmsgInit

CONSTANTS t1, t2, t3
MCTasks == {t1, t2, t3}
===============================================================================
