---------------------------- MODULE MCMessageQCopy ----------------------------
(* Instances of MessageQCopy for TLC. *)
EXTENDS MessageQCopy, TLC

CONSTANTS t1, t2

MCTasks == {t1, t2}

\* One task with a reserved endpoint, one with an assigned one.
MCRequest == (t1 :> 0) @@ (t2 :> AssignAny)
===============================================================================
