------------------------------- MODULE MCRpmsgMM -------------------------------
(* Instances of RpmsgMM for TLC.                                           *)
EXTENDS RpmsgMM, TLC
CONSTANTS t1, t2, a1
MCTasks == {t1, t2}
\* A driver that locks a resource of one peer, and one that informs all of them.
OneAndAll == t1 :> {<<a1, TRUE>>} @@ t2 :> {All} \X BOOLEAN
================================================================================
