----------------------------- MODULE MCVirtQueue -----------------------------
(***************************************************************************)
(* VirtQueue for TLC.  The indexes wrap after two rounds of the ring, so    *)
(* that every run crosses the wrap of the uint16_t many times.              *)
(***************************************************************************)
EXTENDS VirtQueue
===============================================================================
