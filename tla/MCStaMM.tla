--------------------------------- MODULE MCStaMM ---------------------------------
(* Instance of StaMM for TLC.                                              *)
EXTENDS StaMM
================================================================================
