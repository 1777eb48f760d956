---------------------------- MODULE MCPowerManager ----------------------------
(***************************************************************************)
(* PowerManager for TLC: the console and the watchdog, and the notifiers   *)
(* of the accelerometer and of the CAN task for stand-by.                  *)
(***************************************************************************)
EXTENDS PowerManager

CONSTANTS cli, acc, can
MCNotifiers == {acc, can}
MCOf        == [n \in MCNotifiers |-> "sby"]
===============================================================================
