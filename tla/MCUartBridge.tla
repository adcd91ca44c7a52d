---------------------------- MODULE MCUartBridge ----------------------------
(***************************************************************************)
(* Instances of UartBridge for TLC.                                        *)
(***************************************************************************)
EXTENDS UartBridge
=============================================================================
