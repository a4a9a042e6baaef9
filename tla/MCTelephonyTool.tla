---------------------------- MODULE MCTelephonyTool ----------------------------
(***************************************************************************)
(* TelephonyTool with every command the tool has.                          *)
(***************************************************************************)
EXTENDS TelephonyTool

Table == INSTANCE CommandTable

MCCommands == Table!AllCommands
=============================================================================
