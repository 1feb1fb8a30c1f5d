----------------------------- MODULE MCPipeServer -----------------------------
(* Instances of PipeServer for TLC.                                         *)
EXTENDS PipeServer
===============================================================================
