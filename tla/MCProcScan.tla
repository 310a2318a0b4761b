------------------------------- MODULE MCProcScan -------------------------------
(* Instances of ProcScan for TLC. *)
EXTENDS ProcScan
================================================================================
