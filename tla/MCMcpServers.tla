---------------------------- MODULE MCMcpServers ----------------------------
(***************************************************************************)
(* TLC instances of one MCP server: the monitor and one other thread,      *)
(* which asks for three operations, and two faults.  Up to four processes  *)
(* are referred to at once: by the two entries and by the two threads.     *)
(***************************************************************************)
EXTENDS McpServers
=============================================================================
