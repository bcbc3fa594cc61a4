--------------------------- MODULE MCMcpConnection ---------------------------
(***************************************************************************)
(* TLC instance of one connection: three threads and three requests, one   *)
(* error notification and one request of the server, so that two late      *)
(* answers can be on the wire ahead of the one a thread waits for, and the *)
(* server's number may be a past, a present or a future one.               *)
(***************************************************************************)
EXTENDS McpConnection
=============================================================================
