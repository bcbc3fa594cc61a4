---------------------------- MODULE MCToolExecution ----------------------------
(***************************************************************************)
(* The TLC instance of the execution of tools: two calls, one of a tool    *)
(* that falls back on another one, as that does on it (as read_file and    *)
(* read_text_file do), the other one of a tool that has nothing to fall    *)
(* back on but shares the quota of the fallback; two attempts and one      *)
(* slot.                                                                   *)
(***************************************************************************)
EXTENDS ToolExecution

CONSTANTS c1, c2, a, b, d

MCRequested == [c \in Calls |-> IF c = c1 THEN a ELSE d]
MCFallbacks ==
  [t \in Tools |-> CASE t = a -> <<b>> [] t = b -> <<a>> [] t = d -> <<>>]
=============================================================================
