---------------------------- MODULE RequestReply ----------------------------
(***************************************************************************)
(* What the callers of one MCP server are promised: a call ends with the   *)
(* answer to its own request, computed once, or with an error, and it ends *)
(* for good.  A server that makes requests of its own may give them the    *)
(* number of a caller's request: only that call may then end with it.      *)
(* Nothing is said of the order in which calls are served.                 *)
(***************************************************************************)
EXTENDS Integers

CONSTANTS Callers, Requests, NoRequest

VARIABLES
  open,    \* the request each caller waits for
  got,     \* what each caller was given: answers, or requests of the server
  claimed  \* numbers that the server has given requests of its own

vars == <<open, got, claimed>>

Init ==
  /\ open = [c \in Callers |-> NoRequest]
  /\ got = [c \in Callers |-> {}]
  /\ claimed = {}

\* A request is made by one caller, once.
Ask(c, r) ==
  /\ open[c] = NoRequest
  /\ \A d \in Callers : open[d] # r /\ \A line \in got[d] : line.id # r
  /\ open' = [open EXCEPT ![c] = r]
  /\ UNCHANGED <<got, claimed>>

End(c, what) ==
  /\ open[c] # NoRequest
  /\ got' = [got EXCEPT ![c] = @ \cup {[what |-> what, id |-> open[c]]}]
  /\ open' = [open EXCEPT ![c] = NoRequest]
  /\ UNCHANGED claimed

Answer(c) == End(c, "answer")

Mistake(c) == open[c] \in claimed /\ End(c, "request")

Fail(c) ==
  /\ open[c] # NoRequest
  /\ open' = [open EXCEPT ![c] = NoRequest]
  /\ UNCHANGED <<got, claimed>>

Claim(r) ==
  /\ claimed' = claimed \cup {r}
  /\ UNCHANGED <<open, got>>

Next ==
  \/ \E c \in Callers :
       Answer(c) \/ Mistake(c) \/ Fail(c) \/ \E r \in Requests : Ask(c, r)
  \/ \E r \in Requests : Claim(r)

Spec == Init /\ [][Next]_vars
=============================================================================
