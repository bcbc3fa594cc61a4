--------------------------- MODULE MCDndInterrupts ---------------------------
(***************************************************************************)
(* TLC instances of the deferred interrupts: a routine, an urgent and a    *)
(* critical recommendation, handed over more often than the queue has room *)
(* for.  The urgent one is queued at the strongest level only.             *)
(***************************************************************************)
EXTENDS DndInterrupts

CONSTANTS notify, warn, alarm

MCRecs == {notify, warn, alarm}
MCUrgencyOf == (notify :> "routine") @@ (warn :> "high") @@ (alarm :> "critical")
MCLevels == {"off", "high", "critical"}
=============================================================================
