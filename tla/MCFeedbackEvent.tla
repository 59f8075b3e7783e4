-------------------------- MODULE MCFeedbackEvent --------------------------
(***************************************************************************)
(* A coroutine asks without a limit, a worker in the pool with a timeout;   *)
(* a third request is made by mistake in the main thread.                  *)
(***************************************************************************)
EXTENDS FeedbackEvent

CONSTANTS r1, r2, r3, yes, no

Callers == [r \in {r1, r2, r3} |-> CASE r = r1 -> "async" [] r = r2 -> "pool" [] OTHER -> "main"]
=============================================================================
