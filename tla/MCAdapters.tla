----------------------------- MODULE MCAdapters -----------------------------
(***************************************************************************)
(* Adapters on three calls, one of which may be cancelled.  Two requests   *)
(* come over HTTP, the third from inside the process.  A queue of one is   *)
(* full at once, and a second is a few ticks.                              *)
(***************************************************************************)
EXTENDS Adapters

CONSTANTS c1, c2, c3

MCRoutes ==
    {[c \in {c1, c2, c3} |-> IF c = c3 THEN w ELSE "expressRateLimit"] :
        w \in {"guard", "tryAcquire"}}
=============================================================================
