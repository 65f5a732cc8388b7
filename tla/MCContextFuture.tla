--------------------------- MODULE MCContextFuture --------------------------
(* ContextFuture for TLC: an interval of two ticks, or none.                *)
EXTENDS ContextFuture

CONSTANTS k1, k2    \* the ticks

MCTick == [t \in Streamed |-> IF t = k1 THEN k2 ELSE NoMsg]
=============================================================================
