------------------------------- MODULE Option -------------------------------
(* What the data engine's Option values and empty table cells hold when    *)
(* they hold nothing: one value for all its modules.                       *)
CONSTANT None
=============================================================================
