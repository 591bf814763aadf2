------------------------- MODULE MCBulkInsertBuffer -------------------------
(* The instance that TLC checks: batches of two, room for three, so that   *)
(* the size trigger, the timer and the drop all happen.                    *)
EXTENDS BulkInsertBuffer
=============================================================================
