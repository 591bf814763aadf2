--------------------------- MODULE MCReprocessing ---------------------------
(* The instance that TLC checks: a chain of two jobs that allow one and two *)
(* tries, one configured delay.                                            *)
EXTENDS Reprocessing, TLC

MCMaxTries == 1 :> 1 @@ 2 :> 2
MCDelays == <<5>>
=============================================================================
