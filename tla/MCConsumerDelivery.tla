------------------------- MODULE MCConsumerDelivery -------------------------
(* The instance that TLC checks: a message that parses and one that does   *)
(* not, two consumers in succession, three deliveries.                     *)
EXTENDS ConsumerDelivery, TLC
=============================================================================
