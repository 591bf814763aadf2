------------------------ MODULE MCRabbitMqLifecycle ------------------------
(* The instance that TLC checks: two consumers, a pool of three, and       *)
(* failures at any moment.                                                 *)
EXTENDS RabbitMqLifecycle, TLC

=============================================================================
