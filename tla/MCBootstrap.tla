---------------------------- MODULE MCBootstrap ----------------------------
(* The instance that TLC checks: two directories of routes, one connection,*)
(* one message, three workers, two signals, and six deployments, of which  *)
(* one loses its connection to RabbitMQ once and one twice.                *)
EXTENDS Bootstrap

CONSTANTS r1, r2, r3, w1, w2, w3, c1, m1, s1, s2

MCRouteFiles == <<{r1}, {r2, r3}>>
MCWorkerList == <<[deny |-> FALSE, name |-> "*"], [deny |-> TRUE, name |-> w2]>>
Deployment(services, servers, production, losses) ==
    [services |-> services, servers |-> servers, production |-> production, failures |-> losses]
MCDeployments == {Deployment({"mongo", "rabbit"}, {"consumer", "server"}, TRUE, 0),
                  Deployment({"mongo", "rabbit"}, {"consumer"}, TRUE, 2),
                  Deployment({"mongo", "memcached"}, {"worker", "dashboard"}, TRUE, 0),
                  Deployment({"sql", "rabbit"}, {"consumer", "worker"}, FALSE, 1),
                  Deployment({"memcached"}, {"consumer"}, TRUE, 0),
                  Deployment({"sql"}, {}, TRUE, 0)}
=============================================================================
