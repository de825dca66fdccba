--------------------------- MODULE MCLoadBalancer ---------------------------
(* Two clients for LoadBalancer: x sends two requests on its connection,   *)
(* while y comes, sends one, leaves and resets.                            *)
EXTENDS LoadBalancer

CONSTANTS x, y

Requests == [c \in Clients |-> IF c = x THEN 2 ELSE 1]

=============================================================================
