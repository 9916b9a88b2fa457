--------------------------- MODULE MCServerPool ---------------------------
(***************************************************************************)
(* Two nodes, both replicas of the key (N = 3 capped by the ring's size).  *)
(***************************************************************************)
EXTENDS ServerPool, TLC

CONSTANTS n1, n2, c1, c2, c3

MCNodes == {n1, n2}
\* An idle CLI session on node1 (connected, sends nothing) and a session on
\* node2 that sends two PUTs and may reconnect once after a lost
\* connection.
MCClientsPool == {c1, c2}
MCHomePool == (c1 :> n1) @@ (c2 :> n2)
MCReqsPool == (c1 :> 0) @@ (c2 :> 2)
MCConnectsPool == (c1 :> 1) @@ (c2 :> 2)
\* The idle session on node1 and two writing sessions on node2.
MCClients3 == {c1, c2, c3}
MCHome3 == (c1 :> n1) @@ (c2 :> n2) @@ (c3 :> n2)
MCReqs3 == (c1 :> 0) @@ (c2 :> 2) @@ (c3 :> 2)
MCConnects1 == [c \in MCClients3 |-> 1]
\* One session on each node.
MCClients2 == {c1, c2}
MCHome2 == (c1 :> n1) @@ (c2 :> n2)
MCReqs2 == [c \in MCClients2 |-> 1]
MCConnects2 == [c \in MCClients2 |-> 1]
====
