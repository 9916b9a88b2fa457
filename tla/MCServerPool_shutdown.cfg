\* Two workers per node, two writing sessions on node2 and an idle one on
\* node1: node1's second worker must queue the INTERNAL_PUTs of both
\* writers, node2's sessions hold both its workers.  Every request is
\* answered, whether or not sessions are ever closed.  Once every session
\* has ended the servers sit idle, which is not a deadlock.
CONSTANTS
    n1 = n1  n2 = n2  c1 = c1  c2 = c2  c3 = c3
    Nodes <- MCNodes
    Clients <- MCClients3
    Home <- MCHome3
    Replicas <- MCNodes
    Workers = 2
    Gossipers = {}
    MaxReqs <- MCReqs3
    MaxConnects <- MCConnects1
SPECIFICATION Spec
PROPERTY ShutdownCompletes
CHECK_DEADLOCK FALSE
