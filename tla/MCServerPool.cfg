\* Two workers per node, both nodes gossiping, an idle session on node1
\* and a writing session on node2: node1's second worker is shared by
\* node2's INTERNAL_PUTs and GOSSIP, node2's by node1's GOSSIP.  Every
\* request and every gossip send is answered, through stops, relaunches
\* and a reconnect, whether or not sessions are ever closed.  Once every
\* session has ended the servers sit idle, which is not a deadlock.
CONSTANTS
    n1 = n1  n2 = n2  c1 = c1  c2 = c2  c3 = c3
    Nodes <- MCNodes
    Clients <- MCClientsPool
    Home <- MCHomePool
    Replicas <- MCNodes
    Workers = 2
    Gossipers <- MCNodes
    MaxReqs <- MCReqsPool
    MaxConnects <- MCConnectsPool
SPECIFICATION Spec
INVARIANT TypeOK
PROPERTY RequestsReturn
CHECK_DEADLOCK FALSE
