\* One session on each node, one worker per node (a node with 8 workers
\* and 8 sessions behaves alike): does every request get its answer?
CONSTANTS
    n1 = n1  n2 = n2  c1 = c1  c2 = c2  c3 = c3
    Nodes <- MCNodes
    Clients <- MCClients2
    Home <- MCHome2
    Replicas <- MCNodes
    Workers = 1
    Gossipers = {}
    MaxReqs <- MCReqs2
    MaxConnects <- MCConnects2
SPECIFICATION Spec
PROPERTY RequestsReturn
CHECK_DEADLOCK FALSE
