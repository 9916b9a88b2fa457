---------------------------- MODULE ServerPool ----------------------------
(***************************************************************************)
(* The request path across nodes, as far as threads are concerned          *)
(* (tcp_server.cpp, thread_pool.h, kv_client.cpp, replication.cpp).        *)
(*                                                                         *)
(* Each node's accept loop takes every connection at once (the kernel's    *)
(* backlog completes the handshake) and submits HandleConnection to a      *)
(* fixed pool of Workers threads; the task queue is FIFO.  A worker keeps  *)
(* its connection until the peer closes it: the CLI holds one connection   *)
(* for a whole session.  A client PUT is coordinated on the worker that    *)
(* reads it: one std::async task per remote replica opens a fresh          *)
(* connection to that replica, sends INTERNAL_PUT and blocks in            *)
(* RecvMessage, which has no timeout; the worker waits for every task      *)
(* (fut.get()).  The replica's worker answers and then sees the            *)
(* connection closed by the task's KVClient destructor.                    *)
(*                                                                         *)
(* The gossip thread of each node in Gossipers is a client too: every      *)
(* round it connects to each alive peer in turn (all peers are alive       *)
(* here), sends GOSSIP and blocks in RecvMessage until a worker of the     *)
(* peer handles it; its KVClient then closes the connection.               *)
(*                                                                         *)
(* Shutdown (main.cpp): on SIGINT/SIGTERM membership.Stop() clears its     *)
(* running_ and joins the gossip thread, which ends its round first; then  *)
(* TCPServer::Stop clears running_ and closes the listening socket, so     *)
(* later connects are refused; main then returns and ~ThreadPool joins     *)
(* every worker after the queue drains.                                    *)
(* A worker tests running_ only between two requests of its connection.    *)
(*                                                                         *)
(* Every member is alive here; storage and the message contents do not     *)
(* matter to who waits for whom.                                           *)
(***************************************************************************)
EXTENDS Naturals, Sequences, FiniteSets

CONSTANTS
    Nodes,      \* node ids
    Clients,    \* client sessions (kv_cli processes)
    Home,       \* [Clients -> Nodes]: the node a session is connected to
    Replicas,   \* the preference list of the key the clients write
    Workers,    \* config::THREAD_POOL_SIZE
    Gossipers,  \* nodes whose gossip thread is modelled
    MaxReqs,    \* [Clients -> Nat]: requests each session sends at most
    MaxConnects \* [Clients -> Nat]: connections each session opens at most

ASSUME Home \in [Clients -> Nodes] /\ Replicas \subseteq Nodes
ASSUME Workers \in Nat \ {0} /\ MaxReqs \in [Clients -> Nat] /\ Gossipers \subseteq Nodes
ASSUME MaxConnects \in [Clients -> Nat \ {0}]

\* A connection is the k-th connection session c opened, or the one a
\* coordinator's task opened to replica r for request i of session c.
ClientConns == UNION {{<<c, k>> : k \in 1..MaxConnects[c]} : c \in Clients}
Internal == UNION {{<<c, r, i>> : r \in Nodes, i \in 1..MaxReqs[c]} : c \in Clients}
\* The connection n's gossip thread opened to peer t.
GossipConns == {<<n, t>> : n \in Nodes, t \in Nodes}
Conns == ClientConns \cup Internal \cup GossipConns

VARIABLES
    session,   \* "out" (kv_cli not started), "open" (at the prompt),
               \* "sent" (request unread), "handled" (its worker is
               \* coordinating it), "lost" (fd_ = -1 after a failed
               \* request; the CLI goes on), "closed" (quit, EOF, or the
               \* first Connect failed)
    conn,      \* conn[c]: connections session c has opened; <<c, conn[c]>>
               \* is the current one
    sent,      \* requests each session has sent
    queue,     \* queue[n]: accepted connections waiting for a worker (tasks_)
    busy,      \* busy[n]: connections n's workers are running HandleConnection on
    calls,     \* calls[c]: replicas whose INTERNAL_PUT reply c's coordinator awaits
    phase,     \* phase[n]: "serving" (running_), "leaving" (membership
               \* stopped, the server not yet), "stopping" (TCPServer::Stop
               \* returned, the pool not yet destroyed), "exited"
    gleft,     \* gleft[n]: peers n's gossip thread has still to send to
    gwait      \* gwait[n]: {t} while it waits for t's reply, else {}

vars == <<session, conn, sent, queue, busy, calls, phase, gleft, gwait>>

Cur(c) == <<c, conn[c]>>

\* The server still holds c's connection: queued for, or run by, a worker.
Held(c) == Cur(c) \in busy[Home[c]] \/ \E i \in DOMAIN queue[Home[c]] : queue[Home[c]][i] = Cur(c)

Init ==
    /\ session = [c \in Clients |-> "out"]
    /\ conn = [c \in Clients |-> 0]
    /\ sent = [c \in Clients |-> 0]
    /\ queue = [n \in Nodes |-> <<>>]
    /\ busy = [n \in Nodes |-> {}]
    /\ calls = [c \in Clients |-> {}]
    /\ phase = [n \in Nodes |-> "serving"]
    /\ gleft = [n \in Nodes |-> {}]
    /\ gwait = [n \in Nodes |-> {}]

\* KVClient::Connect succeeds on a node whose listening socket is open (the
\* kernel completes the handshake from the backlog); after Stop it is
\* refused.  The connect timeout never fires between live hosts.
Accepts(n) == phase[n] \in {"serving", "leaving"}

\* ThreadPool::Submit: the task joins the back of the FIFO queue.
Submit(q, n, x) == [q EXCEPT ![n] = Append(@, x)]

\* KVClient::Connect on a new connection, then AcceptLoop: accept and
\* pool_.Submit(HandleConnection).
OpenConn(c) ==
    /\ conn' = [conn EXCEPT ![c] = @ + 1]
    /\ queue' = Submit(queue, Home[c], <<c, conn[c] + 1>>)

\* kv_cli starts and connects to --host:--port.
Connect(c) ==
    /\ session[c] = "out" /\ Accepts(Home[c])
    /\ session' = [session EXCEPT ![c] = "open"]
    /\ OpenConn(c)
    /\ UNCHANGED <<sent, busy, calls, phase, gleft, gwait>>

\* The first Connect is refused: kv_cli prints the failure and returns 1.
ConnectRefused(c) ==
    /\ session[c] = "out" /\ ~Accepts(Home[c])
    /\ session' = [session EXCEPT ![c] = "closed"]
    /\ UNCHANGED <<conn, sent, queue, busy, calls, phase, gleft, gwait>>

\* The next command after a lost connection: !IsConnected(), so the CLI
\* calls Connect again and sends the command on the new connection;
\* refused, it prints "Cannot reconnect" and reads the next line, which
\* changes nothing.
Reconnect(c) ==
    /\ session[c] = "lost" /\ sent[c] < MaxReqs[c]
    /\ conn[c] < MaxConnects[c] /\ Accepts(Home[c])
    /\ session' = [session EXCEPT ![c] = "sent"]
    /\ sent' = [sent EXCEPT ![c] = @ + 1]
    /\ OpenConn(c)
    /\ UNCHANGED <<busy, calls, phase, gleft, gwait>>

\* Mutant: tasks are started whether or not a worker is free.
DispatchNoLimit(n) ==
    /\ queue[n] # <<>> /\ Accepts(n)
    /\ busy' = [busy EXCEPT ![n] = @ \cup {Head(queue[n])}]
    /\ queue' = [queue EXCEPT ![n] = Tail(@)]
    /\ UNCHANGED <<session, sent, calls, phase, gleft, gwait, conn>>

\* WorkerLoop: a free worker pops the oldest task and runs it; while
\* running_ holds, HandleConnection keeps the connection.
Dispatch(n) ==
    /\ queue[n] # <<>> /\ Accepts(n)
    /\ Cardinality(busy[n]) < Workers
    /\ busy' = [busy EXCEPT ![n] = @ \cup {Head(queue[n])}]
    /\ queue' = [queue EXCEPT ![n] = Tail(@)]
    /\ UNCHANGED <<session, sent, calls, phase, gleft, gwait, conn>>

\* The server closes connection cn: a client waiting in RecvMessage gets
\* no response and closes its socket; a coordinator task's call fails; a
\* gossip send fails and the gossip thread goes on with its round.
ServerCloses(cn) ==
    CASE cn \in ClientConns ->
           /\ session' = [session EXCEPT ![cn[1]] =
                             IF @ = "sent" /\ cn = Cur(cn[1]) THEN "lost" ELSE @]
           /\ UNCHANGED <<calls, gwait>>
      [] cn \in GossipConns ->
           /\ gwait' = [gwait EXCEPT ![cn[1]] = {}]
           /\ UNCHANGED <<session, calls>>
      [] OTHER ->
           /\ calls' = [calls EXCEPT ![cn[1]] = @ \ {cn[2]}]
           /\ UNCHANGED <<session, gwait>>

\* After Stop, a worker still pops queued tasks (the queue drains before
\* WorkerLoop returns), but HandleConnection's while (running_) does not
\* run: the connection is closed at once.
DispatchClosed(n) ==
    /\ queue[n] # <<>> /\ ~Accepts(n)
    /\ Cardinality(busy[n]) < Workers
    /\ queue' = [queue EXCEPT ![n] = Tail(@)]
    /\ ServerCloses(Head(queue[n]))
    /\ UNCHANGED <<sent, busy, phase, gleft, conn>>

\* A put/get/delete command: SendRequest's SendMessage.  On a connection
\* the server has closed, the request fails: the client closes its socket
\* (fd_ = -1) and the CLI prints "Connection lost".
Send(c) ==
    /\ session[c] = "open" /\ sent[c] < MaxReqs[c]
    /\ session' = [session EXCEPT ![c] = IF Held(c) THEN "sent" ELSE "lost"]
    /\ sent' = [sent EXCEPT ![c] = @ + 1]
    /\ UNCHANGED <<queue, busy, calls, phase, gleft, gwait, conn>>

\* HandleConnection reads the PUT; ReplicatedPut writes locally and
\* starts one task per remote replica, each connecting to its replica;
\* a replica whose listening socket is closed refuses the connect.
Coordinate(c) ==
    LET reached == {r \in Replicas \ {Home[c]} : Accepts(r)} IN
    /\ Cur(c) \in busy[Home[c]] /\ session[c] = "sent"
    /\ session' = [session EXCEPT ![c] = "handled"]
    /\ calls' = [calls EXCEPT ![c] = reached]
    /\ queue' = [n \in Nodes |-> IF n \in reached THEN Append(queue[n], <<c, n, sent[c]>>)
                                 ELSE queue[n]]
    /\ UNCHANGED <<sent, busy, phase, gleft, gwait, conn>>

\* Mutant: the task's connection is kept open (pooled) after the reply, so
\* the replica's worker stays in HandleConnection.
ServeKeepsWorker(c, r) ==
    /\ <<c, r, sent[c]>> \in busy[r] /\ r \in calls[c]
    /\ calls' = [calls EXCEPT ![c] = @ \ {r}]
    /\ UNCHANGED <<session, sent, queue, busy, phase, gleft, gwait, conn>>

\* The replica's worker handles INTERNAL_PUT and replies; the task returns
\* and its KVClient closes the connection, so the worker's next
\* RecvMessage fails and it goes back to the pool.
Serve(c, r) ==
    /\ <<c, r, sent[c]>> \in busy[r]
    /\ busy' = [busy EXCEPT ![r] = @ \ {<<c, r, sent[c]>>}]
    /\ calls' = [calls EXCEPT ![c] = @ \ {r}]
    /\ UNCHANGED <<session, sent, queue, phase, gleft, gwait, conn>>

\* Every future is in: the coordinator answers on the session's connection.
\* Then HandleConnection tests running_: after Stop it closes the
\* connection and the worker returns to the pool.
Reply(c) ==
    /\ session[c] = "handled" /\ calls[c] = {}
    /\ session' = [session EXCEPT ![c] = "open"]
    /\ busy' = IF Accepts(Home[c]) THEN busy
              ELSE [busy EXCEPT ![Home[c]] = @ \ {Cur(c)}]
    /\ UNCHANGED <<sent, queue, calls, phase, gleft, gwait, conn>>

\* quit, exit or end of input: main returns and ~KVClient closes the socket.
Close(c) ==
    /\ session[c] \in {"open", "lost"}
    /\ session' = [session EXCEPT ![c] = "closed"]
    /\ UNCHANGED <<sent, queue, busy, calls, phase, gleft, gwait, conn>>

\* HandleConnection's RecvMessage fails on the closed socket; the worker
\* closes it and returns to the pool.
Drop(c) ==
    /\ session[c] = "closed" /\ Cur(c) \in busy[Home[c]]
    /\ busy' = [busy EXCEPT ![Home[c]] = @ \ {Cur(c)}]
    /\ UNCHANGED <<session, sent, queue, calls, phase, gleft, gwait, conn>>

(***************************************************************************)
(* GossipLoop of a node in Gossipers, while membership's running_ holds:   *)
(* a round picks the alive peers (GOSSIP_FANOUT covers them all here).     *)
(***************************************************************************)
GossipRound(n) ==
    /\ n \in Gossipers /\ phase[n] = "serving"
    /\ gleft[n] = {} /\ gwait[n] = {}
    /\ gleft' = [gleft EXCEPT ![n] = Nodes \ {n}]
    /\ UNCHANGED <<session, sent, queue, busy, calls, phase, gwait, conn>>

\* KVClient::Connect to the next peer, then SendGossip; a peer whose
\* listening socket is closed refuses, the exception is logged and the
\* round goes on.  The send then waits in RecvMessage.
GossipSend(n, t) ==
    /\ t \in gleft[n] /\ gwait[n] = {}
    /\ gleft' = [gleft EXCEPT ![n] = @ \ {t}]
    /\ IF Accepts(t)
       THEN /\ gwait' = [gwait EXCEPT ![n] = {t}]
            /\ queue' = Submit(queue, t, <<n, t>>)
       ELSE UNCHANGED <<gwait, queue>>
    /\ UNCHANGED <<session, sent, busy, calls, phase, conn>>

\* The peer's worker handles GOSSIP (HandleGossip) and replies; the
\* sender's KVClient closes the connection and the worker's next
\* RecvMessage fails, so it returns to the pool.
ServeGossip(n, t) ==
    /\ <<n, t>> \in busy[t]
    /\ busy' = [busy EXCEPT ![t] = @ \ {<<n, t>>}]
    /\ gwait' = [gwait EXCEPT ![n] = {}]
    /\ UNCHANGED <<session, sent, queue, calls, phase, gleft, conn>>

\* SIGTERM: membership.Stop() clears its running_ and joins the gossip
\* thread (and the failure detector, which never blocks).
Leave(n) ==
    /\ phase[n] = "serving"
    /\ phase' = [phase EXCEPT ![n] = "leaving"]
    /\ UNCHANGED <<session, sent, queue, busy, calls, gleft, gwait, conn>>

\* The join returns once the gossip thread has finished its round; then
\* TCPServer::Stop clears running_, closes the listening socket and joins
\* the accept thread.
Stop(n) ==
    /\ phase[n] = "leaving" /\ gleft[n] = {} /\ gwait[n] = {}
    /\ phase' = [phase EXCEPT ![n] = "stopping"]
    /\ UNCHANGED <<session, sent, queue, busy, calls, gleft, gwait, conn>>

\* main returns; ~ThreadPool sets stop_ and joins the workers, which
\* return once the queue is empty and their tasks have returned.
Exit(n) ==
    /\ phase[n] = "stopping" /\ queue[n] = << >> /\ busy[n] = {}
    /\ phase' = [phase EXCEPT ![n] = "exited"]
    /\ UNCHANGED <<session, sent, queue, busy, calls, gleft, gwait, conn>>

\* The node is launched again: main starts a new TCPServer (socket, bind,
\* listen, a fresh pool, the accept thread), then membership.
Relaunch(n) ==
    /\ phase[n] = "exited"
    /\ phase' = [phase EXCEPT ![n] = "serving"]
    /\ UNCHANGED <<session, sent, queue, busy, calls, gleft, gwait, conn>>

Next ==
    \/ \E c \in Clients : Connect(c) \/ ConnectRefused(c) \/ Reconnect(c) \/ Send(c)
                          \/ Coordinate(c) \/ Reply(c) \/ Close(c) \/ Drop(c)
    \/ \E n \in Nodes : Dispatch(n) \/ DispatchClosed(n) \/ Leave(n) \/ Stop(n) \/ Exit(n)
                        \/ Relaunch(n) \/ GossipRound(n)
    \/ \E c \in Clients, r \in Nodes : Serve(c, r)
    \/ \E n, t \in Nodes : GossipSend(n, t) \/ ServeGossip(n, t)

(***************************************************************************)
(* Threads that can run do run: pool workers, the coordinator's tasks, the *)
(* replica handlers, the gossip thread (it loops for ever with a sleep)    *)
(* and main once the joins return.  What users do (connect, send, end a    *)
(* session) and the signal that stops a node are up to them and get no     *)
(* fairness: a CLI session may stay open for ever.                         *)
(***************************************************************************)
Fairness ==
    /\ \A n \in Nodes : WF_vars(Dispatch(n)) /\ WF_vars(DispatchClosed(n)) /\ WF_vars(Exit(n))
                      /\ WF_vars(Stop(n)) /\ WF_vars(GossipRound(n))
    /\ \A n, t \in Nodes : WF_vars(GossipSend(n, t)) /\ WF_vars(ServeGossip(n, t))
    /\ \A c \in Clients : WF_vars(Coordinate(c)) /\ WF_vars(Reply(c)) /\ WF_vars(Drop(c))
    /\ \A c \in Clients, r \in Nodes : WF_vars(Serve(c, r))

Spec == Init /\ [][Next]_vars /\ Fairness

-----------------------------------------------------------------------------
\* Types, and no pool runs more connections than it has workers.
TypeOK ==
    /\ session \in [Clients -> {"out", "open", "sent", "handled", "lost", "closed"}]
    /\ conn \in [Clients -> Nat] /\ \A c \in Clients : conn[c] <= MaxConnects[c]
    /\ sent \in [Clients -> Nat] /\ \A c \in Clients : sent[c] <= MaxReqs[c]
    /\ \A n \in Nodes : /\ queue[n] \in Seq(Conns)
                        /\ busy[n] \subseteq Conns /\ Cardinality(busy[n]) <= Workers
    /\ calls \in [Clients -> SUBSET Nodes]
    /\ phase \in [Nodes -> {"serving", "leaving", "stopping", "exited"}]
    /\ gleft \in [Nodes -> SUBSET Nodes] /\ gwait \in [Nodes -> SUBSET Nodes]

\* Every request a session sends returns, answered or failed, and so does
\* every GOSSIP a gossip thread sends: no client, coordinator or gossip
\* thread waits for ever in RecvMessage, which has no timeout, on a peer
\* whose workers are all taken.
RequestsReturn ==
    /\ \A c \in Clients : session[c] = "sent" ~> session[c] \in {"open", "lost"}
    /\ \A n \in Nodes : gwait[n] # {} ~> gwait[n] = {}

\* A node told to stop (SIGTERM) eventually exits: the gossip thread's join
\* returns once its round has ended, and ~ThreadPool's joins once every
\* worker has left HandleConnection.
ShutdownCompletes ==
    \A n \in Nodes : phase[n] = "leaving" ~> phase[n] = "exited"

====
