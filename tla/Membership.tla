---------------------------- MODULE Membership ----------------------------
(***************************************************************************)
(* Gossip membership and failure detection (membership.cpp), with the      *)
(* on_join / on_leave callbacks that main.cpp wires to each node's hash    *)
(* ring.  Every node runs three threads that touch its member table:       *)
(*   - the gossip thread: ContactSeeds once, then every interval refresh   *)
(*     its own heartbeat and push its whole table to up to Fanout alive    *)
(*     peers (the reply is discarded);                                     *)
(*   - a server worker handling an incoming GOSSIP: AddMember per entry,   *)
(*     each under the lock, with on_join called after the lock is freed;   *)
(*   - the failure detector: every interval, collect the alive members     *)
(*     whose heartbeat is older than the timeout, then RemoveMember each,  *)
(*     which marks it dead and calls on_leave after the lock is freed.     *)
(*                                                                         *)
(* Each node's ConsistentHashRing is a HashRing value, changed only by    *)
(* the callbacks (and rebuilt with self by a restart).                     *)
(*                                                                         *)
(* Time.  A heartbeat is the writer's NowMs(); it is only ever compared    *)
(* with another heartbeat of the same node (AddMember) or subtracted from  *)
(* the reader's clock (the failure detector).  So a table entry keeps the  *)
(* heartbeat's age, in gossip intervals, instead of its value; ages stop   *)
(* growing at AgeCap, past which the detector's test no longer changes.    *)
(* Node n's clock reads real time + Skew[n].  Tick advances real time by   *)
(* one interval once every up node's loops have run in the current one.   *)
(***************************************************************************)
EXTENDS Naturals, FiniteSets

CONSTANTS
    Nodes,        \* node ids
    Seeds,        \* [Nodes -> SUBSET Nodes]: the --seed addresses of each node
    Fanout,       \* config::GOSSIP_FANOUT
    Timeout,      \* config::FAILURE_TIMEOUT_MS, in gossip intervals
    Skew,         \* [Nodes -> Nat]: how far each node's clock is ahead
    ClockModulus, \* 2^64 for the unsigned Timestamp, scaled to intervals
    AgeCap,       \* ages saturate here
    MaxLoss,      \* bound on gossip sends that fail on a reachable peer
    MaxCrashes,   \* bound on node crashes
    SharedHost,   \* TRUE: all nodes on one host, so 0.0.0.0:port reaches a peer
    Late,         \* nodes not yet launched at the start; Restart launches them
    NoInfo,       \* a member table has no entry for the node
    None,         \* no callback pending
    HashSpace,    \* ring positions (HashRing)
    VnodePos,     \* each node's vnode positions (HashRing)
    NoOwner       \* an empty ring position (HashRing)

ASSUME Timeout \in Nat /\ AgeCap > Timeout /\ Fanout \in Nat \ {0}
ASSUME \A n \in Nodes : Skew[n] \in Nat /\ Seeds[n] \subseteq Nodes \ {n}
ASSUME Late \subseteq Nodes

HR == INSTANCE HashRing

Ages == 0..AgeCap
Info == [age : Ages, alive : BOOLEAN]
Entry == [id : Nodes, age : Ages, alive : BOOLEAN]
Idle == [targets |-> {}, msg |-> {}, seed |-> FALSE]

VARIABLES
    up,        \* the node's process is running
    members,   \* members_[n][m]: n's NodeInfo for m, or NoInfo
    ring,      \* n's ConsistentHashRing, a HashRing!Rings value
    gossip,    \* n's gossip thread: the message it is sending and to whom
    sent,      \* n's gossip thread has run its round in this interval
    inbox,     \* entries of the GOSSIP message a worker of n is handling
    joinCb,    \* the node whose on_join that worker is about to call
    fdDone,    \* n's failure detector has scanned in this interval
    fresh,     \* None, or, once the detector has read NowMs() and until it
               \* scans, the members whose heartbeat n merged since
    suspects,  \* dead_nodes: what the detector still has to RemoveMember
    leaveCb,   \* the node whose on_leave the detector is about to call
    losses,    \* sends that failed on a reachable peer so far
    crashes    \* crashes so far

vars == <<up, members, ring, gossip, sent, inbox, joinCb, fdDone, fresh, suspects,
          leaveCb, losses, crashes>>

\* The constructor: a table holding only self, heartbeat NowMs(), alive;
\* main() adds self to the ring; the gossip thread starts with ContactSeeds.
FreshTable(n) == [m \in Nodes |-> IF m = n THEN [age |-> 0, alive |-> TRUE] ELSE NoInfo]
Snapshot(tbl) == {[id |-> m, age |-> tbl[m].age, alive |-> tbl[m].alive] :
                      m \in {x \in Nodes : tbl[x] # NoInfo}}
SeedContact(n) == [targets |-> Seeds[n], msg |-> Snapshot(FreshTable(n)), seed |-> TRUE]

Init ==
    /\ up = [n \in Nodes |-> n \notin Late]
    /\ members = [n \in Nodes |-> FreshTable(n)]
    /\ ring = [n \in Nodes |-> HR!AddNode(HR!EmptyRing, n)]
    /\ gossip = [n \in Nodes |-> IF n \in Late THEN Idle ELSE SeedContact(n)]
    /\ sent = [n \in Nodes |-> FALSE]
    /\ inbox = [n \in Nodes |-> {}]
    /\ joinCb = [n \in Nodes |-> None]
    /\ fdDone = [n \in Nodes |-> FALSE]
    /\ fresh = [n \in Nodes |-> None]
    /\ suspects = [n \in Nodes |-> {}]
    /\ leaveCb = [n \in Nodes |-> None]
    /\ losses = 0
    /\ crashes = 0

AliveOthers(n) == {m \in Nodes \ {n} : members[n][m] # NoInfo /\ members[n][m].alive}

(***************************************************************************)
(* GossipLoop, one iteration: members_[self].last_heartbeat = NowMs();     *)
(* alive = GetAliveMembers() minus self, shuffled; the first               *)
(* min(Fanout, |alive|) get the table CreateGossipMessage() serialises.    *)
(***************************************************************************)
GossipRound(n) ==
    LET tbl == [members[n] EXCEPT ![n].age = 0]
        k == IF Fanout < Cardinality(AliveOthers(n)) THEN Fanout ELSE Cardinality(AliveOthers(n))
    IN
    /\ up[n] /\ ~sent[n] /\ gossip[n] = Idle
    /\ \E peers \in SUBSET AliveOthers(n) :
          /\ Cardinality(peers) = k
          /\ gossip' = [gossip EXCEPT ![n] = [targets |-> peers, msg |-> Snapshot(tbl), seed |-> FALSE]]
    /\ members' = [members EXCEPT ![n] = tbl]
    /\ sent' = [sent EXCEPT ![n] = TRUE]
    /\ UNCHANGED <<up, ring, inbox, joinCb, fdDone, suspects, leaveCb, losses, crashes, fresh>>

\* A peer's address as gossip spreads it is "0.0.0.0":port (main.cpp);
\* seeds are contacted at the address given on the command line.
Reachable(n, t) == gossip[n].seed \/ SharedHost

(***************************************************************************)
(* KVClient::Connect + SendGossip to one target: the target's server hands *)
(* the message to a worker (HandleGossip).  One worker per node handles    *)
(* gossip at a time here; the sender waits for it.                         *)
(***************************************************************************)
SendGossip(n, t) ==
    /\ up[n] /\ t \in gossip[n].targets
    /\ up[t] /\ Reachable(n, t)
    /\ inbox[t] = {} /\ joinCb[t] = None
    /\ inbox' = [inbox EXCEPT ![t] = {e \in gossip[n].msg : e.id # t}]
    /\ gossip' = [gossip EXCEPT ![n].targets = @ \ {t}]
    /\ UNCHANGED <<up, members, ring, sent, joinCb, fdDone, suspects, leaveCb, losses, crashes, fresh>>

\* Connect fails (target down or unreachable, or the network drops it);
\* the exception is logged and the loop goes on.
SendFails(n, t) ==
    LET lost == up[t] /\ Reachable(n, t) IN
    /\ up[n] /\ t \in gossip[n].targets
    /\ lost => losses < MaxLoss
    /\ gossip' = [gossip EXCEPT ![n].targets = @ \ {t}]
    /\ losses' = IF lost THEN losses + 1 ELSE losses
    /\ UNCHANGED <<up, members, ring, sent, inbox, joinCb, fdDone, suspects, leaveCb, crashes, fresh>>

\* The round's sends are over.
EndSend(n) ==
    /\ up[n] /\ gossip[n] # Idle /\ gossip[n].targets = {}
    /\ gossip' = [gossip EXCEPT ![n] = Idle]
    /\ UNCHANGED <<up, members, ring, sent, inbox, joinCb, fdDone, suspects, leaveCb, losses, crashes, fresh>>

(***************************************************************************)
(* HandleGossipMessage: AddMember(entry) for each entry but self, in the   *)
(* message's (unordered_map) order.  Under the lock: an unknown node is    *)
(* inserted as received, dead or alive, and is "new"; a known one takes    *)
(* the heartbeat only if newer, and is "new" if that revives it.           *)
(***************************************************************************)
AddMember(n, e) ==
    LET cur == members[n][e.id]
        isNew == cur = NoInfo \/ (e.age < cur.age /\ ~cur.alive /\ e.alive)
        upd == IF cur = NoInfo THEN [age |-> e.age, alive |-> e.alive]
               ELSE IF e.age < cur.age
                    THEN [age |-> e.age, alive |-> cur.alive \/ e.alive]
                    ELSE cur
    IN
    /\ up[n] /\ e \in inbox[n] /\ joinCb[n] = None
    /\ members' = [members EXCEPT ![n][e.id] = upd]
    /\ inbox' = [inbox EXCEPT ![n] = @ \ {e}]
    /\ joinCb' = [joinCb EXCEPT ![n] = IF isNew THEN e.id ELSE None]
    /\ fresh' = IF fresh[n] # None /\ (cur = NoInfo \/ e.age < cur.age)
                THEN [fresh EXCEPT ![n] = @ \cup {e.id}] ELSE fresh
    /\ UNCHANGED <<up, ring, gossip, sent, fdDone, suspects, leaveCb, losses, crashes>>

\* on_join, outside the lock: ring.AddNode(node_id).
OnJoin(n) ==
    /\ up[n] /\ joinCb[n] # None
    /\ ring' = [ring EXCEPT ![n] = HR!AddNode(@, joinCb[n])]
    /\ joinCb' = [joinCb EXCEPT ![n] = None]
    /\ UNCHANGED <<up, members, gossip, sent, inbox, fdDone, suspects, leaveCb, losses, crashes, fresh>>

(***************************************************************************)
(* FailureDetectionLoop: now = NowMs(); then, under the shared lock,       *)
(* collect every alive non-self member with now - last_heartbeat >         *)
(* timeout, the subtraction on unsigned 64-bit Timestamps; then, lock      *)
(* released, RemoveMember each.  A GOSSIP merged between the clock read    *)
(* and the lock can carry a heartbeat stamped after now.                   *)
(***************************************************************************)
ReadClock(n) ==
    /\ up[n] /\ ~fdDone[n] /\ fresh[n] = None /\ suspects[n] = {} /\ leaveCb[n] = None
    /\ fresh' = [fresh EXCEPT ![n] = {}]
    /\ UNCHANGED <<up, members, ring, gossip, sent, inbox, joinCb, fdDone, suspects, leaveCb, losses, crashes>>

Elapsed(n, m) == (members[n][m].age + Skew[n] - Skew[m]) % ClockModulus

\* A heartbeat n merged after reading now, stamped in the same interval of
\* n's clock: stamped before now (a small difference) or after it (the
\* difference wraps to nearly 2^64).
MayWrap(n, m) == m \in fresh[n] /\ members[n][m].age + Skew[n] = Skew[m]

FailureScan(n) ==
    /\ up[n] /\ fresh[n] # None
    /\ \E wrapped \in SUBSET {m \in AliveOthers(n) : MayWrap(n, m)} :
          suspects' = [suspects EXCEPT ![n] =
                         {m \in AliveOthers(n) : Elapsed(n, m) > Timeout} \cup wrapped]
    /\ fdDone' = [fdDone EXCEPT ![n] = TRUE]
    /\ fresh' = [fresh EXCEPT ![n] = None]
    /\ UNCHANGED <<up, members, ring, gossip, sent, inbox, joinCb, leaveCb, losses, crashes>>

\* Mutant: the entry is never marked dead.
RemoveMemberNoMark(n, m) ==
    /\ up[n] /\ m \in suspects[n] /\ leaveCb[n] = None
    /\ suspects' = [suspects EXCEPT ![n] = @ \ {m}]
    /\ leaveCb' = [leaveCb EXCEPT ![n] = m]
    /\ UNCHANGED <<up, members, ring, gossip, sent, inbox, joinCb, fdDone, losses, crashes, fresh>>

\* RemoveMember: under the lock, is_alive = false (whatever happened since
\* the scan); the entry stays.
RemoveMember(n, m) ==
    /\ up[n] /\ m \in suspects[n] /\ leaveCb[n] = None
    /\ members' = [members EXCEPT ![n][m].alive = FALSE]
    /\ suspects' = [suspects EXCEPT ![n] = @ \ {m}]
    /\ leaveCb' = [leaveCb EXCEPT ![n] = m]
    /\ UNCHANGED <<up, ring, gossip, sent, inbox, joinCb, fdDone, losses, crashes, fresh>>

\* on_leave, outside the lock: ring.RemoveNode(node_id).
OnLeave(n) ==
    /\ up[n] /\ leaveCb[n] # None
    /\ ring' = [ring EXCEPT ![n] = HR!RemoveNode(@, leaveCb[n])]
    /\ leaveCb' = [leaveCb EXCEPT ![n] = None]
    /\ UNCHANGED <<up, members, gossip, sent, inbox, joinCb, fdDone, suspects, losses, crashes, fresh>>

(***************************************************************************)
(* One gossip interval passes, once both loops of every up node have run   *)
(* in this one and its threads are back at their sleep.                    *)
(***************************************************************************)
Quiet(n) ==
    /\ gossip[n] = Idle /\ inbox[n] = {} /\ joinCb[n] = None
    /\ suspects[n] = {} /\ leaveCb[n] = None

\* Mutant: ages are not capped.
OlderUncapped(i) == IF i = NoInfo THEN NoInfo ELSE [i EXCEPT !.age = @ + 1]

Older(i) == IF i = NoInfo THEN NoInfo
            ELSE [i EXCEPT !.age = IF @ < AgeCap THEN @ + 1 ELSE AgeCap]

Tick ==
    /\ \A n \in Nodes : up[n] => sent[n] /\ fdDone[n] /\ Quiet(n)
    /\ members' = [n \in Nodes |-> IF up[n] THEN [m \in Nodes |-> Older(members[n][m])]
                                             ELSE members[n]]
    /\ sent' = [n \in Nodes |-> FALSE]
    /\ fdDone' = [n \in Nodes |-> FALSE]
    /\ UNCHANGED <<up, ring, gossip, inbox, joinCb, suspects, leaveCb, losses, crashes, fresh>>

\* The process dies with everything it held in memory.
Crash(n) ==
    /\ up[n] /\ crashes < MaxCrashes
    /\ up' = [up EXCEPT ![n] = FALSE]
    /\ gossip' = [gossip EXCEPT ![n] = Idle]
    /\ inbox' = [inbox EXCEPT ![n] = {}]
    /\ joinCb' = [joinCb EXCEPT ![n] = None]
    /\ suspects' = [suspects EXCEPT ![n] = {}]
    /\ leaveCb' = [leaveCb EXCEPT ![n] = None]
    /\ fresh' = [fresh EXCEPT ![n] = None]
    /\ crashes' = crashes + 1
    /\ UNCHANGED <<members, ring, sent, fdDone, losses>>

\* Restart (or the late launch of a node): main() builds a fresh table and
\* ring and the gossip thread contacts the seeds.
Restart(n) ==
    /\ ~up[n]
    /\ up' = [up EXCEPT ![n] = TRUE]
    /\ members' = [members EXCEPT ![n] = FreshTable(n)]
    /\ ring' = [ring EXCEPT ![n] = HR!AddNode(HR!EmptyRing, n)]
    /\ gossip' = [gossip EXCEPT ![n] = SeedContact(n)]
    /\ sent' = [sent EXCEPT ![n] = FALSE]
    /\ fdDone' = [fdDone EXCEPT ![n] = FALSE]
    /\ UNCHANGED <<inbox, joinCb, suspects, leaveCb, losses, crashes, fresh>>

Next ==
    \/ \E n \in Nodes :
          \/ GossipRound(n) \/ EndSend(n) \/ OnJoin(n) \/ OnLeave(n)
          \/ ReadClock(n) \/ FailureScan(n)
          \/ \E t \in Nodes : SendGossip(n, t) \/ SendFails(n, t)
          \/ \E e \in inbox[n] : AddMember(n, e)
          \/ \E m \in Nodes : RemoveMember(n, m)
          \/ Crash(n) \/ Restart(n)
    \/ Tick

(***************************************************************************)
(* Both loops run every interval, each send ends within the connect        *)
(* timeout, a worker handles a message it was given, and time passes.      *)
(* Crashes, restarts and lost sends are not assumed to happen.             *)
(***************************************************************************)
Fairness ==
    /\ WF_vars(Tick)
    /\ \A n \in Nodes :
          /\ WF_vars(GossipRound(n)) /\ WF_vars(EndSend(n))
          /\ WF_vars(ReadClock(n)) /\ WF_vars(FailureScan(n))
          /\ WF_vars(OnJoin(n)) /\ WF_vars(OnLeave(n))
          /\ WF_vars(\E e \in inbox[n] : AddMember(n, e))
          /\ WF_vars(\E m \in Nodes : RemoveMember(n, m))
          /\ \A t \in Nodes : WF_vars(SendGossip(n, t) \/ (SendFails(n, t) /\ ~(up[t] /\ Reachable(n, t))))

Spec == Init /\ [][Next]_vars /\ Fairness

-----------------------------------------------------------------------------
(***************************************************************************)
(* Properties.                                                             *)
(***************************************************************************)

TypeOK ==
    /\ up \in [Nodes -> BOOLEAN]
    /\ members \in [Nodes -> [Nodes -> Info \cup {NoInfo}]]
    /\ ring \in [Nodes -> HR!Rings]
    /\ \A n \in Nodes : gossip[n].targets \subseteq Nodes /\ gossip[n].msg \subseteq Entry
    /\ sent \in [Nodes -> BOOLEAN] /\ fdDone \in [Nodes -> BOOLEAN]
    /\ \A n \in Nodes : fresh[n] = None \/ fresh[n] \subseteq Nodes
    /\ inbox \in [Nodes -> SUBSET Entry]
    /\ joinCb \in [Nodes -> Nodes \cup {None}] /\ leaveCb \in [Nodes -> Nodes \cup {None}]
    /\ suspects \in [Nodes -> SUBSET Nodes]
    /\ losses \in 0..MaxLoss /\ crashes \in 0..MaxCrashes

Known(n, m) == members[n][m] # NoInfo
AliveAt(n, m) == Known(n, m) /\ members[n][m].alive
NoCallbackPending(n) == joinCb[n] = None /\ leaveCb[n] = None

\* When no on_join/on_leave call is pending on node n, n's ring holds
\* exactly the members n believes alive (itself included): replicas are
\* chosen among live nodes and no live node is left out.
RingMatchesMembership ==
    \A n \in Nodes : up[n] /\ NoCallbackPending(n) =>
        ring[n].nodes = {m \in Nodes : AliveAt(n, m)}

\* On every up node's ring, as the callbacks built it (collisions and
\* erased positions included), GetNodes's walk from upper_bound, with its
\* wrap, its skipping of seen nodes and its clamp, returns the ring's nodes
\* in order of their nearest position clockwise from the key: for every key
\* hash and every count, the replicas ReplicatedPut/Get would contact.
PreferenceListsFollowRing ==
    \A n \in Nodes : up[n] =>
        \A h \in HR!Positions, c \in 1..Cardinality(Nodes) + 1 :
            HR!GetNodes(ring[n], h, c) = HR!PreferenceList(ring[n], h, c)

\* The failure detector marks m dead at n only while m's last heartbeat at
\* n is really older than the timeout: at the step that flips is_alive.
\* FailureDetectionLoop tests the heartbeat under the shared lock and
\* RemoveMember marks after the lock was released, without testing again;
\* a clock that is ahead makes the unsigned test wrong too.
MarkedDeadOnlyWhenSilent ==
    [][\A n, m \in Nodes :
         AliveAt(n, m) /\ members'[n][m] # NoInfo /\ ~members'[n][m].alive
             => members[n][m].age > Timeout]_members

\* A node that stays down is eventually marked dead by every up node that
\* knew it.
CrashDetected ==
    \A c, n \in Nodes :
        <>[](~up[c]) => <>[](up[n] /\ Known(n, c) => ~members[n][c].alive)

\* Once crashes stop, every up node eventually and for ever knows every
\* other up node, as alive.
MembershipConverges ==
    <>[](\A n, m \in Nodes : up[n] /\ up[m] => AliveAt(n, m))

=============================================================================
