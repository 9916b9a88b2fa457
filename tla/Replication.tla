---------------------------- MODULE Replication ----------------------------
(***************************************************************************)
(* Quorum replication (replication.cpp) across the nodes of a cluster,     *)
(* with the internal handlers of the receiving nodes (coordinator.cpp)     *)
(* and their storage engines.                                              *)
(*                                                                         *)
(* A client operation is accepted by a coordinator node, which stamps it   *)
(* with NowMs(), asks the ring for the key's replicas and runs one async   *)
(* task per replica.  The local replica is called directly; a remote one   *)
(* gets an INTERNAL_PUT / INTERNAL_GET / INTERNAL_DELETE on a fresh        *)
(* connection.  The coordinator waits for every task to settle, counts     *)
(* the acknowledgements and compares them with W (writes) or R (reads).    *)
(* A read then picks the newest answer and sends it back, fire-and-forget, *)
(* to every responder that answered with nothing or with an older version. *)
(*                                                                         *)
(* Each node's storage call is one atomic step here (the two-step          *)
(* Append/lock structure is the subject of StorageEngine), and a node's    *)
(* map survives a crash (the WAL replay; see StorageEngine for where it    *)
(* does not).  The ring is fixed: Pref[k] is ring.GetNodes(k, N).          *)
(***************************************************************************)
EXTENDS StorageRules, FiniteSets, FiniteSetsExt

CONSTANTS
    Nodes,       \* node ids
    Coords,      \* the nodes clients send their requests to
    Keys,        \* keys
    Vals,        \* values
    OpIds,       \* client operations 1..n, started in that order
    Pref,        \* [Keys -> Seq(Nodes)]: ring.GetNodes(key, N)
    R, W,        \* read and write quorums
    MaxTs,       \* NowMs() ranges over 1..MaxTs
    MaxInFlight, \* bound on operations running at once
    MaxCrashes   \* bound on node crashes

ASSUME OpIds \subseteq Nat /\ Coords \subseteq Nodes
ASSUME R \in Nat \ {0} /\ W \in Nat \ {0}
ASSUME \A k \in Keys : Pref[k] \in Seq(Nodes) /\ Len(Pref[k]) > 0

Timestamps == 1..MaxTs
VersionedValues == [val : Vals, ts : Timestamps]
Entries == VersionedValues \cup {NoEntry}
Kinds == {"PUT", "GET", "DELETE"}
CallStates == {"none", "pending", "ok", "fail"}

Replicas(k) == ToSet(Pref[k])

VARIABLES
    store,    \* per node: its storage engine's map
    up,       \* per node: the process is running
    op,       \* per operation slot: the coordinator's state for it
    repair,   \* read-repair INTERNAL_PUTs sent by detached threads, in flight
    crashes   \* number of crashes so far

vars == <<store, up, op, repair, crashes>>

FreeOp == [phase |-> "free", kind |-> "GET", coord |-> CHOOSE n \in Nodes : TRUE,
           key |-> CHOOSE k \in Keys : TRUE, val |-> CHOOSE v \in Vals : TRUE,
           ts |-> 1, call |-> [n \in Nodes |-> "none"],
           resp |-> [n \in Nodes |-> NoEntry], ok |-> FALSE, value |-> NoEntry,
           putFloor |-> 0, delFloor |-> 0]

Init ==
    /\ store = [n \in Nodes |-> [k \in Keys |-> NoEntry]]
    /\ up = [n \in Nodes |-> TRUE]
    /\ op = [o \in OpIds |-> FreeOp]
    /\ repair = {}
    /\ crashes = 0

(***************************************************************************)
(* What clients have already seen complete on a key.  Recorded when an     *)
(* operation starts, for the properties; the code never reads them.        *)
(***************************************************************************)
DoneOk(kind, k) == {o \in OpIds : op[o].phase = "done" /\ op[o].ok
                                  /\ op[o].kind = kind /\ op[o].key = k}
MaxOr0(S) == IF S = {} THEN 0 ELSE Max(S)

(***************************************************************************)
(* ReplicatedPut / ReplicatedGet / ReplicatedDelete, first part: nodes <-  *)
(* ring.GetNodes(key, N) and one task per node.  The ring always holds the *)
(* node itself, so "No nodes available" cannot happen.  Operation slots    *)
(* are taken in order, and at most MaxInFlight run at once.                *)
(***************************************************************************)
CanStart(o, c) ==
    /\ op[o].phase = "free"
    /\ \A p \in OpIds : p < o => op[p].phase # "free"
    /\ Cardinality({p \in OpIds : op[p].phase = "running"}) < MaxInFlight
    /\ up[c]

Running(c, kind, k, v, ts) ==
    [FreeOp EXCEPT !.phase = "running", !.kind = kind, !.coord = c,
                   !.key = k, !.val = v, !.ts = ts,
                   !.call = [n \in Nodes |-> IF n \in Replicas(k) THEN "pending" ELSE "none"]]

\* PUT and DELETE read the clock (ts <- NowMs()) here and only here.
\* NowMs() is the coordinator's system_clock: nodes' clocks are not
\* synchronised and one may be set back, so the stamp is any time.
StartWrite(o, c, kind, k, v, ts) ==
    /\ CanStart(o, c)
    /\ op' = [op EXCEPT ![o] = Running(c, kind, k, v, ts)]
    /\ UNCHANGED <<store, up, repair, crashes>>

\* GET takes no timestamp.  The floors record what clients had already
\* seen complete on the key when it started; the code never reads them.
StartGet(o, c, k) ==
    /\ CanStart(o, c)
    /\ op' = [op EXCEPT ![o] =
                [Running(c, "GET", k, FreeOp.val, 1) EXCEPT
                    !.putFloor = MaxOr0({op[p].ts : p \in DoneOk("PUT", k)}),
                    !.delFloor = MaxOr0({op[p].ts : p \in DoneOk("DELETE", k)})]]
    /\ UNCHANGED <<store, up, repair, crashes>>

\* The storage call a write makes on replica n: Put / ConditionalPut for a
\* PUT, Delete for a DELETE.
WriteRule(o, cur) ==
    IF op[o].kind = "PUT" THEN PutRule(cur, [val |-> op[o].val, ts |-> op[o].ts])
                          ELSE DeleteRule(cur, op[o].ts)

WriteAccepted(o, cur) ==
    IF op[o].kind = "PUT" THEN PutAccepted(cur, [val |-> op[o].val, ts |-> op[o].ts])
                          ELSE DeleteAccepted(cur, op[o].ts)

SetCall(o, n, s) == op' = [op EXCEPT ![o].call[n] = s]

(***************************************************************************)
(* The local task: storage_.Put / storage_.Delete; its bool result is the  *)
(* acknowledgement, so a stale local write is not an ack.                  *)
(***************************************************************************)
LocalWrite(o) ==
    LET c == op[o].coord  k == op[o].key IN
    /\ op[o].phase = "running"
    /\ op[o].kind \in {"PUT", "DELETE"}
    /\ op[o].call[c] = "pending"
    /\ store' = [store EXCEPT ![c][k] = WriteRule(o, @)]
    /\ SetCall(o, c, IF WriteAccepted(o, store[c][k]) THEN "ok" ELSE "fail")
    /\ UNCHANGED <<up, repair, crashes>>

(***************************************************************************)
(* A remote task whose request reaches node n: HandleInternalPut calls     *)
(* ConditionalPut, HandleInternalDelete calls Delete, and both reply OK    *)
(* whatever the storage call returned.  The reply may still be lost (the   *)
(* connection drops), and then the task reports failure.                   *)
(***************************************************************************)
RemoteWrite(o, n) ==
    LET k == op[o].key IN
    /\ op[o].phase \in {"running", "lost"}
    /\ op[o].kind \in {"PUT", "DELETE"}
    /\ n # op[o].coord
    /\ op[o].call[n] = "pending"
    /\ up[n]
    /\ store' = [store EXCEPT ![n][k] = WriteRule(o, @)]
    /\ \E s \in {"ok", "fail"} : SetCall(o, n, s)
    /\ UNCHANGED <<up, repair, crashes>>

(***************************************************************************)
(* A request already on the wire when its coordinator crashed may still be *)
(* handled (RemoteWrite of a "lost" operation) or dropped (RemoteFail).    *)
(*                                                                         *)
(* A remote task that fails before its request is handled: the member is   *)
(* unknown or marked dead (no attempt), Connect() fails or times out, or   *)
(* the send fails.                                                         *)
(***************************************************************************)
RemoteFail(o, n) ==
    /\ op[o].phase \in {"running", "lost"}
    /\ n # op[o].coord
    /\ op[o].call[n] = "pending"
    /\ SetCall(o, n, "fail")
    /\ UNCHANGED <<store, up, repair, crashes>>

\* The local read task: storage_.Get, always ok.
LocalRead(o) ==
    LET c == op[o].coord IN
    /\ op[o].phase = "running"
    /\ op[o].kind = "GET"
    /\ op[o].call[c] = "pending"
    /\ op' = [op EXCEPT ![o].call[c] = "ok", ![o].resp[c] = store[c][op[o].key]]
    /\ UNCHANGED <<store, up, repair, crashes>>

\* A remote INTERNAL_GET answered by node n (HandleInternalGet): ok, with
\* the value if n holds one.
RemoteRead(o, n) ==
    /\ op[o].phase = "running"
    /\ op[o].kind = "GET"
    /\ n # op[o].coord
    /\ op[o].call[n] = "pending"
    /\ up[n]
    /\ op' = [op EXCEPT ![o].call[n] = "ok", ![o].resp[n] = store[n][op[o].key]]
    /\ UNCHANGED <<store, up, repair, crashes>>

Settled(o) == \A n \in Replicas(op[o].key) : op[o].call[n] \in {"ok", "fail"}
Responders(o) == {n \in Replicas(op[o].key) : op[o].call[n] = "ok"}

\* The call returns its result to the client; its futures are discarded.
Retire(rec, ok, value) ==
    [rec EXCEPT !.phase = "done", !.ok = ok, !.value = value, !.coord = FreeOp.coord,
                !.call = [n \in Nodes |-> "none"], !.resp = [n \in Nodes |-> NoEntry]]

FinishWrite(o) ==
    /\ op[o].phase = "running"
    /\ op[o].kind \in {"PUT", "DELETE"}
    /\ up[op[o].coord]
    /\ Settled(o)
    /\ op' = [op EXCEPT ![o] = Retire(@, Cardinality(Responders(o)) >= W, NoEntry)]
    /\ UNCHANGED <<store, up, repair, crashes>>

(***************************************************************************)
(* The newest answer: the responses are scanned in replica order and one   *)
(* replaces the current pick only if strictly newer, so among equal        *)
(* timestamps the first responder in Pref order wins.                      *)
(***************************************************************************)
LatestOf(o) ==
    LET pref == Pref[op[o].key]
        held == {i \in 1..Len(pref) :
                    pref[i] \in Responders(o) /\ op[o].resp[pref[i]] # NoEntry}
        top  == MaxOr0({op[o].resp[pref[i]].ts : i \in held})
    IN  IF held = {} THEN NoEntry
        ELSE op[o].resp[pref[Min({i \in held : op[o].resp[pref[i]].ts = top})]]

\* Responders that answered with nothing or with a strictly older version.
StaleResponders(o, latest) ==
    {n \in Responders(o) : op[o].resp[n] = NoEntry \/ op[o].resp[n].ts < latest.ts}

(***************************************************************************)
(* ReplicatedGet, second part.  Too few ok responses: error.  Otherwise    *)
(* the newest answer is the result and, if there is one, read repair runs: *)
(* the local replica gets ConditionalPut at once, in this thread; a remote *)
(* one gets a detached thread sending INTERNAL_PUT (when the member is     *)
(* alive in this node's view; a dead-marked member is one whose repair is  *)
(* lost, see LoseRepair).                                                  *)
(***************************************************************************)
\* Mutant of FinishGet: the repair loop outside "if (found)", so an empty
\* result (timestamp 0) is written back to the replicas.
FinishGetRepairAlways(o) ==
    LET c == op[o].coord  k == op[o].key
        latest == IF LatestOf(o) = NoEntry THEN [val |-> "", ts |-> 0] ELSE LatestOf(o)
        stale == StaleResponders(o, latest)
        quorum == Cardinality(Responders(o)) >= R
    IN
    /\ op[o].phase = "running"
    /\ op[o].kind = "GET"
    /\ up[c]
    /\ Settled(o)
    /\ op' = [op EXCEPT ![o] = Retire(@, quorum, IF quorum THEN LatestOf(o) ELSE NoEntry)]
    /\ IF quorum /\ c \in stale
       THEN store' = [store EXCEPT ![c][k] = PutRule(@, latest)]
       ELSE UNCHANGED store
    /\ repair' = IF quorum
                 THEN repair \cup {[to |-> n, key |-> k, vv |-> latest] : n \in stale \ {c}}
                 ELSE repair
    /\ UNCHANGED <<up, crashes>>

FinishGet(o) ==
    LET c == op[o].coord  k == op[o].key  latest == LatestOf(o)
        stale == IF latest = NoEntry THEN {} ELSE StaleResponders(o, latest)
        quorum == Cardinality(Responders(o)) >= R
    IN
    /\ op[o].phase = "running"
    /\ op[o].kind = "GET"
    /\ up[c]
    /\ Settled(o)
    /\ op' = [op EXCEPT ![o] = Retire(@, quorum, IF quorum THEN latest ELSE NoEntry)]
    /\ IF quorum /\ c \in stale
       THEN store' = [store EXCEPT ![c][k] = PutRule(@, latest)]
       ELSE UNCHANGED store
    /\ repair' = IF quorum
                 THEN repair \cup {[to |-> n, key |-> k, vv |-> latest] : n \in stale \ {c}}
                 ELSE repair
    /\ UNCHANGED <<up, crashes>>

\* A repair thread's INTERNAL_PUT handled by its target: ConditionalPut.
DeliverRepair(m) ==
    /\ m \in repair
    /\ up[m.to]
    /\ store' = [store EXCEPT ![m.to][m.key] = PutRule(@, m.vv)]
    /\ repair' = repair \ {m}
    /\ UNCHANGED <<up, op, crashes>>

\* A repair thread that cannot connect gives up silently.
LoseRepair(m) ==
    /\ m \in repair
    /\ repair' = repair \ {m}
    /\ UNCHANGED <<store, up, op, crashes>>

(***************************************************************************)
(* A node process dies: the operations it coordinates never answer their   *)
(* clients; its map comes back from the WAL when it restarts.              *)
(***************************************************************************)
Crash(n) ==
    /\ up[n]
    /\ crashes < MaxCrashes
    /\ up' = [up EXCEPT ![n] = FALSE]
    /\ op' = [o \in OpIds |->
                IF op[o].phase = "running" /\ op[o].coord = n
                THEN [op[o] EXCEPT !.phase = "lost"] ELSE op[o]]
    /\ crashes' = crashes + 1
    /\ UNCHANGED <<store, repair>>

Restart(n) ==
    /\ ~up[n]
    /\ up' = [up EXCEPT ![n] = TRUE]
    /\ UNCHANGED <<store, op, repair, crashes>>

Next ==
    \/ \E o \in OpIds, c \in Coords, k \in Keys :
          \/ \E v \in Vals, ts \in Timestamps : StartWrite(o, c, "PUT", k, v, ts)
          \/ \E ts \in Timestamps : StartWrite(o, c, "DELETE", k, FreeOp.val, ts)
          \/ StartGet(o, c, k)
    \/ \E o \in OpIds :
          \/ LocalWrite(o) \/ LocalRead(o) \/ FinishWrite(o) \/ FinishGet(o)
          \/ \E n \in Nodes : RemoteWrite(o, n) \/ RemoteRead(o, n) \/ RemoteFail(o, n)
    \/ \E m \in repair : DeliverRepair(m) \/ LoseRepair(m)
    \/ \E n \in Nodes : Crash(n) \/ Restart(n)

(***************************************************************************)
(* The tasks and the coordinator's thread run.  A remote call to an up     *)
(* replica is answered once the replica's handler runs (a worker is free:  *)
(* ServerPool is about when it is not); RecvMessage has no timeout, so     *)
(* nothing else ends it.  A call to a replica that is down fails: the      *)
(* connect is refused, or the crash closed the connection.  A failure on   *)
(* an up replica (a dead-marked member, a dropped connection) may happen   *)
(* but is not assumed.  Clients, crashes and repair threads get nothing.   *)
(***************************************************************************)
Fairness ==
    \A o \in OpIds :
        /\ WF_vars(LocalWrite(o)) /\ WF_vars(LocalRead(o))
        /\ WF_vars(FinishWrite(o)) /\ WF_vars(FinishGet(o))
        /\ \A n \in Nodes : WF_vars(RemoteWrite(o, n) \/ RemoteRead(o, n)
                                    \/ (RemoteFail(o, n) /\ ~up[n]))

Spec == Init /\ [][Next]_vars /\ Fairness

-----------------------------------------------------------------------------
(***************************************************************************)
(* Properties.                                                             *)
(***************************************************************************)

TypeOK ==
    /\ store \in [Nodes -> [Keys -> Entries]]
    /\ up \in [Nodes -> BOOLEAN]
    /\ \A o \in OpIds :
          /\ op[o].phase \in {"free", "running", "done", "lost"}
          /\ op[o].kind \in Kinds /\ op[o].coord \in Nodes
          /\ op[o].key \in Keys /\ op[o].val \in Vals /\ op[o].ts \in Timestamps
          /\ op[o].call \in [Nodes -> CallStates]
          /\ op[o].resp \in [Nodes -> Entries]
          /\ op[o].ok \in BOOLEAN /\ op[o].value \in Entries
    /\ repair \subseteq [to : Nodes, key : Keys, vv : VersionedValues]
    /\ crashes \in 0..MaxCrashes

DoneGets == {o \in OpIds : op[o].phase = "done" /\ op[o].kind = "GET" /\ op[o].ok}

DeleteNotUndone ==
    \A o \in DoneGets : op[o].value # NoEntry => op[o].value.ts >= op[o].delFloor

=============================================================================
