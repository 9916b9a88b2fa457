--------------------------- MODULE StorageEngine ---------------------------
(***************************************************************************)
(* One node's StorageEngine (storage_engine.cpp) over its WriteAheadLog    *)
(* (wal.cpp), with the server's worker threads calling it concurrently,    *)
(* process crashes and the restart that runs Recover (main.cpp).           *)
(*                                                                         *)
(* Put, ConditionalPut and Delete are two steps each:                      *)
(*   1. wal_->Append(...)   under the WAL mutex, before the map lock;      *)
(*   2. the map test and update under the exclusive map lock.              *)
(* Other threads may run between the two, so the order of the records in  *)
(* the log need not be the order in which the map applied them.           *)
(* ConditionalPut differs from Put only in carrying the caller's origin,   *)
(* which is not modelled; both are the PUT steps below.  Get, GetAllData   *)
(* and Size only read under the shared lock and change nothing.           *)
(***************************************************************************)
EXTENDS StorageRules, FiniteSets

CONSTANTS
    Keys,           \* keys used by the callers
    Vals,           \* values used by the callers
    Threads,        \* server worker threads calling the engine
    MaxTs,          \* timestamps are 1..MaxTs
    MaxLog,         \* bound on the number of WAL appends
    NoReq,          \* a thread with no call in progress
    PartialWrites,  \* TRUE: a write() to the WAL may be short (disk full)
    AdminOps        \* TRUE: callers also use BulkPut and RemoveKeys

ASSUME MaxTs \in Nat \ {0} /\ MaxLog \in Nat
ASSUME PartialWrites \in BOOLEAN /\ AdminOps \in BOOLEAN

Timestamps == 1..MaxTs
VersionedValues == [val : Vals, ts : Timestamps]
Records == {PutRecord(k, vv) : k \in Keys, vv \in VersionedValues}
           \cup {DeleteRecord(k, ts) : k \in Keys, ts \in Timestamps}
Requests == [op : {"PUT"}, key : Keys, vv : VersionedValues]
            \cup [op : {"DELETE"}, key : Keys, ts : Timestamps]

VARIABLES
    store,  \* store_: the in-memory map
    wal,    \* the bytes of wal.log, as a sequence of records / Torn
    up,     \* the process is running (FALSE between a crash and Recover)
    pc,     \* per thread: "idle", or "apply" between Append and the lock
    req,    \* per thread: the call in progress
    unlogged \* keys BulkPut/RemoveKeys changed since the process started;
             \* for the properties, the code never reads it

vars == <<store, wal, up, pc, req, unlogged>>

EmptyMap == [k \in Keys |-> NoEntry]

\* A fresh process on an empty log: Recover() of nothing leaves the map empty.
Init ==
    /\ store = EmptyMap
    /\ wal = << >>
    /\ up = TRUE
    /\ pc = [t \in Threads |-> "idle"]
    /\ req = [t \in Threads |-> NoReq]
    /\ unlogged = {}

(***************************************************************************)
(* Step 1 of Put / ConditionalPut / Delete: WriteAheadLog::Append writes   *)
(* the record (or a torn one) and fdatasyncs it, before the map lock.      *)
(***************************************************************************)
AppendThen(t, rec, call) ==
    /\ up
    /\ pc[t] = "idle"
    /\ Len(wal) < MaxLog
    /\ \E w \in WrittenForms(rec, PartialWrites) : wal' = Append(wal, w)
    /\ req' = [req EXCEPT ![t] = call]
    /\ pc' = [pc EXCEPT ![t] = "apply"]
    /\ UNCHANGED <<store, up, unlogged>>

BeginPut(t, k, vv) ==
    AppendThen(t, PutRecord(k, vv), [op |-> "PUT", key |-> k, vv |-> vv])

BeginDelete(t, k, ts) ==
    AppendThen(t, DeleteRecord(k, ts), [op |-> "DELETE", key |-> k, ts |-> ts])

(***************************************************************************)
(* Step 2: under the exclusive lock, the last-writer-wins test and update; *)
(* the call then returns (true or false) to its caller.                    *)
(***************************************************************************)
Finish(t) ==
    /\ pc' = [pc EXCEPT ![t] = "idle"]
    /\ req' = [req EXCEPT ![t] = NoReq]
    /\ UNCHANGED <<wal, up, unlogged>>

ApplyPut(t) ==
    /\ up
    /\ pc[t] = "apply"
    /\ req[t].op = "PUT"
    /\ store' = [store EXCEPT ![req[t].key] = PutRule(@, req[t].vv)]
    /\ Finish(t)

\* Mutant: the deleted key keeps an empty-valued tombstone in the map.
ApplyDeleteKeepsTombstone(t) ==
    /\ up
    /\ pc[t] = "apply"
    /\ req[t].op = "DELETE"
    /\ store' = [store EXCEPT ![req[t].key] =
                    IF DeleteAccepted(@, req[t].ts) THEN [val |-> "", ts |-> req[t].ts] ELSE @]
    /\ Finish(t)

ApplyDelete(t) ==
    /\ up
    /\ pc[t] = "apply"
    /\ req[t].op = "DELETE"
    /\ store' = [store EXCEPT ![req[t].key] = DeleteRule(@, req[t].ts)]
    /\ Finish(t)

(***************************************************************************)
(* Administrative calls: one exclusive-lock step each, and neither writes  *)
(* the WAL.                                                                *)
(***************************************************************************)
BulkPut(entries) ==
    /\ up
    /\ store' = [k \in Keys |->
                    IF k \in DOMAIN entries
                    THEN IF store[k] = NoEntry \/ store[k].ts < entries[k].ts
                         THEN entries[k] ELSE store[k]
                    ELSE store[k]]
    /\ unlogged' = unlogged \cup DOMAIN entries
    /\ UNCHANGED <<wal, up, pc, req>>

RemoveKeys(ks) ==
    /\ up
    /\ store' = [k \in Keys |-> IF k \in ks THEN NoEntry ELSE store[k]]
    /\ unlogged' = unlogged \cup ks
    /\ UNCHANGED <<wal, up, pc, req>>

(***************************************************************************)
(* The process dies: the map and every call in progress are lost; what     *)
(* Append wrote to the file stays.                                         *)
(***************************************************************************)
Crash ==
    /\ up
    /\ up' = FALSE
    /\ store' = EmptyMap
    /\ pc' = [t \in Threads |-> "idle"]
    /\ req' = [t \in Threads |-> NoReq]
    /\ UNCHANGED <<wal, unlogged>>

\* Restart: main() constructs the engine and calls Recover() before serving.
Recover ==
    /\ ~up
    /\ up' = TRUE
    /\ store' = RecoverFrom(Keys, Replay(wal))
    /\ unlogged' = {}
    /\ UNCHANGED <<wal, pc, req>>

Next ==
    \/ \E t \in Threads, k \in Keys :
          \/ \E vv \in VersionedValues : BeginPut(t, k, vv)
          \/ \E ts \in Timestamps : BeginDelete(t, k, ts)
    \/ \E t \in Threads : ApplyPut(t) \/ ApplyDelete(t)
    \/ AdminOps /\ \E ks \in SUBSET Keys \ {{}} :
                     \/ \E entries \in [ks -> VersionedValues] : BulkPut(entries)
                     \/ RemoveKeys(ks)
    \/ Crash
    \/ Recover

Spec == Init /\ [][Next]_vars

-----------------------------------------------------------------------------
(***************************************************************************)
(* Properties.                                                             *)
(***************************************************************************)

TypeOK ==
    /\ store \in [Keys -> VersionedValues \cup {NoEntry}]
    /\ wal \in Seq(Records \cup {Torn})
    /\ up \in BOOLEAN
    /\ pc \in [Threads -> {"idle", "apply"}]
    /\ req \in [Threads -> Requests \cup {NoReq}]
    /\ unlogged \subseteq Keys

\* No call is between its Append and its map update.
Quiescent == \A t \in Threads : pc[t] = "idle"

\* The map a restart would rebuild from the current file.
ReplayedStore == RecoverFrom(Keys, Replay(wal))

HasDeleteRecord(k) ==
    \E i \in 1..Len(wal) : wal[i] # Torn /\ wal[i].op = "DELETE" /\ wal[i].key = k

\* For a key that was only ever written by Put (no Delete, and no unlogged
\* BulkPut/RemoveKeys since the start), a restart at a quiet moment brings
\* back the version (timestamp) the running process holds, although the
\* log order and the order the map lock applied the Puts may differ.
RecoveredVersionsMatch ==
    up /\ Quiescent =>
        \A k \in Keys : ~HasDeleteRecord(k) /\ k \notin unlogged =>
            TsOf(ReplayedStore[k]) = TsOf(store[k])

(***************************************************************************)
(* Refinement.  What a caller can observe of the engine is the running map *)
(* or, while the process is down, the map Recover will rebuild; what it    *)
(* has issued is what Append wrote whole to the log.                       *)
(***************************************************************************)
LWW == INSTANCE LWWStore WITH kv <- IF up THEN store ELSE ReplayedStore,
                              issued <- ToSet(wal) \ {Torn}

\* The engine with its crashes and restarts implements one atomic
\* last-writer-wins map (no administrative calls): every change of the
\* observable map, the one a crash makes by swapping the running map for
\* the replayed log included, is one logged write taking effect over a
\* strictly older version.  So the map never holds a version the log lacks,
\* and a restart neither loses a version nor brings back an older one.
ImplementsLWWStore == LWW!Spec

=============================================================================
