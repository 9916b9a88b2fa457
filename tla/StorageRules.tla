--------------------------- MODULE StorageRules ---------------------------
(***************************************************************************)
(* The pure rules of a node's storage: the last-writer-wins tests that     *)
(* StorageEngine::Put / Delete / ConditionalPut apply to one map entry,    *)
(* the records WriteAheadLog::Append puts in the log, the prefix that      *)
(* WriteAheadLog::Replay hands back, and the map StorageEngine::Recover    *)
(* rebuilds from it.  Shared by the single-node module StorageEngine and   *)
(* the cluster module Replication.                                         *)
(*                                                                         *)
(* A map entry is a VersionedValue [val, ts] or NoEntry.  The origin node  *)
(* of a VersionedValue is informational, is not in the WAL record and no   *)
(* decision reads it, so it is left out.                                   *)
(***************************************************************************)
EXTENDS Naturals, Sequences, SequencesExt

CONSTANTS
    NoEntry,    \* the map holds nothing for the key
    Torn        \* bytes of a record that was only partly written

\* Timestamp of an entry; an absent entry compares as 0, below every
\* timestamp NowMs() produces.
TsOf(e) == IF e = NoEntry THEN 0 ELSE e.ts

(***************************************************************************)
(* Live write rules (storage_engine.cpp).                                  *)
(***************************************************************************)

\* Put / ConditionalPut accept iff there is no entry or it is strictly
\* older; equal timestamps are stale (first writer wins).
PutAccepted(cur, vv) == cur = NoEntry \/ cur.ts < vv.ts

\* Mutant: the timestamp test dropped (last applied wins).
PutRuleAlways(cur, vv) == vv

PutRule(cur, vv) == IF PutAccepted(cur, vv) THEN vv ELSE cur

\* Delete accepts iff an entry exists and it is strictly older.  An
\* accepted delete erases the entry: no tombstone is kept.
DeleteAccepted(cur, ts) == cur # NoEntry /\ cur.ts < ts

DeleteRule(cur, ts) == IF DeleteAccepted(cur, ts) THEN NoEntry ELSE cur

(***************************************************************************)
(* The write-ahead log (wal.cpp).  A log is a sequence whose elements are  *)
(* records or Torn.  The byte layout, the length prefix and the CRC are    *)
(* abstracted: a Torn element stands for any bytes on which Replay's       *)
(* short read or CRC check fails.                                          *)
(***************************************************************************)

PutRecord(k, vv) == [op |-> "PUT", key |-> k, val |-> vv.val, ts |-> vv.ts]

\* Delete is logged with an empty value.
DeleteRecord(k, ts) == [op |-> "DELETE", key |-> k, val |-> "", ts |-> ts]

\* What one Append leaves in the file: the whole record, or, when the
\* write() call writes fewer bytes than the blob (disk full), a torn
\* record.  Append only logs the short write and returns normally.
WrittenForms(rec, partialWrites) ==
    IF partialWrites THEN {rec, Torn} ELSE {rec}

\* Replay reads records from the start of the file and stops at the first
\* record it cannot read whole or whose CRC does not match; it returns the
\* records before it.  It does not cut the file back to that prefix.
Replay(wal) ==
    LET bad == SelectInSeq(wal, LAMBDA r : r = Torn)
    IN  IF bad = 0 THEN wal ELSE SubSeq(wal, 1, bad - 1)

(***************************************************************************)
(* Recovery rules (StorageEngine::Recover).  Note the delete test: an      *)
(* entry is erased when its timestamp is <= the record's.                  *)
(***************************************************************************)
\* Mutant: every record replayed as a PUT, whatever its op byte.
RecoverRuleAllPut(cur, rec) ==
    IF cur = NoEntry \/ cur.ts < rec.ts THEN [val |-> rec.val, ts |-> rec.ts] ELSE cur

RecoverRule(cur, rec) ==
    CASE rec.op = "PUT" ->
            IF cur = NoEntry \/ cur.ts < rec.ts
            THEN [val |-> rec.val, ts |-> rec.ts] ELSE cur
      [] rec.op = "DELETE" ->
            IF cur # NoEntry /\ cur.ts <= rec.ts THEN NoEntry ELSE cur

\* Recover applies the replayed records in file order to an empty map.
RecoverFrom(keys, recs) ==
    FoldLeft(LAMBDA m, rec : [m EXCEPT ![rec.key] = RecoverRule(m[rec.key], rec)],
             [k \in keys |-> NoEntry], recs)

=============================================================================
