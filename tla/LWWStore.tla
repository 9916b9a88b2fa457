----------------------------- MODULE LWWStore -----------------------------
(***************************************************************************)
(* What a node's storage promises its callers (spec.md 4.2): one atomic    *)
(* last-writer-wins map.  Callers issue writes (PUT of a version, DELETE   *)
(* at a timestamp); each takes effect, possibly more than once, by the     *)
(* last-writer-wins rule alone, whatever crashes and restarts happen in    *)
(* between.  A write takes effect only over an older version: equal      *)
(* timestamps are stale, first writer wins (spec.md 4.2, the monotonic-    *)
(* timestamp rule, which Recovery applies too).                            *)
(***************************************************************************)
EXTENDS Naturals

CONSTANTS
    Keys,
    Vals,
    MaxTs,
    NoEntry

Writes == [op : {"PUT"}, key : Keys, val : Vals, ts : 1..MaxTs]
          \cup [op : {"DELETE"}, key : Keys, val : {""}, ts : 1..MaxTs]

VARIABLES
    kv,       \* the map: key -> [val, ts] or NoEntry
    issued    \* the writes callers have issued

absVars == <<kv, issued>>

Init ==
    /\ kv = [k \in Keys |-> NoEntry]
    /\ issued = {}

\* A caller issues a write.
Issue(w) ==
    /\ issued' = issued \cup {w}
    /\ UNCHANGED kv

\* An issued write takes effect: the held version is strictly older.
TakeEffect(w) ==
    /\ w \in issued
    /\ kv[w.key] # NoEntry => kv[w.key].ts < w.ts
    /\ kv' = [kv EXCEPT ![w.key] = IF w.op = "PUT" THEN [val |-> w.val, ts |-> w.ts]
                                  ELSE NoEntry]
    /\ UNCHANGED issued

Next == \E w \in Writes : Issue(w) \/ TakeEffect(w)

Spec == Init /\ [][Next]_absVars

=============================================================================
