\* Concurrent Put/ConditionalPut/Delete, BulkPut and RemoveKeys, crashes
\* and restarts, whole WAL writes.
CONSTANTS
    Keys = {k1}
    Vals = {v1, v2}
    Threads = {t1, t2}
    NoEntry = NoEntry
    Torn = Torn
    NoReq = NoReq
    MaxTs <- MCMaxTs
    MaxLog <- MCMaxLog
    PartialWrites = FALSE
    AdminOps = TRUE
SPECIFICATION Spec
SYMMETRY MCSymmetry
INVARIANTS
    TypeOK
    RecoveredVersionsMatch
