\* Two concurrent Puts/Deletes, crashes and restarts, and a write() that may
\* be short: does the engine implement the atomic last-writer-wins map?
CONSTANTS
    Keys = {k1}
    Vals = {v1, v2}
    Threads = {t1, t2}
    NoEntry = NoEntry
    Torn = Torn
    NoReq = NoReq
    MaxTs <- MCMaxTs
    MaxLog <- MCMaxLog
    PartialWrites = TRUE
    AdminOps = FALSE
SPECIFICATION Spec
SYMMETRY MCSymmetry
PROPERTY ImplementsLWWStore
