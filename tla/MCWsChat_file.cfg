\* A connection that saves, closes and comes back; five entries in chunks of
\* two; writes may fail, and the process may die at any time.
SPECIFICATION Spec
CONSTANTS
    Conns = {c1}
    Names = {}
    NoName = NoName
    Chunk = 2
    MaxLog = 5
    MaxQueue = 4
    Savers = {c1}
    TornWrites = TRUE
    SavesMayFail = TRUE
INVARIANTS BacklogIsFull FileIsBeginning
PROPERTIES SavesSurvive
