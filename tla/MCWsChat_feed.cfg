\* Two connections, one name, three entries in chunks of one: who has the name,
\* who hears what, and what is saved by whose timer, when writes may fail.
SPECIFICATION FeedSpec
CONSTANTS
    Conns = {c1, c2}
    Names = {ann}
    NoName = NoName
    Chunk = 1
    MaxLog = 3
    MaxQueue = 2
    Savers = {c1, c2}
    TornWrites = FALSE
    SavesMayFail = TRUE
INVARIANTS NamesUnique NewsOnce
PROPERTIES EntriesAreSaved
