\* What the error message of a refused join says.
SPECIFICATION Spec
CONSTANTS
    Conns = {c1, c2}
    Names = {ann, bob}
    NoName = NoName
    Chunk = 1
    MaxLog = 3
    MaxQueue = 2
    Savers = {}
    TornWrites = FALSE
    SavesMayFail = FALSE
PROPERTIES RefusalsAreTrue
