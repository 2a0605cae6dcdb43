SPECIFICATION Spec
CONSTANTS
    Readers = {r1}
    Writers = {w1, w2}
    ReadEnd = ReadEnd
    WriteEnd = WriteEnd
    Hangup = Hangup
    Capacity = 2
    Sizes = {2, 3}
    ReadSizes = {1}
    Modes = {"block", "nonblock", "frame"}
    Mortal = {}
    MaxCalls = 0
    Traced = TRUE
    None = None
SYMMETRY WriterSymmetry
CHECK_DEADLOCK FALSE
PROPERTIES
    ImplementsFifo
