CONSTANTS
    Procs = {1, 2}
    Code = {}
    Data = {1}
    Mapped = {2, 3}
    Stack = {4, 5}
    Frames = {1, 2}
    Slots = {1, 2}
    MIN_OWN = 2
SPECIFICATION Spec
INVARIANTS FramesAccounted SlotsExclusive 
 
CHECK_DEADLOCK FALSE
