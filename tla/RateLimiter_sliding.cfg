\* Violated: calls at the end of one window and at the start of the next.
CONSTANTS
    Key = {k1}
    MaxCalls = 2
    Window = 11
    CloseTimes = {5, 6}
    MinTtl = 1
    MaxTime = 27
SPECIFICATION Spec
CHECK_DEADLOCK FALSE
INVARIANTS
    SlidingWindow
