\* Three posts at a time, every fault, and a limit that cuts, is nothing or is negative.
SPECIFICATION Spec
CONSTANTS
    Handlers = {h1, h2, h3}
    Chunks = {"a", "b", "c"}
    Bodies <- MCBodies
    Limits <- MCLimits
    MaxPosts = 4
    Faults = {"read", "disk", "crash"}
SYMMETRY MCSymmetry
INVARIANTS FileIsCapture AnsweredIsCaptured
PROPERTY CaptureStays
CHECK_DEADLOCK FALSE
