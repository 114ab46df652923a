\* A limit below the hard-coded margin of 100 (here 2 below a margin of 3).
CONSTANTS
    MaxMessageLength = 2
    Margin = 3
    MaxTextLen = 6
SPECIFICATION Spec
INVARIANT
    ChunkWithinLimit
