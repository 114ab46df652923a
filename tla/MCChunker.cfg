\* Every text of up to 9 characters, limit 5, margin 2.
CONSTANTS
    MaxMessageLength = 5
    Margin = 2
    MaxTextLen = 9
SPECIFICATION Spec
INVARIANTS
    ChunkWithinLimit
    OnlyCutNewlinesLost
