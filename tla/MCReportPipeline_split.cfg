\* A report longer than the limit is cut inside its <pre> block.
CONSTANTS
    MaxMessageLength = 14
    Margin = 2
    MaxTextLen = 18
    DataAlphabet <- MCPlainData
    MaxDataLen = 6
SPECIFICATION Spec
INVARIANT
    ChunksParseAsHtml
