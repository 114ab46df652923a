\* A payload containing '<' is put into the HTML report unescaped.
CONSTANTS
    MaxMessageLength = 14
    Margin = 2
    MaxTextLen = 18
    DataAlphabet <- MCMarkupData
    MaxDataLen = 2
SPECIFICATION Spec
INVARIANT
    ChunksParseAsHtml
