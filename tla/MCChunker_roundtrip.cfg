\* Spec 8 round trip: one newline re-inserted per cut gives back the text.
CONSTANTS
    MaxMessageLength = 5
    Margin = 2
    MaxTextLen = 9
SPECIFICATION Spec
INVARIANT
    RoundTripSingleNewline
