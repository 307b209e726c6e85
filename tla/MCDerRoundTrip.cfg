CONSTANTS
    Tags <- MCTags
    Lengths <- MCLengths
    Codepoints <- MCCodepoints
SPECIFICATION Spec
INVARIANT TagRoundTrip
INVARIANT LengthRoundTrip
INVARIANT Utf8RoundTrip
