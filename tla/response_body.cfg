SPECIFICATION Spec
CONSTANTS
    Unset = Unset
    N = 3
    Readers = {r1, r2, r3}
    CR = CR
    LF = LF
    x = x
    Lead = Lead
    Trail = Trail
    Char = Char
    Replacement = Replacement
    Bytes <- MCBytes
    Chunks <- MCChunks
    Delimiters <- MCDelimiters
INVARIANTS
    TypeOK
    NoSilentTruncation
    LateReadersWhole
    ConnectionReleased
    LinesWhole
PROPERTIES
    NoContentAfterStream
