SPECIFICATION Spec
CONSTANTS
    Unset = Unset
    N = 3
    Readers = {r1, r2, r3}
INVARIANT ContentFullyRead
