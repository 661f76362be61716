SPECIFICATION Spec
CHECK_DEADLOCK FALSE
CONSTANTS
    None = None
    Null = Null
    again = again
    file = file
    offset = offset
    tape = tape
    pipe = pipe
    generator = generator
    form = form
    plain = plain
    Threads = {t1, t2}
    Requests <- MCRequests
    Programs <- MCPrograms
    Nonces = {n1, n2}
    Body <- MCBody
    Start <- MCStart
    Unknowns = {"nothing", "algorithm"}
    MaxSends <- MCMaxSends
    MaxHops = 1
INVARIANT AnyThreadMaySend
