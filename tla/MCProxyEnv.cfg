SPECIFICATION Spec
CONSTANTS
    current = current
    log = log
    table = table
    other = other
    piece = piece
    old = old
    t1 = t1
    t2 = t2
    Threads = {t1, t2}
    Protected = {current, log, table}
    Outside = {other}
    Pieces = {piece}
    Original <- MCOriginal
    Broken = Broken
    None = None
    MaxFaults = 1
    MaxFiles = 3
    MaxLength = 2
INVARIANTS WorldUntouched
PROPERTY PlainSpec
CHECK_DEADLOCK FALSE
