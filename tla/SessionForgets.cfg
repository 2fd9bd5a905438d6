CONSTANTS
    t1 = t1
    Turns = {t1}
    Docs = {d1}
    Clears = {c1}
    Deletes = {x1}
    Fallible = {}
    MaxPresses = 2
    None = None
SPECIFICATION Spec
INVARIANT ForgottenStaysForgotten
CHECK_DEADLOCK FALSE
