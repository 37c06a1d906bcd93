SPECIFICATION Spec
CONSTANTS
    Callers = {"t1", "t2"}
    MaxConns = 3
INVARIANTS
    OneTransferAtATime

