SPECIFICATION FairSpec
CONSTANTS
    Callers = {}
    MaxConns = 2
PROPERTIES
    TransferEnds

