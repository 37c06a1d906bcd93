SPECIFICATION Spec
CONSTANTS
    Writers = {"client", "latency"}
    Threshold = 4
    BatchOrder = "little"
    Packets <- Sample
    Ctxs = {c1, c2, c3}
    MaxBatch = 2
    MaxPackets = 2
    MaxLatency = 1
SYMMETRY CtxSymmetry
INVARIANTS
    TypeOK
    ServerGetsBatches
    ContextsApart
    PanicOnlyLegacySync
CHECK_DEADLOCK FALSE
