CONSTANTS
    Conns = {c1, c2}
    Threads = {t1, t2, t3}
    ReadyCapacity = 1
    QueueCapacity = 1
    MaxAccepts = 2
    Kinds = {"inference"}
    MaxHangUps = 0
    None = None
SPECIFICATION Spec
PROPERTY EvictsOnlyIncomplete
