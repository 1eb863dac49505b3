CONSTANTS
    Conns = {c1, c2}
    Threads = {t1, t2, t3}
    ReadyCapacity = 1
    QueueCapacity = 1
    MaxAccepts = 1
    Kinds = {"inference", "health", "rejected"}
    MaxHangUps = 0
    None = None
SPECIFICATION LiveSpec
PROPERTIES
    ShutdownCompletes
    AcceptedIsClosed
