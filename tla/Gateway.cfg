CONSTANTS
    Conns = {c1, c2, c3}
    Threads = {t1, t2, t3}
    ReadyCapacity = 1
    QueueCapacity = 1
    MaxAccepts = 2
    Kinds = {"inference"}
    MaxHangUps = 1
    None = None
SPECIFICATION Spec
SYMMETRY Symmetry
INVARIANTS
    SocketsAreOwned
    Bounded
    AdmittedHasWaiter
    HonestRefusal
    CleanExit
    ControlPlaneHasThread
