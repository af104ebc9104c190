\* Two peers: one pooled ESME, one with a fixed host and port that is destroyed.
SPECIFICATION Spec
CONSTANTS
    Esmes = {e1, e2}
    Peers = {p1, p2}
    Exact <- Pinned
    Wild <- Pool
    Strangers = {}
    Managed = {e1, e2}
    Destroyable = {e2}
    EnquireOn = {e1, e2}
    Sessions = {s1, s2}
    NoSession = NoSession
INVARIANTS TypeOK OneHolder NoOrphan FreeIsClosed HeldBySomeone
PROPERTY ImplementsExclusive
