\* One administrator; the JVM may end anywhere, and the management is stopped
\* and started.
SPECIFICATION Spec
CONSTANTS
    Admins = {a1}
    Esmes = {e1, e2, e3, e4}
    Names = {n1, n2}
    ClusterNames = {c1, c2}
    Nets = {w1, w2}
    MaxStops = 1
    NoEsme = NoEsme
    NoNet = NoNet
    NoConf = NoConf
SYMMETRY Symmetry
INVARIANTS TypeOK Reachable Grouped Persisted Kept OneNetwork Managed NoStrangers
PROPERTY ImplementsDurable
