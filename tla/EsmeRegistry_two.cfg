\* Two administrators at a time.
SPECIFICATION Spec
CONSTANTS
    Admins = {a1, a2}
    Esmes = {e1, e2, e3}
    Names = {n1, n2}
    ClusterNames = {c1, c2}
    Nets = {w1, w2}
    MaxStops = 0
    NoEsme = NoEsme
    NoNet = NoNet
    NoConf = NoConf
SYMMETRY Symmetry
INVARIANT StandsRestart
