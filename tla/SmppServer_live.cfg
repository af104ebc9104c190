\* Two ESMEs shared by two peers, one of them stopped and started, under fairness.
SPECIFICATION FairSpec
CONSTANTS
    Esmes = {e1, e2}
    Peers = {p1, p2}
    Exact <- Nobody
    Wild <- Everyone
    Strangers = {}
    Managed = {e1}
    Destroyable = {}
    EnquireOn = {e1, e2}
    Sessions = {s1, s2}
    NoSession = NoSession
INVARIANT Supervised
PROPERTIES Enquired BecomesFree
