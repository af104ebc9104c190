\* An ESME destroyed before the sessionDestroyed of its connection.
SPECIFICATION FairSpec
CONSTANTS
    Esmes = {e1, e2}
    Peers = {p1}
    Exact <- Nobody
    Wild <- Everyone
    Strangers = {}
    Managed = {e1}
    Destroyable = {e1}
    EnquireOn = {e1, e2}
    Sessions = {s1, s2}
    NoSession = NoSession
PROPERTY Enquired
