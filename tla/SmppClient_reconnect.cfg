\* Connections are refused, dropped and broken; nobody stops the ESME.
SPECIFICATION FairSpec
CONSTANTS
    Esmes = {e1}
    Managed = {}
    EnquireOn = {e1}
    Slots = {s1, s2}
    NoSession = NoSession
    MaxEnquires = 2
INVARIANTS Supervised NeverForgotten
PROPERTY Reconnects
