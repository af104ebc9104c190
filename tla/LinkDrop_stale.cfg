\* Connections of one ESME that talk, fall silent, are dropped and come back.
SPECIFICATION FairSpec
CONSTANTS
    Kinds = {enquire, response}
    EnquireLink = enquire
    MaxCounter = 2

PROPERTY DroppedOnlyIfSilent
