\* A stop while the operations thread binds.
SPECIFICATION Spec
CONSTANTS
    Esmes = {e1}
    Managed = {e1}
    EnquireOn = {e1}
    Slots = {s1, s2, s3}
    NoSession = NoSession
    MaxEnquires = 2
INVARIANT StoppedIsUnbound
