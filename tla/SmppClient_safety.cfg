\* One managed ESME with enquire link: every interleaving of its threads.
SPECIFICATION FairSpec
CONSTANTS
    Esmes = {e1}
    Managed = {e1}
    EnquireOn = {e1}
    Slots = {s1, s2}
    NoSession = NoSession
    MaxEnquires = 2
INVARIANTS TypeOK OneConnect OneSession
PROPERTIES ConnectServed ForgottenOnlyByDrop ImplementsSingle
