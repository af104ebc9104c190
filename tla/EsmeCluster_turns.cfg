\* ESMEs are added, destroyed, bound and unbound while messages are shared out.
SPECIFICATION Spec
CONSTANTS
    e1 = e1
    e2 = e2
    e3 = e3
    e4 = e4
    Esmes <- AllEsmes
    BindType <- BindTypes
    SessionType <- SessionTypes
    Removable <- AllEsmes
INVARIANTS TypeOK FindsAvailable InTurn
