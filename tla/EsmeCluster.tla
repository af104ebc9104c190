---------------------------- MODULE EsmeCluster ----------------------------
(***************************************************************************)
(* EsmeCluster: the ESMEs that share the outgoing messages of a cluster,   *)
(* and getNextEsme(), which picks one of them in turn.                     *)
(*                                                                         *)
(* getNextEsme() holds the monitor of the cluster, addEsme() and           *)
(* removeEsme() those of the two lists: calls of getNextEsme() run one     *)
(* after the other, while ESMEs come, go, bind, unbind and are overloaded  *)
(* between any two of their steps.                                         *)
(***************************************************************************)
EXTENDS Naturals, Sequences, SequencesExt

CONSTANTS
    Esmes,          \* the ESMEs that may be put in the cluster
    BindType,       \* getSmppBindType() of each
    SessionType,    \* getSmppSessionType() of each
    Removable       \* those that an administrator may destroy

ASSUME ClusterAssumption ==
    /\ BindType \in [Esmes -> {"TRANSCEIVER", "RECEIVER", "TRANSMITTER"}]
    /\ SessionType \in [Esmes -> {"CLIENT", "SERVER"}]
    /\ Removable \subseteq Esmes

VARIABLES
    esmes,          \* the ESMEs of the cluster
    esmesToSendPdu, \* those of them that messages can be sent to, in order
    index,          \* the position of the one looked at last, from 0
    available,      \* the ESMEs that are bound and not overloaded
    pc,             \* where the caller inside getNextEsme() is
    i,              \* its loop counter
    outcome,        \* what the last call came to
    (* History, read by the properties only. *)
    steady,         \* ESMEs in the list and available since the call began
    removed,        \* an ESME was destroyed since the call began
    turns           \* messages others got while an ESME was waiting

call == <<pc, i, outcome>>
history == <<steady, removed, turns>>
vars == <<esmes, esmesToSendPdu, index, available, call, history>>

Size == Len(esmesToSendPdu)

\* get(), whose positions start from 0.
Get(k) == esmesToSendPdu[k + 1]

Listed == {Get(k) : k \in 0 .. Size - 1}

TypeOK ==
    /\ esmes \subseteq Esmes
    /\ esmesToSendPdu \in Seq(esmes)
    /\ index \in Nat
    /\ available \subseteq esmes
    /\ pc \in {"idle", "loop", "advance", "look"}
    /\ i \in Nat
    /\ outcome \in {"none", "esme", "null", "exception"}
    /\ steady \subseteq Listed \cap available
    /\ removed \in BOOLEAN
    /\ turns \in [Esmes -> Nat]

Init ==
    /\ esmes = {} /\ esmesToSendPdu = <<>> /\ index = 0 /\ available = {}
    /\ pc = "idle" /\ i = 0 /\ outcome = "none"
    /\ steady = {} /\ removed = FALSE /\ turns = [e \in Esmes |-> 0]

-----------------------------------------------------------------------------
(***************************************************************************)
(* The administrator and the connections.                                  *)
(***************************************************************************)
\* addEsme(): only an ESME that is sent messages goes to the list they are
\* shared out on.
Sends(e) ==
    \/ BindType[e] = "TRANSCEIVER"
    \/ BindType[e] = "RECEIVER" /\ SessionType[e] = "SERVER"
    \/ BindType[e] = "TRANSMITTER" /\ SessionType[e] = "CLIENT"

\* createEsme(): the first ESME of a cluster creates it.  A call on a cluster
\* that has been dropped meanwhile has no effect on the new one.
AddEsme(e) ==
    /\ e \notin esmes
    /\ esmes = {} => pc = "idle"
    /\ esmes' = esmes \cup {e}
    /\ esmesToSendPdu' = IF Sends(e) THEN Append(esmesToSendPdu, e) ELSE esmesToSendPdu
    /\ index' = IF esmes = {} THEN 0 ELSE index
    /\ turns' = [turns EXCEPT ![e] = 0]
    /\ UNCHANGED <<available, call, steady, removed>>

\* Mutant of RemoveEsme: the ESME stays in the list messages are shared out on.
RemoveEsmeListed(e) ==
    /\ e \in esmes \cap Removable
    /\ esmes' = esmes \ {e}
    /\ available' = available \ {e}
    /\ steady' = steady \ {e}
    /\ removed' = TRUE
    /\ turns' = [f \in Esmes |-> 0]
    /\ UNCHANGED <<esmesToSendPdu, index, call>>

\* destroyEsme(): the list closes up behind the ESME that leaves it.
RemoveEsme(e) ==
    /\ e \in esmes \cap Removable
    /\ esmes' = esmes \ {e}
    /\ IF e \in Listed
       THEN \E k \in 0 .. Size - 1 :
               Get(k) = e /\ esmesToSendPdu' = RemoveAt(esmesToSendPdu, k + 1)
       ELSE UNCHANGED esmesToSendPdu
    /\ available' = available \ {e}
    /\ steady' = steady \ {e}
    /\ removed' = TRUE
    /\ turns' = [f \in Esmes |-> 0]
    /\ UNCHANGED <<index, call>>

\* isBound() or getOverloaded() of an ESME changes.
Change(e) ==
    /\ e \in esmes
    /\ available' = IF e \in available THEN available \ {e} ELSE available \cup {e}
    /\ steady' = steady \ {e}
    /\ turns' = [turns EXCEPT ![e] = 0]
    /\ UNCHANGED <<esmes, esmesToSendPdu, index, call, removed>>

-----------------------------------------------------------------------------
(***************************************************************************)
(* getNextEsme()                                                           *)
(***************************************************************************)
\* Mutant of Call: every call starts from the head of the list.
CallFromHead ==
    /\ pc = "idle" /\ esmes # {}
    /\ pc' = "loop" /\ i' = 0 /\ outcome' = "none" /\ index' = 0
    /\ steady' = Listed \cap available /\ removed' = FALSE
    /\ UNCHANGED <<esmes, esmesToSendPdu, available, turns>>

Call ==
    /\ pc = "idle" /\ esmes # {}
    /\ pc' = "loop" /\ i' = 0 /\ outcome' = "none"
    /\ steady' = Listed \cap available /\ removed' = FALSE
    /\ UNCHANGED <<esmes, esmesToSendPdu, index, available, turns>>

Return(how) == pc' = "idle" /\ outcome' = how /\ UNCHANGED i

Loop ==
    /\ pc = "loop"
    /\ \/ i < Size /\ pc' = "advance" /\ UNCHANGED <<i, outcome>>
       \/ ~(i < Size) /\ Return("null")
    /\ UNCHANGED <<esmes, esmesToSendPdu, index, available, history>>

\* Mutant of Advance: the index wraps one position too late.
AdvanceTooFar ==
    /\ pc = "advance"
    /\ index' = IF index + 1 > Size THEN 0 ELSE index + 1
    /\ pc' = "look"
    /\ UNCHANGED <<esmes, esmesToSendPdu, available, i, outcome, history>>

Advance ==
    /\ pc = "advance"
    /\ index' = IF index + 1 >= Size THEN 0 ELSE index + 1
    /\ pc' = "look"
    /\ UNCHANGED <<esmes, esmesToSendPdu, available, i, outcome, history>>

\* The list has got shorter since the index was chosen: get() throws.
LookOutside ==
    /\ pc = "look" /\ index >= Size
    /\ Return("exception")
    /\ UNCHANGED <<esmes, esmesToSendPdu, index, available, history>>

Found ==
    /\ pc = "look" /\ index < Size /\ Get(index) \in available
    /\ Return("esme")
    /\ turns' = [e \in Esmes |->
                    IF e \in (available \cap Listed) \ {Get(index)} THEN turns[e] + 1 ELSE 0]
    /\ UNCHANGED <<esmes, esmesToSendPdu, index, available, steady, removed>>

NotFound ==
    /\ pc = "look" /\ index < Size /\ Get(index) \notin available
    /\ pc' = "loop" /\ i' = i + 1
    /\ UNCHANGED <<esmes, esmesToSendPdu, index, available, outcome, history>>

GetNextEsme == Call \/ Loop \/ Advance \/ LookOutside \/ Found \/ NotFound

Next ==
    \/ GetNextEsme
    \/ \E e \in Esmes : AddEsme(e) \/ RemoveEsme(e) \/ Change(e)

Spec == Init /\ [][Next]_vars

-----------------------------------------------------------------------------
(***************************************************************************)
(* Properties.                                                             *)
(***************************************************************************)
\* The call has ended without an ESME to send by.
GaveUp == pc = "idle" /\ outcome \in {"null", "exception"}

(***************************************************************************)
(* If no ESME is destroyed meanwhile, getNextEsme() finds an ESME whenever *)
(* one of the cluster is bound and not overloaded all through the call,    *)
(* whatever else is added, bound or unbound, and it never fails.           *)
(***************************************************************************)
FindsAvailable == GaveUp /\ ~removed => outcome = "null" /\ steady = {}

(***************************************************************************)
(* Round robin: while an ESME stays available and no ESME is destroyed,    *)
(* fewer messages than there are ESMEs in the list go to others before it  *)
(* has its turn, even if ESMEs are added in front of it all the time.      *)
(***************************************************************************)
InTurn == \A e \in available \cap Listed : turns[e] < Size

=============================================================================
