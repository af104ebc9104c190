----------------------------- MODULE SmppServer -----------------------------
(***************************************************************************)
(* The server side of the SMPP extension: DefaultSmppServerHandler, which  *)
(* admits incoming binds, SmppServerOpsThread, which sends ENQUIRE_LINK on *)
(* the admitted sessions, and the start, stop and destroy operations of    *)
(* EsmeManagement on an ESME of session type SERVER.                       *)
(*                                                                         *)
(* A peer is a remote endpoint: system id, bind type, host and port.  It   *)
(* matches an ESME exactly, when the ESME is configured with that host and *)
(* port, or by a wildcard, when the host or the port of the ESME is -1.    *)
(* Each connection has an I/O thread, which runs the callbacks of the      *)
(* handler in the order of the connection's life; callbacks of different   *)
(* connections exclude each other by accessSemaphore.  The operations      *)
(* thread and the administrators do not take the semaphore.                *)
(*                                                                         *)
(* The list of ESMEs is searched in the order they were created in; here   *)
(* any of those a search may stop at can come first.  Passwords, TON, NPI  *)
(* and address ranges are one check: strangers fail it.                    *)
(***************************************************************************)
EXTENDS Naturals

CONSTANTS
    Esmes,        \* the ESMEs of session type SERVER
    Peers,        \* the remote endpoints that bind
    Exact, Wild,  \* for each peer, the ESMEs it matches either way
    Strangers,    \* the peers with a wrong password or address
    Managed,      \* the ESMEs an administrator starts and stops
    Destroyable,  \* those it may destroy as well
    EnquireOn,    \* those with enquireLinkDelayServer > 0
    Sessions,     \* connections, with their session objects
    NoSession     \* the null reference, no ESME, no peer

ASSUME ServerAssumption ==
    /\ Exact \in [Peers -> SUBSET Esmes]
    /\ Wild \in [Peers -> SUBSET Esmes]
    /\ Strangers \subseteq Peers
    /\ Destroyable \subseteq Managed
    /\ Managed \subseteq Esmes
    /\ EnquireOn \subseteq Esmes
    /\ NoSession \notin Sessions \cup Esmes \cup Peers

VARIABLES
    esmes,        \* EsmeManagement.esmes, the ESMEs that exist
    started,      \* Esme.started
    localState,   \* Esme.localState
    stateName,    \* Esme.state
    session,      \* Esme.defaultSmppSession
    serverBound,  \* Esme.serverBound
    enquireFailed,  \* MAX_ENQUIRE_FAILED <= Esme.enquireLinkFailCnt
    esmesServer,  \* the keys of SmppServerOpsThread.esmesServer
    accessSemaphore,  \* the connection whose callback holds it, or NoSession
    io,           \* how far the I/O thread of each connection is
    peer,         \* who has connected
    esme,         \* the ESME of the session, getConfiguration().getName()
    state,        \* DefaultSmppSession.state
    channel,      \* whether the channel of the connection is open
    pendingList,  \* run(): the ESMEs to send ENQUIRE_LINK to
    ops,          \* where the operations thread is, with its esme and session
    admin         \* where the administrator of each ESME is

connections == <<io, peer, esme, state, channel>>
bindings    == <<localState, stateName, session>>
enquiries   == <<serverBound, enquireFailed, esmesServer>>
opsVars     == <<pendingList, ops>>
managed     == <<esmes, started, admin>>

vars == <<connections, bindings, enquiries, opsVars, managed, accessSemaphore>>

(***************************************************************************)
(* Types.                                                                  *)
(***************************************************************************)
SessionStates == {"BINDING", "BOUND", "CLOSED"}

\* The life of a connection: nobody's, connected and not bound, let through by
\* sessionBindRequested(), inside sessionCreated(), served, inside
\* sessionDestroyed().
IOPoints == {"free", "connected", "admitted", "creating", "ready", "schedule",
             "serving", "unbound", "cleared", "removed"}

OpsPoints == {"scan", "pending", "sending", "notBound", "answered", "failed"}

OpsStates == [pc : OpsPoints, esme : Esmes \cup {NoSession},
              session : Sessions \cup {NoSession}]

AdminPoints == {"idle", "stop"}

TypeOK ==
    /\ esmes \subseteq Esmes
    /\ started \in [Esmes -> BOOLEAN]
    /\ localState \in [Esmes -> {"CLOSED", "INITIAL"}]
    /\ stateName \in [Esmes -> {"CLOSED", "INITIAL"}]
    /\ session \in [Esmes -> Sessions \cup {NoSession}]
    /\ serverBound \in [Esmes -> BOOLEAN]
    /\ enquireFailed \in [Esmes -> BOOLEAN]
    /\ esmesServer \subseteq Esmes
    /\ accessSemaphore \in Sessions \cup {NoSession}
    /\ io \in [Sessions -> IOPoints]
    /\ peer \in [Sessions -> Peers \cup {NoSession}]
    /\ esme \in [Sessions -> Esmes \cup {NoSession}]
    /\ \A s \in Sessions : /\ io[s] # "free" => peer[s] \in Peers
                           /\ io[s] \notin {"free", "connected"} => esme[s] \in Esmes
    /\ state \in [Sessions -> SessionStates]
    /\ channel \in [Sessions -> BOOLEAN]
    /\ pendingList \subseteq Esmes
    /\ ops \in OpsStates
    /\ ops.pc \notin {"scan", "pending"} => ops.esme \in Esmes
    /\ \A s \in Sessions : io[s] \in {"creating", "ready", "schedule"} =>
                              session[esme[s]] # NoSession
    /\ \A e \in Esmes : serverBound[e] => session[e] # NoSession
    /\ \A e \in pendingList : session[e] # NoSession
    /\ ops.pc \notin {"scan", "pending"} => ops.session \in Sessions
    /\ admin \in [Esmes -> AdminPoints]

(***************************************************************************)
(* Helpers.                                                                *)
(***************************************************************************)
At(pc) == ops.pc = pc

Goto(pc) == ops' = [pc |-> pc, esme |-> NoSession, session |-> NoSession]

\* Esme.getStateName()
StateName(e) ==
    IF session[e] = NoSession THEN stateName[e] ELSE state[session[e]]

\* getEsmeByPrimaryKey(): the ESMEs the search for a peer may stop at.  An exact
\* match is taken whatever its state, a wildcard only when it is free.
Candidates(p) ==
    {e \in esmes : e \in Exact[p] \/ (e \in Wild[p] /\ localState[e] = "CLOSED")}

\* DefaultSmppSession.close() and destroy()
Close(s) ==
    /\ state' = [state EXCEPT ![s] = "CLOSED"]
    /\ channel' = [channel EXCEPT ![s] = FALSE]

SemaphoreFree == accessSemaphore = NoSession

\* A session object nothing refers to.
Unused(s) ==
    /\ io[s] = "free"
    /\ \A e \in Esmes : session[e] # s
    /\ ops.session # s

Init ==
    /\ esmes = Esmes
    /\ started \in [Esmes -> BOOLEAN]
    /\ localState = [e \in Esmes |-> "CLOSED"]
    /\ stateName = [e \in Esmes |-> "CLOSED"]
    /\ session = [e \in Esmes |-> NoSession]
    /\ serverBound = [e \in Esmes |-> FALSE]
    /\ enquireFailed = [e \in Esmes |-> FALSE]
    /\ esmesServer = {}
    /\ accessSemaphore = NoSession
    /\ io = [s \in Sessions |-> "free"]
    /\ peer = [s \in Sessions |-> NoSession]
    /\ esme = [s \in Sessions |-> NoSession]
    /\ state = [s \in Sessions |-> "CLOSED"]
    /\ channel = [s \in Sessions |-> FALSE]
    /\ pendingList = {}
    /\ ops = [pc |-> "scan", esme |-> NoSession, session |-> NoSession]
    /\ admin = [e \in Esmes |-> "idle"]

-----------------------------------------------------------------------------
(***************************************************************************)
(* The network.                                                            *)
(***************************************************************************)
\* A peer connects; an endpoint has at most one open connection.
Connect(s, p) ==
    /\ Unused(s)
    /\ \A t \in Sessions : peer[t] = p => ~channel[t]
    /\ io' = [io EXCEPT ![s] = "connected"]
    /\ peer' = [peer EXCEPT ![s] = p]
    /\ esme' = [esme EXCEPT ![s] = NoSession]
    /\ state' = [state EXCEPT ![s] = "BINDING"]
    /\ channel' = [channel EXCEPT ![s] = TRUE]
    /\ UNCHANGED <<bindings, enquiries, opsVars, managed, accessSemaphore>>

\* The peer or the network closes a connection.
Disconnect(s) ==
    /\ channel[s]
    /\ channel' = [channel EXCEPT ![s] = FALSE]
    /\ UNCHANGED <<io, peer, esme, state, bindings, enquiries, opsVars, managed,
                   accessSemaphore>>

-----------------------------------------------------------------------------
(***************************************************************************)
(* The I/O threads: DefaultSmppServerHandler.                              *)
(***************************************************************************)
\* The ESME the search has stopped at can be bound.
CanBind(e) == started[e] /\ StateName(e) = "CLOSED"

\* No ESME is found, or one that is stopped or already bound, or the peer fails
\* the other checks: the library refuses the bind and closes the connection.
BindRejected(s) ==
    /\ io[s] = "connected"
    /\ SemaphoreFree
    /\ \/ Candidates(peer[s]) = {}
       \/ \E e \in Candidates(peer[s]) : ~CanBind(e)
       \/ peer[s] \in Strangers
    /\ io' = [io EXCEPT ![s] = "free"]
    /\ peer' = [peer EXCEPT ![s] = NoSession]
    /\ Close(s)
    /\ UNCHANGED <<esme, bindings, enquiries, opsVars, managed, accessSemaphore>>

\* Mutants of BindAccepted: localState is left alone; started is not read.
BindAcceptedUnmarked(s, e) ==
    /\ io[s] = "connected"
    /\ SemaphoreFree
    /\ peer[s] \notin Strangers
    /\ e \in Candidates(peer[s])
    /\ CanBind(e)
    /\ stateName' = [stateName EXCEPT ![e] = "INITIAL"]
    /\ io' = [io EXCEPT ![s] = "admitted"]
    /\ esme' = [esme EXCEPT ![s] = e]
    /\ UNCHANGED <<peer, state, channel, localState, session, enquiries, opsVars,
                   managed, accessSemaphore>>

BindAcceptedStopped(s, e) ==
    /\ io[s] = "connected"
    /\ SemaphoreFree
    /\ peer[s] \notin Strangers
    /\ e \in Candidates(peer[s])
    /\ StateName(e) = "CLOSED"
    /\ stateName' = [stateName EXCEPT ![e] = "INITIAL"]
    /\ localState' = [localState EXCEPT ![e] = "INITIAL"]
    /\ io' = [io EXCEPT ![s] = "admitted"]
    /\ esme' = [esme EXCEPT ![s] = e]
    /\ UNCHANGED <<peer, state, channel, session, enquiries, opsVars, managed,
                   accessSemaphore>>

BindAccepted(s, e) ==
    /\ io[s] = "connected"
    /\ SemaphoreFree
    /\ peer[s] \notin Strangers
    /\ e \in Candidates(peer[s])
    /\ CanBind(e)
    /\ stateName' = [stateName EXCEPT ![e] = "INITIAL"]
    /\ localState' = [localState EXCEPT ![e] = "INITIAL"]
    /\ io' = [io EXCEPT ![s] = "admitted"]
    /\ esme' = [esme EXCEPT ![s] = e]
    /\ UNCHANGED <<peer, state, channel, session, enquiries, opsVars, managed,
                   accessSemaphore>>

\* sessionCreated() finds the ESME destroyed: the library closes the channel.
SessionRefused(s) ==
    /\ io[s] = "admitted"
    /\ SemaphoreFree
    /\ esme[s] \notin esmes
    /\ io' = [io EXCEPT ![s] = "serving"]
    /\ channel' = [channel EXCEPT ![s] = FALSE]
    /\ UNCHANGED <<peer, esme, state, bindings, enquiries, opsVars, managed,
                   accessSemaphore>>

\* Mutant of SetSmppSession: the ESME keeps the session it has.
SmppSessionKept(s) ==
    /\ io[s] = "admitted"
    /\ SemaphoreFree
    /\ esme[s] \in esmes
    /\ accessSemaphore' = s
    /\ session' = [session EXCEPT ![esme[s]] = IF @ = NoSession THEN s ELSE @]
    /\ io' = [io EXCEPT ![s] = "creating"]
    /\ UNCHANGED <<peer, esme, state, channel, localState, stateName, enquiries,
                   opsVars, managed>>

SetSmppSession(s) ==
    /\ io[s] = "admitted"
    /\ SemaphoreFree
    /\ esme[s] \in esmes
    /\ accessSemaphore' = s
    /\ session' = [session EXCEPT ![esme[s]] = s]
    /\ io' = [io EXCEPT ![s] = "creating"]
    /\ UNCHANGED <<peer, esme, state, channel, localState, stateName, enquiries,
                   opsVars, managed>>

\* session.serverReady(): the session is BOUND, even one just closed.
ServerReady(s) ==
    /\ io[s] = "creating"
    /\ state' = [state EXCEPT ![s] = "BOUND"]
    /\ io' = [io EXCEPT ![s] = "ready"]
    /\ UNCHANGED <<peer, esme, channel, bindings, enquiries, opsVars, managed,
                   accessSemaphore>>

\* Mutant of SetServerBound: the flag is left as it is.
ServerBoundNotSet(s) ==
    /\ io[s] = "ready"
    /\ io' = [io EXCEPT ![s] = "schedule"]
    /\ UNCHANGED <<peer, esme, state, channel, bindings, enquiries, opsVars,
                   managed, accessSemaphore>>

SetServerBound(s) ==
    /\ io[s] = "ready"
    /\ serverBound' = [serverBound EXCEPT ![esme[s]] = TRUE]
    /\ io' = [io EXCEPT ![s] = "schedule"]
    /\ UNCHANGED <<peer, esme, state, channel, bindings, enquireFailed,
                   esmesServer, opsVars, managed, accessSemaphore>>

\* scheduleList(), and the semaphore is released.
ScheduleFirst(s) ==
    /\ io[s] = "schedule"
    /\ esmesServer' = esmesServer \cup {esme[s]}
    /\ accessSemaphore' = NoSession
    /\ io' = [io EXCEPT ![s] = "serving"]
    /\ UNCHANGED <<peer, esme, state, channel, bindings, serverBound,
                   enquireFailed, opsVars, managed>>

\* sessionDestroyed(): it looks the ESME up by name, and never compares the
\* session with the one the ESME refers to.
SessionDestroyed(s) ==
    /\ io[s] = "serving"
    /\ ~channel[s]
    /\ SemaphoreFree
    /\ esme[s] \in esmes
    /\ accessSemaphore' = s
    /\ serverBound' = [serverBound EXCEPT ![esme[s]] = FALSE]
    /\ io' = [io EXCEPT ![s] = "unbound"]
    /\ UNCHANGED <<peer, esme, state, channel, bindings, enquireFailed, esmesServer,
                   opsVars, managed>>

ResetEnquireLinkFail(s) ==
    /\ io[s] = "unbound"
    /\ enquireFailed' = [enquireFailed EXCEPT ![esme[s]] = FALSE]
    /\ io' = [io EXCEPT ![s] = "cleared"]
    /\ UNCHANGED <<peer, esme, state, channel, bindings, serverBound, esmesServer,
                   opsVars, managed, accessSemaphore>>

RemoveEnquireList(s) ==
    /\ io[s] = "cleared"
    /\ esmesServer' = esmesServer \ {esme[s]}
    /\ io' = [io EXCEPT ![s] = "removed"]
    /\ UNCHANGED <<peer, esme, state, channel, bindings, serverBound, enquireFailed,
                   opsVars, managed, accessSemaphore>>

\* Mutants of BackToClosed: the session object is not destroyed; the ESME is not
\* made free again.
BackNotDestroyed(s) ==
    /\ io[s] = "removed"
    /\ localState' = [localState EXCEPT ![esme[s]] = "CLOSED"]
    /\ io' = [io EXCEPT ![s] = "free"]
    /\ peer' = [peer EXCEPT ![s] = NoSession]
    /\ accessSemaphore' = NoSession
    /\ UNCHANGED <<esme, state, channel, stateName, session, enquiries, opsVars,
                   managed>>

BackUnmarked(s) ==
    /\ io[s] = "removed"
    /\ state' = [state EXCEPT ![s] = "CLOSED"]
    /\ io' = [io EXCEPT ![s] = "free"]
    /\ peer' = [peer EXCEPT ![s] = NoSession]
    /\ accessSemaphore' = NoSession
    /\ UNCHANGED <<esme, channel, bindings, enquiries, opsVars, managed>>

\* The ESME is free again and the session destroyed before the semaphore is
\* released; until then nobody looks for a free ESME.
BackToClosed(s) ==
    /\ io[s] = "removed"
    /\ localState' = [localState EXCEPT ![esme[s]] = "CLOSED"]
    /\ state' = [state EXCEPT ![s] = "CLOSED"]
    /\ io' = [io EXCEPT ![s] = "free"]
    /\ peer' = [peer EXCEPT ![s] = NoSession]
    /\ accessSemaphore' = NoSession
    /\ UNCHANGED <<esme, channel, stateName, session, enquiries, opsVars, managed>>

\* sessionDestroyed() of an ESME that has been destroyed: the lookup returns
\* null, and the callback ends in an exception before it has done anything.
SessionDestroyedThrows(s) ==
    /\ io[s] = "serving"
    /\ ~channel[s]
    /\ SemaphoreFree
    /\ esme[s] \notin esmes
    /\ io' = [io EXCEPT ![s] = "free"]
    /\ peer' = [peer EXCEPT ![s] = NoSession]
    /\ UNCHANGED <<esme, state, channel, bindings, enquiries, opsVars, managed,
                   accessSemaphore>>

-----------------------------------------------------------------------------
(***************************************************************************)
(* The operations thread: SmppServerOpsThread.run() and enquireLink().     *)
(***************************************************************************)
\* The ESMEs of the map whose next ENQUIRE_LINK may be due.
Eligible == {e \in esmesServer : started[e] /\ serverBound[e] /\ e \in EnquireOn}

\* The loop over the keys of the map: a stopped ESME is marked as not bound,
\* and those found due are sent an ENQUIRE_LINK.
Scan(due) ==
    /\ At("scan")
    /\ esmesServer \subseteq esmes
    /\ due \subseteq Eligible
    /\ serverBound' = [e \in Esmes |->
                          serverBound[e] /\ (e \in esmesServer => started[e])]
    /\ pendingList' = due
    /\ Goto("pending")
    /\ UNCHANGED <<connections, bindings, enquireFailed, esmesServer, managed,
                   accessSemaphore>>

\* A key of the map names a destroyed ESME: the loop ends in an exception once
\* it has visited some of the others, and begins again.
ScanThrows ==
    /\ At("scan")
    /\ esmesServer \ esmes # {}
    /\ \E visited \in SUBSET (esmesServer \cap esmes) :
          serverBound' = [e \in Esmes |->
                            serverBound[e] /\ (e \in visited => started[e])]
    /\ UNCHANGED <<connections, bindings, enquireFailed, esmesServer, opsVars,
                   managed, accessSemaphore>>

\* The list is done; the loop waits and begins again.
PendingDone ==
    /\ At("pending")
    /\ pendingList = {}
    /\ Goto("scan")
    /\ UNCHANGED <<connections, bindings, enquiries, pendingList, managed,
                   accessSemaphore>>

\* Mutant of EnquireLink: the list is read and not emptied, off its end.
EnquireLinkAny(e) ==
    /\ At("pending")
    /\ ops' = [pc |-> IF session[e] # NoSession /\ serverBound[e]
                        THEN "sending" ELSE "notBound",
               esme |-> e, session |-> session[e]]
    /\ UNCHANGED <<connections, bindings, enquiries, pendingList, managed,
                   accessSemaphore>>

EnquireLink(e) ==
    /\ At("pending")
    /\ e \in pendingList
    /\ pendingList' = pendingList \ {e}
    /\ ops' = [pc |-> IF state[session[e]] = "BOUND" /\ serverBound[e]
                        THEN "sending" ELSE "notBound",
               esme |-> e, session |-> session[e]]
    /\ UNCHANGED <<connections, bindings, enquiries, managed, accessSemaphore>>

EnquireAnswered ==
    /\ At("sending")
    /\ channel[ops.session]
    /\ enquireFailed' = [enquireFailed EXCEPT ![ops.esme] = FALSE]
    /\ ops' = [ops EXCEPT !.pc = "answered"]
    /\ UNCHANGED <<connections, bindings, serverBound, esmesServer, pendingList,
                   managed, accessSemaphore>>

\* scheduleList() with the time of the next ENQUIRE_LINK.
ScheduleNext ==
    /\ At("answered")
    /\ esmesServer' = esmesServer \cup {ops.esme}
    /\ ops' = [ops EXCEPT !.pc = "failed"]
    /\ UNCHANGED <<connections, bindings, serverBound, enquireFailed, pendingList,
                   managed, accessSemaphore>>

\* Any exception: closed channel, closed session, timeout.
EnquireException ==
    /\ At("sending")
    /\ enquireFailed' = [enquireFailed EXCEPT ![ops.esme] = TRUE]
    /\ ops' = [ops EXCEPT !.pc = "failed"]
    /\ UNCHANGED <<connections, bindings, serverBound, esmesServer, pendingList,
                   managed, accessSemaphore>>

\* MAX_ENQUIRE_FAILED is 1: the session is closed at the first failure.
CheckFailed ==
    /\ At("failed")
    /\ IF enquireFailed[ops.esme] THEN Close(ops.session)
                                  ELSE UNCHANGED <<state, channel>>
    /\ Goto("pending")
    /\ UNCHANGED <<io, peer, esme, bindings, enquiries, pendingList, managed,
                   accessSemaphore>>

\* "This should never happen"
CloseNotBound ==
    /\ At("notBound")
    /\ Close(ops.session)
    /\ Goto("pending")
    /\ UNCHANGED <<io, peer, esme, bindings, enquiries, pendingList, managed,
                   accessSemaphore>>

-----------------------------------------------------------------------------
(***************************************************************************)
(* The administrators: startEsme(), stopEsme() and destroyEsme().          *)
(***************************************************************************)
StartEsme(e) ==
    /\ e \in Managed \cap esmes
    /\ admin[e] = "idle"
    /\ ~started[e]
    /\ started' = [started EXCEPT ![e] = TRUE]
    /\ UNCHANGED <<connections, bindings, enquiries, opsVars, esmes, admin,
                   accessSemaphore>>

StopEsme(e) ==
    /\ e \in Managed \cap esmes
    /\ admin[e] = "idle"
    /\ started' = [started EXCEPT ![e] = FALSE]
    /\ admin' = [admin EXCEPT ![e] = "stop"]
    /\ UNCHANGED <<connections, bindings, enquiries, opsVars, esmes,
                   accessSemaphore>>

\* stopWrappedSession()
StopSession(e) ==
    /\ admin[e] = "stop"
    /\ IF session[e] = NoSession THEN UNCHANGED <<state, channel>>
                                 ELSE Close(session[e])
    /\ admin' = [admin EXCEPT ![e] = "idle"]
    /\ UNCHANGED <<io, peer, esme, bindings, enquiries, opsVars, esmes, started,
                   accessSemaphore>>

DestroyEsme(e) ==
    /\ e \in Destroyable \cap esmes
    /\ admin[e] = "idle"
    /\ ~started[e]
    /\ esmes' = esmes \ {e}
    /\ UNCHANGED <<connections, bindings, enquiries, opsVars, started, admin,
                   accessSemaphore>>

-----------------------------------------------------------------------------
\* The bind of a peer, as far as the handler is concerned.
Bind(s) ==
    \/ BindRejected(s)
    \/ \E e \in Esmes : BindAccepted(s, e)
    \/ SessionRefused(s) \/ SetSmppSession(s) \/ ServerReady(s)
    \/ SetServerBound(s) \/ ScheduleFirst(s)

Unbind(s) ==
    \/ SessionDestroyed(s) \/ ResetEnquireLinkFail(s) \/ RemoveEnquireList(s)
    \/ BackToClosed(s) \/ SessionDestroyedThrows(s)

Network(s) == Disconnect(s) \/ \E p \in Peers : Connect(s, p)

Enquire ==
    \/ EnquireAnswered \/ ScheduleNext \/ EnquireException \/ CheckFailed
    \/ CloseNotBound

OpsThread ==
    \/ \E due \in SUBSET Esmes : Scan(due)
    \/ ScanThrows \/ PendingDone \/ Enquire
    \/ \E e \in Esmes : EnquireLink(e)

Administrator(e) ==
    StartEsme(e) \/ StopEsme(e) \/ StopSession(e) \/ DestroyEsme(e)

Next ==
    \/ \E s \in Sessions : Network(s) \/ Bind(s) \/ Unbind(s)
    \/ OpsThread
    \/ \E e \in Esmes : Administrator(e)

Spec == Init /\ [][Next]_vars

(***************************************************************************)
(* Fairness.  The I/O threads and the operations thread keep running, the  *)
(* semaphore is handed to every thread that waits for it, time passes, so  *)
(* an ENQUIRE_LINK becomes due, and an operation of an administrator ends. *)
(* Nothing forces a peer to bind or an administrator to act.               *)
(***************************************************************************)
Fairness ==
    /\ \A s \in Sessions : SF_vars(Bind(s)) /\ SF_vars(Unbind(s))
    /\ WF_vars(OpsThread)
    /\ \A e \in Esmes :
          /\ SF_vars(\E due \in SUBSET Esmes : e \in due /\ Scan(due))
          /\ WF_vars(StopSession(e))

FairSpec == Spec /\ Fairness

-----------------------------------------------------------------------------
(***************************************************************************)
(* Properties.                                                             *)
(***************************************************************************)
\* A pooled ESME is matched by wildcards only, and is never destroyed.
Pooled == {e \in Esmes \ Destroyable : \A p \in Peers : e \notin Exact[p]}

\* The connections that sessionBindRequested() has let through for e and whose
\* sessionDestroyed() is not over yet.
Holders(e) == {s \in Sessions : io[s] \notin {"free", "connected"} /\ esme[s] = e}

(***************************************************************************)
(* The binds that peers make at the same time are shared out among the     *)
(* pooled ESMEs: an ESME is never given to a second connection before the  *)
(* callback that ends the first, whatever is stopped, started, closed or   *)
(* dropped meanwhile.                                                      *)
(***************************************************************************)
OneHolder == \A e \in Pooled : \A s, t \in Holders(e) : s = t

\* The inductive form of OneHolder: an ESME marked as free has no holder.
HolderOf(e) ==
    /\ localState[e] = "CLOSED" => Holders(e) = {}
    /\ \A s, t \in Holders(e) : s = t

HolderInd == \A e \in Pooled : HolderOf(e)

\* Inside sessionCreated() or sessionDestroyed(), with the semaphore.
InCallback(s) ==
    io[s] \in {"creating", "ready", "schedule", "unbound", "cleared", "removed"}

(***************************************************************************)
(* Nothing is held by nobody: an ESME is missing from the pool only while  *)
(* a connection that has not ended yet has it, and the semaphore is taken  *)
(* exactly while one such callback runs.  So what a bind or a callback     *)
(* waits for is given back, however a session ends and whoever ends it.    *)
(***************************************************************************)
HeldBySomeone ==
    /\ \A e \in Pooled : localState[e] # "CLOSED" => Holders(e) # {}
    /\ \A s \in Sessions : InCallback(s) <=> accessSemaphore = s

(***************************************************************************)
(* A connection that is served for a pooled ESME is the one its Esme       *)
(* object refers to, so that stopEsme and the supervision can close it.    *)
(***************************************************************************)
NoOrphan ==
    \A s \in Sessions : io[s] = "serving" /\ esme[s] \in Pooled => session[esme[s]] = s

(***************************************************************************)
(* A pooled ESME that the search takes for free is not found bound after   *)
(* all: the two states the handler keeps of it agree, although one is      *)
(* reset by the callback and the other by whoever closes the session.      *)
(***************************************************************************)
FreeIsClosed ==
    \A e \in Pooled : localState[e] = "CLOSED" => StateName(e) = "CLOSED"

\* Past setSmppSession(), until sessionDestroyed() is over.
Created(s) == InCallback(s) \/ io[s] = "serving"

\* The inductive form of NoOrphan and FreeIsClosed: the session an ESME refers
\* to is the one its holder has created, or a closed one.
SessionOf(e) ==
    /\ e \in esmes
    /\ \A s \in Sessions : Created(s) /\ esme[s] = e => session[e] = s
    /\ \A s \in Sessions : session[e] = s =>
          IF io[s] = "free" THEN state[s] = "CLOSED" ELSE Created(s) /\ esme[s] = e
    /\ session[e] = NoSession /\ localState[e] = "CLOSED" => stateName[e] = "CLOSED"

SessionInd == \A e \in Pooled : SessionOf(e)

(***************************************************************************)
(* A connection that is served for a pooled ESME nobody stops is in the    *)
(* charge of the operations thread.                                        *)
(***************************************************************************)
Supervised ==
    \A s \in Sessions :
        io[s] = "serving" /\ esme[s] \in Pooled \ Managed =>
            serverBound[esme[s]] /\ esme[s] \in esmesServer

\* The inductive form of Supervised: what its holder has set so far is still set.
SupervisedOf(e) ==
    \A s \in Holders(e) :
        /\ started[e]
        /\ io[s] \in {"schedule", "serving"} => serverBound[e]
        /\ io[s] = "serving" => e \in esmesServer

SupervisedInd == \A e \in Pooled \ Managed : SupervisedOf(e)

(***************************************************************************)
(* The pooled ESMEs, as the connections see them, are what                 *)
(* ExclusiveBinding specifies.                                             *)
(***************************************************************************)
Exclusive == INSTANCE ExclusiveBinding WITH
    Esmes <- Pooled,
    started <- [e \in Pooled |-> started[e]],
    holders <- [e \in Pooled |-> Holders(e)]

ImplementsExclusive == Exclusive!Spec

\* A connection is served for e and its channel is open.
Served(e) == \E s \in Holders(e) : io[s] = "serving" /\ channel[s]

Enquiring(e) == ops.esme = e /\ At("sending")

(***************************************************************************)
(* As long as a connection is served for it, a pooled ESME nobody stops is *)
(* sent ENQUIRE_LINK again and again.                                      *)
(***************************************************************************)
Enquired ==
    \A e \in (Pooled \ Managed) \cap EnquireOn :
        []<>(Enquiring(e) \/ ~Served(e))

(***************************************************************************)
(* A pooled ESME whose connection is gone becomes free for the next bind.  *)
(***************************************************************************)
BecomesFree ==
    \A e \in Pooled :
        []<>(Served(e) \/ (localState[e] = "CLOSED" /\ StateName(e) = "CLOSED"))

=============================================================================
