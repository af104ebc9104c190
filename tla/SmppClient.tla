----------------------------- MODULE SmppClient -----------------------------
(***************************************************************************)
(* The client side of the SMPP extension: SmppClientOpsThread, the session *)
(* handler it installs on every client session, and the start and stop     *)
(* operations of EsmeManagement on an ESME of session type CLIENT.         *)
(*                                                                         *)
(* Four kinds of threads run concurrently:                                 *)
(*   - the single operations thread, which drains the queue of change      *)
(*     requests, binds sessions and sends ENQUIRE_LINK;                    *)
(*   - one administrator per ESME, calling startEsme and stopEsme;         *)
(*   - one I/O thread per session, which runs the session's callbacks;     *)
(*   - the remote SMSC, which answers or rejects a bind and may drop a     *)
(*     connection at any time.                                             *)
(*                                                                         *)
(* Time is abstracted: a change request that is still waiting may be found *)
(* due, or not due yet, each time the operations thread polls it.  The     *)
(* order of the queue is then not observable, so the queue is a bag: for   *)
(* each kind of request, how many requests each ESME has in it.            *)
(***************************************************************************)
EXTENDS Naturals, FiniteSets

CONSTANTS
    Esmes,        \* the ESMEs of session type CLIENT
    Managed,      \* those an administrator starts and stops
    EnquireOn,    \* those with enquireLinkDelay > 0 (getEnquireClientEnabled)
    Slots,        \* session objects an ESME may have at one time
    NoSession,    \* the null reference
    MaxEnquires   \* bound: faults stop when an ESME has that many ENQUIRE_LINK

ASSUME ClientAssumption ==
    /\ Managed \subseteq Esmes
    /\ EnquireOn \subseteq Esmes
    /\ NoSession \notin Slots
    /\ MaxEnquires \in Nat

VARIABLES
    started,      \* Esme.started
    inQueue,      \* Esme.inConnectingQueue
    session,      \* Esme.defaultSmppSession, a slot or NoSession
    state,        \* DefaultSmppSession.state of every session object
    channel,      \* whether the TCP channel of the session object is open
    futureSet,    \* SmppClientOpsThread.futureSet
    newSet,       \* run(): requests to be put back once the queue is drained
    pendingList,  \* run(): ESMEs to send ENQUIRE_LINK to once it is drained
    ops,          \* where the operations thread is, with its esme and session0
    admin,        \* where the administrator of each ESME is
    io            \* where the I/O thread of each session object is

vars == <<started, inQueue, session, state, channel, futureSet, newSet,
          pendingList, ops, admin, io>>

queues   == <<futureSet, newSet, pendingList>>
sessions == <<session, state, channel>>

(***************************************************************************)
(* Types.                                                                  *)
(***************************************************************************)
CONNECT      == "CONNECT"
ENQUIRE_LINK == "ENQUIRE_LINK"
Kinds        == {CONNECT, ENQUIRE_LINK}

\* A bag of change requests: how many there are of each kind for each ESME.
ChangeRequests == [Kinds -> [Esmes -> Nat]]

NoRequests == [k \in Kinds |-> [e \in Esmes |-> 0]]

\* unbind() and close() pass through UNBINDING; nothing tells it from CLOSED.
SessionStates == {"BINDING", "BOUND", "CLOSED"}

\* Points of the operations thread that concern no ESME ...
IdlePoints == {"poll", "requeue", "pending"}
\* ... and those inside the treatment of one.
BusyPoints == {"dropConnect", "dueConnect", "initiate", "checkSession",
               "bind", "bound", "enquireCheck", "enquiring", "notBound"}

OpsStates == [pc : IdlePoints \cup BusyPoints,
              esme : Esmes \cup {NoSession},
              session0 : Slots \cup {NoSession}]

AdminPoints == {"idle", "start", "offer", "stop"}

IOPoints == {"idle", "closed", "notify", "unrecoverable", "schedule", "offer"}

TypeOK ==
    /\ started \in [Esmes -> BOOLEAN]
    /\ inQueue \in [Esmes -> BOOLEAN]
    /\ session \in [Esmes -> Slots \cup {NoSession}]
    /\ state \in [Esmes -> [Slots -> SessionStates]]
    /\ channel \in [Esmes -> [Slots -> BOOLEAN]]
    /\ futureSet \in ChangeRequests
    /\ newSet \in ChangeRequests
    /\ pendingList \in [Esmes -> Nat]
    /\ ops \in OpsStates
    /\ ops.pc \in BusyPoints => ops.esme \in Esmes
    /\ ops.pc \in {"bind", "bound"} => ops.session0 \in Slots
    /\ ops.pc = "enquiring" => session[ops.esme] # NoSession
    /\ admin \in [Esmes -> AdminPoints]
    /\ io \in [Esmes -> [Slots -> IOPoints]]

(***************************************************************************)
(* Helpers.                                                                *)
(***************************************************************************)
At(pc) == ops.pc = pc

Goto(pc) == ops' = [pc |-> pc, esme |-> NoSession, session0 |-> NoSession]

GotoWith(pc, e) == ops' = [pc |-> pc, esme |-> e, session0 |-> NoSession]

\* isBound() of the session an ESME refers to, false for null.
IsBound(e) == session[e] # NoSession /\ state[e][session[e]] = "BOUND"

IsBinding(e) == session[e] # NoSession /\ state[e][session[e]] = "BINDING"

\* DefaultSmppSession.close(): a close requested here fires no callback.
Close(e, s) ==
    /\ state' = [state EXCEPT ![e][s] = "CLOSED"]
    /\ channel' = [channel EXCEPT ![e][s] = FALSE]

\* if (esme.getSmppSession() != null) esme.getSmppSession().close()
CloseCurrent(e) ==
    IF session[e] = NoSession THEN UNCHANGED <<state, channel>>
                              ELSE Close(e, session[e])

Offer(kind, e) == futureSet' = [futureSet EXCEPT ![kind][e] = @ + 1]

\* scheduleConnect() on the operations thread.  No other thread polls, so its
\* compareAndSet and its offer need not be told apart there.
ScheduleConnect(e) ==
    \/ /\ ~inQueue[e]
       /\ inQueue' = [inQueue EXCEPT ![e] = TRUE]
       /\ Offer(CONNECT, e)
    \/ /\ inQueue[e]
       /\ UNCHANGED <<inQueue, futureSet>>

\* A session object nothing refers to: the next bind may reuse its slot.
Unused(e, s) ==
    /\ state[e][s] = "CLOSED"
    /\ io[e][s] = "idle"
    /\ session[e] # s
    /\ ~(ops.esme = e /\ ops.session0 = s)

Enquires(e) ==
    futureSet[ENQUIRE_LINK][e] + newSet[ENQUIRE_LINK][e] + pendingList[e]

\* The bound on what the environment may do: only a fault or a stop can lead to
\* one more ENQUIRE_LINK request being added to those an ESME has already.
FaultAllowed(e) == Enquires(e) < MaxEnquires

(***************************************************************************)
(* Initially SmppClientManagement.start() has created the thread and, for  *)
(* every ESME, started or not, scheduled a CONNECT.                        *)
(***************************************************************************)
Init ==
    /\ started \in [Esmes -> BOOLEAN]
    /\ inQueue = [e \in Esmes |-> TRUE]
    /\ session = [e \in Esmes |-> NoSession]
    /\ state = [e \in Esmes |-> [s \in Slots |-> "CLOSED"]]
    /\ channel = [e \in Esmes |-> [s \in Slots |-> FALSE]]
    /\ futureSet = [NoRequests EXCEPT ![CONNECT] = [e \in Esmes |-> 1]]
    /\ newSet = NoRequests
    /\ pendingList = [e \in Esmes |-> 0]
    /\ ops = [pc |-> "poll", esme |-> NoSession, session0 |-> NoSession]
    /\ admin = [e \in Esmes |-> "idle"]
    /\ io = [e \in Esmes |-> [s \in Slots |-> "idle"]]

-----------------------------------------------------------------------------
(***************************************************************************)
(* The operations thread: draining the queue.                              *)
(***************************************************************************)
\* Mutant of Poll: null from poll() is not noticed.
PollUnchecked(kind, e) ==
    /\ At("poll")
    /\ futureSet' = [futureSet EXCEPT ![kind][e] = @ - 1]

Poll(kind, e) ==
    /\ At("poll")
    /\ futureSet[kind][e] > 0
    /\ futureSet' = [futureSet EXCEPT ![kind][e] = @ - 1]

\* CONNECT of an ESME seen stopped: the flag is cleared in a later step.
PollConnectStopped(e) ==
    /\ Poll(CONNECT, e)
    /\ ~started[e]
    /\ GotoWith("dropConnect", e)
    /\ UNCHANGED <<started, inQueue, sessions, newSet, pendingList, admin, io>>

PollConnectLater(e) ==
    /\ Poll(CONNECT, e)
    /\ started[e]
    /\ newSet' = [newSet EXCEPT ![CONNECT][e] = @ + 1]
    /\ UNCHANGED <<started, inQueue, sessions, pendingList, ops, admin, io>>

PollConnectDue(e) ==
    /\ Poll(CONNECT, e)
    /\ started[e]
    /\ GotoWith("dueConnect", e)
    /\ UNCHANGED <<started, inQueue, sessions, newSet, pendingList, admin, io>>

\* ENQUIRE_LINK of an ESME that is stopped or has no client enquire link.
PollEnquireDropped(e) ==
    /\ Poll(ENQUIRE_LINK, e)
    /\ ~(started[e] /\ e \in EnquireOn)
    /\ UNCHANGED <<started, inQueue, sessions, newSet, pendingList, ops, admin, io>>

PollEnquireLater(e) ==
    /\ Poll(ENQUIRE_LINK, e)
    /\ started[e] /\ e \in EnquireOn
    /\ newSet' = [newSet EXCEPT ![ENQUIRE_LINK][e] = @ + 1]
    /\ UNCHANGED <<started, inQueue, sessions, pendingList, ops, admin, io>>

PollEnquireDue(e) ==
    /\ Poll(ENQUIRE_LINK, e)
    /\ started[e] /\ e \in EnquireOn
    /\ pendingList' = [pendingList EXCEPT ![e] = @ + 1]
    /\ UNCHANGED <<started, inQueue, sessions, newSet, ops, admin, io>>

PollEmpty ==
    /\ At("poll")
    /\ futureSet = NoRequests
    /\ Goto("requeue")
    /\ UNCHANGED <<started, inQueue, sessions, queues, admin, io>>

\* inConnectingQueue.set(false), then the request is forgotten.
DropConnect ==
    /\ At("dropConnect")
    /\ inQueue' = [inQueue EXCEPT ![ops.esme] = FALSE]
    /\ Goto("poll")
    /\ UNCHANGED <<started, sessions, queues, admin, io>>

\* inConnectingQueue.set(false), then initiateConnection().
DueConnect ==
    /\ At("dueConnect")
    /\ inQueue' = [inQueue EXCEPT ![ops.esme] = FALSE]
    /\ GotoWith("initiate", ops.esme)
    /\ UNCHANGED <<started, sessions, queues, admin, io>>

\* Mutant of Requeue: what was put aside is dropped.
RequeueForgets ==
    /\ At("requeue")
    /\ newSet' = NoRequests
    /\ Goto("pending")
    /\ UNCHANGED <<started, inQueue, sessions, futureSet, pendingList, admin, io>>

\* Putting the requests that are not due yet back into the queue.
Requeue ==
    /\ At("requeue")
    /\ futureSet' = [k \in Kinds |->
                        [e \in Esmes |-> futureSet[k][e] + newSet[k][e]]]
    /\ newSet' = NoRequests
    /\ Goto("pending")
    /\ UNCHANGED <<started, inQueue, sessions, pendingList, admin, io>>

(***************************************************************************)
(* The operations thread: initiateConnection().                            *)
(***************************************************************************)
InitiateStopped ==
    /\ At("initiate")
    /\ ~started[ops.esme]
    /\ Goto("poll")
    /\ UNCHANGED <<started, inQueue, sessions, queues, admin, io>>

\* Mutant of InitiateStarted: whether the ESME is stopped is not read again.
InitiateUnchecked ==
    /\ At("initiate")
    /\ GotoWith("checkSession", ops.esme)
    /\ UNCHANGED <<started, inQueue, sessions, queues, admin, io>>

InitiateStarted ==
    /\ At("initiate")
    /\ started[ops.esme]
    /\ GotoWith("checkSession", ops.esme)
    /\ UNCHANGED <<started, inQueue, sessions, queues, admin, io>>

\* "If process has already begun lets not do it again"
AlreadyBound ==
    /\ At("checkSession")
    /\ IsBound(ops.esme) \/ IsBinding(ops.esme)
    /\ Goto("poll")
    /\ UNCHANGED <<started, inQueue, sessions, queues, admin, io>>

\* Mutant of BindBegins: the session there is already is not looked at.
BindBeginsAnyway ==
    /\ At("checkSession")
    /\ \E s \in Slots :
          /\ Unused(ops.esme, s)
          /\ state' = [state EXCEPT ![ops.esme][s] = "BINDING"]
          /\ channel' = [channel EXCEPT ![ops.esme][s] = TRUE]
          /\ ops' = [pc |-> "bind", esme |-> ops.esme, session0 |-> s]
    /\ UNCHANGED <<started, inQueue, session, queues, admin, io>>

\* clientBootstrap.bind(): connected, the bind request is on its way.
BindBegins ==
    /\ At("checkSession")
    /\ ~IsBound(ops.esme) /\ ~IsBinding(ops.esme)
    /\ \E s \in Slots :
          /\ Unused(ops.esme, s)
          /\ state' = [state EXCEPT ![ops.esme][s] = "BINDING"]
          /\ channel' = [channel EXCEPT ![ops.esme][s] = TRUE]
          /\ ops' = [pc |-> "bind", esme |-> ops.esme, session0 |-> s]
    /\ UNCHANGED <<started, inQueue, session, queues, admin, io>>

\* The response has come; the channel may have been closed since.
BindSucceeds(e) ==
    /\ At("bind") /\ ops.esme = e
    /\ state' = [state EXCEPT ![e][ops.session0] = "BOUND"]
    /\ ops' = [ops EXCEPT !.pc = "bound"]
    /\ UNCHANGED <<started, inQueue, session, channel, queues, admin, io>>

\* Mutant of BindFails: no other attempt is scheduled.
BindFailsOnly(e) ==
    /\ At("bind") /\ ops.esme = e
    /\ Close(e, ops.session0)
    /\ Goto("poll")
    /\ UNCHANGED <<started, inQueue, session, queues, admin, io>>

\* Rejected, timed out or disconnected: bind() closes what it opened and throws.
BindFails(e) ==
    /\ At("bind") /\ ops.esme = e
    /\ Close(e, ops.session0)
    /\ ScheduleConnect(e)
    /\ Goto("poll")
    /\ UNCHANGED <<started, session, newSet, pendingList, admin, io>>

\* setSmppSession() and scheduleEnquireLink(); started is not read again.
SessionSet ==
    /\ At("bound")
    /\ session' = [session EXCEPT ![ops.esme] = ops.session0]
    /\ Offer(ENQUIRE_LINK, ops.esme)
    /\ Goto("poll")
    /\ UNCHANGED <<started, inQueue, state, channel, newSet, pendingList, admin, io>>

(***************************************************************************)
(* The operations thread: enquireLink() for each ESME of pendingList.      *)
(***************************************************************************)
\* The request is taken; a stopped ESME is passed over.
EnquireTaken(e) ==
    /\ At("pending")
    /\ pendingList[e] > 0
    /\ pendingList' = [pendingList EXCEPT ![e] = @ - 1]
    /\ IF started[e] THEN GotoWith("enquireCheck", e) ELSE UNCHANGED ops
    /\ UNCHANGED <<started, inQueue, sessions, futureSet, newSet, admin, io>>

\* The list is done; after wait() the loop drains the queue again.
PendingDone ==
    /\ At("pending")
    /\ \A e \in Esmes : pendingList[e] = 0
    /\ Goto("poll")
    /\ UNCHANGED <<started, inQueue, sessions, queues, admin, io>>

EnquireCheck ==
    /\ At("enquireCheck")
    /\ GotoWith(IF IsBound(ops.esme) THEN "enquiring" ELSE "notBound", ops.esme)
    /\ UNCHANGED <<started, inQueue, sessions, queues, admin, io>>

\* Mutant of EnquireSucceeds: the next ENQUIRE_LINK is not scheduled.
EnquireNotRepeated(e) ==
    /\ At("enquiring") /\ ops.esme = e
    /\ channel[e][session[e]]
    /\ Goto("pending")
    /\ UNCHANGED <<started, inQueue, sessions, queues, admin, io>>

\* A response, or a RecoverablePduException.
EnquireSucceeds(e) ==
    /\ At("enquiring") /\ ops.esme = e
    /\ channel[e][session[e]]
    /\ Offer(ENQUIRE_LINK, e)
    /\ Goto("pending")
    /\ UNCHANGED <<started, inQueue, sessions, newSet, pendingList, admin, io>>

\* Mutant of EnquireFails: the session is closed, the connect not scheduled.
EnquireFailsOnly(e) ==
    /\ At("enquiring") /\ ops.esme = e
    /\ Close(e, session[e])
    /\ Goto("pending")
    /\ UNCHANGED <<started, inQueue, session, queues, admin, io>>

\* Any other exception: closed channel, closed session, timeout.
EnquireFails(e) ==
    /\ At("enquiring") /\ ops.esme = e
    /\ Close(e, session[e])
    /\ ScheduleConnect(e)
    /\ Goto("pending")
    /\ UNCHANGED <<started, session, newSet, pendingList, admin, io>>

\* "This should never happen"
EnquireNotBound(e) ==
    /\ At("notBound") /\ ops.esme = e
    /\ CloseCurrent(e)
    /\ ScheduleConnect(e)
    /\ Goto("pending")
    /\ UNCHANGED <<started, session, newSet, pendingList, admin, io>>

-----------------------------------------------------------------------------
(***************************************************************************)
(* The administrator: EsmeManagement.startEsme() and stopEsme().           *)
(***************************************************************************)
StartEsme(e) ==
    /\ e \in Managed
    /\ admin[e] = "idle"
    /\ ~started[e]
    /\ started' = [started EXCEPT ![e] = TRUE]
    /\ admin' = [admin EXCEPT ![e] = "start"]
    /\ UNCHANGED <<inQueue, sessions, queues, ops, io>>

\* The compareAndSet of scheduleConnect().
StartCAS(e) ==
    /\ admin[e] = "start"
    /\ inQueue' = [inQueue EXCEPT ![e] = TRUE]
    /\ admin' = [admin EXCEPT ![e] = IF inQueue[e] THEN "idle" ELSE "offer"]
    /\ UNCHANGED <<started, sessions, queues, ops, io>>

StartOffer(e) ==
    /\ admin[e] = "offer"
    /\ Offer(CONNECT, e)
    /\ admin' = [admin EXCEPT ![e] = "idle"]
    /\ UNCHANGED <<started, inQueue, sessions, newSet, pendingList, ops, io>>

\* stopEsme() does not look at whether the ESME is started.
StopEsme(e) ==
    /\ e \in Managed
    /\ admin[e] = "idle"
    /\ FaultAllowed(e)
    /\ started' = [started EXCEPT ![e] = FALSE]
    /\ admin' = [admin EXCEPT ![e] = "stop"]
    /\ UNCHANGED <<inQueue, sessions, queues, ops, io>>

\* stopSmppClientSession(): unbind and close the session referred to now.
StopSession(e) ==
    /\ admin[e] = "stop"
    /\ CloseCurrent(e)
    /\ admin' = [admin EXCEPT ![e] = "idle"]
    /\ UNCHANGED <<started, inQueue, session, queues, ops, io>>

-----------------------------------------------------------------------------
(***************************************************************************)
(* The connection and the callbacks of ClientSmppSessionHandler.           *)
(***************************************************************************)
\* The remote side or the network closes the channel.
ChannelClosed(e, s) ==
    /\ channel[e][s]
    /\ io[e][s] = "idle"
    /\ FaultAllowed(e)
    /\ channel' = [channel EXCEPT ![e][s] = FALSE]
    /\ io' = [io EXCEPT ![e][s] = "closed"]
    /\ UNCHANGED <<started, inQueue, session, state, queues, ops, admin>>

\* The library tells the handler unless close() or unbind() was called.
ChannelClosedReported(e, s) ==
    /\ io[e][s] = "closed"
    /\ io' = [io EXCEPT ![e][s] = IF state[e][s] = "CLOSED" THEN "idle"
                                                            ELSE "notify"]
    /\ UNCHANGED <<started, inQueue, sessions, queues, ops, admin>>

\* An exception in the channel's pipeline that is no PDU exception.
ExceptionCaught(e, s) ==
    /\ channel[e][s]
    /\ state[e][s] # "CLOSED"
    /\ io[e][s] = "idle"
    /\ FaultAllowed(e)
    /\ io' = [io EXCEPT ![e][s] = "notify"]
    /\ UNCHANGED <<started, inQueue, sessions, queues, ops, admin>>

\* fireChannelUnexpectedlyClosed() and fireUnknownThrowable() close the session
\* the ESME refers to, which need not be the one the callback is about.
HandlerCloses(e, s) ==
    /\ io[e][s] = "notify"
    /\ CloseCurrent(e)
    /\ io' = [io EXCEPT ![e][s] = "schedule"]
    /\ UNCHANGED <<started, inQueue, session, queues, ops, admin>>

UndecodablePdu(e, s) ==
    /\ channel[e][s]
    /\ io[e][s] = "idle"
    /\ FaultAllowed(e)
    /\ io' = [io EXCEPT ![e][s] = "unrecoverable"]
    /\ UNCHANGED <<started, inQueue, sessions, queues, ops, admin>>

\* fireUnrecoverablePduException(): on a null session it ends in an exception
\* and schedules nothing.
HandlerClosesUnchecked(e, s) ==
    /\ io[e][s] = "unrecoverable"
    /\ CloseCurrent(e)
    /\ io' = [io EXCEPT ![e][s] = IF session[e] = NoSession THEN "idle"
                                                            ELSE "schedule"]
    /\ UNCHANGED <<started, inQueue, session, queues, ops, admin>>

\* Mutant of HandlerCAS: set() for compareAndSet().
HandlerSet(e, s) ==
    /\ io[e][s] = "schedule"
    /\ inQueue' = [inQueue EXCEPT ![e] = TRUE]
    /\ io' = [io EXCEPT ![e][s] = "offer"]
    /\ UNCHANGED <<started, sessions, queues, ops, admin>>

\* The compareAndSet of scheduleConnect().
HandlerCAS(e, s) ==
    /\ io[e][s] = "schedule"
    /\ inQueue' = [inQueue EXCEPT ![e] = TRUE]
    /\ io' = [io EXCEPT ![e][s] = IF inQueue[e] THEN "idle" ELSE "offer"]
    /\ UNCHANGED <<started, sessions, queues, ops, admin>>

HandlerOffer(e, s) ==
    /\ io[e][s] = "offer"
    /\ Offer(CONNECT, e)
    /\ io' = [io EXCEPT ![e][s] = "idle"]
    /\ UNCHANGED <<started, inQueue, sessions, newSet, pendingList, ops, admin>>

-----------------------------------------------------------------------------
Drain(e) ==
    \/ PollConnectStopped(e) \/ PollConnectLater(e) \/ PollConnectDue(e)
    \/ PollEnquireDropped(e) \/ PollEnquireLater(e) \/ PollEnquireDue(e)

Initiate ==
    \/ InitiateStopped \/ InitiateStarted \/ AlreadyBound \/ BindBegins
    \/ SessionSet

BindReturns(e) == BindSucceeds(e) \/ BindFails(e)

EnquireReturns(e) ==
    \/ EnquireSucceeds(e) \/ EnquireFails(e) \/ EnquireNotBound(e)

OpsThread ==
    \/ PollEmpty \/ DropConnect \/ DueConnect \/ Requeue
    \/ Initiate
    \/ PendingDone \/ EnquireCheck
    \/ \E e \in Esmes :
          Drain(e) \/ BindReturns(e) \/ EnquireTaken(e) \/ EnquireReturns(e)

\* The rest of an administrator's operation, once it has begun.
AdminContinues(e) == StartCAS(e) \/ StartOffer(e) \/ StopSession(e)

Administrator(e) == StartEsme(e) \/ StopEsme(e) \/ AdminContinues(e)

\* What breaks a connection.
Fault(e, s) == ChannelClosed(e, s) \/ ExceptionCaught(e, s) \/ UndecodablePdu(e, s)

\* The callback that follows.
Callback(e, s) ==
    \/ ChannelClosedReported(e, s) \/ HandlerCloses(e, s)
    \/ HandlerClosesUnchecked(e, s) \/ HandlerCAS(e, s) \/ HandlerOffer(e, s)

Next ==
    \/ OpsThread
    \/ \E e \in Esmes : Administrator(e)
    \/ \E e \in Esmes : \E s \in Slots : Fault(e, s) \/ Callback(e, s)

Spec == Init /\ [][Next]_vars

(***************************************************************************)
(* Fairness.  The operations thread and the I/O threads keep running, and  *)
(* an operation of the administrator that has begun ends.  Time passes, so *)
(* a request that is polled again and again is found due.  The remote SMSC *)
(* does not refuse or break every bind for ever.  Nothing forces a fault,  *)
(* a start or a stop.                                                      *)
(***************************************************************************)
Fairness ==
    /\ WF_vars(OpsThread)
    /\ \A e \in Esmes :
          /\ SF_vars(PollConnectDue(e))
          /\ SF_vars(PollEnquireDue(e))
          /\ SF_vars(BindSucceeds(e) /\ channel[e][ops.session0])
          /\ SF_vars(EnquireTaken(e))
          /\ WF_vars(AdminContinues(e))
          /\ \A s \in Slots : WF_vars(Callback(e, s))

FairSpec == Spec /\ Fairness

-----------------------------------------------------------------------------
(***************************************************************************)
(* Properties.                                                             *)
(***************************************************************************)
\* The operations thread has polled a CONNECT of e and not cleared its flag.
OpsHolds(e) == ops.esme = e /\ ops.pc \in {"dropConnect", "dueConnect"}

\* CONNECT requests of e that exist outside the I/O threads.
Copies(e) ==
    futureSet[CONNECT][e] + newSet[CONNECT][e]
    + (IF OpsHolds(e) THEN 1 ELSE 0) + (IF admin[e] = "offer" THEN 1 ELSE 0)

(***************************************************************************)
(* inConnectingQueue is the lock on an ESME's CONNECT request: when it is  *)
(* set there is exactly one such request, in the queue, put aside for the  *)
(* next turn, in the hands of the operations thread or about to be offered *)
(* by the one thread that won the compareAndSet; when it is clear there is *)
(* none.  So no reconnection is ever forgotten behind a set flag, and no   *)
(* two are ever scheduled.                                                 *)
(***************************************************************************)
OneConnectOf(e) ==
    /\ Copies(e) <= 1
    /\ \A s, t \in Slots :
          io[e][s] = "offer" => /\ Copies(e) = 0
                                /\ io[e][t] = "offer" => s = t
    /\ inQueue[e] <=> \/ Copies(e) = 1
                      \/ \E s \in Slots : io[e][s] = "offer"

OneConnect == \A e \in Esmes : OneConnectOf(e)

\* The operations thread is inside clientBootstrap.bind() or just past it.
Binding(e) == ops.pc \in {"bind", "bound"} /\ ops.esme = e

(***************************************************************************)
(* An ESME never has two sessions open towards its SMSC, and an open one   *)
(* is never orphaned: stopEsme and the enquire-link supervision can reach  *)
(* it through the Esme object, or the thread that is binding it will store *)
(* it there.                                                               *)
(***************************************************************************)
OneSession ==
    \A e \in Esmes : \A s \in Slots : state[e][s] # "CLOSED" =>
        /\ session[e] = s \/ (Binding(e) /\ ops.session0 = s)
        /\ \A t \in Slots : state[e][t] # "CLOSED" => s = t

\* The inductive form of OneSession: which session object may be open, and that
\* the one being bound is not the one the ESME still refers to.
OneSessionOf(e) ==
    /\ \A s \in Slots : state[e][s] # "CLOSED" =>
          s = IF Binding(e) THEN ops.session0 ELSE session[e]
    /\ Binding(e) => session[e] # ops.session0

OneSessionInd == \A e \in Esmes : OneSessionOf(e)

(***************************************************************************)
(* As long as nobody stops it, a started ESME with client enquire link     *)
(* never has a bound session that nothing supervises: an ENQUIRE_LINK is   *)
(* scheduled for it, or being sent.                                        *)
(***************************************************************************)
SupervisedOf(e) ==
    started[e] /\ IsBound(e) =>
        \/ Enquires(e) > 0
        \/ ops.esme = e /\ ops.pc \in {"enquireCheck", "enquiring", "notBound"}

Supervised == \A e \in EnquireOn \ Managed : SupervisedOf(e)

\* A connection of e is being made, or will be: its flag is set, the operations
\* thread is past the flag, or an administrator or a callback is about to set it.
Pursued(e) ==
    \/ inQueue[e]
    \/ ops.esme = e /\ ops.pc \in {"initiate", "checkSession", "bind", "bound"}
    \/ admin[e] = "start"
    \/ \E s \in Slots : io[e][s] = "schedule"

\* A started ESME that has no session, and that nothing will ever connect.
Forgotten(e) == started[e] /\ ~IsBound(e) /\ ~Pursued(e)

(***************************************************************************)
(* However an ESME loses its session, or fails to get one, while a failed  *)
(* bind, a callback, a failed ENQUIRE_LINK and an administrator interfere: *)
(* as long as nobody stops it, it is never forgotten.                      *)
(***************************************************************************)
NeverForgotten == \A e \in Esmes \ Managed : ~Forgotten(e)

(***************************************************************************)
(* With stops and starts there is one way to be forgotten, whatever else   *)
(* happens: the thread has seen the ESME stopped, and clears its flag once *)
(* a start has found the flag set.                                         *)
(***************************************************************************)
ForgottenOnlyByDrop ==
    [][\A e \in Esmes : Forgotten(e)' =>
          Forgotten(e) \/ (ops.esme = e /\ DropConnect)]_vars

\* The inductive form of both: what the operations thread relies on at each point
\* of initiateConnection(), and that an ESME being stopped is not started.
PursuitOf(e) ==
    /\ \A s \in Slots : state[e][s] = "BINDING" => At("bind") /\ ops.esme = e
    /\ At("bind") /\ ops.esme = e => state[e][ops.session0] = "BINDING"
    /\ At("bound") /\ ops.esme = e => state[e][ops.session0] = "BOUND"
    /\ admin[e] = "stop" => ~started[e]
    /\ e \notin Managed /\ At("dropConnect") /\ ops.esme = e => ~started[e]

PursuitInd == \A e \in Esmes : PursuitOf(e)

\* The CONNECT requests of e: in the queue, put aside, in hand, about to be offered.
Requests(e) == Copies(e) + Cardinality({s \in Slots : io[e][s] = "offer"})

InState(e, x) == {s \in Slots : state[e][s] = x}

\* The ESME the operations thread has at these points.
OpsAt(points) == IF ops.pc \in points THEN {ops.esme} ELSE {}

(***************************************************************************)
(* The requests and the sessions of the client ESMEs are what              *)
(* SingleConnection specifies, the operations thread the one that connects *)
(* them.                                                                   *)
(***************************************************************************)
Single == INSTANCE SingleConnection WITH
    Connections <- Slots,
    requests <- [e \in Esmes |-> Requests(e)],
    taken <- OpsAt({"initiate"}),
    going <- OpsAt({"checkSession", "bind", "bound"}),
    opening <- [e \in Esmes |-> InState(e, "BINDING")],
    open <- [e \in Esmes |-> InState(e, "BOUND")]

ImplementsSingle == Single!Spec

\* The ESME has a session the SMSC can be reached on.
Connected(e) == \E s \in Slots : state[e][s] = "BOUND" /\ channel[e][s]

(***************************************************************************)
(* Whatever connections are refused, dropped or broken, a started ESME is  *)
(* always connected again.                                                 *)
(***************************************************************************)
Reconnects == \A e \in Esmes : started[e] ~> (Connected(e) \/ ~started[e])

(***************************************************************************)
(* No CONNECT request that is in the queue is lost, even if the ESME is    *)
(* stopped and started again meanwhile: it leads to a bind, unless the     *)
(* ESME is found bound, or stopped.                                        *)
(***************************************************************************)
ConnectServed ==
    \A e \in Esmes :
        futureSet[CONNECT][e] > 0 ~>
            \/ ops.esme = e /\ At("bind")
            \/ IsBound(e)
            \/ ~started[e]

-----------------------------------------------------------------------------
(***************************************************************************)
(* A claim of the code's comments that does not hold.                      *)
(***************************************************************************)
\* "If Esme is stopped, don't try to initiate connect": once stopEsme has
\* returned and no bind is in progress, the ESME has no connection.
StoppedIsUnbound ==
    \A e \in Esmes :
        ~started[e] /\ admin[e] = "idle" /\ ops.esme # e => ~Connected(e)

=============================================================================
