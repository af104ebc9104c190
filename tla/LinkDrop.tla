------------------------------ MODULE LinkDrop ------------------------------
(***************************************************************************)
(* link-drop-server: an ESME of type SERVER that is not sent ENQUIRE_LINK  *)
(* is dropped by SmppServerOpsThread.serverLinkDown() if it has been       *)
(* silent since it was last looked at.  The module follows the successive  *)
(* connections of one such ESME, with one administrator and one JMX client *)
(* at work on it; how connections come about, and an ESME stopped in the   *)
(* middle of its bind, are in SmppServer.                                  *)
(***************************************************************************)
EXTENDS Integers

CONSTANTS
    Kinds,          \* the session counters that are looked at
    EnquireLink,    \* the one that resetCounters() takes into account
    MaxCounter      \* bound on the messages of a kind in a session, and of any
                    \* other kind with them

ASSUME LinkAssumption ==
    /\ EnquireLink \in Kinds /\ "message" \notin Kinds
    /\ MaxCounter \in Nat

VARIABLES
    started,        \* Esme.started
    session,        \* the connection served for the ESME: none, bound, or closed
                    \* and its sessionDestroyed still to come
    counter,        \* its counters, by kind
    rx,             \* rxEnquireLinkCounter, ...: what they were when looked at
    linkRecvMessCheck,  \* a message was received
    linkStartFirstTime, \* the next look only sets a period off
    listed,         \* the ESME is in esmesServer, the list of the operations thread
    pc,             \* where the operations thread is
    seen,           \* the session it has got hold of is still the ESME's
    current,        \* the counts it has read
    handler,        \* where sessionCreated() is
    admin,          \* where the administrator's stopEsme() is
    jmx,            \* where resetCounters() is
    (* History, read by the properties only. *)
    heard,          \* what had come in on this session, since the period began,
                    \* when its counters were last read
    quiet,          \* how often they have been read (2: or more) since anything
                    \* came in, or what is remembered of them was reset
    stale,          \* kinds whose rx is older than the count it is compared with
    renewed         \* kinds counted anew since current was read

link == <<linkRecvMessCheck, linkStartFirstTime, listed>>
ops == <<pc, seen, current>>
others == <<handler, admin, jmx>>
history == <<heard, quiet, stale, renewed>>
vars == <<started, session, counter, rx, link, ops, others, history>>

Counters == 0 .. MaxCounter

TypeOK ==
    /\ started \in BOOLEAN
    /\ session \in {"none", "bound", "closed"}
    /\ counter \in [Kinds -> Counters]
    /\ rx \in [Kinds -> Counters \cup {-1}]
    /\ linkRecvMessCheck \in BOOLEAN
    /\ linkStartFirstTime \in BOOLEAN
    /\ listed \in BOOLEAN
    /\ pc \in {"wait", "pending", "look", "first", "read", "compare", "remember",
               "decide", "drop", "clear"}
    /\ seen \in BOOLEAN
    /\ current \in [Kinds -> Counters]
    /\ handler \in {"done", "ready", "first"}
    /\ admin \in {"idle", "reset", "close"}
    /\ jmx \in {"idle", "reset"}
    /\ heard \subseteq Kinds \cup {"message"}
    /\ quiet \in 0 .. 2
    /\ stale \subseteq Kinds
    /\ renewed \subseteq Kinds

Init ==
    /\ started = TRUE /\ session = "none"
    /\ counter = [k \in Kinds |-> 0] /\ rx = [k \in Kinds |-> -1]
    /\ linkRecvMessCheck = FALSE /\ linkStartFirstTime = FALSE /\ listed = FALSE
    /\ pc = "wait" /\ seen = FALSE /\ current = [k \in Kinds |-> 0]
    /\ handler = "done" /\ admin = "idle" /\ jmx = "idle"
    /\ heard = {} /\ quiet = 0 /\ stale = {} /\ renewed = {}

-----------------------------------------------------------------------------
(***************************************************************************)
(* Connections and their messages.                                         *)
(***************************************************************************)
\* The kinds there is something remembered of.
Looked == {k \in Kinds : rx[k] # -1}

\* The kinds of K are counted from 0, whatever is remembered or has been read.
CountAnew(K) ==
    /\ counter' = [k \in Kinds |-> IF k \in K THEN 0 ELSE counter[k]]
    /\ stale' = stale \cup (K \cap Looked)
    /\ renewed' = IF pc \in {"compare", "remember"} THEN renewed \cup K ELSE {}

\* What comes in after the counters were read is not for this look to see.
Hear(what) ==
    /\ heard' = IF pc \in {"wait", "pending", "look", "first", "read"}
                THEN heard \cup {what} ELSE heard
    /\ quiet' = 0

\* sessionCreated() stores the session, which has counters of its own; what the
\* operations thread holds is then an older one.
SessionCreated ==
    /\ started /\ session = "none" /\ handler = "done"
    /\ session' = "bound"
    /\ handler' = "ready"
    /\ CountAnew(Kinds)
    /\ seen' = FALSE
    /\ heard' = {} /\ quiet' = 0
    /\ UNCHANGED <<started, rx, link, pc, current, admin, jmx>>

\* serverReady() lets messages in, setServerBound(true) the operations thread.
ServerReady ==
    /\ handler = "ready"
    /\ handler' = "first"
    /\ UNCHANGED <<started, session, counter, rx, link, ops, admin, jmx, history>>

\* setLinkStartFirstTime(true) and scheduleList()
SetLinkStartFirstTime ==
    /\ handler = "first"
    /\ linkStartFirstTime' = TRUE /\ listed' = TRUE
    /\ handler' = "done"
    /\ UNCHANGED <<started, session, counter, rx, linkRecvMessCheck, ops, admin, jmx,
                   history>>

\* An ENQUIRE_LINK, or a response: the session counts it, nobody else does.
Counted(k) ==
    /\ session = "bound" /\ handler # "ready"
    /\ counter[k] < MaxCounter
    /\ \A j \in Kinds \ {k} : counter[j] + counter[k] < MaxCounter
    /\ counter' = [counter EXCEPT ![k] = @ + 1]
    /\ Hear(k)
    /\ UNCHANGED <<started, session, rx, link, ops, others, stale, renewed>>

\* A message the application passes to onMessageReceived().
OnMessageReceived ==
    /\ session = "bound" /\ handler # "ready"
    /\ linkRecvMessCheck' = TRUE
    /\ Hear("message")
    /\ UNCHANGED <<started, session, counter, rx, linkStartFirstTime, listed, ops,
                   others, stale, renewed>>

Message == OnMessageReceived \/ \E k \in Kinds : Counted(k)

Disconnect ==
    /\ session = "bound"
    /\ session' = "closed"
    /\ UNCHANGED <<started, counter, rx, link, ops, others, history>>

\* It waits for sessionCreated() to be over: both hold the semaphore.
SessionDestroyed ==
    /\ session = "closed" /\ handler = "done"
    /\ session' = "none"
    /\ listed' = FALSE
    /\ UNCHANGED <<started, counter, rx, linkRecvMessCheck, linkStartFirstTime, ops, others,
                   history>>

-----------------------------------------------------------------------------
(***************************************************************************)
(* The administrator: startEsme(), and stopEsme() with the file it writes  *)
(* between its steps.                                                      *)
(***************************************************************************)
StartEsme ==
    /\ admin = "idle" /\ ~started
    /\ started' = TRUE
    /\ UNCHANGED <<session, counter, rx, link, ops, others, history>>

StopEsme ==
    /\ admin = "idle"
    /\ started' = FALSE
    /\ admin' = "reset"
    /\ UNCHANGED <<session, counter, rx, link, ops, handler, jmx, history>>

ResetLinkRecvMessage ==
    /\ admin = "reset"
    /\ rx' = [k \in Kinds |-> -1]
    /\ stale' = {} /\ quiet' = 0
    /\ admin' = "close"
    /\ UNCHANGED <<started, session, counter, link, ops, handler, jmx, heard, renewed>>

\* stopWrappedSession() closes the session the ESME refers to by now.
StopWrappedSession ==
    /\ admin = "close"
    /\ session' = IF session = "bound" THEN "closed" ELSE session
    /\ admin' = "idle"
    /\ UNCHANGED <<started, counter, rx, link, ops, handler, jmx, history>>

-----------------------------------------------------------------------------
(***************************************************************************)
(* JMX: resetCounters() and getRxEnquireLinkCounterAndReset(), ...         *)
(***************************************************************************)
\* The counters of the session first,
ResetCounters ==
    /\ jmx = "idle"
    /\ CountAnew(Kinds)
    /\ heard' = heard \ Kinds
    /\ jmx' = "reset"
    /\ UNCHANGED <<started, session, rx, link, ops, handler, admin, quiet>>

\* then one of those that are remembered, whatever the session is by now.
ResetRemembered ==
    /\ jmx = "reset"
    /\ rx' = [rx EXCEPT ![EnquireLink] = 0]
    /\ stale' = stale \ {EnquireLink} /\ quiet' = 0
    /\ jmx' = "idle"
    /\ UNCHANGED <<started, session, counter, link, ops, handler, admin, heard, renewed>>

CounterAndReset(k) ==
    /\ CountAnew({k})
    /\ heard' = heard \ {k}
    /\ UNCHANGED <<started, session, rx, link, ops, others, quiet>>

-----------------------------------------------------------------------------
(***************************************************************************)
(* SmppServerOpsThread                                                     *)
(***************************************************************************)
Goto(at) == pc' = at /\ UNCHANGED <<seen, current>>

LookOver == pc' = "wait" /\ seen' = FALSE /\ UNCHANGED current

\* run() finds the ESME due, started and with serverBound set, and puts it in its
\* pending list.
Due ==
    /\ pc = "wait" /\ listed /\ started /\ session # "none" /\ handler # "ready"
    /\ Goto("pending")
    /\ UNCHANGED <<started, session, counter, rx, link, others, history>>

\* serverLinkDown() gets hold of the session the ESME refers to by now.
GetSmppSession ==
    /\ pc = "pending"
    /\ pc' = "look" /\ seen' = TRUE
    /\ UNCHANGED <<started, session, counter, rx, link, current, others, history>>

GetLinkStartFirstTime ==
    /\ pc = "look"
    /\ Goto(IF linkStartFirstTime THEN "first" ELSE "read")
    /\ UNCHANGED <<started, session, counter, rx, link, others, history>>

\* A period begins when the next look is scheduled.
First ==
    /\ pc = "first"
    /\ linkStartFirstTime' = FALSE /\ listed' = TRUE
    /\ heard' = {}
    /\ LookOver
    /\ UNCHANGED <<started, session, counter, rx, linkRecvMessCheck, others, quiet, stale,
                   renewed>>

\* Mutant: the counts are remembered before they are compared.
ReadAndRemember ==
    /\ pc = "read"
    /\ current' = counter /\ rx' = counter
    /\ pc' = "compare"
    /\ quiet' = IF quiet = 0 THEN 1 ELSE 2
    /\ stale' = {} /\ renewed' = {}
    /\ UNCHANGED <<started, session, link, counter, seen, others, heard>>

\* checkLinkRecvMessage() reads the counters of the session the ESME refers to by now,
Read ==
    /\ pc = "read"
    /\ current' = counter
    /\ pc' = "compare"
    /\ quiet' = IF quiet = 0 THEN 1 ELSE 2
    /\ renewed' = {}
    /\ UNCHANGED <<started, session, counter, rx, link, seen, others, heard, stale>>

\* compares them with what is remembered,
Compare ==
    /\ pc = "compare"
    /\ linkRecvMessCheck' = (linkRecvMessCheck \/ \E k \in Kinds : rx[k] < current[k])
    /\ Goto("remember")
    /\ UNCHANGED <<started, session, counter, rx, linkStartFirstTime, listed, others, history>>

\* Mutant: how much they have grown is remembered.
RememberGrowth ==
    /\ pc = "remember"
    /\ rx' = [k \in Kinds |-> current[k] - rx[k]]
    /\ current' = [k \in Kinds |-> 0]
    /\ pc' = "decide"
    /\ stale' = renewed /\ renewed' = {}
    /\ UNCHANGED <<started, session, counter, link, seen, others, heard, quiet>>

\* and remembers them.
Remember ==
    /\ pc = "remember"
    /\ rx' = current
    /\ current' = [k \in Kinds |-> 0]
    /\ pc' = "decide"
    /\ stale' = renewed /\ renewed' = {}
    /\ UNCHANGED <<started, session, counter, link, seen, others, heard, quiet>>

Decide ==
    /\ pc = "decide"
    /\ Goto(IF linkRecvMessCheck THEN "clear" ELSE "drop")
    /\ UNCHANGED <<started, session, counter, rx, link, others, history>>

\* The session it got hold of is closed; the look is over.
Drop ==
    /\ pc = "drop"
    /\ session' = IF seen /\ session = "bound" THEN "closed" ELSE session
    /\ heard' = {}
    /\ LookOver
    /\ UNCHANGED <<started, counter, rx, link, others, quiet, stale, renewed>>

\* Mutant: the flag is left set.
ClearFlagForgotten ==
    /\ pc = "clear"
    /\ listed' = TRUE
    /\ heard' = {}
    /\ LookOver
    /\ UNCHANGED <<started, session, counter, rx, linkRecvMessCheck, linkStartFirstTime,
                   others, quiet, stale, renewed>>

\* setLinkRecvMessage(false) and scheduleList()
ClearFlag ==
    /\ pc = "clear"
    /\ linkRecvMessCheck' = FALSE /\ listed' = TRUE
    /\ heard' = {}
    /\ LookOver
    /\ UNCHANGED <<started, session, counter, rx, linkStartFirstTime, others, quiet, stale,
                   renewed>>

-----------------------------------------------------------------------------
OpsThread ==
    \/ Due \/ GetSmppSession \/ GetLinkStartFirstTime \/ First
    \/ Read \/ Compare \/ Remember \/ Decide \/ Drop \/ ClearFlag

Handler == ServerReady \/ SetLinkStartFirstTime

Stopping == ResetLinkRecvMessage \/ StopWrappedSession

Jmx == ResetCounters \/ ResetRemembered \/ \E k \in Kinds : CounterAndReset(k)

Next ==
    \/ OpsThread
    \/ SessionCreated \/ Handler \/ Message \/ Disconnect \/ SessionDestroyed
    \/ StartEsme \/ StopEsme \/ Stopping
    \/ Jmx

Spec == Init /\ [][Next]_vars

\* The operations thread comes to every connection that is due, again and again;
\* callbacks and commands that have begun go on.
FairSpec == Spec /\ WF_vars(OpsThread) /\ WF_vars(Handler) /\ WF_vars(Stopping)

-----------------------------------------------------------------------------
(***************************************************************************)
(* Properties.                                                             *)
(***************************************************************************)
(***************************************************************************)
(* smpp_esme_create help: the session is dropped "if for this time there   *)
(* is no traffic".  A look finds a connection silent only if nothing has   *)
(* come in on it since the period began, or only messages of kinds whose   *)
(* remembered counts are those of an earlier session, or from before the   *)
(* counters were reset.                                                    *)
(***************************************************************************)
SilentIfDropped == [][Compare /\ ~linkRecvMessCheck' => heard \subseteq stale]_vars

(***************************************************************************)
(* And nothing spares it for long.  A look may take a silent connection for*)
(* a talkative one: stopEsme() forgets the counts while it is still bound, *)
(* resetCounters() sets one of them below its counter.  But the second look*)
(* since anything came in, or anything remembered was reset, finds it      *)
(* silent, whatever was set or remembered on the connections before it.    *)
(***************************************************************************)
SilentIsFound == [][Compare /\ quiet = 2 => ~linkRecvMessCheck']_vars

(***************************************************************************)
(* A connection that falls silent for good does not stay.                  *)
(***************************************************************************)
SilentIsDropped == <>[][~Message]_vars => []<>(session # "bound")

(***************************************************************************)
(* The same help text, taken at its word.  It does not hold: the counts    *)
(* that were remembered of one session are compared with those of the next.*)
(***************************************************************************)
DroppedOnlyIfSilent ==
    [][Compare /\ session = "bound" /\ ~linkStartFirstTime /\ ~linkRecvMessCheck' =>
          heard = {}]_vars

=============================================================================
