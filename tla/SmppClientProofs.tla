-------------------------- MODULE SmppClientProofs --------------------------
(***************************************************************************)
(* Proofs about SmppClient, for every set of ESMEs and of session objects. *)
(***************************************************************************)
EXTENDS SmppClient, TLAPS

-----------------------------------------------------------------------------
(***************************************************************************)
(* Type correctness.                                                       *)
(***************************************************************************)
\* close() leaves the session objects well typed.
LEMMA CloseType ==
    ASSUME TypeOK, NEW e \in Esmes, NEW s \in Slots, Close(e, s)
    PROVE  /\ state' \in [Esmes -> [Slots -> SessionStates]]
           /\ channel' \in [Esmes -> [Slots -> BOOLEAN]]
  BY DEF TypeOK, Close, SessionStates

\* So does closing the session an ESME refers to, if any.
LEMMA CloseCurrentType ==
    ASSUME TypeOK, NEW e \in Esmes, CloseCurrent(e)
    PROVE  /\ state' \in [Esmes -> [Slots -> SessionStates]]
           /\ channel' \in [Esmes -> [Slots -> BOOLEAN]]
<1>1. CASE session[e] = NoSession
  BY <1>1 DEF TypeOK, CloseCurrent
<1>2. CASE session[e] # NoSession
  BY <1>2, CloseType DEF TypeOK, CloseCurrent
<1>. QED
  BY <1>1, <1>2

\* scheduleConnect() leaves the flag and the queue well typed.
LEMMA ScheduleConnectType ==
    ASSUME TypeOK, NEW e \in Esmes, ScheduleConnect(e)
    PROVE  /\ inQueue' \in [Esmes -> BOOLEAN]
           /\ futureSet' \in ChangeRequests
<1>1. CASE inQueue[e]
  BY <1>1 DEF TypeOK, ScheduleConnect
<1>2. CASE ~inQueue[e]
  <2>1. futureSet' = [futureSet EXCEPT ![CONNECT][e] = @ + 1]
    BY <1>2 DEF ScheduleConnect, Offer
  <2>2. futureSet' \in ChangeRequests
    BY <2>1 DEF TypeOK, ChangeRequests, Kinds, CONNECT
  <2>. QED
    BY <1>2, <2>2 DEF TypeOK, ScheduleConnect
<1>. QED
  BY <1>1, <1>2

\* Every step of every thread preserves the type invariant.
LEMMA TypeStep == TypeOK /\ [Next]_vars => TypeOK'
<1>. SUFFICES ASSUME TypeOK, [Next]_vars PROVE TypeOK'
  OBVIOUS
<1>. USE DEF TypeOK, ChangeRequests, Kinds, CONNECT, ENQUIRE_LINK
<1>1. CASE PollEmpty
  BY <1>1 DEF PollEmpty, Goto, At, sessions, queues, OpsStates, IdlePoints,
      BusyPoints, NoRequests
<1>2. CASE DropConnect
  BY <1>2 DEF DropConnect, Goto, At, sessions, queues, OpsStates, IdlePoints,
      BusyPoints
<1>3. CASE DueConnect
  BY <1>3 DEF DueConnect, GotoWith, At, sessions, queues, OpsStates,
      IdlePoints, BusyPoints
<1>4. CASE Requeue
  BY <1>4 DEF Requeue, Goto, At, sessions, OpsStates, IdlePoints, BusyPoints,
      NoRequests
<1>5. CASE InitiateStopped
  BY <1>5 DEF InitiateStopped, Goto, At, sessions, queues, OpsStates,
      IdlePoints, BusyPoints
<1>6. CASE InitiateStarted
  BY <1>6 DEF InitiateStarted, GotoWith, At, sessions, queues, OpsStates,
      IdlePoints, BusyPoints
<1>7. CASE AlreadyBound
  BY <1>7 DEF AlreadyBound, IsBound, Goto, At, sessions, queues, IsBinding,
      OpsStates, IdlePoints, BusyPoints
<1>8. CASE BindBegins
  BY <1>8 DEF BindBegins, IsBound, At, queues, Unused, IsBinding, OpsStates,
      IdlePoints, BusyPoints, SessionStates
<1>9. CASE SessionSet
  BY <1>9 DEF SessionSet, Offer, Goto, At, OpsStates, IdlePoints, BusyPoints
<1>10. CASE PendingDone
  BY <1>10 DEF PendingDone, Goto, At, sessions, queues, OpsStates, IdlePoints,
      BusyPoints
<1>11. CASE EnquireCheck
  BY <1>11 DEF EnquireCheck, IsBound, GotoWith, At, sessions, queues,
      OpsStates, IdlePoints, BusyPoints
<1>12. ASSUME NEW e \in Esmes, PollConnectStopped(e) PROVE TypeOK'
  BY <1>12 DEF PollConnectStopped, Poll, At, GotoWith, sessions, OpsStates,
      IdlePoints, BusyPoints
<1>13. ASSUME NEW e \in Esmes, PollConnectLater(e) PROVE TypeOK'
  BY <1>13 DEF PollConnectLater, Poll, At, sessions
<1>14. ASSUME NEW e \in Esmes, PollConnectDue(e) PROVE TypeOK'
  BY <1>14 DEF PollConnectDue, Poll, At, GotoWith, sessions, OpsStates,
      IdlePoints, BusyPoints
<1>15. ASSUME NEW e \in Esmes, PollEnquireDropped(e) PROVE TypeOK'
  BY <1>15 DEF PollEnquireDropped, Poll, At, sessions
<1>16. ASSUME NEW e \in Esmes, PollEnquireLater(e) PROVE TypeOK'
  BY <1>16 DEF PollEnquireLater, Poll, At, sessions
<1>17. ASSUME NEW e \in Esmes, PollEnquireDue(e) PROVE TypeOK'
  BY <1>17 DEF PollEnquireDue, Poll, At, sessions
<1>18. ASSUME NEW e \in Esmes, BindSucceeds(e) PROVE TypeOK'
  BY <1>18 DEF BindSucceeds, At, queues, OpsStates, IdlePoints, BusyPoints,
      SessionStates
<1>19. ASSUME NEW e \in Esmes, BindFails(e) PROVE TypeOK'
  BY <1>19, CloseType, ScheduleConnectType DEF BindFails, Goto, At, OpsStates,
      IdlePoints, BusyPoints
<1>20. ASSUME NEW e \in Esmes, EnquireTaken(e) PROVE TypeOK'
  BY <1>20 DEF EnquireTaken, GotoWith, At, sessions, OpsStates, IdlePoints,
      BusyPoints
<1>21. ASSUME NEW e \in Esmes, EnquireSucceeds(e) PROVE TypeOK'
  BY <1>21 DEF EnquireSucceeds, Offer, Goto, At, sessions, OpsStates,
      IdlePoints, BusyPoints
<1>22. ASSUME NEW e \in Esmes, EnquireFails(e) PROVE TypeOK'
  BY <1>22, CloseType, ScheduleConnectType DEF EnquireFails, Goto, At,
      OpsStates, IdlePoints, BusyPoints
<1>23. ASSUME NEW e \in Esmes, EnquireNotBound(e) PROVE TypeOK'
  BY <1>23, CloseCurrentType, ScheduleConnectType DEF EnquireNotBound, Goto,
      At, OpsStates, IdlePoints, BusyPoints
<1>24. ASSUME NEW e \in Esmes, StartEsme(e) PROVE TypeOK'
  BY <1>24 DEF StartEsme, sessions, queues, AdminPoints
<1>25. ASSUME NEW e \in Esmes, StartCAS(e) PROVE TypeOK'
  BY <1>25 DEF StartCAS, sessions, queues, AdminPoints
<1>26. ASSUME NEW e \in Esmes, StartOffer(e) PROVE TypeOK'
  BY <1>26 DEF StartOffer, Offer, sessions, AdminPoints
<1>27. ASSUME NEW e \in Esmes, StopEsme(e) PROVE TypeOK'
  BY <1>27 DEF StopEsme, sessions, queues, FaultAllowed, AdminPoints
<1>28. ASSUME NEW e \in Esmes, StopSession(e) PROVE TypeOK'
  BY <1>28, CloseCurrentType DEF StopSession, queues, AdminPoints
<1>29. ASSUME NEW e \in Esmes, NEW s \in Slots, ChannelClosed(e, s)
       PROVE  TypeOK'
  BY <1>29 DEF ChannelClosed, queues, FaultAllowed, IOPoints
<1>30. ASSUME NEW e \in Esmes, NEW s \in Slots, ChannelClosedReported(e, s)
       PROVE  TypeOK'
  BY <1>30 DEF ChannelClosedReported, sessions, queues, IOPoints
<1>31. ASSUME NEW e \in Esmes, NEW s \in Slots, ExceptionCaught(e, s)
       PROVE  TypeOK'
  BY <1>31 DEF ExceptionCaught, sessions, queues, FaultAllowed, IOPoints
<1>32. ASSUME NEW e \in Esmes, NEW s \in Slots, HandlerCloses(e, s)
       PROVE  TypeOK'
  BY <1>32, CloseCurrentType DEF HandlerCloses, queues, IOPoints
<1>33. ASSUME NEW e \in Esmes, NEW s \in Slots, UndecodablePdu(e, s)
       PROVE  TypeOK'
  BY <1>33 DEF UndecodablePdu, sessions, queues, FaultAllowed, IOPoints
<1>34. ASSUME NEW e \in Esmes, NEW s \in Slots, HandlerClosesUnchecked(e, s)
       PROVE  TypeOK'
  BY <1>34, CloseCurrentType DEF HandlerClosesUnchecked, queues, IOPoints
<1>35. ASSUME NEW e \in Esmes, NEW s \in Slots, HandlerCAS(e, s)
       PROVE  TypeOK'
  BY <1>35 DEF HandlerCAS, sessions, queues, IOPoints
<1>36. ASSUME NEW e \in Esmes, NEW s \in Slots, HandlerOffer(e, s)
       PROVE  TypeOK'
  BY <1>36 DEF HandlerOffer, Offer, sessions, IOPoints
<1>37. CASE UNCHANGED vars
  BY <1>37 DEF vars, sessions, queues
<1>. QED
  BY <1>1, <1>2, <1>3, <1>4, <1>5, <1>6, <1>7, <1>8, <1>9, <1>10,
     <1>11, <1>12, <1>13, <1>14, <1>15, <1>16, <1>17, <1>18, <1>19, <1>20,
     <1>21, <1>22, <1>23, <1>24, <1>25, <1>26, <1>27, <1>28, <1>29, <1>30,
     <1>31, <1>32, <1>33, <1>34, <1>35, <1>36, <1>37
     DEF Next, OpsThread, Initiate, Drain, BindReturns, EnquireReturns, Administrator,
          AdminContinues, Fault, Callback

\* What the client starts with is well typed.
LEMMA InitType == Init => TypeOK
  BY DEF Init, TypeOK, ChangeRequests, NoRequests, Kinds, CONNECT, OpsStates,
         IdlePoints, BusyPoints, AdminPoints, IOPoints, SessionStates

(***************************************************************************)
(* Every variable keeps its type, and the operations thread always has the *)
(* ESME and the session that the point it has reached needs.               *)
(***************************************************************************)
THEOREM TypeCorrect == Spec => []TypeOK
  BY InitType, TypeStep, PTL DEF Spec

-----------------------------------------------------------------------------
(***************************************************************************)
(* One CONNECT request per set flag.                                       *)
(***************************************************************************)
\* The CONNECT requests of an ESME can be counted.
LEMMA CopiesNat == ASSUME TypeOK, NEW e \in Esmes PROVE Copies(e) \in Nat
  BY DEF TypeOK, Copies, ChangeRequests, Kinds, CONNECT

\* A thread that finds the flag clear may conclude that nothing is pending.
LEMMA NoneQueued ==
    ASSUME TypeOK, NEW e \in Esmes, OneConnectOf(e), ~inQueue[e]
    PROVE  Copies(e) = 0 /\ \A s \in Slots : io[e][s] # "offer"
<1>1. Copies(e) \in Nat
  BY CopiesNat
<1>2. Copies(e) # 1 /\ Copies(e) <= 1
  BY DEF OneConnectOf
<1>3. \A s \in Slots : io[e][s] # "offer"
  BY DEF OneConnectOf
<1>. QED
  BY <1>1, <1>2, <1>3

\* scheduleConnect() on the operations thread adds a request exactly when there
\* was none.
LEMMA ScheduleConnectOne ==
    ASSUME TypeOK, NEW e \in Esmes, ScheduleConnect(e),
           UNCHANGED <<newSet, admin, io>>,
           NEW f \in Esmes, OneConnectOf(f), ~OpsHolds(f), ~OpsHolds(f)'
    PROVE  OneConnectOf(f)'
<1>. USE DEF TypeOK, ChangeRequests, Kinds, CONNECT
<1>1. CASE inQueue[e]
  BY <1>1 DEF ScheduleConnect, OneConnectOf, Copies
<1>2. CASE ~inQueue[e]
  <2>1. /\ inQueue' = [inQueue EXCEPT ![e] = TRUE]
        /\ futureSet' = [futureSet EXCEPT ![CONNECT][e] = @ + 1]
    BY <1>2 DEF ScheduleConnect, Offer
  <2>2. CASE f # e
    BY <2>1, <2>2 DEF OneConnectOf, Copies
  <2>3. CASE f = e
    <3>1. Copies(f) = 0 /\ \A s \in Slots : io[f][s] # "offer"
      BY <1>2, <2>3, NoneQueued
    <3>2. Copies(f)' = 1 /\ inQueue'[f]
      BY <2>1, <2>3, <3>1 DEF Copies
    <3>. QED
      BY <3>1, <3>2 DEF OneConnectOf
  <2>. QED
    BY <2>2, <2>3
<1>. QED
  BY <1>1, <1>2

\* Every step preserves the one-to-one relation of flags and CONNECT requests.
LEMMA OneConnectStep == TypeOK /\ OneConnect /\ [Next]_vars => OneConnect'
<1>. SUFFICES ASSUME TypeOK, OneConnect, [Next]_vars, NEW f \in Esmes
              PROVE  OneConnectOf(f)'
  BY DEF OneConnect
<1>. OneConnectOf(f)
  BY DEF OneConnect
<1>. USE DEF TypeOK, ChangeRequests, Kinds, CONNECT, ENQUIRE_LINK
<1>1. CASE PollEmpty
  BY <1>1 DEF PollEmpty, Goto, At, sessions, queues, OneConnectOf, Copies,
      OpsHolds, NoRequests
<1>2. CASE DropConnect
  BY <1>2 DEF DropConnect, Goto, At, sessions, queues, OneConnectOf, Copies,
      OpsHolds
<1>3. CASE DueConnect
  BY <1>3 DEF DueConnect, GotoWith, At, sessions, queues, OneConnectOf,
      Copies, OpsHolds
<1>4. CASE Requeue
  BY <1>4 DEF Requeue, Goto, At, sessions, OneConnectOf, Copies, OpsHolds,
      NoRequests
<1>5. CASE InitiateStopped
  BY <1>5 DEF InitiateStopped, Goto, At, sessions, queues, OneConnectOf,
      Copies, OpsHolds
<1>6. CASE InitiateStarted
  BY <1>6 DEF InitiateStarted, GotoWith, At, sessions, queues, OneConnectOf,
      Copies, OpsHolds
<1>7. CASE AlreadyBound
  BY <1>7 DEF AlreadyBound, IsBound, Goto, At, sessions, queues, IsBinding,
      OneConnectOf, Copies, OpsHolds
<1>8. CASE BindBegins
  BY <1>8 DEF BindBegins, IsBound, At, queues, Unused, IsBinding,
      OneConnectOf, Copies, OpsHolds
<1>9. CASE SessionSet
  BY <1>9 DEF SessionSet, Offer, Goto, At, OneConnectOf, Copies, OpsHolds
<1>10. CASE PendingDone
  BY <1>10 DEF PendingDone, Goto, At, sessions, queues, OneConnectOf, Copies,
      OpsHolds
<1>11. CASE EnquireCheck
  BY <1>11 DEF EnquireCheck, IsBound, GotoWith, At, sessions, queues,
      OneConnectOf, Copies, OpsHolds
<1>12. ASSUME NEW e \in Esmes, PollConnectStopped(e) PROVE OneConnectOf(f)'
  BY <1>12 DEF PollConnectStopped, Poll, At, GotoWith, sessions, OneConnectOf,
      Copies, OpsHolds
<1>13. ASSUME NEW e \in Esmes, PollConnectLater(e) PROVE OneConnectOf(f)'
  BY <1>13 DEF PollConnectLater, Poll, At, sessions, OneConnectOf, Copies,
      OpsHolds
<1>14. ASSUME NEW e \in Esmes, PollConnectDue(e) PROVE OneConnectOf(f)'
  BY <1>14 DEF PollConnectDue, Poll, At, GotoWith, sessions, OneConnectOf,
      Copies, OpsHolds
<1>15. ASSUME NEW e \in Esmes, PollEnquireDropped(e) PROVE OneConnectOf(f)'
  BY <1>15 DEF PollEnquireDropped, Poll, At, sessions, OneConnectOf, Copies,
      OpsHolds
<1>16. ASSUME NEW e \in Esmes, PollEnquireLater(e) PROVE OneConnectOf(f)'
  BY <1>16 DEF PollEnquireLater, Poll, At, sessions, OneConnectOf, Copies,
      OpsHolds
<1>17. ASSUME NEW e \in Esmes, PollEnquireDue(e) PROVE OneConnectOf(f)'
  BY <1>17 DEF PollEnquireDue, Poll, At, sessions, OneConnectOf, Copies,
      OpsHolds
<1>18. ASSUME NEW e \in Esmes, BindSucceeds(e) PROVE OneConnectOf(f)'
  BY <1>18 DEF BindSucceeds, At, queues, OneConnectOf, Copies, OpsHolds
<1>19. ASSUME NEW e \in Esmes, BindFails(e) PROVE OneConnectOf(f)'
  BY <1>19, ScheduleConnectOne DEF BindFails, Goto, At, OneConnectOf, Copies,
      OpsHolds
<1>20. ASSUME NEW e \in Esmes, EnquireTaken(e) PROVE OneConnectOf(f)'
  BY <1>20 DEF EnquireTaken, GotoWith, At, sessions, OneConnectOf, Copies,
      OpsHolds
<1>21. ASSUME NEW e \in Esmes, EnquireSucceeds(e) PROVE OneConnectOf(f)'
  BY <1>21 DEF EnquireSucceeds, Offer, Goto, At, sessions, OneConnectOf,
      Copies, OpsHolds
<1>22. ASSUME NEW e \in Esmes, EnquireFails(e) PROVE OneConnectOf(f)'
  BY <1>22, ScheduleConnectOne DEF EnquireFails, Goto, At, OneConnectOf,
      Copies, OpsHolds
<1>23. ASSUME NEW e \in Esmes, EnquireNotBound(e) PROVE OneConnectOf(f)'
  BY <1>23, ScheduleConnectOne DEF EnquireNotBound, Goto, At, OneConnectOf,
      Copies, OpsHolds
<1>24. ASSUME NEW e \in Esmes, StartEsme(e) PROVE OneConnectOf(f)'
  BY <1>24 DEF StartEsme, sessions, queues, OneConnectOf, Copies, OpsHolds
<1>25. ASSUME NEW e \in Esmes, StartCAS(e) PROVE OneConnectOf(f)'
  BY <1>25 DEF StartCAS, sessions, queues, OneConnectOf, Copies, OpsHolds
<1>26. ASSUME NEW e \in Esmes, StartOffer(e) PROVE OneConnectOf(f)'
  BY <1>26 DEF StartOffer, Offer, sessions, OneConnectOf, Copies, OpsHolds
<1>27. ASSUME NEW e \in Esmes, StopEsme(e) PROVE OneConnectOf(f)'
  BY <1>27 DEF StopEsme, sessions, queues, FaultAllowed, OneConnectOf, Copies,
      OpsHolds
<1>28. ASSUME NEW e \in Esmes, StopSession(e) PROVE OneConnectOf(f)'
  BY <1>28 DEF StopSession, queues, OneConnectOf, Copies, OpsHolds
<1>29. ASSUME NEW e \in Esmes, NEW s \in Slots, ChannelClosed(e, s)
       PROVE  OneConnectOf(f)'
  BY <1>29 DEF ChannelClosed, queues, FaultAllowed, OneConnectOf, Copies,
      OpsHolds
<1>30. ASSUME NEW e \in Esmes, NEW s \in Slots, ChannelClosedReported(e, s)
       PROVE  OneConnectOf(f)'
  BY <1>30 DEF ChannelClosedReported, sessions, queues, OneConnectOf, Copies,
      OpsHolds
<1>31. ASSUME NEW e \in Esmes, NEW s \in Slots, ExceptionCaught(e, s)
       PROVE  OneConnectOf(f)'
  BY <1>31 DEF ExceptionCaught, sessions, queues, FaultAllowed, OneConnectOf,
      Copies, OpsHolds
<1>32. ASSUME NEW e \in Esmes, NEW s \in Slots, HandlerCloses(e, s)
       PROVE  OneConnectOf(f)'
  BY <1>32 DEF HandlerCloses, queues, OneConnectOf, Copies, OpsHolds
<1>33. ASSUME NEW e \in Esmes, NEW s \in Slots, UndecodablePdu(e, s)
       PROVE  OneConnectOf(f)'
  BY <1>33 DEF UndecodablePdu, sessions, queues, FaultAllowed, OneConnectOf,
      Copies, OpsHolds
<1>34. ASSUME NEW e \in Esmes, NEW s \in Slots, HandlerClosesUnchecked(e, s)
       PROVE  OneConnectOf(f)'
  BY <1>34 DEF HandlerClosesUnchecked, queues, OneConnectOf, Copies, OpsHolds
<1>35. ASSUME NEW e \in Esmes, NEW s \in Slots, HandlerCAS(e, s)
       PROVE  OneConnectOf(f)'
  <2>1. CASE e # f
    BY <1>35, <2>1 DEF HandlerCAS, sessions, queues, OneConnectOf, Copies,
        OpsHolds
  <2>2. CASE e = f /\ inQueue[e]
    BY <1>35, <2>2 DEF HandlerCAS, sessions, queues, OneConnectOf, Copies,
        OpsHolds
  <2>3. CASE e = f /\ ~inQueue[e]
    <3>1. Copies(f) = 0 /\ \A t \in Slots : io[f][t] # "offer"
      BY <2>3, NoneQueued
    <3>2. Copies(f)' = 0
      BY <1>35, <3>1 DEF HandlerCAS, queues, Copies, OpsHolds
    <3>3. inQueue'[f] /\ io' = [io EXCEPT ![f][s] = "offer"]
      BY <1>35, <2>3 DEF HandlerCAS
    <3>. QED
      BY <3>1, <3>2, <3>3 DEF OneConnectOf
  <2>. QED
    BY <2>1, <2>2, <2>3
<1>36. ASSUME NEW e \in Esmes, NEW s \in Slots, HandlerOffer(e, s)
       PROVE  OneConnectOf(f)'
  BY <1>36 DEF HandlerOffer, Offer, sessions, OneConnectOf, Copies, OpsHolds
<1>37. CASE UNCHANGED vars
  BY <1>37 DEF vars, sessions, queues,
      OneConnectOf, Copies, OpsHolds
<1>. QED
  BY <1>1, <1>2, <1>3, <1>4, <1>5, <1>6, <1>7, <1>8, <1>9, <1>10,
     <1>11, <1>12, <1>13, <1>14, <1>15, <1>16, <1>17, <1>18, <1>19, <1>20,
     <1>21, <1>22, <1>23, <1>24, <1>25, <1>26, <1>27, <1>28, <1>29, <1>30,
     <1>31, <1>32, <1>33, <1>34, <1>35, <1>36, <1>37
     DEF Next, OpsThread, Initiate, Drain, BindReturns, EnquireReturns, Administrator,
          AdminContinues, Fault, Callback

\* At first each ESME has its flag set and one CONNECT.
LEMMA InitOneConnect == Init => OneConnect
<1>. SUFFICES ASSUME Init, NEW e \in Esmes PROVE OneConnectOf(e)
  BY DEF OneConnect
<1>1. futureSet[CONNECT][e] = 1 /\ newSet[CONNECT][e] = 0
  BY DEF Init, NoRequests, Kinds, CONNECT, ENQUIRE_LINK
<1>2. Copies(e) = 1
  BY <1>1 DEF Init, Copies, OpsHolds
<1>. QED
  BY <1>2 DEF Init, OneConnectOf

(***************************************************************************)
(* Whatever the interleaving of the threads, a set inConnectingQueue means *)
(* exactly one pending CONNECT and a clear one means none.                 *)
(***************************************************************************)
THEOREM ConnectUnique == Spec => []OneConnect
  BY InitOneConnect, TypeCorrect, OneConnectStep, PTL DEF Spec

-----------------------------------------------------------------------------
(***************************************************************************)
(* One open session per ESME.                                              *)
(***************************************************************************)
\* Closing a session opens none.
LEMMA CloseCurrentCloses ==
    ASSUME TypeOK, NEW e \in Esmes, CloseCurrent(e),
           NEW f \in Esmes, NEW s \in Slots, state'[f][s] # "CLOSED"
    PROVE  state'[f][s] = state[f][s]
<1>1. CASE session[e] = NoSession
  BY <1>1 DEF CloseCurrent
<1>2. CASE session[e] # NoSession
  <2>1. session[e] \in Slots /\ Close(e, session[e])
    BY <1>2 DEF TypeOK, CloseCurrent
  <2>. QED
    BY <2>1 DEF TypeOK, Close
<1>. QED
  BY <1>1, <1>2

\* Every step preserves the inductive form of OneSession.
LEMMA OneSessionStep == TypeOK /\ OneSessionInd /\ [Next]_vars => OneSessionInd'
<1>. SUFFICES ASSUME TypeOK, OneSessionInd, [Next]_vars, NEW f \in Esmes
              PROVE  OneSessionOf(f)'
  BY DEF OneSessionInd
<1>. OneSessionOf(f)
  BY DEF OneSessionInd
<1>. USE DEF TypeOK
<1>1. CASE PollEmpty
  BY <1>1 DEF PollEmpty, Goto, At, sessions, queues, OneSessionOf, Binding
<1>2. CASE DropConnect
  BY <1>2 DEF DropConnect, Goto, At, sessions, queues, OneSessionOf, Binding
<1>3. CASE DueConnect
  BY <1>3 DEF DueConnect, GotoWith, At, sessions, queues, OneSessionOf,
      Binding
<1>4. CASE Requeue
  BY <1>4 DEF Requeue, Goto, At, sessions, OneSessionOf, Binding
<1>5. CASE InitiateStopped
  BY <1>5 DEF InitiateStopped, Goto, At, sessions, queues, OneSessionOf,
      Binding
<1>6. CASE InitiateStarted
  BY <1>6 DEF InitiateStarted, GotoWith, At, sessions, queues, OneSessionOf,
      Binding
<1>7. CASE AlreadyBound
  BY <1>7 DEF AlreadyBound, IsBound, Goto, At, sessions, queues, IsBinding,
      OneSessionOf, Binding
<1>8. CASE BindBegins
  <2>1. PICK s \in Slots :
           /\ session[ops.esme] # s
           /\ state' = [state EXCEPT ![ops.esme][s] = "BINDING"]
           /\ ops' = [pc |-> "bind", esme |-> ops.esme, session0 |-> s]
    BY <1>8 DEF BindBegins, Unused
  <2>2. ops.pc = "checkSession" /\ ops.esme \in Esmes /\ UNCHANGED session
    BY <1>8 DEF BindBegins, At, BusyPoints
  <2>3. CASE f # ops.esme
    BY <2>1, <2>2, <2>3 DEF OneSessionOf, Binding
  <2>4. CASE f = ops.esme
    <3>1. session[f] # NoSession =>
             state[f][session[f]] # "BOUND" /\ state[f][session[f]] # "BINDING"
      BY <1>8, <2>4 DEF BindBegins, IsBound, IsBinding
    <3>2. \A t \in Slots : state[f][t] # "CLOSED" => t = session[f]
      BY <2>2 DEF OneSessionOf, Binding
    <3>3. \A t \in Slots : state[f][t] \in SessionStates
      OBVIOUS
    <3>4. \A t \in Slots : state[f][t] = "CLOSED"
      BY <3>1, <3>2, <3>3, ClientAssumption DEF SessionStates
    <3>. QED
      BY <2>1, <2>2, <2>4, <3>4 DEF OneSessionOf, Binding
  <2>. QED
    BY <2>3, <2>4
<1>9. CASE SessionSet
  BY <1>9 DEF SessionSet, Goto, At, OneSessionOf, Binding
<1>10. CASE PendingDone
  BY <1>10 DEF PendingDone, Goto, At, sessions, queues, OneSessionOf, Binding
<1>11. CASE EnquireCheck
  BY <1>11 DEF EnquireCheck, IsBound, GotoWith, At, sessions, queues,
      OneSessionOf, Binding
<1>12. ASSUME NEW e \in Esmes, PollConnectStopped(e) PROVE OneSessionOf(f)'
  BY <1>12 DEF PollConnectStopped, Poll, At, GotoWith, sessions, OneSessionOf,
      Binding
<1>13. ASSUME NEW e \in Esmes, PollConnectLater(e) PROVE OneSessionOf(f)'
  BY <1>13 DEF PollConnectLater, Poll, At, sessions, OneSessionOf, Binding
<1>14. ASSUME NEW e \in Esmes, PollConnectDue(e) PROVE OneSessionOf(f)'
  BY <1>14 DEF PollConnectDue, Poll, At, GotoWith, sessions, OneSessionOf,
      Binding
<1>15. ASSUME NEW e \in Esmes, PollEnquireDropped(e) PROVE OneSessionOf(f)'
  BY <1>15 DEF PollEnquireDropped, Poll, At, sessions, OneSessionOf, Binding
<1>16. ASSUME NEW e \in Esmes, PollEnquireLater(e) PROVE OneSessionOf(f)'
  BY <1>16 DEF PollEnquireLater, Poll, At, sessions, OneSessionOf, Binding
<1>17. ASSUME NEW e \in Esmes, PollEnquireDue(e) PROVE OneSessionOf(f)'
  BY <1>17 DEF PollEnquireDue, Poll, At, sessions, OneSessionOf, Binding
<1>18. ASSUME NEW e \in Esmes, BindSucceeds(e) PROVE OneSessionOf(f)'
  BY <1>18 DEF BindSucceeds, At, queues, OneSessionOf, Binding
<1>19. ASSUME NEW e \in Esmes, BindFails(e) PROVE OneSessionOf(f)'
  BY <1>19 DEF BindFails, Close, Goto, At, OneSessionOf, Binding
<1>20. ASSUME NEW e \in Esmes, EnquireTaken(e) PROVE OneSessionOf(f)'
  BY <1>20 DEF EnquireTaken, GotoWith, At, sessions, OneSessionOf, Binding
<1>21. ASSUME NEW e \in Esmes, EnquireSucceeds(e) PROVE OneSessionOf(f)'
  BY <1>21 DEF EnquireSucceeds, Goto, At, sessions, OneSessionOf, Binding
<1>22. ASSUME NEW e \in Esmes, EnquireFails(e) PROVE OneSessionOf(f)'
  BY <1>22 DEF EnquireFails, Close, Goto, At, OneSessionOf, Binding
<1>23. ASSUME NEW e \in Esmes, EnquireNotBound(e) PROVE OneSessionOf(f)'
  BY <1>23, CloseCurrentCloses DEF EnquireNotBound, Goto, At, OneSessionOf,
      Binding
<1>24. ASSUME NEW e \in Esmes, StartEsme(e) PROVE OneSessionOf(f)'
  BY <1>24 DEF StartEsme, sessions, queues, OneSessionOf, Binding
<1>25. ASSUME NEW e \in Esmes, StartCAS(e) PROVE OneSessionOf(f)'
  BY <1>25 DEF StartCAS, sessions, queues, OneSessionOf, Binding
<1>26. ASSUME NEW e \in Esmes, StartOffer(e) PROVE OneSessionOf(f)'
  BY <1>26 DEF StartOffer, sessions, OneSessionOf, Binding
<1>27. ASSUME NEW e \in Esmes, StopEsme(e) PROVE OneSessionOf(f)'
  BY <1>27 DEF StopEsme, sessions, queues, FaultAllowed, OneSessionOf, Binding
<1>28. ASSUME NEW e \in Esmes, StopSession(e) PROVE OneSessionOf(f)'
  BY <1>28, CloseCurrentCloses DEF StopSession, queues, OneSessionOf, Binding
<1>29. ASSUME NEW e \in Esmes, NEW s \in Slots, ChannelClosed(e, s)
       PROVE  OneSessionOf(f)'
  BY <1>29 DEF ChannelClosed, queues, FaultAllowed, OneSessionOf, Binding
<1>30. ASSUME NEW e \in Esmes, NEW s \in Slots, ChannelClosedReported(e, s)
       PROVE  OneSessionOf(f)'
  BY <1>30 DEF ChannelClosedReported, sessions, queues, OneSessionOf, Binding
<1>31. ASSUME NEW e \in Esmes, NEW s \in Slots, ExceptionCaught(e, s)
       PROVE  OneSessionOf(f)'
  BY <1>31 DEF ExceptionCaught, sessions, queues, FaultAllowed, OneSessionOf,
      Binding
<1>32. ASSUME NEW e \in Esmes, NEW s \in Slots, HandlerCloses(e, s)
       PROVE  OneSessionOf(f)'
  BY <1>32, CloseCurrentCloses DEF HandlerCloses, queues, OneSessionOf,
      Binding
<1>33. ASSUME NEW e \in Esmes, NEW s \in Slots, UndecodablePdu(e, s)
       PROVE  OneSessionOf(f)'
  BY <1>33 DEF UndecodablePdu, sessions, queues, FaultAllowed, OneSessionOf,
      Binding
<1>34. ASSUME NEW e \in Esmes, NEW s \in Slots, HandlerClosesUnchecked(e, s)
       PROVE  OneSessionOf(f)'
  BY <1>34, CloseCurrentCloses DEF HandlerClosesUnchecked, queues,
      OneSessionOf, Binding
<1>35. ASSUME NEW e \in Esmes, NEW s \in Slots, HandlerCAS(e, s)
       PROVE  OneSessionOf(f)'
  BY <1>35 DEF HandlerCAS, sessions, queues, OneSessionOf, Binding
<1>36. ASSUME NEW e \in Esmes, NEW s \in Slots, HandlerOffer(e, s)
       PROVE  OneSessionOf(f)'
  BY <1>36 DEF HandlerOffer, sessions, OneSessionOf, Binding
<1>37. CASE UNCHANGED vars
  BY <1>37 DEF vars, sessions, queues,
      OneSessionOf, Binding
<1>. QED
  BY <1>1, <1>2, <1>3, <1>4, <1>5, <1>6, <1>7, <1>8, <1>9, <1>10,
     <1>11, <1>12, <1>13, <1>14, <1>15, <1>16, <1>17, <1>18, <1>19, <1>20,
     <1>21, <1>22, <1>23, <1>24, <1>25, <1>26, <1>27, <1>28, <1>29, <1>30,
     <1>31, <1>32, <1>33, <1>34, <1>35, <1>36, <1>37
     DEF Next, OpsThread, Initiate, Drain, BindReturns, EnquireReturns, Administrator,
          AdminContinues, Fault, Callback

\* At start every session object is closed.
LEMMA InitOneSession == Init => OneSessionInd
<1>. SUFFICES ASSUME Init, NEW e \in Esmes PROVE OneSessionOf(e)
  BY DEF OneSessionInd
<1>1. ~Binding(e) /\ \A s \in Slots : state[e][s] = "CLOSED"
  BY DEF Init, Binding
<1>. QED
  BY <1>1 DEF OneSessionOf

(***************************************************************************)
(* An ESME never has two sessions open, and the open one is known to it.   *)
(***************************************************************************)
THEOREM SessionUnique == Spec => []OneSession
<1>1. Init => OneSessionInd
  BY InitOneSession
<1>2. OneSessionInd => OneSession
  BY DEF OneSessionInd, OneSessionOf, OneSession
<1>3. Spec => []TypeOK
  BY TypeCorrect
<1>. QED
  BY <1>1, <1>2, <1>3, OneSessionStep, PTL DEF Spec

-----------------------------------------------------------------------------
(***************************************************************************)
(* A bound session is supervised.                                          *)
(***************************************************************************)
\* Closing the session of an ESME leaves it unbound and binds no other.
LEMMA CloseCurrentUnbinds ==
    ASSUME TypeOK, NEW e \in Esmes, CloseCurrent(e), UNCHANGED session,
           NEW f \in Esmes, IsBound(f)'
    PROVE  f # e /\ IsBound(f)
<1>1. session[f] \in Slots /\ state'[f][session[f]] = "BOUND"
  BY DEF TypeOK, IsBound
<1>2. IsBound(f)
  BY <1>1, CloseCurrentCloses DEF IsBound
<1>3. ASSUME f = e PROVE FALSE
  <2>1. state' = [state EXCEPT ![f][session[f]] = "CLOSED"]
    BY <1>2, <1>3 DEF CloseCurrent, Close, IsBound
  <2>. QED
    BY <1>1, <2>1 DEF TypeOK
<1>. QED
  BY <1>2, <1>3

\* Every step keeps the bound sessions of ESMEs nobody stops supervised.
LEMMA SupervisedStep ==
    TypeOK /\ OneSessionInd /\ Supervised /\ [Next]_vars => Supervised'
<1>. SUFFICES ASSUME TypeOK, OneSessionInd, [Next]_vars,
                     NEW f \in EnquireOn \ Managed, SupervisedOf(f)
              PROVE  SupervisedOf(f)'
  BY DEF Supervised
<1>. f \in Esmes /\ OneSessionOf(f)
  BY ClientAssumption DEF OneSessionInd
<1>. USE DEF TypeOK, ChangeRequests, Kinds, CONNECT, ENQUIRE_LINK
<1>1. CASE PollEmpty
  BY <1>1 DEF PollEmpty, Goto, At, sessions, queues, SupervisedOf, IsBound,
      Enquires, NoRequests
<1>2. CASE DropConnect
  BY <1>2 DEF DropConnect, Goto, At, sessions, queues, SupervisedOf, IsBound,
      Enquires
<1>3. CASE DueConnect
  BY <1>3 DEF DueConnect, GotoWith, At, sessions, queues, SupervisedOf,
      IsBound, Enquires
<1>4. CASE Requeue
  BY <1>4 DEF Requeue, Goto, At, sessions, SupervisedOf, IsBound, Enquires,
      NoRequests
<1>5. CASE InitiateStopped
  BY <1>5 DEF InitiateStopped, Goto, At, sessions, queues, SupervisedOf,
      IsBound, Enquires
<1>6. CASE InitiateStarted
  BY <1>6 DEF InitiateStarted, GotoWith, At, sessions, queues, SupervisedOf,
      IsBound, Enquires
<1>7. CASE AlreadyBound
  BY <1>7 DEF AlreadyBound, Goto, At, sessions, queues, IsBinding,
      SupervisedOf, IsBound, Enquires
<1>8. CASE BindBegins
  BY <1>8 DEF BindBegins, At, queues, Unused, IsBinding, SupervisedOf,
      IsBound, Enquires
<1>9. CASE SessionSet
  BY <1>9 DEF SessionSet, Offer, Goto, At, SupervisedOf, IsBound, Enquires
<1>10. CASE PendingDone
  BY <1>10 DEF PendingDone, Goto, At, sessions, queues, SupervisedOf, IsBound,
      Enquires
<1>11. CASE EnquireCheck
  BY <1>11 DEF EnquireCheck, GotoWith, At, sessions, queues, SupervisedOf,
      IsBound, Enquires
<1>12. ASSUME NEW e \in Esmes, PollConnectStopped(e) PROVE SupervisedOf(f)'
  BY <1>12 DEF PollConnectStopped, Poll, At, GotoWith, sessions, SupervisedOf,
      IsBound, Enquires
<1>13. ASSUME NEW e \in Esmes, PollConnectLater(e) PROVE SupervisedOf(f)'
  BY <1>13 DEF PollConnectLater, Poll, At, sessions, SupervisedOf, IsBound,
      Enquires
<1>14. ASSUME NEW e \in Esmes, PollConnectDue(e) PROVE SupervisedOf(f)'
  BY <1>14 DEF PollConnectDue, Poll, At, GotoWith, sessions, SupervisedOf,
      IsBound, Enquires
<1>15. ASSUME NEW e \in Esmes, PollEnquireDropped(e) PROVE SupervisedOf(f)'
  BY <1>15 DEF PollEnquireDropped, Poll, At, sessions, SupervisedOf, IsBound,
      Enquires
<1>16. ASSUME NEW e \in Esmes, PollEnquireLater(e) PROVE SupervisedOf(f)'
  BY <1>16 DEF PollEnquireLater, Poll, At, sessions, SupervisedOf, IsBound,
      Enquires
<1>17. ASSUME NEW e \in Esmes, PollEnquireDue(e) PROVE SupervisedOf(f)'
  BY <1>17 DEF PollEnquireDue, Poll, At, sessions, SupervisedOf, IsBound,
      Enquires
<1>18. ASSUME NEW e \in Esmes, BindSucceeds(e) PROVE SupervisedOf(f)'
  <2>1. ops.pc = "bind" /\ ops.esme = e /\ UNCHANGED <<session, queues, started>>
    BY <1>18 DEF BindSucceeds, At
  <2>2. session[f] # NoSession => state'[f][session[f]] = state[f][session[f]]
    BY <1>18, <2>1 DEF BindSucceeds, OneSessionOf, Binding
  <2>. QED
    BY <2>1, <2>2 DEF SupervisedOf, IsBound, Enquires, queues
<1>19. ASSUME NEW e \in Esmes, BindFails(e) PROVE SupervisedOf(f)'
  BY <1>19 DEF BindFails, Close, ScheduleConnect, Offer, Goto, At,
      SupervisedOf, IsBound, Enquires
<1>20. ASSUME NEW e \in Esmes, EnquireTaken(e) PROVE SupervisedOf(f)'
  BY <1>20 DEF EnquireTaken, GotoWith, At, sessions, SupervisedOf, IsBound,
      Enquires
<1>21. ASSUME NEW e \in Esmes, EnquireSucceeds(e) PROVE SupervisedOf(f)'
  BY <1>21 DEF EnquireSucceeds, Offer, Goto, At, sessions, SupervisedOf,
      IsBound, Enquires
<1>22. ASSUME NEW e \in Esmes, EnquireFails(e) PROVE SupervisedOf(f)'
  BY <1>22 DEF EnquireFails, Close, ScheduleConnect, Offer, Goto, At,
      SupervisedOf, IsBound, Enquires
<1>23. ASSUME NEW e \in Esmes, EnquireNotBound(e) PROVE SupervisedOf(f)'
  BY <1>23, CloseCurrentUnbinds DEF EnquireNotBound, ScheduleConnect, Offer,
      Goto, At, SupervisedOf, Enquires
<1>24. ASSUME NEW e \in Esmes, StartEsme(e) PROVE SupervisedOf(f)'
  BY <1>24 DEF StartEsme, sessions, queues, SupervisedOf, IsBound, Enquires
<1>25. ASSUME NEW e \in Esmes, StartCAS(e) PROVE SupervisedOf(f)'
  BY <1>25 DEF StartCAS, sessions, queues, SupervisedOf, IsBound, Enquires
<1>26. ASSUME NEW e \in Esmes, StartOffer(e) PROVE SupervisedOf(f)'
  BY <1>26 DEF StartOffer, Offer, sessions, SupervisedOf, IsBound, Enquires
<1>27. ASSUME NEW e \in Esmes, StopEsme(e) PROVE SupervisedOf(f)'
  BY <1>27 DEF StopEsme, sessions, queues, FaultAllowed, SupervisedOf,
      IsBound, Enquires
<1>28. ASSUME NEW e \in Esmes, StopSession(e) PROVE SupervisedOf(f)'
  BY <1>28, CloseCurrentUnbinds DEF StopSession, queues, SupervisedOf, Enquires
<1>29. ASSUME NEW e \in Esmes, NEW s \in Slots, ChannelClosed(e, s)
       PROVE  SupervisedOf(f)'
  BY <1>29 DEF ChannelClosed, queues, FaultAllowed, SupervisedOf, IsBound,
      Enquires
<1>30. ASSUME NEW e \in Esmes, NEW s \in Slots, ChannelClosedReported(e, s)
       PROVE  SupervisedOf(f)'
  BY <1>30 DEF ChannelClosedReported, sessions, queues, SupervisedOf, IsBound,
      Enquires
<1>31. ASSUME NEW e \in Esmes, NEW s \in Slots, ExceptionCaught(e, s)
       PROVE  SupervisedOf(f)'
  BY <1>31 DEF ExceptionCaught, sessions, queues, FaultAllowed, SupervisedOf,
      IsBound, Enquires
<1>32. ASSUME NEW e \in Esmes, NEW s \in Slots, HandlerCloses(e, s)
       PROVE  SupervisedOf(f)'
  BY <1>32, CloseCurrentUnbinds DEF HandlerCloses, queues, SupervisedOf,
      Enquires
<1>33. ASSUME NEW e \in Esmes, NEW s \in Slots, UndecodablePdu(e, s)
       PROVE  SupervisedOf(f)'
  BY <1>33 DEF UndecodablePdu, sessions, queues, FaultAllowed, SupervisedOf,
      IsBound, Enquires
<1>34. ASSUME NEW e \in Esmes, NEW s \in Slots, HandlerClosesUnchecked(e, s)
       PROVE  SupervisedOf(f)'
  BY <1>34, CloseCurrentUnbinds DEF HandlerClosesUnchecked, queues,
      SupervisedOf, Enquires
<1>35. ASSUME NEW e \in Esmes, NEW s \in Slots, HandlerCAS(e, s)
       PROVE  SupervisedOf(f)'
  BY <1>35 DEF HandlerCAS, sessions, queues, SupervisedOf, IsBound, Enquires
<1>36. ASSUME NEW e \in Esmes, NEW s \in Slots, HandlerOffer(e, s)
       PROVE  SupervisedOf(f)'
  BY <1>36 DEF HandlerOffer, Offer, sessions, SupervisedOf, IsBound, Enquires
<1>37. CASE UNCHANGED vars
  BY <1>37 DEF vars, sessions, queues,
      SupervisedOf, IsBound, Enquires
<1>. QED
  BY <1>1, <1>2, <1>3, <1>4, <1>5, <1>6, <1>7, <1>8, <1>9, <1>10,
     <1>11, <1>12, <1>13, <1>14, <1>15, <1>16, <1>17, <1>18, <1>19, <1>20,
     <1>21, <1>22, <1>23, <1>24, <1>25, <1>26, <1>27, <1>28, <1>29, <1>30,
     <1>31, <1>32, <1>33, <1>34, <1>35, <1>36, <1>37
     DEF Next, OpsThread, Initiate, Drain, BindReturns, EnquireReturns, Administrator,
          AdminContinues, Fault, Callback

(***************************************************************************)
(* A bound session of an ESME that is left running is always supervised.   *)
(***************************************************************************)
THEOREM AlwaysSupervised == Spec => []Supervised
<1>1. Init => Supervised
  BY ClientAssumption DEF Init, Supervised, SupervisedOf, IsBound
<1>2. Spec => []TypeOK
  BY TypeCorrect
<1>3. Init => OneSessionInd
  BY InitOneSession
<1>. QED
  BY <1>1, <1>2, <1>3, OneSessionStep, SupervisedStep, PTL DEF Spec

-----------------------------------------------------------------------------
(***************************************************************************)
(* A started ESME is never forgotten, but by the drop of its CONNECT.      *)
(***************************************************************************)
\* Closing the session of an ESME opens none, and leaves the one being bound alone.
LEMMA CloseCurrentKeeps ==
    ASSUME TypeOK, OneSessionInd, NEW e \in Esmes, CloseCurrent(e),
           NEW f \in Esmes, PursuitOf(f)
    PROVE  /\ \A s \in Slots : state'[f][s] = "BINDING" => state[f][s] = "BINDING"
           /\ At("bind") /\ ops.esme = f => state'[f][ops.session0] = "BINDING"
           /\ At("bound") /\ ops.esme = f => state'[f][ops.session0] = "BOUND"
<1>1. CASE session[e] = NoSession
  BY <1>1 DEF CloseCurrent, PursuitOf
<1>2. CASE session[e] # NoSession
  <2>1. state' = [state EXCEPT ![e][session[e]] = "CLOSED"]
    BY <1>2 DEF CloseCurrent, Close
  <2>2. (At("bind") \/ At("bound")) /\ ops.esme = f => session[f] # ops.session0
    BY DEF OneSessionInd, OneSessionOf, Binding, At
  <2>. QED
    BY <2>1, <2>2 DEF TypeOK, PursuitOf
<1>. QED
  BY <1>1, <1>2

\* It leaves the sessions of the other ESMEs as they are.
LEMMA CloseCurrentOther ==
    ASSUME TypeOK, NEW e \in Esmes, CloseCurrent(e), UNCHANGED session,
           NEW f \in Esmes, f # e, IsBound(f)
    PROVE  IsBound(f)'
<1>1. CASE session[e] = NoSession
  BY <1>1 DEF CloseCurrent, IsBound
<1>2. CASE session[e] # NoSession
  BY <1>2 DEF CloseCurrent, Close, IsBound, TypeOK
<1>. QED
  BY <1>1, <1>2

\* Every step keeps what initiateConnection() relies on.
LEMMA PursuitStep == TypeOK /\ OneSessionInd /\ PursuitInd /\ [Next]_vars => PursuitInd'
<1>. SUFFICES ASSUME TypeOK, OneSessionInd, PursuitInd, [Next]_vars, NEW f \in Esmes
              PROVE  PursuitOf(f)'
  BY DEF PursuitInd
<1>. PursuitOf(f) /\ OneSessionOf(f)
  BY DEF PursuitInd, OneSessionInd
<1>. USE DEF TypeOK
<1>1. CASE PollEmpty
  BY <1>1 DEF PollEmpty, Goto, At, sessions, queues, NoRequests, PursuitOf
<1>2. CASE DropConnect
  BY <1>2 DEF DropConnect, Goto, At, sessions, queues, PursuitOf
<1>3. CASE DueConnect
  BY <1>3 DEF DueConnect, GotoWith, At, sessions, queues, PursuitOf
<1>4. CASE Requeue
  BY <1>4 DEF Requeue, Goto, At, sessions, NoRequests, PursuitOf
<1>5. CASE InitiateStopped
  BY <1>5 DEF InitiateStopped, Goto, At, sessions, queues, PursuitOf
<1>6. CASE InitiateStarted
  BY <1>6 DEF InitiateStarted, GotoWith, At, sessions, queues, PursuitOf
<1>7. CASE AlreadyBound
  BY <1>7 DEF AlreadyBound, Goto, At, sessions, queues, IsBinding, PursuitOf
<1>8. CASE BindBegins
  BY <1>8 DEF BindBegins, At, queues, Unused, IsBinding, PursuitOf
<1>9. CASE SessionSet
  BY <1>9 DEF SessionSet, Offer, Goto, At, PursuitOf
<1>10. CASE PendingDone
  BY <1>10 DEF PendingDone, Goto, At, sessions, queues, PursuitOf
<1>11. CASE EnquireCheck
  BY <1>11 DEF EnquireCheck, GotoWith, At, sessions, queues, PursuitOf
<1>12. ASSUME NEW e \in Esmes, PollConnectStopped(e) PROVE PursuitOf(f)'
  BY <1>12 DEF PollConnectStopped, Poll, At, GotoWith, sessions, PursuitOf
<1>13. ASSUME NEW e \in Esmes, PollConnectLater(e) PROVE PursuitOf(f)'
  BY <1>13 DEF PollConnectLater, Poll, At, sessions, PursuitOf
<1>14. ASSUME NEW e \in Esmes, PollConnectDue(e) PROVE PursuitOf(f)'
  BY <1>14 DEF PollConnectDue, Poll, At, GotoWith, sessions, PursuitOf
<1>15. ASSUME NEW e \in Esmes, PollEnquireDropped(e) PROVE PursuitOf(f)'
  BY <1>15 DEF PollEnquireDropped, Poll, At, sessions, PursuitOf
<1>16. ASSUME NEW e \in Esmes, PollEnquireLater(e) PROVE PursuitOf(f)'
  BY <1>16 DEF PollEnquireLater, Poll, At, sessions, PursuitOf
<1>17. ASSUME NEW e \in Esmes, PollEnquireDue(e) PROVE PursuitOf(f)'
  BY <1>17 DEF PollEnquireDue, Poll, At, sessions, PursuitOf
<1>18. ASSUME NEW e \in Esmes, BindSucceeds(e) PROVE PursuitOf(f)'
  BY <1>18 DEF BindSucceeds, At, queues, PursuitOf, OneSessionOf, Binding
<1>19. ASSUME NEW e \in Esmes, BindFails(e) PROVE PursuitOf(f)'
  BY <1>19 DEF BindFails, Close, Goto, At, PursuitOf, OneSessionOf, Binding
<1>20. ASSUME NEW e \in Esmes, EnquireTaken(e) PROVE PursuitOf(f)'
  BY <1>20 DEF EnquireTaken, GotoWith, At, sessions, PursuitOf
<1>21. ASSUME NEW e \in Esmes, EnquireSucceeds(e) PROVE PursuitOf(f)'
  BY <1>21 DEF EnquireSucceeds, Offer, Goto, At, sessions, PursuitOf
<1>22. ASSUME NEW e \in Esmes, EnquireFails(e) PROVE PursuitOf(f)'
  BY <1>22 DEF EnquireFails, Close, Goto, At, PursuitOf
<1>23. ASSUME NEW e \in Esmes, EnquireNotBound(e) PROVE PursuitOf(f)'
  BY <1>23, CloseCurrentKeeps DEF EnquireNotBound, Goto, At, PursuitOf
<1>24. ASSUME NEW e \in Esmes, StartEsme(e) PROVE PursuitOf(f)'
  BY <1>24 DEF StartEsme, sessions, queues, PursuitOf, At
<1>25. ASSUME NEW e \in Esmes, StartCAS(e) PROVE PursuitOf(f)'
  BY <1>25 DEF StartCAS, sessions, queues, PursuitOf, At
<1>26. ASSUME NEW e \in Esmes, StartOffer(e) PROVE PursuitOf(f)'
  BY <1>26 DEF StartOffer, Offer, sessions, PursuitOf, At
<1>27. ASSUME NEW e \in Esmes, StopEsme(e) PROVE PursuitOf(f)'
  BY <1>27 DEF StopEsme, sessions, queues, FaultAllowed, PursuitOf, At
<1>28. ASSUME NEW e \in Esmes, StopSession(e) PROVE PursuitOf(f)'
  BY <1>28, CloseCurrentKeeps DEF StopSession, queues, PursuitOf, At
<1>29. ASSUME NEW e \in Esmes, NEW s \in Slots, ChannelClosed(e, s)
       PROVE  PursuitOf(f)'
  BY <1>29 DEF ChannelClosed, queues, FaultAllowed, PursuitOf, At
<1>30. ASSUME NEW e \in Esmes, NEW s \in Slots, ChannelClosedReported(e, s)
       PROVE  PursuitOf(f)'
  BY <1>30 DEF ChannelClosedReported, sessions, queues, PursuitOf, At
<1>31. ASSUME NEW e \in Esmes, NEW s \in Slots, ExceptionCaught(e, s)
       PROVE  PursuitOf(f)'
  BY <1>31 DEF ExceptionCaught, sessions, queues, FaultAllowed, PursuitOf, At
<1>32. ASSUME NEW e \in Esmes, NEW s \in Slots, HandlerCloses(e, s)
       PROVE  PursuitOf(f)'
  BY <1>32, CloseCurrentKeeps DEF HandlerCloses, queues, PursuitOf, At
<1>33. ASSUME NEW e \in Esmes, NEW s \in Slots, UndecodablePdu(e, s)
       PROVE  PursuitOf(f)'
  BY <1>33 DEF UndecodablePdu, sessions, queues, FaultAllowed, PursuitOf, At
<1>34. ASSUME NEW e \in Esmes, NEW s \in Slots, HandlerClosesUnchecked(e, s)
       PROVE  PursuitOf(f)'
  BY <1>34, CloseCurrentKeeps DEF HandlerClosesUnchecked, queues, PursuitOf, At
<1>35. ASSUME NEW e \in Esmes, NEW s \in Slots, HandlerCAS(e, s)
       PROVE  PursuitOf(f)'
  BY <1>35 DEF HandlerCAS, sessions, queues, PursuitOf, At
<1>36. ASSUME NEW e \in Esmes, NEW s \in Slots, HandlerOffer(e, s)
       PROVE  PursuitOf(f)'
  BY <1>36 DEF HandlerOffer, Offer, sessions, PursuitOf, At
<1>37. CASE UNCHANGED vars
  BY <1>37 DEF vars, sessions, queues, PursuitOf, At
<1>. QED
  BY <1>1, <1>2, <1>3, <1>4, <1>5, <1>6, <1>7, <1>8, <1>9, <1>10,
     <1>11, <1>12, <1>13, <1>14, <1>15, <1>16, <1>17, <1>18, <1>19, <1>20,
     <1>21, <1>22, <1>23, <1>24, <1>25, <1>26, <1>27, <1>28, <1>29, <1>30,
     <1>31, <1>32, <1>33, <1>34, <1>35, <1>36, <1>37
     DEF Next, OpsThread, Initiate, Drain, BindReturns, EnquireReturns, Administrator,
          AdminContinues, Fault, Callback

\* The only step after which an ESME is forgotten that was not before.
LEMMA ForgottenStep ==
    ASSUME TypeOK, OneSessionInd, PursuitInd, [Next]_vars,
           NEW f \in Esmes, ~Forgotten(f), ~(ops.esme = f /\ DropConnect)
    PROVE  ~Forgotten(f)'
<1>. PursuitOf(f) /\ OneSessionOf(f)
  BY DEF PursuitInd, OneSessionInd
<1>. USE DEF TypeOK
<1>1. CASE PollEmpty
  BY <1>1 DEF PollEmpty, Goto, At, sessions, queues, NoRequests, Forgotten,
      Pursued, IsBound
<1>2. CASE DropConnect
  BY <1>2 DEF DropConnect, Goto, At, sessions, queues, Forgotten, Pursued,
      IsBound
<1>3. CASE DueConnect
  BY <1>3 DEF DueConnect, GotoWith, At, sessions, queues, Forgotten, Pursued,
      IsBound
<1>4. CASE Requeue
  BY <1>4 DEF Requeue, Goto, At, sessions, NoRequests, Forgotten, Pursued,
      IsBound
<1>5. CASE InitiateStopped
  BY <1>5 DEF InitiateStopped, Goto, At, sessions, queues, Forgotten, Pursued,
      IsBound
<1>6. CASE InitiateStarted
  BY <1>6 DEF InitiateStarted, GotoWith, At, sessions, queues, Forgotten,
      Pursued, IsBound
<1>7. CASE AlreadyBound
  <2>1. ~IsBinding(ops.esme)
    BY <1>7 DEF AlreadyBound, IsBinding, At, PursuitInd, PursuitOf, BusyPoints
  <2>2. ops.esme = f => IsBound(f)
    BY <1>7, <2>1 DEF AlreadyBound
  <2>. QED
    BY <1>7, <2>2 DEF AlreadyBound, sessions, queues, Forgotten, Pursued, IsBound, At
<1>8. CASE BindBegins
  BY <1>8 DEF BindBegins, At, queues, Unused, IsBinding, Forgotten, Pursued,
      IsBound
<1>9. CASE SessionSet
  BY <1>9, ClientAssumption DEF SessionSet, Goto, At, Forgotten, Pursued, IsBound, PursuitOf
<1>10. CASE PendingDone
  BY <1>10 DEF PendingDone, Goto, At, sessions, queues, Forgotten, Pursued,
      IsBound
<1>11. CASE EnquireCheck
  BY <1>11 DEF EnquireCheck, GotoWith, At, sessions, queues, Forgotten, Pursued,
      IsBound
<1>12. ASSUME NEW e \in Esmes, PollConnectStopped(e) PROVE ~Forgotten(f)'
  BY <1>12 DEF PollConnectStopped, Poll, At, GotoWith, sessions, Forgotten,
      Pursued, IsBound
<1>13. ASSUME NEW e \in Esmes, PollConnectLater(e) PROVE ~Forgotten(f)'
  BY <1>13 DEF PollConnectLater, Poll, At, sessions, Forgotten, Pursued, IsBound
<1>14. ASSUME NEW e \in Esmes, PollConnectDue(e) PROVE ~Forgotten(f)'
  BY <1>14 DEF PollConnectDue, Poll, At, GotoWith, sessions, Forgotten, Pursued,
      IsBound
<1>15. ASSUME NEW e \in Esmes, PollEnquireDropped(e) PROVE ~Forgotten(f)'
  BY <1>15 DEF PollEnquireDropped, Poll, At, sessions, Forgotten, Pursued,
      IsBound
<1>16. ASSUME NEW e \in Esmes, PollEnquireLater(e) PROVE ~Forgotten(f)'
  BY <1>16 DEF PollEnquireLater, Poll, At, sessions, Forgotten, Pursued, IsBound
<1>17. ASSUME NEW e \in Esmes, PollEnquireDue(e) PROVE ~Forgotten(f)'
  BY <1>17 DEF PollEnquireDue, Poll, At, sessions, Forgotten, Pursued, IsBound
<1>18. ASSUME NEW e \in Esmes, BindSucceeds(e) PROVE ~Forgotten(f)'
  BY <1>18 DEF BindSucceeds, At, queues, Forgotten, Pursued, IsBound
<1>19. ASSUME NEW e \in Esmes, BindFails(e) PROVE ~Forgotten(f)'
  BY <1>19 DEF BindFails, Close, ScheduleConnect, Offer, Goto, At, Forgotten,
      Pursued, IsBound
<1>20. ASSUME NEW e \in Esmes, EnquireTaken(e) PROVE ~Forgotten(f)'
  BY <1>20 DEF EnquireTaken, GotoWith, At, sessions, Forgotten, Pursued, IsBound
<1>21. ASSUME NEW e \in Esmes, EnquireSucceeds(e) PROVE ~Forgotten(f)'
  BY <1>21 DEF EnquireSucceeds, Offer, Goto, At, sessions, Forgotten, Pursued,
      IsBound
<1>22. ASSUME NEW e \in Esmes, EnquireFails(e) PROVE ~Forgotten(f)'
  BY <1>22 DEF EnquireFails, Close, ScheduleConnect, Offer, Goto, At, Forgotten,
      Pursued, IsBound
<1>23. ASSUME NEW e \in Esmes, EnquireNotBound(e) PROVE ~Forgotten(f)'
  <2>1. CASE f = e
    BY <1>23, <2>1 DEF EnquireNotBound, ScheduleConnect, Forgotten, Pursued
  <2>2. CASE f # e
    BY <1>23, <2>2, CloseCurrentOther DEF EnquireNotBound, ScheduleConnect, Goto, At,
        Forgotten, Pursued
  <2>. QED
    BY <2>1, <2>2
<1>24. ASSUME NEW e \in Esmes, StartEsme(e) PROVE ~Forgotten(f)'
  BY <1>24 DEF StartEsme, sessions, queues, Forgotten, Pursued, IsBound, At
<1>25. ASSUME NEW e \in Esmes, StartCAS(e) PROVE ~Forgotten(f)'
  BY <1>25 DEF StartCAS, sessions, queues, Forgotten, Pursued, IsBound, At
<1>26. ASSUME NEW e \in Esmes, StartOffer(e) PROVE ~Forgotten(f)'
  BY <1>26 DEF StartOffer, Offer, sessions, Forgotten, Pursued, IsBound, At
<1>27. ASSUME NEW e \in Esmes, StopEsme(e) PROVE ~Forgotten(f)'
  BY <1>27 DEF StopEsme, sessions, queues, FaultAllowed, Forgotten, Pursued,
      IsBound, At
<1>28. ASSUME NEW e \in Esmes, StopSession(e) PROVE ~Forgotten(f)'
  <2>1. CASE f = e
    BY <1>28, <2>1 DEF StopSession, Forgotten, PursuitOf
  <2>2. CASE f # e
    BY <1>28, <2>2, CloseCurrentOther DEF StopSession, Forgotten, Pursued
  <2>. QED
    BY <2>1, <2>2
<1>29. ASSUME NEW e \in Esmes, NEW s \in Slots, ChannelClosed(e, s)
       PROVE  ~Forgotten(f)'
  BY <1>29 DEF ChannelClosed, queues, FaultAllowed, Forgotten, Pursued, IsBound,
      At
<1>30. ASSUME NEW e \in Esmes, NEW s \in Slots, ChannelClosedReported(e, s)
       PROVE  ~Forgotten(f)'
  BY <1>30 DEF ChannelClosedReported, sessions, queues, Forgotten, Pursued,
      IsBound, At
<1>31. ASSUME NEW e \in Esmes, NEW s \in Slots, ExceptionCaught(e, s)
       PROVE  ~Forgotten(f)'
  BY <1>31 DEF ExceptionCaught, sessions, queues, FaultAllowed, Forgotten,
      Pursued, IsBound, At
<1>32. ASSUME NEW e \in Esmes, NEW s \in Slots, HandlerCloses(e, s)
       PROVE  ~Forgotten(f)'
  <2>1. CASE f = e
    BY <1>32, <2>1 DEF HandlerCloses, Forgotten, Pursued
  <2>2. CASE f # e
    BY <1>32, <2>2, CloseCurrentOther DEF HandlerCloses, Forgotten, Pursued
  <2>. QED
    BY <2>1, <2>2
<1>33. ASSUME NEW e \in Esmes, NEW s \in Slots, UndecodablePdu(e, s)
       PROVE  ~Forgotten(f)'
  BY <1>33 DEF UndecodablePdu, sessions, queues, FaultAllowed, Forgotten,
      Pursued, IsBound, At
<1>34. ASSUME NEW e \in Esmes, NEW s \in Slots, HandlerClosesUnchecked(e, s)
       PROVE  ~Forgotten(f)'
  <2>1. CASE f = e
    BY <1>34, <2>1 DEF HandlerClosesUnchecked, CloseCurrent, IsBound, Forgotten, Pursued
  <2>2. CASE f # e
    BY <1>34, <2>2, CloseCurrentOther DEF HandlerClosesUnchecked, Forgotten, Pursued
  <2>. QED
    BY <2>1, <2>2
<1>35. ASSUME NEW e \in Esmes, NEW s \in Slots, HandlerCAS(e, s)
       PROVE  ~Forgotten(f)'
  BY <1>35 DEF HandlerCAS, sessions, queues, Forgotten, Pursued, IsBound, At
<1>36. ASSUME NEW e \in Esmes, NEW s \in Slots, HandlerOffer(e, s)
       PROVE  ~Forgotten(f)'
  BY <1>36 DEF HandlerOffer, Offer, sessions, Forgotten, Pursued, IsBound, At
<1>37. CASE UNCHANGED vars
  BY <1>37 DEF vars, sessions, queues, Forgotten, Pursued, IsBound, At
<1>. QED
  BY <1>1, <1>2, <1>3, <1>4, <1>5, <1>6, <1>7, <1>8, <1>9, <1>10,
     <1>11, <1>12, <1>13, <1>14, <1>15, <1>16, <1>17, <1>18, <1>19, <1>20,
     <1>21, <1>22, <1>23, <1>24, <1>25, <1>26, <1>27, <1>28, <1>29, <1>30,
     <1>31, <1>32, <1>33, <1>34, <1>35, <1>36, <1>37
     DEF Next, OpsThread, Initiate, Drain, BindReturns, EnquireReturns, Administrator,
          AdminContinues, Fault, Callback

\* What the two theorems rest on.
LEMMA PursuitInvariant == Spec => [](TypeOK /\ OneSessionInd /\ PursuitInd)
<1>1. Init => OneSessionInd /\ PursuitInd
  <2>1. ASSUME Init, NEW e \in Esmes PROVE PursuitOf(e)
    BY <2>1 DEF Init, PursuitOf, At
  <2>. QED
    BY <2>1, InitOneSession DEF PursuitInd
<1>2. Spec => []TypeOK
  BY TypeCorrect
<1>. QED
  BY <1>1, <1>2, OneSessionStep, PursuitStep, PTL DEF Spec

(***************************************************************************)
(* The one way in which a started ESME is forgotten: a start while the     *)
(* operations thread drops its CONNECT.                                    *)
(***************************************************************************)
THEOREM ForgottenByDrop == Spec => ForgottenOnlyByDrop
<1>1. TypeOK /\ OneSessionInd /\ PursuitInd /\ [Next]_vars =>
        [\A e \in Esmes : Forgotten(e)' =>
            Forgotten(e) \/ (ops.esme = e /\ DropConnect)]_vars
  BY ForgottenStep
<1>. QED
  BY <1>1, PursuitInvariant, PTL DEF Spec, ForgottenOnlyByDrop

(***************************************************************************)
(* An ESME nobody stops is never forgotten.                                *)
(***************************************************************************)
THEOREM StartedIsPursued == Spec => []NeverForgotten
<1>1. Init => NeverForgotten
  BY DEF Init, NeverForgotten, Forgotten, Pursued
<1>2. TypeOK /\ OneSessionInd /\ PursuitInd /\ NeverForgotten /\ [Next]_vars
        => NeverForgotten'
  <2>. SUFFICES ASSUME TypeOK, OneSessionInd, PursuitInd, NeverForgotten, [Next]_vars,
                       NEW f \in Esmes \ Managed
                PROVE  ~Forgotten(f)'
    BY DEF NeverForgotten
  <2>1. ~Forgotten(f)
    BY DEF NeverForgotten
  <2>2. CASE ops.esme = f /\ DropConnect
    <3>1. ~started[f] /\ started' = started
      BY <2>2 DEF DropConnect, At, PursuitInd, PursuitOf
    <3>. QED
      BY <3>1 DEF Forgotten
  <2>. QED
    BY <2>1, <2>2, ForgottenStep
<1>. QED
  BY <1>1, <1>2, PursuitInvariant, PTL DEF Spec

=============================================================================
