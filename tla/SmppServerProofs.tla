-------------------------- MODULE SmppServerProofs --------------------------
(***************************************************************************)
(* Proofs about SmppServer, for every set of ESMEs, of peers and of        *)
(* connections, whichever of them match.                                   *)
(***************************************************************************)
EXTENDS SmppServer, TLAPS

-----------------------------------------------------------------------------
(***************************************************************************)
(* Type correctness.                                                       *)
(***************************************************************************)
\* close() leaves the session objects well typed.
LEMMA CloseType ==
    ASSUME TypeOK, NEW s \in Sessions, Close(s)
    PROVE  /\ state' \in [Sessions -> SessionStates]
           /\ channel' \in [Sessions -> BOOLEAN]
  BY DEF TypeOK, Close, SessionStates

\* Every step of every thread preserves the type invariant.
LEMMA TypeStep == TypeOK /\ [Next]_vars => TypeOK'
<1>. SUFFICES ASSUME TypeOK, [Next]_vars PROVE TypeOK'
  OBVIOUS
<1>. USE ServerAssumption DEF TypeOK
<1>1. ASSUME NEW s \in Sessions, NEW p \in Peers, Connect(s, p) PROVE TypeOK'
  BY <1>1 DEF Connect, Unused, bindings, enquiries, opsVars, managed,
      SessionStates, IOPoints, OpsPoints, OpsStates, AdminPoints
<1>2. ASSUME NEW s \in Sessions, Disconnect(s) PROVE TypeOK'
  BY <1>2 DEF Disconnect, bindings, enquiries, opsVars, managed,
      SessionStates, IOPoints, OpsPoints, OpsStates, AdminPoints
<1>3. ASSUME NEW s \in Sessions, BindRejected(s) PROVE TypeOK'
  BY <1>3 DEF BindRejected, SemaphoreFree, Close, bindings, enquiries,
      opsVars, managed, SessionStates, IOPoints, OpsPoints, OpsStates,
      AdminPoints
<1>4. ASSUME NEW s \in Sessions, NEW e \in Esmes, BindAccepted(s, e)
       PROVE  TypeOK'
  BY <1>4 DEF BindAccepted, SemaphoreFree, enquiries, opsVars, managed,
      SessionStates, IOPoints, OpsPoints, OpsStates, AdminPoints
<1>5. ASSUME NEW s \in Sessions, SessionRefused(s) PROVE TypeOK'
  BY <1>5 DEF SessionRefused, SemaphoreFree, bindings, enquiries, opsVars,
      managed, SessionStates, IOPoints, OpsPoints, OpsStates, AdminPoints
<1>6. ASSUME NEW s \in Sessions, SetSmppSession(s) PROVE TypeOK'
  BY <1>6 DEF SetSmppSession, SemaphoreFree, enquiries, opsVars, managed,
      SessionStates, IOPoints, OpsPoints, OpsStates, AdminPoints
<1>7. ASSUME NEW s \in Sessions, ServerReady(s) PROVE TypeOK'
  BY <1>7 DEF ServerReady, bindings, enquiries, opsVars, managed,
      SessionStates, IOPoints, OpsPoints, OpsStates, AdminPoints
<1>8. ASSUME NEW s \in Sessions, SetServerBound(s) PROVE TypeOK'
  BY <1>8 DEF SetServerBound, bindings, opsVars, managed, SessionStates,
      IOPoints, OpsPoints, OpsStates, AdminPoints
<1>9. ASSUME NEW s \in Sessions, ScheduleFirst(s) PROVE TypeOK'
  BY <1>9 DEF ScheduleFirst, bindings, opsVars, managed, SessionStates,
      IOPoints, OpsPoints, OpsStates, AdminPoints
<1>10. ASSUME NEW s \in Sessions, SessionDestroyed(s) PROVE TypeOK'
  BY <1>10 DEF SessionDestroyed, SemaphoreFree, bindings, opsVars, managed,
      SessionStates, IOPoints, OpsPoints, OpsStates, AdminPoints
<1>11. ASSUME NEW s \in Sessions, SessionDestroyedThrows(s) PROVE TypeOK'
  BY <1>11 DEF SessionDestroyedThrows, SemaphoreFree, bindings, enquiries,
      opsVars, managed, SessionStates, IOPoints, OpsPoints, OpsStates,
      AdminPoints
<1>12. ASSUME NEW due \in SUBSET Esmes, Scan(due) PROVE TypeOK'
  BY <1>12 DEF Scan, At, Eligible, Goto, connections, bindings, managed,
      SessionStates, IOPoints, OpsPoints, OpsStates, AdminPoints
<1>13. CASE ScanThrows
  BY <1>13 DEF ScanThrows, At, connections, bindings, opsVars, managed,
      SessionStates, IOPoints, OpsPoints, OpsStates, AdminPoints
<1>14. CASE PendingDone
  BY <1>14 DEF PendingDone, At, Goto, connections, bindings, enquiries,
      managed, SessionStates, IOPoints, OpsPoints, OpsStates, AdminPoints
<1>15. CASE EnquireAnswered
  BY <1>15 DEF EnquireAnswered, At, connections, bindings, managed,
      SessionStates, IOPoints, OpsPoints, OpsStates, AdminPoints
<1>16. CASE ScheduleNext
  BY <1>16 DEF ScheduleNext, At, connections, bindings, managed,
      SessionStates, IOPoints, OpsPoints, OpsStates, AdminPoints
<1>17. CASE EnquireException
  BY <1>17 DEF EnquireException, At, connections, bindings, managed,
      SessionStates, IOPoints, OpsPoints, OpsStates, AdminPoints
<1>18. CASE CheckFailed
  <2>1. ops.session \in Sessions
    BY <1>18 DEF CheckFailed, At
  <2>2. /\ state' \in [Sessions -> SessionStates]
        /\ channel' \in [Sessions -> BOOLEAN]
    BY <1>18, <2>1, CloseType DEF CheckFailed
  <2>. QED
    BY <1>18, <2>2 DEF CheckFailed, At, Goto, bindings, enquiries, managed,
        IOPoints, OpsPoints, OpsStates, AdminPoints
<1>19. CASE CloseNotBound
  BY <1>19 DEF CloseNotBound, At, Close, Goto, bindings, enquiries, managed,
      SessionStates, IOPoints, OpsPoints, OpsStates, AdminPoints
<1>20. ASSUME NEW e \in Esmes, EnquireLink(e) PROVE TypeOK'
  BY <1>20 DEF EnquireLink, At, connections, bindings, enquiries, managed,
      SessionStates, IOPoints, OpsPoints, OpsStates, AdminPoints
<1>21. ASSUME NEW e \in Esmes, StartEsme(e) PROVE TypeOK'
  BY <1>21 DEF StartEsme, connections, bindings, enquiries, opsVars,
      SessionStates, IOPoints, OpsPoints, OpsStates, AdminPoints
<1>22. ASSUME NEW e \in Esmes, StopEsme(e) PROVE TypeOK'
  BY <1>22 DEF StopEsme, connections, bindings, enquiries, opsVars,
      SessionStates, IOPoints, OpsPoints, OpsStates, AdminPoints
<1>23. ASSUME NEW e \in Esmes, StopSession(e) PROVE TypeOK'
  <2>1. state' \in [Sessions -> SessionStates] /\ channel' \in [Sessions -> BOOLEAN]
    <3>1. CASE session[e] = NoSession
      BY <1>23, <3>1 DEF StopSession
    <3>2. CASE session[e] # NoSession
      BY <1>23, <3>2, CloseType DEF StopSession
    <3>. QED
      BY <3>1, <3>2
  <2>2. admin' \in [Esmes -> AdminPoints]
    BY <1>23 DEF StopSession, AdminPoints
  <2>. QED
    BY <1>23, <2>1, <2>2 DEF StopSession, bindings, enquiries, opsVars
<1>24. ASSUME NEW e \in Esmes, DestroyEsme(e) PROVE TypeOK'
  BY <1>24 DEF DestroyEsme, connections, bindings, enquiries, opsVars,
      SessionStates, IOPoints, OpsPoints, OpsStates, AdminPoints
<1>26. ASSUME NEW s \in Sessions, ResetEnquireLinkFail(s) PROVE TypeOK'
  BY <1>26 DEF ResetEnquireLinkFail, bindings, opsVars, managed,
      SessionStates, IOPoints, OpsPoints, OpsStates, AdminPoints
<1>27. ASSUME NEW s \in Sessions, RemoveEnquireList(s) PROVE TypeOK'
  BY <1>27 DEF RemoveEnquireList, bindings, opsVars, managed,
      SessionStates, IOPoints, OpsPoints, OpsStates, AdminPoints
<1>28. ASSUME NEW s \in Sessions, BackToClosed(s) PROVE TypeOK'
  BY <1>28 DEF BackToClosed, enquiries, opsVars, managed,
      SessionStates, IOPoints, OpsPoints, OpsStates, AdminPoints
<1>25. CASE UNCHANGED vars
  BY <1>25 DEF vars, connections, bindings, enquiries, opsVars, managed
<1>. QED
  BY <1>1, <1>2, <1>3, <1>4, <1>5, <1>6, <1>7, <1>8, <1>9, <1>10, <1>11,
     <1>12, <1>13, <1>14, <1>15, <1>16, <1>17, <1>18, <1>19, <1>20, <1>21,
     <1>22, <1>23, <1>24, <1>25, <1>26, <1>27, <1>28
     DEF Next, Network, Bind, Unbind, OpsThread, Enquire, Administrator

(***************************************************************************)
(* Every variable keeps its type; in particular the operations thread      *)
(* never follows a null reference to a session.                            *)
(***************************************************************************)
THEOREM TypeCorrect == Spec => []TypeOK
<1>1. Init => TypeOK
  BY DEF Init, TypeOK, SessionStates, IOPoints, OpsPoints, OpsStates, AdminPoints
<1>. QED
  BY <1>1, TypeStep, PTL DEF Spec

-----------------------------------------------------------------------------
(***************************************************************************)
(* One holder of a pooled ESME.                                            *)
(***************************************************************************)
\* What the holders of an ESME depend on.
held == <<io, esme, bindings>>

\* A step of the network, the operations thread or an administrator.
Aside ==
    \/ \E s \in Sessions : Disconnect(s)
    \/ OpsThread
    \/ \E e \in Esmes : Administrator(e)

\* None of them changes who holds what.
LEMMA AsideHeld == Aside => UNCHANGED held
<1>. SUFFICES ASSUME Aside PROVE UNCHANGED held
  OBVIOUS
<1>1. ASSUME NEW s \in Sessions, Disconnect(s) PROVE UNCHANGED held
  BY <1>1 DEF held, Disconnect
<1>2. ASSUME NEW due \in SUBSET Esmes, Scan(due) PROVE UNCHANGED held
  BY <1>2 DEF held, Scan, connections
<1>3. CASE ScanThrows
  BY <1>3 DEF held, ScanThrows, connections
<1>4. CASE PendingDone
  BY <1>4 DEF held, PendingDone, connections
<1>5. CASE EnquireAnswered
  BY <1>5 DEF held, EnquireAnswered, connections
<1>6. CASE ScheduleNext
  BY <1>6 DEF held, ScheduleNext, connections
<1>7. CASE EnquireException
  BY <1>7 DEF held, EnquireException, connections
<1>8. CASE CheckFailed
  BY <1>8 DEF held, CheckFailed
<1>9. CASE CloseNotBound
  BY <1>9 DEF held, CloseNotBound
<1>10. ASSUME NEW e \in Esmes, EnquireLink(e) PROVE UNCHANGED held
  BY <1>10 DEF held, EnquireLink, connections
<1>11. ASSUME NEW e \in Esmes, StartEsme(e) PROVE UNCHANGED held
  BY <1>11 DEF held, StartEsme, connections
<1>12. ASSUME NEW e \in Esmes, StopEsme(e) PROVE UNCHANGED held
  BY <1>12 DEF held, StopEsme, connections
<1>13. ASSUME NEW e \in Esmes, StopSession(e) PROVE UNCHANGED held
  BY <1>13 DEF held, StopSession
<1>14. ASSUME NEW e \in Esmes, DestroyEsme(e) PROVE UNCHANGED held
  BY <1>14 DEF held, DestroyEsme, connections
<1>. QED
  BY <1>1, <1>2, <1>3, <1>4, <1>5, <1>6, <1>7, <1>8, <1>9, <1>10, <1>11,
     <1>12, <1>13, <1>14
     DEF Aside, OpsThread, Enquire, Administrator

\* Every step preserves the inductive form of OneHolder.
LEMMA HolderStep == TypeOK /\ HolderInd /\ [Next]_vars => HolderInd'
<1>. SUFFICES ASSUME TypeOK, HolderInd, [Next]_vars, NEW f \in Pooled
              PROVE  HolderOf(f)'
  BY DEF HolderInd, Pooled
<1>. HolderOf(f)
  BY DEF HolderInd
<1>. io \in [Sessions -> IOPoints] /\ esme \in [Sessions -> Esmes \cup {NoSession}]
  BY DEF TypeOK
<1>. f \in Esmes /\ \A p \in Peers : f \notin Exact[p]
  BY DEF Pooled
<1>1. CASE Aside
  BY <1>1, AsideHeld DEF held, bindings, HolderOf, Holders
<1>2. ASSUME NEW s \in Sessions, NEW p \in Peers, Connect(s, p)
       PROVE  HolderOf(f)'
  BY <1>2 DEF Connect, Unused, bindings, HolderOf, Holders
<1>3. ASSUME NEW s \in Sessions, BindRejected(s) PROVE HolderOf(f)'
  BY <1>3 DEF BindRejected, bindings, HolderOf, Holders
<1>4. ASSUME NEW s \in Sessions, NEW e \in Esmes, BindAccepted(s, e)
       PROVE  HolderOf(f)'
  <2>1. /\ io' = [io EXCEPT ![s] = "admitted"] /\ io[s] = "connected"
        /\ esme' = [esme EXCEPT ![s] = e]
        /\ localState' = [localState EXCEPT ![e] = "INITIAL"]
    BY <1>4 DEF BindAccepted
  <2>2. CASE e = f
    <3>1. localState[f] = "CLOSED"
      BY <1>4, <2>2, ServerAssumption DEF BindAccepted, Candidates, TypeOK
    <3>. QED
      BY <2>1, <2>2, <3>1 DEF HolderOf, Holders, TypeOK
  <2>3. CASE e # f
    BY <2>1, <2>3 DEF HolderOf, Holders, TypeOK
  <2>. QED
    BY <2>2, <2>3
<1>5. ASSUME NEW s \in Sessions, SessionRefused(s) PROVE HolderOf(f)'
  BY <1>5 DEF SessionRefused, bindings, HolderOf, Holders
<1>6. ASSUME NEW s \in Sessions, SetSmppSession(s) PROVE HolderOf(f)'
  BY <1>6 DEF SetSmppSession, HolderOf, Holders
<1>7. ASSUME NEW s \in Sessions, ServerReady(s) PROVE HolderOf(f)'
  BY <1>7 DEF ServerReady, bindings, HolderOf, Holders
<1>8. ASSUME NEW s \in Sessions, SetServerBound(s) PROVE HolderOf(f)'
  BY <1>8 DEF SetServerBound, bindings, HolderOf, Holders
<1>9. ASSUME NEW s \in Sessions, ScheduleFirst(s) PROVE HolderOf(f)'
  BY <1>9 DEF ScheduleFirst, bindings, HolderOf, Holders
<1>10. ASSUME NEW s \in Sessions, SessionDestroyed(s) PROVE HolderOf(f)'
  BY <1>10 DEF SessionDestroyed, bindings, HolderOf, Holders
<1>11. ASSUME NEW s \in Sessions, SessionDestroyedThrows(s) PROVE HolderOf(f)'
  BY <1>11 DEF SessionDestroyedThrows, bindings, HolderOf, Holders
<1>13. ASSUME NEW s \in Sessions, ResetEnquireLinkFail(s) PROVE HolderOf(f)'
  BY <1>13 DEF ResetEnquireLinkFail, bindings, HolderOf, Holders
<1>14. ASSUME NEW s \in Sessions, RemoveEnquireList(s) PROVE HolderOf(f)'
  BY <1>14 DEF RemoveEnquireList, bindings, HolderOf, Holders
<1>15. ASSUME NEW s \in Sessions, BackToClosed(s) PROVE HolderOf(f)'
  <2>1. /\ io' = [io EXCEPT ![s] = "free"] /\ io[s] = "removed"
        /\ localState' = [localState EXCEPT ![esme[s]] = "CLOSED"]
        /\ UNCHANGED esme
    BY <1>15 DEF BackToClosed
  <2>2. CASE esme[s] = f
    <3>1. Holders(f) = {s}
      BY <2>1, <2>2 DEF HolderOf, Holders
    <3>. QED
      BY <2>1, <2>2, <3>1 DEF HolderOf, Holders, TypeOK
  <2>3. CASE esme[s] # f
    BY <2>1, <2>3 DEF HolderOf, Holders, TypeOK
  <2>. QED
    BY <2>2, <2>3
<1>12. CASE UNCHANGED vars
  BY <1>12 DEF vars, connections, bindings, HolderOf, Holders
<1>. QED
  BY <1>1, <1>2, <1>3, <1>4, <1>5, <1>6, <1>7, <1>8, <1>9, <1>10, <1>11, <1>12,
     <1>13, <1>14, <1>15
     DEF Next, Network, Bind, Unbind, Aside

\* At start no ESME has a holder.
LEMMA InitHolder == Init => HolderInd
<1>. SUFFICES ASSUME Init, NEW e \in Pooled PROVE HolderOf(e)
  BY DEF HolderInd
<1>1. Holders(e) = {}
  BY DEF Init, Holders
<1>. QED
  BY <1>1 DEF HolderOf

(***************************************************************************)
(* A pooled ESME is never given to two connections at a time.              *)
(***************************************************************************)
THEOREM HolderUnique == Spec => []OneHolder
<1>1. HolderInd => OneHolder
  BY DEF HolderInd, HolderOf, OneHolder
<1>. QED
  BY <1>1, InitHolder, HolderStep, TypeCorrect, PTL DEF Spec

-----------------------------------------------------------------------------
(***************************************************************************)
(* The session a pooled ESME refers to.                                    *)
(***************************************************************************)
\* Closing a session object opens none.
LEMMA CloseCloses ==
    ASSUME TypeOK, NEW s \in Sessions, Close(s)
    PROVE  \A t \in Sessions : state[t] = "CLOSED" => state'[t] = "CLOSED"
  BY DEF TypeOK, Close

\* The administrators, the operations thread and the network may close sessions
\* and destroy ESMEs, but not pooled ones.
LEMMA AsideSession ==
    ASSUME TypeOK, Aside
    PROVE  /\ \A t \in Sessions : state[t] = "CLOSED" => state'[t] = "CLOSED"
           /\ \A f \in Pooled \cap esmes : f \in esmes'
<1>1. ASSUME NEW s \in Sessions, Disconnect(s)
       PROVE  /\ \A t \in Sessions : state[t] = "CLOSED" => state'[t] = "CLOSED"
              /\ \A f \in Pooled \cap esmes : f \in esmes'
  BY <1>1 DEF Disconnect, managed
<1>2. ASSUME NEW due \in SUBSET Esmes, Scan(due)
       PROVE  /\ \A t \in Sessions : state[t] = "CLOSED" => state'[t] = "CLOSED"
              /\ \A f \in Pooled \cap esmes : f \in esmes'
  BY <1>2 DEF Scan, connections, managed
<1>3. CASE ScanThrows
  BY <1>3 DEF ScanThrows, connections, managed
<1>4. CASE PendingDone
  BY <1>4 DEF PendingDone, connections, managed
<1>5. CASE EnquireAnswered
  BY <1>5 DEF EnquireAnswered, connections, managed
<1>6. CASE ScheduleNext
  BY <1>6 DEF ScheduleNext, connections, managed
<1>7. CASE EnquireException
  BY <1>7 DEF EnquireException, connections, managed
<1>8. CASE CheckFailed
  BY <1>8, CloseCloses DEF TypeOK, CheckFailed, At, managed
<1>9. CASE CloseNotBound
  BY <1>9, CloseCloses DEF TypeOK, CloseNotBound, At, managed
<1>10. ASSUME NEW e \in Esmes, EnquireLink(e)
       PROVE  /\ \A t \in Sessions : state[t] = "CLOSED" => state'[t] = "CLOSED"
              /\ \A f \in Pooled \cap esmes : f \in esmes'
  BY <1>10 DEF EnquireLink, connections, managed
<1>11. ASSUME NEW e \in Esmes, StartEsme(e)
       PROVE  /\ \A t \in Sessions : state[t] = "CLOSED" => state'[t] = "CLOSED"
              /\ \A f \in Pooled \cap esmes : f \in esmes'
  BY <1>11 DEF StartEsme, connections
<1>12. ASSUME NEW e \in Esmes, StopEsme(e)
       PROVE  /\ \A t \in Sessions : state[t] = "CLOSED" => state'[t] = "CLOSED"
              /\ \A f \in Pooled \cap esmes : f \in esmes'
  BY <1>12 DEF StopEsme, connections
<1>13. ASSUME NEW e \in Esmes, StopSession(e)
       PROVE  /\ \A t \in Sessions : state[t] = "CLOSED" => state'[t] = "CLOSED"
              /\ \A f \in Pooled \cap esmes : f \in esmes'
  BY <1>13, CloseCloses DEF TypeOK, StopSession, At, managed
<1>14. ASSUME NEW e \in Esmes, DestroyEsme(e)
       PROVE  /\ \A t \in Sessions : state[t] = "CLOSED" => state'[t] = "CLOSED"
              /\ \A f \in Pooled \cap esmes : f \in esmes'
  BY <1>14 DEF DestroyEsme, connections, Pooled
<1>. QED
  BY <1>1, <1>2, <1>3, <1>4, <1>5, <1>6, <1>7, <1>8, <1>9, <1>10, <1>11,
     <1>12, <1>13, <1>14
     DEF Aside, OpsThread, Enquire, Administrator

\* Every step preserves the inductive form of NoOrphan and FreeIsClosed.
LEMMA SessionStep == TypeOK /\ HolderInd /\ SessionInd /\ [Next]_vars => SessionInd'
<1>. SUFFICES ASSUME TypeOK, HolderInd, SessionInd, [Next]_vars, NEW f \in Pooled
              PROVE  SessionOf(f)'
  BY DEF SessionInd, Pooled
<1>. SessionOf(f) /\ HolderOf(f) /\ f \in Esmes
  BY DEF SessionInd, HolderInd, Pooled
<1>. /\ io \in [Sessions -> IOPoints] /\ esme \in [Sessions -> Esmes \cup {NoSession}]
     /\ state \in [Sessions -> SessionStates]
     /\ session \in [Esmes -> Sessions \cup {NoSession}]
     /\ localState \in [Esmes -> {"CLOSED", "INITIAL"}]
     /\ stateName \in [Esmes -> {"CLOSED", "INITIAL"}]
  BY DEF TypeOK
<1>. NoSession \notin Sessions
  BY ServerAssumption
<1>1. CASE Aside
  BY <1>1, AsideHeld, AsideSession DEF held, bindings, SessionOf, Created, InCallback
<1>2. ASSUME NEW s \in Sessions, NEW p \in Peers, Connect(s, p)
       PROVE  SessionOf(f)'
  BY <1>2 DEF Connect, Unused, bindings, managed, SessionOf, Created, InCallback
<1>3. ASSUME NEW s \in Sessions, BindRejected(s) PROVE SessionOf(f)'
  BY <1>3 DEF BindRejected, Close, bindings, managed, SessionOf, Created, InCallback
<1>4. ASSUME NEW s \in Sessions, NEW e \in Esmes, BindAccepted(s, e)
       PROVE  SessionOf(f)'
  BY <1>4 DEF BindAccepted, managed, SessionOf, Created, InCallback
<1>5. ASSUME NEW s \in Sessions, SessionRefused(s) PROVE SessionOf(f)'
  BY <1>5 DEF SessionRefused, bindings, managed, SessionOf, Created, InCallback
<1>6. ASSUME NEW s \in Sessions, SetSmppSession(s) PROVE SessionOf(f)'
  <2>1. \A t \in Sessions : Created(t) /\ esme[t] = f /\ esme[s] = f => t = s
    BY <1>6 DEF SetSmppSession, HolderOf, Holders, Created, InCallback
  <2>. QED
    BY <1>6, <2>1 DEF SetSmppSession, managed, SessionOf, Created, InCallback
<1>7. ASSUME NEW s \in Sessions, ServerReady(s) PROVE SessionOf(f)'
  BY <1>7 DEF ServerReady, bindings, managed, SessionOf, Created, InCallback
<1>8. ASSUME NEW s \in Sessions, SetServerBound(s) PROVE SessionOf(f)'
  BY <1>8 DEF SetServerBound, bindings, managed, SessionOf, Created, InCallback
<1>9. ASSUME NEW s \in Sessions, ScheduleFirst(s) PROVE SessionOf(f)'
  BY <1>9 DEF ScheduleFirst, bindings, managed, SessionOf, Created, InCallback
<1>10. ASSUME NEW s \in Sessions, SessionDestroyed(s) PROVE SessionOf(f)'
  BY <1>10 DEF SessionDestroyed, bindings, managed, SessionOf, Created, InCallback
<1>11. ASSUME NEW s \in Sessions, SessionDestroyedThrows(s)
       PROVE  SessionOf(f)'
  BY <1>11 DEF SessionDestroyedThrows, bindings, managed, SessionOf, Created, InCallback
<1>13. ASSUME NEW s \in Sessions, ResetEnquireLinkFail(s) PROVE SessionOf(f)'
  BY <1>13 DEF ResetEnquireLinkFail, bindings, managed, SessionOf, Created, InCallback
<1>14. ASSUME NEW s \in Sessions, RemoveEnquireList(s) PROVE SessionOf(f)'
  BY <1>14 DEF RemoveEnquireList, bindings, managed, SessionOf, Created, InCallback
<1>15. ASSUME NEW s \in Sessions, BackToClosed(s) PROVE SessionOf(f)'
  <2>1. esme[s] = f => session[f] = s
    BY <1>15 DEF BackToClosed, SessionOf, Created, InCallback
  <2>. QED
    BY <1>15, <2>1 DEF BackToClosed, managed, SessionOf, Created, InCallback
<1>12. CASE UNCHANGED vars
  BY <1>12 DEF vars, connections, bindings, managed, SessionOf, Created, InCallback
<1>. QED
  BY <1>1, <1>2, <1>3, <1>4, <1>5, <1>6, <1>7, <1>8, <1>9, <1>10, <1>11, <1>12,
     <1>13, <1>14, <1>15
     DEF Next, Network, Bind, Unbind, Aside

\* At start no ESME refers to a session.
LEMMA InitSession == Init => SessionInd
  BY ServerAssumption DEF Init, SessionInd, SessionOf, Created, InCallback, Pooled

(***************************************************************************)
(* The connection served for a pooled ESME is the one that stopEsme and    *)
(* the operations thread find in its Esme object.                          *)
(***************************************************************************)
THEOREM NeverOrphaned == Spec => []NoOrphan
<1>1. SessionInd => NoOrphan
  BY DEF SessionInd, SessionOf, Created, InCallback, NoOrphan
<1>. QED
  BY <1>1, InitHolder, HolderStep, InitSession, SessionStep, TypeCorrect, PTL DEF Spec

(***************************************************************************)
(* A pooled ESME that the search finds free is not refused as bound.       *)
(***************************************************************************)
THEOREM FreeIsBindable == Spec => []FreeIsClosed
<1>1. TypeOK /\ HolderInd /\ SessionInd => FreeIsClosed
  <2>. SUFFICES ASSUME TypeOK, HolderInd, SessionInd, NEW e \in Pooled,
                       localState[e] = "CLOSED"
                PROVE  StateName(e) = "CLOSED"
    BY DEF FreeIsClosed
  <2>1. SessionOf(e) /\ Holders(e) = {} /\ e \in Esmes
    BY DEF SessionInd, HolderInd, HolderOf, Pooled
  <2>2. CASE session[e] = NoSession
    BY <2>1, <2>2 DEF SessionOf, StateName
  <2>3. CASE session[e] # NoSession
    <3>1. session[e] \in Sessions
      BY <2>1, <2>3 DEF TypeOK
    <3>2. io[session[e]] = "free"
      BY <2>1, <3>1 DEF SessionOf, Holders, Created, InCallback
    <3>. QED
      BY <2>1, <2>3, <3>1, <3>2 DEF SessionOf, StateName
  <2>. QED
    BY <2>2, <2>3
<1>. QED
  BY <1>1, InitHolder, HolderStep, InitSession, SessionStep, TypeCorrect, PTL DEF Spec

-----------------------------------------------------------------------------
(***************************************************************************)
(* What is held is held by a connection.                                   *)
(***************************************************************************)
\* Only the I/O threads take the semaphore and give it back.
LEMMA AsideSemaphore == Aside => UNCHANGED accessSemaphore
  BY DEF Aside, Disconnect, OpsThread, Enquire, Administrator, Scan, ScanThrows,
         PendingDone, EnquireLink, EnquireAnswered, ScheduleNext, EnquireException,
         CheckFailed, CloseNotBound, StartEsme, StopEsme, StopSession, DestroyEsme

\* An ESME marked as taken has a holder, and the semaphore an owner, after every
\* step.
LEMMA HeldStep ==
    TypeOK /\ SessionInd /\ HeldBySomeone /\ [Next]_vars => HeldBySomeone'
<1>. SUFFICES ASSUME TypeOK, SessionInd, HeldBySomeone, [Next]_vars
              PROVE  HeldBySomeone'
  OBVIOUS
<1>. DEFINE Held(f) == localState[f] # "CLOSED" => Holders(f) # {}
            Owned == \A s \in Sessions : InCallback(s) <=> accessSemaphore = s
<1>. (\A f \in Pooled : Held(f)) /\ Owned
  BY DEF HeldBySomeone
<1>. /\ io \in [Sessions -> IOPoints] /\ esme \in [Sessions -> Esmes \cup {NoSession}]
     /\ localState \in [Esmes -> {"CLOSED", "INITIAL"}]
     /\ NoSession \notin Sessions
  BY ServerAssumption DEF TypeOK
<1>1. ASSUME NEW f \in Pooled PROVE Held(f)'
  <2>. Held(f) /\ f \in Esmes /\ f \in esmes
    BY DEF SessionInd, SessionOf, Pooled
  <2>1. CASE Aside
    BY <2>1, AsideHeld DEF held, bindings, Holders
  <2>2. ASSUME NEW s \in Sessions, NEW p \in Peers, Connect(s, p)
         PROVE  Held(f)'
    BY <2>2 DEF Connect, Unused, bindings, Holders
  <2>3. ASSUME NEW s \in Sessions, BindRejected(s) PROVE Held(f)'
    BY <2>3 DEF BindRejected, bindings, Holders
  <2>4. ASSUME NEW s \in Sessions, NEW e \in Esmes, BindAccepted(s, e)
         PROVE  Held(f)'
    BY <2>4 DEF BindAccepted, Holders
  <2>5. ASSUME NEW s \in Sessions, SessionRefused(s) PROVE Held(f)'
    BY <2>5 DEF SessionRefused, bindings, Holders
  <2>6. ASSUME NEW s \in Sessions, SetSmppSession(s) PROVE Held(f)'
    BY <2>6 DEF SetSmppSession, SemaphoreFree, Holders
  <2>7. ASSUME NEW s \in Sessions, ServerReady(s) PROVE Held(f)'
    BY <2>7 DEF ServerReady, bindings, Holders
  <2>8. ASSUME NEW s \in Sessions, SetServerBound(s) PROVE Held(f)'
    BY <2>8 DEF SetServerBound, bindings, Holders
  <2>9. ASSUME NEW s \in Sessions, ScheduleFirst(s) PROVE Held(f)'
    BY <2>9 DEF ScheduleFirst, bindings, Holders
  <2>10. ASSUME NEW s \in Sessions, SessionDestroyed(s) PROVE Held(f)'
    BY <2>10 DEF SessionDestroyed, SemaphoreFree, bindings, Holders
  <2>11. ASSUME NEW s \in Sessions, SessionDestroyedThrows(s)
         PROVE  Held(f)'
    BY <2>11 DEF SessionDestroyedThrows, bindings, Holders
  <2>13. ASSUME NEW s \in Sessions, ResetEnquireLinkFail(s) PROVE Held(f)'
    BY <2>13 DEF ResetEnquireLinkFail, bindings, Holders
  <2>14. ASSUME NEW s \in Sessions, RemoveEnquireList(s) PROVE Held(f)'
    BY <2>14 DEF RemoveEnquireList, bindings, Holders
  <2>15. ASSUME NEW s \in Sessions, BackToClosed(s) PROVE Held(f)'
    BY <2>15 DEF BackToClosed, Holders
  <2>12. CASE UNCHANGED vars
    BY <2>12 DEF vars, connections, bindings, Holders
  <2>. QED
    BY <2>1, <2>2, <2>3, <2>4, <2>5, <2>6, <2>7, <2>8, <2>9, <2>10, <2>11, <2>12,
       <2>13, <2>14, <2>15
       DEF Next, Network, Bind, Unbind, Aside
<1>2. Owned'
  <2>1. CASE Aside
    BY <2>1, AsideHeld, AsideSemaphore DEF held, InCallback
  <2>2. ASSUME NEW s \in Sessions, NEW p \in Peers, Connect(s, p)
         PROVE  Owned'
    BY <2>2 DEF Connect, Unused, bindings, InCallback
  <2>3. ASSUME NEW s \in Sessions, BindRejected(s) PROVE Owned'
    BY <2>3 DEF BindRejected, bindings, InCallback
  <2>4. ASSUME NEW s \in Sessions, NEW e \in Esmes, BindAccepted(s, e)
         PROVE  Owned'
    BY <2>4 DEF BindAccepted, InCallback
  <2>5. ASSUME NEW s \in Sessions, SessionRefused(s) PROVE Owned'
    BY <2>5 DEF SessionRefused, bindings, InCallback
  <2>6. ASSUME NEW s \in Sessions, SetSmppSession(s) PROVE Owned'
    BY <2>6 DEF SetSmppSession, SemaphoreFree, InCallback
  <2>7. ASSUME NEW s \in Sessions, ServerReady(s) PROVE Owned'
    BY <2>7 DEF ServerReady, bindings, InCallback
  <2>8. ASSUME NEW s \in Sessions, SetServerBound(s) PROVE Owned'
    BY <2>8 DEF SetServerBound, bindings, InCallback
  <2>9. ASSUME NEW s \in Sessions, ScheduleFirst(s) PROVE Owned'
    BY <2>9 DEF ScheduleFirst, bindings, InCallback
  <2>10. ASSUME NEW s \in Sessions, SessionDestroyed(s) PROVE Owned'
    BY <2>10 DEF SessionDestroyed, SemaphoreFree, bindings, InCallback
  <2>11. ASSUME NEW s \in Sessions, SessionDestroyedThrows(s)
         PROVE  Owned'
    BY <2>11 DEF SessionDestroyedThrows, bindings, InCallback
  <2>13. ASSUME NEW s \in Sessions, ResetEnquireLinkFail(s) PROVE Owned'
    BY <2>13 DEF ResetEnquireLinkFail, bindings, InCallback
  <2>14. ASSUME NEW s \in Sessions, RemoveEnquireList(s) PROVE Owned'
    BY <2>14 DEF RemoveEnquireList, bindings, InCallback
  <2>15. ASSUME NEW s \in Sessions, BackToClosed(s) PROVE Owned'
    BY <2>15 DEF BackToClosed, InCallback
  <2>12. CASE UNCHANGED vars
    BY <2>12 DEF vars, connections, bindings, InCallback
  <2>. QED
    BY <2>1, <2>2, <2>3, <2>4, <2>5, <2>6, <2>7, <2>8, <2>9, <2>10, <2>11, <2>12,
       <2>13, <2>14, <2>15
       DEF Next, Network, Bind, Unbind, Aside
<1>. QED
  BY <1>1, <1>2 DEF HeldBySomeone, Pooled

(***************************************************************************)
(* No ESME leaves the pool, and no callback keeps the others out, without  *)
(* a connection that will give it back.                                    *)
(***************************************************************************)
THEOREM NothingLeaks == Spec => []HeldBySomeone
<1>1. Init => HeldBySomeone
  BY ServerAssumption DEF Init, HeldBySomeone, InCallback, Pooled
<1>. QED
  BY <1>1, InitHolder, HolderStep, InitSession, SessionStep, HeldStep, TypeCorrect,
     PTL DEF Spec

-----------------------------------------------------------------------------
(***************************************************************************)
(* Supervision.                                                            *)
(***************************************************************************)
\* Outside the I/O threads, an ESME nobody stops stays started, bound and in the
\* map.
LEMMA AsideSupervised ==
    ASSUME TypeOK, Aside, NEW f \in Esmes \ Managed, started[f]
    PROVE  /\ started'[f]
           /\ serverBound[f] => serverBound'[f]
           /\ f \in esmesServer => f \in esmesServer'
<1>1. ASSUME NEW s \in Sessions, Disconnect(s)
       PROVE  /\ started'[f]
              /\ serverBound[f] => serverBound'[f]
              /\ f \in esmesServer => f \in esmesServer'
  BY <1>1 DEF TypeOK, Disconnect, enquiries, managed
<1>2. ASSUME NEW due \in SUBSET Esmes, Scan(due)
       PROVE  /\ started'[f]
              /\ serverBound[f] => serverBound'[f]
              /\ f \in esmesServer => f \in esmesServer'
  BY <1>2 DEF TypeOK, Scan, managed
<1>3. CASE ScanThrows
  BY <1>3 DEF TypeOK, ScanThrows, managed
<1>4. CASE PendingDone
  BY <1>4 DEF TypeOK, PendingDone, enquiries, managed
<1>5. CASE EnquireAnswered
  BY <1>5 DEF TypeOK, EnquireAnswered, managed
<1>6. CASE ScheduleNext
  BY <1>6 DEF TypeOK, ScheduleNext, managed
<1>7. CASE EnquireException
  BY <1>7 DEF TypeOK, EnquireException, managed
<1>8. CASE CheckFailed
  BY <1>8 DEF TypeOK, CheckFailed, enquiries, managed
<1>9. CASE CloseNotBound
  BY <1>9 DEF TypeOK, CloseNotBound, enquiries, managed
<1>10. ASSUME NEW e \in Esmes, EnquireLink(e)
       PROVE  /\ started'[f]
              /\ serverBound[f] => serverBound'[f]
              /\ f \in esmesServer => f \in esmesServer'
  BY <1>10 DEF TypeOK, EnquireLink, enquiries, managed
<1>11. ASSUME NEW e \in Esmes, StartEsme(e)
       PROVE  /\ started'[f]
              /\ serverBound[f] => serverBound'[f]
              /\ f \in esmesServer => f \in esmesServer'
  BY <1>11 DEF TypeOK, StartEsme, enquiries
<1>12. ASSUME NEW e \in Esmes, StopEsme(e)
       PROVE  /\ started'[f]
              /\ serverBound[f] => serverBound'[f]
              /\ f \in esmesServer => f \in esmesServer'
  BY <1>12 DEF TypeOK, StopEsme, enquiries
<1>13. ASSUME NEW e \in Esmes, StopSession(e)
       PROVE  /\ started'[f]
              /\ serverBound[f] => serverBound'[f]
              /\ f \in esmesServer => f \in esmesServer'
  BY <1>13 DEF TypeOK, StopSession, enquiries
<1>14. ASSUME NEW e \in Esmes, DestroyEsme(e)
       PROVE  /\ started'[f]
              /\ serverBound[f] => serverBound'[f]
              /\ f \in esmesServer => f \in esmesServer'
  BY <1>14 DEF TypeOK, DestroyEsme, enquiries
<1>. QED
  BY <1>1, <1>2, <1>3, <1>4, <1>5, <1>6, <1>7, <1>8, <1>9, <1>10, <1>11,
     <1>12, <1>13, <1>14
     DEF Aside, OpsThread, Enquire, Administrator

\* Every step preserves the inductive form of Supervised.
LEMMA SupervisedStep ==
    TypeOK /\ HolderInd /\ SessionInd /\ SupervisedInd /\ [Next]_vars => SupervisedInd'
<1>. SUFFICES ASSUME TypeOK, HolderInd, SessionInd, SupervisedInd, [Next]_vars,
                     NEW f \in Pooled \ Managed
              PROVE  SupervisedOf(f)'
  BY DEF SupervisedInd, Pooled
<1>. SupervisedOf(f) /\ HolderOf(f) /\ f \in Esmes /\ f \in esmes
  BY DEF SupervisedInd, HolderInd, SessionInd, SessionOf, Pooled
<1>. /\ io \in [Sessions -> IOPoints] /\ esme \in [Sessions -> Esmes \cup {NoSession}]
     /\ serverBound \in [Esmes -> BOOLEAN]
  BY DEF TypeOK
<1>1. CASE Aside
  <2>1. UNCHANGED <<io, esme>>
    BY <1>1, AsideHeld DEF held
  <2>2. started[f] => /\ started'[f]
                      /\ serverBound[f] => serverBound'[f]
                      /\ f \in esmesServer => f \in esmesServer'
    BY <1>1, AsideSupervised
  <2>. QED
    BY <2>1, <2>2 DEF SupervisedOf, Holders
<1>2. ASSUME NEW s \in Sessions, NEW p \in Peers, Connect(s, p)
       PROVE  SupervisedOf(f)'
  BY <1>2 DEF Connect, Unused, enquiries, managed, SupervisedOf, Holders
<1>3. ASSUME NEW s \in Sessions, BindRejected(s) PROVE SupervisedOf(f)'
  BY <1>3 DEF BindRejected, enquiries, managed, SupervisedOf, Holders
<1>4. ASSUME NEW s \in Sessions, NEW e \in Esmes, BindAccepted(s, e)
       PROVE  SupervisedOf(f)'
  <2>1. e = f => started[f]
    BY <1>4 DEF BindAccepted, CanBind
  <2>. QED
    BY <1>4, <2>1 DEF BindAccepted, enquiries, managed, SupervisedOf, Holders
<1>5. ASSUME NEW s \in Sessions, SessionRefused(s) PROVE SupervisedOf(f)'
  BY <1>5 DEF SessionRefused, enquiries, managed, SupervisedOf, Holders
<1>6. ASSUME NEW s \in Sessions, SetSmppSession(s) PROVE SupervisedOf(f)'
  BY <1>6 DEF SetSmppSession, enquiries, managed, SupervisedOf, Holders
<1>7. ASSUME NEW s \in Sessions, ServerReady(s) PROVE SupervisedOf(f)'
  BY <1>7 DEF ServerReady, enquiries, managed, SupervisedOf, Holders
<1>8. ASSUME NEW s \in Sessions, SetServerBound(s) PROVE SupervisedOf(f)'
  BY <1>8 DEF SetServerBound, managed, SupervisedOf, Holders
<1>9. ASSUME NEW s \in Sessions, ScheduleFirst(s) PROVE SupervisedOf(f)'
  BY <1>9 DEF ScheduleFirst, managed, SupervisedOf, Holders
<1>10. ASSUME NEW s \in Sessions, SessionDestroyed(s) PROVE SupervisedOf(f)'
  <2>1. esme[s] = f => Holders(f) = {s}
    BY <1>10 DEF SessionDestroyed, HolderOf, Holders
  <2>. QED
    BY <1>10, <2>1 DEF SessionDestroyed, managed, SupervisedOf, Holders
<1>11. ASSUME NEW s \in Sessions, SessionDestroyedThrows(s)
       PROVE  SupervisedOf(f)'
  BY <1>11 DEF SessionDestroyedThrows, enquiries, managed, SupervisedOf,
      Holders
<1>13. ASSUME NEW s \in Sessions, ResetEnquireLinkFail(s) PROVE SupervisedOf(f)'
  BY <1>13 DEF ResetEnquireLinkFail, managed, SupervisedOf, Holders
<1>14. ASSUME NEW s \in Sessions, RemoveEnquireList(s) PROVE SupervisedOf(f)'
  <2>1. esme[s] = f => Holders(f) = {s}
    BY <1>14 DEF RemoveEnquireList, HolderOf, Holders
  <2>. QED
    BY <1>14, <2>1 DEF RemoveEnquireList, managed, SupervisedOf, Holders
<1>15. ASSUME NEW s \in Sessions, BackToClosed(s) PROVE SupervisedOf(f)'
  BY <1>15 DEF BackToClosed, enquiries, managed, SupervisedOf, Holders
<1>12. CASE UNCHANGED vars
  BY <1>12 DEF vars, connections, enquiries, managed, SupervisedOf, Holders
<1>. QED
  BY <1>1, <1>2, <1>3, <1>4, <1>5, <1>6, <1>7, <1>8, <1>9, <1>10, <1>11, <1>12,
     <1>13, <1>14, <1>15
     DEF Next, Network, Bind, Unbind, Aside

(***************************************************************************)
(* The operations thread has in its charge every connection served for a   *)
(* pooled ESME that nobody stops.                                          *)
(***************************************************************************)
THEOREM AlwaysSupervised == Spec => []Supervised
<1>1. Init => SupervisedInd
  BY DEF Init, SupervisedInd, SupervisedOf, Holders
<1>2. TypeOK /\ SupervisedInd => Supervised
  BY DEF TypeOK, SupervisedInd, SupervisedOf, Holders, Supervised
<1>. QED
  BY <1>1, <1>2, InitHolder, HolderStep, InitSession, SessionStep, SupervisedStep,
     TypeCorrect, PTL DEF Spec

-----------------------------------------------------------------------------
(***************************************************************************)
(* Refinement.                                                             *)
(***************************************************************************)
\* What an ESME's holders are depends on nothing but held.
LEMMA SameHolders ==
    ASSUME UNCHANGED <<io, esme>>
    PROVE  [e \in Pooled |-> Holders(e)]' = [e \in Pooled |-> Holders(e)]
  BY DEF Holders, Pooled

\* A step that changes no holder starts, stops or leaves alone the abstract ESMEs.
LEMMA AsideRefines ==
    ASSUME TypeOK, Aside
    PROVE  [Exclusive!Next]_Exclusive!vars
<1>. DEFINE S == [e \in Pooled |-> started[e]]
<1>1. [e \in Pooled |-> Holders(e)]' = [e \in Pooled |-> Holders(e)]
  BY AsideHeld, SameHolders DEF held
<1>2. S' = S \/ \E e \in Pooled : S' = [S EXCEPT ![e] = ~S[e]]
  <2>1. ASSUME NEW e \in Esmes, StartEsme(e) \/ StopEsme(e)
        PROVE  S' = S \/ \E f \in Pooled : S' = [S EXCEPT ![f] = ~S[f]]
    <3>1. /\ started' = [started EXCEPT ![e] = TRUE]
             \/ started' = [started EXCEPT ![e] = FALSE]
          /\ started \in [Esmes -> BOOLEAN]
      BY <2>1 DEF StartEsme, StopEsme, TypeOK
    <3>2. CASE e \notin Pooled
      BY <3>1, <3>2 DEF Pooled
    <3>3. CASE e \in Pooled /\ started'[e] = started[e]
      BY <3>1, <3>3 DEF Pooled
    <3>4. CASE e \in Pooled /\ started'[e] # started[e]
      BY <3>1, <3>4 DEF Pooled
    <3>. QED
      BY <3>2, <3>3, <3>4
  <2>2. CASE UNCHANGED started
    BY <2>2 DEF Pooled
  <2>3. UNCHANGED started \/ \E e \in Esmes : StartEsme(e) \/ StopEsme(e)
    BY DEF Aside, Disconnect, OpsThread, Enquire, Administrator, Scan, ScanThrows,
           PendingDone, EnquireLink, EnquireAnswered, ScheduleNext, EnquireException,
           CheckFailed, CloseNotBound, StopSession, DestroyEsme, managed
  <2>. QED
    BY <2>1, <2>2, <2>3
<1>3. CASE S' = S
  BY <1>1, <1>3 DEF Exclusive!vars
<1>4. CASE \E e \in Pooled : S' = [S EXCEPT ![e] = ~S[e]]
  <2>1. PICK e \in Pooled : S' = [S EXCEPT ![e] = ~S[e]]
    BY <1>4
  <2>2. Exclusive!StartOrStop(e)
    BY <1>1, <2>1 DEF Exclusive!StartOrStop
  <2>. QED
    BY <2>2 DEF Exclusive!Next
<1>. QED
  BY <1>2, <1>3, <1>4

\* Letting a bind through is the abstract Bind, for a pooled ESME.
LEMMA AcceptedRefines ==
    ASSUME TypeOK, HolderInd, NEW s \in Sessions, NEW e \in Esmes, BindAccepted(s, e)
    PROVE  [Exclusive!Next]_Exclusive!vars
<1>. DEFINE H == [f \in Pooled |-> Holders(f)]
<1>1. /\ io' = [io EXCEPT ![s] = "admitted"] /\ io[s] = "connected"
      /\ esme' = [esme EXCEPT ![s] = e]
      /\ UNCHANGED started /\ started[e]
  BY DEF BindAccepted, CanBind, managed
<1>2. \A f \in Esmes : s \notin Holders(f)
  BY <1>1 DEF Holders
<1>3. \A f \in Esmes : f # e => Holders(f)' = Holders(f)
  BY <1>1, <1>2 DEF Holders, TypeOK
<1>4. [f \in Pooled |-> started[f]]' = [f \in Pooled |-> started[f]]
  BY <1>1 DEF Pooled
<1>5. CASE e \notin Pooled
  <2>1. H' = H
    BY <1>3, <1>5 DEF Pooled
  <2>. QED
    BY <1>4, <2>1 DEF Exclusive!vars
<1>6. CASE e \in Pooled
  <2>1. Holders(e) = {}
    <3>1. \A p \in Peers : e \notin Exact[p]
      BY <1>6 DEF Pooled
    <3>2. peer[s] \in Peers
      BY <1>1 DEF TypeOK
    <3>3. localState[e] = "CLOSED"
      BY <3>1, <3>2 DEF BindAccepted, Candidates
    <3>. QED
      BY <1>6, <3>3 DEF HolderInd, HolderOf
  <2>2. Holders(e)' = {s}
    BY <1>1, <2>1 DEF Holders, TypeOK
  <2>3. H' = [H EXCEPT ![e] = {s}]
    BY <1>3, <1>6, <2>2 DEF Pooled
  <2>4. Exclusive!Bind(e, s)
    BY <1>1, <1>2, <1>4, <1>6, <2>1, <2>3 DEF Exclusive!Bind, Pooled
  <2>. QED
    BY <1>6, <2>4 DEF Exclusive!Next
<1>. QED
  BY <1>5, <1>6

\* The end of sessionDestroyed() is the abstract Unbind.
LEMMA UnbindRefines ==
    ASSUME TypeOK, HolderInd, NEW s \in Sessions,
           BackToClosed(s) \/ SessionDestroyedThrows(s)
    PROVE  [Exclusive!Next]_Exclusive!vars
<1>. DEFINE H == [f \in Pooled |-> Holders(f)]
<1>1. /\ io' = [io EXCEPT ![s] = "free"] /\ io[s] \in {"serving", "removed"}
      /\ UNCHANGED <<esme, started>>
  BY DEF BackToClosed, SessionDestroyedThrows, managed
<1>2. \A f \in Esmes : f # esme[s] => Holders(f)' = Holders(f)
  BY <1>1 DEF Holders, TypeOK
<1>3. [f \in Pooled |-> started[f]]' = [f \in Pooled |-> started[f]]
  BY <1>1 DEF Pooled
<1>4. CASE esme[s] \notin Pooled
  <2>1. H' = H
    BY <1>2, <1>4 DEF Pooled
  <2>. QED
    BY <1>3, <2>1 DEF Exclusive!vars
<1>5. CASE esme[s] \in Pooled
  <2>1. Holders(esme[s]) = {s}
    BY <1>1, <1>5 DEF HolderInd, HolderOf, Holders
  <2>2. Holders(esme[s])' = {}
    BY <1>1, <2>1 DEF Holders, TypeOK
  <2>3. H' = [H EXCEPT ![esme[s]] = {}]
    BY <1>1, <1>2, <1>5, <2>2 DEF Pooled
  <2>4. Exclusive!Unbind(esme[s], s)
    BY <1>3, <1>5, <2>1, <2>3 DEF Exclusive!Unbind
  <2>. QED
    BY <1>5, <2>4 DEF Exclusive!Next
<1>. QED
  BY <1>4, <1>5

\* The other steps of a connection are the abstract stutter.
LEMMA QuietRefines ==
    ASSUME TypeOK, NEW s \in Sessions, 
           \/ \E p \in Peers : Connect(s, p)
           \/ BindRejected(s) \/ SessionRefused(s) \/ SetSmppSession(s)
           \/ ServerReady(s) \/ SetServerBound(s) \/ ScheduleFirst(s)
           \/ SessionDestroyed(s) \/ ResetEnquireLinkFail(s) \/ RemoveEnquireList(s)
    PROVE  [Exclusive!Next]_Exclusive!vars
<1>1. UNCHANGED started
  BY DEF Connect, BindRejected, SessionRefused, SetSmppSession, ServerReady,
         SetServerBound, ScheduleFirst, SessionDestroyed, ResetEnquireLinkFail,
         RemoveEnquireList, managed
<1>2. \A f \in Esmes : Holders(f)' = Holders(f)
  <2>1. CASE \E p \in Peers : Connect(s, p)
    BY <2>1, ServerAssumption DEF Connect, Unused, Holders, TypeOK
  <2>2. CASE BindRejected(s)
    BY <2>2 DEF BindRejected, Holders, TypeOK
  <2>3. CASE \/ SessionRefused(s) \/ SetSmppSession(s) \/ ServerReady(s)
             \/ SetServerBound(s) \/ ScheduleFirst(s) \/ SessionDestroyed(s)
             \/ ResetEnquireLinkFail(s) \/ RemoveEnquireList(s)
    <3>1. io[s] \notin {"free", "connected"} /\ UNCHANGED esme
      BY <2>3 DEF SessionRefused, SetSmppSession, ServerReady, SetServerBound,
                  ScheduleFirst, SessionDestroyed, ResetEnquireLinkFail,
                  RemoveEnquireList
    <3>2. PICK x \in {"creating", "ready", "schedule", "serving", "unbound",
                      "cleared", "removed"} :
             io' = [io EXCEPT ![s] = x]
      BY <2>3 DEF SessionRefused, SetSmppSession, ServerReady, SetServerBound,
                  ScheduleFirst, SessionDestroyed, ResetEnquireLinkFail,
                  RemoveEnquireList
    <3>. QED
      BY <3>1, <3>2 DEF Holders, TypeOK
  <2>. QED
    BY <2>1, <2>2, <2>3
<1>3. [f \in Pooled |-> Holders(f)]' = [f \in Pooled |-> Holders(f)]
  BY <1>2 DEF Pooled
<1>4. [f \in Pooled |-> started[f]]' = [f \in Pooled |-> started[f]]
  BY <1>1 DEF Pooled
<1>. QED
  BY <1>3, <1>4 DEF Exclusive!vars

(***************************************************************************)
(* The handler implements ExclusiveBinding for the pooled ESMEs, whatever  *)
(* the connections, the administrators and the operations thread do.       *)
(***************************************************************************)
THEOREM RefinesExclusive == Spec => ImplementsExclusive
<1>1. Init => Exclusive!Init
  BY DEF Init, Exclusive!Init, Pooled, Holders
<1>2. TypeOK /\ HolderInd /\ [Next]_vars => [Exclusive!Next]_Exclusive!vars
  <2>. SUFFICES ASSUME TypeOK, HolderInd, [Next]_vars
                PROVE  [Exclusive!Next]_Exclusive!vars
    OBVIOUS
  <2>1. CASE Aside
    BY <2>1, AsideRefines
  <2>2. ASSUME NEW s \in Sessions, Unbind(s)
        PROVE  [Exclusive!Next]_Exclusive!vars
    BY <2>2, UnbindRefines, QuietRefines DEF Unbind
  <2>3. ASSUME NEW s \in Sessions, Bind(s)
        PROVE  [Exclusive!Next]_Exclusive!vars
    BY <2>3, AcceptedRefines, QuietRefines DEF Bind
  <2>4. ASSUME NEW s \in Sessions, \E p \in Peers : Connect(s, p)
        PROVE  [Exclusive!Next]_Exclusive!vars
    BY <2>4, QuietRefines
  <2>5. CASE UNCHANGED vars
    <3>1. UNCHANGED <<io, esme, started>>
      BY <2>5 DEF vars, connections, managed
    <3>2. [f \in Pooled |-> started[f]]' = [f \in Pooled |-> started[f]]
      BY <3>1 DEF Pooled
    <3>. QED
      BY <3>1, <3>2, SameHolders DEF Exclusive!vars
  <2>. QED
    BY <2>1, <2>2, <2>3, <2>4, <2>5 DEF Next, Network, Aside
<1>. QED
  BY <1>1, <1>2, InitHolder, HolderStep, TypeCorrect, PTL
     DEF Spec, ImplementsExclusive, Exclusive!Spec

=============================================================================
