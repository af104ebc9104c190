------------------------ MODULE SmppClientRefinement ------------------------
(***************************************************************************)
(* SmppClient implements SingleConnection: every step of the operations    *)
(* thread, an administrator, the network or a callback is a step of it or  *)
(* a stutter.  By OneConnect the requests of an ESME are its flag; by      *)
(* OneSessionInd and PursuitInd its sessions are what the thread takes     *)
(* them for.                                                               *)
(***************************************************************************)
EXTENDS SmppClientProofs, FiniteSetTheorems

\* What SingleConnection sees of a state.
Asked   == [e \in Esmes |-> Requests(e)]
Taken   == OpsAt({"initiate"})
Going   == OpsAt({"checkSession", "bind", "bound"})
Opening == [e \in Esmes |-> InState(e, "BINDING")]
Live  == [e \in Esmes |-> InState(e, "BOUND")]

SingleStep == [Single!Next]_(Single!vars)

Sound == TypeOK /\ OneConnect /\ OneSessionInd /\ PursuitInd

LEMMA Stutters ==
    ASSUME UNCHANGED <<started, Asked, Taken, Going, Opening, Live>>
    PROVE  SingleStep
BY DEF SingleStep, Single!vars, Single!work, Single!links,
       Asked, Taken, Going, Opening, Live

-----------------------------------------------------------------------------
(***************************************************************************)
(* The requests.                                                           *)
(***************************************************************************)
\* The flag of an ESME counts its CONNECT requests.
LEMMA AskedIsFlag ==
    TypeOK /\ OneConnect => Asked = [e \in Esmes |-> IF inQueue[e] THEN 1 ELSE 0]
<1> SUFFICES ASSUME TypeOK, OneConnect, NEW e \in Esmes
             PROVE  Requests(e) = IF inQueue[e] THEN 1 ELSE 0
  BY DEF Asked
<1> DEFINE O == {s \in Slots : io[e][s] = "offer"}
<1>1. Copies(e) \in Nat /\ OneConnectOf(e)
  BY CopiesNat DEF OneConnect
<1>2. CASE O = {}
  <2>1. Cardinality(O) = 0
    BY <1>2, FS_EmptySet
  <2>2. inQueue[e] <=> Copies(e) = 1
    BY <1>1, <1>2 DEF OneConnectOf
  <2>3. Copies(e) \in {0, 1}
    BY <1>1 DEF OneConnectOf
  <2> QED BY <2>1, <2>2, <2>3 DEF Requests
<1>3. CASE O # {}
  <2>1. PICK s \in Slots : io[e][s] = "offer"
    BY <1>3
  <2>2. Copies(e) = 0 /\ inQueue[e]
    BY <1>1, <2>1 DEF OneConnectOf
  <2>3. O = {s}
    BY <1>1, <2>1 DEF OneConnectOf
  <2>4. Cardinality(O) = 1
    BY <2>3, FS_Singleton
  <2> QED BY <2>2, <2>4 DEF Requests
<1> QED BY <1>2, <1>3

LEMMA AskedIsFlagNext ==
    TypeOK' /\ OneConnect' => Asked' = [e \in Esmes |-> IF inQueue'[e] THEN 1 ELSE 0]
<1>1. (TypeOK /\ OneConnect => Asked = [e \in Esmes |-> IF inQueue[e] THEN 1 ELSE 0])'
  BY AskedIsFlag, PTL
<1> QED BY <1>1

\* Setting the flag is making a request, if it was clear ...
LEMMA FlagSet ==
    ASSUME Sound, Sound', NEW e \in Esmes, inQueue' = [inQueue EXCEPT ![e] = TRUE]
    PROVE  /\ Asked' = [Asked EXCEPT ![e] = 1]
           /\ Asked[e] = 0 \/ Asked' = Asked
<1>1. inQueue \in [Esmes -> BOOLEAN]
  BY DEF Sound, TypeOK
<1>2. inQueue'[e] /\ \A f \in Esmes \ {e} : inQueue'[f] = inQueue[f]
  BY <1>1
<1>3. Asked = [f \in Esmes |-> IF inQueue[f] THEN 1 ELSE 0]
  BY AskedIsFlag DEF Sound
<1>4. Asked' = [f \in Esmes |-> IF inQueue'[f] THEN 1 ELSE 0]
  BY AskedIsFlagNext DEF Sound
<1>5. Asked' = [Asked EXCEPT ![e] = 1]
  BY <1>2, <1>3, <1>4
<1>6. inQueue[e] => Asked' = Asked
  BY <1>2, <1>3, <1>4
<1> QED BY <1>3, <1>5, <1>6

\* ... and clearing it with a request in hand is taking it.
LEMMA FlagCleared ==
    ASSUME Sound, Sound', OpsHolds(ops.esme), ops.esme \in Esmes,
           inQueue' = [inQueue EXCEPT ![ops.esme] = FALSE]
    PROVE  Asked[ops.esme] = 1 /\ Asked' = [Asked EXCEPT ![ops.esme] = 0]
<1>1. inQueue[ops.esme]
  <2> DEFINE e == ops.esme
  <2>1. OneConnectOf(e) /\ OpsHolds(e) /\ Copies(e) \in Nat
    BY CopiesNat DEF Sound, OneConnect
  <2>2. futureSet[CONNECT][e] \in Nat /\ newSet[CONNECT][e] \in Nat
    BY DEF Sound, TypeOK, ChangeRequests, Kinds
  <2>3. Copies(e) >= 1
    BY <2>1, <2>2 DEF Copies
  <2> QED BY <2>1, <2>3 DEF OneConnectOf
<1>2. inQueue \in [Esmes -> BOOLEAN]
  BY DEF Sound, TypeOK
<1>3. ~inQueue'[ops.esme] /\ \A f \in Esmes \ {ops.esme} : inQueue'[f] = inQueue[f]
  BY <1>2
<1>4. Asked = [f \in Esmes |-> IF inQueue[f] THEN 1 ELSE 0]
  BY AskedIsFlag DEF Sound
<1>5. Asked' = [f \in Esmes |-> IF inQueue'[f] THEN 1 ELSE 0]
  BY AskedIsFlagNext DEF Sound
<1> QED BY <1>1, <1>3, <1>4, <1>5

LEMMA FlagSame ==
    ASSUME Sound, Sound', UNCHANGED inQueue
    PROVE  Asked' = Asked
BY AskedIsFlag, AskedIsFlagNext DEF Sound

-----------------------------------------------------------------------------
(***************************************************************************)
(* The sessions.                                                           *)
(***************************************************************************)
\* What no other ESME has to do with.
LEMMA StateSet ==
    ASSUME TypeOK, NEW e \in Esmes, NEW s \in Slots, NEW x \in SessionStates,
           state' = [state EXCEPT ![e][s] = x],
           \A t \in Slots \ {s} : state[e][t] = "CLOSED"
    PROVE  /\ Opening' = [Opening EXCEPT ![e] = IF x = "BINDING" THEN {s} ELSE {}]
           /\ Live' = [Live EXCEPT ![e] = IF x = "BOUND" THEN {s} ELSE {}]
           /\ Opening[e] = IF state[e][s] = "BINDING" THEN {s} ELSE {}
           /\ Live[e] = IF state[e][s] = "BOUND" THEN {s} ELSE {}
<1>1. state'[e][s] = x /\ \A t \in Slots \ {s} : state'[e][t] = "CLOSED"
  BY DEF TypeOK
<1>2. \A f \in Esmes \ {e} : state'[f] = state[f]
  BY DEF TypeOK
<1>3. \A f \in Esmes \ {e} : \A y : InState(f, y)' = InState(f, y)
  BY <1>2 DEF InState
<1>4. \A y \in {"BINDING", "BOUND"} :
          /\ InState(e, y)' = IF x = y THEN {s} ELSE {}
          /\ InState(e, y) = IF state[e][s] = y THEN {s} ELSE {}
  BY <1>1 DEF InState
<1> QED BY <1>3, <1>4 DEF Opening, Live

\* Closing the session an ESME refers to leaves the one that is being opened.
LEMMA CloseLoses ==
    ASSUME Sound, NEW e \in Esmes, CloseCurrent(e)
    PROVE  /\ Opening' = Opening
           /\ \/ Live' = Live
              \/ Live[e] # {} /\ Live' = [Live EXCEPT ![e] = {}]
<1>1. CASE session[e] = NoSession \/ state[e][session[e]] = "CLOSED"
  <2>1. state' = state
    BY <1>1 DEF Sound, TypeOK, CloseCurrent, Close
  <2> QED BY <2>1 DEF Opening, Live, InState
<1>2. CASE session[e] # NoSession /\ state[e][session[e]] # "CLOSED"
  <2>1. session[e] \in Slots /\ state' = [state EXCEPT ![e][session[e]] = "CLOSED"]
    BY <1>2 DEF Sound, TypeOK, CloseCurrent, Close
  <2>2. \A t \in Slots \ {session[e]} : state[e][t] = "CLOSED"
    BY <1>2, <2>1 DEF Sound, OneSessionInd, OneSessionOf
  <2>3. ~Binding(e)
    BY <1>2, <2>1 DEF Sound, OneSessionInd, OneSessionOf
  <2>4. state[e][session[e]] = "BOUND"
    BY <1>2, <2>1, <2>3 DEF Sound, PursuitInd, PursuitOf, At, Binding, TypeOK,
                            SessionStates
  <2>5. /\ Opening' = [Opening EXCEPT ![e] = {}] /\ Opening[e] = {}
        /\ Live' = [Live EXCEPT ![e] = {}] /\ Live[e] = {session[e]}
    BY <2>1, <2>2, <2>4, StateSet DEF Sound, SessionStates
  <2> QED BY <2>5 DEF Opening
<1> QED BY <1>1, <1>2

-----------------------------------------------------------------------------
(***************************************************************************)
(* The steps.                                                              *)
(***************************************************************************)
\* The thread is not connecting an ESME, before and after a step.
Elsewhere ==
    /\ ops.pc \notin {"initiate", "checkSession", "bind", "bound"}
    /\ ops'.pc \notin {"initiate", "checkSession", "bind", "bound"}

\* A step that may close the session of an ESME, and may ask for another.
LEMMA AsideRefines ==
    ASSUME Sound, Sound', NEW e \in Esmes, UNCHANGED started,
           CloseCurrent(e) \/ UNCHANGED state,
           UNCHANGED inQueue \/ inQueue' = [inQueue EXCEPT ![e] = TRUE],
           UNCHANGED ops \/ Elsewhere
    PROVE  SingleStep
<1>1. Taken' = Taken /\ Going' = Going
  BY DEF Taken, Going, OpsAt, Elsewhere
<1>2. Opening' = Opening
  BY CloseLoses DEF Opening, InState
<1>3. \/ Live' = Live
      \/ Live[e] # {} /\ Live' = [Live EXCEPT ![e] = {}]
  BY CloseLoses DEF Live, InState
<1>4. \/ Asked' = Asked
      \/ Asked[e] = 0 /\ Asked' = [Asked EXCEPT ![e] = 1]
  BY FlagSet, FlagSame
<1>5. CASE Live' # Live
  <2>1. Single!Lose(e)
    BY <1>1, <1>2, <1>3, <1>4, <1>5
       DEF Single!Lose, Single!work, Asked, Taken, Going, Opening, Live
  <2> QED BY <2>1 DEF SingleStep, Single!Next
<1>6. CASE Live' = Live /\ Asked' # Asked
  <2>1. Single!Request(e)
    BY <1>1, <1>2, <1>4, <1>6
       DEF Single!Request, Single!work, Single!links, Asked, Taken, Going, Opening, Live
  <2> QED BY <2>1 DEF SingleStep, Single!Next
<1>7. CASE Live' = Live /\ Asked' = Asked
  BY <1>1, <1>2, <1>7, Stutters
<1> QED BY <1>5, <1>6, <1>7

\* Starts and stops.
LEMMA StartedRefines ==
    ASSUME Sound, Sound', NEW e \in Esmes, StartEsme(e) \/ StopEsme(e)
    PROVE  SingleStep
<1>1. /\ UNCHANGED <<inQueue, state, ops>>
      /\ started' = started \/ started' = [started EXCEPT ![e] = ~started[e]]
  BY DEF StartEsme, StopEsme, sessions, Sound, TypeOK
<1>2. UNCHANGED <<Asked, Taken, Going, Opening, Live>>
  BY <1>1, FlagSame DEF Taken, Going, Opening, Live, OpsAt, InState
<1>3. CASE started' = started
  BY <1>2, <1>3, Stutters
<1>4. CASE started' = [started EXCEPT ![e] = ~started[e]]
  <2>1. Single!StartOrStop(e)
    BY <1>2, <1>4 DEF Single!StartOrStop, Single!work, Single!links,
                      Asked, Taken, Going, Opening, Live
  <2> QED BY <2>1 DEF SingleStep, Single!Next
<1> QED BY <1>1, <1>3, <1>4

\* run() clears the flag of the ESME whose CONNECT it has polled.
LEMMA TakenRefines ==
    ASSUME Sound, Sound', DropConnect \/ DueConnect
    PROVE  SingleStep
<1> DEFINE e == ops.esme
<1>1. /\ e \in Esmes /\ OpsHolds(e) /\ inQueue' = [inQueue EXCEPT ![e] = FALSE]
      /\ UNCHANGED <<started, state>>
  BY DEF DropConnect, DueConnect, At, OpsHolds, sessions, Sound, TypeOK, BusyPoints
<1>2. Asked[e] = 1 /\ Asked' = [Asked EXCEPT ![e] = 0]
  BY <1>1, FlagCleared
<1>3. /\ Taken = {} /\ Taken' \in {{}, {e}}
      /\ Going = {} /\ Going' = {}
  BY DEF DropConnect, DueConnect, At, Goto, GotoWith, Taken, Going, OpsAt
<1>4. UNCHANGED <<Opening, Live>>
  BY <1>1 DEF Opening, Live, InState
<1> HIDE DEF e
<1>5. Single!Take(e)
  BY <1>1, <1>2, <1>3, <1>4 DEF Single!Take, Single!links,
                                Asked, Taken, Going, Opening, Live
<1> QED BY <1>1, <1>5 DEF SingleStep, Single!Next

\* initiateConnection() goes on with an ESME that is started ...
LEMMA GoRefines ==
    ASSUME Sound, Sound', InitiateStarted
    PROVE  SingleStep
<1> DEFINE e == ops.esme
<1>1. e \in Esmes /\ started[e] /\ UNCHANGED <<started, inQueue, state>>
  BY DEF InitiateStarted, At, sessions, Sound, TypeOK, BusyPoints
<1>2. /\ Taken = {e} /\ Taken' = {}
      /\ Going = {} /\ Going' = {e}
  BY DEF InitiateStarted, At, GotoWith, Taken, Going, OpsAt
<1>3. UNCHANGED <<Asked, Opening, Live>>
  BY <1>1, FlagSame DEF Opening, Live, InState
<1> HIDE DEF e
<1>4. Single!Go(e)
  BY <1>1, <1>2, <1>3 DEF Single!Go, Single!links, Asked, Taken, Going, Opening, Live
<1> QED BY <1>1, <1>4 DEF SingleStep, Single!Next

\* ... and ends: stopped, connected already, or connected now.
LEMMA SettleRefines ==
    ASSUME Sound, Sound', InitiateStopped \/ AlreadyBound \/ SessionSet
    PROVE  SingleStep
<1> DEFINE e == ops.esme
<1>1. e \in Esmes /\ UNCHANGED <<started, inQueue, state>>
  BY DEF InitiateStopped, AlreadyBound, SessionSet, At, sessions, Sound, TypeOK,
         BusyPoints
<1>2. e \in Taken \cup Going /\ Taken' = {} /\ Going' = {}
  BY DEF InitiateStopped, AlreadyBound, SessionSet, At, Goto, Taken, Going, OpsAt
<1>3. UNCHANGED <<Asked, Opening, Live>>
  BY <1>1, FlagSame DEF Opening, Live, InState
<1>4. ~At("bind")
  BY DEF InitiateStopped, AlreadyBound, SessionSet, At
<1>5. Opening[e] = {}
  BY <1>1, <1>4 DEF Opening, InState, Sound, PursuitInd, PursuitOf
<1> HIDE DEF e
<1>6. Single!Settle(e)
  BY <1>1, <1>2, <1>3, <1>5 DEF Single!Settle, Single!links,
                                Asked, Taken, Going, Opening, Live
<1> QED BY <1>1, <1>6 DEF SingleStep, Single!Next

\* bind() opens a session where there is none.
LEMMA OpenRefines ==
    ASSUME Sound, Sound', BindBegins
    PROVE  SingleStep
<1> DEFINE e == ops.esme
<1>1. PICK s \in Slots : /\ Unused(e, s)
                         /\ state' = [state EXCEPT ![e][s] = "BINDING"]
                         /\ ops' = [pc |-> "bind", esme |-> e, session0 |-> s]
  BY DEF BindBegins
<1>2. e \in Esmes /\ UNCHANGED <<started, inQueue>>
  BY DEF BindBegins, At, Sound, TypeOK, BusyPoints
<1>3. \A t \in Slots : state[e][t] = "CLOSED"
  BY <1>2 DEF BindBegins, At, IsBound, IsBinding, Sound, OneSessionInd, OneSessionOf,
              Binding, TypeOK, SessionStates
<1>4. /\ Opening' = [Opening EXCEPT ![e] = {s}] /\ Opening[e] = {}
      /\ Live' = [Live EXCEPT ![e] = {}] /\ Live[e] = {}
  BY <1>1, <1>2, <1>3, StateSet DEF Sound, SessionStates
<1>5. Live' = Live
  BY <1>4 DEF Live
<1>6. Taken = {} /\ Taken' = {} /\ Going = {e} /\ Going' = {e}
  BY <1>1 DEF BindBegins, At, Taken, Going, OpsAt
<1>7. Asked' = Asked
  BY <1>2, FlagSame
<1> HIDE DEF e
<1>8. Single!Open(e, s)
  BY <1>2, <1>4, <1>5, <1>6, <1>7 DEF Single!Open, Single!work,
                                      Asked, Taken, Going, Opening, Live
<1> QED BY <1>2, <1>8 DEF SingleStep, Single!Next

\* What it finds when the answer comes.
LEMMA BeingOpened ==
    ASSUME Sound, NEW e \in Esmes, At("bind"), ops.esme = e
    PROVE  /\ ops.session0 \in Slots /\ state[e][ops.session0] = "BINDING"
           /\ \A t \in Slots \ {ops.session0} : state[e][t] = "CLOSED"
           /\ Taken = {} /\ Going = {e}
<1>1. ops.session0 \in Slots /\ state[e][ops.session0] = "BINDING"
  BY DEF Sound, TypeOK, At, PursuitInd, PursuitOf
<1>2. \A t \in Slots \ {ops.session0} : state[e][t] = "CLOSED"
  BY DEF Sound, OneSessionInd, OneSessionOf, Binding, At
<1> QED BY <1>1, <1>2 DEF Taken, Going, OpsAt, At

\* The session is bound ...
LEMMA OpenedRefines ==
    ASSUME Sound, Sound', NEW e \in Esmes, BindSucceeds(e)
    PROVE  SingleStep
<1> DEFINE s == ops.session0
<1>1. /\ s \in Slots /\ state[e][s] = "BINDING"
      /\ \A t \in Slots \ {s} : state[e][t] = "CLOSED"
      /\ Taken = {} /\ Going = {e}
  BY BeingOpened DEF BindSucceeds
<1>2. /\ state' = [state EXCEPT ![e][s] = "BOUND"]
      /\ ops'.pc = "bound" /\ ops'.esme = e
      /\ UNCHANGED <<started, inQueue>>
  BY DEF BindSucceeds, Sound, TypeOK, OpsStates
<1>3. /\ Opening' = [Opening EXCEPT ![e] = {}] /\ Opening[e] = {s}
      /\ Live' = [Live EXCEPT ![e] = {s}] /\ Live[e] = {}
  <2>1. TypeOK /\ "BOUND" \in SessionStates
    BY DEF Sound, SessionStates
  <2>2. /\ Opening' = [Opening EXCEPT ![e] = IF "BOUND" = "BINDING" THEN {s} ELSE {}]
        /\ Live' = [Live EXCEPT ![e] = IF "BOUND" = "BOUND" THEN {s} ELSE {}]
        /\ Opening[e] = IF state[e][s] = "BINDING" THEN {s} ELSE {}
        /\ Live[e] = IF state[e][s] = "BOUND" THEN {s} ELSE {}
    BY <1>1, <1>2, <2>1, StateSet
  <2> QED BY <1>1, <2>2
<1>4. Taken' = {} /\ Going' = {e}
  BY <1>2 DEF Taken, Going, OpsAt
<1>5. Asked' = Asked
  BY <1>2, FlagSame
<1> HIDE DEF s
<1>6. Single!Opened(e, s)
  BY <1>1, <1>2, <1>3, <1>4, <1>5 DEF Single!Opened, Single!work,
                                      Asked, Taken, Going, Opening, Live
<1> QED BY <1>1, <1>6 DEF SingleStep, Single!Next

\* ... or refused, and asked for again.
LEMMA RefusedRefines ==
    ASSUME Sound, Sound', NEW e \in Esmes, BindFails(e)
    PROVE  SingleStep
<1> DEFINE s == ops.session0
<1>1. /\ s \in Slots /\ state[e][s] = "BINDING"
      /\ \A t \in Slots \ {s} : state[e][t] = "CLOSED"
      /\ Taken = {} /\ Going = {e}
  BY BeingOpened DEF BindFails
<1>2. /\ state' = [state EXCEPT ![e][s] = "CLOSED"]
      /\ ops'.pc = "poll" /\ UNCHANGED started
      /\ inQueue' = [inQueue EXCEPT ![e] = TRUE]
  BY DEF BindFails, Close, ScheduleConnect, Goto, Sound, TypeOK
<1>3. /\ Opening' = [Opening EXCEPT ![e] = {}] /\ Opening[e] = {s}
      /\ Live' = [Live EXCEPT ![e] = {}] /\ Live[e] = {}
  BY <1>1, <1>2, StateSet DEF Sound, SessionStates
<1>4. Live' = Live
  BY <1>3 DEF Live
<1>5. Taken' = {} /\ Going' = {}
  BY <1>2 DEF Taken, Going, OpsAt
<1>6. Asked' = [Asked EXCEPT ![e] = 1]
  BY <1>2, FlagSet
<1> HIDE DEF s
<1>7. Single!Refused(e)
  BY <1>1, <1>2, <1>3, <1>4, <1>5, <1>6 DEF Single!Refused,
                                            Asked, Taken, Going, Opening, Live
<1> QED BY <1>7 DEF SingleStep, Single!Next

\* What others do, and the thread while it connects nothing, is done to one ESME.
LEMMA OthersRefine ==
    ASSUME Sound, Sound', NEW e \in Esmes,
           \/ Drain(e) \/ EnquireTaken(e) \/ EnquireReturns(e) \/ AdminContinues(e)
           \/ \E s \in Slots : Fault(e, s) \/ Callback(e, s)
    PROVE  SingleStep
<1>1. CASE Drain(e) \/ EnquireTaken(e)
  <2>1. UNCHANGED <<started, state, inQueue>>
    BY <1>1 DEF Drain, PollConnectStopped, PollConnectLater, PollConnectDue,
                PollEnquireDropped, PollEnquireLater, PollEnquireDue, EnquireTaken,
                sessions
  <2>2. UNCHANGED ops \/ Elsewhere
    BY <1>1 DEF Drain, PollConnectStopped, PollConnectLater, PollConnectDue,
                PollEnquireDropped, PollEnquireLater, PollEnquireDue, EnquireTaken,
                Poll, At, GotoWith, Elsewhere
  <2> QED BY <2>1, <2>2, AsideRefines
<1>2. CASE EnquireReturns(e)
  <2>1. UNCHANGED started /\ Elsewhere
    BY <1>2 DEF EnquireReturns, EnquireSucceeds, EnquireFails, EnquireNotBound,
                At, Goto, Elsewhere
  <2>2. UNCHANGED inQueue \/ inQueue' = [inQueue EXCEPT ![e] = TRUE]
    BY <1>2 DEF EnquireReturns, EnquireSucceeds, EnquireFails, EnquireNotBound,
                ScheduleConnect
  <2>3. CloseCurrent(e) \/ UNCHANGED state
    BY <1>2 DEF EnquireReturns, EnquireSucceeds, EnquireFails, EnquireNotBound,
                sessions, CloseCurrent, Sound, TypeOK, At
  <2> QED BY <2>1, <2>2, <2>3, AsideRefines
<1>3. CASE AdminContinues(e)
  BY <1>3, AsideRefines DEF AdminContinues, StartCAS, StartOffer, StopSession, sessions
<1>4. ASSUME NEW s \in Slots, Fault(e, s) \/ Callback(e, s) PROVE SingleStep
  <2>1. UNCHANGED <<started, ops>>
    BY <1>4 DEF Fault, ChannelClosed, ExceptionCaught, UndecodablePdu, Callback,
                ChannelClosedReported, HandlerCloses, HandlerClosesUnchecked,
                HandlerCAS, HandlerOffer
  <2>2. UNCHANGED inQueue \/ inQueue' = [inQueue EXCEPT ![e] = TRUE]
    BY <1>4 DEF Fault, ChannelClosed, ExceptionCaught, UndecodablePdu, Callback,
                ChannelClosedReported, HandlerCloses, HandlerClosesUnchecked,
                HandlerCAS, HandlerOffer
  <2>3. CloseCurrent(e) \/ UNCHANGED state
    BY <1>4 DEF Fault, ChannelClosed, ExceptionCaught, UndecodablePdu, Callback,
                ChannelClosedReported, HandlerCloses, HandlerClosesUnchecked,
                HandlerCAS, HandlerOffer, sessions
  <2> QED BY <2>1, <2>2, <2>3, AsideRefines
<1> QED BY <1>1, <1>2, <1>3, <1>4

\* The steps of the thread between two ESMEs change nothing that can be seen.
LEMMA BetweenStutters ==
    ASSUME Sound, Sound', PollEmpty \/ Requeue \/ PendingDone \/ EnquireCheck
    PROVE  SingleStep
<1>1. UNCHANGED <<started, inQueue, state>> /\ Elsewhere
  BY DEF PollEmpty, Requeue, PendingDone, EnquireCheck, At, Goto, GotoWith, sessions,
         Elsewhere
<1>2. UNCHANGED <<Taken, Going, Opening, Live>>
  BY <1>1 DEF Taken, Going, OpsAt, Elsewhere, Opening, Live, InState
<1> QED BY <1>1, <1>2, FlagSame, Stutters

LEMMA SingleNext == Sound /\ Sound' /\ [Next]_vars => SingleStep
<1> SUFFICES ASSUME Sound, Sound', [Next]_vars PROVE SingleStep
  OBVIOUS
<1>1. CASE Initiate
  BY <1>1, GoRefines, SettleRefines, OpenRefines DEF Initiate
<1>2. CASE \/ PollEmpty \/ DropConnect \/ DueConnect \/ Requeue
           \/ PendingDone \/ EnquireCheck
  BY <1>2, TakenRefines, BetweenStutters
<1>3. ASSUME NEW e \in Esmes,
             Drain(e) \/ BindReturns(e) \/ EnquireTaken(e) \/ EnquireReturns(e)
      PROVE  SingleStep
  BY <1>3, OpenedRefines, RefusedRefines, OthersRefine DEF BindReturns
<1>4. ASSUME NEW e \in Esmes, Administrator(e) PROVE SingleStep
  BY <1>4, StartedRefines, OthersRefine DEF Administrator
<1>5. ASSUME NEW e \in Esmes, NEW s \in Slots, Fault(e, s) \/ Callback(e, s)
      PROVE  SingleStep
  BY <1>5, OthersRefine
<1>6. CASE UNCHANGED vars
  <2>1. UNCHANGED <<started, inQueue, ops, state>>
    BY <1>6 DEF vars, sessions
  <2>2. UNCHANGED <<Taken, Going, Opening, Live>>
    BY <2>1 DEF Taken, Going, OpsAt, Opening, Live, InState
  <2> QED BY <2>1, <2>2, FlagSame, Stutters
<1> QED BY <1>1, <1>2, <1>3, <1>4, <1>5, <1>6 DEF Next, OpsThread

(***************************************************************************)
(* The client side implements SingleConnection, for any ESMEs, sessions    *)
(* and administrators.                                                     *)
(***************************************************************************)
THEOREM RefinesSingle == Spec => ImplementsSingle
<1>1. Init => Single!Init
  <2> SUFFICES ASSUME Init PROVE Single!Init
    OBVIOUS
  <2>1. TypeOK /\ OneConnect
    BY InitType, InitOneConnect
  <2>2. Asked = [e \in Esmes |-> 1]
    BY <2>1, AskedIsFlag DEF Init
  <2>3. Taken = {} /\ Going = {}
    BY DEF Init, Taken, Going, OpsAt
  <2>4. Opening = [e \in Esmes |-> {}] /\ Live = [e \in Esmes |-> {}]
    BY DEF Init, Opening, Live, InState
  <2> QED BY <2>2, <2>3, <2>4 DEF Init, Single!Init, Asked, Taken, Going, Opening, Live
<1>2. Spec => []Sound
  BY TypeCorrect, ConnectUnique, PursuitInvariant, PTL DEF Sound
<1>3. Sound /\ Sound' /\ [Next]_vars => [Single!Next]_(Single!vars)
  BY SingleNext DEF SingleStep
<1> QED BY <1>1, <1>2, <1>3, PTL DEF Spec, ImplementsSingle, Single!Spec

=============================================================================
