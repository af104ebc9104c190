---------------------------- MODULE LinkDropProofs ----------------------------
(***************************************************************************)
(* What LinkDrop promises for any kinds of messages and any number of them:*)
(* its types, that a connection is found silent only if nothing came in    *)
(* that its counters could show, and that a silent one is found so by its  *)
(* second look.                                                            *)
(***************************************************************************)
EXTENDS LinkDrop, TLAPS

USE LinkAssumption

-----------------------------------------------------------------------------
(***************************************************************************)
(* Every variable keeps its type: a count that is remembered is one the    *)
(* counter had, 0, or -1 (Esme.java, checkLinkRecvMessage()).              *)
(***************************************************************************)
LEMMA NoCount == 0 \in Counters
BY DEF Counters

LEMMA TypeInit == Init => TypeOK
<1> SUFFICES ASSUME Init PROVE TypeOK
  OBVIOUS
<1>1. counter \in [Kinds -> Counters] /\ current \in [Kinds -> Counters]
  BY NoCount DEF Init
<1>2. rx \in [Kinds -> Counters \cup {-1}]
  BY DEF Init
<1>3. /\ started \in BOOLEAN /\ seen \in BOOLEAN /\ listed \in BOOLEAN
      /\ linkRecvMessCheck \in BOOLEAN /\ linkStartFirstTime \in BOOLEAN
  BY DEF Init
<1>4. quiet \in 0 .. 2
  BY DEF Init
<1>5. heard = {} /\ stale = {} /\ renewed = {}
  BY DEF Init
<1>6. session = "none" /\ pc = "wait" /\ handler = "done" /\ admin = "idle" /\ jmx = "idle"
  BY DEF Init
<1> QED
  BY <1>1, <1>2, <1>3, <1>4, <1>5, <1>6 DEF TypeOK

\* Counting anew is counting from 0.
LEMMA AnewTypes ==
    ASSUME TypeOK, NEW K \in SUBSET Kinds, CountAnew(K)
    PROVE  /\ counter' \in [Kinds -> Counters]
           /\ stale' \subseteq Kinds
           /\ renewed' \subseteq Kinds
<1>1. counter' \in [Kinds -> Counters]
  BY NoCount DEF CountAnew, TypeOK
<1>2. stale' \subseteq Kinds /\ renewed' \subseteq Kinds
  BY DEF CountAnew, TypeOK
<1> QED
  BY <1>1, <1>2

LEMMA HearTypes ==
    ASSUME TypeOK, NEW what \in Kinds \cup {"message"}, Hear(what)
    PROVE  heard' \subseteq Kinds \cup {"message"} /\ quiet' \in 0 .. 2
BY DEF Hear, TypeOK

LEMMA TypeStep == TypeOK /\ [Next]_vars => TypeOK'
<1> SUFFICES ASSUME TypeOK, [Next]_vars PROVE TypeOK'
  OBVIOUS
<1> USE DEF link, ops, others, history
<1>1. CASE SessionCreated
  <2>1. /\ counter' \in [Kinds -> Counters]
        /\ stale' \subseteq Kinds
        /\ renewed' \subseteq Kinds
    BY <1>1, AnewTypes DEF SessionCreated
  <2>2. quiet' \in 0 .. 2 /\ heard' \subseteq Kinds \cup {"message"}
    BY <1>1 DEF SessionCreated
  <2> QED
    BY <1>1, <2>1, <2>2 DEF SessionCreated, TypeOK
<1>2. CASE OnMessageReceived
  BY <1>2, HearTypes DEF OnMessageReceived, TypeOK
<1>3. ASSUME NEW k \in Kinds, Counted(k) PROVE TypeOK'
  <2>1. counter' \in [Kinds -> Counters]
    BY <1>3 DEF Counted, TypeOK, Counters
  <2> QED
    BY <1>3, <2>1, HearTypes DEF Counted, TypeOK
<1>4. CASE ServerReady \/ SetLinkStartFirstTime
  <2>1. CASE ServerReady
    BY <2>1 DEF ServerReady, TypeOK
  <2>2. CASE SetLinkStartFirstTime
    BY <2>2 DEF SetLinkStartFirstTime, TypeOK
  <2> QED
    BY <1>4, <2>1, <2>2
<1>5. CASE Disconnect \/ SessionDestroyed \/ StartEsme \/ StopEsme \/ StopWrappedSession
  <2>1. CASE Disconnect
    BY <2>1 DEF Disconnect, TypeOK
  <2>2. CASE SessionDestroyed
    BY <2>2 DEF SessionDestroyed, TypeOK
  <2>3. CASE StartEsme
    BY <2>3 DEF StartEsme, TypeOK
  <2>4. CASE StopEsme
    <3>1. started' \in BOOLEAN /\ admin' \in {"idle", "reset", "close"}
      BY <2>4 DEF StopEsme
    <3> QED
      BY <2>4, <3>1 DEF StopEsme, TypeOK
  <2>5. CASE StopWrappedSession
    <3>1. session' \in {"none", "bound", "closed"}
      BY <2>5 DEF StopWrappedSession, TypeOK
    <3> QED
      BY <2>5, <3>1 DEF StopWrappedSession, TypeOK
  <2> QED
    BY <1>5, <2>1, <2>2, <2>3, <2>4, <2>5
<1>6. CASE ResetLinkRecvMessage
  BY <1>6 DEF ResetLinkRecvMessage, TypeOK
<1>7. CASE ResetCounters
  BY <1>7, AnewTypes DEF ResetCounters, TypeOK
<1>8. CASE ResetRemembered
  <2>1. rx' \in [Kinds -> Counters \cup {-1}]
    BY <1>8, NoCount DEF ResetRemembered, TypeOK
  <2> QED
    BY <1>8, <2>1 DEF ResetRemembered, TypeOK
<1>9. ASSUME NEW k \in Kinds, CounterAndReset(k) PROVE TypeOK'
  BY <1>9, AnewTypes DEF CounterAndReset, TypeOK
<1>10. CASE OpsThread
  <2>1. CASE Due \/ GetSmppSession
    BY <2>1 DEF Due, GetSmppSession, Goto, TypeOK
  <2>2. CASE GetLinkStartFirstTime
    BY <2>2 DEF GetLinkStartFirstTime, Goto, TypeOK
  <2>3. CASE First
    BY <2>3 DEF First, LookOver, TypeOK
  <2>4. CASE Read
    BY <2>4 DEF Read, TypeOK
  <2>5. CASE Compare
    BY <2>5 DEF Compare, Goto, TypeOK
  <2>6. CASE Remember
    <3>1. current' \in [Kinds -> Counters] /\ rx' \in [Kinds -> Counters \cup {-1}]
      BY <2>6, NoCount DEF Remember, TypeOK
    <3> QED
      BY <2>6, <3>1 DEF Remember, TypeOK
  <2>7. CASE Decide
    BY <2>7 DEF Decide, Goto, TypeOK
  <2>8. CASE Drop
    <3>1. session' \in {"none", "bound", "closed"}
      BY <2>8 DEF Drop, TypeOK
    <3> QED
      BY <2>8, <3>1 DEF Drop, LookOver, TypeOK
  <2>9. CASE ClearFlag
    BY <2>9 DEF ClearFlag, LookOver, TypeOK
  <2> QED
    BY <1>10, <2>1, <2>2, <2>3, <2>4, <2>5, <2>6, <2>7, <2>8, <2>9 DEF OpsThread
<1>11. CASE UNCHANGED vars
  BY <1>11 DEF vars, TypeOK
<1> QED
  BY <1>1, <1>2, <1>3, <1>4, <1>5, <1>6, <1>7, <1>8, <1>9, <1>10, <1>11
     DEF Next, Message, Handler, Stopping, Jmx

THEOREM TypeCorrect == Spec => []TypeOK
BY TypeInit, TypeStep, PTL DEF Spec

-----------------------------------------------------------------------------
(***************************************************************************)
(* The inductive invariant.  Until a look has compared the counts, whatever*)
(* has been heard can be seen: in the flag, in a count that is ahead of    *)
(* what is remembered of it, or it is of a stale kind.  It is also counted:*)
(* resetCounters() then hides nothing when it sets what is remembered to 0.*)
(***************************************************************************)
\* The count that the next comparison will see.
Shown(k) == IF pc = "compare" THEN current[k] ELSE counter[k]

Listening == pc \notin {"remember", "decide", "drop", "clear"}

HeardIsVisible ==
    Listening =>
        /\ "message" \in heard => linkRecvMessCheck
        /\ \A k \in Kinds :
              k \in heard => Shown(k) > 0 /\ (k \in stale \/ rx[k] < Shown(k))

FreshIsBehind == \A k \in Kinds : k \in stale \/ rx[k] <= counter[k]

ReadIsBehind ==
    pc \in {"compare", "remember"} =>
        \A k \in Kinds : k \in renewed \/ current[k] <= counter[k]

IInv == TypeOK /\ HeardIsVisible /\ FreshIsBehind /\ ReadIsBehind

\* The invariant holds before any connection.
LEMMA SilentInit == Init => IInv
<1> SUFFICES ASSUME Init PROVE IInv
  OBVIOUS
<1>1. TypeOK
  BY TypeInit
<1>2. HeardIsVisible /\ ReadIsBehind
  BY DEF Init, HeardIsVisible, ReadIsBehind
<1>3. FreshIsBehind
  <2> SUFFICES ASSUME NEW k \in Kinds PROVE rx[k] <= counter[k]
    BY DEF FreshIsBehind
  <2>1. rx[k] = -1 /\ counter[k] = 0
    BY DEF Init
  <2> QED
    BY <2>1
<1> QED
  BY <1>1, <1>2, <1>3 DEF IInv

\* What counting anew does to one kind.
LEMMA AnewOne ==
    ASSUME TypeOK, NEW K \in SUBSET Kinds, CountAnew(K), NEW k \in Kinds
    PROVE  /\ k \in K => counter'[k] = 0 /\ (k \in stale' \/ rx[k] = -1)
           /\ k \notin K => counter'[k] = counter[k] /\ (k \in stale' <=> k \in stale)
           /\ pc \in {"compare", "remember"} =>
                 (k \in renewed' <=> k \in renewed \/ k \in K)
BY DEF CountAnew, Looked

\* What one message more does to one kind.
LEMMA CountedOne ==
    ASSUME TypeOK, NEW kind \in Kinds, Counted(kind), NEW k \in Kinds
    PROVE  counter'[k] = IF k = kind THEN counter[k] + 1 ELSE counter[k]
BY DEF Counted, TypeOK

LEMMA Numbers ==
    ASSUME TypeOK, NEW k \in Kinds
    PROVE  /\ rx[k] \in Int /\ rx[k] >= -1
           /\ counter[k] \in Nat /\ current[k] \in Nat
BY DEF TypeOK, Counters

\* What is remembered of a kind that is not stale never gets ahead of its count.
LEMMA FreshStep == TypeOK /\ FreshIsBehind /\ ReadIsBehind /\ [Next]_vars => FreshIsBehind'
<1> SUFFICES ASSUME TypeOK, FreshIsBehind, ReadIsBehind, [Next]_vars, NEW k \in Kinds
             PROVE  k \in stale' \/ rx'[k] <= counter'[k]
  BY DEF FreshIsBehind
<1> USE DEF link, ops, others, history
<1>0. rx[k] \in Int /\ rx[k] >= -1 /\ counter[k] \in Nat /\ current[k] \in Nat
  BY Numbers
<1>1. k \in stale \/ rx[k] <= counter[k]
  BY DEF FreshIsBehind
<1>2. ASSUME NEW K \in SUBSET Kinds, CountAnew(K), rx' = rx
      PROVE  k \in stale' \/ rx'[k] <= counter'[k]
  <2>1. CASE k \in K
    BY <1>2, <2>1, AnewOne
  <2>2. CASE k \notin K
    BY <1>1, <1>2, <2>2, AnewOne
  <2> QED
    BY <2>1, <2>2
<1>3. CASE SessionCreated
  BY <1>2, <1>3 DEF SessionCreated
<1>4. CASE ResetCounters
  BY <1>2, <1>4 DEF ResetCounters
<1>5. ASSUME NEW kind \in Kinds, CounterAndReset(kind)
      PROVE  k \in stale' \/ rx'[k] <= counter'[k]
  BY <1>2, <1>5 DEF CounterAndReset
<1>6. ASSUME NEW kind \in Kinds, Counted(kind)
      PROVE  k \in stale' \/ rx'[k] <= counter'[k]
  <2>1. counter'[k] = counter[k] \/ counter'[k] = counter[k] + 1
    BY <1>6, CountedOne
  <2>2. rx' = rx /\ stale' = stale
    BY <1>6 DEF Counted
  <2> QED
    BY <1>0, <1>1, <2>1, <2>2
<1>7. CASE ResetRemembered
  <2>1. counter' = counter
    BY <1>7 DEF ResetRemembered
  <2>2. CASE k = EnquireLink
    <3>1. rx'[k] = 0
      BY <1>7, <2>2 DEF ResetRemembered, TypeOK
    <3> QED
      BY <1>0, <2>1, <3>1
  <2>3. CASE k # EnquireLink
    <3>1. rx'[k] = rx[k] /\ (k \in stale' <=> k \in stale)
      BY <1>7, <2>3 DEF ResetRemembered, TypeOK
    <3> QED
      BY <1>1, <2>1, <3>1
  <2> QED
    BY <2>2, <2>3
<1>8. CASE ResetLinkRecvMessage
  BY <1>0, <1>8 DEF ResetLinkRecvMessage
<1>9. CASE Remember
  <2>1. k \in renewed \/ current[k] <= counter[k]
    BY <1>9 DEF Remember, ReadIsBehind
  <2> QED
    BY <1>9, <2>1 DEF Remember
<1>10. CASE Due \/ GetSmppSession \/ GetLinkStartFirstTime \/ First
  BY <1>1, <1>10 DEF Due, GetSmppSession, GetLinkStartFirstTime, First
<1>11. CASE Read \/ Compare \/ Decide \/ Drop \/ ClearFlag
  BY <1>1, <1>11 DEF Read, Compare, Decide, Drop, ClearFlag
<1>12. CASE \/ OnMessageReceived \/ Disconnect \/ SessionDestroyed \/ ServerReady
            \/ SetLinkStartFirstTime
  BY <1>1, <1>12 DEF OnMessageReceived, Disconnect, SessionDestroyed, ServerReady,
                     SetLinkStartFirstTime
<1>13. CASE StartEsme \/ StopEsme \/ StopWrappedSession \/ UNCHANGED vars
  BY <1>1, <1>13 DEF StartEsme, StopEsme, StopWrappedSession, vars
<1> QED
  BY <1>3, <1>4, <1>5, <1>6, <1>7, <1>8, <1>9, <1>10, <1>11, <1>12, <1>13
     DEF Next, Message, OpsThread, Handler, Stopping, Jmx

\* Nor does what was read, unless the kind is counted anew.
LEMMA ReadStep == TypeOK /\ ReadIsBehind /\ [Next]_vars => ReadIsBehind'
<1> SUFFICES ASSUME TypeOK, ReadIsBehind, [Next]_vars, pc' \in {"compare", "remember"},
                    NEW k \in Kinds
             PROVE  k \in renewed' \/ current'[k] <= counter'[k]
  BY DEF ReadIsBehind
<1> USE DEF link, ops, others, history, Goto
<1>0. counter[k] \in Nat /\ current[k] \in Nat
  BY Numbers
<1>1. pc \in {"compare", "remember"} => k \in renewed \/ current[k] <= counter[k]
  BY DEF ReadIsBehind
<1>2. ASSUME NEW K \in SUBSET Kinds, CountAnew(K), current' = current, pc' = pc
      PROVE  k \in renewed' \/ current'[k] <= counter'[k]
  BY <1>1, <1>2, AnewOne
<1>3. CASE SessionCreated
  BY <1>2, <1>3 DEF SessionCreated
<1>4. CASE ResetCounters
  BY <1>2, <1>4 DEF ResetCounters
<1>5. ASSUME NEW kind \in Kinds, CounterAndReset(kind)
      PROVE  k \in renewed' \/ current'[k] <= counter'[k]
  BY <1>2, <1>5 DEF CounterAndReset
<1>6. ASSUME NEW kind \in Kinds, Counted(kind)
      PROVE  k \in renewed' \/ current'[k] <= counter'[k]
  <2>1. counter'[k] = counter[k] \/ counter'[k] = counter[k] + 1
    BY <1>6, CountedOne
  <2>2. pc' = pc /\ current' = current /\ renewed' = renewed
    BY <1>6 DEF Counted
  <2> QED
    BY <1>0, <1>1, <2>1, <2>2
<1>7. CASE ResetRemembered \/ ResetLinkRecvMessage
  BY <1>1, <1>7 DEF ResetRemembered, ResetLinkRecvMessage
<1>8. CASE Read
  BY <1>0, <1>8 DEF Read
<1>9. CASE Compare
  BY <1>1, <1>9 DEF Compare
<1>10. CASE Due \/ GetSmppSession \/ GetLinkStartFirstTime \/ First
  BY <1>10 DEF Due, GetSmppSession, GetLinkStartFirstTime, First, LookOver
<1>11. CASE Remember \/ Decide \/ Drop \/ ClearFlag
  BY <1>11 DEF Remember, Decide, Drop, ClearFlag, LookOver
<1>12. CASE \/ OnMessageReceived \/ Disconnect \/ SessionDestroyed \/ ServerReady
            \/ SetLinkStartFirstTime
  BY <1>1, <1>12 DEF OnMessageReceived, Disconnect, SessionDestroyed, ServerReady,
                     SetLinkStartFirstTime
<1>13. CASE StartEsme \/ StopEsme \/ StopWrappedSession \/ UNCHANGED vars
  BY <1>1, <1>13 DEF StartEsme, StopEsme, StopWrappedSession, vars
<1> QED
  BY <1>3, <1>4, <1>5, <1>6, <1>7, <1>8, <1>9, <1>10, <1>11, <1>12, <1>13
     DEF Next, Message, OpsThread, Handler, Stopping, Jmx

\* Everything heard stays visible until the operations thread has looked.
LEMMA HeardStep == IInv /\ [Next]_vars => HeardIsVisible'
<1> DEFINE Seen(k) == /\ Shown(k)' > 0
                      /\ k \in stale' \/ rx'[k] < Shown(k)'
<1> SUFFICES ASSUME IInv, [Next]_vars, Listening'
             PROVE  /\ "message" \in heard' => linkRecvMessCheck'
                    /\ \A k \in Kinds : k \in heard' => Seen(k)
  BY DEF HeardIsVisible
<1> USE DEF link, ops, others, history, Goto
<1>0. TypeOK /\ FreshIsBehind
  BY DEF IInv
<1>a. Listening => /\ "message" \in heard => linkRecvMessCheck
                   /\ \A k \in Kinds : k \in heard =>
                         Shown(k) > 0 /\ (k \in stale \/ rx[k] < Shown(k))
  BY DEF IInv, HeardIsVisible
\* Kinds that are counted anew are forgotten, the others stay as they are.
<1>1. ASSUME NEW K \in SUBSET Kinds, CountAnew(K), heard' = heard \ K,
             UNCHANGED <<rx, pc, current, linkRecvMessCheck>>
      PROVE  /\ "message" \in heard' => linkRecvMessCheck'
             /\ \A k \in Kinds : k \in heard' => Seen(k)
  <2>1. Listening
    BY <1>1 DEF Listening
  <2>2. ASSUME NEW k \in Kinds, k \in heard' PROVE Seen(k)
    <3>1. k \in heard /\ k \notin K
      BY <1>1, <2>2
    <3>2. Shown(k)' = Shown(k)
      BY <1>0, <1>1, <3>1, AnewOne DEF Shown
    <3>3. k \in stale' <=> k \in stale
      BY <1>0, <1>1, <3>1, AnewOne
    <3> QED
      BY <1>a, <1>1, <2>1, <3>1, <3>2, <3>3
  <2> QED
    BY <1>a, <1>1, <2>1, <2>2
<1>2. CASE SessionCreated
  BY <1>2 DEF SessionCreated
<1>3. CASE ResetCounters
  BY <1>1, <1>3 DEF ResetCounters
<1>4. ASSUME NEW kind \in Kinds, CounterAndReset(kind)
      PROVE  /\ "message" \in heard' => linkRecvMessCheck'
             /\ \A k \in Kinds : k \in heard' => Seen(k)
  BY <1>1, <1>4 DEF CounterAndReset
<1>5. CASE OnMessageReceived
  <2>1. Listening /\ linkRecvMessCheck'
    BY <1>5 DEF OnMessageReceived, Listening
  <2>2. ASSUME NEW k \in Kinds, k \in heard' PROVE Seen(k)
    <3>1. k \in heard
      BY <1>5, <2>2 DEF OnMessageReceived, Hear
    <3>2. Shown(k)' = Shown(k) /\ stale' = stale /\ rx' = rx
      BY <1>5 DEF OnMessageReceived, Shown
    <3> QED
      BY <1>a, <2>1, <3>1, <3>2
  <2> QED
    BY <2>1, <2>2
<1>6. ASSUME NEW kind \in Kinds, Counted(kind)
      PROVE  /\ "message" \in heard' => linkRecvMessCheck'
             /\ \A k \in Kinds : k \in heard' => Seen(k)
  <2>1. Listening /\ UNCHANGED <<pc, current, rx, stale, linkRecvMessCheck>>
    BY <1>6 DEF Counted, Listening
  <2>2. "message" \in heard' => linkRecvMessCheck'
    BY <1>a, <1>6, <2>1 DEF Counted, Hear
  <2>3. ASSUME NEW k \in Kinds, k \in heard' PROVE Seen(k)
    <3>0. rx[k] \in Int /\ counter[k] \in Nat /\ current[k] \in Nat
      BY <1>0, Numbers
    <3>1. CASE pc = "compare"
      <4>1. k \in heard /\ Shown(k)' = Shown(k)
        BY <1>6, <2>1, <2>3, <3>1 DEF Counted, Hear, Shown
      <4> QED
        BY <1>a, <2>1, <4>1
    <3>2. CASE pc # "compare" /\ k = kind
      <4>1. Shown(k)' = counter[k] + 1
        BY <1>0, <1>6, <2>1, <3>2, CountedOne DEF Shown
      <4>2. k \in stale \/ rx[k] <= counter[k]
        BY <1>0 DEF FreshIsBehind
      <4> QED
        BY <2>1, <3>0, <4>1, <4>2
    <3>3. CASE pc # "compare" /\ k # kind
      <4>1. k \in heard
        BY <1>6, <2>3, <3>3 DEF Counted, Hear
      <4>2. Shown(k)' = Shown(k)
        BY <1>0, <1>6, <2>1, <3>3, CountedOne DEF Shown
      <4> QED
        BY <1>a, <2>1, <4>1, <4>2
    <3> QED
      BY <3>1, <3>2, <3>3
  <2> QED
    BY <2>2, <2>3
<1>7. CASE ResetLinkRecvMessage \/ ResetRemembered
  <2>1. Listening /\ UNCHANGED <<pc, counter, current, heard, linkRecvMessCheck>>
    BY <1>7 DEF ResetLinkRecvMessage, ResetRemembered, Listening
  <2>2. ASSUME NEW k \in Kinds, k \in heard PROVE Seen(k)
    <3>0. Shown(k) \in Nat /\ rx[k] \in Int
      BY <1>0, Numbers DEF Shown
    <3>1. Shown(k)' = Shown(k)
      BY <2>1 DEF Shown
    <3>2. Shown(k) > 0 /\ (k \in stale \/ rx[k] < Shown(k))
      BY <1>a, <2>1, <2>2
    <3>3. \/ rx'[k] = -1
          \/ rx'[k] = 0
          \/ rx'[k] = rx[k] /\ (k \in stale' <=> k \in stale)
      BY <1>0, <1>7 DEF ResetLinkRecvMessage, ResetRemembered, TypeOK
    <3> QED
      BY <3>0, <3>1, <3>2, <3>3
  <2> QED
    BY <1>a, <2>1, <2>2
<1>8. CASE Read
  <2>1. Listening /\ UNCHANGED <<heard, linkRecvMessCheck, rx, stale>>
    BY <1>8 DEF Read, Listening
  <2>2. \A k \in Kinds : Shown(k)' = Shown(k)
    BY <1>8 DEF Read, Shown
  <2> QED
    BY <1>a, <2>1, <2>2
<1>9. CASE First \/ Drop \/ ClearFlag
  BY <1>9 DEF First, Drop, ClearFlag
<1>10. CASE Compare \/ Remember \/ Decide
  BY <1>10 DEF Compare, Remember, Decide, Listening
<1>11. CASE Due \/ GetSmppSession \/ GetLinkStartFirstTime
  <2>1. Listening /\ UNCHANGED <<heard, linkRecvMessCheck, rx, stale>>
    BY <1>11 DEF Due, GetSmppSession, GetLinkStartFirstTime, Listening
  <2>2. \A k \in Kinds : Shown(k)' = Shown(k)
    BY <1>11 DEF Due, GetSmppSession, GetLinkStartFirstTime, Shown
  <2> QED
    BY <1>a, <2>1, <2>2
<1>12. CASE \/ Disconnect \/ SessionDestroyed \/ ServerReady \/ SetLinkStartFirstTime
            \/ StartEsme \/ StopEsme \/ StopWrappedSession \/ UNCHANGED vars
  <2>1. UNCHANGED <<pc, counter, current, heard, linkRecvMessCheck, rx, stale>>
    BY <1>12 DEF Disconnect, SessionDestroyed, ServerReady, SetLinkStartFirstTime,
                 StartEsme, StopEsme, StopWrappedSession, vars
  <2>2. Listening /\ \A k \in Kinds : Shown(k)' = Shown(k)
    BY <2>1 DEF Listening, Shown
  <2> QED
    BY <1>a, <2>1, <2>2
<1> QED
  BY <1>2, <1>3, <1>4, <1>5, <1>6, <1>7, <1>8, <1>9, <1>10, <1>11, <1>12
     DEF Next, Message, OpsThread, Handler, Stopping, Jmx

LEMMA SilentStep == IInv /\ [Next]_vars => IInv'
<1> SUFFICES ASSUME IInv, [Next]_vars PROVE IInv'
  OBVIOUS
<1>1. TypeOK' /\ FreshIsBehind' /\ ReadIsBehind'
  BY TypeStep, FreshStep, ReadStep DEF IInv
<1>2. HeardIsVisible'
  BY HeardStep
<1> QED
  BY <1>1, <1>2 DEF IInv

(***************************************************************************)
(* serverLinkDown() finds a connection silent only if whatever came in     *)
(* since the period began is of a kind whose remembered count is stale.    *)
(***************************************************************************)
THEOREM SilentOnly == Spec => SilentIfDropped
<1>1. IInv /\ [Next]_vars => [Compare /\ ~linkRecvMessCheck' => heard \subseteq stale]_vars
  <2> SUFFICES ASSUME IInv, Compare, ~linkRecvMessCheck', NEW h \in heard
               PROVE  h \in stale
    OBVIOUS
  <2>1. Listening /\ TypeOK
    BY DEF Compare, Listening, IInv
  <2>2. ~linkRecvMessCheck /\ \A k \in Kinds : ~(rx[k] < Shown(k))
    BY DEF Compare, IInv, TypeOK, Shown
  <2>3. h \in Kinds
    BY <2>1, <2>2 DEF TypeOK, IInv, HeardIsVisible
  <2> QED
    BY <2>1, <2>2, <2>3 DEF IInv, HeardIsVisible
<1>2. Spec => []IInv
  BY SilentInit, SilentStep, PTL DEF Spec
<1> QED
  BY <1>1, <1>2, PTL DEF Spec, SilentIfDropped

-----------------------------------------------------------------------------
(***************************************************************************)
(* The converse.  Once the counters have been read with nothing coming in  *)
(* and nothing remembered being reset since, no count is ahead of what was *)
(* read, then of what is remembered, and the flag is set only until that   *)
(* look is over; a second look has nothing to see.                         *)
(***************************************************************************)
Looking == pc \in {"compare", "remember"}

NothingToSee ==
    /\ quiet # 0 /\ Looking => \A k \in Kinds : counter[k] <= current[k]
    /\ quiet # 0 /\ ~Looking => \A k \in Kinds : counter[k] <= rx[k]
    /\ quiet # 0 /\ linkRecvMessCheck => Looking \/ pc \in {"decide", "clear"}
    /\ quiet = 2 => ~linkRecvMessCheck
    /\ quiet = 2 /\ pc = "compare" => \A k \in Kinds : current[k] <= rx[k]

\* Counting anew leaves nothing to see where there was nothing.
LEMMA AnewSeesNothing ==
    ASSUME TypeOK, NothingToSee, NEW K \in SUBSET Kinds, CountAnew(K),
           UNCHANGED <<rx, pc, current, quiet, linkRecvMessCheck>>
    PROVE  NothingToSee'
<1>1. ASSUME NEW k \in Kinds
      PROVE  /\ counter[k] <= current[k] => counter'[k] <= current[k]
             /\ quiet # 0 /\ ~Looking => counter'[k] <= rx[k]
  <2>0. counter[k] \in Nat /\ current[k] \in Nat /\ rx[k] \in Int
    BY Numbers
  <2>1. counter'[k] = 0 \/ counter'[k] = counter[k]
    BY AnewOne
  <2>2. quiet # 0 /\ ~Looking => counter[k] <= rx[k]
    BY DEF NothingToSee
  <2> QED
    BY <2>0, <2>1, <2>2
<1>2. Looking' = Looking
  BY DEF Looking
<1> QED
  BY <1>1, <1>2 DEF NothingToSee

\* The steps of others leave nothing to see, or begin the count of looks anew.
LEMMA OthersSeeNothing ==
    ASSUME TypeOK, NothingToSee,
           \/ SessionCreated \/ Handler \/ Message \/ Disconnect \/ SessionDestroyed
           \/ StartEsme \/ StopEsme \/ Stopping \/ Jmx \/ UNCHANGED vars
    PROVE  NothingToSee'
<1> USE DEF link, ops, others, history
<1>1. CASE SessionCreated \/ Message \/ ResetLinkRecvMessage \/ ResetRemembered
  <2>1. quiet' = 0
    BY <1>1 DEF SessionCreated, Message, OnMessageReceived, Counted, Hear,
                ResetLinkRecvMessage, ResetRemembered
  <2> QED
    BY <2>1 DEF NothingToSee
<1>2. CASE ResetCounters
  BY <1>2, AnewSeesNothing DEF ResetCounters
<1>3. ASSUME NEW k \in Kinds, CounterAndReset(k) PROVE NothingToSee'
  BY <1>3, AnewSeesNothing DEF CounterAndReset
<1>4. CASE \/ Handler \/ Disconnect \/ SessionDestroyed \/ StartEsme \/ StopEsme
           \/ StopWrappedSession \/ UNCHANGED vars
  <2>1. UNCHANGED <<pc, counter, current, rx, quiet, linkRecvMessCheck>>
    BY <1>4 DEF Handler, ServerReady, SetLinkStartFirstTime, Disconnect, SessionDestroyed,
                StartEsme, StopEsme, StopWrappedSession, vars
  <2> QED
    BY <2>1 DEF NothingToSee, Looking
<1> QED
  BY <1>1, <1>2, <1>3, <1>4 DEF Stopping, Jmx

\* A look remembers every count, and clears the flag when it is done.
LEMMA LookSeesNothing ==
    ASSUME TypeOK, NothingToSee, OpsThread
    PROVE  NothingToSee'
<1> USE DEF link, ops, others, history, Goto
<1>1. CASE Due \/ GetSmppSession \/ GetLinkStartFirstTime \/ First
  BY <1>1 DEF Due, GetSmppSession, GetLinkStartFirstTime, First, LookOver, NothingToSee,
              Looking
<1>2. CASE Read
  <2>1. \A k \in Kinds : counter'[k] <= current'[k]
    BY <1>2, Numbers DEF Read
  <2>2. ~linkRecvMessCheck \/ quiet = 0
    BY <1>2 DEF Read, NothingToSee, Looking
  <2>3. quiet # 0 => \A k \in Kinds : current'[k] <= rx'[k]
    BY <1>2 DEF Read, NothingToSee, Looking
  <2>4. Looking' /\ linkRecvMessCheck' = linkRecvMessCheck /\ (quiet' = 2 => quiet # 0)
    BY <1>2 DEF Read, Looking
  <2> QED
    BY <2>1, <2>2, <2>3, <2>4 DEF NothingToSee
<1>3. CASE Compare
  <2>1. quiet = 2 => ~linkRecvMessCheck'
    <3> SUFFICES ASSUME quiet = 2, NEW k \in Kinds PROVE ~(rx[k] < current[k])
      BY <1>3 DEF Compare, NothingToSee
    <3>1. current[k] <= rx[k]
      BY <1>3 DEF Compare, NothingToSee
    <3> QED
      BY <3>1, Numbers
  <2>2. pc' = "remember" /\ Looking /\ Looking'
    BY <1>3 DEF Compare, Looking
  <2>3. UNCHANGED <<counter, current, rx, quiet>>
    BY <1>3 DEF Compare
  <2> QED
    BY <2>1, <2>2, <2>3 DEF NothingToSee
<1>4. CASE Remember
  <2>1. pc' = "decide" /\ rx' = current /\ UNCHANGED <<counter, quiet, linkRecvMessCheck>>
    BY <1>4 DEF Remember
  <2>2. Looking /\ ~Looking'
    BY <1>4, <2>1 DEF Remember, Looking
  <2> QED
    BY <2>1, <2>2 DEF NothingToSee
<1>5. CASE Decide \/ Drop
  BY <1>5 DEF Decide, Drop, LookOver, NothingToSee, Looking
<1>6. CASE ClearFlag
  BY <1>6 DEF ClearFlag, LookOver, NothingToSee, Looking
<1> QED
  BY <1>1, <1>2, <1>3, <1>4, <1>5, <1>6 DEF OpsThread

(***************************************************************************)
(* serverLinkDown() finds a silent connection so by its second look since  *)
(* anything came in, or anything remembered of it was reset.               *)
(***************************************************************************)
THEOREM SilentFound == Spec => SilentIsFound
<1>1. Init => NothingToSee
  BY DEF Init, NothingToSee
<1>2. TypeOK /\ NothingToSee /\ [Next]_vars => NothingToSee'
  BY OthersSeeNothing, LookSeesNothing DEF Next
<1>3. TypeOK /\ NothingToSee /\ [Next]_vars =>
        [Compare /\ quiet = 2 => ~linkRecvMessCheck']_vars
  <2> SUFFICES ASSUME TypeOK, NothingToSee, Compare, quiet = 2
               PROVE  ~linkRecvMessCheck'
    OBVIOUS
  <2>1. ~linkRecvMessCheck /\ pc = "compare"
    BY DEF Compare, NothingToSee
  <2>2. ASSUME NEW k \in Kinds PROVE ~(rx[k] < current[k])
    <3>1. current[k] <= rx[k]
      BY <2>1 DEF NothingToSee
    <3> QED
      BY <3>1, Numbers
  <2> QED
    BY <2>1, <2>2 DEF Compare
<1> QED
  BY <1>1, <1>2, <1>3, TypeCorrect, PTL DEF Spec, SilentIsFound

=============================================================================
