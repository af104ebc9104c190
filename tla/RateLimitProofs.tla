-------------------------- MODULE RateLimitProofs --------------------------
(***************************************************************************)
(* Proofs about RateLimit, for any number of threads, any domains and any  *)
(* limits: types, one first fault per period, the accounts and the limit.  *)
(***************************************************************************)
EXTENDS RateLimit, FiniteSetTheorems, TLAPS

\* The fields of a receiving thread, one change at a time.
LEMMA States ==
    ASSUME NEW s \in ThreadStates
    PROVE  /\ s.at \in Points /\ s.domain \in Domains /\ s.count \in Nat
           /\ s.counted \in BOOLEAN
           /\ \A d \in Domains : /\ [s EXCEPT !.domain = d] \in ThreadStates
                                 /\ [s EXCEPT !.domain = d].counted = s.counted
                                 /\ [s EXCEPT !.domain = d].at = s.at
           /\ [s EXCEPT !.counted = FALSE] \in ThreadStates
           /\ [s EXCEPT !.counted = FALSE].counted = FALSE
           /\ \A at \in Points, c \in BOOLEAN :
                 /\ [s EXCEPT !.at = at, !.counted = c] \in ThreadStates
                 /\ [s EXCEPT !.at = at, !.counted = c].counted = c
                 /\ [s EXCEPT !.at = at, !.counted = c].at = at
BY DEF ThreadStates

LEMMA Beginning ==
    /\ Idle \in ThreadStates /\ Idle.counted = FALSE
    /\ \A n \in Counts :
          /\ [Idle EXCEPT !.at = "add", !.count = n] \in ThreadStates
          /\ [Idle EXCEPT !.at = "add", !.count = n].counted = FALSE
<1>1. 1 \in Domains
  BY RateAssumption DEF Domains
<1>2. \A n \in Counts : n \in Nat
  BY RateAssumption
<1> QED BY <1>1, <1>2 DEF Idle, ThreadStates, Points

\* A thread that changes its own state to one of the type.
LEMMA ThreadType ==
    ASSUME TypeOK, NEW t \in Threads, NEW s \in ThreadStates,
           s.counted => s.at = "undo", thread' = [thread EXCEPT ![t] = s]
    PROVE  /\ thread' \in [Threads -> ThreadStates]
           /\ \A u \in Threads : thread'[u].counted => thread'[u].at = "undo"
BY DEF TypeOK

LEMMA ReceiveType ==
    ASSUME TypeOK, NEW t \in Threads, NEW n \in Counts, Receive(t, n)
    PROVE  TypeOK'
<1>1. /\ thread' \in [Threads -> ThreadStates]
      /\ \A u \in Threads : thread'[u].counted => thread'[u].at = "undo"
  BY Beginning, ThreadType DEF Receive
<1> QED BY <1>1 DEF Receive, TypeOK, counters, history

LEMMA AddType ==
    ASSUME TypeOK, NEW t \in Threads, AddWithin(t) \/ AddBeyond(t)
    PROVE  TypeOK'
<1> DEFINE d == thread[t].domain
           n == thread[t].count
<1>1. thread[t] \in ThreadStates /\ (thread[t].counted => thread[t].at = "undo")
  BY DEF TypeOK
<1>2. d \in Domains /\ n \in Nat
  BY <1>1, States
<1>3. thread[t].at = "add" /\ ~ thread[t].counted
  BY <1>1 DEF AddWithin, AddBeyond, At
<1>4. received' = [received EXCEPT ![d] = @ + n]
  BY DEF AddWithin, AddBeyond
<1>5. received' \in [Domains -> Int]
  BY <1>2, <1>4 DEF TypeOK
<1>6. passed' \in [Domains -> Nat]
  BY <1>2 DEF AddWithin, AddBeyond, TypeOK, history
<1>7. /\ thread' \in [Threads -> ThreadStates]
      /\ \A u \in Threads : thread'[u].counted => thread'[u].at = "undo"
  <2>1. CASE AddWithin(t)
    <3> DEFINE s == IF d + 1 \in Domains THEN [thread[t] EXCEPT !.domain = d + 1]
                    ELSE Idle
    <3>1. s \in ThreadStates /\ (s.counted => s.at = "undo")
      <4>1. CASE d + 1 \in Domains
        <5> DEFINE e == d + 1
                   r == [thread[t] EXCEPT !.domain = e]
        <5>1. s = r /\ e \in Domains
          BY <4>1
        <5> HIDE DEF e
        <5>2. r \in ThreadStates /\ r.counted = thread[t].counted
          BY <1>1, <5>1, States
        <5> HIDE DEF s, r
        <5> QED BY <1>3, <5>1, <5>2
      <4>2. CASE d + 1 \notin Domains
        BY <4>2, Beginning
      <4> QED BY <4>1, <4>2
    <3>2. thread' = [thread EXCEPT ![t] = s]
      BY <2>1 DEF AddWithin
    <3> HIDE DEF s
    <3> QED BY <3>1, <3>2, ThreadType
  <2>2. CASE AddBeyond(t)
    <3> DEFINE s == [thread[t] EXCEPT !.at = "undo", !.counted = TRUE]
    <3>1. s \in ThreadStates /\ s.at = "undo"
      BY <1>1, States DEF Points
    <3>2. thread' = [thread EXCEPT ![t] = s]
      BY <1>1, <2>2 DEF AddBeyond, TypeOK, ThreadStates
    <3> HIDE DEF s
    <3> QED BY <3>1, <3>2, ThreadType
  <2> QED BY <2>1, <2>2
<1> HIDE DEF d, n
<1> QED BY <1>5, <1>6, <1>7 DEF AddWithin, AddBeyond, TypeOK, history

LEMMA UndoType ==
    ASSUME TypeOK, NEW t \in Threads, Undo(t)
    PROVE  TypeOK'
<1> DEFINE d == thread[t].domain
           n == thread[t].count
           s == [thread[t] EXCEPT !.at = "extra", !.counted = FALSE]
<1>1. thread[t] \in ThreadStates
  BY DEF TypeOK
<1>2. d \in Domains /\ n \in Nat
  BY <1>1, States
<1>3. s \in ThreadStates /\ s.counted = FALSE
  BY <1>1, States DEF Points
<1>4. thread' = [thread EXCEPT ![t] = s]
  BY <1>1 DEF Undo, TypeOK, ThreadStates
<1>5. received' = [received EXCEPT ![d] = @ - n]
  BY DEF Undo
<1>6. late' = [late EXCEPT ![d] = IF thread[t].counted THEN @ ELSE @ + n]
  BY DEF Undo
<1> HIDE DEF d, n, s
<1>7. received' \in [Domains -> Int] /\ late' \in [Domains -> Nat]
  BY <1>2, <1>5, <1>6 DEF TypeOK
<1>8. /\ thread' \in [Threads -> ThreadStates]
      /\ \A u \in Threads : thread'[u].counted => thread'[u].at = "undo"
  BY <1>3, <1>4, ThreadType
<1> QED BY <1>7, <1>8 DEF Undo, TypeOK

LEMMA FaultType ==
    ASSUME TypeOK, NEW t \in Threads, Fault(t)
    PROVE  TypeOK'
<1> DEFINE d == thread[t].domain
<1>0. thread[t] \in ThreadStates
  BY DEF TypeOK
<1>1. d \in Domains
  BY <1>0, States
<1>2. /\ extra' = [extra EXCEPT ![d] = @ + 1]
      /\ firsts' = [firsts EXCEPT ![d] = IF extra[d] + 1 = 1 THEN @ + 1 ELSE @]
  BY DEF Fault
<1> HIDE DEF d
<1>3. extra' \in [Domains -> Nat] /\ firsts' \in [Domains -> Nat]
  BY <1>1, <1>2 DEF TypeOK
<1>4. /\ thread' \in [Threads -> ThreadStates]
      /\ \A u \in Threads : thread'[u].counted => thread'[u].at = "undo"
  BY Beginning, ThreadType DEF Fault
<1> QED BY <1>3, <1>4 DEF Fault, TypeOK

LEMMA ClearType ==
    ASSUME TypeOK, NEW c \in Clearers, NEW d \in Domains,
           Clear(c, d) \/ ClearReceived(c, d) \/ ClearExtra(c, d)
    PROVE  TypeOK'
<1>1. CASE Clear(c, d)
  <2>1. 1 .. d \subseteq Domains
    BY RateAssumption DEF Domains
  <2>2. clearer' \in [Clearers -> SUBSET ({"received", "extra"} \X Domains)]
    BY <1>1, <2>1 DEF Clear, TypeOK
  <2> QED BY <1>1, <2>2 DEF Clear, TypeOK, counters, history
<1>2. CASE ClearReceived(c, d)
  <2>1. clearer' \in [Clearers -> SUBSET ({"received", "extra"} \X Domains)]
    BY <1>2 DEF ClearReceived, Clears, TypeOK
  <2>2. /\ received' \in [Domains -> Int]
        /\ passed' \in [Domains -> Nat] /\ late' \in [Domains -> Nat]
    BY <1>2 DEF ClearReceived, TypeOK
  <2>3. \A u \in Threads :
          /\ thread'[u] \in ThreadStates
          /\ thread'[u].counted => thread'[u].at = "undo"
    <3> TAKE u \in Threads
    <3>1. /\ thread[u] \in ThreadStates
          /\ thread[u].counted => thread[u].at = "undo"
      BY DEF TypeOK
    <3>2. thread'[u] = IF thread[u].domain = d
                       THEN [thread[u] EXCEPT !.counted = FALSE] ELSE thread[u]
      BY <1>2 DEF ClearReceived
    <3>3. CASE thread[u].domain = d
      <4> DEFINE s == [thread[u] EXCEPT !.counted = FALSE]
      <4>1. thread'[u] = s
        BY <3>2, <3>3
      <4>2. s \in ThreadStates /\ s.counted = FALSE
        BY <3>1, States
      <4> HIDE DEF s
      <4> QED BY <4>1, <4>2
    <3>4. CASE thread[u].domain # d
      BY <3>1, <3>2, <3>4
    <3> QED BY <3>3, <3>4
  <2>4. thread' \in [Threads -> ThreadStates]
    BY <1>2, <2>3 DEF ClearReceived
  <2> QED BY <1>2, <2>1, <2>2, <2>3, <2>4 DEF ClearReceived, TypeOK
<1>3. CASE ClearExtra(c, d)
  <2>1. clearer' \in [Clearers -> SUBSET ({"received", "extra"} \X Domains)]
    BY <1>3 DEF ClearExtra, Clears, TypeOK
  <2>2. extra' \in [Domains -> Nat] /\ firsts' \in [Domains -> Nat]
    BY <1>3 DEF ClearExtra, TypeOK
  <2> QED BY <1>3, <2>1, <2>2 DEF ClearExtra, TypeOK
<1> QED BY <1>1, <1>2, <1>3

LEMMA TypeInit == Init => TypeOK
<1> SUFFICES ASSUME Init PROVE TypeOK
  OBVIOUS
<1>1. Zero \in [Domains -> Nat] /\ Zero \in [Domains -> Int]
  BY DEF Zero
<1>2. /\ thread \in [Threads -> ThreadStates]
      /\ \A t \in Threads : thread[t].counted => thread[t].at = "undo"
  BY Beginning DEF Init
<1> QED BY <1>1, <1>2 DEF Init, TypeOK

LEMMA TypeStep == TypeOK /\ [Next]_vars => TypeOK'
<1> SUFFICES ASSUME TypeOK, [Next]_vars PROVE TypeOK'
  OBVIOUS
<1>1. CASE Next
  BY <1>1, ReceiveType, AddType, UndoType, FaultType, ClearType DEF Next
<1>2. CASE UNCHANGED vars
  BY <1>2 DEF vars, counters, history, TypeOK
<1> QED BY <1>1, <1>2

\* However messages and clearings interleave, the counters keep their types:
\* only received may fall below zero, by messages that a clearing had forgotten.
THEOREM TypeCorrect == Spec => []TypeOK
BY TypeInit, TypeStep, PTL DEF Spec

-----------------------------------------------------------------------------
LEMMA FaultStep ==
    ASSUME TypeOK, OneFirstFault, [Next]_vars
    PROVE  OneFirstFault'
<1>1. ASSUME NEW t \in Threads, Fault(t)
      PROVE  OneFirstFault'
  <2> DEFINE d == thread[t].domain
  <2>0. thread[t] \in ThreadStates
    BY DEF TypeOK
  <2>1. d \in Domains
    BY <2>0, States
  <2>2. /\ extra' = [extra EXCEPT ![d] = @ + 1]
        /\ firsts' = [firsts EXCEPT ![d] = IF extra[d] + 1 = 1 THEN @ + 1 ELSE @]
    BY <1>1 DEF Fault
  <2> HIDE DEF d
  <2>3. ASSUME NEW e \in Domains
        PROVE  firsts'[e] = IF extra'[e] > 0 THEN 1 ELSE 0
    <3>1. /\ extra[e] \in Nat /\ firsts[e] \in Nat
          /\ firsts[e] = IF extra[e] > 0 THEN 1 ELSE 0
      BY DEF TypeOK, OneFirstFault
    <3>2. CASE e = d
      <4>1. /\ extra'[e] = extra[e] + 1
            /\ firsts'[e] = IF extra[e] + 1 = 1 THEN firsts[e] + 1 ELSE firsts[e]
        BY <2>1, <2>2, <3>2 DEF TypeOK
      <4> QED BY <3>1, <4>1
    <3>3. CASE e # d
      BY <2>2, <3>1, <3>3 DEF TypeOK
    <3> QED BY <3>2, <3>3
  <2> QED BY <2>3 DEF OneFirstFault
<1>2. ASSUME NEW c \in Clearers, NEW d \in Domains, ClearExtra(c, d)
      PROVE  OneFirstFault'
  BY <1>2 DEF ClearExtra, TypeOK, OneFirstFault
<1>3. CASE UNCHANGED <<extra, firsts>>
  BY <1>3 DEF OneFirstFault
<1> QED
  BY <1>1, <1>2, <1>3 DEF Next, Receive, AddWithin, AddBeyond, Undo, Clear,
     ClearReceived, counters, history, vars

\* However many threads receive messages while the counters are cleared, exactly
\* one of those refused in a domain between two clearings is answered firstFault.
THEOREM AlwaysOneFirstFault == Spec => []OneFirstFault
<1>1. Init => OneFirstFault
  BY DEF Init, Zero, OneFirstFault
<1>2. TypeOK /\ OneFirstFault /\ [Next]_vars => OneFirstFault'
  BY FaultStep
<1> QED BY TypeCorrect, <1>1, <1>2, PTL DEF Spec

-----------------------------------------------------------------------------
(***************************************************************************)
(* The accounts.  The messages about to be taken back are a finite set at  *)
(* any time: that they are one is part of the invariant.                   *)
(***************************************************************************)
Countable == \A d \in Domains : IsFiniteSet(Undoing(thread, d))

\* The messages of one thread.
Batch(t, n) == {t} \X (1 .. n)

LEMMA BatchSize ==
    ASSUME NEW t, NEW n \in Nat
    PROVE  IsFiniteSet(Batch(t, n)) /\ Cardinality(Batch(t, n)) = n
<1>1. IsFiniteSet({t}) /\ Cardinality({t}) = 1
  BY FS_Singleton
<1>2. IsFiniteSet(1 .. n) /\ Cardinality(1 .. n) = n
  <2>1. 1 \in Int /\ n \in Int
    OBVIOUS
  <2>2. IsFiniteSet(1 .. n) /\ Cardinality(1 .. n) = IF 1 > n THEN 0 ELSE n - 1 + 1
    BY <2>1, FS_Interval
  <2> QED BY <2>2
<1>3. /\ IsFiniteSet({t} \X (1 .. n))
      /\ Cardinality({t} \X (1 .. n)) = Cardinality({t}) * Cardinality(1 .. n)
  BY <1>1, <1>2, FS_Product
<1>4. Cardinality({t}) * Cardinality(1 .. n) = n
  BY <1>1, <1>2
<1> QED BY <1>3, <1>4 DEF Batch

\* A message belongs to the thread that received it.
LEMMA OfThread ==
    ASSUME NEW threads, NEW d, NEW m
    PROVE  m \in Undoing(threads, d) <=> \E t \in Threads :
              /\ threads[t].counted /\ threads[t].domain = d
              /\ m \in Batch(t, threads[t].count)
BY DEF Undoing, Batch

LEMMA BatchApart ==
    ASSUME NEW t, NEW u, NEW n, NEW k, NEW m, m \in Batch(t, n), m \in Batch(u, k)
    PROVE  t = u
BY DEF Batch

\* As long as the counted messages stay what they are, so does the set.
LEMMA UndoingSame ==
    ASSUME NEW old, NEW new, NEW d,
           \A t \in Threads : new[t].counted /\ new[t].domain = d
                                  <=> old[t].counted /\ old[t].domain = d,
           \A t \in Threads : old[t].counted /\ old[t].domain = d
                                  => new[t].count = old[t].count
    PROVE  Undoing(new, d) = Undoing(old, d)
<1>1. \A m : m \in Undoing(new, d) <=> m \in Undoing(old, d)
  BY OfThread
<1> QED BY <1>1

LEMMA ReceiveCount ==
    ASSUME TypeOK, Accounted, Countable, NEW t \in Threads, NEW n \in Counts,
           Receive(t, n)
    PROVE  Accounted' /\ Countable'
<1>1. ~ thread[t].counted
  BY DEF TypeOK, Receive, At
<1>2. /\ ~ thread'[t].counted
      /\ \A u \in Threads : u # t => thread'[u] = thread[u]
  BY Beginning DEF Receive, TypeOK
<1>3. ASSUME NEW d \in Domains
      PROVE  Undoing(thread', d) = Undoing(thread, d)
  BY <1>1, <1>2, UndoingSame
<1> QED BY <1>3 DEF Receive, Accounted, Countable, counters, history

LEMMA WithinCount ==
    ASSUME TypeOK, Accounted, Countable, NEW t \in Threads, AddWithin(t)
    PROVE  Accounted' /\ Countable'
<1> DEFINE d == thread[t].domain
           n == thread[t].count
<1>1. /\ thread[t] \in ThreadStates /\ thread[t].at = "add" /\ ~ thread[t].counted
      /\ d \in Domains /\ n \in Nat
  BY States DEF TypeOK, AddWithin, At
<1>2. ~ thread'[t].counted
  <2> DEFINE e == d + 1
             s == IF e \in Domains THEN [thread[t] EXCEPT !.domain = e] ELSE Idle
  <2>1. thread' = [thread EXCEPT ![t] = s]
    BY DEF AddWithin
  <2> HIDE DEF e
  <2>2. s.counted = FALSE
    <3>1. CASE e \in Domains
      <4> DEFINE r == [thread[t] EXCEPT !.domain = e]
      <4>1. s = r
        BY <3>1
      <4>2. r.counted = thread[t].counted
        BY <1>1, <3>1, States
      <4>3. thread[t].counted = FALSE
        BY <1>1, States
      <4> HIDE DEF s, r
      <4> QED BY <4>1, <4>2, <4>3
    <3>2. CASE e \notin Domains
      BY <3>2, Beginning
    <3> QED BY <3>1, <3>2
  <2> HIDE DEF s
  <2> QED BY <2>1, <2>2 DEF TypeOK
<1>3. \A u \in Threads : u # t => thread'[u] = thread[u]
  BY DEF AddWithin, TypeOK
<1>4. \A e \in Domains : Undoing(thread', e) = Undoing(thread, e)
  BY <1>1, <1>2, <1>3, UndoingSame
<1>5. /\ received' = [received EXCEPT ![d] = @ + n]
      /\ passed' = [passed EXCEPT ![d] = @ + n] /\ late' = late
  BY DEF AddWithin
<1> HIDE DEF d, n
<1>6. ASSUME NEW e \in Domains
      PROVE  /\ received'[e] = passed'[e] + Cardinality(Undoing(thread', e)) - late'[e]
             /\ IsFiniteSet(Undoing(thread', e))
  <2>1. /\ received[e] = passed[e] + Cardinality(Undoing(thread, e)) - late[e]
        /\ IsFiniteSet(Undoing(thread, e)) /\ Cardinality(Undoing(thread, e)) \in Nat
    BY FS_CardinalityType DEF Accounted, Countable
  <2>2. received[e] \in Int /\ passed[e] \in Nat /\ late[e] \in Nat
    BY DEF TypeOK
  <2>3. /\ received'[e] = IF e = d THEN received[e] + n ELSE received[e]
        /\ passed'[e] = IF e = d THEN passed[e] + n ELSE passed[e]
    BY <1>1, <1>5 DEF TypeOK
  <2>4. received'[e] = passed'[e] + Cardinality(Undoing(thread, e)) - late'[e]
    BY <1>1, <1>5, <2>1, <2>2, <2>3
  <2> QED BY <1>4, <2>1, <2>4
<1> QED BY <1>6 DEF Accounted, Countable

LEMMA BeyondCount ==
    ASSUME TypeOK, Accounted, Countable, NEW t \in Threads, AddBeyond(t)
    PROVE  Accounted' /\ Countable'
<1> DEFINE d == thread[t].domain
           n == thread[t].count
<1>1. /\ thread[t] \in ThreadStates /\ thread[t].at = "add" /\ ~ thread[t].counted
      /\ d \in Domains /\ n \in Nat
  BY States DEF TypeOK, AddBeyond, At
<1>2. thread'[t].counted /\ thread'[t].domain = d /\ thread'[t].count = n
  BY <1>1 DEF AddBeyond, TypeOK, ThreadStates
<1>3. \A u \in Threads : u # t => thread'[u] = thread[u]
  BY DEF AddBeyond, TypeOK
<1>4. /\ received' = [received EXCEPT ![d] = @ + n]
      /\ passed' = passed /\ late' = late
  BY DEF AddBeyond, history
<1> HIDE DEF d, n
<1>5. Undoing(thread', d) = Undoing(thread, d) \cup Batch(t, n)
  <2>1. \A m : m \in Undoing(thread', d) <=> m \in Undoing(thread, d) \cup Batch(t, n)
    BY <1>1, <1>2, <1>3, OfThread
  <2> QED BY <2>1
<1>6. Undoing(thread, d) \cap Batch(t, n) = {}
  BY <1>1, OfThread, BatchApart
<1>7. \A e \in Domains : e # d => Undoing(thread', e) = Undoing(thread, e)
  <2>1. ASSUME NEW e \in Domains, e # d
        PROVE  Undoing(thread', e) = Undoing(thread, e)
    BY <1>1, <1>2, <1>3, <2>1, UndoingSame
  <2> QED BY <2>1
<1>8. ASSUME NEW e \in Domains
      PROVE  /\ received'[e] = passed'[e] + Cardinality(Undoing(thread', e)) - late'[e]
             /\ IsFiniteSet(Undoing(thread', e))
  <2>1. /\ received[e] = passed[e] + Cardinality(Undoing(thread, e)) - late[e]
        /\ IsFiniteSet(Undoing(thread, e)) /\ Cardinality(Undoing(thread, e)) \in Nat
    BY FS_CardinalityType DEF Accounted, Countable
  <2>2. received[e] \in Int /\ passed[e] \in Nat /\ late[e] \in Nat
    BY DEF TypeOK
  <2>3. received'[e] = IF e = d THEN received[e] + n ELSE received[e]
    BY <1>1, <1>4 DEF TypeOK
  <2>4. CASE e = d
    <3>1. IsFiniteSet(Batch(t, n)) /\ Cardinality(Batch(t, n)) = n
      BY <1>1, BatchSize
    <3>2. /\ IsFiniteSet(Undoing(thread, d) \cup Batch(t, n))
          /\ Cardinality(Undoing(thread, d) \cup Batch(t, n)) =
                Cardinality(Undoing(thread, d)) + Cardinality(Batch(t, n)) - Cardinality({})
      BY <1>6, <2>1, <2>4, <3>1, FS_Union
    <3>3. Cardinality(Undoing(thread, d) \cup Batch(t, n)) = Cardinality(Undoing(thread, d)) + n
      BY <1>1, <2>1, <2>4, <3>1, <3>2, FS_EmptySet
    <3>4. received'[e] = passed'[e] + Cardinality(Undoing(thread, d) \cup Batch(t, n)) - late'[e]
      BY <1>1, <1>4, <2>1, <2>2, <2>3, <2>4, <3>3
    <3> QED BY <1>5, <2>4, <3>2, <3>4
  <2>5. CASE e # d
    BY <1>4, <1>7, <2>1, <2>3, <2>5
  <2> QED BY <2>4, <2>5
<1> QED BY <1>8 DEF Accounted, Countable

LEMMA UndoCount ==
    ASSUME TypeOK, Accounted, Countable, NEW t \in Threads, Undo(t)
    PROVE  Accounted' /\ Countable'
<1> DEFINE d == thread[t].domain
           n == thread[t].count
<1>1. /\ thread[t] \in ThreadStates /\ d \in Domains /\ n \in Nat
      /\ thread[t].counted \in BOOLEAN
  BY States DEF TypeOK
<1>2. ~ thread'[t].counted
  BY <1>1 DEF Undo, TypeOK, ThreadStates
<1>3. \A u \in Threads : u # t => thread'[u] = thread[u]
  BY DEF Undo, TypeOK
<1>4. /\ received' = [received EXCEPT ![d] = @ - n]
      /\ late' = [late EXCEPT ![d] = IF thread[t].counted THEN @ ELSE @ + n]
      /\ passed' = passed
  BY DEF Undo
<1> HIDE DEF d, n
<1>5. Undoing(thread', d) = IF thread[t].counted THEN Undoing(thread, d) \ Batch(t, n) ELSE Undoing(thread, d)
  <2>1. CASE thread[t].counted
    <3>1. \A m : m \in Undoing(thread', d) <=> m \in Undoing(thread, d) \ Batch(t, n)
      BY <1>2, <1>3, OfThread, BatchApart DEF n
    <3> QED BY <2>1, <3>1
  <2>2. CASE ~ thread[t].counted
    BY <1>2, <1>3, <2>2, UndoingSame
  <2> QED BY <2>1, <2>2
<1>6. thread[t].counted => Batch(t, n) \subseteq Undoing(thread, d)
  BY OfThread DEF d, n
<1>7. \A e \in Domains : e # d => Undoing(thread', e) = Undoing(thread, e)
  <2>1. ASSUME NEW e \in Domains, e # d
        PROVE  Undoing(thread', e) = Undoing(thread, e)
    BY <1>2, <1>3, <2>1, UndoingSame DEF d
  <2> QED BY <2>1
<1>8. ASSUME NEW e \in Domains
      PROVE  /\ received'[e] = passed'[e] + Cardinality(Undoing(thread', e)) - late'[e]
             /\ IsFiniteSet(Undoing(thread', e))
  <2>1. /\ received[e] = passed[e] + Cardinality(Undoing(thread, e)) - late[e]
        /\ IsFiniteSet(Undoing(thread, e)) /\ Cardinality(Undoing(thread, e)) \in Nat
    BY FS_CardinalityType DEF Accounted, Countable
  <2>2. received[e] \in Int /\ passed[e] \in Nat /\ late[e] \in Nat
    BY DEF TypeOK
  <2>3. /\ received'[e] = IF e = d THEN received[e] - n ELSE received[e]
        /\ late'[e] = IF e = d /\ ~ thread[t].counted THEN late[e] + n ELSE late[e]
    BY <1>1, <1>4 DEF TypeOK
  <2>4. CASE e = d /\ thread[t].counted
    <3>1. Cardinality(Batch(t, n)) = n
      BY <1>1, BatchSize
    <3>2. Undoing(thread, d) \cap Batch(t, n) = Batch(t, n)
      BY <1>6, <2>4
    <3>3. /\ IsFiniteSet(Undoing(thread, d) \ Batch(t, n))
          /\ Cardinality(Undoing(thread, d) \ Batch(t, n)) = Cardinality(Undoing(thread, d)) - n
      <4>1. /\ IsFiniteSet(Undoing(thread, d) \ Batch(t, n))
            /\ Cardinality(Undoing(thread, d) \ Batch(t, n)) =
                  Cardinality(Undoing(thread, d))
                      - Cardinality(Undoing(thread, d) \cap Batch(t, n))
        BY <2>1, <2>4, FS_Difference
      <4> QED BY <3>1, <3>2, <4>1
    <3>4. received'[e] = passed'[e] + Cardinality(Undoing(thread, d) \ Batch(t, n)) - late'[e]
      BY <1>1, <1>4, <2>1, <2>2, <2>3, <2>4, <3>3
    <3> QED BY <1>5, <2>4, <3>3, <3>4
  <2>5. CASE e = d /\ ~ thread[t].counted
    <3>1. Undoing(thread', e) = Undoing(thread, e)
      BY <1>5, <2>5
    <3>2. received'[e] = passed'[e] + Cardinality(Undoing(thread, e)) - late'[e]
      BY <1>1, <1>4, <2>1, <2>2, <2>3, <2>5
    <3> QED BY <2>1, <3>1, <3>2
  <2>6. CASE e # d
    BY <1>4, <1>7, <2>1, <2>3, <2>6
  <2> QED BY <2>4, <2>5, <2>6
<1> QED BY <1>8 DEF Accounted, Countable

LEMMA FaultCount ==
    ASSUME TypeOK, Accounted, Countable, NEW t \in Threads, Fault(t)
    PROVE  Accounted' /\ Countable'
<1>1. ~ thread[t].counted
  BY DEF TypeOK, Fault, At
<1>2. /\ ~ thread'[t].counted
      /\ \A u \in Threads : u # t => thread'[u] = thread[u]
  BY Beginning DEF Fault, TypeOK
<1>3. ASSUME NEW d \in Domains
      PROVE  Undoing(thread', d) = Undoing(thread, d)
  BY <1>1, <1>2, UndoingSame
<1> QED BY <1>3 DEF Fault, Accounted, Countable

LEMMA ClearCount ==
    ASSUME TypeOK, Accounted, Countable, NEW c \in Clearers, NEW d \in Domains,
           ClearReceived(c, d)
    PROVE  Accounted' /\ Countable'
<1>1. \A u \in Threads :
         /\ thread[u].domain = d => thread'[u].domain = d /\ ~ thread'[u].counted
         /\ thread[u].domain # d => thread'[u] = thread[u]
  BY States DEF ClearReceived, TypeOK, ThreadStates
<1>2. Undoing(thread', d) = {}
  <2>1. \A m : m \notin Undoing(thread', d)
    BY <1>1, OfThread
  <2> QED BY <2>1
<1>3. \A e \in Domains : e # d => Undoing(thread', e) = Undoing(thread, e)
  <2>1. ASSUME NEW e \in Domains, e # d
        PROVE  Undoing(thread', e) = Undoing(thread, e)
    BY <1>1, <2>1, UndoingSame
  <2> QED BY <2>1
<1>4. ASSUME NEW e \in Domains
      PROVE  /\ received'[e] = passed'[e] + Cardinality(Undoing(thread', e)) - late'[e]
             /\ IsFiniteSet(Undoing(thread', e))
  <2>1. CASE e = d
    <3>1. received'[e] = 0 /\ passed'[e] = 0 /\ late'[e] = 0
      BY <2>1 DEF ClearReceived, TypeOK
    <3>2. IsFiniteSet(Undoing(thread', e)) /\ Cardinality(Undoing(thread', e)) = 0
      BY <1>2, <2>1, FS_EmptySet
    <3> QED BY <3>1, <3>2
  <2>2. CASE e # d
    <3>1. received'[e] = received[e] /\ passed'[e] = passed[e] /\ late'[e] = late[e]
      BY <2>2 DEF ClearReceived, TypeOK
    <3> QED BY <1>3, <2>2, <3>1 DEF Accounted, Countable
  <2> QED BY <2>1, <2>2
<1> QED BY <1>4 DEF Accounted, Countable

LEMMA CountStep ==
    ASSUME TypeOK, Accounted, Countable, [Next]_vars
    PROVE  Accounted' /\ Countable'
<1>1. ASSUME UNCHANGED <<received, thread, passed, late>>
      PROVE  Accounted' /\ Countable'
  <2>1. \A d \in Domains : Undoing(thread', d) = Undoing(thread, d)
    BY <1>1 DEF Undoing
  <2> QED BY <1>1, <2>1 DEF Accounted, Countable
<1>2. ASSUME NEW t \in Threads,
             \/ \E n \in Counts : Receive(t, n)
             \/ AddWithin(t) \/ AddBeyond(t) \/ Undo(t) \/ Fault(t)
      PROVE  Accounted' /\ Countable'
  BY <1>2, ReceiveCount, WithinCount, BeyondCount, UndoCount, FaultCount
<1>3. ASSUME NEW c \in Clearers, NEW d \in Domains,
             Clear(c, d) \/ ClearReceived(c, d) \/ ClearExtra(c, d)
      PROVE  Accounted' /\ Countable'
  BY <1>1, <1>3, ClearCount DEF Clear, ClearExtra, counters, history
<1>4. CASE UNCHANGED vars
  BY <1>1, <1>4 DEF vars, counters, history
<1> QED BY <1>2, <1>3, <1>4 DEF Next

LEMMA Counting == Spec => [](Accounted /\ Countable)
<1>1. Init => Accounted /\ Countable
  <2> SUFFICES ASSUME Init PROVE Accounted /\ Countable
    OBVIOUS
  <2>1. \A t \in Threads : ~ thread[t].counted
    BY Beginning DEF Init
  <2>2. \A d \in Domains : Undoing(thread, d) = {}
    BY <2>1, OfThread
  <2>3. IsFiniteSet({}) /\ Cardinality({}) = 0
    BY FS_EmptySet
  <2>4. \A d \in Domains : received[d] = 0 /\ passed[d] = 0 /\ late[d] = 0
    BY DEF Init, Zero
  <2>5. ASSUME NEW d \in Domains
        PROVE  /\ received[d] = passed[d] + Cardinality(Undoing(thread, d)) - late[d]
               /\ IsFiniteSet(Undoing(thread, d))
    <3>1. Cardinality(Undoing(thread, d)) = 0 /\ IsFiniteSet(Undoing(thread, d))
      BY <2>2, <2>3
    <3> QED BY <2>4, <3>1
  <2> QED BY <2>5 DEF Accounted, Countable
<1>2. TypeOK /\ Accounted /\ Countable /\ [Next]_vars => (Accounted /\ Countable)'
  BY CountStep
<1> QED BY TypeCorrect, <1>1, <1>2, PTL DEF Spec

\* However messages and clearings interleave, a counter is the messages let
\* through, plus those about to be taken back, minus those that a clearing forgot.
THEOREM AlwaysAccounted == Spec => []Accounted
BY Counting, PTL

LEMMA LimitStep ==
    ASSUME TypeOK, Accounted, Countable, Limited, [Next]_vars
    PROVE  Limited'
<1>1. ASSUME NEW t \in Threads, AddWithin(t)
      PROVE  Limited'
  <2> DEFINE d == thread[t].domain
             n == thread[t].count
  <2>1. d \in Domains /\ n \in Nat
    <3>1. thread[t] \in ThreadStates
      BY DEF TypeOK
    <3> QED BY <3>1, States
  <2>2. /\ ~ (Limit[d] > 0 /\ received[d] + n > Limit[d])
        /\ passed' = [passed EXCEPT ![d] = @ + n] /\ late' = late
    BY <1>1 DEF AddWithin, Exceeds
  <2> HIDE DEF d, n
  <2>3. ASSUME NEW e \in Domains, Limit[e] > 0
        PROVE  passed'[e] <= Limit[e] + late'[e]
    <3>1. /\ received[e] = passed[e] + Cardinality(Undoing(thread, e)) - late[e]
          /\ Cardinality(Undoing(thread, e)) \in Nat
      BY FS_CardinalityType DEF Accounted, Countable
    <3>2. /\ received[e] \in Int /\ passed[e] \in Nat /\ late[e] \in Nat
          /\ Limit[e] \in Nat
      BY RateAssumption DEF TypeOK
    <3>3. passed'[e] = IF e = d THEN passed[e] + n ELSE passed[e]
      BY <2>1, <2>2 DEF TypeOK
    <3>4. passed[e] <= Limit[e] + late[e]
      BY <2>3 DEF Limited
    <3> QED BY <2>1, <2>2, <2>3, <3>1, <3>2, <3>3, <3>4
  <2> QED BY <2>3 DEF Limited
<1>2. ASSUME NEW t \in Threads, Undo(t)
      PROVE  Limited'
  <2>1. thread[t] \in ThreadStates
    BY DEF TypeOK
  <2>2. thread[t].domain \in Domains /\ thread[t].count \in Nat
    BY <2>1, States
  <2>3. \A e \in Domains : late'[e] >= late[e] /\ late'[e] \in Nat
    BY <1>2, <2>2 DEF Undo, TypeOK
  <2>4. \A e \in Domains : Limit[e] \in Nat /\ passed[e] \in Nat /\ late[e] \in Nat
    BY RateAssumption DEF TypeOK
  <2> QED BY <1>2, <2>3, <2>4 DEF Undo, Limited
<1>3. ASSUME NEW c \in Clearers, NEW d \in Domains, ClearReceived(c, d)
      PROVE  Limited'
  <2>1. ASSUME NEW e \in Domains
        PROVE  \/ passed'[e] = 0 /\ late'[e] = 0
               \/ passed'[e] = passed[e] /\ late'[e] = late[e]
    BY <1>3 DEF ClearReceived, TypeOK
  <2> QED BY <2>1, RateAssumption DEF Limited
<1>4. CASE UNCHANGED <<passed, late>>
  BY <1>4 DEF Limited
<1> QED
  BY <1>1, <1>2, <1>3, <1>4 DEF Next, Receive, AddBeyond, Fault, Clear, ClearExtra,
     counters, history, vars

\* However many threads receive at once, between two clearings of a domain no
\* more is let through than the limit and what the clearing had forgotten.
THEOREM AlwaysLimited == Spec => []Limited
<1>1. Init => Limited
  BY RateAssumption DEF Init, Zero, Limited
<1>2. TypeOK /\ Accounted /\ Countable /\ Limited /\ [Next]_vars => Limited'
  BY LimitStep
<1> QED BY TypeCorrect, Counting, <1>1, <1>2, PTL DEF Spec

=============================================================================
