------------------------- MODULE EsmeClusterProofs -------------------------
(***************************************************************************)
(* Proofs about EsmeCluster: for any ESMEs, however they come and go,      *)
(* getNextEsme() is a fair round robin and finds what can be found.        *)
(***************************************************************************)
EXTENDS EsmeCluster, SequenceTheorems, TLAPS

\* Every ESME is in the list at most once.
Distinct == \A j, k \in 0 .. Size - 1 : Get(j) = Get(k) => j = k

\* How many positions a walk round n has to go from position x to reach k.
Distance(n, x, k) ==
    IF x >= n THEN k + 1 ELSE IF k > x THEN k - x ELSE n - x + k

\* The same from the last position that was looked at: an index that has been
\* chosen and is still to be looked at counts as one.
Steps(looking, n, x, k) ==
    IF looking /\ x < n /\ k = x THEN 1
    ELSE IF looking /\ x < n THEN Distance(n, x, k) + 1
    ELSE Distance(n, x, k)

Ahead(k) == Steps(pc = "look", Size, index, k)

\* The turns an ESME has let pass and those still to come before its own do
\* not add up to more than one walk round the list.
TurnsInd ==
    \A k \in 0 .. Size - 1 : Get(k) \in available => turns[Get(k)] + Ahead(k) <= Size

\* What a call has still to look at, it has the iterations left to reach.
SearchInd ==
    /\ ~removed /\ pc # "idle" =>
          \A k \in 0 .. Size - 1 : Get(k) \in steady => i + Ahead(k) <= Size
    /\ ~removed /\ pc = "advance" => i < Size
    /\ ~removed /\ pc = "look" => index < Size

Ind == TypeOK /\ Distinct /\ TurnsInd /\ SearchInd /\ FindsAvailable

-----------------------------------------------------------------------------
(***************************************************************************)
(* The lists.                                                              *)
(***************************************************************************)
\* The elements of a sequence after RemoveAt(), as FastList.remove() leaves them.
LEMMA RemoveAtProperties ==
    ASSUME NEW S, NEW s \in Seq(S), NEW p \in 1 .. Len(s)
    PROVE  /\ RemoveAt(s, p) \in Seq(S)
           /\ Len(RemoveAt(s, p)) = Len(s) - 1
           /\ \A k \in 1 .. Len(s) - 1 :
                 RemoveAt(s, p)[k] = IF k < p THEN s[k] ELSE s[k + 1]
<1> DEFINE a == SubSeq(s, 1, p - 1)
           b == SubSeq(s, p + 1, Len(s))
<1>1. /\ Len(s) \in Nat
      /\ \A k \in 1 .. Len(s) : s[k] \in S
  BY LenProperties, ElementOfSeq
<1>2. /\ a \in Seq(S)
      /\ Len(a) = p - 1
      /\ \A k \in 1 .. p - 1 : a[k] = s[k]
  <2>1. \A k \in 1 .. p - 1 : s[k] \in S
    BY <1>1
  <2>2. 1 \in Int /\ p - 1 \in Int
    BY <1>1
  <2> HIDE DEF a
  <2>3. /\ SubSeq(s, 1, p - 1) \in Seq(S)
        /\ Len(SubSeq(s, 1, p - 1)) = IF 1 <= p - 1 THEN p - 1 - 1 + 1 ELSE 0
        /\ \A k \in 1 .. p - 1 - 1 + 1 : SubSeq(s, 1, p - 1)[k] = s[1 + k - 1]
    BY <2>1, <2>2, SubSeqProperties
  <2> QED BY <1>1, <2>3 DEF a
<1>3. /\ b \in Seq(S)
      /\ Len(b) = Len(s) - p
      /\ \A k \in 1 .. Len(s) - p : b[k] = s[p + k]
  <2>1. \A k \in p + 1 .. Len(s) : s[k] \in S
    BY <1>1
  <2>2. p + 1 \in Int /\ Len(s) \in Int
    BY <1>1
  <2> HIDE DEF b
  <2>3. /\ SubSeq(s, p + 1, Len(s)) \in Seq(S)
        /\ Len(SubSeq(s, p + 1, Len(s)))
              = IF p + 1 <= Len(s) THEN Len(s) - (p + 1) + 1 ELSE 0
        /\ \A k \in 1 .. Len(s) - (p + 1) + 1 :
              SubSeq(s, p + 1, Len(s))[k] = s[p + 1 + k - 1]
    BY <2>1, <2>2, SubSeqProperties
  <2> QED BY <1>1, <2>3 DEF b
<1>4. RemoveAt(s, p) = a \o b
  BY DEF RemoveAt
<1> HIDE DEF a, b
<1>5. /\ a \o b \in Seq(S)
      /\ Len(a \o b) = Len(a) + Len(b)
      /\ \A k \in 1 .. Len(a) + Len(b) :
            (a \o b)[k] = IF k <= Len(a) THEN a[k] ELSE b[k - Len(a)]
  BY <1>2, <1>3, ConcatProperties
<1> QED BY <1>1, <1>2, <1>3, <1>4, <1>5

\* The size of the list is a number, and its elements are ESMEs of the cluster.
LEMMA ListType ==
    ASSUME TypeOK
    PROVE  /\ Size \in Nat
           /\ \A k \in 0 .. Size - 1 : Get(k) \in esmes /\ Get(k) \in Esmes
<1>1. esmesToSendPdu \in Seq(esmes) /\ esmes \subseteq Esmes
  BY DEF TypeOK
<1>2. /\ Len(esmesToSendPdu) \in Nat
      /\ \A k \in 1 .. Len(esmesToSendPdu) : esmesToSendPdu[k] \in esmes
  BY <1>1, LenProperties, ElementOfSeq
<1> QED BY <1>1, <1>2 DEF Size, Get

\* What addEsme() makes of the list.
LEMMA Added ==
    ASSUME TypeOK, NEW e \in Esmes, AddEsme(e)
    PROVE  /\ esmesToSendPdu' \in Seq(esmes')
           /\ Size' = IF Sends(e) THEN Size + 1 ELSE Size
           /\ \A k \in 0 .. Size - 1 : Get(k)' = Get(k)
           /\ \A k \in Nat : Sends(e) /\ k = Size => Get(k)' = e
<1>1. esmesToSendPdu \in Seq(esmes) /\ esmes' = esmes \cup {e}
  BY DEF TypeOK, AddEsme
<1>2. esmesToSendPdu \in Seq(esmes') /\ e \in esmes'
  BY <1>1, SeqMonotonic
<1>3. Len(esmesToSendPdu) \in Nat
  BY <1>1, LenProperties
<1>4. CASE Sends(e)
  <2>1. esmesToSendPdu' = Append(esmesToSendPdu, e)
    BY <1>4 DEF AddEsme
  <2>2. /\ Append(esmesToSendPdu, e) \in Seq(esmes')
        /\ Len(Append(esmesToSendPdu, e)) = Len(esmesToSendPdu) + 1
        /\ \A k \in 1 .. Len(esmesToSendPdu) :
              Append(esmesToSendPdu, e)[k] = esmesToSendPdu[k]
        /\ Append(esmesToSendPdu, e)[Len(esmesToSendPdu) + 1] = e
    BY <1>2, AppendProperties
  <2> QED BY <1>3, <1>4, <2>1, <2>2 DEF Size, Get
<1>5. CASE ~Sends(e)
  BY <1>2, <1>5 DEF AddEsme, Size, Get
<1> QED BY <1>4, <1>5

\* What removeEsme() makes of the list.
LEMMA Removed ==
    ASSUME TypeOK, Distinct, NEW e \in Esmes, RemoveEsme(e)
    PROVE  /\ esmesToSendPdu' \in Seq(esmes')
           /\ Distinct'
           /\ \A k \in 0 .. Size - 1 : Get(k) # e => Get(k) \in Listed'
<1>1. /\ esmesToSendPdu \in Seq(esmes) /\ esmes' = esmes \ {e}
      /\ Size \in Nat
      /\ \A k \in 0 .. Size - 1 : Get(k) \in esmes
  BY ListType DEF TypeOK, RemoveEsme
<1>2. CASE e \notin Listed
  <2>1. UNCHANGED esmesToSendPdu
    BY <1>2 DEF RemoveEsme
  <2>2. \A k \in 1 .. Len(esmesToSendPdu) : esmesToSendPdu[k] \in esmes'
    <3> TAKE k \in 1 .. Len(esmesToSendPdu)
    <3>1. k - 1 \in 0 .. Size - 1 /\ Get(k - 1) = esmesToSendPdu[k]
      BY <1>1 DEF Size, Get
    <3> QED BY <1>1, <1>2, <3>1 DEF Listed
  <2>3. esmesToSendPdu \in Seq(esmes')
    BY <1>1, <2>2, SeqDef, LenProperties
  <2> QED BY <2>1, <2>3 DEF Distinct, Listed, Size, Get
<1>3. CASE e \in Listed
  <2>1. PICK p \in 0 .. Size - 1 :
            Get(p) = e /\ esmesToSendPdu' = RemoveAt(esmesToSendPdu, p + 1)
    BY <1>3 DEF RemoveEsme
  <2>2. p + 1 \in 1 .. Len(esmesToSendPdu)
    BY <1>1 DEF Size
  <2>3. /\ esmesToSendPdu' \in Seq(esmes)
        /\ Len(esmesToSendPdu') = Size - 1
        /\ \A k \in 1 .. Size - 1 :
              esmesToSendPdu'[k]
                 = IF k < p + 1 THEN esmesToSendPdu[k] ELSE esmesToSendPdu[k + 1]
    BY <1>1, <2>1, <2>2, RemoveAtProperties DEF Size
  <2>4. /\ Size' = Size - 1
        /\ \A k \in 0 .. Size - 2 : Get(k)' = IF k < p THEN Get(k) ELSE Get(k + 1)
    BY <1>1, <2>1, <2>3 DEF Size, Get
  <2>5. Distinct'
    BY <1>1, <2>1, <2>4 DEF Distinct
  <2>6. \A k \in 1 .. Size - 1 : esmesToSendPdu'[k] \in esmes'
    <3> TAKE k \in 1 .. Size - 1
    <3>1. /\ k - 1 \in 0 .. Size - 2 /\ Get(k - 1)' = esmesToSendPdu'[k]
      BY <1>1 DEF Get
    <3>2. \E j \in 0 .. Size - 1 : j # p /\ Get(k - 1)' = Get(j)
      BY <1>1, <2>1, <2>4, <3>1
    <3> QED BY <1>1, <2>1, <3>1, <3>2 DEF Distinct
  <2>7. esmesToSendPdu' \in Seq(esmes')
    BY <1>1, <2>3, <2>6, SeqDef, LenProperties
  <2>8. \A k \in 0 .. Size - 1 : Get(k) # e => Get(k) \in Listed'
    <3> SUFFICES ASSUME NEW k \in 0 .. Size - 1, Get(k) # e
                 PROVE  \E j \in 0 .. Size - 2 : Get(k) = Get(j)'
      BY <1>1, <2>4 DEF Listed
    <3>1. CASE k < p
      BY <1>1, <2>1, <2>4, <3>1
    <3>2. CASE k > p
      <4>1. k - 1 \in 0 .. Size - 2 /\ Get(k - 1)' = Get(k - 1 + 1)
        BY <1>1, <2>1, <2>4, <3>2
      <4> QED BY <1>1, <4>1
    <3> QED BY <1>1, <2>1, <3>1, <3>2
  <2> QED BY <2>5, <2>7, <2>8
<1> QED BY <1>2, <1>3

\* A walk reaches every position within one round.
LEMMA StepsRange ==
    ASSUME NEW n \in Nat, NEW x \in Nat, NEW k \in 0 .. n - 1, NEW looking \in BOOLEAN
    PROVE  Steps(looking, n, x, k) \in 1 .. n
BY DEF Steps, Distance

\* Taking the next position brings all of them nearer by the one to be looked at.
LEMMA StepsAdvance ==
    ASSUME NEW n \in Nat, NEW x \in Nat, NEW k \in 0 .. n - 1
    PROVE  Steps(TRUE, n, IF x + 1 >= n THEN 0 ELSE x + 1, k) = Steps(FALSE, n, x, k)
<1>1. CASE x + 1 >= n
  BY <1>1 DEF Steps, Distance
<1>2. CASE ~(x + 1 >= n)
  BY <1>2 DEF Steps, Distance
<1> QED BY <1>1, <1>2

\* Once it has been looked at, all others are nearer by one.
LEMMA StepsLooked ==
    ASSUME NEW n \in Nat, NEW x \in 0 .. n - 1, NEW k \in 0 .. n - 1, k # x
    PROVE  Steps(FALSE, n, x, k) = Steps(TRUE, n, x, k) - 1
BY DEF Steps, Distance

\* A list that gets longer moves them away by one at most.
LEMMA StepsAdded ==
    ASSUME NEW n \in Nat, NEW x \in Nat, NEW k \in 0 .. n - 1, NEW looking \in BOOLEAN
    PROVE  Steps(looking, n + 1, x, k) <= Steps(looking, n, x, k) + 1
BY DEF Steps, Distance

\* A step that leaves the list alone leaves its elements alone.
LEMMA Unlisted ==
    ASSUME UNCHANGED esmesToSendPdu
    PROVE  /\ Size' = Size
           /\ \A k : Get(k)' = Get(k)
           /\ Listed' = Listed
BY DEF Size, Get, Listed

\* An ESME that is added at the end moves the others away by one at most.
LEMMA AheadAdded ==
    ASSUME TypeOK, NEW e \in Esmes, AddEsme(e), index' = index, NEW k \in 0 .. Size - 1
    PROVE  Ahead(k)' \in Nat /\ Ahead(k)' <= Ahead(k) + (Size' - Size)
<1>1. Size \in Nat /\ index \in Nat
  BY ListType DEF TypeOK
<1>2. Size' = IF Sends(e) THEN Size + 1 ELSE Size
  BY Added
<1>3. /\ Ahead(k) = Steps(pc = "look", Size, index, k)
      /\ Ahead(k)' = Steps(pc = "look", Size', index, k)
  BY DEF Ahead, AddEsme, call
<1>4. /\ Steps(pc = "look", Size, index, k) \in Nat
      /\ Steps(pc = "look", Size + 1, index, k) \in Nat
  BY <1>1 DEF Steps, Distance
<1>5. Steps(pc = "look", Size + 1, index, k) <= Steps(pc = "look", Size, index, k) + 1
  BY <1>1, StepsAdded
<1>6. CASE Sends(e)
  BY <1>1, <1>2, <1>3, <1>4, <1>5, <1>6
<1>7. CASE ~Sends(e)
  BY <1>1, <1>2, <1>3, <1>4, <1>7
<1> QED BY <1>6, <1>7

\* Once an ESME has been looked at, the others are nearer by one.
LEMMA Looked ==
    ASSUME TypeOK, pc = "look", pc' # "look", index < Size,
           UNCHANGED <<esmesToSendPdu, index>>
    PROVE  \A k \in 0 .. Size - 1 : k # index => Ahead(k)' = Ahead(k) - 1
<1>1. Size \in Nat /\ index \in 0 .. Size - 1 /\ Size' = Size
  BY ListType DEF TypeOK, Size
<1> SUFFICES ASSUME NEW k \in 0 .. Size - 1, k # index
             PROVE  Ahead(k)' = Ahead(k) - 1
  OBVIOUS
<1>2. Ahead(k) = Steps(TRUE, Size, index, k) /\ Ahead(k)' = Steps(FALSE, Size, index, k)
  BY <1>1 DEF Ahead, Steps
<1> QED BY <1>1, <1>2, StepsLooked

-----------------------------------------------------------------------------
(***************************************************************************)
(* Every step keeps the types, and no ESME is listed twice.                *)
(***************************************************************************)
LEMMA TypePreserved ==
    ASSUME TypeOK, Distinct, [Next]_vars
    PROVE  TypeOK' /\ Distinct'
<1>1. /\ Size \in Nat
      /\ \A k \in 0 .. Size - 1 : Get(k) \in esmes /\ Get(k) \in Esmes
  BY ListType
<1>2. ASSUME NEW e \in Esmes, AddEsme(e)
      PROVE  TypeOK' /\ Distinct'
  <2>1. /\ esmesToSendPdu' \in Seq(esmes')
        /\ Size' = IF Sends(e) THEN Size + 1 ELSE Size
        /\ \A k \in 0 .. Size - 1 : Get(k)' = Get(k)
        /\ \A k \in Nat : Sends(e) /\ k = Size => Get(k)' = e
    BY <1>2, Added
  <2>2. e \notin esmes
    BY <1>2 DEF AddEsme
  <2>3. Distinct'
    BY <1>1, <2>1, <2>2 DEF Distinct
  <2>4. Listed \subseteq Listed'
    BY <1>1, <2>1 DEF Listed
  <2> QED BY <1>2, <2>1, <2>3, <2>4 DEF TypeOK, AddEsme, call
<1>3. ASSUME NEW e \in Esmes, RemoveEsme(e)
      PROVE  TypeOK' /\ Distinct'
  <2>1. /\ esmesToSendPdu' \in Seq(esmes')
        /\ Distinct'
        /\ \A k \in 0 .. Size - 1 : Get(k) # e => Get(k) \in Listed'
    BY <1>3, Removed
  <2>2. Listed \ {e} \subseteq Listed'
    BY <2>1 DEF Listed
  <2> QED BY <1>3, <2>1, <2>2 DEF TypeOK, RemoveEsme, call
<1>4. ASSUME NEW e \in Esmes, Change(e)
      PROVE  TypeOK' /\ Distinct'
  <2>1. UNCHANGED esmesToSendPdu
    BY <1>4 DEF Change
  <2> QED BY <1>4, <2>1, Unlisted DEF TypeOK, Distinct, Change, call
<1>5. ASSUME Call
      PROVE  TypeOK' /\ Distinct'
  BY <1>5, Unlisted DEF TypeOK, Distinct, Call
<1>6. ASSUME Loop
      PROVE  TypeOK' /\ Distinct'
  BY <1>6, Unlisted DEF TypeOK, Distinct, Loop, Return, history
<1>7. ASSUME Advance
      PROVE  TypeOK' /\ Distinct'
  BY <1>7, Unlisted DEF TypeOK, Distinct, Advance, history
<1>8. ASSUME LookOutside
      PROVE  TypeOK' /\ Distinct'
  BY <1>8, Unlisted DEF TypeOK, Distinct, LookOutside, Return, history
<1>9. ASSUME Found
      PROVE  TypeOK' /\ Distinct'
  BY <1>9, Unlisted DEF TypeOK, Distinct, Found, Return
<1>10. ASSUME NotFound
       PROVE  TypeOK' /\ Distinct'
  BY <1>10, Unlisted DEF TypeOK, Distinct, NotFound, history
<1>11. ASSUME UNCHANGED vars
       PROVE  TypeOK' /\ Distinct'
  BY <1>11, Unlisted DEF TypeOK, Distinct, vars, call, history
<1> QED
  BY <1>2, <1>3, <1>4, <1>5, <1>6, <1>7, <1>8, <1>9, <1>10, <1>11 DEF Next, GetNextEsme

-----------------------------------------------------------------------------
(***************************************************************************)
(* Every step keeps the turns in order.                                    *)
(***************************************************************************)
LEMMA TurnsPreserved ==
    ASSUME TypeOK, TypeOK', TurnsInd, [Next]_vars
    PROVE  TurnsInd'
<1>1. /\ Size \in Nat /\ index \in Nat
      /\ \A k \in 0 .. Size - 1 : Get(k) \in esmes /\ Get(k) \in Esmes
      /\ turns \in [Esmes -> Nat] /\ available \subseteq esmes
  BY ListType DEF TypeOK
<1>2. Size' \in Nat /\ index' \in Nat
  BY LenProperties DEF TypeOK, Size
<1>3. /\ \A k \in 0 .. Size - 1 : Ahead(k) \in 1 .. Size
      /\ \A k \in 0 .. Size' - 1 : Ahead(k)' \in 1 .. Size'
  BY <1>1, <1>2, StepsRange DEF Ahead
<1>4. ASSUME NEW e \in Esmes, AddEsme(e)
      PROVE  TurnsInd'
  <2>1. /\ Size' = IF Sends(e) THEN Size + 1 ELSE Size
        /\ \A k \in 0 .. Size - 1 : Get(k)' = Get(k)
        /\ \A k \in Nat : Sends(e) /\ k = Size => Get(k)' = e
    BY <1>4, Added
  <2>2. /\ e \notin available /\ available' = available /\ pc' = pc
        /\ turns' = [turns EXCEPT ![e] = 0]
        /\ index' = IF esmes = {} THEN 0 ELSE index
    BY <1>1, <1>4 DEF AddEsme, call
  <2>3. SUFFICES ASSUME NEW k \in 0 .. Size' - 1, Get(k)' \in available
                 PROVE  turns'[Get(k)'] + Ahead(k)' <= Size'
    BY <2>2 DEF TurnsInd
  <2>4. k \in 0 .. Size - 1 /\ Get(k)' = Get(k) /\ Get(k) \in Esmes
    BY <1>1, <2>1, <2>2, <2>3
  <2>5. turns'[Get(k)'] = turns[Get(k)] /\ turns[Get(k)] \in Nat
    BY <1>1, <2>2, <2>3, <2>4
  <2>6. index' = index
    BY <1>1, <2>2, <2>4
  <2>7. Ahead(k)' \in Nat /\ Ahead(k)' <= Ahead(k) + (Size' - Size)
    BY <1>4, <2>2, <2>4, <2>6, AheadAdded
  <2>8. turns[Get(k)] + Ahead(k) <= Size
    BY <2>3, <2>4 DEF TurnsInd
  <2>9. turns[Get(k)] \in Nat /\ Ahead(k) \in Nat
    BY <1>1, <1>3, <2>4, <2>5
  <2>10. turns[Get(k)] + Ahead(k)' <= Size'
    BY <1>1, <1>2, <2>7, <2>8, <2>9
  <2> QED BY <2>5, <2>10
<1>5. ASSUME NEW e \in Esmes, RemoveEsme(e)
      PROVE  TurnsInd'
  <2>1. turns' = [f \in Esmes |-> 0] /\ available' \subseteq Esmes
    BY <1>5 DEF RemoveEsme, TypeOK
  <2>2. SUFFICES ASSUME NEW k \in 0 .. Size' - 1, Get(k)' \in available'
                 PROVE  turns'[Get(k)'] + Ahead(k)' <= Size'
    BY DEF TurnsInd
  <2>3. turns'[Get(k)'] = 0
    BY <2>1, <2>2
  <2>4. Ahead(k)' \in 1 .. Size'
    BY <1>3
  <2> QED BY <1>2, <2>3, <2>4
<1>6. ASSUME NEW e \in Esmes, Change(e)
      PROVE  TurnsInd'
  <2>1. /\ UNCHANGED <<esmesToSendPdu, index, pc>>
        /\ turns' = [turns EXCEPT ![e] = 0]
        /\ available' \ {e} \subseteq available
    BY <1>6 DEF Change, call
  <2>2. Size' = Size /\ \A k \in 0 .. Size - 1 : Get(k)' = Get(k) /\ Ahead(k)' = Ahead(k)
    BY <2>1 DEF Size, Get, Ahead
  <2> QED BY <1>1, <1>3, <2>1, <2>2 DEF TurnsInd
<1>7. ASSUME Call \/ Loop \/ LookOutside
      PROVE  TurnsInd'
  <2>1. /\ UNCHANGED <<esmesToSendPdu, index, available, turns>>
        /\ pc' # "look"
        /\ pc = "look" => index >= Size
    BY <1>7 DEF Call, Loop, LookOutside, Return, history
  <2>2. Size' = Size /\ \A k \in 0 .. Size - 1 : Get(k)' = Get(k) /\ Ahead(k)' = Ahead(k)
    BY <1>1, <2>1 DEF Size, Get, Ahead, Steps
  <2> QED BY <1>1, <2>1, <2>2 DEF TurnsInd
<1>8. ASSUME Advance
      PROVE  TurnsInd'
  <2>1. /\ UNCHANGED <<esmesToSendPdu, available, turns>>
        /\ pc = "advance" /\ pc' = "look"
        /\ index' = IF index + 1 >= Size THEN 0 ELSE index + 1
    BY <1>8 DEF Advance, history
  <2>2. Size' = Size /\ \A k \in 0 .. Size - 1 : Get(k)' = Get(k)
    BY <2>1 DEF Size, Get
  <2>3. \A k \in 0 .. Size - 1 : Ahead(k)' = Ahead(k)
    BY <1>1, <2>1, <2>2, StepsAdvance DEF Ahead
  <2> QED BY <1>1, <2>1, <2>2, <2>3 DEF TurnsInd
<1>9. ASSUME Found
      PROVE  TurnsInd'
  <2>1. /\ UNCHANGED <<esmesToSendPdu, index, available>>
        /\ pc = "look" /\ pc' = "idle" /\ index < Size
        /\ turns' = [e \in Esmes |->
                IF e \in (available \cap Listed) \ {Get(index)} THEN turns[e] + 1 ELSE 0]
    BY <1>9 DEF Found, Return
  <2>2. Size' = Size /\ \A k \in 0 .. Size - 1 : Get(k)' = Get(k)
    BY <2>1 DEF Size, Get
  <2>3. \A k \in 0 .. Size - 1 : k # index => Ahead(k)' = Ahead(k) - 1
    BY <2>1, Looked
  <2>4. SUFFICES ASSUME NEW k \in 0 .. Size - 1, Get(k) \in available
                 PROVE  turns'[Get(k)] + Ahead(k)' <= Size
    BY <2>1, <2>2 DEF TurnsInd
  <2>5. CASE Get(k) = Get(index)
    BY <1>1, <1>3, <2>1, <2>2, <2>5
  <2>6. CASE Get(k) # Get(index)
    <3>1. turns'[Get(k)] = turns[Get(k)] + 1
      BY <1>1, <2>1, <2>4, <2>6 DEF Listed
    <3>2. Ahead(k)' = Ahead(k) - 1
      BY <2>3, <2>6
    <3> QED BY <1>1, <1>3, <2>4, <3>1, <3>2 DEF TurnsInd
  <2> QED BY <2>5, <2>6
<1>10. ASSUME NotFound
       PROVE  TurnsInd'
  <2>1. /\ UNCHANGED <<esmesToSendPdu, index, available, turns>>
        /\ pc = "look" /\ pc' = "loop" /\ index < Size /\ Get(index) \notin available
    BY <1>10 DEF NotFound, history
  <2>2. Size' = Size /\ \A k \in 0 .. Size - 1 : Get(k)' = Get(k)
    BY <2>1 DEF Size, Get
  <2>3. \A k \in 0 .. Size - 1 : k # index => Ahead(k)' = Ahead(k) - 1
    BY <2>1, Looked
  <2> QED BY <1>1, <1>3, <2>1, <2>2, <2>3 DEF TurnsInd
<1>11. ASSUME UNCHANGED vars
       PROVE  TurnsInd'
  <2>1. UNCHANGED <<esmesToSendPdu, index, available, turns, pc>>
    BY <1>11 DEF vars, call, history
  <2> QED BY <2>1 DEF TurnsInd, Size, Get, Ahead
<1> QED
  BY <1>4, <1>5, <1>6, <1>7, <1>8, <1>9, <1>10, <1>11 DEF Next, GetNextEsme

-----------------------------------------------------------------------------
(***************************************************************************)
(* Every step keeps the search on course, and it gives up only when there  *)
(* was nothing to find.                                                    *)
(***************************************************************************)
LEMMA SearchPreserved ==
    ASSUME TypeOK, TypeOK', SearchInd, FindsAvailable, [Next]_vars
    PROVE  SearchInd' /\ FindsAvailable'
<1>1. /\ Size \in Nat /\ index \in Nat /\ i \in Nat
      /\ \A k \in 0 .. Size - 1 : Get(k) \in esmes /\ Get(k) \in Esmes
      /\ steady \subseteq Listed \cap available /\ available \subseteq esmes
  BY ListType DEF TypeOK
<1>2. \A k \in 0 .. Size - 1 : Ahead(k) \in 1 .. Size
  BY <1>1, StepsRange DEF Ahead
<1>3. ASSUME NEW e \in Esmes, AddEsme(e)
      PROVE  SearchInd' /\ FindsAvailable'
  <2>1. /\ Size' = IF Sends(e) THEN Size + 1 ELSE Size
        /\ \A k \in 0 .. Size - 1 : Get(k)' = Get(k)
        /\ \A k \in Nat : Sends(e) /\ k = Size => Get(k)' = e
    BY <1>3, Added
  <2>2. /\ e \notin steady /\ UNCHANGED <<pc, i, outcome, steady, removed>>
        /\ pc = "idle" \/ index' = index
    BY <1>1, <1>3 DEF AddEsme, call
  <2>3. FindsAvailable'
    BY <2>2 DEF FindsAvailable, GaveUp
  <2>4. ASSUME ~removed, pc # "idle", NEW k \in 0 .. Size' - 1, Get(k)' \in steady
        PROVE  i + Ahead(k)' <= Size'
    <3>1. k \in 0 .. Size - 1 /\ Get(k)' = Get(k)
      BY <1>1, <2>1, <2>2, <2>4
    <3>2. i + Ahead(k) <= Size /\ Ahead(k) \in Nat
      BY <1>1, <1>2, <2>2, <2>4, <3>1 DEF SearchInd
    <3>3. Ahead(k)' \in Nat /\ Ahead(k)' <= Ahead(k) + (Size' - Size)
      BY <1>3, <2>2, <2>4, <3>1, AheadAdded
    <3>4. Size' \in Nat
      BY <1>1, <2>1
    <3> QED BY <1>1, <3>2, <3>3, <3>4
  <2>5. ~removed /\ pc = "advance" => i < Size'
    BY <1>1, <2>1 DEF SearchInd
  <2>6. ~removed /\ pc = "look" => index' < Size'
    BY <1>1, <2>1, <2>2 DEF SearchInd
  <2> QED BY <2>2, <2>3, <2>4, <2>5, <2>6 DEF SearchInd
<1>4. ASSUME NEW e \in Esmes, RemoveEsme(e)
      PROVE  SearchInd' /\ FindsAvailable'
  BY <1>4 DEF RemoveEsme, SearchInd, FindsAvailable
<1>5. ASSUME NEW e \in Esmes, Change(e)
      PROVE  SearchInd' /\ FindsAvailable'
  <2>1. /\ UNCHANGED <<esmesToSendPdu, index, pc, i, outcome, removed>>
        /\ steady' \subseteq steady
    BY <1>5 DEF Change, call
  <2>2. Size' = Size /\ \A k \in 0 .. Size - 1 : Get(k)' = Get(k) /\ Ahead(k)' = Ahead(k)
    BY <2>1 DEF Size, Get, Ahead
  <2> QED BY <2>1, <2>2 DEF SearchInd, FindsAvailable, GaveUp
<1>6. ASSUME Call
      PROVE  SearchInd' /\ FindsAvailable'
  <2>1. /\ UNCHANGED <<esmesToSendPdu, index>>
        /\ pc = "idle" /\ pc' = "loop" /\ i' = 0
    BY <1>6 DEF Call
  <2>2. Size' = Size /\ \A k \in 0 .. Size - 1 : Get(k)' = Get(k) /\ Ahead(k)' = Ahead(k)
    BY <2>1 DEF Size, Get, Ahead, Steps
  <2> QED BY <1>1, <1>2, <2>1, <2>2 DEF SearchInd, FindsAvailable, GaveUp
<1>7. ASSUME Loop
      PROVE  SearchInd' /\ FindsAvailable'
  <2>1. /\ UNCHANGED <<esmesToSendPdu, index, i, steady, removed>>
        /\ pc = "loop"
        /\ \/ i < Size /\ pc' = "advance"
           \/ ~(i < Size) /\ pc' = "idle" /\ outcome' = "null"
    BY <1>7 DEF Loop, Return, history
  <2>2. Size' = Size /\ \A k \in 0 .. Size - 1 : Get(k)' = Get(k) /\ Ahead(k)' = Ahead(k)
    BY <2>1 DEF Size, Get, Ahead, Steps
  <2>3. SearchInd'
    BY <2>1, <2>2 DEF SearchInd
  <2>4. ~removed /\ ~(i < Size) => steady = {}
    <3> SUFFICES ASSUME ~removed, ~(i < Size), NEW e \in steady
                 PROVE  FALSE
      OBVIOUS
    <3>1. PICK k \in 0 .. Size - 1 : Get(k) = e
      BY <1>1 DEF Listed
    <3>2. i + Ahead(k) <= Size /\ Ahead(k) \in 1 .. Size
      BY <1>2, <2>1, <3>1 DEF SearchInd
    <3> QED BY <1>1, <3>2
  <2> QED BY <2>1, <2>3, <2>4 DEF FindsAvailable, GaveUp
<1>8. ASSUME Advance
      PROVE  SearchInd' /\ FindsAvailable'
  <2>1. /\ UNCHANGED <<esmesToSendPdu, i, steady, removed>>
        /\ pc = "advance" /\ pc' = "look"
        /\ index' = IF index + 1 >= Size THEN 0 ELSE index + 1
    BY <1>8 DEF Advance, history
  <2>2. Size' = Size /\ \A k \in 0 .. Size - 1 : Get(k)' = Get(k)
    BY <2>1 DEF Size, Get
  <2>3. \A k \in 0 .. Size - 1 : Ahead(k)' = Ahead(k)
    BY <1>1, <2>1, <2>2, StepsAdvance DEF Ahead
  <2>4. ~removed => index' < Size
    BY <1>1, <2>1 DEF SearchInd
  <2> QED BY <2>1, <2>2, <2>3, <2>4 DEF SearchInd, FindsAvailable, GaveUp
<1>9. ASSUME LookOutside
      PROVE  SearchInd' /\ FindsAvailable'
  <2>1. removed
    BY <1>1, <1>9 DEF LookOutside, SearchInd
  <2> QED BY <1>9, <2>1 DEF LookOutside, history, SearchInd, FindsAvailable
<1>10. ASSUME Found
       PROVE  SearchInd' /\ FindsAvailable'
  BY <1>10 DEF Found, Return, SearchInd, FindsAvailable, GaveUp
<1>11. ASSUME NotFound
       PROVE  SearchInd' /\ FindsAvailable'
  <2>1. /\ UNCHANGED <<esmesToSendPdu, index, steady, removed>>
        /\ pc = "look" /\ pc' = "loop" /\ i' = i + 1
        /\ index < Size /\ Get(index) \notin available
    BY <1>11 DEF NotFound, history
  <2>2. Size' = Size /\ \A k \in 0 .. Size - 1 : Get(k)' = Get(k)
    BY <2>1 DEF Size, Get
  <2>3. \A k \in 0 .. Size - 1 : k # index => Ahead(k)' = Ahead(k) - 1
    BY <2>1, Looked
  <2>4. ASSUME ~removed, NEW k \in 0 .. Size - 1, Get(k) \in steady
        PROVE  i + 1 + Ahead(k)' <= Size
    <3>1. k # index
      BY <1>1, <2>1, <2>4
    <3>2. i + Ahead(k) <= Size /\ Ahead(k) \in 1 .. Size
      BY <1>2, <2>1, <2>4 DEF SearchInd
    <3> QED BY <1>1, <2>3, <3>1, <3>2
  <2> QED BY <2>1, <2>2, <2>4 DEF SearchInd, FindsAvailable, GaveUp
<1>12. ASSUME UNCHANGED vars
       PROVE  SearchInd' /\ FindsAvailable'
  <2>1. UNCHANGED <<esmesToSendPdu, index, pc, i, outcome, steady, removed>>
    BY <1>12 DEF vars, call, history
  <2>2. Size' = Size /\ \A k \in 0 .. Size - 1 : Get(k)' = Get(k) /\ Ahead(k)' = Ahead(k)
    BY <2>1 DEF Size, Get, Ahead
  <2> QED BY <2>1, <2>2 DEF SearchInd, FindsAvailable, GaveUp
<1> QED
  BY <1>3, <1>4, <1>5, <1>6, <1>7, <1>8, <1>9, <1>10, <1>11, <1>12 DEF Next, GetNextEsme

-----------------------------------------------------------------------------
\* The inductive invariant holds to begin with ...
LEMMA IndInit == Init => Ind
<1> SUFFICES ASSUME Init PROVE Ind
  OBVIOUS
<1>1. Size = 0 /\ esmesToSendPdu \in Seq(esmes)
  BY EmptySeq DEF Init, Size
<1>2. 0 .. Size - 1 = {}
  BY <1>1
<1>3. TypeOK
  BY <1>1 DEF Init, TypeOK
<1>4. Distinct /\ TurnsInd
  BY <1>2 DEF Distinct, TurnsInd
<1>5. SearchInd /\ FindsAvailable
  BY DEF Init, SearchInd, FindsAvailable, GaveUp
<1> QED BY <1>3, <1>4, <1>5 DEF Ind

\* ... and every step keeps it.
LEMMA IndNext == Ind /\ [Next]_vars => Ind'
BY TypePreserved, TurnsPreserved, SearchPreserved DEF Ind

(***************************************************************************)
(* Every variable of the cluster keeps its type, whatever comes and goes.  *)
(***************************************************************************)
THEOREM TypeCorrect == Spec => []TypeOK
<1>1. Ind => TypeOK
  BY DEF Ind
<1> QED BY <1>1, IndInit, IndNext, PTL DEF Spec

(***************************************************************************)
(* getNextEsme() finds an ESME whenever one is bound and not overloaded    *)
(* all through the call and none is destroyed, in clusters of any size.    *)
(***************************************************************************)
THEOREM SearchComplete == Spec => []FindsAvailable
<1>1. Ind => FindsAvailable
  BY DEF Ind
<1> QED BY <1>1, IndInit, IndNext, PTL DEF Spec

(***************************************************************************)
(* The messages of a cluster are shared out in turn: an available ESME     *)
(* waits for less than one round, in clusters of any size.                 *)
(***************************************************************************)
THEOREM RoundRobin == Spec => []InTurn
<1>1. Ind => InTurn
  <2> SUFFICES ASSUME Ind, NEW e \in available \cap Listed
               PROVE  turns[e] < Size
    BY DEF InTurn
  <2>1. PICK k \in 0 .. Size - 1 : Get(k) = e
    BY DEF Listed
  <2>2. Size \in Nat /\ index \in Nat /\ turns[e] \in Nat
    BY ListType DEF Ind, TypeOK
  <2>3. Ahead(k) \in 1 .. Size
    BY <2>2, StepsRange DEF Ahead
  <2>4. turns[e] + Ahead(k) <= Size
    BY <2>1 DEF Ind, TurnsInd
  <2> QED BY <2>2, <2>3, <2>4
<1> QED BY <1>1, IndInit, IndNext, PTL DEF Spec

=============================================================================
