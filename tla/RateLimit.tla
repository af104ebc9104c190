----------------------------- MODULE RateLimit -----------------------------
(***************************************************************************)
(* The rate limits of an ESME: Esme.onMessageReceived(), which every I/O   *)
(* thread that receives a message calls, and the clear...MsgCounter()      *)
(* methods, which the timer of EsmeManagement and startEsme() call.        *)
(*                                                                         *)
(* Every counter is an AtomicLong; a step here is one operation on one of  *)
(* them.  A message is counted first and taken back if it is too many, so  *)
(* the counters can be cleared between the two.                            *)
(***************************************************************************)
EXTENDS Integers, FiniteSets

CONSTANTS
    Threads,        \* the threads that receive messages of the ESME
    Depth,          \* the number of domains: second, minute, hour and day
    Limit,          \* rateLimitPerSecond, ...; 0 means no restriction
    Counts,         \* the numbers of messages that are received at a time
    MaxCounter      \* bound on the counters a message is received at

\* From the shortest to the longest.
Domains == 1 .. Depth

ASSUME RateAssumption ==
    /\ Depth \in Nat \ {0}
    /\ Limit \in [Domains -> Nat]
    /\ Counts \subseteq Nat \ {0}
    /\ MaxCounter \in Nat

VARIABLES
    received,       \* receivedMsgPerSecond, ...
    extra,          \* extraMsgPerSecond, ...
    thread,         \* where each receiving thread is
    clearer,        \* what each clearing thread has still to set to zero
    (* History, read by the properties only. *)
    passed,         \* messages let through in a domain since it was cleared
    late,           \* messages taken back since, which had been counted before
    firsts          \* firstFault answers since extra was cleared

counters == <<received, extra>>
history == <<passed, late, firsts>>
vars == <<counters, thread, clearer, history>>

\* The threads that clear its counters: the timer and an administrator.
Clearers == {"timer", "start"}

Points == {"idle", "add", "undo", "extra"}

\* counted: the message is in received[domain], and it has not been cleared.
ThreadStates == [at : Points, domain : Domains, count : Nat, counted : BOOLEAN]

Idle == [at |-> "idle", domain |-> 1, count |-> 0, counted |-> FALSE]

TypeOK ==
    /\ received \in [Domains -> Int]
    /\ extra \in [Domains -> Nat]
    /\ thread \in [Threads -> ThreadStates]
    /\ \A t \in Threads : thread[t].counted => thread[t].at = "undo"
    /\ clearer \in [Clearers -> SUBSET ({"received", "extra"} \X Domains)]
    /\ passed \in [Domains -> Nat]
    /\ late \in [Domains -> Nat]
    /\ firsts \in [Domains -> Nat]

Zero == [d \in Domains |-> 0]

Init ==
    /\ received = Zero /\ extra = Zero
    /\ thread = [t \in Threads |-> Idle]
    /\ clearer = [c \in Clearers |-> {}]
    /\ passed = Zero /\ late = Zero /\ firsts = Zero

-----------------------------------------------------------------------------
(***************************************************************************)
(* onMessageReceived()                                                     *)
(***************************************************************************)
At(t, at) == thread[t].at = at

Receive(t, n) ==
    /\ At(t, "idle")
    /\ \A d \in Domains : received[d] <= MaxCounter /\ extra[d] <= MaxCounter
    /\ thread' = [thread EXCEPT ![t] = [Idle EXCEPT !.at = "add", !.count = n]]
    /\ UNCHANGED <<counters, clearer, history>>

\* Mutant of Exceeds: the limit is compared with the count before the message.
ExceedsBefore(d, n) == Limit[d] > 0 /\ received[d] > Limit[d]

Exceeds(d, n) == Limit[d] > 0 /\ received[d] + n > Limit[d]

\* Mutant of AddWithin: goes on past the last domain.
AddWithinFurther(t) ==
    LET d == thread[t].domain
        n == thread[t].count
    IN  /\ At(t, "add")
        /\ ~Exceeds(d, n)
        /\ received' = [received EXCEPT ![d] = @ + n]
        /\ passed' = [passed EXCEPT ![d] = @ + n]
        /\ thread' = [thread EXCEPT ![t].domain = d + 1]
        /\ UNCHANGED <<extra, clearer, late, firsts>>

\* addAndGet(count), within the limit: on to the next domain.
AddWithin(t) ==
    LET d == thread[t].domain
        n == thread[t].count
    IN  /\ At(t, "add")
        /\ ~Exceeds(d, n)
        /\ received' = [received EXCEPT ![d] = @ + n]
        /\ passed' = [passed EXCEPT ![d] = @ + n]
        /\ thread' = [thread EXCEPT ![t] =
                         IF d + 1 \in Domains THEN [@ EXCEPT !.domain = d + 1] ELSE Idle]
        /\ UNCHANGED <<extra, clearer, late, firsts>>

AddBeyond(t) ==
    LET d == thread[t].domain
        n == thread[t].count
    IN  /\ At(t, "add")
        /\ Exceeds(d, n)
        /\ received' = [received EXCEPT ![d] = @ + n]
        /\ thread' = [thread EXCEPT ![t].at = "undo", ![t].counted = TRUE]
        /\ UNCHANGED <<extra, clearer, history>>

\* Mutant of Undo: one message is taken back, however many were counted.
UndoOne(t) ==
    LET d == thread[t].domain
        n == thread[t].count
    IN  /\ At(t, "undo")
        /\ received' = [received EXCEPT ![d] = @ - 1]
        /\ late' = [late EXCEPT ![d] = IF thread[t].counted THEN @ ELSE @ + n]
        /\ thread' = [thread EXCEPT ![t].at = "extra", ![t].counted = FALSE]
        /\ UNCHANGED <<extra, clearer, passed, firsts>>

\* addAndGet(-count)
Undo(t) ==
    LET d == thread[t].domain
        n == thread[t].count
    IN  /\ At(t, "undo")
        /\ received' = [received EXCEPT ![d] = @ - n]
        /\ late' = [late EXCEPT ![d] = IF thread[t].counted THEN @ ELSE @ + n]
        /\ thread' = [thread EXCEPT ![t].at = "extra", ![t].counted = FALSE]
        /\ UNCHANGED <<extra, clearer, passed, firsts>>

\* The first message that is too many in a domain is told from the next ones.
Fault(t) ==
    LET d == thread[t].domain
    IN  /\ At(t, "extra")
        /\ extra' = [extra EXCEPT ![d] = @ + 1]
        /\ firsts' = [firsts EXCEPT ![d] = IF extra[d] + 1 = 1 THEN @ + 1 ELSE @]
        /\ thread' = [thread EXCEPT ![t] = Idle]
        /\ UNCHANGED <<received, clearer, passed, late>>

-----------------------------------------------------------------------------
(***************************************************************************)
(* clearSecondMsgCounter() to clearDayMsgCounter(): a domain is cleared    *)
(* together with the shorter ones, the received counters before the extra. *)
(***************************************************************************)
\* The timer has come to the end of a second, minute, hour or day, or the ESME is
\* started, which clears the counters of a day.
Clear(c, level) ==
    /\ clearer[c] = {}
    /\ c = "start" => level = Depth
    /\ clearer' = [clearer EXCEPT ![c] = {"received", "extra"} \X (1 .. level)]
    /\ UNCHANGED <<counters, thread, history>>

\* The next counter a clearing thread sets to zero.
Clears(c, kind, d) ==
    /\ <<kind, d>> \in clearer[c]
    /\ kind = "extra" => \A other \in clearer[c] : other[1] = "extra"
    /\ \A other \in clearer[c] : other[1] = kind => d <= other[2]
    /\ clearer' = [clearer EXCEPT ![c] = @ \ {<<kind, d>>}]

ClearReceived(c, d) ==
    /\ Clears(c, "received", d)
    /\ received' = [received EXCEPT ![d] = 0]
    /\ passed' = [passed EXCEPT ![d] = 0]
    /\ late' = [late EXCEPT ![d] = 0]
    /\ thread' = [t \in Threads |->
                     IF thread[t].domain = d THEN [thread[t] EXCEPT !.counted = FALSE]
                     ELSE thread[t]]
    /\ UNCHANGED <<extra, firsts>>

\* Mutant of ClearExtra: the faults of the last period are not forgotten.
ClearExtraKept(c, d) ==
    /\ Clears(c, "extra", d)
    /\ firsts' = [firsts EXCEPT ![d] = 0]
    /\ UNCHANGED <<received, extra, thread, passed, late>>

ClearExtra(c, d) ==
    /\ Clears(c, "extra", d)
    /\ extra' = [extra EXCEPT ![d] = 0]
    /\ firsts' = [firsts EXCEPT ![d] = 0]
    /\ UNCHANGED <<received, thread, passed, late>>

-----------------------------------------------------------------------------
Next ==
    \/ \E t \in Threads :
          \/ \E n \in Counts : Receive(t, n)
          \/ AddWithin(t) \/ AddBeyond(t) \/ Undo(t) \/ Fault(t)
    \/ \E c \in Clearers, d \in Domains :
          Clear(c, d) \/ ClearReceived(c, d) \/ ClearExtra(c, d)

Spec == Init /\ [][Next]_vars

-----------------------------------------------------------------------------
(***************************************************************************)
(* Properties.                                                             *)
(***************************************************************************)
\* Messages in received[d] that are about to be taken back.
Undoing(threads, d) ==
    UNION {{t} \X (1 .. threads[t].count) :
               t \in {u \in Threads : threads[u].counted /\ threads[u].domain = d}}

(***************************************************************************)
(* A counter always tells how many messages have been let through since it *)
(* was cleared, but for those about to be taken back, and for those that   *)
(* were taken back although the clearing had already forgotten them.       *)
(***************************************************************************)
Accounted == \A d \in Domains :
    received[d] = passed[d] + Cardinality(Undoing(thread, d)) - late[d]

(***************************************************************************)
(* Between two clearings of a domain no more messages than its limit are   *)
(* let through, however many threads receive them at once, except that the *)
(* messages being refused just when it was cleared make room for as many.  *)
(***************************************************************************)
Limited == \A d \in Domains : Limit[d] > 0 => passed[d] <= Limit[d] + late[d]

(***************************************************************************)
(* Of the messages refused between two clearings exactly one is answered   *)
(* firstFault, so that the application reports each period once.           *)
(***************************************************************************)
OneFirstFault == \A d \in Domains : firsts[d] = IF extra[d] > 0 THEN 1 ELSE 0

=============================================================================
