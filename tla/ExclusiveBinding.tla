-------------------------- MODULE ExclusiveBinding --------------------------
(***************************************************************************)
(* What the SMPP server promises the configured ESMEs, whatever happens to *)
(* their connections: an ESME is given to a connection only while it is    *)
(* started and no other connection has it, and a connection to one ESME    *)
(* only.  Stopping an ESME takes it from nobody: the connection ends by    *)
(* itself, once its channel is closed.                                     *)
(***************************************************************************)
CONSTANTS Esmes, Sessions

VARIABLES
    started,   \* whether the administrator wants each ESME to be bound
    holders    \* the connections that have it

vars == <<started, holders>>

Init ==
    /\ started \in [Esmes -> BOOLEAN]
    /\ holders = [e \in Esmes |-> {}]

StartOrStop(e) ==
    /\ started' = [started EXCEPT ![e] = ~@]
    /\ UNCHANGED holders

Bind(e, s) ==
    /\ started[e]
    /\ holders[e] = {}
    /\ \A f \in Esmes : s \notin holders[f]
    /\ holders' = [holders EXCEPT ![e] = {s}]
    /\ UNCHANGED started

Unbind(e, s) ==
    /\ holders[e] = {s}
    /\ holders' = [holders EXCEPT ![e] = {}]
    /\ UNCHANGED started

Next ==
    \E e \in Esmes :
        \/ StartOrStop(e)
        \/ \E s \in Sessions : Bind(e, s) \/ Unbind(e, s)

Spec == Init /\ [][Next]_vars

=============================================================================
