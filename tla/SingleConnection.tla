-------------------------- MODULE SingleConnection --------------------------
(***************************************************************************)
(* What the client side promises the ESMEs it connects: there is at most   *)
(* one request to connect an ESME; a connection is opened only for a       *)
(* request, of an ESME seen started since that was taken, and only where   *)
(* there is none; one that is being opened is left to the thread that      *)
(* opens it; and one that is refused is requested again.                   *)
(***************************************************************************)
EXTENDS Naturals

CONSTANTS Esmes, Connections

VARIABLES
    started,    \* whether the administrator wants each ESME to be connected
    requests,   \* how many requests to connect it there are
    taken,      \* the ESME whose request has been taken, if any
    going,      \* the ESME that is being connected, if any
    opening,    \* the connections of each ESME that are being opened
    open        \* those that are open

work  == <<taken, going>>
links == <<opening, open>>
vars  == <<started, requests, work, links>>

Init ==
    /\ started \in [Esmes -> BOOLEAN]
    /\ requests = [e \in Esmes |-> 1]
    /\ taken = {} /\ going = {}
    /\ opening = [e \in Esmes |-> {}]
    /\ open = [e \in Esmes |-> {}]

StartOrStop(e) ==
    /\ started' = [started EXCEPT ![e] = ~@]
    /\ UNCHANGED <<requests, work, links>>

Request(e) ==
    /\ requests[e] = 0
    /\ requests' = [requests EXCEPT ![e] = 1]
    /\ UNCHANGED <<started, work, links>>

\* One request at a time is taken, or dropped.
Take(e) ==
    /\ taken = {} /\ going = {}
    /\ requests[e] = 1
    /\ requests' = [requests EXCEPT ![e] = 0]
    /\ taken' \in {{}, {e}}
    /\ UNCHANGED <<started, going, links>>

Go(e) ==
    /\ taken = {e} /\ started[e]
    /\ taken' = {} /\ going' = {e}
    /\ UNCHANGED <<started, requests, links>>

Open(e, c) ==
    /\ going = {e}
    /\ opening[e] = {} /\ open[e] = {}
    /\ opening' = [opening EXCEPT ![e] = {c}]
    /\ UNCHANGED <<started, requests, work, open>>

Opened(e, c) ==
    /\ going = {e}
    /\ opening[e] = {c} /\ open[e] = {}
    /\ opening' = [opening EXCEPT ![e] = {}]
    /\ open' = [open EXCEPT ![e] = {c}]
    /\ UNCHANGED <<started, requests, work>>

Refused(e) ==
    /\ going = {e} /\ going' = {}
    /\ opening[e] # {}
    /\ opening' = [opening EXCEPT ![e] = {}]
    /\ requests' = [requests EXCEPT ![e] = 1]
    /\ UNCHANGED <<started, taken, open>>

\* The ESME was connected already, is now, or has been found stopped.
Settle(e) ==
    /\ e \in taken \cup going
    /\ opening[e] = {}
    /\ taken' = {} /\ going' = {}
    /\ UNCHANGED <<started, requests, links>>

\* Whoever finds a connection useless closes it, and may request another.
Lose(e) ==
    /\ open[e] # {}
    /\ open' = [open EXCEPT ![e] = {}]
    /\ requests' \in {requests, [requests EXCEPT ![e] = 1]}
    /\ UNCHANGED <<started, work, opening>>

Next ==
    \E e \in Esmes :
        \/ StartOrStop(e) \/ Request(e) \/ Take(e) \/ Go(e)
        \/ Refused(e) \/ Settle(e) \/ Lose(e)
        \/ \E c \in Connections : Open(e, c) \/ Opened(e, c)

Spec == Init /\ [][Next]_vars

=============================================================================
