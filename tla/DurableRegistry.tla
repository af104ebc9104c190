-------------------------- MODULE DurableRegistry --------------------------
(***************************************************************************)
(* What a list of named ESMEs and its file promise together, wherever the  *)
(* JVM ends: a command changes one ESME at a time and ends with the whole  *)
(* list saved; a restart takes up what was saved, which, unless a command  *)
(* was under way, is the list as it was.                                   *)
(***************************************************************************)
CONSTANT Names

VARIABLES
    up,      \* whether there is a JVM
    list,    \* the ESMEs it knows, one to a name
    saved,   \* what a restart would find
    busy     \* whether a command is under way

vars == <<up, list, saved, busy>>

NamedOnce(esmes) == \A r, s \in esmes : r.name = s.name => r = s

Init == ~up /\ list = {} /\ saved = {} /\ ~busy

\* A command begins, or goes on.
Begin == up /\ up' /\ busy' /\ UNCHANGED <<list, saved>>

\* The ESMEs of all names but one stay as they are.
Change(n) ==
    /\ up /\ up' /\ busy'
    /\ {r \in list' : r.name # n} = {r \in list : r.name # n}
    /\ NamedOnce(list')
    /\ UNCHANGED saved

\* What was saved is torn up first.
Save ==
    /\ up /\ up' /\ busy /\ busy'
    /\ saved' \in {{}, list}
    /\ UNCHANGED list

End ==
    /\ up /\ up' /\ busy /\ ~busy'
    /\ saved' = list
    /\ UNCHANGED list

Crash ==
    /\ up /\ ~up' /\ ~busy'
    /\ list' = {}
    /\ saved' = saved \/ (busy /\ saved' = list)

Restart ==
    /\ ~up /\ up' /\ busy'
    /\ list' = saved
    /\ UNCHANGED saved

Next == Begin \/ (\E n \in Names : Change(n)) \/ Save \/ End \/ Crash \/ Restart

Spec == Init /\ [][Next]_vars

=============================================================================
