---------------------------- MODULE EsmeRegistry ----------------------------
(***************************************************************************)
(* EsmeRegistry: the list of ESMEs, the clusters they are grouped in, the  *)
(* MBeans they are managed by and the file they are kept in, as            *)
(* EsmeManagement and the setters of Esme change them.                     *)
(*                                                                         *)
(* Nothing here is synchronised, and store() rewrites the file in place:   *)
(* other administrators, and the end of the JVM, come between the steps of *)
(* an operation.  An operation that is refused changes nothing and is not  *)
(* a step.  The order of a list tells only which of two ESMEs of one name  *)
(* is taken, or which ESME of a cluster is read first; it is left open.    *)
(***************************************************************************)
EXTENDS Naturals, FiniteSets

CONSTANTS
    Admins,         \* the threads that carry out commands
    Esmes,          \* the Esme objects there can be at a time
    Names,          \* the names of ESMEs
    ClusterNames,   \* the names of clusters
    Nets,           \* the network ids
    MaxStops,       \* bound on the stops of EsmeManagement in one JVM
    NoEsme, NoNet, NoConf

\* What is known of an ESME, and what the file holds of it.
Config == [name : Names, cluster : ClusterNames, net : Nets, started : BOOLEAN]

ASSUME RegistryAssumption ==
    /\ IsFiniteSet(Esmes)
    /\ NoEsme \notin Esmes
    /\ NoNet \notin Nets
    /\ NoConf \notin Config
    /\ MaxStops \in Nat

VARIABLES
    life,           \* "down", or whether EsmeManagement is started
    conf,           \* the fields of each Esme object, NoConf if there is none
    esmes,          \* EsmeManagement.esmes
    netOfCluster,   \* esmeClusters: the network id of each, NoNet if none
    members,        \* esmeClusters: the ESMEs of each
    mbeans,         \* the Esme object registered for each name
    disk,           \* whether esme.xml exists, and can be read
    file,           \* what it holds then
    pc,             \* where each administrator is
    then,           \* where it goes on after store()
    arg,            \* the ESME it works on
    found,          \* the EsmeCluster it holds: none, the one in the map, or
                    \* one that has been taken out of it
    todo,           \* load(): the ESMEs it has not put in a cluster yet
    snap,           \* store(): what it has written
    mixed,          \* administrators whose store() met another's
    (* History, read by the properties only. *)
    wanted,         \* names of ESMEs created, and neither destroyed nor lost
    stops           \* how often EsmeManagement was stopped in this JVM

xml == <<disk, file>>
heap == <<conf, esmes, netOfCluster, members>>
threads == <<pc, then, arg, found, todo, snap, mixed>>
history == <<wanted, stops>>
vars == <<life, heap, mbeans, xml, threads, history>>

Points == {"idle", "creating", "destroying", "modifying", "populating",
           "joining", "store", "opened", "written", "register", "unregister",
           "unregisterAll"}

\* The Esme objects there are.
Objects == {o \in Esmes : conf[o] # NoConf}

TypeOK ==
    /\ life \in {"down", "running", "stopped"}
    /\ conf \in [Esmes -> Config \cup {NoConf}]
    /\ esmes \subseteq Objects
    /\ netOfCluster \in [ClusterNames -> Nets \cup {NoNet}]
    /\ members \in [ClusterNames -> SUBSET Objects]
    /\ mbeans \in [Names -> Esmes \cup {NoEsme}]
    /\ disk \in {"none", "good", "torn"}
    /\ file \subseteq Config
    /\ pc \in [Admins -> Points]
    /\ then \in [Admins -> Points]
    /\ arg \in [Admins -> Objects \cup {NoEsme}]
    /\ found \in [Admins -> {"absent", "present", "detached"}]
    /\ todo \in [Admins -> SUBSET Objects]
    /\ snap \in [Admins -> SUBSET Config]
    /\ mixed \subseteq Admins
    /\ wanted \subseteq Names
    /\ stops \in 0 .. MaxStops

Init ==
    /\ life = "down"
    /\ conf = [o \in Esmes |-> NoConf]
    /\ esmes = {}
    /\ netOfCluster = [c \in ClusterNames |-> NoNet]
    /\ members = [c \in ClusterNames |-> {}]
    /\ mbeans = [n \in Names |-> NoEsme]
    /\ disk = "none" /\ file = {}
    /\ pc = [a \in Admins |-> "idle"]
    /\ then = [a \in Admins |-> "idle"]
    /\ arg = [a \in Admins |-> NoEsme]
    /\ found = [a \in Admins |-> "absent"]
    /\ todo = [a \in Admins |-> {}]
    /\ snap = [a \in Admins |-> {}]
    /\ mixed = {}
    /\ wanted = {}
    /\ stops = 0

-----------------------------------------------------------------------------
(* Reading the registry. *)

Named(n) == {o \in esmes : conf[o].name = n}

Image == {conf[o] : o \in esmes}

\* Mutant of Removals: no element of the list equals the one to remove.
RemovalsNone(list, o) == {list}

\* What List.remove(o) can leave of a list: Esme.equals() compares names.
Removals(list, o) ==
    LET equal == {x \in list : conf[x].name = conf[o].name}
    IN  IF equal = {} THEN {list} ELSE {list \ {x} : x \in equal}

\* The objects that something refers to.
InUse ==
    {o \in Esmes :
        \/ o \in esmes
        \/ \E c \in ClusterNames : o \in members[c]
        \/ \E a \in Admins : o = arg[a] \/ o \in todo[a]
        \/ \E n \in Names : o = mbeans[n]}

\* The cluster c leaves the map: those that hold it have one no one finds.
Losing(c, a) ==
    [b \in Admins |->
        IF b = a THEN "absent"
        ELSE IF found[b] = "present" /\ conf[arg[b]].cluster = c
             THEN "detached" ELSE found[b]]

-----------------------------------------------------------------------------
(* store(), the last thing an operation does before it goes on to next. *)

GoStore(a, next) ==
    /\ pc' = [pc EXCEPT ![a] = "store"]
    /\ then' = [then EXCEPT ![a] = next]

Writers == {a \in Admins : pc[a] \in {"opened", "written"}}

\* new FileOutputStream() truncates the file.
OpenStore(a) ==
    /\ pc[a] = "store"
    /\ disk' = "torn" /\ file' = {}
    /\ mixed' = IF Writers = {} THEN mixed ELSE mixed \cup Writers \cup {a}
    /\ pc' = [pc EXCEPT ![a] = "opened"]
    /\ UNCHANGED <<life, heap, mbeans, then, arg, found, todo, snap, history>>

WriteStore(a) ==
    /\ pc[a] = "opened"
    /\ snap' = [snap EXCEPT ![a] = Image]
    /\ pc' = [pc EXCEPT ![a] = "written"]
    /\ UNCHANGED <<life, heap, mbeans, xml, then, arg, found, todo, mixed,
                   history>>

\* Two that write at a time leave what either wrote, or a mixture.
CloseStore(a) ==
    /\ pc[a] = "written"
    /\ \/ disk' = "good" /\ file' = snap[a]
       \/ a \in mixed /\ disk' = "torn" /\ file' = {}
       \/ a \in mixed /\ UNCHANGED xml
    /\ mixed' = mixed \ {a}
    /\ snap' = [snap EXCEPT ![a] = {}]
    /\ pc' = [pc EXCEPT ![a] = then[a]]
    /\ then' = [then EXCEPT ![a] = "idle"]
    /\ arg' = IF then[a] = "idle" THEN [arg EXCEPT ![a] = NoEsme] ELSE arg
    /\ UNCHANGED <<life, heap, mbeans, found, todo, history>>

-----------------------------------------------------------------------------
(* createEsme() and destroyEsme(). *)

\* The checks, and the new object, which only its administrator knows yet.  A
\* cluster is always named: the command line gives the ESME's own name by default,
\* and a null name is looked up in the map before it is replaced by that.
CreateEsme(a, o, n, c, net) ==
    /\ pc[a] = "idle" /\ life # "down"
    /\ o \notin Objects
    /\ Named(n) = {}
    /\ netOfCluster[c] \in {NoNet, net}
    /\ conf' = [conf EXCEPT ![o] =
                    [name |-> n, cluster |-> c, net |-> net, started |-> FALSE]]
    /\ found' = [found EXCEPT ![a] =
                    IF netOfCluster[c] = NoNet THEN "absent" ELSE "present"]
    /\ arg' = [arg EXCEPT ![a] = o]
    /\ pc' = [pc EXCEPT ![a] = "creating"]
    /\ UNCHANGED <<life, esmes, netOfCluster, members, mbeans, xml, then, todo,
                   snap, mixed, history>>

\* A cluster that was not in the map is put there, over any that is by now.
EnterCluster(a, o, c) ==
    \/ /\ found[a] = "absent"
       /\ netOfCluster' = [netOfCluster EXCEPT ![c] = conf[o].net]
       /\ members' = [members EXCEPT ![c] = {o}]
       /\ found' = Losing(c, a)
    \/ /\ found[a] = "present"
       /\ members' = [members EXCEPT ![c] = @ \cup {o}]
       /\ found' = [found EXCEPT ![a] = "absent"]
       /\ UNCHANGED netOfCluster
    \/ /\ found[a] = "detached"
       /\ found' = [found EXCEPT ![a] = "absent"]
       /\ UNCHANGED <<netOfCluster, members>>

\* Mutant of AddEsme: the ESME is registered without having been stored.
AddEsmeUnstored(a) ==
    /\ pc[a] = "creating"
    /\ esmes' = esmes \cup {arg[a]}
    /\ EnterCluster(a, arg[a], conf[arg[a]].cluster)
    /\ pc' = [pc EXCEPT ![a] = "register"]
    /\ UNCHANGED <<life, conf, mbeans, xml, then, arg, todo, snap, mixed, history>>

AddEsme(a) ==
    /\ pc[a] = "creating"
    /\ esmes' = esmes \cup {arg[a]}
    /\ EnterCluster(a, arg[a], conf[arg[a]].cluster)
    /\ GoStore(a, "register")
    /\ UNCHANGED <<life, conf, mbeans, xml, arg, todo, snap, mixed, history>>

\* A name that is registered keeps its MBean.
Register(a) ==
    LET n == conf[arg[a]].name
    IN  /\ pc[a] = "register"
        /\ mbeans' = [mbeans EXCEPT ![n] = IF @ = NoEsme THEN arg[a] ELSE @]
        /\ wanted' = wanted \cup {n}
        /\ arg' = [arg EXCEPT ![a] = NoEsme]
        /\ pc' = [pc EXCEPT ![a] = "idle"]
        /\ UNCHANGED <<life, heap, xml, then, found, todo, snap, mixed, stops>>

DestroyEsme(a, o) ==
    /\ pc[a] = "idle" /\ life # "down"
    /\ o \in esmes
    /\ ~ conf[o].started
    /\ arg' = [arg EXCEPT ![a] = o]
    /\ wanted' = wanted \ {conf[o].name}
    /\ pc' = [pc EXCEPT ![a] = "destroying"]
    /\ UNCHANGED <<life, heap, mbeans, xml, then, found, todo, snap, mixed, stops>>

\* Mutant of LeaveCluster: a cluster without ESMEs stays in the map.
LeaveClusterEmpty(a, o, c) ==
    /\ \E rest \in Removals(members[c], o) : members' = [members EXCEPT ![c] = rest]
    /\ UNCHANGED <<netOfCluster, found>>

\* A cluster that loses its last ESME is taken out of the map.
LeaveCluster(a, o, c) ==
    \E rest \in Removals(members[c], o) :
        /\ members' = [members EXCEPT ![c] = rest]
        /\ \/ /\ rest = {}
              /\ netOfCluster' = [netOfCluster EXCEPT ![c] = NoNet]
              /\ found' = Losing(c, a)
           \/ /\ rest # {}
              /\ UNCHANGED <<netOfCluster, found>>

\* Without a cluster in the map a null pointer ends the command here.
RemoveEsme(a) ==
    LET o == arg[a]
        c == conf[o].cluster
    IN  /\ pc[a] = "destroying"
        /\ esmes' \in Removals(esmes, o)
        /\ \/ /\ netOfCluster[c] = NoNet
              /\ arg' = [arg EXCEPT ![a] = NoEsme]
              /\ pc' = [pc EXCEPT ![a] = "idle"]
              /\ UNCHANGED <<netOfCluster, members, found, then>>
           \/ /\ netOfCluster[c] # NoNet
              /\ LeaveCluster(a, o, c)
              /\ GoStore(a, "unregister")
              /\ UNCHANGED arg
        /\ UNCHANGED <<life, conf, mbeans, xml, todo, snap, mixed, history>>

\* Mutant of Unregister: the object is freed although a cluster may refer to it.
UnregisterFrees(a) ==
    /\ pc[a] = "unregister"
    /\ mbeans' = [mbeans EXCEPT ![conf[arg[a]].name] = NoEsme]
    /\ arg' = [arg EXCEPT ![a] = NoEsme]
    /\ pc' = [pc EXCEPT ![a] = "idle"]
    /\ conf' = [conf EXCEPT ![arg[a]] = NoConf]
    /\ UNCHANGED <<life, esmes, netOfCluster, members, xml, then, found, todo,
                   snap, mixed, history>>

\* The object is dropped with the last reference to it.
Unregister(a) ==
    /\ pc[a] = "unregister"
    /\ mbeans' = [mbeans EXCEPT ![conf[arg[a]].name] = NoEsme]
    /\ arg' = [arg EXCEPT ![a] = NoEsme]
    /\ pc' = [pc EXCEPT ![a] = "idle"]
    /\ UNCHANGED <<life, esmes, netOfCluster, members, xml, then, found, todo,
                   snap, mixed, history>>
    /\ conf' = [o \in Esmes |-> IF o \in InUse' THEN conf[o] ELSE NoConf]

-----------------------------------------------------------------------------
(* startEsme(), stopEsme() and modifyEsme(). *)

SetStarted(a, o, value) ==
    /\ pc[a] = "idle" /\ life # "down"
    /\ o \in esmes
    /\ conf' = [conf EXCEPT ![o] = [@ EXCEPT !.started = value]]
    /\ GoStore(a, "idle")
    /\ UNCHANGED <<life, esmes, netOfCluster, members, mbeans, xml, arg, found,
                   todo, snap, mixed, history>>

StartEsme(a, o) == ~ conf[o].started /\ SetStarted(a, o, TRUE)

StopEsme(a, o) == SetStarted(a, o, FALSE)

ModifyEsme(a, o) ==
    /\ pc[a] = "idle" /\ life # "down"
    /\ o \in esmes
    /\ arg' = [arg EXCEPT ![a] = o]
    /\ pc' = [pc EXCEPT ![a] = "modifying"]
    /\ UNCHANGED <<life, heap, mbeans, xml, then, found, todo, snap, mixed, history>>

\* Mutant of SetNetworkId: the setter does not store.
SetNetworkIdUnstored(a, net) ==
    /\ pc[a] = "modifying"
    /\ conf' = [conf EXCEPT ![arg[a]] = [@ EXCEPT !.net = net]]
    /\ UNCHANGED <<life, esmes, netOfCluster, members, mbeans, xml, threads, history>>

\* Each parameter is set and stored on its own; the cluster is not asked.
SetNetworkId(a, net) ==
    /\ pc[a] = "modifying"
    /\ conf' = [conf EXCEPT ![arg[a]] = [@ EXCEPT !.net = net]]
    /\ GoStore(a, "modifying")
    /\ UNCHANGED <<life, esmes, netOfCluster, members, mbeans, xml, arg, found,
                   todo, snap, mixed, history>>

\* The last parameter was set, or the next one is wrong.
EndModify(a) ==
    /\ pc[a] = "modifying"
    /\ arg' = [arg EXCEPT ![a] = NoEsme]
    /\ pc' = [pc EXCEPT ![a] = "idle"]
    /\ UNCHANGED <<life, heap, mbeans, xml, then, found, todo, snap, mixed, history>>

-----------------------------------------------------------------------------
(* start(), load() and stop(). *)

\* The ESMEs read are new objects, one for each that the file holds.
LoadFile(a) ==
    /\ pc[a] = "idle" /\ life \in {"down", "stopped"}
    /\ disk = "good"
    /\ \E new \in SUBSET (Esmes \ Objects) :
         \E read \in [new -> file] :
            /\ \A o, x \in new : read[o] = read[x] => o = x
            /\ \A r \in file : \E o \in new : read[o] = r
            /\ conf' = [o \in Esmes |-> IF o \in new THEN read[o] ELSE conf[o]]
            /\ esmes' = new
            /\ todo' = [todo EXCEPT ![a] = new]
    /\ life' = "running"
    /\ pc' = [pc EXCEPT ![a] = "populating"]
    /\ UNCHANGED <<netOfCluster, members, mbeans, xml, then, arg, found, snap,
                   mixed, history>>

\* There is no file, or it cannot be read: the list stays as it is.
LoadNothing(a) ==
    /\ pc[a] = "idle" /\ life \in {"down", "stopped"}
    /\ disk # "good"
    /\ wanted' = {conf[o].name : o \in esmes}
    /\ life' = "running"
    /\ pc' = [pc EXCEPT ![a] = "populating"]
    /\ UNCHANGED <<heap, mbeans, xml, then, arg, found, todo, snap, mixed, stops>>

\* Mutant of TakeNetworkId: the ESME keeps the network id it was read with.
TakeNetworkIdNot(o, c) == UNCHANGED conf

TakeNetworkId(o, c) ==
    conf' = [conf EXCEPT ![o] = [@ EXCEPT !.net = netOfCluster[c]]]

\* An ESME whose cluster is there takes its network id, which is stored.
Populate(a, o) ==
    LET c == conf[o].cluster
    IN  /\ pc[a] = "populating"
        /\ o \in todo[a]
        /\ \/ /\ netOfCluster[c] = NoNet
              /\ netOfCluster' = [netOfCluster EXCEPT ![c] = conf[o].net]
              /\ members' = [members EXCEPT ![c] = {o}]
              /\ todo' = [todo EXCEPT ![a] = @ \ {o}]
              /\ UNCHANGED <<conf, pc, then, arg, found>>
           \/ /\ netOfCluster[c] # NoNet
              /\ TakeNetworkId(o, c)
              /\ arg' = [arg EXCEPT ![a] = o]
              /\ found' = [found EXCEPT ![a] = "present"]
              /\ GoStore(a, "joining")
              /\ UNCHANGED <<netOfCluster, members, todo>>
        /\ UNCHANGED <<life, esmes, mbeans, xml, snap, mixed, history>>

\* Mutant of Join: the ESME is not added to the cluster.
JoinForgets(a) ==
    /\ pc[a] = "joining"
    /\ todo' = [todo EXCEPT ![a] = @ \ {arg[a]}]
    /\ found' = [found EXCEPT ![a] = "absent"]
    /\ arg' = [arg EXCEPT ![a] = NoEsme]
    /\ pc' = [pc EXCEPT ![a] = "populating"]
    /\ UNCHANGED <<life, heap, mbeans, xml, then, snap, mixed, history>>

Join(a) ==
    LET c == conf[arg[a]].cluster
    IN  /\ pc[a] = "joining"
        /\ members' = IF found[a] = "detached" THEN members
                      ELSE [members EXCEPT ![c] = @ \cup {arg[a]}]
        /\ todo' = [todo EXCEPT ![a] = @ \ {arg[a]}]
        /\ found' = [found EXCEPT ![a] = "absent"]
        /\ arg' = [arg EXCEPT ![a] = NoEsme]
        /\ pc' = [pc EXCEPT ![a] = "populating"]
        /\ UNCHANGED <<life, conf, esmes, netOfCluster, mbeans, xml, then, snap,
                       mixed, history>>

RegisterAll(a) ==
    /\ pc[a] = "populating"
    /\ todo[a] = {}
    /\ mbeans' \in {f \in [Names -> Esmes \cup {NoEsme}] : \A n \in Names :
                        f[n] \in IF mbeans[n] # NoEsme THEN {mbeans[n]}
                                 ELSE IF Named(n) = {} THEN {NoEsme} ELSE Named(n)}
    /\ pc' = [pc EXCEPT ![a] = "idle"]
    /\ UNCHANGED <<life, heap, xml, then, arg, found, todo, snap, mixed, history>>

\* The list and the clusters outlive stop().
StopManagement(a) ==
    /\ pc[a] = "idle" /\ life = "running" /\ stops < MaxStops
    /\ stops' = stops + 1
    /\ GoStore(a, "unregisterAll")
    /\ UNCHANGED <<life, heap, mbeans, xml, arg, found, todo, snap, mixed, wanted>>

UnregisterAll(a) ==
    /\ pc[a] = "unregisterAll"
    /\ mbeans' = [n \in Names |-> IF Named(n) = {} THEN mbeans[n] ELSE NoEsme]
    /\ life' = "stopped"
    /\ pc' = [pc EXCEPT ![a] = "idle"]
    /\ UNCHANGED <<heap, xml, then, arg, found, todo, snap, mixed, history>>

\* The JVM ends, in the middle of whatever it does; what was written and not
\* closed may be in the file.
Crash ==
    /\ life # "down"
    /\ \/ UNCHANGED xml
       \/ \E a \in Admins : /\ pc[a] = "written"
                            /\ disk' = "good" /\ file' = snap[a]
    /\ life' = "down"
    /\ conf' = [o \in Esmes |-> NoConf]
    /\ esmes' = {}
    /\ netOfCluster' = [c \in ClusterNames |-> NoNet]
    /\ members' = [c \in ClusterNames |-> {}]
    /\ mbeans' = [n \in Names |-> NoEsme]
    /\ pc' = [a \in Admins |-> "idle"]
    /\ then' = [a \in Admins |-> "idle"]
    /\ arg' = [a \in Admins |-> NoEsme]
    /\ found' = [a \in Admins |-> "absent"]
    /\ todo' = [a \in Admins |-> {}]
    /\ snap' = [a \in Admins |-> {}]
    /\ mixed' = {}
    /\ stops' = 0
    /\ UNCHANGED wanted

-----------------------------------------------------------------------------
Command(a) ==
    \/ \E o \in Esmes, n \in Names, c \in ClusterNames, net \in Nets :
            CreateEsme(a, o, n, c, net)
    \/ \E o \in esmes : DestroyEsme(a, o) \/ StartEsme(a, o) \/ StopEsme(a, o)
                            \/ ModifyEsme(a, o)
    \/ LoadFile(a) \/ LoadNothing(a) \/ StopManagement(a)

Step(a) ==
    \/ OpenStore(a) \/ WriteStore(a) \/ CloseStore(a)
    \/ AddEsme(a) \/ Register(a) \/ RemoveEsme(a) \/ Unregister(a)
    \/ \E net \in Nets : SetNetworkId(a, net)
    \/ EndModify(a)
    \/ \E o \in todo[a] : Populate(a, o)
    \/ Join(a) \/ RegisterAll(a) \/ UnregisterAll(a)

Next == Crash \/ \E a \in Admins : Command(a) \/ Step(a)

Spec == Init /\ [][Next]_vars

-----------------------------------------------------------------------------
Quiet == \A a \in Admins : pc[a] = "idle"

\* Whenever no command is under way, messages for a cluster can reach every
\* ESME of its name: EsmeManagement.esmes and esmeClusters are changed one
\* after the other by create, destroy and load.
Reachable ==
    Quiet => \A o \in esmes : o \in members[conf[o].cluster]

\* In a JVM in which the management has not been stopped, the clusters are
\* those of the ESMEs in the list, each with exactly its own.
Grouped ==
    Quiet /\ stops = 0 =>
        \A c \in ClusterNames :
            /\ members[c] = {o \in esmes : conf[o].cluster = c}
            /\ netOfCluster[c] = NoNet <=> members[c] = {}

\* Between commands the file holds what the list does, whichever command was
\* the last and however far it came, unless nothing could be loaded.
Persisted ==
    Quiet /\ life # "down" =>
        IF disk = "good" THEN file = Image ELSE esmes = {}

\* What Chapter-Running.adoc says, "the state and configuration of SMPP is
\* persisted which stands server re-start": whenever no command is under way and
\* there are ESMEs, a restart could read the file.
StandsRestart == Quiet /\ esmes # {} => disk = "good"

\* An ESME that has been created is in the list, and in any file that can be
\* read, until it is destroyed: the end of the JVM in the middle of a command
\* loses the ESMEs of others only by leaving the file torn.
Kept ==
    /\ life # "down" => wanted \subseteq {conf[o].name : o \in esmes}
    /\ disk = "good" => wanted \subseteq {r.name : r \in file}

(***************************************************************************)
(* To a restart, the list and its file are those of DurableRegistry: the   *)
(* ESMEs of all names but one survive any command, a store() that does not *)
(* come to its end loses the file and never part of it, and load() gives   *)
(* the list that was stored.                                               *)
(***************************************************************************)
Durable == INSTANCE DurableRegistry WITH
    up <- life # "down",
    list <- Image,
    saved <- IF disk = "good" THEN file ELSE {},
    busy <- ~ Quiet

ImplementsDurable == Durable!Spec

\* However many administrators there are: no cluster is left in the map without
\* ESMEs, none has the ESME of another cluster, and an MBean is of an ESME of its
\* name.  An EsmeCluster that was found early is given an ESME late, and one that
\* loses its last ESME goes, whoever has found it by then.
NoStrangers ==
    /\ \A c \in ClusterNames :
        /\ netOfCluster[c] = NoNet <=> members[c] = {}
        /\ \A o \in members[c] : conf[o].cluster = c
    /\ \A n \in Names : mbeans[n] # NoEsme =>
        mbeans[n] \in Objects /\ conf[mbeans[n]].name = n

\* When load() has put every ESME in its cluster, they agree on the network id,
\* which SetNetworkId may have made to differ before.
OneNetwork ==
    \A a \in Admins : pc[a] = "populating" /\ todo[a] = {} =>
        \A o \in esmes : conf[o].net = netOfCluster[conf[o].cluster]

\* In a JVM in which the management has not been stopped, every ESME of the
\* list, and no other, is what an administrator finds under its name.
Managed ==
    Quiet /\ stops = 0 => \A n \in Names :
        IF Named(n) = {} THEN mbeans[n] = NoEsme ELSE Named(n) = {mbeans[n]}

=============================================================================
