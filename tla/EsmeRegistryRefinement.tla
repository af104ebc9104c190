----------------------- MODULE EsmeRegistryRefinement -----------------------
(***************************************************************************)
(* One administrator's EsmeRegistry implements DurableRegistry: every step *)
(* of a command, of store(), of load() and the end of the JVM is a step of *)
(* it or a stutter.  What a step needs of the state is IInv, of            *)
(* EsmeRegistryProofs; the list that DurableRegistry speaks of is Image,   *)
(* and it is what a restart would find whenever nobody is storing.         *)
(***************************************************************************)
EXTENDS EsmeRegistryProofs

\* What a restart would find.
Saved == IF disk = "good" THEN file ELSE {}

DurableStep == [Durable!Next]_(Durable!vars)

\* One administrator is idle, or a command is under way.
LEMMA QuietAlone ==
    ASSUME OneAdmin, NEW a \in Admins
    PROVE  Quiet <=> pc[a] = "idle"
BY DEF OneAdmin, Quiet

LEMMA QuietAloneNext ==
    ASSUME OneAdmin, NEW a \in Admins
    PROVE  Quiet' <=> pc'[a] = "idle"
BY DEF OneAdmin, Quiet

\* An administrator that is not storing leaves the file as the list.
LEMMA SavedIsList ==
    ASSUME IInv, NEW a \in Admins, pc[a] \notin StorePoints, life # "down"
    PROVE  Saved = Image
<1>1. IF disk = "good" THEN file = Image ELSE esmes = {}
  BY DEF IInv, FileInv
<1> QED BY <1>1 DEF Saved, Image

\* A step that keeps the list and the file is one of a command, or ends one.
LEMMA SilentStep ==
    ASSUME IInv, NEW a \in Admins, life # "down", life' # "down",
           UNCHANGED xml, Image' = Image,
           pc'[a] # "idle" \/ (pc[a] # "idle" /\ pc[a] \notin StorePoints)
    PROVE  DurableStep
<1>1. /\ Quiet <=> pc[a] = "idle"
      /\ Quiet' <=> pc'[a] = "idle"
  BY QuietAlone, QuietAloneNext DEF IInv
<1>2. Saved' = Saved
  BY DEF xml, Saved
<1>3. CASE pc'[a] # "idle"
  BY <1>1, <1>2, <1>3 DEF DurableStep, Durable!Next, Durable!Begin, Saved
<1>4. CASE pc'[a] = "idle"
  <2>1. pc[a] # "idle" /\ Saved = Image
    BY <1>4, SavedIsList
  <2> QED BY <1>1, <1>2, <1>4, <2>1 DEF DurableStep, Durable!Next, Durable!End, Saved
<1> QED BY <1>3, <1>4

\* A step that changes the ESMEs of one name, and does not store.
LEMMA ChangeStep ==
    ASSUME IInv, IInv', NEW a \in Admins, NEW n \in Names, life # "down",
           life' # "down", UNCHANGED xml, pc'[a] # "idle",
           {r \in Image' : r.name # n} = {r \in Image : r.name # n}
    PROVE  DurableStep
<1>1. Quiet' <=> pc'[a] = "idle"
  BY QuietAloneNext DEF IInv
<1>2. Saved' = Saved
  BY DEF xml, Saved
<1>3. Durable!NamedOnce(Image')
  <2>1. \A o, x \in esmes' : conf'[o].name = conf'[x].name => o = x
    BY DEF IInv, NamesInv
  <2> QED BY <2>1 DEF Durable!NamedOnce, Image
<1> QED BY <1>1, <1>2, <1>3 DEF DurableStep, Durable!Next, Durable!Change, Saved

\* A setter changes what the list says of its own ESME.
LEMMA SetterStep ==
    ASSUME IInv, IInv', NEW a \in Admins, NEW o \in Objects, NEW r \in Config,
           r.name = conf[o].name, conf' = [conf EXCEPT ![o] = r],
           life # "down", life' # "down", UNCHANGED <<esmes, xml>>, pc'[a] # "idle"
    PROVE  DurableStep
<1> DEFINE n == conf[o].name
<1>1. n \in Names
  BY Fields DEF IInv
<1>2. conf'[o] = r /\ \A x \in Objects \ {o} : conf'[x] = conf[x]
  BY SameObjects DEF IInv
<1>3. \A x \in esmes : conf[x].name # n => conf'[x] = conf[x]
  BY <1>2 DEF IInv, TypeOK
<1>4. \A x \in esmes : conf'[x].name # n => conf'[x] = conf[x]
  BY <1>2 DEF IInv, TypeOK
<1> HIDE DEF n
<1>5. {s \in Image' : s.name # n} = {s \in Image : s.name # n}
  BY <1>3, <1>4 DEF Image
<1> QED BY <1>1, <1>5, ChangeStep

LEMMA StartedDurable ==
    ASSUME IInv, IInv', NEW a \in Admins, NEW o \in esmes, NEW b \in BOOLEAN,
           SetStarted(a, o, b)
    PROVE  DurableStep
<1> DEFINE r == [conf[o] EXCEPT !.started = b]
<1>1. o \in Objects /\ conf[o] \in Config
  BY Fields DEF IInv, TypeOK
<1>2. r \in Config /\ r.name = conf[o].name
  BY <1>1, WithStarted
<1>3. conf' = [conf EXCEPT ![o] = r]
  BY DEF SetStarted
<1> HIDE DEF r
<1>4. /\ life # "down" /\ life' # "down" /\ UNCHANGED <<esmes, xml>>
      /\ pc'[a] # "idle"
  BY DEF SetStarted, GoStore, IInv, TypeOK
<1> QED BY <1>1, <1>2, <1>3, <1>4, SetterStep

LEMMA NetworkDurable ==
    ASSUME IInv, IInv', NEW a \in Admins, NEW w \in Nets, SetNetworkId(a, w)
    PROVE  DurableStep
<1> DEFINE o == arg[a]
           r == [conf[o] EXCEPT !.net = w]
<1>1. o \in Objects
  BY HeldArg DEF IInv, SetNetworkId, Holding
<1>2. conf[o] \in Config
  BY <1>1, Fields DEF IInv
<1>3. r \in Config /\ r.name = conf[o].name
  BY <1>2, WithNet
<1>4. conf' = [conf EXCEPT ![o] = r]
  BY DEF SetNetworkId
<1> HIDE DEF o, r
<1>5. /\ life # "down" /\ life' # "down" /\ UNCHANGED <<esmes, xml>>
      /\ pc'[a] # "idle"
  BY DEF SetNetworkId, GoStore, IInv, TypeOK, LifeInv
<1> QED BY <1>1, <1>3, <1>4, <1>5, SetterStep

LEMMA AddDurable ==
    ASSUME IInv, IInv', NEW a \in Admins, AddEsme(a)
    PROVE  DurableStep
<1> DEFINE o == arg[a]
           n == conf[o].name
<1>1. n \in Names
  BY HeldArg, Fields DEF AddEsme, Holding, IInv
<1>2. /\ esmes' = esmes \cup {o} /\ UNCHANGED <<conf, xml, life>>
      /\ life # "down" /\ pc'[a] # "idle"
  BY DEF AddEsme, GoStore, IInv, TypeOK, LifeInv
<1> HIDE DEF o
<1>3. {s \in Image' : s.name # n} = {s \in Image : s.name # n}
  BY <1>2 DEF Image
<1> QED BY <1>1, <1>2, <1>3, ChangeStep

LEMMA RemoveDurable ==
    ASSUME IInv, IInv', NEW a \in Admins, RemoveEsme(a)
    PROVE  DurableStep
<1> DEFINE o == arg[a]
           n == conf[o].name
<1>1. pc[a] = "destroying" /\ esmes' \in Removals(esmes, o)
  BY DEF RemoveEsme
<1>2. o \in esmes
  BY <1>1 DEF IInv, ThreadInv, At
<1>3. n \in Names
  BY <1>2, Fields DEF IInv, TypeOK
<1>4. esmes' = esmes \ {o}
  <2>1. \A x \in esmes : conf[x].name = conf[o].name => x = o
    BY <1>2 DEF IInv, NamesInv
  <2> QED BY <1>1, <1>2, <2>1, RemovesOne
<1>5. netOfCluster[conf[o].cluster] # NoNet
  <2>1. conf[o].cluster \in ClusterNames
    BY <1>2, Fields DEF IInv, TypeOK
  <2>2. todo[a] = {}
    BY <1>1 DEF IInv, ThreadInv, At, StorePoints
  <2>3. o \in members[conf[o].cluster]
    BY <1>2, <2>2 DEF IInv, OneAdmin, ClusterInv
  <2> QED BY <2>1, <2>3 DEF IInv, ClusterInv
<1>6. UNCHANGED <<conf, xml, life>> /\ life # "down" /\ pc'[a] # "idle"
  BY <1>1, <1>5 DEF RemoveEsme, GoStore, IInv, TypeOK, LifeInv
<1> HIDE DEF o
<1>7. {s \in Image' : s.name # n} = {s \in Image : s.name # n}
  BY <1>4, <1>6 DEF Image
<1> QED BY <1>3, <1>6, <1>7, ChangeStep

LEMMA PopulateDurable ==
    ASSUME IInv, IInv', NEW a \in Admins, NEW o \in todo[a], Populate(a, o)
    PROVE  DurableStep
<1> DEFINE c == conf[o].cluster
<1>1. o \in Objects /\ conf[o] \in Config /\ c \in ClusterNames
  BY Fields DEF IInv, TypeOK
<1>2. /\ pc[a] = "populating" /\ UNCHANGED <<life, esmes, xml>> /\ life # "down"
  BY DEF Populate, IInv, LifeInv
<1>3. CASE netOfCluster[c] = NoNet
  <2>1. UNCHANGED <<conf, pc>>
    BY <1>3 DEF Populate
  <2> QED BY <1>2, <2>1, ImageSame, SilentStep DEF StorePoints
<1>4. CASE netOfCluster[c] # NoNet
  <2> DEFINE r == [conf[o] EXCEPT !.net = netOfCluster[c]]
  <2>1. conf' = [conf EXCEPT ![o] = r] /\ pc'[a] # "idle"
    BY <1>4 DEF Populate, TakeNetworkId, GoStore, IInv, TypeOK
  <2>2. netOfCluster[c] \in Nets
    BY <1>1, <1>4 DEF IInv, TypeOK
  <2>3. r \in Config /\ r.name = conf[o].name
    BY <1>1, <2>2, WithNet
  <2> HIDE DEF r
  <2> QED BY <1>1, <1>2, <2>1, <2>3, SetterStep
<1> QED BY <1>3, <1>4

\* store().
LEMMA StoreDurable ==
    ASSUME IInv, NEW a \in Admins, OpenStore(a) \/ WriteStore(a) \/ CloseStore(a)
    PROVE  DurableStep
<1>1. /\ Quiet <=> pc[a] = "idle"
      /\ Quiet' <=> pc'[a] = "idle"
  BY QuietAlone, QuietAloneNext DEF IInv
<1>2. UNCHANGED <<life, conf, esmes>> /\ life # "down" /\ pc[a] # "idle"
  BY DEF OpenStore, WriteStore, CloseStore, heap, IInv, LifeInv
<1>3. Image' = Image
  BY <1>2, ImageSame
<1>4. CASE WriteStore(a)
  <2>1. pc'[a] # "idle" /\ UNCHANGED xml
    BY <1>4 DEF WriteStore, IInv, TypeOK
  <2> QED BY <1>2, <1>3, <2>1, SilentStep
<1>5. CASE OpenStore(a)
  <2>1. pc'[a] # "idle" /\ Saved' = {}
    BY <1>5 DEF OpenStore, IInv, TypeOK, Saved
  <2> QED
    BY <1>1, <1>2, <1>3, <2>1 DEF DurableStep, Durable!Next, Durable!Save, Saved
<1>6. CASE CloseStore(a)
  <2>1. Saved' = Image
    BY <1>6 DEF CloseStore, IInv, ThreadInv, FileInv, Saved
  <2>2. CASE pc'[a] # "idle"
    BY <1>1, <1>2, <1>3, <2>1, <2>2 DEF DurableStep, Durable!Next, Durable!Save, Saved
  <2>3. CASE pc'[a] = "idle"
    BY <1>1, <1>2, <1>3, <2>1, <2>3 DEF DurableStep, Durable!Next, Durable!End, Saved
  <2> QED BY <2>2, <2>3
<1> QED BY <1>4, <1>5, <1>6

\* The steps that change neither the list nor the file.
LEMMA OtherDurable ==
    ASSUME IInv, NEW a \in Admins,
           \/ \E o \in esmes : DestroyEsme(a, o) \/ ModifyEsme(a, o)
           \/ StopManagement(a) \/ Register(a) \/ EndModify(a) \/ Join(a)
           \/ RegisterAll(a) \/ UnregisterAll(a)
    PROVE  DurableStep
<1>1. UNCHANGED <<conf, esmes, xml>>
  BY DEF DestroyEsme, ModifyEsme, StopManagement, Register, EndModify, Join,
     RegisterAll, UnregisterAll, heap
<1>2. life # "down" /\ life' # "down"
  BY DEF DestroyEsme, ModifyEsme, StopManagement, Register, EndModify, Join,
     RegisterAll, UnregisterAll, IInv, LifeInv
<1>3. pc'[a] # "idle" \/ (pc[a] # "idle" /\ pc[a] \notin StorePoints)
  BY DEF DestroyEsme, ModifyEsme, StopManagement, Register, EndModify, Join,
     RegisterAll, UnregisterAll, GoStore, StorePoints, IInv, TypeOK
<1> QED BY <1>1, <1>2, <1>3, ImageSame, SilentStep

LEMMA CreateDurable ==
    ASSUME IInv, NEW a \in Admins, NEW o \in Esmes, NEW n \in Names,
           NEW c \in ClusterNames, NEW w \in Nets, CreateEsme(a, o, n, c, w)
    PROVE  DurableStep
<1>1. \A x \in esmes : conf'[x] = conf[x]
  BY DEF CreateEsme, IInv, TypeOK, Objects
<1>2. Image' = Image
  BY <1>1 DEF CreateEsme, Image
<1>3. /\ life # "down" /\ UNCHANGED <<life, xml>> /\ pc'[a] # "idle"
  BY DEF CreateEsme, IInv, TypeOK
<1> QED BY <1>2, <1>3, SilentStep

LEMMA UnregisterDurable ==
    ASSUME IInv, NEW a \in Admins, Unregister(a)
    PROVE  DurableStep
<1>1. \A x \in esmes : x \in InUse' /\ x \in Esmes
  BY DEF Unregister, InUse, IInv, TypeOK, Objects
<1>2. Image' = Image
  BY <1>1 DEF Unregister, Image
<1>3. /\ life # "down" /\ UNCHANGED <<life, xml>>
      /\ pc[a] # "idle" /\ pc[a] \notin StorePoints
  BY DEF Unregister, IInv, LifeInv, StorePoints
<1> QED BY <1>2, <1>3, SilentStep

\* load() takes up what was saved, and, without a restart, changes nothing.
LEMMA LoadDurable ==
    ASSUME IInv, NEW a \in Admins, LoadFile(a) \/ LoadNothing(a)
    PROVE  DurableStep
<1>1. /\ pc[a] = "idle" /\ pc'[a] # "idle" /\ life' # "down" /\ UNCHANGED xml
  BY DEF LoadFile, LoadNothing, IInv, TypeOK
<1>2. Quiet /\ ~ Quiet'
  BY <1>1, QuietAlone, QuietAloneNext DEF IInv
<1>3. Saved' = Saved
  BY <1>1 DEF xml, Saved
<1>4. Image' = Saved
  <2>1. CASE LoadFile(a)
    <3>1. PICK new \in SUBSET (Esmes \ Objects) : \E read \in [new -> file] :
             /\ \A r \in file : \E o \in new : read[o] = r
             /\ conf' = [o \in Esmes |-> IF o \in new THEN read[o] ELSE conf[o]]
             /\ esmes' = new
      BY <2>1 DEF LoadFile
    <3>2. PICK read \in [new -> file] :
             /\ \A r \in file : \E o \in new : read[o] = r
             /\ conf' = [o \in Esmes |-> IF o \in new THEN read[o] ELSE conf[o]]
             /\ esmes' = new
      BY <3>1
    <3>3. \A o \in new : conf'[o] = read[o] /\ read[o] \in file
      BY <3>2
    <3>4. Image' = file
      BY <3>2, <3>3 DEF Image
    <3> QED BY <2>1, <3>4 DEF LoadFile, Saved
  <2>2. CASE LoadNothing(a)
    <3>1. esmes = {}
      <4>1. CASE life = "down"
        BY <4>1 DEF IInv, LifeInv
      <4>2. CASE life # "down"
        BY <1>1, <2>2, <4>2 DEF LoadNothing, IInv, FileInv, StorePoints
      <4> QED BY <4>1, <4>2
    <3>2. esmes' = {} /\ Saved = {}
      BY <2>2, <3>1 DEF LoadNothing, heap, Saved
    <3> QED BY <3>2 DEF Image
  <2> QED BY <2>1, <2>2
<1>5. CASE life = "down"
  BY <1>1, <1>2, <1>3, <1>4, <1>5 DEF DurableStep, Durable!Next, Durable!Restart, Saved
<1>6. CASE life # "down"
  <2>1. Saved = Image
    BY <1>1, <1>6, SavedIsList DEF StorePoints
  <2> QED BY <1>1, <1>4, <1>6, <2>1, SilentStep
<1> QED BY <1>5, <1>6

\* The end of the JVM leaves what was saved, or the list if it was being written.
LEMMA CrashDurable ==
    ASSUME IInv, Crash
    PROVE  DurableStep
<1>1. life # "down" /\ life' = "down" /\ Quiet'
  BY DEF Crash, Quiet
<1>2. Image' = {}
  BY DEF Crash, Image
<1>3. Saved' = Saved \/ (~ Quiet /\ Saved' = Image)
  <2>1. CASE UNCHANGED xml
    BY <2>1 DEF xml, Saved
  <2>2. ASSUME NEW a \in Admins, pc[a] = "written", disk' = "good", file' = snap[a]
        PROVE  ~ Quiet /\ Saved' = Image
    BY <2>2 DEF Quiet, Saved, IInv, FileInv
  <2> QED BY <2>1, <2>2 DEF Crash
<1> QED BY <1>1, <1>2, <1>3 DEF DurableStep, Durable!Next, Durable!Crash, Saved

(***************************************************************************)
(* For one administrator, any sets of objects, names, clusters and network *)
(* ids, and any number of ends of the JVM: the registry implements         *)
(* DurableRegistry.                                                        *)
(***************************************************************************)
THEOREM RefinesDurable == OneAdmin /\ Spec => ImplementsDurable
<1>1. Init => Durable!Init
  BY DEF Init, Durable!Init, Image, Quiet
<1>2. IInv /\ IInv' /\ [Next]_vars => [Durable!Next]_(Durable!vars)
  <2> SUFFICES ASSUME IInv, IInv', [Next]_vars PROVE DurableStep
    BY DEF DurableStep
  <2>1. CASE Crash
    BY <2>1, CrashDurable
  <2>2. ASSUME NEW a \in Admins, Command(a) PROVE DurableStep
    BY <2>2, CreateDurable, StartedDurable, OtherDurable, LoadDurable
    DEF Command, StartEsme, StopEsme
  <2>3. ASSUME NEW a \in Admins, Step(a) PROVE DurableStep
    BY <2>3, StoreDurable, AddDurable, RemoveDurable, NetworkDurable,
       PopulateDurable, UnregisterDurable, OtherDurable DEF Step
  <2>4. CASE UNCHANGED vars
    <3>1. UNCHANGED <<life, disk, file, pc>> /\ Image' = Image
      BY <2>4, ImageSame DEF vars, heap, xml, threads
    <3> QED BY <3>1 DEF DurableStep, Durable!vars, Quiet
  <2> QED BY <2>1, <2>2, <2>3, <2>4 DEF Next
<1> QED BY Invariance, <1>1, <1>2, PTL
     DEF Spec, ImplementsDurable, Durable!Spec

=============================================================================
