------------------------- MODULE EsmeRegistryProofs -------------------------
(***************************************************************************)
(* Proofs about EsmeRegistry, for every set of objects, names, clusters    *)
(* and network ids: type correctness for any number of administrators, and *)
(* the agreement of the list, the clusters and the file for one.           *)
(***************************************************************************)
EXTENDS EsmeRegistry, TLAPS

-----------------------------------------------------------------------------
(***************************************************************************)
(* Type correctness.                                                       *)
(***************************************************************************)
\* A setter changes its own field of an Esme.
LEMMA WithNet ==
    ASSUME NEW r \in Config, NEW w \in Nets
    PROVE  /\ [r EXCEPT !.net = w] \in Config
           /\ [r EXCEPT !.net = w].net = w
           /\ [r EXCEPT !.net = w].name = r.name
           /\ [r EXCEPT !.net = w].cluster = r.cluster
BY DEF Config

LEMMA WithStarted ==
    ASSUME NEW r \in Config, NEW b \in BOOLEAN
    PROVE  /\ [r EXCEPT !.started = b] \in Config
           /\ [r EXCEPT !.started = b].net = r.net
           /\ [r EXCEPT !.started = b].name = r.name
           /\ [r EXCEPT !.started = b].cluster = r.cluster
BY DEF Config

LEMMA ConfigFields ==
    ASSUME NEW r \in Config
    PROVE  r.name \in Names /\ r.cluster \in ClusterNames /\ r.net \in Nets
BY DEF Config

\* An object has its fields.
LEMMA Fields ==
    ASSUME TypeOK, NEW o \in Objects
    PROVE  /\ o \in Esmes /\ conf[o] \in Config
           /\ conf[o].name \in Names
           /\ conf[o].cluster \in ClusterNames
           /\ conf[o].net \in Nets
BY ConfigFields DEF TypeOK, Objects

LEMMA NewConfig ==
    ASSUME NEW n \in Names, NEW c \in ClusterNames, NEW w \in Nets
    PROVE  LET r == [name |-> n, cluster |-> c, net |-> w, started |-> FALSE]
           IN  r \in Config /\ r.name = n /\ r.cluster = c /\ r.net = w
BY DEF Config

\* What the steps that need an ESME rely on: their administrator has one.
Holding == {"creating", "destroying", "modifying", "joining", "register",
            "unregister"}

StorePoints == {"store", "opened", "written"}

ArgOK ==
    \A a \in Admins :
        /\ pc[a] \in Holding \/ then[a] \in Holding => arg[a] # NoEsme
        /\ pc[a] \notin StorePoints => then[a] = "idle"
        /\ then[a] \notin StorePoints \cup {"creating"}

\* A change of one object's fields leaves the objects what they are.
LEMMA SameObjects ==
    ASSUME TypeOK, NEW o \in Objects, NEW r \in Config,
           conf' = [conf EXCEPT ![o] = r]
    PROVE  /\ Objects' = Objects
           /\ conf' \in [Esmes -> Config \cup {NoConf}]
           /\ conf'[o] = r
           /\ \A x \in Objects \ {o} : conf'[x] = conf[x]
BY RegistryAssumption DEF TypeOK, Objects

LEMMA ImageType == ASSUME TypeOK PROVE Image \subseteq Config
BY Fields DEF Image, TypeOK

LEMMA RemovalsType ==
    ASSUME NEW S, NEW list \in SUBSET S, NEW o, NEW rest \in Removals(list, o)
    PROVE  rest \in SUBSET list
BY DEF Removals

LEMMA LosingType ==
    ASSUME TypeOK, NEW a \in Admins, NEW c
    PROVE  Losing(c, a) \in [Admins -> {"absent", "present", "detached"}]
BY DEF TypeOK, Losing

LEMMA TypeInit == Init => TypeOK /\ ArgOK
BY RegistryAssumption DEF Init, TypeOK, ArgOK, Objects, Points, Holding, StorePoints

\* The variables a step leaves alone keep their types if objects only come.
LEMMA TypeGrow ==
    ASSUME TypeOK, Objects \subseteq Objects'
    PROVE  /\ UNCHANGED esmes => esmes' \subseteq Objects'
           /\ UNCHANGED members => members' \in [ClusterNames -> SUBSET Objects']
           /\ UNCHANGED arg => arg' \in [Admins -> Objects' \cup {NoEsme}]
           /\ UNCHANGED todo => todo' \in [Admins -> SUBSET Objects']
<1>1. members \in [ClusterNames -> SUBSET Objects']
  BY DEF TypeOK
<1>2. todo \in [Admins -> SUBSET Objects']
  BY DEF TypeOK
<1>3. arg \in [Admins -> Objects' \cup {NoEsme}]
  BY DEF TypeOK
<1> QED BY <1>1, <1>2, <1>3 DEF TypeOK

LEMMA SameConf == UNCHANGED conf => Objects' = Objects
BY DEF Objects

LEMMA HeldArg ==
    ASSUME TypeOK, ArgOK, NEW a \in Admins, pc[a] \in Holding
    PROVE  arg[a] \in Objects
BY DEF TypeOK, ArgOK

\* store() touches the file and its caller's place only.
LEMMA StoreType ==
    ASSUME TypeOK, ArgOK, NEW a \in Admins,
           OpenStore(a) \/ WriteStore(a) \/ CloseStore(a)
    PROVE  TypeOK' /\ ArgOK'
<1>1. Objects' = Objects
  BY SameConf DEF OpenStore, WriteStore, CloseStore, heap
<1>2. CASE OpenStore(a)
  <2>1. mixed' \subseteq Admins
    BY <1>2 DEF OpenStore, TypeOK, Writers
  <2>2. TypeOK'
    BY <1>1, <1>2, <2>1 DEF OpenStore, TypeOK, heap, history, Points
  <2>3. ArgOK'
    BY <1>2 DEF OpenStore, TypeOK, ArgOK, Holding, StorePoints
  <2> QED BY <2>2, <2>3
<1>3. CASE WriteStore(a)
  <2>1. snap' \in [Admins -> SUBSET Config]
    BY <1>3, ImageType DEF WriteStore, TypeOK
  <2>2. TypeOK'
    BY <1>1, <1>3, <2>1 DEF WriteStore, TypeOK, heap, xml, history, Points
  <2>3. ArgOK'
    BY <1>3 DEF WriteStore, TypeOK, ArgOK, Holding, StorePoints
  <2> QED BY <2>2, <2>3
<1>4. CASE CloseStore(a)
  <2>1. disk' \in {"none", "good", "torn"} /\ file' \subseteq Config
    BY <1>4 DEF CloseStore, TypeOK, xml
  <2>2. /\ pc' \in [Admins -> Points] /\ then' \in [Admins -> Points]
        /\ snap' \in [Admins -> SUBSET Config] /\ mixed' \subseteq Admins
    BY <1>4 DEF CloseStore, TypeOK, Points
  <2>3. arg' \in [Admins -> Objects \cup {NoEsme}]
    BY <1>4 DEF CloseStore, TypeOK
  <2>4. TypeOK'
    BY <1>1, <1>4, <2>1, <2>2, <2>3 DEF CloseStore, TypeOK, heap, history
  <2>5. ArgOK'
    BY <1>4 DEF CloseStore, TypeOK, ArgOK, Holding, StorePoints
  <2> QED BY <2>4, <2>5
<1> QED BY <1>2, <1>3, <1>4

LEMMA EnterType ==
    ASSUME TypeOK, NEW a \in Admins, NEW o \in Objects,
           EnterCluster(a, o, conf[o].cluster)
    PROVE  /\ netOfCluster' \in [ClusterNames -> Nets \cup {NoNet}]
           /\ members' \in [ClusterNames -> SUBSET Objects]
           /\ found' \in [Admins -> {"absent", "present", "detached"}]
<1> DEFINE c == conf[o].cluster
<1>1. c \in ClusterNames /\ conf[o].net \in Nets
  BY Fields
<1>2. Losing(c, a) \in [Admins -> {"absent", "present", "detached"}]
  BY LosingType
<1> HIDE DEF c
<1> QED BY <1>1, <1>2 DEF EnterCluster, TypeOK, c

LEMMA LeaveType ==
    ASSUME TypeOK, NEW a \in Admins, NEW o, NEW c, LeaveCluster(a, o, c)
    PROVE  /\ netOfCluster' \in [ClusterNames -> Nets \cup {NoNet}]
           /\ members' \in [ClusterNames -> SUBSET Objects]
           /\ found' \in [Admins -> {"absent", "present", "detached"}]
<1>1. Losing(c, a) \in [Admins -> {"absent", "present", "detached"}]
  BY LosingType
<1>2. PICK rest \in Removals(members[c], o) :
        members' = [members EXCEPT ![c] = rest]
  BY DEF LeaveCluster
<1>3. members' \in [ClusterNames -> SUBSET Objects]
  <2>1. CASE c \in ClusterNames
    <3>1. members[c] \in SUBSET Objects
      BY <2>1 DEF TypeOK
    <3>2. rest \in SUBSET members[c]
      BY <3>1, RemovalsType
    <3>3. rest \in SUBSET Objects
      BY <3>1, <3>2
    <3> QED BY <1>2, <2>1, <3>3 DEF TypeOK
  <2>2. CASE c \notin ClusterNames
    BY <1>2, <2>2 DEF TypeOK
  <2> QED BY <2>1, <2>2
<1> QED BY <1>1, <1>3 DEF LeaveCluster, TypeOK

\* createEsme() and destroyEsme().
LEMMA CreateType ==
    ASSUME TypeOK, ArgOK, NEW a \in Admins, NEW o \in Esmes, NEW n \in Names,
           NEW c \in ClusterNames, NEW w \in Nets, CreateEsme(a, o, n, c, w)
    PROVE  TypeOK' /\ ArgOK'
<1>1. conf' \in [Esmes -> Config \cup {NoConf}] /\ conf'[o] \in Config
  BY NewConfig DEF CreateEsme, TypeOK
<1>2. Objects \subseteq Objects' /\ o \in Objects'
  BY <1>1, RegistryAssumption DEF CreateEsme, Objects, TypeOK
<1>3. arg' \in [Admins -> Objects' \cup {NoEsme}]
  <2>1. arg \in [Admins -> Objects' \cup {NoEsme}]
    BY <1>2 DEF TypeOK
  <2> QED BY <1>2, <2>1 DEF CreateEsme
<1>4. TypeOK'
  BY <1>1, <1>2, <1>3, TypeGrow DEF CreateEsme, TypeOK, history, xml, Points
<1>5. ArgOK'
  BY RegistryAssumption DEF CreateEsme, TypeOK, ArgOK, Holding, StorePoints
<1> QED BY <1>4, <1>5

LEMMA AddType ==
    ASSUME TypeOK, ArgOK, NEW a \in Admins, AddEsme(a)
    PROVE  TypeOK' /\ ArgOK'
<1>1. Objects' = Objects
  BY SameConf DEF AddEsme
<1>2. arg[a] \in Objects
  BY HeldArg DEF AddEsme, Holding
<1>3. /\ netOfCluster' \in [ClusterNames -> Nets \cup {NoNet}]
      /\ members' \in [ClusterNames -> SUBSET Objects]
      /\ found' \in [Admins -> {"absent", "present", "detached"}]
  BY <1>2, EnterType DEF AddEsme
<1>4. esmes' \subseteq Objects
  BY <1>2 DEF AddEsme, TypeOK
<1>5. TypeOK'
  BY <1>1, <1>3, <1>4 DEF AddEsme, GoStore, TypeOK, history, xml, Points
<1>6. ArgOK'
  BY <1>2, RegistryAssumption
  DEF AddEsme, GoStore, TypeOK, ArgOK, Holding, StorePoints, Objects
<1> QED BY <1>5, <1>6

LEMMA RegisterType ==
    ASSUME TypeOK, ArgOK, NEW a \in Admins, Register(a)
    PROVE  TypeOK' /\ ArgOK'
<1>1. Objects' = Objects
  BY SameConf DEF Register, heap
<1>2. arg[a] \in Objects
  BY HeldArg DEF Register, Holding
<1>3. conf[arg[a]].name \in Names /\ arg[a] \in Esmes
  BY <1>2, Fields
<1>4. mbeans' \in [Names -> Esmes \cup {NoEsme}] /\ wanted' \subseteq Names
  BY <1>3 DEF Register, TypeOK
<1>5. TypeOK'
  BY <1>1, <1>4 DEF Register, TypeOK, heap, xml, Points
<1>6. ArgOK'
  BY DEF Register, TypeOK, ArgOK, Holding, StorePoints
<1> QED BY <1>5, <1>6

LEMMA DestroyType ==
    ASSUME TypeOK, ArgOK, NEW a \in Admins, NEW o \in esmes, DestroyEsme(a, o)
    PROVE  TypeOK' /\ ArgOK'
<1>1. Objects' = Objects
  BY SameConf DEF DestroyEsme, heap
<1>2. TypeOK'
  BY <1>1 DEF DestroyEsme, TypeOK, heap, xml, Points
<1>3. ArgOK'
  BY RegistryAssumption DEF DestroyEsme, TypeOK, ArgOK, Holding, StorePoints, Objects
<1> QED BY <1>2, <1>3

LEMMA RemoveType ==
    ASSUME TypeOK, ArgOK, NEW a \in Admins, RemoveEsme(a)
    PROVE  TypeOK' /\ ArgOK'
<1>1. Objects' = Objects
  BY SameConf DEF RemoveEsme
<1>2. esmes' \subseteq Objects
  <2>1. esmes \in SUBSET Objects /\ esmes' \in Removals(esmes, arg[a])
    BY DEF RemoveEsme, TypeOK
  <2>2. esmes' \in SUBSET esmes
    BY <2>1, RemovalsType
  <2> QED BY <2>1, <2>2
<1>3. CASE UNCHANGED <<netOfCluster, members, found, then>> /\ arg' = [arg EXCEPT ![a] = NoEsme]
                /\ pc' = [pc EXCEPT ![a] = "idle"]
  <2>1. TypeOK'
    BY <1>1, <1>2, <1>3 DEF RemoveEsme, TypeOK, history, xml, Points
  <2>2. ArgOK'
    BY <1>3 DEF RemoveEsme, TypeOK, ArgOK, Holding, StorePoints
  <2> QED BY <2>1, <2>2
<1>4. CASE /\ LeaveCluster(a, arg[a], conf[arg[a]].cluster)
           /\ GoStore(a, "unregister") /\ UNCHANGED arg
  <2>1. /\ netOfCluster' \in [ClusterNames -> Nets \cup {NoNet}]
        /\ members' \in [ClusterNames -> SUBSET Objects]
        /\ found' \in [Admins -> {"absent", "present", "detached"}]
    BY <1>4, LeaveType
  <2>2. TypeOK'
    BY <1>1, <1>2, <1>4, <2>1 DEF RemoveEsme, GoStore, TypeOK, history, xml, Points
  <2>3. ArgOK'
    BY <1>4 DEF RemoveEsme, GoStore, TypeOK, ArgOK, Holding, StorePoints
  <2> QED BY <2>2, <2>3
<1> QED BY <1>3, <1>4 DEF RemoveEsme

\* What is dropped is referred to by nothing.
LEMMA UnregisterType ==
    ASSUME TypeOK, ArgOK, NEW a \in Admins, Unregister(a)
    PROVE  TypeOK' /\ ArgOK'
<1>1. conf' \in [Esmes -> Config \cup {NoConf}]
  BY DEF Unregister, TypeOK
<1>2. \A o \in Objects : o \in InUse' => o \in Objects'
  BY DEF Unregister, Objects
<1>3. arg' \in [Admins -> Objects \cup {NoEsme}]
  BY DEF Unregister, TypeOK
<1>4. Objects \subseteq Esmes
  BY DEF Objects
<1>5. esmes' \subseteq Objects'
  BY <1>2, <1>4 DEF Unregister, TypeOK, InUse
<1>6. members' \in [ClusterNames -> SUBSET Objects']
  BY <1>2, <1>4 DEF Unregister, TypeOK, InUse
<1>7. todo' \in [Admins -> SUBSET Objects']
  BY <1>2, <1>4 DEF Unregister, TypeOK, InUse
<1>8. arg' \in [Admins -> Objects' \cup {NoEsme}]
  BY <1>2, <1>3, <1>4 DEF InUse
<1>9. mbeans' \in [Names -> Esmes \cup {NoEsme}]
  BY DEF Unregister, TypeOK
<1>10. TypeOK'
  BY <1>1, <1>5, <1>6, <1>7, <1>8, <1>9 DEF Unregister, TypeOK, history, xml, Points
<1>11. ArgOK'
  BY DEF Unregister, TypeOK, ArgOK, Holding, StorePoints
<1> QED BY <1>10, <1>11

\* startEsme(), stopEsme() and modifyEsme().
LEMMA StartedType ==
    ASSUME TypeOK, ArgOK, NEW a \in Admins, NEW o \in esmes, NEW b \in BOOLEAN,
           SetStarted(a, o, b)
    PROVE  TypeOK' /\ ArgOK'
<1> DEFINE r == [conf[o] EXCEPT !.started = b]
<1>1. o \in Objects /\ conf[o] \in Config
  BY Fields DEF TypeOK
<1>2. r \in Config
  BY <1>1, WithStarted
<1>3. conf' = [conf EXCEPT ![o] = r]
  BY DEF SetStarted
<1> HIDE DEF r
<1>4. Objects' = Objects /\ conf' \in [Esmes -> Config \cup {NoConf}]
  BY <1>1, <1>2, <1>3, SameObjects
<1>5. TypeOK'
  BY <1>4 DEF SetStarted, GoStore, TypeOK, history, xml, Points
<1>6. ArgOK'
  BY DEF SetStarted, GoStore, TypeOK, ArgOK, Holding, StorePoints
<1> QED BY <1>5, <1>6

LEMMA ModifyType ==
    ASSUME TypeOK, ArgOK, NEW a \in Admins, NEW o \in esmes, ModifyEsme(a, o)
    PROVE  TypeOK' /\ ArgOK'
<1>1. Objects' = Objects
  BY SameConf DEF ModifyEsme, heap
<1>2. TypeOK'
  BY <1>1 DEF ModifyEsme, TypeOK, heap, history, xml, Points
<1>3. ArgOK'
  BY RegistryAssumption DEF ModifyEsme, TypeOK, ArgOK, Holding, StorePoints, Objects
<1> QED BY <1>2, <1>3

LEMMA NetworkType ==
    ASSUME TypeOK, ArgOK, NEW a \in Admins, NEW w \in Nets, SetNetworkId(a, w)
    PROVE  TypeOK' /\ ArgOK'
<1> DEFINE o == arg[a]
           r == [conf[o] EXCEPT !.net = w]
<1>1. o \in Objects
  BY HeldArg DEF SetNetworkId, Holding
<1>2. conf[o] \in Config
  BY <1>1, Fields
<1>3. r \in Config
  BY <1>2, WithNet
<1>4. conf' = [conf EXCEPT ![o] = r]
  BY DEF SetNetworkId
<1>5. o # NoEsme
  BY <1>1, RegistryAssumption DEF Objects
<1> HIDE DEF r
<1>6. Objects' = Objects /\ conf' \in [Esmes -> Config \cup {NoConf}]
  BY <1>1, <1>3, <1>4, SameObjects
<1>7. TypeOK'
  BY <1>6 DEF SetNetworkId, GoStore, TypeOK, history, xml, Points
<1>8. ArgOK'
  BY <1>5 DEF SetNetworkId, GoStore, TypeOK, ArgOK, Holding, StorePoints
<1> QED BY <1>7, <1>8

LEMMA EndModifyType ==
    ASSUME TypeOK, ArgOK, NEW a \in Admins, EndModify(a)
    PROVE  TypeOK' /\ ArgOK'
<1>1. Objects' = Objects
  BY SameConf DEF EndModify, heap
<1>2. TypeOK'
  BY <1>1 DEF EndModify, TypeOK, heap, history, xml, Points
<1>3. ArgOK'
  BY DEF EndModify, TypeOK, ArgOK, Holding, StorePoints
<1> QED BY <1>2, <1>3

\* start(), load() and stop().
LEMMA LoadFileType ==
    ASSUME TypeOK, ArgOK, NEW a \in Admins, LoadFile(a)
    PROVE  TypeOK' /\ ArgOK'
<1>1. PICK new \in SUBSET (Esmes \ Objects) : \E read \in [new -> file] :
         /\ conf' = [o \in Esmes |-> IF o \in new THEN read[o] ELSE conf[o]]
         /\ esmes' = new
         /\ todo' = [todo EXCEPT ![a] = new]
  BY DEF LoadFile
<1>0. PICK read \in [new -> file] :
         /\ conf' = [o \in Esmes |-> IF o \in new THEN read[o] ELSE conf[o]]
         /\ esmes' = new
         /\ todo' = [todo EXCEPT ![a] = new]
  BY <1>1
<1>2. \A o \in new : read[o] \in Config
  BY DEF TypeOK
<1>3. conf' \in [Esmes -> Config \cup {NoConf}]
  BY <1>0, <1>2 DEF TypeOK
<1>4. Objects \subseteq Objects' /\ new \subseteq Objects'
  BY <1>0, <1>2, RegistryAssumption DEF Objects
<1>5. todo' \in [Admins -> SUBSET Objects']
  <2>1. todo \in [Admins -> SUBSET Objects']
    BY <1>4 DEF TypeOK
  <2> QED BY <1>1, <1>4, <2>1
<1>6. /\ members' \in [ClusterNames -> SUBSET Objects']
      /\ arg' \in [Admins -> Objects' \cup {NoEsme}]
  BY <1>4, TypeGrow DEF LoadFile
<1>7. TypeOK'
  BY <1>1, <1>3, <1>4, <1>5, <1>6 DEF LoadFile, TypeOK, history, xml, Points
<1>8. ArgOK'
  BY DEF LoadFile, TypeOK, ArgOK, Holding, StorePoints
<1> QED BY <1>7, <1>8

LEMMA LoadNothingType ==
    ASSUME TypeOK, ArgOK, NEW a \in Admins, LoadNothing(a)
    PROVE  TypeOK' /\ ArgOK'
<1>1. Objects' = Objects
  BY SameConf DEF LoadNothing, heap
<1>2. wanted' \subseteq Names
  BY Fields DEF LoadNothing, TypeOK
<1>3. TypeOK'
  BY <1>1, <1>2 DEF LoadNothing, TypeOK, heap, xml, Points
<1>4. ArgOK'
  BY DEF LoadNothing, TypeOK, ArgOK, Holding, StorePoints
<1> QED BY <1>3, <1>4

LEMMA PopulateType ==
    ASSUME TypeOK, ArgOK, NEW a \in Admins, NEW o \in todo[a], Populate(a, o)
    PROVE  TypeOK' /\ ArgOK'
<1> DEFINE c == conf[o].cluster
<1>1. o \in Objects /\ o # NoEsme
  BY RegistryAssumption DEF TypeOK, Objects
<1>2. conf[o] \in Config /\ conf[o].net \in Nets /\ c \in ClusterNames
  BY <1>1, Fields
<1>3. CASE netOfCluster[c] = NoNet
  <2>1. /\ netOfCluster' = [netOfCluster EXCEPT ![c] = conf[o].net]
        /\ members' = [members EXCEPT ![c] = {o}]
        /\ todo' = [todo EXCEPT ![a] = @ \ {o}]
        /\ UNCHANGED <<conf, pc, then, arg, found>>
    BY <1>3 DEF Populate
  <2> HIDE DEF c
  <2>2. Objects' = Objects
    BY <2>1, SameConf
  <2>3. /\ netOfCluster' \in [ClusterNames -> Nets \cup {NoNet}]
        /\ members' \in [ClusterNames -> SUBSET Objects]
        /\ todo' \in [Admins -> SUBSET Objects]
    BY <1>1, <1>2, <2>1 DEF TypeOK
  <2>4. TypeOK'
    BY <2>1, <2>2, <2>3 DEF Populate, TypeOK, history, xml, Points
  <2>5. ArgOK'
    BY <2>1 DEF ArgOK
  <2> QED BY <2>4, <2>5
<1>4. CASE netOfCluster[c] # NoNet
  <2> DEFINE r == [conf[o] EXCEPT !.net = netOfCluster[c]]
  <2>1. /\ conf' = [conf EXCEPT ![o] = r]
        /\ arg' = [arg EXCEPT ![a] = o]
        /\ found' = [found EXCEPT ![a] = "present"]
        /\ GoStore(a, "joining")
        /\ UNCHANGED <<netOfCluster, members, todo>>
    BY <1>4 DEF Populate, TakeNetworkId
  <2>2. netOfCluster[c] \in Nets
    BY <1>2, <1>4 DEF TypeOK
  <2>3. r \in Config
    BY <1>2, <2>2, WithNet
  <2> HIDE DEF r, c
  <2>4. Objects' = Objects /\ conf' \in [Esmes -> Config \cup {NoConf}]
    BY <1>1, <2>1, <2>3, SameObjects
  <2>5. TypeOK'
    BY <1>1, <2>1, <2>4 DEF Populate, GoStore, TypeOK, history, xml, Points
  <2>6. ArgOK'
    BY <1>1, <2>1 DEF Populate, GoStore, TypeOK, ArgOK, Holding, StorePoints
  <2> QED BY <2>5, <2>6
<1> QED BY <1>3, <1>4

LEMMA JoinType ==
    ASSUME TypeOK, ArgOK, NEW a \in Admins, Join(a)
    PROVE  TypeOK' /\ ArgOK'
<1>1. Objects' = Objects
  BY SameConf DEF Join
<1>2. arg[a] \in Objects
  BY HeldArg DEF Join, Holding
<1>3. members' \in [ClusterNames -> SUBSET Objects]
  BY <1>2, Fields DEF Join, TypeOK
<1>4. todo' \in [Admins -> SUBSET Objects]
  BY DEF Join, TypeOK
<1>5. TypeOK'
  BY <1>1, <1>3, <1>4 DEF Join, TypeOK, history, xml, Points
<1>6. ArgOK'
  BY DEF Join, TypeOK, ArgOK, Holding, StorePoints
<1> QED BY <1>5, <1>6

LEMMA RegisterAllType ==
    ASSUME TypeOK, ArgOK, NEW a \in Admins, RegisterAll(a)
    PROVE  TypeOK' /\ ArgOK'
<1>1. Objects' = Objects
  BY SameConf DEF RegisterAll, heap
<1>2. TypeOK'
  BY <1>1 DEF RegisterAll, TypeOK, heap, history, xml, Points
<1>3. ArgOK'
  BY DEF RegisterAll, TypeOK, ArgOK, Holding, StorePoints
<1> QED BY <1>2, <1>3

LEMMA StopType ==
    ASSUME TypeOK, ArgOK, NEW a \in Admins, StopManagement(a) \/ UnregisterAll(a)
    PROVE  TypeOK' /\ ArgOK'
<1>1. Objects' = Objects
  BY SameConf DEF StopManagement, UnregisterAll, heap
<1>2. CASE StopManagement(a)
  <2>1. stops' \in 0 .. MaxStops
    BY <1>2, RegistryAssumption DEF StopManagement, TypeOK
  <2>2. TypeOK'
    BY <1>1, <1>2, <2>1 DEF StopManagement, GoStore, TypeOK, heap, xml, Points
  <2>3. ArgOK'
    BY <1>2 DEF StopManagement, GoStore, TypeOK, ArgOK, Holding, StorePoints
  <2> QED BY <2>2, <2>3
<1>3. CASE UnregisterAll(a)
  <2>1. mbeans' \in [Names -> Esmes \cup {NoEsme}]
    BY <1>3 DEF UnregisterAll, TypeOK
  <2>2. TypeOK'
    BY <1>1, <1>3, <2>1 DEF UnregisterAll, TypeOK, heap, history, xml, Points
  <2>3. ArgOK'
    BY <1>3 DEF UnregisterAll, TypeOK, ArgOK, Holding, StorePoints
  <2> QED BY <2>2, <2>3
<1> QED BY <1>2, <1>3

LEMMA CrashType ==
    ASSUME TypeOK, Crash
    PROVE  TypeOK' /\ ArgOK'
<1>1. /\ disk' \in {"none", "good", "torn"} /\ file' \subseteq Config
  BY DEF Crash, TypeOK, xml
<1>2. stops' \in 0 .. MaxStops
  BY RegistryAssumption DEF Crash
<1>3. TypeOK'
  BY <1>1, <1>2, RegistryAssumption DEF Crash, TypeOK, Objects, Points
<1>4. ArgOK'
  BY DEF Crash, ArgOK, Holding, StorePoints
<1> QED BY <1>3, <1>4

LEMMA TypeStep ==
    ASSUME TypeOK, ArgOK, [Next]_vars
    PROVE  TypeOK' /\ ArgOK'
<1>1. CASE Crash
  BY <1>1, CrashType
<1>2. ASSUME NEW a \in Admins, Command(a)
      PROVE  TypeOK' /\ ArgOK'
  BY <1>2, CreateType, DestroyType, StartedType, ModifyType, LoadFileType,
     LoadNothingType, StopType DEF Command, StartEsme, StopEsme
<1>3. ASSUME NEW a \in Admins, Step(a)
      PROVE  TypeOK' /\ ArgOK'
  BY <1>3, StoreType, AddType, RegisterType, RemoveType, UnregisterType,
     NetworkType, EndModifyType, PopulateType, JoinType, RegisterAllType, StopType
  DEF Step
<1>4. CASE UNCHANGED vars
  <2>1. Objects' = Objects
    BY <1>4, SameConf DEF vars, heap
  <2> QED BY <1>4, <2>1 DEF vars, heap, xml, threads, history, TypeOK, ArgOK
<1> QED BY <1>1, <1>2, <1>3, <1>4 DEF Next

\* Whatever administrators do, and wherever the JVM ends, the registry keeps its
\* types: nothing refers to an object that is gone, and every step that needs
\* an ESME has one.
THEOREM TypeCorrect == Spec => []TypeOK
<1>1. TypeOK /\ ArgOK /\ [Next]_vars => (TypeOK /\ ArgOK)'
  BY TypeStep
<1> QED BY TypeInit, <1>1, PTL DEF Spec

-----------------------------------------------------------------------------
(***************************************************************************)
(* Any number of administrators: no cluster without ESMEs, no stranger in  *)
(* a cluster or under a name.                                              *)
(***************************************************************************)
\* Where a goes on, once it has stored.
At(a, point) == pc[a] = point \/ (pc[a] \in StorePoints /\ then[a] = point)

\* An EsmeCluster that an administrator holds, and that has not been taken out
\* of the map since, is in the map under the cluster name of its ESME.
Known(a) ==
    /\ found[a] # "absent" => pc[a] = "creating" \/ At(a, "joining")
    /\ At(a, "joining") => found[a] # "absent"
    /\ found[a] = "present" => netOfCluster[conf[arg[a]].cluster] # NoNet

StrangersInd == TypeOK /\ ArgOK /\ NoStrangers /\ \A a \in Admins : Known(a)

\* Objects come, and those there are keep their name and their cluster.
SameNames ==
    \A o \in Objects :
        o \in Objects' /\ conf'[o].name = conf[o].name /\ conf'[o].cluster = conf[o].cluster

LEMMA NamesKept == UNCHANGED conf => SameNames
BY DEF SameNames, Objects

LEMMA NamesSet ==
    ASSUME TypeOK, NEW o \in Objects, NEW r \in Config,
           r.name = conf[o].name, r.cluster = conf[o].cluster,
           conf' = [conf EXCEPT ![o] = r]
    PROVE  SameNames
BY SameObjects DEF SameNames

LEMMA StrangersSame ==
    ASSUME StrangersInd, SameNames, UNCHANGED <<netOfCluster, members, mbeans>>
    PROVE  NoStrangers'
BY DEF StrangersInd, TypeOK, NoStrangers, SameNames

\* The administrator of an ESME that stays in the map is where it was.
LEMMA KnownSame ==
    ASSUME StrangersInd, NEW b \in Admins, SameNames,
           pc'[b] = pc[b], then'[b] = then[b], arg'[b] = arg[b],
           found'[b] = found[b],
           \A c \in ClusterNames : netOfCluster[c] # NoNet => netOfCluster'[c] # NoNet
    PROVE  Known(b)'
<1>1. found[b] = "present" =>
          arg[b] \in Objects /\ conf[arg[b]].cluster \in ClusterNames
  <2>1. found[b] = "present" => arg[b] \in Objects
    BY DEF StrangersInd, Known, At, TypeOK, ArgOK, Holding
  <2> QED BY <2>1, Fields DEF StrangersInd
<1> QED BY <1>1 DEF StrangersInd, Known, At, SameNames

\* One that holds no EsmeCluster, and is not about to use one.
LEMMA KnownNone ==
    ASSUME NEW a \in Admins, found'[a] = "absent", ~ At(a, "joining")'
    PROVE  Known(a)'
BY DEF Known

\* A step of a that leaves the clusters and the MBeans alone, and holds no
\* EsmeCluster after it if it held none before.
LEMMA StrangersAside ==
    ASSUME StrangersInd, NEW a \in Admins, SameNames,
           UNCHANGED <<netOfCluster, members, mbeans, found>>,
           \A b \in Admins \ {a} :
               pc'[b] = pc[b] /\ then'[b] = then[b] /\ arg'[b] = arg[b],
           \/ found[a] = "absent" /\ ~ At(a, "joining")'
           \/ /\ arg'[a] = arg[a]
              /\ pc'[a] = "creating" <=> pc[a] = "creating"
              /\ At(a, "joining")' <=> At(a, "joining")
    PROVE  NoStrangers' /\ \A b \in Admins : Known(b)'
<1>1. ASSUME NEW b \in Admins \ {a} PROVE Known(b)'
  BY <1>1, KnownSame
<1>2. Known(a)'
  <2>1. CASE found[a] = "absent" /\ ~ At(a, "joining")'
    BY <2>1, KnownNone
  <2>2. CASE /\ arg'[a] = arg[a]
             /\ pc'[a] = "creating" <=> pc[a] = "creating"
             /\ At(a, "joining")' <=> At(a, "joining")
    <3>1. found[a] = "present" => arg[a] \in Objects
      BY DEF StrangersInd, Known, At, TypeOK, ArgOK, Holding
    <3> QED BY <2>2, <3>1 DEF StrangersInd, Known, SameNames
  <2> QED BY <2>1, <2>2
<1> QED BY <1>1, <1>2, StrangersSame

LEMMA StoreStrangers ==
    ASSUME StrangersInd, NEW a \in Admins,
           OpenStore(a) \/ WriteStore(a) \/ CloseStore(a)
    PROVE  NoStrangers' /\ \A b \in Admins : Known(b)'
<1>1. SameNames
  BY NamesKept DEF OpenStore, WriteStore, CloseStore, heap
<1>2. UNCHANGED <<netOfCluster, members, mbeans, found>>
  BY DEF OpenStore, WriteStore, CloseStore, heap
<1>3. \A b \in Admins \ {a} :
          pc'[b] = pc[b] /\ then'[b] = then[b] /\ arg'[b] = arg[b]
  BY DEF StrangersInd, TypeOK, OpenStore, WriteStore, CloseStore
<1>4. CASE OpenStore(a) \/ WriteStore(a)
  <2>1. pc[a] \in StorePoints /\ pc'[a] \in StorePoints /\ UNCHANGED <<then, arg>>
    BY <1>4 DEF StrangersInd, TypeOK, OpenStore, WriteStore, StorePoints
  <2>2. /\ pc'[a] = "creating" <=> pc[a] = "creating"
        /\ At(a, "joining")' <=> At(a, "joining")
    BY <2>1 DEF At, StorePoints
  <2> QED BY <1>1, <1>2, <1>3, <2>1, <2>2, StrangersAside
<1>5. CASE CloseStore(a)
  <2>1. /\ pc[a] = "written" /\ pc'[a] = then[a] /\ then'[a] = "idle"
        /\ then[a] # "idle" => arg'[a] = arg[a]
        /\ then[a] \notin StorePoints \cup {"creating"}
    BY <1>5 DEF StrangersInd, TypeOK, ArgOK, CloseStore
  <2>2. At(a, "joining")' <=> At(a, "joining")
    BY <2>1 DEF At, StorePoints
  <2>3. CASE then[a] = "joining"
    BY <1>1, <1>2, <1>3, <2>1, <2>2, <2>3, StrangersAside
  <2>4. CASE then[a] # "joining"
    <3>1. ~ At(a, "joining") /\ found[a] = "absent"
      BY <2>1, <2>4 DEF StrangersInd, Known, At, StorePoints
    <3> QED BY <1>1, <1>2, <1>3, <2>2, <3>1, StrangersAside
  <2> QED BY <2>3, <2>4
<1> QED BY <1>4, <1>5

\* A step of an administrator that holds no EsmeCluster, and finds none.
LEMMA PlainStrangers ==
    ASSUME StrangersInd, NEW a \in Admins, SameNames,
           pc[a] \notin StorePoints \cup {"creating", "joining"},
           pc'[a] # "joining", pc'[a] \in StorePoints => then'[a] # "joining",
           UNCHANGED <<netOfCluster, members, mbeans, found>>,
           \A b \in Admins \ {a} :
               pc'[b] = pc[b] /\ then'[b] = then[b] /\ arg'[b] = arg[b]
    PROVE  NoStrangers' /\ \A b \in Admins : Known(b)'
<1>1. found[a] = "absent" /\ ~ At(a, "joining")'
  BY DEF StrangersInd, Known, At, TypeOK
<1> QED BY <1>1, StrangersAside

LEMMA SetStrangers ==
    ASSUME StrangersInd, NEW a \in Admins, NEW o \in Objects, NEW r \in Config,
           NEW next \in {"idle", "modifying"}, pc[a] \in {"idle", "modifying"},
           r.name = conf[o].name, r.cluster = conf[o].cluster,
           conf' = [conf EXCEPT ![o] = r], GoStore(a, next),
           UNCHANGED <<netOfCluster, members, mbeans, found, arg>>
    PROVE  NoStrangers' /\ \A b \in Admins : Known(b)'
<1>1. SameNames
  BY NamesSet DEF StrangersInd
<1>2. /\ pc'[a] = "store" /\ then'[a] = next
      /\ \A b \in Admins \ {a} : pc'[b] = pc[b] /\ then'[b] = then[b]
  BY DEF GoStore, StrangersInd, TypeOK
<1> QED BY <1>1, <1>2, PlainStrangers DEF StorePoints

LEMMA StartedStrangers ==
    ASSUME StrangersInd, NEW a \in Admins, NEW o \in esmes, NEW b \in BOOLEAN,
           SetStarted(a, o, b)
    PROVE  NoStrangers' /\ \A x \in Admins : Known(x)'
<1> DEFINE r == [conf[o] EXCEPT !.started = b]
<1>1. o \in Objects /\ conf[o] \in Config
  BY Fields DEF StrangersInd, TypeOK
<1>2. r \in Config /\ r.name = conf[o].name /\ r.cluster = conf[o].cluster
  BY <1>1, WithStarted
<1>3. conf' = [conf EXCEPT ![o] = r]
  BY DEF SetStarted
<1> HIDE DEF r
<1> QED BY <1>1, <1>2, <1>3, SetStrangers DEF SetStarted

LEMMA NetworkStrangers ==
    ASSUME StrangersInd, NEW a \in Admins, NEW w \in Nets, SetNetworkId(a, w)
    PROVE  NoStrangers' /\ \A x \in Admins : Known(x)'
<1> DEFINE o == arg[a]
           r == [conf[o] EXCEPT !.net = w]
<1>1. o \in Objects
  BY HeldArg DEF StrangersInd, SetNetworkId, Holding
<1>2. conf[o] \in Config
  BY <1>1, Fields DEF StrangersInd
<1>3. r \in Config /\ r.name = conf[o].name /\ r.cluster = conf[o].cluster
  BY <1>2, WithNet
<1>4. conf' = [conf EXCEPT ![o] = r]
  BY DEF SetNetworkId
<1> HIDE DEF o, r
<1> QED BY <1>1, <1>2, <1>3, <1>4, SetStrangers DEF SetNetworkId

\* The steps that touch neither the clusters nor the fields of an Esme.
LEMMA StillStrangers ==
    ASSUME StrangersInd, NEW a \in Admins,
           \/ \E o \in esmes : DestroyEsme(a, o) \/ ModifyEsme(a, o)
           \/ EndModify(a) \/ LoadNothing(a) \/ StopManagement(a)
    PROVE  NoStrangers' /\ \A b \in Admins : Known(b)'
<1>1. /\ SameNames /\ UNCHANGED <<netOfCluster, members, mbeans, found>>
      /\ pc[a] \notin StorePoints \cup {"creating", "joining"}
  BY NamesKept DEF DestroyEsme, ModifyEsme, EndModify, LoadNothing,
     StopManagement, heap, StorePoints
<1>2. /\ pc'[a] # "joining"
      /\ pc'[a] \in StorePoints => then'[a] # "joining"
      /\ \A b \in Admins \ {a} :
             pc'[b] = pc[b] /\ then'[b] = then[b] /\ arg'[b] = arg[b]
  <2>1. CASE EndModify(a) \/ LoadNothing(a)
    BY <2>1 DEF EndModify, LoadNothing, StrangersInd, TypeOK, StorePoints
  <2>2. CASE StopManagement(a)
    BY <2>2 DEF StopManagement, GoStore, StrangersInd, TypeOK
  <2>3. ASSUME NEW o \in esmes, DestroyEsme(a, o) \/ ModifyEsme(a, o)
        PROVE  /\ pc'[a] # "joining"
               /\ pc'[a] \in StorePoints => then'[a] # "joining"
               /\ \A b \in Admins \ {a} :
                      pc'[b] = pc[b] /\ then'[b] = then[b] /\ arg'[b] = arg[b]
    BY <2>3 DEF DestroyEsme, ModifyEsme, StrangersInd, TypeOK, StorePoints
  <2> QED BY <2>1, <2>2, <2>3
<1> QED BY <1>1, <1>2, PlainStrangers

\* What is read, or created, is new.
LEMMA LoadStrangers ==
    ASSUME StrangersInd, NEW a \in Admins, LoadFile(a)
    PROVE  NoStrangers' /\ \A b \in Admins : Known(b)'
<1>1. \A o \in Objects : conf'[o] = conf[o]
  BY DEF LoadFile, Objects
<1>2. SameNames
  BY <1>1 DEF SameNames, Objects
<1>3. /\ pc[a] = "idle" /\ pc'[a] = "populating"
      /\ \A b \in Admins \ {a} : pc'[b] = pc[b]
      /\ UNCHANGED <<then, arg, found, netOfCluster, members, mbeans>>
  BY DEF LoadFile, StrangersInd, TypeOK
<1> QED BY <1>2, <1>3, PlainStrangers DEF StorePoints

LEMMA CreateStrangers ==
    ASSUME StrangersInd, NEW a \in Admins, NEW o \in Esmes, NEW n \in Names,
           NEW c \in ClusterNames, NEW w \in Nets, CreateEsme(a, o, n, c, w)
    PROVE  NoStrangers' /\ \A b \in Admins : Known(b)'
<1>1. \A x \in Objects : conf'[x] = conf[x]
  BY DEF CreateEsme, Objects, StrangersInd, TypeOK
<1>2. SameNames
  BY <1>1 DEF SameNames, Objects
<1>3. conf'[o].cluster = c
  BY NewConfig DEF CreateEsme, StrangersInd, TypeOK
<1>4. /\ pc'[a] = "creating" /\ arg'[a] = o
      /\ found'[a] = IF netOfCluster[c] = NoNet THEN "absent" ELSE "present"
      /\ \A b \in Admins \ {a} : pc'[b] = pc[b] /\ then'[b] = then[b]
                                  /\ arg'[b] = arg[b] /\ found'[b] = found[b]
      /\ UNCHANGED <<netOfCluster, members, mbeans>>
  BY DEF CreateEsme, StrangersInd, TypeOK
<1>5. Known(a)'
  BY <1>3, <1>4 DEF Known, At, StorePoints
<1>6. \A b \in Admins \ {a} : Known(b)'
  BY <1>2, <1>4, KnownSame
<1> QED BY <1>2, <1>4, <1>5, <1>6, StrangersSame

\* The MBeans.
LEMMA MBeanStrangers ==
    ASSUME StrangersInd, NEW a \in Admins,
           Register(a) \/ RegisterAll(a) \/ UnregisterAll(a)
    PROVE  NoStrangers' /\ \A b \in Admins : Known(b)'
<1>1. /\ UNCHANGED <<netOfCluster, members, found, conf, then>>
      /\ pc[a] \notin StorePoints \cup {"creating", "joining"}
      /\ pc'[a] = "idle"
      /\ \A b \in Admins \ {a} : pc'[b] = pc[b] /\ arg'[b] = arg[b]
  BY DEF Register, RegisterAll, UnregisterAll, heap, StrangersInd, TypeOK, StorePoints
<1>2. SameNames /\ Objects' = Objects
  BY <1>1, NamesKept, SameConf
<1>3. \A n \in Names : mbeans'[n] # NoEsme =>
          mbeans'[n] \in Objects /\ conf[mbeans'[n]].name = n
  <2>1. CASE Register(a)
    <3>1. arg[a] \in Objects
      BY <2>1, HeldArg DEF StrangersInd, Register, Holding
    <3>2. \A n \in Names : \/ mbeans'[n] = mbeans[n]
                           \/ mbeans'[n] = arg[a] /\ n = conf[arg[a]].name
      BY <2>1, <3>1, Fields DEF Register, StrangersInd, TypeOK
    <3> QED BY <3>1, <3>2 DEF StrangersInd, NoStrangers
  <2>2. CASE RegisterAll(a)
    <3>1. \A n \in Names : \/ mbeans'[n] = mbeans[n] \/ mbeans'[n] = NoEsme
                           \/ mbeans'[n] \in Named(n)
      BY <2>2 DEF RegisterAll
    <3>2. \A n \in Names : \A x \in Named(n) : x \in Objects /\ conf[x].name = n
      BY DEF Named, StrangersInd, TypeOK
    <3> QED BY <3>1, <3>2 DEF StrangersInd, NoStrangers
  <2>3. CASE UnregisterAll(a)
    BY <2>3 DEF UnregisterAll, StrangersInd, NoStrangers
  <2> QED BY <2>1, <2>2, <2>3 DEF Register, RegisterAll, UnregisterAll
<1>4. NoStrangers'
  BY <1>1, <1>2, <1>3 DEF StrangersInd, NoStrangers
<1>5. Known(a)'
  BY <1>1 DEF StrangersInd, Known, At, TypeOK, StorePoints
<1>6. \A b \in Admins \ {a} : Known(b)'
  BY <1>1, <1>2, KnownSame
<1> QED BY <1>4, <1>5, <1>6

\* The ESME of a new cluster replaces what others had put there by then.
LEMMA AddStrangers ==
    ASSUME StrangersInd, NEW a \in Admins, AddEsme(a)
    PROVE  NoStrangers' /\ \A b \in Admins : Known(b)'
<1> DEFINE o == arg[a]
           c == conf[o].cluster
<1>1. o \in Objects
  BY HeldArg DEF StrangersInd, AddEsme, Holding
<1>2. c \in ClusterNames /\ conf[o].net \in Nets /\ conf[o].net # NoNet
  BY <1>1, Fields, RegistryAssumption DEF StrangersInd
<1>3. SameNames /\ UNCHANGED <<conf, mbeans, arg>>
  BY NamesKept DEF AddEsme
<1>4. /\ pc'[a] = "store" /\ then'[a] = "register"
      /\ \A b \in Admins \ {a} : pc'[b] = pc[b] /\ then'[b] = then[b]
  BY DEF AddEsme, GoStore, StrangersInd, TypeOK
<1>5. EnterCluster(a, o, c) /\ Known(a)
  BY DEF AddEsme, StrangersInd
<1> HIDE DEF o, c
<1>6. CASE found[a] = "absent"
  <2>1. /\ netOfCluster' = [netOfCluster EXCEPT ![c] = conf[o].net]
        /\ members' = [members EXCEPT ![c] = {o}]
        /\ found' = Losing(c, a)
    BY <1>5, <1>6 DEF EnterCluster
  <2>2. NoStrangers'
    BY <1>1, <1>2, <1>3, <2>1, SameConf DEF StrangersInd, TypeOK, NoStrangers, c
  <2>3. Known(a)'
    BY <1>4, <2>1 DEF Losing, Known, At
  <2>4. ASSUME NEW b \in Admins \ {a} PROVE Known(b)'
    <3>1. found'[b] = found[b] \/ (found[b] = "present" /\ found'[b] = "detached")
      BY <2>1 DEF Losing
    <3>2. \A d \in ClusterNames : netOfCluster[d] # NoNet => netOfCluster'[d] # NoNet
      BY <1>2, <2>1 DEF StrangersInd, TypeOK
    <3>3. CASE found'[b] = found[b]
      BY <1>3, <1>4, <3>2, <3>3, KnownSame
    <3>4. CASE found[b] = "present" /\ found'[b] = "detached"
      BY <1>4, <3>4 DEF StrangersInd, Known, At
    <3> QED BY <3>1, <3>3, <3>4
  <2> QED BY <2>2, <2>3, <2>4
<1>7. CASE found[a] # "absent"
  <2>1. /\ UNCHANGED netOfCluster
        /\ found' = [found EXCEPT ![a] = "absent"]
        /\ \/ found[a] = "present" /\ members' = [members EXCEPT ![c] = @ \cup {o}]
           \/ UNCHANGED members
    BY <1>5, <1>7 DEF EnterCluster
  <2>2. found[a] = "present" => netOfCluster[c] # NoNet
    BY <1>5 DEF Known, c, o
  <2>3. NoStrangers'
    BY <1>1, <1>2, <1>3, <2>1, <2>2, SameConf DEF StrangersInd, TypeOK, NoStrangers, c
  <2>4. Known(a)'
    BY <1>4, <2>1 DEF StrangersInd, TypeOK, Known, At
  <2>5. \A b \in Admins \ {a} : found'[b] = found[b]
    BY <2>1 DEF StrangersInd, TypeOK
  <2>6. \A b \in Admins \ {a} : Known(b)'
    BY <1>3, <1>4, <2>1, <2>5, KnownSame
  <2> QED BY <2>3, <2>4, <2>6
<1> QED BY <1>6, <1>7

\* The cluster that loses its last ESME goes from under those that have found it.
LEMMA RemoveStrangers ==
    ASSUME StrangersInd, NEW a \in Admins, RemoveEsme(a)
    PROVE  NoStrangers' /\ \A b \in Admins : Known(b)'
<1> DEFINE o == arg[a]
           c == conf[o].cluster
<1>1. o \in Objects
  BY HeldArg DEF StrangersInd, RemoveEsme, Holding
<1>2. c \in ClusterNames
  BY <1>1, Fields DEF StrangersInd
<1>3. SameNames /\ UNCHANGED <<conf, mbeans>> /\ pc[a] = "destroying"
  BY NamesKept DEF RemoveEsme
<1>4. found[a] = "absent"
  BY <1>3 DEF StrangersInd, Known, At, StorePoints
<1>5. CASE /\ UNCHANGED <<netOfCluster, members, found, then>>
           /\ arg' = [arg EXCEPT ![a] = NoEsme]
           /\ pc' = [pc EXCEPT ![a] = "idle"]
  <2>1. /\ pc'[a] = "idle"
        /\ \A b \in Admins \ {a} : pc'[b] = pc[b] /\ arg'[b] = arg[b]
    BY <1>5 DEF StrangersInd, TypeOK
  <2> QED BY <1>3, <1>5, <2>1, PlainStrangers DEF StorePoints
<1>6. CASE LeaveCluster(a, o, c) /\ GoStore(a, "unregister") /\ UNCHANGED arg
  <2>1. PICK rest \in Removals(members[c], o) :
           /\ members' = [members EXCEPT ![c] = rest]
           /\ \/ /\ rest = {}
                 /\ netOfCluster' = [netOfCluster EXCEPT ![c] = NoNet]
                 /\ found' = Losing(c, a)
              \/ rest # {} /\ UNCHANGED <<netOfCluster, found>>
    BY <1>6 DEF LeaveCluster
  <2>2. rest \in SUBSET members[c]
    <3>1. members[c] \in SUBSET Objects
      BY <1>2 DEF StrangersInd, TypeOK
    <3> QED BY <2>1, <3>1, RemovalsType
  <2> HIDE DEF o, c
  <2>3. /\ \A d \in ClusterNames : members'[d] = IF d = c THEN rest ELSE members[d]
        /\ \A d \in ClusterNames : netOfCluster'[d] =
              IF d = c /\ rest = {} THEN NoNet ELSE netOfCluster[d]
    BY <1>2, <2>1 DEF StrangersInd, TypeOK
  <2>4. NoStrangers'
    <3>1. ASSUME NEW d \in ClusterNames
          PROVE  /\ netOfCluster'[d] = NoNet <=> members'[d] = {}
                 /\ \A x \in members'[d] : conf'[x].cluster = d
      BY <1>3, <2>2, <2>3 DEF StrangersInd, NoStrangers
    <3> QED BY <1>3, <3>1, SameConf DEF StrangersInd, NoStrangers
  <2>5. /\ pc'[a] = "store" /\ then'[a] = "unregister"
        /\ \A b \in Admins \ {a} : pc'[b] = pc[b] /\ then'[b] = then[b]
    BY <1>6 DEF GoStore, StrangersInd, TypeOK
  <2>6. found'[a] = "absent"
    BY <1>4, <2>1 DEF Losing
  <2>7. Known(a)'
    BY <2>5, <2>6 DEF Known, At
  <2>8. ASSUME NEW b \in Admins \ {a} PROVE Known(b)'
    <3>1. \/ found'[b] = found[b] /\ (found[b] = "present" /\ rest = {}
                                        => conf[arg[b]].cluster # c)
          \/ found[b] = "present" /\ found'[b] = "detached"
      BY <2>1 DEF Losing
    <3>2. found[b] = "present" =>
              arg[b] \in Objects /\ conf[arg[b]].cluster \in ClusterNames
      <4>1. found[b] = "present" => arg[b] \in Objects
        BY DEF StrangersInd, Known, At, TypeOK, ArgOK, Holding
      <4> QED BY <4>1, Fields DEF StrangersInd
    <3>3. At(b, "joining")' <=> At(b, "joining")
      BY <2>5 DEF At
    <3> QED BY <1>3, <1>6, <2>3, <2>5, <3>1, <3>2, <3>3 DEF StrangersInd, Known
  <2> QED BY <2>4, <2>7, <2>8
<1> QED BY <1>5, <1>6 DEF RemoveEsme

\* An ESME that is dropped is in no cluster, and has no MBean.
LEMMA UnregisterStrangers ==
    ASSUME StrangersInd, NEW a \in Admins, Unregister(a)
    PROVE  NoStrangers' /\ \A b \in Admins : Known(b)'
<1>1. /\ pc[a] = "unregister" /\ pc'[a] = "idle"
      /\ \A b \in Admins \ {a} : pc'[b] = pc[b] /\ arg'[b] = arg[b]
      /\ UNCHANGED <<netOfCluster, members, found, then>>
  BY DEF Unregister, StrangersInd, TypeOK
<1>2. \A x \in Objects : x \in InUse' => x \in Objects' /\ conf'[x] = conf[x]
  BY DEF Unregister, Objects
<1>3. \A c \in ClusterNames : \A x \in members[c] : x \in Objects /\ x \in InUse'
  BY <1>1 DEF StrangersInd, TypeOK, InUse, Objects
<1>4. \A n \in Names : mbeans'[n] # NoEsme =>
          /\ mbeans'[n] = mbeans[n] /\ mbeans'[n] \in Objects
          /\ mbeans'[n] \in InUse'
  <2>1. \A n \in Names : mbeans'[n] # NoEsme => mbeans'[n] = mbeans[n]
    BY DEF Unregister, StrangersInd, TypeOK
  <2>2. \A n \in Names : mbeans'[n] # NoEsme => mbeans'[n] \in Objects
    BY <2>1 DEF StrangersInd, NoStrangers
  <2>3. \A n \in Names : mbeans'[n] # NoEsme => mbeans'[n] \in InUse'
    BY <2>2 DEF InUse, Objects
  <2> QED BY <2>1, <2>2, <2>3
<1>5. NoStrangers'
  BY <1>1, <1>2, <1>3, <1>4 DEF StrangersInd, NoStrangers
<1>6. Known(a)'
  BY <1>1 DEF StrangersInd, Known, At, TypeOK, StorePoints
<1>7. ASSUME NEW b \in Admins \ {a} PROVE Known(b)'
  <2>1. found[b] = "present" => arg[b] \in Objects
    BY DEF StrangersInd, Known, At, TypeOK, ArgOK, Holding
  <2>2. arg[b] \in Objects => arg[b] \in InUse'
    BY <1>1 DEF InUse, Objects
  <2>3. At(b, "joining")' <=> At(b, "joining")
    BY <1>1 DEF At
  <2> QED BY <1>1, <1>2, <2>1, <2>2, <2>3 DEF StrangersInd, Known
<1> QED BY <1>5, <1>6, <1>7

\* load().
LEMMA PopulateStrangers ==
    ASSUME StrangersInd, NEW a \in Admins, NEW o \in todo[a], Populate(a, o)
    PROVE  NoStrangers' /\ \A b \in Admins : Known(b)'
<1> DEFINE c == conf[o].cluster
<1>1. o \in Objects
  BY DEF StrangersInd, TypeOK
<1>2. c \in ClusterNames /\ conf[o] \in Config /\ conf[o].net # NoNet
  BY <1>1, Fields, RegistryAssumption DEF StrangersInd
<1>3. pc[a] = "populating" /\ UNCHANGED mbeans
  BY DEF Populate
<1>4. CASE netOfCluster[c] = NoNet
  <2>1. /\ netOfCluster' = [netOfCluster EXCEPT ![c] = conf[o].net]
        /\ members' = [members EXCEPT ![c] = {o}]
        /\ UNCHANGED <<conf, pc, then, arg, found>>
    BY <1>4 DEF Populate
  <2> HIDE DEF c
  <2>2. NoStrangers'
    BY <1>1, <1>2, <1>3, <2>1, SameConf DEF StrangersInd, TypeOK, NoStrangers, c
  <2>3. \A d \in ClusterNames : netOfCluster[d] # NoNet => netOfCluster'[d] # NoNet
    BY <1>2, <2>1 DEF StrangersInd, TypeOK
  <2> QED BY <2>1, <2>2, <2>3, NamesKept, KnownSame
<1>5. CASE netOfCluster[c] # NoNet
  <2> DEFINE r == [conf[o] EXCEPT !.net = netOfCluster[c]]
  <2>1. /\ conf' = [conf EXCEPT ![o] = r]
        /\ arg' = [arg EXCEPT ![a] = o]
        /\ found' = [found EXCEPT ![a] = "present"]
        /\ GoStore(a, "joining")
        /\ UNCHANGED <<netOfCluster, members>>
    BY <1>5 DEF Populate, TakeNetworkId
  <2>2. netOfCluster[c] \in Nets
    BY <1>2, <1>5 DEF StrangersInd, TypeOK
  <2>3. r \in Config /\ r.name = conf[o].name /\ r.cluster = c
    BY <1>2, <2>2, WithNet
  <2> HIDE DEF r, c
  <2>4. SameNames /\ conf'[o] = r
    BY <1>1, <2>1, <2>3, NamesSet, SameObjects DEF StrangersInd, c
  <2>5. /\ pc'[a] = "store" /\ then'[a] = "joining"
        /\ arg'[a] = o /\ found'[a] = "present"
        /\ \A b \in Admins \ {a} : pc'[b] = pc[b] /\ then'[b] = then[b]
                                    /\ arg'[b] = arg[b] /\ found'[b] = found[b]
    BY <2>1 DEF GoStore, StrangersInd, TypeOK
  <2>6. Known(a)'
    BY <1>5, <2>1, <2>3, <2>4, <2>5 DEF Known, At, StorePoints
  <2>7. \A b \in Admins \ {a} : Known(b)'
    BY <2>1, <2>4, <2>5, KnownSame
  <2> QED BY <1>3, <2>1, <2>4, <2>6, <2>7, StrangersSame
<1> QED BY <1>4, <1>5

LEMMA JoinStrangers ==
    ASSUME StrangersInd, NEW a \in Admins, Join(a)
    PROVE  NoStrangers' /\ \A b \in Admins : Known(b)'
<1> DEFINE o == arg[a]
           c == conf[o].cluster
<1>1. o \in Objects
  BY HeldArg DEF StrangersInd, Join, Holding
<1>2. c \in ClusterNames
  BY <1>1, Fields DEF StrangersInd
<1>3. found[a] = "detached" \/ netOfCluster[c] # NoNet
  BY DEF StrangersInd, TypeOK, Known, At, Join
<1>4. /\ SameNames /\ UNCHANGED <<conf, mbeans, netOfCluster, then>>
      /\ members' = IF found[a] = "detached" THEN members
                    ELSE [members EXCEPT ![c] = @ \cup {o}]
      /\ pc'[a] = "populating" /\ found'[a] = "absent"
      /\ \A b \in Admins \ {a} : pc'[b] = pc[b] /\ arg'[b] = arg[b]
                                  /\ found'[b] = found[b]
  BY NamesKept DEF Join, StrangersInd, TypeOK
<1> HIDE DEF o, c
<1>5. NoStrangers'
  BY <1>1, <1>2, <1>3, <1>4, SameConf DEF StrangersInd, TypeOK, NoStrangers, c
<1>6. Known(a)'
  BY <1>4 DEF Known, At, StorePoints
<1>7. \A b \in Admins \ {a} : Known(b)'
  BY <1>4, KnownSame
<1> QED BY <1>5, <1>6, <1>7

LEMMA CrashStrangers ==
    ASSUME Crash
    PROVE  NoStrangers' /\ \A b \in Admins : Known(b)'
BY DEF Crash, NoStrangers, Known, At, StorePoints

LEMMA StrangersInit == Init => StrangersInd
<1> SUFFICES ASSUME Init PROVE StrangersInd
  OBVIOUS
<1>1. NoStrangers /\ \A a \in Admins : Known(a)
  BY DEF Init, NoStrangers, Known, At, StorePoints
<1> QED BY <1>1, TypeInit DEF StrangersInd

LEMMA StrangersStep ==
    ASSUME StrangersInd, [Next]_vars
    PROVE  StrangersInd'
<1> DEFINE Sound == NoStrangers /\ \A b \in Admins : Known(b)
<1>1. TypeOK' /\ ArgOK'
  BY TypeStep DEF StrangersInd
<1>2. ASSUME NEW a \in Admins, Command(a)
      PROVE  Sound'
  BY <1>2, CreateStrangers, StartedStrangers, StillStrangers, LoadStrangers
  DEF Command, StartEsme, StopEsme
<1>3. ASSUME NEW a \in Admins, Step(a)
      PROVE  Sound'
  BY <1>3, StoreStrangers, AddStrangers, MBeanStrangers, RemoveStrangers,
     UnregisterStrangers, NetworkStrangers, StillStrangers, PopulateStrangers,
     JoinStrangers DEF Step
<1>4. ASSUME UNCHANGED vars
      PROVE  Sound'
  <2>1. SameNames /\ UNCHANGED <<netOfCluster, members, mbeans, pc, then, arg, found>>
    BY <1>4, NamesKept DEF vars, heap, threads
  <2> QED BY <2>1, StrangersSame, KnownSame
<1> QED BY <1>1, <1>2, <1>3, <1>4, CrashStrangers DEF Next, StrangersInd

\* However many administrators create, destroy, load and modify ESMEs at a time,
\* and wherever the JVM ends: no cluster is left empty in the map, none has an
\* ESME of another cluster, and no name has the MBean of another ESME.
THEOREM NeverStrangers == Spec => []NoStrangers
<1>1. StrangersInd /\ [Next]_vars => StrangersInd'
  BY StrangersStep
<1>2. StrangersInd => NoStrangers
  BY DEF StrangersInd
<1> QED BY StrangersInit, <1>1, <1>2, PTL DEF Spec

-----------------------------------------------------------------------------
(***************************************************************************)
(* One administrator.                                                      *)
(***************************************************************************)
OneAdmin == Admins # {} /\ \A a, b \in Admins : a = b

\* What an administrator knows of the ESME it works on, and what load() has
\* still to do.
ThreadInv ==
    /\ mixed = {}
    /\ \A a \in Admins :
        /\ found[a] # "detached"
        /\ todo[a] \subseteq esmes
        /\ todo[a] # {} => At(a, "populating") \/ At(a, "joining")
        /\ pc[a] = "creating" =>
              /\ \A x \in esmes : conf[x].name # conf[arg[a]].name
              /\ found[a] = "absent" <=> netOfCluster[conf[arg[a]].cluster] = NoNet
        /\ At(a, "destroying") => arg[a] \in esmes /\ conf[arg[a]].name \notin wanted
        /\ At(a, "register") => arg[a] \in esmes
        /\ At(a, "joining") =>
              /\ arg[a] \in esmes
              /\ conf[arg[a]].net = netOfCluster[conf[arg[a]].cluster]
        /\ At(a, "populating") \/ At(a, "joining") =>
              \A o \in esmes \ todo[a] : conf[o].net = netOfCluster[conf[o].cluster]

\* Names are those of one ESME each.
NamesInv ==
    /\ \A o, x \in esmes : conf[o].name = conf[x].name => o = x
    /\ \A r, s \in file : r.name = s.name => r = s

\* The clusters have the ESMEs of the list, and, until stop(), no others.
ClusterInv ==
    /\ \A c \in ClusterNames : netOfCluster[c] = NoNet <=> members[c] = {}
    /\ \A o \in esmes :
          o \in members[conf[o].cluster] \/ \E a \in Admins : o \in todo[a]
    /\ stops = 0 => \A c \in ClusterNames : \A o \in members[c] :
          /\ o \in esmes /\ conf[o].cluster = c
          /\ \A a \in Admins : o \notin todo[a]

\* When nobody is about to write it, the file holds the list.
FileInv ==
    \A a \in Admins :
        /\ pc[a] \notin StorePoints /\ life # "down" =>
              IF disk = "good" THEN file = Image ELSE esmes = {}
        /\ pc[a] \in {"opened", "written"} => disk = "torn"
        /\ pc[a] = "written" => snap[a] = Image

LifeInv ==
    /\ life = "down" =>
          /\ esmes = {} /\ \A c \in ClusterNames : members[c] = {}
          /\ \A a \in Admins : pc[a] = "idle"
    /\ life = "stopped" => stops # 0
    /\ \A a \in Admins : At(a, "unregisterAll") => stops # 0

IInv ==
    /\ OneAdmin /\ TypeOK /\ ArgOK
    /\ ThreadInv /\ NamesInv /\ ClusterInv /\ FileInv /\ Kept /\ LifeInv

\* The fields by which ESMEs are told apart do not change for those that the
\* list or a cluster has.
SameIdentity ==
    /\ \A o \in esmes :
          conf'[o].name = conf[o].name /\ conf'[o].cluster = conf[o].cluster
    /\ \A c \in ClusterNames : \A o \in members[c] :
          conf'[o].cluster = conf[o].cluster

LEMMA ClusterSame ==
    ASSUME ClusterInv, SameIdentity,
           UNCHANGED <<esmes, netOfCluster, members, todo, stops>>
    PROVE  ClusterInv'
BY DEF ClusterInv, SameIdentity

LEMMA NamesSame ==
    ASSUME NamesInv, SameIdentity, UNCHANGED <<esmes, file>>
    PROVE  NamesInv'
BY DEF NamesInv, SameIdentity

LEMMA ImageSame == UNCHANGED <<conf, esmes>> => Image' = Image
BY DEF Image

LEMMA KeptSame ==
    ASSUME Kept, SameIdentity, UNCHANGED <<life, esmes, disk, file, wanted>>
    PROVE  Kept'
<1>1. {conf'[o].name : o \in esmes'} = {conf[o].name : o \in esmes}
  BY DEF SameIdentity
<1> QED BY <1>1 DEF Kept

LEMMA HeapSame == UNCHANGED conf => SameIdentity
BY DEF SameIdentity

\* store().
LEMMA OpenInv ==
    ASSUME IInv, NEW a \in Admins, OpenStore(a)
    PROVE  /\ ThreadInv' /\ NamesInv' /\ ClusterInv' /\ FileInv' /\ Kept' /\ LifeInv'
<1> DEFINE Same == UNCHANGED <<life, conf, esmes, netOfCluster, members, then, arg,
                               found, todo, snap, wanted, stops>>
<1>1. \A b \in Admins : b = a
  BY DEF IInv, OneAdmin
<1>2. /\ pc[a] = "store" /\ pc' = [pc EXCEPT ![a] = "opened"]
      /\ disk' = "torn" /\ file' = {} /\ Same
  BY DEF OpenStore, heap, history
<1>3. mixed' = {}
  BY <1>1, <1>2 DEF OpenStore, Writers, IInv, ThreadInv
<1>4. pc'[a] = "opened"
  BY <1>2 DEF IInv, TypeOK
<1>5. ThreadInv'
  BY <1>1, <1>2, <1>3, <1>4 DEF IInv, ThreadInv, At, StorePoints
<1>6. NamesInv'
  BY <1>2 DEF IInv, NamesInv
<1>7. ClusterInv'
  BY <1>2, ClusterSame, HeapSame DEF IInv
<1>8. FileInv'
  BY <1>1, <1>2, <1>4 DEF FileInv, StorePoints
<1>9. Kept'
  BY <1>2 DEF IInv, Kept
<1>10. LifeInv'
  BY <1>1, <1>2, <1>4 DEF IInv, LifeInv, At, StorePoints
<1> QED BY <1>5, <1>6, <1>7, <1>8, <1>9, <1>10

LEMMA WriteInv ==
    ASSUME IInv, NEW a \in Admins, WriteStore(a)
    PROVE  /\ ThreadInv' /\ NamesInv' /\ ClusterInv' /\ FileInv' /\ Kept' /\ LifeInv'
<1> DEFINE Same == UNCHANGED <<life, conf, esmes, netOfCluster, members, disk, file,
                               then, arg, found, todo, mixed, wanted, stops>>
<1>1. \A b \in Admins : b = a
  BY DEF IInv, OneAdmin
<1>2. /\ pc[a] = "opened" /\ pc' = [pc EXCEPT ![a] = "written"]
      /\ snap' = [snap EXCEPT ![a] = Image] /\ Same
  BY DEF WriteStore, heap, xml, history
<1>3. pc'[a] = "written" /\ snap'[a] = Image
  BY <1>2 DEF IInv, TypeOK
<1>4. ThreadInv'
  BY <1>1, <1>2, <1>3 DEF IInv, ThreadInv, At, StorePoints
<1>5. NamesInv' /\ ClusterInv' /\ Kept'
  BY <1>2, NamesSame, ClusterSame, KeptSame, HeapSame DEF IInv
<1>6. FileInv'
  BY <1>1, <1>2, <1>3, ImageSame DEF IInv, FileInv, StorePoints
<1>7. LifeInv'
  BY <1>1, <1>2, <1>3 DEF IInv, LifeInv, At, StorePoints
<1> QED BY <1>4, <1>5, <1>6, <1>7

LEMMA CloseInv ==
    ASSUME IInv, NEW a \in Admins, CloseStore(a)
    PROVE  /\ ThreadInv' /\ NamesInv' /\ ClusterInv' /\ FileInv' /\ Kept' /\ LifeInv'
<1> DEFINE Same == UNCHANGED <<life, conf, esmes, netOfCluster, members, found, todo,
                               wanted, stops>>
<1>1. \A b \in Admins : b = a
  BY DEF IInv, OneAdmin
<1>2. /\ pc[a] = "written" /\ pc' = [pc EXCEPT ![a] = then[a]]
      /\ then' = [then EXCEPT ![a] = "idle"]
      /\ arg' = IF then[a] = "idle" THEN [arg EXCEPT ![a] = NoEsme] ELSE arg
      /\ Same
  BY DEF CloseStore, heap, history
<1>3. disk' = "good" /\ file' = Image /\ mixed' = {}
  BY <1>2 DEF CloseStore, IInv, ThreadInv, FileInv
<1>4. /\ pc'[a] = then[a] /\ then'[a] = "idle" /\ then[a] \notin StorePoints
      /\ pc'[a] # "idle" => arg' = arg
  <2>1. pc'[a] = then[a] /\ then'[a] = "idle"
    BY <1>2 DEF IInv, TypeOK
  <2>2. then[a] \notin StorePoints
    BY DEF IInv, ArgOK
  <2> QED BY <1>2, <2>1, <2>2
<1>5. ThreadInv'
  <2>1. pc[a] \in StorePoints /\ pc'[a] \notin StorePoints
    BY <1>2, <1>4 DEF StorePoints
  <2>2. pc'[a] # "creating"
    BY <1>4 DEF IInv, ArgOK
  <2>3. /\ found'[a] # "detached" /\ todo'[a] \subseteq esmes'
        /\ todo'[a] # {} => At(a, "populating")' \/ At(a, "joining")'
    BY <1>2, <1>4, <2>1 DEF IInv, ThreadInv, At
  <2>4. /\ At(a, "destroying")' => arg'[a] \in esmes' /\ conf'[arg'[a]].name \notin wanted'
        /\ At(a, "register")' => arg'[a] \in esmes'
        /\ At(a, "joining")' =>
              /\ arg'[a] \in esmes'
              /\ conf'[arg'[a]].net = netOfCluster'[conf'[arg'[a]].cluster]
    BY <1>2, <1>4, <2>1 DEF IInv, ThreadInv, At
  <2>5. At(a, "populating")' \/ At(a, "joining")' =>
            \A o \in esmes' \ todo'[a] : conf'[o].net = netOfCluster'[conf'[o].cluster]
    BY <1>2, <1>4, <2>1 DEF IInv, ThreadInv, At
  <2> QED BY <1>1, <1>3, <2>2, <2>3, <2>4, <2>5 DEF ThreadInv
<1>6. NamesInv'
  BY <1>2, <1>3 DEF IInv, NamesInv, Image
<1>7. ClusterInv'
  BY <1>2, ClusterSame, HeapSame DEF IInv
<1>8. FileInv'
  BY <1>1, <1>2, <1>3, <1>4, ImageSame DEF FileInv, StorePoints
<1>9. Kept'
  <2>1. life # "down"
    BY <1>2 DEF IInv, LifeInv
  <2>2. {r.name : r \in Image} = {conf[o].name : o \in esmes}
    BY DEF Image
  <2> QED BY <1>2, <1>3, <2>1, <2>2 DEF IInv, Kept
<1>10. LifeInv'
  BY <1>1, <1>2, <1>4 DEF IInv, LifeInv, At, StorePoints
<1> QED BY <1>5, <1>6, <1>7, <1>8, <1>9, <1>10

\* createEsme() and destroyEsme().
LEMMA CreateInv ==
    ASSUME IInv, NEW a \in Admins, NEW o \in Esmes, NEW n \in Names,
           NEW c \in ClusterNames, NEW w \in Nets, CreateEsme(a, o, n, c, w)
    PROVE  /\ ThreadInv' /\ NamesInv' /\ ClusterInv' /\ FileInv' /\ Kept' /\ LifeInv'
<1> DEFINE Same == UNCHANGED <<life, esmes, netOfCluster, members, disk, file, then,
                               todo, snap, mixed, wanted, stops>>
<1>1. \A b \in Admins : b = a
  BY DEF IInv, OneAdmin
<1>2. /\ pc[a] = "idle" /\ life # "down" /\ o \notin Objects /\ Named(n) = {}
      /\ found' = [found EXCEPT ![a] =
                      IF netOfCluster[c] = NoNet THEN "absent" ELSE "present"]
      /\ arg' = [arg EXCEPT ![a] = o]
      /\ pc' = [pc EXCEPT ![a] = "creating"]
      /\ Same
  BY DEF CreateEsme, xml, history
<1>3. conf'[o].name = n /\ conf'[o].cluster = c /\ \A x \in Esmes \ {o} : conf'[x] = conf[x]
  BY NewConfig DEF CreateEsme, IInv, TypeOK
<1>4. /\ pc'[a] = "creating" /\ arg'[a] = o
      /\ found'[a] = IF netOfCluster[c] = NoNet THEN "absent" ELSE "present"
  BY <1>2 DEF IInv, TypeOK
<1>5. /\ \A x \in esmes : conf'[x] = conf[x]
      /\ \A d \in ClusterNames : \A x \in members[d] : conf'[x] = conf[x]
  BY <1>2, <1>3 DEF IInv, TypeOK, Objects
<1>6. SameIdentity
  BY <1>5 DEF SameIdentity
<1>7. todo[a] = {}
  BY <1>2 DEF IInv, ThreadInv, At, StorePoints
<1>8. ThreadInv'
  <2>1. \A x \in esmes' : conf'[x].name # n
    BY <1>2, <1>5 DEF Named
  <2> QED BY <1>1, <1>2, <1>3, <1>4, <1>7, <2>1 DEF IInv, ThreadInv, At, StorePoints
<1>9. NamesInv' /\ ClusterInv' /\ Kept'
  BY <1>2, <1>6, NamesSame, ClusterSame, KeptSame DEF IInv
<1>10. FileInv'
  <2>1. Image' = Image
    BY <1>2, <1>5 DEF Image
  <2> QED BY <1>1, <1>2, <1>4, <2>1 DEF IInv, FileInv, StorePoints
<1>11. LifeInv'
  BY <1>1, <1>2, <1>4 DEF IInv, LifeInv, At, StorePoints
<1> QED BY <1>8, <1>9, <1>10, <1>11

LEMMA AddInv ==
    ASSUME IInv, NEW a \in Admins, AddEsme(a)
    PROVE  /\ ThreadInv' /\ NamesInv' /\ ClusterInv' /\ FileInv' /\ Kept' /\ LifeInv'
<1> DEFINE o == arg[a]
           c == conf[o].cluster
           Same == UNCHANGED <<life, conf, disk, file, arg, todo, snap, mixed, wanted,
                               stops>>
<1>1. \A b \in Admins : b = a
  BY DEF IInv, OneAdmin
<1>2. /\ pc[a] = "creating" /\ esmes' = esmes \cup {o}
      /\ pc' = [pc EXCEPT ![a] = "store"]
      /\ then' = [then EXCEPT ![a] = "register"]
      /\ Same
  BY DEF AddEsme, GoStore, xml, history
<1>3. pc'[a] = "store" /\ then'[a] = "register"
  BY <1>2 DEF IInv, TypeOK
<1>4. o \in Objects /\ c \in ClusterNames /\ conf[o].net # NoNet
  <2>1. o \in Objects
    BY <1>2, HeldArg DEF IInv, Holding
  <2> QED BY <2>1, Fields, RegistryAssumption DEF IInv
<1>5. /\ \A x \in esmes : conf[x].name # conf[o].name
      /\ o \notin esmes /\ todo[a] = {}
      /\ found[a] = "absent" <=> netOfCluster[c] = NoNet
      /\ found[a] # "detached"
  BY <1>2 DEF IInv, ThreadInv, At, StorePoints
<1>6. found[a] \in {"absent", "present", "detached"}
  BY DEF IInv, TypeOK
<1> HIDE DEF c, o
<1>7. /\ netOfCluster' = [netOfCluster EXCEPT ![c] = IF found[a] = "absent"
                                                     THEN conf[o].net ELSE @]
      /\ members' = [members EXCEPT ![c] = @ \cup {o}]
      /\ found' = [found EXCEPT ![a] = "absent"]
  <2>1. found[a] = "absent" => members[c] = {}
    BY <1>4, <1>5 DEF IInv, ClusterInv
  <2>2. Losing(c, a) = [found EXCEPT ![a] = "absent"]
    BY <1>1 DEF Losing, IInv, TypeOK
  <2> QED BY <1>4, <1>5, <1>6, <2>1, <2>2 DEF AddEsme, EnterCluster, c, o, IInv, TypeOK
<1>8. ThreadInv'
  BY <1>1, <1>2, <1>3, <1>5, <1>7 DEF IInv, ThreadInv, TypeOK, At, StorePoints, o
<1>9. NamesInv'
  BY <1>2, <1>5 DEF IInv, NamesInv
<1>10. ClusterInv'
  <2>1. /\ \A d \in ClusterNames : members'[d] =
              IF d = c THEN members[c] \cup {o} ELSE members[d]
        /\ \A d \in ClusterNames : netOfCluster'[d] =
              IF d = c /\ found[a] = "absent" THEN conf[o].net ELSE netOfCluster[d]
    BY <1>4, <1>7 DEF IInv, TypeOK
  <2>2. \A d \in ClusterNames : netOfCluster'[d] = NoNet <=> members'[d] = {}
    BY <1>4, <1>5, <2>1 DEF IInv, ClusterInv
  <2>3. ASSUME NEW x \in esmes'
        PROVE  x \in members'[conf[x].cluster]
    <3>1. CASE x = o
      BY <1>4, <2>1, <3>1 DEF c
    <3>2. CASE x \in esmes
      <4>1. x \in members[conf[x].cluster]
        BY <1>1, <1>5, <3>2 DEF IInv, ClusterInv
      <4>2. conf[x].cluster \in ClusterNames
        BY <3>2, Fields DEF IInv, TypeOK
      <4> QED BY <2>1, <4>1, <4>2
    <3> QED BY <1>2, <3>1, <3>2
  <2>4. ASSUME stops = 0, NEW d \in ClusterNames, NEW x \in members'[d]
        PROVE  x \in esmes' /\ conf[x].cluster = d
    BY <1>2, <2>1, <2>4 DEF IInv, ClusterInv, c
  <2> QED BY <1>1, <1>2, <1>5, <2>2, <2>3, <2>4 DEF ClusterInv
<1>11. FileInv'
  BY <1>1, <1>2, <1>3 DEF FileInv, StorePoints
<1>12. Kept'
  BY <1>2 DEF IInv, Kept
<1>13. LifeInv'
  BY <1>1, <1>2, <1>3 DEF IInv, LifeInv, At, StorePoints
<1> QED BY <1>8, <1>9, <1>10, <1>11, <1>12, <1>13

LEMMA RegisterInv ==
    ASSUME IInv, NEW a \in Admins, Register(a)
    PROVE  /\ ThreadInv' /\ NamesInv' /\ ClusterInv' /\ FileInv' /\ Kept' /\ LifeInv'
<1> DEFINE Same == UNCHANGED <<life, conf, esmes, netOfCluster, members, disk, file,
                               then, found, todo, snap, mixed, stops>>
<1>1. \A b \in Admins : b = a
  BY DEF IInv, OneAdmin
<1>2. /\ pc[a] = "register" /\ pc' = [pc EXCEPT ![a] = "idle"]
      /\ wanted' = wanted \cup {conf[arg[a]].name}
      /\ Same
  BY DEF Register, heap, xml
<1>3. pc'[a] = "idle"
  BY <1>2 DEF IInv, TypeOK
<1>4. arg[a] \in esmes /\ todo[a] = {} /\ life # "down" /\ then[a] = "idle"
  BY <1>2 DEF IInv, ThreadInv, LifeInv, ArgOK, At, StorePoints
<1>5. ThreadInv'
  BY <1>1, <1>2, <1>3, <1>4 DEF IInv, ThreadInv, At, StorePoints
<1>6. NamesInv' /\ ClusterInv'
  BY <1>2, NamesSame, ClusterSame, HeapSame DEF IInv
<1>7. FileInv'
  BY <1>1, <1>2, <1>3, ImageSame DEF IInv, FileInv, StorePoints
<1>8. Kept'
  <2>1. disk = "good" => file = Image
    BY <1>2, <1>4 DEF IInv, FileInv, StorePoints
  <2>2. {r.name : r \in Image} = {conf[o].name : o \in esmes}
    BY DEF Image
  <2> QED BY <1>2, <1>4, <2>1, <2>2 DEF IInv, Kept
<1>9. LifeInv'
  BY <1>1, <1>2, <1>3 DEF IInv, LifeInv, At, StorePoints
<1> QED BY <1>5, <1>6, <1>7, <1>8, <1>9

LEMMA DestroyInv ==
    ASSUME IInv, NEW a \in Admins, NEW o \in esmes, DestroyEsme(a, o)
    PROVE  /\ ThreadInv' /\ NamesInv' /\ ClusterInv' /\ FileInv' /\ Kept' /\ LifeInv'
<1> DEFINE Same == UNCHANGED <<life, conf, esmes, netOfCluster, members, disk, file,
                               then, found, todo, snap, mixed, stops>>
<1>1. \A b \in Admins : b = a
  BY DEF IInv, OneAdmin
<1>2. /\ pc[a] = "idle" /\ life # "down" /\ pc' = [pc EXCEPT ![a] = "destroying"]
      /\ arg' = [arg EXCEPT ![a] = o] /\ wanted' = wanted \ {conf[o].name}
      /\ Same
  BY DEF DestroyEsme, heap, xml
<1>3. pc'[a] = "destroying" /\ arg'[a] = o
  BY <1>2 DEF IInv, TypeOK
<1>4. todo[a] = {}
  BY <1>2 DEF IInv, ThreadInv, At, StorePoints
<1>5. ThreadInv'
  BY <1>1, <1>2, <1>3, <1>4 DEF IInv, ThreadInv, At, StorePoints
<1>6. NamesInv' /\ ClusterInv'
  BY <1>2, NamesSame, ClusterSame, HeapSame DEF IInv
<1>7. FileInv'
  BY <1>1, <1>2, <1>3, ImageSame DEF IInv, FileInv, StorePoints
<1>8. Kept'
  BY <1>2 DEF IInv, Kept
<1>9. LifeInv'
  BY <1>1, <1>2, <1>3 DEF IInv, LifeInv, At, StorePoints
<1> QED BY <1>5, <1>6, <1>7, <1>8, <1>9

\* A list whose ESMEs have different names loses the one to remove, and no other.
LEMMA RemovesOne ==
    ASSUME NEW list, NEW o \in list, NEW rest \in Removals(list, o),
           \A x \in list : conf[x].name = conf[o].name => x = o
    PROVE  rest = list \ {o}
BY DEF Removals

\* A list keeps the ESMEs of other names.
LEMMA RemovesNamed ==
    ASSUME NEW list, NEW o, NEW rest \in Removals(list, o), NEW x \in list,
           conf[x].name # conf[o].name
    PROVE  x \in rest
BY DEF Removals

LEMMA RemoveInv ==
    ASSUME IInv, NEW a \in Admins, RemoveEsme(a)
    PROVE  /\ ThreadInv' /\ NamesInv' /\ ClusterInv' /\ FileInv' /\ Kept' /\ LifeInv'
<1> DEFINE o == arg[a]
           c == conf[o].cluster
           Same == UNCHANGED <<life, conf, disk, file, arg, todo, snap, mixed, wanted,
                               stops>>
<1>1. \A b \in Admins : b = a
  BY DEF IInv, OneAdmin
<1>2. pc[a] = "destroying" /\ esmes' \in Removals(esmes, o)
  BY DEF RemoveEsme
<1>3. /\ o \in esmes /\ conf[o].name \notin wanted
      /\ todo[a] = {} /\ found[a] # "detached"
  BY <1>2 DEF IInv, ThreadInv, At, StorePoints
<1>4. o \in Objects /\ c \in ClusterNames
  BY <1>3, Fields DEF IInv, TypeOK
<1>5. o \in members[c] /\ netOfCluster[c] # NoNet
  BY <1>1, <1>3, <1>4 DEF IInv, ClusterInv
<1>6. /\ LeaveCluster(a, o, c)
      /\ pc' = [pc EXCEPT ![a] = "store"]
      /\ then' = [then EXCEPT ![a] = "unregister"]
      /\ Same
  BY <1>5 DEF RemoveEsme, GoStore, xml, history
<1>7. pc'[a] = "store" /\ then'[a] = "unregister"
  BY <1>6 DEF IInv, TypeOK
<1>8. esmes' = esmes \ {o}
  <2>1. \A x \in esmes : conf[x].name = conf[o].name => x = o
    BY <1>3 DEF IInv, NamesInv
  <2> QED BY <1>2, <1>3, <2>1, RemovesOne
<1>9. PICK rest \in Removals(members[c], o) :
         /\ members' = [members EXCEPT ![c] = rest]
         /\ \/ /\ rest = {}
               /\ netOfCluster' = [netOfCluster EXCEPT ![c] = NoNet]
               /\ found' = Losing(c, a)
            \/ rest # {} /\ UNCHANGED <<netOfCluster, found>>
  BY <1>6 DEF LeaveCluster
<1>10. found'[a] # "detached"
  BY <1>3, <1>9 DEF Losing
<1> HIDE DEF o, c
<1>11. /\ \A d \in ClusterNames : members'[d] = IF d = c THEN rest ELSE members[d]
       /\ \A d \in ClusterNames : netOfCluster'[d] =
             IF d = c /\ rest = {} THEN NoNet ELSE netOfCluster[d]
  BY <1>4, <1>9 DEF IInv, TypeOK
<1>12. ThreadInv'
  BY <1>1, <1>3, <1>6, <1>7, <1>8, <1>10 DEF IInv, ThreadInv, At, StorePoints
<1>13. NamesInv'
  BY <1>6, <1>8 DEF IInv, NamesInv
<1>14. ClusterInv'
  <2>1. \A d \in ClusterNames : netOfCluster'[d] = NoNet <=> members'[d] = {}
    BY <1>5, <1>11 DEF IInv, ClusterInv
  <2>2. ASSUME NEW x \in esmes'
        PROVE  x \in members'[conf[x].cluster]
    <3>1. x \in esmes /\ x # o
      BY <1>8
    <3>2. x \in members[conf[x].cluster]
      BY <1>1, <1>3, <3>1 DEF IInv, ClusterInv
    <3>3. conf[x].name # conf[o].name
      BY <1>3, <3>1 DEF IInv, NamesInv
    <3>4. conf[x].cluster \in ClusterNames
      BY <3>1, Fields DEF IInv, TypeOK
    <3>5. CASE conf[x].cluster = c
      BY <1>11, <3>2, <3>3, <3>4, <3>5, RemovesNamed
    <3>6. CASE conf[x].cluster # c
      BY <1>11, <3>2, <3>4, <3>6
    <3> QED BY <3>5, <3>6
  <2>3. ASSUME stops = 0, NEW d \in ClusterNames, NEW x \in members'[d]
        PROVE  x \in esmes' /\ conf[x].cluster = d
    <3>1. \A y \in members[c] : conf[y].name = conf[o].name => y = o
      BY <1>3, <1>4, <2>3 DEF IInv, ClusterInv, NamesInv
    <3>2. rest = members[c] \ {o}
      BY <1>5, <3>1, RemovesOne
    <3>3. x \in members[d] /\ (d = c => x # o)
      BY <1>11, <3>2
    <3>4. x \in esmes /\ conf[x].cluster = d
      BY <2>3, <3>3 DEF IInv, ClusterInv
    <3> QED BY <1>8, <3>3, <3>4 DEF c
  <2> QED BY <1>1, <1>3, <1>6, <2>1, <2>2, <2>3 DEF ClusterInv
<1>15. FileInv'
  BY <1>1, <1>6, <1>7 DEF FileInv, StorePoints
<1>16. Kept'
  <2>1. life # "down"
    BY <1>2 DEF IInv, LifeInv
  <2>2. wanted \subseteq {conf[x].name : x \in esmes}
    BY <2>1 DEF IInv, Kept
  <2>3. wanted \subseteq {conf[x].name : x \in esmes'}
    BY <1>3, <1>8, <2>2
  <2> QED BY <1>6, <2>3 DEF IInv, Kept
<1>17. LifeInv'
  <2>1. life # "down"
    BY <1>2 DEF IInv, LifeInv
  <2> QED BY <1>1, <1>6, <1>7, <2>1 DEF IInv, LifeInv, At, StorePoints
<1> QED BY <1>12, <1>13, <1>14, <1>15, <1>16, <1>17

LEMMA UnregisterInv ==
    ASSUME IInv, NEW a \in Admins, Unregister(a)
    PROVE  /\ ThreadInv' /\ NamesInv' /\ ClusterInv' /\ FileInv' /\ Kept' /\ LifeInv'
<1> DEFINE Same == UNCHANGED <<life, esmes, netOfCluster, members, disk, file, then,
                               found, todo, snap, mixed, wanted, stops>>
<1>1. \A b \in Admins : b = a
  BY DEF IInv, OneAdmin
<1>2. /\ pc[a] = "unregister" /\ pc' = [pc EXCEPT ![a] = "idle"]
      /\ conf' = [o \in Esmes |-> IF o \in InUse' THEN conf[o] ELSE NoConf]
      /\ Same
  BY DEF Unregister, xml, history
<1>3. pc'[a] = "idle" /\ then[a] = "idle" /\ todo[a] = {}
  BY <1>2 DEF IInv, TypeOK, ArgOK, ThreadInv, At, StorePoints
<1>4. /\ \A x \in esmes : conf'[x] = conf[x]
      /\ \A d \in ClusterNames : \A x \in members[d] : conf'[x] = conf[x]
  BY <1>2 DEF IInv, TypeOK, Objects, InUse
<1>5. SameIdentity
  BY <1>4 DEF SameIdentity
<1>6. ThreadInv'
  BY <1>1, <1>2, <1>3 DEF IInv, ThreadInv, At, StorePoints
<1>7. NamesInv' /\ ClusterInv' /\ Kept'
  BY <1>2, <1>5, NamesSame, ClusterSame, KeptSame DEF IInv
<1>8. FileInv'
  <2>1. Image' = Image
    BY <1>2, <1>4 DEF Image
  <2> QED BY <1>1, <1>2, <1>3, <2>1 DEF IInv, FileInv, StorePoints
<1>9. LifeInv'
  BY <1>1, <1>2, <1>3 DEF IInv, LifeInv, At, StorePoints
<1> QED BY <1>6, <1>7, <1>8, <1>9

\* startEsme(), stopEsme() and modifyEsme().
LEMMA SetInv ==
    ASSUME IInv, NEW a \in Admins, NEW o \in Objects, NEW r \in Config,
           NEW next \in {"idle", "modifying"},
           pc[a] \notin StorePoints, todo[a] = {}, life # "down",
           r.name = conf[o].name, r.cluster = conf[o].cluster,
           conf' = [conf EXCEPT ![o] = r], GoStore(a, next),
           UNCHANGED <<life, esmes, netOfCluster, members, disk, file, arg, found,
                       todo, snap, mixed, wanted, stops>>
    PROVE  /\ ThreadInv' /\ NamesInv' /\ ClusterInv' /\ FileInv' /\ Kept' /\ LifeInv'
<1>1. \A b \in Admins : b = a
  BY DEF IInv, OneAdmin
<1>2. pc'[a] = "store" /\ then'[a] = next
  BY DEF GoStore, IInv, TypeOK
<1>3. conf'[o] = r /\ \A x \in Objects \ {o} : conf'[x] = conf[x]
  BY SameObjects DEF IInv
<1>4. SameIdentity
  BY <1>3 DEF SameIdentity, IInv, TypeOK
<1>5. ThreadInv'
  BY <1>1, <1>2 DEF IInv, ThreadInv, At, StorePoints
<1>6. NamesInv' /\ ClusterInv' /\ Kept'
  BY <1>4, NamesSame, ClusterSame, KeptSame DEF IInv
<1>7. FileInv'
  BY <1>1, <1>2 DEF FileInv, StorePoints
<1>8. LifeInv'
  BY <1>1, <1>2 DEF IInv, LifeInv, At, StorePoints
<1> QED BY <1>5, <1>6, <1>7, <1>8

LEMMA StartedInv ==
    ASSUME IInv, NEW a \in Admins, NEW o \in esmes, NEW b \in BOOLEAN,
           SetStarted(a, o, b)
    PROVE  /\ ThreadInv' /\ NamesInv' /\ ClusterInv' /\ FileInv' /\ Kept' /\ LifeInv'
<1> DEFINE r == [conf[o] EXCEPT !.started = b]
<1>1. o \in Objects /\ conf[o] \in Config
  BY Fields DEF IInv, TypeOK
<1>2. r \in Config /\ r.name = conf[o].name /\ r.cluster = conf[o].cluster
  BY <1>1, WithStarted
<1>3. pc[a] \notin StorePoints /\ todo[a] = {}
  BY DEF SetStarted, IInv, ThreadInv, At, StorePoints
<1>4. conf' = [conf EXCEPT ![o] = r]
  BY DEF SetStarted
<1> HIDE DEF r
<1> QED BY <1>1, <1>2, <1>3, <1>4, SetInv DEF SetStarted, xml, history

LEMMA NetworkInv ==
    ASSUME IInv, NEW a \in Admins, NEW w \in Nets, SetNetworkId(a, w)
    PROVE  /\ ThreadInv' /\ NamesInv' /\ ClusterInv' /\ FileInv' /\ Kept' /\ LifeInv'
<1> DEFINE o == arg[a]
           r == [conf[o] EXCEPT !.net = w]
<1>1. o \in Objects
  BY HeldArg DEF IInv, SetNetworkId, Holding
<1>2. conf[o] \in Config
  BY <1>1, Fields DEF IInv
<1>3. r \in Config /\ r.name = conf[o].name /\ r.cluster = conf[o].cluster
  BY <1>2, WithNet
<1>4. pc[a] \notin StorePoints /\ todo[a] = {} /\ life # "down"
  BY DEF SetNetworkId, IInv, ThreadInv, LifeInv, At, StorePoints
<1>5. conf' = [conf EXCEPT ![o] = r]
  BY DEF SetNetworkId
<1> HIDE DEF o, r
<1> QED BY <1>1, <1>2, <1>3, <1>4, <1>5, SetInv DEF SetNetworkId, xml, history

\* A command that only begins or ends.
LEMMA ModifyInv ==
    ASSUME IInv, NEW a \in Admins, (\E o \in esmes : ModifyEsme(a, o)) \/ EndModify(a)
    PROVE  /\ ThreadInv' /\ NamesInv' /\ ClusterInv' /\ FileInv' /\ Kept' /\ LifeInv'
<1> DEFINE Same == UNCHANGED <<life, conf, esmes, netOfCluster, members, disk, file,
                               then, found, todo, snap, mixed, wanted, stops>>
<1>1. \A b \in Admins : b = a
  BY DEF IInv, OneAdmin
<1>2. pc[a] \in {"idle", "modifying"} /\ Same /\ life # "down"
  BY DEF ModifyEsme, EndModify, heap, xml, history, IInv, LifeInv
<1>3. pc'[a] \in {"idle", "modifying"}
  BY DEF ModifyEsme, EndModify, IInv, TypeOK
<1>4. todo[a] = {}
  BY <1>2 DEF IInv, ThreadInv, At, StorePoints
<1>5. ThreadInv'
  BY <1>1, <1>2, <1>3, <1>4 DEF IInv, ThreadInv, At, StorePoints
<1>6. NamesInv' /\ ClusterInv' /\ Kept'
  BY <1>2, NamesSame, ClusterSame, KeptSame, HeapSame DEF IInv
<1>7. FileInv'
  BY <1>1, <1>2, <1>3, ImageSame DEF IInv, FileInv, StorePoints
<1>8. LifeInv'
  BY <1>1, <1>2, <1>3 DEF IInv, LifeInv, At, StorePoints
<1> QED BY <1>5, <1>6, <1>7, <1>8

\* start(), load() and stop().
LEMMA LoadFileInv ==
    ASSUME IInv, NEW a \in Admins, LoadFile(a)
    PROVE  /\ ThreadInv' /\ NamesInv' /\ ClusterInv' /\ FileInv' /\ Kept' /\ LifeInv'
<1> DEFINE Same == UNCHANGED <<netOfCluster, members, disk, file, then, arg, found,
                               snap, mixed, wanted, stops>>
<1>1. \A b \in Admins : b = a
  BY DEF IInv, OneAdmin
<1>2. /\ pc[a] = "idle" /\ life \in {"down", "stopped"} /\ disk = "good"
      /\ life' = "running" /\ pc' = [pc EXCEPT ![a] = "populating"]
      /\ Same
  BY DEF LoadFile, xml, history
<1>3. PICK new \in SUBSET (Esmes \ Objects) : \E read \in [new -> file] :
         /\ \A o, x \in new : read[o] = read[x] => o = x
         /\ \A r \in file : \E o \in new : read[o] = r
         /\ conf' = [o \in Esmes |-> IF o \in new THEN read[o] ELSE conf[o]]
         /\ esmes' = new
         /\ todo' = [todo EXCEPT ![a] = new]
  BY DEF LoadFile
<1>4. PICK read \in [new -> file] :
         /\ \A o, x \in new : read[o] = read[x] => o = x
         /\ \A r \in file : \E o \in new : read[o] = r
         /\ conf' = [o \in Esmes |-> IF o \in new THEN read[o] ELSE conf[o]]
  BY <1>3
<1>5. \A o \in new : conf'[o] = read[o] /\ conf'[o] \in file
  BY <1>4
<1>6. \A x \in Objects : x \notin new /\ conf'[x] = conf[x]
  BY <1>4 DEF Objects
<1>7. pc'[a] = "populating" /\ todo'[a] = new
  BY <1>2, <1>3 DEF IInv, TypeOK
<1>8. life = "down" => \A c \in ClusterNames : members[c] = {}
  BY DEF IInv, LifeInv
<1>9. stops = 0 => life = "down"
  BY <1>2 DEF IInv, LifeInv
<1>10. ThreadInv'
  BY <1>1, <1>2, <1>3, <1>7 DEF IInv, ThreadInv, At, StorePoints
<1>11. NamesInv'
  <2>1. \A o, x \in new : conf'[o].name = conf'[x].name => conf'[o] = conf'[x]
    BY <1>5 DEF IInv, NamesInv
  <2>2. \A o, x \in new : conf'[o].name = conf'[x].name => o = x
    BY <1>4, <1>5, <2>1
  <2> QED BY <1>2, <1>3, <2>2 DEF IInv, NamesInv
<1>12. ClusterInv'
  BY <1>1, <1>2, <1>3, <1>7, <1>8, <1>9 DEF IInv, ClusterInv
<1>13. Image' = file
  BY <1>3, <1>4, <1>5 DEF Image
<1>14. FileInv'
  BY <1>1, <1>2, <1>7, <1>13 DEF FileInv, StorePoints
<1>15. Kept'
  <2>1. {r.name : r \in Image'} = {conf'[o].name : o \in esmes'}
    BY DEF Image
  <2> QED BY <1>2, <1>13, <2>1 DEF IInv, Kept
<1>16. LifeInv'
  BY <1>1, <1>2, <1>7 DEF LifeInv, At, StorePoints
<1> QED BY <1>10, <1>11, <1>12, <1>14, <1>15, <1>16

LEMMA LoadNothingInv ==
    ASSUME IInv, NEW a \in Admins, LoadNothing(a)
    PROVE  /\ ThreadInv' /\ NamesInv' /\ ClusterInv' /\ FileInv' /\ Kept' /\ LifeInv'
<1> DEFINE Same == UNCHANGED <<conf, esmes, netOfCluster, members, disk, file, then,
                               arg, found, todo, snap, mixed, stops>>
<1>1. \A b \in Admins : b = a
  BY DEF IInv, OneAdmin
<1>2. /\ pc[a] = "idle" /\ disk # "good"
      /\ wanted' = {conf[o].name : o \in esmes}
      /\ life' = "running" /\ pc' = [pc EXCEPT ![a] = "populating"]
      /\ Same
  BY DEF LoadNothing, heap, xml
<1>3. esmes = {}
  BY <1>2 DEF IInv, LifeInv, FileInv, StorePoints
<1>4. pc'[a] = "populating"
  BY <1>2 DEF IInv, TypeOK
<1>5. ThreadInv'
  BY <1>1, <1>2, <1>3, <1>4 DEF IInv, ThreadInv, At, StorePoints
<1>6. NamesInv' /\ ClusterInv'
  BY <1>2, NamesSame, ClusterSame, HeapSame DEF IInv
<1>7. FileInv'
  BY <1>1, <1>2, <1>3, <1>4 DEF FileInv, StorePoints
<1>8. Kept'
  BY <1>2 DEF Kept
<1>9. LifeInv'
  BY <1>1, <1>2, <1>4 DEF IInv, LifeInv, At, StorePoints
<1> QED BY <1>5, <1>6, <1>7, <1>8, <1>9

LEMMA PopulateInv ==
    ASSUME IInv, NEW a \in Admins, NEW o \in todo[a], Populate(a, o)
    PROVE  /\ ThreadInv' /\ NamesInv' /\ ClusterInv' /\ FileInv' /\ Kept' /\ LifeInv'
<1> DEFINE c == conf[o].cluster
           Same == UNCHANGED <<life, esmes, disk, file, snap, mixed, wanted, stops>>
<1>1. \A b \in Admins : b = a
  BY DEF IInv, OneAdmin
<1>2. pc[a] = "populating" /\ Same /\ life # "down"
  BY DEF Populate, xml, history, IInv, LifeInv
<1>3. /\ o \in Objects /\ o \in esmes /\ conf[o] \in Config
      /\ c \in ClusterNames /\ conf[o].net \in Nets
  BY Fields DEF IInv, TypeOK, ThreadInv
<1>4. \A x \in esmes \ todo[a] : conf[x].net = netOfCluster[conf[x].cluster]
  BY <1>2 DEF IInv, ThreadInv, At
<1>5. CASE netOfCluster[c] = NoNet
  <2>1. /\ netOfCluster' = [netOfCluster EXCEPT ![c] = conf[o].net]
        /\ members' = [members EXCEPT ![c] = {o}]
        /\ todo' = [todo EXCEPT ![a] = @ \ {o}]
        /\ UNCHANGED <<conf, pc, then, arg, found>>
    BY <1>5 DEF Populate
  <2> HIDE DEF c
  <2>2. /\ \A d \in ClusterNames : members'[d] = IF d = c THEN {o} ELSE members[d]
        /\ \A d \in ClusterNames : netOfCluster'[d] =
              IF d = c THEN conf[o].net ELSE netOfCluster[d]
        /\ todo'[a] = todo[a] \ {o}
    BY <1>3, <2>1 DEF IInv, TypeOK
  <2>3. members[c] = {} /\ conf[o].net # NoNet
    BY <1>3, <1>5, RegistryAssumption DEF IInv, ClusterInv
  <2>4. ASSUME NEW x \in esmes, x \notin todo[a]
        PROVE  conf[x].cluster # c /\ conf[x].cluster \in ClusterNames
    BY <1>1, <2>3, <2>4, Fields DEF IInv, ClusterInv, TypeOK
  <2>5. ThreadInv'
    <3>1. \A x \in esmes' \ todo'[a] : conf'[x].net = netOfCluster'[conf'[x].cluster]
      <4>1. ASSUME NEW x \in esmes, x \notin todo'[a]
            PROVE  conf[x].net = netOfCluster'[conf[x].cluster]
        <5>1. CASE x = o
          BY <1>3, <2>2, <5>1 DEF c
        <5>2. CASE x # o
          <6>1. x \notin todo[a]
            BY <2>2, <4>1, <5>2
          <6> QED BY <1>4, <2>2, <2>4, <6>1
        <5> QED BY <5>1, <5>2
      <4> QED BY <1>2, <2>1, <4>1
    <3>2. pc'[a] = "populating" /\ todo'[a] \subseteq esmes
      BY <1>2, <2>1, <2>2 DEF IInv, ThreadInv
    <3> QED BY <1>1, <1>2, <2>1, <3>1, <3>2 DEF IInv, ThreadInv, At, StorePoints
  <2>6. ClusterInv'
    <3>1. \A d \in ClusterNames : netOfCluster'[d] = NoNet <=> members'[d] = {}
      BY <2>2, <2>3 DEF IInv, ClusterInv
    <3>2. ASSUME NEW x \in esmes, x \notin todo'[a]
          PROVE  x \in members'[conf[x].cluster]
      <4>1. CASE x = o
        BY <1>3, <2>2, <4>1 DEF c
      <4>2. CASE x # o
        <5>1. x \notin todo[a]
          BY <2>2, <3>2, <4>2
        <5>2. x \in members[conf[x].cluster]
          BY <1>1, <5>1 DEF IInv, ClusterInv
        <5> QED BY <2>2, <2>4, <5>1, <5>2
      <4> QED BY <4>1, <4>2
    <3>3. ASSUME stops = 0, NEW d \in ClusterNames, NEW x \in members'[d]
          PROVE  x \in esmes /\ conf[x].cluster = d /\ x \notin todo'[a]
      <4>1. CASE d = c
        BY <1>3, <2>2, <4>1 DEF c
      <4>2. CASE d # c
        BY <2>2, <3>3, <4>2 DEF IInv, ClusterInv
      <4> QED BY <4>1, <4>2
    <3> QED BY <1>1, <1>2, <2>1, <3>1, <3>2, <3>3 DEF ClusterInv
  <2>7. NamesInv' /\ Kept'
    BY <1>2, <2>1, NamesSame, KeptSame, HeapSame DEF IInv
  <2>8. FileInv'
    BY <1>2, <2>1, ImageSame DEF IInv, FileInv
  <2>9. LifeInv'
    BY <1>2, <2>1 DEF IInv, LifeInv, At
  <2> QED BY <2>5, <2>6, <2>7, <2>8, <2>9
<1>6. CASE netOfCluster[c] # NoNet
  <2> DEFINE r == [conf[o] EXCEPT !.net = netOfCluster[c]]
  <2>1. /\ conf' = [conf EXCEPT ![o] = r]
        /\ arg' = [arg EXCEPT ![a] = o]
        /\ found' = [found EXCEPT ![a] = "present"]
        /\ pc' = [pc EXCEPT ![a] = "store"]
        /\ then' = [then EXCEPT ![a] = "joining"]
        /\ UNCHANGED <<netOfCluster, members, todo>>
    BY <1>6 DEF Populate, TakeNetworkId, GoStore
  <2>2. netOfCluster[c] \in Nets
    BY <1>3, <1>6 DEF IInv, TypeOK
  <2>3. /\ r \in Config /\ r.name = conf[o].name /\ r.cluster = c
        /\ r.net = netOfCluster[c]
    BY <1>3, <2>2, WithNet
  <2> HIDE DEF r, c
  <2>4. conf'[o] = r /\ \A x \in Objects \ {o} : conf'[x] = conf[x]
    BY <1>3, <2>1, <2>3, SameObjects DEF IInv
  <2>5. SameIdentity
    BY <2>3, <2>4 DEF SameIdentity, IInv, TypeOK, c
  <2>6. /\ pc'[a] = "store" /\ then'[a] = "joining" /\ arg'[a] = o
        /\ found'[a] = "present"
    BY <2>1 DEF IInv, TypeOK
  <2>7. ThreadInv'
    <3>1. \A x \in esmes \ todo[a] : conf'[x] = conf[x]
      BY <2>4 DEF IInv, TypeOK
    <3>2. conf'[o].net = netOfCluster'[conf'[o].cluster]
      BY <2>1, <2>3, <2>4
    <3> QED BY <1>1, <1>2, <1>3, <1>4, <2>1, <2>6, <3>1, <3>2
            DEF IInv, ThreadInv, At, StorePoints
  <2>8. NamesInv' /\ ClusterInv' /\ Kept'
    BY <1>2, <2>1, <2>5, NamesSame, ClusterSame, KeptSame DEF IInv
  <2>9. FileInv'
    BY <1>1, <1>2, <2>6 DEF FileInv, StorePoints
  <2>10. LifeInv'
    BY <1>1, <1>2, <2>6 DEF IInv, LifeInv, At, StorePoints
  <2> QED BY <2>7, <2>8, <2>9, <2>10
<1> QED BY <1>5, <1>6

LEMMA JoinInv ==
    ASSUME IInv, NEW a \in Admins, Join(a)
    PROVE  /\ ThreadInv' /\ NamesInv' /\ ClusterInv' /\ FileInv' /\ Kept' /\ LifeInv'
<1> DEFINE o == arg[a]
           c == conf[o].cluster
           Same == UNCHANGED <<life, conf, esmes, netOfCluster, disk, file, then,
                               snap, mixed, wanted, stops>>
<1>1. \A b \in Admins : b = a
  BY DEF IInv, OneAdmin
<1>2. /\ pc[a] = "joining" /\ pc' = [pc EXCEPT ![a] = "populating"]
      /\ todo' = [todo EXCEPT ![a] = @ \ {o}]
      /\ found' = [found EXCEPT ![a] = "absent"]
      /\ Same
  BY DEF Join, xml, history
<1>3. /\ o \in esmes /\ found[a] # "detached" /\ life # "down" /\ then[a] = "idle"
      /\ conf[o].net = netOfCluster[c]
      /\ \A x \in esmes \ todo[a] : conf[x].net = netOfCluster[conf[x].cluster]
  BY <1>2 DEF IInv, ThreadInv, LifeInv, ArgOK, At, StorePoints
<1>4. c \in ClusterNames /\ netOfCluster[c] # NoNet
  BY <1>3, Fields, RegistryAssumption DEF IInv, TypeOK
<1>5. members' = [members EXCEPT ![c] = @ \cup {o}]
  BY <1>3 DEF Join
<1> HIDE DEF o, c
<1>6. /\ \A d \in ClusterNames : members'[d] =
            IF d = c THEN members[c] \cup {o} ELSE members[d]
      /\ todo'[a] = todo[a] \ {o} /\ pc'[a] = "populating" /\ found'[a] = "absent"
  BY <1>2, <1>4, <1>5 DEF IInv, TypeOK
<1>7. ThreadInv'
  <2>1. todo'[a] \subseteq esmes /\ mixed = {}
    BY <1>6 DEF IInv, ThreadInv
  <2>2. \A x \in esmes \ todo'[a] : conf[x].net = netOfCluster[conf[x].cluster]
    BY <1>3, <1>6 DEF c
  <2> QED BY <1>1, <1>2, <1>6, <2>1, <2>2 DEF ThreadInv, At, StorePoints
<1>8. NamesInv' /\ Kept'
  BY <1>2, NamesSame, KeptSame, HeapSame DEF IInv
<1>9. ClusterInv'
  <2>1. \A d \in ClusterNames : netOfCluster'[d] = NoNet <=> members'[d] = {}
    BY <1>2, <1>4, <1>6 DEF IInv, ClusterInv
  <2>2. ASSUME NEW x \in esmes, x \notin todo'[a]
        PROVE  x \in members'[conf[x].cluster]
    <3>1. CASE x = o
      BY <1>4, <1>6, <3>1 DEF c
    <3>2. CASE x # o
      <4>1. x \in members[conf[x].cluster]
        BY <1>1, <1>6, <2>2, <3>2 DEF IInv, ClusterInv
      <4>2. conf[x].cluster \in ClusterNames
        BY Fields DEF IInv, TypeOK
      <4> QED BY <1>6, <4>1, <4>2
    <3> QED BY <3>1, <3>2
  <2>3. ASSUME stops = 0, NEW d \in ClusterNames, NEW x \in members'[d]
        PROVE  x \in esmes /\ conf[x].cluster = d /\ x \notin todo'[a]
    <3>1. CASE x \in members[d]
      BY <1>6, <2>3, <3>1 DEF IInv, ClusterInv
    <3>2. CASE x \notin members[d]
      BY <1>3, <1>6, <2>3, <3>2 DEF c
    <3> QED BY <3>1, <3>2
  <2> QED BY <1>1, <1>2, <2>1, <2>2, <2>3 DEF ClusterInv
<1>10. FileInv'
  BY <1>1, <1>2, <1>6, ImageSame DEF IInv, FileInv, StorePoints
<1>11. LifeInv'
  BY <1>1, <1>2, <1>3, <1>6 DEF IInv, LifeInv, At, StorePoints
<1> QED BY <1>7, <1>8, <1>9, <1>10, <1>11

LEMMA RegisterAllInv ==
    ASSUME IInv, NEW a \in Admins, RegisterAll(a)
    PROVE  /\ ThreadInv' /\ NamesInv' /\ ClusterInv' /\ FileInv' /\ Kept' /\ LifeInv'
<1> DEFINE Same == UNCHANGED <<life, conf, esmes, netOfCluster, members, disk, file,
                               then, arg, found, todo, snap, mixed, wanted, stops>>
<1>1. \A b \in Admins : b = a
  BY DEF IInv, OneAdmin
<1>2. /\ pc[a] = "populating" /\ todo[a] = {} /\ pc' = [pc EXCEPT ![a] = "idle"]
      /\ Same
  BY DEF RegisterAll, heap, xml, history
<1>3. pc'[a] = "idle" /\ then[a] = "idle"
  BY <1>2 DEF IInv, TypeOK, ArgOK, StorePoints
<1>4. ThreadInv'
  BY <1>1, <1>2, <1>3 DEF IInv, ThreadInv, At, StorePoints
<1>5. NamesInv' /\ ClusterInv' /\ Kept'
  BY <1>2, NamesSame, ClusterSame, KeptSame, HeapSame DEF IInv
<1>6. FileInv'
  BY <1>1, <1>2, <1>3, ImageSame DEF IInv, FileInv, StorePoints
<1>7. LifeInv'
  BY <1>1, <1>2, <1>3 DEF IInv, LifeInv, At, StorePoints
<1> QED BY <1>4, <1>5, <1>6, <1>7

LEMMA StopInv ==
    ASSUME IInv, NEW a \in Admins, StopManagement(a)
    PROVE  /\ ThreadInv' /\ NamesInv' /\ ClusterInv' /\ FileInv' /\ Kept' /\ LifeInv'
<1> DEFINE Same == UNCHANGED <<life, conf, esmes, netOfCluster, members, disk, file,
                               arg, found, todo, snap, mixed, wanted>>
<1>1. \A b \in Admins : b = a
  BY DEF IInv, OneAdmin
<1>2. pc[a] = "idle" /\ life = "running" /\ stops' = stops + 1 /\ Same
  BY DEF StopManagement, heap, xml
<1>3. pc'[a] = "store" /\ then'[a] = "unregisterAll" /\ todo[a] = {}
  BY <1>2 DEF StopManagement, GoStore, IInv, TypeOK, ThreadInv, At, StorePoints
<1>4. stops' # 0
  BY <1>2, RegistryAssumption DEF IInv, TypeOK
<1>5. ThreadInv'
  BY <1>1, <1>2, <1>3 DEF IInv, ThreadInv, At, StorePoints
<1>6. NamesInv' /\ Kept'
  BY <1>2, NamesSame, KeptSame, HeapSame DEF IInv
<1>7. ClusterInv'
  BY <1>2, <1>4 DEF IInv, ClusterInv
<1>8. FileInv'
  BY <1>1, <1>2, <1>3 DEF FileInv, StorePoints
<1>9. LifeInv'
  BY <1>1, <1>2, <1>3, <1>4 DEF LifeInv
<1> QED BY <1>5, <1>6, <1>7, <1>8, <1>9

LEMMA UnregisterAllInv ==
    ASSUME IInv, NEW a \in Admins, UnregisterAll(a)
    PROVE  /\ ThreadInv' /\ NamesInv' /\ ClusterInv' /\ FileInv' /\ Kept' /\ LifeInv'
<1> DEFINE Same == UNCHANGED <<conf, esmes, netOfCluster, members, disk, file, then,
                               arg, found, todo, snap, mixed, wanted, stops>>
<1>1. \A b \in Admins : b = a
  BY DEF IInv, OneAdmin
<1>2. /\ pc[a] = "unregisterAll" /\ pc' = [pc EXCEPT ![a] = "idle"]
      /\ life' = "stopped" /\ Same
  BY DEF UnregisterAll, heap, xml, history
<1>3. pc'[a] = "idle" /\ then[a] = "idle" /\ life # "down" /\ stops # 0 /\ todo[a] = {}
  BY <1>2 DEF IInv, TypeOK, ArgOK, ThreadInv, LifeInv, At, StorePoints
<1>4. ThreadInv'
  BY <1>1, <1>2, <1>3 DEF IInv, ThreadInv, At, StorePoints
<1>5. NamesInv' /\ ClusterInv'
  BY <1>2, NamesSame, ClusterSame, HeapSame DEF IInv
<1>6. Kept'
  BY <1>2, <1>3 DEF IInv, Kept
<1>7. FileInv'
  BY <1>1, <1>2, <1>3, ImageSame DEF IInv, FileInv, StorePoints
<1>8. LifeInv'
  BY <1>1, <1>2, <1>3 DEF LifeInv, At, StorePoints
<1> QED BY <1>4, <1>5, <1>6, <1>7, <1>8

\* The end of the JVM: what it has written may be in the file.
LEMMA CrashInv ==
    ASSUME IInv, Crash
    PROVE  /\ ThreadInv' /\ NamesInv' /\ ClusterInv' /\ FileInv' /\ Kept' /\ LifeInv'
<1>1. \A a \in Admins : pc'[a] = "idle" /\ todo'[a] = {} /\ found'[a] = "absent"
  BY DEF Crash
<1>2. life' = "down" /\ esmes' = {} /\ mixed' = {} /\ stops' = 0 /\ wanted' = wanted
  BY DEF Crash
<1>3. \A c \in ClusterNames : members'[c] = {} /\ netOfCluster'[c] = NoNet
  BY DEF Crash
<1>4. ThreadInv'
  BY <1>1, <1>2 DEF ThreadInv, At, StorePoints
<1>5. \/ UNCHANGED <<disk, file>>
      \/ /\ disk' = "good" /\ file' = Image
         /\ \A o, x \in esmes : conf[o].name = conf[x].name => o = x
         /\ life # "down"
  BY DEF Crash, xml, IInv, FileInv, NamesInv
<1>6. NamesInv'
  BY <1>2, <1>5 DEF IInv, NamesInv, Image
<1>7. ClusterInv'
  BY <1>2, <1>3 DEF ClusterInv
<1>8. FileInv'
  BY <1>1, <1>2 DEF FileInv, StorePoints
<1>9. Kept'
  <2>1. {r.name : r \in Image} = {conf[o].name : o \in esmes}
    BY DEF Image
  <2> QED BY <1>2, <1>5, <2>1 DEF IInv, Kept
<1>10. LifeInv'
  BY <1>1, <1>2, <1>3 DEF LifeInv, At, StorePoints
<1> QED BY <1>4, <1>6, <1>7, <1>8, <1>9, <1>10

LEMMA InvInit == OneAdmin /\ Init => IInv
<1> SUFFICES ASSUME OneAdmin, Init PROVE IInv
  OBVIOUS
<1>1. TypeOK /\ ArgOK
  BY TypeInit
<1>2. ThreadInv /\ NamesInv /\ ClusterInv /\ FileInv /\ Kept /\ LifeInv
  BY DEF Init, ThreadInv, NamesInv, ClusterInv, FileInv, Kept, LifeInv, At, StorePoints
<1> QED BY <1>1, <1>2 DEF IInv

LEMMA InvStep ==
    ASSUME IInv, [Next]_vars
    PROVE  IInv'
<1>1. TypeOK' /\ ArgOK' /\ OneAdmin'
  BY TypeStep DEF IInv, OneAdmin
<1> DEFINE Rest == ThreadInv /\ NamesInv /\ ClusterInv /\ FileInv /\ Kept /\ LifeInv
<1>2. ASSUME Crash
      PROVE  Rest'
  BY <1>2, CrashInv
<1>3. ASSUME NEW a \in Admins, Command(a)
      PROVE  Rest'
  BY <1>3, CreateInv, DestroyInv, StartedInv, ModifyInv, LoadFileInv,
     LoadNothingInv, StopInv DEF Command, StartEsme, StopEsme
<1>4. ASSUME NEW a \in Admins, Step(a)
      PROVE  Rest'
  BY <1>4, OpenInv, WriteInv, CloseInv, AddInv, RegisterInv, RemoveInv,
     UnregisterInv, NetworkInv, ModifyInv, PopulateInv, JoinInv, RegisterAllInv,
     UnregisterAllInv DEF Step
<1>5. ASSUME UNCHANGED vars
      PROVE  Rest'
  <2>1. NamesInv' /\ ClusterInv' /\ Kept'
    BY <1>5, NamesSame, ClusterSame, KeptSame, HeapSame
    DEF vars, heap, xml, threads, history, IInv
  <2>2. ThreadInv' /\ LifeInv'
    BY <1>5 DEF vars, heap, threads, history, IInv, ThreadInv, LifeInv, At
  <2>3. FileInv'
    BY <1>5, ImageSame DEF vars, heap, xml, threads, IInv, FileInv
  <2> QED BY <2>1, <2>2, <2>3
<1> QED BY <1>1, <1>2, <1>3, <1>4, <1>5 DEF Next, IInv

THEOREM Invariance == OneAdmin /\ Spec => []IInv
<1>1. IInv /\ [Next]_vars => IInv'
  BY InvStep
<1> QED BY InvInit, <1>1, PTL DEF Spec

\* For one administrator: whenever no command is under way, every ESME of the
\* list is in the cluster of its name, even after the management was stopped and
\* started.
THEOREM AlwaysReachable == OneAdmin /\ Spec => []Reachable
<1>1. IInv => Reachable
  BY DEF IInv, ThreadInv, ClusterInv, Reachable, Quiet, At, StorePoints
<1> QED BY Invariance, <1>1, PTL

\* For one administrator: as long as the management has not been stopped, each
\* cluster has exactly the ESMEs of the list that name it.
THEOREM AlwaysGrouped == OneAdmin /\ Spec => []Grouped
<1>1. IInv => Grouped
  <2> SUFFICES ASSUME IInv, Quiet, stops = 0, NEW c \in ClusterNames
               PROVE  /\ members[c] = {o \in esmes : conf[o].cluster = c}
                      /\ netOfCluster[c] = NoNet <=> members[c] = {}
    BY DEF Grouped
  <2>1. \A a \in Admins : todo[a] = {}
    BY DEF IInv, ThreadInv, Quiet, At, StorePoints
  <2> QED BY <2>1 DEF IInv, ClusterInv
<1> QED BY Invariance, <1>1, PTL

\* For one administrator: between commands the file holds what the list does.
THEOREM AlwaysPersisted == OneAdmin /\ Spec => []Persisted
<1>1. IInv => Persisted
  BY DEF IInv, OneAdmin, FileInv, Persisted, Quiet, StorePoints
<1> QED BY Invariance, <1>1, PTL

\* For one administrator: an ESME that was created stays in the list, and in a
\* file that can be read, until it is destroyed, wherever the JVM ends.
THEOREM AlwaysKept == OneAdmin /\ Spec => []Kept
<1>1. IInv => Kept
  BY DEF IInv
<1> QED BY Invariance, <1>1, PTL

\* For one administrator: load() leaves the ESMEs of a cluster with one network id.
THEOREM AlwaysOneNetwork == OneAdmin /\ Spec => []OneNetwork
<1>1. IInv => OneNetwork
  BY DEF IInv, ThreadInv, OneNetwork, At
<1> QED BY Invariance, <1>1, PTL

-----------------------------------------------------------------------------
(***************************************************************************)
(* The MBeans, for one administrator.                                      *)
(***************************************************************************)
Loading == \E a \in Admins : At(a, "populating") \/ At(a, "joining")

\* Until the management is stopped, what is registered for a name is the ESME of
\* that name, except between a change of the list and that of the MBeans.
ManagedInv == stops = 0 =>
    /\ life = "down" \/ Loading => \A n \in Names : mbeans[n] = NoEsme
    /\ life # "down" /\ ~ Loading => \A o \in esmes :
          \/ mbeans[conf[o].name] = o
          \/ mbeans[conf[o].name] = NoEsme /\ \E a \in Admins :
                At(a, "register") /\ arg[a] = o
    /\ \A n \in Names : mbeans[n] # NoEsme =>
          \/ \E o \in esmes : conf[o].name = n
          \/ \E a \in Admins : At(a, "unregister") /\ conf[arg[a]].name = n
    /\ \A a \in Admins : At(a, "unregister") =>
          \A o \in esmes : conf[o].name # conf[arg[a]].name

\* A step that keeps the list and the MBeans, and leaves its administrator
\* where it was with respect to them.
LEMMA ManagedSame ==
    ASSUME IInv, ManagedInv, NEW a \in Admins, SameIdentity,
           UNCHANGED <<life, esmes, mbeans, stops>>,
           At(a, "populating")' \/ At(a, "joining")'
               <=> At(a, "populating") \/ At(a, "joining"),
           At(a, "register")' <=> At(a, "register"),
           At(a, "unregister")' <=> At(a, "unregister"),
           At(a, "register") \/ At(a, "unregister") => arg'[a] = arg[a],
           At(a, "unregister") => conf'[arg[a]].name = conf[arg[a]].name
    PROVE  ManagedInv'
<1>1. \A b \in Admins : b = a
  BY DEF IInv, OneAdmin
<1>2. Loading' <=> Loading
  BY <1>1 DEF Loading
<1>3. (life = "down" \/ Loading) /\ stops = 0 => \A n \in Names : mbeans[n] = NoEsme
  BY DEF ManagedInv
<1>4. ASSUME stops = 0, life # "down" /\ ~ Loading, NEW o \in esmes
      PROVE  \/ mbeans'[conf'[o].name] = o
             \/ mbeans'[conf'[o].name] = NoEsme /\ \E b \in Admins :
                    At(b, "register")' /\ arg'[b] = o
  BY <1>1, <1>4 DEF ManagedInv, SameIdentity
<1>5. ASSUME stops = 0, NEW n \in Names, mbeans[n] # NoEsme
      PROVE  \/ \E o \in esmes' : conf'[o].name = n
             \/ \E b \in Admins : At(b, "unregister")' /\ conf'[arg'[b]].name = n
  BY <1>1, <1>5 DEF ManagedInv, SameIdentity
<1>6. ASSUME stops = 0, NEW b \in Admins, At(b, "unregister")', NEW o \in esmes
      PROVE  conf'[o].name # conf'[arg'[b]].name
  BY <1>1, <1>6 DEF ManagedInv, SameIdentity
<1> QED BY <1>2, <1>3, <1>4, <1>5, <1>6 DEF ManagedInv

LEMMA ManagedStore ==
    ASSUME IInv, ManagedInv, NEW a \in Admins,
           OpenStore(a) \/ WriteStore(a) \/ CloseStore(a)
    PROVE  ManagedInv'
<1>1. /\ UNCHANGED <<life, conf, esmes, mbeans, stops>>
      /\ pc[a] \in StorePoints /\ (then[a] # "idle" => arg' = arg)
  BY DEF OpenStore, WriteStore, CloseStore, heap, history, StorePoints
<1>2. \/ pc'[a] \in StorePoints /\ then'[a] = then[a]
      \/ pc'[a] = then[a] /\ then[a] \notin StorePoints
  BY DEF OpenStore, WriteStore, CloseStore, StorePoints, IInv, TypeOK, ArgOK
<1> QED BY <1>1, <1>2, HeapSame, ManagedSame DEF At, StorePoints

LEMMA ManagedElsewhere ==
    ASSUME IInv, ManagedInv, NEW a \in Admins, SameIdentity,
           UNCHANGED <<life, esmes, mbeans, stops>>,
           ~ (At(a, "populating") \/ At(a, "joining") \/ At(a, "register")
                \/ At(a, "unregister")),
           ~ (At(a, "populating")' \/ At(a, "joining")' \/ At(a, "register")'
                \/ At(a, "unregister")')
    PROVE  ManagedInv'
BY ManagedSame

LEMMA ManagedCommand ==
    ASSUME IInv, ManagedInv, NEW a \in Admins, IInv',
           \/ \E o \in Esmes, n \in Names, c \in ClusterNames, w \in Nets :
                 CreateEsme(a, o, n, c, w)
           \/ \E o \in esmes : DestroyEsme(a, o) \/ ModifyEsme(a, o)
           \/ \E o \in esmes, b \in BOOLEAN : SetStarted(a, o, b)
           \/ \E w \in Nets : SetNetworkId(a, w)
           \/ EndModify(a)
    PROVE  ManagedInv'
<1>1. pc[a] \in {"idle", "modifying"} /\ UNCHANGED <<life, esmes, mbeans, stops>>
  BY DEF CreateEsme, DestroyEsme, ModifyEsme, SetStarted, SetNetworkId, EndModify,
         heap, history
<1>2. \/ pc'[a] \in {"creating", "destroying", "modifying", "idle"}
      \/ pc'[a] = "store" /\ then'[a] \in {"idle", "modifying"}
  BY DEF CreateEsme, DestroyEsme, ModifyEsme, SetStarted, SetNetworkId, EndModify,
         GoStore, IInv, TypeOK
<1>3. SameIdentity
  <2>1. ASSUME NEW o \in Esmes, NEW n \in Names, NEW c \in ClusterNames, NEW w \in Nets,
               CreateEsme(a, o, n, c, w)
        PROVE  SameIdentity
    <3>1. \A x \in Objects : conf'[x] = conf[x]
      BY <2>1 DEF CreateEsme, IInv, TypeOK, Objects
    <3> QED BY <3>1 DEF SameIdentity, IInv, TypeOK
  <2>2. ASSUME NEW o \in esmes, DestroyEsme(a, o) \/ ModifyEsme(a, o)
        PROVE  SameIdentity
    BY <2>2, HeapSame DEF DestroyEsme, ModifyEsme, heap
  <2>3. ASSUME NEW o \in Objects, NEW r \in Config,
               r.name = conf[o].name, r.cluster = conf[o].cluster,
               conf' = [conf EXCEPT ![o] = r]
        PROVE  SameIdentity
    <3>1. conf'[o] = r /\ \A x \in Objects \ {o} : conf'[x] = conf[x]
      BY <2>3, SameObjects DEF IInv
    <3> QED BY <2>3, <3>1 DEF SameIdentity, IInv, TypeOK
  <2>4. ASSUME NEW o \in esmes, NEW b \in BOOLEAN, SetStarted(a, o, b)
        PROVE  SameIdentity
    <3>1. o \in Objects /\ conf[o] \in Config
      BY Fields DEF IInv, TypeOK
    <3>2. conf' = [conf EXCEPT ![o] = [conf[o] EXCEPT !.started = b]]
      BY <2>4 DEF SetStarted
    <3> QED BY <2>3, <3>1, <3>2, WithStarted
  <2>5. ASSUME NEW w \in Nets, SetNetworkId(a, w)
        PROVE  SameIdentity
    <3>1. arg[a] \in Objects
      BY <2>5, HeldArg DEF IInv, SetNetworkId, Holding
    <3>2. conf[arg[a]] \in Config
      BY <3>1, Fields DEF IInv
    <3>3. conf' = [conf EXCEPT ![arg[a]] = [conf[arg[a]] EXCEPT !.net = w]]
      BY <2>5 DEF SetNetworkId
    <3> QED BY <2>3, <3>1, <3>2, <3>3, WithNet
  <2>6. ASSUME EndModify(a)
        PROVE  SameIdentity
    BY <2>6, HeapSame DEF EndModify, heap
  <2> QED BY <2>1, <2>2, <2>4, <2>5, <2>6
<1> QED BY <1>1, <1>2, <1>3, ManagedElsewhere DEF At, StorePoints

LEMMA ManagedAdd ==
    ASSUME IInv, ManagedInv, NEW a \in Admins, AddEsme(a)
    PROVE  ManagedInv'
<1> DEFINE o == arg[a]
<1>1. \A b \in Admins : b = a
  BY DEF IInv, OneAdmin
<1>2. /\ pc[a] = "creating" /\ esmes' = esmes \cup {o} /\ arg' = arg
      /\ UNCHANGED <<life, conf, mbeans, stops>>
  BY DEF AddEsme, history
<1>3. pc'[a] = "store" /\ then'[a] = "register"
  BY DEF AddEsme, GoStore, IInv, TypeOK
<1>4. conf[o].name \in Names /\ \A x \in esmes : conf[x].name # conf[o].name
  BY <1>2, HeldArg, Fields DEF IInv, ThreadInv, Holding
<1>5. ~ At(a, "unregister") /\ ~ At(a, "register") /\ ~ Loading
  BY <1>1, <1>2 DEF At, StorePoints, Loading
<1>6. At(a, "register")' /\ ~ At(a, "unregister")' /\ ~ Loading'
  BY <1>1, <1>3 DEF At, StorePoints, Loading
<1>7. life # "down"
  BY <1>2 DEF IInv, LifeInv
<1> HIDE DEF o
<1>8. stops = 0 => mbeans[conf[o].name] = NoEsme
  BY <1>1, <1>4, <1>5 DEF ManagedInv
<1>9. stops = 0 => \A x \in esmes : mbeans[conf[x].name] = x
  BY <1>1, <1>5, <1>7 DEF ManagedInv
<1>10. ASSUME stops = 0, NEW n \in Names, mbeans[n] # NoEsme
       PROVE  \E x \in esmes' : conf'[x].name = n
  BY <1>1, <1>2, <1>5, <1>10 DEF ManagedInv
<1>11. ASSUME stops = 0, NEW x \in esmes'
       PROVE  \/ mbeans'[conf'[x].name] = x
              \/ mbeans'[conf'[x].name] = NoEsme /\ At(a, "register")' /\ arg'[a] = x
  BY <1>2, <1>6, <1>8, <1>9, <1>11 DEF o
<1> QED BY <1>1, <1>2, <1>6, <1>7, <1>10, <1>11 DEF ManagedInv

LEMMA ManagedRegister ==
    ASSUME IInv, ManagedInv, NEW a \in Admins, Register(a)
    PROVE  ManagedInv'
<1> DEFINE o == arg[a]
           n == conf[o].name
<1>1. \A b \in Admins : b = a
  BY DEF IInv, OneAdmin
<1>2. /\ pc[a] = "register" /\ mbeans' = [mbeans EXCEPT ![n] = IF @ = NoEsme THEN o ELSE @]
      /\ UNCHANGED <<life, conf, esmes, stops>>
  BY DEF Register, heap
<1>3. pc'[a] = "idle"
  BY DEF Register, IInv, TypeOK
<1>4. o \in esmes /\ n \in Names
  BY <1>2, Fields DEF IInv, TypeOK, ThreadInv, At
<1>5. ~ At(a, "unregister") /\ ~ Loading /\ life # "down"
  BY <1>1, <1>2 DEF At, StorePoints, Loading, IInv, LifeInv
<1>6. ~ At(a, "unregister")' /\ ~ At(a, "register")' /\ ~ Loading'
  BY <1>1, <1>3 DEF At, StorePoints, Loading
<1> HIDE DEF n, o
<1>7. \A m \in Names : mbeans'[m] = IF m = n /\ mbeans[n] = NoEsme THEN o ELSE mbeans[m]
  BY <1>2, <1>4 DEF IInv, TypeOK
<1>8. ASSUME stops = 0, NEW x \in esmes
      PROVE  mbeans'[conf[x].name] = x
  <2>1. \/ mbeans[conf[x].name] = x
        \/ mbeans[conf[x].name] = NoEsme /\ x = o
    BY <1>1, <1>5, <1>8 DEF ManagedInv, o
  <2>2. x # NoEsme /\ conf[x].name \in Names
    BY Fields, RegistryAssumption DEF IInv, TypeOK
  <2> QED BY <1>7, <2>1, <2>2 DEF n
<1>9. ASSUME stops = 0, NEW m \in Names, mbeans'[m] # NoEsme
      PROVE  \E x \in esmes' : conf'[x].name = m
  BY <1>1, <1>2, <1>4, <1>5, <1>7, <1>9 DEF ManagedInv, n
<1> QED BY <1>1, <1>2, <1>5, <1>6, <1>8, <1>9 DEF ManagedInv

LEMMA ManagedRemove ==
    ASSUME IInv, ManagedInv, NEW a \in Admins, RemoveEsme(a)
    PROVE  ManagedInv'
<1> DEFINE o == arg[a]
           c == conf[o].cluster
<1>1. \A b \in Admins : b = a
  BY DEF IInv, OneAdmin
<1>2. /\ pc[a] = "destroying" /\ esmes' \in Removals(esmes, o)
      /\ UNCHANGED <<life, conf, mbeans, stops>>
  BY DEF RemoveEsme, history
<1>3. o \in esmes /\ todo[a] = {}
  BY <1>2 DEF IInv, ThreadInv, At, StorePoints
<1>4. c \in ClusterNames
  BY <1>3, Fields DEF IInv, TypeOK
<1>5. netOfCluster[c] # NoNet
  BY <1>1, <1>3, <1>4 DEF IInv, ClusterInv
<1>6. GoStore(a, "unregister") /\ arg' = arg
  BY <1>5 DEF RemoveEsme
<1>7. pc'[a] = "store" /\ then'[a] = "unregister"
  BY <1>6 DEF GoStore, IInv, TypeOK
<1>8. \A x \in esmes : conf[x].name = conf[o].name => x = o
  BY <1>3 DEF IInv, NamesInv
<1>9. esmes' = esmes \ {o}
  BY <1>2, <1>3, <1>8, RemovesOne
<1>10. ~ At(a, "unregister") /\ ~ At(a, "register") /\ ~ Loading /\ life # "down"
  BY <1>1, <1>2 DEF At, StorePoints, Loading, IInv, LifeInv
<1>11. At(a, "unregister")' /\ ~ At(a, "register")' /\ ~ Loading'
  BY <1>1, <1>7 DEF At, StorePoints, Loading
<1> HIDE DEF o
<1>12. ASSUME stops = 0, NEW x \in esmes'
       PROVE  mbeans'[conf'[x].name] = x
  BY <1>1, <1>2, <1>9, <1>10, <1>12 DEF ManagedInv
<1>13. ASSUME stops = 0, NEW n \in Names, mbeans[n] # NoEsme
       PROVE  (\E x \in esmes' : conf'[x].name = n) \/ conf'[arg'[a]].name = n
  BY <1>1, <1>2, <1>6, <1>9, <1>10, <1>13 DEF ManagedInv, o
<1>14. \A x \in esmes' : conf'[x].name # conf'[arg'[a]].name
  BY <1>2, <1>6, <1>8, <1>9 DEF o
<1> QED BY <1>1, <1>2, <1>10, <1>11, <1>12, <1>13, <1>14 DEF ManagedInv

LEMMA ManagedUnregister ==
    ASSUME IInv, ManagedInv, NEW a \in Admins, Unregister(a)
    PROVE  ManagedInv'
<1> DEFINE n == conf[arg[a]].name
<1>1. \A b \in Admins : b = a
  BY DEF IInv, OneAdmin
<1>2. /\ pc[a] = "unregister" /\ mbeans' = [mbeans EXCEPT ![n] = NoEsme]
      /\ UNCHANGED <<life, esmes, stops>>
  BY DEF Unregister, history
<1>3. pc'[a] = "idle"
  BY DEF Unregister, IInv, TypeOK
<1>4. n \in Names
  BY <1>2, HeldArg, Fields DEF IInv, Holding
<1>5. At(a, "unregister") /\ ~ At(a, "register") /\ ~ Loading /\ life # "down"
  BY <1>1, <1>2 DEF At, StorePoints, Loading, IInv, LifeInv
<1>6. ~ At(a, "unregister")' /\ ~ At(a, "register")' /\ ~ Loading'
  BY <1>1, <1>3 DEF At, StorePoints, Loading
<1>7. \A x \in esmes : conf'[x] = conf[x] /\ conf[x].name \in Names
  BY Fields DEF Unregister, IInv, TypeOK, InUse, Objects
<1> HIDE DEF n
<1>8. \A m \in Names : mbeans'[m] = IF m = n THEN NoEsme ELSE mbeans[m]
  BY <1>2, <1>4 DEF IInv, TypeOK
<1>9. stops = 0 => \A x \in esmes : conf[x].name # n /\ mbeans[conf[x].name] = x
  BY <1>1, <1>5 DEF ManagedInv, n
<1>10. ASSUME stops = 0, NEW m \in Names, mbeans'[m] # NoEsme
       PROVE  \E x \in esmes' : conf'[x].name = m
  <2>1. m # n /\ mbeans[m] # NoEsme
    BY <1>8, <1>10
  <2>2. \E x \in esmes : conf[x].name = m
    BY <1>1, <1>10, <2>1 DEF ManagedInv, n
  <2> QED BY <1>2, <1>7, <2>2
<1>11. ASSUME stops = 0, NEW x \in esmes'
       PROVE  mbeans'[conf'[x].name] = x
  BY <1>2, <1>7, <1>8, <1>9, <1>11
<1> QED BY <1>1, <1>2, <1>5, <1>6, <1>10, <1>11 DEF ManagedInv

\* load() starts with no MBean, unless the management was stopped before.
LEMMA ManagedLoad ==
    ASSUME IInv, ManagedInv, NEW a \in Admins, LoadFile(a) \/ LoadNothing(a)
    PROVE  ManagedInv'
<1>1. \A b \in Admins : b = a
  BY DEF IInv, OneAdmin
<1>2. life \in {"down", "stopped"} /\ UNCHANGED <<mbeans, stops>> /\ life' = "running"
  BY DEF LoadFile, LoadNothing, history
<1>3. pc'[a] = "populating"
  BY DEF LoadFile, LoadNothing, IInv, TypeOK
<1>4. Loading' /\ ~ At(a, "unregister")'
  BY <1>3 DEF Loading, At, StorePoints
<1>5. stops = 0 => \A n \in Names : mbeans[n] = NoEsme
  BY <1>2 DEF IInv, LifeInv, ManagedInv
<1> QED BY <1>1, <1>2, <1>4, <1>5 DEF ManagedInv

LEMMA ManagedPopulate ==
    ASSUME IInv, ManagedInv, NEW a \in Admins,
           (\E o \in todo[a] : Populate(a, o)) \/ Join(a)
    PROVE  ManagedInv'
<1>1. \A b \in Admins : b = a
  BY DEF IInv, OneAdmin
<1>2. pc[a] \in {"populating", "joining"} /\ UNCHANGED <<life, esmes, mbeans, stops>>
  BY DEF Populate, Join, history
<1>3. pc'[a] = "populating" \/ (pc'[a] = "store" /\ then'[a] = "joining")
  BY DEF Populate, Join, GoStore, IInv, TypeOK
<1>4. Loading /\ Loading' /\ ~ At(a, "unregister")'
  BY <1>2, <1>3 DEF Loading, At, StorePoints
<1> QED BY <1>1, <1>2, <1>4 DEF ManagedInv

LEMMA ManagedRegisterAll ==
    ASSUME IInv, ManagedInv, NEW a \in Admins, RegisterAll(a)
    PROVE  ManagedInv'
<1>1. \A b \in Admins : b = a
  BY DEF IInv, OneAdmin
<1>2. /\ pc[a] = "populating" /\ UNCHANGED <<life, conf, esmes, stops>>
      /\ \A n \in Names : mbeans'[n] \in
            IF mbeans[n] # NoEsme THEN {mbeans[n]}
            ELSE IF Named(n) = {} THEN {NoEsme} ELSE Named(n)
  BY DEF RegisterAll, heap, history
<1>3. pc'[a] = "idle"
  BY DEF RegisterAll, IInv, TypeOK
<1>4. Loading /\ life # "down"
  BY <1>2 DEF Loading, At, IInv, LifeInv
<1>5. ~ At(a, "unregister")' /\ ~ At(a, "register")' /\ ~ Loading'
  BY <1>1, <1>3 DEF At, StorePoints, Loading
<1>6. stops = 0 => \A n \in Names : mbeans[n] = NoEsme
  BY <1>4 DEF ManagedInv
<1>7. ASSUME stops = 0, NEW x \in esmes
      PROVE  mbeans'[conf[x].name] = x
  <2>1. conf[x].name \in Names /\ Named(conf[x].name) = {x}
    BY Fields DEF IInv, TypeOK, NamesInv, Named
  <2> QED BY <1>2, <1>6, <1>7, <2>1
<1>8. ASSUME stops = 0, NEW n \in Names, mbeans'[n] # NoEsme
      PROVE  \E x \in esmes : conf[x].name = n
  BY <1>2, <1>6, <1>8 DEF Named
<1> QED BY <1>1, <1>2, <1>4, <1>5, <1>7, <1>8 DEF ManagedInv

LEMMA ManagedStep ==
    ASSUME IInv, ManagedInv, IInv', [Next]_vars
    PROVE  ManagedInv'
<1>1. CASE Crash
  <2>1. \A a \in Admins : pc'[a] = "idle"
    BY <1>1 DEF Crash
  <2>2. life' = "down" /\ \A n \in Names : mbeans'[n] = NoEsme
    BY <1>1 DEF Crash
  <2> QED BY <2>1, <2>2 DEF ManagedInv, At, StorePoints
<1>2. ASSUME NEW a \in Admins, StopManagement(a) \/ UnregisterAll(a)
      PROVE  ManagedInv'
  <2>1. stops' # 0
    BY <1>2, RegistryAssumption
    DEF StopManagement, UnregisterAll, history, IInv, TypeOK, LifeInv, At
  <2> QED BY <2>1 DEF ManagedInv
<1>3. ASSUME NEW a \in Admins, Command(a)
      PROVE  ManagedInv'
  BY <1>2, <1>3, ManagedCommand, ManagedLoad DEF Command, StartEsme, StopEsme
<1>4. ASSUME NEW a \in Admins, Step(a)
      PROVE  ManagedInv'
  BY <1>2, <1>4, ManagedStore, ManagedAdd, ManagedRegister, ManagedRemove,
     ManagedUnregister, ManagedCommand, ManagedPopulate, ManagedRegisterAll DEF Step
<1>5. CASE UNCHANGED vars
  BY <1>5 DEF vars, heap, threads, history, ManagedInv, Loading, At
<1> QED BY <1>1, <1>3, <1>4, <1>5 DEF Next

\* For one administrator: until the management is stopped, every ESME of the
\* list, and no other, is registered under its name between commands.
THEOREM AlwaysManaged == OneAdmin /\ Spec => []Managed
<1>1. OneAdmin /\ Init => ManagedInv
  BY DEF Init, ManagedInv, At, StorePoints
<1>2. IInv /\ ManagedInv /\ [Next]_vars /\ IInv' => ManagedInv'
  BY ManagedStep
<1>3. IInv /\ ManagedInv => Managed
  <2> SUFFICES ASSUME IInv, ManagedInv, Quiet, stops = 0, NEW n \in Names
               PROVE  IF Named(n) = {} THEN mbeans[n] = NoEsme
                      ELSE Named(n) = {mbeans[n]}
    BY DEF Managed
  <2>1. \A a \in Admins : ~ At(a, "register") /\ ~ At(a, "unregister")
    BY DEF Quiet, At, StorePoints
  <2>2. ~ Loading
    BY DEF Quiet, Loading, At, StorePoints
  <2>3. life = "down" => esmes = {}
    BY DEF IInv, LifeInv
  <2>4. CASE Named(n) = {}
    BY <2>1, <2>4 DEF ManagedInv, Named
  <2>5. ASSUME NEW o \in Named(n)
        PROVE  Named(n) = {mbeans[n]}
    <3>1. o \in esmes /\ conf[o].name = n
      BY DEF Named
    <3>2. mbeans[n] = o
      BY <2>1, <2>2, <2>3, <3>1 DEF ManagedInv
    <3>3. \A x \in Named(n) : x = o
      BY <3>1 DEF Named, IInv, NamesInv
    <3> QED BY <3>2, <3>3
  <2> QED BY <2>4, <2>5
<1> QED BY Invariance, <1>1, <1>2, <1>3, PTL DEF Spec

=============================================================================
