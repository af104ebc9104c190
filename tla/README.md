# TLA+ models of the RestComm SMPP extensions

The SMPP extensions let a platform talk to *ESMEs* over SMPP: it connects to
remote servers as a client and accepts binds as a server. An ESME is a
configured peer; a session is one connection to it. The interesting part of the
code is small and concurrent: two operations threads, the I/O threads of the
network library, JMX and command line administrators and a timer share a few
mutable `Esme` objects, mostly without locks.

Sources are in `src/core/smpp-extensions/src/main/java/org/restcomm/smpp/`
unless another directory is named.

## 1. Inventory

### 1.1 Components

| Component | State | Operations | Modelled in |
|---|---|---|---|
| Client operations thread, `SmppClientOpsThread` | `futureSet`, a queue of `ChangeRequest`s (CONNECT, ENQUIRE_LINK) with the time each is due | `run()` polls and executes what is due; `initiateConnection()` binds; `enquireLink()`; `scheduleConnect()` and `scheduleEnquireLink()`, called by anybody; the session's callbacks `fireChannelUnexpectedlyClosed`, `fireUnknownThrowable`, `fireUnrecoverablePduException` | `SmppClient` |
| Client management, `SmppClientManagement` | the bootstrap, the thread | start of all ESMEs, `startSmppClientSession`, `stopSmppClientSession` | `SmppClient` (partly) |
| Server handler, `DefaultSmppServerHandler` | `accessSemaphore` | `sessionBindRequested`, `sessionCreated`, `sessionDestroyed` | `SmppServer` |
| Server operations thread, `SmppServerOpsThread` | `esmesServer`: names of served ESMEs with the time of their next look | `run()`, `enquireLink()`, `serverLinkDown()`, `scheduleList()`, `removeEnquireList()` | `SmppServer`, `LinkDrop` |
| ESME management, `EsmeManagement` | `esmes` (list), `esmeClusters` (map), the MBeans, the timer | create, destroy, start, stop, `load()`, `store()`, start and stop of the management; searches; clearing of rate counters | `EsmeRegistry`; searches in `SmppServer`, closing of sessions in `SmppClient` and `SmppServer`, the timer in `RateLimit` |
| ESME, `Esme` | `started`, `localState`, `state`, `defaultSmppSession`, `serverBound`, `inConnectingQueue`, failure and rate counters, link flags | accessors used by the above, `onMessageReceived()`, `checkLinkRecvMessage()` | by part |
| ESME cluster, `EsmeCluster` | two lists and a round-robin `index` | `addEsme`, `removeEsme`, `getNextEsme` | `EsmeCluster` |
| Rate limiter (in `Esme`, timer in `EsmeManagement`) | eight `AtomicLong`s | `onMessageReceived`, `clearSecondMsgCounter` ... `clearDayMsgCounter` | `RateLimit` |
| SMPP and server management, `SmppManagement`, `SmppServerManagement` | settings, the network server | start, stop, settings, XML | the start and stop of the ESME management, in `EsmeRegistry` |
| Persistence (`store()`/`load()`) | an XML file | write in place after every change, read at start | `EsmeRegistry` |
| TLV parameters, `parameter/TlvSet` | a set of optional parameters | add, remove, find, XML | no |
| Command line, `oam/SmppShellExecutor`, `clismpp` | none | create, modify, delete, show, start, stop | the changes `modifyEsme` makes one by one, in `EsmeRegistry` |
| SSL settings, WildFly glue, web console, enumerations | configuration | accessors | no |
| Network library (cloudhopper-smpp, Netty) | session states, channels, windows, counters | bind, close, callbacks | external, from its use |

### 1.2 Interactions

* An administrator starts an ESME: `Esme.started` is set, the file stored, and a
  client ESME gets a CONNECT request. Stopping clears `started` and closes
  whichever session the `Esme` object refers to at that moment.
* The client operations thread is the only one that binds and that removes
  requests; every other thread adds requests. `inConnectingQueue` is the flag
  that keeps CONNECT requests single.
* A server bind goes through two callbacks, each under the semaphore. Between
  them the ESME is kept by `localState`. When the connection ends a third one
  looks the ESME up *by name* and frees it.
* The server operations thread reads the ESMEs that are due under the lock of its
  map and works on that list afterwards.
* The application asks a cluster for the next ESME to send by; ESMEs bind,
  unbind, come and go meanwhile.
* Every received message passes the rate limiter, whose counters a timer clears
  each second and every start of the ESME clears too.
* Create, destroy, start, stop and each parameter that is modified end in
  `store()`, which rewrites the file in place; `load()` reads it, puts the ESMEs
  in clusters, and stores again whenever one takes the network id of its cluster.

### 1.3 What is hard, and what must hold

| Component | Hard behaviour | What makes it correct |
|---|---|---|
| Client | callbacks of one session after, or before, another session is stored; a bind that blocks for seconds; starts and stops in between | one CONNECT per flag; one open session, never orphaned; bound sessions supervised; a started ESME always connected again |
| Server handler | binds competing for a pool of ESMEs; a session closed by one thread and freed by another | an ESME goes to one connection at a time; the `Esme` refers to the connection it is served on; free means bindable; freed at last |
| Server operations thread | a stale list of due ESMEs; one exception ends the pass for everyone | each served ESME is in the list, and enquired again and again |
| Cluster | an index that outlives the list it points into | an available ESME is found; everyone has a turn |
| Rate limiter | count, compare, take back, while the counters are cleared | counts are accounted for; the limit holds; one first fault per period |
| Silent connections | four remembered counts that outlive the session they were read from | dropped only if silent; dropped if silent for good |
| Registry, persistence | the JVM ends in the middle of writing; two administrators at a time; clusters kept over a stop and a start | the file holds what the list does; nothing but a torn file loses an ESME; list, clusters, network ids and MBeans agree |

`PROJECT.json` lists the hazards with the line each bites at and the properties
that cover it.

## 2. Plan

Modules in order of importance.

1. `SingleConnection` (abstract), `SmppClient`, `SmppClientProofs`,
   `SmppClientRefinement`: reconnection; `SmppClient` implements `SingleConnection`.
2. `ExclusiveBinding` (abstract), `SmppServer`, `SmppServerProofs`: binding and
   supervision on the server side; `SmppServer` implements `ExclusiveBinding`.
3. `EsmeCluster`, `EsmeClusterProofs`: load sharing.
4. `RateLimit`, `RateLimitProofs`: limits per second, minute, hour and day.
5. `LinkDrop`, `LinkDropProofs`: silent connections.
6. `DurableRegistry` (abstract), `EsmeRegistry`, `EsmeRegistryProofs`,
   `EsmeRegistryRefinement`: create, modify, start, stop, destroy, `load()` and
   `store()`, with the JVM ending anywhere; `EsmeRegistry` implements
   `DurableRegistry`.

Considered and left out: a composition of the registry with the handler's search,
whose one hard case, an ESME destroyed while a connection of it lives, is in
`SmppServer` already; `TlvSet` and the comparisons of thresholds, which are
sequential and within reach of unit tests.

Each module is parameterised by its sets of ESMEs, peers and sessions, has one
action per step another thread can come between, and states its invariants as
named parts, so that the proofs can cite them.

## 3. The modules and the code

### 3.1 SingleConnection and SmppClient

`SingleConnection` is the promise: at most one request to connect an ESME; a
connection opened only for a request, of an ESME seen started since the request was
taken, and only where there is none; one that is being opened left to the thread that
opens it; one that is refused requested again. `SmppClient` is the code.

One operations thread, `ops`, with a program counter that names the place in
`run()`, `initiateConnection()` or `enquireLink()`; one administrator per ESME,
`admin`; one I/O thread per session, `io`. A session object is a *slot*, taken
again once nothing refers to it.

| Code | Actions |
|---|---|
| `run()`, the loop over the queue | `PollConnectStopped`, `PollConnectLater`, `PollConnectDue`, `PollEnquireDropped`, `PollEnquireLater`, `PollEnquireDue`, `PollEmpty`, `DropConnect`, `DueConnect`, `Requeue`, `PendingDone` |
| `initiateConnection()` | `InitiateStopped`, `InitiateStarted`, `AlreadyBound`, `BindBegins`, `BindSucceeds`, `BindFails`, `SessionSet` |
| `enquireLink()` | `EnquireTaken`, `EnquireCheck`, `EnquireSucceeds`, `EnquireFails`, `EnquireNotBound` |
| `startEsme()`, `scheduleConnect()` | `StartEsme`, `StartCAS`, `StartOffer` |
| `stopEsme()`, `stopSmppClientSession()` | `StopEsme`, `StopSession` |
| the session's callbacks | `ChannelClosed`, `ChannelClosedReported`, `ExceptionCaught`, `UndecodablePdu`, `HandlerCloses`, `HandlerClosesUnchecked`, `HandlerCAS`, `HandlerOffer` |

Abstractions: the queue is a bag, because a request that is polled may be found
due or not, whatever its place. UNBINDING counts as CLOSED, as the code never
tells them apart. The read of the session, `unbind` and `close` in
`stopSmppClientSession` are one step; so are the operations thread's own
compare-and-set and offer, as nobody else removes requests. `started` and the
session reference are not volatile in the code; a write is taken to be visible
at once. `MaxEnquires` bounds the ENQUIRE_LINK chains: no fault happens while an
ESME has that many (this leaves two chains, the interesting case, reachable).

The refinement maps the requests of an ESME to the CONNECT requests that exist,
wherever they are (queued, put aside, in hand, about to be offered by a callback or
an administrator), and its connections to the sessions whose state is BINDING and
BOUND; the request that is taken and the ESME being connected are those the
operations thread has inside `initiateConnection()`, before and after it reads
`started`.

### 3.2 ExclusiveBinding and SmppServer

`ExclusiveBinding` is the promise: an ESME is given to a connection only while it
is started and nobody has it. `SmppServer` is the code. A connection's I/O thread
is `io`: connected, admitted by `sessionBindRequested()`, inside
`sessionCreated()` (three points: after the session is stored, ready, flagged),
serving, or inside `sessionDestroyed()` (three points: `serverBound`
reset, the failure counter reset, out of the list). `accessSemaphore` is held across
the steps of `sessionCreated()` and those of `sessionDestroyed()`; the operations
thread and administrators, which do not take it, come between them.
`Exact` and `Wild` say which ESMEs a peer finds by its host and port and which by
a wildcard: the search of `getEsmeByPrimaryKey()` takes an exact match whatever
its state, and a wildcard match only if `localState` is CLOSED.

| Code | Actions |
|---|---|
| `sessionBindRequested()` | `BindRejected`, `BindAccepted` |
| `sessionCreated()` | `SessionRefused`, `SetSmppSession`, `ServerReady`, `SetServerBound`, `ScheduleFirst` |
| `sessionDestroyed()` | `SessionDestroyed`, `ResetEnquireLinkFail`, `RemoveEnquireList`, `BackToClosed`, `SessionDestroyedThrows` |
| `run()` | `Scan`, `ScanThrows`, `PendingDone` |
| `enquireLink()` | `EnquireLink`, `EnquireAnswered`, `ScheduleNext`, `EnquireException`, `CheckFailed`, `CloseNotBound` |
| `startEsme()`, `stopEsme()`, `destroyEsme()` | `StartEsme`, `StopEsme`, `StopSession`, `DestroyEsme` |
| the network | `Connect`, `Disconnect` |

Abstractions: any ESME a search may stop at can come first in the list; password,
TON, NPI and address range are one check, which strangers fail; a destroyed ESME
is not created again; `MAX_ENQUIRE_FAILED` is 1, so the failure counter is a
boolean; a peer has one open connection at a time, as host and port identify it;
the library's `serverReady` makes the session bound whatever happened to its
channel; the callbacks of one connection run one after the other. In
`sessionDestroyed()`, the lookup and the first reset are one step, and so are the
marking of the ESME as free and the destruction of the session: whoever looks for a
free ESME waits for the semaphore until both are done.

The refinement maps `started` to itself and the holders of an ESME to the
connections `sessionBindRequested()` has let through for it and
`sessionDestroyed()` is not over for. It, and the invariants, are about
*pooled* ESMEs: matched by wildcards only and never destroyed. The others do not
keep the promise (section 7).

### 3.3 EsmeCluster

`getNextEsme()` holds the monitor of the cluster, so one caller at a time; its
loop is `Call`, `Loop`, `Advance`, `Found`, `NotFound`, `LookOutside` (the
`get()` that throws). `addEsme()` and `removeEsme()` lock the list instead and
interleave with every step (`AddEsme`, `RemoveEsme`), as do ESMEs that bind,
unbind or get overloaded (`Change`). One operation of the library's list is one
step. A cluster is dropped with its last ESME and created anew, with its index at
0. `steady`, `removed` and `turns` are history: they are read by the properties
only.

### 3.4 RateLimit

A step is one operation on one `AtomicLong`: `Receive`, `AddWithin`, `AddBeyond`,
`Undo`, `Fault` for a receiving thread; `Clear`, `ClearReceived`, `ClearExtra`
for the two threads that clear, in the order of the code (received counters
before extra, shorter periods before longer). The four copies of the code for
second, minute, hour and day are domains 1 to `Depth`. The end of a period is
"the timer clears some level"; limits are constant. `passed`, `late` and `firsts`
are history. A refused message stays counted in the shorter domains it passed
first, as in the code.

### 3.5 LinkDrop

`serverLinkDown()` on the successive connections of one ESME, beside the callbacks of
those connections (`handler`), an administrator who stops and starts the ESME
(`admin`) and a JMX client that resets counters (`jmx`). The four remembered counts
are `rx[k]` for the kinds `k`, of which `EnquireLink` is the one `resetCounters()`
knows.

| Code | Actions |
|---|---|
| `run()`, the list of what is due | `Due` |
| `serverLinkDown()` | `GetSmppSession`, `GetLinkStartFirstTime`, `First`, `Decide`, `Drop`, `ClearFlag` |
| `checkLinkRecvMessage()` | `Read`, `Compare`, `Remember` |
| `sessionCreated()` | `SessionCreated`, `ServerReady`, `SetLinkStartFirstTime` |
| `sessionDestroyed()` | `SessionDestroyed` |
| messages and the network | `Counted`, `OnMessageReceived`, `Disconnect` |
| `startEsme()`, `stopEsme()` | `StartEsme`; `StopEsme`, `ResetLinkRecvMessage`, `StopWrappedSession` |
| `resetCounters()`, `getRxEnquireLinkCounterAndReset()` and the others | `ResetCounters`, `ResetRemembered`; `CounterAndReset` |

A look can be pending, or anywhere on its way, while any other thread is anywhere on
its own. It may so run between the steps of `stopEsme()`, which forgets the
remembered counts, writes the file and only then closes the session, or between those
of `resetCounters()`, and take a silent connection for a talkative one; `SilentIsFound`
says how far that goes. It may also be pending while a new session is stored, and then
look at that one, and even drop it, before the first look that should only set its
period off; `SilentIfDropped` holds of such a look as of any other.

Abstractions. The reads of the four counts are one step, as are their comparisons,
the four assignments after these, and those of `resetLinkRecvMessage()`. A message, a reset
or a stop in the middle of one of them is modelled as before or after it. `session` stands for `serverBound` too: set once
`serverReady()` has been called, reset with the end of the connection.
`setLinkStartFirstTime(true)` and `scheduleList()` at the end of `sessionCreated()`
are one step, and so is `sessionDestroyed()`, whose steps are in `SmppServer`: the
thread looks at the ESME only if it finds it both in the list and bound. A period
begins when the next look is scheduled. The ESME's settings do not change;
`modifyEsme()` with `link-drop-server`, which makes the next look a first one
(`SmppShellExecutor.java:165`), is left out. `MaxCounter` bounds the messages of a
kind in a session, and those of any two kinds together.

`heard` (what had come in since the period began when the counters were last read),
`quiet` (how often they have been read since anything came in or anything remembered
was reset), `stale` (kinds whose remembered count does not belong to the counter it is
compared with) and `renewed` are history.

### 3.6 DurableRegistry and EsmeRegistry

`DurableRegistry` is the promise to whoever restarts the JVM: a command changes one
ESME at a time and ends with the list saved; saving tears up what was saved before;
the end of the JVM leaves what was saved, or, with a command under way, possibly the
list; a restart takes up what it finds. `EsmeRegistry` is the code.

Administrators `Admins` carry out commands; each has a program counter, the ESME it
works on (`arg`) and the place it goes on from after a store (`then`). `conf` is the
heap of `Esme` objects, `esmes` the list, `netOfCluster` and `members` the map of
clusters, `mbeans` what is registered under each name; `disk` and `file` are the XML
file, `life` the JVM and the management.

| Code | Actions |
|---|---|
| `store()` | `OpenStore` (truncates), `WriteStore`, `CloseStore` |
| `createEsme()` | `CreateEsme` (the checks and the new object), `AddEsme`, store, `Register` |
| `destroyEsme()` | `DestroyEsme` (the checks), `RemoveEsme`, store, `Unregister` |
| `startEsme()`, `stopEsme()` | `StartEsme`, `StopEsme`, store |
| `modifyEsme()` of the command line, `Esme.setNetworkId()` | `ModifyEsme`, any number of `SetNetworkId`, each with its store, `EndModify` |
| `EsmeManagement.start()`, `load()` | `LoadFile` or `LoadNothing`, `Populate` for each ESME, store and `Join` for those whose cluster is there, `RegisterAll` |
| `EsmeManagement.stop()` | `StopManagement`, store, `UnregisterAll` |
| the end of the JVM | `Crash`, at any point |

Abstractions. The order of the list is left open: it tells only which ESME of a
cluster is read first, or which of two of one name is found. Adding an ESME to the
list and entering it in its cluster are one step, as are looking a cluster up and
removing an ESME from it. Loaded ESMEs are new objects; an object nothing refers to
any more can be used again. A command that is refused changes nothing and is not a
step, and no command is given before the management has been started. An ESME is
created with a cluster name: a null one, which only a JMX caller could give, is looked
up in the library's map before it is replaced by the name of the ESME. The renaming of
a file of the old name, before `load()` reads, is left out: from `LoadFile` on, the
file is the one `store()` writes. The network id
stands for the parameters of `modifyEsme()`, as the only one clusters know. The file
is good, torn, or not there; what a writer has written may be in it before it is
closed. Two writers leave what either wrote, or a mixture (`mixed`). Disks do not
fail. A regular shutdown is a `Crash` between commands: the WildFly service does not
stop the management. `MaxStops` bounds the stops of the management in one JVM.

`wanted` (names created, and neither destroyed nor lost with an unreadable file) and
`stops` are history. Removal is by `Esme.equals()`, which compares names: `Removals`.

The refinement maps `up` to a JVM that runs, `list` to the image of the list that
`store()` writes, `saved` to the file, where one that cannot be read counts as empty,
as `load()` takes it, and `busy` to "some administrator is inside a command".

## 4. The runs

| Run | Bounds | Shows |
|---|---|---|
| `SmppClient_safety` | 1 managed ESME, 2 slots, 2 ENQUIRE_LINK chains; 79 000 states | `OneConnect`, `OneSession`, `ForgottenOnlyByDrop`, `ImplementsSingle` in every interleaving; `ConnectServed` |
| `SmppClient_reconnect` | the same, nobody stops it; 18 500 states | `Supervised`, `NeverForgotten`; `Reconnects` with ENQUIRE_LINK on |
| `SmppClient_stop` | 3 slots | violation: a stop during the bind leaves a stopped ESME connected |
| `SmppServer_pool` | 2 peers, 2 connections, one pooled ESME stopped and started, one pinned to a host and destroyed; 689 000 states | `OneHolder`, `NoOrphan`, `FreeIsClosed`, `HeldBySomeone`, `ImplementsExclusive` |
| `SmppServer_live` | 2 pooled ESMEs, 2 peers, one ESME managed; 138 000 states | `Supervised`; `Enquired`, `BecomesFree` |
| `SmppServer_destroy` | 2 ESMEs, one destroyed | violation of `Enquired` |
| `EsmeCluster_turns` | 4 ESMEs of the four kinds; 64 000 states | `FindsAvailable`, `InTurn` |
| `RateLimit_races` | 2 threads, 2 domains with limits 1 and 2, 1 or 2 messages at a time; 2 300 000 states | `Accounted`, `Limited`, `OneFirstFault` |
| `LinkDrop_silence` | 2 kinds, counts up to 2 together; 1 070 000 states | `SilentIfDropped`, `SilentIsFound`; `SilentIsDropped` |
| `LinkDrop_stale` | the same | violation: counts of an earlier session, or of before a reset, hide the traffic of this one |
| `EsmeRegistry_life` | 1 administrator, 4 objects, 2 names, 2 clusters, 2 network ids, 1 stop in a JVM; 202 000 states | `Reachable`, `Grouped`, `Persisted`, `Kept`, `OneNetwork`, `Managed`, `NoStrangers`, `ImplementsDurable` |
| `EsmeRegistry_two` | 2 administrators, 3 objects, no stop | violation: two stores at a time leave a file no restart can read |

Why the bounds are enough. Client ESMEs share nothing but the operations thread
and its queue, whose use by another ESME is a delay the bag already allows; two
slots hold an old and a new session, which is what the stale callbacks need.
On the server the conflicts are between two connections, two ESMEs of a pool,
and the two ESMEs of one pass of the supervision. Three ESMEs in the list of a
cluster let the index be ahead of, at and behind the one that is removed; the
fourth is not in the list. Two domains in the rate limiter are a shorter and a
longer one; two threads and two clearers give every race on a counter, and the
counter bound lets each limit be passed by more than one message. Two names, clusters
and network ids in the registry let ESMEs share a cluster or not, agree on its
network id or not, and be the last of it or not; four objects are two ESMEs and
what a stop and a start leave of them in clusters and MBeans; the number of crashes,
commands and modifications is not bounded. The type invariant and the safety invariants
are proved for all values (section 6), those of the registry for one
administrator except `TypeOK` and `NoStrangers`. One administrator in
`EsmeRegistry_life` is therefore no restriction on what is claimed of one; for two,
TLC looked through 3.6 million states of `NoStrangers` without exhausting them.

## 5. Fairness

* Client: the operations thread and the I/O threads run (weak fairness on
  each), and an administrator's operation that has begun ends. Time passes, so a
  request polled again and again is once found due (strong fairness, as polls are
  intermittent). The remote server does not refuse or break every bind (strong
  fairness on a bind that succeeds with its channel open): without it no code could
  reconnect. No fault, start or stop is forced.
* Server: strong fairness on the callbacks of each connection, since they need the
  semaphore, a `java.util.concurrent.Semaphore` that every acquirer gets in the
  end as its holders always release it; strong fairness on a scan that finds an
  ESME due; weak fairness on the operations thread and on an administrator's
  closing of a session. Nothing forces a peer to bind or to leave.
* `LinkDrop`: weak fairness on the operations thread, whose loop waits 5 seconds and
  goes on, and on callbacks and stops that have begun, which do not wait for anything
  in the model (a stop is never taken back halfway). Nothing forces a connection, a
  message, a reset or a start.
* `EsmeCluster`, `RateLimit` and `EsmeRegistry` have no liveness properties: their
  operations do not wait.

## 6. Proofs

TLAPS proves the following for every value of the constants that satisfies the
named assumption of the module (`ClientAssumption`, `ServerAssumption`,
`ClusterAssumption`, `LinkAssumption`, `RateAssumption`, `RegistryAssumption`), which
only give the constants their types and keep the null references apart.

* `SmppClientProofs`: `TypeCorrect`, `ConnectUnique` (`OneConnect` is inductive with
  the types), `SessionUnique` and `AlwaysSupervised`. `OneSession` is not inductive:
  that at most one session is open does not say that the next bind finds none open.
  `OneSessionInd` says *which* session may be open: the one being bound while the
  thread binds, the one the ESME refers to otherwise. `Supervised` is inductive
  given that. `ForgottenByDrop` and `StartedIsPursued` are the safety core of
  `Reconnects`: fairness apart, a started ESME whose session is not
  bound can stay so for good only if neither a request nor a thread is left that would
  connect it (`Forgotten`); one whose bound session is dead is `Supervised`. For each way to lose the session, or the request, there is
  somebody who schedules the next CONNECT, except the one step of `run()` that clears
  the flag of an ESME it has seen stopped. `PursuitInd` supplies what that argument
  takes for granted of the thread: a session is BINDING only while it binds it, it
  returns from `bind()` with a bound one, and for an ESME nobody stops it never comes
  to that step.
* `SmppClientRefinement`: `RefinesSingle`. The requests that exist are counted, and
  `OneConnect` makes that count the flag; setting it is then a `Request` and clearing
  it a `Take`. `OneSessionInd` and `PursuitInd` say which session is BINDING and which
  is BOUND at each point of the thread, so that a bind finds none, its answer finds
  its own, and whoever closes "the session of the ESME" meanwhile closes another one
  (`CloseLoses`), which is a `Lose` or nothing.
* `SmppServerProofs`: `TypeCorrect`, `HolderUnique`, `NeverOrphaned`,
  `FreeIsBindable`, `NothingLeaks`, `AlwaysSupervised`, `RefinesExclusive`.
  `HolderInd` adds that an ESME marked free has no holder, which is what makes the next bind safe;
  `SessionInd` that the session an ESME refers to is its holder's or a closed one,
  and `SupervisedInd` what each point of `sessionCreated()` has set already.
  `NothingLeaks` is the safety core of `BecomesFree`: every path out of the three
  callbacks gives back the ESME or leaves a connection that will, and the semaphore is
  held by nobody outside `sessionCreated()` and `sessionDestroyed()`. The
  refinement follows from `HolderInd`: an admitted bind is an abstract `Bind`,
  the end of `sessionDestroyed()` an `Unbind`, starts and stops map to themselves, everything
  else stutters.
* `EsmeClusterProofs`: `TypeCorrect`, `SearchComplete`, `RoundRobin`. The invariant
  `Ind` says that the list has no duplicates, that the turns an ESME has let pass and
  the steps the index is away from it are together at most one walk round the list
  (`TurnsInd`), and that a call has the iterations left to reach every steady ESME
  (`SearchInd`). An ESME that is added goes to the end, which lengthens the walk and
  a distance by one each.
* `LinkDropProofs`: `TypeCorrect`, `SilentOnly`, `SilentFound`. For `SilentOnly`
  the invariant says that what has been heard in a period can still be seen, in the
  flag, in a count that has grown past the remembered one, or in a stale kind
  (`HeardIsVisible`); that a fresh remembered count is not ahead of its counter
  (`FreshIsBehind`); and that neither are the counts the thread has read
  (`ReadIsBehind`). `SilentFound` is the safety core of `SilentIsDropped`. Its
  invariant `NothingToSee` says what two reads with nothing between them leave: from
  the first on, no counter is ahead of what has been read, and then of what is
  remembered; the flag is set only until the thread clears it; and when the second
  read is compared, the flag is clear and no count that was read is ahead either. A reset by `stopEsme()` or
  `resetCounters()` starts the count of reads again, which is what makes the property
  true of the code: without that TLC finds the look during the file write of a stop.
* `RateLimitProofs`: `TypeCorrect`, `AlwaysOneFirstFault`, `AlwaysAccounted`,
  `AlwaysLimited`. The messages about to be taken back are counted as a set, of
  which `Countable` says that it is finite: a step of a thread adds the messages of
  one thread to it or removes them, and cardinalities do the sums. `Accounted` is
  inductive with that; `Limited` follows from it.
* `EsmeRegistryProofs`: `TypeCorrect`, for any number of administrators; and, for one
  (`OneAdmin`), `AlwaysReachable`, `AlwaysGrouped`, `AlwaysPersisted`, `AlwaysKept`,
  `AlwaysOneNetwork`, `AlwaysManaged`. With two none of these six holds, as section 7
  says; what is left then is `NeverStrangers`, of any number. Its invariant
  `StrangersInd` says that an `EsmeCluster` an administrator has looked up, and that
  nobody has taken out of the map since, is in the map under the cluster name of its
  ESME (`Known`), so that an ESME entered late never gives members to a name without
  a cluster. The properties look at the registry between commands, so the invariant
  `IInv` has to say what each point of a command leaves undone: which ESME an
  administrator holds and whether its cluster is there (`ThreadInv`), that names are
  unique in list and file (`NamesInv`), that an ESME is in its cluster or still on
  `load()`'s list (`ClusterInv`), that the file holds the list except on the way
  through a store (`FileInv`), and what is left when the JVM is down (`LifeInv`).
  `ManagedInv` adds which names have no MBean yet, or one too many, at each point.
* `EsmeRegistryRefinement`: `RefinesDurable`, for one administrator. Each action is
  shown to be one of `Begin`, `Change`, `Save`, `End`, `Crash`, `Restart`, or a
  stutter, from `IInv`: names being unique makes a new, modified or removed ESME a
  change of one; `FileInv` makes the end of a command find the list in the file, and a
  load find the list that was stored.

Only model-checked: liveness (`ConnectServed`, `Reconnects`, `Enquired`,
`BecomesFree`, `SilentIsDropped`), as the prover does not reason about ENABLED and
fairness here. The violations are counterexamples of small instances and need no
proof.

## 7. Behaviours found while modelling

Violated claims that a run shows and `PROJECT.json` lists as findings:

1. A client ESME stopped while it is being bound stays connected
   (`SmppClient_stop`).
2. An ESME destroyed before the `sessionDestroyed()` of its connection leaves its
   name in the list, and every pass of the supervision fails on it, for all ESMEs
   (`SmppServer_destroy`).
3. Counts of an earlier session make `link-drop-server` drop a connection with
   traffic (`LinkDrop_stale`).
4. Two administrators whose changes are stored at the same time leave a file that
   cannot be read; `load()` swallows the exception, and the next start has no ESMEs
   (`EsmeRegistry_two`).

Others, seen in runs made while the models were written and in the code:

* With `enquire-link-delay` 0, a client session that dies between the return of
  `bind()` and `setSmppSession()` is never replaced (`Reconnects` with `EnquireOn`
  empty and three slots).
* `getNextEsme()` fails, or passes the only bound ESME over, if an ESME is destroyed
  during the call; hence the `removed` of `FindsAvailable`.
* A reconnection that is quicker than the ENQUIRE_LINK still queued leaves two
  chains of them for good; `MaxEnquires` bounds this in the model.
* `startEsme()` between the look at `started` and the reset of
  `inConnectingQueue` in `run()` sets nothing off: the ESME is started and has no
  CONNECT. `ForgottenOnlyByDrop` says that nothing else has this outcome, and
  `ConnectServed` speaks of a CONNECT that is in the queue.
* The branches of both `enquireLink()` methods marked "should never happen" are
  reached by a session closed between the choice and the sending.
* The search for a free ESME of a pool stops at one that is stopped, and the bind is
  refused although another is free.
* A peer with a fixed host and port can bind again before the `sessionDestroyed()`
  of its previous connection, which then takes the live one out of the list. This is
  why the invariants of `SmppServer` are about pooled ESMEs.
* An ESME stopped during its bind ends up served; if it is started again, its
  connection is never enquired. Hence `Supervised` is about ESMEs nobody stops.
* A stop, or `resetCounters()`, can spare a silent connection one look: what is
  remembered of its counters is reset while it is bound, and the look finds -1, or 0,
  below them. `SilentIsFound` says that it is one look at most.
* A look that is pending when a new session is stored can check it, and drop it, before
  its first look.
* A message refused when a counter has just been cleared makes it negative, and
  that many more pass in the new period: the `late` of `Limited`.
* The JVM ending inside `store()` loses every ESME, and the start after it does not
  say so. `load()` stores too, once for each ESME that differs from its cluster.
* A stop and a start of the management in one JVM leave the objects of before in the
  clusters, beside the new ones of the same names; destroying an ESME may then take
  the other one out. `Grouped` and `Managed` end there, `Reachable` does not. An ESME
  created while the management is stopped keeps its MBean at the next start.
* Two administrators can create one name twice, put one cluster over another, or
  destroy an ESME whose cluster is gone: the last ends in a null pointer after the ESME
  has left the list and before the file is stored. `NoStrangers` survives all three.
* The name of an ESME is all that creation compares, although a message against equal
  system id, host, port and bind type exists.

## 8. Not modelled

* Settings of the server and of SSL with their XML, and the WildFly glue: they carry
  no protocol state.
* The web console: pages that read and call the beans. Its JavaScript is jQuery,
  Bootstrap, Jolokia, charts and sliders, the scripts of the documentation are a theme:
  third-party code, apart from a leftover of another console (`jainslee.js`).
* `TlvSet` and `TlvProxy`: a collection that nothing in the repository calls.
* The parsing and the answers of the command line; the settings of an ESME that the
  application reads (routing, charging, encodings, lengths, thresholds).
* I/O errors in `store()`, which are logged and forgotten; `checkLinkRecvMessage()` on
  a session without counters; the delay the server's ENQUIRE_LINK is scheduled with
  (the models have no times). All three are listed as hazards.
* A semaphore that is interrupted, and callbacks of one connection that overlap: they
  depend on the network library, which is not part of the repository.
