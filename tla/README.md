# NCU-HASS in TLA+

NCU-HASS is the high-availability service of an OpenStack cloud. A controller
keeps a list of clusters, each with computing nodes and protected instances
(virtual machines). For each node it runs a detection thread that looks for
faults layer by layer, and hands what it finds to a recovery that evacuates the
instances and restarts the node, or restarts the instance.

This directory holds TLA+ modules translated from the controller's Python source
(`src/controller_node`), the TLC configurations that check them on small
instances, and proofs of their safety properties for every instance.
`PROJECT.json` maps every definition to the lines it stands for, lists the runs,
the mutants that each property is shown to catch, the findings and the hazards.

## 1. The system

| Component | State | Operations | Correct when |
|---|---|---|---|
| Layers and trees (`LayerConfig`, `TreeDictionary`, `TreeBuilder`, `BinaryTreeNode`) | a constant dictionary from layer strings to insertion orders; the tree built from one | build, search, left and right child | every string that can arise is a key; a tree tells every two active layers apart |
| Fault detection (`FaultDetectionStrategy`, `DetectionThread`) | active layers, results of the running verification, node status, counter, `loop_exit` | detect, verify, confirm, merge and re-enable layers, recover, wait for a node, stop | the lowest failed layer is blamed; it reaches recovery; layers come back |
| Detectors (`Detector`, `IPMIModule`) | none of their own; they ask ping, ipmitool, libvirt | one probe per layer | a probe says health, fault, failed detector, or not supported |
| Instance detector (`InstanceDetector`, `InstanceEvent`) | a dictionary of five-element lists, a lock, a libvirt connection | event callbacks, draining the update queue, three checks of an instance's state, setters | the table follows the controller; operations of users are not taken for faults; nobody blocks |
| Node | name, status, update queue, ssh client, detection thread | send an update, start/reboot through the BMC, clean up libvirt | |
| Cluster | list of nodes, list of instances | add/delete node and instance, update the host of one or all instances | each instance is watched on the node it runs on, and there only |
| Resource manager, database manager | dictionary of clusters; three MySQL tables that mirror it | the same, across clusters; save everything, load everything | what was saved last is what a restart protects |
| Recovery manager, instance, Nova client | none of their own | evacuate and reboot a node, hard-reboot an instance | an instance is never running twice; the outcome reported is the outcome |
| REST service and client, command line, dashboard | none | forward calls | |

How they meet:

* The detection thread of a node and libvirt's event loop (one thread, running
  the callbacks) share the instance dictionary. Only draining the queue is done
  under a lock.
* Flask handlers (one thread per request) change clusters and send ADD, EVACUATE
  and REMOVE to the queues of nodes.
* The detection thread calls the REST service of the same controller to recover,
  to save, to update a host and to delete an instance, so a handler often runs on
  behalf of another thread that waits for it, at most 500 seconds.
* Every Nova, MySQL, ipmitool, ssh and ping call can take seconds or fail.

What is hard: probes are seconds apart while the world changes; results of
different ages are combined; two threads read and write one table without a
lock; commands and events arrive in any order; a detector may fail in the middle
of a diagnosis; exceptions are caught at three different levels, or not at all;
recovery itself raises the events that look like users' operations. The list with
lines is `hazards` in `PROJECT.json`.

## 2. Modules

| Module | Models |
|---|---|
| `LayerTree` | layers, the dictionary (40 rows), navigation of a tree given as an insertion order |
| `TreeBuilder` | the insertions with references, the search, and the walk of `__verify` through the tree, one step per recursive call; shown to agree with `LayerTree` |
| `FaultDetection` | the detection thread: `DetectionThread.run` and all of `FaultDetectionStrategy`, one step per probe |
| `WatchList` | abstract: what the update queue promises |
| `InstanceDetector` | the table of one node, the callback thread and the detection thread, one step per access |
| `Ownership` | abstract: what `ResourceManager` promises of the clusters |
| `Registry` | all clusters in memory, the three tables that mirror them, requests and saves by concurrent handlers, crash and reload |
| `Protection` | one cluster: its nodes and instances, the commands sent to the nodes, handlers side by side, one step per Nova call and command |
| `Failover` | extends `Protection`: detection threads that call for recoveries, `RecoveryManager`, Nova's evacuations, hosts that break and come back |
| `MCFaultDetection`, `MCInstanceDetector`, `MCRegistry`, `MCFailover` | values of the constants for TLC |
| `LayerTreeProofs`, `TreeBuilderProofs`, `FaultDetectionProofs`, `InstanceDetectorProofs` | theorems about the modules they are named after |
| `RegistryProofs`, `RegistrySaveProofs`, `RegistryLoadProofs` | theorems about `Registry`: the memory, the saves, the load; each module extends the one before |
| `FailoverProofs` | theorems about `Failover` and the `Protection` it extends: the cloud, then the cluster |

### LayerTree and TreeBuilder

A layer string such as `1011001` is the set of its active positions. A tree is
the order in which its values are inserted, as in the dictionary;
`Descendants`, `LeftSubtree` and `RightSubtree` read the children off that order.
`TreeBuilder` builds the tree with `left` and `right` references. A call of `insert` or
`get_node_by_data` on a child is a step (`InsertBelow`, `SearchBelow`): `at` is the node the
call is at and `data` its argument. `VerifyBegins`, `VerifyGoesOn` and `VerifyBlames` are the walk
of `__verify`, in which each layer is searched for again to find its children, when the layers
below `fault` are healthy and the others have failed. The invariants say
that the references agree with `LayerTree`, that a search finds exactly the inserted values,
and that the tree of every row blames the lowest failed layer; `WalksDown` says that no
call and no walk comes back to where it was.

### FaultDetection

`pc` is where the thread is: `poll`, the pings of `detect` (`host level`,
`instance level`), `verify` (one step per probe: `VerifyHealthy`, `VerifyFailed`,
`VerifyDisables`, `VerifyRaises`, `VerifyRepeats`), `confirm`, `third check`,
`returned` (the counter and the re-enabling of layers), `recover`, `update`, and
`await` for the loop that waits for a node to come back. `spin` is the loop in
`__verify` that makes no progress. The world (host fault, instance faults, the
states recorded for instances, BMC, libvirtd, the set of protected instances)
changes between any two steps, at most `MaxWorldChanges` times. Host and instance
faults are the lowest failed layer; a layer above a failed one fails with it.
What each probe returns follows the detectors: for instance `check_os_status`
raises without a BMC, since `get_os_status` subtracts the strings it got.

What fails inside an instance (`vmFault`) is one thing, what the detectors see of it another.
libvirt tells of a crash or a watchdog's action only while a connection is open: the event is
in `coming`, and lost with the connection. `Callback` handles it and sets the flags of the
instance's entry (`flag` is the lowest layer whose flag is set). `InstanceFlag` reads the
flags and never `vmFault`; `InstanceAdded` makes a new entry without flags, and
`revert_to_default` (`RevertToDefault`, `EntryAfterPing`) clears them. A crash that nobody was
connected to hear of therefore looks like a failure of the instance's network, and
`DiagnosisExact` is stated about what was reported (`FailedLayer`). The addresses of an
instance in the table are strings of Nova's, never None, so the branch of
`check_instance_network_failure` for a missing address is not in the model.
`InstanceRemoved` may end the thread while it brings its table up to date, as `thread_survives`
shows in `InstanceDetector`; the liveness properties are about a thread that lives
(`ThreadLives`).

Strings and results are sets and a function from layers to results; the text of
log messages, the parsing of `ipmitool` output and the sleep between polls are
left out. `quiet` is a history variable: since `detect` began nothing has changed in the world,
and no callback has reported anything.

### InstanceDetector

`pc["callback"]` and `pc["detection"]` are where the two threads are. Draining is a
sub-machine both run (`Acquire`, `Get`, `Apply`, `Release`; `resume` is where the
thread goes on). `ApplyRaises` is the `except` of `__check_instance_update`: the network of
an instance in `NoProvider` is None, its command is lost, the lock released, and the rest of the
queue left to the next drain. A callback looks its instance up (`LookUp`) and writes to the list
it got (`Write`, `WritePower`); `current` tells whether that list is still the
dictionary's, for a command may replace or delete it in between. The detection
thread lists the instances, checks one after the other (`Guard`, `PingInstance`,
`Judge`: first check, ping, second check), diagnoses, confirms, makes the third check
and recovers; then it brings the controller up to date (`InspectInstance`). Each
assignment of `revert_to_default` and `set_instance_state` is a step, after a look-up
of its own, and `AssignRaises` is the `KeyError` when the entry has gone: what it
does depends on who called (poll again, stop the thread, or end it).

The world: instances crash, hang, stop, start, migrate and are deleted, with the
libvirt events that tell of it; a connection may lose what it had to deliver. The
controller gives commands in the order `Cluster` gives them: ADD or EVACUATE for
an instance that is not watched here, REMOVE for one that is. `__verify` is a choice
of its outcomes here; `FaultDetection` has the walk (`HostLevelEnds`: an exception, a loop
without end, a transient fault, a fault of the host). `LastUnprotected` is the last instance of
the list losing its protection, after which `__verify` looks for the fault of no instance.
After a fault of the host, `HostRecovers` leaves the node's `status`; when it failed the thread
only pings the host (`AwaitHost`) until it answers (`HostIsBack`), without draining the queue,
so a table need not catch up as long as the node is awaited. Which instances have no address in the
provider network does not change while the system runs (`NoProvider` is a constant).
`recorded` is a history variable: shutdowns the callback has recorded, during the
running detection (`now`) or before (`earlier`).

`WatchList` is the abstract specification: commands take effect once each, in
order, and only a command to watch an instance that has no address is lost. The refinement maps `watched` to the keys of the dictionary and `pending` to
the command in a thread's hand followed by the queue.

### Registry

The Cluster objects are numbers: `cluster_dict` maps a name to an object, `node_list`
and `instance_list` belong to objects, so a thread that holds an object goes on with
it when the dictionary has another (`object`, `todo`). `pc` has a place for each point
where a handler may be overtaken: between the checks of a request and its effect in
memory, before each node of an `add_node`, each element of a deletion, and each
statement of a save. What `Cluster` does to a node or an instance is one step here, and two for
an instance that is added: a `delete_node` may take its host between the question to Nova
(`AddInstance`) and the new record (`AppendInstance`), which then raises with the instance in
the list and no save after it. `DeleteNode` raises likewise, through the unbound `result` of
its `finally`, when two requests had added the node at once, and `DeleteInstance` when the host
has gone; `unsaved` is the history of these. `Protection` has the methods in detail.

A save is `reset_all` (`ResetAll`, `GetAllTable`, one `ResetTable` per table, the first
of which cascades) followed by one insertion per row, each committed on its own.
`ha_cluster`, `ha_node` and `ha_instance` refuse a row whose key is there or whose
cluster is not. What a fault does depends on where it strikes, as in
`DatabaseManager`: `_check_db` pings and reconnects, so a server that is back is
not noticed; while the server is away it returns None and the statement is skipped in
silence; a statement that raises during the reset raises in the caller, and one
that raises during the insertions closes the only cursor, is swallowed, and every
later statement raises until a restart (`cursor`). (The server may come back between a ping and
the `_connect` that follows: a cursor is opened then, and the statement skipped all the same;
`PingedInVain`.)

The columns have widths, and nothing checks a name before it gets there. `wide` is the set of the
clusters, nodes and instances whose names (an instance: the text of its networks) are too long;
a row with one of them is refused, which the handler around the loop takes for a failure of the
database (`RowTooWide`). The request goes on and may answer success: `ClosedOnlyByTrouble` and
`SucceedMeansSaved` except such a refusal (it counts as `failed`, and as `hit` for the requests
under way), and say that it is the only row of an undisturbed save that is refused.

`Crash` forgets the memory; `sync_from_db` reads the tables and the `Loader` replays
`create_cluster`, `add_node` and `add_instance`, each with its save, before the first
request is received. Nova (`pool`, `placed`) and the server change between any two
steps. Abstracted away are layer strings, statuses, and a constructor of a node that fails: an
exception of `Node()` or of its thread's start in `Cluster.add_node` ends the loop, and the nodes
behind are not added, which to the tables is a request with fewer nodes. `recover` is not among
the requests: it changes recorded hosts, which no table's key or cluster depends on, and
`Failover` has it.

`Ownership` is the abstract specification of the memory: which cluster has which nodes
and instances, in the form of the rows that a save writes. A node or an instance is
given only to a cluster that exists and only if no cluster has it, a cluster goes only
when its nodes have gone, and a crash takes everything; each is a single step. In
`Registry` each of them is spread over a check and a change, an `add_node` over a check
and a change for each node, and a deletion over the elements of a list that it changes
while it iterates it; an object may lose its name while a thread holds it. The
refinement (`OwnershipImplemented`) maps the names bound in `cluster_dict`, and
`node_list` and `instance_list` of the objects they are bound to, to the sets of rows; it
holds as long as no two requests have met (`overlapped`). Two that meet can break it:
nothing holds what the first has checked until it changes the list.

### Protection

`instance_list` is the list of objects, `id` and `host` are what each has recorded, and
`nova_host` is where Nova has the instance. A handler is at a `pc`, with the method's
local variables (`object`, `original`, `final`, and `index`, its place in the list). The
loops see the list as it is when they get to an element: `DeleteNext` removes from the
list it is iterating. `Compare` and `Refresh` are the two calls of Nova in
`update_instance_host`; `SendAdd` and `SendRemove` send a command, or raise for a host
that is no node of the cluster, which ends the method where it is. `watched[n]` is what
node n watches once it has obeyed what was sent: `WatchList` and `InstanceDetector` are
about the way from there to the table. `disturbed` is a history variable: an
instance is disturbed when two handlers work on it at once, when a command about it could
not be sent, or when Nova moves it between the two questions after its host.

### Failover

Hosts are up, off, or cut off (they run, and nobody reaches them); `domain` is what the
libvirt of each host has. Nova keeps `nova_host` and the evacuations under way,
accepts an evacuation from a host that is down or whose service is `forced` down, and
carries it out later or fails to (`Evacuates`). The thread of a node (`thread`, `layers`)
calls one recovery after the other, waits for the answer or gives up after 500 s
(`TimesOut`), and in the end waits for the node. How it finds the fault is in
`FaultDetection`; `Detects` only says that it does, with some list of recoveries.

`Recover(h)` is what a handler does for it, step by step: `_recover_vm` picks a target
and the instances whose record names the node; for each of them `undefine_instance`,
`_nova_service_down`, `evacuate`, `_nova_service_up`, each of which may raise; then the
update of each instance's host, which is `Protection`'s; then `Boot` and
`_check_node_boot_success`. `AnswerRecovery` gives the thread what it makes of the
answer: an exception arrives as a dictionary, which it takes for a success. A handler whose
client has given up (`caller` is None) goes on. `recover_instance` asks Nova for a
hard reboot and validates it.

History variables: `stuck` (an evacuation raised after the service was forced down),
`healed` (a host that was cut off came back by itself), `overtaken` (the thread has
given up on a recovery that is under way), `calm` (nothing has met the recovery).

## 3. Runs

Passing:

| Run | Instance | Shows |
|---|---|---|
| `tree_builder` | every order of up to 6 of 6 values, every row of the dictionary that they include, every lowest fault | `ChildrenAgree`, `SearchFindsInserted`, `TreeBlamesLowestFault`, `WalksDown` |
| `fault_detection` | 2 instances (symmetric), 3 layer strings, 4 BMC configurations, 2 changes of the world | types; the network layers are never merged; the walk is a bisection; a diagnosis is bracketed by what was seen; exact, as far as callbacks have reported the fault, if nothing changed; recovery stays in its level |
| `fault_detection_live` | 1 instance, BMC configured, 2 changes | permanent faults keep reaching recovery; merged layers come back |
| `instance_detector` | 2 instances, one without an address, 1 change of an instance, any losses of events, 2 commands, 3 events under way | no drain blocks; `WatchList` is implemented, though a command raises; a shutdown recorded during a detection is respected by it; the table catches up, but while a node is awaited |
| `registry` | 2 clusters and 2 nodes (symmetric), 2 instances, rows too wide for their columns, 2 handlers, 2 requests and a third that deletes a node, 1 event | no node and no instance in two places; `Ownership` is implemented; what is protected is in the tables; a torn save only loses rows; the cursor is closed only by faults, by rows too wide and by saves that meet; success means saved; a reload restores what was read |
| `failover` | 2 hosts, 2 instances, 2 handlers, 2 faults, requests and moves taken together | an undisturbed instance is watched where it is recorded, and its commands alternate; a service is down only around an evacuation; an instance runs once; a recovery that reports success left its instances safe; a failed node comes up or its thread knows |

Violated, each by behaviour of the code against a sentence of the repository
(quoted under `findings`):

| Run | What happens |
|---|---|
| `recovery_covers_fault` | a merged layer enabled again between diagnosis and recovery drops out of the recovery list |
| `host_fault` | instances that are all shut off (destroyed, migrating) hide the fault of their node for ever |
| `instance_fault` | guest OS layer unprotected: libvirt is never connected and every verification of an instance raises |
| `detect_returns` | an unsupported detector in the tree keeps `__verify` at one node for ever |
| `shutdown_respected` | a shutdown recorded between ping and second check is overwritten, and the instance restarted |
| `thread_survives` | an instance removed between two look-ups ends the detection thread |

Bounds. `MaxWorldChanges` bounds how often the world changes in a whole behaviour,
not how long it runs: the thread goes round for ever. Two changes are enough for
a fault to come and go (or a second detector to fail) inside one verification, and the
violations of longer runs need at most four. Three layer strings (all layers; the two
network layers and power; a merged set without power and hardware) give trees of depth
one to four; the proofs cover the others. `instance_detector` has two instances, since it is also about what the command of
one does to that of the other. Two commands let one drain find two and let a second thread
drain in between; one change of an instance and what a reboot adds are three events. With
one instance and two changes the same properties pass (2.5 million states, four events under way), which is left
out of the runs for its time; the proofs cover every number of both.
`registry`: two requests are enough for any two to meet, and one event puts one crash,
change of the cloud, or fault of the database at any point of a load or of a request; a third
request may delete the node that two have added at once. A request alone meets every state of
two clusters with two nodes; the harder things meet smaller states, each with a bound of its
own in `Narrow`: requests that overlap (`Meeting`) and requests in a behaviour with an event
(`Changing`) one cluster, or two without nodes; rows too wide (`Broad`) and the second
instance (`Second`) one cluster with one node, the one as a cluster's and a node's; the third
request (`Third`) one node. Without these bounds there are too many states (it has 444,197
with them); every way the properties exclude (a fault, a refused row, two requests that meet)
happens within them, and the theorems have none of them. `failover`: two of faults, requests and
moves are enough for a host to break and a call of its recovery to fail, for a
recovery to be overtaken, or for a user to move an instance during a recovery.
`OneSide` fixes which host is the first instance's. The second instance either is
protected on the same host, so that one evacuation may fail among several, and then
only that host breaks and one handler works; or nothing happens to it (`Narrow`).
Liveness is checked over the same states.

What the properties except. Much of what two handlers can do to each other does go
wrong, and the properties name it instead of hiding it: `WatchedWhereRecorded` and
`CommandsAlternate` speak of instances that are not `disturbed`, `OneOwner` of requests
that do not overlap, `CrashLosesNothing` of an open cursor and (for nodes and instances) not of
requests that have met when one of them has raised with its change made, `ClosedOnlyByTrouble` and
`SucceedMeansSaved` of rows that fit their columns, `TableCatchesUp` of nodes that are not awaited, `RunsOnce` of nodes that are
not `stuck`, `healed` or `overtaken`, `RecoveredMeansSafe` of recoveries that had the system
for themselves (`Alone`). Without their exceptions TLC finds the first
three violated; the hazards say where.

`CHECK_DEADLOCK FALSE` is in each cfg because the system may stop: a deleted node's
thread exits, a thread dies, a tree is complete.

Fairness. `FairSpec` assumes that each thread takes a step as long as it has one: WF of
`Thread`, and of `CallbackThread` and `DetectionThread`. Python schedules its threads,
every external call of theirs has a timeout, and a lock that is free goes to the
only other thread there is. Nothing is assumed of the world: faults,
events, commands and the stopping of a thread need never happen. The conditions of
the liveness properties are in the properties themselves. In `Failover` WF is assumed of
each handler's `Step` and of each node's `Thread`: both are Python threads whose calls end
or time out. Nothing is assumed of Nova's `Evacuates`, of users, or of hosts that
come back: `FailureHandled` holds without them, since a recovery does not wait for Nova.
`Registry` has safety properties only.

## 4. Proofs

For every value of the constants that satisfies the modules' assumptions:

* `LayerTreeProofs`: every layer string with both network layers, or with the
  instance level hidden, is a key of the dictionary (`EveryLayerStringKnown`), and its
  row holds each of its layers but the highest, once (`DictionaryComplete`); the row has the
  power layer before the hardware and the host network before the layers of an
  instance (`DictionaryOrdered`).
* `TreeBuilderProofs`: `TreeTyped` (`TypeOK`), `TreesAgree` (`ChildrenAgree`), `SearchFinds`
  (`SearchFindsInserted`), `LowestFaultBlamed` (`TreeBlamesLowestFault`) and `EveryWalkGoesDown`
  (`WalksDown`), for insertion orders of any length.

  There is no induction over the tree. `On(T, p, d)` says of a position of the order that no
  node above it tells its value from `d`, so that a call with `d` comes by; the
  positions below it on the side of `d` are `Toward(T, m, p, d)`. The
  inductive invariant says that the child on each side is the first of them, if there is
  one (`LinkedAll`; `LinkedIsAgreement` makes `ChildrenAgree` of it), that a call is at a
  position on the way of its argument (`Calls`), and that the way of every active layer that
  the walk has not excluded leads by the layer at hand (`Walk`). `Descent` is the
  lemma behind all steps down, `OnlyParent` the one behind `InsertHere`: the new position is the
  first on its side of one node only. Where the walk cannot go on, no active
  layer is left between the layer at hand and the fault.
* `FaultDetectionProofs`: `TypeCorrect`, `NetworkLayersStay`, `WalkIsBisection`,
  `DiagnosisIsBracketed`, `RecoveryIsOfOneLevel`, `DiagnosisIsExact` (the property
  `DiagnosisExact`).

  The inductive invariant `IInv` conjoins the five. None of them is inductive
  alone: that `temp` is a key of the dictionary needs that the network layers
  are never disabled; that they are not needs that the walk never probes the highest
  layer; that the diagnosis is bracketed needs `WalkSeen`: of
  the nodes of the tree passed so far, those without a result lie beyond one with a
  result. From that, when the walk runs out on the right, the next active layer
  above was seen failing, and when it runs out on the left, the next below was seen
  healthy (`NextAboveFailed`, `NextBelowHealthy`), which is the bracket.

  That the blamed layer is also the right one needs that what the walk has seen is true,
  and not every detector is: with the power off the hardware check finds a healthy node,
  and libvirt cannot speak of an instance whose host is unreachable. `Sighted` says that
  while nothing changes, a verification only begins when the fault is at or below the
  highest layer of the walk, and its results are true (`ResultsTrue`), those about an instance in the sense of its flags. It is kept because of
  the order of the dictionary's rows: the walk has been to the power layer, or to the host
  network, before it asks a detector that this layer can mislead (`DictionaryOrdered`), and
  when it then goes up to that detector, the lower layer, or one above it, was found
  healthy (`HealthyBelow`, `ProbeTrue`). With the bracket, the blamed layer is the lowest
  active one at or above the fault (`SightedIsExact`).
* `InstanceDetectorProofs`: `TypeCorrect`, `LockHoldersFindCommands` (the property
  `GetNeverBlocks`), `ImplementsWatchList` (the refinement of `WatchList`) and
  `RecentShutdownIsRespected`.

  The inductive invariant has five parts. `Locked`: exactly the lock's holder drains,
  and each thread goes on from a drain where it should. `Queued`: the holder has counted
  no more commands than there are, and only it has taken one; `GetNeverBlocks` is a
  part of this, and inductive only with `Locked`, for without the lock another
  thread could take a command that has been counted. `Tabled`: a callback whose list is
  still the dictionary's finds its instance there. `Looking` and `Outside`: types.
  For the refinement, at most one thread has a command in hand, so what is pending
  is that command followed by the queue; `Apply` and `ApplyRaises` are the abstract `Obey`,
  `Get` stutters.
  For the shutdowns, `Respected` says that an instance the running detection has yet to
  judge (`Regarded`), or will judge again, is in an operated state if its shutdown was
  recorded since `detect` began: detection assigns a state only to an instance that
  is no longer regarded. That is why a shutdown recorded during a detection is
  respected by that detection, while `shutdown_respected` fails for later ones.
* `RegistryProofs`: `RegistryTyped` (`TypeOK`), `RegistryOneOwner` (`OneOwner`) and
  `RegistryImplementsOwnership` (the refinement of `Ownership`), for every number of
  clusters, nodes, instances and threads, and all bounds.

  `OneOwner` has the form "unless two requests have met", and is not inductive: what
  keeps it is that each method checks first and changes the lists in a later step. The
  inductive invariant adds what a thread has seen (`Relies`): the name it will bind is
  free, the object it holds is still its cluster's, the nodes it still has to add are in
  no list, the instance it will protect is in no cluster. Nobody else can break that
  while one thread at a time is under way (`Alone`, which covers the main thread during
  the loading too). `Owned` is `OneOwner` in terms of sets and single positions;
  `Fresh` says that a Cluster object is bound to one name at most and one not created yet is
  empty. For `TypeOK` it matters that what is loaded belongs to a cluster (`ToLoad`), that
  a thread's request fits its place (`Fits`), and that a loop's position is a position.
  The list lemmas (`AppendNode`, `RemoveNode`, `SameIds`, ...) say what the updates of a
  list do to its elements; then there is a lemma per action, on top of
  `StepKeeps` and `AsideKeeps`: a step of one thread disturbs no other, and
  one that leaves the memory alone need only show its own thread.

  `RegistryImplementsOwnership` (`OwnershipImplemented`) follows from the same invariant,
  step by step: a lemma per action of `Registry` that can change the memory says which
  step of `Ownership` it is, or that the rows stay. `Relies` gives the guards of
  `CreateCluster`, `AddNode` and `AddInstance`. That nothing else changes needs `Fresh`: an
  object has one name, so a list that changes is the list of one cluster, and a new
  object is empty. A removal takes out exactly one row because a list has nothing twice
  (`NodeRemoved`, `IdRemoved`); one from an object without a name is a stutter.
* `RegistrySaveProofs`: `RegistryClosedOnlyByTrouble`, `RegistryTornSaveOnlyLoses`,
  `RegistrySucceedMeansSaved` and `RegistryCrashLosesNothing` (the properties
  `ClosedOnlyByTrouble`, `TornSaveOnlyLoses`, `SucceedMeansSaved`, `CrashLosesNothing`), on
  top of the invariant of `RegistryProofs`.

  The first three follow from `Progress`: while a save that nothing disturbs is at a given
  place, the tables hold exactly the rows that it has gone over, those of the
  clusters it has finished, and of the current one those before its position. So the row it
  writes next breaks no key, which is `ClosedOnlyByTrouble`; that needs `OneOwner`, for were
  a node in two clusters or twice in one, its row would be there already. So whatever is
  in the tables is in the memory, and at the end the two agree. `Progress` is kept because
  no other thread writes, and because a fault of the database and a request that meets
  this one are both noticed (`Faults`).

  `CrashLosesNothing` is about any number of requests and saves that meet, and none of that
  helps. Its invariant `KInv` says of each row that it is in the tables or that somebody will
  see to it. `NodesSafe`: some thread has its whole save to do (`Dirty`); or for
  each cluster a thread will still write it as it is now (`Waiting`), or its row is there and each
  of its nodes either has its row or is at or after the position of a thread that
  writes them (`WritesNode`). `InstancesSafe` is the same for instances. Every change of the
  memory makes its thread dirty. A thread that empties a table, whatever another has
  just put there, is from then on waiting for every cluster. And a thread no
  longer waits for a cluster or a row when the row went in, since a row that is refused
  closes the cursor, of which the property does not speak. Deletions are the exception,
  for they move the elements behind under the position of whoever writes the list: until
  its save a deletion stands for all rows (`Deletes`). A request that raises with its change
  made comes to no save: a deletion may have made another thread's save skip an element, and an
  addition is in no table. That is `Excused`, the condition `overlapped /\ unsaved` of the
  property. A request that raises alone removes something, which loses no row of what is left.
* `RegistryLoadProofs`: `RegistryLoadRestores` (the property `LoadRestores`).

  A load saves after each cluster, node list and instance, into the tables it
  was read from. `Restoring` says that what the memory has and what is still to load are
  together what was read, as far as the cloud has it, and that what was read obeys the
  keys of the tables. A crash in between makes a later load read less: the property is
  about each load by itself.
* `FailoverProofs`: `ServiceForcedDownBriefly` (the property `ForcedDownBriefly`) and
  `InstanceRunsOnce` (`RunsOnce`), for every number of hosts, instances, handlers and
  faults.

  `RunsOnce` is not inductive: when Nova has rebuilt an instance, it runs on the target,
  and the copy on the old host must not run or be excepted. `Leaves` says that this is so
  while the evacuation is under way. For that, the evacuation must not have been
  accepted from a host that works: Nova accepts it from one that is not up, and one that is
  off runs nothing (`Halts`), or from one whose service is forced down.
  `ForcedDownBriefly` then gives a handler that is recovering that host, or an
  exception, and `Reason` says that a host that is being recovered, and has not
  been restarted, is not up or came back by itself. `Reason` is the heart, and it needs that
  nobody else restarts the host meanwhile: `Waits`, that a thread waits for every handler
  that recovers its node, and for one at a time, unless it has given up once. That is
  what a time-out breaks, and why overtaken nodes are excepted.
  The lemmas go action by action: `SelfKeeps` for all steps that stay away from
  the cloud, among them all of `Protection`'s, `PlaceKeeps`, `ReasonKeeps` and `ForcedKeeps` for
  the steps of a recovery, `OutsideKeeps` and `DomainKeeps` for the world.

  On top of that invariant the module has the theorems about the cluster: `FailoverTyped`
  (`TypeOK`), `ProtectionCommandsAlternate` (`CommandsAlternate`),
  `ProtectionWatchedWhereRecorded` (`WatchedWhereRecorded`) and `FailoverRecoveredMeansSafe`
  (`RecoveredMeansSafe`).

  `Typed` strengthens `TypeOK` by what each place of a handler relies on (`Fits`): a method
  at work on an object has one that was made, a recovery has a target, a loop's position
  is a number.

  `Watching` is behind the two properties about commands. An instance is `Settled` when
  the node its record names watches it and no other does. `Watched` says that an
  undisturbed instance is settled unless a method has a command about it to send
  (`Unsent`), and `Commands` says what the nodes watch at each place of such a
  method: none before an instance is added, the old host once a move is
  noticed, both hosts between the two commands about it. `OneWorks` makes this inductive:
  two methods at work on an instance disturb it. `Once` says that an undisturbed instance
  has one record, and `Checked` that none has come in since a request to add one looked.

  `Calm` is about a recovery that had the system for itself. `CalmFor` has four parts.
  `Undisturbed`: no other handler works, only this node is down, and Nova
  rebuilds instances on the target only. `Fresh`: at the beginning every record is
  right. `Saving`: during the evacuations, each affected instance either is left to
  do, and is where it was, or is `Rescued`: Nova is about to rebuild it on
  the target, or it runs there. `Saved`: afterwards all are rescued. Nova may
  carry out an evacuation at any point, and does not fail to: the target is up and has
  nothing of the instance left.

  `RecoveredMeansSafe` was false as it was first stated, which the run was too small to
  show and the proof brought to light: `Alone` did not ask
  that an instance have one record. Two requests to add an instance that both pass the
  check for overlap leave two; a recovery then evacuates it twice, and what it destroys on
  the target before the second evacuation may be what Nova has just rebuilt there. TLC
  finds this with two requests and one fault. `Alone` has the conjunct now, and
  the hazard at `ResourceManager.py:214` names this consequence.

Assumptions on the constants, besides their types. `InstancesFit` of `Protection`: the
instances are finitely many, and there are objects enough for those protected
at the start (`MaxObjects` is a bound of the model; without this `Init` has no state).
`NoneIsNoMethod`: `None` is none of the names of methods.

Every invariant and every action property that a passing run checks is a theorem. Only
model-checked is what is under fairness, which the prover does not handle:
`FailureHandled`, and the liveness properties of `FaultDetection` and
`InstanceDetector`.

## 5. Assumptions about what is outside `src`

* Flask serves each request in a thread of its own (`threaded` is its default since 1.0,
  and the recovery of one node calls the service while another request waits).
* pymysql: `ping` reconnects in silence when the server is there; a closed cursor raises
  in every later statement; each statement is committed on its own.
* MySQL is in strict mode, its default since 5.7: a value too long for its column is an error. (In
  any other mode the name of a cluster is cut off, and the rows of its nodes break their
  foreign key instead, with the same outcome one row later; a network is just cut off.) The names of clusters, nodes and
  instances are values that MySQL tells apart: none differ only in case or in trailing blanks.
* The service manager starts the controller again after it has failed
  (`Restart=on-failure` in `daemon/HASSd.service`).
* Nova accepts an evacuation only from a host that is down or forced down, names the
  old host until it has rebuilt the instance, and leaves the copy on the old host
  alone; it reboots an instance only on a host that is up.
* libvirt and ipmitool do what their exit codes say; a host that is reset runs nothing
  of what it ran.

## 6. Not modelled

* The command line (`HassAPI`), the dashboard, token handling, the scripts and the older
  interfaces that nothing instantiates: they keep no state of the system.
* The parts of modelled components that only read or format: the lists of clusters,
  nodes and instances, checks of arguments, the parsing of `ipmitool` output, the
  text of ssh commands.
* `_live_migrate_instance`: no route reaches it.
* `Registry` and `Protection` are not composed: `Registry` has the methods of `Cluster`
  as single steps, and `Protection` has no tables. A save between two steps of
  `Protection` would see the lists as they are, which `WriteNode` and `WriteInstance`
  already allow for.
* The events of newer libvirt that `InstanceEvent` has no row for (see the
  hazard with a note on it).
* `FaultDetection` and `Failover` meet in two abstractions of each other: the
  outcome of a recovery is a choice in the first, and the list of recoveries one in the
  second.
