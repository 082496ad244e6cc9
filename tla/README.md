# A TLA+ model of zenoh-plugin-dds

zenoh-plugin-dds bridges DDS domains over Zenoh. A bridge discovers the readers
and writers of its DDS domain and creates *routes*: a route from DDS holds a DDS
reader and publishes on a Zenoh key expression what it reads; a route to DDS
holds a Zenoh subscriber and writes with a DDS writer what it receives. This
directory holds the TLA+ modules of the bridge, the TLC configurations that
check them, and proofs checked by TLAPS. Paths below are relative to
`src/zenoh-plugin-dds/src/`.

## 1. Inventory

| Component | State | Operations | Interacts with |
|---|---|---|---|
| Names and filters (`lib.rs`, `config.rs`) | the configuration | `topic_to_keyexpr`, `is_allowed`, `get_read_period` | called by both modes |
| QoS adaptation (`lib.rs`, `qos_helpers.rs`) | none | `adapt_*_qos_for_*`, `is_*` | called when a route is created |
| DDS discovery (`dds_mgt.rs`) | builtin readers, channel | `run_discovery`, `on_data` on DDS threads | sends `DiscoveryEvent`s to the event loop |
| Route tables (`lib.rs`, `route_*.rs`) | maps of entities, routes, admin references; fields of the routes | `try_add_route_*`, `insert_*`, `remove_*`, the `Drop`s | changed by the event loop only |
| Local mode (`lib.rs:785`) | - | one handler per discovery event | channel of events |
| Forward mode (`lib.rs:982`) | lists of remote endpoints in the routes | handlers for discovery events, remote samples, group events | other bridges |
| `ros_discovery_info` (`ros_discovery.rs`, `lib.rs:1377`, `:1563`) | `ParticipantEntitiesInfo`, the reader of the topic | read, remap, update, cleanup, write | forward mode, ROS processes |
| Forwarded keys (`lib.rs:392`, `:992`, `:1523`) | none | building and parsing keys | forward mode |
| Data Zenoh -> DDS (`route_zenoh_dds.rs:140`) | handle of the DDS writer (atomic) | subscriber callback, waiting tasks, `set_dds_writer`, `delete_dds_writer` | Zenoh threads, tasks, event loop |
| Data DDS -> Zenoh (`dds_mgt.rs:413`, `:512`) | instance handle | listener, periodic task | DDS threads, tasks, event loop |
| Historical data (`route_*.rs`) | publication caches, querying subscribers | queries when a bridge joins | other bridges |
| Admin queries (`lib.rs:624`) | - | read the maps | Zenoh queryable |
| Configuration, start-up, executable | - | - | - |

What is hard: the order of discoveries is not the order of changes (builtin
samples are overwritten and taken by threads of DDS in any order); several
endpoints share a route, also endpoints of different topics whose names give one
key; creations fail, for some partitions of an endpoint and not for others; in
forward mode several channels are received from in any order, plugins leave
without a word and come back, and a route is used from two sides; callbacks and
tasks use handles of DDS entities that the event loop deletes and that Cyclone DDS
gives again. The list, each at its line, is under `hazards` in `PROJECT.json`.

What makes each component correct: the discovery ends with what exists
(`QuiescentMirror`, `AdvertisedMirror`); routes exist exactly for their users
(`RoutesAreUsed`, `QuiescentRoutes`), serve all of them (`EventuallyServed`, `ReadersListed`,
`QuiescentServed`), are not interrupted (`RouteNotInterrupted`, `ProxyKept`,
`ReaderRouteKept`) and go away (`EventuallyReleased`, `StayingReleased`); what is
told of them is true (`StatusAgrees`, `RoutedIsActive`, `AdminSpaceExact`); no DDS
endpoint is left behind (`NoEndpointLeak`, `EntitiesHeld`); the gids told to ROS
are those of the routes (`GidsJustified`, `GidsRefreshed`, `LatestForwarded`) and
the event loop never stops handling them (`InfosHandled`); samples and tasks come
to an end (`SamplesSettled`, `WaitersServed`, `OneLatePeriod`, `TasksEnd`), and no
sample misses a DDS writer that lives (`LostToDeletion`).

## 2. Modules

| Module | Models | EXTENDS |
|---|---|---|
| `KeyMapping` | names, key expressions, filters | |
| `QosAdaptation` | durability and reliability, how the bridge derives them, how DDS matches them | |
| `DdsDiscovery` | the domain, the builtin readers, `on_data`, the channel | both |
| `RouteTables` | the fields of `DdsPluginRuntime` and of the routes; the operations both modes share | `DdsDiscovery` |
| `LocalDiscovery` | `run_local_discovery_mode` | `RouteTables` |
| `FwdDiscovery` | `run_fwd_discovery_mode` and the other bridges | `RouteTables` |
| `RosDiscovery` | forward mode composed with `ros_discovery_info` as it arrives | `FwdDiscovery` |
| `RosInfoReader` | the poll of `ros_discovery_info` in the own domain | |
| `RouteLedger` | abstract specification: which clients each key serves | |
| `FwdKeyexpr` | keys of forwarded messages and their parser | |
| `DdsHandles` | handles of DDS entities, which are given again | |
| `DataToDds` | callback, waiting tasks and the atomic handle of the routes to DDS | `DdsHandles` |
| `DataFromDds` | the periodic tasks of the routes from DDS | `DdsHandles` |
| `DataPaths` | both, on one event loop and one set of handles | both |
| `DiscoveryLemmas` | lemmas about `DdsDiscovery` and `RouteTables` | `RouteTables` |
| `LocalDiscoveryProofs`, `FwdDiscoveryProofs`, `RosDiscoveryProofs`, `RosInfoReaderProofs`, `FwdKeyexprProofs`, `DataPathsProofs` | theorems | the module they are named for |
| `FwdServiceProofs` | theorems on what forward mode serves and releases | `FwdDiscoveryProofs` |
| `MC*` | instances for TLC | |

**Correspondence.** Variables have the names of the fields: `discovered_writers`,
`routes_to_dds`, ... A map of routes is the set of its keys plus one function per
field of the route (`dds_reader`, `local_routed_writers`; `topic_name`,
`dds_writer`, `querying`, `local_routed_readers`). In the discovery modules a DDS
endpoint of the bridge is `OwnReader(ke)` or `OwnWriter(ke)`, an entity of the same
domain: creating one puts it in `alive` and in the builtin sample the listener will
take, deleting it removes it. `dds_reader[ke]` is what that endpoint was created
with, `NoEntity` (`DDS_ENTITY_NULL`) or `BadEntity` (a negative handle). Each
handler of an event is one action with everything it calls; a handler that attempts
several creations chooses an outcome for each. The code's loops over partitions
become one set of keys, which is the same as two partitions of an endpoint never
give the same key.

In `RosDiscovery` a gid is the endpoint it names; when a step deletes that
endpoint, the gids listed for it become `Deleted(gid)`, for an endpoint created
later on the key has another gid. The nodes of an info are a function from names to
endpoints, as `NodeEntitiesInfo` are looked up by name. `remap_entities_info` takes
the gid of any of the routes of an endpoint, as the first found in the map is
arbitrary. Where a route that lists the endpoint has no DDS endpoint to give a gid
the loops of `remap_entities_info` do not advance (`lib.rs:1607`): `hung`.

In the data modules an entity has a handle and an instance handle, a number that
never comes back. A route is the number of its creation, with its `Arc` of the
handle. The atomic operations of the code are the steps: `load` of the callback,
`swap` and `dds_delete` of `delete_dds_writer` as two, each poll of a waiting task.
What a callback loaded is remembered with the sample until it is written. A task of
a periodic reader is in the place of its loop that `task[i]` names; each take is a
step. `route_of`, `writer_loaded`, `forwarded` and `late` are history for the
properties.

**Atomicity.** The event loop is one task and its `select!` awaits nothing but
channels; handlers await Zenoh in the middle, but only DDS and Zenoh threads run
then, and they only append to channels, which commutes with what a handler does to
the tables. So a handler is one action of the discovery modules. What callbacks and
tasks see of a handler that is not finished is the subject of `DataPaths`, where
the event loop's deletions are split. The callback of a subscriber may be called by
several threads at once, one sample each. `on_data` takes up to 32 samples in one
call and handles them one by one without other state than the channel; the model
takes one sample per call.

**Distorted definitions.** Operators that no action uses, placed before the
definition they distort (`own_not_ignored`, `stale_refs`, ...), are variants with a
plausible mistake; each checked property is violated when one of them takes the
place of the definition it belongs to.

## 3. Runs

| Run | Instance | Shows |
|---|---|---|
| `LocalTables` | 2 writers whose different names give one key, 2 readers, a participant, 2 partitions, failing and unchecked creations, a denied key | the tables of the local mode agree with each other and with the bridge's endpoints (5 invariants), no route in use is interrupted, and each direction implements `RouteLedger` |
| `LocalLiveness` | 2 writers, a builtin topic, a reader | the bridge ends up knowing the domain and with the routes that it calls for, a staying endpoint ends up served, an abandoned key released; a `Routed` endpoint is matched by DDS when endpoints of one kind have one QoS and no creation is unchecked |
| `FwdToDds` | 2 local readers, a writer at each of 2 plugins, one of which may leave | consistency of the tables, readers listed, nothing left of gone endpoints of the plugin that stays, no interruption, the ledger of the remote writers |
| `FwdFromDds` | a local writer, a participant, a reader at each of 2 plugins, one of which may leave | what is advertised ends up equal to the domain; the ledger of the remote readers |
| `RosDiscovery` | a plugin that joins and leaves, its node with a writer on two keys and a reader | gids are those of the node's own endpoints and are refreshed, infos are always handled, an endpoint of a plugin that stays ends up served |
| `RosPoll` | 2 ROS processes, 3 unread infos | the last info of each process is the one forwarded |
| `DataPaths` | 2 handles, 2 entities, 2 routes to DDS, 2 samples | no entity is lost, no sample misses a writer that lives, every sample is settled, a waiting one is written when a writer comes, a periodic task ends at most one period late |
| `FwdKeyPlain` | names of up to 2 chunks, some of which name a kind | a forwarded message is understood when its scope has no chunk that names a kind and a writer's topic has no inner chunk `reader` |
| `FwdZombie`, `RosCleanup`, `DataRate`, `FwdKeyAny` | the smallest that shows it | the findings below; each violates its one property |

Deadlock is not checked where the bounds stop the environment, after which a
bridge that has handled everything rests.

**Bounds.** `MaxPending` bounds the changes of the domain not handled yet: the
environment waits when that many samples and events are pending. With 2 (local
mode) there are an unread sample and a queued event of the same or of two entities,
which is what overwriting and reordering need; with 1 (forward mode, where the order
of the DDS side is not the question) each change is handled before the next. After
that new changes follow, so histories are unbounded. `MaxSamples` and `MaxInfos`
bound the messages in each channel of the other bridges; with 1 a sample of each
remote endpoint, a group event and an info can be pending together, in every order
across channels, and a query for past samples adds a second to a channel;
`FwdZombie` uses 2. `MayFail` names the keys whose creations may fail, `Periodic`
those whose failed creation is not noticed, `MayLeave` the plugins that may leave.
The properties are about at most two endpoints and one key at a time, and the
instances have two endpoints that share a key, one with another key of its own, a
denied key, and in local mode a key two topics collide on. `RosDiscovery` has one
plugin: two plugins, or one with a local reader as well, give more than three
million states; that nodes and plugins which share routes do not disturb each other
is proved instead (`GidsJustifiedAlways`, `GidsRefreshedAlways`). `MaxCreations = 2` with two handles lets
the handle of a deleted entity be given to the second one, to an entity of the same
or of the other kind; `MaxPolls = 2` stands for the 29 polls of a waiting task, one
that is not the last and one that is.

**Fairness.** `LocalDiscovery!Fairness`: DDS calls the listener as long as a
sample is not taken, and the loop receives as long as its channel is not empty.
`RosDiscovery!RosFairness` adds that `select!`, which polls its branches in random
order, receives in the end from every channel that stays ready; the conjuncts are
about what is received, as a handler is always enabled for it, except that nothing
is received once the loop hangs. `DataFairness`: a waiting task wakes up after each
sleep, a loaded handle is written to, a periodic task goes on. Nothing is assumed of
the domain, of other bridges, or of what the event loop does to the routes. No
strong fairness is needed: a sample or a message stays until it is taken.

**Conditions of the properties.** `ReadersListed` is stated for names that do not
collide: a remote writer's route lists local readers by topic and partition
(`lib.rs:1238`), among which those of its key then are; the theorem assumes it
(`KeysTell`). A route of another bridge's scope lists readers whose own keys differ
from its key: of those it says that they exist, not that all are listed, as a reader
discovered after the remote writer joins the routes of its own keys only. The run has
one scope, the theorem any. In `QuiescentServed`
and `EventuallyServed` of forward mode a key where a creation may fail is not promised: the
code does not retry it before the next sample. `ReaderRouteKept` excepts departures, see the observations.
`OneLatePeriod` and `TasksEnd` are about tasks that read their own reader's instance
handle when they started; one that starts so late that the handle was given to
another reader takes that one for its own (`dds_mgt.rs:526`), and nothing in the code
tells them apart. `TasksEnd` has an exception the code really has: a task stays in
its inner loop as long as whatever has its handle has a sample for each take.

**Findings.** Where the code differs from what the repository says:

1. `FwdZombie`: a sample handled after its plugin's departure brings back a route
   nothing removes, while the handler of the departure says at `lib.rs:1443` to
   remove all references to the plugin's entities. `StayingReleased` is what holds.
2. `RosCleanup`: `cleanup` keeps a node only when *both* its lists are not empty
   (`ros_discovery.rs:303`), against its comment; a node that only publishes, or
   only subscribes, is routed and never listed.
3. `DataRate`: a periodic task takes until its reader is empty, so a publication
   between two takes makes it route two samples of one instance in a period, against
   the README's words about `max-frequency`.
4. `FwdKeyAny`: a writer on a topic `reader/a` is parsed as a reader, against the
   format at `lib.rs:1524`.

**Observations**, where the repository states no intent to hold against the code, or
states that it knows:

- An endpoint that joins a route with another QoS is reported `Routed` although DDS
  may not match it; `_QoSConflict` (`dds_mgt.rs:42`) is never assigned, a TODO at
  `lib.rs:511` tells. `RoutedIsActive` is therefore checked with uniform QoS.
- The periodic branch of `create_forwarding_dds_reader` ignores the result of
  `dds_create_reader` (`dds_mgt.rs:519`), which the other branch checks: a route may
  hold an invalid handle. Its writers are told `Routed`, "Routing is active"
  (`dds_mgt.rs:42`), and nothing reads their data: `RoutedIsActive` fails, and in
  forward mode `remap_entities_info` does not end. Both are checked, and proved, where
  no unchecked creation fails (`Periodic \cap MayFail = {}`). `LocalTables` has such
  routes; `NoEndpointLeak` holds of them, as a bad handle is no endpoint to lose.
- The departure of a plugin drops the route of a local reader (`lib.rs:1450`), which
  a single departure of a writer does not (`lib.rs:1277`, #102); the reader is
  served again when a writer comes back (`ReadersListed`), its status stays `Routed`.
- In forward mode `local_routed_writers` and the statuses of local endpoints grow
  stale (`lib.rs:1096`, `:1452`); they decide nothing there.
- A deletion sample of one endpoint does not touch `participant_info`
  (`lib.rs:1289`); an info that arrives before its endpoints loses their gids
  (`lib.rs:1591`); `update_with` removes no node (`ros_discovery.rs:285`).
- Samples that wait for a DDS writer are written in any order (`route_zenoh_dds.rs:156`).
- A callback that loaded a handle just before its writer is deleted writes to
  whatever has the handle then: the sample is lost or, on another route's writer,
  misrouted. The states of `DataToDds` show it; `SamplesSettled` allows it.

## 4. Proofs

All theorems hold for every value of the constants under the assumptions of the
modules: `NamesAssumption` (the empty partition is no partition),
that of `FwdKeyexpr` (a name is a sequence of strings, a guid is not the name of a kind),
`EntitiesAssumption` (writers, readers, participants and the bridge's own entities
are distinct; types of the parameters), `RoutesAssumption` (invalid handles are no
endpoints), the assumption of `FwdDiscovery` on remote endpoints, `RosAssumption`,
`HandlesAssumption` and `ToDdsAssumption`.

**Local mode** (`LocalDiscoveryProofs`): `TypeOK`, `RoutesAreUsed`, `StatusAgrees`,
`AdminSpaceExact`, `NoEndpointLeak`, `RouteNotInterrupted` and the two refinements of
`RouteLedger`. The five invariants are proved together, as `IInv`, since none is
inductive alone:

- `StatusAgrees` needs `RoutesAreUsed`: when a listed endpoint is updated its
  route is found again, so no creation is attempted that could fail and leave the
  endpoint listed by a route its status no longer names.
- `TypeOK` and `NoEndpointLeak` need each other: a route to DDS always has its DDS
  writer in this mode, so the branch of #102 that gives one to an existing route
  is never taken and `dds_writer` keeps the type of an endpoint.
- `AdminSpaceExact` needs `RoutesAreUsed` for the routes an update finds.
- `TypeOK` says that no *discovery* of an own endpoint is in the channel, which
  makes the handlers of own events harmless for the others.

The lemmas `DiscoveredPublicationEffect` and `DiscoveredSubscriptionEffect` first
reduce each discovery, with its choice of outcomes, to its effect on the tables;
then each action has a lemma that proves each part of `IInv`; `StepPreserves`
combines them. The action property and the two refinements follow step by step
from `IInv` and the same effects (`StepKeepsRoutes`, `FromDdsStep`, `ToDdsStep`).

`QuiescentMirror` is about a quiet state; its invariant (`Mirrors`, in
`DiscoveryLemmas`) follows each entity through the pipeline: if its builtin sample is
not taken the sample agrees with what exists, else if an event of it is in the channel
the last one does, else what the bridge knows does. It does not mention the order of
events of different entities, so their reordering preserves it.

`RoutedIsActive` assumes `Compatible` (endpoints that share a key are on one topic and
each matches what the bridge derives from the QoS of any other) and that no unchecked
creation fails (`Periodic \cap MayFail = {}`); the code guarantees neither. The QoS of a
route is that of its first endpoint: `FirstsInv` says that what was made of some
endpoint of the key stays, and `AdaptedMatch` that an endpoint matches what the bridge
makes of it (#165), by cases on durability and reliability. The instance of
`LocalLiveness` satisfies both assumptions, and `AlikeAreCompatible` shows that
endpoints of one topic and QoS always satisfy the first.

`QuiescentRoutes` joins the two sides: what the bridge knows once it is quiet
(`QuiescentMirror`) and what its tables make of that (`RoutesAreUsed`, `StatusAgrees`,
`NoEndpointLeak`). A route lists exactly the existing endpoints that call for it, but
those whose status says `CreationFailure`, and no DDS endpoint of the bridge stands
for nobody.

**Forward mode** (`FwdDiscoveryProofs`): `TypeOK`, `RoutesAreUsed`,
`WriterIffRemoteWriter`, `AdminSpaceExact`, `NoEndpointLeak`, `ProxyKept`,
`ReaderRouteKept` and both refinements, by the same scheme. Again the conjunction of
the five is what is inductive: a put finds the DDS writer of a route exactly when
`WriterIffRemoteWriter` and `RoutesAreUsed` say so, and what it creates is accounted
for by `NoEndpointLeak`. The actions that only a remote endpoint or a departure can
take are reduced to what becomes of the sets of remote endpoints; the ledgers' steps
follow, with a departure the step of a whole group of clients. `AdvertisedMirror` is
proved with the invariant `Mirrors` of the local mode, of what is advertised instead
of what is known.

**What forward mode serves and releases** (`FwdServiceProofs`):

- `StayingReleased`: `ReleasedInv` says of an endpoint whose plugin stays that the
  last sample on its way tells whether it exists, and that without a sample on its way
  it is served only if it exists. An answer to a query for past samples is a put of
  an endpoint that exists at that moment, so it keeps this.
- `QuiescentServed`: an endpoint of a connected plugin has a group event pending, or a
  put as its last sample on its way, or is served on its allowed keys but those where a
  creation may fail (`ServedInv`); which plugins are connected is what the last group
  event of each says (`MembersInv`). A creation that fails is not retried before the
  next sample, which is why those keys are excepted.
- `QuiescentProxies`: the bridge's own DDS endpoints stand for the endpoints of the
  other domains, by `QuiescentServed`, `StayingReleased`, `NoEndpointLeak`,
  `WriterIffRemoteWriter` and `ServedKeysAllowed` (an endpoint is listed on allowed keys
  of its own only). Where an endpoint of the key is of a plugin that may leave only one
  direction holds: that is the finding of `FwdZombie`.
- `ReadersListed`, assuming `KeysTell`: a key tells the topic and partition it comes
  from. A departure may drop a route that local readers still use; the theorem says the
  next remote writer finds them all again. `TellingNamesTell` derives `KeysTell` from a
  condition on the configuration: topics of one number of chunks, and one scope or no
  partitions.
  The instance of `FwdToDds` satisfies `KeysTell`.
- `ListedExist`, the part of `ReadersListed` that no reader is listed that is gone, or
  whose topic and partition the key is not about, needs no condition
  (`ListedExistAlways`): the undiscovery of a reader goes through all routes, of all
  scopes. An instance of `FwdToDds` with bridges of two scopes has too many states, so
  that several scopes are the theorem's.

**`ros_discovery_info`** (`RosDiscoveryProofs`): `RosRefinesDiscovery` shows that the
composition implements `FwdDiscovery`, so everything above holds of it too. The
inductive invariant behind `RosTypeOK` and `GidsJustified` says of infos still in the
channels that they tell of a node's own endpoints only, for any node and plugin, and
needs that a route lists a remote endpoint only under that endpoint's own keys:
this is what keeps the gids that `remap_entities_info` puts in an info justified.
`RemapAlwaysEnds` adds `WriterIffRemoteWriter`, `RoutesAreUsed` and `NoEndpointLeak`
of forward mode: a route that lists a remote endpoint has a live DDS endpoint,
provided that no creation both may fail and is unchecked
(`Periodic \cap MayFail = {}`). `RosServesAlways` states the results of forward mode of
the composition.

`GidsRefreshed`, under the same assumption, needs `PublishedInv`: what the bridge wrote
last is its `participant_info`. A departure removes from all nodes the gids of the
routes it drops, and the DDS endpoints it deletes are among those, since a dropped route
holds its endpoint as long as that lives (`DepartureTellsGids`, from the invariants of
forward mode): no gid of a deleted endpoint stays listed, and none is added
(`NothingDeleted`, `GroupEventAddsNone`). A received info replaces the gids of the nodes
it tells of by those of routes whose DDS endpoints exist, as the end of the remapping
requires (`InfoListsExisting`).

**Forwarded keys** (`FwdKeyexprProofs`): `PlainUnderstood` for names of any length. The
parser searches a chunk; the proofs give the position of each chunk of a key
(`KeyChunks`) and show that the place where the code finds the kind is the one where
the sender put it: for a reader nothing before it is `reader`, for a writer nothing in
the key is `reader` between slashes, for an info nothing is `reader` or `writer`.
`PlainKeysDistinct` says that two plain messages have two keys, which the publication
cache of the sender relies on.

**The poll** (`RosInfoReaderProofs`): `LatestForwarded`. The inductive invariant says of
each process that its last sample in the reader is what it wrote last, and, when none is
left there, that the map of the read that is going on holds it, or else that it is
forwarded.

**Data paths** (`DataPathsProofs`): `DataTypeOK`, `EntitiesHeld`, `OneLatePeriod`.
`EntitiesHeld` is about handles, and handles come back; its induction rests on
`HandlesInv` (a live entity has one handle, instance handles are not given twice)
and `RoutesInv` (while an entity is being deleted its route holds none, so that the
route, the deletion and the reader hold disjoint handles). `OneLatePeriod` is
inductive with `TasksInv`: a task that began a period late, and read its own reader
first, is between that wake-up and the check that ends it, and its reader does not
come back.

`LostToDeletion` needs `StaleInv`: only the last route of the key has a DDS writer in
its `Arc`, and whatever handle a sample has loaded, the entity behind it then is found
under no other handle for as long as it lives, since instance handles are not given
twice (`HandlesMove`). The same of the periodic tasks gives `OwnSamplesTaken`.
`SettlingStep` is the part of `SamplesSettled` without fairness: a measure, the steps
the task of a sample has left, that its steps decrease and no other step increases.

**Model-checked only.** Liveness (`EventuallyServed`, `EventuallyReleased`,
`InfosHandled`, `SamplesSettled`, `WaitersServed`, `TasksEnd`), as temporal reasoning
under fairness is beyond the prover. Every invariant and action property of a passing
run is a theorem. What is proved of the liveness properties is what holds in the states
they lead to (`QuiescentRoutes`, `QuiescentServed`, `QuiescentProxies`), that the loop
of `remap_entities_info` ends (`RemapAlwaysEnds`), and `SettlingStep`.

## 5. Not modelled

- Contents of data samples and their (de)serialization; history, durability service
  and the other QoS policies, entity names and user data; type information; shared
  memory.
- Regular expressions (a set of keys stands for one) and the values of frequencies
  (a set of keys that are read periodically).
- Characters of names: a name is a sequence of chunks. A name that is no key
  expression makes the code panic and is excluded.
- `data_forwarder_listener`: a loop of take and put without state.
- Historical data: which routes query is in `RouteTables`; caches and queries are
  Zenoh's, and the bridge keeps no state about them.
- Admin queries only read the maps and format JSON; what they may rely on is
  `AdminSpaceExact`.
- Error paths that only log: a failed serialization, a failed put, a failed write of
  `ros_discovery_info`, which stays as it was until its next change.
- A query for a joining plugin's past discovery messages that fails or times out
  (`lib.rs:1429`): it is answered in one step with what the plugin advertises then, and
  its `ros_discovery_info` with the participants' current infos. `QuiescentServed` and
  `EventuallyServed` rest on that.
- Changes of an entity's partitions or QoS: an update keeps them, as Cyclone DDS does
  not propagate changes of the policies that routes depend on.
- Single DDS calls in the data paths: looking up the type and writing are one step, so
  are a take and its put, and samples without valid data count as put.
- Configuration parsing, start-up and the executable: no control to speak of.

## 6. Plan

Done, in this order: `KeyMapping`, `QosAdaptation`, `DdsDiscovery`, `RouteTables`,
`LocalDiscovery` with `RouteLedger`, its proofs, `FwdDiscovery`, `FwdKeyexpr`,
`RosDiscovery` and `RosInfoReader`, the data paths, the proofs of forward mode, of
`ros_discovery_info` and of the data paths, the invariants of the messages in flight
(`QuiescentMirror`, `AdvertisedMirror`, `StayingReleased`, `QuiescentServed`,
`LatestForwarded`), `RoutedIsActive` and `ReadersListed`, the keys of forwarded
messages, `GidsRefreshed`, what the routes are once a mode is quiet (`QuiescentRoutes`,
`QuiescentProxies`), and the steps of a sample (`LostToDeletion`, `SettlingStep`).

What could follow: two bridges composed, so that the samples one advertises are those
the other receives (the other bridge is now the environment of `FwdDiscovery`); names
at the level of characters for `FwdKeyexpr`.
