# TLA+ models of comapeo-core

comapeo-core is the peer-to-peer database under CoMapeo: devices on a local
network find each other, invite each other to projects, and replicate the
append-only logs ("cores") of a project, as far as their roles and the user's
wishes allow. This directory holds TLA+ models of the parts in which order,
failure and concurrency matter, the configurations under which TLC checks them,
and proofs checked by TLAPS.

All paths below are relative to the repository root (`src/...`).

## 1. The system

JavaScript is single-threaded: a handler runs without interruption up to its
next `await`. Everything that is hard comes from what happens *between* two such
steps: events, timers, messages and the resumption of other handlers, in any
order. So one action of a model is one handler up to its next `await`, and what
a handler keeps across an `await` is a variable.

| Component | State it keeps | Operations | Interacts with | Hard behaviour | What makes it correct |
|---|---|---|---|---|---|
| `SyncApi` (`sync/sync-api.js`) | what the user wants, full stop, autostop duration and timer, previous enabled state, controllers by connection and by device | `start`, `stop`, `setAutostopDataSyncTimeout`, `waitForSync`, background/foreground, peers that come and go, 'state' events, server websockets | tells every `PeerSyncController` the enabled state; reads `SyncState` | timers against events, peers whose connections overlap, throttled events | an armed timer has a reason; a full stop lasts; what was asked for is reached |
| `PeerSyncController` (`sync/peer-sync-controller.js`) | capability, sync status, enabled namespaces, replicating cores | enabled state, 'state' events, role updates, added cores, discovery keys, dispose | `Roles`, `CoreManager`, `SyncState`; opens and closes hypercore channels | overlapping asynchronous reads of the role, cores that are not ready | what replicates is what the role and the enabled state permit |
| `SyncState`, `NamespaceSyncState`, `CoreSyncState` (`sync/`) | haves and wants per core and peer, status, cached sums | pre-haves, want ranges, peers added and removed | `CoreManager`, `BlobStore` | stale caches, late promises | the sum says whether anything is left to exchange |
| `MemberApi` (`member-api.js`) | outbound invites by device | `invite`, `requestCancelInvite`, `addServerPeer`, removal, look-ups | `LocalPeers`, `Roles`, `SyncApi` | cancel, response, disconnect and a second invite race | a role is given to who accepted, and nobody else |
| `InviteApi` and its state machine (`invite/`) | one machine per received invite | received, cancel, details, `accept`, `reject` | `LocalPeers`, `MapeoManager.addProject` | several invites to a project; timeouts | a project is joined at most once, with consent |
| `LocalPeers` (`local-peers.js`) | a `Peer` per connection, the last list emitted, connections that are opening, drain and ack waiters | connections, ordered messages with acknowledgements, device info | the two above; projects replicate with its peers; discovery keys for `SyncApi` | ack before drain, disconnect before ack, a device with two connections | every send settles; a project replicates on what is connected |
| `LocalDiscovery` (`discovery/`) | one connection per remote device, a TCP server | `connectPeer`, `start`, `stop` | hands connections to `MapeoManager` | both sides connect at the same time | both keep the same connection |
| `DataStore` (`datastore/`) | pending appends, pending index, pending emits | `write`, batches of the indexer, idle, close | hypercore, multi-core-indexer, `IndexWriter`, `DataType` | a batch before its append has returned, restarts | read your writes; no block and no update lost |
| `IndexWriter`, `DataType` | tables; the versions of a document | `batch`; create, update, delete | `DataStore` | concurrent updates fork a document | every fork is kept and replaced by the next update |
| `Roles`, `CoreOwnership` | role and ownership documents | `getRole`, `assignRole`, `getOwner` | `DataType` of auth | a role changes between check and write; records arrive in any order | only who may assign assigns; a replaced role stays replaced |
| `CoreManager` (`core-manager/`) | cores, keys, index by discovery key | `addCore`, extensions, `deleteOthersData` | hypercore, SQLite, `SyncApi` | keys that arrive twice or early, restarts | the cores of members, and no others, are known and stay known |
| `MapeoManager`, `MapeoProject` | active projects, the project keys table | create, add, get, leave, background | everything | concurrent `getProject`, a crash or a failure while leaving | a left project is cleared before anyone gets it; a joined one has its data |
| `BlobStore` (`blob-store/`) | filters and streams by device, downloader | intents, drives, entries, `setIsArchiveDevice` | hyperdrive, `CoreManager`, `SyncState` | the filter changes during a download or on the way to a peer | what matches is wanted and downloaded, and nothing else |
| bitfields, language tags, filters | none | pure functions | sync, core manager | boundaries | the result is that of the definition |
| HTTP plugins, import, export, schemas | none of their own | requests, files | all | none that is theirs | out of scope |

`PROJECT.json` lists the same components with the files and the status of each,
and under `hazards` the places in the code where something could go wrong that a
test would hardly reach, each with the properties that cover it.

## 2. The modules and how they correspond to the code

`PROJECT.json` ("map") gives the lines for every definition. A definition named
`Defect_...` is not part of a model: it is a plausible bug, kept to see that the
property it is aimed at can fail.

The modules follow the components. `InviteProtocol` composes two of them over a network,
`DataStore` refines `AtomicStore`; the others stand beside their neighbours: what one
promises is the environment of the next. `LocalDiscovery` hands over connections,
`LocalPeers` makes peers of them, `ProjectCores` says which cores they share,
`PeerSyncController` which of them replicate, `Roles` by whose word, `DataStore` how what
arrives is indexed, `BlobStore` and `NamespaceSyncState` what is wanted of it, `SyncApi`
when, and `ProjectLifecycle` how long.

### SyncApi

State: the fields of the class under their own names; `peerSyncControllers` maps
each live connection to the last value it was given; `namespaceState` is what
`kSyncState.getState()` returns, reduced to what the policy reads (is there data
to sync, how many data blocks do we have, the status of each tracked device);
`updateTick` and `stateEvent` are the two delays between a change of the sync
state and the 'state' event (`process.nextTick`, throttle); `waiter` is one call
of `waitForSync('full')`.

`UpdateState` is `#updateState` as a function of the state it is given; every
action that calls it applies it after its own assignments, as the code does.
`NextEnabledState` and `NextTimer` are its two outcomes. `HandleState` also runs
the listener of `waitForSync`.

The environment: `NamespaceStateChanges` changes the sync state at will and asks
for an update; `CapabilityChanges` is a controller whose role was read again;
`CorePeerAdd` is a peer that appears on a core.

### PeerSyncController

One controller. `reads`, `ownerReads` and `resumes` are the calls of
`#readAndCacheSyncCapability` in flight: in the role table, waiting for the
core ownership, and returned. An entry is what the call will do with
`auth` afterwards (`#refreshSyncCapability` puts the earlier value back,
`#handleStateChange` does not). `replicatingCores` is the set of the code;
`replicated` are the cores with an open channel on the connection, and
`unreplicating` the calls of `#unreplicateCoreRecord` that wait for `ready()`.

`UpdateEnabledNamespaces` is `#updateEnabledNamespaces` with
`#enableNamespace`, `#disableNamespace`, `#replicateCoreRecord` and
`#unreplicateCoreRecord` as far as they are synchronous.

### InviteNetwork, MemberApi, InviteApi, InviteProtocol

`InviteNetwork` is the RPC channel of `LocalPeers`: one ordered queue of messages
in each direction for each invitor, lost when the connection closes. A send is
`draining` (the stream did not take it at once) or `awaitingAck`; the
acknowledgement is sent by the receiving end whatever it does with the message.

`MemberApi` is `invite()` of the members who invite: `phase` is where a call
stands, `outbound` is `#outboundInvitesByDevice`. `InviteApi` is the invited
device: `state` is the state of an invite's machine, `reply` the send of
`responding`, `member` the row of the project keys table. `choice` is a history
variable: what the device answered. `InviteProtocol` composes both over the network;
a disconnect happens at both ends in one step.

All invites are to one project, since the machines look at each other only
within a project. Left out: the writing of device info, details of a wrong peer,
and projects that were left before.

### LocalDiscovery

Two devices, named by the order of their keys, and a fixed set of connections
that may be tried. `ends` has the state of the stream at each end: the initiator
opens first, the other end when the last handshake message arrives, even if the
initiator has meanwhile destroyed its end; `closing` is a stream destroyed whose
'close' event is due. `noiseConnections` is the entry for the other device,
`handedOver` the connections emitted and not closed, `swaps` the listeners that
`#handleConnectionSwap` put on each stream, in the order in which they were added. When a
stream closes they run one after the other, each on what the one before it left (`Resumed`).

`connectPeer` compares an mDNS name with a map keyed by public ids, so its check
never stops a second attempt, and the model has none.

### DataStore

`written` is where each call of `write()` stands; `blocks`, `indexed` and
`processed` are what the cores, the SQLite tables and the indexer's own storage
hold, the three things a restart keeps; `stage` is where `#handleEntries`
stands and `awaiting` the promises its `Promise.all` collected. The indexer
(multi-core-indexer) is external: it passes any non-empty set of blocks it has
not processed, as soon as the core has them, which may be before `append()`
returns to `write()`.

`AtomicStore` is what the store promises to those who write: an entry becomes
readable in one step, after its write was called and before it returns, and
stays readable. `DataStore` implements it (`ImplementsAtomicStore`) with the tables
as the readable entries and `CallOf` as the state of a call.

### NamespaceSyncState

One namespace of one device: `NamespaceSyncState` with its `CoreSyncState`s, and the part of
`SyncState` that announces changes. Bitfields are sets of blocks, the fields of a peer's
`PeerState` are relations between cores and peers (`remoteStates`, `preHaves`,
`remoteHaves`, `wants`; `limited` where `#wants` is not null). `coreStates` is a sequence,
since the status of a peer depends on the order of its cores. `DerivedState` is
`deriveState` summed by `getState`; `cachedState`, `updateTick` and `stateEvent` are the
cache and the two ticks (the second throttled) between a change and its event.

Connections, hypercore (open channels, blocks, bitfield and range messages) and the
download intents of BlobStore are the environment. `unannounced` is a history variable: the
code does not call `#update()` for a core that is added or ready, nor for a capability. A
promise that belongs to a deleted `PeerState` is left out: it only asks for one more update.

### ProjectLifecycle

One project of one device. On disk: `row` (the project keys table with
`hasLeftProject`), `settings` (its row in the shared settings table), `blocks` of other
devices and `tables`; a crash keeps these. In memory: `activeProject` (`#activeProjects`),
the instances with their data stores, those that have been active (`registered`), and the
calls under way, each described by what it waits for (`pc`). `Open` is `getProject` up to its
first await and is part of `GetProject`, `AddProject`, `AddAfterClose` and `LeaveProject`, as in
the code; `kClearData` is three steps, `StoresClosed`, `OthersDeleted` and `Cleared`, run by
`getProject` or by `leaveProject`. While a store is open or being closed, `Index` can put
documents and project settings into the tables.

Calls overlap in any way, as nothing in the code keeps them apart: each that finds no active
project makes an instance, and the last to be ready takes the place of the others. Any call can
be rejected wherever it awaits something that can fail, whether or not its instance is still
open (`CallFails`), or because no instance can be created (`NoInstance`). What it did before
stays: a leave that fails leaves the row as 'left' and the instance active and uncleared. An
instance can be closed as soon as it was active, by anybody who has got it (`CloseProject`), and
the listener of 'close' deletes the entry of the project even if that is another instance by then.

`contended` and `failed` are history variables, which no guard reads: the instances that
were opened while another was there, or while an `addProject` waited for a close, and those
on which a call was rejected and which were not cleared since. They let a property except
the instances for which the code does not provide and still speak of all others in the same
behaviour.

The own role does not matter to the rest and is not kept. `blocks` are those of the cores known
when the device leaves: cores announced afterwards through auth, by a device that has not heard of
it, are cleared at the next opening and left out. `close()` does not fail. The two assignments
of `addProject` and the `getProject` it calls to the entry of the project are one step, though a
microtask is between them. With storage in a folder hypercore locks its files, so that a second
instance may fail later than here; with other storage nothing stops it.

### Roles

The role records of a project on all its devices. `versions` are the records that have been
written, each with the versions that it replaces; `known` is which of them the index of
each device has. `Heads` are the versions to which no known version links, `Row` the one
that is shown, as `@mapeo/sqlite-indexer` decides (external: the newest, of equals the one
with the higher id). `RoleOf` is `getRole`. A call of `assignRole` has a step for each
`await` that reads: its own role (`CheckPermission`), the record (`ReadExisting`), the
second look of `kCreateWithDocId` (`CheckExisting`), and the write.

Replication gives any device any block that another has (`ReceiveRole`), so a version may
arrive before the one it replaces, and be forwarded by a device that did not write it.
`Skewed` devices write times that may be older than everything. `past` and `seen` are history
variables: what a version replaces at any distance, and what its author knew.

### LocalPeers

One device with several others. A `Peer` is named by its connection. `StreamOpens` and
`MakePeerAgain` are the two calls of `#makePeer`, `ChannelOpens` and `StreamCloses` its two
callbacks. `ChooseDevicePeer` is `chooseDevicePeer`, and `EmitPeers` is part of every action
whose handler emits. `replicating` is what the listeners of an open project have made of the
events (`mapeo-project.js`). `sends` are the calls of `sendDeviceInfo` that the manager
makes for a new connection: they wait for the connections that were opening, and then for a
peer. `overlapped` is a history variable: the devices that ever had two live connections.

### ProjectCores

Which cores a device knows. `cores` is `CoreIndex`, `saved` the table that a restart reads;
the own cores and the creator's are derived from keys (`Derived`). `ownerships` and
`roles` are the documents that are indexed. `tasks` are the handlers of SyncApi under way
(`#handleRoleUpdate`, `#handleCoreOwnershipUpdate`), each before its read of the ownership or
of the role; `scanning` is the look at all documents at the start. `messages` are the auth core
keys sent with `mapeo/project`. They are sent on 'peer-add' only: a core that becomes
known later is announced to a peer when it connects again.

The namespaces but auth are one core, as they are always added together. How documents
replicate is external: a device indexes a document of a core that it knows when a connected
device has it.

### BlobStore

Two devices. For each: `filters` (`#blobFilters`), `streams` (`#entriesStreams`), `wants`
(what its sync state takes both devices to want), `downloader`, `drives` and `entries`.
`todo` of a stream are the entries that it has still to yield, `covers` the drives that were merged
into it. `link` is the connection on which the creator core of a device has the other as a peer;
the two ends see a connection come and go at different times. `Replaced` is the downloader that
`setIsArchiveDevice` puts in the place of the old one, whose downloads are destroyed.

An entry that a stream has yielded is handled in one step, though the code emits it a microtask
later. A downloader that fails stays stopped until the setting changes (`DownloaderFails`).

## 3. What is checked

| Run | Instance and bounds | Result |
|---|---|---|
| `sync_api` | 2 devices with a connection each, one pre-sync and one data namespace, one duration, 1 data block (275,000 states) | all properties hold |
| `peer_sync` | the creator core and one data core, 3 namespaces, roles member and blocked, 2 reads in flight (377,000 states) | all properties hold |
| `invite_protocol` | 2 invitors with an invite each, 1 disconnect (239,000 states) | all properties hold |
| `local_discovery` | 3 connections, two tried by the lower device and one by the higher, 1 broken connection, 1 stop (90,000 states) | all properties hold |
| `data_store` | 2 writes and 1 remote block, 2 documents, 2 schemas, 1 failed append, 1 restart, 1 listener (32,000 states) | all properties hold |
| `sync_state` | an own core and one of another device, 1 peer, 1 block per core, 1 `core.update()` in flight for each core, 2 changes (121,000 states) | all properties hold |
| `project_lifecycle` | 2 calls, 3 instances; any number of crashes and rejections (2,622,000 states) | all properties hold |
| `roles` | 3 devices, one with a wrong clock, 2 calls under way, 3 records, 5 assignments (630,000 states) | all properties hold |
| `local_peers` | 3 connections, two of one device; a project that is opened once (320,000 states) | all properties hold |
| `blob_store` | a preview and an original of one device, 2 connections, 1 change of the other's setting, 1 restart (1,736,000 states) | all properties hold |
| `project_cores` | 3 devices, one new to the creator, one met before; 2 connections, 1 restart, 1 clearing of the project (1,640,000 states) | all properties hold |
| `invite_ack_lost` | as `invite_protocol` | violated: section 5 |

Why the bounds are enough to meet the cases:

* Cores and blocks of NamespaceSyncState: one core that the device writes and one that it
  downloads make both directions of the exchange; the peer's states of the two are created
  by different events. More blocks only make the sums larger. Two changes (connections,
  closed cores, 'have' messages, filters, capabilities; a filter that this device has from the
  start counts as one) are what a filter before or after a connection takes.
* Connections: one per device is what two SyncApi peers need to differ. Three in LocalDiscovery
  are the fewest for which a same-direction duplicate and a tie-break occur together, and for
  which a swap is interrupted by another connection. Two of a device and one of another in
  LocalPeers make a reconnect, a duplicate, and a device that must not be touched by either.
* Roles: with three records a version is replaced, forked and replaced again, and two calls
  can overlap on one device or on two. The assignments have one that gives authority, one that
  takes it away, one that leaves, and one for the creator.
* BlobStore: two connections and a restart make each end forget, and what is left of the first
  connection meet the second. One blob passes the filter and one does not.
* ProjectCores: the devices are in one place each: the creator, one it has met in an earlier run and
  one whose documents both arrive in this one, by way of the creator.
* `MaxHave = 1`: the code only asks whether the number of blocks *changed*.
* `MaxReads = 2`: two overlapping reads are what overtaking takes.
* Two invites: the machines are only coupled in pairs (`isJoiningProject`, `accept`,
  `#outboundInvitesByDevice`).
* ProjectLifecycle: two calls are what a leave that is overtaken by a join takes, or two openings at
  once; three instances are one active, one closing and one opening, or a closed one beside
  two that overlap. No counter bounds it.
* Two writes and a remote block: a batch can hold a write that waits, one still
  being appended, and a block that nobody waits for, in one or several batches.
* One disconnect, drop, stop, failure or restart: each can fall at any point.

The properties, by what they are about. Each module has a type invariant as well (`TypeOK`, or
`LifecycleTypeOK`, `InviteTypeOK`, `DiscoveryTypeOK`). It is a theorem for every module. No run repeats it.

* **SyncApi.** `TimerJustified`: an armed autostop timer always has its reason (data
  sync wanted and on, no full stop, the current duration, no data since).
  `FullStopSticks`: a full stop that was reached is only left by coming to the
  foreground. `FullStopCompletes`, `AutostopStops`, `WaiterResolves`: once
  everything is, and stays, exchanged, what was asked for happens.
* **PeerSyncController.** `ReplicationBookkeeping`: three records of what replicates
  (the enabled namespaces, `#replicatingCores`, the channels) agree but for a
  delayed unreplicate. `EnabledNamespacesPermitted`: between handlers no
  namespace is enabled against the capability or the enabled state.
  `CapabilityFollowsRole`: with the own core ownership written before the
  connection, the capability that is left after all reads is the current role's.
  `ForbiddenStops`, `MemberSyncsData`: what the role and the state ask
  for is reached, for cores added or opened late too.
* **NamespaceSyncState.** `CacheCurrent`: a cached sum that is not about to be cleared is the
  sum over the present state. `ChangesReported`: listeners, told ticks later and from the
  cache, end with the state as it is. `WantsFollowFilter`: on every core, whenever and by whatever its state was
  created. `SyncCompletes`: the condition on which full stop, autostop and waitForSync rest.
* **Invite protocol.** `DecisionsAgree`: the invitor reports, and acts on, what the
  device answered. `JoinsWithConsent`: who joins accepted, and the invitor knew.
  `OneJoins`: at most one invite is joined, though
  two may be accepted. `AnsweredInviteEnds`: an answered invite ends on a
  connection that stays up and whose streams take every message at once.
* **ProjectLifecycle.** `LeftIsCleared`: whoever gets a left project gets it cleared, after a
  crash or a rejected call in any step of leaving as well. `JoinedIsUsable`: joining again does not
  end with the cleared instance, though leaving may still be under way or have failed. Each
  excepts, by instance, what the code does not provide for: an instance that had not the project for
  itself, and in `LeftIsCleared` one on which leaving failed, until it is cleared or closed.
* **LocalDiscovery.** `OneHandedOver`: one connection at a time, and the map is never
  cleared by a predecessor.
  `SettlesOnOne`: the tie-break leaves one connection, the same at both ends.
  `ForceStopCloses`: a forced stop ends although connections open or swap meanwhile.
* **DataStore.** `WritesReturn`, `UpdatesAreHeard`, `BlocksAreIndexed`: nothing is lost, also
  not in a restart between append and index, nor when a batch overtakes the append whose
  write it answers. `ImplementsAtomicStore`: seen from outside, a write is atomic, durable and
  read by who wrote it.
* **Roles.** `AuthorityHeld`: whoever assigned a role had been given the authority before, by
  another. `OverridesWhatWasKnown`: an assignment replaces everything its author knew, forks
  included. `RoleNeverReverts`: with right clocks, a replaced role is never shown again, though
  records arrive in any order and with gaps.
* **LocalPeers.** `ProjectsReplicate`: an open project replicates on a connection if and only if
  it is up. `InfoIsSent`: device info goes out on the connection that was made, not on an older
  one of the device, or the call fails. Both leave out devices that had two live connections at
  a time, of which the code shows one.
* **BlobStore.** `IntentsCurrent`: of two connected devices each knows the other's filter, or is
  about to. `WantsFollowEntries`: the ranges in the sync state are those the filter in force lets
  pass. `NoUnwantedDownload`, `NoneForgotten`: what is wanted, and only that, is downloaded.
* **ProjectCores.** `MembersAdded`, `OnlyMembersAdded`: the cores of a device are added if and only
  if it has both documents, in whatever order they come. `NothingForgotten`: restarts and the
  clearing of a project keep all auth cores.

Deadlock is checked for SyncApi and ProjectLifecycle only. A controller can be disposed, an invite can
have ended, connections can be used up and a store can be closed: those systems
may stop.

### Fairness

Only what the event loop and the runtime owe is fair, and always weakly: timers fire,
'state' events are delivered, promises that can be resolved are resolved and their
continuations run, cores become ready, messages on a live connection are delivered in
order, destroyed streams emit 'close', storage answers, an open indexer works, and a wanted block
that a connected peer has on an open core is reported and transferred. Users,
peers, roles, disconnects, cancels and the two timeouts of the invite machine are not
fair: nobody has to act. In LocalPeers only the waits of `sendDeviceInfo` are fair, whose timers
fire; in Roles, BlobStore, ProjectCores and ProjectLifecycle nothing is, and no liveness is claimed. A broken connection is noticed (`RemoteGone`): streams of
one TCP connection end together, keep-alive finds a dead peer.

## 4. What is proved

Every invariant and every action property that a passing run checks is a theorem, for every value of the
constants that satisfies the assumptions named in the modules. Of the eight modules of proofs
three are about two components each, which have no variable in common; the second half has
its own names (`InviteSpec`, `DiscoverySpec`, `LifecycleSpec`).

* `SyncApi_proofs` (assumes `ConstantsAssumption`: `DeviceOf` is a function, `Null` is
  none of the values it stands beside). The invariant is `TypeOK /\ TimerJustified`:
  neither half is inductive alone, since a timer that survives `#updateState` must
  have been justified before it, and a fresh one takes its fields from the
  typed state. The lemmas are about `NextTimer` and `UpdateState`; each action then
  only says what it hands to `UpdateState`. Theorems: `TypeCorrect`,
  `AutostopJustified`, and `FullStopIsFinal`, an action property that follows from the
  definition of `NextEnabledState` for each caller of `#updateState`.
* `PeerSyncController_proofs` (assumes that auth and config are pre-sync namespaces). The
  invariant `BookInv` adds to
  `ReplicationBookkeeping` the types (a core that is added is in none of the sets) and
  that the creator core is known. The lemma about `UpdateEnabledNamespaces` carries
  the argument: cores of namespaces that change are moved together, others are
  untouched. `LastRoleWins` (`CapabilityFollowsRole`) is about a device that has written its core
  ownership, so no read waits a second time. Reads then end in the order in which they began, and
  as every change of the role begins one, the last to end has read the current role
  (`OrderInv`). Theorems: `TypeCorrect`, `BookkeepingCorrect`, `NamespacesPermitted`, `LastRoleWins`.
* `NamespaceSyncState_proofs` (assumes `NamespaceSyncStateAssumption`: this device is none
  of its peers, the cores are finitely many, the bounds are numbers). `WantsFollowFilter` is not
  inductive: a state that comes into existence must not find `#wants` of an earlier one
  (`NothingLeft`), and `PeersTracked` needs that every core that can be replicated has a state
  (in `Kinds`). The lemma `CoreIsKnown` says what creating a state does to the known cores; then
  each operation keeps the four parts of `IInv`. `CacheIsCurrent` (`CacheCurrent`) compares sums over
  cores, of which nothing has to be known: `DerivedState` reads a few variables
  (`DerivedFromInputs`), and every step either announces a change, or is one that the code does
  not announce, or changes none of them (`CacheStep`). The hard steps are those which announce nothing
  because a peer has no state on any core: there the sums are shown to be the same. Theorems:
  `TypeCorrect`, `StatesOfConnectedPeers`, `FiltersReachAllCores`, `CacheIsCurrent`.
* `DataStore_proofs`. `NoMissedBatch` is not inductive: while a batch is
  under way, it needs that its entries are in the tables (`BatchIndexed`) and that
  the appends that were under way when it was written are still awaited
  (`AppendsAwaited`); `ReturnedIsIndexed` needs that only indexed writes are told so
  (`ResolvedIndexed`), and the pending maps must agree with the calls
  (`CallsTracked`). Theorems: `TypeCorrect`, `ReturnsAfterIndex`, `NoneMissed`, and
  `StoreRefines`: every step maps to a step of `AtomicStore` or a stutter. It rests on the
  same invariant: a returning write was resolved, hence indexed; what a batch stores is in
  a core, hence was written or downloaded.
* `Membership_proofs`, first half: Roles (assumes `RolesAssumption`). For `AuthorityHeld` the invariant
  `CallsPermitted` says the same of calls that are past the check, whose author can lose the role
  before the write: it speaks of the version that gave the authority, which stays written. `Numbered`
  makes the number of a new version one that no other has. `OverridesWhatWasKnown` needs that a version
  which is known and is no head is replaced, at some distance, by one that is; this is the maximum of a
  finite set (`Greatest`). For `RoleNeverReverts` a version is newer, by number and with a right
  clock by date, than all it replaces at any distance (`Dated`): the row is then the greatest of
  the versions that are known (`RowIsGreatest`), and what is known grows. Theorems: `TypeCorrect`,
  `RolesNeedAuthority`, `AssignmentsOverride`, `RolesDoNotRevert`.
* Second half: the invite protocol (assumes that the invitor of an invite is one of `Invitors`, that
  `Null` is no decision, and numbers for the bounds). `DecisionsAgree`, `JoinsWithConsent` and
  `OneJoins` need what is on its way: an invite is sent once and before anything is known of it
  (`InviteOK`), an answer in a queue or at the invitor is the one that was chosen (`AnswerOK`,
  `ResponseOK`), and the keys follow an acceptance (`DetailsOK`). The lemmas about queues say what is
  in one after a message is added or taken. Theorems: `InviteTypes`, `AnswersAgree`, `JoinIsAgreed`,
  `OneInviteJoins`.
* `Connections_proofs`, first half: LocalPeers (assumes `LocalPeersAssumption`: finitely many
  connections). `PeersOK` ties the sets of Peers to the states of their streams, `OneLive` gives a device
  without overlap one live Peer at most, and `ShownWasUp` says what the last event can have shown.
  Theorems: `TypeCorrect`, `ProjectsAreTold`, `ListStaysTrue` (`ListIsTrue`), `PeersDoNotPileUp`
  (`DisconnectedKeptOnce`).
* Second half: LocalDiscovery (assumes `DiscoveryAssumption`), for any number of connections that are
  tried. `OneHandedOver` and the types are inductive; each handler keeps the local states in which the
  device hands over the connection of its map (`Tidy`). A 'close' event runs any number of
  listeners, so that `ResumedKeeps` is an induction over them (see below). Theorems:
  `DiscoveryTypes`, `OneConnectionIsHandedOver`.
* `BlobStore_proofs` (assumes `BlobStoreAssumption`: two devices). The invariant is a conjunction of
  facts about one device, each kept by the steps of that device and untouched by those of the other:
  `StreamOK` (a stream covers the drives and its filter is the one in force), `WantOK`, and `DownloaderOK`
  (the same for the downloader, and what it has queued passes its filter). `IntentsCurrent` is about the
  messages between them (`LinkOK`): as long as a device is on a connection that the other has
  not left, the last intent in its channel is its present filter, or the channel is empty and the other has
  that filter. Theorems: `TypeCorrect`, `WantsFollow`, `NothingIsForgotten`, `OnlyWantedDownloads`, `IntentsAreCurrent`.
* `Project_proofs`, first half: ProjectCores (assumes `ProjectCoresAssumption`). `AllSaved` says that the
  table has all auth cores that are not derived, `SavedMembers`, `TasksRead` and `OwnKnown` that what is
  saved or about to be added belongs to a device whose documents are indexed, `Told` that a message with
  the own auth core is on its way or was received. Theorems: `TypeCorrect`, `MembersCoresAdded`,
  `OnlyCoresOfMembers`, `AuthCoresAreExchanged` (`AuthCoresExchanged`), `CoresAreKept`.
* Second half: ProjectLifecycle, for any calls and instances (assumes only that `None` is no
  instance). Nothing keeps calls apart, so the invariant says what holds of an instance that is open
  and has had the project for itself (`Alone`): no other is there and no `addProject` waits
  (`AloneOK`), the row is what the calls that have it read or wrote (`RowOK`), and it says of
  the instance and of the disk what the properties say (`JoinedOK`, `PurgedOK`, `LeftOK`). What
  holds of all instances: an owner, a call with an instance that nobody else knows of, keeps it to
  itself (`OwnerOK`); a call is as far with its instance as its step says (`HeldOK`); the
  active one is registered and not closed (`ActiveOK`). A call that is rejected is the hard case:
  its instance is `failed`, and stays so for `LeftOK` until it is cleared. Theorems:
  `LifecycleTypes`, `LeftProjectIsCleared`, `JoinedProjectIsUsable`; none has a hypothesis.

The prover has no induction over data. Where the argument needs one it goes by a set: the beginnings
of `1 .. n` that end outside a set would have no least one under inclusion, which is well-founded on
a finite set (`IntervalInduction` in `Connections_proofs`); a set of numbers below a bound has a greatest
by the same argument (`Greatest` in `Membership_proofs`).

Only model-checked are the liveness properties, since fairness and ENABLED are outside what the
prover handles: `FullStopCompletes`, `AutostopStops`, `WaiterResolves`, `ForbiddenStops`,
`MemberSyncsData`, `ChangesReported`, `SyncCompletes`, `AnsweredInviteEnds`, `SettlesOnOne`,
`ForceStopCloses`, `WritesReturn`, `UpdatesAreHeard`, `BlocksAreIndexed` and `InfoIsSent`.

## 5. Where the code does not do what it says

One of these is a run that TLC ends with a counterexample:

| Run | What happens |
|---|---|
| `invite_ack_lost` | `waitForAck` is registered after `waitForDrain`: an ack that comes before the stream drains is dropped, and `invite()` stays pending while the peer is connected. |

Other differences, met while modelling, without a run:

* A device connects a second time before its first connection is gone. The end of the first
  deletes the sync state of the device (`sync-api.js` 582-584), which the second uses:
  `isSynced` is then false until the device reappears on a core. In SyncApi this is a
  `DeviceOf` with two connections of one device.
* A blocked device becomes a member again while connected. `#refreshSyncCapability`
  (`peer-sync-controller.js` 202) restores the `auth` value from before, which is 'blocked' if the
  BLOCKED role was learned through `#handleStateChange`.
* Two connections tried by one device open in different orders at the two ends; each end destroys
  the one the other keeps (`local-discovery.js` 230). `SettlesOnOne` leaves this case out.
* The comment of `chooseDevicePeer` (`local-peers.js` 998-1000) says that of disconnected peers the most
  recent is exposed. The one that disconnects is deleted when the device has another, so
  that after a reconnect the older one is kept and exposed.
* When the acknowledgement of the project details is lost, the invitee has the keys and joins,
  but `invite()` fails before it assigns the role (`member-api.js` 262).
* A `getRole` that found no role record waits for the own core ownership (`roles.js` 289) and
  returns NO_ROLE after a later read has returned the member role; the older answer stays. Hence
  the condition of `CapabilityFollowsRole`.
* Calls that open the same project are not kept apart: overlapping calls make two instances over
  one storage (a `getProject` during `createProject`, which saves the keys first and registers the
  instance last), of which the last to be ready is active and the other cannot be found.
* `getProject` looks for an active project before it clears a left one and registers it afterwards
  (`mapeo-manager.js` 591-595). An `addProject` in between finds nothing to close and registers a
  fresh instance, as the comment at 749-751 wants; the cleared one then takes its place, nothing having failed.
  Without the exception of `contended`, TLC refutes `JoinedIsUsable` in this way.
* `addProject` awaits (753) between the check and the write that the comment at
  `mapeo-manager.js` 764 says happen in the same tick: of two calls that wait for the same close
  both add the project (`AddAfterClose` with a row that is 'joined').
* `leaveProject` deletes the row of the project settings (`mapeo-manager.js` 1046) while the store
  that indexes them is open. A batch that ends before `kClearData` has closed the store puts the
  row back (`Index`); nothing deletes it again, and `listProjects()` has the left project as 'joined'.
* When `kProjectLeave` or `kClearData` is rejected in `leaveProject`, the instance stays active
  without being cleared, and `getProject` (559-561) returns it as it is. The clearing that the
  comment at 586-589 promises happens when the next instance is created, after a close or a restart.
* A `createProject` that is rejected after it has saved the keys leaves an instance that is open
  and in no map, and a row that says the project is joined.
* After a crash in `leaveProject` the project is cleared when it is opened, but the LEFT role is
  assigned only if `leaveProject` is called again.
* Two invites to a project can both be accepted: `#isJoiningProject` (`invite-api.js` 107)
  does not count an invite that is still sending its acceptance. The second ends in
  'error' (`OneJoins` holds).
* An `invite()` that has its response deletes its entry, a new `invite()` to the device sets
  another, and the `finally` of the first (`member-api.js` 302) deletes that one:
  `requestCancelInvite` then finds nothing.
* A `core.update()` that ends after its peer was removed from the core marks the peer
  'started' again (`core-sync-state.js` 272), where line 298 says it is kept but stopped.
* The cached sums miss what is not announced (`unannounced` in NamespaceSyncState): a core that
  is added or becomes ready without an 'append', and a capability that changes. They are
  right again at the next update.

* The table in the comment of `#updateState` (`sync-api.js` 237-252) makes the enabled
  state a function of three inputs; the code also looks at the previous state: once a
  full stop has reached 'none' it stays there (line 268), which the table has as 'presync' or
  'all'. `FullStopSticks` states what the code does.
* `roles.js` 138 says of NO_ROLE that it can sync auth and config; its table blocks config.
* A failed append leaves its promise in `#pendingAppends` (`datastore/index.js` 161):
  every later batch waits for ever. `WritesReturn` and `BlocksAreIndexed` except it.
* A `write()` whose block is appended after `close()` never returns.
* `mutatingAddPeerState` (`namespace-sync-state.js` 211) compares where it should assign.

## 6. Not modelled, and what is left

* HTTP plugins, import and export, translation, schemas, errors, logging, generated code and the language
  tables: no behaviour in which order or failure matters; most of the lines of the
  repository are these and its tests.
* Bitfields (`bitfield-rle.js`, `remote-bitfield.js`): pure functions over words of bits.
* The server websockets of SyncApi (lines 321-380): `connectServers` waits for the urls, and a
  `disconnectServers` in between is not noticed. The discovery keys that come before 'peer-add' (lines
  168-193) only delay a replication that 'peer-add' asks for.
* Background and foreground reach the projects that are open (`mapeo-manager.js` 990); SyncApi has what
  they do in one project.

Worth doing next: SyncApi over NamespaceSyncState in place of its free environment; an abstract
project that is absent, joined or left, which ProjectLifecycle implements; BlobStore over
NamespaceSyncState, for a device whose ranges are on a core that it does not know yet; proofs of
the steps on which the liveness properties rest.

The runs stay small: two or three of everything, one failure of each kind.

## 7. Running

    tlc -config SyncApi.cfg MCSyncApi          # and so on, one .cfg per run
    tlapm SyncApi_proofs.tla                   # and the other *_proofs modules
