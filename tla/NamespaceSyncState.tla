-------------------------- MODULE NamespaceSyncState --------------------------
(***************************************************************************)
(* What one device knows of the exchange of one namespace                  *)
(* (src/sync/namespace-sync-state.js with its CoreSyncStates and the       *)
(* throttled event of src/sync/sync-state.js): which blocks this device    *)
(* and its peers have and want, added up over cores, and cached.           *)
(*                                                                         *)
(* Bitfields are sets of block indexes.  A state of a peer for a core      *)
(* (PeerState) is spread over relations between cores and peers.  The      *)
(* namespace is 'blob', the only one with download filters; without        *)
(* filters it is any other.                                                *)
(***************************************************************************)
EXTENDS Naturals, FiniteSets, Sequences, SequencesExt, FiniteSetsExt

CONSTANTS
  Cores,
  Peers,            \* other devices
  Self,
  OwnCores,         \* cores this device writes
  Stored,           \* core -> the blocks it has on disk to begin with
  MaxLength,        \* bound: blocks of a core
  MaxUpdates,       \* bound: calls of core.update() in flight for a peer
  MaxChanges,       \* bound: connections, closed cores, 'have' messages, filters, capabilities
  NoState

Devices == Peers \cup {Self}
Blocks == 0 .. MaxLength - 1

ASSUME NamespaceSyncStateAssumption ==
  /\ Self \notin Peers /\ OwnCores \subseteq Cores /\ IsFiniteSet(Cores)
  /\ Stored \in [Cores -> SUBSET Blocks]
  /\ MaxLength \in Nat /\ MaxUpdates \in Nat /\ MaxChanges \in Nat

VARIABLES
  coreStates,      \* #coreStates: the cores that are known, in the order of the map
  attached,        \* cores that exist
  ready,           \* cores whose local bitfield is known
  haves,           \* core -> the blocks this device has
  length,          \* core -> core.length
  preHavesLength,  \* core -> #preHavesLength
  connected,       \* peers with a connection, hence a PeerSyncController
  blocked,         \* of these, the peers whose capability is 'blocked'
  opened,          \* <<core, peer>>: the peer is among core.peers
  remoteStates,    \* <<core, peer>>: #remoteStates of the core has the peer
  status,          \* <<core, peer>> -> status
  updating,        \* <<core, peer>> -> calls of core.update() under way for its PeerState
  preHaves,        \* <<core, peer, block>>: #preHaves
  remoteHaves,     \* <<core, peer, block>>: #haves
  limited,         \* <<core, device>>: #wants is not null
  wants,           \* <<core, device, block>>: #wants
  filtered,        \* devices with a download filter
  cachedState,     \* #cachedState
  updateTick,      \* #handleUpdate of the namespace is due
  stateEvent,      \* the throttled 'state' event is due
  unannounced,     \* history: something changed without #update()
  changes

coreVars  == <<coreStates, attached, ready, haves, length, preHavesLength>>
peerVars  == <<connected, blocked, opened, remoteStates, status, updating, preHaves, remoteHaves>>
wantVars  == <<limited, wants, filtered>>
eventVars == <<cachedState, updateTick, stateEvent, unannounced>>
vars == <<coreVars, peerVars, wantVars, eventVars, changes>>

(***************************************************************************)
(* deriveState() and getState()                                            *)
(***************************************************************************)

Pairs == Cores \X Peers
KnownCores == ToSet(coreStates)

\* core.length is 0 until the core is ready.
Known(c) == {b \in Blocks : (c \in ready /\ b < length[c]) \/ b < preHavesLength[c]}
LocalHaves(c) == IF c \in ready THEN haves[c] \cap Known(c) ELSE {}
PeerHaves(c, p) == {b \in Known(c) : <<c, p, b>> \in preHaves \cup remoteHaves}
Wants(c, d) ==
  IF <<c, d>> \in limited THEN {b \in Blocks : <<c, d, b>> \in wants} ELSE Blocks

TheyWantFromMe(c, p) == (Wants(c, p) \ PeerHaves(c, p)) \cap LocalHaves(c)
IWantFromThem(c, p) == (PeerHaves(c, p) \ LocalHaves(c)) \cap Wants(c, Self)

\* The peers that count in the state of a core.
Counted(c) == {p \in Peers : <<c, p>> \in remoteStates /\ p \notin blocked}

\* The status of a peer over its cores: that of the first core, made 'starting'
\* by a core that is starting if it is 'started'.  A stopped core changes
\* nothing: its branch in mutatingAddPeerState() compares and does not assign.
StatusOf(p) ==
  LET on == {i \in DOMAIN coreStates : p \in Counted(coreStates[i])}
      first == status[<<coreStates[Min(on)], p>>]
      starting == \E i \in on : status[<<coreStates[i], p>>] = "starting"
  IN IF first = "started" /\ starting THEN "starting" ELSE first

\* What a core adds to the local state.
Have(c)   == Cardinality(LocalHaves(c))
Want(c)   == Cardinality(UNION {IWantFromThem(c, p) : p \in Counted(c)})
Wanted(c) == Cardinality(UNION {TheyWantFromMe(c, p) : p \in Counted(c)})

\* The state of a peer, summed over the cores for which it counts.
RemoteState(p) ==
  LET on == {c \in KnownCores : p \in Counted(c)}
  IN [want   |-> SumFunction([c \in on |-> Cardinality(TheyWantFromMe(c, p))]),
      wanted |-> SumFunction([c \in on |-> Cardinality(IWantFromThem(c, p))]),
      status |-> StatusOf(p)]

\* The sums over all cores; how much a peer has is left out, since nothing
\* depends on it.
DerivedState ==
  LET want == SumFunction([c \in KnownCores |-> Want(c)])
      wanted == SumFunction([c \in KnownCores |-> Wanted(c)])
  IN [dataToSync |-> want > 0 \/ wanted > 0,
      coreCount  |-> Cardinality(attached),
      have |-> SumFunction([c \in KnownCores |-> Have(c)]), want |-> want, wanted |-> wanted,
      remote |-> [p \in UNION {Counted(c) : c \in KnownCores} |-> RemoteState(p)]]

\* The cached state if there is one.
CurrentState == IF cachedState # NoState THEN cachedState ELSE DerivedState

\* This device's own cores exist before the namespace is watched, and it may
\* have a download filter, which counts as a change.
Init ==
  /\ coreStates \in [1 .. Cardinality(OwnCores) -> OwnCores] /\ KnownCores = OwnCores
  /\ attached = OwnCores /\ ready = {}
  /\ haves = Stored
  /\ length = [c \in Cores |-> IF haves[c] = {} THEN 0 ELSE Max(haves[c]) + 1]
  /\ preHavesLength = [c \in Cores |-> 0]
  /\ connected = {} /\ blocked = {} /\ opened = {} /\ remoteStates = {}
  /\ status = [x \in Pairs |-> "stopped"] /\ updating = [x \in Pairs |-> 0]
  /\ preHaves = {} /\ remoteHaves = {}
  /\ filtered \in SUBSET {Self} /\ limited = OwnCores \X filtered /\ wants = {}
  /\ cachedState = NoState
  /\ updateTick = FALSE /\ stateEvent = FALSE /\ unannounced = FALSE
  /\ changes = Cardinality(filtered)

(***************************************************************************)
(* What the actions are made of                                            *)
(***************************************************************************)

\* #update() of a core, called if there is a reason.
UpdateIf(reason) ==
  /\ updateTick' = (updateTick \/ reason)
  /\ UNCHANGED <<cachedState, stateEvent, unannounced>>

\* A change of the state without a call of #update().
NoUpdate ==
  /\ unannounced' = TRUE
  /\ UNCHANGED <<cachedState, updateTick, stateEvent>>

\* #getCoreState(): creates the state of a core.
WithCore(c) == IF c \in KnownCores THEN coreStates ELSE Append(coreStates, c)

\* Mutant: a new PeerState wants everything, whatever the filter.
Defect_LimitedFor(cores, pairs) == limited

\* The #wants that are not null once the states of these cores, and of these
\* pairs of core and peer, exist: new ones ask for the filter of their device.
LimitedFor(cores, pairs) ==
  limited \cup {x \in pairs \ remoteStates : x[2] \in filtered}
          \cup {<<c, Self>> : c \in IF Self \in filtered THEN cores \ KnownCores ELSE {}}

(***************************************************************************)
(* Cores                                                                   *)
(***************************************************************************)

\* #addCore() and attachCore(): the core is new, so it has no peers yet.
AddCore(c) ==
  /\ c \notin attached
  /\ attached' = attached \cup {c}
  /\ coreStates' = WithCore(c)
  /\ limited' = LimitedFor({c}, {})
  /\ NoUpdate
  /\ UNCHANGED <<ready, haves, length, preHavesLength, peerVars, wants, filtered, changes>>

\* core.ready() resolves.
CoreReady(c) ==
  /\ c \in attached \ ready
  /\ ready' = ready \cup {c}
  /\ NoUpdate
  /\ UNCHANGED <<coreStates, attached, haves, length, preHavesLength, peerVars, wantVars, changes>>

\* This device writes a block; 'append' is emitted.
AppendBlock(c) ==
  /\ c \in OwnCores \cap ready
  /\ length[c] < MaxLength
  /\ haves' = [haves EXCEPT ![c] = @ \cup {length[c]}]
  /\ length' = [length EXCEPT ![c] = @ + 1]
  /\ UpdateIf(TRUE)
  /\ UNCHANGED <<coreStates, attached, ready, preHavesLength, peerVars, wantVars, changes>>

\* The core learns from a peer that it is longer; 'append' is emitted.
Upgrade(c) ==
  /\ c \in ready
  /\ \E p \in Peers, b \in Blocks :
       /\ <<c, p>> \in opened /\ p \in connected
       /\ <<c, p, b>> \in remoteHaves /\ b >= length[c]
       /\ length' = [length EXCEPT ![c] = b + 1]
  /\ UpdateIf(TRUE)
  /\ UNCHANGED <<coreStates, attached, ready, haves, preHavesLength, peerVars, wantVars, changes>>

\* Mutant: no update after a download.
Defect_SilentDownload(c) ==
  /\ c \in ready
  /\ \E p \in Peers, b \in Wants(c, Self) \ haves[c] :
       /\ <<c, p>> \in opened /\ p \in connected
       /\ <<c, p, b>> \in remoteHaves /\ b < length[c]
       /\ haves' = [haves EXCEPT ![c] = @ \cup {b}]
  /\ UpdateIf(FALSE)
  /\ UNCHANGED <<coreStates, attached, ready, length, preHavesLength, peerVars, wantVars, changes>>

\* A wanted block arrives; 'download' is emitted.
Download(c) ==
  /\ c \in ready
  /\ \E p \in Peers, b \in Wants(c, Self) \ haves[c] :
       /\ <<c, p>> \in opened /\ p \in connected
       /\ <<c, p, b>> \in remoteHaves /\ b < length[c]
       /\ haves' = [haves EXCEPT ![c] = @ \cup {b}]
  /\ UpdateIf(TRUE)
  /\ UNCHANGED <<coreStates, attached, ready, length, preHavesLength, peerVars, wantVars, changes>>

(***************************************************************************)
(* Peers                                                                   *)
(***************************************************************************)

\* addPeer(), on a connection of a device that has none.
AddPeer(p) ==
  /\ p \notin connected /\ changes < MaxChanges
  /\ \A c \in Cores : <<c, p>> \notin opened
  /\ changes' = changes + 1
  /\ connected' = connected \cup {p}
  /\ remoteStates' = remoteStates \cup (KnownCores \X {p})
  /\ limited' = LimitedFor({}, KnownCores \X {p})
  /\ UpdateIf(coreStates # <<>>)
  /\ UNCHANGED <<coreVars, blocked, opened, status, updating, preHaves, remoteHaves,
                 wants, filtered>>

\* The PeerStates that disconnectPeer() deletes.
Forgotten(p) == {x \in remoteStates : x[2] = p}

\* disconnectPeer(), and the end of the peer's controller.  A promise for a
\* deleted PeerState only calls #update() once more, which is left out.  The stream of the
\* peer's blob entries ends with the connection.
DisconnectPeer(p) ==
  LET gone == Forgotten(p)
      Kept(r) == {x \in r : <<x[1], x[2]>> \notin gone}
  IN /\ p \in connected
     /\ connected' = connected \ {p}
     /\ blocked' = blocked \ {p}
     /\ remoteStates' = remoteStates \ gone
     /\ status' = [x \in Pairs |-> IF x \in gone THEN "stopped" ELSE status[x]]
     /\ updating' = [x \in Pairs |-> IF x \in gone THEN 0 ELSE updating[x]]
     /\ preHaves' = Kept(preHaves) /\ remoteHaves' = Kept(remoteHaves)
     /\ limited' = Kept(limited) /\ wants' = Kept(wants)
     /\ UpdateIf(gone # {})
     /\ UNCHANGED <<coreVars, opened, filtered, changes>>

\* #onPeerAdd: the peer's controller replicates the core.
PeerAdd(c, p) ==
  LET x == <<c, p>> IN
  /\ c \in attached /\ p \in connected /\ x \notin opened
  /\ updating[x] < MaxUpdates
  /\ opened' = opened \cup {x}
  /\ remoteStates' = remoteStates \cup {x}
  /\ limited' = LimitedFor({}, {x})
  /\ status' = [status EXCEPT ![x] = "starting"]
  /\ updating' = [updating EXCEPT ![x] = @ + 1]
  /\ remoteHaves' = {h \in remoteHaves : <<h[1], h[2]>> # x}
  /\ UpdateIf(TRUE)
  /\ UNCHANGED <<coreVars, connected, blocked, preHaves, wants, filtered, changes>>

\* #onPeerRemove: the controller closes the core, or the connection has ended.
PeerRemove(c, p) ==
  LET x == <<c, p>> IN
  /\ x \in opened /\ (p \in connected => changes < MaxChanges)
  /\ changes' = IF p \in connected THEN changes + 1 ELSE changes
  /\ opened' = opened \ {x}
  /\ status' = IF x \in remoteStates THEN [status EXCEPT ![x] = "stopped"] ELSE status
  /\ UpdateIf(x \in remoteStates)
  /\ UNCHANGED <<coreVars, connected, blocked, remoteStates, updating, preHaves, remoteHaves,
                 wantVars>>

\* core.update() resolves, which waits for the core to be ready; the peer may
\* have been removed meanwhile.
UpdateDone(c, p) ==
  LET x == <<c, p>> IN
  /\ c \in ready /\ updating[x] > 0
  /\ updating' = [updating EXCEPT ![x] = @ - 1]
  /\ status' = [status EXCEPT ![x] = "started"]
  /\ UpdateIf(TRUE)
  /\ UNCHANGED <<coreVars, connected, blocked, opened, remoteStates, preHaves, remoteHaves,
                 wantVars, changes>>

\* Mutant: a range message is not announced.
Defect_SilentRange(c, p, b) ==
  /\ <<c, p>> \in opened /\ p \in connected
  /\ <<c, p, b>> \notin remoteHaves
  /\ c \in OwnCores => b \in haves[c]
  /\ remoteHaves' = remoteHaves \cup {<<c, p, b>>}
  /\ UpdateIf(FALSE)
  /\ UNCHANGED <<coreVars, connected, blocked, opened, remoteStates, status, updating, preHaves,
                 wantVars, changes>>

\* A bitfield or range message of the peer, about blocks that exist.
RemoteHave(c, p, b) ==
  /\ <<c, p>> \in opened /\ p \in connected
  /\ <<c, p, b>> \notin remoteHaves
  /\ c \in OwnCores => b \in haves[c]
  /\ remoteHaves' = remoteHaves \cup {<<c, p, b>>}
  /\ UpdateIf(TRUE)
  /\ UNCHANGED <<coreVars, connected, blocked, opened, remoteStates, status, updating, preHaves,
                 wantVars, changes>>

\* #insertPreHaves: a 'have' message of the peer; its words replace those that
\* the peer sent before.
InsertPreHaves(c, p, bs) ==
  LET x == <<c, p>> IN
  /\ p \in connected /\ changes < MaxChanges
  /\ changes' = changes + 1
  /\ c \in OwnCores => bs \subseteq haves[c]
  /\ coreStates' = WithCore(c)
  /\ remoteStates' = remoteStates \cup {x}
  /\ limited' = LimitedFor({c}, {x})
  /\ preHaves' = {h \in preHaves : <<h[1], h[2]>> # x} \cup {<<c, p, b>> : b \in bs}
  /\ preHavesLength' = [preHavesLength EXCEPT ![c] = Max({@} \cup {b + 1 : b \in bs})]
  /\ UpdateIf(TRUE)
  /\ UNCHANGED <<attached, ready, haves, length, connected, blocked, opened, status, updating,
                 remoteHaves, wants, filtered>>

\* The peer's role is read again and its capability changes.
CapabilityChanges(p) ==
  /\ p \in connected /\ changes < MaxChanges
  /\ changes' = changes + 1
  /\ blocked' = IF p \in blocked THEN blocked \ {p} ELSE blocked \cup {p}
  /\ NoUpdate
  /\ UNCHANGED <<coreVars, connected, opened, remoteStates, status, updating, preHaves,
                 remoteHaves, wantVars>>

(***************************************************************************)
(* Download filters                                                        *)
(***************************************************************************)

\* 'blob-filter': setWantsEverything() for every core, of a connected peer that
\* sends its intent or of this device.
BlobFilter(d, filter) ==
  LET all == KnownCores \X {d} IN
  /\ d \in connected \cup {Self} /\ changes < MaxChanges
  /\ changes' = changes + 1
  /\ remoteStates' = remoteStates \cup (all \cap Pairs)
  /\ limited' = IF filter THEN limited \cup all ELSE limited \ all
  /\ wants' = {w \in wants : w[2] # d}
  /\ filtered' = IF filter THEN filtered \cup {d} ELSE filtered \ {d}
  /\ UpdateIf(coreStates # <<>>)
  /\ UNCHANGED <<coreVars, connected, blocked, opened, status, updating, preHaves, remoteHaves>>

\* 'want-blob-range': the live stream of entries finds one that matches the
\* filter; it ends with the filter and with the connection.
WantBlobRange(d, c, b) ==
  /\ d \in filtered /\ d \in connected \cup {Self}
  /\ <<c, d, b>> \notin wants
  /\ coreStates' = WithCore(c)
  /\ remoteStates' = remoteStates \cup ({<<c, d>>} \cap Pairs)
  /\ limited' = LimitedFor({c}, {<<c, d>>}) \cup {<<c, d>>}
  /\ wants' = wants \cup {<<c, d, b>>}
  /\ UpdateIf(TRUE)
  /\ UNCHANGED <<attached, ready, haves, length, preHavesLength, connected, blocked, opened,
                 status, updating, preHaves, remoteHaves, filtered, changes>>

(***************************************************************************)
(* The cache and the event                                                 *)
(***************************************************************************)

\* Mutant: announces the change but keeps the cache.
Defect_CacheStays ==
  /\ updateTick
  /\ updateTick' = FALSE
  /\ stateEvent' = TRUE
  /\ unannounced' = FALSE
  /\ UNCHANGED <<coreVars, peerVars, wantVars, changes, cachedState>>

\* #handleUpdate of the namespace, a tick after #update().
HandleUpdate ==
  /\ updateTick
  /\ updateTick' = FALSE
  /\ cachedState' = NoState
  /\ stateEvent' = TRUE
  /\ unannounced' = FALSE
  /\ UNCHANGED <<coreVars, peerVars, wantVars, changes>>

\* #handleUpdate of SyncState, a tick later or when its throttle lets it pass.
EmitState ==
  /\ stateEvent
  /\ stateEvent' = FALSE
  /\ cachedState' = CurrentState
  /\ UNCHANGED <<coreVars, peerVars, wantVars, changes, updateTick, unannounced>>

\* Anyone asks for the state in between.
GetState ==
  /\ cachedState = NoState
  /\ cachedState' = DerivedState
  /\ UNCHANGED <<coreVars, peerVars, wantVars, changes, updateTick, stateEvent, unannounced>>

Next ==
  \/ \E c \in Cores : AddCore(c) \/ CoreReady(c) \/ AppendBlock(c) \/ Upgrade(c) \/ Download(c)
  \/ \E p \in Peers : AddPeer(p) \/ DisconnectPeer(p) \/ CapabilityChanges(p)
  \/ \E c \in Cores, p \in Peers : PeerAdd(c, p) \/ PeerRemove(c, p) \/ UpdateDone(c, p)
  \/ \E c \in Cores, p \in Peers, b \in Blocks : RemoteHave(c, p, b)
  \/ \E c \in Cores, p \in Peers, bs \in SUBSET Blocks : InsertPreHaves(c, p, bs)
  \/ \E d \in Devices, filter \in BOOLEAN : BlobFilter(d, filter)
  \/ \E d \in Devices, c \in Cores, b \in Blocks : WantBlobRange(d, c, b)
  \/ HandleUpdate \/ EmitState \/ GetState

Spec == Init /\ [][Next]_vars

\* A peer on an open core tells which of the blocks it has that it announced
\* before, and which it took because it wants them.
Reports(c, p, b) ==
  /\ <<c, p, b>> \in preHaves \/ b \in TheyWantFromMe(c, p)
  /\ RemoteHave(c, p, b)

\* Cores load, core.update() resolves, and what two connected devices want of each
\* other on an open core is reported and transferred, in any order.
Progress ==
  \/ \E c \in Cores : CoreReady(c) \/ Upgrade(c) \/ Download(c)
  \/ \E c \in Cores, p \in Peers : UpdateDone(c, p)
  \/ \E c \in Cores, p \in Peers, b \in Blocks : Reports(c, p, b)

\* Ticks and throttles pass, and replication goes on while it can.  Each step of it
\* happens finitely often between changes, so fairness of each is not needed.
Fairness == WF_vars(HandleUpdate) /\ WF_vars(EmitState) /\ WF_vars(Progress)

FairSpec == Spec /\ Fairness

(***************************************************************************)
(* Properties                                                              *)
(***************************************************************************)

\* Every variable holds a value of its kind.
TypeOK ==
  /\ attached \subseteq KnownCores /\ ready \subseteq attached /\ KnownCores \subseteq Cores
  /\ Cardinality(KnownCores) = Len(coreStates)
  /\ haves \in [Cores -> SUBSET Blocks] /\ length \in [Cores -> 0 .. MaxLength]
  /\ preHavesLength \in [Cores -> 0 .. MaxLength]
  /\ blocked \subseteq connected /\ connected \subseteq Peers
  /\ opened \subseteq attached \X Peers /\ remoteStates \subseteq KnownCores \X Peers
  /\ status \in [Pairs -> {"stopped", "starting", "started"}]
  /\ updating \in [Pairs -> 0 .. MaxUpdates]
  /\ filtered \subseteq Devices

\* A cached state is the one that would be derived now, unless an update is due
\* or the change was one of the three that the code does not announce: a core
\* that is added, a core that becomes ready, and a capability.
CacheCurrent ==
  cachedState # NoState /\ ~updateTick /\ ~unannounced => cachedState = DerivedState

\* What is announced is heard of: the listeners of 'state' get the state as it
\* is, though they are told in a later tick, throttled, and from the cache.
ChangesReported == updateTick ~> unannounced \/ (cachedState = DerivedState /\ ~stateEvent)

\* The states of peers are those of connected devices, also on cores that were
\* never opened, and what they hold goes with them; a peer on an open core has one.
PeersTracked ==
  /\ \A x \in remoteStates : x[2] \in connected
  /\ \A x \in opened : x[2] \in connected => x \in remoteStates
  /\ \A h \in preHaves \cup remoteHaves : <<h[1], h[2]>> \in remoteStates
  /\ \A w \in wants : <<w[1], w[2]>> \in limited

\* Who has a download filter wants ranges, who has none wants everything, for
\* each core however its state came to exist: with the filter, before or after.
WantsFollowFilter ==
  \A x \in remoteStates \cup (KnownCores \X {Self}) : x \in limited <=> x[2] \in filtered

\* All peers are and stay connected, unblocked and on every core.
Stable ==
  /\ ready = Cores /\ connected = Peers /\ blocked = {} /\ opened = Pairs

\* Devices that stay connected, with all cores open and nothing new to exchange,
\* reach a reported state in which there is no data to sync.
SyncCompletes == <>[]Stable => <>[](cachedState # NoState /\ ~cachedState.dataToSync)
===============================================================================
