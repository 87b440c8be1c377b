------------------------------- MODULE SyncApi -------------------------------
(***************************************************************************)
(* The sync policy of one project: SyncApi of src/sync/sync-api.js.  It    *)
(* decides, from what the user asked for (start, stop, autostop), from the *)
(* application being in the background (a "full stop") and from the sync   *)
(* state of every namespace, whether the connected peers exchange nothing, *)
(* only the pre-sync namespaces, or everything.                            *)
(*                                                                         *)
(* The sync state itself (SyncState, NamespaceSyncState, CoreSyncState) is *)
(* the environment here: it changes at any moment, and each change is      *)
(* followed by one throttled 'state' event.  A peer's sync controller is   *)
(* reduced to the last value it was given by setSyncEnabledState; what it  *)
(* does with it is module PeerSyncController.  The queue of early          *)
(* discovery keys (pendingDiscoveryKeys) is left out: for a core that      *)
(* another controller already knows it has no effect, as                   *)
(* PeerSyncController!ReplicationBookkeeping shows.                        *)
(***************************************************************************)
EXTENDS Naturals

CONSTANTS
  Conns,                \* protomux instances, one per connection
  Devices,              \* device ids (noise public keys)
  DeviceOf,             \* the remote device at the other end of a connection
  PRESYNC_NAMESPACES,   \* auth, config, blobIndex
  DATA_NAMESPACES,      \* data, blob
  BlockedSets,          \* the sets of namespaces that some role blocks
  Durations,            \* autostop durations the user may pass
  MaxHave,              \* bound: data blocks received in a behaviour
  Null                  \* JavaScript's null

NAMESPACES == PRESYNC_NAMESPACES \cup DATA_NAMESPACES

ASSUME ConstantsAssumption ==
  /\ DeviceOf \in [Conns -> Devices]
  /\ BlockedSets \subseteq SUBSET NAMESPACES
  /\ MaxHave \in Nat
  /\ Null \notin Durations
  /\ Null \notin 0 .. MaxHave
  /\ Null \notin [after : Durations, have : 0 .. MaxHave]

VARIABLES
  wantsToSyncData, hasRequestedFullStop, previousSyncEnabledState,
  previousDataHave, autostopDataSyncAfter,
  autostopDataSyncTimeout,  \* the armed timer, or Null
  peerSyncControllers,      \* protomux -> the controller's syncEnabledState
  blocked,                  \* protomux -> namespaces its capability blocks
  trackedPeers,             \* devices with a PeerState in the CoreSyncStates
  namespaceState,           \* what kSyncState.getState() returns
  updateTick,               \* a core state asked for an update on the next tick
  stateEvent,               \* a throttled 'state' event is due
  waiter                    \* one waitForSync('full') call

flags    == <<wantsToSyncData, hasRequestedFullStop, autostopDataSyncAfter>>
outputs  == <<previousSyncEnabledState, previousDataHave,
              autostopDataSyncTimeout, peerSyncControllers>>
syncVars == <<trackedPeers, namespaceState, updateTick, stateEvent>>
vars     == <<flags, outputs, blocked, syncVars, waiter>>

SyncEnabledStates == {"none", "presync", "all"}

(***************************************************************************)
(* The part of the derived state that SyncApi reads: whether a namespace   *)
(* has data to exchange, which peers are in its remoteStates with a status *)
(* other than 'starting', and how many data blocks are held locally.       *)
(***************************************************************************)
NamespaceStates == [dataToSync : [NAMESPACES -> BOOLEAN],
                    ready      : [NAMESPACES -> SUBSET Devices],
                    have       : 0 .. MaxHave]
Timers == [after : Durations, have : 0 .. MaxHave]
Live   == DOMAIN peerSyncControllers

-----------------------------------------------------------------------------
\* isSynced(state, type, peerSyncControllers)
IsSynced(state, type, conns) ==
  \A ns \in IF type = "initial" THEN PRESYNC_NAMESPACES ELSE NAMESPACES :
    /\ ~ state.dataToSync[ns]
    /\ \A c \in conns : ns \in blocked[c] \/ DeviceOf[c] \in state.ready[ns]

SyncTypeOf(wants) == IF wants THEN "full" ELSE "initial"

\* Defect: 'none' is not remembered while the application is in the background.
Defect_NoneForgotten(synced) ==
  IF hasRequestedFullStop' /\ synced THEN "none"
  ELSE IF wantsToSyncData' THEN "all" ELSE "presync"

\* Defect: a full stop does not end once everything is synced.
Defect_NoneNeverReached(synced) ==
  IF hasRequestedFullStop' /\ previousSyncEnabledState = "none" THEN "none"
  ELSE IF wantsToSyncData' THEN "all" ELSE "presync"

\* The branches of #updateState that choose the enabled state.
NextEnabledState(synced) ==
  IF hasRequestedFullStop' /\ (previousSyncEnabledState = "none" \/ synced)
  THEN "none"
  ELSE IF wantsToSyncData' THEN "all" ELSE "presync"

\* The timer that #updateState leaves when it found `kept' still running.
KeepOrArm(kept, have) ==
  IF kept # Null THEN kept
  ELSE IF autostopDataSyncAfter' = Null THEN Null
  ELSE [after |-> autostopDataSyncAfter', have |-> have]

\* Defect: new data does not clear the running timer.
Defect_DataKeepsTimer(state, timer, synced) ==
  IF ~ hasRequestedFullStop' /\ wantsToSyncData' /\ synced
  THEN KeepOrArm(timer, state.have) ELSE Null

\* Defect: the timer is armed only by an update that brings new data.
Defect_ArmedByDataOnly(state, timer, synced) ==
  IF ~ hasRequestedFullStop' /\ wantsToSyncData' /\ synced
  THEN IF state.have # previousDataHave THEN KeepOrArm(Null, state.have) ELSE timer
  ELSE Null

(***************************************************************************)
(* The autostop timer after #updateState: cleared by new data, by a full   *)
(* stop, by data sync not being wanted and by not being synced, otherwise  *)
(* kept (??=) or armed.  The field `have' of a timer is a history of the   *)
(* data count it was armed at; no action reads it.                         *)
(***************************************************************************)
NextTimer(state, timer, synced) ==
  LET kept == IF state.have # previousDataHave THEN Null ELSE timer
  IN  IF ~ hasRequestedFullStop' /\ wantsToSyncData' /\ synced
      THEN KeepOrArm(kept, state.have) ELSE Null

(***************************************************************************)
(* #updateState(state).  It reads the flags as the caller left them, hence *)
(* the primes; `timer' is the autostop timer the caller left and `conns'   *)
(* are the keys of #peerSyncControllers, every one of which is given the   *)
(* new enabled state.                                                      *)
(***************************************************************************)
UpdateState(state, timer, conns) ==
  LET synced == IsSynced(state, SyncTypeOf(wantsToSyncData'), conns)
  IN  /\ previousDataHave'         = state.have
      /\ previousSyncEnabledState' = NextEnabledState(synced)
      /\ autostopDataSyncTimeout'  = NextTimer(state, timer, synced)
      /\ peerSyncControllers'      = [c \in conns |-> NextEnabledState(synced)]

UpdateStateNow == UpdateState(namespaceState, autostopDataSyncTimeout, Live)

Init ==
  /\ wantsToSyncData = FALSE
  /\ hasRequestedFullStop = FALSE
  /\ previousSyncEnabledState = "none"
  /\ previousDataHave = Null
  /\ autostopDataSyncAfter = Null
  /\ autostopDataSyncTimeout = Null
  /\ peerSyncControllers = [c \in {} |-> "none"]
  /\ blocked = [c \in Conns |-> {}]
  /\ trackedPeers = {}
  /\ namespaceState = [dataToSync |-> [ns \in NAMESPACES |-> FALSE],
                       ready      |-> [ns \in NAMESPACES |-> {}],
                       have       |-> 0]
  /\ updateTick = FALSE
  /\ stateEvent = FALSE
  /\ waiter = "idle"

-----------------------------------------------------------------------------
\* The user's calls, and the application's calls when it changes visibility.

\* start() without options
Start ==
  /\ wantsToSyncData' = TRUE
  /\ UNCHANGED <<hasRequestedFullStop, autostopDataSyncAfter>>
  /\ UpdateStateNow
  /\ UNCHANGED <<blocked, syncVars, waiter>>

\* start({ autostopDataSyncAfter })
StartWithAutostop(after) ==
  /\ wantsToSyncData' = TRUE
  /\ autostopDataSyncAfter' = after
  /\ UNCHANGED hasRequestedFullStop
  /\ UpdateState(namespaceState, Null, Live)
  /\ UNCHANGED <<blocked, syncVars, waiter>>

\* start() with a duration that setAutostopDataSyncTimeout rejects: the error is
\* thrown after #wantsToSyncData was set and before #updateState.
StartWithInvalidAutostop ==
  /\ wantsToSyncData' = TRUE
  /\ UNCHANGED <<hasRequestedFullStop, autostopDataSyncAfter, outputs, blocked,
                 syncVars, waiter>>

\* setAutostopDataSyncTimeout
SetAutostopDataSyncTimeout(after) ==
  /\ autostopDataSyncAfter' = after
  /\ UNCHANGED <<wantsToSyncData, hasRequestedFullStop>>
  /\ UpdateState(namespaceState, Null, Live)
  /\ UNCHANGED <<blocked, syncVars, waiter>>

\* stop()
Stop ==
  /\ wantsToSyncData' = FALSE
  /\ UNCHANGED <<hasRequestedFullStop, autostopDataSyncAfter>>
  /\ UpdateStateNow
  /\ UNCHANGED <<blocked, syncVars, waiter>>

\* [kRequestFullStop]()
RequestFullStop ==
  /\ hasRequestedFullStop' = TRUE
  /\ UNCHANGED <<wantsToSyncData, autostopDataSyncAfter>>
  /\ UpdateStateNow
  /\ UNCHANGED <<blocked, syncVars, waiter>>

\* [kRescindFullStopRequest]()
RescindFullStopRequest ==
  /\ hasRequestedFullStop' = FALSE
  /\ UNCHANGED <<wantsToSyncData, autostopDataSyncAfter>>
  /\ UpdateStateNow
  /\ UNCHANGED <<blocked, syncVars, waiter>>

\* waitForSync('full'): onState is called at once with the current state.
WaitForSync ==
  /\ waiter = "idle"
  /\ waiter' = IF IsSynced(namespaceState, "full", Live) THEN "resolved"
               ELSE "waiting"
  /\ UNCHANGED <<flags, outputs, blocked, syncVars>>

-----------------------------------------------------------------------------
\* Timers and events.

\* The callback of the autostop timer.
AutostopFires ==
  /\ autostopDataSyncTimeout # Null
  /\ wantsToSyncData' = FALSE
  /\ UNCHANGED <<hasRequestedFullStop, autostopDataSyncAfter>>
  /\ UpdateStateNow
  /\ UNCHANGED <<blocked, syncVars, waiter>>

\* The 'state' event of SyncState: #updateState, then the onState listener of
\* a waitForSync call.
HandleState ==
  /\ stateEvent
  /\ stateEvent' = FALSE
  /\ UNCHANGED <<flags, blocked, trackedPeers, namespaceState, updateTick>>
  /\ UpdateStateNow
  /\ waiter' = IF waiter = "waiting" /\ IsSynced(namespaceState, "full", Live)
               THEN "resolved" ELSE waiter

\* waitForSync's timeout: no 'state' event for timeoutMs.
WaiterTimesOut ==
  /\ waiter = "waiting"
  /\ waiter' = "rejected"
  /\ UNCHANGED <<flags, outputs, blocked, syncVars>>

-----------------------------------------------------------------------------
\* Peers of the creator core.

(***************************************************************************)
(* #handlePeerAdd: a controller for the connection, the peer added to all  *)
(* core states (getState() shows it only after the next tick), and         *)
(* #updateState.                                                           *)
(***************************************************************************)
HandlePeerAdd(c) ==
  /\ c \notin Live
  /\ trackedPeers' = trackedPeers \cup {DeviceOf[c]}
  /\ updateTick' = TRUE
  /\ UNCHANGED <<flags, blocked, namespaceState, stateEvent, waiter>>
  /\ UpdateState(namespaceState, autostopDataSyncTimeout, Live \cup {c})

\* Defect: the peer's state is dropped without asking for an update.
Defect_SilentDisconnect(c) ==
  /\ c \in Live
  /\ trackedPeers' = trackedPeers \ {DeviceOf[c]}
  /\ blocked' = [blocked EXCEPT ![c] = {}]
  /\ UNCHANGED <<flags, namespaceState, updateTick, stateEvent, waiter>>
  /\ UpdateState(namespaceState, autostopDataSyncTimeout, Live \ {c})

\* #handlePeerDisconnect: removes the peer's state by device, not by connection.
HandlePeerDisconnect(c) ==
  /\ c \in Live
  /\ trackedPeers' = trackedPeers \ {DeviceOf[c]}
  /\ updateTick' = (updateTick \/ DeviceOf[c] \in trackedPeers)
  /\ blocked' = [blocked EXCEPT ![c] = {}]
  /\ UNCHANGED <<flags, namespaceState, stateEvent, waiter>>
  /\ UpdateState(namespaceState, autostopDataSyncTimeout, Live \ {c})

-----------------------------------------------------------------------------
\* The environment: what the core states and the controllers do.

\* A block is appended or downloaded, a peer's bitfield or status changes: one
\* namespace derives another state and a 'state' event is scheduled.  Data
\* blocks are only ever gained.
NamespaceStateChanges(ns) ==
  /\ \E toSync \in BOOLEAN, peers \in SUBSET trackedPeers,
        gained \in IF ns \in DATA_NAMESPACES THEN {0, 1} ELSE {0} :
       /\ namespaceState.have + gained <= MaxHave
       /\ namespaceState' = [namespaceState EXCEPT !.dataToSync[ns] = toSync,
                                                   !.ready[ns] = peers,
                                                   !.have = @ + gained]
  /\ stateEvent' = TRUE
  /\ UNCHANGED <<flags, outputs, blocked, trackedPeers, updateTick, waiter>>

\* The tick after addPeer, disconnectPeer or a core's peer-add: the caches are
\* cleared, so the view catches up with the peers that are tracked.
UpdateTick ==
  /\ updateTick
  /\ updateTick' = FALSE
  /\ \E peers \in [NAMESPACES -> SUBSET trackedPeers] :
       namespaceState' = [namespaceState EXCEPT !.ready = peers]
  /\ stateEvent' = TRUE
  /\ UNCHANGED <<flags, outputs, blocked, trackedPeers, waiter>>

\* A core that starts replicating with a connected peer re-creates its state.
CorePeerAdd(c) ==
  /\ c \in Live
  /\ trackedPeers' = trackedPeers \cup {DeviceOf[c]}
  /\ updateTick' = TRUE
  /\ UNCHANGED <<flags, outputs, blocked, namespaceState, stateEvent, waiter>>

\* The controller reads another capability; the cores it then replicates or
\* unreplicates emit peer-add or peer-remove, so a 'state' event follows.
CapabilityChanges(c) ==
  /\ c \in Live
  /\ \E s \in BlockedSets \ {blocked[c]} : blocked' = [blocked EXCEPT ![c] = s]
  /\ stateEvent' = TRUE
  /\ UNCHANGED <<flags, outputs, trackedPeers, namespaceState, updateTick, waiter>>

UserCall ==
  \/ Start
  \/ Stop
  \/ \E after \in Durations \cup {Null} :
       StartWithAutostop(after) \/ SetAutostopDataSyncTimeout(after)
  \/ StartWithInvalidAutostop
  \/ RequestFullStop
  \/ RescindFullStopRequest

Next ==
  \/ UserCall
  \/ WaitForSync
  \/ WaiterTimesOut
  \/ AutostopFires
  \/ HandleState
  \/ \E c \in Conns :
       \/ HandlePeerAdd(c)
       \/ HandlePeerDisconnect(c)
       \/ CorePeerAdd(c)
       \/ CapabilityChanges(c)
  \/ \E ns \in NAMESPACES : NamespaceStateChanges(ns)
  \/ UpdateTick

Spec == Init /\ [][Next]_vars

(***************************************************************************)
(* Timers fire, due events are delivered and the next tick comes: that is  *)
(* the event loop.  Users, peers and cores owe nothing.                    *)
(***************************************************************************)
Fairness ==
  /\ WF_vars(AutostopFires)
  /\ WF_vars(HandleState)
  /\ WF_vars(UpdateTick)

FairSpec == Spec /\ Fairness

-----------------------------------------------------------------------------
\* Types: every variable holds a value the code can give it.
TypeOK ==
  /\ wantsToSyncData \in BOOLEAN
  /\ hasRequestedFullStop \in BOOLEAN
  /\ previousSyncEnabledState \in SyncEnabledStates
  /\ previousDataHave \in 0 .. MaxHave \cup {Null}
  /\ autostopDataSyncAfter \in Durations \cup {Null}
  /\ autostopDataSyncTimeout \in Timers \cup {Null}
  /\ Live \subseteq Conns
  /\ peerSyncControllers \in [Live -> SyncEnabledStates]
  /\ blocked \in [Conns -> SUBSET NAMESPACES]
  /\ trackedPeers \subseteq Devices
  /\ namespaceState \in NamespaceStates
  /\ updateTick \in BOOLEAN
  /\ stateEvent \in BOOLEAN
  /\ waiter \in {"idle", "waiting", "resolved", "rejected"}

\* An armed autostop timer is justified: data sync is wanted and enabled, the
\* application is not stopping, the timer runs for the duration set last, and
\* no data was received since it was armed.
TimerJustified ==
  autostopDataSyncTimeout # Null =>
    /\ wantsToSyncData
    /\ ~ hasRequestedFullStop
    /\ previousSyncEnabledState = "all"
    /\ autostopDataSyncTimeout.after = autostopDataSyncAfter
    /\ autostopDataSyncTimeout.have = previousDataHave

\* Once sync has stopped for a backgrounded application, nothing but bringing
\* it to the foreground starts it again: not start(), a new peer, new data, a
\* timer or a role change.
FullStopSticks ==
  [][/\ previousSyncEnabledState = "none"
     /\ hasRequestedFullStop
     /\ hasRequestedFullStop'
     => previousSyncEnabledState' = "none"]_vars

\* A graceful stop completes: if the application stays in the background and
\* there is nothing left to exchange, sync ends up disabled for good.
FullStopCompletes ==
  <>[](/\ hasRequestedFullStop
       /\ IsSynced(namespaceState, SyncTypeOf(wantsToSyncData), Live))
  => <>[](previousSyncEnabledState = "none")

\* Autostop works: with a duration set, everything exchanged and the user
\* quiet, data sync ends.
AutostopStops ==
  /\ <>[](/\ autostopDataSyncAfter # Null
          /\ ~ hasRequestedFullStop
          /\ IsSynced(namespaceState, "full", Live))
  /\ <>[][~ UserCall]_vars
  => <>[](previousSyncEnabledState # "all")

\* waitForSync is not left waiting once everything is, and stays, exchanged.
WaiterResolves ==
  <>[]IsSynced(namespaceState, "full", Live) => <>[](waiter # "waiting")

=============================================================================
