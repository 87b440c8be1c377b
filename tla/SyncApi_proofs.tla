--------------------------- MODULE SyncApi_proofs ---------------------------
(***************************************************************************)
(* What SyncApi guarantees for any peers, namespaces, roles and durations: *)
(* its type invariant, that an armed autostop timer is justified, and that *)
(* a completed full stop lasts.                                            *)
(***************************************************************************)
EXTENDS SyncApi, TLAPS

(***************************************************************************)
(* #updateState, whoever calls it: with well-typed arguments and flags it  *)
(* leaves well-typed outputs, and a timer only where one is justified.  A  *)
(* timer handed over must run for the current duration, from the previous  *)
(* data count.                                                             *)
(***************************************************************************)
LEMMA UpdateStateLemma ==
  ASSUME NEW state, state.have \in 0 .. MaxHave,
         NEW timer \in Timers \cup {Null},
         NEW conns,
         timer # Null => /\ timer.after = autostopDataSyncAfter'
                         /\ timer.have = previousDataHave,
         autostopDataSyncAfter' \in Durations \cup {Null},
         UpdateState(state, timer, conns)
  PROVE  /\ previousSyncEnabledState' \in SyncEnabledStates
         /\ previousDataHave' \in 0 .. MaxHave \cup {Null}
         /\ autostopDataSyncTimeout' \in Timers \cup {Null}
         /\ DOMAIN peerSyncControllers' = conns
         /\ peerSyncControllers' \in [conns -> SyncEnabledStates]
         /\ TimerJustified'
<1> DEFINE synced == IsSynced(state, SyncTypeOf(wantsToSyncData'), conns)
           next   == NextEnabledState(synced)
           kept   == IF state.have # previousDataHave THEN Null ELSE timer
<1>1. /\ previousDataHave' = state.have
      /\ previousSyncEnabledState' = next
      /\ autostopDataSyncTimeout' = NextTimer(state, timer, synced)
      /\ peerSyncControllers' = [c \in conns |-> next]
  BY DEF UpdateState
<1>2. next \in SyncEnabledStates
  BY DEF NextEnabledState, SyncEnabledStates
<1>3. autostopDataSyncTimeout' # Null =>
        /\ wantsToSyncData' /\ ~ hasRequestedFullStop'
        /\ autostopDataSyncTimeout' = KeepOrArm(kept, state.have)
  BY <1>1 DEF NextTimer
<1>4. kept # Null => /\ kept \in Timers
                     /\ kept.after = autostopDataSyncAfter'
                     /\ kept.have = state.have
  OBVIOUS
<1>5. autostopDataSyncTimeout' # Null =>
        /\ autostopDataSyncTimeout' \in Timers
        /\ autostopDataSyncTimeout'.after = autostopDataSyncAfter'
        /\ autostopDataSyncTimeout'.have = state.have
  <2> SUFFICES ASSUME autostopDataSyncTimeout' # Null
               PROVE  /\ autostopDataSyncTimeout' \in Timers
                      /\ autostopDataSyncTimeout'.after = autostopDataSyncAfter'
                      /\ autostopDataSyncTimeout'.have = state.have
    OBVIOUS
  <2>1. CASE kept # Null
    BY <2>1, <1>3, <1>4 DEF KeepOrArm
  <2>2. CASE kept = Null
    BY <2>2, <1>3 DEF KeepOrArm, Timers
  <2> QED BY <2>1, <2>2
<1>6. wantsToSyncData' /\ ~ hasRequestedFullStop' => next = "all"
  BY DEF NextEnabledState
<1>7. TimerJustified'
  BY <1>1, <1>3, <1>5, <1>6 DEF TimerJustified
<1> HIDE DEF next
<1> QED BY <1>1, <1>2, <1>5, <1>7

-----------------------------------------------------------------------------
(***************************************************************************)
(* The inductive invariant: the types, and the justified timer.  A timer   *)
(* that survives #updateState must have been justified before it, so       *)
(* neither part is inductive alone.                                        *)
(***************************************************************************)
IInv == TypeOK /\ TimerJustified

LEMMA InitEstablishes == Init => IInv
<1> SUFFICES ASSUME Init PROVE IInv
  OBVIOUS
<1> USE ConstantsAssumption DEF Init
<1>1. namespaceState \in NamespaceStates
  BY DEF NamespaceStates
<1>2. Live = {} /\ peerSyncControllers \in [Live -> SyncEnabledStates]
  BY DEF Live
<1>3. previousSyncEnabledState \in SyncEnabledStates
  BY DEF SyncEnabledStates
<1> QED BY <1>1, <1>2, <1>3 DEF IInv, TypeOK, TimerJustified

(***************************************************************************)
(* A timer may be handed to #updateState only if the invariant justifies   *)
(* it and the duration is not changed by the caller.                       *)
(***************************************************************************)
LEMMA TimerHandedOver ==
  ASSUME IInv, UNCHANGED autostopDataSyncAfter
  PROVE  /\ autostopDataSyncTimeout \in Timers \cup {Null}
         /\ autostopDataSyncAfter' \in Durations \cup {Null}
         /\ namespaceState.have \in 0 .. MaxHave
         /\ autostopDataSyncTimeout # Null =>
              /\ autostopDataSyncTimeout.after = autostopDataSyncAfter'
              /\ autostopDataSyncTimeout.have = previousDataHave
BY DEF IInv, TypeOK, TimerJustified, NamespaceStates

\* Every caller of #updateState that leaves the sync state and the timer alone.
LEMMA CallerPreserves ==
  ASSUME IInv,
         wantsToSyncData' \in BOOLEAN,
         hasRequestedFullStop' \in BOOLEAN,
         UNCHANGED <<autostopDataSyncAfter, blocked, syncVars>>,
         waiter' \in {"idle", "waiting", "resolved", "rejected"},
         UpdateStateNow
  PROVE  IInv'
<1>1. UNCHANGED autostopDataSyncAfter
  OBVIOUS
<1>2. /\ previousSyncEnabledState' \in SyncEnabledStates
      /\ previousDataHave' \in 0 .. MaxHave \cup {Null}
      /\ autostopDataSyncTimeout' \in Timers \cup {Null}
      /\ DOMAIN peerSyncControllers' = Live
      /\ peerSyncControllers' \in [Live -> SyncEnabledStates]
      /\ TimerJustified'
  BY <1>1, TimerHandedOver, UpdateStateLemma DEF UpdateStateNow
<1> QED BY <1>1, <1>2 DEF IInv, TypeOK, Live, syncVars

LEMMA NextPreserves == IInv /\ [Next]_vars => IInv'
<1> SUFFICES ASSUME IInv, [Next]_vars PROVE IInv'
  OBVIOUS
<1> USE ConstantsAssumption
<1>1. CASE Start \/ Stop \/ RequestFullStop \/ RescindFullStopRequest \/ AutostopFires
  <2>1. /\ wantsToSyncData' \in BOOLEAN /\ hasRequestedFullStop' \in BOOLEAN
        /\ UNCHANGED <<autostopDataSyncAfter, blocked, syncVars>>
        /\ waiter' \in {"idle", "waiting", "resolved", "rejected"}
        /\ UpdateStateNow
    BY <1>1 DEF IInv, TypeOK, Start, Stop, RequestFullStop,
                RescindFullStopRequest, AutostopFires
  <2> QED BY <2>1, CallerPreserves
<1>2. ASSUME NEW after \in Durations \cup {Null},
             StartWithAutostop(after) \/ SetAutostopDataSyncTimeout(after)
      PROVE  IInv'
  <2>1. /\ autostopDataSyncAfter' = after
        /\ wantsToSyncData' \in BOOLEAN
        /\ UNCHANGED <<hasRequestedFullStop, blocked, syncVars, waiter>>
        /\ UpdateState(namespaceState, Null, Live)
    BY <1>2 DEF StartWithAutostop, SetAutostopDataSyncTimeout, IInv, TypeOK
  <2>2. namespaceState.have \in 0 .. MaxHave
    BY DEF IInv, TypeOK, NamespaceStates
  <2>3. /\ previousSyncEnabledState' \in SyncEnabledStates
        /\ previousDataHave' \in 0 .. MaxHave \cup {Null}
        /\ autostopDataSyncTimeout' \in Timers \cup {Null}
        /\ DOMAIN peerSyncControllers' = Live
        /\ peerSyncControllers' \in [Live -> SyncEnabledStates]
        /\ TimerJustified'
    BY <2>1, <2>2, UpdateStateLemma
  <2> QED BY <2>1, <2>3 DEF IInv, TypeOK, Live, syncVars
<1>3. CASE StartWithInvalidAutostop
  BY <1>3 DEF StartWithInvalidAutostop, outputs, syncVars, IInv, TypeOK, Live,
              TimerJustified
<1>4. CASE WaitForSync \/ WaiterTimesOut
  BY <1>4 DEF WaitForSync, WaiterTimesOut, flags, outputs, syncVars, IInv, TypeOK,
              Live, TimerJustified
<1>5. CASE HandleState
  <2>1. /\ UNCHANGED <<autostopDataSyncAfter, wantsToSyncData, hasRequestedFullStop,
                       blocked, trackedPeers, namespaceState, updateTick>>
        /\ stateEvent' = FALSE
        /\ waiter' \in {"idle", "waiting", "resolved", "rejected"}
        /\ UpdateStateNow
    BY <1>5 DEF HandleState, flags, IInv, TypeOK
  <2>2. /\ previousSyncEnabledState' \in SyncEnabledStates
        /\ previousDataHave' \in 0 .. MaxHave \cup {Null}
        /\ autostopDataSyncTimeout' \in Timers \cup {Null}
        /\ DOMAIN peerSyncControllers' = Live
        /\ peerSyncControllers' \in [Live -> SyncEnabledStates]
        /\ TimerJustified'
    BY <2>1, TimerHandedOver, UpdateStateLemma DEF UpdateStateNow
  <2> QED BY <2>1, <2>2 DEF IInv, TypeOK, Live
<1>6. ASSUME NEW c \in Conns, HandlePeerAdd(c) \/ HandlePeerDisconnect(c)
      PROVE  IInv'
  <2>1. PICK conns \in {Live \cup {c}, Live \ {c}} :
          UpdateState(namespaceState, autostopDataSyncTimeout, conns)
    BY <1>6 DEF HandlePeerAdd, HandlePeerDisconnect
  <2>2. /\ UNCHANGED <<flags, namespaceState, stateEvent, waiter>>
        /\ trackedPeers' \subseteq Devices
        /\ updateTick' \in BOOLEAN
        /\ blocked' \in [Conns -> SUBSET NAMESPACES]
    BY <1>6 DEF HandlePeerAdd, HandlePeerDisconnect, IInv, TypeOK
  <2>3. /\ previousSyncEnabledState' \in SyncEnabledStates
        /\ previousDataHave' \in 0 .. MaxHave \cup {Null}
        /\ autostopDataSyncTimeout' \in Timers \cup {Null}
        /\ DOMAIN peerSyncControllers' = conns
        /\ peerSyncControllers' \in [conns -> SyncEnabledStates]
        /\ TimerJustified'
    BY <2>1, <2>2, TimerHandedOver, UpdateStateLemma DEF flags
  <2>4. conns \subseteq Conns
    BY DEF IInv, TypeOK
  <2> QED BY <2>2, <2>3, <2>4 DEF IInv, TypeOK, Live, flags
<1>7. ASSUME NEW c \in Conns, CorePeerAdd(c) \/ CapabilityChanges(c)
      PROVE  IInv'
  <2>1. /\ trackedPeers' \subseteq Devices
        /\ updateTick' \in BOOLEAN
        /\ stateEvent' \in BOOLEAN
        /\ UNCHANGED <<flags, outputs, namespaceState, waiter>>
    BY <1>7 DEF CorePeerAdd, CapabilityChanges, IInv, TypeOK
  <2>2. blocked' \in [Conns -> SUBSET NAMESPACES]
    BY <1>7 DEF CorePeerAdd, CapabilityChanges, IInv, TypeOK
  <2> QED BY <2>1, <2>2 DEF flags, outputs, IInv, TypeOK, Live, TimerJustified
<1>8. ASSUME NEW ns \in NAMESPACES, NamespaceStateChanges(ns)
      PROVE  IInv'
  <2>1. PICK toSync \in BOOLEAN, peers \in SUBSET Devices, gained \in {0, 1} :
          /\ namespaceState.have + gained <= MaxHave
          /\ namespaceState' = [namespaceState EXCEPT !.dataToSync[ns] = toSync,
                                                      !.ready[ns] = peers,
                                                      !.have = @ + gained]
    BY <1>8 DEF NamespaceStateChanges, IInv, TypeOK
  <2>2. namespaceState.have + gained \in 0 .. MaxHave
    BY <2>1 DEF IInv, TypeOK, NamespaceStates
  <2>3. namespaceState' =
          [dataToSync |-> [namespaceState.dataToSync EXCEPT ![ns] = toSync],
           ready      |-> [namespaceState.ready EXCEPT ![ns] = peers],
           have       |-> namespaceState.have + gained]
    BY <2>1 DEF IInv, TypeOK, NamespaceStates
  <2>4. namespaceState' \in NamespaceStates
    BY <2>2, <2>3 DEF NamespaceStates, IInv, TypeOK
  <2> QED BY <1>8, <2>4 DEF NamespaceStateChanges, flags, outputs, IInv, TypeOK,
                            Live, TimerJustified
<1>9. CASE UpdateTick
  <2>1. namespaceState' \in NamespaceStates
    BY <1>9 DEF UpdateTick, NamespaceStates, IInv, TypeOK
  <2> QED BY <1>9, <2>1 DEF UpdateTick, flags, outputs, IInv, TypeOK, Live,
                            TimerJustified
<1>10. CASE UNCHANGED vars
  BY <1>10 DEF vars, flags, outputs, syncVars, IInv, TypeOK, Live, TimerJustified
<1> QED
  BY <1>1, <1>2, <1>3, <1>4, <1>5, <1>6, <1>7, <1>8, <1>9, <1>10
  DEF Next, UserCall

-----------------------------------------------------------------------------
\* Every variable of SyncApi always holds a value of its type.
THEOREM TypeCorrect == Spec => []TypeOK
<1>1. IInv => TypeOK
  BY DEF IInv
<1> QED BY <1>1, InitEstablishes, NextPreserves, PTL DEF Spec

\* The autostop timer only ever runs when data sync is wanted and enabled, the
\* application is not stopping, and no data came in since it was armed.
THEOREM AutostopJustified == Spec => []TimerJustified
<1>1. IInv => TimerJustified
  BY DEF IInv
<1> QED BY <1>1, InitEstablishes, NextPreserves, PTL DEF Spec

(***************************************************************************)
(* The step behind FullStopSticks: #updateState is the only writer of the  *)
(* enabled state, and from 'none' under a full stop it computes 'none'.    *)
(***************************************************************************)
LEMMA FullStopStep ==
  ASSUME [Next]_vars, previousSyncEnabledState = "none", hasRequestedFullStop'
  PROVE  previousSyncEnabledState' = "none"
<1>1. CASE \E state, timer, conns : UpdateState(state, timer, conns)
  BY <1>1 DEF UpdateState, NextEnabledState
<1>2. CASE UNCHANGED previousSyncEnabledState
  BY <1>2
<1>3. \/ UNCHANGED previousSyncEnabledState
      \/ \E state, timer, conns : UpdateState(state, timer, conns)
  <2>1. ASSUME NEW c \in Conns,
               \/ HandlePeerAdd(c) \/ HandlePeerDisconnect(c)
               \/ CorePeerAdd(c) \/ CapabilityChanges(c)
        PROVE  <1>3
    BY <2>1 DEF HandlePeerAdd, HandlePeerDisconnect, CorePeerAdd,
                CapabilityChanges, outputs
  <2>2. CASE UserCall
    BY <2>2 DEF UserCall, Start, Stop, StartWithAutostop,
                SetAutostopDataSyncTimeout, StartWithInvalidAutostop,
                RequestFullStop, RescindFullStopRequest, UpdateStateNow, outputs
  <2>3. CASE \/ WaitForSync \/ WaiterTimesOut \/ AutostopFires \/ HandleState
             \/ UpdateTick \/ \E ns \in NAMESPACES : NamespaceStateChanges(ns)
    BY <2>3 DEF WaitForSync, WaiterTimesOut, AutostopFires, HandleState,
                UpdateTick, NamespaceStateChanges, UpdateStateNow, outputs
  <2>4. CASE UNCHANGED vars
    BY <2>4 DEF vars, outputs
  <2> QED BY <2>1, <2>2, <2>3, <2>4 DEF Next
<1> QED BY <1>1, <1>2, <1>3

\* Sync that stopped in the background stays stopped until the foreground.
THEOREM FullStopIsFinal == Spec => FullStopSticks
<1>1. [Next]_vars =>
        [/\ previousSyncEnabledState = "none"
         /\ hasRequestedFullStop
         /\ hasRequestedFullStop'
         => previousSyncEnabledState' = "none"]_vars
  BY FullStopStep
<1> QED BY <1>1, PTL DEF Spec, FullStopSticks
=============================================================================
