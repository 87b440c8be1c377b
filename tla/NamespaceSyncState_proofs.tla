----------------------- MODULE NamespaceSyncState_proofs -----------------------
(***************************************************************************)
(* That the states of peers come and go with their connections, and that   *)
(* what a device wants follows its filter, for any cores, devices, blocks  *)
(* and number of changes.                                                  *)
(*                                                                         *)
(* WantsFollowFilter is not inductive: the #wants of a new state must be   *)
(* those of a state that did not exist, so nothing may be left of it       *)
(* (NothingLeft).  PeersTracked needs that a core which can be replicated  *)
(* has a state.                                                            *)
(*                                                                         *)
(* CacheCurrent is about sums over cores, but needs nothing about sums:    *)
(* DerivedState is a function of the variables it is derived from, and a   *)
(* step changes none of them, or announces it, or is one of the three that *)
(* do not (CacheStep).  A peer that comes or goes without a state on any   *)
(* core announces nothing: there, the sums are shown to be what they were. *)
(***************************************************************************)
EXTENDS NamespaceSyncState, FiniteSetTheorems, WellFoundedInduction, TLAPS

\* The kinds of the variables that the two properties are about.
Kinds ==
  /\ coreStates \in Seq(Cores) /\ attached \subseteq KnownCores
  /\ connected \subseteq Peers /\ filtered \subseteq Devices
  /\ opened \subseteq Cores \X Peers /\ remoteStates \subseteq KnownCores \X Peers
  /\ preHaves \subseteq Cores \X Peers \X Blocks
  /\ remoteHaves \subseteq Cores \X Peers \X Blocks
  /\ wants \subseteq Cores \X Devices \X Blocks

\* A device has #wants that are not null only in a state that exists.
NothingLeft == limited \subseteq remoteStates \cup (KnownCores \X {Self})

IInv == Kinds /\ NothingLeft /\ PeersTracked /\ WantsFollowFilter

\* The variables of the invariant.
invVars == <<coreStates, attached, connected, opened, remoteStates, preHaves, remoteHaves,
             limited, wants, filtered>>

-------------------------------------------------------------------------------
\* #getCoreState() adds the core to those that are known and leaves the others.
LEMMA CoreIsKnown ==
  ASSUME NEW c \in Cores, coreStates \in Seq(Cores), coreStates' = WithCore(c)
  PROVE  coreStates' \in Seq(Cores) /\ KnownCores' = KnownCores \cup {c}
<1>1. CASE c \in KnownCores
  BY <1>1 DEF WithCore, KnownCores
<1>2. CASE c \notin KnownCores
  <2>1. coreStates' = Append(coreStates, c)
    BY <1>2 DEF WithCore
  <2>2. /\ coreStates' \in Seq(Cores)
        /\ DOMAIN coreStates = 1 .. Len(coreStates) /\ Len(coreStates) \in Nat
        /\ DOMAIN coreStates' = 1 .. Len(coreStates) + 1
        /\ \A i \in 1 .. Len(coreStates) : coreStates'[i] = coreStates[i]
        /\ coreStates'[Len(coreStates) + 1] = c
    BY <2>1
  <2>3. KnownCores' = {coreStates'[i] : i \in 1 .. Len(coreStates) + 1}
    BY <2>2 DEF KnownCores, ToSet
  <2>4. KnownCores = {coreStates[i] : i \in 1 .. Len(coreStates)}
    BY <2>2 DEF KnownCores, ToSet
  <2> QED
    BY <2>2, <2>3, <2>4
<1> QED
  BY <1>1, <1>2

LEMMA InitIInv == Init => IInv
<1> SUFFICES ASSUME Init PROVE IInv
  OBVIOUS
<1>1. Cardinality(OwnCores) \in Nat
  BY FS_Subset, FS_CardinalityType, NamespaceSyncStateAssumption
<1>2. coreStates \in Seq(Cores)
  BY <1>1, NamespaceSyncStateAssumption DEF Init
<1> QED
  BY <1>2, NamespaceSyncStateAssumption
  DEF Init, IInv, Kinds, NothingLeft, PeersTracked, WantsFollowFilter, Devices

\* A step that leaves the variables of the invariant alone keeps it.
LEMMA Untouched == IInv /\ UNCHANGED invVars => IInv'
  BY DEF IInv, Kinds, NothingLeft, PeersTracked, WantsFollowFilter, KnownCores, invVars,
         Blocks, Devices

-------------------------------------------------------------------------------
\* One lemma for each operation that disturbs the invariant.

LEMMA StepAddCore == ASSUME NEW c \in Cores, IInv, AddCore(c) PROVE IInv'
<1> USE DEF IInv, Kinds
<1>1. coreStates' \in Seq(Cores) /\ KnownCores' = KnownCores \cup {c}
  BY CoreIsKnown DEF AddCore
<1>2. UNCHANGED <<connected, opened, remoteStates, preHaves, remoteHaves, wants, filtered>>
  BY DEF AddCore, peerVars
<1>3. attached' = attached \cup {c} /\ limited' = LimitedFor({c}, {})
  BY DEF AddCore
<1>4. Self \notin Peers
  BY NamespaceSyncStateAssumption
<1>5. Kinds'
  BY <1>1, <1>2, <1>3 DEF Devices, Blocks
<1>6. NothingLeft'
  BY <1>1, <1>2, <1>3 DEF LimitedFor, NothingLeft
<1>7. PeersTracked'
  BY <1>2, <1>3 DEF LimitedFor, PeersTracked
<1>8. WantsFollowFilter'
  BY <1>1, <1>2, <1>3, <1>4 DEF LimitedFor, NothingLeft, WantsFollowFilter
<1> QED
  BY <1>5, <1>6, <1>7, <1>8

LEMMA StepAddPeer == ASSUME NEW p \in Peers, IInv, AddPeer(p) PROVE IInv'
<1> USE DEF IInv, Kinds
<1>1. UNCHANGED <<coreStates, attached, opened, preHaves, remoteHaves, wants, filtered>>
  BY DEF AddPeer, coreVars
<1>2. /\ connected' = connected \cup {p}
      /\ remoteStates' = remoteStates \cup (KnownCores \X {p})
      /\ limited' = LimitedFor({}, KnownCores \X {p})
      /\ \A c \in Cores : <<c, p>> \notin opened
  BY DEF AddPeer
<1>3. Self \notin Peers /\ KnownCores' = KnownCores
  BY <1>1, NamespaceSyncStateAssumption DEF KnownCores
<1>4. Kinds'
  BY <1>1, <1>2, <1>3 DEF Devices, Blocks
<1>5. NothingLeft'
  BY <1>1, <1>2, <1>3 DEF LimitedFor, NothingLeft
<1>6. PeersTracked'
  BY <1>1, <1>2, <1>3 DEF LimitedFor, PeersTracked
<1>7. WantsFollowFilter'
  BY <1>1, <1>2, <1>3 DEF LimitedFor, NothingLeft, WantsFollowFilter
<1> QED
  BY <1>4, <1>5, <1>6, <1>7

LEMMA StepDisconnectPeer == ASSUME NEW p \in Peers, IInv, DisconnectPeer(p) PROVE IInv'
<1> USE DEF IInv, Kinds
<1> DEFINE Kept(r) == {x \in r : <<x[1], x[2]>> \notin Forgotten(p)}
<1>1. UNCHANGED <<coreStates, attached, opened, filtered>>
  BY DEF DisconnectPeer, coreVars
<1>2. /\ connected' = connected \ {p}
      /\ remoteStates' = remoteStates \ Forgotten(p)
      /\ preHaves' = Kept(preHaves) /\ remoteHaves' = Kept(remoteHaves)
      /\ limited' = Kept(limited) /\ wants' = Kept(wants)
  BY DEF DisconnectPeer
<1>3. Self \notin Peers /\ KnownCores' = KnownCores
  BY <1>1, NamespaceSyncStateAssumption DEF KnownCores
<1>4. Kinds'
  BY <1>1, <1>2, <1>3 DEF Devices, Blocks
<1>5. NothingLeft'
  BY <1>1, <1>2, <1>3 DEF Forgotten, NothingLeft
<1>6. PeersTracked'
  BY <1>1, <1>2, <1>3 DEF Forgotten, PeersTracked, NothingLeft
<1>7. WantsFollowFilter'
  BY <1>1, <1>2, <1>3 DEF Forgotten, WantsFollowFilter
<1> QED
  BY <1>4, <1>5, <1>6, <1>7

LEMMA StepPeerAdd ==
  ASSUME NEW c \in Cores, NEW p \in Peers, IInv, PeerAdd(c, p) PROVE IInv'
<1> USE DEF IInv, Kinds
<1> DEFINE x == <<c, p>>
<1>1. UNCHANGED <<coreStates, attached, connected, preHaves, wants, filtered>>
  BY DEF PeerAdd, coreVars
<1>2. /\ c \in attached /\ p \in connected
      /\ opened' = opened \cup {x} /\ remoteStates' = remoteStates \cup {x}
      /\ limited' = LimitedFor({}, {x})
      /\ remoteHaves' = {h \in remoteHaves : <<h[1], h[2]>> # x}
  BY DEF PeerAdd
<1>3. Self \notin Peers /\ KnownCores' = KnownCores
  BY <1>1, NamespaceSyncStateAssumption DEF KnownCores
<1>4. Kinds'
  BY <1>1, <1>2, <1>3 DEF Devices, Blocks
<1>5. NothingLeft'
  BY <1>1, <1>2, <1>3 DEF LimitedFor, NothingLeft
<1>6. PeersTracked'
  BY <1>1, <1>2, <1>3 DEF LimitedFor, PeersTracked
<1>7. WantsFollowFilter'
  BY <1>1, <1>2, <1>3 DEF LimitedFor, NothingLeft, WantsFollowFilter
<1> QED
  BY <1>4, <1>5, <1>6, <1>7

LEMMA StepPeerRemove ==
  ASSUME NEW c \in Cores, NEW p \in Peers, IInv, PeerRemove(c, p) PROVE IInv'
<1> USE DEF IInv, Kinds
<1>1. UNCHANGED <<coreStates, attached, connected, remoteStates, preHaves, remoteHaves,
                  limited, wants, filtered>>
  BY DEF PeerRemove, coreVars, wantVars
<1>2. opened' = opened \ {<<c, p>>}
  BY DEF PeerRemove
<1> QED
  BY <1>1, <1>2
  DEF NothingLeft, PeersTracked, WantsFollowFilter, KnownCores, Blocks, Devices

LEMMA StepRemoteHave ==
  ASSUME NEW c \in Cores, NEW p \in Peers, NEW b \in Blocks, IInv, RemoteHave(c, p, b)
  PROVE  IInv'
<1> USE DEF IInv, Kinds
<1>1. UNCHANGED <<coreStates, attached, connected, opened, remoteStates, preHaves,
                  limited, wants, filtered>>
  BY DEF RemoteHave, coreVars, wantVars
<1>2. /\ <<c, p>> \in opened /\ p \in connected
      /\ remoteHaves' = remoteHaves \cup {<<c, p, b>>}
  BY DEF RemoteHave
<1>3. <<c, p>> \in remoteStates
  BY <1>2 DEF PeersTracked
<1>4. Kinds'
  BY <1>1, <1>2 DEF KnownCores, Devices, Blocks
<1>5. NothingLeft' /\ WantsFollowFilter'
  BY <1>1 DEF NothingLeft, WantsFollowFilter, KnownCores
<1>6. PeersTracked'
  BY <1>1, <1>2, <1>3 DEF PeersTracked
<1> QED
  BY <1>4, <1>5, <1>6

LEMMA StepInsertPreHaves ==
  ASSUME NEW c \in Cores, NEW p \in Peers, NEW bs \in SUBSET Blocks, IInv,
         InsertPreHaves(c, p, bs)
  PROVE  IInv'
<1> USE DEF IInv, Kinds
<1> DEFINE x == <<c, p>>
<1>1. coreStates' \in Seq(Cores) /\ KnownCores' = KnownCores \cup {c}
  BY CoreIsKnown DEF InsertPreHaves
<1>2. UNCHANGED <<attached, connected, opened, remoteHaves, wants, filtered>>
  BY DEF InsertPreHaves
<1>3. /\ p \in connected
      /\ remoteStates' = remoteStates \cup {x}
      /\ limited' = LimitedFor({c}, {x})
      /\ preHaves' = {h \in preHaves : <<h[1], h[2]>> # x} \cup {<<c, p, b>> : b \in bs}
  BY DEF InsertPreHaves
<1>4. Self \notin Peers
  BY NamespaceSyncStateAssumption
<1>5. Kinds'
  <2>1. preHaves' \subseteq Cores \X Peers \X Blocks
    BY <1>3 DEF Blocks
  <2> QED
    BY <1>1, <1>2, <1>3, <2>1 DEF Devices, Blocks
<1>6. NothingLeft'
  BY <1>1, <1>2, <1>3 DEF LimitedFor, NothingLeft
<1>7. PeersTracked'
  BY <1>2, <1>3 DEF LimitedFor, PeersTracked
<1>8. WantsFollowFilter'
  BY <1>1, <1>2, <1>3, <1>4 DEF LimitedFor, NothingLeft, WantsFollowFilter
<1> QED
  BY <1>5, <1>6, <1>7, <1>8

LEMMA StepBlobFilter ==
  ASSUME NEW d \in Devices, NEW filter \in BOOLEAN, IInv, BlobFilter(d, filter)
  PROVE  IInv'
<1> USE DEF IInv, Kinds
<1> DEFINE all == KnownCores \X {d}
<1>1. UNCHANGED <<coreStates, attached, connected, opened, preHaves, remoteHaves>>
  BY DEF BlobFilter, coreVars
<1>2. /\ d \in connected \cup {Self}
      /\ remoteStates' = remoteStates \cup (all \cap Pairs)
      /\ limited' = IF filter THEN limited \cup all ELSE limited \ all
      /\ wants' = {w \in wants : w[2] # d}
      /\ filtered' = IF filter THEN filtered \cup {d} ELSE filtered \ {d}
  BY DEF BlobFilter
<1>3. /\ Self \notin Peers /\ KnownCores' = KnownCores
      /\ KnownCores \subseteq Cores
  BY <1>1, NamespaceSyncStateAssumption DEF KnownCores, ToSet
<1>4. Kinds'
  BY <1>1, <1>2, <1>3 DEF Devices, Blocks, Pairs
<1>5. NothingLeft'
  BY <1>1, <1>2, <1>3 DEF NothingLeft, Devices, Pairs
<1>6. PeersTracked'
  BY <1>1, <1>2, <1>3 DEF PeersTracked, Pairs
<1>7. WantsFollowFilter'
  BY <1>1, <1>2, <1>3 DEF WantsFollowFilter, Pairs
<1> QED
  BY <1>4, <1>5, <1>6, <1>7

LEMMA StepWantBlobRange ==
  ASSUME NEW d \in Devices, NEW c \in Cores, NEW b \in Blocks, IInv,
         WantBlobRange(d, c, b)
  PROVE  IInv'
<1> USE DEF IInv, Kinds
<1>1. coreStates' \in Seq(Cores) /\ KnownCores' = KnownCores \cup {c}
  BY CoreIsKnown DEF WantBlobRange
<1>2. UNCHANGED <<attached, connected, opened, preHaves, remoteHaves, filtered>>
  BY DEF WantBlobRange
<1>3. /\ d \in filtered /\ d \in connected \cup {Self}
      /\ remoteStates' = remoteStates \cup ({<<c, d>>} \cap Pairs)
      /\ limited' = LimitedFor({c}, {<<c, d>>}) \cup {<<c, d>>}
      /\ wants' = wants \cup {<<c, d, b>>}
  BY DEF WantBlobRange
<1>4. Self \notin Peers
  BY NamespaceSyncStateAssumption
<1>5. Kinds'
  BY <1>1, <1>2, <1>3 DEF Devices, Blocks, Pairs
<1>6. NothingLeft'
  BY <1>1, <1>2, <1>3 DEF LimitedFor, NothingLeft, Devices, Pairs
<1>7. PeersTracked'
  <2>1. limited \subseteq limited' /\ <<c, d>> \in limited'
    BY <1>3 DEF LimitedFor
  <2>2. ASSUME NEW w \in wants' PROVE <<w[1], w[2]>> \in limited'
    <3>1. CASE w \in wants
      BY <2>1, <3>1 DEF PeersTracked
    <3>2. CASE w = <<c, d, b>>
      BY <2>1, <3>2
    <3> QED
      BY <1>3, <3>1, <3>2
  <2>3. /\ \A x \in remoteStates' : x[2] \in connected'
        /\ \A x \in opened' : x[2] \in connected' => x \in remoteStates'
        /\ \A h \in (preHaves \cup remoteHaves)' : <<h[1], h[2]>> \in remoteStates'
    BY <1>2, <1>3, <1>4 DEF PeersTracked, Pairs
  <2> QED
    BY <2>2, <2>3 DEF PeersTracked
<1>8. WantsFollowFilter'
  BY <1>1, <1>2, <1>3, <1>4 DEF LimitedFor, NothingLeft, WantsFollowFilter, Pairs
<1> QED
  BY <1>5, <1>6, <1>7, <1>8

-------------------------------------------------------------------------------
LEMMA StepIInv == IInv /\ [Next]_vars => IInv'
<1> SUFFICES ASSUME IInv, [Next]_vars PROVE IInv'
  OBVIOUS
<1> USE DEF invVars
<1>1. ASSUME NEW c \in Cores, AddCore(c) PROVE IInv'
  BY <1>1, StepAddCore
<1>2. ASSUME NEW c \in Cores, CoreReady(c) \/ AppendBlock(c) \/ Upgrade(c) \/ Download(c)
      PROVE  IInv'
  BY <1>2, Untouched DEF CoreReady, AppendBlock, Upgrade, Download, coreVars, peerVars, wantVars
<1>3. ASSUME NEW p \in Peers, AddPeer(p) PROVE IInv'
  BY <1>3, StepAddPeer
<1>4. ASSUME NEW p \in Peers, DisconnectPeer(p) PROVE IInv'
  BY <1>4, StepDisconnectPeer
<1>5. ASSUME NEW p \in Peers, CapabilityChanges(p) PROVE IInv'
  BY <1>5, Untouched DEF CapabilityChanges, coreVars, wantVars
<1>6. ASSUME NEW c \in Cores, NEW p \in Peers, PeerAdd(c, p) PROVE IInv'
  BY <1>6, StepPeerAdd
<1>7. ASSUME NEW c \in Cores, NEW p \in Peers, PeerRemove(c, p) PROVE IInv'
  BY <1>7, StepPeerRemove
<1>8. ASSUME NEW c \in Cores, NEW p \in Peers, UpdateDone(c, p) PROVE IInv'
  BY <1>8, Untouched DEF UpdateDone, coreVars, wantVars
<1>9. ASSUME NEW c \in Cores, NEW p \in Peers, NEW b \in Blocks, RemoteHave(c, p, b)
      PROVE  IInv'
  BY <1>9, StepRemoteHave
<1>10. ASSUME NEW c \in Cores, NEW p \in Peers, NEW bs \in SUBSET Blocks,
              InsertPreHaves(c, p, bs)
       PROVE  IInv'
  BY <1>10, StepInsertPreHaves
<1>11. ASSUME NEW d \in Devices, NEW filter \in BOOLEAN, BlobFilter(d, filter) PROVE IInv'
  BY <1>11, StepBlobFilter
<1>12. ASSUME NEW d \in Devices, NEW c \in Cores, NEW b \in Blocks, WantBlobRange(d, c, b)
       PROVE  IInv'
  BY <1>12, StepWantBlobRange
<1>13. CASE HandleUpdate \/ EmitState \/ GetState
  BY <1>13, Untouched DEF HandleUpdate, EmitState, GetState, coreVars, peerVars, wantVars
<1>14. CASE UNCHANGED vars
  BY <1>14, Untouched DEF vars, coreVars, peerVars, wantVars
<1> QED
  BY <1>1, <1>2, <1>3, <1>4, <1>5, <1>6, <1>7, <1>8, <1>9, <1>10, <1>11, <1>12, <1>13, <1>14
  DEF Next

\* The invariant holds in every reachable state.
THEOREM InvariantHolds == Spec => []IInv
  BY InitIInv, StepIInv, PTL DEF Spec

\* For any number of peers that come, go, replicate and announce in any order, a
\* PeerState exists for connected peers only, with all that it holds, and for
\* each peer of an open core.
THEOREM StatesOfConnectedPeers == Spec => []PeersTracked
  BY InvariantHolds, PTL DEF IInv

\* On each core, however its state and that of the peer came to exist, a device
\* wants everything if and only if it has no download filter.
THEOREM FiltersReachAllCores == Spec => []WantsFollowFilter
  BY InvariantHolds, PTL DEF IInv

-------------------------------------------------------------------------------
(***************************************************************************)
(* The cache                                                               *)
(***************************************************************************)

\* What the derived state depends on: these, and the peers that count.
derivedVars == <<coreStates, attached, ready, haves, length, preHavesLength, status, preHaves,
                 remoteHaves, limited, wants>>

SameInputs == UNCHANGED derivedVars /\ \A c : Counted(c)' = Counted(c)

StatusKind == status \in [Pairs -> {"stopped", "starting", "started"}]

\* What a step does: it announces a change or is one that is not announced, it clears the
\* cache, or it changes nothing that the sums depend on and fills the cache or leaves it.
CacheStep ==
  \/ updateTick' \/ unannounced' \/ cachedState' = NoState
  \/ SameInputs /\ ~updateTick /\ ~unannounced /\ cachedState' \in {cachedState, CurrentState}

\* deriveState() and getState() read nothing else.
LEMMA DerivedFromInputs == ASSUME SameInputs PROVE DerivedState' = DerivedState
<1>1. \A c : Known(c)' = Known(c)
  BY DEF SameInputs, derivedVars, Known
<1>2. \A c : LocalHaves(c)' = LocalHaves(c) /\ Counted(c)' = Counted(c)
  BY <1>1 DEF SameInputs, derivedVars, LocalHaves
<1>3. \A c, p : PeerHaves(c, p)' = PeerHaves(c, p) /\ Wants(c, p)' = Wants(c, p)
  BY <1>1 DEF SameInputs, derivedVars, PeerHaves, Wants
<1>4. \A c, p : /\ TheyWantFromMe(c, p)' = TheyWantFromMe(c, p)
                /\ IWantFromThem(c, p)' = IWantFromThem(c, p)
  BY <1>2, <1>3 DEF TheyWantFromMe, IWantFromThem
<1>5. \A c : Have(c)' = Have(c) /\ Want(c)' = Want(c) /\ Wanted(c)' = Wanted(c)
  BY <1>2, <1>4 DEF Have, Want, Wanted
<1>6. KnownCores' = KnownCores /\ attached' = attached
  BY DEF SameInputs, derivedVars, KnownCores
<1>7. \A p : StatusOf(p)' = StatusOf(p)
  <2>1. coreStates' = coreStates /\ status' = status
    BY DEF SameInputs, derivedVars
  <2> QED
    BY <1>2, <2>1 DEF StatusOf
<1>8. \A p : RemoteState(p)' = RemoteState(p)
  BY <1>2, <1>4, <1>6, <1>7 DEF RemoteState
<1> QED
  BY <1>2, <1>5, <1>6, <1>8 DEF DerivedState

LEMMA StepStatus == StatusKind /\ [Next]_vars => StatusKind'
<1> SUFFICES ASSUME StatusKind, [Next]_vars PROVE StatusKind'
  OBVIOUS
<1> USE DEF StatusKind
<1>1. ASSUME NEW p \in Peers, DisconnectPeer(p) PROVE StatusKind'
  BY <1>1 DEF DisconnectPeer
<1>2. ASSUME NEW c \in Cores, NEW p \in Peers, PeerAdd(c, p) PROVE StatusKind'
  BY <1>2 DEF PeerAdd
<1>3. ASSUME NEW c \in Cores, NEW p \in Peers, PeerRemove(c, p) PROVE StatusKind'
  BY <1>3 DEF PeerRemove
<1>4. ASSUME NEW c \in Cores, NEW p \in Peers, UpdateDone(c, p) PROVE StatusKind'
  BY <1>4 DEF UpdateDone
<1>5. CASE UNCHANGED status
  BY <1>5
<1> QED
  BY <1>1, <1>2, <1>3, <1>4, <1>5
  DEF Next, vars, AddCore, CoreReady, AppendBlock, Upgrade, Download, AddPeer, CapabilityChanges,
      RemoteHave, InsertPreHaves, BlobFilter, WantBlobRange, HandleUpdate, EmitState, GetState,
      peerVars

-------------------------------------------------------------------------------
\* The handlers that announce a change only if there is one.

\* A peer that comes to a namespace without cores changes nothing.
LEMMA CacheAddPeer == ASSUME NEW p \in Peers, AddPeer(p) PROVE CacheStep
<1>1. CASE coreStates # <<>> \/ updateTick \/ unannounced
  BY <1>1 DEF AddPeer, UpdateIf, CacheStep
<1>2. CASE coreStates = <<>> /\ ~updateTick /\ ~unannounced
  <2>1. KnownCores = {}
    BY <1>2 DEF KnownCores, ToSet
  <2>2. remoteStates' = remoteStates /\ limited' = limited
    BY <2>1 DEF AddPeer, LimitedFor
  <2>3. SameInputs
    BY <2>2 DEF AddPeer, SameInputs, derivedVars, coreVars, Counted
  <2> QED
    BY <1>2, <2>3 DEF AddPeer, UpdateIf, CacheStep
<1> QED
  BY <1>1, <1>2

\* Nor does a peer that goes and has no state on any core, though it may have been blocked.
LEMMA CacheDisconnectPeer ==
  ASSUME NEW p \in Peers, StatusKind, IInv, DisconnectPeer(p) PROVE CacheStep
<1>1. CASE Forgotten(p) # {} \/ updateTick \/ unannounced
  BY <1>1 DEF DisconnectPeer, UpdateIf, CacheStep
<1>2. CASE Forgotten(p) = {} /\ ~updateTick /\ ~unannounced
  <2>1. /\ remoteStates' = remoteStates /\ blocked' = blocked \ {p}
        /\ preHaves' = preHaves /\ remoteHaves' = remoteHaves
        /\ limited' = limited /\ wants' = wants
        /\ status' = [x \in Pairs |-> status[x]]
    BY <1>2 DEF DisconnectPeer
  <2>2. status' = status
    BY <2>1 DEF StatusKind
  <2>3. \A c : <<c, p>> \notin remoteStates
    BY <1>2 DEF Forgotten
  <2>4. \A c : Counted(c)' = Counted(c)
    BY <2>1, <2>3 DEF Counted
  <2>5. SameInputs
    BY <2>1, <2>2, <2>4 DEF DisconnectPeer, SameInputs, derivedVars, coreVars
  <2> QED
    BY <1>2, <2>5 DEF DisconnectPeer, UpdateIf, CacheStep
<1> QED
  BY <1>1, <1>2

\* A core that closes for a peer without a state changes nothing.
LEMMA CachePeerRemove ==
  ASSUME NEW c \in Cores, NEW p \in Peers, PeerRemove(c, p) PROVE CacheStep
<1>1. CASE <<c, p>> \in remoteStates \/ updateTick \/ unannounced
  BY <1>1 DEF PeerRemove, UpdateIf, CacheStep
<1>2. CASE <<c, p>> \notin remoteStates /\ ~updateTick /\ ~unannounced
  <2>1. SameInputs
    BY <1>2 DEF PeerRemove, SameInputs, derivedVars, coreVars, wantVars, Counted
  <2> QED
    BY <1>2, <2>1 DEF PeerRemove, UpdateIf, CacheStep
<1> QED
  BY <1>1, <1>2

\* Without cores there is nothing that a filter could change: #wants are those of states.
LEMMA CacheBlobFilter ==
  ASSUME NEW d \in Devices, NEW filter \in BOOLEAN, IInv, BlobFilter(d, filter) PROVE CacheStep
<1>1. CASE coreStates # <<>> \/ updateTick \/ unannounced
  BY <1>1 DEF BlobFilter, UpdateIf, CacheStep
<1>2. CASE coreStates = <<>> /\ ~updateTick /\ ~unannounced
  <2>1. KnownCores = {}
    BY <1>2 DEF KnownCores, ToSet
  <2>2. limited = {} /\ remoteStates = {} /\ wants = {}
    BY <2>1 DEF IInv, Kinds, NothingLeft, PeersTracked
  <2>3. limited' = limited /\ remoteStates' = remoteStates /\ wants' = wants
    BY <2>1, <2>2 DEF BlobFilter
  <2>4. SameInputs
    BY <2>3 DEF BlobFilter, SameInputs, derivedVars, coreVars, Counted
  <2> QED
    BY <1>2, <2>4 DEF BlobFilter, UpdateIf, CacheStep
<1> QED
  BY <1>1, <1>2

LEMMA StepCache == IInv /\ StatusKind /\ [Next]_vars => CacheStep
<1> SUFFICES ASSUME IInv, StatusKind, [Next]_vars PROVE CacheStep
  OBVIOUS
<1>1. ASSUME NEW c \in Cores, AddCore(c) \/ CoreReady(c) PROVE CacheStep
  BY <1>1 DEF AddCore, CoreReady, NoUpdate, CacheStep
<1>2. ASSUME NEW c \in Cores, AppendBlock(c) \/ Upgrade(c) \/ Download(c) PROVE CacheStep
  BY <1>2 DEF AppendBlock, Upgrade, Download, UpdateIf, CacheStep
<1>3. ASSUME NEW p \in Peers, CapabilityChanges(p) PROVE CacheStep
  BY <1>3 DEF CapabilityChanges, NoUpdate, CacheStep
<1>4. ASSUME NEW c \in Cores, NEW p \in Peers, PeerAdd(c, p) \/ UpdateDone(c, p) PROVE CacheStep
  BY <1>4 DEF PeerAdd, UpdateDone, UpdateIf, CacheStep
<1>5. ASSUME NEW c \in Cores, NEW p \in Peers, NEW b \in Blocks, RemoteHave(c, p, b)
      PROVE  CacheStep
  BY <1>5 DEF RemoteHave, UpdateIf, CacheStep
<1>6. ASSUME NEW c \in Cores, NEW p \in Peers, NEW bs \in SUBSET Blocks, InsertPreHaves(c, p, bs)
      PROVE  CacheStep
  BY <1>6 DEF InsertPreHaves, UpdateIf, CacheStep
<1>7. ASSUME NEW d \in Devices, NEW c \in Cores, NEW b \in Blocks, WantBlobRange(d, c, b)
      PROVE  CacheStep
  BY <1>7 DEF WantBlobRange, UpdateIf, CacheStep
<1>8. CASE HandleUpdate
  BY <1>8 DEF HandleUpdate, CacheStep
<1>9. CASE EmitState \/ GetState
  BY <1>9 DEF EmitState, GetState, CurrentState, CacheStep, SameInputs, derivedVars, coreVars,
              peerVars, wantVars, Counted
<1>10. CASE UNCHANGED vars
  BY <1>10 DEF vars, coreVars, peerVars, wantVars, eventVars, CacheStep, SameInputs, derivedVars,
               Counted
<1> QED
  BY <1>1, <1>2, <1>3, <1>4, <1>5, <1>6, <1>7, <1>8, <1>9, <1>10,
     CacheAddPeer, CacheDisconnectPeer, CachePeerRemove, CacheBlobFilter DEF Next

\* The cached sums are those of the present state, for any number of cores, peers and blocks,
\* unless an update is due or something changed that the code does not announce.
THEOREM CacheIsCurrent == Spec => []CacheCurrent
<1>1. Init => StatusKind /\ CacheCurrent
  BY DEF Init, StatusKind, CacheCurrent
<1>2. CacheCurrent /\ CacheStep => CacheCurrent'
  BY DerivedFromInputs DEF CacheCurrent, CacheStep, CurrentState
<1>3. IInv /\ StatusKind /\ CacheCurrent /\ [Next]_vars => StatusKind' /\ CacheCurrent'
  BY <1>2, StepStatus, StepCache
<1> QED
  BY <1>1, <1>3, InvariantHolds, PTL DEF Spec

-------------------------------------------------------------------------------
(***************************************************************************)
(* Types                                                                   *)
(***************************************************************************)

\* The greatest of some numbers up to n, none of which another exceeds, is one of them.
LEMMA MaxType ==
  ASSUME NEW n \in Nat, NEW S \in SUBSET (0 .. n), S # {}
  PROVE  Max(S) \in 0 .. n
<1> DEFINE T == {n - i : i \in S}
<1>1. T \subseteq Nat /\ T # {}
  OBVIOUS
<1>2. PICK x \in T : \A y \in T : ~ (<<y, x>> \in OpToRel(<, Nat))
  <2> HIDE DEF T
  <2> QED
    BY <1>1, NatLessThanWellFounded, WFMin
<1>3. \A y \in T : ~ (y < x)
  BY <1>1, <1>2 DEF OpToRel
<1>4. PICK m \in S : x = n - m
  OBVIOUS
<1>5. ASSUME NEW i \in S PROVE m >= i
  <2>1. n - i \in T
    OBVIOUS
  <2>2. ~ (n - i < n - m)
    BY <1>3, <1>4, <2>1
  <2> QED
    BY <2>2
<1>6. \E m2 \in S : \A i \in S : m2 >= i
  BY <1>5
<1>7. Max(S) \in S
  BY <1>6, Zenon DEF Max
<1> QED
  BY <1>7

\* A core has one place in the order of the map.
OncePerCore == Cardinality(KnownCores) = Len(coreStates)

LEMMA KnownOnce ==
  ASSUME NEW c \in Cores, coreStates \in Seq(Cores), OncePerCore, coreStates' = WithCore(c)
  PROVE  OncePerCore'
<1>1. KnownCores \subseteq Cores /\ IsFiniteSet(Cores)
  BY NamespaceSyncStateAssumption DEF KnownCores, ToSet
<1>2. IsFiniteSet(KnownCores)
  BY <1>1, FS_Subset
<1>3. KnownCores' = KnownCores \cup {c}
  BY CoreIsKnown
<1>4. CASE c \in KnownCores
  BY <1>4 DEF WithCore, OncePerCore, KnownCores
<1>5. CASE c \notin KnownCores
  <2>1. Cardinality(KnownCores') = Cardinality(KnownCores) + 1
    BY <1>2, <1>3, <1>5, FS_AddElement
  <2>2. Len(coreStates') = Len(coreStates) + 1
    BY <1>5 DEF WithCore
  <2> QED
    BY <2>1, <2>2 DEF OncePerCore
<1> QED
  BY <1>4, <1>5

CoreKinds ==
  /\ ready \subseteq attached /\ OncePerCore
  /\ haves \in [Cores -> SUBSET Blocks] /\ length \in [Cores -> 0 .. MaxLength]
  /\ preHavesLength \in [Cores -> 0 .. MaxLength]

PeerKinds ==
  /\ blocked \subseteq connected /\ opened \subseteq attached \X Peers
  /\ updating \in [Pairs -> 0 .. MaxUpdates]

LEMMA InitKinds == Init => CoreKinds /\ PeerKinds
<1> SUFFICES ASSUME Init PROVE CoreKinds /\ PeerKinds
  OBVIOUS
<1>1. MaxLength \in Nat /\ Stored \in [Cores -> SUBSET Blocks] /\ MaxUpdates \in Nat
  BY NamespaceSyncStateAssumption
<1>2. OncePerCore
  <2>1. Cardinality(OwnCores) \in Nat
    BY FS_Subset, FS_CardinalityType, NamespaceSyncStateAssumption
  <2>2. Len(coreStates) = Cardinality(OwnCores) /\ KnownCores = OwnCores
    BY <2>1 DEF Init
  <2> QED
    BY <2>2 DEF OncePerCore
<1>3. ASSUME NEW c \in Cores
      PROVE  (IF haves[c] = {} THEN 0 ELSE Max(haves[c]) + 1) \in 0 .. MaxLength
  <2>1. haves[c] \subseteq Blocks
    BY <1>1 DEF Init
  <2>2. CASE haves[c] # {}
    <3>1. MaxLength - 1 \in Nat /\ haves[c] \in SUBSET (0 .. MaxLength - 1)
      BY <1>1, <2>1, <2>2 DEF Blocks
    <3>2. Max(haves[c]) \in 0 .. MaxLength - 1
      BY <2>2, <3>1, MaxType
    <3> QED
      BY <1>1, <3>2
  <2> QED
    BY <1>1, <2>2
<1>4. CoreKinds
  BY <1>1, <1>2, <1>3 DEF Init, CoreKinds
<1>5. PeerKinds
  BY <1>1 DEF Init, PeerKinds
<1> QED
  BY <1>4, <1>5

LEMMA StepCoreKinds == IInv /\ CoreKinds /\ [Next]_vars => CoreKinds'
<1> SUFFICES ASSUME IInv, CoreKinds, [Next]_vars PROVE CoreKinds'
  OBVIOUS
<1>1. coreStates \in Seq(Cores) /\ MaxLength \in Nat
  BY NamespaceSyncStateAssumption DEF IInv, Kinds
<1>2. ASSUME UNCHANGED coreVars PROVE CoreKinds'
  BY <1>2 DEF CoreKinds, coreVars, OncePerCore, KnownCores, Blocks
<1>3. ASSUME NEW c \in Cores, AddCore(c) PROVE CoreKinds'
  BY <1>1, <1>3, KnownOnce DEF AddCore, CoreKinds, Blocks
<1>4. ASSUME NEW c \in Cores, CoreReady(c) PROVE CoreKinds'
  BY <1>4 DEF CoreReady, CoreKinds, OncePerCore, KnownCores, Blocks
<1>5. ASSUME NEW c \in Cores, AppendBlock(c) PROVE CoreKinds'
  <2>1. length[c] \in Blocks /\ length[c] + 1 \in 0 .. MaxLength
    BY <1>1, <1>5 DEF AppendBlock, CoreKinds, Blocks
  <2> QED
    BY <1>5, <2>1 DEF AppendBlock, CoreKinds, OncePerCore, KnownCores, Blocks
<1>6. ASSUME NEW c \in Cores, Upgrade(c) PROVE CoreKinds'
  <2>1. PICK b \in Blocks : length' = [length EXCEPT ![c] = b + 1]
    BY <1>6 DEF Upgrade
  <2>2. b + 1 \in 0 .. MaxLength
    BY <1>1 DEF Blocks
  <2> QED
    BY <1>6, <2>1, <2>2 DEF Upgrade, CoreKinds, OncePerCore, KnownCores, Blocks
<1>7. ASSUME NEW c \in Cores, Download(c) PROVE CoreKinds'
  <2>1. PICK b \in Wants(c, Self) : haves' = [haves EXCEPT ![c] = @ \cup {b}]
    BY <1>7 DEF Download
  <2>2. b \in Blocks
    BY DEF Wants
  <2> QED
    BY <1>7, <2>1, <2>2 DEF Download, CoreKinds, OncePerCore, KnownCores, Blocks
<1>8. ASSUME NEW c \in Cores, NEW p \in Peers, NEW bs \in SUBSET Blocks,
             InsertPreHaves(c, p, bs)
      PROVE  CoreKinds'
  <2> DEFINE S == {preHavesLength[c]} \cup {b + 1 : b \in bs}
  <2>1. S \in SUBSET (0 .. MaxLength) /\ S # {}
    BY <1>1 DEF CoreKinds, Blocks
  <2>2. Max(S) \in 0 .. MaxLength
    <3> HIDE DEF S
    <3> QED
      BY <1>1, <2>1, MaxType
  <2>3. preHavesLength' = [preHavesLength EXCEPT ![c] = Max(S)]
    BY <1>8 DEF InsertPreHaves, CoreKinds
  <2>4. OncePerCore'
    BY <1>1, <1>8, KnownOnce DEF InsertPreHaves, CoreKinds
  <2> HIDE DEF S
  <2> QED
    BY <1>8, <2>2, <2>3, <2>4 DEF InsertPreHaves, CoreKinds, Blocks
<1>9. ASSUME NEW d \in Devices, NEW c \in Cores, NEW b \in Blocks, WantBlobRange(d, c, b)
      PROVE  CoreKinds'
  BY <1>1, <1>9, KnownOnce DEF WantBlobRange, CoreKinds, Blocks
<1>10. ASSUME NEW p \in Peers, AddPeer(p) \/ DisconnectPeer(p) \/ CapabilityChanges(p)
       PROVE  UNCHANGED coreVars
  BY <1>10 DEF AddPeer, DisconnectPeer, CapabilityChanges
<1>11. ASSUME NEW c \in Cores, NEW p \in Peers, PeerAdd(c, p) \/ PeerRemove(c, p) \/ UpdateDone(c, p)
       PROVE  UNCHANGED coreVars
  BY <1>11 DEF PeerAdd, PeerRemove, UpdateDone
<1>12. ASSUME NEW c \in Cores, NEW p \in Peers, NEW b \in Blocks, RemoteHave(c, p, b)
       PROVE  UNCHANGED coreVars
  BY <1>12 DEF RemoteHave
<1>13. ASSUME NEW d \in Devices, NEW filter \in BOOLEAN, BlobFilter(d, filter)
       PROVE  UNCHANGED coreVars
  BY <1>13 DEF BlobFilter
<1>14. ASSUME HandleUpdate \/ EmitState \/ GetState \/ UNCHANGED vars PROVE UNCHANGED coreVars
  BY <1>14 DEF HandleUpdate, EmitState, GetState, vars
<1> QED
  BY <1>2, <1>3, <1>4, <1>5, <1>6, <1>7, <1>8, <1>9, <1>10, <1>11, <1>12, <1>13, <1>14 DEF Next

LEMMA StepPeerKinds == IInv /\ PeerKinds /\ [Next]_vars => PeerKinds'
<1> SUFFICES ASSUME IInv, PeerKinds, [Next]_vars PROVE PeerKinds'
  OBVIOUS
<1> USE NamespaceSyncStateAssumption DEF PeerKinds
<1>1. ASSUME NEW c \in Cores,
             AddCore(c) \/ CoreReady(c) \/ AppendBlock(c) \/ Upgrade(c) \/ Download(c)
      PROVE  PeerKinds'
  BY <1>1 DEF AddCore, CoreReady, AppendBlock, Upgrade, Download, peerVars
<1>2. ASSUME NEW p \in Peers, AddPeer(p) \/ CapabilityChanges(p) PROVE PeerKinds'
  BY <1>2 DEF AddPeer, CapabilityChanges, coreVars
<1>3. ASSUME NEW p \in Peers, DisconnectPeer(p) PROVE PeerKinds'
  <2>1. /\ connected' = connected \ {p} /\ blocked' = blocked \ {p}
        /\ updating' = [x \in Pairs |-> IF x \in Forgotten(p) THEN 0 ELSE updating[x]]
        /\ UNCHANGED <<attached, opened>>
    BY <1>3 DEF DisconnectPeer, coreVars
  <2>2. MaxUpdates \in Nat /\ updating \in [Pairs -> 0 .. MaxUpdates]
    OBVIOUS
  <2>3. updating' \in [Pairs -> 0 .. MaxUpdates]
    BY <2>1, <2>2
  <2>4. blocked' \subseteq connected'
    BY <2>1
  <2>5. opened' \subseteq attached' \X Peers
    BY <2>1
  <2> QED
    BY <2>3, <2>4, <2>5
<1>4. ASSUME NEW c \in Cores, NEW p \in Peers, PeerAdd(c, p) PROVE PeerKinds'
  <2>1. updating[<<c, p>>] + 1 \in 0 .. MaxUpdates
    BY <1>4 DEF PeerAdd, Pairs
  <2>2. /\ opened' = opened \cup {<<c, p>>} /\ c \in attached
        /\ updating' = [updating EXCEPT ![<<c, p>>] = @ + 1]
        /\ UNCHANGED <<attached, connected, blocked>>
    BY <1>4 DEF PeerAdd, coreVars
  <2>3. updating' \in [Pairs -> 0 .. MaxUpdates]
    BY <2>1, <2>2
  <2>4. opened' \subseteq attached' \X Peers
    BY <2>2
  <2> QED
    BY <2>2, <2>3, <2>4
<1>5. ASSUME NEW c \in Cores, NEW p \in Peers, PeerRemove(c, p) PROVE PeerKinds'
  BY <1>5 DEF PeerRemove, coreVars
<1>6. ASSUME NEW c \in Cores, NEW p \in Peers, UpdateDone(c, p) PROVE PeerKinds'
  <2>1. updating[<<c, p>>] - 1 \in 0 .. MaxUpdates
    BY <1>6 DEF UpdateDone, Pairs
  <2> QED
    BY <1>6, <2>1 DEF UpdateDone, coreVars
<1>7. ASSUME NEW c \in Cores, NEW p \in Peers, NEW b \in Blocks, RemoteHave(c, p, b)
      PROVE  PeerKinds'
  BY <1>7 DEF RemoteHave, coreVars
<1>8. ASSUME NEW c \in Cores, NEW p \in Peers, NEW bs \in SUBSET Blocks,
             InsertPreHaves(c, p, bs)
      PROVE  PeerKinds'
  BY <1>8 DEF InsertPreHaves
<1>9. ASSUME NEW d \in Devices, NEW filter \in BOOLEAN, BlobFilter(d, filter) PROVE PeerKinds'
  BY <1>9 DEF BlobFilter, coreVars
<1>10. ASSUME NEW d \in Devices, NEW c \in Cores, NEW b \in Blocks, WantBlobRange(d, c, b)
       PROVE  PeerKinds'
  BY <1>10 DEF WantBlobRange
<1>11. CASE HandleUpdate \/ EmitState \/ GetState \/ UNCHANGED vars
  BY <1>11 DEF HandleUpdate, EmitState, GetState, vars, coreVars, peerVars
<1> QED
  BY <1>1, <1>2, <1>3, <1>4, <1>5, <1>6, <1>7, <1>8, <1>9, <1>10, <1>11 DEF Next

\* Every variable holds a value of its kind; a core has one state and one place in the order.
THEOREM TypeCorrect == Spec => []TypeOK
<1>1. Init => StatusKind
  BY DEF Init, StatusKind
<1>2. Kinds => KnownCores \subseteq Cores
  BY DEF Kinds, KnownCores, ToSet
<1>3. IInv /\ StatusKind /\ CoreKinds /\ PeerKinds => TypeOK
  BY <1>2 DEF IInv, Kinds, StatusKind, CoreKinds, PeerKinds, OncePerCore, TypeOK
<1> QED
  BY <1>1, <1>3, InitKinds, StepStatus, StepCoreKinds, StepPeerKinds, InvariantHolds, PTL DEF Spec

===============================================================================
