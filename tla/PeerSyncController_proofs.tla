---------------------- MODULE PeerSyncController_proofs ----------------------
(***************************************************************************)
(* Proofs about PeerSyncController, for any cores, namespaces and bounds:  *)
(* types, the bookkeeping of the replicated cores, and that what is        *)
(* enabled is permitted.                                                   *)
(***************************************************************************)
EXTENDS PeerSyncController, TLAPS

(***************************************************************************)
(* The inductive strengthening of ReplicationBookkeeping: it needs the     *)
(* types (a core that is added is in none of the sets) and that the        *)
(* creator core is known.                                                  *)
(***************************************************************************)
BookInv == TypeOK /\ ReplicationBookkeeping /\ CreatorCore \in cores

-----------------------------------------------------------------------------
\* The queues of reads: taking the first and adding to the end keep their type.
LEMMA QueueType ==
  ASSUME NEW S, NEW q \in Seq(S)
  PROVE  /\ \A x \in S : Append(q, x) \in Seq(S) /\ Append(q, x) # <<>>
         /\ q # <<>> => Head(q) \in S /\ Tail(q) \in Seq(S)
<1>1. ASSUME NEW x \in S
      PROVE  Append(q, x) \in Seq(S) /\ Len(Append(q, x)) = Len(q) + 1 /\ Len(q) \in Nat
  OBVIOUS
<1>2. ASSUME NEW x \in S PROVE Append(q, x) # <<>>
  BY <1>1
<1>3. q # <<>> => Head(q) \in S /\ Tail(q) \in Seq(S)
  OBVIOUS
<1> QED
  BY <1>1, <1>2, <1>3

\* The tables of the roles are tables of capabilities.
LEMMA SyncOfType ==
  /\ \A r : SyncOf(r) \in [NAMESPACES -> Capabilities]
  /\ Unknown \in [NAMESPACES -> Capabilities]
BY DEF SyncOf, Unknown, Capabilities

\* What #updateEnabledNamespaces does to the four sets, given the cores as they
\* are: types and bookkeeping survive.
LEMMA UpdateKeepsBooks ==
  ASSUME BookInv, UpdateEnabledNamespaces, UNCHANGED coreManager,
         disposed' = disposed
  PROVE  /\ enabledNamespaces' \subseteq NAMESPACES
         /\ replicatingCores' \subseteq cores
         /\ unreplicating' \subseteq cores
         /\ replicated' \subseteq cores
         /\ ReplicationBookkeeping'
         /\ CreatorCore \in cores'
<1> DEFINE on  == {ns \in NAMESPACES : StaysEnabled(ns)}
           up  == CoresOf(on \ enabledNamespaces)
           off == CoresOf(enabledNamespaces \ on) \ {CreatorCore}
           new == (up \ closedCores) \ replicatingCores
<1>1. /\ enabledNamespaces' = on
      /\ replicatingCores' = (replicatingCores \cup new) \ off
      /\ replicated' = (replicated \cup new) \ (off \cap readyCores)
      /\ unreplicating' = unreplicating \cup (off \ readyCores)
  BY DEF UpdateEnabledNamespaces, SwitchCores
<1>2. /\ \A c : c \in up <=> c \in cores /\ NamespaceOf[c] \in on
                             /\ NamespaceOf[c] \notin enabledNamespaces
      /\ \A c : c \in off <=> c \in cores /\ NamespaceOf[c] \in enabledNamespaces
                              /\ NamespaceOf[c] \notin on /\ c # CreatorCore
  BY DEF CoresOf
<1>3. cores' = cores /\ closedCores' = closedCores
  BY DEF coreManager
<1> HIDE DEF on, up, off
<1>4. on \subseteq NAMESPACES
  BY DEF on
<1> QED
  BY <1>1, <1>2, <1>3, <1>4 DEF BookInv, TypeOK, ReplicationBookkeeping

\* What #replicateCoreRecord does to a known core of an enabled namespace.
LEMMA ReplicateKeepsBooks ==
  ASSUME BookInv, NEW c \in Cores, NamespaceOf[c] \in enabledNamespaces,
         ReplicateCores({c}), cores' = cores \cup {c},
         UNCHANGED <<enabledNamespaces, unreplicating, closedCores, disposed>>
  PROVE  /\ replicatingCores' \subseteq cores'
         /\ replicated' \subseteq cores'
         /\ ReplicationBookkeeping'
         /\ CreatorCore \in cores'
BY DEF BookInv, TypeOK, ReplicationBookkeeping, ReplicateCores

LEMMA InitEstablishesBooks == Init => BookInv
<1> SUFFICES ASSUME Init PROVE BookInv
  OBVIOUS
<1>1. /\ cores \subseteq Cores /\ readyCores \subseteq cores /\ closedCores = {}
      /\ CreatorCore \in cores
  BY DEF Init
<1>2. syncCapability \in [NAMESPACES -> Capabilities]
  BY SyncOfType DEF Init
<1>3. reads \in Seq(Restores) /\ ownerReads \in Seq(Restores) /\ resumes \in Seq(Restores)
  BY DEF Init
<1> QED
  BY <1>1, <1>2, <1>3 DEF Init, BookInv, TypeOK, ReplicationBookkeeping

LEMMA NextKeepsBooks == BookInv /\ [Next]_vars => BookInv'
<1> SUFFICES ASSUME BookInv, [Next]_vars
             PROVE  BookInv'
  OBVIOUS
<1> USE DEF control, replication, coreManager, roleStore, pending
<1>1. ASSUME NEW s \in {"none", "presync", "all"}, SetSyncEnabledState(s)
      PROVE  BookInv'
  BY <1>1, UpdateKeepsBooks DEF SetSyncEnabledState, BookInv, TypeOK
<1>2. CASE Dispose
  BY <1>2 DEF Dispose, BookInv, TypeOK, ReplicationBookkeeping
<1>3. ASSUME NEW now \in SUBSET PRESYNC_NAMESPACES, NEW have \in 0 .. MaxHave,
             HandleStateChange(now, have)
      PROVE  BookInv'
  <2>1. CASE AuthDidUpdate(now, have)
    <3>1. Null \in Restores
      BY DEF Restores
    <3>2. reads' \in Seq(Restores)
      <4>1. reads \in Seq(Restores) /\ reads' = Append(reads, Null)
        BY <1>3, <2>1 DEF HandleStateChange, BookInv, TypeOK
      <4> QED
        BY <3>1, <4>1, QueueType
    <3> QED
      <4>1. UNCHANGED <<syncEnabledState, syncCapability, ownerReads, resumes,
                        disposed>> /\ UNCHANGED coreManager /\ UNCHANGED roleStore
            /\ UNCHANGED replication /\ syncedNamespaces' = now /\ prevAuthHave' = have
        BY <1>3, <2>1 DEF HandleStateChange
      <4> QED
        BY <3>2, <4>1 DEF BookInv, TypeOK, ReplicationBookkeeping
  <2>2. CASE ~ AuthDidUpdate(now, have)
    BY <1>3, <2>2, UpdateKeepsBooks DEF HandleStateChange, BookInv, TypeOK
  <2> QED
    BY <2>1, <2>2
<1>4. ASSUME NEW r \in RoleRecords, HandleRolesUpdate(r)
      PROVE  BookInv'
  <2>1. syncCapability["auth"] \in Restores
    BY ConstantsAssumption DEF BookInv, TypeOK, Restores, NAMESPACES
  <2>2. reads' \in Seq(Restores)
    BY <1>4, <2>1 DEF HandleRolesUpdate, BookInv, TypeOK
  <2> QED
    BY <1>4, <2>2 DEF HandleRolesUpdate, BookInv, TypeOK, ReplicationBookkeeping
<1>5. CASE ReadRole
  <2>1. /\ reads' \in Seq(Restores)
        /\ ownerReads' \in Seq(Restores)
        /\ resumes' \in Seq(Restores)
    <3>1. /\ reads \in Seq(Restores) /\ reads # <<>>
          /\ ownerReads \in Seq(Restores) /\ resumes \in Seq(Restores)
      BY <1>5 DEF ReadRole, BookInv, TypeOK
    <3>2. /\ Head(reads) \in Restores /\ Tail(reads) \in Seq(Restores)
          /\ Append(ownerReads, Head(reads)) \in Seq(Restores)
          /\ Append(resumes, Head(reads)) \in Seq(Restores)
      BY <3>1, QueueType
    <3> QED
      BY <1>5, <3>1, <3>2 DEF ReadRole
  <2>2. syncCapability' \in [NAMESPACES -> Capabilities]
    BY <1>5, SyncOfType DEF ReadRole, BookInv, TypeOK
  <2> QED
    BY <1>5, <2>1, <2>2 DEF ReadRole, BookInv, TypeOK, ReplicationBookkeeping
<1>6. CASE ReadCreator
  <2>1. ownerReads' \in Seq(Restores) /\ resumes' \in Seq(Restores)
    BY <1>6 DEF ReadCreator, BookInv, TypeOK
  <2>2. syncCapability' \in [NAMESPACES -> Capabilities]
    BY <1>6, SyncOfType DEF ReadCreator
  <2> QED
    BY <1>6, <2>1, <2>2 DEF ReadCreator, BookInv, TypeOK, ReplicationBookkeeping
<1>7. CASE ResumeUpdate
  <2>1. resumes' \in Seq(Restores) /\ Head(resumes) \in Restores
    BY <1>7 DEF ResumeUpdate, BookInv, TypeOK
  <2>2. syncCapability' \in [NAMESPACES -> Capabilities]
    BY <1>7, <2>1 DEF ResumeUpdate, BookInv, TypeOK, Restores
  <2> QED
    BY <1>7, <2>1, <2>2, UpdateKeepsBooks DEF ResumeUpdate, BookInv, TypeOK
<1>8. CASE OwnershipWritten
  BY <1>8 DEF OwnershipWritten, BookInv, TypeOK, ReplicationBookkeeping
<1>9. ASSUME NEW c \in Cores, HandleDiscoveryKey(c)
      PROVE  BookInv'
  <2>1. cores \cup {c} = cores
    BY <1>9 DEF HandleDiscoveryKey
  <2> QED
    BY <1>9, <2>1, ReplicateKeepsBooks DEF HandleDiscoveryKey, BookInv, TypeOK
<1>10. ASSUME NEW c \in Cores, HandleAddCore(c)
       PROVE  BookInv'
  <2>1. CASE NamespaceOf[c] \in enabledNamespaces
    BY <1>10, <2>1, ReplicateKeepsBooks DEF HandleAddCore, BookInv, TypeOK
  <2>2. CASE NamespaceOf[c] \notin enabledNamespaces
    BY <1>10, <2>2 DEF HandleAddCore, BookInv, TypeOK, ReplicationBookkeeping
  <2> QED
    BY <2>1, <2>2
<1>11. ASSUME NEW c \in Cores, ResumeUnreplicate(c)
       PROVE  BookInv'
  BY <1>11 DEF ResumeUnreplicate, BookInv, TypeOK, ReplicationBookkeeping
<1>12. ASSUME NEW c \in Cores, CoreReady(c)
       PROVE  BookInv'
  BY <1>12 DEF CoreReady, BookInv, TypeOK, ReplicationBookkeeping
<1>13. ASSUME NEW c \in Cores, CoreClosed(c)
       PROVE  BookInv'
  BY <1>13 DEF CoreClosed, BookInv, TypeOK, ReplicationBookkeeping
<1>14. CASE UNCHANGED vars
  BY <1>14 DEF vars, BookInv, TypeOK, ReplicationBookkeeping
<1> QED
  BY <1>1, <1>2, <1>3, <1>4, <1>5, <1>6, <1>7, <1>8, <1>9, <1>10, <1>11, <1>12,
     <1>13, <1>14 DEF Next

\* Every behaviour respects the types.
THEOREM TypeCorrect == Spec => []TypeOK
<1>1. BookInv => TypeOK
  BY DEF BookInv
<1> QED
  BY <1>1, InitEstablishesBooks, NextKeepsBooks, PTL DEF Spec

\* For any number of cores that are added, opened and closed in any order while
\* namespaces are switched on and off, the set of replicating cores, the enabled
\* namespaces and the channels agree.
THEOREM BookkeepingCorrect == Spec => []ReplicationBookkeeping
<1>1. BookInv => ReplicationBookkeeping
  BY DEF BookInv
<1> QED
  BY <1>1, InitEstablishesBooks, NextKeepsBooks, PTL DEF Spec

-----------------------------------------------------------------------------
\* Right after #updateEnabledNamespaces what is enabled is permitted.
LEMMA UpdatePermits ==
  ASSUME UpdateEnabledNamespaces
  PROVE  EnabledNamespacesPermitted'
<1>1. ASSUME NEW ns \in enabledNamespaces'
      PROVE  StaysEnabled(ns)
  BY <1>1 DEF UpdateEnabledNamespaces
<1> QED
  BY <1>1, ConstantsAssumption DEF StaysEnabled, EnabledNamespacesPermitted

LEMMA NextKeepsPermitted ==
  TypeOK /\ EnabledNamespacesPermitted /\ [Next]_vars => EnabledNamespacesPermitted'
<1> SUFFICES ASSUME TypeOK, EnabledNamespacesPermitted, [Next]_vars
             PROVE  EnabledNamespacesPermitted'
  OBVIOUS
<1> USE DEF control, replication, coreManager, roleStore, pending
\* A handler that updates the namespaces ends in UpdatePermits.
<1>1. ASSUME NEW s \in {"none", "presync", "all"}, SetSyncEnabledState(s)
      PROVE  EnabledNamespacesPermitted'
  BY <1>1, UpdatePermits DEF SetSyncEnabledState
<1>2. ASSUME NEW now \in SUBSET PRESYNC_NAMESPACES, NEW have \in 0 .. MaxHave,
             HandleStateChange(now, have)
      PROVE  EnabledNamespacesPermitted'
  <2>1. CASE UpdateEnabledNamespaces
    BY <2>1, UpdatePermits
  <2>2. CASE UNCHANGED replication
    BY <1>2, <2>2 DEF HandleStateChange, EnabledNamespacesPermitted
  <2> QED
    BY <1>2, <2>1, <2>2 DEF HandleStateChange
<1>3. CASE ResumeUpdate
  BY <1>3, UpdatePermits DEF ResumeUpdate
\* A result that was cached is followed by its continuation.
<1>4. CASE ReadRole
  <2>1. CASE UNCHANGED <<syncCapability, resumes>>
    BY <1>4, <2>1 DEF ReadRole, EnabledNamespacesPermitted
  <2>2. CASE resumes' = Append(resumes, Head(reads))
    <3>1. resumes \in Seq(Restores) /\ reads \in Seq(Restores) /\ reads # <<>>
      BY <1>4 DEF ReadRole, TypeOK
    <3>2. Append(resumes, Head(reads)) # <<>>
      BY <3>1, QueueType
    <3> QED
      BY <2>2, <3>2 DEF EnabledNamespacesPermitted
  <2> QED
    BY <1>4, <2>1, <2>2 DEF ReadRole
<1>5. CASE ReadCreator
  <2>1. resumes' # <<>>
    BY <1>5 DEF ReadCreator, TypeOK
  <2> QED
    BY <2>1 DEF EnabledNamespacesPermitted
\* No other step touches what the property speaks of.
<1>6. ASSUME UNCHANGED <<syncEnabledState, syncCapability, enabledNamespaces, resumes>>
      PROVE  EnabledNamespacesPermitted'
  BY <1>6 DEF EnabledNamespacesPermitted
<1>7. ASSUME NEW c \in Cores,
             \/ HandleDiscoveryKey(c) \/ HandleAddCore(c) \/ ResumeUnreplicate(c)
             \/ CoreReady(c) \/ CoreClosed(c)
      PROVE  EnabledNamespacesPermitted'
  BY <1>6, <1>7 DEF HandleDiscoveryKey, HandleAddCore, ResumeUnreplicate, CoreReady,
                    CoreClosed
<1>8. ASSUME NEW r \in RoleRecords, HandleRolesUpdate(r)
      PROVE  EnabledNamespacesPermitted'
  BY <1>6, <1>8 DEF HandleRolesUpdate
<1>9. CASE Dispose \/ OwnershipWritten \/ UNCHANGED vars
  BY <1>6, <1>9 DEF Dispose, OwnershipWritten, vars
<1> QED
  BY <1>1, <1>2, <1>3, <1>4, <1>5, <1>7, <1>8, <1>9 DEF Next

\* Whatever the role, the sync state and the user do in whatever order, between
\* handlers no namespace is enabled that the enabled state or the cached
\* capability forbids.
THEOREM NamespacesPermitted == Spec => []EnabledNamespacesPermitted
<1>1. Init => EnabledNamespacesPermitted
  BY DEF Init, EnabledNamespacesPermitted
<1> QED
  BY <1>1, NextKeepsPermitted, TypeCorrect, PTL DEF Spec

-----------------------------------------------------------------------------
(* On a device that has written its core ownership no read waits twice, so   *)
(* reads end in the order in which they began; and every change of the role  *)
(* begins one.                                                               *)

\* A known capability is that of the role record.
Follows ==
  (role # "none" /\ syncCapability["config"] # "unknown") =>
    \A ns \in NAMESPACES \ {"auth"} : syncCapability[ns] = SyncOf(role)[ns]

OrderInv ==
  /\ ownershipWriteDone
  /\ ownerReads = <<>>
  /\ reads \in Seq(Restores)
  /\ syncCapability \in [NAMESPACES -> Capabilities]
  /\ reads = <<>> /\ ~ disposed => Follows

LEMMA NextKeepsOrder == TypeOK /\ OrderInv /\ [Next]_vars => OrderInv'
<1> SUFFICES ASSUME TypeOK, OrderInv, [Next]_vars
             PROVE  OrderInv'
  OBVIOUS
<1> USE DEF control, replication, coreManager, roleStore, pending
\* A read that has just begun is not over.
<1>1. ASSUME NEW x \in Restores, reads' = Append(reads, x),
             UNCHANGED <<ownershipWriteDone, ownerReads, syncCapability>>
      PROVE  OrderInv'
  <2>1. reads' \in Seq(Restores) /\ reads' # <<>>
    BY <1>1 DEF OrderInv
  <2> QED
    BY <1>1, <2>1 DEF OrderInv
<1>2. ASSUME UNCHANGED <<ownershipWriteDone, ownerReads, reads, syncCapability, role, disposed>>
      PROVE  OrderInv'
  BY <1>2 DEF OrderInv, Follows
<1>3. ASSUME NEW now \in SUBSET PRESYNC_NAMESPACES, NEW have \in 0 .. MaxHave,
             HandleStateChange(now, have)
      PROVE  OrderInv'
  <2>1. Null \in Restores
    BY DEF Restores
  <2>2. CASE reads' = Append(reads, Null)
    BY <1>1, <1>3, <2>1, <2>2 DEF HandleStateChange
  <2>3. CASE UNCHANGED reads
    BY <1>2, <1>3, <2>3 DEF HandleStateChange
  <2> QED
    BY <1>3, <2>2, <2>3 DEF HandleStateChange
<1>4. ASSUME NEW r \in RoleRecords, HandleRolesUpdate(r)
      PROVE  OrderInv'
  <2>1. syncCapability["auth"] \in Restores
    BY ConstantsAssumption DEF TypeOK, Restores, NAMESPACES
  <2> QED
    BY <1>1, <1>4, <2>1 DEF HandleRolesUpdate
\* The last read has found the role as it is.
<1>5. CASE ReadRole
  <2>1. /\ UNCHANGED <<ownershipWriteDone, ownerReads, role, disposed>>
        /\ syncCapability' \in IF role # "none" THEN {SyncOf(role)}
                               ELSE {SyncOf(AssumedRole), Unknown}
    BY <1>5 DEF ReadRole, OrderInv
  <2>2. reads' \in Seq(Restores)
    BY <1>5, QueueType DEF ReadRole, OrderInv
  <2>3. syncCapability' \in [NAMESPACES -> Capabilities]
    BY <2>1, SyncOfType
  <2>4. Follows'
    BY <2>1 DEF Follows
  <2> QED
    BY <2>1, <2>2, <2>3, <2>4 DEF OrderInv
<1>6. CASE ReadCreator
  BY <1>6 DEF ReadCreator, OrderInv
\* Only the capability for auth is put back.
<1>7. CASE ResumeUpdate
  <2>1. /\ UNCHANGED <<ownershipWriteDone, ownerReads, reads, role, disposed>>
        /\ syncCapability' \in {syncCapability,
                                [syncCapability EXCEPT !["auth"] = Head(resumes)]}
        /\ Head(resumes) # Null => Head(resumes) \in Capabilities
    <3>1. Head(resumes) \in Restores
      BY <1>7, QueueType DEF ResumeUpdate, TypeOK
    <3> QED
      BY <1>7, <3>1 DEF ResumeUpdate, Restores
  <2>2. syncCapability' \in [NAMESPACES -> Capabilities]
    BY <1>7, <2>1 DEF ResumeUpdate, OrderInv
  <2>3. \A ns \in NAMESPACES \ {"auth"} : syncCapability'[ns] = syncCapability[ns]
    BY <2>1 DEF OrderInv
  <2>4. "config" \in NAMESPACES \ {"auth"}
    BY ConstantsAssumption DEF NAMESPACES
  <2>5. Follows => Follows'
    BY <2>1, <2>3, <2>4 DEF Follows
  <2> QED
    BY <2>1, <2>2, <2>5 DEF OrderInv
<1>8. CASE Dispose
  BY <1>8 DEF Dispose, OrderInv
<1>9. CASE OwnershipWritten
  BY <1>9 DEF OwnershipWritten, OrderInv
<1>10. ASSUME NEW c \in Cores,
              \/ HandleDiscoveryKey(c) \/ HandleAddCore(c) \/ ResumeUnreplicate(c)
              \/ CoreReady(c) \/ CoreClosed(c)
       PROVE  OrderInv'
  BY <1>2, <1>10 DEF HandleDiscoveryKey, HandleAddCore, ResumeUnreplicate, CoreReady,
                     CoreClosed
<1>11. ASSUME NEW s \in {"none", "presync", "all"}, SetSyncEnabledState(s)
       PROVE  OrderInv'
  BY <1>2, <1>11 DEF SetSyncEnabledState
<1>12. CASE UNCHANGED vars
  BY <1>2, <1>12 DEF vars
<1> QED
  BY <1>3, <1>4, <1>5, <1>6, <1>7, <1>8, <1>9, <1>10, <1>11, <1>12 DEF Next

\* Whatever roles are indexed while reads are under way, the last one wins: on a
\* device that had written its core ownership before the connection, a known
\* capability is that of the current role once all reads have returned
\* (#handleRolesUpdate, #readAndCacheSyncCapability).
THEOREM LastRoleWins == Spec => CapabilityFollowsRole
<1>1. Init /\ ownershipWriteDone => OrderInv
  <2>1. NAMESPACES \subseteq NAMESPACES /\ "config" \in NAMESPACES
    BY ConstantsAssumption DEF NAMESPACES
  <2> QED
    BY <2>1, SyncOfType DEF Init, OrderInv, Follows, Unknown
<1>2. OrderInv => CapabilityCurrent
  BY DEF OrderInv, Follows, CapabilityCurrent, Idle
<1> QED
  BY <1>1, <1>2, NextKeepsOrder, TypeCorrect, PTL DEF Spec, CapabilityFollowsRole
=============================================================================
