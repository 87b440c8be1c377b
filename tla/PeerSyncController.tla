-------------------------- MODULE PeerSyncController --------------------------
(***************************************************************************)
(* PeerSyncController of src/sync/peer-sync-controller.js: for one         *)
(* connection to one peer, which cores are replicated over it.  It follows *)
(* the enabled state that SyncApi sets, the peer's role (read through      *)
(* Roles, which waits for the indexer), the sync status of the namespaces, *)
(* and the cores that the CoreManager knows.                               *)
(*                                                                         *)
(* Of the status of the namespaces, the model keeps which of the pre-sync  *)
(* ones are 'synced': nothing else of it is read.  A role is reduced to its `sync' table.     *)
(* After dispose() only the calls in progress are followed.                *)
(* Hypercore is external: `replicated' says that core.replicate was called *)
(* on the connection and unreplicate was not called since.                 *)
(***************************************************************************)
EXTENDS Naturals, Sequences

CONSTANTS
  PRESYNC_NAMESPACES,   \* auth, config, blobIndex
  DATA_NAMESPACES,      \* data, blob
  Cores,                \* hypercores
  NamespaceOf,          \* the namespace of a core
  CreatorCore,          \* coreManager.creatorCore
  AssumedRole,          \* the role of a peer without a role record
  RoleRecords,          \* the roles that are on record in a behaviour
  MaxHave,              \* bound: blocks in the auth namespace
  MaxReads,             \* bound: reads of the role in progress
  Null

NAMESPACES   == PRESYNC_NAMESPACES \cup DATA_NAMESPACES
Capabilities == {"unknown", "allowed", "blocked"}
Unknown      == [ns \in NAMESPACES |-> "unknown"]

ASSUME ConstantsAssumption ==
  /\ {"auth", "config"} \subseteq PRESYNC_NAMESPACES
  /\ PRESYNC_NAMESPACES \cap DATA_NAMESPACES = {}
  /\ NamespaceOf \in [Cores -> NAMESPACES]
  /\ CreatorCore \in Cores
  /\ AssumedRole \in {"none", "creator"}
  /\ RoleRecords \subseteq {"member", "blocked", "left"}
  /\ MaxHave \in Nat
  /\ MaxReads \in Nat
  /\ Null \notin 0 .. MaxHave
  /\ Null \notin Capabilities

VARIABLES
  syncEnabledState,   \* "none", "presync" or "all"
  syncCapability,     \* #syncCapability
  syncedNamespaces,   \* the pre-sync namespaces whose #syncStatus is 'synced'
  prevAuthHave,       \* #prevLocalState.auth.have
  enabledNamespaces,  \* #enabledNamespaces
  replicatingCores,   \* #replicatingCores
  unreplicating,      \* #unreplicateCoreRecord calls awaiting core.ready()
  replicated,         \* cores with a channel on the connection
  cores,              \* cores the CoreManager has
  readyCores,         \* of these, the ones that are open
  closedCores,        \* of these, the ones that were closed
  role,               \* the peer's role record in the index, "none" without
  ownershipWriteDone, \* CoreOwnership: #ownershipWriteDone is resolved
  reads,              \* getRole calls waiting for the indexer
  ownerReads,         \* getRole calls that found no record, waiting again
  resumes,            \* readAndCache returned, its caller has not continued
  disposed

control     == <<syncEnabledState, syncedNamespaces, prevAuthHave>>
replication == <<enabledNamespaces, replicatingCores, unreplicating, replicated>>
coreManager == <<cores, readyCores, closedCores>>
roleStore   == <<role, ownershipWriteDone>>
pending     == <<reads, ownerReads, resumes>>
vars == <<control, syncCapability, replication, coreManager, roleStore, pending,
          disposed>>

(***************************************************************************)
(* The three queues hold, for each call of #readAndCacheSyncCapability,    *)
(* the auth capability its caller puts back afterwards: Null for           *)
(* #handleStateChange, which puts nothing back.                            *)
(***************************************************************************)
Restores == Capabilities \cup {Null}
Idle     == reads = <<>> /\ ownerReads = <<>> /\ resumes = <<>>
MayRead  == Len(reads) + Len(ownerReads) + Len(resumes) < MaxReads

-----------------------------------------------------------------------------
\* Role['sync'] of the role definitions.
SyncOf(r) ==
  [ns \in NAMESPACES |->
     IF r \in {"member", "creator"} \/ (r \in {"none", "left"} /\ ns = "auth")
     THEN "allowed" ELSE "blocked"]

\* Defect: a blocked namespace that is already enabled is left alone.
Defect_BlockedKeepsRunning(ns) ==
  /\ syncEnabledState' # "none"
  /\ \/ syncCapability'[ns] = "unknown" /\ ns = "auth"
     \/ syncCapability'[ns] = "blocked" /\ ns \in enabledNamespaces
     \/ syncCapability'[ns] = "allowed" /\ ns \in PRESYNC_NAMESPACES
     \/ /\ syncCapability'[ns] = "allowed"
        /\ syncEnabledState' = "all"
        /\ ns \in enabledNamespaces \/ PRESYNC_NAMESPACES \subseteq syncedNamespaces'

\* Defect: data namespaces are not disabled when only pre-sync is wanted.
Defect_DataSurvivesPresync(ns) ==
  /\ syncEnabledState' # "none"
  /\ \/ syncCapability'[ns] = "unknown" /\ ns = "auth"
     \/ syncCapability'[ns] = "allowed" /\ ns \in PRESYNC_NAMESPACES
     \/ /\ syncCapability'[ns] = "allowed"
        /\ \/ ns \in enabledNamespaces
           \/ syncEnabledState' = "all" /\ PRESYNC_NAMESPACES \subseteq syncedNamespaces'

(***************************************************************************)
(* The branches of #updateEnabledNamespaces that leave ns enabled.  A data *)
(* namespace that is allowed while pre-sync has not finished is neither    *)
(* enabled nor disabled.  The primes are the fields as the caller set them.*)
(***************************************************************************)
StaysEnabled(ns) ==
  /\ syncEnabledState' # "none"
  /\ \/ syncCapability'[ns] = "unknown" /\ ns = "auth"
     \/ syncCapability'[ns] = "allowed" /\ ns \in PRESYNC_NAMESPACES
     \/ /\ syncCapability'[ns] = "allowed"
        /\ syncEnabledState' = "all"
        /\ ns \in enabledNamespaces \/ PRESYNC_NAMESPACES \subseteq syncedNamespaces'

\* #replicateCoreRecord for every core of cs.
ReplicateCores(cs) ==
  LET new == (cs \ closedCores) \ replicatingCores
  IN  /\ replicatingCores' = replicatingCores \cup new
      /\ replicated' = replicated \cup new

\* #replicateCoreRecord for the cores `on', #unreplicateCoreRecord for the cores
\* `off': at once for a core that is ready, else after core.ready().
SwitchCores(on, off) ==
  LET new == (on \ closedCores) \ replicatingCores
  IN  /\ replicatingCores' = (replicatingCores \cup new) \ off
      /\ replicated' = (replicated \cup new) \ (off \cap readyCores)
      /\ unreplicating' = unreplicating \cup (off \ readyCores)

CoresOf(nss) == {c \in cores : NamespaceOf[c] \in nss}

\* #updateEnabledNamespaces, with #enableNamespace and #disableNamespace.
UpdateEnabledNamespaces ==
  LET on == {ns \in NAMESPACES : StaysEnabled(ns)}
  IN  /\ enabledNamespaces' = on
      /\ SwitchCores(CoresOf(on \ enabledNamespaces),
                     CoresOf(enabledNamespaces \ on) \ {CreatorCore})

\* The constructor, for any cores that are known by then.
Init ==
  /\ syncEnabledState = "none"
  /\ syncCapability = Unknown
  /\ syncedNamespaces = {}
  /\ prevAuthHave = Null
  /\ enabledNamespaces = {}
  /\ replicatingCores = {CreatorCore}
  /\ unreplicating = {}
  /\ replicated = {CreatorCore}
  /\ cores \in {cs \in SUBSET Cores : CreatorCore \in cs}
  /\ readyCores \in {cs \in SUBSET cores : CreatorCore \in cs}
  /\ closedCores = {}
  /\ role \in RoleRecords \cup {"none"}
  /\ ownershipWriteDone \in BOOLEAN
  /\ reads = <<>> /\ ownerReads = <<>> /\ resumes = <<>>
  /\ disposed = FALSE

-----------------------------------------------------------------------------
\* Calls from SyncApi.

SetSyncEnabledState(s) ==
  /\ ~ disposed
  /\ s # syncEnabledState
  /\ syncEnabledState' = s
  /\ UNCHANGED <<syncedNamespaces, prevAuthHave, syncCapability, coreManager,
                 roleStore, pending, disposed>>
  /\ UpdateEnabledNamespaces

\* handleDiscoveryKey, for a core that the CoreManager knows.
HandleDiscoveryKey(c) ==
  /\ ~ disposed
  /\ c \in cores
  /\ NamespaceOf[c] \in enabledNamespaces
  /\ ReplicateCores({c})
  /\ UNCHANGED <<control, syncCapability, enabledNamespaces, unreplicating,
                 coreManager, roleStore, pending, disposed>>

\* dispose(): the listeners are removed, a read in progress goes on.
Dispose ==
  /\ ~ disposed
  /\ disposed' = TRUE
  /\ UNCHANGED <<control, syncCapability, replication, coreManager, roleStore,
                 pending>>

-----------------------------------------------------------------------------
\* Event handlers.

\* didUpdate.auth of #handleStateChange
AuthDidUpdate(now, have) ==
  /\ "auth" \in now \ syncedNamespaces
  /\ prevAuthHave = Null \/ prevAuthHave # have

\* #handleStateChange up to its await, or to its end when there is none.  `now' are
\* the pre-sync namespaces that are synced (getSyncStatus), `have' is auth's
\* localState.have.
HandleStateChange(now, have) ==
  /\ ~ disposed
  /\ syncedNamespaces' = now
  /\ UNCHANGED <<syncEnabledState, syncCapability, coreManager, roleStore,
                 ownerReads, resumes, disposed>>
  /\ \/ /\ AuthDidUpdate(now, have)
        /\ MayRead
        /\ prevAuthHave' = have
        /\ reads' = Append(reads, Null)
        /\ UNCHANGED replication
     \/ /\ ~ AuthDidUpdate(now, have)
        /\ UNCHANGED <<prevAuthHave, reads>>
        /\ UpdateEnabledNamespaces

\* Defect: an update of the peer's role record goes unnoticed.
Defect_RoleUpdateMissed(r) ==
  /\ ~ disposed
  /\ resumes = <<>>
  /\ role' = r
  /\ UNCHANGED <<control, syncCapability, replication, coreManager, pending,
                 ownershipWriteDone, disposed>>

\* A role record of the peer is indexed, and #handleRolesUpdate, until
\* #refreshSyncCapability awaits the read.  Indexing takes turns of the event loop:
\* none comes between a cached result and the promise continuation that uses it.
HandleRolesUpdate(r) ==
  /\ role' = r
  /\ ~ disposed
  /\ resumes = <<>>
  /\ MayRead
  /\ reads' = Append(reads, syncCapability["auth"])
  /\ UNCHANGED <<control, syncCapability, replication, coreManager, ownerReads,
                 resumes, ownershipWriteDone, disposed>>

\* Defect: a core added to an enabled namespace is not replicated.
Defect_AddCoreIgnored(c) ==
  /\ ~ disposed
  /\ c \notin cores
  /\ cores' = cores \cup {c}
  /\ UNCHANGED <<control, syncCapability, replication, readyCores, closedCores,
                 roleStore, pending, disposed>>

\* The CoreManager adds a core, and #handleAddCore.
HandleAddCore(c) ==
  /\ ~ disposed
  /\ c \notin cores
  /\ cores' = cores \cup {c}
  /\ IF NamespaceOf[c] \in enabledNamespaces
     THEN ReplicateCores({c}) ELSE UNCHANGED <<replicatingCores, replicated>>
  /\ UNCHANGED <<control, syncCapability, enabledNamespaces, unreplicating,
                 readyCores, closedCores, roleStore, pending, disposed>>

-----------------------------------------------------------------------------
\* What follows an await.

\* getRole's record lookup, once the indexer is idle.  With a record, or with
\* nothing more to wait for, the result is cached; otherwise it waits for the
\* device's own core ownership.
ReadRole ==
  /\ reads # <<>>
  /\ reads' = Tail(reads)
  /\ \/ /\ role # "none" \/ ownershipWriteDone
        /\ syncCapability' \in IF role # "none" THEN {SyncOf(role)}
                               ELSE {SyncOf(AssumedRole), Unknown}
        /\ resumes' = Append(resumes, Head(reads))
        /\ UNCHANGED ownerReads
     \/ /\ role = "none" /\ ~ ownershipWriteDone
        /\ ownerReads' = Append(ownerReads, Head(reads))
        /\ UNCHANGED <<syncCapability, resumes>>
  /\ UNCHANGED <<control, replication, coreManager, roleStore, disposed>>

\* getRole after that wait: it does not look for a role record again.  Without
\* the peer's core ownership record it throws, and the capability is unknown.
ReadCreator ==
  /\ ownerReads # <<>>
  /\ ownershipWriteDone
  /\ ownerReads' = Tail(ownerReads)
  /\ syncCapability' \in {SyncOf(AssumedRole), Unknown}
  /\ resumes' = Append(resumes, Head(ownerReads))
  /\ UNCHANGED <<control, replication, coreManager, roleStore, reads, disposed>>

\* The caller of #readAndCacheSyncCapability goes on: #refreshSyncCapability
\* puts the auth capability back, and the namespaces are updated.
ResumeUpdate ==
  /\ resumes # <<>>
  /\ resumes' = Tail(resumes)
  /\ syncCapability' = IF Head(resumes) = Null THEN syncCapability
                       ELSE [syncCapability EXCEPT !["auth"] = Head(resumes)]
  /\ UNCHANGED <<control, coreManager, roleStore, reads, ownerReads, disposed>>
  /\ UpdateEnabledNamespaces

\* Defect: it is not checked whether the core was enabled again meanwhile.
Defect_NoRecheck(c) ==
  /\ c \in unreplicating \cap readyCores
  /\ unreplicating' = unreplicating \ {c}
  /\ replicated' = replicated \ {c}
  /\ UNCHANGED <<control, syncCapability, enabledNamespaces, replicatingCores,
                 coreManager, roleStore, pending, disposed>>

\* #unreplicateCoreRecord after core.ready()
ResumeUnreplicate(c) ==
  /\ c \in unreplicating \cap readyCores
  /\ unreplicating' = unreplicating \ {c}
  /\ replicated' = IF c \in replicatingCores THEN replicated ELSE replicated \ {c}
  /\ UNCHANGED <<control, syncCapability, enabledNamespaces, replicatingCores,
                 coreManager, roleStore, pending, disposed>>

-----------------------------------------------------------------------------
\* The environment.

CoreReady(c) ==
  /\ c \in cores \ readyCores
  /\ readyCores' = readyCores \cup {c}
  /\ UNCHANGED <<control, syncCapability, replication, cores, closedCores,
                 roleStore, pending, disposed>>

\* An open core is closed or purged: its channels close with it.
CoreClosed(c) ==
  /\ ~ disposed
  /\ c \in readyCores \ closedCores
  /\ c # CreatorCore
  /\ closedCores' = closedCores \cup {c}
  /\ replicated' = replicated \ {c}
  /\ UNCHANGED <<control, syncCapability, enabledNamespaces, replicatingCores,
                 unreplicating, cores, readyCores, roleStore, pending, disposed>>

OwnershipWritten ==
  /\ ~ ownershipWriteDone
  /\ ownershipWriteDone' = TRUE
  /\ UNCHANGED <<control, syncCapability, replication, coreManager, role, pending,
                 disposed>>

Next ==
  \/ \E s \in {"none", "presync", "all"} : SetSyncEnabledState(s)
  \/ Dispose
  \/ \E now \in SUBSET PRESYNC_NAMESPACES, have \in 0 .. MaxHave : HandleStateChange(now, have)
  \/ \E r \in RoleRecords : HandleRolesUpdate(r)
  \/ ReadRole
  \/ ReadCreator
  \/ ResumeUpdate
  \/ OwnershipWritten
  \/ \E c \in Cores :
       \/ HandleDiscoveryKey(c)
       \/ HandleAddCore(c)
       \/ ResumeUnreplicate(c)
       \/ CoreReady(c)
       \/ CoreClosed(c)

Spec == Init /\ [][Next]_vars

(***************************************************************************)
(* Promises that can be resolved are resolved, and cores open.  SyncApi,   *)
(* the sync state and the role store owe nothing.                          *)
(***************************************************************************)
Fairness ==
  /\ WF_vars(ReadRole)
  /\ WF_vars(ReadCreator)
  /\ WF_vars(ResumeUpdate)
  /\ WF_vars(OwnershipWritten)
  /\ \A c \in Cores : WF_vars(ResumeUnreplicate(c)) /\ WF_vars(CoreReady(c))

FairSpec == Spec /\ Fairness

-----------------------------------------------------------------------------
\* Types: every variable holds a value the code can give it.
TypeOK ==
  /\ syncEnabledState \in {"none", "presync", "all"}
  /\ syncCapability \in [NAMESPACES -> Capabilities]
  /\ syncedNamespaces \subseteq PRESYNC_NAMESPACES
  /\ prevAuthHave \in 0 .. MaxHave \cup {Null}
  /\ enabledNamespaces \subseteq NAMESPACES
  /\ cores \subseteq Cores /\ readyCores \subseteq cores /\ closedCores \subseteq readyCores
  /\ replicatingCores \subseteq cores
  /\ unreplicating \subseteq cores
  /\ replicated \subseteq cores
  /\ role \in RoleRecords \cup {"none"}
  /\ ownershipWriteDone \in BOOLEAN
  /\ reads \in Seq(Restores) /\ ownerReads \in Seq(Restores) /\ resumes \in Seq(Restores)
  /\ disposed \in BOOLEAN

\* The bookkeeping of #replicatingCores agrees with the namespaces that are
\* enabled and with the channels on the connection, whatever the order in which
\* cores are added, open and close and namespaces are switched on and off.  A
\* channel outlives its entry only until a pending unreplicate has run.  It is
\* why handleDiscoveryKey never finds a core of an enabled namespace missing.
ReplicationBookkeeping ==
  /\ CreatorCore \in replicatingCores
  /\ ~ disposed =>
       \A c \in cores \ (closedCores \cup {CreatorCore}) :
         c \in replicatingCores <=> NamespaceOf[c] \in enabledNamespaces
  /\ replicatingCores \ closedCores \subseteq replicated
  /\ replicated \ unreplicating \subseteq replicatingCores

\* Between handlers, an enabled namespace is one that the enabled state and the
\* cached capability permit.
EnabledNamespacesPermitted ==
  resumes = <<>> =>
    \A ns \in enabledNamespaces :
      /\ syncEnabledState # "none"
      /\ ns \in DATA_NAMESPACES => syncEnabledState = "all"
      /\ \/ syncCapability[ns] = "allowed"
         \/ ns = "auth" /\ syncCapability[ns] = "unknown"

\* Once every read has returned, a known capability is that of the role record in
\* the index, auth set aside.
CapabilityCurrent ==
  (Idle /\ ~ disposed /\ role # "none" /\ syncCapability["config"] # "unknown") =>
    \A ns \in NAMESPACES \ {"auth"} : syncCapability[ns] = SyncOf(role)[ns]

\* It holds on a device that has written its own core ownership before the
\* connection: no result of an older read overwrites that of a newer one.
CapabilityFollowsRole == ownershipWriteDone => []CapabilityCurrent

\* A peer that is blocked for good is eventually sent nothing but auth, and with
\* sync disabled for good only the creator core is replicated, though reads,
\* switches and closes of cores are under way.
ForbiddenStops ==
  /\ <>[](role = "blocked" /\ ~ disposed) =>
       <>[](\A c \in replicated : c = CreatorCore \/ NamespaceOf[c] = "auth")
  /\ <>[](syncEnabledState = "none" /\ ~ disposed) => <>[](replicated = {CreatorCore})

\* On such a device, a member whose pre-sync namespaces stay synced while
\* everything is enabled gets every data core, even one added or opened late.
MemberSyncsData ==
  (/\ ownershipWriteDone
   /\ <>[](/\ role = "member"
           /\ ~ disposed
           /\ syncEnabledState = "all"
           /\ PRESYNC_NAMESPACES \subseteq syncedNamespaces))
  => <>[](\A c \in cores \ closedCores :
            NamespaceOf[c] \in DATA_NAMESPACES => c \in replicated)

=============================================================================
