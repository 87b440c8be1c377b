---------------------------- MODULE ProjectCores ----------------------------
(***************************************************************************)
(* How the devices of a project get to know each other's cores:            *)
(* src/core-manager/index.js (the index of cores, the table in which they  *)
(* are saved, the auth core keys that are sent to every peer) and          *)
(* src/sync/sync-api.js (the handlers that add the other cores of a device *)
(* when its role and its core ownership document have been indexed).       *)
(*                                                                         *)
(* A core is <<device, "auth">> or <<device, "data">>, which stands for    *)
(* the cores of the four other namespaces: they are always added together. *)
(* The core ownership document of a device is in its own auth core, its    *)
(* role in the auth core of the device that invited it; the creator has no *)
(* role document.  The creator's auth core is the creator core.            *)
(*                                                                         *)
(* External: how the blocks of auth cores replicate between two devices    *)
(* that both have the core, and how they are indexed (DataStore).  Left    *)
(* out: roles that change (Roles), the 'have' messages (NamespaceSyncState)*)
(* and download intents (BlobStore).                                       *)
(***************************************************************************)
EXTENDS Naturals

CONSTANTS
  Devices,      \* the devices that have the keys of the project
  Creator,
  Inviter,      \* device -> the device that assigns its role
  Met,          \* device -> the devices whose two documents it has from an earlier run
  Links,        \* the pairs of devices that may be connected
  MaxConns,     \* bound: connections
  MaxRestarts,  \* bound: device -> restarts
  MaxClears     \* bound: device -> calls of deleteOthersData

ASSUME ProjectCoresAssumption ==
  /\ Creator \in Devices
  /\ Inviter \in [Devices -> Devices]
  /\ Met \in [Devices -> SUBSET Devices]
  /\ Links \subseteq Devices \X Devices /\ MaxConns \in Nat
  /\ MaxRestarts \in [Devices -> Nat] /\ MaxClears \in [Devices -> Nat]

VARIABLES
  cores,       \* device -> the cores in #coreIndex
  saved,       \* device -> the cores in the table
  ownerships,  \* device -> the devices whose core ownership document is indexed
  roles,       \* device -> the devices whose role document is indexed
  tasks,       \* device -> handlers that are under way
  scanning,    \* device -> the look at all documents at the start is to be done
  up,          \* <<d, e>>: the creator core of d has e as a peer
  messages,    \* <<d, e>> -> auth cores that d has sent to e and e has not received
  conns, restarts, clears

vars == <<cores, saved, ownerships, roles, tasks, scanning, up, messages, conns, restarts, clears>>
docVars == <<ownerships, roles>>
linkVars == <<up, messages, conns>>

Cores == Devices \X {"auth", "data"}
Task == [doc : Devices, step : {"ownership", "role"}]

TypeOK ==
  /\ cores \in [Devices -> SUBSET Cores] /\ saved \in [Devices -> SUBSET Cores]
  /\ ownerships \in [Devices -> SUBSET Devices] /\ roles \in [Devices -> SUBSET Devices]
  /\ tasks \in [Devices -> SUBSET Task] /\ scanning \in [Devices -> BOOLEAN]
  /\ up \subseteq Devices \X Devices
  /\ messages \in [Devices \X Devices -> SUBSET Devices]
  /\ conns \in 0 .. MaxConns /\ restarts \in [Devices -> Nat] /\ clears \in [Devices -> Nat]

AuthCores(d) == {e \in Devices : <<e, "auth">> \in cores[d]}

\* The constructor of CoreManager derives these and does not save them.
Derived(d) == {<<d, "auth">>, <<d, "data">>, <<Creator, "auth">>}

----------------------------------------------------------------------------
(* Starting *)

\* The auth cores of the devices that were met are saved.
MetCores(d) == {<<e, "auth">> : e \in Met[d]} \ Derived(d)

Init ==
  /\ cores = [d \in Devices |-> Derived(d) \cup MetCores(d)] /\ saved = [d \in Devices |-> MetCores(d)]
  /\ ownerships = Met /\ roles = [d \in Devices |-> Met[d] \ {Creator}]
  /\ tasks = [d \in Devices |-> {}] /\ scanning = [d \in Devices |-> TRUE]
  /\ up = {} /\ messages = [p \in Devices \X Devices |-> {}]
  /\ conns = 0 /\ restarts = [d \in Devices |-> 0] /\ clears = [d \in Devices |-> 0]

\* The connections of d end, and what is on its way on them is lost.
Disconnected(d, others) ==
  /\ up' = {p \in up : ~ (p[1] = d /\ p[2] \in others) /\ ~ (p[2] = d /\ p[1] \in others)}
  /\ messages' = [p \in Devices \X Devices |->
       IF (p[1] = d /\ p[2] \in others) \/ (p[2] = d /\ p[1] \in others) THEN {} ELSE messages[p]]

\* The cores that are known after a restart: the table is read.
Reopened(d) == Derived(d) \cup saved[d]

\* Handlers are forgotten; the constructor of SyncApi looks at all documents.
Restart(d) ==
  /\ restarts[d] < MaxRestarts[d]
  /\ restarts' = [restarts EXCEPT ![d] = @ + 1]
  /\ cores' = [cores EXCEPT ![d] = Reopened(d)]
  /\ tasks' = [tasks EXCEPT ![d] = {}]
  /\ scanning' = [scanning EXCEPT ![d] = TRUE]
  /\ Disconnected(d, Devices)
  /\ UNCHANGED <<saved, docVars, conns, clears>>

----------------------------------------------------------------------------
(* Cores *)

\* Defect: a core is not saved.
Defect_NotSaved(d, new) ==
  /\ cores' = [cores EXCEPT ![d] = @ \cup new]
  /\ UNCHANGED saved

\* addCore: a core that is in the index is left alone; one that is not is
\* added and saved.
AddCores(d, new) ==
  /\ cores' = [cores EXCEPT ![d] = @ \cup new]
  /\ saved' = [saved EXCEPT ![d] = @ \cup (new \ cores[d])]

\* 'peer-add' of the creator core: #sendAuthCoreKeys, all that are known now.
PeerAdd(d, e) ==
  /\ <<d, e>> \in Links \ up
  /\ conns' = IF <<e, d>> \in up THEN conns ELSE conns + 1
  /\ conns' <= MaxConns
  /\ up' = up \cup {<<d, e>>}
  /\ messages' = [messages EXCEPT ![<<d, e>>] = AuthCores(d)]
  /\ UNCHANGED <<cores, saved, docVars, tasks, scanning, restarts, clears>>

Disconnect(d, e) ==
  /\ <<d, e>> \in up
  /\ Disconnected(d, {e})
  /\ UNCHANGED <<cores, saved, docVars, tasks, scanning, conns, restarts, clears>>

\* #handleProjectMessage
HandleProjectMessage(d, e) ==
  /\ <<d, e>> \in up /\ messages[<<e, d>>] # {}
  /\ AddCores(d, {<<x, "auth">> : x \in messages[<<e, d>>]})
  /\ messages' = [messages EXCEPT ![<<e, d>>] = {}]
  /\ UNCHANGED <<docVars, tasks, scanning, up, conns, restarts, clears>>

\* deleteOthersData of all namespaces but auth: the cores are purged, and the
\* table forgets them; the index does not.
DeleteOthersData(d) ==
  /\ clears[d] < MaxClears[d]
  /\ clears' = [clears EXCEPT ![d] = @ + 1]
  /\ saved' = [saved EXCEPT ![d] = {c \in @ : c[2] = "auth"}]
  /\ UNCHANGED <<cores, docVars, tasks, scanning, linkVars, restarts>>

----------------------------------------------------------------------------
(* Documents *)

\* #writeOwnership of CoreOwnership, when the own auth core is empty.
WriteOwnership(d) ==
  /\ d \notin ownerships[d]
  /\ ownerships' = [ownerships EXCEPT ![d] = @ \cup {d}]
  /\ UNCHANGED <<cores, saved, roles, tasks, scanning, linkVars, restarts, clears>>

\* A handler starts for an update that is not about the device itself.
\* #handleRoleUpdate and #handleCoreOwnershipUpdate both start with
\* coreOwnership.get().
Started(d, e) == IF e = d THEN {} ELSE {[doc |-> e, step |-> "ownership"]}

\* assignRole (Roles, MemberApi)
AssignRole(e) ==
  LET d == Inviter[e] IN
  /\ e # Creator /\ e \notin roles[d]
  /\ roles' = [roles EXCEPT ![d] = @ \cup {e}]
  /\ tasks' = [tasks EXCEPT ![d] = @ \cup Started(d, e)]
  /\ UNCHANGED <<cores, saved, ownerships, scanning, linkVars, restarts, clears>>

Connected(d, e) == <<d, e>> \in up /\ <<e, d>> \in up

\* The block with the document has replicated and is indexed: 'update'.
IndexOwnership(d, e) ==
  /\ e \notin ownerships[d] /\ <<e, "auth">> \in cores[d]
  /\ \E f \in Devices : Connected(d, f) /\ e \in ownerships[f]
  /\ ownerships' = [ownerships EXCEPT ![d] = @ \cup {e}]
  /\ tasks' = [tasks EXCEPT ![d] = @ \cup Started(d, e)]
  /\ UNCHANGED <<cores, saved, roles, scanning, linkVars, restarts, clears>>

\* Defect: an update of a role starts no handler.
Defect_RoleUpdateIgnored(d, e) ==
  /\ e \notin roles[d] /\ <<Inviter[e], "auth">> \in cores[d]
  /\ \E f \in Devices : Connected(d, f) /\ e \in roles[f]
  /\ roles' = [roles EXCEPT ![d] = @ \cup {e}]
  /\ UNCHANGED <<cores, saved, ownerships, tasks, scanning, linkVars, restarts, clears>>

IndexRole(d, e) ==
  /\ e \notin roles[d] /\ <<Inviter[e], "auth">> \in cores[d]
  /\ \E f \in Devices : Connected(d, f) /\ e \in roles[f]
  /\ roles' = [roles EXCEPT ![d] = @ \cup {e}]
  /\ tasks' = [tasks EXCEPT ![d] = @ \cup Started(d, e)]
  /\ UNCHANGED <<cores, saved, ownerships, scanning, linkVars, restarts, clears>>

----------------------------------------------------------------------------
(* The handlers of SyncApi *)

\* coreOwnership.get(), once the own document is written: a handler ends when
\* there is none, as the update of the other document will start one again.
ReadOwnership(d, e) ==
  LET t == [doc |-> e, step |-> "ownership"] IN
  /\ t \in tasks[d] /\ d \in ownerships[d]
  /\ tasks' = [tasks EXCEPT ![d] =
       (@ \ {t}) \cup IF e \in ownerships[d] THEN {[doc |-> e, step |-> "role"]} ELSE {}]
  /\ UNCHANGED <<cores, saved, docVars, scanning, linkVars, restarts, clears>>

\* getRole() is not NO_ROLE
HasRole(d, e) == e \in roles[d] \/ e = Creator

\* Defect: the cores are added whatever the role is.
Defect_RoleUnchecked(d, e) ==
  LET t == [doc |-> e, step |-> "role"] IN
  /\ t \in tasks[d]
  /\ tasks' = [tasks EXCEPT ![d] = @ \ {t}]
  /\ AddCores(d, {<<e, "data">>})
  /\ UNCHANGED <<docVars, scanning, linkVars, restarts, clears>>

\* #validateRoleAndAddCoresForPeer
ReadRole(d, e) ==
  LET t == [doc |-> e, step |-> "role"] IN
  /\ t \in tasks[d]
  /\ tasks' = [tasks EXCEPT ![d] = @ \ {t}]
  /\ IF HasRole(d, e) THEN AddCores(d, {<<e, "data">>}) ELSE UNCHANGED <<cores, saved>>
  /\ UNCHANGED <<docVars, scanning, linkVars, restarts, clears>>

\* getAll() in the constructor
Scan(d) ==
  /\ scanning[d] /\ d \in ownerships[d]
  /\ scanning' = [scanning EXCEPT ![d] = FALSE]
  /\ tasks' = [tasks EXCEPT ![d] =
       @ \cup {[doc |-> e, step |-> "role"] : e \in ownerships[d] \ {d}}]
  /\ UNCHANGED <<cores, saved, docVars, linkVars, restarts, clears>>

Next ==
  \/ \E d \in Devices :
       \/ Restart(d) \/ DeleteOthersData(d) \/ WriteOwnership(d) \/ AssignRole(d) \/ Scan(d)
       \/ \E e \in Devices :
            \/ PeerAdd(d, e) \/ Disconnect(d, e) \/ HandleProjectMessage(d, e)
            \/ IndexOwnership(d, e) \/ IndexRole(d, e)
            \/ ReadOwnership(d, e) \/ ReadRole(d, e)

Spec == Init /\ [][Next]_vars

----------------------------------------------------------------------------
(* Properties *)

\* In whatever order the core ownership and the role of a device are indexed,
\* and wherever a restart comes in between: the cores of a device that has both
\* are in the index, or a handler is under way that adds them.
MembersAdded ==
  \A d \in Devices : \A e \in ownerships[d] \ {d} :
    HasRole(d, e) =>
      \/ <<e, "data">> \in cores[d]
      \/ scanning[d]
      \/ \E t \in tasks[d] : t.doc = e

\* No core but the own ones is added for a device without a core ownership
\* document and a role.
OnlyMembersAdded ==
  \A d \in Devices : \A e \in Devices \ {d} :
    <<e, "data">> \in cores[d] => e \in ownerships[d] /\ HasRole(d, e)

\* Two devices that are connected know each other's auth core, or are about to
\* be told; with them they get the documents.
AuthCoresExchanged ==
  \A d \in Devices, e \in Devices :
    Connected(d, e) => <<e, "auth">> \in cores[d] \/ e \in messages[<<e, d>>]

\* No step, a restart or the clearing of the project included, makes a device
\* forget an auth core; the others it forgets only if the project was cleared.
NothingForgotten ==
  [][\A d \in Devices : \A c \in cores[d] :
       c \in cores'[d] \/ (c[2] = "data" /\ clears[d] > 0)]_vars
=============================================================================
