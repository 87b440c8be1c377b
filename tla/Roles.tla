------------------------------- MODULE Roles -------------------------------
(***************************************************************************)
(* The roles of the devices of a project (src/roles.js), as records in the *)
(* auth cores of the devices that assign them, and who may assign what.    *)
(*                                                                         *)
(* A role record is a document whose id is the device it is about.  A      *)
(* version of it lists the versions it replaces (links), and every device  *)
(* indexes the versions it has received, one block at a time and in any    *)
(* order: what it shows is a version that no other version it knows links  *)
(* to, the newest if there are several, and the others are its forks       *)
(* (@mapeo/sqlite-indexer).  A device knows which auth core belongs to     *)
(* which device from the coreOwnership record, the first block of the core *)
(* (src/core-ownership.js); the project creator is the device whose auth   *)
(* core has the project's key, and needs no role record.                   *)
(*                                                                         *)
(* assignRole() reads before every await and writes after the last: calls  *)
(* of the same device, and blocks that arrive, get in between.  Versions   *)
(* are numbered in the order in which they are written.  Left out:         *)
(* fromIndex and reason, and records with a role that is not known.        *)
(***************************************************************************)
EXTENDS Naturals, FiniteSets

CONSTANTS
  Devices,
  Creator,
  Rank,          \* the order of the discovery keys of the auth cores
  Skewed,        \* devices whose clock is wrong
  Calls,         \* calls of one device that may be under way at once
  Assignments,   \* bound: the assignments that are tried, <<device, role>>
  MaxCalls,      \* bound: calls under way in the whole project
  MaxVersions    \* bound: role records written in the project

AssignableToOthers == {"COORDINATOR", "MEMBER", "BLOCKED"}
AssignableToAnyone == AssignableToOthers \cup {"LEFT"}

ASSUME RolesAssumption ==
  /\ Creator \in Devices
  /\ Rank \in [Devices -> Nat]
  /\ \A d, e \in Devices : Rank[d] = Rank[e] => d = e
  /\ Skewed \subseteq Devices
  /\ Assignments \subseteq Devices \X AssignableToAnyone
  /\ MaxCalls \in Nat /\ MaxVersions \in Nat

VARIABLES
  versions,      \* all role records in the auth cores of all devices
  known,         \* device -> ids of the records its index has
  creatorSeen,   \* devices whose index has the creator's coreOwnership record
  calls          \* device -> call -> a call of assignRole

vars == <<versions, known, creatorSeen, calls>>

Ids == 1 .. MaxVersions

Version ==
  [id : Ids, author : Devices, docId : Devices, roleId : AssignableToAnyone,
   links : SUBSET Ids, updatedAt : Ids,
   past : SUBSET Ids,     \* history: what it replaces, directly or not
   seen : SUBSET Ids]     \* history: versions of it that its author knew as the call began

NoCall == [step |-> "none"]
CallSteps == {"permission", "existing", "update", "checkExisting", "create"}
Call ==
  [step : CallSteps, deviceId : Devices, roleId : AssignableToAnyone,
   ofCreator : BOOLEAN,   \* authCoreId === #projectCreatorAuthCoreId
   links : SUBSET Ids,
   seen : SUBSET Ids]     \* history: what the device knew of it as the call began

TypeOK ==
  /\ versions \subseteq Version
  /\ known \in [Devices -> SUBSET Ids]
  /\ creatorSeen \subseteq Devices
  /\ calls \in [Devices -> [Calls -> Call \cup {NoCall}]]

Init ==
  /\ versions = {}
  /\ known = [d \in Devices |-> {}]
  /\ creatorSeen = {Creator}
  /\ calls = [d \in Devices |-> [c \in Calls |-> NoCall]]

----------------------------------------------------------------------------
(* The index of role records *)

KnownOf(d, x) == {v \in versions : v.id \in known[d] /\ v.docId = x}

HasRecord(d, x) == KnownOf(d, x) # {}

\* What no known version links to: the row of the table and its forks.
Heads(d, x) ==
  {v \in KnownOf(d, x) : \A w \in KnownOf(d, x) : v.id \notin w.links}

\* Of two forks the most recent wins, and of two of the same time the one with
\* the higher version id.
Newer(v, w) ==
  \/ v.updatedAt > w.updatedAt
  \/ /\ v.updatedAt = w.updatedAt
     /\ \/ Rank[v.author] > Rank[w.author]
        \/ v.author = w.author /\ v.id > w.id

\* getByDocId: the row is the newest of the heads.
Row(d, x) == {v \in Heads(d, x) : \A w \in Heads(d, x) \ {v} : Newer(v, w)}

RoleOf(d, x) ==
  IF Row(d, x) # {} THEN (CHOOSE v \in Row(d, x) : TRUE).roleId
  ELSE IF x = Creator /\ d \in creatorSeen THEN "CREATOR"
  ELSE "NO_ROLE"

RoleAssignment(role) ==
  IF role \in {"CREATOR", "COORDINATOR"} THEN AssignableToOthers ELSE {}

----------------------------------------------------------------------------
(* assignRole() *)

UnderWay == {dc \in Devices \X Calls : calls[dc[1]][dc[2]] # NoCall}

\* A call may begin, within the bounds.
Free(d, c) ==
  /\ calls[d][c] = NoCall
  /\ Cardinality(UnderWay) < MaxCalls
  /\ Cardinality(UnderWay) + Cardinality(versions) < MaxVersions

Step(d, c, next) == calls' = [calls EXCEPT ![d][c] = next]

\* The owner of the auth core is unknown when its ownership record has not
\* been indexed; the call goes on without it.
Began(d, x, role, step) ==
  [step |-> step, deviceId |-> x, roleId |-> role,
   ofCreator |-> x = Creator /\ d \in creatorSeen,
   links |-> {}, seen |-> {v.id : v \in KnownOf(d, x)}]

\* assignRole(x, role), up to the read of the device's own role.
AssignRole(d, c, x, role) ==
  /\ Free(d, c)
  /\ Step(d, c, Began(d, x, role, "permission"))
  /\ UNCHANGED <<versions, known, creatorSeen>>

\* kProjectLeave: a device that is not blocked assigns itself LEFT, which
\* needs no permission.
ProjectLeave(d, c) ==
  /\ Free(d, c)
  /\ RoleOf(d, d) # "BLOCKED"
  /\ Step(d, c, Began(d, d, "LEFT", "existing"))
  /\ UNCHANGED <<versions, known, creatorSeen>>

\* Defect: everyone may set its own role.
Defect_SelfUnchecked(d, c) ==
  LET call == calls[d][c] IN
  /\ call.step = "permission"
  /\ Step(d, c, IF call.deviceId = d \/ call.roleId \in RoleAssignment(RoleOf(d, d))
                THEN [call EXCEPT !.step = "existing"]
                ELSE NoCall)
  /\ UNCHANGED <<versions, known, creatorSeen>>

\* A device without the permission gets an error.
CheckPermission(d, c) ==
  LET call == calls[d][c] IN
  /\ call.step = "permission"
  /\ Step(d, c, IF call.roleId \in RoleAssignment(RoleOf(d, d))
                THEN [call EXCEPT !.step = "existing"]
                ELSE NoCall)
  /\ UNCHANGED <<versions, known, creatorSeen>>

\* Defect: the update links to the row only.
Defect_ForksForgotten(d, c) ==
  LET call == calls[d][c]
      x    == call.deviceId
  IN
  /\ call.step = "existing"
  /\ Step(d, c,
       IF HasRecord(d, x)
       THEN [call EXCEPT !.step = "update", !.links = {v.id : v \in Row(d, x)}]
       ELSE IF x # d /\ call.ofCreator /\ call.roleId # "BLOCKED"
       THEN NoCall
       ELSE [call EXCEPT !.step = "checkExisting"])
  /\ UNCHANGED <<versions, known, creatorSeen>>

\* The existing record is updated together with its forks.  Without one, the
\* role of the creator is created only by itself, or to block it.
ReadExisting(d, c) ==
  LET call == calls[d][c]
      x    == call.deviceId
  IN
  /\ call.step = "existing"
  /\ Step(d, c,
       IF HasRecord(d, x)
       THEN [call EXCEPT !.step = "update", !.links = {v.id : v \in Heads(d, x)}]
       ELSE IF x # d /\ call.ofCreator /\ call.roleId # "BLOCKED"
       THEN NoCall
       ELSE [call EXCEPT !.step = "checkExisting"])
  /\ UNCHANGED <<versions, known, creatorSeen>>

\* kCreateWithDocId fails when a record has been indexed meanwhile.
CheckExisting(d, c) ==
  LET call == calls[d][c] IN
  /\ call.step = "checkExisting"
  /\ Step(d, c, IF HasRecord(d, call.deviceId) THEN NoCall
                ELSE [call EXCEPT !.step = "create"])
  /\ UNCHANGED <<versions, known, creatorSeen>>

NextId == Cardinality(versions) + 1

Past(links) == links \cup UNION {v.past : v \in {w \in versions : w.id \in links}}

\* Defect: each device counts its own records.
Defect_OwnCounter(d) == {Cardinality({v \in versions : v.author = d}) + 1}

\* A wrong clock may be behind everything the others have written.
Clock(d) == IF d \in Skewed THEN {1, NextId} ELSE {NextId}

\* The record is appended to the auth core and indexed before the call returns.
Write(d, c) ==
  LET call == calls[d][c] IN
  /\ call.step \in {"update", "create"}
  /\ NextId \in Ids
  /\ \E now \in Clock(d) :
       versions' = versions \cup
         {[id |-> NextId, author |-> d, docId |-> call.deviceId,
           roleId |-> call.roleId, links |-> call.links, updatedAt |-> now,
           past |-> Past(call.links), seen |-> call.seen]}
  /\ known' = [known EXCEPT ![d] = @ \cup {NextId}]
  /\ Step(d, c, NoCall)
  /\ UNCHANGED creatorSeen

----------------------------------------------------------------------------
(* Replication of the auth cores: any block that another device has, in any
   order, whoever wrote it. *)

ReceiveRole(d, e) ==
  /\ \E id \in known[e] \ known[d] : known' = [known EXCEPT ![d] = @ \cup {id}]
  /\ UNCHANGED <<versions, creatorSeen, calls>>

ReceiveOwnership(d, e) ==
  /\ e \in creatorSeen /\ d \notin creatorSeen
  /\ creatorSeen' = creatorSeen \cup {d}
  /\ UNCHANGED <<versions, known, calls>>

Next ==
  \E d \in Devices :
    \/ \E c \in Calls :
         \/ \E a \in Assignments :
              \/ a[2] # "LEFT" /\ AssignRole(d, c, a[1], a[2])
              \/ a = <<d, "LEFT">> /\ ProjectLeave(d, c)
         \/ CheckPermission(d, c)
         \/ ReadExisting(d, c)
         \/ CheckExisting(d, c)
         \/ Write(d, c)
    \/ \E e \in Devices : ReceiveRole(d, e) \/ ReceiveOwnership(d, e)

Spec == Init /\ [][Next]_vars

----------------------------------------------------------------------------
(* Properties *)

\* Whoever assigned a role to any device is the creator, or had been made a
\* coordinator before by another device; the others can only leave.  The check
\* of the role, the read of the record and the write are different steps, and
\* the role can be taken away between them.
AuthorityHeld ==
  \A v \in versions :
    \/ v.author = Creator
    \/ v.roleId = "LEFT" /\ v.docId = v.author
    \/ \E w \in versions : /\ w.id < v.id
                           /\ w.docId = v.author /\ w.author # v.author
                           /\ w.roleId = "COORDINATOR"

\* A version replaces, directly or through others, every version of the record
\* that its author had indexed when the call began, forks included: nothing an
\* assignment was meant to override survives it.
OverridesWhatWasKnown == \A v \in versions : v.seen \subseteq v.past

\* As long as the clocks are right, a device that shows a version never shows
\* again one that it replaces, although blocks arrive in any order and those
\* that lie between the two may be missing.
RoleNeverReverts ==
  [][\A d, x \in Devices :
       (\A v \in KnownOf(d, x)' : v.author \notin Skewed) =>
         \A v \in Row(d, x), w \in Row(d, x)' : w.id \notin v.past]_vars
=============================================================================
