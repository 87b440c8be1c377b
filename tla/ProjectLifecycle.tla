--------------------------- MODULE ProjectLifecycle ---------------------------
(***************************************************************************)
(* One project on one device, from creating or joining it to leaving it    *)
(* and joining again (src/mapeo-manager.js and the parts of                *)
(* src/mapeo-project.js that open, close and clear a project).  The device *)
(* can crash at any point.                                                 *)
(*                                                                         *)
(* The disk holds the row of the project keys table, the project's row in  *)
(* the shared settings table, the blocks of other devices and the tables   *)
(* with the documents of the project.  Memory holds MapeoProject instances *)
(* and the calls under way; a call is described by what it waits for.      *)
(*                                                                         *)
(* Nothing keeps calls apart that open the project at the same time: each  *)
(* that finds no active project makes an instance, and the last one to be  *)
(* ready is active.  contended and failed only record where that happened, *)
(* and where a call was rejected, for the properties.                      *)
(***************************************************************************)

CONSTANTS
  Instances,       \* names for MapeoProject objects; one that is closed can be reused
  Calls,           \* names for calls of the manager under way
  None

ASSUME ProjectLifecycleAssumption == None \notin Instances

VARIABLES
  row,             \* projectKeysTable: "none", or "joined" and "left" by hasLeftProject
  settings,        \* projectSettingsTable has a row for the project
  blocks,          \* there are blocks of other devices' cores, but for those of auth
  tables,          \* the tables hold documents, but for those of auth
  activeProject,   \* the entry of #activeProjects
  phase,           \* instance -> closed (or not there), open or closing
  stores,          \* instance -> its data stores, but for that of auth
  keys,            \* instances that have all encryption keys
  purged,          \* instances that have purged the cores of others
  registered,      \* instances that have been active: their 'close' is listened to
  call,            \* call -> what it is and waits for
  contended,       \* history: instances that did not have the project for themselves
  failed           \* history: instances on which a call was rejected

disk    == <<row, settings, blocks, tables>>
opened  == <<phase, stores, keys, purged>>
memory  == <<activeProject, opened, registered>>
history == <<contended, failed>>
lifecycleVars == <<disk, memory, call, history>>

Idle == [op |-> "none", pc |-> "idle", inst |-> None, left |-> FALSE]
Operations == {"create", "get", "add", "leave"}

\* What a call waits for: the microtask after #createProjectInstance, the project
\* settings, the close of the active project, the role; and for kClearData the
\* close of the stores, the purge and the removal of the index.
Waiting == {"instance", "settings", "close", "role", "stores", "purge", "unlink"}
InClear(k) == call[k].pc \in {"stores", "purge", "unlink"}

Call(op, pc, i, left) == [op |-> op, pc |-> pc, inst |-> i, left |-> left]

\* An instance that is closed and that no call holds.
Free(i) == phase[i] = "closed" /\ \A k \in Calls : call[k].inst # i

LifecycleInit ==
  /\ row = "none" /\ settings = FALSE /\ blocks = FALSE /\ tables = FALSE
  /\ activeProject = None
  /\ phase = [i \in Instances |-> "closed"] /\ stores = [i \in Instances |-> "closed"]
  /\ keys = {} /\ purged = {} /\ registered = {}
  /\ call = [k \in Calls |-> Idle]
  /\ contended = {} /\ failed = {}

(***************************************************************************)
(* Opening                                                                 *)
(***************************************************************************)

\* Instances and calls that a new instance has the project together with.
Others == {i \in Instances : phase[i] # "closed"}
Waiters(k) == {j \in Calls \ {k} : call[j].pc = "close"}

\* #createProjectInstance: the new instance opens its cores and stores at once.
CreateProjectInstance(k, i, allKeys) ==
  /\ Free(i)
  /\ phase' = [phase EXCEPT ![i] = "open"]
  /\ stores' = [stores EXCEPT ![i] = "open"]
  /\ keys' = IF allKeys THEN keys \cup {i} ELSE keys \ {i}
  /\ purged' = purged \ {i}
  /\ registered' = registered \ {i}
  /\ contended' = IF Others \cup Waiters(k) = {}
                  THEN contended \ {i}
                  ELSE contended \cup Others \cup {i}
  /\ failed' = failed \ {i}

\* #createProjectInstance throws, and so does the call.
NoInstance(k) ==
  /\ activeProject = None
  /\ call' = [call EXCEPT ![k] = Idle]
  /\ failed' = failed \cup Others
  /\ UNCHANGED <<memory, contended>>

\* What a call does when its getProject() returns i.
Returned(k, op, i) ==
  call' = [call EXCEPT ![k] = IF op = "leave" THEN Call(op, "role", i, FALSE) ELSE Idle]

\* The instance is put into the map, in the place of any other.
Register(i) ==
  /\ activeProject' = i
  /\ registered' = registered \cup {i}

\* getProject() up to its first await, by a call that finds the row left or not.
Open(k, op, left) ==
  \/ /\ activeProject # None
     /\ Returned(k, op, activeProject)
     /\ UNCHANGED <<memory, history>>
  \/ /\ activeProject = None
     /\ \E i \in Instances :
          /\ CreateProjectInstance(k, i, ~left)
          /\ call' = [call EXCEPT ![k] = Call(op, "instance", i, left)]
     /\ UNCHANGED activeProject

\* The project does not exist, and never has as far as anything can tell.
Fresh ==
  /\ row = "none" /\ ~settings /\ ~blocks /\ ~tables
  /\ \A k \in Calls : call[k] = Idle
  /\ \A i \in Instances : phase[i] = "closed"

\* createProject(): the keys are saved before the instance is created.
CreateProject(k) ==
  /\ Fresh
  /\ row' = "joined"
  /\ \/ \E i \in Instances :
          /\ CreateProjectInstance(k, i, TRUE)
          /\ call' = [call EXCEPT ![k] = Call("create", "instance", i, FALSE)]
          /\ UNCHANGED activeProject
     \/ NoInstance(k)
  /\ UNCHANGED <<settings, blocks, tables>>

\* getProject() of a project that exists or is active.
GetProject(k) ==
  /\ call[k] = Idle
  /\ row # "none" \/ activeProject # None
  /\ Open(k, "get", row = "left")
  /\ UNCHANGED disk

\* Mutant: a project that was left is not cleared when it is opened.
Defect_NeverCleared(k) ==
  /\ call[k].pc = "instance"
  /\ \/ /\ call[k].op = "create"
        /\ call' = [call EXCEPT ![k].pc = "settings"]
        /\ UNCHANGED memory
     \/ /\ call[k].op # "create"
        /\ Register(call[k].inst)
        /\ Returned(k, call[k].op, call[k].inst)
        /\ UNCHANGED opened
  /\ UNCHANGED <<disk, history>>

\* The instance is there: createProject() writes the project settings, and
\* getProject() clears a project that was left before it lets anyone have it.
HaveInstance(k) ==
  /\ call[k].pc = "instance"
  /\ \/ /\ call[k].op = "create"
        /\ call' = [call EXCEPT ![k].pc = "settings"]
        /\ UNCHANGED memory
     \/ /\ call[k].op # "create" /\ call[k].left
        /\ call' = [call EXCEPT ![k].pc = "stores"]
        /\ stores' = [stores EXCEPT ![call[k].inst] = "closing"]
        /\ UNCHANGED <<activeProject, phase, keys, purged, registered>>
     \/ /\ call[k].op # "create" /\ ~call[k].left
        /\ Register(call[k].inst)
        /\ Returned(k, call[k].op, call[k].inst)
        /\ UNCHANGED opened
  /\ UNCHANGED <<disk, history>>

\* The project settings and the device info are written and indexed.
SettingsWritten(k) ==
  /\ call[k].pc = "settings"
  /\ settings' = TRUE
  /\ tables' = TRUE
  /\ Register(call[k].inst)
  /\ call' = [call EXCEPT ![k] = Idle]
  /\ UNCHANGED <<row, blocks, opened, history>>

(***************************************************************************)
(* Joining                                                                 *)
(***************************************************************************)

\* Mutant: keeps the project that is still in memory.
Defect_NotClosedFirst(k) ==
  /\ call[k] = Idle /\ row # "joined"
  /\ row' = "joined"
  /\ Open(k, "add", FALSE)
  /\ UNCHANGED <<settings, blocks, tables>>

\* addProject() up to its first await: a project that was left may still be in
\* memory and is closed first.
AddProject(k) ==
  /\ call[k] = Idle /\ row # "joined"
  /\ \/ /\ activeProject # None
        /\ call' = [call EXCEPT ![k] = Call("add", "close", activeProject, FALSE)]
        /\ phase' = [phase EXCEPT ![activeProject] = "closing"]
        /\ UNCHANGED <<disk, activeProject, stores, keys, purged, registered, history>>
     \/ /\ activeProject = None
        /\ row' = "joined"
        /\ Open(k, "add", FALSE)
        /\ UNCHANGED <<settings, blocks, tables>>

\* addProject() after the close, without another look at the table.
AddAfterClose(k) ==
  /\ call[k].pc = "close" /\ phase[call[k].inst] = "closed"
  /\ row' = "joined"
  /\ Open(k, "add", FALSE)
  /\ UNCHANGED <<settings, blocks, tables>>

\* The same, but the instance cannot be created: the row is deleted again.
AddFails(k) ==
  /\ \/ call[k] = Idle /\ row # "joined"
     \/ call[k].pc = "close" /\ phase[call[k].inst] = "closed"
  /\ NoInstance(k)
  /\ row' = "none"
  /\ UNCHANGED <<settings, blocks, tables>>

(***************************************************************************)
(* Leaving                                                                 *)
(***************************************************************************)

\* leaveProject() up to its first await: the row, without most keys, and the
\* settings first, then getProject().
LeaveProject(k) ==
  /\ call[k] = Idle /\ row # "none"
  /\ row' = "left"
  /\ settings' = FALSE
  /\ Open(k, "leave", TRUE) \/ NoInstance(k)
  /\ UNCHANGED <<blocks, tables>>

\* kProjectLeave: the LEFT role is written, unless the device is blocked, and
\* kClearData begins.
RoleAssigned(k) ==
  /\ call[k].pc = "role" /\ phase[call[k].inst] = "open"
  /\ call' = [call EXCEPT ![k].pc = "stores"]
  /\ stores' = [stores EXCEPT ![call[k].inst] = IF @ = "open" THEN "closing" ELSE @]
  /\ UNCHANGED <<disk, activeProject, phase, keys, purged, registered, history>>

\* kClearData: the stores are closed.
StoresClosed(k) ==
  /\ call[k].pc = "stores"
  /\ stores' = [stores EXCEPT ![call[k].inst] = "closed"]
  /\ call' = [call EXCEPT ![k].pc = "purge"]
  /\ UNCHANGED <<disk, activeProject, phase, keys, purged, registered, history>>

\* kClearData: deleteOthersData() of all namespaces but auth.
OthersDeleted(k) ==
  /\ call[k].pc = "purge"
  /\ blocks' = FALSE
  /\ purged' = purged \cup {call[k].inst}
  /\ call' = [call EXCEPT ![k].pc = "unlink"]
  /\ UNCHANGED <<row, settings, tables, activeProject, phase, stores, keys, registered, history>>

\* kClearData: the index is unlinked and the tables are emptied.  Either
\* getProject() or leaveProject() continues.
Cleared(k) ==
  /\ call[k].pc = "unlink" /\ phase[call[k].inst] # "closed"
  /\ tables' = FALSE
  /\ \/ /\ call[k].left
        /\ Register(call[k].inst)
        /\ Returned(k, call[k].op, call[k].inst)
     \/ /\ ~call[k].left
        /\ call' = [call EXCEPT ![k] = Idle]
        /\ UNCHANGED <<activeProject, registered>>
  /\ failed' = failed \ {call[k].inst}
  /\ UNCHANGED <<row, settings, blocks, opened, contended>>

\* What createProject(), kProjectLeave or kClearData does with the instance
\* rejects, because it was closed meanwhile or for another reason.  What was
\* done before is not undone; an instance that is not registered stays open.
CallFails(k) ==
  /\ call[k].pc \in {"settings", "role"} \/ InClear(k)
  /\ call' = [call EXCEPT ![k] = Idle]
  /\ failed' = failed \cup {call[k].inst}
  /\ UNCHANGED <<disk, memory, contended>>

(***************************************************************************)
(* Instances and the device                                                *)
(***************************************************************************)

\* close() of an instance that is or was active, by whoever has got it.
CloseProject(i) ==
  /\ i \in registered /\ phase[i] = "open"
  /\ phase' = [phase EXCEPT ![i] = "closing"]
  /\ UNCHANGED <<disk, activeProject, stores, keys, purged, registered, call, history>>

\* _close has closed the stores, the cores and the database.  The listener of
\* 'close' deletes the entry of the project, whatever it is.
Closed(i) ==
  /\ phase[i] = "closing"
  /\ phase' = [phase EXCEPT ![i] = "closed"]
  /\ stores' = [stores EXCEPT ![i] = "closed"]
  /\ activeProject' = None
  /\ contended' = contended \ {i}
  /\ failed' = failed \ {i}
  /\ UNCHANGED <<disk, keys, purged, registered, call>>

\* Blocks of another device arrive, also encrypted ones that cannot be read.
Download(i) ==
  /\ phase[i] = "open" /\ i \notin purged
  /\ blocks' = TRUE
  /\ UNCHANGED <<row, settings, tables, memory, call, history>>

\* A batch of documents is indexed, among them the project settings or not; a
\* store that is being closed waits for its last batch.
Index(i) ==
  /\ phase[i] # "closed" /\ stores[i] # "closed" /\ i \in keys
  /\ tables' = TRUE
  /\ settings' \in {settings, TRUE}
  /\ UNCHANGED <<row, blocks, memory, call, history>>

\* The process ends at any point, and starts again.
Crash ==
  /\ activeProject' = None
  /\ phase' = [i \in Instances |-> "closed"] /\ stores' = [i \in Instances |-> "closed"]
  /\ keys' = {} /\ purged' = {} /\ registered' = {}
  /\ call' = [k \in Calls |-> Idle]
  /\ contended' = {} /\ failed' = {}
  /\ UNCHANGED disk

LifecycleNext ==
  \/ \E k \in Calls :
       \/ CreateProject(k) \/ GetProject(k) \/ HaveInstance(k) \/ SettingsWritten(k)
       \/ AddProject(k) \/ AddAfterClose(k) \/ AddFails(k)
       \/ LeaveProject(k) \/ RoleAssigned(k) \/ StoresClosed(k) \/ OthersDeleted(k)
       \/ Cleared(k) \/ CallFails(k)
  \/ \E i \in Instances : CloseProject(i) \/ Closed(i) \/ Download(i) \/ Index(i)
  \/ Crash

LifecycleSpec == LifecycleInit /\ [][LifecycleNext]_lifecycleVars

(***************************************************************************)
(* Properties                                                              *)
(***************************************************************************)

CallRecord ==
  [op : Operations \cup {"none"}, pc : Waiting \cup {"idle"},
   inst : Instances \cup {None}, left : BOOLEAN]

\* What a call waits for fits what it is.
Fits(c) ==
  \/ c = Idle
  \/ /\ c.op # "none" /\ c.pc # "idle" /\ c.inst # None
     /\ c.pc = "settings" => c.op = "create"
     /\ c.pc = "close" => c.op = "add"
     /\ c.pc = "role" => c.op = "leave"

\* Every variable holds a value of its kind, and what a call waits for fits it.
LifecycleTypeOK ==
  /\ row \in {"none", "joined", "left"}
  /\ settings \in BOOLEAN /\ blocks \in BOOLEAN /\ tables \in BOOLEAN
  /\ activeProject \in Instances \cup {None}
  /\ phase \in [Instances -> {"closed", "open", "closing"}]
  /\ stores \in [Instances -> {"closed", "open", "closing"}]
  /\ keys \subseteq Instances /\ purged \subseteq Instances /\ registered \subseteq Instances
  /\ contended \subseteq Instances /\ failed \subseteq Instances
  /\ call \in [Calls -> CallRecord] /\ \A k \in Calls : Fits(call[k])

\* The project is active and not being closed.
Active(i) == activeProject = i /\ phase[i] = "open"

\* An instance that can be worked with: its stores are open and it has all keys.
Usable(i) == stores[i] = "open" /\ i \in keys

\* Nobody but leaveProject() itself gets to see a project that was left before
\* all of it is cleared, and it stays cleared: also if the device crashed or
\* leaving failed at any point, if two instances had the project before, or if
\* it is left twice.  Not so an instance on which leaving or clearing failed,
\* or that was opened while another was: it takes another opening.
LeftIsCleared ==
  \A i \in Instances \ (contended \cup failed) :
    row = "left" /\ Active(i) /\ (\A k \in Calls : call[k].inst # i)
      => ~blocks /\ ~tables /\ stores[i] # "open"

\* A project that is joined again is not the instance that was cleared, though
\* a leaveProject() may still be under way or have failed.  Not so if another
\* call was opening the project at the time.
JoinedIsUsable ==
  \A i \in Instances \ contended : row = "joined" /\ Active(i) => Usable(i)

===============================================================================
