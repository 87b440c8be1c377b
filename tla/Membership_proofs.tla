-------------------------- MODULE Membership_proofs --------------------------
(***************************************************************************)
(* How a device becomes a member: roles (Roles, the first half) and the    *)
(* invitation (InviteProtocol, the second half).                           *)
(*                                                                         *)
(* Nobody assigns roles without authority, for any devices, calls under    *)
(* way, clocks and number of records. AuthorityHeld is not inductive: a    *)
(* call has checked its permission some steps before it writes, so the     *)
(* invariant also says it of every call that is past the check             *)
(* (CallsPermitted), and that records are numbered in the order in which   *)
(* they are written (Numbered).                                            *)
(*                                                                         *)
(* That a replaced role is never shown again is an action property. It     *)
(* needs no argument about chains of versions: what a version replaces has *)
(* a smaller number, and with right clocks the row is the greatest version *)
(* that is known, a set that only grows.                                   *)
(***************************************************************************)
EXTENDS Roles, InviteProtocol, FiniteSetTheorems, WellFoundedInduction, SequenceTheorems, TLAPS

\* The record that makes device d a coordinator.
MadeCoordinator(d) ==
  \E w \in versions : w.docId = d /\ w.author # d /\ w.roleId = "COORDINATOR"

Permitted(d, x, role) == d = Creator \/ (role = "LEFT" /\ x = d) \/ MadeCoordinator(d)

CallsPermitted ==
  \A d \in Devices, c \in Calls :
    calls[d][c].step \in {"existing", "update", "checkExisting", "create"} =>
      Permitted(d, calls[d][c].deviceId, calls[d][c].roleId)

Numbered ==
  /\ IsFiniteSet(versions)
  /\ \A v \in versions : v.id \in Nat /\ v.id <= Cardinality(versions)

IInv == TypeOK /\ Numbered /\ CallsPermitted /\ AuthorityHeld

----------------------------------------------------------------------------
LEMMA InitIInv == Init => IInv
<1> SUFFICES ASSUME Init PROVE IInv
  OBVIOUS
<1>1. TypeOK
  BY RolesAssumption DEF Init, TypeOK
<1>2. Numbered
  BY FS_EmptySet DEF Init, Numbered
<1>3. CallsPermitted
  BY DEF Init, CallsPermitted, NoCall
<1>4. AuthorityHeld
  BY DEF Init, AuthorityHeld
<1> QED
  BY <1>1, <1>2, <1>3, <1>4 DEF IInv

\* What the index shows of a device is one of the records about it.
LEMMA RowIsARecord ==
  ASSUME NEW d \in Devices, NEW x \in Devices, RoleOf(d, x) = "COORDINATOR"
  PROVE  \E v \in versions : v.docId = x /\ v.roleId = "COORDINATOR"
<1>1. Row(d, x) # {}
  BY DEF RoleOf
<1>2. (CHOOSE v \in Row(d, x) : TRUE) \in Row(d, x)
  BY <1>1
<1>3. Row(d, x) \subseteq KnownOf(d, x)
  BY DEF Row, Heads
<1>4. (CHOOSE v \in Row(d, x) : TRUE).roleId = "COORDINATOR"
  BY <1>1 DEF RoleOf
<1> QED
  BY <1>2, <1>3, <1>4 DEF KnownOf

\* The role of the creator is never that of a record.
LEMMA CreatorByKey ==
  ASSUME TypeOK, NEW d \in Devices, RoleOf(d, d) = "CREATOR"
  PROVE  d = Creator
<1>1. CASE Row(d, d) # {}
  <2>1. (CHOOSE v \in Row(d, d) : TRUE) \in versions
    BY <1>1 DEF Row, Heads, KnownOf
  <2>2. RoleOf(d, d) \in AssignableToAnyone
    BY <1>1, <2>1 DEF RoleOf, TypeOK, Version
  <2> QED
    BY <2>2 DEF AssignableToAnyone, AssignableToOthers
<1>2. CASE Row(d, d) = {}
  BY <1>2 DEF RoleOf
<1> QED
  BY <1>1, <1>2

\* Whoever sees that it may assign roles has the authority.
LEMMA SeenAuthority ==
  ASSUME TypeOK, AuthorityHeld, NEW d \in Devices, NEW role,
         role \in RoleAssignment(RoleOf(d, d))
  PROVE  d = Creator \/ MadeCoordinator(d)
<1>1. RoleOf(d, d) \in {"CREATOR", "COORDINATOR"}
  BY DEF RoleAssignment
<1>2. CASE RoleOf(d, d) = "CREATOR"
  BY <1>2, CreatorByKey
<1>3. CASE RoleOf(d, d) = "COORDINATOR"
  <2>1. PICK v \in versions : v.docId = d /\ v.roleId = "COORDINATOR"
    BY <1>3, RowIsARecord
  <2>2. CASE v.author # d
    BY <2>1, <2>2 DEF MadeCoordinator
  <2>3. CASE v.author = d
    BY <2>1, <2>3 DEF AuthorityHeld, MadeCoordinator
  <2> QED
    BY <2>2, <2>3
<1> QED
  BY <1>1, <1>2, <1>3

\* A step of one call that writes no record keeps the invariant if the call
\* stays permitted.
LEMMA OneCallSteps ==
  ASSUME IInv, UNCHANGED <<versions, known, creatorSeen>>,
         NEW d \in Devices, NEW c \in Calls, NEW next,
         next \in Call \cup {NoCall}, Step(d, c, next),
         next.step \in {"existing", "update", "checkExisting", "create"} =>
           Permitted(d, next.deviceId, next.roleId)
  PROVE  IInv'
<1> USE DEF IInv
<1>1. TypeOK'
  BY DEF TypeOK, Step
<1>2. \A e \in Devices, k \in Calls :
        calls'[e][k] = IF e = d /\ k = c THEN next ELSE calls[e][k]
  BY DEF TypeOK, Step
<1>3. CallsPermitted'
  BY <1>2 DEF CallsPermitted, Permitted, MadeCoordinator
<1>4. Numbered' /\ AuthorityHeld'
  BY DEF Numbered, AuthorityHeld
<1> QED
  BY <1>1, <1>3, <1>4

\* A call that begins has a well typed record.
LEMMA BeganIsACall ==
  ASSUME TypeOK, NEW d \in Devices, NEW x \in Devices,
         NEW role \in AssignableToAnyone, NEW step \in CallSteps
  PROVE  Began(d, x, role, step) \in Call
<1>1. {v.id : v \in KnownOf(d, x)} \subseteq Ids
  BY DEF KnownOf, TypeOK
<1> QED
  BY <1>1 DEF Began, Call

\* A record that is written has a new number, and its author had the authority.
LEMMA WriteKeepsIInv ==
  ASSUME IInv, NEW d \in Devices, NEW c \in Calls, Write(d, c)
  PROVE  IInv'
<1> USE DEF IInv
<1> DEFINE call == calls[d][c]
<1>1. /\ call \in Call
      /\ call.step \in {"update", "create"}
      /\ NextId \in Ids
  BY DEF Write, TypeOK, NoCall
<1>2. PICK now \in Clock(d) :
        versions' = versions \cup
          {[id |-> NextId, author |-> d, docId |-> call.deviceId,
            roleId |-> call.roleId, links |-> call.links, updatedAt |-> now,
            past |-> Past(call.links), seen |-> call.seen]}
  BY DEF Write
<1> DEFINE new == [id |-> NextId, author |-> d, docId |-> call.deviceId,
                   roleId |-> call.roleId, links |-> call.links, updatedAt |-> now,
                   past |-> Past(call.links), seen |-> call.seen]
<1>3. Cardinality(versions) \in Nat /\ NextId = Cardinality(versions) + 1
  BY FS_CardinalityType DEF Numbered, NextId
<1>4. new \notin versions
  BY <1>3 DEF Numbered
<1>5. Numbered'
  <2>1. IsFiniteSet(versions') /\ Cardinality(versions') = Cardinality(versions) + 1
    BY <1>2, <1>4, FS_AddElement DEF Numbered
  <2>2. \A v \in versions' : v \in versions \/ v.id = Cardinality(versions) + 1
    BY <1>2, <1>3
  <2> QED
    BY <1>3, <2>1, <2>2 DEF Numbered
<1>6. TypeOK'
  <2>1. now \in Ids
    BY <1>1, <1>3, RolesAssumption DEF Clock, Ids
  <2>2. Past(call.links) \subseteq Ids
    BY <1>1 DEF Past, TypeOK, Version, Call
  <2>3. new \in Version
    BY <1>1, <2>1, <2>2 DEF Version, Call
  <2>4. versions' \subseteq Version
    BY <1>2, <2>3 DEF TypeOK
  <2>5. known' \in [Devices -> SUBSET Ids]
    BY <1>1 DEF Write, TypeOK
  <2>6. calls' \in [Devices -> [Calls -> Call \cup {NoCall}]]
    BY DEF Write, Step, TypeOK
  <2>7. creatorSeen' \subseteq Devices
    BY DEF Write, TypeOK
  <2> QED
    BY <2>4, <2>5, <2>6, <2>7 DEF TypeOK
<1>7. \A e, x, role : Permitted(e, x, role) => Permitted(e, x, role)'
  BY <1>2 DEF Permitted, MadeCoordinator
<1>8. CallsPermitted'
  <2>1. \A e \in Devices, k \in Calls :
          calls'[e][k] = IF e = d /\ k = c THEN NoCall ELSE calls[e][k]
    BY DEF Write, Step, TypeOK
  <2> QED
    BY <1>7, <2>1 DEF CallsPermitted, NoCall
<1>9. AuthorityHeld'
  <2>1. Permitted(d, call.deviceId, call.roleId)
    BY <1>1 DEF CallsPermitted
  <2>2. \A v \in versions :
          \/ v.author = Creator
          \/ v.roleId = "LEFT" /\ v.docId = v.author
          \/ \E w \in versions' : /\ w.id < v.id
                                  /\ w.docId = v.author /\ w.author # v.author
                                  /\ w.roleId = "COORDINATOR"
    BY <1>2 DEF AuthorityHeld
  <2>3. \/ d = Creator
        \/ call.roleId = "LEFT" /\ call.deviceId = d
        \/ \E w \in versions' : /\ w.id < NextId
                                /\ w.docId = d /\ w.author # d
                                /\ w.roleId = "COORDINATOR"
    BY <1>2, <1>3, <2>1 DEF Permitted, MadeCoordinator, Numbered
  <2> QED
    BY <1>2, <2>2, <2>3 DEF AuthorityHeld
<1> QED
  BY <1>5, <1>6, <1>8, <1>9

LEMMA NextIInv == IInv /\ [Next]_vars => IInv'
<1> SUFFICES ASSUME IInv, [Next]_vars PROVE IInv'
  OBVIOUS
<1> USE DEF IInv
<1>1. ASSUME NEW d \in Devices, NEW c \in Calls, NEW a \in Assignments,
             a[2] # "LEFT", AssignRole(d, c, a[1], a[2])
      PROVE  IInv'
  <2>1. a[1] \in Devices /\ a[2] \in AssignableToAnyone
    BY RolesAssumption
  <2>2. Began(d, a[1], a[2], "permission") \in Call
    BY <2>1, BeganIsACall DEF CallSteps
  <2>3. Began(d, a[1], a[2], "permission").step = "permission"
    BY DEF Began
  <2> QED
    BY <1>1, <2>2, <2>3, OneCallSteps DEF AssignRole
<1>2. ASSUME NEW d \in Devices, NEW c \in Calls, ProjectLeave(d, c)
      PROVE  IInv'
  <2>1. Began(d, d, "LEFT", "existing") \in Call
    BY BeganIsACall DEF CallSteps, AssignableToAnyone
  <2>2. Permitted(d, Began(d, d, "LEFT", "existing").deviceId,
                     Began(d, d, "LEFT", "existing").roleId)
    BY DEF Began, Permitted
  <2> QED
    BY <1>2, <2>1, <2>2, OneCallSteps DEF ProjectLeave
<1>3. ASSUME NEW d \in Devices, NEW c \in Calls, CheckPermission(d, c)
      PROVE  IInv'
  <2> DEFINE call == calls[d][c]
  <2>1. call \in Call /\ call.step = "permission"
    BY <1>3 DEF CheckPermission, TypeOK, NoCall
  <2>2. CASE call.roleId \in RoleAssignment(RoleOf(d, d))
    <3>1. d = Creator \/ MadeCoordinator(d)
      BY <2>2, SeenAuthority
    <3>2. [call EXCEPT !.step = "existing"] \in Call
      BY <2>1 DEF Call, CallSteps
    <3>3. Step(d, c, [call EXCEPT !.step = "existing"])
      BY <1>3, <2>2 DEF CheckPermission
    <3> QED
      BY <1>3, <3>1, <3>2, <3>3, OneCallSteps DEF CheckPermission, Permitted
  <2>3. CASE call.roleId \notin RoleAssignment(RoleOf(d, d))
    <3>1. Step(d, c, NoCall)
      BY <1>3, <2>3 DEF CheckPermission
    <3> QED
      BY <1>3, <3>1, OneCallSteps DEF CheckPermission, NoCall
  <2> QED
    BY <2>2, <2>3
<1>4. ASSUME NEW d \in Devices, NEW c \in Calls, ReadExisting(d, c)
      PROVE  IInv'
  <2> DEFINE call   == calls[d][c]
             x      == call.deviceId
             update == [call EXCEPT !.step = "update", !.links = {v.id : v \in Heads(d, x)}]
             check  == [call EXCEPT !.step = "checkExisting"]
  <2>1. call \in Call /\ call.step = "existing"
    BY <1>4 DEF ReadExisting, TypeOK, NoCall
  <2>2. Permitted(d, call.deviceId, call.roleId)
    BY <2>1 DEF CallsPermitted
  <2>3. {v.id : v \in Heads(d, x)} \subseteq Ids
    BY DEF Heads, KnownOf, TypeOK
  <2>4. update \in Call /\ update.deviceId = call.deviceId /\ update.roleId = call.roleId
    BY <2>1, <2>3 DEF Call, CallSteps
  <2>5. check \in Call /\ check.deviceId = call.deviceId /\ check.roleId = call.roleId
    BY <2>1 DEF Call, CallSteps
  <2>6. Step(d, c, update) \/ Step(d, c, check) \/ Step(d, c, NoCall)
    BY <1>4 DEF ReadExisting
  <2>7. CASE Step(d, c, update)
    BY <1>4, <2>2, <2>4, <2>7, OneCallSteps DEF ReadExisting
  <2>8. CASE Step(d, c, check)
    BY <1>4, <2>2, <2>5, <2>8, OneCallSteps DEF ReadExisting
  <2>9. CASE Step(d, c, NoCall)
    BY <1>4, <2>9, OneCallSteps DEF ReadExisting, NoCall
  <2> QED
    BY <2>6, <2>7, <2>8, <2>9
<1>5. ASSUME NEW d \in Devices, NEW c \in Calls, CheckExisting(d, c)
      PROVE  IInv'
  <2> DEFINE call   == calls[d][c]
             create == [call EXCEPT !.step = "create"]
  <2>1. call \in Call /\ call.step = "checkExisting"
    BY <1>5 DEF CheckExisting, TypeOK, NoCall
  <2>2. Permitted(d, call.deviceId, call.roleId)
    BY <2>1 DEF CallsPermitted
  <2>3. create \in Call /\ create.deviceId = call.deviceId /\ create.roleId = call.roleId
    BY <2>1 DEF Call, CallSteps
  <2>4. Step(d, c, create) \/ Step(d, c, NoCall)
    BY <1>5 DEF CheckExisting
  <2>5. CASE Step(d, c, create)
    BY <1>5, <2>2, <2>3, <2>5, OneCallSteps DEF CheckExisting
  <2>6. CASE Step(d, c, NoCall)
    BY <1>5, <2>6, OneCallSteps DEF CheckExisting, NoCall
  <2> QED
    BY <2>4, <2>5, <2>6
<1>6. ASSUME NEW d \in Devices, NEW e \in Devices, ReceiveRole(d, e)
      PROVE  IInv'
  <2>1. TypeOK'
    BY <1>6 DEF ReceiveRole, TypeOK
  <2> QED
    BY <1>6, <2>1 DEF ReceiveRole, Numbered, CallsPermitted, Permitted, MadeCoordinator,
                      AuthorityHeld
<1>7. ASSUME NEW d \in Devices, NEW e \in Devices, ReceiveOwnership(d, e)
      PROVE  IInv'
  BY <1>7 DEF ReceiveOwnership, TypeOK, Numbered, CallsPermitted, Permitted, MadeCoordinator,
              AuthorityHeld
<1>8. CASE UNCHANGED vars
  BY <1>8 DEF vars, TypeOK, Numbered, CallsPermitted, Permitted, MadeCoordinator, AuthorityHeld
<1> QED
  BY <1>1, <1>2, <1>3, <1>4, <1>5, <1>6, <1>7, <1>8, WriteKeepsIInv DEF Next

----------------------------------------------------------------------------
LEMMA Invariance == Spec => []IInv
<1> QED
  BY InitIInv, NextIInv, PTL DEF Spec

\* Every reachable state is well typed: calls, records and what is known of
\* them, whatever is under way.
THEOREM TypeCorrect == Spec => []TypeOK
<1>1. IInv => TypeOK
  BY DEF IInv
<1> QED
  BY <1>1, Invariance, PTL

\* Whoever assigned a role is the creator or had been made a coordinator by
\* another device, for any devices, overlapping calls and order of replication.
THEOREM RolesNeedAuthority == Spec => []AuthorityHeld
<1>1. IInv => AuthorityHeld
  BY DEF IInv
<1> QED
  BY <1>1, Invariance, PTL

----------------------------------------------------------------------------
(* Assignments override what was known.  The forks that an update links to
   cover everything the device has of the record (HeadsCover), because the
   past of a version contains that of the versions it links to (PastsNest);
   the invariant says it of the calls under way (CallsOverride). *)

Ordered ==
  /\ \A v, w \in versions : v.id = w.id => v = w
  /\ \A v \in versions : v.links \subseteq {w.id : w \in versions}
  /\ \A v \in versions : \A i \in v.links : i < v.id

PastsNest ==
  \A v, w \in versions : w.id \in v.links => w.past \cup {w.id} \subseteq v.past

CallOverrides(d, call) ==
  /\ call.step \in {"permission", "existing"} =>
       call.seen \subseteq {v.id : v \in KnownOf(d, call.deviceId)} /\ call.links = {}
  /\ call.step \in CallSteps => call.links \subseteq {v.id : v \in versions}
  /\ call.step \in {"update", "checkExisting", "create"} =>
       call.seen \subseteq Past(call.links)

CallsOverride == \A d \in Devices, c \in Calls : CallOverrides(d, calls[d][c])

OInv == IInv /\ Ordered /\ PastsNest /\ CallsOverride /\ OverridesWhatWasKnown

\* A set of numbers of records that is not empty has a greatest.
LEMMA Greatest ==
  ASSUME NEW S \in SUBSET Ids, S # {}
  PROVE  \E m \in S : \A i \in S : i <= m
<1> DEFINE T == {MaxVersions - i : i \in S}
<1>1. MaxVersions \in Nat /\ S \subseteq 1 .. MaxVersions
  BY RolesAssumption DEF Ids
<1>2. T \subseteq Nat /\ T # {}
  <2>1. \A i \in S : MaxVersions - i \in Nat
    BY <1>1
  <2>2. PICK i \in S : TRUE
    OBVIOUS
  <2>3. MaxVersions - i \in T
    OBVIOUS
  <2> QED
    BY <2>1, <2>3
<1>3. \E x \in T : \A y \in T : ~ (<<y, x>> \in OpToRel(<, Nat))
  BY <1>2, NatLessThanWellFounded, WFMin
<1>4. PICK x \in T : \A y \in T : ~ (<<y, x>> \in OpToRel(<, Nat))
  BY <1>3
<1>5. \A y \in T : ~ (y < x)
  BY <1>2, <1>4 DEF OpToRel
<1>6. PICK m \in S : x = MaxVersions - m
  OBVIOUS
<1>7. ASSUME NEW i \in S PROVE i <= m
  <2>1. ~ (MaxVersions - i < MaxVersions - m)
    BY <1>5, <1>6
  <2> QED
    BY <1>1, <2>1
<1> QED
  BY <1>7

\* What a device knows of a record is covered by the row and its forks.
LEMMA HeadsCover ==
  ASSUME TypeOK, Ordered, PastsNest, NEW d \in Devices, NEW x \in Devices,
         NEW v \in KnownOf(d, x)
  PROVE  v.id \in Past({w.id : w \in Heads(d, x)})
<1> DEFINE U == {w.id : w \in {u \in KnownOf(d, x) : u = v \/ v.id \in u.past}}
<1>1. U \subseteq Ids /\ U # {}
  BY DEF KnownOf, TypeOK, Version
<1>2. PICK m \in U : \A i \in U : i <= m
  BY <1>1, Greatest
<1>3. PICK w \in KnownOf(d, x) : w.id = m /\ (w = v \/ v.id \in w.past)
  OBVIOUS
<1>4. w \in Heads(d, x)
  <2> SUFFICES ASSUME NEW u \in KnownOf(d, x), w.id \in u.links PROVE FALSE
    BY DEF Heads
  <2>1. w.past \cup {w.id} \subseteq u.past /\ w.id < u.id
    BY DEF KnownOf, PastsNest, Ordered
  <2>2. u.id \in U
    BY <1>3, <2>1
  <2>3. u.id \in Nat /\ w.id \in Nat
    BY DEF KnownOf, TypeOK, Version, Ids
  <2> QED
    BY <1>2, <1>3, <2>1, <2>2, <2>3
<1>5. w \in versions /\ w.id \in {u.id : u \in Heads(d, x)}
  BY <1>4 DEF KnownOf
<1> QED
  BY <1>3, <1>5 DEF Past

LEMMA InitOInv == Init => OInv
<1> SUFFICES ASSUME Init PROVE OInv
  OBVIOUS
<1> QED
  BY InitIInv DEF Init, OInv, Ordered, PastsNest, CallsOverride, CallOverrides, OverridesWhatWasKnown,
                  NoCall, CallSteps

\* A step of one call that writes no record.
LEMMA OneCallOverrides ==
  ASSUME OInv, IInv', UNCHANGED <<versions, known, creatorSeen>>,
         NEW d \in Devices, NEW c \in Calls, NEW next,
         Step(d, c, next),
         next.step \in {"permission", "existing"} =>
           next.seen \subseteq {v.id : v \in KnownOf(d, next.deviceId)} /\ next.links = {},
         next.step \in CallSteps => next.links \subseteq {v.id : v \in versions},
         next.step \in {"update", "checkExisting", "create"} =>
           next.seen \subseteq Past(next.links)
  PROVE  OInv'
<1> USE DEF OInv
<1>1. \A e \in Devices, k \in Calls :
        calls'[e][k] = IF e = d /\ k = c THEN next ELSE calls[e][k]
  BY DEF IInv, TypeOK, Step
<1>2. /\ \A e, x : KnownOf(e, x)' = KnownOf(e, x)
      /\ \A links : Past(links)' = Past(links)
  BY DEF KnownOf, Past
<1>3. CallsOverride'
  BY <1>1, <1>2 DEF CallsOverride, CallOverrides
<1>4. Ordered' /\ PastsNest' /\ OverridesWhatWasKnown'
  BY DEF Ordered, PastsNest, OverridesWhatWasKnown
<1> QED
  BY <1>3, <1>4

\* A new record adds to no past but its own.
LEMMA WriteOverrides ==
  ASSUME OInv, IInv', NEW d \in Devices, NEW c \in Calls, Write(d, c)
  PROVE  OInv'
<1> USE DEF OInv
<1> DEFINE call == calls[d][c]
<1>1. /\ call \in Call
      /\ call.step \in {"update", "create"}
      /\ NextId \in Ids
  BY DEF Write, IInv, TypeOK, NoCall
<1>2. PICK now \in Clock(d) :
        versions' = versions \cup
          {[id |-> NextId, author |-> d, docId |-> call.deviceId,
            roleId |-> call.roleId, links |-> call.links, updatedAt |-> now,
            past |-> Past(call.links), seen |-> call.seen]}
  BY DEF Write
<1>3. /\ Cardinality(versions) \in Nat /\ NextId = Cardinality(versions) + 1
      /\ \A v \in versions : v.id < NextId /\ v.id \in Nat
  BY FS_CardinalityType DEF IInv, Numbered, NextId
<1>4. /\ call.links \subseteq {v.id : v \in versions}
      /\ call.seen \subseteq Past(call.links)
  BY <1>1 DEF CallsOverride, CallOverrides, CallSteps
<1> DEFINE new == [id |-> NextId, author |-> d, docId |-> call.deviceId,
                   roleId |-> call.roleId, links |-> call.links, updatedAt |-> now,
                   past |-> Past(call.links), seen |-> call.seen]
<1>5. versions' = versions \cup {new} /\ new.id = NextId /\ new.links = call.links
      /\ new.past = Past(call.links) /\ new.seen = call.seen
  BY <1>2
<1> HIDE DEF new
<1>6. Ordered'
  <2>1. \A v, w \in versions' : v.id = w.id => v = w
    BY <1>3, <1>5 DEF Ordered
  <2>2. \A v \in versions' : v.links \subseteq {w.id : w \in versions}
    BY <1>4, <1>5 DEF Ordered
  <2>3. \A v \in versions' : \A i \in v.links : i < v.id
    BY <1>3, <1>4, <1>5 DEF Ordered
  <2> QED
    BY <1>5, <2>1, <2>2, <2>3 DEF Ordered
<1>7. PastsNest'
  <2> SUFFICES ASSUME NEW v \in versions', NEW w \in versions', w.id \in v.links
               PROVE  w.past \cup {w.id} \subseteq v.past
    BY DEF PastsNest
  <2>1. w \in versions
    <3>1. v.links \subseteq {u.id : u \in versions}
      BY <1>4, <1>5 DEF Ordered
    <3> QED
      BY <1>3, <1>5, <3>1
  <2>2. CASE v \in versions
    BY <2>1, <2>2 DEF PastsNest
  <2>3. CASE v = new
    BY <1>5, <2>1, <2>3 DEF Past
  <2> QED
    BY <1>5, <2>2, <2>3
<1>8. \A links : links \subseteq {v.id : v \in versions} => Past(links)' = Past(links)
  <2> SUFFICES ASSUME NEW links, links \subseteq {v.id : v \in versions}
               PROVE  Past(links)' = Past(links)
    OBVIOUS
  <2>1. NextId \notin links
    BY <1>3
  <2>2. {w \in versions' : w.id \in links} = {w \in versions : w.id \in links}
    BY <1>5, <2>1
  <2> QED
    BY <2>2 DEF Past
<1>9. \A e \in Devices : \A x : {v.id : v \in KnownOf(e, x)} \subseteq {v.id : v \in KnownOf(e, x)'}
  BY <1>5 DEF KnownOf, Write, IInv, TypeOK
<1>10. CallsOverride'
  <2>1. \A e \in Devices, k \in Calls :
          calls'[e][k] = NoCall \/ calls'[e][k] = calls[e][k]
    BY DEF Write, Step, IInv, TypeOK
  <2>2. \A e \in Devices : \A next : CallOverrides(e, next) => CallOverrides(e, next)'
    <3> SUFFICES ASSUME NEW e \in Devices, NEW next, CallOverrides(e, next)
                 PROVE  CallOverrides(e, next)'
      OBVIOUS
    <3>1. next.step \in CallSteps => next.links \subseteq {v.id : v \in versions'}
      BY <1>5 DEF CallOverrides
    <3>2. next.step \in {"permission", "existing"} =>
            next.seen \subseteq {v.id : v \in KnownOf(e, next.deviceId)'} /\ next.links = {}
      BY <1>9 DEF CallOverrides
    <3>3. next.step \in {"update", "checkExisting", "create"} =>
            next.seen \subseteq Past(next.links)'
      BY <1>8 DEF CallOverrides, CallSteps
    <3> QED
      BY <3>1, <3>2, <3>3 DEF CallOverrides
  <2>3. \A e \in Devices : CallOverrides(e, NoCall)'
    BY DEF CallOverrides, NoCall, CallSteps
  <2>4. ASSUME NEW e \in Devices, NEW k \in Calls PROVE CallOverrides(e, calls[e][k])'
    <3>1. CASE calls'[e][k] = NoCall
      BY <2>3, <3>1 DEF CallOverrides
    <3>2. CASE calls'[e][k] = calls[e][k]
      <4>1. CallOverrides(e, calls[e][k])
        BY DEF CallsOverride
      <4> QED
        BY <2>2, <3>2, <4>1 DEF CallOverrides
    <3> QED
      BY <2>1, <3>1, <3>2
  <2> QED
    BY <2>4 DEF CallsOverride
<1>11. OverridesWhatWasKnown'
  BY <1>4, <1>5 DEF OverridesWhatWasKnown
<1> QED
  BY <1>6, <1>7, <1>10, <1>11

LEMMA NextOInv == OInv /\ [Next]_vars => OInv'
<1> SUFFICES ASSUME OInv, [Next]_vars PROVE OInv'
  OBVIOUS
<1> USE DEF OInv
<1>0. IInv'
  BY NextIInv
<1>a. \A d \in Devices, c \in Calls : calls[d][c] \in Call \cup {NoCall}
  BY DEF IInv, TypeOK
<1>1. ASSUME NEW d \in Devices, NEW c \in Calls, NEW x, NEW role, NEW step,
             step \in {"permission", "existing"}, Step(d, c, Began(d, x, role, step)),
             UNCHANGED <<versions, known, creatorSeen>>
      PROVE  OInv'
  BY <1>0, <1>1, OneCallOverrides DEF Began
<1>2. ASSUME NEW d \in Devices, NEW c \in Calls, CheckPermission(d, c)
      PROVE  OInv'
  <2> DEFINE call == calls[d][c]
  <2>1. call \in Call /\ call.step = "permission"
    BY <1>2, <1>a DEF CheckPermission, NoCall
  <2>2. Step(d, c, [call EXCEPT !.step = "existing"]) \/ Step(d, c, NoCall)
    BY <1>2 DEF CheckPermission
  <2>3. CASE Step(d, c, [call EXCEPT !.step = "existing"])
    <3> DEFINE next == [call EXCEPT !.step = "existing"]
    <3>1. /\ next.step = "existing" /\ next.seen = call.seen
          /\ next.links = call.links /\ next.deviceId = call.deviceId
      BY <2>1 DEF Call
    <3>2. /\ call.seen \subseteq {v.id : v \in KnownOf(d, call.deviceId)}
          /\ call.links = {}
      BY <2>1 DEF CallsOverride, CallOverrides
    <3> HIDE DEF next
    <3> QED
      BY <1>0, <1>2, <2>3, <3>1, <3>2, OneCallOverrides DEF CheckPermission, next
  <2>4. CASE Step(d, c, NoCall)
    BY <1>0, <1>2, <2>4, OneCallOverrides DEF CheckPermission, NoCall, CallSteps
  <2> QED
    BY <2>2, <2>3, <2>4
<1>3. ASSUME NEW d \in Devices, NEW c \in Calls, ReadExisting(d, c)
      PROVE  OInv'
  <2> DEFINE call   == calls[d][c]
             x      == call.deviceId
             update == [call EXCEPT !.step = "update", !.links = {v.id : v \in Heads(d, x)}]
             check  == [call EXCEPT !.step = "checkExisting"]
  <2>1. call \in Call /\ call.step = "existing" /\ x \in Devices
    BY <1>3, <1>a DEF ReadExisting, NoCall, Call
  <2>2. call.seen \subseteq {v.id : v \in KnownOf(d, x)} /\ call.links = {}
    BY <2>1 DEF CallsOverride, CallOverrides
  <2>3. \/ Step(d, c, update)
        \/ ~ HasRecord(d, x) /\ Step(d, c, check)
        \/ Step(d, c, NoCall)
    BY <1>3 DEF ReadExisting
  <2>4. CASE Step(d, c, update)
    <3>1. /\ update.step = "update" /\ update.seen = call.seen
          /\ update.links = {v.id : v \in Heads(d, x)} /\ update.deviceId = x
      BY <2>1 DEF Call
    <3>2. update.links \subseteq {v.id : v \in versions}
      BY <3>1 DEF Heads, KnownOf
    <3>3. \A v \in KnownOf(d, x) : v.id \in Past({w.id : w \in Heads(d, x)})
      BY <2>1, HeadsCover DEF IInv
    <3>4. update.seen \subseteq Past(update.links)
      BY <2>2, <3>1, <3>3
    <3> HIDE DEF update
    <3> QED
      BY <1>0, <1>3, <2>4, <3>1, <3>2, <3>4, OneCallOverrides DEF ReadExisting
  <2>5. CASE ~ HasRecord(d, x) /\ Step(d, c, check)
    <3>1. /\ check.step = "checkExisting" /\ check.seen = call.seen
          /\ check.links = {}
      BY <2>1, <2>2 DEF Call
    <3>2. call.seen = {}
      BY <2>2, <2>5 DEF HasRecord
    <3> HIDE DEF check
    <3> QED
      BY <1>0, <1>3, <2>5, <3>1, <3>2, OneCallOverrides DEF ReadExisting
  <2>6. CASE Step(d, c, NoCall)
    BY <1>0, <1>3, <2>6, OneCallOverrides DEF ReadExisting, NoCall, CallSteps
  <2> QED
    BY <2>3, <2>4, <2>5, <2>6
<1>4. ASSUME NEW d \in Devices, NEW c \in Calls, CheckExisting(d, c)
      PROVE  OInv'
  <2> DEFINE call   == calls[d][c]
             create == [call EXCEPT !.step = "create"]
  <2>1. call \in Call /\ call.step = "checkExisting"
    BY <1>4, <1>a DEF CheckExisting, NoCall
  <2>2. /\ call.links \subseteq {v.id : v \in versions}
        /\ call.seen \subseteq Past(call.links)
    BY <2>1 DEF CallsOverride, CallOverrides, CallSteps
  <2>3. Step(d, c, create) \/ Step(d, c, NoCall)
    BY <1>4 DEF CheckExisting
  <2>4. CASE Step(d, c, create)
    <3>1. /\ create.step = "create" /\ create.seen = call.seen
          /\ create.links = call.links /\ create.deviceId = call.deviceId
      BY <2>1 DEF Call
    <3> HIDE DEF create
    <3> QED
      BY <1>0, <1>4, <2>2, <2>4, <3>1, OneCallOverrides DEF CheckExisting
  <2>5. CASE Step(d, c, NoCall)
    BY <1>0, <1>4, <2>5, OneCallOverrides DEF CheckExisting, NoCall, CallSteps
  <2> QED
    BY <2>3, <2>4, <2>5
<1>5. ASSUME NEW d \in Devices, NEW e \in Devices, ReceiveRole(d, e)
      PROVE  OInv'
  <2>1. UNCHANGED <<versions, calls>>
    BY <1>5 DEF ReceiveRole
  <2>2. \A f \in Devices : known[f] \subseteq known'[f]
    BY <1>5 DEF ReceiveRole, IInv, TypeOK
  <2>3. \A f \in Devices : \A x : {v.id : v \in KnownOf(f, x)} \subseteq {v.id : v \in KnownOf(f, x)'}
    BY <2>1, <2>2 DEF KnownOf
  <2>4. \A links : Past(links)' = Past(links)
    BY <2>1 DEF Past
  <2>5. CallsOverride'
    BY <2>1, <2>3, <2>4 DEF CallsOverride, CallOverrides
  <2> QED
    BY <1>0, <2>1, <2>5 DEF Ordered, PastsNest, OverridesWhatWasKnown
<1>6. ASSUME UNCHANGED <<versions, known, calls>>
      PROVE  OInv'
  <2>1. /\ \A e, x : KnownOf(e, x)' = KnownOf(e, x)
        /\ \A links : Past(links)' = Past(links)
    BY <1>6 DEF KnownOf, Past
  <2> QED
    BY <1>0, <1>6, <2>1 DEF Ordered, PastsNest, CallsOverride, CallOverrides, OverridesWhatWasKnown
<1>7. CASE UNCHANGED vars
  BY <1>6, <1>7 DEF vars
<1>8. ASSUME NEW d \in Devices, NEW c \in Calls, NEW a \in Assignments,
             AssignRole(d, c, a[1], a[2]) \/ ProjectLeave(d, c)
      PROVE  OInv'
  BY <1>1, <1>8 DEF AssignRole, ProjectLeave
<1>9. ASSUME NEW d \in Devices, NEW e \in Devices, ReceiveOwnership(d, e)
      PROVE  OInv'
  BY <1>6, <1>9 DEF ReceiveOwnership
<1> QED
  BY <1>0, <1>2, <1>3, <1>4, <1>5, <1>7, <1>8, <1>9, WriteOverrides DEF Next

\* An assignment replaces everything its author had indexed of the record when
\* the call began, for any overlap of calls and any order of replication.
THEOREM AssignmentsOverride == Spec => []OverridesWhatWasKnown
<1>1. Spec => []OInv
  BY InitOInv, NextOInv, PTL DEF Spec
<1>2. OInv => OverridesWhatWasKnown
  BY DEF OInv
<1> QED
  BY <1>1, <1>2, PTL

----------------------------------------------------------------------------
(* A replaced role is not shown again.  What a version replaces is older by  *)
(* number, and with right clocks by date as well (Dated): the row is then    *)
(* the greatest version that is known, which grows with what is known.       *)

Dated ==
  /\ \A v \in versions : \A i \in v.past : i < v.id
  /\ \A v \in versions : v.author \notin Skewed => v.updatedAt = v.id

RInv == OInv /\ Dated

LEMMA WriteDates ==
  ASSUME RInv, NEW d \in Devices, NEW c \in Calls, Write(d, c)
  PROVE  Dated'
<1> USE DEF RInv, OInv, IInv
<1> DEFINE call == calls[d][c]
<1>1. /\ call.step \in CallSteps /\ call.links \subseteq {v.id : v \in versions}
      /\ NextId \in Ids /\ NextId \in Nat
  BY DEF Write, CallsOverride, CallOverrides, CallSteps, Ids
<1>2. \A v \in versions : v.id \in Nat /\ v.id < NextId
  BY FS_CardinalityType DEF Numbered, NextId
<1>3. \A i \in Past(call.links) : i < NextId
  <2> SUFFICES ASSUME NEW i \in Past(call.links) PROVE i < NextId
    OBVIOUS
  <2>1. CASE i \in call.links
    BY <1>1, <1>2, <2>1
  <2>2. CASE \E v \in versions : i \in v.past
    <3>1. PICK v \in versions : i \in v.past
      BY <2>2
    <3>2. i \in Nat /\ i < v.id /\ v.id \in Nat /\ v.id < NextId
      BY <1>2, <3>1 DEF Dated, TypeOK, Version, Ids
    <3> QED BY <1>1, <3>2
  <2> QED
    BY <2>1, <2>2 DEF Past
<1>4. PICK now \in Clock(d) :
        versions' = versions \cup
          {[id |-> NextId, author |-> d, docId |-> call.deviceId,
            roleId |-> call.roleId, links |-> call.links, updatedAt |-> now,
            past |-> Past(call.links), seen |-> call.seen]}
  BY DEF Write
<1>5. d \notin Skewed => now = NextId
  BY DEF Clock
<1> QED
  BY <1>3, <1>4, <1>5 DEF Dated

LEMMA NextRInv == RInv /\ [Next]_vars => RInv'
<1> SUFFICES ASSUME RInv, [Next]_vars PROVE RInv'
  OBVIOUS
<1>1. OInv'
  BY NextOInv DEF RInv
<1>2. ASSUME UNCHANGED versions PROVE Dated'
  BY <1>2 DEF RInv, Dated
<1>3. UNCHANGED versions \/ \E d \in Devices, c \in Calls : Write(d, c)
  BY DEF Next, vars, AssignRole, ProjectLeave, CheckPermission, ReadExisting, CheckExisting,
         ReceiveRole, ReceiveOwnership
<1> QED
  BY <1>1, <1>2, <1>3, WriteDates DEF RInv

\* With right clocks, the row is the greatest of the versions that are known.
RowGreatest ==
  \A d, x \in Devices :
    (\A v \in KnownOf(d, x) : v.author \notin Skewed) =>
      \A w \in Row(d, x), v \in KnownOf(d, x) : v.id <= w.id

LEMMA RowIsGreatest == RInv => RowGreatest
<1> SUFFICES ASSUME RInv, NEW d \in Devices, NEW x \in Devices,
                    \A v \in KnownOf(d, x) : v.author \notin Skewed,
                    NEW w \in Row(d, x), NEW v \in KnownOf(d, x)
             PROVE  v.id <= w.id
  BY DEF RowGreatest
<1> DEFINE U == {u.id : u \in KnownOf(d, x)}
<1>1. KnownOf(d, x) \subseteq versions /\ w \in Heads(d, x) /\ w \in KnownOf(d, x)
  BY DEF Row, Heads, KnownOf
<1>2. /\ \A u \in KnownOf(d, x) : u.id \in Ids /\ u.id \in Nat /\ u.updatedAt = u.id
      /\ \A u \in KnownOf(d, x) : \A i \in u.links : i < u.id
      /\ \A t, u \in KnownOf(d, x) : t.id = u.id => t = u
  BY <1>1 DEF RInv, OInv, IInv, TypeOK, Version, Ids, Ordered, Dated
<1>3. U \subseteq Ids /\ U # {}
  BY <1>1, <1>2
<1>4. PICK m \in U : \A i \in U : i <= m
  BY <1>3, Greatest
<1>5. PICK g \in KnownOf(d, x) : g.id = m
  BY <1>4
<1>6. \A u \in KnownOf(d, x) : u.id <= g.id
  BY <1>4, <1>5
<1>7. g \in Heads(d, x)
  <2> SUFFICES ASSUME NEW u \in KnownOf(d, x), g.id \in u.links PROVE FALSE
    BY DEF Heads
  <2> QED BY <1>2, <1>6
<1>8. g = w
  <2> SUFFICES ASSUME g # w PROVE FALSE
    OBVIOUS
  <2>1. Newer(w, g)
    BY <1>7 DEF Row
  <2>2. w.updatedAt = w.id /\ g.updatedAt = g.id /\ w.id \in Nat /\ g.id \in Nat /\ w.id <= g.id
    BY <1>1, <1>2, <1>6
  <2>3. w.id = g.id
    BY <2>1, <2>2 DEF Newer
  <2> QED
    BY <1>1, <1>2, <2>3
<1> QED
  BY <1>6, <1>8

\* A device forgets no version.
LEMMA KnownGrows ==
  ASSUME RInv, [Next]_vars, NEW d \in Devices, NEW x \in Devices
  PROVE  KnownOf(d, x) \subseteq KnownOf(d, x)'
<1>1. versions \subseteq versions' /\ known[d] \subseteq known'[d]
  <2> USE DEF RInv, OInv, IInv, TypeOK
  <2>1. ASSUME NEW e \in Devices, NEW c \in Calls, Write(e, c)
        PROVE  versions \subseteq versions' /\ known[d] \subseteq known'[d]
    BY <2>1 DEF Write
  <2>2. ASSUME NEW e \in Devices, NEW f \in Devices, ReceiveRole(e, f)
        PROVE  versions \subseteq versions' /\ known[d] \subseteq known'[d]
    BY <2>2 DEF ReceiveRole
  <2>3. CASE UNCHANGED <<versions, known>>
    BY <2>3
  <2>4. \/ UNCHANGED <<versions, known>>
        \/ \E e \in Devices, c \in Calls : Write(e, c)
        \/ \E e, f \in Devices : ReceiveRole(e, f)
    BY DEF Next, vars, AssignRole, ProjectLeave, CheckPermission, ReadExisting, CheckExisting,
           ReceiveOwnership
  <2> QED BY <2>1, <2>2, <2>3, <2>4
<1> QED
  BY <1>1 DEF KnownOf

\* What a device shows is never replaced by something older: blocks arrive in
\* any order, with gaps, for any devices whose clocks are right.
THEOREM RolesDoNotRevert == Spec => RoleNeverReverts
<1>1. RInv /\ RInv' /\ RowGreatest' /\ [Next]_vars =>
        [\A d, x \in Devices :
           (\A v \in KnownOf(d, x)' : v.author \notin Skewed) =>
             \A v \in Row(d, x), w \in Row(d, x)' : w.id \notin v.past]_vars
  <2> SUFFICES ASSUME RInv, RInv', RowGreatest', [Next]_vars, NEW d \in Devices, NEW x \in Devices,
                      \A v \in KnownOf(d, x)' : v.author \notin Skewed,
                      NEW v \in Row(d, x), NEW w \in Row(d, x)'
               PROVE  w.id \notin v.past
    OBVIOUS
  <2>1. v \in KnownOf(d, x)' /\ v \in versions
    BY KnownGrows DEF Row, Heads, KnownOf
  <2>2. v.id <= w.id
    BY <2>1 DEF RowGreatest
  <2>3. \A i \in v.past : i < v.id
    BY <2>1 DEF RInv, Dated
  <2>4. v.id \in Nat /\ w.id \in Nat
    <3>1. w \in versions'
      BY DEF Row, Heads, KnownOf
    <3> QED
      BY <2>1, <3>1 DEF RInv, OInv, IInv, TypeOK, Version, Ids
  <2> QED
    BY <2>2, <2>3, <2>4
<1>2. Init => RInv
  BY InitOInv DEF RInv, Init, Dated
<1> QED
  BY <1>1, <1>2, NextRInv, RowIsGreatest, PTL DEF Spec, RoleNeverReverts

----------------------------------------------------------------------------
(***************************************************************************)
(* Invitor and invited device agree, for any invites, invitors, and        *)
(* messages lost, repeated or late.                                        *)
(*                                                                         *)
(* DecisionsAgree says that the invitor ends with the answer the user      *)
(* gave. It follows from where an answer is between the two: an invite is  *)
(* sent once, and is news to the invited device when it comes (InviteOK),  *)
(* so that it has no answer before the user gives one (AnswerOK), the      *)
(* answer on its way is that one (ResponseOK), and the keys are sent only  *)
(* after an acceptance arrived (DetailsOK).                                *)
(***************************************************************************)

\* The messages that are in a queue.
In(q) == {q[n] : n \in 1 .. Len(q)}

Once(q, m) == \A i, j \in 1 .. Len(q) : q[i] = m /\ q[j] = m => i = j

\* Nobody but the invitor knows of the invite, and nothing was answered.
Untold(id) == state[id] = "none" /\ reply[id] = "none" /\ choice[id] = Null

\* An invite is sent once, and is news to the invited device.
InviteOK(id) ==
  LET q == toInvitee[InvitorOf[id]] IN
  /\ phase[id] \in {"idle", "preparing"} => Untold(id) /\ Message("Invite", id) \notin In(q)
  /\ Message("Invite", id) \in In(q) => Untold(id)
  /\ Once(q, Message("Invite", id))

\* A pending invite has no answer yet; a reply that is being sent has one.
AnswerOK(id) ==
  /\ state[id] = "pending" => reply[id] = "none" /\ choice[id] = Null
  /\ reply[id] # "none" => choice[id] # Null

\* On its way and at the invitor the answer is what it was.
ResponseOK(id) ==
  /\ \A m \in In(toInvitor[InvitorOf[id]]) :
       m.type = "InviteResponse" /\ m.id = id => m.decision = choice[id] /\ choice[id] # Null
  /\ response[id] # Null => response[id] = choice[id]

\* The invitor sends the keys after it has the acceptance.
DetailsOK(id) ==
  Message("ProjectJoinDetails", id) \in In(toInvitee[InvitorOf[id]]) => response[id] = "ACCEPT"

LocalOK(id) == InviteOK(id) /\ AnswerOK(id) /\ ResponseOK(id) /\ DetailsOK(id)

ProtocolInv ==
  /\ InviteTypeOK
  /\ \A id \in Invites : LocalOK(id)
  /\ DecisionsAgree /\ JoinsWithConsent /\ OneJoins

----------------------------------------------------------------------------
(* Queues *)

\* Between two states a channel has lost messages and gained at most those of M.
Gained(old, new, M) ==
  \A i \in Invitors :
    /\ In(new[i]) \subseteq In(old[i]) \cup M
    /\ \A m : m \notin M /\ Once(old[i], m) => Once(new[i], m)

LEMMA QueueAppend ==
  ASSUME NEW S, NEW q \in Seq(S), NEW m \in S
  PROVE  /\ Append(q, m) \in Seq(S) /\ In(Append(q, m)) = In(q) \cup {m}
         /\ \A k : Once(q, k) /\ (k # m \/ k \notin In(q)) => Once(Append(q, m), k)
<1> DEFINE t == Append(q, m)
<1>1. /\ t \in Seq(S) /\ Len(t) = Len(q) + 1 /\ Len(q) \in Nat /\ t[Len(q) + 1] = m
      /\ \A n \in 1 .. Len(q) : t[n] = q[n]
  OBVIOUS
<1> HIDE DEF t
<1>2. 1 .. Len(q) + 1 = (1 .. Len(q)) \cup {Len(q) + 1}
  BY <1>1
<1>3. In(t) = In(q) \cup {m}
  BY <1>1, <1>2 DEF In
<1>4. ASSUME NEW k, Once(q, k), k # m \/ k \notin In(q) PROVE Once(t, k)
  <2> SUFFICES ASSUME NEW i \in 1 .. Len(t), NEW j \in 1 .. Len(t), t[i] = k, t[j] = k PROVE i = j
    BY DEF Once
  <2>1. i \in 1 .. Len(q) => k \in In(q) /\ q[i] = k
    BY <1>1 DEF In
  <2>2. j \in 1 .. Len(q) => k \in In(q) /\ q[j] = k
    BY <1>1 DEF In
  <2> QED
    BY <1>1, <1>2, <1>4, <2>1, <2>2 DEF Once
<1> QED
  BY <1>1, <1>3, <1>4 DEF t

LEMMA QueueTail ==
  ASSUME NEW S, NEW q \in Seq(S), q # <<>>
  PROVE  /\ Tail(q) \in Seq(S) /\ In(Tail(q)) \subseteq In(q) /\ Head(q) \in In(q) /\ Head(q) \in S
         /\ \A k : Once(q, k) => Once(Tail(q), k) /\ (Head(q) = k => k \notin In(Tail(q)))
<1> DEFINE t == Tail(q)
<1>1. /\ t \in Seq(S) /\ Len(t) = Len(q) - 1 /\ Len(q) \in Nat /\ Len(q) >= 1 /\ Head(q) = q[1]
      /\ q[1] \in S /\ \A n \in 1 .. Len(q) - 1 : t[n] = q[n + 1]
  OBVIOUS
<1> HIDE DEF t
<1>2. \A n \in 1 .. Len(t) : n + 1 \in 1 .. Len(q) /\ t[n] = q[n + 1]
  BY <1>1
<1>3. In(t) \subseteq In(q)
  BY <1>2 DEF In
<1>4. Head(q) \in In(q)
  BY <1>1 DEF In
<1>5. ASSUME NEW k, Once(q, k) PROVE Once(t, k)
  <2> SUFFICES ASSUME NEW i \in 1 .. Len(t), NEW j \in 1 .. Len(t), t[i] = k, t[j] = k PROVE i = j
    BY DEF Once
  <2>1. i + 1 = j + 1
    BY <1>2, <1>5 DEF Once
  <2> QED
    BY <1>1, <2>1
<1>6. ASSUME NEW k, Once(q, k), Head(q) = k, k \in In(t) PROVE FALSE
  <2>1. PICK n \in 1 .. Len(t) : t[n] = k
    BY <1>6 DEF In
  <2>2. n + 1 \in 1 .. Len(q) /\ q[n + 1] = k /\ 1 \in 1 .. Len(q) /\ q[1] = k
    BY <1>1, <1>2, <1>6, <2>1
  <2>3. n + 1 = 1
    BY <1>6, <2>2 DEF Once
  <2> QED
    BY <1>1, <2>1, <2>3
<1> QED
  BY <1>1, <1>3, <1>4, <1>5, <1>6 DEF t

LEMMA Posted ==
  ASSUME NEW S, NEW c \in [Invitors -> Seq(S)], NEW id \in Invites, NEW m \in S
  PROVE  /\ Post(c, id, m) \in [Invitors -> Seq(S)] /\ Gained(c, Post(c, id, m), {m})
         /\ Post(c, id, m)[InvitorOf[id]] = Append(c[InvitorOf[id]], m)
<1> DEFINE i == InvitorOf[id]
           n == Post(c, id, m)
<1>1. i \in Invitors
  BY NetworkAssumption
<1>2. Append(c[i], m) \in Seq(S)
  BY <1>1, QueueAppend
<1>3. /\ n \in [Invitors -> Seq(S)] /\ n[i] = Append(c[i], m)
      /\ \A j \in Invitors \ {i} : n[j] = c[j]
  BY <1>1, <1>2 DEF Post
<1> HIDE DEF n
<1>4. Gained(c, n, {m})
  <2> SUFFICES ASSUME NEW j \in Invitors
               PROVE  /\ In(n[j]) \subseteq In(c[j]) \cup {m}
                      /\ \A k : k \notin {m} /\ Once(c[j], k) => Once(n[j], k)
    BY DEF Gained
  <2>1. CASE j = i
    <3>1. /\ In(Append(c[i], m)) = In(c[i]) \cup {m}
          /\ \A k : Once(c[i], k) /\ (k # m \/ k \notin In(c[i])) => Once(Append(c[i], m), k)
      BY <1>1, QueueAppend
    <3> QED
      BY <1>3, <2>1, <3>1
  <2>2. CASE j # i
    BY <1>3, <2>2
  <2> QED
    BY <2>1, <2>2
<1> QED
  BY <1>3, <1>4 DEF n

LEMMA Delivered ==
  ASSUME NEW S, NEW c \in [Invitors -> Seq(S)], NEW id \in Invites, c[InvitorOf[id]] # <<>>
  PROVE  /\ Deliver(c, id) \in [Invitors -> Seq(S)] /\ Gained(c, Deliver(c, id), {})
         /\ Deliver(c, id)[InvitorOf[id]] = Tail(c[InvitorOf[id]])
         /\ Head(c[InvitorOf[id]]) \in In(c[InvitorOf[id]]) /\ Head(c[InvitorOf[id]]) \in S
<1> DEFINE i == InvitorOf[id]
           n == Deliver(c, id)
<1>1. i \in Invitors
  BY NetworkAssumption
<1>2. Tail(c[i]) \in Seq(S) /\ Head(c[i]) \in In(c[i]) /\ Head(c[i]) \in S
  BY <1>1, QueueTail
<1>3. /\ n \in [Invitors -> Seq(S)] /\ n[i] = Tail(c[i])
      /\ \A j \in Invitors \ {i} : n[j] = c[j]
  BY <1>1, <1>2 DEF Deliver
<1> HIDE DEF n
<1>4. Gained(c, n, {})
  <2> SUFFICES ASSUME NEW j \in Invitors
               PROVE  /\ In(n[j]) \subseteq In(c[j])
                      /\ \A k : Once(c[j], k) => Once(n[j], k)
    BY DEF Gained
  <2>1. CASE j = i
    BY <1>1, <1>3, <2>1, QueueTail
  <2>2. CASE j # i
    BY <1>3, <2>2
  <2> QED
    BY <2>1, <2>2
<1> QED
  BY <1>2, <1>3, <1>4 DEF n

LEMMA GainedNothing ==
  ASSUME NEW c PROVE Gained(c, c, {})
  BY DEF Gained

LEMMA GainedTwice ==
  ASSUME NEW c, NEW d, NEW e, NEW M, NEW N, Gained(c, d, M), Gained(d, e, N)
  PROVE  Gained(c, e, M \cup N)
  BY DEF Gained

----------------------------------------------------------------------------
(* One invite *)

\* Of what a step does to an invite, most leaves alone what is said of it.
LEMMA Frame ==
  ASSUME NEW id \in Invites, LocalOK(id), NEW M, NEW N,
         choice'[id] = choice[id],
         response'[id] = response[id] \/ (response[id] = Null /\ response'[id] = choice[id]),
         phase'[id] \in {"idle", "preparing"} => phase[id] \in {"idle", "preparing"},
         state'[id] = state[id] \/ (state[id] # "none" /\ state'[id] \notin {"none", "pending"}),
         reply'[id] # "none" => reply[id] # "none",
         Gained(toInvitee, toInvitee', M), Message("Invite", id) \notin M,
         Message("ProjectJoinDetails", id) \in M => response'[id] = "ACCEPT",
         Gained(toInvitor, toInvitor', N),
         \A m \in N : m.type = "InviteResponse" /\ m.id = id =>
           m.decision = choice[id] /\ choice[id] # Null
  PROVE  LocalOK(id)'
<1> DEFINE i == InvitorOf[id]
<1>1. i \in Invitors
  BY NetworkAssumption
<1>2. /\ In(toInvitee'[i]) \subseteq In(toInvitee[i]) \cup M
      /\ In(toInvitor'[i]) \subseteq In(toInvitor[i]) \cup N
      /\ Once(toInvitee[i], Message("Invite", id)) => Once(toInvitee'[i], Message("Invite", id))
  BY <1>1 DEF Gained
<1>3. InviteOK(id)'
  BY <1>2 DEF LocalOK, InviteOK, Untold
<1>4. AnswerOK(id)'
  BY DEF LocalOK, AnswerOK
<1>5. ResponseOK(id)'
  BY <1>2 DEF LocalOK, ResponseOK
<1>6. DetailsOK(id)'
  BY <1>2, NetworkAssumption DEF LocalOK, DetailsOK
<1> QED
  BY <1>3, <1>4, <1>5, <1>6 DEF LocalOK

----------------------------------------------------------------------------
(* The steps of an invitor *)

LEMMA InvitorKeeps ==
  ASSUME ProtocolInv, UNCHANGED inviteApi, NetworkTypeOK', MemberApiTypeOK',
         \A id \in Invites : LocalOK(id)',
         \A id \in Invites : response[id] # Null => response'[id] = response[id],
         DecisionsAgree'
  PROVE  ProtocolInv'
<1>1. UNCHANGED <<state, reply, member, choice>>
  BY DEF inviteApi
<1>2. InviteApiTypeOK'
  BY <1>1 DEF ProtocolInv, InviteTypeOK, InviteApiTypeOK
<1>3. JoinsWithConsent'
  BY <1>1, NetworkAssumption DEF ProtocolInv, JoinsWithConsent
<1>4. OneJoins'
  BY <1>1 DEF ProtocolInv, OneJoins
<1> QED
  BY <1>2, <1>3, <1>4 DEF ProtocolInv, InviteTypeOK

\* Steps that change nothing but the phase of the call and what it waits for.
LEMMA InvitorLocal ==
  ASSUME ProtocolInv, NEW id \in Invites,
         Invite(id) \/ InvitorDrains(id) \/ GrantRole(id) \/ FinishInvite(id),
         UNCHANGED inviteApi
  PROVE  ProtocolInv'
<1>1. MemberApiTypeOK /\ NetworkTypeOK /\ \A x \in Invites : LocalOK(x)
  BY DEF ProtocolInv, InviteTypeOK
<1>2. /\ UNCHANGED <<connected, toInvitee, toInvitor, disconnects, response, choice, state, reply>>
      /\ NetworkTypeOK'
  BY <1>1 DEF Invite, InvitorDrains, GrantRole, FinishInvite, network, inviteApi, NetworkTypeOK
<1>3. MemberApiTypeOK'
  BY <1>1, NetworkAssumption
  DEF Invite, InvitorDrains, GrantRole, FinishInvite, End, DeleteOutbound, MemberApiTypeOK,
      SendStates, Phases, Cancelable, Ended
<1>4. \A x \in Invites : phase'[x] \in {"idle", "preparing"} => phase[x] \in {"idle", "preparing"}
  BY <1>1 DEF Invite, InvitorDrains, GrantRole, FinishInvite, End, MemberApiTypeOK
<1>5. \A x \in Invites : LocalOK(x)'
  <2> SUFFICES ASSUME NEW x \in Invites PROVE LocalOK(x)'
    OBVIOUS
  <2>1. Gained(toInvitee, toInvitee', {}) /\ Gained(toInvitor, toInvitor', {})
    BY <1>2, GainedNothing
  <2> QED
    BY <1>1, <1>2, <1>4, <2>1, Frame
<1>6. DecisionsAgree'
  BY <1>1, <1>2
  DEF Invite, InvitorDrains, GrantRole, FinishInvite, End, MemberApiTypeOK, ProtocolInv, DecisionsAgree
<1> QED
  BY <1>2, <1>3, <1>5, <1>6, InvitorKeeps

LEMMA MessageTypes ==
  ASSUME NEW id \in Invites
  PROVE  /\ \A t \in {"Invite", "InviteCancel", "InviteResponseAck", "ProjectJoinDetails"} :
              Message(t, id) \in ToInvitee
         /\ \A t \in {"InviteAck", "ProjectJoinDetailsAck"} : Message(t, id) \in ToInvitor
         /\ \A d \in Decisions : Response(id, d) \in ToInvitor
  BY DEF Message, Response, ToInvitee, ToInvitor

LEMMA InvitorSend ==
  ASSUME ProtocolInv, NEW id \in Invites, SendInvite(id), UNCHANGED inviteApi
  PROVE  ProtocolInv'
<1> DEFINE m == Message("Invite", id)
           i == InvitorOf[id]
<1>1. MemberApiTypeOK /\ NetworkTypeOK /\ \A x \in Invites : LocalOK(x)
  BY DEF ProtocolInv, InviteTypeOK
<1>2. /\ UNCHANGED <<connected, toInvitor, disconnects, response, aborted, choice, state, reply>>
      /\ phase[id] = "preparing" /\ i \in Invitors
  BY NetworkAssumption DEF SendInvite, inviteApi
<1>3. CASE (End(id, "aborted") \/ End(id, "failed")) /\ UNCHANGED toInvitee
  <2>1. MemberApiTypeOK'
    BY <1>1, <1>2, <1>3
    DEF SendInvite, End, DeleteOutbound, MemberApiTypeOK, SendStates, Phases, Cancelable, Ended
  <2>2. \A x \in Invites : phase'[x] \in {"idle", "preparing"} => phase[x] \in {"idle", "preparing"}
    BY <1>1, <1>3 DEF End, MemberApiTypeOK
  <2>3. \A x \in Invites : LocalOK(x)'
    <3> SUFFICES ASSUME NEW x \in Invites PROVE LocalOK(x)'
      OBVIOUS
    <3>1. Gained(toInvitee, toInvitee', {}) /\ Gained(toInvitor, toInvitor', {})
      BY <1>2, <1>3, GainedNothing
    <3> QED
      BY <1>1, <1>2, <2>2, <3>1, Frame
  <2>4. DecisionsAgree'
    BY <1>1, <1>2, <1>3 DEF SendInvite, End, MemberApiTypeOK, ProtocolInv, DecisionsAgree
  <2>5. NetworkTypeOK'
    BY <1>1, <1>2, <1>3 DEF NetworkTypeOK
  <2> QED
    BY <1>2, <2>1, <2>3, <2>4, <2>5, InvitorKeeps
<1>4. ASSUME phase' = [phase EXCEPT ![id] = "sendingInvite"],
             \E s \in Written : send' = [send EXCEPT ![id] = s],
             toInvitee' = Post(toInvitee, id, m), UNCHANGED outbound
      PROVE  ProtocolInv'
  <2>1. MemberApiTypeOK'
    BY <1>1, <1>2, <1>4
    DEF SendInvite, Written, MemberApiTypeOK, SendStates, Phases, Cancelable, Ended
  <2>2. /\ toInvitee' \in [Invitors -> Seq(ToInvitee)] /\ Gained(toInvitee, toInvitee', {m})
        /\ toInvitee'[i] = Append(toInvitee[i], m)
        /\ toInvitee[i] \in Seq(ToInvitee) /\ m \in ToInvitee
    <3>1. m \in ToInvitee
      BY MessageTypes
    <3>2. toInvitee \in [Invitors -> Seq(ToInvitee)]
      BY <1>1 DEF NetworkTypeOK
    <3> HIDE DEF m
    <3>3. toInvitee' \in [Invitors -> Seq(ToInvitee)] /\ Gained(toInvitee, toInvitee', {m})
      BY <1>4, <3>1, <3>2, Posted
    <3>4. toInvitee'[i] = Append(toInvitee[i], m)
      BY <1>2, <1>4, <3>2 DEF Post
    <3>5. toInvitee[i] \in Seq(ToInvitee)
      BY <1>2, <3>2
    <3> QED
      BY <3>1, <3>3, <3>4, <3>5
  <2>3. NetworkTypeOK'
    BY <1>1, <1>2, <2>2 DEF NetworkTypeOK
  <2>4. ASSUME NEW x \in Invites \ {id} PROVE LocalOK(x)'
    <3>1. Gained(toInvitor, toInvitor', {})
      BY <1>2, GainedNothing
    <3>2. Message("Invite", x) \notin {m} /\ Message("ProjectJoinDetails", x) \notin {m}
      BY DEF Message
    <3>3. phase'[x] = phase[x]
      BY <1>1, <1>4 DEF MemberApiTypeOK
    <3> QED
      BY <1>1, <1>2, <2>2, <3>1, <3>2, <3>3, Frame
  <2>5. LocalOK(id)'
    <3>1. Untold(id) /\ m \notin In(toInvitee[i]) /\ Once(toInvitee[i], m)
      BY <1>1, <1>2 DEF LocalOK, InviteOK
    <3>2. In(toInvitee'[i]) = In(toInvitee[i]) \cup {m} /\ Once(toInvitee'[i], m)
      BY <2>2, <3>1, QueueAppend
    <3>3. phase'[id] = "sendingInvite"
      BY <1>1, <1>4 DEF MemberApiTypeOK
    <3>4. InviteOK(id)'
      BY <1>2, <3>1, <3>2, <3>3 DEF InviteOK, Untold
    <3>5. AnswerOK(id)' /\ ResponseOK(id)'
      BY <1>1, <1>2 DEF LocalOK, AnswerOK, ResponseOK
    <3>6. Message("ProjectJoinDetails", id) # m
      BY DEF Message
    <3>7. DetailsOK(id)'
      BY <1>1, <1>2, <3>2, <3>6 DEF LocalOK, DetailsOK
    <3> QED
      BY <3>4, <3>5, <3>7 DEF LocalOK
  <2>6. DecisionsAgree'
    BY <1>1, <1>2, <1>4 DEF SendInvite, MemberApiTypeOK, ProtocolInv, DecisionsAgree
  <2> QED
    BY <1>2, <2>1, <2>3, <2>4, <2>5, <2>6, InvitorKeeps
<1> QED
  BY <1>3, <1>4 DEF SendInvite

LEMMA InvitorAck ==
  ASSUME ProtocolInv, NEW id \in Invites,
         ReceiveInviteAck(id) \/ ReceiveDetailsAck(id), UNCHANGED inviteApi
  PROVE  ProtocolInv'
<1>1. MemberApiTypeOK /\ NetworkTypeOK /\ \A x \in Invites : LocalOK(x)
  BY DEF ProtocolInv, InviteTypeOK
<1>2. /\ UNCHANGED <<connected, toInvitee, disconnects, response, aborted, granted, choice, state, reply>>
      /\ toInvitor' = Deliver(toInvitor, id) /\ toInvitor[InvitorOf[id]] # <<>>
      /\ InvitorOf[id] \in Invitors
  BY NetworkAssumption DEF ReceiveInviteAck, ReceiveDetailsAck, Arrives, inviteApi
<1>3. toInvitor' \in [Invitors -> Seq(ToInvitor)] /\ Gained(toInvitor, toInvitor', {})
  BY <1>1, <1>2, Delivered DEF NetworkTypeOK
<1>4. NetworkTypeOK'
  BY <1>1, <1>2, <1>3 DEF NetworkTypeOK
<1>5. MemberApiTypeOK'
  <2>1. CASE ReceiveInviteAck(id)
    BY <1>1, <1>2, <2>1
    DEF ReceiveInviteAck, End, DeleteOutbound, MemberApiTypeOK, SendStates, Phases, Cancelable, Ended
  <2>2. CASE ReceiveDetailsAck(id)
    BY <1>1, <1>2, <2>2 DEF ReceiveDetailsAck, MemberApiTypeOK, SendStates, Phases, Cancelable, Ended
  <2> QED
    BY <2>1, <2>2
<1>6. \A x \in Invites : phase'[x] \in {"idle", "preparing"} => phase[x] \in {"idle", "preparing"}
  BY <1>1 DEF ReceiveInviteAck, ReceiveDetailsAck, End, MemberApiTypeOK
<1>7. \A x \in Invites : LocalOK(x)'
  <2> SUFFICES ASSUME NEW x \in Invites PROVE LocalOK(x)'
    OBVIOUS
  <2>1. Gained(toInvitee, toInvitee', {})
    BY <1>2, GainedNothing
  <2> QED
    BY <1>1, <1>2, <1>3, <1>6, <2>1, Frame
<1>8. DecisionsAgree'
  BY <1>1, <1>2 DEF ReceiveInviteAck, ReceiveDetailsAck, End, MemberApiTypeOK, ProtocolInv, DecisionsAgree
<1> QED
  BY <1>2, <1>4, <1>5, <1>7, <1>8, InvitorKeeps

LEMMA InvitorHears ==
  ASSUME ProtocolInv, NEW id \in Invites, ReceiveResponse(id), UNCHANGED inviteApi
  PROVE  ProtocolInv'
<1> DEFINE i == InvitorOf[id]
           d == Head(toInvitor[i]).decision
           ack == Message("InviteResponseAck", id)
           details == Message("ProjectJoinDetails", id)
           acked == Post(toInvitee, id, ack)
<1>1. MemberApiTypeOK /\ NetworkTypeOK /\ \A x \in Invites : LocalOK(x)
  BY DEF ProtocolInv, InviteTypeOK
<1>2. /\ UNCHANGED <<connected, disconnects, aborted, granted, choice, state, reply>>
      /\ toInvitor' = Deliver(toInvitor, id) /\ toInvitor[i] # <<>> /\ i \in Invitors
      /\ Head(toInvitor[i]).type = "InviteResponse" /\ Head(toInvitor[i]).id = id
  BY NetworkAssumption DEF ReceiveResponse, Arrives, inviteApi
<1>3. /\ toInvitor' \in [Invitors -> Seq(ToInvitor)] /\ Gained(toInvitor, toInvitor', {})
      /\ Head(toInvitor[i]) \in In(toInvitor[i]) /\ Head(toInvitor[i]) \in ToInvitor
  BY <1>1, <1>2, Delivered DEF NetworkTypeOK
<1>4. d = choice[id] /\ choice[id] # Null /\ d \in Decisions /\ Null \notin Decisions
  BY <1>1, <1>2, <1>3, NetworkAssumption DEF LocalOK, ResponseOK, ToInvitor, Decisions
<1>5. ack \in ToInvitee /\ details \in ToInvitee
  BY MessageTypes
<1>6. /\ \A x \in Invites : Message("Invite", x) \notin {ack, details}
      /\ \A x \in Invites : Message("ProjectJoinDetails", x) # ack
      /\ \A x \in Invites : Message("ProjectJoinDetails", x) = details => x = id
  BY DEF Message
<1> HIDE DEF ack, details, acked, d
<1>7. acked \in [Invitors -> Seq(ToInvitee)] /\ Gained(toInvitee, acked, {ack})
  BY <1>1, <1>5, Posted DEF NetworkTypeOK, acked
<1>8. Post(acked, id, details) \in [Invitors -> Seq(ToInvitee)]
      /\ Gained(toInvitee, Post(acked, id, details), {ack, details})
  <2>1. Post(acked, id, details) \in [Invitors -> Seq(ToInvitee)]
        /\ Gained(acked, Post(acked, id, details), {details})
    BY <1>5, <1>7, Posted
  <2>2. Gained(toInvitee, Post(acked, id, details), {ack} \cup {details})
    BY <1>7, <2>1, GainedTwice
  <2>3. {ack} \cup {details} = {ack, details}
    OBVIOUS
  <2> QED
    BY <2>1, <2>2, <2>3
\* The invite() call goes on, or it does not hear the answer or not yet act on it.
<1>9. \/ /\ d = "ACCEPT" /\ response' = [response EXCEPT ![id] = d]
         /\ phase' = [phase EXCEPT ![id] = "sendingDetails"]
         /\ \E s \in Written : send' = [send EXCEPT ![id] = s]
         /\ toInvitee' = Post(acked, id, details) /\ DeleteOutbound(id)
      \/ /\ d # "ACCEPT" /\ response' = [response EXCEPT ![id] = d]
         /\ End(id, IF d = "REJECT" THEN "rejected" ELSE "already")
         /\ toInvitee' = acked
      \/ response' = [response EXCEPT ![id] = d] /\ toInvitee' = acked /\ UNCHANGED <<phase, send, outbound>>
      \/ response' = response /\ toInvitee' = acked /\ UNCHANGED <<phase, send, outbound>>
  BY DEF ReceiveResponse, Decide, SendDetails, d, acked, ack, details
<1>10. response' = response \/ (response[id] = Null /\ response' = [response EXCEPT ![id] = d])
  BY DEF ReceiveResponse, d
<1>11. response \in [Invites -> Decisions \cup {Null}] /\ phase \in [Invites -> Phases]
  BY <1>1 DEF MemberApiTypeOK
<1>12. NetworkTypeOK'
  BY <1>1, <1>2, <1>3, <1>7, <1>8, <1>9 DEF NetworkTypeOK
<1>13. MemberApiTypeOK'
  BY <1>1, <1>2, <1>4, <1>9
  DEF MemberApiTypeOK, End, DeleteOutbound, Written, SendStates, Phases, Cancelable, Ended
<1>14. ASSUME NEW x \in Invites PROVE LocalOK(x)'
  <2>1. response'[x] = response[x] \/ (response[x] = Null /\ response'[x] = choice[x])
    BY <1>4, <1>10, <1>11
  <2>2. phase'[x] \in {"idle", "preparing"} => phase[x] \in {"idle", "preparing"}
    BY <1>9, <1>11 DEF End
  <2>3. CASE toInvitee' = acked
    <3>1. Message("Invite", x) \notin {ack} /\ Message("ProjectJoinDetails", x) \notin {ack}
      BY <1>6
    <3> QED
      BY <1>1, <1>2, <1>3, <1>7, <2>1, <2>2, <2>3, <3>1, Frame
  <2>4. CASE toInvitee' = Post(acked, id, details) /\ d = "ACCEPT" /\ response' = [response EXCEPT ![id] = d]
    <3>1. Message("ProjectJoinDetails", x) \in {ack, details} => response'[x] = "ACCEPT"
      BY <1>6, <1>11, <2>4
    <3>2. Message("Invite", x) \notin {ack, details}
      BY <1>6
    <3> QED
      BY <1>1, <1>2, <1>3, <1>8, <2>1, <2>2, <2>4, <3>1, <3>2, Frame
  <2> QED
    BY <1>9, <2>3, <2>4
<1>15. DecisionsAgree'
  BY <1>2, <1>4, <1>9, <1>11 DEF ProtocolInv, DecisionsAgree, End, Decisions
<1>16. \A x \in Invites : response[x] # Null => response'[x] = response[x]
  BY <1>10, <1>11
<1> QED
  BY <1>12, <1>13, <1>14, <1>15, <1>16, InvitorKeeps

LEMMA InvitorCancels ==
  ASSUME ProtocolInv, NEW i \in Invitors, RequestCancelInvite(i), UNCHANGED inviteApi
  PROVE  ProtocolInv'
<1> DEFINE id == outbound[i]
           m == Message("InviteCancel", id)
<1>1. MemberApiTypeOK /\ NetworkTypeOK /\ \A x \in Invites : LocalOK(x)
  BY DEF ProtocolInv, InviteTypeOK
<1>2. /\ UNCHANGED <<connected, toInvitor, disconnects, response, granted, choice, state, reply>>
      /\ id \in Invites /\ aborted' = [aborted EXCEPT ![id] = TRUE]
      /\ \/ phase[id] = "awaitingResponse" /\ End(id, "aborted")
         \/ UNCHANGED <<phase, send, outbound>>
      /\ toInvitee' = toInvitee \/ toInvitee' = Post(toInvitee, id, m)
  BY <1>1 DEF RequestCancelInvite, inviteApi, MemberApiTypeOK, PostIfConnected
<1>3. m \in ToInvitee
  BY <1>2, MessageTypes
<1>4. /\ \A x \in Invites : Message("Invite", x) # m
      /\ \A x \in Invites : Message("ProjectJoinDetails", x) # m
  BY DEF Message
<1> HIDE DEF m, id
<1>5. toInvitee' \in [Invitors -> Seq(ToInvitee)] /\ Gained(toInvitee, toInvitee', {m})
  <2>1. CASE toInvitee' = toInvitee
    BY <1>1, <2>1 DEF NetworkTypeOK, Gained
  <2>2. CASE toInvitee' = Post(toInvitee, id, m)
    BY <1>1, <1>2, <1>3, <2>2, Posted DEF NetworkTypeOK
  <2> QED
    BY <1>2, <2>1, <2>2
<1>6. NetworkTypeOK'
  BY <1>1, <1>2, <1>5 DEF NetworkTypeOK
<1>7. MemberApiTypeOK'
  BY <1>1, <1>2, NetworkAssumption
  DEF MemberApiTypeOK, End, DeleteOutbound, SendStates, Phases, Cancelable, Ended
<1>8. \A x \in Invites : phase'[x] \in {"idle", "preparing"} => phase[x] \in {"idle", "preparing"}
  BY <1>1, <1>2 DEF End, MemberApiTypeOK
<1>9. ASSUME NEW x \in Invites PROVE LocalOK(x)'
  <2>1. Gained(toInvitor, toInvitor', {})
    BY <1>2, GainedNothing
  <2>2. Message("Invite", x) \notin {m} /\ Message("ProjectJoinDetails", x) \notin {m}
    BY <1>4
  <2> QED
    BY <1>1, <1>2, <1>5, <1>8, <2>1, <2>2, Frame
<1>10. DecisionsAgree'
  BY <1>1, <1>2 DEF MemberApiTypeOK, End, ProtocolInv, DecisionsAgree
<1> QED
  BY <1>2, <1>6, <1>7, <1>9, <1>10, InvitorKeeps

LEMMA InvitorStepOK ==
  ASSUME ProtocolInv, NEW id \in Invites, InvitorStep(id)
  PROVE  ProtocolInv'
  BY InvitorLocal, InvitorSend, InvitorAck, InvitorHears DEF InvitorStep

----------------------------------------------------------------------------
(* The steps of the invited device *)

LEMMA InviteeKeeps ==
  ASSUME ProtocolInv, UNCHANGED memberApi, NetworkTypeOK', InviteApiTypeOK',
         \A id \in Invites : LocalOK(id)',
         \A id \in Invites : choice[id] # Null => choice'[id] = choice[id],
         JoinsWithConsent', OneJoins'
  PROVE  ProtocolInv'
<1>1. UNCHANGED <<phase, send, response, aborted, outbound, granted>>
  BY DEF memberApi
<1>2. MemberApiTypeOK'
  BY <1>1 DEF ProtocolInv, InviteTypeOK, MemberApiTypeOK
<1>3. DecisionsAgree'
  BY <1>1, NetworkAssumption DEF ProtocolInv, DecisionsAgree
<1> QED
  BY <1>2, <1>3 DEF ProtocolInv, InviteTypeOK

\* What the machine of an invite does by itself or when a message is received,
\* after it was answered.
InviteeMove(id) ==
  /\ choice' = choice
  /\ \A x \in Invites \ {id} : state'[x] = state[x] /\ reply'[x] = reply[x]
  /\ state'[id] = state[id] \/ (state[id] # "none" /\ state'[id] \notin {"none", "pending"})
  /\ reply'[id] # "none" => reply[id] # "none"

LEMMA InviteeMoves ==
  ASSUME ProtocolInv, NEW id \in Invites, UNCHANGED memberApi, InviteeMove(id),
         NetworkTypeOK', InviteApiTypeOK', JoinsWithConsent', OneJoins',
         Gained(toInvitee, toInvitee', {}), NEW N, Gained(toInvitor, toInvitor', N),
         \A m \in N : m.type = "InviteResponse" /\ m.id \in Invites =>
           m.decision = choice[m.id] /\ choice[m.id] # Null
  PROVE  ProtocolInv'
<1>1. UNCHANGED <<phase, response>>
  BY DEF memberApi
<1>2. ASSUME NEW x \in Invites PROVE LocalOK(x)'
  <2>1. LocalOK(x)
    BY DEF ProtocolInv
  <2>2. /\ choice'[x] = choice[x]
        /\ state'[x] = state[x] \/ (state[x] # "none" /\ state'[x] \notin {"none", "pending"})
        /\ reply'[x] # "none" => reply[x] # "none"
    BY DEF InviteeMove
  <2> QED
    BY <1>1, <2>1, <2>2, Frame
<1> QED
  BY <1>2, InviteeKeeps DEF InviteeMove

LEMMA InviteeLocal ==
  ASSUME ProtocolInv, NEW id \in Invites,
         \/ InviteeDrains(id) \/ DetailsTimeout(id) \/ ProjectAdded(id)
         \/ AddProjectFails(id) \/ AddProjectTimeout(id),
         UNCHANGED memberApi
  PROVE  ProtocolInv'
<1>1. InviteApiTypeOK /\ NetworkTypeOK /\ JoinsWithConsent /\ OneJoins
  BY DEF ProtocolInv, InviteTypeOK
<1>2. UNCHANGED <<choice, response, connected, toInvitee, toInvitor, disconnects>>
  BY DEF InviteeDrains, DetailsTimeout, ProjectAdded, AddProjectFails, AddProjectTimeout, network, memberApi
<1>3. NetworkTypeOK'
  BY <1>1, <1>2 DEF NetworkTypeOK
<1>4. InviteApiTypeOK'
  BY <1>1
  DEF InviteeDrains, DetailsTimeout, ProjectAdded, AddProjectFails, AddProjectTimeout,
      InviteApiTypeOK, States, Responding, Joining, Final, SendStates
<1>5. InviteeMove(id)
  BY <1>1
  DEF InviteeDrains, DetailsTimeout, ProjectAdded, AddProjectFails, AddProjectTimeout,
      InviteApiTypeOK, InviteeMove
<1>6. OneJoins'
  BY <1>1
  DEF InviteeDrains, DetailsTimeout, ProjectAdded, AddProjectFails, AddProjectTimeout,
      InviteApiTypeOK, OneJoins
<1>7. JoinsWithConsent'
  <2>1. CASE InviteeDrains(id) \/ DetailsTimeout(id) \/ ProjectAdded(id) \/ AddProjectTimeout(id)
    BY <1>1, <1>2, <2>1
    DEF InviteeDrains, DetailsTimeout, ProjectAdded, AddProjectTimeout, InviteApiTypeOK, JoinsWithConsent
  <2>2. CASE AddProjectFails(id)
    <3>1. \A x \in Invites : state'[x] \notin {"joining.addingProject", "joined"}
      BY <1>1, <2>2 DEF AddProjectFails, InviteApiTypeOK, OneJoins
    <3> QED
      BY <3>1 DEF JoinsWithConsent
  <2> QED
    BY <2>1, <2>2
<1>8. Gained(toInvitee, toInvitee', {}) /\ Gained(toInvitor, toInvitor', {})
  BY <1>2, GainedNothing
<1> QED
  BY <1>3, <1>4, <1>5, <1>6, <1>7, <1>8, InviteeMoves

LEMMA InviteeHears ==
  ASSUME ProtocolInv, NEW id \in Invites,
         ReceiveResponseAck(id) \/ ReceiveCancel(id), UNCHANGED memberApi
  PROVE  ProtocolInv'
<1>1. InviteApiTypeOK /\ NetworkTypeOK /\ JoinsWithConsent /\ OneJoins
  BY DEF ProtocolInv, InviteTypeOK
<1>2. /\ UNCHANGED <<choice, member, response, connected, toInvitor, disconnects>>
      /\ toInvitee' = Deliver(toInvitee, id) /\ toInvitee[InvitorOf[id]] # <<>>
  BY DEF ReceiveResponseAck, ReceiveCancel, Arrives, memberApi
<1>3. toInvitee' \in [Invitors -> Seq(ToInvitee)] /\ Gained(toInvitee, toInvitee', {})
  BY <1>1, <1>2, Delivered DEF NetworkTypeOK
<1>4. NetworkTypeOK'
  BY <1>1, <1>2, <1>3 DEF NetworkTypeOK
\* The machine of the invite takes a transition, or nothing happens.
<1>5. \/ UNCHANGED <<state, reply>>
      \/ \E s \in {"joining.awaitingDetails", "rejected", "respondedAlready", "canceled"} :
           /\ state' = [state EXCEPT ![id] = s] /\ state[id] # "none"
           /\ reply' = [reply EXCEPT ![id] = "none"] \/ (reply' = reply /\ reply[id] = "starting")
  <2>1. CASE ReceiveResponseAck(id)
    <3>1. reply[id] = "awaitingAck" => state[id] \in Responding
      BY <1>1 DEF InviteApiTypeOK
    <3> DEFINE s == CASE state[id] = "responding.accept"  -> "joining.awaitingDetails"
                      [] state[id] = "responding.reject"  -> "rejected"
                      [] state[id] = "responding.already" -> "respondedAlready"
    <3>2. state[id] \in Responding =>
            s \in {"joining.awaitingDetails", "rejected", "respondedAlready", "canceled"} /\ state[id] # "none"
      BY DEF Responding
    <3>3. reply[id] = "awaitingAck" =>
            state' = [state EXCEPT ![id] = s] /\ reply' = [reply EXCEPT ![id] = "none"]
      BY <2>1 DEF ReceiveResponseAck
    <3>4. reply[id] # "awaitingAck" => UNCHANGED <<state, reply>>
      BY <2>1 DEF ReceiveResponseAck
    <3> HIDE DEF s
    <3> QED
      BY <3>1, <3>2, <3>3, <3>4
  <2>2. CASE ReceiveCancel(id)
    BY <2>2 DEF ReceiveCancel, CanCancel, Responding, Leave
  <2> QED
    BY <2>1, <2>2
<1>6. InviteApiTypeOK'
  BY <1>1, <1>2, <1>5 DEF InviteApiTypeOK, States, Responding, Joining, Final, SendStates
<1>7. InviteeMove(id)
  BY <1>1, <1>2, <1>5 DEF InviteApiTypeOK, InviteeMove
<1>8. OneJoins' /\ JoinsWithConsent'
  BY <1>1, <1>2, <1>5 DEF InviteApiTypeOK, OneJoins, JoinsWithConsent
<1>9. Gained(toInvitor, toInvitor', {})
  BY <1>2, GainedNothing
<1> QED
  BY <1>3, <1>4, <1>6, <1>7, <1>8, <1>9, InviteeMoves

LEMMA HeadIs ==
  ASSUME NetworkTypeOK, NEW id \in Invites, NEW type, Arrives(toInvitee, id, type)
  PROVE  /\ toInvitee[InvitorOf[id]] # <<>> /\ Head(toInvitee[InvitorOf[id]]) = Message(type, id)
         /\ Message(type, id) \in In(toInvitee[InvitorOf[id]])
<1> DEFINE m == Head(toInvitee[InvitorOf[id]])
<1>1. toInvitee[InvitorOf[id]] # <<>> /\ m.type = type /\ m.id = id
  BY DEF Arrives
<1>2. m \in In(toInvitee[InvitorOf[id]]) /\ m \in ToInvitee
  BY <1>1, Delivered DEF NetworkTypeOK
<1> HIDE DEF m
<1>3. m = [type |-> m.type, id |-> m.id]
  BY <1>2 DEF ToInvitee
<1>4. m = Message(type, id)
  BY <1>1, <1>3 DEF Message
<1> QED
  BY <1>1, <1>2, <1>4 DEF m

\* What is posted to the invitor by the handler of a message.
LEMMA Handled ==
  ASSUME NetworkTypeOK, NEW id \in Invites, NEW m \in ToInvitor, toInvitee[InvitorOf[id]] # <<>>,
         toInvitee' = Deliver(toInvitee, id), toInvitor' = Post(toInvitor, id, m),
         UNCHANGED <<connected, disconnects>>
  PROVE  /\ NetworkTypeOK' /\ Gained(toInvitee, toInvitee', {}) /\ Gained(toInvitor, toInvitor', {m})
<1>1. toInvitee' \in [Invitors -> Seq(ToInvitee)] /\ Gained(toInvitee, toInvitee', {})
  BY Delivered DEF NetworkTypeOK
<1>2. toInvitor' \in [Invitors -> Seq(ToInvitor)] /\ Gained(toInvitor, toInvitor', {m})
  BY Posted DEF NetworkTypeOK
<1> QED
  BY <1>1, <1>2 DEF NetworkTypeOK

LEMMA InviteeDetails ==
  ASSUME ProtocolInv, NEW id \in Invites, ReceiveDetails(id), UNCHANGED memberApi
  PROVE  ProtocolInv'
<1> DEFINE m == Message("ProjectJoinDetailsAck", id)
<1>1. InviteApiTypeOK /\ NetworkTypeOK /\ JoinsWithConsent /\ OneJoins /\ LocalOK(id)
  BY DEF ProtocolInv, InviteTypeOK
<1>2. /\ UNCHANGED <<choice, response, connected, disconnects>>
      /\ toInvitee' = Deliver(toInvitee, id) /\ toInvitee[InvitorOf[id]] # <<>>
      /\ toInvitor' = Post(toInvitor, id, m) /\ Arrives(toInvitee, id, "ProjectJoinDetails")
  BY DEF ReceiveDetails, Arrives, memberApi
<1>3. response[id] = "ACCEPT" /\ choice[id] = "ACCEPT"
  <2>1. Message("ProjectJoinDetails", id) \in In(toInvitee[InvitorOf[id]])
    BY <1>1, <1>2, HeadIs
  <2> QED
    BY <1>1, <2>1, NetworkAssumption DEF LocalOK, DetailsOK, ResponseOK
<1>4. m \in ToInvitor /\ m.type # "InviteResponse"
  BY MessageTypes DEF Message
<1>5. /\ NetworkTypeOK' /\ Gained(toInvitee, toInvitee', {}) /\ Gained(toInvitor, toInvitor', {m})
  BY <1>1, <1>2, <1>4, Handled
<1>6. \/ UNCHANGED <<state, reply, member>>
      \/ /\ state[id] \notin {"none", "pending"}
         /\ \/ state' = [state EXCEPT ![id] = "error"] /\ UNCHANGED member
            \/ ~member /\ member' = TRUE /\ state' = [state EXCEPT ![id] = "joining.addingProject"]
         /\ reply' = [reply EXCEPT ![id] = "none"] \/ (reply' = reply /\ reply[id] = "starting")
  BY DEF ReceiveDetails, AddProject, Leave
<1>7. InviteApiTypeOK'
  BY <1>1, <1>2, <1>6 DEF InviteApiTypeOK, States, Responding, Joining, Final, SendStates
<1>8. InviteeMove(id)
  BY <1>1, <1>2, <1>6 DEF InviteApiTypeOK, InviteeMove
<1>9. OneJoins' /\ JoinsWithConsent'
  BY <1>1, <1>2, <1>3, <1>6 DEF InviteApiTypeOK, OneJoins, JoinsWithConsent
<1> QED
  BY <1>4, <1>5, <1>7, <1>8, <1>9, InviteeMoves

LEMMA InviteeReplies ==
  ASSUME ProtocolInv, NEW id \in Invites, SendReply(id), UNCHANGED memberApi
  PROVE  ProtocolInv'
<1> DEFINE m == Response(id, choice[id])
<1>1. InviteApiTypeOK /\ NetworkTypeOK /\ JoinsWithConsent /\ OneJoins /\ LocalOK(id)
  BY DEF ProtocolInv, InviteTypeOK
<1>2. UNCHANGED <<choice, member, response, connected, toInvitee, disconnects>> /\ reply[id] = "starting"
  BY DEF SendReply, memberApi
<1>3. choice[id] # Null /\ choice[id] \in Decisions
  BY <1>1, <1>2 DEF LocalOK, AnswerOK, InviteApiTypeOK
<1>4. m \in ToInvitor /\ m.id = id /\ m.decision = choice[id]
  BY <1>3, MessageTypes DEF Response
<1> HIDE DEF m
<1>5. \/ /\ state' = state /\ toInvitor' = Post(toInvitor, id, m)
         /\ \E w \in SendStates :
              reply' = [reply EXCEPT ![id] = w] /\ (w \in Written => state[id] \in Responding)
      \/ /\ state' = state \/ (state' = [state EXCEPT ![id] = "error"] /\ state[id] # "none")
         /\ toInvitor' = toInvitor /\ reply' = [reply EXCEPT ![id] = "none"]
  BY DEF SendReply, m, Written, SendStates, Responding
<1>6. toInvitor' \in [Invitors -> Seq(ToInvitor)] /\ Gained(toInvitor, toInvitor', {m})
  <2>1. CASE toInvitor' = toInvitor
    BY <1>1, <2>1 DEF NetworkTypeOK, Gained
  <2>2. CASE toInvitor' = Post(toInvitor, id, m)
    BY <1>1, <1>4, <2>2, Posted DEF NetworkTypeOK
  <2> QED
    BY <1>5, <2>1, <2>2
<1>7. NetworkTypeOK'
  BY <1>1, <1>2, <1>6 DEF NetworkTypeOK
<1>8. InviteApiTypeOK'
  BY <1>1, <1>2, <1>5 DEF InviteApiTypeOK, States, Responding, Joining, Final, SendStates, Written
<1>9. InviteeMove(id)
  BY <1>1, <1>2, <1>5 DEF InviteApiTypeOK, InviteeMove
<1>10. OneJoins' /\ JoinsWithConsent'
  BY <1>1, <1>2, <1>5 DEF InviteApiTypeOK, OneJoins, JoinsWithConsent
<1>11. Gained(toInvitee, toInvitee', {})
  BY <1>2, GainedNothing
<1> QED
  BY <1>3, <1>4, <1>6, <1>7, <1>8, <1>9, <1>10, <1>11, InviteeMoves

LEMMA InviteeInvited ==
  ASSUME ProtocolInv, NEW id \in Invites, ReceiveInvite(id), UNCHANGED memberApi
  PROVE  ProtocolInv'
<1> DEFINE m == Message("InviteAck", id)
           i == InvitorOf[id]
           invite == Message("Invite", id)
<1>1. /\ InviteApiTypeOK /\ NetworkTypeOK /\ JoinsWithConsent /\ OneJoins
      /\ \A x \in Invites : LocalOK(x)
  BY DEF ProtocolInv, InviteTypeOK
<1>2. /\ UNCHANGED <<member, phase, response, connected, disconnects>>
      /\ toInvitee' = Deliver(toInvitee, id) /\ toInvitee[i] # <<>>
      /\ toInvitor' = Post(toInvitor, id, m)
      /\ Head(toInvitee[i]) = invite /\ invite \in In(toInvitee[i]) /\ i \in Invitors
  BY <1>1, HeadIs, NetworkAssumption DEF ReceiveInvite, memberApi
<1>3. Untold(id) /\ phase[id] \notin {"idle", "preparing"} /\ Once(toInvitee[i], invite)
  BY <1>1, <1>2 DEF LocalOK, InviteOK
<1>4. m \in ToInvitor /\ m.type # "InviteResponse"
  BY MessageTypes DEF Message
<1>5. /\ NetworkTypeOK' /\ Gained(toInvitee, toInvitee', {}) /\ Gained(toInvitor, toInvitor', {m})
  BY <1>1, <1>2, <1>4, Handled
<1>6. /\ toInvitee'[i] = Tail(toInvitee[i]) /\ toInvitee[i] \in Seq(ToInvitee)
  BY <1>1, <1>2 DEF NetworkTypeOK, Deliver
<1>7. invite \notin In(toInvitee'[i]) /\ Once(toInvitee'[i], invite) /\ In(toInvitee'[i]) \subseteq In(toInvitee[i])
  BY <1>2, <1>3, <1>6, QueueTail
<1>8. \/ /\ member /\ state' = state
         /\ reply' = [reply EXCEPT ![id] = "starting"] /\ choice' = [choice EXCEPT ![id] = "ALREADY"]
      \/ ~member /\ state' = [state EXCEPT ![id] = "pending"] /\ UNCHANGED <<reply, choice>>
  BY DEF ReceiveInvite
<1>9. InviteApiTypeOK'
  BY <1>1, <1>2, <1>3, <1>8
  DEF InviteApiTypeOK, States, Responding, Joining, Final, SendStates, Decisions, Untold
<1>10. ASSUME NEW x \in Invites \ {id} PROVE LocalOK(x)'
  <2>1. state'[x] = state[x] /\ reply'[x] = reply[x] /\ choice'[x] = choice[x]
    BY <1>1, <1>8 DEF InviteApiTypeOK
  <2> QED
    BY <1>1, <1>2, <1>4, <1>5, <2>1, Frame
<1>11. LocalOK(id)'
  <2>1. InviteOK(id)'
    BY <1>2, <1>3, <1>7 DEF InviteOK
  <2>2. AnswerOK(id)'
    BY <1>1, <1>3, <1>8, NetworkAssumption DEF InviteApiTypeOK, Untold, AnswerOK
  <2>3. \A k \in In(toInvitor'[i]) : k.type = "InviteResponse" /\ k.id = id => FALSE
    BY <1>1, <1>2, <1>3, <1>4, <1>5 DEF Gained, LocalOK, ResponseOK, Untold
  <2>4. response'[id] = Null
    BY <1>1, <1>2, <1>3 DEF LocalOK, ResponseOK, Untold
  <2>5. ResponseOK(id)'
    BY <2>3, <2>4 DEF ResponseOK
  <2>6. DetailsOK(id)'
    BY <1>1, <1>2, <1>7 DEF LocalOK, DetailsOK
  <2> QED
    BY <2>1, <2>2, <2>5, <2>6 DEF LocalOK
<1>12. \A x \in Invites : choice[x] # Null => choice'[x] = choice[x]
  BY <1>1, <1>3, <1>8 DEF InviteApiTypeOK, Untold
<1>13. OneJoins' /\ JoinsWithConsent'
  BY <1>1, <1>2, <1>3, <1>8 DEF InviteApiTypeOK, OneJoins, JoinsWithConsent, Untold
<1> QED
  BY <1>5, <1>9, <1>10, <1>11, <1>12, <1>13, InviteeKeeps

\* The user answers: all the pending invites of ids.
LEMMA InviteeAnswers ==
  ASSUME ProtocolInv, NEW ids \in SUBSET Invites, \A x \in ids : state[x] = "pending",
         NEW decision \in [Invites -> Decisions], Answer(ids, decision),
         UNCHANGED <<member, network, memberApi>>
  PROVE  ProtocolInv'
<1>1. /\ InviteApiTypeOK /\ NetworkTypeOK /\ JoinsWithConsent /\ OneJoins
      /\ \A x \in Invites : LocalOK(x)
  BY DEF ProtocolInv, InviteTypeOK
<1>2. UNCHANGED <<member, phase, response, connected, toInvitee, toInvitor, disconnects>>
  BY DEF network, memberApi
<1>3. \A d \in Decisions : StateOf(d) \in Responding
  BY DEF Decisions, StateOf, Responding
<1>4. /\ \A x \in ids : /\ state'[x] \in Responding /\ reply'[x] = "starting"
                       /\ choice'[x] \in Decisions /\ choice[x] = Null
      /\ \A x \in Invites \ ids :
           state'[x] = state[x] /\ reply'[x] = reply[x] /\ choice'[x] = choice[x]
  BY <1>1, <1>3 DEF Answer, LocalOK, AnswerOK
<1>5. InviteApiTypeOK'
  <2>1. state' \in [Invites -> States]
    BY <1>1, <1>3 DEF Answer, InviteApiTypeOK, States
  <2>2. reply' \in [Invites -> SendStates \cup {"starting"}]
    BY <1>1 DEF Answer, InviteApiTypeOK
  <2>3. choice' \in [Invites -> Decisions \cup {Null}]
    BY <1>1 DEF Answer, InviteApiTypeOK
  <2>4. \A x \in Invites : reply'[x] \in {"draining", "awaitingAck"} => state'[x] \in Responding
    BY <1>1, <1>4 DEF InviteApiTypeOK
  <2> QED
    BY <1>1, <1>2, <2>1, <2>2, <2>3, <2>4 DEF InviteApiTypeOK
<1>6. Gained(toInvitee, toInvitee', {}) /\ Gained(toInvitor, toInvitor', {})
  BY <1>2, GainedNothing
<1>7. ASSUME NEW x \in Invites PROVE LocalOK(x)'
  <2>1. CASE x \notin ids
    BY <1>1, <1>2, <1>4, <1>6, <2>1, Frame
  <2>2. CASE x \in ids
    <3>1. state[x] # "none" /\ choice[x] = Null /\ choice'[x] # Null /\ state'[x] # "pending"
      BY <1>4, <2>2, NetworkAssumption DEF Decisions, Responding
    <3>2. InviteOK(x)'
      BY <1>1, <1>2, <3>1 DEF LocalOK, InviteOK, Untold
    <3>3. AnswerOK(x)'
      BY <3>1 DEF AnswerOK
    <3>4. ResponseOK(x)'
      BY <1>1, <1>2, <3>1 DEF LocalOK, ResponseOK
    <3>5. DetailsOK(x)'
      BY <1>1, <1>2 DEF LocalOK, DetailsOK
    <3> QED
      BY <3>2, <3>3, <3>4, <3>5 DEF LocalOK
  <2> QED
    BY <2>1, <2>2
<1>8. \A x \in Invites :
        state'[x] \in {"joining.addingProject", "joined"} => x \notin ids /\ state'[x] = state[x]
  BY <1>4 DEF Responding
<1>9. OneJoins'
  BY <1>1, <1>8 DEF OneJoins
<1>10. JoinsWithConsent'
  BY <1>1, <1>2, <1>4, <1>8 DEF JoinsWithConsent
<1>11. NetworkTypeOK'
  BY <1>1, <1>2 DEF NetworkTypeOK
<1>12. \A x \in Invites : choice[x] # Null => choice'[x] = choice[x]
  BY <1>4
<1>13. UNCHANGED memberApi
  OBVIOUS
<1> QED
  BY <1>5, <1>7, <1>9, <1>10, <1>11, <1>12, <1>13, InviteeKeeps

LEMMA InviteeStepOK ==
  ASSUME ProtocolInv, NEW id \in Invites, InviteeStep(id)
  PROVE  ProtocolInv'
<1>1. CASE Accept(id)
  <2> DEFINE ids == {x \in Invites : state[x] = "pending"}
             decision == [x \in Invites |-> IF x = id /\ ~ IsJoiningProject /\ ~ member
                                           THEN "ACCEPT" ELSE "ALREADY"]
  <2>1. ids \in SUBSET Invites /\ \A x \in ids : state[x] = "pending"
    OBVIOUS
  <2>2. decision \in [Invites -> Decisions]
    BY DEF Decisions
  <2>3. Answer(ids, decision) /\ UNCHANGED <<member, network, memberApi>>
    BY <1>1 DEF Accept, InviteeStep
  <2> HIDE DEF ids, decision
  <2> QED
    BY <2>1, <2>2, <2>3, InviteeAnswers
<1>2. CASE Reject(id)
  <2> DEFINE decision == [x \in Invites |-> "REJECT"]
  <2>1. decision \in [Invites -> Decisions]
    BY DEF Decisions
  <2>2. Answer({id}, decision) /\ UNCHANGED <<member, network, memberApi>> /\ state[id] = "pending"
    BY <1>2 DEF Reject, InviteeStep
  <2> HIDE DEF decision
  <2> QED
    BY <2>1, <2>2, InviteeAnswers
<1> QED
  BY <1>1, <1>2, InviteeInvited, InviteeReplies, InviteeHears, InviteeDetails, InviteeLocal DEF InviteeStep

----------------------------------------------------------------------------
(* Connections *)

LEMMA Disconnected ==
  ASSUME ProtocolInv, NEW i \in Invitors, Disconnect(i)
  PROVE  ProtocolInv'
<1>1. /\ InviteApiTypeOK /\ NetworkTypeOK /\ MemberApiTypeOK
      /\ JoinsWithConsent /\ OneJoins /\ DecisionsAgree /\ \A x \in Invites : LocalOK(x)
  BY DEF ProtocolInv, InviteTypeOK
<1>2. /\ UNCHANGED <<member, choice, response, aborted, granted>>
      /\ toInvitee' = [toInvitee EXCEPT ![i] = <<>>] /\ toInvitor' = [toInvitor EXCEPT ![i] = <<>>]
  BY DEF Disconnect, ConnectionCloses, InvitorDisconnected, InviteeDisconnected
<1>3. /\ \A x \in Invites : \/ phase'[x] = phase[x]
                            \/ phase'[x] = "failed"
      /\ \A x \in Invites : \/ send'[x] = send[x] /\ phase'[x] = phase[x]
                            \/ send'[x] = "none"
      /\ phase' \in [Invites -> Phases] /\ send' \in [Invites -> SendStates]
      /\ outbound' \in [Invitors -> Invites \cup {Null}]
  BY <1>1
  DEF Disconnect, InvitorDisconnected, MemberApiTypeOK, Phases, SendStates, Ended, Cancelable
<1>4. /\ \A x \in Invites : \/ state'[x] = state[x] /\ reply'[x] = reply[x]
                            \/ /\ state'[x] = "error" /\ reply'[x] = "none"
                               /\ state[x] \in Responding
      /\ state' \in [Invites -> States] /\ reply' \in [Invites -> SendStates \cup {"starting"}]
  BY <1>1 DEF Disconnect, InviteeDisconnected, InviteApiTypeOK, States, Final, SendStates
<1>5. MemberApiTypeOK'
  BY <1>1, <1>2, <1>3 DEF MemberApiTypeOK
<1>6. InviteApiTypeOK'
  BY <1>1, <1>2, <1>4 DEF InviteApiTypeOK
<1>7. NetworkTypeOK'
  <2>1. toInvitee' \in [Invitors -> Seq(ToInvitee)] /\ toInvitor' \in [Invitors -> Seq(ToInvitor)]
    BY <1>1, <1>2 DEF NetworkTypeOK
  <2>2. connected' \in [Invitors -> BOOLEAN] /\ disconnects' \in 0 .. MaxDisconnects
    BY <1>1, NetworkAssumption DEF NetworkTypeOK, Disconnect, ConnectionCloses
  <2> QED
    BY <2>1, <2>2 DEF NetworkTypeOK
<1>8. Gained(toInvitee, toInvitee', {}) /\ Gained(toInvitor, toInvitor', {})
  BY <1>1, <1>2 DEF NetworkTypeOK, Gained, In, Once
<1>9. ASSUME NEW x \in Invites PROVE LocalOK(x)'
  <2>1. phase'[x] \in {"idle", "preparing"} => phase[x] \in {"idle", "preparing"}
    BY <1>3
  <2>2. /\ state'[x] = state[x] \/ (state[x] # "none" /\ state'[x] \notin {"none", "pending"})
        /\ reply'[x] # "none" => reply[x] # "none"
    BY <1>4 DEF Responding
  <2>3. LocalOK(x) /\ choice'[x] = choice[x] /\ response'[x] = response[x]
    BY <1>1, <1>2
  <2> QED
    BY <1>8, <2>1, <2>2, <2>3, Frame
<1>10. DecisionsAgree'
  BY <1>1, <1>2, <1>3 DEF DecisionsAgree
<1>11. OneJoins' /\ JoinsWithConsent'
  BY <1>1, <1>2, <1>4 DEF OneJoins, JoinsWithConsent
<1> QED
  BY <1>5, <1>6, <1>7, <1>9, <1>10, <1>11 DEF ProtocolInv, InviteTypeOK

LEMMA ProtocolInit == InviteInit => ProtocolInv
<1> SUFFICES ASSUME InviteInit PROVE ProtocolInv
  OBVIOUS
<1>1. InviteTypeOK
  <2>1. NetworkTypeOK
    BY NetworkAssumption DEF InviteInit, NetworkInit, NetworkTypeOK
  <2>2. MemberApiTypeOK
    BY DEF InviteInit, MemberApiInit, MemberApiTypeOK, SendStates, Phases
  <2>3. InviteApiTypeOK
    BY DEF InviteInit, InviteApiInit, InviteApiTypeOK, SendStates, States
  <2> QED
    BY <2>1, <2>2, <2>3 DEF InviteTypeOK
<1>2. ASSUME NEW id \in Invites PROVE LocalOK(id)
  <2>1. toInvitee[InvitorOf[id]] = <<>> /\ toInvitor[InvitorOf[id]] = <<>>
    BY NetworkAssumption DEF InviteInit, NetworkInit
  <2>2. In(<<>>) = {} /\ \A m : Once(<<>>, m)
    BY DEF In, Once
  <2>3. phase[id] = "idle" /\ response[id] = Null /\ Untold(id)
    BY DEF InviteInit, MemberApiInit, InviteApiInit, Untold
  <2>4. state[id] = "none" /\ reply[id] = "none"
    BY <2>3 DEF Untold
  <2> QED
    BY <2>1, <2>2, <2>3, <2>4 DEF LocalOK, InviteOK, AnswerOK, ResponseOK, DetailsOK
<1>3. DecisionsAgree /\ JoinsWithConsent /\ OneJoins
  BY DEF InviteInit, MemberApiInit, InviteApiInit, DecisionsAgree, JoinsWithConsent, OneJoins
<1> QED
  BY <1>1, <1>2, <1>3 DEF ProtocolInv

LEMMA ProtocolStep == ProtocolInv /\ [InviteNext]_inviteVars => ProtocolInv'
<1> SUFFICES ASSUME ProtocolInv, [InviteNext]_inviteVars PROVE ProtocolInv'
  OBVIOUS
<1>1. ASSUME UNCHANGED <<memberApi, inviteApi, toInvitee, toInvitor, disconnects>>, NetworkTypeOK'
      PROVE  ProtocolInv'
  <2>1. UNCHANGED <<phase, send, response, aborted, outbound, granted, state, reply, member, choice>>
    BY <1>1 DEF memberApi, inviteApi
  <2>2. MemberApiTypeOK' /\ InviteApiTypeOK'
    BY <2>1 DEF ProtocolInv, InviteTypeOK, MemberApiTypeOK, InviteApiTypeOK
  <2>3. \A id \in Invites : LocalOK(id)'
    BY <1>1, <2>1 DEF ProtocolInv, LocalOK, InviteOK, AnswerOK, ResponseOK, DetailsOK, Untold
  <2>4. DecisionsAgree' /\ JoinsWithConsent' /\ OneJoins'
    BY <2>1 DEF ProtocolInv, DecisionsAgree, JoinsWithConsent, OneJoins
  <2> QED
    BY <1>1, <2>2, <2>3, <2>4 DEF ProtocolInv, InviteTypeOK
<1>2. CASE UNCHANGED inviteVars
  BY <1>1, <1>2 DEF inviteVars, network, ProtocolInv, InviteTypeOK, NetworkTypeOK
<1>3. ASSUME NEW i \in Invitors, ConnectionOpens(i), UNCHANGED <<memberApi, inviteApi>> PROVE ProtocolInv'
  BY <1>1, <1>3 DEF ConnectionOpens, ProtocolInv, InviteTypeOK, NetworkTypeOK
<1> QED
  BY <1>2, <1>3, InvitorStepOK, InviteeStepOK, InvitorCancels, Disconnected DEF InviteNext

LEMMA ProtocolInvariant == InviteSpec => []ProtocolInv
  BY ProtocolInit, ProtocolStep, PTL DEF InviteSpec

\* The machines, messages and answers of both sides are of their kinds.
THEOREM InviteTypes == InviteSpec => []InviteTypeOK
<1>1. ProtocolInv => InviteTypeOK
  BY DEF ProtocolInv
<1> QED
  BY <1>1, ProtocolInvariant, PTL

\* Whatever is lost, late, cancelled or answered twice, what invite() returns, and
\* acts on, is what the user of the invited device chose (MemberApi.invite and the
\* invite state machine).
THEOREM AnswersAgree == InviteSpec => []DecisionsAgree
<1>1. ProtocolInv => DecisionsAgree
  BY DEF ProtocolInv
<1> QED
  BY <1>1, ProtocolInvariant, PTL

\* A device joins a project only after its user accepted and the invitor had the
\* acceptance (the details are sent in answer to it).
THEOREM JoinIsAgreed == InviteSpec => []JoinsWithConsent
<1>1. ProtocolInv => JoinsWithConsent
  BY DEF ProtocolInv
<1> QED
  BY <1>1, ProtocolInvariant, PTL

\* Of several invites to one project, accepted one after another or at the same
\* time, at most one is joined (accept of InviteApi and its guards).
THEOREM OneInviteJoins == InviteSpec => []OneJoins
<1>1. ProtocolInv => OneJoins
  BY DEF ProtocolInv
<1> QED
  BY <1>1, ProtocolInvariant, PTL
=============================================================================
