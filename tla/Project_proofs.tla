--------------------------- MODULE Project_proofs ----------------------------
(***************************************************************************)
(* What a project keeps: its cores while members come and go               *)
(* (ProjectCores, the first half), and itself while it is created, opened, *)
(* left and cleared (ProjectLifecycle, the second half).                   *)
(*                                                                         *)
(* That the cores of members are added and no auth core is forgotten holds *)
(* for any devices, links and numbers of connections, restarts and         *)
(* clearings. MembersAdded and OnlyMembersAdded rest on what a handler has *)
(* read (TasksRead) and on what the table holds (SavedMembers);            *)
(* NothingForgotten on the table holding what cannot be derived            *)
(* (AllSaved); AuthCoresExchanged holds of either end alone (Told).        *)
(***************************************************************************)
EXTENDS ProjectCores, ProjectLifecycle, FiniteSetTheorems, TLAPS

\* What a restart would not find again was cleared.
AllSaved ==
  \A d \in Devices : \A c \in cores[d] :
    c \in Reopened(d) \/ (c[2] = "data" /\ clears[d] > 0)

SavedMembers ==
  \A d \in Devices : \A e \in Devices \ {d} :
    <<e, "data">> \in saved[d] => e \in ownerships[d] /\ HasRole(d, e)

TasksRead ==
  \A d \in Devices : \A t \in tasks[d] : t.step = "role" => t.doc \in ownerships[d]

OwnKnown == \A d \in Devices : <<d, "auth">> \in cores[d]

\* A peer of d has the auth core of d, or will be told.
Told ==
  \A d \in Devices, e \in Devices :
    <<d, e>> \in up => <<d, "auth">> \in cores[e] \/ d \in messages[<<d, e>>]

IInv ==
  /\ TypeOK /\ AllSaved /\ SavedMembers /\ TasksRead /\ OwnKnown /\ Told
  /\ MembersAdded /\ OnlyMembersAdded

----------------------------------------------------------------------------
LEMMA InitIInv == Init => IInv
<1> SUFFICES ASSUME Init PROVE IInv
  OBVIOUS
<1> USE ProjectCoresAssumption
<1>1. \A d \in Devices : Derived(d) \subseteq Cores /\ MetCores(d) \subseteq Cores
  BY DEF Derived, MetCores, Cores
<1>2. TypeOK
  BY <1>1 DEF Init, TypeOK
<1>3. AllSaved /\ OwnKnown
  BY DEF Init, AllSaved, OwnKnown, Reopened, Derived
<1>4. \A d \in Devices : \A e \in Devices \ {d} :
        <<e, "data">> \notin Derived(d) /\ <<e, "data">> \notin MetCores(d)
  BY DEF Derived, MetCores
<1>5. SavedMembers /\ OnlyMembersAdded
  BY <1>4 DEF Init, SavedMembers, OnlyMembersAdded
<1>6. TasksRead /\ Told /\ MembersAdded
  BY DEF Init, TasksRead, Told, MembersAdded
<1> QED
  BY <1>2, <1>3, <1>5, <1>6 DEF IInv

----------------------------------------------------------------------------
(* Type correctness *)

LEMMA TypeStep ==
  ASSUME TypeOK, [Next]_vars
  PROVE  TypeOK'
<1> USE ProjectCoresAssumption DEF TypeOK
<1>1. ASSUME NEW d \in Devices, Restart(d) PROVE TypeOK'
  <2>1. Reopened(d) \subseteq Cores
    BY DEF Reopened, Derived, Cores
  <2>2. up' \subseteq Devices \X Devices /\ messages' \in [Devices \X Devices -> SUBSET Devices]
    BY <1>1 DEF Restart, Disconnected
  <2>3. cores' \in [Devices -> SUBSET Cores] /\ tasks' \in [Devices -> SUBSET Task]
    BY <1>1, <2>1 DEF Restart
  <2>4. scanning' \in [Devices -> BOOLEAN] /\ restarts' \in [Devices -> Nat]
    BY <1>1 DEF Restart
  <2>5. UNCHANGED <<saved, ownerships, roles, conns, clears>>
    BY <1>1 DEF Restart, docVars
  <2> QED
    BY <2>2, <2>3, <2>4, <2>5
<1>2. ASSUME NEW d \in Devices, DeleteOthersData(d) PROVE TypeOK'
  BY <1>2 DEF DeleteOthersData, docVars, linkVars
<1>3. ASSUME NEW d \in Devices, WriteOwnership(d) PROVE TypeOK'
  BY <1>3 DEF WriteOwnership, linkVars
<1>4. \A d \in Devices, e \in Devices : Started(d, e) \subseteq Task
  BY DEF Started, Task
<1>5. ASSUME NEW e \in Devices, AssignRole(e) PROVE TypeOK'
  BY <1>4, <1>5 DEF AssignRole, linkVars
<1>6. ASSUME NEW d \in Devices, Scan(d) PROVE TypeOK'
  BY <1>6 DEF Scan, Task, docVars, linkVars
<1>7. ASSUME NEW d \in Devices, NEW e \in Devices, PeerAdd(d, e) PROVE TypeOK'
  BY <1>7 DEF PeerAdd, AuthCores, docVars
<1>8. ASSUME NEW d \in Devices, NEW e \in Devices, Disconnect(d, e) PROVE TypeOK'
  <2>1. up' \subseteq Devices \X Devices /\ messages' \in [Devices \X Devices -> SUBSET Devices]
    BY <1>8 DEF Disconnect, Disconnected
  <2> QED
    BY <1>8, <2>1 DEF Disconnect, docVars
<1>9. ASSUME NEW d \in Devices, NEW e \in Devices, HandleProjectMessage(d, e) PROVE TypeOK'
  <2>1. {<<x, "auth">> : x \in messages[<<e, d>>]} \subseteq Cores
    BY DEF Cores
  <2> QED
    BY <1>9, <2>1 DEF HandleProjectMessage, AddCores, docVars
<1>10. ASSUME NEW d \in Devices, NEW e \in Devices, IndexOwnership(d, e) PROVE TypeOK'
  BY <1>4, <1>10 DEF IndexOwnership, linkVars
<1>11. ASSUME NEW d \in Devices, NEW e \in Devices, IndexRole(d, e) PROVE TypeOK'
  BY <1>4, <1>11 DEF IndexRole, linkVars
<1>12. ASSUME NEW d \in Devices, NEW e \in Devices, ReadOwnership(d, e) PROVE TypeOK'
  BY <1>12 DEF ReadOwnership, Task, docVars, linkVars
<1>13. ASSUME NEW d \in Devices, NEW e \in Devices, ReadRole(d, e) PROVE TypeOK'
  <2>1. cores' \in [Devices -> SUBSET Cores] /\ saved' \in [Devices -> SUBSET Cores]
    <3>1. <<e, "data">> \in Cores
      BY DEF Cores
    <3>2. CASE HasRole(d, e)
      <4>1. /\ cores' = [cores EXCEPT ![d] = @ \cup {<<e, "data">>}]
            /\ saved' = [saved EXCEPT ![d] = @ \cup ({<<e, "data">>} \ cores[d])]
        BY <1>13, <3>2 DEF ReadRole, AddCores
      <4> QED
        BY <3>1, <4>1
    <3>3. CASE ~ HasRole(d, e)
      BY <1>13, <3>3 DEF ReadRole
    <3> QED
      BY <3>2, <3>3
  <2>2. tasks' \in [Devices -> SUBSET Task]
    BY <1>13 DEF ReadRole
  <2>3. UNCHANGED <<ownerships, roles, scanning, up, messages, conns, restarts, clears>>
    BY <1>13 DEF ReadRole, docVars, linkVars
  <2> QED
    BY <2>1, <2>2, <2>3
<1>14. ASSUME UNCHANGED vars PROVE TypeOK'
  BY <1>14 DEF vars
<1> QED
  BY <1>1, <1>2, <1>3, <1>5, <1>6, <1>7, <1>8, <1>9, <1>10, <1>11, <1>12, <1>13, <1>14 DEF Next

----------------------------------------------------------------------------
(* What is known, and what is saved *)

\* The steps that change what a device knows or has saved, and how.
LEMMA CoresStep ==
  ASSUME TypeOK, [Next]_vars, NEW d \in Devices
  PROVE  \/ /\ UNCHANGED <<cores[d], clears[d]>>
            /\ saved'[d] = saved[d]
         \/ /\ cores'[d] = Reopened(d) /\ UNCHANGED <<saved[d], clears[d]>>
            /\ \A e \in Devices : <<d, e>> \notin up' /\ <<e, d>> \notin up'
         \/ /\ UNCHANGED cores[d]
            /\ clears'[d] = clears[d] + 1
            /\ saved'[d] = {c \in saved[d] : c[2] = "auth"}
         \/ \E new :
              /\ cores'[d] = cores[d] \cup new
              /\ saved'[d] = saved[d] \cup (new \ cores[d])
              /\ UNCHANGED <<clears[d], ownerships, roles>>
              /\ \/ new \subseteq {<<x, "auth">> : x \in Devices}
                 \/ \E e \in Devices :
                      /\ new = {<<e, "data">>} /\ HasRole(d, e)
                      /\ [doc |-> e, step |-> "role"] \in tasks[d]
<1> USE DEF TypeOK
<1>1. ASSUME NEW x \in Devices, Restart(x) PROVE
        /\ x # d => UNCHANGED <<cores[d], clears[d]>> /\ saved'[d] = saved[d]
        /\ x = d => /\ cores'[d] = Reopened(d) /\ UNCHANGED <<saved[d], clears[d]>>
                    /\ \A e \in Devices : <<d, e>> \notin up' /\ <<e, d>> \notin up'
  <2>1. x = d => \A e \in Devices : <<d, e>> \notin up' /\ <<e, d>> \notin up'
    BY <1>1 DEF Restart, Disconnected
  <2> QED
    BY <1>1, <2>1 DEF Restart
<1>2. ASSUME NEW x \in Devices, DeleteOthersData(x) PROVE
        /\ x # d => UNCHANGED <<cores[d], clears[d]>> /\ saved'[d] = saved[d]
        /\ x = d => /\ UNCHANGED cores[d] /\ clears'[d] = clears[d] + 1
                    /\ saved'[d] = {c \in saved[d] : c[2] = "auth"}
  BY <1>2 DEF DeleteOthersData
<1>3. ASSUME NEW x \in Devices, NEW e \in Devices, HandleProjectMessage(x, e) PROVE
        /\ x # d => UNCHANGED <<cores[d], clears[d]>> /\ saved'[d] = saved[d]
        /\ x = d => \E new :
              /\ cores'[d] = cores[d] \cup new
              /\ saved'[d] = saved[d] \cup (new \ cores[d])
              /\ UNCHANGED <<clears[d], ownerships, roles>>
              /\ new \subseteq {<<y, "auth">> : y \in Devices}
  <2> DEFINE new == {<<y, "auth">> : y \in messages[<<e, x>>]}
  <2>1. messages[<<e, x>>] \subseteq Devices
    OBVIOUS
  <2>2. new \subseteq {<<y, "auth">> : y \in Devices}
    BY <2>1
  <2>3. /\ cores' = [cores EXCEPT ![x] = @ \cup new]
        /\ saved' = [saved EXCEPT ![x] = @ \cup (new \ cores[x])]
        /\ UNCHANGED <<clears, ownerships, roles>>
    BY <1>3 DEF HandleProjectMessage, AddCores, docVars
  <2> QED
    BY <2>2, <2>3
<1>4. ASSUME NEW x \in Devices, NEW e \in Devices, ReadRole(x, e) PROVE
        \/ UNCHANGED <<cores[d], clears[d]>> /\ saved'[d] = saved[d]
        \/ /\ cores'[d] = cores[d] \cup {<<e, "data">>}
           /\ saved'[d] = saved[d] \cup ({<<e, "data">>} \ cores[d])
           /\ UNCHANGED <<clears[d], ownerships, roles>>
           /\ HasRole(d, e) /\ [doc |-> e, step |-> "role"] \in tasks[d]
  <2>1. CASE HasRole(x, e)
    BY <1>4, <2>1 DEF ReadRole, AddCores, docVars
  <2>2. CASE ~ HasRole(x, e)
    BY <1>4, <2>2 DEF ReadRole, docVars
  <2> QED
    BY <2>1, <2>2
<1>5. ASSUME NEW x \in Devices, WriteOwnership(x) \/ AssignRole(x) \/ Scan(x)
      PROVE  UNCHANGED <<cores[d], clears[d]>> /\ saved'[d] = saved[d]
  BY <1>5 DEF WriteOwnership, AssignRole, Scan
<1>6. ASSUME NEW x \in Devices, NEW e \in Devices,
             \/ PeerAdd(x, e) \/ Disconnect(x, e) \/ IndexOwnership(x, e) \/ IndexRole(x, e)
             \/ ReadOwnership(x, e)
      PROVE  UNCHANGED <<cores[d], clears[d]>> /\ saved'[d] = saved[d]
  BY <1>6 DEF PeerAdd, Disconnect, IndexOwnership, IndexRole, ReadOwnership
<1>7. ASSUME UNCHANGED vars PROVE UNCHANGED <<cores[d], clears[d]>> /\ saved'[d] = saved[d]
  BY <1>7 DEF vars
<1>8. CASE \E x \in Devices : Restart(x) \/ DeleteOthersData(x)
  BY <1>1, <1>2, <1>8
<1>9. CASE \E x \in Devices, e \in Devices : HandleProjectMessage(x, e)
  BY <1>3, <1>9
<1>10. CASE \E x \in Devices, e \in Devices : ReadRole(x, e)
  BY <1>4, <1>10
<1> QED
  BY <1>5, <1>6, <1>7, <1>8, <1>9, <1>10 DEF Next

\* Documents are kept.
LEMMA DocsStep ==
  ASSUME TypeOK, [Next]_vars, NEW d \in Devices
  PROVE  ownerships[d] \subseteq ownerships'[d] /\ roles[d] \subseteq roles'[d]
<1> USE DEF TypeOK
<1>1. ASSUME NEW x \in Devices, Restart(x) \/ DeleteOthersData(x) \/ WriteOwnership(x) \/ Scan(x)
      PROVE  ownerships[d] \subseteq ownerships'[d] /\ roles[d] \subseteq roles'[d]
  BY <1>1 DEF Restart, DeleteOthersData, WriteOwnership, Scan, docVars
<1>2. ASSUME NEW x \in Devices, AssignRole(x)
      PROVE  ownerships[d] \subseteq ownerships'[d] /\ roles[d] \subseteq roles'[d]
  <2>1. UNCHANGED ownerships /\ roles' = [roles EXCEPT ![Inviter[x]] = @ \cup {x}]
    BY <1>2 DEF AssignRole
  <2>2. Inviter[x] \in Devices
    BY ProjectCoresAssumption
  <2> QED
    BY <2>1, <2>2
<1>3. ASSUME NEW x \in Devices, NEW e \in Devices,
             \/ PeerAdd(x, e) \/ Disconnect(x, e) \/ HandleProjectMessage(x, e)
             \/ IndexOwnership(x, e) \/ IndexRole(x, e) \/ ReadOwnership(x, e) \/ ReadRole(x, e)
      PROVE  ownerships[d] \subseteq ownerships'[d] /\ roles[d] \subseteq roles'[d]
  BY <1>3 DEF PeerAdd, Disconnect, HandleProjectMessage, IndexOwnership, IndexRole,
              ReadOwnership, ReadRole, docVars
<1>4. CASE UNCHANGED vars
  BY <1>4 DEF vars
<1> QED
  BY <1>1, <1>2, <1>3, <1>4 DEF Next

LEMMA AllSavedStep ==
  ASSUME IInv, [Next]_vars
  PROVE  AllSaved'
<1> SUFFICES ASSUME NEW d \in Devices, NEW c \in cores'[d]
             PROVE  c \in Derived(d) \cup saved'[d] \/ (c[2] = "data" /\ clears'[d] > 0)
  BY DEF AllSaved, Reopened, Derived
<1> USE DEF IInv, AllSaved, Reopened
<1>1. clears[d] \in Nat /\ \A x \in cores[d] : x[2] \in {"auth", "data"}
  BY DEF TypeOK, Cores
<1>2. CASE UNCHANGED <<cores[d], clears[d]>> /\ saved'[d] = saved[d]
  BY <1>2
<1>3. CASE cores'[d] = Reopened(d) /\ UNCHANGED <<saved[d], clears[d]>>
  BY <1>3
<1>4. CASE UNCHANGED cores[d] /\ clears'[d] = clears[d] + 1
           /\ saved'[d] = {x \in saved[d] : x[2] = "auth"}
  BY <1>1, <1>4
<1>5. CASE \E new : /\ cores'[d] = cores[d] \cup new
                    /\ saved'[d] = saved[d] \cup (new \ cores[d])
                    /\ UNCHANGED clears[d]
  BY <1>5
<1> QED
  BY <1>2, <1>3, <1>4, <1>5, CoresStep

\* The data cores that are known or saved are those of members.
LEMMA MembersStep ==
  ASSUME IInv, [Next]_vars
  PROVE  SavedMembers' /\ OnlyMembersAdded'
<1> SUFFICES ASSUME NEW d \in Devices, NEW e \in Devices \ {d},
                    <<e, "data">> \in cores'[d] \cup saved'[d]
             PROVE  e \in ownerships'[d] /\ HasRole(d, e)'
  BY DEF SavedMembers, OnlyMembersAdded
<1>1. SUFFICES e \in ownerships[d] /\ HasRole(d, e)
  BY <1>1, DocsStep DEF HasRole, IInv
<1> USE DEF IInv, SavedMembers, OnlyMembersAdded
<1>2. <<e, "data">> \in cores[d] \cup saved[d] => e \in ownerships[d] /\ HasRole(d, e)
  OBVIOUS
<1>3. <<e, "data">> \in Reopened(d) => <<e, "data">> \in saved[d]
  BY DEF Reopened, Derived
<1>4. ASSUME NEW new, <<e, "data">> \in new,
             \/ new \subseteq {<<x, "auth">> : x \in Devices}
             \/ \E x \in Devices : /\ new = {<<x, "data">>} /\ HasRole(d, x)
                                   /\ [doc |-> x, step |-> "role"] \in tasks[d]
      PROVE  e \in ownerships[d] /\ HasRole(d, e)
  <2>1. PICK x \in Devices : /\ new = {<<x, "data">>} /\ HasRole(d, x)
                             /\ [doc |-> x, step |-> "role"] \in tasks[d]
    BY <1>4
  <2>2. x = e
    BY <1>4, <2>1
  <2> QED
    BY <2>1, <2>2 DEF TasksRead
<1> QED
  BY <1>2, <1>3, <1>4, CoresStep

LEMMA OwnKnownStep ==
  ASSUME IInv, [Next]_vars
  PROVE  OwnKnown'
<1> SUFFICES ASSUME NEW d \in Devices PROVE <<d, "auth">> \in cores'[d]
  BY DEF OwnKnown
<1> QED
  BY CoresStep DEF IInv, OwnKnown, Reopened, Derived

\* A handler that reads a role follows one that found the core ownership document.
LEMMA TasksReadStep ==
  ASSUME IInv, [Next]_vars
  PROVE  TasksRead'
<1> SUFFICES ASSUME NEW d \in Devices, NEW t \in tasks'[d], t.step = "role"
             PROVE  t \in tasks[d] \/ t.doc \in ownerships[d]
  BY DocsStep DEF IInv, TasksRead
<1> USE DEF IInv, TypeOK
<1>1. ASSUME NEW x \in Devices, Restart(x) \/ DeleteOthersData(x) \/ WriteOwnership(x)
      PROVE  t \in tasks[d]
  BY <1>1 DEF Restart, DeleteOthersData, WriteOwnership
<1>2. \A x \in Devices, e \in Devices : t \notin Started(x, e)
  BY DEF Started
<1>3. ASSUME NEW x \in Devices, AssignRole(x) PROVE t \in tasks[d]
  BY <1>2, <1>3, ProjectCoresAssumption DEF AssignRole
<1>4. ASSUME NEW x \in Devices, Scan(x) PROVE t \in tasks[d] \/ t.doc \in ownerships[d]
  BY <1>4 DEF Scan
<1>5. ASSUME NEW x \in Devices, NEW e \in Devices,
             PeerAdd(x, e) \/ Disconnect(x, e) \/ HandleProjectMessage(x, e)
      PROVE  t \in tasks[d]
  BY <1>5 DEF PeerAdd, Disconnect, HandleProjectMessage
<1>6. ASSUME NEW x \in Devices, NEW e \in Devices, IndexOwnership(x, e) \/ IndexRole(x, e)
      PROVE  t \in tasks[d]
  BY <1>2, <1>6 DEF IndexOwnership, IndexRole
<1>7. ASSUME NEW x \in Devices, NEW e \in Devices, ReadOwnership(x, e)
      PROVE  t \in tasks[d] \/ t.doc \in ownerships[d]
  BY <1>7 DEF ReadOwnership
<1>8. ASSUME NEW x \in Devices, NEW e \in Devices, ReadRole(x, e) PROVE t \in tasks[d]
  BY <1>8 DEF ReadRole
<1>9. CASE UNCHANGED vars
  BY <1>9 DEF vars
<1> QED
  BY <1>1, <1>3, <1>4, <1>5, <1>6, <1>7, <1>8, <1>9 DEF Next

\* A message is not lost while its connection lasts, and no auth core is forgotten.
LEMMA ToldStep ==
  ASSUME IInv, [Next]_vars
  PROVE  Told'
<1> SUFFICES ASSUME NEW d \in Devices, NEW e \in Devices, <<d, e>> \in up'
             PROVE  <<d, "auth">> \in cores'[e] \/ d \in messages'[<<d, e>>]
  BY DEF Told
<1> USE DEF IInv, TypeOK, Told
<1>1. <<d, "auth">> \in cores[e] => <<d, "auth">> \in cores'[e]
  BY CoresStep
<1>2. CASE \E x \in Devices, f \in Devices : PeerAdd(x, f)
  <2>1. PICK x \in Devices, f \in Devices : PeerAdd(x, f)
    BY <1>2
  <2>2. CASE <<x, f>> = <<d, e>>
    BY <2>1, <2>2 DEF PeerAdd, AuthCores, OwnKnown
  <2>3. CASE <<x, f>> # <<d, e>>
    BY <1>1, <2>1, <2>3 DEF PeerAdd
  <2> QED
    BY <2>2, <2>3
<1>3. CASE \E x \in Devices, f \in Devices : HandleProjectMessage(x, f)
  <2>1. PICK x \in Devices, f \in Devices : HandleProjectMessage(x, f)
    BY <1>3
  <2>2. CASE <<x, f>> = <<e, d>>
    BY <1>1, <2>1, <2>2 DEF HandleProjectMessage, AddCores
  <2>3. CASE <<x, f>> # <<e, d>>
    BY <1>1, <2>1, <2>3 DEF HandleProjectMessage
  <2> QED
    BY <2>2, <2>3
<1>4. ASSUME NEW x \in Devices, Restart(x)
      PROVE  <<d, e>> \in up /\ messages'[<<d, e>>] = messages[<<d, e>>]
  BY <1>4 DEF Restart, Disconnected
<1>5. ASSUME NEW x \in Devices, NEW f \in Devices, Disconnect(x, f)
      PROVE  <<d, e>> \in up /\ messages'[<<d, e>>] = messages[<<d, e>>]
  BY <1>5 DEF Disconnect, Disconnected
<1>6. ASSUME NEW x \in Devices,
             DeleteOthersData(x) \/ WriteOwnership(x) \/ AssignRole(x) \/ Scan(x)
      PROVE  <<d, e>> \in up /\ messages' = messages
  BY <1>6 DEF DeleteOthersData, WriteOwnership, AssignRole, Scan, linkVars
<1>7. ASSUME NEW x \in Devices, NEW f \in Devices,
             IndexOwnership(x, f) \/ IndexRole(x, f) \/ ReadOwnership(x, f) \/ ReadRole(x, f)
      PROVE  <<d, e>> \in up /\ messages' = messages
  BY <1>7 DEF IndexOwnership, IndexRole, ReadOwnership, ReadRole, linkVars
<1>8. CASE UNCHANGED vars
  BY <1>1, <1>8 DEF vars
<1> QED
  BY <1>1, <1>2, <1>3, <1>4, <1>5, <1>6, <1>7, <1>8 DEF Next

\* Whatever makes a device a member starts a handler, and a handler that ends
\* has added the cores.
LEMMA MembersAddedStep ==
  ASSUME IInv, [Next]_vars
  PROVE  MembersAdded'
<1> SUFFICES ASSUME NEW d \in Devices, NEW e \in ownerships'[d] \ {d}, HasRole(d, e)'
             PROVE  \/ <<e, "data">> \in cores'[d]
                    \/ scanning'[d]
                    \/ \E t \in tasks'[d] : t.doc = e
  BY DEF MembersAdded
<1> DEFINE Added == \/ <<e, "data">> \in cores[d]
                    \/ scanning[d]
                    \/ \E t \in tasks[d] : t.doc = e
           AddedNext == \/ <<e, "data">> \in cores'[d]
                        \/ scanning'[d]
                        \/ \E t \in tasks'[d] : t.doc = e
<1> USE DEF IInv, TypeOK
<1>1. ASSUME e \in ownerships[d], HasRole(d, e) PROVE Added
  BY <1>1 DEF MembersAdded
<1>2. Started(d, e) = {[doc |-> e, step |-> "ownership"]}
  BY DEF Started
<1>3. ASSUME NEW x \in Devices, Restart(x) PROVE AddedNext
  BY <1>1, <1>3 DEF Restart, docVars, HasRole
<1>4. ASSUME NEW x \in Devices, DeleteOthersData(x) PROVE AddedNext
  BY <1>1, <1>4 DEF DeleteOthersData, docVars, HasRole
<1>5. ASSUME NEW x \in Devices, WriteOwnership(x) PROVE AddedNext
  BY <1>1, <1>5 DEF WriteOwnership, HasRole
<1>6. ASSUME NEW x \in Devices, AssignRole(x) PROVE AddedNext
  <2>1. CASE Inviter[x] = d /\ x = e
    <3>1. [doc |-> e, step |-> "ownership"] \in tasks'[d]
      BY <1>2, <1>6, <2>1 DEF AssignRole
    <3> QED
      BY <3>1
  <2>2. CASE ~ (Inviter[x] = d /\ x = e)
    <3>1. e \in ownerships[d] /\ HasRole(d, e)
      BY <1>6, <2>2, ProjectCoresAssumption DEF AssignRole, HasRole
    <3>2. tasks[d] \subseteq tasks'[d]
      BY <1>6, ProjectCoresAssumption DEF AssignRole
    <3> QED
      BY <1>1, <1>6, <3>1, <3>2 DEF AssignRole
  <2> QED
    BY <2>1, <2>2
<1>7. ASSUME NEW x \in Devices, Scan(x) PROVE AddedNext
  <2>1. e \in ownerships[d] /\ HasRole(d, e)
    BY <1>7 DEF Scan, docVars, HasRole
  <2>2. CASE x = d
    <3>1. [doc |-> e, step |-> "role"] \in tasks'[d]
      BY <1>7, <2>1, <2>2 DEF Scan
    <3> QED
      BY <3>1
  <2>3. CASE x # d
    BY <1>1, <1>7, <2>1, <2>3 DEF Scan
  <2> QED
    BY <2>2, <2>3
<1>8. ASSUME NEW x \in Devices, NEW f \in Devices, PeerAdd(x, f) \/ Disconnect(x, f)
      PROVE  AddedNext
  BY <1>1, <1>8 DEF PeerAdd, Disconnect, docVars, HasRole
<1>9. ASSUME NEW x \in Devices, NEW f \in Devices, HandleProjectMessage(x, f) PROVE AddedNext
  BY <1>1, <1>9 DEF HandleProjectMessage, AddCores, docVars, HasRole
<1>10. ASSUME NEW x \in Devices, NEW f \in Devices, IndexOwnership(x, f) PROVE AddedNext
  <2>1. CASE x = d /\ f = e
    <3>1. [doc |-> e, step |-> "ownership"] \in tasks'[d]
      BY <1>2, <1>10, <2>1 DEF IndexOwnership
    <3> QED
      BY <3>1
  <2>2. CASE ~ (x = d /\ f = e)
    BY <1>1, <1>10, <2>2 DEF IndexOwnership, HasRole
  <2> QED
    BY <2>1, <2>2
<1>11. ASSUME NEW x \in Devices, NEW f \in Devices, IndexRole(x, f) PROVE AddedNext
  <2>1. CASE x = d /\ f = e
    <3>1. [doc |-> e, step |-> "ownership"] \in tasks'[d]
      BY <1>2, <1>11, <2>1 DEF IndexRole
    <3> QED
      BY <3>1
  <2>2. CASE ~ (x = d /\ f = e)
    BY <1>1, <1>11, <2>2 DEF IndexRole, HasRole
  <2> QED
    BY <2>1, <2>2
<1>12. ASSUME NEW x \in Devices, NEW f \in Devices, ReadOwnership(x, f) PROVE AddedNext
  <2>1. e \in ownerships[d] /\ HasRole(d, e)
    BY <1>12 DEF ReadOwnership, docVars, HasRole
  <2>2. CASE x = d /\ f = e
    <3>1. [doc |-> e, step |-> "role"] \in tasks'[d]
      BY <1>12, <2>1, <2>2 DEF ReadOwnership
    <3> QED
      BY <3>1
  <2>3. CASE ~ (x = d /\ f = e)
    BY <1>1, <1>12, <2>1, <2>3 DEF ReadOwnership
  <2> QED
    BY <2>2, <2>3
<1>13. ASSUME NEW x \in Devices, NEW f \in Devices, ReadRole(x, f) PROVE AddedNext
  <2>1. e \in ownerships[d] /\ HasRole(d, e)
    BY <1>13 DEF ReadRole, docVars, HasRole
  <2>2. CASE x = d /\ f = e
    BY <1>13, <2>1, <2>2 DEF ReadRole, AddCores
  <2>3. CASE ~ (x = d /\ f = e)
    <3>1. cores[d] \subseteq cores'[d]
      BY <1>13 DEF ReadRole, AddCores
    <3>2. \A t \in tasks[d] : t.doc = e => t \in tasks'[d]
      BY <1>13, <2>3 DEF ReadRole
    <3> QED
      BY <1>1, <1>13, <2>1, <3>1, <3>2 DEF ReadRole
  <2> QED
    BY <2>2, <2>3
<1>14. ASSUME UNCHANGED vars PROVE AddedNext
  BY <1>1, <1>14 DEF vars, HasRole
<1> HIDE DEF AddedNext, Added, IInv, TypeOK
<1>15. ASSUME Next PROVE AddedNext
  BY <1>3, <1>4, <1>5, <1>6, <1>7, <1>8, <1>9, <1>10, <1>11, <1>12, <1>13, <1>15 DEF Next
<1>16. AddedNext
  BY <1>14, <1>15
<1> QED
  BY <1>16 DEF AddedNext

----------------------------------------------------------------------------
(* The theorems *)

LEMMA NextIInv == IInv /\ [Next]_vars => IInv'
<1> SUFFICES ASSUME IInv, [Next]_vars PROVE IInv'
  OBVIOUS
<1>1. TypeOK'
  BY TypeStep DEF IInv
<1> QED
  BY <1>1, AllSavedStep, MembersStep, TasksReadStep, OwnKnownStep, ToldStep, MembersAddedStep
     DEF IInv

LEMMA AlwaysIInv == Spec => []IInv
  BY InitIInv, NextIInv, PTL DEF Spec

\* Every value has its type.
THEOREM TypeCorrect == Spec => []TypeOK
<1>1. IInv => TypeOK
  BY DEF IInv
<1> QED
  BY <1>1, AlwaysIInv, PTL

\* However the two documents of a device arrive, its cores are added when both
\* are there (handleRoleUpdate, handleCoreOwnershipUpdate and the constructor
\* of SyncApi).
THEOREM MembersCoresAdded == Spec => []MembersAdded
<1>1. IInv => MembersAdded
  BY DEF IInv
<1> QED
  BY <1>1, AlwaysIInv, PTL

\* #validateRoleAndAddCoresForPeer adds the cores of nobody who has no role.
THEOREM OnlyCoresOfMembers == Spec => []OnlyMembersAdded
<1>1. IInv => OnlyMembersAdded
  BY DEF IInv
<1> QED
  BY <1>1, AlwaysIInv, PTL

\* #sendAuthCoreKeys tells each of two devices of the other's auth core.
THEOREM AuthCoresAreExchanged == Spec => []AuthCoresExchanged
<1>1. IInv => AuthCoresExchanged
  BY DEF IInv, Told, AuthCoresExchanged, Connected
<1> QED
  BY <1>1, AlwaysIInv, PTL

\* The table of cores, with what the constructor of CoreManager derives, is
\* enough to open every core again.
THEOREM CoresAreKept == Spec => NothingForgotten
<1>1. ASSUME IInv, [Next]_vars, NEW d \in Devices, NEW c \in cores[d]
      PROVE  c \in cores'[d] \/ (c[2] = "data" /\ clears[d] > 0)
  BY <1>1, CoresStep DEF IInv, AllSaved
<1>2. IInv /\ [Next]_vars =>
        [\A d \in Devices : \A c \in cores[d] :
           c \in cores'[d] \/ (c[2] = "data" /\ clears[d] > 0)]_vars
  BY <1>1
<1> QED
  BY <1>2, AlwaysIInv, PTL DEF Spec, NothingForgotten

----------------------------------------------------------------------------
(***************************************************************************)
(* Create, open, leave and clear, for any calls and instances, which       *)
(* overlap in any way, and any of which may be rejected.                   *)
(*                                                                         *)
(* An instance is alone if it is open and has had the project for itself   *)
(* since it was made. No call keeps others out, so that this is seldom the *)
(* work of one call: AloneOK says what being alone tells of the others. An *)
(* owner is a call with an instance that nobody else knows of yet: it is   *)
(* not registered and cannot be closed (OwnerOK). HeldOK is how far a call *)
(* has come with an instance, whatever happens to that meanwhile. What the *)
(* row says of an instance only holds of one that is alone: RowOK of the   *)
(* calls that have it, JoinedOK and LeftOK of the instance.                *)
(***************************************************************************)

Owner(k) ==
  \/ call[k].pc \in {"instance", "settings"}
  \/ (InClear(k) /\ call[k].left)

Alone(i) == phase[i] = "open" /\ i \notin contended

AloneOK(i) ==
  Alone(i) =>
    /\ \A j \in Instances : phase[j] # "closed" => j = i
    /\ \A k \in Calls : call[k].pc # "close"

\* What an owner has nobody else holds, or can close.
OwnerOK(k) ==
  Owner(k) =>
    /\ phase[call[k].inst] = "open" /\ call[k].inst \notin registered
    /\ call[k].op = "leave" => call[k].left
    /\ call[k].op = "create" => ~call[k].left
    /\ \A k2 \in Calls : call[k2].inst = call[k].inst => k2 = k

HeldOK(k) ==
  /\ call[k].pc = "role" => ~call[k].left
  /\ call[k].pc = "close" => phase[call[k].inst] # "open"
  /\ call[k].pc \in {"purge", "unlink"} => stores[call[k].inst] = "closed"
  /\ call[k].pc = "unlink" => call[k].inst \in purged

\* The row is still what the call read or wrote.
RowOK(k) ==
  Alone(call[k].inst) =>
    /\ Owner(k) /\ row = "left" => call[k].left \/ call[k].inst \in failed
    /\ Owner(k) /\ row = "joined" => ~call[k].left
    /\ call[k].pc = "role" \/ InClear(k) => row # "joined"

ActiveOK == activeProject # None => activeProject \in registered /\ phase[activeProject] # "closed"

JoinedOK(i) == Alone(i) /\ row = "joined" => Usable(i)

PurgedOK(i) == Alone(i) /\ i \in purged => ~blocks

\* A project that was left is cleared, or somebody is still at it.
LeftOK(i) ==
  Alone(i) /\ row = "left" /\ i \in registered /\ i \notin failed =>
    \/ ~tables /\ stores[i] = "closed" /\ i \in purged
    \/ \E k \in Calls : call[k].inst = i

LifecycleInv ==
  /\ LifecycleTypeOK /\ ActiveOK
  /\ \A k \in Calls : OwnerOK(k) /\ HeldOK(k) /\ RowOK(k)
  /\ \A i \in Instances : AloneOK(i) /\ JoinedOK(i) /\ PurgedOK(i) /\ LeftOK(i)

----------------------------------------------------------------------------

LEMMA CallTypes ==
  ASSUME LifecycleTypeOK, NEW k \in Calls, call[k].pc # "idle"
  PROVE  /\ call[k].inst \in Instances /\ call[k].inst # None /\ call[k].left \in BOOLEAN
         /\ call[k].op \in Operations /\ call[k].pc \in Waiting
         /\ (call[k].pc = "settings" => call[k].op = "create")
         /\ (call[k].pc = "close" => call[k].op = "add")
         /\ (call[k].pc = "role" => call[k].op = "leave")
  BY DEF LifecycleTypeOK, CallRecord, Fits, Idle

LEMMA CallStep ==
  ASSUME LifecycleTypeOK, NEW k \in Calls, NEW c \in CallRecord, Fits(c),
         call' = [call EXCEPT ![k] = c]
  PROVE  /\ call' \in [Calls -> CallRecord] /\ \A k2 \in Calls : Fits(call'[k2])
         /\ call'[k] = c /\ \A k2 \in Calls \ {k} : call'[k2] = call[k2]
<1>1. call \in [Calls -> CallRecord] /\ \A k2 \in Calls : Fits(call[k2])
  BY DEF LifecycleTypeOK
<1> QED
  BY <1>1

LEMMA CallMade ==
  ASSUME NEW op \in Operations, NEW pc \in Waiting, NEW i \in Instances, NEW left \in BOOLEAN,
         pc = "settings" => op = "create", pc = "close" => op = "add", pc = "role" => op = "leave"
  PROVE  /\ Call(op, pc, i, left) \in CallRecord /\ Fits(Call(op, pc, i, left))
         /\ Idle \in CallRecord /\ Fits(Idle)
  BY ProjectLifecycleAssumption DEF CallRecord, Fits, Call, Waiting, Operations, Idle

LEMMA IdleMade == Idle \in CallRecord /\ Fits(Idle)
  BY DEF Idle, CallRecord, Fits

\* What an idle call is not.
LEMMA IdleIsNothing ==
  ASSUME NEW k \in Calls, call[k] = Idle
  PROVE  ~Owner(k) /\ ~InClear(k) /\ call[k].pc \notin {"close", "role"} /\ call[k].inst = None
  BY DEF Owner, InClear, Idle

\* Who is the only one that is not closed.
LEMMA OnlyAlone ==
  ASSUME LifecycleInv, NEW i \in Instances, Alone(i), NEW j \in Instances, phase[j] # "closed"
  PROVE  i = j
  BY DEF LifecycleInv, AloneOK

\* A call makes an instance: whoever was alone no longer is, and the new one
\* is if there was nobody else.
LEMMA Opened ==
  ASSUME LifecycleInv, NEW k \in Calls, NEW op \in Operations, NEW left \in BOOLEAN,
         NEW i \in Instances, CreateProjectInstance(k, i, ~left), ~Owner(k),
         call' = [call EXCEPT ![k] = Call(op, "instance", i, left)],
         row' \in {"none", "joined", "left"}, settings' \in BOOLEAN,
         row' = "left" => left, left => row' # "joined",
         op = "leave" => left, op = "create" => ~left,
         UNCHANGED <<blocks, tables, activeProject>>
  PROVE  LifecycleInv'
<1> DEFINE c == Call(op, "instance", i, left)
<1>1. /\ call' \in [Calls -> CallRecord] /\ \A k2 \in Calls : Fits(call'[k2])
      /\ call'[k] = c /\ \A k2 \in Calls \ {k} : call'[k2] = call[k2]
  BY CallMade, CallStep DEF LifecycleInv, Waiting
<1>2. c.pc = "instance" /\ c.inst = i /\ c.left = left /\ c.op = op
  BY DEF Call
<1> HIDE DEF c
<1>3. /\ phase[i] = "closed" /\ \A k2 \in Calls : call[k2].inst # i
      /\ phase'[i] = "open" /\ stores'[i] = "open" /\ (~left => i \in keys')
      /\ i \notin purged' /\ i \notin registered'
      /\ \A j \in Instances \ {i} :
           /\ phase'[j] = phase[j] /\ stores'[j] = stores[j]
           /\ (j \in keys' <=> j \in keys) /\ (j \in purged' <=> j \in purged)
           /\ (j \in registered' <=> j \in registered)
  BY DEF LifecycleInv, LifecycleTypeOK, CreateProjectInstance, Free
<1>4. \A j \in Instances \ {i} : ~Alone(j)'
  BY <1>3 DEF CreateProjectInstance, Alone, Others
<1>5. ASSUME Alone(i)'
      PROVE  /\ \A j \in Instances : phase[j] = "closed"
             /\ \A k2 \in Calls \ {k} : call[k2].pc # "close"
  <2>1. Others = {} /\ Waiters(k) = {}
    BY <1>5 DEF Alone, CreateProjectInstance
  <2> QED
    BY <2>1 DEF Others, Waiters
<1>6. LifecycleTypeOK'
  <2>1. contended' \subseteq Instances /\ failed' \subseteq Instances
    BY DEF LifecycleInv, LifecycleTypeOK, CreateProjectInstance, Others
  <2>2. /\ phase' \in [Instances -> {"closed", "open", "closing"}]
        /\ stores' \in [Instances -> {"closed", "open", "closing"}]
        /\ keys' \subseteq Instances /\ purged' \subseteq Instances /\ registered' \subseteq Instances
    BY DEF LifecycleInv, LifecycleTypeOK, CreateProjectInstance
  <2> QED
    BY <1>1, <2>1, <2>2 DEF LifecycleInv, LifecycleTypeOK
<1>7. ActiveOK'
  BY <1>3 DEF LifecycleInv, LifecycleTypeOK, ActiveOK
<1>8. ASSUME NEW k2 \in Calls PROVE OwnerOK(k2)' /\ HeldOK(k2)' /\ RowOK(k2)'
  <2>1. CASE k2 = k
    BY <1>1, <1>2, <1>3, <2>1 DEF OwnerOK, HeldOK, RowOK, Owner, InClear
  <2>2. CASE k2 # k
    <3>1. call'[k2] = call[k2] /\ OwnerOK(k2) /\ HeldOK(k2)
      BY <1>1, <2>2 DEF LifecycleInv
    <3>2. CASE call[k2].pc = "idle"
      BY <3>1, <3>2 DEF OwnerOK, HeldOK, RowOK, Owner, InClear
    <3>3. CASE call[k2].pc # "idle"
      <4>1. call[k2].inst \in Instances \ {i}
        BY <1>3, <3>3, CallTypes DEF LifecycleInv
      <4>2. OwnerOK(k2)'
        BY <1>1, <1>2, <1>3, <3>1, <4>1 DEF OwnerOK, Owner, InClear
      <4>3. HeldOK(k2)'
        BY <1>3, <3>1, <4>1 DEF HeldOK
      <4> QED
        BY <1>4, <3>1, <4>1, <4>2, <4>3 DEF RowOK
    <3> QED
      BY <3>2, <3>3
  <2> QED
    BY <2>1, <2>2
<1>9. ASSUME NEW j \in Instances PROVE AloneOK(j)' /\ JoinedOK(j)' /\ PurgedOK(j)' /\ LeftOK(j)'
  <2>1. CASE j = i
    <3>1. AloneOK(i)'
      BY <1>1, <1>2, <1>3, <1>5 DEF AloneOK
    <3> QED
      BY <1>3, <2>1, <3>1 DEF JoinedOK, PurgedOK, LeftOK, Usable
  <2>2. CASE j # i
    BY <1>4, <2>2 DEF AloneOK, JoinedOK, PurgedOK, LeftOK
  <2> QED
    BY <2>1, <2>2
<1> QED
  BY <1>6, <1>7, <1>8, <1>9 DEF LifecycleInv

\* A call gets the active project.
LEMMA ReturnedActive ==
  ASSUME LifecycleInv, NEW k \in Calls, NEW op \in Operations,
         \/ call[k] = Idle
         \/ \A i \in Instances : ~Alone(i),
         ~Owner(k), activeProject # None, Returned(k, op, activeProject), UNCHANGED <<memory, history>>,
         row' = (IF op = "leave" THEN "left" ELSE row) \/ \A i \in Instances : ~Alone(i),
         row' \in {"none", "joined", "left"}, settings' \in BOOLEAN, UNCHANGED <<blocks, tables>>
  PROVE  LifecycleInv'
<1> DEFINE c == IF op = "leave" THEN Call(op, "role", activeProject, FALSE) ELSE Idle
<1>1. /\ activeProject \in Instances /\ activeProject \in registered
      /\ phase[activeProject] # "closed"
      /\ UNCHANGED <<activeProject, phase, stores, keys, purged, registered, contended, failed>>
  BY DEF LifecycleInv, LifecycleTypeOK, ActiveOK, memory, opened, history
<1>2. /\ call' \in [Calls -> CallRecord] /\ \A k2 \in Calls : Fits(call'[k2])
      /\ call'[k] = c /\ \A k2 \in Calls \ {k} : call'[k2] = call[k2]
  BY <1>1, CallMade, CallStep, IdleMade DEF LifecycleInv, Returned, Waiting
<1>3. /\ c.pc \in {"role", "idle"} /\ (c.pc = "role" => op = "leave")
      /\ ~c.left
      /\ (op = "leave" => c.inst = activeProject) /\ (op # "leave" => c.inst = None)
  BY DEF Call, Idle
<1> HIDE DEF c
<1>4. LifecycleTypeOK' /\ ActiveOK'
  BY <1>1, <1>2 DEF LifecycleInv, LifecycleTypeOK, ActiveOK
<1>5. \A j \in Instances : Alone(j)' <=> Alone(j)
  BY <1>1 DEF Alone
<1>6. ASSUME NEW j \in Instances, Alone(j)
      PROVE  j = activeProject /\ row' = (IF op = "leave" THEN "left" ELSE row) /\ call[k] = Idle
  BY <1>1, <1>6, OnlyAlone
<1>7. ASSUME NEW k2 \in Calls PROVE OwnerOK(k2)' /\ HeldOK(k2)' /\ RowOK(k2)'
  <2>1. CASE k2 = k
    <3>1. OwnerOK(k)' /\ HeldOK(k)'
      BY <1>2, <1>3 DEF OwnerOK, HeldOK, Owner, InClear
    <3>2. RowOK(k)'
      BY <1>1, <1>2, <1>3, <1>5, <1>6 DEF RowOK, Owner, InClear
    <3> QED
      BY <2>1, <3>1, <3>2
  <2>2. CASE k2 # k
    <3>1. call'[k2] = call[k2] /\ OwnerOK(k2) /\ HeldOK(k2) /\ RowOK(k2)
      BY <1>2, <2>2 DEF LifecycleInv
    <3>2. Owner(k2) => call[k2].inst # activeProject /\ call[k2].inst # None /\ call[k2].inst \in Instances
      BY <1>1, <3>1, CallTypes DEF LifecycleInv, OwnerOK, Owner, InClear
    <3>3. OwnerOK(k2)'
      BY <1>1, <1>2, <1>3, <3>1, <3>2 DEF OwnerOK, Owner, InClear
    <3>4. HeldOK(k2)'
      BY <1>1, <3>1 DEF HeldOK
    <3>5. RowOK(k2)'
      <4>1. CASE call[k2].pc = "idle"
        BY <3>1, <4>1 DEF RowOK, Owner, InClear
      <4>2. CASE call[k2].pc # "idle"
        <5>1. call[k2].inst \in Instances
          BY <4>2, CallTypes DEF LifecycleInv
        <5> QED
          BY <1>1, <1>5, <1>6, <3>1, <3>2, <5>1 DEF RowOK, Owner, InClear
      <4> QED
        BY <4>1, <4>2
    <3> QED
      BY <3>3, <3>4, <3>5
  <2> QED
    BY <2>1, <2>2
<1>8. ASSUME NEW j \in Instances PROVE AloneOK(j)' /\ JoinedOK(j)' /\ PurgedOK(j)' /\ LeftOK(j)'
  <2>1. CASE ~Alone(j)
    BY <1>5, <2>1 DEF AloneOK, JoinedOK, PurgedOK, LeftOK
  <2>2. CASE Alone(j)
    <3>1. /\ j = activeProject /\ row' = (IF op = "leave" THEN "left" ELSE row) /\ call[k] = Idle
          /\ AloneOK(j) /\ JoinedOK(j) /\ PurgedOK(j) /\ LeftOK(j) /\ j # None
      BY <1>6, <2>2, ProjectLifecycleAssumption DEF LifecycleInv
    <3>2. AloneOK(j)'
      BY <1>1, <1>2, <1>3, <2>2, <3>1 DEF AloneOK
    <3>3. JoinedOK(j)' /\ PurgedOK(j)'
      BY <1>1, <2>2, <3>1 DEF JoinedOK, PurgedOK, Alone, Usable
    <3>4. LeftOK(j)'
      <4>1. CASE op = "leave"
        BY <1>2, <1>3, <3>1, <4>1 DEF LeftOK
      <4>2. CASE op # "leave"
        <5>1. \A k2 \in Calls : call[k2].inst = j => call'[k2].inst = j
          BY <1>2, <3>1 DEF Idle
        <5> QED
          BY <1>1, <2>2, <3>1, <4>2, <5>1 DEF LeftOK
      <4> QED
        BY <4>1, <4>2
    <3> QED
      BY <3>2, <3>3, <3>4
  <2> QED
    BY <2>1, <2>2
<1> QED
  BY <1>4, <1>7, <1>8 DEF LifecycleInv

\* A call ends, and nothing else changes but the row: no instance could be made.
LEMMA StepNoInstance ==
  ASSUME LifecycleInv, NEW k \in Calls, NoInstance(k), ~Owner(k), ~InClear(k), call[k].pc # "role",
         row' \in {row, "none", "left"}
           \/ (row' = "joined" /\ \A i \in Instances : ~Alone(i)),
         settings' \in BOOLEAN, UNCHANGED <<blocks, tables>>
  PROVE  LifecycleInv'
<1>1. /\ activeProject = None /\ call' = [call EXCEPT ![k] = Idle]
      /\ failed' = failed \cup Others
      /\ UNCHANGED <<activeProject, phase, stores, keys, purged, registered, contended>>
  BY DEF NoInstance, memory, opened
<1>2. /\ call' \in [Calls -> CallRecord] /\ \A k2 \in Calls : Fits(call'[k2])
      /\ call'[k] = Idle /\ \A k2 \in Calls \ {k} : call'[k2] = call[k2]
  BY <1>1, CallStep, IdleMade DEF LifecycleInv
<1>3. LifecycleTypeOK' /\ ActiveOK'
  BY <1>1, <1>2 DEF LifecycleInv, LifecycleTypeOK, ActiveOK, Others
<1>4. \A j \in Instances : (Alone(j)' <=> Alone(j)) /\ (Alone(j) => j \in failed')
  BY <1>1 DEF Alone, Others
<1>5. Idle.pc = "idle" /\ Idle.inst = None
  BY DEF Idle
<1>6. ASSUME NEW k2 \in Calls PROVE OwnerOK(k2)' /\ HeldOK(k2)' /\ RowOK(k2)'
  <2>1. CASE call'[k2].pc = "idle"
    BY <2>1 DEF OwnerOK, HeldOK, RowOK, Owner, InClear
  <2>2. CASE call'[k2].pc # "idle"
    <3>1. k2 # k /\ call'[k2] = call[k2] /\ OwnerOK(k2) /\ HeldOK(k2) /\ RowOK(k2)
      BY <1>2, <1>5, <2>2 DEF LifecycleInv
    <3>2. call[k2].inst \in Instances /\ call[k2].inst # None
      BY <2>2, <3>1, CallTypes DEF LifecycleInv
    <3>3. OwnerOK(k2)'
      BY <1>1, <1>2, <1>5, <3>1, <3>2 DEF OwnerOK, Owner, InClear
    <3> QED
      BY <1>1, <1>4, <3>1, <3>2, <3>3 DEF HeldOK, RowOK, Owner, InClear
  <2> QED
    BY <2>1, <2>2
<1>7. ASSUME NEW j \in Instances PROVE AloneOK(j)' /\ JoinedOK(j)' /\ PurgedOK(j)' /\ LeftOK(j)'
  <2>1. AloneOK(j) /\ JoinedOK(j) /\ PurgedOK(j)
    BY DEF LifecycleInv
  <2>2. AloneOK(j)'
    BY <1>1, <1>2, <1>4, <1>5, <2>1 DEF AloneOK
  <2> QED
    BY <1>1, <1>4, <2>1, <2>2 DEF JoinedOK, PurgedOK, LeftOK, Usable
<1> QED
  BY <1>3, <1>6, <1>7 DEF LifecycleInv

\* A call goes on with the instance it has.
LEMMA SameInstance ==
  ASSUME LifecycleInv, NEW k \in Calls, NEW q \in Waiting, NEW s \in {"closed", "closing", "open"},
         \/ call[k].pc = "instance" /\ q = "settings" /\ call[k].op = "create"
         \/ call[k].pc = "instance" /\ q = "stores" /\ call[k].left
         \/ (call[k].pc = "role" \/ InClear(k)) /\ q \in {"stores", "purge", "unlink"},
         call' = [call EXCEPT ![k].pc = q],
         stores' = [stores EXCEPT ![call[k].inst] = s],
         s = stores[call[k].inst] \/ q # "settings",
         stores[call[k].inst] = "closed" => s = "closed" \/ Owner(k),
         q \in {"purge", "unlink"} => s = "closed",
         q = "unlink" => call[k].inst \in purged',
         \/ blocks' = blocks /\ purged' = purged
         \/ blocks' = FALSE /\ purged' = purged \cup {call[k].inst},
         UNCHANGED <<row, settings, tables, activeProject, phase, keys, registered, history>>
  PROVE  LifecycleInv'
<1> DEFINE i == call[k].inst
           c == [op |-> call[k].op, pc |-> q, inst |-> i, left |-> call[k].left]
<1>1. /\ i \in Instances /\ i # None /\ call[k] \in CallRecord
      /\ call[k].op \in Operations /\ call[k].left \in BOOLEAN
      /\ OwnerOK(k) /\ HeldOK(k) /\ RowOK(k) /\ call[k].pc \notin {"idle", "close"}
      /\ (call[k].pc = "role" => call[k].op = "leave")
  BY CallTypes DEF LifecycleInv, LifecycleTypeOK, InClear
<1>2. /\ call' \in [Calls -> CallRecord] /\ \A k2 \in Calls : Fits(call'[k2])
      /\ call'[k] = c /\ \A k2 \in Calls \ {k} : call'[k2] = call[k2]
  <2>1. c \in CallRecord /\ Fits(c)
    BY <1>1 DEF CallRecord, Fits, Waiting, Operations
  <2>2. [call[k] EXCEPT !.pc = q] = c
    BY <1>1 DEF CallRecord
  <2>3. call' = [call EXCEPT ![k] = c]
    BY <2>2 DEF LifecycleInv, LifecycleTypeOK
  <2> QED
    BY <2>1, <2>3, CallStep DEF LifecycleInv
<1>3. c.inst = i /\ c.left = call[k].left /\ c.op = call[k].op /\ c.pc = q
  OBVIOUS
<1> HIDE DEF c
<1>4. /\ stores'[i] = s /\ \A j \in Instances \ {i} : stores'[j] = stores[j]
      /\ stores' \in [Instances -> {"closed", "open", "closing"}]
  BY <1>1 DEF LifecycleInv, LifecycleTypeOK
<1>5. UNCHANGED <<contended, failed>> /\ (\A j \in Instances : Alone(j)' <=> Alone(j))
  BY DEF Alone, history
<1>6. LifecycleTypeOK' /\ ActiveOK'
  BY <1>1, <1>2, <1>4, <1>5 DEF LifecycleInv, LifecycleTypeOK, ActiveOK
<1>7. Owner(k)' => Owner(k)
  BY <1>1, <1>2, <1>3 DEF Owner, InClear, HeldOK
<1>8. Alone(i) /\ q # "settings" => row # "joined"
  BY <1>1 DEF RowOK, Owner, Waiting
<1>9. ASSUME NEW k2 \in Calls PROVE OwnerOK(k2)' /\ HeldOK(k2)' /\ RowOK(k2)'
  <2>1. CASE k2 = k
    <3>1. OwnerOK(k)'
      BY <1>1, <1>2, <1>3, <1>7 DEF OwnerOK
    <3>2. HeldOK(k)'
      BY <1>1, <1>2, <1>3, <1>4 DEF HeldOK
    <3>3. RowOK(k)'
      BY <1>1, <1>2, <1>3, <1>5, <1>7, <1>8 DEF RowOK, InClear
    <3> QED
      BY <2>1, <3>1, <3>2, <3>3
  <2>2. CASE k2 # k
    <3>1. call'[k2] = call[k2] /\ OwnerOK(k2) /\ HeldOK(k2) /\ RowOK(k2)
      BY <1>2, <2>2 DEF LifecycleInv
    <3>2. CASE call[k2].pc = "idle"
      BY <3>1, <3>2 DEF OwnerOK, HeldOK, RowOK, Owner, InClear
    <3>3. CASE call[k2].pc # "idle"
      <4>1. call[k2].inst \in Instances
        BY <3>3, CallTypes DEF LifecycleInv
      <4>2. call[k2].inst = i => ~Owner(k)
        BY <1>1, <2>2 DEF OwnerOK
      <4>3. OwnerOK(k2)'
        BY <1>1, <1>2, <1>3, <2>2, <3>1 DEF OwnerOK, Owner, InClear
      <4>4. HeldOK(k2)'
        BY <1>1, <1>4, <3>1, <4>1, <4>2 DEF HeldOK
      <4>5. RowOK(k2)'
        BY <1>5, <3>1, <4>1 DEF RowOK, Owner, InClear
      <4> QED
        BY <4>3, <4>4, <4>5
    <3> QED
      BY <3>2, <3>3
  <2> QED
    BY <2>1, <2>2
<1>10. ASSUME NEW j \in Instances PROVE AloneOK(j)' /\ JoinedOK(j)' /\ PurgedOK(j)' /\ LeftOK(j)'
  <2>1. AloneOK(j) /\ JoinedOK(j) /\ PurgedOK(j) /\ LeftOK(j)
    BY DEF LifecycleInv
  <2>2. AloneOK(j)'
    BY <1>1, <1>2, <1>3, <1>5, <2>1 DEF AloneOK, Waiting
  <2>3. JoinedOK(j)'
    BY <1>4, <1>5, <1>8, <2>1 DEF JoinedOK, Usable
  <2>4. PurgedOK(j)'
    BY <1>5, <2>1 DEF PurgedOK
  <2>5. LeftOK(j)'
    <3>1. \A k2 \in Calls : call'[k2].inst = call[k2].inst
      BY <1>2, <1>3
    <3>2. j \in registered => (stores[j] = "closed" => stores'[j] = "closed")
      BY <1>1, <1>4 DEF OwnerOK
    <3> QED
      BY <1>5, <2>1, <3>1, <3>2 DEF LeftOK
  <2> QED
    BY <2>2, <2>3, <2>4, <2>5
<1> QED
  BY <1>6, <1>9, <1>10 DEF LifecycleInv

\* A call ends or goes on to kProjectLeave, and its instance is registered or not.
LEMMA LetGo ==
  ASSUME LifecycleInv, NEW k \in Calls,
         call[k].pc \in {"instance", "settings", "role"} \/ InClear(k),
         \/ call' = [call EXCEPT ![k] = Idle]
         \/ /\ Owner(k) /\ call[k].op = "leave"
            /\ call' = [call EXCEPT ![k] = Call("leave", "role", call[k].inst, FALSE)],
         \/ UNCHANGED <<activeProject, registered>>
         \/ Owner(k) /\ Register(call[k].inst),
         \/ failed' = failed \cup {call[k].inst}
         \/ failed' = failed \ {call[k].inst} /\ ~tables' /\ call[k].pc = "unlink"
         \/ failed' = failed /\ Owner(k) /\ ~call[k].left,
         tables' => tables \/ Owner(k), tables' \in BOOLEAN, settings' \in BOOLEAN,
         UNCHANGED <<row, blocks, opened, contended>>
  PROVE  LifecycleInv'
<1> DEFINE i == call[k].inst
<1>1. /\ i \in Instances /\ i # None /\ OwnerOK(k) /\ HeldOK(k) /\ RowOK(k)
      /\ call[k].pc \notin {"idle", "close"} /\ call[k].op \in Operations
  BY CallTypes DEF LifecycleInv, InClear
<1>2. PICK c \in CallRecord :
        /\ Fits(c) /\ call' = [call EXCEPT ![k] = c]
        /\ ~c.left
        /\ \/ c.pc = "idle" /\ c.inst = None
           \/ c.pc = "role" /\ c.inst = i /\ Owner(k) /\ call[k].op = "leave"
  <2>1. Idle \in CallRecord /\ Fits(Idle) /\ Idle.pc = "idle" /\ Idle.inst = None /\ ~Idle.left
    BY IdleMade DEF Idle
  <2>2. /\ Call("leave", "role", i, FALSE) \in CallRecord /\ Fits(Call("leave", "role", i, FALSE))
        /\ Call("leave", "role", i, FALSE).pc = "role" /\ Call("leave", "role", i, FALSE).inst = i
        /\ ~Call("leave", "role", i, FALSE).left
    BY <1>1, CallMade DEF Operations, Waiting, Call
  <2> QED
    BY <2>1, <2>2
<1>3. /\ call' \in [Calls -> CallRecord] /\ \A k2 \in Calls : Fits(call'[k2])
      /\ call'[k] = c /\ \A k2 \in Calls \ {k} : call'[k2] = call[k2]
  BY <1>2, CallStep DEF LifecycleInv
<1>4. /\ UNCHANGED <<phase, stores, keys, purged>>
      /\ \A j \in Instances : Alone(j)' <=> Alone(j)
  BY DEF opened, Alone
<1>5. /\ registered \subseteq registered' /\ registered' \subseteq registered \cup {i}
      /\ i \in registered' => i \in registered \/ (Owner(k) /\ activeProject' = i)
      /\ activeProject' # activeProject => Owner(k) /\ activeProject' = i
      /\ activeProject' = i /\ Owner(k) => activeProject = i \/ i \in registered'
  BY DEF Register
<1>6. LifecycleTypeOK'
  BY <1>1, <1>3, <1>4, <1>5 DEF LifecycleInv, LifecycleTypeOK
<1>7. ActiveOK'
  BY <1>1, <1>4, <1>5 DEF LifecycleInv, ActiveOK, OwnerOK
<1>8. ASSUME NEW k2 \in Calls PROVE OwnerOK(k2)' /\ HeldOK(k2)' /\ RowOK(k2)'
  <2>1. CASE k2 = k
    <3>1. OwnerOK(k)' /\ HeldOK(k)'
      BY <1>2, <1>3, <2>1 DEF OwnerOK, HeldOK, Owner, InClear
    <3>2. RowOK(k)'
      <4>1. c.pc = "role" /\ Alone(i) => row # "joined"
        BY <1>1, <1>2 DEF RowOK, OwnerOK
      <4> QED
        BY <1>1, <1>2, <1>3, <1>4, <4>1 DEF RowOK, Owner, InClear
    <3> QED
      BY <2>1, <3>1, <3>2
  <2>2. CASE k2 # k
    <3>1. call'[k2] = call[k2] /\ OwnerOK(k2) /\ HeldOK(k2) /\ RowOK(k2)
      BY <1>3, <2>2 DEF LifecycleInv
    <3>2. CASE call[k2].pc = "idle"
      BY <3>1, <3>2 DEF OwnerOK, HeldOK, RowOK, Owner, InClear
    <3>3. CASE call[k2].pc # "idle"
      <4>1. call[k2].inst \in Instances /\ call[k2].inst # None
        BY <3>3, CallTypes DEF LifecycleInv
      <4>2. Owner(k2) => call[k2].inst # i
        BY <2>2, <3>1 DEF OwnerOK
      <4>3. OwnerOK(k2)'
        BY <1>2, <1>3, <1>4, <1>5, <3>1, <4>1, <4>2 DEF OwnerOK, Owner, InClear
      <4>4. HeldOK(k2)'
        BY <1>4, <3>1 DEF HeldOK
      <4>5. RowOK(k2)'
        BY <1>4, <3>1, <4>1, <4>2 DEF RowOK, Owner, InClear
      <4> QED
        BY <4>3, <4>4, <4>5
    <3> QED
      BY <3>2, <3>3
  <2> QED
    BY <2>1, <2>2
<1>9. ASSUME NEW j \in Instances PROVE AloneOK(j)' /\ JoinedOK(j)' /\ PurgedOK(j)' /\ LeftOK(j)'
  <2>1. AloneOK(j) /\ JoinedOK(j) /\ PurgedOK(j) /\ LeftOK(j)
    BY DEF LifecycleInv
  <2>2. AloneOK(j)'
    BY <1>2, <1>3, <1>4, <2>1 DEF AloneOK
  <2>3. JoinedOK(j)' /\ PurgedOK(j)'
    BY <1>4, <2>1 DEF JoinedOK, PurgedOK, Usable
  <2>4. LeftOK(j)'
    <3> SUFFICES ASSUME Alone(j), row = "left", j \in registered', j \notin failed',
                        ~\E k2 \in Calls : call'[k2].inst = j
                 PROVE  ~tables' /\ stores[j] = "closed" /\ j \in purged
      BY <1>4 DEF LeftOK
    <3>1. CASE j = i
      <4>1. ~tables' /\ call[k].pc = "unlink"
        <5>1. ~(failed' = failed \cup {i})
          BY <3>1
        <5>2. ~(failed' = failed /\ Owner(k) /\ ~call[k].left)
          BY <1>1, <3>1 DEF RowOK
        <5> QED
          BY <5>1, <5>2
      <4> QED
        BY <1>1, <3>1, <4>1 DEF HeldOK
    <3>2. CASE j # i
      <4>1. /\ j \in registered /\ j \notin failed
            /\ ~\E k2 \in Calls : call[k2].inst = j
        BY <1>3, <1>5, <3>2
      <4>2. ~tables /\ stores[j] = "closed" /\ j \in purged
        BY <2>1, <4>1 DEF LeftOK
      <4>3. ~Owner(k)
        BY <1>1, <3>2, OnlyAlone DEF OwnerOK
      <4> QED
        BY <4>2, <4>3
    <3> QED
      BY <3>1, <3>2
  <2> QED
    BY <2>2, <2>3, <2>4
<1> QED
  BY <1>6, <1>7, <1>8, <1>9 DEF LifecycleInv

\* close() begins: by whoever has got the instance, or by addProject().
LEMMA Closing ==
  ASSUME LifecycleInv, NEW i \in registered, phase[i] # "closed",
         phase' = [phase EXCEPT ![i] = "closing"],
         UNCHANGED <<disk, activeProject, stores, keys, purged, registered, history>>,
         \/ UNCHANGED call
         \/ \E k \in Calls : /\ call[k] = Idle
                             /\ call' = [call EXCEPT ![k] = Call("add", "close", i, FALSE)]
  PROVE  LifecycleInv'
<1>1. /\ i \in Instances /\ i # None
      /\ UNCHANGED <<row, settings, blocks, tables, contended, failed>>
  BY ProjectLifecycleAssumption DEF LifecycleInv, LifecycleTypeOK, disk, history
<1>2. /\ phase'[i] = "closing" /\ \A j \in Instances \ {i} : phase'[j] = phase[j]
      /\ phase' \in [Instances -> {"closed", "open", "closing"}]
  BY <1>1 DEF LifecycleInv, LifecycleTypeOK
<1>3. \A j \in Instances : ~Alone(j)'
  BY <1>1, <1>2, OnlyAlone DEF Alone
<1>4. /\ call' \in [Calls -> CallRecord] /\ \A k \in Calls : Fits(call'[k])
      /\ \A k \in Calls : \/ call'[k] = call[k]
                          \/ call'[k].pc = "close" /\ call'[k].inst = i
  <2>1. CASE UNCHANGED call
    BY <2>1 DEF LifecycleInv, LifecycleTypeOK
  <2>2. ASSUME NEW k \in Calls, call' = [call EXCEPT ![k] = Call("add", "close", i, FALSE)]
        PROVE  /\ call' \in [Calls -> CallRecord] /\ \A k2 \in Calls : Fits(call'[k2])
               /\ \A k2 \in Calls : \/ call'[k2] = call[k2]
                                    \/ call'[k2].pc = "close" /\ call'[k2].inst = i
    <3>1. /\ call' \in [Calls -> CallRecord] /\ \A k2 \in Calls : Fits(call'[k2])
          /\ call'[k] = Call("add", "close", i, FALSE) /\ \A k2 \in Calls \ {k} : call'[k2] = call[k2]
      BY <1>1, <2>2, CallMade, CallStep DEF LifecycleInv, Operations, Waiting
    <3> QED
      BY <3>1 DEF Call
  <2> QED
    BY <2>1, <2>2
<1>5. LifecycleTypeOK' /\ ActiveOK'
  BY <1>1, <1>2, <1>4 DEF LifecycleInv, LifecycleTypeOK, ActiveOK
<1>6. ASSUME NEW k \in Calls PROVE OwnerOK(k)' /\ HeldOK(k)' /\ RowOK(k)'
  <2>1. CASE call'[k].pc = "close" /\ call'[k].inst = i
    BY <1>2, <2>1 DEF OwnerOK, HeldOK, RowOK, Owner, InClear
  <2>2. CASE call'[k].pc = "idle"
    BY <2>2 DEF OwnerOK, HeldOK, RowOK, Owner, InClear
  <2>3. CASE call'[k] = call[k] /\ call[k].pc # "idle"
    <3>1. call[k].inst \in Instances /\ OwnerOK(k) /\ HeldOK(k)
      BY <2>3, CallTypes DEF LifecycleInv
    <3>2. OwnerOK(k)'
      BY <1>2, <1>4, <2>3, <3>1 DEF OwnerOK, Owner, InClear
    <3> QED
      BY <1>2, <1>3, <2>3, <3>1, <3>2 DEF HeldOK, RowOK
  <2> QED
    BY <1>4, <2>1, <2>2, <2>3
<1>7. \A j \in Instances : AloneOK(j)' /\ JoinedOK(j)' /\ PurgedOK(j)' /\ LeftOK(j)'
  BY <1>3 DEF AloneOK, JoinedOK, PurgedOK, LeftOK
<1> QED
  BY <1>5, <1>6, <1>7 DEF LifecycleInv

LEMMA StepClosed ==
  ASSUME LifecycleInv, NEW i \in Instances, Closed(i) PROVE LifecycleInv'
<1>1. /\ phase[i] = "closing" /\ phase'[i] = "closed" /\ stores'[i] = "closed"
      /\ \A j \in Instances \ {i} : phase'[j] = phase[j] /\ stores'[j] = stores[j]
      /\ activeProject' = None /\ contended' = contended \ {i} /\ failed' = failed \ {i}
      /\ UNCHANGED <<row, settings, blocks, tables, keys, purged, registered, call>>
  BY DEF Closed, disk, LifecycleInv, LifecycleTypeOK
<1>2. LifecycleTypeOK' /\ ActiveOK'
  BY DEF Closed, disk, LifecycleInv, LifecycleTypeOK, ActiveOK
<1>3. \A j \in Instances : ~Alone(j)'
  BY <1>1, OnlyAlone DEF Alone
<1>4. ASSUME NEW k \in Calls PROVE OwnerOK(k)' /\ HeldOK(k)' /\ RowOK(k)'
  <2>1. CASE call[k].pc = "idle"
    BY <1>1, <2>1 DEF OwnerOK, HeldOK, RowOK, Owner, InClear
  <2>2. CASE call[k].pc # "idle"
    <3>1. call[k].inst \in Instances /\ OwnerOK(k) /\ HeldOK(k)
      BY <2>2, CallTypes DEF LifecycleInv
    <3> QED
      BY <1>1, <1>3, <3>1 DEF OwnerOK, HeldOK, RowOK, Owner, InClear
  <2> QED
    BY <2>1, <2>2
<1>5. \A j \in Instances : AloneOK(j)' /\ JoinedOK(j)' /\ PurgedOK(j)' /\ LeftOK(j)'
  BY <1>3 DEF AloneOK, JoinedOK, PurgedOK, LeftOK
<1> QED
  BY <1>2, <1>4, <1>5 DEF LifecycleInv

LEMMA StepData ==
  ASSUME LifecycleInv, NEW i \in Instances, Download(i) \/ Index(i) PROVE LifecycleInv'
<1>1. /\ UNCHANGED <<row, activeProject, phase, stores, keys, purged, registered, call, contended, failed>>
      /\ phase[i] # "closed"
  BY DEF Download, Index, memory, opened, history
<1>2. LifecycleTypeOK' /\ ActiveOK'
  BY <1>1 DEF Download, Index, LifecycleInv, LifecycleTypeOK, ActiveOK
<1>3. ASSUME NEW j \in Instances, Alone(j) PROVE j = i
  BY <1>1, <1>3, OnlyAlone
<1>4. \A k \in Calls : OwnerOK(k)' /\ HeldOK(k)' /\ RowOK(k)'
  BY <1>1 DEF LifecycleInv, OwnerOK, HeldOK, RowOK, Alone, Owner, InClear
<1>5. ASSUME NEW j \in Instances PROVE AloneOK(j)' /\ JoinedOK(j)' /\ PurgedOK(j)' /\ LeftOK(j)'
  <2>1. AloneOK(j) /\ JoinedOK(j) /\ PurgedOK(j) /\ LeftOK(j) /\ (Alone(j)' <=> Alone(j))
    BY <1>1 DEF LifecycleInv, Alone
  <2>2. PurgedOK(j)'
    BY <1>1, <1>3, <2>1 DEF PurgedOK, Download, Index
  <2>3. LeftOK(j)'
    BY <1>1, <1>3, <2>1 DEF LeftOK, Download, Index
  <2> QED
    BY <1>1, <2>1, <2>2, <2>3 DEF AloneOK, JoinedOK, Usable
<1> QED
  BY <1>2, <1>4, <1>5 DEF LifecycleInv

\* Nothing is open, and no call is under way: after a crash, as in the beginning.
LEMMA Restarted ==
  /\ LifecycleInit => LifecycleInv
  /\ LifecycleInv /\ Crash => LifecycleInv'
<1>1. ASSUME LifecycleInit PROVE LifecycleInv
  <2>1. LifecycleTypeOK /\ ActiveOK
    BY <1>1, IdleMade DEF LifecycleInit, LifecycleTypeOK, ActiveOK
  <2>2. \A k \in Calls : OwnerOK(k) /\ HeldOK(k) /\ RowOK(k)
    BY <1>1 DEF LifecycleInit, OwnerOK, HeldOK, RowOK, Owner, InClear, Idle
  <2> QED
    BY <1>1, <2>1, <2>2
    DEF LifecycleInit, LifecycleInv, AloneOK, JoinedOK, PurgedOK, LeftOK, Alone
<1>2. ASSUME LifecycleInv, Crash PROVE LifecycleInv'
  <2>1. LifecycleTypeOK' /\ ActiveOK'
    BY <1>2, IdleMade DEF Crash, disk, LifecycleInv, LifecycleTypeOK, ActiveOK
  <2>2. \A k \in Calls : OwnerOK(k)' /\ HeldOK(k)' /\ RowOK(k)'
    BY <1>2 DEF Crash, OwnerOK, HeldOK, RowOK, Owner, InClear, Idle
  <2> QED
    BY <1>2, <2>1, <2>2
    DEF Crash, LifecycleInv, AloneOK, JoinedOK, PurgedOK, LeftOK, Alone
<1> QED
  BY <1>1, <1>2

----------------------------------------------------------------------------

\* getProject(), by a call that reads or has written the row.
LEMMA StepOpen ==
  ASSUME LifecycleInv, NEW k \in Calls, NEW op \in Operations, NEW left \in BOOLEAN,
         Open(k, op, left), call[k] = Idle \/ call[k].pc = "close",
         row' \in {"none", "joined", "left"}, settings' \in BOOLEAN,
         activeProject # None /\ call[k] = Idle => row' = (IF op = "leave" THEN "left" ELSE row),
         activeProject = None => (row' = "left" => left) /\ (left => row' # "joined"),
         op = "leave" => left, op # "create",
         UNCHANGED <<blocks, tables>>
  PROVE  LifecycleInv'
<1>1. ~Owner(k)
  BY IdleIsNothing DEF Owner, InClear
<1>2. CASE activeProject # None
  <2>1. call[k].pc = "close" => \A i \in Instances : ~Alone(i)
    BY DEF LifecycleInv, AloneOK
  <2> QED
    BY <1>1, <1>2, <2>1, ReturnedActive DEF Open
<1>3. CASE activeProject = None
  BY <1>1, <1>3, Opened DEF Open
<1> QED
  BY <1>2, <1>3

LEMMA StepCreate ==
  ASSUME LifecycleInv, NEW k \in Calls, CreateProject(k) PROVE LifecycleInv'
<1>1. call[k] = Idle /\ \A i \in Instances : ~Alone(i)
  BY DEF CreateProject, Fresh, Alone
<1>2. settings' \in BOOLEAN /\ UNCHANGED <<blocks, tables>> /\ row' = "joined"
  BY DEF CreateProject, LifecycleInv, LifecycleTypeOK
<1>3. CASE NoInstance(k)
  BY <1>1, <1>2, <1>3, IdleIsNothing, StepNoInstance
<1>4. ASSUME NEW i \in Instances, CreateProjectInstance(k, i, TRUE), UNCHANGED activeProject,
             call' = [call EXCEPT ![k] = Call("create", "instance", i, FALSE)]
      PROVE  LifecycleInv'
  BY <1>1, <1>2, <1>4, IdleIsNothing, Opened DEF Operations
<1> QED
  BY <1>3, <1>4 DEF CreateProject

LEMMA StepGet ==
  ASSUME LifecycleInv, NEW k \in Calls, GetProject(k) PROVE LifecycleInv'
  BY StepOpen DEF GetProject, disk, Operations, LifecycleInv, LifecycleTypeOK

LEMMA StepLeave ==
  ASSUME LifecycleInv, NEW k \in Calls, LeaveProject(k) PROVE LifecycleInv'
<1>1. call[k] = Idle /\ row' = "left" /\ settings' \in BOOLEAN /\ UNCHANGED <<blocks, tables>>
  BY DEF LeaveProject
<1>2. CASE Open(k, "leave", TRUE)
  BY <1>1, <1>2, StepOpen DEF Operations
<1>3. CASE NoInstance(k)
  BY <1>1, <1>3, IdleIsNothing, StepNoInstance
<1> QED
  BY <1>2, <1>3 DEF LeaveProject

LEMMA StepAdd ==
  ASSUME LifecycleInv, NEW k \in Calls, AddProject(k) \/ AddAfterClose(k) \/ AddFails(k)
  PROVE  LifecycleInv'
<1>1. settings' \in BOOLEAN /\ UNCHANGED <<blocks, tables>>
  BY DEF AddProject, AddAfterClose, AddFails, disk, LifecycleInv, LifecycleTypeOK
<1>2. CASE AddProject(k) /\ activeProject # None
  <2>1. activeProject \in registered /\ phase[activeProject] # "closed"
    BY <1>2 DEF LifecycleInv, ActiveOK
  <2> QED
    BY <1>2, <2>1, Closing DEF AddProject
<1>3. CASE AddProject(k) /\ activeProject = None
  BY <1>1, <1>3, StepOpen DEF AddProject, Operations
<1>4. CASE AddAfterClose(k)
  <2>1. call[k] # Idle /\ call[k].pc = "close"
    BY <1>4 DEF AddAfterClose, Idle
  <2> QED
    BY <1>1, <1>4, <2>1, StepOpen DEF AddAfterClose, Operations
<1>5. CASE AddFails(k)
  <2>1. ~Owner(k) /\ ~InClear(k) /\ call[k].pc # "role"
    BY <1>5, IdleIsNothing DEF AddFails, Owner, InClear
  <2> QED
    BY <1>1, <1>5, <2>1, StepNoInstance DEF AddFails
<1> QED
  BY <1>2, <1>3, <1>4, <1>5

LEMMA StepInstance ==
  ASSUME LifecycleInv, NEW k \in Calls, HaveInstance(k) PROVE LifecycleInv'
<1> DEFINE i == call[k].inst
<1>1. call[k].pc = "instance" /\ Owner(k) /\ UNCHANGED <<row, settings, blocks, tables, contended, failed>>
  BY DEF HaveInstance, Owner, disk, history
<1>2. i \in Instances /\ stores \in [Instances -> {"closed", "closing", "open"}] /\ settings \in BOOLEAN /\ tables \in BOOLEAN
  BY <1>1, CallTypes DEF LifecycleInv, LifecycleTypeOK
<1>3. ASSUME call[k].op = "create", call' = [call EXCEPT ![k].pc = "settings"], UNCHANGED memory
      PROVE  LifecycleInv'
  <2>1. stores' = [stores EXCEPT ![i] = stores[i]] /\ stores[i] \in {"closed", "closing", "open"}
    BY <1>2, <1>3 DEF memory, opened
  <2> QED
    BY <1>1, <1>3, <2>1, SameInstance DEF memory, opened, history, Waiting
<1>4. ASSUME call[k].op # "create", call[k].left, call' = [call EXCEPT ![k].pc = "stores"],
             stores' = [stores EXCEPT ![i] = "closing"],
             UNCHANGED <<activeProject, phase, keys, purged, registered>>
      PROVE  LifecycleInv'
  BY <1>1, <1>4, SameInstance DEF history, Waiting
<1>5. ASSUME ~call[k].left, Register(i), Returned(k, call[k].op, i), UNCHANGED opened
      PROVE  LifecycleInv'
  <2>1. call[k].op # "leave" /\ call' = [call EXCEPT ![k] = Idle]
    BY <1>1, <1>5 DEF LifecycleInv, OwnerOK, Returned
  <2> QED
    BY <1>1, <1>2, <1>5, <2>1, LetGo
<1> QED
  BY <1>3, <1>4, <1>5 DEF HaveInstance

LEMMA StepSettings ==
  ASSUME LifecycleInv, NEW k \in Calls, SettingsWritten(k) PROVE LifecycleInv'
<1>1. call[k].pc = "settings" /\ Owner(k)
  BY DEF SettingsWritten, Owner
<1>2. ~call[k].left
  BY <1>1, CallTypes DEF LifecycleInv, OwnerOK
<1> QED
  BY <1>1, <1>2, LetGo DEF SettingsWritten, history

LEMMA StepClear ==
  ASSUME LifecycleInv, NEW k \in Calls, RoleAssigned(k) \/ StoresClosed(k) \/ OthersDeleted(k)
  PROVE  LifecycleInv'
<1> DEFINE i == call[k].inst
<1>1. /\ i \in Instances /\ HeldOK(k)
      /\ stores \in [Instances -> {"closed", "open", "closing"}]
  BY CallTypes DEF LifecycleInv, LifecycleTypeOK, RoleAssigned, StoresClosed, OthersDeleted
<1>2. CASE RoleAssigned(k)
  <2> DEFINE s == IF stores[i] = "open" THEN "closing" ELSE stores[i]
  <2>1. s \in {"closed", "closing", "open"} /\ (stores[i] = "closed" => s = "closed")
    BY <1>1
  <2>2. stores' = [stores EXCEPT ![i] = s]
    BY <1>2 DEF RoleAssigned
  <2> HIDE DEF s
  <2> QED
    BY <1>2, <2>1, <2>2, SameInstance DEF RoleAssigned, disk, Waiting
<1>3. CASE StoresClosed(k)
  BY <1>3, SameInstance DEF StoresClosed, disk, Waiting, InClear
<1>4. CASE OthersDeleted(k)
  <2>1. stores[i] = "closed" /\ stores' = [stores EXCEPT ![i] = stores[i]]
    BY <1>1, <1>4 DEF OthersDeleted, HeldOK
  <2> QED
    BY <1>4, <2>1, SameInstance DEF OthersDeleted, Waiting, InClear
<1> QED
  BY <1>2, <1>3, <1>4

LEMMA StepCallEnds ==
  ASSUME LifecycleInv, NEW k \in Calls, Cleared(k) \/ CallFails(k) PROVE LifecycleInv'
<1>1. /\ settings' \in BOOLEAN /\ UNCHANGED <<row, blocks, opened, contended>>
      /\ tables' \in BOOLEAN /\ (tables' => tables)
  <2>1. settings \in BOOLEAN /\ tables \in BOOLEAN
    BY DEF LifecycleInv, LifecycleTypeOK
  <2>2. settings' = settings /\ (tables' = tables \/ tables' = FALSE)
    BY DEF Cleared, CallFails, disk
  <2>3. UNCHANGED <<row, blocks, opened, contended>>
    BY DEF Cleared, CallFails, disk, memory
  <2>4. settings' \in BOOLEAN /\ tables' \in BOOLEAN
    BY <2>1, <2>2
  <2>5. tables' => tables
    BY <2>2, Zenon
  <2> QED
    BY <2>3, <2>4, <2>5, Zenon
<1>2. CASE CallFails(k)
  BY <1>1, <1>2, LetGo DEF CallFails, memory
<1>3. CASE Cleared(k)
  <2>1. call[k].pc = "unlink" /\ InClear(k) /\ ~tables' /\ failed' = failed \ {call[k].inst}
    BY <1>3 DEF Cleared, InClear
  <2>2. CASE call[k].left
    <3>1. Owner(k) /\ Register(call[k].inst) /\ Returned(k, call[k].op, call[k].inst)
      BY <1>3, <2>1, <2>2 DEF Cleared, Owner
    <3>2. \/ call' = [call EXCEPT ![k] = Idle]
          \/ /\ call[k].op = "leave"
             /\ call' = [call EXCEPT ![k] = Call("leave", "role", call[k].inst, FALSE)]
      BY <3>1 DEF Returned
    <3> QED
      BY <1>1, <2>1, <3>1, <3>2, LetGo
  <2>3. CASE ~call[k].left
    BY <1>1, <1>3, <2>1, <2>3, LetGo DEF Cleared
  <2> QED
    BY <2>2, <2>3
<1> QED
  BY <1>2, <1>3

LEMMA LifecycleStep ==
  ASSUME LifecycleInv, [LifecycleNext]_lifecycleVars PROVE LifecycleInv'
<1>1. ASSUME NEW k \in Calls,
             \/ CreateProject(k) \/ GetProject(k) \/ HaveInstance(k) \/ SettingsWritten(k)
             \/ AddProject(k) \/ AddAfterClose(k) \/ AddFails(k)
             \/ LeaveProject(k) \/ RoleAssigned(k) \/ StoresClosed(k) \/ OthersDeleted(k)
             \/ Cleared(k) \/ CallFails(k)
      PROVE  LifecycleInv'
  BY <1>1, StepCreate, StepGet, StepInstance, StepSettings, StepAdd, StepLeave, StepClear, StepCallEnds
<1>2. ASSUME NEW i \in Instances, CloseProject(i) PROVE LifecycleInv'
  BY <1>2, Closing DEF CloseProject
<1>3. ASSUME NEW i \in Instances, Closed(i) \/ Download(i) \/ Index(i) PROVE LifecycleInv'
  BY <1>3, StepClosed, StepData
<1>4. CASE Crash
  BY <1>4, Restarted
<1>5. CASE UNCHANGED lifecycleVars
  BY <1>5
  DEF lifecycleVars, disk, memory, opened, history, LifecycleInv, LifecycleTypeOK, ActiveOK, OwnerOK,
      HeldOK, RowOK, AloneOK, JoinedOK, PurgedOK, LeftOK, Alone, Usable, Owner, InClear
<1> QED
  BY <1>1, <1>2, <1>3, <1>4, <1>5 DEF LifecycleNext

LEMMA LifecycleInvariant == LifecycleSpec => []LifecycleInv
<1>1. LifecycleInit => LifecycleInv
  BY Restarted
<1>2. LifecycleInv /\ [LifecycleNext]_lifecycleVars => LifecycleInv'
  BY LifecycleStep
<1> QED
  BY <1>1, <1>2, PTL DEF LifecycleSpec

\* Calls, instances and what the disk holds are of their kinds in every reachable
\* state, however calls overlap, fail or are cut off by a crash.
THEOREM LifecycleTypes == LifecycleSpec => []LifecycleTypeOK
<1>1. LifecycleInv => LifecycleTypeOK
  BY DEF LifecycleInv
<1> QED
  BY <1>1, LifecycleInvariant, PTL

\* Who opens a project that was left, after crashes, failed calls and instances
\* that overlapped as well, gets it cleared, and it stays so (getProject,
\* leaveProject, kClearData). The instances of an overlap and those on which
\* clearing failed are excepted, by name and not by forbidding the overlap.
THEOREM LeftProjectIsCleared == LifecycleSpec => []LeftIsCleared
<1>1. ASSUME LifecycleInv PROVE LeftIsCleared
  <2> SUFFICES ASSUME NEW i \in Instances, i \notin contended, i \notin failed,
                      row = "left", Active(i), \A k \in Calls : call[k].inst # i
               PROVE  ~blocks /\ ~tables /\ stores[i] # "open"
    BY DEF LeftIsCleared
  <2>1. Alone(i) /\ i \in registered
    BY <1>1, ProjectLifecycleAssumption DEF LifecycleInv, ActiveOK, Active, Alone
  <2>2. ~tables /\ stores[i] = "closed" /\ i \in purged
    BY <1>1, <2>1 DEF LifecycleInv, LeftOK
  <2>3. ~blocks
    BY <1>1, <2>1, <2>2 DEF LifecycleInv, PurgedOK
  <2> QED
    BY <2>2, <2>3
<1> QED
  BY <1>1, LifecycleInvariant, PTL

\* Joining again, while the project is still being left, or after leaving failed or
\* the device crashed, ends with an instance that has its keys and stores, if it
\* is the only one (addProject, getProject, createProject).
THEOREM JoinedProjectIsUsable == LifecycleSpec => []JoinedIsUsable
<1>1. LifecycleInv => JoinedIsUsable
  BY DEF LifecycleInv, JoinedOK, JoinedIsUsable, Active, Alone
<1> QED
  BY <1>1, LifecycleInvariant, PTL

=============================================================================
