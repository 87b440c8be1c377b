------------------------------ MODULE InviteApi ------------------------------
(***************************************************************************)
(* The invited side: InviteApi of src/invite/invite-api.js with one state  *)
(* machine of src/invite/invite-state-machine.js per invite it received,   *)
(* and the part of addProject of src/mapeo-manager.js that decides whether *)
(* the device is in the project.  All invites are to the one project.      *)
(*                                                                         *)
(* A send that the machine has left behind (the state `responding' was     *)
(* exited by other means) goes on in the code without effect and is not    *)
(* followed.                                                               *)
(***************************************************************************)
EXTENDS InviteNetwork

VARIABLES
  state,           \* invite -> state of its machine, "none" if not received
  reply,           \* invite -> where the send of `responding' stands
  member,          \* the project keys table has the project, and it was not left
  choice           \* history: invite -> the decision it was answered with, or Null

inviteApi == <<state, reply, member, choice>>

Responding == {"responding.accept", "responding.reject", "responding.already"}
Joining    == {"joining.awaitingDetails", "joining.addingProject"}
Final      == {"canceled", "rejected", "respondedAlready", "joined", "error"}
States     == {"none", "pending"} \cup Responding \cup Joining \cup Final

\* The invites for which CANCEL_INVITE has a transition.
CanCancel(id) == state[id] \in {"pending", "joining.awaitingDetails"} \cup Responding

StateOf(decision) ==
  CASE decision = "ACCEPT"  -> "responding.accept"
    [] decision = "REJECT"  -> "responding.reject"
    [] decision = "ALREADY" -> "responding.already"

InviteApiInit ==
  /\ state = [id \in Invites |-> "none"]
  /\ reply = [id \in Invites |-> "none"]
  /\ member = FALSE
  /\ choice = [id \in Invites |-> Null]

-----------------------------------------------------------------------------
\* The machines of ids enter `responding' with their decision; the rpc call first
\* waits for pending connections, so it has not written anything yet.
Answer(ids, decision) ==
  /\ state' = [id \in Invites |-> IF id \in ids THEN StateOf(decision[id]) ELSE state[id]]
  /\ reply' = [id \in Invites |-> IF id \in ids THEN "starting" ELSE reply[id]]
  /\ choice' = [id \in Invites |-> IF id \in ids THEN decision[id] ELSE choice[id]]

\* #handleNewInvite for an invite that is not yet known, and the ack.  A member
\* keeps no invite, it only answers.
ReceiveInvite(id) ==
  /\ Arrives(toInvitee, id, "Invite")
  /\ toInvitee' = Deliver(toInvitee, id)
  /\ toInvitor' = Post(toInvitor, id, Message("InviteAck", id))
  /\ IF member
     THEN /\ reply' = [reply EXCEPT ![id] = "starting"]
          /\ choice' = [choice EXCEPT ![id] = "ALREADY"]
          /\ UNCHANGED state
     ELSE /\ state' = [state EXCEPT ![id] = "pending"]
          /\ UNCHANGED <<reply, choice>>
  /\ UNCHANGED <<member, connected, disconnects>>

\* The guard isNotAlreadyJoiningOrInProject: an invite that is still sending its
\* accept does not count.
IsJoiningProject == \E id \in Invites : state[id] \in Joining

\* accept(): this invite is answered with ACCEPT if the guard lets it, and every
\* other pending invite to the project with ALREADY.
Accept(id) ==
  /\ state[id] = "pending"
  /\ Answer({x \in Invites : state[x] = "pending"},
            [x \in Invites |-> IF x = id /\ ~ IsJoiningProject /\ ~ member
                               THEN "ACCEPT" ELSE "ALREADY"])
  /\ UNCHANGED <<member, network>>

\* reject()
Reject(id) ==
  /\ state[id] = "pending"
  /\ Answer({id}, [x \in Invites |-> "REJECT"])
  /\ UNCHANGED <<member, network>>

\* sendInviteResponse gets its peer and writes, or throws.
SendReply(id) ==
  /\ reply[id] = "starting"
  /\ IF connected[InvitorOf[id]]
     THEN /\ toInvitor' = Post(toInvitor, id, Response(id, choice[id]))
          /\ \E w \in IF state[id] \in Responding THEN Written ELSE {"none"} :
               reply' = [reply EXCEPT ![id] = w]
          /\ UNCHANGED state
     ELSE /\ reply' = [reply EXCEPT ![id] = "none"]
          /\ state' = IF state[id] \in Responding THEN [state EXCEPT ![id] = "error"]
                      ELSE state
          /\ UNCHANGED toInvitor
  /\ UNCHANGED <<member, choice, connected, toInvitee, disconnects>>

InviteeDrains(id) ==
  /\ reply[id] = "draining"
  /\ reply' = [reply EXCEPT ![id] = "awaitingAck"]
  /\ UNCHANGED <<state, member, choice, network>>

\* onDone of sendInviteResponse; an ack that nothing waits for is dropped.
ReceiveResponseAck(id) ==
  /\ Arrives(toInvitee, id, "InviteResponseAck")
  /\ toInvitee' = Deliver(toInvitee, id)
  /\ IF reply[id] = "awaitingAck"
     THEN /\ reply' = [reply EXCEPT ![id] = "none"]
          /\ state' = [state EXCEPT ![id] =
                         CASE @ = "responding.accept"  -> "joining.awaitingDetails"
                           [] @ = "responding.reject"  -> "rejected"
                           [] @ = "responding.already" -> "respondedAlready"]
     ELSE UNCHANGED <<state, reply>>
  /\ UNCHANGED <<member, choice, connected, toInvitor, disconnects>>

\* What is left of a reply when the machine leaves `responding'.
Leave(id) == reply' = IF reply[id] = "starting" THEN reply ELSE [reply EXCEPT ![id] = "none"]

\* #handleInviteCancel
ReceiveCancel(id) ==
  /\ Arrives(toInvitee, id, "InviteCancel")
  /\ toInvitee' = Deliver(toInvitee, id)
  /\ IF CanCancel(id)
     THEN state' = [state EXCEPT ![id] = "canceled"] /\ Leave(id)
     ELSE UNCHANGED <<state, reply>>
  /\ UNCHANGED <<member, choice, connected, toInvitor, disconnects>>

\* Defect: addProject does not look whether the project exists.
Defect_AddsTwice(id) == member' = TRUE /\ state' = [state EXCEPT ![id] = "joining.addingProject"]

\* Defect: the row is only written once the project was added.
Defect_RowWrittenLate(id) ==
  IF member THEN state' = [state EXCEPT ![id] = "error"] /\ UNCHANGED member
  ELSE UNCHANGED member /\ state' = [state EXCEPT ![id] = "joining.addingProject"]

\* addProject up to its first await: ProjectExists, or the row is written.
AddProject(id) ==
  IF member THEN state' = [state EXCEPT ![id] = "error"] /\ UNCHANGED member
  ELSE member' = TRUE /\ state' = [state EXCEPT ![id] = "joining.addingProject"]

\* Defect: project details that come too late are not acknowledged.
Defect_LateDetailsNotAcked(id) ==
  /\ Arrives(toInvitee, id, "ProjectJoinDetails")
  /\ toInvitee' = Deliver(toInvitee, id)
  /\ IF state[id] \in {"responding.accept", "joining.awaitingDetails"}
     THEN /\ AddProject(id) /\ Leave(id)
          /\ toInvitor' = Post(toInvitor, id, Message("ProjectJoinDetailsAck", id))
     ELSE UNCHANGED <<state, reply, member, toInvitor>>
  /\ UNCHANGED <<choice, connected, disconnects>>

\* #handleGotProjectDetails, and the ack that LocalPeers sends in any case.
ReceiveDetails(id) ==
  /\ Arrives(toInvitee, id, "ProjectJoinDetails")
  /\ toInvitee' = Deliver(toInvitee, id)
  /\ toInvitor' = Post(toInvitor, id, Message("ProjectJoinDetailsAck", id))
  /\ IF state[id] \in {"responding.accept", "joining.awaitingDetails"}
     THEN AddProject(id) /\ Leave(id)
     ELSE UNCHANGED <<state, reply, member>>
  /\ UNCHANGED <<choice, connected, disconnects>>

\* receiveTimeout
DetailsTimeout(id) ==
  /\ state[id] = "joining.awaitingDetails"
  /\ state' = [state EXCEPT ![id] = "error"]
  /\ UNCHANGED <<reply, member, choice, network>>

\* addProject resolves.
ProjectAdded(id) ==
  /\ state[id] = "joining.addingProject"
  /\ state' = [state EXCEPT ![id] = "joined"]
  /\ UNCHANGED <<reply, member, choice, network>>

\* getProject fails in addProject: the row is deleted again.
AddProjectFails(id) ==
  /\ state[id] = "joining.addingProject"
  /\ state' = [state EXCEPT ![id] = "error"]
  /\ member' = FALSE
  /\ UNCHANGED <<reply, choice, network>>

\* addProjectTimeout: the machine gives up, addProject goes on.  (After 300 s it is
\* past getProject, waiting for the initial sync, and no failure deletes the row.)
AddProjectTimeout(id) ==
  /\ state[id] = "joining.addingProject"
  /\ state' = [state EXCEPT ![id] = "error"]
  /\ UNCHANGED <<reply, member, choice, network>>

\* Replies that wait to drain or for their ack are rejected.
InviteeDisconnected(i) ==
  LET lost == {id \in Invites : InvitorOf[id] = i /\ reply[id] \in {"draining", "awaitingAck"}}
  IN  /\ state' = [id \in Invites |-> IF id \in lost THEN "error" ELSE state[id]]
      /\ reply' = [id \in Invites |-> IF id \in lost THEN "none" ELSE reply[id]]
      /\ UNCHANGED <<member, choice>>

InviteApiTypeOK ==
  /\ state \in [Invites -> States]
  /\ reply \in [Invites -> SendStates \cup {"starting"}]
  /\ member \in BOOLEAN
  /\ choice \in [Invites -> Decisions \cup {Null}]
  /\ \A id \in Invites : reply[id] \in {"draining", "awaitingAck"} => state[id] \in Responding
=============================================================================
