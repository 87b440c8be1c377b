------------------------------ MODULE MemberApi ------------------------------
(***************************************************************************)
(* The inviting side: invite() and requestCancelInvite() of                *)
(* src/member-api.js, on every coordinator of one project, all inviting    *)
(* one device.                                                             *)
(*                                                                         *)
(* An invite() call walks through its awaits: `phase' says at which it     *)
(* waits, or how it ended.  #outboundInvitesByDevice is reduced to the     *)
(* entry of the one device that is invited.                                *)
(***************************************************************************)
EXTENDS InviteNetwork

VARIABLES
  phase,           \* invite -> where its invite() call is
  send,            \* invite -> where the rpc send that the call awaits stands
  response,        \* invite -> what its responsePromise resolved to, or Null
  aborted,         \* invite -> its abort signal
  outbound,        \* invitor -> the invite in #outboundInvitesByDevice, or Null
  granted          \* invites whose device got its role by assignRole

memberApi == <<phase, send, response, aborted, outbound, granted>>

Ended == {"accepted", "rejected", "already", "aborted", "failed"}
Cancelable == {"preparing", "sendingInvite", "awaitingResponse"}
Phases == {"idle", "sendingDetails", "assigningRole", "syncing"} \cup Cancelable \cup Ended

MemberApiInit ==
  /\ phase = [id \in Invites |-> "idle"]
  /\ send = [id \in Invites |-> "none"]
  /\ response = [id \in Invites |-> Null]
  /\ aborted = [id \in Invites |-> FALSE]
  /\ outbound = [i \in Invitors |-> Null]
  /\ granted = {}

-----------------------------------------------------------------------------
\* #outboundInvitesByDevice.delete(deviceId): by device, whoever set the entry.
DeleteOutbound(id) == outbound' = [outbound EXCEPT ![InvitorOf[id]] = Null]

\* invite() returns or throws; its finally block runs.
End(id, how) ==
  /\ phase' = [phase EXCEPT ![id] = how]
  /\ send' = [send EXCEPT ![id] = "none"]
  /\ DeleteOutbound(id)

\* invite() up to its first await.
Invite(id) ==
  /\ phase[id] = "idle"
  /\ outbound[InvitorOf[id]] = Null
  /\ outbound' = [outbound EXCEPT ![InvitorOf[id]] = id]
  /\ phase' = [phase EXCEPT ![id] = "preparing"]
  /\ UNCHANGED <<send, response, aborted, granted, network>>

\* The name and the project are read, and #sendInviteAndGetResponse starts.
SendInvite(id) ==
  /\ phase[id] = "preparing"
  /\ UNCHANGED <<response, aborted, granted, connected, toInvitor, disconnects>>
  /\ \/ aborted[id] /\ End(id, "aborted") /\ UNCHANGED toInvitee
     \/ ~ aborted[id] /\ ~ connected[InvitorOf[id]] /\ End(id, "failed") /\ UNCHANGED toInvitee
     \/ /\ ~ aborted[id] /\ connected[InvitorOf[id]]
        /\ phase' = [phase EXCEPT ![id] = "sendingInvite"]
        /\ \E s \in Written : send' = [send EXCEPT ![id] = s]
        /\ toInvitee' = Post(toInvitee, id, Message("Invite", id))
        /\ UNCHANGED outbound

\* The stream drains: from now on the send waits for the acknowledgement.
InvitorDrains(id) ==
  /\ send[id] = "draining"
  /\ send' = [send EXCEPT ![id] = "awaitingAck"]
  /\ UNCHANGED <<phase, response, aborted, outbound, granted, network>>

\* receiveAck: resolves sendInvite if it waits for it, otherwise the ack is
\* dropped.  Then responsePromise is awaited, which an abort has rejected.  (The
\* channel is ordered, so no response comes before the ack of its invite.)
ReceiveInviteAck(id) ==
  /\ Arrives(toInvitor, id, "InviteAck")
  /\ toInvitor' = Deliver(toInvitor, id)
  /\ UNCHANGED <<response, aborted, granted, connected, toInvitee, disconnects>>
  /\ IF phase[id] # "sendingInvite" \/ send[id] # "awaitingAck"
     THEN UNCHANGED <<phase, send, outbound>>
     ELSE IF aborted[id] THEN End(id, "aborted")
     ELSE /\ phase' = [phase EXCEPT ![id] = "awaitingResponse"]
          /\ send' = [send EXCEPT ![id] = "none"]
          /\ UNCHANGED outbound

\* invite() goes on to send the keys of the project, after the messages `chan'.
SendDetails(id, chan) ==
  /\ phase' = [phase EXCEPT ![id] = "sendingDetails"]
  /\ \E s \in Written : send' = [send EXCEPT ![id] = s]
  /\ toInvitee' = Post(chan, id, Message("ProjectJoinDetails", id))

\* Defect: ALREADY is reported as a rejection.
Defect_AlreadyRejected(id, decision, chan) ==
  IF decision = "ACCEPT" THEN SendDetails(id, chan) /\ DeleteOutbound(id)
  ELSE toInvitee' = chan /\ End(id, "rejected")

\* invite() from the response to its next await or its end.
Decide(id, decision, chan) ==
  IF decision = "ACCEPT" THEN SendDetails(id, chan) /\ DeleteOutbound(id)
  ELSE toInvitee' = chan /\ End(id, IF decision = "REJECT" THEN "rejected" ELSE "already")

\* The 'invite-response' event, heard from the send of the invite on until it was
\* answered or aborted; LocalPeers acknowledges the message in any case.
ReceiveResponse(id) ==
  LET decision == Head(toInvitor[InvitorOf[id]]).decision
      acked    == Post(toInvitee, id, Message("InviteResponseAck", id))
      hears    == /\ phase[id] \in {"sendingInvite", "awaitingResponse"}
                  /\ response[id] = Null
                  /\ ~ aborted[id]
  IN  /\ Arrives(toInvitor, id, "InviteResponse")
      /\ toInvitor' = Deliver(toInvitor, id)
      /\ response' = IF hears THEN [response EXCEPT ![id] = decision] ELSE response
      /\ IF hears /\ phase[id] = "awaitingResponse"
         THEN Decide(id, decision, acked)
         ELSE toInvitee' = acked /\ UNCHANGED <<phase, send, outbound>>
      /\ UNCHANGED <<aborted, granted, connected, disconnects>>

\* sendProjectJoinDetails resolves; assignRole starts.
ReceiveDetailsAck(id) ==
  /\ Arrives(toInvitor, id, "ProjectJoinDetailsAck")
  /\ toInvitor' = Deliver(toInvitor, id)
  /\ IF phase[id] = "sendingDetails" /\ send[id] = "awaitingAck"
     THEN /\ phase' = [phase EXCEPT ![id] = "assigningRole"]
          /\ send' = [send EXCEPT ![id] = "none"]
     ELSE UNCHANGED <<phase, send>>
  /\ UNCHANGED <<response, aborted, outbound, granted, connected, toInvitee, disconnects>>

\* assignRole and the device info are written; waitForInitialSyncWithPeer starts.
GrantRole(id) ==
  /\ phase[id] = "assigningRole"
  /\ phase' = [phase EXCEPT ![id] = "syncing"]
  /\ granted' = granted \cup {id}
  /\ UNCHANGED <<send, response, aborted, outbound, network>>

\* The initial sync ended or timed out.
FinishInvite(id) ==
  /\ phase[id] = "syncing"
  /\ End(id, "accepted")
  /\ UNCHANGED <<response, aborted, granted, network>>

\* requestCancelInvite.  The abort listener of #sendInviteAndGetResponse sends the
\* cancel; a call that waits for the response ends, one that still waits for the
\* invite to be acknowledged goes on waiting.
RequestCancelInvite(i) ==
  /\ outbound[i] # Null
  /\ LET id == outbound[i]
     IN  /\ ~ aborted[id]
         /\ aborted' = [aborted EXCEPT ![id] = TRUE]
         /\ toInvitee' = IF phase[id] = "preparing" THEN toInvitee
                         ELSE PostIfConnected(toInvitee, id, Message("InviteCancel", id))
         /\ IF phase[id] = "awaitingResponse" THEN End(id, "aborted")
            ELSE UNCHANGED <<phase, send, outbound>>
  /\ UNCHANGED <<response, granted, connected, toInvitor, disconnects>>

\* A send that waits to drain or for its ack is rejected: the call ends with
\* InviteAborted or ProjectDetailsSendFail.
InvitorDisconnected(i) ==
  LET lost == {id \in Invites : InvitorOf[id] = i /\ send[id] # "none"}
  IN  /\ phase' = [id \in Invites |-> IF id \in lost THEN "failed" ELSE phase[id]]
      /\ send' = [id \in Invites |-> IF id \in lost THEN "none" ELSE send[id]]
      /\ outbound' = IF lost = {} THEN outbound ELSE [outbound EXCEPT ![i] = Null]
      /\ UNCHANGED <<response, aborted, granted>>

MemberApiTypeOK ==
  /\ phase \in [Invites -> Phases]
  /\ send \in [Invites -> SendStates]
  /\ response \in [Invites -> Decisions \cup {Null}]
  /\ aborted \in [Invites -> BOOLEAN]
  /\ outbound \in [Invitors -> Invites \cup {Null}]
  /\ granted \subseteq Invites
  /\ \A id \in Invites : send[id] # "none" => phase[id] \in {"sendingInvite", "sendingDetails"}
=============================================================================
