--------------------------- MODULE InviteProtocol ---------------------------
(***************************************************************************)
(* How a device is invited to a project: the coordinators' MemberApi and   *)
(* the device's InviteApi over their RPC connections, with users who may   *)
(* accept, reject and cancel at any moment, connections that close, sends  *)
(* that have to wait for the stream to drain, and timeouts.                *)
(***************************************************************************)
EXTENDS MemberApi, InviteApi

inviteVars == <<network, memberApi, inviteApi>>

InviteInit == NetworkInit /\ MemberApiInit /\ InviteApiInit

Disconnect(i) == ConnectionCloses(i) /\ InvitorDisconnected(i) /\ InviteeDisconnected(i)

\* What the invitors' users and devices do.
InvitorStep(id) ==
  /\ \/ Invite(id)
     \/ SendInvite(id)
     \/ InvitorDrains(id)
     \/ ReceiveInviteAck(id)
     \/ ReceiveResponse(id)
     \/ ReceiveDetailsAck(id)
     \/ GrantRole(id)
     \/ FinishInvite(id)
  /\ UNCHANGED inviteApi

\* What the invited user and device do.
InviteeStep(id) ==
  /\ \/ ReceiveInvite(id)
     \/ Accept(id)
     \/ Reject(id)
     \/ SendReply(id)
     \/ InviteeDrains(id)
     \/ ReceiveResponseAck(id)
     \/ ReceiveCancel(id)
     \/ ReceiveDetails(id)
     \/ DetailsTimeout(id)
     \/ ProjectAdded(id)
     \/ AddProjectFails(id)
     \/ AddProjectTimeout(id)
  /\ UNCHANGED memberApi

InviteNext ==
  \/ \E id \in Invites : InvitorStep(id) \/ InviteeStep(id)
  \/ \E i \in Invitors : RequestCancelInvite(i) /\ UNCHANGED inviteApi
  \/ \E i \in Invitors : ConnectionOpens(i) /\ UNCHANGED <<memberApi, inviteApi>>
  \/ \E i \in Invitors : Disconnect(i)

InviteSpec == InviteInit /\ [][InviteNext]_inviteVars

(***************************************************************************)
(* A connection that stays up delivers, a stream drains, local reads and   *)
(* writes and the initial sync (which has a timeout) end.  Users owe       *)
(* nothing.                                                                *)
(***************************************************************************)
Progress(id) ==
  \/ /\ \/ SendInvite(id) \/ InvitorDrains(id) \/ ReceiveInviteAck(id)
        \/ ReceiveResponse(id) \/ ReceiveDetailsAck(id)
        \/ GrantRole(id) \/ FinishInvite(id)
     /\ UNCHANGED inviteApi
  \/ /\ \/ ReceiveInvite(id) \/ SendReply(id) \/ InviteeDrains(id)
        \/ ReceiveResponseAck(id) \/ ReceiveCancel(id) \/ ReceiveDetails(id)
     /\ UNCHANGED memberApi

InviteFairSpec == InviteSpec /\ \A id \in Invites : WF_inviteVars(Progress(id))

-----------------------------------------------------------------------------
\* Types: every variable holds a value the code can give it, and a send is only
\* awaited where the code awaits one.
InviteTypeOK == NetworkTypeOK /\ MemberApiTypeOK /\ InviteApiTypeOK

\* The two sides agree on the answer.  invite() reports the decision that the
\* invited device sent, and a role is only given to a device whose user accepted
\* this very invite.
DecisionsAgree ==
  \A id \in Invites :
    /\ phase[id] = "rejected" => choice[id] = "REJECT"
    /\ phase[id] = "already" => choice[id] = "ALREADY"
    /\ phase[id] \in {"sendingDetails", "assigningRole", "syncing", "accepted"}
         => choice[id] = "ACCEPT"
    /\ id \in granted => choice[id] = "ACCEPT"

\* Whoever joins through an invite accepted it and was sent the keys by an
\* invitor that had received the acceptance.
JoinsWithConsent ==
  \A id \in Invites :
    state[id] \in {"joining.addingProject", "joined"} =>
      /\ choice[id] = "ACCEPT"
      /\ response[id] = "ACCEPT"
      /\ member

\* Of all the invites to a project at most one is being joined or was joined,
\* even when two were accepted.
OneJoins ==
  \A a, b \in Invites :
    {state[a], state[b]} \subseteq {"joining.addingProject", "joined"} => a = b

\* On a connection that stays up and whose streams never have to drain, an
\* invite that is answered ends.
AnsweredInviteEnds ==
  \A id \in Invites :
    [](disconnects = 0 /\ \A x \in Invites : "draining" \notin {send[x], reply[x]})
      => (choice[id] # Null ~> phase[id] \in Ended)

\* Expected by the comment of invite() ("Resolves when receiving a response.
\* Rejects if the invite is canceled, or if something else goes wrong"): on a
\* connection that stays up, an invite that is answered ends.  Fails when the ack
\* arrives before the stream has drained: nothing waits for it yet.
InviteEnds ==
  \A id \in Invites : [](disconnects = 0) => (choice[id] # Null ~> phase[id] \in Ended)
=============================================================================
