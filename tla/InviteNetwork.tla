---------------------------- MODULE InviteNetwork ----------------------------
(***************************************************************************)
(* The RPC channel of src/local-peers.js as the invite code sees it: one   *)
(* connection between each invitor and the invitee, ordered both ways,     *)
(* lost with everything in it when the connection closes.                  *)
(*                                                                         *)
(* A message is acknowledged by its receiver.  Its sender first waits for  *)
(* the stream to drain if the write filled the buffer, and only then       *)
(* starts to wait for the acknowledgement.                                 *)
(***************************************************************************)
EXTENDS Naturals, Sequences

CONSTANTS
  Invites,         \* invite ids, each of one invite() call
  Invitors,        \* coordinators of the one project
  InvitorOf,       \* the device that sends an invite
  MaxDisconnects,  \* bound: connections that close
  Null

ASSUME NetworkAssumption ==
  /\ InvitorOf \in [Invites -> Invitors]
  /\ MaxDisconnects \in Nat
  /\ Null \notin Invites \cup {"ACCEPT", "REJECT", "ALREADY"}

VARIABLES
  connected,       \* invitor -> the peer is connected
  toInvitee,       \* invitor -> messages on their way to the invitee
  toInvitor,       \* invitor -> messages on their way to the invitor
  disconnects      \* connections that closed so far

network == <<connected, toInvitee, toInvitor, disconnects>>

Decisions  == {"ACCEPT", "REJECT", "ALREADY"}
ToInvitee  == [type : {"Invite", "InviteCancel", "InviteResponseAck",
                       "ProjectJoinDetails"}, id : Invites]
ToInvitor  == [type : {"InviteAck", "ProjectJoinDetailsAck"}, id : Invites]
              \cup [type : {"InviteResponse"}, id : Invites, decision : Decisions]

\* Where a send stands: not under way, waiting to drain, waiting for the ack.
SendStates == {"none", "draining", "awaitingAck"}

\* After channel.messages[type].send: drained at once or not.
Written == {"draining", "awaitingAck"}

Message(type, id) == [type |-> type, id |-> id]
Response(id, decision) == [type |-> "InviteResponse", id |-> id, decision |-> decision]

Arrives(chan, id, type) ==
  LET q == chan[InvitorOf[id]] IN q # <<>> /\ Head(q).type = type /\ Head(q).id = id

Deliver(chan, id)   == [chan EXCEPT ![InvitorOf[id]] = Tail(@)]
Post(chan, id, msg) == [chan EXCEPT ![InvitorOf[id]] = Append(@, msg)]

\* Posts nothing when the peer is not connected: the send throws.
PostIfConnected(chan, id, msg) ==
  IF connected[InvitorOf[id]] THEN Post(chan, id, msg) ELSE chan

NetworkInit ==
  /\ connected = [i \in Invitors |-> TRUE]
  /\ toInvitee = [i \in Invitors |-> <<>>]
  /\ toInvitor = [i \in Invitors |-> <<>>]
  /\ disconnects = 0

ConnectionOpens(i) ==
  /\ ~ connected[i]
  /\ connected' = [connected EXCEPT ![i] = TRUE]
  /\ UNCHANGED <<toInvitee, toInvitor, disconnects>>

ConnectionCloses(i) ==
  /\ connected[i]
  /\ disconnects < MaxDisconnects
  /\ disconnects' = disconnects + 1
  /\ connected' = [connected EXCEPT ![i] = FALSE]
  /\ toInvitee' = [toInvitee EXCEPT ![i] = <<>>]
  /\ toInvitor' = [toInvitor EXCEPT ![i] = <<>>]

NetworkTypeOK ==
  /\ connected \in [Invitors -> BOOLEAN]
  /\ toInvitee \in [Invitors -> Seq(ToInvitee)]
  /\ toInvitor \in [Invitors -> Seq(ToInvitor)]
  /\ disconnects \in 0 .. MaxDisconnects
=============================================================================
