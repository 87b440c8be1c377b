----------------------------- MODULE LocalPeers -----------------------------
(***************************************************************************)
(* The devices a manager is connected to (src/local-peers.js) and what is  *)
(* made of them: the list that is shown, the cores that every open project *)
(* replicates with them (src/mapeo-project.js), and the device info that   *)
(* is sent to each of them (src/mapeo-manager.js).                         *)
(*                                                                         *)
(* Every connection gets a Peer once its stream has opened.  The Peers of  *)
(* a device are kept in a set; it shows none while one of them is still    *)
(* connecting, and else the one chosen by chooseDevicePeer().  A Peer that *)
(* disconnects is kept unless the device has another.  Here a Peer is      *)
(* named by its connection.  LocalDiscovery hands over one connection of a *)
(* device at a time (OneHandedOver), but connect() takes any number.       *)
(*                                                                         *)
(* Left out: the messages of invites (InviteNetwork), map shares, and the  *)
(* names and types in device info.                                         *)
(***************************************************************************)
EXTENDS Naturals, FiniteSets

CONSTANTS
  Devices,    \* the other devices
  Conns,      \* connections that may be made
  DeviceOf,   \* connection -> the device at its other end
  Projects,
  MaxOpens,   \* bound: times that projects are opened
  None

ASSUME LocalPeersAssumption ==
  /\ IsFiniteSet(Conns) /\ DeviceOf \in [Conns -> Devices]
  /\ MaxOpens \in Nat
  /\ None \notin Conns

VARIABLES
  stream,          \* connection -> state of its noise stream
  status,          \* connection -> state of its Peer
  connectedAt,     \* connection -> time at which its Peer connected, 0 before
  disconnectedAt,  \* connection -> time at which its Peer disconnected, 0 before
  peers,           \* device -> its Peers (#peers)
  lastEmitted,     \* the Peers of the last 'peers' event (#lastEmittedPeers)
  opening,         \* connections in #opening
  projects,        \* the open projects
  replicating,     \* project -> connections its creator core replicates on
  sends,           \* connection -> the sendDeviceInfo() call made for it
  overlapped,      \* history: devices that had two live connections at a time
  opens

vars == <<stream, status, connectedAt, disconnectedAt, peers, lastEmitted, opening,
          projects, replicating, sends, overlapped, opens>>
peerVars == <<status, connectedAt, disconnectedAt, peers>>

SendSteps == {"none", "pending", "choosing", "sent", "failed"}
Send == [step : SendSteps,
         waitsFor : SUBSET Conns,    \* the connections that were opening
         on : Conns \cup {None}]     \* the connection the message was sent on

TypeOK ==
  /\ stream \in [Conns -> {"none", "opening", "opened", "closed"}]
  /\ status \in [Conns -> {"none", "connecting", "connected", "disconnected"}]
  /\ connectedAt \in [Conns -> Nat] /\ disconnectedAt \in [Conns -> Nat]
  /\ peers \in [Devices -> SUBSET Conns]
  /\ lastEmitted \subseteq Conns /\ opening \subseteq Conns
  /\ projects \subseteq Projects
  /\ replicating \in [Projects -> SUBSET Conns]
  /\ sends \in [Conns -> Send]
  /\ overlapped \subseteq Devices /\ opens \in 0 .. MaxOpens

Init ==
  /\ stream = [c \in Conns |-> "none"]
  /\ status = [c \in Conns |-> "none"]
  /\ connectedAt = [c \in Conns |-> 0]
  /\ disconnectedAt = [c \in Conns |-> 0]
  /\ peers = [d \in Devices |-> {}]
  /\ lastEmitted = {} /\ opening = {}
  /\ projects = {}
  /\ replicating = [p \in Projects |-> {}]
  /\ sends = [c \in Conns |-> [step |-> "none", waitsFor |-> {}, on |-> None]]
  /\ overlapped = {} /\ opens = 0

----------------------------------------------------------------------------
(* Which Peer a device shows *)

\* Defect: a Peer that is connecting does not hide the others.
Defect_ConnectingIgnored(set, st, conn, disc) ==
  LET up == {c \in set : st[c] = "connected"}
      down == {c \in set : st[c] = "disconnected"}
  IN IF up # {} THEN {c \in up : \A e \in up : conn[c] <= conn[e]}
     ELSE {c \in down : \A e \in down : disc[c] >= disc[e]}

\* The connected Peer that has been so for longest, or else the Peer that
\* disconnected last; none while one is connecting.
ChooseDevicePeer(set, st, conn, disc) ==
  IF set = {} \/ \E c \in set : st[c] = "connecting" THEN {}
  ELSE LET up == {c \in set : st[c] = "connected"}
       IN IF up # {} THEN {c \in up : \A e \in up : conn[c] <= conn[e]}
          ELSE {c \in set : \A e \in set : disc[c] >= disc[e]}

Shown(d) == ChooseDevicePeer(peers[d], status, connectedAt, disconnectedAt)
AllShown == UNION {Shown(d) : d \in Devices}

\* #emitPeers: 'peer-add' for every connected Peer that is shown and was not
\* in the last event; a project that is open replicates with it.  Calls that
\* wait for a Peer of their device look at the list again (below).
EmitPeers ==
  LET added == {c \in AllShown' \ lastEmitted : status'[c] = "connected"} IN
  /\ lastEmitted' = AllShown'
  /\ replicating' = [p \in Projects |->
       IF p \in projects THEN (replicating[p] \ {c \in Conns : stream'[c] = "closed"}) \cup added
       ELSE replicating[p]]

\* The times of one device are all that is ever compared.
NextTime(times, d) == Cardinality({c \in Conns : DeviceOf[c] = d /\ times[c] > 0}) + 1

----------------------------------------------------------------------------
(* Connections *)

\* connect(): listens to the stream, which opens or closes later.  The manager
\* makes a call of sendDeviceInfo when it has opened.
Connect(c) ==
  LET d == DeviceOf[c] IN
  /\ stream[c] = "none"
  /\ stream' = [stream EXCEPT ![c] = "opening"]
  /\ opening' = opening \cup {c}
  /\ overlapped' = IF \E e \in Conns : DeviceOf[e] = d /\ stream[e] \in {"opening", "opened"}
                   THEN overlapped \cup {d} ELSE overlapped
  /\ UNCHANGED <<peerVars, lastEmitted, projects, replicating, sends, opens>>

\* #makePeer, when the stream has opened: creates the channel and a Peer that
\* is connecting; nothing is emitted.  Then the manager calls sendDeviceInfo,
\* which waits for all connections that are opening at this time.
StreamOpens(c) ==
  LET d == DeviceOf[c] IN
  /\ stream[c] = "opening"
  /\ stream' = [stream EXCEPT ![c] = "opened"]
  /\ status' = [status EXCEPT ![c] = "connecting"]
  /\ peers' = [peers EXCEPT ![d] = @ \cup {c}]
  /\ sends' = [sends EXCEPT ![c] = [step |-> "pending", waitsFor |-> opening, on |-> None]]
  /\ UNCHANGED <<connectedAt, disconnectedAt, lastEmitted, opening, projects, replicating,
                 overlapped, opens>>

\* #makePeer once more, for the channel that the other device opened: there is
\* a channel, and the connection counts as open before it is.
MakePeerAgain(c) ==
  /\ status[c] = "connecting" /\ c \in opening
  /\ opening' = opening \ {c}
  /\ UNCHANGED <<stream, peerVars, lastEmitted, projects, replicating, sends, overlapped, opens>>

\* onopen of the channel.
ChannelOpens(c) ==
  /\ status[c] = "connecting"
  /\ status' = [status EXCEPT ![c] = "connected"]
  /\ connectedAt' = [connectedAt EXCEPT ![c] = NextTime(connectedAt, DeviceOf[c])]
  /\ opening' = opening \ {c}
  /\ UNCHANGED <<stream, disconnectedAt, peers, projects, sends, overlapped, opens>>
  /\ EmitPeers

\* The Peers that are kept when c has disconnected: duplicates are not.
Kept(d, c) == IF Cardinality(peers[d]) > 1 THEN peers[d] \ {c} ELSE peers[d]

\* The stream closes, and with it the channel (onclose): the Peer is dropped
\* if the device has another.
StreamCloses(c) ==
  LET d == DeviceOf[c] IN
  /\ stream[c] \in {"opening", "opened"}
  /\ stream' = [stream EXCEPT ![c] = "closed"]
  /\ opening' = opening \ {c}
  /\ \/ /\ status[c] = "none"    \* it never had a Peer
        /\ UNCHANGED <<peerVars, lastEmitted, replicating>>
     \/ /\ status[c] # "none"
        /\ status' = [status EXCEPT ![c] = "disconnected"]
        /\ disconnectedAt' = [disconnectedAt EXCEPT ![c] = NextTime(disconnectedAt, d)]
        /\ peers' = [peers EXCEPT ![d] = Kept(d, c)]
        /\ UNCHANGED connectedAt
        /\ EmitPeers
  /\ UNCHANGED <<projects, sends, overlapped, opens>>

\* A DeviceInfo message arrives: it is kept, and the list is emitted again.
ReceiveDeviceInfo(c) ==
  /\ status[c] = "connected"
  /\ UNCHANGED <<stream, peerVars, opening, projects, sends, overlapped, opens>>
  /\ EmitPeers

----------------------------------------------------------------------------
(* sendDeviceInfo(): waits for pending connections, then for a Peer *)

PendingDone(c) ==
  /\ sends[c].step = "pending"
  /\ sends[c].waitsFor \cap opening = {}
  /\ sends' = [sends EXCEPT ![c].step = "choosing", ![c].waitsFor = {}]
  /\ UNCHANGED <<stream, peerVars, lastEmitted, opening, projects, replicating, overlapped, opens>>

\* #getPeerByDeviceId returns the Peer that is shown, or waits for a 'peers'
\* event after which there is one; every event that changes it emits.
SendOn(c) ==
  /\ sends[c].step = "choosing"
  /\ \E e \in Shown(DeviceOf[c]) :
       sends' = [sends EXCEPT ![c].step = "sent", ![c].on = e]
  /\ UNCHANGED <<stream, peerVars, lastEmitted, opening, projects, replicating, overlapped, opens>>

\* Either wait is given up after a second, while there still is something to
\* wait for.
SendTimesOut(c) ==
  /\ \/ sends[c].step = "pending" /\ sends[c].waitsFor \cap opening # {}
     \/ sends[c].step = "choosing" /\ Shown(DeviceOf[c]) = {}
  /\ sends' = [sends EXCEPT ![c].step = "failed", ![c].waitsFor = {}]
  /\ UNCHANGED <<stream, peerVars, lastEmitted, opening, projects, replicating, overlapped, opens>>

----------------------------------------------------------------------------
(* Projects *)

\* Defect: only Peers that are added later are replicated with.
Defect_LaterPeersOnly(p) ==
  /\ p \notin projects /\ opens < MaxOpens
  /\ projects' = projects \cup {p}
  /\ opens' = opens + 1
  /\ UNCHANGED <<stream, peerVars, lastEmitted, opening, replicating, sends, overlapped>>

\* The constructor of MapeoProject replicates with the connected peers and
\* listens to 'peer-add'.
OpenProject(p) ==
  /\ p \notin projects /\ opens < MaxOpens
  /\ projects' = projects \cup {p}
  /\ opens' = opens + 1
  /\ replicating' = [replicating EXCEPT ![p] = {c \in AllShown : status[c] = "connected"}]
  /\ UNCHANGED <<stream, peerVars, lastEmitted, opening, sends, overlapped>>

CloseProject(p) ==
  /\ p \in projects
  /\ projects' = projects \ {p}
  /\ replicating' = [replicating EXCEPT ![p] = {}]
  /\ UNCHANGED <<stream, peerVars, lastEmitted, opening, sends, overlapped, opens>>

Next ==
  \/ \E c \in Conns :
       \/ Connect(c) \/ StreamOpens(c) \/ MakePeerAgain(c) \/ ChannelOpens(c)
       \/ StreamCloses(c) \/ ReceiveDeviceInfo(c)
       \/ PendingDone(c) \/ SendOn(c) \/ SendTimesOut(c)
  \/ \E p \in Projects : OpenProject(p) \/ CloseProject(p)

Spec == Init /\ [][Next]_vars

\* A call that has nothing to wait for goes on, and a timer that nothing stops
\* fires.
FairSpec ==
  Spec /\ \A c \in Conns :
            WF_vars(PendingDone(c)) /\ WF_vars(SendOn(c)) /\ WF_vars(SendTimesOut(c))

----------------------------------------------------------------------------
(* Properties *)

Deduplicated(c) == DeviceOf[c] \notin overlapped

\* Every open project replicates its creator core on every connection that is
\* up, and on no other: a connection that opens before, after or while the
\* project is opened is neither missed nor replicated twice.
ProjectsReplicate ==
  \A p \in projects, c \in Conns :
    Deduplicated(c) => (c \in replicating[p] <=> status[c] = "connected")

\* What the last 'peers' event said of a device that is not connecting is what
\* holds: no connection is shown that has ended, and none that is up is hidden.
ListIsTrue ==
  \A d \in Devices :
    (\A c \in peers[d] : status[c] # "connecting") =>
      lastEmitted \cap {c \in Conns : DeviceOf[c] = d} = Shown(d)

\* However often devices reconnect, one Peer is kept for a device that is gone,
\* and none beside those that are live.
DisconnectedKeptOnce ==
  \A d \in Devices :
    /\ Cardinality({c \in peers[d] : status[c] = "disconnected"}) <= 1
    /\ {c \in Conns : DeviceOf[c] = d /\ status[c] \in {"connecting", "connected"}}
         \subseteq peers[d]

\* A connection that stays up gets the device info, on itself and not on an
\* older connection of the device, unless the call has timed out.
InfoIsSent ==
  \A c \in Conns :
    status[c] = "connected" ~>
      \/ sends[c].step = "sent" /\ sends[c].on = c
      \/ sends[c].step = "failed" \/ stream[c] = "closed" \/ ~ Deduplicated(c)
=============================================================================
