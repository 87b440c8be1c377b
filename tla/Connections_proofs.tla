------------------------- MODULE Connections_proofs --------------------------
(***************************************************************************)
(* Connections between devices: the list of peers that a connection makes  *)
(* (LocalPeers, the first half), and which connection of two devices is    *)
(* handed over (LocalDiscovery, the second half).                          *)
(*                                                                         *)
(* That the list of peers is true, that Peers do not pile up, and that     *)
(* open projects replicate on the connections that are up holds for any    *)
(* devices, projects, connections and order of events. ListIsTrue needs    *)
(* only that every change of a Peer is followed by an event.               *)
(* ProjectsReplicate needs also that a device that never had two           *)
(* connections at a time has one that is live (OneLive), and that nothing  *)
(* has been shown that was never connected (ShownWasUp): a project is told *)
(* of additions only.                                                      *)
(***************************************************************************)
EXTENDS LocalPeers, LocalDiscovery, FiniteSetTheorems, WellFoundedInduction,
        SequenceTheorems, TLAPS

Live(c) == stream[c] \in {"opening", "opened"}

OneLive ==
  \A c \in Conns, e \in Conns :
    DeviceOf[c] = DeviceOf[e] /\ Live(c) /\ Live(e) /\ Deduplicated(c) => c = e

\* A Peer is that of its device, and is live exactly if its stream is open.
PeersOK ==
  /\ \A d \in Devices : \A c \in peers[d] : DeviceOf[c] = d /\ status[c] # "none"
  /\ \A c \in Conns :
       /\ status[c] \in {"connecting", "connected"} <=> stream[c] = "opened"
       /\ status[c] \in {"connecting", "connected"} => c \in peers[DeviceOf[c]]
       /\ status[c] = "disconnected" => stream[c] = "closed"

ShownWasUp == \A c \in lastEmitted : status[c] \in {"connected", "disconnected"}

IInv ==
  /\ TypeOK /\ PeersOK /\ OneLive /\ ShownWasUp
  /\ ListIsTrue /\ DisconnectedKeptOnce /\ ProjectsReplicate

----------------------------------------------------------------------------
(* What is shown *)

LEMMA ShownIsAPeer ==
  ASSUME NEW d \in Devices
  PROVE  /\ Shown(d) \subseteq peers[d]
         /\ \A c \in Shown(d) : status[c] # "connecting"
  BY DEF Shown, ChooseDevicePeer

\* What is shown of one device.
LEMMA ShownOf ==
  ASSUME PeersOK, NEW d \in Devices
  PROVE  AllShown \cap {c \in Conns : DeviceOf[c] = d} = Shown(d) \cap Conns
<1>1. \A e \in Devices : \A c \in Shown(e) : DeviceOf[c] = e
  BY ShownIsAPeer DEF PeersOK
<1> QED
  BY <1>1 DEF AllShown

\* A device that never had two connections at a time shows the one that is up.
LEMMA TheOneIsShown ==
  ASSUME TypeOK, PeersOK, OneLive, NEW c \in Conns, Deduplicated(c), status[c] = "connected"
  PROVE  c \in AllShown
<1> DEFINE d == DeviceOf[c]
<1>1. d \in Devices /\ c \in peers[d]
  BY LocalPeersAssumption DEF PeersOK
<1>2. \A e \in peers[d] : status[e] \in {"connecting", "connected"} => e = c
  BY <1>1 DEF TypeOK, PeersOK, OneLive, Live
<1>3. connectedAt[c] <= connectedAt[c]
  BY DEF TypeOK
<1>4. c \in Shown(d)
  BY <1>1, <1>2, <1>3 DEF Shown, ChooseDevicePeer
<1> QED
  BY <1>1, <1>4 DEF AllShown

LEMMA NextTimeType == ASSUME NEW times, NEW d PROVE NextTime(times, d) \in Nat
<1>1. IsFiniteSet({c \in Conns : DeviceOf[c] = d /\ times[c] > 0})
  BY LocalPeersAssumption, FS_Subset
<1> QED
  BY <1>1, FS_CardinalityType DEF NextTime

----------------------------------------------------------------------------
LEMMA InitIInv == Init => IInv
<1> SUFFICES ASSUME Init PROVE IInv
  OBVIOUS
<1> USE LocalPeersAssumption DEF Init
<1>1. TypeOK
  BY DEF TypeOK, Send, SendSteps
<1>2. PeersOK /\ OneLive /\ ShownWasUp
  BY DEF PeersOK, OneLive, Live, ShownWasUp
<1>3. ListIsTrue
  BY DEF ListIsTrue, Shown, ChooseDevicePeer
<1>4. DisconnectedKeptOnce
  <2>1. ASSUME NEW d \in Devices PROVE {c \in peers[d] : status[c] = "disconnected"} = {}
    OBVIOUS
  <2> QED
    BY <2>1, FS_EmptySet DEF DisconnectedKeptOnce
<1>5. ProjectsReplicate
  BY DEF ProjectsReplicate
<1> QED
  BY <1>1, <1>2, <1>3, <1>4, <1>5 DEF IInv

----------------------------------------------------------------------------
(* Type correctness *)

\* Types are kept by the event.
LEMMA EmitType ==
  ASSUME TypeOK, EmitPeers, peers' \in [Devices -> SUBSET Conns]
  PROVE  lastEmitted' \subseteq Conns /\ replicating' \in [Projects -> SUBSET Conns]
<1>1. AllShown' \subseteq Conns
  BY DEF AllShown, Shown, ChooseDevicePeer
<1> QED
  BY <1>1 DEF EmitPeers, TypeOK

LEMMA TypeStep ==
  ASSUME TypeOK, [Next]_vars
  PROVE  TypeOK'
<1> USE LocalPeersAssumption DEF TypeOK
<1>1. ASSUME NEW c \in Conns, Connect(c) PROVE TypeOK'
  BY <1>1 DEF Connect, peerVars
<1>2. ASSUME NEW c \in Conns, StreamOpens(c) PROVE TypeOK'
  <2>1. [step |-> "pending", waitsFor |-> opening, on |-> None] \in Send
    BY DEF Send, SendSteps
  <2> QED
    BY <1>2, <2>1 DEF StreamOpens
<1>3. ASSUME NEW c \in Conns, MakePeerAgain(c) PROVE TypeOK'
  BY <1>3 DEF MakePeerAgain, peerVars
<1>4. ASSUME NEW c \in Conns, ChannelOpens(c) PROVE TypeOK'
  <2>1. UNCHANGED <<stream, disconnectedAt, peers, projects, sends, overlapped, opens>>
    BY <1>4 DEF ChannelOpens
  <2>2. status' \in [Conns -> {"none", "connecting", "connected", "disconnected"}]
        /\ connectedAt' \in [Conns -> Nat] /\ opening' \subseteq Conns
    BY <1>4, NextTimeType DEF ChannelOpens
  <2>3. lastEmitted' \subseteq Conns /\ replicating' \in [Projects -> SUBSET Conns]
    BY <1>4, <2>1, EmitType DEF ChannelOpens
  <2> QED
    BY <2>1, <2>2, <2>3
<1>5. ASSUME NEW c \in Conns, StreamCloses(c) PROVE TypeOK'
  <2>1. /\ stream' \in [Conns -> {"none", "opening", "opened", "closed"}]
        /\ opening' \subseteq Conns /\ UNCHANGED <<projects, sends, overlapped, opens, connectedAt>>
    BY <1>5 DEF StreamCloses, peerVars
  <2>2. CASE status[c] = "none"
    BY <1>5, <2>1, <2>2 DEF StreamCloses, peerVars
  <2>3. CASE status[c] # "none"
    <3>1. status' \in [Conns -> {"none", "connecting", "connected", "disconnected"}]
          /\ disconnectedAt' \in [Conns -> Nat]
      BY <1>5, <2>3, NextTimeType DEF StreamCloses
    <3>2. peers' \in [Devices -> SUBSET Conns]
      BY <1>5, <2>3 DEF StreamCloses, Kept
    <3>3. lastEmitted' \subseteq Conns /\ replicating' \in [Projects -> SUBSET Conns]
      BY <1>5, <2>3, <3>2, EmitType DEF StreamCloses
    <3> QED
      BY <2>1, <3>1, <3>2, <3>3
  <2> QED
    BY <2>2, <2>3
<1>6. ASSUME NEW c \in Conns, ReceiveDeviceInfo(c) PROVE TypeOK'
  <2>1. UNCHANGED <<stream, status, connectedAt, disconnectedAt, peers, opening, projects,
                    sends, overlapped, opens>>
    BY <1>6 DEF ReceiveDeviceInfo, peerVars
  <2> QED
    BY <1>6, <2>1, EmitType DEF ReceiveDeviceInfo
<1>7. ASSUME NEW c \in Conns, PendingDone(c) \/ SendOn(c) \/ SendTimesOut(c) PROVE TypeOK'
  <2>1. UNCHANGED <<stream, status, connectedAt, disconnectedAt, peers, lastEmitted, opening,
                    projects, replicating, overlapped, opens>>
    BY <1>7 DEF PendingDone, SendOn, SendTimesOut, peerVars
  <2>2. \A s \in Send, e \in Conns :
          /\ [s EXCEPT !.step = "choosing", !.waitsFor = {}] \in Send
          /\ [s EXCEPT !.step = "failed", !.waitsFor = {}] \in Send
          /\ [s EXCEPT !.step = "sent", !.on = e] \in Send
    BY DEF Send, SendSteps
  <2>3. \A e \in Shown(DeviceOf[c]) : e \in Conns
    BY ShownIsAPeer
  <2>4. \E s \in Send : sends' = [sends EXCEPT ![c] = s]
    BY <1>7, <2>2, <2>3 DEF PendingDone, SendOn, SendTimesOut
  <2> QED
    BY <2>1, <2>4
<1>8. ASSUME NEW p \in Projects, OpenProject(p) PROVE TypeOK'
  <2>1. AllShown \subseteq Conns
    BY ShownIsAPeer DEF AllShown
  <2> QED
    BY <1>8, <2>1 DEF OpenProject, peerVars
<1>9. ASSUME NEW p \in Projects, CloseProject(p) PROVE TypeOK'
  BY <1>9 DEF CloseProject, peerVars
<1>10. CASE UNCHANGED vars
  BY <1>10 DEF vars, peerVars
<1> QED
  BY <1>1, <1>2, <1>3, <1>4, <1>5, <1>6, <1>7, <1>8, <1>9, <1>10 DEF Next

----------------------------------------------------------------------------
(* The Peers *)

LEMMA PeersStep ==
  ASSUME IInv, [Next]_vars
  PROVE  PeersOK'
<1> USE LocalPeersAssumption DEF IInv, TypeOK, PeersOK
<1>1. ASSUME NEW c \in Conns, Connect(c) PROVE PeersOK'
  BY <1>1 DEF Connect, peerVars
<1>2. ASSUME NEW c \in Conns, StreamOpens(c) PROVE PeersOK'
  BY <1>2 DEF StreamOpens
<1>3. ASSUME NEW c \in Conns, ChannelOpens(c) PROVE PeersOK'
  BY <1>3 DEF ChannelOpens
<1>4. ASSUME NEW c \in Conns, StreamCloses(c) PROVE PeersOK'
  <2>1. CASE status[c] = "none"
    BY <1>4, <2>1 DEF StreamCloses, peerVars
  <2>2. CASE status[c] # "none"
    <3>1. /\ stream' = [stream EXCEPT ![c] = "closed"]
          /\ status' = [status EXCEPT ![c] = "disconnected"]
          /\ peers' = [peers EXCEPT ![DeviceOf[c]] = Kept(DeviceOf[c], c)]
      BY <1>4, <2>2 DEF StreamCloses
    <3>2. peers[DeviceOf[c]] \ {c} \subseteq Kept(DeviceOf[c], c)
          /\ Kept(DeviceOf[c], c) \subseteq peers[DeviceOf[c]]
      BY DEF Kept
    <3> HIDE DEF Kept
    <3> QED
      BY <3>1, <3>2
  <2> QED
    BY <2>1, <2>2
<1>5. ASSUME NEW c \in Conns,
             \/ MakePeerAgain(c) \/ ReceiveDeviceInfo(c)
             \/ PendingDone(c) \/ SendOn(c) \/ SendTimesOut(c)
      PROVE  UNCHANGED <<stream, status, peers>>
  BY <1>5 DEF MakePeerAgain, ReceiveDeviceInfo, PendingDone, SendOn, SendTimesOut, peerVars
<1>6. ASSUME NEW p \in Projects, OpenProject(p) \/ CloseProject(p)
      PROVE  UNCHANGED <<stream, status, peers>>
  BY <1>6 DEF OpenProject, CloseProject, peerVars
<1>7. CASE UNCHANGED vars
  BY <1>7 DEF vars, peerVars
<1>8. CASE UNCHANGED <<stream, status, peers>>
  BY <1>8
<1> QED
  BY <1>1, <1>2, <1>3, <1>4, <1>5, <1>6, <1>7, <1>8 DEF Next

\* A second connection of a device puts it among the overlapped.
LEMMA OneLiveStep ==
  ASSUME IInv, [Next]_vars
  PROVE  OneLive'
<1> USE LocalPeersAssumption DEF IInv, TypeOK, OneLive, Live, Deduplicated
<1>1. ASSUME NEW c \in Conns, Connect(c) PROVE OneLive'
  BY <1>1 DEF Connect
<1>2. ASSUME NEW c \in Conns, StreamOpens(c) \/ StreamCloses(c) PROVE OneLive'
  BY <1>2 DEF StreamOpens, StreamCloses
<1>3. ASSUME NEW c \in Conns,
             \/ MakePeerAgain(c) \/ ChannelOpens(c) \/ ReceiveDeviceInfo(c)
             \/ PendingDone(c) \/ SendOn(c) \/ SendTimesOut(c)
      PROVE  UNCHANGED <<stream, overlapped>>
  BY <1>3 DEF MakePeerAgain, ChannelOpens, ReceiveDeviceInfo, PendingDone, SendOn, SendTimesOut
<1>4. ASSUME NEW p \in Projects, OpenProject(p) \/ CloseProject(p)
      PROVE  UNCHANGED <<stream, overlapped>>
  BY <1>4 DEF OpenProject, CloseProject
<1>5. CASE UNCHANGED vars
  BY <1>5 DEF vars
<1>6. CASE UNCHANGED <<stream, overlapped>>
  BY <1>6
<1> QED
  BY <1>1, <1>2, <1>3, <1>4, <1>5, <1>6 DEF Next

----------------------------------------------------------------------------
(* What an event does *)

\* Every step is one that emits, one that makes a Peer, or one that leaves the
\* Peers alone and may open or close a project.
Emits ==
  /\ EmitPeers /\ UNCHANGED projects
  /\ \A c \in Conns :
       /\ status[c] = "disconnected" => status'[c] = "disconnected"
       /\ status[c] = "connected" => status'[c] \in {"connected", "disconnected"}

MakesPeer ==
  /\ UNCHANGED <<connectedAt, disconnectedAt, lastEmitted, replicating, projects>>
  /\ \E c \in Conns :
       /\ status[c] = "none"
       /\ status' = [status EXCEPT ![c] = "connecting"]
       /\ peers' = [peers EXCEPT ![DeviceOf[c]] = @ \cup {c}]

Opens(p) ==
  /\ projects' = projects \cup {p}
  /\ replicating' = [replicating EXCEPT ![p] = {c \in AllShown : status[c] = "connected"}]

Closes(p) ==
  /\ projects' = projects \ {p}
  /\ replicating' = [replicating EXCEPT ![p] = {}]

PeersStay ==
  /\ UNCHANGED <<status, connectedAt, disconnectedAt, peers, lastEmitted>>
  /\ \/ UNCHANGED <<projects, replicating>>
     \/ \E p \in Projects : Opens(p) \/ Closes(p)

LEMMA Steps ==
  ASSUME TypeOK, PeersOK, [Next]_vars
  PROVE  Emits \/ MakesPeer \/ PeersStay
<1> USE DEF TypeOK, PeersOK
<1>1. ASSUME NEW c \in Conns, StreamOpens(c) PROVE MakesPeer
  BY <1>1 DEF StreamOpens, MakesPeer
<1>2. ASSUME NEW c \in Conns, ChannelOpens(c) PROVE Emits
  BY <1>2 DEF ChannelOpens, Emits
<1>3. ASSUME NEW c \in Conns, StreamCloses(c), status[c] # "none" PROVE Emits
  BY <1>3 DEF StreamCloses, Emits
<1>4. ASSUME NEW c \in Conns, ReceiveDeviceInfo(c) PROVE Emits
  BY <1>4 DEF ReceiveDeviceInfo, peerVars, Emits
<1>5. ASSUME NEW c \in Conns,
             \/ Connect(c) \/ MakePeerAgain(c) \/ (StreamCloses(c) /\ status[c] = "none")
             \/ PendingDone(c) \/ SendOn(c) \/ SendTimesOut(c)
      PROVE  PeersStay
  BY <1>5 DEF Connect, MakePeerAgain, StreamCloses, PendingDone, SendOn, SendTimesOut, peerVars,
              PeersStay
<1>6. ASSUME NEW p \in Projects, OpenProject(p) \/ CloseProject(p) PROVE PeersStay
  BY <1>6 DEF OpenProject, CloseProject, peerVars, PeersStay, Opens, Closes
<1>7. CASE UNCHANGED vars
  BY <1>7 DEF vars, peerVars, PeersStay
<1>8. ASSUME NEW c \in Conns, StreamCloses(c) PROVE Emits \/ PeersStay
  BY <1>3, <1>5, <1>8
<1> HIDE DEF TypeOK, PeersOK
<1> QED
  BY <1>1, <1>2, <1>4, <1>5, <1>6, <1>7, <1>8 DEF Next

\* After an event the list is true.
LEMMA TrueAfterEvent ==
  TypeOK /\ PeersOK /\ lastEmitted = AllShown => ShownWasUp /\ ListIsTrue
<1> SUFFICES ASSUME TypeOK, PeersOK, lastEmitted = AllShown PROVE ShownWasUp /\ ListIsTrue
  OBVIOUS
<1>1. ShownWasUp
  <2>1. ASSUME NEW d \in Devices, NEW c \in Shown(d) PROVE status[c] \in {"connected", "disconnected"}
    BY <2>1, ShownIsAPeer DEF TypeOK, PeersOK
  <2> QED
    BY <2>1 DEF AllShown, ShownWasUp
<1>2. ASSUME NEW d \in Devices
      PROVE  lastEmitted \cap {c \in Conns : DeviceOf[c] = d} = Shown(d)
  <2>1. Shown(d) \subseteq Conns
    BY ShownIsAPeer DEF TypeOK
  <2> QED
    BY <2>1, ShownOf
<1>3. ListIsTrue
  BY <1>2 DEF ListIsTrue
<1> QED
  BY <1>1, <1>3

LEMMA ListStep ==
  IInv /\ TypeOK' /\ PeersOK' /\ [Next]_vars => ShownWasUp' /\ ListIsTrue'
<1>1. (TypeOK /\ PeersOK /\ lastEmitted = AllShown => ShownWasUp /\ ListIsTrue)'
  BY TrueAfterEvent, PTL
<1> SUFFICES ASSUME IInv, TypeOK', PeersOK', [Next]_vars PROVE ShownWasUp' /\ ListIsTrue'
  OBVIOUS
<1>2. CASE Emits
  <2>1. lastEmitted' = AllShown'
    BY <1>2 DEF Emits, EmitPeers
  <2> QED
    BY <1>1, <2>1
<1>3. ASSUME NEW c \in Conns, status[c] = "none",
             UNCHANGED <<connectedAt, disconnectedAt, lastEmitted>>,
             status' = [status EXCEPT ![c] = "connecting"],
             peers' = [peers EXCEPT ![DeviceOf[c]] = @ \cup {c}]
      PROVE  ShownWasUp' /\ ListIsTrue'
  <2> USE DEF IInv, TypeOK
  <2>1. ShownWasUp'
    BY <1>3 DEF ShownWasUp
  <2>2. ASSUME NEW d \in Devices, \A e \in peers'[d] : status'[e] # "connecting"
        PROVE  lastEmitted' \cap {e \in Conns : DeviceOf[e] = d} = Shown(d)'
    <3>1. d # DeviceOf[c]
      BY <1>3, <2>2, LocalPeersAssumption
    <3>2. peers'[d] = peers[d] /\ c \notin peers[d]
      BY <1>3, <3>1 DEF PeersOK
    <3>3. \A e \in peers[d] : status'[e] = status[e]
      BY <1>3, <3>2
    <3>4. Shown(d)' = Shown(d)
      <4>1. /\ {e \in peers[d] : status'[e] = "connected"} = {e \in peers[d] : status[e] = "connected"}
            /\ (\E e \in peers[d] : status'[e] = "connecting")
                 <=> \E e \in peers[d] : status[e] = "connecting"
        BY <3>3
      <4> HIDE DEF TypeOK, IInv
      <4>2. ChooseDevicePeer(peers[d], status', connectedAt, disconnectedAt)
              = ChooseDevicePeer(peers[d], status, connectedAt, disconnectedAt)
        BY <4>1 DEF ChooseDevicePeer
      <4>3. Shown(d)' = ChooseDevicePeer(peers[d], status', connectedAt, disconnectedAt)
        BY <1>3, <3>2 DEF Shown
      <4> QED
        BY <4>2, <4>3 DEF Shown
    <3>5. \A e \in peers[d] : status[e] # "connecting"
      BY <2>2, <3>2, <3>3
    <3> QED
      BY <1>3, <3>4, <3>5 DEF ListIsTrue
  <2> QED
    BY <2>1, <2>2 DEF ListIsTrue
<1>4. CASE MakesPeer
  BY <1>3, <1>4 DEF MakesPeer
<1>5. CASE PeersStay
  BY <1>5 DEF PeersStay, IInv, ShownWasUp, ListIsTrue, Shown, ChooseDevicePeer
<1>6. TypeOK /\ PeersOK
  BY DEF IInv
<1> QED
  BY <1>2, <1>4, <1>5, <1>6, Steps

----------------------------------------------------------------------------
(* How many Peers are kept *)

Gone(d) == {c \in peers[d] : status[c] = "disconnected"}

LEMMA KeptStep ==
  ASSUME IInv, PeersOK', [Next]_vars
  PROVE  DisconnectedKeptOnce'
<1> USE LocalPeersAssumption DEF IInv, TypeOK
<1>1. ASSUME NEW d \in Devices
      PROVE  {c \in Conns : DeviceOf[c] = d /\ status'[c] \in {"connecting", "connected"}}
               \subseteq peers'[d]
  BY DEF PeersOK
<1>2. ASSUME NEW d \in Devices PROVE IsFiniteSet(peers[d]) /\ IsFiniteSet(Gone(d))
  BY FS_Subset DEF Gone
<1>3. ASSUME NEW d \in Devices PROVE Cardinality(Gone(d)) <= 1
  BY DEF DisconnectedKeptOnce, Gone
<1>4. ASSUME NEW d \in Devices, Gone(d)' \subseteq Gone(d) PROVE Cardinality(Gone(d)') <= 1
  BY <1>2, <1>3, <1>4, FS_Subset, FS_CardinalityType
<1>5. ASSUME NEW c \in Conns, StreamCloses(c), status[c] # "none", NEW d \in Devices
      PROVE  Cardinality(Gone(d)') <= 1
  <2>1. /\ status' = [status EXCEPT ![c] = "disconnected"]
        /\ peers' = [peers EXCEPT ![DeviceOf[c]] = Kept(DeviceOf[c], c)]
        /\ c \in peers[DeviceOf[c]] /\ stream[c] \in {"opening", "opened"}
    BY <1>5 DEF StreamCloses, PeersOK
  <2>2. CASE d # DeviceOf[c]
    <3>1. c \notin peers[d]
      BY <2>2 DEF PeersOK
    <3>2. Gone(d)' \subseteq Gone(d)
      BY <2>1, <2>2, <3>1 DEF Gone
    <3> QED
      BY <1>4, <3>2
  <2>3. CASE d = DeviceOf[c] /\ Cardinality(peers[d]) > 1
    <3>1. peers'[d] = peers[d] \ {c}
      BY <2>1, <2>3 DEF Kept
    <3>2. Gone(d)' \subseteq Gone(d)
      BY <2>1, <3>1 DEF Gone
    <3> QED
      BY <1>4, <3>2
  <2>4. CASE d = DeviceOf[c] /\ ~ (Cardinality(peers[d]) > 1)
    <3>1. peers'[d] = peers[d]
      BY <2>1, <2>4 DEF Kept
    <3>2. Gone(d)' \subseteq peers[d]
      BY <3>1 DEF Gone
    <3>3. Cardinality(Gone(d)') <= Cardinality(peers[d])
      BY <1>2, <3>2, FS_Subset
    <3>4. Cardinality(peers[d]) \in Nat /\ Cardinality(Gone(d)') \in Nat
      BY <1>2, <3>2, FS_Subset, FS_CardinalityType
    <3> QED
      BY <2>4, <3>3, <3>4
  <2> QED
    BY <2>2, <2>3, <2>4
<1>6. ASSUME NEW c \in Conns, StreamOpens(c), NEW d \in Devices PROVE Gone(d)' \subseteq Gone(d)
  BY <1>6 DEF StreamOpens, Gone
<1>7. ASSUME NEW c \in Conns, ChannelOpens(c), NEW d \in Devices PROVE Gone(d)' \subseteq Gone(d)
  BY <1>7 DEF ChannelOpens, Gone
<1>8. ASSUME NEW c \in Conns, NEW d \in Devices,
             \/ Connect(c) \/ MakePeerAgain(c) \/ ReceiveDeviceInfo(c)
             \/ (StreamCloses(c) /\ status[c] = "none")
             \/ PendingDone(c) \/ SendOn(c) \/ SendTimesOut(c)
      PROVE  Gone(d)' \subseteq Gone(d)
  BY <1>8 DEF Connect, MakePeerAgain, ReceiveDeviceInfo, StreamCloses, PendingDone, SendOn,
              SendTimesOut, peerVars, Gone
<1>9. ASSUME NEW p \in Projects, NEW d \in Devices, OpenProject(p) \/ CloseProject(p)
      PROVE  Gone(d)' \subseteq Gone(d)
  BY <1>9 DEF OpenProject, CloseProject, peerVars, Gone
<1>10. ASSUME UNCHANGED vars, NEW d \in Devices PROVE Gone(d)' \subseteq Gone(d)
  BY <1>10 DEF vars, peerVars, Gone
<1>11. ASSUME NEW d \in Devices PROVE Cardinality(Gone(d)') <= 1
  BY <1>4, <1>5, <1>6, <1>7, <1>8, <1>9, <1>10 DEF Next
<1> QED
  BY <1>1, <1>11 DEF DisconnectedKeptOnce, Gone

----------------------------------------------------------------------------
(* What the projects replicate *)

LEMMA OverlappedStays ==
  ASSUME [Next]_vars PROVE overlapped \subseteq overlapped'
<1>1. ASSUME NEW c \in Conns,
             \/ Connect(c) \/ StreamOpens(c) \/ MakePeerAgain(c) \/ ChannelOpens(c)
             \/ StreamCloses(c) \/ ReceiveDeviceInfo(c)
             \/ PendingDone(c) \/ SendOn(c) \/ SendTimesOut(c)
      PROVE  overlapped \subseteq overlapped'
  BY <1>1 DEF Connect, StreamOpens, MakePeerAgain, ChannelOpens, StreamCloses, ReceiveDeviceInfo,
              PendingDone, SendOn, SendTimesOut
<1>2. ASSUME NEW p \in Projects, OpenProject(p) \/ CloseProject(p)
      PROVE  overlapped \subseteq overlapped'
  BY <1>2 DEF OpenProject, CloseProject
<1> QED
  BY <1>1, <1>2 DEF Next, vars

\* A project that is open now was told of every connection that is up.
LEMMA ReplicateStep ==
  IInv /\ TypeOK' /\ PeersOK' /\ OneLive' /\ [Next]_vars => ProjectsReplicate'
<1> DEFINE AllAreShown ==
      \A c \in Conns : Deduplicated(c) /\ status[c] = "connected" => c \in AllShown
<1>1. TypeOK /\ PeersOK /\ OneLive => AllAreShown
  BY TheOneIsShown
<1>2. (TypeOK /\ PeersOK /\ OneLive => AllAreShown)'
  BY <1>1, PTL
<1> SUFFICES ASSUME IInv, TypeOK', PeersOK', OneLive', [Next]_vars,
                    NEW p \in projects', NEW c \in Conns, Deduplicated(c)'
             PROVE  c \in replicating'[p] <=> status'[c] = "connected"
  BY DEF ProjectsReplicate
<1>3. Deduplicated(c)
  BY OverlappedStays DEF Deduplicated
<1>4. p \in Projects
  BY DEF TypeOK
<1>5. ASSUME p \in projects PROVE c \in replicating[p] <=> status[c] = "connected"
  BY <1>3, <1>5 DEF IInv, ProjectsReplicate
<1>6. CASE Emits
  <2> USE DEF Emits
  <2>1. replicating'[p] = (replicating[p] \ {e \in Conns : stream'[e] = "closed"})
                            \cup {e \in AllShown' \ lastEmitted : status'[e] = "connected"}
    BY <1>4, <1>6 DEF EmitPeers
  <2>2. ASSUME status'[c] = "connected" PROVE c \in replicating'[p]
    <3>1. c \in AllShown'
      BY <1>2, <2>2
    <3>2. CASE c \in lastEmitted
      <4>1. status[c] = "connected"
        BY <1>6, <2>2, <3>2 DEF IInv, ShownWasUp
      <4>2. stream'[c] = "opened"
        BY <2>2 DEF PeersOK
      <4> QED
        BY <1>5, <1>6, <2>1, <4>1, <4>2
    <3>3. CASE c \notin lastEmitted
      BY <2>1, <2>2, <3>1, <3>3
    <3> QED
      BY <3>2, <3>3
  <2>3. ASSUME c \in replicating'[p] PROVE status'[c] = "connected"
    <3>1. CASE c \in replicating[p] /\ stream'[c] # "closed"
      <4>1. status'[c] \in {"connected", "disconnected"}
        BY <1>5, <1>6, <3>1
      <4> QED
        BY <3>1, <4>1 DEF PeersOK
    <3> QED
      BY <2>1, <2>3, <3>1
  <2> QED
    BY <2>2, <2>3
<1>7. CASE MakesPeer
  BY <1>5, <1>7 DEF MakesPeer, IInv, TypeOK
<1>8. CASE PeersStay
  <2> USE DEF PeersStay, IInv, TypeOK
  <2>1. CASE UNCHANGED <<projects, replicating>>
    BY <1>5, <1>8, <2>1
  <2>2. ASSUME NEW q \in Projects, Opens(q) PROVE c \in replicating'[p] <=> status'[c] = "connected"
    <3>1. CASE p = q
      BY <1>1, <1>3, <1>8, <2>2, <3>1 DEF Opens
    <3>2. CASE p # q
      BY <1>5, <1>8, <2>2, <3>2 DEF Opens
    <3> QED
      BY <3>1, <3>2
  <2>3. ASSUME NEW q \in Projects, Closes(q) PROVE c \in replicating'[p] <=> status'[c] = "connected"
    BY <1>4, <1>5, <1>8, <2>3 DEF Closes
  <2> QED
    BY <1>8, <2>1, <2>2, <2>3
<1>9. TypeOK /\ PeersOK
  BY DEF IInv
<1> QED
  BY <1>6, <1>7, <1>8, <1>9, Steps

----------------------------------------------------------------------------
(* The theorems *)

LEMMA NextIInv == IInv /\ [Next]_vars => IInv'
<1> SUFFICES ASSUME IInv, [Next]_vars PROVE IInv'
  OBVIOUS
<1>1. TypeOK' /\ PeersOK' /\ OneLive'
  BY TypeStep, PeersStep, OneLiveStep DEF IInv
<1> QED
  BY <1>1, ListStep, KeptStep, ReplicateStep DEF IInv

LEMMA AlwaysIInv == Spec => []IInv
  BY InitIInv, NextIInv, PTL DEF Spec

\* Every value has its type.
THEOREM TypeCorrect == Spec => []TypeOK
<1>1. IInv => TypeOK
  BY DEF IInv
<1> QED
  BY <1>1, AlwaysIInv, PTL

\* 'peer-add' events and the look at the list when a project is opened reach
\* every project for every connection (emitPeers and the MapeoProject
\* constructor).
THEOREM ProjectsAreTold == Spec => []ProjectsReplicate
<1>1. IInv => ProjectsReplicate
  BY DEF IInv
<1> QED
  BY <1>1, AlwaysIInv, PTL

\* The list of the last 'peers' event is true whenever nothing is connecting
\* (#emitPeers).
THEOREM ListStaysTrue == Spec => []ListIsTrue
<1>1. IInv => ListIsTrue
  BY DEF IInv
<1> QED
  BY <1>1, AlwaysIInv, PTL

\* #makePeer keeps one Peer of a device that is gone, and no more.
THEOREM PeersDoNotPileUp == Spec => []DisconnectedKeptOnce
<1>1. IInv => DisconnectedKeptOnce
  BY DEF IInv
<1> QED
  BY <1>1, AlwaysIInv, PTL

----------------------------------------------------------------------------
(***************************************************************************)
(* One connection at a time, for any number of connections tried.          *)
(*                                                                         *)
(* OneHandedOver and the types are inductive together. What takes work is  *)
(* the 'close' event, which runs any number of listeners in a row, each on *)
(* the state the last one left (Resumed). That the recursion has a         *)
(* solution, and that every state on the way is one that the handlers keep *)
(* (Tidy), are two inductions over the listeners.                          *)
(***************************************************************************)

----------------------------------------------------------------------------
(* Induction up to n, over a set instead of a predicate: the beginnings of  *)
(* 1 .. n that end before an element outside the set would have no least   *)
(* one under inclusion, and inclusion is well-founded on a finite set.     *)

LEMMA IntervalInduction ==
  ASSUME NEW n \in Nat, NEW S, 0 \in S, \A k \in 0 .. n - 1 : k \in S => k + 1 \in S
  PROVE  n \in S
<1> SUFFICES ASSUME n \notin S PROVE FALSE
  OBVIOUS
<1> DEFINE B == {1 .. k : k \in (0 .. n) \ S}
<1>1. IsFiniteSet(1 .. n)
  BY FS_Interval
<1>2. IsWellFoundedOn(StrictSubsetOrdering(1 .. n), SUBSET (1 .. n))
  BY <1>1, FS_StrictSubsetOrderingWellFounded, FS_FiniteSubsetsOfFinite, Zenon
<1>3. B \subseteq SUBSET (1 .. n) /\ B # {}
  OBVIOUS
<1>4. PICK X \in B : \A Y \in B : ~ (<<Y, X>> \in StrictSubsetOrdering(1 .. n))
  <2> HIDE DEF B
  <2> QED BY <1>2, <1>3, WFMin
<1>5. PICK k \in (0 .. n) \ S : X = 1 .. k
  OBVIOUS
<1>6. k # 0 /\ k - 1 \in 0 .. n - 1 /\ (k - 1) + 1 = k
  OBVIOUS
<1>7. 1 .. k - 1 \in B
  BY <1>6
<1>8. 1 .. k - 1 \subseteq 1 .. k /\ 1 .. k - 1 # 1 .. k
        /\ 1 .. k - 1 \in SUBSET (1 .. n) /\ 1 .. k \in SUBSET (1 .. n)
  BY <1>6
<1>9. <<1 .. k - 1, 1 .. k>> \in StrictSubsetOrdering(1 .. n)
  BY <1>8 DEF StrictSubsetOrdering
<1> QED
  BY <1>4, <1>5, <1>7, <1>9

----------------------------------------------------------------------------
(* What the event handlers of one device keep *)

LocalStates ==
  [end : [Streams -> EndStates], entry : Streams \cup {Null}, out : SUBSET Streams,
   swaps : [Streams -> Seq(Streams)]]

\* The local states in which the device hands over the connection of its map.
Tidy == {s \in LocalStates : s.out = IF s.entry = Null THEN {} ELSE {s.entry}}

LEMMA DestroyKeeps ==
  ASSUME NEW s \in Tidy, NEW c \in Streams
  PROVE  DestroyIn(s, c) \in Tidy
  BY DEF DestroyIn, Tidy, LocalStates, EndStates

LEMMA SwapKeeps ==
  ASSUME NEW s \in Tidy, NEW existing \in Streams, NEW keeping \in Streams
  PROVE  HandleConnectionSwap(s, existing, keeping) \in Tidy
<1> DEFINE t == DestroyIn(s, existing)
<1>1. t \in Tidy
  BY DestroyKeeps
<1>2. Append(t.swaps[existing], keeping) \in Seq(Streams)
  BY <1>1 DEF Tidy, LocalStates
<1> HIDE DEF t
<1>3. [t EXCEPT !.swaps[existing] = Append(@, keeping)] \in Tidy
  BY <1>1, <1>2 DEF Tidy, LocalStates
<1> QED
  BY <1>3 DEF HandleConnectionSwap, t

LEMMA HandleKeeps ==
  ASSUME NEW d, NEW s \in Tidy, NEW c \in Streams
  PROVE  HandleNoiseStreamConnection(d, s, c) \in Tidy
<1>1. CASE s.entry # Null
  <2>1. s.entry \in Streams
    BY <1>1 DEF Tidy, LocalStates
  <2>2. HandleNoiseStreamConnection(d, s, c) \in
          {DestroyIn(s, c), HandleConnectionSwap(s, s.entry, c)}
    <3>1. CASE KeepExisting(d, s.entry, c)
      BY <1>1, <3>1 DEF HandleNoiseStreamConnection
    <3>2. CASE ~ KeepExisting(d, s.entry, c)
      BY <1>1, <3>2 DEF HandleNoiseStreamConnection
    <3> QED BY <3>1, <3>2
  <2> QED
    BY <2>1, <2>2, DestroyKeeps, SwapKeeps
<1>2. CASE s.entry = Null
  <2>1. Promote(s, c) \in Tidy
    BY <1>2, DiscoveryAssumption DEF Promote, Tidy, LocalStates
  <2>2. HandleNoiseStreamConnection(d, s, c) \in {DestroyIn(s, c), Promote(s, c)}
    <3>1. CASE server[d] = "listening"
      BY <1>2, <3>1 DEF HandleNoiseStreamConnection
    <3>2. CASE server[d] # "listening"
      BY <1>2, <3>2 DEF HandleNoiseStreamConnection
    <3> QED BY <3>1, <3>2
  <2> QED
    BY <2>1, <2>2, DestroyKeeps
<1> QED
  BY <1>1, <1>2

LEMMA ForgetKeeps ==
  ASSUME NEW s \in Tidy, NEW c \in Streams
  PROVE  Forget(s, c) \in Tidy
  BY DEF Forget, Tidy, LocalStates

LEMMA ResumeKeeps ==
  ASSUME NEW d, NEW s \in Tidy, NEW c \in Streams
  PROVE  Resume(d, s, c) \in Tidy
  BY HandleKeeps DEF Resume

\* The recursion over the listeners has a solution, and each of its states is
\* one the handlers keep.
LEMMA ResumedKeeps ==
  ASSUME NEW d, NEW s \in Tidy, NEW waiting \in Seq(Streams)
  PROVE  Resumed(d, s, waiting)[Len(waiting)] \in Tidy
<1> DEFINE n == Len(waiting)
           Step(f) == [i \in 0 .. n |-> IF i = 0 THEN s ELSE Resume(d, f[i - 1], waiting[i])]
           RunsTo(k, f) ==
             f[0] = s /\ \A i \in 1 .. k : f[i] = Resume(d, f[i - 1], waiting[i])
           Reach == {k \in 0 .. n : \E f \in [0 .. n -> Tidy] : RunsTo(k, f)}
<1>1. n \in Nat /\ \A i \in 1 .. n : waiting[i] \in Streams
  OBVIOUS
<1> HIDE DEF n
<1>2. 0 \in Reach
  <2> DEFINE f == [i \in 0 .. n |-> s]
  <2>1. f \in [0 .. n -> Tidy] /\ f[0] = s /\ 0 \in 0 .. n
    BY <1>1
  <2> HIDE DEF f
  <2>2. RunsTo(0, f)
    BY <2>1
  <2> QED
    BY <2>1, <2>2
<1>3. ASSUME NEW k \in 0 .. n - 1, k \in Reach PROVE k + 1 \in Reach
  <2>1. PICK f \in [0 .. n -> Tidy] : RunsTo(k, f)
    BY <1>3
  <2>2. k \in 0 .. n /\ k + 1 \in 1 .. n /\ k + 1 \in 0 .. n /\ f[k] \in Tidy /\ waiting[k + 1] \in Streams
    BY <1>1, <2>1
  <2> DEFINE r == Resume(d, f[k], waiting[k + 1])
             g == [f EXCEPT ![k + 1] = r]
  <2>3. r \in Tidy
    BY <2>2, ResumeKeeps
  <2> HIDE DEF r
  <2>4. g \in [0 .. n -> Tidy]
    BY <2>3
  <2>5. g[0] = s
    BY <1>1, <2>1
  <2>6. ASSUME NEW i \in 1 .. k + 1 PROVE g[i] = Resume(d, g[i - 1], waiting[i])
    <3>1. i - 1 \in 0 .. n /\ i \in 0 .. n /\ i - 1 # k + 1 /\ g[i - 1] = f[i - 1]
      BY <1>1, <2>2
    <3>2. CASE i = k + 1
      <4>1. g[i] = r /\ i - 1 = k
        BY <3>1, <3>2, <2>2
      <4> QED
        BY <3>1, <3>2, <4>1 DEF r
    <3>3. CASE i # k + 1
      <4>1. i \in 1 .. k /\ g[i] = f[i]
        BY <3>1, <3>3
      <4> QED
        BY <2>1, <3>1, <4>1
    <3> QED BY <3>2, <3>3
  <2>7. RunsTo(k + 1, g)
    BY <2>5, <2>6
  <2> HIDE DEF g
  <2> QED
    BY <2>2, <2>4, <2>7
<1>4. n \in Reach
  <2> HIDE DEF Reach
  <2> QED BY <1>1, <1>2, <1>3, IntervalInduction
<1>5. PICK f \in [0 .. n -> Tidy] : RunsTo(n, f)
  BY <1>4
<1>6. f = Step(f)
  <2>1. \A i \in 0 .. n : f[i] = IF i = 0 THEN s ELSE Resume(d, f[i - 1], waiting[i])
    BY <1>1, <1>5
  <2> QED
    BY <2>1, <1>5, Zenon
<1> DEFINE h == CHOOSE g : g = Step(g)
<1>7. h = Step(h)
  <2> HIDE DEF Step
  <2> QED BY <1>6
<1>8. Resumed(d, s, waiting) = h
  BY DEF Resumed, n
<1> HIDE DEF h
<1>9. \A i \in 0 .. n : h[i] = IF i = 0 THEN s ELSE Resume(d, h[i - 1], waiting[i])
  BY <1>7
<1> DEFINE Same == {k \in 0 .. n : h[k] \in Tidy}
<1>10. 0 \in Same
  BY <1>1, <1>9
<1>11. ASSUME NEW k \in 0 .. n - 1, k \in Same PROVE k + 1 \in Same
  <2>1. k + 1 \in 0 .. n /\ k + 1 # 0 /\ (k + 1) - 1 = k /\ waiting[k + 1] \in Streams /\ h[k] \in Tidy
    BY <1>1, <1>11
  <2>2. h[k + 1] = Resume(d, h[k], waiting[k + 1])
    BY <1>9, <2>1
  <2> QED
    BY <2>1, <2>2, ResumeKeeps
<1>12. n \in Same
  <2> HIDE DEF Same
  <2> QED BY <1>1, <1>10, <1>11, IntervalInduction
<1> QED
  BY <1>8, <1>12 DEF n

LEMMA ResumeSwapsKeeps ==
  ASSUME NEW d, NEW s \in Tidy, NEW c \in Streams
  PROVE  ResumeSwaps(d, s, c) \in Tidy
<1> DEFINE t == [s EXCEPT !.swaps[c] = <<>>]
<1>1. s.swaps[c] \in Seq(Streams)
  BY DEF Tidy, LocalStates
<1>2. t \in Tidy
  <2>1. <<>> \in Seq(Streams)
    OBVIOUS
  <2> QED BY <2>1 DEF Tidy, LocalStates
<1> HIDE DEF t
<1>3. Resumed(d, t, s.swaps[c])[Len(s.swaps[c])] \in Tidy
  BY <1>1, <1>2, ResumedKeeps
<1> QED
  BY <1>3 DEF ResumeSwaps, t

----------------------------------------------------------------------------
DiscoveryInv == DiscoveryTypeOK /\ OneHandedOver

LEMMA LocalsAreTidy ==
  ASSUME DiscoveryInv, NEW d \in Sides
  PROVE  Local(d) \in Tidy
<1> USE DEF DiscoveryInv, DiscoveryTypeOK, OneHandedOver
<1>1. Local(d) \in LocalStates
  BY DEF Local, LocalStates
<1>2. Local(d).out = IF Local(d).entry = Null THEN {} ELSE {Local(d).entry}
  BY DEF Local
<1> QED
  BY <1>1, <1>2 DEF Tidy

\* The step of one device whose handlers leave it tidy.
LEMMA SetLocalKeeps ==
  ASSUME DiscoveryInv, NEW d \in Sides, NEW s \in Tidy, SetLocal(d, s)
  PROVE  /\ ends' \in [Sides -> [Streams -> EndStates]]
         /\ noiseConnections' \in [Sides -> Streams \cup {Null}]
         /\ handedOver' \in [Sides -> SUBSET Streams]
         /\ swaps' \in [Sides -> [Streams -> Seq(Streams)]]
         /\ OneHandedOver'
<1> USE DEF DiscoveryInv, DiscoveryTypeOK, SetLocal
<1>1. s.end \in [Streams -> EndStates] /\ s.entry \in Streams \cup {Null}
        /\ s.out \in SUBSET Streams /\ s.swaps \in [Streams -> Seq(Streams)]
        /\ s.out = IF s.entry = Null THEN {} ELSE {s.entry}
  BY DEF Tidy, LocalStates
<1>2. ends' \in [Sides -> [Streams -> EndStates]]
  BY <1>1
<1>3. noiseConnections' \in [Sides -> Streams \cup {Null}] /\ handedOver' \in [Sides -> SUBSET Streams]
  BY <1>1
<1>4. swaps' \in [Sides -> [Streams -> Seq(Streams)]]
  BY <1>1
<1>5. OneHandedOver'
  <2> SUFFICES ASSUME NEW e \in Sides
               PROVE  handedOver'[e] = IF noiseConnections'[e] = Null THEN {} ELSE {noiseConnections'[e]}
    BY DEF OneHandedOver
  <2>1. CASE e = d
    BY <1>1, <2>1
  <2>2. CASE e # d
    BY <2>2 DEF OneHandedOver
  <2> QED BY <2>1, <2>2
<1> QED
  BY <1>2, <1>3, <1>4, <1>5

LEMMA DiscoveryStarts == DiscoveryInit => DiscoveryInv
<1> SUFFICES ASSUME DiscoveryInit PROVE DiscoveryInv
  OBVIOUS
<1> USE DiscoveryAssumption DEF DiscoveryInit
<1>1. [c \in Streams |-> <<>>] \in [Streams -> Seq(Streams)]
  OBVIOUS
<1>2. swaps \in [Sides -> [Streams -> Seq(Streams)]]
  BY <1>1
<1>3. DiscoveryTypeOK
  BY <1>2 DEF DiscoveryTypeOK, EndStates, ServerStates
<1>4. OneHandedOver
  BY DEF OneHandedOver
<1> QED
  BY <1>3, <1>4 DEF DiscoveryInv

LEMMA DiscoverySteps == DiscoveryInv /\ [DiscoveryNext]_discoveryVars => DiscoveryInv'
<1> SUFFICES ASSUME DiscoveryInv, [DiscoveryNext]_discoveryVars PROVE DiscoveryInv'
  OBVIOUS
<1>0. /\ server \in [Sides -> ServerStates] /\ handshakes \subseteq Streams
      /\ drops \in 0 .. MaxDrops /\ stops \in 0 .. MaxStops
      /\ MaxDrops \in Nat /\ MaxStops \in Nat
      /\ ends \in [Sides -> [Streams -> EndStates]]
  BY DiscoveryAssumption DEF DiscoveryInv, DiscoveryTypeOK
<1> USE <1>0
<1>1. ASSUME NEW c \in Streams, ConnectPeer(c) PROVE DiscoveryInv'
  <2>1. ends' \in [Sides -> [Streams -> EndStates]]
    BY <1>1 DEF ConnectPeer, EndStates
  <2> QED
    BY <1>1, <2>1 DEF ConnectPeer, DiscoveryInv, DiscoveryTypeOK, OneHandedOver
<1>2. ASSUME NEW d \in Sides, NEW c \in Streams, StreamConnects(d, c) PROVE DiscoveryInv'
  <2> DEFINE t == [Local(d) EXCEPT !.end[c] = "open"]
  <2>1. t \in Tidy
    <3>1. Local(d) \in Tidy
      BY LocalsAreTidy
    <3> QED BY <3>1 DEF Tidy, LocalStates, EndStates
  <2> HIDE DEF t
  <2>2. HandleNoiseStreamConnection(d, t, c) \in Tidy
    BY <2>1, HandleKeeps
  <2>3. SetLocal(d, HandleNoiseStreamConnection(d, t, c))
    BY <1>2 DEF StreamConnects, t
  <2>4. handshakes' \subseteq Streams /\ UNCHANGED <<server, drops, stops>>
    BY <1>2 DEF StreamConnects
  <2> QED
    BY <2>2, <2>3, <2>4, SetLocalKeeps DEF DiscoveryInv, DiscoveryTypeOK
<1>3. ASSUME NEW d \in Sides, NEW c \in Streams, RemoteGone(d, c) PROVE DiscoveryInv'
  <2>1. ends' \in [Sides -> [Streams -> EndStates]]
    BY <1>3 DEF RemoteGone, EndStates
  <2> QED
    BY <1>3, <2>1 DEF RemoteGone, DiscoveryInv, DiscoveryTypeOK, OneHandedOver
<1>4. ASSUME NEW d \in Sides, NEW c \in Streams, Breaks(d, c) PROVE DiscoveryInv'
  <2>1. ends' \in [Sides -> [Streams -> EndStates]]
    BY <1>4 DEF Breaks, EndStates
  <2>2. drops' \in 0 .. MaxDrops
    BY <1>4 DEF Breaks
  <2> QED
    BY <1>4, <2>1, <2>2 DEF Breaks, DiscoveryInv, DiscoveryTypeOK, OneHandedOver
<1>5. ASSUME NEW d \in Sides, NEW c \in Streams, CloseEvent(d, c) PROVE DiscoveryInv'
  <2> DEFINE t == [Local(d) EXCEPT !.end[c] = "closed"]
  <2>1. t \in Tidy
    <3>1. Local(d) \in Tidy
      BY LocalsAreTidy
    <3> QED BY <3>1 DEF Tidy, LocalStates, EndStates
  <2> HIDE DEF t
  <2>2. ResumeSwaps(d, Forget(t, c), c) \in Tidy
    BY <2>1, ForgetKeeps, ResumeSwapsKeeps
  <2>3. SetLocal(d, ResumeSwaps(d, Forget(t, c), c)) /\ UNCHANGED <<server, handshakes, drops, stops>>
    BY <1>5 DEF CloseEvent, t
  <2> QED
    BY <2>2, <2>3, SetLocalKeeps DEF DiscoveryInv, DiscoveryTypeOK
<1>6. ASSUME NEW d \in Sides, Stop(d) PROVE DiscoveryInv'
  <2>1. server' \in [Sides -> ServerStates] /\ stops' \in 0 .. MaxStops
    BY <1>6 DEF Stop, ServerStates
  <2> QED
    BY <1>6, <2>1 DEF Stop, DiscoveryInv, DiscoveryTypeOK, OneHandedOver
<1>7. ASSUME NEW d \in Sides, ForceStop(d) PROVE DiscoveryInv'
  <2> DEFINE t == IF noiseConnections[d] = Null THEN Local(d)
                  ELSE DestroyIn(Local(d), noiseConnections[d])
  <2>1. t \in Tidy
    <3>1. noiseConnections[d] \in Streams \cup {Null} /\ Local(d) \in Tidy
      BY LocalsAreTidy DEF DiscoveryInv, DiscoveryTypeOK
    <3> QED BY <3>1, DestroyKeeps
  <2>2. SetLocal(d, t) /\ UNCHANGED <<handshakes, drops>>
    BY <1>7 DEF ForceStop
  <2>3. server' \in [Sides -> ServerStates] /\ stops' \in 0 .. MaxStops
    BY <1>7 DEF ForceStop, ServerStates
  <2> HIDE DEF t
  <2> QED
    BY <2>1, <2>2, <2>3, SetLocalKeeps DEF DiscoveryInv, DiscoveryTypeOK
<1>8. ASSUME NEW d \in Sides, ServerCloses(d) PROVE DiscoveryInv'
  <2>1. server' \in [Sides -> ServerStates]
    BY <1>8 DEF ServerCloses, ServerStates
  <2> QED
    BY <1>8, <2>1 DEF ServerCloses, DiscoveryInv, DiscoveryTypeOK, OneHandedOver
<1>9. ASSUME NEW d \in Sides, Start(d) PROVE DiscoveryInv'
  <2>1. server' \in [Sides -> ServerStates]
    BY <1>9 DEF Start, ServerStates
  <2> QED
    BY <1>9, <2>1 DEF Start, DiscoveryInv, DiscoveryTypeOK, OneHandedOver
<1>10. CASE UNCHANGED discoveryVars
  BY <1>10 DEF discoveryVars, DiscoveryInv, DiscoveryTypeOK, OneHandedOver
<1> QED
  BY <1>1, <1>2, <1>3, <1>4, <1>5, <1>6, <1>7, <1>8, <1>9, <1>10 DEF DiscoveryNext

LEMMA DiscoveryInvariant == DiscoverySpec => []DiscoveryInv
  BY DiscoveryStarts, DiscoverySteps, PTL DEF DiscoverySpec

\* Streams, the map and the listeners that wait are of their kinds.
THEOREM DiscoveryTypes == DiscoverySpec => []DiscoveryTypeOK
<1>1. DiscoveryInv => DiscoveryTypeOK
  BY DEF DiscoveryInv
<1> QED BY <1>1, DiscoveryInvariant, PTL

\* However many connections two devices open at the same time, and however they
\* replace each other, break and are stopped, a device hands over one at a time,
\* the one in its map (#handleNoiseStreamConnection, #handleConnectionSwap).
THEOREM OneConnectionIsHandedOver == DiscoverySpec => []OneHandedOver
<1>1. DiscoveryInv => OneHandedOver
  BY DEF DiscoveryInv
<1> QED BY <1>1, DiscoveryInvariant, PTL
=============================================================================
