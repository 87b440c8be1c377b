--------------------------- MODULE LocalDiscovery ---------------------------
(***************************************************************************)
(* Encrypted connections between two devices on a local network            *)
(* (src/discovery/local-discovery.js).  Either device may call connectPeer *)
(* at any time, more than once, so several connections can come up at the  *)
(* same time; each end, on its own, keeps one of them.                     *)
(*                                                                         *)
(* The two ends of a connection open at different times: the initiator     *)
(* when it has sent the last message of the handshake, the other end when  *)
(* that message arrives, even if the initiator has destroyed its end since *)
(* (the bytes are already under way).  A destroyed stream emits 'close' in *)
(* a later tick, and its other end notices later still.                    *)
(*                                                                         *)
(* connectPeer looks for the mDNS name of the peer in #noiseConnections,   *)
(* whose keys are public ids, so that check never stops it.  Left out:     *)
(* addresses, ports, keep-alive timing, the logger.                        *)
(***************************************************************************)
EXTENDS Naturals, Sequences

CONSTANTS
  Low, High,    \* the two devices, in the order of their public keys
  Streams,      \* connections that may be tried
  Initiator,    \* the device that calls connectPeer for a connection
  MaxDrops,     \* bound: connections broken by the network
  MaxStops,     \* bound: calls of stop()
  Null

Sides == {Low, High}
Other(d) == IF d = Low THEN High ELSE Low

ASSUME DiscoveryAssumption ==
  /\ Low # High
  /\ Initiator \in [Streams -> Sides]
  /\ MaxDrops \in Nat /\ MaxStops \in Nat
  /\ Null \notin Streams

VARIABLES
  ends,              \* device -> connection -> state of this end's stream
  noiseConnections,  \* device -> #noiseConnections.get(other device), or Null
  handedOver,        \* device -> connections emitted and not closed yet
  swaps,             \* device -> stream -> the streams that wait for its 'close',
                     \* in the order #handleConnectionSwap added the listeners
  server,            \* device -> state of the TCP server
  handshakes,        \* connections whose initiator sent its last handshake message
  drops, stops

discoveryVars == <<ends, noiseConnections, handedOver, swaps, server, handshakes, drops, stops>>

EndStates == {"none", "handshaking", "open", "closing", "closed"}
ServerStates == {"listening", "closing", "forceClosing", "closed"}

\* What the event handlers of device d read and write.
Local(d) == [end |-> ends[d], entry |-> noiseConnections[d],
             out |-> handedOver[d], swaps |-> swaps[d]]

SetLocal(d, s) ==
  /\ ends' = [ends EXCEPT ![d] = s.end]
  /\ noiseConnections' = [noiseConnections EXCEPT ![d] = s.entry]
  /\ handedOver' = [handedOver EXCEPT ![d] = s.out]
  /\ swaps' = [swaps EXCEPT ![d] = s.swaps]

DiscoveryInit ==
  /\ ends = [d \in Sides |-> [c \in Streams |-> "none"]]
  /\ noiseConnections = [d \in Sides |-> Null]
  /\ handedOver = [d \in Sides |-> {}]
  /\ swaps = [d \in Sides |-> [c \in Streams |-> <<>>]]
  /\ server = [d \in Sides |-> "listening"]
  /\ handshakes = {}
  /\ drops = 0
  /\ stops = 0

(***************************************************************************)
(* #handleNoiseStreamConnection                                            *)
(***************************************************************************)

\* stream.destroy(): the 'close' event follows in a later tick.
DestroyIn(s, c) ==
  [s EXCEPT !.end[c] = IF @ \in {"handshaking", "open"} THEN "closing" ELSE @]

Outgoing(d, c) == Initiator[c] = d

\* Mutant: the initiator does not check the opposite of the other end.
Defect_SameTieBreak(d, existing, new) ==
  \/ Outgoing(d, new) = Outgoing(d, existing)
  \/ d = Low

KeepExisting(d, existing, new) ==
  \/ Outgoing(d, new) /\ Outgoing(d, existing)
  \/ ~ Outgoing(d, new) /\ ~ Outgoing(d, existing)
  \/ IF Outgoing(d, new) THEN d = High ELSE d = Low

Promote(s, c) == [s EXCEPT !.entry = c, !.out = @ \cup {c}]

\* Mutant: the new connection takes over before the old one has closed.
Defect_SwapAtOnce(s, existing, keeping) == Promote(DestroyIn(s, existing), keeping)

HandleConnectionSwap(s, existing, keeping) ==
  [DestroyIn(s, existing) EXCEPT !.swaps[existing] = Append(@, keeping)]

\* Mutant: does not look whether the server has stopped.
Defect_PromotesAfterStop(d, s, c) ==
  CASE s.entry # Null /\ KeepExisting(d, s.entry, c)   -> DestroyIn(s, c)
    [] s.entry # Null /\ ~ KeepExisting(d, s.entry, c) -> HandleConnectionSwap(s, s.entry, c)
    [] s.entry = Null                                  -> Promote(s, c)

HandleNoiseStreamConnection(d, s, c) ==
  CASE s.entry # Null /\ KeepExisting(d, s.entry, c)   -> DestroyIn(s, c)
    [] s.entry # Null /\ ~ KeepExisting(d, s.entry, c) -> HandleConnectionSwap(s, s.entry, c)
    [] s.entry = Null /\ server[d] # "listening"       -> DestroyIn(s, c)
    [] s.entry = Null /\ server[d] = "listening"       -> Promote(s, c)

\* The 'close' listener of a connection that was handed over.
Forget(s, c) == IF c \in s.out THEN [s EXCEPT !.entry = Null, !.out = @ \ {c}] ELSE s

\* One listener that #handleConnectionSwap put on a stream: `keeping` is
\* handled again, unless it closed while it waited.
Resume(d, s, keeping) ==
  IF s.end[keeping] = "closed" THEN s ELSE HandleNoiseStreamConnection(d, s, keeping)

\* The state after each of the listeners has run, in the order they were added.
Resumed(d, s, waiting) ==
  LET after[i \in 0 .. Len(waiting)] ==
        IF i = 0 THEN s ELSE Resume(d, after[i - 1], waiting[i])
  IN after

\* The listeners of c run; no one else emits 'close' for c again.
ResumeSwaps(d, s, c) ==
  LET waiting == s.swaps[c]
  IN Resumed(d, [s EXCEPT !.swaps[c] = <<>>], waiting)[Len(waiting)]

(***************************************************************************)
(* Connections                                                             *)
(***************************************************************************)

ConnectPeer(c) ==
  LET d == Initiator[c] IN
  /\ ends[d][c] = "none"
  /\ LET tcp == IF server[Other(d)] = "listening" THEN "handshaking" ELSE "closed"
     IN ends' = [e \in Sides |-> [ends[e] EXCEPT ![c] = tcp]]
  /\ UNCHANGED <<noiseConnections, handedOver, swaps, server, handshakes, drops, stops>>

\* secretStream.on('connect')
StreamConnects(d, c) ==
  /\ ends[d][c] = "handshaking"
  /\ Outgoing(d, c) \/ c \in handshakes
  /\ handshakes' = handshakes \cup {c}
  /\ SetLocal(d, HandleNoiseStreamConnection(d, [Local(d) EXCEPT !.end[c] = "open"], c))
  /\ UNCHANGED <<server, drops, stops>>

\* The other end is gone: the socket ends here too.
RemoteGone(d, c) ==
  /\ ends[d][c] \in {"handshaking", "open"}
  /\ ends[Other(d)][c] \in {"closing", "closed"}
  /\ ends' = [ends EXCEPT ![d][c] = "closing"]
  /\ UNCHANGED <<noiseConnections, handedOver, swaps, server, handshakes, drops, stops>>

\* The network breaks the connection, which one end sees first.
Breaks(d, c) ==
  /\ drops < MaxDrops
  /\ ends[d][c] \in {"handshaking", "open"}
  /\ drops' = drops + 1
  /\ ends' = [ends EXCEPT ![d][c] = "closing"]
  /\ UNCHANGED <<noiseConnections, handedOver, swaps, server, handshakes, stops>>

CloseEvent(d, c) ==
  /\ ends[d][c] = "closing"
  /\ SetLocal(d, ResumeSwaps(d, Forget([Local(d) EXCEPT !.end[c] = "closed"], c), c))
  /\ UNCHANGED <<server, handshakes, drops, stops>>

(***************************************************************************)
(* Start and stop                                                          *)
(***************************************************************************)

Stop(d) ==
  /\ stops < MaxStops
  /\ server[d] = "listening"
  /\ stops' = stops + 1
  /\ server' = [server EXCEPT ![d] = "closing"]
  /\ UNCHANGED <<ends, noiseConnections, handedOver, swaps, handshakes, drops>>

\* stop({ force: true }), or the end of stop({ force: true, timeout }): the
\* connections of the map are destroyed, and only those.
ForceStop(d) ==
  /\ \/ server[d] = "closing" /\ stops' = stops
     \/ server[d] = "listening" /\ stops < MaxStops /\ stops' = stops + 1
  /\ server' = [server EXCEPT ![d] = "forceClosing"]
  /\ SetLocal(d, IF noiseConnections[d] = Null THEN Local(d)
                 ELSE DestroyIn(Local(d), noiseConnections[d]))
  /\ UNCHANGED <<handshakes, drops>>

\* A net.Server closes when the last connection it accepted has closed.
ServerCloses(d) ==
  /\ server[d] \in {"closing", "forceClosing"}
  /\ \A c \in Streams : ~ Outgoing(d, c) => ends[d][c] \in {"none", "closed"}
  /\ server' = [server EXCEPT ![d] = "closed"]
  /\ UNCHANGED <<ends, noiseConnections, handedOver, swaps, handshakes, drops, stops>>

Start(d) ==
  /\ server[d] = "closed"
  /\ server' = [server EXCEPT ![d] = "listening"]
  /\ UNCHANGED <<ends, noiseConnections, handedOver, swaps, handshakes, drops, stops>>

DiscoveryNext ==
  \/ \E c \in Streams : ConnectPeer(c)
  \/ \E d \in Sides, c \in Streams :
       StreamConnects(d, c) \/ RemoteGone(d, c) \/ Breaks(d, c) \/ CloseEvent(d, c)
  \/ \E d \in Sides : Stop(d) \/ ForceStop(d) \/ ServerCloses(d) \/ Start(d)

DiscoverySpec == DiscoveryInit /\ [][DiscoveryNext]_discoveryVars

\* TCP delivers what was sent or the keep-alive probe finds the socket dead,
\* and the event loop emits what is queued.  Nobody has to connect, start or
\* stop.
DiscoveryFairness ==
  /\ \A d \in Sides, c \in Streams :
       WF_discoveryVars(StreamConnects(d, c)) /\ WF_discoveryVars(RemoteGone(d, c)) /\ WF_discoveryVars(CloseEvent(d, c))
  /\ \A d \in Sides : WF_discoveryVars(ServerCloses(d))

DiscoveryFairSpec == DiscoverySpec /\ DiscoveryFairness

(***************************************************************************)
(* Properties                                                              *)
(***************************************************************************)

\* Every variable holds a value of its kind.
DiscoveryTypeOK ==
  /\ ends \in [Sides -> [Streams -> EndStates]]
  /\ noiseConnections \in [Sides -> Streams \cup {Null}]
  /\ handedOver \in [Sides -> SUBSET Streams]
  /\ swaps \in [Sides -> [Streams -> Seq(Streams)]]
  /\ server \in [Sides -> ServerStates]
  /\ handshakes \subseteq Streams
  /\ drops \in 0 .. MaxDrops /\ stops \in 0 .. MaxStops

\* A device hands over one connection at a time, and the map holds exactly
\* that one: a replaced connection has closed, and has cleared its own entry
\* and not that of its successor, before the successor is emitted.
OneHandedOver ==
  \A d \in Sides :
    handedOver[d] = IF noiseConnections[d] = Null THEN {} ELSE {noiseConnections[d]}

Tried == {c \in Streams : ends[Initiator[c]][c] # "none"}

TwiceFromOneSide ==
  \E c1, c2 \in Tried : c1 # c2 /\ Initiator[c1] = Initiator[c2]

Undisturbed == drops = 0 /\ stops = 0

\* Both devices have handed over the same connection, and it is up.
Connected == \E c \in Streams : \A d \in Sides : noiseConnections[d] = c /\ ends[d][c] = "open"

\* When each device connects to the other at most once, in whatever order the
\* ends open and the duplicates close, the devices end up with one and the
\* same connection: the tie-break never destroys both.
SettlesOnOne == <>[](Tried # {} /\ Undisturbed /\ ~ TwiceFromOneSide => Connected)

\* A forced stop ends: every accepted connection is closed, also the one that
\* is still opening, or that waits for a swap and is in no map, when the stop
\* goes through the map.
ForceStopCloses ==
  \A d \in Sides : server[d] = "forceClosing" ~> server[d] = "closed"

=============================================================================
