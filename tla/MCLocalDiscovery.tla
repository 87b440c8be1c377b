-------------------------- MODULE MCLocalDiscovery --------------------------
(* Two connections tried by the device with the lower key, one by the other. *)
EXTENDS LocalDiscovery

CONSTANTS c1, c2, c3
MCStreams == {c1, c2, c3}
MCInitiator == [c \in MCStreams |-> IF c = c3 THEN High ELSE Low]
=============================================================================
