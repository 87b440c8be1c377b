------------------------ MODULE MCNamespaceSyncState ------------------------
(* A core of this device and one of another; both devices may set filters. *)
EXTENDS NamespaceSyncState
CONSTANTS c1, c2, p1, self
MCStored == [c \in {c1, c2} |-> {}]
=============================================================================
