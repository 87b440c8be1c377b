------------------------ MODULE MCPeerSyncController ------------------------
(* Small instances of PeerSyncController. *)
EXTENDS PeerSyncController

CONSTANTS creator, obs

\* The creator core is an auth core; obs is a data core.
CreatorAndData == [c \in Cores |-> IF c = creator THEN "auth" ELSE "data"]
=============================================================================
