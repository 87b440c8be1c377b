---------------------------- MODULE MCLocalPeers ----------------------------
(* A device that reconnects or has two connections, another that connects   *)
(* once, one project that is opened once.                                   *)
EXTENDS LocalPeers, TLC

CONSTANTS d1, d2, a1, a2, b1
MCDeviceOf == (a1 :> d1) @@ (a2 :> d1) @@ (b1 :> d2)
=============================================================================
