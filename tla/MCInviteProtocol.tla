-------------------------- MODULE MCInviteProtocol --------------------------
(* Small instances of InviteProtocol. *)
EXTENDS InviteProtocol

CONSTANTS a, b, x, y

\* Two coordinators invite the device, once each.
OneEach == [id \in Invites |-> IF id = x THEN a ELSE b]
=============================================================================
