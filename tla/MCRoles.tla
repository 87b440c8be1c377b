------------------------------ MODULE MCRoles ------------------------------
(* The creator, a device whose clock is right and one whose clock is not. *)
EXTENDS Roles, TLC

CONSTANTS creator, ann, bob, c1, c2
Symmetry == Permutations(Calls)
MCRank == (creator :> 3) @@ (ann :> 2) @@ (bob :> 1)
MCAssignments ==
  {<<ann, "COORDINATOR">>, <<bob, "BLOCKED">>, <<bob, "LEFT">>,
   <<bob, "COORDINATOR">>, <<creator, "MEMBER">>}
=============================================================================
