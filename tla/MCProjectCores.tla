-------------------------- MODULE MCProjectCores ---------------------------
(* The creator c has met b in an earlier run, and now connects to a, which *)
(* is new; it assigns the roles of both.                                   *)
EXTENDS ProjectCores, TLC

CONSTANTS c, a, b
MCInviter == (c :> c) @@ (a :> c) @@ (b :> c)
MCLinks == {<<a, c>>, <<c, a>>}
MCMet == (c :> {c, b}) @@ (a :> {}) @@ (b :> {b})
MCOnce == (c :> 0) @@ (a :> 1) @@ (b :> 0)
=============================================================================
