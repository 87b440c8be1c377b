---------------------------- MODULE MCBlobStore -----------------------------
(* An archive device puts a preview and an original, for another device  *)
(* whose setting changes.                                                *)
EXTENDS BlobStore, TLC

CONSTANTS a, b, preview, original
MCOwner == (preview :> a) @@ (original :> a)
MCSettings == (a :> {TRUE}) @@ (b :> BOOLEAN)
MCMaxSwitches == (a :> 0) @@ (b :> 1)
=============================================================================
