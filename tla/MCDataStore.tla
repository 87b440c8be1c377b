----------------------------- MODULE MCDataStore -----------------------------
(* Two writes and a block of another device; two schemas, the writes of one. *)
EXTENDS DataStore

CONSTANTS w1, w2, r1
MCWrites == {w1, w2}
MCRemote == {r1}
MCDocOf == [e \in MCWrites \cup MCRemote |-> IF e = w2 THEN "docB" ELSE "docA"]
MCSchemaOf == [d \in {"docA", "docB"} |-> IF d = "docA" THEN "observation" ELSE "track"]
=============================================================================
