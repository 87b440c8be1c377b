------------------------------ MODULE MCSyncApi ------------------------------
(* Small instances of SyncApi. *)
EXTENDS SyncApi

CONSTANTS c1, c2, d1, d2

\* Every connection leads to a device of its own.
OwnDevice == [c \in Conns |-> IF c = c1 THEN d1 ELSE d2]

\* A role blocks nothing or the data namespaces.
SomeBlocked == {{}, DATA_NAMESPACES}
=============================================================================
