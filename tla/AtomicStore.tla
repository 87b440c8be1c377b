----------------------------- MODULE AtomicStore -----------------------------
(***************************************************************************)
(* What a data store promises to those who write: an entry is stored in    *)
(* one step, some time after it was written and before the call returns,   *)
(* and stays stored.  A call that fails, or is lost with the process, may  *)
(* or may not leave its entry behind.                                      *)
(***************************************************************************)
CONSTANTS
  Writes,   \* calls of write(), each with its entry
  Remote    \* entries of other devices

VARIABLES
  call,     \* write -> "none", "pending", "done" or "abandoned"
  stored    \* the entries that a reader finds

vars == <<call, stored>>

Init ==
  /\ call = [w \in Writes |-> "none"]
  /\ stored = {}

Begin(w) ==
  /\ call[w] = "none"
  /\ call' = [call EXCEPT ![w] = "pending"]
  /\ UNCHANGED stored

\* Several entries may become visible at once, never one that nobody wrote.
Store(entries) ==
  /\ entries \subseteq Remote \cup {w \in Writes : call[w] # "none"}
  /\ stored' = stored \cup entries
  /\ UNCHANGED call

Return(w) ==
  /\ call[w] = "pending"
  /\ w \in stored
  /\ call' = [call EXCEPT ![w] = "done"]
  /\ UNCHANGED stored

Abandon(ws) ==
  /\ \A w \in ws : call[w] = "pending"
  /\ call' = [w \in Writes |-> IF w \in ws THEN "abandoned" ELSE call[w]]
  /\ UNCHANGED stored

Next ==
  \/ \E w \in Writes : Begin(w) \/ Return(w)
  \/ \E entries \in SUBSET (Remote \cup Writes) : Store(entries)
  \/ \E ws \in SUBSET Writes : Abandon(ws)

Spec == Init /\ [][Next]_vars
=============================================================================
