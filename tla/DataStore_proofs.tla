--------------------------- MODULE DataStore_proofs ---------------------------
(***************************************************************************)
(* Safety of the data store, for any sets of writes, downloaded blocks and *)
(* schemas, and any number of failed appends and restarts.                 *)
(*                                                                         *)
(* That no write misses its batch is not inductive.  What makes it so is   *)
(* AppendsAwaited: the block of a write still inside append() is never     *)
(* processed, because #handleEntries, when such a block is in its batch,   *)
(* waits for that very append.                                             *)
(***************************************************************************)
EXTENDS DataStore, TLAPS

\* Each bookkeeping set holds exactly the calls that are at that point.
CallsTracked ==
  \A w \in Writes :
    /\ written[w] \in {"appending", "appended"} => w \in pendingAppends
    /\ written[w] = "waiting" <=> w \in pendingIndex
    /\ written[w] \in {"appended", "waiting", "done"} => w \in blocks
    /\ written[w] \in {"none", "appending", "failed"} => w \notin blocks

\* A batch past its write to SQLite is in the tables.
BatchIndexed ==
  /\ stage = "awaitingAppends" => batch \subseteq indexed
  /\ stage = "none" => batch = {}

\* A batch waits for the append of each of its writes that is not over.
AppendsAwaited ==
  \A w \in Writes :
    written[w] = "appended" =>
      /\ w \notin processed
      /\ w \in batch /\ stage = "awaitingAppends" => w \in awaiting

\* Only a write whose block is in the tables is told so.
ResolvedIndexed == resolved \subseteq indexed

IInv ==
  /\ TypeOK /\ CallsTracked /\ BatchIndexed /\ AppendsAwaited
  /\ ResolvedIndexed /\ ReturnedIsIndexed /\ NoMissedBatch

-------------------------------------------------------------------------------
\* The entries and the counters, from the assumption on the constants.
LEMMA EntriesOfConstants ==
  /\ Writes \subseteq Entries /\ Remote \subseteq Entries
  /\ MaxFailures \in Nat /\ MaxRestarts \in Nat /\ MaxListens \in Nat
  BY DataStoreAssumption DEF Entries

LEMMA DocsOfEntries == ASSUME NEW S, S \subseteq Entries
                       PROVE  {DocOf[e] : e \in S} \subseteq Docs
  BY DEF Docs

LEMMA TypeInit == Init => TypeOK
  BY EntriesOfConstants DEF Init, TypeOK, CallStates

\* The type invariant is kept by every step; that a processed entry is in the
\* tables needs BatchIndexed.
LEMMA TypeStep == TypeOK /\ BatchIndexed /\ [Next]_vars => TypeOK'
<1> SUFFICES ASSUME TypeOK, BatchIndexed, [Next]_vars PROVE TypeOK'
  OBVIOUS
<1> USE EntriesOfConstants DEF TypeOK, CallStates
<1>1. ASSUME NEW w \in Writes, Write(w) PROVE TypeOK'
  BY <1>1 DEF Write, batchVars, emitVars, bounds
<1>2. ASSUME NEW w \in Writes, Append(w) PROVE TypeOK'
  BY <1>2 DEF Append, batchVars, emitVars, bounds
<1>3. ASSUME NEW w \in Writes, AppendFails(w) PROVE TypeOK'
  BY <1>3 DEF AppendFails, batchVars, emitVars
<1>4. ASSUME NEW w \in Writes, AppendReturns(w) PROVE TypeOK'
  BY <1>4 DEF AppendReturns, batchVars, emitVars, bounds
<1>5. ASSUME NEW w \in Writes, WriteReturns(w) PROVE TypeOK'
  BY <1>5 DEF WriteReturns, batchVars, emitVars, bounds
<1>6. ASSUME NEW r \in Remote, Download(r) PROVE TypeOK'
  BY <1>6 DEF Download, callVars, batchVars, emitVars, bounds
<1>7. ASSUME StartBatch PROVE TypeOK'
  BY <1>7 DEF StartBatch, callVars, emitVars, bounds
<1>8. ASSUME BatchWritten PROVE TypeOK'
  BY <1>8 DEF BatchWritten, callVars, emitVars, bounds
<1>9. ASSUME EntriesHandled PROVE TypeOK'
  <2>1. {DocOf[e] : e \in batch} \subseteq Docs
    BY DocsOfEntries
  <2>2. batch \subseteq indexed
    BY <1>9 DEF EntriesHandled, BatchIndexed
  <2> QED
    BY <1>9, <2>1, <2>2 DEF EntriesHandled, Resolvable, bounds
<1>10. ASSUME IndexerIdle PROVE TypeOK'
  BY <1>10 DEF IndexerIdle, callVars, batchVars, bounds
<1>11. ASSUME NEW s \in Schemas, Listen(s) PROVE TypeOK'
  BY <1>11 DEF Listen, callVars, batchVars
<1>12. ASSUME NEW s \in Schemas, Unlisten(s) PROVE TypeOK'
  BY <1>12 DEF Unlisten, callVars, batchVars, bounds
<1>13. ASSUME Close PROVE TypeOK'
  BY <1>13 DEF Close, callVars, batchVars, emitVars, bounds
<1>14. ASSUME Restart PROVE TypeOK'
  BY <1>14 DEF Restart
<1>15. ASSUME UNCHANGED vars PROVE TypeOK'
  BY <1>15 DEF vars, callVars, batchVars, emitVars, bounds
<1> QED
  BY <1>1, <1>2, <1>3, <1>4, <1>5, <1>6, <1>7, <1>8, <1>9, <1>10, <1>11, <1>12,
     <1>13, <1>14, <1>15 DEF Next

-------------------------------------------------------------------------------
LEMMA InvInit == Init => IInv
<1> SUFFICES ASSUME Init PROVE IInv
  OBVIOUS
<1>1. TypeOK
  BY TypeInit
<1> QED
  BY <1>1 DEF Init, IInv, CallsTracked, BatchIndexed, AppendsAwaited, ResolvedIndexed,
              ReturnedIsIndexed, NoMissedBatch

LEMMA InvStep == IInv /\ [Next]_vars => IInv'
<1> SUFFICES ASSUME IInv, [Next]_vars PROVE IInv'
  OBVIOUS
<1>0. TypeOK'
  BY TypeStep DEF IInv
<1> DEFINE Rest == /\ CallsTracked /\ BatchIndexed /\ AppendsAwaited
                   /\ ResolvedIndexed /\ ReturnedIsIndexed /\ NoMissedBatch
<1> SUFFICES Rest'
  BY <1>0 DEF IInv
<1> USE DEF IInv, TypeOK, CallsTracked, BatchIndexed, AppendsAwaited, ResolvedIndexed,
            ReturnedIsIndexed, NoMissedBatch
<1>1. ASSUME NEW w \in Writes, Write(w) PROVE Rest'
  BY <1>1 DEF Write, batchVars
<1>2. ASSUME NEW w \in Writes, Append(w) PROVE Rest'
  BY <1>2 DEF Append, batchVars
<1>3. ASSUME NEW w \in Writes, AppendFails(w) PROVE Rest'
  BY <1>3 DEF AppendFails, batchVars
<1>4. ASSUME NEW w \in Writes, AppendReturns(w) PROVE Rest'
  BY <1>4 DEF AppendReturns, batchVars
<1>5. ASSUME NEW w \in Writes, WriteReturns(w) PROVE Rest'
  BY <1>5 DEF WriteReturns, batchVars
\* A downloaded block is not the block of a write.
<1>6. ASSUME NEW r \in Remote, Download(r) PROVE Rest'
  BY <1>6, DataStoreAssumption DEF Download, callVars, batchVars
<1>7. ASSUME StartBatch PROVE Rest'
  BY <1>7 DEF StartBatch, callVars
\* From here on the batch waits for the appends that are under way.
<1>8. ASSUME BatchWritten PROVE Rest'
  BY <1>8 DEF BatchWritten, callVars
\* The appends of the batch are over, so its writes are in #pendingIndex.
<1>9. ASSUME EntriesHandled PROVE Rest'
  <2>1. \A w \in Writes : w \in batch => written[w] # "appended"
    BY <1>9 DEF EntriesHandled
  <2>2. resolved' \subseteq indexed
    BY <1>9 DEF EntriesHandled, Resolvable
  <2>3. NoMissedBatch'
    BY <1>9 DEF EntriesHandled, Resolvable
  <2> QED
    BY <1>9, <2>1, <2>2, <2>3 DEF EntriesHandled
<1>10. ASSUME IndexerIdle PROVE Rest'
  BY <1>10 DEF IndexerIdle, callVars, batchVars
<1>11. ASSUME NEW s \in Schemas, Listen(s) PROVE Rest'
  BY <1>11 DEF Listen, callVars, batchVars
<1>12. ASSUME NEW s \in Schemas, Unlisten(s) PROVE Rest'
  BY <1>12 DEF Unlisten, callVars, batchVars
<1>13. ASSUME Close PROVE Rest'
  BY <1>13 DEF Close, callVars, batchVars
<1>14. ASSUME Restart PROVE Rest'
  BY <1>14 DEF Restart
<1>15. ASSUME UNCHANGED vars PROVE Rest'
  BY <1>15 DEF vars, callVars, batchVars
<1> QED
  BY <1>1, <1>2, <1>3, <1>4, <1>5, <1>6, <1>7, <1>8, <1>9, <1>10, <1>11, <1>12,
     <1>13, <1>14, <1>15 DEF Next

LEMMA Inductive == Spec => []IInv
  BY InvInit, InvStep, PTL DEF Spec

\* Every variable of the data store always holds a value of its kind.
THEOREM TypeCorrect == Spec => []TypeOK
<1>1. IInv => TypeOK
  BY DEF IInv
<1> QED
  BY <1>1, Inductive, PTL

\* A call of write() that returned has its block in SQLite.
THEOREM ReturnsAfterIndex == Spec => []ReturnedIsIndexed
<1>1. IInv => ReturnedIsIndexed
  BY DEF IInv
<1> QED
  BY <1>1, Inductive, PTL

\* A write never misses the batch that holds its block, however append() and
\* the indexer overlap.
THEOREM NoneMissed == Spec => []NoMissedBatch
<1>1. IInv => NoMissedBatch
  BY DEF IInv
<1> QED
  BY <1>1, Inductive, PTL

-------------------------------------------------------------------------------
(***************************************************************************)
(* The refinement.  What is indexed was written or downloaded, since it is *)
(* in a core; a call returns only for a resolved promise, and these are    *)
(* indexed.  All other steps leave the mapped variables alone, or move one *)
(* call (a restart: several) to its mapped end.                            *)
(***************************************************************************)
LEMMA CallOfValues ==
  /\ CallOf("none") = "none" /\ CallOf("done") = "done"
  /\ CallOf("appending") = "pending" /\ CallOf("appended") = "pending"
  /\ CallOf("waiting") = "pending"
  /\ CallOf("failed") = "abandoned" /\ CallOf("lost") = "abandoned"
  BY DEF CallOf

\* A step that leaves the calls' states and the tables alone is a stutter.
LEMMA Stutters ==
  ASSUME written' = written, indexed' = indexed
  PROVE  UNCHANGED Atomic!vars
  BY DEF Atomic!vars, CallOf

\* A step that moves one call maps to a change of that call alone.
LEMMA OneCallMoves ==
  ASSUME NEW w \in Writes, NEW to \in CallStates, written \in [Writes -> CallStates],
         written' = [written EXCEPT ![w] = to]
  PROVE  [x \in Writes |-> CallOf(written[x])]' =
           [[x \in Writes |-> CallOf(written[x])] EXCEPT ![w] = CallOf(to)]
  OBVIOUS

LEMMA AtomicInit == Init => Atomic!Init
  BY DEF Init, Atomic!Init, CallOf

LEMMA AtomicStep == IInv /\ [Next]_vars => [Atomic!Next]_Atomic!vars
<1> SUFFICES ASSUME IInv, [Next]_vars PROVE [Atomic!Next]_Atomic!vars
  OBVIOUS
<1> DEFINE call == [w \in Writes |-> CallOf(written[w])]
<1>0. written \in [Writes -> CallStates] /\ TypeOK
  BY DEF IInv, TypeOK
<1>1. ASSUME NEW w \in Writes, Write(w) PROVE Atomic!Begin(w)
  <2>1. call' = [call EXCEPT ![w] = "pending"]
    BY <1>0, <1>1, OneCallMoves, "appending" \in CallStates DEF Write, CallStates, CallOf
  <2> QED
    BY <1>1, <2>1 DEF Write, Atomic!Begin, CallOf
<1>2. ASSUME NEW w \in Writes, Append(w) PROVE UNCHANGED Atomic!vars
  <2>1. call' = [call EXCEPT ![w] = "pending"]
    BY <1>0, <1>2, OneCallMoves, CallOfValues, "appended" \in CallStates DEF Append, CallStates
  <2>2. call[w] = "pending"
    BY <1>2, CallOfValues DEF Append
  <2>3. call' = call
    BY <2>1, <2>2, Zenon
  <2> QED
    BY <1>2, <2>3 DEF Append, Atomic!vars
<1>3. ASSUME NEW w \in Writes, AppendFails(w) PROVE Atomic!Abandon({w})
  <2>1. call' = [call EXCEPT ![w] = "abandoned"]
    BY <1>0, <1>3, OneCallMoves, CallOfValues, "failed" \in CallStates DEF AppendFails, CallStates
  <2>2. call' = [x \in Writes |-> IF x \in {w} THEN "abandoned" ELSE call[x]]
    BY <2>1
  <2>3. call[w] = "pending"
    BY <1>3, CallOfValues DEF AppendFails
  <2> QED
    BY <1>3, <2>2, <2>3 DEF AppendFails, Atomic!Abandon
<1>4. ASSUME NEW w \in Writes, AppendReturns(w) PROVE UNCHANGED Atomic!vars
  <2>1. call' = [call EXCEPT ![w] = "pending"]
    BY <1>0, <1>4, OneCallMoves, CallOfValues, "waiting" \in CallStates
    DEF AppendReturns, CallStates
  <2>2. call[w] = "pending"
    BY <1>4, CallOfValues DEF AppendReturns
  <2>3. call' = call
    BY <2>1, <2>2
  <2> QED
    BY <1>4, <2>3 DEF AppendReturns, Atomic!vars
\* Only resolved writes return, and these are indexed.
<1>5. ASSUME NEW w \in Writes, WriteReturns(w) PROVE Atomic!Return(w)
  <2>1. call' = [call EXCEPT ![w] = "done"]
    BY <1>0, <1>5, OneCallMoves, "done" \in CallStates DEF WriteReturns, CallStates, CallOf
  <2>2. w \in indexed
    BY <1>5 DEF WriteReturns, IInv, ResolvedIndexed
  <2> QED
    BY <1>5, <2>1, <2>2 DEF WriteReturns, Atomic!Return, CallOf
<1>6. ASSUME NEW r \in Remote, Download(r) PROVE UNCHANGED Atomic!vars
  BY <1>6, Stutters DEF Download, callVars
<1>7. ASSUME StartBatch PROVE UNCHANGED Atomic!vars
  BY <1>7, Stutters DEF StartBatch, callVars
\* What a batch holds is in a core, hence written or downloaded.
<1>8. ASSUME BatchWritten PROVE Atomic!Store(batch)
  <2>1. batch \subseteq Remote \cup {w \in Writes : call[w] # "none"}
    <3>1. batch \subseteq blocks /\ blocks \subseteq Writes \cup Remote
      BY <1>0 DEF TypeOK, Entries
    <3>2. \A w \in Writes : w \in blocks => written[w] # "none"
      BY DEF IInv, CallsTracked
    <3>3. \A w \in Writes : written[w] # "none" => call[w] # "none"
      BY <1>0 DEF CallOf, CallStates
    <3> QED
      BY <3>1, <3>2, <3>3
  <2>2. call' = call
    BY <1>8 DEF BatchWritten, callVars
  <2> QED
    BY <1>8, <2>1, <2>2 DEF BatchWritten, Atomic!Store
<1>9. ASSUME EntriesHandled PROVE UNCHANGED Atomic!vars
  BY <1>9, Stutters DEF EntriesHandled
<1>10. ASSUME IndexerIdle PROVE UNCHANGED Atomic!vars
  BY <1>10, Stutters DEF IndexerIdle, callVars
<1>11. ASSUME NEW s \in Schemas, Listen(s) PROVE UNCHANGED Atomic!vars
  BY <1>11, Stutters DEF Listen, callVars
<1>12. ASSUME NEW s \in Schemas, Unlisten(s) PROVE UNCHANGED Atomic!vars
  BY <1>12, Stutters DEF Unlisten, callVars
<1>13. ASSUME Close PROVE UNCHANGED Atomic!vars
  BY <1>13, Stutters DEF Close, callVars
<1>14. ASSUME Restart PROVE \E ws \in SUBSET Writes : Atomic!Abandon(ws)
  <2> DEFINE ws == {w \in Writes : written[w] \in {"appending", "appended", "waiting"}}
  <2>1. \A w \in Writes :
          CallOf(written[w])' = IF w \in ws THEN "abandoned" ELSE CallOf(written[w])
    <3> SUFFICES ASSUME NEW w \in Writes
                 PROVE  CallOf(written[w])' =
                          IF w \in ws THEN "abandoned" ELSE CallOf(written[w])
      OBVIOUS
    <3>1. CASE w \in ws
      <4>1. written'[w] = "lost"
        BY <1>14, <3>1 DEF Restart
      <4> QED
        BY <3>1, <4>1, CallOfValues
    <3>2. CASE w \notin ws
      <4>1. written'[w] = written[w]
        BY <1>14, <3>2 DEF Restart
      <4> QED
        BY <3>2, <4>1
    <3> QED
      BY <3>1, <3>2
  <2>2. call' = [w \in Writes |-> IF w \in ws THEN "abandoned" ELSE call[w]]
    BY <2>1
  <2>3. \A w \in ws : call[w] = "pending"
    BY CallOfValues
  <2> QED
    BY <1>14, <2>2, <2>3 DEF Restart, Atomic!Abandon
<1>15. ASSUME UNCHANGED vars PROVE UNCHANGED Atomic!vars
  BY <1>15, Stutters DEF vars, callVars
<1>16. ASSUME BatchWritten PROVE \E entries \in SUBSET (Remote \cup Writes) : Atomic!Store(entries)
  BY <1>0, <1>8, <1>16 DEF TypeOK, Entries
<1> QED
  BY <1>1, <1>2, <1>3, <1>4, <1>5, <1>6, <1>7, <1>9, <1>10, <1>11, <1>12,
     <1>13, <1>14, <1>15, <1>16 DEF Next, Atomic!Next

\* The data store implements the abstract store, in which a write takes effect
\* in one step between its call and its return.
THEOREM StoreRefines == Spec => ImplementsAtomicStore
<1>1. Spec => Atomic!Init
  BY AtomicInit DEF Spec
<1>2. Spec => [][Atomic!Next]_Atomic!vars
  BY Inductive, AtomicStep, PTL DEF Spec
<1> QED
  BY <1>1, <1>2 DEF ImplementsAtomicStore, Atomic!Spec
===============================================================================
