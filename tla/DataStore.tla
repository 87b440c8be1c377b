------------------------------ MODULE DataStore ------------------------------
(***************************************************************************)
(* One data store of a project (src/datastore/index.js): write() appends a *)
(* block to this device's core and returns when the indexer has put it     *)
(* into SQLite; blocks of other devices reach the same indexer by          *)
(* replication; listeners hear of the documents that changed when the      *)
(* indexer goes idle.                                                      *)
(*                                                                         *)
(* The indexer (multi-core-indexer, external) can pass a block to the      *)
(* batch function as soon as the core holds it, which may be before the    *)
(* append() of write() has returned.                                       *)
(*                                                                         *)
(* An entry is a block of a core, and stands for its version id.  Encoding *)
(* and the content of documents are left out; a restart of the process     *)
(* keeps the cores, the SQLite tables and the indexer's own record of what *)
(* it has processed, and nothing else.                                     *)
(***************************************************************************)
EXTENDS Naturals, FiniteSets

CONSTANTS
  Writes,        \* calls of write(), each of one block
  Remote,        \* blocks of other devices' cores
  DocOf,         \* the document an entry is a version of
  SchemaOf,      \* the schema of a document
  MaxFailures,   \* bound: appends that fail
  MaxRestarts,   \* bound: restarts of the process
  MaxListens     \* bound: listeners that are attached

Entries == Writes \cup Remote
Docs == {DocOf[e] : e \in Entries}
Schemas == {SchemaOf[d] : d \in Docs}

ASSUME DataStoreAssumption ==
  /\ Writes \cap Remote = {}
  /\ DOMAIN DocOf = Entries
  /\ DOMAIN SchemaOf = Docs
  /\ MaxFailures \in Nat /\ MaxRestarts \in Nat /\ MaxListens \in Nat

VARIABLES
  written,         \* write -> where its call of write() stands
  blocks,          \* entries the cores hold
  indexed,         \* entries in the SQLite tables
  processed,       \* entries the indexer has marked as done
  pendingAppends,  \* #pendingAppends: writes whose deferredAppend is not resolved
  pendingIndex,    \* #pendingIndex: writes that wait to be indexed
  resolved,        \* pending writes whose deferred is resolved
  batch,           \* entries passed to #handleEntries
  stage,           \* where #handleEntries stands
  awaiting,        \* the appends that its Promise.all waits for
  indexer,         \* "indexing", "idle" or "closed"
  pendingEmits,    \* #pendingEmits
  listening,       \* schemas with a listener
  heard,           \* entries whose document was emitted after they were indexed
  failures, restarts, listens

callVars  == <<written, pendingAppends, pendingIndex, resolved>>
batchVars == <<batch, stage, awaiting>>
emitVars  == <<pendingEmits, listening, heard>>
bounds    == <<failures, restarts, listens>>
vars == <<callVars, blocks, indexed, processed, batchVars, indexer, emitVars, bounds>>

\* A call of write(): in append(), the block is in the core but append() has
\* not returned, waiting for the index, returned, thrown, lost in a restart.
CallStates == {"none", "appending", "appended", "waiting", "done", "failed", "lost"}

Init ==
  /\ written = [w \in Writes |-> "none"]
  /\ blocks = {} /\ indexed = {} /\ processed = {}
  /\ pendingAppends = {} /\ pendingIndex = {} /\ resolved = {}
  /\ batch = {} /\ stage = "none" /\ awaiting = {}
  /\ indexer = "indexing"
  /\ pendingEmits = {} /\ listening = {} /\ heard = {}
  /\ failures = 0 /\ restarts = 0 /\ listens = 0

(***************************************************************************)
(* write()                                                                 *)
(***************************************************************************)

Write(w) ==
  /\ written[w] = "none"
  /\ written' = [written EXCEPT ![w] = "appending"]
  /\ pendingAppends' = pendingAppends \cup {w}
  /\ UNCHANGED <<pendingIndex, resolved, blocks, indexed, processed, batchVars,
                 indexer, emitVars, bounds>>

\* The block reaches the core.
Append(w) ==
  /\ written[w] = "appending"
  /\ written' = [written EXCEPT ![w] = "appended"]
  /\ blocks' = blocks \cup {w}
  /\ UNCHANGED <<pendingAppends, pendingIndex, resolved, indexed, processed, batchVars,
                 indexer, emitVars, bounds>>

\* append() throws: deferredAppend is never resolved and never deleted.
AppendFails(w) ==
  /\ written[w] = "appending"
  /\ failures < MaxFailures
  /\ failures' = failures + 1
  /\ written' = [written EXCEPT ![w] = "failed"]
  /\ UNCHANGED <<pendingAppends, pendingIndex, resolved, blocks, indexed, processed,
                 batchVars, indexer, emitVars, restarts, listens>>

\* Mutant: the promise of the append stays in #pendingAppends, unresolved.
Defect_AppendStaysPending(w) ==
  /\ written[w] = "appended"
  /\ written' = [written EXCEPT ![w] = "waiting"]
  /\ pendingIndex' = pendingIndex \cup {w}
  /\ UNCHANGED <<pendingAppends, resolved, blocks, indexed, processed, batchVars,
                 indexer, emitVars, bounds>>

\* append() returns; write() runs up to the next await.
AppendReturns(w) ==
  /\ written[w] = "appended"
  /\ written' = [written EXCEPT ![w] = "waiting"]
  /\ pendingAppends' = pendingAppends \ {w}
  /\ pendingIndex' = pendingIndex \cup {w}
  /\ UNCHANGED <<resolved, blocks, indexed, processed, batchVars, indexer, emitVars, bounds>>

WriteReturns(w) ==
  /\ written[w] = "waiting"
  /\ w \in resolved
  /\ written' = [written EXCEPT ![w] = "done"]
  /\ pendingIndex' = pendingIndex \ {w}
  /\ UNCHANGED <<pendingAppends, resolved, blocks, indexed, processed, batchVars,
                 indexer, emitVars, bounds>>

\* A block of another device is downloaded.
Download(r) ==
  /\ r \notin blocks
  /\ blocks' = blocks \cup {r}
  /\ UNCHANGED <<callVars, indexed, processed, batchVars, indexer, emitVars, bounds>>

(***************************************************************************)
(* #handleEntries                                                          *)
(***************************************************************************)

\* Mutant: records entries as processed before they are.
Defect_MarkedFirst ==
  /\ stage = "none" /\ indexer # "closed"
  /\ \E b \in SUBSET (blocks \ processed) \ {{}} :
       batch' = b /\ processed' = processed \cup b
  /\ stage' = "writing"
  /\ indexer' = "indexing"
  /\ UNCHANGED <<callVars, blocks, indexed, awaiting, emitVars, bounds>>

\* The indexer passes some of the entries it has not processed.
StartBatch ==
  /\ stage = "none" /\ indexer # "closed"
  /\ \E b \in SUBSET (blocks \ processed) \ {{}} : batch' = b
  /\ stage' = "writing"
  /\ indexer' = "indexing"
  /\ UNCHANGED <<callVars, blocks, indexed, processed, awaiting, emitVars, bounds>>

\* this.#batch(entries) has resolved: the rows are in SQLite.
BatchWritten ==
  /\ stage = "writing"
  /\ indexed' = indexed \cup batch
  /\ awaiting' = pendingAppends
  /\ stage' = "awaitingAppends"
  /\ UNCHANGED <<callVars, blocks, processed, batch, indexer, emitVars, bounds>>

\* The deferreds that #handleEntries resolves.
Resolvable == batch \cap pendingIndex

\* Mutant: a batch replaces what earlier batches left to emit.
Defect_OverwritesEmits ==
  /\ stage = "awaitingAppends"
  /\ awaiting \cap pendingAppends = {}
  /\ resolved' = resolved \cup Resolvable
  /\ pendingEmits' = {DocOf[e] : e \in batch}
  /\ processed' = processed \cup batch
  /\ batch' = {} /\ stage' = "none" /\ awaiting' = {}
  /\ UNCHANGED <<written, pendingAppends, pendingIndex, blocks, indexed, indexer,
                 listening, heard, bounds>>

\* The rest of #handleEntries, and the indexer's record of the batch.
EntriesHandled ==
  /\ stage = "awaitingAppends"
  /\ awaiting \cap pendingAppends = {}
  /\ resolved' = resolved \cup Resolvable
  /\ pendingEmits' = pendingEmits \cup {DocOf[e] : e \in batch}
  /\ processed' = processed \cup batch
  /\ batch' = {} /\ stage' = "none" /\ awaiting' = {}
  /\ UNCHANGED <<written, pendingAppends, pendingIndex, blocks, indexed, indexer,
                 listening, heard, bounds>>

\* #handleIndexerIdle
IndexerIdle ==
  /\ stage = "none" /\ indexer = "indexing"
  /\ blocks \subseteq processed
  /\ indexer' = "idle"
  /\ heard' = heard \cup {e \in processed : /\ DocOf[e] \in pendingEmits
                                            /\ SchemaOf[DocOf[e]] \in listening}
  /\ pendingEmits' = {}
  /\ UNCHANGED <<callVars, blocks, indexed, processed, batchVars, listening, bounds>>

(***************************************************************************)
(* Listeners, close and restart                                            *)
(***************************************************************************)

Listen(s) ==
  /\ s \notin listening
  /\ listens < MaxListens
  /\ listens' = listens + 1
  /\ listening' = listening \cup {s}
  /\ UNCHANGED <<callVars, blocks, indexed, processed, batchVars, indexer, pendingEmits,
                 heard, failures, restarts>>

Unlisten(s) ==
  /\ s \in listening
  /\ listening' = listening \ {s}
  /\ UNCHANGED <<callVars, blocks, indexed, processed, batchVars, indexer, pendingEmits,
                 heard, bounds>>

\* close(): the indexer finishes its batch and takes no other.
Close ==
  /\ stage = "none" /\ indexer # "closed"
  /\ indexer' = "closed"
  /\ UNCHANGED <<callVars, blocks, indexed, processed, batchVars, emitVars, bounds>>

\* Mutant: a restart rolls the tables back to the indexer's record.
Defect_RollsBack ==
  /\ restarts < MaxRestarts
  /\ restarts' = restarts + 1
  /\ written' = [w \in Writes |->
                   IF written[w] \in {"appending", "appended", "waiting"} THEN "lost"
                   ELSE written[w]]
  /\ indexed' = processed
  /\ pendingAppends' = {} /\ pendingIndex' = {} /\ resolved' = {}
  /\ batch' = {} /\ stage' = "none" /\ awaiting' = {}
  /\ indexer' = "indexing"
  /\ pendingEmits' = {} /\ listening' = {}
  /\ UNCHANGED <<blocks, processed, heard, failures, listens>>

\* The process dies and a new data store opens the same storage.
Restart ==
  /\ restarts < MaxRestarts
  /\ restarts' = restarts + 1
  /\ written' = [w \in Writes |->
                   IF written[w] \in {"appending", "appended", "waiting"} THEN "lost"
                   ELSE written[w]]
  /\ pendingAppends' = {} /\ pendingIndex' = {} /\ resolved' = {}
  /\ batch' = {} /\ stage' = "none" /\ awaiting' = {}
  /\ indexer' = "indexing"
  /\ pendingEmits' = {} /\ listening' = {}
  /\ UNCHANGED <<blocks, indexed, processed, heard, failures, listens>>

Next ==
  \/ \E w \in Writes :
       Write(w) \/ Append(w) \/ AppendFails(w) \/ AppendReturns(w) \/ WriteReturns(w)
  \/ \E r \in Remote : Download(r)
  \/ StartBatch \/ BatchWritten \/ EntriesHandled \/ IndexerIdle
  \/ \E s \in Schemas : Listen(s) \/ Unlisten(s)
  \/ Close \/ Restart

Spec == Init /\ [][Next]_vars

\* Storage answers, promises that are resolved are resumed, and the indexer
\* works while it is open.  Nobody has to write, listen or close.
Fairness ==
  /\ \A w \in Writes :
       WF_vars(Append(w)) /\ WF_vars(AppendReturns(w)) /\ WF_vars(WriteReturns(w))
  /\ WF_vars(StartBatch) /\ WF_vars(BatchWritten) /\ WF_vars(EntriesHandled)
  /\ WF_vars(IndexerIdle)

FairSpec == Spec /\ Fairness

(***************************************************************************)
(* Properties                                                              *)
(***************************************************************************)

\* Every variable holds a value of its kind.
TypeOK ==
  /\ written \in [Writes -> CallStates]
  /\ blocks \subseteq Entries /\ indexed \subseteq blocks /\ processed \subseteq indexed
  /\ pendingAppends \subseteq Writes /\ pendingIndex \subseteq Writes /\ resolved \subseteq Writes
  /\ batch \subseteq blocks /\ stage \in {"none", "writing", "awaitingAppends"}
  /\ awaiting \subseteq Writes
  /\ indexer \in {"indexing", "idle", "closed"}
  /\ pendingEmits \subseteq Docs /\ listening \subseteq Schemas /\ heard \subseteq Entries
  /\ failures \in 0 .. MaxFailures /\ restarts \in 0 .. MaxRestarts /\ listens \in 0 .. MaxListens

\* write() returns after its block is in SQLite, also when the process
\* restarts later: who awaits a write reads what was written.
ReturnedIsIndexed == \A w \in Writes : written[w] = "done" => w \in indexed

\* No write misses its batch: when the indexer is done with the block of a
\* write that still waits, the write has been told.  The block may have been
\* indexed before append() returned, when #pendingIndex had no entry for it.
NoMissedBatch ==
  \A w \in Writes : written[w] = "waiting" /\ w \in processed => w \in resolved

\* Every write whose append succeeds returns, unless the store is closed or
\* restarted, or the append of another write failed: #handleEntries then waits
\* for a promise that nobody resolves.
WritesReturn ==
  \A w \in Writes :
    written[w] = "appended" ~>
      written[w] = "done" \/ indexer = "closed" \/ written[w] = "lost" \/ failures > 0

\* An entry that is indexed while its schema has a listener is heard of, also
\* when other entries arrive before the indexer is idle.
UpdatesAreHeard ==
  \A e \in Entries :
    e \in batch /\ stage = "awaitingAppends" /\ SchemaOf[DocOf[e]] \in listening ~>
      \/ e \in heard
      \/ SchemaOf[DocOf[e]] \notin listening \/ indexer = "closed" \/ failures > 0

\* A restart loses the calls but no block: whatever the cores hold reaches the
\* tables, also the block of a write that was lost between append and index.
BlocksAreIndexed ==
  \A e \in Entries : e \in blocks ~> e \in indexed \/ indexer = "closed" \/ failures > 0

(***************************************************************************)
(* The store as its users see it: the tables, and the calls without the    *)
(* way they take.                                                          *)
(***************************************************************************)
CallOf(state) ==
  CASE state = "none"                                -> "none"
    [] state \in {"appending", "appended", "waiting"} -> "pending"
    [] state = "done"                                -> "done"
    [] state \in {"failed", "lost"}                   -> "abandoned"

Atomic == INSTANCE AtomicStore
  WITH call <- [w \in Writes |-> CallOf(written[w])], stored <- indexed

\* The data store implements AtomicStore: a write takes effect in one step
\* between its call and its return, what was readable stays readable in a
\* restart, and no entry appears that was not written.
ImplementsAtomicStore == Atomic!Spec
=============================================================================
