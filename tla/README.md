# Verification of nldb

TLA+ models of nldb: its transaction pipeline and replication, its catalog of
databases and tables, the array tree that holds its volatile tables and the
LevelDB plugin that holds its persistent ones, and the disruptor it is built on,
with TLC runs on small instances and TLAPS proofs of the safety of all of them for
instances of any size; of the tree's key counts, queries and cursors there are runs
only. Sources are under `src/src/`; `PROJECT.json` maps every definition to the
lines it models.

## Inventory

nldb is an embedded key-value store. An application opens a database, begins a
transaction, puts and deletes keys in tables and commits. A database opened with
a `master_op` publishes each ended transaction over a libxs PUB socket; one
opened with a `slave_op` subscribes and redoes what it receives.

| part | state | operations | works with |
|---|---|---|---|
| log buffer (`nldb_transaction_log_buffer.h`) | records, their size, transaction id, finalized flag, the message bytes | append, clear, reset, finalize, build message, apply message | a ring slot holds one |
| transactions (`nldb.cpp`, `nldb_tx_impl_t`) | current event, process-wide next id | begin, commit, abort, end | claims and publishes ring slots |
| transaction ring (`TxTransactionsLogs`, disruptor) | slots, claimed sequence, cursor, gating sequence, alert and running flags | claim, publish, wait, halt, join | the application and the publisher thread share it without locks |
| publisher (`nldb_txevent.h`) | process-wide previous id, socket | `OnEvent` | sends the buffer's own memory |
| slave (`nldb_repl_slave_thread.cpp`, `nldb_transaction_log_redoer.h`) | process-wide previous id, redo transaction, tables | receive, check id, redo, commit | the slave's tables |
| sorted array, array tree (`nldb_sorted_array.h`, `nldb_array_tree.h`) | nodes with keys, counts, parent, children, leaf chain | put with splits, del, get by key and by order | the plugin |
| array tree plugin (`nldb_plugin_array_tree.cpp`) | table and cursor contexts | table and cursor calls | `nldb.cpp` |
| catalog (`nldb.cpp`) | plugin registry, a meta table per database, open databases and tables | init, create, open, close, drop | the application, and the redoer's thread on a slave |
| LevelDB plugin (`nldb_plugin_leveldb.cpp`) | directories, locked while they are open; iterators | create, open, close, drop, put, del, cursors | the catalog, and LevelDB (external) |
| disruptor (`disruptor--/`) | cursor, claimed and gating sequences, a mutex and a condition variable, alerts | claim, publish, wait by four strategies, halt | publisher and consumers, which may depend on each other |
| TokyoCabinet plugin, object pool | external library, free lists | table calls, malloc | not modelled |

What is hard: the ring is shared by two threads that synchronise through four
words; a message that has been sent still points into a slot; the process-wide
ids outlive a database and a slave; a PUB socket loses what nobody has
subscribed to; splits propagate over several levels and must keep links, parents
and counts in step; deletes leave empty leaves behind, and writes leave iterators
stale; creating a table is several steps between which the process can die or the
redoer can come; the catalog keeps plugin ids that another process has handed
out; a consumer looks at the cursor and then sleeps. The hazards are listed, each
at its line, in `PROJECT.json`.

What makes each part right: a slot belongs to one thread at a time and keeps its
transaction until it is sent; transactions are sent whole, once, in order; wait
and close return when they may and must; a slave's table is always what a prefix
of the master's log makes of an empty one; the catalog lists what exists, and no
directory stays locked; a table is a map; the tree is balanced, ordered, counted
and chained; a scan misses nothing, or sees a snapshot; a consumer handles every
event while it is still there, and stops when it is halted.

## Modules

* `LogBuffer` - `TxTransactionLogBuffer` as a record. A log record is opaque and
  takes one cell; `totalLogCount_`, `totalLogSize_` and `nextLogAddr_` move
  together and are one field. The message bytes are kept apart from the fields,
  because `reset` rewinds the fields and leaves the bytes.
* `TxPipeline` - the application thread (`apc`) and the publisher thread (`ppc`).
  One action per access to a shared word: `Halt` and `Alert` are two steps, as in
  the code, and so are `RunStart` and `ClearAlert`, the read of the cursor
  (`WaitFor`) and of the alert (`CheckAlert`). Work on a slot belongs to the step
  that acquires or releases it. `ended` and `sent` are history variables, and so is
  `careless`: the application has opened the database without a master, or closed
  it with a transaction unsent. A
  failing `tx_assert` stops both threads and is recorded in `fault`; the
  makefiles do not define `NDEBUG`, so the assertions are active. The application
  may also begin a second transaction while one is open (`BeginAnother`): both use
  the current event, and the assertion in `setTransactionId` stops it.
* `LogShipping` - the abstract specification of replication: a replica applies a
  log one whole transaction at a time, or starts again from nothing.
* `Replication` - extends `TxPipeline` with the master's table, the sockets and
  the slave. A message on the `wire` is a pointer: its bytes are read in
  `Transmit`. The slave can start late, crash and restart; it loses its tables
  and its previous id, the sockets what was on its way. The socket is external
  and modelled by how the code uses it. The master is one that is replicated from
  its first open on and is closed when its socket is drained. `begin` taking a slot
  is an action of its own (`TakeSlot`), because it is what can spoil a message.
* `SortedArray` - a node's keys as a sequence of entries. Keys are integers,
  compared as `memcmp` compares them.
* `TreeNodes` - a tree as a record: its nodes in a sequence, addressed by index,
  their key counts and the root. A call of put, del or get is a record too, with
  its local variables and the activations of `put_to_internal_node` on a stack, and
  each of its steps an operator from a tree and a call to the next: one round of a
  loop or one level of the recursion. Put follows the code through leaf split,
  internal split, new root and the count propagation with its fence.
* `ArrayTree` - the state machine of these steps, one action each. One thread uses a
  table, so nothing interleaves with a call; the steps are there because the tree in
  the middle of a put is what the next step relies on. History variables are the
  table as the application has written it (`want`), the `answer` of the last get,
  and for every node the keys it serves (`range`) and its `level`, which let the
  properties speak of the tree without descending it.
* `TreeQueries` - what is read between two calls: get by key and by order, the walk
  along the leaves, and `print_tree` and `check_consistency`, the assertions of
  `nldb_debuggable_array_tree.h`, which `table_close` runs in a debug build; and put
  and del run to the end, for the cursor. Its operators are recursive.
* `OrderedMap` - the abstract specification of a table, which `ArrayTree`
  implements.
* `Cursor` - extends `TreeQueries` with one cursor on one table. The application may write
  between two fetches (`WriteDuringScan`); an iterator that moves backward and
  finds itself past the end of its leaf fails an assertion (`FetchFails`).
* `Catalog` - the registry (`reg`), what is on disk (`meta`, `dirs`), what the
  process has open (`locks`, `db`, `handles`), the application in the middle of
  `nldb_table_create` (`app`) and the redoer's thread in the middle of opening a
  table (`redo`). `CreateTable`, `CloseCreated` and `MetaPut` are the three places
  where another thread or a crash can come between. A directory can be open once;
  where the plugin then runs into `tx_assert(0)`, `fault` is `"locked"`. `asked`,
  `stored` and `careless` are history: the last says that the application has used
  one table in two ways at once. `Crash` can come at any step.
* `LevelTable` - a persistent table, the calls that write it and a cursor. One
  thread uses it: a second open of its directory stops the process, as `Catalog`
  shows, so calls do not interleave. A LevelDB iterator sees the table as it was when
  it was made (external).
* `Sequencer` - the disruptor with the strategies and the options nldb does not
  use: batch claims, consumers that wait for consumers, handlers that throw, and the
  blocking strategy with its mutex and condition variable, one action per step of its
  loop. The three strategies that do not block are one (`"spinning"`): they differ in
  how they pass the time. A consumer starts outside `Run`; entering it sets `running_`
  and then clears the alert, and `Halt` resets the one and then raises the other, four
  steps that can mix. `early` is history: who was halted before `Run` had cleared the
  alert. `Run` calls the untimed `WaitFor` only (`event_processor.h:88`), so there are
  no time outs.
* `TxPipelineProofs`, `ReplicationProofs`, `CatalogProofs`, `SequencerProofs`,
  `LevelTableProofs`, `SortedArrayProofs`, `ArrayTreeProofs` - the theorems about
  the module of the name; `MinMaxProofs` - what `Min` and `Max` return on sets of integers.
* `MCTxPipeline`, `MCReplication`, `MCTallTree`, `MCCursor`, `MCCatalog`,
  `MCLevelTable`, `MCSequencer` - instances. `MCTallTree` also holds the properties
  of the tree that need `TreeQueries`. Definitions that only serve as wrong
  variants of an operation stand before that operation and say so.

## Runs

| run | bounds | shows |
|---|---|---|
| `pipeline` | 2 slots, 5 transactions, one record, 1-record buffers, 2 opens with or without a master, closes with or without a wait | ring ownership, pending buffers intact, hand-over assertions, order of sending; and, while the application is not careless, the id checks, the wait and the liveness of sending |
| `pipeline_halt` | 1 transaction | violated: a `Halt` before `Run` is lost and close hangs |
| `replication_safe` | 2 slots, 3 transactions of 1 record, 1 key, a value of one word and one of two, 2 slave starts, no slot granted under an unsent message | messages intact, refinement of `LogShipping`, the slave's table, catching up |
| `replication_wrap` | 2 slots, 3 transactions | violated: a slot is reused under a message that has not been transmitted |
| `replication_abort` | aborts of writing transactions | violated: the slave cannot redo a DEL |
| `replication_long` | 1 transaction, a value of two words | violated: the slave keeps the first word of a longer value |
| `tree_tall` | 24 keys loaded up or down, then any puts of 2 values, gets and deletes of 3 keys, step by step | refinement of `OrderedMap`, no write lost; shape and chain at every step of a put; counts, queries and debug checks in trees with splits at every level |
| `cursor_scan` | 5 keys, three leaves, both directions, 2 writes during a scan | scans and their orders, and what is left of them under writes |
| `cursor_end` | the same, without writes during a scan | violated: a scan ends at an emptied leaf |
| `catalog` | 1 table of any of 3 kinds, 2 handles, 5 plugin slots, 2 calls of `nldb_init`, 1 record | catalog and directories agree, locks, right plugin, records survive |
| `leveldb_scan` | 3 keys, 2 values, 1 cursor | snapshot scans |
| `sequencer` | ring of 2, batches of 1 or 2, 3 events, a chain of 2 consumers, 1 of them halted | events stable while handled, no lost wake-up, halt of a consumer that spins |

Why the bounds are enough. Two slots and at least three transactions wrap the
ring while the publisher lags, and two opens restart every counter but the
process-wide ids. One-record buffers make the overflow check bite. The three
transactions of `replication_safe` wrap its ring, while the socket has transmitted
what was in the slot; without that restriction the wrap breaks what the run checks,
which is what `replication_wrap` shows. The real ring has 2048 slots, so there the
same needs a socket 2048 messages behind. Three keys per
node are the fewest the code supports, and split most often. In `tree_tall` the
loads of 8, 16 and 24 keys leave an internal root, an internal node below the
root, and three levels at once about to split; the three keys that are then put,
sought and deleted lie at the left end and at the seams. Two writes under a cursor are enough
to split its leaf and to empty it. The tables of a database share nothing but the
registry and the meta table, whose entries are independent, so one table stands
for all; five plugin slots let a second `nldb_init` fail half way. Three events
on a ring of two make a batch wrap, and the chain of two consumers waits both for
the cursor and for a sequence. Either of them may be the one that is halted
(`MaxHalts`).

Deadlock is checked in `leveldb_scan` and `catalog`, where some call is always
possible. In the others the application may stop calling, and the bounds on
transactions, opens and sequences end every behaviour.

The passing runs rest on assumptions of use, each a history variable, a constant, a
guard or a predicate of its own:

* `~careless` in `PipelineAsserts`, `DrainedMeansSent` and `EveryEndedIsSent`: the
  database has always been opened with a master, and closed after a wait (as the
  sample server does it). `SentInOrder` and the properties of the ring need nothing.
* `WireKeepsUp`: begin is granted no slot whose message the socket still has to
  transmit. `KeepsUpSpec` of `replication_safe` has it as a condition of `TakeSlot`;
  `replication_wrap` lifts it. `WireIntact` speaks of the messages for which it is met.
* `AbortsWrites = FALSE`; `replication_abort` lifts it.
* `CloseMaster`: a socket drained before the master is closed.
* `DelsMissing = FALSE` in `tree_tall`; see Findings.
* `HaltStops`: a strategy that spins, and a `Halt` that comes when the consumer is in
  `Run` and has cleared the alert; `pipeline_halt` shows the other case.

Fairness. `FairSpec` is weak fairness of the publisher thread and of the
application inside a call that waits (claim, wait, halt, join): both are runnable
threads that spin or yield. Nothing forces the application to begin, end or
close. `ReplFairness` is weak fairness of the publisher, of the socket's I/O thread
and of the slave thread; nothing is assumed of starting or of crashing. `Sequencer` has
weak fairness of every thread's own steps, of entering `Run` and of the second step of a
`Halt` among them, and strong fairness of getting the mutex (`Lock`, `Signal`), which is free again and
again: a mutex on which a thread starved would be no use to the code. Nothing is
assumed of claiming, of halting, of throwing and of spurious wake-ups.

## Proofs

The theorems hold for every value of the constants that meets the modules'
assumptions, which TLC evaluates in the runs. In each module one invariant is
inductive, and the properties of the runs follow from it. The invariants were
checked with TLC on the instances of the runs before they were proved.
The SMT encoding of tlapm 1.4.5 treats any function as a sequence once `Len` occurs
in an obligation, so a function on a domain like `0 .. n` next to a `Len` could make
an obligation vacuous. The proofs use sequences there (`HistoryInv` keeps the
replayed tables in one), and every leaf was also checked with that axiom restricted
to functions whose domain is `1 .. n`.

**The pipeline** (`TxPipelineProofs`): every ring size, buffer size, set of
records and number of transactions and opens.

* `TypeCorrect`, and `RingInvariant`: `RingInv` is inductive. `TypeOK` and the
  ownership property alone are not: that a claimed slot is free follows from where
  every slot stands. `CountersInv` orders `seq`, `next`, `avail` and `cursor`;
  `ClaimInv` bounds the claim by the gating sequence plus the size of the ring and
  ties it to the application's place; `SlotsInv` says of each slot whether it is
  clear, open or pending with the transaction its sequence number stands for.
  `OpenHasId`, proved with it, says that the event of an open transaction has a
  transaction id, so that a second begin stops instead of taking the event over.
  The arithmetic fact behind it is that two sequences less than a ring apart have
  different slots.
* From it `RingOwnershipHolds`, `PendingIntactHolds`, `HandoverAssertsHold`.
* `SentInOrderHolds`, for any use: with `PrefixInv`, that the ids of the ended
  transactions ascend and the open one's comes last, and that what was sent is a prefix
  of what has ended whose ids have no gap.
* `OrderInvariant`: the application is careless, or `OrderInv` holds, which ties
  `sent`, `prevTxId`, `nextTxId` and `ended` to each other over reopenings. From it
  `DrainedMeansSentHolds` and `PipelineAssertsHold`, with the condition that is in the
  properties and no other.

**Replication** (`ReplicationProofs`): every ring, set of keys and values, number
of transactions, opens, slave starts and crashes. The pipeline's invariants carry
over, because a step of the composition is a step of the pipeline or leaves it
alone (`PipelineStep`).

* `ReplTypeCorrect` needs no hypothesis.
* `WireIntactHolds` needs none either: `WireInv` says that the wire is the tail of what
  was sent, each pointer at its own slot, with its bytes unchanged until begin is
  granted that slot again.
* What the slave receives depends on the bytes of every message, so the theorems about
  it assume `[]WireKeepsUp`. The code does not enforce it - `replication_wrap` is the
  violation without it - and a ring of 2048 slots makes it likely.
  `WireKeepsUpHolds` proves it for masters whose transactions fit in the ring.
* `MessagesInvariant`: `InboxInv` says that the inbox is what comes before the wire, up
  to the slave's `sprev`. From it `SlaveSeesEveryIdHolds`.
* `ShipsLogHolds`: the refinement of `LogShipping`, for values of any length; the
  replica has of a value what `redoLog` keeps (`RedoValue`). `SlaveInv` says that the
  slave's table is the committed one with a prefix of the next transaction redone.
* `RedoAlwaysSucceedsHolds`, if no transaction that wrote is aborted
  (`KeepsWrites`; `replication_abort` is the violation without it), and
  `ReplicaFollowsMasterHolds`: the slave has the master's keys, each with what
  `redoLog` keeps of its value. That it has the values themselves is false
  (`replication_long`). The property speaks of a master opened once: a reopened one has
  empty volatile tables and the slave does not. `HistoryInv` says that there
  is a table for every prefix of the log, that each DEL finds its key in the table
  it is redone on, and that the master's table is, up to the cut of the values, at the
  end of that history.

**The catalog** (`CatalogProofs`): any number of tables, handles, plugin slots and
initialisations, with a crash at any step. `CatalogInvariant` has five parts beside
the types. `RegistryInv`: a kind is at ids of its own residue modulo three, which
is why ids in the catalog stay right in a process that initialises more than once
or half way. `DiskInv`: an entry of the catalog says the kind that was asked for, and
has its directory. `OpenInv`: where the application and the redoer stand in
creating and opening a table. `LockInv`: a locked directory has exactly one user.
`CareInv`: while the application does not use one table in two ways at once, it
and the redoer hold different tables. From it `CatalogBackedHolds`,
`LocksAreHandlesHolds`, `LockedOnlyIfCarelessHolds`, `RightPluginHolds` and
`RecordsSurviveHolds`. `NoDirAssumption` says that the value for "no directory" is
neither a set of records nor a catalog.

**The disruptor** (`SequencerProofs`): any ring, batches, consumers and
dependencies. `SequencerInvariant`: a value a consumer has read may be old and is
never too large (`ReadInv`), no consumer overtakes those it waits for
(`ChainInv`), and the publisher is less than a ring ahead of every gating consumer
(`GateInv`). `HandledEventStableHolds` extends the last to the consumers that are
not gating: along the dependencies, starting from the gating ones. That is what
`GatingCoversAssumption` is for - every consumer must be one that a gating consumer
waits for, directly or through others - which the code leaves to its caller
(`set_gating_sequences`).

**A persistent table** (`LevelTableProofs`): any keys and values.
`LevelInvariant` relates the iterator's place to what was fetched, after any seek:
exactly what the iterator has passed of the snapshot (`Reached`). From it
`SnapshotScanHolds`, also for a scan that is not at its end; `ReachedIsDue` says for
which seeks what is reached is what the key and the direction promise.

**The sorted array** (`SortedArrayProofs`): arrays of any length, any integer keys
and any data. The two searches (`SearchForwardSplits`, `SearchBackwardSplits`,
`HasIsThere`), `PutRight`, `DelRight`, `SplitRight` and `IterationStart` are what
the tree relies on when it calls a node's array.

**The array tree** (`ArrayTreeProofs`): any set of integer keys, any values, nodes of
any capacity from three keys on, any number and order of calls, deletes of keys that
are not there among them. `TreeInvariant`: `TreeInv` is inductive. It says, of the
tree at every step of a call:

* `ArraysOK`: a node's keys ascend and fit.
* `ShapeOK`: the nodes are a search tree, all of its leaves at one level. The keys
  that a node serves are divided among its children; every node serves some key, and two
  nodes of one level serve disjoint keys. A child that was split off and not yet put into its parent counts as
  the child of the node it will be put into; without that, the tree in the middle of
  a put is not a search tree, and no step of the climb could be shown to end in one.
* `RootOK`, `LinksOK`: the root serves all keys; another node's parent is the node it
  hangs in, and 0 exactly while it is pending. That is why `put_to_internal_node` may
  take a node without a parent for the root.
* `ChainOK`: the chain of leaves.
* `FramesOK`: the activation at depth j is for a node of level j. All but the last
  have split their node, and in the half that the key goes to is room: the put after
  a split never splits again.
* `CallOK`, `WantOK`: a call that descends is at a node that serves its key, and until
  it has reached the leaf the table is one key behind what was asked for.

`WellFormed` alone is not inductive: it does not say that there is room in the half,
at which levels the activations are, or that two nodes serve disjoint keys. The ranges
and levels, which are history, take the place of the recursion over the tree: what a
search finds follows from "the child that serves the key" one level at a time. A
split is proved once, for any node (`Shape` and the lemmas about it), and used for
leaves, internal nodes and the root. Each action has its lemma. From the invariant
`WellFormedHolds`, with which no `tx_assert` of put on the shape fails;
`ChainCompleteHolds`; and `IsOrderedMapHolds`: a put or del changes one key, in the
step at its leaf, whatever splits after it, and a get returns what was put last.

Only model-checked:

* Liveness under fairness (`EveryEndedIsSent`, `ClaimIsGranted`, `SlaveCatchesUp`,
  `EveryEventHandled`, `HaltStops`), which is out of the prover's reach.
* `KeyCountsRight`, `QueriesRight` and `DebugChecksPass` of the tree. A count is a sum
  folded over a node's children and compared with the keys under the node, and the
  queries and checks descend by recursive operators: both need induction over the
  array or over the height of the tree, which the prover does not have.
* The properties of `Cursor`, which rest on those queries.

## Findings

The five violated properties are described in `PROJECT.json`. One more is had by
changing one constant of a passing run: `DelsMissing = TRUE` in `tree_tall.cfg`
violates `KeyCountsRight`, because `del` decrements the counts of the path also when
the key is not found (`nldb_array_tree.h:1206`).

Observations from modelling:

* Transactions on a database without a master, followed by an open with one, fail
  the publisher's id check, because both ids are static (`nldb_txevent.h:158`,
  `nldb.cpp:424`).
* A cursor sought at a missing key returns orders counted from the start of the
  leaf (`nldb_plugin_array_tree.cpp:458`).
* A backward scan whose leaf has shrunk fails an assertion of `iter_prev` in a
  debug build, and in a release build returns what is left behind the array's end.
* `nldb_db_create` of a database that is open does not answer
  `NLDB_ERROR_DB_ALREADY_EXISTS`: the probe cannot open the locked meta table,
  takes it for missing, and the create runs into `tx_assert(0)`.
* `nldb_table_drop` and `nldb_db_drop` leave the tables' directories, so a table
  created again under the same id has its old records.
* A table whose plugin was added by hand is opened through a null plugin, or
  another one, by a process that has not added it in the same order.
* A LevelDB cursor sought backward at a key that is missing starts at the next
  larger key, and finds nothing when there is none; one of the array tree starts
  at the next smaller. The cursor tests, which say that they run on LevelDB tables
  (`nldb_cursor_test.h:20`), expect the next smaller key, the end before the smallest
  key and the largest key past it (`nldb_cursor_test.cpp:90`, `269` and `289`), and so
  does the comment at `nldb_sorted_array.h:188`. `SnapshotScan` does not take sides:
  after such a seek it asks for order and for the records of the snapshot only.
* `BatchEventProcessor::Halt` alerts the barrier and wakes nobody: a consumer of
  the blocking strategy that is asleep, or has just looked at the alert, stays until
  the next publish, against `interface.h:200` ("Signal that this EventProcessor should
  stop when it has finished consuming at the next clean break."). nldb uses the
  busy-spin strategy.
* In a debug build `table_close` of an array tree runs the tree's checks before it
  looks at `isInitialized` (`nldb_plugin_array_tree.cpp:161`, `167` and `174`): on a
  table that was never written they start from a root that was never set.
  `DebugChecksPass` is about tables that have been written.

## Not modelled

The TokyoCabinet plugin (each operation is one external call), the object pool
(the identity of addresses, which the models abstract), value packing, the
printing of the debug tree, `Sequencer::Claim` and `ForcePublish` of the
disruptor, its timed `WaitFor`, which no event processor calls, and its multi-threaded claim
strategy, which the source comments out;
LevelDB and libxs beyond their use here; the application's replication trigger;
memory ordering weaker than sequential consistency (the sequences and flags are
atomics); and reads of freed or uninitialised memory, which are recorded as
faults where the models reach them.

## Plan

1. The key counts and the cursor as theorems, when the prover can instantiate
   induction over sequences: what `TreeInv` says of ranges is the fact they need.
2. `ReplicaFollowsMaster` for reopened masters: what the slave has beyond the
   master's table.
3. Close of a master with messages still on the wire.
