# A TLA+ model of StaxFS

StaxFS is a prototype distributed file system whose metadata servers (MDS) share
their directory-entry hashtable and inode array in CXL memory. Each server logs
its metadata operations in a ring of 64-byte slots in the DRAM of a CXL-SSD, and
a background thread moves them to flash. This directory models the parts of the
program where several threads or servers meet, from the shared memory up to the
client library, checks them with TLC on small instances, and proves with TLAPS, for
every instance, the safety of the log, of the clock, of the hashtable's bucket locks,
and of the client's descriptors and record locks.

## The system

| Part | State | Operations | Who runs them |
|---|---|---|---|
| `CompactWAL` (`include/server/compact_wal.h`) | `head_`, `checkpoint_pos_`, the ring | reserve (CAS), store continuations, publish, clear, advance | RPC threads append, one checkpoint thread drains |
| Hybrid clock (same file, `MetadataOperationClockGuard` in `src/server_main.cc`, client side in `include/client/rpc_client.h`) | `hlc_state_`, thread-local pending version, `last_seen_hlc_` | begin/end operation, merge and tick, stamp a record, answer, observe | RPC threads, clients |
| Checkpoint thread (`src/server/cxl_persistence.cc`) | group-commit positions, stall counter, deferred changes | `DoCheckpoint`, `CheckpointLoop`, `StopCheckpointThread` | one thread per server |
| Remote inode forwarding (`src/server/rpc_server.cc`, `cxl_persistence.{h,cc}`) | `pending_forward_`, batch caps, `RemoteInodeWAL` | snapshot, send, append partially, put back | guardian thread, RPC handler of the target |
| SSD regions (`cxl_persistence.h`, `dent_region.h`) | pages, page caches, directory page chains | write, mutate, append, read newest, flush | checkpoint thread, listing threads |
| Namespace (`src/server/metadata.cc`) | shared dirents and inodes | create, mkdir, unlink, rmdir, rename, link, chmod, stat | RPC threads of all servers |
| Dirent hashtable (`include/server/level_hashtable.h`) | buckets, lock words, resize control | insert with movement, find, update, erase, resize | all servers |
| Inode array (`include/server/inode_array.h`) | versioned slots, segments | insert, find, update, erase, expand | all servers |
| Directory listing (`metadata.{h,cc}`, `src/client/posix_wrapper.cc`) | staged listings, merged streams | collect, merge by version | RPC threads, clients |
| Client (`src/client/*`) | descriptors, cached inodes, locks | open, read, write, close, lock | application threads |
| Devices and start-up (`src/cxl/*`) | region headers, bump allocators | init barrier, allocate | every server at start |

The parts meet in this chain. A handler takes a version from the clock, changes
shared CXL state, and appends a record to its server's ring. The checkpoint thread
replays records into the SSD regions the server owns and queues changes to inodes
of other owners. After a sync the guardian forwards them, and the owner's
checkpoint thread applies them. Clients list a directory by merging the views of
all servers by version.

What is hard here: CAS loops over stale loads, records of several slots, a writer
that stops in the middle of an append, several replay cycles per sync, wall clocks
that disagree or go back, partial acceptance and re-queueing of batches of changes
that are not idempotent, two paths of different length to the same inode, and
work that can never complete. `PROJECT.json` lists these hazards at their lines.

## Modules

* `CompactWAL` is the ring. Every shared load, CAS and slot store is a step.
  `LoadHead`, `CheckSpace` and `CasHead` are `TryReserveSlots`; `WriteContinuation`
  and `Publish` are the two append functions; `CrashMidAppend` is the fault that
  the orphan rule of `CheckpointLoop` is written for. A record is identified by
  the position of its first slot. `HasRoom` keeps the unsigned comparison of the
  code: a negative difference counts as a full ring.
* `WalCheckpoint` composes the ring with the checkpoint thread: the begin of a cycle
  with its early returns (`BeginCycle`), the replay loop, the decision to sync, the
  sync, clearing slot by slot, advancing, and the orphan rule, which advances first
  and clears afterwards. `published` and `durable` are histories: appends that
  returned, and records covered by a sync. The other ring the same function drains
  appears as two inputs, `remote_work` and `remote_full`.
* `WalProofs` holds the proofs about `WalCheckpoint`: the inductive invariant, slots and
  types, the steps of writers, those of the checkpoint thread, and the theorems.
* `HybridClock` models `MergeAndTick` as load and CAS, with an arbitrary wall-clock
  reading at each load, the version drawn when a handler starts and used when it
  logs, further records of the same request, the clock carried by answers, and
  clients that go from server to server. The bit fields of a version are the two
  radices `LogicalRange` and `NumMetas`. `MCHybridClock` adds the symmetry.
  `HybridClockProofs` has the proofs.
* `InodeForwarding` models what a record does to the inodes' persisted copies.
  `Changes` is the replay switch, `DoCheckpoint` a whole cycle (replay, drain,
  coalesce, apply in version order, defer, flush block deltas, sync or keep), and
  `TakeSnapshots`, `SendRemoteInodeChangesOnce` and `HandleInserted` the guardian's
  call. The two rings are queues here, which is what `WalCheckpoint` establishes for
  the main ring; a cycle is one step because it works on a snapshot of the rings and
  on state of its own thread. Each change carries the set of records it stands for,
  so that coalesced changes can be counted. `MCInodeForwarding` fixes two servers,
  two directories and a file.
* `LevelHashtable` has the dirent hashtable's operations on buckets. Reading, writing
  or comparing-and-swapping a 64-byte line is a step; an operation is a program
  counter over the probe loops of insert, find, update and erase, the bucket lock,
  and the displacement of entries. `HashtableResize` extends it with the resize
  protocol: claiming the control word, the two publications, notification, each
  server's share of the migration, and finalization. `HashMap` is the abstract
  specification: a map on which a call takes effect at one instant or not at all.
  `RefinesMap` is the refinement. It says nothing of what a find answers, which is
  `AnswersJustified`: a value found is one the key had during the call, and a key that
  is there is overlooked only while it is being displaced or its bucket is locked.
  `MCHashtable` fixes the placement of nine keys and
  the tables to start from. `HashtableLocks` (the invariant, stacks of frames and the
  steps of the probe loops) and `HashtableProofs` (resize, migration and displacement,
  and the theorems) hold the proofs about locks.
* `Startup` models how servers come up: device headers, the count of servers, the
  shared table, inode blocks, and the sessions of RPC threads, whose order is fixed
  by a counter on which threads spin without running their event loop. A thread is a
  stack of frames, because handlers run on top of what it was doing. `StartupProofs`
  has the proofs.
* `InodeArray` extends `Startup`: the same servers then serve calls on inodes. A slot
  is two cache lines with a control word; a 128-byte read or write is two steps.
  Segments are added under `expand_mu_` and found by other servers through the
  block headers; ids are allocated, freed and used again.
* `Namespace` has the operations on paths. A lookup, insert or erase of an entry is a
  step, which is what `RefinesMap` promises, and so is one access of an inode
  (`InodeArray`). Lookups that overlook a key on the move are left to `hashtable`.
  `logged` is what the entries become when the log is replayed; an append may meet a
  full log, and the client then sends the call again.
* `ClientFiles` extends `Namespace` with a client process: its threads have an
  `FdManager` each (`gPreloadCtx` is `thread_local`), with descriptors that hold copies
  of inodes and offsets, and share the table of record locks. Objects are lengths.
  `MCNamespace` is a menu of 18 calls, some of which the server refuses. `ClientFilesInvariant` (the invariant, lookups,
  the steps of a call on paths, descriptor numbers) and `ClientFilesProofs` (the other
  steps and the theorems) hold the proofs about descriptors and locks.
* `DirListing` has the directory pages with their cache, the collection of a listing
  in three steps (positions, pages, log), the staged listings, and the client's
  rounds and merge. The log is a sequence of slots; the ring itself is in
  `WalCheckpoint`. Versions come from one clock (`HybridClock` has the others).

Operators introduced by a comment that begins with `Mutant` are deliberately wrong
variants of the definition that follows them. No specification uses them; each
shows that a property fails when the code is wrong in that way.

## Runs

| Run | Question | Result |
|---|---|---|
| `wal` | Is an acknowledged record ever lost, repeated, torn, or left behind? | passes, 326,840 states |
| `wal_orphan` | Does the orphan rule skip only what crashed writers left? | violated |
| `hlc` | Are versions unique and causally ordered, do clocks only advance? | passes, 1,292,701 states |
| `forwarding` | Does every remote change arrive exactly once, in order, eventually, and does the drain at shutdown end? | passes, 40,377 states |
| `hashtable` | Is the table a map while entries move and it grows? | passes, 251,471 states |
| `hashtable_straddle` | Does a resize wait for the operations that began before it? | violated |
| `inodes` | Do servers come up, and is no update or inode lost, no find out of date and no id given out twice? | passes, 128,533 states |
| `inodes_torn` | Are the two halves that a find returns of one version? | violated |
| `inodes_reuse` | Is an id given out again only when its inode is gone? | violated |
| `namespace` | Do entries, links, log, answers, sizes, descriptors and locks agree? | passes, 868,736 states |
| `listing` | Is a listing what existed at the opendir, and does it end? | passes, 64,596 states |
| `listing_race` | Does a collection see every logged record? | violated |

### Bounds

* `wal`: two writers, four slots, records of one or two slots. No append begins once
  `head_` has reached 3, but one that lost a CAS retries from a later head, so
  records are reserved and published on the second lap (position 4) while slots of
  the first are being cleared; the ring is full with three slots in use. A sync
  batch of 2 makes cycles with and without a sync, and a stall limit of 2 lets the
  orphan rule fire for one-slot and two-slot leftovers.
* `wal_orphan`: the same ring with the stall limit of the code, five.
* `hlc`: two servers with two threads each, two clients with two requests of up to
  two records (a covering rename logs two), wall clocks that read 0 or 1, and a
  logical part of two values, which is exhausted within the run.
* `forwarding`: three operations in every order the namespace allows, a remote ring
  with one usable slot so that batches of two are taken in part, batch caps between
  1 and 2, and two pages so that a deadline can separate them. The deferred list
  never reaches its hard limit in this run: at the limit the code drops changes on
  purpose, and the properties are about the behaviour below it. Either server may be
  shut down at any point where its threads can be joined.
* `hashtable`: buckets of one slot, so that candidates fill and displacement and resize
  happen at once; eight starting tables, among them one in the middle of a
  resize and one whose insert has just found it full; two threads on the server that
  does not start the resize. `hashtable_straddle` uses the one table in which a slot
  becomes free behind the cursor. A larger instance with a further thread (9.8
  million states) passes the invariants, and one of 1.4 million states also passes
  the refinement and the property that every call returns.
* `inodes`: three servers with three threads come up in every order, three calls by two
  workers of one server and one of another, segments of two slots with server 0 two
  segments full, so that a create adds one. Four calls from an empty array on two
  servers also pass (1.0 million states). `inodes_torn` and `inodes_reuse` need two
  servers and two calls.
* `namespace`: four calls, at most three of them on paths, by two threads; a root
  directory, a subdirectory, two files and one free name in each; one full log; two
  files open per thread, offsets 0 and 1, so that writes append, overwrite and leave
  holes. The object of a removed file lies under the first free id, so that a create
  and a write already meet an id that is used again.
* `listing`: two servers, one of which has logged a rename of the name that the other
  has on a page; one further operation; pages of one record and a cache of one page,
  so that every append evicts; records of two lengths and pieces that do not hold a
  whole listing. Three names and two operations pass the invariants (6.9 million
  states). With one directory the page that is appended to is in the cache, so that
  `LoadPageSlot` does not read a page back from flash in this run; listings do.
  `listing_race` needs no further operation.

Deadlock is checked in `wal` (the checkpoint thread always has a step). The other
models stop when their bounded clients and operations are used up.

### Fairness

* `wal`: the checkpoint thread and every live writer keep running (weak fairness).
  The sync timer only grows between syncs, so cycles keep finding it expired
  (strong fairness of a cycle that begins with `due`). A crashed writer owes
  nothing.
* `wal` also sets `TimelyWriters`: a live writer does not stay between its
  reservation and its publish for as many cycles as the stall limit. The code
  relies on it (a store takes under a microsecond, a stalled cycle much longer) but
  does not enforce it, which is the subject of `wal_orphan`.
* `forwarding`: guardians run, and cycles that get through everything they find
  keep occurring. A deadline can cut a cycle short, but each cycle applies at least
  one page, and an unpublished slot is published or skipped (`wal`).
  The drain loop of a server that is shut down runs on.
* `inodes`: every thread that can take a step eventually does.
* `listing`: handlers, the client and operations under way keep running, a checkpoint
  thread that has begun to clear slots finishes, and the sweep of expired listings
  comes round. The guardian calls the sweep in its heartbeat, which goes on as long
  as the servers' heartbeats reach server 0; with a single server it happens once.

### What the passing runs assume

Each assumption is a constant or a guard with a name; where it is not the code that
ensures it, the run that drops it fails, as noted.

* `TimelyHolders` (`hashtable`): a live thread unlocks a bucket before a waiter clears
  the lock by force (`wait_for_unlock` gives up after a fixed number of reads). With
  FALSE TLC finds `LocksHaveOneHolder` violated: two writers hold one bucket.
* `Quiesced` (`hashtable`): a bucket is not migrated while an operation that chose its
  candidates before the resize is running. Dropped in `hashtable_straddle`. The run
  has one thread on the server that starts the resize: a second one there, delayed
  between `check_version_changed` and `refresh_cache`, can restart the cursor and have
  the share reported twice.
* `Paced` (`inodes`): the sleeps at start-up outlast what they wait for (100 ms to count
  the servers, 300 ms per server number before the blocks and the threads).
* `QuietReuse` (`inodes`): an id is not taken again between `FreeInodeId` and
  `DeleteInode`. `AllocateInodeId` has no such guard; dropped in `inodes_reuse`.
* `CarefulCall` (`namespace`): callers do not run two calls at once on one name or below
  a directory that is being moved or removed, do not change links or mode of open
  files, do not chmod, link or open directories, and do not rename a name onto or
  below itself. `CarefulFile`: a thread gives up only a lock that it was granted.
  Calls that the server refuses are made: an unlink of a directory, an rmdir of a file
  or of a directory that is not empty, a rename onto the wrong type or onto a target
  too deep to be covered. `Fits` says which calls can succeed.
* `SizesRight` is about files to which every write was an append by a thread with an
  up-to-date copy (`tidy`); other writes are made in the run, and the property says
  nothing of the sizes they leave. `LogTellsNames` allows for the tombstones of
  refused removals (`refused`).
* `Undisturbed` (`listing`): see `listing_race`; and an operation that drew its version
  before the opendir has been logged when its server collects. Without the second
  part TLC finds a name listed twice: the last piece releases the staged listing, the
  client's closing request collects again, and a record logged in between shifts the
  offsets.

## What the runs found

* **A slow writer is taken for a dead one** (`wal_orphan`). `CheckpointLoop` skips an
  unpublished slot after five cycles without progress. If its writer is alive, the
  append returns success and the record is never persisted; the late store also
  lands in a slot that is free for the next lap.
* **An insert can be lost in a resize** (`hashtable_straddle`). `pre_op` does not hold
  operations back, as `docs/03-server.md:282` says it does. An insert that chose its
  bucket before the resize writes behind the migration cursor; the old bottom level
  is then retired with the entry in it.
* **A find can return halves of two inodes' versions** (`inodes_torn`). The control word
  is compared when the first of the two cache lines is read. An update that locks the
  slot after that and stores its second line is not noticed, so the "version
  consistency" of `inode_array.h:140` covers the first line only. What does hold is
  `FindsAreCurrent`: neither half is older than the start of the find, and the second
  half is not older than the first.
* **An id is used again before its inode is erased** (`inodes_reuse`). `Unlink` frees the
  id first (`metadata.cc:948`); a create on another thread takes it, and the erase that
  follows removes the new inode, although `inode_array.h:245` says "ID is not reused".
* **A listing can miss acknowledged names** (`listing_race`). The collection reads the
  pages, then the log. A record that is replayed, synced and cleared in between is in
  neither, and since the scan stops at the first slot that is not ready, so is
  everything behind it. The comment at `metadata.cc:481` says that capturing
  `checkpoint_pos_` first covers this. Slots that are cleared while `checkpoint_pos_`
  still points at them, and a slot whose writer is slow, stop the scan as well.

Observations made while modelling, which no run states as a violation:

* `unlink` and `rmdir` log the tombstone before they test the type and the emptiness
  (`metadata.cc:906`): a refused call leaves a log without a name that exists. A rename
  onto a directory with entries does the same.
* A covering rename whose target lies two components below the last common directory
  removes the target and then fails (`metadata.cc:1113`).
* A rename of a name onto itself is not tested for: the comparison of the paths has no
  end (`metadata.cc:1061`), and what is covered is the file itself (`1113`).
* `chmod` overwrites the file type in `mode_`, so a directory is none afterwards
  (`metadata.cc:992`; the model has the effect).
* Of two concurrent unlinks of two links of a file, the later may delete the inode while
  the first's entry can still be looked up (`EntriesLive` allows for an entry whose own
  unlink is between its two steps).
* `dfs_write` and `dfs_pwrite` add what they wrote to `size_` at any offset
  (`posix_wrapper.cc:170`, `235`): an overwrite makes a file too long, a write behind the
  end too short. `close` and `fsync` send the whole inode back, so of two descriptors
  that both wrote the later close decides the size.
* A read lock cannot be unlocked (`posix_wrapper.cc:362`), and `close` leaves a file's
  locks in the table. An unlock takes the first write lock of the process, whichever
  thread it was granted to.
* Of two chmods of one file served by different servers the older may be the one that
  stays on flash: the owner applies its own when it replays its WAL and a forwarded one
  when it drains the other ring, and neither compares versions
  (`cxl_persistence.cc:434`), although the comment at line 549 says that an inode's
  history is in one bucket.
* A forwarded block delta for the root directory is deferred in every cycle, because
  the root inode is never written to a region, and deferred changes count as work
  (`cxl_persistence.cc:270`): the drain at shutdown then does not end.

## Proofs

| Theorem | Module | States |
|---|---|---|
| `TypeCorrect` | `WalProofs` | `TypeOK` of the log |
| `NothingAckedIsLost` | `WalProofs` | `AckedNeverLost`, the write-ahead property |
| `RingNeverOverrun` | `WalProofs` | `RingWindow` |
| `ReplayOnceInOrder` | `WalProofs` | `ReplayedOnceInOrder` |
| `ReplayReadsIntact` | `WalProofs` | `ReplayReadsWholeRecord` |
| `ClockTypes` | `HybridClockProofs` | `TypeOK` of the clock |
| `UniqueVersions` | `HybridClockProofs` | `VersionsUnique` |
| `VersionsFollowClients` | `HybridClockProofs` | `CausalOrder` |
| `MonotonicClock` | `HybridClockProofs` | `ClockNeverGoesBack`, an action property |
| `LocksExclusive` | `HashtableProofs` | `LocksHaveOneHolder` |
| `OwnDescriptors` | `ClientFilesProofs` | `DescriptorsKept` |
| `WriteLocksExclude` | `ClientFilesProofs` | `LocksExclude` |
| `StartupCorrect` | `StartupProofs` | `ServersKnowEachOther` |

None of these properties is inductive alone. Each component has an invariant `IInv`
that is, with one lemma per action; it was model-checked on the instance of the
component's run, although no run lists it.

### The log

For every set of writers, every ring capacity above one, every record size and all
thresholds. `TypeCorrect` has no further assumption. The other four assume `Timely`,
that is `TimelyWriters = TRUE`; without it they are false, as `wal_orphan` shows. The
capacity need not be a power of two: the model uses the remainder where the code
masks. `IInv` adds what a step relies on:

* `PositionsInv` orders `checkpoint_pos_`, the clear position, the pending and the
  replay position, the snapshot and `head_`, and bounds the window by the capacity.
  A writer between its space test and its CAS still has room, because
  `checkpoint_pos_` has only grown since the test; if `head_` has moved, the CAS
  fails;
* `RecordsInv` says that published records and those being written occupy disjoint
  ranges below `head_`;
* `SlotsInv` says for every position of the window what its slot holds: a live record
  is whole, a slot being written holds nothing foreign, a slot ahead of `head_`, or
  cleared, is empty. This is what rules out leftovers of an earlier lap; it needs
  that two positions less than a capacity apart have different remainders (lemmas
  `ModDistinct`, `ModShift`);
* `HistoryInv` ties `applied` and `durable` to the replay position.

`IInv` was checked on the instance of `wal` and on a larger one (five slots, three-slot
records, 11.4 million states). Fault injection confirms that the proof depends on the
code's guards: with `HasRoomToTheLastSlot` the lemma `CheckSpaceStep` fails, with
`SyncRegionsWithoutFlush` the lemma `SyncRegionsStep` fails.

### The clock

For any number of servers, threads, clients, requests and records, any wall-clock
readings, and any radices (at least two logical values). The argument has two halves:

* versions are drawn (`VersionInv`): every version on a record or pending in a handler
  is `PackVersion` of a state its server's clock has had, and a CAS that succeeds moves
  the clock past everything drawn from it before, so no draw is repeated. The lemmas
  on `PackVersion` and `NextState` (`PackMonotone`, `PackInjective`) are the
  arithmetic;
* clients carry them (`RequestInv`, `TickInv`, `ClientInv`): the records of a client's
  earlier requests are not newer than the clock in its request under way, those of
  this request lie between that clock and the server's, and a client that waits for
  no server has seen them all.

### Bucket locks

For every number of servers and threads, every size, every placement of the keys and
every table to start from that has no locked bucket (`HashtableResizeAssumption`), with
and without `Quiesced`. The assumption is `TimelyHolders`; without it the property is
false, as TLC shows on the instance of `hashtable`. A thread can hold four buckets at once: the old bucket it
migrates, the sources of two nested displacements, and the bucket a victim goes to.
`ThreadInv` says for every program counter what the thread's record and stack look
like and that the buckets it holds differ; `LockInv` says that the lock bit is set for
exactly the buckets held, each by one thread. Buckets whose holder has stopped inside
its critical section (`DiedHolding`) are exempt from the second half, because a waiter
that clears such a lock by force cannot tell whose it is; `LocksHaveOneHolder` exempts
them too.

### Descriptors and record locks

For any set of threads, any names, any menu of calls whose paths consist of names, any
number of files that a thread has open at once, and at least five inodes. The callers'
conditions `CarefulCall` and `CarefulFile` are guards of the model. The proofs use only
the second, in `WriteLocksExclude`: a thread that unlocks was granted a lock.

* `FdInv`: the numbers below a thread's `min_free_fd_` are those in its `fd_map_` and
  those in its `fd_pool_`, each once. So the front of the pool, or `min_free_fd_`, is
  never a number in use, and a close that lowers `min_free_fd_` leaves nothing above it
  (`AllocateNumber`, `ReleaseNumber`);
* `CopyInv`: a number that a thread was given is in its map with the file it opened, and
  the copy that a call works on is of such an entry, so that `SetFd` writes back to the
  file's own entry;
* `LockInv`: a file's list of locks is one write lock or any number of read locks, it
  has what threads were told, and a write lock was told to one thread. An unlock takes
  away the first write lock it finds; the caller was told a lock, which is in the list,
  so the write lock, if there is one, is the caller's. Locks that a close left behind
  only make the list longer;
* `EntriesInv`, `CallsInv`: the ids in entries and calls are ids of inodes. Locks and
  descriptors are indexed by what a lookup returned, so this is needed through every
  path operation, `LocateInode` included.

The lookup along a path is a recursive function. That it exists and yields ids
(`AlongExists`, `AlongKnown`) is induction on the length of the path. The library's
induction theorems take an operator as a parameter, which the provers at hand cannot
instantiate; `SetInduction` does it with a set, from the theorem that a nonempty set of
naturals has a least element.

`Namespace`, `ClientFiles`, `LevelHashtable` and `Startup` write out the two or three operations on
sequences that `SequencesExt` also has: its definitions would be carried by every proof
obligation and make each take three times as long.

### Start-up

For every number of servers and every number (at least two) of RPC threads per server,
and every order in which the servers are launched and their threads run. The
assumption is `Paced = TRUE`: the sleeps of `main` and of the guardian outlast what
they wait for. `StartInv` has, besides types:

* `MainInv`: a server's main thread has counted what it needs, and the servers below a
  server that has started its threads have started theirs;
* `ThreadInv`: a server below the last one to come up is in its event loops, with at
  most one handler on top of each, and that handler connects back to the last one;
* `MessageInv`: a message that waits has a sender that waits for it, so a thread has at
  most one message under way (`OneMessage`) and a thread that is not waiting has none
  (`NoMessage`);
* `PassedInv`, `BackInv`: what a joining thread leaves behind when it goes on to the
  next server. The server it has passed has learnt of it and has connected back, or
  does so in a handler that is running; event loops are therefore entered only when
  everyone who has been told has connected;
* `ReachedInv`: the sessions a thread has with the servers it is done with.

The counter on which the threads take turns is not part of the argument: it decides
whether a step is possible, not what it leaves behind. That no turn is waited for
forever is `UpAndAnswering`, which is model-checked. `StartInv` was checked on three
servers with three threads each (21,364 states).

### Model-checked only

* The liveness properties (`AckedBecomesDurable`, `ForwardedEventuallyApplied`,
  `ShutdownDrains`, `UpAndAnswering`, `ListingEnds`, `StagingEmpties`) and
  `CallsNeverAllWait`: fairness and `ENABLED` are out of the prover's reach.
* `DirListing`, whose merge is a recursive operator.
* `RefinesMap`, `AnswersJustified` and `NothingLeftBehind`: they need, beyond the locks,
  where every copy of a key can be while it is displaced or migrated.
* The rest of `namespace` (`EntriesLive`, `LinksCounted`, `LogTellsNames`, `AnswersTrue`,
  `SizesRight`): they rest on the callers' conditions about
  paths of any depth, and on sums over entries.
* `InodeForwarding` and `InodeArray`.

## Plan

1. Proofs of the queue invariants of `InodeForwarding`, and of `UpdatesKept` and
   `FreshIds` in `InodeArray`.
2. The copies of a key in `LevelHashtable`, towards `RefinesMap`.
3. Forwarding at the hard limit of deferred changes, final link and block counts, and
   the chunks of a split call.

## Not modelled

Names, timestamps, permissions and their encodings; weak memory (the code publishes
with release stores and 64-byte device writes, a step stores a line atomically);
device mapping, delay injection, eRPC itself, system call interception and
statistics, which are input and output without protocol state; the conversions of
`stat` and `statx`, stdio streams and `mmap` of the client; the page cache of the
inode region, which works like that of the directory pages; the baseline hashtable,
which the build leaves off. Servers whose clocks disagree are in `HybridClock`, not in
`DirListing`: between clients that do not know of each other's operations, a name's
newest version need not be its last operation. A server that stops while it holds a
slot's dirty bit, a bucket lock in the middle of a displacement, or the mark of a
segment being added is not modelled, and neither is a restart: no code reads the
rings or the regions back after one, and `AckedNeverLost` says what such code could
rely on.
