--------------------------- MODULE InodeForwarding ---------------------------
(***************************************************************************)
(* How a logged metadata operation reaches the SSD inode regions of all the  *)
(* metadata servers it concerns (src/server/cxl_persistence.cc,              *)
(* src/server/rpc_server.cc, src/server_main.cc).                            *)
(*                                                                          *)
(* The checkpoint thread of the server that logged a record applies the      *)
(* changes to inodes it owns and queues the others per owner; after a sync   *)
(* the queues become visible to the guardian thread, which sends them in     *)
(* batches; the owner's RPC handler appends what fits to its RemoteInodeWAL; *)
(* the owner's checkpoint thread drains that ring, coalesces, applies what   *)
(* it can and defers the rest.                                               *)
(*                                                                          *)
(* The rings are queues here (module WalCheckpoint shows that they are), a   *)
(* cycle of DoCheckpoint is one step (it works on a snapshot and on state of *)
(* its own thread), and directory contents are module DirListing's subject.  *)
(* Timestamps are left out.                                                  *)
(***************************************************************************)
EXTENDS Integers, Sequences, FiniteSets, SequencesExt

CONSTANTS
    Metas,          \* the metadata servers
    Dirs, Files,    \* inodes; RootInode is a directory
    RootInode,      \* lives in CXL memory only: it is never logged
    Owner,          \* OwnerMetaForInode: the server in the high bits of the id
    Page,           \* the 4K page of the inode region that holds the inode
    Modes,
    RemoteCapacity, \* CXLSSD_REMOTE_INODE_WAL_ENTRIES
    DeferredLimit,  \* kDeferredHardLimit
    BatchFloor, BatchInitial, BatchCeil,  \* kForwardBatchFloor/Initial/Ceil
    MaxOps          \* bound: operations logged

Inodes == Dirs \cup Files

ASSUME InodeForwardingAssumption ==
    /\ RootInode \in Dirs
    /\ Owner \in [Inodes -> Metas]
    /\ RemoteCapacity \in Nat \ {0, 1}
    /\ BatchFloor \in Nat \ {0} /\ BatchCeil \in Nat
    /\ BatchInitial \in BatchFloor..BatchCeil

VARIABLES
    entries,         \* truth: the directory entries <<parent, inode>>
    mode_,           \* truth: the mode set last (highest version)
    clock,           \* operations logged so far; an operation's version
    wal,             \* per server: the main ring from checkpoint_pos_ to head_
    replayed,        \* per server: pending_main_pos_ - checkpoint_pos_
    region,          \* per inode: its slot in the owner's SSDInodeRegion
    batches,         \* pending_remote_batches_[t]
    pending_forward, \* pending_forward_[t]
    batch_cap,       \* forward_batch_cap_[t]
    snapshots,       \* the guardian's snapshots[t]
    inserted,        \* per server: the answer to its guardian's call, or NoCall
    remote_wal,      \* per server: RemoteInodeWAL from checkpoint_pos_ to head_
    drained,         \* per server: pending_remote_pos_ - checkpoint_pos_
    deferred,        \* deferred_remote_ops_
    running,         \* per server: "run", "stop" (draining) or "stopped"
    served,          \* history: the server that logged each operation
    sent,            \* history: remote changes queued by replay
    done             \* history: remote changes applied

truthVars == <<entries, mode_, clock, served>>
vars == <<truthVars, wal, replayed, region, batches, pending_forward, batch_cap,
          snapshots, inserted, remote_wal, drained, deferred, running, sent, done>>

NoCall == [target |-> "none", count |-> 0]

EmptyQueues == [t \in Metas |-> <<>>]

(* An empty slot of the inode region has id_ == 0.                            *)
EmptyInode == [on |-> FALSE, nlink |-> 0, mode |-> 0, extra |-> 0]

(* Every operation but rename within a directory gives changes to apply at an *)
(* inode's owner; `ids` remembers which records a change stands for.          *)
Change(op, inode, value, version) ==
    [op |-> op, inode |-> inode, value |-> value, version |-> version,
     ids |-> {<<op, inode, version>>}]

Changes(r) ==
    CASE r.op = "create" -> <<Change("blocks", r.parent, 1, r.version)>>
      [] r.op = "unlink" -> <<Change("unlink", r.inode, 0, r.version),
                              Change("blocks", r.parent, -1, r.version)>>
      [] r.op = "rename" /\ r.parent # r.newparent
                         -> <<Change("blocks", r.parent, -1, r.version),
                              Change("blocks", r.newparent, 1, r.version)>>
      [] r.op = "rename" /\ r.parent = r.newparent -> <<>>
      [] r.op = "setattr" -> <<Change("setattr", r.inode, r.mode, r.version)>>
      [] r.op = "link" -> <<Change("link", r.inode, 0, r.version),
                            Change("blocks", r.newparent, 1, r.version)>>

Init ==
    /\ entries = {}
    /\ mode_ = [i \in Inodes |-> 0]
    /\ clock = 0
    /\ wal = [m \in Metas |-> <<>>]
    /\ replayed = [m \in Metas |-> 0]
    /\ region = [i \in Inodes |-> EmptyInode]
    /\ batches = [m \in Metas |-> EmptyQueues]
    /\ pending_forward = [m \in Metas |-> EmptyQueues]
    /\ batch_cap = [m \in Metas |-> [t \in Metas |-> BatchInitial]]
    /\ snapshots = [m \in Metas |-> EmptyQueues]
    /\ inserted = [m \in Metas |-> NoCall]
    /\ remote_wal = [m \in Metas |-> <<>>]
    /\ drained = [m \in Metas |-> 0]
    /\ deferred = [m \in Metas |-> {}]
    /\ running = [m \in Metas |-> "run"]
    /\ served = <<>>
    /\ sent = {}
    /\ done = {}

-----------------------------------------------------------------------------
(* The operations, as the namespace lets them happen; each is logged by the   *)
(* server that serves it.  A new inode's id carries the server's own number.  *)

Exists(i) == i = RootInode \/ \E p \in Dirs : <<p, i>> \in entries
WasCreated(i) == mode_[i] # 0

Record(op, i, p, np, mode) ==
    [op |-> op, inode |-> i, parent |-> p, newparent |-> np, mode |-> mode,
     version |-> clock + 1]

Log(m, record) ==
    /\ running[m] = "run"
    /\ clock < MaxOps
    /\ clock' = clock + 1
    /\ wal' = [wal EXCEPT ![m] = Append(@, record)]
    /\ served' = Append(served, m)
    /\ UNCHANGED <<replayed, region, batches, pending_forward, batch_cap, snapshots,
                   inserted, remote_wal, drained, deferred, running, sent, done>>

LogCreate(m, i, p, mode) ==
    /\ i # RootInode /\ ~WasCreated(i)
    /\ Owner[i] = m
    /\ Exists(p)
    /\ Log(m, Record("create", i, p, p, mode))
    /\ entries' = entries \cup {<<p, i>>}
    /\ mode_' = [mode_ EXCEPT ![i] = mode]

(* The record is written before the emptiness check of rmdir, which may then  *)
(* refuse.                                                                    *)
LogUnlink(m, i, p) ==
    /\ <<p, i>> \in entries
    /\ Log(m, Record("unlink", i, p, p, 0))
    /\ entries' = IF \E j \in Inodes : <<i, j>> \in entries
                    THEN entries ELSE entries \ {<<p, i>>}
    /\ UNCHANGED mode_

LogRename(m, i, p, np) ==
    /\ i # np /\ <<p, i>> \in entries /\ Exists(np) /\ <<np, i>> \notin entries \ {<<p, i>>}
    /\ Log(m, Record("rename", i, p, np, 0))
    /\ entries' = (entries \ {<<p, i>>}) \cup {<<np, i>>}
    /\ UNCHANGED mode_

LogSetattr(m, i, mode) ==
    /\ i # RootInode /\ Exists(i)
    /\ Log(m, Record("setattr", i, i, i, mode))
    /\ mode_' = [mode_ EXCEPT ![i] = mode]
    /\ UNCHANGED entries

LogLink(m, i, np) ==
    /\ i \in Files /\ Exists(i) /\ Exists(np) /\ <<np, i>> \notin entries
    /\ Log(m, Record("link", i, np, np, 0))
    /\ entries' = entries \cup {<<np, i>>}
    /\ UNCHANGED mode_

Operation(m) ==
    \/ \E i \in Inodes, p \in Dirs, mode \in Modes : LogCreate(m, i, p, mode)
    \/ \E i \in Inodes, p \in Dirs : LogUnlink(m, i, p)
    \/ \E i \in Inodes, p, np \in Dirs : LogRename(m, i, p, np)
    \/ \E i \in Inodes, mode \in Modes : LogSetattr(m, i, mode)
    \/ \E i \in Files, np \in Dirs : LogLink(m, i, np)

-----------------------------------------------------------------------------
(* DoCheckpoint.                                                              *)

Floor0(n) == IF n < 0 THEN 0 ELSE n

(* MutateInode with the ApplyPersistedXxx functions; an empty slot stays      *)
(* empty and the call reports it.                                             *)
ApplyPersisted(reg, c) ==
    IF ~reg[c.inode].on THEN reg
    ELSE [reg EXCEPT ![c.inode] =
            CASE c.op = "unlink" -> [@ EXCEPT !.nlink = Floor0(@ - 1)]
              [] c.op = "link" -> [@ EXCEPT !.nlink = @ + 1]
              [] c.op = "setattr" -> [@ EXCEPT !.mode = c.value]
              [] c.op = "blocks" -> [@ EXCEPT !.extra = Floor0(@ + c.value)]]

(* Mutant: the slot is filled without the id_ that marks it as in use.        *)
ReplayCreateInodeUnmarked(reg, r) ==
    [reg EXCEPT ![r.inode] = [on |-> FALSE, nlink |-> 1, mode |-> r.mode, extra |-> 0]]

ReplayCreateInode(reg, r) ==
    [reg EXCEPT ![r.inode] = [on |-> TRUE, nlink |-> 1, mode |-> r.mode, extra |-> 0]]

(* The replay of one record on its own server: link counts and modes of own   *)
(* inodes change at once.                                                     *)
ReplayLocal(m, reg, r) ==
    LET created == IF r.op = "create" THEN ReplayCreateInode(reg, r) ELSE reg
        Mine(c) == Owner[c.inode] = m /\ c.op # "blocks"
    IN  FoldLeft(ApplyPersisted, created, SelectSeq(Changes(r), Mine))

(* The per-cycle blocks_delta map, flushed with one call per inode.           *)
BlocksDelta(m, changes, i) ==
    LET Hit(c) == c.inode = i /\ c.op = "blocks" /\ Owner[i] = m
        Add(sum, c) == sum + c.value
    IN  FoldLeft(Add, 0, SelectSeq(changes, Hit))

(* Two changes to the same inode with the same op collapse into one, except   *)
(* link and unlink: block deltas add up, of two modes the newer one stays.    *)
Coalesce(pool) ==
    LET Key(c) == <<c.inode, c.op>>
        Newest(S) == CHOOSE c \in S : \A d \in S : d.version <= c.version
        Total(S) == FoldLeft(LAMBDA sum, c : sum + c.value, 0, SetToSeq(S))
        Merge(S) == [Newest(S) EXCEPT
                       !.value = IF Newest(S).op = "blocks" THEN Total(S) ELSE @,
                       !.ids = UNION {c.ids : c \in S}]
        plain == {c \in pool : c.op \in {"unlink", "link"}}
    IN  plain \cup {Merge({c \in pool : Key(c) = k}) : k \in {Key(c) : c \in pool \ plain}}

(* The per-page buckets are sorted by version.                                *)
InVersionOrder(pool) == SetToSortSeq(pool, LAMBDA a, b : a.version < b.version)

(* deferred_remote_ops_ above the hard limit loses its oldest versions.       *)
DropOldest(pool) ==
    LET excess == Cardinality(pool) - DeferredLimit
    IN  IF excess <= 0 THEN pool
        ELSE ToSet(SubSeq(InVersionOrder(pool), excess + 1, Cardinality(pool)))

(* Mutant: deferred changes alone do not count as work.                       *)
HasNewWorkNoDeferred(m) ==
    \/ replayed[m] < Len(wal[m])
    \/ drained[m] < Len(remote_wal[m])

HasNewWork(m) ==
    \/ replayed[m] < Len(wal[m])
    \/ drained[m] < Len(remote_wal[m])
    \/ deferred[m] # {}

AnyPending(m) == replayed[m] > 0 \/ drained[m] > 0

(* The sync: both regions are on flash, the queued changes become visible to  *)
(* the guardian, both rings are cleared up to what this cycle consumed.       *)
FlushAndSync(m, k, d, outgoing) ==
    /\ pending_forward' = [pending_forward EXCEPT ![m] =
         [t \in Metas |-> pending_forward[m][t] \o outgoing[t]]]
    /\ batches' = [batches EXCEPT ![m] = EmptyQueues]
    /\ wal' = [wal EXCEPT ![m] = SubSeq(@, replayed[m] + k + 1, Len(@))]
    /\ remote_wal' = [remote_wal EXCEPT ![m] = SubSeq(@, drained[m] + d + 1, Len(@))]
    /\ replayed' = [replayed EXCEPT ![m] = 0]
    /\ drained' = [drained EXCEPT ![m] = 0]

(* Group commit: the cycle's work waits for a later sync.                     *)
KeepPending(m, k, d, outgoing) ==
    /\ batches' = [batches EXCEPT ![m] = outgoing]
    /\ replayed' = [replayed EXCEPT ![m] = @ + k]
    /\ drained' = [drained EXCEPT ![m] = @ + d]
    /\ UNCHANGED <<pending_forward, wal, remote_wal>>

(* One cycle: it replays k more main records, drains d more remote ones and   *)
(* runs into the deadline before it gets to the pages in late; sync_due is    *)
(* FALSE when neither the timer nor the batch threshold asks for a sync.      *)
DoCheckpoint(m, k, d, late, sync_due) ==
    /\ HasNewWork(m) \/ (AnyPending(m) /\ sync_due)
    /\ \E fresh \in {SubSeq(wal[m], replayed[m] + 1, replayed[m] + k)},
          arrived \in {SubSeq(remote_wal[m], drained[m] + 1, drained[m] + d)} :
       \E changes \in {FlattenSeq([j \in 1..k |-> Changes(fresh[j])])},
          replay \in {FoldLeft(LAMBDA reg, r : ReplayLocal(m, reg, r), region, fresh)},
          pool \in {Coalesce(deferred[m] \cup ToSet(arrived))} :
       \E ripe \in {{c \in pool : Page[c.inode] \notin late /\ replay[c.inode].on}} :
       \E remote \in {FoldLeft(ApplyPersisted, replay, InVersionOrder(ripe))} :
         LET For(t) == SelectSeq(changes, LAMBDA c : Owner[c.inode] = t)
             outgoing == [t \in Metas |-> batches[m][t] \o (IF t = m THEN <<>> ELSE For(t))]
             Flush(i) == Change("blocks", i, BlocksDelta(m, changes, i), 0)
             touched == {Page[c.inode] : c \in pool}
         IN  /\ late \subseteq touched /\ (late = touched => touched = {})
             /\ region' = [i \in Inodes |-> ApplyPersisted(remote, Flush(i))[i]]
             /\ deferred' = [deferred EXCEPT ![m] = DropOldest(pool \ ripe)]
             /\ done' = done \cup UNION {c.ids : c \in ripe}
             /\ sent' = sent \cup UNION {UNION {c.ids : c \in ToSet(For(t))} : t \in Metas \ {m}}
             /\ IF sync_due /\ replayed[m] + k + drained[m] + d > 0
                  THEN FlushAndSync(m, k, d, outgoing)
                  ELSE KeepPending(m, k, d, outgoing)
    /\ UNCHANGED <<truthVars, batch_cap, snapshots, inserted, running>>

(* CheckpointLoop's calls.  An entry reserved but not yet published ends the  *)
(* replay or the drain early.                                                 *)
CheckpointCycle(m) ==
    /\ running[m] = "run"
    /\ \E k \in 0..Len(wal[m]) - replayed[m], d \in 0..Len(remote_wal[m]) - drained[m],
          late \in SUBSET {Page[i] : i \in Inodes}, sync_due \in BOOLEAN :
         DoCheckpoint(m, k, d, late, sync_due)

(* A cycle that is not cut short by a deadline or an unpublished entry.       *)
FullCycle(m) ==
    DoCheckpoint(m, Len(wal[m]) - replayed[m], Len(remote_wal[m]) - drained[m],
                 {}, TRUE)

(* StopCheckpointThread: the server threads have been joined, the loop has    *)
(* ended; DoCheckpoint(force_sync) runs until it returns false.               *)
StopCheckpointThread(m) ==
    /\ running[m] = "run"
    /\ inserted[m] = NoCall /\ snapshots[m] = EmptyQueues
    /\ \A u \in Metas : inserted[u].target # m
    /\ running' = [running EXCEPT ![m] = "stop"]
    /\ UNCHANGED <<truthVars, wal, replayed, region, batches, pending_forward, batch_cap,
                   snapshots, inserted, remote_wal, drained, deferred, sent, done>>

DrainCycle(m) == running[m] = "stop" /\ FullCycle(m)

DrainDone(m) ==
    /\ running[m] = "stop"
    /\ ~HasNewWork(m) /\ ~AnyPending(m)
    /\ running' = [running EXCEPT ![m] = "stopped"]
    /\ UNCHANGED <<truthVars, wal, replayed, region, batches, pending_forward, batch_cap,
                   snapshots, inserted, remote_wal, drained, deferred, sent, done>>

-----------------------------------------------------------------------------
(* The guardian: ServicePendingRemoteInodeChanges.                            *)

Least(a, b) == IF a < b THEN a ELSE b

(* Under the mutex, take up to the cap from every queue.                      *)
TakeSnapshots(m) ==
    LET Take(t) == Least(Len(pending_forward[m][t]), batch_cap[m][t])
    IN  /\ running[m] = "run"
        /\ inserted[m] = NoCall
        /\ snapshots[m] = EmptyQueues
        /\ pending_forward[m] # EmptyQueues
        /\ snapshots' = [snapshots EXCEPT ![m] =
             [t \in Metas |-> SubSeq(pending_forward[m][t], 1, Take(t))]]
        /\ pending_forward' = [pending_forward EXCEPT ![m] =
             [t \in Metas |-> SubSeq(@[t], Take(t) + 1, Len(@[t]))]]
        /\ UNCHANGED <<truthVars, wal, replayed, region, batches, batch_cap, inserted,
                       remote_wal, drained, deferred, running, sent, done>>

(* Mutant: the last slot of the ring is used too.                             *)
TryAppendToTheLastSlot(t, changes) ==
    Least(Len(changes), RemoteCapacity - Len(remote_wal[t]))

(* RemoteInodeWAL::TryAppendPartial.                                          *)
TryAppendPartial(t, changes) ==
    LET free_slots == (RemoteCapacity - 1) - Len(remote_wal[t])
    IN  IF free_slots <= 0 THEN 0 ELSE Least(Len(changes), free_slots)

(* The call to the next target's handler, MDPersistenceReqHandler.            *)
SendRemoteInodeChangesOnce(m, t) ==
    /\ inserted[m] = NoCall
    /\ snapshots[m][t] # <<>>
    /\ running[t] = "run"
    /\ LET take == TryAppendPartial(t, snapshots[m][t])
       IN  /\ remote_wal' = [remote_wal EXCEPT ![t] = @ \o SubSeq(snapshots[m][t], 1, take)]
           /\ inserted' = [inserted EXCEPT ![m] = [target |-> t, count |-> take]]
    /\ UNCHANGED <<truthVars, wal, replayed, region, batches, pending_forward, batch_cap,
                   snapshots, drained, deferred, running, sent, done>>

(* Mutants: a partly taken batch is put back whole; or behind newer changes.  *)
HandleInsertedResendsAll(m) ==
    LET t == inserted[m].target
    IN  /\ inserted[m] # NoCall
        /\ pending_forward' = [pending_forward EXCEPT ![m][t] =
             IF inserted[m].count >= Len(snapshots[m][t]) THEN @ ELSE snapshots[m][t] \o @]
        /\ snapshots' = [snapshots EXCEPT ![m][t] = <<>>]
        /\ inserted' = [inserted EXCEPT ![m] = NoCall]
        /\ UNCHANGED <<truthVars, wal, replayed, region, batches, batch_cap, remote_wal,
                       drained, deferred, running, sent, done>>

HandleInsertedAtBack(m) ==
    LET t == inserted[m].target
    IN  /\ inserted[m] # NoCall
        /\ pending_forward' = [pending_forward EXCEPT ![m][t] =
             @ \o SubSeq(snapshots[m][t], inserted[m].count + 1, Len(snapshots[m][t]))]
        /\ snapshots' = [snapshots EXCEPT ![m][t] = <<>>]
        /\ inserted' = [inserted EXCEPT ![m] = NoCall]
        /\ UNCHANGED <<truthVars, wal, replayed, region, batches, batch_cap, remote_wal,
                       drained, deferred, running, sent, done>>

(* The answer: what the target did not take goes back to the front of the     *)
(* queue, which the checkpoint thread may have extended meanwhile.            *)
HandleInserted(m) ==
    LET t == inserted[m].target
        count == inserted[m].count
        size == Len(snapshots[m][t])
    IN  /\ inserted[m] # NoCall
        /\ batch_cap' = [batch_cap EXCEPT ![m][t] =
             IF count >= size THEN Least(@ * 2, BatchCeil)
             ELSE IF count > BatchFloor THEN count ELSE BatchFloor]
        /\ pending_forward' = [pending_forward EXCEPT ![m][t] =
             SubSeq(snapshots[m][t], count + 1, size) \o @]
        /\ snapshots' = [snapshots EXCEPT ![m][t] = <<>>]
        /\ inserted' = [inserted EXCEPT ![m] = NoCall]
        /\ UNCHANGED <<truthVars, wal, replayed, region, batches, remote_wal, drained,
                       deferred, running, sent, done>>

GuardianStep(m) ==
    \/ TakeSnapshots(m)
    \/ \E t \in Metas : SendRemoteInodeChangesOnce(m, t)
    \/ HandleInserted(m)

-----------------------------------------------------------------------------
Shutdown(m) == StopCheckpointThread(m) \/ DrainCycle(m) \/ DrainDone(m)

Next == \E m \in Metas : Operation(m) \/ CheckpointCycle(m) \/ GuardianStep(m) \/ Shutdown(m)

(* The threads run, cycles that get through all they find keep occurring, and *)
(* the drain at shutdown goes on.                                             *)
Fairness ==
    \A m \in Metas : /\ WF_vars(running[m] = "run" /\ FullCycle(m))
                     /\ WF_vars(GuardianStep(m))
                     /\ WF_vars(DrainCycle(m) \/ DrainDone(m))

Spec == Init /\ [][Next]_vars /\ Fairness

-----------------------------------------------------------------------------
ChangeSet == [op : {"unlink", "link", "setattr", "blocks"}, inode : Inodes,
              value : Int, version : 0..MaxOps,
              ids : SUBSET ({"unlink", "link", "setattr", "blocks"} \X Inodes \X (1..MaxOps))]

IsQueue(q) == \A k \in DOMAIN q : q[k] \in ChangeSet

(* Type invariant: queues hold changes, the remote ring keeps the free slot   *)
(* TryAppendPartial leaves, positions stay inside their rings.                *)
TypeOK ==
    /\ entries \subseteq Dirs \X Inodes
    /\ clock \in 0..MaxOps
    /\ \A m \in Metas :
         /\ replayed[m] \in 0..Len(wal[m])
         /\ drained[m] \in 0..Len(remote_wal[m])
         /\ Len(remote_wal[m]) < RemoteCapacity
         /\ IsQueue(remote_wal[m])
         /\ deferred[m] \subseteq ChangeSet
         /\ running[m] \in {"run", "stop", "stopped"}
         /\ \A t \in Metas : /\ IsQueue(batches[m][t])
                             /\ IsQueue(pending_forward[m][t])
                             /\ IsQueue(snapshots[m][t])
                             /\ batch_cap[m][t] \in BatchFloor..BatchCeil
    /\ region \in [Inodes -> [on : BOOLEAN, nlink : Nat, mode : Modes \cup {0}, extra : Nat]]
    /\ done \subseteq sent

(* What m has yet to hand over to t, oldest first.                            *)
Outgoing(m, t) ==
    LET taken == IF inserted[m].target = t THEN inserted[m].count ELSE 0
    IN  SubSeq(snapshots[m][t], taken + 1, Len(snapshots[m][t]))
          \o pending_forward[m][t] \o batches[m][t]

(* What t has received and not applied.                                       *)
Received(t) ==
    deferred[t] \cup ToSet(SubSeq(remote_wal[t], drained[t] + 1, Len(remote_wal[t])))

(* A remote change is somewhere on its way exactly once, or applied: partial  *)
(* inserts, re-queued remainders, deferrals and coalescing neither lose nor   *)
(* duplicate one.  Block deltas and link counts are not idempotent.           *)
ForwardedExactlyOnce ==
    LET Ids(S) == UNION {c.ids : c \in S}
        out == {<<m, t>> \in Metas \X Metas : TRUE}
        Size(S) == FoldLeft(LAMBDA n, c : n + Cardinality(c.ids), 0, SetToSeq(S))
        Waiting == UNION {Ids(ToSet(Outgoing(p[1], p[2]))) : p \in out}
                     \cup UNION {Ids(Received(t)) : t \in Metas}
        Amount == FoldLeft(LAMBDA n, p : n + Len(Outgoing(p[1], p[2])), 0, SetToSeq(out))
                    + FoldLeft(LAMBDA n, t : n + Size(Received(t)), 0, SetToSeq(Metas))
    IN  Waiting = sent \ done /\ Amount = Cardinality(sent \ done)

(* The changes a server sends to another keep the order of its log, also when *)
(* the target takes part of a batch and the rest is put back while new ones   *)
(* are queued; and however the owner of an inode drains, coalesces and defers *)
(* them, it applies none before an older one of the same server.  Between     *)
(* servers there is no order: of two chmods the older may be applied last.    *)
ForwardedInLogOrder ==
    /\ \A m, t \in Metas :
          LET q == Outgoing(m, t)
          IN  \A j, k \in DOMAIN q : j < k => q[j].version <= q[k].version
    /\ \A x \in sent \ done, y \in done :
          x[2] = y[2] /\ served[x[3]] = served[y[3]] => y[3] <= x[3]

(* Every change to an inode that is persisted at all is eventually applied by *)
(* the inode's owner, whatever arrives before the inode itself, unless a      *)
(* server is shut down first.                                                 *)
ForwardedEventuallyApplied ==
    LET Behind == \E id \in sent \ done : id[2] # RootInode
    IN  Behind ~> (~Behind \/ \E m \in Metas : running[m] # "run")

(* The drain at shutdown ends: once the server threads have been joined,      *)
(* DoCheckpoint(force_sync) eventually returns false, although every cycle    *)
(* counts deferred changes as work.  One kind of change keeps it going for    *)
(* ever: a block delta for the root, which has no slot in an inode region.    *)
ShutdownDrains ==
    \A m \in Metas :
        LET endless == \E ch \in deferred[m] : ch.inode = RootInode
        IN  (running[m] = "stop") ~> (running[m] = "stopped" \/ endless)
=============================================================================
