----------------------------- MODULE DirListing ------------------------------
(***************************************************************************)
(* Listing one directory: every server collects what it knows about it from   *)
(* the pages of its SSDDentRegion and the tail of its log                     *)
(* (CollectPersistentDentViews in src/server/metadata.cc), keeps the result   *)
(* while the client fetches it in pieces (PendingListings), and the client    *)
(* merges the servers' views by version (LoadMergedDirents in                 *)
(* src/client/posix_wrapper.cc).  Meanwhile operations are logged, and the    *)
(* checkpoint threads move records from the logs to the pages.                *)
(*                                                                          *)
(* The log is a sequence of records with a state each; its ring, the reuse of *)
(* slots and the choice of when to sync are in WalCheckpoint.  Versions come  *)
(* from one clock: what happens when clocks disagree is in HybridClock.       *)
(* Names are numbers in their sorting order, lengths are bytes of any unit.   *)
(***************************************************************************)
EXTENDS Integers, Sequences, FiniteSets, SequencesExt, FiniteSetsExt

CONSTANTS
    Servers, Threads, Names,
    RecLen,        \* length of a name's record in a listing
    ChunkSize,     \* bytes of a listing fetched at a time
    PageRecs,      \* records in a DirPage
    CachePages,    \* kPageCacheMaxPages
    History,       \* operations logged before, [s, del, add] with sets of names
    MaxOps,        \* bound: further operations
    Undisturbed    \* collections are not overtaken, see BeginCollect and ClearSlot

ASSUME ListingAssumption ==
    /\ PageRecs \in Nat \ {0} /\ CachePages \in Nat \ {0} /\ MaxOps \in Nat
    /\ \A n \in Names : RecLen[n] \in 1 .. ChunkSize

VARIABLES
    clock,     \* the last version or cutoff given out
    exists,    \* the names of the directory
    op,        \* per thread: its operation
    ops,       \* operations begun
    wal,       \* per server: the log's records and positions
    region,    \* per server: flash pages and page cache
    got,       \* per server: the handler of the client's request
    staged,    \* per server: PendingListings at the client's cutoff, one listing or none
    cl         \* the client

vars == <<clock, exists, op, ops, wal, region, got, staged, cl>>

View(n, v, del) == [name |-> n, version |-> v, deleted |-> del]

(*---------------------------------------------------------------------------*)
(* Pages: SSDDentRegion.  A cache entry is [off, page, dirty], most recently  *)
(* used first; page n + 1 of the directory points to page n.                  *)

EmptyPage(next) == [next |-> next, recs |-> <<>>]
Cached(r, off) == {i \in DOMAIN r.cache : r.cache[i].off = off}

ReadPage(r, off) ==
    IF Cached(r, off) # {} THEN r.cache[Min(Cached(r, off))].page ELSE r.flash[off]

(* Mutant of TakePoolSlot: a dirty page is dropped without being written.     *)
TakePoolSlotDropping(r) ==
    IF Len(r.cache) < CachePages THEN r ELSE [r EXCEPT !.cache = Front(@)]

(* Mutant of TakePoolSlot: nothing is evicted.                                *)
TakePoolSlotGrowing(r) == r

(* The least recently used page makes room, and is written if it is dirty.    *)
TakePoolSlot(r) ==
    IF Len(r.cache) < CachePages THEN r
    ELSE LET v == Last(r.cache)
         IN  [r EXCEPT !.cache = Front(@),
                       !.flash = IF v.dirty THEN [@ EXCEPT ![v.off] = v.page] ELSE @]

ToFront(r, off) ==
    LET i == Min(Cached(r, off))
    IN  [r EXCEPT !.cache = <<r.cache[i]>> \o RemoveAt(@, i)]

LoadPageSlot(r, off) ==
    IF Cached(r, off) # {} THEN ToFront(r, off)
    ELSE LET s == TakePoolSlot(r)
         IN  [s EXCEPT !.cache = <<[off |-> off, page |-> s.flash[off], dirty |-> FALSE]>> \o @]

(* AllocPage and LoadPageSlotForFresh, chained to the head page so far.       *)
FreshHead(r) ==
    LET s == TakePoolSlot(r)
        off == r.alloc + 1
    IN  [s EXCEPT !.alloc = off, !.head = off, !.flash = Append(@, EmptyPage(0)),
                  !.cache = <<[off |-> off, page |-> EmptyPage(r.head), dirty |-> TRUE]>> \o @]

GetOrCreateHeadPage(r) == IF r.head # 0 THEN LoadPageSlot(r, r.head) ELSE FreshHead(r)

(* One record of AppendEntries.                                               *)
AppendOne(r, rec) ==
    LET h == GetOrCreateHeadPage(r)
        s == IF Len(h.cache[1].page.recs) < PageRecs THEN h ELSE FreshHead(h)
    IN  [s EXCEPT !.cache[1].page.recs = Append(@, rec), !.cache[1].dirty = TRUE]

AppendEntries(r, recs) ==
    LET f[i \in 0 .. Len(recs)] == IF i = 0 THEN r ELSE AppendOne(f[i - 1], recs[i])
    IN  f[Len(recs)]

FlushDirty(r) ==
    LET dirty == {e \in ToSet(r.cache) : e.dirty}
    IN  [r EXCEPT
           !.flash = [off \in DOMAIN @ |->
                        IF \E e \in dirty : e.off = off
                        THEN (CHOOSE e \in dirty : e.off = off).page ELSE @[off]],
           !.cache = [i \in DOMAIN @ |-> [@[i] EXCEPT !.dirty = FALSE]]]

(* ReadDirLatestFlat: along the chain from the head page.                     *)
ReadDirLatestFlat(r, cutoff) ==
    LET f[off \in 0 .. r.alloc] ==
          IF off = 0 THEN {}
          ELSE LET p == ReadPage(r, off)
               IN  {v \in ToSet(p.recs) : v.version <= cutoff} \cup f[p.next]
    IN  f[r.head]

(*---------------------------------------------------------------------------*)
(* Operations on names: a version is drawn, a slot reserved, the record       *)
(* published.                                                                *)

Idle == [pc |-> "idle", s |-> CHOOSE s \in Servers : TRUE, views |-> {}, slot |-> 0]
Busy == UNION {{v.name : v \in op[t].views} : t \in Threads}

(* The views of a record: create, unlink, or both names of a rename.          *)
Records(v) ==
    {{View(n, v, n \in exists)} : n \in Names}
      \cup {{View(n, v, TRUE), View(m, v, FALSE)} : n \in exists, m \in Names \ exists}

BeginOp(t) ==
    /\ op[t].pc = "idle" /\ ops < MaxOps
    /\ ops' = ops + 1
    /\ clock' = clock + 1
    /\ \E s \in Servers, views \in Records(clock + 1) :
          /\ \A v \in views : v.name \notin Busy
          /\ op' = [op EXCEPT ![t] = [pc |-> "begun", s |-> s, views |-> views, slot |-> 0]]
    /\ UNCHANGED <<exists, wal, region, got, staged, cl>>

Reserve(t) ==
    /\ op[t].pc = "begun"
    /\ wal' = [wal EXCEPT ![op[t].s].slots = Append(@, [st |-> "reserved", views |-> {}])]
    /\ op' = [op EXCEPT ![t].pc = "reserved", ![t].slot = Len(wal[op[t].s].slots) + 1]
    /\ UNCHANGED <<clock, exists, ops, region, got, staged, cl>>

(* The record is ready, the entries are changed, the operation answers.       *)
Publish(t) ==
    /\ op[t].pc = "reserved"
    /\ wal' = [wal EXCEPT ![op[t].s].slots[op[t].slot] = [st |-> "ready", views |-> op[t].views]]
    /\ exists' = (exists \ {v.name : v \in {w \in op[t].views : w.deleted}})
                   \cup {v.name : v \in {w \in op[t].views : ~w.deleted}}
    /\ op' = [op EXCEPT ![t] = Idle]
    /\ UNCHANGED <<clock, ops, region, got, staged, cl>>

(*---------------------------------------------------------------------------*)
(* The checkpoint thread of a server.                                        *)

(* Ready records from the replay position on, as many as the deadline allows. *)
Replay(s) ==
    /\ wal[s].checkpoint_pos_ = wal[s].synced
    /\ \E n \in 1 .. Len(wal[s].slots) - wal[s].replayed :
          LET batch == SubSeq(wal[s].slots, wal[s].replayed + 1, wal[s].replayed + n)
          IN  /\ \A i \in DOMAIN batch : batch[i].st = "ready"
              /\ region' = [region EXCEPT ![s] =
                    AppendEntries(@, FlattenSeq([i \in DOMAIN batch |-> SetToSeq(batch[i].views)]))]
              /\ wal' = [wal EXCEPT ![s].replayed = @ + n]
    /\ UNCHANGED <<clock, exists, op, ops, got, staged, cl>>

Sync(s) ==
    /\ wal[s].checkpoint_pos_ = wal[s].synced
    /\ wal[s].synced < wal[s].replayed
    /\ region' = [region EXCEPT ![s] = FlushDirty(@)]
    /\ wal' = [wal EXCEPT ![s].synced = wal[s].replayed]
    /\ UNCHANGED <<clock, exists, op, ops, got, staged, cl>>

(* Undisturbed: not a slot that a collection under way has yet to scan.       *)
ClearSlot(s) ==
    /\ wal[s].cleared < wal[s].synced
    /\ Undisturbed => got[s].pc \notin {"read", "scan"}
    /\ wal' = [wal EXCEPT ![s].cleared = @ + 1,
                          ![s].slots[wal[s].cleared + 1] = [st |-> "empty", views |-> {}]]
    /\ UNCHANGED <<clock, exists, op, ops, region, got, staged, cl>>

Advance(s) ==
    /\ wal[s].checkpoint_pos_ < wal[s].synced /\ wal[s].cleared = wal[s].synced
    /\ Undisturbed => got[s].pc \notin {"read", "scan"}
    /\ wal' = [wal EXCEPT ![s].checkpoint_pos_ = wal[s].synced]
    /\ UNCHANGED <<clock, exists, op, ops, region, got, staged, cl>>

(*---------------------------------------------------------------------------*)
(* GetDentViews on a server.                                                 *)

NoWork == [pc |-> "idle", offset |-> 0, pos |-> 0, head |-> 0, views |-> {}, listing |-> <<>>]

(* record_offsets, from the second on.                                        *)
At(listing, i) ==
    LET f[j \in 0 .. i] == IF j = 0 THEN 0 ELSE f[j - 1] + RecLen[listing[j].name]
    IN  f[i]
Bytes(listing) == At(listing, Len(listing))
Boundaries(listing) == {At(listing, i) : i \in 0 .. Len(listing)}

(* A hit in PendingListings.                                                  *)
Hit(s) ==
    /\ got[s].pc = "asked" /\ staged[s] # {}
    /\ got' = [got EXCEPT ![s].pc = "serve", ![s].listing = CHOOSE l \in staged[s] : TRUE]
    /\ UNCHANGED <<clock, exists, op, ops, wal, region, staged, cl>>

(* A miss: the boundaries of the log first.  Undisturbed: what has drawn a    *)
(* version up to the cutoff on this server has been published, and no slots   *)
(* are cleared that the checkpoint position has not passed.                   *)
BeginCollect(s) ==
    /\ got[s].pc = "asked" /\ staged[s] = {}
    /\ Undisturbed => \A t \in Threads : op[t].s = s =>
                         \A v \in op[t].views : v.version > cl.cutoff
    /\ Undisturbed => wal[s].cleared = wal[s].checkpoint_pos_
    /\ got' = [got EXCEPT ![s].pc = "read", ![s].pos = wal[s].checkpoint_pos_,
                          ![s].head = Len(wal[s].slots)]
    /\ UNCHANGED <<clock, exists, op, ops, wal, region, staged, cl>>

ReadRegion(s) ==
    /\ got[s].pc = "read"
    /\ got' = [got EXCEPT ![s].pc = "scan",
                          ![s].views = ReadDirLatestFlat(region[s], cl.cutoff)]
    /\ UNCHANGED <<clock, exists, op, ops, wal, region, staged, cl>>

(* The log's records from pos on, up to the first slot that is not ready.     *)
LogTail(s) ==
    LET slots == wal[s].slots
        scan == got[s].pos + 1 .. got[s].head
        seen == {i \in scan : \A j \in scan : j <= i => slots[j].st = "ready"}
    IN  {v \in UNION {slots[i].views : i \in seen} : v.version <= cl.cutoff}

(* Mutant of Newest: the views are not ordered by version.                    *)
NewestNot(views) == {CHOOSE v \in views : v.name = n : n \in {v.name : v \in views}}

(* Sorting by name and falling version, and keeping the first of each name.   *)
Newest(views) == {v \in views : \A w \in views : w.name = v.name => w.version <= v.version}

ScanLog(s) ==
    /\ got[s].pc = "scan"
    /\ \E views \in {Newest(got[s].views \cup LogTail(s))} :
       \E listing \in {SetToSortSeq(views, LAMBDA v, w : v.name < w.name)} :
           /\ staged' = [staged EXCEPT ![s] = {listing}]
           /\ got' = [got EXCEPT ![s].pc = "serve", ![s].listing = listing, ![s].views = {}]
    /\ UNCHANGED <<clock, exists, op, ops, wal, region, cl>>

(* Mutant of ReleasedAt: listings are left to the sweep.                      *)
ReleasedAtNever(listing, target, end) == FALSE

(* Whether the staged listing is dropped: at or after its end, at an offset   *)
(* between records, when nothing fits, and with the last record.              *)
ReleasedAt(listing, target, end) == target = end \/ end = Bytes(listing)

(* The largest boundary within a chunk of the offset, the offset itself when  *)
(* there is nothing to send.                                                  *)
EndPos(listing, target) ==
    IF target >= Bytes(listing) \/ target \notin Boundaries(listing) THEN target
    ELSE Max({b \in Boundaries(listing) : b <= target + ChunkSize})

Between(listing, from, to) ==
    SubSeq(listing, Cardinality({i \in 1 .. Len(listing) : At(listing, i) <= from}) + 1,
                    Cardinality({i \in 1 .. Len(listing) : At(listing, i) <= to}))

(* Mutant of Ended: the client does not take an empty reply for the end.      *)
EndedNever(target, end) == FALSE

(* An empty reply ends a server's stream.                                     *)
Ended(target, end) == end = target

(* GetDentViews answers, and LoadMergedDirents appends the piece.             *)
Serve(s) ==
    /\ got[s].pc = "serve"
    /\ \E l \in {got[s].listing}, target \in {got[s].offset} :
       \E end \in {EndPos(l, target)} :
           /\ staged' = [staged EXCEPT ![s] = IF ReleasedAt(l, target, end) THEN {} ELSE @]
           /\ cl' = IF ~cl.alive THEN cl
                    ELSE [cl EXCEPT
                            !.meta[s] = [offset |-> end, done |-> Ended(target, end),
                                         stream |-> @.stream \o Between(l, target, end)]]
    /\ got' = [got EXCEPT ![s] = NoWork]
    /\ UNCHANGED <<clock, exists, op, ops, wal, region>>

(* SweepExpired: the client has not been heard of for the time to live.       *)
SweepExpired(s) ==
    /\ ~cl.alive /\ staged[s] # {} /\ got[s].pc = "idle"
    /\ staged' = [staged EXCEPT ![s] = {}]
    /\ UNCHANGED <<clock, exists, op, ops, wal, region, got, cl>>

(*---------------------------------------------------------------------------*)
(* The client.                                                               *)

(* OpenDir: the server's clock after the call is the cutoff.  sure is a       *)
(* history: the names with no operation under way, and whether they exist.    *)
OpenDir ==
    /\ cl.pc = "start"
    /\ clock' = clock + 1
    /\ cl' = [cl EXCEPT !.pc = "fetch", !.cutoff = clock + 1,
                        !.sure = Names \ Busy, !.then = exists]
    /\ UNCHANGED <<exists, op, ops, wal, region, got, staged>>

(* BatchGetDentViews: a round asks every server that is not done, once all    *)
(* have answered the round before.                                            *)
Ask ==
    /\ cl.pc = "fetch" /\ cl.alive
    /\ \A s \in Servers : got[s].pc = "idle"
    /\ \E s \in Servers : ~cl.meta[s].done
    /\ got' = [s \in Servers |-> IF cl.meta[s].done THEN got[s]
                                 ELSE [NoWork EXCEPT !.pc = "asked", !.offset = cl.meta[s].offset]]
    /\ UNCHANGED <<clock, exists, op, ops, wal, region, staged, cl>>

(* The k-way merge: of the least name at a cursor the newest view counts, and *)
(* every cursor on that name moves on.                                        *)
RECURSIVE Merge(_)
Merge(streams) ==
    LET live == {s \in Servers : streams[s] # <<>>}
    IN  IF live = {} THEN <<>>
        ELSE LET name == Min({Head(streams[s]).name : s \in live})
                 on == {s \in live : Head(streams[s]).name = name}
                 winner == Head(streams[CHOOSE s \in on : \A u \in on :
                                   Head(streams[u]).version <= Head(streams[s]).version])
                 rest == [s \in Servers |-> IF s \in on THEN Tail(streams[s]) ELSE streams[s]]
             IN  (IF winner.deleted THEN <<>> ELSE <<name>>) \o Merge(rest)

LoadMergedDirents ==
    /\ cl.pc = "fetch" /\ cl.alive
    /\ \A s \in Servers : cl.meta[s].done
    /\ cl' = [cl EXCEPT !.pc = "done", !.merged = Merge([s \in Servers |-> cl.meta[s].stream])]
    /\ UNCHANGED <<clock, exists, op, ops, wal, region, got, staged>>

(* The client ends in the middle of a listing, or gives up after a reply that  *)
(* reports an error.                                                          *)
ClientStops ==
    /\ cl.pc = "fetch" /\ cl.alive
    /\ cl' = [cl EXCEPT !.alive = FALSE]
    /\ UNCHANGED <<clock, exists, op, ops, wal, region, got, staged>>

(*---------------------------------------------------------------------------*)

(* The directory has one name, which the first server has on a page, and the   *)
(* operations of History are in the logs.                                     *)
HistoryViews(i) ==
    {View(n, i + 1, TRUE) : n \in History[i].del} \cup {View(n, i + 1, FALSE) : n \in History[i].add}

Logged(s) == SelectSeq([i \in DOMAIN History |-> i], LAMBDA i : History[i].s = s)

Init ==
    /\ clock = 1 + Len(History)
    /\ exists = FoldLeft(LAMBDA e, h : (e \ h.del) \cup h.add, {Min(Names)}, History)
    /\ op = [t \in Threads |-> Idle]
    /\ ops = 0
    /\ wal = [s \in Servers |->
          [slots |-> [i \in DOMAIN Logged(s) |->
                        [st |-> "ready", views |-> HistoryViews(Logged(s)[i])]],
           replayed |-> 0, synced |-> 0, cleared |-> 0, checkpoint_pos_ |-> 0]]
    /\ region = [s \in Servers |->
          LET r == [alloc |-> 0, head |-> 0, cache |-> <<>>, flash |-> <<>>]
          IN  IF s = Min(Servers) THEN FlushDirty(AppendOne(r, View(Min(Names), 1, FALSE))) ELSE r]
    /\ got = [s \in Servers |-> NoWork]
    /\ staged = [s \in Servers |-> {}]
    /\ cl = [pc |-> "start", alive |-> TRUE, cutoff |-> 0, sure |-> {}, then |-> {},
             meta |-> [s \in Servers |-> [offset |-> 0, done |-> FALSE, stream |-> <<>>]],
             merged |-> <<>>]

OpStep(t) == BeginOp(t) \/ Reserve(t) \/ Publish(t)
CheckpointStep(s) == Replay(s) \/ Sync(s) \/ ClearSlot(s) \/ Advance(s)
HandlerStep(s) == Hit(s) \/ BeginCollect(s) \/ ReadRegion(s) \/ ScanLog(s) \/ Serve(s)
                  \/ SweepExpired(s)
ClientStep == OpenDir \/ Ask \/ LoadMergedDirents

Next ==
    \/ \E t \in Threads : OpStep(t)
    \/ \E s \in Servers : CheckpointStep(s) \/ HandlerStep(s)
    \/ ClientStep
    \/ ClientStops

Spec == Init /\ [][Next]_vars
FairSpec ==
    /\ Spec
    /\ WF_vars(\E t \in Threads : Reserve(t) \/ Publish(t))
    /\ WF_vars(\E s \in Servers : HandlerStep(s))
    /\ WF_vars(\E s \in Servers : ClearSlot(s) \/ Advance(s))
    /\ WF_vars(ClientStep)

(*---------------------------------------------------------------------------*)
(* Properties.                                                               *)

(* The type invariant.  It includes the bound on the page cache.              *)
TypeOK ==
    /\ exists \subseteq Names
    /\ \A s \in Servers :
          /\ Len(region[s].cache) <= CachePages
          /\ region[s].head <= region[s].alloc
          /\ wal[s].checkpoint_pos_ <= wal[s].cleared /\ wal[s].cleared <= wal[s].synced
          /\ wal[s].synced <= wal[s].replayed /\ wal[s].replayed <= Len(wal[s].slots)

(* Evicting, reloading and chaining pages loses nothing: what a reader finds  *)
(* along the chain is every record that was replayed, and once the records    *)
(* are cleared from the log the pages on flash hold them.                     *)
PagesCurrent ==
    \A s \in Servers :
       LET r == region[s]
           found == UNION {ToSet(ReadPage(r, off).recs) : off \in 1 .. r.alloc}
           log == UNION {wal[s].slots[i].views : i \in 1 .. wal[s].replayed}
           flashed == UNION {ToSet(r.flash[off].recs) : off \in 1 .. r.alloc}
       IN  /\ found = ReadDirLatestFlat(r, clock)
           /\ log \subseteq found
           /\ UNION {wal[s].slots[i].views : i \in 1 .. wal[s].synced} \subseteq flashed
           /\ \A p, q \in 1 .. r.alloc :
                 p # q => ToSet(ReadPage(r, p).recs) \cap ToSet(ReadPage(r, q).recs) = {}

(* A listing shows every name once at most, and of the names on which no      *)
(* operation was under way at the opendir exactly those that existed then,    *)
(* whichever servers logged their history and wherever the checkpoint threads *)
(* were.                                                                      *)
ListingExact ==
    cl.pc = "done" =>
       /\ IsInjective(cl.merged)
       /\ ToSet(cl.merged) \cap cl.sure = cl.then \cap cl.sure

(* A collection has, of every name on which no operation was under way at the *)
(* opendir, the newest view that the server logged up to the cutoff: "By       *)
(* capturing checkpoint_pos_ first, our WAL scan covers any entries that may  *)
(* not yet have been flushed to DentRegion when we read it."                  *)
CollectionCovers ==
    \A s \in Servers : got[s].pc = "serve" =>
       LET logged == ReadDirLatestFlat(region[s], cl.cutoff)
                       \cup UNION {x.views : x \in ToSet(wal[s].slots)}
       IN  \A v \in logged : v.name \in cl.sure /\ v.version <= cl.cutoff =>
              \E w \in ToSet(got[s].listing) : w.name = v.name /\ w.version >= v.version

(* Fetching a listing in pieces ends, unless the client stops.                *)
ListingEnds == (cl.pc = "fetch") ~> (cl.pc = "done" \/ ~cl.alive)

(* No listing stays in PendingListings: the last pieces, a request behind the *)
(* end, or the sweep after a client stopped release it.                       *)
StagingEmpties == <>[](\A s \in Servers : staged[s] = {})
=============================================================================
