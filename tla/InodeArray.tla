------------------------------ MODULE InodeArray ------------------------------
(***************************************************************************)
(* The inode array of include/server/inode_array.h and the inode ids of       *)
(* src/server/metadata.cc, once the servers have come up (Startup).           *)
(*                                                                          *)
(* A slot is two cache lines in CXL memory: CL0 holds the control word and    *)
(* the first half of the inode, CL1 the second half.  A 128-byte read takes   *)
(* CL0 first, a 128-byte write stores CL1 first.  What an inode contains is   *)
(* its life (how often its id has been used) and the number of changes in     *)
(* this life, in both halves.                                                *)
(***************************************************************************)
EXTENDS Startup

CONSTANTS
    Workers,     \* event loop threads that serve calls, pairs <<server, rpc id>>
    SlotBits,    \* slots of a segment
    Segments,    \* kMaxSegments
    Versions,    \* 2^7, the range of the version in a control word
    MaxCalls,    \* bound: calls of all threads together
    Touched,     \* bound: the ids that find, update and unlink are called with
    Aged,        \* TRUE: server 0 begins with two full segments
    QuietReuse   \* TRUE: assume that an id is not taken again before its inode is erased

ASSUME InodeArrayAssumption ==
    /\ Workers \subseteq Metas \X (Rpcs \ {0})
    /\ SlotBits \in Nat \ {0} /\ Segments \in Nat \ {0} /\ Versions \in Nat \ {0}
    /\ MaxCalls \in Nat /\ Touched \subseteq Nat /\ Aged \in BOOLEAN /\ QuietReuse \in BOOLEAN
    /\ Aged => Segments > 2

VARIABLES
    blocks,   \* per server: header and segment offsets in CXL memory
    segs,     \* seg_offsets_: per server what it has cached of every server
    expand,   \* expand_mu_: per server the worker that holds it
    mem,      \* per segment in CXL memory and slot: the two cache lines
    ids,      \* per server: min_unused_id_, min_avail_id_, recycled_ids_
    w,        \* the workers
    calls,    \* calls begun
    hist      \* per id: lives begun, inserts returned, changes of this life

arrayVars == <<blocks, segs, expand, mem, ids, w, calls, hist>>

IdRange == SlotBits * Segments
Ids == 0 .. NumMetas * IdRange - 1
kRootId == 1
MetaOf(id) == id \div IdRange
SegIdx(id) == (id % IdRange) \div SlotBits
SlotOff(id) == id % SlotBits
BaseId(s) == s * IdRange

Content(life, n) == [life |-> life, n |-> n]
Older(a, b) == a.life < b.life \/ (a.life = b.life /\ a.n < b.n)

Ctrl(dirty, ver, valid) == [dirty |-> dirty, ver |-> ver, valid |-> valid]
EmptySlot == [ctrl |-> Ctrl(FALSE, 0, FALSE), cl0 |-> Content(0, 0), cl1 |-> Content(0, 0)]
MakeLocked(c) == [c EXCEPT !.dirty = TRUE]
MakeUnlockedWithVersionBump(c) == Ctrl(FALSE, (c.ver + 1) % Versions, c.valid)

(* Where an id's slot is in CXL memory, by the offset of its segment.         *)
Addr(seg, id) == <<seg, SlotOff(id)>>
Home(id) == Addr(blocks[MetaOf(id)].offs[SegIdx(id)], id)
Live(id) ==
    /\ blocks[MetaOf(id)].offs[SegIdx(id)] # 0
    /\ mem[Home(id)].ctrl.valid

Idle == [pc |-> "idle", op |-> "none", id |-> 0, at |-> <<0, 0>>, ctrl |-> Ctrl(FALSE, 0, FALSE),
         cl0 |-> Content(0, 0), cl1 |-> Content(0, 0), since |-> Content(0, 0),
         gone |-> FALSE, res |-> "none"]

S(t) == t[1]
In(t, pc) == w[t].pc = pc
Set(t, f) == w' = [w EXCEPT ![t] = f]
Move(t, pc) == Set(t, [w[t] EXCEPT !.pc = pc])
Return(t, f, res) == Set(t, [f EXCEPT !.pc = "done", !.res = res])

(*---------------------------------------------------------------------------*)
(* AllocateInodeId and FreeInodeId.                                          *)

(* The code does nothing for QuietReuse: Unlink frees the id before it erases *)
(* the inode, and AllocateInodeId takes any id that is free.                  *)
BeingErased(id) == \E t \in Workers : w[t].op = "erase" /\ w[t].id = id /\ ~In(t, "done")
MayTake(id) == QuietReuse => ~BeingErased(id)

AllocCheck(t) ==
    /\ In(t, "alloc")
    /\ Move(t, IF ids[S(t)].avail = ids[S(t)].unused THEN "bump" ELSE "dequeue")
    /\ UNCHANGED <<blocks, segs, expand, mem, ids, calls, hist>>

AllocDequeue(t) ==
    /\ In(t, "dequeue")
    /\ IF ids[S(t)].recycled = {}
         THEN Move(t, "bump") /\ UNCHANGED ids
         ELSE \E id \in ids[S(t)].recycled :
                 /\ MayTake(id)
                 /\ ids' = [ids EXCEPT ![S(t)].recycled = @ \ {id}]
                 /\ Set(t, [w[t] EXCEPT !.pc = "ensure", !.id = id])
    /\ UNCHANGED <<blocks, segs, expand, mem, calls, hist>>

(* Mutant of AllocBump: the counter is read here and stored by AllocAvail.    *)
AllocBumpLate(t) ==
    /\ In(t, "bump")
    /\ MayTake(ids[S(t)].unused)
    /\ Set(t, [w[t] EXCEPT !.pc = "avail", !.id = ids[S(t)].unused])
    /\ UNCHANGED <<blocks, segs, expand, mem, ids, calls, hist>>

AllocBump(t) ==
    /\ In(t, "bump")
    /\ MayTake(ids[S(t)].unused)
    /\ ids' = [ids EXCEPT ![S(t)].unused = @ + 1]
    /\ Set(t, [w[t] EXCEPT !.pc = "avail", !.id = ids[S(t)].unused])
    /\ UNCHANGED <<blocks, segs, expand, mem, calls, hist>>

AllocAvail(t) ==
    /\ In(t, "avail")
    /\ ids' = [ids EXCEPT ![S(t)].avail = w[t].id + 1]
    /\ Move(t, "ensure")
    /\ UNCHANGED <<blocks, segs, expand, mem, calls, hist>>

(* Mutant of FreeId: ids of other servers are kept too.                       *)
FreeIdForeign(t) ==
    /\ In(t, "free")
    /\ LET id == w[t].id
       IN  ids' = [ids EXCEPT ![S(t)] =
                     IF @.unused = id + 1 THEN [@ EXCEPT !.unused = id]
                                          ELSE [@ EXCEPT !.recycled = @ \cup {id}]]
    /\ Move(t, "freeavail")
    /\ UNCHANGED <<blocks, segs, expand, mem, calls, hist>>

(* The highest id goes back to the counter, others of this server to the      *)
(* queue, those of other servers nowhere.                                     *)
FreeId(t) ==
    /\ In(t, "free")
    /\ LET id == w[t].id
       IN  ids' = [ids EXCEPT ![S(t)] =
                     CASE MetaOf(id) # S(t) -> @
                       [] MetaOf(id) = S(t) /\ @.unused = id + 1 -> [@ EXCEPT !.unused = id]
                       [] OTHER -> [@ EXCEPT !.recycled = @ \cup {id}]]
    /\ Move(t, "freeavail")
    /\ UNCHANGED <<blocks, segs, expand, mem, calls, hist>>

FreeAvail(t) ==
    /\ In(t, "freeavail")
    /\ ids' = [ids EXCEPT ![S(t)].avail = IF @ > w[t].id THEN w[t].id ELSE @]
    /\ Move(t, "resolve")
    /\ UNCHANGED <<blocks, segs, expand, mem, calls, hist>>

(*---------------------------------------------------------------------------*)
(* insert, with EnsureSegment.                                               *)

Cached(s, id) == segs[s][MetaOf(id)][SegIdx(id)]

EnsureFast(t) ==
    /\ In(t, "ensure")
    /\ Cached(S(t), w[t].id) # 0
    /\ Set(t, [w[t] EXCEPT !.pc = "put1", !.at = Addr(Cached(S(t), w[t].id), w[t].id)])
    /\ UNCHANGED <<blocks, segs, expand, mem, ids, calls, hist>>

EnsureSlow(t) ==
    /\ In(t, "ensure")
    /\ Cached(S(t), w[t].id) = 0
    /\ Move(t, "lock")
    /\ UNCHANGED <<blocks, segs, expand, mem, ids, calls, hist>>

(* Under the mutex: look again, then set EXPANDING in the block header.       *)
ExpandLock(t) ==
    /\ In(t, "lock")
    /\ expand[S(t)] = <<>>
    /\ IF Cached(S(t), w[t].id) # 0
         THEN Move(t, "ensure") /\ UNCHANGED <<expand, blocks>>
         ELSE /\ expand' = [expand EXCEPT ![S(t)] = t]
              /\ blocks' = [blocks EXCEPT ![S(t)].expanding = TRUE]
              /\ Move(t, "offsets")
    /\ UNCHANGED <<segs, mem, ids, calls, hist>>

(* Segments in use: the pool's allocator never hands one out twice.           *)
NewSegment == Cardinality({a \in DOMAIN mem : a[2] = 0}) + 1

ExpandOffsets(t) ==
    /\ In(t, "offsets")
    /\ LET seg == NewSegment
           fresh == {seg} \X (0 .. SlotBits - 1)
       IN  /\ blocks' = [blocks EXCEPT ![S(t)].offs[SegIdx(w[t].id)] = seg]
           /\ mem' = [a \in DOMAIN mem \cup fresh |-> IF a \in fresh THEN EmptySlot ELSE mem[a]]
    /\ Move(t, "header")
    /\ UNCHANGED <<segs, expand, ids, calls, hist>>

(* Mutant of ExpandHeader: the number of segments is not raised.              *)
ExpandHeaderShort(t) ==
    /\ In(t, "header")
    /\ blocks' = [blocks EXCEPT ![S(t)].expanding = FALSE]
    /\ Move(t, "cache")
    /\ UNCHANGED <<segs, expand, mem, ids, calls, hist>>

ExpandHeader(t) ==
    /\ In(t, "header")
    /\ LET n == SegIdx(w[t].id) + 1
       IN  blocks' = [blocks EXCEPT ![S(t)].expanding = FALSE,
                                    ![S(t)].num = IF n > @ THEN n ELSE @]
    /\ Move(t, "cache")
    /\ UNCHANGED <<segs, expand, mem, ids, calls, hist>>

ExpandCache(t) ==
    /\ In(t, "cache")
    /\ segs' = [segs EXCEPT ![S(t)][S(t)][SegIdx(w[t].id)] = blocks[S(t)].offs[SegIdx(w[t].id)]]
    /\ expand' = [expand EXCEPT ![S(t)] = <<>>]
    /\ Move(t, "ensure")
    /\ UNCHANGED <<blocks, mem, ids, calls, hist>>

(* The slot is written without taking its lock.                               *)
InsertCL1(t) ==
    /\ In(t, "put1")
    /\ mem' = [mem EXCEPT ![w[t].at].cl1 = Content(hist[w[t].id].lives + 1, 0)]
    /\ hist' = [hist EXCEPT ![w[t].id].lives = @ + 1]
    /\ Move(t, "put0")
    /\ UNCHANGED <<blocks, segs, expand, ids, calls>>

InsertCL0(t) ==
    /\ In(t, "put0")
    /\ mem' = [mem EXCEPT ![w[t].at].ctrl = Ctrl(FALSE, 0, TRUE),
                          ![w[t].at].cl0 = Content(hist[w[t].id].lives, 0)]
    /\ hist' = [hist EXCEPT ![w[t].id].created = TRUE, ![w[t].id].changes = 0]
    /\ Return(t, w[t], "inserted")
    /\ UNCHANGED <<blocks, segs, expand, ids, calls>>

(*---------------------------------------------------------------------------*)
(* ResolveSlot and FetchForeignSegOffset.                                    *)

Resolved(t, seg) ==
    Set(t, [w[t] EXCEPT !.pc = IF w[t].op = "find" THEN "read" ELSE "wait",
                        !.at = Addr(seg, w[t].id)])

ResolveSlot(t) ==
    /\ In(t, "resolve")
    /\ LET id == w[t].id
       IN  CASE Cached(S(t), id) # 0 -> Resolved(t, Cached(S(t), id))
             [] Cached(S(t), id) = 0 /\ MetaOf(id) # S(t) /\ MetaOf(id) \in peers[S(t)].known
                  -> Move(t, "fetch")
             [] OTHER -> Return(t, w[t], "missing")
    /\ UNCHANGED <<blocks, segs, expand, mem, ids, calls, hist>>

FetchHeader(t) ==
    /\ In(t, "fetch")
    /\ ~blocks[MetaOf(w[t].id)].expanding
    /\ IF SegIdx(w[t].id) >= blocks[MetaOf(w[t].id)].num
         THEN Return(t, w[t], "missing") ELSE Move(t, "fetchline")
    /\ UNCHANGED <<blocks, segs, expand, mem, ids, calls, hist>>

(* One cache line carries the offsets of all modelled segments.               *)
FetchOffsets(t) ==
    /\ In(t, "fetchline")
    /\ LET m == MetaOf(w[t].id)
           line == blocks[m].offs
       IN  /\ segs' = [segs EXCEPT ![S(t)][m] =
                         [k \in DOMAIN line |-> IF line[k] # 0 THEN line[k] ELSE @[k]]]
           /\ IF line[SegIdx(w[t].id)] # 0 THEN Resolved(t, line[SegIdx(w[t].id)])
                                           ELSE Return(t, w[t], "missing")
    /\ UNCHANGED <<blocks, expand, mem, ids, calls, hist>>

(*---------------------------------------------------------------------------*)
(* find: the control word, then both lines with the same control word.        *)

FindRead(t) ==
    /\ In(t, "read")
    /\ ~mem[w[t].at].ctrl.dirty
    /\ IF mem[w[t].at].ctrl.valid
         THEN Set(t, [w[t] EXCEPT !.pc = "readcl0", !.ctrl = mem[w[t].at].ctrl])
         ELSE Return(t, w[t], "missing")
    /\ UNCHANGED <<blocks, segs, expand, mem, ids, calls, hist>>

FindCL0(t) ==
    /\ In(t, "readcl0")
    /\ LET slot == mem[w[t].at]
       IN  IF slot.ctrl = w[t].ctrl
             THEN Set(t, [w[t] EXCEPT !.pc = "readcl1", !.cl0 = slot.cl0])
             ELSE Move(t, "read")
    /\ UNCHANGED <<blocks, segs, expand, mem, ids, calls, hist>>

FindCL1(t) ==
    /\ In(t, "readcl1")
    /\ Return(t, [w[t] EXCEPT !.cl1 = mem[w[t].at].cl1], "found")
    /\ UNCHANGED <<blocks, segs, expand, mem, ids, calls, hist>>

(*---------------------------------------------------------------------------*)
(* update_fn and erase: lock the control word, change the slot.              *)

Locked(f) == [f EXCEPT !.pc = IF f.op = "update" THEN "load" ELSE "zero"]

(* Read until the slot is not locked.                                         *)
WaitUnlocked(t) ==
    /\ In(t, "wait")
    /\ ~mem[w[t].at].ctrl.dirty
    /\ IF mem[w[t].at].ctrl.valid
         THEN Set(t, [w[t] EXCEPT !.pc = "cas", !.ctrl = mem[w[t].at].ctrl])
         ELSE Return(t, w[t], "missing")
    /\ UNCHANGED <<blocks, segs, expand, mem, ids, calls, hist>>

(* Mutant of LockSlot: the result of the CAS is not looked at.                *)
LockSlotBlind(t) ==
    /\ In(t, "cas")
    /\ mem' = IF mem[w[t].at].ctrl = w[t].ctrl
                THEN [mem EXCEPT ![w[t].at].ctrl = MakeLocked(@)] ELSE mem
    /\ Set(t, Locked(w[t]))
    /\ UNCHANGED <<blocks, segs, expand, ids, calls, hist>>

(* The CAS returns the control word it met: the next attempt goes on from it. *)
LockSlot(t) ==
    /\ In(t, "cas")
    /\ LET met == mem[w[t].at].ctrl
       IN  IF met = w[t].ctrl
             THEN /\ mem' = [mem EXCEPT ![w[t].at].ctrl = MakeLocked(@)]
                  /\ Set(t, Locked(w[t]))
             ELSE /\ UNCHANGED mem
                  /\ IF met.dirty THEN Move(t, "wait")
                     ELSE IF met.valid THEN Set(t, [w[t] EXCEPT !.ctrl = met])
                     ELSE Return(t, w[t], "missing")
    /\ UNCHANGED <<blocks, segs, expand, ids, calls, hist>>

UpdateLoad(t) ==
    /\ In(t, "load")
    /\ Set(t, [w[t] EXCEPT !.pc = "store1", !.cl0 = mem[w[t].at].cl0, !.cl1 = mem[w[t].at].cl1])
    /\ UNCHANGED <<blocks, segs, expand, mem, ids, calls, hist>>

(* Mutant of UpdateCL1: only the line with the control word is stored.        *)
UpdateCL1Dropped(t) ==
    /\ In(t, "store1")
    /\ Move(t, "store0")
    /\ UNCHANGED <<blocks, segs, expand, mem, ids, calls, hist>>

UpdateCL1(t) ==
    /\ In(t, "store1")
    /\ mem' = [mem EXCEPT ![w[t].at].cl1 = [w[t].cl1 EXCEPT !.n = @ + 1]]
    /\ Move(t, "store0")
    /\ UNCHANGED <<blocks, segs, expand, ids, calls, hist>>

(* The store of CL0 also releases the lock.                                   *)
UpdateCL0(t) ==
    /\ In(t, "store0")
    /\ mem' = [mem EXCEPT ![w[t].at].ctrl = MakeUnlockedWithVersionBump(w[t].ctrl),
                          ![w[t].at].cl0 = [w[t].cl0 EXCEPT !.n = @ + 1]]
    /\ hist' = [hist EXCEPT ![w[t].id].changes = @ + 1]
    /\ Return(t, w[t], "updated")
    /\ UNCHANGED <<blocks, segs, expand, ids, calls>>

(* erase stores an empty CL0.  Calls on the id from now on may miss it.       *)
EraseZero(t) ==
    /\ In(t, "zero")
    /\ mem' = [mem EXCEPT ![w[t].at].ctrl = Ctrl(FALSE, 0, FALSE), ![w[t].at].cl0 = Content(0, 0)]
    /\ w' = [u \in Workers |->
               IF u = t THEN [w[t] EXCEPT !.pc = "done", !.res = "erased"]
               ELSE IF w[u].id = w[t].id THEN [w[u] EXCEPT !.gone = TRUE] ELSE w[u]]
    /\ UNCHANGED <<blocks, segs, expand, ids, calls, hist>>

(*---------------------------------------------------------------------------*)
(* Calls.  A caller knows an id from a directory entry, which is entered      *)
(* after insert has returned; it may be stale.  Unlink frees the id first and *)
(* erases the inode afterwards.                                              *)

CanBegin(t) == AllServing /\ w[t].pc \in {"idle", "done"} /\ calls < MaxCalls

Create(t) ==
    /\ CanBegin(t)
    /\ Set(t, [Idle EXCEPT !.pc = "alloc", !.op = "create"])
    /\ calls' = calls + 1
    /\ UNCHANGED <<blocks, segs, expand, mem, ids, hist>>

Access(t) ==
    /\ CanBegin(t)
    /\ \E op \in {"find", "update"}, id \in {i \in Touched : hist[i].created} :
          Set(t, [Idle EXCEPT !.pc = "resolve", !.op = op, !.id = id, !.gone = ~Live(id),
                              !.since = IF Live(id) THEN mem[Home(id)].cl0 ELSE Content(0, 0)])
    /\ calls' = calls + 1
    /\ UNCHANGED <<blocks, segs, expand, mem, ids, hist>>

Unlink(t) ==
    /\ CanBegin(t)
    /\ \E id \in {i \in Touched \ {kRootId} : hist[i].created /\ Live(i) /\ ~BeingErased(i)} :
          Set(t, [Idle EXCEPT !.pc = "free", !.op = "erase", !.id = id,
                              !.since = mem[Home(id)].cl0])
    /\ calls' = calls + 1
    /\ UNCHANGED <<blocks, segs, expand, mem, ids, hist>>

WorkerStep(t) ==
    \/ Create(t) \/ Access(t) \/ Unlink(t)
    \/ AllocCheck(t) \/ AllocDequeue(t) \/ AllocBump(t) \/ AllocAvail(t)
    \/ FreeId(t) \/ FreeAvail(t)
    \/ EnsureFast(t) \/ EnsureSlow(t) \/ ExpandLock(t) \/ ExpandOffsets(t)
    \/ ExpandHeader(t) \/ ExpandCache(t) \/ InsertCL1(t) \/ InsertCL0(t)
    \/ ResolveSlot(t) \/ FetchHeader(t) \/ FetchOffsets(t)
    \/ FindRead(t) \/ FindCL0(t) \/ FindCL1(t)
    \/ WaitUnlocked(t) \/ LockSlot(t)
    \/ UpdateLoad(t) \/ UpdateCL1(t) \/ UpdateCL0(t) \/ EraseZero(t)

(* InitBlock allocates the first segment; Metadata::Init puts the root inode  *)
(* in server 0's and starts the ids behind the root's.                        *)
InitBlock(m) == [expanding |-> FALSE, num |-> 1,
                 offs |-> [k \in 0 .. Segments - 1 |-> IF k = 0 THEN m + 1 ELSE 0]]

NewSlot == [ctrl |-> Ctrl(FALSE, 0, TRUE), cl0 |-> Content(1, 0), cl1 |-> Content(1, 0)]

(* The ids in use at first: the root's and, on an aged server 0, all that fit *)
(* in its first two segments.                                                 *)
Used == IF Aged THEN kRootId .. 2 * SlotBits - 1 ELSE {kRootId}
FirstBlock(m) ==
    IF m = 0 /\ Aged THEN [InitBlock(0) EXCEPT !.num = 2, !.offs[1] = NumMetas + 1]
                     ELSE InitBlock(m)

ArrayInit ==
    /\ blocks = [m \in Metas |-> FirstBlock(m)]
    /\ segs = [s \in Metas |-> [m \in Metas |-> [k \in 0 .. Segments - 1 |->
                  IF m = s THEN FirstBlock(s).offs[k] ELSE 0]]]
    /\ expand = [s \in Metas |-> <<>>]
    /\ mem = [a \in (1 .. NumMetas + (IF Aged THEN 1 ELSE 0)) \X (0 .. SlotBits - 1) |->
                 IF \E id \in Used : a = Addr(FirstBlock(0).offs[SegIdx(id)], id)
                   THEN NewSlot ELSE EmptySlot]
    /\ ids = [s \in Metas |->
                 LET first == IF s = 0 THEN kRootId + Cardinality(Used)
                                     ELSE BaseId(s) + kRootId + 1
                 IN  [unused |-> first, avail |-> IF s = 0 /\ Aged THEN first ELSE 0,
                      recycled |-> {}]]
    /\ w = [t \in Workers |-> Idle]
    /\ calls = 0
    /\ hist = [id \in Ids |-> [lives |-> IF id \in Used THEN 1 ELSE 0,
                               created |-> id \in Used, changes |-> 0]]

vars == <<startVars, arrayVars>>
Finished == AllServing /\ calls = MaxCalls /\ \A t \in Workers : w[t].pc \in {"idle", "done"}

ServerUp == StartStep /\ UNCHANGED arrayVars
Serve == (\E t \in Workers : WorkerStep(t)) /\ UNCHANGED startVars

Init == StartInit /\ ArrayInit
Next == ServerUp \/ Serve
Spec == Init /\ [][Next]_vars /\ WF_vars(ServerUp) /\ WF_vars(Serve)

(*---------------------------------------------------------------------------*)
(* Properties.                                                               *)

(* The type invariant of both parts.                                          *)
TypeOK ==
    /\ StartTypeOK
    /\ \A s \in Metas :
          /\ blocks[s].num \in 1 .. Segments
          /\ expand[s] \in {<<>>} \cup Workers
          /\ ids[s].unused \in BaseId(s) .. BaseId(s) + IdRange
          /\ ids[s].recycled \subseteq BaseId(s) .. BaseId(s) + IdRange - 1
    /\ \A t \in Workers : w[t].id \in Ids
    /\ calls \in 0 .. MaxCalls

(* No change is lost: a slot that no one has locked contains as many changes  *)
(* as update_fn calls have finished in this life of the inode, whatever other *)
(* calls did to it in between.                                                *)
UpdatesKept ==
    \A id \in Ids :
        Live(id) /\ ~mem[Home(id)].ctrl.dirty =>
            mem[Home(id)].cl0 = Content(hist[id].lives, hist[id].changes)

(* What a find returns is not older than the inode at the time of the call,   *)
(* and its second half is not older than its first: the control word that     *)
(* find compares keeps it from a first half that an update has replaced.      *)
FindsAreCurrent ==
    \A t \in Workers :
        w[t].res = "found" => ~Older(w[t].cl0, w[t].since) /\ ~Older(w[t].cl1, w[t].cl0)

(* The two halves that a find returns are of one version of the inode, which  *)
(* the comparison of control words is there for.  It is made when CL0 is      *)
(* read: an update that locks the slot and stores CL1 after that goes         *)
(* unnoticed, and find returns an old first half with a new second one.       *)
FindsWhole ==
    \A t \in Workers : w[t].res = "found" => w[t].cl0 = w[t].cl1

(* A call on an inode fails only if the inode has been erased before the call *)
(* ended: neither a segment being added nor a stale segment cache hides a     *)
(* live inode, on any server.                                                 *)
LiveInodesFound ==
    \A t \in Workers : w[t].res = "missing" => w[t].gone

(* An id that AllocateInodeId has handed out is not that of a live inode, and *)
(* no two creates hold the same one.  It needs QuietReuse: otherwise a create *)
(* is given the id of an inode that an Unlink has yet to erase.               *)
FreshIds ==
    \A t \in Workers :
        w[t].pc \in {"avail", "ensure", "lock", "offsets", "header", "cache", "put1", "put0"} =>
            /\ ~Live(w[t].id)
            /\ \A u \in Workers \ {t} : w[u].op = "create" /\ ~In(u, "done") => w[u].id # w[t].id

(* All servers come up, in whatever order they are started, and every call    *)
(* returns.                                                                   *)
UpAndAnswering == <>Finished
=============================================================================
