---------------------------- MODULE LevelHashtable ----------------------------
(***************************************************************************)
(* The shared dirent hashtable of include/server/level_hashtable.h: buckets  *)
(* in CXL memory, each with one 64-byte line of slot words (a lock bit, a    *)
(* version and the fingerprints) and one value line per slot.  A line is     *)
(* read, written or compared-and-swapped in one step; everything else of an  *)
(* operation is interleaved with the operations of all other servers.        *)
(*                                                                          *)
(* This module has the operations on buckets: the probe loops of insert,     *)
(* find, update and erase and the displacement of an insert that finds its   *)
(* candidates full.  Module HashtableResize adds the resize protocol.        *)
(*                                                                          *)
(* A fingerprint identifies its key here.  Regions are numbered by age:      *)
(* with layout k the top level is region k + 1, the bottom level region k,   *)
(* and region k - 1 is the old bottom level of a running migration.          *)
(***************************************************************************)
EXTENDS Integers, Sequences, FiniteSets

CONSTANTS
    Servers,       \* rcfg_.mds_id_: 0 .. n_mds_ - 1
    Threads,       \* RPC threads of all servers
    ServerOf,      \* Threads -> Servers
    Keys,
    Vals,
    H1, H2,        \* mix_h1, mix_h2: Keys -> Nat
    BottomSize,    \* buckets of the first bottom level (even)
    LastRegion,    \* bound: no region beyond this one is allocated
    Slots,         \* kSlots
    Versions,      \* values of the version field, 128 in the code
    NoKey,         \* fingerprint 0
    NoVal,         \* the value line of a slot that never held an entry
    TimelyHolders  \* assume that a running thread unlocks before max_spins are over

ASSUME LevelHashtableAssumption ==
    /\ Servers = 0 .. Cardinality(Servers) - 1
    /\ ServerOf \in [Threads -> Servers]
    /\ H1 \in [Keys -> Nat] /\ H2 \in [Keys -> Nat]
    /\ BottomSize \in Nat \ {0} /\ BottomSize % 2 = 0
    /\ LastRegion \in Nat \ {0}
    /\ Slots \in Nat \ {0} /\ Versions \in Nat \ {0}
    /\ NoKey \notin Keys /\ NoVal \notin Vals
    /\ TimelyHolders \in BOOLEAN

VARIABLES
    mem,    \* bucket -> [dirty, ver, fp, val]: the table in CXL memory
    hint,   \* per server: TagHint, a guess of where a fingerprint is
    srv,    \* per server: layout in use and the copy of the resize control
    th,     \* per thread: the operation it executes
    meta,   \* ResizeMeta in CXL memory, see HashtableResize
    wit,    \* history, per thread: values of its key during its call
    moved   \* history, per thread: its key was displaced during its call

Size(r) == BottomSize * 2^r
Buckets == UNION {{<<r, i>> : i \in 0 .. Size(r) - 1} : r \in 0 .. LastRegion}
Rows == {0, 1} \X (0 .. Size(LastRegion) - 1)
Entry == [key : Keys, val : Vals]

(*---------------------------------------------------------------------------*)
(* Placement.                                                                *)

(* f_idx, s_idx: the first choice lies in the first half of a level, the      *)
(* second in the other half.                                                  *)
FIdx(k, r) == H1[k] % (Size(r) \div 2)
SIdx(k, r) == (Size(r) \div 2) + (H2[k] % (Size(r) \div 2))

Pair(lvl, k, r) == << [lvl |-> lvl, b |-> <<r, FIdx(k, r)>>],
                      [lvl |-> lvl, b |-> <<r, SIdx(k, r)>>] >>

(* Mutant of get_candidates: the old bottom level is searched last.           *)
get_candidatesOldLast(k, sv) ==
    Pair(0, k, sv.k + 1) \o Pair(1, k, sv.k)
        \o (IF sv.active THEN Pair(2, k, sv.k - 1) ELSE <<>>)

(* get_candidates: the old bottom level first while a migration is active,    *)
(* because entries leave it for the new levels.                               *)
get_candidates(k, sv) ==
    (IF sv.active THEN Pair(2, k, sv.k - 1) ELSE <<>>)
        \o Pair(0, k, sv.k + 1) \o Pair(1, k, sv.k)

(* The victim's other bucket on the same level.                               *)
Alternate(k, b) ==
    <<b[1], IF b[2] < Size(b[1]) \div 2 THEN SIdx(k, b[1]) ELSE FIdx(k, b[1])>>

(*---------------------------------------------------------------------------*)
(* Slot words.                                                               *)

FirstSlot(fp, k) ==
    LET S == {s \in 1 .. Slots : fp[s] = k}
    IN  IF S = {} THEN 0 ELSE CHOOSE s \in S : \A x \in S : s <= x
find_empty_slot(fp) == FirstSlot(fp, NoKey)

(* The line a reader saw, and whether its first word is still the same: that  *)
(* word holds the lock bit, the version and the first fingerprint.            *)
Line(b) == [ver |-> mem[b].ver, fp |-> mem[b].fp]
Unmoved(b, snap) ==
    ~mem[b].dirty /\ mem[b].ver = snap.ver /\ mem[b].fp[1] = snap.fp[1]

Bump(v) == (v + 1) % Versions

(* make_locked, set_unlocked_meta0: both carry the version after the one read *)
(* before the CAS.  A commit writes the whole line from that copy.            *)
make_locked(m, snap) == [m EXCEPT !.dirty = TRUE, !.ver = Bump(snap.ver)]
set_unlocked(m, snap, fp) == [m EXCEPT !.dirty = FALSE, !.ver = Bump(snap.ver),
                                       !.fp = fp]

(* TagHint: a row per bucket of the two levels in use; the rows of the old    *)
(* bottom level alias those of the bottom level (global_bucket_id).           *)
Row(lvl, i) == <<IF lvl = 0 THEN 0 ELSE 1, i>>
EmptyHint == [row \in Rows |-> [s \in 1 .. Slots |-> NoKey]]
hint_set(h, lvl, i, s, k) == [h EXCEPT ![Row(lvl, i)][s] = k]
hint_test(h, c, k) == \E s \in 1 .. Slots : h[Row(c.lvl, c.b[2])][s] = k

(*---------------------------------------------------------------------------*)
(* Probe loops.  A thread's record holds the call, the entry it looks for or  *)
(* places (item; during a migration step the entry being migrated), the       *)
(* candidates left in this phase (todo), those the hint named (hinted), those *)
(* met locked (busy), the line it read (snap), the displacements under way    *)
(* (stack) and still to try (tasks).                                          *)
(* The plan is the calls it may still make, a set for each turn.              *)

NoEntry == [key |-> NoKey, val |-> NoVal]
NoCall == [op |-> "none", key |-> NoKey, val |-> NoVal]
NoSnap == [ver |-> 0, fp |-> [s \in 1 .. Slots |-> NoKey]]
NoMig == [b |-> <<0, 0>>, snap |-> NoSnap, slot |-> 0, done |-> {}]

Idle(plan) ==
    [pc |-> "idle", plan |-> plan, call |-> NoCall, res |-> "none", got |-> NoVal,
     eff |-> FALSE, again |-> FALSE, item |-> NoEntry, cands |-> <<>>,
     todo |-> <<>>, hinted |-> {}, phase |-> "scan", busy |-> {}, oldc |-> FALSE,
     skipped |-> FALSE, retry |-> 0, snap |-> NoSnap, tasks |-> <<>>,
     stack |-> <<>>, mig |-> NoMig]

(* What the thread is doing to the table: migrate_step places entries with    *)
(* insert_to_new_layout, whose loops are those of insert_impl.                *)
Kind(r) == IF r.mig = NoMig THEN r.call.op ELSE "insert"

Cand(r) == r.cands[Head(r.todo)]
Positions(cs, S) == SelectSeq([i \in 1 .. Len(cs) |-> i], LAMBDA i : i \in S)
NewLevel(cs) == {i \in DOMAIN cs : cs[i].lvl # 2}

(* The probe is over: forget its local variables.                             *)
Leave(r, pc) ==
    [r EXCEPT !.pc = pc, !.cands = <<>>, !.todo = <<>>, !.hinted = {},
              !.phase = "scan",
              !.busy = {}, !.oldc = FALSE, !.retry = 0, !.snap = NoSnap,
              !.tasks = <<>>, !.stack = <<>>]
Answer(r, res) == [Leave(r, "post") EXCEPT !.res = res]

(* The entry is in the table.                                                 *)
Placed(r) ==
    IF r.mig = NoMig
      THEN [Answer(r, "yes") EXCEPT !.eff = TRUE]
      ELSE [Leave(r, "migslot") EXCEPT !.mig.done = @ \cup {r.mig.slot},
                                       !.mig.slot = @ + 1]

(* All candidates are full and nothing could be displaced.                    *)
NoRoom(r) ==
    IF r.mig = NoMig THEN Leave(r, "full")
                     ELSE [Leave(r, "migslot") EXCEPT !.mig.slot = @ + 1]

Frame(kind, c, item, extra) ==
    [kind |-> kind, lvl |-> c.lvl, b |-> c.b, item |-> item, extra |-> extra,
     slot |-> 1, ti |-> 1, snap |-> NoSnap, alt |-> c.b, asnap |-> NoSnap]

(* try_migrate_and_insert: one displacement on the same level, then one from  *)
(* the bottom to the top level, and both again with a second displacement     *)
(* while the table is being resized.                                          *)
Displacements(r) ==
    LET new == SelectSeq(r.cands, LAMBDA c : c.lvl # 2)
        BL == SelectSeq(r.cands, LAMBDA c : c.lvl = 1)
        from(kind, cs, x) ==
            [i \in DOMAIN cs |-> [kind |-> kind, c |-> cs[i], extra |-> x]]
        hops(x) == from("same", new, x) \o from("b2t", BL, x)
    IN  hops(FALSE) \o (IF r.cands[1].lvl = 2 THEN hops(TRUE) ELSE <<>>)

NextDisplacement(r) ==
    IF r.tasks = <<>>
      THEN NoRoom(r)
      ELSE LET d == Head(r.tasks)
           IN  [r EXCEPT !.pc = "mread", !.tasks = Tail(@),
                         !.stack = <<Frame(d.kind, d.c, r.item, d.extra)>>]

(* A phase ran out of candidates: those met locked are retried, then, if one  *)
(* of them was in the old bottom level, the new levels are searched again,    *)
(* because the entry may have been migrated after they were searched.         *)
NextPhase(r) ==
    CASE r.phase = "scan" /\ r.busy # {} ->
           [r EXCEPT !.phase = "retry", !.pc = "read", !.busy = {}, !.retry = 0,
                     !.todo = Positions(r.cands, r.busy)]
      [] r.phase = "retry" /\ r.oldc ->
           [r EXCEPT !.phase = "rescan", !.pc = "read",
                     !.todo = Positions(r.cands, NewLevel(r.cands))]
      [] OTHER ->
           IF Kind(r) = "insert"
             THEN NextDisplacement([r EXCEPT !.tasks = Displacements(r)])
             ELSE Answer(r, "no")

Advance(r) ==
    LET q == Tail(r.todo)
    IN  IF q = <<>> THEN NextPhase([r EXCEPT !.snap = NoSnap])
                    ELSE [r EXCEPT !.todo = q, !.pc = "read", !.retry = 0,
                                   !.snap = NoSnap]

(* The bucket was locked, or the CAS or the second read of a find found that  *)
(* it had changed.                                                            *)
Contended(r) ==
    CASE r.phase = "scan" ->
           Advance([r EXCEPT !.busy = @ \cup {Head(r.todo)},
                             !.oldc = @ \/ Cand(r).lvl = 2])
      [] r.phase = "retry" ->
           IF Kind(r) = "insert" /\ r.retry = 2
             THEN Advance(r)
             ELSE [r EXCEPT !.pc = "read", !.snap = NoSnap,
                            !.retry = IF Kind(r) = "insert" THEN @ + 1 ELSE 0]
      [] r.phase = "rescan" -> Advance([r EXCEPT !.skipped = TRUE])

(* The slot the operation is interested in: an empty one for an insert, the   *)
(* one with the fingerprint otherwise; 0 if there is none.                    *)
Target(r, fp) == IF Kind(r) = "insert" THEN find_empty_slot(fp)
                                       ELSE FirstSlot(fp, r.item.key)

(* get_candidates and the order of the probes: an insert skips the old bottom *)
(* level, the others probe the candidates their hint names first.             *)
StartProbe(r, s) ==
    LET cs == get_candidates(r.item.key, srv[s])
        likely == {i \in DOMAIN cs : hint_test(hint[s], cs[i], r.item.key)}
    IN  [r EXCEPT !.pc = "read", !.cands = cs,
            !.hinted = IF Kind(r) = "insert" THEN {} ELSE likely,
            !.todo = IF Kind(r) = "insert"
                       THEN Positions(cs, NewLevel(cs))
                       ELSE Positions(cs, likely) \o Positions(cs, DOMAIN cs \ likely)]

Set(t, r) == th' = [th EXCEPT ![t] = r]
Write(b, m) == mem' = [mem EXCEPT ![b] = m]
Hint(t, c, s, k) ==
    hint' = [hint EXCEPT ![ServerOf[t]] = IF c.lvl = 2 THEN @
                                          ELSE hint_set(@, c.lvl, c.b[2], s, k)]

(*---------------------------------------------------------------------------*)
(* The entries of the table.  A victim that already has its second copy, and  *)
(* a slot whose entry has been migrated, no longer count.                     *)

Top(r) == r.stack[Len(r.stack)]
Leaving(b, s) ==
    \E t \in Threads :
        \/ /\ th[t].pc \in {"srcput", "srccommit"}
           /\ Top(th[t]).b = b /\ Top(th[t]).slot = s
        \/ th[t].mig.b = b /\ s \in th[t].mig.done
Copies(k) == {x \in Buckets \X (1 .. Slots) :
                 mem[x[1]].fp[x[2]] = k /\ ~Leaving(x[1], x[2])}
ValueOf(k) == IF Copies(k) = {} THEN NoVal
              ELSE LET x == CHOOSE x \in Copies(k) : TRUE
                   IN  mem[x[1]].val[x[2]].val

InCall(t) == th[t].pc # "idle"

(* History: what the key of each call in progress was worth, and whether an   *)
(* insert moved it from one bucket to another.                                *)
Displaced(k) ==
    \E t \in Threads : /\ th[t].pc \in {"altput", "srcput", "srccommit"}
                       /\ Top(th[t]).snap.fp[Top(th[t]).slot] = k
Watch ==
    /\ wit' = [t \in Threads |-> IF InCall(t)' THEN wit[t] \cup {ValueOf(th[t].call.key)'}
                                               ELSE {}]
    /\ moved' = [t \in Threads |-> InCall(t)' /\ (moved[t] \/ Displaced(th[t].call.key)')]

(*---------------------------------------------------------------------------*)
(* Steps of a probe.                                                         *)

(* Read the candidate's line.  In the retry phase wait_for_unlock spins.      *)
Read(t) ==
    /\ th[t].pc = "read"
    /\ LET r == th[t]
           b == Cand(r).b
       IN  /\ r.phase = "retry" => ~mem[b].dirty
           /\ Set(t, CASE mem[b].dirty -> Contended(r)
                       [] ~mem[b].dirty /\ Target(r, mem[b].fp) = 0 -> Advance(r)
                       [] OTHER -> [r EXCEPT !.snap = Line(b),
                              !.pc = IF Kind(r) = "find" THEN "value" ELSE "cas"])
    /\ UNCHANGED <<mem, hint, srv, meta>>
    /\ Watch

(* Mutant of CasLock: the lock bit is stored without a comparison.            *)
CasLockBlind(t) ==
    /\ th[t].pc = "cas"
    /\ LET r == th[t]
           b == Cand(r).b
       IN  /\ Write(b, make_locked(mem[b], r.snap))
           /\ Set(t, [r EXCEPT !.pc = IF Kind(r) = "erase" THEN "commit"
                                                          ELSE "write"])
    /\ UNCHANGED <<hint, srv, meta>>
    /\ Watch

(* CXLAtomicCasSync of try_insert_into, try_update_in and try_erase_from.     *)
CasLock(t) ==
    /\ th[t].pc = "cas"
    /\ LET r == th[t]
           b == Cand(r).b
       IN  IF Unmoved(b, r.snap)
             THEN /\ Write(b, make_locked(mem[b], r.snap))
                  /\ Set(t, [r EXCEPT !.pc = IF Kind(r) = "erase" THEN "commit"
                                                                 ELSE "write"])
             ELSE Set(t, Contended(r)) /\ UNCHANGED mem
    /\ UNCHANGED <<hint, srv, meta>>
    /\ Watch

(* The value line, written while the bucket is locked.                        *)
WriteValue(t) ==
    /\ th[t].pc = "write"
    /\ LET r == th[t]
           b == Cand(r).b
           s == Target(r, r.snap.fp)
       IN  /\ mem' = [mem EXCEPT ![b].val[s] = r.item]
           /\ Set(t, [r EXCEPT !.pc = "commit",
                               !.eff = (@ \/ Kind(r) = "update")])
    /\ UNCHANGED <<hint, srv, meta>>
    /\ Watch

(* commit_bucket, unlock_bucket, or the line without the erased fingerprint.  *)
Commit(t) ==
    /\ th[t].pc = "commit"
    /\ LET r == th[t]
           c == Cand(r)
           s == Target(r, r.snap.fp)
           fp == CASE Kind(r) = "insert" -> [r.snap.fp EXCEPT ![s] = r.item.key]
                   [] Kind(r) = "erase" -> [r.snap.fp EXCEPT ![s] = NoKey]
                   [] Kind(r) = "update" -> r.snap.fp
       IN  /\ Write(c.b, set_unlocked(mem[c.b], r.snap, fp))
           /\ Hint(t, c, s, fp[s])
           /\ Set(t, IF Kind(r) = "insert" THEN Placed(r)
                     ELSE [Answer(r, "yes") EXCEPT !.eff = TRUE])
    /\ UNCHANGED <<srv, meta>>
    /\ Watch

(* scan_bucket_slots: read the value without a lock ...                       *)
ReadValue(t) ==
    /\ th[t].pc = "value"
    /\ LET r == th[t]
       IN  Set(t, [r EXCEPT !.pc = "verify",
                     !.got = mem[Cand(r).b].val[Target(r, r.snap.fp)]])
    /\ UNCHANGED <<mem, hint, srv, meta>>
    /\ Watch

(* ... and check that the line has not changed since it was read and that the *)
(* value is the key's.  A bucket found without the hint is noted in it.       *)
Verify(t) ==
    /\ th[t].pc = "verify"
    /\ LET r == th[t]
           c == Cand(r)
           r0 == [r EXCEPT !.got = NoVal]
           hit == Unmoved(c.b, r.snap) /\ r.got.key = r.item.key
       IN  /\ Set(t, CASE ~Unmoved(c.b, r.snap) -> Contended(r0)
                       [] hit -> [Answer(r, "yes") EXCEPT !.got = r.got.val]
                       [] OTHER -> Advance(r0))
           /\ IF hit /\ ~(r.phase = "scan" /\ Head(r.todo) \in r.hinted)
                THEN Hint(t, c, Target(r, r.snap.fp), r.item.key)
                ELSE UNCHANGED hint
    /\ UNCHANGED <<mem, srv, meta>>
    /\ Watch

(* A server stops between locking a bucket and unlocking it, outside of a     *)
(* displacement or migration step.                                            *)
CrashLocked(t) ==
    /\ th[t].pc \in {"write", "commit"} /\ th[t].mig = NoMig
    /\ Set(t, [th[t] EXCEPT !.pc = "dead"])
    /\ UNCHANGED <<mem, hint, srv, meta>>
    /\ Watch

(* wait_for_unlock after max_spins: take the lock away, whoever holds it.     *)
ForceClear(t) ==
    /\ th[t].pc = "read" /\ th[t].phase = "retry"
    /\ LET b == Cand(th[t]).b
       IN  /\ mem[b].dirty
           /\ TimelyHolders => \E u \in Threads : th[u].pc = "dead" /\ Cand(th[u]).b = b
           /\ Write(b, [mem[b] EXCEPT !.dirty = FALSE])
    /\ UNCHANGED <<hint, srv, th, meta>>
    /\ Watch

(*---------------------------------------------------------------------------*)
(* Displacement: same_level_movement_and_place and b2t_movement_and_place.    *)
(* The last frame of the stack is the one at work; a frame below it waits for *)
(* its victim to be placed.                                                   *)

Pop(stack) == SubSeq(stack, 1, Len(stack) - 1)
WithTop(r, f, pc) == [r EXCEPT !.stack = Append(Pop(r.stack), f), !.pc = pc]
Push(r, f) == [r EXCEPT !.stack = Append(@, f), !.pc = "mread"]

(* The next slot, or for a promotion the victim's second bucket first.        *)
NextVictim(r) ==
    LET f == Top(r)
    IN  WithTop(r, IF f.kind = "b2t" /\ f.ti = 1
                     THEN [f EXCEPT !.ti = 2]
                     ELSE [f EXCEPT !.slot = @ + 1, !.ti = 1], "victim")

(* The frame could not place its entry.  A second displacement on the bottom  *)
(* level is then tried as a promotion; otherwise the waiting frame goes on.   *)
Fail(r) ==
    LET f == Top(r)
        below == [r EXCEPT !.stack = Pop(@)]
    IN  CASE Len(r.stack) = 1 -> NextDisplacement([r EXCEPT !.stack = <<>>])
          [] Len(r.stack) = 2 /\ f.kind = "same" /\ f.lvl = 1 ->
               Push(below, Frame("b2t", [lvl |-> 1, b |-> f.b], f.item, FALSE))
          [] OTHER -> NextVictim(below)

(* Mutant of MoveRead: wait for a locked bucket.                              *)
MoveReadWaits(t) ==
    /\ th[t].pc = "mread"
    /\ LET r == th[t]
           f == Top(r)
       IN  /\ ~mem[f.b].dirty
           /\ Set(t, WithTop(r, [f EXCEPT !.snap = Line(f.b)], "mcas"))
    /\ UNCHANGED <<mem, hint, srv, meta>>
    /\ Watch

(* The line of the frame's bucket: a locked one ends the frame.               *)
MoveRead(t) ==
    /\ th[t].pc = "mread"
    /\ LET r == th[t]
           f == Top(r)
       IN  Set(t, IF mem[f.b].dirty
                    THEN Fail(r)
                    ELSE WithTop(r, [f EXCEPT !.snap = Line(f.b)], "mcas"))
    /\ UNCHANGED <<mem, hint, srv, meta>>
    /\ Watch

MoveLock(t) ==
    /\ th[t].pc = "mcas"
    /\ LET r == th[t]
           f == Top(r)
       IN  IF Unmoved(f.b, f.snap)
             THEN /\ Write(f.b, make_locked(mem[f.b], f.snap))
                  /\ Set(t, [r EXCEPT !.pc = "victim"])
             ELSE Set(t, Fail(r)) /\ UNCHANGED mem
    /\ UNCHANGED <<hint, srv, meta>>
    /\ Watch

Victims(f) == {s \in f.slot .. Slots : f.snap.fp[s] # NoKey}

(* No slot left: unlock the bucket.                                           *)
NoVictim(t) ==
    /\ th[t].pc = "victim"
    /\ LET f == Top(th[t])
       IN  /\ Victims(f) = {}
           /\ Write(f.b, set_unlocked(mem[f.b], f.snap, f.snap.fp))
           /\ Set(t, Fail(th[t]))
    /\ UNCHANGED <<hint, srv, meta>>
    /\ Watch

(* Read the bucket the next occupant could go to.                             *)
PickVictim(t) ==
    /\ th[t].pc = "victim"
    /\ LET r == th[t]
           f0 == Top(r)
       IN  /\ Victims(f0) # {}
           /\ LET s == CHOOSE x \in Victims(f0) : \A y \in Victims(f0) : x <= y
                  f == [f0 EXCEPT !.slot = s]
                  v == mem[f.b].val[s]
                  tl == f.b[1] + 1
                  alt == CASE f.kind = "same" -> Alternate(v.key, f.b)
                           [] f.kind = "b2t" /\ f.ti = 1 -> <<tl, FIdx(v.key, tl)>>
                           [] OTHER -> <<tl, SIdx(v.key, tl)>>
                  lvl == IF f.kind = "same" THEN f.lvl ELSE 0
                  full == find_empty_slot(mem[alt].fp) = 0
                  r1 == WithTop(r, f, "victim")
              IN  Set(t,
                    CASE mem[alt].dirty \/ (full /\ ~f.extra) -> NextVictim(r1)
                      [] ~mem[alt].dirty /\ full /\ f.extra ->
                           Push(r1, Frame("same", [lvl |-> lvl, b |-> alt], v, FALSE))
                      [] OTHER -> WithTop(r, [f EXCEPT !.alt = alt,
                                                !.asnap = Line(alt)], "altcas"))
    /\ UNCHANGED <<mem, hint, srv, meta>>
    /\ Watch

LockAlternate(t) ==
    /\ th[t].pc = "altcas"
    /\ LET f == Top(th[t])
       IN  IF Unmoved(f.alt, f.asnap)
             THEN /\ Write(f.alt, make_locked(mem[f.alt], f.asnap))
                  /\ Set(t, [th[t] EXCEPT !.pc = "altput"])
             ELSE Set(t, NextVictim(th[t])) /\ UNCHANGED mem
    /\ UNCHANGED <<hint, srv, meta>>
    /\ Watch

(* Mutant of MoveVictim: the victim's copy is not committed.                  *)
MoveVictimForgotten(t) ==
    /\ th[t].pc = "altput"
    /\ LET f == Top(th[t])
       IN  Write(f.alt, set_unlocked(mem[f.alt], f.asnap, f.asnap.fp))
    /\ Set(t, [th[t] EXCEPT !.pc = "srcput"])
    /\ UNCHANGED <<hint, srv, meta>>
    /\ Watch

(* The victim's value and fingerprint in its new bucket, which is unlocked:   *)
(* from here to CommitSource the victim is in two buckets.                    *)
MoveVictim(t) ==
    /\ th[t].pc = "altput"
    /\ LET f == Top(th[t])
           a == find_empty_slot(f.asnap.fp)
           k == f.snap.fp[f.slot]
           m == [mem[f.alt] EXCEPT !.val[a] = mem[f.b].val[f.slot]]
       IN  /\ Write(f.alt, set_unlocked(m, f.asnap, [f.asnap.fp EXCEPT ![a] = k]))
           /\ Hint(t, [lvl |-> IF f.kind = "same" THEN f.lvl ELSE 0, b |-> f.alt],
                   a, k)
           /\ Set(t, [th[t] EXCEPT !.pc = "srcput"])
    /\ UNCHANGED <<srv, meta>>
    /\ Watch

WriteSource(t) ==
    /\ th[t].pc = "srcput"
    /\ LET f == Top(th[t])
       IN  mem' = [mem EXCEPT ![f.b].val[f.slot] = f.item]
    /\ Set(t, [th[t] EXCEPT !.pc = "srccommit"])
    /\ UNCHANGED <<hint, srv, meta>>
    /\ Watch

(* The frame's entry replaces its victim.  A frame that placed the victim of  *)
(* another one hands over to it.                                              *)
CommitSource(t) ==
    /\ th[t].pc = "srccommit"
    /\ LET r == th[t]
           f == Top(r)
           fp == [f.snap.fp EXCEPT ![f.slot] = f.item.key]
       IN  /\ Write(f.b, set_unlocked(mem[f.b], f.snap, fp))
           /\ Hint(t, [lvl |-> f.lvl, b |-> f.b], f.slot, f.item.key)
           /\ Set(t, IF Len(r.stack) = 1
                       THEN Placed(r)
                       ELSE [r EXCEPT !.stack = Pop(@), !.pc = "srcput"])
    /\ UNCHANGED <<srv, meta>>
    /\ Watch

ProbeStep(t) ==
    \/ Read(t) \/ CasLock(t) \/ WriteValue(t) \/ Commit(t)
    \/ ReadValue(t) \/ Verify(t) \/ CrashLocked(t) \/ ForceClear(t)

MoveStep(t) ==
    \/ MoveRead(t) \/ MoveLock(t) \/ NoVictim(t) \/ PickVictim(t)
    \/ LockAlternate(t) \/ MoveVictim(t) \/ WriteSource(t) \/ CommitSource(t)

=============================================================================
