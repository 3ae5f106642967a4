---------------------------- MODULE HashtableLocks ----------------------------
(***************************************************************************)
(* Bucket locks of module HashtableResize, for every number of servers,      *)
(* threads, buckets and slots, every placement of the keys and every mix of  *)
(* calls: a locked bucket is some thread's to unlock, and no bucket is two   *)
(* threads' (LocksHaveOneHolder).                                            *)
(*                                                                          *)
(* A thread may hold up to four buckets: the old bucket it migrates, the     *)
(* source buckets of two nested displacements, and the bucket a victim goes  *)
(* to.  The inductive invariant has three parts: what a thread's program     *)
(* counter says about the locks it holds and that these are different        *)
(* buckets (ThreadInv), that the lock bit is set for exactly the buckets     *)
(* held, and that two threads never hold the same one.  A bucket whose       *)
(* holder stopped is exempt from the last two: wait_for_unlock takes its     *)
(* lock away, and cannot tell whether it takes it from the dead or from the  *)
(* next holder.                                                              *)
(***************************************************************************)
EXTENDS HashtableResize, FiniteSetTheorems, SequenceTheorems, TLAPS

(* Leaves are Zenon's unless they name SMT.                                   *)
USE ZenonT(30)

RestPcs == {"idle", "pre", "ctrl_migrating", "ctrl", "wait", "end", "join", "adopt",
            "cands", "full", "refresh", "follow", "early", "layout", "lost", "switch",
            "post", "final", "publish", "return"}
MovePcs == {"mread", "mcas", "victim", "altcas", "altput", "srcput", "srccommit"}

(* The parts of a thread's record that its locks depend on.                   *)
Fields(r) ==
    /\ {"pc", "stack", "mig", "cands", "todo", "phase"} \subseteq DOMAIN r
    /\ r.phase \in {"scan", "retry", "rescan"}
    /\ r.mig = NoMig \/ ({"b", "slot"} \subseteq DOMAIN r.mig /\ r.mig.slot \in Nat \ {0})

IsFrame(f) == {"b", "alt", "extra"} \subseteq DOMAIN f

(* The bucket a migration step has locked.                                    *)
MigHolds(r, b) == r.mig # NoMig /\ r.mig.b = b

(* Holds, for a thread's record.                                              *)
HoldsR(r, b) ==
    \/ r.pc \in {"write", "commit", "dead"} /\ Cand(r).b = b
    \/ \E i \in 1 .. Len(r.stack) :
          /\ r.stack[i].b = b
          /\ i < Len(r.stack) \/ r.pc \notin {"mread", "mcas"}
    \/ r.pc = "altput" /\ Top(r).alt = b
    \/ r.mig # NoMig /\ r.mig.b = b /\ r.pc # "migcas"

(* Between operations and in the resize protocol: no lock.                    *)
Resting(r) == r.pc \in RestPcs /\ r.stack = <<>> /\ r.mig = NoMig

(* In migrate_step, before and after the entries are placed.                  *)
AtOldBucket(r) == r.pc \in {"migcas", "migslot"} /\ r.stack = <<>> /\ r.mig # NoMig

(* In a probe loop.  G are the buckets no thread died holding.                *)
Probing(r, G) ==
    /\ r.pc \in {"read", "cas", "write", "commit", "value", "verify", "dead"}
    /\ r.stack = <<>>
    /\ r.pc \in {"value", "verify", "dead"} => r.mig = NoMig
    /\ r.pc \in {"write", "commit"} /\ Cand(r).b \in G => ~MigHolds(r, Cand(r).b)

(* In a displacement, with one frame ...                                      *)
TopHeld(r) == r.pc \notin {"mread", "mcas"}
Moving(r, G) ==
    LET f == r.stack[1]
    IN  /\ r.pc \in MovePcs
        /\ r.stack = <<f>> /\ IsFrame(f)
        /\ TopHeld(r) /\ f.b \in G => ~MigHolds(r, f.b)
        /\ r.pc = "altput" /\ f.alt \in G => f.alt # f.b /\ ~MigHolds(r, f.alt)

(* ... or with a second one, which moves the victim of the first further.     *)
MovingTwice(r, G) ==
    LET f == r.stack[1]
        g == r.stack[2]
    IN  /\ r.pc \in MovePcs
        /\ r.stack = <<f, g>> /\ IsFrame(f) /\ IsFrame(g) /\ ~g.extra
        /\ f.b \in G => ~MigHolds(r, f.b)
        /\ TopHeld(r) /\ g.b \in G => g.b # f.b /\ ~MigHolds(r, g.b)
        /\ r.pc = "altput" /\ g.alt \in G =>
              g.alt # f.b /\ g.alt # g.b /\ ~MigHolds(r, g.alt)

Displacing(r, G) == Moving(r, G) \/ MovingTwice(r, G)

ThreadInv(r, G) ==
    /\ Fields(r)
    /\ Resting(r) \/ AtOldBucket(r) \/ Probing(r, G) \/ Displacing(r, G)

DiedHolding(b) == \E u \in Threads : th[u].pc = "dead" /\ Cand(th[u]).b = b
Good == {b \in Buckets : ~DiedHolding(b)}

TableInv ==
    /\ DOMAIN th = Threads
    /\ DOMAIN mem = Buckets
    /\ \A b \in Buckets : "dirty" \in DOMAIN mem[b]

LockInv ==
    /\ \A b \in Buckets : mem[b].dirty => \E t \in Threads : HoldsR(th[t], b)
    /\ \A b \in Good, t \in Threads : HoldsR(th[t], b) => mem[b].dirty
    /\ \A b \in Good, t, u \in Threads : HoldsR(th[t], b) /\ HoldsR(th[u], b) => t = u

ThreadsInv == \A t \in Threads : ThreadInv(th[t], Good)

IInv == TableInv /\ ThreadsInv /\ LockInv

(*---------------------------------------------------------------------------*)
(* Records and stacks.                                                       *)

(* The sequence operators on stacks of one and of two frames.                 *)
LEMMA AppendNone ==
    ASSUME NEW f
    PROVE  Append(<<>>, f) = <<f>>
<1> DEFINE S == {f}
<1>1. <<>> \in Seq(S) /\ <<f>> \in Seq(S) /\ f \in S
  BY SMT
<1>2. Append(<<>>, f) \in Seq(S) /\ Len(Append(<<>>, f)) = 1 /\ Append(<<>>, f)[1] = f
  BY SMT, <1>1
<1> HIDE DEF S
<1> QED BY SMT, <1>1, <1>2, SeqEqual

LEMMA AppendOne ==
    ASSUME NEW f, NEW g
    PROVE  Append(<<f>>, g) = <<f, g>>
<1> DEFINE S == {f, g}
<1>1. <<f>> \in Seq(S) /\ <<f, g>> \in Seq(S) /\ g \in S
  BY SMT
<1>2. /\ Append(<<f>>, g) \in Seq(S) /\ Len(Append(<<f>>, g)) = 2
      /\ Append(<<f>>, g)[1] = f /\ Append(<<f>>, g)[2] = g
  BY SMT, <1>1
<1>3. Len(<<f, g>>) = 2 /\ <<f, g>>[1] = f /\ <<f, g>>[2] = g
  OBVIOUS
<1>4. \A i \in 1 .. 2 : Append(<<f>>, g)[i] = <<f, g>>[i]
  BY SMT, <1>2, <1>3
<1> HIDE DEF S
<1> QED BY <1>1, <1>2, <1>3, <1>4, SeqEqual

LEMMA StackOne ==
    ASSUME NEW f
    PROVE  /\ Len(<<f>>) = 1 /\ <<f>>[1] = f
           /\ Pop(<<f>>) = <<>>
<1>1. Len(<<f>>) = 1 /\ <<f>>[1] = f
  OBVIOUS
<1> QED BY SMT, <1>1, SubSeqEmpty DEF Pop

LEMMA StackTwo ==
    ASSUME NEW f, NEW g
    PROVE  /\ Len(<<f, g>>) = 2 /\ <<f, g>>[1] = f /\ <<f, g>>[2] = g
           /\ Pop(<<f, g>>) = <<f>>
<1> DEFINE S == {f, g}
           s == <<f, g>>
<1>1. Len(s) = 2 /\ s[1] = f /\ s[2] = g
  OBVIOUS
<1>3. s[1] \in S /\ <<f>> \in Seq(S) /\ Len(<<f>>) = 1 /\ <<f>>[1] = f
  BY SMT, <1>1
<1>4. Pop(s) = SubSeq(s, 1, 1)
  BY SMT, <1>1 DEF Pop
<1> HIDE DEF S, s
<1>5. /\ SubSeq(s, 1, 1) \in Seq(S) /\ Len(SubSeq(s, 1, 1)) = 1
      /\ SubSeq(s, 1, 1)[1] = s[1]
  BY SMT, <1>3, SubSeqProperties
<1>6. \A i \in 1 .. 1 : SubSeq(s, 1, 1)[i] = <<f>>[i]
  BY SMT, <1>1, <1>3, <1>5
<1>7. SubSeq(s, 1, 1) = <<f>>
  BY <1>3, <1>5, <1>6, SeqEqual
<1> QED BY <1>1, <1>4, <1>7 DEF s

(* The locks of a thread, by the shape of its stack.                          *)
LEMMA HoldsNoFrame ==
    ASSUME NEW r, NEW b, r.stack = <<>>, r.pc # "altput"
    PROVE  HoldsR(r, b) <=> \/ r.pc \in {"write", "commit", "dead"} /\ Cand(r).b = b
                            \/ MigHolds(r, b) /\ r.pc # "migcas"
<1>1. Len(r.stack) = 0
  BY SMT
<1> QED BY SMT, <1>1 DEF HoldsR, MigHolds

LEMMA HoldsOneFrame ==
    ASSUME NEW r, NEW b, NEW f, r.stack = <<f>>, r.pc \in MovePcs
    PROVE  HoldsR(r, b) <=> \/ TopHeld(r) /\ f.b = b
                            \/ r.pc = "altput" /\ f.alt = b
                            \/ MigHolds(r, b)
<1>1. Len(r.stack) = 1 /\ r.stack[1] = f /\ Top(r) = f
  BY StackOne DEF Top
<1>2. 1 .. Len(r.stack) = {1}
  BY SMT, <1>1
<1> QED BY SMT, <1>1, <1>2 DEF HoldsR, MigHolds, MovePcs, TopHeld

LEMMA HoldsTwoFrames ==
    ASSUME NEW r, NEW b, NEW f, NEW g, r.stack = <<f, g>>, r.pc \in MovePcs
    PROVE  HoldsR(r, b) <=> \/ f.b = b
                            \/ TopHeld(r) /\ g.b = b
                            \/ r.pc = "altput" /\ g.alt = b
                            \/ MigHolds(r, b)
<1>1. Len(r.stack) = 2 /\ r.stack[1] = f /\ r.stack[2] = g /\ Top(r) = g
  BY SMT, StackTwo DEF Top
<1>2. 1 .. Len(r.stack) = {1, 2}
  BY SMT, <1>1
<1> QED BY SMT, <1>1, <1>2 DEF HoldsR, MigHolds, MovePcs, TopHeld

(*---------------------------------------------------------------------------*)
(* The ends of a probe and of a displacement.                                *)

(* The thread is left with the lock of its migration step only.               *)
Settled(r2, r, G) ==
    /\ ThreadInv(r2, G) /\ r2.pc # "dead"
    /\ \A b \in G : HoldsR(r2, b) <=> MigHolds(r, b)

(* Leave changes the program counter and forgets the frames.                  *)
LEMMA LeaveShape ==
    ASSUME NEW r, Fields(r), NEW pc
    PROVE  /\ Fields(Leave(r, pc))
           /\ Leave(r, pc).pc = pc /\ Leave(r, pc).stack = <<>>
           /\ Leave(r, pc).mig = r.mig
BY DEF Fields, Leave

(* Answer is given outside of a migration step.                               *)
LEMMA AnswerSettled ==
    ASSUME NEW G, NEW r, Fields(r), r.mig = NoMig, NEW res,
           NEW r2, \/ r2 = Answer(r, res)
                   \/ \E e : r2 = [Answer(r, res) EXCEPT !.eff = e]
                   \/ \E v : r2 = [Answer(r, res) EXCEPT !.got = v]
    PROVE  Settled(r2, r, G)
<1>1. /\ Fields(Leave(r, "post")) /\ Leave(r, "post").pc = "post"
      /\ Leave(r, "post").stack = <<>> /\ Leave(r, "post").mig = NoMig
  BY LeaveShape
<1>2. Fields(r2) /\ r2.pc = "post" /\ r2.stack = <<>> /\ r2.mig = NoMig
  <2> HIDE DEF Leave
  <2> QED BY <1>1 DEF Fields, Answer
<1>3. \A b \in G : HoldsR(r2, b) <=> MigHolds(r, b)
  BY <1>2, HoldsNoFrame DEF MigHolds
<1> QED BY <1>2, <1>3 DEF Settled, ThreadInv, Resting, RestPcs

LEMMA NoMigSlot == \A g : g.slot \in Nat \ {0} => g # NoMig
BY SMT DEF NoMig

(* The migration step goes on with its next slot.                             *)
LEMMA NextSlotSettled ==
    ASSUME NEW G, NEW r, Fields(r), r.mig # NoMig,
           NEW g, {"b", "slot"} \subseteq DOMAIN g, g.b = r.mig.b,
           g.slot = r.mig.slot + 1
    PROVE  Settled([Leave(r, "migslot") EXCEPT !.mig = g], r, G)
<1> DEFINE l == Leave(r, "migslot")
           r2 == [l EXCEPT !.mig = g]
<1>1. Fields(l) /\ l.pc = "migslot" /\ l.stack = <<>> /\ l.mig = r.mig
  BY LeaveShape
<1>2. g.slot \in Nat \ {0}
  <2>1. r.mig.slot \in Nat
    BY DEF Fields
  <2> QED BY SMT, <2>1
<1>3. g # NoMig
  BY <1>2, NoMigSlot
<1> HIDE DEF l
<1>4. Fields(r2) /\ r2.pc = "migslot" /\ r2.stack = <<>> /\ r2.mig = g
  BY <1>1, <1>2 DEF Fields
<1> HIDE DEF r2
<1>5. \A b \in G : HoldsR(r2, b) <=> MigHolds(r, b)
  BY <1>3, <1>4, HoldsNoFrame DEF MigHolds
<1>6. Settled(r2, r, G)
  BY <1>3, <1>4, <1>5 DEF Settled, ThreadInv, AtOldBucket
<1> QED BY <1>6 DEF r2, l

LEMMA PlacedSettled ==
    ASSUME NEW G, NEW r, Fields(r)
    PROVE  Settled(Placed(r), r, G)
<1>1. CASE r.mig = NoMig
  <2>1. Placed(r) = [Answer(r, "yes") EXCEPT !.eff = TRUE]
    BY <1>1 DEF Placed
  <2> QED BY <1>1, <2>1, AnswerSettled
<1>2. CASE r.mig # NoMig
  <2> DEFINE l == Leave(r, "migslot")
             g == [r.mig EXCEPT !.done = @ \cup {r.mig.slot}, !.slot = @ + 1]
  <2>1. {"b", "slot"} \subseteq DOMAIN r.mig /\ r.mig = l.mig
    BY <1>2, LeaveShape DEF Fields
  <2>2. {"b", "slot"} \subseteq DOMAIN g /\ g.b = r.mig.b /\ g.slot = r.mig.slot + 1
    BY <2>1
  <2> HIDE DEF l
  <2>3. Placed(r) = [l EXCEPT !.mig = g]
    BY <1>2, <2>1 DEF Placed, l
  <2> HIDE DEF g
  <2> QED BY SMT, <1>2, <2>2, <2>3, NextSlotSettled DEF l
<1> QED BY <1>1, <1>2

LEMMA NoRoomSettled ==
    ASSUME NEW G, NEW r, Fields(r)
    PROVE  Settled(NoRoom(r), r, G)
<1>1. CASE r.mig = NoMig
  <2> DEFINE r2 == NoRoom(r)
  <2>1. Fields(r2) /\ r2.pc = "full" /\ r2.stack = <<>> /\ r2.mig = NoMig
    BY <1>1, LeaveShape DEF NoRoom
  <2> HIDE DEF r2
  <2>2. \A b \in G : HoldsR(r2, b) <=> MigHolds(r, b)
    BY <1>1, <2>1, HoldsNoFrame DEF MigHolds
  <2> QED BY <2>1, <2>2 DEF Settled, ThreadInv, Resting, RestPcs, r2
<1>2. CASE r.mig # NoMig
  <2> DEFINE l == Leave(r, "migslot")
             g == [r.mig EXCEPT !.slot = @ + 1]
  <2>1. {"b", "slot"} \subseteq DOMAIN r.mig /\ r.mig = l.mig
    BY <1>2, LeaveShape DEF Fields
  <2>2. {"b", "slot"} \subseteq DOMAIN g /\ g.b = r.mig.b /\ g.slot = r.mig.slot + 1
    BY <2>1
  <2> HIDE DEF l
  <2>3. NoRoom(r) = [l EXCEPT !.mig = g]
    BY <1>2, <2>1 DEF NoRoom, l
  <2> HIDE DEF g
  <2> QED BY SMT, <1>2, <2>2, <2>3, NextSlotSettled DEF l
<1> QED BY <1>1, <1>2

LEMMA FrameShape ==
    ASSUME NEW kind, NEW c, NEW item, NEW extra
    PROVE  /\ IsFrame(Frame(kind, c, item, extra))
           /\ Frame(kind, c, item, extra).b = c.b
           /\ Frame(kind, c, item, extra).extra = extra
BY DEF IsFrame, Frame

(* A new displacement starts without a lock.                                  *)
LEMMA NextDisplacementSettled ==
    ASSUME NEW G, NEW r, Fields(r)
    PROVE  Settled(NextDisplacement(r), r, G)
<1>1. CASE r.tasks = <<>>
  BY <1>1, NoRoomSettled DEF NextDisplacement
<1>2. CASE r.tasks # <<>>
  <2> DEFINE d == Head(r.tasks)
             f == Frame(d.kind, d.c, r.item, d.extra)
             r2 == NextDisplacement(r)
  <2>1. IsFrame(f)
    BY FrameShape
  <2> HIDE DEF f
  <2>2. r2 = [r EXCEPT !.pc = "mread", !.tasks = Tail(@), !.stack = <<f>>]
    BY <1>2 DEF NextDisplacement, f
  <2> HIDE DEF r2
  <2>3. Fields(r2) /\ r2.pc = "mread" /\ r2.stack = <<f>> /\ r2.mig = r.mig
    BY <2>2 DEF Fields
  <2>4. r2.stack[1] = f
    BY <2>3, StackOne
  <2>5. Moving(r2, G)
    BY <2>1, <2>3, <2>4 DEF Moving, MovePcs, TopHeld
  <2>6. \A b \in G : HoldsR(r2, b) <=> MigHolds(r, b)
    BY SMT, <2>3, HoldsOneFrame DEF MovePcs, TopHeld, MigHolds
  <2> QED BY <2>3, <2>5, <2>6 DEF Settled, ThreadInv, Displacing, r2
<1> QED BY <1>1, <1>2

(* Back to reading a candidate.                                               *)
LEMMA ReadingSettled ==
    ASSUME NEW G, NEW r, NEW r2, Fields(r2), r2.pc = "read", r2.stack = <<>>,
           r2.mig = r.mig
    PROVE  Settled(r2, r, G)
<1>1. \A b \in G : HoldsR(r2, b) <=> MigHolds(r, b)
  BY HoldsNoFrame DEF MigHolds
<1> QED BY <1>1 DEF Settled, ThreadInv, Probing

LEMMA NextPhaseSettled ==
    ASSUME NEW G, NEW r, Fields(r), r.stack = <<>>
    PROVE  Settled(NextPhase(r), r, G)
<1> DEFINE r2 == NextPhase(r)
<1>1. CASE r.phase = "scan" /\ r.busy # {}
  <2>1. r2 = [r EXCEPT !.phase = "retry", !.pc = "read", !.busy = {}, !.retry = 0,
                       !.todo = Positions(r.cands, r.busy)]
    BY <1>1 DEF NextPhase
  <2> HIDE DEF r2
  <2>2. Fields(r2) /\ r2.pc = "read" /\ r2.stack = <<>> /\ r2.mig = r.mig
    BY <2>1 DEF Fields
  <2> QED BY <2>2, ReadingSettled DEF r2
<1>2. CASE r.phase = "retry" /\ r.oldc
  <2>1. r2 = [r EXCEPT !.phase = "rescan", !.pc = "read",
                       !.todo = Positions(r.cands, NewLevel(r.cands))]
    BY <1>2 DEF NextPhase
  <2> HIDE DEF r2
  <2>2. Fields(r2) /\ r2.pc = "read" /\ r2.stack = <<>> /\ r2.mig = r.mig
    BY <2>1 DEF Fields
  <2> QED BY <2>2, ReadingSettled DEF r2
<1>3. CASE ~(r.phase = "scan" /\ r.busy # {}) /\ ~(r.phase = "retry" /\ r.oldc)
  <2>1. CASE Kind(r) = "insert"
    <3> DEFINE r1 == [r EXCEPT !.tasks = Displacements(r)]
    <3>1. NextPhase(r) = NextDisplacement(r1)
      BY <1>3, <2>1 DEF NextPhase
    <3>2. Fields(r1) /\ r1.mig = r.mig
      BY DEF Fields
    <3> HIDE DEF r1
    <3> QED BY <3>1, <3>2, NextDisplacementSettled DEF Settled, MigHolds
  <2>2. CASE Kind(r) # "insert"
    <3>1. NextPhase(r) = Answer(r, "no") /\ r.mig = NoMig
      BY <1>3, <2>2 DEF NextPhase, Kind
    <3> QED BY <3>1, AnswerSettled
  <2> QED BY <2>1, <2>2
<1> QED BY <1>1, <1>2, <1>3

LEMMA AdvanceSettled ==
    ASSUME NEW G, NEW r, Fields(r), r.stack = <<>>
    PROVE  Settled(Advance(r), r, G)
<1> DEFINE q == Tail(r.todo)
           r1 == [r EXCEPT !.snap = NoSnap]
           r2 == [r EXCEPT !.todo = q, !.pc = "read", !.retry = 0, !.snap = NoSnap]
<1>1. Advance(r) = IF q = <<>> THEN NextPhase(r1) ELSE r2
  BY DEF Advance
<1>2. Fields(r1) /\ r1.stack = <<>> /\ r1.mig = r.mig
  BY DEF Fields
<1>3. Fields(r2) /\ r2.stack = <<>> /\ r2.mig = r.mig /\ r2.pc = "read"
  BY DEF Fields
<1> HIDE DEF q, r1, r2
<1>4. Settled(NextPhase(r1), r, G)
  BY <1>2, NextPhaseSettled DEF Settled, MigHolds
<1>5. Settled(r2, r, G)
  BY <1>3, ReadingSettled
<1> QED BY <1>1, <1>4, <1>5

LEMMA ContendedSettled ==
    ASSUME NEW G, NEW r, Fields(r), r.stack = <<>>
    PROVE  Settled(Contended(r), r, G)
<1>1. CASE r.phase = "scan"
  <2> DEFINE r1 == [r EXCEPT !.busy = @ \cup {Head(r.todo)},
                             !.oldc = @ \/ Cand(r).lvl = 2]
  <2>1. Contended(r) = Advance(r1)
    BY <1>1 DEF Contended
  <2>2. Fields(r1) /\ r1.stack = <<>> /\ r1.mig = r.mig
    BY DEF Fields
  <2> HIDE DEF r1
  <2> QED BY <2>1, <2>2, AdvanceSettled DEF Settled, MigHolds
<1>2. CASE r.phase = "retry"
  <2>1. CASE Kind(r) = "insert" /\ r.retry = 2
    <3>1. Contended(r) = Advance(r)
      BY <1>2, <2>1 DEF Contended
    <3> QED BY <3>1, AdvanceSettled
  <2>2. CASE ~(Kind(r) = "insert" /\ r.retry = 2)
    <3> DEFINE r2 == [r EXCEPT !.pc = "read", !.snap = NoSnap,
                               !.retry = IF Kind(r) = "insert" THEN @ + 1 ELSE 0]
    <3>1. Contended(r) = r2
      BY <1>2, <2>2 DEF Contended
    <3>2. Fields(r2) /\ r2.stack = <<>> /\ r2.mig = r.mig /\ r2.pc = "read"
      BY DEF Fields
    <3> HIDE DEF r2
    <3> QED BY <3>1, <3>2, ReadingSettled
  <2> QED BY <2>1, <2>2
<1>3. CASE r.phase = "rescan"
  <2> DEFINE r1 == [r EXCEPT !.skipped = TRUE]
  <2>1. Contended(r) = Advance(r1)
    BY <1>3 DEF Contended
  <2>2. Fields(r1) /\ r1.stack = <<>> /\ r1.mig = r.mig
    BY DEF Fields
  <2> HIDE DEF r1
  <2> QED BY <2>1, <2>2, AdvanceSettled DEF Settled, MigHolds
<1> QED BY <1>1, <1>2, <1>3 DEF Fields

(*---------------------------------------------------------------------------*)
(* Displacements.  The thread is left with the source buckets S of its frames *)
(* and the lock of its migration step.                                        *)

Holding(r2, r, S, G) ==
    /\ ThreadInv(r2, G) /\ r2.pc # "dead"
    /\ \A b \in G : HoldsR(r2, b) <=> b \in S \/ MigHolds(r, b)

(* A stack of one frame, and of two: the locks at "victim".                   *)
LEMMA VictimOne ==
    ASSUME NEW G, NEW r, NEW r2, NEW f, Fields(r2), r2.pc = "victim",
           r2.stack = <<f>>, r2.mig = r.mig, IsFrame(f),
           f.b \in G => ~MigHolds(r, f.b)
    PROVE  Holding(r2, r, {f.b}, G)
<1>1. r2.stack[1] = f
  BY StackOne
<1>2. Moving(r2, G)
  BY <1>1 DEF Moving, MovePcs, TopHeld, MigHolds
<1>3. \A b \in G : HoldsR(r2, b) <=> b \in {f.b} \/ MigHolds(r, b)
  BY SMT, HoldsOneFrame DEF MovePcs, TopHeld, MigHolds
<1> QED BY <1>2, <1>3 DEF Holding, ThreadInv, Displacing

LEMMA VictimTwo ==
    ASSUME NEW G, NEW r, NEW r2, NEW f, NEW g, Fields(r2), r2.pc = "victim",
           r2.stack = <<f, g>>, r2.mig = r.mig, IsFrame(f), IsFrame(g), ~g.extra,
           f.b \in G => ~MigHolds(r, f.b),
           g.b \in G => g.b # f.b /\ ~MigHolds(r, g.b)
    PROVE  Holding(r2, r, {f.b, g.b}, G)
<1>1. r2.stack[1] = f /\ r2.stack[2] = g
  BY SMT, StackTwo
<1>2. MovingTwice(r2, G)
  BY <1>1 DEF MovingTwice, MovePcs, TopHeld, MigHolds
<1>3. \A b \in G : HoldsR(r2, b) <=> b \in {f.b, g.b} \/ MigHolds(r, b)
  BY SMT, HoldsTwoFrames DEF MovePcs, TopHeld, MigHolds
<1> QED BY <1>2, <1>3 DEF Holding, ThreadInv, Displacing

(* WithTop replaces the last frame, Push adds one.                            *)
LEMMA WithTopOne ==
    ASSUME NEW r, Fields(r), NEW f0, r.stack = <<f0>>, NEW f, NEW pc
    PROVE  /\ Fields(WithTop(r, f, pc)) /\ WithTop(r, f, pc).pc = pc
           /\ WithTop(r, f, pc).stack = <<f>> /\ WithTop(r, f, pc).mig = r.mig
<1>1. Pop(r.stack) = <<>>
  BY StackOne
<1>2. Append(Pop(r.stack), f) = <<f>>
  BY <1>1, AppendNone
<1> QED BY <1>2 DEF WithTop, Fields

LEMMA WithTopTwo ==
    ASSUME NEW r, Fields(r), NEW f0, NEW g0, r.stack = <<f0, g0>>, NEW g, NEW pc
    PROVE  /\ Fields(WithTop(r, g, pc)) /\ WithTop(r, g, pc).pc = pc
           /\ WithTop(r, g, pc).stack = <<f0, g>> /\ WithTop(r, g, pc).mig = r.mig
<1>1. Pop(r.stack) = <<f0>>
  BY SMT, StackTwo
<1>2. Append(<<f0>>, g) = <<f0, g>>
  BY AppendOne
<1>3. Append(Pop(r.stack), g) = <<f0, g>>
  BY <1>1, <1>2
<1> QED BY <1>3 DEF WithTop, Fields

(* A second frame starts without a lock.                                      *)
LEMMA PushHolding ==
    ASSUME NEW G, NEW r, Fields(r), NEW f, r.stack = <<f>>, IsFrame(f),
           f.b \in G => ~MigHolds(r, f.b),
           NEW g, IsFrame(g), ~g.extra
    PROVE  Holding(Push(r, g), r, {f.b}, G)
<1> DEFINE r2 == Push(r, g)
<1>1. Append(r.stack, g) = <<f, g>>
  BY AppendOne
<1>2. Fields(r2) /\ r2.pc = "mread" /\ r2.stack = <<f, g>> /\ r2.mig = r.mig
  BY <1>1 DEF Push, Fields
<1>3. r2.stack[1] = f /\ r2.stack[2] = g
  BY SMT, <1>2, StackTwo
<1> HIDE DEF r2
<1>4. MovingTwice(r2, G)
  BY <1>2, <1>3 DEF MovingTwice, MovePcs, TopHeld, MigHolds
<1>5. \A b \in G : HoldsR(r2, b) <=> b \in {f.b} \/ MigHolds(r, b)
  BY SMT, <1>2, HoldsTwoFrames DEF MovePcs, TopHeld, MigHolds
<1>6. Holding(r2, r, {f.b}, G)
  BY <1>2, <1>4, <1>5 DEF Holding, ThreadInv, Displacing
<1> QED BY <1>6 DEF r2

(* The next victim of the frame at work.                                      *)
Later(f) == IF f.kind = "b2t" /\ f.ti = 1 THEN [f EXCEPT !.ti = 2]
            ELSE [f EXCEPT !.slot = @ + 1, !.ti = 1]

LEMMA LaterShape ==
    ASSUME NEW f, IsFrame(f)
    PROVE  IsFrame(Later(f)) /\ Later(f).b = f.b /\ Later(f).extra = f.extra
BY DEF IsFrame, Later

LEMMA NextVictimOne ==
    ASSUME NEW G, NEW r, Fields(r), NEW f, r.stack = <<f>>, IsFrame(f),
           f.b \in G => ~MigHolds(r, f.b)
    PROVE  Holding(NextVictim(r), r, {f.b}, G)
<1>0. Top(r) = f
  BY StackOne DEF Top
<1>1. NextVictim(r) = WithTop(r, Later(f), "victim")
  BY <1>0 DEF NextVictim, Later
<1>2. IsFrame(Later(f)) /\ Later(f).b = f.b
  BY LaterShape
<1> DEFINE r2 == WithTop(r, Later(f), "victim")
<1>3. Fields(r2) /\ r2.pc = "victim" /\ r2.stack = <<Later(f)>> /\ r2.mig = r.mig
  BY SMT, WithTopOne
<1> HIDE DEF r2
<1>4. Holding(r2, r, {Later(f).b}, G)
  BY <1>2, <1>3, VictimOne
<1> QED BY <1>1, <1>2, <1>4 DEF r2

LEMMA NextVictimTwo ==
    ASSUME NEW G, NEW r, Fields(r), NEW f, NEW g, r.stack = <<f, g>>,
           IsFrame(f), IsFrame(g), ~g.extra, f.b \in G => ~MigHolds(r, f.b),
           g.b \in G => g.b # f.b /\ ~MigHolds(r, g.b)
    PROVE  Holding(NextVictim(r), r, {f.b, g.b}, G)
<1>0. Top(r) = g
  BY SMT, StackTwo DEF Top
<1>1. NextVictim(r) = WithTop(r, Later(g), "victim")
  BY <1>0 DEF NextVictim, Later
<1>2. IsFrame(Later(g)) /\ Later(g).b = g.b /\ ~Later(g).extra
  BY LaterShape
<1> DEFINE r2 == WithTop(r, Later(g), "victim")
<1>3. Fields(r2) /\ r2.pc = "victim" /\ r2.stack = <<f, Later(g)>> /\ r2.mig = r.mig
  BY SMT, WithTopTwo
<1> HIDE DEF r2
<1>4. Holding(r2, r, {f.b, Later(g).b}, G)
  BY <1>2, <1>3, VictimTwo
<1> QED BY <1>1, <1>2, <1>4 DEF r2

(* A frame that failed and has no lock of its own any more.                   *)
LEMMA FailOne ==
    ASSUME NEW G, NEW r, Fields(r), NEW f, r.stack = <<f>>
    PROVE  Settled(Fail(r), r, G)
<1> DEFINE r1 == [r EXCEPT !.stack = <<>>]
<1>1. Len(r.stack) = 1
  BY StackOne
<1>2. Fail(r) = NextDisplacement(r1)
  BY SMT, <1>1 DEF Fail
<1>3. Fields(r1) /\ r1.mig = r.mig
  BY DEF Fields
<1> HIDE DEF r1
<1> QED BY <1>2, <1>3, NextDisplacementSettled DEF Settled, MigHolds

LEMMA FailTwo ==
    ASSUME NEW G, NEW r, Fields(r), NEW f, NEW g, r.stack = <<f, g>>, IsFrame(f),
           f.b \in G => ~MigHolds(r, f.b)
    PROVE  Holding(Fail(r), r, {f.b}, G)
<1> DEFINE below == [r EXCEPT !.stack = Pop(@)]
           h == Frame("b2t", [lvl |-> 1, b |-> g.b], g.item, FALSE)
<1>1. Len(r.stack) = 2 /\ Pop(r.stack) = <<f>> /\ Top(r) = g
  BY SMT, StackTwo DEF Top
<1>2. Fields(below) /\ below.stack = <<f>> /\ below.mig = r.mig
  BY <1>1 DEF Fields
<1>3. Fail(r) = IF g.kind = "same" /\ g.lvl = 1 THEN Push(below, h) ELSE NextVictim(below)
  BY SMT, <1>1 DEF Fail
<1>4. IsFrame(h) /\ h.extra = FALSE
  BY DEF IsFrame, Frame
<1> HIDE DEF below, h
<1>5. Holding(Push(below, h), r, {f.b}, G)
  BY SMT, <1>2, <1>4, PushHolding DEF Holding, MigHolds
<1>6. Holding(NextVictim(below), r, {f.b}, G)
  BY SMT, <1>2, NextVictimOne DEF Holding, MigHolds
<1> QED BY <1>3, <1>5, <1>6

(* One or two frames alike: the bucket of the frame that waits, and what a    *)
(* displacing thread holds.                                                   *)
Below(r) == IF Len(r.stack) = 2 THEN {r.stack[1].b} ELSE {}

LEMMA MoveLocks ==
    ASSUME NEW G, NEW r, Fields(r), Displacing(r, G)
    PROVE  /\ r.pc \in MovePcs /\ IsFrame(Top(r))
           /\ \A b : HoldsR(r, b) <=> \/ b \in Below(r)
                                      \/ TopHeld(r) /\ Top(r).b = b
                                      \/ r.pc = "altput" /\ Top(r).alt = b
                                      \/ MigHolds(r, b)
           /\ TopHeld(r) /\ Top(r).b \in G =>
                 Top(r).b \notin Below(r) /\ ~MigHolds(r, Top(r).b)
           /\ r.pc = "altput" /\ Top(r).alt \in G =>
                 Top(r).alt \notin Below(r) \cup {Top(r).b} /\ ~MigHolds(r, Top(r).alt)
<1>1. CASE Moving(r, G)
  <2> DEFINE f == r.stack[1]
  <2>1. r.stack = <<f>> /\ r.pc \in MovePcs /\ IsFrame(f)
    BY <1>1 DEF Moving
  <2> HIDE DEF f
  <2>2. Top(r) = f /\ Below(r) = {}
    BY SMT, <2>1, StackOne DEF Top, Below
  <2>3. \A b : HoldsR(r, b) <=> \/ TopHeld(r) /\ f.b = b
                                \/ r.pc = "altput" /\ f.alt = b
                                \/ MigHolds(r, b)
    BY <2>1, HoldsOneFrame
  <2>4. /\ TopHeld(r) /\ f.b \in G => ~MigHolds(r, f.b)
        /\ r.pc = "altput" /\ f.alt \in G => f.alt # f.b /\ ~MigHolds(r, f.alt)
    BY <1>1 DEF Moving, f
  <2> QED BY <2>1, <2>2, <2>3, <2>4
<1>2. CASE MovingTwice(r, G)
  <2> DEFINE f == r.stack[1]
             g == r.stack[2]
  <2>1. r.stack = <<f, g>> /\ r.pc \in MovePcs /\ IsFrame(g)
    BY <1>2 DEF MovingTwice
  <2> HIDE DEF f, g
  <2>2. Top(r) = g /\ Below(r) = {f.b}
    BY SMT, <2>1, StackTwo DEF Top, Below
  <2>3. \A b : HoldsR(r, b) <=> \/ f.b = b
                                \/ TopHeld(r) /\ g.b = b
                                \/ r.pc = "altput" /\ g.alt = b
                                \/ MigHolds(r, b)
    BY <2>1, HoldsTwoFrames
  <2>4. /\ TopHeld(r) /\ g.b \in G => g.b # f.b /\ ~MigHolds(r, g.b)
        /\ r.pc = "altput" /\ g.alt \in G =>
              g.alt # f.b /\ g.alt # g.b /\ ~MigHolds(r, g.alt)
    BY <1>2 DEF MovingTwice, f, g
  <2> QED BY <2>1, <2>2, <2>3, <2>4
<1> QED BY <1>1, <1>2 DEF Displacing

(* The frame at work is replaced by h, which has the same bucket.             *)
LEMMA MoveOn ==
    ASSUME NEW G, NEW r, Fields(r), Displacing(r, G),
           NEW h, IsFrame(h), h.b = Top(r).b, h.extra = Top(r).extra,
           NEW pc \in MovePcs, NEW r2,
           \/ r2 = WithTop(r, h, pc)
           \/ r2 = [r EXCEPT !.pc = pc] /\ h = Top(r),
           TopHeld(r2) /\ h.b \in G => h.b \notin Below(r) /\ ~MigHolds(r, h.b),
           pc = "altput" /\ h.alt \in G =>
               h.alt \notin Below(r) \cup {h.b} /\ ~MigHolds(r, h.alt)
    PROVE  /\ Fields(r2) /\ Displacing(r2, G)
           /\ r2.pc = pc /\ r2.mig = r.mig /\ Top(r2) = h /\ Below(r2) = Below(r)
<1>1. CASE Moving(r, G)
  <2> DEFINE f == r.stack[1]
  <2>1. r.stack = <<f>>
    BY <1>1 DEF Moving
  <2> HIDE DEF f
  <2>2. Top(r) = f /\ Below(r) = {}
    BY SMT, <2>1, StackOne DEF Top, Below
  <2>3. Fields(r2) /\ r2.pc = pc /\ r2.mig = r.mig /\ r2.stack = <<h>>
    <3>1. CASE r2 = WithTop(r, h, pc)
      BY SMT, <2>1, <3>1, WithTopOne
    <3>2. CASE r2 = [r EXCEPT !.pc = pc] /\ h = Top(r)
      BY <2>1, <2>2, <3>2 DEF Fields
    <3> QED BY <3>1, <3>2
  <2>4. r2.stack[1] = h /\ Top(r2) = h /\ Below(r2) = {}
    BY SMT, <2>3, StackOne DEF Top, Below
  <2>5. Moving(r2, G)
    BY <2>2, <2>3, <2>4 DEF Moving, MigHolds
  <2> QED BY <2>2, <2>3, <2>4, <2>5 DEF Displacing
<1>2. CASE MovingTwice(r, G)
  <2> DEFINE f == r.stack[1]
             g == r.stack[2]
  <2>1. /\ r.stack = <<f, g>> /\ IsFrame(f) /\ ~g.extra
        /\ f.b \in G => ~MigHolds(r, f.b)
    BY <1>2 DEF MovingTwice
  <2> HIDE DEF f, g
  <2>2. Top(r) = g /\ Below(r) = {f.b}
    BY SMT, <2>1, StackTwo DEF Top, Below
  <2>3. Fields(r2) /\ r2.pc = pc /\ r2.mig = r.mig /\ r2.stack = <<f, h>>
    <3>1. CASE r2 = WithTop(r, h, pc)
      BY SMT, <2>1, <3>1, WithTopTwo
    <3>2. CASE r2 = [r EXCEPT !.pc = pc] /\ h = Top(r)
      BY <2>1, <2>2, <3>2 DEF Fields
    <3> QED BY <3>1, <3>2
  <2>4. r2.stack[1] = f /\ r2.stack[2] = h /\ Top(r2) = h /\ Below(r2) = {f.b}
    BY SMT, <2>3, StackTwo DEF Top, Below
  <2>5. MovingTwice(r2, G)
    BY <2>1, <2>2, <2>3, <2>4 DEF MovingTwice, MigHolds
  <2> QED BY <2>2, <2>3, <2>4, <2>5 DEF Displacing
<1> QED BY <1>1, <1>2 DEF Displacing

LEMMA NextVictimHolding ==
    ASSUME NEW G, NEW r, Fields(r), Displacing(r, G), TopHeld(r)
    PROVE  Holding(NextVictim(r), r, Below(r) \cup {Top(r).b}, G)
<1>1. CASE Moving(r, G)
  <2> DEFINE f == r.stack[1]
  <2>1. r.stack = <<f>> /\ IsFrame(f) /\ (f.b \in G => ~MigHolds(r, f.b))
    BY <1>1 DEF Moving
  <2> HIDE DEF f
  <2>2. Below(r) \cup {Top(r).b} = {f.b}
    BY <2>1, StackOne DEF Top, Below
  <2> QED BY <2>1, <2>2, NextVictimOne
<1>2. CASE MovingTwice(r, G)
  <2> DEFINE f == r.stack[1]
             g == r.stack[2]
  <2>1. /\ r.stack = <<f, g>> /\ IsFrame(f) /\ IsFrame(g) /\ ~g.extra
        /\ f.b \in G => ~MigHolds(r, f.b)
        /\ g.b \in G => g.b # f.b /\ ~MigHolds(r, g.b)
    BY <1>2 DEF MovingTwice
  <2> HIDE DEF f, g
  <2>2. Top(r) = g /\ Below(r) = {f.b}
    BY SMT, <2>1, StackTwo DEF Top, Below
  <2>3. Below(r) \cup {Top(r).b} = {f.b, g.b}
    BY <2>2
  <2> QED BY <2>1, <2>3, NextVictimTwo
<1> QED BY <1>1, <1>2 DEF Displacing

LEMMA FailHolding ==
    ASSUME NEW G, NEW r, Fields(r), Displacing(r, G)
    PROVE  Holding(Fail(r), r, Below(r), G)
<1>1. CASE Moving(r, G)
  <2> DEFINE f == r.stack[1]
  <2>1. r.stack = <<f>>
    BY <1>1 DEF Moving
  <2> HIDE DEF f
  <2>2. Below(r) = {}
    BY SMT, <2>1, StackOne DEF Below
  <2> QED BY <2>1, <2>2, FailOne DEF Settled, Holding
<1>2. CASE MovingTwice(r, G)
  <2> DEFINE f == r.stack[1]
             g == r.stack[2]
  <2>1. r.stack = <<f, g>> /\ IsFrame(f) /\ (f.b \in G => ~MigHolds(r, f.b))
    BY <1>2 DEF MovingTwice
  <2> HIDE DEF f, g
  <2>2. Below(r) = {f.b}
    BY SMT, <2>1, StackTwo DEF Below
  <2> QED BY <2>1, <2>2, FailTwo
<1> QED BY <1>1, <1>2 DEF Displacing

(*---------------------------------------------------------------------------*)
(* One thread moves.                                                         *)

(* A step of t keeps the invariant if its new record is in order and every    *)
(* bucket without a dead holder either stays as it is, or is locked by t      *)
(* while nobody has it, or is unlocked by t, who has it.                      *)
LEMMA StepInv ==
    ASSUME IInv, NEW t \in Threads, NEW r2, Set(t, r2),
           th[t].pc # "dead", r2.pc # "dead", ThreadInv(r2, Good),
           DOMAIN mem' = Buckets, \A b \in Buckets : "dirty" \in DOMAIN mem'[b],
           \A b \in Good :
              \/ /\ mem'[b].dirty <=> mem[b].dirty
                 /\ HoldsR(r2, b) <=> HoldsR(th[t], b)
              \/ ~mem[b].dirty /\ mem'[b].dirty /\ HoldsR(r2, b)
              \/ HoldsR(th[t], b) /\ ~mem'[b].dirty /\ ~HoldsR(r2, b)
    PROVE  IInv'
<1>1. DOMAIN th = Threads /\ th' = [th EXCEPT ![t] = r2]
  BY DEF IInv, TableInv, Set
<1>2. DOMAIN th' = Threads /\ th'[t] = r2 /\ \A u \in Threads \ {t} : th'[u] = th[u]
  BY <1>1
<1>3. \A b : DiedHolding(b)' <=> DiedHolding(b)
  BY <1>2 DEF DiedHolding
<1>4. Good' = Good
  BY <1>3 DEF Good
<1>5. ThreadsInv'
  <2>1. ASSUME NEW u \in Threads
        PROVE  ThreadInv(th'[u], Good)
    BY <1>2 DEF IInv, ThreadsInv
  <2> QED BY <1>4, <2>1 DEF ThreadsInv
<1>6. TableInv'
  BY <1>2 DEF TableInv
<1>7. \A b \in Good : \A u \in Threads : HoldsR(th[u], b) => mem[b].dirty
  BY DEF IInv, LockInv
<1>8. \A b \in Good : \A u, w \in Threads : HoldsR(th[u], b) /\ HoldsR(th[w], b) => u = w
  BY DEF IInv, LockInv
<1>9. ASSUME NEW b \in Buckets, mem'[b].dirty
      PROVE  \E u \in Threads : HoldsR(th'[u], b)
  <2>1. CASE b \notin Good
    <3>1. PICK u \in Threads : th[u].pc = "dead" /\ Cand(th[u]).b = b
      BY <2>1 DEF Good, DiedHolding
    <3>2. th'[u] = th[u]
      BY <1>2, <3>1
    <3>3. HoldsR(th[u], b)
      BY <3>1 DEF HoldsR
    <3> QED BY <3>2, <3>3
  <2>2. CASE b \in Good
    <3>1. CASE HoldsR(r2, b)
      BY <1>2, <3>1
    <3>2. CASE ~HoldsR(r2, b)
      <4>1. mem[b].dirty /\ ~HoldsR(th[t], b)
        BY <1>9, <2>2, <3>2
      <4>2. PICK u \in Threads : HoldsR(th[u], b)
        BY <4>1 DEF IInv, LockInv
      <4>3. th'[u] = th[u]
        BY <1>2, <4>1, <4>2
      <4> QED BY <4>2, <4>3
    <3> QED BY <3>1, <3>2
  <2> QED BY <2>1, <2>2
<1>10. ASSUME NEW b \in Good, NEW u \in Threads, HoldsR(th'[u], b)
       PROVE  mem'[b].dirty
  <2>1. CASE u = t
    BY <1>2, <1>7, <1>10, <2>1
  <2>2. CASE u # t
    BY <1>2, <1>7, <1>8, <1>10, <2>2
  <2> QED BY <2>1, <2>2
<1>11. ASSUME NEW b \in Good, NEW u \in Threads, NEW w \in Threads,
              HoldsR(th'[u], b), HoldsR(th'[w], b), u # w
       PROVE  FALSE
  <2>1. ASSUME NEW x \in Threads, x # t, HoldsR(th'[t], b), HoldsR(th'[x], b)
        PROVE  FALSE
    <3>1. HoldsR(th[x], b) /\ HoldsR(r2, b)
      BY <1>2, <2>1
    <3>2. mem[b].dirty
      BY <1>7, <3>1
    <3>3. HoldsR(th[t], b)
      BY <3>1, <3>2
    <3> QED BY <1>8, <2>1, <3>1, <3>3
  <2>2. CASE u = t \/ w = t
    BY <1>11, <2>1, <2>2
  <2>3. CASE u # t /\ w # t
    BY <1>2, <1>8, <1>11, <2>3
  <2> QED BY <2>2, <2>3
<1>12. LockInv'
  BY <1>4, <1>9, <1>10, <1>11 DEF LockInv
<1> QED BY <1>5, <1>6, <1>12 DEF IInv

(* The invariant for the thread that moves.                                   *)
LEMMA Mover ==
    ASSUME IInv, NEW t \in Threads
    PROVE  ThreadInv(th[t], Good) /\ Fields(th[t])
BY DEF IInv, ThreadsInv, ThreadInv

(* The program counter tells which kind of state a thread is in.              *)
LEMMA AtRest ==
    ASSUME NEW G, NEW r, ThreadInv(r, G), r.pc \in RestPcs
    PROVE  Resting(r)
BY DEF ThreadInv, Resting, AtOldBucket, Probing, Displacing, Moving, MovingTwice,
       RestPcs, MovePcs

LEMMA AtMigration ==
    ASSUME NEW G, NEW r, ThreadInv(r, G), r.pc \in {"migcas", "migslot"}
    PROVE  AtOldBucket(r)
BY DEF ThreadInv, Resting, AtOldBucket, Probing, Displacing, Moving, MovingTwice,
       RestPcs, MovePcs

LEMMA AtProbe ==
    ASSUME NEW G, NEW r, ThreadInv(r, G),
           r.pc \in {"read", "cas", "write", "commit", "value", "verify", "dead"}
    PROVE  Probing(r, G)
BY DEF ThreadInv, Resting, AtOldBucket, Probing, Displacing, Moving, MovingTwice,
       RestPcs, MovePcs

LEMMA AtMove ==
    ASSUME NEW G, NEW r, ThreadInv(r, G), r.pc \in MovePcs
    PROVE  Displacing(r, G)
BY DEF ThreadInv, Resting, AtOldBucket, Probing, Displacing, Moving, MovingTwice,
       RestPcs, MovePcs

(* A step that leaves the table alone and the thread with the same locks.     *)
LEMMA SameLocks ==
    ASSUME IInv, NEW t \in Threads, NEW r2, Set(t, r2), UNCHANGED mem,
           th[t].pc # "dead", r2.pc # "dead", ThreadInv(r2, Good),
           \A b \in Good : HoldsR(r2, b) <=> HoldsR(th[t], b)
    PROVE  IInv'
<1>1. DOMAIN mem' = Buckets /\ \A b \in Buckets : "dirty" \in DOMAIN mem'[b]
  BY DEF IInv, TableInv
<1>2. \A b \in Good : mem'[b].dirty <=> mem[b].dirty
  OBVIOUS
<1> QED BY <1>1, <1>2, StepInv

(* A step that takes the lock of b0 with a CAS.                               *)
LEMMA TakeLock ==
    ASSUME IInv, NEW t \in Threads, NEW r2, Set(t, r2),
           NEW b0, NEW snap, Unmoved(b0, snap), Write(b0, make_locked(mem[b0], snap)),
           th[t].pc # "dead", r2.pc # "dead", ThreadInv(r2, Good),
           \A b \in Good : HoldsR(r2, b) <=> b = b0 \/ HoldsR(th[t], b)
    PROVE  IInv'
<1>1. DOMAIN mem = Buckets /\ \A b \in Buckets : "dirty" \in DOMAIN mem[b]
  BY DEF IInv, TableInv
<1>2. ~mem[b0].dirty
  BY DEF Unmoved
<1>3. mem' = [mem EXCEPT ![b0] = make_locked(mem[b0], snap)]
  BY DEF Write
<1>4. /\ DOMAIN mem' = Buckets
      /\ \A b \in Buckets \ {b0} : mem'[b] = mem[b]
      /\ b0 \in Buckets => mem'[b0] = make_locked(mem[b0], snap)
  BY <1>1, <1>3
<1>5. b0 \in Buckets => "dirty" \in DOMAIN mem'[b0] /\ mem'[b0].dirty
  BY <1>1, <1>4 DEF make_locked
<1>6. \A b \in Buckets : "dirty" \in DOMAIN mem'[b]
  BY <1>1, <1>4, <1>5
<1>7. Good \subseteq Buckets
  BY DEF Good
<1>8. \A b \in Good : b # b0 => (mem'[b].dirty <=> mem[b].dirty)
  BY <1>4, <1>7
<1> QED BY SMT, <1>2, <1>4, <1>5, <1>6, <1>7, <1>8, StepInv

(* A step that writes the line of b0 back without the lock bit.               *)
LEMMA GiveLock ==
    ASSUME IInv, NEW t \in Threads, NEW r2, Set(t, r2),
           NEW b0, NEW m, NEW snap, NEW fp, Write(b0, set_unlocked(m, snap, fp)),
           b0 \in Buckets => "dirty" \in DOMAIN m,
           th[t].pc # "dead", r2.pc # "dead", ThreadInv(r2, Good),
           HoldsR(th[t], b0),
           \A b \in Good : HoldsR(r2, b) <=> b # b0 /\ HoldsR(th[t], b)
    PROVE  IInv'
<1>1. DOMAIN mem = Buckets /\ \A b \in Buckets : "dirty" \in DOMAIN mem[b]
  BY DEF IInv, TableInv
<1>3. mem' = [mem EXCEPT ![b0] = set_unlocked(m, snap, fp)]
  BY DEF Write
<1>4. /\ DOMAIN mem' = Buckets
      /\ \A b \in Buckets \ {b0} : mem'[b] = mem[b]
      /\ b0 \in Buckets => mem'[b0] = set_unlocked(m, snap, fp)
  BY <1>1, <1>3
<1>5. b0 \in Buckets => "dirty" \in DOMAIN mem'[b0] /\ ~mem'[b0].dirty
  BY <1>1, <1>4 DEF set_unlocked
<1>6. \A b \in Buckets : "dirty" \in DOMAIN mem'[b]
  BY <1>1, <1>4, <1>5
<1>7. Good \subseteq Buckets
  BY DEF Good
<1>8. \A b \in Good : b # b0 => (mem'[b].dirty <=> mem[b].dirty)
  BY <1>4, <1>7
<1> QED BY SMT, <1>4, <1>5, <1>6, <1>7, <1>8, StepInv

(* A step that writes a value line.                                           *)
LEMMA StoreValue ==
    ASSUME IInv, NEW t \in Threads, NEW r2, Set(t, r2),
           NEW b0, NEW s, NEW v, mem' = [mem EXCEPT ![b0].val[s] = v],
           th[t].pc # "dead", r2.pc # "dead", ThreadInv(r2, Good),
           \A b \in Good : HoldsR(r2, b) <=> HoldsR(th[t], b)
    PROVE  IInv'
<1>1. DOMAIN mem = Buckets /\ \A b \in Buckets : "dirty" \in DOMAIN mem[b]
  BY DEF IInv, TableInv
<1>2. DOMAIN mem' = Buckets
  BY <1>1
<1>3. \A b \in Buckets : DOMAIN mem'[b] = DOMAIN mem[b] /\ mem'[b].dirty = mem[b].dirty
  BY <1>1
<1>4. \A b \in Buckets : "dirty" \in DOMAIN mem'[b]
  BY <1>1, <1>3
<1>5. \A b \in Good : mem'[b].dirty <=> mem[b].dirty
  BY <1>3 DEF Good
<1> QED BY <1>2, <1>4, <1>5, StepInv

(*---------------------------------------------------------------------------*)
(* Steps of a probe.                                                         *)

(* While a thread looks for a candidate it holds the migration's lock only.   *)
LEMMA Looking ==
    ASSUME NEW G, NEW r, Probing(r, G), r.pc \in {"read", "cas", "value", "verify"}
    PROVE  r.stack = <<>> /\ \A b \in G : HoldsR(r, b) <=> MigHolds(r, b)
BY HoldsNoFrame DEF Probing

(* The probe goes on, or is over, without a change to the table.              *)
LEMMA LookOn ==
    ASSUME IInv, NEW t \in Threads, NEW r2, Set(t, r2), UNCHANGED mem,
           th[t].pc \in {"read", "cas", "value", "verify"},
           Settled(r2, th[t], Good)
    PROVE  IInv'
<1>1. \A b \in Good : HoldsR(th[t], b) <=> MigHolds(th[t], b)
  BY Mover, AtProbe, Looking
<1> QED BY <1>1, SameLocks DEF Settled

LEMMA ReadStep ==
    ASSUME IInv, NEW t \in Threads, Read(t)
    PROVE  IInv'
<1> DEFINE r == th[t]
           b == Cand(r).b
           r2 == [r EXCEPT !.snap = Line(b),
                           !.pc = IF Kind(r) = "find" THEN "value" ELSE "cas"]
<1>1. r.pc = "read" /\ UNCHANGED mem
  BY DEF Read
<1>2. ThreadInv(r, Good) /\ Fields(r) /\ Probing(r, Good)
  BY <1>1, Mover, AtProbe
<1>3. r.stack = <<>> /\ \A c \in Good : HoldsR(r, c) <=> MigHolds(r, c)
  BY <1>1, <1>2, Looking
<1>4. Set(t, Contended(r)) \/ Set(t, Advance(r)) \/ Set(t, r2)
  BY DEF Read
<1>5. CASE Set(t, Contended(r))
  BY <1>1, <1>2, <1>3, <1>5, ContendedSettled, LookOn
<1>6. CASE Set(t, Advance(r))
  BY <1>1, <1>2, <1>3, <1>6, AdvanceSettled, LookOn
<1>7. CASE Set(t, r2)
  <2>1. Fields(r2) /\ r2.stack = <<>> /\ r2.mig = r.mig
    BY <1>2, <1>3 DEF Fields
  <2>2. r2.pc = IF Kind(r) = "find" THEN "value" ELSE "cas"
    BY <1>2 DEF Fields
  <2>3. Kind(r) = "find" => r.mig = NoMig
    BY DEF Kind
  <2> HIDE DEF r2
  <2>4. Probing(r2, Good)
    BY <2>1, <2>2, <2>3 DEF Probing
  <2>5. \A c \in Good : HoldsR(r2, c) <=> HoldsR(r, c)
    BY SMT, <1>3, <2>1, <2>2, <2>4, Looking DEF MigHolds
  <2>6. ThreadInv(r2, Good) /\ r2.pc # "dead"
    BY <2>1, <2>2, <2>4 DEF ThreadInv
  <2> QED BY <1>1, <1>7, <2>5, <2>6, SameLocks
<1> QED BY <1>4, <1>5, <1>6, <1>7

LEMMA CasLockStep ==
    ASSUME IInv, NEW t \in Threads, CasLock(t)
    PROVE  IInv'
<1> DEFINE r == th[t]
           b == Cand(r).b
           r2 == [r EXCEPT !.pc = IF Kind(r) = "erase" THEN "commit" ELSE "write"]
<1>1. r.pc = "cas"
  BY DEF CasLock
<1>2. ThreadInv(r, Good) /\ Fields(r) /\ Probing(r, Good)
  BY <1>1, Mover, AtProbe
<1>3. r.stack = <<>> /\ \A c \in Good : HoldsR(r, c) <=> MigHolds(r, c)
  BY <1>1, <1>2, Looking
<1>4. CASE ~Unmoved(b, r.snap)
  <2>1. Set(t, Contended(r)) /\ UNCHANGED mem
    BY <1>4 DEF CasLock
  <2> QED BY <1>1, <1>2, <1>3, <2>1, ContendedSettled, LookOn
<1>5. CASE Unmoved(b, r.snap)
  <2>1. Set(t, r2) /\ Write(b, make_locked(mem[b], r.snap))
    BY <1>5 DEF CasLock
  <2>2. /\ Fields(r2) /\ r2.stack = <<>> /\ r2.mig = r.mig /\ Cand(r2).b = b
        /\ r2.pc \in {"write", "commit"}
    BY <1>2, <1>3 DEF Fields, Cand
  <2>3. b \in Good => ~MigHolds(r, b)
    <3>1. ~mem[b].dirty
      BY <1>5 DEF Unmoved
    <3> QED BY <1>3, <3>1 DEF IInv, LockInv
  <2> HIDE DEF r2
  <2>4. Probing(r2, Good)
    BY <2>2, <2>3 DEF Probing, MigHolds
  <2>5. \A c \in Good : HoldsR(r2, c) <=> c = b \/ HoldsR(r, c)
    BY SMT, <1>3, <2>2, HoldsNoFrame DEF MigHolds
  <2>6. ThreadInv(r2, Good) /\ r2.pc # "dead"
    BY <2>2, <2>4 DEF ThreadInv
  <2> HIDE DEF b
  <2> QED BY <1>1, <1>5, <2>1, <2>5, <2>6, TakeLock DEF b
<1> QED BY <1>4, <1>5

(* Between the CAS and the commit: the candidate is locked.                   *)
LEMMA AtCandidate ==
    ASSUME NEW G, NEW r, Probing(r, G), r.pc \in {"write", "commit"}
    PROVE  /\ r.stack = <<>>
           /\ \A b : HoldsR(r, b) <=> b = Cand(r).b \/ MigHolds(r, b)
           /\ Cand(r).b \in G => ~MigHolds(r, Cand(r).b)
BY HoldsNoFrame DEF Probing

LEMMA WriteValueStep ==
    ASSUME IInv, NEW t \in Threads, WriteValue(t)
    PROVE  IInv'
<1> DEFINE r == th[t]
           b == Cand(r).b
           s == Target(r, r.snap.fp)
           r2 == [r EXCEPT !.pc = "commit", !.eff = (@ \/ Kind(r) = "update")]
<1>1. r.pc = "write" /\ Set(t, r2) /\ mem' = [mem EXCEPT ![b].val[s] = r.item]
  BY DEF WriteValue
<1>2. ThreadInv(r, Good) /\ Fields(r) /\ Probing(r, Good)
  BY <1>1, Mover, AtProbe
<1>3. /\ r.stack = <<>>
      /\ \A c \in Good : HoldsR(r, c) <=> c = b \/ MigHolds(r, c)
      /\ b \in Good => ~MigHolds(r, b)
  BY <1>1, <1>2, AtCandidate
<1>4. /\ Fields(r2) /\ r2.stack = <<>> /\ r2.mig = r.mig /\ Cand(r2).b = b
      /\ r2.pc = "commit"
  BY <1>2, <1>3 DEF Fields, Cand
<1> HIDE DEF r2, b, s
<1>5. Probing(r2, Good)
  BY <1>3, <1>4 DEF Probing, MigHolds
<1>6. \A c \in Good : HoldsR(r2, c) <=> HoldsR(r, c)
  BY SMT, <1>3, <1>4, <1>5, AtCandidate DEF MigHolds
<1>7. ThreadInv(r2, Good) /\ r2.pc # "dead"
  BY <1>4, <1>5 DEF ThreadInv
<1> QED BY <1>1, <1>6, <1>7, StoreValue

LEMMA CommitStep ==
    ASSUME IInv, NEW t \in Threads, Commit(t)
    PROVE  IInv'
<1> DEFINE r == th[t]
           b == Cand(r).b
           r2 == IF Kind(r) = "insert" THEN Placed(r)
                 ELSE [Answer(r, "yes") EXCEPT !.eff = TRUE]
<1>1. /\ r.pc = "commit" /\ Set(t, r2)
      /\ \E fp : Write(b, set_unlocked(mem[b], r.snap, fp))
  BY DEF Commit
<1>2. ThreadInv(r, Good) /\ Fields(r) /\ Probing(r, Good)
  BY <1>1, Mover, AtProbe
<1>3. /\ HoldsR(r, b)
      /\ \A c \in Good : HoldsR(r, c) <=> c = b \/ MigHolds(r, c)
      /\ b \in Good => ~MigHolds(r, b)
  BY <1>1, <1>2, AtCandidate
<1>4. Settled(r2, r, Good)
  <2>1. CASE Kind(r) = "insert"
    BY <1>2, <2>1, PlacedSettled
  <2>2. CASE Kind(r) # "insert"
    <3>1. r.mig = NoMig
      BY <2>2 DEF Kind
    <3> QED BY <1>2, <2>2, <3>1, AnswerSettled
  <2> QED BY <2>1, <2>2
<1>5. PICK fp : Write(b, set_unlocked(mem[b], r.snap, fp))
  BY <1>1
<1>6. b \in Buckets => "dirty" \in DOMAIN mem[b]
  BY DEF IInv, TableInv
<1> HIDE DEF r2, b
<1>7. \A c \in Good : HoldsR(r2, c) <=> c # b /\ HoldsR(r, c)
  BY <1>3, <1>4 DEF Settled
<1>8. ThreadInv(r2, Good) /\ r2.pc # "dead"
  BY <1>4 DEF Settled
<1> QED BY <1>1, <1>3, <1>5, <1>6, <1>7, <1>8, GiveLock

LEMMA ReadValueStep ==
    ASSUME IInv, NEW t \in Threads, ReadValue(t)
    PROVE  IInv'
<1> DEFINE r == th[t]
           v == mem[Cand(r).b].val[Target(r, r.snap.fp)]
           r2 == [r EXCEPT !.pc = "verify", !.got = v]
<1>1. r.pc = "value" /\ Set(t, r2) /\ UNCHANGED mem
  BY DEF ReadValue
<1>2. ThreadInv(r, Good) /\ Fields(r) /\ Probing(r, Good)
  BY <1>1, Mover, AtProbe
<1>3. r.stack = <<>> /\ r.mig = NoMig
  BY <1>1, <1>2 DEF Probing
<1> HIDE DEF v
<1>4. Fields(r2) /\ r2.stack = <<>> /\ r2.mig = r.mig /\ r2.pc = "verify"
  BY <1>2, <1>3 DEF Fields
<1> HIDE DEF r2
<1>5. Probing(r2, Good)
  BY <1>3, <1>4 DEF Probing
<1>6. \A c \in Good : HoldsR(r2, c) <=> HoldsR(r, c)
  BY SMT, <1>1, <1>2, <1>4, <1>5, Looking DEF MigHolds
<1>7. ThreadInv(r2, Good) /\ r2.pc # "dead"
  BY <1>4, <1>5 DEF ThreadInv
<1> QED BY <1>1, <1>6, <1>7, SameLocks

LEMMA VerifyStep ==
    ASSUME IInv, NEW t \in Threads, Verify(t)
    PROVE  IInv'
<1> DEFINE r == th[t]
           r0 == [r EXCEPT !.got = NoVal]
           r2 == [Answer(r, "yes") EXCEPT !.got = r.got.val]
<1>1. r.pc = "verify" /\ UNCHANGED mem
  BY DEF Verify
<1>2. ThreadInv(r, Good) /\ Fields(r) /\ Probing(r, Good)
  BY <1>1, Mover, AtProbe
<1>3. r.stack = <<>> /\ r.mig = NoMig
  BY <1>1, <1>2 DEF Probing
<1>4. Set(t, Contended(r0)) \/ Set(t, Advance(r0)) \/ Set(t, r2)
  BY DEF Verify
<1>5. Fields(r0) /\ r0.stack = <<>> /\ r0.mig = r.mig
  BY <1>2, <1>3 DEF Fields
<1>6. Settled(r2, r, Good)
  BY <1>2, <1>3, AnswerSettled
<1> HIDE DEF r0, r2
<1>7. Settled(Contended(r0), r, Good)
  BY <1>5, ContendedSettled DEF Settled, MigHolds
<1>8. Settled(Advance(r0), r, Good)
  BY <1>5, AdvanceSettled DEF Settled, MigHolds
<1> QED BY <1>1, <1>4, <1>6, <1>7, <1>8, LookOn

(* A smaller set of good buckets asks less of a thread.                       *)
LEMMA FewerGood ==
    ASSUME NEW G, NEW G2, G2 \subseteq G, NEW r, ThreadInv(r, G)
    PROVE  ThreadInv(r, G2)
<1>1. CASE Resting(r) \/ AtOldBucket(r)
  BY <1>1 DEF ThreadInv
<1>2. CASE Probing(r, G)
  BY <1>2 DEF ThreadInv, Probing
<1>3. CASE Moving(r, G)
  BY <1>3 DEF ThreadInv, Displacing, Moving
<1>4. CASE MovingTwice(r, G)
  BY <1>4 DEF ThreadInv, Displacing, MovingTwice
<1> QED BY <1>1, <1>2, <1>3, <1>4 DEF ThreadInv, Displacing

(* The stopped thread keeps its lock, which is exempt from now on.            *)
LEMMA CrashLockedStep ==
    ASSUME IInv, NEW t \in Threads, CrashLocked(t)
    PROVE  IInv'
<1> DEFINE r == th[t]
           r2 == [r EXCEPT !.pc = "dead"]
<1>1. r.pc \in {"write", "commit"} /\ r.mig = NoMig /\ Set(t, r2) /\ UNCHANGED mem
  BY DEF CrashLocked
<1>2. ThreadInv(r, Good) /\ Fields(r) /\ Probing(r, Good)
  BY <1>1, Mover, AtProbe
<1>3. r.stack = <<>> /\ \A b : HoldsR(r, b) <=> b = Cand(r).b
  BY <1>1, <1>2, AtCandidate DEF MigHolds
<1>4. /\ Fields(r2) /\ r2.stack = <<>> /\ r2.mig = NoMig /\ r2.pc = "dead"
      /\ Cand(r2).b = Cand(r).b
  BY <1>1, <1>2, <1>3 DEF Fields, Cand
<1> HIDE DEF r2
<1>5. \A b : HoldsR(r2, b) <=> HoldsR(r, b)
  BY <1>3, <1>4, HoldsNoFrame DEF MigHolds
<1>6. DOMAIN th = Threads /\ th' = [th EXCEPT ![t] = r2]
  BY <1>1 DEF IInv, TableInv, Set
<1>7. DOMAIN th' = Threads /\ th'[t] = r2 /\ \A u \in Threads \ {t} : th'[u] = th[u]
  BY <1>6
<1>8. \A b : DiedHolding(b) => DiedHolding(b)'
  BY <1>1, <1>7 DEF DiedHolding
<1>9. Good' \subseteq Good
  BY <1>8 DEF Good
<1>10. \A u \in Threads : \A b : HoldsR(th'[u], b) <=> HoldsR(th[u], b)
  BY <1>5, <1>7
<1>11. \A u \in Threads : ThreadInv(th'[u], Good')
  <2>1. ThreadInv(r2, Good)
    BY <1>4 DEF ThreadInv, Probing
  <2>2. \A u \in Threads : ThreadInv(th'[u], Good)
    BY <1>7, <2>1 DEF IInv, ThreadsInv
  <2> QED BY <1>9, <2>2, FewerGood
<1>12. TableInv'
  BY <1>1, <1>7 DEF IInv, TableInv
<1>13. LockInv'
  BY <1>1, <1>9, <1>10 DEF IInv, LockInv
<1> QED BY <1>11, <1>12, <1>13 DEF IInv, ThreadsInv

(* Of timely holders, wait_for_unlock clears only the lock of a dead one.     *)
LEMMA ForceClearStep ==
    ASSUME TimelyHolders, IInv, NEW t \in Threads, ForceClear(t)
    PROVE  IInv'
<1> DEFINE b0 == Cand(th[t]).b
<1>1. /\ UNCHANGED th /\ mem' = [mem EXCEPT ![b0] = [mem[b0] EXCEPT !.dirty = FALSE]]
      /\ DiedHolding(b0)
  BY DEF ForceClear, Write, DiedHolding
<1>2. DOMAIN mem = Buckets /\ \A b \in Buckets : "dirty" \in DOMAIN mem[b]
  BY DEF IInv, TableInv
<1> HIDE DEF b0
<1>3. /\ DOMAIN mem' = Buckets
      /\ \A b \in Buckets \ {b0} : mem'[b] = mem[b]
      /\ b0 \in Buckets => "dirty" \in DOMAIN mem'[b0] /\ ~mem'[b0].dirty
  BY <1>1, <1>2
<1>4. TableInv'
  BY <1>1, <1>2, <1>3 DEF IInv, TableInv
<1>5. Good' = Good /\ b0 \notin Good /\ Good \subseteq Buckets
  BY <1>1 DEF Good, DiedHolding
<1>6. ThreadsInv'
  BY <1>1, <1>5 DEF IInv, ThreadsInv
<1>7. LockInv'
  BY <1>1, <1>3, <1>5 DEF IInv, LockInv
<1> QED BY <1>4, <1>6, <1>7 DEF IInv

LEMMA ProbeInvariant ==
    ASSUME TimelyHolders, IInv, NEW t \in Threads, ProbeStep(t)
    PROVE  IInv'
BY ReadStep, CasLockStep, WriteValueStep, CommitStep, ReadValueStep, VerifyStep,
   CrashLockedStep, ForceClearStep DEF ProbeStep
=============================================================================
