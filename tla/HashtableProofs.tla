--------------------------- MODULE HashtableProofs ---------------------------
(***************************************************************************)
(* The steps of the resize protocol, of migrations and of displacements keep *)
(* the invariant of module HashtableLocks, which has the steps of the probe  *)
(* loops: one lemma for each, and the theorems that follow.                  *)
(***************************************************************************)
EXTENDS HashtableLocks

(* Leaves are Zenon's unless they name SMT.                                   *)
USE ZenonT(30)

(*---------------------------------------------------------------------------*)
(* Steps of the resize protocol: no lock is involved.                        *)

LEMMA RestStep ==
    ASSUME IInv, NEW t \in Threads, NEW r2, Set(t, r2), UNCHANGED mem,
           th[t].pc \in RestPcs, Fields(r2), Resting(r2)
    PROVE  IInv'
<1>1. Resting(th[t])
  BY Mover, AtRest
<1>2. \A b \in Good : ~HoldsR(th[t], b) /\ ~HoldsR(r2, b)
  BY <1>1, HoldsNoFrame DEF Resting, RestPcs, MigHolds
<1>3. ThreadInv(r2, Good) /\ r2.pc # "dead" /\ th[t].pc # "dead"
  BY DEF ThreadInv, Resting, RestPcs
<1> QED BY <1>2, <1>3, SameLocks

LEMMA GotoStep ==
    ASSUME IInv, NEW t \in Threads, NEW pc \in RestPcs, Goto(t, pc), UNCHANGED mem,
           th[t].pc \in RestPcs
    PROVE  IInv'
<1> DEFINE r2 == [th[t] EXCEPT !.pc = pc]
<1>1. Fields(th[t]) /\ Resting(th[t])
  BY Mover, AtRest
<1>2. Set(t, r2)
  BY DEF Goto
<1>3. Fields(r2) /\ Resting(r2)
  BY <1>1 DEF Fields, Resting
<1> HIDE DEF r2
<1> QED BY <1>2, <1>3, RestStep

LEMMA RetryStep ==
    ASSUME IInv, NEW t \in Threads, Retry(t), UNCHANGED mem, th[t].pc \in RestPcs
    PROVE  IInv'
<1> DEFINE r2 == [th[t] EXCEPT !.pc = "cands", !.again = TRUE]
<1>1. Fields(th[t]) /\ Resting(th[t])
  BY Mover, AtRest
<1>2. Set(t, r2)
  BY DEF Retry
<1>3. Fields(r2) /\ Resting(r2)
  BY <1>1 DEF Fields, Resting, RestPcs
<1> HIDE DEF r2
<1> QED BY <1>2, <1>3, RestStep

LEMMA IdleShape ==
    ASSUME NEW plan, NEW r2,
           \/ r2 = Idle(plan)
           \/ \E c, i, p : /\ p \in RestPcs
                           /\ r2 = [Idle(plan) EXCEPT !.pc = p, !.call = c, !.item = i]
           \/ \E x : r2 = [Idle(plan) EXCEPT !.res = x]
    PROVE  Fields(r2) /\ Resting(r2)
<1>1. /\ Fields(Idle(plan)) /\ Idle(plan).pc = "idle"
      /\ Idle(plan).stack = <<>> /\ Idle(plan).mig = NoMig
  BY DEF Idle, Fields
<1> QED BY <1>1 DEF Fields, Resting, RestPcs

LEMMA InvokeStep ==
    ASSUME IInv, NEW t \in Threads, Invoke(t)
    PROVE  IInv'
<1>1. th[t].pc = "idle" /\ UNCHANGED mem
  BY DEF Invoke
<1>2. PICK c : Set(t, [Idle(Tail(th[t].plan)) EXCEPT !.pc = "pre", !.call = c,
                          !.item = [key |-> c.key, val |-> c.val]])
  BY DEF Invoke
<1> DEFINE r2 == [Idle(Tail(th[t].plan)) EXCEPT !.pc = "pre", !.call = c,
                      !.item = [key |-> c.key, val |-> c.val]]
<1>3. Fields(r2) /\ Resting(r2)
  BY IdleShape DEF RestPcs
<1> HIDE DEF r2
<1>4. Set(t, r2)
  BY <1>2 DEF r2
<1> QED BY <1>1, <1>3, <1>4, RestStep DEF RestPcs

LEMMA ReturnStep ==
    ASSUME IInv, NEW t \in Threads, Return(t)
    PROVE  IInv'
<1> DEFINE r2 == [Idle(th[t].plan) EXCEPT !.res = th[t].res]
<1>1. th[t].pc = "return" /\ UNCHANGED mem /\ Set(t, r2)
  BY DEF Return
<1>2. Fields(r2) /\ Resting(r2)
  BY IdleShape
<1> HIDE DEF r2
<1> QED BY <1>1, <1>2, RestStep DEF RestPcs

LEMMA GiveUpStep ==
    ASSUME IInv, NEW t \in Threads, GiveUp(t)
    PROVE  IInv'
<1> DEFINE r2 == Answer(th[t], "no")
<1>1. th[t].pc = "full" /\ UNCHANGED mem /\ Set(t, r2)
  BY DEF GiveUp
<1>2. Fields(th[t]) /\ Resting(th[t])
  BY <1>1, Mover, AtRest DEF RestPcs
<1>3. /\ Fields(Leave(th[t], "post")) /\ Leave(th[t], "post").pc = "post"
      /\ Leave(th[t], "post").stack = <<>> /\ Leave(th[t], "post").mig = NoMig
  BY <1>2, LeaveShape DEF Resting
<1>4. Fields(r2) /\ Resting(r2)
  BY <1>3 DEF Answer, Fields, Resting, RestPcs
<1> HIDE DEF r2
<1> QED BY <1>1, <1>4, RestStep DEF RestPcs

(* The steps that only go to another line of the protocol.                    *)
LEMMA ProtocolStep ==
    ASSUME IInv, NEW t \in Threads,
           \/ CheckResize(t) \/ ReadCtrlMigrating(t) \/ ReadCtrl(t) \/ WaitLayout(t)
           \/ EndJoined(t) \/ JoinMigration(t) \/ CatchUp(t) \/ SeeResize(t)
           \/ FollowResize(t) \/ Follow(t) \/ ClaimResize(t) \/ LostResize(t)
           \/ PublishEarly(t) \/ PublishLayout(t) \/ SwitchLayout(t)
           \/ ReportShare(t) \/ NothingToMigrate(t) \/ CheckFinalize(t)
           \/ PublishNormal(t)
    PROVE  IInv'
<1> DEFINE Onward == /\ th[t].pc \in RestPcs /\ UNCHANGED mem
                     /\ Retry(t) \/ \E pc \in RestPcs : Goto(t, pc)
<1>1. CheckResize(t) => Onward
  BY DEF CheckResize, RestPcs
<1>2. ReadCtrlMigrating(t) => Onward
  BY DEF ReadCtrlMigrating, RestPcs
<1>3. ReadCtrl(t) => Onward
  BY DEF ReadCtrl, RestPcs
<1>4. WaitLayout(t) => Onward
  BY DEF WaitLayout, RestPcs
<1>5. EndJoined(t) => Onward
  BY DEF EndJoined, RestPcs
<1>6. JoinMigration(t) => Onward
  BY DEF JoinMigration, RestPcs
<1>7. CatchUp(t) => Onward
  BY DEF CatchUp, RestPcs
<1>8. SeeResize(t) => Onward
  BY DEF SeeResize, RestPcs
<1>9. FollowResize(t) => Onward
  BY DEF FollowResize, RestPcs
<1>10. Follow(t) => Onward
  BY DEF Follow, RestPcs
<1>11. ClaimResize(t) => Onward
  BY DEF ClaimResize, RestPcs
<1>12. LostResize(t) => Onward
  BY DEF LostResize, RestPcs
<1>13. PublishEarly(t) => Onward
  BY DEF PublishEarly, RestPcs
<1>14. PublishLayout(t) => Onward
  BY DEF PublishLayout, RestPcs
<1>15. SwitchLayout(t) => Onward
  BY DEF SwitchLayout, RestPcs
<1>16. ReportShare(t) => Onward
  BY DEF ReportShare, RestPcs
<1>17. NothingToMigrate(t) => Onward
  BY DEF NothingToMigrate, RestPcs
<1>18. CheckFinalize(t) => Onward
  BY DEF CheckFinalize, RestPcs
<1>19. PublishNormal(t) => Onward
  BY DEF PublishNormal, RestPcs
<1>20. Onward
  BY <1>1, <1>2, <1>3, <1>4, <1>5, <1>6, <1>7, <1>8, <1>9, <1>10,
     <1>11, <1>12, <1>13, <1>14, <1>15, <1>16, <1>17, <1>18, <1>19
<1> QED BY <1>20, GotoStep, RetryStep

(*---------------------------------------------------------------------------*)
(* Migration of a bucket.                                                    *)

(* Every set of numbers that is not empty has a least element.                *)
LEMMA LeastElement ==
    ASSUME NEW T \in SUBSET Nat, T # {}
    PROVE  \E m \in T : \A k \in T : m <= k
<1> DEFINE R == {ss \in Nat \X Nat : ss[1] < ss[2]}
<1>1. IsWellFoundedOn(R, Nat)
  BY NatLessThanWellFounded DEF OpToRel
<1>2. \E x \in T : \A y \in T : ~(<<y, x>> \in R)
  <2> HIDE DEF R
  <2> QED BY <1>1, WFMin
<1>3. PICK m \in T : \A y \in T : ~(<<y, m>> \in R)
  BY <1>2
<1>4. ASSUME NEW k \in T
      PROVE  m <= k
  <2>1. k < m => <<k, m>> \in R
    OBVIOUS
  <2> HIDE DEF R
  <2>2. m \in Nat /\ k \in Nat
    OBVIOUS
  <2> QED BY SMT, <1>3, <2>1, <2>2
<1> QED BY <1>4

LEMMA StartProbeShape ==
    ASSUME NEW r, Fields(r), NEW s
    PROVE  /\ Fields(StartProbe(r, s)) /\ StartProbe(r, s).pc = "read"
           /\ StartProbe(r, s).stack = r.stack /\ StartProbe(r, s).mig = r.mig
<1> DEFINE cs == get_candidates(r.item.key, srv[s])
           likely == {i \in DOMAIN cs : hint_test(hint[s], cs[i], r.item.key)}
           h == IF Kind(r) = "insert" THEN {} ELSE likely
           q == IF Kind(r) = "insert"
                  THEN Positions(cs, NewLevel(cs))
                  ELSE Positions(cs, likely) \o Positions(cs, DOMAIN cs \ likely)
<1>1. StartProbe(r, s) = [r EXCEPT !.pc = "read", !.cands = cs, !.hinted = h, !.todo = q]
  BY DEF StartProbe
<1> HIDE DEF cs, likely, h, q
<1> QED BY <1>1 DEF Fields

LEMMA CandidatesStep ==
    ASSUME IInv, NEW t \in Threads, Candidates(t)
    PROVE  IInv'
<1> DEFINE r == th[t]
           r2 == StartProbe(r, ServerOf[t])
<1>1. r.pc = "cands" /\ Set(t, r2) /\ UNCHANGED mem
  BY DEF Candidates
<1>2. Fields(r) /\ Resting(r)
  BY <1>1, Mover, AtRest DEF RestPcs
<1>3. Fields(r2) /\ r2.pc = "read" /\ r2.stack = <<>> /\ r2.mig = NoMig
  BY <1>2, StartProbeShape DEF Resting
<1> HIDE DEF r2
<1>4. Probing(r2, Good)
  BY <1>3 DEF Probing
<1>5. \A b \in Good : ~HoldsR(r, b) /\ ~HoldsR(r2, b)
  BY <1>1, <1>2, <1>3, HoldsNoFrame DEF Resting, MigHolds
<1>6. ThreadInv(r2, Good) /\ r2.pc # "dead"
  BY <1>3, <1>4 DEF ThreadInv
<1> QED BY <1>1, <1>5, <1>6, SameLocks

LEMMA MigrateReadStep ==
    ASSUME IInv, NEW t \in Threads, MigrateRead(t)
    PROVE  IInv'
<1> DEFINE r == th[t]
           sv == srv[ServerOf[t]]
           b == <<sv.k - 1, sv.cursor>>
           g == [b |-> b, snap |-> Line(b), slot |-> 1, done |-> {}]
           r2 == [r EXCEPT !.pc = "migcas", !.mig = g]
<1>1. r.pc = "post" /\ UNCHANGED mem /\ (Goto(t, "final") \/ Set(t, r2))
  BY DEF MigrateRead, Goto
<1>2. Fields(r) /\ Resting(r)
  BY <1>1, Mover, AtRest DEF RestPcs
<1>3. CASE Goto(t, "final")
  BY <1>1, <1>3, GotoStep DEF RestPcs
<1>4. CASE Set(t, r2)
  <2>1. {"b", "slot"} \subseteq DOMAIN g /\ g.slot = 1
    OBVIOUS
  <2>2. g # NoMig
    BY SMT, <2>1, NoMigSlot
  <2> HIDE DEF g
  <2>3. Fields(r2) /\ r2.pc = "migcas" /\ r2.stack = <<>> /\ r2.mig = g
    BY SMT, <1>2, <2>1 DEF Fields, Resting
  <2> HIDE DEF r2
  <2>4. \A c \in Good : ~HoldsR(r, c) /\ ~HoldsR(r2, c)
    BY <1>1, <1>2, <2>3, HoldsNoFrame DEF Resting, MigHolds
  <2>5. ThreadInv(r2, Good) /\ r2.pc # "dead"
    BY <2>2, <2>3 DEF ThreadInv, AtOldBucket
  <2> QED BY <1>1, <1>4, <2>4, <2>5, SameLocks
<1> QED BY <1>1, <1>3, <1>4

LEMMA MigrateLockStep ==
    ASSUME IInv, NEW t \in Threads, MigrateLock(t)
    PROVE  IInv'
<1> DEFINE r == th[t]
           g == r.mig
           r1 == [r EXCEPT !.pc = "migslot"]
           r2 == [r EXCEPT !.mig = NoMig, !.pc = "final"]
<1>1. r.pc = "migcas"
  BY DEF MigrateLock
<1>2. Fields(r) /\ AtOldBucket(r)
  BY <1>1, Mover, AtMigration
<1>3. \A c \in Good : ~HoldsR(r, c)
  BY <1>1, <1>2, HoldsNoFrame DEF AtOldBucket, MigHolds
<1>4. CASE Unmoved(g.b, g.snap)
  <2>1. Write(g.b, make_locked(mem[g.b], g.snap)) /\ Set(t, r1)
    BY <1>4 DEF MigrateLock, Goto
  <2>2. Fields(r1) /\ r1.pc = "migslot" /\ r1.stack = <<>> /\ r1.mig = g /\ g # NoMig
    BY <1>2 DEF Fields, AtOldBucket
  <2> HIDE DEF r1
  <2>3. \A c \in Good : HoldsR(r1, c) <=> c = g.b \/ HoldsR(r, c)
    BY SMT, <1>3, <2>2, HoldsNoFrame DEF MigHolds
  <2>4. ThreadInv(r1, Good) /\ r1.pc # "dead"
    BY <2>2 DEF ThreadInv, AtOldBucket
  <2> QED BY <1>1, <1>4, <2>1, <2>3, <2>4, TakeLock
<1>5. CASE ~Unmoved(g.b, g.snap)
  <2>1. Set(t, r2) /\ UNCHANGED mem
    BY <1>5 DEF MigrateLock
  <2>2. Fields(r2) /\ r2.pc = "final" /\ r2.stack = <<>> /\ r2.mig = NoMig
    BY <1>2 DEF Fields, AtOldBucket
  <2> HIDE DEF r2
  <2>3. \A c \in Good : ~HoldsR(r2, c)
    BY <2>2, HoldsNoFrame DEF MigHolds
  <2>4. ThreadInv(r2, Good) /\ r2.pc # "dead"
    BY <2>2 DEF ThreadInv, Resting, RestPcs
  <2> QED BY <1>1, <1>3, <2>1, <2>3, <2>4, SameLocks
<1> QED BY <1>4, <1>5

LEMMA MigrateSlotStep ==
    ASSUME IInv, NEW t \in Threads, MigrateSlot(t)
    PROVE  IInv'
<1> DEFINE r == th[t]
           g == r.mig
           left == {x \in Occupied(g) : x >= g.slot}
           x == CHOOSE x \in left : \A y \in left : x <= y
           r1 == [r EXCEPT !.mig.slot = x, !.item = mem[g.b].val[x]]
           r2 == StartProbe(r1, ServerOf[t])
<1>1. r.pc = "migslot" /\ UNCHANGED mem /\ Set(t, r2) /\ left # {}
  BY DEF MigrateSlot
<1>2. Fields(r) /\ AtOldBucket(r)
  BY <1>1, Mover, AtMigration
<1>3. x \in Nat \ {0}
  <2>1. left \in SUBSET (Nat \ {0})
    BY SMT, LevelHashtableAssumption DEF Occupied
  <2> HIDE DEF left
  <2>2. \E m \in left : \A y \in left : m <= y
    BY <1>1, <2>1, LeastElement
  <2>3. x \in left
    BY <2>2
  <2> QED BY <2>1, <2>3
<1> HIDE DEF x
<1>4. {"b", "slot"} \subseteq DOMAIN g /\ r.stack = <<>> /\ g # NoMig
  BY <1>2 DEF AtOldBucket, Fields
<1>5. /\ r1.stack = <<>> /\ r1.phase = r.phase /\ DOMAIN r1 = DOMAIN r
      /\ r1.mig = [g EXCEPT !.slot = x]
  BY <1>2, <1>4 DEF Fields
<1> HIDE DEF r1
<1>6. {"b", "slot"} \subseteq DOMAIN r1.mig /\ r1.mig.b = g.b /\ r1.mig.slot = x
  BY <1>4, <1>5
<1>7. Fields(r1) /\ r1.mig # NoMig
  BY <1>2, <1>3, <1>5, <1>6, NoMigSlot DEF Fields
<1>8. Fields(r2) /\ r2.pc = "read" /\ r2.stack = <<>> /\ r2.mig = r1.mig
  BY <1>5, <1>7, StartProbeShape
<1> HIDE DEF r2
<1>9. Probing(r2, Good)
  BY <1>8 DEF Probing
<1>10. \A b \in Good : HoldsR(r2, b) <=> HoldsR(r, b)
  BY SMT, <1>1, <1>4, <1>6, <1>7, <1>8, HoldsNoFrame DEF MigHolds
<1>11. ThreadInv(r2, Good) /\ r2.pc # "dead"
  BY <1>8, <1>9 DEF ThreadInv
<1> QED BY <1>1, <1>10, <1>11, SameLocks

LEMMA MigrateCommitStep ==
    ASSUME IInv, NEW t \in Threads, MigrateCommit(t)
    PROVE  IInv'
<1> DEFINE r == th[t]
           g == r.mig
           r2 == [r EXCEPT !.mig = NoMig, !.item = NoEntry, !.pc = "final"]
<1>1. /\ r.pc = "migslot" /\ Set(t, r2)
      /\ \E fp : Write(g.b, set_unlocked(mem[g.b], g.snap, fp))
  BY DEF MigrateCommit
<1>2. Fields(r) /\ AtOldBucket(r)
  BY <1>1, Mover, AtMigration
<1>3. PICK fp : Write(g.b, set_unlocked(mem[g.b], g.snap, fp))
  BY <1>1
<1>4. \A c : HoldsR(r, c) <=> c = g.b
  BY <1>1, <1>2, HoldsNoFrame DEF AtOldBucket, MigHolds
<1>5. Fields(r2) /\ r2.pc = "final" /\ r2.stack = <<>> /\ r2.mig = NoMig
  BY <1>2 DEF Fields, AtOldBucket
<1> HIDE DEF r2
<1>6. \A c \in Good : ~HoldsR(r2, c)
  BY <1>5, HoldsNoFrame DEF MigHolds
<1>7. ThreadInv(r2, Good) /\ r2.pc # "dead"
  BY <1>5 DEF ThreadInv, Resting, RestPcs
<1>8. g.b \in Buckets => "dirty" \in DOMAIN mem[g.b]
  BY DEF IInv, TableInv
<1> QED BY SMT, <1>1, <1>3, <1>4, <1>6, <1>7, <1>8, GiveLock

LEMMA ResizeInvariant ==
    ASSUME IInv, NEW t \in Threads, ResizeStep(t)
    PROVE  IInv'
BY ProtocolStep, InvokeStep, ReturnStep, GiveUpStep, CandidatesStep, MigrateReadStep,
   MigrateLockStep, MigrateSlotStep, MigrateCommitStep DEF ResizeStep

(*---------------------------------------------------------------------------*)
(* Steps of a displacement.                                                  *)

(* What the invariant says about a displacing thread.                         *)
LEMMA MovingMover ==
    ASSUME IInv, NEW t \in Threads, th[t].pc \in MovePcs
    PROVE  LET r == th[t]
               f == Top(r)
           IN  /\ Fields(r) /\ Displacing(r, Good)
               /\ IsFrame(f)
               /\ \A b : HoldsR(r, b) <=> \/ b \in Below(r)
                                          \/ TopHeld(r) /\ f.b = b
                                          \/ r.pc = "altput" /\ f.alt = b
                                          \/ MigHolds(r, b)
               /\ TopHeld(r) /\ f.b \in Good => f.b \notin Below(r) /\ ~MigHolds(r, f.b)
               /\ r.pc = "altput" /\ f.alt \in Good =>
                     f.alt \notin Below(r) \cup {f.b} /\ ~MigHolds(r, f.alt)
<1>1. Fields(th[t]) /\ Displacing(th[t], Good)
  BY Mover, AtMove
<1> QED BY <1>1, MoveLocks

(* What a displacing thread holds after a step that leaves its migration and  *)
(* the lower frame alone.                                                     *)
LEMMA MoveHolds ==
    ASSUME NEW G, NEW r, NEW r2, Fields(r2), Displacing(r2, G),
           r2.mig = r.mig, Below(r2) = Below(r)
    PROVE  \A b : HoldsR(r2, b) <=> \/ b \in Below(r)
                                    \/ TopHeld(r2) /\ Top(r2).b = b
                                    \/ r2.pc = "altput" /\ Top(r2).alt = b
                                    \/ MigHolds(r, b)
<1>1. \A b : MigHolds(r2, b) <=> MigHolds(r, b)
  BY DEF MigHolds
<1> QED BY <1>1, MoveLocks

(* A bucket that is not locked is not the thread's.                           *)
LEMMA NotHeld ==
    ASSUME IInv, NEW t \in Threads, NEW b \in Good, ~mem[b].dirty
    PROVE  ~HoldsR(th[t], b)
BY DEF IInv, LockInv

LEMMA MoveReadStep ==
    ASSUME IInv, NEW t \in Threads, MoveRead(t)
    PROVE  IInv'
<1> DEFINE r == th[t]
           f == Top(r)
           h == [f EXCEPT !.snap = Line(f.b)]
           r2 == WithTop(r, h, "mcas")
<1>1. r.pc = "mread" /\ UNCHANGED mem /\ (Set(t, Fail(r)) \/ Set(t, r2))
  BY DEF MoveRead
<1>2. /\ Fields(r) /\ Displacing(r, Good)
      /\ IsFrame(f)
  BY <1>1, MovingMover DEF MovePcs
<1>3. \A b : HoldsR(r, b) <=> b \in Below(r) \/ MigHolds(r, b)
  BY <1>1, MovingMover DEF MovePcs, TopHeld
<1>4. CASE Set(t, Fail(r))
  <2>1. Holding(Fail(r), r, Below(r), Good)
    BY <1>2, FailHolding
  <2> QED BY <1>1, <1>3, <1>4, <2>1, SameLocks DEF Holding
<1>5. CASE Set(t, r2)
  <2>1. IsFrame(h) /\ h.b = f.b /\ h.extra = f.extra
    BY <1>2 DEF IsFrame
  <2> HIDE DEF h, f
  <2>2. r2.pc = "mcas"
    BY <1>2 DEF WithTop, Fields
  <2>3. /\ Fields(r2) /\ Displacing(r2, Good)
        /\ r2.mig = r.mig /\ Below(r2) = Below(r)
    BY SMT, <1>2, <2>1, <2>2, MoveOn DEF MovePcs, TopHeld, f
  <2> HIDE DEF r2
  <2>4. \A b \in Good : HoldsR(r2, b) <=> HoldsR(r, b)
    BY <1>3, <2>2, <2>3, MoveHolds DEF TopHeld
  <2>5. ThreadInv(r2, Good)
    BY <2>3 DEF ThreadInv
  <2> QED BY <1>1, <1>5, <2>2, <2>4, <2>5, SameLocks
<1> QED BY <1>1, <1>4, <1>5

LEMMA MoveLockStep ==
    ASSUME IInv, NEW t \in Threads, MoveLock(t)
    PROVE  IInv'
<1> DEFINE r == th[t]
           f == Top(r)
           r2 == [r EXCEPT !.pc = "victim"]
<1>1. r.pc = "mcas"
  BY DEF MoveLock
<1>2. /\ Fields(r) /\ Displacing(r, Good)
      /\ IsFrame(f)
  BY <1>1, MovingMover DEF MovePcs
<1>3. \A b : HoldsR(r, b) <=> b \in Below(r) \/ MigHolds(r, b)
  BY <1>1, MovingMover DEF MovePcs, TopHeld
<1>4. CASE ~Unmoved(f.b, f.snap)
  <2>1. Holding(Fail(r), r, Below(r), Good)
    BY <1>2, FailHolding
  <2>2. Set(t, Fail(r)) /\ UNCHANGED mem
    BY <1>4 DEF MoveLock
  <2> QED BY <1>1, <1>3, <2>1, <2>2, SameLocks DEF Holding
<1>5. CASE Unmoved(f.b, f.snap)
  <2>1. Set(t, r2) /\ Write(f.b, make_locked(mem[f.b], f.snap))
    BY <1>5 DEF MoveLock
  <2>2. f.b \in Good => f.b \notin Below(r) /\ ~MigHolds(r, f.b)
    <3>1. ~mem[f.b].dirty
      BY <1>5 DEF Unmoved
    <3> QED BY <1>3, <3>1, NotHeld
  <2> HIDE DEF f
  <2>3. r2.pc = "victim"
    BY <1>2 DEF Fields
  <2>4. /\ Fields(r2) /\ Displacing(r2, Good)
        /\ r2.mig = r.mig /\ Below(r2) = Below(r) /\ Top(r2) = f
    BY SMT, <1>2, <2>2, MoveOn DEF MovePcs, f
  <2> HIDE DEF r2
  <2>5. \A b \in Good : HoldsR(r2, b) <=> b = f.b \/ HoldsR(r, b)
    BY <1>3, <2>3, <2>4, MoveHolds DEF TopHeld
  <2>6. ThreadInv(r2, Good)
    BY <2>4 DEF ThreadInv
  <2> QED BY <1>1, <1>5, <2>1, <2>3, <2>5, <2>6, TakeLock
<1> QED BY <1>4, <1>5

LEMMA NoVictimStep ==
    ASSUME IInv, NEW t \in Threads, NoVictim(t)
    PROVE  IInv'
<1> DEFINE r == th[t]
           f == Top(r)
<1>1. /\ r.pc = "victim" /\ Set(t, Fail(r))
      /\ Write(f.b, set_unlocked(mem[f.b], f.snap, f.snap.fp))
  BY DEF NoVictim
<1>2. Fields(r) /\ Displacing(r, Good)
  BY <1>1, MovingMover DEF MovePcs
<1>3. /\ \A b : HoldsR(r, b) <=> b \in Below(r) \/ f.b = b \/ MigHolds(r, b)
      /\ f.b \in Good => f.b \notin Below(r) /\ ~MigHolds(r, f.b)
  BY <1>1, MovingMover DEF MovePcs, TopHeld
<1>4. Holding(Fail(r), r, Below(r), Good)
  BY <1>2, FailHolding
<1>5. f.b \in Buckets => "dirty" \in DOMAIN mem[f.b]
  BY DEF IInv, TableInv
<1> HIDE DEF f
<1>6. \A b \in Good : HoldsR(Fail(r), b) <=> b # f.b /\ HoldsR(r, b)
  BY <1>3, <1>4 DEF Holding
<1> QED BY <1>1, <1>3, <1>4, <1>5, <1>6, GiveLock DEF Holding
LEMMA PickVictimStep ==
    ASSUME IInv, NEW t \in Threads, PickVictim(t)
    PROVE  IInv'
<1> DEFINE r == th[t]
           f == Top(r)
<1>1. r.pc = "victim" /\ UNCHANGED mem
  BY DEF PickVictim
<1>2. \E s, alt, c, v :
        LET h == [f EXCEPT !.slot = s]
            r1 == WithTop(r, h, "victim")
        IN  \/ Set(t, NextVictim(r1))
            \/ h.extra /\ Set(t, Push(r1, Frame("same", [lvl |-> c, b |-> alt], v, FALSE)))
            \/ Set(t, WithTop(r, [h EXCEPT !.alt = alt, !.asnap = Line(alt)], "altcas"))
  BY DEF PickVictim
<1>3. PICK s, alt, c, v :
        LET h == [f EXCEPT !.slot = s]
            r1 == WithTop(r, h, "victim")
        IN  \/ Set(t, NextVictim(r1))
            \/ h.extra /\ Set(t, Push(r1, Frame("same", [lvl |-> c, b |-> alt], v, FALSE)))
            \/ Set(t, WithTop(r, [h EXCEPT !.alt = alt, !.asnap = Line(alt)], "altcas"))
  BY <1>2
<1> DEFINE h == [f EXCEPT !.slot = s]
           r1 == WithTop(r, h, "victim")
           g == Frame("same", [lvl |-> c, b |-> alt], v, FALSE)
           h2 == [h EXCEPT !.alt = alt, !.asnap = Line(alt)]
           r2 == WithTop(r, h2, "altcas")
<1>4. Fields(r) /\ Displacing(r, Good) /\ IsFrame(f)
  BY <1>1, MovingMover DEF MovePcs
<1>5. /\ \A b : HoldsR(r, b) <=> b \in Below(r) \/ f.b = b \/ MigHolds(r, b)
      /\ f.b \in Good => f.b \notin Below(r) /\ ~MigHolds(r, f.b)
  BY <1>1, MovingMover DEF MovePcs, TopHeld
<1>6. IsFrame(h) /\ h.b = f.b /\ h.extra = f.extra
  BY <1>4 DEF IsFrame
<1>7. IsFrame(h2) /\ h2.b = f.b /\ h2.extra = f.extra
  BY <1>6 DEF IsFrame
<1>8. IsFrame(g) /\ ~g.extra
  BY FrameShape
<1> HIDE DEF f, h, g, h2
<1>9. /\ Fields(r1) /\ Displacing(r1, Good)
      /\ r1.pc = "victim" /\ r1.mig = r.mig /\ Top(r1) = h /\ Below(r1) = Below(r)
  BY SMT, <1>4, <1>5, <1>6, MoveOn DEF MovePcs, f
<1>10. /\ Fields(r2) /\ Displacing(r2, Good)
       /\ r2.pc = "altcas" /\ r2.mig = r.mig /\ Top(r2) = h2 /\ Below(r2) = Below(r)
  BY SMT, <1>4, <1>5, <1>7, MoveOn DEF MovePcs, f
<1>11. \/ Set(t, NextVictim(r1))
       \/ h.extra /\ Set(t, Push(r1, g))
       \/ Set(t, r2)
  BY <1>3 DEF h, g, h2
<1> HIDE DEF r1, r2
<1>12. \A b : MigHolds(r1, b) <=> MigHolds(r, b)
  BY <1>9 DEF MigHolds
<1>13. CASE Set(t, NextVictim(r1))
  <2>1. Holding(NextVictim(r1), r1, Below(r1) \cup {h.b}, Good)
    BY <1>9, NextVictimHolding DEF TopHeld
  <2>2. \A b \in Good : HoldsR(NextVictim(r1), b) <=> HoldsR(r, b)
    BY <1>5, <1>6, <1>9, <1>12, <2>1 DEF Holding
  <2> QED BY <1>1, <1>13, <2>1, <2>2, SameLocks DEF Holding
<1>14. CASE h.extra /\ Set(t, Push(r1, g))
  <2> DEFINE x == r1.stack[1]
             y == r1.stack[2]
  <2>1. Moving(r1, Good)
    <3>1. CASE MovingTwice(r1, Good)
      <4>1. r1.stack = <<x, y>> /\ ~y.extra
        BY <3>1 DEF MovingTwice
      <4> HIDE DEF x, y
      <4>2. Top(r1) = y
        BY SMT, <4>1, StackTwo DEF Top
      <4> QED BY <1>9, <1>14, <4>1, <4>2
    <3> QED BY <1>9, <3>1 DEF Displacing
  <2>2. r1.stack = <<x>> /\ IsFrame(x)
    BY <2>1 DEF Moving
  <2> HIDE DEF x, y
  <2>3. x = h /\ Below(r) = {}
    <3>1. Top(r1) = x /\ Below(r1) = {}
      BY SMT, <2>2, StackOne DEF Top, Below
    <3> QED BY <1>9, <3>1
  <2>4. Holding(Push(r1, g), r1, {h.b}, Good)
    <3>1. Fields(r1) /\ r1.stack = <<h>> /\ IsFrame(h)
      BY <1>6, <1>9, <2>2, <2>3
    <3>2. h.b \in Good => ~MigHolds(r1, h.b)
      BY <1>5, <1>6, <1>12
    <3> QED BY <1>8, <3>1, <3>2, PushHolding
  <2>5. \A b \in Good : HoldsR(Push(r1, g), b) <=> HoldsR(r, b)
    BY <1>5, <1>6, <1>12, <2>3, <2>4 DEF Holding
  <2> QED BY <1>1, <1>14, <2>4, <2>5, SameLocks DEF Holding
<1>15. CASE Set(t, r2)
  <2>1. \A b \in Good : HoldsR(r2, b) <=> HoldsR(r, b)
    BY <1>5, <1>7, <1>10, MoveHolds DEF TopHeld
  <2>2. ThreadInv(r2, Good)
    BY <1>10 DEF ThreadInv
  <2> QED BY <1>1, <1>10, <1>15, <2>1, <2>2, SameLocks
<1> QED BY <1>11, <1>13, <1>14, <1>15

LEMMA LockAlternateStep ==
    ASSUME IInv, NEW t \in Threads, LockAlternate(t)
    PROVE  IInv'
<1> DEFINE r == th[t]
           f == Top(r)
           r2 == [r EXCEPT !.pc = "altput"]
<1>1. r.pc = "altcas"
  BY DEF LockAlternate
<1>2. Fields(r) /\ Displacing(r, Good) /\ IsFrame(f)
  BY <1>1, MovingMover DEF MovePcs
<1>3. /\ \A b : HoldsR(r, b) <=> b \in Below(r) \/ f.b = b \/ MigHolds(r, b)
      /\ f.b \in Good => f.b \notin Below(r) /\ ~MigHolds(r, f.b)
  BY <1>1, MovingMover DEF MovePcs, TopHeld
<1>4. CASE ~Unmoved(f.alt, f.asnap)
  <2>1. Holding(NextVictim(r), r, Below(r) \cup {f.b}, Good)
    BY <1>1, <1>2, NextVictimHolding DEF TopHeld
  <2>2. Set(t, NextVictim(r)) /\ UNCHANGED mem
    BY <1>4 DEF LockAlternate
  <2> HIDE DEF f
  <2>3. \A b \in Good : HoldsR(NextVictim(r), b) <=> HoldsR(r, b)
    BY <1>3, <2>1 DEF Holding
  <2> QED BY <1>1, <2>1, <2>2, <2>3, SameLocks DEF Holding
<1>5. CASE Unmoved(f.alt, f.asnap)
  <2>1. Set(t, r2) /\ Write(f.alt, make_locked(mem[f.alt], f.asnap))
    BY <1>5 DEF LockAlternate
  <2>2. f.alt \in Good => f.alt \notin Below(r) \cup {f.b} /\ ~MigHolds(r, f.alt)
    <3>1. ~mem[f.alt].dirty
      BY <1>5 DEF Unmoved
    <3> QED BY <1>3, <3>1, NotHeld
  <2> HIDE DEF f
  <2>3. r2.pc = "altput"
    BY <1>2 DEF Fields
  <2>4. /\ Fields(r2) /\ Displacing(r2, Good)
        /\ r2.mig = r.mig /\ Below(r2) = Below(r) /\ Top(r2) = f
    BY SMT, <1>2, <1>3, <2>2, MoveOn DEF MovePcs, f
  <2> HIDE DEF r2
  <2>5. \A b \in Good : HoldsR(r2, b) <=> b = f.alt \/ HoldsR(r, b)
    BY <1>3, <2>3, <2>4, MoveHolds DEF TopHeld
  <2>6. ThreadInv(r2, Good)
    BY <2>4 DEF ThreadInv
  <2> QED BY <1>1, <1>5, <2>1, <2>3, <2>5, <2>6, TakeLock
<1> QED BY <1>4, <1>5

LEMMA MoveVictimStep ==
    ASSUME IInv, NEW t \in Threads, MoveVictim(t)
    PROVE  IInv'
<1> DEFINE r == th[t]
           f == Top(r)
           a == find_empty_slot(f.asnap.fp)
           m == [mem[f.alt] EXCEPT !.val[a] = mem[f.b].val[f.slot]]
           fp == [f.asnap.fp EXCEPT ![a] = f.snap.fp[f.slot]]
           r2 == [r EXCEPT !.pc = "srcput"]
<1>1. r.pc = "altput" /\ Set(t, r2) /\ Write(f.alt, set_unlocked(m, f.asnap, fp))
  BY DEF MoveVictim
<1>2. Fields(r) /\ Displacing(r, Good) /\ IsFrame(f)
  BY <1>1, MovingMover DEF MovePcs
<1>3. /\ \A b : HoldsR(r, b) <=> b \in Below(r) \/ f.b = b \/ f.alt = b \/ MigHolds(r, b)
      /\ f.b \in Good => f.b \notin Below(r) /\ ~MigHolds(r, f.b)
      /\ f.alt \in Good => f.alt \notin Below(r) \cup {f.b} /\ ~MigHolds(r, f.alt)
  BY <1>1, MovingMover DEF MovePcs, TopHeld
<1>4. f.alt \in Buckets => "dirty" \in DOMAIN m
  BY DEF IInv, TableInv
<1> HIDE DEF f, m, fp
<1>5. r2.pc = "srcput"
  BY <1>2 DEF Fields
<1>6. /\ Fields(r2) /\ Displacing(r2, Good)
      /\ r2.mig = r.mig /\ Below(r2) = Below(r) /\ Top(r2) = f
  BY SMT, <1>2, <1>3, MoveOn DEF MovePcs, f
<1> HIDE DEF r2
<1>7. \A b \in Good : HoldsR(r2, b) <=> b # f.alt /\ HoldsR(r, b)
  BY <1>3, <1>5, <1>6, MoveHolds DEF TopHeld
<1>8. ThreadInv(r2, Good)
  BY <1>6 DEF ThreadInv
<1> QED BY SMT, <1>1, <1>3, <1>4, <1>5, <1>7, <1>8, GiveLock

LEMMA WriteSourceStep ==
    ASSUME IInv, NEW t \in Threads, WriteSource(t)
    PROVE  IInv'
<1> DEFINE r == th[t]
           f == Top(r)
           r2 == [r EXCEPT !.pc = "srccommit"]
<1>1. /\ r.pc = "srcput" /\ Set(t, r2)
      /\ mem' = [mem EXCEPT ![f.b].val[f.slot] = f.item]
  BY DEF WriteSource
<1>2. Fields(r) /\ Displacing(r, Good) /\ IsFrame(f)
  BY <1>1, MovingMover DEF MovePcs
<1>3. /\ \A b : HoldsR(r, b) <=> b \in Below(r) \/ f.b = b \/ MigHolds(r, b)
      /\ f.b \in Good => f.b \notin Below(r) /\ ~MigHolds(r, f.b)
  BY <1>1, MovingMover DEF MovePcs, TopHeld
<1> HIDE DEF f
<1>4. r2.pc = "srccommit"
  BY <1>2 DEF Fields
<1>5. /\ Fields(r2) /\ Displacing(r2, Good)
      /\ r2.mig = r.mig /\ Below(r2) = Below(r) /\ Top(r2) = f
  BY SMT, <1>2, <1>3, MoveOn DEF MovePcs, f
<1> HIDE DEF r2
<1>6. \A b \in Good : HoldsR(r2, b) <=> HoldsR(r, b)
  BY <1>3, <1>4, <1>5, MoveHolds DEF TopHeld
<1>7. ThreadInv(r2, Good)
  BY <1>5 DEF ThreadInv
<1> QED BY <1>1, <1>4, <1>6, <1>7, StoreValue

(* The last frame is done: its bucket is unlocked, and the frame below it,    *)
(* whose bucket stays locked, goes on.                                        *)
LEMMA CommitSourceStep ==
    ASSUME IInv, NEW t \in Threads, CommitSource(t)
    PROVE  IInv'
<1> DEFINE r == th[t]
           f == Top(r)
           fp == [f.snap.fp EXCEPT ![f.slot] = f.item.key]
           r1 == [r EXCEPT !.stack = Pop(@), !.pc = "srcput"]
           r2 == IF Len(r.stack) = 1 THEN Placed(r) ELSE r1
<1>1. /\ r.pc = "srccommit" /\ Set(t, r2)
      /\ Write(f.b, set_unlocked(mem[f.b], f.snap, fp))
  BY DEF CommitSource
<1>2. Fields(r) /\ Displacing(r, Good)
  BY <1>1, MovingMover DEF MovePcs
<1>3. /\ \A b : HoldsR(r, b) <=> b \in Below(r) \/ f.b = b \/ MigHolds(r, b)
      /\ f.b \in Good => f.b \notin Below(r) /\ ~MigHolds(r, f.b)
  BY <1>1, MovingMover DEF MovePcs, TopHeld
<1>4. f.b \in Buckets => "dirty" \in DOMAIN mem[f.b]
  BY DEF IInv, TableInv
<1>5. Holding(r2, r, Below(r), Good)
  <2>1. CASE Moving(r, Good)
    <3> DEFINE x == r.stack[1]
    <3>1. r.stack = <<x>>
      BY <2>1 DEF Moving
    <3> HIDE DEF x
    <3>2. Len(r.stack) = 1 /\ Below(r) = {}
      BY SMT, <3>1, StackOne DEF Below
    <3>3. Settled(Placed(r), r, Good)
      BY <1>2, PlacedSettled
    <3> QED BY <3>2, <3>3 DEF Settled, Holding
  <2>2. CASE MovingTwice(r, Good)
    <3> DEFINE x == r.stack[1]
               y == r.stack[2]
    <3>1. /\ r.stack = <<x, y>> /\ IsFrame(x)
          /\ x.b \in Good => ~MigHolds(r, x.b)
      BY <2>2 DEF MovingTwice
    <3> HIDE DEF x, y
    <3>2. Len(r.stack) = 2 /\ Below(r) = {x.b} /\ Pop(r.stack) = <<x>>
      BY SMT, <3>1, StackTwo DEF Below
    <3>3. /\ Fields(r1) /\ r1.stack = <<x>> /\ r1.pc = "srcput"
          /\ r1.mig = r.mig /\ r2 = r1
      BY SMT, <1>2, <3>2 DEF Fields
    <3> HIDE DEF r1, r2
    <3>4. \A b : HoldsR(r1, b) <=> b = x.b \/ MigHolds(r, b)
      BY SMT, <3>3, HoldsOneFrame DEF TopHeld, MigHolds, MovePcs
    <3>5. r1.stack[1] = x
      BY <3>3, StackOne
    <3>6. Moving(r1, Good)
      BY <3>1, <3>3, <3>5 DEF Moving, MigHolds, MovePcs
    <3>7. ThreadInv(r1, Good)
      BY <3>3, <3>6 DEF ThreadInv, Displacing
    <3> QED BY <3>2, <3>3, <3>4, <3>7 DEF Holding
  <2> QED BY <1>2, <2>1, <2>2 DEF Displacing
<1> HIDE DEF f, fp, r2
<1>6. \A b \in Good : HoldsR(r2, b) <=> b # f.b /\ HoldsR(r, b)
  BY <1>3, <1>5 DEF Holding
<1> QED BY <1>1, <1>3, <1>4, <1>5, <1>6, GiveLock DEF Holding

LEMMA MoveInvariant ==
    ASSUME IInv, NEW t \in Threads, MoveStep(t)
    PROVE  IInv'
BY MoveReadStep, MoveLockStep, NoVictimStep, PickVictimStep, LockAlternateStep,
   MoveVictimStep, WriteSourceStep, CommitSourceStep DEF MoveStep

(*---------------------------------------------------------------------------*)
(* The whole table.                                                          *)

(* A table to start from has no locked bucket, and no thread has any.         *)
LEMMA InitInvariant ==
    ASSUME Init
    PROVE  IInv
<1>1. PICK p \in Preloads :
        /\ mem = p.table
        /\ th = [t \in Threads |->
              IF p.full[t] = NoCall
                THEN Idle(p.plan[t])
                ELSE [Idle(p.plan[t]) EXCEPT !.pc = "full", !.call = p.full[t],
                        !.item = [key |-> p.full[t].key, val |-> p.full[t].val]]]
  BY DEF Init
<1>2. /\ DOMAIN mem = Buckets
      /\ \A b \in Buckets : "dirty" \in DOMAIN mem[b] /\ mem[b].dirty = FALSE
  BY <1>1, HashtableResizeAssumption
<1>3. DOMAIN th = Threads
  BY <1>1
<1>4. ASSUME NEW t \in Threads
      PROVE  Fields(th[t]) /\ Resting(th[t])
  <2>1. \/ th[t] = Idle(p.plan[t])
        \/ \E c, i, q : /\ q \in RestPcs
                        /\ th[t] = [Idle(p.plan[t]) EXCEPT !.pc = q, !.call = c, !.item = i]
    BY <1>1 DEF RestPcs
  <2> QED BY <2>1, IdleShape
<1>5. \A t \in Threads, b \in Buckets : ~HoldsR(th[t], b)
  BY <1>4, HoldsNoFrame DEF Resting, RestPcs, MigHolds
<1>6. Good \subseteq Buckets
  BY DEF Good
<1>7. ThreadsInv
  BY <1>4 DEF ThreadsInv, ThreadInv
<1> QED BY <1>2, <1>3, <1>5, <1>6, <1>7 DEF IInv, TableInv, LockInv

LEMMA NextInvariant ==
    ASSUME TimelyHolders, IInv, [Next]_vars
    PROVE  IInv'
<1>1. CASE Next
  <2>1. PICK t \in Threads : ResizeStep(t) \/ ProbeStep(t) \/ MoveStep(t)
    BY <1>1 DEF Next, Step
  <2> QED BY <2>1, ResizeInvariant, ProbeInvariant, MoveInvariant
<1>2. CASE UNCHANGED vars
  <2>1. mem' = mem /\ th' = th
    BY <1>2 DEF vars
  <2>2. Good' = Good
    BY <2>1 DEF Good, DiedHolding
  <2> QED BY <2>1, <2>2 DEF IInv, TableInv, ThreadsInv, LockInv
<1> QED BY <1>1, <1>2

(* What every thread holds at its program counter, and which buckets are      *)
(* locked, as IInv says it, is so throughout every run of the index: an       *)
(* operation, a displacement (level_hashtable.h, try_migrate_and_insert) and  *)
(* a migration step of a resize hold different buckets.  Holders that run are *)
(* assumed to unlock before a waiting thread loses patience.                  *)
THEOREM LockProtocol == TimelyHolders => (Spec => []IInv)
<1> SUFFICES ASSUME TimelyHolders
             PROVE  Spec => []IInv
  OBVIOUS
<1>1. Init => IInv
  BY InitInvariant
<1>2. IInv /\ [Next]_vars => IInv'
  BY NextInvariant
<1> QED BY <1>1, <1>2, PTL DEF Spec

(* A bucket's lock bit is never set without a thread that will clear it, and  *)
(* two threads never hold the same bucket, unless one of them stopped inside  *)
(* its critical section and wait_for_unlock took its lock away.  Of a running *)
(* holder wait_for_unlock is assumed not to take it.                          *)
THEOREM LocksExclusive == TimelyHolders => (Spec => []LocksHaveOneHolder)
<1>1. ASSUME IInv
      PROVE  LocksHaveOneHolder
  <2> SUFFICES ASSUME NEW b \in Buckets
               PROVE  LET H == {t \in Threads : Holds(t, b)}
                      IN  /\ mem[b].dirty => H # {}
                          /\ Cardinality(H) <= 1 \/ \E t \in H : th[t].pc = "dead"
    BY DEF LocksHaveOneHolder
  <2> DEFINE H == {t \in Threads : Holds(t, b)}
  <2>1. \A t : Holds(t, b) <=> HoldsR(th[t], b)
    BY DEF Holds, HoldsR
  <2>2. mem[b].dirty => H # {}
    BY <1>1, <2>1 DEF IInv, LockInv
  <2>3. ASSUME \A t \in H : th[t].pc # "dead"
        PROVE  Cardinality(H) <= 1
    <3>1. b \in Good
      <4>1. ASSUME NEW u \in Threads, th[u].pc = "dead", Cand(th[u]).b = b
            PROVE  FALSE
        <5>1. Holds(u, b)
          BY <4>1 DEF Holds
        <5> QED BY <2>3, <4>1, <5>1
      <4> QED BY <4>1 DEF Good, DiedHolding
    <3>2. \A t, u \in H : t = u
      BY <1>1, <2>1, <3>1 DEF IInv, LockInv
    <3> HIDE DEF H
    <3>3. CASE H = {}
      BY SMT, <3>3, FS_EmptySet
    <3>4. CASE H # {}
      <4>1. PICK x : x \in H
        BY <3>4
      <4>2. H = {x}
        BY <3>2, <4>1
      <4> QED BY SMT, <4>2, FS_Singleton
    <3> QED BY <3>3, <3>4
  <2> QED BY <2>2, <2>3
<1> QED BY <1>1, LockProtocol, PTL


=============================================================================
