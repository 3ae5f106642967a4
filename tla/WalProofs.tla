------------------------------ MODULE WalProofs ------------------------------
(***************************************************************************)
(* Proofs about the log ring and its checkpoint thread for every number of *)
(* writers, ring capacity, record size, batch threshold and stall limit,   *)
(* under the assumption (Timely) that a live writer publishes before the   *)
(* orphan rule of CheckpointLoop gives its slot up.                        *)
(*                                                                         *)
(* In order: the inductive invariant IInv, the arithmetic of slots and     *)
(* laps, type correctness; the inductive step for the writers, one lemma   *)
(* per action of CompactWAL; the inductive step for the checkpoint thread, *)
(* one lemma per action of WalCheckpoint; the theorems.                    *)
(***************************************************************************)
EXTENDS WalCheckpoint, TLAPS

(* Leaves are Zenon's unless they name SMT.                                   *)
USE ZenonT(30)

Timely == TimelyWriters = TRUE

Live(w) == pc[w] = "write"

(* The first position the checkpoint thread has not replayed.                 *)
Cursor == IF cpc \in {"replay", "promote"} THEN replay_pos ELSE CaughtUpPending

AppliedIds == {applied[i] : i \in DOMAIN applied}

(* How the positions lie: checkpoint_pos_ <= Cursor <= head_, less than one   *)
(* lap apart; a writer about to swap head_ has room with any later cp.        *)
PositionsInv ==
    /\ checkpoint_pos_ <= Cursor /\ Cursor <= head_
    /\ head_ - checkpoint_pos_ < Capacity
    /\ pending_main_pos_ <= Cursor
    /\ snapshot <= head_
    /\ cpc \in {"replay", "promote", "sync", "clear"} =>
         checkpoint_pos_ <= pending_main_pos_
    /\ cpc = "clear" => /\ checkpoint_pos_ <= clear_pos
                        /\ clear_pos <= pending_main_pos_
    /\ \A w \in Writers : pc[w] = "cas" =>
         cur_head[w] + 1 + cont_count[w] - checkpoint_pos_ < Capacity

(* Records, published or being written, lie below head_ and do not overlap;   *)
(* those being written have not been passed by the thread.                    *)
RecordsInv ==
    /\ \A r \in published : r.id + r.cont < head_
    /\ \A r, s \in published :
         r # s => r.id + r.cont < s.id \/ s.id + s.cont < r.id
    /\ \A w \in Writers : Live(w) =>
         /\ Cursor <= cur_head[w]
         /\ cur_head[w] + cont_count[w] < head_
         /\ unwritten[w] <= cont_count[w]
         /\ \A r \in published :
              r.id + r.cont < cur_head[w] \/ cur_head[w] + cont_count[w] < r.id
    /\ \A v, w \in Writers : v # w /\ Live(v) /\ Live(w) =>
         \/ cur_head[v] + cont_count[v] < cur_head[w]
         \/ cur_head[w] + cont_count[w] < cur_head[v]

(* A position the next lap may reserve; the slot an orphan skip has passed    *)
(* and not yet cleared is not among them.                                     *)
Free(q) ==
    /\ head_ <= q
    /\ q < checkpoint_pos_ + Capacity
    /\ cpc = "skip_clear" => q # checkpoint_pos_ + Capacity - 1

(* A ready slot of the window is the primary of a published record.           *)
ReadyInv ==
    \A q \in Nat : checkpoint_pos_ <= q /\ q < head_ /\ IsReady(At(q)) =>
        \E r \in published : r.id = q /\ At(q) = PrimarySlot(q, r.cont)

(* Free slots, and those ClearRange has gone over, are not ready.             *)
FreeInv == \A q \in Nat : Free(q) => ~IsReady(At(q))

ClearedInv ==
    cpc = "clear" =>
        \A q \in Nat : checkpoint_pos_ <= q /\ q < clear_pos => ~IsReady(At(q))

(* The continuations a live writer has stored are in place.                   *)
StoredInv ==
    \A w \in Writers : Live(w) =>
        \A i \in 1..cont_count[w] : unwritten[w] < i =>
            At(cur_head[w] + i) = ContinuationSlot(cur_head[w], i)

(* The slot an orphan skip is about to pass belongs to no live writer and to  *)
(* no published record.                                                       *)
SkipInv ==
    /\ cpc = "skip_advance" => /\ checkpoint_pos_ < head_
                               /\ ~IsReady(At(checkpoint_pos_))
                               /\ \A w \in Writers : Live(w) =>
                                    checkpoint_pos_ < cur_head[w]
    /\ cpc = "skip_clear" => checkpoint_pos_ > 0

SlotsInv == ReadyInv /\ FreeInv /\ ClearedInv /\ StoredInv /\ SkipInv /\ AckedNeverLost

(* What has been replayed and synced.                                         *)
HistoryInv ==
    /\ ReplayedOnceInOrder
    /\ \A i \in DOMAIN applied : applied[i] < Cursor
    /\ durable \subseteq AppliedIds
    /\ \A r \in published : r.id < Cursor => r.id \in AppliedIds
    /\ cpc = "clear" =>
         \A r \in published : r.id < pending_main_pos_ => r.id \in durable

IInv == TypeOK /\ PositionsInv /\ RecordsInv /\ SlotsInv /\ HistoryInv

-----------------------------------------------------------------------------
(* Slots: positions less than a lap apart never share a slot of the ring      *)
(* (ring_[pos & capacity_mask_]), positions a lap apart always do.            *)

LEMMA DivMod ==
    ASSUME NEW a \in Nat, NEW C \in Nat \ {0}
    PROVE  /\ a \div C \in Nat /\ a % C \in 0..C-1
           /\ a = C * (a \div C) + (a % C)
BY SMT

LEMMA ModDistinct ==
    ASSUME NEW C \in Nat \ {0}, NEW a \in Nat, NEW b \in Nat, a < b, b - a < C
    PROVE  a % C # b % C
<1> DEFINE qa == a \div C
           qb == b \div C
           d == qb - qa
<1>1. /\ qa \in Nat /\ qb \in Nat
      /\ a = C * qa + (a % C) /\ b = C * qb + (b % C)
      /\ a % C \in 0..C-1 /\ b % C \in 0..C-1
  BY DivMod
<1>2. SUFFICES ASSUME a % C = b % C PROVE FALSE
  OBVIOUS
<1>3. d \in Int /\ C * qb - C * qa = C * d
  BY SMT, <1>1
<1>4. b - a = C * d
  BY SMT, <1>1, <1>2, <1>3
<1> HIDE DEF qa, qb, d
<1>5. CASE d <= 0
  <2>1. C * d <= 0
    BY SMT, <1>3, <1>5
  <2> QED
    BY SMT, <1>4, <2>1
<1>6. CASE d >= 1
  <2>1. C * d >= C
    BY SMT, <1>3, <1>6
  <2> QED
    BY SMT, <1>4, <2>1
<1> QED
  BY SMT, <1>3, <1>5, <1>6

LEMMA ModShift ==
    ASSUME NEW C \in Nat \ {0}, NEW a \in Nat
    PROVE  (a + C) % C = a % C
<1> DEFINE q == (a + C) \div C
           p == a \div C
           d == q - p
           e == (a % C) - ((a + C) % C)
<1>0. a + C \in Nat
  BY SMT
<1>1. /\ p \in Nat /\ q \in Nat
      /\ a = C * p + (a % C) /\ a + C = C * q + ((a + C) % C)
      /\ a % C \in 0..C-1 /\ (a + C) % C \in 0..C-1
  BY <1>0, DivMod
<1>2. d \in Int /\ C * q - C * p = C * d
  BY SMT, <1>1
<1>3. e \in Int /\ -C < e /\ e < C /\ C + e = C * d
  BY SMT, <1>1, <1>2
<1> HIDE DEF p, q, d
<1>4. CASE d <= 0
  <2>1. C * d <= 0
    BY SMT, <1>2, <1>4
  <2> QED
    BY SMT, <1>3, <2>1
<1>5. CASE d >= 2
  <2>1. C * d >= C + C
    BY SMT, <1>2, <1>5
  <2> QED
    BY SMT, <1>3, <2>1
<1>6. CASE d = 1
  BY SMT, <1>1, <1>3, <1>6
<1> QED
  BY SMT, <1>2, <1>4, <1>5, <1>6

(* A store to the slot of position p (DramWrite) changes p, and p a lap       *)
(* later, and no position less than a lap away.                               *)
LEMMA SlotWrite ==
    ASSUME ring_ \in [0..Capacity-1 -> Slot], NEW p \in Nat, NEW v,
           ring_' = [ring_ EXCEPT ![p % Capacity] = v]
    PROVE  /\ At(p)' = v
           /\ At(p + Capacity)' = v
           /\ \A q \in Nat : q # p /\ q < p + Capacity /\ p < q + Capacity =>
                At(q)' = At(q)
<1>1. Capacity \in Nat \ {0}
  BY CompactWALAssumption
<1>2. p % Capacity \in 0..Capacity-1
  BY <1>1, DivMod
<1>3. At(p)' = v
  BY <1>2 DEF At
<1>4. At(p + Capacity)' = v
  BY <1>1, <1>2, ModShift DEF At
<1>5. ASSUME NEW q \in Nat, q # p, q < p + Capacity, p < q + Capacity
      PROVE  At(q)' = At(q)
  <2>1. q % Capacity \in 0..Capacity-1
    BY <1>1, DivMod
  <2>2. q % Capacity # p % Capacity
    <3>1. CASE q < p
      <4>1. p - q < Capacity
        BY SMT, <1>1, <1>5
      <4> QED
        BY <1>1, <3>1, <4>1, ModDistinct
    <3>2. CASE p < q
      <4>1. q - p < Capacity
        BY SMT, <1>1, <1>5
      <4> QED
        BY <1>1, <3>2, <4>1, ModDistinct
    <3> QED
      BY SMT, <1>5, <3>1, <3>2
  <2> QED
    BY <1>2, <2>1, <2>2 DEF At
<1> QED
  BY <1>3, <1>4, <1>5

LEMMA SlotKinds ==
    /\ ~IsReady(EmptySlot)
    /\ \A id, i : IsReady(PrimarySlot(id, i)) /\ ~IsReady(ContinuationSlot(id, i))
BY DEF IsReady, EmptySlot, PrimarySlot, ContinuationSlot

-----------------------------------------------------------------------------
(* Types.                                                                     *)

LEMMA AtType ==
    ASSUME TypeOK, NEW p \in Nat
    PROVE  At(p) \in Slot
<1>1. p % Capacity \in 0..Capacity-1
  BY CompactWALAssumption, DivMod
<1> QED
  BY <1>1 DEF TypeOK, At

(* Every step of a writer or of the checkpoint thread keeps the types.        *)
LEMMA TypeStep == TypeOK /\ [Next]_vars => TypeOK'
<1> SUFFICES ASSUME TypeOK, [Next]_vars PROVE TypeOK'
  OBVIOUS
<1> USE CompactWALAssumption, WalCheckpointAssumption
<1> USE DEF TypeOK, walVars, ckVars
<1>1. ASSUME NEW due \in BOOLEAN, NEW remote_work \in BOOLEAN,
             BeginCycle(due, remote_work)
      PROVE  TypeOK'
  BY <1>1, SMTT(40) DEF BeginCycle, CaughtUpPending
<1>2. CASE ReplayRecord
  <2>1. At(replay_pos) \in Slot
    BY AtType
  <2>2. At(replay_pos).id \in Nat /\ SlotCount(At(replay_pos)) \in Nat
    BY SMT, <2>1 DEF Slot, SlotCount
  <2> QED
    BY <1>2, <2>2, SMTT(40) DEF ReplayRecord
<1>3. CASE StopReplay
  BY <1>3 DEF StopReplay
<1>4. CASE \E remote_full \in BOOLEAN : Promote(remote_full)
  BY <1>4 DEF Promote
<1>5. CASE SyncRegions
  BY SMT, <1>5 DEF SyncRegions
<1>6. CASE ClearOne
  BY <1>6, SMTT(40) DEF ClearOne, ClearSlot, EmptySlot, Slot
<1>7. CASE Advance
  BY <1>7 DEF Advance, AdvanceCheckpoint
<1>8. CASE AfterCycle
  BY SMT, <1>8 DEF AfterCycle
<1>9. CASE SkipAdvance
  BY SMT, <1>9 DEF SkipAdvance, AdvanceCheckpoint
<1>10. CASE SkipClear
  BY <1>10, SMTT(40) DEF SkipClear, ClearSlot, EmptySlot, Slot
<1>11. ASSUME NEW w \in Writers, WriterNext(w)
       PROVE  TypeOK'
  <2>1. CASE LoadHead(w)
    BY <1>11, <2>1 DEF WriterNext, LoadHead
  <2>2. CASE CheckSpace(w)
    BY <1>11, <2>2 DEF WriterNext, CheckSpace
  <2>3. CASE CasHead(w)
    <3>1. CASE head_ = cur_head[w]
      <4>0. cont_count[w] \in 0..MaxCont
        OBVIOUS
      <4>1. head_' \in Nat
        BY SMT, <2>3, <3>1, <4>0 DEF CasHead
      <4>3. unwritten' \in [Writers -> 0..MaxCont]
        BY <2>3, <3>1, <4>0 DEF CasHead
      <4>2. pc' \in [Writers -> {"idle", "check", "cas", "write", "dead"}]
        BY <2>3, <3>1 DEF CasHead
      <4> QED
        BY <1>11, <2>3, <3>1, <4>1, <4>2, <4>3 DEF WriterNext, CasHead
    <3>2. CASE head_ # cur_head[w]
      <4>1. cur_head' \in [Writers -> Nat]
        BY <2>3, <3>2 DEF CasHead
      <4>2. pc' \in [Writers -> {"idle", "check", "cas", "write", "dead"}]
        BY <2>3, <3>2 DEF CasHead
      <4> QED
        BY <1>11, <2>3, <3>2, <4>1, <4>2 DEF WriterNext, CasHead
    <3> QED
      BY <3>1, <3>2
  <2>4. CASE WriteContinuation(w)
    <3>1. ContinuationSlot(cur_head[w], unwritten[w]) \in Slot
      BY DEF ContinuationSlot, Slot
    <3>2. ring_' \in [0..Capacity-1 -> Slot]
      BY <2>4, <3>1 DEF WriteContinuation
    <3>3. unwritten' \in [Writers -> 0..MaxCont]
      BY SMT, <2>4 DEF WriteContinuation
    <3> QED
      BY <1>11, <2>4, <3>2, <3>3 DEF WriterNext, WriteContinuation
  <2>5. CASE Publish(w)
    <3>1. PrimarySlot(cur_head[w], cont_count[w]) \in Slot
      BY DEF PrimarySlot, Slot
    <3>2. ring_' \in [0..Capacity-1 -> Slot]
      BY <2>5, <3>1 DEF Publish
    <3>3. [id |-> cur_head[w], cont |-> cont_count[w]] \in [id : Nat, cont : 0..MaxCont]
      OBVIOUS
    <3>4. published' \in SUBSET [id : Nat, cont : 0..MaxCont]
      BY <2>5, <3>3 DEF Publish
    <3>5. pc' \in [Writers -> {"idle", "check", "cas", "write", "dead"}]
      BY <2>5 DEF Publish
    <3> QED
      BY <1>11, <2>5, <3>2, <3>4, <3>5 DEF WriterNext, Publish
  <2>6. CASE CrashMidAppend(w)
    BY <1>11, <2>6 DEF WriterNext, CrashMidAppend
  <2> QED
    BY <1>11, <2>1, <2>2, <2>3, <2>4, <2>5, <2>6 DEF WriterNext, WriterStep
<1>12. CASE UNCHANGED vars
  BY <1>12 DEF vars
<1> QED
  BY <1>1, <1>2, <1>3, <1>4, <1>5, <1>6, <1>7, <1>8, <1>9, <1>10, <1>11, <1>12
     DEF Next, CheckpointStep

LEMMA TypeInit == Init => TypeOK
<1> SUFFICES ASSUME Init PROVE TypeOK
  OBVIOUS
<1>1. EmptySlot \in Slot
  BY SMT, CompactWALAssumption DEF EmptySlot, Slot
<1>2. ring_ \in [0..Capacity-1 -> Slot]
  BY <1>1 DEF Init, WalInit
<1>3. /\ pc \in [Writers -> {"idle", "check", "cas", "write", "dead"}]
      /\ cur_head \in [Writers -> Nat]
  BY DEF Init, WalInit
<1>4. 0 \in 0..MaxCont
  BY SMT, CompactWALAssumption
<1>5. /\ cont_count \in [Writers -> 0..MaxCont]
      /\ unwritten \in [Writers -> 0..MaxCont]
  BY <1>4 DEF Init, WalInit
<1>6. stall \in 0..StallRounds-1 /\ applied \in Seq(Nat)
  BY SMT, WalCheckpointAssumption DEF Init, CkInit
<1> QED
  BY <1>2, <1>3, <1>5, <1>6 DEF Init, WalInit, CkInit, TypeOK

(* The ring, the writers' local state and the checkpoint thread's state keep  *)
(* their types through every interleaving.                                    *)
THEOREM TypeCorrect == Spec => []TypeOK
BY TypeInit, TypeStep, PTL DEF Spec

-----------------------------------------------------------------------------
(* The inductive step, one lemma per action or group of actions.              *)

LEMMA SlotKeep ==
    ASSUME UNCHANGED ring_
    PROVE  \A q : At(q)' = At(q)
BY DEF At

(* A step of the checkpoint thread that moves neither the ring, nor the       *)
(* cursor, nor the histories.                                                 *)
LEMMA QuietStep ==
    ASSUME IInv, UNCHANGED walVars, Cursor' = Cursor, UNCHANGED <<applied, durable>>,
           cpc # "skip_clear", cpc' \notin {"clear", "skip_clear"}, SkipInv'
    PROVE  RecordsInv' /\ SlotsInv' /\ HistoryInv'
<1>1. \A q : At(q)' = At(q)
  BY SlotKeep DEF walVars
<1>2. RecordsInv'
  BY DEF IInv, RecordsInv, walVars, Live
<1>3. ReadyInv'
  BY <1>1 DEF IInv, SlotsInv, ReadyInv, walVars
<1>4. FreeInv'
  BY <1>1 DEF IInv, SlotsInv, FreeInv, Free, walVars
<1>5. ClearedInv'
  BY DEF ClearedInv
<1>6. StoredInv'
  BY <1>1 DEF IInv, SlotsInv, StoredInv, walVars, Live
<1>7. AckedNeverLost'
  BY <1>1 DEF IInv, SlotsInv, AckedNeverLost, RecordIntact, walVars
<1>8. HistoryInv'
  BY DEF IInv, HistoryInv, ReplayedOnceInOrder, AppliedIds, walVars
<1> QED
  BY <1>2, <1>3, <1>4, <1>5, <1>6, <1>7, <1>8 DEF SlotsInv

(* A step of a writer on its own variables that makes no record live.         *)
LEMMA WriterLocalStep ==
    ASSUME IInv, UNCHANGED <<head_, checkpoint_pos_, ring_, published>>,
           UNCHANGED ckVars,
           \A v \in Writers : Live(v)' =>
               /\ Live(v)
               /\ cur_head'[v] = cur_head[v]
               /\ cont_count'[v] = cont_count[v]
               /\ unwritten'[v] = unwritten[v]
    PROVE  RecordsInv' /\ SlotsInv' /\ HistoryInv'
<1>1. \A q : At(q)' = At(q)
  BY SlotKeep
<1>2. Cursor' = Cursor
  BY DEF Cursor, CaughtUpPending, ckVars
<1>3. RecordsInv'
  BY <1>2 DEF IInv, RecordsInv
<1>4. ReadyInv'
  BY <1>1 DEF IInv, SlotsInv, ReadyInv
<1>5. FreeInv' /\ ClearedInv'
  BY <1>1 DEF IInv, SlotsInv, FreeInv, Free, ClearedInv, ckVars
<1>6. StoredInv'
  BY <1>1 DEF IInv, SlotsInv, StoredInv
<1>7. SkipInv'
  BY <1>1 DEF IInv, SlotsInv, SkipInv, ckVars
<1>8. AckedNeverLost'
  BY <1>1 DEF IInv, SlotsInv, AckedNeverLost, RecordIntact, ckVars
<1>9. HistoryInv'
  BY <1>2 DEF IInv, HistoryInv, ReplayedOnceInOrder, AppliedIds, ckVars
<1> QED
  BY <1>3, <1>4, <1>5, <1>6, <1>7, <1>8, <1>9 DEF SlotsInv

Rest == PositionsInv /\ RecordsInv /\ SlotsInv /\ HistoryInv

------------------------------------------------------------------------------
(* The writers, action by action.                                           *)

LEMMA CursorKeep ==
    ASSUME UNCHANGED ckVars, UNCHANGED checkpoint_pos_
    PROVE  Cursor' = Cursor
BY DEF Cursor, CaughtUpPending, ckVars

LEMMA LoadHeadStep ==
    ASSUME IInv, NEW w \in Writers, LoadHead(w), UNCHANGED ckVars
    PROVE  Rest'
<1> USE DEF IInv, TypeOK
<1>1. \A v \in Writers : Live(v)' =>
        /\ Live(v)
        /\ cur_head'[v] = cur_head[v]
        /\ cont_count'[v] = cont_count[v]
        /\ unwritten'[v] = unwritten[v]
  BY DEF LoadHead, Live
<1>2. UNCHANGED <<head_, checkpoint_pos_, ring_, published>>
  BY DEF LoadHead
<1>3. \A v \in Writers : pc'[v] = "cas" =>
        pc[v] = "cas" /\ cur_head'[v] = cur_head[v] /\ cont_count'[v] = cont_count[v]
  BY DEF LoadHead
<1>4. PositionsInv'
  BY <1>2, <1>3, CursorKeep DEF PositionsInv, ckVars
<1> QED
  BY <1>1, <1>2, <1>4, WriterLocalStep DEF Rest

(* The space test.                                                            *)
LEMMA CheckSpaceStep ==
    ASSUME IInv, NEW w \in Writers, CheckSpace(w), UNCHANGED ckVars
    PROVE  Rest'
<1> USE DEF IInv, TypeOK
<1>1. \A v \in Writers : Live(v)' =>
        /\ Live(v)
        /\ cur_head'[v] = cur_head[v]
        /\ cont_count'[v] = cont_count[v]
        /\ unwritten'[v] = unwritten[v]
  BY DEF CheckSpace, Live
<1>2. UNCHANGED <<head_, checkpoint_pos_, ring_, published, cur_head, cont_count>>
  BY DEF CheckSpace
<1>3. ASSUME NEW v \in Writers, pc'[v] = "cas"
      PROVE  cur_head[v] + 1 + cont_count[v] - checkpoint_pos_ < Capacity
  <2>1. CASE v = w
    BY SMT, <1>3, <2>1, CompactWALAssumption DEF CheckSpace, HasRoom
  <2>2. CASE v # w
    BY <1>3, <2>2 DEF CheckSpace, PositionsInv
  <2> QED
    BY <2>1, <2>2
<1>4. PositionsInv'
  BY <1>2, <1>3, CursorKeep DEF PositionsInv, ckVars
<1> QED
  BY <1>1, <1>2, <1>4, WriterLocalStep DEF Rest

LEMMA CrashStep ==
    ASSUME IInv, NEW w \in Writers, CrashMidAppend(w), UNCHANGED ckVars
    PROVE  Rest'
<1> USE DEF IInv, TypeOK
<1>1. \A v \in Writers : Live(v)' =>
        /\ Live(v)
        /\ cur_head'[v] = cur_head[v]
        /\ cont_count'[v] = cont_count[v]
        /\ unwritten'[v] = unwritten[v]
  BY DEF CrashMidAppend, Live
<1>2. UNCHANGED <<head_, checkpoint_pos_, ring_, published, cur_head, cont_count>>
  BY DEF CrashMidAppend
<1>3. \A v \in Writers : pc'[v] = "cas" => pc[v] = "cas"
  BY DEF CrashMidAppend
<1>4. PositionsInv'
  BY <1>2, <1>3, CursorKeep DEF PositionsInv, ckVars
<1> QED
  BY <1>1, <1>2, <1>4, WriterLocalStep DEF Rest

LEMMA ReservedBelowLap ==
    ASSUME NEW q \in Nat, NEW h \in Nat, NEW p \in Nat, NEW C \in Nat,
           q < h, h - p < C
    PROVE  q + 1 < p + C
<1>1. h < p + C
  BY SMT
<1> QED
  BY SMT, <1>1

(* The reservation: the new record takes free slots only.                     *)
LEMMA CasHeadStep ==
    ASSUME IInv, NEW w \in Writers, CasHead(w), UNCHANGED ckVars
    PROVE  Rest'
<1> USE DEF IInv, TypeOK
<1>1. CASE head_ # cur_head[w]
  <2>1. \A v \in Writers : Live(v)' =>
          /\ Live(v)
          /\ cur_head'[v] = cur_head[v]
          /\ cont_count'[v] = cont_count[v]
          /\ unwritten'[v] = unwritten[v]
    BY <1>1 DEF CasHead, Live
  <2>2. UNCHANGED <<head_, checkpoint_pos_, ring_, published, cont_count>>
    BY <1>1 DEF CasHead
  <2>3. \A v \in Writers : pc'[v] = "cas" => pc[v] = "cas" /\ cur_head'[v] = cur_head[v]
    BY <1>1 DEF CasHead
  <2>4. PositionsInv'
    BY <2>2, <2>3, CursorKeep DEF PositionsInv, ckVars
  <2> QED
    BY <2>1, <2>2, <2>4, WriterLocalStep DEF Rest
<1>2. CASE head_ = cur_head[w]
  <2>1. /\ head_' = head_ + 1 + cont_count[w]
        /\ unwritten' = [unwritten EXCEPT ![w] = cont_count[w]]
        /\ pc' = [pc EXCEPT ![w] = "write"]
        /\ UNCHANGED <<cur_head, checkpoint_pos_, ring_, cont_count, published>>
    BY <1>2 DEF CasHead
  <2>2. /\ Capacity \in Nat /\ cont_count[w] \in Nat /\ cur_head[w] = head_
        /\ head_' - checkpoint_pos_ < Capacity /\ head_ < head_' /\ head_' \in Nat
    <3>1. Capacity \in Nat /\ cont_count[w] \in Nat
      BY SMT, CompactWALAssumption
    <3>2. cur_head[w] + 1 + cont_count[w] - checkpoint_pos_ < Capacity
      BY DEF CasHead, PositionsInv
    <3>3. head_ \in Nat /\ checkpoint_pos_ \in Nat
      OBVIOUS
    <3> HIDE DEF IInv, TypeOK
    <3> QED
      BY SMT, <1>2, <2>1, <3>1, <3>2, <3>3
  <2>3. Cursor' = Cursor /\ Cursor <= head_ /\ Cursor \in Nat
    BY <2>1, CursorKeep DEF PositionsInv, Cursor, CaughtUpPending
  <2>4. \A q : At(q)' = At(q)
    BY <2>1, SlotKeep
  <2>5. \A v \in Writers : Live(v)' <=> v = w \/ Live(v)
    BY <2>1 DEF Live
  <2>6. PositionsInv'
    <3>1. \A v \in Writers : pc'[v] = "cas" => pc[v] = "cas"
      BY <2>1
    <3> QED
      BY <2>1, <2>2, <2>3, <3>1, SMTT(40) DEF PositionsInv, ckVars
  <2>7. RecordsInv'
    <3>1. \A r \in published : r.id \in Nat /\ r.cont \in Nat /\ r.id + r.cont < head_
      BY SMT DEF RecordsInv
    <3>2. ASSUME NEW r \in published' PROVE r.id + r.cont < head_'
      <4>1. r \in published
        BY <2>1
      <4>2. /\ r.id \in Nat /\ r.cont \in Nat /\ r.id + r.cont < head_
            /\ head_ \in Nat /\ head_' \in Nat /\ head_ < head_'
        BY <2>2, <3>1, <4>1
      <4> HIDE DEF IInv, TypeOK
      <4> QED
        BY SMT, <4>2
    <3>3. ASSUME NEW v \in Writers, Live(v)'
          PROVE  /\ Cursor' <= cur_head'[v]
                 /\ cur_head'[v] + cont_count'[v] < head_'
                 /\ unwritten'[v] <= cont_count'[v]
                 /\ \A r \in published' :
                      \/ r.id + r.cont < cur_head'[v]
                      \/ cur_head'[v] + cont_count'[v] < r.id
      <4>1. CASE v = w
        <5>1. /\ cur_head'[w] = head_ /\ cont_count'[w] = cont_count[w]
              /\ unwritten'[w] = cont_count[w] /\ published' = published
          BY <2>1, <2>2
        <5>2. head_ \in Nat
          OBVIOUS
        <5> HIDE DEF IInv, TypeOK
        <5> QED
          BY SMT, <2>1, <2>2, <2>3, <3>1, <4>1, <5>1, <5>2
      <4>2. CASE v # w
        <5>1. Live(v) /\ unwritten'[v] = unwritten[v]
          BY <2>1, <2>5, <3>3, <4>2
        <5>2. cur_head[v] \in Nat /\ cont_count[v] \in Nat
          BY SMT
        <5> QED
          <6>1. /\ Cursor <= cur_head[v]
                /\ cur_head[v] + cont_count[v] < head_
                /\ unwritten[v] <= cont_count[v]
                /\ \A r \in published :
                     \/ r.id + r.cont < cur_head[v]
                     \/ cur_head[v] + cont_count[v] < r.id
            BY <5>1 DEF RecordsInv
          <6>2. cur_head[v] + cont_count[v] < head_'
            BY SMT, <2>2, <5>2, <6>1
          <6> QED
            BY <2>1, <2>3, <5>1, <6>1, <6>2
      <4> QED
        BY <4>1, <4>2
    <3>4. ASSUME NEW u \in Writers, NEW v \in Writers, u # v, Live(u)', Live(v)'
          PROVE  \/ cur_head'[u] + cont_count'[u] < cur_head'[v]
                 \/ cur_head'[v] + cont_count'[v] < cur_head'[u]
      BY <2>1, <2>2, <2>5, <3>4 DEF RecordsInv
    <3> QED
      BY <2>1, <3>2, <3>3, <3>4 DEF RecordsInv
  <2>8. ReadyInv'
    <3> SUFFICES ASSUME NEW q \in Nat, checkpoint_pos_ <= q, q < head_', IsReady(At(q))
                 PROVE  q < head_
      BY <2>1, <2>4 DEF SlotsInv, ReadyInv
    <3>1. ASSUME head_ <= q PROVE FALSE
      <4>1. Free(q)
        <5>1. q + 1 < checkpoint_pos_ + Capacity
          BY <2>2, ReservedBelowLap
        <5> QED
          BY SMT, <2>2, <3>1, <5>1 DEF Free
      <4> QED
        BY <4>1 DEF SlotsInv, FreeInv
    <3> QED
      BY SMT, <3>1
  <2>9. FreeInv' /\ ClearedInv'
    BY <2>1, <2>2, <2>4, SMTT(40) DEF SlotsInv, FreeInv, Free, ClearedInv, ckVars
  <2>10. StoredInv'
    <3> SUFFICES ASSUME NEW v \in Writers, Live(v)', NEW i \in 1..cont_count[v],
                        unwritten'[v] < i
                 PROVE  Live(v) /\ unwritten'[v] = unwritten[v]
      BY <2>1, <2>4 DEF SlotsInv, StoredInv
    <3>1. v # w
      BY SMT, <2>1, <2>2
    <3> QED
      BY <2>1, <2>5, <3>1
  <2>11. SkipInv'
    BY <2>1, <2>2, <2>4, <2>5, SMTT(40) DEF SlotsInv, SkipInv, ckVars
  <2>12. AckedNeverLost'
    BY <2>1, <2>4 DEF SlotsInv, AckedNeverLost, RecordIntact, ckVars
  <2>13. HistoryInv'
    BY <2>1, <2>3 DEF HistoryInv, ReplayedOnceInOrder, AppliedIds, ckVars
  <2> QED
    BY <2>6, <2>7, <2>8, <2>9, <2>10, <2>11, <2>12, <2>13 DEF Rest, SlotsInv
<1> QED
  BY <1>1, <1>2

(* What the invariant says of one live writer.                                *)
LEMMA LiveFacts ==
    ASSUME IInv, NEW w \in Writers, Live(w)
    PROVE  /\ cur_head[w] \in Nat /\ cont_count[w] \in Nat /\ unwritten[w] \in Nat
           /\ unwritten[w] <= cont_count[w] /\ Cursor <= cur_head[w]
           /\ cur_head[w] + cont_count[w] < head_ /\ head_ \in Nat
<1>1. TypeOK /\ RecordsInv
  BY DEF IInv
<1>2. /\ unwritten[w] <= cont_count[w] /\ Cursor <= cur_head[w]
      /\ cur_head[w] + cont_count[w] < head_
  BY <1>1 DEF RecordsInv
<1>3. cont_count[w] \in 0..MaxCont /\ unwritten[w] \in 0..MaxCont
  BY <1>1 DEF TypeOK
<1>4. cur_head[w] \in Nat /\ head_ \in Nat
  BY <1>1 DEF TypeOK
<1> QED
  BY SMT, <1>2, <1>3, <1>4, CompactWALAssumption

(* Types of the positions.                                                    *)
LEMMA WindowTypes ==
    ASSUME TypeOK
    PROVE  /\ Capacity \in Nat \ {0} /\ checkpoint_pos_ \in Nat /\ head_ \in Nat
           /\ clear_pos \in Nat /\ pending_main_pos_ \in Nat /\ Cursor \in Nat
<1>1. /\ checkpoint_pos_ \in Nat /\ head_ \in Nat /\ replay_pos \in Nat
      /\ clear_pos \in Nat /\ pending_main_pos_ \in Nat
  BY DEF TypeOK
<1>2. Cursor \in Nat
  BY <1>1 DEF Cursor, CaughtUpPending
<1> QED
  BY <1>1, <1>2, CompactWALAssumption

(* A store of a live writer w into its own record, at position p: it reaches  *)
(* no slot of another record of the window.                                   *)
LEMMA OwnStore ==
    ASSUME IInv, NEW w \in Writers, Live(w), NEW p \in Nat, NEW slot,
           cur_head[w] <= p, p <= cur_head[w] + cont_count[w],
           ring_' = [ring_ EXCEPT ![p % Capacity] = slot]
    PROVE  /\ checkpoint_pos_ <= p /\ p < head_ /\ Cursor <= p
           /\ At(p)' = slot
           /\ \A q \in Nat : checkpoint_pos_ <= q /\ q < checkpoint_pos_ + Capacity
                               /\ q # p => At(q)' = At(q)
           /\ \A r \in published : r.id \notin durable =>
                RecordIntact(r.id, r.cont)'
           /\ \A v \in Writers : v # w /\ Live(v) =>
                \A i \in 0..cont_count[v] : \A q \in Nat :
                    q = cur_head[v] + i => At(q)' = At(q)
<1>0. TypeOK /\ PositionsInv /\ RecordsInv /\ SlotsInv
  BY DEF IInv
<1>1. /\ Capacity \in Nat \ {0} /\ Cursor \in Nat
      /\ checkpoint_pos_ \in Nat /\ head_ \in Nat
      /\ checkpoint_pos_ <= Cursor /\ head_ < checkpoint_pos_ + Capacity
  <2>1. /\ Capacity \in Nat \ {0} /\ Cursor \in Nat
        /\ checkpoint_pos_ \in Nat /\ head_ \in Nat
    BY <1>0, WindowTypes
  <2>2. checkpoint_pos_ <= Cursor /\ head_ - checkpoint_pos_ < Capacity
    BY <1>0 DEF PositionsInv
  <2> QED
    BY SMT, <2>1, <2>2
<1>2. cur_head[w] \in Nat /\ cont_count[w] \in Nat
  BY LiveFacts
<1>3. Cursor <= cur_head[w] /\ cur_head[w] + cont_count[w] < head_
  BY LiveFacts
<1>4. checkpoint_pos_ <= p /\ p < head_ /\ Cursor <= p
  BY SMT, <1>1, <1>2, <1>3
<1>5. /\ At(p)' = slot
      /\ \A q \in Nat : q # p /\ q < p + Capacity /\ p < q + Capacity => At(q)' = At(q)
  <2>1. ring_ \in [0..Capacity-1 -> Slot]
    BY <1>0 DEF TypeOK
  <2> QED
    BY <2>1, SlotWrite
<1>6. \A q \in Nat : checkpoint_pos_ <= q /\ q < checkpoint_pos_ + Capacity
                       /\ q # p => At(q)' = At(q)
  BY SMT, <1>1, <1>4, <1>5
<1>7. ASSUME NEW r \in published, r.id \notin durable
      PROVE  RecordIntact(r.id, r.cont)'
  <2>1. /\ r.id \in Nat /\ r.cont \in Nat /\ r.id + r.cont < head_
        /\ checkpoint_pos_ <= r.id /\ RecordIntact(r.id, r.cont)
    <3>1. r \in [id : Nat, cont : 0..MaxCont]
      BY <1>0, <1>7 DEF TypeOK
    <3> QED
      BY SMT, <1>0, <1>7, <3>1, CompactWALAssumption DEF RecordsInv, SlotsInv, AckedNeverLost
  <2>2. r.id + r.cont < cur_head[w] \/ cur_head[w] + cont_count[w] < r.id
    BY <1>0, <1>7 DEF RecordsInv
  <2>3. ASSUME NEW i \in 0..r.cont
        PROVE  /\ checkpoint_pos_ <= r.id + i /\ r.id + i # p
               /\ r.id + i < checkpoint_pos_ + Capacity
               /\ r.id + i \in Nat
    <3>1. i \in Nat /\ i <= r.cont
      BY SMT, <2>1
    <3>2. r.id + i \in Nat /\ checkpoint_pos_ <= r.id + i /\ r.id + i <= r.id + r.cont
      BY SMT, <1>1, <2>1, <3>1
    <3>3. r.id + i < checkpoint_pos_ + Capacity
      BY SMT, <1>1, <2>1, <3>1
    <3>4. r.id + i # p
      BY SMT, <1>2, <2>1, <2>2, <3>1
    <3> QED
      BY <3>2, <3>3, <3>4
  <2>4. \A i \in 0..r.cont : At(r.id + i)' = At(r.id + i)
    BY <1>6, <2>3
  <2>5. At(r.id)' = At(r.id)
    BY SMT, <1>1, <1>2, <1>6, <2>1, <2>2
  <2> QED
    BY SMT, <2>1, <2>4, <2>5 DEF RecordIntact
<1>8. ASSUME NEW v \in Writers, v # w, Live(v), NEW i \in 0..cont_count[v],
             NEW q \in Nat, q = cur_head[v] + i
      PROVE  At(q)' = At(q)
  <2>1. /\ cur_head[v] \in Nat /\ cont_count[v] \in Nat
        /\ Cursor <= cur_head[v] /\ cur_head[v] + cont_count[v] < head_
    BY <1>8, LiveFacts
  <2>2. \/ cur_head[v] + cont_count[v] < cur_head[w]
        \/ cur_head[w] + cont_count[w] < cur_head[v]
    BY <1>0, <1>8 DEF RecordsInv
  <2>3. cur_head[v] <= q /\ q <= cur_head[v] + cont_count[v]
    BY SMT, <1>8, <2>1
  <2>4. checkpoint_pos_ <= q /\ q < checkpoint_pos_ + Capacity
    BY SMT, <1>1, <2>1, <2>3
  <2>5. q # p
    BY SMT, <1>2, <2>1, <2>2, <2>3
  <2> QED
    BY <1>6, <2>4, <2>5
<1> QED
  BY <1>4, <1>5, <1>6, <1>7, <1>8

LEMMA WriteContinuationStep ==
    ASSUME IInv, NEW w \in Writers, WriteContinuation(w), UNCHANGED ckVars
    PROVE  Rest'
<1>0. TypeOK /\ PositionsInv /\ RecordsInv /\ SlotsInv /\ HistoryInv
  BY DEF IInv
<1>types. /\ Capacity \in Nat \ {0} /\ checkpoint_pos_ \in Nat /\ head_ \in Nat
          /\ clear_pos \in Nat /\ pending_main_pos_ \in Nat /\ Cursor \in Nat
  BY <1>0, WindowTypes
<1>maps. /\ cur_head \in [Writers -> Nat] /\ cont_count \in [Writers -> 0..MaxCont]
         /\ unwritten \in [Writers -> 0..MaxCont]
  BY <1>0 DEF TypeOK
<1>1. /\ Live(w) /\ unwritten[w] > 0
      /\ unwritten' = [unwritten EXCEPT ![w] = @ - 1]
      /\ ring_' = [ring_ EXCEPT ![(cur_head[w] + unwritten[w]) % Capacity] =
                     ContinuationSlot(cur_head[w], unwritten[w])]
      /\ UNCHANGED <<head_, checkpoint_pos_, pc, cur_head, cont_count, published>>
  BY DEF WriteContinuation, Live
<1>2. /\ cur_head[w] \in Nat /\ unwritten[w] \in Nat /\ cont_count[w] \in Nat
      /\ unwritten[w] <= cont_count[w] /\ unwritten'[w] = unwritten[w] - 1
  <2>1. unwritten'[w] = unwritten[w] - 1
    BY <1>maps, <1>1
  <2> QED
    BY <1>1, <2>1, LiveFacts
<1> PICK p \in Nat : p = cur_head[w] + unwritten[w]
  BY SMT, <1>2
<1>3. cur_head[w] <= p /\ p <= cur_head[w] + cont_count[w]
  BY SMT, <1>2
<1> DEFINE slot == ContinuationSlot(cur_head[w], unwritten[w])
<1>4. ~IsReady(slot)
  BY SlotKinds
<1>5. PICK stored : stored = slot
  OBVIOUS
<1>6. /\ checkpoint_pos_ <= p /\ p < head_ /\ Cursor <= p
      /\ At(p)' = stored
      /\ \A q \in Nat : checkpoint_pos_ <= q /\ q < checkpoint_pos_ + Capacity
                          /\ q # p => At(q)' = At(q)
      /\ \A r \in published : r.id \notin durable => RecordIntact(r.id, r.cont)'
      /\ \A v \in Writers : v # w /\ Live(v) =>
           \A i \in 0..cont_count[v] : \A q \in Nat :
               q = cur_head[v] + i => At(q)' = At(q)
  BY <1>1, <1>3, <1>5, OwnStore
<1>7. Cursor' = Cursor
  BY <1>1, CursorKeep
<1>8. /\ Capacity \in Nat /\ head_ < checkpoint_pos_ + Capacity
      /\ cpc = "clear" => clear_pos <= Cursor /\ clear_pos <= head_
  BY SMT, <1>0, <1>types, CompactWALAssumption DEF PositionsInv, Cursor, CaughtUpPending
<1>9. PositionsInv'
  BY <1>0, <1>types, <1>1, <1>7 DEF PositionsInv, ckVars
<1>10. RecordsInv'
  <2>1. \A v \in Writers : Live(v) => unwritten'[v] <= cont_count[v]
    BY SMT, <1>0, <1>types, <1>1, <1>2 DEF RecordsInv
  <2> QED
    BY <1>0, <1>types, <1>1, <1>7, <2>1 DEF RecordsInv, Live
<1>11. ~IsReady(At(p)')
  BY <1>4, <1>5, <1>6
<1>12. \A q \in Nat : checkpoint_pos_ <= q /\ q < checkpoint_pos_ + Capacity =>
         At(q)' = At(q) \/ ~IsReady(At(q)')
  BY <1>6, <1>11
<1>13. ReadyInv'
  <2> SUFFICES ASSUME NEW q \in Nat, checkpoint_pos_ <= q, q < head_, IsReady(At(q)')
               PROVE  \E r \in published : r.id = q /\ At(q)' = PrimarySlot(q, r.cont)
    BY <1>1 DEF ReadyInv, IsReady
  <2>1. At(q)' = At(q)
    BY SMT, <1>types, <1>8, <1>12
  <2> QED
    BY <1>0, <1>types, <2>1 DEF SlotsInv, ReadyInv
<1>14. FreeInv'
  <2> SUFFICES ASSUME NEW q \in Nat, Free(q) PROVE ~IsReady(At(q)')
    BY <1>0, <1>types, <1>1 DEF FreeInv, Free, IsReady, ckVars
  <2>1. checkpoint_pos_ <= q /\ q < checkpoint_pos_ + Capacity
    BY SMT, <1>0, <1>types, <1>6 DEF Free
  <2> QED
    BY <1>0, <1>types, <1>12, <2>1 DEF SlotsInv, FreeInv
<1>15. ClearedInv'
  <2> SUFFICES ASSUME cpc = "clear", NEW q \in Nat, checkpoint_pos_ <= q, q < clear_pos
               PROVE  ~IsReady(At(q)')
    BY <1>1 DEF ClearedInv, IsReady, ckVars
  <2>1. q < checkpoint_pos_ + Capacity
    BY SMT, <1>types, <1>8
  <2> QED
    BY <1>0, <1>types, <1>12, <2>1 DEF SlotsInv, ClearedInv
<1>16. StoredInv'
  <2> SUFFICES ASSUME NEW v \in Writers, Live(v), NEW i \in 1..cont_count[v],
                      unwritten'[v] < i, NEW q \in Nat, q = cur_head[v] + i
               PROVE  At(q)' = ContinuationSlot(cur_head[v], i)
    <3>1. \A v \in Writers : Live(v)' <=> Live(v)
      BY <1>1 DEF Live
    <3>2. \A v \in Writers : cur_head'[v] = cur_head[v] /\ cont_count'[v] = cont_count[v]
      BY <1>1
    <3>3. \A v \in Writers : \A i \in 1..cont_count[v] : cur_head[v] + i \in Nat
      BY SMT, <1>maps
    <3> QED
      BY SMT, <3>1, <3>2, <3>3 DEF StoredInv
  <2>1. cur_head[v] \in Nat /\ cont_count[v] \in Nat
    BY LiveFacts
  <2>2. CASE v # w
    <3>1. unwritten'[v] = unwritten[v]
      BY SMT, <1>1, <2>2
    <3>2. i \in 0..cont_count[v]
      BY SMT, <2>1
    <3>3. At(q)' = At(q)
      BY <1>6, <2>2, <3>2
    <3> QED
      BY <1>0, <1>types, <3>1, <3>3 DEF SlotsInv, StoredInv
  <2>3. CASE v = w /\ i = unwritten[w]
    BY <1>5, <1>6, <2>3
  <2>4. CASE v = w /\ i # unwritten[w]
    <3>1. unwritten[w] < i
      BY SMT, <1>2, <2>4
    <3>2. /\ q # p /\ checkpoint_pos_ <= q /\ q < checkpoint_pos_ + Capacity
      <4>1. cur_head[w] + cont_count[w] < head_ /\ q <= cur_head[w] + cont_count[w]
        <5>1. cur_head[w] + cont_count[w] < head_
          BY <1>1, LiveFacts
        <5>2. i <= cont_count[w] /\ q = cur_head[w] + i
          BY SMT, <2>1, <2>4
        <5> QED
          BY SMT, <1>2, <5>1, <5>2
      <4>2. checkpoint_pos_ <= cur_head[w] + unwritten[w]
        BY <1>6
      <4> QED
        BY SMT, <1>types, <1>2, <1>8, <2>1, <2>4, <3>1, <4>1, <4>2
    <3>3. At(q)' = At(q)
      BY <1>6, <3>2
    <3> QED
      BY <1>0, <1>types, <2>4, <3>1, <3>3 DEF SlotsInv, StoredInv
  <2> QED
    BY <2>2, <2>3, <2>4
<1>17. SkipInv'
  <2>1. PICK c \in Nat : c = checkpoint_pos_
    BY <1>types
  <2>2. c < checkpoint_pos_ + Capacity
    BY SMT, <1>types, <1>6, <1>8, <2>1
  <2>3. IsReady(At(c)') => IsReady(At(c))
    BY SMT, <1>12, <2>1, <2>2
  <2> QED
    BY <1>0, <1>types, <1>1, <2>1, <2>3 DEF SlotsInv, SkipInv, Live, IsReady, At, ckVars
<1>18. AckedNeverLost'
  BY <1>0, <1>types, <1>1, <1>6 DEF SlotsInv, AckedNeverLost, ckVars
<1>19. HistoryInv'
  BY <1>0, <1>types, <1>1, <1>7 DEF HistoryInv, ReplayedOnceInOrder, AppliedIds, ckVars
<1> QED
  BY <1>9, <1>10, <1>13, <1>14, <1>15, <1>16, <1>17, <1>18, <1>19 DEF Rest, SlotsInv

(* The publish: the record is whole because its continuations came first.     *)
LEMMA PublishStep ==
    ASSUME IInv, NEW w \in Writers, Publish(w), UNCHANGED ckVars
    PROVE  Rest'
<1>0. TypeOK /\ PositionsInv /\ RecordsInv /\ SlotsInv /\ HistoryInv
  BY DEF IInv
<1>types. /\ Capacity \in Nat \ {0} /\ checkpoint_pos_ \in Nat /\ head_ \in Nat
          /\ clear_pos \in Nat /\ pending_main_pos_ \in Nat /\ Cursor \in Nat
  BY <1>0, WindowTypes
<1>maps. /\ cur_head \in [Writers -> Nat] /\ cont_count \in [Writers -> 0..MaxCont]
         /\ pc \in [Writers -> {"idle", "check", "cas", "write", "dead"}]
  BY <1>0 DEF TypeOK
<1> DEFINE new == [id |-> cur_head[w], cont |-> cont_count[w]]
<1>1. /\ Live(w) /\ unwritten[w] = 0
      /\ ring_' = [ring_ EXCEPT ![cur_head[w] % Capacity] =
                     PrimarySlot(cur_head[w], cont_count[w])]
      /\ published' = published \cup {new}
      /\ pc' = [pc EXCEPT ![w] = "idle"]
      /\ UNCHANGED <<head_, checkpoint_pos_, cur_head, cont_count, unwritten>>
  BY DEF Publish, Live
<1>2. cur_head[w] \in Nat /\ cont_count[w] \in Nat
  BY <1>1, LiveFacts
<1> PICK p \in Nat, n \in Nat : p = cur_head[w] /\ n = cont_count[w]
  BY <1>2
<1>3. new = [id |-> p, cont |-> n] /\ new.id = p /\ new.cont = n
  OBVIOUS
<1>4. /\ checkpoint_pos_ <= p /\ p < head_ /\ Cursor <= p
      /\ At(p)' = PrimarySlot(p, n)
      /\ \A q \in Nat : checkpoint_pos_ <= q /\ q < checkpoint_pos_ + Capacity
                          /\ q # p => At(q)' = At(q)
      /\ \A r \in published : r.id \notin durable => RecordIntact(r.id, r.cont)'
      /\ \A v \in Writers : v # w /\ Live(v) =>
           \A i \in 0..cont_count[v] : \A q \in Nat :
               q = cur_head[v] + i => At(q)' = At(q)
  <2>1. cur_head[w] <= p /\ p <= cur_head[w] + cont_count[w]
    BY SMT, <1>2
  <2>2. ring_' = [ring_ EXCEPT ![p % Capacity] = PrimarySlot(p, n)]
    BY <1>1
  <2> QED
    BY <1>1, <2>1, <2>2, OwnStore
<1>own. checkpoint_pos_ <= p /\ p < head_ /\ Cursor <= p /\ p = cur_head[w] /\ Live(w)
  BY <1>1, <1>4
<1>5. Cursor' = Cursor /\ Cursor \in Nat
  BY <1>types, <1>1, CursorKeep
<1>6. /\ Capacity \in Nat /\ head_ < checkpoint_pos_ + Capacity /\ p + n < head_
      /\ cpc = "clear" => clear_pos <= Cursor /\ pending_main_pos_ <= Cursor
  <2>1. p + n < head_
    BY <1>1, LiveFacts
  <2>2. Capacity \in Nat /\ head_ < checkpoint_pos_ + Capacity
    BY SMT, <1>0, <1>types, CompactWALAssumption DEF PositionsInv
  <2>3. ASSUME cpc = "clear" PROVE clear_pos <= Cursor /\ pending_main_pos_ <= Cursor
    BY SMT, <1>0, <1>types, <1>5, <2>3 DEF PositionsInv
  <2> QED
    BY <2>1, <2>2, <2>3
<1>7. \A v \in Writers : Live(v)' <=> v # w /\ Live(v)
  BY <1>maps, <1>1 DEF Live
<1>8. PositionsInv'
  <2>1. \A v \in Writers : pc'[v] = "cas" => pc[v] = "cas"
    BY <1>maps, <1>1
  <2> QED
    BY <1>0, <1>types, <1>1, <1>5, <2>1 DEF PositionsInv, ckVars
<1>9. RecordsInv'
  <2>1. \A r \in published : r.id + r.cont < p \/ p + n < r.id
    BY <1>0, <1>types, <1>1 DEF RecordsInv
  <2>2. \A r \in published' : r.id + r.cont < head_
    BY <1>0, <1>types, <1>1, <1>3, <1>6 DEF RecordsInv
  <2>3. ASSUME NEW r \in published', NEW s \in published', r # s
        PROVE  r.id + r.cont < s.id \/ s.id + s.cont < r.id
    BY <1>0, <1>types, <1>1, <1>3, <2>1, <2>3 DEF RecordsInv
  <2>4. ASSUME NEW v \in Writers, Live(v)'
        PROVE  /\ Cursor <= cur_head[v]
               /\ cur_head[v] + cont_count[v] < head_
               /\ unwritten[v] <= cont_count[v]
               /\ \A r \in published' : \/ r.id + r.cont < cur_head[v]
                                        \/ cur_head[v] + cont_count[v] < r.id
    BY <1>0, <1>types, <1>1, <1>3, <1>7, <2>4 DEF RecordsInv
  <2>5. \A u, v \in Writers : u # v /\ Live(u)' /\ Live(v)' =>
          \/ cur_head[u] + cont_count[u] < cur_head[v]
          \/ cur_head[v] + cont_count[v] < cur_head[u]
    BY <1>0, <1>types, <1>7 DEF RecordsInv
  <2> QED
    BY <1>0, <1>types, <1>1, <1>5, <2>2, <2>3, <2>4, <2>5 DEF RecordsInv
<1>10. ReadyInv'
  <2> SUFFICES ASSUME NEW q \in Nat, checkpoint_pos_ <= q, q < head_, IsReady(At(q)')
               PROVE  \E r \in published' : r.id = q /\ At(q)' = PrimarySlot(q, r.cont)
    BY <1>1 DEF ReadyInv, IsReady
  <2>1. CASE q = p
    BY <1>1, <1>3, <1>4, <2>1
  <2>2. CASE q # p
    <3>1. At(q)' = At(q)
      <4>1. checkpoint_pos_ <= q /\ q < checkpoint_pos_ + Capacity
        BY SMT, <1>types, <1>6
      <4> QED
        BY <1>4, <2>2, <4>1
    <3>2. \E r \in published : r.id = q /\ At(q) = PrimarySlot(q, r.cont)
      BY <1>0, <1>types, <3>1 DEF SlotsInv, ReadyInv
    <3> QED
      BY <1>1, <3>1, <3>2
  <2> QED
    BY <2>1, <2>2
<1>11. FreeInv'
  <2> SUFFICES ASSUME NEW q \in Nat, Free(q) PROVE ~IsReady(At(q)')
    BY <1>0, <1>types, <1>1 DEF FreeInv, Free, IsReady, ckVars
  <2>1. checkpoint_pos_ <= q /\ q < checkpoint_pos_ + Capacity /\ q # p
    BY SMT, <1>types, <1>own DEF Free
  <2> QED
    BY <1>0, <1>types, <1>4, <2>1 DEF SlotsInv, FreeInv
<1>12. ClearedInv'
  <2> SUFFICES ASSUME cpc = "clear", NEW q \in Nat, checkpoint_pos_ <= q, q < clear_pos
               PROVE  ~IsReady(At(q)')
    BY <1>1 DEF ClearedInv, IsReady, ckVars
  <2>1. q < checkpoint_pos_ + Capacity /\ q # p
    BY SMT, <1>types, <1>own, <1>6
  <2> QED
    BY <1>0, <1>types, <1>4, <2>1 DEF SlotsInv, ClearedInv
<1>13. StoredInv'
  <2> SUFFICES ASSUME NEW v \in Writers, v # w, Live(v), NEW i \in 1..cont_count[v],
                      unwritten[v] < i, NEW q \in Nat, q = cur_head[v] + i
               PROVE  At(q)' = ContinuationSlot(cur_head[v], i)
    <3>1. \A v \in Writers : /\ cur_head'[v] = cur_head[v] /\ cont_count'[v] = cont_count[v]
                            /\ unwritten'[v] = unwritten[v]
      BY <1>1
    <3>2. \A v \in Writers : \A i \in 1..cont_count[v] : cur_head[v] + i \in Nat
      BY SMT, <1>maps
    <3> QED
      BY SMT, <1>7, <3>1, <3>2 DEF StoredInv
  <2>1. At(q)' = At(q)
    BY SMT, <1>4
  <2> QED
    BY <1>0, <1>types, <2>1 DEF SlotsInv, StoredInv
<1>14. SkipInv'
  <2>1. PICK c \in Nat : c = checkpoint_pos_
    BY <1>types
  <2>2. ASSUME cpc = "skip_advance" PROVE At(c)' = At(c)
    <3>1. c # p
      <4>1. SkipInv
        BY <1>0 DEF SlotsInv
      <4>2. checkpoint_pos_ < cur_head[w]
        BY <1>own, <2>2, <4>1 DEF SkipInv
      <4> QED
        BY SMT, <1>types, <1>own, <2>1, <4>2
    <3>2. c < checkpoint_pos_ + Capacity
      BY SMT, <1>types, <1>6, <2>1
    <3>3. checkpoint_pos_ <= c
      BY SMT, <2>1
    <3> QED
      BY <1>4, <3>1, <3>2, <3>3
  <2> QED
    BY <1>0, <1>types, <1>1, <1>7, <2>1, <2>2 DEF SlotsInv, SkipInv, IsReady, At, ckVars
<1>15. RecordIntact(p, n)'
  <2>1. ASSUME NEW i \in 1..n, NEW q \in Nat, q = p + i
        PROVE  At(q)' = ContinuationSlot(p, i)
    <3>1. checkpoint_pos_ <= q /\ q < checkpoint_pos_ + Capacity /\ q # p
      BY SMT, <1>types, <1>own, <1>6, <2>1
    <3>2. At(q) = ContinuationSlot(p, i)
      <4>1. StoredInv
        BY <1>0 DEF SlotsInv
      <4>2. unwritten[w] < i /\ i \in 1..cont_count[w] /\ q = cur_head[w] + i
        BY SMT, <1>1, <2>1
      <4> QED
        BY <1>own, <4>1, <4>2 DEF StoredInv
    <3> QED
      BY <1>4, <3>1, <3>2
  <2> QED
    BY <1>4, <2>1, SMTT(40) DEF RecordIntact
<1>16. AckedNeverLost'
  <2> SUFFICES ASSUME NEW r \in published', r.id \notin durable
               PROVE  checkpoint_pos_ <= r.id /\ RecordIntact(r.id, r.cont)'
    BY <1>1 DEF AckedNeverLost, ckVars
  <2>1. CASE r = new
    BY <1>3, <1>4, <1>15, <2>1
  <2>2. CASE r \in published
    BY <1>0, <1>types, <1>4, <2>2 DEF SlotsInv, AckedNeverLost
  <2> QED
    BY <1>1, <2>1, <2>2
<1>17. HistoryInv'
  <2>1. ASSUME NEW r \in published', r.id < Cursor PROVE r.id \in AppliedIds
    <3>1. r.id # p
      BY SMT, <1>types, <1>own, <2>1
    <3>2. r \in published
      BY <1>1, <1>3, <3>1
    <3> QED
      BY <1>0, <1>types, <1>5, <2>1, <3>2 DEF HistoryInv
  <2>2. ASSUME cpc = "clear", NEW r \in published', r.id < pending_main_pos_
        PROVE  r.id \in durable
    <3>1. r.id # p
      BY SMT, <1>types, <1>own, <1>6, <2>2
    <3>2. r \in published
      BY <1>1, <1>3, <3>1
    <3> QED
      BY <1>0, <1>types, <2>2, <3>2 DEF HistoryInv
  <2> QED
    BY <1>0, <1>types, <1>1, <1>5, <2>1, <2>2 DEF HistoryInv, ReplayedOnceInOrder, AppliedIds, ckVars
<1> QED
  BY <1>8, <1>9, <1>10, <1>11, <1>12, <1>13, <1>14, <1>16, <1>17 DEF Rest, SlotsInv

------------------------------------------------------------------------------
(* The checkpoint thread, action by action, and the theorems.               *)

LEMMA BeginCycleStep ==
    ASSUME IInv, NEW due \in BOOLEAN, NEW remote_work \in BOOLEAN,
           BeginCycle(due, remote_work)
    PROVE  Rest'
<1> USE DEF IInv, TypeOK
<1>1. /\ UNCHANGED walVars /\ UNCHANGED <<applied, durable>>
      /\ cpc = "idle" /\ cpc' \in {"idle", "replay"}
      /\ pending_main_pos_' = CaughtUpPending
      /\ cpc' = "replay" => snapshot' = head_ /\ replay_pos' = CaughtUpPending
      /\ cpc' = "idle" => snapshot' = snapshot
  BY DEF BeginCycle
<1>2. Cursor = CaughtUpPending /\ Cursor' = Cursor /\ Cursor \in Nat
  BY <1>1 DEF Cursor, CaughtUpPending, walVars
<1>3. SkipInv'
  BY <1>1 DEF SkipInv
<1>4. PositionsInv'
  <2>1. snapshot' <= head_'
    BY SMT, <1>1 DEF PositionsInv, walVars
  <2>2. pending_main_pos_' = Cursor'
    BY <1>1, <1>2
  <2> QED
    BY SMT, <1>1, <1>2, <2>1, <2>2 DEF PositionsInv, walVars
<1> QED
  BY <1>1, <1>2, <1>3, <1>4, QuietStep DEF Rest

LEMMA StopReplayStep ==
    ASSUME IInv, StopReplay
    PROVE  Rest'
<1>1. /\ UNCHANGED walVars /\ UNCHANGED <<applied, durable>>
      /\ cpc = "replay" /\ cpc' = "promote"
      /\ UNCHANGED <<pending_main_pos_, snapshot, replay_pos>>
  BY DEF StopReplay
<1>2. Cursor' = Cursor
  BY <1>1 DEF Cursor
<1>3. SkipInv'
  BY <1>1 DEF SkipInv
<1>4. PositionsInv'
  BY <1>1, <1>2 DEF IInv, PositionsInv, walVars
<1> QED
  BY <1>1, <1>2, <1>3, <1>4, QuietStep DEF Rest

LEMMA PromoteStep ==
    ASSUME IInv, NEW remote_full \in BOOLEAN, Promote(remote_full)
    PROVE  Rest'
<1>1. /\ UNCHANGED walVars /\ UNCHANGED <<applied, durable, snapshot>>
      /\ cpc = "promote" /\ cpc' \in {"sync", "loop"}
      /\ pending_main_pos_' = replay_pos
  BY DEF Promote
<1>2. Cursor = replay_pos /\ Cursor' = replay_pos
  BY SMT, <1>1 DEF IInv, TypeOK, PositionsInv, Cursor, CaughtUpPending, walVars
<1>3. SkipInv'
  BY <1>1 DEF SkipInv
<1>4. PositionsInv'
  BY SMT, <1>1, <1>2 DEF IInv, TypeOK, PositionsInv, walVars
<1> QED
  BY <1>1, <1>2, <1>3, <1>4, QuietStep DEF Rest

(* CheckpointLoop's decision: with timely writers the slot it gives up is not *)
(* one that a live writer will still fill.                                    *)
LEMMA AfterCycleStep ==
    ASSUME IInv, Timely, AfterCycle
    PROVE  Rest'
<1>1. /\ UNCHANGED walVars /\ UNCHANGED <<applied, durable>>
      /\ cpc = "loop" /\ cpc' \in {"idle", "skip_advance"}
      /\ UNCHANGED <<pending_main_pos_, snapshot, replay_pos>>
      /\ cpc' = "skip_advance" => /\ checkpoint_pos_ < head_
                                  /\ ~IsReady(At(checkpoint_pos_))
                                  /\ ~LiveWriterAt(checkpoint_pos_)
  BY DEF AfterCycle, Timely
<1>2. Cursor' = Cursor
  BY <1>1 DEF Cursor, CaughtUpPending, walVars
<1>3. ASSUME cpc' = "skip_advance", NEW w \in Writers, Live(w)
      PROVE  checkpoint_pos_ < cur_head[w]
  <2>1. checkpoint_pos_ <= cur_head[w]
    BY SMT, <1>3 DEF IInv, TypeOK, PositionsInv, RecordsInv, Cursor, CaughtUpPending
  <2>2. checkpoint_pos_ # cur_head[w]
    BY SMT, <1>1, <1>3 DEF IInv, TypeOK, LiveWriterAt, Live
  <2> QED
    BY SMT, <2>1, <2>2 DEF IInv, TypeOK
<1>4. SkipInv'
  <2>1. At(checkpoint_pos_)' = At(checkpoint_pos_)
    BY <1>1 DEF At, walVars
  <2> QED
    BY <1>1, <1>3, <2>1 DEF SkipInv, Live, walVars
<1>5. PositionsInv'
  BY <1>1, <1>2 DEF IInv, PositionsInv, walVars
<1> QED
  BY <1>1, <1>2, <1>4, <1>5, QuietStep DEF Rest

(* The flush: all that has been replayed is durable, and ClearRange starts.   *)
LEMMA SyncRegionsStep ==
    ASSUME IInv, SyncRegions
    PROVE  Rest'
<1> USE DEF IInv, TypeOK
<1>1. /\ UNCHANGED walVars
      /\ UNCHANGED <<applied, pending_main_pos_, snapshot, replay_pos>>
      /\ cpc = "sync" /\ cpc' = "clear"
      /\ clear_pos' = checkpoint_pos_ /\ durable' = AppliedIds
  BY DEF SyncRegions, AppliedIds
<1>2. \A q : At(q)' = At(q)
  BY <1>1, SlotKeep DEF walVars
<1>3. Cursor' = Cursor /\ Cursor = pending_main_pos_
  BY SMT, <1>1 DEF PositionsInv, Cursor, CaughtUpPending, walVars
<1>4. PositionsInv'
  BY SMT, <1>1, <1>3 DEF PositionsInv, walVars
<1>5. RecordsInv'
  BY <1>1, <1>3 DEF RecordsInv, walVars, Live
<1>6. ReadyInv' /\ StoredInv'
  BY <1>1, <1>2 DEF SlotsInv, ReadyInv, StoredInv, walVars, Live
<1>7. FreeInv' /\ ClearedInv' /\ SkipInv'
  BY SMT, <1>1, <1>2 DEF SlotsInv, FreeInv, Free, ClearedInv, SkipInv, walVars
<1>8. durable \subseteq durable'
  BY <1>1 DEF HistoryInv
<1>9. AckedNeverLost'
  BY <1>1, <1>2, <1>8 DEF SlotsInv, AckedNeverLost, RecordIntact, walVars
<1>10. AppliedIds' = AppliedIds
  BY <1>1 DEF AppliedIds
<1>11. HistoryInv'
  BY <1>1, <1>3, <1>10 DEF HistoryInv, ReplayedOnceInOrder, walVars
<1> QED
  BY <1>4, <1>5, <1>6, <1>7, <1>9, <1>11 DEF Rest, SlotsInv

LEMMA LastIndex ==
    ASSUME NEW n \in Nat, NEW j \in 1..(n + 1)
    PROVE  j \in 1..n \/ j = n + 1
BY SMT

(* The replay of one record: what the slot says is the record reserved there, *)
(* so the cursor moves from the start of one record to its end.               *)
LEMMA ReplayRecordStep ==
    ASSUME IInv, ReplayRecord
    PROVE  Rest'
<1> USE DEF IInv, TypeOK
<1>1. /\ UNCHANGED walVars
      /\ UNCHANGED <<pending_main_pos_, snapshot, durable>>
      /\ cpc = "replay" /\ cpc' \in {"replay", "promote"}
      /\ replay_pos < snapshot /\ IsReady(At(replay_pos))
      /\ applied' = Append(applied, At(replay_pos).id)
      /\ replay_pos' = replay_pos + SlotCount(At(replay_pos))
  BY DEF ReplayRecord
<1>2. Cursor = replay_pos /\ Cursor' = replay_pos'
  BY <1>1 DEF Cursor
<1>3. PICK r \in published : r.id = replay_pos /\ At(replay_pos) = PrimarySlot(replay_pos, r.cont)
  BY <1>1, <1>2, SMTT(40) DEF SlotsInv, ReadyInv, PositionsInv
<1>4. /\ r.id \in Nat /\ r.cont \in Nat
      /\ applied' = Append(applied, r.id)
      /\ Cursor' = r.id + 1 + r.cont
  BY SMT, <1>1, <1>2, <1>3 DEF PrimarySlot, SlotCount
<1>5. r.id + r.cont < head_
  BY DEF RecordsInv
<1>6. PositionsInv'
  BY SMT, <1>1, <1>2, <1>3, <1>4, <1>5 DEF PositionsInv, walVars
<1>7. RecordsInv'
  <2>1. ASSUME NEW w \in Writers, Live(w) PROVE Cursor' <= cur_head[w]
    <3>1. cur_head[w] \in Nat /\ cont_count[w] \in Nat /\ r.id <= cur_head[w]
      BY SMT, <1>2, <1>3, <2>1 DEF RecordsInv
    <3>2. r.id + r.cont < cur_head[w] \/ cur_head[w] + cont_count[w] < r.id
      BY <2>1 DEF RecordsInv
    <3> QED
      BY SMT, <1>4, <3>1, <3>2
  <2> QED
    BY <1>1, <2>1 DEF RecordsInv, walVars, Live
<1>8. \A q : At(q)' = At(q)
  BY <1>1, SlotKeep DEF walVars
<1>9. SlotsInv'
  <2>1. ReadyInv' /\ StoredInv'
    BY <1>1, <1>8 DEF SlotsInv, ReadyInv, StoredInv, walVars, Live
  <2>2. FreeInv' /\ ClearedInv' /\ SkipInv'
    BY <1>1, <1>8 DEF SlotsInv, FreeInv, Free, ClearedInv, SkipInv, walVars
  <2>3. AckedNeverLost'
    BY <1>1, <1>8 DEF SlotsInv, AckedNeverLost, RecordIntact, walVars
  <2> QED
    BY <2>1, <2>2, <2>3 DEF SlotsInv
<1>10. /\ DOMAIN applied = 1..Len(applied) /\ Len(applied) \in Nat
       /\ DOMAIN applied' = 1..(Len(applied) + 1)
       /\ \A i \in 1..Len(applied) : applied'[i] = applied[i]
       /\ applied'[Len(applied) + 1] = r.id
       /\ \A i \in 1..Len(applied) : applied[i] \in Nat
  BY SMT, <1>4
<1>11. \A i \in 1..Len(applied) : applied[i] < r.id
  BY <1>2, <1>3, <1>10 DEF HistoryInv
<1>12. HistoryInv'
  <2>1. ReplayedOnceInOrder'
    <3> SUFFICES ASSUME NEW i \in 1..(Len(applied) + 1), NEW j \in 1..(Len(applied) + 1),
                        i < j
                 PROVE  applied'[i] < applied'[j]
      BY <1>10 DEF ReplayedOnceInOrder
    <3>1. i \in 1..Len(applied)
      BY SMT, <1>10
    <3>2. CASE j \in 1..Len(applied)
      <4>1. applied[i] < applied[j]
        BY <1>10, <3>1, <3>2 DEF HistoryInv, ReplayedOnceInOrder
      <4> QED
        BY <1>10, <3>1, <3>2, <4>1
    <3>3. CASE j = Len(applied) + 1
      BY <1>10, <1>11, <3>1, <3>3
    <3>4. j \in 1..Len(applied) \/ j = Len(applied) + 1
      BY <1>10, LastIndex
    <3> QED
      BY <3>2, <3>3, <3>4
  <2>2. \A i \in DOMAIN applied' : applied'[i] < Cursor'
    BY SMT, <1>4, <1>10, <1>11
  <2>3. AppliedIds' = AppliedIds \cup {r.id}
    <3>1. AppliedIds' = {applied'[i] : i \in 1..(Len(applied) + 1)}
      BY <1>10 DEF AppliedIds
    <3>2. 1..(Len(applied) + 1) = (1..Len(applied)) \cup {Len(applied) + 1}
      BY SMT, <1>10
    <3>3. AppliedIds = {applied[i] : i \in 1..Len(applied)}
      BY <1>10 DEF AppliedIds
    <3>4. ASSUME NEW x PROVE x \in AppliedIds' <=> x \in AppliedIds \cup {r.id}
      BY <1>10, <3>1, <3>2, <3>3, Zenon
    <3> QED
      BY <3>4
  <2>4. ASSUME NEW s \in published, s.id < Cursor' PROVE s.id \in AppliedIds'
    <3>1. CASE s = r
      BY <2>3, <3>1
    <3>2. CASE s # r
      <4>1. s.id < Cursor
        <5>1. s.id \in Nat /\ s.cont \in Nat
          BY SMT
        <5>2. r.id + r.cont < s.id \/ s.id + s.cont < r.id
          BY <3>2 DEF RecordsInv
        <5> QED
          BY SMT, <1>2, <1>3, <1>4, <2>4, <5>1, <5>2
      <4> QED
        BY <2>3, <4>1 DEF HistoryInv
    <3> QED
      BY <3>1, <3>2
  <2> QED
    BY <1>1, <2>1, <2>2, <2>3, <2>4 DEF HistoryInv, walVars
<1> QED
  BY <1>6, <1>7, <1>9, <1>12 DEF Rest

(* ClearRange on one slot: the records below pending_main_pos_ are durable,   *)
(* everything else in the window lies above the slot.                         *)
LEMMA ClearOneStep ==
    ASSUME IInv, ClearOne
    PROVE  Rest'
<1> USE DEF IInv, TypeOK
<1>1. /\ UNCHANGED <<head_, checkpoint_pos_, pc, cur_head, cont_count, unwritten, published>>
      /\ UNCHANGED <<cpc, pending_main_pos_, snapshot, replay_pos, applied, durable>>
      /\ cpc = "clear" /\ clear_pos < pending_main_pos_
      /\ clear_pos' = clear_pos + 1
      /\ ring_' = [ring_ EXCEPT ![clear_pos % Capacity] = EmptySlot]
  BY DEF ClearOne, ClearSlot
<1>2. /\ Capacity \in Nat /\ Cursor = pending_main_pos_ /\ Cursor' = Cursor
      /\ checkpoint_pos_ <= clear_pos /\ pending_main_pos_ <= head_
      /\ head_ < checkpoint_pos_ + Capacity
  BY SMT, <1>1, CompactWALAssumption DEF PositionsInv, Cursor, CaughtUpPending
<1> PICK c \in Nat : c = clear_pos
  OBVIOUS
<1>3. /\ At(c)' = EmptySlot
      /\ \A q \in Nat : q # c /\ q < c + Capacity /\ c < q + Capacity =>
           At(q)' = At(q)
  BY <1>1, SlotWrite
<1>4. \A q \in Nat : checkpoint_pos_ <= q /\ q < checkpoint_pos_ + Capacity
                       /\ q # c => At(q)' = At(q)
  BY SMT, <1>1, <1>2, <1>3
<1>5. PositionsInv'
  BY SMT, <1>1, <1>2 DEF PositionsInv
<1>6. RecordsInv'
  BY <1>1, <1>2 DEF RecordsInv, Live
<1>7. ReadyInv'
  BY SMT, <1>1, <1>2, <1>3, <1>4 DEF SlotsInv, ReadyInv, IsReady, EmptySlot
<1>8. FreeInv'
  BY SMT, <1>1, <1>2, <1>4 DEF SlotsInv, FreeInv, Free
<1>9. ClearedInv'
  BY SMT, <1>1, <1>2, <1>3, <1>4 DEF SlotsInv, ClearedInv, IsReady, EmptySlot
<1>10. StoredInv'
  <2> SUFFICES ASSUME NEW w \in Writers, Live(w), NEW i \in 1..cont_count[w],
                      unwritten[w] < i
               PROVE  At(cur_head[w] + i)' = At(cur_head[w] + i)
    BY <1>1 DEF SlotsInv, StoredInv, Live
  <2>1. /\ cur_head[w] \in Nat /\ pending_main_pos_ <= cur_head[w]
        /\ cur_head[w] + cont_count[w] < head_
    BY <1>2 DEF RecordsInv
  <2> QED
    BY SMT, <1>1, <1>2, <1>4, <2>1
<1>11. AckedNeverLost'
  <2> SUFFICES ASSUME NEW r \in published, r.id \notin durable
               PROVE  checkpoint_pos_ <= r.id /\ RecordIntact(r.id, r.cont)'
    BY <1>1 DEF AckedNeverLost
  <2>1. /\ r.id \in Nat /\ r.cont \in Nat /\ r.id + r.cont < head_
        /\ pending_main_pos_ <= r.id
    BY SMT, <1>1 DEF RecordsInv, HistoryInv
  <2>2. checkpoint_pos_ <= r.id /\ RecordIntact(r.id, r.cont)
    BY DEF SlotsInv, AckedNeverLost
  <2>3. ASSUME NEW i \in 0..r.cont PROVE At(r.id + i)' = At(r.id + i)
    <3>1. r.id + i \in Nat /\ pending_main_pos_ <= r.id + i /\ r.id + i < head_
      BY SMT, <2>1, <2>3
    <3> QED
      BY SMT, <1>1, <1>2, <1>4, <3>1
  <2>4. At(r.id)' = At(r.id)
    BY SMT, <1>1, <1>2, <1>4, <2>1
  <2> QED
    BY SMT, <2>1, <2>2, <2>3, <2>4 DEF RecordIntact
<1>12. SkipInv'
  BY <1>1 DEF SkipInv
<1>13. HistoryInv'
  BY <1>1, <1>2 DEF HistoryInv, ReplayedOnceInOrder, AppliedIds
<1> QED
  BY <1>5, <1>6, <1>7, <1>8, <1>9, <1>10, <1>11, <1>12, <1>13 DEF Rest, SlotsInv

(* AdvanceCheckpoint after ClearRange: the slots given back are all empty.    *)
LEMMA AdvanceStep ==
    ASSUME IInv, Advance
    PROVE  Rest'
<1> USE DEF IInv, TypeOK
<1>1. /\ UNCHANGED <<head_, ring_, pc, cur_head, cont_count, unwritten, published>>
      /\ UNCHANGED <<pending_main_pos_, snapshot, replay_pos, clear_pos, applied, durable>>
      /\ cpc = "clear" /\ cpc' = "loop" /\ clear_pos = pending_main_pos_
      /\ checkpoint_pos_' = pending_main_pos_
  BY DEF Advance, AdvanceCheckpoint
<1>2. /\ Capacity \in Nat \ {0} /\ Cursor = pending_main_pos_ /\ Cursor' = Cursor
      /\ checkpoint_pos_ <= pending_main_pos_ /\ pending_main_pos_ <= head_
      /\ head_ < checkpoint_pos_ + Capacity
  BY SMT, <1>1, CompactWALAssumption DEF PositionsInv, Cursor, CaughtUpPending
<1>3. \A q \in Nat : At(q)' = At(q)
  BY <1>1, SlotKeep
<1>4. PositionsInv'
  BY SMT, <1>1, <1>2 DEF PositionsInv
<1>5. RecordsInv'
  <2>1. RecordsInv
    OBVIOUS
  <2> HIDE DEF IInv, TypeOK
  <2> QED
    BY <1>1, <1>2, <2>1 DEF RecordsInv, Live
<1>6. ReadyInv'
  BY SMT, <1>1, <1>2, <1>3 DEF SlotsInv, ReadyInv
<1>7. FreeInv'
  <2> SUFFICES ASSUME NEW q \in Nat, head_ <= q, q < pending_main_pos_ + Capacity
               PROVE  ~IsReady(At(q))
    BY <1>1, <1>3 DEF FreeInv, Free
  <2>1. CASE q < checkpoint_pos_ + Capacity
    BY <1>1, <2>1 DEF SlotsInv, FreeInv, Free
  <2>2. CASE checkpoint_pos_ + Capacity <= q
    <3>1. PICK p \in Nat : p + Capacity = q
      <4>1. q - Capacity \in Nat /\ (q - Capacity) + Capacity = q
        BY SMT, <1>2, <2>2
      <4> QED
        BY <4>1
    <3>2. ~IsReady(At(p))
      <4>1. checkpoint_pos_ <= p /\ p < clear_pos
        BY SMT, <1>1, <1>2, <2>2, <3>1
      <4> QED
        BY <1>1, <4>1 DEF SlotsInv, ClearedInv
    <3>3. At(q) = At(p)
      BY <1>2, <3>1, ModShift DEF At
    <3> QED
      BY <3>2, <3>3
  <2> QED
    BY SMT, <1>2, <2>1, <2>2
<1>8. ClearedInv' /\ SkipInv'
  BY <1>1 DEF ClearedInv, SkipInv
<1>9. StoredInv'
  BY SMT, <1>1, <1>3 DEF SlotsInv, StoredInv, Live
<1>10. AckedNeverLost'
  <2> SUFFICES ASSUME NEW r \in published, r.id \notin durable
               PROVE  pending_main_pos_ <= r.id /\ RecordIntact(r.id, r.cont)'
    BY <1>1 DEF AckedNeverLost
  <2>1. r.id \in Nat /\ r.cont \in Nat /\ pending_main_pos_ <= r.id
    BY SMT, <1>1 DEF HistoryInv
  <2>2. RecordIntact(r.id, r.cont)
    BY DEF SlotsInv, AckedNeverLost
  <2> QED
    BY SMT, <1>3, <2>1, <2>2 DEF RecordIntact
<1>11. HistoryInv'
  BY SMT, <1>1, <1>2 DEF HistoryInv, ReplayedOnceInOrder, AppliedIds
<1> QED
  BY <1>4, <1>5, <1>6, <1>7, <1>8, <1>9, <1>10, <1>11 DEF Rest, SlotsInv

(* The orphan skip: the slot passed starts no published record.               *)
LEMMA SkipAdvanceStep ==
    ASSUME IInv, SkipAdvance
    PROVE  Rest'
<1> USE DEF IInv, TypeOK
<1>1. /\ UNCHANGED <<head_, ring_, pc, cur_head, cont_count, unwritten, published>>
      /\ UNCHANGED <<pending_main_pos_, snapshot, replay_pos, clear_pos, applied, durable>>
      /\ cpc = "skip_advance" /\ cpc' = "skip_clear"
      /\ checkpoint_pos_' = checkpoint_pos_ + 1
  BY DEF SkipAdvance, AdvanceCheckpoint
<1>2. /\ Capacity \in Nat \ {0} /\ Cursor \in Nat /\ Cursor' \in Nat
      /\ Cursor = CaughtUpPending
      /\ Cursor' \in {Cursor, checkpoint_pos_ + 1} /\ Cursor <= Cursor'
      /\ checkpoint_pos_ + 1 <= Cursor'
      /\ Cursor' = Cursor \/ Cursor = checkpoint_pos_
  BY SMT, <1>1, CompactWALAssumption DEF Cursor, CaughtUpPending
<1>3. /\ checkpoint_pos_ < head_ /\ ~IsReady(At(checkpoint_pos_))
      /\ \A w \in Writers : Live(w) => checkpoint_pos_ < cur_head[w]
  BY <1>1 DEF SlotsInv, SkipInv
<1>4. \A q \in Nat : At(q)' = At(q)
  BY <1>1, SlotKeep
<1>5. PositionsInv'
  BY SMT, <1>1, <1>2, <1>3 DEF PositionsInv
<1>6. RecordsInv'
  BY SMT, <1>1, <1>2, <1>3 DEF RecordsInv, Live
<1>7. ReadyInv'
  BY SMT, <1>1, <1>4 DEF SlotsInv, ReadyInv
<1>8. FreeInv'
  BY SMT, <1>1, <1>2, <1>4 DEF SlotsInv, FreeInv, Free
<1>9. ClearedInv' /\ SkipInv'
  BY SMT, <1>1 DEF ClearedInv, SkipInv
<1>10. StoredInv'
  BY SMT, <1>1, <1>4 DEF SlotsInv, StoredInv, Live
<1>11. ASSUME NEW r \in published, r.id \notin durable
       PROVE  checkpoint_pos_ + 1 <= r.id /\ RecordIntact(r.id, r.cont)
  <2>1. r.id \in Nat /\ checkpoint_pos_ <= r.id /\ RecordIntact(r.id, r.cont)
    BY <1>11 DEF SlotsInv, AckedNeverLost
  <2>2. IsReady(At(r.id))
    BY <2>1, SlotKinds DEF RecordIntact
  <2>3. r.id # checkpoint_pos_
    BY <1>3, <2>2
  <2> QED
    BY SMT, <2>1, <2>3
<1>12. AckedNeverLost'
  <2> SUFFICES ASSUME NEW r \in published, r.id \notin durable
               PROVE  checkpoint_pos_ + 1 <= r.id /\ RecordIntact(r.id, r.cont)'
    BY <1>1 DEF AckedNeverLost
  <2>1. r.id \in Nat /\ r.cont \in Nat
    BY SMT
  <2> QED
    BY SMT, <1>4, <1>11, <2>1 DEF RecordIntact
<1>13. HistoryInv'
  <2>1. \A i \in DOMAIN applied : applied[i] < Cursor'
    BY SMT, <1>2 DEF HistoryInv
  <2>2. ASSUME NEW r \in published, r.id < Cursor' PROVE r.id \in AppliedIds
    <3>1. CASE r.id \in durable
      BY <3>1 DEF HistoryInv
    <3>2. CASE r.id \notin durable
      <4>1. r.id \in Nat /\ checkpoint_pos_ + 1 <= r.id
        BY <1>11, <3>2
      <4>2. r.id < Cursor
        BY SMT, <1>2, <2>2, <4>1
      <4> QED
        BY <4>2 DEF HistoryInv
    <3> QED
      BY <3>1, <3>2
  <2> QED
    BY <1>1, <2>1, <2>2 DEF HistoryInv, ReplayedOnceInOrder, AppliedIds
<1> QED
  BY <1>5, <1>6, <1>7, <1>8, <1>9, <1>10, <1>12, <1>13 DEF Rest, SlotsInv

(* The skipped slot is cleared only after checkpoint_pos_ has passed it.  No  *)
(* writer can have reserved it for the next lap in between, because           *)
(* TryReserveSlots always keeps one slot of the ring free.                    *)
LEMMA SkipClearStep ==
    ASSUME IInv, SkipClear
    PROVE  Rest'
<1> USE DEF IInv, TypeOK
<1>1. /\ UNCHANGED <<head_, checkpoint_pos_, pc, cur_head, cont_count, unwritten, published>>
      /\ UNCHANGED <<pending_main_pos_, snapshot, replay_pos, clear_pos, applied, durable>>
      /\ cpc = "skip_clear" /\ cpc' = "idle"
      /\ ring_' = [ring_ EXCEPT ![(checkpoint_pos_ - 1) % Capacity] = EmptySlot]
  BY DEF SkipClear, ClearSlot
<1>2. checkpoint_pos_ - 1 \in Nat
  BY SMT, <1>1 DEF SlotsInv, SkipInv
<1> PICK c \in Nat : c = checkpoint_pos_ - 1
  BY <1>2
<1>3. /\ Capacity \in Nat \ {0} /\ Cursor' = Cursor
      /\ checkpoint_pos_ <= Cursor /\ Cursor \in Nat
      /\ head_ < checkpoint_pos_ + Capacity
      /\ checkpoint_pos_ = c + 1
  BY SMT, <1>1, CompactWALAssumption DEF PositionsInv, Cursor, CaughtUpPending
<1>4. /\ At(c + Capacity)' = EmptySlot
      /\ \A q \in Nat : q # c /\ q < c + Capacity /\ c < q + Capacity =>
           At(q)' = At(q)
  BY <1>1, SlotWrite
<1>5. \A q \in Nat : checkpoint_pos_ <= q /\ q < checkpoint_pos_ + Capacity - 1 =>
        At(q)' = At(q)
  BY SMT, <1>3, <1>4
<1>6. PositionsInv'
  BY <1>1, <1>3 DEF PositionsInv
<1>7. RecordsInv'
  BY <1>1, <1>3 DEF RecordsInv, Live
<1>8. ReadyInv'
  <2> SUFFICES ASSUME NEW q \in Nat, checkpoint_pos_ <= q, q < head_
               PROVE  At(q)' = At(q)
    BY <1>1 DEF SlotsInv, ReadyInv, IsReady
  <2> QED
    BY SMT, <1>3, <1>5
<1>9. FreeInv'
  <2> SUFFICES ASSUME NEW q \in Nat, head_ <= q, q < checkpoint_pos_ + Capacity
               PROVE  ~IsReady(At(q)')
    BY <1>1 DEF FreeInv, Free, IsReady
  <2>1. CASE q = c + Capacity
    BY <1>4, <2>1, SlotKinds
  <2>2. CASE q # c + Capacity
    <3>1. At(q)' = At(q)
      BY SMT, <1>3, <1>5, <2>2 DEF PositionsInv
    <3>2. ~IsReady(At(q))
      BY SMT, <1>1, <1>3, <2>2 DEF SlotsInv, FreeInv, Free
    <3> QED
      BY <3>1, <3>2
  <2> QED
    BY <2>1, <2>2
<1>10. ClearedInv' /\ SkipInv'
  BY <1>1 DEF ClearedInv, SkipInv
<1>11. StoredInv'
  <2> SUFFICES ASSUME NEW w \in Writers, Live(w), NEW i \in 1..cont_count[w],
                      unwritten[w] < i
               PROVE  At(cur_head[w] + i)' = At(cur_head[w] + i)
    BY <1>1 DEF SlotsInv, StoredInv, Live
  <2>1. /\ cur_head[w] \in Nat /\ checkpoint_pos_ <= cur_head[w]
        /\ cur_head[w] + cont_count[w] < head_
    BY SMT, <1>3 DEF RecordsInv
  <2> QED
    BY SMT, <1>1, <1>3, <1>5, <2>1
<1>12. AckedNeverLost'
  <2> SUFFICES ASSUME NEW r \in published, r.id \notin durable
               PROVE  checkpoint_pos_ <= r.id /\ RecordIntact(r.id, r.cont)'
    BY <1>1 DEF AckedNeverLost
  <2>1. /\ r.id \in Nat /\ r.cont \in Nat /\ r.id + r.cont < head_
        /\ checkpoint_pos_ <= r.id /\ RecordIntact(r.id, r.cont)
    BY SMT DEF RecordsInv, SlotsInv, AckedNeverLost
  <2>2. \A i \in 0..r.cont : At(r.id + i)' = At(r.id + i)
    BY SMT, <1>3, <1>5, <2>1
  <2>3. At(r.id)' = At(r.id)
    BY SMT, <1>3, <1>5, <2>1
  <2> QED
    BY SMT, <2>1, <2>2, <2>3 DEF RecordIntact
<1>13. HistoryInv'
  BY <1>1, <1>3 DEF HistoryInv, ReplayedOnceInOrder, AppliedIds
<1> QED
  BY <1>6, <1>7, <1>8, <1>9, <1>10, <1>11, <1>12, <1>13 DEF Rest, SlotsInv

-----------------------------------------------------------------------------
(* The inductive invariant and what follows from it.                          *)

LEMMA IInvInit == Init => IInv
<1> SUFFICES ASSUME Init PROVE IInv
  OBVIOUS
<1>1. TypeOK
  BY TypeInit
<1>2. Cursor = 0
  BY DEF Init, WalInit, CkInit, Cursor, CaughtUpPending
<1>3. PositionsInv
  BY SMT, <1>2, CompactWALAssumption DEF Init, WalInit, CkInit, PositionsInv
<1>4. RecordsInv
  BY DEF Init, WalInit, RecordsInv, Live
<1>5. ASSUME NEW q \in Nat PROVE ~IsReady(At(q))
  <2>1. q % Capacity \in 0..Capacity-1
    BY CompactWALAssumption, DivMod
  <2> QED
    BY <2>1, SlotKinds DEF Init, WalInit, At
<1>6. SlotsInv
  BY <1>5 DEF Init, WalInit, CkInit, SlotsInv, ReadyInv, FreeInv, ClearedInv,
              StoredInv, Live, SkipInv, AckedNeverLost
<1>7. HistoryInv
  BY SMT DEF Init, WalInit, CkInit, HistoryInv, ReplayedOnceInOrder, AppliedIds
<1> QED
  BY <1>1, <1>3, <1>4, <1>6, <1>7 DEF IInv

LEMMA IInvStep == Timely /\ IInv /\ [Next]_vars => IInv'
<1> SUFFICES ASSUME Timely, IInv, [Next]_vars PROVE IInv'
  OBVIOUS
<1>1. TypeOK'
  BY TypeStep DEF IInv
<1>2. Rest'
  <2>1. CASE \E due, remote_work \in BOOLEAN : BeginCycle(due, remote_work)
    BY <2>1, BeginCycleStep
  <2>2. CASE ReplayRecord
    BY <2>2, ReplayRecordStep
  <2>3. CASE StopReplay
    BY <2>3, StopReplayStep
  <2>4. CASE \E remote_full \in BOOLEAN : Promote(remote_full)
    BY <2>4, PromoteStep
  <2>5. CASE SyncRegions
    BY <2>5, SyncRegionsStep
  <2>6. CASE ClearOne
    BY <2>6, ClearOneStep
  <2>7. CASE Advance
    BY <2>7, AdvanceStep
  <2>8. CASE AfterCycle
    BY <2>8, AfterCycleStep
  <2>9. CASE SkipAdvance
    BY <2>9, SkipAdvanceStep
  <2>10. CASE SkipClear
    BY <2>10, SkipClearStep
  <2>11. ASSUME NEW w \in Writers, WriterNext(w) PROVE Rest'
    BY <2>11, LoadHeadStep, CheckSpaceStep, CasHeadStep, WriteContinuationStep,
       PublishStep, CrashStep DEF WriterNext, WriterStep
  <2>12. CASE UNCHANGED vars
    <3>1. /\ UNCHANGED <<head_, checkpoint_pos_, ring_, published>> /\ UNCHANGED ckVars
          /\ UNCHANGED <<pc, cur_head, cont_count, unwritten>>
      BY <2>12 DEF vars, walVars
    <3>2. PositionsInv'
      BY <3>1, CursorKeep DEF IInv, PositionsInv, ckVars
    <3>3. RecordsInv' /\ SlotsInv' /\ HistoryInv'
      BY <3>1, WriterLocalStep DEF Live
    <3> QED
      BY <3>2, <3>3 DEF Rest
  <2> QED
    BY <2>1, <2>2, <2>3, <2>4, <2>5, <2>6, <2>7, <2>8, <2>9, <2>10, <2>11, <2>12
       DEF Next, CheckpointStep
<1> QED
  BY <1>1, <1>2 DEF IInv, Rest

LEMMA Invariance == Timely => (Spec => []IInv)
<1> SUFFICES ASSUME Timely PROVE Spec => []IInv
  OBVIOUS
<1>1. IInv /\ [Next]_vars => IInv'
  BY IInvStep
<1> QED
  BY <1>1, IInvInit, PTL DEF Spec

(* Write-ahead logging works: in every interleaving of any number of writers, *)
(* crashed writers included, with the checkpoint thread, a record whose       *)
(* append returned is on flash or still whole in the part of the ring that    *)
(* DoCheckpoint scans.                                                        *)
THEOREM NothingAckedIsLost == Timely => (Spec => []AckedNeverLost)
<1>1. IInv => AckedNeverLost
  BY DEF IInv, SlotsInv
<1> QED
  BY <1>1, Invariance, PTL

(* TryReserveSlots never lets the ring be overrun, and neither AdvanceCheck-  *)
(* point nor the orphan skip passes a record that is still being written.     *)
THEOREM RingNeverOverrun == Timely => (Spec => []RingWindow)
<1>1. IInv => RingWindow
  <2> SUFFICES ASSUME IInv PROVE RingWindow
    OBVIOUS
  <2>1. /\ checkpoint_pos_ \in Nat /\ head_ \in Nat /\ Cursor \in Nat
        /\ pending_main_pos_ \in Nat
    BY DEF IInv, TypeOK, Cursor, CaughtUpPending
  <2>2. /\ checkpoint_pos_ <= Cursor /\ Cursor <= head_ /\ pending_main_pos_ <= Cursor
        /\ head_ - checkpoint_pos_ < Capacity
    BY DEF IInv, PositionsInv
  <2>3. ASSUME NEW w \in Writers, pc[w] = "write" PROVE checkpoint_pos_ <= cur_head[w]
    <3>1. cur_head[w] \in Nat /\ Cursor <= cur_head[w]
      BY <2>3, LiveFacts DEF Live
    <3> QED
      BY SMT, <2>1, <2>2, <3>1
  <2> QED
    BY SMT, <2>1, <2>2, <2>3 DEF RingWindow
<1> QED
  BY <1>1, Invariance, PTL

(* DoCheckpoint replays each record once, in the order of the reservations.   *)
THEOREM ReplayOnceInOrder == Timely => (Spec => []ReplayedOnceInOrder)
<1>1. IInv => ReplayedOnceInOrder
  BY DEF IInv, HistoryInv
<1> QED
  BY <1>1, Invariance, PTL

(* DoCheckpoint never decodes a torn record or the leftover of an earlier lap.*)
THEOREM ReplayReadsIntact == Timely => (Spec => []ReplayReadsWholeRecord)
<1>1. IInv => ReplayReadsWholeRecord
  <2> SUFFICES ASSUME IInv, cpc = "replay", replay_pos < snapshot,
                      IsReady(At(replay_pos))
               PROVE  RecordIntact(replay_pos, At(replay_pos).cont)
    BY DEF ReplayReadsWholeRecord
  <2>1. Cursor = replay_pos /\ replay_pos \in Nat
    BY DEF Cursor, IInv, TypeOK
  <2>2. PICK r \in published : /\ r.id = replay_pos
                               /\ At(replay_pos) = PrimarySlot(replay_pos, r.cont)
    BY SMT, <2>1 DEF IInv, TypeOK, PositionsInv, SlotsInv, ReadyInv
  <2>3. r.id \notin durable
    <3> SUFFICES ASSUME r.id \in durable PROVE FALSE
      OBVIOUS
    <3>1. PICK i \in DOMAIN applied : applied[i] = r.id
      BY DEF IInv, HistoryInv, AppliedIds
    <3>2. applied[i] < Cursor
      BY DEF IInv, HistoryInv
    <3> QED
      BY SMT, <2>1, <2>2, <3>1, <3>2
  <2>4. RecordIntact(r.id, r.cont)
    BY <2>3 DEF IInv, SlotsInv, AckedNeverLost
  <2>5. At(replay_pos).cont = r.cont
    BY SMT, <2>2 DEF PrimarySlot
  <2> QED
    BY <2>2, <2>4, <2>5
<1> QED
  BY <1>1, Invariance, PTL
==============================================================================
