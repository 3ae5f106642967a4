---------------------------- MODULE WalCheckpoint ----------------------------
(***************************************************************************)
(* The checkpoint thread of src/server/cxl_persistence.cc over the ring of  *)
(* module CompactWAL: DoCheckpoint replays published records into the SSD    *)
(* regions, syncs the regions from time to time, and only then clears the    *)
(* slots and moves checkpoint_pos_; CheckpointLoop calls it back to back and *)
(* skips a slot it takes for the leftover of a crashed writer.               *)
(*                                                                          *)
(* What a record does to the regions is module InodeForwarding's business;   *)
(* here a replayed record is its identity, in the order of replay.  The      *)
(* remote inode WAL, which the same function drains, is there too.           *)
(***************************************************************************)
EXTENDS CompactWAL, Sequences

CONSTANTS
    SyncBatch,     \* kSyncBatchThreshold
    StallRounds,   \* kStallRounds
    TimelyWriters  \* TRUE: a live writer never stays between reservation and
                   \* publish for StallRounds checkpoint cycles

ASSUME WalCheckpointAssumption ==
    /\ SyncBatch \in Nat \ {0}
    /\ StallRounds \in Nat \ {0}
    /\ TimelyWriters \in BOOLEAN

VARIABLES
    cpc,                \* where the checkpoint thread is
    pending_main_pos_,  \* replayed but perhaps not yet synced up to here
    snapshot,           \* head, as read at the start of the cycle
    replay_pos,         \* pos
    timer_due,          \* the sync interval has passed
    clear_pos,          \* ClearRange's loop variable
    stall,
    last_cp,
    applied,            \* history: the records replayed, in order
    durable             \* history: the records covered by a region sync

ckVars == <<cpc, pending_main_pos_, snapshot, replay_pos, timer_due, clear_pos,
            stall, last_cp, applied, durable>>
vars == <<walVars, ckVars>>

CkInit ==
    /\ cpc = "idle"
    /\ pending_main_pos_ = 0
    /\ snapshot = 0
    /\ replay_pos = 0
    /\ timer_due = FALSE
    /\ clear_pos = 0
    /\ stall = 0
    /\ last_cp = 0
    /\ applied = <<>>
    /\ durable = {}

Init == WalInit /\ CkInit

(* pending_main_pos_ never lags behind checkpoint_pos_ (an orphan skip moves  *)
(* the latter only).                                                          *)
CaughtUpPending ==
    IF pending_main_pos_ < checkpoint_pos_ THEN checkpoint_pos_
                                           ELSE pending_main_pos_

(* DoCheckpoint up to its early returns: a cycle with nothing to replay goes  *)
(* on only to sync what earlier cycles left, when the timer or the batch      *)
(* threshold says so.  The remote inode WAL and the deferred changes, which   *)
(* the same function serves, may be what keeps it busy.                       *)
BeginCycle(due, remote_work) ==
    /\ cpc = "idle"
    /\ LET p == CaughtUpPending
           has_new_work == p < head_ \/ remote_work
           any_pending == p > checkpoint_pos_
           return_false ==
               \/ ~has_new_work /\ ~any_pending
               \/ ~has_new_work /\ ~due /\ p - checkpoint_pos_ < SyncBatch
       IN  /\ pending_main_pos_' = p
           /\ IF return_false
                THEN /\ stall' = 0
                     /\ last_cp' = checkpoint_pos_
                     /\ UNCHANGED <<cpc, snapshot, replay_pos, timer_due>>
                ELSE /\ snapshot' = head_
                     /\ replay_pos' = p
                     /\ timer_due' = due
                     /\ cpc' = "replay"
                     /\ UNCHANGED <<stall, last_cp>>
    /\ UNCHANGED <<walVars, clear_pos, applied, durable>>

(* One turn of the replay loop.  The deadline is tested after each record, so *)
(* a cycle replays at least one when there is one.                            *)
ReplayRecord ==
    /\ cpc = "replay"
    /\ replay_pos < snapshot
    /\ IsReady(At(replay_pos))
    /\ applied' = Append(applied, At(replay_pos).id)
    /\ replay_pos' = replay_pos + SlotCount(At(replay_pos))
    /\ cpc' \in {"replay", "promote"}
    /\ UNCHANGED <<walVars, pending_main_pos_, snapshot, timer_due, clear_pos,
                   stall, last_cp, durable>>

(* The loop ends at the snapshot or at the first unpublished primary.         *)
StopReplay ==
    /\ cpc = "replay"
    /\ replay_pos < snapshot => ~IsReady(At(replay_pos))
    /\ cpc' = "promote"
    /\ UNCHANGED <<walVars, pending_main_pos_, snapshot, replay_pos, timer_due,
                   clear_pos, stall, last_cp, applied, durable>>

(* Mutant: a cycle that does not sync forgets how far it has replayed.        *)
PromoteForgetsPosition(remote_full) ==
    /\ cpc = "promote"
    /\ LET drained == replay_pos - checkpoint_pos_
           sync_due == remote_full \/ (drained > 0 /\ (drained >= SyncBatch \/ timer_due))
       IN  /\ cpc' = IF sync_due THEN "sync" ELSE "loop"
           /\ pending_main_pos_' = IF sync_due THEN replay_pos ELSE pending_main_pos_
    /\ UNCHANGED <<walVars, snapshot, replay_pos, timer_due, clear_pos, stall,
                   last_cp, applied, durable>>

(* pending_main_pos_ = pos, and the decision whether to sync in this cycle.   *)
(* Drained entries of the remote inode WAL count too: with them the batch may *)
(* be full, or the timer may have something to sync, whatever was replayed.   *)
Promote(remote_full) ==
    /\ cpc = "promote"
    /\ pending_main_pos_' = replay_pos
    /\ LET drained == replay_pos - checkpoint_pos_
           sync_due == remote_full \/ (drained > 0 /\ (drained >= SyncBatch \/ timer_due))
       IN  cpc' = IF sync_due THEN "sync" ELSE "loop"
    /\ UNCHANGED <<walVars, snapshot, replay_pos, timer_due, clear_pos, stall,
                   last_cp, applied, durable>>

(* Mutant: the ring is cleared without the flush.                             *)
SyncRegionsWithoutFlush ==
    /\ cpc = "sync"
    /\ clear_pos' = checkpoint_pos_
    /\ cpc' = "clear"
    /\ UNCHANGED <<walVars, pending_main_pos_, snapshot, replay_pos, timer_due,
                   stall, last_cp, applied, durable>>

(* FlushDirty and Sync of both regions: all that was replayed is on flash.    *)
SyncRegions ==
    /\ cpc = "sync"
    /\ durable' = {applied[i] : i \in DOMAIN applied}
    /\ clear_pos' = checkpoint_pos_
    /\ cpc' = "clear"
    /\ UNCHANGED <<walVars, pending_main_pos_, snapshot, replay_pos, timer_due,
                   stall, last_cp, applied>>

(* ClearRange(checkpoint_pos_, pending_main_pos_), one slot a step, and then  *)
(* AdvanceCheckpoint(pending_main_pos_).                                      *)
ClearOne ==
    /\ cpc = "clear"
    /\ clear_pos < pending_main_pos_
    /\ ClearSlot(clear_pos)
    /\ clear_pos' = clear_pos + 1
    /\ UNCHANGED <<head_, checkpoint_pos_, pc, cur_head, cont_count, unwritten,
                   published, cpc, pending_main_pos_, snapshot, replay_pos,
                   timer_due, stall, last_cp, applied, durable>>

Advance ==
    /\ cpc = "clear"
    /\ clear_pos = pending_main_pos_
    /\ AdvanceCheckpoint(pending_main_pos_)
    /\ cpc' = "loop"
    /\ UNCHANGED <<head_, ring_, pc, cur_head, cont_count, unwritten, published,
                   pending_main_pos_, snapshot, replay_pos, timer_due,
                   clear_pos, stall, last_cp, applied, durable>>

(* Some live writer still has to fill the slot at pos.                        *)
LiveWriterAt(pos) ==
    \E w \in Writers : /\ pc[w] = "write"
                       /\ pos \in cur_head[w]..(cur_head[w] + cont_count[w])

(* Mutants: the stall counter is not reset when the slot turns out to be      *)
(* published; there is no orphan rule at all.                                 *)
AfterCycleKeepsStall ==
    /\ cpc = "loop"
    /\ LET stalled == checkpoint_pos_ = last_cp /\ checkpoint_pos_ < head_
           orphan == /\ stalled /\ stall + 1 >= StallRounds
                     /\ ~IsReady(At(checkpoint_pos_))
       IN  /\ orphan /\ TimelyWriters => ~LiveWriterAt(checkpoint_pos_)
           /\ cpc' = IF orphan THEN "skip_advance" ELSE "idle"
           /\ stall' = IF stalled /\ ~orphan THEN stall + 1 ELSE 0
    /\ last_cp' = checkpoint_pos_
    /\ UNCHANGED <<walVars, pending_main_pos_, snapshot, replay_pos, timer_due,
                   clear_pos, applied, durable>>

AfterCycleNeverSkips ==
    /\ cpc = "loop"
    /\ cpc' = "idle"
    /\ stall' = 0
    /\ last_cp' = checkpoint_pos_
    /\ UNCHANGED <<walVars, pending_main_pos_, snapshot, replay_pos, timer_due,
                   clear_pos, applied, durable>>

(* CheckpointLoop after a cycle that returned true: count the cycles that did *)
(* not move checkpoint_pos_, and at StallRounds of them test the slot there.  *)
AfterCycle ==
    /\ cpc = "loop"
    /\ LET stalled == checkpoint_pos_ = last_cp /\ checkpoint_pos_ < head_
           limit == stalled /\ stall + 1 >= StallRounds
           orphan == limit /\ ~IsReady(At(checkpoint_pos_))
       IN  /\ orphan /\ TimelyWriters => ~LiveWriterAt(checkpoint_pos_)
           /\ cpc' = IF orphan THEN "skip_advance" ELSE "idle"
           /\ stall' = IF stalled /\ ~limit THEN stall + 1 ELSE 0
    /\ last_cp' = checkpoint_pos_
    /\ UNCHANGED <<walVars, pending_main_pos_, snapshot, replay_pos, timer_due,
                   clear_pos, applied, durable>>

(* The orphan skip moves checkpoint_pos_ first and clears the slot after.     *)
SkipAdvance ==
    /\ cpc = "skip_advance"
    /\ AdvanceCheckpoint(checkpoint_pos_ + 1)
    /\ cpc' = "skip_clear"
    /\ UNCHANGED <<head_, ring_, pc, cur_head, cont_count, unwritten, published,
                   pending_main_pos_, snapshot, replay_pos, timer_due,
                   clear_pos, stall, last_cp, applied, durable>>

SkipClear ==
    /\ cpc = "skip_clear"
    /\ ClearSlot(checkpoint_pos_ - 1)
    /\ cpc' = "idle"
    /\ UNCHANGED <<head_, checkpoint_pos_, pc, cur_head, cont_count, unwritten,
                   published, pending_main_pos_, snapshot, replay_pos,
                   timer_due, clear_pos, stall, last_cp, applied, durable>>

CheckpointStep ==
    \/ \E due, remote_work \in BOOLEAN : BeginCycle(due, remote_work)
    \/ ReplayRecord
    \/ StopReplay
    \/ \E remote_full \in BOOLEAN : Promote(remote_full)
    \/ SyncRegions
    \/ ClearOne
    \/ Advance
    \/ AfterCycle
    \/ SkipAdvance
    \/ SkipClear

WriterNext(w) == (WriterStep(w) \/ CrashMidAppend(w)) /\ UNCHANGED ckVars

Next == CheckpointStep \/ \E w \in Writers : WriterNext(w)

(* The checkpoint thread and every live writer run; the sync timer, which     *)
(* only grows between syncs, is found expired again and again.                *)
Fairness ==
    /\ WF_vars(CheckpointStep)
    /\ SF_vars(\E remote_work \in BOOLEAN : BeginCycle(TRUE, remote_work))
    /\ \A w \in Writers : WF_vars(WriterStep(w) /\ UNCHANGED ckVars)

Spec == Init /\ [][Next]_vars
FairSpec == Spec /\ Fairness

-----------------------------------------------------------------------------
(* Type invariant of the ring, its writers and the checkpoint thread.         *)
TypeOK ==
    /\ head_ \in Nat
    /\ checkpoint_pos_ \in Nat
    /\ ring_ \in [0..Capacity-1 -> Slot]
    /\ pc \in [Writers -> {"idle", "check", "cas", "write", "dead"}]
    /\ cur_head \in [Writers -> Nat]
    /\ cont_count \in [Writers -> 0..MaxCont]
    /\ unwritten \in [Writers -> 0..MaxCont]
    /\ published \in SUBSET [id : Nat, cont : 0..MaxCont]
    /\ cpc \in {"idle", "replay", "promote", "sync", "clear", "loop",
                "skip_advance", "skip_clear"}
    /\ pending_main_pos_ \in Nat
    /\ snapshot \in Nat
    /\ replay_pos \in Nat
    /\ timer_due \in BOOLEAN
    /\ clear_pos \in Nat
    /\ stall \in 0..StallRounds-1
    /\ last_cp \in Nat
    /\ applied \in Seq(Nat)
    /\ durable \in SUBSET Nat

(* The ring is never overrun: TryReserveSlots works from a stale head_ and a  *)
(* stale checkpoint_pos_, and still the reserved positions fit in the ring    *)
(* with a slot to spare, the thread replays only reserved positions, and      *)
(* checkpoint_pos_ never passes a record whose writer is still filling it.    *)
RingWindow ==
    /\ checkpoint_pos_ <= head_
    /\ head_ - checkpoint_pos_ < Capacity
    /\ pending_main_pos_ <= head_
    /\ \A w \in Writers : pc[w] = "write" => checkpoint_pos_ <= cur_head[w]

(* Records are replayed once each and in the order of their reservations,     *)
(* through early ends of a cycle, several cycles per sync and ring wraps.     *)
ReplayedOnceInOrder ==
    \A i, j \in DOMAIN applied : i < j => applied[i] < applied[j]

(* What DoCheckpoint decodes is the record reserved at that position, with    *)
(* all its continuation slots, never the leftover of an earlier lap.          *)
ReplayReadsWholeRecord ==
    cpc = "replay" /\ replay_pos < snapshot /\ IsReady(At(replay_pos)) =>
        RecordIntact(replay_pos, At(replay_pos).cont)

(* Write-ahead: at every moment a record whose append returned is covered by  *)
(* a sync of the SSD regions or is still whole in the scanned part of the     *)
(* ring, so a crash at any point leaves one of the two.                       *)
AckedNeverLost ==
    \A r \in published :
        \/ r.id \in durable
        \/ checkpoint_pos_ <= r.id /\ RecordIntact(r.id, r.cont)

(* Every record whose append returned is eventually on flash, even behind the *)
(* slots of a writer that crashed in the middle of its append.                *)
AckedBecomesDurable ==
    \A p \in 0..MaxHead : (\E r \in published : r.id = p) ~> (p \in durable)

(* What CheckpointLoop skips is the leftover of a writer that crashed in the  *)
(* middle of its append: a record whose append returned is never below        *)
(* checkpoint_pos_ without having been persisted.                             *)
OnlyOrphansSkipped ==
    \A r \in published : r.id < checkpoint_pos_ => r.id \in durable
=============================================================================
