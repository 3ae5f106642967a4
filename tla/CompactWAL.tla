------------------------------ MODULE CompactWAL ------------------------------
(***************************************************************************)
(* The per-MDS write-ahead log of include/server/compact_wal.h: a ring of   *)
(* 64-byte slots in CXL-SSD DRAM, filled by the RPC threads of one metadata *)
(* server and drained by its checkpoint thread (module WalCheckpoint).      *)
(*                                                                          *)
(* A record is one primary slot followed by 0..MaxCont continuation slots.  *)
(* A writer reserves the slots by moving head_ with a compare-and-swap,     *)
(* fills the continuations from the last to the first and publishes the     *)
(* primary, whose ready bit makes the record visible.  Every shared load,   *)
(* CAS and 64-byte store is a step of its own.                              *)
(*                                                                          *)
(* Positions are the unbounded counters of the code; a record is identified *)
(* by the position of its primary slot.  Op kinds, names and versions are   *)
(* left out: the ring moves records, whatever they say.                     *)
(***************************************************************************)
EXTENDS Integers

CONSTANTS
    Writers,    \* the server threads that append
    Capacity,   \* capacity_: slots of the ring (a power of two in the code)
    MaxCont,    \* kCompactWalMaxContinuationSlots
    MaxHead     \* bound: no append starts once head_ has reached it

ASSUME CompactWALAssumption ==
    /\ Capacity \in Nat \ {0, 1}
    /\ MaxCont \in Nat
    /\ MaxHead \in Nat

VARIABLES
    head_,            \* next position to reserve
    checkpoint_pos_,  \* everything below it has been checkpointed
    ring_,            \* the slots
    pc,               \* per writer: where it is in Append/AppendWithOverflow
    cur_head,         \* per writer: cur_head, then the reserved position
    cont_count,       \* per writer: continuation slots of its record
    unwritten,        \* per writer: continuation slots it has yet to store
    published         \* history: the records whose append has returned

walVars == <<head_, checkpoint_pos_, ring_, pc, cur_head, cont_count,
             unwritten, published>>

(* A zeroed slot is neither ready nor a continuation. A continuation keeps   *)
(* its place in the record in `cont`, a primary its continuation count.      *)
EmptySlot == [kind |-> "empty", id |-> 0, cont |-> 0]
PrimarySlot(id, cont) == [kind |-> "primary", id |-> id, cont |-> cont]
ContinuationSlot(id, i) == [kind |-> "continuation", id |-> id, cont |-> i]

Slot == [kind : {"empty", "primary", "continuation"}, id : Nat, cont : 0..MaxCont]

(* ring_[pos & capacity_mask_]                                               *)
At(pos) == ring_[pos % Capacity]

(* The magic word of a continuation has bit 31 clear, so only a primary slot *)
(* is ever ready.                                                            *)
IsReady(slot) == slot.kind = "primary"

SlotCount(slot) == 1 + slot.cont

(* The record that starts at pos is complete: its primary is published and   *)
(* each continuation slot holds its own data.                                *)
RecordIntact(pos, cont) ==
    /\ At(pos) = PrimarySlot(pos, cont)
    /\ \A i \in 1..cont : At(pos + i) = ContinuationSlot(pos, i)

WalInit ==
    /\ head_ = 0
    /\ checkpoint_pos_ = 0
    /\ ring_ = [s \in 0..Capacity-1 |-> EmptySlot]
    /\ pc = [w \in Writers |-> "idle"]
    /\ cur_head = [w \in Writers |-> 0]
    /\ cont_count = [w \in Writers |-> 0]
    /\ unwritten = [w \in Writers |-> 0]
    /\ published = {}

(* TryReserveSlots: the relaxed load of head_ before the loop.               *)
LoadHead(w) ==
    /\ pc[w] = "idle"
    /\ head_ < MaxHead
    /\ \E c \in 0..MaxCont : cont_count' = [cont_count EXCEPT ![w] = c]
    /\ cur_head' = [cur_head EXCEPT ![w] = head_]
    /\ pc' = [pc EXCEPT ![w] = "check"]
    /\ UNCHANGED <<head_, checkpoint_pos_, ring_, unwritten, published>>

(* Mutant: the ring may be filled to the last slot.                           *)
HasRoomToTheLastSlot(cur, slots_needed, cp) ==
    (cur + slots_needed - cp) \in 0..Capacity

(* The unsigned test cur_head + slots_needed - cp >= capacity_.  cur_head may *)
(* be older than the cp it is compared with; the difference is then negative, *)
(* wraps to a huge unsigned number and the ring counts as full.              *)
HasRoom(cur, slots_needed, cp) ==
    (cur + slots_needed - cp) \in 0..Capacity-1

(* The load of checkpoint_pos_ and the test; a full ring makes Append return  *)
(* 0, which the caller turns into -EAGAIN.                                    *)
CheckSpace(w) ==
    /\ pc[w] = "check"
    /\ pc' = [pc EXCEPT ![w] =
                IF HasRoom(cur_head[w], 1 + cont_count[w], checkpoint_pos_)
                  THEN "cas" ELSE "idle"]
    /\ UNCHANGED <<head_, checkpoint_pos_, ring_, cur_head, cont_count,
                   unwritten, published>>

(* The compare-and-swap of head_; a failure reloads cur_head and retries.     *)
CasHead(w) ==
    /\ pc[w] = "cas"
    /\ IF head_ = cur_head[w]
         THEN /\ head_' = head_ + 1 + cont_count[w]
              /\ unwritten' = [unwritten EXCEPT ![w] = cont_count[w]]
              /\ pc' = [pc EXCEPT ![w] = "write"]
              /\ UNCHANGED cur_head
         ELSE /\ cur_head' = [cur_head EXCEPT ![w] = head_]
              /\ pc' = [pc EXCEPT ![w] = "check"]
              /\ UNCHANGED <<head_, unwritten>>
    /\ UNCHANGED <<checkpoint_pos_, ring_, cont_count, published>>

(* AppendWithOverflow's loop: continuations are stored last to first.         *)
WriteContinuation(w) ==
    /\ pc[w] = "write"
    /\ unwritten[w] > 0
    /\ ring_' = [ring_ EXCEPT ![(cur_head[w] + unwritten[w]) % Capacity] =
                   ContinuationSlot(cur_head[w], unwritten[w])]
    /\ unwritten' = [unwritten EXCEPT ![w] = @ - 1]
    /\ UNCHANGED <<head_, checkpoint_pos_, pc, cur_head, cont_count, published>>

(* Mutant: the primary may be published before its continuations.             *)
PublishEarly(w) ==
    /\ pc[w] = "write"
    /\ ring_' = [ring_ EXCEPT ![cur_head[w] % Capacity] =
                   PrimarySlot(cur_head[w], cont_count[w])]
    /\ published' = published \cup {[id |-> cur_head[w], cont |-> cont_count[w]]}
    /\ pc' = [pc EXCEPT ![w] = "idle"]
    /\ UNCHANGED <<head_, checkpoint_pos_, cur_head, cont_count, unwritten>>

(* The store of the primary slot, ready bit included, and the return.         *)
Publish(w) ==
    /\ pc[w] = "write"
    /\ unwritten[w] = 0
    /\ ring_' = [ring_ EXCEPT ![cur_head[w] % Capacity] =
                   PrimarySlot(cur_head[w], cont_count[w])]
    /\ published' = published \cup {[id |-> cur_head[w], cont |-> cont_count[w]]}
    /\ pc' = [pc EXCEPT ![w] = "idle"]
    /\ UNCHANGED <<head_, checkpoint_pos_, cur_head, cont_count, unwritten>>

(* The fault CheckpointLoop's orphan rule is about: the writer stops between  *)
(* its reservation and its publish.                                           *)
CrashMidAppend(w) ==
    /\ pc[w] = "write"
    /\ pc' = [pc EXCEPT ![w] = "dead"]
    /\ UNCHANGED <<head_, checkpoint_pos_, ring_, cur_head, cont_count,
                   unwritten, published>>

WriterStep(w) ==
    \/ LoadHead(w)
    \/ CheckSpace(w)
    \/ CasHead(w)
    \/ WriteContinuation(w)
    \/ Publish(w)

(* ClearRange on one slot, and AdvanceCheckpoint: the two operations of the   *)
(* checkpoint thread on the ring.                                             *)
ClearSlot(pos) == ring_' = [ring_ EXCEPT ![pos % Capacity] = EmptySlot]

AdvanceCheckpoint(new_pos) == checkpoint_pos_' = new_pos

=============================================================================
