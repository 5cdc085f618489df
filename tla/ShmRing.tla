------------------------------- MODULE ShmRing -------------------------------
(***************************************************************************)
(* The single-producer single-consumer ring of shm_transport.hpp, attached *)
(* and initialised: ShmRing::try_push driven by publish_local_ipc, and     *)
(* ShmRing::try_pop_zero_copy driven by the node's shm poll thread         *)
(* (try_pop takes the same steps and copies the payload out).              *)
(*                                                                         *)
(* There is no lock.  Each load, each store and each memcpy on the shared  *)
(* segment is a step of its own, so the two processes interleave between   *)
(* any two of them.  Steps are sequentially consistent; SlotExclusive is   *)
(* the fact that makes this sound for the code's acquire/release indices   *)
(* and plain slot accesses, because it says no slot access races another.  *)
(***************************************************************************)
EXTENDS Naturals, Sequences

CONSTANTS
    Capacity,     \* slots of the ring (kShmDefaultCapacity = 1024)
    Payloads,     \* the payloads a publisher may hand over
    PayloadLen,   \* their lengths in bytes
    Zeros,        \* the payload bytes of a segment nobody has written to
    MaxPayload,   \* max_payload_ of the ring
    SeqMod,       \* 2^32 in the code: shm_seq_ is a map to uint32_t
    MaxAccepted   \* bound: publishing ends after this many accepted pushes

ASSUME CapacityAssumption == Capacity \in Nat \ {0}
ASSUME PayloadAssumption ==
    /\ PayloadLen \in [Payloads -> Nat]
    /\ MaxPayload \in Nat
ASSUME SeqAssumption == SeqMod \in Nat \ {0}
ASSUME BoundAssumption == MaxAccepted \in Nat

VARIABLES
    head,         \* hdr_->head, written by the consumer only
    tail,         \* hdr_->tail, written by the producer only
    slot,         \* the slots, each the three fields the code copies separately
    shm_seq,      \* shm_seq_[topic_id] of the publishing node
    ppc,          \* where the producer is in try_push
    p_tail,       \* its locals: tail, next, and the message being pushed
    p_next,
    p_msg,
    cpc,          \* where the consumer is in try_pop_zero_copy
    c_head,       \* its locals: head, and the fields read so far
    c_msg,
    stop_requested,
    accepted,     \* history: messages whose try_push returned true, in order
    delivered     \* history: messages whose callback returned, in order

producer == <<tail, slot, shm_seq, ppc, p_tail, p_next, p_msg, accepted>>
consumer == <<head, cpc, c_head, c_msg, delivered>>
vars == <<head, tail, slot, shm_seq, ppc, p_tail, p_next, p_msg,
          cpc, c_head, c_msg, stop_requested, accepted, delivered>>

Index == 0 .. Capacity - 1

(***************************************************************************)
(* A slot and a message have the same shape: seq_num, payload_len,         *)
(* payload.                                                                *)
(***************************************************************************)
Message == [seq : 0 .. SeqMod - 1, len : 0 .. MaxPayload,
            data : Payloads \cup {Zeros}]
EmptySlot == [seq |-> 0, len |-> 0, data |-> Zeros]

Init ==
    /\ head = 0 /\ tail = 0
    /\ slot = [i \in Index |-> EmptySlot]
    /\ shm_seq = 0
    /\ ppc = "idle" /\ p_tail = 0 /\ p_next = 0 /\ p_msg = EmptySlot
    /\ cpc = "idle" /\ c_head = 0 /\ c_msg = EmptySlot
    /\ stop_requested = FALSE
    /\ accepted = <<>> /\ delivered = <<>>

(***************************************************************************)
(* Faulty variants of the definitions below.  No specification uses them:  *)
(* each is substituted for its original to show a property detects it.     *)
(***************************************************************************)
IsFullNever(next, h) == FALSE

NextIndexNoWrap(i) == i + 1

NextIndex(i) == (i + 1) % Capacity

\* The store of tail comes before the slot is written.
TryPushStoreTailFirst ==
    /\ ppc = "load_head"
    /\ p_next' = NextIndex(p_tail)
    /\ IF p_next' = head
         THEN ppc' = "idle" /\ UNCHANGED tail
         ELSE ppc' = "write_seq" /\ tail' = p_next'
    /\ UNCHANGED <<slot, shm_seq, p_tail, p_msg, accepted>>
    /\ UNCHANGED <<consumer, stop_requested>>

PollNextOnlyWhenFull ==
    /\ cpc = "idle"
    /\ ~stop_requested
    /\ NextIndex(tail) = head
    /\ c_head' = head
    /\ cpc' = "load_tail"
    /\ UNCHANGED <<head, c_msg, delivered>>
    /\ UNCHANGED <<producer, stop_requested>>

-----------------------------------------------------------------------------
(***************************************************************************)
(* Producer.                                                               *)
(***************************************************************************)
IsFull(next, h) == next = h
IsEmpty(h, t) == h = t

(***************************************************************************)
(* publish_local_ipc draws the sequence number under the node's lock, then *)
(* calls try_push, whose length check comes before it reads the ring: an   *)
(* oversized payload is refused and its number is lost.                    *)
(***************************************************************************)
PublishLocalIpc(d) ==
    /\ ppc = "idle"
    /\ Len(accepted) < MaxAccepted
    /\ shm_seq' = (shm_seq + 1) % SeqMod
    /\ \/ /\ PayloadLen[d] > MaxPayload
          /\ UNCHANGED <<ppc, p_msg, p_tail>>
       \/ /\ PayloadLen[d] <= MaxPayload
          /\ p_msg' = [seq |-> shm_seq, len |-> PayloadLen[d], data |-> d]
          /\ p_tail' = tail
          /\ ppc' = "load_head"
    /\ UNCHANGED <<tail, slot, p_next, accepted>>
    /\ UNCHANGED <<consumer, stop_requested>>

\* Load head, compute next, return false when the ring is full.
TryPushLoadHead ==
    /\ ppc = "load_head"
    /\ p_next' = NextIndex(p_tail)
    /\ ppc' = IF IsFull(p_next', head) THEN "idle" ELSE "write_seq"
    /\ UNCHANGED <<tail, slot, shm_seq, p_tail, p_msg, accepted>>
    /\ UNCHANGED <<consumer, stop_requested>>

\* The three memcpys into the slot, one step each.
TryPushWriteSeq ==
    /\ ppc = "write_seq"
    /\ slot' = [slot EXCEPT ![p_tail].seq = p_msg.seq]
    /\ ppc' = "write_len"
    /\ UNCHANGED <<tail, shm_seq, p_tail, p_next, p_msg, accepted>>
    /\ UNCHANGED <<consumer, stop_requested>>

TryPushWriteLen ==
    /\ ppc = "write_len"
    /\ slot' = [slot EXCEPT ![p_tail].len = p_msg.len]
    /\ ppc' = "write_data"
    /\ UNCHANGED <<tail, shm_seq, p_tail, p_next, p_msg, accepted>>
    /\ UNCHANGED <<consumer, stop_requested>>

TryPushWriteData ==
    /\ ppc = "write_data"
    /\ slot' = [slot EXCEPT ![p_tail].data = p_msg.data]
    /\ ppc' = "store_tail"
    /\ UNCHANGED <<tail, shm_seq, p_tail, p_next, p_msg, accepted>>
    /\ UNCHANGED <<consumer, stop_requested>>

\* The release store that publishes the slot; try_push returns true.
TryPushStoreTail ==
    /\ ppc = "store_tail"
    /\ tail' = p_next
    /\ accepted' = Append(accepted, p_msg)
    /\ ppc' = "idle"
    /\ UNCHANGED <<slot, shm_seq, p_tail, p_next, p_msg>>
    /\ UNCHANGED <<consumer, stop_requested>>

-----------------------------------------------------------------------------
(***************************************************************************)
(* Consumer.                                                               *)
(***************************************************************************)

\* The poll loop tests stop_requested_ at its top, then enters
\* try_pop_zero_copy, which loads its own index first.
PollNext ==
    /\ cpc = "idle"
    /\ ~stop_requested
    /\ c_head' = head
    /\ cpc' = "load_tail"
    /\ UNCHANGED <<head, c_msg, delivered>>
    /\ UNCHANGED <<producer, stop_requested>>

\* The acquire load of tail; return false when the ring is empty.
TryPopLoadTail ==
    /\ cpc = "load_tail"
    /\ cpc' = IF IsEmpty(c_head, tail) THEN "idle" ELSE "read_seq"
    /\ UNCHANGED <<head, c_head, c_msg, delivered>>
    /\ UNCHANGED <<producer, stop_requested>>

TryPopReadSeq ==
    /\ cpc = "read_seq"
    /\ c_msg' = [c_msg EXCEPT !.seq = slot[c_head].seq]
    /\ cpc' = "read_len"
    /\ UNCHANGED <<head, c_head, delivered>>
    /\ UNCHANGED <<producer, stop_requested>>

TryPopReadLen ==
    /\ cpc = "read_len"
    /\ c_msg' = [c_msg EXCEPT !.len = slot[c_head].len]
    /\ cpc' = "call"
    /\ UNCHANGED <<head, c_head, delivered>>
    /\ UNCHANGED <<producer, stop_requested>>

\* fn(slot + 8, len, seq_num): the callback reads the payload in place for
\* as long as it runs.
TryPopCallback ==
    /\ cpc = "call"
    /\ c_msg' = [c_msg EXCEPT !.data = slot[c_head].data]
    /\ cpc' = "in_callback"
    /\ UNCHANGED <<head, c_head, delivered>>
    /\ UNCHANGED <<producer, stop_requested>>

\* The callback returned: the release store of head gives the slot back.
TryPopStoreHead ==
    /\ cpc = "in_callback"
    /\ head' = NextIndex(c_head)
    /\ delivered' = Append(delivered, c_msg)
    /\ cpc' = "idle"
    /\ UNCHANGED <<c_head, c_msg>>
    /\ UNCHANGED <<producer, stop_requested>>

\* request_stop on the consuming node: the poll thread ends at its next test.
RequestStop ==
    /\ ~stop_requested
    /\ stop_requested' = TRUE
    /\ UNCHANGED <<producer, consumer>>

-----------------------------------------------------------------------------
ProducerStep ==
    \/ TryPushLoadHead
    \/ TryPushWriteSeq
    \/ TryPushWriteLen
    \/ TryPushWriteData
    \/ TryPushStoreTail

ConsumerStep ==
    \/ PollNext
    \/ TryPopLoadTail
    \/ TryPopReadSeq
    \/ TryPopReadLen
    \/ TryPopCallback
    \/ TryPopStoreHead

Next ==
    \/ \E d \in Payloads : PublishLocalIpc(d)
    \/ ProducerStep
    \/ ConsumerStep
    \/ RequestStop

Spec == Init /\ [][Next]_vars

(***************************************************************************)
(* Both sides are running threads that never block: each keeps taking its  *)
(* next step (the poll loop sleeps 200 us at most).  Nothing is assumed    *)
(* about when, or whether, the application publishes or stops.             *)
(***************************************************************************)
FairSpec == Spec /\ WF_vars(ProducerStep) /\ WF_vars(ConsumerStep)

-----------------------------------------------------------------------------
(***************************************************************************)
(* Properties.                                                             *)
(***************************************************************************)

\* What each variable may hold.
TypeOK ==
    /\ head \in Index /\ tail \in Index
    /\ slot \in [Index -> Message]
    /\ shm_seq \in 0 .. SeqMod - 1
    /\ ppc \in {"idle", "load_head", "write_seq", "write_len", "write_data",
                "store_tail"}
    /\ p_tail \in Index /\ p_next \in Index /\ p_msg \in Message
    /\ cpc \in {"idle", "load_tail", "read_seq", "read_len", "call",
                "in_callback"}
    /\ c_head \in Index /\ c_msg \in Message
    /\ stop_requested \in BOOLEAN
    /\ accepted \in Seq(Message) /\ delivered \in Seq(Message)

\* The part of the ring that holds published, unpopped messages.
Wrap(i) == IF i < Capacity THEN i ELSE i - Capacity
CountOf(h, t) == IF t >= h THEN t - h ELSE (t + Capacity) - h
Count == CountOf(head, tail)
InFlight == [i \in 1 .. Count |-> slot[Wrap(head + (i - 1))]]

Writing == ppc \in {"write_seq", "write_len", "write_data", "store_tail"}
Reading == cpc \in {"read_seq", "read_len", "call", "in_callback"}

(***************************************************************************)
(* The producer never holds a slot for writing while the consumer holds it *)
(* for reading: no slot access of the code is a data race, although no     *)
(* lock protects the slots and each side tests a copy of the other's index *)
(* that may be stale by the time it acts.                                  *)
(***************************************************************************)
SlotExclusive == Writing /\ Reading => p_tail # c_head

(***************************************************************************)
(* "head only advances AFTER fn returns, so the slot can't be overwritten  *)
(* by the producer while fn is still reading it": the payload the callback *)
(* looks at, and the length it was given for it, stay what they were for   *)
(* as long as it runs.                                                     *)
(***************************************************************************)
CallbackSeesStablePayload ==
    cpc = "in_callback" => c_msg = slot[c_head]

(***************************************************************************)
(* Every push that returned true is either delivered or still in the ring, *)
(* in push order, whole (its own sequence number, length and payload       *)
(* together) and once: nothing lost, duplicated, reordered or torn across  *)
(* the wrap of the indices, and a refused push leaves nothing behind.      *)
(***************************************************************************)
FifoExactlyOnce == accepted = delivered \o InFlight

(***************************************************************************)
(* The ring implements a bounded FIFO queue of capacity - 1 messages.      *)
(***************************************************************************)
Queue == INSTANCE ShmQueue WITH
            Bound <- Capacity - 1,
            Message <- Message,
            queue <- InFlight,
            delivered <- delivered

ImplementsQueue == Queue!Spec

(***************************************************************************)
(* A message whose push was accepted reaches the subscriber's callback,    *)
(* unless the subscriber is stopped.                                       *)
(***************************************************************************)
AcceptedIsDelivered ==
    \A n \in 1 .. MaxAccepted :
        (Len(accepted) >= n) ~> (Len(delivered) >= n \/ stop_requested)
=============================================================================
