--------------------------- MODULE ShmRingProofs ---------------------------
(***************************************************************************)
(* Proofs about ShmRing, for every capacity, payload set and bound.        *)
(*                                                                         *)
(* The argument rests on one inductive invariant, IInv.  Each side's copy  *)
(* of its own index is exact, because nobody else writes that index; its   *)
(* copy of the other side's index may be stale, but only in the safe       *)
(* direction: the consumer can only make more room, the producer can only  *)
(* add messages.  So a slot test that passed stays true until its owner    *)
(* acts on it, and what was written to, or read from, the slot so far is   *)
(* what the slot holds.                                                    *)
(***************************************************************************)
EXTENDS ShmRing, TLAPS, SequenceTheorems

\* The producer's locals: its index is exact, the slot it fills is free, and
\* the fields it has copied are in place.
ProducerInv ==
    /\ ppc # "idle" => p_tail = tail
    /\ Writing => p_next = NextIndex(tail) /\ p_next # head
    /\ ppc \in {"write_len", "write_data", "store_tail"}
            => slot[tail].seq = p_msg.seq
    /\ ppc \in {"write_data", "store_tail"} => slot[tail].len = p_msg.len
    /\ ppc = "store_tail" => slot[tail].data = p_msg.data

\* The consumer's locals: its index is exact, the slot it reads holds a
\* message, and the fields it has read agree with the slot.
ConsumerInv ==
    /\ cpc # "idle" => c_head = head
    /\ Reading => head # tail
    /\ cpc \in {"read_len", "call", "in_callback"}
            => c_msg.seq = slot[head].seq
    /\ cpc \in {"call", "in_callback"} => c_msg.len = slot[head].len
    /\ cpc = "in_callback" => c_msg.data = slot[head].data

\* Accepted messages are the delivered ones followed by the ring's, stated
\* element by element.
HistoryInv ==
    /\ Len(accepted) = Len(delivered) + Count
    /\ \A i \in 1 .. Len(delivered) : accepted[i] = delivered[i]
    /\ \A i \in 1 .. Count :
            accepted[Len(delivered) + i] = slot[Wrap(head + (i - 1))]

IInv == TypeOK /\ ProducerInv /\ ConsumerInv /\ HistoryInv

-----------------------------------------------------------------------------
\* The index arithmetic of the code, without the remainder.
LEMMA NextIndexWraps ==
    ASSUME NEW i \in Index
    PROVE  /\ NextIndex(i) = Wrap(i + 1)
           /\ NextIndex(i) \in Index
BY CapacityAssumption, SMT DEF NextIndex, Wrap, Index

\* The k-th message counted from head lies in a slot of the ring, and never
\* in the slot at tail.
LEMMA SlotsBetween ==
    ASSUME NEW h \in Index, NEW t \in Index
    PROVE  /\ CountOf(h, t) \in 0 .. Capacity - 1
           /\ \A i \in 1 .. CountOf(h, t) : /\ Wrap(h + (i - 1)) \in Index
                                            /\ Wrap(h + (i - 1)) # t
           /\ CountOf(h, t) = 0 <=> h = t
BY CapacityAssumption, SMT DEF Index, CountOf, Wrap

\* The ring never holds more than its slots, and what it holds is in them.
LEMMA InFlightSlots ==
    ASSUME head \in Index, tail \in Index
    PROVE  /\ Count \in 0 .. Capacity - 1
           /\ \A i \in 1 .. Count : /\ Wrap(head + (i - 1)) \in Index
                                    /\ Wrap(head + (i - 1)) # tail
           /\ Count = 0 <=> head = tail
BY SlotsBetween DEF Count

-----------------------------------------------------------------------------
\* Every variable keeps its type.
LEMMA TypeInit == Init => TypeOK
BY CapacityAssumption, PayloadAssumption, SeqAssumption
   DEF Init, TypeOK, Index, Message, EmptySlot

\* Every step of try_push, try_pop and the poll loop keeps the types.
LEMMA TypeNext == TypeOK /\ [Next]_vars => TypeOK'
<1> SUFFICES ASSUME TypeOK, [Next]_vars
             PROVE  TypeOK'
    OBVIOUS
<1> USE DEF TypeOK, Message
<1>1. ASSUME NEW d \in Payloads, PublishLocalIpc(d)
      PROVE  TypeOK'
    <2>1. shm_seq \in Nat /\ SeqMod \in Nat /\ SeqMod > 0
        BY SeqAssumption
    <2>2. (shm_seq + 1) % SeqMod \in 0 .. SeqMod - 1
        BY <2>1, SMT
    <2>3. /\ shm_seq' \in 0 .. SeqMod - 1
          /\ UNCHANGED <<tail, slot, p_next, accepted>>
          /\ UNCHANGED <<consumer, stop_requested>>
        BY <1>1, <2>2 DEF PublishLocalIpc
    <2>4. \/ UNCHANGED <<ppc, p_msg, p_tail>>
          \/ /\ PayloadLen[d] <= MaxPayload
             /\ p_msg' = [seq |-> shm_seq, len |-> PayloadLen[d], data |-> d]
             /\ p_tail' = tail
             /\ ppc' = "load_head"
        BY <1>1 DEF PublishLocalIpc
    <2>5. PayloadLen[d] <= MaxPayload => PayloadLen[d] \in 0 .. MaxPayload
        BY PayloadAssumption
    <2>6. p_msg' \in Message /\ p_tail' \in Index
        BY <2>4, <2>5
    <2>7. ppc' \in {"idle", "load_head", "write_seq", "write_len",
                    "write_data", "store_tail"}
        BY <2>4
    <2> QED
        BY <2>3, <2>6, <2>7 DEF consumer
<1>2. CASE TryPushLoadHead
    BY <1>2, NextIndexWraps DEF TryPushLoadHead, consumer
<1>3. CASE TryPushWriteSeq
    BY <1>3 DEF TryPushWriteSeq, consumer
<1>4. CASE TryPushWriteLen
    BY <1>4 DEF TryPushWriteLen, consumer
<1>5. CASE TryPushWriteData
    BY <1>5 DEF TryPushWriteData, consumer
<1>6. CASE TryPushStoreTail
    BY <1>6 DEF TryPushStoreTail, consumer
<1>7. CASE PollNext
    BY <1>7 DEF PollNext, producer
<1>8. CASE TryPopLoadTail
    BY <1>8 DEF TryPopLoadTail, producer
<1>9. CASE TryPopReadSeq
    BY <1>9 DEF TryPopReadSeq, producer
<1>10. CASE TryPopReadLen
    BY <1>10 DEF TryPopReadLen, producer
<1>11. CASE TryPopCallback
    BY <1>11 DEF TryPopCallback, producer
<1>12. CASE TryPopStoreHead
    BY <1>12, NextIndexWraps DEF TryPopStoreHead, producer
<1>13. CASE RequestStop
    BY <1>13 DEF RequestStop, producer, consumer
<1>14. CASE UNCHANGED vars
    BY <1>14 DEF vars
<1> QED
    BY <1>1, <1>2, <1>3, <1>4, <1>5, <1>6, <1>7, <1>8, <1>9, <1>10, <1>11,
       <1>12, <1>13, <1>14
       DEF Next, ProducerStep, ConsumerStep

\* Type correctness: in particular both indices stay inside the ring for
\* every capacity, so every slot access is in bounds.
THEOREM TypeCorrect == Spec => []TypeOK
BY TypeInit, TypeNext, PTL DEF Spec

-----------------------------------------------------------------------------
\* Advancing tail adds the slot at tail behind the others.
LEMMA TailAdvances ==
    ASSUME TypeOK, NextIndex(tail) # head,
           head' = head, tail' = NextIndex(tail)
    PROVE  /\ Count' = Count + 1
           /\ Count \in Nat
           /\ Wrap(head + Count) = tail
           /\ head' # tail'
<1>1. head \in Index /\ tail \in Index
    BY DEF TypeOK
<1>2. tail' = Wrap(tail + 1)
    BY <1>1, NextIndexWraps
<1> QED
    BY <1>1, <1>2, CapacityAssumption, SMT DEF Index, Count, CountOf, Wrap

\* Advancing head removes the oldest slot and shifts the others by one.
LEMMA HeadAdvances ==
    ASSUME TypeOK, head # tail,
           tail' = tail, head' = NextIndex(head)
    PROVE  /\ Count \in Nat \ {0}
           /\ Count' = Count - 1
           /\ Wrap(head + 0) = head
           /\ \A i \in 1 .. Count' : Wrap(head' + (i - 1)) = Wrap(head + i)
           /\ NextIndex(tail) # head'
<1>1. head \in Index /\ tail \in Index
    BY DEF TypeOK
<1>2. head' = Wrap(head + 1) /\ NextIndex(tail) = Wrap(tail + 1)
    BY <1>1, NextIndexWraps
<1> QED
    BY <1>1, <1>2, CapacityAssumption, SMT DEF Index, Count, CountOf, Wrap

\* A slot write at tail leaves the published slots, and so the histories,
\* as they were.
LEMMA WriteAtTail ==
    ASSUME IInv, Writing,
           head' = head, tail' = tail,
           accepted' = accepted, delivered' = delivered,
           \A j \in Index : j # tail => slot'[j] = slot[j]
    PROVE  HistoryInv'
<1>1. head \in Index /\ tail \in Index
    BY DEF IInv, TypeOK
<1>2. Count' = Count
    BY DEF Count
<1>3. \A i \in 1 .. Count : slot'[Wrap(head + (i - 1))] = slot[Wrap(head + (i - 1))]
    BY <1>1, InFlightSlots
<1>4. \A i \in 1 .. Count' :
         accepted'[Len(delivered') + i] = slot'[Wrap(head' + (i - 1))]
    BY <1>2, <1>3 DEF IInv, HistoryInv
<1> QED
    BY <1>2, <1>4 DEF IInv, HistoryInv

\* The empty ring satisfies the inductive invariant.
LEMMA IInvInit == Init => IInv
<1> SUFFICES ASSUME Init PROVE IInv
    OBVIOUS
<1>1. TypeOK
    BY TypeInit
<1>2. Count = 0
    BY CapacityAssumption DEF Init, Count, CountOf
<1>3. ProducerInv /\ ConsumerInv
    BY DEF Init, ProducerInv, ConsumerInv, Writing, Reading
<1>4. HistoryInv
    BY <1>2 DEF Init, HistoryInv
<1> QED
    BY <1>1, <1>3, <1>4 DEF IInv

\* The producer's steps.
LEMMA ProducerKeepsIInv ==
    ASSUME IInv, TypeOK',
           (\E d \in Payloads : PublishLocalIpc(d)) \/ ProducerStep
    PROVE  IInv'
<1> USE DEF IInv
<1>1. ASSUME NEW d \in Payloads, PublishLocalIpc(d)
      PROVE  IInv'
    <2>1. UNCHANGED <<head, tail, slot, accepted, delivered, cpc, c_head, c_msg>>
        BY <1>1 DEF PublishLocalIpc, consumer
    <2>2. /\ ppc = "idle"
          /\ ppc' = "idle" \/ (ppc' = "load_head" /\ p_tail' = tail)
        BY <1>1 DEF PublishLocalIpc
    <2>3. HistoryInv'
        BY <2>1 DEF HistoryInv, Count, Wrap
    <2>4. ConsumerInv'
        BY <2>1 DEF ConsumerInv, Reading
    <2>5. ProducerInv'
        BY <2>1, <2>2 DEF ProducerInv, Writing
    <2> QED
        BY <2>3, <2>4, <2>5
<1>2. CASE TryPushLoadHead
    <2>1. UNCHANGED <<head, tail, slot, accepted, delivered, cpc, c_head, c_msg>>
        BY <1>2 DEF TryPushLoadHead, consumer
    <2>2. HistoryInv'
        BY <2>1 DEF HistoryInv, Count, Wrap
    <2>3. ConsumerInv'
        BY <2>1 DEF ConsumerInv, Reading
    <2>4. ProducerInv'
        BY <1>2, <2>1 DEF TryPushLoadHead, ProducerInv, Writing, IsFull, NextIndex
    <2> QED
        BY <2>2, <2>3, <2>4
<1>3. CASE TryPushWriteSeq \/ TryPushWriteLen \/ TryPushWriteData
    <2>1. /\ UNCHANGED <<head, tail, p_tail, p_next, p_msg, accepted, delivered,
                         cpc, c_head, c_msg>>
          /\ Writing /\ Writing'
        BY <1>3 DEF TryPushWriteSeq, TryPushWriteLen, TryPushWriteData,
                    consumer, Writing
    <2>2. p_tail = tail /\ tail \in Index /\ head \in Index
        BY <2>1 DEF ProducerInv, Writing, TypeOK
    <2>3. \A j \in Index : j # tail => slot'[j] = slot[j]
        BY <1>3, <2>2
           DEF TryPushWriteSeq, TryPushWriteLen, TryPushWriteData, TypeOK
    <2>4. HistoryInv'
        BY <2>1, <2>3, WriteAtTail
    <2>5. ConsumerInv'
        <3>1. Reading => slot'[head] = slot[head]
            BY <2>2, <2>3 DEF ConsumerInv
        <3> QED
            BY <2>1, <3>1 DEF ConsumerInv, Reading
    <2>6. ProducerInv'
        <3>1. CASE TryPushWriteSeq
            <4>1. slot'[tail].seq = p_msg.seq
                BY <2>2, <3>1 DEF TryPushWriteSeq, TypeOK, Message
            <4> QED
                BY <2>1, <3>1, <4>1 DEF ProducerInv, TryPushWriteSeq, Writing, NextIndex
        <3>2. CASE TryPushWriteLen
            <4>1. slot'[tail].len = p_msg.len /\ slot'[tail].seq = slot[tail].seq
                BY <2>2, <3>2 DEF TryPushWriteLen, TypeOK, Message
            <4> QED
                BY <2>1, <3>2, <4>1 DEF ProducerInv, TryPushWriteLen, Writing, NextIndex
        <3>3. CASE TryPushWriteData
            <4>1. /\ slot'[tail].data = p_msg.data
                  /\ slot'[tail].seq = slot[tail].seq
                  /\ slot'[tail].len = slot[tail].len
                BY <2>2, <3>3 DEF TryPushWriteData, TypeOK, Message
            <4> QED
                BY <2>1, <3>3, <4>1 DEF ProducerInv, TryPushWriteData, Writing, NextIndex
        <3> QED
            BY <1>3, <3>1, <3>2, <3>3
    <2> QED
        BY <2>4, <2>5, <2>6
<1>4. CASE TryPushStoreTail
    <2>1. /\ UNCHANGED <<head, slot, p_tail, p_next, p_msg, delivered, cpc, c_head, c_msg>>
          /\ ppc = "store_tail" /\ ppc' = "idle"
          /\ tail' = p_next
          /\ accepted' = Append(accepted, p_msg)
        BY <1>4 DEF TryPushStoreTail, consumer
    <2>2. tail' = NextIndex(tail) /\ NextIndex(tail) # head
        BY <2>1 DEF ProducerInv, Writing
    <2>3. /\ Count' = Count + 1
          /\ Count \in Nat
          /\ Wrap(head + Count) = tail
          /\ head' # tail'
        BY <2>1, <2>2, TailAdvances
    <2>4. p_msg = slot[tail]
        <3>1. /\ slot[tail].seq = p_msg.seq
              /\ slot[tail].len = p_msg.len
              /\ slot[tail].data = p_msg.data
            BY <2>1 DEF ProducerInv
        <3>2. p_msg \in Message /\ slot[tail] \in Message
            BY DEF TypeOK
        <3> QED
            BY <3>1, <3>2 DEF Message
    <2>5. HistoryInv'
        <3>1. accepted \in Seq(Message) /\ delivered \in Seq(Message)
            BY DEF TypeOK
        <3>2. Len(accepted') = Len(delivered') + Count'
            BY <2>1, <2>3, <3>1 DEF HistoryInv
        <3>3. \A i \in 1 .. Len(delivered') : accepted'[i] = delivered'[i]
            BY <2>1, <2>3, <3>1 DEF HistoryInv
        <3>4. ASSUME NEW i \in 1 .. Count'
              PROVE  accepted'[Len(delivered') + i] = slot'[Wrap(head' + (i - 1))]
            <4>1. CASE i \in 1 .. Count
                BY <2>1, <2>3, <3>1, <4>1 DEF HistoryInv
            <4>2. CASE i = Count + 1
                <5>0. Len(delivered) + i = Len(accepted) + 1
                    BY <2>3, <3>1, <4>2 DEF HistoryInv
                <5>1. accepted'[Len(delivered) + i] = slot[tail]
                    BY <2>1, <2>4, <3>1, <5>0
                <5>2. head + (i - 1) = head + Count
                    BY <2>3, <4>2 DEF TypeOK, Index
                <5> QED
                    BY <2>1, <2>3, <5>1, <5>2
            <4> QED
                BY <2>3, <4>1, <4>2
        <3> QED
            BY <3>2, <3>3, <3>4 DEF HistoryInv
    <2>6. ConsumerInv'
        BY <2>1, <2>3 DEF ConsumerInv, Reading
    <2>7. ProducerInv'
        BY <2>1 DEF ProducerInv, Writing
    <2> QED
        BY <2>5, <2>6, <2>7
<1> QED
    BY <1>1, <1>2, <1>3, <1>4 DEF ProducerStep

\* The consumer's steps.
LEMMA ConsumerKeepsIInv ==
    ASSUME IInv, TypeOK', ConsumerStep
    PROVE  IInv'
<1> USE DEF IInv
<1>1. CASE PollNext \/ TryPopLoadTail
    <2>1. UNCHANGED <<head, tail, slot, accepted, delivered, ppc, p_tail, p_next, p_msg>>
        BY <1>1 DEF PollNext, TryPopLoadTail, producer
    <2>2. HistoryInv'
        BY <2>1 DEF HistoryInv, Count, Wrap
    <2>3. ProducerInv'
        BY <2>1 DEF ProducerInv, Writing, NextIndex
    <2>4. ConsumerInv'
        BY <1>1, <2>1
           DEF PollNext, TryPopLoadTail, ConsumerInv, Reading, IsEmpty
    <2> QED
        BY <2>2, <2>3, <2>4
<1>2. CASE TryPopReadSeq \/ TryPopReadLen \/ TryPopCallback
    <2>1. UNCHANGED <<head, tail, slot, c_head, accepted, delivered,
                      ppc, p_tail, p_next, p_msg>>
        BY <1>2 DEF TryPopReadSeq, TryPopReadLen, TryPopCallback, producer
    <2>2. HistoryInv'
        BY <2>1 DEF HistoryInv, Count, Wrap
    <2>3. ProducerInv'
        BY <2>1 DEF ProducerInv, Writing, NextIndex
    <2>4. ConsumerInv'
        <3>1. CASE TryPopReadSeq
            <4>1. c_msg'.seq = slot[c_head].seq
                BY <3>1 DEF TryPopReadSeq, TypeOK, Message
            <4> QED
                BY <2>1, <3>1, <4>1 DEF TryPopReadSeq, ConsumerInv, Reading
        <3>2. CASE TryPopReadLen
            <4>1. c_msg'.len = slot[c_head].len /\ c_msg'.seq = c_msg.seq
                BY <3>2 DEF TryPopReadLen, TypeOK, Message
            <4> QED
                BY <2>1, <3>2, <4>1 DEF TryPopReadLen, ConsumerInv, Reading
        <3>3. CASE TryPopCallback
            <4>1. /\ c_msg'.data = slot[c_head].data
                  /\ c_msg'.seq = c_msg.seq
                  /\ c_msg'.len = c_msg.len
                BY <3>3 DEF TryPopCallback, TypeOK, Message
            <4> QED
                BY <2>1, <3>3, <4>1 DEF TryPopCallback, ConsumerInv, Reading
        <3> QED
            BY <1>2, <3>1, <3>2, <3>3
    <2> QED
        BY <2>2, <2>3, <2>4
<1>3. CASE TryPopStoreHead
    <2>1. /\ UNCHANGED <<tail, slot, accepted, ppc, p_tail, p_next, p_msg, c_head, c_msg>>
          /\ cpc = "in_callback" /\ cpc' = "idle"
          /\ head' = NextIndex(c_head)
          /\ delivered' = Append(delivered, c_msg)
        BY <1>3 DEF TryPopStoreHead, producer
    <2>2. c_head = head /\ head # tail
        BY <2>1 DEF ConsumerInv, Reading
    <2>3. /\ Count \in Nat \ {0}
          /\ Count' = Count - 1
          /\ Wrap(head + 0) = head
          /\ \A i \in 1 .. Count' : Wrap(head' + (i - 1)) = Wrap(head + i)
          /\ NextIndex(tail) # head'
        BY <2>1, <2>2, HeadAdvances
    <2>4. c_msg = slot[head]
        <3>1. /\ c_msg.seq = slot[head].seq
              /\ c_msg.len = slot[head].len
              /\ c_msg.data = slot[head].data
            BY <2>1 DEF ConsumerInv
        <3>2. c_msg \in Message /\ slot[head] \in Message
            BY DEF TypeOK
        <3> QED
            BY <3>1, <3>2 DEF Message
    <2>5. HistoryInv'
        <3>1. accepted \in Seq(Message) /\ delivered \in Seq(Message)
            BY DEF TypeOK
        <3>2. Len(delivered') = Len(delivered) + 1
            BY <2>1, <3>1
        <3>3. Len(accepted') = Len(delivered') + Count'
            BY <2>1, <2>3, <3>1, <3>2 DEF HistoryInv
        <3>4. accepted[Len(delivered) + 1] = slot[head]
            <4>1. 1 \in 1 .. Count /\ 1 - 1 = 0
                BY <2>3
            <4> QED
                BY <2>3, <4>1 DEF HistoryInv
        <3>5. \A i \in 1 .. Len(delivered') : accepted'[i] = delivered'[i]
            BY <2>1, <2>4, <3>1, <3>2, <3>4 DEF HistoryInv
        <3>6. ASSUME NEW i \in 1 .. Count'
              PROVE  accepted'[Len(delivered') + i] = slot'[Wrap(head' + (i - 1))]
            <4>1. i + 1 \in 1 .. Count /\ (i + 1) - 1 = i
                BY <2>3
            <4>2. accepted[Len(delivered) + (i + 1)] = slot[Wrap(head + i)]
                BY <4>1 DEF HistoryInv
            <4>3. Len(delivered') + i = Len(delivered) + (i + 1)
                BY <2>3, <3>1, <3>2
            <4> QED
                BY <2>1, <2>3, <4>2, <4>3
        <3> QED
            BY <3>3, <3>5, <3>6 DEF HistoryInv
    <2>6. ConsumerInv'
        BY <2>1 DEF ConsumerInv, Reading
    <2>7. ProducerInv'
        BY <2>1, <2>3 DEF ProducerInv, Writing, NextIndex
    <2> QED
        BY <2>5, <2>6, <2>7
<1> QED
    BY <1>1, <1>2, <1>3 DEF ConsumerStep

\* The inductive invariant is inductive.
LEMMA IInvNext == IInv /\ [Next]_vars => IInv'
<1> SUFFICES ASSUME IInv, [Next]_vars
             PROVE  IInv'
    OBVIOUS
<1>1. TypeOK'
    BY TypeNext DEF IInv
<1>2. CASE RequestStop \/ UNCHANGED vars
    <2>1. UNCHANGED <<producer, consumer>>
        BY <1>2 DEF RequestStop, vars, producer, consumer
    <2>2. ProducerInv' /\ ConsumerInv'
        BY <2>1 DEF IInv, ProducerInv, ConsumerInv, Writing, Reading, NextIndex,
                    producer, consumer
    <2>3. HistoryInv'
        BY <2>1 DEF IInv, HistoryInv, Count, Wrap, producer, consumer
    <2> QED
        BY <1>1, <2>2, <2>3 DEF IInv
<1> QED
    BY <1>1, <1>2, ProducerKeepsIInv, ConsumerKeepsIInv DEF Next

\* The inductive invariant holds in every reachable state.
LEMMA IInvAlways == Spec => []IInv
BY IInvInit, IInvNext, PTL DEF Spec

-----------------------------------------------------------------------------
\* No slot is written while it is read, for every capacity.
THEOREM NoSlotRace == Spec => []SlotExclusive
<1>1. IInv => SlotExclusive
    BY DEF IInv, ProducerInv, ConsumerInv, SlotExclusive, Writing, Reading
<1> QED
    BY <1>1, IInvAlways, PTL

\* The payload handed to a zero-copy callback does not change under it.
THEOREM ZeroCopyIsStable == Spec => []CallbackSeesStablePayload
<1>1. ASSUME IInv, cpc = "in_callback"
      PROVE  c_msg = slot[c_head]
    <2>1. /\ c_head = head
          /\ c_msg.seq = slot[head].seq
          /\ c_msg.len = slot[head].len
          /\ c_msg.data = slot[head].data
        BY <1>1 DEF IInv, ConsumerInv
    <2>2. c_msg \in Message /\ slot[head] \in Message
        BY <1>1 DEF IInv, TypeOK
    <2> QED
        BY <2>1, <2>2 DEF Message
<1>2. IInv => CallbackSeesStablePayload
    BY <1>1 DEF CallbackSeesStablePayload
<1> QED
    BY <1>2, IInvAlways, PTL

\* Accepted messages are delivered in order, whole and once, for every
\* capacity and any number of messages.
THEOREM DeliveryIsFifo == Spec => []FifoExactlyOnce
<1>1. ASSUME IInv
      PROVE  FifoExactlyOnce
    <2>1. /\ accepted \in Seq(Message) /\ delivered \in Seq(Message)
          /\ head \in Index /\ tail \in Index
          /\ slot \in [Index -> Message]
        BY <1>1 DEF IInv, TypeOK
    <2>2. Count \in Nat /\ \A i \in 1 .. Count : Wrap(head + (i - 1)) \in Index
        BY <2>1, InFlightSlots, CapacityAssumption
    <2>3. InFlight \in Seq(Message) /\ Len(InFlight) = Count
        BY <2>1, <2>2 DEF InFlight
    <2>4. /\ delivered \o InFlight \in Seq(Message)
          /\ Len(delivered \o InFlight) = Len(delivered) + Count
          /\ \A i \in 1 .. Len(delivered) + Count :
                (delivered \o InFlight)[i] =
                    IF i <= Len(delivered) THEN delivered[i]
                    ELSE InFlight[i - Len(delivered)]
        BY <2>1, <2>3, ConcatProperties
    <2>5. ASSUME NEW i \in 1 .. Len(accepted)
          PROVE  accepted[i] = (delivered \o InFlight)[i]
        <3>0. i \in 1 .. Len(delivered) + Count /\ Len(delivered) \in Nat
            BY <1>1, <2>1, <2>2 DEF IInv, HistoryInv
        <3>1. CASE i <= Len(delivered)
            BY <1>1, <2>4, <3>0, <3>1 DEF IInv, HistoryInv
        <3>2. CASE ~(i <= Len(delivered))
            <4>1. /\ i - Len(delivered) \in 1 .. Count
                  /\ Len(delivered) + (i - Len(delivered)) = i
                BY <2>2, <3>0, <3>2
            <4>2. InFlight[i - Len(delivered)]
                    = slot[Wrap(head + ((i - Len(delivered)) - 1))]
                BY <4>1 DEF InFlight
            <4>3. accepted[i] = slot[Wrap(head + ((i - Len(delivered)) - 1))]
                BY <1>1, <4>1 DEF IInv, HistoryInv
            <4> QED
                BY <2>4, <3>0, <3>2, <4>2, <4>3
        <3> QED
            BY <3>1, <3>2, Zenon
    <2> QED
        BY <1>1, <2>1, <2>4, <2>5, SeqEqual DEF IInv, HistoryInv, FifoExactlyOnce
<1> QED
    BY <1>1, IInvAlways, PTL

-----------------------------------------------------------------------------
(***************************************************************************)
(* Refinement of the bounded queue: only the two index stores are visible, *)
(* as a Push and as a Pop; every other step leaves the queue as it was.    *)
(***************************************************************************)
LEMMA InFlightIsSeq ==
    ASSUME TypeOK
    PROVE  /\ Count \in Nat
           /\ InFlight \in Seq(Message)
           /\ Len(InFlight) = Count
           /\ \A i \in 1 .. Count : InFlight[i] = slot[Wrap(head + (i - 1))]
<1>1. head \in Index /\ tail \in Index /\ slot \in [Index -> Message]
    BY DEF TypeOK
<1>2. Count \in Nat /\ \A i \in 1 .. Count : Wrap(head + (i - 1)) \in Index
    BY <1>1, InFlightSlots, CapacityAssumption
<1> QED
    BY <1>1, <1>2 DEF InFlight

\* The empty ring is the empty queue.
LEMMA InitRefines == Init => Queue!Init
<1> SUFFICES ASSUME Init PROVE InFlight = <<>> /\ delivered = <<>>
    BY DEF Queue!Init
<1>1. TypeOK /\ Count = 0
    BY TypeInit, CapacityAssumption DEF Init, Count, CountOf
<1>2. InFlight \in Seq(Message) /\ Len(InFlight) = 0
    BY <1>1, InFlightIsSeq
<1> QED
    BY <1>2, EmptySeq DEF Init

\* The store of tail is a Push.
LEMMA StoreTailIsPush ==
    ASSUME IInv, IInv', TryPushStoreTail
    PROVE  Queue!Push(p_msg)
<1>1. /\ UNCHANGED <<head, slot, delivered>>
      /\ ppc = "store_tail"
      /\ tail' = p_next
    BY DEF TryPushStoreTail, consumer
<1>2. tail' = NextIndex(tail) /\ NextIndex(tail) # head /\ p_msg \in Message
    BY <1>1 DEF IInv, TypeOK, ProducerInv, Writing
<1>3. /\ Count' = Count + 1
      /\ Count \in Nat
      /\ Wrap(head + Count) = tail
    BY <1>1, <1>2, TailAdvances DEF IInv
<1>4. Len(InFlight) < Capacity - 1
    <2>1. head' \in Index /\ tail' \in Index
        BY DEF IInv, TypeOK
    <2>2. Count' < Capacity
        BY <2>1, SlotsBetween, CapacityAssumption DEF Count
    <2>3. Len(InFlight) = Count
        BY InFlightIsSeq DEF IInv
    <2> QED
        BY <1>3, <2>2, <2>3, CapacityAssumption
<1>5. p_msg = slot[tail]
    <2>1. /\ slot[tail].seq = p_msg.seq
          /\ slot[tail].len = p_msg.len
          /\ slot[tail].data = p_msg.data
        BY <1>1 DEF IInv, ProducerInv
    <2>2. slot[tail] \in Message
        BY DEF IInv, TypeOK
    <2> QED
        BY <1>2, <2>1, <2>2 DEF Message
<1>6. InFlight' = Append(InFlight, p_msg)
    <2> DEFINE S == InFlight'
               T == Append(InFlight, p_msg)
    <2>1. /\ Count' \in Nat
          /\ S \in Seq(Message)
          /\ Len(S) = Count'
          /\ \A i \in 1 .. Count' : S[i] = slot[Wrap(head + (i - 1))]
        <3>1. head' \in Index /\ tail' \in Index /\ slot' \in [Index -> Message]
            BY DEF IInv, TypeOK
        <3>2. /\ Count' \in Nat
              /\ \A i \in 1 .. Count' : Wrap(head + (i - 1)) \in Index
            BY <1>1, <3>1, SlotsBetween, CapacityAssumption DEF Count
        <3>3. S = [i \in 1 .. Count' |-> slot[Wrap(head + (i - 1))]]
            BY <1>1 DEF InFlight, Wrap
        <3> QED
            BY <1>1, <3>1, <3>2, <3>3
    <2>2. /\ InFlight \in Seq(Message)
          /\ Len(InFlight) = Count
          /\ \A i \in 1 .. Count : InFlight[i] = slot[Wrap(head + (i - 1))]
        BY InFlightIsSeq DEF IInv
    <2>3. /\ T \in Seq(Message)
          /\ Len(T) = Count + 1
          /\ \A i \in 1 .. Count : T[i] = InFlight[i]
          /\ T[Count + 1] = p_msg
        BY <1>2, <1>3, <2>2, AppendProperties
    <2>4. ASSUME NEW i \in 1 .. Len(S)
          PROVE  S[i] = T[i]
        <3>0. i \in 1 .. Count' /\ S[i] = slot[Wrap(head + (i - 1))]
            BY <2>1
        <3>1. CASE i \in 1 .. Count
            BY <2>2, <2>3, <3>0, <3>1
        <3>2. CASE i = Count + 1
            <4>1. head + (i - 1) = head + Count
                BY <1>3, <3>2 DEF IInv, TypeOK, Index
            <4> QED
                BY <1>3, <1>5, <2>3, <3>0, <3>2, <4>1
        <3>3. i \in 1 .. Count \/ i = Count + 1
            BY <1>3, <3>0
        <3> QED
            BY <3>1, <3>2, <3>3
    <2>5. Len(S) = Len(T)
        BY <1>3, <2>1, <2>3
    <2> HIDE DEF S, T
    <2>6. S = T
        BY <2>1, <2>3, <2>4, <2>5, SeqEqual
    <2> QED
        BY <2>6 DEF S, T
<1> QED
    BY <1>1, <1>4, <1>6 DEF Queue!Push

\* The store of head is a Pop.
LEMMA StoreHeadIsPop ==
    ASSUME IInv, IInv', TryPopStoreHead
    PROVE  Queue!Pop
<1>1. /\ UNCHANGED <<tail, slot>>
      /\ cpc = "in_callback"
      /\ head' = NextIndex(c_head)
      /\ delivered' = Append(delivered, c_msg)
    BY DEF TryPopStoreHead, producer
<1>2. c_head = head /\ head # tail
    BY <1>1 DEF IInv, ConsumerInv, Reading
<1>3. /\ Count \in Nat \ {0}
      /\ Count' = Count - 1
      /\ Wrap(head + 0) = head
      /\ \A i \in 1 .. Count' : Wrap(head' + (i - 1)) = Wrap(head + i)
    BY <1>1, <1>2, HeadAdvances DEF IInv
<1>4. c_msg = slot[head]
    <2>1. /\ c_msg.seq = slot[head].seq
          /\ c_msg.len = slot[head].len
          /\ c_msg.data = slot[head].data
        BY <1>1 DEF IInv, ConsumerInv
    <2>2. c_msg \in Message /\ slot[head] \in Message
        BY DEF IInv, TypeOK
    <2> QED
        BY <2>1, <2>2 DEF Message
<1>5. /\ InFlight \in Seq(Message)
      /\ Len(InFlight) = Count
      /\ \A i \in 1 .. Count : InFlight[i] = slot[Wrap(head + (i - 1))]
    BY InFlightIsSeq DEF IInv
<1>6. InFlight # <<>> /\ InFlight[1] = slot[head]
    <2>1. 1 \in 1 .. Count /\ 1 - 1 = 0
        BY <1>3
    <2>2. InFlight[1] = slot[head]
        BY <1>3, <1>5, <2>1
    <2>3. Len(InFlight) # 0
        BY <1>3, <1>5
    <2> QED
        BY <2>2, <2>3, EmptySeq
<1>7. Head(InFlight) = c_msg
    BY <1>4, <1>5, <1>6
<1>8. InFlight' = Tail(InFlight)
    <2> DEFINE S == InFlight'
               T == Tail(InFlight)
    <2>1. /\ Count' \in Nat
          /\ S \in Seq(Message)
          /\ Len(S) = Count'
          /\ \A i \in 1 .. Count' : S[i] = slot[Wrap(head' + (i - 1))]
        <3>1. head' \in Index /\ tail' \in Index /\ slot' \in [Index -> Message]
            BY DEF IInv, TypeOK
        <3>2. /\ Count' \in Nat
              /\ \A i \in 1 .. Count' : Wrap(head' + (i - 1)) \in Index
            BY <3>1, SlotsBetween, CapacityAssumption DEF Count
        <3>3. S = [i \in 1 .. Count' |-> slot[Wrap(head' + (i - 1))]]
            BY <1>1 DEF InFlight, Wrap
        <3> QED
            BY <1>1, <3>1, <3>2, <3>3
    <2>2. /\ T \in Seq(Message)
          /\ Len(T) = Count - 1
          /\ \A i \in 1 .. Count - 1 : T[i] = InFlight[i + 1]
        BY <1>5, <1>6, HeadTailProperties
    <2>3. ASSUME NEW i \in 1 .. Len(S)
          PROVE  S[i] = T[i]
        <3>1. /\ i \in 1 .. Count'
              /\ i \in 1 .. Count - 1
              /\ i + 1 \in 1 .. Count
              /\ (i + 1) - 1 = i
            BY <1>3, <2>1
        <3>2. S[i] = slot[Wrap(head + i)]
            <4>1. S[i] = slot[Wrap(head' + (i - 1))]
                BY <2>1, <3>1
            <4>2. Wrap(head' + (i - 1)) = Wrap(head + i)
                BY <1>3, <3>1
            <4> QED
                BY <4>1, <4>2
        <3>3. InFlight[i + 1] = slot[Wrap(head + i)]
            BY <1>5, <3>1
        <3> QED
            BY <2>2, <3>1, <3>2, <3>3
    <2>4. Len(S) = Len(T)
        BY <1>3, <2>1, <2>2
    <2> HIDE DEF S, T
    <2>5. S = T
        BY <2>1, <2>2, <2>3, <2>4, SeqEqual
    <2> QED
        BY <2>5 DEF S, T
<1> QED
    BY <1>1, <1>6, <1>7, <1>8 DEF Queue!Pop

\* Writing a free slot is invisible.
LEMMA WriteIsInvisible ==
    ASSUME IInv, TryPushWriteSeq \/ TryPushWriteLen \/ TryPushWriteData
    PROVE  UNCHANGED <<InFlight, delivered>>
<1>1. UNCHANGED <<head, tail, delivered>> /\ Writing
    BY DEF TryPushWriteSeq, TryPushWriteLen, TryPushWriteData, consumer, Writing
<1>2. p_tail = tail /\ tail \in Index /\ head \in Index
    BY <1>1 DEF IInv, ProducerInv, Writing, TypeOK
<1>3. \A j \in Index : j # tail => slot'[j] = slot[j]
    BY <1>2 DEF TryPushWriteSeq, TryPushWriteLen, TryPushWriteData, IInv, TypeOK
<1>4. Count' = Count
    BY <1>1 DEF Count
<1>5. \A i \in 1 .. Count : slot'[Wrap(head + (i - 1))] = slot[Wrap(head + (i - 1))]
    BY <1>2, <1>3, InFlightSlots
<1>6. InFlight' = [i \in 1 .. Count |-> slot'[Wrap(head + (i - 1))]]
    BY <1>1, <1>4 DEF InFlight, Wrap
<1> QED
    BY <1>1, <1>5, <1>6 DEF InFlight

\* Every step of the ring is a step of the queue or leaves it as it was.
LEMMA NextRefines ==
    IInv /\ IInv' /\ [Next]_vars => [Queue!Next]_Queue!vars
<1> SUFFICES ASSUME IInv, IInv', [Next]_vars
             PROVE  Queue!Next \/ UNCHANGED <<InFlight, delivered>>
    BY DEF Queue!vars
<1>1. CASE TryPushStoreTail
    <2>1. p_msg \in Message
        BY DEF IInv, TypeOK
    <2> QED
        BY <1>1, <2>1, StoreTailIsPush DEF Queue!Next
<1>2. CASE TryPopStoreHead
    BY <1>2, StoreHeadIsPop DEF Queue!Next
<1>3. CASE TryPushWriteSeq \/ TryPushWriteLen \/ TryPushWriteData
    BY <1>3, WriteIsInvisible
<1>4. ASSUME UNCHANGED <<head, tail, slot, delivered>>
      PROVE  UNCHANGED <<InFlight, delivered>>
    BY <1>4 DEF InFlight, Count, Wrap
<1>5. ASSUME NEW d \in Payloads, PublishLocalIpc(d)
      PROVE  UNCHANGED <<head, tail, slot, delivered>>
    BY <1>5 DEF PublishLocalIpc, consumer
<1>6. CASE TryPushLoadHead
    BY <1>4, <1>6 DEF TryPushLoadHead, consumer
<1>7. CASE \/ PollNext \/ TryPopLoadTail \/ TryPopReadSeq \/ TryPopReadLen
           \/ TryPopCallback
    BY <1>4, <1>7 DEF PollNext, TryPopLoadTail, TryPopReadSeq, TryPopReadLen,
                      TryPopCallback, producer
<1>8. CASE RequestStop \/ UNCHANGED vars
    BY <1>4, <1>8 DEF RequestStop, vars, producer, consumer
<1> QED
    BY <1>1, <1>2, <1>3, <1>4, <1>5, <1>6, <1>7, <1>8
       DEF Next, ProducerStep, ConsumerStep

\* The lock-free ring is a bounded FIFO queue of capacity - 1 messages.
THEOREM RingImplementsQueue == Spec => ImplementsQueue
BY InitRefines, NextRefines, IInvAlways, PTL
   DEF Spec, ImplementsQueue, Queue!Spec

=============================================================================
