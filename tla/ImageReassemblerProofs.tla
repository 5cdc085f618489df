----------------------- MODULE ImageReassemblerProofs -----------------------
(***************************************************************************)
(* Proofs about ImageReassembler, for every chunk size, every limit on the *)
(* number of chunks, every set of image lengths, every number of images    *)
(* and addresses, and a network that loses, duplicates (by way of several  *)
(* addresses) and reorders chunks within MaxSkip.                          *)
(*                                                                         *)
(* Frame ids identify an image as long as one node publishes on the topic, *)
(* so the slots of a buffer hold bytes of one image only (ReassemblyInv);  *)
(* as many filled slots as the image has chunks are then all of them.      *)
(*                                                                         *)
(* At the end the same question for the frame around a payload: what the   *)
(* send buffer of SendBuffer holds while no two threads use it.            *)
(***************************************************************************)
EXTENDS ImageReassembler, SendBuffer, TLAPS, SequenceTheorems, FiniteSetTheorems

\* Images that publish_image() does not refuse.
Images == [publisher : Publisher, frame : Nat,
           len : {l \in Lengths : accepts(l)}]

\* The chunks of the images published.
Sendable ==
  {Chunk(x[1], x[2]) :
     x \in {y \in published \X (1 .. MaxChunks) :
              y[2] <= chunk_count(y[1].len)}}

\* A node gives every image a frame id it has not used before.
PublishedInv ==
  /\ nextFrameId \in [Publisher -> Nat]
  /\ published \subseteq Images
  /\ \A img \in published : img.frame < nextFrameId[img.publisher]
  /\ \A i, j \in published :
       i.publisher = j.publisher /\ i.frame = j.frame => i = j

\* Nothing but chunks of published images is under way.
ChannelInv == channel \in [Publisher \X Address -> Seq(Sendable)]

\* The buffer holds chunks of img, each in its slot.
Assembling(img) ==
  LET n == chunk_count(img.len)
  IN /\ current = img.frame /\ stamp = Stamp(img)
     /\ received \in [1 .. n -> {Empty} \cup {Data(img, i) : i \in 1 .. n}]
     /\ \A i \in 1 .. n : received[i] \in {Empty, Data(img, i)}
     /\ received[n] # Empty => lastBytes = chunk_bytes(img.len, n)

\* Whatever is in progress is one published image.
ReassemblyInv == inProgress => \E img \in published : Assembling(img)

\* What was delivered so far are whole published images.
Wholes == {Whole(img) : img \in published}
DeliveredInv == delivered \in Seq(Wholes)

-----------------------------------------------------------------------------
(* Cutting an image into chunks. *)

\* As many chunks as hold l bytes, rounded up.
Needed(l) == (l + kChunkDataBytes - 1) \div kChunkDataBytes

LEMMA RoundedUp ==
    ASSUME NEW l \in Nat, accepts(l)
    PROVE  /\ Needed(l) \in 0 .. MaxChunks
           /\ l <= Needed(l) * kChunkDataBytes
           /\ Needed(l) = 0 <=> l = 0
           /\ Needed(l) # 0 => (Needed(l) - 1) * kChunkDataBytes < l
<1> DEFINE k == kChunkDataBytes
           m == MaxChunks
           n == Needed(l)
<1>a. n = (l + k - 1) \div k /\ l <= m * k
    BY DEF Needed, accepts, kMaxImageBytes
<1>0. k \in Nat /\ k > 0 /\ m \in Nat
    BY ImageAssumption
<1> HIDE DEF k, m, n
<1>1. /\ n \in Nat /\ n * k <= l + k - 1 /\ l + k - 1 < n * k + k
    BY <1>0, <1>a, SMT
<1>2. n <= m
    <2>1. SUFFICES ASSUME n >= m + 1 PROVE FALSE
        BY <1>0, <1>1
    <2>2. (m + 1) * k = m * k + k /\ (m + 1) * k <= n * k
        BY <1>0, <1>1, <2>1, SMT
    <2>3. m * k \in Nat /\ n * k \in Nat
        BY <1>0, <1>1, SMT
    <2> QED
        BY <1>0, <1>1, <1>a, <2>2, <2>3
<1>3. n * k \in Nat
    BY <1>0, <1>1, SMT
<1>4. l <= n * k
    BY <1>0, <1>1, <1>3
<1>5. n = 0 => l = 0
    BY <1>0, <1>4, SMT
<1>6. n # 0 => (n - 1) * k = n * k - k
    BY <1>0, <1>1, SMT
<1>7. n # 0 => (n - 1) * k < l /\ l # 0
    <2>1. n # 0 => n * k >= k
        BY <1>0, <1>1, SMT
    <2> QED
        BY <1>0, <1>1, <1>3, <1>6, <2>1
<1> QED
    BY <1>0, <1>1, <1>2, <1>4, <1>5, <1>7 DEF k, m, n

\* An image that is accepted has at least one chunk and no more than a
\* uint16_t counts; full chunks and the last one are all its bytes.
LEMMA ChunksAreTheImage ==
    ASSUME NEW l \in Nat, accepts(l)
    PROVE  /\ chunk_count(l) \in 1 .. MaxChunks
           /\ (chunk_count(l) - 1) * kChunkDataBytes
                + chunk_bytes(l, chunk_count(l)) = l
<1> DEFINE k == kChunkDataBytes
           n == Needed(l)
           c == chunk_count(l)
<1>0. k \in Nat /\ k > 0 /\ MaxChunks \in Nat /\ MaxChunks > 0
    BY ImageAssumption
<1>1. /\ n \in 0 .. MaxChunks /\ l <= n * k /\ (n = 0 <=> l = 0)
      /\ n # 0 => (n - 1) * k < l
    BY RoundedUp
<1>2. c = IF n % (MaxChunks + 1) = 0 THEN 1 ELSE n % (MaxChunks + 1)
    BY DEF chunk_count, Needed
<1>3. chunk_bytes(l, c) = IF l - (c - 1) * k < k THEN l - (c - 1) * k ELSE k
    BY DEF chunk_bytes
<1> HIDE DEF k, n, c
<1>4. n % (MaxChunks + 1) = n
    BY <1>0, <1>1, SMT
<1>5. c = IF n = 0 THEN 1 ELSE n
    BY <1>2, <1>4
<1>6. c \in 1 .. MaxChunks
    BY <1>0, <1>1, <1>5
<1>7. (c - 1) * k + chunk_bytes(l, c) = l
    <2>1. CASE n = 0
        <3>1. (c - 1) * k = 0
            BY <1>0, <1>5, <2>1, SMT
        <3> QED
            BY <1>0, <1>1, <1>3, <2>1, <3>1
    <2>2. CASE n # 0
        <3>1. c = n /\ n \in Nat /\ n > 0
            BY <1>0, <1>1, <1>5, <2>2
        <3>2. (n - 1) * k \in Nat /\ n * k = (n - 1) * k + k
            BY <1>0, <3>1, SMT
        <3>3. l - (n - 1) * k <= k
            BY <1>0, <1>1, <3>2
        <3>4. chunk_bytes(l, c) = l - (n - 1) * k
            BY <1>0, <1>3, <3>1, <3>2, <3>3
        <3> QED
            BY <3>1, <3>2, <3>4
    <2> QED
        BY <2>1, <2>2
<1> QED
    BY <1>6, <1>7 DEF k, c

\* The bytes of a chunk are no empty slot, and tell its image and place.
LEMMA DataIsThere ==
    ASSUME NEW img, NEW i
    PROVE  Data(img, i) # Empty
<1>1. "index" \in DOMAIN Data(img, i)
    BY DEF Data
<1>2. "index" \notin DOMAIN Empty
    BY DEF Empty
<1> QED
    BY <1>1, <1>2

\* What is under way is a chunk of a published image.
LEMMA SendableChunk ==
    ASSUME PublishedInv, NEW ch \in Sendable
    PROVE  \E img \in published : \E i \in 1 .. chunk_count(img.len) :
             /\ ch = Chunk(img, i)
             /\ img \in Images /\ chunk_count(img.len) \in 1 .. MaxChunks
<1>1. PICK img \in published, i \in 1 .. MaxChunks :
          i <= chunk_count(img.len) /\ ch = Chunk(img, i)
    BY DEF Sendable
<1>2. img \in Images /\ img.len \in Nat /\ accepts(img.len)
    BY ImageAssumption DEF PublishedInv, Images
<1>3. chunk_count(img.len) \in 1 .. MaxChunks
    BY <1>2, ChunksAreTheImage
<1>4. i \in 1 .. chunk_count(img.len)
    BY <1>1, <1>3
<1> QED
    BY <1>1, <1>2, <1>3, <1>4

\* Taking an element out of a sequence.
LEMMA RemoveAtSeq ==
    ASSUME NEW S, NEW s \in Seq(S), NEW k \in 1 .. Len(s)
    PROVE  RemoveAt(s, k) \in Seq(S) /\ s[k] \in S
<1>1. Len(s) \in Nat /\ \A i \in 1 .. Len(s) : s[i] \in S
    BY LenProperties, ElementOfSeq
<1>2. SubSeq(s, 1, k - 1) \in Seq(S)
    <2>1. \A i \in 1 .. k - 1 : s[i] \in S
        BY <1>1
    <2>2. 1 \in Int /\ k - 1 \in Int
        BY <1>1
    <2> QED
        BY <2>1, <2>2, SubSeqProperties
<1>3. SubSeq(s, k + 1, Len(s)) \in Seq(S)
    <2>1. \A i \in k + 1 .. Len(s) : s[i] \in S
        BY <1>1
    <2>2. k + 1 \in Int /\ Len(s) \in Int
        BY <1>1
    <2> QED
        BY <2>1, <2>2, SubSeqProperties
<1> QED
    BY <1>1, <1>2, <1>3, ConcatProperties DEF RemoveAt

-----------------------------------------------------------------------------
(* The publishers and the network. *)

LEMMA PublishedInit == Init => PublishedInv /\ ChannelInv
<1> SUFFICES ASSUME Init PROVE PublishedInv /\ ChannelInv
    OBVIOUS
<1>1. PublishedInv
    BY DEF Init, PublishedInv
<1>2. << >> \in Seq(Sendable)
    BY EmptySeq
<1>3. ChannelInv
    BY <1>2 DEF Init, ChannelInv
<1> QED
    BY <1>1, <1>3

\* More images published, more chunks that may be under way.
LEMMA SendableGrows ==
    ASSUME compressed' = compressed, published \subseteq published'
    PROVE  Sendable \subseteq Sendable'
<1>1. \A img, i : Chunk(img, i)' = Chunk(img, i)
    BY DEF Chunk, Stamp
<1> QED
    BY <1>1 DEF Sendable

\* Publishing gives the next frame id away.
LEMMA PublishFrame ==
    ASSUME PublishedInv, NEW p \in Publisher, NEW len \in Lengths,
           Publish(p, len)
    PROVE  /\ PublishedInv'
           /\ Image(p, nextFrameId[p], len) \in Images
           /\ published' = published \cup {Image(p, nextFrameId[p], len)}
<1> DEFINE new == Image(p, nextFrameId[p], len)
<1>1. /\ new.publisher = p /\ new.frame = nextFrameId[p] /\ new.len = len
      /\ new \in Images
    BY DEF Image, Images, PublishedInv, Publish
<1>2. /\ published' = published \cup {new}
      /\ nextFrameId' = [nextFrameId EXCEPT ![p] = @ + 1]
    BY DEF Publish
<1> HIDE DEF new
<1>3. nextFrameId' \in [Publisher -> Nat]
    BY <1>2 DEF PublishedInv
<1>4. \A img \in published : img.publisher \in Publisher /\ img.frame \in Nat
    BY DEF PublishedInv, Images
<1>5. \A img \in published' : img.frame < nextFrameId'[img.publisher]
    BY <1>1, <1>2, <1>4 DEF PublishedInv
<1>6. \A i \in published' : \A j \in published' :
          i.publisher = j.publisher /\ i.frame = j.frame => i = j
    <2>1. \A i \in published : ~(i.publisher = new.publisher /\ i.frame = new.frame)
        BY <1>1, <1>4 DEF PublishedInv
    <2> QED
        BY <1>2, <2>1 DEF PublishedInv
<1>7. published' \subseteq Images
    BY <1>1, <1>2 DEF PublishedInv
<1>8. PublishedInv'
    BY <1>3, <1>5, <1>6, <1>7 DEF PublishedInv, Images, accepts
<1> QED
    BY <1>1, <1>2, <1>8 DEF new

\* All chunks of the image join every channel of the publisher, in order.
LEMMA PublishChannel ==
    ASSUME PublishedInv, ChannelInv, NEW p \in Publisher, NEW len \in Lengths,
           Publish(p, len)
    PROVE  ChannelInv'
<1>0. PICK new : new = Image(p, nextFrameId[p], len)
    OBVIOUS
<1>1. /\ new \in Images /\ published' = published \cup {new}
      /\ compressed' = compressed
    BY <1>0, PublishFrame DEF Publish
<1>2. chunk_count(new.len) \in 1 .. MaxChunks
    <2>1. new.len \in Nat /\ accepts(new.len)
        BY <1>1, ImageAssumption DEF Images
    <2> QED
        BY <2>1, ChunksAreTheImage
<1>3. channel' = [c \in DOMAIN channel |-> IF c[1] = p
                                              THEN channel[c] \o Chunks(new)
                                              ELSE channel[c]]
    BY <1>0 DEF Publish, Send
<1>4. \A i \in 1 .. chunk_count(new.len) : Chunk(new, i) \in Sendable'
    <2>1. ASSUME NEW i \in 1 .. chunk_count(new.len)
          PROVE  Chunk(new, i) \in Sendable'
        <3>1. i \in 1 .. MaxChunks /\ i <= chunk_count(new.len)
            BY <1>2, ImageAssumption
        <3>2. Chunk(new, i)' = Chunk(new, i)
            BY <1>1 DEF Chunk, Stamp
        <3> DEFINE x == <<new, i>>
        <3>3. x \in published' \X (1 .. MaxChunks) /\ x[1] = new /\ x[2] = i
            BY <1>1, <3>1
        <3>4. Chunk(x[1], x[2])' = Chunk(new, i)
            BY <3>2, <3>3
        <3> QED
            BY <3>1, <3>3, <3>4 DEF Sendable
    <2> QED
        BY <2>1
<1>5. Chunks(new) \in Seq(Sendable')
    <2>1. Chunks(new) \in [1 .. chunk_count(new.len) -> Sendable']
        BY <1>4 DEF Chunks
    <2>2. chunk_count(new.len) \in Nat
        BY <1>2, ImageAssumption
    <2> QED
        BY <2>1, <2>2, SeqDef
<1>6. Sendable \subseteq Sendable'
    BY <1>1, SendableGrows
<1>7. ASSUME NEW c \in Publisher \X Address
      PROVE  channel'[c] \in Seq(Sendable')
    <2>1. channel[c] \in Seq(Sendable')
        BY <1>6, SeqMonotonic DEF ChannelInv
    <2>2. channel[c] \o Chunks(new) \in Seq(Sendable')
        BY <1>5, <2>1, ConcatProperties
    <2> QED
        BY <1>3, <2>1, <2>2 DEF ChannelInv
<1> QED
    BY <1>3, <1>7 DEF ChannelInv

-----------------------------------------------------------------------------
(* The subscriber. *)

\* The buffer a chunk of img is put into holds nothing but chunks of img.
LEMMA SlotsOfImage ==
    ASSUME \A p, q \in Publisher : p = q,
           PublishedInv, ReassemblyInv, NEW img \in published,
           NEW n, n = chunk_count(img.len), n \in 1 .. MaxChunks,
           NEW ch, ch.frame = img.frame, ch.count = n
    PROVE  /\ Slots(ch) \in [1 .. n -> {Empty} \cup {Data(img, j) : j \in 1 .. n}]
           /\ \A j \in 1 .. n : Slots(ch)[j] \in {Empty, Data(img, j)}
           /\ ~StartsNewFrame(ch) => stamp = Stamp(img)
           /\ Slots(ch)[n] # Empty => lastBytes = chunk_bytes(img.len, n)
<1>0. n \in 1 .. n
    BY ImageAssumption
<1>1. CASE StartsNewFrame(ch)
    <2>1. Slots(ch) = [j \in 1 .. n |-> Empty]
        BY <1>1 DEF Slots
    <2> QED
        BY <1>0, <1>1, <2>1
<1>2. CASE ~StartsNewFrame(ch)
    <2>1. inProgress /\ current = img.frame /\ Slots(ch) = received
        BY <1>2 DEF StartsNewFrame, Slots
    <2>2. PICK other \in published : Assembling(other)
        BY <2>1 DEF ReassemblyInv
    <2>3. other.frame = img.frame /\ other.publisher = img.publisher
        BY <2>1, <2>2 DEF Assembling, PublishedInv, Images
    <2>4. other = img
        BY <2>3 DEF PublishedInv
    <2> QED
        BY <2>1, <2>2, <2>4 DEF Assembling
<1> QED
    BY <1>1, <1>2

\* Of n slots, n are filled: all are, and they are the image in order.
LEMMA FullBuffer ==
    ASSUME NEW img, NEW n \in Nat, NEW b,
           b \in [1 .. n -> {Empty} \cup {Data(img, j) : j \in 1 .. n}],
           \A j \in 1 .. n : b[j] \in {Empty, Data(img, j)},
           Cardinality({j \in DOMAIN b : b[j] # Empty}) = n
    PROVE  /\ b = [j \in 1 .. n |-> Data(img, j)]
           /\ SubSeq(b, 1, n) = b
<1> DEFINE F == {j \in 1 .. n : b[j] # Empty}
           T == {Empty} \cup {Data(img, j) : j \in 1 .. n}
<1>1. IsFiniteSet(1 .. n) /\ Cardinality(1 .. n) = n
    BY FS_Interval
<1>2. F \in SUBSET (1 .. n) /\ Cardinality(F) = n
    OBVIOUS
<1> HIDE DEF F
<1>3. 1 .. n = F
    BY <1>1, <1>2, FS_Subset
<1>4. \A j \in 1 .. n : b[j] = Data(img, j)
    BY <1>3 DEF F
<1>5. b = [j \in 1 .. n |-> Data(img, j)]
    BY <1>4
<1>6. b \in Seq(T) /\ DOMAIN b = 1 .. n
    BY SeqDef
<1> HIDE DEF T
<1>7. Len(b) = n
    BY <1>6, LenProperties
<1>8. SubSeq(b, 1, n) = b
    BY <1>6, <1>7, SubSeqFull
<1> QED
    BY <1>5, <1>8

\* A chunk is put into its slot; when the last slot is filled, the callback
\* is given the image the buffer belongs to.
LEMMA ReassembleStep ==
    ASSUME \A p, q \in Publisher : p = q,
           PublishedInv, ReassemblyInv, DeliveredInv,
           UNCHANGED <<compressed, published>>,
           NEW ch \in Sendable, Reassemble(ch)
    PROVE  ReassemblyInv' /\ DeliveredInv'
<1>1. PICK img \in published : \E i \in 1 .. chunk_count(img.len) :
          /\ ch = Chunk(img, i)
          /\ img \in Images /\ chunk_count(img.len) \in 1 .. MaxChunks
    BY SendableChunk
<1>2. PICK i \in 1 .. chunk_count(img.len) :
          /\ ch = Chunk(img, i)
          /\ img \in Images /\ chunk_count(img.len) \in 1 .. MaxChunks
    BY <1>1
<1> DEFINE n == chunk_count(img.len)
           slots == Slots(ch)
           fresh == ch.index \in DOMAIN slots /\ slots[ch.index] = Empty
           new == IF fresh THEN [slots EXCEPT ![ch.index] = ch.data] ELSE slots
           last == IF fresh /\ ch.index = ch.count THEN ch.bytes ELSE lastBytes
           kept == IF StartsNewFrame(ch) THEN ch.stamp ELSE stamp
           done == fresh /\ Complete(ch, new)
           Slot == {Empty} \cup {Data(img, j) : j \in 1 .. n}
<1>3. /\ ch.frame = img.frame /\ ch.index = i /\ ch.count = n
      /\ ch.bytes = chunk_bytes(img.len, i) /\ ch.stamp = Stamp(img)
      /\ ch.data = Data(img, i)
    BY <1>2 DEF Chunk
<1>4. i \in 1 .. n /\ n \in 1 .. MaxChunks /\ n \in Nat /\ n \in 1 .. n
    BY <1>2, ImageAssumption
<1>5. /\ current' = ch.frame /\ received' = new /\ lastBytes' = last
      /\ stamp' = kept /\ inProgress' = ~done
      /\ delivered' =
           IF done THEN Append(delivered, [data |-> SubSeq(new, 1, ch.count),
                                           total |-> Total(ch, last),
                                           stamp |-> kept])
                   ELSE delivered
    BY DEF Reassemble
<1>6. /\ slots \in [1 .. n -> Slot]
      /\ \A j \in 1 .. n : slots[j] \in {Empty, Data(img, j)}
      /\ ~StartsNewFrame(ch) => stamp = Stamp(img)
      /\ slots[n] # Empty => lastBytes = chunk_bytes(img.len, n)
    BY <1>3, <1>4, SlotsOfImage
<1> HIDE DEF slots
<1>7. kept = Stamp(img)
    BY <1>3, <1>6
<1>8. /\ new \in [1 .. n -> Slot]
      /\ \A j \in 1 .. n : new[j] \in {Empty, Data(img, j)}
    BY <1>3, <1>4, <1>6
<1>9. new[n] # Empty => last = chunk_bytes(img.len, n)
    BY <1>3, <1>4, <1>6
<1> HIDE DEF new, last, kept, Slot
<1>10. CASE done
    <2>1. Cardinality({j \in DOMAIN new : new[j] # Empty}) = n
        BY <1>3, <1>10 DEF Complete
    <2>2. /\ new = [j \in 1 .. n |-> Data(img, j)]
          /\ SubSeq(new, 1, n) = new
        BY <1>4, <1>8, <2>1, FullBuffer DEF Slot
    <2>3. last = chunk_bytes(img.len, n)
        BY <1>4, <1>9, <2>2, DataIsThere
    <2>4. Total(ch, last) = img.len
        <3>1. img.len \in Nat /\ accepts(img.len)
            BY <1>2, ImageAssumption DEF Images
        <3> QED
            BY <1>3, <2>3, <3>1, ChunksAreTheImage DEF Total
    <2>5. [data |-> SubSeq(new, 1, ch.count), total |-> Total(ch, last),
           stamp |-> kept] = Whole(img)
        BY <1>3, <1>7, <2>2, <2>4 DEF Whole
    <2>6. delivered' = Append(delivered, Whole(img))
        BY <1>5, <1>10, <2>5
    <2>7. Whole(img) \in Wholes
        BY DEF Wholes
    <2>8. delivered' \in Seq(Wholes)
        BY <2>6, <2>7, AppendProperties DEF DeliveredInv
    <2>9. Wholes' = Wholes
        BY DEF Wholes, Whole, Stamp
    <2>10. ~inProgress'
        BY <1>5, <1>10
    <2> QED
        BY <2>8, <2>9, <2>10 DEF DeliveredInv, ReassemblyInv
<1>11. CASE ~done
    <2>1. Assembling(img)'
        BY <1>2, <1>3, <1>5, <1>7, <1>8, <1>9 DEF Assembling, Slot, Stamp
    <2>2. delivered' = delivered
        BY <1>5, <1>11
    <2>3. Wholes' = Wholes
        BY DEF Wholes, Whole, Stamp
    <2> QED
        BY <1>2, <2>1, <2>2, <2>3 DEF ReassemblyInv, DeliveredInv
<1> QED
    BY <1>10, <1>11

LEMMA ReassemblyInit == Init => ReassemblyInv /\ DeliveredInv
<1> SUFFICES ASSUME Init PROVE ReassemblyInv /\ DeliveredInv
    OBVIOUS
<1>1. << >> \in Seq(Wholes)
    BY EmptySeq
<1> QED
    BY <1>1 DEF Init, ReassemblyInv, DeliveredInv

-----------------------------------------------------------------------------
\* What has been published, is under way, is in the buffer and was delivered.
IInv == PublishedInv /\ ChannelInv /\ ReassemblyInv /\ DeliveredInv

\* Publishing and losing leave the subscriber alone.
LEMMA SubscriberKept ==
    ASSUME ReassemblyInv, DeliveredInv, compressed' = compressed,
           published \subseteq published', UNCHANGED rxVars
    PROVE  ReassemblyInv' /\ DeliveredInv'
<1>1. \A img : Assembling(img) => Assembling(img)'
    BY DEF Assembling, Stamp, rxVars
<1>2. Wholes \subseteq Wholes'
    <2>1. \A img : Whole(img)' = Whole(img)
        BY DEF Whole, Stamp
    <2> QED
        BY <2>1 DEF Wholes
<1>3. DeliveredInv'
    BY <1>2, SeqMonotonic DEF DeliveredInv, rxVars
<1>4. ReassemblyInv'
    BY <1>1 DEF ReassemblyInv, rxVars
<1> QED
    BY <1>3, <1>4

\* A chunk leaves its channel.
LEMMA ChannelShrinks ==
    ASSUME ChannelInv, UNCHANGED <<compressed, published>>,
           NEW c \in DOMAIN channel, NEW s \in Seq(Sendable),
           channel' = [channel EXCEPT ![c] = s]
    PROVE  ChannelInv'
<1>1. Sendable' = Sendable
    BY DEF Sendable, Chunk, Stamp
<1> QED
    BY <1>1 DEF ChannelInv

LEMMA INext ==
    ASSUME \A p, q \in Publisher : p = q
    PROVE  IInv /\ [Next]_vars => IInv'
<1> SUFFICES ASSUME IInv, [Next]_vars
             PROVE  IInv'
    OBVIOUS
<1> USE DEF IInv
<1>a. ASSUME UNCHANGED <<nextFrameId, published>> PROVE PublishedInv'
    BY <1>a DEF PublishedInv, Images, accepts
<1>1. ASSUME NEW p \in Publisher, NEW len \in Lengths, Publish(p, len)
      PROVE  IInv'
    <2>1. PublishedInv' /\ ChannelInv'
        BY <1>1, PublishFrame, PublishChannel
    <2>2. /\ UNCHANGED rxVars /\ compressed' = compressed
          /\ published \subseteq published'
        BY <1>1, PublishFrame DEF Publish
    <2> QED
        BY <2>1, <2>2, SubscriberKept
<1>2. ASSUME NEW c \in DOMAIN channel, NEW k \in 1 .. MaxSkip + 1,
             OnChunk(c, k)
      PROVE  IInv'
    <2>1. /\ UNCHANGED <<compressed, nextFrameId, published>>
          /\ channel' = [channel EXCEPT ![c] = RemoveAt(channel[c], k)]
          /\ Reassemble(channel[c][k]) /\ k \in 1 .. Len(channel[c])
        BY <1>2 DEF OnChunk
    <2>2. channel[c] \in Seq(Sendable)
        BY DEF ChannelInv
    <2>3. RemoveAt(channel[c], k) \in Seq(Sendable) /\ channel[c][k] \in Sendable
        BY <2>1, <2>2, RemoveAtSeq
    <2>4. ChannelInv'
        BY <2>1, <2>3, ChannelShrinks
    <2>5. ReassemblyInv' /\ DeliveredInv'
        BY <2>1, <2>3, ReassembleStep
    <2> QED
        BY <1>a, <2>1, <2>4, <2>5
<1>3. ASSUME NEW c \in DOMAIN channel, Lose(c)
      PROVE  IInv'
    <2>1. /\ UNCHANGED <<compressed, nextFrameId, published, rxVars>>
          /\ channel[c] # << >>
          /\ channel' = [channel EXCEPT ![c] = Tail(channel[c])]
        BY <1>3 DEF Lose
    <2>2. Tail(channel[c]) \in Seq(Sendable)
        BY <2>1, HeadTailProperties DEF ChannelInv
    <2>3. ChannelInv'
        BY <2>1, <2>2, ChannelShrinks
    <2> QED
        BY <1>a, <2>1, <2>3, SubscriberKept
<1>4. CASE UNCHANGED vars
    <2>1. UNCHANGED <<compressed, nextFrameId, published, channel, rxVars>>
        BY <1>4 DEF vars
    <2>2. Sendable' = Sendable
        BY <2>1 DEF Sendable, Chunk, Stamp
    <2> QED
        BY <1>a, <2>1, <2>2, SubscriberKept DEF ChannelInv
<1> QED
    BY <1>1, <1>2, <1>3, <1>4
       DEF Next, publish_image, publish_compressed_image, subscribe_image,
           subscribe_compressed_image

\* If no two nodes publish images on the topic, a callback is given the bytes
\* of one published image, all of them, in order and no more, and that image's
\* capture time and quality.
THEOREM DeliveredWholeHolds ==
    ASSUME \A p, q \in Publisher : p = q
    PROVE  Spec => []DeliveredWhole
<1>1. IInv => DeliveredWhole
    <2> SUFFICES ASSUME IInv, NEW k \in DOMAIN delivered
                 PROVE  \E img \in published : delivered[k] = Whole(img)
        BY DEF DeliveredWhole
    <2>1. delivered \in Seq(Wholes) /\ k \in 1 .. Len(delivered)
        BY LenProperties DEF IInv, DeliveredInv
    <2>2. delivered[k] \in Wholes
        BY <2>1, ElementOfSeq
    <2> QED
        BY <2>2 DEF Wholes
<1>2. Init => IInv
    BY PublishedInit, ReassemblyInit DEF IInv
<1>3. IInv /\ [Next]_vars => IInv'
    BY INext
<1> QED
    BY <1>1, <1>2, <1>3, PTL DEF Spec
-----------------------------------------------------------------------------
(* The send buffer. *)

\* A payload byte; a message that publish_raw() is called with.
PayloadByte == [from : Sender, seq : Nat, at : Nat]
Messages == [topic : {TopicOf[s] : s \in Sender}, seq : Nat, payload : Seq(PayloadByte)]

\* The frame of message m, cell by cell.
FrameCell(m, i) ==
    IF i = 0 THEN [topic |-> m.topic, seq |-> m.seq, len |-> Len(m.payload)]
    ELSE IF i = Len(m.payload) + 1 THEN Stop
    ELSE m.payload[i]

Frame(m) == [i \in 0 .. Len(m.payload) + 1 |-> FrameCell(m, i)]

\* The buffer holds these cells of the frame that s writes.
Written(s, cells) ==
    \A i \in cells : i \in DOMAIN send_buf /\ send_buf[i] = FrameCell(msg[s], i)

SendingInv ==
    /\ seq_counter \in Nat
    /\ pc \in [Sender -> {"idle", "header", "payload", "stop", "sendto"}]
    /\ DOMAIN msg = Sender
    /\ sent \subseteq Messages
    /\ \A s \in Sender : pc[s] # "idle" => msg[s] \in sent
    /\ \A s \in Sender :
          /\ pc[s] = "payload" => Written(s, {0})
          /\ pc[s] = "stop" => Written(s, 0 .. Len(msg[s].payload))
          /\ pc[s] = "sendto" => Written(s, 0 .. Len(msg[s].payload) + 1)

\* Nothing but frames of messages that were sent gets to the receiver.
FramesInv ==
    /\ socket \subseteq {Frame(m) : m \in sent}
    /\ dispatched \subseteq sent

BufferInv == SendingInv /\ FramesInv

\* One thread at a time is between the start of publish_raw() and its sendto().
AloneAtTheBuffer ==
    \A r, s \in Sender : pc[r] # "idle" /\ pc[s] # "idle" => r = s

LEMMA InitBuffer == BufferInit => BufferInv
BY DEF BufferInit, BufferInv, SendingInv, FramesInv

\* A call's message.
LEMMA NewMessage ==
    ASSUME NEW s \in Sender, NEW q \in Nat, Size[TopicOf[s]] \in Nat
    PROVE  [topic |-> TopicOf[s], seq |-> q, payload |-> Payload(s, q)] \in Messages
<1>1. Payload(s, q) \in [1 .. Size[TopicOf[s]] -> PayloadByte]
    BY DEF Payload, PayloadByte
<1>2. Payload(s, q) \in Seq(PayloadByte)
    BY <1>1, SeqDef
<1> QED
    BY <1>2 DEF Messages

\* A message that is sent, and its frame.
LEMMA FrameShape ==
    ASSUME BufferInv, NEW m \in sent
    PROVE  /\ Len(m.payload) \in Nat
           /\ m.payload = [i \in 1 .. Len(m.payload) |-> m.payload[i]]
           /\ DOMAIN m.payload = 1 .. Len(m.payload)
           /\ m = [topic |-> m.topic, seq |-> m.seq, payload |-> m.payload]
<1>1. m \in Messages
    BY DEF BufferInv, SendingInv
<1>2. m.payload \in Seq(PayloadByte) /\ Len(m.payload) \in Nat
    BY <1>1, LenProperties DEF Messages
<1>3. m.payload \in [1 .. Len(m.payload) -> PayloadByte]
    BY <1>2, LenProperties
<1>4. m = [topic |-> m.topic, seq |-> m.seq, payload |-> m.payload]
    BY <1>1 DEF Messages
<1> QED
    BY <1>2, <1>3, <1>4

LEMMA CellShape ==
    ASSUME NEW m, NEW n \in Nat, n = Len(m.payload)
    PROVE  /\ FrameCell(m, 0) = [topic |-> m.topic, seq |-> m.seq, len |-> n]
           /\ \A i \in 1 .. n : FrameCell(m, i) = m.payload[i]
           /\ FrameCell(m, n + 1) = Stop
           /\ DOMAIN Frame(m) = 0 .. n + 1
           /\ \A i \in 0 .. n + 1 : Frame(m)[i] = FrameCell(m, i)
<1>1. FrameCell(m, 0) = [topic |-> m.topic, seq |-> m.seq, len |-> n]
    BY DEF FrameCell
<1>2. \A i \in 1 .. n : FrameCell(m, i) = m.payload[i]
    BY DEF FrameCell
<1>3. FrameCell(m, n + 1) = Stop
    BY DEF FrameCell
<1>4. DOMAIN Frame(m) = 0 .. n + 1 /\ \A i \in 0 .. n + 1 : Frame(m)[i] = FrameCell(m, i)
    BY DEF Frame
<1> QED
    BY <1>1, <1>2, <1>3, <1>4

LEMMA CallKeepsBuffer ==
    ASSUME BufferInv, NEW s \in Sender, Size[TopicOf[s]] \in Nat, SeqRange \in Nat \ {0},
           PublishRaw(s)
    PROVE  BufferInv'
<1>1. PICK new : /\ new = [topic |-> TopicOf[s], seq |-> seq_counter,
                           payload |-> Payload(s, seq_counter)]
                 /\ msg' = [msg EXCEPT ![s] = new]
                 /\ sent' = sent \cup {new}
    BY DEF PublishRaw
<1>2. /\ pc' = [pc EXCEPT ![s] = "header"]
      /\ seq_counter' = (seq_counter + 1) % SeqRange
      /\ UNCHANGED <<send_buf, socket, dispatched>>
    BY DEF PublishRaw
<1>3. new \in Messages
    BY <1>1, NewMessage DEF BufferInv, SendingInv
<1>4. seq_counter' \in Nat
    BY <1>2 DEF BufferInv, SendingInv
<1>5. \A r \in Sender : pc'[r] # "idle" => msg'[r] \in sent'
    BY <1>1, <1>2 DEF BufferInv, SendingInv
<1>6. ASSUME NEW r \in Sender, pc'[r] # "header"
      PROVE  r # s /\ pc'[r] = pc[r] /\ msg'[r] = msg[r]
    BY <1>1, <1>2, <1>6 DEF BufferInv, SendingInv
<1>7. SendingInv'
    BY <1>1, <1>2, <1>3, <1>4, <1>5, <1>6 DEF BufferInv, SendingInv, Written, FrameCell
<1>8. FramesInv'
    BY <1>1, <1>2 DEF BufferInv, FramesInv, Frame
<1> QED
    BY <1>7, <1>8 DEF BufferInv

\* A step of encode_frame or sendto moves its thread on; nobody else is there.
LEMMA AloneSuffices ==
    ASSUME BufferInv, AloneAtTheBuffer, NEW s \in Sender, pc[s] # "idle",
           NEW step \in {"idle", "header", "payload", "stop", "sendto"}, Goto(s, step),
           step = "payload" => Written(s, {0})',
           step = "stop" => Written(s, 0 .. Len(msg[s].payload))',
           step = "sendto" => Written(s, 0 .. Len(msg[s].payload) + 1)'
    PROVE  SendingInv'
<1>1. /\ pc' = [pc EXCEPT ![s] = step]
      /\ UNCHANGED <<seq_counter, msg, sends, sent, dispatched>>
    BY DEF Goto
<1>2. \A r \in Sender : r # s => pc'[r] = "idle"
    BY <1>1 DEF AloneAtTheBuffer, BufferInv, SendingInv
<1>3. pc'[s] = step
    BY <1>1 DEF BufferInv, SendingInv
<1>4. \A r \in Sender : pc'[r] # "idle" => msg'[r] \in sent'
    BY <1>1, <1>2 DEF BufferInv, SendingInv
<1>5. \A r \in Sender :
          /\ pc'[r] = "payload" => Written(r, {0})'
          /\ pc'[r] = "stop" => Written(r, 0 .. Len(msg[r].payload))'
          /\ pc'[r] = "sendto" => Written(r, 0 .. Len(msg[r].payload) + 1)'
    BY <1>2, <1>3
<1> QED
    BY <1>1, <1>4, <1>5 DEF BufferInv, SendingInv

LEMMA WriteKeepsBuffer ==
    ASSUME BufferInv, AloneAtTheBuffer, NEW s \in Sender,
           WriteHeader(s) \/ WritePayload(s) \/ WriteStop(s)
    PROVE  BufferInv'
<1>1. pc[s] # "idle" /\ msg[s] \in sent /\ UNCHANGED <<msg, sent, socket, dispatched>>
    BY DEF BufferInv, SendingInv, WriteHeader, WritePayload, WriteStop, Goto
<1>2. FramesInv'
    BY <1>1 DEF BufferInv, FramesInv
<1>3. PICK m \in sent : m = msg[s]
    BY <1>1
<1>4. PICK n \in Nat : n = Len(m.payload)
    BY FrameShape
<1>5. /\ DOMAIN m.payload = 1 .. n
      /\ FrameCell(m, 0) = [topic |-> m.topic, seq |-> m.seq, len |-> n]
      /\ \A i \in 1 .. n : FrameCell(m, i) = m.payload[i]
      /\ FrameCell(m, n + 1) = Stop
    BY <1>4, FrameShape, CellShape
<1>6. CASE WriteHeader(s)
    <2>1. Write([i \in {0} |-> [topic |-> m.topic, seq |-> m.seq, len |-> n]])
        BY <1>3, <1>4, <1>6 DEF WriteHeader
    <2>2. 0 \in DOMAIN send_buf' /\ send_buf'[0] = FrameCell(m, 0)
        BY <1>5, <2>1 DEF Write
    <2>3. Written(s, {0})'
        BY <1>1, <1>3, <2>2 DEF Written, FrameCell
    <2> QED
        BY <1>1, <1>2, <1>6, <2>3, AloneSuffices DEF WriteHeader, BufferInv
<1>7. CASE WritePayload(s)
    <2>1. Write(m.payload)
        BY <1>3, <1>7 DEF WritePayload
    <2>2. 0 \in DOMAIN send_buf /\ send_buf[0] = FrameCell(m, 0)
        BY <1>3, <1>7 DEF WritePayload, BufferInv, SendingInv, Written
    <2>3. ASSUME NEW i \in 0 .. n
          PROVE  i \in DOMAIN send_buf' /\ send_buf'[i] = FrameCell(m, i)
        <3>1. CASE i = 0
            BY <1>5, <2>1, <2>2, <3>1 DEF Write
        <3>2. CASE i \in 1 .. n
            BY <1>5, <2>1, <3>2 DEF Write
        <3> QED
            BY <3>1, <3>2
    <2>4. Written(s, 0 .. Len(msg[s].payload))'
        BY <1>1, <1>3, <1>4, <2>3 DEF Written, FrameCell
    <2> QED
        BY <1>1, <1>2, <1>7, <2>4, AloneSuffices DEF WritePayload, BufferInv
<1>8. CASE WriteStop(s)
    <2>1. Write([i \in {n + 1} |-> Stop])
        BY <1>3, <1>4, <1>8 DEF WriteStop
    <2>2. \A i \in 0 .. n : i \in DOMAIN send_buf /\ send_buf[i] = FrameCell(m, i)
        BY <1>3, <1>4, <1>8 DEF WriteStop, BufferInv, SendingInv, Written
    <2>3. ASSUME NEW i \in 0 .. n + 1
          PROVE  i \in DOMAIN send_buf' /\ send_buf'[i] = FrameCell(m, i)
        <3>1. CASE i \in 0 .. n
            <4>1. i # n + 1
                BY <3>1
            <4> QED
                BY <2>1, <2>2, <3>1, <4>1 DEF Write
        <3>2. CASE i = n + 1
            BY <1>5, <2>1, <3>2 DEF Write
        <3> QED
            BY <3>1, <3>2
    <2>4. Written(s, 0 .. Len(msg[s].payload) + 1)'
        BY <1>1, <1>3, <1>4, <2>3 DEF Written, FrameCell
    <2> QED
        BY <1>1, <1>2, <1>8, <2>4, AloneSuffices DEF WriteStop, BufferInv
<1> QED
    BY <1>6, <1>7, <1>8

LEMMA SendToKeepsBuffer ==
    ASSUME BufferInv, AloneAtTheBuffer, NEW s \in Sender, SendTo(s)
    PROVE  BufferInv'
<1>1. pc[s] = "sendto" /\ msg[s] \in sent /\ UNCHANGED <<sent, dispatched>>
    BY DEF BufferInv, SendingInv, SendTo, Goto
<1>2. PICK m \in sent : m = msg[s]
    BY <1>1
<1>3. \A i \in 0 .. Len(m.payload) + 1 : send_buf[i] = FrameCell(m, i)
    BY <1>1, <1>2 DEF BufferInv, SendingInv, Written
<1>4. [i \in 0 .. Len(m.payload) + 1 |-> send_buf[i]] = Frame(m)
    BY <1>3 DEF Frame
<1>5. socket' = socket \cup {Frame(m)}
    BY <1>2, <1>4 DEF SendTo
<1>6. FramesInv'
    BY <1>1, <1>2, <1>5 DEF BufferInv, FramesInv, Frame
<1>7. SendingInv'
    BY <1>1, AloneSuffices DEF SendTo
<1> QED
    BY <1>6, <1>7 DEF BufferInv

LEMMA ReceiveKeepsBuffer ==
    ASSUME BufferInv, NEW d \in socket, RecvAndDispatch(d)
    PROVE  BufferInv'
<1>1. PICK m \in sent : d = Frame(m)
    BY DEF BufferInv, FramesInv
<1>2. PICK n \in Nat : n = Len(m.payload)
    BY FrameShape
<1>3. d[0].topic = m.topic /\ d[0].seq = m.seq /\ d[0].len = n
    <2>1. d[0] = [topic |-> m.topic, seq |-> m.seq, len |-> n]
        BY <1>1, <1>2, CellShape
    <2> QED
        BY <2>1
<1>4. [i \in 1 .. d[0].len |-> d[i]] = m.payload
    <2>1. \A i \in 1 .. n : d[i] = m.payload[i]
        BY <1>1, <1>2, CellShape
    <2>2. m.payload = [i \in 1 .. n |-> m.payload[i]]
        BY <1>2, FrameShape
    <2> QED
        BY <1>3, <2>1, <2>2
<1>5. [topic |-> d[0].topic, seq |-> d[0].seq,
       payload |-> [i \in 1 .. d[0].len |-> d[i]]] \in sent
    BY <1>3, <1>4, FrameShape
<1>6. dispatched' \subseteq sent
    BY <1>5 DEF RecvAndDispatch, BufferInv, FramesInv
<1>7. UNCHANGED <<seq_counter, send_buf, pc, msg, sends, sent>> /\ socket' \subseteq socket
    BY DEF RecvAndDispatch
<1>8. FramesInv'
    BY <1>6, <1>7 DEF BufferInv, FramesInv, Frame
<1>9. SendingInv'
    BY <1>7 DEF BufferInv, SendingInv, Written, FrameCell
<1> QED
    BY <1>8, <1>9 DEF BufferInv

LEMMA NextKeepsBuffer ==
    ASSUME \A s \in Sender : Size[TopicOf[s]] \in Nat, SeqRange \in Nat \ {0}
    PROVE  BufferInv /\ AloneAtTheBuffer /\ [BufferNext]_bufferVars => BufferInv'
<1> SUFFICES ASSUME BufferInv, AloneAtTheBuffer, [BufferNext]_bufferVars
             PROVE  BufferInv'
    OBVIOUS
<1>1. CASE UNCHANGED bufferVars
    <2>1. UNCHANGED <<seq_counter, send_buf, pc, msg, socket, sent, dispatched>>
        BY <1>1 DEF bufferVars
    <2> QED
        BY <2>1 DEF BufferInv, SendingInv, FramesInv, Written, FrameCell, Frame
<1>2. CASE BufferNext
    BY <1>2, CallKeepsBuffer, WriteKeepsBuffer, SendToKeepsBuffer, ReceiveKeepsBuffer
       DEF BufferNext
<1> QED
    BY <1>1, <1>2

\* What a handler is called with was published on that topic, byte for byte, as
\* long as no two threads of the node are inside publish_raw() at once: a lock
\* around it is enough, for any number of threads, payload sizes and sends.
\* The send_buffer run shows that without it NeverMisinterpret fails
\* (udp_transport.hpp:151-186).
THEOREM AloneIsSafe ==
    ASSUME \A s \in Sender : Size[TopicOf[s]] \in Nat, SeqRange \in Nat \ {0}
    PROVE  BufferSpec /\ []AloneAtTheBuffer => []NeverMisinterpret
<1>1. BufferInv => NeverMisinterpret
    BY DEF BufferInv, FramesInv, NeverMisinterpret
<1>2. BufferInv /\ AloneAtTheBuffer /\ [BufferNext]_bufferVars => BufferInv'
    BY NextKeepsBuffer
<1> QED
    BY <1>1, <1>2, InitBuffer, PTL DEF BufferSpec

\* A node that publishes from one thread and has no other, in multicast mode
\* with no peer to punch, is of that kind.
THEOREM OneThreadIsSafe ==
    ASSUME \A s \in Sender : Size[TopicOf[s]] \in Nat, SeqRange \in Nat \ {0},
           \A r, s \in Sender : r = s
    PROVE  BufferSpec => []NeverMisinterpret
<1>1. AloneAtTheBuffer
    BY DEF AloneAtTheBuffer
<1> QED
    BY <1>1, AloneIsSafe, PTL
=============================================================================
