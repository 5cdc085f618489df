-------------------------- MODULE ImageReassembler --------------------------
(***************************************************************************)
(* Images larger than a datagram: publish_image and                        *)
(* publish_compressed_image of cpp/include/relink/relink.hpp cut an image  *)
(* into chunks, and the ImageReassembler of image.hpp, or the              *)
(* CompressedImageReassembler of compressed_image.hpp, puts the chunks     *)
(* that arrive on ONE topic back together.  The two differ in the stamp,   *)
(* capture time and quality, that every chunk of a compressed image        *)
(* carries.                                                                *)
(*                                                                         *)
(* The bytes of a chunk are abstracted to where they come from, the image  *)
(* and the position in it, and to how many they are.  The network keeps    *)
(* one channel per publisher and destination address; a chunk may be lost, *)
(* and may overtake up to MaxSkip earlier ones.  Every copy of a chunk has *)
(* a sequence number of its own (publish_scattered draws one per peer      *)
(* address), so the transport's duplicate suppression removes none.        *)
(***************************************************************************)
EXTENDS Integers, Sequences, FiniteSets, SequencesExt

CONSTANTS
  Publisher,       \* nodes publishing images on the topic
  Address,         \* addresses the publisher knows for the one subscriber
  Lengths,         \* the lengths of images, in bytes
  kChunkDataBytes, \* what fits into a chunk
  MaxChunks,       \* the largest uint16_t
  MaxImages,       \* bound: images a publisher publishes
  MaxSkip,         \* bound: how many earlier chunks one may overtake
  AllowLoss        \* does the network lose chunks

ASSUME ImageAssumption ==
  /\ Lengths \subseteq Nat
  /\ kChunkDataBytes \in Nat \ {0} /\ MaxChunks \in Nat \ {0}
  /\ MaxImages \in Nat /\ MaxSkip \in Nat /\ AllowLoss \in BOOLEAN

VARIABLES
  compressed,   \* is this a topic of compressed images
  nextFrameId,  \* next_image_frame_id_ of each publisher
  published,    \* history: the images published
  channel,      \* chunks under way, per publisher and address
  current,      \* current_frame_id_
  inProgress,   \* in_progress_
  received,     \* received_ and buffer_: what each slot holds
  lastBytes,    \* last_chunk_bytes_
  stamp,        \* capture_timestamp_ns_ and quality_
  delivered,    \* what on_complete_ was called with
  disturbed     \* history: a chunk was lost or overtook another

rxVars == <<current, inProgress, received, lastBytes, stamp, delivered>>
vars == <<compressed, nextFrameId, published, channel, rxVars, disturbed>>

\* A slot of the buffer nothing was copied into: zeroes.  Also no stamp.
Empty == [from |-> "none"]

\* An image is identified by its publisher and frame id.
Image(p, id, len) == [publisher |-> p, frame |-> id, len |-> len]

kMaxImageBytes == MaxChunks * kChunkDataBytes

\* Mutant: any length is accepted.
accepts_any(len) == TRUE

accepts(len) == len <= kMaxImageBytes

\* A uint16_t; an empty image is still one chunk.
chunk_count(len) ==
  LET n == ((len + kChunkDataBytes - 1) \div kChunkDataBytes) % (MaxChunks + 1)
  IN IF n = 0 THEN 1 ELSE n

\* The bytes of the ith chunk, counted from 1.
chunk_bytes(len, i) ==
  LET rest == len - (i - 1) * kChunkDataBytes
  IN IF rest < kChunkDataBytes THEN rest ELSE kChunkDataBytes

\* The capture time and quality of an image, if its chunks carry them.
Stamp(img) == IF compressed THEN img ELSE Empty

Data(img, i) == [from |-> img, index |-> i]

Chunk(img, i) ==
  [frame |-> img.frame, index |-> i, count |-> chunk_count(img.len),
   bytes |-> chunk_bytes(img.len, i), stamp |-> Stamp(img), data |-> Data(img, i)]

Init ==
  /\ compressed \in BOOLEAN
  /\ nextFrameId = [p \in Publisher |-> 0]
  /\ published = {}
  /\ channel = [c \in Publisher \X Address |-> << >>]
  /\ current = 0
  /\ inProgress = FALSE
  /\ received = << >>
  /\ lastBytes = 0
  /\ stamp = Empty
  /\ delivered = << >>
  /\ disturbed = FALSE

\* All chunks of an image, in order.
Chunks(img) == [i \in 1 .. chunk_count(img.len) |-> Chunk(img, i)]

\* publish_scattered() hands each of them to the kernel, for every known
\* address, out of the caller's memory.
Send(p, img) ==
  channel' = [c \in DOMAIN channel |->
                IF c[1] = p THEN channel[c] \o Chunks(img) ELSE channel[c]]

\* The next frame id of this node, and the chunks.
Publish(p, len) ==
  /\ nextFrameId[p] < MaxImages
  /\ accepts(len)
  /\ LET img == Image(p, nextFrameId[p], len)
     IN published' = published \cup {img} /\ Send(p, img)
  /\ nextFrameId' = [nextFrameId EXCEPT ![p] = @ + 1]
  /\ UNCHANGED <<compressed, rxVars, disturbed>>

publish_image(p, len) == ~compressed /\ Publish(p, len)
publish_compressed_image(p, len) == compressed /\ Publish(p, len)

\* Mutant: only the frame id decides.
StartsNewFrameById(ch) == ch.frame # current

\* A chunk of another frame, or of any frame when none is in progress,
\* abandons what there is.
StartsNewFrame(ch) == ch.frame # current \/ ~inProgress

\* The buffer the chunk is put into.
Slots(ch) ==
  IF StartsNewFrame(ch) THEN [i \in 1 .. ch.count |-> Empty] ELSE received

\* All chunks are there, as this chunk counts them.
Complete(ch, new) ==
  Cardinality({i \in DOMAIN new : new[i] # Empty}) = ch.count

\* The length of the image: full chunks and the last one.
Total(ch, last) == (ch.count - 1) * kChunkDataBytes + last

\* on_chunk_raw() of both reassemblers, including the early return on a slot
\* that does not exist or is filled.
Reassemble(ch) ==
  LET slots == Slots(ch)
      fresh == ch.index \in DOMAIN slots /\ slots[ch.index] = Empty
      new == IF fresh THEN [slots EXCEPT ![ch.index] = ch.data] ELSE slots
      last == IF fresh /\ ch.index = ch.count THEN ch.bytes ELSE lastBytes
      kept == IF StartsNewFrame(ch) THEN ch.stamp ELSE stamp
      done == fresh /\ Complete(ch, new)
  IN /\ current' = ch.frame
     /\ received' = new
     /\ lastBytes' = last
     /\ stamp' = kept
     /\ inProgress' = ~done
     /\ delivered' = IF done
                     THEN Append(delivered, [data |-> SubSeq(new, 1, ch.count),
                                             total |-> Total(ch, last), stamp |-> kept])
                     ELSE delivered

\* The chunk at position k of channel c arrives.
OnChunk(c, k) ==
  /\ k \in 1 .. Len(channel[c])
  /\ k <= MaxSkip + 1
  /\ channel' = [channel EXCEPT ![c] = RemoveAt(@, k)]
  /\ Reassemble(channel[c][k])
  /\ disturbed' = (disturbed \/ k > 1)
  /\ UNCHANGED <<compressed, nextFrameId, published>>

\* The handlers that subscribe_image and subscribe_compressed_image install.
subscribe_image(c, k) == ~compressed /\ OnChunk(c, k)
subscribe_compressed_image(c, k) == compressed /\ OnChunk(c, k)

\* The network drops the next chunk of a channel.
Lose(c) ==
  /\ AllowLoss
  /\ channel[c] # << >>
  /\ channel' = [channel EXCEPT ![c] = Tail(@)]
  /\ disturbed' = TRUE
  /\ UNCHANGED <<compressed, nextFrameId, published, rxVars>>

Next ==
  \/ \E p \in Publisher, len \in Lengths :
       publish_image(p, len) \/ publish_compressed_image(p, len)
  \/ \E c \in DOMAIN channel, k \in 1 .. MaxSkip + 1 :
       subscribe_image(c, k) \/ subscribe_compressed_image(c, k)
  \/ \E c \in DOMAIN channel : Lose(c)

Spec == Init /\ [][Next]_vars

\* A chunk that is under way and not lost arrives.
FairSpec ==
  /\ Spec
  /\ \A c \in Publisher \X Address : WF_vars(OnChunk(c, 1))

-----------------------------------------------------------------------------
\* What a whole image is delivered as: its bytes in order, all of them, and
\* its own stamp.
Whole(img) == [data |-> [i \in 1 .. chunk_count(img.len) |-> Data(img, i)],
               total |-> img.len, stamp |-> Stamp(img)]

\* Every variable has its type.
TypeOK ==
  /\ compressed \in BOOLEAN
  /\ nextFrameId \in [Publisher -> 0 .. MaxImages]
  /\ published \subseteq
       {Image(p, id, len) : p \in Publisher, id \in 0 .. MaxImages, len \in Lengths}
  /\ \A c \in Publisher \X Address : \A k \in DOMAIN channel[c] :
       \E img \in published : \E i \in 1 .. MaxChunks : channel[c][k] = Chunk(img, i)
  /\ current \in Nat
  /\ inProgress \in BOOLEAN /\ disturbed \in BOOLEAN
  /\ lastBytes \in 0 .. kChunkDataBytes
  /\ stamp = Empty \/ stamp \in published
  /\ \E n \in 0 .. MaxChunks : DOMAIN received = 1 .. n
  /\ \A i \in DOMAIN received :
       received[i] = Empty \/ \E img \in published : received[i] = Data(img, i)

\* A callback is given the bytes of one published image, all of them, in order
\* and no more, and that image's capture time and quality: never a partial
\* image, nor parts of two (image.hpp:91-96: "no partial delivery").
DeliveredWhole ==
  \A k \in DOMAIN delivered : \E img \in published : delivered[k] = Whole(img)

\* While the network neither loses nor reorders, again and again every image
\* published so far has been delivered, the first one (frame id 0, the initial
\* value of current_frame_id_) included.
EveryImageDelivered ==
  []<>(disturbed \/ \A img \in published :
                      \E k \in DOMAIN delivered : delivered[k] = Whole(img))
=============================================================================
