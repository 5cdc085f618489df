----------------------------- MODULE SendBuffer -----------------------------
(***************************************************************************)
(* UdpTransport::publish_raw, called by several threads of one node: the   *)
(* application publishes, and the punch, re-punch and multicast threads    *)
(* send empty frames under the reserved topic id, all through the one      *)
(* send_buf_ of the transport, which no lock protects.  encode_frame writes*)
(* the frame into it piece by piece; sendto reads it; the receiver runs    *)
(* decode_frame and looks for a handler.                                   *)
(*                                                                         *)
(* The buffer is an array of cells: cell 0 holds the start byte and the    *)
(* header, the following ones a payload byte each, then the stop byte.     *)
(* Two threads writing at once is a data race; the interleavings of whole  *)
(* copies below are some of its outcomes.                                  *)
(***************************************************************************)
EXTENDS Naturals, Sequences

CONSTANTS
  Sender,      \* threads that send
  TopicOf,     \* the topic each of them sends on
  PunchTopic,  \* kNatPunchTopicId: nobody subscribes to it
  Size,        \* payload length per topic, 0 for a punch
  SeqRange,    \* 2^16: width of seq_counter_
  MaxSends     \* bound: frames a thread sends

VARIABLES
  seq_counter, \* seq_counter_
  send_buf,    \* send_buf_: cells from index 0
  pc, msg,     \* each thread: its step, and the message it sends
  sends,       \* frames begun per thread
  socket,      \* datagrams under way
  sent,        \* history: messages publish_raw was called with
  dispatched   \* history: what handlers were called with

bufferVars == <<seq_counter, send_buf, pc, msg, sends, socket, sent, dispatched>>

Stop == [stop |-> TRUE]
Payload(s, q) == [i \in 1 .. Size[TopicOf[s]] |-> [from |-> s, seq |-> q, at |-> i]]

BufferInit ==
  /\ seq_counter = 0
  /\ send_buf = << >>
  /\ pc = [s \in Sender |-> "idle"]
  /\ msg = [s \in Sender |-> << >>]
  /\ sends = [s \in Sender |-> 0]
  /\ socket = {} /\ sent = {} /\ dispatched = {}

\* publish(): the next sequence number, then publish_raw() for the peer.
PublishRaw(s) ==
  /\ pc[s] = "idle" /\ sends[s] < MaxSends
  /\ LET new == [topic |-> TopicOf[s], seq |-> seq_counter, payload |-> Payload(s, seq_counter)]
     IN /\ msg' = [msg EXCEPT ![s] = new]
        /\ sent' = sent \cup {new}
  /\ seq_counter' = (seq_counter + 1) % SeqRange
  /\ sends' = [sends EXCEPT ![s] = @ + 1]
  /\ pc' = [pc EXCEPT ![s] = "header"]
  /\ UNCHANGED <<send_buf, socket, dispatched>>

\* The buffer with the given cells overwritten.
Write(cells) ==
  send_buf' = [i \in DOMAIN send_buf \cup DOMAIN cells |->
                 IF i \in DOMAIN cells THEN cells[i] ELSE send_buf[i]]

Goto(s, step) ==
  /\ pc' = [pc EXCEPT ![s] = step]
  /\ UNCHANGED <<seq_counter, msg, sends, sent, dispatched>>

\* encode_frame: start byte and header, payload, stop byte.
WriteHeader(s) ==
  /\ pc[s] = "header"
  /\ Write([i \in {0} |-> [topic |-> msg[s].topic, seq |-> msg[s].seq,
                           len |-> Len(msg[s].payload)]])
  /\ Goto(s, "payload") /\ UNCHANGED socket

WritePayload(s) ==
  /\ pc[s] = "payload"
  /\ Write(msg[s].payload)
  /\ Goto(s, "stop") /\ UNCHANGED socket

WriteStop(s) ==
  /\ pc[s] = "stop"
  /\ Write([i \in {Len(msg[s].payload) + 1} |-> Stop])
  /\ Goto(s, "sendto") /\ UNCHANGED socket

\* sendto(): as many bytes as this thread's frame has.
SendTo(s) ==
  /\ pc[s] = "sendto"
  /\ socket' = socket \cup {[i \in 0 .. Len(msg[s].payload) + 1 |-> send_buf[i]]}
  /\ Goto(s, "idle") /\ UNCHANGED send_buf

\* decode_frame(): the stop byte is where the header says, and the last one.
DecodeOk(d) ==
  LET stop_off == d[0].len + 1
  IN /\ stop_off \in DOMAIN d
     /\ stop_off + 1 \notin DOMAIN d
     /\ d[stop_off] = Stop

\* recv_and_dispatch(): the handler of the topic gets the payload; a frame
\* that does not decode, or has no handler, is dropped.
RecvAndDispatch(d) ==
  /\ socket' = socket \ {d}
  /\ dispatched' =
       IF DecodeOk(d) /\ d[0].topic # PunchTopic
       THEN dispatched \cup {[topic |-> d[0].topic, seq |-> d[0].seq,
                              payload |-> [i \in 1 .. d[0].len |-> d[i]]]}
       ELSE dispatched
  /\ UNCHANGED <<seq_counter, send_buf, pc, msg, sends, sent>>

BufferNext ==
  \/ \E s \in Sender :
       \/ PublishRaw(s) \/ WriteHeader(s) \/ WritePayload(s)
       \/ WriteStop(s) \/ SendTo(s)
  \/ \E d \in socket : RecvAndDispatch(d)

BufferSpec == BufferInit /\ [][BufferNext]_bufferVars

-----------------------------------------------------------------------------
(***************************************************************************)
(* relink.hpp:363: "type/size mismatch: drop, never misinterpret bytes".   *)
(* What a handler is called with is a message somebody published on that   *)
(* topic, byte for byte.                                                   *)
(***************************************************************************)
NeverMisinterpret == dispatched \subseteq sent
=============================================================================
