----------------------------- MODULE ShmSegment -----------------------------
(***************************************************************************)
(* The life of the shared-memory segment behind one local-IPC topic:       *)
(* ShmRing::open (create, attach, or take over from a dead owner),         *)
(* init_as_creator, request_stop's unlink, and crashes and restarts of the *)
(* processes at any step.  The data path (try_push, try_pop) is here too,  *)
(* in two steps per call, because a takeover resets the indices under      *)
(* processes that are using them; ShmRing has it step by step.             *)
(*                                                                         *)
(* Every process opens the same name: advertise_local_ipc derives it from  *)
(* the topic alone.                                                        *)
(***************************************************************************)
EXTENDS Naturals, FiniteSets

CONSTANTS
    Publishers, Subscribers,  \* processes, by what they do with the ring
    Geometry,       \* (capacity, max_payload) each process passes to open
    Capacity,       \* slots of the ring, as far as indices are concerned
    FailuresInInit, \* whether a creator may fail between create and publish
    MaxSegments,    \* bound: segments created under the name
    MaxPids,        \* bound: process starts, restarts included
    MaxPushes       \* bound: pushes accepted in all

Procs == Publishers \cup Subscribers

ASSUME ProcAssumption == /\ Geometry \in [Procs -> Nat]
                         /\ Capacity \in Nat \ {0}
                         /\ FailuresInInit \in BOOLEAN
                         /\ MaxSegments \in Nat /\ MaxPids \in Nat

VARIABLES
    name,      \* the segment the name refers to in /dev/shm, 0 when none
    segs,      \* segments created so far
    seg,       \* their contents
    pid,       \* pid of each process, 0 when it is not running
    pids,      \* pids handed out so far; none is reused
    pc,        \* where a process is in open, or in a push or a pop
    ring,      \* segment a process has mapped, 0 when none
    creator,   \* creator_ of its ShmRing
    index,     \* the index a push or a pop in progress has loaded
    pushed,    \* history: messages whose push returned true
    popped     \* history: messages the pops returned

node == <<pid, pids>>
histories == <<pushed, popped>>
vars == <<name, segs, seg, pid, pids, pc, ring, creator, index,
          pushed, popped>>

(***************************************************************************)
(* A message is who pushed it and its number.                              *)
(***************************************************************************)
NoMessage == [src |-> 0, n |-> 0]
NewSegment ==
    [sized |-> FALSE, magic |-> FALSE, geometry |-> 0, owner |-> 0,
     head |-> 0, tail |-> 0,
     slot |-> [i \in 0 .. Capacity - 1 |-> NoMessage]]

Init ==
    /\ name = 0 /\ segs = 0
    /\ seg = [s \in 1 .. MaxSegments |-> NewSegment]
    /\ pid = [p \in Procs |-> 0] /\ pids = 0
    /\ pc = [p \in Procs |-> "down"]
    /\ ring = [p \in Procs |-> 0]
    /\ creator = [p \in Procs |-> FALSE]
    /\ index = [p \in Procs |-> 0]
    /\ pushed = {} /\ popped = {}

Goto(p, label) == pc' = [pc EXCEPT ![p] = label]
My(p) == seg[ring[p]]
Alive(n) == \E q \in Procs : pid[q] = n

-----------------------------------------------------------------------------
(***************************************************************************)
(* Faulty variants, substituted one at a time to show a property detects   *)
(* them.                                                                   *)
(***************************************************************************)
CompatibleAlways(p) == TRUE

NextIndexNoWrap(i) == i + 1

StealUnguarded(p) ==
    /\ pc[p] = "steal"
    /\ seg' = [seg EXCEPT ![ring[p]].magic = FALSE]
    /\ creator' = [creator EXCEPT ![p] = TRUE]
    /\ Goto(p, "init_head")
    /\ UNCHANGED <<name, segs, ring, index, node, histories>>

CheckOwnerNeverSteals(p) ==
    /\ pc[p] = "check_owner"
    /\ Goto(p, IF My(p).owner = pid[p] THEN "attached" ELSE "poll")
    /\ UNCHANGED <<name, segs, seg, ring, creator, index, node, histories>>

-----------------------------------------------------------------------------
(***************************************************************************)
(* ShmRing::open.                                                          *)
(***************************************************************************)

\* The process starts (or is started again) and calls advertise_local_ipc.
Start(p) ==
    /\ pid[p] = 0
    /\ pids < MaxPids
    /\ pids' = pids + 1
    /\ pid' = [pid EXCEPT ![p] = pids']
    /\ Goto(p, "create")
    /\ UNCHANGED <<name, segs, seg, ring, creator, index, histories>>

\* shm_open(O_CREAT | O_EXCL): the first to come makes an empty segment.
OpenExclusive(p) ==
    /\ pc[p] = "create"
    /\ \/ /\ name = 0
          /\ segs < MaxSegments
          /\ segs' = segs + 1
          /\ name' = segs'
          /\ ring' = [ring EXCEPT ![p] = segs']
          /\ creator' = [creator EXCEPT ![p] = TRUE]
          /\ Goto(p, "truncate")
       \/ /\ name # 0
          /\ Goto(p, "reopen")
          /\ UNCHANGED <<name, segs, ring, creator>>
    /\ UNCHANGED <<seg, index, node, histories>>

\* ftruncate gives the segment its size, all zero bytes; the creator maps it.
Truncate(p) ==
    /\ pc[p] = "truncate"
    /\ seg' = [seg EXCEPT ![ring[p]].sized = TRUE]
    /\ Goto(p, "init_head")
    /\ UNCHANGED <<name, segs, ring, creator, index, node, histories>>

\* ftruncate fails: open returns false and leaves the name behind.
TruncateFails(p) ==
    /\ pc[p] = "truncate"
    /\ FailuresInInit
    /\ ring' = [ring EXCEPT ![p] = 0]
    /\ creator' = [creator EXCEPT ![p] = FALSE]
    /\ Goto(p, "failed")
    /\ UNCHANGED <<name, segs, seg, index, node, histories>>

\* EEXIST: open again without O_CREAT; the name may be gone by now.
Reopen(p) ==
    /\ pc[p] = "reopen"
    /\ ring' = [ring EXCEPT ![p] = name]
    /\ Goto(p, IF name = 0 THEN "failed" ELSE "poll")
    /\ UNCHANGED <<name, segs, seg, creator, index, node, histories>>

\* The header agrees with what this process was told to use.
Compatible(p) == My(p).geometry = Geometry[p]

\* Read magic.  While it is not there, sleep and look again, or give up at
\* the deadline; once it is, an incompatible segment is refused.
PollMagic(p) ==
    /\ pc[p] = "poll"
    /\ My(p).sized
    /\ \/ /\ My(p).magic
          /\ Goto(p, IF Compatible(p) THEN "check_owner" ELSE "failed")
       \/ /\ ~My(p).magic
          /\ Goto(p, "failed")
    /\ UNCHANGED <<name, segs, seg, ring, creator, index, node, histories>>

\* The header of a mapped segment with no size cannot be read: SIGBUS.
PollFaults(p) ==
    /\ pc[p] = "poll"
    /\ ~My(p).sized
    /\ pid' = [pid EXCEPT ![p] = 0]
    /\ ring' = [ring EXCEPT ![p] = 0]
    /\ Goto(p, "down")
    /\ UNCHANGED <<name, segs, seg, pids, creator, index, histories>>

\* kill(creator_pid, 0): attach when the recorded owner runs or is us.
CheckOwner(p) ==
    /\ pc[p] = "check_owner"
    /\ Goto(p, IF Alive(My(p).owner) THEN "attached" ELSE "steal")
    /\ UNCHANGED <<name, segs, seg, ring, creator, index, node, histories>>

\* Claim the segment of a dead owner by clearing magic.
Steal(p) ==
    /\ pc[p] = "steal"
    /\ \/ /\ My(p).magic
          /\ seg' = [seg EXCEPT ![ring[p]].magic = FALSE]
          /\ creator' = [creator EXCEPT ![p] = TRUE]
          /\ Goto(p, "init_head")
       \/ /\ ~My(p).magic
          /\ Goto(p, "poll")
          /\ UNCHANGED <<seg, creator>>
    /\ UNCHANGED <<name, segs, ring, index, node, histories>>

\* init_as_creator, in the order of its stores.
InitHead(p) ==
    /\ pc[p] = "init_head"
    /\ seg' = [seg EXCEPT ![ring[p]] =
                  [@ EXCEPT !.geometry = Geometry[p], !.head = 0]]
    /\ Goto(p, "init_tail")
    /\ UNCHANGED <<name, segs, ring, creator, index, node, histories>>

InitTail(p) ==
    /\ pc[p] = "init_tail"
    /\ seg' = [seg EXCEPT ![ring[p]].tail = 0]
    /\ Goto(p, "init_pid")
    /\ UNCHANGED <<name, segs, ring, creator, index, node, histories>>

InitPid(p) ==
    /\ pc[p] = "init_pid"
    /\ seg' = [seg EXCEPT ![ring[p]].owner = pid[p]]
    /\ Goto(p, "init_magic")
    /\ UNCHANGED <<name, segs, ring, creator, index, node, histories>>

InitMagic(p) ==
    /\ pc[p] = "init_magic"
    /\ seg' = [seg EXCEPT ![ring[p]].magic = TRUE]
    /\ Goto(p, "attached")
    /\ UNCHANGED <<name, segs, ring, creator, index, node, histories>>

\* open returned false: the ShmRing is dropped, and the application tries
\* again or is started again by hand.
Retry(p) ==
    /\ pc[p] = "failed"
    /\ ring' = [ring EXCEPT ![p] = 0]
    /\ Goto(p, "create")
    /\ UNCHANGED <<name, segs, seg, creator, index, node, histories>>

-----------------------------------------------------------------------------
(***************************************************************************)
(* The data path.                                                          *)
(***************************************************************************)
NextIndex(i) == (i + 1) % Capacity

\* try_push up to its test for a full ring: it keeps the tail it loaded.
PushBegin(p) ==
    /\ p \in Publishers
    /\ pc[p] = "attached"
    /\ Cardinality(pushed) < MaxPushes
    /\ NextIndex(My(p).tail) # My(p).head
    /\ index' = [index EXCEPT ![p] = My(p).tail]
    /\ Goto(p, "push")
    /\ UNCHANGED <<name, segs, seg, ring, creator, node, histories>>

\* The slot write and the store of tail; try_push returns true.
PushCommit(p) ==
    LET m == [src |-> pid[p], n |-> Cardinality(pushed) + 1]
    IN  /\ pc[p] = "push"
        /\ seg' = [seg EXCEPT ![ring[p]] =
                      [@ EXCEPT !.slot[index[p]] = m,
                                !.tail = NextIndex(index[p])]]
        /\ pushed' = pushed \cup {m}
        /\ Goto(p, "attached")
        /\ UNCHANGED <<name, segs, ring, creator, index, node, popped>>

\* try_pop up to its test for an empty ring.
PopBegin(p) ==
    /\ p \in Subscribers
    /\ pc[p] = "attached"
    /\ My(p).head # My(p).tail
    /\ index' = [index EXCEPT ![p] = My(p).head]
    /\ Goto(p, "pop")
    /\ UNCHANGED <<name, segs, seg, ring, creator, node, histories>>

\* The slot read and the store of head.
PopCommit(p) ==
    /\ pc[p] = "pop"
    /\ seg' = [seg EXCEPT ![ring[p]].head = NextIndex(index[p])]
    /\ popped' = popped \cup {My(p).slot[index[p]]}
    /\ Goto(p, "attached")
    /\ UNCHANGED <<name, segs, ring, creator, index, node, pushed>>

-----------------------------------------------------------------------------
(***************************************************************************)
(* Endings.                                                                *)
(***************************************************************************)
Gone(p) ==
    /\ pid' = [pid EXCEPT ![p] = 0]
    /\ ring' = [ring EXCEPT ![p] = 0]
    /\ creator' = [creator EXCEPT ![p] = FALSE]
    /\ Goto(p, "down")

\* request_stop unlinks the name (whatever it refers to by then) when this
\* process is the creator.  The mapping stays until the process ends.
RequestStop(p) ==
    /\ pc[p] = "attached"
    /\ creator[p] /\ name # 0
    /\ name' = 0
    /\ UNCHANGED <<segs, seg, pc, ring, creator, index, node, histories>>

Initialising(p) ==
    pc[p] \in {"truncate", "init_head", "init_tail", "init_pid", "init_magic"}

\* The process ends, or dies where it stands; nothing more is unlinked.
Crash(p) ==
    /\ pid[p] # 0
    /\ Initialising(p) => FailuresInInit
    /\ Gone(p)
    /\ UNCHANGED <<name, segs, seg, pids, index, histories>>

-----------------------------------------------------------------------------
OpenStep(p) ==
    \/ OpenExclusive(p)
    \/ Truncate(p)
    \/ Reopen(p)
    \/ PollMagic(p)
    \/ PollFaults(p)
    \/ CheckOwner(p)
    \/ Steal(p)
    \/ InitHead(p)
    \/ InitTail(p)
    \/ InitPid(p)
    \/ InitMagic(p)
    \/ Retry(p)

DataStep(p) ==
    \/ PushBegin(p)
    \/ PushCommit(p)
    \/ PopBegin(p)
    \/ PopCommit(p)

Next ==
    \E p \in Procs :
        \/ Start(p)
        \/ OpenStep(p)
        \/ TruncateFails(p)
        \/ DataStep(p)
        \/ RequestStop(p)
        \/ Crash(p)

Spec == Init /\ [][Next]_vars

(***************************************************************************)
(* A running process keeps executing open, and the application calls it    *)
(* again when it fails.  Starting, stopping and crashing are not assumed.  *)
(***************************************************************************)
FairSpec == Spec /\ \A p \in Procs : WF_vars(OpenStep(p))

-----------------------------------------------------------------------------
(***************************************************************************)
(* Properties.                                                             *)
(***************************************************************************)

Message == [src : 0 .. MaxPids, n : Nat]
Segment ==
    [sized : BOOLEAN, magic : BOOLEAN, geometry : Nat, owner : 0 .. MaxPids,
     head : 0 .. Capacity - 1, tail : 0 .. Capacity - 1,
     slot : [0 .. Capacity - 1 -> Message]]
Labels ==
    {"down", "create", "truncate", "reopen", "poll", "failed", "check_owner",
     "steal", "init_head", "init_tail", "init_pid", "init_magic",
     "attached", "push", "pop"}

\* What each variable may hold.
TypeOK ==
    /\ name \in 0 .. MaxSegments /\ segs \in 0 .. MaxSegments
    /\ seg \in [1 .. MaxSegments -> Segment]
    /\ pid \in [Procs -> 0 .. MaxPids] /\ pids \in 0 .. MaxPids
    /\ pc \in [Procs -> Labels]
    /\ ring \in [Procs -> 0 .. MaxSegments]
    /\ creator \in [Procs -> BOOLEAN]
    /\ index \in [Procs -> 0 .. Capacity - 1]
    /\ pushed \subseteq Message /\ IsFiniteSet(pushed)
    /\ popped \subseteq Message

Attached(p) == pc[p] \in {"attached", "push", "pop"}

(***************************************************************************)
(* Only one process at a time writes a segment's header, and while it does *)
(* the segment is not published: the O_EXCL create and the claim on magic  *)
(* let one process in, whoever else is opening, restarting or crashing.    *)
(***************************************************************************)
OneInitialiser ==
    \A p, q \in Procs :
        /\ Initialising(p) => ~My(p).magic
        /\ Initialising(p) /\ Initialising(q) /\ ring[p] = ring[q] => p = q

(***************************************************************************)
(* Processes that share a ring agree on its slot size and capacity, so     *)
(* neither indexes past the other's mapping, also when a takeover rewrites *)
(* the header after the attacher compared it.                              *)
(***************************************************************************)
GeometryAgrees ==
    \A p, q \in Procs :
        Attached(p) /\ Attached(q) /\ ring[p] = ring[q]
            => /\ Geometry[p] = Geometry[q]
               /\ My(p).geometry = Geometry[p]

(***************************************************************************)
(* A process that keeps opening the topic gets a ring unless it ends or    *)
(* meets an incompatible one: a segment leaked by a dead owner is taken    *)
(* over, and a name unlinked in between is created anew.  The one leak     *)
(* open() does not recover is an orphan: a segment whose creator died, or  *)
(* failed, before it stored magic.                                         *)
(***************************************************************************)
Incompatible(p) == ring[p] # 0 /\ My(p).magic /\ ~Compatible(p)
BoundReached == segs = MaxSegments /\ name = 0
Orphaned ==
    /\ name # 0
    /\ ~seg[name].magic
    /\ \A q \in Procs : ring[q] = name => ~Initialising(q)
Opened(p) == Attached(p) \/ pid[p] = 0 \/ Incompatible(p) \/ BoundReached

OpenSucceedsUnlessOrphaned ==
    \A p \in Procs : (pc[p] = "create") ~> (Opened(p) \/ Orphaned)

(***************************************************************************)
(* What the header comments say of open and push, beyond what holds: see   *)
(* the README for the behaviours that break each of these three.           *)
(***************************************************************************)

\* "the dead-owner detection in open() is what recovers a leaked segment on
\* the next run", orphans included.
OpenSucceeds == \A p \in Procs : (pc[p] = "create") ~> Opened(p)

\* "Whoever wins becomes the new creator; losers just fall through to
\* re-poll": of the processes using one segment, one is its creator.
OneCreator ==
    \A p, q \in Procs :
        /\ Attached(p) /\ creator[p]
        /\ Attached(q) /\ creator[q]
        /\ ring[p] = ring[q]
        => p = q

\* The messages between head and tail.
Queued(s) ==
    {seg[s].slot[i] : i \in
        {i \in 0 .. Capacity - 1 :
            IF seg[s].head <= seg[s].tail
              THEN seg[s].head <= i /\ i < seg[s].tail
              ELSE seg[s].head <= i \/ i < seg[s].tail}}

\* "explicit backpressure rather than silent loss": a push that returned
\* true to the process that created the ring is popped or still queued.
NoSilentLoss ==
    \A m \in pushed : \A p \in Procs :
        pid[p] = m.src /\ creator[p] => m \in Queued(ring[p]) \cup popped
=============================================================================
