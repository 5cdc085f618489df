-------------------------- MODULE ShmSegmentProofs --------------------------
(***************************************************************************)
(* Proofs about ShmSegment, for every set of processes, every geometry     *)
(* they pass to open, and every bound on segments and restarts, with and   *)
(* without failures inside init_as_creator.                                *)
(*                                                                         *)
(* OneInitialiser carries itself once it is known that a fresh segment is  *)
(* mapped by nobody and unpublished (MappingInv): the other way in is      *)
(* Steal, which needs magic, and no segment with magic is being            *)
(* initialised.  GeometryAgrees needs what a process knows between its     *)
(* comparison of the header and its use of the ring (HeaderInv): the only  *)
(* writer that can meet it there is a stealer that made the same           *)
(* comparison.                                                             *)
(***************************************************************************)
EXTENDS ShmSegment, TLAPS, FiniteSetTheorems

\* A process between mmap and munmap.
Mapped(p) == pc[p] \notin {"down", "create", "reopen", "failed"}

\* Mappings are of segments that exist, and one that does not exist yet is
\* not published.
MappingInv ==
    /\ name <= segs
    /\ \A p \in Procs : ring[p] <= segs
    /\ \A p \in Procs : Mapped(p) => ring[p] # 0
    /\ \A s \in 1 .. MaxSegments : segs < s => ~seg[s].magic

\* A process that has compared the header with its own geometry, or has
\* written it, and goes on to use the ring.
Knows(p) ==
    pc[p] \in {"check_owner", "steal", "init_tail", "init_pid", "init_magic",
               "attached", "push", "pop"}

\* What it knows stays true; the one about to write the header either made
\* the segment, and is alone with it, or writes what is there.
HeaderInv ==
    \A p, q \in Procs :
        /\ Knows(p) => My(p).geometry = Geometry[p]
        /\ pc[p] = "truncate" /\ Knows(q) => ring[q] # ring[p]
        /\ pc[p] = "init_head" /\ Knows(q) /\ ring[q] = ring[p]
                => My(p).geometry = Geometry[p]

IInv == TypeOK /\ MappingInv /\ OneInitialiser /\ HeaderInv

-----------------------------------------------------------------------------
\* The index of try_push and try_pop stays inside the ring.
LEMMA NextIndexType ==
    ASSUME NEW i \in 0 .. Capacity - 1
    PROVE  NextIndex(i) \in 0 .. Capacity - 1
BY ProcAssumption, SMT DEF NextIndex

\* A fresh segment is all zero bytes, which is a well-typed header.
LEMMA NewSegmentType == NewSegment \in Segment
<1>1. 0 \in 0 .. Capacity - 1 /\ 0 \in 0 .. MaxPids
    BY ProcAssumption
<1>2. NoMessage \in Message
    BY <1>1 DEF NoMessage, Message
<1> QED
    BY <1>1, <1>2 DEF NewSegment, Segment

-----------------------------------------------------------------------------
\* Before any process has started every variable has its type.
LEMMA TypeInit == Init => TypeOK
<1> SUFFICES ASSUME Init PROVE TypeOK
    OBVIOUS
<1>1. IsFiniteSet(pushed)
    BY FS_EmptySet DEF Init
<1> QED
    BY <1>1, NewSegmentType, ProcAssumption DEF Init, TypeOK, Labels

\* A mapped process has a segment whose header it can read.
LEMMA MappedType ==
    ASSUME TypeOK, MappingInv, NEW p \in Procs, Mapped(p)
    PROVE  ring[p] \in 1 .. MaxSegments /\ My(p) \in Segment
BY DEF TypeOK, MappingInv, My

\* What a claim on magic and init_as_creator store is a well-typed header.
LEMMA HeaderType ==
    ASSUME NEW x \in Segment, NEW i \in 0 .. Capacity - 1, NEW g \in Nat
    PROVE  /\ [x EXCEPT !.magic = FALSE] \in Segment
           /\ [x EXCEPT !.geometry = g, !.head = i] \in Segment
           /\ [x EXCEPT !.head = i] \in Segment
           /\ [x EXCEPT !.tail = i] \in Segment
BY DEF Segment

\* What a push stores is a well-typed slot and header.
LEMMA PushType ==
    ASSUME NEW x \in Segment, NEW i \in 0 .. Capacity - 1,
           NEW j \in 0 .. Capacity - 1, NEW m \in Message
    PROVE  [x EXCEPT !.slot[j] = m, !.tail = i] \in Segment
<1>1. x.slot \in [0 .. Capacity - 1 -> Message]
    BY DEF Segment
<1>2. [x.slot EXCEPT ![j] = m] \in [0 .. Capacity - 1 -> Message]
    BY <1>1
<1>3. [x EXCEPT !.slot = [x.slot EXCEPT ![j] = m], !.tail = i] \in Segment
    BY <1>2 DEF Segment
<1> QED
    BY <1>3

\* Storing a well-typed header keeps the segments well-typed.
LEMMA SegType ==
    ASSUME seg \in [1 .. MaxSegments -> Segment], NEW r \in 1 .. MaxSegments,
           NEW x \in Segment
    PROVE  [seg EXCEPT ![r] = x] \in [1 .. MaxSegments -> Segment]
OBVIOUS

\* Every step of open, of the data path and of the endings keeps the types.
LEMMA TypeNext == TypeOK /\ MappingInv /\ [Next]_vars => TypeOK'
<1> SUFFICES ASSUME TypeOK, MappingInv, [Next]_vars
             PROVE  TypeOK'
    OBVIOUS
<1> USE ProcAssumption DEF TypeOK, Goto, Labels, node, histories
<1>1. ASSUME NEW p \in Procs, Start(p)
      PROVE  TypeOK'
    BY <1>1 DEF Start
<1>2. ASSUME NEW p \in Procs, OpenExclusive(p)
      PROVE  TypeOK'
    <2>1. /\ name' \in 0 .. MaxSegments /\ segs' \in 0 .. MaxSegments
          /\ ring' \in [Procs -> 0 .. MaxSegments]
        <3>1. segs < MaxSegments => segs + 1 \in 0 .. MaxSegments
            BY SMT
        <3>2. CASE name = 0
            <4>1. /\ segs < MaxSegments /\ segs' = segs + 1
                  /\ name' = segs + 1
                  /\ ring' = [ring EXCEPT ![p] = segs + 1]
                BY <1>2, <3>2 DEF OpenExclusive
            <4> QED
                BY <3>1, <4>1
        <3>3. CASE name # 0
            BY <1>2, <3>3 DEF OpenExclusive
        <3> QED
            BY <3>2, <3>3
    <2>2. pc' \in [Procs -> Labels] /\ creator' \in [Procs -> BOOLEAN]
        BY <1>2 DEF OpenExclusive
    <2> QED
        BY <1>2, <2>1, <2>2 DEF OpenExclusive
<1>3. ASSUME NEW p \in Procs, Truncate(p)
      PROVE  TypeOK'
    BY <1>3 DEF Truncate, Segment
<1>4. ASSUME NEW p \in Procs, TruncateFails(p)
      PROVE  TypeOK'
    BY <1>4 DEF TruncateFails
<1>5. ASSUME NEW p \in Procs, Reopen(p)
      PROVE  TypeOK'
    BY <1>5 DEF Reopen
<1>6. ASSUME NEW p \in Procs, PollMagic(p)
      PROVE  TypeOK'
    BY <1>6 DEF PollMagic
<1>7. ASSUME NEW p \in Procs, PollFaults(p)
      PROVE  TypeOK'
    BY <1>7 DEF PollFaults
<1>8. ASSUME NEW p \in Procs, CheckOwner(p)
      PROVE  TypeOK'
    BY <1>8 DEF CheckOwner
<1>9. ASSUME NEW p \in Procs, Steal(p)
      PROVE  TypeOK'
    <2>1. seg' \in [1 .. MaxSegments -> Segment]
        <3>1. ring[p] \in 1 .. MaxSegments /\ My(p) \in Segment
            BY <1>9, MappedType DEF Mapped, Steal
        <3>2. [My(p) EXCEPT !.magic = FALSE] \in Segment
            BY <3>1 DEF Segment
        <3>3. \/ seg' = [seg EXCEPT ![ring[p]] =
                            [My(p) EXCEPT !.magic = FALSE]]
              \/ seg' = seg
            BY <1>9 DEF Steal, My
        <3> QED
            BY <3>1, <3>2, <3>3, SegType
    <2>2. pc' \in [Procs -> Labels] /\ creator' \in [Procs -> BOOLEAN]
        BY <1>9 DEF Steal
    <2> QED
        BY <1>9, <2>1, <2>2 DEF Steal
<1>10. ASSUME NEW p \in Procs, InitHead(p)
      PROVE  TypeOK'
    <2> DEFINE x == [My(p) EXCEPT !.geometry = Geometry[p], !.head = 0]
    <2>1. ring[p] \in 1 .. MaxSegments /\ My(p) \in Segment
        BY <1>10, MappedType DEF Mapped, InitHead
    <2>2. x \in Segment
        BY <2>1, 0 \in 0 .. Capacity - 1, Geometry[p] \in Nat, HeaderType
    <2>3. seg' = [seg EXCEPT ![ring[p]] = x]
        BY <1>10 DEF InitHead, My
    <2>4. seg' \in [1 .. MaxSegments -> Segment]
        BY <2>1, <2>2, <2>3, SegType
    <2> QED
        BY <1>10, <2>4 DEF InitHead
<1>11. ASSUME NEW p \in Procs, InitTail(p)
      PROVE  TypeOK'
    <2>1. ring[p] \in 1 .. MaxSegments /\ My(p) \in Segment
        BY <1>11, MappedType DEF Mapped, InitTail
    <2>2. [My(p) EXCEPT !.tail = 0] \in Segment
        BY <2>1, 0 \in 0 .. Capacity - 1, 0 \in Nat, HeaderType
    <2>3. seg' = [seg EXCEPT ![ring[p]] = [My(p) EXCEPT !.tail = 0]]
        BY <1>11 DEF InitTail, My
    <2>4. seg' \in [1 .. MaxSegments -> Segment]
        BY <2>1, <2>2, <2>3, SegType
    <2> QED
        BY <1>11, <2>4 DEF InitTail
<1>12. ASSUME NEW p \in Procs, InitPid(p)
      PROVE  TypeOK'
    BY <1>12 DEF InitPid, Segment
<1>13. ASSUME NEW p \in Procs, InitMagic(p)
      PROVE  TypeOK'
    BY <1>13 DEF InitMagic, Segment
<1>14. ASSUME NEW p \in Procs, Retry(p)
      PROVE  TypeOK'
    BY <1>14 DEF Retry
<1>15. ASSUME NEW p \in Procs, PushBegin(p)
      PROVE  TypeOK'
    <2>1. My(p) \in Segment
        BY <1>15, MappedType DEF Mapped, PushBegin
    <2> QED
        BY <1>15, <2>1 DEF PushBegin, Segment
<1>16. ASSUME NEW p \in Procs, PushCommit(p)
      PROVE  TypeOK'
    <2> DEFINE m == [src |-> pid[p], n |-> Cardinality(pushed) + 1]
    <2>1. Cardinality(pushed) + 1 \in Nat
        BY FS_CardinalityType
    <2>2. m \in Message
        BY <2>1 DEF Message
    <2>3. pushed' = pushed \cup {m}
        BY <1>16 DEF PushCommit
    <2>4. pushed' \subseteq Message /\ IsFiniteSet(pushed')
        BY <2>2, <2>3, FS_AddElement
    <2>5. NextIndex(index[p]) \in 0 .. Capacity - 1
        BY NextIndexType
    <2> HIDE DEF m
    <2>6. seg' = [seg EXCEPT ![ring[p]] =
                     [@ EXCEPT !.slot[index[p]] = m,
                               !.tail = NextIndex(index[p])]]
        BY <1>16 DEF PushCommit, m
    <2>7. seg' \in [1 .. MaxSegments -> Segment]
        <3>1. ring[p] \in 1 .. MaxSegments /\ seg[ring[p]] \in Segment
            BY <1>16, MappedType DEF PushCommit, Mapped, My
        <3>2. [seg[ring[p]] EXCEPT !.slot[index[p]] = m,
                                   !.tail = NextIndex(index[p])] \in Segment
            BY <2>2, <2>5, <3>1, PushType
        <3> QED
            BY <2>6, <3>1, <3>2, SegType
    <2> QED
        BY <1>16, <2>4, <2>7 DEF PushCommit
<1>17. ASSUME NEW p \in Procs, PopBegin(p)
      PROVE  TypeOK'
    <2>1. My(p) \in Segment
        BY <1>17, MappedType DEF Mapped, PopBegin
    <2> QED
        BY <1>17, <2>1 DEF PopBegin, Segment
<1>18. ASSUME NEW p \in Procs, PopCommit(p)
      PROVE  TypeOK'
    <2>1. ring[p] \in 1 .. MaxSegments /\ My(p) \in Segment
        BY <1>18, MappedType DEF Mapped, PopCommit
    <2>2. My(p).slot[index[p]] \in Message
        BY <2>1 DEF Segment
    <2>3. NextIndex(index[p]) \in 0 .. Capacity - 1
        BY NextIndexType
    <2>4. [My(p) EXCEPT !.head = NextIndex(index[p])] \in Segment
        BY <2>1, <2>3, HeaderType
    <2>5. seg' = [seg EXCEPT ![ring[p]] =
                     [My(p) EXCEPT !.head = NextIndex(index[p])]]
        BY <1>18 DEF PopCommit, My
    <2>6. seg' \in [1 .. MaxSegments -> Segment]
        BY <2>1, <2>4, <2>5, SegType
    <2> QED
        BY <1>18, <2>2, <2>6 DEF PopCommit
<1>19. ASSUME NEW p \in Procs, RequestStop(p)
      PROVE  TypeOK'
    BY <1>19 DEF RequestStop, Gone
<1>20. ASSUME NEW p \in Procs, Crash(p)
      PROVE  TypeOK'
    BY <1>20 DEF Crash, Gone
<1>21. CASE UNCHANGED vars
    BY <1>21 DEF vars
<1> QED
    BY <1>1, <1>2, <1>3, <1>4, <1>5, <1>6, <1>7, <1>8, <1>9, <1>10, <1>11,
       <1>12, <1>13, <1>14, <1>15, <1>16, <1>17, <1>18, <1>19, <1>20, <1>21
       DEF Next, OpenStep, DataStep

\* At the start nothing exists and nothing is mapped.
LEMMA MappingInit == Init => MappingInv
BY ProcAssumption DEF Init, MappingInv, Mapped, NewSegment

\* A name or a mapping is only ever given to a segment that exists, and a
\* header is only written through a mapping.
LEMMA MappingNext == TypeOK /\ MappingInv /\ [Next]_vars => MappingInv'
<1> SUFFICES ASSUME TypeOK, MappingInv, [Next]_vars
             PROVE  MappingInv'
    OBVIOUS
<1> USE ProcAssumption DEF TypeOK, MappingInv, Mapped, Goto, Labels, node,
        histories
<1>1. ASSUME NEW p \in Procs, Start(p)
      PROVE  MappingInv'
    BY <1>1 DEF Start
<1>2. ASSUME NEW p \in Procs, OpenExclusive(p)
      PROVE  MappingInv'
    <2>1. CASE name = 0
        <3>1. segs' = segs + 1 /\ name' = segs + 1 /\ seg' = seg
            BY <1>2, <2>1 DEF OpenExclusive
        <3>2. ring' = [ring EXCEPT ![p] = segs + 1]
            BY <1>2, <2>1 DEF OpenExclusive
        <3>3. pc' = [pc EXCEPT ![p] = "truncate"]
            BY <1>2, <2>1 DEF OpenExclusive
        <3> QED
            BY <3>1, <3>2, <3>3, SMT
    <2>2. CASE name # 0
        BY <1>2, <2>2 DEF OpenExclusive
    <2> QED
        BY <2>1, <2>2
<1>3. ASSUME NEW p \in Procs, Truncate(p)
      PROVE  MappingInv'
    BY <1>3 DEF Truncate, Segment
<1>4. ASSUME NEW p \in Procs, TruncateFails(p)
      PROVE  MappingInv'
    BY <1>4 DEF TruncateFails
<1>5. ASSUME NEW p \in Procs, Reopen(p)
      PROVE  MappingInv'
    BY <1>5 DEF Reopen
<1>6. ASSUME NEW p \in Procs, PollMagic(p)
      PROVE  MappingInv'
    BY <1>6 DEF PollMagic
<1>7. ASSUME NEW p \in Procs, PollFaults(p)
      PROVE  MappingInv'
    BY <1>7 DEF PollFaults
<1>8. ASSUME NEW p \in Procs, CheckOwner(p)
      PROVE  MappingInv'
    BY <1>8 DEF CheckOwner
<1>9. ASSUME NEW p \in Procs, Steal(p)
      PROVE  MappingInv'
    <2>1. UNCHANGED <<name, segs, ring>>
        BY <1>9 DEF Steal
    <2>2. \A s \in 1 .. MaxSegments : seg'[s].magic => seg[s].magic
        <3>1. CASE My(p).magic
            BY <1>9, <3>1 DEF Steal, My, Segment
        <3>2. CASE seg' = seg
            BY <3>2
        <3> QED
            BY <1>9, <3>1, <3>2 DEF Steal
    <2>3. \A q \in Procs : q # p => pc'[q] = pc[q]
        BY <1>9 DEF Steal
    <2>4. ring[p] # 0
        BY <1>9 DEF Steal
    <2> QED
        BY <2>1, <2>2, <2>3, <2>4
<1>10. ASSUME NEW p \in Procs, InitHead(p)
      PROVE  MappingInv'
    BY <1>10 DEF InitHead, Segment
<1>11. ASSUME NEW p \in Procs, InitTail(p)
      PROVE  MappingInv'
    BY <1>11 DEF InitTail, Segment
<1>12. ASSUME NEW p \in Procs, InitPid(p)
      PROVE  MappingInv'
    BY <1>12 DEF InitPid, Segment
<1>13. ASSUME NEW p \in Procs, InitMagic(p)
      PROVE  MappingInv'
    BY <1>13 DEF InitMagic, Segment
<1>14. ASSUME NEW p \in Procs, Retry(p)
      PROVE  MappingInv'
    BY <1>14 DEF Retry
<1>15. ASSUME NEW p \in Procs, PushBegin(p)
      PROVE  MappingInv'
    BY <1>15 DEF PushBegin
<1>16. ASSUME NEW p \in Procs, PushCommit(p)
      PROVE  MappingInv'
    BY <1>16 DEF PushCommit, Segment
<1>17. ASSUME NEW p \in Procs, PopBegin(p)
      PROVE  MappingInv'
    BY <1>17 DEF PopBegin
<1>18. ASSUME NEW p \in Procs, PopCommit(p)
      PROVE  MappingInv'
    BY <1>18 DEF PopCommit, Segment
<1>19. ASSUME NEW p \in Procs, RequestStop(p)
      PROVE  MappingInv'
    BY <1>19 DEF RequestStop, Gone
<1>20. ASSUME NEW p \in Procs, Crash(p)
      PROVE  MappingInv'
    BY <1>20 DEF Crash, Gone
<1>21. CASE UNCHANGED vars
    BY <1>21 DEF vars
<1> QED
    BY <1>1, <1>2, <1>3, <1>4, <1>5, <1>6, <1>7, <1>8, <1>9, <1>10, <1>11,
       <1>12, <1>13, <1>14, <1>15, <1>16, <1>17, <1>18, <1>19, <1>20, <1>21
       DEF Next, OpenStep, DataStep

-----------------------------------------------------------------------------
\* The size, the indices, the owner and the slots are stored without
\* touching what the invariants below are about: magic and geometry.
LEMMA QuietStores ==
    ASSUME TypeOK, MappingInv, NEW p \in Procs,
           \/ Truncate(p) \/ InitTail(p) \/ InitPid(p)
           \/ PushCommit(p) \/ PopCommit(p)
    PROVE  \A s \in 1 .. MaxSegments : /\ seg'[s].magic = seg[s].magic
                                       /\ seg'[s].geometry = seg[s].geometry
<1> USE DEF TypeOK, Segment
<1>1. CASE Truncate(p)
    BY <1>1 DEF Truncate
<1>2. CASE InitTail(p)
    BY <1>2 DEF InitTail
<1>3. CASE InitPid(p)
    BY <1>3 DEF InitPid
<1>4. CASE PushCommit(p)
    BY <1>4 DEF PushCommit
<1>5. CASE PopCommit(p)
    BY <1>5 DEF PopCommit
<1> QED
    BY <1>1, <1>2, <1>3, <1>4, <1>5

\* init_as_creator stores the geometry of the process that runs it, in its
\* own segment, which stays unpublished.
LEMMA GeometryStore ==
    ASSUME TypeOK, MappingInv, NEW p \in Procs, InitHead(p)
    PROVE  \A s \in 1 .. MaxSegments :
               /\ seg'[s].magic = seg[s].magic
               /\ seg'[s].geometry = IF s = ring[p] THEN Geometry[p]
                                                   ELSE seg[s].geometry
BY DEF TypeOK, Segment, InitHead

\* The end of init_as_creator sets magic in the segment it is mapped to and
\* writes nothing else.
LEMMA PublishStore ==
    ASSUME TypeOK, MappingInv, NEW p \in Procs, InitMagic(p)
    PROVE  /\ \A s \in 1 .. MaxSegments :
                /\ s # ring[p] => seg'[s].magic = seg[s].magic
                /\ seg'[s].geometry = seg[s].geometry
           /\ seg'[ring[p]].magic = TRUE
<1>1. ring[p] \in 1 .. MaxSegments
    BY MappedType DEF InitMagic, Mapped
<1> QED
    BY <1>1 DEF TypeOK, Segment, InitMagic

\* A claim that succeeds clears magic and writes nothing else.
LEMMA ClaimStore ==
    ASSUME TypeOK, MappingInv, NEW p \in Procs, Steal(p), My(p).magic
    PROVE  /\ \A s \in 1 .. MaxSegments :
                /\ s # ring[p] => seg'[s].magic = seg[s].magic
                /\ seg'[s].geometry = seg[s].geometry
           /\ seg'[ring[p]].magic = FALSE
<1>1. ring[p] \in 1 .. MaxSegments
    BY MappedType DEF Steal, Mapped
<1>2. seg' = [seg EXCEPT ![ring[p]].magic = FALSE]
    BY DEF Steal
<1> QED
    BY <1>1, <1>2 DEF TypeOK, Segment

-----------------------------------------------------------------------------
\* Nobody is initialising anything at the start.
LEMMA InitialiserInit == Init => OneInitialiser
BY DEF Init, OneInitialiser, Initialising

\* A process that initialises a segment has it mapped.
LEMMA InitialiserMapped ==
    ASSUME TypeOK, MappingInv, NEW p \in Procs, Initialising(p)
    PROVE  ring[p] \in 1 .. MaxSegments
BY MappedType DEF Initialising, Mapped

\* The create with O_EXCL and the claim on magic let in one process at a
\* time, and only the one let in publishes the segment.
LEMMA InitialiserNext ==
    TypeOK /\ MappingInv /\ OneInitialiser /\ [Next]_vars => OneInitialiser'
<1> SUFFICES ASSUME TypeOK, MappingInv, OneInitialiser, [Next]_vars
             PROVE  OneInitialiser'
    OBVIOUS
<1> USE InitialiserMapped
    DEF OneInitialiser, Initialising, My, Goto, node, histories
<1>a. pc \in [Procs -> Labels] /\ ring \in [Procs -> 0 .. MaxSegments]
    BY DEF TypeOK
<1>1. ASSUME NEW p \in Procs, Start(p)
      PROVE  OneInitialiser'
    BY <1>a, <1>1 DEF Start
<1>2. ASSUME NEW p \in Procs, OpenExclusive(p)
      PROVE  OneInitialiser'
    <2>1. CASE name = 0
        <3>1. segs + 1 \in 1 .. MaxSegments
            BY <1>2, <2>1, ProcAssumption DEF OpenExclusive, TypeOK
        <3>2. ~seg[segs + 1].magic
            BY <3>1 DEF MappingInv, TypeOK
        <3>3. \A q \in Procs : ring[q] # segs + 1
            BY DEF MappingInv, TypeOK
        <3>4. /\ pc' = [pc EXCEPT ![p] = "truncate"]
              /\ ring' = [ring EXCEPT ![p] = segs + 1]
              /\ seg' = seg
            BY <1>2, <2>1 DEF OpenExclusive
        <3> QED
            BY <1>a, <3>2, <3>3, <3>4
    <2>2. CASE name # 0
        BY <1>a, <1>2, <2>2 DEF OpenExclusive
    <2> QED
        BY <2>1, <2>2
<1>3. ASSUME NEW p \in Procs, Truncate(p)
      PROVE  OneInitialiser'
    BY <1>a, <1>3, QuietStores DEF Truncate
<1>4. ASSUME NEW p \in Procs, TruncateFails(p)
      PROVE  OneInitialiser'
    BY <1>a, <1>4 DEF TruncateFails
<1>5. ASSUME NEW p \in Procs, Reopen(p)
      PROVE  OneInitialiser'
    BY <1>a, <1>5 DEF Reopen
<1>6. ASSUME NEW p \in Procs, PollMagic(p)
      PROVE  OneInitialiser'
    BY <1>a, <1>6 DEF PollMagic
<1>7. ASSUME NEW p \in Procs, PollFaults(p)
      PROVE  OneInitialiser'
    BY <1>a, <1>7 DEF PollFaults
<1>8. ASSUME NEW p \in Procs, CheckOwner(p)
      PROVE  OneInitialiser'
    BY <1>a, <1>8 DEF CheckOwner
<1>9. ASSUME NEW p \in Procs, Steal(p)
      PROVE  OneInitialiser'
    <2>1. CASE My(p).magic
        <3>1. ring[p] \in 1 .. MaxSegments
            BY <1>9, MappedType DEF Steal, Mapped
        <3>2. ring' = ring /\ pc' = [pc EXCEPT ![p] = "init_head"]
            BY <1>9, <2>1 DEF Steal
        <3>3. /\ \A s \in 1 .. MaxSegments :
                    s # ring[p] => seg'[s].magic = seg[s].magic
              /\ seg'[ring[p]].magic = FALSE
            BY <1>9, <2>1, ClaimStore
        <3>4. \A q \in Procs : Initialising(q) => ring[q] # ring[p]
            BY <2>1
        <3> QED
            BY <1>a, <3>1, <3>2, <3>3, <3>4
    <2>2. CASE ~My(p).magic
        BY <1>a, <1>9, <2>2 DEF Steal
    <2> QED
        BY <2>1, <2>2
<1>10. ASSUME NEW p \in Procs, InitHead(p)
      PROVE  OneInitialiser'
    <2>1. \A s \in 1 .. MaxSegments : seg'[s].magic = seg[s].magic
        BY <1>10, GeometryStore
    <2> QED
        BY <1>a, <1>10, <2>1 DEF InitHead
<1>11. ASSUME NEW p \in Procs, InitTail(p)
      PROVE  OneInitialiser'
    BY <1>a, <1>11, QuietStores DEF InitTail
<1>12. ASSUME NEW p \in Procs, InitPid(p)
      PROVE  OneInitialiser'
    BY <1>a, <1>12, QuietStores DEF InitPid
<1>13. ASSUME NEW p \in Procs, InitMagic(p)
      PROVE  OneInitialiser'
    BY <1>a, <1>13, PublishStore DEF InitMagic
<1>14. ASSUME NEW p \in Procs, Retry(p)
      PROVE  OneInitialiser'
    BY <1>a, <1>14 DEF Retry
<1>15. ASSUME NEW p \in Procs, PushBegin(p)
      PROVE  OneInitialiser'
    BY <1>a, <1>15 DEF PushBegin
<1>16. ASSUME NEW p \in Procs, PushCommit(p)
      PROVE  OneInitialiser'
    BY <1>a, <1>16, QuietStores DEF PushCommit
<1>17. ASSUME NEW p \in Procs, PopBegin(p)
      PROVE  OneInitialiser'
    BY <1>a, <1>17 DEF PopBegin
<1>18. ASSUME NEW p \in Procs, PopCommit(p)
      PROVE  OneInitialiser'
    BY <1>a, <1>18, QuietStores DEF PopCommit
<1>19. ASSUME NEW p \in Procs, RequestStop(p)
      PROVE  OneInitialiser'
    BY <1>a, <1>19 DEF RequestStop, Gone
<1>20. ASSUME NEW p \in Procs, Crash(p)
      PROVE  OneInitialiser'
    BY <1>a, <1>20 DEF Crash, Gone
<1>21. CASE UNCHANGED vars
    BY <1>21 DEF vars
<1> QED
    BY <1>1, <1>2, <1>3, <1>4, <1>5, <1>6, <1>7, <1>8, <1>9, <1>10, <1>11,
       <1>12, <1>13, <1>14, <1>15, <1>16, <1>17, <1>18, <1>19, <1>20, <1>21
       DEF Next, OpenStep, DataStep

-----------------------------------------------------------------------------
\* Nobody has compared or written a header at the start.
LEMMA HeaderInit == Init => HeaderInv
BY DEF Init, HeaderInv, Knows

\* A process that has compared a header, or is about to write one, has it
\* mapped.
LEMMA HeaderMapped ==
    ASSUME TypeOK, MappingInv, NEW p \in Procs,
           Knows(p) \/ pc[p] \in {"truncate", "init_head", "poll"}
    PROVE  ring[p] \in 1 .. MaxSegments
BY MappedType DEF Knows, Mapped

\* The geometry in a header does not change under a process that has
\* compared it: the one process that may write the header either made the
\* segment, which nobody can have compared before it is published, or took
\* it over after comparing it too.
LEMMA HeaderNext ==
    TypeOK /\ MappingInv /\ OneInitialiser /\ HeaderInv /\ [Next]_vars
        => HeaderInv'
<1> SUFFICES ASSUME TypeOK, MappingInv, OneInitialiser, HeaderInv, [Next]_vars
             PROVE  HeaderInv'
    OBVIOUS
<1> USE HeaderMapped DEF HeaderInv, Knows, My, Goto, node, histories
<1>a. pc \in [Procs -> Labels] /\ ring \in [Procs -> 0 .. MaxSegments]
    BY DEF TypeOK
<1>1. ASSUME NEW p \in Procs, Start(p)
      PROVE  HeaderInv'
    BY <1>a, <1>1 DEF Start
<1>2. ASSUME NEW p \in Procs, OpenExclusive(p)
      PROVE  HeaderInv'
    <2>1. CASE name = 0
        <3>1. \A q \in Procs : ring[q] # segs + 1
            BY DEF MappingInv, TypeOK
        <3>2. /\ pc' = [pc EXCEPT ![p] = "truncate"]
              /\ ring' = [ring EXCEPT ![p] = segs + 1]
              /\ seg' = seg
            BY <1>2, <2>1 DEF OpenExclusive
        <3> QED
            BY <1>a, <3>1, <3>2
    <2>2. CASE name # 0
        BY <1>a, <1>2, <2>2 DEF OpenExclusive
    <2> QED
        BY <2>1, <2>2
<1>3. ASSUME NEW p \in Procs, Truncate(p)
      PROVE  HeaderInv'
    <2>1. \A s \in 1 .. MaxSegments : seg'[s].geometry = seg[s].geometry
        BY <1>3, QuietStores
    <2> QED
        BY <1>a, <1>3, <2>1 DEF Truncate
<1>4. ASSUME NEW p \in Procs, TruncateFails(p)
      PROVE  HeaderInv'
    BY <1>a, <1>4 DEF TruncateFails
<1>5. ASSUME NEW p \in Procs, Reopen(p)
      PROVE  HeaderInv'
    BY <1>a, <1>5 DEF Reopen
<1>6. ASSUME NEW p \in Procs, PollMagic(p)
      PROVE  HeaderInv'
    <2>1. UNCHANGED <<ring, seg>>
        BY <1>6 DEF PollMagic
    <2>2. CASE My(p).magic /\ Compatible(p)
        <3>1. pc' = [pc EXCEPT ![p] = "check_owner"]
            BY <1>6, <2>2 DEF PollMagic
        <3>2. \A q \in Procs : pc[q] \in {"truncate", "init_head"}
                                    => ring[q] # ring[p]
            BY <2>2 DEF OneInitialiser, Initialising
        <3>3. My(p).geometry = Geometry[p]
            BY <2>2 DEF Compatible
        <3> QED
            BY <1>a, <2>1, <3>1, <3>2, <3>3
    <2>3. CASE ~(My(p).magic /\ Compatible(p))
        <3>1. pc' = [pc EXCEPT ![p] = "failed"]
            BY <1>6, <2>3 DEF PollMagic
        <3> QED
            BY <1>a, <2>1, <3>1
    <2> QED
        BY <2>2, <2>3
<1>7. ASSUME NEW p \in Procs, PollFaults(p)
      PROVE  HeaderInv'
    BY <1>a, <1>7 DEF PollFaults
<1>8. ASSUME NEW p \in Procs, CheckOwner(p)
      PROVE  HeaderInv'
    BY <1>a, <1>8 DEF CheckOwner
<1>9. ASSUME NEW p \in Procs, Steal(p)
      PROVE  HeaderInv'
    <2>1. CASE My(p).magic
        <3>1. ring' = ring /\ pc' = [pc EXCEPT ![p] = "init_head"]
            BY <1>9, <2>1 DEF Steal
        <3>2. \A s \in 1 .. MaxSegments : seg'[s].geometry = seg[s].geometry
            BY <1>9, <2>1, ClaimStore
        <3>3. My(p).geometry = Geometry[p]
            BY <1>9 DEF Steal
        <3> QED
            BY <1>a, <1>9, <3>1, <3>2, <3>3 DEF Steal
    <2>2. CASE ~My(p).magic
        BY <1>a, <1>9, <2>2 DEF Steal
    <2> QED
        BY <2>1, <2>2
<1>10. ASSUME NEW p \in Procs, InitHead(p)
      PROVE  HeaderInv'
    <2>1. ring[p] \in 1 .. MaxSegments
        BY <1>10 DEF InitHead
    <2>2. /\ \A s \in 1 .. MaxSegments :
                s # ring[p] => seg'[s].geometry = seg[s].geometry
          /\ seg'[ring[p]].geometry = Geometry[p]
        BY <1>10, <2>1, GeometryStore
    <2>3. ring' = ring /\ pc' = [pc EXCEPT ![p] = "init_tail"]
        BY <1>10 DEF InitHead
    <2>4. \A q \in Procs : Knows(q) /\ ring[q] = ring[p]
                                => Geometry[q] = Geometry[p]
        BY <1>10 DEF InitHead
    <2>5. \A q \in Procs : q # p /\ pc[q] \in {"truncate", "init_head"}
                                => ring[q] # ring[p]
        BY <1>10 DEF InitHead, OneInitialiser, Initialising
    <2> QED
        BY <1>a, <2>1, <2>2, <2>3, <2>4, <2>5
<1>11. ASSUME NEW p \in Procs, InitTail(p)
      PROVE  HeaderInv'
    <2>1. \A s \in 1 .. MaxSegments : seg'[s].geometry = seg[s].geometry
        BY <1>11, QuietStores
    <2> QED
        BY <1>a, <1>11, <2>1 DEF InitTail
<1>12. ASSUME NEW p \in Procs, InitPid(p)
      PROVE  HeaderInv'
    <2>1. \A s \in 1 .. MaxSegments : seg'[s].geometry = seg[s].geometry
        BY <1>12, QuietStores
    <2> QED
        BY <1>a, <1>12, <2>1 DEF InitPid
<1>13. ASSUME NEW p \in Procs, InitMagic(p)
      PROVE  HeaderInv'
    <2>1. \A s \in 1 .. MaxSegments : seg'[s].geometry = seg[s].geometry
        BY <1>13, PublishStore
    <2> QED
        BY <1>a, <1>13, <2>1 DEF InitMagic
<1>14. ASSUME NEW p \in Procs, Retry(p)
      PROVE  HeaderInv'
    BY <1>a, <1>14 DEF Retry
<1>15. ASSUME NEW p \in Procs, PushBegin(p)
      PROVE  HeaderInv'
    BY <1>a, <1>15 DEF PushBegin
<1>16. ASSUME NEW p \in Procs, PushCommit(p)
      PROVE  HeaderInv'
    <2>1. \A s \in 1 .. MaxSegments : seg'[s].geometry = seg[s].geometry
        BY <1>16, QuietStores
    <2> QED
        BY <1>a, <1>16, <2>1 DEF PushCommit
<1>17. ASSUME NEW p \in Procs, PopBegin(p)
      PROVE  HeaderInv'
    BY <1>a, <1>17 DEF PopBegin
<1>18. ASSUME NEW p \in Procs, PopCommit(p)
      PROVE  HeaderInv'
    <2>1. \A s \in 1 .. MaxSegments : seg'[s].geometry = seg[s].geometry
        BY <1>18, QuietStores
    <2> QED
        BY <1>a, <1>18, <2>1 DEF PopCommit
<1>19. ASSUME NEW p \in Procs, RequestStop(p)
      PROVE  HeaderInv'
    BY <1>a, <1>19 DEF RequestStop, Gone
<1>20. ASSUME NEW p \in Procs, Crash(p)
      PROVE  HeaderInv'
    BY <1>a, <1>20 DEF Crash, Gone
<1>21. CASE UNCHANGED vars
    BY <1>21 DEF vars
<1> QED
    BY <1>1, <1>2, <1>3, <1>4, <1>5, <1>6, <1>7, <1>8, <1>9, <1>10, <1>11,
       <1>12, <1>13, <1>14, <1>15, <1>16, <1>17, <1>18, <1>19, <1>20, <1>21
       DEF Next, OpenStep, DataStep

-----------------------------------------------------------------------------
\* The inductive invariant, for every process, restart, crash and takeover.
THEOREM Invariance == Spec => []IInv
<1>1. Init => IInv
    BY TypeInit, MappingInit, InitialiserInit, HeaderInit DEF IInv
<1>2. IInv /\ [Next]_vars => IInv'
    BY TypeNext, MappingNext, InitialiserNext, HeaderNext DEF IInv
<1> QED
    BY <1>1, <1>2, PTL DEF Spec

\* Type correctness: the indices a push or a pop loads stay inside the ring
\* whatever a takeover does to the header in between.
THEOREM TypeCorrect == Spec => []TypeOK
<1>1. IInv => TypeOK
    BY DEF IInv
<1> QED
    BY <1>1, Invariance, PTL

\* O_EXCL and the claim on magic let one process at a time write a header,
\* and only while the segment is unpublished.
THEOREM OneInitialiserHolds == Spec => []OneInitialiser
<1>1. IInv => OneInitialiser
    BY DEF IInv
<1> QED
    BY <1>1, Invariance, PTL

\* Processes using one ring agree with each other and with its header on
\* slot size and capacity.
THEOREM GeometryAgreesHolds == Spec => []GeometryAgrees
<1>1. IInv => GeometryAgrees
    <2> SUFFICES ASSUME HeaderInv, NEW p \in Procs, NEW q \in Procs,
                        Attached(p), Attached(q), ring[p] = ring[q]
                 PROVE  /\ Geometry[p] = Geometry[q]
                        /\ My(p).geometry = Geometry[p]
        BY DEF IInv, GeometryAgrees
    <2>1. Knows(p) /\ Knows(q)
        BY DEF Attached, Knows
    <2> QED
        BY <2>1 DEF HeaderInv, My
<1> QED
    BY <1>1, Invariance, PTL
=============================================================================
