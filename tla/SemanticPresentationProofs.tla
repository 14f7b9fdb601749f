----------------------- MODULE SemanticPresentationProofs -----------------------
(***************************************************************************)
(* The inductive invariants of the presentation lane, the steps of the     *)
(* presenter, the collector, the lifecycle and the worker that keep them,  *)
(* and the theorems they carry, for every capacity and limit: LaneInv, the *)
(* order of the work; OwnInv, who owns what; FenceInv, the fences of       *)
(* compiled work; and RoomInv, the room in the deferred list.              *)
(***************************************************************************)
EXTENDS SemanticPresentation, TLAPS, WellFoundedInduction, FiniteSetTheorems

----------------------------------------------------------------------------
(* The shape of what the proofs speak of.                                    *)
WorkerShape ==
  [pc : {"idle", "compile", "poll", "clean", "failed", "pend"},
   slot : {0} \cup Batches, ret : SUBSET Objects, next : {"idle", "failed", "pend"}]
PresenterShape ==
  [pc : {"idle", "drain", "reap", "reaping", "choose", "select", "compose",
         "authorize", "swap", "clean"},
   kind : {"drain", "next", "hold"}, slot : {0} \cup Batches,
   phase : 0..(PhaseLimit + 1), ret : {presenter.ret},
   next : {"idle", "drain", "choose"}, compile : {presenter.compile}]

Shaped ==
  /\ epoch \in 1..EpochLimit /\ open \in BOOLEAN /\ owned \in BOOLEAN
  /\ seq \in 0..SeqLimit /\ scene \in Scenes \cup {0} /\ blocked \in BOOLEAN
  /\ draft \in [st : {"none", "building", "sealed"}, work : Works \cup {NoWork}]
  /\ fifo \in Seq(Works)
  /\ batch \in [Batches -> BatchRecord]
  /\ workBatch \in {0} \cup Batches /\ retained \in {0} \cup Batches
  /\ worker \in WorkerShape /\ presenter \in PresenterShape
  /\ applied \in Works \cup {NoWork}
  /\ shown \in [work : Works \cup {NoWork}, num : Nat, den : Nat \ {0}]

Going(place) == worker.pc = place \/ (worker.pc = "clean" /\ worker.next = place)

WorkStates == {"compiling", "checking", "waiting", "finalizing"}
WorkerPlaced ==
  /\ worker.pc = "compile" =>
       worker.slot = workBatch /\ workBatch # 0 /\ batch[workBatch].st = "compiling"
  /\ worker.pc = "poll" =>
       worker.slot = workBatch /\ workBatch # 0 /\ batch[workBatch].st = "checking"
  /\ Going("failed") \/ Going("pend") =>
       worker.slot = workBatch /\ workBatch # 0 /\ batch[workBatch].st = "finalizing"
  /\ Going("idle") => workBatch = 0 \/ batch[workBatch].st = "waiting"
  /\ \A b \in Batches : batch[b].st \in WorkStates => b = workBatch

Showing == {"select", "compose", "authorize", "swap"}
AtSlot == {"reaping"} \cup Showing
SlotState(pc) ==
  CASE pc = "reaping" -> "reaping" [] pc = "select" -> "selecting"
    [] pc = "compose" -> "composing" [] pc = "authorize" -> "composed"
    [] OTHER -> "swapping"

KeptStates ==
  {"completion", "reaping", "retained", "selecting", "composing", "composed", "swapping"}
PresenterPlaced ==
  /\ presenter.pc \in AtSlot =>
       presenter.slot # 0 /\ batch[presenter.slot].st = SlotState(presenter.pc)
  /\ presenter.pc \in Showing /\ ~Hold => presenter.slot # retained
  /\ presenter.pc \in Showing /\ Hold =>
       presenter.slot = retained \/ ~IsCurrent(batch[presenter.slot].work)
  /\ retained # 0 =>
       /\ batch[retained].st \in KeptStates
       /\ IsCurrent(batch[retained].work)

Here(b) == batch[b].st # "free" /\ batch[b].work.epoch = epoch

BatchesOccupied ==
  \A b \in Batches : batch[b].st # "free" =>
    /\ batch[b].work \in Works /\ batch[b].work.epoch <= epoch
    /\ batch[b].work.epoch = epoch => IsCurrent(batch[b].work)

FifoInOrder ==
  /\ Len(fifo) <= seq
  /\ \A i \in DOMAIN fifo : IsCurrent(fifo[i]) /\ fifo[i].seq = seq - Len(fifo) + i

AtTheEnd == Terminal => seq = 0 /\ ~open /\ ~blocked

Uncompiled(b) == batch[b].st \in {"compiling", "checking", "waiting"}
BeforeAck(b) == Uncompiled(b) \/ (batch[b].st = "finalizing" /\ Going("failed"))

HeadAtWork ==
  \A b \in Batches : Here(b) =>
    /\ BeforeAck(b) => fifo # <<>> /\ Head(fifo) = batch[b].work
    /\ Uncompiled(b) => ~blocked
    /\ batch[b].st \in {"checking", "waiting"} => applied = batch[b].work

AppliedInOrder ==
  /\ applied.epoch <= epoch
  /\ applied.epoch < epoch => acked = 0
  /\ applied.epoch = epoch => applied.seq \in {acked, acked + 1} /\ applied.seq <= seq
  /\ applied.epoch = epoch /\ applied.seq = acked + 1 =>
       \/ blocked
       \/ workBatch # 0 /\ Here(workBatch) /\ batch[workBatch].st \in {"checking", "waiting"}
  /\ worker.pc = "compile" =>
       LET w == batch[worker.slot].work
       IN IF w.epoch = applied.epoch THEN w.seq = applied.seq + 1
          ELSE w.epoch > applied.epoch /\ w.seq = 1

ShownStates == {"pending", "selecting", "composing", "composed", "swapping",
                "completion", "reaping", "retained"}
Leaving(b) == batch[b].st = "finalizing" /\ Going("pend")
AfterAck(b) == batch[b].st \in ShownStates \/ Leaving(b)

AckedInOrder ==
  /\ \A b \in Batches : Here(b) /\ AfterAck(b) => batch[b].work.seq <= acked
  /\ \A b \in Batches : Here(b) /\ Leaving(b) => batch[b].work.seq = acked
  /\ \A b, c \in Batches :
       b # c /\ Here(b) /\ Here(c) /\ AfterAck(b) /\ AfterAck(c) =>
         batch[b].work.seq # batch[c].work.seq

ShownAcked ==
  /\ shown.work.epoch <= epoch
  /\ shown.work.epoch = epoch => shown.work.seq <= acked

Chosen(b) ==
  b = presenter.slot /\ ~Hold /\ presenter.pc \in {"select", "compose", "authorize"}
Unshown(b) == batch[b].st = "pending" \/ Leaving(b) \/ Chosen(b)

UnshownInOrder ==
  /\ \A b \in Batches : Here(b) /\ Unshown(b) /\ shown.work.epoch = epoch =>
       shown.work.seq < batch[b].work.seq
  /\ \A b, c \in Batches :
       b # c /\ Here(b) /\ Here(c) /\ Chosen(b) /\ Unshown(c) =>
         batch[b].work.seq < batch[c].work.seq

PhasesInOrder ==
  LET slot == presenter.slot
      p == presenter.phase
      n == batch[slot].count
      current == IsCurrent(batch[slot].work)
  IN /\ shown.num \in 1..shown.den
     /\ presenter.pc = "select" /\ ~Hold /\ current /\ n # 0 => retained # 0
     /\ presenter.pc \in {"compose", "authorize", "swap"} /\ current /\ p < n =>
          1 <= p /\ (Hold /\ presenter.pc # "swap" => batch[slot].index <= p)
     /\ presenter.pc = "swap" /\ current =>
          /\ shown.work = batch[slot].work
          /\ p < n => shown.num = p /\ shown.den = n
     /\ presenter.pc = "swap" /\ ~current => retained = 0
     /\ retained # 0 /\ presenter.pc # "swap" =>
          /\ shown.work = batch[retained].work
          /\ batch[retained].index < batch[retained].count =>
               /\ shown.num = batch[retained].index /\ 1 <= batch[retained].index
               /\ shown.den = batch[retained].count

LaneInv ==
  /\ Shaped /\ WorkerPlaced /\ PresenterPlaced /\ BatchesOccupied
  /\ FifoInOrder /\ AtTheEnd /\ HeadAtWork /\ AppliedInOrder
  /\ AckedInOrder /\ ShownAcked /\ UnshownInOrder /\ PhasesInOrder

LEMMA LaneInit == Init => LaneInv
<1> SUFFICES ASSUME Init PROVE LaneInv
  OBVIOUS
<1> USE LaneAssumption
<1>1. NoWork.epoch = 0 /\ FreeBatch.st = "free" /\ FreeBatch \in BatchRecord
  BY DEF NoWork, FreeBatch, BatchRecord, BatchStates
<1>2. Shaped
  <2>1. worker \in WorkerShape /\ presenter \in PresenterShape
    BY DEF Init, WorkerShape, PresenterShape, IdleWorker, IdlePresenter
  <2>2. fifo \in Seq(Works) /\ batch \in [Batches -> BatchRecord]
    BY <1>1 DEF Init
  <2>3. /\ draft \in [st : {"none", "building", "sealed"}, work : Works \cup {NoWork}]
        /\ shown \in [work : Works \cup {NoWork}, num : Nat, den : Nat \ {0}]
    BY DEF Init
  <2>4. epoch \in 1..EpochLimit /\ seq \in 0..SeqLimit
    BY DEF Init
  <2> QED
    BY <2>1, <2>2, <2>3, <2>4 DEF Init, Shaped
<1>3. WorkerPlaced /\ PresenterPlaced
  BY <1>1 DEF Init, WorkerPlaced, PresenterPlaced, WorkStates, Going, IdleWorker, IdlePresenter,
     Showing, AtSlot
<1>4. \A b \in Batches : batch[b].st = "free"
  BY <1>1 DEF Init
<1>5. /\ BatchesOccupied /\ HeadAtWork /\ UnshownInOrder
      /\ AtTheEnd /\ FifoInOrder /\ AppliedInOrder
  <2>1. Len(<<>>) = 0 /\ DOMAIN <<>> = {}
    OBVIOUS
  <2>2. BatchesOccupied /\ HeadAtWork /\ UnshownInOrder
    BY <1>4 DEF BatchesOccupied, HeadAtWork, UnshownInOrder, Here
  <2>3. AtTheEnd /\ FifoInOrder
    BY <2>1 DEF Init, AtTheEnd, FifoInOrder, Terminal
  <2>4. worker.pc = "idle"
    BY DEF Init, IdleWorker
  <2>5. applied.epoch = 0 /\ seq = 0
    BY <1>1 DEF Init
  <2>6. Len(fifo) = 0
    BY <2>1 DEF Init
  <2>7. acked = 0
    BY <2>5, <2>6 DEF acked
  <2>8. AppliedInOrder
    BY <2>4, <2>5, <2>7 DEF Init, AppliedInOrder
  <2> QED
    BY <2>2, <2>3, <2>8
<1>6. AckedInOrder /\ ShownAcked
  BY <1>1, <1>4 DEF Init, AckedInOrder, ShownAcked, Here
<1>7. PhasesInOrder
  BY DEF Init, PhasesInOrder, IdlePresenter
<1> QED
  BY <1>2, <1>3, <1>5, <1>6, <1>7 DEF LaneInv

----------------------------------------------------------------------------
(* Facts about the shape that every case below needs.                        *)
LEMMA Records ==
  /\ NoWork \notin Works /\ NoWork.epoch = 0
  /\ FreeBatch \in BatchRecord /\ FreeBatch.st = "free" /\ FreeBatch.has = {}
  /\ IdleWorker \in WorkerShape /\ IdleWorker.pc = "idle" /\ IdleWorker.slot = 0
  /\ IdleWorker.next = "idle"
  /\ \A w \in Works : w.epoch \in 1..EpochLimit /\ w.seq \in 1..SeqLimit /\ w.scene \in Scenes
BY LaneAssumption DEF NoWork, Works, FreeBatch, BatchRecord, BatchStates, IdleWorker,
   WorkerShape

(* The batch of the worker while it is in, or after, a callback.             *)
LEMMA WorkerBatch ==
  ASSUME LaneInv, worker.pc \in {"compile", "poll", "failed", "pend"}
  PROVE  /\ worker.slot \in Batches /\ worker.slot = workBatch
         /\ batch[worker.slot] \in BatchRecord
         /\ batch[worker.slot].st =
              CASE worker.pc = "compile" -> "compiling" [] worker.pc = "poll" -> "checking"
                [] OTHER -> "finalizing"
         /\ batch[worker.slot].work \in Works
         /\ Of(batch[worker.slot].work, batch[worker.slot].has) \in SUBSET Objects
<1>1. worker.slot \in Batches /\ worker.slot = workBatch
  BY DEF LaneInv, Shaped, WorkerPlaced, Going, WorkerShape
<1>2. batch[worker.slot].st =
        CASE worker.pc = "compile" -> "compiling" [] worker.pc = "poll" -> "checking"
          [] OTHER -> "finalizing"
  BY <1>1 DEF LaneInv, WorkerPlaced, Going
<1>3. batch[worker.slot] \in BatchRecord
  BY <1>1 DEF LaneInv, Shaped
<1>4. batch[worker.slot].work \in Works
  BY <1>1, <1>2 DEF LaneInv, BatchesOccupied
<1>5. Of(batch[worker.slot].work, batch[worker.slot].has) \in SUBSET Objects
  BY <1>3, <1>4 DEF Of, Objects, BatchRecord
<1> QED
  BY <1>1, <1>2, <1>3, <1>4, <1>5

(* The batch of the presenter while it is in a callback.                     *)
LEMMA PresenterBatch ==
  ASSUME LaneInv, presenter.pc \in AtSlot
  PROVE  /\ presenter.slot \in Batches
         /\ batch[presenter.slot] \in BatchRecord
         /\ batch[presenter.slot].st = SlotState(presenter.pc)
         /\ batch[presenter.slot].work \in Works
<1>1. presenter.slot \in Batches /\ batch[presenter.slot].st = SlotState(presenter.pc)
  BY DEF LaneInv, Shaped, PresenterPlaced, PresenterShape
<1>2. batch[presenter.slot] \in BatchRecord
  BY <1>1 DEF LaneInv, Shaped
<1>3. batch[presenter.slot].work \in Works
  BY <1>1 DEF LaneInv, BatchesOccupied, SlotState, AtSlot, Showing
<1> QED
  BY <1>1, <1>2, <1>3


(* Where the two threads go.                                                 *)
LEMMA WorkerGoes ==
  ASSUME NEW ret \in SUBSET Objects, NEW b \in {0} \cup Batches,
         NEW next \in {"idle", "failed", "pend"}, WorkerCleans(ret, b, next)
  PROVE  /\ worker' \in WorkerShape
         /\ \/ worker'.pc = "idle" /\ next = "idle"
            \/ worker'.pc = "clean" /\ worker'.next = next /\ worker'.slot = b
BY DEF WorkerCleans, WorkerShape, IdleWorker

LEMMA WorkerIsAt ==
  ASSUME NEW b \in {0} \cup Batches, NEW pc \in {"idle", "compile", "poll"}, WorkerTo(pc, b)
  PROVE  worker' \in WorkerShape /\ worker'.pc = pc /\ worker'.slot = b /\ worker'.next = "idle"
BY DEF WorkerTo, WorkerShape, IdleWorker

LEMMA PresenterGoes ==
  ASSUME presenter \in PresenterShape, NEW ret,
         NEW next \in {"idle", "drain", "choose"}, PresenterCleans(ret, next)
  PROVE  /\ presenter' \in PresenterShape'
         /\ presenter'.pc \in {"clean", next}
<1> USE LaneAssumption DEF PresenterCleans, PresenterShape
<1>1. CASE ret # {}
  BY <1>1
<1>2. CASE ret = {} /\ next = "idle"
  BY <1>2 DEF IdlePresenter
<1>3. CASE ret = {} /\ next # "idle"
  BY <1>3
<1> QED
  BY <1>1, <1>2, <1>3

LEMMA PresenterStays ==
  ASSUME presenter \in PresenterShape, UNCHANGED presenter
  PROVE  presenter' \in PresenterShape'
BY DEF PresenterShape

LEMMA PresenterIsAt ==
  ASSUME presenter \in PresenterShape,
         \/ PresenterDone
         \/ \E pc \in {"idle", "drain", "reap", "choose", "authorize", "swap"} : PresenterTo(pc)
  PROVE  presenter' \in PresenterShape'
BY LaneAssumption DEF PresenterDone, PresenterTo, PresenterShape, IdlePresenter

----------------------------------------------------------------------------
(* The lane keeps its shape.                                                 *)
LEMMA CollectorShaped == ASSUME LaneInv, Collector PROVE Shaped'
<1> USE DEF LaneInv, Shaped, lane, timeline, handles, history
<1>1. CASE \E s \in Scenes : DraftBegin(s)
  <2> PICK s \in Scenes : DraftBegin(s)
    BY <1>1
  <2>1. [epoch |-> epoch, seq |-> seq + 1, scene |-> s] \in Works
    BY LaneAssumption DEF DraftBegin, Works
  <2> QED
    BY <2>1 DEF DraftBegin, PresenterShape
<1>2. CASE DraftSeal \/ DraftCancel \/ PublishRefused
  BY <1>2 DEF DraftSeal, DraftCancel, PublishRefused, DraftDrop, PresenterShape
<1>3. CASE SourceQueuePublish
  <2>1. draft.work \in Works
    BY <1>3 DEF SourceQueuePublish, Admissible, NoWork, Works
  <2> QED
    BY <1>3, <2>1, Records, LaneAssumption DEF SourceQueuePublish, PresenterShape
<1> QED
  BY <1>1, <1>2, <1>3 DEF Collector

LEMMA LifecycleShaped == ASSUME LaneInv, Lifecycle PROVE Shaped'
<1>0. Shaped
  BY DEF LaneInv
<1> USE <1>0 DEF Shaped
<1>1. CASE ClaimOpen
  BY <1>1 DEF ClaimOpen, handles, history, PresenterShape
<1>2. CASE LogicalInvalidate /\ open' \in BOOLEAN
  <2>1. batch' \in [Batches -> BatchRecord]
    BY <1>2, Records DEF LogicalInvalidate
  <2>2. /\ epoch' = (IF Terminal THEN epoch ELSE epoch + 1)
        /\ seq' = 0 /\ scene' = 0 /\ blocked' = FALSE /\ fifo' = <<>> /\ retained' = 0
        /\ workBatch' \in {workBatch, 0}
    BY <1>2 DEF LogicalInvalidate
  <2>5. epoch' \in 1..EpochLimit /\ 0 \in 0..SeqLimit
    BY <2>2, LaneAssumption DEF Terminal
  <2>3. draft' \in [st : {"none", "building", "sealed"}, work : Works \cup {NoWork}]
    BY <1>2 DEF LogicalInvalidate
  <2>4. UNCHANGED <<owned, worker, presenter, history>>
    BY <1>2 DEF LogicalInvalidate
  <2>6. presenter' \in PresenterShape'
    BY <2>4, PresenterStays
  <2>7. owned' \in BOOLEAN /\ worker' \in WorkerShape
    BY <2>4
  <2>8. applied' \in Works \cup {NoWork} /\ shown' = shown
    BY <2>4 DEF history
  <2>9. fifo' \in Seq(Works) /\ retained' \in {0} \cup Batches /\ workBatch' \in {0} \cup Batches
    BY <2>2
  <2>10. epoch' \in 1..EpochLimit /\ seq' \in 0..SeqLimit /\ scene' \in Scenes \cup {0} /\ blocked' \in BOOLEAN
    BY <2>2, <2>5
  <2> QED
    BY <1>2, <2>1, <2>3, <2>5, <2>6, <2>7, <2>8, <2>9, <2>10
<1>3. (LogicalInvalidate /\ open' \in BOOLEAN) \/ ClaimOpen
  BY DEF Lifecycle, LifecycleClose, PresentationReset, TimelineInvalidate
<1> QED
  BY <1>1, <1>2, <1>3


LEMMA WorkerKeepsShape ==
  ASSUME LaneInv,
         UNCHANGED <<epoch, open, owned, seq, scene, draft, retained, presenter, shown>>,
         fifo' \in Seq(Works), blocked' \in BOOLEAN, batch' \in [Batches -> BatchRecord],
         workBatch' \in {0} \cup Batches, worker' \in WorkerShape,
         applied' \in Works \cup {NoWork}
  PROVE  Shaped'
<1>1. Shaped
  BY DEF LaneInv
<1>2. presenter' \in PresenterShape'
  BY <1>1, PresenterStays DEF Shaped
<1> QED
  BY <1>1, <1>2 DEF Shaped

LEMMA PresenterKeepsShape ==
  ASSUME LaneInv, UNCHANGED <<timeline, draft, fifo, workBatch, worker, applied>>,
         batch' \in [Batches -> BatchRecord], retained' \in {0} \cup Batches,
         presenter' \in PresenterShape',
         shown' \in [work : Works \cup {NoWork}, num : Nat, den : Nat \ {0}]
  PROVE  Shaped'
<1>1. Shaped
  BY DEF LaneInv
<1> QED
  BY <1>1 DEF Shaped, timeline

----------------------------------------------------------------------------
(* Choices among the batches.                                                *)
LEMMA Least ==
  ASSUME NEW S \in SUBSET Nat, S # {}
  PROVE  \E n \in S : \A m \in S : n <= m
<1>1. PICK n \in S : \A m \in S : ~ (<<m, n>> \in OpToRel(<, Nat))
  BY WFMin, NatLessThanWellFounded, Zenon
<1>2. \A m \in S : ~(m < n)
  BY <1>1, Zenon DEF OpToRel
<1> QED
  BY <1>2

LEMMA FirstBatch ==
  ASSUME NEW S \in SUBSET Batches, S # {}
  PROVE  (CHOOSE c \in S : \A o \in S : c <= o) \in S
<1>1. \E c \in S : \A o \in S : c <= o
  BY Least, LaneAssumption DEF Batches
<1> QED
  BY <1>1

LEMMA OldestIsPending ==
  ASSUME NEW bs \in [Batches -> BatchRecord],
         \A b \in Batches : bs[b].st = "pending" => bs[b].work \in Works
  PROVE  \/ OldestPending(bs) = 0
         \/ /\ OldestPending(bs) \in Batches /\ bs[OldestPending(bs)].st = "pending"
            /\ \A c \in Batches : bs[c].st = "pending" =>
                 bs[OldestPending(bs)].work.seq <= bs[c].work.seq
<1> DEFINE ready == {b \in Batches : bs[b].st = "pending"}
           seqs == {bs[b].work.seq : b \in ready}
<1>1. CASE ready = {}
  BY <1>1 DEF OldestPending
<1>2. CASE ready # {}
  <2>1. seqs \in SUBSET Nat /\ seqs # {}
    BY <1>2, Records
  <2>2. PICK n \in seqs : \A m \in seqs : n <= m
    BY <2>1, Least
  <2>3. \E b \in ready : \A o \in ready : bs[b].work.seq <= bs[o].work.seq
    BY <2>2
  <2>4. OldestPending(bs) = CHOOSE b \in ready : \A o \in ready : bs[b].work.seq <= bs[o].work.seq
    BY <1>2 DEF OldestPending
  <2> QED
    BY <2>3, <2>4
<1> QED
  BY <1>1, <1>2

----------------------------------------------------------------------------
(* What the presenter does to the batches: those in work it leaves alone,    *)
(* and the others keep their work until they are free.                       *)
WorkLeftAlone ==
  \A b \in Batches :
    /\ batch[b].st \in WorkStates \/ batch'[b].st \in WorkStates => batch'[b] = batch[b]
    /\ batch'[b].st # "free" => batch[b].st # "free" /\ batch'[b].work = batch[b].work

PresenterFrame ==
  /\ Shaped' /\ WorkLeftAlone
  /\ UNCHANGED <<timeline, draft, fifo, workBatch, worker, applied>>

LEMMA OneBatch ==
  ASSUME batch \in [Batches -> BatchRecord], NEW b \in Batches, NEW r \in BatchRecord,
         batch' = [batch EXCEPT ![b] = r], batch[b].st \notin WorkStates,
         r.st \notin WorkStates, r.st # "free" => r.work = batch[b].work /\ batch[b].st # "free"
  PROVE  WorkLeftAlone /\ batch' \in [Batches -> BatchRecord]
BY DEF WorkLeftAlone

LEMMA NoBatch ==
  ASSUME batch \in [Batches -> BatchRecord], UNCHANGED batch
  PROVE  WorkLeftAlone /\ batch' \in [Batches -> BatchRecord]
BY DEF WorkLeftAlone

LEMMA PresenterWaits ==
  ASSUME LaneInv,
         \/ \E kind \in {"drain", "next", "hold"} : PresenterStart(kind)
         \/ PresenterDrain \/ PresenterRetires
  PROVE  /\ PresenterFrame /\ UNCHANGED <<batch, retained, shown>>
         /\ presenter'.pc \notin AtSlot
<1>1. presenter \in PresenterShape /\ batch \in [Batches -> BatchRecord]
  BY DEF LaneInv, Shaped
<1>2. UNCHANGED <<timeline, draft, fifo, batch, workBatch, retained, worker, applied, shown>>
  BY DEF PresenterStart, PresenterDrain, PresenterRetires, handles, history
<1>3. presenter' \in PresenterShape' /\ presenter'.pc \notin AtSlot
  <2> USE <1>1, LaneAssumption DEF AtSlot, Showing
  <2>1. CASE \E kind \in {"drain", "next", "hold"} : PresenterStart(kind)
    <3> PICK kind \in {"drain", "next", "hold"} : PresenterStart(kind)
      BY <2>1
    <3>1. presenter' = [pc |-> "drain", kind |-> kind, slot |-> 0, phase |-> 0, ret |-> {},
                        next |-> "idle", compile |-> FALSE]
      BY DEF PresenterStart, IdlePresenter
    <3> QED
      BY <3>1 DEF PresenterShape
  <2>2. CASE PresenterDrain
    <3>1. CASE deferred = <<>> /\ presenter.kind = "drain"
      BY <2>2, <3>1, PresenterIsAt DEF PresenterDrain, PresenterDone, IdlePresenter
    <3>2. CASE deferred = <<>> /\ presenter.kind # "drain"
      <4>1. PresenterTo("reap")
        BY <2>2, <3>2 DEF PresenterDrain
      <4> QED
        BY <4>1, PresenterIsAt DEF PresenterTo, PresenterShape
    <3>3. CASE deferred # <<>>
      <4>1. presenter' = [presenter EXCEPT !.pc = "clean", !.next = "drain",
               !.ret = Head(deferred), !.compile = IsCompileRetirement(Head(deferred))]
        BY <2>2, <3>3 DEF PresenterDrain
      <4> HIDE DEF IsCompileRetirement
      <4>2. \A ret, compile : presenter' = [presenter EXCEPT !.pc = "clean", !.next = "drain",
               !.ret = ret, !.compile = compile] => presenter' \in PresenterShape'
        BY DEF PresenterShape
      <4>3. presenter'.pc = "clean"
        BY <4>1 DEF PresenterShape
      <4> QED
        BY <4>1, <4>2, <4>3
    <3> QED
      BY <3>1, <3>2, <3>3
  <2>3. CASE PresenterRetires
    <3> DEFINE left == presenter.ret \cap live'
    <3>1. CASE left # {}
      <4>1. presenter' = [presenter EXCEPT !.ret = left] /\ presenter.pc = "clean"
        BY <2>3, <3>1 DEF PresenterRetires, RetireBackend, RetireCommit
      <4> QED
        BY <4>1 DEF PresenterShape
    <3>2. CASE left = {} /\ presenter.next = "idle"
      <4>1. PresenterDone
        BY <2>3, <3>2 DEF PresenterRetires, PresenterDone
      <4> QED
        BY <4>1, PresenterIsAt DEF PresenterDone, IdlePresenter
    <3>3. CASE left = {} /\ presenter.next # "idle"
      <4>1. presenter' = [presenter EXCEPT !.pc = presenter.next, !.ret = {}, !.compile = FALSE]
        BY <2>3, <3>3 DEF PresenterRetires
      <4> QED
        BY <4>1, <3>3 DEF PresenterShape
    <3> QED
      BY <3>1, <3>2, <3>3
  <2> QED
    BY <2>1, <2>2, <2>3
<1>4. WorkLeftAlone /\ batch' \in [Batches -> BatchRecord]
  BY <1>1, <1>2, NoBatch
<1>5. Shaped'
  BY <1>2, <1>3, <1>4, PresenterKeepsShape DEF LaneInv, Shaped
<1> QED
  BY <1>2, <1>3, <1>4, <1>5 DEF PresenterFrame


(* Whatever is not shown yet, or queued, does not depend on the presenter.   *)
LEMMA PresenterKeepsWork ==
  ASSUME LaneInv, PresenterFrame
  PROVE  /\ WorkerPlaced' /\ BatchesOccupied' /\ FifoInOrder' /\ AtTheEnd' /\ HeadAtWork'
         /\ AppliedInOrder' /\ AckedInOrder'
<1>1. /\ \A b \in Batches : batch[b] \in BatchRecord /\ batch'[b] \in BatchRecord
      /\ \A b \in Batches : batch'[b].st \in BatchStates
      /\ WorkLeftAlone
      /\ worker \in WorkerShape /\ workBatch \in {0} \cup Batches
  BY DEF LaneInv, Shaped, PresenterFrame, BatchRecord
<1>2. /\ epoch' = epoch /\ open' = open /\ seq' = seq /\ scene' = scene /\ blocked' = blocked
      /\ fifo' = fifo /\ workBatch' = workBatch /\ worker' = worker /\ applied' = applied
  BY DEF PresenterFrame, timeline
<1>3. WorkerPlaced'
  <2>1. WorkerPlaced
    BY DEF LaneInv
  <2>2. \A b \in Batches : batch'[b].st \in WorkStates => batch'[b] = batch[b]
    BY <1>1 DEF WorkLeftAlone
  <2>3. workBatch # 0 /\ batch[workBatch].st \in WorkStates => batch'[workBatch] = batch[workBatch]
    BY <1>1 DEF WorkLeftAlone
  <2> QED
    BY <1>1, <1>2, <2>1, <2>2, <2>3 DEF WorkerPlaced, WorkStates, Going
<1>4. BatchesOccupied'
  BY <1>1, <1>2 DEF LaneInv, BatchesOccupied, WorkLeftAlone, IsCurrent, Terminal
<1>5. FifoInOrder' /\ AtTheEnd'
  BY <1>2 DEF LaneInv, FifoInOrder, AtTheEnd, IsCurrent, Terminal
<1>6. HeadAtWork'
  BY <1>1, <1>2
  DEF LaneInv, HeadAtWork, WorkLeftAlone, WorkStates, Here, BeforeAck, Uncompiled, Going
<1>7. AppliedInOrder'
  <2>1. workBatch # 0 /\ Here(workBatch) /\ batch[workBatch].st \in {"checking", "waiting"}
          => Here(workBatch)' /\ batch'[workBatch].st \in {"checking", "waiting"}
    BY <1>1, <1>2 DEF WorkLeftAlone, WorkStates, Here
  <2>2. worker.pc = "compile" => batch'[worker.slot] = batch[worker.slot]
    BY <1>1, WorkerBatch DEF WorkLeftAlone, WorkStates
  <2> QED
    BY <1>2, <2>1, <2>2 DEF LaneInv, AppliedInOrder, acked
<1>8. AckedInOrder'
  <2>1. \A b \in Batches : Here(b)' /\ AfterAck(b)' => /\ Here(b) /\ AfterAck(b)
                                                      /\ batch'[b].work = batch[b].work
    BY <1>1, <1>2
    DEF WorkLeftAlone, WorkStates, Here, AfterAck, Leaving, ShownStates, BatchStates, Going, BatchRecord
  <2>2. \A b \in Batches : Here(b)' /\ Leaving(b)' => Leaving(b)
    BY <1>1, <1>2 DEF WorkLeftAlone, WorkStates, Here, Leaving, Going
  <2>3. acked' = acked
    BY <1>2 DEF acked
  <2>4. AckedInOrder
    BY DEF LaneInv
  <2>5. \A b \in Batches : Here(b)' /\ AfterAck(b)' => batch'[b].work.seq <= acked'
    BY <2>1, <2>3, <2>4 DEF AckedInOrder
  <2>6. \A b \in Batches : Here(b)' /\ Leaving(b)' => batch'[b].work.seq = acked'
    BY <2>1, <2>2, <2>3, <2>4 DEF AckedInOrder, AfterAck
  <2>7. \A b, c \in Batches :
          b # c /\ Here(b)' /\ Here(c)' /\ AfterAck(b)' /\ AfterAck(c)' =>
            batch'[b].work.seq # batch'[c].work.seq
    BY <2>1, <2>4 DEF AckedInOrder
  <2> QED
    BY <2>5, <2>6, <2>7 DEF AckedInOrder
<1> QED
  BY <1>3, <1>4, <1>5, <1>6, <1>7, <1>8


(* The presenter is through with its batch, or keeps it for another time.    *)
LEMMA PresenterSettles ==
  ASSUME LaneInv, PresenterFrame, UNCHANGED <<retained, shown>>,
         presenter.pc # "swap", presenter'.pc \notin Showing,
         presenter'.pc = "reaping" =>
           presenter'.slot # 0 /\ batch'[presenter'.slot].st = "reaping",
         retained # 0 => /\ batch'[retained].st \in KeptStates
                         /\ batch'[retained].index = batch[retained].index
                         /\ batch'[retained].count = batch[retained].count,
         \A b \in Batches : batch'[b].st = "pending" => Unshown(b)
  PROVE  PresenterPlaced' /\ ShownAcked' /\ UnshownInOrder' /\ PhasesInOrder'
<1>1. /\ \A b \in Batches : batch[b] \in BatchRecord /\ batch'[b] \in BatchRecord
      /\ WorkLeftAlone
      /\ worker \in WorkerShape /\ retained \in {0} \cup Batches
  BY DEF LaneInv, Shaped, PresenterFrame
<1>2. /\ epoch' = epoch /\ seq' = seq /\ scene' = scene /\ fifo' = fifo /\ worker' = worker
      /\ retained' = retained /\ shown' = shown
  BY DEF PresenterFrame, timeline
<1>3. retained # 0 => batch'[retained].work = batch[retained].work
  BY <1>1 DEF WorkLeftAlone, KeptStates
<1>4. PresenterPlaced'
  <2>1. retained # 0 => IsCurrent(batch[retained].work)
    BY DEF LaneInv, PresenterPlaced
  <2>2. (retained # 0 => IsCurrent(batch[retained].work))'
    BY <1>2, <1>3, <2>1 DEF IsCurrent, Terminal
  <2>3. presenter'.pc \in AtSlot => presenter'.pc = "reaping"
    BY DEF AtSlot
  <2>4. (retained # 0 => batch[retained].st \in KeptStates)'
    BY <1>2
  <2> QED
    BY <2>2, <2>3, <2>4 DEF PresenterPlaced, SlotState
<1>5. ShownAcked'
  BY <1>2 DEF LaneInv, ShownAcked, acked
<1>6. UnshownInOrder'
  <2>1. \A b \in Batches : ~ Chosen(b)'
    BY DEF Chosen, Showing
  <2>2. \A b \in Batches : Here(b)' /\ Unshown(b)' =>
          Here(b) /\ Unshown(b) /\ batch'[b].work = batch[b].work
    BY <1>1, <1>2, <2>1 DEF Unshown, Leaving, Going, WorkLeftAlone, WorkStates, Here
  <2> QED
    BY <1>2, <2>1, <2>2 DEF LaneInv, UnshownInOrder
<1>7. PhasesInOrder'
  <2>1. PhasesInOrder
    BY DEF LaneInv
  <2>2. presenter'.pc \notin {"select", "compose", "authorize", "swap"}
    BY DEF Showing
  <2>3. shown.num \in 1..shown.den
    BY <2>1 DEF PhasesInOrder
  <2>4. retained # 0 =>
          /\ shown.work = batch[retained].work
          /\ batch[retained].index < batch[retained].count =>
               /\ shown.num = batch[retained].index /\ 1 <= batch[retained].index
               /\ shown.den = batch[retained].count
    BY <2>1 DEF PhasesInOrder
  <2>5. retained # 0 =>
          /\ shown.work = batch'[retained].work
          /\ batch'[retained].index < batch'[retained].count =>
               /\ shown.num = batch'[retained].index /\ 1 <= batch'[retained].index
               /\ shown.den = batch'[retained].count
    BY <1>3, <2>4
  <2> QED
    BY <1>2, <2>2, <2>3, <2>5 DEF PhasesInOrder
<1> QED
  BY <1>4, <1>5, <1>6, <1>7


(* One batch changes, and the presenter is through with it.                  *)
PresenterKeeps ==
  /\ PresenterFrame
  /\ PresenterPlaced' /\ ShownAcked' /\ UnshownInOrder' /\ PhasesInOrder'

LEMMA PresenterPutsBack ==
  ASSUME LaneInv, UNCHANGED <<timeline, draft, fifo, workBatch, retained, worker, applied, shown>>,
         presenter.pc # "swap", presenter' \in PresenterShape', presenter'.pc \notin AtSlot,
         NEW b \in Batches, NEW r \in BatchRecord, batch' = [batch EXCEPT ![b] = r],
         batch[b].st \in ShownStates,
         r.st \in {"free", "completion", "retained", "pending"},
         r.st # "free" => r.work = batch[b].work,
         b = retained => r.st \in KeptStates /\ r.index = batch[b].index
                         /\ r.count = batch[b].count,
         r.st = "pending" => Chosen(b)
  PROVE  PresenterKeeps
<1>1. /\ batch \in [Batches -> BatchRecord] /\ retained \in {0} \cup Batches
      /\ shown \in [work : Works \cup {NoWork}, num : Nat, den : Nat \ {0}]
  BY DEF LaneInv, Shaped
<1>2. WorkLeftAlone /\ batch' \in [Batches -> BatchRecord]
  BY <1>1, OneBatch DEF WorkStates, ShownStates
<1>3. Shaped'
  BY <1>1, <1>2, PresenterKeepsShape
<1>4. PresenterFrame
  BY <1>2, <1>3 DEF PresenterFrame
<1>5. retained # 0 => /\ batch'[retained].st \in KeptStates
                      /\ batch'[retained].index = batch[retained].index
                      /\ batch'[retained].count = batch[retained].count
  BY <1>1 DEF LaneInv, PresenterPlaced
<1>6. \A c \in Batches : batch'[c].st = "pending" => Unshown(c)
  BY <1>1 DEF Unshown
<1>7. presenter'.pc \notin Showing /\ presenter'.pc # "reaping"
  BY DEF AtSlot
<1> QED
  BY <1>4, <1>5, <1>6, <1>7, PresenterSettles DEF PresenterKeeps

LEMMA PresenterGivesUp ==
  ASSUME LaneInv, presenter.pc \in {"select", "compose", "authorize"},
         NEW extra, PresenterStale(extra),
         UNCHANGED <<timeline, draft, fifo, workBatch, retained, worker, applied>>
  PROVE  PresenterKeeps
<1> DEFINE b == presenter.slot
<1>1. b \in Batches /\ batch[b].st \in ShownStates
  BY PresenterBatch DEF AtSlot, Showing, SlotState, ShownStates
<1>2. b # retained
  <2>1. b # 0 /\ ~IsCurrent(batch[b].work)
    BY <1>1, LaneAssumption DEF Batches, PresenterStale
  <2>2. retained # 0 => IsCurrent(batch[retained].work)
    BY DEF LaneInv, PresenterPlaced
  <2> HIDE DEF b
  <2> QED
    BY <2>1, <2>2
<1>3. presenter' \in PresenterShape' /\ presenter'.pc \notin AtSlot
  BY PresenterGoes DEF LaneInv, Shaped, PresenterStale, AtSlot, Showing
<1>4. batch' = [batch EXCEPT ![b] = FreeBatch] /\ shown' = shown
  BY DEF PresenterStale, Detached
<1> HIDE DEF b
<1> QED
  BY <1>1, <1>2, <1>3, <1>4, PresenterPutsBack, Records

LEMMA PresenterWaitsKeeps ==
  ASSUME LaneInv,
         \/ \E kind \in {"drain", "next", "hold"} : PresenterStart(kind)
         \/ PresenterDrain \/ PresenterRetires
  PROVE  PresenterKeeps
<1>1. /\ PresenterFrame /\ UNCHANGED <<batch, retained, shown>> /\ presenter'.pc \notin AtSlot
  BY PresenterWaits
<1>2. presenter.pc # "swap"
  BY DEF PresenterStart, PresenterDrain, PresenterRetires, RetireBackend, RetireCommit
<1>3. /\ retained # 0 => batch[retained].st \in KeptStates
      /\ \A b \in Batches : batch[b].st = "pending" => Unshown(b)
  BY DEF LaneInv, PresenterPlaced, Unshown
<1>4. presenter'.pc \notin Showing /\ presenter'.pc # "reaping"
  BY <1>1 DEF AtSlot
<1> QED
  BY <1>1, <1>2, <1>3, <1>4, PresenterSettles DEF PresenterKeeps

LEMMA PresenterReapKeeps == ASSUME LaneInv, PresenterReap PROVE PresenterKeeps
<1> DEFINE waiting == InState({"completion"})
           b == CHOOSE c \in waiting : \A o \in waiting : c <= o
<1>1. /\ presenter \in PresenterShape /\ batch \in [Batches -> BatchRecord]
      /\ retained \in {0} \cup Batches
      /\ shown \in [work : Works \cup {NoWork}, num : Nat, den : Nat \ {0}]
  BY DEF LaneInv, Shaped
<1>2. /\ presenter.pc = "reap"
      /\ UNCHANGED <<timeline, draft, fifo, workBatch, retained, worker, applied, shown>>
  BY DEF PresenterReap, handles, history
<1>3. /\ retained # 0 => batch[retained].st \in KeptStates
      /\ \A c \in Batches : batch[c].st = "pending" => Unshown(c)
  BY DEF LaneInv, PresenterPlaced, Unshown
<1>4. CASE waiting = {}
  <2>1. PresenterTo("choose") /\ UNCHANGED batch
    BY <1>4 DEF PresenterReap
  <2>2. presenter' \in PresenterShape' /\ presenter'.pc = "choose"
    BY <1>1, <2>1, PresenterIsAt DEF PresenterTo, PresenterShape
  <2>3. PresenterFrame
    BY <1>1, <1>2, <2>1, <2>2, NoBatch, PresenterKeepsShape DEF PresenterFrame
  <2>4. presenter'.pc \notin Showing /\ presenter'.pc # "reaping"
    BY <2>2 DEF Showing
  <2> QED
    BY <1>2, <1>3, <2>1, <2>3, <2>4, PresenterSettles DEF PresenterKeeps
<1>5. CASE waiting # {}
  <2>1. waiting \in SUBSET Batches
    BY DEF InState
  <2>2. b \in waiting
    BY <1>5, <2>1, FirstBatch
  <2>3. b \in Batches /\ batch[b].st = "completion"
    BY <2>2 DEF InState
  <2>4. /\ batch' = [batch EXCEPT ![b].st = "reaping"]
        /\ presenter' = [presenter EXCEPT !.pc = "reaping", !.slot = b]
    BY <1>5 DEF PresenterReap
  <2> HIDE DEF b, waiting
  <2> DEFINE r == [batch[b] EXCEPT !.st = "reaping"]
  <2>5. /\ r \in BatchRecord /\ r.st = "reaping" /\ r.work = batch[b].work
        /\ r.index = batch[b].index /\ r.count = batch[b].count
    BY <1>1, <2>3 DEF BatchRecord, BatchStates
  <2>6. batch' = [batch EXCEPT ![b] = r]
    BY <2>4
  <2> HIDE DEF r
  <2>7. WorkLeftAlone /\ batch' \in [Batches -> BatchRecord]
    BY <1>1, <2>3, <2>5, <2>6, OneBatch DEF WorkStates
  <2>8. presenter' \in PresenterShape' /\ presenter'.pc = "reaping" /\ presenter'.slot = b
    BY <1>1, <2>3, <2>4 DEF PresenterShape
  <2>9. PresenterFrame
    BY <1>1, <1>2, <2>7, <2>8, PresenterKeepsShape DEF PresenterFrame
  <2>10. batch'[b].st = "reaping" /\ b # 0
    BY <1>1, <2>3, <2>5, <2>6, LaneAssumption DEF Batches
  <2>11. retained # 0 => /\ batch'[retained].st \in KeptStates
                         /\ batch'[retained].index = batch[retained].index
                         /\ batch'[retained].count = batch[retained].count
    BY <1>1, <1>3, <2>3, <2>5, <2>6 DEF KeptStates
  <2>12. \A c \in Batches : batch'[c].st = "pending" => Unshown(c)
    BY <1>1, <1>3, <2>3, <2>5, <2>6
  <2>13. presenter'.pc \notin Showing /\ presenter.pc # "swap"
    BY <1>2, <2>8 DEF Showing
  <2> QED
    BY <1>2, <2>8, <2>9, <2>10, <2>11, <2>12, <2>13, PresenterSettles DEF PresenterKeeps
<1> QED
  BY <1>4, <1>5


LEMMA PresenterReapedKeeps == ASSUME LaneInv, PresenterReaped PROVE PresenterKeeps
<1> DEFINE b == presenter.slot
<1>1. /\ presenter \in PresenterShape /\ batch \in [Batches -> BatchRecord]
      /\ retained \in {0} \cup Batches
  BY DEF LaneInv, Shaped
<1>2. b \in Batches /\ batch[b] \in BatchRecord /\ batch[b].st = "reaping" /\ b # 0
  BY PresenterBatch, LaneAssumption DEF PresenterReaped, AtSlot, Showing, SlotState, Batches
<1>3. presenter.pc = "reaping"
  BY DEF PresenterReaped
<1>4. UNCHANGED <<timeline, draft, fifo, workBatch, worker, applied, shown>>
  BY DEF PresenterReaped, history
<1>5. retained = b => IsCurrent(batch[b].work)
  BY <1>2 DEF LaneInv, PresenterPlaced
<1>6. PICK status \in {"ready", "pending", "failed"} :
        LET next == IF status = "failed" THEN "idle" ELSE "choose"
        IN IF IsCurrent(batch[b].work) /\ status = "pending"
           THEN /\ batch' = [batch EXCEPT ![b].st = "completion"]
                /\ PresenterTo("choose")
                /\ UNCHANGED retained
           ELSE IF IsCurrent(batch[b].work) /\ retained = b
           THEN /\ batch' = [batch EXCEPT ![b].st = "retained",
                                          ![b].has = @ \ {"completion"}]
                /\ PresenterCleans(Of(batch[b].work, {"completion"}), next)
                /\ UNCHANGED retained
           ELSE /\ batch' = Detached(b)
                /\ retained' = IF retained = b THEN 0 ELSE retained
                /\ PresenterCleans(Owned(b), next)
  BY DEF PresenterReaped
<1> DEFINE next == IF status = "failed" THEN "idle" ELSE "choose"
           r == IF IsCurrent(batch[b].work) /\ status = "pending"
                THEN [batch[b] EXCEPT !.st = "completion"]
                ELSE IF IsCurrent(batch[b].work) /\ retained = b
                THEN [batch[b] EXCEPT !.st = "retained", !.has = @ \ {"completion"}]
                ELSE FreeBatch
<1> HIDE DEF b
<1>7. next \in {"idle", "choose"}
  OBVIOUS
<1>8. retained' = retained
  BY <1>2, <1>5, <1>6
<1>9. presenter' \in PresenterShape' /\ presenter'.pc \notin AtSlot
  <2>1. CASE PresenterTo("choose")
    BY <1>1, <2>1, PresenterIsAt DEF PresenterTo, PresenterShape, AtSlot, Showing
  <2>2. CASE \E ret : PresenterCleans(ret, next)
    BY <1>1, <1>7, <2>2, PresenterGoes DEF AtSlot, Showing
  <2> QED
    BY <1>6, <2>1, <2>2
<1>10. batch' = [batch EXCEPT ![b] = r]
  BY <1>2, <1>1, <1>6 DEF Detached
<1>11. /\ r \in BatchRecord /\ r.st \in {"free", "completion", "retained"}
       /\ r.st # "free" => r.work = batch[b].work
       /\ b = retained => r.st \in KeptStates /\ r.index = batch[b].index
                          /\ r.count = batch[b].count
  BY <1>2, <1>5, Records DEF BatchRecord, BatchStates, KeptStates
<1> HIDE DEF r
<1> QED
  BY <1>2, <1>3, <1>4, <1>8, <1>9, <1>10, <1>11, PresenterPutsBack DEF ShownStates

(* The presenter goes on with a batch.                                       *)
LEMMA PresenterGoesOn ==
  ASSUME LaneInv, UNCHANGED <<timeline, draft, fifo, workBatch, retained, worker, applied, shown>>,
         presenter.pc # "swap", presenter' \in PresenterShape',
         presenter'.pc \in {"select", "compose", "authorize"},
         NEW b \in Batches, NEW r \in BatchRecord, batch' = [batch EXCEPT ![b] = r],
         presenter'.slot = b, batch[b].st \in ShownStates,
         r.st = SlotState(presenter'.pc), r.work = batch[b].work,
         b = retained => Hold',
         Hold' => b = retained \/ ~IsCurrent(batch[b].work),
         b = retained => \/ r.count = 0
                         \/ r.index = batch[b].index /\ r.count = batch[b].count,
         ~Hold' => Unshown(b),
         ~Hold' => \A c \in Batches : b # c /\ Here(b) /\ Here(c) /\ Unshown(c) =>
                     batch[b].work.seq < batch[c].work.seq,
         IsCurrent(batch[b].work) /\ presenter'.pc = "select" /\ ~Hold' /\ r.count # 0 =>
           retained # 0,
         IsCurrent(batch[b].work) /\ presenter'.pc # "select" /\ presenter'.phase < r.count =>
           1 <= presenter'.phase /\ (Hold' => r.index <= presenter'.phase)
  PROVE  PresenterKeeps
<1> DEFINE p == presenter'.phase
<1>1. /\ batch \in [Batches -> BatchRecord] /\ retained \in {0} \cup Batches
      /\ shown \in [work : Works \cup {NoWork}, num : Nat, den : Nat \ {0}]
      /\ batch[b] \in BatchRecord /\ b # 0
  BY LaneAssumption DEF LaneInv, Shaped, Batches
<1>2. r.st \in {"selecting", "composing", "composed"}
  BY DEF SlotState
<1>3. WorkLeftAlone /\ batch' \in [Batches -> BatchRecord]
  BY <1>1, <1>2, OneBatch DEF WorkStates, ShownStates
<1>4. Shaped'
  BY <1>1, <1>3, PresenterKeepsShape
<1>5. PresenterFrame
  BY <1>3, <1>4 DEF PresenterFrame
<1>6. batch'[b] = r /\ \A c \in Batches : c # b => batch'[c] = batch[c]
  BY <1>1
<1>7. \A c \in Batches : batch'[c].work = batch[c].work
  BY <1>6
<1>8. \A c \in Batches : IsCurrent(batch[c].work)' = IsCurrent(batch[c].work)
  BY <1>7 DEF IsCurrent, Terminal, timeline
<1>9. retained' = retained /\ shown' = shown /\ epoch' = epoch /\ worker' = worker
  BY DEF timeline
<1>10. PresenterPlaced'
  <2>1. retained # 0 => batch'[retained].st \in KeptStates /\ IsCurrent(batch[retained].work)'
    BY <1>1, <1>2, <1>6, <1>7, <1>8 DEF LaneInv, PresenterPlaced, KeptStates
  <2>2. Hold' => b = retained \/ ~IsCurrent(batch[b].work)'
    BY <1>7, <1>8
  <2> QED
    BY <1>1, <1>6, <1>9, <2>1, <2>2 DEF PresenterPlaced
<1>11. ShownAcked'
  BY DEF LaneInv, ShownAcked, acked, timeline
<1>12. UnshownInOrder'
  <2>1. \A c \in Batches : c # b => Here(c)' = Here(c) /\ (Unshown(c)' => Unshown(c))
    BY <1>6, <1>9 DEF Here, Unshown, Leaving, Going, Chosen
  <2>2. Here(b)' = Here(b)
    BY <1>2, <1>6, <1>9 DEF Here, ShownStates
  <2>3. Unshown(b)' => ~Hold'
    BY <1>2, <1>6 DEF Unshown, Leaving, Chosen
  <2>4. \A c \in Batches : Chosen(c)' => c = b /\ ~Hold'
    BY DEF Chosen
  <2>5. UnshownInOrder
    BY DEF LaneInv
  <2>6. \A c \in Batches : Here(c)' /\ Unshown(c)' => Here(c) /\ Unshown(c)
    BY <2>1, <2>2, <2>3
  <2>7. \A c \in Batches : Here(c)' /\ Unshown(c)' /\ shown'.work.epoch = epoch' =>
          shown'.work.seq < batch'[c].work.seq
    BY <1>7, <1>9, <2>5, <2>6 DEF UnshownInOrder
  <2>8. \A a, c \in Batches :
          a # c /\ Here(a)' /\ Here(c)' /\ Chosen(a)' /\ Unshown(c)' =>
            batch'[a].work.seq < batch'[c].work.seq
    BY <1>7, <2>2, <2>4, <2>6
  <2> QED
    BY <2>7, <2>8 DEF UnshownInOrder
<1>13. PhasesInOrder'
  <2>1. PhasesInOrder
    BY DEF LaneInv
  <2>2. shown.num \in 1..shown.den
    BY <2>1 DEF PhasesInOrder
  <2>3. retained # 0 =>
          /\ shown.work = batch'[retained].work
          /\ batch'[retained].index < batch'[retained].count =>
               /\ shown.num = batch'[retained].index /\ 1 <= batch'[retained].index
               /\ shown.den = batch'[retained].count
    <3>1. retained # 0 =>
          /\ shown.work = batch[retained].work
          /\ batch[retained].index < batch[retained].count =>
               /\ shown.num = batch[retained].index /\ 1 <= batch[retained].index
               /\ shown.den = batch[retained].count
      BY <2>1 DEF PhasesInOrder
    <3>2. CASE retained = b
      <4>1. r.index \in Nat /\ r.count \in Nat
        BY DEF BatchRecord
      <4> QED
        BY <1>6, <1>7, <3>1, <3>2, <4>1
    <3>3. CASE retained # b
      BY <1>1, <1>6, <3>1, <3>3
    <3> QED
      BY <3>2, <3>3
  <2>4. IsCurrent(batch[b].work)' = IsCurrent(batch[b].work)
    BY <1>7, <1>8
  <2> QED
    BY <1>6, <1>9, <2>2, <2>3, <2>4 DEF PhasesInOrder
<1> QED
  BY <1>5, <1>10, <1>11, <1>12, <1>13 DEF PresenterKeeps


LEMMA PresenterChooseKeeps == ASSUME LaneInv, PresenterChoose PROVE PresenterKeeps
<1> DEFINE incoming == OldestPending(batch)
           hold == presenter.kind = "hold" \/ Unfinished(incoming)
           b == IF hold THEN retained ELSE incoming
           phases == IF TemporalBase(b, retained) THEN batch[b].phases + 1 ELSE 0
           next == IF hold THEN batch[b]
                   ELSE [batch[b] EXCEPT !.count = phases, !.index = 0]
           r == [next EXCEPT !.st = "selecting"]
<1>1. /\ presenter \in PresenterShape /\ batch \in [Batches -> BatchRecord]
      /\ retained \in {0} \cup Batches
      /\ shown \in [work : Works \cup {NoWork}, num : Nat, den : Nat \ {0}]
  BY DEF LaneInv, Shaped
<1>2. /\ presenter.pc = "choose"
      /\ UNCHANGED <<timeline, draft, fifo, workBatch, retained, worker, applied, shown>>
  BY DEF PresenterChoose, history
<1>3. \/ incoming = 0
      \/ /\ incoming \in Batches /\ batch[incoming].st = "pending"
         /\ \A c \in Batches : batch[c].st = "pending" =>
              batch[incoming].work.seq <= batch[c].work.seq
  BY <1>1, OldestIsPending DEF LaneInv, BatchesOccupied
<1>4. CASE b # 0 /\ batch[b].st = (IF hold THEN "retained" ELSE "pending")
  <2>1. /\ batch' = [batch EXCEPT ![b] = r]
        /\ presenter' = [presenter EXCEPT !.pc = "select", !.slot = b,
                           !.kind = IF hold THEN "hold" ELSE "next"]
    BY <1>4 DEF PresenterChoose
  <2>2. b \in Batches /\ batch[b] \in BatchRecord /\ hold \in BOOLEAN
    BY <1>1, <1>3, <1>4
  <2>3. /\ hold => b = retained /\ batch[b].st = "retained"
        /\ ~hold => b = incoming /\ b # retained /\ batch[b].st = "pending"
    BY <1>4 DEF LaneInv, PresenterPlaced, KeptStates
  <2>4. phases \in 0..(PhaseLimit + 1) /\ (phases # 0 => retained # 0)
    BY <2>2, LaneAssumption DEF TemporalBase, BatchRecord
  <2>5. ~hold => \A c \in Batches : b # c /\ Here(b) /\ Here(c) /\ Unshown(c) =>
                   batch[b].work.seq < batch[c].work.seq
    <3> SUFFICES ASSUME ~hold, NEW c \in Batches, b # c, Here(b), Here(c), Unshown(c)
                 PROVE  batch[b].work.seq < batch[c].work.seq
      OBVIOUS
    <3>1. batch[b].st = "pending" /\ b = incoming
      BY <2>3
    <3> HIDE DEF b, incoming, hold
    <3>2. AfterAck(b) /\ AfterAck(c)
      BY <1>2, <3>1 DEF Unshown, AfterAck, ShownStates, Chosen
    <3>3. batch[b].work \in Works /\ batch[c].work \in Works
      BY <2>2 DEF LaneInv, BatchesOccupied, Here
    <3>4. /\ batch[b].work.seq # batch[c].work.seq
          /\ batch[b].work.seq <= acked
          /\ Leaving(c) => batch[c].work.seq = acked
      BY <2>2, <3>2 DEF LaneInv, AckedInOrder
    <3>5. batch[b].work.seq \in Nat /\ batch[c].work.seq \in Nat
      BY <3>3, Records, LaneAssumption
    <3>6. CASE Leaving(c)
      BY <3>4, <3>5, <3>6
    <3>7. CASE batch[c].st = "pending"
      <4>1. batch[b].work.seq <= batch[c].work.seq
        BY <1>3, <2>2, <3>1, <3>7, LaneAssumption DEF Batches
      <4> QED
        BY <3>4, <3>5, <4>1
    <3> QED
      BY <1>2, <3>6, <3>7 DEF Unshown, Chosen
  <2> HIDE DEF b, phases, hold, incoming
  <2>6. /\ r \in BatchRecord /\ r.st = "selecting" /\ r.work = batch[b].work
        /\ hold => r.index = batch[b].index /\ r.count = batch[b].count
        /\ ~hold => r.count = phases
    <3>1. CASE hold
      <4>1. r = [batch[b] EXCEPT !.st = "selecting"]
        BY <3>1
      <4> QED
        BY <2>2, <3>1, <4>1 DEF BatchRecord, BatchStates
    <3>2. CASE ~hold
      <4>1. r = [batch[b] EXCEPT !.count = phases, !.index = 0, !.st = "selecting"]
        BY <3>2
      <4>2. 0 \in 0..(PhaseLimit + 1)
        BY LaneAssumption
      <4> QED
        BY <2>2, <2>4, <3>2, <4>1, <4>2 DEF BatchRecord, BatchStates
    <3> QED
      BY <2>2, <3>1, <3>2
  <2> HIDE DEF r
  <2>7. /\ presenter' \in PresenterShape' /\ presenter'.pc = "select" /\ presenter'.slot = b
        /\ presenter'.kind = IF hold THEN "hold" ELSE "next"
    BY <1>1, <2>1, <2>2 DEF PresenterShape
  <2>8. Hold' <=> hold
    BY <2>7 DEF Hold
  <2>9. r.st = SlotState(presenter'.pc) /\ batch[b].st \in ShownStates
    BY <2>2, <2>3, <2>6, <2>7 DEF SlotState, ShownStates
  <2>10. ~hold => Unshown(b)
    BY <2>3 DEF Unshown
  <2> QED
    BY <1>2, <2>1, <2>2, <2>3, <2>4, <2>5, <2>6, <2>7, <2>8, <2>9, <2>10, PresenterGoesOn
<1>5. CASE ~(b # 0 /\ batch[b].st = (IF hold THEN "retained" ELSE "pending"))
  <2>1. PresenterDone /\ UNCHANGED batch
    BY <1>5 DEF PresenterChoose
  <2>2. presenter' \in PresenterShape' /\ presenter'.pc = "idle"
    BY <1>1, <2>1, PresenterIsAt DEF PresenterDone, IdlePresenter
  <2>3. PresenterFrame
    BY <1>1, <1>2, <2>1, <2>2, NoBatch, PresenterKeepsShape DEF PresenterFrame
  <2>4. presenter'.pc \notin Showing /\ presenter'.pc # "reaping"
    BY <2>2 DEF Showing
  <2>5. /\ retained # 0 => batch[retained].st \in KeptStates
        /\ \A c \in Batches : batch[c].st = "pending" => Unshown(c)
    BY DEF LaneInv, PresenterPlaced, Unshown
  <2> QED
    BY <1>2, <2>1, <2>3, <2>4, <2>5, PresenterSettles DEF PresenterKeeps
<1> QED
  BY <1>4, <1>5


(* What is known of the batch the presenter works on.                        *)
LEMMA AtWork ==
  ASSUME LaneInv, presenter.pc \in {"select", "compose", "authorize"}
  PROVE  /\ presenter.slot \in Batches /\ batch[presenter.slot] \in BatchRecord
         /\ batch[presenter.slot].st \in ShownStates
         /\ presenter.slot = retained => Hold
         /\ Hold => presenter.slot = retained \/ ~IsCurrent(batch[presenter.slot].work)
         /\ ~Hold => Unshown(presenter.slot)
         /\ ~Hold => \A c \in Batches :
              presenter.slot # c /\ Here(presenter.slot) /\ Here(c) /\ Unshown(c) =>
                batch[presenter.slot].work.seq < batch[c].work.seq
<1>1. /\ presenter.slot \in Batches /\ batch[presenter.slot] \in BatchRecord
      /\ batch[presenter.slot].st \in ShownStates
  BY PresenterBatch DEF AtSlot, Showing, SlotState, ShownStates
<1>2. /\ presenter.slot = retained => Hold
      /\ Hold => presenter.slot = retained \/ ~IsCurrent(batch[presenter.slot].work)
  BY DEF LaneInv, PresenterPlaced, Showing
<1>3. ~Hold => Chosen(presenter.slot)
  BY DEF Chosen
<1> QED
  BY <1>1, <1>2, <1>3 DEF LaneInv, UnshownInOrder, Unshown

LEMMA PresenterSelectKeeps == ASSUME LaneInv, PresenterSelect PROVE PresenterKeeps
<1> DEFINE b == presenter.slot
           r == batch[b]
           larger(x, y) == IF x > y THEN x ELSE y
           put(count) == [r EXCEPT !.st = "composing", !.count = count]
           composing(count, phase) ==
             /\ batch' = [batch EXCEPT ![b] = put(count)]
             /\ presenter' = [presenter EXCEPT !.pc = "compose", !.phase = phase]
             /\ UNCHANGED <<pending, shown>>
<1>1. /\ presenter \in PresenterShape /\ batch \in [Batches -> BatchRecord]
      /\ retained \in {0} \cup Batches
  BY DEF LaneInv, Shaped
<1>2. /\ presenter.pc = "select"
      /\ UNCHANGED <<timeline, draft, fifo, workBatch, retained, worker, applied>>
  BY DEF PresenterSelect
<1>3. /\ b \in Batches /\ r \in BatchRecord /\ r.st \in ShownStates
      /\ b = retained => Hold
      /\ Hold => b = retained \/ ~IsCurrent(r.work)
      /\ ~Hold => Unshown(b)
      /\ ~Hold => \A c \in Batches :
           b # c /\ Here(b) /\ Here(c) /\ Unshown(c) => r.work.seq < batch[c].work.seq
  BY <1>2, AtWork
<1>4. ASSUME NEW count \in {0, r.count}, NEW phase \in 0..(PhaseLimit + 1), composing(count, phase),
             phase < count => 1 <= phase /\ (Hold => r.index <= phase)
      PROVE  PresenterKeeps
  <2> DEFINE new == put(count)
  <2>0. count \in 0..(PhaseLimit + 1)
    BY <1>3, LaneAssumption DEF BatchRecord
  <2>1. /\ new \in BatchRecord /\ new.st = "composing"
        /\ new.work = r.work /\ new.count = count /\ new.index = r.index
    BY <1>3, <2>0 DEF BatchRecord, BatchStates
  <2>2. /\ presenter' \in PresenterShape' /\ presenter'.pc = "compose" /\ presenter'.slot = b
        /\ presenter'.phase = phase /\ presenter'.kind = presenter.kind
    BY <1>1, <1>4 DEF PresenterShape
  <2>3. Hold' <=> Hold
    BY <2>2 DEF Hold
  <2>4. new.st = SlotState(presenter'.pc)
    BY <2>1, <2>2 DEF SlotState
  <2>5. batch' = [batch EXCEPT ![b] = new] /\ shown' = shown
    BY <1>4
  <2>6. b = retained => new.count = 0 \/ (new.index = r.index /\ new.count = r.count)
    BY <2>1
  <2>7. presenter'.phase < new.count =>
          1 <= presenter'.phase /\ (Hold' => new.index <= presenter'.phase)
    BY <1>4, <2>1, <2>2, <2>3
  <2>8. presenter.pc # "swap" /\ presenter'.pc \in {"select", "compose", "authorize"}
        /\ presenter'.pc # "select"
    BY <1>2, <2>2
  <2> HIDE DEF b, new
  <2> QED
    BY <1>2, <1>3, <2>1, <2>2, <2>3, <2>4, <2>5, <2>6, <2>7, <2>8, PresenterGoesOn
<1>5. CASE PresenterStale({})
  BY <1>2, <1>5, PresenterGivesUp
<1>6. CASE IsCurrent(r.work) /\ composing(0, 0)
  <2>1. 0 \in 0..(PhaseLimit + 1) /\ 0 \in {0, r.count} /\ ~(0 < 0)
    BY LaneAssumption
  <2> HIDE DEF composing
  <2> QED
    BY <1>4, <1>6, <2>1
<1>7. CASE \E phase \in 0..r.count :
             /\ IsCurrent(r.work)
             /\ IF ~Hold /\ r.count # 0 /\ retained # 0 /\ phase = 0
                THEN /\ batch' = [batch EXCEPT ![b].st = "pending"]
                     /\ PresenterDone
                     /\ UNCHANGED shown
                ELSE composing(r.count, larger(phase, r.index))
  <2> PICK phase \in 0..r.count :
             /\ IsCurrent(r.work)
             /\ IF ~Hold /\ r.count # 0 /\ retained # 0 /\ phase = 0
                THEN /\ batch' = [batch EXCEPT ![b].st = "pending"]
                     /\ PresenterDone
                     /\ UNCHANGED shown
                ELSE composing(r.count, larger(phase, r.index))
    BY <1>7
  <2>1. /\ r.count \in 0..(PhaseLimit + 1) /\ r.index \in 0..(PhaseLimit + 1)
        /\ phase \in 0..(PhaseLimit + 1)
    BY <1>3, LaneAssumption DEF BatchRecord
  <2>2. CASE ~Hold /\ r.count # 0 /\ retained # 0 /\ phase = 0
    <3>1. batch' = [batch EXCEPT ![b] = [r EXCEPT !.st = "pending"]]
      BY <2>2
    <3>2. presenter' \in PresenterShape' /\ presenter'.pc \notin AtSlot
      BY <1>1, <2>2, PresenterIsAt DEF PresenterDone, IdlePresenter, AtSlot, Showing
    <3>3. /\ [r EXCEPT !.st = "pending"] \in BatchRecord
          /\ [r EXCEPT !.st = "pending"].st = "pending"
          /\ [r EXCEPT !.st = "pending"].work = r.work
      BY <1>3 DEF BatchRecord, BatchStates
    <3>4. Chosen(b)
      BY <1>2, <2>2 DEF Chosen
    <3>5. shown' = shown /\ b # retained
      BY <1>3, <2>2
    <3> DEFINE back == [r EXCEPT !.st = "pending"]
    <3> HIDE DEF b, back
    <3> QED
      BY <1>2, <1>3, <3>1, <3>2, <3>3, <3>4, <3>5, PresenterPutsBack DEF back
  <2>3. CASE ~(~Hold /\ r.count # 0 /\ retained # 0 /\ phase = 0)
    <3>1. composing(r.count, larger(phase, r.index)) /\ IsCurrent(r.work)
      BY <2>3
    <3>2. larger(phase, r.index) \in 0..(PhaseLimit + 1) /\ r.index <= larger(phase, r.index)
          /\ phase <= larger(phase, r.index)
      BY <2>1, LaneAssumption
    <3>3. larger(phase, r.index) < r.count => 1 <= larger(phase, r.index)
      <4> SUFFICES ASSUME larger(phase, r.index) < r.count PROVE 1 <= larger(phase, r.index)
        OBVIOUS
      <4>1. r.count # 0 /\ r.index < r.count
        BY <2>1, <3>2
      <4>2. CASE Hold
        <5>1. retained = b /\ retained # 0
          BY <1>3, <3>1, <4>2, LaneAssumption DEF Batches
        <5>2. 1 <= r.index
          BY <1>2, <4>1, <5>1 DEF LaneInv, PhasesInOrder
        <5> QED
          BY <2>1, <3>2, <5>2
      <4>3. CASE ~Hold
        <5>1. retained # 0
          BY <1>2, <3>1, <4>1, <4>3 DEF LaneInv, PhasesInOrder
        <5>2. phase # 0
          BY <2>3, <4>1, <4>3, <5>1
        <5> QED
          BY <2>1, <3>2, <5>2
      <4> QED
        BY <4>2, <4>3
    <3> HIDE DEF larger
    <3> QED
      BY <1>4, <3>1, <3>2, <3>3
  <2> QED
    BY <2>2, <2>3
<1> QED
  BY <1>5, <1>6, <1>7 DEF PresenterSelect


LEMMA PresenterComposeKeeps == ASSUME LaneInv, PresenterCompose PROVE PresenterKeeps
<1> DEFINE b == presenter.slot
           r == batch[b]
           phased == presenter.phase < r.count
<1>1. /\ presenter \in PresenterShape /\ batch \in [Batches -> BatchRecord]
      /\ retained \in {0} \cup Batches
  BY DEF LaneInv, Shaped
<1>2. /\ presenter.pc = "compose"
      /\ UNCHANGED <<timeline, draft, fifo, workBatch, retained, worker, applied>>
  BY DEF PresenterCompose
<1>3. /\ b \in Batches /\ r \in BatchRecord /\ r.st \in ShownStates
      /\ b = retained => Hold
      /\ Hold => b = retained \/ ~IsCurrent(r.work)
      /\ ~Hold => Unshown(b)
      /\ ~Hold => \A c \in Batches :
           b # c /\ Here(b) /\ Here(c) /\ Unshown(c) => r.work.seq < batch[c].work.seq
  BY <1>2, AtWork
<1>4. CASE \E made : PresenterStale(made)
  BY <1>2, <1>4, PresenterGivesUp
<1>5. CASE /\ \E ret : PresenterCleans(ret, "idle")
           /\ batch' = IF ~phased /\ ~Hold THEN Detached(b)
                       ELSE [batch EXCEPT ![b] = [r EXCEPT
                         !.st = IF Hold THEN "retained" ELSE "pending",
                         !.whole = @ \/ phased,
                         !.count = IF phased /\ ~Hold THEN 0 ELSE @]]
           /\ UNCHANGED shown
  <2>1. presenter' \in PresenterShape' /\ presenter'.pc \notin AtSlot
    BY <1>1, <1>5, PresenterGoes DEF AtSlot, Showing
  <2> DEFINE new == IF ~phased /\ ~Hold THEN FreeBatch
                    ELSE [r EXCEPT
                         !.st = IF Hold THEN "retained" ELSE "pending",
                         !.whole = @ \/ phased,
                         !.count = IF phased /\ ~Hold THEN 0 ELSE @]
  <2>2. batch' = [batch EXCEPT ![b] = new]
    BY <1>5 DEF Detached
  <2>3. CASE ~phased /\ ~Hold
    <3>1. new = FreeBatch
      BY <2>3
    <3>2. b # retained
      BY <1>3, <2>3
    <3> HIDE DEF b, new
    <3> QED
      BY <1>2, <1>3, <1>5, <2>1, <2>2, <3>1, <3>2, Records, PresenterPutsBack
  <2>4. CASE phased /\ ~Hold
    <3>1. new = [r EXCEPT !.st = "pending", !.whole = TRUE, !.count = 0]
      BY <2>4
    <3>2. 0 \in 0..(PhaseLimit + 1)
      BY LaneAssumption
    <3>3. new \in BatchRecord /\ new.st = "pending" /\ new.work = r.work
      <4>1. r \in BatchRecord /\ "pending" \in BatchStates
        BY <1>3 DEF BatchStates
      <4> HIDE DEF new, r
      <4> QED
        BY <3>1, <3>2, <4>1 DEF BatchRecord
    <3>4. b # retained /\ Chosen(b)
      BY <1>2, <1>3, <2>4 DEF Chosen
    <3> HIDE DEF b, new
    <3> QED
      BY <1>2, <1>3, <1>5, <2>1, <2>2, <3>3, <3>4, PresenterPutsBack
  <2>5. CASE Hold
    <3>1. new = [r EXCEPT !.st = "retained", !.whole = @ \/ phased]
      BY <1>3, <2>5 DEF BatchRecord
    <3>2. (r.whole \/ phased) \in BOOLEAN
      BY <1>3 DEF BatchRecord
    <3>3. new \in BatchRecord /\ new.st = "retained" /\ new.work = r.work
          /\ new.index = r.index /\ new.count = r.count
      BY <1>3, <3>1, <3>2, LaneAssumption DEF BatchRecord, BatchStates
    <3> HIDE DEF b, new
    <3> QED
      BY <1>2, <1>3, <1>5, <2>1, <2>2, <3>3, PresenterPutsBack DEF KeptStates
  <2> QED
    BY <2>3, <2>4, <2>5
<1>6. CASE /\ IsCurrent(r.work)
           /\ batch' = [batch EXCEPT ![b].st = "composed",
                                     ![b].has = @ \cup {"completion"}]
           /\ PresenterTo("authorize")
           /\ UNCHANGED shown
  <2> DEFINE new == [r EXCEPT !.st = "composed", !.has = @ \cup {"completion"}]
  <2>1. batch' = [batch EXCEPT ![b] = new]
    BY <1>1, <1>3, <1>6
  <2>2. /\ new \in BatchRecord /\ new.st = "composed" /\ new.work = r.work
        /\ new.index = r.index /\ new.count = r.count
    BY <1>3 DEF BatchRecord, BatchStates, Kinds, Fences
  <2>3. /\ presenter' \in PresenterShape' /\ presenter'.pc = "authorize" /\ presenter'.slot = b
        /\ presenter'.phase = presenter.phase /\ presenter'.kind = presenter.kind
    BY <1>1, <1>6 DEF PresenterShape, PresenterTo
  <2>4. Hold' <=> Hold
    BY <2>3 DEF Hold
  <2>5. new.st = SlotState(presenter'.pc)
    BY <2>2, <2>3 DEF SlotState
  <2>6. presenter'.phase < new.count =>
          1 <= presenter'.phase /\ (Hold' => new.index <= presenter'.phase)
    <3>1. phased => 1 <= presenter.phase /\ (Hold => r.index <= presenter.phase)
      BY <1>2, <1>6 DEF LaneInv, PhasesInOrder
    <3> QED
      BY <2>2, <2>3, <2>4, <3>1
  <2>7. presenter.pc # "swap" /\ presenter'.pc \in {"select", "compose", "authorize"}
        /\ presenter'.pc # "select" /\ shown' = shown
    BY <1>2, <1>6, <2>3
  <2> HIDE DEF b, new
  <2> QED
    BY <1>2, <1>3, <2>1, <2>2, <2>3, <2>4, <2>5, <2>6, <2>7, PresenterGoesOn
<1>7. \/ \E made : PresenterStale(made)
      \/ /\ \E ret : PresenterCleans(ret, "idle")
         /\ batch' = IF ~phased /\ ~Hold THEN Detached(b)
                     ELSE [batch EXCEPT ![b] = [r EXCEPT
                       !.st = IF Hold THEN "retained" ELSE "pending",
                       !.whole = @ \/ phased,
                       !.count = IF phased /\ ~Hold THEN 0 ELSE @]]
         /\ UNCHANGED shown
      \/ /\ IsCurrent(r.work)
         /\ batch' = [batch EXCEPT ![b].st = "composed",
                                   ![b].has = @ \cup {"completion"}]
         /\ PresenterTo("authorize")
         /\ UNCHANGED shown
  BY Zenon DEF PresenterCompose
<1> QED
  BY <1>4, <1>5, <1>6, <1>7


LEMMA PresenterAuthorizeKeeps == ASSUME LaneInv, PresenterAuthorize PROVE PresenterKeeps
<1>0. presenter.slot \in Batches
  BY AtWork DEF PresenterAuthorize
<1> PICK b \in Batches : b = presenter.slot
  BY <1>0
<1> DEFINE r == batch[b]
           alpha == Alpha(r, presenter.phase)
           new == [r EXCEPT !.st = "swapping"]
<1>1. /\ presenter \in PresenterShape /\ batch \in [Batches -> BatchRecord]
      /\ retained \in {0} \cup Batches
  BY DEF LaneInv, Shaped
<1>2. /\ presenter.pc = "authorize"
      /\ UNCHANGED <<timeline, draft, fifo, workBatch, retained, worker, applied>>
  BY DEF PresenterAuthorize
<1>3. /\ b \in Batches /\ r \in BatchRecord /\ r.st \in ShownStates
      /\ b = retained => Hold
      /\ Hold => b = retained \/ ~IsCurrent(r.work)
      /\ ~Hold => Unshown(b)
      /\ ~Hold => \A c \in Batches :
           b # c /\ Here(b) /\ Here(c) /\ Unshown(c) => r.work.seq < batch[c].work.seq
  BY <1>2, AtWork
<1>4. CASE PresenterStale({})
  BY <1>2, <1>4, PresenterGivesUp
<1>5. CASE /\ IsCurrent(r.work)
           /\ batch' = [batch EXCEPT ![b].st = "swapping"]
           /\ shown' = [work |-> r.work, num |-> alpha[1], den |-> alpha[2]]
           /\ PresenterTo("swap")
  <2>1. batch' = [batch EXCEPT ![b] = new]
    BY <1>5
  <2>2. /\ new \in BatchRecord /\ new.st = "swapping" /\ new.work = r.work
        /\ new.index = r.index /\ new.count = r.count
    BY <1>3 DEF BatchRecord, BatchStates
  <2>3. /\ presenter' \in PresenterShape' /\ presenter'.pc = "swap" /\ presenter'.slot = b
        /\ presenter'.phase = presenter.phase /\ presenter'.kind = presenter.kind
    BY <1>1, <1>5 DEF PresenterShape, PresenterTo
  <2>4. Hold' <=> Hold
    BY <2>3 DEF Hold
  <2>5. presenter.phase < r.count => 1 <= presenter.phase
    BY <1>2, <1>5 DEF LaneInv, PhasesInOrder
  <2>6. /\ shown'.work = r.work /\ shown'.num \in 1..shown'.den
        /\ shown'.num \in Nat /\ shown'.den \in Nat \ {0}
        /\ presenter.phase < r.count => shown'.num = presenter.phase /\ shown'.den = r.count
    <3>1. presenter.phase \in Nat /\ r.count \in Nat
      BY <1>1, <1>3, LaneAssumption DEF PresenterShape, BatchRecord
    <3>2. CASE presenter.phase < r.count
      <4>1. alpha[1] = presenter.phase /\ alpha[2] = r.count
        BY <3>2 DEF Alpha
      <4> QED
        BY <1>5, <2>5, <3>1, <3>2, <4>1
    <3>3. CASE ~(presenter.phase < r.count)
      <4>1. alpha[1] = 1 /\ alpha[2] = 1
        BY <3>3 DEF Alpha
      <4> QED
        BY <1>5, <3>3, <4>1
    <3> QED
      BY <3>2, <3>3
  <2>7. r.work \in Works /\ r.work.epoch = epoch /\ Here(b) /\ AfterAck(b)
    BY <1>3, <1>5 DEF LaneInv, BatchesOccupied, ShownStates, IsCurrent, Here, AfterAck
  <2>8. WorkLeftAlone /\ batch' \in [Batches -> BatchRecord]
    BY <1>1, <1>3, <2>1, <2>2, OneBatch DEF WorkStates, ShownStates
  <2>9. shown' \in [work : Works \cup {NoWork}, num : Nat, den : Nat \ {0}]
    BY <1>5, <2>6, <2>7
  <2>10. PresenterFrame
    BY <1>1, <1>2, <2>3, <2>8, <2>9, PresenterKeepsShape DEF PresenterFrame
  <2> HIDE DEF new, alpha
  <2>11. batch'[b] = new /\ \A c \in Batches : c # b => batch'[c] = batch[c]
    BY <1>1, <1>3, <2>1
  <2>12. \A c \in Batches : batch'[c].work = batch[c].work
    BY <2>2, <2>11
  <2>13. \A c \in Batches : IsCurrent(batch[c].work)' = IsCurrent(batch[c].work)
    BY <1>2, <2>12 DEF IsCurrent, Terminal, timeline
  <2>14. retained' = retained /\ epoch' = epoch /\ seq' = seq /\ fifo' = fifo /\ worker' = worker
    BY <1>2 DEF timeline
  <2>15. PresenterPlaced'
    <3>1. retained # 0 => batch'[retained].st \in KeptStates /\ IsCurrent(batch[retained].work)'
      <4>1. retained # 0 => retained \in Batches /\ batch[retained].st \in KeptStates
                            /\ IsCurrent(batch[retained].work)
        BY <1>1 DEF LaneInv, PresenterPlaced
      <4>2. retained # 0 => batch'[retained].st \in KeptStates
        BY <2>2, <2>11, <4>1 DEF KeptStates
      <4>3. retained # 0 => IsCurrent(batch[retained].work)'
        BY <1>2, <2>12, <2>14, <4>1 DEF IsCurrent, Terminal, timeline
      <4> QED
        BY <4>2, <4>3
    <3>2. Hold' => b = retained \/ ~IsCurrent(batch[b].work)'
      BY <1>3, <2>4, <2>13
    <3>3. b # 0 /\ batch'[b].st = SlotState(presenter'.pc)
      BY <1>3, <2>2, <2>3, <2>11, LaneAssumption DEF Batches, SlotState
    <3> QED
      BY <1>3, <2>3, <2>4, <2>14, <3>1, <3>2, <3>3 DEF PresenterPlaced
  <2>16. ShownAcked'
    <3>1. r.work.seq <= acked
      BY <1>3, <2>7 DEF LaneInv, AckedInOrder
    <3>2. acked' = acked
      BY <2>14 DEF acked
    <3>3. r.work.epoch <= epoch
      BY <2>7, Records
    <3> QED
      BY <2>6, <2>14, <3>1, <3>2, <3>3 DEF ShownAcked
  <2>17. UnshownInOrder'
    <3>1. \A c \in Batches : ~Chosen(c)'
      BY <2>3 DEF Chosen
    <3>2. \A c \in Batches : Here(c)' /\ Unshown(c)' => c # b /\ Here(c) /\ Unshown(c)
      BY <2>2, <2>11, <2>14, <3>1 DEF Unshown, Leaving, Going, Here
    <3>3. ASSUME NEW c \in Batches, c # b, Here(c), Unshown(c)
          PROVE  r.work.seq < batch[c].work.seq
      <4>1. CASE ~Hold
        BY <1>3, <2>7, <3>3, <4>1
      <4>2. CASE Hold
        <5>1. b = retained /\ retained # 0 /\ presenter.pc # "swap"
          BY <1>2, <1>3, <1>5, <4>2, LaneAssumption DEF Batches
        <5>2. shown.work = r.work
          BY <5>1 DEF LaneInv, PhasesInOrder
        <5>3. shown.work.epoch = epoch
          BY <2>7, <5>2
        <5>4. shown.work.seq < batch[c].work.seq
          BY <3>3, <5>3 DEF LaneInv, UnshownInOrder
        <5> QED
          BY <5>2, <5>4
      <4> QED
        BY <4>1, <4>2
    <3>4. \A c \in Batches : Here(c)' /\ Unshown(c)' => shown'.work.seq < batch'[c].work.seq
      BY <2>6, <2>12, <3>2, <3>3
    <3> QED
      BY <3>1, <3>4 DEF UnshownInOrder
  <2>18. PhasesInOrder'
    <3>1. IsCurrent(batch[b].work)'
      BY <1>3, <1>5, <2>13
    <3>2. batch'[b].count = r.count /\ batch'[b].work = r.work
      BY <2>2, <2>11
    <3> QED
      BY <2>3, <2>5, <2>6, <3>1, <3>2 DEF PhasesInOrder
  <2> QED
    BY <2>10, <2>15, <2>16, <2>17, <2>18 DEF PresenterKeeps
<1> QED
  BY <1>4, <1>5 DEF PresenterAuthorize

LEMMA PresenterSwappedKeeps == ASSUME LaneInv, PresenterSwapped PROVE PresenterKeeps
<1> DEFINE b == presenter.slot
           r == batch[b]
           old == IF retained \in {0, b} THEN {} ELSE {retained}
           new == [r EXCEPT !.st = "completion", !.index = presenter.phase]
<1>1. /\ presenter \in PresenterShape /\ batch \in [Batches -> BatchRecord]
      /\ retained \in {0} \cup Batches
      /\ shown \in [work : Works \cup {NoWork}, num : Nat, den : Nat \ {0}]
  BY DEF LaneInv, Shaped
<1>2. /\ presenter.pc = "swap"
      /\ UNCHANGED <<timeline, draft, fifo, workBatch, worker, applied, shown>>
  BY DEF PresenterSwapped, history
<1>3. b \in Batches /\ r \in BatchRecord /\ r.st = "swapping" /\ r.work \in Works
  BY <1>2, PresenterBatch DEF AtSlot, Showing, SlotState
<1>4. epoch' = epoch /\ seq' = seq /\ scene' = scene /\ fifo' = fifo /\ worker' = worker
      /\ shown' = shown
  BY <1>2 DEF timeline
<1>5. presenter' \in PresenterShape' /\ presenter'.pc \notin AtSlot
  <2>1. \E ret : PresenterCleans(ret, "idle")
    BY DEF PresenterSwapped
  <2> QED
    BY <1>1, <2>1, PresenterGoes DEF AtSlot, Showing
<1>6. presenter'.pc \notin Showing /\ presenter'.pc \notin {"select", "compose", "authorize", "swap"}
  BY <1>5 DEF AtSlot, Showing
<1>7. ShownAcked'
  BY <1>4 DEF LaneInv, ShownAcked, acked
<1>8. \A c \in Batches : ~Chosen(c)'
  BY <1>6 DEF Chosen
<1>9. CASE IsCurrent(r.work)
  <2>1. /\ batch' = [c \in Batches |-> IF c \in old THEN FreeBatch
                                       ELSE IF c = b THEN new ELSE batch[c]]
        /\ retained' = b
    BY <1>9 DEF PresenterSwapped
  <2>2. /\ new \in BatchRecord /\ new.st = "completion" /\ new.work = r.work
        /\ new.index = presenter.phase /\ new.count = r.count
    BY <1>1, <1>3 DEF BatchRecord, BatchStates, PresenterShape
  <2>3. b \notin old /\ \A c \in Batches : c \in old => c = retained /\ batch[c].st \in KeptStates
    BY LaneAssumption DEF LaneInv, PresenterPlaced, Batches
  <2> HIDE DEF b, new, old
  <2>4. batch'[b] = new
    BY <1>3, <2>1, <2>3
  <2>5. \A c \in Batches : c # b => batch'[c] = batch[c] \/ (batch'[c] = FreeBatch /\ batch[c].st \in KeptStates)
    BY <2>1, <2>3
  <2>6. WorkLeftAlone /\ batch' \in [Batches -> BatchRecord]
    <3>1. batch' \in [Batches -> BatchRecord]
      BY <1>1, <2>1, <2>2, Records
    <3>2. WorkLeftAlone
      BY <1>3, <2>2, <2>4, <2>5, Records DEF WorkLeftAlone, WorkStates, KeptStates
    <3> QED
      BY <3>1, <3>2
  <2>7. PresenterFrame
    BY <1>1, <1>2, <1>3, <1>5, <2>1, <2>6, PresenterKeepsShape DEF PresenterFrame
  <2>8. IsCurrent(batch[retained].work)'
    BY <1>4, <1>9, <2>1, <2>2, <2>4 DEF IsCurrent, Terminal
  <2>9. PresenterPlaced'
    BY <1>5, <1>6, <2>1, <2>2, <2>4, <2>8 DEF PresenterPlaced, KeptStates
  <2>10. UnshownInOrder'
    <3>1. \A c \in Batches : Here(c)' /\ Unshown(c)' => Here(c) /\ Unshown(c)
                                                       /\ batch'[c].work = batch[c].work
      BY <1>4, <1>8, <2>2, <2>4, <2>5, Records DEF Unshown, Leaving, Going, Here
    <3> QED
      BY <1>4, <1>8, <3>1 DEF LaneInv, UnshownInOrder
  <2>11. PhasesInOrder'
    <3>1. /\ shown.num \in 1..shown.den /\ shown.work = r.work
          /\ presenter.phase < r.count =>
               shown.num = presenter.phase /\ shown.den = r.count /\ 1 <= presenter.phase
      BY <1>2, <1>9 DEF LaneInv, PhasesInOrder, b
    <3> QED
      BY <1>4, <1>6, <2>1, <2>2, <2>4, <3>1 DEF PhasesInOrder
  <2> QED
    BY <1>7, <2>7, <2>9, <2>10, <2>11 DEF PresenterKeeps
<1>10. CASE ~IsCurrent(r.work)
  <2>1. batch' = [batch EXCEPT ![b] = FreeBatch] /\ retained' = retained
    BY <1>10 DEF PresenterSwapped, Detached
  <2>2. retained = 0
    BY <1>2, <1>10 DEF LaneInv, PhasesInOrder
  <2>3. shown.num \in 1..shown.den
    BY DEF LaneInv, PhasesInOrder
  <2> HIDE DEF b
  <2>4. WorkLeftAlone /\ batch' \in [Batches -> BatchRecord]
    BY <1>1, <1>3, <2>1, Records, OneBatch DEF WorkStates
  <2>5. PresenterFrame
    BY <1>1, <1>2, <1>5, <2>1, <2>4, PresenterKeepsShape DEF PresenterFrame
  <2>6. PresenterPlaced'
    BY <1>5, <1>6, <2>1, <2>2 DEF PresenterPlaced
  <2>7. UnshownInOrder'
    <3>1. \A c \in Batches : Here(c)' /\ Unshown(c)' => Here(c) /\ Unshown(c)
                                                       /\ batch'[c].work = batch[c].work
      BY <1>1, <1>4, <1>8, <2>1, Records DEF Unshown, Leaving, Going, Here
    <3> QED
      BY <1>4, <1>8, <3>1 DEF LaneInv, UnshownInOrder
  <2>8. PhasesInOrder'
    BY <1>4, <1>6, <2>1, <2>2, <2>3 DEF PhasesInOrder
  <2> QED
    BY <1>7, <2>5, <2>6, <2>7, <2>8 DEF PresenterKeeps
<1> QED
  BY <1>9, <1>10

LEMMA PresenterKeepsLane ==
  ASSUME LaneInv, \/ Presenter
                  \/ \E kind \in {"drain", "next", "hold"} : PresenterStart(kind)
  PROVE  PresenterKeeps /\ LaneInv'
<1>1. PresenterKeeps
  BY PresenterWaitsKeeps, PresenterReapKeeps, PresenterReapedKeeps, PresenterChooseKeeps,
     PresenterSelectKeeps, PresenterComposeKeeps, PresenterAuthorizeKeeps, PresenterSwappedKeeps
  DEF Presenter
<1>2. PresenterFrame /\ Shaped'
  BY <1>1 DEF PresenterKeeps, PresenterFrame
<1> QED
  BY <1>1, <1>2, PresenterKeepsWork DEF PresenterKeeps, LaneInv


----------------------------------------------------------------------------
(* The collector.                                                            *)
LEMMA CollectorKeepsLane == ASSUME LaneInv, Collector PROVE LaneInv'
<1>1. Shaped'
  BY CollectorShaped
<1>2. CASE UNCHANGED lane
  <2>1. /\ epoch' = epoch /\ open' = open /\ seq' = seq /\ scene' = scene /\ blocked' = blocked
        /\ fifo' = fifo /\ batch' = batch /\ workBatch' = workBatch /\ retained' = retained
        /\ worker' = worker /\ presenter' = presenter /\ applied' = applied /\ shown' = shown
    BY <1>2 DEF lane, timeline, handles, history
  <2>2. WorkerPlaced' /\ PresenterPlaced' /\ BatchesOccupied'
    BY <2>1 DEF LaneInv, WorkerPlaced, PresenterPlaced, BatchesOccupied, Going, Hold, IsCurrent, Terminal
  <2>3. FifoInOrder' /\ AtTheEnd' /\ HeadAtWork'
    BY <2>1 DEF LaneInv, FifoInOrder, AtTheEnd, HeadAtWork, IsCurrent, Terminal, Here, BeforeAck,
       Uncompiled, Going
  <2>4. AppliedInOrder'
    BY <2>1 DEF LaneInv, AppliedInOrder, acked, Here
  <2>5. AckedInOrder' /\ ShownAcked'
    BY <2>1 DEF LaneInv, AckedInOrder, ShownAcked, acked, Here, AfterAck, Leaving, Going
  <2>6. UnshownInOrder'
    BY <2>1 DEF LaneInv, UnshownInOrder, Here, Unshown, Leaving, Going, Chosen, Hold
  <2>7. PhasesInOrder'
    BY <2>1 DEF LaneInv, PhasesInOrder, Hold, IsCurrent, Terminal
  <2> QED
    BY <1>1, <2>2, <2>3, <2>4, <2>5, <2>6, <2>7 DEF LaneInv
<1>3. CASE SourceQueuePublish
  <2>0. draft.work.epoch = epoch /\ draft.work \in Works
    BY <1>3 DEF LaneInv, Shaped, NoWork, SourceQueuePublish, Admissible
  <2> PICK w \in Works : w = draft.work
    BY <2>0
  <2>1. /\ ~Terminal /\ ~blocked /\ w.epoch = epoch /\ scene \in {0, w.scene} /\ w.seq = seq + 1
        /\ fifo' = Append(fifo, w) /\ seq' = w.seq /\ scene' = w.scene
    BY <1>3 DEF SourceQueuePublish, Admissible
  <2>2. w \in Works
    OBVIOUS
  <2>3. /\ epoch' = epoch /\ open' = open /\ blocked' = blocked
        /\ batch' = batch /\ workBatch' = workBatch /\ retained' = retained
        /\ worker' = worker /\ presenter' = presenter /\ applied' = applied /\ shown' = shown
    BY <1>3 DEF SourceQueuePublish, handles, history
  <2>4. fifo \in Seq(Works) /\ seq \in Nat /\ Len(fifo) \in Nat
    BY LaneAssumption DEF LaneInv, Shaped
  <2>5. w.scene # 0 /\ w.seq \in Nat
    BY <2>2, Records, LaneAssumption
  <2>6. /\ Len(fifo') = Len(fifo) + 1 /\ fifo' # <<>>
        /\ \A i \in 1..Len(fifo) : fifo'[i] = fifo[i]
        /\ fifo'[Len(fifo) + 1] = w
        /\ DOMAIN fifo' = 1..(Len(fifo) + 1)
    BY <2>1, <2>2, <2>4
  <2>7. acked' = acked
    BY <2>1, <2>4, <2>5, <2>6 DEF acked
  <2>8. \A v \in Works : IsCurrent(v) => IsCurrent(v)'
    <3>1. \A v \in Works : v.scene # 0
      BY Records, LaneAssumption
    <3> QED
      BY <2>1, <2>3, <2>5, <3>1 DEF IsCurrent, Terminal
  <2>9. \A b \in Batches : batch[b].st # "free" =>
          batch[b].work \in Works /\ IsCurrent(batch[b].work)' = IsCurrent(batch[b].work)
    <3> SUFFICES ASSUME NEW b \in Batches, batch[b].st # "free"
                 PROVE  /\ batch[b].work \in Works
                        /\ IsCurrent(batch[b].work)' = IsCurrent(batch[b].work)
      OBVIOUS
    <3>1. /\ batch[b].work \in Works
          /\ batch[b].work.epoch = epoch => IsCurrent(batch[b].work)
      BY DEF LaneInv, BatchesOccupied
    <3>2. IsCurrent(batch[b].work)' => batch[b].work.epoch = epoch
      BY <2>3 DEF IsCurrent
    <3>3. IsCurrent(batch[b].work) => IsCurrent(batch[b].work)'
      BY <2>3, <2>8, <3>1
    <3>4. IsCurrent(batch[b].work) \in BOOLEAN /\ IsCurrent(batch[b].work)' \in BOOLEAN
      BY DEF IsCurrent
    <3> QED
      BY <3>1, <3>2, <3>3, <3>4
  <2>10. FifoInOrder'
    <3>1. /\ Len(fifo) <= seq
          /\ \A i \in 1..Len(fifo) : IsCurrent(fifo[i]) /\ fifo[i].seq = seq - Len(fifo) + i
      BY <2>4 DEF LaneInv, FifoInOrder
    <3>2. IsCurrent(w)'
      BY <2>1, <2>3 DEF IsCurrent, Terminal
    <3>3. ASSUME NEW i \in 1..(Len(fifo) + 1)
          PROVE  IsCurrent(fifo[i])' /\ fifo'[i].seq = (seq + 1) - (Len(fifo) + 1) + i
      <4>1. CASE i = Len(fifo) + 1
        <5>1. fifo'[i] = w
          BY <2>6, <4>1
        <5>2. IsCurrent(fifo[i])'
          BY <2>1, <2>3, <5>1 DEF IsCurrent, Terminal
        <5> QED
          BY <2>1, <2>4, <4>1, <5>1, <5>2
      <4>2. CASE i # Len(fifo) + 1
        <5>1. i \in 1..Len(fifo) /\ fifo'[i] = fifo[i]
          BY <2>4, <2>6, <4>2
        <5>2. fifo[i] \in Works
          BY <2>4, <5>1
        <5>3. IsCurrent(fifo[i])'
          BY <2>8, <3>1, <5>1, <5>2 DEF IsCurrent
        <5>4. fifo[i].seq = seq - Len(fifo) + i
          BY <3>1, <5>1
        <5> QED
          BY <2>4, <5>1, <5>3, <5>4
      <4> QED
        BY <4>1, <4>2
    <3>4. Len(fifo') <= seq' /\ seq' = seq + 1
      BY <2>1, <2>4, <2>6, <3>1
    <3> QED
      BY <2>6, <3>3, <3>4 DEF FifoInOrder
  <2>11. WorkerPlaced' /\ AtTheEnd'
    BY <2>1, <2>3 DEF LaneInv, WorkerPlaced, AtTheEnd, Going, Terminal
  <2>12. BatchesOccupied'
    BY <2>3, <2>9 DEF LaneInv, BatchesOccupied
  <2>13. PresenterPlaced'
    <3>1. retained # 0 => retained \in Batches /\ batch[retained].st \in KeptStates
                          /\ IsCurrent(batch[retained].work)
      BY DEF LaneInv, Shaped, PresenterPlaced
    <3>2. (retained # 0 => batch[retained].st \in KeptStates /\ IsCurrent(batch[retained].work))'
      BY <2>3, <2>9, <3>1 DEF KeptStates
    <3>3. presenter.pc \in Showing =>
            presenter.slot \in Batches /\ batch[presenter.slot].st # "free"
      BY PresenterBatch DEF AtSlot, Showing, SlotState
    <3>4. IsCurrent(batch[presenter.slot].work)' /\ presenter.pc \in Showing =>
            IsCurrent(batch[presenter.slot].work)
      BY <2>3, <2>9, <3>3
    <3>5. (presenter.pc \in Showing /\ Hold =>
             presenter.slot = retained \/ ~IsCurrent(batch[presenter.slot].work))'
      BY <2>3, <3>4 DEF LaneInv, PresenterPlaced, Hold
    <3> QED
      BY <2>3, <3>2, <3>5 DEF LaneInv, PresenterPlaced, Hold
  <2>14. HeadAtWork'
    <3>1. fifo # <<>> => Head(fifo') = Head(fifo)
      BY <2>4, <2>6
    <3> QED
      BY <2>3, <2>6, <3>1 DEF LaneInv, HeadAtWork, Here, BeforeAck, Uncompiled, Going
  <2>15. AppliedInOrder'
    <3>1. AppliedInOrder
      BY DEF LaneInv
    <3>2. applied.epoch = epoch => applied.seq <= seq + 1
      BY <2>4, Records, LaneAssumption DEF LaneInv, Shaped, AppliedInOrder, NoWork
    <3>3. seq' = seq + 1
      BY <2>1
    <3> QED
      BY <2>3, <2>7, <3>1, <3>2, <3>3 DEF AppliedInOrder, Here
  <2>16. AckedInOrder' /\ ShownAcked'
    BY <2>3, <2>7 DEF LaneInv, AckedInOrder, ShownAcked, Here, AfterAck, Leaving, Going
  <2>17. UnshownInOrder'
    BY <2>3 DEF LaneInv, UnshownInOrder, Here, Unshown, Leaving, Going, Chosen, Hold
  <2>18. PhasesInOrder'
    <3>1. presenter.pc \in Showing => IsCurrent(batch[presenter.slot].work)' = IsCurrent(batch[presenter.slot].work)
      BY <2>3, <2>9, PresenterBatch DEF AtSlot, Showing, SlotState
    <3> QED
      BY <2>3, <3>1 DEF LaneInv, PhasesInOrder, Hold, Showing
  <2> QED
    BY <1>1, <2>10, <2>11, <2>12, <2>13, <2>14, <2>15, <2>16, <2>17, <2>18 DEF LaneInv
<1> QED
  BY <1>2, <1>3 DEF Collector, DraftBegin, DraftSeal, DraftCancel, PublishRefused, DraftDrop


----------------------------------------------------------------------------
(* An invalidation leaves nothing of the epoch that begins.                  *)
LEMMA InvalidateKeepsLane ==
  ASSUME LaneInv, LogicalInvalidate, open' \in BOOLEAN, epoch' = EpochLimit => ~open', Shaped'
  PROVE  LaneInv'
<1>1. /\ epoch' = (IF Terminal THEN epoch ELSE epoch + 1)
      /\ seq' = 0 /\ blocked' = FALSE /\ fifo' = <<>> /\ retained' = 0
      /\ worker' = worker /\ presenter' = presenter /\ applied' = applied /\ shown' = shown
      /\ batch' = [b \in Batches |-> IF b \in Detachable THEN FreeBatch ELSE batch[b]]
      /\ workBatch' = IF workBatch \in Detachable THEN 0 ELSE workBatch
  BY DEF LogicalInvalidate, history
<1>2. epoch \in 1..EpochLimit /\ epoch' \in Nat
  BY <1>1, LaneAssumption DEF LaneInv, Shaped
<1>3. acked' = 0
  <2>1. Len(<<>>) = 0
    OBVIOUS
  <2>2. seq' = 0 /\ fifo' = <<>>
    BY <1>1
  <2>3. Len(fifo') = 0
    BY <2>1, <2>2
  <2>4. seq' = 0
    BY <2>2
  <2> QED
    BY <2>3, <2>4 DEF acked
<1>4. Terminal => epoch = EpochLimit /\ acked <= 0 /\ seq = 0
  <2>1. Len(fifo) \in Nat
    BY DEF LaneInv, Shaped
  <2> QED
    BY <2>1 DEF LaneInv, AtTheEnd, FifoInOrder, acked, Terminal
<1>5. \A b \in Batches :
        /\ batch'[b] = batch[b] \/ (batch'[b] = FreeBatch /\ b \in Detachable)
        /\ b \notin Detachable => batch'[b] = batch[b]
  BY <1>1
<1>6. \A b \in Batches : b \in Detachable <=> batch[b].st \in {"pending", "completion", "retained", "waiting"}
  BY DEF Detachable, InState
<1>7. \A b \in Batches : batch'[b].st # "free" =>
        /\ batch'[b] = batch[b] /\ batch[b].work \in Works
        /\ batch[b].work.epoch < epoch'
  <2> SUFFICES ASSUME NEW b \in Batches, batch'[b].st # "free"
               PROVE  /\ batch'[b] = batch[b] /\ batch[b].work \in Works
                      /\ batch[b].work.epoch < epoch'
    OBVIOUS
  <2>1. batch'[b] = batch[b]
    BY <1>5, Records
  <2>2. /\ batch[b].work \in Works /\ batch[b].work.epoch <= epoch
        /\ batch[b].work.epoch = epoch => ~Terminal
    BY <2>1 DEF LaneInv, BatchesOccupied, IsCurrent
  <2>3. batch[b].work.epoch \in Nat
    BY <2>2, Records
  <2> QED
    BY <1>1, <1>2, <2>1, <2>2, <2>3
<1>8. \A b \in Batches : ~ Here(b)'
  BY <1>2, <1>7, Records DEF Here
<1>9. \A b \in Batches : batch'[b].st # "free" => ~ IsCurrent(batch[b].work)'
  BY <1>8 DEF Here, IsCurrent
<1>10. WorkerPlaced'
  <2>1. \A b \in Batches : batch'[b].st \in WorkStates => b = workBatch'
    <3> SUFFICES ASSUME NEW b \in Batches, batch'[b].st \in WorkStates PROVE b = workBatch'
      OBVIOUS
    <3>1. batch'[b].st # "free" /\ b \notin Detachable /\ batch'[b] = batch[b]
      BY <1>1, <1>5, Records DEF WorkStates
    <3>2. b = workBatch
      BY <3>1 DEF LaneInv, WorkerPlaced
    <3> QED
      BY <1>1, <3>1, <3>2
  <2>2. workBatch # 0 /\ batch[workBatch].st \in {"compiling", "checking", "finalizing"} =>
          workBatch' = workBatch /\ batch'[workBatch] = batch[workBatch]
    BY <1>1, <1>5, <1>6 DEF LaneInv, Shaped
  <2>3. workBatch = 0 \/ batch[workBatch].st = "waiting" => workBatch' = 0
    <3>1. workBatch \in {0} \cup Batches
      BY DEF LaneInv, Shaped
    <3> QED
      BY <1>1, <1>6, <3>1
  <2> QED
    BY <1>1, <2>1, <2>2, <2>3 DEF LaneInv, WorkerPlaced, Going
<1>11. PresenterPlaced'
  <2>1. presenter.pc \in AtSlot =>
          /\ presenter.slot \in Batches /\ presenter.slot # 0
          /\ batch'[presenter.slot] = batch[presenter.slot]
          /\ batch[presenter.slot].st = SlotState(presenter.pc)
          /\ batch'[presenter.slot].st # "free"
    BY <1>5, <1>6, PresenterBatch, LaneAssumption DEF AtSlot, Showing, SlotState, Batches
  <2>2. presenter.pc \in AtSlot => ~ IsCurrent(batch[presenter.slot].work)'
    BY <1>1, <1>9, <2>1
  <2> QED
    BY <1>1, <2>1, <2>2 DEF PresenterPlaced, AtSlot
<1>12. BatchesOccupied'
  BY <1>2, <1>7, <1>8, Records DEF BatchesOccupied, Here
<1>13. FifoInOrder' /\ AtTheEnd'
  <2>1. Len(<<>>) = 0 /\ DOMAIN <<>> = {}
    OBVIOUS
  <2> QED
    BY <1>1, <2>1 DEF FifoInOrder, AtTheEnd, Terminal
<1>14. HeadAtWork' /\ AckedInOrder' /\ UnshownInOrder'
  <2>1. HeadAtWork'
    BY <1>8 DEF HeadAtWork
  <2>2. AckedInOrder'
    BY <1>8 DEF AckedInOrder
  <2>3. UnshownInOrder'
    BY <1>8 DEF UnshownInOrder
  <2> QED
    BY <2>1, <2>2, <2>3
<1>15. applied.epoch < epoch'
  <2>1. applied.epoch \in Nat /\ applied.epoch <= epoch
    BY Records DEF LaneInv, Shaped, AppliedInOrder
  <2>2. Terminal => applied.epoch # epoch
    <3> SUFFICES ASSUME Terminal, applied.epoch = epoch PROVE FALSE
      OBVIOUS
    <3>1. applied \in Works
      BY <1>2, Records DEF LaneInv, Shaped
    <3>2. applied.seq \in Nat \ {0}
      BY <3>1, Records, LaneAssumption
    <3>3. applied.seq <= 0
      BY <1>4 DEF LaneInv, AppliedInOrder
    <3> QED
      BY <3>2, <3>3
  <2> QED
    BY <1>1, <1>2, <2>1, <2>2
<1>16. AppliedInOrder'
  <2>1. worker.pc = "compile" => batch'[worker.slot] = batch[worker.slot]
    BY <1>5, <1>6, WorkerBatch
  <2> QED
    BY <1>1, <1>2, <1>3, <1>15, <2>1, Records DEF LaneInv, Shaped, AppliedInOrder
<1>17. shown.work.epoch < epoch'
  <2>1. shown.work.epoch \in Nat /\ shown.work.epoch <= epoch
    BY Records DEF LaneInv, Shaped, ShownAcked
  <2>2. Terminal => shown.work.epoch # epoch
    <3> SUFFICES ASSUME Terminal, shown.work.epoch = epoch PROVE FALSE
      OBVIOUS
    <3>1. shown.work \in Works
      BY <1>2, Records DEF LaneInv, Shaped
    <3>2. shown.work.seq \in Nat \ {0}
      BY <3>1, Records, LaneAssumption
    <3>3. shown.work.seq <= acked /\ acked \in Int
      BY DEF LaneInv, Shaped, ShownAcked, acked
    <3> QED
      BY <1>4, <3>2, <3>3
  <2> QED
    BY <1>1, <1>2, <2>1, <2>2
<1>18. ShownAcked'
  BY <1>1, <1>2, <1>17, Records DEF ShownAcked, LaneInv, Shaped
<1>19. PhasesInOrder'
  <2>1. presenter.pc \in Showing => ~ IsCurrent(batch[presenter.slot].work)'
    BY <1>1, <1>5, <1>6, <1>9, PresenterBatch DEF AtSlot, Showing, SlotState
  <2>2. shown.num \in 1..shown.den
    BY DEF LaneInv, PhasesInOrder
  <2> QED
    BY <1>1, <2>1, <2>2 DEF PhasesInOrder, Showing
<1> QED
  BY <1>10, <1>11, <1>12, <1>13, <1>14, <1>16, <1>18, <1>19 DEF LaneInv

LEMMA LifecycleKeepsLane == ASSUME LaneInv, Lifecycle PROVE LaneInv'
<1>1. Shaped'
  BY LifecycleShaped
<1>2. CASE ClaimOpen
  <2>1. /\ epoch' = epoch /\ seq' = seq /\ scene' = scene /\ blocked' = blocked
        /\ fifo' = fifo /\ batch' = batch /\ workBatch' = workBatch /\ retained' = retained
        /\ worker' = worker /\ presenter' = presenter /\ applied' = applied /\ shown' = shown
        /\ ~Terminal
    BY <1>2 DEF ClaimOpen, handles, history
  <2>2. WorkerPlaced' /\ PresenterPlaced' /\ BatchesOccupied'
    BY <2>1 DEF LaneInv, WorkerPlaced, PresenterPlaced, BatchesOccupied, Going, Hold, IsCurrent, Terminal
  <2>3. FifoInOrder' /\ AtTheEnd' /\ HeadAtWork'
    BY <2>1 DEF LaneInv, FifoInOrder, AtTheEnd, HeadAtWork, IsCurrent, Terminal, Here, BeforeAck,
       Uncompiled, Going
  <2>4. AppliedInOrder'
    BY <2>1 DEF LaneInv, AppliedInOrder, acked, Here
  <2>5. AckedInOrder' /\ ShownAcked'
    BY <2>1 DEF LaneInv, AckedInOrder, ShownAcked, acked, Here, AfterAck, Leaving, Going
  <2>6. UnshownInOrder'
    BY <2>1 DEF LaneInv, UnshownInOrder, Here, Unshown, Leaving, Going, Chosen, Hold
  <2>7. PhasesInOrder'
    BY <2>1 DEF LaneInv, PhasesInOrder, Hold, IsCurrent, Terminal
  <2> QED
    BY <1>1, <2>2, <2>3, <2>4, <2>5, <2>6, <2>7 DEF LaneInv
<1>3. CASE ~ClaimOpen
  <2>1. LogicalInvalidate /\ open' \in BOOLEAN /\ (epoch' = EpochLimit => ~open')
    BY <1>3 DEF Lifecycle, LifecycleClose, PresentationReset, TimelineInvalidate, LaneInv, Shaped
  <2> QED
    BY <1>1, <2>1, InvalidateKeepsLane
<1> QED
  BY <1>2, <1>3

----------------------------------------------------------------------------
(* What the worker does to the batches: those the presenter may be at it     *)
(* leaves alone, but for pending ones it frees; and the one it makes         *)
(* available it either acknowledged before, or acknowledges now.             *)
WorkerFrame ==
  /\ Shaped'
  /\ UNCHANGED <<epoch, open, seq, scene, retained, presenter, shown>>
  /\ fifo' = fifo \/ (fifo # <<>> /\ fifo' = Tail(fifo))
  /\ blocked' => blocked \/ ~Terminal
  /\ \A c \in Batches :
       /\ batch[c].st \in ShownStates =>
            batch'[c] = batch[c] \/ (batch[c].st = "pending" /\ batch'[c] = FreeBatch)
       /\ batch'[c].st \in ShownStates =>
            \/ batch'[c] = batch[c]
            \/ Leaving(c) /\ batch'[c].st = "pending" /\ batch'[c].work = batch[c].work
       /\ batch'[c].st # "free" =>
            \/ batch[c].st # "free" /\ batch'[c].work = batch[c].work
            \/ batch'[c].work \in Works /\ IsCurrent(batch[c].work)'
       /\ Leaving(c)' =>
            \/ Leaving(c) /\ batch'[c].work = batch[c].work /\ fifo' = fifo
            \/ ~Leaving(c) /\ fifo # <<>> /\ fifo' = Tail(fifo) /\ batch'[c].work = Head(fifo)
       /\ batch'[c].st \in WorkStates => c = workBatch'

(* The head of the FIFO is the first work not acknowledged.                  *)
LEMMA FifoHead ==
  ASSUME LaneInv
  PROVE  /\ fifo \in Seq(Works) /\ Len(fifo) \in Nat /\ seq \in Nat /\ acked \in Nat
         /\ acked = seq - Len(fifo)
         /\ fifo # <<>> => /\ Len(fifo) >= 1 /\ acked + 1 <= seq
                           /\ Head(fifo) \in Works /\ IsCurrent(Head(fifo))
                           /\ Head(fifo).seq = acked + 1
<1>1. fifo \in Seq(Works) /\ Len(fifo) \in Nat /\ seq \in Nat
  BY LaneAssumption DEF LaneInv, Shaped
<1>2. Len(fifo) <= seq /\ \A i \in 1..Len(fifo) : IsCurrent(fifo[i]) /\ fifo[i].seq = seq - Len(fifo) + i
  BY <1>1 DEF LaneInv, FifoInOrder
<1>3. acked = seq - Len(fifo) /\ acked \in Nat
  BY <1>1, <1>2 DEF acked
<1>4. ASSUME fifo # <<>>
      PROVE  /\ Len(fifo) >= 1 /\ Head(fifo) \in Works /\ IsCurrent(Head(fifo))
             /\ Head(fifo).seq = acked + 1
  <2>1. Len(fifo) >= 1 /\ 1 \in 1..Len(fifo) /\ Head(fifo) = fifo[1] /\ Head(fifo) \in Works
    BY <1>1, <1>4
  <2>2. IsCurrent(fifo[1]) /\ fifo[1].seq = seq - Len(fifo) + 1
    BY <1>2, <2>1
  <2> QED
    BY <1>3, <2>1, <2>2
<1> QED
  BY <1>1, <1>3, <1>4

LEMMA FifoTail ==
  ASSUME LaneInv, fifo' = fifo \/ (fifo # <<>> /\ fifo' = Tail(fifo)),
         UNCHANGED <<epoch, seq, scene>>
  PROVE  /\ FifoInOrder'
         /\ fifo' = fifo => acked' = acked
         /\ fifo # <<>> /\ fifo' = Tail(fifo) => acked' = acked + 1
<1>1. fifo \in Seq(Works) /\ Len(fifo) \in Nat /\ seq \in Nat
  BY FifoHead
<1>2. Len(fifo) <= seq /\ \A i \in 1..Len(fifo) : IsCurrent(fifo[i]) /\ fifo[i].seq = seq - Len(fifo) + i
  BY <1>1 DEF LaneInv, FifoInOrder
<1>3. CASE fifo' = fifo
  <2>1. FifoInOrder'
    BY <1>3 DEF LaneInv, FifoInOrder, IsCurrent, Terminal
  <2>2. acked' = acked
    BY <1>3 DEF acked
  <2>3. fifo # <<>> => fifo # Tail(fifo)
    <3>1. fifo # <<>> => Len(Tail(fifo)) = Len(fifo) - 1
      BY <1>1
    <3> QED
      BY <1>1, <3>1
  <2> QED
    BY <1>3, <2>1, <2>2, <2>3
<1>4. CASE fifo # <<>> /\ fifo' = Tail(fifo)
  <2>1. /\ Len(Tail(fifo)) = Len(fifo) - 1 /\ Len(fifo) >= 1
        /\ DOMAIN Tail(fifo) = 1..(Len(fifo) - 1)
        /\ \A i \in 1..(Len(fifo) - 1) : Tail(fifo)[i] = fifo[i + 1]
    BY <1>1, <1>4
  <2>2. /\ Len(fifo') = Len(fifo) - 1 /\ Len(fifo) >= 1
        /\ DOMAIN fifo' = 1..(Len(fifo) - 1)
        /\ \A i \in 1..(Len(fifo) - 1) : fifo'[i] = fifo[i + 1]
    BY <1>4, <2>1
  <2>3. acked' = acked + 1
    BY <1>1, <2>2 DEF acked
  <2>4. ASSUME NEW i \in 1..(Len(fifo) - 1)
        PROVE  IsCurrent(fifo[i])' /\ fifo'[i].seq = seq' - Len(fifo') + i
    <3>1. i + 1 \in 1..Len(fifo)
      BY <1>1
    <3>2. IsCurrent(fifo[i + 1]) /\ fifo[i + 1].seq = seq - Len(fifo) + (i + 1)
      BY <1>2, <3>1
    <3>3. IsCurrent(fifo[i])'
      BY <2>2, <3>2 DEF IsCurrent, Terminal
    <3>4. fifo'[i].seq = seq' - Len(fifo') + i
      BY <1>1, <2>2, <3>2
    <3> QED
      BY <3>3, <3>4
  <2>5. Len(fifo') <= seq'
    BY <1>1, <1>2, <2>2
  <2>6. FifoInOrder'
    BY <2>2, <2>4, <2>5 DEF FifoInOrder
  <2>7. fifo' # fifo
    BY <1>1, <2>2
  <2> QED
    BY <2>3, <2>6, <2>7
<1> QED
  BY <1>3, <1>4


(* Whatever is shown or going to be does not depend on the worker.           *)
LEMMA WorkerKeepsShown ==
  ASSUME LaneInv, WorkerFrame
  PROVE  /\ PresenterPlaced' /\ BatchesOccupied' /\ FifoInOrder' /\ AtTheEnd'
         /\ AckedInOrder' /\ ShownAcked' /\ UnshownInOrder' /\ PhasesInOrder'
<1>1. /\ epoch' = epoch /\ open' = open /\ seq' = seq /\ scene' = scene /\ retained' = retained
      /\ presenter' = presenter /\ shown' = shown
  BY DEF WorkerFrame
<1>2. /\ \A c \in Batches : batch[c] \in BatchRecord /\ batch'[c] \in BatchRecord
      /\ \A c \in Batches : batch[c].st \in BatchStates /\ batch'[c].st \in BatchStates
      /\ epoch \in Nat
  BY LaneAssumption DEF WorkerFrame, LaneInv, Shaped, BatchRecord
<1>3. FifoInOrder' /\ acked' \in {acked, acked + 1}
  BY FifoTail DEF WorkerFrame
<1>4. acked \in Nat
  BY FifoHead
<1>5. \A w : IsCurrent(w)' = IsCurrent(w)
  BY <1>1 DEF IsCurrent, Terminal
<1>6. AtTheEnd'
  BY <1>1 DEF LaneInv, AtTheEnd, WorkerFrame, Terminal
<1>7. BatchesOccupied'
  <2> SUFFICES ASSUME NEW c \in Batches, batch'[c].st # "free"
               PROVE  /\ batch'[c].work \in Works /\ batch'[c].work.epoch <= epoch
                      /\ batch'[c].work.epoch = epoch => IsCurrent(batch[c].work)'
    BY <1>1 DEF BatchesOccupied
  <2>1. CASE batch[c].st # "free" /\ batch'[c].work = batch[c].work
    BY <1>1, <2>1 DEF LaneInv, BatchesOccupied, IsCurrent, Terminal
  <2>2. CASE batch'[c].work \in Works /\ IsCurrent(batch[c].work)'
    BY <1>1, <1>2, <2>2 DEF IsCurrent
  <2> QED
    BY <2>1, <2>2 DEF WorkerFrame
<1>8. presenter.pc \in AtSlot =>
        /\ presenter.slot \in Batches /\ batch'[presenter.slot] = batch[presenter.slot]
        /\ batch[presenter.slot].st = SlotState(presenter.pc)
  BY PresenterBatch DEF WorkerFrame, AtSlot, Showing, SlotState, ShownStates
<1>9. retained # 0 =>
        /\ retained \in Batches /\ batch'[retained] = batch[retained]
        /\ batch[retained].st \in KeptStates
  BY DEF LaneInv, Shaped, PresenterPlaced, WorkerFrame, KeptStates, ShownStates
<1>10. PresenterPlaced'
  <2>1. PresenterPlaced
    BY DEF LaneInv
  <2>2. (retained # 0 => batch[retained].st \in KeptStates /\ IsCurrent(batch[retained].work))'
    BY <1>1, <1>9, <2>1 DEF PresenterPlaced, IsCurrent, Terminal
  <2>3. presenter.pc \in AtSlot =>
          IsCurrent(batch[presenter.slot].work)' = IsCurrent(batch[presenter.slot].work)
    BY <1>1, <1>8 DEF IsCurrent, Terminal
  <2> QED
    BY <1>1, <1>8, <2>1, <2>2, <2>3 DEF PresenterPlaced, Hold, AtSlot
<1>11. PhasesInOrder'
  <2>1. presenter.pc \in Showing =>
          /\ batch'[presenter.slot] = batch[presenter.slot]
          /\ IsCurrent(batch[presenter.slot].work)' = IsCurrent(batch[presenter.slot].work)
    BY <1>1, <1>8 DEF IsCurrent, Terminal, AtSlot
  <2> QED
    BY <1>1, <1>9, <2>1 DEF LaneInv, PhasesInOrder, Hold, Showing
<1>12. ShownAcked'
  <2>1. shown.work.seq \in Nat
    BY Records, LaneAssumption DEF LaneInv, Shaped, NoWork
  <2> QED
    BY <1>1, <1>3, <1>4, <2>1 DEF LaneInv, ShownAcked
(* A batch that is available was before, or is acknowledged by this step.    *)
<1>13. ASSUME NEW c \in Batches, Here(c)', AfterAck(c)'
       PROVE  \/ Here(c) /\ AfterAck(c) /\ batch'[c].work = batch[c].work
              \/ /\ Leaving(c)' /\ ~Leaving(c) /\ acked' = acked + 1
                 /\ batch'[c].work.seq = acked + 1
  <2>1. CASE batch'[c].st \in ShownStates
    BY <1>1, <1>2, <1>13, <2>1 DEF WorkerFrame, Here, AfterAck, Leaving, ShownStates
  <2>2. CASE Leaving(c)'
    <3>1. CASE Leaving(c) /\ batch'[c].work = batch[c].work
      BY <1>1, <1>13, <3>1 DEF Here, AfterAck, Leaving
    <3>2. CASE ~Leaving(c) /\ fifo # <<>> /\ fifo' = Tail(fifo) /\ batch'[c].work = Head(fifo)
      <4>1. acked' = acked + 1
        BY <3>2, FifoTail DEF WorkerFrame
      <4>2. Head(fifo).seq = acked + 1
        BY <3>2, FifoHead
      <4> QED
        BY <2>2, <3>2, <4>1, <4>2
    <3> QED
      BY <2>2, <3>1, <3>2 DEF WorkerFrame
  <2> QED
    BY <1>13, <2>1, <2>2 DEF AfterAck
<1>14. \A c \in Batches : Here(c) /\ AfterAck(c) =>
         batch[c].work.seq <= acked /\ batch[c].work.seq \in Nat
  BY Records, LaneAssumption DEF LaneInv, AckedInOrder, BatchesOccupied, Here
<1>15. ASSUME NEW c \in Batches, Leaving(c)', Leaving(c)
       PROVE  batch'[c].work = batch[c].work /\ acked' = acked
  BY <1>15, FifoTail DEF WorkerFrame
<1>16. \A b, c \in Batches : Leaving(b)' /\ Leaving(c)' => b = c
  BY DEF WorkerFrame, Leaving, WorkStates
<1>17. AckedInOrder'
  <2>1. ASSUME NEW c \in Batches, Here(c)', AfterAck(c)' PROVE batch'[c].work.seq <= acked'
    BY <1>3, <1>4, <1>13, <1>14, <2>1
  <2>2. ASSUME NEW c \in Batches, Here(c)', Leaving(c)' PROVE batch'[c].work.seq = acked'
    <3>1. AfterAck(c)'
      BY <2>2 DEF AfterAck
    <3>2. CASE Leaving(c)
      <4>1. Here(c)
        BY <1>1, <1>15, <2>2, <3>2 DEF Here, Leaving
      <4> QED
        BY <1>15, <2>2, <3>2, <4>1 DEF LaneInv, AckedInOrder
    <3>3. CASE ~Leaving(c)
      <4>1. fifo # <<>> /\ fifo' = Tail(fifo) /\ batch'[c].work = Head(fifo)
        BY <2>2, <3>3 DEF WorkerFrame
      <4>2. acked' = acked + 1 /\ Head(fifo).seq = acked + 1
        BY <4>1, FifoHead, FifoTail DEF WorkerFrame
      <4> QED
        BY <4>1, <4>2
    <3> QED
      BY <3>2, <3>3
  <2>3. ASSUME NEW b \in Batches, NEW c \in Batches, b # c, Here(b)', Here(c)',
               AfterAck(b)', AfterAck(c)'
        PROVE  batch'[b].work.seq # batch'[c].work.seq
    <3>1. CASE Leaving(b)' /\ ~Leaving(b) /\ acked' = acked + 1 /\ batch'[b].work.seq = acked + 1
      BY <1>4, <1>13, <1>14, <1>16, <2>3, <3>1
    <3>2. CASE Leaving(c)' /\ ~Leaving(c) /\ acked' = acked + 1 /\ batch'[c].work.seq = acked + 1
      BY <1>4, <1>13, <1>14, <1>16, <2>3, <3>2
    <3>3. CASE /\ Here(b) /\ AfterAck(b) /\ batch'[b].work = batch[b].work
               /\ Here(c) /\ AfterAck(c) /\ batch'[c].work = batch[c].work
      BY <2>3, <3>3 DEF LaneInv, AckedInOrder
    <3> QED
      BY <1>13, <2>3, <3>1, <3>2, <3>3
  <2> QED
    BY <2>1, <2>2, <2>3 DEF AckedInOrder
<1>18. UnshownInOrder'
  <2>1. \A c \in Batches : Chosen(c)' <=> Chosen(c)
    BY <1>1 DEF Chosen, Hold
  <2>2. \A c \in Batches : Chosen(c) => batch[c].st \in ShownStates /\ batch'[c] = batch[c]
    BY <1>8 DEF Chosen, AtSlot, Showing, SlotState, ShownStates
  <2>3. ASSUME NEW c \in Batches, Here(c)', Unshown(c)'
        PROVE  \/ Here(c) /\ Unshown(c) /\ batch'[c].work = batch[c].work
               \/ batch'[c].work.seq = acked + 1
    <3>1. CASE Chosen(c)'
      BY <1>1, <2>1, <2>2, <2>3, <3>1 DEF Here, Unshown
    <3>2. CASE batch'[c].st = "pending"
      BY <1>1, <1>2, <2>3, <3>2 DEF WorkerFrame, Here, Unshown, ShownStates, Leaving
    <3>3. CASE Leaving(c)'
      <4>1. CASE Leaving(c)
        BY <1>1, <1>15, <2>3, <3>3, <4>1 DEF Here, Unshown, Leaving
      <4>2. CASE ~Leaving(c)
        <5>1. AfterAck(c)'
          BY <3>3 DEF AfterAck
        <5>2. ~(batch'[c].st \in ShownStates)
          BY <3>3 DEF Leaving, ShownStates
        <5>3. fifo # <<>> /\ batch'[c].work = Head(fifo)
          BY <3>3, <4>2 DEF WorkerFrame
        <5> QED
          BY <5>3, FifoHead
      <4> QED
        BY <4>1, <4>2
    <3> QED
      BY <2>3, <3>1, <3>2, <3>3 DEF Unshown
  <2>4. ASSUME NEW c \in Batches, Here(c)', Unshown(c)', shown'.work.epoch = epoch'
        PROVE  shown'.work.seq < batch'[c].work.seq
    <3>1. shown.work.seq <= acked /\ shown.work.seq \in Nat
      BY <1>1, <2>4, Records, LaneAssumption DEF LaneInv, Shaped, ShownAcked, NoWork
    <3>2. CASE batch'[c].work.seq = acked + 1
      BY <1>1, <1>4, <3>1, <3>2
    <3>3. CASE Here(c) /\ Unshown(c) /\ batch'[c].work = batch[c].work
      BY <1>1, <2>4, <3>3 DEF LaneInv, UnshownInOrder
    <3> QED
      BY <2>3, <2>4, <3>2, <3>3
  <2>5. ASSUME NEW b \in Batches, NEW c \in Batches, b # c, Here(b)', Here(c)',
               Chosen(b)', Unshown(c)'
        PROVE  batch'[b].work.seq < batch'[c].work.seq
    <3>1. Chosen(b) /\ Here(b) /\ batch'[b].work = batch[b].work /\ AfterAck(b)
      BY <1>1, <2>1, <2>2, <2>5 DEF Here, AfterAck
    <3>2. CASE batch'[c].work.seq = acked + 1
      BY <1>4, <1>14, <3>1, <3>2
    <3>3. CASE Here(c) /\ Unshown(c) /\ batch'[c].work = batch[c].work
      BY <2>5, <3>1, <3>3 DEF LaneInv, UnshownInOrder
    <3> QED
      BY <2>3, <2>5, <3>2, <3>3
  <2> QED
    BY <2>4, <2>5 DEF UnshownInOrder
<1> QED
  BY <1>3, <1>6, <1>7, <1>10, <1>11, <1>12, <1>17, <1>18


(* The worker changes the batch at work, and nothing else.                   *)
LEMMA WorkerTouches ==
  ASSUME LaneInv,
         UNCHANGED <<epoch, open, owned, seq, scene, draft, retained, presenter, shown>>,
         fifo' = fifo \/ (fifo # <<>> /\ fifo' = Tail(fifo)),
         blocked' \in BOOLEAN, blocked' => blocked \/ ~Terminal,
         worker' \in WorkerShape, applied' \in Works \cup {NoWork},
         NEW b \in Batches, workBatch \in {0, b}, workBatch' \in {0, b},
         NEW r \in BatchRecord, batch' = [batch EXCEPT ![b] = r],
         batch[b].st \in WorkStates \cup {"free"},
         \/ r.st = "free"
         \/ /\ r.st \in WorkStates /\ workBatch' = b
            /\ \/ batch[b].st # "free" /\ r.work = batch[b].work
               \/ r.work \in Works /\ IsCurrent(r.work),
         Leaving(b)' =>
            \/ Leaving(b) /\ r.work = batch[b].work /\ fifo' = fifo
            \/ ~Leaving(b) /\ fifo # <<>> /\ fifo' = Tail(fifo) /\ r.work = Head(fifo)
  PROVE  WorkerFrame
<1>1. batch \in [Batches -> BatchRecord] /\ batch' \in [Batches -> BatchRecord]
      /\ fifo \in Seq(Works)
  BY DEF LaneInv, Shaped
<1>2. Shaped'
  BY <1>1, FifoHead, WorkerKeepsShape
<1>3. batch'[b] = r /\ \A c \in Batches : c # b => batch'[c] = batch[c]
  BY <1>1
<1>4. \A c \in Batches : c # b => batch[c].st \notin WorkStates
  BY LaneAssumption DEF LaneInv, WorkerPlaced, Batches
<1>5. \A c \in Batches : c # b => ~Leaving(c)'
  BY <1>3, <1>4 DEF Leaving, WorkStates
<1>6. r.st \notin ShownStates /\ batch[b].st \notin ShownStates
  BY DEF WorkStates, ShownStates
<1>7. r.st # "free" =>
        \/ batch[b].st # "free" /\ batch'[b].work = batch[b].work
        \/ batch'[b].work \in Works /\ IsCurrent(batch[b].work)'
  BY <1>3 DEF WorkStates, IsCurrent, Terminal
<1>8. ASSUME NEW c \in Batches
      PROVE  /\ batch[c].st \in ShownStates => batch'[c] = batch[c]
             /\ batch'[c].st \in ShownStates => batch'[c] = batch[c]
             /\ batch'[c].st # "free" =>
                  \/ batch[c].st # "free" /\ batch'[c].work = batch[c].work
                  \/ batch'[c].work \in Works /\ IsCurrent(batch[c].work)'
             /\ Leaving(c)' =>
                  \/ Leaving(c) /\ batch'[c].work = batch[c].work /\ fifo' = fifo
                  \/ ~Leaving(c) /\ fifo # <<>> /\ fifo' = Tail(fifo) /\ batch'[c].work = Head(fifo)
             /\ batch'[c].st \in WorkStates => c = workBatch'
  <2>1. CASE c = b
    BY <1>3, <1>6, <1>7, <2>1 DEF WorkStates
  <2>2. CASE c # b
    BY <1>3, <1>4, <1>5, <2>2
  <2> QED
    BY <2>1, <2>2
<1> QED
  BY <1>2, <1>8 DEF WorkerFrame


(* The worker is through with its batch, whose work is applied or not.       *)
LEMMA WorkerEnds ==
  ASSUME LaneInv,
         UNCHANGED <<epoch, open, owned, seq, scene, draft, retained, presenter, shown, blocked>>,
         fifo' = fifo \/ (fifo # <<>> /\ fifo' = Tail(fifo)),
         worker' \in WorkerShape,
         worker'.pc = "idle" \/ (worker'.pc = "clean" /\ worker'.next = "idle"),
         applied' \in Works \cup {NoWork},
         workBatch \in Batches, batch[workBatch].st \in WorkStates,
         batch' = Detached(workBatch), workBatch' = 0,
         applied'.epoch <= epoch,
         applied'.epoch < epoch => acked' = 0,
         applied'.epoch = epoch => applied'.seq \in {acked', acked' + 1} /\ applied'.seq <= seq,
         applied'.epoch = epoch /\ applied'.seq = acked' + 1 => blocked
  PROVE  LaneInv'
<1> PICK b \in Batches : b = workBatch
  OBVIOUS
<1>1. batch \in [Batches -> BatchRecord] /\ blocked \in BOOLEAN
  BY DEF LaneInv, Shaped
<1>2. batch' = [batch EXCEPT ![b] = FreeBatch] /\ batch'[b] = FreeBatch
  BY <1>1 DEF Detached
<1>3. ~Leaving(b)'
  BY <1>2, Records DEF Leaving
<1>4. WorkerFrame
  BY <1>1, <1>2, <1>3, Records, WorkerTouches
<1>5. \A c \in Batches : batch'[c].st \notin WorkStates
  <2>1. \A c \in Batches : batch'[c].st \in WorkStates => c = 0
    BY <1>4 DEF WorkerFrame
  <2> QED
    BY <2>1, LaneAssumption DEF Batches
<1>6. WorkerPlaced'
  BY <1>5 DEF WorkerPlaced, Going
<1>7. HeadAtWork'
  BY <1>5 DEF HeadAtWork, BeforeAck, Uncompiled, WorkStates
<1>8. AppliedInOrder'
  BY DEF AppliedInOrder
<1> QED
  BY <1>4, <1>6, <1>7, <1>8, WorkerKeepsShown DEF LaneInv, WorkerFrame

(* A result that went stale belongs to an epoch that is over.                *)
LEMMA StaleIsOver ==
  ASSUME LaneInv, worker.pc \in {"compile", "poll", "failed"},
         ~StillHead(batch[worker.slot].work)
  PROVE  ~Here(worker.slot)
<1> PICK b \in Batches : b = worker.slot /\ b = workBatch
  BY WorkerBatch
<1>1. BeforeAck(b)
  BY WorkerBatch DEF BeforeAck, Uncompiled, Going
<1>2. Here(b) => fifo # <<>> /\ Head(fifo) = batch[b].work /\ IsCurrent(batch[b].work)
  BY <1>1 DEF LaneInv, HeadAtWork, BatchesOccupied, Here
<1> QED
  BY <1>2 DEF StillHead

LEMMA OutcomeStaleKeeps ==
  ASSUME LaneInv, worker.pc \in {"compile", "poll"},
         UNCHANGED <<epoch, open, owned, seq, scene, draft, retained, presenter, shown>>,
         NEW r \in BatchRecord, r.work = batch[worker.slot].work,
         OutcomeStale(worker.slot, r),
         applied' = applied \/ (worker.pc = "compile" /\ applied' = r.work)
  PROVE  LaneInv'
<1> PICK b \in Batches : b = worker.slot /\ b = workBatch
  BY WorkerBatch
<1>1. batch[b].work \in Works /\ batch[b].st \in WorkStates
  BY WorkerBatch DEF WorkStates
<1>2. ~Here(b)
  BY StaleIsOver DEF OutcomeStale
<1>3. batch[b].work.epoch < epoch
  <2>1. batch[b].work.epoch <= epoch /\ batch[b].work.epoch # epoch
    BY <1>1, <1>2 DEF LaneInv, BatchesOccupied, Here, WorkStates
  <2> QED
    BY <1>1, <2>1, Records DEF LaneInv, Shaped
<1>4. fifo' = fifo /\ blocked' = blocked /\ batch' = Detached(b) /\ workBatch' = 0
      /\ WorkerCleans(Of(r.work, r.has), b, "idle")
  BY DEF OutcomeStale, FreeWork
<1>5. acked' = acked
  BY <1>4 DEF acked
<1>6. Of(r.work, r.has) \in SUBSET Objects
  BY <1>1 DEF Of, Objects, BatchRecord
<1>7. worker' \in WorkerShape /\ (worker'.pc = "idle" \/ (worker'.pc = "clean" /\ worker'.next = "idle"))
  BY <1>4, <1>6, WorkerGoes
<1>8. CASE applied' = applied
  <2>1. applied.epoch = epoch /\ applied.seq = acked + 1 => blocked
    BY <1>2 DEF LaneInv, AppliedInOrder
  <2>2. applied' \in Works \cup {NoWork}
    BY <1>8 DEF LaneInv, Shaped
  <2>3. /\ applied'.epoch <= epoch
        /\ applied'.epoch < epoch => acked' = 0
        /\ applied'.epoch = epoch => applied'.seq \in {acked', acked' + 1} /\ applied'.seq <= seq
    BY <1>5, <1>8 DEF LaneInv, AppliedInOrder
  <2> QED
    BY <1>1, <1>4, <1>5, <1>7, <1>8, <2>1, <2>2, <2>3, WorkerEnds
<1>9. CASE worker.pc = "compile" /\ applied' = r.work
  <2>1. applied.epoch \in Nat /\ epoch \in Nat /\ batch[b].work.epoch \in Nat
    BY <1>1, Records, LaneAssumption DEF LaneInv, Shaped
  <2>2. applied.epoch <= batch[b].work.epoch
    BY <1>9, <2>1 DEF LaneInv, AppliedInOrder
  <2>3. acked = 0
    BY <1>3, <2>1, <2>2 DEF LaneInv, AppliedInOrder
  <2>4. applied' \in Works \cup {NoWork} /\ applied'.epoch < epoch
    BY <1>1, <1>3, <1>9
  <2>5. applied'.epoch <= epoch /\ applied'.epoch # epoch
    BY <2>1, <2>4, <1>9
  <2> QED
    BY <1>1, <1>4, <1>5, <1>7, <2>3, <2>4, <2>5, WorkerEnds
<1> QED
  BY <1>8, <1>9


(* The work whose result still counts is the head of the FIFO.               *)
LEMMA HeadIsNext ==
  ASSUME LaneInv, NEW w, StillHead(w)
  PROVE  /\ w \in Works /\ w.epoch = epoch /\ w.seq = acked + 1 /\ w.seq <= seq
         /\ fifo # <<>> /\ Head(fifo) = w /\ ~Terminal /\ epoch \in Nat /\ acked \in Nat
BY FifoHead, LaneAssumption DEF StillHead, IsCurrent, LaneInv, Shaped

LEMMA OutcomeWouldBlockKeeps ==
  ASSUME LaneInv, worker.pc = "compile",
         UNCHANGED <<epoch, open, owned, seq, scene, draft, retained, presenter, shown, applied>>,
         OutcomeWouldBlock(worker.slot, batch[worker.slot])
  PROVE  LaneInv'
<1> PICK b \in Batches : b = worker.slot /\ b = workBatch
  BY WorkerBatch
<1>1. batch[b].st = "compiling"
  BY WorkerBatch
<1>2. fifo' = fifo /\ blocked' = blocked /\ batch' = Detached(b) /\ workBatch' = 0 /\ WorkerTo("idle", 0)
  BY DEF OutcomeWouldBlock, FreeWork
<1>3. acked' = acked
  BY <1>2 DEF acked
<1>4. worker' \in WorkerShape /\ worker'.pc = "idle"
  BY <1>2, WorkerIsAt
<1>5. applied.epoch = epoch /\ applied.seq = acked + 1 => blocked
  BY <1>1 DEF LaneInv, AppliedInOrder
<1>6. applied' \in Works \cup {NoWork}
  BY DEF LaneInv, Shaped
<1>7. /\ applied'.epoch <= epoch
      /\ applied'.epoch < epoch => acked' = 0
      /\ applied'.epoch = epoch => applied'.seq \in {acked', acked' + 1} /\ applied'.seq <= seq
  BY <1>3 DEF LaneInv, AppliedInOrder
<1> QED
  BY <1>1, <1>2, <1>3, <1>4, <1>5, <1>6, <1>7, WorkerEnds DEF WorkStates

LEMMA OutcomeAppliedKeeps ==
  ASSUME LaneInv, worker.pc = "compile",
         UNCHANGED <<epoch, open, owned, seq, scene, draft, retained, presenter, shown>>,
         applied' = batch[worker.slot].work,
         OutcomeApplied(worker.slot, batch[worker.slot])
  PROVE  LaneInv' /\ acked' = acked + 1
<1> PICK b \in Batches : b = worker.slot /\ b = workBatch
  BY WorkerBatch
<1> DEFINE w == batch[b].work
<1>1. batch[b].st = "compiling" /\ Of(batch[b].work, batch[b].has) \in SUBSET Objects
  BY WorkerBatch
<1>2. /\ StillHead(w) /\ fifo' = Tail(fifo) /\ blocked' = blocked /\ batch' = Detached(b)
      /\ workBatch' = 0 /\ WorkerCleans(Of(batch[b].work, batch[b].has), b, "idle")
  BY DEF OutcomeApplied, FreeWork
<1>3. /\ w \in Works /\ w.epoch = epoch /\ w.seq = acked + 1 /\ w.seq <= seq
      /\ fifo # <<>> /\ epoch \in Nat /\ acked \in Nat
  BY <1>2, HeadIsNext
<1>4. acked' = acked + 1
  BY <1>2, <1>3, FifoTail
<1>5. worker' \in WorkerShape /\ (worker'.pc = "idle" \/ (worker'.pc = "clean" /\ worker'.next = "idle"))
  BY <1>1, <1>2, WorkerGoes
<1>6. applied'.epoch = epoch /\ applied'.seq = acked' /\ applied'.seq <= seq /\ applied' \in Works
  BY <1>3, <1>4
<1>7. applied'.seq # acked' + 1
  BY <1>3, <1>4, <1>6
<1> HIDE DEF w
<1> QED
  BY <1>1, <1>2, <1>3, <1>4, <1>5, <1>6, <1>7, WorkerEnds DEF WorkStates

(* A failure blocks the lane with the head still in the FIFO.                *)
LEMMA OutcomeFailedKeeps ==
  ASSUME LaneInv, worker.pc \in {"compile", "poll"},
         UNCHANGED <<epoch, open, owned, seq, scene, draft, retained, presenter, shown, applied>>,
         NEW r \in BatchRecord, r.work = batch[worker.slot].work,
         OutcomeFailed(worker.slot, r)
  PROVE  LaneInv'
<1> PICK b \in Batches : b = worker.slot /\ b = workBatch
  BY WorkerBatch
<1> DEFINE new == [r EXCEPT !.st = "finalizing", !.has = {"commit"}]
<1>1. batch[b].work \in Works /\ batch[b].st \in {"compiling", "checking"} /\ b # 0
  BY WorkerBatch, LaneAssumption DEF Batches
<1>2. /\ StillHead(r.work) /\ blocked' = TRUE /\ fifo' = fifo /\ workBatch' = workBatch
      /\ batch' = [batch EXCEPT ![b] = new]
      /\ WorkerCleans(Of(r.work, r.has \ {"commit"}), b, "failed")
  BY DEF OutcomeFailed
<1>3. new \in BatchRecord /\ new.st = "finalizing" /\ new.work = batch[b].work
  BY DEF BatchRecord, BatchStates, Kinds
<1>4. ~Terminal /\ fifo # <<>> /\ Head(fifo) = batch[b].work
  BY <1>2, HeadIsNext
<1>5. Of(r.work, r.has \ {"commit"}) \in SUBSET Objects
  BY <1>1 DEF Of, Objects, BatchRecord
<1>6. worker' \in WorkerShape /\ worker'.pc = "clean" /\ worker'.next = "failed" /\ worker'.slot = b
  BY <1>2, <1>5, WorkerGoes
<1> HIDE DEF new
<1>7. batch \in [Batches -> BatchRecord] /\ applied \in Works \cup {NoWork}
  BY DEF LaneInv, Shaped
<1>8. batch'[b] = new /\ \A c \in Batches : c # b => batch'[c] = batch[c]
  BY <1>2, <1>7
<1>9. ~Leaving(b)'
  BY <1>6 DEF Leaving, Going
<1>10. WorkerFrame
  BY <1>1, <1>2, <1>3, <1>4, <1>6, <1>7, <1>9, WorkerTouches DEF WorkStates
<1>11. WorkerPlaced'
  BY <1>1, <1>2, <1>3, <1>6, <1>8, <1>10 DEF WorkerPlaced, Going, WorkerFrame
<1>12. \A c \in Batches : BeforeAck(c)' => c = b
  BY <1>2, <1>11 DEF WorkerPlaced, BeforeAck, Uncompiled, WorkStates
<1>13. HeadAtWork'
  BY <1>2, <1>3, <1>4, <1>8, <1>12 DEF HeadAtWork, BeforeAck, Uncompiled
<1>14. AppliedInOrder'
  <2>1. acked' = acked
    BY <1>2 DEF acked
  <2> QED
    BY <1>2, <1>6, <2>1 DEF LaneInv, AppliedInOrder
<1> QED
  BY <1>10, <1>11, <1>13, <1>14, WorkerKeepsShown DEF LaneInv, WorkerFrame


(* The fence is ready: the source is acknowledged, the endpoint kept.        *)
LEMMA OutcomeReadyKeeps ==
  ASSUME LaneInv, worker.pc = "poll",
         UNCHANGED <<epoch, open, owned, seq, scene, draft, retained, presenter, shown, applied>>,
         OutcomeReady(worker.slot, batch[worker.slot])
  PROVE  LaneInv' /\ acked' = acked + 1 /\ applied.seq = acked'
<1> PICK b \in Batches : b = worker.slot /\ b = workBatch
  BY WorkerBatch
<1> DEFINE r == batch[b]
           new == [r EXCEPT !.st = "finalizing", !.has = {"endpoint"}]
<1>1. r \in BatchRecord /\ r.work \in Works /\ r.st = "checking" /\ b # 0
  BY WorkerBatch, LaneAssumption DEF Batches
<1>2. /\ StillHead(r.work) /\ blocked' = blocked /\ fifo' = Tail(fifo) /\ workBatch' = workBatch
      /\ batch' = [batch EXCEPT ![b] = new]
      /\ WorkerCleans(Of(r.work, r.has \ {"endpoint"}), b, "pend")
  BY DEF OutcomeReady
<1>3. new \in BatchRecord /\ new.st = "finalizing" /\ new.work = r.work
  BY <1>1 DEF BatchRecord, BatchStates, Kinds
<1>4. /\ fifo # <<>> /\ Head(fifo) = r.work /\ r.work.epoch = epoch
      /\ r.work.seq = acked + 1 /\ r.work.seq <= seq /\ acked \in Nat
  BY <1>2, HeadIsNext
<1>5. applied = r.work
  BY <1>1, <1>4 DEF LaneInv, HeadAtWork, Here
<1>6. Of(r.work, r.has \ {"endpoint"}) \in SUBSET Objects
  BY <1>1 DEF Of, Objects, BatchRecord
<1>7. worker' \in WorkerShape /\ worker'.pc = "clean" /\ worker'.next = "pend" /\ worker'.slot = b
  BY <1>2, <1>6, WorkerGoes
<1>8. batch \in [Batches -> BatchRecord] /\ applied \in Works \cup {NoWork} /\ blocked \in BOOLEAN
  BY DEF LaneInv, Shaped
<1>9. acked' = acked + 1
  BY <1>2, <1>4, FifoTail
<1>10. ~Leaving(b)
  BY <1>1 DEF Leaving
<1> HIDE DEF new, r
<1>11. batch'[b] = new /\ \A c \in Batches : c # b => batch'[c] = batch[c]
  BY <1>2, <1>8
<1>12. WorkerFrame
  <2>1. batch[b].st # "free" /\ batch[b].st \in WorkStates /\ new.work = batch[b].work
        /\ new.work = Head(fifo)
    BY <1>1, <1>3, <1>4 DEF r, WorkStates
  <2> QED
    BY <1>2, <1>3, <1>4, <1>7, <1>8, <1>10, <2>1, WorkerTouches DEF WorkStates
<1>13. WorkerPlaced'
  BY <1>1, <1>2, <1>3, <1>7, <1>11, <1>12 DEF WorkerPlaced, Going, WorkerFrame
<1>14. \A c \in Batches : ~BeforeAck(c)'
  BY <1>2, <1>3, <1>7, <1>11, <1>13 DEF WorkerPlaced, BeforeAck, Uncompiled, WorkStates, Going
<1>15. HeadAtWork'
  BY <1>14 DEF HeadAtWork, BeforeAck, Uncompiled
<1>16. AppliedInOrder'
  <2>1. applied.epoch = epoch /\ applied.seq = acked' /\ applied.seq <= seq
    BY <1>4, <1>5, <1>9
  <2>2. ~(applied.epoch < epoch) /\ applied.epoch <= epoch /\ applied.seq # acked' + 1
    BY <1>4, <1>9, <2>1, LaneAssumption DEF LaneInv, Shaped
  <2>3. worker'.pc # "compile"
    BY <1>7
  <2> QED
    BY <2>1, <2>2, <2>3 DEF AppliedInOrder
<1> QED
  BY <1>4, <1>5, <1>9, <1>12, <1>13, <1>15, <1>16, WorkerKeepsShown DEF LaneInv, WorkerFrame

(* The fence is pending: the worker leaves, and polls in a later call.       *)
LEMMA WorkerPausesKeeps ==
  ASSUME LaneInv,
         UNCHANGED <<epoch, open, owned, seq, scene, draft, retained, presenter, shown, applied,
                     fifo, blocked, workBatch>>,
         NEW b \in Batches, b = workBatch,
         \/ /\ worker.pc = "poll" /\ batch' = [batch EXCEPT ![b] = [batch[b] EXCEPT !.st = "waiting"]]
            /\ WorkerTo("idle", 0)
         \/ /\ worker.pc = "idle" /\ batch' = [batch EXCEPT ![b].st = "checking"]
            /\ WorkerTo("poll", b)
  PROVE  LaneInv'
<1> DEFINE r == batch[b]
           st == IF worker.pc = "poll" THEN "waiting" ELSE "checking"
           new == [r EXCEPT !.st = st]
<1>1. b # 0 /\ r \in BatchRecord /\ r.st \in {"checking", "waiting"}
  BY LaneAssumption DEF LaneInv, Shaped, WorkerPlaced, Going, Batches
<1>2. batch' = [batch EXCEPT ![b] = new]
  OBVIOUS
<1>3. new \in BatchRecord /\ new.st = st /\ new.work = r.work
  BY <1>1 DEF BatchRecord, BatchStates
<1>4. /\ worker' \in WorkerShape
      /\ st = "waiting" => worker'.pc = "idle"
      /\ st = "checking" => worker'.pc = "poll" /\ worker'.slot = b
  BY WorkerIsAt
<1>5. st \in {"waiting", "checking"}
  OBVIOUS
<1>6. batch \in [Batches -> BatchRecord] /\ applied \in Works \cup {NoWork} /\ blocked \in BOOLEAN
  BY DEF LaneInv, Shaped
<1> HIDE DEF new, r, st
<1>7. batch'[b] = new /\ \A c \in Batches : c # b => batch'[c] = batch[c]
  BY <1>2, <1>6
<1>8. ~Leaving(b)'
  BY <1>3, <1>5, <1>7 DEF Leaving
<1>9. WorkerFrame
  <2>1. batch[b].st # "free" /\ batch[b].st \in WorkStates /\ new.work = batch[b].work
    BY <1>1, <1>3 DEF r, WorkStates
  <2> QED
    BY <1>2, <1>3, <1>4, <1>5, <1>6, <1>8, <2>1, WorkerTouches DEF WorkStates
<1>10. WorkerPlaced'
  BY <1>1, <1>3, <1>4, <1>5, <1>7, <1>9 DEF WorkerPlaced, Going, WorkerFrame
<1>11. \A c \in Batches : BeforeAck(c)' => c = b
  BY <1>10 DEF WorkerPlaced, BeforeAck, Uncompiled, WorkStates
<1>12. Here(b)' => Here(b)
  BY <1>1, <1>3, <1>7 DEF Here, r
<1>13. Here(b) => fifo # <<>> /\ Head(fifo) = r.work /\ ~blocked /\ applied = r.work
  BY <1>1 DEF LaneInv, HeadAtWork, BeforeAck, Uncompiled, r
<1>14. HeadAtWork'
  BY <1>3, <1>7, <1>11, <1>12, <1>13 DEF HeadAtWork, BeforeAck, Uncompiled
<1>15. AppliedInOrder'
  <2>1. acked' = acked
    BY DEF acked
  <2>2. Here(b) => Here(b)' /\ batch'[b].st \in {"checking", "waiting"}
    BY <1>3, <1>5, <1>7 DEF Here, r
  <2>3. worker'.pc # "compile"
    BY <1>4, <1>5
  <2> QED
    BY <1>1, <2>1, <2>2, <2>3 DEF LaneInv, AppliedInOrder
<1> QED
  BY <1>9, <1>10, <1>14, <1>15, WorkerKeepsShown DEF LaneInv, WorkerFrame


(* An endpoint arrives in its epoch: its effects are applied, and its fence  *)
(* is polled while its source waits at the head of the FIFO.                 *)
LEMMA EndpointKeeps ==
  ASSUME LaneInv, worker.pc = "compile",
         UNCHANGED <<epoch, open, owned, seq, scene, draft, retained, presenter, shown,
                     fifo, blocked, workBatch>>,
         NEW b \in Batches, b = worker.slot, IsCurrent(batch[b].work),
         applied' = batch[b].work,
         NEW new \in BatchRecord, new.st = "checking", new.work = batch[b].work,
         batch' = [batch EXCEPT ![b] = new], WorkerTo("poll", b)
  PROVE  /\ LaneInv' /\ applied'.epoch = epoch /\ applied'.seq = acked + 1
         /\ ~blocked /\ fifo # <<>> /\ acked' = acked
<1>1. b = workBatch /\ b # 0 /\ batch[b].st = "compiling" /\ batch[b].work \in Works
  BY WorkerBatch, LaneAssumption DEF Batches
<1>2. Here(b) /\ batch[b].work.epoch = epoch
  BY <1>1 DEF Here, IsCurrent
<1>3. fifo # <<>> /\ Head(fifo) = batch[b].work /\ ~blocked
  BY <1>1, <1>2 DEF LaneInv, HeadAtWork, BeforeAck, Uncompiled
<1>4. batch[b].work.seq = acked + 1 /\ batch[b].work.seq <= seq /\ acked \in Nat
  BY <1>3, FifoHead
<1>5. worker' \in WorkerShape /\ worker'.pc = "poll" /\ worker'.slot = b
  BY WorkerIsAt
<1>6. batch \in [Batches -> BatchRecord] /\ blocked \in BOOLEAN
  BY DEF LaneInv, Shaped
<1>7. batch'[b] = new /\ \A c \in Batches : c # b => batch'[c] = batch[c]
  BY <1>6
<1>8. ~Leaving(b)'
  BY <1>7 DEF Leaving
<1>9. WorkerFrame
  BY <1>1, <1>5, <1>6, <1>8, WorkerTouches DEF WorkStates
<1>10. WorkerPlaced'
  BY <1>1, <1>5, <1>7, <1>9 DEF WorkerPlaced, Going, WorkerFrame
<1>11. \A c \in Batches : BeforeAck(c)' => c = b
  BY <1>1, <1>10 DEF WorkerPlaced, BeforeAck, Uncompiled, WorkStates
<1>12. HeadAtWork'
  BY <1>3, <1>7, <1>11 DEF HeadAtWork, BeforeAck, Uncompiled
<1>13. acked' = acked
  BY DEF acked
<1>14. AppliedInOrder'
  <2>1. applied'.epoch = epoch' /\ applied'.seq = acked' + 1 /\ applied'.seq <= seq'
    BY <1>2, <1>4, <1>13
  <2>2. ~(applied'.epoch < epoch') /\ applied'.epoch <= epoch'
    BY <2>1, LaneAssumption DEF LaneInv, Shaped
  <2>3. workBatch' # 0 /\ Here(workBatch)' /\ batch'[workBatch'].st \in {"checking", "waiting"}
    BY <1>1, <1>2, <1>7 DEF Here
  <2>4. worker'.pc # "compile"
    BY <1>5
  <2> QED
    BY <2>1, <2>2, <2>3, <2>4 DEF AppliedInOrder
<1> QED
  BY <1>2, <1>3, <1>4, <1>9, <1>10, <1>12, <1>13, <1>14, WorkerKeepsShown DEF LaneInv, WorkerFrame

(* The head of the FIFO is given to a free batch, to be compiled.            *)
LEMMA WorkerStartKeeps == ASSUME LaneInv, WorkerStart PROVE LaneInv' /\ acked' = acked
<1> DEFINE free == InState({"free"})
           first == CHOOSE c \in free : \A o \in free : c <= o
<1>1. free \in SUBSET Batches /\ free # {}
  BY DEF InState, WorkerStart
<1>2. first \in free
  BY <1>1, FirstBatch
<1> HIDE DEF first
<1> PICK b \in Batches : b = first
  BY <1>1, <1>2
<1>3. batch[b].st = "free" /\ b # 0
  BY <1>2, LaneAssumption DEF InState, Batches
<1> DEFINE new == [FreeBatch EXCEPT !.st = "compiling", !.work = Head(fifo), !.has = {"commit"}]
<1>4. /\ worker.pc = "idle" /\ ~blocked /\ workBatch = 0 /\ fifo # <<>>
      /\ batch' = [batch EXCEPT ![b] = new] /\ workBatch' = b /\ WorkerTo("compile", b)
      /\ UNCHANGED <<epoch, open, owned, seq, scene, blocked, draft, fifo, retained, presenter,
                     applied, shown>>
  BY DEF WorkerStart, WorkerMayStart, timeline, history, first
<1>5. /\ Head(fifo) \in Works /\ IsCurrent(Head(fifo)) /\ Head(fifo).seq = acked + 1
      /\ acked \in Nat /\ fifo \in Seq(Works)
  BY <1>4, FifoHead
<1>6. new \in BatchRecord /\ new.st = "compiling" /\ new.work = Head(fifo)
  BY <1>5, Records DEF BatchRecord, BatchStates, Kinds, FreeBatch
<1>7. worker' \in WorkerShape /\ worker'.pc = "compile" /\ worker'.slot = b
  BY <1>4, WorkerIsAt
<1> HIDE DEF new, free
<1>8. batch \in [Batches -> BatchRecord] /\ blocked \in BOOLEAN /\ applied \in Works \cup {NoWork}
  BY DEF LaneInv, Shaped
<1>9. batch'[b] = new /\ \A c \in Batches : c # b => batch'[c] = batch[c]
  BY <1>4, <1>8
<1>10. ~Leaving(b)'
  BY <1>6, <1>9 DEF Leaving
<1>11. WorkerFrame
  BY <1>3, <1>4, <1>5, <1>6, <1>7, <1>8, <1>10, WorkerTouches DEF WorkStates
<1>12. WorkerPlaced'
  BY <1>3, <1>4, <1>6, <1>7, <1>9, <1>11 DEF WorkerPlaced, Going, WorkerFrame
<1>13. \A c \in Batches : BeforeAck(c)' => c = b
  BY <1>4, <1>12 DEF WorkerPlaced, BeforeAck, Uncompiled, WorkStates
<1>14. HeadAtWork'
  BY <1>4, <1>6, <1>9, <1>13 DEF HeadAtWork, BeforeAck, Uncompiled
<1>15. acked' = acked
  BY <1>4 DEF acked
<1>16. AppliedInOrder'
  <2>1. AppliedInOrder /\ applied.epoch \in Nat /\ applied.seq \in Nat /\ epoch \in Nat
    BY <1>8, Records, LaneAssumption DEF LaneInv, Shaped, NoWork
  <2>2. applied.epoch = epoch => applied.seq = acked
    BY <1>4, <2>1 DEF AppliedInOrder
  <2>3. batch'[worker'.slot].work = Head(fifo) /\ Head(fifo).epoch = epoch
    BY <1>5, <1>6, <1>7, <1>9 DEF IsCurrent
  <2>4. IF Head(fifo).epoch = applied.epoch THEN Head(fifo).seq = applied.seq + 1
        ELSE Head(fifo).epoch > applied.epoch /\ Head(fifo).seq = 1
    BY <1>5, <2>1, <2>2, <2>3 DEF AppliedInOrder
  <2>5. applied.epoch = epoch => applied.seq # acked + 1
    BY <1>5, <2>2
  <2> QED
    BY <1>4, <1>15, <2>1, <2>2, <2>3, <2>4, <2>5 DEF AppliedInOrder
<1> QED
  BY <1>11, <1>12, <1>14, <1>15, <1>16, WorkerKeepsShown DEF LaneInv, WorkerFrame

(* A cleanup only moves the worker on, to where it was going.                *)
LEMMA WorkerRetiresKeeps == ASSUME LaneInv, WorkerRetires PROVE LaneInv'
<1>1. /\ UNCHANGED <<epoch, open, owned, seq, scene, blocked, draft, fifo, batch, workBatch,
                     retained, presenter, applied, shown>>
      /\ worker.pc = "clean"
  BY DEF WorkerRetires, RetireBackend, RetireCommit, timeline, handles, history
<1>2. worker \in WorkerShape
  BY DEF LaneInv, Shaped
<1>3. /\ worker' \in WorkerShape /\ worker'.pc \notin {"compile", "poll"}
      /\ \A place \in {"idle", "failed", "pend"} : Going(place)' <=> Going(place)
      /\ Going("failed") \/ Going("pend") => worker'.slot = worker.slot
  <2> DEFINE left == worker.ret \cap live'
  <2>1. CASE left # {}
    <3>1. worker' = [worker EXCEPT !.ret = left]
      BY <2>1 DEF WorkerRetires
    <3> QED
      BY <1>1, <1>2, <3>1 DEF WorkerShape, Going
  <2>2. CASE left = {} /\ worker.next = "idle"
    <3>1. worker' = IdleWorker
      BY <2>2 DEF WorkerRetires
    <3> QED
      BY <1>1, <1>2, <2>2, <3>1 DEF WorkerShape, Going, IdleWorker
  <2>3. CASE left = {} /\ worker.next # "idle"
    <3>1. worker' = [IdleWorker EXCEPT !.pc = worker.next, !.slot = worker.slot]
      BY <2>3 DEF WorkerRetires
    <3>2. worker.next \in {"failed", "pend"}
      BY <1>2, <2>3 DEF WorkerShape
    <3> QED
      BY <1>1, <1>2, <3>1, <3>2 DEF WorkerShape, Going, IdleWorker
  <2> QED
    BY <2>1, <2>2, <2>3
<1>4. /\ batch \in [Batches -> BatchRecord] /\ applied \in Works \cup {NoWork}
      /\ blocked \in BOOLEAN /\ workBatch \in {0} \cup Batches /\ fifo \in Seq(Works)
  BY DEF LaneInv, Shaped
<1>5. Shaped'
  BY <1>1, <1>3, <1>4, WorkerKeepsShape
<1>6. \A c \in Batches : Leaving(c)' <=> Leaving(c)
  BY <1>1, <1>3 DEF Leaving
<1>7. WorkerFrame
  <2>1. \A c \in Batches : batch[c].st \in WorkStates => c = workBatch
    BY DEF LaneInv, WorkerPlaced
  <2> QED
    BY <1>1, <1>5, <1>6, <2>1 DEF WorkerFrame
<1>8. WorkerPlaced'
  BY <1>1, <1>3 DEF LaneInv, WorkerPlaced, Going
<1>9. HeadAtWork'
  BY <1>1, <1>3 DEF LaneInv, HeadAtWork, BeforeAck, Uncompiled, Here
<1>10. AppliedInOrder'
  BY <1>1, <1>3 DEF LaneInv, AppliedInOrder, acked, Here
<1> QED
  BY <1>7, <1>8, <1>9, <1>10, WorkerKeepsShown DEF LaneInv, WorkerFrame


LEMMA WorkerFailedKeeps == ASSUME LaneInv, WorkerFailed PROVE LaneInv' /\ acked' = acked
<1> PICK b \in Batches : b = worker.slot /\ b = workBatch
  BY WorkerBatch DEF WorkerFailed
<1> DEFINE ret == IF StillHead(batch[b].work) THEN {} ELSE Owned(b)
<1>1. /\ worker.pc = "failed"
      /\ UNCHANGED <<epoch, open, owned, seq, scene, blocked, draft, fifo, retained, presenter,
                     applied, shown>>
      /\ batch' = Detached(b) /\ workBatch' = 0 /\ WorkerCleans(ret, b, "idle")
  BY DEF WorkerFailed, FreeWork, timeline, history
<1>2. /\ batch[b].st = "finalizing" /\ batch[b].work \in Works
      /\ Of(batch[b].work, batch[b].has) \in SUBSET Objects
  BY <1>1, WorkerBatch
<1>3. ret \in SUBSET Objects
  BY <1>2 DEF Owned
<1>4. worker' \in WorkerShape /\ (worker'.pc = "idle" \/ (worker'.pc = "clean" /\ worker'.next = "idle"))
  BY <1>1, <1>3, WorkerGoes
<1>5. acked' = acked
  BY <1>1 DEF acked
<1>6. applied.epoch = epoch /\ applied.seq = acked + 1 => blocked
  BY <1>2 DEF LaneInv, AppliedInOrder
<1>7. applied' \in Works \cup {NoWork}
  BY <1>1 DEF LaneInv, Shaped
<1>8. /\ applied'.epoch <= epoch
      /\ applied'.epoch < epoch => acked' = 0
      /\ applied'.epoch = epoch => applied'.seq \in {acked', acked' + 1} /\ applied'.seq <= seq
  BY <1>1, <1>5 DEF LaneInv, AppliedInOrder
<1> HIDE DEF ret
<1> QED
  BY <1>1, <1>2, <1>4, <1>5, <1>6, <1>7, <1>8, WorkerEnds DEF WorkStates

LEMMA WorkerPendKeeps == ASSUME LaneInv, WorkerPend PROVE LaneInv' /\ acked' = acked
<1> PICK b \in Batches : b = worker.slot /\ b = workBatch
  BY WorkerBatch DEF WorkerPend
<1>1. /\ worker.pc = "pend" /\ workBatch' = 0
      /\ UNCHANGED <<epoch, open, owned, seq, scene, blocked, draft, fifo, retained, presenter,
                     applied, shown>>
  BY DEF WorkerPend, timeline, history
<1>2. /\ batch[b].st = "finalizing" /\ batch[b].work \in Works /\ batch[b] \in BatchRecord
      /\ Of(batch[b].work, batch[b].has) \in SUBSET Objects
  BY <1>1, WorkerBatch
<1>3. acked' = acked
  BY <1>1 DEF acked
<1>4. applied.epoch = epoch /\ applied.seq = acked + 1 => blocked
  BY <1>2 DEF LaneInv, AppliedInOrder
<1>5. /\ applied' \in Works \cup {NoWork} /\ batch \in [Batches -> BatchRecord]
      /\ blocked \in BOOLEAN /\ fifo \in Seq(Works)
  BY <1>1 DEF LaneInv, Shaped
<1>6. /\ applied'.epoch <= epoch
      /\ applied'.epoch < epoch => acked' = 0
      /\ applied'.epoch = epoch => applied'.seq \in {acked', acked' + 1} /\ applied'.seq <= seq
  BY <1>1, <1>3 DEF LaneInv, AppliedInOrder
<1>7. CASE ~IsCurrent(batch[b].work)
  <2>1. batch' = Detached(b) /\ WorkerCleans(Owned(b), b, "idle")
    BY <1>7 DEF WorkerPend
  <2>2. worker' \in WorkerShape /\ (worker'.pc = "idle" \/ (worker'.pc = "clean" /\ worker'.next = "idle"))
    BY <1>2, <2>1, WorkerGoes DEF Owned
  <2> QED
    BY <1>1, <1>2, <1>3, <1>4, <1>5, <1>6, <2>1, <2>2, WorkerEnds DEF WorkStates
<1>8. CASE IsCurrent(batch[b].work)
  <2>1. PICK supersedes \in BOOLEAN :
          LET gone == IF supersedes THEN Superseded(b) ELSE {}
          IN batch' = [c \in Batches |->
                        IF c \in gone THEN FreeBatch
                        ELSE IF c = b THEN [batch[b] EXCEPT !.st = "pending"]
                        ELSE batch[c]]
    BY <1>8 DEF WorkerPend
  <2> DEFINE gone == IF supersedes THEN Superseded(b) ELSE {}
             new == [batch[b] EXCEPT !.st = "pending"]
  <2>2. WorkerTo("idle", 0)
    BY <1>8 DEF WorkerPend
  <2>3. worker' \in WorkerShape /\ worker'.pc = "idle"
    BY <2>2, WorkerIsAt
  <2>4. new \in BatchRecord /\ new.st = "pending" /\ new.work = batch[b].work
    BY <1>2 DEF BatchRecord, BatchStates
  <2>5. \A c \in gone : batch[c].st = "pending" /\ c # b
    BY <1>2 DEF Superseded, InState
  <2>6. batch' = [c \in Batches |-> IF c \in gone THEN FreeBatch ELSE IF c = b THEN new ELSE batch[c]]
    BY <2>1
  <2> HIDE DEF gone, new
  <2>7. batch' \in [Batches -> BatchRecord]
    BY <1>5, <2>4, <2>6, Records
  <2>8. batch'[b] = new
    BY <2>5, <2>6
  <2>9. \A c \in Batches : c # b =>
          batch'[c] = batch[c] \/ (batch[c].st = "pending" /\ batch'[c] = FreeBatch)
    BY <2>5, <2>6
  <2>10. Shaped'
    BY <1>1, <1>5, <2>3, <2>7, WorkerKeepsShape
  <2>11. Leaving(b)
    BY <1>1, <1>2 DEF Leaving, Going
  <2>12. \A c \in Batches : ~Leaving(c)'
    BY <2>3 DEF Leaving, Going
  <2>13. \A c \in Batches : batch[c].st \in WorkStates => c = b
    BY DEF LaneInv, WorkerPlaced
  <2>14. \A c \in Batches : batch'[c].st \notin WorkStates
    BY <2>4, <2>8, <2>9, <2>13, Records DEF WorkStates
  <2>15. WorkerFrame
    <3>1. ASSUME NEW c \in Batches
          PROVE  /\ batch[c].st \in ShownStates =>
                      batch'[c] = batch[c] \/ (batch[c].st = "pending" /\ batch'[c] = FreeBatch)
                 /\ batch'[c].st \in ShownStates =>
                      \/ batch'[c] = batch[c]
                      \/ Leaving(c) /\ batch'[c].st = "pending" /\ batch'[c].work = batch[c].work
                 /\ batch'[c].st # "free" => batch[c].st # "free" /\ batch'[c].work = batch[c].work
      <4>1. CASE c = b
        BY <1>2, <2>4, <2>8, <2>11, <4>1 DEF ShownStates
      <4>2. CASE c # b
        BY <2>9, <4>2, Records DEF ShownStates
      <4> QED
        BY <4>1, <4>2
    <3> QED
      BY <1>1, <2>10, <2>12, <2>14, <3>1 DEF WorkerFrame
  <2>16. WorkerPlaced'
    BY <1>1, <2>3, <2>14 DEF WorkerPlaced, Going
  <2>17. HeadAtWork'
    BY <2>14 DEF HeadAtWork, BeforeAck, Uncompiled, WorkStates
  <2>18. AppliedInOrder'
    BY <1>1, <1>3, <1>4, <1>6, <2>3 DEF AppliedInOrder
  <2> QED
    BY <1>3, <2>15, <2>16, <2>17, <2>18, WorkerKeepsShown DEF LaneInv, WorkerFrame
<1> QED
  BY <1>7, <1>8


----------------------------------------------------------------------------
(* The lane implements SourceLane.  What counts as applied there.            *)
LaneStays == UNCHANGED <<epoch, open, blocked, seq, appliedHere, acked>>
LaneStep == Lane!Next \/ LaneStays

LEMMA AppliedThere ==
  ASSUME LaneInv
  PROVE  /\ appliedHere \in {acked, acked + 1} /\ acked \in Nat
         /\ applied.epoch # epoch => appliedHere = 0 /\ acked = 0
         /\ ~blocked /\ worker.pc = "compile" => appliedHere = acked
<1>1. acked \in Nat
  BY FifoHead
<1>2. applied.epoch \in Nat /\ epoch \in Nat /\ AppliedInOrder
  BY Records, LaneAssumption DEF LaneInv, Shaped
<1>3. applied.epoch # epoch => appliedHere = 0 /\ acked = 0
  BY <1>2 DEF AppliedInOrder, appliedHere
<1>4. worker.pc = "compile" => batch[workBatch].st = "compiling"
  BY WorkerBatch
<1> QED
  BY <1>1, <1>2, <1>3, <1>4 DEF AppliedInOrder, appliedHere

LEMMA LaneBlocks ==
  ASSUME LaneInv, worker.pc \in {"compile", "poll"},
         UNCHANGED <<epoch, open, seq, applied>>,
         NEW r, r.work = batch[worker.slot].work, OutcomeFailed(worker.slot, r)
  PROVE  LaneStep
<1> PICK b \in Batches : b = worker.slot /\ b = workBatch
  BY WorkerBatch
<1>1. StillHead(batch[b].work) /\ blocked' = TRUE /\ fifo' = fifo
  BY DEF OutcomeFailed
<1>2. batch[b].work.epoch = epoch /\ acked + 1 <= seq /\ fifo # <<>> /\ acked \in Nat /\ seq \in Nat
  BY <1>1, HeadIsNext, FifoHead
<1>3. Uncompiled(b) /\ Here(b)
  BY <1>2, WorkerBatch DEF Uncompiled, Here
<1>4. ~blocked
  BY <1>3 DEF LaneInv, HeadAtWork
<1>5. acked' = acked /\ appliedHere' = appliedHere
  BY <1>1 DEF acked, appliedHere
<1> QED
  BY <1>1, <1>2, <1>4, <1>5 DEF LaneStep, Lane!Next, Lane!Block

LEMMA CompileReturnsKeeps == ASSUME LaneInv, CompileReturns PROVE LaneInv' /\ LaneStep
<1> PICK b \in Batches : b = worker.slot /\ b = workBatch
  BY WorkerBatch DEF CompileReturns
<1> DEFINE r == batch[b]
           w == r.work
           with(kinds) == [r EXCEPT !.has = @ \cup kinds]
           came(phases, base) == [with({"endpoint", "compile"}) EXCEPT !.phases = phases, !.base = base]
<1>1. /\ worker.pc = "compile"
      /\ UNCHANGED <<epoch, open, owned, seq, scene, draft, retained, presenter, shown>>
  BY DEF CompileReturns, outcomeKeeps
<1>2. r \in BatchRecord /\ w \in Works /\ r.st = "compiling"
  BY <1>1, WorkerBatch
<1>3. ASSUME NEW kinds \in SUBSET {"endpoint", "compile"}
      PROVE  with(kinds) \in BatchRecord /\ with(kinds).work = w /\ with(kinds).st = r.st
  BY <1>2 DEF BatchRecord, Kinds, Fences
<1>4. ASSUME NEW phases \in 0..PhaseLimit, NEW base \in 0..(w.seq - 1)
      PROVE  came(phases, base) \in BatchRecord /\ came(phases, base).work = w
  <2>1. base \in 0..SeqLimit
    BY <1>2, Records, LaneAssumption
  <2> QED
    BY <1>2, <2>1 DEF BatchRecord, Kinds, Fences
<1> HIDE DEF with
<1>5. ASSUME NEW x \in BatchRecord, x.work = w, OutcomeStale(b, x), applied' \in {applied, w}
      PROVE  LaneInv' /\ LaneStep
  <2>1. LaneInv'
    BY <1>1, <1>5, OutcomeStaleKeeps
  <2>2. blocked' = blocked /\ fifo' = fifo /\ w.epoch # epoch
    BY <1>1, <1>2, <1>5, StaleIsOver DEF OutcomeStale, Here
  <2>3. acked' = acked
    BY <1>1, <2>2 DEF acked
  <2>4. appliedHere' = appliedHere
    <3>1. CASE applied' = applied
      BY <1>1, <3>1 DEF appliedHere
    <3>2. CASE applied' = w
      <4>1. applied.epoch \in Nat /\ epoch \in Nat /\ w.epoch \in Nat /\ w.epoch <= epoch
        BY <1>2, Records, LaneAssumption DEF LaneInv, Shaped, BatchesOccupied
      <4>2. applied.epoch <= w.epoch
        BY <1>1, <4>1 DEF LaneInv, AppliedInOrder
      <4>3. applied.epoch # epoch
        BY <2>2, <4>1, <4>2
      <4> QED
        BY <1>1, <2>2, <3>2, <4>3 DEF appliedHere
    <3> QED
      BY <1>5, <3>1, <3>2
  <2> QED
    BY <1>1, <2>1, <2>2, <2>3, <2>4 DEF LaneStep, LaneStays
<1>6. ASSUME NEW phases \in 0..PhaseLimit, NEW base \in 0..(w.seq - 1), applied' = w,
             IF IsCurrent(w)
             THEN /\ batch' = [batch EXCEPT ![b] = [came(phases, base) EXCEPT !.st = "checking"]]
                  /\ WorkerTo("poll", b)
                  /\ UNCHANGED <<fifo, blocked, workBatch>>
             ELSE OutcomeStale(b, came(phases, base))
      PROVE  LaneInv' /\ LaneStep
  <2> DEFINE e == came(phases, base)
             new == [e EXCEPT !.st = "checking"]
  <2>1. e \in BatchRecord /\ e.work = w
    BY <1>4
  <2>2. CASE ~IsCurrent(w)
    BY <1>5, <1>6, <2>1, <2>2
  <2>3. CASE IsCurrent(w)
    <3> HIDE DEF e
    <3>1. new \in BatchRecord /\ new.st = "checking" /\ new.work = w
      BY <2>1 DEF BatchRecord, BatchStates
    <3>2. batch' = [batch EXCEPT ![b] = new] /\ WorkerTo("poll", b) /\ UNCHANGED <<fifo, blocked, workBatch>>
      BY <1>6, <2>3 DEF e
    <3> HIDE DEF new
    <3>3. /\ LaneInv' /\ applied'.epoch = epoch /\ applied'.seq = acked + 1
          /\ ~blocked /\ fifo # <<>> /\ acked' = acked
      BY <1>1, <1>6, <2>3, <3>1, <3>2, EndpointKeeps
    <3>4. appliedHere = acked /\ appliedHere' = acked + 1
      BY <1>1, <3>3, AppliedThere DEF appliedHere
    <3>5. acked < seq
      BY <3>3, FifoHead
    <3>6. Lane!Apply
      BY <1>1, <3>2, <3>3, <3>4, <3>5 DEF Lane!Apply
    <3> QED
      BY <3>3, <3>6 DEF LaneStep, Lane!Next
  <2> QED
    BY <2>2, <2>3
<1>7. ASSUME applied' = w, OutcomeApplied(b, r)
      PROVE  LaneInv' /\ LaneStep
  <2>1. LaneInv' /\ acked' = acked + 1
    BY <1>1, <1>7, OutcomeAppliedKeeps
  <2>2. /\ w.epoch = epoch /\ w.seq = acked + 1 /\ w.seq <= seq /\ acked \in Nat /\ seq \in Nat
        /\ blocked' = blocked
    BY <1>7, HeadIsNext, FifoHead DEF OutcomeApplied
  <2>3. ~blocked
    BY <1>2, <2>2 DEF LaneInv, HeadAtWork, Here, Uncompiled
  <2>4. appliedHere' = acked + 1
    BY <1>1, <1>7, <2>2 DEF appliedHere
  <2>5. Lane!Ack
    BY <1>1, <2>1, <2>2, <2>3, <2>4 DEF Lane!Ack
  <2> QED
    BY <2>1, <2>5 DEF LaneStep, Lane!Next
<1>8. ASSUME applied' = applied, OutcomeWouldBlock(b, r)
      PROVE  LaneInv' /\ LaneStep
  <2>1. LaneInv'
    BY <1>1, <1>8, OutcomeWouldBlockKeeps
  <2>2. fifo' = fifo /\ blocked' = blocked
    BY <1>8 DEF OutcomeWouldBlock
  <2>3. acked' = acked /\ appliedHere' = appliedHere
    BY <1>1, <1>8, <2>2 DEF acked, appliedHere
  <2> QED
    BY <1>1, <2>1, <2>2, <2>3 DEF LaneStep, LaneStays
<1>9. ASSUME applied' = applied, NEW kinds \in SUBSET {"endpoint", "compile"},
             OutcomeFailed(b, with(kinds))
      PROVE  LaneInv' /\ LaneStep
  <2>1. LaneInv'
    BY <1>1, <1>3, <1>9, OutcomeFailedKeeps
  <2>2. LaneStep
    BY <1>1, <1>3, <1>9, LaneBlocks
  <2> QED
    BY <2>1, <2>2
<1>10. \/ \E phases \in 0..PhaseLimit, base \in 0..(w.seq - 1) :
            /\ applied' = w
            /\ IF IsCurrent(w)
               THEN /\ batch' = [batch EXCEPT ![b] = [came(phases, base) EXCEPT !.st = "checking"]]
                    /\ WorkerTo("poll", b)
                    /\ UNCHANGED <<fifo, blocked, workBatch>>
               ELSE OutcomeStale(b, came(phases, base))
       \/ applied' = w /\ (OutcomeApplied(b, r) \/ OutcomeStale(b, r))
       \/ applied' = applied /\ (OutcomeWouldBlock(b, r) \/ OutcomeStale(b, r))
       \/ \E kinds \in SUBSET {"endpoint", "compile"} :
            /\ applied' = applied
            /\ OutcomeFailed(b, with(kinds)) \/ OutcomeStale(b, with(kinds))
  BY Zenon DEF CompileReturns, with
<1> HIDE DEF came
<1> QED
  BY <1>2, <1>3, <1>5, <1>6, <1>7, <1>8, <1>9, <1>10

LEMMA FenceReturnsKeeps == ASSUME LaneInv, FenceReturns PROVE LaneInv' /\ LaneStep
<1> PICK b \in Batches : b = worker.slot /\ b = workBatch
  BY WorkerBatch DEF FenceReturns
<1> DEFINE r == batch[b]
<1>1. /\ worker.pc = "poll"
      /\ UNCHANGED <<epoch, open, owned, seq, scene, draft, retained, presenter, shown, applied>>
  BY DEF FenceReturns, outcomeKeeps
<1>2. r \in BatchRecord /\ r.work \in Works /\ r.st = "checking"
  BY <1>1, WorkerBatch
<1>3. CASE OutcomeReady(b, r)
  <2>1. LaneInv' /\ acked' = acked + 1 /\ applied.seq = acked'
    BY <1>1, <1>3, OutcomeReadyKeeps
  <2>2. /\ r.work.epoch = epoch /\ acked + 1 <= seq /\ acked \in Nat /\ seq \in Nat
        /\ blocked' = blocked
    BY <1>3, HeadIsNext, FifoHead DEF OutcomeReady
  <2>3. ~blocked /\ applied = r.work
    BY <1>2, <2>2 DEF LaneInv, HeadAtWork, Here, Uncompiled
  <2>4. appliedHere' = acked + 1
    BY <1>1, <2>1, <2>2, <2>3 DEF appliedHere
  <2>5. Lane!Ack
    BY <1>1, <2>1, <2>2, <2>3, <2>4 DEF Lane!Ack
  <2> QED
    BY <2>1, <2>5 DEF LaneStep, Lane!Next
<1>4. CASE OutcomePending(b, r)
  <2>1. /\ batch' = [batch EXCEPT ![b] = [batch[b] EXCEPT !.st = "waiting"]]
        /\ WorkerTo("idle", 0) /\ UNCHANGED <<fifo, blocked, workBatch>>
    BY <1>4 DEF OutcomePending
  <2>2. LaneInv'
    BY <1>1, <2>1, WorkerPausesKeeps
  <2>3. acked' = acked /\ appliedHere' = appliedHere
    BY <1>1, <2>1 DEF acked, appliedHere
  <2> QED
    BY <1>1, <2>1, <2>2, <2>3 DEF LaneStep, LaneStays
<1>5. CASE OutcomeFailed(b, r)
  BY <1>1, <1>2, <1>5, OutcomeFailedKeeps, LaneBlocks
<1>6. CASE OutcomeStale(b, r)
  <2>1. LaneInv'
    BY <1>1, <1>2, <1>6, OutcomeStaleKeeps
  <2>2. fifo' = fifo /\ blocked' = blocked
    BY <1>6 DEF OutcomeStale
  <2>3. acked' = acked /\ appliedHere' = appliedHere
    BY <1>1, <2>2 DEF acked, appliedHere
  <2> QED
    BY <1>1, <2>1, <2>2, <2>3 DEF LaneStep, LaneStays
<1> QED
  BY <1>3, <1>4, <1>5, <1>6 DEF FenceReturns


LEMMA WorkerKeepsLane == ASSUME LaneInv, Worker PROVE LaneInv' /\ LaneStep
<1>1. CASE WorkerStart
  <2>1. LaneInv' /\ acked' = acked
    BY <1>1, WorkerStartKeeps
  <2>2. UNCHANGED <<epoch, open, blocked, seq, applied>>
    BY <1>1 DEF WorkerStart, timeline, history
  <2> QED
    BY <2>1, <2>2 DEF LaneStep, LaneStays, appliedHere
<1>2. CASE WorkerPoll
  <2>1. /\ UNCHANGED <<epoch, open, owned, seq, scene, draft, retained, presenter, shown, applied,
                       fifo, blocked, workBatch>>
        /\ worker.pc = "idle" /\ workBatch # 0
        /\ batch' = [batch EXCEPT ![workBatch].st = "checking"] /\ WorkerTo("poll", workBatch)
    BY <1>2 DEF WorkerPoll, WorkerMayStart, timeline, handles, history
  <2> PICK b \in Batches : b = workBatch
    BY <2>1 DEF LaneInv, Shaped
  <2>2. LaneInv'
    BY <2>1, WorkerPausesKeeps
  <2> QED
    BY <2>1, <2>2 DEF LaneStep, LaneStays, appliedHere, acked
<1>3. CASE WorkerRetires
  <2>1. LaneInv'
    BY <1>3, WorkerRetiresKeeps
  <2>2. UNCHANGED <<epoch, open, blocked, seq, applied, fifo>>
    BY <1>3 DEF WorkerRetires, timeline, history
  <2> QED
    BY <2>1, <2>2 DEF LaneStep, LaneStays, appliedHere, acked
<1>4. CASE WorkerFailed
  <2>1. LaneInv' /\ acked' = acked
    BY <1>4, WorkerFailedKeeps
  <2>2. UNCHANGED <<epoch, open, blocked, seq, applied>>
    BY <1>4 DEF WorkerFailed, timeline, history
  <2> QED
    BY <2>1, <2>2 DEF LaneStep, LaneStays, appliedHere
<1>5. CASE WorkerPend
  <2>1. LaneInv' /\ acked' = acked
    BY <1>5, WorkerPendKeeps
  <2>2. UNCHANGED <<epoch, open, blocked, seq, applied>>
    BY <1>5 DEF WorkerPend, timeline, history
  <2> QED
    BY <2>1, <2>2 DEF LaneStep, LaneStays, appliedHere
<1>6. CASE CompileReturns
  BY <1>6, CompileReturnsKeeps
<1>7. CASE FenceReturns
  BY <1>7, FenceReturnsKeeps
<1> QED
  BY <1>1, <1>2, <1>3, <1>4, <1>5, <1>6, <1>7 DEF Worker

LEMMA LaneStutters ==
  ASSUME LaneInv, UNCHANGED vars PROVE LaneInv'
<1>1. /\ UNCHANGED <<epoch, open, owned, seq, scene, blocked, draft, fifo, batch, workBatch,
                     retained, worker, presenter, applied, shown>>
  BY DEF vars, timeline, handles, history
<1>2. Shaped'
  <2>1. presenter' \in PresenterShape'
    BY <1>1, PresenterStays DEF LaneInv, Shaped
  <2> QED
    BY <1>1, <2>1 DEF LaneInv, Shaped
<1>3. WorkerPlaced' /\ PresenterPlaced' /\ BatchesOccupied'
  BY <1>1 DEF LaneInv, WorkerPlaced, PresenterPlaced, BatchesOccupied, Going, Hold, IsCurrent, Terminal
<1>4. FifoInOrder' /\ AtTheEnd' /\ HeadAtWork'
  BY <1>1 DEF LaneInv, FifoInOrder, AtTheEnd, HeadAtWork, IsCurrent, Terminal, Here, BeforeAck,
     Uncompiled, Going
<1>5. AppliedInOrder'
  BY <1>1 DEF LaneInv, AppliedInOrder, acked, Here
<1>6. AckedInOrder' /\ ShownAcked'
  BY <1>1 DEF LaneInv, AckedInOrder, ShownAcked, acked, Here, AfterAck, Leaving, Going
<1>7. UnshownInOrder'
  BY <1>1 DEF LaneInv, UnshownInOrder, Here, Unshown, Leaving, Going, Chosen, Hold
<1>8. PhasesInOrder'
  BY <1>1 DEF LaneInv, PhasesInOrder, Hold, IsCurrent, Terminal
<1> QED
  BY <1>2, <1>3, <1>4, <1>5, <1>6, <1>7, <1>8 DEF LaneInv

LEMMA NextKeepsLane == ASSUME LaneInv, [Next]_vars PROVE LaneInv'
BY CollectorKeepsLane, LifecycleKeepsLane, WorkerKeepsLane, PresenterKeepsLane, LaneStutters
DEF Next

(* The invariant the other theorems follow from.                             *)
THEOREM LaneInvariant == Spec => []LaneInv
<1>1. Init => LaneInv
  BY LaneInit
<1>2. LaneInv /\ [Next]_vars => LaneInv'
  BY NextKeepsLane
<1> QED
  BY <1>1, <1>2, PTL DEF Spec

(* Work keeps its order: the FIFO of xg_render_source_queue_publish is       *)
(* gap-free and of the current epoch, and each compile of                    *)
(* worker_compile_next is of the successor of the last applied work or of    *)
(* the first of a later epoch.                                               *)
THEOREM LaneWorkInOrder == Spec => []WorkInOrder
<1>1. LaneInv => WorkInOrder
  BY DEF LaneInv, FifoInOrder, AppliedInOrder, WorkInOrder
<1> QED
  BY <1>1, LaneInvariant, PTL

(* What the presenter authorised for the screen in this epoch was            *)
(* acknowledged before, with its effects.                                    *)
THEOREM LaneShownIsAcked == Spec => []ShownIsAcked
<1>1. LaneInv => ShownIsAcked
  <2> SUFFICES ASSUME LaneInv, shown.work.epoch = epoch
               PROVE  shown.work.seq <= acked /\ shown.work.seq <= applied.seq
    BY DEF ShownIsAcked, acked
  <2>1. shown.work \in Works
    BY Records DEF LaneInv, Shaped
  <2>2. shown.work.seq \in Nat \ {0} /\ shown.work.seq <= acked /\ acked \in Nat
    BY <2>1, Records, LaneAssumption, FifoHead DEF LaneInv, ShownAcked
  <2>3. applied.epoch = epoch
    BY <2>2, Records, LaneAssumption DEF LaneInv, Shaped, AppliedInOrder
  <2>4. applied.seq \in {acked, acked + 1}
    BY <2>3 DEF LaneInv, AppliedInOrder
  <2> QED
    BY <2>2, <2>4
<1> QED
  BY <1>1, LaneInvariant, PTL


----------------------------------------------------------------------------
(* The steps of the others, as SourceLane sees them.                         *)
LEMMA CollectorStep == ASSUME LaneInv, Collector PROVE LaneStep
<1>1. CASE UNCHANGED lane
  BY <1>1 DEF LaneStep, LaneStays, lane, timeline, history, appliedHere, acked
<1>2. CASE SourceQueuePublish
  <2>1. /\ open /\ ~blocked /\ draft.work.seq = seq + 1 /\ draft.work.epoch = epoch
        /\ fifo' = Append(fifo, draft.work) /\ seq' = draft.work.seq
        /\ UNCHANGED <<epoch, open, blocked, applied>>
    BY <1>2 DEF SourceQueuePublish, Admissible, history
  <2>2. draft.work \in Works
    BY <2>1 DEF LaneInv, Shaped, NoWork
  <2>3. fifo \in Seq(Works) /\ seq \in Nat /\ Len(fifo) \in Nat
    BY FifoHead
  <2>4. Len(fifo') = Len(fifo) + 1
    BY <2>1, <2>2, <2>3
  <2>5. acked' = acked
    BY <2>1, <2>3, <2>4 DEF acked
  <2>6. seq < SeqLimit
    BY <2>1, <2>2, <2>3, Records, LaneAssumption
  <2>7. appliedHere' = appliedHere
    BY <2>1 DEF appliedHere
  <2>8. Lane!Publish
    BY <2>1, <2>5, <2>6, <2>7 DEF Lane!Publish
  <2> QED
    BY <2>8 DEF LaneStep, Lane!Next
<1> QED
  BY <1>1, <1>2 DEF Collector, DraftBegin, DraftSeal, DraftCancel, PublishRefused, DraftDrop

LEMMA LifecycleStep == ASSUME LaneInv, Lifecycle PROVE LaneStep
<1>1. CASE ClaimOpen
  <2>1. /\ ~Terminal /\ ~open /\ open' = TRUE
        /\ UNCHANGED <<epoch, blocked, seq, fifo, applied>>
    BY <1>1 DEF ClaimOpen, history
  <2>2. epoch < EpochLimit
    BY <2>1, LaneAssumption DEF Terminal, LaneInv, Shaped
  <2>3. Lane!Open
    BY <2>1, <2>2 DEF Lane!Open, appliedHere, acked
  <2> QED
    BY <2>3 DEF LaneStep, Lane!Next
<1>2. CASE ~ClaimOpen
  <2>1. LogicalInvalidate /\ open' \in {open, FALSE} /\ (epoch' = EpochLimit => ~open')
    <3>1. CASE LifecycleClose \/ PresentationReset
      BY <3>1 DEF LifecycleClose, PresentationReset
    <3>2. CASE TimelineInvalidate
      BY <3>2 DEF TimelineInvalidate, LaneInv, Shaped
    <3> QED
      BY <1>2, <3>1, <3>2 DEF Lifecycle
  <2>2. /\ epoch' = (IF Terminal THEN epoch ELSE epoch + 1)
        /\ seq' = 0 /\ blocked' = FALSE /\ applied' = applied
    BY <2>1 DEF LogicalInvalidate, history
  <2>3. Len(fifo') = 0
    <3>1. Len(<<>>) = 0
      OBVIOUS
    <3>2. fifo' = <<>>
      BY <2>1 DEF LogicalInvalidate
    <3> QED
      BY <3>1, <3>2
  <2>4. acked' = 0
    BY <2>2, <2>3 DEF acked
  <2>5. LaneInv' /\ epoch \in Nat /\ epoch <= EpochLimit /\ epoch' \in Nat
    BY <2>2, LifecycleKeepsLane, LaneAssumption DEF LaneInv, Shaped
  <2>6. applied.epoch < epoch' \/ Terminal
    BY <2>2, <2>5, Records DEF LaneInv, Shaped, AppliedInOrder
  <2>7. CASE Terminal
    <3>1. seq = 0 /\ ~open /\ ~blocked /\ open' = open /\ epoch' = epoch /\ blocked' = blocked
      BY <2>1, <2>2, <2>7 DEF LaneInv, AtTheEnd, Shaped
    <3>2. acked = 0
      BY <3>1, FifoHead
    <3>3. appliedHere' = appliedHere
      BY <2>2, <3>1 DEF appliedHere
    <3> QED
      BY <2>2, <2>4, <3>1, <3>2, <3>3 DEF LaneStep, LaneStays
  <2>8. CASE ~Terminal
    <3>1. epoch < EpochLimit /\ epoch' = epoch + 1
      BY <2>2, <2>5, <2>8, LaneAssumption DEF Terminal
    <3>2. appliedHere' = 0
      <4>1. applied'.epoch # epoch'
        BY <2>2, <2>5, <2>6, <2>8
      <4> QED
        BY <4>1 DEF appliedHere
    <3>3. Lane!Invalidate
      BY <2>1, <2>2, <2>4, <3>1, <3>2 DEF Lane!Invalidate
    <3> QED
      BY <3>3 DEF LaneStep, Lane!Next
  <2> QED
    BY <2>7, <2>8
<1> QED
  BY <1>1, <1>2

LEMMA PresenterStep ==
  ASSUME LaneInv, \/ Presenter
                  \/ \E kind \in {"drain", "next", "hold"} : PresenterStart(kind)
  PROVE  LaneStep
<1>1. PresenterFrame
  BY PresenterKeepsLane DEF PresenterKeeps
<1> QED
  BY <1>1 DEF PresenterFrame, LaneStep, LaneStays, timeline, appliedHere, acked

(* The lane implements SourceLane: publish, acknowledge, block and           *)
(* invalidate are its steps, and everything else leaves the promise alone.   *)
THEOREM LaneImplementsSourceLane == Spec => LaneSpec
<1>1. Init => Lane!Init
  <2> SUFFICES ASSUME Init PROVE Lane!Init
    OBVIOUS
  <2>1. epoch = 1 /\ ~open /\ open = FALSE /\ seq = 0 /\ blocked = FALSE /\ applied = NoWork
    BY DEF Init
  <2>2. Len(fifo) = 0
    <3>1. Len(<<>>) = 0
      OBVIOUS
    <3>2. fifo = <<>>
      BY DEF Init
    <3> QED
      BY <3>1, <3>2
  <2>3. acked = 0
    BY <2>1, <2>2 DEF acked
  <2>4. appliedHere = 0
    BY <2>1, Records DEF appliedHere
  <2> QED
    BY <2>1, <2>3, <2>4 DEF Lane!Init
<1>2. LaneInv /\ [Next]_vars => [Lane!Next]_(Lane!vars)
  <2> SUFFICES ASSUME LaneInv, [Next]_vars PROVE LaneStep
    BY DEF LaneStep, LaneStays, Lane!vars
  <2>1. CASE Next
    BY <2>1, CollectorStep, LifecycleStep, WorkerKeepsLane, PresenterStep DEF Next
  <2>2. CASE UNCHANGED vars
    BY <2>2 DEF vars, timeline, history, LaneStep, LaneStays, appliedHere, acked
  <2> QED
    BY <2>1, <2>2
<1> QED
  BY <1>1, <1>2, LaneInvariant, PTL DEF Spec, LaneSpec, Lane!Spec

----------------------------------------------------------------------------
(* The picture.                                                              *)
LEMMA OnlyAuthorizeShows ==
  ASSUME LaneInv, [Next]_vars, shown' # shown
  PROVE  /\ PresenterAuthorize /\ presenter.pc = "authorize"
         /\ IsCurrent(batch[presenter.slot].work)
         /\ LET alpha == Alpha(batch[presenter.slot], presenter.phase)
            IN shown' = [work |-> batch[presenter.slot].work, num |-> alpha[1], den |-> alpha[2]]
<1>1. ~ UNCHANGED vars
  BY DEF vars, history
<1>2. ~ Collector
  BY DEF Collector, DraftBegin, DraftSeal, DraftCancel, PublishRefused, DraftDrop,
     SourceQueuePublish, lane, history
<1>3. ~ Lifecycle
  BY DEF Lifecycle, ClaimOpen, LifecycleClose, PresentationReset, TimelineInvalidate,
     LogicalInvalidate, history
<1>4. ~ Worker
  BY DEF Worker, WorkerStart, WorkerPoll, CompileReturns, FenceReturns, WorkerRetires,
     WorkerFailed, WorkerPend, outcomeKeeps, history
<1>5. ~ \E kind \in {"drain", "next", "hold"} : PresenterStart(kind)
  BY DEF PresenterStart, history
<1>6. ~ (PresenterDrain \/ PresenterRetires \/ PresenterReap)
  BY DEF PresenterDrain, PresenterRetires, PresenterReap, history
<1>7. ~ (PresenterReaped \/ PresenterChoose \/ PresenterSwapped)
  BY DEF PresenterReaped, PresenterChoose, PresenterSwapped, history
<1>8. ~ PresenterSelect
  BY DEF PresenterSelect, PresenterStale
<1>9. ~ PresenterCompose
  BY DEF PresenterCompose, PresenterStale
<1>10. PresenterAuthorize
  BY <1>1, <1>2, <1>3, <1>4, <1>5, <1>6, <1>7, <1>8, <1>9 DEF Next, Presenter
<1> QED
  BY <1>10 DEF PresenterAuthorize, PresenterStale

(* The picture never runs backwards: a swap shows a later epoch, a later     *)
(* source of the same epoch, or the same source at a phase that is not       *)
(* earlier, and never a phase outside the image (presenter_present).         *)
THEOREM LaneShownAdvances == Spec => ShownAdvances
<1> DEFINE Advances ==
  shown' # shown =>
       /\ shown'.num \in 1..shown'.den
       /\ \/ shown'.work.epoch > shown.work.epoch
          \/ /\ shown'.work.epoch = shown.work.epoch
             /\ shown'.work.seq > shown.work.seq
          \/ /\ shown'.work = shown.work
             /\ shown'.num * shown.den >= shown.num * shown'.den
<1>1. LaneInv /\ [Next]_vars => Advances
  <2> SUFFICES ASSUME LaneInv, [Next]_vars, shown' # shown PROVE Advances
    OBVIOUS
  <2>1. PICK b \in Batches, p \in 0..(PhaseLimit + 1), n \in Nat :
          /\ b = presenter.slot /\ p = presenter.phase /\ n = batch[b].count
          /\ presenter.pc = "authorize" /\ batch[b].st = "composed"
          /\ IsCurrent(batch[b].work)
          /\ shown'.work = batch[b].work
          /\ p < n => shown'.num = p /\ shown'.den = n
          /\ p >= n => shown'.num = 1 /\ shown'.den = 1
    <3>1. presenter.slot \in Batches /\ batch[presenter.slot].st = "composed"
      BY OnlyAuthorizeShows, PresenterBatch DEF LaneInv, PresenterPlaced, AtSlot, Showing, SlotState, Shaped, PresenterShape
    <3>2. presenter.phase \in 0..(PhaseLimit + 1) /\ batch[presenter.slot].count \in Nat
      BY <3>1, LaneAssumption DEF LaneInv, Shaped, PresenterShape, BatchRecord
    <3> QED
      BY <3>1, <3>2, OnlyAuthorizeShows, LaneAssumption DEF Alpha
  <2>2. shown'.num \in 1..shown'.den
    BY NextKeepsLane DEF LaneInv, PhasesInOrder
  <2>3. /\ shown'.work.epoch = epoch /\ epoch \in Nat
        /\ batch[b].work.seq \in Nat /\ shown.work.seq \in Nat
        /\ shown.work.epoch \in Nat /\ shown.work.epoch <= epoch
    <3>1. batch[b].work \in Works
      BY <2>1, PresenterBatch DEF AtSlot, Showing
    <3>2. epoch \in Nat /\ shown.work \in Works \cup {NoWork} /\ NoWork.seq \in Nat
      BY LaneAssumption DEF LaneInv, Shaped, NoWork
    <3>3. shown.work.epoch <= epoch
      BY DEF LaneInv, ShownAcked
    <3>4. shown.work.seq \in Nat /\ shown.work.epoch \in Nat
      BY <3>2, Records, LaneAssumption
    <3> QED
      BY <2>1, <3>1, <3>2, <3>3, <3>4, Records, LaneAssumption DEF IsCurrent
  <2>4. CASE shown.work.epoch < epoch
    BY <2>2, <2>3, <2>4
  <2>5. CASE shown.work.epoch = epoch /\ ~Hold
    <3>1. Here(b) /\ Unshown(b)
      BY <2>1, <2>3, <2>5 DEF Here, Unshown, Chosen
    <3>2. shown.work.seq < batch[b].work.seq
      BY <3>1, <2>5 DEF LaneInv, UnshownInOrder
    <3> QED
      BY <2>1, <2>2, <2>3, <2>5, <3>2
  <2>6. CASE Hold
    <3>1. retained = b /\ retained # 0
      BY <2>1, <2>6 DEF LaneInv, PresenterPlaced, Showing, Batches
    <3>2. /\ shown.work = batch[b].work
          /\ batch[b].index < n => shown.num = batch[b].index /\ shown.den = n
          /\ p < n => 1 <= p /\ batch[b].index <= p
      BY <2>1, <2>6, <3>1 DEF LaneInv, PhasesInOrder
    <3>3. /\ batch[b].index \in Nat /\ shown.num \in Nat /\ shown.den \in Nat
          /\ shown.num <= shown.den
      BY LaneAssumption DEF LaneInv, Shaped, BatchRecord, PhasesInOrder
    <3>4. CASE p < n
      <4>1. batch[b].index < n
        BY <2>1, <3>2, <3>3, <3>4, LaneAssumption
      <4>2. shown'.num * shown.den = p * n /\ shown.num * shown'.den = batch[b].index * n
        BY <2>1, <3>2, <3>4, <4>1
      <4>3. ASSUME NEW i \in Nat, NEW k \in Nat, NEW d \in Nat, i <= k PROVE k * d >= i * d
        <5>1. k * d - i * d = (k - i) * d
          OBVIOUS
        <5>2. (k - i) \in Nat /\ (k - i) * d >= 0
          BY <4>3
        <5> QED
          BY <5>1, <5>2
      <4>4. p * n >= batch[b].index * n
        BY <3>2, <3>3, <3>4, <4>3, LaneAssumption
      <4> QED
        BY <2>1, <2>2, <3>2, <4>2, <4>4
    <3>5. CASE p >= n
      <4>1. shown'.num * shown.den = shown.den /\ shown.num * shown'.den = shown.num
        BY <2>1, <3>3, <3>5
      <4> QED
        BY <2>1, <2>2, <3>2, <3>3, <4>1
    <3> QED
      BY <2>1, <3>4, <3>5, LaneAssumption
  <2> QED
    BY <2>3, <2>4, <2>5, <2>6
<1> QED
  BY <1>1, LaneInvariant, PTL DEF Spec, ShownAdvances

----------------------------------------------------------------------------
(* Ascending enumerates a finite set of naturals without repetition.         *)
Rank(S, x) == Cardinality({y \in S : y <= x})

LEMMA RankGrows ==
  ASSUME NEW S \in SUBSET Nat, IsFiniteSet(S)
  PROVE  /\ \A x \in S : Rank(S, x) \in 1..Cardinality(S)
         /\ \A x, y \in S : x < y => Rank(S, x) < Rank(S, y)
<1>1. ASSUME NEW x \in S
      PROVE  /\ IsFiniteSet({y \in S : y <= x}) /\ Rank(S, x) \in Nat
             /\ Rank(S, x) <= Cardinality(S)
  <2> DEFINE T == {y \in S : y <= x}
  <2>1. T \in SUBSET S
    OBVIOUS
  <2> HIDE DEF T
  <2>2. IsFiniteSet(T) /\ Cardinality(T) <= Cardinality(S)
    BY ONLY <2>1, IsFiniteSet(S), FS_Subset
  <2>3. Cardinality(T) \in Nat
    BY ONLY <2>2, FS_CardinalityType
  <2> QED
    BY <2>2, <2>3 DEF T, Rank
<1>2. ASSUME NEW x \in S
      PROVE  Rank(S, x) # 0
  <2> DEFINE T == {y \in S : y <= x}
  <2>1. x \in T /\ IsFiniteSet(T)
    BY <1>1
  <2> HIDE DEF T
  <2>2. Cardinality(T) # 0
    BY ONLY <2>1, FS_EmptySet
  <2> QED
    BY <2>2 DEF T, Rank
<1>3. ASSUME NEW x \in S, NEW y \in S, x < y
      PROVE  Rank(S, x) < Rank(S, y)
  <2> DEFINE T == {z \in S : z <= x}
             U == {z \in S : z <= y}
  <2>0. \A z \in S : z \in Nat
    OBVIOUS
  <2>1. T \in SUBSET U /\ y \in U /\ y \notin T /\ IsFiniteSet(U)
    <3>1. \A z \in S : z <= x => z <= y
      BY <1>3, <2>0
    <3>2. ~(y <= x) /\ y <= y
      BY <1>3, <2>0
    <3>3. IsFiniteSet(U)
      BY <1>1
    <3> QED
      BY <3>1, <3>2, <3>3
  <2>2. T # U /\ Cardinality(T) \in Nat /\ Cardinality(U) \in Nat
    BY <1>1, <2>1 DEF Rank
  <2> HIDE DEF T, U
  <2>3. Cardinality(T) <= Cardinality(U) /\ (Cardinality(U) = Cardinality(T) => U = T)
    BY ONLY <2>1, FS_Subset
  <2>4. Cardinality(T) < Cardinality(U)
    BY <2>2, <2>3
  <2> QED
    BY <2>4 DEF T, U, Rank
<1>4. Cardinality(S) \in Nat
  BY FS_CardinalityType
<1>5. ASSUME NEW x \in S
      PROVE  Rank(S, x) \in 1..Cardinality(S)
  <2>1. Rank(S, x) \in Nat /\ Rank(S, x) <= Cardinality(S) /\ Rank(S, x) # 0
    BY <1>1, <1>2
  <2> QED
    BY ONLY <1>4, <2>1
<1> QED
  BY <1>3, <1>5

LEMMA Ascends ==
  ASSUME NEW S \in SUBSET Nat, IsFiniteSet(S)
  PROVE  /\ Cardinality(S) \in Nat
         /\ Ascending(S) \in [1..Cardinality(S) -> S]
         /\ \A x \in S : \E n \in 1..Cardinality(S) : Ascending(S)[n] = x
         /\ \A m, n \in 1..Cardinality(S) : Ascending(S)[m] = Ascending(S)[n] => m = n
<1> DEFINE f == [x \in S |-> Rank(S, x)]
           I == 1..Cardinality(S)
<1>1. Cardinality(S) \in Nat
  BY FS_CardinalityType
<1>2. /\ f \in [S -> I]
      /\ \A x, y \in S : f[x] = f[y] => x = y
  BY RankGrows
<1>3. f \in Injection(S, I)
  BY <1>2 DEF Injection, IsInjective
<1>4. IsFiniteSet(I) /\ Cardinality(I) = Cardinality(S)
  BY <1>1, FS_Interval
<1>5. f \in Surjection(S, I)
  <2> HIDE DEF f, I
  <2> QED
    BY <1>3, <1>4, FS_Injection
<1>6. \A n \in I : \E x \in S : f[x] = n
  <2> HIDE DEF f, I
  <2> QED
    BY <1>5 DEF Surjection
<1>7. \A n \in I : \E x \in S : Rank(S, x) = n
  BY <1>6
<1>8. \A n \in I : Ascending(S)[n] \in S /\ Rank(S, Ascending(S)[n]) = n
  <2>1. Ascending(S) = [n \in I |-> CHOOSE x \in S : Rank(S, x) = n]
    BY DEF Ascending, Rank
  <2> QED
    BY <1>7, <2>1
<1>9. Ascending(S) \in [I -> S]
  <2>1. Ascending(S) = [n \in I |-> CHOOSE x \in S : Rank(S, x) = n]
    BY DEF Ascending, Rank
  <2> QED
    BY <1>7, <2>1
<1>10. \A x, y \in S : Rank(S, x) = Rank(S, y) => x = y
  BY <1>2
<1>11. \A x \in S : Rank(S, x) \in I
  BY RankGrows
<1> QED
  BY <1>1, <1>8, <1>9, <1>10, <1>11

(* What defer_retirement adds: every non-empty record, once.                 *)
Added(rets) == {i \in DOMAIN rets : rets[i] # {}}
Spreads(g, J, s, rets) ==
  /\ g \in [J -> Added(rets)]
  /\ \A j \in J : s[j] = rets[g[j]]
  /\ \A i \in Added(rets) : \E j \in J : g[j] = i
  /\ \A j, k \in J : g[j] = g[k] => j = k
New == Len(deferred) + 1 .. Len(deferred')
LEMMA Defers ==
  ASSUME deferred \in Seq(SUBSET Objects), NEW rets \in Seq(SUBSET Objects), Defer(rets)
  PROVE  /\ IsFiniteSet(Added(rets)) /\ Cardinality(Added(rets)) \in Nat
         /\ deferred' \in Seq(SUBSET Objects)
         /\ Len(deferred') = Len(deferred) + Cardinality(Added(rets))
         /\ \A i \in DOMAIN deferred : deferred'[i] = deferred[i]
         /\ \E g : Spreads(g, New, deferred', rets)
<1> DEFINE S == Added(rets)
           n == Cardinality(S)
           kept == Ascending(S)
           more == [m \in DOMAIN kept |-> rets[kept[m]]]
           d == Len(deferred)
<1>1. S \in SUBSET (1..Len(rets)) /\ S \in SUBSET Nat /\ Len(rets) \in Nat /\ DOMAIN rets = 1..Len(rets)
  BY DEF Added
<1>2. IsFiniteSet(S)
  <2>1. IsFiniteSet(1..Len(rets))
    BY <1>1, FS_Interval
  <2> HIDE DEF S
  <2> QED
    BY ONLY <1>1, <2>1, FS_Subset
<1>3. /\ n \in Nat /\ kept \in [1..n -> S]
      /\ \A x \in S : \E m \in 1..n : kept[m] = x
      /\ \A l, m \in 1..n : kept[l] = kept[m] => l = m
  <2> HIDE DEF S
  <2> QED
    BY ONLY <1>1, <1>2, Ascends
<1>4. deferred' = deferred \o more
  BY DEF Defer, Added
<1> HIDE DEF S, n, kept
<1>5. more \in Seq(SUBSET Objects) /\ Len(more) = n /\ \A m \in 1..n : more[m] = rets[kept[m]]
  <2>1. \A m \in 1..n : kept[m] \in DOMAIN rets
    BY <1>1, <1>3
  <2>2. \A m \in 1..n : rets[kept[m]] \in SUBSET Objects
    BY <2>1
  <2>3. more = [m \in 1..n |-> rets[kept[m]]]
    BY <1>3
  <2> QED
    BY <1>3, <2>2, <2>3
<1> HIDE DEF more
<1>6. /\ deferred' \in Seq(SUBSET Objects) /\ Len(deferred') = d + n
      /\ \A i \in 1..d : deferred'[i] = deferred[i]
      /\ \A m \in 1..n : deferred'[d + m] = more[m]
  BY <1>3, <1>4, <1>5
<1>7. d \in Nat /\ DOMAIN deferred = 1..d
  OBVIOUS
<1> DEFINE g == [j \in d + 1 .. d + n |-> kept[j - d]]
<1>8. \A j \in d + 1 .. d + n : j - d \in 1..n /\ d + (j - d) = j
  BY <1>3, <1>7
<1>9. \A m \in 1..n : d + m \in d + 1 .. d + n /\ (d + m) - d = m
  BY <1>3, <1>7
<1>10. g \in [d + 1 .. d + n -> S]
  BY <1>3, <1>8
<1>11. \A j \in d + 1 .. d + n : deferred'[j] = rets[g[j]]
  BY <1>5, <1>6, <1>8
<1>12. \A i \in S : \E j \in d + 1 .. d + n : g[j] = i
  <2> SUFFICES ASSUME NEW i \in S PROVE \E j \in d + 1 .. d + n : g[j] = i
    OBVIOUS
  <2>1. PICK m \in 1..n : kept[m] = i
    BY <1>3
  <2>2. d + m \in d + 1 .. d + n /\ g[d + m] = i
    BY <1>9, <2>1
  <2> QED
    BY <2>2
<1>13. \A j, k \in d + 1 .. d + n : g[j] = g[k] => j = k
  <2> SUFFICES ASSUME NEW j \in d + 1 .. d + n, NEW k \in d + 1 .. d + n, g[j] = g[k] PROVE j = k
    OBVIOUS
  <2>1. j - d = k - d
    BY <1>3, <1>8
  <2> QED
    BY <1>7, <2>1
<1> HIDE DEF g, d
<1>14. \A i \in DOMAIN deferred : deferred'[i] = deferred[i]
  BY <1>6, <1>7
<1>15. Spreads(g, d + 1 .. d + n, deferred', rets)
  <2>1. S = Added(rets)
    BY DEF S
  <2> QED
    BY ONLY <1>10, <1>11, <1>12, <1>13, <2>1 DEF Spreads
<1> HIDE DEF g
<1>16. \E h : Spreads(h, d + 1 .. d + n, deferred', rets)
  BY <1>15
<1>17. d + 1 .. d + n = New
  <2>1. Len(deferred') = d + n
    BY <1>6
  <2> QED
    BY ONLY <2>1 DEF New, d
<1>18. \E h : Spreads(h, New, deferred', rets)
  BY <1>16, <1>17
<1> QED
  BY <1>2, <1>3, <1>6, <1>14, <1>18 DEF d, n, S

----------------------------------------------------------------------------
(* Who owns what.  What a batch carries follows from its state.              *)
Cargo(st) ==
  IF st = "free" THEN {}
  ELSE IF st = "compiling" THEN {"commit"}
  ELSE IF st \in {"checking", "waiting"} THEN {"commit", "endpoint", "compile"}
  ELSE IF st = "finalizing" THEN IF Going("failed") THEN {"commit"} ELSE {"endpoint"}
  ELSE IF st \in {"pending", "selecting", "composing", "retained"} THEN {"endpoint"}
  ELSE {"endpoint", "completion"}
Carried == \A b \in Batches : batch[b].has = Cargo(batch[b].st)

(* A thread holds a record only while it cleans up, a deferred record is not *)
(* empty, and a completion is deferred with the endpoint it was made from.   *)
Deferrable(ret) ==
  /\ ret # {}
  /\ \A w \in Works : <<"completion", w>> \in ret => <<"endpoint", w>> \in ret
Recorded ==
  /\ deferred \in Seq(SUBSET Objects) /\ presenter.ret \in SUBSET Objects
  /\ worker.pc # "clean" => worker.ret = {}
  /\ presenter.pc # "clean" => presenter.ret = {}
  /\ \A o \in worker.ret : o[1] # "completion"
  /\ \A i \in DOMAIN deferred : Deferrable(deferred[i])

Drafted ==
  /\ draft.st = "none" => draft.work = NoWork
  /\ draft.st # "none" =>
       /\ draft.work \in Works /\ draft.work.epoch <= epoch
       /\ draft.work.epoch = epoch => draft.work.seq = seq + 1

(* Nothing exists of a work before it is begun, and no endpoint or fence     *)
(* before it is compiled.                                                    *)
Fresh ==
  \A o \in live :
    /\ o \in Objects /\ o[2].epoch <= epoch /\ o[2].epoch < EpochLimit
    /\ o[2].epoch = epoch /\ o[2].seq > seq =>
         draft.st # "none" /\ o = <<"commit", draft.work>>
InCheck(w) ==
  /\ workBatch # 0 /\ Here(workBatch) /\ batch[workBatch].st \in {"checking", "waiting"}
  /\ w = batch[workBatch].work
CompiledOnce ==
  /\ worker.pc = "compile" =>
       \A o \in live : o[2] = batch[worker.slot].work => o[1] = "commit"
  /\ \A o \in live : o[1] # "commit" /\ o[2].epoch = epoch =>
       o[2].seq <= acked \/ blocked \/ InCheck(o[2])

(* The owners: the commit of a draft, the batches with the FIFO, which share *)
(* the commit in work, the deferred records and the record of each thread.   *)
InHand == IF draft.st = "none" THEN {} ELSE Of(draft.work, {"commit"})
Sources == {<<"commit", fifo[i]>> : i \in DOMAIN fifo}
InBatches == UNION {Owned(b) : b \in Batches}
Held == Sources \cup InBatches
InDeferred == UNION {deferred[i] : i \in DOMAIN deferred}

BatchesApart == \A b, c \in Batches : b # c => Owned(b) \cap Owned(c) = {}
DeferredApart == \A i, j \in DOMAIN deferred : i # j => deferred[i] \cap deferred[j] = {}
Parted(a, b, c, d, e, all) ==
  /\ all = a \cup b \cup c \cup d \cup e
  /\ a \cap b = {} /\ a \cap c = {} /\ a \cap d = {} /\ a \cap e = {}
  /\ b \cap c = {} /\ b \cap d = {} /\ b \cap e = {}
  /\ c \cap d = {} /\ c \cap e = {} /\ d \cap e = {}
Whole == Parted(InHand, Held, InDeferred, worker.ret, presenter.ret, live)

OwnInv ==
  /\ Carried /\ Recorded /\ Drafted /\ Fresh /\ CompiledOnce
  /\ BatchesApart /\ DeferredApart /\ Whole

LEMMA InOf ==
  ASSUME NEW w, NEW kinds
  PROVE  /\ \A k : <<k, w>> \in Of(w, kinds) <=> k \in kinds
         /\ \A o \in Of(w, kinds) : o[1] \in kinds /\ o[2] = w /\ o = <<o[1], o[2]>>
         /\ Of(w, {}) = {}
         /\ w \in Works /\ kinds \subseteq Kinds => Of(w, kinds) \in SUBSET Objects
BY DEF Of, Objects

LEMMA OfParts ==
  ASSUME NEW w, NEW A, NEW B
  PROVE  /\ Of(w, A \cup B) = Of(w, A) \cup Of(w, B)
         /\ Of(w, A \ B) = Of(w, A) \ Of(w, B)
         /\ A \subseteq B => Of(w, A) \subseteq Of(w, B)
         /\ A \cap B = {} => Of(w, A) \cap Of(w, B) = {}
BY DEF Of

LEMMA OfOthers ==
  ASSUME NEW w, NEW v, NEW A, NEW B, v # w
  PROVE  Of(w, A) \cap Of(v, B) = {}
BY DEF Of

LEMMA OneIsOwned ==
  ASSUME batch \in [Batches -> BatchRecord], NEW b \in Batches, NEW r,
         batch' = [batch EXCEPT ![b] = r]
  PROVE  /\ Owned(b)' = Of(r.work, r.has)
         /\ \A c \in Batches : c # b => Owned(c)' = Owned(c)
BY DEF Owned

Loads(S) == UNION {Owned(c) : c \in S}
LEMMA BatchesFreed ==
  ASSUME BatchesApart, NEW S \in SUBSET Batches,
         \A c \in Batches : Owned(c)' = IF c \in S THEN {} ELSE Owned(c)
  PROVE  InBatches' = InBatches \ Loads(S) /\ BatchesApart'
<1>1. BatchesApart'
  BY DEF BatchesApart
<1>2. ASSUME NEW o PROVE o \in InBatches' <=> o \in InBatches \ Loads(S)
  BY DEF InBatches, Loads, BatchesApart
<1> QED
  BY <1>1, <1>2

LEMMA BatchChanges ==
  ASSUME BatchesApart, NEW b \in Batches, NEW X, Owned(b)' = X,
         \A c \in Batches : c # b => Owned(c)' = Owned(c),
         X \cap (InBatches \ Owned(b)) = {}
  PROVE  InBatches' = (InBatches \ Owned(b)) \cup X /\ BatchesApart'
<1>1. \A c \in Batches : c # b => Owned(c) \cap X = {} /\ Owned(c) \cap Owned(b) = {}
  BY DEF BatchesApart, InBatches
<1>2. BatchesApart'
  BY <1>1 DEF BatchesApart
<1>3. ASSUME NEW o PROVE o \in InBatches' <=> o \in (InBatches \ Owned(b)) \cup X
  BY <1>1 DEF InBatches
<1> QED
  BY <1>2, <1>3

LEMMA BatchesStay ==
  ASSUME BatchesApart, \A c \in Batches : Owned(c)' = Owned(c)
  PROVE  InBatches' = InBatches /\ BatchesApart'
BY DEF InBatches, BatchesApart

LEMMA SourcesStay ==
  ASSUME UNCHANGED fifo
  PROVE  Sources' = Sources
BY DEF Sources

LEMMA DefersApart ==
  ASSUME deferred \in Seq(SUBSET Objects), NEW rets \in Seq(SUBSET Objects), Defer(rets),
         DeferredApart, NEW X, X = UNION {rets[i] : i \in DOMAIN rets}, X \cap InDeferred = {},
         \A i, j \in DOMAIN rets : i # j => rets[i] \cap rets[j] = {}
  PROVE  /\ deferred' \in Seq(SUBSET Objects)
         /\ InDeferred' = InDeferred \cup X /\ DeferredApart'
         /\ \A j \in DOMAIN deferred' :
              \/ \E i \in DOMAIN deferred : deferred'[j] = deferred[i]
              \/ \E i \in DOMAIN rets : deferred'[j] = rets[i] /\ rets[i] # {}
<1>1. /\ deferred' \in Seq(SUBSET Objects)
      /\ \A i \in DOMAIN deferred : deferred'[i] = deferred[i]
  BY Defers
<1>2. PICK g : Spreads(g, New, deferred', rets)
  BY Defers
<1>3. /\ \A j \in New : g[j] \in DOMAIN rets /\ deferred'[j] = rets[g[j]] /\ rets[g[j]] # {}
      /\ \A i \in DOMAIN rets : rets[i] # {} => \E j \in New : g[j] = i
      /\ \A j, k \in New : g[j] = g[k] => j = k
  BY <1>2 DEF Spreads, Added
<1>4. /\ Len(deferred') = Len(deferred) + Cardinality(Added(rets))
      /\ Cardinality(Added(rets)) \in Nat /\ Len(deferred) \in Nat
  BY Defers
<1>5. /\ DOMAIN deferred = 1..Len(deferred) /\ DOMAIN deferred' = 1..Len(deferred')
  BY <1>1
<1>6. \A j : j \in DOMAIN deferred' <=> j \in DOMAIN deferred \/ j \in New
  BY <1>4, <1>5 DEF New
<1>7. \A j \in DOMAIN deferred' :
              \/ \E i \in DOMAIN deferred : deferred'[j] = deferred[i]
              \/ \E i \in DOMAIN rets : deferred'[j] = rets[i] /\ rets[i] # {}
  BY <1>1, <1>3, <1>6
<1>8. ASSUME NEW o PROVE o \in InDeferred' <=> o \in InDeferred \cup X
  <2>1. o \in InDeferred' <=> \E j \in DOMAIN deferred' : o \in deferred'[j]
    BY DEF InDeferred
  <2>2. o \in InDeferred <=> \E j \in DOMAIN deferred : o \in deferred[j]
    BY DEF InDeferred
  <2>3. o \in X <=> \E i \in DOMAIN rets : o \in rets[i]
    OBVIOUS
  <2>4. o \in X <=> \E j \in New : o \in deferred'[j]
    BY <1>3, <2>3
  <2> QED
    BY <1>1, <1>6, <2>1, <2>2, <2>4
<1>9. DeferredApart'
  <2> SUFFICES ASSUME NEW i \in DOMAIN deferred', NEW j \in DOMAIN deferred', i # j
               PROVE  deferred'[i] \cap deferred'[j] = {}
    BY DEF DeferredApart
  <2>1. CASE i \in DOMAIN deferred /\ j \in DOMAIN deferred
    BY <1>1, <2>1 DEF DeferredApart
  <2>2. CASE i \in New /\ j \in New
    BY <1>3, <2>2
  <2>3. ASSUME NEW m \in DOMAIN deferred, NEW n \in New
        PROVE  deferred'[m] \cap deferred'[n] = {}
    BY <1>1, <1>3 DEF InDeferred
  <2> QED
    BY <1>6, <2>1, <2>2, <2>3
<1> QED
  BY <1>1, <1>7, <1>8, <1>9

----------------------------------------------------------------------------
(* The presenter moves what its batches own to its record, and makes         *)
(* completion fences.                                                        *)
LEMMA OwnTyped ==
  ASSUME LaneInv, OwnInv
  PROVE  /\ live \in SUBSET Objects /\ batch \in [Batches -> BatchRecord]
         /\ InBatches \subseteq live /\ Held \subseteq live
         /\ presenter \in PresenterShape /\ worker \in WorkerShape
         /\ presenter.ret \in SUBSET Objects /\ worker.ret \in SUBSET Objects
<1>1. live \in SUBSET Objects
  BY DEF OwnInv, Fresh
<1>2. InBatches \subseteq Held /\ Held \subseteq live
  <2>1. Held \subseteq live
    BY DEF OwnInv, Whole, Parted
  <2> QED
    BY <2>1 DEF Held
<1> QED
  BY <1>1, <1>2 DEF LaneInv, Shaped, OwnInv, Recorded, WorkerShape

Completions(made) ==
  \A o \in made : o \in Objects /\ o[1] = "completion" /\ <<"endpoint", o[2]>> \in live

LEMMA PresenterLeavesFresh ==
  ASSUME LaneInv, OwnInv, PresenterFrame, NEW made, Completions(made), live' \subseteq live \cup made
  PROVE  /\ Drafted' /\ Fresh' /\ CompiledOnce' /\ InHand' = InHand /\ Sources' = Sources
         /\ worker' = worker
<1>1. /\ epoch' = epoch /\ seq' = seq /\ blocked' = blocked /\ draft' = draft /\ fifo' = fifo
      /\ workBatch' = workBatch /\ worker' = worker
  BY DEF PresenterFrame, timeline
<1>2. Drafted'
  BY <1>1 DEF OwnInv, Drafted
<1>3. InHand' = InHand /\ Sources' = Sources
  BY <1>1 DEF InHand, Sources
<1>4. \A o \in live' : o \in live \/ (o \in Objects /\ o[1] = "completion" /\ <<"endpoint", o[2]>> \in live)
  BY DEF Completions
<1>5. ASSUME NEW w PROVE /\ <<"endpoint", w>>[1] = "endpoint" /\ <<"endpoint", w>>[2] = w
                         /\ <<"endpoint", w>> # <<"commit", draft.work>>
  OBVIOUS
<1>6. Fresh'
  <2> SUFFICES ASSUME NEW o \in live'
               PROVE  /\ o \in Objects /\ o[2].epoch <= epoch /\ o[2].epoch < EpochLimit
                      /\ o[2].epoch = epoch /\ o[2].seq > seq =>
                           draft.st # "none" /\ o = <<"commit", draft.work>>
    BY <1>1 DEF Fresh
  <2>1. CASE o \in live
    BY <2>1 DEF OwnInv, Fresh
  <2>2. CASE o \in Objects /\ o[1] = "completion" /\ <<"endpoint", o[2]>> \in live
    <3> DEFINE e == <<"endpoint", o[2]>>
    <3>1. e \in live /\ e[2] = o[2] /\ e # <<"commit", draft.work>>
      BY <2>2
    <3> HIDE DEF e
    <3>2. /\ e[2].epoch <= epoch /\ e[2].epoch < EpochLimit
          /\ ~(e[2].epoch = epoch /\ e[2].seq > seq)
      BY <3>1 DEF OwnInv, Fresh
    <3> QED
      BY <2>2, <3>1, <3>2
  <2> QED
    BY <1>4, <2>1, <2>2
<1>7. worker.pc = "compile" => batch'[worker.slot] = batch[worker.slot]
  <2> SUFFICES ASSUME worker.pc = "compile" PROVE batch'[worker.slot] = batch[worker.slot]
    OBVIOUS
  <2>1. worker.slot \in Batches /\ batch[worker.slot].st = "compiling"
    BY WorkerBatch
  <2> QED
    BY <2>1 DEF PresenterFrame, WorkLeftAlone, WorkStates
<1>8. \A w : InCheck(w)' <=> InCheck(w)
  <2>1. workBatch \in {0} \cup Batches
    BY DEF LaneInv, Shaped
  <2>2. workBatch # 0 => (batch'[workBatch].st \in WorkStates \/ batch[workBatch].st \in WorkStates
                           => batch'[workBatch] = batch[workBatch])
    BY <2>1 DEF PresenterFrame, WorkLeftAlone
  <2> QED
    BY <1>1, <2>2 DEF InCheck, Here, WorkStates
<1>9. acked' = acked
  BY <1>1 DEF acked
<1>10. CompiledOnce'
  <2>1. ASSUME worker.pc = "compile", NEW o \in live', o[2] = batch[worker.slot].work
        PROVE  o[1] = "commit"
    <3>1. CASE o \in live
      BY <2>1, <3>1 DEF OwnInv, CompiledOnce
    <3>2. CASE o[1] = "completion" /\ <<"endpoint", o[2]>> \in live
      <4> DEFINE e == <<"endpoint", o[2]>>
      <4>1. e \in live /\ e[2] = batch[worker.slot].work /\ e[1] # "commit"
        BY <2>1, <3>2
      <4> HIDE DEF e
      <4> QED
        BY <2>1, <4>1 DEF OwnInv, CompiledOnce
    <3> QED
      BY <1>4, <3>1, <3>2
  <2>2. ASSUME NEW o \in live', o[1] # "commit", o[2].epoch = epoch
        PROVE  o[2].seq <= acked \/ blocked \/ InCheck(o[2])
    <3>1. CASE o \in live
      BY <2>2, <3>1 DEF OwnInv, CompiledOnce
    <3>2. CASE <<"endpoint", o[2]>> \in live
      <4> DEFINE e == <<"endpoint", o[2]>>
      <4>1. e \in live /\ e[2] = o[2] /\ e[1] # "commit"
        BY <3>2
      <4> HIDE DEF e
      <4>2. e[2].seq <= acked \/ blocked \/ InCheck(e[2])
        BY <2>2, <4>1 DEF OwnInv, CompiledOnce
      <4> QED
        BY <4>1, <4>2
    <3> QED
      BY <1>4, <3>1, <3>2
  <2> QED
    BY <1>1, <1>7, <1>8, <1>9, <2>1, <2>2 DEF CompiledOnce
<1> QED
  BY <1>1, <1>2, <1>3, <1>6, <1>10

LEMMA Reparted ==
  ASSUME NEW a, NEW b, NEW c, NEW d, NEW all, Parted(a, b, c, d, {}, all),
         NEW x, NEW y, NEW made, NEW e, x \subseteq b, made \cap all = {},
         y \cup e = x \cup made, y \cap e = {}
  PROVE  Parted(a, (b \ x) \cup y, c, d, e, all \cup made)
BY DEF Parted

LEMMA PresenterMoves ==
  ASSUME LaneInv, OwnInv, PresenterFrame, Carried', BatchesApart', UNCHANGED deferred,
         presenter.ret = {}, presenter'.ret \in SUBSET Objects,
         presenter'.pc # "clean" => presenter'.ret = {},
         NEW x, NEW y, NEW made, Completions(made), made \cap live = {}, live' = live \cup made,
         InBatches' = (InBatches \ x) \cup y, x \subseteq InBatches, x \cap Sources = {},
         y \cup presenter'.ret = x \cup made, y \cap presenter'.ret = {}
  PROVE  OwnInv'
<1>1. /\ Drafted' /\ Fresh' /\ CompiledOnce' /\ InHand' = InHand /\ Sources' = Sources
      /\ worker' = worker
  BY PresenterLeavesFresh
<1>2. Held' = (Held \ x) \cup y
  BY <1>1 DEF Held
<1>3. x \subseteq Held
  BY DEF Held
<1>4. DeferredApart' /\ InDeferred' = InDeferred
  BY DEF DeferredApart, InDeferred, OwnInv
<1>5. Parted(InHand, (Held \ x) \cup y, InDeferred, worker.ret, presenter'.ret, live \cup made)
  <2>1. Parted(InHand, Held, InDeferred, worker.ret, {}, live)
    BY DEF OwnInv, Whole
  <2> QED
    BY ONLY <1>3, <2>1, Reparted, made \cap live = {},
            y \cup presenter'.ret = x \cup made, y \cap presenter'.ret = {}
<1>6. Whole'
  BY <1>1, <1>2, <1>4, <1>5 DEF Whole
<1>7. Recorded'
  BY <1>1 DEF OwnInv, Recorded, Deferrable
<1> QED
  BY <1>1, <1>4, <1>6, <1>7 DEF OwnInv

LEMMA CargoStays ==
  ASSUME UNCHANGED worker
  PROVE  \A st : Cargo(st)' = Cargo(st)
BY DEF Cargo, Going

(* What the presenter shows, an endpoint, is in its batch and nowhere else.  *)
LEMMA ShownCargo ==
  ASSUME LaneInv, OwnInv, NEW b \in Batches, batch[b].st \in ShownStates
  PROVE  /\ batch[b] \in BatchRecord /\ batch[b].work \in Works /\ batch[b].has = Cargo(batch[b].st)
         /\ Owned(b) = Of(batch[b].work, batch[b].has) /\ Owned(b) \in SUBSET Objects
         /\ "endpoint" \in batch[b].has /\ "commit" \notin batch[b].has
         /\ batch[b].has \subseteq {"endpoint", "completion"}
         /\ <<"endpoint", batch[b].work>> \in Owned(b) /\ Owned(b) \subseteq live
         /\ Owned(b) \subseteq InBatches /\ Owned(b) \cap Sources = {}
<1>1. batch[b] \in BatchRecord /\ batch[b].work \in Works
  BY DEF LaneInv, Shaped, BatchesOccupied, ShownStates
<1>2. batch[b].has = Cargo(batch[b].st)
  BY DEF OwnInv, Carried
<1>3. /\ "endpoint" \in batch[b].has /\ "commit" \notin batch[b].has
      /\ batch[b].has \subseteq {"endpoint", "completion"}
  BY <1>2 DEF Cargo, ShownStates
<1>4. Owned(b) = Of(batch[b].work, batch[b].has)
  BY DEF Owned
<1>5. <<"endpoint", batch[b].work>> \in Owned(b)
  BY <1>3, <1>4, InOf
<1>6. Owned(b) \subseteq InBatches
  BY DEF InBatches
<1>7. Owned(b) \subseteq live /\ Owned(b) \in SUBSET Objects
  BY <1>6, OwnTyped
<1>8. Owned(b) \cap Sources = {}
  <2>1. \A o \in Owned(b) : o[1] # "commit"
    BY <1>3, <1>4, InOf
  <2>2. \A o \in Sources : o[1] = "commit"
    BY DEF Sources
  <2> QED
    BY <2>1, <2>2
<1> QED
  BY <1>1, <1>2, <1>3, <1>4, <1>5, <1>6, <1>7, <1>8

LEMMA NewCompletion ==
  ASSUME LaneInv, OwnInv, NEW b \in Batches, batch[b].st = "composing", presenter.ret = {}
  PROVE  /\ Of(batch[b].work, {"completion"}) \cap live = {}
         /\ Completions(Of(batch[b].work, {"completion"}))
         /\ Of(batch[b].work, {"completion"}) \in SUBSET Objects
<1> DEFINE w == batch[b].work
           o == <<"completion", w>>
           e == <<"endpoint", w>>
<1>1. /\ w \in Works /\ batch[b].has = {"endpoint"} /\ e \in Owned(b) /\ e \in live
      /\ Owned(b) \subseteq InBatches
  BY ShownCargo DEF ShownStates, Cargo
<1>2. o \in Objects
  BY <1>1 DEF Objects, Kinds, Fences
<1>3. \A c \in Batches : o \notin Owned(c)
  <2> SUFFICES ASSUME NEW c \in Batches, o \in Owned(c) PROVE FALSE
    OBVIOUS
  <2>1. "completion" \in batch[c].has /\ batch[c].work = w
    BY InOf DEF Owned
  <2>2. "endpoint" \in batch[c].has
    BY <2>1 DEF OwnInv, Carried, Cargo
  <2>3. e \in Owned(c)
    BY <2>1, <2>2, InOf DEF Owned
  <2>4. c = b
    BY <1>1, <2>3 DEF OwnInv, BatchesApart
  <2> QED
    BY <1>1, <2>1, <2>4
<1>4. o \notin InHand /\ o \notin Sources
  <2>1. o[1] # "commit"
    OBVIOUS
  <2>2. \A x \in Sources \cup InHand : x[1] = "commit"
    BY InOf DEF Sources, InHand
  <2> QED
    BY <2>1, <2>2
<1>5. o \notin Held
  BY <1>3, <1>4 DEF Held, InBatches
<1>6. o \notin InDeferred
  <2> SUFFICES ASSUME NEW i \in DOMAIN deferred, o \in deferred[i] PROVE FALSE
    BY DEF InDeferred
  <2>1. e \in deferred[i]
    BY <1>1 DEF OwnInv, Recorded, Deferrable
  <2>2. e \in InDeferred /\ e \in Held
    BY <1>1, <2>1 DEF InDeferred, Held
  <2>3. Held \cap InDeferred = {}
    BY DEF OwnInv, Whole, Parted
  <2> QED
    BY <2>2, <2>3
<1>7. o \notin worker.ret /\ o \notin presenter.ret
  BY DEF OwnInv, Recorded
<1>8. o \notin live
  BY <1>4, <1>5, <1>6, <1>7 DEF OwnInv, Whole, Parted
<1>9. Of(w, {"completion"}) = {o}
  BY DEF Of
<1> HIDE DEF o
<1>10. o[1] = "completion" /\ o[2] = w
  BY DEF o
<1> HIDE DEF w, e
<1>11. Completions({o})
  BY <1>1, <1>2, <1>10 DEF Completions, e
<1> QED
  BY <1>2, <1>8, <1>9, <1>11 DEF w

LEMMA OneBatchMoves ==
  ASSUME LaneInv, OwnInv, PresenterFrame, UNCHANGED deferred, presenter.ret = {},
         NEW b \in Batches, NEW r \in BatchRecord, batch' = [batch EXCEPT ![b] = r],
         batch[b].st \in ShownStates, r.has = Cargo(r.st), r.has \subseteq {"endpoint", "completion"},
         NEW made, Completions(made), made \cap live = {}, live' = live \cup made,
         made \in SUBSET Objects,
         Of(r.work, r.has) \cup presenter'.ret = Owned(b) \cup made,
         Of(r.work, r.has) \cap presenter'.ret = {},
         presenter'.pc # "clean" => presenter'.ret = {}
  PROVE  OwnInv'
<1> DEFINE y == Of(r.work, r.has)
<1>1. /\ batch \in [Batches -> BatchRecord] /\ BatchesApart
      /\ Owned(b) \subseteq InBatches /\ Owned(b) \cap Sources = {} /\ Owned(b) \in SUBSET Objects
      /\ InBatches \subseteq live
  BY OwnTyped, ShownCargo DEF OwnInv
<1>2. Owned(b)' = y /\ \A c \in Batches : c # b => Owned(c)' = Owned(c)
  BY <1>1, OneIsOwned
<1>3. y \subseteq Owned(b) \cup made
  OBVIOUS
<1> HIDE DEF y
<1>4. y \cap (InBatches \ Owned(b)) = {}
  BY <1>1, <1>3
<1>5. InBatches' = (InBatches \ Owned(b)) \cup y /\ BatchesApart'
  BY <1>1, <1>2, <1>4, BatchChanges
<1>6. Carried'
  <2>1. batch'[b] = r /\ \A c \in Batches : c # b => batch'[c] = batch[c]
    BY <1>1
  <2>2. \A st : Cargo(st)' = Cargo(st)
    BY CargoStays DEF PresenterFrame
  <2> QED
    BY <2>1, <2>2 DEF OwnInv, Carried
<1>7. presenter'.ret \in SUBSET Objects
  <2>1. presenter'.ret \subseteq Owned(b) \cup made
    OBVIOUS
  <2> QED
    BY <1>1, <2>1
<1>8. y \cup presenter'.ret = Owned(b) \cup made /\ y \cap presenter'.ret = {}
  BY DEF y
<1> QED
  BY <1>1, <1>5, <1>6, <1>7, <1>8, PresenterMoves

(* The batch changes its state, but not what it owns.                        *)
LEMMA OneBatchStays ==
  ASSUME LaneInv, OwnInv, PresenterFrame, UNCHANGED <<deferred, live>>, presenter.ret = {},
         NEW b \in Batches, NEW r \in BatchRecord, batch' = [batch EXCEPT ![b] = r],
         batch[b].st \in ShownStates, r.st \in ShownStates, Cargo(r.st) = Cargo(batch[b].st),
         r.work = batch[b].work, r.has = batch[b].has, presenter'.ret = {}
  PROVE  OwnInv'
<1>1. /\ Owned(b) = Of(batch[b].work, batch[b].has) /\ batch[b].has = Cargo(batch[b].st)
      /\ batch[b].has \subseteq {"endpoint", "completion"}
  BY ShownCargo
<1>2. Completions({})
  BY DEF Completions
<1>3. /\ Of(r.work, r.has) \cup presenter'.ret = Owned(b) \cup {}
      /\ Of(r.work, r.has) \cap presenter'.ret = {}
      /\ live' = live \cup {} /\ {} \cap live = {}
  BY <1>1
<1> QED
  BY <1>1, <1>2, <1>3, OneBatchMoves

(* The batch is freed, and its record is what it owned and was just made.    *)
LEMMA OneBatchLeaves ==
  ASSUME LaneInv, OwnInv, PresenterFrame, UNCHANGED deferred, presenter.ret = {},
         NEW b \in Batches, batch' = Detached(b), batch[b].st \in ShownStates,
         NEW made, Completions(made), made \cap live = {}, live' = live \cup made,
         made \in SUBSET Objects, presenter'.ret = Owned(b) \cup made,
         presenter'.pc # "clean" => presenter'.ret = {}
  PROVE  OwnInv'
<1>1. batch' = [batch EXCEPT ![b] = FreeBatch] /\ FreeBatch \in BatchRecord
  BY Records DEF Detached
<1>2. FreeBatch.has = {} /\ FreeBatch.has = Cargo(FreeBatch.st) /\ Of(FreeBatch.work, FreeBatch.has) = {}
  BY Records, InOf DEF Cargo
<1>3. /\ Of(FreeBatch.work, FreeBatch.has) \cup presenter'.ret = Owned(b) \cup made
      /\ Of(FreeBatch.work, FreeBatch.has) \cap presenter'.ret = {}
  BY <1>2
<1> QED
  BY <1>1, <1>2, <1>3, OneBatchMoves

LEMMA NothingMoves ==
  ASSUME LaneInv, OwnInv, PresenterFrame, UNCHANGED <<deferred, live, batch>>,
         presenter.ret = {}, presenter'.ret = {}
  PROVE  OwnInv'
<1>1. Completions({})
  BY DEF Completions
<1>2. \A c \in Batches : Owned(c)' = Owned(c)
  BY DEF Owned
<1>3. InBatches' = InBatches /\ BatchesApart'
  BY <1>2, BatchesStay DEF OwnInv
<1>4. Carried'
  <2>1. \A st : Cargo(st)' = Cargo(st)
    BY CargoStays DEF PresenterFrame
  <2> QED
    BY <2>1 DEF OwnInv, Carried
<1>5. /\ live' = live \cup {} /\ {} \cap live = {} /\ InBatches' = (InBatches \ {}) \cup {}
      /\ {} \subseteq InBatches /\ {} \cap Sources = {}
      /\ {} \cup presenter'.ret = {} \cup {} /\ {} \cap presenter'.ret = {}
      /\ presenter'.ret \in SUBSET Objects
  BY <1>3
<1> QED
  BY <1>1, <1>3, <1>4, <1>5, PresenterMoves

LEMMA PresenterTakes ==
  ASSUME LaneInv, presenter.ret = {}, NEW ret, NEW next \in {"idle", "drain", "choose"},
         PresenterCleans(ret, next)
  PROVE  presenter'.ret = ret /\ (presenter'.pc # "clean" => presenter'.ret = {})
<1>1. presenter \in PresenterShape
  BY DEF LaneInv, Shaped
<1>2. CASE ret # {}
  BY <1>1, <1>2 DEF PresenterCleans, PresenterShape
<1>3. CASE ret = {} /\ next = "idle"
  BY <1>1, <1>3 DEF PresenterCleans, PresenterShape, IdlePresenter
<1>4. CASE ret = {} /\ next # "idle"
  BY <1>1, <1>4 DEF PresenterCleans, PresenterShape
<1> QED
  BY <1>2, <1>3, <1>4

LEMMA PresenterHolds ==
  ASSUME LaneInv, presenter.ret = {},
         \/ PresenterDone
         \/ \E pc \in {"idle", "drain", "reap", "choose", "authorize", "swap"} : PresenterTo(pc)
  PROVE  presenter'.ret = {}
<1>1. presenter \in PresenterShape
  BY DEF LaneInv, Shaped
<1> QED
  BY <1>1 DEF PresenterDone, PresenterTo, PresenterShape, IdlePresenter

LEMMA PresenterClear ==
  ASSUME LaneInv, OwnInv, presenter.pc # "clean" PROVE presenter.ret = {}
BY DEF OwnInv, Recorded

LEMMA PresenterReapOwns == ASSUME LaneInv, OwnInv, PresenterReap PROVE OwnInv'
<1> DEFINE waiting == InState({"completion"})
           b == CHOOSE c \in waiting : \A o \in waiting : c <= o
           r == [batch[b] EXCEPT !.st = "reaping"]
<1>1. PresenterFrame
  BY PresenterReapKeeps DEF PresenterKeeps
<1>2. presenter.ret = {} /\ UNCHANGED <<deferred, live>>
  BY PresenterClear DEF PresenterReap, retirements
<1>3. presenter \in PresenterShape
  BY DEF LaneInv, Shaped
<1>4. CASE waiting = {}
  <2>1. PresenterTo("choose") /\ UNCHANGED batch
    BY <1>4 DEF PresenterReap
  <2> QED
    BY <1>1, <1>2, <2>1, PresenterHolds, NothingMoves
<1>5. CASE waiting # {}
  <2>1. b \in waiting
    BY <1>5, FirstBatch DEF InState
  <2>2. b \in Batches /\ batch[b].st = "completion"
    BY <2>1 DEF InState
  <2>3. batch' = [batch EXCEPT ![b].st = "reaping"] /\ presenter' = [presenter EXCEPT !.pc = "reaping", !.slot = b]
    BY <1>5 DEF PresenterReap
  <2>4. batch' = [batch EXCEPT ![b] = r]
    BY <2>3
  <2>5. presenter'.ret = {}
    BY <1>2, <1>3, <2>3 DEF PresenterShape
  <2> HIDE DEF b
  <2>6. batch[b] \in BatchRecord
    BY <2>2 DEF LaneInv, Shaped
  <2>7. r \in BatchRecord /\ r.st = "reaping" /\ r.work = batch[b].work /\ r.has = batch[b].has
    BY <2>6 DEF BatchRecord, BatchStates
  <2> HIDE DEF r
  <2> QED
    BY <1>1, <1>2, <2>2, <2>4, <2>5, <2>7, OneBatchStays DEF ShownStates, Cargo
<1> QED
  BY <1>4, <1>5

LEMMA PresenterReapedOwns == ASSUME LaneInv, OwnInv, PresenterReaped PROVE OwnInv'
<1> PICK b \in Batches : b = presenter.slot
  BY PresenterBatch DEF PresenterReaped, AtSlot
<1>1. PresenterFrame
  BY PresenterReapedKeeps DEF PresenterKeeps
<1>2. presenter.pc = "reaping" /\ presenter.ret = {} /\ UNCHANGED <<deferred, live>>
  BY PresenterClear DEF PresenterReaped, retirements
<1>3. batch[b].st = "reaping" /\ batch[b] \in BatchRecord
  BY <1>2, PresenterBatch DEF AtSlot, SlotState
<1>4. /\ batch[b].st \in ShownStates /\ batch[b].has = {"endpoint", "completion"}
      /\ Owned(b) = Of(batch[b].work, batch[b].has) /\ Owned(b) \in SUBSET Objects
  BY <1>3, ShownCargo DEF ShownStates, Cargo
<1>5. Completions({}) /\ {} \cap live = {} /\ live' = live \cup {} /\ {} \in SUBSET Objects
  BY <1>2 DEF Completions
<1>6. ASSUME batch' = [batch EXCEPT ![b].st = "completion"], PresenterTo("choose")
      PROVE  OwnInv'
  <2> DEFINE r == [batch[b] EXCEPT !.st = "completion"]
  <2>1. batch' = [batch EXCEPT ![b] = r]
    BY <1>6
  <2>2. r \in BatchRecord /\ r.st = "completion" /\ r.work = batch[b].work /\ r.has = batch[b].has
    BY <1>3 DEF BatchRecord, BatchStates
  <2>3. presenter'.ret = {}
    BY <1>2, <1>6, PresenterHolds
  <2> HIDE DEF r
  <2> QED
    BY <1>1, <1>2, <1>3, <1>4, <2>1, <2>2, <2>3, OneBatchStays DEF ShownStates, Cargo
<1>7. ASSUME NEW next \in {"idle", "choose"},
             batch' = [batch EXCEPT ![b].st = "retained", ![b].has = @ \ {"completion"}],
             PresenterCleans(Of(batch[b].work, {"completion"}), next)
      PROVE  OwnInv'
  <2> DEFINE r == [batch[b] EXCEPT !.st = "retained", !.has = @ \ {"completion"}]
  <2>1. batch' = [batch EXCEPT ![b] = r]
    BY <1>7
  <2>2. r \in BatchRecord /\ r.st = "retained" /\ r.work = batch[b].work /\ r.has = {"endpoint"}
    BY <1>3, <1>4 DEF BatchRecord, BatchStates
  <2>3. /\ presenter'.ret = Of(batch[b].work, {"completion"})
        /\ presenter'.pc # "clean" => presenter'.ret = {}
    BY <1>2, <1>7, PresenterTakes
  <2> HIDE DEF r
  <2>4. /\ Of(r.work, r.has) \cup presenter'.ret = Owned(b) \cup {}
        /\ Of(r.work, r.has) \cap presenter'.ret = {}
    BY <1>4, <2>2, <2>3 DEF Of
  <2>5. r.has = Cargo(r.st) /\ r.has \subseteq {"endpoint", "completion"}
    BY <2>2 DEF Cargo
  <2> QED
    BY <1>1, <1>2, <1>4, <1>5, <2>1, <2>2, <2>3, <2>4, <2>5, OneBatchMoves
<1>8. ASSUME NEW next \in {"idle", "choose"}, batch' = Detached(b), PresenterCleans(Owned(b), next)
      PROVE  OwnInv'
  <2>1. presenter'.ret = Owned(b) /\ (presenter'.pc # "clean" => presenter'.ret = {})
    BY <1>2, <1>8, PresenterTakes
  <2>2. presenter'.ret = Owned(b) \cup {}
    BY <2>1
  <2> QED
    BY <1>1, <1>2, <1>4, <1>5, <1>8, <2>1, <2>2, OneBatchLeaves
<1>9. PICK status \in {"ready", "pending", "failed"} :
        LET next == IF status = "failed" THEN "idle" ELSE "choose"
        IN IF IsCurrent(batch[b].work) /\ status = "pending"
           THEN batch' = [batch EXCEPT ![b].st = "completion"] /\ PresenterTo("choose")
           ELSE IF IsCurrent(batch[b].work) /\ retained = b
           THEN /\ batch' = [batch EXCEPT ![b].st = "retained", ![b].has = @ \ {"completion"}]
                /\ PresenterCleans(Of(batch[b].work, {"completion"}), next)
           ELSE batch' = Detached(b) /\ PresenterCleans(Owned(b), next)
  BY DEF PresenterReaped
<1> QED
  BY <1>6, <1>7, <1>8, <1>9

LEMMA PresenterChooseOwns == ASSUME LaneInv, OwnInv, PresenterChoose PROVE OwnInv'
<1> DEFINE incoming == OldestPending(batch)
           hold == presenter.kind = "hold" \/ Unfinished(incoming)
           b == IF hold THEN retained ELSE incoming
           phases == IF TemporalBase(b, retained) THEN batch[b].phases + 1 ELSE 0
           next == IF hold THEN batch[b]
                   ELSE [batch[b] EXCEPT !.count = phases, !.index = 0]
           r == [next EXCEPT !.st = "selecting"]
           go == b # 0 /\ batch[b].st = (IF hold THEN "retained" ELSE "pending")
<1>1. PresenterFrame
  BY PresenterChooseKeeps DEF PresenterKeeps
<1>2. presenter.ret = {} /\ UNCHANGED <<deferred, live>>
  BY PresenterClear DEF PresenterChoose, retirements
<1>3. presenter \in PresenterShape /\ batch \in [Batches -> BatchRecord] /\ retained \in {0} \cup Batches
  BY DEF LaneInv, Shaped
<1>4. CASE ~go
  <2>1. PresenterDone /\ UNCHANGED batch
    BY <1>4 DEF PresenterChoose
  <2> QED
    BY <1>1, <1>2, <2>1, PresenterHolds, NothingMoves
<1>5. CASE go
  <2>1. batch' = [batch EXCEPT ![b] = r]
    BY <1>5 DEF PresenterChoose
  <2>2. presenter'.ret = {}
    <3>1. \E k : presenter' = [presenter EXCEPT !.pc = "select", !.slot = b, !.kind = k]
      BY <1>5 DEF PresenterChoose
    <3> HIDE DEF b
    <3> QED
      BY <1>2, <1>3, <3>1 DEF PresenterShape
  <2>3. b \in Batches /\ batch[b].st \in {"retained", "pending"}
    <3>1. incoming \in {0} \cup Batches
      <4>1. \A c \in Batches : batch[c].st = "pending" => batch[c].work \in Works
        BY DEF LaneInv, BatchesOccupied
      <4> QED
        BY <1>3, <4>1, OldestIsPending
    <3> QED
      BY <1>3, <1>5, <3>1
  <2> HIDE DEF hold, phases, incoming
  <2>4. batch[b] \in BatchRecord
    BY <1>3, <2>3
  <2> HIDE DEF b
  <2>5. phases \in 0..(PhaseLimit + 1)
    BY <2>4, LaneAssumption DEF BatchRecord, phases
  <2> DEFINE fresh == [batch[b] EXCEPT !.count = phases, !.index = 0]
  <2>7. fresh \in BatchRecord /\ fresh.work = batch[b].work /\ fresh.has = batch[b].has
    <3>1. 0 \in 0..(PhaseLimit + 1)
      BY LaneAssumption
    <3> QED
      BY <2>4, <2>5, <3>1 DEF BatchRecord
  <2>8. next = batch[b] \/ next = fresh
    OBVIOUS
  <2> HIDE DEF next, fresh
  <2>6. r \in BatchRecord /\ r.st = "selecting" /\ r.work = batch[b].work /\ r.has = batch[b].has
    BY <2>4, <2>7, <2>8 DEF BatchRecord, BatchStates
  <2> HIDE DEF r
  <2> QED
    BY <1>1, <1>2, <2>1, <2>2, <2>3, <2>6, OneBatchStays DEF ShownStates, Cargo
<1> QED
  BY <1>4, <1>5

LEMMA PresenterStaleOwns ==
  ASSUME LaneInv, OwnInv, PresenterFrame, presenter.pc \in {"select", "compose", "authorize"},
         UNCHANGED deferred, NEW made, PresenterStale(made), live' = live \cup made,
         Completions(made), made \cap live = {}, made \in SUBSET Objects
  PROVE  OwnInv'
<1> PICK b \in Batches : b = presenter.slot
  BY PresenterBatch DEF AtSlot, Showing
<1>1. presenter.ret = {} /\ batch[b].st \in ShownStates
  BY PresenterClear, PresenterBatch DEF AtSlot, Showing, SlotState, ShownStates
<1>2. batch' = Detached(b) /\ PresenterCleans(Owned(b) \cup made, "idle")
  BY DEF PresenterStale
<1>3. /\ presenter'.ret = Owned(b) \cup made
      /\ presenter'.pc # "clean" => presenter'.ret = {}
  BY <1>1, <1>2, PresenterTakes
<1> QED
  BY <1>1, <1>2, <1>3, OneBatchLeaves

LEMMA PresenterSelectOwns == ASSUME LaneInv, OwnInv, PresenterSelect PROVE OwnInv'
<1> PICK b \in Batches : b = presenter.slot
  BY PresenterBatch DEF PresenterSelect, AtSlot, Showing
<1>1. PresenterFrame
  BY PresenterSelectKeeps DEF PresenterKeeps
<1>2. presenter.pc = "select" /\ presenter.ret = {} /\ UNCHANGED <<deferred, live>>
  BY PresenterClear DEF PresenterSelect, retirements
<1>3. batch[b].st = "selecting" /\ batch[b] \in BatchRecord /\ presenter \in PresenterShape
  BY <1>2, PresenterBatch DEF AtSlot, Showing, SlotState, LaneInv, Shaped
<1>4. CASE PresenterStale({})
  <2>1. Completions({}) /\ {} \cap live = {} /\ live' = live \cup {} /\ {} \in SUBSET Objects
    BY <1>2 DEF Completions
  <2> QED
    BY <1>1, <1>2, <1>4, <2>1, PresenterStaleOwns
<1>5. ASSUME NEW r \in BatchRecord, batch' = [batch EXCEPT ![b] = r], r.st \in {"composing", "pending"},
             r.work = batch[b].work, r.has = batch[b].has, presenter'.ret = {}
      PROVE  OwnInv'
  BY <1>1, <1>2, <1>3, <1>5, OneBatchStays DEF ShownStates, Cargo
<1>6. ASSUME NEW count \in 0..(PhaseLimit + 1), NEW phase,
             batch' = [batch EXCEPT ![b] = [batch[b] EXCEPT !.st = "composing", !.count = count]],
             presenter' = [presenter EXCEPT !.pc = "compose", !.phase = phase]
      PROVE  OwnInv'
  <2> DEFINE r == [batch[b] EXCEPT !.st = "composing", !.count = count]
  <2>1. r \in BatchRecord /\ r.st = "composing" /\ r.work = batch[b].work /\ r.has = batch[b].has
    BY <1>3, <1>6 DEF BatchRecord, BatchStates
  <2>2. presenter'.ret = {}
    BY <1>2, <1>3, <1>6 DEF PresenterShape
  <2>3. batch' = [batch EXCEPT ![b] = r]
    BY <1>6
  <2> HIDE DEF r
  <2> QED
    BY <1>5, <2>1, <2>2, <2>3
<1>7. ASSUME batch' = [batch EXCEPT ![b].st = "pending"], PresenterDone
      PROVE  OwnInv'
  <2> DEFINE r == [batch[b] EXCEPT !.st = "pending"]
  <2>1. r \in BatchRecord /\ r.st = "pending" /\ r.work = batch[b].work /\ r.has = batch[b].has
    BY <1>3, <1>7 DEF BatchRecord, BatchStates
  <2>2. presenter'.ret = {}
    BY <1>2, <1>7, PresenterHolds
  <2>3. batch' = [batch EXCEPT ![b] = r]
    BY <1>7
  <2> HIDE DEF r
  <2> QED
    BY <1>5, <2>1, <2>2, <2>3
<1>8. \/ PresenterStale({})
      \/ \E count \in {0, batch[b].count} : \E phase :
           /\ batch' = [batch EXCEPT ![b] = [batch[b] EXCEPT !.st = "composing", !.count = count]]
           /\ presenter' = [presenter EXCEPT !.pc = "compose", !.phase = phase]
      \/ batch' = [batch EXCEPT ![b].st = "pending"] /\ PresenterDone
  BY DEF PresenterSelect
<1>9. 0 \in 0..(PhaseLimit + 1) /\ batch[b].count \in 0..(PhaseLimit + 1)
  BY <1>3, LaneAssumption DEF BatchRecord
<1> QED
  BY <1>4, <1>6, <1>7, <1>8, <1>9

LEMMA PresenterComposeOwns == ASSUME LaneInv, OwnInv, PresenterCompose PROVE OwnInv'
<1> PICK b \in Batches : b = presenter.slot
  BY PresenterBatch DEF PresenterCompose, AtSlot, Showing
<1> DEFINE w == batch[b].work
           phased == presenter.phase < batch[b].count
<1>1. PresenterFrame
  BY PresenterComposeKeeps DEF PresenterKeeps
<1>2. presenter.pc = "compose" /\ presenter.ret = {} /\ UNCHANGED deferred
  BY PresenterClear DEF PresenterCompose, retirements
<1>3. batch[b].st = "composing" /\ batch[b] \in BatchRecord /\ presenter \in PresenterShape
  BY <1>2, PresenterBatch DEF AtSlot, Showing, SlotState, LaneInv, Shaped
<1>4. /\ batch[b].st \in ShownStates /\ batch[b].has = {"endpoint"}
      /\ Owned(b) = Of(w, batch[b].has) /\ Owned(b) \in SUBSET Objects
  BY <1>3, ShownCargo DEF ShownStates, Cargo
<1>5. PICK fence \in BOOLEAN, ok \in BOOLEAN :
        LET made == IF fence THEN Of(w, {"completion"}) ELSE {}
        IN /\ live' = live \cup made
           /\ \/ PresenterStale(made)
              \/ /\ ~(ok /\ fence)
                 /\ PresenterCleans(IF phased \/ Hold THEN made ELSE made \cup Owned(b), "idle")
                 /\ batch' = IF ~phased /\ ~Hold THEN Detached(b)
                             ELSE [batch EXCEPT ![b] = [batch[b] EXCEPT
                               !.st = IF Hold THEN "retained" ELSE "pending",
                               !.whole = @ \/ phased,
                               !.count = IF phased /\ ~Hold THEN 0 ELSE @]]
              \/ /\ fence
                 /\ batch' = [batch EXCEPT ![b].st = "composed", ![b].has = @ \cup {"completion"}]
                 /\ PresenterTo("authorize")
  BY DEF PresenterCompose
<1> DEFINE made == IF fence THEN Of(w, {"completion"}) ELSE {}
<1>6. Completions(made) /\ made \cap live = {} /\ made \in SUBSET Objects
  <2>1. Completions({})
    BY DEF Completions
  <2> QED
    BY <1>2, <1>3, <2>1, NewCompletion
<1>7. live' = live \cup made
  BY <1>5
<1>8. CASE PresenterStale(made)
  <2> HIDE DEF made
  <2> QED
    BY <1>1, <1>2, <1>6, <1>7, <1>8, PresenterStaleOwns
<1>9. ASSUME PresenterCleans(made \cup Owned(b), "idle"), batch' = Detached(b)
      PROVE  OwnInv'
  <2> HIDE DEF made
  <2>1. presenter'.ret = Owned(b) \cup made /\ (presenter'.pc # "clean" => presenter'.ret = {})
    BY <1>2, <1>9, PresenterTakes
  <2> QED
    BY <1>1, <1>2, <1>4, <1>6, <1>7, <1>9, <2>1, OneBatchLeaves
<1>10. ASSUME NEW r \in BatchRecord, batch' = [batch EXCEPT ![b] = r], PresenterCleans(made, "idle"),
              r.st \in {"retained", "pending"}, r.work = w, r.has = batch[b].has
       PROVE  OwnInv'
  <2> HIDE DEF made, w
  <2>1. presenter'.ret = made /\ (presenter'.pc # "clean" => presenter'.ret = {})
    BY <1>2, <1>10, PresenterTakes
  <2>2. r.has = Cargo(r.st) /\ r.has \subseteq {"endpoint", "completion"}
    BY <1>4, <1>10 DEF Cargo
  <2>3. Owned(b) \subseteq live
    BY <1>4, ShownCargo
  <2>4. /\ Of(r.work, r.has) \cup presenter'.ret = Owned(b) \cup made
        /\ Of(r.work, r.has) \cap presenter'.ret = {}
    BY <1>4, <1>6, <1>10, <2>1, <2>3
  <2> QED
    BY <1>1, <1>2, <1>4, <1>6, <1>7, <1>10, <2>1, <2>2, <2>4, OneBatchMoves
<1>11. ASSUME fence, batch' = [batch EXCEPT ![b].st = "composed", ![b].has = @ \cup {"completion"}],
              PresenterTo("authorize")
       PROVE  OwnInv'
  <2> DEFINE r == [batch[b] EXCEPT !.st = "composed", !.has = @ \cup {"completion"}]
  <2>1. batch' = [batch EXCEPT ![b] = r]
    BY <1>11
  <2>2. r \in BatchRecord /\ r.st = "composed" /\ r.work = w /\ r.has = {"endpoint", "completion"}
    BY <1>3, <1>4 DEF BatchRecord, BatchStates, Kinds, Fences
  <2>3. presenter'.ret = {}
    BY <1>2, <1>11, PresenterHolds
  <2> HIDE DEF r
  <2>4. made = Of(w, {"completion"})
    BY <1>11
  <2> HIDE DEF made
  <2>5. Of(r.work, r.has) = Owned(b) \cup made
    <3>1. {"endpoint", "completion"} = {"endpoint"} \cup {"completion"}
      OBVIOUS
    <3> HIDE DEF w
    <3> QED
      BY <1>4, <2>2, <2>4, <3>1, OfParts
  <2>6. r.has = Cargo(r.st) /\ r.has \subseteq {"endpoint", "completion"}
    BY <2>2 DEF Cargo
  <2>7. /\ Of(r.work, r.has) \cup presenter'.ret = Owned(b) \cup made
        /\ Of(r.work, r.has) \cap presenter'.ret = {}
    BY <2>3, <2>5
  <2> QED
    BY <1>1, <1>2, <1>4, <1>6, <1>7, <2>1, <2>2, <2>3, <2>6, <2>7, OneBatchMoves
<1>12. ASSUME PresenterCleans(IF phased \/ Hold THEN made ELSE made \cup Owned(b), "idle"),
              batch' = IF ~phased /\ ~Hold THEN Detached(b)
                       ELSE [batch EXCEPT ![b] = [batch[b] EXCEPT
                               !.st = IF Hold THEN "retained" ELSE "pending",
                               !.whole = @ \/ phased,
                               !.count = IF phased /\ ~Hold THEN 0 ELSE @]]
       PROVE  OwnInv'
  <2> HIDE DEF made
  <2>1. CASE ~phased /\ ~Hold
    BY <1>9, <1>12, <2>1
  <2>2. CASE phased \/ Hold
    <3> DEFINE r == [batch[b] EXCEPT !.st = IF Hold THEN "retained" ELSE "pending",
                                     !.whole = @ \/ phased,
                                     !.count = IF phased /\ ~Hold THEN 0 ELSE @]
    <3>1. batch' = [batch EXCEPT ![b] = r] /\ PresenterCleans(made, "idle")
      BY <1>12, <2>2
    <3>2. r \in BatchRecord /\ r.st \in {"retained", "pending"} /\ r.work = w /\ r.has = batch[b].has
      <4>1. 0 \in 0..(PhaseLimit + 1)
        BY LaneAssumption
      <4>2. (batch[b].whole \/ phased) \in BOOLEAN
        OBVIOUS
      <4> HIDE DEF phased
      <4> QED
        BY <1>3, <4>1, <4>2 DEF BatchRecord, BatchStates
    <3> HIDE DEF r
    <3> QED
      BY <1>10, <3>1, <3>2
  <2> QED
    BY <2>1, <2>2
<1> QED
  BY <1>5, <1>8, <1>11, <1>12

LEMMA PresenterAuthorizeOwns == ASSUME LaneInv, OwnInv, PresenterAuthorize PROVE OwnInv'
<1> PICK b \in Batches : b = presenter.slot
  BY PresenterBatch DEF PresenterAuthorize, AtSlot, Showing
<1>1. PresenterFrame
  BY PresenterAuthorizeKeeps DEF PresenterKeeps
<1>2. presenter.pc = "authorize" /\ presenter.ret = {} /\ UNCHANGED <<deferred, live>>
  BY PresenterClear DEF PresenterAuthorize, retirements
<1>3. batch[b].st = "composed" /\ batch[b] \in BatchRecord
  BY <1>2, PresenterBatch DEF AtSlot, Showing, SlotState
<1>4. CASE PresenterStale({})
  <2>1. Completions({}) /\ {} \cap live = {} /\ live' = live \cup {} /\ {} \in SUBSET Objects
    BY <1>2 DEF Completions
  <2> QED
    BY <1>1, <1>2, <1>4, <2>1, PresenterStaleOwns
<1>5. CASE batch' = [batch EXCEPT ![b].st = "swapping"] /\ PresenterTo("swap")
  <2> DEFINE r == [batch[b] EXCEPT !.st = "swapping"]
  <2>1. r \in BatchRecord /\ r.st = "swapping" /\ r.work = batch[b].work /\ r.has = batch[b].has
    BY <1>3 DEF BatchRecord, BatchStates
  <2>2. presenter'.ret = {}
    BY <1>2, <1>5, PresenterHolds
  <2>3. batch' = [batch EXCEPT ![b] = r]
    BY <1>5
  <2> HIDE DEF r
  <2> QED
    BY <1>1, <1>2, <1>3, <2>1, <2>2, <2>3, OneBatchStays DEF ShownStates, Cargo
<1> QED
  BY <1>4, <1>5 DEF PresenterAuthorize

LEMMA PresenterSwappedOwns == ASSUME LaneInv, OwnInv, PresenterSwapped PROVE OwnInv'
<1> PICK b \in Batches : b = presenter.slot
  BY PresenterBatch DEF PresenterSwapped, AtSlot, Showing
<1> DEFINE old == IF retained \in {0, b} THEN {} ELSE {retained}
           r == [batch[b] EXCEPT !.st = "completion", !.index = presenter.phase]
<1>1. PresenterFrame
  BY PresenterSwappedKeeps DEF PresenterKeeps
<1>2. presenter.pc = "swap" /\ presenter.ret = {} /\ UNCHANGED <<deferred, live>>
  BY PresenterClear DEF PresenterSwapped, retirements
<1>3. /\ batch[b].st = "swapping" /\ batch[b] \in BatchRecord /\ batch[b].has = Cargo("swapping")
      /\ presenter \in PresenterShape /\ batch \in [Batches -> BatchRecord]
  <2>1. batch[b].st = "swapping"
    BY <1>2, PresenterBatch DEF AtSlot, Showing, SlotState
  <2> QED
    BY <2>1 DEF OwnInv, Carried, LaneInv, Shaped
<1>4. Completions({}) /\ {} \cap live = {} /\ live' = live \cup {} /\ {} \in SUBSET Objects
  BY <1>2 DEF Completions
<1>5. CASE IsCurrent(batch[b].work)
  <2>1. /\ batch' = [c \in Batches |-> IF c \in old THEN FreeBatch ELSE IF c = b THEN r ELSE batch[c]]
        /\ PresenterCleans(UNION {Owned(o) : o \in old}, "idle")
    BY <1>5 DEF PresenterSwapped
  <2>2. presenter'.ret = Loads(old) /\ (presenter'.pc # "clean" => presenter'.ret = {})
    BY <1>2, <2>1, PresenterTakes DEF Loads
  <2>3. old \in SUBSET Batches /\ b \notin old /\ \A c \in old : batch[c].st \in ShownStates
    BY DEF LaneInv, Shaped, PresenterPlaced, KeptStates, ShownStates
  <2>4. r.st = "completion" /\ r.work = batch[b].work /\ r.has = batch[b].has
    BY <1>3 DEF BatchRecord
  <2> HIDE DEF old, r
  <2>5. /\ \A c \in old : batch'[c] = FreeBatch
        /\ batch'[b] = r /\ \A c \in Batches : c \notin old /\ c # b => batch'[c] = batch[c]
    BY <2>1, <2>3
  <2>6. \A c \in Batches : Owned(c)' = IF c \in old THEN {} ELSE Owned(c)
    <3>1. Of(FreeBatch.work, FreeBatch.has) = {}
      BY Records, InOf
    <3>2. ASSUME NEW c \in Batches, c \in old PROVE Owned(c)' = {}
      BY <2>5, <3>1, <3>2 DEF Owned
    <3>3. ASSUME NEW c \in Batches, c \notin old PROVE Owned(c)' = Owned(c)
      BY <2>4, <2>5, <3>3 DEF Owned
    <3> QED
      BY <3>2, <3>3
  <2>7. InBatches' = InBatches \ Loads(old) /\ BatchesApart'
    BY <2>3, <2>6, BatchesFreed DEF OwnInv
  <2>8. Carried'
    <3>1. \A st : Cargo(st)' = Cargo(st)
      BY <1>1, CargoStays DEF PresenterFrame
    <3>2. Cargo("free") = {} /\ Cargo("completion") = Cargo("swapping")
      BY DEF Cargo
    <3> QED
      BY <1>3, <2>4, <2>5, <3>1, <3>2, Records DEF OwnInv, Carried
  <2>9. Loads(old) \subseteq InBatches /\ Loads(old) \cap Sources = {} /\ Loads(old) \in SUBSET Objects
    <3>1. \A c \in old : Owned(c) \subseteq InBatches /\ Owned(c) \cap Sources = {} /\ Owned(c) \in SUBSET Objects
      BY <2>3, ShownCargo
    <3> QED
      BY <3>1 DEF Loads
  <2>10. InBatches' = (InBatches \ Loads(old)) \cup {} /\ {} \cup presenter'.ret = Loads(old) \cup {}
         /\ {} \cap presenter'.ret = {} /\ presenter'.ret \in SUBSET Objects
    BY <2>2, <2>7, <2>9
  <2> QED
    BY <1>1, <1>2, <1>4, <2>2, <2>7, <2>8, <2>9, <2>10, PresenterMoves
<1>6. CASE ~IsCurrent(batch[b].work)
  <2>1. batch' = Detached(b) /\ PresenterCleans(Owned(b), "idle")
    BY <1>6 DEF PresenterSwapped
  <2>2. presenter'.ret = Owned(b) /\ (presenter'.pc # "clean" => presenter'.ret = {})
    BY <1>2, <2>1, PresenterTakes
  <2>3. presenter'.ret = Owned(b) \cup {}
    BY <2>2
  <2> QED
    BY <1>1, <1>2, <1>3, <1>4, <2>1, <2>2, <2>3, OneBatchLeaves DEF ShownStates
<1> QED
  BY <1>5, <1>6

LEMMA PresenterStartOwns ==
  ASSUME LaneInv, OwnInv, NEW kind \in {"drain", "next", "hold"}, PresenterStart(kind)
  PROVE  OwnInv'
<1>1. PresenterFrame /\ UNCHANGED batch
  BY PresenterWaits
<1>2. presenter.ret = {} /\ UNCHANGED <<deferred, live>>
  BY PresenterClear DEF PresenterStart, retirements
<1>3. presenter'.ret = {}
  BY DEF PresenterStart, IdlePresenter
<1> QED
  BY <1>1, <1>2, <1>3, NothingMoves

(* Draining takes the first deferred record.                                 *)
LEMMA DeferredPops ==
  ASSUME deferred \in Seq(SUBSET Objects), deferred # <<>>, deferred' = Tail(deferred), DeferredApart
  PROVE  /\ deferred' \in Seq(SUBSET Objects) /\ DeferredApart'
         /\ Head(deferred) \in SUBSET Objects /\ 1 \in DOMAIN deferred /\ Head(deferred) = deferred[1]
         /\ InDeferred = Head(deferred) \cup InDeferred' /\ Head(deferred) \cap InDeferred' = {}
         /\ \A i \in DOMAIN deferred' : i + 1 \in DOMAIN deferred /\ deferred'[i] = deferred[i + 1]
<1>1. /\ deferred' \in Seq(SUBSET Objects) /\ Len(deferred) \in Nat \ {0}
      /\ Len(deferred') = Len(deferred) - 1 /\ Head(deferred) = deferred[1]
      /\ \A i \in 1..Len(deferred') : deferred'[i] = deferred[i + 1]
      /\ DOMAIN deferred = 1..Len(deferred) /\ DOMAIN deferred' = 1..Len(deferred')
  OBVIOUS
<1>2. 1 \in DOMAIN deferred /\ Head(deferred) \in SUBSET Objects
  BY <1>1
<1>3. \A i \in DOMAIN deferred' : i + 1 \in DOMAIN deferred /\ i + 1 # 1 /\ deferred'[i] = deferred[i + 1]
  BY <1>1
<1>4. \A i \in DOMAIN deferred : i # 1 => i - 1 \in DOMAIN deferred' /\ deferred'[i - 1] = deferred[i]
  BY <1>1
<1>5. DeferredApart'
  <2> SUFFICES ASSUME NEW i \in DOMAIN deferred', NEW j \in DOMAIN deferred', i # j
               PROVE  deferred'[i] \cap deferred'[j] = {}
    BY DEF DeferredApart
  <2>1. i + 1 # j + 1
    BY <1>1
  <2> QED
    BY <1>3, <2>1 DEF DeferredApart
<1>6. Head(deferred) \cap InDeferred' = {}
  <2> SUFFICES ASSUME NEW i \in DOMAIN deferred' PROVE Head(deferred) \cap deferred'[i] = {}
    BY DEF InDeferred
  <2> QED
    BY <1>1, <1>2, <1>3 DEF DeferredApart
<1>7. ASSUME NEW o PROVE o \in InDeferred <=> o \in Head(deferred) \cup InDeferred'
  <2>1. o \in InDeferred <=> \E i \in DOMAIN deferred : o \in deferred[i]
    BY DEF InDeferred
  <2>2. o \in InDeferred' <=> \E i \in DOMAIN deferred' : o \in deferred'[i]
    BY DEF InDeferred
  <2> QED
    BY <1>1, <1>2, <1>3, <1>4, <2>1, <2>2
<1> QED
  BY <1>1, <1>2, <1>3, <1>5, <1>6, <1>7

LEMMA Drained ==
  ASSUME NEW a, NEW b, NEW c, NEW d, NEW all, NEW h, NEW t,
         Parted(a, b, c, d, {}, all), c = h \cup t, h \cap t = {}
  PROVE  Parted(a, b, t, d, h, all)
BY DEF Parted

LEMMA PresenterDrainOwns == ASSUME LaneInv, OwnInv, PresenterDrain PROVE OwnInv'
<1>1. PresenterFrame /\ UNCHANGED batch
  BY PresenterWaits
<1>2. presenter.ret = {} /\ UNCHANGED live /\ presenter \in PresenterShape
  BY PresenterClear DEF PresenterDrain, LaneInv, Shaped
<1>3. CASE deferred = <<>>
  <2>1. /\ deferred' = deferred
        /\ PresenterDone \/ PresenterTo("reap")
    BY <1>3 DEF PresenterDrain
  <2> QED
    BY <1>1, <1>2, <2>1, PresenterHolds, NothingMoves
<1>4. CASE deferred # <<>>
  <2> DEFINE h == Head(deferred)
             compile == IsCompileRetirement(h)
  <2>1. /\ deferred' = Tail(deferred)
        /\ presenter' = [presenter EXCEPT !.pc = "clean", !.next = "drain", !.ret = h, !.compile = compile]
    BY <1>4 DEF PresenterDrain
  <2> HIDE DEF compile
  <2>2. /\ deferred' \in Seq(SUBSET Objects) /\ DeferredApart' /\ h \in SUBSET Objects
        /\ InDeferred = h \cup InDeferred' /\ h \cap InDeferred' = {}
        /\ \A i \in DOMAIN deferred' : i + 1 \in DOMAIN deferred /\ deferred'[i] = deferred[i + 1]
    BY <1>4, <2>1, DeferredPops DEF OwnInv, Recorded
  <2> HIDE DEF h
  <2>3. presenter'.ret = h /\ presenter'.pc = "clean"
    BY <1>2, <2>1 DEF PresenterShape
  <2>4. Completions({}) /\ live' \subseteq live \cup {}
    BY <1>2 DEF Completions
  <2>5. /\ Drafted' /\ Fresh' /\ CompiledOnce' /\ InHand' = InHand /\ Sources' = Sources
        /\ worker' = worker
    BY <1>1, <2>4, PresenterLeavesFresh
  <2>6. Carried' /\ BatchesApart' /\ InBatches' = InBatches
    <3>1. \A c \in Batches : Owned(c)' = Owned(c)
      BY <1>1 DEF Owned
    <3>2. \A st : Cargo(st)' = Cargo(st)
      BY <2>5, CargoStays
    <3> QED
      BY <1>1, <3>1, <3>2, BatchesStay DEF OwnInv, Carried
  <2>7. Recorded'
    <3>1. \A i \in DOMAIN deferred' : Deferrable(deferred'[i])
      BY <2>2 DEF OwnInv, Recorded
    <3> QED
      BY <2>2, <2>3, <2>5, <3>1 DEF OwnInv, Recorded, Deferrable
  <2>8. Whole'
    <3>1. Parted(InHand, Held, InDeferred, worker.ret, {}, live)
      BY <1>2 DEF OwnInv, Whole
    <3>2. Parted(InHand, Held, InDeferred', worker.ret, h, live)
      BY ONLY <2>2, <3>1, Drained
    <3>3. Held' = Held
      BY <2>5, <2>6 DEF Held
    <3> QED
      BY <1>2, <2>3, <2>5, <3>2, <3>3 DEF Whole
  <2> QED
    BY <2>2, <2>5, <2>6, <2>7, <2>8 DEF OwnInv
<1> QED
  BY <1>3, <1>4

LEMMA Released ==
  ASSUME NEW a, NEW b, NEW c, NEW d, NEW e, NEW all, NEW x,
         Parted(a, b, c, d, e, all), x \subseteq e
  PROVE  Parted(a, b, c, d, e \cap (all \ x), all \ x)
BY DEF Parted

LEMMA PresenterRetiresOwns == ASSUME LaneInv, OwnInv, PresenterRetires PROVE OwnInv'
<1> DEFINE left == presenter.ret \cap live'
<1>1. PresenterFrame /\ UNCHANGED batch
  BY PresenterWaits
<1>2. UNCHANGED deferred /\ presenter.pc = "clean" /\ presenter \in PresenterShape
  BY DEF PresenterRetires, RetireBackend, RetireCommit, LaneInv, Shaped
<1> PICK x : x \subseteq presenter.ret /\ live' = live \ x
  BY DEF PresenterRetires, RetireBackend, RetireCommit, Backend
<1>3. presenter'.ret = left /\ (presenter'.pc # "clean" => presenter'.ret = {})
  <2>1. CASE left # {}
    <3>1. presenter' = [presenter EXCEPT !.ret = left]
      BY <2>1 DEF PresenterRetires
    <3> QED
      BY <1>2, <3>1 DEF PresenterShape
  <2>2. CASE left = {} /\ presenter.next = "idle"
    <3>1. presenter' = IdlePresenter
      BY <2>2 DEF PresenterRetires
    <3> QED
      BY <2>2, <3>1 DEF IdlePresenter
  <2>3. CASE left = {} /\ presenter.next # "idle"
    <3>1. presenter' = [presenter EXCEPT !.pc = presenter.next, !.ret = {}, !.compile = FALSE]
      BY <2>3 DEF PresenterRetires
    <3> QED
      BY <1>2, <2>3, <3>1 DEF PresenterShape
  <2> QED
    BY <2>1, <2>2, <2>3
<1>4. Completions({}) /\ live' \subseteq live \cup {}
  BY DEF Completions
<1>5. /\ Drafted' /\ Fresh' /\ CompiledOnce' /\ InHand' = InHand /\ Sources' = Sources
      /\ worker' = worker
  BY <1>1, <1>4, PresenterLeavesFresh
<1>6. Carried' /\ BatchesApart' /\ InBatches' = InBatches
  <2>1. \A c \in Batches : Owned(c)' = Owned(c)
    BY <1>1 DEF Owned
  <2>2. \A st : Cargo(st)' = Cargo(st)
    BY <1>5, CargoStays
  <2> QED
    BY <1>1, <2>1, <2>2, BatchesStay DEF OwnInv, Carried
<1>7. InDeferred' = InDeferred /\ DeferredApart'
  BY <1>2 DEF InDeferred, DeferredApart, OwnInv
<1>8. Held' = Held
  BY <1>5, <1>6 DEF Held
<1>9. Whole'
  <2>1. left = presenter.ret \cap (live \ x)
    OBVIOUS
  <2> HIDE DEF left
  <2>2. Parted(InHand, Held, InDeferred, worker.ret, left, live \ x)
    BY <2>1, Released DEF OwnInv, Whole
  <2> QED
    BY <1>3, <1>5, <1>7, <1>8, <2>2 DEF Whole
<1>10. Recorded'
  BY <1>2, <1>3, <1>5 DEF OwnInv, Recorded, Deferrable
<1> QED
  BY <1>5, <1>6, <1>7, <1>9, <1>10 DEF OwnInv

LEMMA PresenterOwns ==
  ASSUME LaneInv, OwnInv,
         Presenter \/ \E kind \in {"drain", "next", "hold"} : PresenterStart(kind)
  PROVE  OwnInv'
BY PresenterStartOwns, PresenterDrainOwns, PresenterRetiresOwns, PresenterReapOwns,
   PresenterReapedOwns, PresenterChooseOwns, PresenterSelectOwns, PresenterComposeOwns,
   PresenterAuthorizeOwns, PresenterSwappedOwns DEF Presenter

----------------------------------------------------------------------------
(* The collector brings a commit into being, drops it, or queues it.         *)
LEMMA CollectorLeaves ==
  ASSUME LaneInv, OwnInv, UNCHANGED lane, \A o \in live' : o \in live \/ o[1] = "commit"
  PROVE  /\ Carried' /\ Recorded' /\ CompiledOnce' /\ BatchesApart' /\ DeferredApart'
         /\ Held' = Held /\ InDeferred' = InDeferred
         /\ worker' = worker /\ presenter' = presenter /\ epoch' = epoch /\ seq' = seq
<1>1. /\ epoch' = epoch /\ seq' = seq /\ blocked' = blocked /\ fifo' = fifo /\ batch' = batch
      /\ workBatch' = workBatch /\ worker' = worker /\ presenter' = presenter
      /\ deferred' = deferred
  BY DEF lane, timeline, handles, retirements
<1>2. \A c \in Batches : Owned(c)' = Owned(c)
  BY <1>1 DEF Owned
<1>3. InBatches' = InBatches /\ BatchesApart' /\ Sources' = Sources
  BY <1>1, <1>2, BatchesStay DEF OwnInv, Sources
<1>4. InDeferred' = InDeferred /\ DeferredApart' /\ Recorded'
  BY <1>1 DEF InDeferred, DeferredApart, OwnInv, Recorded, Deferrable
<1>5. Carried'
  <2>1. \A st : Cargo(st)' = Cargo(st)
    BY <1>1, CargoStays
  <2> QED
    BY <1>1, <2>1 DEF OwnInv, Carried
<1>6. CompiledOnce'
  <2>1. acked' = acked /\ \A w : InCheck(w)' <=> InCheck(w)
    BY <1>1 DEF acked, InCheck, Here
  <2> QED
    BY <1>1, <2>1 DEF OwnInv, CompiledOnce
<1> QED
  BY <1>1, <1>3, <1>4, <1>5, <1>6 DEF Held

LEMMA Brought ==
  ASSUME NEW b, NEW c, NEW d, NEW e, NEW all, NEW x,
         Parted({}, b, c, d, e, all), x \cap all = {}
  PROVE  Parted(x, b, c, d, e, all \cup x)
BY DEF Parted

LEMMA Dropped ==
  ASSUME NEW a, NEW b, NEW c, NEW d, NEW e, NEW all, Parted(a, b, c, d, e, all)
  PROVE  Parted({}, b, c, d, e, all \ a)
BY DEF Parted

LEMMA DraftBeginOwns ==
  ASSUME LaneInv, OwnInv, NEW s \in Scenes, DraftBegin(s) PROVE OwnInv'
<1> DEFINE w == [epoch |-> epoch, seq |-> seq + 1, scene |-> s]
           o == <<"commit", w>>
<1>1. /\ draft.st = "none" /\ draft' = [st |-> "building", work |-> w]
      /\ live' = live \cup Of(w, {"commit"}) /\ UNCHANGED lane
      /\ ~Terminal /\ seq < SeqLimit
  BY DEF DraftBegin
<1>2. epoch \in 1..EpochLimit /\ seq \in 0..SeqLimit
  BY DEF LaneInv, Shaped
<1>3. w \in Works /\ epoch < EpochLimit
  BY <1>1, <1>2, LaneAssumption DEF Works, Terminal
<1>4. w.epoch = epoch /\ w.seq = seq + 1
  OBVIOUS
<1> HIDE DEF w
<1>5. Of(w, {"commit"}) = {o} /\ o \in Objects
  BY <1>3 DEF Of, Objects, Kinds
<1>6. o[1] = "commit" /\ o[2] = w
  OBVIOUS
<1> HIDE DEF o
<1>7. o \notin live
  BY <1>1, <1>2, <1>4, <1>6 DEF OwnInv, Fresh
<1>8. live' = live \cup {o}
  BY <1>1, <1>5
<1>9. /\ Carried' /\ Recorded' /\ CompiledOnce' /\ BatchesApart' /\ DeferredApart'
      /\ Held' = Held /\ InDeferred' = InDeferred
      /\ worker' = worker /\ presenter' = presenter /\ epoch' = epoch /\ seq' = seq
  BY <1>1, <1>6, <1>8, CollectorLeaves
<1>10. draft'.st = "building" /\ draft'.work = w
  BY <1>1
<1>11. Drafted'
  BY <1>2, <1>3, <1>4, <1>9, <1>10 DEF Drafted
<1>12. Fresh'
  <2>1. \A p \in live : p \in Objects /\ p[2].epoch <= epoch /\ p[2].epoch < EpochLimit
                        /\ ~(p[2].epoch = epoch /\ p[2].seq > seq)
    BY <1>1 DEF OwnInv, Fresh
  <2>2. o[2].epoch <= epoch /\ o[2].epoch < EpochLimit /\ o = <<"commit", w>>
    BY <1>2, <1>3, <1>4, <1>6 DEF o
  <2> QED
    BY <1>5, <1>8, <1>9, <1>10, <2>1, <2>2 DEF Fresh
<1>13. Whole'
  <2>1. InHand = {} /\ InHand' = {o}
    BY <1>1, <1>5, <1>10 DEF InHand
  <2>2. Parted({}, Held, InDeferred, worker.ret, presenter.ret, live)
    BY <2>1 DEF OwnInv, Whole
  <2>3. Parted({o}, Held, InDeferred, worker.ret, presenter.ret, live \cup {o})
    BY <1>7, <2>2, Brought
  <2> QED
    BY <1>8, <1>9, <2>1, <2>3 DEF Whole
<1> QED
  BY <1>9, <1>11, <1>12, <1>13 DEF OwnInv

LEMMA DraftSealOwns == ASSUME LaneInv, OwnInv, DraftSeal PROVE OwnInv'
<1>1. /\ UNCHANGED <<lane, live>> /\ draft.st = "building"
      /\ draft' = [draft EXCEPT !.st = "sealed"]
      /\ draft \in [st : {"none", "building", "sealed"}, work : Works \cup {NoWork}]
  BY DEF DraftSeal, LaneInv, Shaped
<1>2. draft'.st = "sealed" /\ draft'.work = draft.work
  BY <1>1
<1>3. /\ Carried' /\ Recorded' /\ CompiledOnce' /\ BatchesApart' /\ DeferredApart'
      /\ Held' = Held /\ InDeferred' = InDeferred
      /\ worker' = worker /\ presenter' = presenter /\ epoch' = epoch /\ seq' = seq
  BY <1>1, CollectorLeaves
<1>4. Drafted' /\ Fresh' /\ InHand' = InHand
  BY <1>1, <1>2, <1>3 DEF OwnInv, Drafted, Fresh, InHand
<1>5. Whole'
  BY <1>1, <1>3, <1>4 DEF OwnInv, Whole
<1> QED
  BY <1>3, <1>4, <1>5 DEF OwnInv

LEMMA DraftDropOwns == ASSUME LaneInv, OwnInv, DraftDrop, draft.st # "none" PROVE OwnInv'
<1>1. /\ UNCHANGED lane /\ draft' = [st |-> "none", work |-> NoWork]
      /\ live' = live \ InHand /\ InHand = {<<"commit", draft.work>>}
  BY DEF DraftDrop, InHand, Of
<1>2. draft'.st = "none" /\ draft'.work = NoWork
  BY <1>1
<1>3. /\ Carried' /\ Recorded' /\ CompiledOnce' /\ BatchesApart' /\ DeferredApart'
      /\ Held' = Held /\ InDeferred' = InDeferred
      /\ worker' = worker /\ presenter' = presenter /\ epoch' = epoch /\ seq' = seq
  BY <1>1, CollectorLeaves
<1>4. Drafted' /\ InHand' = {}
  BY <1>2 DEF Drafted, InHand
<1>5. Fresh'
  BY <1>1, <1>3 DEF OwnInv, Fresh
<1>6. Whole'
  <2>1. Parted({}, Held, InDeferred, worker.ret, presenter.ret, live \ InHand)
    BY Dropped DEF OwnInv, Whole
  <2> QED
    BY <1>1, <1>3, <1>4, <2>1 DEF Whole
<1> QED
  BY <1>3, <1>4, <1>5, <1>6 DEF OwnInv

LEMMA Queued ==
  ASSUME NEW a, NEW b, NEW c, NEW d, NEW e, NEW all, Parted(a, b, c, d, e, all)
  PROVE  Parted({}, b \cup a, c, d, e, all)
BY DEF Parted

LEMMA SourceQueuePublishOwns == ASSUME LaneInv, OwnInv, SourceQueuePublish PROVE OwnInv'
<1>1. /\ draft.st = "sealed" /\ draft.work.seq = seq + 1 /\ draft.work.epoch = epoch
      /\ fifo' = Append(fifo, draft.work) /\ seq' = draft.work.seq
      /\ draft' = [st |-> "none", work |-> NoWork]
  BY DEF SourceQueuePublish, Admissible
<1>2. /\ epoch' = epoch /\ blocked' = blocked /\ batch' = batch /\ workBatch' = workBatch
      /\ worker' = worker /\ presenter' = presenter /\ deferred' = deferred /\ live' = live
  BY DEF SourceQueuePublish, handles, retirements
<1>3. draft'.st = "none" /\ draft'.work = NoWork
  BY <1>1
<1>4. fifo \in Seq(Works) /\ seq \in Nat /\ draft.work \in Works
  BY <1>1 DEF LaneInv, Shaped, OwnInv, Drafted
<1>5. acked' = acked
  <2>1. Len(fifo') = Len(fifo) + 1 /\ Len(fifo) \in Nat
    BY <1>1, <1>4
  <2> QED
    BY <1>1, <1>4, <2>1 DEF acked
<1>6. Sources' = Sources \cup InHand
  <2>1. InHand = {<<"commit", draft.work>>}
    BY <1>1 DEF InHand, Of
  <2>2. /\ DOMAIN fifo' = DOMAIN fifo \cup {Len(fifo) + 1} /\ fifo'[Len(fifo) + 1] = draft.work
        /\ \A i \in DOMAIN fifo : fifo'[i] = fifo[i]
    BY <1>1, <1>4
  <2> QED
    BY <2>1, <2>2 DEF Sources
<1>7. InBatches' = InBatches /\ BatchesApart'
  <2>1. \A c \in Batches : Owned(c)' = Owned(c)
    BY <1>2 DEF Owned
  <2> QED
    BY <2>1, BatchesStay DEF OwnInv
<1>8. InDeferred' = InDeferred /\ DeferredApart' /\ Recorded'
  BY <1>2 DEF InDeferred, DeferredApart, OwnInv, Recorded, Deferrable
<1>9. Carried'
  <2>1. \A st : Cargo(st)' = Cargo(st)
    BY <1>2, CargoStays
  <2> QED
    BY <1>2, <2>1 DEF OwnInv, Carried
<1>10. CompiledOnce'
  <2>1. \A w : InCheck(w)' <=> InCheck(w)
    BY <1>2 DEF InCheck, Here
  <2> QED
    BY <1>2, <1>5, <2>1 DEF OwnInv, CompiledOnce
<1>11. Drafted' /\ InHand' = {}
  BY <1>3 DEF Drafted, InHand
<1>12. Fresh'
  <2> SUFFICES ASSUME NEW o \in live
               PROVE  /\ o \in Objects /\ o[2].epoch <= epoch /\ o[2].epoch < EpochLimit
                      /\ ~(o[2].epoch = epoch /\ o[2].seq > seq')
    BY <1>2 DEF Fresh
  <2>1. /\ o \in Objects /\ o[2].epoch <= epoch /\ o[2].epoch < EpochLimit
        /\ o[2].epoch = epoch /\ o[2].seq > seq => o = <<"commit", draft.work>>
    BY DEF OwnInv, Fresh
  <2>2. o[2] \in Works
    BY <2>1 DEF Objects
  <2>3. o[2].seq \in Nat
    BY <2>2, Records, LaneAssumption
  <2>4. o = <<"commit", draft.work>> => o[2] = draft.work
    OBVIOUS
  <2> QED
    BY <1>1, <1>4, <2>1, <2>3, <2>4
<1>13. Whole'
  <2>1. Held' = Held \cup InHand
    BY <1>6, <1>7 DEF Held
  <2>2. Parted({}, Held \cup InHand, InDeferred, worker.ret, presenter.ret, live)
    BY Queued DEF OwnInv, Whole
  <2> QED
    BY <1>2, <1>8, <1>11, <2>1, <2>2 DEF Whole
<1> QED
  BY <1>7, <1>8, <1>9, <1>10, <1>11, <1>12, <1>13 DEF OwnInv

LEMMA CollectorOwns == ASSUME LaneInv, OwnInv, Collector PROVE OwnInv'
BY DraftBeginOwns, DraftSealOwns, DraftDropOwns, SourceQueuePublishOwns
   DEF Collector, DraftCancel, PublishRefused

----------------------------------------------------------------------------
(* An invalidation defers the sources and whatever no thread is working on.  *)
LEMMA ClaimOpenOwns == ASSUME LaneInv, OwnInv, ClaimOpen PROVE OwnInv'
<1>1. /\ epoch' = epoch /\ seq' = seq /\ blocked' = blocked /\ draft' = draft /\ fifo' = fifo
      /\ batch' = batch /\ workBatch' = workBatch /\ worker' = worker /\ presenter' = presenter
      /\ deferred' = deferred /\ live' = live
  BY DEF ClaimOpen, handles, retirements
<1>2. InBatches' = InBatches /\ BatchesApart'
  <2>1. \A c \in Batches : Owned(c)' = Owned(c)
    BY <1>1 DEF Owned
  <2> QED
    BY <2>1, BatchesStay DEF OwnInv
<1>3. InDeferred' = InDeferred /\ DeferredApart' /\ Recorded'
  BY <1>1 DEF InDeferred, DeferredApart, OwnInv, Recorded, Deferrable
<1>4. Carried'
  <2>1. \A st : Cargo(st)' = Cargo(st)
    BY <1>1, CargoStays
  <2> QED
    BY <1>1, <2>1 DEF OwnInv, Carried
<1>5. CompiledOnce'
  <2>1. acked' = acked /\ \A w : InCheck(w)' <=> InCheck(w)
    BY <1>1 DEF acked, InCheck, Here
  <2> QED
    BY <1>1, <2>1 DEF OwnInv, CompiledOnce
<1>6. Drafted' /\ Fresh' /\ InHand' = InHand
  BY <1>1 DEF OwnInv, Drafted, Fresh, InHand
<1>7. Held' = Held
  BY <1>1, <1>2 DEF Held, Sources
<1>8. Whole'
  BY <1>1, <1>3, <1>6, <1>7 DEF OwnInv, Whole
<1> QED
  BY <1>2, <1>3, <1>4, <1>5, <1>6, <1>8 DEF OwnInv

AtWorkOwned == IF workBatch = 0 THEN {} ELSE Owned(workBatch)

(* Whatever the FIFO shares with a batch, it shares with the one in work.    *)
LEMMA SourcesShared ==
  ASSUME LaneInv, OwnInv
  PROVE  Sources \cap InBatches \subseteq AtWorkOwned /\ AtWorkOwned \subseteq InBatches
<1>1. AtWorkOwned \subseteq InBatches
  BY DEF AtWorkOwned, InBatches, LaneInv, Shaped
<1>2. ASSUME NEW o \in Sources, NEW b \in Batches, o \in Owned(b)
      PROVE  o \in AtWorkOwned
  <2>1. o[1] = "commit"
    BY DEF Sources
  <2>2. o[1] \in batch[b].has
    BY <1>2, InOf DEF Owned
  <2>3. batch[b].st \in WorkStates
    BY <2>1, <2>2 DEF OwnInv, Carried, Cargo, WorkStates
  <2>4. b = workBatch
    BY <2>3 DEF LaneInv, WorkerPlaced
  <2>5. b # 0
    BY LaneAssumption DEF Batches
  <2> QED
    BY <1>2, <2>4, <2>5 DEF AtWorkOwned
<1> QED
  BY <1>1, <1>2 DEF InBatches

LEMMA SourcesApart ==
  ASSUME LaneInv
  PROVE  /\ \A i, j \in DOMAIN fifo : i # j => fifo[i] # fifo[j]
         /\ fifo \in Seq(Works)
<1>1. fifo \in Seq(Works) /\ seq \in Nat
  BY DEF LaneInv, Shaped
<1>2. \A i \in DOMAIN fifo : fifo[i].seq = seq - Len(fifo) + i
  BY DEF LaneInv, FifoInOrder
<1>3. Len(fifo) \in Nat /\ DOMAIN fifo = 1..Len(fifo)
  BY <1>1
<1> SUFFICES ASSUME NEW i \in DOMAIN fifo, NEW j \in DOMAIN fifo, fifo[i] = fifo[j] PROVE i = j
  BY <1>1
<1>4. seq - Len(fifo) + i = seq - Len(fifo) + j
  BY <1>2
<1> QED
  BY <1>1, <1>3, <1>4

(* What an invalidation defers.                                              *)
Scrapped ==
  [i \in DOMAIN fifo |-> Of(fifo[i], {"commit"}) \ AtWorkOwned]
    \o [i \in DOMAIN Ascending(Detachable) |-> Owned(Ascending(Detachable)[i])]

LEMMA Joined ==
  ASSUME NEW S, NEW f \in Seq(S), NEW g \in Seq(S)
  PROVE  /\ f \o g \in Seq(S) /\ Len(f \o g) = Len(f) + Len(g)
         /\ \A i \in 1..Len(f) : (f \o g)[i] = f[i]
         /\ \A i \in 1..Len(g) : (f \o g)[Len(f) + i] = g[i]
OBVIOUS

LEMMA ScrappedParts ==
  ASSUME LaneInv, OwnInv
  PROVE  /\ Scrapped \in Seq(SUBSET Objects)
         /\ \A i, j \in DOMAIN Scrapped : i # j => Scrapped[i] \cap Scrapped[j] = {}
         /\ UNION {Scrapped[i] : i \in DOMAIN Scrapped} = (Sources \ AtWorkOwned) \cup Loads(Detachable)
         /\ \A i \in DOMAIN Scrapped : Scrapped[i] # {} => Deferrable(Scrapped[i])
         /\ \A i \in DOMAIN Scrapped :
              \/ Scrapped[i] \subseteq Sources /\ \A o, p \in Scrapped[i] : o = p
              \/ \E b \in Detachable : Scrapped[i] = Owned(b)
<1> DEFINE n == Len(fifo)
           order == Ascending(Detachable)
           m == Cardinality(Detachable)
           first == [i \in DOMAIN fifo |-> Of(fifo[i], {"commit"}) \ AtWorkOwned]
           second == [i \in DOMAIN order |-> Owned(order[i])]
<1>1. Detachable \in SUBSET Batches /\ Detachable \in SUBSET Nat /\ IsFiniteSet(Detachable)
  <2>1. Detachable \in SUBSET Batches /\ Batches \in SUBSET Nat
    BY DEF Detachable, InState, Batches
  <2>2. IsFiniteSet(Batches)
    BY LaneAssumption, FS_Interval DEF Batches
  <2>3. IsFiniteSet(Detachable)
    BY ONLY <2>1, <2>2, FS_Subset
  <2> QED
    BY <2>1, <2>3
<1>2. /\ m \in Nat /\ order \in [1..m -> Detachable]
      /\ \A x \in Detachable : \E k \in 1..m : order[k] = x
      /\ \A k, l \in 1..m : order[k] = order[l] => k = l
  BY ONLY <1>1, Ascends
<1>3. n \in Nat /\ DOMAIN fifo = 1..n /\ fifo \in Seq(Works)
      /\ \A i, j \in 1..n : i # j => fifo[i] # fifo[j]
  BY SourcesApart
<1>4. \A b \in Batches : Owned(b) \in SUBSET Objects /\ Owned(b) \subseteq InBatches
  BY OwnTyped DEF InBatches
<1>5. \A i \in 1..n : Of(fifo[i], {"commit"}) = {<<"commit", fifo[i]>>} /\ <<"commit", fifo[i]>> \in Objects
                      /\ <<"commit", fifo[i]>> \in Sources
  BY <1>3 DEF Of, Objects, Kinds, Sources
<1> HIDE DEF n, order, m
<1>6. first = [i \in 1..n |-> {<<"commit", fifo[i]>>} \ AtWorkOwned]
  BY <1>3, <1>5
<1>7. second = [i \in 1..m |-> Owned(order[i])]
  BY <1>2
<1>8. first \in Seq(SUBSET Objects) /\ Len(first) = n
  BY <1>3, <1>5, <1>6
<1>9. second \in Seq(SUBSET Objects) /\ Len(second) = m
  <2>1. \A i \in 1..m : Owned(order[i]) \in SUBSET Objects
    BY <1>1, <1>2, <1>4
  <2> HIDE DEF second
  <2> QED
    BY <1>2, <1>7, <2>1
<1>10. Scrapped = first \o second
  BY DEF Scrapped, order
<1>11. \A i \in 1..n : first[i] = {<<"commit", fifo[i]>>} \ AtWorkOwned
  BY <1>6
<1>12. \A i \in 1..m : second[i] = Owned(order[i])
  BY <1>7
<1> HIDE DEF first, second
<1>13. /\ Scrapped \in Seq(SUBSET Objects) /\ Len(Scrapped) = n + m
       /\ \A i \in 1..n : Scrapped[i] = first[i]
       /\ \A i \in 1..m : Scrapped[n + i] = second[i]
  <2> DEFINE S == SUBSET Objects
  <2>1. first \in Seq(S) /\ second \in Seq(S)
    BY <1>8, <1>9
  <2> HIDE DEF S
  <2>2. /\ first \o second \in Seq(S) /\ Len(first \o second) = Len(first) + Len(second)
        /\ \A i \in 1..Len(first) : (first \o second)[i] = first[i]
        /\ \A i \in 1..Len(second) : (first \o second)[Len(first) + i] = second[i]
    BY ONLY <2>1, Joined
  <2>3. Len(first) = n /\ Len(second) = m
    BY <1>8, <1>9
  <2>4. Scrapped \in Seq(S)
    BY ONLY <1>10, <2>2
  <2> QED
    BY <1>10, <2>2, <2>3, <2>4 DEF S
<1>14. \A i \in DOMAIN Scrapped :
         i \in 1..n \/ (i \in n + 1 .. n + m /\ i - n \in 1..m /\ n + (i - n) = i)
  BY <1>2, <1>3, <1>13
<1>15. \A i \in 1..n : i \in DOMAIN Scrapped
  BY <1>2, <1>3, <1>13
<1>16. \A i \in 1..m : n + i \in DOMAIN Scrapped
  BY <1>2, <1>3, <1>13
<1>17. \A i \in DOMAIN Scrapped : i \notin 1..n =>
         \E k \in 1..m : i = n + k /\ Scrapped[i] = Owned(order[k])
  BY <1>12, <1>13, <1>14
<1>18. \A i \in 1..n : Scrapped[i] = {<<"commit", fifo[i]>>} \ AtWorkOwned /\ Scrapped[i] \subseteq Sources
  BY <1>5, <1>11, <1>13
<1>19. \A i \in 1..n : \A b \in Batches : Scrapped[i] \cap Owned(b) = {}
  BY <1>4, <1>18, SourcesShared
<1>20. ASSUME NEW i \in DOMAIN Scrapped, NEW j \in DOMAIN Scrapped, i # j
       PROVE  Scrapped[i] \cap Scrapped[j] = {}
  <2>1. CASE i \in 1..n /\ j \in 1..n
    <3>1. <<"commit", fifo[i]>> # <<"commit", fifo[j]>>
      BY <1>3, <1>20, <2>1
    <3> QED
      BY <1>18, <2>1, <3>1
  <2>2. CASE i \in 1..n /\ j \notin 1..n
    <3>1. PICK k \in 1..m : Scrapped[j] = Owned(order[k])
      BY <1>17, <2>2
    <3>2. order[k] \in Batches
      BY <1>1, <1>2
    <3> QED
      BY <1>19, <2>2, <3>1, <3>2
  <2>3. CASE i \notin 1..n /\ j \in 1..n
    <3>1. PICK k \in 1..m : Scrapped[i] = Owned(order[k])
      BY <1>17, <2>3
    <3>2. order[k] \in Batches
      BY <1>1, <1>2
    <3> QED
      BY <1>19, <2>3, <3>1, <3>2
  <2>4. CASE i \notin 1..n /\ j \notin 1..n
    <3>1. PICK k \in 1..m : i = n + k /\ Scrapped[i] = Owned(order[k])
      BY <1>17, <2>4
    <3>2. PICK l \in 1..m : j = n + l /\ Scrapped[j] = Owned(order[l])
      BY <1>17, <2>4
    <3>3. order[k] # order[l] /\ order[k] \in Batches /\ order[l] \in Batches
      BY <1>1, <1>2, <1>20, <3>1, <3>2
    <3> QED
      BY <3>1, <3>2, <3>3 DEF OwnInv, BatchesApart
  <2> QED
    BY <2>1, <2>2, <2>3, <2>4
<1>21. ASSUME NEW o
       PROVE  (\E i \in DOMAIN Scrapped : o \in Scrapped[i])
                <=> o \in Sources \ AtWorkOwned \/ (\E b \in Detachable : o \in Owned(b))
  <2>1. ASSUME NEW i \in DOMAIN Scrapped, o \in Scrapped[i]
        PROVE  o \in Sources \ AtWorkOwned \/ (\E b \in Detachable : o \in Owned(b))
    <3>1. CASE i \in 1..n
      BY <1>18, <2>1, <3>1
    <3>2. CASE i \notin 1..n
      BY <1>2, <1>17, <2>1, <3>2
    <3> QED
      BY <3>1, <3>2
  <2>2. ASSUME o \in Sources \ AtWorkOwned
        PROVE  \E i \in DOMAIN Scrapped : o \in Scrapped[i]
    <3>1. PICK i \in 1..n : o = <<"commit", fifo[i]>>
      BY <1>3, <2>2 DEF Sources
    <3> QED
      BY <1>15, <1>18, <2>2, <3>1
  <2>3. ASSUME NEW b \in Detachable, o \in Owned(b)
        PROVE  \E i \in DOMAIN Scrapped : o \in Scrapped[i]
    <3>1. PICK k \in 1..m : order[k] = b
      BY <1>2
    <3>2. Scrapped[n + k] = Owned(b)
      BY <1>12, <1>13, <3>1
    <3> QED
      BY <1>16, <2>3, <3>2
  <2> QED
    BY <2>1, <2>2, <2>3
<1>22. UNION {Scrapped[i] : i \in DOMAIN Scrapped} = (Sources \ AtWorkOwned) \cup Loads(Detachable)
  <2>1. \A o : o \in UNION {Scrapped[i] : i \in DOMAIN Scrapped} <=> \E i \in DOMAIN Scrapped : o \in Scrapped[i]
    OBVIOUS
  <2>2. \A o : o \in Loads(Detachable) <=> \E b \in Detachable : o \in Owned(b)
    BY DEF Loads
  <2> QED
    BY <1>21, <2>1, <2>2
<1>23. ASSUME NEW i \in DOMAIN Scrapped, Scrapped[i] # {}
       PROVE  Deferrable(Scrapped[i])
  <2>1. CASE i \in 1..n
    <3>1. \A w : <<"completion", w>> # <<"commit", fifo[i]>>
      OBVIOUS
    <3> QED
      BY <1>18, <1>23, <2>1, <3>1 DEF Deferrable
  <2>2. CASE i \notin 1..n
    <3>1. PICK k \in 1..m : Scrapped[i] = Owned(order[k])
      BY <1>17, <2>2
    <3> DEFINE b == order[k]
    <3>2. b \in Batches
      BY <1>1, <1>2
    <3> HIDE DEF b
    <3>3. ASSUME NEW w \in Works, <<"completion", w>> \in Owned(b) PROVE <<"endpoint", w>> \in Owned(b)
      <4>1. "completion" \in batch[b].has /\ batch[b].work = w
        BY <3>3, InOf DEF Owned
      <4>2. "endpoint" \in batch[b].has
        BY <3>2, <4>1 DEF OwnInv, Carried, Cargo
      <4> QED
        BY <4>1, <4>2, InOf DEF Owned
    <3>4. Scrapped[i] = Owned(b)
      BY <3>1 DEF b
    <3> QED
      BY <1>23, <3>3, <3>4 DEF Deferrable
  <2> QED
    BY <2>1, <2>2
<1>24. \A i \in DOMAIN Scrapped :
         \/ Scrapped[i] \subseteq Sources /\ \A o, p \in Scrapped[i] : o = p
         \/ \E b \in Detachable : Scrapped[i] = Owned(b)
  BY <1>2, <1>17, <1>18
<1> QED
  BY <1>13, <1>20, <1>22, <1>23, <1>24

LEMMA Scraps ==
  ASSUME NEW a, NEW b, NEW c, NEW d, NEW e, NEW all, Parted(a, b, c, d, e, all),
         NEW x, NEW y, b = x \cup y, x \cap y = {}
  PROVE  /\ Parted(a, x, c \cup y, d, e, all)
         /\ Parted({}, x, c \cup y, d, e, all \ a)
BY DEF Parted

LEMMA InvalidateOwns == ASSUME LaneInv, OwnInv, LogicalInvalidate PROVE OwnInv'
<1> DEFINE X == (Sources \ AtWorkOwned) \cup Loads(Detachable)
<1>1. /\ epoch' = (IF Terminal THEN epoch ELSE epoch + 1)
      /\ seq' = 0 /\ blocked' = FALSE /\ fifo' = <<>>
      /\ batch' = [b \in Batches |-> IF b \in Detachable THEN FreeBatch ELSE batch[b]]
      /\ worker' = worker /\ presenter' = presenter
  BY DEF LogicalInvalidate
<1>2. Defer(Scrapped)
  BY DEF LogicalInvalidate, Scrapped, AtWorkOwned
<1>3. /\ draft.st = "building" => /\ draft' = [st |-> "none", work |-> NoWork]
                                  /\ live' = live \ InHand
      /\ draft.st # "building" => draft' = draft /\ live' = live
  BY DEF LogicalInvalidate, InHand
<1>4. /\ Scrapped \in Seq(SUBSET Objects)
      /\ \A i, j \in DOMAIN Scrapped : i # j => Scrapped[i] \cap Scrapped[j] = {}
      /\ UNION {Scrapped[i] : i \in DOMAIN Scrapped} = X
      /\ \A i \in DOMAIN Scrapped : Scrapped[i] # {} => Deferrable(Scrapped[i])
  BY ScrappedParts
<1>5. Detachable \in SUBSET Batches /\ batch \in [Batches -> BatchRecord]
      /\ epoch \in 1..EpochLimit
  BY DEF Detachable, InState, LaneInv, Shaped
<1>6. \A c \in Batches : Owned(c)' = IF c \in Detachable THEN {} ELSE Owned(c)
  <2>1. \A c \in Batches : batch'[c] = IF c \in Detachable THEN FreeBatch ELSE batch[c]
    BY <1>1
  <2> QED
    BY <2>1, Records, InOf DEF Owned
<1>7. InBatches' = InBatches \ Loads(Detachable) /\ BatchesApart'
  BY <1>5, <1>6, BatchesFreed DEF OwnInv
<1>8. Held' = InBatches \ Loads(Detachable)
  <2>1. Sources' = {}
    BY <1>1 DEF Sources
  <2> QED
    BY <1>7, <2>1 DEF Held
<1>9. Loads(Detachable) \subseteq InBatches
  BY <1>5 DEF Loads, InBatches
<1>10. Held = Held' \cup X /\ Held' \cap X = {}
  <2>1. Sources \cap InBatches \subseteq AtWorkOwned /\ AtWorkOwned \subseteq InBatches
    BY SourcesShared
  <2> QED
    BY <1>8, <1>9, <2>1 DEF Held
<1>11. X \cap InDeferred = {}
  BY <1>10 DEF OwnInv, Whole, Parted
<1> HIDE DEF X
<1>12. /\ deferred' \in Seq(SUBSET Objects)
       /\ InDeferred' = InDeferred \cup X /\ DeferredApart'
       /\ \A j \in DOMAIN deferred' :
              \/ \E i \in DOMAIN deferred : deferred'[j] = deferred[i]
              \/ \E i \in DOMAIN Scrapped : deferred'[j] = Scrapped[i] /\ Scrapped[i] # {}
  <2>1. deferred \in Seq(SUBSET Objects) /\ DeferredApart
    BY DEF OwnInv, Recorded
  <2>2. X = UNION {Scrapped[i] : i \in DOMAIN Scrapped}
    BY <1>4
  <2> QED
    BY ONLY <1>2, <1>4, <1>11, <2>1, <2>2, DefersApart
<1>13. Recorded'
  <2>1. \A j \in DOMAIN deferred' : Deferrable(deferred'[j])
    BY <1>4, <1>12 DEF OwnInv, Recorded
  <2> QED
    BY <1>1, <1>12, <2>1 DEF OwnInv, Recorded, Deferrable
<1>14. Carried'
  <2>1. \A st : Cargo(st)' = Cargo(st)
    BY <1>1, CargoStays
  <2>2. \A c \in Batches : batch'[c] = FreeBatch \/ batch'[c] = batch[c]
    BY <1>1
  <2>3. Cargo("free") = {}
    BY DEF Cargo
  <2> QED
    BY <2>1, <2>2, <2>3, Records DEF OwnInv, Carried
<1>15. \A o \in live' : o \in live
  BY <1>3
<1>16. \A o \in live : o \in Objects /\ o[2].epoch <= epoch' /\ o[2].epoch < EpochLimit /\ o[2].epoch # epoch'
  <2> TAKE o \in live
  <2>1. o \in Objects /\ o[2].epoch <= epoch /\ o[2].epoch < EpochLimit
    BY DEF OwnInv, Fresh
  <2>2. o[2] \in Works
    BY <2>1 DEF Objects
  <2>3. o[2].epoch \in Nat
    BY <2>2, Records, LaneAssumption
  <2> QED
    BY <1>1, <1>5, <2>1, <2>3, LaneAssumption DEF Terminal
<1>17. Fresh'
  BY <1>15, <1>16 DEF Fresh
<1>18. Drafted'
  <2>1. CASE draft.st = "building"
    <3>1. draft'.st = "none" /\ draft'.work = NoWork
      BY <1>3, <2>1
    <3> QED
      BY <3>1 DEF Drafted
  <2>2. CASE draft.st = "none"
    BY <1>3, <2>2 DEF OwnInv, Drafted
  <2>3. CASE draft.st # "building" /\ draft.st # "none"
    <3> DEFINE o == <<"commit", draft.work>>
    <3>1. o \in InHand /\ InHand \subseteq live
      BY <2>3, InOf DEF InHand, OwnInv, Whole, Parted
    <3>2. o[2].epoch <= epoch' /\ o[2].epoch # epoch'
      BY <1>16, <3>1
    <3>3. draft.work.epoch <= epoch' /\ draft.work.epoch # epoch'
      BY <3>2
    <3> QED
      BY <1>3, <2>3, <3>3 DEF OwnInv, Drafted
  <2> QED
    BY <2>1, <2>2, <2>3
<1>19. CompiledOnce'
  <2>1. ASSUME worker.pc = "compile" PROVE batch'[worker.slot] = batch[worker.slot]
    <3>1. worker.slot \in Batches /\ batch[worker.slot].st = "compiling"
      BY <2>1, WorkerBatch
    <3>2. worker.slot \notin Detachable
      BY <3>1 DEF Detachable, InState
    <3> QED
      BY <1>1, <3>1, <3>2
  <2>2. worker.pc = "compile" => \A o \in live' : o[2] = batch'[worker.slot].work => o[1] = "commit"
    BY <1>15, <2>1 DEF OwnInv, CompiledOnce
  <2> QED
    BY <1>1, <1>15, <1>16, <2>2 DEF CompiledOnce
<1>20. Whole'
  <2>1. /\ Parted(InHand, Held', InDeferred \cup X, worker.ret, presenter.ret, live)
        /\ Parted({}, Held', InDeferred \cup X, worker.ret, presenter.ret, live \ InHand)
    <3>1. Parted(InHand, Held, InDeferred, worker.ret, presenter.ret, live)
      BY DEF OwnInv, Whole
    <3> QED
      BY ONLY <1>10, <3>1, Scraps
  <2>2. CASE draft.st = "building"
    <3>1. InHand' = {}
      BY <1>3, <2>2 DEF InHand
    <3> QED
      BY <1>1, <1>3, <1>12, <2>1, <2>2, <3>1 DEF Whole
  <2>3. CASE draft.st # "building"
    <3>1. InHand' = InHand
      BY <1>3, <2>3 DEF InHand
    <3> QED
      BY <1>1, <1>3, <1>12, <2>1, <2>3, <3>1 DEF Whole
  <2> QED
    BY <2>2, <2>3
<1> QED
  BY <1>7, <1>12, <1>13, <1>14, <1>17, <1>18, <1>19, <1>20 DEF OwnInv

LEMMA LifecycleOwns == ASSUME LaneInv, OwnInv, Lifecycle PROVE OwnInv'
BY ClaimOpenOwns, InvalidateOwns
   DEF Lifecycle, LifecycleClose, PresentationReset, TimelineInvalidate

----------------------------------------------------------------------------
(* The worker.  What it compiled goes to its batch or to its record, and the *)
(* commit of a source it gives up goes back to the FIFO.                     *)
WorkerKinds == {"commit", "endpoint", "compile"}
Compiled(made) ==
  \A o \in made : o \in Objects /\ o[1] \in {"endpoint", "compile"} /\ <<"commit", o[2]>> \in Held

LEMMA WorkerCargo ==
  ASSUME LaneInv, OwnInv, worker.pc \in {"compile", "poll", "failed", "pend"}
  PROVE  /\ batch[worker.slot].has =
              CASE worker.pc = "compile" -> {"commit"} [] worker.pc = "poll" -> WorkerKinds
                [] worker.pc = "failed" -> {"commit"} [] OTHER -> {"endpoint"}
         /\ Owned(worker.slot) = Of(batch[worker.slot].work, batch[worker.slot].has)
         /\ Owned(worker.slot) \in SUBSET Objects /\ Owned(worker.slot) \subseteq InBatches
         /\ Sources \cap InBatches \subseteq Owned(worker.slot)
         /\ worker.ret = {} /\ batch \in [Batches -> BatchRecord]
<1>1. /\ worker.slot \in Batches /\ worker.slot = workBatch
      /\ batch[worker.slot].st =
              CASE worker.pc = "compile" -> "compiling" [] worker.pc = "poll" -> "checking"
                [] OTHER -> "finalizing"
  BY WorkerBatch
<1>2. batch[worker.slot].has = Cargo(batch[worker.slot].st)
  BY <1>1 DEF OwnInv, Carried
<1>3. worker.pc = "failed" <=> (worker.pc \in {"failed", "pend"} /\ Going("failed"))
  BY DEF Going
<1>4. batch[worker.slot].has =
              CASE worker.pc = "compile" -> {"commit"} [] worker.pc = "poll" -> WorkerKinds
                [] worker.pc = "failed" -> {"commit"} [] OTHER -> {"endpoint"}
  BY <1>1, <1>2, <1>3 DEF Cargo, WorkerKinds
<1>5. Owned(worker.slot) \in SUBSET Objects
  BY WorkerBatch DEF Owned
<1>6. worker.slot # 0
  BY <1>1, LaneAssumption DEF Batches
<1>7. Sources \cap InBatches \subseteq Owned(worker.slot)
  BY <1>1, <1>6, SourcesShared DEF AtWorkOwned
<1> QED
  BY <1>1, <1>4, <1>5, <1>7, OwnTyped DEF Owned, InBatches, OwnInv, Recorded

LEMMA Reworked ==
  ASSUME NEW a, NEW b, NEW c, NEW e, NEW all, Parted(a, b, c, {}, e, all),
         NEW x, NEW y, NEW made, NEW d, x \subseteq b, made \cap all = {},
         y \cup d = x \cup made, y \cap d = {}
  PROVE  Parted(a, (b \ x) \cup y, c, d, e, all \cup made)
BY DEF Parted

LEMMA MadeIsFresh ==
  ASSUME LaneInv, OwnInv, NEW made, Compiled(made), live' = live \cup made,
         UNCHANGED <<epoch, seq, draft>>
  PROVE  Fresh' /\ Drafted' /\ InHand' = InHand
<1>1. Drafted' /\ InHand' = InHand
  BY DEF OwnInv, Drafted, InHand
<1>2. ASSUME NEW o \in live'
      PROVE  /\ o \in Objects /\ o[2].epoch <= epoch /\ o[2].epoch < EpochLimit
             /\ o[2].epoch = epoch /\ o[2].seq > seq =>
                  draft.st # "none" /\ o = <<"commit", draft.work>>
  <2>1. CASE o \in live
    BY <2>1 DEF OwnInv, Fresh
  <2>2. CASE o \in made
    <3> DEFINE c == <<"commit", o[2]>>
    <3>1. o \in Objects /\ c \in Held /\ c[2] = o[2]
      BY <2>2 DEF Compiled
    <3>2. c \in live /\ c \notin InHand
      BY <3>1 DEF OwnInv, Whole, Parted
    <3>3. draft.st # "none" => <<"commit", draft.work>> \in InHand
      BY InOf DEF InHand
    <3> HIDE DEF c
    <3>4. /\ c[2].epoch <= epoch /\ c[2].epoch < EpochLimit
          /\ ~(c[2].epoch = epoch /\ c[2].seq > seq)
      BY <3>2, <3>3 DEF OwnInv, Fresh
    <3> QED
      BY <3>1, <3>4
  <2> QED
    BY <2>1, <2>2
<1>3. Fresh'
  BY <1>2 DEF Fresh
<1> QED
  BY <1>1, <1>3

LEMMA OneWorkMoves ==
  ASSUME LaneInv, OwnInv, UNCHANGED <<epoch, seq, draft, presenter, deferred>>,
         NEW b \in Batches, workBatch \in {0, b}, NEW r, batch' = [batch EXCEPT ![b] = r],
         Of(r.work, r.has) \cap (InBatches \ Owned(b)) = {},
         Sources' \subseteq Sources, Sources \ Sources' \subseteq Owned(b),
         NEW made, Compiled(made), made \cap live = {}, live' = live \cup made,
         (Of(r.work, r.has) \ Sources') \cup worker'.ret = (Owned(b) \ Sources') \cup made,
         (Of(r.work, r.has) \ Sources') \cap worker'.ret = {},
         worker.ret = {}, \A o \in worker'.ret : o[1] # "completion",
         worker'.pc # "clean" => worker'.ret = {},
         r.has = Cargo(r.st)', CompiledOnce'
  PROVE  OwnInv'
<1> DEFINE X == Of(r.work, r.has)
           x == Owned(b) \ Sources'
           y == X \ Sources'
<1>1. batch \in [Batches -> BatchRecord] /\ BatchesApart
  BY OwnTyped DEF OwnInv
<1>2. Owned(b)' = X /\ \A c \in Batches : c # b => Owned(c)' = Owned(c)
  BY <1>1, OneIsOwned
<1>3. batch'[b] = r /\ \A c \in Batches : c # b => batch'[c] = batch[c]
  BY <1>1
<1> HIDE DEF X
<1>4. X \cap (InBatches \ Owned(b)) = {}
  BY DEF X
<1>5. InBatches' = (InBatches \ Owned(b)) \cup X /\ BatchesApart'
  BY <1>1, <1>2, <1>4, BatchChanges
<1>6. Carried'
  <2>1. \A c \in Batches : c # b => batch[c].st # "finalizing"
    BY LaneAssumption DEF LaneInv, WorkerPlaced, WorkStates, Batches
  <2>2. \A st : st # "finalizing" => Cargo(st)' = Cargo(st)
    BY DEF Cargo
  <2> QED
    BY <1>3, <2>1, <2>2 DEF OwnInv, Carried
<1>7. Fresh' /\ Drafted' /\ InHand' = InHand
  BY MadeIsFresh
<1>8. DeferredApart' /\ InDeferred' = InDeferred
  BY DEF DeferredApart, InDeferred, OwnInv
<1>9. Owned(b) \subseteq InBatches
  BY DEF InBatches
<1>10. Held' = (Held \ x) \cup y /\ x \subseteq Held
  BY <1>5, <1>9 DEF Held
<1>11. Parted(InHand, (Held \ x) \cup y, InDeferred, worker'.ret, presenter.ret, live \cup made)
  <2>1. Parted(InHand, Held, InDeferred, {}, presenter.ret, live)
    BY DEF OwnInv, Whole
  <2>2. y \cup worker'.ret = x \cup made /\ y \cap worker'.ret = {}
    BY DEF X
  <2> HIDE DEF x, y
  <2> QED
    BY ONLY <1>10, <2>1, <2>2, Reworked, made \cap live = {}
<1>12. Whole'
  BY <1>7, <1>8, <1>10, <1>11 DEF Whole
<1>13. Recorded'
  BY DEF OwnInv, Recorded, Deferrable
<1> QED
  BY <1>5, <1>6, <1>7, <1>8, <1>12, <1>13 DEF OwnInv

LEMMA WorkerTakes ==
  ASSUME NEW ret, NEW b, NEW next, WorkerCleans(ret, b, next)
  PROVE  /\ worker'.ret = ret /\ (worker'.pc # "clean" => worker'.ret = {})
         /\ worker'.pc \in {"idle", "clean"}
         /\ next # "idle" => worker'.pc = "clean" /\ worker'.next = next
         /\ Going("failed")' <=> next = "failed"
<1>1. CASE ret = {} /\ next = "idle"
  BY <1>1 DEF WorkerCleans, IdleWorker, Going
<1>2. CASE ~(ret = {} /\ next = "idle")
  BY <1>2 DEF WorkerCleans, Going
<1> QED
  BY <1>1, <1>2

LEMMA WorkerHolds ==
  ASSUME NEW b, NEW pc \in {"idle", "compile", "poll"}, WorkerTo(pc, b)
  PROVE  worker'.ret = {} /\ worker'.pc = pc /\ worker'.slot = b /\ ~Going("failed")'
BY DEF WorkerTo, IdleWorker, Going

(* Of what a batch in work owns, the FIFO has the commit, if it is current.  *)
LEMMA StaleApart ==
  ASSUME LaneInv, NEW b \in Batches, ~Here(b), batch[b].st # "free",
         NEW o, o[2] = batch[b].work
  PROVE  o \notin Sources
<1>1. \A i \in DOMAIN fifo : fifo[i].epoch = epoch
  BY DEF LaneInv, FifoInOrder, IsCurrent
<1>2. \A p \in Sources : p[2].epoch = epoch
  BY <1>1 DEF Sources
<1> QED
  BY <1>2 DEF Here

LEMMA HeadApart ==
  ASSUME LaneInv, NEW w, StillHead(w)
  PROVE  /\ <<"commit", w>> \in Sources
         /\ \A o \in Sources : o[2] = w => o = <<"commit", w>>
         /\ \A o : o[1] # "commit" => o \notin Sources
         /\ fifo' = Tail(fifo) =>
              /\ Sources' \subseteq Sources /\ Sources \ Sources' \subseteq {<<"commit", w>>}
              /\ \A o : o[2] = w => o \notin Sources'
<1>1. fifo \in Seq(Works) /\ fifo # <<>> /\ Head(fifo) = w
  BY HeadIsNext DEF LaneInv, Shaped
<1>2. 1 \in DOMAIN fifo /\ fifo[1] = w /\ DOMAIN fifo = 1..Len(fifo) /\ Len(fifo) \in Nat
  BY <1>1
<1>3. \A o \in Sources : \E i \in DOMAIN fifo : o = <<"commit", fifo[i]>>
  BY DEF Sources
<1>4. <<"commit", w>> \in Sources
  BY <1>2 DEF Sources
<1>5. /\ \A o \in Sources : o[2] = w => o = <<"commit", w>>
      /\ \A o : o[1] # "commit" => o \notin Sources
  BY <1>3
<1>6. ASSUME fifo' = Tail(fifo)
      PROVE  /\ Sources' \subseteq Sources /\ Sources \ Sources' \subseteq {<<"commit", w>>}
             /\ \A o : o[2] = w => o \notin Sources'
  <2>1. /\ \A i \in DOMAIN fifo' : i + 1 \in DOMAIN fifo /\ i + 1 # 1 /\ fifo'[i] = fifo[i + 1]
        /\ \A i \in DOMAIN fifo : i # 1 => i - 1 \in DOMAIN fifo' /\ fifo'[i - 1] = fifo[i]
    BY <1>1, <1>2, <1>6
  <2>2. \A i, j \in DOMAIN fifo : i # j => fifo[i] # fifo[j]
    BY SourcesApart
  <2>3. \A i \in DOMAIN fifo' : fifo'[i] # w
    BY <1>2, <2>1, <2>2
  <2>4. \A o : o[2] = w => o \notin Sources'
    BY <2>3 DEF Sources
  <2>5. Sources' \subseteq Sources
    BY <2>1 DEF Sources
  <2>6. Sources \ Sources' \subseteq {<<"commit", w>>}
    <3> SUFFICES ASSUME NEW i \in DOMAIN fifo, fifo[i] # w PROVE <<"commit", fifo[i]>> \in Sources'
      BY <1>3
    <3>1. i # 1
      BY <1>2
    <3> QED
      BY <2>1, <3>1 DEF Sources
  <2> QED
    BY <2>4, <2>5, <2>6
<1> QED
  BY <1>4, <1>5, <1>6

LEMMA CompiledLater ==
  ASSUME LaneInv, OwnInv, epoch' = epoch, worker'.pc # "compile",
         acked' \in {acked, acked + 1}, blocked => blocked',
         NEW made, Compiled(made), live' = live \cup made,
         \A o \in made : o[2].epoch = epoch => blocked' \/ InCheck(o[2])',
         \A w \in Works : InCheck(w) => w.seq <= acked' \/ blocked' \/ InCheck(w)'
  PROVE  CompiledOnce'
<1> SUFFICES ASSUME NEW o \in live', o[1] # "commit", o[2].epoch = epoch
             PROVE  o[2].seq <= acked' \/ blocked' \/ InCheck(o[2])'
  BY DEF CompiledOnce
<1>1. CASE o \in made
  BY <1>1
<1>2. CASE o \in live
  <2>1. o[2].seq <= acked \/ blocked \/ InCheck(o[2])
    BY <1>2 DEF OwnInv, CompiledOnce
  <2>2. o \in Objects
    BY <1>2 DEF OwnInv, Fresh
  <2>3. o[2] \in Works
    BY <2>2 DEF Objects
  <2>4. o[2].seq \in Nat /\ acked \in Nat
    BY <2>3, Records, LaneAssumption, FifoHead
  <2> QED
    BY <2>1, <2>3, <2>4
<1> QED
  BY <1>1, <1>2

(* A stale result: everything of the batch goes to the record.               *)
LEMMA StaleOwns ==
  ASSUME LaneInv, OwnInv, worker.pc \in {"compile", "poll", "failed"},
         UNCHANGED <<epoch, seq, draft, presenter, deferred>>,
         NEW b \in Batches, b = worker.slot,
         NEW made, Compiled(made), made \cap live = {}, live' = live \cup made,
         \A o \in made : o[2] = batch[b].work,
         NEW r, r.work = batch[b].work, Of(r.work, r.has) = Owned(b) \cup made,
         OutcomeStale(b, r)
  PROVE  OwnInv'
<1>1. /\ ~Here(b) /\ batch' = [batch EXCEPT ![b] = FreeBatch] /\ fifo' = fifo /\ blocked' = blocked
      /\ WorkerCleans(Owned(b) \cup made, b, "idle")
  BY StaleIsOver DEF OutcomeStale, FreeWork, Detached
<1>2. /\ worker'.ret = Owned(b) \cup made /\ (worker'.pc # "clean" => worker'.ret = {})
      /\ worker'.pc # "compile"
  BY <1>1, WorkerTakes
<1>3. /\ workBatch = b /\ batch[b].st # "free" /\ batch[b].has \subseteq WorkerKinds
      /\ Owned(b) = Of(batch[b].work, batch[b].has) /\ worker.ret = {}
  BY WorkerBatch, WorkerCargo DEF WorkerKinds
<1>4. Of(FreeBatch.work, FreeBatch.has) = {} /\ FreeBatch.st = "free" /\ FreeBatch.has = {}
  BY Records, InOf
<1>5. Sources' = Sources
  BY <1>1 DEF Sources
<1>6. \A o \in Owned(b) : o \notin Sources
  BY <1>1, <1>3, StaleApart, InOf
<1>7. \A o \in worker'.ret : o[1] # "completion"
  <2>1. \A o \in Owned(b) : o[1] \in WorkerKinds
    BY <1>3, InOf
  <2>2. \A o \in made : o[1] # "completion"
    BY DEF Compiled
  <2> QED
    BY <1>2, <2>1, <2>2 DEF WorkerKinds
<1>8. CompiledOnce'
  <2>1. acked' = acked
    BY <1>1 DEF acked
  <2>2. \A w : ~InCheck(w)
    BY <1>1, <1>3 DEF InCheck
  <2>3. \A o \in made : o[2].epoch # epoch
    BY <1>1, <1>3 DEF Here
  <2> QED
    BY <1>1, <1>2, <2>1, <2>2, <2>3, CompiledLater
<1>9. FreeBatch.has = Cargo(FreeBatch.st)'
  BY <1>4 DEF Cargo
<1> HIDE DEF Cargo
<1>10. /\ (Of(FreeBatch.work, FreeBatch.has) \ Sources') \cup worker'.ret = (Owned(b) \ Sources') \cup made
       /\ (Of(FreeBatch.work, FreeBatch.has) \ Sources') \cap worker'.ret = {}
  BY <1>2, <1>4, <1>5, <1>6
<1>11. /\ Sources' \subseteq Sources /\ Sources \ Sources' \subseteq Owned(b)
       /\ Of(FreeBatch.work, FreeBatch.has) \cap (InBatches \ Owned(b)) = {}
  BY <1>4, <1>5
<1> QED
  BY <1>1, <1>2, <1>3, <1>7, <1>8, <1>9, <1>10, <1>11, OneWorkMoves

(* The head of the FIFO keeps its commit while its batch goes on, or goes.   *)
LEMMA HeadOwns ==
  ASSUME LaneInv, OwnInv, worker.pc \in {"compile", "poll", "failed"},
         UNCHANGED <<epoch, seq, draft, presenter, deferred, fifo>>,
         NEW b \in Batches, b = worker.slot, StillHead(batch[b].work),
         NEW kinds \in SUBSET {"endpoint", "compile"}, batch[b].has = {"commit"} \/ kinds = {},
         NEW made, made = Of(batch[b].work, kinds), made \cap live = {}, live' = live \cup made,
         NEW r, batch' = [batch EXCEPT ![b] = r],
         r.has = {} \/ r.work = batch[b].work, r.has = Cargo(r.st)',
         r.has \subseteq batch[b].has \cup kinds,
         worker'.ret = Of(batch[b].work, (batch[b].has \cup kinds) \ (r.has \cup {"commit"})),
         worker'.pc # "clean" => worker'.ret = {}, CompiledOnce'
  PROVE  OwnInv'
<1> DEFINE w == batch[b].work
           X == Of(r.work, r.has)
           c == <<"commit", w>>
<1>1. /\ workBatch = b /\ batch[b].has \in {{"commit"}, WorkerKinds} /\ worker.ret = {}
      /\ Owned(b) = Of(w, batch[b].has) /\ w \in Works
      /\ made = Of(w, kinds)
  BY WorkerBatch, WorkerCargo
<1>2. X = Of(w, r.has)
  <2>1. CASE r.has = {}
    <3>1. Of(r.work, {}) = {} /\ Of(w, {}) = {}
      BY ONLY InOf
    <3> QED
      BY ONLY <2>1, <3>1
  <2>2. CASE r.work = w
    BY ONLY <2>2
  <2> QED
    BY <2>1, <2>2
<1>3. c \in Sources /\ \A o \in Sources : o[2] = w => o = c
  BY HeadApart
<1>4. Sources' = Sources
  BY DEF Sources
<1>5. c \in Owned(b) /\ c \in Held
  BY <1>1, <1>3, InOf DEF WorkerKinds, Held
<1>6. made \in SUBSET Objects
  <2>1. kinds \subseteq Kinds
    BY DEF Kinds, Fences
  <2> QED
    BY <1>1, <2>1, InOf
<1>7. Compiled(made)
  BY <1>5, <1>6, InOf DEF Compiled
<1> HIDE DEF w
<1>9. Owned(b) \cup made = Of(w, batch[b].has \cup kinds)
  <2> HIDE DEF X, c
  <2>1. Owned(b) = Of(w, batch[b].has) /\ made = Of(w, kinds)
    BY <1>1
  <2> QED
    BY ONLY <2>1 DEF Of
<1>8. X \subseteq Owned(b) \cup made
  <2> HIDE DEF X
  <2> QED
    BY ONLY <1>2, <1>9, r.has \subseteq batch[b].has \cup kinds DEF Of
<1>10. \A o : o \in Of(w, batch[b].has \cup kinds) =>
          (o \in Sources <=> o[1] = "commit") /\ (o[1] \in r.has <=> o \in X)
  BY <1>2, <1>3, InOf
<1>11. worker'.ret = Of(w, (batch[b].has \cup kinds) \ (r.has \cup {"commit"}))
  BY DEF w
<1>12. \A o : o \in worker'.ret <=> o \in Of(w, batch[b].has \cup kinds) /\ o[1] \notin r.has /\ o[1] # "commit"
  BY <1>11 DEF Of
<1>13. InBatches \cap made = {}
  BY OwnTyped
<1> HIDE DEF X
<1>14. \A o \in made : o[1] # "commit"
  BY InOf
<1>15. /\ (X \ Sources') \cup worker'.ret = (Owned(b) \ Sources') \cup made
       /\ (X \ Sources') \cap worker'.ret = {}
  BY <1>4, <1>8, <1>9, <1>10, <1>12, <1>14
<1>16. X \cap (InBatches \ Owned(b)) = {}
  BY <1>8, <1>13
<1>17. \A o \in worker'.ret : o[1] # "completion"
  <2>1. "completion" \notin batch[b].has \cup kinds
    BY <1>1 DEF WorkerKinds
  <2> QED
    BY <1>12, <2>1, InOf
<1> QED
  BY <1>1, <1>4, <1>7, <1>15, <1>16, <1>17, OneWorkMoves DEF X

(* The source leaves the FIFO.                                               *)
LEMMA PopOwns ==
  ASSUME LaneInv, OwnInv, worker.pc \in {"compile", "poll"},
         UNCHANGED <<epoch, seq, draft, presenter, deferred, live>>, fifo' = Tail(fifo),
         NEW b \in Batches, b = worker.slot, StillHead(batch[b].work),
         NEW r, batch' = [batch EXCEPT ![b] = r],
         r.has = {} \/ r.work = batch[b].work, r.has = Cargo(r.st)',
         r.has \subseteq batch[b].has,
         worker'.ret = Of(batch[b].work, batch[b].has \ r.has),
         worker'.pc # "clean" => worker'.ret = {}, CompiledOnce'
  PROVE  OwnInv'
<1> DEFINE w == batch[b].work
           X == Of(r.work, r.has)
           c == <<"commit", w>>
<1>1. /\ workBatch = b /\ batch[b].has \in {{"commit"}, WorkerKinds} /\ worker.ret = {}
      /\ Owned(b) = Of(w, batch[b].has) /\ w \in Works
  BY WorkerBatch, WorkerCargo
<1>2. X = Of(w, r.has)
  <2>1. CASE r.has = {}
    <3>1. Of(r.work, {}) = {} /\ Of(w, {}) = {}
      BY ONLY InOf
    <3> QED
      BY ONLY <2>1, <3>1
  <2>2. CASE r.work = w
    BY ONLY <2>2
  <2> QED
    BY <2>1, <2>2
<1>3. /\ Sources' \subseteq Sources /\ Sources \ Sources' \subseteq {c}
      /\ \A o : o[2] = w => o \notin Sources'
  BY HeadApart
<1>4. c \in Owned(b)
  BY <1>1, InOf DEF WorkerKinds
<1> HIDE DEF w, c
<1>5. X \subseteq Owned(b)
  BY <1>1, <1>2, OfParts
<1>6. \A o \in Owned(b) : o \notin Sources'
  BY <1>1, <1>3, InOf
<1>7. worker'.ret = Owned(b) \ X
  <2>1. worker'.ret = Of(w, batch[b].has \ r.has)
    BY DEF w
  <2> HIDE DEF X
  <2> QED
    BY <1>1, <1>2, <2>1, OfParts
<1>8. Compiled({}) /\ {} \cap live = {} /\ live' = live \cup {}
  BY DEF Compiled
<1>9. \A o \in worker'.ret : o[1] # "completion"
  <2>1. "completion" \notin batch[b].has
    BY <1>1 DEF WorkerKinds
  <2> QED
    BY <1>1, <1>7, <2>1, InOf
<1> HIDE DEF X
<1>10. /\ (X \ Sources') \cup worker'.ret = (Owned(b) \ Sources') \cup {}
       /\ (X \ Sources') \cap worker'.ret = {} /\ X \cap (InBatches \ Owned(b)) = {}
  BY <1>5, <1>6, <1>7
<1> QED
  BY <1>1, <1>3, <1>4, <1>8, <1>9, <1>10, OneWorkMoves DEF X

(* A compile makes what was not there before.                                *)
LEMMA NewEndpoint ==
  ASSUME LaneInv, OwnInv, worker.pc = "compile", NEW kinds \in SUBSET {"endpoint", "compile"}
  PROVE  /\ Compiled(Of(batch[worker.slot].work, kinds))
         /\ Of(batch[worker.slot].work, kinds) \cap live = {}
         /\ \A o \in Of(batch[worker.slot].work, kinds) : o[2] = batch[worker.slot].work
<1> DEFINE w == batch[worker.slot].work
<1>1. w \in Works /\ batch[worker.slot].has = {"commit"} /\ Owned(worker.slot) = Of(w, {"commit"})
      /\ Owned(worker.slot) \subseteq InBatches
  BY WorkerBatch, WorkerCargo
<1>2. \A o \in live : o[2] = w => o[1] = "commit"
  BY DEF OwnInv, CompiledOnce
<1> HIDE DEF w
<1>3. <<"commit", w>> \in Held
  BY <1>1, InOf DEF Held
<1>4. \A o \in Of(w, kinds) : o[1] \in kinds /\ o[2] = w
  BY InOf
<1>5. Of(w, kinds) \in SUBSET Objects
  <2>1. kinds \subseteq Kinds
    BY DEF Kinds, Fences
  <2> QED
    BY <1>1, <2>1, InOf
<1>6. Compiled(Of(w, kinds))
  BY <1>3, <1>4, <1>5 DEF Compiled
<1>7. Of(w, kinds) \cap live = {}
  BY <1>2, <1>4
<1> QED
  BY <1>4, <1>6, <1>7 DEF w

LEMMA EndpointOwns ==
  ASSUME LaneInv, OwnInv, worker.pc = "compile",
         UNCHANGED <<epoch, seq, draft, presenter, deferred, fifo, blocked, workBatch>>,
         NEW b \in Batches, b = worker.slot, IsCurrent(batch[b].work),
         live' = live \cup Of(batch[b].work, {"endpoint", "compile"}),
         NEW r \in BatchRecord, r.st = "checking", r.work = batch[b].work,
         r.has = {"commit"} \cup {"endpoint", "compile"},
         batch' = [batch EXCEPT ![b] = r], WorkerTo("poll", b)
  PROVE  OwnInv'
<1> DEFINE w == batch[b].work
           kinds == {"endpoint", "compile"}
           made == Of(w, kinds)
<1>1. /\ workBatch = b /\ batch[b].st = "compiling" /\ batch[b].has = {"commit"} /\ w \in Works
      /\ batch \in [Batches -> BatchRecord]
  BY WorkerBatch, WorkerCargo
<1>2. StillHead(w)
  <2>1. Here(b) /\ BeforeAck(b)
    BY <1>1 DEF Here, IsCurrent, BeforeAck, Uncompiled
  <2> QED
    BY <2>1 DEF LaneInv, HeadAtWork, StillHead
<1>3. Compiled(made) /\ made \cap live = {} /\ \A o \in made : o[2] = w
  BY NewEndpoint
<1>4. worker'.ret = {} /\ worker'.pc = "poll" /\ ~Going("failed")'
  BY WorkerHolds
<1>5. batch'[b] = r
  BY <1>1
<1>6. CompiledOnce'
  <2>1. acked' = acked
    BY DEF acked
  <2>2. \A v : ~InCheck(v)
    BY <1>1 DEF InCheck
  <2>3. InCheck(w)'
    <3>1. workBatch' = b /\ b # 0
      BY <1>1, LaneAssumption DEF Batches
    <3>2. Here(b)'
      BY <1>1, <1>5 DEF Here, IsCurrent
    <3> QED
      BY <1>5, <3>1, <3>2 DEF InCheck
  <2>4. \A o \in made : InCheck(o[2])'
    BY <1>3, <2>3 DEF InCheck
  <2> HIDE DEF made
  <2>5. live' = live \cup made
    BY DEF made
  <2> QED
    BY <1>3, <1>4, <2>1, <2>2, <2>4, <2>5, CompiledLater
<1>7. r.has = Cargo(r.st)'
  BY <1>4 DEF Cargo
<1>8. worker'.ret = Of(w, (batch[b].has \cup kinds) \ (r.has \cup {"commit"}))
  <2>1. (batch[b].has \cup kinds) \ (r.has \cup {"commit"}) = {}
    BY <1>1
  <2> QED
    BY <1>4, <2>1, InOf
<1>9. kinds \in SUBSET {"endpoint", "compile"} /\ r.has \subseteq batch[b].has \cup kinds
  BY <1>1
<1>10. made = Of(w, kinds) /\ live' = live \cup made
  OBVIOUS
<1> HIDE DEF made, kinds, Cargo
<1> QED
  BY <1>1, <1>2, <1>3, <1>4, <1>6, <1>7, <1>8, <1>9, <1>10, HeadOwns

LEMMA AppliedOwns ==
  ASSUME LaneInv, OwnInv, worker.pc = "compile",
         UNCHANGED <<epoch, seq, scene, draft, presenter, deferred, live>>,
         NEW b \in Batches, b = worker.slot, OutcomeApplied(b, batch[b])
  PROVE  OwnInv'
<1> DEFINE w == batch[b].work
<1>1. /\ StillHead(w) /\ fifo' = Tail(fifo) /\ batch' = [batch EXCEPT ![b] = FreeBatch]
      /\ blocked' = blocked /\ WorkerCleans(Of(w, batch[b].has), b, "idle")
  BY DEF OutcomeApplied, FreeWork, Detached
<1>2. workBatch = b /\ batch[b].st = "compiling" /\ batch[b].has = {"commit"}
  BY WorkerBatch, WorkerCargo
<1>3. /\ worker'.ret = Of(w, batch[b].has) /\ (worker'.pc # "clean" => worker'.ret = {})
      /\ worker'.pc # "compile"
  BY <1>1, WorkerTakes
<1>4. acked' = acked + 1
  <2>1. fifo # <<>>
    BY <1>1 DEF StillHead
  <2> QED
    BY <1>1, <2>1, FifoTail
<1>5. Compiled({}) /\ live' = live \cup {}
  BY DEF Compiled
<1>6. CompiledOnce'
  <2>1. \A v : ~InCheck(v)
    BY <1>2 DEF InCheck
  <2> QED
    BY <1>1, <1>3, <1>4, <1>5, <2>1, CompiledLater
<1>7. FreeBatch.has = {} /\ FreeBatch.has = Cargo(FreeBatch.st)'
  BY Records DEF Cargo
<1>8. worker'.ret = Of(w, batch[b].has \ FreeBatch.has)
  BY <1>3, <1>7
<1> HIDE DEF Cargo
<1> QED
  BY <1>1, <1>3, <1>6, <1>7, <1>8, PopOwns

(* The batch is given up, the source stays.                                  *)
LEMMA GivesBackOwns ==
  ASSUME LaneInv, OwnInv, worker.pc \in {"compile", "failed"},
         UNCHANGED <<epoch, seq, draft, presenter, deferred, live, fifo, blocked>>,
         NEW b \in Batches, b = worker.slot, StillHead(batch[b].work),
         batch' = Detached(b), worker'.ret = {}, worker'.pc # "compile"
  PROVE  OwnInv'
<1> DEFINE w == batch[b].work
<1>1. workBatch = b /\ batch[b].st \in {"compiling", "finalizing"} /\ batch[b].has = {"commit"}
  BY WorkerBatch, WorkerCargo
<1>2. batch' = [batch EXCEPT ![b] = FreeBatch]
  BY DEF Detached
<1>3. Compiled({}) /\ {} \cap live = {} /\ live' = live \cup {} /\ {} = Of(w, {})
  BY InOf DEF Compiled
<1>4. CompiledOnce'
  <2>1. \A v : ~InCheck(v)
    BY <1>1 DEF InCheck
  <2>2. acked' = acked
    BY DEF acked
  <2> QED
    BY <1>3, <2>1, <2>2, CompiledLater
<1>5. FreeBatch.has = {} /\ FreeBatch.has = Cargo(FreeBatch.st)'
  BY Records DEF Cargo
<1>6. worker'.ret = Of(w, (batch[b].has \cup {}) \ (FreeBatch.has \cup {"commit"}))
  <2>1. (batch[b].has \cup {}) \ (FreeBatch.has \cup {"commit"}) = {}
    BY <1>1
  <2> QED
    BY <2>1, InOf
<1>7. {} \in SUBSET {"endpoint", "compile"} /\ FreeBatch.has \subseteq batch[b].has \cup {}
  BY <1>5
<1> HIDE DEF Cargo
<1> QED
  BY <1>1, <1>2, <1>3, <1>4, <1>5, <1>6, <1>7, HeadOwns

(* A failure keeps the commit in the batch, and cleans up the rest.          *)
LEMMA FailedOwns ==
  ASSUME LaneInv, OwnInv, worker.pc \in {"compile", "poll"},
         UNCHANGED <<epoch, seq, draft, presenter, deferred>>,
         NEW b \in Batches, b = worker.slot,
         NEW kinds \in SUBSET {"endpoint", "compile"}, worker.pc = "compile" \/ kinds = {},
         live' = live \cup Of(batch[b].work, kinds),
         NEW r \in BatchRecord, r.work = batch[b].work, r.has = batch[b].has \cup kinds,
         OutcomeFailed(b, r)
  PROVE  OwnInv'
<1> DEFINE w == batch[b].work
           made == Of(w, kinds)
           new == [r EXCEPT !.st = "finalizing", !.has = {"commit"}]
<1>1. /\ StillHead(w) /\ blocked' = TRUE /\ fifo' = fifo
      /\ batch' = [batch EXCEPT ![b] = new] /\ WorkerCleans(Of(w, r.has \ {"commit"}), b, "failed")
  BY DEF OutcomeFailed
<1>2. workBatch = b /\ "commit" \in batch[b].has /\ (worker.pc = "compile" => batch[b].has = {"commit"})
  BY WorkerBatch, WorkerCargo DEF WorkerKinds
<1>3. new.st = "finalizing" /\ new.has = {"commit"} /\ new.work = w
  BY DEF BatchRecord
<1>4. /\ worker'.ret = Of(w, r.has \ {"commit"}) /\ (worker'.pc # "clean" => worker'.ret = {})
      /\ worker'.pc # "compile" /\ Going("failed")'
  BY <1>1, WorkerTakes
<1>5. Compiled(made) /\ made \cap live = {}
  <2>1. Compiled({}) /\ Of(w, {}) = {}
    BY InOf DEF Compiled
  <2> QED
    BY <2>1, NewEndpoint
<1> HIDE DEF new
<1>6. CompiledOnce'
  <2>1. acked' = acked
    BY <1>1 DEF acked
  <2> HIDE DEF made
  <2>2. live' = live \cup made
    BY DEF made
  <2> QED
    BY <1>1, <1>4, <1>5, <2>1, <2>2, CompiledLater
<1>7. new.has = Cargo(new.st)'
  BY <1>3, <1>4 DEF Cargo
<1>8. worker'.ret = Of(w, (batch[b].has \cup kinds) \ (new.has \cup {"commit"}))
  <2>1. (batch[b].has \cup kinds) \ (new.has \cup {"commit"}) = r.has \ {"commit"}
    BY <1>3
  <2> QED
    BY <1>4, <2>1
<1>9. new.has \subseteq batch[b].has \cup kinds /\ (batch[b].has = {"commit"} \/ kinds = {})
  BY <1>2, <1>3
<1>10. made = Of(w, kinds) /\ live' = live \cup made
  OBVIOUS
<1> HIDE DEF made, Cargo
<1> QED
  BY <1>1, <1>3, <1>4, <1>5, <1>6, <1>7, <1>8, <1>9, <1>10, HeadOwns

LEMMA CompileReturnsOwns == ASSUME LaneInv, OwnInv, CompileReturns PROVE OwnInv'
<1> PICK b \in Batches : b = worker.slot /\ b = workBatch
  BY WorkerBatch DEF CompileReturns
<1> DEFINE r == batch[b]
           w == r.work
           with(kinds) == [r EXCEPT !.has = @ \cup kinds]
           came(phases, base) == [with({"endpoint", "compile"}) EXCEPT !.phases = phases, !.base = base]
<1>1. /\ worker.pc = "compile"
      /\ UNCHANGED <<epoch, seq, scene, draft, presenter, deferred>>
  BY DEF CompileReturns, outcomeKeeps, retirements
<1>2. r \in BatchRecord /\ w \in Works /\ r.has = {"commit"} /\ Owned(b) = Of(w, r.has)
  BY <1>1, WorkerBatch, WorkerCargo
<1>3. ASSUME NEW kinds \in SUBSET {"endpoint", "compile"}
      PROVE  with(kinds) \in BatchRecord /\ with(kinds).work = w /\ with(kinds).has = r.has \cup kinds
  BY <1>2 DEF BatchRecord, Kinds, Fences
<1>4. ASSUME NEW phases \in 0..PhaseLimit, NEW base \in 0..(w.seq - 1)
      PROVE  /\ came(phases, base) \in BatchRecord /\ came(phases, base).work = w
             /\ came(phases, base).has = {"commit"} \cup {"endpoint", "compile"}
  <2>1. base \in 0..SeqLimit
    BY <1>2, Records, LaneAssumption
  <2> QED
    BY <1>2, <2>1 DEF BatchRecord, Kinds, Fences
<1> HIDE DEF with
<1>5. ASSUME NEW kinds \in SUBSET {"endpoint", "compile"}, live' = live \cup Of(w, kinds),
             NEW x, x.work = w, x.has = r.has \cup kinds, OutcomeStale(b, x)
      PROVE  OwnInv'
  <2> DEFINE made == Of(w, kinds)
  <2>1. Compiled(made) /\ made \cap live = {} /\ \A o \in made : o[2] = w
    BY <1>1, NewEndpoint
  <2>2. Of(x.work, x.has) = Owned(b) \cup made
    BY <1>2, <1>5 DEF Of
  <2>3. live' = live \cup made
    BY <1>5
  <2> HIDE DEF made
  <2> QED
    BY <1>1, <1>5, <2>1, <2>2, <2>3, StaleOwns
<1>6. ASSUME NEW phases \in 0..PhaseLimit, NEW base \in 0..(w.seq - 1),
             live' = live \cup Of(w, {"endpoint", "compile"}),
             IF IsCurrent(w)
             THEN /\ batch' = [batch EXCEPT ![b] = [came(phases, base) EXCEPT !.st = "checking"]]
                  /\ WorkerTo("poll", b)
                  /\ UNCHANGED <<fifo, blocked, workBatch>>
             ELSE OutcomeStale(b, came(phases, base))
      PROVE  OwnInv'
  <2> DEFINE e == came(phases, base)
             new == [e EXCEPT !.st = "checking"]
  <2>1. e \in BatchRecord /\ e.work = w /\ e.has = {"commit"} \cup {"endpoint", "compile"}
    BY <1>4
  <2>2. CASE ~IsCurrent(w)
    <3>1. OutcomeStale(b, e)
      BY <1>6, <2>2
    <3> HIDE DEF e
    <3>2. e.has = r.has \cup {"endpoint", "compile"}
      BY <1>2, <2>1
    <3>3. {"endpoint", "compile"} \in SUBSET {"endpoint", "compile"}
      OBVIOUS
    <3> QED
      BY <1>5, <1>6, <2>1, <3>1, <3>2, <3>3
  <2>3. CASE IsCurrent(w)
    <3> HIDE DEF e
    <3>1. new \in BatchRecord /\ new.st = "checking" /\ new.work = w
          /\ new.has = {"commit"} \cup {"endpoint", "compile"}
      BY <2>1 DEF BatchRecord, BatchStates
    <3>2. batch' = [batch EXCEPT ![b] = new] /\ WorkerTo("poll", b) /\ UNCHANGED <<fifo, blocked, workBatch>>
      BY <1>6, <2>3 DEF e
    <3> HIDE DEF new
    <3> QED
      BY <1>1, <1>6, <2>3, <3>1, <3>2, EndpointOwns
  <2> QED
    BY <2>2, <2>3
<1>7. ASSUME live' = live, OutcomeApplied(b, r) \/ OutcomeStale(b, r) \/ OutcomeWouldBlock(b, r)
      PROVE  OwnInv'
  <2>1. CASE OutcomeApplied(b, r)
    BY <1>1, <1>7, <2>1, AppliedOwns
  <2>2. CASE OutcomeStale(b, r)
    <3>1. {} \in SUBSET {"endpoint", "compile"} /\ live' = live \cup Of(w, {}) /\ r.has = r.has \cup {}
      BY <1>7, InOf
    <3> QED
      BY <1>5, <2>2, <3>1
  <2>3. CASE OutcomeWouldBlock(b, r)
    <3>1. /\ StillHead(w) /\ batch' = Detached(b) /\ WorkerTo("idle", 0) /\ fifo' = fifo
          /\ blocked' = blocked
      BY <2>3 DEF OutcomeWouldBlock, FreeWork
    <3>2. worker'.ret = {} /\ worker'.pc # "compile"
      BY <3>1, WorkerHolds
    <3> QED
      BY <1>1, <1>7, <3>1, <3>2, GivesBackOwns
  <2> QED
    BY <1>7, <2>1, <2>2, <2>3
<1>8. ASSUME NEW kinds \in SUBSET {"endpoint", "compile"}, live' = live \cup Of(w, kinds),
             OutcomeFailed(b, with(kinds)) \/ OutcomeStale(b, with(kinds))
      PROVE  OwnInv'
  <2>1. CASE OutcomeFailed(b, with(kinds))
    BY <1>1, <1>3, <1>8, <2>1, FailedOwns
  <2>2. CASE OutcomeStale(b, with(kinds))
    BY <1>3, <1>5, <1>8, <2>2
  <2> QED
    BY <1>8, <2>1, <2>2
<1>9. \/ \E phases \in 0..PhaseLimit, base \in 0..(w.seq - 1) :
            /\ live' = live \cup Of(w, {"endpoint", "compile"})
            /\ IF IsCurrent(w)
               THEN /\ batch' = [batch EXCEPT ![b] = [came(phases, base) EXCEPT !.st = "checking"]]
                    /\ WorkerTo("poll", b)
                    /\ UNCHANGED <<fifo, blocked, workBatch>>
               ELSE OutcomeStale(b, came(phases, base))
      \/ live' = live /\ (OutcomeApplied(b, r) \/ OutcomeStale(b, r))
      \/ live' = live /\ (OutcomeWouldBlock(b, r) \/ OutcomeStale(b, r))
      \/ \E kinds \in SUBSET {"endpoint", "compile"} :
            /\ live' = live \cup Of(w, kinds)
            /\ OutcomeFailed(b, with(kinds)) \/ OutcomeStale(b, with(kinds))
  BY Zenon DEF CompileReturns, with
<1> HIDE DEF came
<1> QED
  BY <1>6, <1>7, <1>8, <1>9

LEMMA ReadyOwns ==
  ASSUME LaneInv, OwnInv, worker.pc = "poll",
         UNCHANGED <<epoch, seq, scene, draft, presenter, deferred, live>>,
         NEW b \in Batches, b = worker.slot, OutcomeReady(b, batch[b])
  PROVE  OwnInv'
<1> DEFINE w == batch[b].work
<1> PICK new : new = [batch[b] EXCEPT !.st = "finalizing", !.has = {"endpoint"}]
  OBVIOUS
<1>1. /\ StillHead(w) /\ fifo' = Tail(fifo) /\ batch' = [batch EXCEPT ![b] = new]
      /\ blocked' = blocked /\ WorkerCleans(Of(w, batch[b].has \ {"endpoint"}), b, "pend")
  BY DEF OutcomeReady
<1>2. workBatch = b /\ batch[b].has = WorkerKinds /\ batch[b] \in BatchRecord
  BY WorkerBatch, WorkerCargo
<1>3. new.st = "finalizing" /\ new.has = {"endpoint"} /\ new.work = w
  BY <1>2 DEF BatchRecord
<1>4. /\ worker'.ret = Of(w, batch[b].has \ {"endpoint"}) /\ (worker'.pc # "clean" => worker'.ret = {})
      /\ worker'.pc # "compile" /\ ~Going("failed")'
  BY <1>1, WorkerTakes
<1>5. acked' = acked + 1 /\ w.seq = acked + 1 /\ acked \in Nat
  <2>1. fifo # <<>>
    BY <1>1 DEF StillHead
  <2> QED
    BY <1>1, <2>1, FifoTail, HeadIsNext
<1>6. Compiled({}) /\ live' = live \cup {}
  BY DEF Compiled
<1>7. CompiledOnce'
  <2>1. \A v : InCheck(v) => v.seq <= acked'
    BY <1>2, <1>5 DEF InCheck
  <2> QED
    BY <1>1, <1>4, <1>5, <1>6, <2>1, CompiledLater
<1>8. new.has = Cargo(new.st)'
  BY <1>3, <1>4 DEF Cargo
<1>9. worker'.ret = Of(w, batch[b].has \ new.has) /\ new.has \subseteq batch[b].has
  BY <1>2, <1>3, <1>4 DEF WorkerKinds
<1> HIDE DEF Cargo
<1> QED
  BY <1>1, <1>3, <1>4, <1>7, <1>8, <1>9, PopOwns

LEMMA PendingOwns ==
  ASSUME LaneInv, OwnInv, worker.pc = "poll",
         UNCHANGED <<epoch, seq, draft, presenter, deferred, live>>,
         NEW b \in Batches, b = worker.slot, OutcomePending(b, batch[b])
  PROVE  OwnInv'
<1> DEFINE w == batch[b].work
<1> PICK new : new = [batch[b] EXCEPT !.st = "waiting"]
  OBVIOUS
<1>1. /\ StillHead(w) /\ fifo' = fifo /\ batch' = [batch EXCEPT ![b] = new]
      /\ blocked' = blocked /\ WorkerTo("idle", 0) /\ workBatch' = workBatch
  BY DEF OutcomePending
<1>2. workBatch = b /\ batch[b].has = WorkerKinds /\ batch[b] \in BatchRecord /\ batch[b].st = "checking"
      /\ batch \in [Batches -> BatchRecord]
  BY WorkerBatch, WorkerCargo
<1>3. new.st = "waiting" /\ new.has = batch[b].has /\ new.work = w
  BY <1>2 DEF BatchRecord
<1>4. worker'.ret = {} /\ worker'.pc = "idle"
  BY <1>1, WorkerHolds
<1>5. Compiled({}) /\ {} \cap live = {} /\ live' = live \cup {} /\ {} = Of(w, {})
  BY InOf DEF Compiled
<1>6. batch'[b] = new
  BY <1>1, <1>2
<1>7. CompiledOnce'
  <2>1. acked' = acked
    BY <1>1 DEF acked
  <2>2. \A v : InCheck(v) => InCheck(v)'
    BY <1>1, <1>2, <1>3, <1>6 DEF InCheck, Here
  <2> QED
    BY <1>1, <1>4, <1>5, <2>1, <2>2, CompiledLater
<1>8. new.has = Cargo(new.st)'
  BY <1>2, <1>3 DEF Cargo, WorkerKinds
<1>9. worker'.ret = Of(w, (batch[b].has \cup {}) \ (new.has \cup {"commit"}))
  <2>1. (batch[b].has \cup {}) \ (new.has \cup {"commit"}) = {}
    BY <1>3
  <2> QED
    BY <1>4, <2>1, InOf
<1>10. {} \in SUBSET {"endpoint", "compile"} /\ new.has \subseteq batch[b].has \cup {}
  BY <1>3
<1> HIDE DEF Cargo
<1> QED
  BY <1>1, <1>3, <1>4, <1>5, <1>7, <1>8, <1>9, <1>10, HeadOwns

LEMMA FenceReturnsOwns == ASSUME LaneInv, OwnInv, FenceReturns PROVE OwnInv'
<1> PICK b \in Batches : b = worker.slot
  BY WorkerBatch DEF FenceReturns
<1>1. worker.pc = "poll" /\ UNCHANGED <<epoch, seq, scene, draft, presenter, deferred, live>>
  BY DEF FenceReturns, outcomeKeeps, retirements
<1>2. batch[b] \in BatchRecord /\ Owned(b) = Of(batch[b].work, batch[b].has)
  BY <1>1, WorkerBatch, WorkerCargo
<1>3. Compiled({}) /\ {} \cap live = {} /\ live' = live \cup {} /\ {} = Of(batch[b].work, {})
  BY <1>1, InOf DEF Compiled
<1>4. CASE OutcomeStale(b, batch[b])
  <2>1. Of(batch[b].work, batch[b].has) = Owned(b) \cup {}
    BY <1>2
  <2> QED
    BY <1>1, <1>3, <1>4, <2>1, StaleOwns
<1>5. CASE OutcomeFailed(b, batch[b])
  <2>1. {} \in SUBSET {"endpoint", "compile"} /\ live' = live \cup Of(batch[b].work, {})
        /\ batch[b].has = batch[b].has \cup {}
    BY <1>3
  <2> QED
    BY <1>1, <1>2, <1>5, <2>1, FailedOwns
<1> QED
  BY <1>1, <1>4, <1>5, ReadyOwns, PendingOwns DEF FenceReturns

LEMMA WorkerPollOwns == ASSUME LaneInv, OwnInv, WorkerPoll PROVE OwnInv'
<1> PICK b \in Batches : b = workBatch
  BY DEF WorkerPoll, LaneInv, Shaped
<1> PICK new : new = [batch[b] EXCEPT !.st = "checking"]
  OBVIOUS
<1>1. /\ worker.pc = "idle" /\ batch' = [batch EXCEPT ![b] = new] /\ WorkerTo("poll", b)
      /\ UNCHANGED <<epoch, seq, blocked, draft, fifo, workBatch, presenter, deferred, live>>
  BY DEF WorkerPoll, WorkerMayStart, timeline, handles, retirements
<1>2. /\ batch[b].st = "waiting" /\ batch[b] \in BatchRecord /\ batch[b].has = WorkerKinds
      /\ worker.ret = {} /\ batch \in [Batches -> BatchRecord]
  <2>1. b # 0
    BY LaneAssumption DEF Batches
  <2>2. batch[b].st = "waiting"
    BY <1>1, <2>1 DEF LaneInv, WorkerPlaced, Going
  <2> QED
    BY <1>1, <2>2 DEF OwnInv, Recorded, Carried, Cargo, WorkerKinds, LaneInv, Shaped
<1>3. new.st = "checking" /\ new.has = batch[b].has /\ new.work = batch[b].work
  BY <1>2 DEF BatchRecord
<1>4. worker'.ret = {} /\ worker'.pc = "poll"
  BY <1>1, WorkerHolds
<1>5. batch'[b] = new
  BY <1>1, <1>2
<1>6. Compiled({}) /\ {} \cap live = {} /\ live' = live \cup {}
  BY <1>1 DEF Compiled
<1>7. CompiledOnce'
  <2>1. acked' = acked
    BY <1>1 DEF acked
  <2>2. \A v : InCheck(v) => InCheck(v)'
    BY <1>1, <1>2, <1>3, <1>5 DEF InCheck, Here
  <2> QED
    BY <1>1, <1>4, <1>6, <2>1, <2>2, CompiledLater
<1>8. new.has = Cargo(new.st)'
  BY <1>2, <1>3 DEF Cargo, WorkerKinds
<1>9. Of(new.work, new.has) = Owned(b) /\ Sources' = Sources
  BY <1>1, <1>3 DEF Owned, Sources
<1> HIDE DEF Cargo
<1>10. /\ (Of(new.work, new.has) \ Sources') \cup worker'.ret = (Owned(b) \ Sources') \cup {}
       /\ (Of(new.work, new.has) \ Sources') \cap worker'.ret = {}
       /\ Of(new.work, new.has) \cap (InBatches \ Owned(b)) = {}
       /\ Sources' \subseteq Sources /\ Sources \ Sources' \subseteq Owned(b)
       /\ \A o \in worker'.ret : o[1] # "completion"
  BY <1>4, <1>9
<1> QED
  BY <1>1, <1>2, <1>4, <1>6, <1>7, <1>8, <1>10, OneWorkMoves

LEMMA WorkerStartOwns == ASSUME LaneInv, OwnInv, WorkerStart PROVE OwnInv'
<1> DEFINE free == InState({"free"})
           first == CHOOSE c \in free : \A o \in free : c <= o
           w == Head(fifo)
<1>1. free \in SUBSET Batches /\ free # {}
  BY DEF InState, WorkerStart
<1>2. first \in free
  BY <1>1, FirstBatch
<1> HIDE DEF first
<1> PICK b \in Batches : b = first
  BY <1>1, <1>2
<1> PICK new : new = [FreeBatch EXCEPT !.st = "compiling", !.work = w, !.has = {"commit"}]
  OBVIOUS
<1>3. /\ worker.pc = "idle" /\ ~blocked /\ workBatch = 0 /\ fifo # <<>>
      /\ batch' = [batch EXCEPT ![b] = new] /\ workBatch' = b /\ WorkerTo("compile", b)
      /\ UNCHANGED <<epoch, seq, blocked, draft, fifo, presenter, deferred, live>>
  BY DEF WorkerStart, WorkerMayStart, timeline, retirements, first
<1>4. /\ w \in Works /\ IsCurrent(w) /\ w.seq = acked + 1 /\ acked \in Nat
      /\ fifo \in Seq(Works) /\ batch \in [Batches -> BatchRecord]
  BY <1>3, FifoHead DEF LaneInv, Shaped
<1>5. batch[b].st = "free" /\ b # 0
  BY <1>2, LaneAssumption DEF InState, Batches
<1> HIDE DEF free
<1>6. new.st = "compiling" /\ new.has = {"commit"} /\ new.work = w
  BY DEF FreeBatch
<1>7. worker'.ret = {} /\ worker'.pc = "compile" /\ worker'.slot = b /\ ~Going("failed")'
  BY <1>3, WorkerHolds
<1>8. batch'[b] = new
  BY <1>3, <1>4
<1>9. Owned(b) = {} /\ worker.ret = {}
  <2>1. batch[b].has = {}
    BY <1>5 DEF OwnInv, Carried, Cargo
  <2> QED
    BY <1>3, <2>1, InOf DEF Owned, OwnInv, Recorded
<1>10. Sources \cap InBatches = {} /\ Sources' = Sources
  BY <1>3, SourcesShared DEF AtWorkOwned, Sources
<1>11. Of(new.work, new.has) \subseteq Sources
  <2>1. 1 \in DOMAIN fifo /\ fifo[1] = w
    BY <1>3, <1>4
  <2>2. <<"commit", w>> \in Sources
    BY <2>1 DEF Sources
  <2> QED
    BY <1>6, <2>2 DEF Of
<1>12. Compiled({}) /\ {} \cap live = {} /\ live' = live \cup {}
  BY <1>3 DEF Compiled
<1>13. CompiledOnce'
  <2>1. acked' = acked /\ blocked' = blocked /\ epoch' = epoch /\ live' = live
    BY <1>3 DEF acked
  <2>2. \A v : ~InCheck(v)
    BY <1>3 DEF InCheck
  <2>3. \A o \in live : o[1] # "commit" /\ o[2].epoch = epoch => o[2].seq <= acked
    BY <1>3, <2>2 DEF OwnInv, CompiledOnce
  <2>4. \A o \in live : o[2] = w => o[1] = "commit"
    BY <1>4, <2>3 DEF IsCurrent
  <2>5. batch'[worker'.slot].work = w
    BY <1>6, <1>7, <1>8
  <2> HIDE DEF w
  <2> QED
    BY <2>1, <2>3, <2>4, <2>5 DEF CompiledOnce
<1>14. new.has = Cargo(new.st)'
  BY <1>6 DEF Cargo
<1> HIDE DEF Cargo
<1>15. /\ (Of(new.work, new.has) \ Sources') \cup worker'.ret = (Owned(b) \ Sources') \cup {}
       /\ (Of(new.work, new.has) \ Sources') \cap worker'.ret = {}
       /\ Of(new.work, new.has) \cap (InBatches \ Owned(b)) = {}
       /\ Sources' \subseteq Sources /\ Sources \ Sources' \subseteq Owned(b)
       /\ \A o \in worker'.ret : o[1] # "completion"
  BY <1>7, <1>9, <1>10, <1>11
<1> QED
  BY <1>3, <1>7, <1>9, <1>12, <1>13, <1>14, <1>15, OneWorkMoves

LEMMA WorkerFailedOwns == ASSUME LaneInv, OwnInv, WorkerFailed PROVE OwnInv'
<1> PICK b \in Batches : b = worker.slot
  BY WorkerBatch DEF WorkerFailed
<1>1. /\ worker.pc = "failed" /\ FreeWork(b)
      /\ WorkerCleans(IF StillHead(batch[b].work) THEN {} ELSE Owned(b), b, "idle")
      /\ UNCHANGED <<epoch, seq, blocked, draft, fifo, presenter, deferred, live>>
  BY DEF WorkerFailed, timeline, retirements
<1>2. CASE StillHead(batch[b].work)
  <2>1. WorkerCleans({}, b, "idle")
    BY <1>1, <1>2
  <2>2. worker'.ret = {} /\ worker'.pc # "compile"
    BY <2>1, WorkerTakes
  <2> QED
    BY <1>1, <1>2, <2>2, GivesBackOwns DEF FreeWork
<1>3. CASE ~StillHead(batch[b].work)
  <2>1. Compiled({}) /\ {} \cap live = {} /\ live' = live \cup {}
    BY <1>1 DEF Compiled
  <2>2. Owned(b) = Of(batch[b].work, batch[b].has)
    BY DEF Owned
  <2>3. WorkerCleans(Of(batch[b].work, batch[b].has), b, "idle")
    BY <1>1, <1>3, <2>2
  <2>4. OutcomeStale(b, batch[b])
    BY <1>1, <1>3, <2>3 DEF OutcomeStale
  <2>5. Of(batch[b].work, batch[b].has) = Owned(b) \cup {}
    BY <2>2
  <2> QED
    BY <1>1, <2>1, <2>4, <2>5, StaleOwns
<1> QED
  BY <1>2, <1>3

LEMMA Cleaned ==
  ASSUME NEW a, NEW b, NEW c, NEW d, NEW e, NEW all, NEW x,
         Parted(a, b, c, d, e, all), x \subseteq d
  PROVE  Parted(a, b, c, d \cap (all \ x), e, all \ x)
BY DEF Parted

LEMMA WorkerRetiresOwns == ASSUME LaneInv, OwnInv, WorkerRetires PROVE OwnInv'
<1> DEFINE left == worker.ret \cap live'
<1>1. /\ UNCHANGED <<epoch, seq, blocked, draft, fifo, batch, workBatch, presenter, deferred>>
      /\ worker.pc = "clean" /\ worker \in WorkerShape
  BY DEF WorkerRetires, RetireBackend, RetireCommit, timeline, handles, retirements, LaneInv, Shaped
<1> PICK x : x \subseteq worker.ret /\ live' = live \ x
  BY DEF WorkerRetires, RetireBackend, RetireCommit, Backend
<1>2. /\ worker'.ret = left /\ (worker'.pc # "clean" => worker'.ret = {})
      /\ worker'.pc # "compile" /\ (Going("failed")' <=> Going("failed"))
  <2>1. CASE left # {}
    <3>1. worker' = [worker EXCEPT !.ret = left]
      BY <2>1 DEF WorkerRetires
    <3> QED
      BY <1>1, <3>1 DEF WorkerShape, Going
  <2>2. CASE left = {} /\ worker.next = "idle"
    <3>1. worker' = IdleWorker
      BY <2>2 DEF WorkerRetires
    <3> QED
      BY <1>1, <2>2, <3>1 DEF IdleWorker, Going
  <2>3. CASE left = {} /\ worker.next # "idle"
    <3>1. worker' = [IdleWorker EXCEPT !.pc = worker.next, !.slot = worker.slot]
      BY <2>3 DEF WorkerRetires
    <3>2. worker.next \in {"failed", "pend"}
      BY <1>1, <2>3 DEF WorkerShape
    <3> QED
      BY <1>1, <2>3, <3>1, <3>2 DEF IdleWorker, Going
  <2> QED
    BY <2>1, <2>2, <2>3
<1>3. \A o \in live' : o \in live
  OBVIOUS
<1>4. Fresh' /\ Drafted' /\ InHand' = InHand
  BY <1>1, <1>3 DEF OwnInv, Fresh, Drafted, InHand
<1>5. InBatches' = InBatches /\ BatchesApart' /\ Sources' = Sources
  <2>1. \A c \in Batches : Owned(c)' = Owned(c)
    BY <1>1 DEF Owned
  <2> QED
    BY <1>1, <2>1, BatchesStay DEF OwnInv, Sources
<1>6. Carried'
  BY <1>1, <1>2 DEF OwnInv, Carried, Cargo
<1>7. CompiledOnce'
  <2>1. acked' = acked /\ \A v : InCheck(v)' <=> InCheck(v)
    BY <1>1 DEF acked, InCheck, Here
  <2> QED
    BY <1>1, <1>2, <1>3, <2>1 DEF OwnInv, CompiledOnce
<1>8. InDeferred' = InDeferred /\ DeferredApart'
  BY <1>1 DEF InDeferred, DeferredApart, OwnInv
<1>9. Held' = Held
  BY <1>5 DEF Held
<1>10. Whole'
  <2>1. left = worker.ret \cap (live \ x)
    OBVIOUS
  <2> HIDE DEF left
  <2>2. Parted(InHand, Held, InDeferred, left, presenter.ret, live \ x)
    BY <2>1, Cleaned DEF OwnInv, Whole
  <2> QED
    BY <1>1, <1>2, <1>4, <1>8, <1>9, <2>2 DEF Whole
<1>11. Recorded'
  BY <1>1, <1>2 DEF OwnInv, Recorded, Deferrable
<1> QED
  BY <1>4, <1>5, <1>6, <1>7, <1>8, <1>10, <1>11 DEF OwnInv

(* The records of a set of finished batches, in the order of their slots.    *)
LEMMA LoadsParts ==
  ASSUME LaneInv, OwnInv, NEW S \in SUBSET Batches, \A b \in S : batch[b].st = "pending",
         NEW rets, rets = [i \in DOMAIN Ascending(S) |-> Owned(Ascending(S)[i])]
  PROVE  /\ rets \in Seq(SUBSET Objects)
         /\ \A i, j \in DOMAIN rets : i # j => rets[i] \cap rets[j] = {}
         /\ UNION {rets[i] : i \in DOMAIN rets} = Loads(S)
         /\ \A i \in DOMAIN rets : Deferrable(rets[i]) /\ \E b \in S : rets[i] = Owned(b)
<1> DEFINE m == Cardinality(S)
           order == Ascending(S)
<1>1. S \in SUBSET Nat /\ IsFiniteSet(S)
  <2>1. Batches \in SUBSET Nat /\ IsFiniteSet(Batches)
    BY LaneAssumption, FS_Interval DEF Batches
  <2>2. IsFiniteSet(S)
    BY ONLY <2>1, S \in SUBSET Batches, FS_Subset
  <2> QED
    BY <2>1, <2>2
<1>2. /\ m \in Nat /\ order \in [1..m -> S]
      /\ \A x \in S : \E k \in 1..m : order[k] = x
      /\ \A k, l \in 1..m : order[k] = order[l] => k = l
  BY ONLY <1>1, Ascends
<1> HIDE DEF m
<1>3. rets = [i \in 1..m |-> Owned(order[i])]
  BY <1>2
<1> HIDE DEF order
<1>4. ASSUME NEW b \in S
      PROVE  Owned(b) \in SUBSET Objects /\ Deferrable(Owned(b))
  <2>1. batch[b].st \in ShownStates
    BY DEF ShownStates
  <2>2. /\ <<"endpoint", batch[b].work>> \in Owned(b) /\ Owned(b) \in SUBSET Objects
        /\ Owned(b) = Of(batch[b].work, batch[b].has) /\ batch[b].has = Cargo(batch[b].st)
    BY <2>1, ShownCargo
  <2>3. "completion" \notin batch[b].has
    BY <2>2 DEF Cargo
  <2>4. \A w : <<"completion", w>> \notin Owned(b)
    BY <2>2, <2>3, InOf
  <2> QED
    BY <2>2, <2>4 DEF Deferrable
<1>5. DOMAIN rets = 1..m /\ \A i \in 1..m : rets[i] = Owned(order[i]) /\ order[i] \in S
  BY <1>2, <1>3
<1>6. rets \in Seq(SUBSET Objects)
  BY <1>2, <1>3, <1>4, <1>5
<1>7. \A i, j \in DOMAIN rets : i # j => rets[i] \cap rets[j] = {}
  BY <1>2, <1>5 DEF OwnInv, BatchesApart
<1>8. UNION {rets[i] : i \in DOMAIN rets} = Loads(S)
  <2>1. ASSUME NEW o
        PROVE  (\E i \in DOMAIN rets : o \in rets[i]) <=> (\E b \in S : o \in Owned(b))
    BY <1>2, <1>5
  <2>2. \A o : o \in UNION {rets[i] : i \in DOMAIN rets} <=> \E i \in DOMAIN rets : o \in rets[i]
    OBVIOUS
  <2>3. \A o : o \in Loads(S) <=> \E b \in S : o \in Owned(b)
    BY DEF Loads
  <2> QED
    BY <2>1, <2>2, <2>3
<1> QED
  BY <1>4, <1>5, <1>6, <1>7, <1>8

(* An endpoint that becomes pending frees some that are already.             *)
LEMMA PendingGone ==
  ASSUME WorkerPend, NEW b, b = worker.slot, IsCurrent(batch[b].work)
  PROVE  \E gone \in SUBSET Batches :
           /\ \A c \in gone : batch[c].st = "pending"
           /\ batch' = [c \in Batches |->
                          IF c \in gone THEN FreeBatch
                          ELSE IF c = b THEN [batch[b] EXCEPT !.st = "pending"]
                          ELSE batch[c]]
           /\ Defer([i \in DOMAIN Ascending(gone) |-> Owned(Ascending(gone)[i])])
           /\ WorkerTo("idle", 0)
<1>1. PICK supersedes \in BOOLEAN :
        LET gone == IF supersedes THEN Superseded(b) ELSE {}
        IN /\ batch' = [c \in Batches |->
                          IF c \in gone THEN FreeBatch
                          ELSE IF c = b THEN [batch[b] EXCEPT !.st = "pending"]
                          ELSE batch[c]]
           /\ Defer([i \in DOMAIN Ascending(gone) |-> Owned(Ascending(gone)[i])])
           /\ WorkerTo("idle", 0)
  BY DEF WorkerPend
<1>2. Superseded(b) \in SUBSET Batches /\ \A c \in Superseded(b) : batch[c].st = "pending"
  BY DEF Superseded, InState
<1> HIDE DEF Superseded
<1>3. PICK gone : gone = IF supersedes THEN Superseded(b) ELSE {}
  OBVIOUS
<1>4. gone \in SUBSET Batches /\ \A c \in gone : batch[c].st = "pending"
  BY <1>2, <1>3
<1> QED
  BY <1>1, <1>3, <1>4

LEMMA WorkerPendOwns == ASSUME LaneInv, OwnInv, WorkerPend PROVE OwnInv'
<1> PICK b \in Batches : b = worker.slot /\ b = workBatch
  BY WorkerBatch DEF WorkerPend
<1>1. /\ worker.pc = "pend"
      /\ UNCHANGED <<epoch, seq, blocked, draft, fifo, presenter, live>>
  BY DEF WorkerPend, timeline
<1>2. /\ batch[b].st = "finalizing" /\ batch[b].has = {"endpoint"} /\ batch[b] \in BatchRecord
      /\ Owned(b) = Of(batch[b].work, batch[b].has) /\ worker.ret = {}
      /\ Owned(b) \subseteq InBatches /\ batch \in [Batches -> BatchRecord]
  BY <1>1, WorkerBatch, WorkerCargo
<1>3. \A o \in Owned(b) : o[1] = "endpoint" /\ o \notin Sources
  <2>1. \A o \in Owned(b) : o[1] = "endpoint"
    BY <1>2, InOf
  <2>2. \A o \in Sources : o[1] = "commit"
    BY DEF Sources
  <2> QED
    BY <2>1, <2>2
<1>4. Compiled({}) /\ {} \cap live = {} /\ live' = live \cup {}
  BY <1>1 DEF Compiled
<1>5. Sources' = Sources
  BY <1>1, SourcesStay
<1>6. worker'.pc # "compile" => CompiledOnce'
  <2>1. acked' = acked /\ \A v : ~InCheck(v)
    BY <1>1, <1>2 DEF acked, InCheck
  <2> QED
    BY <1>1, <1>4, <2>1, CompiledLater
<1>7. CASE ~IsCurrent(batch[b].work)
  <2>1. /\ batch' = [batch EXCEPT ![b] = FreeBatch] /\ deferred' = deferred
        /\ WorkerCleans(Owned(b), b, "idle")
    BY <1>7 DEF WorkerPend, retirements, Detached
  <2>2. worker'.ret = Owned(b) /\ (worker'.pc # "clean" => worker'.ret = {}) /\ worker'.pc # "compile"
    BY <2>1, WorkerTakes
  <2>3. FreeBatch.has = Cargo(FreeBatch.st)' /\ Of(FreeBatch.work, FreeBatch.has) = {}
    BY Records, InOf DEF Cargo
  <2>4. /\ (Of(FreeBatch.work, FreeBatch.has) \ Sources') \cup worker'.ret = (Owned(b) \ Sources') \cup {}
        /\ (Of(FreeBatch.work, FreeBatch.has) \ Sources') \cap worker'.ret = {}
        /\ Of(FreeBatch.work, FreeBatch.has) \cap (InBatches \ Owned(b)) = {}
        /\ Sources' \subseteq Sources /\ Sources \ Sources' \subseteq Owned(b)
        /\ \A o \in worker'.ret : o[1] # "completion"
    BY <1>3, <1>5, <2>2, <2>3
  <2> HIDE DEF Cargo
  <2> QED
    BY <1>1, <1>2, <1>4, <1>6, <2>1, <2>2, <2>3, <2>4, OneWorkMoves
<1>8. CASE IsCurrent(batch[b].work)
  <2> PICK gone \in SUBSET Batches :
        /\ \A c \in gone : batch[c].st = "pending"
        /\ batch' = [c \in Batches |->
                       IF c \in gone THEN FreeBatch
                       ELSE IF c = b THEN [batch[b] EXCEPT !.st = "pending"]
                       ELSE batch[c]]
        /\ Defer([i \in DOMAIN Ascending(gone) |-> Owned(Ascending(gone)[i])])
        /\ WorkerTo("idle", 0)
    BY <1>8, PendingGone
  <2> DEFINE X == Loads(gone)
  <2>1. worker'.ret = {} /\ worker'.pc = "idle" /\ ~Going("failed")'
    BY WorkerHolds
  <2>2. b \notin gone
    BY <1>2
  <2>3. /\ batch'[b].st = "pending" /\ batch'[b].has = {"endpoint"} /\ batch'[b].work = batch[b].work
        /\ \A c \in gone : batch'[c] = FreeBatch
        /\ \A c \in Batches : c # b /\ c \notin gone => batch'[c] = batch[c]
    BY <1>2, <2>2 DEF BatchRecord
  <2>4. PICK rets : rets = [i \in DOMAIN Ascending(gone) |-> Owned(Ascending(gone)[i])]
    OBVIOUS
  <2>5. /\ rets \in Seq(SUBSET Objects) /\ Defer(rets)
        /\ \A i, j \in DOMAIN rets : i # j => rets[i] \cap rets[j] = {}
        /\ X = UNION {rets[i] : i \in DOMAIN rets}
        /\ \A i \in DOMAIN rets : Deferrable(rets[i])
    BY <2>4, LoadsParts
  <2>6. \A c \in Batches : Owned(c)' = IF c \in gone THEN {} ELSE Owned(c)
    <3>1. Owned(b)' = Owned(b)
      BY <1>2, <2>3 DEF Owned
    <3>2. \A c \in gone : Owned(c)' = {}
      <4>1. Of(FreeBatch.work, FreeBatch.has) = {}
        BY Records, InOf
      <4> QED
        BY <2>3, <4>1 DEF Owned
    <3>3. \A c \in Batches : c # b /\ c \notin gone => Owned(c)' = Owned(c)
      BY <2>3 DEF Owned
    <3> QED
      BY <2>2, <3>1, <3>2, <3>3
  <2>7. InBatches' = InBatches \ X /\ BatchesApart'
    BY <2>6, BatchesFreed DEF OwnInv
  <2>8. X \cap Sources = {} /\ X \subseteq InBatches
    <3>1. ASSUME NEW c \in gone PROVE Owned(c) \cap Sources = {} /\ Owned(c) \subseteq InBatches
      <4>1. batch[c].st \in ShownStates
        BY DEF ShownStates
      <4> QED
        BY <4>1, ShownCargo
    <3> QED
      BY <3>1 DEF Loads
  <2> HIDE DEF X
  <2>9. Held' = Held \ X /\ X \subseteq Held
    BY <1>5, <2>7, <2>8 DEF Held
  <2>10. X \cap InDeferred = {}
    BY <2>9 DEF OwnInv, Whole, Parted
  <2>11. /\ deferred' \in Seq(SUBSET Objects)
         /\ InDeferred' = InDeferred \cup X /\ DeferredApart'
         /\ \A j \in DOMAIN deferred' :
                \/ \E i \in DOMAIN deferred : deferred'[j] = deferred[i]
                \/ \E i \in DOMAIN rets : deferred'[j] = rets[i] /\ rets[i] # {}
    <3>1. deferred \in Seq(SUBSET Objects) /\ DeferredApart
      BY DEF OwnInv, Recorded
    <3> QED
      BY ONLY <2>5, <2>10, <3>1, DefersApart
  <2>12. Recorded'
    <3>1. \A j \in DOMAIN deferred' : Deferrable(deferred'[j])
      BY <2>5, <2>11 DEF OwnInv, Recorded
    <3> QED
      BY <1>1, <2>1, <2>11, <3>1 DEF OwnInv, Recorded, Deferrable
  <2>13. Carried'
    <3>1. \A c \in Batches : c # b => batch[c].st # "finalizing"
      BY <1>1, LaneAssumption DEF LaneInv, WorkerPlaced, WorkStates, Batches
    <3>2. \A st : st # "finalizing" => Cargo(st)' = Cargo(st)
      BY DEF Cargo
    <3>3. Cargo("free") = {} /\ Cargo("pending") = {"endpoint"}
      BY DEF Cargo
    <3> HIDE DEF Cargo
    <3>4. \A c \in gone : batch'[c].has = {} /\ batch'[c].st = "free"
      BY <2>3, Records
    <3>5. \A c \in Batches : c # b /\ c \notin gone =>
            batch'[c].has = Cargo(batch[c].st) /\ batch'[c].st = batch[c].st
      BY <2>3 DEF OwnInv, Carried
    <3>6. ASSUME NEW c \in Batches, NEW s, s = batch'[c].st
          PROVE  batch'[c].has = Cargo(s)'
      <4>1. CASE c = b
        <5>1. s = "pending" /\ s # "finalizing" /\ batch'[c].has = Cargo(s)
          BY <2>3, <3>3, <3>6, <4>1
        <5> QED
          BY <3>2, <5>1
      <4>2. CASE c \in gone
        <5>1. s = "free" /\ s # "finalizing" /\ batch'[c].has = Cargo(s)
          BY <3>3, <3>4, <3>6, <4>2
        <5> QED
          BY <3>2, <5>1
      <4>3. CASE c # b /\ c \notin gone
        <5>1. s # "finalizing" /\ batch'[c].has = Cargo(s)
          BY <3>1, <3>5, <3>6, <4>3
        <5> QED
          BY <3>2, <5>1
      <4> QED
        BY <4>1, <4>2, <4>3
    <3> QED
      BY <3>6 DEF Carried
  <2>14. Fresh' /\ Drafted' /\ InHand' = InHand
    BY <1>1, <1>4, MadeIsFresh
  <2>15. Whole'
    <3>1. Parted(InHand, Held, InDeferred, worker.ret, presenter.ret, live)
      BY DEF OwnInv, Whole
    <3>2. Held = Held' \cup X /\ Held' \cap X = {}
      BY <2>9
    <3>3. Parted(InHand, Held', InDeferred \cup X, worker.ret, presenter.ret, live)
      BY ONLY <3>1, <3>2, Scraps
    <3> QED
      BY <1>1, <1>2, <2>1, <2>11, <2>14, <3>3 DEF Whole
  <2> QED
    BY <1>6, <2>1, <2>7, <2>11, <2>12, <2>13, <2>14, <2>15 DEF OwnInv
<1> QED
  BY <1>7, <1>8

LEMMA WorkerOwns == ASSUME LaneInv, OwnInv, Worker PROVE OwnInv'
BY WorkerStartOwns, WorkerPollOwns, CompileReturnsOwns, FenceReturnsOwns, WorkerRetiresOwns,
   WorkerFailedOwns, WorkerPendOwns DEF Worker

LEMMA OwnStutters == ASSUME LaneInv, OwnInv, UNCHANGED vars PROVE OwnInv'
<1>1. /\ UNCHANGED <<epoch, seq, blocked, draft, fifo, batch, workBatch, worker, presenter,
                     deferred, live>>
  BY DEF vars, timeline, handles, retirements
<1>2. InBatches' = InBatches /\ BatchesApart'
  <2>1. \A c \in Batches : Owned(c)' = Owned(c)
    BY <1>1 DEF Owned
  <2> QED
    BY <2>1, BatchesStay DEF OwnInv
<1>3. InDeferred' = InDeferred /\ DeferredApart' /\ Recorded'
  BY <1>1 DEF InDeferred, DeferredApart, OwnInv, Recorded, Deferrable
<1>4. Carried'
  <2>1. \A st : Cargo(st)' = Cargo(st)
    BY <1>1, CargoStays
  <2> QED
    BY <1>1, <2>1 DEF OwnInv, Carried
<1>5. CompiledOnce'
  <2>1. acked' = acked /\ \A w : InCheck(w)' <=> InCheck(w)
    BY <1>1 DEF acked, InCheck, Here
  <2> QED
    BY <1>1, <2>1 DEF OwnInv, CompiledOnce
<1>6. Drafted' /\ Fresh' /\ InHand' = InHand
  BY <1>1 DEF OwnInv, Drafted, Fresh, InHand
<1>7. Held' = Held
  BY <1>1, <1>2 DEF Held, Sources
<1>8. Whole'
  BY <1>1, <1>3, <1>6, <1>7 DEF OwnInv, Whole
<1> QED
  BY <1>2, <1>3, <1>4, <1>5, <1>6, <1>8 DEF OwnInv

LEMMA OwnInit == ASSUME Init PROVE OwnInv
<1>1. \A b \in Batches : batch[b] = FreeBatch
  BY DEF Init
<1>2. \A b \in Batches : Owned(b) = {}
  BY <1>1, Records, InOf DEF Owned
<1>3. InBatches = {} /\ BatchesApart
  BY <1>2 DEF InBatches, BatchesApart
<1>4. deferred = <<>> /\ fifo = <<>> /\ live = {} /\ draft.st = "none" /\ draft.work = NoWork
      /\ worker.pc = "idle" /\ worker.ret = {} /\ presenter.ret = {}
  BY DEF Init, IdleWorker, IdlePresenter
<1>5. Held = {} /\ InDeferred = {} /\ DeferredApart /\ InHand = {}
  BY <1>3, <1>4 DEF Held, Sources, InDeferred, DeferredApart, InHand
<1>6. Whole
  BY <1>4, <1>5 DEF Whole, Parted
<1>7. Carried
  BY <1>1, Records DEF Carried, Cargo
<1>8. Recorded /\ Drafted /\ Fresh /\ CompiledOnce
  BY <1>4 DEF Recorded, Drafted, Fresh, CompiledOnce
<1> QED
  BY <1>3, <1>5, <1>6, <1>7, <1>8 DEF OwnInv

(* Every endpoint, fence and source commit the lane has not given back       *)
(* belongs to one holder: the draft, the batches with the FIFO, the deferred *)
(* records of defer_retirement or the record a thread is cleaning up, and no *)
(* two batches and no two deferred records share one.                        *)
THEOREM LaneOwnership == Spec => []OwnInv
<1>1. Init => OwnInv
  BY OwnInit
<1>2. LaneInv /\ OwnInv /\ [Next]_vars => OwnInv'
  BY CollectorOwns, LifecycleOwns, WorkerOwns, PresenterOwns, OwnStutters DEF Next
<1> QED
  BY <1>1, <1>2, LaneInvariant, PTL DEF Spec

LEMMA NoneCounted == ASSUME NEW S, \A x \in S : FALSE PROVE Cardinality(S) = 0
<1>1. S = {}
  OBVIOUS
<1> QED
  BY ONLY <1>1, FS_EmptySet

LEMMA OneCounted ==
  ASSUME NEW S, NEW x \in S, \A y \in S : y = x PROVE Cardinality(S) = 1
<1>1. S = {x}
  OBVIOUS
<1>2. Cardinality({x}) = 1
  BY ONLY FS_Singleton, Zenon
<1> QED
  BY <1>1, <1>2

(* Nothing the lane holds is released twice or lost: an endpoint, a fence or *)
(* a source commit has one owner, whatever callback, outcome, invalidation   *)
(* or cleanup comes between.                                                 *)
THEOREM LaneOwnsOnce == Spec => []OwnedOnce
<1>1. ASSUME LaneInv, OwnInv PROVE OwnedOnce
  <2> SUFFICES ASSUME NEW o \in Objects
               PROVE  Cardinality({b \in Batches : o \in Owned(b)})
                        + Cardinality({i \in DOMAIN deferred : o \in deferred[i]})
                        + Cardinality({h \in DOMAIN Stakes : o \in Stakes[h]})
                      = IF o \in live THEN 1 ELSE 0
    BY DEF OwnedOnce
  <2> DEFINE A == {b \in Batches : o \in Owned(b)}
             B == {i \in DOMAIN deferred : o \in deferred[i]}
             C == {h \in DOMAIN Stakes : o \in Stakes[h]}
  <2>1. /\ DOMAIN Stakes = {"collector", "fifo", "worker", "presenter"}
        /\ Stakes["collector"] = InHand /\ Stakes["fifo"] = Sources \ InBatches
        /\ Stakes["worker"] = worker.ret /\ Stakes["presenter"] = presenter.ret
    <3>1. UNION {Of(fifo[i], {"commit"}) : i \in DOMAIN fifo} = Sources
      <4>1. \A i \in DOMAIN fifo : Of(fifo[i], {"commit"}) = {<<"commit", fifo[i]>>}
        BY DEF Of
      <4> QED
        BY <4>1 DEF Sources
    <3>2. InHand = IF draft.st = "none" THEN {} ELSE Of(draft.work, {"commit"})
      BY DEF InHand
    <3>3. Stakes = [collector |-> InHand, fifo |-> Sources \ InBatches, worker |-> worker.ret,
                    presenter |-> presenter.ret]
      <4>1. (UNION {Of(fifo[i], {"commit"}) : i \in DOMAIN fifo}) \ (UNION {Owned(b) : b \in Batches})
              = Sources \ InBatches
        BY <3>1 DEF InBatches
      <4> QED
        BY <3>2, <4>1, Zenon DEF Stakes
    <3> QED
      BY <3>3
  <2>2. Parted(InHand, Held, InDeferred, worker.ret, presenter.ret, live)
    BY <1>1 DEF OwnInv, Whole
  <2>3. (\E b \in A : TRUE) <=> o \in InBatches
    BY DEF InBatches
  <2>4. (\E i \in B : TRUE) <=> o \in InDeferred
    BY DEF InDeferred
  <2>5. \A b, c \in A : b = c
    BY <1>1 DEF OwnInv, BatchesApart
  <2>6. \A i, j \in B : i = j
    BY <1>1 DEF OwnInv, DeferredApart
  <2>7. \A h : h \in C <=> \/ h = "collector" /\ o \in InHand
                           \/ h = "fifo" /\ o \in Sources /\ o \notin InBatches
                           \/ h = "worker" /\ o \in worker.ret
                           \/ h = "presenter" /\ o \in presenter.ret
    BY <2>1
  <2>8. o \in Held <=> o \in Sources \/ o \in InBatches
    BY DEF Held
  <2> HIDE DEF A, B, C
  <2>9. CASE o \notin live
    <3>1. /\ o \notin InHand /\ o \notin Held /\ o \notin InDeferred
          /\ o \notin worker.ret /\ o \notin presenter.ret
      BY <2>2, <2>9 DEF Parted
    <3>2. Cardinality(A) = 0 /\ Cardinality(B) = 0 /\ Cardinality(C) = 0
      BY <2>3, <2>4, <2>7, <2>8, <3>1, NoneCounted
    <3> QED
      BY <2>9, <3>2 DEF A, B, C
  <2>10. CASE o \in live
    <3>1. \/ /\ o \in InHand /\ o \notin Held /\ o \notin InDeferred
             /\ o \notin worker.ret /\ o \notin presenter.ret
          \/ /\ o \notin InHand /\ o \in Held /\ o \notin InDeferred
             /\ o \notin worker.ret /\ o \notin presenter.ret
          \/ /\ o \notin InHand /\ o \notin Held /\ o \in InDeferred
             /\ o \notin worker.ret /\ o \notin presenter.ret
          \/ /\ o \notin InHand /\ o \notin Held /\ o \notin InDeferred
             /\ o \in worker.ret /\ o \notin presenter.ret
          \/ /\ o \notin InHand /\ o \notin Held /\ o \notin InDeferred
             /\ o \notin worker.ret /\ o \in presenter.ret
      BY <2>2, <2>10 DEF Parted
    <3>2. CASE o \in InBatches
      <4>1. Cardinality(A) = 1
        BY <2>3, <2>5, <3>2, OneCounted
      <4>2. Cardinality(B) = 0 /\ Cardinality(C) = 0
        BY <2>4, <2>7, <2>8, <3>1, <3>2, NoneCounted
      <4> QED
        BY <2>10, <4>1, <4>2 DEF A, B, C
    <3>3. CASE o \in InDeferred
      <4>1. Cardinality(B) = 1
        BY <2>4, <2>6, <3>3, OneCounted
      <4>2. Cardinality(A) = 0 /\ Cardinality(C) = 0
        BY <2>3, <2>7, <2>8, <3>1, <3>3, NoneCounted
      <4> QED
        BY <2>10, <4>1, <4>2 DEF A, B, C
    <3>4. CASE o \notin InBatches /\ o \notin InDeferred
      <4>1. Cardinality(A) = 0 /\ Cardinality(B) = 0
        BY <2>3, <2>4, <3>4, NoneCounted
      <4>2. \E h \in C : \A g \in C : g = h
        BY <2>7, <2>8, <3>1, <3>4
      <4>3. Cardinality(C) = 1
        BY <4>2, OneCounted
      <4> QED
        BY <2>10, <4>1, <4>3 DEF A, B, C
    <3> QED
      BY <3>2, <3>3, <3>4
  <2> QED
    BY <2>9, <2>10
<1> QED
  BY <1>1, LaneInvariant, LaneOwnership, PTL

----------------------------------------------------------------------------
(* The fences of compiled work.  At most one is alive; the count of compile  *)
(* retirements says whether an invalidated one waits for, or is in, its      *)
(* cleanup, and the commit goes with its fence.                              *)
Fenced(ret) == \E w \in Works : <<"compile", w>> \in ret
WithCommit(ret) == \A w \in Works : <<"compile", w>> \in ret => <<"commit", w>> \in ret
FenceCounted ==
  /\ deferredCompile \in {0, 1}
  /\ presenter.compile \in BOOLEAN /\ (presenter.compile => presenter.pc = "clean")
  /\ deferredCompile = 0 => ~presenter.compile /\ \A i \in DOMAIN deferred : ~Fenced(deferred[i])
  /\ presenter.compile => \A i \in DOMAIN deferred : ~Fenced(deferred[i])
  /\ \A i, j \in DOMAIN deferred : Fenced(deferred[i]) /\ Fenced(deferred[j]) => i = j
CompileStates == {"compiling", "checking", "waiting"}
CompileAlone ==
  /\ (\E b \in Batches : batch[b].st \in CompileStates) \/ Fenced(worker.ret) => deferredCompile = 0
  /\ Fenced(worker.ret) => \A b \in Batches : batch[b].st \notin CompileStates
Kept(w) == worker.pc = "clean" /\ worker.next = "failed" /\ batch[worker.slot].work = w
FencesCovered ==
  /\ \A i \in DOMAIN deferred :
       WithCommit(deferred[i]) /\ (IsCompileRetirement(deferred[i]) => Fenced(deferred[i]))
  /\ WithCommit(presenter.ret) /\ (Fenced(presenter.ret) => presenter.compile)
  /\ \A w \in Works : <<"compile", w>> \in worker.ret => <<"commit", w>> \in worker.ret \/ Kept(w)
FenceInv == FenceCounted /\ CompileAlone /\ FencesCovered

LEMMA FenceInit == ASSUME Init PROVE FenceInv
<1>1. /\ deferred = <<>> /\ deferredCompile = 0 /\ worker.ret = {} /\ presenter.ret = {}
      /\ presenter.compile = FALSE
  BY DEF Init, IdleWorker, IdlePresenter
<1>2. \A i : i \notin DOMAIN deferred
  BY <1>1
<1>3. FenceCounted
  BY <1>1, <1>2 DEF FenceCounted
<1>4. CompileAlone
  BY <1>1 DEF CompileAlone, Fenced
<1>5. FencesCovered
  BY <1>1, <1>2 DEF FencesCovered, Fenced, WithCommit
<1> QED
  BY <1>3, <1>4, <1>5 DEF FenceInv

LEMMA FencesStay ==
  ASSUME FenceInv, UNCHANGED <<deferred, deferredCompile, batch, worker, presenter>>
  PROVE  FenceInv'
<1>1. \A ret : (Fenced(ret)' <=> Fenced(ret)) /\ (WithCommit(ret)' <=> WithCommit(ret))
  BY DEF Fenced, WithCommit
<1>2. FenceCounted'
  BY DEF FenceInv, FenceCounted, Fenced
<1>3. CompileAlone'
  BY DEF FenceInv, CompileAlone, Fenced
<1>4. FencesCovered'
  BY DEF FenceInv, FencesCovered, Fenced, WithCommit, Kept, IsCompileRetirement, HasKind
<1> QED
  BY <1>2, <1>3, <1>4 DEF FenceInv

(* Where a compile fence is.                                                 *)
LEMMA FencePlace ==
  ASSUME LaneInv, OwnInv, NEW w, <<"compile", w>> \in live
  PROVE  \/ \E b \in Batches : /\ <<"compile", w>> \in Owned(b) /\ batch[b].st \in {"checking", "waiting"}
                               /\ <<"commit", w>> \in Owned(b)
         \/ <<"compile", w>> \in InDeferred
         \/ <<"compile", w>> \in worker.ret
         \/ <<"compile", w>> \in presenter.ret
<1> DEFINE o == <<"compile", w>>
<1>1. o[1] = "compile" /\ o \in live
  OBVIOUS
<1>2. o \notin InHand /\ o \notin Sources
  <2>1. \A p \in InHand \cup Sources : p[1] = "commit"
    BY InOf DEF InHand, Sources
  <2> QED
    BY <1>1, <2>1
<1> HIDE DEF o
<1>3. o \in InBatches \/ o \in InDeferred \/ o \in worker.ret \/ o \in presenter.ret
  BY <1>1, <1>2 DEF OwnInv, Whole, Parted, Held
<1>4. ASSUME NEW b \in Batches, o \in Owned(b)
      PROVE  batch[b].st \in {"checking", "waiting"} /\ <<"commit", w>> \in Owned(b)
  <2>1. "compile" \in batch[b].has /\ batch[b].work = w
    BY <1>4, InOf DEF Owned, o
  <2>2. batch[b].st \in {"checking", "waiting"} /\ "commit" \in batch[b].has
    BY <2>1 DEF OwnInv, Carried, Cargo
  <2> QED
    BY <2>1, <2>2, InOf DEF Owned
<1> QED
  BY <1>3, <1>4 DEF InBatches, o

(* A step of the presenter but a cleanup meets no compile fence.             *)
PresenterActs ==
  /\ PresenterFrame /\ UNCHANGED <<deferred, deferredCompile>>
  /\ presenter.pc # "clean" /\ presenter'.compile \in {presenter.compile, FALSE}
  /\ \A o \in live' : o \in live \/ o[1] = "completion"

LEMMA PresenterMeetsNone ==
  ASSUME LaneInv, OwnInv, OwnInv', FenceInv, PresenterActs
  PROVE  FenceInv'
<1>1. /\ UNCHANGED <<deferred, deferredCompile, worker>> /\ WorkLeftAlone
      /\ presenter.ret = {} /\ ~presenter.compile /\ presenter'.compile = FALSE
  BY PresenterClear DEF PresenterActs, PresenterFrame, FenceInv, FenceCounted
<1>2. ~Fenced(presenter'.ret)
  <2> SUFFICES ASSUME NEW w \in Works, <<"compile", w>> \in presenter'.ret PROVE FALSE
    BY DEF Fenced
  <2> DEFINE o == <<"compile", w>>
  <2>1. o \in presenter'.ret /\ o[1] = "compile"
    OBVIOUS
  <2> HIDE DEF o
  <2>2. Parted(InHand', Held', InDeferred', worker'.ret, presenter'.ret, live')
    BY DEF OwnInv, Whole
  <2>3. o \in live' /\ o \notin Held' /\ o \notin InDeferred' /\ o \notin worker'.ret
    BY <2>1, <2>2 DEF Parted
  <2>4. o \in live
    BY <2>1, <2>3 DEF PresenterActs
  <2>5. o \notin InDeferred /\ o \notin worker.ret
    BY <1>1, <2>3 DEF InDeferred
  <2>6. PICK b \in Batches : o \in Owned(b) /\ batch[b].st \in {"checking", "waiting"}
    BY <1>1, <2>4, <2>5, FencePlace DEF o
  <2>7. batch'[b] = batch[b]
    BY <1>1, <2>6 DEF WorkLeftAlone, WorkStates
  <2>8. o \in Owned(b)'
    BY <2>6, <2>7 DEF Owned
  <2>9. o \in Held'
    BY <2>8 DEF Held, InBatches
  <2> QED
    BY <2>3, <2>9
<1>3. FenceCounted'
  BY <1>1 DEF FenceInv, FenceCounted, Fenced
<1>4. \A b \in Batches : batch'[b].st \in CompileStates => batch[b].st \in CompileStates
  BY <1>1 DEF WorkLeftAlone, CompileStates, WorkStates
<1>5. CompileAlone'
  BY <1>1, <1>4 DEF FenceInv, CompileAlone, Fenced
<1>6. WithCommit(presenter'.ret)
  BY <1>2 DEF Fenced, WithCommit
<1>7. \A w \in Works : Kept(w) => Kept(w)'
  <2> SUFFICES ASSUME NEW w \in Works, Kept(w) PROVE Kept(w)'
    OBVIOUS
  <2>1. worker.slot = workBatch /\ workBatch # 0 /\ batch[workBatch].st = "finalizing"
    BY DEF Kept, Going, LaneInv, WorkerPlaced
  <2>2. workBatch \in Batches
    BY <2>1 DEF LaneInv, Shaped
  <2>3. batch'[worker.slot] = batch[worker.slot]
    BY <1>1, <2>1, <2>2 DEF WorkLeftAlone, WorkStates
  <2> QED
    BY <1>1, <2>3 DEF Kept
<1>8. FencesCovered'
  BY <1>1, <1>2, <1>6, <1>7 DEF FenceInv, FencesCovered, Fenced, WithCommit, IsCompileRetirement, HasKind
<1> QED
  BY <1>3, <1>5, <1>8 DEF FenceInv

LEMMA CompileKept ==
  ASSUME LaneInv,
         \/ PresenterDone
         \/ \E pc : PresenterTo(pc)
         \/ \E ret, next : PresenterCleans(ret, next)
         \/ \E pc, b : presenter' = [presenter EXCEPT !.pc = pc, !.slot = b]
         \/ \E pc, b, kind : presenter' = [presenter EXCEPT !.pc = pc, !.slot = b, !.kind = kind]
         \/ \E pc, phase : presenter' = [presenter EXCEPT !.pc = pc, !.phase = phase]
         \/ \E kind : presenter' = [IdlePresenter EXCEPT !.pc = "drain", !.kind = kind]
  PROVE  presenter'.compile \in {presenter.compile, FALSE}
<1>1. presenter \in PresenterShape /\ IdlePresenter.compile = FALSE
  BY DEF LaneInv, Shaped, IdlePresenter
<1>2. CASE PresenterDone
  BY <1>1, <1>2 DEF PresenterDone
<1>3. CASE \E ret, next : PresenterCleans(ret, next)
  <2>1. \/ presenter' = IdlePresenter
        \/ \E pc : presenter' = [presenter EXCEPT !.pc = pc]
        \/ \E ret, next : presenter' = [presenter EXCEPT !.pc = "clean", !.ret = ret, !.next = next]
    BY <1>3 DEF PresenterCleans
  <2> QED
    BY <1>1, <2>1 DEF PresenterShape
<1>4. CASE \E pc : PresenterTo(pc)
  BY <1>1, <1>4 DEF PresenterTo, PresenterShape
<1>5. CASE \/ \E pc, b : presenter' = [presenter EXCEPT !.pc = pc, !.slot = b]
           \/ \E pc, b, kind : presenter' = [presenter EXCEPT !.pc = pc, !.slot = b, !.kind = kind]
           \/ \E pc, phase : presenter' = [presenter EXCEPT !.pc = pc, !.phase = phase]
  BY <1>1, <1>5 DEF PresenterShape
<1>6. CASE \E kind : presenter' = [IdlePresenter EXCEPT !.pc = "drain", !.kind = kind]
  BY <1>6 DEF IdlePresenter
<1> QED
  BY <1>2, <1>3, <1>4, <1>5, <1>6

LEMMA PresenterIsActing ==
  ASSUME LaneInv, OwnInv,
         \/ PresenterReap \/ PresenterReaped \/ PresenterChoose \/ PresenterSelect
         \/ PresenterCompose \/ PresenterAuthorize \/ PresenterSwapped
         \/ \E kind \in {"drain", "next", "hold"} : PresenterStart(kind)
  PROVE  PresenterActs
<1>1. PresenterFrame
  BY PresenterWaits, PresenterReapKeeps, PresenterReapedKeeps, PresenterChooseKeeps,
     PresenterSelectKeeps, PresenterComposeKeeps, PresenterAuthorizeKeeps, PresenterSwappedKeeps
     DEF PresenterKeeps
<1>2. UNCHANGED <<deferred, deferredCompile>> /\ presenter.pc # "clean"
  BY DEF PresenterReap, PresenterReaped, PresenterChoose, PresenterSelect, PresenterCompose,
     PresenterAuthorize, PresenterSwapped, PresenterStart, retirements
<1>3. CASE PresenterReap
  BY <1>1, <1>2, <1>3, CompileKept DEF PresenterActs, PresenterReap
<1>4. CASE PresenterReaped
  <2>1. (\E pc : PresenterTo(pc)) \/ (\E ret, next : PresenterCleans(ret, next))
    BY <1>4 DEF PresenterReaped
  <2>2. live' = live
    BY <1>4 DEF PresenterReaped
  <2> QED
    BY <1>1, <1>2, <2>1, <2>2, CompileKept DEF PresenterActs
<1>5. CASE PresenterChoose
  <2>1. PresenterDone \/ \E pc, b, kind : presenter' = [presenter EXCEPT !.pc = pc, !.slot = b, !.kind = kind]
    <3> DEFINE hold == presenter.kind = "hold" \/ Unfinished(OldestPending(batch))
               b == IF hold THEN retained ELSE OldestPending(batch)
               kind == IF hold THEN "hold" ELSE "next"
    <3>1. PresenterDone \/ presenter' = [presenter EXCEPT !.pc = "select", !.slot = b, !.kind = kind]
      BY <1>5 DEF PresenterChoose
    <3> HIDE DEF b, kind
    <3> QED
      BY <3>1
  <2>2. live' = live
    BY <1>5 DEF PresenterChoose
  <2> QED
    BY <1>1, <1>2, <2>1, <2>2, CompileKept DEF PresenterActs
<1>6. CASE PresenterSelect
  <2>1. \/ PresenterDone \/ \E ret, next : PresenterCleans(ret, next)
        \/ \E pc, phase : presenter' = [presenter EXCEPT !.pc = pc, !.phase = phase]
    BY <1>6 DEF PresenterSelect, PresenterStale
  <2>2. live' = live
    BY <1>6 DEF PresenterSelect
  <2> QED
    BY <1>1, <1>2, <2>1, <2>2, CompileKept DEF PresenterActs
<1>7. CASE PresenterCompose
  <2>1. (\E pc : PresenterTo(pc)) \/ (\E ret, next : PresenterCleans(ret, next))
    BY <1>7 DEF PresenterCompose, PresenterStale
  <2>2. \E fence \in BOOLEAN :
          live' = live \cup (IF fence THEN Of(batch[presenter.slot].work, {"completion"}) ELSE {})
    BY <1>7 DEF PresenterCompose
  <2>3. \A o \in live' : o \in live \/ o[1] = "completion"
    BY <2>2, InOf
  <2> QED
    BY <1>1, <1>2, <2>1, <2>3, CompileKept DEF PresenterActs
<1>8. CASE PresenterAuthorize
  <2>1. (\E pc : PresenterTo(pc)) \/ (\E ret, next : PresenterCleans(ret, next))
    BY <1>8 DEF PresenterAuthorize, PresenterStale
  <2>2. live' = live
    BY <1>8 DEF PresenterAuthorize
  <2> QED
    BY <1>1, <1>2, <2>1, <2>2, CompileKept DEF PresenterActs
<1>9. CASE PresenterSwapped
  <2>1. \E ret, next : PresenterCleans(ret, next)
    BY <1>9 DEF PresenterSwapped
  <2>2. live' = live
    BY <1>9 DEF PresenterSwapped
  <2> QED
    BY <1>1, <1>2, <2>1, <2>2, CompileKept DEF PresenterActs
<1>10. CASE \E kind \in {"drain", "next", "hold"} : PresenterStart(kind)
  <2>1. live' = live /\ \E kind : presenter' = [IdlePresenter EXCEPT !.pc = "drain", !.kind = kind]
    BY <1>10 DEF PresenterStart
  <2> QED
    BY <1>1, <1>2, <2>1, CompileKept DEF PresenterActs
<1> QED
  BY <1>3, <1>4, <1>5, <1>6, <1>7, <1>8, <1>9, <1>10

(* What a cleanup leaves of a record has no fence.                           *)
LEMMA NoneLeft ==
  ASSUME NEW thread, RetireBackend(thread) \/ RetireCommit(thread)
  PROVE  ~Fenced(thread.ret \cap live')
<1> SUFFICES ASSUME NEW w \in Works, <<"compile", w>> \in thread.ret, <<"compile", w>> \in live'
             PROVE  FALSE
  BY DEF Fenced
<1>1. <<"compile", w>> \in Backend(thread.ret)
  BY DEF Backend
<1> QED
  BY <1>1 DEF RetireBackend, RetireCommit

LEMMA PresenterDrainFences == ASSUME LaneInv, OwnInv, FenceInv, PresenterDrain PROVE FenceInv'
<1>1. UNCHANGED <<deferredCompile, batch, worker>> /\ presenter.pc = "drain" /\ presenter \in PresenterShape
  BY DEF PresenterDrain, LaneInv, Shaped
<1>2. presenter.ret = {} /\ ~presenter.compile
  BY <1>1, PresenterClear DEF FenceInv, FenceCounted
<1>3. CompileAlone'
  BY <1>1 DEF FenceInv, CompileAlone, Fenced
<1>4. \A w \in Works : Kept(w) => Kept(w)'
  BY <1>1 DEF Kept
<1>5. CASE deferred = <<>>
  <2>1. deferred' = deferred /\ (PresenterDone \/ \E pc : PresenterTo(pc))
    BY <1>5 DEF PresenterDrain
  <2>2. presenter'.ret = {}
    BY <1>1, <1>2, <2>1 DEF PresenterDone, PresenterTo, PresenterShape, IdlePresenter
  <2>3. presenter'.compile = FALSE
    <3>1. presenter'.compile \in {presenter.compile, FALSE}
      BY <2>1, CompileKept
    <3> QED
      BY <1>2, <3>1 DEF FenceInv, FenceCounted
  <2>4. FenceCounted'
    BY <1>1, <2>1, <2>3 DEF FenceInv, FenceCounted, Fenced
  <2>5. FencesCovered'
    BY <1>1, <1>4, <2>1, <2>2 DEF FenceInv, FencesCovered, Fenced, WithCommit, IsCompileRetirement, HasKind
  <2> QED
    BY <1>3, <2>4, <2>5 DEF FenceInv
<1>6. CASE deferred # <<>>
  <2> PICK h : h = Head(deferred)
    OBVIOUS
  <2> PICK compile : compile = IsCompileRetirement(h) /\ compile \in BOOLEAN
    BY DEF IsCompileRetirement
  <2>1. /\ deferred' = Tail(deferred)
        /\ presenter' = [presenter EXCEPT !.pc = "clean", !.next = "drain", !.ret = h, !.compile = compile]
    BY <1>6 DEF PresenterDrain
  <2>2. /\ 1 \in DOMAIN deferred /\ h = deferred[1]
        /\ \A i \in DOMAIN deferred' : i + 1 \in DOMAIN deferred /\ deferred'[i] = deferred[i + 1]
    BY <1>6, <2>1, DeferredPops DEF OwnInv, Recorded
  <2>3. \A i, j \in DOMAIN deferred' : i \in Nat \ {0} /\ (i + 1 = j + 1 => i = j) /\ i + 1 # 1
    <3>1. deferred' \in Seq(SUBSET Objects)
      BY <1>6, <2>1, DeferredPops DEF OwnInv, Recorded
    <3> QED
      BY <3>1
  <2>4. presenter'.ret = h /\ presenter'.pc = "clean" /\ presenter'.compile = compile
    BY <1>1, <2>1 DEF PresenterShape
  <2>5. WithCommit(h) /\ (compile <=> Fenced(h))
    <3>1. WithCommit(h) /\ (IsCompileRetirement(h) => Fenced(h))
      BY <2>2 DEF FenceInv, FencesCovered
    <3>2. Fenced(h) => IsCompileRetirement(h)
      BY <3>1 DEF Fenced, WithCommit, IsCompileRetirement, HasKind, Fences
    <3> QED
      BY <3>1, <3>2
  <2>6. \A i \in DOMAIN deferred' : ~(Fenced(deferred[i + 1]) /\ compile)
    BY <2>2, <2>3, <2>5 DEF FenceInv, FenceCounted
  <2>7. FenceCounted'
    <3>1. deferredCompile = 0 => ~compile /\ \A i \in DOMAIN deferred' : ~Fenced(deferred[i + 1])
      BY <2>2, <2>5 DEF FenceInv, FenceCounted
    <3>2. \A i, j \in DOMAIN deferred' : Fenced(deferred[i + 1]) /\ Fenced(deferred[j + 1]) => i = j
      BY <2>2, <2>3 DEF FenceInv, FenceCounted
    <3> QED
      BY <1>1, <2>2, <2>4, <2>6, <3>1, <3>2 DEF FenceInv, FenceCounted, Fenced
  <2>8. FencesCovered'
    <3>1. \A i \in DOMAIN deferred' : WithCommit(deferred[i + 1])
                                      /\ (IsCompileRetirement(deferred[i + 1]) => Fenced(deferred[i + 1]))
      BY <2>2 DEF FenceInv, FencesCovered
    <3>2. \A w \in Works : <<"compile", w>> \in worker.ret => <<"commit", w>> \in worker.ret \/ Kept(w)'
      BY <1>4 DEF FenceInv, FencesCovered
    <3> QED
      BY <1>1, <2>2, <2>4, <2>5, <3>1, <3>2
         DEF FencesCovered, Fenced, WithCommit, IsCompileRetirement, HasKind
  <2> QED
    BY <1>3, <2>7, <2>8 DEF FenceInv
<1> QED
  BY <1>5, <1>6

LEMMA PresenterRetiresFences == ASSUME LaneInv, OwnInv, FenceInv, PresenterRetires PROVE FenceInv'
<1> PICK left : left = presenter.ret \cap live'
  OBVIOUS
<1>1. UNCHANGED <<deferred, batch, worker>> /\ presenter.pc = "clean" /\ presenter \in PresenterShape
  BY DEF PresenterRetires, RetireBackend, RetireCommit, LaneInv, Shaped
<1>2. ~Fenced(left)
  BY NoneLeft DEF PresenterRetires
<1>3. presenter'.ret = left /\ WithCommit(left)
  <2>1. CASE left # {}
    <3>1. presenter' = [presenter EXCEPT !.ret = left]
      BY <2>1 DEF PresenterRetires
    <3> QED
      BY <1>1, <1>2, <3>1 DEF PresenterShape, Fenced, WithCommit
  <2>2. CASE left = {} /\ presenter.next = "idle"
    <3>1. presenter' = IdlePresenter
      BY <2>2 DEF PresenterRetires
    <3> QED
      BY <2>2, <3>1 DEF IdlePresenter, WithCommit
  <2>3. CASE left = {} /\ presenter.next # "idle"
    <3>1. presenter' = [presenter EXCEPT !.pc = presenter.next, !.ret = {}, !.compile = FALSE]
      BY <2>3 DEF PresenterRetires
    <3> QED
      BY <1>1, <2>3, <3>1 DEF PresenterShape, WithCommit
  <2> QED
    BY <2>1, <2>2, <2>3
<1>4. /\ left # {} => presenter'.compile = presenter.compile /\ presenter'.pc = "clean"
                      /\ deferredCompile' = deferredCompile
      /\ left = {} => presenter'.compile = FALSE
      /\ left = {} /\ presenter.compile => deferredCompile' = deferredCompile - 1
      /\ left = {} /\ ~presenter.compile => deferredCompile' = deferredCompile
  <2>1. deferredCompile' = deferredCompile - (IF left = {} /\ presenter.compile THEN 1 ELSE 0)
    BY DEF PresenterRetires, CompileCleanupOver
  <2>2. deferredCompile \in {0, 1} /\ deferredCompile - 0 = deferredCompile
    BY DEF FenceInv, FenceCounted
  <2>3. CASE left # {}
    <3>1. presenter' = [presenter EXCEPT !.ret = left]
      BY <2>3 DEF PresenterRetires
    <3> QED
      BY <1>1, <2>1, <2>2, <2>3, <3>1 DEF PresenterShape
  <2>4. CASE left = {} /\ presenter.next = "idle"
    <3>1. presenter' = IdlePresenter
      BY <2>4 DEF PresenterRetires
    <3> QED
      BY <2>1, <2>2, <2>4, <3>1 DEF IdlePresenter
  <2>5. CASE left = {} /\ presenter.next # "idle"
    <3>1. presenter' = [presenter EXCEPT !.pc = presenter.next, !.ret = {}, !.compile = FALSE]
      BY <2>5 DEF PresenterRetires
    <3> QED
      BY <1>1, <2>1, <2>2, <2>5, <3>1 DEF PresenterShape
  <2> QED
    BY <2>3, <2>4, <2>5
<1>5. deferredCompile' \in {0, 1} /\ (deferredCompile = 0 => deferredCompile' = 0)
  <2>1. deferredCompile \in {0, 1} /\ (presenter.compile => deferredCompile = 1)
    BY DEF FenceInv, FenceCounted
  <2>2. CASE left = {} /\ presenter.compile
    BY <1>4, <2>1, <2>2
  <2>3. CASE ~(left = {} /\ presenter.compile)
    BY <1>4, <2>1, <2>3
  <2> QED
    BY <2>2, <2>3
<1>6. FenceCounted'
  <2>1. deferredCompile' = 0 => ~presenter'.compile /\ \A i \in DOMAIN deferred : ~Fenced(deferred[i])
    BY <1>4, <1>5 DEF FenceInv, FenceCounted
  <2>2. presenter'.compile \in BOOLEAN /\ (presenter'.compile => presenter'.pc = "clean" /\ presenter.compile)
    BY <1>4 DEF FenceInv, FenceCounted
  <2> QED
    BY <1>1, <1>5, <2>1, <2>2 DEF FenceInv, FenceCounted, Fenced
<1>7. CompileAlone'
  BY <1>1, <1>5 DEF FenceInv, CompileAlone, Fenced
<1>8. FencesCovered'
  <2>1. \A w \in Works : Kept(w) => Kept(w)'
    BY <1>1 DEF Kept
  <2> QED
    BY <1>1, <1>2, <1>3, <2>1 DEF FenceInv, FencesCovered, Fenced, WithCommit, IsCompileRetirement, HasKind
<1> QED
  BY <1>6, <1>7, <1>8 DEF FenceInv

LEMMA PresenterFences ==
  ASSUME LaneInv, OwnInv, FenceInv,
         Presenter \/ \E kind \in {"drain", "next", "hold"} : PresenterStart(kind)
  PROVE  FenceInv'
BY PresenterDrainFences, PresenterRetiresFences, PresenterOwns, PresenterIsActing,
   PresenterMeetsNone DEF Presenter

LEMMA CollectorFences == ASSUME LaneInv, FenceInv, Collector PROVE FenceInv'
<1>1. UNCHANGED <<deferred, deferredCompile, batch, worker, presenter>>
  BY DEF Collector, DraftBegin, DraftSeal, DraftCancel, PublishRefused, DraftDrop,
     SourceQueuePublish, lane, retirements
<1> QED
  BY <1>1, FencesStay

(* A record with a fence is deferred alone, and only when no other is.       *)
LEMMA DefersFences ==
  ASSUME deferred \in Seq(SUBSET Objects), NEW rets \in Seq(SUBSET Objects), Defer(rets),
         FenceInv, UNCHANGED presenter,
         \A i \in DOMAIN rets : /\ WithCommit(rets[i])
                                /\ IsCompileRetirement(rets[i]) => Fenced(rets[i]),
         \A i, j \in DOMAIN rets : Fenced(rets[i]) /\ Fenced(rets[j]) => i = j,
         (\E i \in DOMAIN rets : Fenced(rets[i])) => deferredCompile = 0
  PROVE  /\ FenceCounted'
         /\ \A j \in DOMAIN deferred' :
              /\ WithCommit(deferred'[j])
              /\ IsCompileRetirement(deferred'[j]) => Fenced(deferred'[j])
         /\ (\A i \in DOMAIN rets : ~Fenced(rets[i])) => deferredCompile' = deferredCompile
<1> DEFINE C == {i \in DOMAIN rets : IsCompileRetirement(rets[i])}
<1>1. deferredCompile' = deferredCompile + Cardinality(C)
  BY DEF Defer
<1>2. \A i \in DOMAIN rets : i \in C <=> Fenced(rets[i])
  BY DEF Fenced, WithCommit, IsCompileRetirement, HasKind, Fences
<1>3. (\A i \in DOMAIN rets : ~Fenced(rets[i])) => Cardinality(C) = 0
  BY <1>2, NoneCounted
<1>4. (\E i \in DOMAIN rets : Fenced(rets[i])) => Cardinality(C) = 1
  <2> SUFFICES ASSUME NEW i \in DOMAIN rets, Fenced(rets[i]) PROVE Cardinality(C) = 1
    OBVIOUS
  <2>1. i \in C /\ \A j \in C : j = i
    BY <1>2
  <2> HIDE DEF C
  <2> QED
    BY <2>1, OneCounted
<1> HIDE DEF C
<1>5. /\ deferredCompile \in {0, 1}
      /\ (\A i \in DOMAIN rets : ~Fenced(rets[i])) => deferredCompile' = deferredCompile
      /\ (\E i \in DOMAIN rets : Fenced(rets[i])) => deferredCompile' = 1
  BY <1>1, <1>3, <1>4 DEF FenceInv, FenceCounted
<1>6. PICK g : Spreads(g, New, deferred', rets)
  BY Defers
<1>7. /\ \A j \in New : g[j] \in DOMAIN rets /\ deferred'[j] = rets[g[j]]
      /\ \A j, k \in New : g[j] = g[k] => j = k
  BY <1>6 DEF Spreads, Added
<1>8. /\ deferred' \in Seq(SUBSET Objects) /\ \A i \in DOMAIN deferred : deferred'[i] = deferred[i]
      /\ \A j : j \in DOMAIN deferred' <=> j \in DOMAIN deferred \/ j \in New
  <2>1. /\ deferred' \in Seq(SUBSET Objects) /\ \A i \in DOMAIN deferred : deferred'[i] = deferred[i]
        /\ Len(deferred') = Len(deferred) + Cardinality(Added(rets))
        /\ Cardinality(Added(rets)) \in Nat /\ Len(deferred) \in Nat
    BY Defers
  <2>2. DOMAIN deferred = 1..Len(deferred) /\ DOMAIN deferred' = 1..Len(deferred')
    BY <2>1
  <2> QED
    BY <2>1, <2>2 DEF New
<1> PICK later : later = deferred'
  OBVIOUS
<1>9. \A j \in DOMAIN later : /\ WithCommit(later[j])
                              /\ IsCompileRetirement(later[j]) => Fenced(later[j])
  BY <1>7, <1>8 DEF FenceInv, FencesCovered
<1>10. (\E i \in DOMAIN rets : Fenced(rets[i])) =>
          ~presenter.compile /\ \A i \in DOMAIN deferred : ~Fenced(deferred[i])
  BY DEF FenceInv, FenceCounted
<1>11. \A j \in DOMAIN later : Fenced(later[j]) =>
         \/ j \in DOMAIN deferred /\ Fenced(deferred[j]) /\ ~\E i \in DOMAIN rets : Fenced(rets[i])
         \/ j \in New /\ Fenced(rets[g[j]]) /\ \E i \in DOMAIN rets : Fenced(rets[i])
  BY <1>7, <1>8, <1>10
<1>12. \A j, k \in DOMAIN later : Fenced(later[j]) /\ Fenced(later[k]) => j = k
  BY <1>7, <1>11 DEF FenceInv, FenceCounted
<1>13. deferredCompile' = 0 => ~presenter.compile /\ \A j \in DOMAIN later : ~Fenced(later[j])
  BY <1>5, <1>11 DEF FenceInv, FenceCounted
<1>14. presenter.compile => \A j \in DOMAIN later : ~Fenced(later[j])
  BY <1>10, <1>11 DEF FenceInv, FenceCounted
<1>15. FenceCounted'
  BY <1>5, <1>12, <1>13, <1>14 DEF FenceInv, FenceCounted, Fenced
<1> QED
  BY <1>5, <1>9, <1>15

LEMMA WaitingIsWork ==
  ASSUME LaneInv, NEW b \in Batches, batch[b].st \in CompileStates
  PROVE  /\ b = workBatch /\ \A c \in Batches : batch[c].st \in CompileStates => c = b
         /\ worker.slot # b \/ ~Going("failed")
BY DEF LaneInv, WorkerPlaced, CompileStates, WorkStates

(* A batch that is not in a compile has no fence.                            *)
LEMMA FenceOwned ==
  ASSUME LaneInv, OwnInv, NEW b \in Batches
  PROVE  /\ WithCommit(Owned(b)) /\ (IsCompileRetirement(Owned(b)) => Fenced(Owned(b)))
         /\ Fenced(Owned(b)) => batch[b].st \in {"checking", "waiting"}
<1>1. \A w : <<"compile", w>> \in Owned(b) => batch[b].st \in {"checking", "waiting"} /\ batch[b].work = w
  BY InOf DEF OwnInv, Carried, Cargo, Owned
<1>2. batch[b].st \in {"checking", "waiting"} =>
        batch[b].has = {"commit", "endpoint", "compile"} /\ batch[b].work \in Works
  BY DEF OwnInv, Carried, Cargo, LaneInv, BatchesOccupied
<1>3. IsCompileRetirement(Owned(b)) => "commit" \in batch[b].has /\ \E k \in Fences : k \in batch[b].has
  BY InOf DEF IsCompileRetirement, HasKind, Owned
<1>4. IsCompileRetirement(Owned(b)) => batch[b].st \in {"checking", "waiting"}
  BY <1>3 DEF OwnInv, Carried, Cargo, Fences
<1>5. batch[b].st \in {"checking", "waiting"} => <<"compile", batch[b].work>> \in Owned(b)
                                                /\ <<"commit", batch[b].work>> \in Owned(b)
  BY <1>2, InOf DEF Owned
<1> QED
  BY <1>1, <1>2, <1>4, <1>5 DEF WithCommit, Fenced

LEMMA InvalidateFences == ASSUME LaneInv, OwnInv, FenceInv, LogicalInvalidate PROVE FenceInv'
<1>1. /\ batch' = [b \in Batches |-> IF b \in Detachable THEN FreeBatch ELSE batch[b]]
      /\ worker' = worker /\ presenter' = presenter
  BY DEF LogicalInvalidate
<1>2. Defer(Scrapped)
  BY DEF LogicalInvalidate, Scrapped, AtWorkOwned
<1>3. /\ Scrapped \in Seq(SUBSET Objects)
      /\ \A i, j \in DOMAIN Scrapped : i # j => Scrapped[i] \cap Scrapped[j] = {}
      /\ \A i \in DOMAIN Scrapped :
           Scrapped[i] \subseteq Sources \/ \E b \in Detachable : Scrapped[i] = Owned(b)
  BY ScrappedParts
<1>4. Detachable \in SUBSET Batches /\ \A b \in Detachable : batch[b].st \notin {"checking", "compiling", "finalizing"}
  BY DEF Detachable, InState
<1>5. ASSUME NEW i \in DOMAIN Scrapped
      PROVE  /\ WithCommit(Scrapped[i]) /\ (IsCompileRetirement(Scrapped[i]) => Fenced(Scrapped[i]))
             /\ Fenced(Scrapped[i]) =>
                  workBatch \in Detachable /\ Scrapped[i] = Owned(workBatch)
                  /\ batch[workBatch].st = "waiting"
  <2>1. CASE Scrapped[i] \subseteq Sources
    <3>1. \A o \in Scrapped[i] : o[1] = "commit"
      BY <2>1 DEF Sources
    <3> QED
      BY <3>1 DEF WithCommit, Fenced, IsCompileRetirement, HasKind, Fences
  <2>2. ASSUME NEW b \in Detachable, Scrapped[i] = Owned(b)
        PROVE  /\ WithCommit(Scrapped[i]) /\ (IsCompileRetirement(Scrapped[i]) => Fenced(Scrapped[i]))
               /\ Fenced(Scrapped[i]) =>
                    workBatch \in Detachable /\ Scrapped[i] = Owned(workBatch)
                    /\ batch[workBatch].st = "waiting"
    <3>1. b \in Batches
      BY <1>4
    <3>2. batch[b].st = "waiting" => b = workBatch
      BY <3>1, WaitingIsWork DEF CompileStates
    <3> QED
      BY <1>4, <2>2, <3>1, <3>2, FenceOwned
  <2> QED
    BY <1>3, <2>1, <2>2
<1>6. \A i, j \in DOMAIN Scrapped : Fenced(Scrapped[i]) /\ Fenced(Scrapped[j]) => i = j
  BY <1>3, <1>5 DEF Fenced
<1>7. (\E i \in DOMAIN Scrapped : Fenced(Scrapped[i])) =>
        /\ deferredCompile = 0 /\ ~Fenced(worker.ret)
        /\ \A b \in Batches : batch[b].st \in CompileStates => b \in Detachable
  <2> SUFFICES ASSUME NEW i \in DOMAIN Scrapped, Fenced(Scrapped[i])
               PROVE  /\ deferredCompile = 0 /\ ~Fenced(worker.ret)
                      /\ \A b \in Batches : batch[b].st \in CompileStates => b \in Detachable
    OBVIOUS
  <2>1. workBatch \in Batches /\ batch[workBatch].st \in CompileStates /\ workBatch \in Detachable
    BY <1>4, <1>5 DEF CompileStates
  <2> QED
    BY <2>1, WaitingIsWork DEF FenceInv, CompileAlone
<1>8. /\ FenceCounted'
      /\ \A j \in DOMAIN deferred' :
           /\ WithCommit(deferred'[j])
           /\ IsCompileRetirement(deferred'[j]) => Fenced(deferred'[j])
      /\ (\A i \in DOMAIN Scrapped : ~Fenced(Scrapped[i])) => deferredCompile' = deferredCompile
  <2>1. deferred \in Seq(SUBSET Objects)
    BY DEF OwnInv, Recorded
  <2> QED
    BY <1>1, <1>2, <1>3, <1>5, <1>6, <1>7, <2>1, DefersFences
<1>9. \A b \in Batches : batch'[b].st \in CompileStates => b \notin Detachable /\ batch[b].st \in CompileStates
  BY <1>1, Records DEF CompileStates
<1>10. CompileAlone'
  <2>1. (\E b \in Batches : batch'[b].st \in CompileStates) \/ Fenced(worker.ret) => deferredCompile' = 0
    BY <1>7, <1>8, <1>9 DEF FenceInv, CompileAlone
  <2>2. Fenced(worker.ret) => \A b \in Batches : batch'[b].st \notin CompileStates
    BY <1>9 DEF FenceInv, CompileAlone
  <2> QED
    BY <1>1, <2>1, <2>2 DEF CompileAlone, Fenced
<1>11. \A w \in Works : Kept(w) => Kept(w)'
  <2> SUFFICES ASSUME NEW w \in Works, Kept(w) PROVE Kept(w)'
    OBVIOUS
  <2>1. worker.slot \in Batches /\ batch[worker.slot].st = "finalizing"
    BY DEF Kept, Going, LaneInv, WorkerPlaced, Shaped
  <2>2. batch'[worker.slot] = batch[worker.slot]
    BY <1>1, <1>4, <2>1
  <2> QED
    BY <1>1, <2>2 DEF Kept
<1>12. FencesCovered'
  BY <1>1, <1>8, <1>11 DEF FenceInv, FencesCovered, Fenced, WithCommit, IsCompileRetirement, HasKind
<1> QED
  BY <1>8, <1>10, <1>12 DEF FenceInv

LEMMA LifecycleFences == ASSUME LaneInv, OwnInv, FenceInv, Lifecycle PROVE FenceInv'
<1>1. CASE ClaimOpen
  <2>1. UNCHANGED <<deferred, deferredCompile, batch, worker, presenter>>
    BY <1>1 DEF ClaimOpen, retirements
  <2> QED
    BY <2>1, FencesStay
<1> QED
  BY <1>1, InvalidateFences DEF Lifecycle, LifecycleClose, PresentationReset, TimelineInvalidate

LEMMA WorkerMeets ==
  ASSUME FenceInv, UNCHANGED <<deferred, deferredCompile, presenter>>,
         \A w \in Works : <<"compile", w>> \in worker'.ret => <<"commit", w>> \in worker'.ret \/ Kept(w)',
         (\E c \in Batches : batch'[c].st \in CompileStates) \/ Fenced(worker'.ret) => deferredCompile = 0,
         Fenced(worker'.ret) => \A c \in Batches : batch'[c].st \notin CompileStates
  PROVE  FenceInv'
<1>1. FenceCounted'
  BY DEF FenceInv, FenceCounted, Fenced
<1>2. CompileAlone'
  BY DEF CompileAlone, Fenced
<1>3. FencesCovered'
  BY DEF FenceInv, FencesCovered, Fenced, WithCommit, IsCompileRetirement, HasKind
<1> QED
  BY <1>1, <1>2, <1>3 DEF FenceInv

LEMMA OutcomeFences ==
  ASSUME LaneInv, OwnInv, FenceInv, worker.pc \in {"compile", "poll"},
         UNCHANGED <<deferred, deferredCompile, presenter>>,
         NEW b \in Batches, b = worker.slot, NEW r \in BatchRecord, r.work = batch[b].work,
         "commit" \in r.has,
         \/ OutcomeStale(b, r) \/ OutcomeFailed(b, r) \/ OutcomeWouldBlock(b, r)
         \/ OutcomePending(b, r) \/ (OutcomeApplied(b, r) /\ r.has = {"commit"})
         \/ OutcomeReady(b, r)
  PROVE  FenceInv'
<1> DEFINE w == r.work
<1>1. batch \in [Batches -> BatchRecord] /\ batch[b].st \in CompileStates
  BY WorkerBatch DEF CompileStates, LaneInv, Shaped
<1>2. deferredCompile = 0
  BY <1>1 DEF FenceInv, CompileAlone
<1>3. \A c \in Batches : c # b => batch[c].st \notin CompileStates
  BY <1>1, WaitingIsWork
<1>4. FreeBatch.st \notin CompileStates
  BY Records DEF CompileStates
<1>5. CASE worker'.ret = {}
  <2>1. ~Fenced(worker'.ret)
    BY <1>5 DEF Fenced
  <2> QED
    BY <1>2, <1>5, <2>1, WorkerMeets
<1>6. ASSUME NEW new, new.st \notin CompileStates, batch' = [batch EXCEPT ![b] = new],
             \A v \in Works : <<"compile", v>> \in worker'.ret => <<"commit", v>> \in worker'.ret \/ Kept(v)'
      PROVE  FenceInv'
  <2>1. \A c \in Batches : batch'[c].st \notin CompileStates
    BY <1>1, <1>3, <1>6
  <2> QED
    BY <1>2, <1>6, <2>1, WorkerMeets
<1>7. CASE OutcomeStale(b, r) \/ (OutcomeApplied(b, r) /\ r.has = {"commit"})
  <2>1. batch' = [batch EXCEPT ![b] = FreeBatch] /\ worker'.ret = Of(w, r.has)
    BY <1>7, WorkerTakes DEF OutcomeStale, OutcomeApplied, FreeWork, Detached
  <2>2. \A v \in Works : <<"compile", v>> \in worker'.ret => <<"commit", v>> \in worker'.ret
    BY <2>1, InOf
  <2> QED
    BY <1>4, <1>6, <2>1, <2>2
<1>8. CASE OutcomeFailed(b, r)
  <2> PICK new : new = [r EXCEPT !.st = "finalizing", !.has = {"commit"}]
    OBVIOUS
  <2>1. /\ batch' = [batch EXCEPT ![b] = new] /\ worker'.ret = Of(w, r.has \ {"commit"})
        /\ worker' = [pc |-> "clean", slot |-> b, ret |-> Of(w, r.has \ {"commit"}), next |-> "failed"]
    BY <1>8, WorkerTakes DEF OutcomeFailed, WorkerCleans
  <2>2. new.st = "finalizing" /\ new.work = w
    BY DEF BatchRecord
  <2>3. batch'[b].work = w
    BY <1>1, <2>1, <2>2
  <2>4. \A v \in Works : <<"compile", v>> \in worker'.ret => Kept(v)'
    BY <2>1, <2>3, InOf DEF Kept
  <2>5. new.st \notin CompileStates
    BY <2>2 DEF CompileStates
  <2> QED
    BY <1>6, <2>1, <2>4, <2>5
<1>9. CASE OutcomeReady(b, r)
  <2> PICK new : new = [r EXCEPT !.st = "finalizing", !.has = {"endpoint"}]
    OBVIOUS
  <2>1. batch' = [batch EXCEPT ![b] = new] /\ worker'.ret = Of(w, r.has \ {"endpoint"})
    BY <1>9, WorkerTakes DEF OutcomeReady
  <2>2. new.st = "finalizing"
    BY DEF BatchRecord
  <2>3. \A v \in Works : <<"compile", v>> \in worker'.ret => <<"commit", v>> \in worker'.ret
    BY <2>1, InOf
  <2>4. new.st \notin CompileStates
    BY <2>2 DEF CompileStates
  <2> QED
    BY <1>6, <2>1, <2>3, <2>4
<1>10. CASE OutcomeWouldBlock(b, r) \/ OutcomePending(b, r)
  <2>1. worker'.ret = {}
    BY <1>10, WorkerHolds DEF OutcomeWouldBlock, OutcomePending
  <2> QED
    BY <1>5, <2>1
<1> QED
  BY <1>7, <1>8, <1>9, <1>10

LEMMA CompileReturnsFences == ASSUME LaneInv, OwnInv, FenceInv, CompileReturns PROVE FenceInv'
<1> PICK b \in Batches : b = worker.slot /\ b = workBatch
  BY WorkerBatch DEF CompileReturns
<1> DEFINE r == batch[b]
           w == r.work
           with(kinds) == [r EXCEPT !.has = @ \cup kinds]
           came(phases, base) == [with({"endpoint", "compile"}) EXCEPT !.phases = phases, !.base = base]
<1>1. worker.pc = "compile" /\ UNCHANGED <<presenter, deferred, deferredCompile>>
  BY DEF CompileReturns, outcomeKeeps, retirements
<1>2. r \in BatchRecord /\ w \in Works /\ r.has = {"commit"}
  BY <1>1, WorkerBatch, WorkerCargo
<1>3. ASSUME NEW kinds \in SUBSET {"endpoint", "compile"}
      PROVE  with(kinds) \in BatchRecord /\ with(kinds).work = w /\ "commit" \in with(kinds).has
  BY <1>2 DEF BatchRecord, Kinds, Fences
<1>4. ASSUME NEW phases \in 0..PhaseLimit, NEW base \in 0..(w.seq - 1)
      PROVE  /\ came(phases, base) \in BatchRecord /\ came(phases, base).work = w
             /\ "commit" \in came(phases, base).has
  <2>1. base \in 0..SeqLimit
    BY <1>2, Records, LaneAssumption
  <2> QED
    BY <1>2, <2>1 DEF BatchRecord, Kinds, Fences
<1> HIDE DEF with
<1>5. ASSUME NEW phases \in 0..PhaseLimit, NEW base \in 0..(w.seq - 1),
             IF IsCurrent(w)
             THEN /\ batch' = [batch EXCEPT ![b] = [came(phases, base) EXCEPT !.st = "checking"]]
                  /\ WorkerTo("poll", b)
             ELSE OutcomeStale(b, came(phases, base))
      PROVE  FenceInv'
  <2>1. CASE ~IsCurrent(w)
    <3> PICK e : e = came(phases, base)
      OBVIOUS
    <3>1. OutcomeStale(b, e)
      BY <1>5, <2>1
    <3>2. e \in BatchRecord /\ e.work = w /\ "commit" \in e.has
      BY <1>4
    <3> HIDE DEF came
    <3> QED
      BY <1>1, <3>1, <3>2, OutcomeFences
  <2>2. CASE IsCurrent(w)
    <3>1. worker'.ret = {}
      BY <1>5, <2>2, WorkerHolds
    <3>2. ~Fenced(worker'.ret)
      BY <3>1 DEF Fenced
    <3>3. deferredCompile = 0
      BY <1>1, WorkerBatch DEF FenceInv, CompileAlone, CompileStates
    <3> QED
      BY <1>1, <3>1, <3>2, <3>3, WorkerMeets
  <2> QED
    BY <2>1, <2>2
<1>6. ASSUME NEW kinds \in SUBSET {"endpoint", "compile"},
             OutcomeFailed(b, with(kinds)) \/ OutcomeStale(b, with(kinds))
      PROVE  FenceInv'
  BY <1>1, <1>3, <1>6, OutcomeFences
<1>7. ASSUME OutcomeApplied(b, r) \/ OutcomeStale(b, r) \/ OutcomeWouldBlock(b, r) PROVE FenceInv'
  BY <1>1, <1>2, <1>7, OutcomeFences
<1>8. \/ \E phases \in 0..PhaseLimit, base \in 0..(w.seq - 1) :
            IF IsCurrent(w)
            THEN /\ batch' = [batch EXCEPT ![b] = [came(phases, base) EXCEPT !.st = "checking"]]
                 /\ WorkerTo("poll", b)
            ELSE OutcomeStale(b, came(phases, base))
      \/ OutcomeApplied(b, r) \/ OutcomeStale(b, r) \/ OutcomeWouldBlock(b, r)
      \/ \E kinds \in SUBSET {"endpoint", "compile"} :
            OutcomeFailed(b, with(kinds)) \/ OutcomeStale(b, with(kinds))
  BY Zenon DEF CompileReturns, with
<1> HIDE DEF came
<1> QED
  BY <1>5, <1>6, <1>7, <1>8

LEMMA FenceReturnsFences == ASSUME LaneInv, OwnInv, FenceInv, FenceReturns PROVE FenceInv'
<1> PICK b \in Batches : b = worker.slot
  BY WorkerBatch DEF FenceReturns
<1>1. worker.pc = "poll" /\ UNCHANGED <<presenter, deferred, deferredCompile>>
  BY DEF FenceReturns, outcomeKeeps, retirements
<1>2. batch[b] \in BatchRecord /\ "commit" \in batch[b].has
  BY <1>1, WorkerBatch, WorkerCargo DEF WorkerKinds
<1>3. \/ OutcomeReady(b, batch[b]) \/ OutcomePending(b, batch[b])
      \/ OutcomeFailed(b, batch[b]) \/ OutcomeStale(b, batch[b])
  BY DEF FenceReturns
<1> QED
  BY <1>1, <1>2, <1>3, OutcomeFences

LEMMA WorkerStartFences == ASSUME LaneInv, OwnInv, FenceInv, WorkerStart \/ WorkerPoll PROVE FenceInv'
<1>1. deferredCompile = 0 /\ UNCHANGED <<presenter, deferred, deferredCompile>>
  BY DEF WorkerStart, WorkerPoll, WorkerMayStart, retirements
<1>2. worker'.ret = {}
  BY WorkerHolds DEF WorkerStart, WorkerPoll
<1>3. ~Fenced(worker'.ret)
  BY <1>2 DEF Fenced
<1> QED
  BY <1>1, <1>2, <1>3, WorkerMeets

LEMMA WorkerRetiresFences == ASSUME LaneInv, OwnInv, FenceInv, WorkerRetires PROVE FenceInv'
<1>1. UNCHANGED <<presenter, deferred, deferredCompile, batch>> /\ worker \in WorkerShape
  BY DEF WorkerRetires, retirements, LaneInv, Shaped
<1>2. ~Fenced(worker.ret \cap live')
  BY NoneLeft DEF WorkerRetires
<1>3. worker'.ret = worker.ret \cap live'
  BY <1>1 DEF WorkerRetires, WorkerShape, IdleWorker
<1>4. ~Fenced(worker'.ret) /\ \A w \in Works : <<"compile", w>> \notin worker'.ret
  BY <1>2, <1>3 DEF Fenced
<1>5. (\E c \in Batches : batch'[c].st \in CompileStates) => deferredCompile = 0
  BY <1>1 DEF FenceInv, CompileAlone
<1> QED
  BY <1>1, <1>4, <1>5, WorkerMeets

(* Past its compile, a batch of the worker has no fence.                     *)
LEMMA FinalizingFences ==
  ASSUME LaneInv, OwnInv, FenceInv, UNCHANGED <<deferred, deferredCompile, presenter>>,
         worker.pc \in {"failed", "pend"},
         batch' = [batch EXCEPT ![worker.slot] = FreeBatch], worker'.ret \subseteq Owned(worker.slot)
  PROVE  FenceInv'
<1>1. /\ worker.slot \in Batches /\ batch \in [Batches -> BatchRecord]
      /\ batch[worker.slot].st = "finalizing"
  BY WorkerBatch, WorkerCargo
<1>2. ~Fenced(Owned(worker.slot))
  BY <1>1, FenceOwned
<1>3. ~Fenced(worker'.ret) /\ \A w \in Works : <<"compile", w>> \notin worker'.ret
  BY <1>2 DEF Fenced
<1>4. \A c \in Batches : batch'[c].st \in CompileStates => batch[c].st \in CompileStates
  BY <1>1, Records DEF CompileStates
<1>5. (\E c \in Batches : batch'[c].st \in CompileStates) => deferredCompile = 0
  BY <1>4 DEF FenceInv, CompileAlone
<1> QED
  BY <1>3, <1>5, WorkerMeets

LEMMA WorkerFailedFences == ASSUME LaneInv, OwnInv, FenceInv, WorkerFailed PROVE FenceInv'
<1>1. /\ UNCHANGED <<presenter, deferred, deferredCompile>> /\ worker.pc = "failed"
      /\ batch' = [batch EXCEPT ![worker.slot] = FreeBatch]
  BY DEF WorkerFailed, retirements, FreeWork, Detached
<1>2. worker'.ret \subseteq Owned(worker.slot)
  <2>1. worker'.ret = IF StillHead(batch[worker.slot].work) THEN {} ELSE Owned(worker.slot)
    BY WorkerTakes DEF WorkerFailed
  <2> QED
    BY <2>1
<1> QED
  BY <1>1, <1>2, FinalizingFences

LEMMA WorkerPendFences == ASSUME LaneInv, OwnInv, FenceInv, WorkerPend PROVE FenceInv'
<1> PICK b \in Batches : b = worker.slot /\ b = workBatch
  BY WorkerBatch DEF WorkerPend
<1>1. worker.pc = "pend" /\ UNCHANGED presenter
  BY DEF WorkerPend
<1>2. /\ batch \in [Batches -> BatchRecord] /\ batch[b].st = "finalizing"
      /\ Owned(b) = Of(batch[b].work, batch[b].has) /\ batch[b].has = {"endpoint"}
  BY <1>1, WorkerBatch, WorkerCargo
<1>3. CASE ~IsCurrent(batch[b].work)
  <2>1. /\ batch' = [batch EXCEPT ![b] = FreeBatch] /\ UNCHANGED <<deferred, deferredCompile>>
        /\ worker'.ret = Owned(b)
    BY <1>3, WorkerTakes DEF WorkerPend, retirements, Detached
  <2> QED
    BY <1>1, <2>1, FinalizingFences
<1>4. CASE IsCurrent(batch[b].work)
  <2>1. PICK gone \in SUBSET Batches :
        /\ \A c \in gone : batch[c].st = "pending"
        /\ batch' = [c \in Batches |->
                       IF c \in gone THEN FreeBatch
                       ELSE IF c = b THEN [batch[b] EXCEPT !.st = "pending"]
                       ELSE batch[c]]
        /\ Defer([i \in DOMAIN Ascending(gone) |-> Owned(Ascending(gone)[i])])
        /\ WorkerTo("idle", 0)
    BY <1>4, PendingGone
  <2>2. worker'.ret = {}
    BY <2>1, WorkerHolds
  <2>3. PICK rets : rets = [i \in DOMAIN Ascending(gone) |-> Owned(Ascending(gone)[i])]
    OBVIOUS
  <2>4. /\ rets \in Seq(SUBSET Objects) /\ Defer(rets)
        /\ \A i \in DOMAIN rets : \E c \in gone : rets[i] = Owned(c)
    BY <2>1, <2>3, LoadsParts
  <2>5. \A i \in DOMAIN rets : /\ WithCommit(rets[i]) /\ ~Fenced(rets[i])
                               /\ IsCompileRetirement(rets[i]) => Fenced(rets[i])
    BY <2>1, <2>4, FenceOwned
  <2>6. /\ FenceCounted' /\ deferredCompile' = deferredCompile
        /\ \A j \in DOMAIN deferred' :
             /\ WithCommit(deferred'[j])
             /\ IsCompileRetirement(deferred'[j]) => Fenced(deferred'[j])
    <3>1. deferred \in Seq(SUBSET Objects)
      BY DEF OwnInv, Recorded
    <3> QED
      BY <1>1, <2>4, <2>5, <3>1, DefersFences
  <2>7. \A c \in Batches : batch'[c].st \in CompileStates => batch[c].st \in CompileStates
    <3>1. \A c \in gone : batch'[c] = FreeBatch
      BY <2>1
    <3>2. b \notin gone => batch'[b].st = "pending"
      BY <1>2, <2>1 DEF BatchRecord
    <3>3. \A c \in Batches : c # b /\ c \notin gone => batch'[c] = batch[c]
      BY <2>1
    <3> QED
      BY <3>1, <3>2, <3>3, Records DEF CompileStates
  <2>8. CompileAlone'
    BY <2>2, <2>6, <2>7 DEF FenceInv, CompileAlone, Fenced
  <2>9. FencesCovered'
    BY <1>1, <2>2, <2>6 DEF FenceInv, FencesCovered, Fenced, WithCommit, IsCompileRetirement, HasKind
  <2> QED
    BY <2>6, <2>8, <2>9 DEF FenceInv
<1> QED
  BY <1>3, <1>4

LEMMA WorkerFences == ASSUME LaneInv, OwnInv, FenceInv, Worker PROVE FenceInv'
BY WorkerStartFences, CompileReturnsFences, FenceReturnsFences, WorkerRetiresFences,
   WorkerFailedFences, WorkerPendFences DEF Worker

(* At most one fence of compiled work is alive; while an invalidated one     *)
(* waits for its cleanup, or is in it, g_deferred_compile_retirements says   *)
(* so; and its commit is held beside it.                                     *)
THEOREM LaneFences == Spec => []FenceInv
<1>1. Init => FenceInv
  BY FenceInit
<1>2. LaneInv /\ OwnInv /\ FenceInv /\ [Next]_vars => FenceInv'
  <2>1. ASSUME LaneInv, OwnInv, FenceInv, UNCHANGED vars PROVE FenceInv'
    <3>1. UNCHANGED <<deferred, deferredCompile, batch, worker, presenter>>
      BY <2>1 DEF vars, retirements
    <3> QED
      BY <2>1, <3>1, FencesStay
  <2> QED
    BY <2>1, CollectorFences, LifecycleFences, WorkerFences, PresenterFences DEF Next
<1> QED
  BY <1>1, <1>2, LaneInvariant, LaneOwnership, PTL DEF Spec

(* The pool never takes a commit back while the backend may still execute    *)
(* work compiled from it, and no compile runs beside the fence of another.   *)
THEOREM LaneCompileIsSafe == Spec => []CompileIsSafe
<1>1. ASSUME LaneInv, OwnInv, FenceInv PROVE CompileIsSafe
  <2> SUFFICES ASSUME NEW w \in Works, <<"compile", w>> \in live
               PROVE  <<"commit", w>> \in live /\ worker.pc # "compile"
    BY DEF CompileIsSafe
  <2>1. worker.pc = "compile" =>
          /\ deferredCompile = 0 /\ worker.ret = {} /\ batch[workBatch].st = "compiling"
          /\ workBatch \in Batches
    BY <1>1, WorkerBatch DEF FenceInv, CompileAlone, CompileStates, OwnInv, Recorded
  <2>2. ASSUME NEW b \in Batches, batch[b].st \in {"checking", "waiting"}, <<"commit", w>> \in Owned(b)
        PROVE  <<"commit", w>> \in live /\ worker.pc # "compile"
    <3>1. b = workBatch
      BY <1>1, <2>2, WaitingIsWork DEF CompileStates
    <3> QED
      BY <1>1, <2>1, <2>2, <3>1, OwnTyped DEF InBatches
  <2>3. ASSUME NEW i \in DOMAIN deferred, <<"compile", w>> \in deferred[i]
        PROVE  <<"commit", w>> \in live /\ worker.pc # "compile"
    <3>1. <<"commit", w>> \in deferred[i] /\ deferredCompile # 0
      BY <1>1, <2>3 DEF FenceInv, FencesCovered, FenceCounted, WithCommit, Fenced
    <3>2. <<"commit", w>> \in InDeferred
      BY <3>1 DEF InDeferred
    <3> QED
      BY <1>1, <2>1, <3>1, <3>2 DEF OwnInv, Whole, Parted
  <2>4. CASE <<"compile", w>> \in worker.ret
    <3>1. <<"commit", w>> \in worker.ret \/ Kept(w)
      BY <1>1, <2>4 DEF FenceInv, FencesCovered
    <3>2. CASE <<"commit", w>> \in worker.ret
      BY <1>1, <2>1, <2>4, <3>2 DEF OwnInv, Whole, Parted
    <3>3. CASE Kept(w)
      <4>1. /\ Going("failed") /\ worker.slot \in Batches /\ batch[worker.slot].st = "finalizing"
            /\ batch[worker.slot].work = w
        BY <1>1, <3>3 DEF Kept, Going, LaneInv, WorkerPlaced, Shaped
      <4>2. "commit" \in batch[worker.slot].has
        BY <1>1, <4>1 DEF OwnInv, Carried, Cargo
      <4>3. <<"commit", w>> \in Owned(worker.slot)
        BY <4>1, <4>2, InOf DEF Owned
      <4> QED
        BY <1>1, <2>1, <2>4, <4>1, <4>3, OwnTyped DEF InBatches
    <3> QED
      BY <3>1, <3>2, <3>3
  <2>5. CASE <<"compile", w>> \in presenter.ret
    <3>1. <<"commit", w>> \in presenter.ret /\ deferredCompile # 0
      BY <1>1, <2>5 DEF FenceInv, FencesCovered, FenceCounted, WithCommit, Fenced
    <3> QED
      BY <1>1, <2>1, <3>1 DEF OwnInv, Whole, Parted
  <2> QED
    BY <1>1, <2>2, <2>3, <2>4, <2>5, FencePlace DEF InDeferred
<1> QED
  BY <1>1, LaneInvariant, LaneOwnership, LaneFences, PTL

----------------------------------------------------------------------------
(* Room in the deferred list.  A record without a commit was once a batch:   *)
(* the works of such records and of the occupied batches are told apart, and *)
(* their number only grows when the worker starts, which asks for room.      *)
Occupied == {b \in Batches : batch[b].st # "free"}
Working == {batch[b].work : b \in Occupied}
Bare(ret) == {w \in Works : <<"endpoint", w>> \in ret /\ <<"commit", w>> \notin ret}
Waiting == UNION {Bare(deferred[i]) : i \in DOMAIN deferred}
OneWork(ret) == \A o, p \in ret : o[2] = p[2]

RecordsSingle ==
  /\ OneWork(worker.ret) /\ OneWork(presenter.ret)
  /\ \A i \in DOMAIN deferred : OneWork(deferred[i])
WorksApart ==
  \A b \in Occupied :
    /\ \A c \in Occupied : batch[c].work = batch[b].work => c = b
    /\ \A i \in DOMAIN deferred : <<"endpoint", batch[b].work>> \notin deferred[i]
RoomLeft ==
  /\ IsFiniteSet(Waiting \cup Working)
  /\ Cardinality(Waiting \cup Working) < 2 * BatchCapacity
PoolHolds == IsFiniteSet(CommitsInUse) /\ Cardinality(CommitsInUse) <= SourceCapacity
RoomInv == RecordsSingle /\ WorksApart /\ RoomLeft /\ PoolHolds

(* What a step may do to the list besides taking from it: give it the record *)
(* of a batch that becomes free, or the commit of a source.                  *)
WorksStay ==
  \A b \in Batches : batch'[b].st # "free" =>
    batch[b].st # "free" /\ batch'[b].work = batch[b].work
Waited(ret) == \E i \in DOMAIN deferred : ret = deferred[i]
GivenUp(ret) ==
  \E c \in Batches : batch[c].st # "free" /\ batch'[c].st = "free" /\ ret = Owned(c)
SourceOnly(ret) == OneWork(ret) /\ \A o \in ret : o[1] = "commit"
DeferredStays ==
  \A j \in DOMAIN deferred' :
    Waited(deferred'[j]) \/ GivenUp(deferred'[j]) \/ SourceOnly(deferred'[j])

LEMMA OwnedWork ==
  ASSUME NEW b
  PROVE  /\ OneWork(Owned(b)) /\ \A o \in Owned(b) : o[2] = batch[b].work
         /\ \A w \in Bare(Owned(b)) : w = batch[b].work
BY DEF Owned, Of, OneWork, Bare

LEMMA RoomStays ==
  ASSUME RoomInv, WorksStay, DeferredStays
  PROVE  RoomLeft' /\ WorksApart' /\ \A j \in DOMAIN deferred' : OneWork(deferred'[j])
<1> PICK later : later = deferred'
  OBVIOUS
<1>1. \A j \in DOMAIN later : Waited(later[j]) \/ GivenUp(later[j]) \/ SourceOnly(later[j])
  BY DEF DeferredStays
<1>2. \A j \in DOMAIN later : OneWork(later[j])
  BY <1>1, OwnedWork DEF Waited, GivenUp, SourceOnly, RoomInv, RecordsSingle
<1>3. Working' \subseteq Working /\ Occupied' \subseteq Occupied
      /\ \A b \in Occupied' : batch'[b].work = batch[b].work
  BY DEF Working, Occupied, WorksStay
<1>4. \A j \in DOMAIN later : \A w \in Bare(later[j]) : w \in Waiting \cup Working
  <2> SUFFICES ASSUME NEW j \in DOMAIN later, NEW w \in Bare(later[j]) PROVE w \in Waiting \cup Working
    OBVIOUS
  <2>1. CASE Waited(later[j])
    BY <2>1 DEF Waited, Waiting
  <2>2. CASE GivenUp(later[j])
    BY <2>2, OwnedWork DEF GivenUp, Working, Occupied
  <2>3. CASE SourceOnly(later[j])
    <3>1. <<"endpoint", w>> \in later[j]
      BY DEF Bare
    <3> QED
      BY <2>3, <3>1 DEF SourceOnly
  <2> QED
    BY <1>1, <2>1, <2>2, <2>3
<1>5. Waiting' \cup Working' \in SUBSET (Waiting \cup Working)
  <2>1. Waiting' = UNION {Bare(later[j]) : j \in DOMAIN later}
    BY DEF Waiting, Bare
  <2> QED
    BY <1>3, <1>4, <2>1
<1>6. RoomLeft'
  <2>1. IsFiniteSet(Waiting \cup Working) /\ Cardinality(Waiting \cup Working) < 2 * BatchCapacity
    BY DEF RoomInv, RoomLeft
  <2>2. /\ IsFiniteSet(Waiting' \cup Working')
        /\ Cardinality(Waiting' \cup Working') <= Cardinality(Waiting \cup Working)
    BY ONLY <1>5, <2>1, FS_Subset
  <2>3. Cardinality(Waiting \cup Working) \in Nat /\ Cardinality(Waiting' \cup Working') \in Nat
    BY ONLY <2>1, <2>2, FS_CardinalityType
  <2>4. 2 * BatchCapacity \in Nat
    BY LaneAssumption
  <2>5. Cardinality(Waiting' \cup Working') < 2 * BatchCapacity
    BY ONLY <2>1, <2>2, <2>3, <2>4
  <2> QED
    BY <2>2, <2>5 DEF RoomLeft
<1>7. ASSUME NEW b \in Occupied', NEW j \in DOMAIN later
      PROVE  <<"endpoint", batch[b].work>> \notin later[j]
  <2>1. b \in Occupied
    BY <1>3
  <2>2. CASE Waited(later[j])
    BY <2>1, <2>2 DEF Waited, RoomInv, WorksApart
  <2>3. CASE GivenUp(later[j])
    <3>1. PICK c \in Batches : batch[c].st # "free" /\ batch'[c].st = "free" /\ later[j] = Owned(c)
      BY <2>3 DEF GivenUp
    <3>2. c \in Occupied /\ c # b
      BY <3>1 DEF Occupied
    <3>3. batch[c].work # batch[b].work
      BY <2>1, <3>2 DEF RoomInv, WorksApart
    <3> QED
      BY <3>1, <3>3, OwnedWork
  <2>4. CASE SourceOnly(later[j])
    BY <2>4 DEF SourceOnly
  <2> QED
    BY <1>1, <2>2, <2>3, <2>4
<1>8. WorksApart'
  <2>1. \A b, c \in Occupied' : batch'[c].work = batch'[b].work => c = b
    BY <1>3 DEF RoomInv, WorksApart
  <2>2. \A b \in Occupied' : \A j \in DOMAIN later : <<"endpoint", batch'[b].work>> \notin later[j]
    BY <1>3, <1>7
  <2> QED
    BY <2>1, <2>2 DEF WorksApart
<1> QED
  BY <1>2, <1>6, <1>8

(* Fewer commits never fill the pool.                                        *)
LEMMA PoolStays ==
  ASSUME PoolHolds, \A o \in live' : o \in live \/ o[1] # "commit"
  PROVE  PoolHolds'
<1>1. CommitsInUse' \in SUBSET CommitsInUse
  BY DEF CommitsInUse
<1>2. IsFiniteSet(CommitsInUse) /\ Cardinality(CommitsInUse) <= SourceCapacity
  BY DEF PoolHolds
<1>3. IsFiniteSet(CommitsInUse') /\ Cardinality(CommitsInUse') <= Cardinality(CommitsInUse)
  BY ONLY <1>1, <1>2, FS_Subset
<1>4. Cardinality(CommitsInUse) \in Nat /\ Cardinality(CommitsInUse') \in Nat
  BY ONLY <1>2, <1>3, FS_CardinalityType
<1>5. SourceCapacity \in Nat
  BY LaneAssumption
<1>6. Cardinality(CommitsInUse') <= SourceCapacity
  BY ONLY <1>2, <1>3, <1>4, <1>5
<1> QED
  BY <1>3, <1>6 DEF PoolHolds

LEMMA RoomUntouched ==
  ASSUME RoomInv, UNCHANGED <<batch, deferred>>
  PROVE  RoomLeft' /\ WorksApart' /\ \A j \in DOMAIN deferred' : OneWork(deferred'[j])
<1>1. WorksStay
  BY DEF WorksStay
<1>2. DeferredStays
  BY DEF DeferredStays, Waited
<1> QED
  BY <1>1, <1>2, RoomStays

(* What defer_retirement leaves in the list was there or was given to it.    *)
LEMMA DeferredFrom ==
  ASSUME deferred \in Seq(SUBSET Objects), NEW rets \in Seq(SUBSET Objects), Defer(rets)
  PROVE  \A j \in DOMAIN deferred' : Waited(deferred'[j]) \/ \E i \in DOMAIN rets : deferred'[j] = rets[i]
<1>1. PICK g : Spreads(g, New, deferred', rets)
  BY Defers
<1>2. \A j \in New : g[j] \in DOMAIN rets /\ deferred'[j] = rets[g[j]]
  BY <1>1 DEF Spreads, Added
<1>3. /\ deferred' \in Seq(SUBSET Objects) /\ \A i \in DOMAIN deferred : deferred'[i] = deferred[i]
      /\ Len(deferred') = Len(deferred) + Cardinality(Added(rets))
      /\ Cardinality(Added(rets)) \in Nat /\ Len(deferred) \in Nat
  BY Defers
<1>4. DOMAIN deferred = 1..Len(deferred) /\ DOMAIN deferred' = 1..Len(deferred')
  BY <1>3
<1>5. \A j \in DOMAIN deferred' : j \in DOMAIN deferred \/ j \in New
  BY <1>3, <1>4 DEF New
<1> QED
  BY <1>2, <1>3, <1>5 DEF Waited

LEMMA SingleKept ==
  ASSUME RoomInv, NEW ret, ret \subseteq worker.ret \/ ret \subseteq presenter.ret
  PROVE  OneWork(ret)
BY DEF RoomInv, RecordsSingle, OneWork

LEMMA CollectorRoom == ASSUME LaneInv, OwnInv, RoomInv, Collector PROVE RoomInv'
<1>1. UNCHANGED <<deferred, batch, worker, presenter>>
  BY DEF Collector, DraftBegin, DraftSeal, DraftCancel, PublishRefused, DraftDrop,
     SourceQueuePublish, lane, retirements
<1>2. RoomLeft' /\ WorksApart' /\ RecordsSingle'
  BY <1>1, RoomUntouched DEF RoomInv, RecordsSingle
<1>3. CASE \E s \in Scenes : DraftBegin(s)
  <2> PICK w : /\ live' = live \cup Of(w, {"commit"})
               /\ Cardinality(CommitsInUse) < SourceCapacity
    BY <1>3 DEF DraftBegin
  <2>1. CommitsInUse' = CommitsInUse \cup {<<"commit", w>>}
    <3>1. Of(w, {"commit"}) = {<<"commit", w>>}
      BY DEF Of
    <3> QED
      BY <3>1 DEF CommitsInUse
  <2>2. IsFiniteSet(CommitsInUse)
    BY DEF RoomInv, PoolHolds
  <2>3. /\ IsFiniteSet(CommitsInUse')
        /\ Cardinality(CommitsInUse') =
             IF <<"commit", w>> \in CommitsInUse THEN Cardinality(CommitsInUse)
             ELSE Cardinality(CommitsInUse) + 1
    BY ONLY <2>1, <2>2, FS_AddElement
  <2>4. Cardinality(CommitsInUse) \in Nat
    BY ONLY <2>2, FS_CardinalityType
  <2>5. SourceCapacity \in Nat
    BY LaneAssumption
  <2>6. Cardinality(CommitsInUse') <= SourceCapacity
    BY <2>3, <2>4, <2>5
  <2> QED
    BY <1>2, <2>3, <2>6 DEF RoomInv, PoolHolds
<1>4. CASE ~\E s \in Scenes : DraftBegin(s)
  <2>1. live' \subseteq live
    BY <1>4 DEF Collector, DraftSeal, DraftCancel, PublishRefused, DraftDrop, SourceQueuePublish
  <2>2. PoolHolds'
    BY <2>1, PoolStays DEF RoomInv
  <2> QED
    BY <1>2, <2>2 DEF RoomInv
<1> QED
  BY <1>3, <1>4

LEMMA InvalidateRoom == ASSUME LaneInv, OwnInv, RoomInv, LogicalInvalidate PROVE RoomInv'
<1>1. /\ batch' = [b \in Batches |-> IF b \in Detachable THEN FreeBatch ELSE batch[b]]
      /\ worker' = worker /\ presenter' = presenter /\ live' \subseteq live
  BY DEF LogicalInvalidate
<1>2. Defer(Scrapped)
  BY DEF LogicalInvalidate, Scrapped, AtWorkOwned
<1>3. /\ Scrapped \in Seq(SUBSET Objects)
      /\ \A i \in DOMAIN Scrapped :
           \/ Scrapped[i] \subseteq Sources /\ \A o, p \in Scrapped[i] : o = p
           \/ \E b \in Detachable : Scrapped[i] = Owned(b)
  BY ScrappedParts
<1>4. \A b \in Detachable : b \in Batches /\ batch[b].st # "free" /\ batch'[b].st = "free"
  BY <1>1, Records DEF Detachable, InState
<1>5. WorksStay
  BY <1>1, Records DEF WorksStay
<1>6. \A i \in DOMAIN Scrapped : GivenUp(Scrapped[i]) \/ SourceOnly(Scrapped[i])
  <2> TAKE i \in DOMAIN Scrapped
  <2>1. CASE Scrapped[i] \subseteq Sources /\ \A o, p \in Scrapped[i] : o = p
    BY <2>1 DEF SourceOnly, OneWork, Sources
  <2>2. CASE \E b \in Detachable : Scrapped[i] = Owned(b)
    BY <1>4, <2>2 DEF GivenUp
  <2> QED
    BY <1>3, <2>1, <2>2
<1>7. DeferredStays
  <2>1. \A j \in DOMAIN deferred' :
          Waited(deferred'[j]) \/ \E i \in DOMAIN Scrapped : deferred'[j] = Scrapped[i]
    BY <1>2, <1>3, DeferredFrom DEF OwnInv, Recorded
  <2> HIDE DEF GivenUp, SourceOnly, Waited
  <2>2. ASSUME NEW j \in DOMAIN deferred'
        PROVE  Waited(deferred'[j]) \/ GivenUp(deferred'[j]) \/ SourceOnly(deferred'[j])
    <3> PICK ret : ret = deferred'[j]
      OBVIOUS
    <3>1. Waited(ret) \/ \E i \in DOMAIN Scrapped : ret = Scrapped[i]
      BY <2>1
    <3>2. Waited(ret) \/ GivenUp(ret) \/ SourceOnly(ret)
      BY <1>6, <3>1
    <3> QED
      BY <3>2
  <2> QED
    BY <2>2 DEF DeferredStays
<1>8. RoomLeft' /\ WorksApart' /\ RecordsSingle'
  BY <1>1, <1>5, <1>7, RoomStays DEF RoomInv, RecordsSingle
<1>9. PoolHolds'
  BY <1>1, PoolStays DEF RoomInv
<1> QED
  BY <1>8, <1>9 DEF RoomInv

LEMMA LifecycleRoom == ASSUME LaneInv, OwnInv, RoomInv, Lifecycle PROVE RoomInv'
<1>1. CASE ClaimOpen
  <2>1. UNCHANGED <<deferred, batch, worker, presenter, live>>
    BY <1>1 DEF ClaimOpen, retirements
  <2>2. PoolHolds'
    BY <2>1, PoolStays DEF RoomInv
  <2> QED
    BY <2>1, <2>2, RoomUntouched DEF RoomInv, RecordsSingle
<1> QED
  BY <1>1, InvalidateRoom DEF Lifecycle, LifecycleClose, PresentationReset, TimelineInvalidate

(* A record the presenter takes is of one work, that of the batch it is at,  *)
(* or of the one it replaces.                                                *)
TakesOne ==
  \/ PresenterDone
  \/ \E pc : PresenterTo(pc)
  \/ \E ret, next : OneWork(ret) /\ PresenterCleans(ret, next)
  \/ \E pc, b : presenter' = [presenter EXCEPT !.pc = pc, !.slot = b]
  \/ \E pc, b, kind : presenter' = [presenter EXCEPT !.pc = pc, !.slot = b, !.kind = kind]
  \/ \E pc, phase : presenter' = [presenter EXCEPT !.pc = pc, !.phase = phase]
  \/ \E kind : presenter' = [IdlePresenter EXCEPT !.pc = "drain", !.kind = kind]

LEMMA TakenOne ==
  ASSUME LaneInv, RoomInv, TakesOne
  PROVE  OneWork(presenter'.ret)
<1>1. presenter \in PresenterShape /\ OneWork(presenter.ret) /\ OneWork({})
  BY DEF LaneInv, Shaped, RoomInv, RecordsSingle, OneWork
<1>2. presenter'.ret \in {presenter.ret, {}} \/ OneWork(presenter'.ret)
  <2>1. CASE PresenterDone
    BY <2>1 DEF PresenterDone, IdlePresenter
  <2>2. CASE \E pc : PresenterTo(pc)
    BY <1>1, <2>2 DEF PresenterTo, PresenterShape
  <2>3. CASE \E ret, next : OneWork(ret) /\ PresenterCleans(ret, next)
    <3> PICK ret, next : OneWork(ret) /\ PresenterCleans(ret, next)
      BY <2>3
    <3>1. \/ presenter' = IdlePresenter
          \/ presenter' = [presenter EXCEPT !.pc = next]
          \/ presenter' = [presenter EXCEPT !.pc = "clean", !.ret = ret, !.next = next]
      BY DEF PresenterCleans
    <3>2. presenter' = IdlePresenter => presenter'.ret = {}
      BY DEF IdlePresenter
    <3>3. presenter' = [presenter EXCEPT !.pc = next] => presenter'.ret = presenter.ret
      BY <1>1 DEF PresenterShape
    <3>4. presenter' = [presenter EXCEPT !.pc = "clean", !.ret = ret, !.next = next] => presenter'.ret = ret
      BY <1>1 DEF PresenterShape
    <3> QED
      BY <3>1, <3>2, <3>3, <3>4
  <2>4. CASE \/ \E pc, b : presenter' = [presenter EXCEPT !.pc = pc, !.slot = b]
             \/ \E pc, b, kind : presenter' = [presenter EXCEPT !.pc = pc, !.slot = b, !.kind = kind]
             \/ \E pc, phase : presenter' = [presenter EXCEPT !.pc = pc, !.phase = phase]
    BY <1>1, <2>4 DEF PresenterShape
  <2>5. CASE \E kind : presenter' = [IdlePresenter EXCEPT !.pc = "drain", !.kind = kind]
    BY <2>5 DEF IdlePresenter
  <2> QED
    BY <2>1, <2>2, <2>3, <2>4, <2>5 DEF TakesOne
<1> QED
  BY <1>1, <1>2

LEMMA OneWorkOf ==
  ASSUME NEW b, NEW kinds, NEW ret, ret \subseteq Of(batch[b].work, kinds) \cup Owned(b)
  PROVE  OneWork(ret)
BY DEF OneWork, Of, Owned

LEMMA PresenterTakenOne ==
  ASSUME LaneInv, OwnInv,
         \/ PresenterReap \/ PresenterReaped \/ PresenterChoose \/ PresenterSelect
         \/ PresenterCompose \/ PresenterAuthorize \/ PresenterSwapped
         \/ \E kind \in {"drain", "next", "hold"} : PresenterStart(kind)
  PROVE  TakesOne
<1>1. CASE PresenterReap
  BY <1>1 DEF PresenterReap, TakesOne
<1>2. CASE PresenterReaped
  <2>1. \/ \E pc : PresenterTo(pc)
        \/ \E next : PresenterCleans(Of(batch[presenter.slot].work, {"completion"}), next)
        \/ \E next : PresenterCleans(Owned(presenter.slot), next)
    BY <1>2 DEF PresenterReaped
  <2> QED
    BY <2>1, OneWorkOf DEF TakesOne
<1>3. CASE PresenterChoose
  <2> DEFINE hold == presenter.kind = "hold" \/ Unfinished(OldestPending(batch))
             b == IF hold THEN retained ELSE OldestPending(batch)
             kind == IF hold THEN "hold" ELSE "next"
  <2>1. PresenterDone \/ presenter' = [presenter EXCEPT !.pc = "select", !.slot = b, !.kind = kind]
    BY <1>3 DEF PresenterChoose
  <2> HIDE DEF b, kind
  <2> QED
    BY <2>1 DEF TakesOne
<1>4. CASE PresenterSelect
  <2>1. \/ PresenterDone \/ PresenterCleans(Owned(presenter.slot) \cup {}, "idle")
        \/ \E pc, phase : presenter' = [presenter EXCEPT !.pc = pc, !.phase = phase]
    BY <1>4 DEF PresenterSelect, PresenterStale
  <2>2. OneWork(Owned(presenter.slot) \cup {})
    BY OneWorkOf
  <2> QED
    BY <2>1, <2>2 DEF TakesOne
<1>5. CASE PresenterCompose
  <2> DEFINE b == presenter.slot
             w == batch[presenter.slot].work
  <2>1. \/ \E pc : PresenterTo(pc)
        \/ \E fence \in BOOLEAN :
             LET made == IF fence THEN Of(w, {"completion"}) ELSE {}
             IN PresenterCleans(Owned(b) \cup made, "idle") \/ PresenterCleans(made, "idle")
                \/ PresenterCleans(made \cup Owned(b), "idle")
    BY <1>5 DEF PresenterCompose, PresenterStale
  <2>2. ASSUME NEW fence \in BOOLEAN, NEW made, made = IF fence THEN Of(w, {"completion"}) ELSE {}
        PROVE  OneWork(Owned(b) \cup made) /\ OneWork(made) /\ OneWork(made \cup Owned(b))
    BY <2>2, OneWorkOf
  <2> HIDE DEF b, w
  <2> QED
    BY <2>1, <2>2 DEF TakesOne
<1>6. CASE PresenterAuthorize
  <2>1. (\E pc : PresenterTo(pc)) \/ PresenterCleans(Owned(presenter.slot) \cup {}, "idle")
    BY <1>6 DEF PresenterAuthorize, PresenterStale
  <2>2. OneWork(Owned(presenter.slot) \cup {})
    BY OneWorkOf
  <2> QED
    BY <2>1, <2>2 DEF TakesOne
<1>7. CASE PresenterSwapped
  <2> DEFINE old == IF retained \in {0, presenter.slot} THEN {} ELSE {retained}
  <2>1. \/ PresenterCleans(UNION {Owned(o) : o \in old}, "idle")
        \/ PresenterCleans(Owned(presenter.slot), "idle")
    BY <1>7 DEF PresenterSwapped
  <2>2. UNION {Owned(o) : o \in old} \subseteq Owned(retained)
    OBVIOUS
  <2>3. OneWork(UNION {Owned(o) : o \in old}) /\ OneWork(Owned(presenter.slot))
    BY <2>2, OneWorkOf
  <2> HIDE DEF old
  <2> QED
    BY <2>1, <2>3 DEF TakesOne
<1>8. CASE \E kind \in {"drain", "next", "hold"} : PresenterStart(kind)
  BY <1>8 DEF PresenterStart, TakesOne
<1> QED
  BY <1>1, <1>2, <1>3, <1>4, <1>5, <1>6, <1>7, <1>8

LEMMA PresenterActsRoom ==
  ASSUME LaneInv, OwnInv, RoomInv, PresenterActs, TakesOne
  PROVE  RoomInv'
<1>1. UNCHANGED <<deferred, worker>> /\ WorkLeftAlone
  BY DEF PresenterActs, PresenterFrame
<1>2. WorksStay
  BY <1>1 DEF WorkLeftAlone, WorksStay
<1>3. DeferredStays
  BY <1>1 DEF DeferredStays, Waited
<1>4. RoomLeft' /\ WorksApart' /\ RecordsSingle'
  BY <1>1, <1>2, <1>3, RoomStays, TakenOne DEF RoomInv, RecordsSingle
<1>5. PoolHolds'
  <2>1. \A o \in live' : o \in live \/ o[1] # "commit"
    BY DEF PresenterActs
  <2> QED
    BY <2>1, PoolStays DEF RoomInv
<1> QED
  BY <1>4, <1>5 DEF RoomInv

LEMMA PresenterDrainRoom == ASSUME LaneInv, OwnInv, RoomInv, PresenterDrain PROVE RoomInv'
<1>1. UNCHANGED <<batch, worker, live>> /\ presenter \in PresenterShape
  BY DEF PresenterDrain, LaneInv, Shaped
<1>2. PoolHolds'
  BY <1>1, PoolStays DEF RoomInv
<1>3. WorksStay
  BY <1>1 DEF WorksStay
<1>4. CASE deferred = <<>>
  <2>1. deferred' = deferred /\ (PresenterDone \/ \E pc : PresenterTo(pc))
    BY <1>4 DEF PresenterDrain
  <2>2. OneWork(presenter'.ret)
    BY <2>1, TakenOne DEF TakesOne
  <2> QED
    BY <1>1, <1>2, <2>1, <2>2, RoomUntouched DEF RoomInv, RecordsSingle
<1>5. CASE deferred # <<>>
  <2> PICK h, compile : h = Head(deferred) /\ compile = IsCompileRetirement(h)
    OBVIOUS
  <2>1. /\ deferred' = Tail(deferred)
        /\ presenter' = [presenter EXCEPT !.pc = "clean", !.next = "drain", !.ret = h, !.compile = compile]
    BY <1>5 DEF PresenterDrain
  <2>2. /\ 1 \in DOMAIN deferred /\ h = deferred[1]
        /\ \A i \in DOMAIN deferred' : i + 1 \in DOMAIN deferred /\ deferred'[i] = deferred[i + 1]
    BY <1>5, <2>1, DeferredPops DEF OwnInv, Recorded
  <2>3. presenter'.ret = h
    BY <1>1, <2>1 DEF PresenterShape
  <2>4. OneWork(h)
    BY <2>2 DEF RoomInv, RecordsSingle
  <2>5. DeferredStays
    BY <2>2 DEF DeferredStays, Waited
  <2> QED
    BY <1>1, <1>2, <1>3, <2>3, <2>4, <2>5, RoomStays DEF RoomInv, RecordsSingle
<1> QED
  BY <1>4, <1>5

LEMMA PresenterRetiresRoom == ASSUME LaneInv, OwnInv, RoomInv, PresenterRetires PROVE RoomInv'
<1>1. UNCHANGED <<deferred, batch, worker>> /\ presenter \in PresenterShape
  BY DEF PresenterRetires, LaneInv, Shaped
<1>2. live' \subseteq live
  BY DEF PresenterRetires, RetireBackend, RetireCommit
<1>3. presenter'.ret \subseteq presenter.ret
  BY <1>1 DEF PresenterRetires, PresenterShape, IdlePresenter
<1>4. OneWork(presenter'.ret)
  BY <1>3, SingleKept
<1>5. PoolHolds'
  BY <1>2, PoolStays DEF RoomInv
<1> QED
  BY <1>1, <1>4, <1>5, RoomUntouched DEF RoomInv, RecordsSingle

LEMMA PresenterRoom ==
  ASSUME LaneInv, OwnInv, RoomInv,
         Presenter \/ \E kind \in {"drain", "next", "hold"} : PresenterStart(kind)
  PROVE  RoomInv'
<1>1. CASE PresenterDrain \/ PresenterRetires
  BY <1>1, PresenterDrainRoom, PresenterRetiresRoom
<1>2. CASE ~(PresenterDrain \/ PresenterRetires)
  <2>1. \/ PresenterReap \/ PresenterReaped \/ PresenterChoose \/ PresenterSelect
        \/ PresenterCompose \/ PresenterAuthorize \/ PresenterSwapped
        \/ \E kind \in {"drain", "next", "hold"} : PresenterStart(kind)
    BY <1>2 DEF Presenter
  <2> QED
    BY <2>1, PresenterIsActing, PresenterTakenOne, PresenterActsRoom
<1> QED
  BY <1>1, <1>2

(* The worker changes a batch it has, or frees it.                           *)
LEMMA WorkerMovesRoom ==
  ASSUME LaneInv, OwnInv, RoomInv, UNCHANGED <<deferred, presenter>>,
         NEW b \in Batches, NEW new, batch' = [batch EXCEPT ![b] = new],
         new.st = "free" \/ (batch[b].st # "free" /\ new.work = batch[b].work),
         OneWork(worker'.ret), \A o \in live' : o \in live \/ o[1] # "commit"
  PROVE  RoomInv'
<1>1. batch \in [Batches -> BatchRecord]
  BY DEF LaneInv, Shaped
<1>2. WorksStay
  BY <1>1 DEF WorksStay
<1>3. DeferredStays
  BY DEF DeferredStays, Waited
<1>4. RoomLeft' /\ WorksApart' /\ RecordsSingle'
  BY <1>2, <1>3, RoomStays DEF RoomInv, RecordsSingle
<1>5. PoolHolds'
  BY PoolStays DEF RoomInv
<1> QED
  BY <1>4, <1>5 DEF RoomInv

LEMMA OutcomeRoom ==
  ASSUME LaneInv, OwnInv, RoomInv, UNCHANGED <<deferred, presenter>>,
         worker.pc \in {"compile", "poll"}, NEW b, b = worker.slot,
         NEW r \in BatchRecord, r.work = batch[b].work,
         \/ OutcomeStale(b, r) \/ OutcomeFailed(b, r) \/ OutcomeWouldBlock(b, r)
         \/ OutcomePending(b, r) \/ OutcomeApplied(b, r) \/ OutcomeReady(b, r),
         \A o \in live' : o \in live \/ o[1] # "commit"
  PROVE  RoomInv'
<1>1. b \in Batches /\ batch[b].st # "free" /\ FreeBatch.st = "free"
  BY WorkerBatch, Records
<1>2. PICK new :
        /\ batch' = [batch EXCEPT ![b] = new]
        /\ new \in {FreeBatch, [r EXCEPT !.st = "finalizing", !.has = {"commit"}],
                    [r EXCEPT !.st = "waiting"], [r EXCEPT !.st = "finalizing", !.has = {"endpoint"}]}
  BY DEF OutcomeStale, OutcomeFailed, OutcomeWouldBlock, OutcomePending, OutcomeApplied,
     OutcomeReady, FreeWork, Detached
<1>3. new.st = "free" \/ new.work = r.work
  BY <1>1, <1>2 DEF BatchRecord
<1>4. \/ worker'.ret = {}
      \/ worker'.ret \subseteq Of(r.work, r.has)
  <2>1. \/ WorkerTo("idle", 0)
        \/ \E next : \/ WorkerCleans(Of(r.work, r.has), b, next)
                     \/ WorkerCleans(Of(r.work, r.has \ {"commit"}), b, next)
                     \/ WorkerCleans(Of(r.work, r.has \ {"endpoint"}), b, next)
    BY DEF OutcomeStale, OutcomeFailed, OutcomeWouldBlock, OutcomePending, OutcomeApplied, OutcomeReady
  <2>2. \A kinds \in SUBSET r.has : Of(r.work, kinds) \subseteq Of(r.work, r.has)
    BY DEF Of
  <2>3. CASE WorkerTo("idle", 0)
    BY <2>3, WorkerHolds
  <2>4. CASE ~WorkerTo("idle", 0)
    <3>1. \E kinds \in SUBSET r.has : worker'.ret = Of(r.work, kinds)
      BY <2>1, <2>4, WorkerTakes
    <3> QED
      BY <2>2, <3>1
  <2> QED
    BY <2>3, <2>4
<1>5. OneWork(worker'.ret)
  BY <1>4 DEF OneWork, Of
<1> QED
  BY <1>1, <1>2, <1>3, <1>5, WorkerMovesRoom

LEMMA CompileReturnsRoom == ASSUME LaneInv, OwnInv, RoomInv, CompileReturns PROVE RoomInv'
<1> PICK b \in Batches : b = worker.slot /\ b = workBatch
  BY WorkerBatch DEF CompileReturns
<1> DEFINE r == batch[b]
           w == r.work
           with(kinds) == [r EXCEPT !.has = @ \cup kinds]
           came(phases, base) == [with({"endpoint", "compile"}) EXCEPT !.phases = phases, !.base = base]
<1>1. worker.pc = "compile" /\ UNCHANGED <<presenter, deferred>>
  BY DEF CompileReturns, outcomeKeeps, retirements
<1>2. r \in BatchRecord /\ w \in Works /\ r.st # "free"
  BY <1>1, WorkerBatch
<1>3. ASSUME NEW kinds \in SUBSET {"endpoint", "compile"}
      PROVE  with(kinds) \in BatchRecord /\ with(kinds).work = w
  BY <1>2 DEF BatchRecord, Kinds, Fences
<1>4. ASSUME NEW phases \in 0..PhaseLimit, NEW base \in 0..(w.seq - 1)
      PROVE  came(phases, base) \in BatchRecord /\ came(phases, base).work = w
  <2>1. base \in 0..SeqLimit
    BY <1>2, Records, LaneAssumption
  <2> QED
    BY <1>2, <2>1 DEF BatchRecord, Kinds, Fences
<1> HIDE DEF with
<1>5. \A o \in live' : o \in live \/ o[1] # "commit"
  <2>1. \E kinds \in SUBSET {"endpoint", "compile"} : live' = live \cup Of(w, kinds)
    <3>1. Of(w, {}) = {}
      BY InOf
    <3>2. live' = live \/ \E kinds \in SUBSET {"endpoint", "compile"} : live' = live \cup Of(w, kinds)
      BY DEF CompileReturns
    <3>3. live \cup Of(w, {}) = live /\ {} \in SUBSET {"endpoint", "compile"}
      BY <3>1
    <3> HIDE DEF w
    <3> QED
      BY <3>2, <3>3
  <2> QED
    BY <2>1, InOf
<1>6. ASSUME NEW phases \in 0..PhaseLimit, NEW base \in 0..(w.seq - 1),
             IF IsCurrent(w)
             THEN /\ batch' = [batch EXCEPT ![b] = [came(phases, base) EXCEPT !.st = "checking"]]
                  /\ WorkerTo("poll", b)
             ELSE OutcomeStale(b, came(phases, base))
      PROVE  RoomInv'
  <2> PICK e : e = came(phases, base)
    OBVIOUS
  <2>1. e \in BatchRecord /\ e.work = w
    BY <1>4
  <2> HIDE DEF came
  <2>2. CASE ~IsCurrent(w)
    <3>1. OutcomeStale(b, e)
      BY <1>6, <2>2
    <3> QED
      BY <1>1, <1>5, <2>1, <3>1, OutcomeRoom
  <2>3. CASE IsCurrent(w)
    <3> PICK new : new = [e EXCEPT !.st = "checking"]
      OBVIOUS
    <3>1. batch' = [batch EXCEPT ![b] = new] /\ new.work = w
      BY <1>6, <2>1, <2>3 DEF BatchRecord
    <3>2. OneWork(worker'.ret)
      BY <1>6, <2>3, WorkerHolds DEF OneWork
    <3> QED
      BY <1>1, <1>2, <1>5, <3>1, <3>2, WorkerMovesRoom
  <2> QED
    BY <2>2, <2>3
<1>7. ASSUME NEW kinds \in SUBSET {"endpoint", "compile"},
             OutcomeFailed(b, with(kinds)) \/ OutcomeStale(b, with(kinds))
      PROVE  RoomInv'
  BY <1>1, <1>3, <1>5, <1>7, OutcomeRoom
<1>8. ASSUME OutcomeApplied(b, r) \/ OutcomeStale(b, r) \/ OutcomeWouldBlock(b, r) PROVE RoomInv'
  BY <1>1, <1>2, <1>5, <1>8, OutcomeRoom
<1>9. \/ \E phases \in 0..PhaseLimit, base \in 0..(w.seq - 1) :
            IF IsCurrent(w)
            THEN /\ batch' = [batch EXCEPT ![b] = [came(phases, base) EXCEPT !.st = "checking"]]
                 /\ WorkerTo("poll", b)
            ELSE OutcomeStale(b, came(phases, base))
      \/ OutcomeApplied(b, r) \/ OutcomeStale(b, r) \/ OutcomeWouldBlock(b, r)
      \/ \E kinds \in SUBSET {"endpoint", "compile"} :
            OutcomeFailed(b, with(kinds)) \/ OutcomeStale(b, with(kinds))
  BY Zenon DEF CompileReturns, with
<1> HIDE DEF came
<1> QED
  BY <1>6, <1>7, <1>8, <1>9

LEMMA FenceReturnsRoom == ASSUME LaneInv, OwnInv, RoomInv, FenceReturns PROVE RoomInv'
<1>1. /\ worker.pc = "poll" /\ UNCHANGED <<presenter, deferred, live>>
      /\ \/ OutcomeReady(worker.slot, batch[worker.slot]) \/ OutcomePending(worker.slot, batch[worker.slot])
         \/ OutcomeFailed(worker.slot, batch[worker.slot]) \/ OutcomeStale(worker.slot, batch[worker.slot])
  BY DEF FenceReturns, outcomeKeeps, retirements
<1> QED
  BY <1>1, WorkerBatch, OutcomeRoom

LEMMA WorkerRetiresRoom == ASSUME LaneInv, OwnInv, RoomInv, WorkerRetires PROVE RoomInv'
<1>1. UNCHANGED <<deferred, batch, presenter>> /\ worker \in WorkerShape
  BY DEF WorkerRetires, retirements, LaneInv, Shaped
<1>2. live' \subseteq live
  BY DEF WorkerRetires, RetireBackend, RetireCommit
<1>3. worker'.ret \subseteq worker.ret
  BY <1>1 DEF WorkerRetires, WorkerShape, IdleWorker
<1>4. OneWork(worker'.ret)
  BY <1>3, SingleKept
<1>5. PoolHolds'
  BY <1>2, PoolStays DEF RoomInv
<1> QED
  BY <1>1, <1>4, <1>5, RoomUntouched DEF RoomInv, RecordsSingle

LEMMA WorkerFailedRoom == ASSUME LaneInv, OwnInv, RoomInv, WorkerFailed PROVE RoomInv'
<1>1. /\ UNCHANGED <<presenter, deferred, live>> /\ worker.pc = "failed"
      /\ batch' = [batch EXCEPT ![worker.slot] = FreeBatch]
  BY DEF WorkerFailed, retirements, FreeWork, Detached
<1>2. worker'.ret = IF StillHead(batch[worker.slot].work) THEN {} ELSE Owned(worker.slot)
  BY WorkerTakes DEF WorkerFailed
<1>3. OneWork(worker'.ret)
  BY <1>2, OneWorkOf
<1> QED
  BY <1>1, <1>3, WorkerBatch, Records, WorkerMovesRoom

LEMMA WorkerPollRoom == ASSUME LaneInv, OwnInv, RoomInv, WorkerPoll PROVE RoomInv'
<1> PICK b \in Batches : b = workBatch
  BY DEF WorkerPoll, LaneInv, Shaped
<1>1. /\ worker.pc = "idle" /\ batch' = [batch EXCEPT ![b] = [batch[b] EXCEPT !.st = "checking"]]
      /\ WorkerTo("poll", b) /\ UNCHANGED <<presenter, deferred, live>> /\ workBatch # 0
  BY DEF WorkerPoll, WorkerMayStart, retirements
<1>2. batch[b].st = "waiting" /\ batch[b] \in BatchRecord
  BY <1>1 DEF LaneInv, Shaped, WorkerPlaced, Going
<1>3. [batch[b] EXCEPT !.st = "checking"].work = batch[b].work
  BY <1>2 DEF BatchRecord
<1>4. OneWork(worker'.ret)
  BY <1>1, WorkerHolds DEF OneWork
<1> QED
  BY <1>1, <1>2, <1>3, <1>4, WorkerMovesRoom

LEMMA WorkerPendRoom == ASSUME LaneInv, OwnInv, RoomInv, WorkerPend PROVE RoomInv'
<1> PICK b \in Batches : b = worker.slot /\ b = workBatch
  BY WorkerBatch DEF WorkerPend
<1>1. worker.pc = "pend" /\ UNCHANGED <<presenter, live>>
  BY DEF WorkerPend
<1>2. batch \in [Batches -> BatchRecord] /\ batch[b].st = "finalizing"
  BY <1>1, WorkerBatch, WorkerCargo
<1>3. CASE ~IsCurrent(batch[b].work)
  <2>1. /\ batch' = [batch EXCEPT ![b] = FreeBatch] /\ UNCHANGED deferred
        /\ worker'.ret = Owned(b)
    BY <1>3, WorkerTakes DEF WorkerPend, retirements, Detached
  <2>2. OneWork(worker'.ret)
    BY <2>1, OneWorkOf
  <2> QED
    BY <1>1, <2>1, <2>2, Records, WorkerMovesRoom
<1>4. CASE IsCurrent(batch[b].work)
  <2>1. PICK gone \in SUBSET Batches :
        /\ \A c \in gone : batch[c].st = "pending"
        /\ batch' = [c \in Batches |->
                       IF c \in gone THEN FreeBatch
                       ELSE IF c = b THEN [batch[b] EXCEPT !.st = "pending"]
                       ELSE batch[c]]
        /\ Defer([i \in DOMAIN Ascending(gone) |-> Owned(Ascending(gone)[i])])
        /\ WorkerTo("idle", 0)
    BY <1>4, PendingGone
  <2>2. OneWork(worker'.ret)
    BY <2>1, WorkerHolds DEF OneWork
  <2>3. PICK rets : rets = [i \in DOMAIN Ascending(gone) |-> Owned(Ascending(gone)[i])]
    OBVIOUS
  <2>4. /\ rets \in Seq(SUBSET Objects) /\ Defer(rets)
        /\ \A i \in DOMAIN rets : \E c \in gone : rets[i] = Owned(c)
    BY <2>1, <2>3, LoadsParts
  <2>5. \A c \in gone : c \in Batches /\ batch[c].st # "free" /\ batch'[c].st = "free"
    BY <2>1, Records
  <2>6. WorksStay
    <3>1. b \notin gone => batch'[b].work = batch[b].work
      BY <1>2, <2>1 DEF BatchRecord
    <3>2. \A c \in Batches : c # b /\ c \notin gone => batch'[c] = batch[c]
      BY <2>1
    <3> QED
      BY <1>2, <2>5, <3>1, <3>2 DEF WorksStay
  <2>7. DeferredStays
    <3>1. \A j \in DOMAIN deferred' :
            Waited(deferred'[j]) \/ \E i \in DOMAIN rets : deferred'[j] = rets[i]
      BY <2>4, DeferredFrom DEF OwnInv, Recorded
    <3>2. \A i \in DOMAIN rets : GivenUp(rets[i])
      BY <2>4, <2>5 DEF GivenUp
    <3> HIDE DEF GivenUp, Waited
    <3>3. ASSUME NEW j \in DOMAIN deferred'
          PROVE  Waited(deferred'[j]) \/ GivenUp(deferred'[j]) \/ SourceOnly(deferred'[j])
      <4> PICK ret : ret = deferred'[j]
        OBVIOUS
      <4>1. Waited(ret) \/ \E i \in DOMAIN rets : ret = rets[i]
        BY <3>1
      <4>2. Waited(ret) \/ GivenUp(ret) \/ SourceOnly(ret)
        BY <3>2, <4>1
      <4> QED
        BY <4>2
    <3> QED
      BY <3>3 DEF DeferredStays
  <2>8. RoomLeft' /\ WorksApart' /\ RecordsSingle'
    BY <1>1, <2>2, <2>6, <2>7, RoomStays DEF RoomInv, RecordsSingle
  <2>9. PoolHolds'
    BY <1>1, PoolStays DEF RoomInv
  <2> QED
    BY <2>8, <2>9 DEF RoomInv
<1> QED
  BY <1>3, <1>4

(* A deferred record has one work at most, so there are no more of them      *)
(* than records; and there are no more works in batches than batches.        *)
LEMMA FewWaiting ==
  ASSUME RoomInv, deferred \in Seq(SUBSET Objects)
  PROVE  IsFiniteSet(Waiting) /\ Cardinality(Waiting) <= Len(deferred)
<1> DEFINE J == 1..Len(deferred)
           f == [w \in Waiting |-> CHOOSE i \in J : w \in Bare(deferred[i])]
<1>1. DOMAIN deferred = J /\ Len(deferred) \in Nat
  OBVIOUS
<1>2. \A w \in Waiting : f[w] \in J /\ w \in Bare(deferred[f[w]])
  BY <1>1 DEF Waiting
<1>3. \A i \in J : \A v, w \in Bare(deferred[i]) : v = w
  <2> TAKE i \in J
  <2> TAKE v, w \in Bare(deferred[i])
  <2>1. <<"endpoint", v>> \in deferred[i] /\ <<"endpoint", w>> \in deferred[i]
    BY DEF Bare
  <2>2. OneWork(deferred[i])
    BY <1>1 DEF RoomInv, RecordsSingle
  <2>3. <<"endpoint", v>>[2] = <<"endpoint", w>>[2]
    BY <2>1, <2>2 DEF OneWork
  <2> QED
    BY <2>3
<1>4. f \in [Waiting -> J]
  BY <1>2
<1>5. \A v, w \in Waiting : f[v] = f[w] => v = w
  BY <1>2, <1>3
<1> HIDE DEF f
<1>6. f \in Injection(Waiting, J)
  BY <1>4, <1>5 DEF Injection, IsInjective
<1>7. IsFiniteSet(J) /\ Cardinality(J) = Len(deferred)
  BY <1>1, FS_Interval
<1>8. IsFiniteSet(Waiting) /\ Cardinality(Waiting) <= Cardinality(J)
  BY ONLY <1>6, <1>7, FS_Injection
<1> QED
  BY <1>7, <1>8

LEMMA FewWorking ==
  ASSUME NEW bs, NEW S \in SUBSET Batches
  PROVE  /\ IsFiniteSet({bs[b].work : b \in S})
         /\ Cardinality({bs[b].work : b \in S}) <= BatchCapacity
<1> DEFINE W == {bs[b].work : b \in S}
           f == [w \in W |-> CHOOSE b \in Batches : bs[b].work = w]
<1>1. \A w \in W : f[w] \in Batches /\ bs[f[w]].work = w
  OBVIOUS
<1>2. f \in [W -> Batches] /\ \A v, w \in W : f[v] = f[w] => v = w
  BY <1>1
<1> HIDE DEF f
<1>3. f \in Injection(W, Batches)
  BY <1>2 DEF Injection, IsInjective
<1>4. IsFiniteSet(Batches) /\ Cardinality(Batches) = BatchCapacity
  BY LaneAssumption, FS_Interval DEF Batches
<1> HIDE DEF W
<1>5. IsFiniteSet(W) /\ Cardinality(W) <= BatchCapacity
  <2>1. IsFiniteSet(W) /\ Cardinality(W) <= Cardinality(Batches)
    BY ONLY <1>3, <1>4, FS_Injection
  <2> QED
    BY <1>4, <2>1
<1> QED
  BY <1>5 DEF W

(* Nothing but its commit exists of the work the worker starts on.           *)
LEMMA HeadIsNew ==
  ASSUME LaneInv, OwnInv, fifo # <<>>, ~blocked, workBatch = 0
  PROVE  /\ Head(fifo) \in Works
         /\ \A o \in live : o[2] = Head(fifo) => o[1] = "commit"
<1> PICK w : w = Head(fifo)
  OBVIOUS
<1>1. w \in Works /\ IsCurrent(w) /\ w.seq = acked + 1 /\ acked \in Nat
  BY FifoHead
<1>2. \A v : ~InCheck(v)
  BY DEF InCheck
<1>3. \A o \in live : o[1] # "commit" /\ o[2].epoch = epoch => o[2].seq <= acked
  BY <1>2 DEF OwnInv, CompiledOnce
<1>4. \A o \in live : o[2] = w => o[1] = "commit"
  BY <1>1, <1>3 DEF IsCurrent
<1> QED
  BY <1>1, <1>4

LEMMA WorkerStartRoom == ASSUME LaneInv, OwnInv, RoomInv, WorkerStart PROVE RoomInv'
<1> DEFINE free == InState({"free"})
           first == CHOOSE c \in free : \A o \in free : c <= o
<1>1. free \in SUBSET Batches /\ free # {}
  BY DEF InState, WorkerStart
<1>2. first \in free
  BY <1>1, FirstBatch
<1> HIDE DEF first
<1> PICK b \in Batches : b = first
  BY <1>1, <1>2
<1> PICK w, new : w = Head(fifo) /\ new = [FreeBatch EXCEPT !.st = "compiling", !.work = w, !.has = {"commit"}]
  OBVIOUS
<1>3. /\ worker.pc = "idle" /\ ~blocked /\ workBatch = 0 /\ fifo # <<>>
      /\ batch' = [batch EXCEPT ![b] = new] /\ WorkerTo("compile", b)
      /\ Len(deferred) < BatchCapacity
      /\ UNCHANGED <<presenter, deferred, live>>
  BY DEF WorkerStart, WorkerMayStart, DeferredReserve, retirements, first
<1>4. batch[b].st = "free" /\ batch \in [Batches -> BatchRecord] /\ deferred \in Seq(SUBSET Objects)
  BY <1>2 DEF InState, LaneInv, Shaped, OwnInv, Recorded
<1>5. new.work = w /\ new.st = "compiling"
  BY DEF FreeBatch
<1>6. w \in Works /\ \A o \in live : o[2] = w => o[1] = "commit"
  BY <1>3, HeadIsNew
<1>7. /\ \A c \in Batches : c # b => batch'[c] = batch[c]
      /\ batch'[b] = new
  BY <1>3, <1>4
<1>8. Occupied' = Occupied \cup {b} /\ b \notin Occupied
  BY <1>4, <1>5, <1>7 DEF Occupied
<1>9. ASSUME NEW c \in Occupied PROVE batch[c].work # w
  <2>1. c \in Batches /\ batch[c].st # "free"
    BY DEF Occupied
  <2>2. batch[c].st \notin WorkStates
    <3>1. 0 \notin Batches
      BY LaneAssumption DEF Batches
    <3> QED
      BY <1>3, <2>1, <3>1 DEF LaneInv, WorkerPlaced
  <2>3. "endpoint" \in batch[c].has
    <3>1. batch[c].has = Cargo(batch[c].st)
      BY <2>1 DEF OwnInv, Carried
    <3>2. batch[c].st \notin {"free", "compiling", "checking", "waiting", "finalizing"}
      BY <2>1, <2>2 DEF WorkStates
    <3> QED
      BY <3>1, <3>2 DEF Cargo
  <2>4. <<"endpoint", batch[c].work>> \in live
    <3>1. <<"endpoint", batch[c].work>> \in Owned(c)
      BY <2>3, InOf DEF Owned
    <3>2. Owned(c) \subseteq live
      BY <2>1, OwnTyped DEF InBatches
    <3> QED
      BY <3>1, <3>2
  <2>5. <<"endpoint", batch[c].work>>[2] = batch[c].work /\ <<"endpoint", batch[c].work>>[1] # "commit"
    OBVIOUS
  <2> QED
    BY <1>6, <2>4, <2>5
<1>10. ASSUME NEW i \in DOMAIN deferred PROVE <<"endpoint", w>> \notin deferred[i]
  <2>1. deferred[i] \subseteq live
    BY DEF OwnInv, Whole, Parted, InDeferred
  <2>2. <<"endpoint", w>>[2] = w /\ <<"endpoint", w>>[1] # "commit"
    OBVIOUS
  <2> QED
    BY <1>6, <2>1, <2>2
<1>11. WorksApart'
  <2>1. \A c \in Occupied : batch'[c].work = batch[c].work
    BY <1>7, <1>8 DEF Occupied
  <2>2. \A c, d \in Occupied' : batch'[c].work = batch'[d].work => c = d
    <3> PICK bs, now : bs = batch' /\ now = Occupied'
      OBVIOUS
    <3>1. \A c \in now : \/ c = b /\ bs[c].work = w
                         \/ c \in Occupied /\ bs[c].work = batch[c].work /\ bs[c].work # w
      BY <1>5, <1>7, <1>8, <1>9, <2>1
    <3>2. \A c, d \in Occupied : batch[c].work = batch[d].work => c = d
      BY DEF RoomInv, WorksApart
    <3>3. \A c, d \in now : bs[c].work = bs[d].work => c = d
      BY <3>1, <3>2
    <3> QED
      BY <3>3
  <2>3. \A c \in Occupied' : \A i \in DOMAIN deferred : <<"endpoint", batch'[c].work>> \notin deferred[i]
    BY <1>5, <1>7, <1>8, <1>10, <2>1 DEF RoomInv, WorksApart
  <2> QED
    BY <1>3, <2>2, <2>3 DEF WorksApart
<1>12. RoomLeft'
  <2>1. Waiting' = Waiting
    BY <1>3 DEF Waiting, Bare
  <2>2. Working' = {batch'[c].work : c \in Occupied'} /\ Occupied' \in SUBSET Batches
    BY DEF Working, Occupied
  <2>3. IsFiniteSet(Working') /\ Cardinality(Working') <= BatchCapacity
    BY <2>2, FewWorking
  <2>4. IsFiniteSet(Waiting) /\ Cardinality(Waiting) <= Len(deferred)
    BY <1>4, FewWaiting
  <2>5. /\ IsFiniteSet(Waiting \cup Working')
        /\ Cardinality(Waiting \cup Working') =
             Cardinality(Waiting) + Cardinality(Working') - Cardinality(Waiting \cap Working')
    BY ONLY <2>3, <2>4, FS_Union
  <2>6. IsFiniteSet(Waiting \cap Working')
    <3>1. Waiting \cap Working' \in SUBSET Waiting
      OBVIOUS
    <3> QED
      BY ONLY <2>4, <3>1, FS_Subset
  <2>7. /\ Cardinality(Waiting) \in Nat /\ Cardinality(Working') \in Nat
        /\ Cardinality(Waiting \cap Working') \in Nat
    BY ONLY <2>3, <2>4, <2>6, FS_CardinalityType
  <2>8. BatchCapacity \in Nat /\ Len(deferred) \in Nat
    BY <1>4, LaneAssumption
  <2>9. Cardinality(Waiting \cup Working') < 2 * BatchCapacity
    BY <1>3, <2>3, <2>4, <2>5, <2>7, <2>8
  <2> QED
    BY <2>1, <2>5, <2>9 DEF RoomLeft
<1>13. RecordsSingle'
  <2>1. worker'.ret = {}
    BY <1>3, WorkerHolds
  <2>2. OneWork(worker'.ret)
    BY <2>1 DEF OneWork
  <2> QED
    BY <1>3, <2>2 DEF RoomInv, RecordsSingle
<1>14. PoolHolds'
  BY <1>3, PoolStays DEF RoomInv
<1> QED
  BY <1>11, <1>12, <1>13, <1>14 DEF RoomInv

LEMMA WorkerRoom == ASSUME LaneInv, OwnInv, RoomInv, Worker PROVE RoomInv'
BY WorkerStartRoom, WorkerPollRoom, CompileReturnsRoom, FenceReturnsRoom, WorkerRetiresRoom,
   WorkerFailedRoom, WorkerPendRoom DEF Worker

LEMMA RoomInit == ASSUME Init PROVE RoomInv
<1>1. /\ deferred = <<>> /\ live = {} /\ worker.ret = {} /\ presenter.ret = {}
      /\ \A b \in Batches : batch[b].st = "free"
  BY DEF Init, IdleWorker, IdlePresenter, FreeBatch
<1>2. DOMAIN deferred = {} /\ Occupied = {}
  BY <1>1 DEF Occupied
<1>3. Waiting \cup Working = {} /\ CommitsInUse = {}
  BY <1>1, <1>2 DEF Waiting, Working, CommitsInUse
<1>4. IsFiniteSet({}) /\ Cardinality({}) = 0
  BY ONLY FS_EmptySet
<1>5. 0 < 2 * BatchCapacity /\ 0 <= SourceCapacity
  BY LaneAssumption
<1>6. RoomLeft /\ PoolHolds
  BY <1>3, <1>4, <1>5 DEF RoomLeft, PoolHolds
<1>7. RecordsSingle /\ WorksApart
  BY <1>1, <1>2 DEF RecordsSingle, WorksApart, OneWork
<1> QED
  BY <1>6, <1>7 DEF RoomInv

(* Whatever is deferred is of one work for each record; the works of what    *)
(* was batches and of what are batches differ, and are fewer than twice the  *)
(* batches; and the pool is never overdrawn.                                 *)
THEOREM LaneRoom == Spec => []RoomInv
<1>1. Init => RoomInv
  BY RoomInit
<1>2. LaneInv /\ OwnInv /\ RoomInv /\ [Next]_vars => RoomInv'
  <2>1. ASSUME LaneInv, OwnInv, RoomInv, UNCHANGED vars PROVE RoomInv'
    <3>1. UNCHANGED <<deferred, batch, worker, presenter, live>>
      BY <2>1 DEF vars, retirements
    <3>2. PoolHolds'
      BY <2>1, <3>1, PoolStays DEF RoomInv
    <3> QED
      BY <2>1, <3>1, <3>2, RoomUntouched DEF RoomInv, RecordsSingle
  <2> QED
    BY <2>1, CollectorRoom, LifecycleRoom, WorkerRoom, PresenterRoom DEF Next
<1> QED
  BY <1>1, <1>2, LaneInvariant, LaneOwnership, PTL DEF Spec

(* Counting by comparison.                                                   *)
LEMMA NoMore ==
  ASSUME NEW S, NEW T, IsFiniteSet(T), NEW f \in [S -> T],
         \A x, y \in S : f[x] = f[y] => x = y
  PROVE  IsFiniteSet(S) /\ Cardinality(S) <= Cardinality(T)
<1>1. f \in Injection(S, T)
  BY DEF Injection, IsInjective
<1> QED
  BY ONLY <1>1, IsFiniteSet(T), FS_Injection

LEMMA TwoParts ==
  ASSUME NEW C, IsFiniteSet(C), NEW A \in SUBSET C, NEW B \in SUBSET C, A \cap B = {}
  PROVE  /\ IsFiniteSet(A) /\ IsFiniteSet(B)
         /\ Cardinality(A) \in Nat /\ Cardinality(B) \in Nat /\ Cardinality(C) \in Nat
         /\ Cardinality(A) + Cardinality(B) <= Cardinality(C)
         /\ C = A \cup B => Cardinality(C) = Cardinality(A) + Cardinality(B)
<1>1. IsFiniteSet(A) /\ IsFiniteSet(B)
  BY ONLY IsFiniteSet(C), A \in SUBSET C, B \in SUBSET C, FS_Subset
<1>2. Cardinality(A) \in Nat /\ Cardinality(B) \in Nat /\ Cardinality(C) \in Nat
  BY ONLY <1>1, IsFiniteSet(C), FS_CardinalityType
<1>3. /\ IsFiniteSet(A \cup B)
      /\ Cardinality(A \cup B) = Cardinality(A) + Cardinality(B) - Cardinality(A \cap B)
  BY ONLY <1>1, FS_Union
<1>4. Cardinality(A \cap B) = 0
  <2>1. Cardinality({}) = 0
    BY ONLY FS_EmptySet
  <2> QED
    BY ONLY <2>1, A \cap B = {}
<1>5. Cardinality(A \cup B) = Cardinality(A) + Cardinality(B)
  BY <1>2, <1>3, <1>4
<1>6. A \cup B \in SUBSET C
  OBVIOUS
<1>7. Cardinality(A \cup B) <= Cardinality(C)
  BY ONLY <1>6, IsFiniteSet(C), FS_Subset
<1> QED
  BY <1>1, <1>2, <1>5, <1>7

(* A record of one work has no more objects than kinds.                      *)
LEMMA OneOfEachKind ==
  ASSUME NEW ret \in SUBSET Objects, OneWork(ret), NEW kinds, IsFiniteSet(kinds)
  PROVE  OfKind(ret, kinds) <= Cardinality(kinds)
<1> DEFINE S == {o \in ret : o[1] \in kinds}
           f == [o \in S |-> o[1]]
<1>1. f \in [S -> kinds]
  OBVIOUS
<1>2. \A o, p \in S : f[o] = f[p] => o = p
  <2>1. \A o, p \in S : o[2] = p[2] /\ o \in Kinds \X Works /\ p \in Kinds \X Works
    BY DEF OneWork, Objects
  <2> QED
    BY <2>1
<1> HIDE DEF f, S
<1>3. Cardinality(S) <= Cardinality(kinds)
  BY ONLY <1>1, <1>2, IsFiniteSet(kinds), NoMore
<1> QED
  BY <1>3 DEF OfKind, S

(* The records with a commit, and the sources, are no more than the commits. *)
WithSource == {i \in DOMAIN deferred : \E w \in Works : <<"commit", w>> \in deferred[i]}
LEMMA SourcesFit ==
  ASSUME LaneInv, OwnInv, RoomInv
  PROVE  /\ IsFiniteSet(WithSource) /\ Cardinality(WithSource) \in Nat
         /\ Cardinality(WithSource) + Len(fifo) <= SourceCapacity
<1> DEFINE A == {o \in CommitsInUse : o \in InDeferred}
           f == [i \in WithSource |-> CHOOSE o \in CommitsInUse : o \in deferred[i]]
           g == [i \in DOMAIN fifo |-> <<"commit", fifo[i]>>]
<1>1. \A i \in DOMAIN deferred : deferred[i] \subseteq live /\ deferred[i] \subseteq InDeferred
  BY DEF OwnInv, Whole, Parted, InDeferred
<1>2. ASSUME NEW i \in WithSource PROVE f[i] \in A /\ f[i] \in deferred[i]
  <2>1. i \in DOMAIN deferred
    BY DEF WithSource
  <2>2. PICK w \in Works : <<"commit", w>> \in deferred[i]
    BY DEF WithSource
  <2>3. <<"commit", w>> \in CommitsInUse
    BY <1>1, <2>1, <2>2 DEF CommitsInUse
  <2>4. f[i] \in CommitsInUse /\ f[i] \in deferred[i]
    BY <2>2, <2>3
  <2> HIDE DEF f
  <2> QED
    BY <1>1, <2>1, <2>4
<1>3. f \in [WithSource -> A]
  BY <1>2
<1> HIDE DEF f
<1>4. \A i, j \in WithSource : f[i] = f[j] => i = j
  BY <1>2 DEF OwnInv, DeferredApart, WithSource
<1>5. Sources \in SUBSET CommitsInUse /\ A \in SUBSET CommitsInUse /\ Sources \cap A = {}
  BY OwnTyped DEF Sources, Held, CommitsInUse, OwnInv, Whole, Parted
<1>6. g \in [DOMAIN fifo -> Sources] /\ \A i, j \in DOMAIN fifo : g[i] = g[j] => i = j
  BY SourcesApart DEF Sources
<1>7. IsFiniteSet(CommitsInUse) /\ Cardinality(CommitsInUse) <= SourceCapacity
  BY DEF RoomInv, PoolHolds
<1>8. Len(fifo) \in Nat /\ DOMAIN fifo = 1..Len(fifo)
  BY SourcesApart
<1>9. Cardinality(DOMAIN fifo) = Len(fifo)
  <2>1. Cardinality(1..Len(fifo)) = IF 1 > Len(fifo) THEN 0 ELSE Len(fifo) - 1 + 1
    BY <1>8, FS_Interval
  <2> QED
    BY <1>8, <2>1
<1> HIDE DEF g, A
<1>10. /\ IsFiniteSet(Sources) /\ IsFiniteSet(A)
       /\ Cardinality(Sources) \in Nat /\ Cardinality(A) \in Nat /\ Cardinality(CommitsInUse) \in Nat
       /\ Cardinality(Sources) + Cardinality(A) <= Cardinality(CommitsInUse)
  BY ONLY <1>5, <1>7, TwoParts
<1>11. IsFiniteSet(WithSource) /\ Cardinality(WithSource) <= Cardinality(A)
  BY ONLY <1>3, <1>4, <1>10, NoMore
<1>12. Cardinality(DOMAIN fifo) <= Cardinality(Sources)
  BY ONLY <1>6, <1>10, NoMore
<1>13. Cardinality(WithSource) \in Nat
  BY ONLY <1>11, FS_CardinalityType
<1>14. SourceCapacity \in Nat
  BY LaneAssumption
<1> QED
  BY <1>7, <1>8, <1>9, <1>10, <1>11, <1>12, <1>13, <1>14

(* The other records, and the occupied batches, are no more than the works   *)
(* that are waiting or working.                                              *)
LEMMA BatchesFit ==
  ASSUME LaneInv, OwnInv, FenceInv, RoomInv,
         NEW J, J = DOMAIN deferred \ WithSource
  PROVE  /\ IsFiniteSet(J) /\ Cardinality(J) \in Nat /\ Cardinality(Occupied) \in Nat
         /\ Cardinality(J) + Cardinality(Occupied) < 2 * BatchCapacity
<1> DEFINE f == [i \in J |-> CHOOSE w \in Waiting : w \in Bare(deferred[i])]
           g == [b \in Occupied |-> batch[b].work]
<1>1. ASSUME NEW i \in J PROVE \E w \in Works : w \in Bare(deferred[i])
  <2>1. i \in DOMAIN deferred /\ \A w \in Works : <<"commit", w>> \notin deferred[i]
    BY DEF WithSource
  <2>2. /\ deferred[i] # {} /\ deferred[i] \subseteq Objects /\ WithCommit(deferred[i])
        /\ \A w \in Works : <<"completion", w>> \in deferred[i] => <<"endpoint", w>> \in deferred[i]
    BY <2>1 DEF OwnInv, Recorded, Deferrable, FenceInv, FencesCovered
  <2>3. PICK o : o \in deferred[i]
    BY <2>2
  <2>4. PICK k \in Kinds, w \in Works : o = <<k, w>>
    BY <2>2, <2>3 DEF Objects
  <2>5. <<"endpoint", w>> \in deferred[i]
    BY <2>1, <2>2, <2>3, <2>4 DEF Kinds, Fences, WithCommit
  <2> QED
    BY <2>1, <2>5 DEF Bare
<1>2. \A i \in J : f[i] \in Waiting /\ f[i] \in Bare(deferred[i])
  BY <1>1 DEF Waiting
<1>3. f \in [J -> Waiting]
  BY <1>2
<1> HIDE DEF f
<1>4. \A i, j \in J : f[i] = f[j] => i = j
  <2>1. \A i \in J : <<"endpoint", f[i]>> \in deferred[i]
    BY <1>2 DEF Bare
  <2> QED
    BY <2>1 DEF OwnInv, DeferredApart
<1>5. g \in [Occupied -> Working] /\ \A b, c \in Occupied : g[b] = g[c] => b = c
  BY DEF Working, RoomInv, WorksApart
<1>6. Waiting \cap Working = {}
  <2>1. ASSUME NEW w \in Waiting, NEW b \in Occupied PROVE w # batch[b].work
    BY DEF Waiting, Bare, RoomInv, WorksApart
  <2> QED
    BY <2>1 DEF Working
<1> DEFINE C == Waiting \cup Working
<1>7. IsFiniteSet(C) /\ Cardinality(C) < 2 * BatchCapacity
  BY DEF RoomInv, RoomLeft
<1>8. Waiting \in SUBSET C /\ Working \in SUBSET C
  OBVIOUS
<1> HIDE DEF g, C
<1>9. /\ IsFiniteSet(Waiting) /\ IsFiniteSet(Working)
      /\ Cardinality(Waiting) \in Nat /\ Cardinality(Working) \in Nat /\ Cardinality(C) \in Nat
      /\ Cardinality(Waiting) + Cardinality(Working) <= Cardinality(C)
  BY ONLY <1>6, <1>7, <1>8, TwoParts
<1>10. IsFiniteSet(J) /\ Cardinality(J) <= Cardinality(Waiting)
  BY ONLY <1>3, <1>4, <1>9, NoMore
<1>11. IsFiniteSet(Occupied) /\ Cardinality(Occupied) <= Cardinality(Working)
  BY ONLY <1>5, <1>9, NoMore
<1>12. Cardinality(J) \in Nat /\ Cardinality(Occupied) \in Nat
  BY ONLY <1>10, <1>11, FS_CardinalityType
<1>13. 2 * BatchCapacity \in Nat
  BY LaneAssumption
<1> QED
  BY <1>7, <1>9, <1>10, <1>11, <1>12, <1>13

(* The deferred list has room for all an invalidation would defer, and no    *)
(* record holds more than two fences, one endpoint and one commit            *)
(* (logical_invalidate, worker_compile_next).                                *)
THEOREM LaneRetirementRoom == Spec => []RetirementRoom
<1>1. ASSUME LaneInv, OwnInv, FenceInv, RoomInv PROVE RetirementRoom
  <2> USE <1>1
  <2>1. Len(deferred) + Len(fifo) + Cardinality(Batches \ InState({"free"})) < DeferredCapacity - 2
    <3> PICK J : J = DOMAIN deferred \ WithSource
      OBVIOUS
    <3>1. Batches \ InState({"free"}) = Occupied
      BY DEF InState, Occupied
    <3>2. /\ Cardinality(WithSource) \in Nat
          /\ Cardinality(WithSource) + Len(fifo) <= SourceCapacity
      BY SourcesFit
    <3>3. /\ Cardinality(J) \in Nat /\ Cardinality(Occupied) \in Nat
          /\ Cardinality(J) + Cardinality(Occupied) < 2 * BatchCapacity
      BY BatchesFit
    <3>4. deferred \in Seq(SUBSET Objects)
      BY DEF OwnInv, Recorded
    <3>5. Len(deferred) \in Nat /\ DOMAIN deferred = 1..Len(deferred)
      BY <3>4
    <3> DEFINE D == DOMAIN deferred
    <3>6. IsFiniteSet(D) /\ Cardinality(D) = Len(deferred)
      BY <3>5, FS_Interval
    <3>7. J \in SUBSET D /\ WithSource \in SUBSET D /\ J \cap WithSource = {} /\ D = J \cup WithSource
      BY DEF WithSource
    <3> HIDE DEF D
    <3>8. Cardinality(D) = Cardinality(J) + Cardinality(WithSource)
      BY ONLY <3>6, <3>7, TwoParts
    <3>9. Len(fifo) \in Nat /\ SourceCapacity \in Nat /\ BatchCapacity \in Nat
      BY FifoHead, LaneAssumption
    <3>10. Cardinality(Batches \ InState({"free"})) = Cardinality(Occupied)
      BY <3>1
    <3>11. DeferredCapacity - 2 = SourceCapacity + 2 * BatchCapacity
      BY <3>9 DEF DeferredCapacity
    <3> QED
      BY <3>2, <3>3, <3>5, <3>6, <3>8, <3>9, <3>10, <3>11
  <2>2. \A ret \in {worker.ret, presenter.ret} \cup {deferred[i] : i \in DOMAIN deferred} :
          ret \in SUBSET Objects /\ OneWork(ret)
    <3>1. \A i \in DOMAIN deferred : deferred[i] \in SUBSET Objects
      BY DEF OwnInv, Recorded
    <3> QED
      BY <3>1, OwnTyped DEF RoomInv, RecordsSingle
  <2>3. /\ IsFiniteSet({"endpoint"}) /\ Cardinality({"endpoint"}) = 1
        /\ IsFiniteSet({"commit"}) /\ Cardinality({"commit"}) = 1
        /\ IsFiniteSet({"compile"}) /\ Cardinality({"compile"}) = 1
    BY ONLY FS_Singleton
  <2>4. IsFiniteSet(Fences) /\ Cardinality(Fences) = 2
    <3>1. Fences = {"compile"} \cup {"completion"} /\ "completion" \notin {"compile"}
      BY DEF Fences
    <3>2. /\ IsFiniteSet(Fences)
          /\ Cardinality(Fences) = IF "completion" \in {"compile"} THEN Cardinality({"compile"})
                                   ELSE Cardinality({"compile"}) + 1
      BY ONLY <2>3, <3>1, FS_AddElement
    <3> QED
      BY <2>3, <3>1, <3>2
  <2>5. ASSUME NEW ret \in SUBSET Objects, OneWork(ret)
        PROVE  /\ OfKind(ret, Fences) <= 2 /\ OfKind(ret, {"endpoint"}) <= 1
               /\ OfKind(ret, {"commit"}) <= 1
    <3>1. OfKind(ret, Fences) <= Cardinality(Fences)
      BY <2>4, <2>5, OneOfEachKind
    <3>2. OfKind(ret, {"endpoint"}) <= Cardinality({"endpoint"})
      BY <2>3, <2>5, OneOfEachKind
    <3>3. OfKind(ret, {"commit"}) <= Cardinality({"commit"})
      BY <2>3, <2>5, OneOfEachKind
    <3> QED
      BY <2>3, <2>4, <3>1, <3>2, <3>3
  <2> QED
    BY <2>1, <2>2, <2>5 DEF RetirementRoom
<1> QED
  BY <1>1, LaneInvariant, LaneOwnership, LaneFences, LaneRoom, PTL
====
