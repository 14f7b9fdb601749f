----------------------------- MODULE NativeWork -----------------------------
(***************************************************************************)
(* The native-work collector (xg_render_native_work.c).  The guest thread  *)
(* hands it one device operation after the other; it gathers them into a   *)
(* commit, seals it and publishes it to the presentation lane, waiting for *)
(* the worker whenever the lane or the commit pool has no room.            *)
(*                                                                         *)
(* The lane is represented by its promise, SourceLane, whose steps come in *)
(* between any two steps of the collector.  A call of the guest is a list  *)
(* todo of the locked sections it has yet to go through; a wait is a step  *)
(* that is not enabled yet, because the loops around the wait re-check     *)
(* everything and change nothing.                                          *)
(***************************************************************************)
EXTENDS Integers, SequencesExt

CONSTANTS
  SourceCapacity,  (* commits of the pool, and places in the lane's FIFO     *)
  ChunkLimit,      (* items one commit can take at most                      *)
  UploadLimit,     (* uploads after which a commit is flushed                *)
  EpochLimit, SeqLimit,        (* as in SourceLane                           *)
  CycleLimit,      (* guest cycles, 0..CycleLimit                            *)
  ItemLimit        (* items the guest submits between two cancellations      *)

ASSUME WorkAssumption ==
  /\ {SourceCapacity, ChunkLimit, UploadLimit, SeqLimit, ItemLimit} \subseteq Nat \ {0}
  /\ EpochLimit \in Nat /\ EpochLimit > 1 /\ CycleLimit \in Nat

VARIABLES
  epoch, open, blocked, published, applied, acked,   (* the lane, SourceLane  *)
  lastCycle, boundaryCycle,  (* g_last_work_cycle, the cycle of the last vblank *)
  held,        (* commits of the pool that are queued or not yet retired     *)
  stale,       (* the worker is still busy with work of an older epoch       *)
  cEpoch, workEpoch, workCycle,   (* g_epoch, g_work_epoch, g_work_cycle     *)
  builder, pending,          (* the commit being built, the sealed one       *)
  counts,      (* g_operation_count, g_temporal_count, g_upload_count        *)
  call, todo,                (* the call in progress and its steps to come   *)
  stream, out, lost          (* items accepted, items published; a seal failed *)

Lane == INSTANCE SourceLane
laneVars == <<epoch, open, blocked, published, applied, acked>>
clock == <<lastCycle, boundaryCycle>>
rooms == <<held, stale>>
session == <<cEpoch, workEpoch, workCycle>>
chunk == <<builder, pending, counts>>
history == <<stream, out, lost>>
vars == <<laneVars, clock, rooms, session, chunk, call, todo, history>>

---------------------------------------------------------------------------
(* A commit under way.  alive: its slot was not cancelled under the builder. *)
NoCommit == [epoch |-> 0, seq |-> 0, cycle |-> 0, items |-> <<>>,
             boundary |-> FALSE, alive |-> FALSE]
NoCount == [operations |-> 0, coverage |-> 0, uploads |-> 0]
NoCall == [kind |-> "none", cycle |-> 0, flushed |-> FALSE, drained |-> FALSE]

Init ==
  /\ Lane!Init
  /\ lastCycle = 0 /\ boundaryCycle = 0
  /\ held = 0 /\ stale = FALSE
  /\ cEpoch = 0 /\ workEpoch = 0 /\ workCycle = 0
  /\ builder = NoCommit /\ pending = NoCommit /\ counts = NoCount
  /\ call = NoCall /\ todo = <<>>
  /\ stream = <<>> /\ out = <<>> /\ lost = FALSE

(* lane_ready, and what it records when it succeeds.                         *)
Ready == open /\ ~blocked /\ epoch < EpochLimit /\ cEpoch \in {0, epoch}
EpochCycle == IF workEpoch = epoch THEN workCycle ELSE 0
Enter == cEpoch' = epoch /\ workEpoch' = epoch

(* publication_cycle: never before the last work or the last boundary.       *)
PublicationCycleAsGiven(c) == c  (* broken variant *)
PublicationCycle(c) ==
  CHOOSE m \in {c, boundaryCycle, EpochCycle} :
      \A o \in {c, boundaryCycle, EpochCycle} : o <= m

(* Commits in the pool that are not free: those of the lane and our own.     *)
InPool == held + (IF builder.alive THEN 1 ELSE 0) + (IF pending.alive THEN 1 ELSE 0)

---------------------------------------------------------------------------
(* The steps of a call.  begin_chunk publishes a sealed commit first and     *)
(* then begins a new one unless one is being built.                          *)
BeginStepsAgain(isBuilding) == <<"plan", "begin">>  (* broken variant *)
BeginSteps(isBuilding) ==
  IF isBuilding THEN <<>> ELSE <<"plan", "begin">>
PublishSteps == IF pending = NoCommit THEN <<>> ELSE <<"publish">>
Building == builder # NoCommit
BeginChunk == PublishSteps \o BeginSteps(Building)

(* flush; a sealed boundary already stands for the boundary asked for.       *)
FlushSteps(isBoundary) ==
  IF pending # NoCommit
  THEN <<"publish">> \o (IF ~isBoundary \/ pending.boundary THEN <<>>
                         ELSE BeginSteps(Building) \o <<"seal", "publish">>)
  ELSE IF Building THEN <<"seal", "publish">>
  ELSE IF isBoundary THEN <<"plan", "begin", "seal", "publish">>
  ELSE <<>>

Flush == FlushSteps(FALSE)
DrainWithoutFlush == <<"drained">>  (* broken variant *)
Drain == Flush \o <<"drained">>

(* An upload flushes first when the commit has enough uploads or items, and  *)
(* imports its pixels before it is appended like any other operation.        *)
UploadIsLate ==
  /\ pending = NoCommit
  /\ counts.uploads >= UploadLimit \/ counts.operations >= ChunkLimit
UploadSteps ==
  BeginChunk \o (IF UploadIsLate THEN <<"seal", "publish", "plan", "begin">> ELSE <<>>)
             \o <<"import", "append">>

(* An ordinary invalidation keeps all mutations: it drains first.  Reset and *)
(* restore do not; a restore then records the whole image in the new epoch.  *)
Cancelled == <<"cancel", "invalidate", "cancel">>
CallSteps ==
  [operation |-> <<"ready">> \o BeginChunk \o <<"append">>,
   coverage  |-> <<"ready">> \o BeginChunk \o <<"ready", "append">>,
   upload    |-> <<"ready">> \o UploadSteps,
   flush     |-> <<"ready">> \o Flush,
   boundary  |-> <<"ready">> \o FlushSteps(TRUE),
   drain     |-> <<"ready">> \o Drain,
   scene     |-> <<"ready">> \o Drain \o <<"invalidate", "cancel">>,
   reset     |-> Cancelled,
   restore   |-> Cancelled \o <<"rebase", "ready", "drained", "plan", "begin",
                                "import", "append">>]

Items == {"operation", "coverage", "upload", "restore"}
CallStart(kind, cycle) ==
  /\ todo = <<>>
  /\ kind \in Items => Len(stream) < ItemLimit
  /\ call' = [NoCall EXCEPT !.kind = kind, !.cycle = cycle]
  /\ todo' = CallSteps[kind]
  /\ UNCHANGED <<laneVars, clock, rooms, session, chunk, history>>

At(step) == todo # <<>> /\ Head(todo) = step
Then(steps) == todo' = steps \o Tail(todo) /\ UNCHANGED call
Fails == todo' = <<>> /\ UNCHANGED call

(* What each step requires; a call is refused where it does not hold.        *)
Admissible(c) ==  (* xg_render_source_queue_publish *)
  c.epoch = epoch /\ c.seq = published + 1 /\ c.cycle >= lastCycle
CycleOk(c) == c >= lastCycle /\ c >= boundaryCycle
HasRoom == published - acked < SourceCapacity /\ InPool < SourceCapacity
Accepted(step) ==
  CASE step \in {"ready", "drained"} -> Ready
    [] step = "publish" -> Ready /\ Admissible(pending)
    [] step = "plan" -> /\ Ready /\ published < SeqLimit
                        /\ CycleOk(PublicationCycle(call.cycle))
    [] step = "append" -> builder.alive
    [] step = "seal" -> /\ Ready /\ builder.alive
                        /\ builder.epoch = epoch /\ builder.seq = published + 1
                        /\ CycleOk(PublicationCycle(call.cycle))
                        /\ PublicationCycle(call.cycle) >= builder.cycle
    [] step = "rebase" -> cEpoch # epoch
    [] OTHER -> TRUE
On(step) == At(step) /\ Accepted(step)

Refused ==
  /\ todo # <<>> /\ ~Accepted(Head(todo))
  /\ Fails
  /\ UNCHANGED <<laneVars, clock, rooms, session, chunk, history>>

(* The host refuses to wait, or a callback or the data of the item fails.    *)
HostFails ==
  /\ todo # <<>>
  /\ Head(todo) \in {"plan", "drained", "import", "append", "seal"}
  /\ Fails
  /\ UNCHANGED <<laneVars, clock, rooms, session, chunk, history>>

(* begin_chunk takes the cycle only after it has published a sealed commit.  *)
StepReady ==
  /\ On("ready")
  /\ Enter
  /\ workCycle' = IF call.kind \in Items /\ pending # NoCommit THEN EpochCycle
                  ELSE PublicationCycle(call.cycle)
  /\ Then(<<>>)
  /\ UNCHANGED <<laneVars, clock, rooms, chunk, history>>

StepPublish ==
  /\ On("publish") /\ published - acked < SourceCapacity
  /\ Lane!Publish
  /\ lastCycle' = pending.cycle
  /\ held' = held + 1
  /\ pending' = NoCommit /\ counts' = NoCount
  /\ out' = out \o pending.items
  /\ Then(<<>>)
  /\ UNCHANGED <<boundaryCycle, stale, session, builder, stream, lost>>

(* The identity of the new commit is read from the lane, and checked, before *)
(* the pool is asked for a slot; both waits are here.                        *)
StepPlan ==
  /\ On("plan") /\ HasRoom
  /\ Enter /\ workCycle' = PublicationCycle(call.cycle)
  /\ builder' = [NoCommit EXCEPT !.epoch = epoch, !.seq = published + 1,
                                 !.cycle = workCycle']
  /\ Then(<<>>)
  /\ UNCHANGED <<laneVars, clock, rooms, pending, counts, history>>

StepBegin ==
  /\ On("begin")
  /\ \/ builder' = [builder EXCEPT !.alive = TRUE] /\ Then(<<>>)
     \/ builder' = NoCommit /\ Fails
  /\ UNCHANGED <<laneVars, clock, rooms, session, pending, counts, history>>

(* Only one import is retried, after a drain has released our own uploads.   *)
StepImport ==
  /\ On("import")
  /\ \/ Then(<<>>)
     \/ /\ ~call.drained
        /\ todo' = <<"ready">> \o Drain \o <<"plan", "begin", "import", "append">>
        /\ call' = [call EXCEPT !.drained = TRUE]
  /\ UNCHANGED <<laneVars, clock, rooms, session, chunk, history>>

(* append_native_operation and append_temporal_coverage.  The new item is    *)
(* the next number; a restored image is number 0.  A service that then fails *)
(* stops the caller, but the item stays.                                     *)
Item == IF call.kind = "restore" THEN 0 ELSE Len(stream) + 1
StepAppend ==
  LET isCoverage == call.kind = "coverage"
      isUpload == call.kind \in {"upload", "restore"}
  IN /\ On("append") /\ Len(builder.items) < ChunkLimit
     /\ builder' = [builder EXCEPT !.items = Append(@, Item)]
     /\ counts' = [counts EXCEPT !.operations = @ + (IF isCoverage THEN 0 ELSE 1),
                                 !.coverage = @ + (IF isCoverage THEN 1 ELSE 0),
                                 !.uploads = @ + (IF isUpload THEN 1 ELSE 0)]
     /\ stream' = Append(stream, Item)
     /\ Then(<<>>)
     /\ UNCHANGED <<laneVars, clock, rooms, session, pending, out, lost>>

(* Broken variant: after the flush the item itself is not appended again.    *)
AppendFullDrops ==
  /\ On("append") /\ ~call.flushed
  /\ call' = [call EXCEPT !.flushed = TRUE]
  /\ todo' = <<"ready", "seal", "publish">>
  /\ stream' = Append(stream, Item)
  /\ UNCHANGED <<laneVars, clock, rooms, session, chunk, out, lost>>

(* A commit without room is flushed, and the item tried once more.  The item *)
(* count is not the only limit of a commit, so one may be full earlier.  A   *)
(* commit that is full although it is empty refuses the item.                *)
AppendFull ==
  /\ On("append")
  /\ IF ~call.flushed /\ (counts # NoCount \/ call.kind = "coverage")
     THEN /\ call' = [call EXCEPT !.flushed = TRUE]
          /\ todo' = <<"ready", "seal", "publish", "plan", "begin", "append">>
     ELSE Fails
  /\ UNCHANGED <<laneVars, clock, rooms, session, chunk, history>>

(* A seal refreshes the identity, keeping its sequence, then freezes the     *)
(* commit.  If the pool refuses, the commit is gone and the counters stay.   *)
StepSeal ==
  /\ On("seal")
  /\ builder' = NoCommit
  /\ \/ /\ pending' = [builder EXCEPT !.cycle = PublicationCycle(call.cycle),
                                      !.boundary = (call.kind = "boundary")]
        /\ Then(<<>>) /\ UNCHANGED lost
     \/ /\ Fails /\ lost' = TRUE /\ UNCHANGED pending
  /\ UNCHANGED <<laneVars, clock, rooms, session, counts, stream, out>>

(* Broken variant: work of an older epoch is not waited for.                 *)
StepDrainedWhileBusy ==
  /\ On("drained") /\ acked = published
  /\ Enter /\ workCycle' = EpochCycle
  /\ Then(<<>>)
  /\ UNCHANGED <<laneVars, clock, rooms, chunk, history>>

StepDrained ==
  /\ On("drained") /\ acked = published /\ ~stale
  /\ Enter /\ workCycle' = EpochCycle
  /\ Then(<<>>)
  /\ UNCHANGED <<laneVars, clock, rooms, chunk, history>>

(* cancel_pending forgets this collector's unpublished commits; a restore    *)
(* does so again after checking that it comes after its invalidation.        *)
StepCancel ==
  /\ On("cancel") \/ On("rebase")
  /\ builder' = NoCommit /\ pending' = NoCommit /\ counts' = NoCount
  /\ cEpoch' = 0
  /\ stream' = <<>> /\ out' = <<>> /\ lost' = FALSE
  /\ Then(<<>>)
  /\ UNCHANGED <<laneVars, clock, rooms, workEpoch, workCycle>>

---------------------------------------------------------------------------
(* The lane around the collector.  An invalidation cancels the builder, and  *)
(* may leave the worker with work it has already begun.                      *)
InvalidateLane ==
  /\ Lane!Invalidate
  /\ lastCycle' = 0 /\ boundaryCycle' = 0
  /\ stale' \in {stale, TRUE} /\ (stale' => stale \/ acked < published)
  /\ builder' = [builder EXCEPT !.alive = FALSE]
  /\ UNCHANGED <<held, session, pending, counts, history>>

StepInvalidate ==
  /\ On("invalidate") /\ Then(<<>>)
  /\ IF epoch < EpochLimit THEN InvalidateLane
     ELSE UNCHANGED <<laneVars, clock, rooms, session, chunk, history>>

(* The host closes or resets presentation whenever it likes.                 *)
HostCloses == InvalidateLane /\ ~open' /\ UNCHANGED <<call, todo>>
HostOpens ==
  /\ Lane!Open /\ held = 0 /\ ~stale
  /\ UNCHANGED <<clock, rooms, session, chunk, call, todo, history>>

(* A vblank of the guest, between two calls.                                 *)
SourceBoundary(cycle) ==
  /\ todo = <<>> /\ open /\ epoch < EpochLimit
  /\ boundaryCycle' = cycle /\ cycle # boundaryCycle
  /\ UNCHANGED <<laneVars, lastCycle, rooms, session, chunk, call, todo, history>>

LaneWorks ==
  /\ Lane!Apply \/ Lane!Ack \/ Lane!Block
  /\ UNCHANGED <<clock, rooms, session, chunk, call, todo, history>>

Release ==
  /\ held > published - acked
  /\ held' = held - 1
  /\ UNCHANGED <<laneVars, clock, stale, session, chunk, call, todo, history>>

StaleEnds ==
  /\ stale /\ stale' = FALSE
  /\ UNCHANGED <<laneVars, clock, held, session, chunk, call, todo, history>>

---------------------------------------------------------------------------
Collector ==
  \/ StepReady \/ StepPublish \/ StepPlan \/ StepBegin \/ StepImport
  \/ StepAppend \/ AppendFull \/ StepSeal \/ StepDrained \/ StepCancel
  \/ StepInvalidate \/ Refused

Next ==
  \/ \E kind \in DOMAIN CallSteps, cycle \in 0..CycleLimit : CallStart(kind, cycle)
  \/ \E cycle \in 0..CycleLimit : SourceBoundary(cycle)
  \/ Collector \/ HostFails \/ HostCloses \/ HostOpens \/ LaneWorks \/ Release \/ StaleEnds

Spec == Init /\ [][Next]_vars

---------------------------------------------------------------------------
(* The shape of the collector's state.                                       *)
Steps == {"ready", "publish", "plan", "begin", "import", "append", "seal",
          "drained", "cancel", "rebase", "invalidate"}
Commit == [epoch : 0..EpochLimit, seq : 0..SeqLimit, cycle : 0..CycleLimit,
           items : Seq(0..ItemLimit), boundary : BOOLEAN, alive : BOOLEAN]
TypeOK ==
  /\ epoch \in 1..EpochLimit /\ open \in BOOLEAN /\ blocked \in BOOLEAN
  /\ {published, applied, acked} \subseteq 0..SeqLimit
  /\ {lastCycle, boundaryCycle, workCycle} \subseteq 0..CycleLimit
  /\ held \in 0..SourceCapacity /\ stale \in BOOLEAN
  /\ {cEpoch, workEpoch} \subseteq 0..EpochLimit
  /\ builder \in Commit /\ pending \in Commit
  /\ Len(builder.items) <= ChunkLimit
  /\ counts \in [operations : Nat, coverage : Nat, uploads : 0..UploadLimit]
  /\ call \in [kind : {"none"} \cup DOMAIN CallSteps, cycle : 0..CycleLimit,
               flushed : BOOLEAN, drained : BOOLEAN]
  /\ todo \in Seq(Steps)
  /\ stream \in Seq(0..ItemLimit) /\ out \in Seq(0..ItemLimit) /\ lost \in BOOLEAN

(* "Operations stay in FIFO order, a rejected operation must not be silently *)
(* omitted": what was published, sealed and collected is, in this order,     *)
(* exactly what the guest submitted, across flushes in the middle of an      *)
(* append, waits that failed and were retried, and both reasons to drain.    *)
(* Only a seal the pool refuses may lose items, and never reorders them.     *)
Collected == out \o pending.items \o builder.items
StreamKept ==
  /\ ~lost => Collected = stream
  /\ \A i, j \in DOMAIN Collected : i < j => Collected[i] < Collected[j]
  /\ builder = NoCommit \/ pending = NoCommit

(* "Preserving mutations requires drain before invalidation": when an        *)
(* ordinary invalidation is about to happen, nothing of the epoch is         *)
(* uncollected, queued or half executed (timeline_invalidate_locked, drain). *)
SceneIsDrained ==
  call.kind = "scene" /\ At("invalidate") =>
    /\ builder = NoCommit /\ pending = NoCommit
    /\ acked = published /\ applied = acked

(* The image of a restore is the first item of its epoch, recorded only when *)
(* no work, old or new, can still write over it (vram_event).                *)
RestoreIsAlone ==
  \A i \in DOMAIN builder.items :
      builder.items[i] = 0 /\ builder.epoch = epoch =>
        i = 1 /\ out = <<>> /\ acked = published /\ ~stale

(* The lane never refuses a commit for its identity while the lane is ready  *)
(* for the collector: although operations may arrive with cycles older than  *)
(* ones already published, and boundaries in between, publication_cycle is   *)
(* always late enough, and the sequence taken at begin is still the next one *)
(* at seal and publish.                                                      *)
IdentityHolds ==
  Ready =>
    /\ todo # <<>> => CycleOk(PublicationCycle(call.cycle))
    /\ builder.alive /\ builder.epoch = epoch =>
         /\ builder.seq = published + 1
         /\ todo # <<>> => PublicationCycle(call.cycle) >= builder.cycle
    /\ pending # NoCommit /\ pending.epoch = epoch => Admissible(pending)

(* Fairness: the guest thread runs, and the lane keeps the promise its own   *)
(* liveness is checked for: work settles, commits are retired, work of an    *)
(* older epoch comes to its end.                                             *)
Fairness ==
  /\ WF_vars(Collector) /\ WF_vars(LaneWorks)
  /\ WF_vars(Release) /\ WF_vars(StaleEnds)
FairSpec == Spec /\ Fairness

(* No call of the guest waits forever: whatever it waits for never depends   *)
(* on a commit the collector itself keeps back (begin_chunk, drain).         *)
CallReturns == todo # <<>> ~> todo = <<>>
=============================================================================
