------------------------ MODULE SemanticPresentation ------------------------
(***************************************************************************)
(* The presentation lane (xg_render_semantic_presentation.c).  A collector *)
(* publishes sealed source commits to a FIFO; one worker compiles the head *)
(* of the FIFO into an endpoint, acknowledges the source and turns the     *)
(* batch over to one presenter, which composes and swaps it.  Any of the   *)
(* threads may invalidate the epoch at any time.                           *)
(*                                                                         *)
(* All state is behind one spin lock, and every backend callback runs      *)
(* outside it.  So an action here is one locked section together with the  *)
(* outcome of the callback before it, and the program counters of worker   *)
(* and presenter name the callback they are in.                            *)
(*                                                                         *)
(* What the lane must not leak or release twice are the objects it is      *)
(* handed: commits of the source pool, and the fences and endpoints of the *)
(* backend.  An object is a pair <<kind, work>>, and a retirement record   *)
(* is the set of the objects it is going to release.                       *)
(***************************************************************************)
EXTENDS Integers, FiniteSets, SequencesExt

CONSTANTS
  SourceCapacity,  (* XG_RENDER_SOURCE_COMMIT_CAPACITY                       *)
  BatchCapacity,   (* XG_RENDER_PRESENTATION_BATCH_CAPACITY                  *)
  EpochLimit,      (* the terminal epoch, UINT64_MAX in the code             *)
  SeqLimit,        (* the last sequence of an epoch, UINT64_MAX in the code  *)
  Scenes,          (* scene generations, nonzero                             *)
  PhaseLimit       (* most interpolated phases an endpoint carries           *)

ASSUME LaneAssumption ==
  /\ SourceCapacity \in Nat \ {0}
  /\ BatchCapacity \in Nat /\ BatchCapacity >= 2
  /\ EpochLimit \in Nat /\ EpochLimit > 1
  /\ SeqLimit \in Nat \ {0}
  /\ Scenes \subseteq Nat \ {0}
  /\ PhaseLimit \in Nat

VARIABLES
  epoch, open, owned,       (* presentation_epoch, publication, owner token  *)
  seq, scene, blocked,      (* source_sequence, scene_generation, lane block *)
  draft,                    (* the commit the collector is building or sealed *)
  fifo,                     (* Seq of works: g_source_queue                  *)
  batch,                    (* [Batches -> record]: g_batches                *)
  workBatch, retained, pending,       (* batch handles, 0 for none           *)
  deferred, deferredCompile,          (* retirements left to the presenter   *)
  worker, presenter,        (* where the two threads are, with their locals  *)
  live,                     (* objects that exist in the pool or the backend *)
  applied, shown            (* last work with effects; last authorised swap  *)

timeline == <<epoch, open, owned, seq, scene, blocked>>
handles == <<workBatch, retained, pending>>
retirements == <<deferred, deferredCompile>>
history == <<applied, shown>>
vars == <<timeline, draft, fifo, batch, handles, retirements, worker,
          presenter, live, history>>

---------------------------------------------------------------------------
(* A work is the identity of a source commit; NoWork marks an empty place.   *)
Works == [epoch : 1..EpochLimit, seq : 1..SeqLimit, scene : Scenes]
NoWork == [epoch |-> 0, seq |-> 0, scene |-> 0]

Fences == {"compile", "completion"}
Kinds == {"commit", "endpoint"} \cup Fences
Objects == Kinds \X Works
Of(w, kinds) == kinds \X {w}
HasKind(ret, kinds) == \E o \in ret : o[1] \in kinds

Batches == 1..BatchCapacity
DeferredCapacityShort == SourceCapacity + BatchCapacity  (* broken variant *)
DeferredCapacity == SourceCapacity + 2 * BatchCapacity + 2

(* A batch: has lists the kinds of objects it owns; phases is the number of  *)
(* usable temporal phases of its endpoint and base the sequence of the       *)
(* endpoint they start from; count and index are the phase denominator and   *)
(* the phase last shown; whole is temporal_disabled.                         *)
FreeBatch ==
  [st |-> "free", work |-> NoWork, has |-> {}, phases |-> 0, base |-> 0,
   count |-> 0, index |-> 0, whole |-> FALSE]

Terminal == epoch = EpochLimit
IsCurrent(w) == ~Terminal /\ w.epoch = epoch /\ w.scene = scene
Owned(b) == Of(batch[b].work, batch[b].has)

TemporalBase(b, previous) ==
  /\ previous # 0 /\ batch[b].phases # 0 /\ ~batch[b].whole
  /\ IsCurrent(batch[b].work) /\ IsCurrent(batch[previous].work)
  /\ batch[previous].work.seq = batch[b].base

InState(states) == {b \in Batches : batch[b].st \in states}

(* Broken variant: the newest source first.                                  *)
NewestPending(bs) ==
  LET ready == {b \in Batches : bs[b].st = "pending"}
  IN IF ready = {} THEN 0
     ELSE CHOOSE b \in ready : \A o \in ready : bs[b].work.seq >= bs[o].work.seq

(* refresh_batch_pending: the pending batch with the oldest source.          *)
OldestPending(bs) ==
  LET ready == {b \in Batches : bs[b].st = "pending"}
  IN IF ready = {} THEN 0
     ELSE CHOOSE b \in ready : \A o \in ready : bs[b].work.seq <= bs[o].work.seq

Quiescent ==
  /\ fifo = <<>> /\ pending = 0 /\ workBatch = 0 /\ retained = 0
  /\ deferred = <<>> /\ deferredCompile = 0
  /\ worker.pc = "idle" /\ presenter.pc = "idle"
  /\ InState({"free"}) = Batches

IdleWorker == [pc |-> "idle", slot |-> 0, ret |-> {}, next |-> "idle"]
IdlePresenter == [pc |-> "idle", kind |-> "next", slot |-> 0, phase |-> 0,
                  ret |-> {}, next |-> "idle", compile |-> FALSE]

Init ==
  /\ epoch = 1 /\ open = FALSE /\ owned = FALSE
  /\ seq = 0 /\ scene = 0 /\ blocked = FALSE
  /\ draft = [st |-> "none", work |-> NoWork]
  /\ fifo = <<>>
  /\ batch = [b \in Batches |-> FreeBatch]
  /\ workBatch = 0 /\ retained = 0 /\ pending = 0
  /\ deferred = <<>> /\ deferredCompile = 0
  /\ worker = IdleWorker /\ presenter = IdlePresenter
  /\ live = {}
  /\ applied = NoWork /\ shown = [work |-> NoWork, num |-> 1, den |-> 1]

---------------------------------------------------------------------------
(* Retirement.  A thread releases a retirement record outside the lock: all  *)
(* fences and the endpoint first, then the commit.                           *)
CommitFirst(ret) == {o \in ret : o[1] = "commit"}  (* broken variant *)
Backend(ret) == {o \in ret : o[1] # "commit"}

RetireBackend(thread) ==
  /\ thread.pc = "clean" /\ Backend(thread.ret) # {}
  /\ live' = live \ Backend(thread.ret)

RetireCommit(thread) ==
  /\ thread.pc = "clean" /\ Backend(thread.ret) = {}
  /\ live' = live \ thread.ret

(* detach_batch frees the batch; its objects go to a retirement record.      *)
Detached(b) == [batch EXCEPT ![b] = FreeBatch]

IsCompileRetirement(ret) == HasKind(ret, {"commit"}) /\ HasKind(ret, Fences)

(* The scans over the batches run by rising index.                           *)
Ascending(S) ==
  [n \in 1..Cardinality(S) |-> CHOOSE x \in S : Cardinality({y \in S : y <= x}) = n]

(* defer_retirement appends non-empty records for the presenter to drain.    *)
Defer(rets) ==
  LET kept == Ascending({i \in DOMAIN rets : rets[i] # {}})
  IN /\ deferred' = deferred \o [n \in DOMAIN kept |-> rets[kept[n]]]
     /\ deferredCompile' = deferredCompile
          + Cardinality({i \in DOMAIN rets : IsCompileRetirement(rets[i])})

---------------------------------------------------------------------------
(* Epochs and the lifecycle.                                                 *)

(* logical_invalidate: the FIFO and every batch no thread is working on are  *)
(* deferred; batches in a callback are left for that thread to find stale.   *)
DetachableNotRetained == InState({"pending", "completion", "waiting"})  (* broken variant *)
Detachable == InState({"pending", "completion", "retained", "waiting"})

LogicalInvalidate ==
  LET inWork == IF workBatch = 0 THEN {} ELSE Owned(workBatch)
      source(i) == Of(fifo[i], {"commit"}) \ inWork
      sources == [i \in DOMAIN fifo |-> source(i)]
      order == Ascending(Detachable)
  IN /\ epoch' = IF Terminal THEN epoch ELSE epoch + 1
     /\ seq' = 0 /\ scene' = 0 /\ blocked' = FALSE
     /\ fifo' = <<>> /\ retained' = 0
     /\ Defer(sources \o [i \in DOMAIN order |-> Owned(order[i])])
     /\ batch' = [b \in Batches |->
                    IF b \in Detachable THEN FreeBatch ELSE batch[b]]
     /\ workBatch' = IF workBatch \in Detachable THEN 0 ELSE workBatch
     /\ pending' = IF pending \in Detachable THEN 0 ELSE pending
     /\ IF draft.st = "building"        (* source_commit_cancel_builders     *)
        THEN /\ draft' = [st |-> "none", work |-> NoWork]
             /\ live' = live \ Of(draft.work, {"commit"})
        ELSE UNCHANGED <<draft, live>>
     /\ UNCHANGED <<owned, worker, presenter, history>>

(* Publication is closed for good once the epoch counter has run out.        *)
TimelineInvalidate ==
  /\ LogicalInvalidate
  /\ open' = (open /\ epoch' # EpochLimit)

LifecycleClose ==
  /\ owned /\ open /\ open' = FALSE
  /\ LogicalInvalidate

PresentationReset ==
  /\ open' = FALSE
  /\ LogicalInvalidate

ClaimOpen ==
  /\ ~Terminal /\ ~open /\ Quiescent
  /\ open' = TRUE /\ owned' = TRUE
  /\ UNCHANGED <<epoch, seq, scene, blocked, draft, fifo, batch, handles,
                 retirements, worker, presenter, live, history>>

---------------------------------------------------------------------------
(* The collector: one thread that builds, seals and publishes one commit at  *)
(* a time, out of a pool it shares with the commits still in the lane.       *)
lane == <<timeline, fifo, batch, handles, retirements, worker, presenter,
          history>>

CommitsInUse == {o \in live : o[1] = "commit"}

DraftBegin(s) ==
  LET w == [epoch |-> epoch, seq |-> seq + 1, scene |-> s]
  IN /\ draft.st = "none"
     /\ Cardinality(CommitsInUse) < SourceCapacity
     /\ ~Terminal /\ open /\ ~blocked /\ seq < SeqLimit
     /\ scene \in {0, s}
     /\ draft' = [st |-> "building", work |-> w]
     /\ live' = live \cup Of(w, {"commit"})
     /\ UNCHANGED lane

DraftSeal ==
  /\ draft.st = "building"
  /\ draft' = [draft EXCEPT !.st = "sealed"]
  /\ UNCHANGED <<lane, live>>

(* Cancelled while building, or retired because publication was refused.     *)
DraftDrop ==
  /\ draft' = [st |-> "none", work |-> NoWork]
  /\ live' = live \ Of(draft.work, {"commit"})
  /\ UNCHANGED lane

Admissible(w) ==
  /\ ~Terminal /\ open /\ ~blocked
  /\ w.epoch = epoch /\ scene \in {0, w.scene} /\ w.seq = seq + 1

DraftCancel == draft.st = "building" /\ DraftDrop
PublishRefused == draft.st = "sealed" /\ ~Admissible(draft.work) /\ DraftDrop

(* A full FIFO would keep the sealed commit for a retry.                     *)
SourceQueuePublish ==
  /\ draft.st = "sealed" /\ Admissible(draft.work)
  /\ Len(fifo) < SourceCapacity
  /\ fifo' = Append(fifo, draft.work)
  /\ seq' = draft.work.seq /\ scene' = draft.work.scene
  /\ draft' = [st |-> "none", work |-> NoWork]
  /\ UNCHANGED <<epoch, open, owned, blocked, batch, handles, retirements,
                 worker, presenter, live, history>>

---------------------------------------------------------------------------
(* The worker: xg_render_worker_compile_next, one call at a time.  A call    *)
(* ends here when worker.pc is "idle" again.                                 *)
WorkerTo(pc, b) == worker' = [IdleWorker EXCEPT !.pc = pc, !.slot = b]

(* run_retirement outside the lock, then the locked section at next.         *)
WorkerCleans(ret, b, next) ==
  worker' = IF ret = {} /\ next = "idle" THEN IdleWorker
            ELSE [pc |-> "clean", slot |-> b, ret |-> ret, next |-> next]

(* No new compile may start while the fence of an invalidated one is still   *)
(* waiting for, or in, its cleanup.                                          *)
WorkerMayStart == worker.pc = "idle" /\ deferredCompile = 0 /\ ~blocked

(* A new batch needs room in the deferred list for it to be invalidated.     *)
DeferredReserve == Len(deferred) < BatchCapacity

WorkerStart ==
  LET free == InState({"free"})
      b == CHOOSE c \in free : \A o \in free : c <= o
  IN /\ WorkerMayStart
     /\ workBatch = 0 /\ fifo # <<>>
     /\ DeferredReserve /\ free # {}
     /\ batch' = [batch EXCEPT ![b] = [FreeBatch EXCEPT
                    !.st = "compiling", !.work = Head(fifo), !.has = {"commit"}]]
     /\ workBatch' = b
     /\ WorkerTo("compile", b)
     /\ UNCHANGED <<timeline, draft, fifo, retained, pending, retirements,
                    presenter, live, history>>

WorkerPoll ==
  /\ WorkerMayStart /\ workBatch # 0
  /\ batch' = [batch EXCEPT ![workBatch].st = "checking"]
  /\ WorkerTo("poll", workBatch)
  /\ UNCHANGED <<timeline, draft, fifo, handles, retirements, presenter, live,
                 history>>

(* outcome: what the locked section after the callbacks makes of batch b,    *)
(* here record r after the results of the callback were stored in it.        *)
StillHead(w) == IsCurrent(w) /\ fifo # <<>> /\ Head(fifo) = w
FreeWork(b) == batch' = Detached(b) /\ workBatch' = 0

(* Broken variants: a stale result still pops the FIFO, or loses its batch's *)
(* objects.                                                                  *)
OutcomeStalePops(b, r) ==
  /\ ~StillHead(r.work)
  /\ FreeWork(b)
  /\ fifo' = IF fifo = <<>> THEN fifo ELSE Tail(fifo)
  /\ WorkerCleans(Of(r.work, r.has), b, "idle")
  /\ UNCHANGED blocked
OutcomeStaleLeaks(b, r) ==
  /\ ~StillHead(r.work)
  /\ FreeWork(b)
  /\ WorkerTo("idle", 0)
  /\ UNCHANGED <<fifo, blocked>>

OutcomeStale(b, r) ==
  /\ ~StillHead(r.work)
  /\ FreeWork(b)
  /\ WorkerCleans(Of(r.work, r.has), b, "idle")
  /\ UNCHANGED <<fifo, blocked>>

(* The commit stays with the batch until the fence and endpoint are gone, so *)
(* that no invalidation frees the FIFO head during their cleanup.            *)
OutcomeFailed(b, r) ==
  /\ StillHead(r.work)
  /\ blocked' = TRUE
  /\ batch' = [batch EXCEPT ![b] =
                 [r EXCEPT !.st = "finalizing", !.has = {"commit"}]]
  /\ WorkerCleans(Of(r.work, r.has \ {"commit"}), b, "failed")
  /\ UNCHANGED <<fifo, workBatch>>

OutcomeWouldBlock(b, r) ==
  /\ StillHead(r.work)
  /\ FreeWork(b)
  /\ WorkerTo("idle", 0)
  /\ UNCHANGED <<fifo, blocked>>

(* Broken variant: a pending fence is forgotten and the head compiled again. *)
OutcomePendingForgets(b, r) ==
  /\ StillHead(r.work)
  /\ FreeWork(b)
  /\ WorkerTo("idle", 0)
  /\ UNCHANGED <<fifo, blocked>>

OutcomePending(b, r) ==
  /\ StillHead(r.work)
  /\ batch' = [batch EXCEPT ![b] = [r EXCEPT !.st = "waiting"]]
  /\ WorkerTo("idle", 0)
  /\ UNCHANGED <<fifo, blocked, workBatch>>

OutcomeApplied(b, r) ==
  /\ StillHead(r.work)
  /\ fifo' = Tail(fifo)
  /\ FreeWork(b)
  /\ WorkerCleans(Of(r.work, r.has), b, "idle")
  /\ UNCHANGED blocked

(* Broken variant: the endpoint is published before its source is acked.     *)
OutcomeReadyUnacked(b, r) ==
  /\ StillHead(r.work)
  /\ batch' = [batch EXCEPT ![b] =
                 [r EXCEPT !.st = "finalizing", !.has = {"endpoint"}]]
  /\ WorkerCleans(Of(r.work, r.has \ {"endpoint"}), b, "pend")
  /\ UNCHANGED <<fifo, blocked, workBatch>>

OutcomeReady(b, r) ==
  /\ StillHead(r.work)
  /\ fifo' = Tail(fifo)
  /\ batch' = [batch EXCEPT ![b] =
                 [r EXCEPT !.st = "finalizing", !.has = {"endpoint"}]]
  /\ WorkerCleans(Of(r.work, r.has \ {"endpoint"}), b, "pend")
  /\ UNCHANGED <<blocked, workBatch>>

outcomeKeeps == <<epoch, open, owned, seq, scene, draft, retained, pending,
                  retirements, presenter, shown>>

(* compile returned.  An endpoint comes with its fence and perhaps phases,   *)
(* which start from an earlier endpoint of the epoch; APPLIED and            *)
(* WOULD_BLOCK come with neither; anything else is a failure.                *)
CompileReturns ==
  LET b == worker.slot
      r == batch[b]
      w == r.work
      with(kinds) == [r EXCEPT !.has = @ \cup kinds]
  IN /\ worker.pc = "compile"
     /\ UNCHANGED outcomeKeeps
     /\ \/ \E phases \in 0..PhaseLimit, base \in 0..(w.seq - 1) :
             LET e == [with({"endpoint", "compile"}) EXCEPT
                         !.phases = phases, !.base = base]
             IN /\ phases = 0 => base = 0
                /\ live' = live \cup Of(w, {"endpoint", "compile"})
                /\ applied' = w
                /\ IF IsCurrent(w)
                   THEN /\ batch' = [batch EXCEPT ![b] = [e EXCEPT !.st = "checking"]]
                        /\ WorkerTo("poll", b)
                        /\ UNCHANGED <<fifo, blocked, workBatch>>
                   ELSE OutcomeStale(b, e)
        \/ /\ applied' = w /\ UNCHANGED live
           /\ OutcomeApplied(b, r) \/ OutcomeStale(b, r)
        \/ /\ UNCHANGED <<applied, live>>
           /\ OutcomeWouldBlock(b, r) \/ OutcomeStale(b, r)
        \/ \E kinds \in SUBSET {"endpoint", "compile"} :
             /\ live' = live \cup Of(w, kinds)
             /\ UNCHANGED applied
             /\ OutcomeFailed(b, with(kinds)) \/ OutcomeStale(b, with(kinds))

(* fence_status returned READY, PENDING or FAILED.                           *)
FenceReturns ==
  LET b == worker.slot
  IN /\ worker.pc = "poll"
     /\ UNCHANGED <<outcomeKeeps, live, applied>>
     /\ \/ OutcomeReady(b, batch[b])
        \/ OutcomePending(b, batch[b])
        \/ OutcomeFailed(b, batch[b])
        \/ OutcomeStale(b, batch[b])

WorkerRetires ==
  /\ \/ RetireBackend(worker) \/ RetireCommit(worker)
  /\ worker' = LET left == worker.ret \cap live'
               IN IF left # {} THEN [worker EXCEPT !.ret = left]
                  ELSE IF worker.next = "idle" THEN IdleWorker
                  ELSE [IdleWorker EXCEPT !.pc = worker.next, !.slot = worker.slot]
  /\ UNCHANGED <<timeline, draft, fifo, batch, handles, retirements, presenter,
                 history>>

(* Broken variant: the commit is released under the blocked FIFO.            *)
WorkerFailedReleases ==
  LET b == worker.slot
  IN /\ worker.pc = "failed"
     /\ FreeWork(b)
     /\ WorkerCleans(Owned(b), b, "idle")
     /\ UNCHANGED <<timeline, draft, fifo, retained, pending, retirements,
                    presenter, live, history>>

(* After the cleanup of a failed compile the blocked FIFO owns the commit    *)
(* again, unless the epoch went away meanwhile.                              *)
WorkerFailed ==
  LET b == worker.slot
  IN /\ worker.pc = "failed"
     /\ FreeWork(b)
     /\ WorkerCleans(IF StillHead(batch[b].work) THEN {} ELSE Owned(b), b, "idle")
     /\ UNCHANGED <<timeline, draft, fifo, retained, pending, retirements,
                    presenter, live, history>>

(* The endpoint becomes pending.  A discrete image, or one already late,     *)
(* supersedes older pending ones, as far as the deferred list has room.      *)
Superseded(b) ==
  LET older == {o \in InState({"pending"}) : batch[o].work.seq < batch[b].work.seq}
  IN {o \in older :
        Len(deferred) + Cardinality({p \in older : p < o}) < BatchCapacity}

WorkerPend ==
  LET b == worker.slot
  IN /\ worker.pc = "pend"
     /\ workBatch' = 0
     /\ IF ~IsCurrent(batch[b].work)
        THEN /\ batch' = Detached(b)
             /\ WorkerCleans(Owned(b), b, "idle")
             /\ UNCHANGED <<pending, retirements>>
        ELSE \E supersedes \in BOOLEAN :
               LET gone == IF supersedes THEN Superseded(b) ELSE {}
                   order == Ascending(gone)
               IN /\ batch[b].phases = 0 => supersedes
                  /\ batch' = [c \in Batches |->
                                 IF c \in gone THEN FreeBatch
                                 ELSE IF c = b THEN [batch[b] EXCEPT !.st = "pending"]
                                 ELSE batch[c]]
                  /\ pending' = OldestPending(batch')
                  /\ Defer([i \in DOMAIN order |-> Owned(order[i])])
                  /\ WorkerTo("idle", 0)
     /\ UNCHANGED <<timeline, draft, fifo, retained, presenter, live, history>>

Worker == \/ WorkerStart \/ WorkerPoll \/ CompileReturns \/ FenceReturns
          \/ WorkerRetires \/ WorkerFailed \/ WorkerPend

---------------------------------------------------------------------------
(* The presenter: present_next, present_hold or a mere drain, one call at a  *)
(* time.  A call ends here when presenter.pc is "idle" again.                *)
PresenterTo(pc) == presenter' = [presenter EXCEPT !.pc = pc]
PresenterDone == presenter' = IdlePresenter

PresenterCleans(ret, next) ==
  presenter' = IF ret # {}
               THEN [presenter EXCEPT !.pc = "clean", !.ret = ret, !.next = next]
               ELSE IF next = "idle" THEN IdlePresenter
               ELSE [presenter EXCEPT !.pc = next]

PresenterStart(kind) ==
  /\ owned /\ presenter.pc = "idle"
  /\ presenter' = [IdlePresenter EXCEPT !.pc = "drain", !.kind = kind]
  /\ UNCHANGED <<timeline, draft, fifo, batch, handles, retirements, worker,
                 live, history>>

(* drain_deferred_retirements pops one record at a time; the count of        *)
(* compile retirements only drops when the cleanup of the record is over.    *)
PresenterDrain ==
  /\ presenter.pc = "drain"
  /\ IF deferred = <<>>
     THEN /\ IF presenter.kind = "drain" THEN PresenterDone ELSE PresenterTo("reap")
          /\ UNCHANGED deferred
     ELSE /\ deferred' = Tail(deferred)
          /\ presenter' = [presenter EXCEPT !.pc = "clean", !.next = "drain",
               !.ret = Head(deferred), !.compile = IsCompileRetirement(Head(deferred))]
  /\ UNCHANGED <<timeline, draft, fifo, batch, handles, deferredCompile, worker,
                 live, history>>

NeverOver(left) == FALSE  (* broken variant: the cleanup is not counted off *)
CompileCleanupOver(left) == left = {} /\ presenter.compile

PresenterRetires ==
  /\ \/ RetireBackend(presenter) \/ RetireCommit(presenter)
  /\ LET left == presenter.ret \cap live'
     IN /\ deferredCompile' = deferredCompile
                              - (IF CompileCleanupOver(left) THEN 1 ELSE 0)
        /\ presenter' = IF left # {} THEN [presenter EXCEPT !.ret = left]
                        ELSE IF presenter.next = "idle" THEN IdlePresenter
                        ELSE [presenter EXCEPT !.pc = presenter.next,
                                !.ret = {}, !.compile = FALSE]
  /\ UNCHANGED <<timeline, draft, fifo, batch, handles, deferred, worker, history>>

(* reap_one_completion: poll the completion fence of the last swap.          *)
PresenterReap ==
  LET waiting == InState({"completion"})
      b == CHOOSE c \in waiting : \A o \in waiting : c <= o
  IN /\ presenter.pc = "reap"
     /\ IF waiting = {}
        THEN /\ PresenterTo("choose")
             /\ UNCHANGED batch
        ELSE /\ batch' = [batch EXCEPT ![b].st = "reaping"]
             /\ presenter' = [presenter EXCEPT !.pc = "reaping", !.slot = b]
     /\ UNCHANGED <<timeline, draft, fifo, handles, retirements, worker, live, history>>

PresenterReaped ==
  LET b == presenter.slot
      current == IsCurrent(batch[b].work)
  IN /\ presenter.pc = "reaping"
     /\ \E status \in {"ready", "pending", "failed"} :
          LET next == IF status = "failed" THEN "idle" ELSE "choose"
          IN IF current /\ status = "pending"
             THEN /\ batch' = [batch EXCEPT ![b].st = "completion"]
                  /\ PresenterTo("choose")
                  /\ UNCHANGED retained
             ELSE IF current /\ retained = b
             THEN /\ batch' = [batch EXCEPT ![b].st = "retained",
                                            ![b].has = @ \ {"completion"}]
                  /\ PresenterCleans(Of(batch[b].work, {"completion"}), next)
                  /\ UNCHANGED retained
             ELSE /\ batch' = Detached(b)
                  /\ retained' = IF retained = b THEN 0 ELSE retained
                  /\ PresenterCleans(Owned(b), next)
     /\ UNCHANGED <<timeline, draft, fifo, workBatch, pending, retirements,
                    worker, live, history>>

(* Which batch to show: the retained one while its interval is unfinished    *)
(* and no discrete successor waits (or when asked to hold), otherwise the    *)
(* oldest pending one.                                                       *)
UnfinishedAtEnd(incoming) ==  (* broken variant: off by one *)
  /\ retained # 0 /\ batch[retained].index <= batch[retained].count
  /\ incoming = 0 \/ TemporalBase(incoming, retained)

Unfinished(incoming) ==
  /\ retained # 0 /\ batch[retained].index < batch[retained].count
  /\ incoming = 0 \/ TemporalBase(incoming, retained)

PresenterChoose ==
  LET incoming == OldestPending(batch)
      hold == presenter.kind = "hold" \/ Unfinished(incoming)
      b == IF hold THEN retained ELSE incoming
      phases == IF TemporalBase(b, retained) THEN batch[b].phases + 1 ELSE 0
      next == IF hold THEN batch[b]
              ELSE [batch[b] EXCEPT !.count = phases, !.index = 0]
  IN /\ presenter.pc = "choose"
     /\ IF b # 0 /\ batch[b].st = (IF hold THEN "retained" ELSE "pending")
        THEN /\ batch' = [batch EXCEPT ![b] = [next EXCEPT !.st = "selecting"]]
             /\ pending' = OldestPending(batch')
             /\ presenter' = [presenter EXCEPT !.pc = "select", !.slot = b,
                                !.kind = IF hold THEN "hold" ELSE "next"]
        ELSE /\ PresenterDone
             /\ pending' = incoming
             /\ UNCHANGED batch
     /\ UNCHANGED <<timeline, draft, fifo, workBatch, retained, retirements,
                    worker, live, history>>

(* A batch that went stale under the presenter is detached by it.            *)
Hold == presenter.kind = "hold"
PresenterStale(extra) ==
  LET b == presenter.slot
  IN /\ ~IsCurrent(batch[b].work)
     /\ batch' = Detached(b)
     /\ PresenterCleans(Owned(b) \cup extra, "idle")
     /\ UNCHANGED <<pending, shown>>

(* The clock picks a phase.  phase is the latest one that is due, 0 the      *)
(* base; a clock running backwards gives up the phases for the whole image.  *)
(* An index is never lowered, and a batch whose first phase is not due yet   *)
(* goes back to pending.                                                     *)
PresenterSelect ==
  LET b == presenter.slot
      r == batch[b]
      larger(x, y) == IF x > y THEN x ELSE y
      composing(count, phase) ==
        /\ batch' = [batch EXCEPT ![b] = [r EXCEPT !.st = "composing", !.count = count]]
        /\ presenter' = [presenter EXCEPT !.pc = "compose", !.phase = phase]
        /\ UNCHANGED <<pending, shown>>
  IN /\ presenter.pc = "select"
     /\ \/ PresenterStale({})
        \/ IsCurrent(r.work) /\ composing(0, 0)
        \/ \E phase \in 0..r.count :
             /\ IsCurrent(r.work)
             /\ Hold /\ r.whole => phase \in {r.index, r.count}
             /\ IF ~Hold /\ r.count # 0 /\ retained # 0 /\ phase = 0
                THEN /\ batch' = [batch EXCEPT ![b].st = "pending"]
                     /\ pending' = OldestPending(batch')
                     /\ PresenterDone
                     /\ UNCHANGED shown
                ELSE composing(r.count, larger(phase, r.index))
     /\ UNCHANGED <<timeline, draft, fifo, workBatch, retained, retirements,
                    worker, live, applied>>

Alpha(r, phase) == IF phase < r.count THEN <<phase, r.count>> ELSE <<1, 1>>

(* compose returned.  Failing on a phase disables the phases and keeps the   *)
(* whole image for a retry; failing on a hold keeps the image; failing on    *)
(* the whole image of a new batch loses it.                                  *)
PresenterCompose ==
  LET b == presenter.slot
      r == batch[b]
      phased == presenter.phase < r.count
  IN /\ presenter.pc = "compose"
     /\ \E ok, fence \in BOOLEAN :
          LET made == IF fence THEN Of(r.work, {"completion"}) ELSE {}
          IN /\ live' = live \cup made
             /\ \/ PresenterStale(made)
                \/ /\ IsCurrent(r.work) /\ ~(ok /\ fence)
                   /\ PresenterCleans(IF phased \/ Hold THEN made
                                      ELSE made \cup Owned(b), "idle")
                   /\ batch' = IF ~phased /\ ~Hold THEN Detached(b)
                               ELSE [batch EXCEPT ![b] = [r EXCEPT
                                 !.st = IF Hold THEN "retained" ELSE "pending",
                                 !.whole = @ \/ phased,
                                 !.count = IF phased /\ ~Hold THEN 0 ELSE @]]
                   /\ pending' = OldestPending(batch')
                   /\ UNCHANGED shown
                \/ /\ IsCurrent(r.work) /\ ok /\ fence
                   /\ batch' = [batch EXCEPT ![b].st = "composed",
                                             ![b].has = @ \cup {"completion"}]
                   /\ PresenterTo("authorize")
                   /\ UNCHANGED <<pending, shown>>
     /\ UNCHANGED <<timeline, draft, fifo, workBatch, retained, retirements,
                    worker, applied>>

(* The last look at the epoch before the window is swapped.                  *)
PresenterAuthorize ==
  LET b == presenter.slot
      alpha == Alpha(batch[b], presenter.phase)
  IN /\ presenter.pc = "authorize"
     /\ \/ PresenterStale({})
        \/ /\ IsCurrent(batch[b].work)
           /\ batch' = [batch EXCEPT ![b].st = "swapping"]
           /\ shown' = [work |-> batch[b].work, num |-> alpha[1], den |-> alpha[2]]
           /\ PresenterTo("swap")
           /\ UNCHANGED pending
     /\ UNCHANGED <<timeline, draft, fifo, workBatch, retained, retirements,
                    worker, live, applied>>

(* After the swap the batch replaces the retained one.                       *)
PresenterSwapped ==
  LET b == presenter.slot
      old == IF retained \in {0, b} THEN {} ELSE {retained}
  IN /\ presenter.pc = "swap"
     /\ IF IsCurrent(batch[b].work)
        THEN /\ batch' = [c \in Batches |->
                            IF c \in old THEN FreeBatch
                            ELSE IF c = b THEN [batch[b] EXCEPT
                              !.st = "completion", !.index = presenter.phase]
                            ELSE batch[c]]
             /\ retained' = b
             /\ PresenterCleans(UNION {Owned(o) : o \in old}, "idle")
        ELSE /\ batch' = Detached(b)
             /\ PresenterCleans(Owned(b), "idle")
             /\ UNCHANGED retained
     /\ UNCHANGED <<timeline, draft, fifo, workBatch, pending, retirements,
                    worker, live, history>>

Presenter == \/ PresenterDrain \/ PresenterRetires \/ PresenterReap
             \/ PresenterReaped \/ PresenterChoose \/ PresenterSelect
             \/ PresenterCompose \/ PresenterAuthorize \/ PresenterSwapped

---------------------------------------------------------------------------
Collector == \/ \E s \in Scenes : DraftBegin(s)
             \/ DraftSeal \/ DraftCancel \/ SourceQueuePublish \/ PublishRefused
Lifecycle == ClaimOpen \/ LifecycleClose \/ PresentationReset \/ TimelineInvalidate

Next == \/ Collector \/ Lifecycle \/ Worker \/ Presenter
        \/ \E kind \in {"drain", "next", "hold"} : PresenterStart(kind)

Spec == Init /\ [][Next]_vars

---------------------------------------------------------------------------
(* The shape of the lane's state.                                            *)
BatchStates ==
  {"free", "compiling", "checking", "waiting", "finalizing", "pending",
   "selecting", "composing", "composed", "swapping", "completion", "reaping",
   "retained"}
BatchRecord ==
  [st : BatchStates, work : Works \cup {NoWork}, has : SUBSET Kinds,
   phases : 0..PhaseLimit, base : 0..SeqLimit, count : 0..(PhaseLimit + 1),
   index : 0..(PhaseLimit + 1), whole : BOOLEAN]
TypeOK ==
  /\ epoch \in 1..EpochLimit /\ open \in BOOLEAN /\ owned \in BOOLEAN
  /\ seq \in 0..SeqLimit /\ scene \in Scenes \cup {0} /\ blocked \in BOOLEAN
  /\ draft \in [st : {"none", "building", "sealed"}, work : Works \cup {NoWork}]
  /\ fifo \in Seq(Works) /\ Len(fifo) <= SourceCapacity
  /\ batch \in [Batches -> BatchRecord]
  /\ {workBatch, retained, pending} \subseteq {0} \cup Batches
  /\ deferred \in Seq(SUBSET Objects) /\ deferredCompile \in Nat
  /\ worker \in [pc : {"idle", "compile", "poll", "clean", "failed", "pend"},
                 slot : {0} \cup Batches, ret : SUBSET Objects,
                 next : {"idle", "failed", "pend"}]
  /\ presenter \in [pc : {"idle", "drain", "reap", "reaping", "choose", "select",
                          "compose", "authorize", "swap", "clean"},
                    kind : {"drain", "next", "hold"}, slot : {0} \cup Batches,
                    phase : 0..(PhaseLimit + 1), ret : SUBSET Objects,
                    next : {"idle", "drain", "choose"}, compile : BOOLEAN]
  /\ live \subseteq Objects
  /\ applied \in Works \cup {NoWork}
  /\ shown \in [work : Works \cup {NoWork}, num : Nat, den : Nat \ {0}]

(* Everything the lane was handed is owned exactly once until it is          *)
(* released, and nothing is kept after it was released: no sequence of       *)
(* failures, stale results, supersessions and invalidations leaks a commit,  *)
(* a fence or an endpoint or releases one twice (detach_batch,               *)
(* extract_compile_retirement, logical_invalidate, run_retirement).  The     *)
(* FIFO shares the commit of its head with the batch compiled from it.       *)
Stakes ==
  [collector |-> IF draft.st = "none" THEN {} ELSE Of(draft.work, {"commit"}),
   fifo      |-> (UNION {Of(fifo[i], {"commit"}) : i \in DOMAIN fifo})
                   \ (UNION {Owned(b) : b \in Batches}),
   worker    |-> worker.ret,
   presenter |-> presenter.ret]
OwnedOnce ==
  \A o \in Objects :
      Cardinality({b \in Batches : o \in Owned(b)})
        + Cardinality({i \in DOMAIN deferred : o \in deferred[i]})
        + Cardinality({h \in DOMAIN Stakes : o \in Stakes[h]})
      = IF o \in live THEN 1 ELSE 0

(* The pool never takes a commit back while the backend may still execute    *)
(* work compiled from it: fences are discarded before the commit is retired, *)
(* whichever thread cleans up (run_retirement).  And "its effects must       *)
(* finish/cancel before any new epoch starts compiling, including while the  *)
(* presenter has popped its retirement for cleanup": no compile runs beside  *)
(* the fence of another (g_deferred_compile_retirements).                    *)
CompileIsSafe ==
  \A w \in Works : <<"compile", w>> \in live =>
    <<"commit", w>> \in live /\ worker.pc # "compile"

(* Work keeps its order.  Whatever is in the FIFO belongs to the current     *)
(* epoch and scene, and its sequences run gap-free up to source_sequence:    *)
(* nothing a producer sealed before an invalidation gets in after it.  Each  *)
(* compile is of the successor of the last applied work, or of the first     *)
(* work of a later epoch, although the lane retries on WOULD_BLOCK, polls    *)
(* fences across calls and drops results (publish, worker_compile_next).     *)
WorkInOrder ==
  /\ \A i \in DOMAIN fifo :
       IsCurrent(fifo[i]) /\ fifo[i].seq = seq - Len(fifo) + i
  /\ worker.pc = "compile" =>
       LET w == batch[worker.slot].work
       IN IF w.epoch = applied.epoch THEN w.seq = applied.seq + 1
          ELSE w.epoch > applied.epoch /\ w.seq = 1

(* What is on screen was acknowledged: an endpoint is swapped only after its *)
(* source and everything before it have left the FIFO with their effects.    *)
ShownIsAcked ==
  shown.work.epoch = epoch => /\ shown.work.seq <= seq - Len(fifo)
                              /\ shown.work.seq <= applied.seq

(* The picture never runs backwards: a swap shows a later epoch, a later     *)
(* source, or the same source at a later phase; and a phase never has        *)
(* numerator 0, although a batch may be selected, refused, retried and held  *)
(* under a clock that stalls or turns back (presenter_present).              *)
ShownAdvances ==
  [][shown' # shown =>
       /\ shown'.num \in 1..shown'.den
       /\ \/ shown'.work.epoch > shown.work.epoch
          \/ /\ shown'.work.epoch = shown.work.epoch
             /\ shown'.work.seq > shown.work.seq
          \/ /\ shown'.work = shown.work
             /\ shown'.num * shown.den >= shown.num * shown'.den]_vars

(* The deferred list never refuses a record, so logical_invalidate always    *)
(* completes: at any time it has room for every source and batch an          *)
(* invalidation would have to defer.  And no record is asked to hold more    *)
(* than its two fences, one endpoint and one commit.                         *)
OfKind(ret, kinds) == Cardinality({o \in ret : o[1] \in kinds})
RetirementRoom ==
  /\ Len(deferred) + Len(fifo) + Cardinality(Batches \ InState({"free"}))
       < DeferredCapacity - 2
  /\ \A ret \in {worker.ret, presenter.ret} \cup {deferred[i] : i \in DOMAIN deferred} :
       /\ OfKind(ret, Fences) <= 2
       /\ OfKind(ret, {"endpoint"}) <= 1
       /\ OfKind(ret, {"commit"}) <= 1

(* The lane implements the promise of SourceLane: acknowledged is what has   *)
(* left the FIFO, and an effect counts in the epoch its work belongs to.     *)
acked == seq - Len(fifo)
appliedHere == IF applied.epoch = epoch THEN applied.seq ELSE 0
Lane == INSTANCE SourceLane
          WITH published <- seq, applied <- appliedHere, acked <- acked
LaneSpec == Lane!Spec

(* Fairness.  The host calls the worker and present_next over and over (its  *)
(* pump lets any hold follow a present_next), both run on, and a sealed      *)
(* commit is published or dropped.  The compiler answers: it does not block, *)
(* nor leave its fence pending, forever.  And from some time on the display  *)
(* works: completions arrive, the clock moves from call to call, and         *)
(* compositions succeed; how long it did not is open.                        *)
DisplayWorks ==
  LET b == presenter.slot
      stale == ~IsCurrent(batch[b].work)
  IN /\ presenter.pc = "reaping" /\ presenter'.pc # "reaping" =>
          presenter'.pc = "clean" /\ presenter'.next = "choose"
     /\ presenter.pc = "select" /\ presenter'.pc # "select" =>
          \/ stale
          \/ presenter'.pc = "compose" /\ presenter'.phase > batch[b].index
          \/ presenter'.pc = "compose" /\ presenter'.phase >= batch'[b].count
     /\ presenter.pc = "compose" /\ presenter'.pc # "compose" =>
          stale \/ presenter'.pc = "authorize"

Fairness ==
  /\ WF_vars(Worker) /\ WF_vars(Presenter)
  /\ SF_vars(PresenterStart("next"))
  /\ WF_vars(SourceQueuePublish \/ PublishRefused)
  /\ SF_vars(CompileReturns /\ worker'.pc # "idle")
  /\ SF_vars(FenceReturns /\ worker'.pc # "idle")
  /\ <>[][DisplayWorks]_vars
FairSpec == Spec /\ Fairness

(* Every published work is eventually acknowledged, unless its epoch is      *)
(* invalidated or the lane is blocked: no sequence of retries, held          *)
(* intervals, full batches and deferred cleanups starves the FIFO.  Works    *)
(* leave it in order, so it is enough that its head is never stuck.          *)
PublishedSettles ==
  \/ []<>(fifo = <<>> \/ blocked)
  \/ []<><<Len(fifo') < Len(fifo)>>_vars

(* What an invalidation left behind is eventually released, for good: the    *)
(* epochs only rise, so once an epoch is over it stays over.                 *)
StaleIsReleased ==
  \A e \in 1..(EpochLimit - 1) :
      []<>(e < epoch => \A o \in live : o[2].epoch # e)

(* After publication was closed the lane comes to rest, so that the next     *)
(* owner can claim it: ~open leads to Quiescent, or to open again.           *)
CloseQuiesces == []<>(Quiescent \/ open)
=============================================================================
