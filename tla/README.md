# Verification of the native renderer of XenogearsRecomp

XenogearsRecomp runs a statically recompiled PlayStation game.  Its own logic is
the *native renderer* (`native_renderer/`), which turns authenticated guest draw
data into frames of the host, and a few game mods (`src/mods/`).  This directory
holds TLA+ modules of the parts of it where ordering, ownership and failure
decide correctness, TLC configurations that check them on small instances, and
proofs that TLAPS checks for every instance.

## 1. Inventory

Layers, from `native_renderer/docs/ARCHITECTURE.md`: core, infrastructure,
producers, authentication, runtime.  Its design rules (fail closed, one owner for
each state, transactional submission, a capacity that fails closed) are where
most properties below come from.

| Component | State | Operations | Hard behaviour | What makes it correct |
|---|---|---|---|---|
| Source-commit pool `xg_render_source_commit.c` | 16 slots: state, generation, readers, retained references | begin, append, seal, cancel, queue, retire, acquire/release read, reset | retirement under readers, rollback of partial appends, generation reuse | a lease pins its commit; references balance; sealed is immutable |
| Presentation lane `xg_render_semantic_presentation.c` | epoch, source FIFO, 8 batches, handles, deferred retirements | publish, worker compile, present, hold, invalidate, open, close | two threads, callbacks outside the lock, invalidation at any point, retries | nothing leaks or is released twice; work in order, once; picture never goes back |
| Presentation host `xg_render_presentation_host.c` | worker thread and its wake-up sequence, owner, shutdown and join flags, exclusive claim | start, notify, pump, invalidate, shutdown, join, rebind, destroy | lost wake-ups, racing shutdowns, join from a callback, half-failed start | no wait without a waker; a clean hand-over; failure reported exactly when there is one |
| Native-work collector `xg_render_native_work.c` | builder, sealed commit, counters | begin chunk, append, flush, publish, abort | back-pressure by waiting for the worker, epoch change while waiting | order of operations kept; nothing published twice |
| Source-frame collector `xg_render_source_frame.c` | frame under construction | begin, append, seal, publish | lock dropped around the capture callback | a frame is published in its epoch and gives back what it retained; the first one after a break says so |
| Resource repository `xg_render_resource_repository.c` | entries, generations, retain counts, imports, restores | import, commit, retire, rollback, revoke, retain, release | transactions over several entries, retained but superseded snapshots | all-or-nothing commits; entries live until the last release |
| VRAM journal and resources `xg_render_vram_*.c` | a shadow of video memory, published images and palettes, a cache across scenes, the loader under way | observe a device event, begin, upload, commit, cancel, look up, scene boundary, checkpoint, restore | the device writes later than the loader, other writes come in between | the shadow never contradicts the device; a lookup has one answer that no write makes stale |
| Surface graph `xg_render_surface_graph.c` | surfaces, edges | add, read, invalidate | stale surfaces | an edge names a live producer |
| Visual submission `xg_render_submission.c`, `xg_visual_state.c` | pending and active visuals | submit, activate, roll back | failure half-way | one commit point |
| Authentication `auth/`, `xg_render_auth_runtime.c` | transaction, variant, artifacts, local producers | observe hooks, candidates, writes, mismatches | hooks of two tiers and images mixed with writes and scene changes | nobody keeps authority for code that is gone; a proof is of one execution seen whole |
| Invalidation `xg_render_invalidation_*.c` | routing tables | classify, dispatch | order across modules | every affected module hears of it |
| Semantic compositor `xg_render_semantic_compositor.c`, `xg_render_fragment_runtime.c` | a building, a retained and a copied bank of owner fragments, completed submissions, displayed pages | update, seal, prepare, finish, invalidate | a VBlank between any two fragments, pages that come back, refusals half-way | each reference is returned once; a field scene shows only sealed pictures |
| UI, resolvers, motion | tables | lay out, resolve, sample | mostly sequential | bounded tables, total functions |
| Producers `producers/` | templates, captures | decode guest memory | volume of decoding | reject what is not proved |
| Mods `src/mods/` | card service and flow, pacing | hooks called by the game | retries of a service | one answer for each request |

How they interact: producers and device callbacks run on the guest thread and
append to a *builder* in the source-commit pool, which retains resources in the
repository.  The native-work or source-frame collector seals the builder and
publishes it to the lane.  The worker thread of the presentation host calls
`xg_render_worker_compile_next`, the presenter (window) thread calls
`xg_render_presenter_present_next`; both call the semantic compositor through
callbacks made outside the lane's lock.  Resets, state loads and route changes
call `xg_render_timeline_invalidate` from the guest thread at any moment.

PROJECT.json lists every component with its files and status, and every hazard
with the line where it bites.

## 2. Plan

In order of importance.  Done:

1. `SourceCommit`, `SourceCommitProofs`: the pool.
2. `SourceLane`: what the lane promises its producers, as an abstract
   specification.
3. `SemanticPresentation`, `SemanticPresentationProofs`: the whole lane with its
   callbacks, which implements `SourceLane`.
4. `NativeWork`, `NativeWorkProofs`: the collector over `SourceLane`, with its
   waiting loops.
5. `PresentationHost`, `PresentationHostProofs`: the worker thread and its wake-up
   sequence, the pump, and the lifecycle.
6. `ResourceRepository`, `ResourceRepositoryProofs`; `ResourceRestore`: the
   restoration of a checkpoint over it.
7. `SourceFrame`, `SourceFrameProofs`: the frame collector over `SourceLane`, the pool
   and the repository.
8. `VramResources`: the journal and the registry as the device events, the
   loaders and the checkpoints drive them.
9. `Authentication`: the four kinds of evidence that code may be replaced.
   `AuthenticationProofs`: proofs about both of these, which one runtime owns.
10. `SemanticCompositor`, `SemanticCompositorProofs`: the banks of fragments between
    producers and source frame.

Left:

11. `Submission` (one commit point for several components), `SurfaceGraph`.
12. `SourceTimeline` and `PhaseSelection`: admission by vblank and cycle, and the
    choice of a phase, as operators checked against a reference definition.
13. Motion's temporal registry, the movie publisher, the UI ordering table, the
    card mods.

## 3. Modules

### SourceCommit

Every exported function of the pool runs under one spin lock, so each is one
action.  `slot[s]` is the slot record and its generation counter;
`state = "free"` stands for the unoccupied states EMPTY, RETIRED, REJECTED and
CANCELLED, which differ only in the reason they leave behind.  `direct[r]`,
`motion` and `coverage` are the references a slot retains in the repository:
the resource list, uploads and meshes retain each time, motion and temporal
coverage only once for a slot.  `refs` is the repository's retain count as far
as this pool is concerned, and `current` what the repository still lists as
current: a retained snapshot may be acquired again although it is no longer
current (`Acquirable`).  `lease` records what each reader holds, which the code
keeps on the readers' stacks.  The digests, the order keys and the proofs that
`seal` recomputes are abstracted to its outcome (`Seal` or `SealRejected`).
The generation counter wraps at `GenLimit`, skipping 0, as the 32-bit counter
does.

### SemanticPresentation

The lane keeps all its state behind one spin lock and makes every callback
outside it.  An action is one locked section, together with the outcome of the
callback that precedes it, and `worker.pc` and `presenter.pc` name the callback
the thread is in, so every other thread may act during a callback.  Each of
the two threads has one call running at a time (`g_worker_operations`,
`g_presenter_busy`).

- `epoch`, `open`, `seq`, `scene`, `blocked`: the timeline of `g_diagnostics`,
  `g_publication_open`, the lane block.  `EpochLimit` and `SeqLimit` stand for
  UINT64_MAX, the saturated epoch and the last sequence.
- `fifo`: `g_source_queue`; `batch`: `g_batches`; `workBatch`, `retained`,
  `pending`: the three packed handles; `deferred`, `deferredCompile`: the
  retirements left for the presenter and the number of compile retirements
  among them.
- `live`: which commits, fences and endpoints exist.  An object is a pair of its
  kind and the work it belongs to, a retirement record the set of the objects it
  will release; `RetireBackend` and `RetireCommit` are the two halves of
  `run_retirement`.
- `applied`, `shown`: history of the last work whose effects took place and the
  last swap that was authorised.

The collectors are one thread that drafts, seals and publishes (`draft`).  A
callback's outcome is a nondeterministic choice over all its answers, the
refusals included.  The choice of a phase is a choice over every phase the
clock could make due, the clock running backwards included.

Left out, with the reason: generations of batch handles (a batch in a callback
is held by that thread, so the check never fails: `WorkerPlaced` and
`PresenterPlaced` of the proved invariant `LaneInv`); branches that can then not
be taken (a stale FIFO head at the start of a compile, a full FIFO at publish,
overflow of the deferred list), for which `WorkInOrder`, proved, and
`RetirementRoom`, checked, are the evidence; deadlines, vblank and cycle
admission, diagnostics, trace.

### SourceLane

The promise to producers, with six actions: published work takes effect in
sequence, once, without gaps, is acknowledged in that order, a failure blocks
until the next epoch, and an invalidation drops what was not acknowledged.
`SemanticPresentation` implements it under the mapping `Lane`: `published` is
the source sequence, `acked` what has left the FIFO, `applied` the last effect
if it is of the current epoch.

### NativeWork

The collector runs on the guest thread and calls the lane and the pool, whose
steps come in between.  Its own steps are therefore the sections between two
such calls: a guest call is a list `todo` of steps, built by operators named
after the functions (`BeginChunk`, `FlushSteps`, `Drain`, `UploadSteps`), and
`Accepted` says what each step requires.  A call of the lane that answers
WOULD_BLOCK is a step that is not enabled: the loops around
`wait_for_worker` re-check everything and change nothing, and their early
returns are `Refused` and `HostFails`.

- `builder`, `pending`, `counts`, `cEpoch`, `workEpoch`, `workCycle` are
  `g_builder` with `g_building`, `g_pending` with `g_sealed` and
  `g_pending_boundary`, the three counters, `g_epoch`, `g_work_epoch` and
  `g_work_cycle`.
- The lane is `SourceLane`, its six variables and its actions `Lane!Publish`,
  `Lane!Invalidate` and so on, composed with what the collector sees of it besides:
  the cycle of the last work and of the last vblank, the pool (`held`), and
  whether the worker is still busy with an older epoch (`stale`).
- An item is its number in the order the guest submits; `stream` and `out`
  record what was accepted and what was published since the last cancellation.
- `scene`, `reset` and `restore` are the three ways the authentication runtime
  invalidates (`timeline_invalidate_locked`, `xg_render_auth_runtime_vram_event`).

Abstractions: a commit may be full before the item limit, because operations
are not the only thing it holds; a service or callback may fail at any step; the
registration and import of an upload are one step with any outcome.
`psx_fatal_halt` is a call that fails.  The "disabled" collector, a draw whose
triangles are all rejected (it only calls `lane_ready`), the display description
and the HD texture hooks are left out.

### PresentationHost

The host around the lane: who may call what, when, and how it ends.  A call of a
thread is a list `todo[t]` of the steps it has yet to make, and a call made from
inside a presenter callback (`MayCall`) puts its steps in front.  Every
step between two acquisitions of a mutex, or between two atomics another thread
may see, is an action.

- `stop`, `closing`, `closed` are `stop_requested` and
  `shutdown_invalidation_started/_complete`; `lock` is the holder of
  `lifecycle_mutex` while it closes the lane.
- `exclusive` is `g_exclusive_host`; `owner`, `ownerReady`, `presenterRunning`
  and `joinStarted`, `joinComplete`, `joinOk` are the fields of these names, and
  `waiters` the threads on `join_condition`.
- `wake` says that `worker_sequence` differs from what the worker has seen;
  `worker` is the local state of `worker_main`.  The mutex of `signal_worker` makes
  "compare, then sleep" one step (`WorkerSleeps`), while a timeout may come
  although a signal has been sent (`WorkerTimesOut`).
- The lane is reduced to what the host can tell of it: open, blocked, the length of
  the FIFO, whether endpoints or deferred retirements are left, and the terminal
  epoch (`exhausted`), after which the lane closes behind the host.
- `fault` is history: the clock could not be read, the owner was rebound in the middle of a
  join, or the epochs ran out.

- A presenter is in one of two callbacks of the lane, a frame ("presenting") or a
  hold ("holding"), and calls that come meanwhile are refused as busy.

Abstractions: the deadlines of the pump are a choice of what is due in a tick; the owner
is rebound only while no pump runs, which the header asks of the caller.  There is one
host record: the next host is started when the earlier one was joined and no call of
it is left (the code's hosts are separate objects, which exist one at a time
because of the exclusive claim).  What a worker or a host record holds after it is gone
is put to its initial value.

### ResourceRepository

Every exported function of the repository holds its writer lock throughout, so each is one
action; what is hard is not the interleaving of their insides but the sequences
of calls that several producers, readers and invalidations make.

- `entries` is `g_entries`, named by generation: `import` is what the entry was
  imported as, `state` importing or native-owned, `current`, `staged`
  (`restore_staged`) and `retains` the fields of these names.  `caps` is
  `g_capabilities` (`pending` is `retire_pending`, `restored` the restored
  owner, `created` is `restore_created`, `origin` `checkpoint_capability`) and
  `identity` is `g_identities`.
- `held` and `undo` are history: who holds which reference, and which commits
  their producer can still roll back.
- `Drop` and `Reclaim` say what follows when entries cease to be current: storage
  goes unless it is retained, and with the last entry the capability that waited
  for that and the registration of the resource id.

The guest thread owns the producers: it imports under authority it has, for owners of the
scene that runs, and rolls a commit back only while it retains the predecessor.
It does not revoke the authority of a predecessor it may still put back,
because its producers revoke only what their own failed preparation
registered.  `reset` requires that no references are left, which its callers arrange.

### ResourceRestore

The checkpoint is restored in three calls (`prepare`, then `commit` or `cancel`)
under the lifecycle lock of the authentication runtime: the guest does nothing
else, while readers take and return references at any time.  `saved` is the
checkpoint and `restore` the restore under way, with the position of the driver in `phase`.  Prepare
reserves authority (`PrepareAuthority`), a private generation (`Reserve`) and, in
the UI, a reference (`RetainReserved`) for each saved resource, and may fail anywhere.
Commit invalidates what a boot must not keep (`BootInvalidate`), crosses the scene boundary, makes
the reserved authority live and installs the reservations one after the other.
The sections of a checkpoint (VRAM, movie, surfaces, UI) run these steps in a
fixed order over their own resources; here any order is allowed.  Owners are
moved to the new scene by the rule of the UI section, which moves the
scene-lived ones.

One observation the code makes no promise about: restoring the same
checkpoint twice is refused while the capability of the first restore is live
under its old id, because
`xg_render_resource_capability_checkpoint_restore_stage` compares the saved
owner with the one the first restore changed.  In the model the second
`PrepareAuthority` is then not enabled and the restore is cancelled.

### VramResources

The auth runtime drives the journal and the registry under one lock from the guest
thread, so every handler is one step; what interleaves is the order in which loader
calls, device writes and lifecycle events arrive.

- `word`, `observed`, `auth` are the journal: a word's shadow, whether it was seen,
  whether it came from an authenticated source.  `vram` is the device's own memory,
  `owed` the uploads that loaders have issued and the device not yet performed.
- `pubs`, `cache`, `staged`, `loader`, `next`, `count` are the registry's
  publications, the copies a scene boundary carries over, what the loader under way has
  imported, and the counter of publications.
- A device event (`Land` for a loader's upload, `GuestUpload`, `Clear`, `Move`,
  `RenderTargetWrite`) notes the write in the journal and retires what it makes stale in
  the registry, in one step.  `CheckpointWrite`, `RestoreCheckpoint`, `BootRestore` and
  the `RestoreEvent` that follows it are whole, since a checkpoint has the runtime to
  itself; `TimelineReset`, `SceneChange` and `CarryOver` (the scene boundary) are the lifecycle.

- `Placed` is where a commit puts a list of entries.  The code goes through the list: an
  entry whose region has a slot goes there, any other takes the first slot that is neither
  occupied nor reserved.  What this loop arrives at is stated without it (`GoesTo`): the k-th newcomer of
  the list takes the k-th free slot.  The cache, a scene boundary and a restored checkpoint fill
  their tables in the same way.

Left out: the chunks of a transfer (one locked section begins, writes and completes
it), generations, serials, digests and the diagnostics of a retirement.  A draw's
resolution is `Lookup`.  The palette cache never rebinds, so a run with textures
covers it.  With native work on, the event path goes to `NativeWork` and this journal
rests.

`OneMutationOrder` is stated in the module and belongs to no run: with no loader
under way and no upload outstanding, what a lookup answers is what the device
holds.  The code does not ensure it.  A device write that comes between an upload and
the commit of its loader retires what is published, not what is staged, and the
commit then publishes bytes the write has replaced.

### SourceFrame

The frame lock covers each call but none of the components it calls, and is
released around the host callback.  A call is therefore a sequence of steps
(`call.step`), one for each visit to the pool, the repository or the lane, and
`Reset`, epochs, lost resources and retirements by the lane come between.  The lane is
`SourceLane`, which the real lane implements.

- `frame` is `g_frame`, `presEpoch`, `resetGen`, `lastScene`, `force` the session
  (`g_presentation_epoch`, `g_reset_generation`, `g_last_scene_generation`,
  `g_force_discontinuity`); `Reconcile` is what each call does first.
- `begun` of a frame and `last` are history: when the frame was begun and when and
  in which scene the last frame was published.

A fragment brings a pass with it; a movie frame is a kind of resource.  A reset comes
from any thread while the frame lock is free.  Order keys, budgets and validation
are a choice of failure.

### Authentication

The state of the four modules is one record, `state`, and what a handler does to it an
operator on records, so that a call within a call is an operator applied to
another's result.

- `phase`, `tier`, `active`, `armed`, `completed`, `proof`, `sequence`, `candidate` are
  the transaction and its driver, `variant` the observer of the field variant,
  `artifacts` and `producer` the table of authenticated images and the entry a proof leaves
  behind, `pending` and `authorities` the local producers.
- `mem` is what is in guest memory at each place that holds code, `progress` and
  `dirty` are history: how far each tier has come since the last break, and whether the field was
  written under a producer entry.
- `Hooks` restricts hooks to those that the code tells apart.

Assumed of the runtime below: a write is reported before anything else runs
(RUNTIME_API.md, "code writes"), page generations differ after a write, one guest
thread, epochs of the bridge increase.  Generations, the primary record, rejection receipts,
movies and the mode without gates are left out.

Observations on which the code makes no promise.  After a completion a code write
retires the transaction while the completed proof stays available; ARCHITECTURE.md lists
code writes among the reasons to reject, but a unit test keeps it on purpose.  Entry and
capture of the variant, a disable, and the canonical return can be mixed in one transaction.

### SemanticCompositor

The banked compositor of fragments and the frame state that drives it.  It sits upstream of
the source-frame collector and works only while native work is off; all calls come
from the guest thread.

- `pending`, `retained`, `root` are `g_pending`, `g_retained` and the copy for
  another display; `completed` with `submitted` the completed field submissions and their
  order; `displayed` with `replaced` the kept pages; `prepared` and `stage` what a
  boundary has prepared between `Prepare` and `Finish`; `frame` the fragment
  runtime's frame state.
- A bank's `uses` says which owners name a resource in it, `refs` what the
  repository counts from here.  `drawn` is history: whether the draws of a bank belong to a
  submission that is complete.

A movie transaction is one step, because nothing runs inside it.  A boundary that
fails in `timeline_source_boundary` changes nothing.  Materialisation, overlap of
displays, the display target and the acquisition of a resource are choices of
outcome.  A scene keeps its module.  Removal of an owner has no caller, and frames of the
kind TYPED do not reach this lane.

Observations on which the code makes no promise.  A field scene may show again a displayed
page older than the retained one of the same display.  A freed slot is taken before the slot that
matches the area.  A rejected rebind blocks the retained bank, whose copies stay
blocked until a reset.  A fragment that only brings a pass can be published in a field
scene when a VBlank falls before its draws.

## 4. Runs

| Run | Instance | What it shows |
|---|---|---|
| `source_commit` | 2 slots, 2 resources, 2 readers, generations wrap at 2 | a lease pins its commit, references balance, sealed is immutable (`LeaseProtects`, `RefsBalanced`, `SealedImmutable`) |
| `lane_epochs` | 2 works in each of 2 epochs and the terminal one, 2 batches, phases up to 2 | everything owned once, compile alone and in order, room for retirements, only acknowledged work shown and never backwards, refinement of `SourceLane` |
| `lane_liveness` | 4 works in the first epoch, 1 in the second, and the terminal one, 2 batches, a pool of 2, 1 phase | published work settles, stale objects are released, a closed lane rests |
| `work_stream` | 3 items, 2 to a commit, an upload flushes, a pool of 1, cycles 0 and 1 | what the guest submits is published once and in order, identities are never refused by a lane that is ready, drains are complete, a restore is alone, no guest call waits forever |
| `host` | 2 threads, both may start, present or take over, 1 work, epochs may end | clean hand-over, one presenter, truth of FAILED and of a join, no lost wake-up, no hanging call |
| `repository` | 1 resource, 1 identity, module and scene owners, 3 generations, 2 capabilities, 2 scenes, direct imports of the second generation | one current generation, nothing leaks, current is authorised; a restore keeps its reservations and is whole or harmless; nothing stale returns |
| `vram_journal` | 2 words of memory, 3 rectangles, 2 genuine contents and a foreign one, 2 slots | the journal never contradicts the device, answers stay right, a restore brings back what was saved |
| `vram_count` | the same | **violated**: `CountIsExact`, see below |
| `source_frame` | 2 resources, 2 scenes, 2 descriptions, 1 commit, 3 epochs, 1 reset | references balance, a cancelled frame is never published, cuts are announced |
| `authentication` | canonical field, variant and overlay, one local producer, 2 artifacts, 2 scenes | authority is intact, a proof is unbroken |
| `compositor` | 2 pages, 2 textures, 2 completed slots, 1 displayed page, 3 updates of a scene | references balance, a field scene shows only what was sealed |
| `compositor_rejected` | 2 pages, 1 texture | **violated**: `RejectedIsGone`, see below |

Bounds.  Two slots, readers and resources are enough for one commit to be
retired under two readers, for a slot to be reused while a handle of its
previous commit is still around, and for motion and coverage to share a
resource.  In the lane, two live epochs and the terminal one give a result of
the old epoch arriving in the new one and an invalidation at the limit; two
batches give one retained (or in a callback) and one pending, and a third work
then needs room; as many commits as works of an epoch make the pool itself push
back.

The liveness run of the lane needs a longer epoch, or nothing could starve the FIFO.
With two batches, the second work can start an interval from the first, the third wait
for the end of that interval, and the fourth find no free batch; two
supersessions fill the reserve of the deferred list before the fourth work; and with a
pool of two the next epoch has a work in the FIFO while the fence of an
invalidated one waits for its cleanup.  `MCSemanticPresentation` names the three situations
(`HeldInterval`, `FullReserve`, `StaleFence`), and TLC reaches each of them under
`LaneLiveness.cfg`: the invariants that deny them (`HeldIntervalNever`, ...) are violated.
`LongFairSpec` is `FairSpec` under three more bounds, without which the
instance has millions of states: only the first epoch has more than one work
(`LongEpochs`), an epoch is invalidated after at most two published works or lasts
(`LastInvalidated`), and the phases of an endpoint start from the work before it.
Wherever an action of a fairness condition is enabled it can still be taken under these
bounds, so they make no condition stronger.

For the collector, a pool of one makes it wait, a commit that may be full
after one item or two makes flushes in the middle of an append happen at every
item, and two cycles give an item that is older than the boundary before it.
For the host, two threads are one owner and one that races it; one work in the
FIFO is what a wake-up is about; hosts are started again without a bound.
`EpochLimit` and `SeqLimit` are limits the code has too.

For the repository, three generations give a predecessor, a commit and
something installed over it, the case rollback must refuse; two capabilities
give a retired one beside its successor; a restore needs one generation for
what is saved and one for its reservation, the third for a change between save and
restore or a second restore.  `GenLimit` is the exhaustion of
`g_next_generation`; `CapLimit` and `SceneLimit` bound unbounded counters, and a holder
keeps at most one reference to a generation.  `DirectGens` says which generations
`xg_render_resource_import` may make: the second can retire a predecessor, be
retired by a successor and be saved, so the run allows it alone.  One resource is the largest instance
that finishes with everything else; `OneCurrent`, `NothingLeaks` and
`StaleStaysStale` are proved for any number.

In video memory, two words and their union give a rectangle that is overwritten
in part; `SeqLimit` and `OwedLimit` bound a counter and a queue of the device; no moves
and no loader run while a checkpoint waits to be restored.  The source frame has one
commit, so that the pool is exhausted while the lane holds it, one resource of
the first scene that is a movie frame too and one that outlives scenes; `ResetLimit`
bounds resets.  For authentication one local producer that defers to an artifact is
enough, because producers do not interact but through the artifacts; the
artifact table holds two of three images.  For the compositor
`UpdateLimit` bounds the updates of one scene (an invalidation starts anew), three
being a picture, its replacement and one that comes between; the two pages give a
picture for each buffer.

Deadlock is checked except where the system may rest: the host after the epochs
or the exclusive claim are gone (`CallsReturn` shows that no call is caught in the
middle), and the bounded instances of video memory, authentication and
compositor.  `TypeOK` states the range of every variable in each module; it is part of the
inductive invariants where there are proofs.

Every property has a mutant: a variant of a mapped definition with a plausible
bug, kept in the module and marked "broken variant", under which TLC reports
that property violated.

`vram_count` documents a defect.  `xg_render_vram_resources_commit` retires the
publication it is about to replace, which empties the slot, and then counts the
empty slot as a new publication, so each such replacement adds one to
`publication_count`.  It happens when an upload of the same bytes with another
handle replaces a publication.  The size of a checkpoint is then 0, and none can be written
until a scene boundary or a reset counts anew.

`compositor_rejected` documents another.  When a frame becomes terminal by a rejection
that does not come from the compositor, `finalize` resets the source frame but not
the compositor, and `finish_boundary` finds nothing prepared: the fragments accepted
before stay in the building bank, and outside field scenes the next VBlank shows
them, alone or with its own.  The header says that a rejected append makes the boundary
terminal "rather than allowing a partial frame".

One more observation is left as a guard, not as a finding, because only tests call
`xg_render_resource_import`: it retires the predecessor before it enters the new
resource, and the predecessor, as the last user, takes a retired capability along, so that a
current resource may be left without authority.  `CurrentIsAuthorised` and
`CancelIsHarmless` speak of the other imports.

### Fairness

`FairSpec` assumes weak fairness of the worker and of the presenter inside a
call; strong fairness of new `present_next` calls, because the pump calls it
on every iteration and lets at most a hold follow it; that a sealed commit is
published or dropped; that the compiler does not answer WOULD_BLOCK, and its
fence not PENDING, forever; and `<>[][DisplayWorks]_vars`: from some time on,
arbitrarily late, completions arrive, the clock moves and compositions succeed.
Without the last one the window system may hold every batch forever, and the
code rightly keeps waiting.  In `NativeWork` it assumes weak fairness of the
collector's own steps (the guest thread runs), and of what the lane's own
liveness run shows: a lane that is not blocked works on, retired commits
become free, and work of an older epoch ends.  In `PresentationHost` threads inside a
call and the worker run (weak fairness of `Continue` for each thread and of
`WorkerStep`), callbacks return and the compiler does not delay a work forever (strong
fairness of their answers), and the owner keeps pumping and draining (strong fairness of
`Service` and `ServiceDrains`): RUNTIME_API.md says that "service must
continue even when no endpoint is presentable".  The last one is needed: a work
published before `start` has returned the host is announced to the worker by
nobody else.  There is no fairness of invalidation, opening or
publication of new work.

## 5. Proofs

Every theorem holds for all values of the constants that satisfy the assumption
named in the module; TLC evaluates that assumption in the runs of the module.  The
argument is always an inductive invariant, checked by TLC on the instance of the
run before it was proved, with a lemma for each action.

`SourceCommitProofs`, for any set of slots, readers and resources and any
generation limit above 1:

- `PoolTyped`: slots, leases and the current set have their types.
- `LeaseSafety`: `LeaseProtects` and `ReaderCount`.  Neither is inductive alone.
  A lease pins its commit because retire and reset defer on a nonzero reader
  count, which needs the count to be exact; and the count stays exact because
  no leased slot is freed and refilled, which needs the lease to be valid.  The
  inductive invariant `LeaseInv` is their conjunction with the types.  The proof
  divides the steps into those that take or return a lease and those that do
  not; the latter either keep a slot (`Kept`) or refill one nobody leases
  (`Fresh`).
- `SealedCommitsImmutable`: `SealedImmutable`, from the type invariant alone:
  only a builder is written, and freeing a slot advances its generation.
- `ReferencesBalanced`: `RefsBalanced`.  What one slot holds of a resource is the size of a set
  of marks (`References`), so the count of the pool is a cardinality, and the lemmas about `Weights`
  say how it changes when one slot is rewritten or several are given up.  The
  balance is inductive only with `FreeHoldsNothing`, because `begin` clears the record of the slot it takes
  without giving anything back.  The pool is assumed finite.

`NativeWorkProofs`, for any capacities, limits and number of items:

- `LaneInSequence`, of the abstract `SourceLane`: an acknowledgement never comes before
  its effects, effects are at most one work ahead of it and never of unpublished
  work, and the terminal epoch is closed and empty.
- `WorkKeepsLane`: the collector and the host drive the lane only by steps of
  `SourceLane`, so the composed specification implements it.
- `WorkInvariant`, and from it `WorkStreamKept`, `WorkIdentityHolds`, `WorkSceneIsDrained`
  and `WorkRestoreIsAlone`.  `WorkInv` has a part for each.  `Placed` speaks of the list of
  steps a call has left: which step may follow which (`Legal`), and that the first
  one finds a commit being built or sealed, or neither, as it needs.  `Timely` gives both
  commits the identity the lane will ask for, as long as their epoch lasts, and ties
  the lane's last cycle to the collector's own.  `Kept` is the order of the items.
  `Restored` and `Drained` carry the wait for the worker from the step that waits to the
  steps that rely on it, although the host may close the lane in between.  The lemmas
  about lists say that what a call starts with, or is made to do again (a drain before a
  second import, a flush before a second append), is legal whatever is being built.

`ResourceRepositoryProofs`, for any resources, owners and limits: `RepositoryInvariant`,
from which `OneCurrentHolds`, and `StaleNeverReturns`.  The invariant is `Typed`, `OneCurrent` and
`UndoMatches`: a rollback makes the predecessor current again, so one must know
that nothing else has become current under the undo record.  The operations share four
shapes of a step: entries leave (`Shrinks`), one is added (`Adds`), one is installed in place
of another (`Installs`), one is put back (`Reverts`).

The same module proves `NothingEverLeaks`: reference counts are exact and what
nobody uses any more is gone.  There are three accounts, of a generation's holders, of a
capability's users and of an owner's, and each is a cardinality that a step changes
by one; the facts about finite sets come from FiniteSetTheorems, and the set of
holders is assumed finite.

And it proves the restore of a checkpoint (`ResourceRestore`), for any set of saved resources and with the
other holders acting between its steps.  `RestoreInvariant` (`RestoreInv`) is inductive; from it follow
`RestoreKeepsOneCurrent`, `RestoreNeverLeaks`, `CurrentAlwaysAuthorised`, `ReservationsAlwaysSurvive` and
`RestoreAlwaysWhole`, and with one step more the action properties `CancelAlwaysHarmless` and
`RestoreStaleNeverReturns`.  It has three parts, which need each other:

- the accounts above (`LeakInv`), which hold the retain counts by which reclaiming decides;
- `AuthorityInv`: not only what is current is backed by live authority of its owner, but also whatever a later
  step may make current, an import that waits for its commit and the predecessor that an undo record would
  put back.  `CurrentIsAuthorised` alone is not inductive for want of these;
- `InOrder`: which tables the restore has in which phase.  What is reserved, entry and capability, is kept for
  the owner the commit will create (`Target`), and capabilities that are not live were created by this
  restore (`CapsLive`).  Commit gives authority from the saved scene to the new one, and that would take the
  backing of anything of the old scene: it is sound because the boundary before it leaves nothing
  of a scene ready to be used (`OldSceneGone`).  Reservations outlive that boundary and a boot
  invalidation because invalidation passes over staged entries, and a capability with a staged entry is in use.
  Saved resources are distinct, so no two reservations share an entry or replace each other when they
  are installed.

`SourceFrameProofs` proves `FrameInvariant`, `CancelledNeverPublished` and `CutsAlwaysAnnounced`.  The
invariant says that a pending request is of the current generation (`PendingFresh`,
`Entered`, `CommitFresh`) and that the cadence is cut exactly when a frame was
lost (`CadenceTrue`); the action properties follow from it and one step.  `ReferencesBalanced` is about the
four places that may hold a reference: the pending frame, what the call in progress has
taken so far (`call.taken`), the commit it builds or waits to publish (`call.commit`), and
the commits of the lane.  `Held` says besides that what a call still has to retain is
disjoint from what it has retained (`Tidy`), since a rollback gives back a set and not
a list, and that the commits of the lane are finitely many and told apart by epoch and
sequence (`Listed`), so that two of them never share one reference.

`SemanticPresentationProofs`, for any epoch and sequence limits, batches and phases:

- `LaneInvariant`, and from it `LaneWorkInOrder`, `LaneShownIsAcked` and the action property
  `LaneShownAdvances`.  The parts of `LaneInv` say where each thread can be with which
  work, that the FIFO is in order and its head the work in progress, that what is
  applied, acknowledged, retained and shown are prefixes of one another, and what
  lies in the packed handles.
- `LaneOwnership`, and from it `LaneOwnsOnce` (`OwnedOnce`).  `OwnInv` divides what is alive among
  five owners (`Whole`): the draft, the batches together with the FIFO, the deferred
  records, and the record each thread is cleaning up.  The batches and the FIFO are one
  owner because the source in work is in both.  What a batch carries follows from its
  state and the place of the worker (`Cargo`), so a step that moves a batch says what it
  moves; a deferred record is not empty and no two share anything; and a new object is new because
  nothing exists of a work before it is begun (`Fresh`) nor an endpoint or fence of it before it
  is compiled, which happens once (`CompiledOnce`).  An invalidation defers the FIFO and every batch no
  thread works on, in the order of the slots: the lemmas about `Ascending` and `Spreads` say
  that the new records are disjoint and hold together what the owners held.
- `LaneFences`, and from it `LaneCompileIsSafe` (`CompileIsSafe`).  That a fence never outlives its commit is not
  inductive without knowing that at most one compile is under way or being discarded.
  `FenceInv` says that the deferred records with a compile fence, and that of the
  presenter, are counted by `deferredCompile` and are at most one (`FenceCounted`); that none
  is counted while a batch is compiled or checked, or while the worker discards one
  (`CompileAlone`); and that each fence has its commit beside it, or, when a compile failed, in
  the batch the worker goes back to (`FencesCovered`).
- `LaneRoom`, and from it `LaneRetirementRoom` (`RetirementRoom`).  The length of the deferred list is not
  bounded by any one guard: the worker asks for room when it starts a batch, which may be deferred much
  later, beside others.  A deferred record with a commit is paid for by the pool, whose commits are never more than
  its capacity (`PoolHolds`); a record without one was a batch.  `RoomInv` therefore counts works and not
  records: the works of such records and of the occupied batches (`RoomLeft`).  Deferring a batch moves its
  work from one group to the other, popping a record drops it, and only the start of a batch adds one, when
  there are fewer records than batches.  That no work is in both groups, nor in two
  batches, is `WorksApart`, and needs `OwnInv` (a work is compiled once); that a record without a commit
  has an endpoint needs `FenceInv`.
- `LaneImplementsSourceLane`: under the refinement mapping of the module each
  step is a step of `SourceLane` or a stutter.  With `LaneInSequence` the lane inherits the
  promise's own invariant, and what is proved of `NativeWork` over that promise
  is proved over this lane.

`PresentationHostProofs` proves `HostInvariant`, `HostReleasedClean`, `HostPresenterExclusive` and
`HostJudged`, for any set of threads.  The stack of calls of a thread is one of a
finite set of stacks (`Stacks`), which replaces an induction over it.  `HostInv` says
who may start, pump, join and close at the same time, and that the exclusive claim
is only free when the worker is done and the lane quiescent.  It assumes that the
value for nobody is no thread.

`AuthenticationProofs`, for any images, extents, local producers and capacities:
`AuthenticationInvariant`, and from it `AuthorityHolds` (`AuthorityIsIntact`) and `ProofsAreUnbroken`
(`ProofIsUnbroken`).  The invariant has a part for each.  `InMemory`: the evidence of every module is only of code
that is in memory now.  `Course`: the phase of the transaction is no further than what its tier
has seen since the last break, so that a completion was reached through every step before.  Most calls only take evidence
away (`Fades`, `Recedes`), which keeps both; a hook has one of three outcomes besides (`Enters`,
`Captures`, `Returns`).  Assumed of the constants: cutover code is code of the field image, and the value
for nothing is no proof.

`SemanticCompositorProofs`, for any pages, textures and capacities: `CompositorInvariant`, and from it
`ReferencesBalanced` (`RefsBalanced`) and `FieldAlwaysSealed` (`FieldIsSealed`).  Every bank has a place, and the count of a resource is the
number of places whose bank names it.  A step replaces the bank of one place, of two (a submission that is
sealed) or of three (a publication that keeps the picture it replaces), and `Recounted` is what the counts become
for each; an update is shown to acquire and release exactly the difference between the bank it finds
and the bank it leaves (`UpsertedHolds`).  Three facts make this inductive: a bank that was not
begun holds nothing (`Started`), because `pending_begin` overwrites it; the copy of the retained bank
exists only while it is prepared (`Preparing`), because preparing it again would overwrite it; and
what a boundary has prepared is a place of the compositor but never the retained bank itself.  `Sealing`
adds that a building bank of a field scene with a draw open waits for its list
(`required`) or is refused, which is why a boundary does not take it.

The same module proves what the auth runtime knows of video memory (`VramResources`), for any memory,
rectangles, kinds, contents, capacity, and any number of loads and writes: `JournalInvariant` (`VramInv` is inductive), and from it
`JournalAlwaysTrue` (`JournalTrue`), `RegistryKeepsShape` (`RegistryShape`: a lookup has one answer) and the action
properties `AnswersAlwaysKeep` (`AnswersKeep`) and `RestoreAlwaysRoundTrip` (`RestoreRoundTrip`).  The
parts of the invariant need each other:

- `Mirrors`: the journal contradicts its memory nowhere.  That memory is the device's, except between a boot restore
  and its device event, when it is the memory to come (`Memory`); so the checkpoint that is kept mirrors the
  memory saved with it (`SavedInv`), and what was installed of it is still there (`Preapplied`).
- Authority is earned only if every table holds authenticated bytes alone, since an upload is authenticated by the
  publication it matches, and a commit authenticates what it staged: the types of `PubTable`, `CopyTable`,
  `LoaderInv` and of the uploads outstanding say so.
- A publication's place in the order is unique only with what is staged: a loader that is dropped gives its
  numbers back.  `Floor`, the number it began with, lies above all that is published and at or below all that is staged.
- No region has two slots.  `GoesOnce` shows that `Placed` never puts one entry in two slots, nor two in one,
  because counting what comes before tells the members of a set apart (`BeforeApart`).

For `AnswersKeep` an answer is followed by its place in the order, which identifies the slot (`SameAnswer`): a write that
spares the slot left its words in memory (`SpareTells`), and a move that patches it puts there the words it moved
(`PatchTells`), also in the cached copy.  It assumes that rectangles are not empty and addresses are numbers.

Left to TLC is liveness: `PublishedSettles`, `StaleIsReleased`, `CloseQuiesces`, `CallReturns`, `WorkIsTaken` and
`CallsReturn`.  The prover has no ENABLED, hence no fairness.  What it cannot do either is induction over data, so
where the code loops the models use a closed form (`Placed`, `Weights`) or the proof a finite set of cases (`Stacks`).

## 6. Not modelled

The components marked so in PROJECT.json.  Drawing, decoding of guest memory and
digests are data the properties do not tell apart.  The recompiler runtime is a
submodule that is not part of this repository.
