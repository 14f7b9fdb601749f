----------------------------- MODULE SourceFrame -----------------------------
(***************************************************************************)
(* The source-frame collector (xg_render_source_frame.c).  The guest       *)
(* thread fills one pending frame; at the vblank boundary it is copied     *)
(* into a commit, shown to a host callback and published to the lane.      *)
(*                                                                         *)
(* The frame lock covers each call, but not the lane, the commit pool and  *)
(* the repository the call talks to, nor the host callback, during which   *)
(* the lock is not held at all.  So a call is a list of steps, one for     *)
(* each visit to another component, and resets by other threads, epochs,   *)
(* retired resources and retired commits come in between.                  *)
(***************************************************************************)
EXTENDS Integers, FiniteSets

CONSTANTS
  Resources, Owner,   (* resources, the scene that owns each (0: none does)  *)
  Movies,             (* those that are movie frames                         *)
  Descriptions,       (* descriptions a frame may have: [scene, cut]         *)
  PoolLimit,          (* commits of the pool, and places in the lane's FIFO  *)
  ResetLimit,         (* resets by the guest or the host                     *)
  EpochLimit, SeqLimit                   (* as in SourceLane                 *)

ASSUME FrameAssumption ==
  /\ Owner \in [Resources -> Nat] /\ Movies \subseteq Resources
  /\ Descriptions \subseteq [scene : Nat \ {0}, cut : BOOLEAN]
  /\ IsFiniteSet(Resources)
  /\ {PoolLimit, SeqLimit} \subseteq Nat \ {0} /\ ResetLimit \in Nat
  /\ EpochLimit \in Nat /\ EpochLimit > 1

VARIABLES
  epoch, open, blocked, published, applied, acked,   (* the lane, SourceLane  *)
  laneScene,          (* the scene of the epoch, 0 until something is published *)
  laneCommits,        (* published commits the lane has not retired yet      *)
  current, refs,      (* the repository: current resources, retain counts    *)
  frame,              (* g_frame                                             *)
  presEpoch, resetGen,               (* g_presentation_epoch, g_reset_generation *)
  lastScene, force,   (* g_last_scene_generation, g_force_discontinuity      *)
  configured,         (* g_host_callbacks_configured                         *)
  call,               (* the call in progress                                *)
  last                (* history: when the last published commit was         *)

Lane == INSTANCE SourceLane
laneVars == <<epoch, open, blocked, published, applied, acked>>
lane == <<laneVars, laneScene, laneCommits>>
repository == <<current, refs>>
cadence == <<lastScene, force>>
session == <<presEpoch, resetGen, cadence>>
vars == <<lane, repository, frame, session, configured, call, last>>

---------------------------------------------------------------------------
(* begun is history: the lane's epoch and the resets when the frame became   *)
(* active; it is copied into the commit the frame becomes.                   *)
NoTime == [epoch |-> 0, resets |-> 0]
NoDescription == [scene |-> 0, cut |-> FALSE]
NoFrame == [active |-> FALSE, complete |-> FALSE, blocked |-> FALSE,
            description |-> NoDescription, passes |-> FALSE,
            resources |-> {}, begun |-> NoTime]
NoCommit == [alive |-> FALSE, epoch |-> 0, seq |-> 0, scene |-> 0, cut |-> FALSE,
             resources |-> {}, begun |-> NoTime]
NoCall == [step |-> "none", description |-> NoDescription, todo |-> {},
           taken |-> {}, commit |-> NoCommit, resets |-> 0]

Init ==
  /\ Lane!Init /\ laneScene = 0 /\ laneCommits = {}
  /\ current = Resources /\ refs = [r \in Resources |-> 0]
  /\ frame = NoFrame
  /\ presEpoch = 0 /\ resetGen = 0
  /\ lastScene = 0 /\ force = TRUE
  /\ configured = FALSE
  /\ call = NoCall
  /\ last = [epoch |-> 0, resets |-> 0, scene |-> 0]

(* The frame lock is free between calls and while the host sees a commit.    *)
Locked == call.step \notin {"none", "capture", "captured"}
Return == call' = NoCall

Retained(rs) == [r \in Resources |-> refs[r] + (IF r \in rs THEN 1 ELSE 0)]
Released(rs) == [r \in Resources |-> refs[r] - (IF r \in rs THEN 1 ELSE 0)]

(* acquire_snapshot takes what somebody retains even if it is not current.   *)
Snapshot(r) == r \in current \/ refs[r] > 0

(* frame_clear.                                                              *)
FrameClear ==
  frame' = NoFrame /\ refs' = Released(frame.resources)

(* Every call first looks whether the lane went on to another epoch.         *)
ReconcileKeepsCadence ==  (* broken variant: the cut is not forced *)
  /\ presEpoch' = epoch
  /\ IF presEpoch \in {0, epoch}
     THEN UNCHANGED <<frame, refs, resetGen, cadence>>
     ELSE resetGen' = resetGen + 1 /\ FrameClear /\ UNCHANGED cadence
Reconcile ==
  /\ presEpoch' = epoch
  /\ IF presEpoch \in {0, epoch}
     THEN UNCHANGED <<frame, refs, resetGen, cadence>>
     ELSE resetGen' = resetGen + 1 /\ FrameClear /\ lastScene' = 0 /\ force' = TRUE

---------------------------------------------------------------------------
(* The guest enters a call: it takes the frame lock and reconciles.          *)
Enter(step, d, rs) ==
  /\ call.step = "none"
  /\ Reconcile
  /\ call' = [NoCall EXCEPT !.step = step, !.description = d, !.todo = rs]
  /\ UNCHANGED <<lane, current, configured, last>>
Request ==
  \/ \E d \in Descriptions, rs \in SUBSET Resources : Enter("fragment", d, rs)
  \/ \E d \in Descriptions : Enter("begin", d, {})
  \/ \E r \in Resources : Enter("resource", NoDescription, {r})
  \/ \E step \in {"record", "complete", "reject", "boundary", "snapshot"} :
        Enter(step, NoDescription, {})

At(step) == call.step = step
Goes(step) == call' = [call EXCEPT !.step = step]
Changes(newFrame) ==
  frame' = newFrame /\ Return /\ UNCHANGED <<lane, repository, session, configured, last>>
Activated(d) ==
  [NoFrame EXCEPT !.active = TRUE, !.description = d,
                  !.begun = [epoch |-> epoch, resets |-> resetGen]]
BlockedFrame == [frame EXCEPT !.blocked = TRUE]
Appendable == frame.active /\ ~frame.complete

Begin ==
  /\ At("begin")
  /\ Changes(IF frame.active THEN frame ELSE Activated(call.description))

(* frame_append of a pass; a record that is missing or has no room blocks    *)
(* the frame.  The other kinds of record only differ in what they hold.      *)
AppendRecord ==
  /\ At("record")
  /\ IF Appendable
     THEN Changes([frame EXCEPT !.passes = TRUE]) \/ Changes(BlockedFrame)
     ELSE Changes(frame)

(* A resource that cannot be retained, or has no room, blocks the frame.     *)
AppendResource ==
  LET r == CHOOSE r \in call.todo : TRUE
  IN /\ At("resource")
     /\ Return
     /\ CASE ~Appendable \/ r \in frame.resources -> UNCHANGED <<frame, refs>>
          [] Appendable /\ r \notin frame.resources /\ Snapshot(r) ->
               /\ frame' = [frame EXCEPT !.resources = @ \cup {r}]
               /\ refs' = Retained({r})
          [] OTHER -> frame' = BlockedFrame /\ UNCHANGED refs
     /\ UNCHANGED <<lane, current, session, configured, last>>

Complete ==
  /\ At("complete")
  /\ Changes(IF ~Appendable THEN frame
             ELSE IF frame.blocked \/ ~frame.passes THEN BlockedFrame
             ELSE [frame EXCEPT !.complete = TRUE])

Reject ==
  /\ At("reject")
  /\ Changes(IF frame.active THEN BlockedFrame ELSE frame)

Peek == At("snapshot") /\ Changes(frame)

---------------------------------------------------------------------------
(* A fragment is taken whole or not at all.  Its resources are looked at     *)
(* first, then retained one by one; each can be lost in between.  It is also *)
(* refused when the frame has no room for it.  Fragments here bring a pass;  *)
(* frames without one come from begin.                                       *)
Compatible(r, scene) ==
  Owner[r] \in {0, scene} \/ (r \in Movies /\ refs[r] > 0)
FragmentFits ==
  /\ frame.active => ~frame.complete /\ frame.description = call.description
  /\ \A r \in call.todo \ frame.resources :
        Snapshot(r) /\ Compatible(r, call.description.scene)
AppendFragment ==
  /\ At("fragment")
  /\ \/ /\ FragmentFits
        /\ call' = [call EXCEPT !.step = "retain", !.todo = @ \ frame.resources]
     \/ Return
  /\ UNCHANGED <<lane, repository, frame, session, configured, last>>

(* A frame takes snapshots for a fragment, but from the surface graph only   *)
(* what is still current.                                                    *)
Obtainable(r) == IF At("retain") THEN Snapshot(r) ELSE r \in current
RetainNext ==
  /\ At("retain") \/ At("attach")
  /\ \E r \in call.todo :
       /\ Obtainable(r)
       /\ refs' = Retained({r})
       /\ call' = [call EXCEPT !.todo = @ \ {r}, !.taken = @ \cup {r}]
  /\ UNCHANGED <<lane, current, frame, session, configured, last>>

RollbackForgets ==  (* broken variant *)
  /\ At("retain") \/ At("attach")
  /\ \E r \in call.todo : ~Obtainable(r)
  /\ IF At("retain") THEN UNCHANGED <<frame, refs>> ELSE FrameClear
  /\ Return
  /\ UNCHANGED <<lane, current, session, configured, last>>

(* What was retained is given back; a boundary gives the whole frame up.     *)
Rollback ==
  /\ At("retain") \/ At("attach")
  /\ \E r \in call.todo : ~Obtainable(r)
  /\ IF At("retain")
     THEN refs' = Released(call.taken) /\ UNCHANGED frame
     ELSE refs' = Released(call.taken \cup frame.resources) /\ frame' = NoFrame
  /\ Return
  /\ UNCHANGED <<lane, current, session, configured, last>>

Merge ==
  LET base == IF frame.active THEN frame ELSE Activated(call.description)
  IN /\ At("retain") /\ call.todo = {}
     /\ Changes([base EXCEPT !.passes = TRUE, !.resources = @ \cup call.taken])

---------------------------------------------------------------------------
(* The boundary.  A frame that is not complete is dropped; to a complete one *)
(* the surfaces of its own scene are attached, another scene's refuse it.    *)
Fails == FrameClear /\ Return
Boundary ==
  /\ At("boundary")
  /\ IF ~frame.active THEN Return /\ UNCHANGED <<frame, refs>>
     ELSE IF ~frame.complete \/ frame.blocked THEN Fails
     ELSE \E surfaces \in SUBSET Resources :
            IF \A r \in surfaces : Owner[r] = frame.description.scene
            THEN /\ call' = [call EXCEPT !.step = "attach",
                                        !.todo = surfaces \ frame.resources]
                 /\ UNCHANGED <<frame, refs>>
            ELSE Fails
  /\ UNCHANGED <<lane, current, session, configured, last>>

Attach ==
  /\ At("attach") /\ call.todo = {}
  /\ frame' = [frame EXCEPT !.resources = @ \cup call.taken]
  /\ call' = [call EXCEPT !.step = "identity", !.taken = {}]
  /\ UNCHANGED <<lane, repository, session, configured, last>>

(* timeline_next_identity: read from the lane, and of the epoch the frame    *)
(* lock knows, or the frame is given up.                                     *)
Ready == open /\ ~blocked /\ epoch < EpochLimit
Identifiable ==
  /\ Ready /\ published < SeqLimit
  /\ laneScene \in {0, frame.description.scene}
  /\ epoch = presEpoch
Discontinuity ==
  \/ force \/ frame.description.cut
  \/ lastScene \notin {0, frame.description.scene}
Identify ==
  /\ At("identity")
  /\ IF Identifiable
     THEN /\ call' = [call EXCEPT !.step = "pool",
                !.commit = [NoCommit EXCEPT !.epoch = epoch, !.seq = published + 1,
                              !.scene = frame.description.scene,
                              !.cut = Discontinuity, !.begun = frame.begun]]
          /\ UNCHANGED <<frame, refs>>
     ELSE Fails
  /\ UNCHANGED <<lane, current, session, configured, last>>

(* The commit takes a slot of the pool, if there is one.                     *)
BeginCommit ==
  /\ At("pool")
  /\ IF Cardinality(laneCommits) < PoolLimit
     THEN /\ call' = [call EXCEPT !.step = "fill", !.commit.alive = TRUE,
                                  !.todo = frame.resources]
          /\ UNCHANGED <<frame, refs>>
     ELSE Fails
  /\ UNCHANGED <<lane, current, session, configured, last>>

(* The records go in one by one; a resource is retained by the commit too.   *)
FillNext ==
  /\ At("fill") /\ call.commit.alive
  /\ \E r \in call.todo :
       /\ Snapshot(r)
       /\ refs' = Retained({r})
       /\ call' = [call EXCEPT !.todo = @ \ {r}, !.commit.resources = @ \cup {r}]
  /\ UNCHANGED <<lane, current, frame, session, configured, last>>

(* The pool refuses a record, or the seal: the commit and the frame are      *)
(* gone.  A builder of an older epoch has been cancelled already.            *)
CommitFails ==
  /\ At("fill")
  /\ frame' = NoFrame /\ Return
  /\ refs' = [r \in Resources |->
        refs[r] - (IF r \in frame.resources THEN 1 ELSE 0)
                - (IF r \in call.commit.resources THEN 1 ELSE 0)]
  /\ UNCHANGED <<lane, current, session, configured, last>>

(* The sealed commit leaves the frame, with what will tell of a reset.       *)
Seal ==
  /\ At("fill") /\ call.todo = {} /\ call.commit.alive
  /\ FrameClear
  /\ call' = [call EXCEPT !.step = "capture", !.resets = resetGen]
  /\ UNCHANGED <<lane, current, session, configured, last>>

(* sealed_capture runs without the lock; it may refuse the commit, and then  *)
(* the cadence stays as it was.                                              *)
Capture ==
  /\ At("capture") /\ Goes("captured")
  /\ UNCHANGED <<lane, repository, frame, session, configured, last>>
Retire == refs' = Released(call.commit.resources) /\ Return
CaptureFails ==
  /\ At("capture") /\ configured
  /\ Retire
  /\ UNCHANGED <<lane, current, frame, session, configured, last>>

Relock ==
  /\ At("captured")
  /\ Reconcile /\ Goes("publish")
  /\ UNCHANGED <<lane, current, configured, last>>

(* xg_render_source_queue_publish, unless the frame was cancelled meanwhile. *)
Queueable ==
  /\ Ready /\ published - acked < PoolLimit
  /\ call.commit.epoch = epoch /\ call.commit.seq = published + 1
  /\ laneScene \in {0, call.commit.scene}
NeverCancelled == TRUE  (* broken variant *)
NotCancelled == call.resets = resetGen
Queued(c) == [epoch |-> c.epoch, seq |-> c.seq, resources |-> c.resources]
Publish ==
  /\ At("publish") /\ NotCancelled /\ Queueable
  /\ Lane!Publish
  /\ laneScene' = call.commit.scene
  /\ laneCommits' = laneCommits \cup {Queued(call.commit)}
  /\ last' = [epoch |-> epoch, resets |-> resetGen, scene |-> call.commit.scene]
  /\ call' = [call EXCEPT !.step = "cadence", !.resets = 0,
                          !.commit = [NoCommit EXCEPT !.scene = call.commit.scene]]
  /\ UNCHANGED <<repository, frame, session, configured>>

PublishFails ==
  /\ At("publish") /\ ~(NotCancelled /\ Queueable)
  /\ Retire
  /\ UNCHANGED <<lane, current, frame, session, configured, last>>

(* The cadence follows under the same lock, then the host is notified.       *)
Cadence ==
  /\ At("cadence")
  /\ lastScene' = call.commit.scene /\ force' = FALSE
  /\ Return
  /\ UNCHANGED <<lane, repository, frame, presEpoch, resetGen, configured, last>>

---------------------------------------------------------------------------
(* Everybody else.  A reset cancels the pending frame and a captured one     *)
(* that is not queued yet; it comes with or without a new epoch.             *)
Reset ==
  /\ ~Locked /\ resetGen < ResetLimit
  /\ resetGen' = resetGen + (IF presEpoch \in {0, epoch} THEN 1 ELSE 2)
  /\ FrameClear
  /\ presEpoch' = epoch /\ lastScene' = 0 /\ force' = TRUE
  /\ UNCHANGED <<lane, current, configured, call, last>>

(* Only while the guest is outside every call, as the header demands.        *)
ConfigureCallbacks ==
  /\ call.step = "none" /\ configured' = ~configured
  /\ UNCHANGED <<lane, repository, frame, session, call, last>>

(* A new epoch cancels the builder and closes the lane or leaves it open.    *)
Invalidate ==
  /\ Lane!Invalidate
  /\ laneScene' = 0
  /\ IF At("fill")
     THEN /\ refs' = Released(call.commit.resources)
          /\ call' = [call EXCEPT !.commit.alive = FALSE, !.commit.resources = {}]
     ELSE UNCHANGED <<refs, call>>
  /\ UNCHANGED <<laneCommits, current, frame, session, configured, last>>

LaneRuns ==
  /\ Lane!Ack \/ Lane!Block \/ Lane!Open
  /\ UNCHANGED <<laneScene, laneCommits, repository, frame, session,
                 configured, call, last>>

(* The lane retires a commit it acknowledged, or one of an older epoch.      *)
LaneRetires ==
  /\ \E c \in laneCommits :
       /\ c.epoch < epoch \/ c.seq <= acked
       /\ laneCommits' = laneCommits \ {c}
       /\ refs' = Released(c.resources)
  /\ UNCHANGED <<laneVars, laneScene, current, frame, session, configured, call, last>>

(* The repository replaces or invalidates a resource.                        *)
RetireCurrent ==
  /\ \E r \in current : current' = current \ {r}
  /\ UNCHANGED <<lane, refs, frame, session, configured, call, last>>

Next ==
  \/ Request \/ Begin \/ AppendRecord \/ AppendResource \/ Complete \/ Reject \/ Peek
  \/ AppendFragment \/ RetainNext \/ Rollback \/ Merge
  \/ Boundary \/ Attach \/ Identify \/ BeginCommit \/ FillNext \/ CommitFails \/ Seal
  \/ Capture \/ CaptureFails \/ Relock \/ Publish \/ PublishFails \/ Cadence
  \/ Reset \/ ConfigureCallbacks \/ Invalidate \/ LaneRuns \/ LaneRetires
  \/ RetireCurrent

Spec == Init /\ [][Next]_vars

---------------------------------------------------------------------------
TypeOK ==
  /\ epoch \in 1..EpochLimit /\ {open, blocked, force, configured} \subseteq BOOLEAN
  /\ presEpoch \in 0..EpochLimit /\ resetGen \in Nat
  /\ current \subseteq Resources /\ refs \in [Resources -> Nat]
  /\ frame.resources \subseteq Resources /\ frame.active \in BOOLEAN

(* Every reference the repository counts belongs to exactly one holder: the  *)
(* pending frame, the attempt to retain more for it, the commit being built  *)
(* or waiting for its publication, or a commit of the lane.  Whatever is cut *)
(* short (a fragment, a boundary, a capture, an epoch) gives back just that. *)
HeldBy(rs, r) == IF r \in rs THEN 1 ELSE 0
RefsBalanced ==
  \A r \in Resources :
    refs[r] = HeldBy(frame.resources, r) + HeldBy(call.taken, r)
              + HeldBy(call.commit.resources, r)
              + Cardinality({c \in laneCommits : r \in c.resources})

(* A frame that was begun before a reset, or in an older epoch, is never     *)
(* published, wherever the reset or the new epoch caught it: pending, half   *)
(* attached, being built, or already detached and in the hands of the host.  *)
Publishing == ~(laneCommits' \subseteq laneCommits)
CancelledStaysCancelled ==
  [][Publishing =>
       call.commit.begun = [epoch |-> epoch, resets |-> resetGen]]_vars

(* A frame that does not announce a cut continues one of its own scene that  *)
(* was published in the same epoch and with no reset between them, so that   *)
(* nobody blends pictures across a cut; failed boundaries do not matter.     *)
CutsAreAnnounced ==
  [][Publishing /\ ~call.commit.cut =>
       last = [epoch |-> epoch, resets |-> resetGen, scene |-> call.commit.scene]]_vars
=============================================================================
