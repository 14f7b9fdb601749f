-------------------------- MODULE SourceFrameProofs --------------------------
(***************************************************************************)
(* Proofs about the source-frame collector, for every set of resources and *)
(* descriptions and every limit: a frame that a reset or a new epoch has   *)
(* overtaken is never published, and a frame that announces no cut         *)
(* continues the one published before it.                                  *)
(***************************************************************************)
EXTENDS SourceFrame, FiniteSetTheorems, TLAPS

----------------------------------------------------------------------------
(* The shape of what the proofs speak of.                                    *)
Time == [epoch : Nat, resets : Nat]
Description == [scene : Nat, cut : BOOLEAN]
FrameShape ==
  [active : BOOLEAN, complete : BOOLEAN, blocked : BOOLEAN,
   description : Description, passes : BOOLEAN,
   resources : SUBSET Resources, begun : Time]
CommitShape ==
  [alive : BOOLEAN, epoch : Nat, seq : Nat, scene : Nat, cut : BOOLEAN,
   resources : SUBSET Resources, begun : Time]
Steps ==
  {"none", "begin", "fragment", "resource", "record", "complete", "reject", "boundary",
   "snapshot", "retain", "attach", "identity", "pool", "fill", "capture", "captured",
   "publish", "cadence"}
CallShape ==
  [step : Steps, description : Description, todo : SUBSET Resources,
   taken : SUBSET Resources, commit : CommitShape, resets : Nat]

Shaped ==
  /\ epoch \in Nat \ {0} /\ published \in Nat
  /\ presEpoch \in Nat /\ resetGen \in Nat
  /\ lastScene \in Nat /\ force \in BOOLEAN
  /\ frame \in FrameShape /\ call \in CallShape

----------------------------------------------------------------------------
(***************************************************************************)
(* The inductive invariant.  A pending frame was begun after the last      *)
(* reset and no earlier than the epoch the collector has seen; so a commit *)
(* made of it belongs to one epoch and one count of resets, which it keeps *)
(* on its way through the host callback, where both may move on.  What is  *)
(* remembered of the last publication is of the same epoch and resets,     *)
(* unless a cut is forced.                                                 *)
(***************************************************************************)
Fresh(f) ==
  f.active =>
    /\ f.begun.resets = resetGen
    /\ presEpoch <= f.begun.epoch /\ f.begun.epoch <= epoch
    /\ presEpoch # 0 /\ f.description.scene # 0
PendingFresh == Fresh(frame)

Entered ==
  /\ presEpoch <= epoch /\ (presEpoch = 0 => force)
  /\ call.step # "none" => presEpoch # 0
  /\ call.step \in {"begin", "fragment", "retain"} => call.description.scene # 0
  /\ call.step = "resource" => call.todo # {}
  /\ call.step \in {"attach", "identity", "pool", "fill"} => frame.active

(* c was numbered in its epoch after g resets, and announces its cut.        *)
Numbered(c, g) ==
  /\ c.scene # 0
  /\ c.begun = [epoch |-> c.epoch, resets |-> g]
  /\ ~c.cut => last = [epoch |-> c.epoch, resets |-> g, scene |-> c.scene]

CommitFresh ==
  /\ call.step \in {"pool", "fill"} =>
       Numbered(call.commit, resetGen) /\ call.commit.epoch = presEpoch
  /\ call.step \in {"capture", "captured", "publish"} =>
       /\ Numbered(call.commit, call.resets)
       /\ call.resets <= resetGen
       /\ call.resets = resetGen => call.commit.epoch = presEpoch

CadenceTrue ==
  /\ call.step = "cadence" =>
       /\ call.commit.scene # 0
       /\ last = [epoch |-> presEpoch, resets |-> resetGen, scene |-> call.commit.scene]
  /\ call.step # "cadence" /\ ~force =>
       /\ lastScene # 0
       /\ last = [epoch |-> presEpoch, resets |-> resetGen, scene |-> lastScene]

FrameInv == Shaped /\ PendingFresh /\ Entered /\ CommitFresh /\ CadenceTrue

(* What is blank has its shape.                                              *)
LEMMA Blank ==
  /\ NoFrame \in FrameShape /\ ~NoFrame.active
  /\ NoCommit \in CommitShape
  /\ NoCall \in CallShape /\ NoCall.step = "none"
<1>1. NoTime \in Time /\ NoDescription \in Description
  BY DEF NoTime, Time, NoDescription, Description
<1>2. NoFrame \in FrameShape /\ ~NoFrame.active
  BY <1>1 DEF NoFrame, FrameShape
<1>3. NoCommit \in CommitShape
  BY <1>1 DEF NoCommit, CommitShape
<1>4. NoCall \in CallShape /\ NoCall.step = "none"
  BY <1>1, <1>3 DEF NoCall, CallShape, Steps
<1> QED
  BY <1>2, <1>3, <1>4

(* At the start nothing is pending, nothing called, and a cut is forced.     *)
LEMMA InitFresh == Init => FrameInv
<1> SUFFICES ASSUME Init PROVE FrameInv
  OBVIOUS
<1>1. call.step = "none" /\ ~frame.active /\ force /\ presEpoch = 0 /\ epoch = 1
  BY Blank DEF Init, Lane!Init
<1>2. Shaped
  BY Blank DEF Init, Lane!Init, Shaped
<1>3. PendingFresh /\ Entered /\ CommitFresh /\ CadenceTrue
  BY <1>1 DEF PendingFresh, Fresh, Entered, CommitFresh, CadenceTrue
<1> QED
  BY <1>2, <1>3 DEF FrameInv

(* Looking at the lane: what an epoch has overtaken is cleared.              *)
LEMMA ReconcileFresh ==
  ASSUME FrameInv, Reconcile
  PROVE  /\ presEpoch' = epoch /\ resetGen' \in Nat /\ lastScene' \in Nat
         /\ force' \in BOOLEAN /\ frame' \in FrameShape
         /\ resetGen' = resetGen => presEpoch \in {0, epoch}
         /\ resetGen <= resetGen'
         /\ frame'.active => /\ frame'.begun = [epoch |-> epoch, resets |-> resetGen']
                             /\ frame'.description.scene # 0
         /\ ~force' => /\ lastScene' = lastScene /\ presEpoch = epoch /\ resetGen' = resetGen
                       /\ ~force
<1>1. CASE presEpoch \in {0, epoch}
  BY <1>1 DEF Reconcile, FrameInv, Shaped, PendingFresh, Fresh, Entered, cadence,
     FrameShape, Time
<1>2. CASE presEpoch \notin {0, epoch}
  <2>1. /\ presEpoch' = epoch /\ resetGen' = resetGen + 1 /\ frame' = NoFrame
        /\ lastScene' = 0 /\ force' = TRUE
    BY <1>2 DEF Reconcile, FrameClear
  <2>2. resetGen \in Nat
    BY DEF FrameInv, Shaped
  <2> QED
    BY <2>1, <2>2, Blank
<1> QED
  BY <1>1, <1>2

----------------------------------------------------------------------------
(* A call goes on, or returns, and the cadence is as it was.                 *)
LEMMA Within ==
  ASSUME FrameInv, call.step \notin {"none", "cadence"}, call'.step # "cadence",
         UNCHANGED <<epoch, published, session, last>>,
         frame' \in FrameShape, Fresh(frame'), call' \in CallShape,
         call'.step \in {"begin", "fragment", "retain"} => call'.description.scene # 0,
         call'.step = "resource" => call'.todo # {},
         call'.step \in {"attach", "identity", "pool", "fill"} => frame'.active,
         CommitFresh'
  PROVE  FrameInv'
<1>1. Shaped'
  BY DEF FrameInv, Shaped, session, cadence
<1>2. PendingFresh'
  BY DEF PendingFresh, Fresh, session
<1>3. Entered'
  BY DEF FrameInv, Entered, session, cadence
<1>4. CadenceTrue'
  BY DEF FrameInv, CadenceTrue, session, cadence
<1> QED
  BY <1>1, <1>2, <1>3, <1>4 DEF FrameInv

LEMMA Ends ==
  ASSUME FrameInv, call.step \notin {"none", "cadence"}, Return,
         UNCHANGED <<epoch, published, session, last>>,
         frame' \in FrameShape, Fresh(frame')
  PROVE  FrameInv'
<1>1. call'.step = "none" /\ call' \in CallShape
  BY Blank DEF Return
<1>2. CommitFresh'
  BY <1>1 DEF CommitFresh
<1> QED
  BY <1>1, <1>2, Within

(* A frame that takes another record, or is marked, is as fresh as it was.   *)
LEMMA Marked ==
  ASSUME NEW f \in FrameShape, Fresh(f)
  PROVE  /\ [f EXCEPT !.blocked = TRUE] \in FrameShape
         /\ Fresh([f EXCEPT !.blocked = TRUE])
         /\ [f EXCEPT !.complete = TRUE] \in FrameShape
         /\ Fresh([f EXCEPT !.complete = TRUE])
         /\ [f EXCEPT !.passes = TRUE] \in FrameShape
         /\ Fresh([f EXCEPT !.passes = TRUE])
BY DEF FrameShape, Fresh

LEMMA Fuller ==
  ASSUME NEW f \in FrameShape, NEW R \in SUBSET Resources, Fresh(f)
  PROVE  LET g == [f EXCEPT !.resources = @ \cup R]
             h == [f EXCEPT !.passes = TRUE, !.resources = @ \cup R]
         IN /\ g \in FrameShape /\ Fresh(g) /\ g.active = f.active
            /\ h \in FrameShape /\ Fresh(h)
BY DEF FrameShape, Fresh

(* A new frame belongs to the epoch of the lane and to this session.         *)
LEMMA ActivatedFresh ==
  ASSUME FrameInv, NEW d \in Description, d.scene # 0, presEpoch # 0
  PROVE  Activated(d) \in FrameShape /\ Fresh(Activated(d))
<1> DEFINE t == [epoch |-> epoch, resets |-> resetGen]
<1>1. t \in Time /\ t.epoch = epoch /\ t.resets = resetGen
  BY DEF FrameInv, Shaped, Time
<1>2. /\ Activated(d) \in FrameShape
      /\ Activated(d).begun = t /\ Activated(d).description = d
  <2> HIDE DEF t
  <2>1. Activated(d) = [NoFrame EXCEPT !.active = TRUE, !.description = d, !.begun = t]
    BY DEF Activated, t
  <2> QED
    BY <2>1, <1>1, Blank DEF FrameShape
<1>3. presEpoch <= epoch /\ epoch \in Nat
  BY DEF FrameInv, Entered, Shaped
<1> QED
  BY <1>1, <1>2, <1>3 DEF Fresh

LEMMA NoFrameFresh == NoFrame \in FrameShape /\ Fresh(NoFrame)
BY Blank DEF Fresh

----------------------------------------------------------------------------
(* The calls that only touch the pending frame.                              *)
LEMMA Holding ==
  ASSUME FrameInv
  PROVE  /\ frame \in FrameShape /\ Fresh(frame) /\ call \in CallShape
         /\ BlockedFrame \in FrameShape /\ Fresh(BlockedFrame)
         /\ call.description \in Description
         /\ call.todo \in SUBSET Resources /\ call.taken \in SUBSET Resources
<1>1. frame \in FrameShape /\ Fresh(frame) /\ call \in CallShape
  BY DEF FrameInv, Shaped, PendingFresh
<1> QED
  BY <1>1, Marked DEF BlockedFrame, CallShape

LEMMA ChangesFresh ==
  ASSUME FrameInv, call.step \notin {"none", "cadence"},
         NEW f \in FrameShape, Fresh(f), Changes(f)
  PROVE  FrameInv'
<1>1. UNCHANGED <<epoch, published, session, last>> /\ frame' = f /\ Return
  BY DEF Changes, lane, laneVars
<1> QED
  BY <1>1, Ends

LEMMA FrameCalls ==
  ASSUME FrameInv,
         Begin \/ AppendRecord \/ AppendResource \/ Complete \/ Reject \/ Peek \/ Merge
  PROVE  FrameInv'
<1> USE Holding
<1>1. CASE Begin
  <2>1. call.step = "begin" /\ presEpoch # 0 /\ call.description.scene # 0
    BY <1>1 DEF Begin, At, FrameInv, Entered
  <2>2. Changes(IF frame.active THEN frame ELSE Activated(call.description))
    BY <1>1 DEF Begin
  <2> QED
    BY <2>1, <2>2, ActivatedFresh, ChangesFresh
<1>2. CASE AppendRecord
  <2>1. call.step = "record"
    BY <1>2 DEF AppendRecord, At
  <2>2. \/ Changes([frame EXCEPT !.passes = TRUE]) \/ Changes(BlockedFrame)
        \/ Changes(frame)
    BY <1>2 DEF AppendRecord
  <2> QED
    BY <2>1, <2>2, Marked, ChangesFresh
<1>3. CASE AppendResource
  <2> DEFINE r == CHOOSE r \in call.todo : TRUE
             fuller == [frame EXCEPT !.resources = @ \cup {r}]
  <2>1. call.step = "resource" /\ call.todo # {}
    BY <1>3 DEF AppendResource, At, FrameInv, Entered
  <2>2. {r} \in SUBSET Resources
    BY <2>1
  <2>3. /\ Return /\ UNCHANGED <<epoch, published, session, last>>
        /\ frame' \in {frame, BlockedFrame, fuller}
    BY <1>3 DEF AppendResource, lane, laneVars
  <2>4. fuller \in FrameShape /\ Fresh(fuller)
    BY <2>2, Fuller
  <2> HIDE DEF fuller
  <2> QED
    BY <2>1, <2>3, <2>4, Ends
<1>4. CASE Complete
  <2>1. call.step = "complete"
    BY <1>4 DEF Complete, At
  <2>2. \/ Changes(frame) \/ Changes(BlockedFrame)
        \/ Changes([frame EXCEPT !.complete = TRUE])
    BY <1>4 DEF Complete
  <2> QED
    BY <2>1, <2>2, Marked, ChangesFresh
<1>5. CASE Reject
  BY <1>5, ChangesFresh DEF Reject, At
<1>6. CASE Peek
  BY <1>6, ChangesFresh DEF Peek, At
<1>7. CASE Merge
  <2> DEFINE base == IF frame.active THEN frame ELSE Activated(call.description)
             merged == [base EXCEPT !.passes = TRUE, !.resources = @ \cup call.taken]
  <2>1. call.step = "retain" /\ presEpoch # 0 /\ call.description.scene # 0
    BY <1>7 DEF Merge, At, FrameInv, Entered
  <2>2. base \in FrameShape /\ Fresh(base)
    BY <2>1, ActivatedFresh
  <2>3. Changes(merged)
    BY <1>7 DEF Merge
  <2> HIDE DEF base
  <2>4. merged \in FrameShape /\ Fresh(merged)
    BY <2>2, Fuller
  <2> HIDE DEF merged
  <2> QED
    BY <2>1, <2>3, <2>4, ChangesFresh
<1> QED
  BY <1>1, <1>2, <1>3, <1>4, <1>5, <1>6, <1>7

----------------------------------------------------------------------------
(* Fragments, and what the boundary attaches: the call only takes, or gives  *)
(* back, resources.                                                          *)
LEMMA FragmentCalls ==
  ASSUME FrameInv, AppendFragment \/ RetainNext \/ Rollback \/ Boundary \/ Attach
  PROVE  FrameInv'
<1> USE Holding, NoFrameFresh
<1>0. UNCHANGED <<epoch, published, session, last>>
  BY DEF AppendFragment, RetainNext, Rollback, Boundary, Attach, lane, laneVars
<1>1. CASE AppendFragment
  <2>1. call.step = "fragment" /\ frame' = frame /\ call.description.scene # 0
    BY <1>1 DEF AppendFragment, At, FrameInv, Entered
  <2>2. CASE Return
    BY <1>0, <2>1, <2>2, Ends
  <2>3. CASE call' = [call EXCEPT !.step = "retain", !.todo = @ \ frame.resources]
    <3>1. /\ call' \in CallShape /\ call'.step = "retain"
          /\ call'.description = call.description
      BY <2>3 DEF CallShape, Steps
    <3> QED
      BY <1>0, <2>1, <3>1, Within DEF CommitFresh
  <2> QED
    BY <1>1, <2>2, <2>3 DEF AppendFragment
<1>2. CASE RetainNext
  <2>1. call.step \in {"retain", "attach"} /\ frame' = frame
    BY <1>2 DEF RetainNext, At
  <2>2. PICK r \in call.todo :
          call' = [call EXCEPT !.todo = @ \ {r}, !.taken = @ \cup {r}]
    BY <1>2 DEF RetainNext
  <2>3. /\ call' \in CallShape /\ call'.step = call.step
        /\ call'.description = call.description
    BY <2>2 DEF CallShape
  <2>4. /\ call.step = "retain" => call.description.scene # 0
        /\ call.step = "attach" => frame.active
    BY DEF FrameInv, Entered
  <2> QED
    BY <1>0, <2>1, <2>3, <2>4, Within DEF CommitFresh
<1>3. CASE Rollback
  <2>1. call.step \in {"retain", "attach"} /\ frame' \in {frame, NoFrame} /\ Return
    BY <1>3 DEF Rollback, At
  <2> QED
    BY <1>0, <2>1, Ends
<1>4. CASE Boundary
  <2>1. call.step = "boundary"
    BY <1>4 DEF Boundary, At
  <2>2. CASE Return /\ frame' \in {frame, NoFrame}
    BY <1>0, <2>1, <2>2, Ends
  <2>3. CASE ~(Return /\ frame' \in {frame, NoFrame})
    <3>1. PICK surfaces \in SUBSET Resources :
            /\ frame.active /\ frame' = frame
            /\ call' = [call EXCEPT !.step = "attach", !.todo = surfaces \ frame.resources]
      BY <1>4, <2>3 DEF Boundary, Fails, FrameClear
    <3>2. call' \in CallShape /\ call'.step = "attach"
      BY <3>1 DEF CallShape, Steps
    <3> QED
      BY <1>0, <2>1, <3>1, <3>2, Within DEF CommitFresh
  <2> QED
    BY <2>2, <2>3
<1>5. CASE Attach
  <2>1. call.step = "attach" /\ frame.active
    BY <1>5 DEF Attach, At, FrameInv, Entered
  <2>2. /\ frame' = [frame EXCEPT !.resources = @ \cup call.taken]
        /\ call' = [call EXCEPT !.step = "identity", !.taken = {}]
    BY <1>5 DEF Attach
  <2>3. frame' \in FrameShape /\ Fresh(frame') /\ frame'.active
    BY <2>1, <2>2, Fuller
  <2>4. call' \in CallShape /\ call'.step = "identity"
    BY <2>2 DEF CallShape, Steps
  <2> QED
    BY <1>0, <2>1, <2>3, <2>4, Within DEF CommitFresh
<1> QED
  BY <1>1, <1>2, <1>3, <1>4, <1>5

----------------------------------------------------------------------------
(* The commit: it is numbered in the epoch the frame was begun in, and keeps *)
(* what it says until it is published or given up.                           *)
CommitSays(c, d) ==
  /\ d.scene = c.scene /\ d.begun = c.begun /\ d.epoch = c.epoch /\ d.cut = c.cut

LEMMA NumberedStays ==
  ASSUME NEW c, NEW d, NEW g, Numbered(c, g), CommitSays(c, d), last' = last
  PROVE  Numbered(d, g)'
BY DEF Numbered, CommitSays

LEMMA IdentifyFresh ==
  ASSUME FrameInv, Identify
  PROVE  FrameInv'
<1> USE Holding, NoFrameFresh
<1>1. /\ call.step = "identity" /\ frame.active
      /\ UNCHANGED <<epoch, published, session, last>>
  BY DEF Identify, At, FrameInv, Entered, lane, laneVars
<1>2. CASE Identifiable
  <2> DEFINE c == [NoCommit EXCEPT !.epoch = epoch, !.seq = published + 1,
                     !.scene = frame.description.scene,
                     !.cut = Discontinuity, !.begun = frame.begun]
  <2>1. frame' = frame /\ call' = [call EXCEPT !.step = "pool", !.commit = c]
    BY <1>2 DEF Identify
  <2>2. /\ epoch \in Nat /\ published + 1 \in Nat /\ frame.begun \in Time
        /\ frame.description \in Description /\ Discontinuity \in BOOLEAN
    BY DEF FrameInv, Shaped, FrameShape, Discontinuity
  <2>3. /\ c \in CommitShape /\ c.epoch = epoch /\ c.begun = frame.begun
        /\ c.scene = frame.description.scene /\ c.cut = Discontinuity
    BY <2>2, Blank DEF CommitShape, Description
  <2>4. epoch = presEpoch
    BY <1>2 DEF Identifiable
  <2>5. frame.begun = [epoch |-> epoch, resets |-> resetGen]
    <3>1. frame.begun.epoch = epoch /\ frame.begun.resets = resetGen
      BY <1>1, <2>2, <2>4 DEF Fresh, FrameInv, Shaped, Time
    <3> QED
      BY <2>2, <3>1 DEF Time
  <2>6. ~c.cut => last = [epoch |-> epoch, resets |-> resetGen, scene |-> c.scene]
    <3> SUFFICES ASSUME ~Discontinuity
                 PROVE  last = [epoch |-> epoch, resets |-> resetGen,
                                scene |-> frame.description.scene]
      BY <2>3
    <3>1. ~force /\ lastScene \in {0, frame.description.scene}
      BY DEF Discontinuity
    <3> QED
      BY <1>1, <2>4, <3>1 DEF FrameInv, CadenceTrue
  <2>7. c.scene # 0
    BY <1>1, <2>3 DEF Fresh
  <2> HIDE DEF c
  <2>8. Numbered(c, resetGen)
    BY <2>3, <2>5, <2>6, <2>7 DEF Numbered
  <2>9. call' \in CallShape /\ call'.step = "pool" /\ call'.commit = c
    BY <2>1, <2>3 DEF CallShape, Steps
  <2>10. CommitFresh'
    BY <1>1, <2>3, <2>4, <2>8, <2>9 DEF CommitFresh, Numbered, session
  <2> QED
    BY <1>1, <2>1, <2>9, <2>10, Within
<1>3. CASE ~Identifiable
  BY <1>1, <1>3, Ends DEF Identify, Fails, FrameClear
<1> QED
  BY <1>2, <1>3

(* Filling: the commit gets alive and holds resources, nothing else.         *)
LEMMA Filling ==
  ASSUME FrameInv, call.step \in {"pool", "fill"},
         UNCHANGED <<epoch, published, session, last, frame>>,
         call' \in CallShape, call'.step = "fill", CommitSays(call.commit, call'.commit)
  PROVE  FrameInv'
<1>1. /\ frame.active /\ Numbered(call.commit, resetGen)
      /\ call.commit.epoch = presEpoch
  BY DEF FrameInv, Entered, CommitFresh
<1>2. CommitFresh'
  BY <1>1, NumberedStays DEF CommitFresh, CommitSays, session, Numbered
<1> QED
  BY <1>1, <1>2, Within, Holding

LEMMA FillCalls ==
  ASSUME FrameInv, BeginCommit \/ FillNext \/ CommitFails
  PROVE  FrameInv'
<1> USE Holding, NoFrameFresh
<1>0. UNCHANGED <<epoch, published, session, last>>
  BY DEF BeginCommit, FillNext, CommitFails, lane, laneVars
<1>1. CASE BeginCommit
  <2>1. call.step = "pool"
    BY <1>1 DEF BeginCommit, At
  <2>2. CASE Return /\ frame' = NoFrame
    BY <1>0, <2>1, <2>2, Ends
  <2>3. CASE /\ call' = [call EXCEPT !.step = "fill", !.commit.alive = TRUE,
                                     !.todo = frame.resources]
             /\ frame' = frame
    <3>1. /\ call' \in CallShape /\ call'.step = "fill"
          /\ CommitSays(call.commit, call'.commit)
      BY <2>3 DEF CallShape, Steps, FrameShape, CommitShape, CommitSays
    <3> QED
      BY <1>0, <2>1, <2>3, <3>1, Filling
  <2> QED
    BY <1>1, <2>2, <2>3 DEF BeginCommit, Fails, FrameClear
<1>2. CASE FillNext
  <2>1. call.step = "fill" /\ frame' = frame
    BY <1>2 DEF FillNext, At
  <2>2. PICK r \in call.todo :
          call' = [call EXCEPT !.todo = @ \ {r}, !.commit.resources = @ \cup {r}]
    BY <1>2 DEF FillNext
  <2>3. /\ call' \in CallShape /\ call'.step = "fill"
        /\ CommitSays(call.commit, call'.commit)
    BY <2>1, <2>2 DEF CallShape, CommitShape, CommitSays
  <2> QED
    BY <1>0, <2>1, <2>3, Filling
<1>3. CASE CommitFails
  BY <1>0, <1>3, Ends DEF CommitFails, At
<1> QED
  BY <1>1, <1>2, <1>3

(* Sealed, the commit carries the resets it was numbered after.              *)
LEMMA SealFresh ==
  ASSUME FrameInv, Seal
  PROVE  FrameInv'
<1>1. /\ call.step = "fill" /\ frame' = NoFrame
      /\ UNCHANGED <<epoch, published, session, last>>
      /\ call' = [call EXCEPT !.step = "capture", !.resets = resetGen]
  BY DEF Seal, At, FrameClear, lane, laneVars
<1>2. /\ call' \in CallShape /\ call'.step = "capture" /\ call'.resets = resetGen
      /\ call'.commit = call.commit
  BY <1>1 DEF FrameInv, Shaped, CallShape, Steps
<1>3. Numbered(call.commit, resetGen) /\ call.commit.epoch = presEpoch /\ resetGen \in Nat
  BY <1>1 DEF FrameInv, CommitFresh, Shaped
<1>4. CommitFresh'
  BY <1>1, <1>2, <1>3 DEF CommitFresh, Numbered, session
<1> QED
  BY <1>1, <1>2, <1>4, NoFrameFresh, Within

LEMMA CaptureCalls ==
  ASSUME FrameInv, Capture \/ CaptureFails \/ PublishFails
  PROVE  FrameInv'
<1> USE Holding
<1>0. UNCHANGED <<epoch, published, session, last, frame>>
  BY DEF Capture, CaptureFails, PublishFails, lane, laneVars
<1>1. CASE Capture
  <2>1. call.step = "capture" /\ call' = [call EXCEPT !.step = "captured"]
    BY <1>1 DEF Capture, At, Goes
  <2>2. /\ call' \in CallShape /\ call'.step = "captured"
        /\ call'.commit = call.commit /\ call'.resets = call.resets
    BY <2>1 DEF CallShape, Steps
  <2>3. CommitFresh'
    BY <1>0, <2>1, <2>2 DEF FrameInv, CommitFresh, Numbered, session
  <2> QED
    BY <1>0, <2>1, <2>2, <2>3, Within
<1>2. CASE CaptureFails
  BY <1>0, <1>2, Ends DEF CaptureFails, At, Retire
<1>3. CASE PublishFails
  BY <1>0, <1>3, Ends DEF PublishFails, At, Retire
<1> QED
  BY <1>1, <1>2, <1>3

----------------------------------------------------------------------------
(* Where the session moves: what it looks like after a look at the lane.     *)
LEMMA Looked ==
  ASSUME FrameInv, Reconcile, UNCHANGED <<epoch, published, last>>,
         call' \in CallShape, call'.step \notin {"none", "cadence"}, call.step # "cadence",
         call'.step \in {"begin", "fragment", "retain"} => call'.description.scene # 0,
         call'.step = "resource" => call'.todo # {},
         call'.step \notin {"attach", "identity", "pool", "fill"},
         CommitFresh'
  PROVE  FrameInv'
<1> USE ReconcileFresh
<1>0. epoch \in Nat \ {0} /\ presEpoch \in Nat
  BY DEF FrameInv, Shaped
<1>1. Shaped'
  BY <1>0 DEF FrameInv, Shaped
<1>2. PendingFresh'
  BY <1>0 DEF PendingFresh, Fresh
<1>3. Entered'
  BY <1>0 DEF FrameInv, Entered
<1>4. CadenceTrue'
  BY <1>0 DEF FrameInv, CadenceTrue
<1> QED
  BY <1>1, <1>2, <1>3, <1>4 DEF FrameInv

LEMMA RequestFresh ==
  ASSUME FrameInv, Request
  PROVE  FrameInv'
<1> DEFINE entered(s, d, rs) == [NoCall EXCEPT !.step = s, !.description = d, !.todo = rs]
<1>1. PICK s \in Steps, d \in Description, rs \in SUBSET Resources :
        /\ Enter(s, d, rs)
        /\ s \in {"fragment", "begin", "resource", "record", "complete", "reject",
                  "boundary", "snapshot"}
        /\ s \in {"begin", "fragment"} => d.scene # 0
        /\ s = "resource" => rs # {}
  <2>1. NoDescription \in Description
    BY DEF NoDescription, Description
  <2>2. \A d \in Descriptions : d \in Description /\ d.scene # 0
    BY FrameAssumption DEF Description
  <2>3. CASE \E d \in Descriptions, rs \in SUBSET Resources : Enter("fragment", d, rs)
    BY <2>2, <2>3 DEF Steps
  <2>4. CASE \E d \in Descriptions : Enter("begin", d, {})
    BY <2>2, <2>4 DEF Steps
  <2>5. CASE \E r \in Resources : Enter("resource", NoDescription, {r})
    <3>1. PICK r \in Resources : Enter("resource", NoDescription, {r})
      BY <2>5
    <3>2. {r} \in SUBSET Resources /\ {r} # {}
      OBVIOUS
    <3> QED
      BY <2>1, <3>1, <3>2 DEF Steps
  <2>6. CASE \E step \in {"record", "complete", "reject", "boundary", "snapshot"} :
               Enter(step, NoDescription, {})
    BY <2>1, <2>6 DEF Steps
  <2> QED
    BY <2>3, <2>4, <2>5, <2>6 DEF Request
<1>2. /\ entered(s, d, rs) \in CallShape /\ entered(s, d, rs).step = s
      /\ entered(s, d, rs).description = d /\ entered(s, d, rs).todo = rs
  BY Blank DEF CallShape
<1>3. /\ call.step = "none" /\ call' = entered(s, d, rs) /\ Reconcile
      /\ UNCHANGED <<epoch, published, last>>
  BY <1>1 DEF Enter, lane, laneVars
<1> HIDE DEF entered
<1>4. CommitFresh'
  BY <1>1, <1>2, <1>3 DEF CommitFresh
<1> QED
  BY <1>1, <1>2, <1>3, <1>4, Looked

(* Back from the host: a commit the session has moved past is left behind.   *)
LEMMA RelockFresh ==
  ASSUME FrameInv, Relock
  PROVE  FrameInv'
<1>1. /\ call.step = "captured" /\ Reconcile /\ UNCHANGED <<epoch, published, last>>
      /\ call' = [call EXCEPT !.step = "publish"]
  BY DEF Relock, At, Goes, lane, laneVars
<1>2. /\ call' \in CallShape /\ call'.step = "publish"
      /\ call'.commit = call.commit /\ call'.resets = call.resets
      /\ call.resets \in Nat
  BY <1>1 DEF FrameInv, Shaped, CallShape, Steps
<1>3. /\ Numbered(call.commit, call.resets) /\ call.resets <= resetGen
      /\ call.resets = resetGen => call.commit.epoch = presEpoch
      /\ presEpoch # 0 /\ resetGen \in Nat
  BY <1>1 DEF FrameInv, CommitFresh, Entered, Shaped
<1>4. /\ presEpoch' = epoch /\ resetGen <= resetGen' /\ resetGen' \in Nat
      /\ resetGen' = resetGen => presEpoch \in {0, epoch}
  BY <1>1, ReconcileFresh
<1>5. CommitFresh'
  <2>1. Numbered(call.commit, call.resets)'
    BY <1>1, <1>2, <1>3 DEF Numbered
  <2>2. call'.resets <= resetGen'
    BY <1>2, <1>3, <1>4
  <2>3. call'.resets = resetGen' => call'.commit.epoch = presEpoch'
    BY <1>2, <1>3, <1>4
  <2> QED
    BY <1>2, <2>1, <2>2, <2>3 DEF CommitFresh
<1> QED
  BY <1>1, <1>2, <1>5, Looked

(* A reset finds no frame being sealed, and leaves none that may go on.      *)
LEMMA ResetFresh ==
  ASSUME FrameInv, Reset
  PROVE  FrameInv'
<1>1. /\ call.step \in {"none", "capture", "captured"}
      /\ frame' = NoFrame /\ presEpoch' = epoch /\ lastScene' = 0 /\ force' = TRUE
      /\ UNCHANGED <<epoch, published, call, last>>
  BY DEF Reset, Locked, FrameClear, lane, laneVars
<1>2. resetGen' \in Nat /\ resetGen < resetGen'
  BY DEF Reset, FrameInv, Shaped
<1>3. Shaped' /\ PendingFresh'
  BY <1>1, <1>2, Blank DEF FrameInv, Shaped, PendingFresh, Fresh
<1>4. Entered' /\ CadenceTrue'
  BY <1>1 DEF FrameInv, Shaped, Entered, CadenceTrue
<1>5. CommitFresh'
  <2>1. call.resets \in Nat /\ resetGen \in Nat
    BY DEF FrameInv, Shaped, CallShape
  <2>2. CASE call.step = "none"
    BY <1>1, <2>2 DEF CommitFresh
  <2>3. CASE call.step \in {"capture", "captured"}
    <3>1. Numbered(call.commit, call.resets) /\ call.resets <= resetGen
      BY <2>3 DEF FrameInv, CommitFresh
    <3>2. Numbered(call.commit, call.resets)'
      BY <1>1, <3>1 DEF Numbered
    <3>3. call.resets <= resetGen' /\ call.resets # resetGen'
      BY <1>2, <2>1, <3>1
    <3> QED
      BY <1>1, <2>3, <3>2, <3>3 DEF CommitFresh
  <2> QED
    BY <1>1, <2>2, <2>3
<1> QED
  BY <1>3, <1>4, <1>5 DEF FrameInv

----------------------------------------------------------------------------
(* What is published becomes what the next frame continues.                  *)
LEMMA PublishFresh ==
  ASSUME FrameInv, Publish
  PROVE  /\ FrameInv'
         /\ call.commit.begun = [epoch |-> epoch, resets |-> resetGen]
         /\ ~call.commit.cut =>
              last = [epoch |-> epoch, resets |-> resetGen, scene |-> call.commit.scene]
<1> DEFINE c == [NoCommit EXCEPT !.scene = call.commit.scene]
<1>1. /\ call.step = "publish" /\ call.resets = resetGen /\ call.commit.epoch = epoch
      /\ UNCHANGED <<epoch, frame, session>> /\ published' = published + 1
      /\ last' = [epoch |-> epoch, resets |-> resetGen, scene |-> call.commit.scene]
      /\ call' = [call EXCEPT !.step = "cadence", !.resets = 0, !.commit = c]
  BY DEF Publish, At, NotCancelled, Queueable, Lane!Publish
<1>2. /\ Numbered(call.commit, resetGen) /\ call.commit.epoch = presEpoch
      /\ presEpoch # 0
  BY <1>1 DEF FrameInv, CommitFresh, Entered
<1>3. c \in CommitShape /\ c.scene = call.commit.scene
  BY Blank DEF FrameInv, Shaped, CallShape, CommitShape
<1> HIDE DEF c
<1>4. call' \in CallShape /\ call'.step = "cadence" /\ call'.commit = c
  BY <1>1, <1>3 DEF FrameInv, Shaped, CallShape, Steps
<1>5. Shaped'
  BY <1>1, <1>4 DEF FrameInv, Shaped, session, cadence
<1>6. PendingFresh' /\ Entered'
  BY <1>1, <1>2, <1>4 DEF FrameInv, PendingFresh, Fresh, Entered, session, cadence
<1>7. CommitFresh'
  BY <1>4 DEF CommitFresh
<1>8. CadenceTrue'
  BY <1>1, <1>2, <1>3, <1>4 DEF CadenceTrue, Numbered, session
<1> QED
  BY <1>1, <1>2, <1>5, <1>6, <1>7, <1>8 DEF FrameInv, Numbered

LEMMA CadenceFresh ==
  ASSUME FrameInv, Cadence
  PROVE  FrameInv'
<1>1. /\ call.step = "cadence" /\ call' = NoCall
      /\ lastScene' = call.commit.scene /\ force' = FALSE
      /\ UNCHANGED <<epoch, published, frame, presEpoch, resetGen, last>>
  BY DEF Cadence, At, Return, lane, laneVars
<1>2. /\ call.commit.scene # 0 /\ call.commit.scene \in Nat /\ presEpoch # 0
      /\ last = [epoch |-> presEpoch, resets |-> resetGen, scene |-> call.commit.scene]
  BY <1>1 DEF FrameInv, CadenceTrue, Entered, Shaped, CallShape, CommitShape
<1>3. Shaped' /\ PendingFresh'
  BY <1>1, <1>2, Blank DEF FrameInv, Shaped, PendingFresh, Fresh
<1>4. Entered' /\ CommitFresh' /\ CadenceTrue'
  BY <1>1, <1>2, Blank DEF FrameInv, Entered, CommitFresh, CadenceTrue
<1> QED
  BY <1>3, <1>4 DEF FrameInv

(* A new epoch only kills the builder: the session learns of it later.       *)
LEMMA InvalidateFresh ==
  ASSUME FrameInv, Invalidate
  PROVE  FrameInv'
<1>1. /\ epoch' = epoch + 1 /\ published' = 0 /\ UNCHANGED <<frame, session, last>>
  BY DEF Invalidate, Lane!Invalidate
<1>2. /\ call' \in CallShape /\ call'.step = call.step
      /\ call'.description = call.description /\ call'.todo = call.todo
      /\ call'.resets = call.resets /\ CommitSays(call.commit, call'.commit)
  <2>1. call \in CallShape
    BY Holding
  <2>2. CASE At("fill")
    <3>1. call' = [call EXCEPT !.commit.alive = FALSE, !.commit.resources = {}]
      BY <2>2 DEF Invalidate
    <3> QED
      BY <2>1, <3>1 DEF CallShape, CommitShape, CommitSays
  <2>3. CASE ~At("fill")
    BY <2>1, <2>3 DEF Invalidate, CommitSays
  <2> QED
    BY <2>2, <2>3
<1>3. epoch \in Nat \ {0} /\ presEpoch \in Nat /\ presEpoch <= epoch
  BY DEF FrameInv, Shaped, Entered
<1>4. Shaped'
  BY <1>1, <1>2, <1>3 DEF FrameInv, Shaped, session, cadence
<1>5. PendingFresh'
  BY <1>1, <1>3 DEF FrameInv, Shaped, FrameShape, Time, PendingFresh, Fresh, session, cadence
<1>6. Entered'
  BY <1>1, <1>2, <1>3 DEF FrameInv, Entered, session, cadence
<1>7. CommitFresh'
  BY <1>1, <1>2 DEF FrameInv, CommitFresh, CommitSays, Numbered, session
<1>8. CadenceTrue'
  BY <1>1, <1>2 DEF FrameInv, CadenceTrue, CommitSays, session, cadence
<1> QED
  BY <1>4, <1>5, <1>6, <1>7, <1>8 DEF FrameInv

(* Nothing of the collector is touched.                                      *)
LEMMA Untouched ==
  ASSUME FrameInv, UNCHANGED <<epoch, frame, session, call, last>>, published' \in Nat
  PROVE  FrameInv'
BY DEF FrameInv, Shaped, PendingFresh, Fresh, Entered, CommitFresh, CadenceTrue,
       Numbered, session, cadence

LEMMA OthersFresh ==
  ASSUME FrameInv, ConfigureCallbacks \/ LaneRuns \/ LaneRetires \/ RetireCurrent
  PROVE  FrameInv'
<1>1. UNCHANGED <<epoch, frame, session, call, last>> /\ published' = published
  BY DEF ConfigureCallbacks, LaneRuns, LaneRetires, RetireCurrent, lane, laneVars,
         Lane!Ack, Lane!Block, Lane!Open
<1> QED
  BY <1>1, Untouched DEF FrameInv, Shaped

----------------------------------------------------------------------------
(* The collector keeps its invariant, whatever order the calls, the resets,  *)
(* the epochs and the host callback come in.                                 *)
THEOREM FrameInvariant == Spec => []FrameInv
<1>1. FrameInv /\ [Next]_vars => FrameInv'
  <2> SUFFICES ASSUME FrameInv, [Next]_vars PROVE FrameInv'
    OBVIOUS
  <2>1. CASE \/ Begin \/ AppendRecord \/ AppendResource \/ Complete \/ Reject \/ Peek
             \/ Merge
    BY <2>1, FrameCalls
  <2>2. CASE AppendFragment \/ RetainNext \/ Rollback \/ Boundary \/ Attach
    BY <2>2, FragmentCalls
  <2>3. CASE Identify \/ BeginCommit \/ FillNext \/ CommitFails \/ Seal
    BY <2>3, IdentifyFresh, FillCalls, SealFresh
  <2>4. CASE \/ Capture \/ CaptureFails \/ Relock \/ Publish \/ PublishFails \/ Cadence
    BY <2>4, CaptureCalls, RelockFresh, PublishFresh, CadenceFresh
  <2>5. CASE Request \/ Reset \/ Invalidate
    BY <2>5, RequestFresh, ResetFresh, InvalidateFresh
  <2>6. CASE ConfigureCallbacks \/ LaneRuns \/ LaneRetires \/ RetireCurrent
    BY <2>6, OthersFresh
  <2>7. CASE UNCHANGED vars
    <3>1. UNCHANGED <<epoch, frame, session, call, last>> /\ published' = published
      BY <2>7 DEF vars, lane, laneVars
    <3> QED
      BY <3>1, Untouched DEF FrameInv, Shaped
  <2> QED
    BY <2>1, <2>2, <2>3, <2>4, <2>5, <2>6, <2>7 DEF Next
<1> QED
  BY InitFresh, <1>1, PTL DEF Spec

(* Only Publish gives the lane a commit.                                     *)
LEMMA OnlyPublish ==
  ASSUME [Next]_vars, Publishing
  PROVE  Publish
<1>1. CASE LaneRetires
  BY <1>1 DEF Publishing, LaneRetires
<1>2. CASE UNCHANGED laneCommits
  BY <1>2 DEF Publishing
<1>3. Publish \/ LaneRetires \/ UNCHANGED laneCommits
  BY DEF Next, vars, lane, Request, Enter, Begin, AppendRecord, AppendResource, Complete,
     Reject, Peek, Changes, AppendFragment, RetainNext, Rollback, Merge, Boundary, Attach,
     Identify, BeginCommit, FillNext, CommitFails, Seal, Capture, CaptureFails, Relock,
     PublishFails, Cadence, Reset, ConfigureCallbacks, Invalidate, LaneRuns, RetireCurrent
<1> QED
  BY <1>1, <1>2, <1>3

(* A frame that a reset or a new epoch has overtaken is never published: for *)
(* any number of resources, resets and epochs (queue_boundary).              *)
THEOREM CancelledNeverPublished == Spec => CancelledStaysCancelled
<1>1. FrameInv /\ [Next]_vars =>
        [Publishing => call.commit.begun = [epoch |-> epoch, resets |-> resetGen]]_vars
  BY OnlyPublish, PublishFresh
<1> QED
  BY FrameInvariant, <1>1, PTL DEF Spec, CancelledStaysCancelled

(* A frame without a cut continues the one published before it, with neither *)
(* a reset nor an epoch nor another scene in between.                        *)
THEOREM CutsAlwaysAnnounced == Spec => CutsAreAnnounced
<1>1. FrameInv /\ [Next]_vars =>
        [Publishing /\ ~call.commit.cut =>
           last = [epoch |-> epoch, resets |-> resetGen, scene |-> call.commit.scene]]_vars
  BY OnlyPublish, PublishFresh
<1> QED
  BY FrameInvariant, <1>1, PTL DEF Spec, CutsAreAnnounced

----------------------------------------------------------------------------
(***************************************************************************)
(* Reference counting.  A count is right because every holder adds a       *)
(* resource at most once: what is still to be taken is disjoint from what  *)
(* is held already, and nothing but the retaining steps hold anything      *)
(* besides the frame, the commit and the lane.  The lane's commits are     *)
(* told apart by epoch and sequence.                                       *)
(***************************************************************************)
Tidy(f, k) ==
  /\ ~f.active => f.resources = {}
  /\ k.taken # {} => k.step \in {"retain", "attach"}
  /\ k.commit.resources # {} => k.step \in {"fill", "capture", "captured", "publish"}
  /\ k.step \in {"retain", "attach"} =>
       k.todo \cap k.taken = {} /\ (k.todo \cup k.taken) \cap f.resources = {}
  /\ k.step = "fill" => k.todo \cap k.commit.resources = {}
Listed ==
  /\ IsFiniteSet(laneCommits)
  /\ \A c \in laneCommits : /\ c.epoch \in Nat /\ c.seq \in Nat /\ c.epoch <= epoch
                            /\ c.epoch = epoch => c.seq <= published
Held ==
  /\ refs \in [Resources -> Nat] /\ RefsBalanced
  /\ Tidy(frame, call) /\ Listed

(* What frame f and call k hold of r, and what the commits in C hold.        *)
Holds(f, k, r) ==
  HeldBy(f.resources, r) + HeldBy(k.taken, r) + HeldBy(k.commit.resources, r)
Listing(C, r) == Cardinality({c \in C : r \in c.resources})

LEMMA ListingNat ==
  ASSUME NEW C, IsFiniteSet(C), NEW r
  PROVE  Listing(C, r) \in Nat
<1>1. {c \in C : r \in c.resources} \in SUBSET C
  OBVIOUS
<1>2. IsFiniteSet({c \in C : r \in c.resources})
  BY <1>1, FS_Subset
<1> QED
  BY <1>2, FS_CardinalityType DEF Listing

LEMMA Sums ==
  ASSUME NEW f, NEW k, NEW r
  PROVE  Holds(f, k, r) \in Nat
BY DEF Holds, HeldBy

(* A step that moves references between the frame, the call and the commit.  *)
LEMMA Moves ==
  ASSUME Held, laneCommits' = laneCommits, epoch \in Nat,
         UNCHANGED <<epoch, published>> \/ epoch' = epoch + 1,
         Tidy(frame', call'), DOMAIN refs' = Resources, refs' = [r \in Resources |-> refs'[r]],
         \A r \in Resources :
           refs'[r] = refs[r] - Holds(frame, call, r) + Holds(frame', call', r)
  PROVE  Held'
<1>1. Listed'
  BY DEF Held, Listed
<1>2. ASSUME NEW r \in Resources
      PROVE  /\ refs'[r] = Holds(frame', call', r) + Listing(laneCommits', r)
             /\ refs'[r] \in Nat
  <2>1. refs[r] = Holds(frame, call, r) + Listing(laneCommits, r)
    BY DEF Held, RefsBalanced, Holds, Listing
  <2>2. Listing(laneCommits, r) \in Nat
    BY ListingNat DEF Held, Listed
  <2> QED
    BY <2>1, <2>2, Sums
<1>3. RefsBalanced'
  BY <1>2 DEF RefsBalanced, Holds, Listing
<1> QED
  BY <1>1, <1>2, <1>3 DEF Held

(* A step that leaves every holder as it is.                                 *)
LEMMA Stays ==
  ASSUME Held, UNCHANGED <<refs, laneCommits, frame>>, epoch \in Nat,
         UNCHANGED <<epoch, published>> \/ epoch' = epoch + 1,
         Tidy(frame', call'), call'.taken = call.taken,
         call'.commit.resources = call.commit.resources
  PROVE  Held'
<1>1. \A r \in Resources : Holds(frame', call', r) = Holds(frame, call, r)
  BY DEF Holds
<1>2. \A r \in Resources : refs'[r] = refs[r] - Holds(frame, call, r)
                                              + Holds(frame', call', r)
  BY <1>1, Sums DEF Held
<1>3. refs' = [r \in Resources |-> refs'[r]] /\ DOMAIN refs' = Resources
  BY DEF Held
<1> QED
  BY <1>2, <1>3, Moves
LEMMA Takes ==
  ASSUME Held, UNCHANGED <<laneCommits, epoch, published>>, epoch \in Nat,
         Tidy(frame', call'), NEW R, refs' = Retained(R),
         \A r \in Resources : Holds(frame', call', r) = Holds(frame, call, r) + HeldBy(R, r)
  PROVE  Held'
<1>1. DOMAIN refs' = Resources /\ refs' = [r \in Resources |-> refs'[r]]
  BY DEF Retained
<1>2. ASSUME NEW r \in Resources
      PROVE  refs'[r] = refs[r] - Holds(frame, call, r) + Holds(frame', call', r)
  <2>1. refs'[r] = refs[r] + HeldBy(R, r) /\ refs[r] \in Nat
    BY DEF Retained, Held, HeldBy
  <2>2. HeldBy(R, r) \in Nat
    BY DEF HeldBy
  <2> QED
    BY <2>1, <2>2, Sums
<1> QED
  BY <1>1, <1>2, Moves

LEMMA Gives ==
  ASSUME Held, laneCommits' = laneCommits, epoch \in Nat,
         UNCHANGED <<epoch, published>> \/ epoch' = epoch + 1,
         Tidy(frame', call'), NEW R, refs' = Released(R),
         \A r \in Resources : Holds(frame, call, r) = Holds(frame', call', r) + HeldBy(R, r)
  PROVE  Held'
<1>1. DOMAIN refs' = Resources /\ refs' = [r \in Resources |-> refs'[r]]
  BY DEF Released
<1>2. ASSUME NEW r \in Resources
      PROVE  refs'[r] = refs[r] - Holds(frame, call, r) + Holds(frame', call', r)
  <2>1. refs'[r] = refs[r] - HeldBy(R, r) /\ refs[r] \in Nat
    BY DEF Released, Held, HeldBy
  <2>2. HeldBy(R, r) \in Nat
    BY DEF HeldBy
  <2> QED
    BY <2>1, <2>2, Sums
<1> QED
  BY <1>1, <1>2, Moves

(* What is blank holds nothing.                                              *)
LEMMA BlankHolds ==
  /\ NoFrame.resources = {} /\ ~NoFrame.active
  /\ NoCommit.resources = {} /\ NoCall.taken = {} /\ NoCall.todo = {}
  /\ NoCall.commit = NoCommit /\ NoCall.step = "none"
BY DEF NoFrame, NoCommit, NoCall

(* frame_clear, whatever else the step does to the call.                     *)
LEMMA Clears ==
  ASSUME Held, UNCHANGED <<laneCommits, epoch, published>>, epoch \in Nat, FrameClear,
         call'.taken = call.taken, call'.commit.resources = call.commit.resources,
         call.taken # {} => call'.step \in {"retain", "attach"},
         call.commit.resources # {} =>
           call'.step \in {"fill", "capture", "captured", "publish"},
         call'.step \notin {"retain", "attach", "fill"}
  PROVE  Held'
<1>1. frame' = NoFrame /\ refs' = Released(frame.resources)
  BY DEF FrameClear
<1>2. Tidy(frame', call')
  BY <1>1, BlankHolds DEF Tidy
<1>3. \A r \in Resources : Holds(frame, call, r)
                             = Holds(frame', call', r) + HeldBy(frame.resources, r)
  BY <1>1, BlankHolds DEF Holds, HeldBy
<1> QED
  BY <1>1, <1>2, <1>3, Gives

(* A look at the lane clears the frame or leaves it.                         *)
LEMMA Reconciles ==
  ASSUME Held, UNCHANGED <<laneCommits, epoch, published>>, epoch \in Nat, Reconcile,
         call'.taken = call.taken, call'.commit.resources = call.commit.resources,
         call.taken # {} => call'.step \in {"retain", "attach"},
         call.commit.resources # {} =>
           call'.step \in {"fill", "capture", "captured", "publish"},
         call'.step \notin {"retain", "attach", "fill"}
  PROVE  Held'
<1>1. CASE FrameClear
  BY <1>1, Clears
<1>2. CASE UNCHANGED <<frame, refs>>
  <2>1. Tidy(frame', call')
    BY <1>2 DEF Held, Tidy
  <2> QED
    BY <1>2, <2>1, Stays
<1> QED
  BY <1>1, <1>2 DEF Reconcile

(* A call that ends and leaves the frame what the call had taken.            *)
LEMMA Leaves ==
  ASSUME Held, NEW f, Changes(f), epoch \in Nat, call.commit.resources = {},
         f.resources = frame.resources \cup call.taken, f.active \/ f.resources = {},
         call.taken \cap frame.resources = {}
  PROVE  Held'
<1>1. /\ frame' = f /\ call' = NoCall /\ refs' = refs
      /\ UNCHANGED <<laneCommits, epoch, published>>
  BY DEF Changes, Return, lane, laneVars, repository
<1>2. Tidy(frame', call')
  BY <1>1, BlankHolds DEF Tidy
<1>3. \A r \in Resources : Holds(frame, call, r) = Holds(f, NoCall, r) + HeldBy({}, r)
  BY BlankHolds DEF Holds, HeldBy
<1>4. refs' = Released({})
  BY <1>1 DEF Released, Held
<1> QED
  BY <1>1, <1>2, <1>3, <1>4, Gives

(* What the invariant says of a call by its step.                            *)
LEMMA Idle ==
  ASSUME FrameInv, Held
  PROVE  /\ epoch \in Nat /\ published \in Nat
         /\ call.step \notin {"retain", "attach"} => call.taken = {}
         /\ call.step \notin {"fill", "capture", "captured", "publish"} =>
              call.commit.resources = {}
         /\ ~frame.active => frame.resources = {}
BY DEF FrameInv, Shaped, Held, Tidy

LEMMA FrameCallsHeld ==
  ASSUME FrameInv, Held,
         Begin \/ AppendRecord \/ Complete \/ Reject \/ Peek \/ Merge
  PROVE  Held'
<1> USE Idle
<1>1. ASSUME NEW f, Changes(f), f.resources = frame.resources,
             f.active \/ f.resources = {},
             call.step \in {"begin", "record", "complete", "reject", "snapshot"}
      PROVE  Held'
  BY <1>1, Leaves
<1>2. frame \in FrameShape
  BY DEF FrameInv, Shaped
<1>3. /\ BlockedFrame.resources = frame.resources /\ BlockedFrame.active = frame.active
      /\ [frame EXCEPT !.passes = TRUE].resources = frame.resources
      /\ [frame EXCEPT !.passes = TRUE].active = frame.active
      /\ [frame EXCEPT !.complete = TRUE].resources = frame.resources
      /\ [frame EXCEPT !.complete = TRUE].active = frame.active
  BY <1>2 DEF FrameShape, BlockedFrame
<1>4. \A d : Activated(d).resources = {} /\ Activated(d).active
  BY DEF Activated, NoFrame
<1>5. CASE Begin
  BY <1>1, <1>4, <1>5 DEF Begin, At
<1>6. CASE AppendRecord
  BY <1>1, <1>3, <1>6 DEF AppendRecord, At
<1>7. CASE Complete
  BY <1>1, <1>3, <1>7 DEF Complete, At
<1>8. CASE Reject
  BY <1>1, <1>3, <1>8 DEF Reject, At
<1>9. CASE Peek
  BY <1>1, <1>9 DEF Peek, At
<1>10. CASE Merge
  <2> DEFINE base == IF frame.active THEN frame ELSE Activated(call.description)
             merged == [base EXCEPT !.passes = TRUE, !.resources = @ \cup call.taken]
  <2>1. call.step = "retain" /\ Changes(merged)
    BY <1>10 DEF Merge, At
  <2>2. base.active /\ base.resources = frame.resources
    BY <1>4
  <2>3. DOMAIN base = DOMAIN NoFrame
    <3>1. DOMAIN frame = DOMAIN NoFrame
      BY <1>2, Blank DEF FrameShape
    <3>2. \A d : DOMAIN Activated(d) = DOMAIN NoFrame
      BY DEF Activated, NoFrame
    <3> QED
      BY <3>1, <3>2
  <2> HIDE DEF base
  <2>4. merged.active /\ merged.resources = frame.resources \cup call.taken
    BY <2>2, <2>3 DEF NoFrame
  <2>5. call.taken \cap frame.resources = {}
    BY <2>1 DEF Held, Tidy
  <2> HIDE DEF merged
  <2> QED
    BY <2>1, <2>4, <2>5, Leaves
<1> QED
  BY <1>5, <1>6, <1>7, <1>8, <1>9, <1>10
LEMMA FragmentCallsHeld ==
  ASSUME FrameInv, Held, AppendResource \/ AppendFragment \/ RetainNext \/ Rollback
  PROVE  Held'
<1> USE Idle
<1>0. /\ UNCHANGED <<laneCommits, epoch, published>>
      /\ frame \in FrameShape /\ call \in CallShape
  BY DEF AppendResource, AppendFragment, RetainNext, Rollback, lane, laneVars,
         FrameInv, Shaped
<1>1. CASE AppendResource
  <2> DEFINE r == CHOOSE r \in call.todo : TRUE
             fuller == [frame EXCEPT !.resources = @ \cup {r}]
  <2>0. call.step = "resource" /\ Return /\ call' = NoCall
    BY <1>1 DEF AppendResource, At, Return
  <2>1. call.taken = {} /\ call.commit.resources = {}
    BY <2>0
  <2>2. /\ fuller.resources = frame.resources \cup {r} /\ fuller.active = frame.active
        /\ BlockedFrame.resources = frame.resources /\ BlockedFrame.active = frame.active
    BY <1>0 DEF FrameShape, BlockedFrame
  <2>3. \/ frame' \in {frame, BlockedFrame} /\ refs' = refs
        \/ /\ frame.active /\ r \notin frame.resources
           /\ frame' = fuller /\ refs' = Retained({r})
    BY <1>1 DEF AppendResource, Appendable
  <2> HIDE DEF r, fuller
  <2>4. CASE frame' \in {frame, BlockedFrame} /\ refs' = refs
    <3>1. Tidy(frame', call')
      BY <2>0, <2>2, <2>4, BlankHolds DEF Tidy
    <3>2. \A x \in Resources : Holds(frame, call, x) = Holds(frame', call', x) + HeldBy({}, x)
      BY <2>0, <2>1, <2>2, <2>4, BlankHolds DEF Holds, HeldBy
    <3>3. refs' = Released({})
      BY <2>4 DEF Released, Held
    <3> QED
      BY <1>0, <3>1, <3>2, <3>3, Gives
  <2>5. CASE /\ frame.active /\ r \notin frame.resources
             /\ frame' = fuller /\ refs' = Retained({r})
    <3>1. Tidy(frame', call')
      BY <2>0, <2>2, <2>5, BlankHolds DEF Tidy
    <3>2. \A x \in Resources :
            Holds(frame', call', x) = Holds(frame, call, x) + HeldBy({r}, x)
      BY <2>0, <2>1, <2>2, <2>5, BlankHolds DEF Holds, HeldBy
    <3> QED
      BY <1>0, <2>5, <3>1, <3>2, Takes
  <2> QED
    BY <2>3, <2>4, <2>5
<1>2. CASE AppendFragment
  <2>1. call.step = "fragment" /\ UNCHANGED <<refs, frame>>
    BY <1>2 DEF AppendFragment, At, repository
  <2>2. call.taken = {} /\ call.commit.resources = {}
    BY <2>1
  <2>3. CASE Return
    <3>1. Tidy(frame', call') /\ call'.taken = {} /\ call'.commit.resources = {}
      BY <2>1, <2>3, BlankHolds DEF Tidy, Return
    <3> QED
      BY <1>0, <2>1, <2>2, <3>1, Stays
  <2>4. CASE call' = [call EXCEPT !.step = "retain", !.todo = @ \ frame.resources]
    <3>1. /\ call'.step = "retain" /\ call'.todo = call.todo \ frame.resources
          /\ call'.taken = call.taken /\ call'.commit = call.commit
      BY <1>0, <2>4 DEF CallShape
    <3>2. Tidy(frame', call')
      BY <2>1, <2>2, <3>1 DEF Tidy
    <3> QED
      BY <1>0, <2>1, <2>2, <3>1, <3>2, Stays
  <2> QED
    BY <1>2, <2>3, <2>4 DEF AppendFragment
<1>3. CASE RetainNext
  <2>1. call.step \in {"retain", "attach"} /\ frame' = frame
    BY <1>3 DEF RetainNext, At
  <2>2. PICK r \in call.todo :
          /\ refs' = Retained({r})
          /\ call' = [call EXCEPT !.todo = @ \ {r}, !.taken = @ \cup {r}]
    BY <1>3 DEF RetainNext
  <2>3. /\ call'.step = call.step /\ call'.commit = call.commit
        /\ call'.todo = call.todo \ {r} /\ call'.taken = call.taken \cup {r}
    BY <1>0, <2>2 DEF CallShape
  <2>4. r \notin call.taken /\ Tidy(frame', call')
    BY <2>1, <2>2, <2>3 DEF Held, Tidy
  <2>5. \A x \in Resources :
          Holds(frame', call', x) = Holds(frame, call, x) + HeldBy({r}, x)
    BY <2>1, <2>3, <2>4 DEF Holds, HeldBy
  <2> QED
    BY <1>0, <2>2, <2>4, <2>5, Takes
<1>4. CASE Rollback
  <2>1. call.step \in {"retain", "attach"} /\ call' = NoCall
    BY <1>4 DEF Rollback, At, Return
  <2>2. call.commit.resources = {} /\ call.taken \cap frame.resources = {}
    BY <2>1 DEF Held, Tidy
  <2>3. CASE refs' = Released(call.taken) /\ frame' = frame
    <3>1. Tidy(frame', call')
      BY <2>1, <2>3, BlankHolds DEF Tidy
    <3>2. \A x \in Resources :
            Holds(frame, call, x) = Holds(frame', call', x) + HeldBy(call.taken, x)
      BY <2>1, <2>2, <2>3, BlankHolds DEF Holds, HeldBy
    <3> QED
      BY <1>0, <2>3, <3>1, <3>2, Gives
  <2>4. CASE refs' = Released(call.taken \cup frame.resources) /\ frame' = NoFrame
    <3>1. Tidy(frame', call')
      BY <2>1, <2>4, BlankHolds DEF Tidy
    <3>2. \A x \in Resources : Holds(frame, call, x)
            = Holds(frame', call', x) + HeldBy(call.taken \cup frame.resources, x)
      BY <2>1, <2>2, <2>4, BlankHolds DEF Holds, HeldBy
    <3> QED
      BY <1>0, <2>4, <3>1, <3>2, Gives
  <2> QED
    BY <1>4, <2>3, <2>4 DEF Rollback
<1> QED
  BY <1>1, <1>2, <1>3, <1>4

LEMMA BoundaryCallsHeld ==
  ASSUME FrameInv, Held,
         Boundary \/ Attach \/ Identify \/ BeginCommit
  PROVE  Held'
<1> USE Idle
<1>0. /\ UNCHANGED <<laneCommits, epoch, published>>
      /\ frame \in FrameShape /\ call \in CallShape
  BY DEF Boundary, Attach, Identify, BeginCommit, lane, laneVars, FrameInv, Shaped
<1>1. ASSUME Fails, call.step \in {"boundary", "identity", "pool"} PROVE Held'
  <2>1. FrameClear /\ call' = NoCall /\ call.taken = {} /\ call.commit.resources = {}
    BY <1>1 DEF Fails, Return
  <2> QED
    BY <1>0, <2>1, BlankHolds, Clears
<1>2. CASE Boundary
  <2>1. call.step = "boundary"
    BY <1>2 DEF Boundary, At
  <2>2. call.taken = {} /\ call.commit.resources = {}
    BY <2>1
  <2>3. CASE Return /\ UNCHANGED <<frame, refs>>
    <3>1. Tidy(frame', call') /\ call'.taken = {} /\ call'.commit.resources = {}
      BY <2>3, BlankHolds DEF Tidy, Return
    <3> QED
      BY <1>0, <2>2, <2>3, <3>1, Stays
  <2>4. ASSUME NEW surfaces \in SUBSET Resources, UNCHANGED <<frame, refs>>, frame.active,
               call' = [call EXCEPT !.step = "attach", !.todo = surfaces \ frame.resources]
        PROVE  Held'
    <3>1. /\ call'.step = "attach" /\ call'.todo = surfaces \ frame.resources
          /\ call'.taken = call.taken /\ call'.commit = call.commit
      BY <1>0, <2>4 DEF CallShape
    <3>2. Tidy(frame', call')
      BY <2>2, <2>4, <3>1 DEF Tidy
    <3> QED
      BY <1>0, <2>2, <2>4, <3>1, <3>2, Stays
  <2> QED
    BY <1>1, <1>2, <2>1, <2>3, <2>4 DEF Boundary
<1>3. CASE Attach
  <2>1. /\ call.step = "attach" /\ UNCHANGED refs
        /\ frame' = [frame EXCEPT !.resources = @ \cup call.taken]
        /\ call' = [call EXCEPT !.step = "identity", !.taken = {}]
    BY <1>3 DEF Attach, At, repository
  <2>2. /\ call'.step = "identity" /\ call'.taken = {} /\ call'.commit = call.commit
        /\ frame'.resources = frame.resources \cup call.taken
        /\ frame'.active = frame.active /\ frame.active
    BY <1>0, <2>1 DEF CallShape, FrameShape, FrameInv, Entered
  <2>3. call.commit.resources = {} /\ call.taken \cap frame.resources = {}
    BY <2>1 DEF Held, Tidy
  <2>4. Tidy(frame', call')
    BY <2>2, <2>3 DEF Tidy
  <2>5. \A x \in Resources : Holds(frame, call, x) = Holds(frame', call', x) + HeldBy({}, x)
    BY <2>2, <2>3 DEF Holds, HeldBy
  <2>6. refs' = Released({})
    BY <2>1 DEF Released, Held
  <2> QED
    BY <1>0, <2>4, <2>5, <2>6, Gives
<1>4. CASE Identify
  <2>1. call.step = "identity"
    BY <1>4 DEF Identify, At
  <2>2. CASE ~Identifiable
    BY <1>1, <1>4, <2>1, <2>2 DEF Identify
  <2>3. CASE Identifiable
    <3> DEFINE c == [NoCommit EXCEPT !.epoch = epoch, !.seq = published + 1,
                       !.scene = frame.description.scene,
                       !.cut = Discontinuity, !.begun = frame.begun]
    <3>1. call' = [call EXCEPT !.step = "pool", !.commit = c] /\ UNCHANGED <<frame, refs>>
      BY <1>4, <2>3 DEF Identify
    <3>2. c.resources = {}
      BY DEF NoCommit
    <3> HIDE DEF c
    <3>3. call'.step = "pool" /\ call'.taken = call.taken /\ call'.commit = c
      BY <1>0, <3>1 DEF CallShape
    <3>4. Tidy(frame', call')
      BY <2>1, <3>1, <3>2, <3>3 DEF Held, Tidy
    <3> QED
      BY <1>0, <2>1, <3>1, <3>2, <3>3, <3>4, Stays
  <2> QED
    BY <2>2, <2>3
<1>5. CASE BeginCommit
  <2>1. call.step = "pool"
    BY <1>5 DEF BeginCommit, At
  <2>2. CASE Fails
    BY <1>1, <2>1, <2>2
  <2>3. CASE /\ call' = [call EXCEPT !.step = "fill", !.commit.alive = TRUE,
                                     !.todo = frame.resources]
             /\ UNCHANGED <<frame, refs>>
    <3>1. /\ call'.step = "fill" /\ call'.taken = call.taken
          /\ call'.commit.resources = call.commit.resources
      BY <1>0, <2>3 DEF CallShape, CommitShape
    <3>2. Tidy(frame', call')
      BY <2>1, <2>3, <3>1 DEF Held, Tidy
    <3> QED
      BY <1>0, <2>3, <3>1, <3>2, Stays
  <2> QED
    BY <1>5, <2>2, <2>3 DEF BeginCommit
<1> QED
  BY <1>2, <1>3, <1>4, <1>5

LEMMA CommitCallsHeld ==
  ASSUME FrameInv, Held,
         \/ FillNext \/ CommitFails \/ Seal \/ Capture \/ CaptureFails \/ PublishFails
         \/ Relock \/ Cadence
  PROVE  Held'
<1> USE Idle
<1>0. /\ UNCHANGED <<laneCommits, epoch, published>>
      /\ frame \in FrameShape /\ call \in CallShape
  BY DEF FillNext, CommitFails, Seal, Capture, CaptureFails, PublishFails, Relock,
         Cadence, lane, laneVars, FrameInv, Shaped
<1>1. CASE FillNext
  <2>1. call.step = "fill" /\ frame' = frame
    BY <1>1 DEF FillNext, At
  <2>2. PICK r \in call.todo :
          /\ refs' = Retained({r})
          /\ call' = [call EXCEPT !.todo = @ \ {r}, !.commit.resources = @ \cup {r}]
    BY <1>1 DEF FillNext
  <2>3. /\ call'.step = call.step /\ call'.taken = call.taken
        /\ call'.todo = call.todo \ {r}
        /\ call'.commit.resources = call.commit.resources \cup {r}
    BY <1>0, <2>2 DEF CallShape, CommitShape
  <2>4. r \notin call.commit.resources /\ Tidy(frame', call')
    BY <2>1, <2>2, <2>3 DEF Held, Tidy
  <2>5. \A x \in Resources :
          Holds(frame', call', x) = Holds(frame, call, x) + HeldBy({r}, x)
    BY <2>1, <2>3, <2>4 DEF Holds, HeldBy
  <2> QED
    BY <1>0, <2>2, <2>4, <2>5, Takes
<1>2. CASE CommitFails
  <2>1. call.step = "fill" /\ frame' = NoFrame /\ call' = NoCall
    BY <1>2 DEF CommitFails, At, Return
  <2>2. refs' = [r \in Resources |-> refs[r] - HeldBy(frame.resources, r)
                                             - HeldBy(call.commit.resources, r)]
    BY <1>2 DEF CommitFails, HeldBy
  <2>3. Tidy(frame', call')
    BY <2>1, BlankHolds DEF Tidy
  <2>4. ASSUME NEW r \in Resources
        PROVE  refs'[r] = refs[r] - Holds(frame, call, r) + Holds(frame', call', r)
    <3>1. /\ HeldBy(frame.resources, r) \in Nat
          /\ HeldBy(call.commit.resources, r) \in Nat
          /\ refs[r] \in Nat
      BY DEF HeldBy, Held
    <3>2. Holds(frame, call, r) = HeldBy(frame.resources, r) + HeldBy(call.commit.resources, r)
      BY <2>1 DEF Holds, HeldBy
    <3>3. Holds(frame', call', r) = 0
      BY <2>1, BlankHolds DEF Holds, HeldBy
    <3> QED
      BY <2>2, <3>1, <3>2, <3>3
  <2>5. DOMAIN refs' = Resources /\ refs' = [r \in Resources |-> refs'[r]]
    BY <2>2
  <2> QED
    BY <1>0, <2>3, <2>4, <2>5, Moves
<1>3. CASE Seal
  <2>1. /\ call.step = "fill" /\ FrameClear
        /\ call' = [call EXCEPT !.step = "capture", !.resets = resetGen]
    BY <1>3 DEF Seal, At
  <2>2. call'.step = "capture" /\ call'.taken = call.taken /\ call'.commit = call.commit
    BY <1>0, <2>1 DEF CallShape
  <2> QED
    BY <1>0, <2>1, <2>2, Clears
<1>4. CASE Capture
  <2>1. /\ call.step = "capture" /\ UNCHANGED <<frame, refs>>
        /\ call' = [call EXCEPT !.step = "captured"]
    BY <1>4 DEF Capture, At, Goes, repository
  <2>2. call'.step = "captured" /\ call'.taken = call.taken /\ call'.commit = call.commit
    BY <1>0, <2>1 DEF CallShape
  <2>3. Tidy(frame', call')
    BY <2>1, <2>2 DEF Held, Tidy
  <2> QED
    BY <1>0, <2>1, <2>2, <2>3, Stays
<1>5. CASE CaptureFails \/ PublishFails
  <2>1. /\ call.step \in {"capture", "publish"} /\ frame' = frame /\ call' = NoCall
        /\ refs' = Released(call.commit.resources)
    BY <1>5 DEF CaptureFails, PublishFails, At, Retire, Return
  <2>2. Tidy(frame', call')
    BY <2>1, BlankHolds DEF Tidy
  <2>3. \A x \in Resources : Holds(frame, call, x)
                               = Holds(frame', call', x) + HeldBy(call.commit.resources, x)
    BY <2>1, BlankHolds DEF Holds, HeldBy
  <2> QED
    BY <1>0, <2>1, <2>2, <2>3, Gives
<1>6. CASE Relock
  <2>1. /\ call.step = "captured" /\ Reconcile
        /\ call' = [call EXCEPT !.step = "publish"]
    BY <1>6 DEF Relock, At, Goes
  <2>2. call'.step = "publish" /\ call'.taken = call.taken /\ call'.commit = call.commit
    BY <1>0, <2>1 DEF CallShape
  <2> QED
    BY <1>0, <2>1, <2>2, Reconciles
<1>7. CASE Cadence
  <2>1. call.step = "cadence" /\ UNCHANGED <<frame, refs>> /\ call' = NoCall
    BY <1>7 DEF Cadence, At, Return, repository
  <2>2. Tidy(frame', call')
    BY <2>1, BlankHolds DEF Tidy
  <2> QED
    BY <1>0, <2>1, <2>2, BlankHolds, Stays
<1> QED
  BY <1>1, <1>2, <1>3, <1>4, <1>5, <1>6, <1>7
LEMMA SessionHeld ==
  ASSUME FrameInv, Held,
         \/ Request \/ Reset \/ ConfigureCallbacks \/ LaneRuns \/ RetireCurrent
         \/ Invalidate
  PROVE  Held'
<1> USE Idle
<1>0. laneCommits' = laneCommits /\ call \in CallShape
  BY DEF Request, Enter, Reset, ConfigureCallbacks, LaneRuns, RetireCurrent, Invalidate,
         lane, FrameInv, Shaped
<1>1. CASE Request
  <2>1. PICK s \in {"fragment", "begin", "resource", "record", "complete", "reject",
                    "boundary", "snapshot"} : \E d, rs : Enter(s, d, rs)
    BY <1>1 DEF Request
  <2>2. PICK d, rs : Enter(s, d, rs)
    BY <2>1
  <2>3. /\ call.step = "none" /\ Reconcile /\ UNCHANGED <<epoch, published>>
        /\ call' = [NoCall EXCEPT !.step = s, !.description = d, !.todo = rs]
    BY <2>2 DEF Enter, lane, laneVars
  <2>4. call'.step = s /\ call'.taken = {} /\ call'.commit = NoCommit
    BY <2>3 DEF NoCall
  <2> QED
    BY <1>0, <2>1, <2>3, <2>4, BlankHolds, Reconciles
<1>2. CASE Reset
  <2>1. /\ call.step \in {"none", "capture", "captured"} /\ FrameClear
        /\ UNCHANGED <<epoch, published, call>>
    BY <1>2 DEF Reset, Locked, lane, laneVars
  <2> QED
    BY <1>0, <2>1, Clears
<1>3. ASSUME UNCHANGED <<refs, frame, call, epoch, published>> PROVE Held'
  BY <1>0, <1>3, Stays DEF Held
<1>4. CASE ConfigureCallbacks \/ LaneRuns \/ RetireCurrent
  BY <1>3, <1>4 DEF ConfigureCallbacks, LaneRuns, RetireCurrent, lane, laneVars,
     repository, Lane!Ack, Lane!Block, Lane!Open
<1>5. CASE Invalidate
  <2>1. epoch' = epoch + 1 /\ frame' = frame
    BY <1>5 DEF Invalidate, Lane!Invalidate
  <2>2. CASE At("fill")
    <3>1. /\ call.step = "fill" /\ refs' = Released(call.commit.resources)
          /\ call' = [call EXCEPT !.commit.alive = FALSE, !.commit.resources = {}]
      BY <1>5, <2>2 DEF Invalidate, At
    <3>2. /\ call'.step = call.step /\ call'.taken = call.taken
          /\ call'.todo = call.todo /\ call'.commit.resources = {}
      BY <1>0, <3>1 DEF CallShape, CommitShape
    <3>3. Tidy(frame', call')
      BY <2>1, <3>1, <3>2 DEF Held, Tidy
    <3>4. \A x \in Resources : Holds(frame, call, x)
                                 = Holds(frame', call', x) + HeldBy(call.commit.resources, x)
      BY <2>1, <3>2 DEF Holds, HeldBy
    <3> QED
      BY <1>0, <2>1, <3>1, <3>3, <3>4, Gives
  <2>3. CASE ~At("fill")
    <3>1. UNCHANGED <<refs, call>>
      BY <1>5, <2>3 DEF Invalidate
    <3> QED
      BY <1>0, <2>1, <3>1, Stays DEF Held
  <2> QED
    BY <2>2, <2>3
<1> QED
  BY <1>1, <1>2, <1>4, <1>5

(* A published commit is new to the lane: its number was not used before.    *)
LEMMA PublishHeld ==
  ASSUME FrameInv, Held, Publish
  PROVE  Held'
<1> USE Idle
<1> DEFINE q == Queued(call.commit)
           c == [NoCommit EXCEPT !.scene = call.commit.scene]
<1>1. /\ call.step = "publish" /\ call.commit.epoch = epoch
      /\ call.commit.seq = published + 1
      /\ UNCHANGED <<epoch, frame, refs>> /\ published' = published + 1
      /\ laneCommits' = laneCommits \cup {q}
      /\ call' = [call EXCEPT !.step = "cadence", !.resets = 0, !.commit = c]
  BY DEF Publish, At, Queueable, Lane!Publish, repository
<1>2. c.resources = {}
  BY DEF NoCommit
<1>3. q.epoch = epoch /\ q.seq = published + 1 /\ q.resources = call.commit.resources
  BY <1>1 DEF Queued
<1> HIDE DEF q, c
<1>4. call'.step = "cadence" /\ call'.taken = call.taken /\ call'.commit = c
  BY <1>1 DEF FrameInv, Shaped, CallShape
<1>5. Tidy(frame', call')
  BY <1>1, <1>2, <1>4 DEF Held, Tidy
<1>6. q \notin laneCommits
  BY <1>3 DEF Held, Listed
<1>7. IsFiniteSet(laneCommits) /\ IsFiniteSet(laneCommits')
  BY <1>1, FS_AddElement DEF Held, Listed
<1>8. Listed'
  BY <1>1, <1>3, <1>7 DEF Held, Listed
<1>9. ASSUME NEW r \in Resources
      PROVE  /\ refs'[r] = Holds(frame', call', r) + Listing(laneCommits', r)
             /\ refs'[r] \in Nat
  <2> DEFINE S == {x \in laneCommits : r \in x.resources}
  <2>1. IsFiniteSet(S) /\ q \notin S
    BY <1>6, <1>7, FS_Subset
  <2>2. {x \in laneCommits' : r \in x.resources}
          = IF r \in call.commit.resources THEN S \cup {q} ELSE S
    BY <1>1, <1>3
  <2> HIDE DEF S
  <2>3. Cardinality(S \cup {q}) = Cardinality(S) + 1 /\ Cardinality(S) \in Nat
    BY ONLY <2>1, FS_AddElement, FS_CardinalityType
  <2>4. Listing(laneCommits', r) = Listing(laneCommits, r) + HeldBy(call.commit.resources, r)
    <3>1. Listing(laneCommits', r) =
            Cardinality(IF r \in call.commit.resources THEN S \cup {q} ELSE S)
      BY <2>2 DEF Listing
    <3>2. Listing(laneCommits, r) = Cardinality(S)
      BY DEF Listing, S
    <3>3. CASE r \in call.commit.resources
      BY ONLY <2>3, <3>1, <3>2, <3>3 DEF HeldBy
    <3>4. CASE r \notin call.commit.resources
      BY ONLY <2>3, <3>1, <3>2, <3>4 DEF HeldBy
    <3> QED
      BY <3>3, <3>4
  <2>5. refs[r] = Holds(frame, call, r) + Listing(laneCommits, r) /\ refs[r] \in Nat
    BY DEF Held, RefsBalanced, Holds, Listing
  <2>6. Holds(frame, call, r) = Holds(frame', call', r) + HeldBy(call.commit.resources, r)
    BY <1>1, <1>2, <1>4 DEF Holds, HeldBy
  <2>7. /\ Listing(laneCommits, r) \in Nat /\ Holds(frame', call', r) \in Nat
        /\ HeldBy(call.commit.resources, r) \in Nat
    BY <1>7, ListingNat, Sums DEF HeldBy
  <2> QED
    BY <1>1, <2>4, <2>5, <2>6, <2>7
<1>10. RefsBalanced'
  BY <1>9 DEF RefsBalanced, Holds, Listing
<1> QED
  BY <1>1, <1>5, <1>8, <1>9, <1>10 DEF Held

LEMMA RetireHeld ==
  ASSUME FrameInv, Held, LaneRetires
  PROVE  Held'
<1> USE Idle
<1>1. PICK q \in laneCommits :
        laneCommits' = laneCommits \ {q} /\ refs' = Released(q.resources)
  BY DEF LaneRetires
<1>2. UNCHANGED <<epoch, published, frame, call>>
  BY DEF LaneRetires, laneVars
<1>3. IsFiniteSet(laneCommits) /\ IsFiniteSet(laneCommits')
  BY <1>1, FS_RemoveElement DEF Held, Listed
<1>4. Listed'
  BY <1>1, <1>2, <1>3 DEF Held, Listed
<1>5. ASSUME NEW r \in Resources
      PROVE  /\ refs'[r] = Holds(frame', call', r) + Listing(laneCommits', r)
             /\ refs'[r] \in Nat
  <2> DEFINE S == {x \in laneCommits : r \in x.resources}
  <2>1. IsFiniteSet(S)
    BY <1>3, FS_Subset
  <2>2. {x \in laneCommits' : r \in x.resources} = S \ {q}
    BY <1>1
  <2>3. q \in S <=> r \in q.resources
    BY <1>1
  <2> HIDE DEF S
  <2>4. Cardinality(S \ {q}) = (IF q \in S THEN Cardinality(S) - 1 ELSE Cardinality(S))
    BY ONLY <2>1, FS_RemoveElement
  <2>5. Cardinality(S) \in Nat
    BY ONLY <2>1, FS_CardinalityType
  <2>6. Listing(laneCommits', r) = Listing(laneCommits, r) - HeldBy(q.resources, r)
    <3>1. Listing(laneCommits', r) = Cardinality(S \ {q})
      BY <2>2 DEF Listing
    <3>2. Listing(laneCommits, r) = Cardinality(S)
      BY DEF Listing, S
    <3> QED
      BY ONLY <2>3, <2>4, <2>5, <3>1, <3>2 DEF HeldBy
  <2>7. refs[r] = Holds(frame, call, r) + Listing(laneCommits, r) /\ refs[r] \in Nat
    BY DEF Held, RefsBalanced, Holds, Listing
  <2>8. refs'[r] = refs[r] - HeldBy(q.resources, r) /\ HeldBy(q.resources, r) \in Nat
    BY <1>1 DEF Released, HeldBy, Held
  <2>9. Listing(laneCommits, r) \in Nat /\ Listing(laneCommits', r) \in Nat
    BY <1>3, ListingNat
  <2>10. Holds(frame', call', r) = Holds(frame, call, r) /\ Holds(frame, call, r) \in Nat
    BY <1>2, Sums
  <2> QED
    BY <2>6, <2>7, <2>8, <2>9, <2>10
<1>6. RefsBalanced'
  BY <1>5 DEF RefsBalanced, Holds, Listing
<1>7. refs' \in [Resources -> Nat]
  BY <1>1, <1>5 DEF Released
<1> QED
  BY <1>2, <1>4, <1>6, <1>7 DEF Held

(* Every reference the repository counts belongs to exactly one holder, in   *)
(* every reachable state and however a call is cut short.                    *)
THEOREM ReferencesBalanced == Spec => []RefsBalanced
<1>1. Init => Held
  <2> SUFFICES ASSUME Init PROVE Held
    OBVIOUS
  <2>1. /\ frame = NoFrame /\ call = NoCall /\ laneCommits = {}
        /\ refs = [r \in Resources |-> 0]
    BY DEF Init
  <2>2. Tidy(frame, call)
    BY <2>1, BlankHolds DEF Tidy
  <2>3. Listed
    BY <2>1, FS_EmptySet DEF Listed
  <2>4. \A r \in Resources : {c \in laneCommits : r \in c.resources} = {}
    BY <2>1
  <2>5. RefsBalanced
    BY <2>1, <2>4, BlankHolds, FS_EmptySet DEF RefsBalanced, HeldBy
  <2> QED
    BY <2>1, <2>2, <2>3, <2>5 DEF Held
<1>2. FrameInv /\ Held /\ [Next]_vars => Held'
  <2> SUFFICES ASSUME FrameInv, Held, [Next]_vars PROVE Held'
    OBVIOUS
  <2>1. CASE UNCHANGED vars
    <3>1. UNCHANGED <<refs, laneCommits, frame, call, epoch, published>>
      BY <2>1 DEF vars, lane, laneVars, repository
    <3> QED
      BY <3>1, Idle, Stays DEF Held
  <2> QED
    BY <2>1, FrameCallsHeld, FragmentCallsHeld, BoundaryCallsHeld, CommitCallsHeld,
       SessionHeld, PublishHeld, RetireHeld DEF Next
<1>3. Held => RefsBalanced
  BY DEF Held
<1> QED
  BY <1>1, <1>2, <1>3, FrameInvariant, PTL DEF Spec
=============================================================================
