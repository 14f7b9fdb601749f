-------------------------- MODULE PresentationHost --------------------------
(***************************************************************************)
(* The presentation host (xg_render_presentation_host.c): the worker       *)
(* thread with its wake-up sequence, the pump of the presenter's owner,    *)
(* and the lifecycle from start over shutdown and failure to join.         *)
(*                                                                         *)
(* A call of a thread is a list todo[t] of the steps it has yet to make;   *)
(* a call made from inside a presenter callback puts its steps in front.   *)
(* The lane is reduced to what the host can tell: whether it is open or    *)
(* blocked, how much is queued, and what has still to be retired.          *)
(***************************************************************************)
EXTENDS Integers, Sequences, FiniteSets

CONSTANTS
  Threads,        (* the threads of the program, the worker apart            *)
  Presenters,     (* those of them that start a host or take it over         *)
  EpochsEnd,      (* whether the 64-bit epoch counter may reach its end      *)
  PublishLimit    (* works published in all                                  *)

ASSUME HostAssumption ==
  /\ Presenters \subseteq Threads /\ Presenters # {}
  /\ EpochsEnd \in BOOLEAN /\ PublishLimit \in Nat
  /\ "none" \notin Threads

VARIABLES
  open, blocked, queue,     (* the lane: g_publication_open, its block, FIFO *)
  endpoints, deferred,      (* batches with an endpoint, deferred retirements *)
  exhausted, published,     (* g_epoch_terminal; works published so far      *)
  exclusive,                (* g_exclusive_host                              *)
  st, stop, closing, closed,  (* state, stop_requested, shutdown_invalidation_* *)
  lock,                     (* the holder of lifecycle_mutex, or "none"      *)
  owner, ownerReady, presenterRunning,
  joinStarted, joinComplete, joinOk, waiters,
  wake,                     (* worker_sequence differs from the worker's     *)
  worker, todo,
  fault                     (* history: what failed in this host             *)

laneVars == <<open, blocked, queue, endpoints, deferred, exhausted, published>>
stopVars == <<stop, closing, closed, lock>>
ownerVars == <<owner, ownerReady, presenterRunning>>
joinVars == <<joinStarted, joinComplete, joinOk, waiters>>
vars == <<laneVars, exclusive, st, stopVars, ownerVars, joinVars,
          wake, worker, todo, fault>>

---------------------------------------------------------------------------
NewWorker == [pc |-> "wait", notified |-> FALSE, retry |-> FALSE,
              latch |-> FALSE, result |-> "EMPTY", stale |-> FALSE]
NoWorker == [NewWorker EXCEPT !.pc = "done"]

Init ==
  /\ open = FALSE /\ blocked = FALSE /\ queue = 0
  /\ endpoints = FALSE /\ deferred = FALSE /\ exhausted = FALSE /\ published = 0
  /\ exclusive = FALSE /\ st = "none"
  /\ stop = FALSE /\ closing = FALSE /\ closed = FALSE /\ lock = "none"
  /\ owner = (CHOOSE p \in Presenters : TRUE) /\ ownerReady = FALSE /\ presenterRunning = FALSE
  /\ joinStarted = FALSE /\ joinComplete = FALSE /\ joinOk = FALSE /\ waiters = {}
  /\ wake = FALSE /\ worker = NoWorker
  /\ todo = [t \in Threads |-> <<>>] /\ fault = {}

(* diagnostics_are_quiescent, and the lane's own condition for a claim.      *)
Quiescent ==
  ~open /\ queue = 0 /\ ~endpoints /\ ~deferred /\ worker.pc # "callback"

At(t, step) == todo[t] # <<>> /\ Head(todo[t]) = step
Then(t, steps) == todo' = [todo EXCEPT ![t] = steps \o Tail(@)]
Idle(t) == todo[t] = <<>>
Calls(t, steps) == todo' = [todo EXCEPT ![t] = steps \o @]

(* Inside a callback of the lane's presenter.  The lane serves one presenter *)
(* at a time (g_presenter_busy) and refuses any other.                       *)
Callbacks == {"presenting", "holding"}
InCallback(t) == \E i \in DOMAIN todo[t] : todo[t][i] \in Callbacks
PresenterBusy == \E t \in Threads : InCallback(t)
MayCall(t) == Idle(t) \/ \E step \in Callbacks : At(t, step)

Exists == st \notin {"none", "starting"}   (* the pointer start returned      *)
Runs == st = "running" /\ ~stop
IsOwner(t) == ownerReady /\ owner = t

(* signal_worker.  The sequence is advanced under the mutex the worker holds *)
(* from its test to its wait, so that no wake-up falls in between.           *)
Signal == wake' = TRUE

Invalidated(w) == [w EXCEPT !.stale = (@ \/ w.pc = "callback")]

(* logical_invalidate: everything is left to be retired; what the worker is  *)
(* compiling at the moment it retires itself.                                *)
LaneInvalidate ==
  /\ deferred' = (deferred \/ queue > 0 \/ endpoints)
  /\ queue' = 0 /\ endpoints' = FALSE /\ blocked' = FALSE
  /\ exhausted' \in {exhausted, EpochsEnd}
  /\ worker' = Invalidated(worker)
  /\ UNCHANGED published

---------------------------------------------------------------------------
(* Start: the exclusive claim, the lane's claim, a first drain, the worker.  *)
(* The model's one host record is reused when an earlier host has been       *)
(* joined and no call of it is left.                                         *)
StartClaim(t) ==
  /\ t \in Presenters /\ \A u \in Threads : Idle(u)
  /\ ~exclusive /\ (st = "none" \/ joinComplete)
  /\ Quiescent /\ ~exhausted
  /\ exclusive' = TRUE /\ st' = "starting" /\ open' = TRUE
  /\ owner' = t /\ ownerReady' = TRUE /\ presenterRunning' = FALSE
  /\ stop' = FALSE /\ closing' = FALSE /\ closed' = FALSE
  /\ joinStarted' = FALSE /\ joinComplete' = FALSE /\ joinOk' = FALSE
  /\ wake' = FALSE /\ fault' = {}
  /\ Calls(t, <<"startDrain", "startCreate">>)
  /\ UNCHANGED <<blocked, queue, endpoints, deferred, exhausted, published,
                 lock, waiters, worker>>

StartDrain(t) ==
  /\ At(t, "startDrain") /\ deferred' = FALSE /\ Then(t, <<>>)
  /\ UNCHANGED <<open, blocked, queue, endpoints, exhausted, published, exclusive,
                 st, stopVars, ownerVars, joinVars, wake, worker, fault>>

StartCreate(t) ==
  /\ At(t, "startCreate")
  /\ \/ st' = "running" /\ worker' = NewWorker /\ Then(t, <<>>)
     \/ Then(t, <<"startClose">>) /\ UNCHANGED <<st, worker>>
  /\ UNCHANGED <<laneVars, exclusive, stopVars, ownerVars, joinVars, wake, fault>>

(* A start that fails closes what it opened.  A lane that is closed already, *)
(* at the terminal epoch, keeps the claim forever.                           *)
StartClose(t) ==
  /\ At(t, "startClose")
  /\ IF open
     THEN LaneInvalidate /\ open' = FALSE /\ Then(t, <<"startRelease">>) /\ UNCHANGED st
     ELSE Then(t, <<>>) /\ st' = "none" /\ UNCHANGED <<laneVars, worker>>
  /\ UNCHANGED <<exclusive, stopVars, ownerVars, joinVars, wake, fault>>

StartRelease(t) ==
  /\ At(t, "startRelease") /\ Then(t, <<>>)
  /\ deferred' = FALSE /\ ownerReady' = FALSE /\ exclusive' = FALSE /\ st' = "none"
  /\ UNCHANGED <<open, blocked, queue, endpoints, exhausted, published, stopVars,
                 owner, presenterRunning, joinVars, wake, worker, fault>>

---------------------------------------------------------------------------
(* Producers publish and notify; the runtime invalidates, with the host or   *)
(* without it.                                                               *)
SourceQueuePublish(t) ==
  /\ Idle(t) /\ open /\ ~blocked /\ published < PublishLimit
  /\ queue' = queue + 1 /\ published' = published + 1
  /\ Calls(t, <<"notify">>)
  /\ UNCHANGED <<open, blocked, endpoints, deferred, exhausted, exclusive, st,
                 stopVars, ownerVars, joinVars, wake, worker, fault>>

Notify(t) ==
  /\ At(t, "notify")
  /\ Then(t, IF Runs THEN <<"signal">> ELSE <<>>)
  /\ UNCHANGED <<laneVars, exclusive, st, stopVars, ownerVars, joinVars,
                 wake, worker, fault>>

SignalWorker(t) ==
  /\ At(t, "signal") /\ Signal /\ Then(t, <<>>)
  /\ UNCHANGED <<laneVars, exclusive, st, stopVars, ownerVars, joinVars, worker, fault>>

TimelineInvalidate(t) ==
  /\ MayCall(t) /\ ~exhausted
  /\ LaneInvalidate /\ open' = (open /\ ~exhausted')
  /\ UNCHANGED <<exclusive, st, stopVars, ownerVars, joinVars, wake, todo, fault>>

InvalidateOrWake(t) ==
  /\ Idle(t) /\ Exists /\ lock = "none"
  /\ IF Runs /\ ~closing /\ ~exhausted
     THEN LaneInvalidate /\ open' = (open /\ ~exhausted')
     ELSE UNCHANGED <<laneVars, worker>>
  /\ Calls(t, <<"signal">>)
  /\ UNCHANGED <<exclusive, st, stopVars, ownerVars, joinVars, wake, fault>>

---------------------------------------------------------------------------
(* Shutdown and failure.  The first to come closes the lane.                 *)
ShutdownSteps == <<"stop", "signal">>
FailSteps == <<"fail", "stop", "signal">>

Shutdown(t) ==
  /\ MayCall(t) /\ Exists
  /\ Calls(t, ShutdownSteps)
  /\ UNCHANGED <<laneVars, exclusive, st, stopVars, ownerVars, joinVars,
                 wake, worker, fault>>

RequestStop(t) ==
  /\ At(t, "stop") /\ lock = "none"
  /\ stop' = TRUE /\ closing' = TRUE
  /\ IF closing THEN Then(t, <<>>) /\ UNCHANGED <<lock, st>>
     ELSE /\ lock' = t /\ Then(t, <<"close">>)
          /\ st' = IF st = "running" THEN "shutting_down" ELSE st
  /\ UNCHANGED <<laneVars, exclusive, closed, ownerVars, joinVars, wake, worker, fault>>

LifecycleClose(t) ==
  /\ At(t, "close") /\ lock' = "none" /\ Then(t, <<>>)
  /\ IF open
     THEN /\ LaneInvalidate /\ open' = FALSE
          /\ closed' = TRUE /\ UNCHANGED <<st, fault>>
     ELSE /\ st' = "failed" /\ fault' = fault \cup IF exhausted THEN {"exhausted"} ELSE {}
          /\ UNCHANGED <<laneVars, worker, closed>>
  /\ UNCHANGED <<exclusive, stop, closing, ownerVars, joinVars, wake>>

(* fail_host_from_presenter.  The clock is the fault unless the lane has     *)
(* refused its presenter.                                                    *)
FailHost(t) ==
  /\ At(t, "fail") /\ st' = "failed" /\ fault' = fault \cup IF PresenterBusy THEN {} ELSE {"clock"}
  /\ Then(t, <<>>)
  /\ UNCHANGED <<laneVars, exclusive, stopVars, ownerVars, joinVars, wake, worker>>

---------------------------------------------------------------------------
(* The pump of the owner.  A tick drains retirements, presents, does both or *)
(* neither; after either of them pending work is announced to the worker.    *)
(* The clock may fail at the start and after the drain.                      *)
PumpAccepts(t) == IsOwner(t) /\ ~presenterRunning
Pump(t) ==
  /\ MayCall(t) /\ Exists /\ PumpAccepts(t)
  /\ presenterRunning' = TRUE
  /\ Calls(t, <<"tick">>)
  /\ UNCHANGED <<laneVars, exclusive, st, stopVars, owner, ownerReady, joinVars,
                 wake, worker, fault>>

Drains == {<<>>, <<"drain", "announce">>}
Presents == {<<>>, <<"present">>}
TickPlans ==
  {d \o p \o <<"pumpDone">> : d \in Drains, p \in Presents \cup {FailSteps}}

Tick(t) ==
  /\ At(t, "tick")
  /\ IF Runs THEN \E plan \in TickPlans : Then(t, plan)
     ELSE Then(t, <<"pumpDone">>)
  /\ UNCHANGED <<laneVars, exclusive, st, stopVars, ownerVars, joinVars,
                 wake, worker, fault>>

DrainRetirements(t) ==
  /\ At(t, "drain")
  /\ IF PresenterBusy
     THEN todo' = [todo EXCEPT ![t] = FailSteps \o <<"pumpDone">>] /\ UNCHANGED deferred
     ELSE deferred' = FALSE /\ Then(t, <<>>)
  /\ UNCHANGED <<open, blocked, queue, endpoints, exhausted, published, exclusive,
                 st, stopVars, ownerVars, joinVars, wake, worker, fault>>

(* present_next and, when it showed nothing (EMPTY, FENCE_PENDING or         *)
(* COMPOSE_FAILED) and a hold is installed, the hold: neither ends what the  *)
(* lane retains.  Only a refusal by the lane fails the host, and not that of *)
(* the hold.                                                                 *)
PresentNext(t) ==
  /\ At(t, "present")
  /\ Then(t, IF PresenterBusy THEN <<"announce">> \o FailSteps
             ELSE <<"presenting", "announce">>)
  /\ UNCHANGED <<laneVars, exclusive, st, stopVars, ownerVars, joinVars,
                 wake, worker, fault>>
Presented(t) ==
  /\ At(t, "presenting") /\ (Then(t, <<>>) \/ Then(t, <<"holding">>))
  /\ UNCHANGED <<laneVars, exclusive, st, stopVars, ownerVars, joinVars,
                 wake, worker, fault>>
HoldReturns(t) ==
  /\ At(t, "holding") /\ Then(t, <<>>)
  /\ UNCHANGED <<laneVars, exclusive, st, stopVars, ownerVars, joinVars,
                 wake, worker, fault>>

AnnounceNothing(t) ==  (* broken variant *)
  /\ At(t, "announce") /\ Then(t, <<>>)
  /\ UNCHANGED <<laneVars, exclusive, st, stopVars, ownerVars, joinVars,
                 wake, worker, fault>>

Announce(t) ==
  /\ At(t, "announce")
  /\ Then(t, IF queue > 0 /\ ~blocked THEN <<"signal">> ELSE <<>>)
  /\ UNCHANGED <<laneVars, exclusive, st, stopVars, ownerVars, joinVars,
                 wake, worker, fault>>

PumpDone(t) ==
  /\ At(t, "pumpDone") /\ presenterRunning' = FALSE /\ Then(t, <<>>)
  /\ UNCHANGED <<laneVars, exclusive, st, stopVars, owner, ownerReady, joinVars,
                 wake, worker, fault>>

(* time_until_pump reads the same clock, without claiming the pump.          *)
TimeUntilPumpFails(t) ==
  /\ Idle(t) /\ Exists /\ PumpAccepts(t) /\ Runs
  /\ Calls(t, FailSteps)
  /\ UNCHANGED <<laneVars, exclusive, st, stopVars, ownerVars, joinVars,
                 wake, worker, fault>>

(* "Only while no pump runs" is the caller's duty: the owner is not inside a *)
(* service call, even before it has set presenter_running.                   *)
Rebind(t) ==
  /\ t \in Presenters /\ Idle(t) /\ Exists /\ ~presenterRunning
  /\ \A u \in Threads : ~At(u, "fail")
  /\ owner' = t
  /\ fault' = fault \cup IF joinStarted /\ ~joinComplete THEN {"rebind"} ELSE {}
  /\ UNCHANGED <<laneVars, exclusive, st, stopVars, ownerReady, presenterRunning,
                 joinVars, wake, worker, todo>>

---------------------------------------------------------------------------
(* Join.  The owner's first call does the work, later calls wait for it.     *)
JoinStepsNoDrain == ShutdownSteps \o <<"await", "finish", "broadcast">>  (* broken variant *)
JoinSteps == ShutdownSteps \o <<"await", "joinDrain", "finish", "broadcast">>

JoinAcceptsReentrant(t) == IsOwner(t)  (* broken variant *)
JoinAccepts(t) == IsOwner(t) /\ ~presenterRunning

Join(t) ==
  /\ MayCall(t) /\ Exists /\ ~joinStarted /\ JoinAccepts(t)
  /\ joinStarted' = TRUE
  /\ Calls(t, JoinSteps)
  /\ UNCHANGED <<laneVars, exclusive, st, stopVars, ownerVars, joinComplete, joinOk,
                 waiters, wake, worker, fault>>

JoinAgain(t) ==
  /\ Idle(t) /\ joinStarted /\ ~joinComplete
  /\ waiters' = waiters \cup {t}
  /\ Calls(t, <<"joinWait">>)
  /\ UNCHANGED <<laneVars, exclusive, st, stopVars, ownerVars, joinStarted,
                 joinComplete, joinOk, wake, worker, fault>>

JoinWakes(t) ==
  /\ At(t, "joinWait") /\ t \notin waiters
  /\ Then(t, <<>>)
  /\ UNCHANGED <<laneVars, exclusive, st, stopVars, ownerVars, joinVars,
                 wake, worker, fault>>

AwaitWorker(t) ==
  /\ At(t, "await") /\ worker.pc = "done" /\ Then(t, <<>>)
  /\ UNCHANGED <<laneVars, exclusive, st, stopVars, ownerVars, joinVars,
                 wake, worker, fault>>

(* joinOk holds the outcome of the drain until the result is known.          *)
JoinDrain(t) ==
  /\ At(t, "joinDrain") /\ Then(t, <<>>)
  /\ joinOk' = (IsOwner(t) /\ ~PresenterBusy)
  /\ deferred' = (deferred /\ ~joinOk')
  /\ UNCHANGED <<open, blocked, queue, endpoints, exhausted, published, exclusive,
                 st, stopVars, ownerVars, joinStarted, joinComplete, waiters,
                 wake, worker, fault>>

(* Only a successful join gives up the owner and the exclusive claim.        *)
ReleasesAlways(ok) == TRUE  (* broken variant *)
Releases(ok) == ok

JoinFinish(t) ==
  /\ At(t, "finish") /\ Then(t, <<>>)
  /\ joinOk' = (joinOk /\ closed /\ worker.pc = "done" /\ ~presenterRunning /\ Quiescent)
  /\ st' = IF ~joinOk' \/ st = "failed" THEN "failed" ELSE "joined"
  /\ ownerReady' = (ownerReady /\ ~Releases(joinOk'))
  /\ exclusive' = (exclusive /\ ~Releases(joinOk'))
  /\ UNCHANGED <<laneVars, stopVars, owner, presenterRunning, joinStarted,
                 joinComplete, waiters, wake, worker, fault>>

JoinBroadcastNobody(t) ==  (* broken variant: the waiters are not woken *)
  /\ At(t, "broadcast") /\ Then(t, <<>>)
  /\ joinComplete' = TRUE /\ UNCHANGED waiters
  /\ UNCHANGED <<laneVars, exclusive, st, stopVars, ownerVars, joinStarted, joinOk,
                 wake, worker, fault>>

JoinBroadcast(t) ==
  /\ At(t, "broadcast") /\ Then(t, <<>>)
  /\ joinComplete' = TRUE /\ waiters' = {}
  /\ UNCHANGED <<laneVars, exclusive, st, stopVars, ownerVars, joinStarted, joinOk,
                 wake, worker, fault>>

(* "No other host API may race with destroy."                                *)
Destroy(t) ==
  /\ \A u \in Threads : Idle(u)
  /\ joinComplete /\ joinOk /\ Exists
  /\ st' = "none"
  /\ stop' = FALSE /\ closing' = FALSE /\ closed' = FALSE
  /\ joinStarted' = FALSE /\ joinComplete' = FALSE /\ joinOk' = FALSE
  /\ owner' = (CHOOSE p \in Presenters : TRUE) /\ ownerReady' = FALSE
  /\ wake' = FALSE /\ fault' = {}
  /\ UNCHANGED <<laneVars, exclusive, lock, presenterRunning, waiters, worker, todo>>

---------------------------------------------------------------------------
(* The worker.                                                               *)
hostVars == <<exclusive, st, stopVars, ownerVars, joinVars, todo, fault>>

(* wait_for_sequence: the sequence is compared before each wait, and a wait   *)
(* that times out returns without another look.                              *)
WorkerSeesSignal ==
  /\ worker.pc \in {"wait", "asleep"} /\ (wake \/ stop)
  /\ wake' = FALSE /\ worker' = [worker EXCEPT !.pc = "woken", !.notified = TRUE]
  /\ UNCHANGED <<laneVars, hostVars>>
WorkerSleeps ==
  /\ worker.pc = "wait" /\ ~wake /\ ~stop
  /\ worker' = [worker EXCEPT !.pc = "asleep"]
  /\ UNCHANGED <<laneVars, hostVars, wake>>
WorkerTimesOut ==
  /\ worker.pc = "asleep"
  /\ worker' = [worker EXCEPT !.pc = "woken", !.notified = FALSE]
  /\ UNCHANGED <<laneVars, hostVars, wake>>

(* A blocked lane latches; only its invalidation, which need not come with a *)
(* signal, unlatches it, and then counts as one.                             *)
WorkerDecides ==
  LET latched == worker.latch /\ blocked
      due == worker.notified \/ worker.retry \/ worker.latch
  IN /\ worker.pc = "woken"
     /\ worker' = IF stop THEN NoWorker
                  ELSE [worker EXCEPT !.pc = IF latched \/ ~due THEN "wait" ELSE "compile",
                                      !.notified = FALSE, !.latch = (@ /\ blocked)]
     /\ UNCHANGED <<laneVars, hostVars, wake>>

(* xg_render_worker_compile_next up to its callback.  It declines while      *)
(* retired compile work is left to the presenter.                            *)
Declined ==
  {IF blocked THEN "LANE_BLOCKED" ELSE IF queue = 0 THEN "EMPTY" ELSE "WOULD_BLOCK"}
    \cup IF deferred THEN {"WOULD_BLOCK"} ELSE {}
WorkerCompiles ==
  /\ worker.pc = "compile"
  /\ \/ queue > 0 /\ ~blocked /\ worker' = [worker EXCEPT !.pc = "callback", !.stale = FALSE]
     \/ \E result \in Declined : worker' = [worker EXCEPT !.pc = "result", !.result = result]
  /\ UNCHANGED <<laneVars, hostVars, wake>>

WorkerReturns(result) ==
  /\ worker.pc = "callback"
  /\ worker.stale <=> result = "STALE"
  /\ worker' = [worker EXCEPT !.pc = "result", !.result = result, !.stale = FALSE]
  /\ UNCHANGED <<hostVars, wake, open, deferred, exhausted, published>>

WorkerDelayed ==
  /\ WorkerReturns("STALE") \/ WorkerReturns("WOULD_BLOCK")
  /\ UNCHANGED <<queue, endpoints, blocked>>
WorkerFails == WorkerReturns("COMPILE_FAILED") /\ blocked' = TRUE /\ UNCHANGED <<queue, endpoints>>
WorkerAcks ==
  /\ WorkerReturns("APPLIED")
  /\ queue' = queue - 1 /\ endpoints' \in {endpoints, TRUE}
  /\ UNCHANGED blocked

Latching == {"COMPILE_FAILED", "LANE_BLOCKED"}
Retried == {"WOULD_BLOCK", "STALE"}

WorkerContinues ==
  /\ worker.pc = "result"
  /\ worker' = IF stop THEN NoWorker
               ELSE IF worker.result = "APPLIED" THEN [worker EXCEPT !.pc = "compile", !.result = "EMPTY"]
               ELSE [worker EXCEPT !.pc = "wait", !.result = "EMPTY",
                                   !.latch = (worker.result \in Latching),
                                   !.retry = (worker.result \in Retried)]
  /\ UNCHANGED <<laneVars, hostVars, wake>>

---------------------------------------------------------------------------
WorkerReply == WorkerDelayed \/ WorkerFails \/ WorkerAcks
WorkerWait == WorkerSeesSignal \/ WorkerSleeps \/ WorkerTimesOut
WorkerStep == WorkerWait \/ WorkerDecides \/ WorkerCompiles \/ WorkerReply \/ WorkerContinues

(* The steps of a call that has begun, and the calls.                        *)
Continue(t) ==
  \/ StartDrain(t) \/ StartCreate(t) \/ StartClose(t) \/ StartRelease(t)
  \/ Notify(t) \/ SignalWorker(t) \/ RequestStop(t) \/ LifecycleClose(t) \/ FailHost(t)
  \/ Tick(t) \/ DrainRetirements(t) \/ PresentNext(t) \/ Presented(t) \/ HoldReturns(t)
  \/ Announce(t) \/ PumpDone(t)
  \/ AwaitWorker(t) \/ JoinDrain(t) \/ JoinFinish(t) \/ JoinBroadcast(t) \/ JoinWakes(t)
Call(t) ==
  \/ StartClaim(t) \/ SourceQueuePublish(t) \/ TimelineInvalidate(t)
  \/ InvalidateOrWake(t) \/ Shutdown(t) \/ Pump(t) \/ TimeUntilPumpFails(t)
  \/ Rebind(t) \/ Join(t) \/ JoinAgain(t) \/ Destroy(t)

Next == WorkerStep \/ \E t \in Threads : Continue(t) \/ Call(t)
Spec == Init /\ [][Next]_vars

---------------------------------------------------------------------------
(* The shape of the host's state.                                            *)
States == {"none", "starting", "running", "shutting_down", "joined", "failed"}
Steps == {"startDrain", "startCreate", "startClose", "startRelease", "notify", "signal",
          "stop", "close", "fail", "tick", "drain", "present", "presenting",
          "holding", "announce", "pumpDone",
          "await", "joinDrain", "finish", "broadcast", "joinWait"}
Results == {"EMPTY", "LANE_BLOCKED", "WOULD_BLOCK", "STALE", "COMPILE_FAILED", "APPLIED"}
TypeOK ==
  /\ {open, blocked, endpoints, deferred, exhausted, exclusive, stop, closing, closed,
      ownerReady, presenterRunning, joinStarted, joinComplete, joinOk, wake} \subseteq BOOLEAN
  /\ queue \in 0..PublishLimit /\ published \in 0..PublishLimit
  /\ st \in States /\ lock \in Threads \cup {"none"} /\ owner \in Threads
  /\ waiters \subseteq Threads /\ fault \subseteq {"clock", "rebind", "exhausted"}
  /\ worker \in [pc : {"wait", "asleep", "woken", "compile", "callback", "result", "done"},
                 notified : BOOLEAN, retry : BOOLEAN, latch : BOOLEAN,
                 result : Results, stale : BOOLEAN]
  /\ todo \in [Threads -> Seq(Steps)]
  /\ worker.pc = "callback" /\ ~worker.stale => queue > 0

(* The exclusive claim is given back only by a pipeline the next host can    *)
(* take over: no worker is left, nothing is open, queued or unretired, and   *)
(* nobody is inside a presenter callback (start's failure path, join).       *)
Backend == {"startDrain", "startRelease", "drain", "present"} \cup Callbacks
InBackend(t) ==
  \/ \E i \in DOMAIN todo[t] : todo[t][i] \in Backend
  \/ At(t, "joinDrain") /\ IsOwner(t)
ReleasedClean ==
  ~exclusive => /\ worker.pc = "done" /\ Quiescent
                /\ \A t \in Threads : ~InBackend(t)

(* Presentation has one thread at a time, the owner: a pump is not joined    *)
(* from inside its own callback, and none runs once the join has begun.      *)
PresenterExclusive ==
  /\ \A t, u \in Threads : InBackend(t) /\ InBackend(u) => t = u
  /\ joinStarted /\ ~joinComplete /\ presenterRunning => "rebind" \in fault

(* The host is judged by what happened.  "It requests shutdown, joins the    *)
(* worker, and drains retirement/quiesces the pipeline on the owner": a join *)
(* fails only if the lane was closed behind the host's back or the owner was *)
(* rebound during it.  Racing shutdowns, joins and pumps never make a        *)
(* healthy host FAILED, and a host that failed is not reported JOINED.       *)
HostIsJudged ==
  /\ joinComplete /\ closed /\ "rebind" \notin fault => joinOk
  /\ st = "failed" => fault # {}
  /\ st = "joined" => "clock" \notin fault

(* Fairness: the threads and the worker run, a callback returns, and the     *)
(* compiler does not ask for a retry forever.  The owner keeps pumping, and  *)
(* the retirement deadline passes again and again: "service must continue    *)
(* even when no endpoint is presentable".                                    *)
Service == \E t \in Threads : Pump(t) /\ Runs
ServiceDrains == \E t \in Threads : Tick(t) /\ Head(todo'[t]) = "drain"
Fairness ==
  /\ \A t \in Threads : WF_vars(Continue(t))
  /\ SF_vars(\E t \in Presenters : Presented(t) \/ HoldReturns(t))
  /\ WF_vars(WorkerStep) /\ SF_vars(WorkerAcks \/ WorkerFails)
  /\ SF_vars(Service) /\ SF_vars(ServiceDrains)
  /\ SF_vars(WorkerCompiles /\ worker'.pc = "callback")
FairSpec == Spec /\ Fairness

(* Published work is taken up: no wake-up is lost between the worker's test  *)
(* and its wait or over a blocked lane that an invalidation repairs          *)
(* silently, and the owner's pump makes up for a publication that nobody     *)
(* could notify, before start has returned the host.                         *)
WorkIsTaken == []<>(queue = 0 \/ blocked \/ ~open)

(* No call of the host hangs: the joiner waits for a worker that stops, the  *)
(* other callers for a joiner that wakes them.                               *)
CallsReturn == \A t \in Threads : []<>(todo[t] = <<>>)
=============================================================================
