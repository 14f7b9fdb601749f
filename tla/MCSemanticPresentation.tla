----------------------- MODULE MCSemanticPresentation -----------------------
(* The lane on small instances: LaneEpochs is about invalidations, phases    *)
(* and scenes, LaneLiveness about what happens under fair scheduling.        *)
EXTENDS SemanticPresentation

(* What can starve the FIFO takes several works of one epoch and several     *)
(* epochs.  Three bounds keep an instance with both small: only a long epoch *)
(* has more than one work, an epoch is invalidated after at most             *)
(* LastInvalidated works or not at all, and the phases of an endpoint start  *)
(* from the preceding work.  An action that Fairness speaks of can still be  *)
(* taken wherever it is enabled, so the bounds make no condition stronger.   *)
LongEpochs == {1}
LastInvalidated == 2

Bound ==
  /\ draft'.work.seq > 1 => draft'.work.epoch \in LongEpochs
  /\ epoch' # epoch => seq <= LastInvalidated
  /\ \A b \in Batches :
       batch'[b].phases # 0 => batch'[b].base = batch'[b].work.seq - 1

LongFairSpec == Init /\ [][Next /\ Bound]_vars /\ Fairness

(* What keeps the worker from the head of the FIFO: a retained interval is   *)
(* unfinished and its successor waits for it, so that no batch is free; the  *)
(* deferred list has no reserve for another batch; the fence of an           *)
(* invalidated compile is not cleaned up.  All three happen in LaneLiveness: *)
(* as an INVARIANT of it, the negation of each is violated.                  *)
Waiting == fifo # <<>> /\ ~blocked /\ workBatch = 0 /\ worker.pc = "idle"
HeldInterval ==
  /\ Waiting /\ InState({"free"}) = {}
  /\ pending # 0 /\ InState({"retained"}) = {retained} /\ Unfinished(pending)
FullReserve == Waiting /\ InState({"free"}) # {} /\ ~DeferredReserve
StaleFence == Waiting /\ deferredCompile > 0

HeldIntervalNever == ~HeldInterval
FullReserveNever == ~FullReserve
StaleFenceNever == ~StaleFence
=============================================================================
