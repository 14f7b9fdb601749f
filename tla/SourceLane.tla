----------------------------- MODULE SourceLane -----------------------------
(***************************************************************************)
(* What the presentation lane promises its producers: within an epoch,     *)
(* published work takes effect in sequence, exactly once and without gaps, *)
(* and is acknowledged in that order.  A failure blocks the lane for       *)
(* everybody, and nothing but the next epoch unblocks it; an invalidation  *)
(* discards whatever was not acknowledged, and no result of an old epoch   *)
(* is ever counted in the new one.                                         *)
(***************************************************************************)
EXTENDS Integers

CONSTANTS
  EpochLimit,  (* the terminal epoch, in which nothing is published anymore  *)
  SeqLimit     (* the last sequence of an epoch                              *)

VARIABLES
  epoch, open,
  blocked,     (* the head of the lane failed                                *)
  published, applied, acked    (* last sequence of the epoch to get so far   *)

vars == <<epoch, open, blocked, published, applied, acked>>

Init ==
  /\ epoch = 1 /\ open = FALSE /\ blocked = FALSE
  /\ published = 0 /\ applied = 0 /\ acked = 0

Publish ==
  /\ open /\ ~blocked /\ published < SeqLimit
  /\ published' = published + 1
  /\ UNCHANGED <<epoch, open, blocked, applied, acked>>

(* The effects of the head may come well before its acknowledgement.         *)
Apply ==
  /\ ~blocked /\ applied = acked /\ acked < published
  /\ applied' = acked + 1
  /\ UNCHANGED <<epoch, open, blocked, published, acked>>

Ack ==
  /\ ~blocked /\ acked < published
  /\ acked' = acked + 1 /\ applied' = acked + 1
  /\ UNCHANGED <<epoch, open, blocked, published>>

(* The head may fail before, after or without having had any effect.         *)
Block ==
  /\ ~blocked /\ acked < published
  /\ blocked' = TRUE
  /\ UNCHANGED <<epoch, open, published, applied, acked>>

Open ==
  /\ ~open /\ epoch < EpochLimit
  /\ open' = TRUE
  /\ UNCHANGED <<epoch, blocked, published, applied, acked>>

Invalidate ==
  /\ epoch < EpochLimit /\ epoch' = epoch + 1
  /\ open' \in {open, FALSE}
  /\ epoch' = EpochLimit => ~open'
  /\ blocked' = FALSE /\ published' = 0 /\ applied' = 0 /\ acked' = 0

Next == Publish \/ Apply \/ Ack \/ Block \/ Open \/ Invalidate

Spec == Init /\ [][Next]_vars

---------------------------------------------------------------------------
(* The bookkeeping of the promise: an ack never overtakes its effects, the   *)
(* effects are at most one work ahead of it and never of unpublished work,   *)
(* and the terminal epoch stays closed and empty.                            *)
InSequence ==
  /\ epoch \in 1..EpochLimit
  /\ acked \in 0..SeqLimit /\ published \in acked..SeqLimit
  /\ applied \in {acked, acked + 1} /\ applied <= published
  /\ epoch = EpochLimit => ~open /\ published = 0
=============================================================================
