---------------------------- MODULE SourceCommit ----------------------------
(***************************************************************************)
(* The source-commit pool (xg_render_source_commit.c): a fixed array of    *)
(* slots in which guest frames are built, sealed into immutable commits,   *)
(* queued for the worker, read under lease and retired.  Every exported    *)
(* function runs under the pool's spin lock, so each is one action here.   *)
(*                                                                         *)
(* A slot is named from outside by a handle <<slot, generation>>; a handle *)
(* whose generation is not the slot's is refused.  The draws, passes and   *)
(* operations of a commit are abstracted to the resource references they   *)
(* retain in the resource repository: that is the part whose release can   *)
(* go wrong.                                                               *)
(***************************************************************************)
EXTENDS Integers, FiniteSets

CONSTANTS
  Slots,      (* the pool, XG_RENDER_SOURCE_COMMIT_CAPACITY slots            *)
  GenLimit,   (* the largest generation; the next one wraps to 1            *)
  Resources,  (* resource handles of the repository                         *)
  RefLimit,   (* how often one slot may retain the same resource directly   *)
  Readers,    (* threads that take read leases                              *)
  NoHandle    (* what a thread without a lease holds                        *)

Handles == Slots \X (0..GenLimit)

ASSUME PoolAssumption ==
  /\ GenLimit \in Nat /\ GenLimit > 1
  /\ RefLimit \in Nat
  /\ IsFiniteSet(Slots) /\ IsFiniteSet(Readers)
  /\ NoHandle \notin Handles

VARIABLES
  slot,       (* [Slots -> record]: g_slots and g_slot_generations            *)
  current,    (* resources the repository still lists as current             *)
  refs,       (* [Resources -> Nat]: retain_count held for this pool         *)
  lease       (* [Readers -> handle or NoHandle]: leases the readers hold    *)

vars == <<slot, current, refs, lease>>

(* "free" stands for an absent or unoccupied slot: EMPTY, REJECTED,          *)
(* CANCELLED and RETIRED differ only in the reason that is left behind.      *)
States == {"free", "building", "sealed", "queued"}
Occupied(s) == slot[s].state # "free"
Committed(s) == slot[s].state \in {"sealed", "queued"}

(* Generation 0 is never handed out: the counter wraps to 1.                 *)
NextGeneration(g) == IF g = GenLimit THEN 1 ELSE g + 1

(* Broken variant: a builder handle stays usable after its slot was sealed.  *)
BuilderSlotAfterSeal(h) ==
  slot[h[1]].state \in {"building", "sealed"} /\ slot[h[1]].gen = h[2]

(* builder_slot and handle_slot: what a handle must satisfy to be honoured.  *)
BuilderSlot(h) == slot[h[1]].state = "building" /\ slot[h[1]].gen = h[2]
HandleSlot(h)  == Occupied(h[1]) /\ slot[h[1]].gen = h[2]

Acquirable(r) == r \in current \/ refs[r] > 0

(* Every reference a slot holds on a resource: direct references (resource   *)
(* list, uploads, meshes) count each time, motion and coverage only once.    *)
HeldBy(s, r) ==
  slot[s].direct[r] + (IF r \in slot[s].motion THEN 1 ELSE 0)
                    + (IF r \in slot[s].coverage THEN 1 ELSE 0)

(* The references that the slots in S hold on r.                             *)
References(S, r) == UNION {{s} \X (1..HeldBy(s, r)) : s \in S}

EmptySlot(gen) ==
  [state |-> "free", gen |-> gen, readers |-> 0, retirePending |-> FALSE,
   direct |-> [r \in Resources |-> 0], motion |-> {}, coverage |-> {}]

Init ==
  /\ slot = [s \in Slots |-> EmptySlot(0)]
  /\ current = Resources
  /\ refs = [r \in Resources |-> 0]
  /\ lease = [t \in Readers |-> NoHandle]

---------------------------------------------------------------------------
(* Most operations write one slot and leave the others as they are.          *)
SetSlot(s, record) == slot' = [slot EXCEPT ![s] = record]

(* release_resources gives back every reference; reject_slot also frees the  *)
(* slot and retires its handle by advancing the generation.                  *)
Released(S) == [r \in Resources |-> refs[r] - Cardinality(References(S, r))]
RejectSlot(s) ==
  /\ SetSlot(s, EmptySlot(NextGeneration(slot[s].gen)))
  /\ refs' = Released({s})

Begin(s) ==
  /\ ~Occupied(s)
  /\ SetSlot(s, [EmptySlot(IF slot[s].gen = 0 THEN 1 ELSE slot[s].gen)
                   EXCEPT !.state = "building"])
  /\ UNCHANGED <<current, refs, lease>>

(* append_resource and an UPLOAD operation retain one snapshot, always anew. *)
AppendResource(h, r) ==
  /\ BuilderSlot(h) /\ Acquirable(r) /\ slot[h[1]].direct[r] < RefLimit
  /\ SetSlot(h[1], [slot[h[1]] EXCEPT !.direct[r] = @ + 1])
  /\ refs' = [refs EXCEPT ![r] = @ + 1]
  /\ UNCHANGED <<current, lease>>

(* append_temporal_coverage: retained once per slot.                         *)
AppendCoverage(h, c) ==
  /\ BuilderSlot(h) /\ Acquirable(c) /\ c \notin slot[h[1]].coverage
  /\ SetSlot(h[1], [slot[h[1]] EXCEPT !.coverage = @ \cup {c}])
  /\ refs' = [refs EXCEPT ![c] = @ + 1]
  /\ UNCHANGED <<current, lease>>

(* Broken variant: a refused motion leaves the new coverage reference behind. *)
AppendDrawWithoutRollback(h, c, m) ==
  /\ BuilderSlot(h) /\ Acquirable(c)
  /\ c \notin slot[h[1]].coverage
  /\ m \notin slot[h[1]].motion /\ ~Acquirable(m)
  /\ refs' = [refs EXCEPT ![c] = @ + 1]
  /\ UNCHANGED <<slot, current, lease>>

(* A DRAW operation retains its coverage, then its motion.  If the motion    *)
(* cannot be retained the coverage is given back, but only if this very      *)
(* draw had added it.                                                        *)
AppendDraw(h, c, m) ==
  LET s == h[1]
      newC == c \notin slot[s].coverage
      newM == m \notin slot[s].motion
      kept == newM => Acquirable(m)
  IN /\ BuilderSlot(h) /\ Acquirable(c)
     /\ SetSlot(s, IF kept
                   THEN [slot[s] EXCEPT !.coverage = @ \cup {c},
                                        !.motion = @ \cup {m}]
                   ELSE slot[s])
     /\ refs' = [r \in Resources |->
                   refs[r] + (IF kept /\ newC /\ r = c THEN 1 ELSE 0)
                           + (IF kept /\ newM /\ r = m THEN 1 ELSE 0)]
     /\ UNCHANGED <<current, lease>>

(* A MESH operation retains motion, mesh and geometry.  A missing geometry   *)
(* gives the mesh back; the motion stays with the slot either way.           *)
AppendMesh(h, m, mesh, geometry) ==
  LET s == h[1]
      newM == m \notin slot[s].motion
      kept == Acquirable(mesh) /\ Acquirable(geometry)
      direct(r) == IF kept /\ r \in {mesh, geometry}
                   THEN slot[s].direct[r] + 1 ELSE slot[s].direct[r]
  IN /\ BuilderSlot(h) /\ mesh # geometry
     /\ newM => Acquirable(m)
     /\ \A r \in Resources : direct(r) <= RefLimit
     /\ SetSlot(s, [slot[s] EXCEPT !.motion = @ \cup {m},
                                   !.direct = [r \in Resources |-> direct(r)]])
     /\ refs' = [r \in Resources |->
                   refs[r] + (IF newM /\ r = m THEN 1 ELSE 0)
                           + (IF kept /\ r \in {mesh, geometry} THEN 1 ELSE 0)]
     /\ UNCHANGED <<current, lease>>

(* seal either makes the builder an immutable commit or, when any of its     *)
(* proofs fails, rejects the slot on the spot.                               *)
Seal(h) ==
  /\ BuilderSlot(h)
  /\ SetSlot(h[1], [slot[h[1]] EXCEPT !.state = "sealed"])
  /\ UNCHANGED <<current, refs, lease>>

SealRejected(h) ==
  /\ BuilderSlot(h)
  /\ RejectSlot(h[1])
  /\ UNCHANGED <<current, lease>>

Cancel(h) ==
  /\ BuilderSlot(h)
  /\ RejectSlot(h[1])
  /\ UNCHANGED <<current, lease>>

(* Every new epoch cancels the builders of the old one, sealed commits stay. *)
Builders == {s \in Slots : slot[s].state = "building"}
CancelBuilders ==
  /\ slot' = [s \in Slots |-> IF s \in Builders
                             THEN EmptySlot(NextGeneration(slot[s].gen))
                             ELSE slot[s]]
  /\ refs' = Released(Builders)
  /\ UNCHANGED <<current, lease>>

MarkQueued(h) ==
  /\ HandleSlot(h) /\ slot[h[1]].state = "sealed"
  /\ SetSlot(h[1], [slot[h[1]] EXCEPT !.state = "queued"])
  /\ UNCHANGED <<current, refs, lease>>

(* Broken variant: retire frees the slot under its readers.                  *)
RetireUnderReaders(h) ==
  /\ HandleSlot(h) /\ Committed(h[1]) /\ ~slot[h[1]].retirePending
  /\ RejectSlot(h[1])
  /\ UNCHANGED <<current, lease>>

(* retire frees the slot at once unless a reader still leases it; the last   *)
(* release_read then frees it.  A second retire is refused.                  *)
Retire(h) ==
  /\ HandleSlot(h) /\ Committed(h[1]) /\ ~slot[h[1]].retirePending
  /\ IF slot[h[1]].readers > 0
     THEN /\ SetSlot(h[1], [slot[h[1]] EXCEPT !.retirePending = TRUE])
          /\ UNCHANGED refs
     ELSE RejectSlot(h[1])
  /\ UNCHANGED <<current, lease>>

AcquireRead(t, h) ==
  /\ lease[t] = NoHandle
  /\ HandleSlot(h) /\ Committed(h[1]) /\ ~slot[h[1]].retirePending
  /\ SetSlot(h[1], [slot[h[1]] EXCEPT !.readers = @ + 1])
  /\ lease' = [lease EXCEPT ![t] = h]
  /\ UNCHANGED <<current, refs>>

ReleaseRead(t) ==
  LET s == lease[t][1]
      last == slot[s].readers = 1 /\ slot[s].retirePending
  IN /\ lease[t] # NoHandle
     /\ lease' = [lease EXCEPT ![t] = NoHandle]
     /\ IF HandleSlot(lease[t]) /\ slot[s].readers > 0
        THEN IF last
             THEN RejectSlot(s)
             ELSE /\ SetSlot(s, [slot[s] EXCEPT !.readers = @ - 1])
                  /\ UNCHANGED refs
        ELSE UNCHANGED <<slot, refs>>
     /\ UNCHANGED current

(* reset empties the pool; a leased slot is only marked for its last reader. *)
LeasedSlots == {s \in Slots : Occupied(s) /\ slot[s].readers > 0}
Reset ==
  /\ slot' = [s \in Slots |-> IF s \in LeasedSlots
                             THEN [slot[s] EXCEPT !.retirePending = TRUE]
                             ELSE EmptySlot(NextGeneration(slot[s].gen))]
  /\ refs' = Released(Slots \ LeasedSlots)
  /\ UNCHANGED <<current, lease>>

(* The repository stops listing a resource as current; snapshots that are    *)
(* already retained survive until their last release.                        *)
RetireCurrent(r) ==
  /\ r \in current
  /\ current' = current \ {r}
  /\ UNCHANGED <<slot, refs, lease>>

---------------------------------------------------------------------------
AppendRecord(h) ==
  \/ \E r \in Resources : AppendResource(h, r) \/ AppendCoverage(h, r)
  \/ \E c, m \in Resources : AppendDraw(h, c, m)
  \/ \E m, mesh, geometry \in Resources : AppendMesh(h, m, mesh, geometry)

Next ==
  \/ \E s \in Slots : Begin(s)
  \/ \E h \in Handles : \/ AppendRecord(h)
                        \/ Seal(h) \/ SealRejected(h) \/ Cancel(h)
                        \/ MarkQueued(h) \/ Retire(h)
                        \/ \E t \in Readers : AcquireRead(t, h)
  \/ \E t \in Readers : ReleaseRead(t)
  \/ \E r \in Resources : RetireCurrent(r)
  \/ CancelBuilders \/ Reset

Spec == Init /\ [][Next]_vars

---------------------------------------------------------------------------
(* The shape of the pool: records, counters and handles have their types.    *)
SlotRecord ==
  [state : States, gen : 0..GenLimit, readers : Nat, retirePending : BOOLEAN,
   direct : [Resources -> Nat], motion : SUBSET Resources,
   coverage : SUBSET Resources]
PoolTypeOK ==
  /\ slot \in [Slots -> SlotRecord]
  /\ current \subseteq Resources
  /\ lease \in [Readers -> Handles \cup {NoHandle}]
TypeOK == PoolTypeOK /\ refs \in [Resources -> Nat]

(* A leased commit is never freed, rejected or handed to another builder     *)
(* under its reader: until release_read its slot is occupied by the very     *)
(* commit (generation) the lease was taken on, whatever retire, reset or     *)
(* cancel_builders did in between (acquire_read, retire, reset).             *)
LeaseProtects ==
  \A t \in Readers : lease[t] # NoHandle =>
      HandleSlot(lease[t]) /\ Committed(lease[t][1])

(* The reader count of a slot is exactly the number of leases on it, so the  *)
(* "last reader" that frees a retired slot really is the last, and a retired *)
(* slot always has a reader left to free it.                                 *)
Leasing(s) == {t \in Readers : lease[t] # NoHandle /\ lease[t][1] = s}
ReaderCount ==
  \A s \in Slots : /\ slot[s].readers = Cardinality(Leasing(s))
                   /\ slot[s].retirePending => slot[s].readers > 0

(* The repository's retain counts equal what the slots hold: no append, no   *)
(* rollback, no cancellation and no deferred retirement leaks a reference or *)
(* releases one twice (release_resources, retain_draw_metadata,              *)
(* append_native_operation).                                                 *)
RefsBalanced ==
  \A r \in Resources : refs[r] = Cardinality(References(Slots, r))

(* A sealed commit is immutable: as long as its handle is valid no step      *)
(* changes what it holds, although the builder handle its producer kept has  *)
(* the same slot and generation (builder_slot, seal).                        *)
SealedImmutable ==
  [][\A s \in Slots :
       Committed(s) /\ slot'[s].gen = slot[s].gen =>
         /\ \A f \in {"direct", "motion", "coverage"} :
                slot'[s][f] = slot[s][f]
         /\ slot'[s].state \in {"sealed", "queued"}]_vars
=============================================================================
