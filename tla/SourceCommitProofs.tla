------------------------- MODULE SourceCommitProofs -------------------------
(***************************************************************************)
(* Proofs about the source-commit pool: its records keep their types and a *)
(* read lease protects the commit it was taken on, for every number of     *)
(* slots, readers, resources and generations.                              *)
(***************************************************************************)
EXTENDS SourceCommit, FiniteSetTheorems, TLAPS

(* A freed slot is a well-formed record, under its old generation and under  *)
(* the next one.                                                             *)
LEMMA EmptySlotType ==
  ASSUME NEW g \in 0..GenLimit
  PROVE  /\ NextGeneration(g) \in 0..GenLimit
         /\ EmptySlot(g) \in SlotRecord
         /\ EmptySlot(NextGeneration(g)) \in SlotRecord
BY PoolAssumption DEF EmptySlot, SlotRecord, States, NextGeneration

(* Writing a well-formed record into one slot keeps the pool well-formed.    *)
LEMMA SetSlotType ==
  ASSUME slot \in [Slots -> SlotRecord], NEW s \in Slots,
         NEW record \in SlotRecord, SetSlot(s, record)
  PROVE  slot' \in [Slots -> SlotRecord]
BY DEF SetSlot

(* Every operation writes well-formed slots.                                 *)
LEMMA SlotTypeStep ==
  ASSUME PoolTypeOK, [Next]_vars
  PROVE  slot' \in [Slots -> SlotRecord]
<1> USE DEF PoolTypeOK
<1>0. ASSUME NEW s \in Slots PROVE slot[s] \in SlotRecord /\ slot[s].gen \in 0..GenLimit
  BY DEF SlotRecord
<1>1. ASSUME NEW s \in Slots, RejectSlot(s) PROVE slot' \in [Slots -> SlotRecord]
  BY <1>0, <1>1, EmptySlotType, SetSlotType DEF RejectSlot
<1>2. ASSUME NEW s \in Slots, Begin(s) PROVE slot' \in [Slots -> SlotRecord]
  <2> DEFINE gen == IF slot[s].gen = 0 THEN 1 ELSE slot[s].gen
             fresh == [EmptySlot(gen) EXCEPT !.state = "building"]
  <2>1. gen \in 0..GenLimit
    BY <1>0, PoolAssumption
  <2>2. fresh \in SlotRecord
    <3> HIDE DEF gen
    <3> QED
      BY <2>1 DEF EmptySlot, SlotRecord, States
  <2>3. SetSlot(s, fresh)
    BY <1>2 DEF Begin
  <2> QED
    BY <2>2, <2>3, SetSlotType
<1>3. ASSUME NEW h \in Handles PROVE h[1] \in Slots
  BY DEF Handles
<1>4. ASSUME NEW h \in Handles, AppendRecord(h) PROVE slot' \in [Slots -> SlotRecord]
  <2> DEFINE s == h[1]
  <2>0. s \in Slots /\ slot[s] \in SlotRecord
    BY <1>0, <1>3
  <2> HIDE DEF s
  <2>1. ASSUME NEW r \in Resources, AppendResource(h, r)
        PROVE  slot' \in [Slots -> SlotRecord]
    <3>1. [slot[s] EXCEPT !.direct[r] = @ + 1] \in SlotRecord
      BY <2>0 DEF SlotRecord
    <3> QED
      BY <2>0, <2>1, <3>1, SetSlotType DEF AppendResource, s
  <2>2. ASSUME NEW c \in Resources, AppendCoverage(h, c)
        PROVE  slot' \in [Slots -> SlotRecord]
    <3>1. [slot[s] EXCEPT !.coverage = @ \cup {c}] \in SlotRecord
      BY <2>0 DEF SlotRecord
    <3> QED
      BY <2>0, <2>2, <3>1, SetSlotType DEF AppendCoverage, s
  <2>3. ASSUME NEW c \in Resources, NEW m \in Resources, AppendDraw(h, c, m)
        PROVE  slot' \in [Slots -> SlotRecord]
    <3>1. [slot[s] EXCEPT !.coverage = @ \cup {c}, !.motion = @ \cup {m}] \in SlotRecord
      BY <2>0 DEF SlotRecord
    <3>2. \E record \in SlotRecord : SetSlot(s, record)
      BY <2>0, <2>3, <3>1 DEF AppendDraw, s
    <3> QED
      BY <2>0, <3>2, SetSlotType
  <2>4. ASSUME NEW m \in Resources, NEW mesh \in Resources,
               NEW geometry \in Resources, AppendMesh(h, m, mesh, geometry)
        PROVE  slot' \in [Slots -> SlotRecord]
    <3>1. \A d \in [Resources -> Nat] :
            [slot[s] EXCEPT !.motion = @ \cup {m}, !.direct = d] \in SlotRecord
      BY <2>0 DEF SlotRecord
    <3>2. \E d \in [Resources -> Nat] :
            SetSlot(s, [slot[s] EXCEPT !.motion = @ \cup {m}, !.direct = d])
      <4> DEFINE kept == Acquirable(mesh) /\ Acquirable(geometry)
                 d == [r \in Resources |-> IF kept /\ r \in {mesh, geometry}
                         THEN slot[s].direct[r] + 1 ELSE slot[s].direct[r]]
      <4>1. d \in [Resources -> Nat]
        BY <2>0 DEF SlotRecord
      <4>2. SetSlot(s, [slot[s] EXCEPT !.motion = @ \cup {m}, !.direct = d])
        BY <2>4 DEF AppendMesh, s
      <4> QED
        BY <4>1, <4>2
    <3> QED
      BY <2>0, <3>1, <3>2, SetSlotType
  <2> QED
    BY <1>4, <2>1, <2>2, <2>3, <2>4 DEF AppendRecord
<1>5. ASSUME NEW h \in Handles, Seal(h) \/ MarkQueued(h)
      PROVE  slot' \in [Slots -> SlotRecord]
  <2>1. \A st \in States : [slot[h[1]] EXCEPT !.state = st] \in SlotRecord
    BY <1>0, <1>3 DEF SlotRecord
  <2> QED
    BY <1>3, <1>5, <2>1, SetSlotType DEF Seal, MarkQueued, States
<1>6. ASSUME NEW h \in Handles, SealRejected(h) \/ Cancel(h) \/ Retire(h)
      PROVE  slot' \in [Slots -> SlotRecord]
  <2>1. [slot[h[1]] EXCEPT !.retirePending = TRUE] \in SlotRecord
    BY <1>0, <1>3 DEF SlotRecord
  <2> QED
    BY <1>1, <1>3, <1>6, <2>1, SetSlotType DEF SealRejected, Cancel, Retire
<1>7. ASSUME NEW h \in Handles, NEW t \in Readers, AcquireRead(t, h)
      PROVE  slot' \in [Slots -> SlotRecord]
  <2>1. \A n \in Nat : [slot[h[1]] EXCEPT !.readers = n] \in SlotRecord
    BY <1>0, <1>3 DEF SlotRecord
  <2>2. slot[h[1]].readers + 1 \in Nat
    BY <1>0, <1>3 DEF SlotRecord
  <2>3. SetSlot(h[1], [slot[h[1]] EXCEPT !.readers = slot[h[1]].readers + 1])
    BY <1>7 DEF AcquireRead
  <2> QED
    BY <1>3, <2>1, <2>2, <2>3, SetSlotType
<1>8. ASSUME NEW t \in Readers, ReleaseRead(t) PROVE slot' \in [Slots -> SlotRecord]
  <2>1. lease[t][1] \in Slots
    BY <1>8 DEF ReleaseRead, Handles
  <2>2. slot[lease[t][1]].readers > 0 =>
          [slot[lease[t][1]] EXCEPT !.readers = @ - 1] \in SlotRecord
    BY <1>0, <2>1 DEF SlotRecord
  <2> QED
    BY <1>1, <1>8, <2>1, <2>2, SetSlotType DEF ReleaseRead
<1>9. ASSUME CancelBuilders \/ Reset PROVE slot' \in [Slots -> SlotRecord]
  <2>1. \A s \in Slots : [slot[s] EXCEPT !.retirePending = TRUE] \in SlotRecord
    BY <1>0 DEF SlotRecord
  <2> QED
    BY <1>0, <1>9, <2>1, EmptySlotType DEF CancelBuilders, Reset
<1>10. ASSUME NEW r \in Resources, RetireCurrent(r) PROVE slot' \in [Slots -> SlotRecord]
  BY <1>10 DEF RetireCurrent
<1>11. CASE UNCHANGED vars
  BY <1>11 DEF vars
<1> QED
  BY <1>2, <1>4, <1>5, <1>6, <1>7, <1>8, <1>9, <1>10, <1>11 DEF Next

(* Every operation keeps slots, leases and the current set well-typed.       *)
LEMMA PoolTypeStep == PoolTypeOK /\ [Next]_vars => PoolTypeOK'
<1> SUFFICES ASSUME PoolTypeOK, [Next]_vars PROVE PoolTypeOK'
  OBVIOUS
<1>1. slot' \in [Slots -> SlotRecord]
  BY SlotTypeStep
<1>2. current' \subseteq Resources
  <2>1. ASSUME NEW h \in Handles, AppendRecord(h) PROVE current' = current
    BY <2>1 DEF AppendRecord, AppendResource, AppendCoverage, AppendDraw, AppendMesh
  <2>2. ASSUME NEW h \in Handles,
               Seal(h) \/ SealRejected(h) \/ Cancel(h) \/ MarkQueued(h) \/ Retire(h)
        PROVE  current' = current
    BY <2>2 DEF Seal, SealRejected, Cancel, MarkQueued, Retire
  <2>3. ASSUME NEW t \in Readers,
               ReleaseRead(t) \/ \E h \in Handles : AcquireRead(t, h)
        PROVE  current' = current
    BY <2>3 DEF ReleaseRead, AcquireRead
  <2>4. ASSUME NEW s \in Slots, Begin(s) PROVE current' = current
    BY <2>4 DEF Begin
  <2>5. ASSUME CancelBuilders \/ Reset \/ UNCHANGED vars PROVE current' = current
    BY <2>5 DEF CancelBuilders, Reset, vars
  <2>6. ASSUME NEW r \in Resources, RetireCurrent(r) PROVE current' \subseteq current
    BY <2>6 DEF RetireCurrent
  <2>7. current \subseteq Resources
    BY DEF PoolTypeOK
  <2> QED
    BY <2>1, <2>2, <2>3, <2>4, <2>5, <2>6, <2>7 DEF Next
<1>3. lease' \in [Readers -> Handles \cup {NoHandle}]
  <2>1. CASE \E t \in Readers, h \in Handles : AcquireRead(t, h)
    BY <2>1 DEF PoolTypeOK, AcquireRead
  <2>2. CASE \E t \in Readers : ReleaseRead(t)
    BY <2>2 DEF PoolTypeOK, ReleaseRead
  <2>3. CASE UNCHANGED lease
    BY <2>3 DEF PoolTypeOK
  <2>4. ASSUME NEW h \in Handles, AppendRecord(h) PROVE UNCHANGED lease
    BY <2>4 DEF AppendRecord, AppendResource, AppendCoverage, AppendDraw, AppendMesh
  <2>5. ASSUME NEW h \in Handles,
               Seal(h) \/ SealRejected(h) \/ Cancel(h) \/ MarkQueued(h) \/ Retire(h)
        PROVE  UNCHANGED lease
    BY <2>5 DEF Seal, SealRejected, Cancel, MarkQueued, Retire
  <2>6. ASSUME NEW s \in Slots, Begin(s) PROVE UNCHANGED lease
    BY <2>6 DEF Begin
  <2>7. ASSUME \/ CancelBuilders \/ Reset \/ UNCHANGED vars
               \/ \E r \in Resources : RetireCurrent(r)
        PROVE  UNCHANGED lease
    BY <2>7 DEF CancelBuilders, Reset, vars, RetireCurrent
  <2> QED
    BY <2>1, <2>2, <2>3, <2>4, <2>5, <2>6, <2>7 DEF Next
<1> QED
  BY <1>1, <1>2, <1>3 DEF PoolTypeOK

(* The pool's records, handles and leases have their types in every          *)
(* reachable state.                                                          *)
THEOREM PoolTyped == Spec => []PoolTypeOK
<1>1. Init => PoolTypeOK
  BY PoolAssumption, EmptySlotType DEF Init, PoolTypeOK
<1> QED
  BY <1>1, PoolTypeStep, PTL DEF Spec

---------------------------------------------------------------------------
(* The inductive invariant behind the lease guarantee: a lease pins its      *)
(* commit because the slot's reader count is exact, and the count is exact   *)
(* because no leased slot is ever freed.  Neither half is inductive alone.   *)
LeaseInv == PoolTypeOK /\ LeaseProtects /\ ReaderCount

(* What a step that takes and returns no lease may do to a slot: keep the    *)
(* commit (retiring it at most while it still has readers), or start afresh  *)
(* on a slot nobody leases.                                                  *)
Kept(s) == /\ slot'[s].gen = slot[s].gen
           /\ slot'[s].readers = slot[s].readers
           /\ Committed(s) => slot'[s].state \in {"sealed", "queued"}
           /\ slot'[s].retirePending =>
                slot[s].retirePending \/ slot[s].readers > 0
Fresh(s) == /\ Leasing(s) = {}
            /\ slot'[s].readers = 0
            /\ ~slot'[s].retirePending

LEMMA LeasingFinite ==
  ASSUME NEW s \in Slots
  PROVE  IsFiniteSet(Leasing(s)) /\ Cardinality(Leasing(s)) \in Nat
<1>1. Leasing(s) \subseteq Readers
  BY DEF Leasing
<1> QED
  BY <1>1, PoolAssumption, FS_Subset, FS_CardinalityType

(* A slot without readers, or one that is not a commit, has no lease on it.  *)
LEMMA NotLeased ==
  ASSUME LeaseInv, NEW s \in Slots, slot[s].readers = 0 \/ ~Committed(s)
  PROVE  Leasing(s) = {}
<1>1. CASE slot[s].readers = 0
  BY <1>1, LeasingFinite, FS_EmptySet DEF LeaseInv, ReaderCount
<1>2. CASE ~Committed(s)
  BY <1>2 DEF LeaseInv, LeaseProtects, Leasing
<1> QED
  BY <1>1, <1>2

LEMMA LeaseKept ==
  ASSUME LeaseInv, lease' = lease, \A s \in Slots : Kept(s) \/ Fresh(s)
  PROVE  LeaseProtects' /\ ReaderCount'
<1>1. \A s \in Slots : Leasing(s)' = Leasing(s)
  BY DEF Leasing
<1>2. LeaseProtects'
  <2> SUFFICES ASSUME NEW t \in Readers, lease[t] # NoHandle
               PROVE  (HandleSlot(lease[t]) /\ Committed(lease[t][1]))'
    BY DEF LeaseProtects
  <2>1. lease[t][1] \in Slots /\ HandleSlot(lease[t]) /\ Committed(lease[t][1])
    BY DEF LeaseInv, LeaseProtects, PoolTypeOK, Handles
  <2>2. Kept(lease[t][1])
    BY <2>1 DEF Fresh, Leasing
  <2> QED
    BY <2>1, <2>2 DEF Kept, HandleSlot, Occupied, Committed
<1>3. ReaderCount'
  <2> SUFFICES ASSUME NEW s \in Slots
               PROVE  /\ slot'[s].readers = Cardinality(Leasing(s)')
                      /\ slot'[s].retirePending => slot'[s].readers > 0
    BY DEF ReaderCount
  <2>1. CASE Kept(s)
    BY <1>1, <2>1 DEF Kept, LeaseInv, ReaderCount
  <2>2. CASE Fresh(s)
    BY <1>1, <2>2, FS_EmptySet DEF Fresh
  <2> QED
    BY <2>1, <2>2
<1> QED
  BY <1>2, <1>3

(* Freeing a slot that is not leased starts it afresh.                       *)
LEMMA RejectFresh ==
  ASSUME LeaseInv, NEW s \in Slots, RejectSlot(s),
         slot[s].readers = 0 \/ ~Committed(s)
  PROVE  \A i \in Slots : Kept(i) \/ Fresh(i)
<1>1. Fresh(s)
  BY NotLeased DEF Fresh, RejectSlot, SetSlot, EmptySlot, LeaseInv, PoolTypeOK
<1>2. \A i \in Slots \ {s} : slot'[i] = slot[i]
  BY DEF RejectSlot, SetSlot, LeaseInv, PoolTypeOK
<1> QED
  BY <1>1, <1>2 DEF Kept, Committed

(* Every operation that neither takes nor returns a lease keeps or starts    *)
(* afresh each slot.                                                         *)
LEMMA UnleasedStep ==
  ASSUME LeaseInv, [Next]_vars,
         ~ \E t \in Readers : ReleaseRead(t) \/ \E h \in Handles : AcquireRead(t, h)
  PROVE  lease' = lease /\ \A s \in Slots : Kept(s) \/ Fresh(s)
<1> USE DEF LeaseInv, PoolTypeOK
<1>0. ASSUME NEW h \in Handles PROVE h[1] \in Slots
  BY DEF Handles
<1>1. ASSUME NEW s \in Slots, Begin(s) PROVE \A i \in Slots : Kept(i) \/ Fresh(i)
  <2>1. Fresh(s)
    BY <1>1, NotLeased
    DEF Fresh, Begin, SetSlot, EmptySlot, Occupied, Committed
  <2>2. \A i \in Slots \ {s} : slot'[i] = slot[i]
    BY <1>1 DEF Begin, SetSlot
  <2> QED
    BY <2>1, <2>2 DEF Kept, Committed
<1>2. ASSUME NEW h \in Handles, AppendRecord(h)
      PROVE  \A i \in Slots : Kept(i) \/ Fresh(i)
  <2> DEFINE Same(i) == /\ slot'[i].gen = slot[i].gen
                        /\ slot'[i].readers = slot[i].readers
                        /\ slot'[i].state = slot[i].state
                        /\ slot'[i].retirePending = slot[i].retirePending
  <2>0. \A s \in Slots : slot[s] = [state |-> slot[s].state, gen |-> slot[s].gen,
            readers |-> slot[s].readers, retirePending |-> slot[s].retirePending,
            direct |-> slot[s].direct, motion |-> slot[s].motion,
            coverage |-> slot[s].coverage]
    BY DEF SlotRecord
  <2>1. ASSUME NEW r \in Resources, AppendResource(h, r) PROVE \A i \in Slots : Same(i)
    BY <1>0, <2>0, <2>1 DEF AppendResource, SetSlot
  <2>2. ASSUME NEW c \in Resources, AppendCoverage(h, c) PROVE \A i \in Slots : Same(i)
    BY <1>0, <2>0, <2>2 DEF AppendCoverage, SetSlot
  <2>3. ASSUME NEW c \in Resources, NEW m \in Resources, AppendDraw(h, c, m)
        PROVE  \A i \in Slots : Same(i)
    <3>1. \/ slot' = slot
          \/ SetSlot(h[1], [slot[h[1]] EXCEPT !.coverage = @ \cup {c},
                                              !.motion = @ \cup {m}])
      BY <1>0, <2>3 DEF AppendDraw, SetSlot
    <3>2. CASE slot' = slot
      BY <3>2
    <3>3. CASE SetSlot(h[1], [slot[h[1]] EXCEPT !.coverage = @ \cup {c},
                                               !.motion = @ \cup {m}])
      BY <1>0, <2>0, <3>3 DEF SetSlot
    <3> QED
      BY <3>1, <3>2, <3>3
  <2>4. ASSUME NEW m \in Resources, NEW mesh \in Resources,
               NEW geometry \in Resources, AppendMesh(h, m, mesh, geometry)
        PROVE  \A i \in Slots : Same(i)
    <3>1. \E d : SetSlot(h[1], [slot[h[1]] EXCEPT !.motion = @ \cup {m},
                                                 !.direct = d])
      BY <2>4 DEF AppendMesh
    <3> QED
      BY <1>0, <2>0, <3>1 DEF SetSlot
  <2>5. \A i \in Slots : Same(i)
    BY <1>2, <2>1, <2>2, <2>3, <2>4 DEF AppendRecord
  <2> QED
    BY <2>5 DEF Kept, Committed
<1>3. ASSUME NEW h \in Handles, Seal(h) \/ MarkQueued(h)
      PROVE  \A i \in Slots : Kept(i) \/ Fresh(i)
  BY <1>0, <1>3 DEF Seal, MarkQueued, SetSlot, Kept, SlotRecord, Committed
<1>4. ASSUME NEW h \in Handles, SealRejected(h) \/ Cancel(h)
      PROVE  \A i \in Slots : Kept(i) \/ Fresh(i)
  BY <1>0, <1>4, RejectFresh DEF SealRejected, Cancel, BuilderSlot, Committed
<1>5. ASSUME NEW h \in Handles, Retire(h)
      PROVE  \A i \in Slots : Kept(i) \/ Fresh(i)
  <2>1. CASE slot[h[1]].readers > 0
    BY <1>0, <1>5, <2>1 DEF Retire, SetSlot, Kept, SlotRecord, Committed
  <2>2. CASE ~(slot[h[1]].readers > 0)
    BY <1>0, <1>5, <2>2, RejectFresh DEF Retire, SlotRecord
  <2> QED
    BY <2>1, <2>2
<1>6. ASSUME CancelBuilders PROVE \A i \in Slots : Kept(i) \/ Fresh(i)
  <2> SUFFICES ASSUME NEW i \in Slots PROVE Kept(i) \/ Fresh(i)
    OBVIOUS
  <2>1. CASE i \in Builders
    BY <1>6, <2>1, NotLeased
    DEF CancelBuilders, Builders, Fresh, EmptySlot, Committed
  <2>2. CASE i \notin Builders
    BY <1>6, <2>2 DEF CancelBuilders, Kept, Committed
  <2> QED
    BY <2>1, <2>2
<1>7. ASSUME Reset PROVE \A i \in Slots : Kept(i) \/ Fresh(i)
  <2> SUFFICES ASSUME NEW i \in Slots PROVE Kept(i) \/ Fresh(i)
    OBVIOUS
  <2>1. CASE i \in LeasedSlots
    BY <1>7, <2>1 DEF Reset, LeasedSlots, Kept, Committed, SlotRecord
  <2>2. CASE i \notin LeasedSlots
    <3>1. slot[i].readers = 0 \/ ~Committed(i)
      BY <2>2 DEF LeasedSlots, Occupied, Committed, SlotRecord
    <3> QED
      BY <1>7, <2>2, <3>1, NotLeased DEF Reset, Fresh, EmptySlot
  <2> QED
    BY <2>1, <2>2
<1>8. ASSUME UNCHANGED slot PROVE \A i \in Slots : Kept(i) \/ Fresh(i)
  BY <1>8 DEF Kept, Committed
<1>9. lease' = lease
  <2>1. ASSUME NEW h \in Handles, AppendRecord(h) PROVE lease' = lease
    BY <2>1 DEF AppendRecord, AppendResource, AppendCoverage, AppendDraw, AppendMesh
  <2>2. ASSUME NEW h \in Handles,
               \/ Seal(h) \/ SealRejected(h) \/ Cancel(h)
               \/ MarkQueued(h) \/ Retire(h)
        PROVE  lease' = lease
    BY <2>2 DEF Seal, SealRejected, Cancel, MarkQueued, Retire
  <2> QED
    BY <2>1, <2>2 DEF Next, vars, Begin, CancelBuilders, Reset, RetireCurrent
<1> QED
  BY <1>1, <1>2, <1>3, <1>4, <1>5, <1>6, <1>7, <1>8, <1>9
  DEF Next, vars, RetireCurrent

(* Taking a lease raises the reader count of its slot by one.                *)
LEMMA AcquireStep ==
  ASSUME LeaseInv, NEW t \in Readers, NEW h \in Handles, AcquireRead(t, h)
  PROVE  LeaseProtects' /\ ReaderCount'
<1> USE DEF LeaseInv, PoolTypeOK
<1> DEFINE s == h[1]
<1>0. s \in Slots /\ h # NoHandle /\ lease' = [lease EXCEPT ![t] = h]
  BY PoolAssumption DEF Handles, AcquireRead
<1> HIDE DEF s
<1>1. /\ slot'[s].gen = slot[s].gen /\ slot'[s].state = slot[s].state
      /\ slot'[s].readers = slot[s].readers + 1
      /\ slot'[s].retirePending = slot[s].retirePending
      /\ \A i \in Slots \ {s} : slot'[i] = slot[i]
  <2>1. slot[s] \in SlotRecord
    BY <1>0
  <2> QED
    BY <1>0, <2>1 DEF AcquireRead, SetSlot, SlotRecord, s
<1>2. LeaseProtects'
  <2> SUFFICES ASSUME NEW u \in Readers, lease'[u] # NoHandle
               PROVE  (HandleSlot(lease[u]) /\ Committed(lease[u][1]))'
    BY DEF LeaseProtects
  <2>1. lease'[u] \in Handles /\ lease'[u][1] \in Slots
    BY <1>0 DEF Handles
  <2>2. HandleSlot(lease'[u]) /\ Committed(lease'[u][1])
    BY <1>0 DEF LeaseProtects, AcquireRead
  <2> QED
    BY <1>1, <2>1, <2>2 DEF HandleSlot, Occupied, Committed
<1>3. ReaderCount'
  <2> SUFFICES ASSUME NEW i \in Slots
               PROVE  /\ slot'[i].readers = Cardinality(Leasing(i)')
                      /\ slot'[i].retirePending => slot'[i].readers > 0
    BY DEF ReaderCount
  <2>1. CASE i # s
    <3>1. Leasing(i)' = Leasing(i)
      BY <1>0, <2>1 DEF Leasing, AcquireRead, s
    <3> QED
      BY <1>1, <2>1, <3>1 DEF ReaderCount
  <2>2. CASE i = s
    <3>1. Leasing(i)' = Leasing(i) \cup {t} /\ t \notin Leasing(i)
      BY <1>0, <2>2 DEF Leasing, AcquireRead, s
    <3>2. Cardinality(Leasing(i)') = Cardinality(Leasing(i)) + 1
      BY <3>1, LeasingFinite, FS_AddElement
    <3>3. slot'[i].readers > 0
      BY <1>1, <2>2, <3>2, LeasingFinite DEF ReaderCount
    <3> QED
      BY <1>1, <2>2, <3>2, <3>3 DEF ReaderCount
  <2> QED
    BY <2>1, <2>2
<1> QED
  BY <1>2, <1>3

(* Returning a lease lowers it by one, or frees the slot when it was the     *)
(* last lease of a retired commit.                                           *)
LEMMA ReleaseStep ==
  ASSUME LeaseInv, NEW t \in Readers, ReleaseRead(t)
  PROVE  LeaseProtects' /\ ReaderCount'
<1> USE DEF LeaseInv, PoolTypeOK
<1> PICK s \in Slots : s = lease[t][1]
  BY DEF Handles, ReleaseRead
<1>0. /\ s = lease[t][1] /\ lease[t] # NoHandle /\ slot[s] \in SlotRecord
      /\ lease' = [lease EXCEPT ![t] = NoHandle]
  BY DEF Handles, ReleaseRead
<1>1. HandleSlot(lease[t]) /\ Committed(s) /\ t \in Leasing(s)
  BY <1>0 DEF LeaseProtects, Leasing
<1>2. slot[s].readers = Cardinality(Leasing(s)) /\ slot[s].readers > 0
  <2>1. Cardinality(Leasing(s)) # 0
    BY <1>0, <1>1, LeasingFinite, FS_EmptySet
  <2> QED
    BY <1>0, <2>1, LeasingFinite DEF ReaderCount
<1>3. Leasing(s)' = Leasing(s) \ {t}
      /\ Cardinality(Leasing(s)') = slot[s].readers - 1
      /\ \A i \in Slots \ {s} : Leasing(i)' = Leasing(i)
  <2>1. Leasing(s)' = Leasing(s) \ {t} /\ \A i \in Slots \ {s} : Leasing(i)' = Leasing(i)
    BY <1>0 DEF Leasing
  <2>2. Cardinality(Leasing(s) \ {t}) = Cardinality(Leasing(s)) - 1
    BY <1>0, <1>1, LeasingFinite, FS_RemoveElement
  <2> QED
    BY <1>2, <2>1, <2>2
<1>4. CASE slot[s].readers = 1 /\ slot[s].retirePending
  <2>1. RejectSlot(s)
    BY <1>0, <1>1, <1>2, <1>4 DEF ReleaseRead
  <2>2. /\ slot'[s].readers = 0 /\ ~slot'[s].retirePending
        /\ \A i \in Slots \ {s} : slot'[i] = slot[i]
    BY <1>0, <2>1 DEF RejectSlot, SetSlot, EmptySlot
  <2>3. Leasing(s)' = {}
    BY <1>0, <1>3, <1>4, LeasingFinite, FS_Subset, FS_EmptySet
  <2>4. ReaderCount'
    <3> SUFFICES ASSUME NEW i \in Slots
                 PROVE  /\ slot'[i].readers = Cardinality(Leasing(i)')
                        /\ slot'[i].retirePending => slot'[i].readers > 0
      BY DEF ReaderCount
    <3>1. CASE i = s
      BY <1>3, <1>4, <2>2, <3>1
    <3>2. CASE i # s
      BY <1>3, <2>2, <3>2 DEF ReaderCount
    <3> QED
      BY <3>1, <3>2
  <2>5. LeaseProtects'
    <3> SUFFICES ASSUME NEW u \in Readers, lease'[u] # NoHandle
                 PROVE  (HandleSlot(lease[u]) /\ Committed(lease[u][1]))'
      BY DEF LeaseProtects
    <3>1. lease'[u] = lease[u] /\ lease[u][1] \in Slots \ {s}
      BY <1>0, <2>3 DEF Leasing, Handles
    <3> QED
      BY <2>2, <3>1 DEF LeaseProtects, HandleSlot, Occupied, Committed
  <2> QED
    BY <2>4, <2>5
<1>5. CASE ~(slot[s].readers = 1 /\ slot[s].retirePending)
  <2>1. /\ slot'[s].gen = slot[s].gen /\ slot'[s].state = slot[s].state
        /\ slot'[s].readers = slot[s].readers - 1
        /\ slot'[s].retirePending = slot[s].retirePending
        /\ \A i \in Slots \ {s} : slot'[i] = slot[i]
    BY <1>0, <1>1, <1>2, <1>5 DEF ReleaseRead, SetSlot, SlotRecord
  <2>2. ReaderCount'
    <3>1. slot[s].readers \in Nat
      BY <1>0 DEF SlotRecord
    <3>2. slot'[s].readers = Cardinality(Leasing(s)')
          /\ (slot'[s].retirePending => slot'[s].readers > 0)
      BY <1>2, <1>3, <1>5, <2>1, <3>1
    <3> QED
      BY <1>3, <2>1, <3>2 DEF ReaderCount
  <2>3. LeaseProtects'
    <3> SUFFICES ASSUME NEW u \in Readers, lease'[u] # NoHandle
                 PROVE  (HandleSlot(lease[u]) /\ Committed(lease[u][1]))'
      BY DEF LeaseProtects
    <3>1. lease'[u] = lease[u] /\ lease[u][1] \in Slots
      BY <1>0 DEF Handles
    <3> QED
      BY <2>1, <3>1 DEF LeaseProtects, HandleSlot, Occupied, Committed
  <2> QED
    BY <2>2, <2>3
<1> QED
  BY <1>4, <1>5

(* A reader's lease pins its commit, and reader counts are exact, in every   *)
(* reachable state.                                                          *)
THEOREM LeaseSafety == Spec => []LeaseProtects /\ []ReaderCount
<1>1. Init => LeaseInv
  <2>1. Init => LeaseProtects /\ PoolTypeOK
    BY PoolAssumption, EmptySlotType DEF Init, PoolTypeOK, LeaseProtects
  <2>2. Init => ReaderCount
    <3> SUFFICES ASSUME Init, NEW s \in Slots
                 PROVE  /\ slot[s].readers = Cardinality(Leasing(s))
                        /\ ~slot[s].retirePending
      BY DEF ReaderCount
    <3>1. Leasing(s) = {}
      BY DEF Init, Leasing
    <3> QED
      BY <3>1, FS_EmptySet DEF Init, EmptySlot
  <2> QED
    BY <2>1, <2>2 DEF LeaseInv
<1>2. LeaseInv /\ [Next]_vars => LeaseInv'
  <2> SUFFICES ASSUME LeaseInv, [Next]_vars PROVE LeaseInv'
    OBVIOUS
  <2>1. PoolTypeOK'
    BY PoolTypeStep DEF LeaseInv
  <2>2. CASE \E t \in Readers : ReleaseRead(t) \/ \E h \in Handles : AcquireRead(t, h)
    BY <2>1, <2>2, AcquireStep, ReleaseStep DEF LeaseInv
  <2>3. CASE ~ \E t \in Readers : ReleaseRead(t) \/ \E h \in Handles : AcquireRead(t, h)
    BY <2>1, <2>3, UnleasedStep, LeaseKept DEF LeaseInv
  <2> QED
    BY <2>2, <2>3
<1>3. LeaseInv => LeaseProtects /\ ReaderCount
  BY DEF LeaseInv
<1> QED
  BY <1>1, <1>2, <1>3, PTL DEF Spec

---------------------------------------------------------------------------
(* What one step may do to a sealed commit whose handle stays valid.         *)
Immutable(s) ==
  Committed(s) /\ slot'[s].gen = slot[s].gen =>
    /\ \A f \in {"direct", "motion", "coverage"} : slot'[s][f] = slot[s][f]
    /\ slot'[s].state \in {"sealed", "queued"}

(* Writing a slot that is no commit, or freeing it, leaves commits alone:    *)
(* freeing always advances the generation.                                   *)
LEMMA WriteImmutable ==
  ASSUME PoolTypeOK, NEW s \in Slots, NEW record, SetSlot(s, record),
         \/ ~Committed(s)
         \/ record = EmptySlot(NextGeneration(slot[s].gen))
  PROVE  \A i \in Slots : Immutable(i)
<1>1. \A i \in Slots \ {s} : slot'[i] = slot[i]
  BY DEF SetSlot, PoolTypeOK
<1>2. Immutable(s)
  <2>1. slot[s].gen \in 0..GenLimit
    BY DEF PoolTypeOK, SlotRecord
  <2>2. NextGeneration(slot[s].gen) # slot[s].gen
    BY <2>1, PoolAssumption DEF NextGeneration
  <2>3. CASE record = EmptySlot(NextGeneration(slot[s].gen))
    BY <2>2, <2>3 DEF SetSlot, PoolTypeOK, EmptySlot, Immutable
  <2> QED
    BY <2>3 DEF Immutable
<1> QED
  BY <1>1, <1>2 DEF Immutable, Committed

(* No operation alters a sealed commit under a valid handle.                 *)
LEMMA ImmutableStep ==
  ASSUME PoolTypeOK, [Next]_vars
  PROVE  \A s \in Slots : Immutable(s)
<1> USE DEF PoolTypeOK
<1>0. ASSUME NEW h \in Handles PROVE h[1] \in Slots
  BY DEF Handles
<1>1. ASSUME NEW s \in Slots, RejectSlot(s) PROVE \A i \in Slots : Immutable(i)
  BY <1>1, WriteImmutable DEF RejectSlot
<1>2. ASSUME NEW s \in Slots, Begin(s) PROVE \A i \in Slots : Immutable(i)
  BY <1>2, WriteImmutable DEF Begin, Occupied, Committed
<1>3. ASSUME NEW h \in Handles, AppendRecord(h) PROVE \A i \in Slots : Immutable(i)
  <2>1. BuilderSlot(h) /\ \E record : SetSlot(h[1], record)
    BY <1>3 DEF AppendRecord, AppendResource, AppendCoverage, AppendDraw, AppendMesh
  <2> QED
    BY <1>0, <2>1, WriteImmutable DEF BuilderSlot, Committed
<1>4. ASSUME NEW h \in Handles, Seal(h) PROVE \A i \in Slots : Immutable(i)
  BY <1>0, <1>4, WriteImmutable DEF Seal, BuilderSlot, Committed
<1>5. ASSUME NEW h \in Handles, SealRejected(h) \/ Cancel(h)
      PROVE  \A i \in Slots : Immutable(i)
  BY <1>0, <1>1, <1>5 DEF SealRejected, Cancel
<1>6. ASSUME NEW s \in Slots, slot[s] \in SlotRecord,
             \/ SetSlot(s, [slot[s] EXCEPT !.state = "queued"])
             \/ SetSlot(s, [slot[s] EXCEPT !.retirePending = TRUE])
             \/ \E n : SetSlot(s, [slot[s] EXCEPT !.readers = n])
      PROVE  \A i \in Slots : Immutable(i)
  <2>1. \A i \in Slots \ {s} : slot'[i] = slot[i]
    BY <1>6 DEF SetSlot
  <2>2. CASE SetSlot(s, [slot[s] EXCEPT !.state = "queued"])
    BY <1>6, <2>1, <2>2 DEF SetSlot, Immutable, Committed, SlotRecord
  <2>3. CASE SetSlot(s, [slot[s] EXCEPT !.retirePending = TRUE])
    BY <1>6, <2>1, <2>3 DEF SetSlot, Immutable, Committed, SlotRecord
  <2>4. ASSUME NEW n, SetSlot(s, [slot[s] EXCEPT !.readers = n])
        PROVE  \A i \in Slots : Immutable(i)
    BY <1>6, <2>1, <2>4 DEF SetSlot, Immutable, Committed, SlotRecord
  <2> QED
    BY <1>6, <2>2, <2>3, <2>4
<1>7. ASSUME NEW h \in Handles, MarkQueued(h) \/ Retire(h) \/ \E t \in Readers : AcquireRead(t, h)
      PROVE  \A i \in Slots : Immutable(i)
  BY <1>0, <1>1, <1>6, <1>7 DEF MarkQueued, Retire, AcquireRead
<1>8. ASSUME NEW t \in Readers, ReleaseRead(t) PROVE \A i \in Slots : Immutable(i)
  <2>1. lease[t][1] \in Slots
    BY <1>8 DEF ReleaseRead, Handles
  <2>2. CASE UNCHANGED slot
    BY <2>2 DEF Immutable, Committed
  <2> QED
    BY <1>1, <1>6, <1>8, <2>1, <2>2 DEF ReleaseRead
<1>9. ASSUME CancelBuilders PROVE \A i \in Slots : Immutable(i)
  BY <1>9 DEF CancelBuilders, Builders, Committed, Immutable
<1>10. ASSUME Reset PROVE \A i \in Slots : Immutable(i)
  <2>1. \A s \in Slots : NextGeneration(slot[s].gen) # slot[s].gen
    BY PoolAssumption DEF NextGeneration, SlotRecord
  <2>2. ASSUME NEW i \in Slots, i \in LeasedSlots PROVE Immutable(i)
    BY <1>10, <2>2 DEF Reset, Immutable, Committed, SlotRecord
  <2>3. ASSUME NEW i \in Slots, i \notin LeasedSlots PROVE Immutable(i)
    BY <1>10, <2>1, <2>3 DEF Reset, Immutable, EmptySlot
  <2> QED
    BY <2>2, <2>3
<1>11. ASSUME UNCHANGED slot PROVE \A i \in Slots : Immutable(i)
  BY <1>11 DEF Immutable, Committed
<1> QED
  BY <1>2, <1>3, <1>4, <1>5, <1>7, <1>8, <1>9, <1>10, <1>11
  DEF Next, vars, RetireCurrent

(* A sealed commit never changes under a valid handle.                       *)
THEOREM SealedCommitsImmutable == Spec => SealedImmutable
<1>1. PoolTypeOK /\ [Next]_vars =>
        [\A s \in Slots :
           Committed(s) /\ slot'[s].gen = slot[s].gen =>
             /\ \A f \in {"direct", "motion", "coverage"} :
                    slot'[s][f] = slot[s][f]
             /\ slot'[s].state \in {"sealed", "queued"}]_vars
  BY ImmutableStep DEF Immutable
<1> QED
  BY <1>1, PoolTyped, PTL DEF Spec, SealedImmutable
---------------------------------------------------------------------------
(* Counting the references of a set of slots.  Weights(S, f) is a set with   *)
(* f[s] elements for every s in S; References is the case f = HeldBy.        *)
Weights(S, f) == UNION {{s} \X (1..f[s]) : s \in S}

LEMMA WeightsFinite ==
  ASSUME NEW S, IsFiniteSet(S), NEW f, \A s \in S : f[s] \in Nat
  PROVE  IsFiniteSet(Weights(S, f)) /\ Cardinality(Weights(S, f)) \in Nat
<1> DEFINE T == {{s} \X (1..f[s]) : s \in S}
           g == [s \in S |-> {s} \X (1..f[s])]
<1>1. IsFiniteSet(T)
  <2>1. g \in Surjection(S, T)
    BY DEF Surjection
  <2> QED
    BY ONLY <2>1, IsFiniteSet(S), FS_Surjection
<1>2. ASSUME NEW s \in S PROVE IsFiniteSet({s} \X (1..f[s]))
  <2>1. IsFiniteSet({s})
    BY ONLY FS_Singleton, Zenon
  <2>2. f[s] \in Int /\ 1 \in Int
    OBVIOUS
  <2>3. IsFiniteSet(1..f[s])
    BY ONLY <2>2, FS_Interval
  <2> QED
    BY ONLY <2>1, <2>3, FS_Product
<1>3. \A U \in T : IsFiniteSet(U)
  BY <1>2
<1>4. IsFiniteSet(UNION T)
  <2> HIDE DEF T
  <2> QED
    BY ONLY <1>1, <1>3, FS_UNION
<1> QED
  BY <1>4, FS_CardinalityType DEF Weights

LEMMA WeightOfOne ==
  ASSUME NEW s, NEW f, f[s] \in Nat
  PROVE  Cardinality(Weights({s}, f)) = f[s]
<1>1. Weights({s}, f) = {s} \X (1..f[s])
  BY DEF Weights
<1>2. IsFiniteSet({s}) /\ Cardinality({s}) = 1
  BY ONLY FS_Singleton, Zenon
<1>3. IsFiniteSet(1..f[s]) /\ Cardinality(1..f[s]) = f[s]
  <2>1. f[s] \in Int /\ 1 \in Int
    OBVIOUS
  <2>2. /\ IsFiniteSet(1..f[s])
        /\ Cardinality(1..f[s]) = IF 1 > f[s] THEN 0 ELSE f[s] - 1 + 1
    BY ONLY <2>1, FS_Interval
  <2> QED
    BY <2>2
<1>4. Cardinality({s} \X (1..f[s])) = Cardinality({s}) * Cardinality(1..f[s])
  BY ONLY <1>2, <1>3, FS_Product
<1>5. Cardinality({s} \X (1..f[s])) = 1 * f[s]
  BY ONLY <1>2, <1>3, <1>4
<1>6. 1 * f[s] = f[s]
  OBVIOUS
<1> QED
  BY ONLY <1>1, <1>5, <1>6

LEMMA WeightOfNone ==
  ASSUME NEW S, NEW f, \A s \in S : f[s] = 0
  PROVE  Cardinality(Weights(S, f)) = 0
<1>1. \A s \in S : {s} \X (1..f[s]) = {}
  OBVIOUS
<1>2. Weights(S, f) = {}
  BY <1>1 DEF Weights
<1> QED
  BY <1>2, FS_EmptySet

LEMMA WeightsSplit ==
  ASSUME NEW S, IsFiniteSet(S), NEW T \in SUBSET S, NEW f, \A s \in S : f[s] \in Nat
  PROVE  Cardinality(Weights(S, f)) =
           Cardinality(Weights(T, f)) + Cardinality(Weights(S \ T, f))
<1>1. IsFiniteSet(T) /\ IsFiniteSet(S \ T)
  BY FS_Subset, FS_Difference
<1>2. /\ IsFiniteSet(Weights(T, f)) /\ Cardinality(Weights(T, f)) \in Nat
      /\ IsFiniteSet(Weights(S \ T, f)) /\ Cardinality(Weights(S \ T, f)) \in Nat
  BY <1>1, WeightsFinite
<1>3. Weights(S, f) = Weights(T, f) \cup Weights(S \ T, f)
  BY DEF Weights
<1>4. Weights(T, f) \cap Weights(S \ T, f) = {}
  BY DEF Weights
<1>5. Cardinality(Weights(T, f) \cup Weights(S \ T, f)) =
        Cardinality(Weights(T, f)) + Cardinality(Weights(S \ T, f)) - Cardinality({})
  BY ONLY <1>2, <1>4, FS_Union
<1> QED
  BY ONLY <1>2, <1>3, <1>5, FS_EmptySet

(* When only the slots in S change, the count changes by what S held and     *)
(* now holds.                                                                *)
LEMMA WeightsChange ==
  ASSUME NEW U, IsFiniteSet(U), NEW S \in SUBSET U, NEW f, NEW g,
         \A s \in U : f[s] \in Nat /\ g[s] \in Nat,
         \A s \in U \ S : g[s] = f[s]
  PROVE  Cardinality(Weights(U, g)) = Cardinality(Weights(U, f))
           - Cardinality(Weights(S, f)) + Cardinality(Weights(S, g))
<1>1. Weights(U \ S, g) = Weights(U \ S, f)
  BY DEF Weights
<1>2. Cardinality(Weights(U, f)) =
        Cardinality(Weights(S, f)) + Cardinality(Weights(U \ S, f))
  BY WeightsSplit
<1>3. Cardinality(Weights(U, g)) =
        Cardinality(Weights(S, g)) + Cardinality(Weights(U \ S, g))
  BY WeightsSplit
<1>4. IsFiniteSet(S) /\ IsFiniteSet(U \ S)
  BY FS_Subset, FS_Difference
<1>5. /\ Cardinality(Weights(S, f)) \in Nat
      /\ Cardinality(Weights(S, g)) \in Nat
      /\ Cardinality(Weights(U \ S, f)) \in Nat
  BY <1>4, WeightsFinite
<1> QED
  BY <1>1, <1>2, <1>3, <1>5

(* What the slots hold of r, as a function of the slot.                      *)
Holds(r) == [s \in Slots |-> HeldBy(s, r)]

LEMMA HoldsNat ==
  ASSUME PoolTypeOK, NEW r \in Resources, NEW s \in Slots
  PROVE  HeldBy(s, r) \in Nat /\ Holds(r)[s] = HeldBy(s, r)
BY DEF PoolTypeOK, SlotRecord, HeldBy, Holds

LEMMA ReferencesAreWeights ==
  ASSUME NEW r, NEW S \in SUBSET Slots
  PROVE  References(S, r) = Weights(S, Holds(r))
BY DEF References, Weights, Holds

---------------------------------------------------------------------------
(* Reference counting.  The counts balance only because a free slot holds    *)
(* nothing: begin clears a slot's record without releasing anything.         *)
FreeHoldsNothing ==
  \A s \in Slots : ~Occupied(s) => \A r \in Resources : HeldBy(s, r) = 0
BalanceInv == TypeOK /\ FreeHoldsNothing /\ RefsBalanced

(* A step that changes the slots in S only.                                  *)
LEMMA ReferencesChange ==
  ASSUME PoolTypeOK, PoolTypeOK', NEW S \in SUBSET Slots, NEW r \in Resources,
         \A s \in Slots \ S : HeldBy(s, r)' = HeldBy(s, r)
  PROVE  Cardinality(References(Slots, r))' = Cardinality(References(Slots, r))
           - Cardinality(References(S, r)) + Cardinality(References(S, r))'
<1> DEFINE f == Holds(r)
           g == [s \in Slots |-> HeldBy(s, r)']
<1>1. \A s \in Slots : f[s] \in Nat /\ g[s] \in Nat
  <2>1. \A s \in Slots : HeldBy(s, r)' \in Nat
    BY DEF PoolTypeOK, SlotRecord, HeldBy
  <2> QED
    BY <2>1, HoldsNat
<1>2. \A s \in Slots \ S : g[s] = f[s]
  BY HoldsNat
<1>3. ASSUME NEW T \in SUBSET Slots
      PROVE  References(T, r) = Weights(T, f) /\ References(T, r)' = Weights(T, g)
  BY DEF References, Weights, Holds
<1> HIDE DEF f, g
<1>4. Cardinality(Weights(Slots, g)) = Cardinality(Weights(Slots, f))
        - Cardinality(Weights(S, f)) + Cardinality(Weights(S, g))
  BY <1>1, <1>2, PoolAssumption, WeightsChange
<1>5. References(Slots, r)' = Weights(Slots, g) /\ References(S, r)' = Weights(S, g)
  BY <1>3
<1> QED
  BY <1>3, <1>4, <1>5

LEMMA OneSlotChange ==
  ASSUME PoolTypeOK, PoolTypeOK', NEW s \in Slots, NEW r \in Resources,
         \A i \in Slots \ {s} : slot'[i] = slot[i]
  PROVE  Cardinality(References(Slots, r))' =
           Cardinality(References(Slots, r)) - HeldBy(s, r) + HeldBy(s, r)'
<1>1. \A i \in Slots \ {s} : HeldBy(i, r)' = HeldBy(i, r)
  BY DEF HeldBy
<1>2. Cardinality(References(Slots, r))' = Cardinality(References(Slots, r))
        - Cardinality(References({s}, r)) + Cardinality(References({s}, r))'
  BY <1>1, ReferencesChange
<1>3. Cardinality(References({s}, r)) = HeldBy(s, r)
  <2>1. References({s}, r) = Weights({s}, Holds(r))
    BY DEF References, Weights, Holds
  <2> QED
    BY <2>1, HoldsNat, WeightOfOne
<1>4. Cardinality(References({s}, r))' = HeldBy(s, r)'
  <2> DEFINE g == [i \in {s} |-> HeldBy(s, r)']
  <2>1. References({s}, r)' = Weights({s}, g)
    BY DEF References, Weights
  <2>2. HeldBy(s, r)' \in Nat
    BY DEF PoolTypeOK, SlotRecord, HeldBy
  <2>3. g[s] = HeldBy(s, r)'
    OBVIOUS
  <2> HIDE DEF g
  <2>4. Cardinality(Weights({s}, g)) = g[s]
    BY <2>2, <2>3, WeightOfOne
  <2> QED
    BY <2>1, <2>3, <2>4
<1> QED
  BY <1>2, <1>3, <1>4

(* Writing one slot keeps the balance when the counts change by as much as   *)
(* the slot's holdings.                                                      *)
LEMMA WriteBalances ==
  ASSUME BalanceInv, PoolTypeOK', NEW s \in Slots,
         \A i \in Slots \ {s} : slot'[i] = slot[i],
         refs' = [r \in Resources |-> refs[r] - HeldBy(s, r) + HeldBy(s, r)'],
         Occupied(s)' \/ \A r \in Resources : HeldBy(s, r)' = 0
  PROVE  BalanceInv'
<1> USE DEF BalanceInv, TypeOK
<1>1. RefsBalanced'
  <2> SUFFICES ASSUME NEW r \in Resources
               PROVE  refs'[r] = Cardinality(References(Slots, r))'
    BY DEF RefsBalanced
  <2>1. refs[r] = Cardinality(References(Slots, r))
    BY DEF RefsBalanced
  <2>2. Cardinality(References(Slots, r))' =
          Cardinality(References(Slots, r)) - HeldBy(s, r) + HeldBy(s, r)'
    BY OneSlotChange
  <2> QED
    BY <2>1, <2>2
<1>2. FreeHoldsNothing'
  <2> SUFFICES ASSUME NEW i \in Slots, ~Occupied(i)', NEW r \in Resources
               PROVE  HeldBy(i, r)' = 0
    BY DEF FreeHoldsNothing
  <2>1. CASE i = s
    BY <2>1
  <2>2. CASE i # s
    BY <2>2 DEF FreeHoldsNothing, Occupied, HeldBy
  <2> QED
    BY <2>1, <2>2
<1>3. refs' \in [Resources -> Nat]
  <2> SUFFICES ASSUME NEW r \in Resources PROVE refs'[r] \in Nat
    OBVIOUS
  <2>1. HeldBy(s, r)' \in Nat
    BY DEF PoolTypeOK, SlotRecord, HeldBy
  <2>2. refs'[r] = Cardinality(References(Slots, r))'
    BY <1>1 DEF RefsBalanced
  <2> DEFINE g == [i \in Slots |-> HeldBy(i, r)']
  <2>3. \A i \in Slots : g[i] \in Nat
    BY DEF PoolTypeOK, SlotRecord, HeldBy
  <2>4. References(Slots, r)' = Weights(Slots, g)
    BY DEF References, Weights
  <2> HIDE DEF g
  <2> QED
    BY <2>2, <2>3, <2>4, PoolAssumption, WeightsFinite
<1> QED
  BY <1>1, <1>2, <1>3
(* Freeing a set of slots together gives back exactly what they held.        *)
LEMMA FreeBalances ==
  ASSUME BalanceInv, PoolTypeOK', NEW S \in SUBSET Slots,
         refs' = Released(S),
         \A s \in S : \A r \in Resources : HeldBy(s, r)' = 0,
         \A s \in Slots \ S : \A r \in Resources : HeldBy(s, r)' = HeldBy(s, r),
         \A s \in Slots \ S : Occupied(s)' = Occupied(s)
  PROVE  BalanceInv'
<1> USE DEF BalanceInv, TypeOK
<1>1. ASSUME NEW r \in Resources
      PROVE  /\ refs'[r] = Cardinality(References(Slots, r))'
             /\ refs'[r] \in Nat
  <2> DEFINE g == [i \in Slots |-> HeldBy(i, r)']
  <2>1. Cardinality(References(Slots, r))' = Cardinality(References(Slots, r))
          - Cardinality(References(S, r)) + Cardinality(References(S, r))'
    BY ReferencesChange
  <2>2. References(S, r)' = Weights(S, g) /\ References(Slots, r)' = Weights(Slots, g)
    BY DEF References, Weights
  <2>3. \A i \in S : g[i] = 0
    OBVIOUS
  <2>4. \A i \in Slots : g[i] \in Nat
    BY DEF PoolTypeOK, SlotRecord, HeldBy
  <2> HIDE DEF g
  <2>5. Cardinality(Weights(S, g)) = 0
    BY ONLY <2>3, WeightOfNone
  <2>6. Cardinality(Weights(Slots, g)) \in Nat
    BY ONLY <2>4, PoolAssumption, WeightsFinite
  <2>7. Cardinality(References(S, r)) \in Nat
    <3>1. IsFiniteSet(S)
      BY PoolAssumption, FS_Subset
    <3>2. \A i \in S : Holds(r)[i] \in Nat
      BY HoldsNat
    <3>3. Cardinality(Weights(S, Holds(r))) \in Nat
      BY ONLY <3>1, <3>2, WeightsFinite
    <3> QED
      BY <3>3, ReferencesAreWeights
  <2>8. refs'[r] = refs[r] - Cardinality(References(S, r))
    BY DEF Released
  <2>9. refs[r] = Cardinality(References(Slots, r)) /\ refs[r] \in Nat
    BY DEF RefsBalanced
  <2>10. refs'[r] = Cardinality(References(Slots, r))'
    BY <2>1, <2>2, <2>5, <2>7, <2>8, <2>9
  <2> QED
    BY <2>2, <2>6, <2>10
<1>2. refs' \in [Resources -> Nat]
  BY <1>1 DEF Released
<1>3. FreeHoldsNothing'
  BY DEF FreeHoldsNothing
<1> QED
  BY <1>1, <1>2, <1>3 DEF RefsBalanced

(* release_resources and the reset of the record, for one slot.              *)
LEMMA RejectBalances ==
  ASSUME BalanceInv, PoolTypeOK', NEW s \in Slots, RejectSlot(s)
  PROVE  BalanceInv'
<1>1. \A i \in Slots \ {s} : slot'[i] = slot[i]
  BY DEF RejectSlot, SetSlot, BalanceInv, TypeOK, PoolTypeOK
<1>2. slot'[s] = EmptySlot(NextGeneration(slot[s].gen))
  BY DEF RejectSlot, SetSlot, BalanceInv, TypeOK, PoolTypeOK
<1>3. \A i \in {s} : \A r \in Resources : HeldBy(i, r)' = 0
  BY <1>2 DEF HeldBy, EmptySlot
<1>4. \A i \in Slots \ {s} : /\ \A r \in Resources : HeldBy(i, r)' = HeldBy(i, r)
                             /\ Occupied(i)' = Occupied(i)
  BY <1>1 DEF HeldBy, Occupied
<1>5. refs' = Released({s})
  BY DEF RejectSlot
<1> QED
  BY <1>3, <1>4, <1>5, FreeBalances

(* Writing the bookkeeping of an occupied slot moves no reference.           *)
LEMMA BookkeepingBalances ==
  ASSUME BalanceInv, PoolTypeOK', UNCHANGED refs,
         \A s \in Slots : /\ \A r \in Resources : HeldBy(s, r)' = HeldBy(s, r)
                          /\ ~Occupied(s)' => ~Occupied(s)
  PROVE  BalanceInv'
<1>1. \A r \in Resources : References(Slots, r)' = References(Slots, r)
  BY DEF References
<1> QED
  BY <1>1 DEF BalanceInv, TypeOK, RefsBalanced, FreeHoldsNothing

(* An append writes its builder slot and takes the references it counts.     *)
LEMMA AppendBalances ==
  ASSUME BalanceInv, PoolTypeOK', NEW h \in Handles, AppendRecord(h)
  PROVE  BalanceInv'
<1> DEFINE s == h[1]
<1>0. /\ s \in Slots /\ slot[s] \in SlotRecord /\ slot[s].state \in States
      /\ refs \in [Resources -> Nat] /\ slot \in [Slots -> SlotRecord]
  BY DEF Handles, BalanceInv, TypeOK, PoolTypeOK, SlotRecord
<1>h. BuilderSlot(h) <=> slot[s].state = "building" /\ slot[s].gen = h[2]
  BY DEF BuilderSlot
<1> HIDE DEF s
<1>1. ASSUME NEW r \in Resources, AppendResource(h, r) PROVE BalanceInv'
  <2>1. SetSlot(s, [slot[s] EXCEPT !.direct[r] = @ + 1])
        /\ refs' = [refs EXCEPT ![r] = @ + 1] /\ slot[s].state = "building"
    BY <1>1, <1>h DEF AppendResource, s
  <2>2. /\ \A i \in Slots \ {s} : slot'[i] = slot[i]
        /\ slot'[s] = [slot[s] EXCEPT !.direct[r] = @ + 1]
    BY <1>0, <2>1 DEF SetSlot
  <2>3. /\ Occupied(s)'
        /\ slot'[s].motion = slot[s].motion /\ slot'[s].coverage = slot[s].coverage
        /\ slot'[s].direct = [slot[s].direct EXCEPT ![r] = @ + 1]
    BY <1>0, <2>1, <2>2 DEF SlotRecord, Occupied
  <2>4. ASSUME NEW x \in Resources
        PROVE  HeldBy(s, x)' = HeldBy(s, x) + (IF x = r THEN 1 ELSE 0)
    BY <1>0, <2>3 DEF HeldBy, SlotRecord
  <2>5. \A x \in Resources : HeldBy(s, x) \in Nat
    BY <1>0, HoldsNat DEF BalanceInv, TypeOK
  <2>6. refs' = [x \in Resources |-> refs[x] - HeldBy(s, x) + HeldBy(s, x)']
    <3>0. refs' = [refs EXCEPT ![r] = refs[r] + 1] /\ refs \in [Resources -> Nat]
      BY <1>0, <2>1
    <3>1. ASSUME NEW x \in Resources
          PROVE  refs'[x] = refs[x] + (IF x = r THEN 1 ELSE 0) /\ refs[x] \in Nat
      BY ONLY <3>0
    <3>2. ASSUME NEW x \in Resources
          PROVE  refs'[x] = refs[x] - HeldBy(s, x) + HeldBy(s, x)'
      BY <3>1, <2>4, <2>5
    <3>3. refs' = [x \in Resources |-> refs'[x]]
      BY ONLY <3>0
    <3> QED
      BY <3>2, <3>3
  <2> QED
    BY <1>0, <2>2, <2>3, <2>6, WriteBalances
<1>2. ASSUME NEW c \in Resources, AppendCoverage(h, c) PROVE BalanceInv'
  <2>1. SetSlot(s, [slot[s] EXCEPT !.coverage = @ \cup {c}])
        /\ refs' = [refs EXCEPT ![c] = @ + 1]
        /\ slot[s].state = "building" /\ c \notin slot[s].coverage
    BY <1>2, <1>h DEF AppendCoverage, s
  <2>2. /\ \A i \in Slots \ {s} : slot'[i] = slot[i]
        /\ slot'[s] = [slot[s] EXCEPT !.coverage = @ \cup {c}]
    BY <1>0, <2>1 DEF SetSlot
  <2>3. /\ Occupied(s)'
        /\ slot'[s].motion = slot[s].motion /\ slot'[s].direct = slot[s].direct
        /\ slot'[s].coverage = slot[s].coverage \cup {c}
    BY <1>0, <2>1, <2>2 DEF SlotRecord, Occupied
  <2>4. ASSUME NEW x \in Resources
        PROVE  HeldBy(s, x)' = HeldBy(s, x) + (IF x = c THEN 1 ELSE 0)
    BY <1>0, <2>1, <2>3 DEF HeldBy, SlotRecord
  <2>5. \A x \in Resources : HeldBy(s, x) \in Nat
    BY <1>0, HoldsNat DEF BalanceInv, TypeOK
  <2>6. refs' = [x \in Resources |-> refs[x] - HeldBy(s, x) + HeldBy(s, x)']
    <3>0. refs' = [refs EXCEPT ![c] = refs[c] + 1] /\ refs \in [Resources -> Nat]
      BY <1>0, <2>1
    <3>1. ASSUME NEW x \in Resources
          PROVE  refs'[x] = refs[x] + (IF x = c THEN 1 ELSE 0) /\ refs[x] \in Nat
      BY ONLY <3>0
    <3>2. ASSUME NEW x \in Resources
          PROVE  refs'[x] = refs[x] - HeldBy(s, x) + HeldBy(s, x)'
      BY <3>1, <2>4, <2>5
    <3>3. refs' = [x \in Resources |-> refs'[x]]
      BY ONLY <3>0
    <3> QED
      BY <3>2, <3>3
  <2> QED
    BY <1>0, <2>2, <2>3, <2>6, WriteBalances
<1>3. ASSUME NEW c \in Resources, NEW m \in Resources, AppendDraw(h, c, m)
      PROVE  BalanceInv'
  <2> DEFINE newC == c \notin slot[s].coverage
             newM == m \notin slot[s].motion
             kept == newM => Acquirable(m)
  <2>1. /\ SetSlot(s, IF kept THEN [slot[s] EXCEPT !.coverage = @ \cup {c},
                                                  !.motion = @ \cup {m}]
                      ELSE slot[s])
        /\ refs' = [r \in Resources |->
                      refs[r] + (IF kept /\ newC /\ r = c THEN 1 ELSE 0)
                              + (IF kept /\ newM /\ r = m THEN 1 ELSE 0)]
        /\ slot[s].state = "building"
    BY <1>3, <1>h DEF AppendDraw, s
  <2> HIDE DEF kept
  <2>2. \A i \in Slots \ {s} : slot'[i] = slot[i]
    BY <1>0, <2>1 DEF SetSlot
  <2>3. /\ Occupied(s)' /\ slot'[s].direct = slot[s].direct
        /\ slot'[s].coverage = IF kept THEN slot[s].coverage \cup {c} ELSE slot[s].coverage
        /\ slot'[s].motion = IF kept THEN slot[s].motion \cup {m} ELSE slot[s].motion
    <3>1. CASE kept
      BY <1>0, <2>1, <3>1 DEF SlotRecord, Occupied, SetSlot
    <3>2. CASE ~kept
      BY <1>0, <2>1, <3>2 DEF SlotRecord, Occupied, SetSlot
    <3> QED
      BY <3>1, <3>2
  <2>4. ASSUME NEW x \in Resources
        PROVE  HeldBy(s, x)' = HeldBy(s, x) + (IF kept /\ newC /\ x = c THEN 1 ELSE 0)
                                            + (IF kept /\ newM /\ x = m THEN 1 ELSE 0)
    <3>0. slot[s].direct[x] \in Nat
      BY <1>0 DEF SlotRecord
    <3>1. CASE kept
      BY <3>0, <2>3, <3>1 DEF HeldBy
    <3>2. CASE ~kept
      BY <3>0, <2>3, <3>2 DEF HeldBy
    <3> QED
      BY <3>1, <3>2
  <2>5. \A x \in Resources : HeldBy(s, x) \in Nat
    BY <1>0, HoldsNat DEF BalanceInv, TypeOK
  <2> HIDE DEF newC, newM
  <2>6. refs' = [x \in Resources |-> refs[x] - HeldBy(s, x) + HeldBy(s, x)']
    BY <1>0, <2>1, <2>4, <2>5
  <2> QED
    BY <1>0, <2>2, <2>3, <2>6, WriteBalances
<1>4. ASSUME NEW m \in Resources, NEW mesh \in Resources,
             NEW geometry \in Resources, AppendMesh(h, m, mesh, geometry)
      PROVE  BalanceInv'
  <2> DEFINE newM == m \notin slot[s].motion
             kept == Acquirable(mesh) /\ Acquirable(geometry)
             direct(r) == IF kept /\ r \in {mesh, geometry}
                          THEN slot[s].direct[r] + 1 ELSE slot[s].direct[r]
             taken(r) == IF kept /\ r \in {mesh, geometry} THEN 1 ELSE 0
  <2>1. /\ SetSlot(s, [slot[s] EXCEPT !.motion = @ \cup {m},
                                      !.direct = [r \in Resources |-> direct(r)]])
        /\ refs' = [r \in Resources |->
                      refs[r] + (IF newM /\ r = m THEN 1 ELSE 0) + taken(r)]
        /\ slot[s].state = "building"
    BY <1>4, <1>h DEF AppendMesh, s
  <2>k. ASSUME NEW r \in Resources
        PROVE  direct(r) = slot[s].direct[r] + taken(r) /\ taken(r) \in Nat
               /\ slot[s].direct[r] \in Nat
    BY <1>0 DEF SlotRecord
  <2> HIDE DEF direct, taken
  <2>2. /\ \A i \in Slots \ {s} : slot'[i] = slot[i]
        /\ slot'[s] = [slot[s] EXCEPT !.motion = @ \cup {m},
                                      !.direct = [r \in Resources |-> direct(r)]]
    BY <1>0, <2>1 DEF SetSlot
  <2>3. /\ Occupied(s)' /\ slot'[s].coverage = slot[s].coverage
        /\ slot'[s].motion = slot[s].motion \cup {m}
        /\ slot'[s].direct = [r \in Resources |-> direct(r)]
    BY <1>0, <2>1, <2>2 DEF SlotRecord, Occupied
  <2>4. ASSUME NEW x \in Resources
        PROVE  HeldBy(s, x)' = HeldBy(s, x) + (IF newM /\ x = m THEN 1 ELSE 0) + taken(x)
    <3>1. slot'[s].direct[x] = slot[s].direct[x] + taken(x)
      BY <2>3, <2>k
    <3>2. slot[s].direct[x] \in Nat /\ taken(x) \in Nat
      BY <2>k
    <3>3. /\ slot'[s].coverage = slot[s].coverage
          /\ slot'[s].motion = slot[s].motion \cup {m}
      BY <2>3
    <3> QED
      BY <3>1, <3>2, <3>3 DEF HeldBy
  <2>5. \A x \in Resources : HeldBy(s, x) \in Nat
    BY <1>0, HoldsNat DEF BalanceInv, TypeOK
  <2> HIDE DEF newM
  <2>6. refs' = [x \in Resources |-> refs[x] - HeldBy(s, x) + HeldBy(s, x)']
    BY <1>0, <2>1, <2>4, <2>5, <2>k
  <2> QED
    BY <1>0, <2>2, <2>3, <2>6, WriteBalances
<1> QED
  BY <1>1, <1>2, <1>3, <1>4 DEF AppendRecord

(* Every operation keeps the repository's counts equal to what is held.      *)
LEMMA BalanceStep == BalanceInv /\ [Next]_vars => BalanceInv'
<1> SUFFICES ASSUME BalanceInv, [Next]_vars PROVE BalanceInv'
  OBVIOUS
<1>0. PoolTypeOK' /\ PoolTypeOK /\ slot \in [Slots -> SlotRecord]
  BY PoolTypeStep DEF BalanceInv, TypeOK, PoolTypeOK
<1>1. ASSUME NEW h \in Handles PROVE h[1] \in Slots
  BY DEF Handles
<1>2. ASSUME NEW s \in Slots, NEW rec,
             SetSlot(s, rec), rec.direct = slot[s].direct,
             rec.motion = slot[s].motion, rec.coverage = slot[s].coverage,
             rec.state # "free", UNCHANGED refs
      PROVE  BalanceInv'
  <2>1. /\ slot'[s] = rec
        /\ \A i \in Slots \ {s} : slot'[i] = slot[i]
    BY <1>0, <1>2 DEF SetSlot
  <2>2. \A i \in Slots : /\ \A r \in Resources : HeldBy(i, r)' = HeldBy(i, r)
                         /\ ~Occupied(i)' => ~Occupied(i)
    BY <1>2, <2>1 DEF HeldBy, Occupied
  <2> QED
    BY <1>0, <1>2, <2>2, BookkeepingBalances
<1>3. ASSUME NEW s \in Slots, Begin(s) PROVE BalanceInv'
  <2> DEFINE gen == IF slot[s].gen = 0 THEN 1 ELSE slot[s].gen
  <2>1. slot'[s] = [EmptySlot(gen) EXCEPT !.state = "building"]
    BY <1>0, <1>3 DEF Begin, SetSlot
  <2>2. \A i \in Slots \ {s} : slot'[i] = slot[i]
    BY <1>0, <1>3 DEF Begin, SetSlot
  <2>3. \A r \in Resources : HeldBy(s, r)' = 0
    <3> HIDE DEF gen
    <3> QED
      BY <2>1 DEF HeldBy, EmptySlot
  <2>4. \A r \in Resources : HeldBy(s, r) = 0
    BY <1>3 DEF Begin, BalanceInv, FreeHoldsNothing
  <2>5. Occupied(s)'
    <3> HIDE DEF gen
    <3> QED
      BY <2>1 DEF Occupied, EmptySlot
  <2>6. \A i \in Slots : /\ \A r \in Resources : HeldBy(i, r)' = HeldBy(i, r)
                         /\ ~Occupied(i)' => ~Occupied(i)
    BY <2>2, <2>3, <2>4, <2>5 DEF HeldBy, Occupied
  <2>7. UNCHANGED refs
    BY <1>3 DEF Begin
  <2> QED
    BY <1>0, <2>6, <2>7, BookkeepingBalances
<1>4. ASSUME NEW h \in Handles, Seal(h) \/ MarkQueued(h) PROVE BalanceInv'
  <2>1. \A st \in {"sealed", "queued"} :
          LET rec == [slot[h[1]] EXCEPT !.state = st]
          IN  /\ rec.direct = slot[h[1]].direct /\ rec.motion = slot[h[1]].motion
              /\ rec.coverage = slot[h[1]].coverage /\ rec.state # "free"
    BY <1>0, <1>1 DEF SlotRecord
  <2> QED
    BY <1>1, <1>2, <1>4, <2>1 DEF Seal, MarkQueued
<1>5. ASSUME NEW s \in Slots, Committed(s), UNCHANGED refs,
             \/ SetSlot(s, [slot[s] EXCEPT !.retirePending = TRUE])
             \/ \E n : SetSlot(s, [slot[s] EXCEPT !.readers = n])
      PROVE  BalanceInv'
  <2>1. slot[s].state # "free" /\ slot[s] \in SlotRecord
    BY <1>0, <1>5 DEF Committed
  <2>2. CASE SetSlot(s, [slot[s] EXCEPT !.retirePending = TRUE])
    <3> DEFINE rec == [slot[s] EXCEPT !.retirePending = TRUE]
    <3>1. /\ rec.direct = slot[s].direct /\ rec.motion = slot[s].motion
          /\ rec.coverage = slot[s].coverage /\ rec.state # "free"
      BY <2>1 DEF SlotRecord
    <3> QED
      BY <1>2, <1>5, <2>2, <3>1
  <2>3. ASSUME NEW n, SetSlot(s, [slot[s] EXCEPT !.readers = n]) PROVE BalanceInv'
    <3> DEFINE rec == [slot[s] EXCEPT !.readers = n]
    <3>1. /\ rec.direct = slot[s].direct /\ rec.motion = slot[s].motion
          /\ rec.coverage = slot[s].coverage /\ rec.state # "free"
      BY <2>1 DEF SlotRecord
    <3> QED
      BY <1>2, <1>5, <2>3, <3>1
  <2> QED
    BY <1>5, <2>2, <2>3
<1>6. ASSUME NEW h \in Handles, Retire(h) PROVE BalanceInv'
  BY <1>0, <1>1, <1>5, <1>6, RejectBalances DEF Retire
<1>7. ASSUME NEW h \in Handles, SealRejected(h) \/ Cancel(h) PROVE BalanceInv'
  BY <1>0, <1>1, <1>7, RejectBalances DEF SealRejected, Cancel
<1>8. ASSUME NEW h \in Handles, NEW t \in Readers, AcquireRead(t, h) PROVE BalanceInv'
  BY <1>1, <1>5, <1>8 DEF AcquireRead
<1>9. ASSUME UNCHANGED <<slot, refs>> PROVE BalanceInv'
  <2>1. \A i \in Slots : /\ \A r \in Resources : HeldBy(i, r)' = HeldBy(i, r)
                         /\ ~Occupied(i)' => ~Occupied(i)
    BY <1>9 DEF HeldBy, Occupied
  <2> QED
    BY <1>0, <1>9, <2>1, BookkeepingBalances
<1>10. ASSUME NEW t \in Readers, ReleaseRead(t) PROVE BalanceInv'
  <2> DEFINE s == lease[t][1]
  <2>1. s \in Slots
    BY <1>0, <1>10 DEF ReleaseRead, Handles, PoolTypeOK
  <2>2. CASE HandleSlot(lease[t]) /\ slot[s].readers > 0
    <3>1. CASE slot[s].readers = 1 /\ slot[s].retirePending
      BY <1>0, <1>10, <2>1, <2>2, <3>1, RejectBalances DEF ReleaseRead
    <3>2. CASE ~(slot[s].readers = 1 /\ slot[s].retirePending)
      <4>1. /\ SetSlot(s, [slot[s] EXCEPT !.readers = slot[s].readers - 1])
            /\ UNCHANGED refs /\ slot[s].state # "free"
        BY <1>10, <2>2, <3>2 DEF ReleaseRead, HandleSlot, Occupied
      <4> DEFINE rec == [slot[s] EXCEPT !.readers = slot[s].readers - 1]
      <4>2. slot[s] \in SlotRecord
        BY <1>0, <2>1
      <4>3. /\ rec.direct = slot[s].direct /\ rec.motion = slot[s].motion
            /\ rec.coverage = slot[s].coverage /\ rec.state # "free"
        BY <4>1, <4>2 DEF SlotRecord
      <4> QED
        BY <1>2, <2>1, <4>1, <4>3
    <3> QED
      BY <3>1, <3>2
  <2>3. CASE ~(HandleSlot(lease[t]) /\ slot[s].readers > 0)
    BY <1>9, <1>10, <2>3 DEF ReleaseRead
  <2> QED
    BY <2>2, <2>3
<1>11. ASSUME CancelBuilders PROVE BalanceInv'
  <2>1. /\ Builders \in SUBSET Slots /\ refs' = Released(Builders)
        /\ \A s \in Builders : \A r \in Resources : HeldBy(s, r)' = 0
        /\ \A s \in Slots \ Builders : slot'[s] = slot[s]
    BY <1>11 DEF CancelBuilders, Builders, HeldBy, EmptySlot
  <2>2. \A s \in Slots \ Builders :
          /\ \A r \in Resources : HeldBy(s, r)' = HeldBy(s, r)
          /\ Occupied(s)' = Occupied(s)
    BY <2>1 DEF HeldBy, Occupied
  <2> QED
    BY <1>0, <2>1, <2>2, FreeBalances
<1>12. ASSUME Reset PROVE BalanceInv'
  <2> DEFINE S == Slots \ LeasedSlots
  <2>1. S \in SUBSET Slots /\ refs' = Released(S)
    BY <1>12 DEF Reset
  <2>2. \A s \in S : slot'[s] = EmptySlot(NextGeneration(slot[s].gen))
    BY <1>12 DEF Reset
  <2>3. \A s \in S : \A r \in Resources : HeldBy(s, r)' = 0
    <3> SUFFICES ASSUME NEW s \in S, NEW r \in Resources PROVE HeldBy(s, r)' = 0
      OBVIOUS
    <3> DEFINE g == NextGeneration(slot[s].gen)
    <3>1. slot'[s] = EmptySlot(g)
      BY <2>2
    <3> HIDE DEF g
    <3> QED
      BY <3>1 DEF HeldBy, EmptySlot
  <2>4. \A s \in Slots \ S : slot'[s] = [slot[s] EXCEPT !.retirePending = TRUE]
    BY <1>12 DEF Reset
  <2>5. \A s \in Slots \ S : slot[s] \in SlotRecord
    BY <1>0
  <2>6. \A s \in Slots \ S :
          /\ \A r \in Resources : HeldBy(s, r)' = HeldBy(s, r)
          /\ Occupied(s)' = Occupied(s)
    BY <2>4, <2>5 DEF HeldBy, Occupied, SlotRecord
  <2> HIDE DEF S
  <2> QED
    BY <1>0, <2>1, <2>3, <2>6, FreeBalances
<1> QED
  BY <1>3, <1>4, <1>6, <1>7, <1>8, <1>9, <1>10, <1>11, <1>12, AppendBalances, <1>0
  DEF Next, vars, RetireCurrent

(* The repository's retain counts equal what the slots hold, in every        *)
(* reachable state: nothing is leaked and nothing released twice.            *)
THEOREM ReferencesBalanced == Spec => []RefsBalanced
<1>1. Init => BalanceInv
  <2> SUFFICES ASSUME Init PROVE BalanceInv
    OBVIOUS
  <2>1. PoolTypeOK /\ refs = [r \in Resources |-> 0]
    BY PoolAssumption, EmptySlotType DEF Init, PoolTypeOK
  <2>2. \A s \in Slots, r \in Resources : HeldBy(s, r) = 0
    BY DEF Init, HeldBy, EmptySlot
  <2>3. ASSUME NEW r \in Resources PROVE Cardinality(References(Slots, r)) = 0
    <3>1. \A s \in Slots : Holds(r)[s] = 0
      BY <2>2 DEF Holds
    <3>2. Cardinality(Weights(Slots, Holds(r))) = 0
      BY ONLY <3>1, WeightOfNone
    <3> QED
      BY <3>2, ReferencesAreWeights
  <2> QED
    BY <2>1, <2>2, <2>3 DEF BalanceInv, TypeOK, RefsBalanced, FreeHoldsNothing
<1>2. BalanceInv => RefsBalanced
  BY DEF BalanceInv
<1> QED
  BY <1>1, <1>2, BalanceStep, PTL DEF Spec
=============================================================================
