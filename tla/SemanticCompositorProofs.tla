---------------------- MODULE SemanticCompositorProofs ----------------------
(***************************************************************************)
(* Proofs about the banked compositor, for every set of pages and textures *)
(* and every capacity: each reference a bank holds is counted once and     *)
(* returned once, and in a field scene nothing is shown before its DMA     *)
(* list has finished.                                                      *)
(***************************************************************************)
EXTENDS SemanticCompositor, SequenceTheorems, FiniteSetTheorems, TLAPS

-----------------------------------------------------------------------------
(* Slots in use: sequences and choices stay within the table.              *)
LEMMA Least ==
    ASSUME NEW S \in SUBSET Nat, S # {}
    PROVE  \E n \in S : \A m \in S : n <= m
<1>1. PICK n \in S : \A m \in S : ~ (<<m, n>> \in OpToRel(<, Nat))
    BY WFMin, NatLessThanWellFounded, Zenon
<1>2. \A m \in S : ~(m < n)
    BY <1>1, Zenon DEF OpToRel
<1> QED
    BY <1>2

LEMMA Greatest ==
    ASSUME NEW n \in Nat, NEW S \in SUBSET (1..n), S # {}
    PROVE  \E k \in S : \A m \in S : k >= m
<1> DEFINE T == {j \in 0..n : n - j \in S}
<1>1. T \in SUBSET Nat /\ T # {}
    <2>1. PICK k \in S : TRUE
        OBVIOUS
    <2>2. k \in Nat /\ n - k \in 0..n /\ n - (n - k) = k
        OBVIOUS
    <2>3. n - k \in T
        BY <2>2
    <2>4. \A j \in T : j \in Nat
        OBVIOUS
    <2> HIDE DEF T
    <2> QED
        BY <2>3, <2>4
<1>2. PICK j \in T : \A i \in T : j <= i
    BY <1>1, Least
<1>3. n - j \in S /\ \A m \in S : n - m \in T
    OBVIOUS
<1> QED
    BY <1>2, <1>3

LEMMA MinIn ==
    ASSUME NEW S \in SUBSET Nat, S # {}
    PROVE  Min(S) \in S
BY Least DEF Min

LEMMA MaxIn ==
    ASSUME NEW n \in Nat, NEW S \in SUBSET (1..n), S # {}
    PROVE  Max(S) \in S
BY Greatest DEF Max

LEMMA WithoutSeq ==
    ASSUME NEW S, NEW slots \in Seq(S), NEW slot
    PROVE  Without(slots, slot) \in Seq(S)
<1>1. CASE slot \notin ToSet(slots)
    BY <1>1 DEF Without
<1>2. CASE slot \in ToSet(slots)
    <2> DEFINE i == CHOOSE i \in DOMAIN slots : slots[i] = slot
    <2>1. i \in DOMAIN slots
        BY <1>2 DEF ToSet
    <2>2. i \in 1..Len(slots) /\ Len(slots) \in Nat
        BY <2>1
    <2> HIDE DEF i
    <2>3. SubSeq(slots, 1, i - 1) \in Seq(S)
        <3>1. \A k \in 1..(i - 1) : slots[k] \in S
            BY <2>2
        <3> QED
            BY <2>2
    <2>4. SubSeq(slots, i + 1, Len(slots)) \in Seq(S)
        BY <2>2
    <2>5. SubSeq(slots, 1, i - 1) \o SubSeq(slots, i + 1, Len(slots)) \in Seq(S)
        BY ONLY <2>3, <2>4, ConcatProperties
    <2> QED
        BY <1>2, <2>5 DEF Without, RemoveAt, i
<1> QED
    BY <1>1, <1>2

LEMMA SlotForIn ==
    ASSUME NEW n \in Nat \ {0}, NEW inUse \in Seq(1..n), NEW same \in SUBSET (1..n)
    PROVE  SlotFor(1..n, inUse, same) \in 1..n
<1> DEFINE fit == same \union ((1..n) \ ToSet(inUse))
<1>1. fit \in SUBSET (1..n)
    OBVIOUS
<1>2. CASE fit # {}
    <2>1. fit \in SUBSET Nat
        BY <1>1
    <2>2. Min(fit) \in fit
        BY ONLY <1>2, <2>1, MinIn
    <2> QED
        BY <1>1, <1>2, <2>2 DEF SlotFor
<1>3. CASE fit = {}
    <2>1. 1 \in ToSet(inUse)
        BY <1>3
    <2>2. inUse # <<>>
        BY <2>1 DEF ToSet
    <2>3. Head(inUse) \in 1..n
        BY <2>2
    <2> QED
        BY <1>3, <2>3 DEF SlotFor
<1> QED
    BY <1>2, <1>3

LEMMA NewestOfIn ==
    ASSUME NEW S, NEW inUse \in Seq(S), NEW fits
    PROVE  NewestOf(inUse, fits) # 0 => NewestOf(inUse, fits) \in S
<1> DEFINE fit == {i \in DOMAIN inUse : inUse[i] \in fits}
<1>1. CASE fit = {}
    BY <1>1 DEF NewestOf
<1>2. CASE fit # {}
    <2>1. fit \in SUBSET (1..Len(inUse)) /\ Len(inUse) \in Nat
        OBVIOUS
    <2>2. Max(fit) \in fit
        BY <1>2, <2>1, MaxIn
    <2>3. inUse[Max(fit)] \in S
        BY <2>1, <2>2
    <2> QED
        BY <1>2, <2>3 DEF NewestOf
<1> QED
    BY <1>1, <1>2

LEMMA LastIn ==
    ASSUME NEW S, NEW s \in Seq(S), s # <<>>
    PROVE  Last(s) \in S
BY DEF Last

-----------------------------------------------------------------------------
(* Counting the banks that hold a resource.  B says what is in each place. *)
In(h, bank) == IF h \in Held(bank) THEN 1 ELSE 0
At(B, h) == {p \in Places : h \in Held(B[p])}

LEMMA InIsNumber == \A h, bank : In(h, bank) \in Int
BY DEF In

LEMMA PlacesFinite == IsFiniteSet(Places)
<1>1. /\ IsFiniteSet(1..CompletedCapacity) /\ IsFiniteSet(1..DisplayedCapacity)
      /\ \A x : IsFiniteSet({x})
    <2>1. CompletedCapacity \in Int /\ DisplayedCapacity \in Int /\ 1 \in Int
        BY CapacityAssumption
    <2>2. IsFiniteSet(1..CompletedCapacity) /\ IsFiniteSet(1..DisplayedCapacity)
        BY ONLY <2>1, FS_Interval
    <2> QED
        BY ONLY <2>2, FS_Singleton, Zenon
<1>2. IsFiniteSet({"pending", "retained", "root"})
    <2>1. IsFiniteSet({"pending"})
        BY <1>1
    <2>2. IsFiniteSet({"pending"} \union {"retained"})
        BY ONLY <2>1, FS_AddElement
    <2>3. IsFiniteSet(({"pending"} \union {"retained"}) \union {"root"})
        BY ONLY <2>2, FS_AddElement
    <2>4. ({"pending"} \union {"retained"}) \union {"root"} = {"pending", "retained", "root"}
        OBVIOUS
    <2> QED
        BY <2>3, <2>4
<1>3. /\ IsFiniteSet({0}) /\ IsFiniteSet({"completed"}) /\ IsFiniteSet({"displayed"})
    BY <1>1
<1>4. IsFiniteSet({"pending", "retained", "root"} \X {0})
    BY ONLY <1>2, <1>3, FS_Product
<1>5. IsFiniteSet({"completed"} \X (1..CompletedCapacity))
    BY ONLY <1>1, <1>3, FS_Product
<1>6. IsFiniteSet({"displayed"} \X (1..DisplayedCapacity))
    BY ONLY <1>1, <1>3, FS_Product
<1>7. IsFiniteSet(({"pending", "retained", "root"} \X {0})
                    \union ({"completed"} \X (1..CompletedCapacity)))
    BY ONLY <1>4, <1>5, FS_Union
<1>8. IsFiniteSet((({"pending", "retained", "root"} \X {0})
                     \union ({"completed"} \X (1..CompletedCapacity)))
                  \union ({"displayed"} \X (1..DisplayedCapacity)))
    BY ONLY <1>6, <1>7, FS_Union
<1> QED
    BY <1>8 DEF Places, CompletedSlots, DisplayedSlots

LEMMA AtFinite ==
    ASSUME NEW B, NEW h
    PROVE  IsFiniteSet(At(B, h)) /\ Cardinality(At(B, h)) \in Nat
<1>1. At(B, h) \in SUBSET Places
    BY DEF At
<1>2. IsFiniteSet(At(B, h))
    BY ONLY <1>1, PlacesFinite, FS_Subset
<1> QED
    BY ONLY <1>2, FS_CardinalityType

(* Another bank in one place.                                              *)
LEMMA AtChange ==
    ASSUME NEW B, NEW C, NEW p \in Places, NEW h,
           \A q \in Places \ {p} : Held(C[q]) = Held(B[q])
    PROVE  Cardinality(At(C, h)) = Cardinality(At(B, h)) - In(h, B[p]) + In(h, C[p])
<1> DEFINE A == At(B, h) \ {p}
<1>0. At(C, h) \ {p} = A
    BY DEF At
<1>1. IsFiniteSet(At(B, h)) /\ IsFiniteSet(At(C, h)) /\ Cardinality(At(B, h)) \in Nat
      /\ Cardinality(At(C, h)) \in Nat
    BY AtFinite
<1>2. Cardinality(A) = IF p \in At(B, h) THEN Cardinality(At(B, h)) - 1
                       ELSE Cardinality(At(B, h))
    BY ONLY <1>1, FS_RemoveElement
<1>3. Cardinality(At(C, h) \ {p}) = IF p \in At(C, h) THEN Cardinality(At(C, h)) - 1
                                    ELSE Cardinality(At(C, h))
    BY ONLY <1>1, FS_RemoveElement
<1>4. /\ p \in At(B, h) <=> h \in Held(B[p])
      /\ p \in At(C, h) <=> h \in Held(C[p])
    BY DEF At
<1> HIDE DEF A
<1> QED
    BY <1>0, <1>1, <1>2, <1>3, <1>4 DEF In

LEMMA AtExcept ==
    ASSUME NEW B, DOMAIN B = Places, NEW p \in Places, NEW bank, NEW h
    PROVE  Cardinality(At([B EXCEPT ![p] = bank], h))
             = Cardinality(At(B, h)) - In(h, B[p]) + In(h, bank)
<1> DEFINE C == [B EXCEPT ![p] = bank]
<1>1. C[p] = bank /\ \A q \in Places \ {p} : C[q] = B[q]
    OBVIOUS
<1> HIDE DEF C
<1>2. \A q \in Places \ {p} : Held(C[q]) = Held(B[q])
    BY <1>1
<1>3. Cardinality(At(C, h)) = Cardinality(At(B, h)) - In(h, B[p]) + In(h, C[p])
    BY ONLY <1>2, AtChange, p \in Places
<1> QED
    BY <1>1, <1>3 DEF C

(* A sum of references that agrees with what the banks B hold.             *)
Counts(B, counts) == counts = [h \in Handles |-> Cardinality(At(B, h))]

LEMMA CountsAreNumbers ==
    ASSUME NEW B, NEW counts, Counts(B, counts)
    PROVE  counts \in [Handles -> Nat]
BY AtFinite DEF Counts

(* What the counts become when one bank gives way to another.              *)
Recounted(counts, old, new) ==
    [h \in Handles |-> counts[h] - In(h, old) + In(h, new)]

LEMMA RecountedIsNumbers ==
    ASSUME NEW counts \in [Handles -> Int], NEW old, NEW new
    PROVE  Recounted(counts, old, new) \in [Handles -> Int]
BY InIsNumber DEF Recounted

LEMMA RecountedTwice ==
    ASSUME NEW counts \in [Handles -> Int], NEW a, NEW b, NEW c
    PROVE  Recounted(Recounted(counts, a, b), b, c) = Recounted(counts, a, c)
<1>1. \A h \in Handles : counts[h] \in Int
    OBVIOUS
<1>2. \A h \in Handles : Recounted(Recounted(counts, a, b), b, c)[h] = Recounted(counts, a, c)[h]
    BY <1>1, InIsNumber DEF Recounted
<1> QED
    BY <1>2 DEF Recounted

LEMMA RecountedSame ==
    ASSUME NEW counts \in [Handles -> Int], NEW a, NEW b, Held(a) = Held(b)
    PROVE  Recounted(counts, a, b) = counts
<1>1. \A h \in Handles : counts[h] \in Int
    OBVIOUS
<1>2. \A h \in Handles : Recounted(counts, a, b)[h] = counts[h]
    BY <1>1, InIsNumber DEF Recounted, In
<1> QED
    BY <1>2 DEF Recounted

LEMMA RecountedHeld ==
    ASSUME NEW counts, NEW a, NEW b, NEW c, NEW d, Held(a) = Held(b), Held(c) = Held(d)
    PROVE  Recounted(counts, a, c) = Recounted(counts, b, d)
BY DEF Recounted, In

LEMMA AcquiredIs ==
    ASSUME NEW counts \in [Handles -> Int], NEW a, NEW b, Held(a) \subseteq Held(b)
    PROVE  Acquired(counts, Held(b) \ Held(a)) = Recounted(counts, a, b)
<1>1. \A h \in Handles : counts[h] \in Int
    OBVIOUS
<1>2. \A h \in Handles : Acquired(counts, Held(b) \ Held(a))[h] = Recounted(counts, a, b)[h]
    BY <1>1 DEF Acquired, Recounted, In
<1> QED
    BY <1>2 DEF Acquired, Recounted

LEMMA ReleasedIs ==
    ASSUME NEW counts \in [Handles -> Int], NEW a, NEW b, Held(b) \subseteq Held(a)
    PROVE  Released(counts, Held(a) \ Held(b)) = Recounted(counts, a, b)
<1>1. \A h \in Handles : counts[h] \in Int
    OBVIOUS
<1>2. \A h \in Handles : Released(counts, Held(a) \ Held(b))[h] = Recounted(counts, a, b)[h]
    BY <1>1 DEF Released, Recounted, In
<1> QED
    BY <1>2 DEF Released, Recounted

(* One bank is replaced.                                                   *)
LEMMA OnePlace ==
    ASSUME NEW B, NEW C, NEW counts, NEW p \in Places, Counts(B, counts),
           \A q \in Places \ {p} : Held(C[q]) = Held(B[q])
    PROVE  Counts(C, Recounted(counts, B[p], C[p]))
<1>1. ASSUME NEW h \in Handles
      PROVE  Recounted(counts, B[p], C[p])[h] = Cardinality(At(C, h))
    <2>1. Cardinality(At(C, h)) = Cardinality(At(B, h)) - In(h, B[p]) + In(h, C[p])
        BY AtChange
    <2> QED
        BY <2>1 DEF Counts, Recounted
<1> QED
    BY <1>1 DEF Counts, Recounted

(* Two banks are replaced.                                                 *)
LEMMA TwoPlaces ==
    ASSUME NEW B, NEW C, NEW counts, NEW p \in Places, NEW q \in Places,
           p # q, DOMAIN B = Places, Counts(B, counts),
           \A o \in Places \ {p, q} : Held(C[o]) = Held(B[o])
    PROVE  Counts(C, Recounted(Recounted(counts, B[p], C[p]), B[q], C[q]))
<1> DEFINE M == [B EXCEPT ![p] = C[p]]
<1>1. M[p] = C[p] /\ M[q] = B[q] /\ \A o \in Places \ {p} : M[o] = B[o]
    OBVIOUS
<1> HIDE DEF M
<1>2. \A o \in Places \ {p} : Held(M[o]) = Held(B[o])
    BY <1>1
<1>3. \A o \in Places \ {q} : Held(C[o]) = Held(M[o])
    BY <1>1
<1>4. Counts(M, Recounted(counts, B[p], C[p]))
    <2>1. Counts(M, Recounted(counts, B[p], M[p]))
        BY <1>2, OnePlace
    <2> QED
        BY <1>1, <2>1
<1> DEFINE between == Recounted(counts, B[p], C[p])
<1> HIDE DEF between
<1>5. Counts(M, between)
    BY <1>4 DEF between
<1>6. Counts(C, Recounted(between, M[q], C[q]))
    BY <1>3, <1>5, OnePlace
<1> QED
    BY <1>1, <1>6 DEF between

(* No bank holds more than before.                                         *)
LEMMA SamePlaces ==
    ASSUME NEW B, NEW C, NEW counts, Counts(B, counts),
           \A q \in Places : Held(C[q]) = Held(B[q])
    PROVE  Counts(C, counts)
<1>1. \A h : At(C, h) = At(B, h)
    BY DEF At
<1> QED
    BY <1>1 DEF Counts

-----------------------------------------------------------------------------
(* What the operations on a bank do to what it holds and to its draws.     *)
Fields == {"active", "blocked", "required", "touched", "drawn", "uses", "page"}
Shaped(bank) == DOMAIN bank = Fields /\ DOMAIN bank.uses = Handles
Sealed(bank) == "open" \notin bank.drawn

LEMMA NoBankIsEmpty ==
    /\ Shaped(NoBank) /\ Held(NoBank) = {} /\ Sealed(NoBank)
    /\ ~NoBank.active /\ ~NoBank.blocked /\ ~NoBank.required
BY DEF NoBank, Shaped, Held, Sealed, Fields

(* Fields that say nothing of the resources.                               *)
LEMMA OtherFields ==
    ASSUME NEW bank, Shaped(bank), NEW f \in Fields \ {"uses"}, NEW v
    PROVE  LET new == [bank EXCEPT ![f] = v] IN
           /\ Shaped(new) /\ Held(new) = Held(bank)
           /\ new[f] = v /\ \A g \in Fields \ {f} : new[g] = bank[g]
BY DEF Shaped, Held, Fields

LEMMA MovedHolds ==
    ASSUME NEW bank, Shaped(bank)
    PROVE  /\ Shaped(Moved(bank)) /\ Held(Moved(bank)) = Held(bank)
           /\ Moved(bank).drawn = bank.drawn
           /\ Moved(bank).blocked = bank.blocked
           /\ Shaped(Cloned(bank)) /\ Held(Cloned(bank)) = Held(bank)
           /\ Cloned(bank).drawn = bank.drawn /\ ~Cloned(bank).required
           /\ Cloned(bank).blocked = bank.blocked
BY DEF Moved, Cloned, Shaped, Held, Fields

LEMMA SettledHolds ==
    ASSUME NEW bank, Shaped(bank), NEW from, NEW to
    PROVE  /\ Shaped(Settled(bank, from, to))
           /\ Held(Settled(bank, from, to)) = Held(bank)
           /\ from # to => from \notin Settled(bank, from, to).drawn
           /\ Settled(bank, from, to).active = bank.active
BY DEF Settled, Shaped, Held, Fields

(* The first update of an owner only takes away.                           *)
LEMMA TakenHolds ==
    ASSUME NEW bank, Shaped(bank), NEW owner
    PROVE  /\ Shaped(Taken(bank, owner)) /\ Held(Taken(bank, owner)) \subseteq Held(bank)
           /\ Taken(bank, owner).drawn \in {bank.drawn, {}}
           /\ \A f \in {"active", "blocked", "required", "page"} :
                Taken(bank, owner)[f] = bank[f]
<1>1. CASE owner \in bank.touched
    BY <1>1 DEF Taken
<1>2. CASE owner \notin bank.touched
    BY <1>2 DEF Taken, Shaped, Held, Fields
<1> QED
    BY <1>1, <1>2

LEMMA AppendedHolds ==
    ASSUME NEW bank, Shaped(bank), NEW owner, NEW hs, NEW draws \in BOOLEAN
    PROVE  /\ Shaped(Appended(bank, owner, hs, draws))
           /\ Held(bank) \subseteq Held(Appended(bank, owner, hs, draws))
           /\ Appended(bank, owner, hs, draws).drawn
                = IF draws /\ owner = "main" THEN bank.drawn \union {"open"}
                  ELSE bank.drawn
BY DEF Appended, Shaped, Held, Fields

LEMMA AppendedKeeps ==
    ASSUME NEW bank, Shaped(bank), NEW owner, NEW hs, NEW draws \in BOOLEAN
    PROVE  \A f \in {"active", "blocked", "required", "page"} :
             Appended(bank, owner, hs, draws)[f] = bank[f]
BY DEF Appended, Shaped, Held, Fields

(* What an update starts from: the building bank, or a copy.               *)
LEMMA BegunHolds ==
    ASSUME NEW bank, Shaped(bank), Shaped(Origin), NEW page
    PROVE  /\ Shaped(Begun(bank, page)) /\ Begun(bank, page).active
           /\ bank.active => /\ Held(Begun(bank, page)) = Held(bank)
                             /\ \A f \in {"blocked", "required", "drawn"} :
                                  Begun(bank, page)[f] = bank[f]
           /\ ~bank.active => Begun(bank, page).drawn = Origin.drawn
<1>1. CASE bank.active
    <2>1. Begun(bank, page) = [bank EXCEPT !.page = page]
        BY <1>1 DEF Begun
    <2> QED
        BY <1>1, <2>1 DEF Shaped, Held, Fields
<1>2. CASE ~bank.active
    <2>1. Begun(bank, page) = [Cloned(Origin) EXCEPT !.active = TRUE, !.page = page]
        BY <1>2 DEF Begun
    <2>2. Shaped(Cloned(Origin)) /\ Cloned(Origin).drawn = Origin.drawn
        BY MovedHolds
    <2> QED
        BY <1>2, <2>1, <2>2 DEF Shaped, Fields
<1> QED
    BY <1>1, <1>2

(* An update counts exactly what the bank comes to hold and to lose.       *)
LEMMA UpsertedHolds ==
    ASSUME NEW given, Shaped(given.bank), Shaped(Origin),
           given.refs \in [Handles -> Int],
           ~given.bank.active => Held(given.bank) = {},
           NEW owner, NEW page, NEW hs, NEW draws \in BOOLEAN
    PROVE  /\ Shaped(Upserted(given, owner, page, hs, draws).bank)
           /\ Upserted(given, owner, page, hs, draws).bank.active
           /\ Upserted(given, owner, page, hs, draws).refs =
                Recounted(given.refs, given.bank, Upserted(given, owner, page, hs, draws).bank)
<1> DEFINE begun == Begun(given.bank, page)
           taken == Taken(begun, owner)
           full == Appended(taken, owner, hs, draws)
           last == [full EXCEPT !.required = @ \/ (IsField /\ draws /\ owner = "main")]
           started == IF given.bank.active THEN given.refs
                      ELSE Acquired(given.refs, Held(begun))
           removed == Released(started, Held(begun) \ Held(taken))
           counts == Acquired(removed, Held(full) \ Held(taken))
<1>1. Upserted(given, owner, page, hs, draws) = [bank |-> last, refs |-> counts]
    BY DEF Upserted
<1>2. /\ Shaped(begun) /\ begun.active
      /\ given.bank.active => Held(begun) = Held(given.bank)
    BY BegunHolds
<1> HIDE DEF begun
<1>3. Shaped(taken) /\ Held(taken) \subseteq Held(begun) /\ taken.active = begun.active
    BY <1>2, TakenHolds
<1> HIDE DEF taken
<1>4. Shaped(full) /\ Held(taken) \subseteq Held(full) /\ full.active = taken.active
    <2>1. Shaped(full)
        BY <1>3, AppendedHolds
    <2>2. Held(taken) \subseteq Held(full)
        BY <1>3, AppendedHolds
    <2>3. full.active = taken.active
        BY <1>3, AppendedKeeps
    <2> QED
        BY <2>1, <2>2, <2>3
<1> HIDE DEF full
<1>5. Shaped(last) /\ Held(last) = Held(full) /\ last.active = full.active
    BY <1>4 DEF Shaped, Held, Fields
<1> HIDE DEF last
<1>6. counts = Recounted(given.refs, given.bank, last)
    <2>1. /\ started = Recounted(given.refs, given.bank, begun)
          /\ started \in [Handles -> Int]
        <3>1. CASE given.bank.active
            <4>1. Recounted(given.refs, given.bank, begun) = given.refs
                BY <1>2, <3>1, RecountedSame
            <4> QED
                BY <3>1, <4>1
        <3>2. CASE ~given.bank.active
            <4>1. Held(given.bank) = {}
                BY <3>2
            <4>2. Acquired(given.refs, Held(begun) \ Held(given.bank))
                    = Recounted(given.refs, given.bank, begun)
                BY <4>1, AcquiredIs
            <4>3. Held(begun) \ Held(given.bank) = Held(begun)
                BY <4>1
            <4>4. started = Recounted(given.refs, given.bank, begun)
                BY <3>2, <4>2, <4>3
            <4> QED
                BY <4>4, RecountedIsNumbers
        <3> QED
            BY <3>1, <3>2
    <2> HIDE DEF started
    <2>2. removed = Recounted(started, begun, taken)
        BY <1>3, <2>1, ReleasedIs
    <2>3. removed = Recounted(given.refs, given.bank, taken)
        BY <2>1, <2>2, RecountedTwice
    <2> HIDE DEF removed
    <2>4. removed \in [Handles -> Int]
        BY <2>3, RecountedIsNumbers
    <2>5. counts = Recounted(removed, taken, full)
        BY <1>4, <2>4, AcquiredIs
    <2>6. counts = Recounted(given.refs, given.bank, full)
        BY <2>3, <2>5, RecountedTwice
    <2> HIDE DEF counts
    <2> QED
        BY <1>5, <2>6, RecountedHeld
<1> HIDE DEF counts
<1>7. /\ Upserted(given, owner, page, hs, draws).bank = last
      /\ Upserted(given, owner, page, hs, draws).refs = counts
    BY ONLY <1>1
<1> QED
    BY <1>2, <1>3, <1>4, <1>5, <1>6, <1>7

(* An update leaves no draw open in a field scene that the bank does not   *)
(* say it waits for.                                                       *)
Owed(bank) == "open" \in bank.drawn => bank.required \/ bank.blocked

LEMMA UpsertedOwes ==
    ASSUME NEW given, Shaped(given.bank), Shaped(Origin), IsField, Sealed(Origin),
           NEW owner, NEW page, NEW hs, NEW draws \in BOOLEAN, Owed(given.bank)
    PROVE  Owed(Upserted(given, owner, page, hs, draws).bank)
<1> DEFINE begun == Begun(given.bank, page)
           taken == Taken(begun, owner)
           full == Appended(taken, owner, hs, draws)
           last == [full EXCEPT !.required = @ \/ (IsField /\ draws /\ owner = "main")]
<1>1. Upserted(given, owner, page, hs, draws).bank = last
    BY DEF Upserted
<1>2. Shaped(begun) /\ Owed(begun)
    BY BegunHolds DEF Owed, Sealed
<1> HIDE DEF begun
<1>3. Shaped(taken) /\ Owed(taken)
    <2>1. /\ Shaped(taken) /\ taken.drawn \in {begun.drawn, {}}
          /\ taken.required = begun.required /\ taken.blocked = begun.blocked
        BY <1>2, TakenHolds
    <2> QED
        BY <1>2, <2>1 DEF Owed
<1> HIDE DEF taken
<1>4. /\ Shaped(full)
      /\ full.drawn = IF draws /\ owner = "main" THEN taken.drawn \union {"open"}
                      ELSE taken.drawn
      /\ full.required = taken.required /\ full.blocked = taken.blocked
    <2>1. Shaped(full)
        BY <1>3, AppendedHolds
    <2>2. full.drawn = IF draws /\ owner = "main" THEN taken.drawn \union {"open"}
                       ELSE taken.drawn
        BY <1>3, AppendedHolds
    <2>3. full.required = taken.required /\ full.blocked = taken.blocked
        BY <1>3, AppendedKeeps
    <2> QED
        BY <2>1, <2>2, <2>3
<1> HIDE DEF full
<1>5. /\ last.drawn = full.drawn /\ last.blocked = full.blocked
      /\ last.required = (full.required \/ (draws /\ owner = "main"))
    BY <1>4 DEF Shaped, Fields
<1> HIDE DEF last
<1> QED
    BY <1>1, <1>3, <1>4, <1>5 DEF Owed

-----------------------------------------------------------------------------
(* The inductive invariant.                                                *)
Banks == [p \in Places |-> BankAt(p[1], p[2])]
PendingAt == <<"pending", 0>>
RetainedAt == <<"retained", 0>>
RootAt == <<"root", 0>>
PreparedAt == <<prepared.bank, prepared.slot>>

(* The tables have their slots, and only these are listed.                 *)
Tables ==
    /\ DOMAIN completed = CompletedSlots
    /\ \A s \in CompletedSlots : DOMAIN completed[s] = {"bank", "area"}
    /\ DOMAIN displayed = DisplayedSlots
    /\ submitted \in Seq(CompletedSlots)
    /\ replaced \in Seq(DisplayedSlots)

Shapes == \A p \in Places : Shaped(Banks[p])

(* Only a boundary prepares, the bank it prepares is one of the compositor *)
(* but never the retained one itself, and the copy of the retained bank    *)
(* exists for as long as it is prepared.                                   *)
Preparing ==
    /\ prepared.bank = "none" \/ PreparedAt \in Places \ {RetainedAt}
    /\ prepared.kind = "endpoint" => prepared.bank # "none"
    /\ stage = "open" => prepared.bank = "none"
    /\ prepared.bank # "root" => root = NoBank

(* A bank that was not begun holds nothing: pending_begin overwrites it.   *)
Started == pending.active \/ Held(pending) = {}

Balance == Counts(Banks, refs)

(* What a building bank of a field scene has open it waits for, unless it  *)
(* is refused; every other bank has nothing open.                          *)
Sealing ==
    IsField =>
        /\ \A p \in Places \ {PendingAt} : Sealed(Banks[p])
        /\ Owed(pending)
        /\ (prepared.kind = "endpoint" /\ prepared.bank = "pending") => Sealed(pending)

CompositorInv == Tables /\ Shapes /\ Preparing /\ Started /\ Balance /\ Sealing

-----------------------------------------------------------------------------
(* Places and variables.                                                   *)
Table(pe, re, ro, co, di) ==
    [p \in Places |-> CASE p[1] = "pending" -> pe
                        [] p[1] = "retained" -> re
                        [] p[1] = "root" -> ro
                        [] p[1] = "completed" -> co[p[2]].bank
                        [] p[1] = "displayed" -> di[p[2]]
                        [] OTHER -> NoBank]

LEMMA PlacesAre ==
    /\ PendingAt \in Places /\ RetainedAt \in Places /\ RootAt \in Places
    /\ \A s \in CompletedSlots : <<"completed", s>> \in Places
    /\ \A s \in DisplayedSlots : <<"displayed", s>> \in Places
    /\ \A p \in Places :
         \/ p \in {PendingAt, RetainedAt, RootAt}
         \/ \E s \in CompletedSlots : p = <<"completed", s>>
         \/ \E s \in DisplayedSlots : p = <<"displayed", s>>
BY DEF Places, PendingAt, RetainedAt, RootAt

LEMMA TableIs ==
    ASSUME NEW pe, NEW re, NEW ro, NEW co, NEW di
    PROVE  /\ DOMAIN Table(pe, re, ro, co, di) = Places
           /\ Table(pe, re, ro, co, di)[PendingAt] = pe
           /\ Table(pe, re, ro, co, di)[RetainedAt] = re
           /\ Table(pe, re, ro, co, di)[RootAt] = ro
           /\ \A s \in CompletedSlots :
                Table(pe, re, ro, co, di)[<<"completed", s>>] = co[s].bank
           /\ \A s \in DisplayedSlots :
                Table(pe, re, ro, co, di)[<<"displayed", s>>] = di[s]
BY PlacesAre DEF Table, PendingAt, RetainedAt, RootAt

LEMMA BanksAre == Banks = Table(pending, retained, root, completed, displayed)
BY DEF Banks, BankAt, Table

LEMMA BanksWillBe ==
    Banks' = Table(pending', retained', root', completed', displayed')
BY DEF Banks, BankAt, Table

LEMMA BankOfPlace ==
    ASSUME NEW name, NEW slot, <<name, slot>> \in Places
    PROVE  BankAt(name, slot) = Banks[<<name, slot>>]
BY DEF Banks

(* One bank changes: what holds of every bank, and the counts.             *)
LEMMA OneBank ==
    ASSUME Shapes, Balance, NEW p \in Places,
           \A q \in Places \ {p} : Banks'[q] = Banks[q],
           Shaped(Banks'[p]),
           refs' = Recounted(refs, Banks[p], Banks'[p])
    PROVE  Shapes' /\ Balance'
<1>1. Shapes'
    BY DEF Shapes
<1>2. \A q \in Places \ {p} : Held(Banks'[q]) = Held(Banks[q])
    OBVIOUS
<1>3. Counts(Banks', refs')
    BY <1>2, PlacesAre, OnePlace DEF Balance
<1> QED
    BY <1>1, <1>3 DEF Balance

-----------------------------------------------------------------------------
(* Building.                                                               *)
LEMMA OriginIsSound ==
    ASSUME CompositorInv
    PROVE  Shaped(Origin) /\ (IsField => Sealed(Origin))
<1> USE DEF CompositorInv
<1>1. CASE IsField /\ submitted # <<>>
    <2>1. Last(submitted) \in CompletedSlots
        BY <1>1, LastIn DEF Tables
    <2>2. <<"completed", Last(submitted)>> \in Places \ {PendingAt}
        BY <2>1, PlacesAre DEF PendingAt
    <2>3. Banks[<<"completed", Last(submitted)>>] = completed[Last(submitted)].bank
        BY <2>1, BanksAre, TableIs
    <2>4. Origin = completed[Last(submitted)].bank
        BY <1>1 DEF Origin
    <2> QED
        BY <2>2, <2>3, <2>4 DEF Shapes, Sealing
<1>2. CASE ~(IsField /\ submitted # <<>>) /\ retained.active
    <2>1. Origin = retained
        BY <1>2 DEF Origin
    <2>2. RetainedAt \in Places \ {PendingAt} /\ Banks[RetainedAt] = retained
        BY BanksAre, TableIs, PlacesAre DEF RetainedAt, PendingAt
    <2> QED
        BY <2>1, <2>2 DEF Shapes, Sealing
<1>3. CASE ~(IsField /\ submitted # <<>>) /\ ~retained.active
    <2>1. Origin = NoBank
        BY <1>3 DEF Origin
    <2> QED
        BY <2>1, NoBankIsEmpty
<1> QED
    BY <1>1, <1>2, <1>3

LEMMA PendingIs ==
    ASSUME Shapes
    PROVE  Banks[PendingAt] = pending /\ Shaped(pending) /\ PendingAt \in Places
BY BanksAre, TableIs, PlacesAre DEF Shapes

LEMMA RetainedIs ==
    ASSUME Shapes
    PROVE  Banks[RetainedAt] = retained /\ Shaped(retained) /\ RetainedAt \in Places
BY BanksAre, TableIs, PlacesAre DEF Shapes

(* A step that changes no bank but the building one.                       *)
LEMMA ChangesPending ==
    ASSUME CompositorInv,
           UNCHANGED <<module, retained, root, completed, submitted, displayed,
                       replaced>>,
           Preparing', prepared'.bank # "pending",
           Shaped(pending'), pending'.active \/ Held(pending') = {},
           refs' = Recounted(refs, pending, pending'),
           IsField => Owed(pending')
    PROVE  CompositorInv'
<1>1. Banks[PendingAt] = pending /\ Banks'[PendingAt] = pending' /\ PendingAt \in Places
    BY PendingIs, BanksWillBe, TableIs DEF CompositorInv
<1>2. \A q \in Places \ {PendingAt} : Banks'[q] = Banks[q]
    <2>1. /\ Banks'[RetainedAt] = Banks[RetainedAt] /\ Banks'[RootAt] = Banks[RootAt]
          /\ \A s \in CompletedSlots :
               Banks'[<<"completed", s>>] = Banks[<<"completed", s>>]
          /\ \A s \in DisplayedSlots :
               Banks'[<<"displayed", s>>] = Banks[<<"displayed", s>>]
        BY BanksAre, BanksWillBe, TableIs
    <2> QED
        BY <2>1, PlacesAre
<1>3. Shapes' /\ Balance'
    BY <1>1, <1>2, OneBank DEF CompositorInv
<1>4. Tables' /\ Started'
    BY DEF CompositorInv, Tables, Started
<1>5. Sealing'
    <2>1. IsField' = IsField
        BY DEF IsField
    <2> QED
        BY <1>2, <2>1 DEF CompositorInv, Sealing
<1> QED
    BY <1>3, <1>4, <1>5 DEF CompositorInv

(* The steps that build do so while no boundary is in progress.            *)
LEMMA Builds ==
    ASSUME CompositorInv, stage = "open",
           UNCHANGED <<module, retained, root, completed, submitted, displayed,
                       replaced, prepared, stage>>,
           Shaped(pending'), pending'.active \/ Held(pending') = {},
           refs' = Recounted(refs, pending, pending'),
           IsField => Owed(pending')
    PROVE  CompositorInv'
<1>1. Preparing' /\ prepared'.bank # "pending"
    BY DEF CompositorInv, Preparing, PreparedAt
<1> QED
    BY <1>1, ChangesPending

LEMMA BuildingIs ==
    ASSUME CompositorInv
    PROVE  /\ Shaped(Building.bank) /\ Building.bank = pending /\ Building.refs = refs
           /\ Building.refs \in [Handles -> Int]
           /\ ~Building.bank.active => Held(Building.bank) = {}
<1>1. refs \in [Handles -> Nat]
    BY CountsAreNumbers DEF CompositorInv, Balance
<1>2. Shaped(pending) /\ Started
    BY PendingIs DEF CompositorInv
<1> QED
    BY <1>1, <1>2 DEF Building, Started

LEMMA UpdateIs ==
    ASSUME CompositorInv, NEW owner, NEW page, NEW hs, NEW draws \in BOOLEAN
    PROVE  /\ Shaped(Upserted(Building, owner, page, hs, draws).bank)
           /\ Upserted(Building, owner, page, hs, draws).bank.active
           /\ Upserted(Building, owner, page, hs, draws).refs =
                Recounted(refs, pending, Upserted(Building, owner, page, hs, draws).bank)
           /\ IsField => Owed(Upserted(Building, owner, page, hs, draws).bank)
<1> DEFINE done == Upserted(Building, owner, page, hs, draws)
<1>1. Shaped(Origin) /\ (IsField => Sealed(Origin))
    BY OriginIsSound
<1>2. /\ Shaped(done.bank) /\ done.bank.active
      /\ done.refs = Recounted(Building.refs, Building.bank, done.bank)
    BY <1>1, BuildingIs, UpsertedHolds
<1>3. IsField => Owed(done.bank)
    BY <1>1, BuildingIs, UpsertedOwes DEF CompositorInv, Sealing
<1> HIDE DEF done
<1>4. done.refs = Recounted(refs, pending, done.bank)
    BY <1>2, BuildingIs
<1>5. /\ Shaped(done.bank) /\ done.bank.active
      /\ done.refs = Recounted(refs, pending, done.bank)
      /\ IsField => Owed(done.bank)
    BY <1>2, <1>3, <1>4
<1> QED
    BY ONLY <1>5 DEF done

LEMMA IngressStep ==
    ASSUME CompositorInv,
           NEW page, NEW hs, NEW draws \in BOOLEAN, Ingress(page, hs, draws)
    PROVE  CompositorInv'
<1> DEFINE done == Upserted(Building, "main", page, hs, draws)
<1>1. /\ stage = "open" /\ pending' = done.bank /\ refs' = done.refs
      /\ UNCHANGED <<module, retained, root, completed, submitted, displayed,
                     replaced, prepared, stage>>
    BY DEF Ingress
<1>2. /\ Shaped(done.bank) /\ done.bank.active /\ (IsField => Owed(done.bank))
      /\ done.refs = Recounted(refs, pending, done.bank)
    BY UpdateIs
<1> HIDE DEF done
<1> QED
    BY <1>1, <1>2, Builds

(* The same for an update that draws nothing.                              *)
LEMMA PassiveUpdateIs ==
    ASSUME CompositorInv, NEW owner, NEW page, NEW hs
    PROVE  /\ Shaped(Upserted(Building, owner, page, hs, FALSE).bank)
           /\ Upserted(Building, owner, page, hs, FALSE).bank.active
           /\ Upserted(Building, owner, page, hs, FALSE).refs =
                Recounted(refs, pending, Upserted(Building, owner, page, hs, FALSE).bank)
           /\ IsField => Owed(Upserted(Building, owner, page, hs, FALSE).bank)
BY UpdateIs, Zenon

LEMMA PassiveHolds ==
    ASSUME NEW given, Shaped(given.bank), Shaped(Origin),
           given.refs \in [Handles -> Int],
           ~given.bank.active => Held(given.bank) = {},
           NEW owner, NEW page, NEW hs
    PROVE  /\ Shaped(Upserted(given, owner, page, hs, FALSE).bank)
           /\ Upserted(given, owner, page, hs, FALSE).bank.active
           /\ Upserted(given, owner, page, hs, FALSE).refs =
                Recounted(given.refs, given.bank, Upserted(given, owner, page, hs, FALSE).bank)
<1>1. ASSUME NEW draws \in BOOLEAN
      PROVE  /\ Shaped(Upserted(given, owner, page, hs, draws).bank)
             /\ Upserted(given, owner, page, hs, draws).bank.active
             /\ Upserted(given, owner, page, hs, draws).refs =
                  Recounted(given.refs, given.bank, Upserted(given, owner, page, hs, draws).bank)
    BY UpsertedHolds
<1> QED
    BY <1>1, Zenon

LEMMA PassiveOwes ==
    ASSUME NEW given, Shaped(given.bank), Shaped(Origin), IsField, Sealed(Origin),
           NEW owner, NEW page, NEW hs, Owed(given.bank)
    PROVE  Owed(Upserted(given, owner, page, hs, FALSE).bank)
BY UpsertedOwes, Zenon

LEMMA IngressFailsStep ==
    ASSUME CompositorInv, NEW page, NEW hs, NEW draws \in BOOLEAN, NEW where,
           IngressFails(page, hs, draws, where)
    PROVE  CompositorInv'
<1> DEFINE taken == Upserted(Building, "main", page, {}, FALSE)
           partly == Upserted(Building, "main", page, hs, draws)
<1>1. /\ stage = "open"
      /\ UNCHANGED <<module, retained, root, completed, submitted, displayed,
                     replaced, prepared, stage>>
      /\ \/ /\ ~pending.active
            /\ pending' = [NoBank EXCEPT !.blocked = TRUE] /\ refs' = refs
         \/ pending' = [taken.bank EXCEPT !.blocked = TRUE] /\ refs' = taken.refs
         \/ /\ pending' = [partly.bank EXCEPT !.blocked = TRUE,
                                              !.required = taken.bank.required]
            /\ refs' = partly.refs
    BY DEF IngressFails
<1>2. /\ Shaped(taken.bank) /\ taken.bank.active
      /\ taken.refs = Recounted(refs, pending, taken.bank)
    BY PassiveUpdateIs
<1>3. /\ Shaped(partly.bank) /\ partly.bank.active
      /\ partly.refs = Recounted(refs, pending, partly.bank)
    BY UpdateIs
<1> HIDE DEF taken, partly
<1>4. /\ Shaped(pending') /\ pending'.blocked
      /\ pending'.active \/ Held(pending') = {}
      /\ refs' = Recounted(refs, pending, pending')
    <2>1. CASE /\ ~pending.active
               /\ pending' = [NoBank EXCEPT !.blocked = TRUE] /\ refs' = refs
        <3>1. Shaped(pending') /\ pending'.blocked /\ Held(pending') = {}
            BY <2>1 DEF NoBank, Shaped, Held, Fields
        <3>2. Held(pending) = {} /\ refs \in [Handles -> Int]
            BY <2>1, CountsAreNumbers DEF CompositorInv, Started, Balance
        <3>3. Recounted(refs, pending, pending') = refs
            BY <3>1, <3>2, RecountedSame
        <3> QED
            BY <2>1, <3>1, <3>3
    <2>2. CASE pending' = [taken.bank EXCEPT !.blocked = TRUE] /\ refs' = taken.refs
        <3>1. /\ Shaped(pending') /\ pending'.blocked /\ pending'.active = taken.bank.active
              /\ Held(pending') = Held(taken.bank)
            BY <1>2, <2>2 DEF Shaped, Held, Fields
        <3>2. Recounted(refs, pending, pending') = Recounted(refs, pending, taken.bank)
            BY <3>1, RecountedHeld
        <3> QED
            BY <1>2, <2>2, <3>1, <3>2
    <2>3. CASE /\ pending' = [partly.bank EXCEPT !.blocked = TRUE,
                                                 !.required = taken.bank.required]
               /\ refs' = partly.refs
        <3>1. /\ Shaped(pending') /\ pending'.blocked /\ pending'.active = partly.bank.active
              /\ Held(pending') = Held(partly.bank)
            BY <1>3, <2>3 DEF Shaped, Held, Fields
        <3>2. Recounted(refs, pending, pending') = Recounted(refs, pending, partly.bank)
            BY <3>1, RecountedHeld
        <3> QED
            BY <1>3, <2>3, <3>1, <3>2
    <2> QED
        BY <1>1, <2>1, <2>2, <2>3
<1> QED
    BY <1>1, <1>4, Builds DEF Owed

(* A movie frame is two updates, one after the other.                      *)
LEMMA SecondUpdateIs ==
    ASSUME CompositorInv, NEW pass, NEW owner, NEW page, NEW hs,
           Shaped(pass.bank), pass.bank.active, IsField => Owed(pass.bank),
           pass.refs = Recounted(refs, pending, pass.bank)
    PROVE  /\ Shaped(Upserted(pass, owner, page, hs, FALSE).bank)
           /\ Upserted(pass, owner, page, hs, FALSE).bank.active
           /\ Upserted(pass, owner, page, hs, FALSE).refs =
                Recounted(refs, pending, Upserted(pass, owner, page, hs, FALSE).bank)
           /\ IsField => Owed(Upserted(pass, owner, page, hs, FALSE).bank)
<1>1. Shaped(Origin) /\ (IsField => Sealed(Origin))
    BY OriginIsSound
<1>2. refs \in [Handles -> Int]
    BY CountsAreNumbers DEF CompositorInv, Balance
<1>3. pass.refs \in [Handles -> Int]
    BY <1>2, RecountedIsNumbers
<1>4. ~pass.bank.active => Held(pass.bank) = {}
    OBVIOUS
<1>5. /\ Shaped(Upserted(pass, owner, page, hs, FALSE).bank)
      /\ Upserted(pass, owner, page, hs, FALSE).bank.active
      /\ Upserted(pass, owner, page, hs, FALSE).refs =
           Recounted(pass.refs, pass.bank, Upserted(pass, owner, page, hs, FALSE).bank)
    BY ONLY <1>1, <1>3, <1>4, Shaped(pass.bank), PassiveHolds, Zenon
<1>6. IsField => Owed(Upserted(pass, owner, page, hs, FALSE).bank)
    BY <1>1, PassiveOwes, Zenon
<1>7. Upserted(pass, owner, page, hs, FALSE).refs
        = Recounted(refs, pending, Upserted(pass, owner, page, hs, FALSE).bank)
    <2> DEFINE done == Upserted(pass, owner, page, hs, FALSE)
    <2>1. done.refs = Recounted(pass.refs, pass.bank, done.bank)
        BY ONLY <1>5
    <2> HIDE DEF done
    <2>2. Recounted(Recounted(refs, pending, pass.bank), pass.bank, done.bank)
            = Recounted(refs, pending, done.bank)
        BY <1>2, RecountedTwice
    <2>3. done.refs = Recounted(refs, pending, done.bank)
        BY <2>1, <2>2
    <2> QED
        BY ONLY <2>3 DEF done
<1> QED
    BY <1>5, <1>6, <1>7

LEMMA MovieFrameStep ==
    ASSUME CompositorInv, NEW page, NEW picture, MovieFrame(page, picture)
    PROVE  CompositorInv'
<1> DEFINE pass == Upserted(Building, "main", page, {page}, FALSE)
           done == Upserted(pass, "movie", page, {picture}, FALSE)
<1>1. /\ stage = "open" /\ pending' = done.bank /\ refs' = done.refs
      /\ UNCHANGED <<module, retained, root, completed, submitted, displayed,
                     replaced, prepared, stage>>
    BY DEF MovieFrame
<1>2. /\ Shaped(pass.bank) /\ pass.bank.active /\ (IsField => Owed(pass.bank))
      /\ pass.refs = Recounted(refs, pending, pass.bank)
    BY PassiveUpdateIs
<1> HIDE DEF pass
<1>3. /\ Shaped(done.bank) /\ done.bank.active /\ (IsField => Owed(done.bank))
      /\ done.refs = Recounted(refs, pending, done.bank)
    BY <1>2, SecondUpdateIs
<1> HIDE DEF done
<1> QED
    BY <1>1, <1>3, Builds

-----------------------------------------------------------------------------
(* Rebinding, giving up what is built, and sealing.                        *)
LEMMA RejectFrameStep ==
    ASSUME CompositorInv, NEW page, RejectFrame(page)
    PROVE  CompositorInv'
<1>1. /\ UNCHANGED <<module, pending, retained, root, completed, submitted,
                     displayed, replaced, prepared, stage, refs>>
    BY DEF RejectFrame
<1>2. Banks' = Banks
    BY <1>1, BanksAre, BanksWillBe
<1> QED
    BY <1>1, <1>2 DEF CompositorInv, Tables, Shapes, Preparing, Started, Balance,
       Sealing, IsField, PreparedAt

LEMMA InvalidateBuildingStep ==
    ASSUME CompositorInv, InvalidateBuilding
    PROVE  CompositorInv'
<1>1. /\ stage = "open" /\ pending' = NoBank /\ root' = NoBank
      /\ refs' = Released(Released(refs, Held(pending)), Held(root))
      /\ UNCHANGED <<module, retained, completed, submitted, displayed, replaced,
                     prepared, stage>>
    BY DEF InvalidateBuilding
<1>2. root = NoBank /\ Held(root) = {}
    BY <1>1, NoBankIsEmpty DEF CompositorInv, Preparing
<1>3. refs \in [Handles -> Int]
    BY CountsAreNumbers DEF CompositorInv, Balance
<1>4. refs' = Recounted(refs, pending, pending')
    <2>1. Held(pending') = {}
        BY <1>1, NoBankIsEmpty
    <2>2. Released(refs, Held(pending) \ Held(pending')) = Recounted(refs, pending, pending')
        BY <1>3, <2>1, ReleasedIs
    <2>3. Released(refs, Held(pending)) = Recounted(refs, pending, pending')
        <3>1. Held(pending) \ Held(pending') = Held(pending)
            BY <2>1
        <3> QED
            BY <2>2, <3>1
    <2>4. \A c \in [Handles -> Int] : Released(c, {}) = c
        BY DEF Released
    <2> QED
        BY <1>1, <1>2, <1>3, <2>3, <2>4, RecountedIsNumbers
<1>5. Shaped(pending') /\ Held(pending') = {} /\ Owed(pending')
    BY <1>1, NoBankIsEmpty DEF Owed, Sealed
<1> QED
    BY <1>1, <1>2, <1>4, <1>5, Builds

(* A step that changes nothing but the retained bank.                      *)
LEMMA Retains ==
    ASSUME CompositorInv, stage = "open",
           UNCHANGED <<module, pending, root, completed, submitted, displayed,
                       replaced, prepared, stage>>,
           Shaped(retained'), retained'.drawn = retained.drawn,
           refs' = Recounted(refs, retained, retained')
    PROVE  CompositorInv'
<1>1. /\ Banks[RetainedAt] = retained /\ Banks'[RetainedAt] = retained'
      /\ RetainedAt \in Places
    BY RetainedIs, BanksWillBe, TableIs DEF CompositorInv
<1>2. \A q \in Places \ {RetainedAt} : Banks'[q] = Banks[q]
    <2>1. /\ Banks'[PendingAt] = Banks[PendingAt] /\ Banks'[RootAt] = Banks[RootAt]
          /\ \A s \in CompletedSlots :
               Banks'[<<"completed", s>>] = Banks[<<"completed", s>>]
          /\ \A s \in DisplayedSlots :
               Banks'[<<"displayed", s>>] = Banks[<<"displayed", s>>]
        BY BanksAre, BanksWillBe, TableIs
    <2> QED
        BY <2>1, PlacesAre
<1>3. Shapes' /\ Balance'
    BY <1>1, <1>2, OneBank DEF CompositorInv
<1>4. Tables' /\ Preparing' /\ Started'
    BY DEF CompositorInv, Tables, Preparing, Started, PreparedAt
<1>5. Sealing'
    BY <1>1, <1>2 DEF CompositorInv, Sealing, IsField, Sealed
<1> QED
    BY <1>3, <1>4, <1>5 DEF CompositorInv

LEMMA RebindStep ==
    ASSUME CompositorInv, NEW previous \in Textures, NEW next \in Textures,
           Rebind(previous, next)
    PROVE  CompositorInv'
<1> DEFINE bank == IF pending.active THEN pending ELSE retained
<1>1. PICK new :
        /\ \/ \E owners \in SUBSET bank.uses[previous] \ {{}} :
                /\ new = Rebound(bank, owners, next)
                /\ refs' = Acquired(refs, Held(new) \ Held(bank))
           \/ new = [bank EXCEPT !.blocked = TRUE] /\ refs' = refs
        /\ IF pending.active THEN pending' = new /\ retained' = retained
           ELSE retained' = new /\ pending' = pending
    BY DEF Rebind
<1>2. /\ stage = "open" /\ bank.active
      /\ UNCHANGED <<module, root, completed, submitted, displayed, replaced,
                     prepared, stage>>
    BY DEF Rebind
<1>3. Shaped(pending) /\ Shaped(retained)
    BY PendingIs, RetainedIs DEF CompositorInv
<1>4. refs \in [Handles -> Int]
    BY CountsAreNumbers DEF CompositorInv, Balance
<1>5. Shaped(bank)
    BY <1>3
<1> HIDE DEF bank
<1>6. /\ Shaped(new) /\ new.drawn = bank.drawn /\ new.active = bank.active
      /\ new.required = bank.required /\ (bank.blocked => new.blocked)
      /\ refs' = Recounted(refs, bank, new)
    <2>1. CASE \E owners \in SUBSET bank.uses[previous] \ {{}} :
                 /\ new = Rebound(bank, owners, next)
                 /\ refs' = Acquired(refs, Held(new) \ Held(bank))
        <3>1. PICK owners : /\ new = Rebound(bank, owners, next)
                            /\ refs' = Acquired(refs, Held(new) \ Held(bank))
            BY <2>1
        <3>2. next \in Handles
            BY DEF Handles
        <3>3. /\ Shaped(new) /\ new.drawn = bank.drawn /\ new.active = bank.active
              /\ new.required = bank.required /\ new.blocked = bank.blocked
              /\ Held(bank) \subseteq Held(new)
            BY <1>5, <3>1, <3>2 DEF Rebound, Shaped, Held, Fields
        <3>4. refs' = Recounted(refs, bank, new)
            BY <1>4, <3>1, <3>3, AcquiredIs
        <3> QED
            BY <3>3, <3>4
    <2>2. CASE new = [bank EXCEPT !.blocked = TRUE] /\ refs' = refs
        <3>1. /\ Shaped(new) /\ new.drawn = bank.drawn /\ new.active = bank.active
              /\ new.required = bank.required /\ new.blocked
              /\ Held(bank) = Held(new)
            BY <1>5, <2>2 DEF Shaped, Held, Fields
        <3> QED
            BY <1>4, <2>2, <3>1, RecountedSame
    <2> QED
        BY <1>1, <2>1, <2>2
<1>7. CASE pending.active
    <2>1. bank = pending /\ pending' = new /\ retained' = retained
        BY <1>1, <1>7 DEF bank
    <2>2. pending'.active /\ (IsField => Owed(pending'))
        BY <1>6, <1>7, <2>1 DEF Owed, CompositorInv, Sealing
    <2> QED
        BY <1>2, <1>6, <2>1, <2>2, Builds
<1>8. CASE ~pending.active
    <2>1. bank = retained /\ retained' = new /\ pending' = pending
        BY <1>1, <1>8 DEF bank
    <2> QED
        BY <1>2, <1>6, <2>1, Retains
<1> QED
    BY <1>7, <1>8

(* A submission is sealed into its slot: two banks change.                 *)
LEMMA CompleteStep ==
    ASSUME CompositorInv, NEW area, Complete(area)
    PROVE  CompositorInv'
<1> DEFINE same == {s \in CompletedSlots : completed[s].area = area}
           slot == SlotFor(CompletedSlots, submitted, same)
           at == <<"completed", slot>>
           kept == [Settled(Moved(pending), "open", "whole")
                      EXCEPT !.required = FALSE, !.page = NoPage]
<1>1. /\ stage = "open"
      /\ refs' = Released(refs, Held(completed[slot].bank))
      /\ completed' = [completed EXCEPT ![slot] = [bank |-> kept, area |-> area]]
      /\ submitted' = Append(Without(submitted, slot), slot)
      /\ pending' = NoBank
      /\ UNCHANGED <<module, retained, root, displayed, replaced, prepared, stage>>
    BY DEF Complete
<1>2. slot \in CompletedSlots
    <2>1. same \in SUBSET (1..CompletedCapacity) /\ submitted \in Seq(1..CompletedCapacity)
        BY DEF CompositorInv, Tables, CompletedSlots
    <2> HIDE DEF same
    <2> QED
        BY <2>1, SlotForIn, CapacityAssumption DEF CompletedSlots
<1> HIDE DEF slot
<1>3. Shaped(kept) /\ Held(kept) = Held(pending) /\ Sealed(kept)
    <2>1. Shaped(Moved(pending)) /\ Held(Moved(pending)) = Held(pending)
        BY PendingIs, MovedHolds DEF CompositorInv
    <2>2. /\ Shaped(Settled(Moved(pending), "open", "whole"))
          /\ Held(Settled(Moved(pending), "open", "whole")) = Held(pending)
          /\ "open" \notin Settled(Moved(pending), "open", "whole").drawn
        BY <2>1, SettledHolds
    <2> QED
        BY <2>2 DEF Shaped, Held, Sealed, Fields
<1> HIDE DEF kept
<1>4. /\ at \in Places /\ PendingAt \in Places /\ PendingAt # at
      /\ Banks[PendingAt] = pending /\ Banks'[PendingAt] = NoBank
      /\ Banks[at] = completed[slot].bank /\ Banks'[at] = kept
      /\ DOMAIN Banks = Places
    <2>1. at \in Places /\ PendingAt \in Places /\ PendingAt # at
        BY <1>2, PlacesAre DEF PendingAt
    <2>2. Banks[PendingAt] = pending /\ Banks[at] = completed[slot].bank /\ DOMAIN Banks = Places
        BY <1>2, BanksAre, TableIs
    <2>3. Banks'[PendingAt] = pending' /\ Banks'[at] = completed'[slot].bank
        BY <1>2, BanksWillBe, TableIs
    <2>4. completed'[slot].bank = kept
        BY <1>1, <1>2 DEF CompositorInv, Tables
    <2> QED
        BY <1>1, <2>1, <2>2, <2>3, <2>4
<1>5. \A q \in Places \ {PendingAt, at} : Banks'[q] = Banks[q]
    <2>1. /\ Banks'[RetainedAt] = Banks[RetainedAt] /\ Banks'[RootAt] = Banks[RootAt]
          /\ \A s \in CompletedSlots : Banks[<<"completed", s>>] = completed[s].bank
          /\ \A s \in CompletedSlots : Banks'[<<"completed", s>>] = completed'[s].bank
          /\ \A s \in DisplayedSlots :
               Banks'[<<"displayed", s>>] = Banks[<<"displayed", s>>]
        <3>1. retained' = retained /\ root' = root /\ displayed' = displayed
            BY <1>1
        <3> QED
            BY ONLY <3>1, BanksAre, BanksWillBe, TableIs
    <2>2. \A s \in CompletedSlots \ {slot} : completed'[s] = completed[s]
        BY <1>1 DEF CompositorInv, Tables
    <2> QED
        BY <2>1, <2>2, PlacesAre
<1>6. Shapes'
    BY <1>3, <1>4, <1>5, NoBankIsEmpty DEF CompositorInv, Shapes
<1>7. Balance'
    <2> DEFINE between == Recounted(refs, pending, NoBank)
               old == completed[slot].bank
    <2>1. refs \in [Handles -> Int]
        BY CountsAreNumbers DEF CompositorInv, Balance
    <2>2. Counts(Banks', Recounted(between, old, kept))
        <3>1. \A o \in Places \ {PendingAt, at} : Held(Banks'[o]) = Held(Banks[o])
            BY <1>5
        <3>2. Counts(Banks, refs)
            BY DEF CompositorInv, Balance
        <3>3. Counts(Banks', Recounted(Recounted(refs, Banks[PendingAt], Banks'[PendingAt]),
                                       Banks[at], Banks'[at]))
            BY <1>4, <3>1, <3>2, TwoPlaces
        <3> QED
            BY <1>4, <3>3
    <2>3. Recounted(between, old, kept) = Recounted(refs, old, NoBank)
        <3>1. \A h \in Handles : refs[h] \in Int
            BY <2>1
        <3>2. \A h \in Handles : In(h, kept) = In(h, pending) /\ In(h, NoBank) = 0
            BY <1>3, NoBankIsEmpty DEF In
        <3>3. \A h \in Handles : Recounted(between, old, kept)[h] = Recounted(refs, old, NoBank)[h]
            BY <3>1, <3>2, InIsNumber DEF Recounted
        <3> QED
            BY <3>3 DEF Recounted
    <2>4. Released(refs, Held(old)) = Recounted(refs, old, NoBank)
        <3>1. Held(old) \ Held(NoBank) = Held(old)
            BY NoBankIsEmpty
        <3> QED
            BY <2>1, <3>1, NoBankIsEmpty, ReleasedIs
    <2> QED
        BY <1>1, <2>2, <2>3, <2>4 DEF Balance
<1>8. Tables'
    <2>1. DOMAIN completed' = CompletedSlots
        BY <1>1 DEF CompositorInv, Tables
    <2>2. \A s \in CompletedSlots : DOMAIN completed'[s] = {"bank", "area"}
        BY <1>1 DEF CompositorInv, Tables
    <2>3. submitted' \in Seq(CompletedSlots)
        <3>1. Without(submitted, slot) \in Seq(CompletedSlots)
            BY WithoutSeq DEF CompositorInv, Tables
        <3> QED
            BY ONLY <1>1, <1>2, <3>1, AppendProperties
    <2> QED
        BY <1>1, <2>1, <2>2, <2>3 DEF CompositorInv, Tables
<1>9. Preparing' /\ Started'
    BY <1>1, NoBankIsEmpty DEF CompositorInv, Preparing, Started, PreparedAt
<1>10. Sealing'
    <2>1. prepared'.bank # "pending"
        BY <1>1 DEF CompositorInv, Preparing
    <2>2. Owed(pending')
        BY <1>1, NoBankIsEmpty DEF Owed, Sealed
    <2>3. IsField' = IsField
        BY <1>1 DEF IsField
    <2>4. IsField => \A p \in Places \ {PendingAt} : Sealed(Banks'[p])
        BY <1>3, <1>4, <1>5 DEF CompositorInv, Sealing
    <2> QED
        BY <2>1, <2>2, <2>3, <2>4 DEF Sealing
<1> QED
    BY <1>6, <1>7, <1>8, <1>9, <1>10 DEF CompositorInv

-----------------------------------------------------------------------------
(* What a boundary prepares.                                               *)
LEMMA ExchangedIs ==
    ASSUME NEW counts \in [Handles -> Int], NEW a, NEW b
    PROVE  Released(Acquired(counts, Held(b) \ Held(a)), Held(a) \ Held(b))
             = Recounted(counts, a, b)
<1>1. \A h \in Handles : counts[h] \in Int
    OBVIOUS
<1>2. \A h \in Handles :
        Released(Acquired(counts, Held(b) \ Held(a)), Held(a) \ Held(b))[h]
          = Recounted(counts, a, b)[h]
    BY <1>1 DEF Acquired, Released, Recounted, In
<1> QED
    BY <1>2 DEF Released, Recounted

(* A picture is always found in a place, and a building bank of a field    *)
(* scene only when it waits for nothing.                                   *)
LEMMA ChoiceIs ==
    ASSUME CompositorInv, NEW page
    PROVE  /\ DOMAIN Choice(page) = {"kind", "bank", "slot"}
           /\ Choice(page).bank # "none" =>
                <<Choice(page).bank, Choice(page).slot>> \in Places \ {RetainedAt}
           /\ Choice(page).bank = "pending" =>
                pending.active /\ (IsField => PendingIsWhole)
<1> DEFINE found == Choice(page)
<1>1. \/ found = NotPrepared
      \/ /\ found = Found("pending", 0) /\ pending.active
         /\ IsField => PendingIsWhole
      \/ found = Found("root", 0)
      \/ Candidate(page) # 0 /\ found = Found("completed", Candidate(page))
      \/ DisplayedFor(page) # 0 /\ found = Found("displayed", DisplayedFor(page))
    BY DEF Choice, FieldChoice, SceneChoice, PendingIsWhole
<1>2. Candidate(page) # 0 => Candidate(page) \in CompletedSlots
    BY NewestOfIn DEF Candidate, CompositorInv, Tables
<1>3. DisplayedFor(page) # 0 => DisplayedFor(page) \in DisplayedSlots
    BY NewestOfIn DEF DisplayedFor, CompositorInv, Tables
<1> HIDE DEF found
<1>4. /\ DOMAIN found = {"kind", "bank", "slot"}
      /\ found.bank # "none" => <<found.bank, found.slot>> \in Places \ {RetainedAt}
      /\ found.bank = "pending" => pending.active /\ (IsField => PendingIsWhole)
    <2>1. CASE found = NotPrepared
        BY <2>1 DEF NotPrepared
    <2>2. CASE found = Found("pending", 0) /\ pending.active /\ (IsField => PendingIsWhole)
        BY <2>2, PlacesAre DEF Found, PendingAt, RetainedAt
    <2>3. CASE found = Found("root", 0)
        BY <2>3, PlacesAre DEF Found, RootAt, RetainedAt
    <2>4. CASE Candidate(page) # 0 /\ found = Found("completed", Candidate(page))
        BY <1>2, <2>4, PlacesAre DEF Found, RetainedAt
    <2>5. CASE DisplayedFor(page) # 0 /\ found = Found("displayed", DisplayedFor(page))
        BY <1>3, <2>5, PlacesAre DEF Found, RetainedAt
    <2> QED
        BY <1>1, <2>1, <2>2, <2>3, <2>4, <2>5
<1> QED
    BY <1>4 DEF found

(* A bank put into a place leaves the others alone.                        *)
LEMMA PutPlace ==
    ASSUME CompositorInv, NEW choice, NEW bank,
           <<choice.bank, choice.slot>> \in Places \ {RetainedAt},
           Put(choice, bank), retained' = retained
    PROVE  /\ Banks'[<<choice.bank, choice.slot>>] = bank
           /\ \A q \in Places \ {<<choice.bank, choice.slot>>} : Banks'[q] = Banks[q]
           /\ DOMAIN completed' = CompletedSlots
           /\ \A s \in CompletedSlots : DOMAIN completed'[s] = {"bank", "area"}
           /\ DOMAIN displayed' = DisplayedSlots
           /\ choice.bank # "pending" => pending' = pending
           /\ choice.bank = "pending" => pending' = bank
           /\ choice.bank # "root" => root' = root
           /\ choice.bank = "root" => root' = bank
<1> DEFINE p == <<choice.bank, choice.slot>>
<1>1. /\ pending' = IF choice.bank = "pending" THEN bank ELSE pending
      /\ root' = IF choice.bank = "root" THEN bank ELSE root
      /\ choice.bank # "completed" => completed' = completed
      /\ choice.bank = "completed" =>
           completed' = [completed EXCEPT ![choice.slot] =
                            IF bank = NoBank THEN NoSubmission
                            ELSE [@ EXCEPT !.bank = bank]]
      /\ choice.bank # "displayed" => displayed' = displayed
      /\ choice.bank = "displayed" => displayed' = [displayed EXCEPT ![choice.slot] = bank]
    BY DEF Put
<1>2. Tables
    BY DEF CompositorInv
<1>3. \/ p = PendingAt \/ p = RootAt
      \/ \E s \in CompletedSlots : p = <<"completed", s>>
      \/ \E s \in DisplayedSlots : p = <<"displayed", s>>
    BY PlacesAre
<1>4. /\ Banks[PendingAt] = pending /\ Banks[RetainedAt] = retained /\ Banks[RootAt] = root
      /\ \A s \in CompletedSlots : Banks[<<"completed", s>>] = completed[s].bank
      /\ \A s \in DisplayedSlots : Banks[<<"displayed", s>>] = displayed[s]
    BY ONLY BanksAre, TableIs
<1>5. /\ Banks'[PendingAt] = pending' /\ Banks'[RetainedAt] = retained'
      /\ Banks'[RootAt] = root'
      /\ \A s \in CompletedSlots : Banks'[<<"completed", s>>] = completed'[s].bank
      /\ \A s \in DisplayedSlots : Banks'[<<"displayed", s>>] = displayed'[s]
    BY ONLY BanksWillBe, TableIs
<1>6. CASE p = PendingAt
    <2>1. choice.bank = "pending"
        BY <1>6 DEF PendingAt
    <2> QED
        BY <1>1, <1>2, <1>4, <1>5, <1>6, <2>1, PlacesAre DEF Tables
<1>7. CASE p = RootAt
    <2>1. choice.bank = "root"
        BY <1>7 DEF RootAt
    <2> QED
        BY <1>1, <1>2, <1>4, <1>5, <1>7, <2>1, PlacesAre DEF Tables
<1>8. ASSUME NEW s \in CompletedSlots, p = <<"completed", s>>
      PROVE  /\ Banks'[p] = bank /\ \A q \in Places \ {p} : Banks'[q] = Banks[q]
             /\ DOMAIN completed' = CompletedSlots
             /\ \A t \in CompletedSlots : DOMAIN completed'[t] = {"bank", "area"}
             /\ displayed' = displayed /\ choice.bank = "completed"
    <2>1. choice.bank = "completed" /\ choice.slot = s
        BY <1>8
    <2>2. /\ completed' = [completed EXCEPT ![s] = IF bank = NoBank THEN NoSubmission
                                                   ELSE [@ EXCEPT !.bank = bank]]
          /\ pending' = pending /\ root' = root /\ displayed' = displayed
        BY <1>1, <2>1
    <2>3. completed'[s].bank = bank /\ DOMAIN completed'[s] = {"bank", "area"}
        BY <1>2, <2>2 DEF Tables, NoSubmission
    <2>4. /\ DOMAIN completed' = CompletedSlots
          /\ \A t \in CompletedSlots \ {s} : completed'[t] = completed[t]
        BY <1>2, <2>2 DEF Tables
    <2>5. \A t \in CompletedSlots : DOMAIN completed'[t] = {"bank", "area"}
        BY <1>2, <2>3, <2>4 DEF Tables
    <2>6. \A q \in Places \ {p} : Banks'[q] = Banks[q]
        BY ONLY <1>4, <1>5, <1>8, <2>2, <2>4, PlacesAre, retained' = retained
    <2> QED
        BY <1>5, <1>8, <2>1, <2>2, <2>3, <2>4, <2>5, <2>6
<1>9. ASSUME NEW s \in DisplayedSlots, p = <<"displayed", s>>
      PROVE  /\ Banks'[p] = bank /\ \A q \in Places \ {p} : Banks'[q] = Banks[q]
             /\ DOMAIN displayed' = DisplayedSlots
             /\ completed' = completed /\ choice.bank = "displayed"
    <2>1. choice.bank = "displayed" /\ choice.slot = s
        BY <1>9
    <2>2. /\ displayed' = [displayed EXCEPT ![s] = bank]
          /\ pending' = pending /\ root' = root /\ completed' = completed
        BY <1>1, <2>1
    <2>3. /\ DOMAIN displayed' = DisplayedSlots /\ displayed'[s] = bank
          /\ \A t \in DisplayedSlots \ {s} : displayed'[t] = displayed[t]
        BY <1>2, <2>2 DEF Tables
    <2>4. \A q \in Places \ {p} : Banks'[q] = Banks[q]
        BY ONLY <1>4, <1>5, <1>9, <2>2, <2>3, PlacesAre, retained' = retained
    <2> QED
        BY <1>5, <1>9, <2>1, <2>2, <2>3, <2>4
<1> QED
    BY <1>1, <1>2, <1>3, <1>6, <1>7, <1>8, <1>9 DEF Tables

LEMMA BankOfIs ==
    ASSUME CompositorInv, stage = "open", NEW page, Choice(page).bank # "none"
    PROVE  /\ Shaped(BankOf(Choice(page)))
           /\ Choice(page).bank # "root" =>
                BankOf(Choice(page)) = Banks[<<Choice(page).bank, Choice(page).slot>>]
           /\ (IsField /\ Choice(page).bank # "pending") => Sealed(BankOf(Choice(page)))
<1> DEFINE choice == Choice(page)
           p == <<choice.bank, choice.slot>>
<1>1. p \in Places \ {RetainedAt}
    BY ChoiceIs
<1> HIDE DEF choice
<1>2. CASE choice.bank = "root"
    <2>1. BankOf(choice) = Cloned(retained)
        BY <1>2 DEF BankOf
    <2>2. Shaped(retained) /\ Banks[RetainedAt] = retained /\ RetainedAt \in Places
        BY RetainedIs DEF CompositorInv
    <2>3. IsField => Sealed(retained)
        BY <2>2 DEF CompositorInv, Sealing, RetainedAt, PendingAt
    <2>4. Shaped(Cloned(retained)) /\ Cloned(retained).drawn = retained.drawn
        BY <2>2, MovedHolds
    <2> QED
        BY <1>2, <2>1, <2>3, <2>4 DEF choice, Sealed
<1>3. CASE choice.bank # "root"
    <2>1. BankOf(choice) = BankAt(choice.bank, choice.slot)
        BY <1>3 DEF BankOf
    <2>2. BankAt(choice.bank, choice.slot) = Banks[p]
        BY <1>1, BankOfPlace
    <2>3. Shaped(Banks[p])
        BY <1>1 DEF CompositorInv, Shapes
    <2>4. choice.bank # "pending" => p # PendingAt
        BY DEF PendingAt
    <2>5. (IsField /\ choice.bank # "pending") => Sealed(Banks[p])
        BY <1>1, <2>4 DEF CompositorInv, Sealing
    <2> QED
        BY <2>1, <2>2, <2>3, <2>5 DEF choice
<1> QED
    BY <1>2, <1>3

(* Nothing is prepared, in whatever way.                                   *)
LEMMA PreparesNothing ==
    ASSUME CompositorInv, NEW kind, kind # "endpoint", Closing(kind, NotPrepared),
           UNCHANGED <<module, pending, retained, root, completed, submitted,
                       displayed, replaced, refs>>, stage = "open"
    PROVE  CompositorInv'
<1>1. prepared'.bank = "none" /\ prepared'.kind = kind /\ stage' = "closing"
    BY DEF Closing, NotPrepared
<1>2. Preparing'
    BY <1>1 DEF CompositorInv, Preparing
<1>3. Shaped(pending) /\ Started
    BY PendingIs DEF CompositorInv
<1>4. refs' = Recounted(refs, pending, pending')
    BY CountsAreNumbers, RecountedSame DEF CompositorInv, Balance
<1>5. IsField => Owed(pending')
    BY DEF CompositorInv, Sealing
<1> QED
    BY <1>1, <1>2, <1>3, <1>4, <1>5, ChangesPending DEF Started

(* The bank of the choice is prepared, possibly with another target.       *)
LEMMA PreparesBank ==
    ASSUME CompositorInv, stage = "open", NEW page, NEW kind, NEW moved,
           Choice(page).bank # "none",
           Put(Choice(page), moved), Closing(kind, Choice(page)),
           UNCHANGED <<module, retained, submitted, replaced>>,
           Shaped(moved),
           moved.drawn = BankOf(Choice(page)).drawn,
           moved.active = BankOf(Choice(page)).active,
           moved.required = BankOf(Choice(page)).required,
           moved.blocked = BankOf(Choice(page)).blocked,
           refs' = Recounted(refs, Banks[<<Choice(page).bank, Choice(page).slot>>], moved),
           kind = "endpoint" => ~BankOf(Choice(page)).blocked
    PROVE  CompositorInv'
<1> DEFINE choice == Choice(page)
           p == <<choice.bank, choice.slot>>
<1>1. /\ DOMAIN choice = {"kind", "bank", "slot"} /\ p \in Places \ {RetainedAt}
      /\ choice.bank = "pending" => pending.active /\ (IsField => PendingIsWhole)
    BY ChoiceIs
<1>2. /\ Banks'[p] = moved /\ \A q \in Places \ {p} : Banks'[q] = Banks[q]
      /\ DOMAIN completed' = CompletedSlots
      /\ \A s \in CompletedSlots : DOMAIN completed'[s] = {"bank", "area"}
      /\ DOMAIN displayed' = DisplayedSlots
      /\ choice.bank # "pending" => pending' = pending
      /\ choice.bank = "pending" => pending' = moved
      /\ choice.bank # "root" => root' = root
    BY <1>1, PutPlace
<1>3. /\ choice.bank # "root" => BankOf(choice) = Banks[p]
      /\ (IsField /\ choice.bank # "pending") => Sealed(BankOf(choice))
    BY BankOfIs
<1>4. stage' = "closing" /\ prepared' = [choice EXCEPT !.kind = kind]
    BY DEF Closing
<1>5. refs' = Recounted(refs, Banks[p], moved)
    OBVIOUS
<1> HIDE DEF choice
<1>6. Shapes' /\ Balance'
    BY <1>1, <1>2, <1>5, OneBank DEF CompositorInv
<1>7. /\ prepared'.bank = choice.bank /\ prepared'.slot = choice.slot
      /\ prepared'.kind = kind
    BY <1>1, <1>4
<1>8. Preparing'
    <2>1. choice.bank # "root" => root' = NoBank
        BY <1>2 DEF CompositorInv, Preparing
    <2>2. choice.bank # "none"
        BY DEF choice
    <2> QED
        BY <1>1, <1>4, <1>7, <2>1, <2>2 DEF Preparing, PreparedAt
<1>9. Tables'
    BY <1>2 DEF CompositorInv, Tables
<1>10. choice.bank = "pending" => p = PendingAt /\ BankOf(choice) = pending
    <2>1. Banks[PendingAt] = pending
        BY PendingIs DEF CompositorInv
    <2>2. choice.bank = "pending" => p = PendingAt
        BY <1>1 DEF Places, PendingAt
    <2> QED
        BY <1>3, <2>1, <2>2
<1>11. /\ moved.drawn = BankOf(choice).drawn /\ moved.active = BankOf(choice).active
       /\ moved.required = BankOf(choice).required /\ moved.blocked = BankOf(choice).blocked
       /\ kind = "endpoint" => ~BankOf(choice).blocked
    BY DEF choice
<1>12. Started'
    BY <1>1, <1>2, <1>10, <1>11 DEF CompositorInv, Started
<1>13. Sealing'
    <2> SUFFICES ASSUME IsField
                 PROVE  /\ \A q \in Places \ {PendingAt} : Sealed(Banks'[q])
                        /\ Owed(pending')
                        /\ (kind = "endpoint" /\ choice.bank = "pending") => Sealed(pending')
        BY <1>7 DEF Sealing, IsField
    <2>1. Owed(pending) /\ \A q \in Places \ {PendingAt} : Sealed(Banks[q])
        BY DEF CompositorInv, Sealing
    <2>2. CASE choice.bank = "pending"
        <3>1. ~pending.required
            BY <1>1, <2>2 DEF PendingIsWhole
        <3>2. pending' = moved /\ BankOf(choice) = pending /\ p = PendingAt
            BY <1>2, <1>10, <2>2
        <3>3. Owed(pending')
            BY <1>11, <2>1, <3>2 DEF Owed
        <3>4. kind = "endpoint" => Sealed(pending')
            BY <1>11, <2>1, <3>1, <3>2 DEF Owed, Sealed
        <3> QED
            BY <1>2, <2>1, <3>2, <3>3, <3>4
    <2>3. CASE choice.bank # "pending"
        <3>1. Sealed(moved)
            BY <1>3, <1>11, <2>3 DEF Sealed
        <3> QED
            BY <1>1, <1>2, <2>1, <2>3, <3>1
    <2> QED
        BY <2>2, <2>3
<1> QED
    BY <1>6, <1>8, <1>9, <1>12, <1>13 DEF CompositorInv

(* The copy of the retained bank takes references of its own, any other    *)
(* bank has them already.                                                  *)
LEMMA OwnIs ==
    ASSUME CompositorInv, stage = "open", NEW page, Choice(page).bank # "none"
    PROVE  (IF Choice(page).bank = "root"
            THEN Acquired(refs, Held(BankOf(Choice(page)))) ELSE refs)
             = Recounted(refs, Banks[<<Choice(page).bank, Choice(page).slot>>],
                         BankOf(Choice(page)))
<1> DEFINE choice == Choice(page)
           p == <<choice.bank, choice.slot>>
           bank == BankOf(choice)
<1>1. p \in Places \ {RetainedAt}
    BY ChoiceIs
<1>2. choice.bank # "root" => bank = Banks[p]
    BY BankOfIs
<1>3. refs \in [Handles -> Int]
    BY CountsAreNumbers DEF CompositorInv, Balance
<1> HIDE DEF choice, bank
<1>4. CASE choice.bank = "root"
    <2>1. p = RootAt
        BY <1>1, <1>4 DEF Places, RootAt
    <2>2. Banks[p] = NoBank
        BY <2>1, BanksAre, TableIs DEF CompositorInv, Preparing
    <2>3. Held(bank) = Held(bank) \ Held(NoBank) /\ Held(NoBank) \subseteq Held(bank)
        BY NoBankIsEmpty
    <2>4. Acquired(refs, Held(bank)) = Recounted(refs, NoBank, bank)
        BY <1>3, <2>3, AcquiredIs
    <2> QED
        BY <1>4, <2>2, <2>4 DEF choice, bank
<1>5. CASE choice.bank # "root"
    <2>1. Recounted(refs, Banks[p], bank) = refs
        BY <1>2, <1>3, <1>5, RecountedSame
    <2> QED
        BY <1>5, <2>1 DEF choice, bank
<1> QED
    BY <1>4, <1>5

LEMMA PrepareBankStep ==
    ASSUME CompositorInv, NEW page, PrepareBank(page)
    PROVE  CompositorInv'
<1> DEFINE choice == Choice(page)
           p == <<choice.bank, choice.slot>>
           bank == BankOf(choice)
           own == IF choice.bank = "root" THEN Acquired(refs, Held(bank)) ELSE refs
           moved == IF NeedsTarget(choice) THEN Retargeted(bank, page)
                    ELSE [bank EXCEPT !.page = IF choice.bank = "root" THEN page
                                               ELSE @]
<1>1. /\ stage = "open" /\ choice.bank # "none" /\ Put(choice, moved)
      /\ UNCHANGED <<module, retained, submitted, replaced>>
      /\ refs' = Released(Acquired(own, Held(moved) \ Held(bank)),
                          Held(bank) \ Held(moved))
      /\ \/ ~bank.blocked /\ Closing("endpoint", choice)
         \/ Closing("rejected", choice)
    BY DEF PrepareBank, Prepares
<1>2. Shaped(bank)
    BY <1>1, BankOfIs
<1>3. own = Recounted(refs, Banks[p], bank)
    BY <1>1, OwnIs
<1>4. refs \in [Handles -> Int]
    BY CountsAreNumbers DEF CompositorInv, Balance
<1> HIDE DEF choice, own
<1>5. /\ Shaped(moved) /\ moved.drawn = bank.drawn /\ moved.active = bank.active
      /\ moved.required = bank.required /\ moved.blocked = bank.blocked
    <2> HIDE DEF bank
    <2>1. CASE NeedsTarget(choice)
        <3>1. moved = Retargeted(bank, page)
            BY <2>1
        <3> HIDE DEF moved
        <3> QED
            BY <1>2, <3>1 DEF Retargeted, Shaped, Fields
    <2>2. CASE ~NeedsTarget(choice)
        <3>1. moved = [bank EXCEPT !.page = IF choice.bank = "root" THEN page ELSE @]
            BY <2>2
        <3> HIDE DEF moved
        <3> QED
            BY <1>2, <3>1 DEF Shaped, Fields
    <2> QED
        BY <2>1, <2>2
<1> HIDE DEF moved
<1>6. refs' = Recounted(refs, Banks[p], moved)
    <2> HIDE DEF bank, p
    <2>1. own \in [Handles -> Int]
        BY <1>3, <1>4, RecountedIsNumbers
    <2>2. refs' = Recounted(own, bank, moved)
        BY <1>1, <2>1, ExchangedIs
    <2> QED
        BY <1>3, <1>4, <2>2, RecountedTwice
<1>7. ASSUME NEW kind, Closing(kind, choice), kind = "endpoint" => ~bank.blocked
      PROVE  CompositorInv'
    BY <1>1, <1>5, <1>6, <1>7, PreparesBank DEF choice
<1>8. CASE ~bank.blocked /\ Closing("endpoint", choice)
    BY <1>7, <1>8
<1>9. CASE Closing("rejected", choice)
    BY <1>7, <1>9
<1> QED
    BY <1>1, <1>8, <1>9

LEMMA PrepareStep ==
    ASSUME CompositorInv, Prepare
    PROVE  CompositorInv'
<1>1. CASE PrepareTerminal
    <2>1. /\ Closing("none", NotPrepared) /\ stage = "open"
          /\ UNCHANGED <<module, pending, retained, root, completed, submitted,
                         displayed, replaced, refs>>
        BY <1>1 DEF PrepareTerminal
    <2> QED
        BY ONLY <2>1, CompositorInv, PreparesNothing
<1>2. ASSUME NEW page, PrepareHold(page)
      PROVE  CompositorInv'
    <2>1. /\ Closing("hold", NotPrepared) /\ stage = "open"
          /\ UNCHANGED <<module, pending, retained, root, completed, submitted,
                         displayed, replaced, refs>>
        BY <1>2 DEF PrepareHold, Prepares
    <2> QED
        BY ONLY <2>1, CompositorInv, PreparesNothing
<1>3. ASSUME NEW page, PrepareWithoutTarget(page)
      PROVE  CompositorInv'
    <2> DEFINE choice == Choice(page)
               p == <<choice.bank, choice.slot>>
               bank == BankOf(choice)
    <2>1. /\ stage = "open" /\ choice.bank # "none" /\ Put(choice, bank)
          /\ UNCHANGED <<module, retained, submitted, replaced>>
          /\ refs' = IF choice.bank = "root" THEN Acquired(refs, Held(bank)) ELSE refs
          /\ Closing("rejected", choice)
        BY <1>3 DEF PrepareWithoutTarget, Prepares, NeedsTarget
    <2>2. Shaped(bank)
        BY <2>1, BankOfIs
    <2>3. refs' = Recounted(refs, Banks[p], bank)
        BY <2>1, OwnIs
    <2> QED
        BY <2>1, <2>2, <2>3, PreparesBank
<1>4. ASSUME NEW page, PrepareCopyFails(page)
      PROVE  CompositorInv'
    <2>1. /\ Closing("rejected", NotPrepared) /\ stage = "open"
          /\ UNCHANGED <<module, pending, retained, root, completed, submitted,
                         displayed, replaced, refs>>
        BY <1>4 DEF PrepareCopyFails, Prepares
    <2> QED
        BY ONLY <2>1, CompositorInv, PreparesNothing
<1> QED
    BY <1>1, <1>2, <1>3, <1>4, PrepareBankStep DEF Prepare

-----------------------------------------------------------------------------
(* What becomes of it.                                                     *)
LEMMA FreedIn ==
    ASSUME CompositorInv, NEW S, NEW inUse \in Seq(S), NEW name
    PROVE  FreedSlot(name, inUse) \in Seq(S)
BY WithoutSeq DEF FreedSlot

LEMMA FinishNothingStep ==
    ASSUME CompositorInv, FinishNothing
    PROVE  CompositorInv'
<1>1. /\ prepared' = NotPrepared /\ prepared.bank = "none"
      /\ UNCHANGED <<module, retained, root, completed, submitted, displayed,
                     replaced, refs>>
    BY DEF FinishNothing, Closed
<1>2. prepared'.bank = "none" /\ prepared'.kind = "none"
    BY <1>1 DEF NotPrepared
<1>3. Preparing'
    BY <1>1, <1>2 DEF CompositorInv, Preparing
<1>4. Shaped(pending) /\ Started /\ (IsField => Owed(pending))
    BY PendingIs DEF CompositorInv, Sealing
<1>5. /\ Shaped(pending') /\ Held(pending') = Held(pending)
      /\ pending'.active = pending.active
      /\ IsField => pending' = pending
    <2>1. pending' = IF prepared.kind = "none" /\ ~IsField
                     THEN Settled(pending, "open", "spoilt") ELSE pending
        BY DEF FinishNothing
    <2> QED
        BY <1>4, <2>1, SettledHolds
<1>6. refs' = Recounted(refs, pending, pending')
    BY <1>1, <1>5, CountsAreNumbers, RecountedSame DEF CompositorInv, Balance
<1>7. pending'.active \/ Held(pending') = {}
    BY <1>4, <1>5 DEF Started
<1> QED
    BY <1>1, <1>2, <1>3, <1>4, <1>5, <1>6, <1>7, ChangesPending

LEMMA FinishDiscardedStep ==
    ASSUME CompositorInv, FinishDiscarded
    PROVE  CompositorInv'
<1> DEFINE p == <<prepared.bank, prepared.slot>>
<1>1. /\ prepared' = NotPrepared /\ stage' = "open" /\ prepared.bank # "none"
      /\ refs' = Released(refs, Held(BankAt(prepared.bank, prepared.slot)))
      /\ Put(prepared, NoBank)
      /\ submitted' = FreedSlot("completed", submitted)
      /\ replaced' = FreedSlot("displayed", replaced)
      /\ module' = module /\ retained' = retained
    BY DEF FinishDiscarded, Closed
<1>2. p \in Places \ {RetainedAt}
    BY <1>1 DEF CompositorInv, Preparing, PreparedAt
<1>3. /\ Banks'[p] = NoBank /\ \A q \in Places \ {p} : Banks'[q] = Banks[q]
      /\ DOMAIN completed' = CompletedSlots
      /\ \A s \in CompletedSlots : DOMAIN completed'[s] = {"bank", "area"}
      /\ DOMAIN displayed' = DisplayedSlots
      /\ prepared.bank # "pending" => pending' = pending
      /\ prepared.bank = "pending" => pending' = NoBank
      /\ prepared.bank # "root" => root' = root
      /\ prepared.bank = "root" => root' = NoBank
    BY <1>1, <1>2, PutPlace
<1>4. BankAt(prepared.bank, prepared.slot) = Banks[p]
    BY <1>2, BankOfPlace
<1> HIDE DEF p
<1>5. refs' = Recounted(refs, Banks[p], NoBank)
    <2>1. refs \in [Handles -> Int]
        BY CountsAreNumbers DEF CompositorInv, Balance
    <2>2. Held(Banks[p]) \ Held(NoBank) = Held(Banks[p]) /\ Held(NoBank) \subseteq Held(Banks[p])
        BY NoBankIsEmpty
    <2> QED
        BY <1>1, <1>4, <2>1, <2>2, ReleasedIs
<1>6. Shapes' /\ Balance'
    BY <1>2, <1>3, <1>5, NoBankIsEmpty, OneBank DEF CompositorInv
<1>7. submitted' \in Seq(CompletedSlots) /\ replaced' \in Seq(DisplayedSlots)
    BY <1>1, FreedIn DEF CompositorInv, Tables
<1>8. Tables'
    BY <1>3, <1>7 DEF Tables
<1>9. Preparing'
    BY <1>1, <1>3 DEF CompositorInv, Preparing, NotPrepared
<1>10. Started'
    BY <1>3, NoBankIsEmpty DEF CompositorInv, Started
<1>11. Sealing'
    <2>1. prepared'.kind # "endpoint" /\ IsField' = IsField
        BY <1>1 DEF NotPrepared, IsField
    <2>2. IsField => Owed(pending')
        BY <1>3, NoBankIsEmpty DEF CompositorInv, Sealing, Owed, Sealed
    <2>3. IsField => \A q \in Places \ {PendingAt} : Sealed(Banks'[q])
        BY <1>2, <1>3, NoBankIsEmpty DEF CompositorInv, Sealing
    <2> QED
        BY <2>1, <2>2, <2>3 DEF Sealing
<1> QED
    BY <1>6, <1>8, <1>9, <1>10, <1>11 DEF CompositorInv

(* The prepared bank leaves its place, becomes the retained one, and in a  *)
(* field scene the one it replaces takes a slot of the displayed pages.    *)
LEMMA FinishPublishedStep ==
    ASSUME CompositorInv, FinishPublished
    PROVE  CompositorInv'
<1> DEFINE p == <<prepared.bank, prepared.slot>>
           bank == BankAt(prepared.bank, prepared.slot)
           table == IF prepared.bank = "displayed"
                    THEN [displayed EXCEPT ![prepared.slot] = NoBank] ELSE displayed
           inUse == FreedSlot("displayed", replaced)
           same == {s \in DisplayedSlots : table[s].page = retained.page}
           slot == SlotFor(DisplayedSlots, inUse, same)
           keeps == retained.active /\ IsField
           at == <<"displayed", slot>>
           B == [Banks EXCEPT ![p] = NoBank]
<1>1. /\ prepared' = NotPrepared /\ stage' = "open" /\ prepared.kind = "endpoint"
      /\ module' = module
      /\ retained' = IF IsField THEN Moved(bank) ELSE Settled(Moved(bank), "open", "whole")
      /\ pending' = IF prepared.bank = "pending" THEN NoBank ELSE pending
      /\ root' = NoBank
      /\ completed' = IF prepared.bank = "completed"
                      THEN [completed EXCEPT ![prepared.slot] = NoSubmission]
                      ELSE completed
      /\ submitted' = FreedSlot("completed", submitted)
      /\ displayed' = IF keeps THEN [table EXCEPT ![slot] = retained] ELSE table
      /\ replaced' = IF keeps THEN Append(Without(inUse, slot), slot) ELSE inUse
      /\ refs' = Released(refs, IF keeps THEN Held(table[slot]) ELSE Held(retained))
    BY DEF FinishPublished, Closed
<1>2. p \in Places \ {RetainedAt}
    BY <1>1 DEF CompositorInv, Preparing, PreparedAt
<1>3. bank = Banks[p]
    BY <1>2, BankOfPlace
<1>4. slot \in DisplayedSlots /\ inUse \in Seq(DisplayedSlots)
    <2>1. inUse \in Seq(DisplayedSlots)
        BY FreedIn DEF CompositorInv, Tables
    <2>2. same \in SUBSET (1..DisplayedCapacity) /\ inUse \in Seq(1..DisplayedCapacity)
        BY <2>1 DEF DisplayedSlots
    <2> HIDE DEF same, inUse
    <2> QED
        BY <2>1, <2>2, SlotForIn, CapacityAssumption DEF DisplayedSlots
<1> HIDE DEF slot, same, inUse
<1>5. /\ Banks[PendingAt] = pending /\ Banks[RetainedAt] = retained /\ Banks[RootAt] = root
      /\ \A s \in CompletedSlots : Banks[<<"completed", s>>] = completed[s].bank
      /\ \A s \in DisplayedSlots : Banks[<<"displayed", s>>] = displayed[s]
      /\ DOMAIN Banks = Places
    BY ONLY BanksAre, TableIs
<1>6. /\ Banks'[PendingAt] = pending' /\ Banks'[RetainedAt] = retained'
      /\ Banks'[RootAt] = root'
      /\ \A s \in CompletedSlots : Banks'[<<"completed", s>>] = completed'[s].bank
      /\ \A s \in DisplayedSlots : Banks'[<<"displayed", s>>] = displayed'[s]
    BY ONLY BanksWillBe, TableIs
<1>7. Tables
    BY DEF CompositorInv
<1>8. /\ B[p] = NoBank /\ DOMAIN B = Places
      /\ \A q \in Places \ {p} : B[q] = Banks[q]
    BY <1>2, <1>5
<1> HIDE DEF bank, B
(* The place the prepared bank leaves.                                     *)
<1>9. /\ B[PendingAt] = pending' /\ B[RetainedAt] = retained /\ B[RootAt] = root'
      /\ \A s \in CompletedSlots : B[<<"completed", s>>] = completed'[s].bank
      /\ \A s \in DisplayedSlots : B[<<"displayed", s>>] = table[s]
      /\ DOMAIN completed' = CompletedSlots /\ DOMAIN table = DisplayedSlots
      /\ \A s \in CompletedSlots : DOMAIN completed'[s] = {"bank", "area"}
    <2>1. B[RetainedAt] = retained
        BY <1>2, <1>5, <1>8, PlacesAre
    <2>2. B[PendingAt] = pending'
        <3>1. CASE prepared.bank = "pending"
            <4>1. p = PendingAt
                BY <1>2, <3>1 DEF Places, PendingAt
            <4> QED
                BY <1>1, <1>8, <3>1, <4>1
        <3>2. CASE prepared.bank # "pending"
            <4>1. p # PendingAt
                BY <3>2 DEF PendingAt
            <4> QED
                BY <1>1, <1>5, <1>8, <3>2, <4>1, PlacesAre
        <3> QED
            BY <3>1, <3>2
    <2>3. B[RootAt] = root'
        <3>1. CASE prepared.bank = "root"
            <4>1. p = RootAt
                BY <1>2, <3>1 DEF Places, RootAt
            <4> QED
                BY <1>1, <1>8, <4>1
        <3>2. CASE prepared.bank # "root"
            <4>1. p # RootAt
                BY <3>2 DEF RootAt
            <4> QED
                BY <1>1, <1>5, <1>8, <3>2, <4>1, PlacesAre DEF CompositorInv, Preparing
        <3> QED
            BY <3>1, <3>2
    <2>4. /\ \A s \in CompletedSlots : B[<<"completed", s>>] = completed'[s].bank
          /\ DOMAIN completed' = CompletedSlots
          /\ \A s \in CompletedSlots : DOMAIN completed'[s] = {"bank", "area"}
        <3>1. CASE prepared.bank = "completed"
            <4>1. completed' = [completed EXCEPT ![prepared.slot] = NoSubmission]
                BY <1>1, <3>1
            <4>2. prepared.slot \in CompletedSlots
                BY <1>2, <3>1 DEF Places
            <4>3. /\ DOMAIN completed' = CompletedSlots
                  /\ completed'[prepared.slot] = NoSubmission
                  /\ \A s \in CompletedSlots \ {prepared.slot} : completed'[s] = completed[s]
                BY <1>7, <4>1, <4>2 DEF Tables
            <4>4. p = <<"completed", prepared.slot>>
                BY <3>1
            <4>5. \A s \in CompletedSlots : B[<<"completed", s>>] = completed'[s].bank
                <5>1. ASSUME NEW s \in CompletedSlots
                      PROVE  B[<<"completed", s>>] = completed'[s].bank
                    <6>1. CASE s = prepared.slot
                        BY <1>8, <4>3, <4>4, <6>1 DEF NoSubmission
                    <6>2. CASE s # prepared.slot
                        <7>1. <<"completed", s>> \in Places \ {p}
                            BY <4>4, <6>2, PlacesAre
                        <7> QED
                            BY <1>5, <1>8, <4>3, <6>2, <7>1
                    <6> QED
                        BY <6>1, <6>2
                <5> QED
                    BY <5>1
            <4>6. \A s \in CompletedSlots : DOMAIN completed'[s] = {"bank", "area"}
                BY <1>7, <4>3 DEF Tables, NoSubmission
            <4> QED
                BY <4>3, <4>5, <4>6
        <3>2. CASE prepared.bank # "completed"
            <4>1. completed' = completed
                BY <1>1, <3>2
            <4>2. \A s \in CompletedSlots : <<"completed", s>> \in Places \ {p}
                BY <3>2, PlacesAre
            <4> QED
                BY <1>5, <1>7, <1>8, <4>1, <4>2 DEF Tables
        <3> QED
            BY <3>1, <3>2
    <2>5. /\ \A s \in DisplayedSlots : B[<<"displayed", s>>] = table[s]
          /\ DOMAIN table = DisplayedSlots
        <3>1. CASE prepared.bank = "displayed"
            <4>1. table = [displayed EXCEPT ![prepared.slot] = NoBank]
                BY <3>1
            <4> HIDE DEF table
            <4>2. prepared.slot \in DisplayedSlots
                BY <1>2, <3>1 DEF Places
            <4>3. /\ DOMAIN table = DisplayedSlots /\ table[prepared.slot] = NoBank
                  /\ \A s \in DisplayedSlots \ {prepared.slot} : table[s] = displayed[s]
                BY <1>7, <4>1, <4>2 DEF Tables
            <4>4. p = <<"displayed", prepared.slot>>
                BY <3>1
            <4>5. ASSUME NEW s \in DisplayedSlots
                  PROVE  B[<<"displayed", s>>] = table[s]
                <5>1. CASE s = prepared.slot
                    BY <1>8, <4>3, <4>4, <5>1
                <5>2. CASE s # prepared.slot
                    <6>1. <<"displayed", s>> \in Places \ {p}
                        BY <4>4, <5>2, PlacesAre
                    <6> QED
                        BY <1>5, <1>8, <4>3, <5>2, <6>1
                <5> QED
                    BY <5>1, <5>2
            <4> QED
                BY <4>3, <4>5
        <3>2. CASE prepared.bank # "displayed"
            <4>1. table = displayed
                BY <3>2
            <4> HIDE DEF table
            <4>2. \A s \in DisplayedSlots : <<"displayed", s>> \in Places \ {p}
                BY <3>2, PlacesAre
            <4> QED
                BY <1>5, <1>7, <1>8, <4>1, <4>2 DEF Tables
        <3> QED
            BY <3>1, <3>2
    <2> QED
        BY <2>1, <2>2, <2>3, <2>4, <2>5
<1> HIDE DEF p, table
(* Giving up a place returns its references.                               *)
<1>10. refs \in [Handles -> Int] /\ Counts(Banks, refs)
    BY CountsAreNumbers DEF CompositorInv, Balance
<1>11. Counts(B, Recounted(refs, bank, NoBank))
    <2>1. \A q \in Places \ {p} : Held(B[q]) = Held(Banks[q])
        BY <1>8
    <2>2. Counts(B, Recounted(refs, Banks[p], B[p]))
        BY <1>2, <1>10, <2>1, OnePlace
    <2> QED
        BY <1>3, <1>8, <2>2
<1>12. Shaped(bank) /\ Shaped(retained) /\ \A q \in Places : Shaped(B[q])
    BY <1>2, <1>3, <1>5, <1>8, NoBankIsEmpty, PlacesAre DEF CompositorInv, Shapes
<1>13. /\ Shaped(retained') /\ Held(retained') = Held(bank)
       /\ IsField => retained'.drawn = bank.drawn
    <2>1. /\ Shaped(Moved(bank)) /\ Held(Moved(bank)) = Held(bank)
          /\ Moved(bank).drawn = bank.drawn
        BY <1>12, MovedHolds
    <2>2. /\ Shaped(Settled(Moved(bank), "open", "whole"))
          /\ Held(Settled(Moved(bank), "open", "whole")) = Held(bank)
        BY <2>1, SettledHolds
    <2> QED
        BY <1>1, <2>1, <2>2
<1>14. at \in Places /\ RetainedAt \in Places /\ at # RetainedAt /\ at # PendingAt
    BY <1>4, PlacesAre DEF RetainedAt, PendingAt
<1>15. ASSUME keeps
       PROVE  /\ Banks'[at] = retained
              /\ \A q \in Places \ {RetainedAt, at} : Banks'[q] = B[q]
              /\ DOMAIN displayed' = DisplayedSlots
              /\ refs' = Released(refs, Held(B[at]))
    <2>1. displayed' = [table EXCEPT ![slot] = retained]
        BY <1>1, <1>15
    <2>2. /\ DOMAIN displayed' = DisplayedSlots /\ displayed'[slot] = retained
          /\ \A s \in DisplayedSlots \ {slot} : displayed'[s] = table[s]
        BY <1>4, <1>9, <2>1
    <2>3. Banks'[at] = retained
        BY <1>4, <1>6, <2>2
    <2>4. B[at] = table[slot]
        BY <1>4, <1>9
    <2>5. refs' = Released(refs, Held(B[at]))
        BY <1>1, <1>15, <2>4
    <2>6. \A q \in Places \ {RetainedAt, at} : Banks'[q] = B[q]
        BY ONLY <1>6, <1>9, <2>2, PlacesAre
    <2> QED
        BY <2>2, <2>3, <2>5, <2>6
<1>16. ASSUME ~keeps
       PROVE  /\ \A q \in Places \ {RetainedAt} : Banks'[q] = B[q]
              /\ displayed' = table
              /\ refs' = Released(refs, Held(retained))
    <2>1. displayed' = table
        BY <1>1, <1>16
    <2>2. refs' = Released(refs, Held(retained))
        BY <1>1, <1>16
    <2>3. \A q \in Places \ {RetainedAt} : Banks'[q] = B[q]
        BY ONLY <1>6, <1>9, <2>1, PlacesAre
    <2> QED
        BY <2>1, <2>2, <2>3
<1>17. ASSUME NEW gone
       PROVE  Released(refs, Held(gone)) = Recounted(refs, gone, NoBank)
    <2>1. Held(gone) \ Held(NoBank) = Held(gone) /\ Held(NoBank) \subseteq Held(gone)
        BY NoBankIsEmpty
    <2> QED
        BY <1>10, <2>1, ReleasedIs
<1> HIDE DEF at
<1>18. Balance'
    <2>1. CASE keeps
        <3> DEFINE first == Recounted(Recounted(refs, bank, NoBank), retained, retained')
                   all == Recounted(first, B[at], retained)
        <3>1. \A q \in Places \ {RetainedAt, at} : Held(Banks'[q]) = Held(B[q])
            BY <1>15, <2>1
        <3>2. Counts(Banks', Recounted(Recounted(Recounted(refs, bank, NoBank),
                                                 B[RetainedAt], Banks'[RetainedAt]),
                                       B[at], Banks'[at]))
            BY <1>8, <1>11, <1>14, <3>1, TwoPlaces
        <3>3. Counts(Banks', all)
            BY <1>6, <1>9, <1>15, <2>1, <3>2
        <3>4. all = Recounted(refs, B[at], NoBank)
            <4>1. \A h \in Handles : refs[h] \in Int
                BY <1>10
            <4>2. \A h \in Handles : In(h, retained') = In(h, bank) /\ In(h, NoBank) = 0
                BY <1>13, NoBankIsEmpty DEF In
            <4>3. \A h \in Handles : all[h] = Recounted(refs, B[at], NoBank)[h]
                BY <4>1, <4>2, InIsNumber DEF Recounted
            <4> QED
                BY <4>3 DEF Recounted
        <3> HIDE DEF all
        <3> QED
            BY <1>15, <1>17, <2>1, <3>3, <3>4 DEF Balance
    <2>2. CASE ~keeps
        <3> DEFINE all == Recounted(Recounted(refs, bank, NoBank), retained, retained')
        <3>1. \A q \in Places \ {RetainedAt} : Held(Banks'[q]) = Held(B[q])
            BY <1>16, <2>2
        <3>2. Counts(Banks', Recounted(Recounted(refs, bank, NoBank),
                                       B[RetainedAt], Banks'[RetainedAt]))
            BY <1>11, <1>14, <3>1, OnePlace
        <3>3. Counts(Banks', all)
            BY <1>6, <1>9, <3>2
        <3>4. all = Recounted(refs, retained, NoBank)
            <4>1. \A h \in Handles : refs[h] \in Int
                BY <1>10
            <4>2. \A h \in Handles : In(h, retained') = In(h, bank) /\ In(h, NoBank) = 0
                BY <1>13, NoBankIsEmpty DEF In
            <4>3. \A h \in Handles : all[h] = Recounted(refs, retained, NoBank)[h]
                BY <4>1, <4>2, InIsNumber DEF Recounted
            <4> QED
                BY <4>3 DEF Recounted
        <3> HIDE DEF all
        <3> QED
            BY <1>16, <1>17, <2>2, <3>3, <3>4 DEF Balance
    <2> QED
        BY <2>1, <2>2
<1>19. Shapes'
    BY <1>6, <1>12, <1>13, <1>15, <1>16 DEF Shapes
<1>20. Tables'
    <2>1. DOMAIN displayed' = DisplayedSlots
        BY <1>9, <1>15, <1>16
    <2>2. submitted' \in Seq(CompletedSlots)
        BY <1>1, FreedIn DEF CompositorInv, Tables
    <2>3. replaced' \in Seq(DisplayedSlots)
        <3>1. Without(inUse, slot) \in Seq(DisplayedSlots)
            BY <1>4, WithoutSeq
        <3>2. Append(Without(inUse, slot), slot) \in Seq(DisplayedSlots)
            BY ONLY <1>4, <3>1, AppendProperties
        <3> QED
            BY <1>1, <1>4, <3>2
    <2> QED
        BY <1>9, <2>1, <2>2, <2>3 DEF Tables
<1>21. Preparing' /\ Started'
    BY <1>1, NoBankIsEmpty DEF CompositorInv, Preparing, Started, NotPrepared
<1>22. Sealing'
    <2> SUFFICES ASSUME IsField
                 PROVE  (\A q \in Places \ {PendingAt} : Sealed(Banks'[q])) /\ Owed(pending')
        BY <1>1 DEF Sealing, IsField, NotPrepared
    <2>1. /\ Owed(pending) /\ \A q \in Places \ {PendingAt} : Sealed(Banks[q])
          /\ prepared.bank = "pending" => Sealed(pending)
        BY <1>1 DEF CompositorInv, Sealing
    <2>2. Owed(pending')
        BY <1>1, <2>1, NoBankIsEmpty DEF Owed, Sealed
    <2>3. Sealed(bank)
        <3>1. CASE p = PendingAt
            BY <1>3, <1>5, <2>1, <3>1 DEF p, PendingAt
        <3>2. CASE p # PendingAt
            BY <1>2, <1>3, <2>1, <3>2
        <3> QED
            BY <3>1, <3>2
    <2>4. Sealed(retained') /\ Sealed(retained)
        <3>1. Sealed(retained')
            BY <1>13, <2>3 DEF Sealed
        <3>2. Sealed(retained)
            BY <1>5, <1>14, <2>1 DEF RetainedAt, PendingAt
        <3> QED
            BY <3>1, <3>2
    <2>5. \A q \in Places \ {PendingAt} : Sealed(B[q])
        BY <1>8, <2>1, NoBankIsEmpty
    <2>6. \A q \in Places \ {PendingAt} : Sealed(Banks'[q])
        BY <1>6, <1>15, <1>16, <2>4, <2>5
    <2> QED
        BY <2>2, <2>6
<1> QED
    BY <1>18, <1>19, <1>20, <1>21, <1>22 DEF CompositorInv

-----------------------------------------------------------------------------
(* Nothing is built, nothing is held.                                      *)
LEMMA NoBankAnywhere ==
    ASSUME NEW B, \A p \in Places : B[p] = NoBank
    PROVE  \A h : Cardinality(At(B, h)) = 0
<1>1. \A h : At(B, h) = {}
    BY NoBankIsEmpty DEF At
<1>2. Cardinality({}) = 0
    BY ONLY FS_EmptySet
<1> QED
    BY <1>1, <1>2

LEMMA EmptyTable ==
    ASSUME NEW co, NEW di,
           co = [s \in CompletedSlots |-> NoSubmission],
           di = [s \in DisplayedSlots |-> NoBank]
    PROVE  \A p \in Places : Table(NoBank, NoBank, NoBank, co, di)[p] = NoBank
<1>1. \A s \in CompletedSlots : co[s].bank = NoBank
    BY DEF NoSubmission
<1>2. \A s \in DisplayedSlots : di[s] = NoBank
    OBVIOUS
<1> QED
    BY ONLY <1>1, <1>2, TableIs, PlacesAre

LEMMA InitHolds == Init => CompositorInv
<1> SUFFICES ASSUME Init PROVE CompositorInv
    OBVIOUS
<1>1. \A p \in Places : Banks[p] = NoBank
    BY BanksAre, EmptyTable DEF Init
<1>2. Tables
    <2>1. submitted \in Seq(CompletedSlots) /\ replaced \in Seq(DisplayedSlots)
        BY DEF Init
    <2> QED
        BY <2>1 DEF Init, Tables, NoSubmission
<1>3. Shapes
    BY <1>1, NoBankIsEmpty DEF Shapes
<1>4. Preparing /\ Started
    BY NoBankIsEmpty DEF Init, Preparing, Started, NotPrepared
<1>5. Balance
    <2>1. \A h : Cardinality(At(Banks, h)) = 0
        BY <1>1, NoBankAnywhere
    <2> QED
        BY <2>1 DEF Init, Balance, Counts
<1>6. Sealing
    BY <1>1, NoBankIsEmpty DEF Init, Sealing, Owed, Sealed, NotPrepared
<1> QED
    BY <1>2, <1>3, <1>4, <1>5, <1>6 DEF CompositorInv

LEMMA InvalidateStep ==
    ASSUME CompositorInv, Invalidate
    PROVE  CompositorInv'
<1>1. /\ stage = "open" /\ pending' = NoBank /\ retained' = NoBank /\ root' = NoBank
      /\ completed' = [s \in CompletedSlots |-> NoSubmission]
      /\ submitted' = <<>> /\ displayed' = [s \in DisplayedSlots |-> NoBank]
      /\ replaced' = <<>>
      /\ refs' = [h \in Handles |-> refs[h] - Cardinality(Holders(h))]
      /\ prepared' = prepared /\ stage' = stage
    BY DEF Invalidate
<1>2. \A p \in Places : Banks'[p] = NoBank
    BY <1>1, BanksWillBe, EmptyTable
<1>3. Tables'
    <2>1. submitted' \in Seq(CompletedSlots) /\ replaced' \in Seq(DisplayedSlots)
        BY <1>1
    <2> QED
        BY <1>1, <2>1 DEF Tables, NoSubmission
<1>4. Shapes'
    BY <1>2, NoBankIsEmpty DEF Shapes
<1>5. Preparing' /\ Started'
    BY <1>1, NoBankIsEmpty DEF CompositorInv, Preparing, Started, PreparedAt
<1>6. Balance'
    <2>1. \A h : Cardinality(At(Banks', h)) = 0
        BY <1>2, NoBankAnywhere
    <2>2. \A h \in Handles : refs[h] = Cardinality(Holders(h)) /\ refs[h] \in Int
        <3>1. \A h : Holders(h) = At(Banks, h)
            BY DEF Holders, At, Banks
        <3>2. \A h : Cardinality(At(Banks, h)) \in Nat
            BY AtFinite
        <3> QED
            BY <3>1, <3>2 DEF CompositorInv, Balance, Counts
    <2>3. \A h \in Handles : refs[h] - Cardinality(Holders(h)) = 0
        BY <2>2
    <2>4. refs' = [h \in Handles |-> 0]
        BY <1>1, <2>3
    <2> QED
        BY <2>1, <2>4 DEF Balance, Counts
<1>7. Sealing'
    <2>1. prepared'.bank # "pending"
        BY <1>1 DEF CompositorInv, Preparing
    <2>2. Owed(pending')
        BY <1>1, NoBankIsEmpty DEF Owed, Sealed
    <2>3. \A p \in Places \ {PendingAt} : Sealed(Banks'[p])
        BY <1>2, NoBankIsEmpty
    <2> QED
        BY <2>1, <2>2, <2>3 DEF Sealing
<1> QED
    BY <1>3, <1>4, <1>5, <1>6, <1>7 DEF CompositorInv

-----------------------------------------------------------------------------
LEMMA NextHolds == CompositorInv /\ [Next]_vars => CompositorInv'
<1> SUFFICES ASSUME CompositorInv, [Next]_vars
             PROVE  CompositorInv'
    OBVIOUS
<1>1. CASE UNCHANGED vars
    <2>1. UNCHANGED <<module, pending, retained, root, completed, submitted, displayed,
                      replaced, prepared, stage, refs>>
        BY <1>1 DEF vars
    <2>2. Banks' = Banks
        BY <2>1, BanksAre, BanksWillBe
    <2> QED
        BY <2>1, <2>2 DEF CompositorInv, Tables, Shapes, Preparing, Started, Balance,
           Sealing, IsField, PreparedAt
<1>2. CASE \E page \in Drawable : \E hs \in Fragments(page), draws \in BOOLEAN :
             \/ Ingress(page, hs, draws)
             \/ \E where \in {"begin", "capacity", "resource"} :
                  \E part \in SUBSET hs : IngressFails(page, part, draws, where)
    <2>1. PICK page \in Drawable : \E hs \in Fragments(page), draws \in BOOLEAN :
             \/ Ingress(page, hs, draws)
             \/ \E where \in {"begin", "capacity", "resource"} :
                  \E part \in SUBSET hs : IngressFails(page, part, draws, where)
        BY <1>2
    <2>2. PICK hs \in Fragments(page) : \E draws \in BOOLEAN :
             \/ Ingress(page, hs, draws)
             \/ \E where \in {"begin", "capacity", "resource"} :
                  \E part \in SUBSET hs : IngressFails(page, part, draws, where)
        BY <2>1
    <2>3. PICK draws \in BOOLEAN :
             \/ Ingress(page, hs, draws)
             \/ \E where \in {"begin", "capacity", "resource"} :
                  \E part \in SUBSET hs : IngressFails(page, part, draws, where)
        BY <2>2
    <2> QED
        BY <2>3, IngressStep, IngressFailsStep
<1>3. CASE \E page \in Drawable, picture \in Textures : MovieFrame(page, picture)
    BY <1>3, MovieFrameStep
<1>4. CASE \E page \in Pages \union {NoPage} : RejectFrame(page)
    BY <1>4, RejectFrameStep
<1>5. CASE \E previous, next \in Textures : Rebind(previous, next)
    BY <1>5, RebindStep
<1>6. CASE \E area \in Pages : Complete(area)
    BY <1>6, CompleteStep
<1>7. CASE Prepare
    BY <1>7, PrepareStep
<1>8. CASE FinishNothing
    BY <1>8, FinishNothingStep
<1>9. CASE FinishDiscarded
    BY <1>9, FinishDiscardedStep
<1>10. CASE FinishPublished
    BY <1>10, FinishPublishedStep
<1>11. CASE InvalidateBuilding
    BY <1>11, InvalidateBuildingStep
<1>12. CASE Invalidate
    BY <1>12, InvalidateStep
<1> QED
    BY <1>1, <1>2, <1>3, <1>4, <1>5, <1>6, <1>7, <1>8, <1>9, <1>10, <1>11, <1>12 DEF Next

(* The invariant that carries both results: the tables list their own      *)
(* slots, one bank at most is prepared and the retained one never, a bank  *)
(* that was not begun holds nothing, the counts agree with what the banks  *)
(* hold, and what is open is waited for.                                   *)
THEOREM CompositorInvariant == Spec => []CompositorInv
<1>1. Init => CompositorInv
    BY InitHolds
<1>2. CompositorInv /\ [Next]_vars => CompositorInv'
    BY NextHolds
<1> QED
    BY <1>1, <1>2, PTL DEF Spec

(* Every bank holds one reference to each resource it names and returns it *)
(* once (bank_clear, bank_clone, displayed_field_store, finish_boundary).  *)
THEOREM ReferencesBalanced == Spec => []RefsBalanced
<1>1. CompositorInv => RefsBalanced
    <2>1. \A h : Holders(h) = At(Banks, h)
        BY DEF Holders, At, Banks
    <2> QED
        BY <2>1 DEF CompositorInv, Balance, Counts, RefsBalanced
<1> QED
    BY <1>1, CompositorInvariant, PTL

(* In a field scene nothing is shown or kept for showing before the DMA    *)
(* list that drew it has finished (complete_field_submission).             *)
THEOREM FieldAlwaysSealed == Spec => []FieldIsSealed
<1>1. CompositorInv => FieldIsSealed
    BY DEF CompositorInv, Sealing, FieldIsSealed, Sealed, PendingAt, Banks
<1> QED
    BY <1>1, CompositorInvariant, PTL
=============================================================================
