------------------------ MODULE AuthenticationProofs ------------------------
(***************************************************************************)
(* Proofs about what the auth runtime authenticates, code and video        *)
(* memory, both of which it owns under one lock.                           *)
(*                                                                         *)
(* Of guest code, for any images, local producers, extents, capacities and *)
(* number of scenes: whoever may speak for code speaks for code that is in *)
(* memory, and a proof is of an execution that one tier saw whole.         *)
(*                                                                         *)
(* Of video memory, for any memory, rectangles, kinds, words, capacity and *)
(* number of loads: the journal never contradicts the device, what answers *)
(* a lookup goes on telling the truth of memory, and a boot restore brings *)
(* back what was saved.                                                    *)
(***************************************************************************)
EXTENDS Authentication, VramResources, FiniteSetTheorems, WellFoundedInduction, TLAPS

----------------------------------------------------------------------------
(***************************************************************************)
(* The record of the four modules.                                         *)
(***************************************************************************)
Fields ==
  {"active", "armed", "completed", "scene", "candidate", "sequence",
   "dispatched", "producer", "artifacts", "proof", "phase", "tier", "variant",
   "pending", "authorities"}
Variants == [phase : {"NONE", "ENTRY", "CAPTURE", "RETURN"}, scene : Nat]
Lifecycles == [kind : Kinds, scene : Nat, writers : Int]

Shaped(s) ==
  /\ DOMAIN s = Fields
  /\ s.scene \in Nat \ {0}
  /\ s.variant \in Variants
  /\ s.pending \in {None} \cup Lifecycles
  /\ DOMAIN s.authorities = Kinds

(* What most calls do: evidence fades.  t has no evidence that s has not,    *)
(* and no proof is completed on the way.                                     *)
Fades(s, t) ==
  /\ DOMAIN t = Fields
  /\ t.scene = s.scene
  /\ t.variant \in {NoVariant, s.variant}
  /\ t.pending \in {None, s.pending}
  /\ DOMAIN t.authorities = Kinds
  /\ \A k \in Kinds : t.authorities[k] \in {0, s.authorities[k]}
  /\ t.artifacts \subseteq s.artifacts
  /\ t.producer \in {0, s.producer}
  /\ t.completed => s.completed

(* The transaction of a scene is over, or where it was.                      *)
Halts(t) == ~t.active /\ ~t.completed
Stays(s, t) ==
  /\ t.active = s.active /\ t.completed = s.completed
  /\ t.phase = s.phase /\ t.tier = s.tier /\ t.dispatched = s.dispatched
  /\ t.candidate \in {None, s.candidate}
Recedes(s, t) == Fades(s, t) /\ (Halts(t) \/ Stays(s, t))

LEMMA FadesShaped ==
  ASSUME NEW s, NEW t, Shaped(s), Fades(s, t)
  PROVE  Shaped(t)
BY DEF Shaped, Fades, NoVariant, Variants

LEMMA FadesTwice ==
  ASSUME NEW s, NEW t, NEW u, Fades(s, t), Fades(t, u)
  PROVE  Fades(s, u)
BY DEF Fades

LEMMA RecedesTwice ==
  ASSUME NEW s, NEW t, NEW u, Recedes(s, t), Recedes(t, u)
  PROVE  Recedes(s, u)
<1>1. Fades(s, u)
  BY FadesTwice DEF Recedes
<1>2. CASE Halts(u)
  BY <1>1, <1>2 DEF Recedes
<1>3. CASE Stays(t, u)
  BY <1>1, <1>3 DEF Recedes, Stays, Halts
<1> QED
  BY <1>2, <1>3 DEF Recedes

LEMMA Unchanged ==
  ASSUME NEW s, Shaped(s)
  PROVE  Recedes(s, s)
BY DEF Shaped, Recedes, Fades, Stays

----------------------------------------------------------------------------
(***************************************************************************)
(* The calls that only take evidence away.                                 *)
(***************************************************************************)
LEMMA LocalRecedes ==
  ASSUME NEW s, Shaped(s)
  PROVE  /\ Recedes(s, ClearPending(s)) /\ Recedes(s, LocalClear(s))
         /\ \A k \in Kinds : Recedes(s, LocalClearKind(s, k))
<1>1. Recedes(s, ClearPending(s))
  BY DEF Shaped, Fields, ClearPending, Recedes, Fades, Stays
<1>2. Recedes(s, LocalClear(s))
  BY DEF Shaped, Fields, LocalClear, Recedes, Fades, Stays
<1>3. ASSUME NEW k \in Kinds
      PROVE  Recedes(s, LocalClearKind(s, k))
  BY <1>3 DEF Shaped, Fields, LocalClearKind, Recedes, Fades, Stays
<1> QED
  BY <1>1, <1>2, <1>3

LEMMA LocalInvalidateRecedes ==
  ASSUME NEW s, NEW range, Shaped(s)
  PROVE  /\ Recedes(s, LocalInvalidate(s, range))
         /\ LocalInvalidate(s, range).pending # None =>
              s.pending.kind \notin range
         /\ \A k \in Kinds \cap range : LocalInvalidate(s, range).authorities[k] = 0
         /\ LocalInvalidate(s, range).artifacts = s.artifacts
         /\ LocalInvalidate(s, range).producer = s.producer
BY DEF Shaped, Fields, LocalInvalidate, Recedes, Fades, Stays

LEMMA ArtifactsRecede ==
  ASSUME NEW s, NEW gone, Shaped(s)
  PROVE  /\ Recedes(s, RemoveArtifacts(s, gone))
         /\ RemoveArtifacts(s, gone).artifacts = s.artifacts \ gone
         /\ Stays(s, RemoveArtifacts(s, gone))
BY DEF Shaped, Fields, RemoveArtifacts, Recedes, Fades, Stays

LEMMA AuthorityRecedes ==
  ASSUME NEW s, Shaped(s)
  PROVE  /\ Recedes(s, InvalidateAuthority(s))
         /\ InvalidateAuthority(s).artifacts = {}
         /\ InvalidateAuthority(s).producer = 0
BY DEF Shaped, Fields, InvalidateAuthority, Recedes, Fades, Stays

LEMMA VariantRecedes ==
  ASSUME NEW s, Shaped(s)
  PROVE  Recedes(s, VariantReset(s)) /\ Stays(s, VariantReset(s))
BY DEF Shaped, Fields, VariantReset, Recedes, Fades, Stays

LEMMA DisarmHalts ==
  ASSUME NEW s, Shaped(s)
  PROVE  Fades(s, Disarm(s)) /\ Halts(Disarm(s))
BY DEF Shaped, Fields, Disarm, VariantReset, Fades, Halts

LEMMA AbortHalts ==
  ASSUME NEW s, Shaped(s)
  PROVE  /\ Fades(s, AbortActive(s)) /\ Halts(AbortActive(s))
         /\ Recedes(s, AbortActive(s))
<1>1. CASE ~s.active
  BY <1>1, DisarmHalts DEF AbortActive, Recedes
<1>2. CASE s.active
  <2> DEFINE t == [s EXCEPT
         !.proof = IF @ = None THEN None ELSE [@ EXCEPT !.blocked = TRUE],
         !.phase = IF @ \in UnderWay THEN "REJECTED" ELSE @, !.tier = None]
  <2>1. Fades(s, t)
    BY DEF Shaped, Fields, Fades
  <2>2. AbortActive(s) = Disarm(t)
    BY <1>2 DEF AbortActive
  <2> HIDE DEF t
  <2>3. Shaped(t)
    BY <2>1, FadesShaped
  <2> QED
    BY <2>1, <2>2, <2>3, DisarmHalts, FadesTwice DEF Recedes
<1> QED
  BY <1>1, <1>2

LEMMA IdleHalts ==
  ASSUME NEW s, Shaped(s)
  PROVE  Fades(s, Idle(s)) /\ Halts(Idle(s))
BY DEF Shaped, Fields, Idle, Fades, Halts

LEMMA RetireRecedes ==
  ASSUME NEW s, Shaped(s)
  PROVE  /\ Recedes(s, RetireProof(s))
         /\ s.completed => Halts(RetireProof(s))
<1>1. CASE ~s.completed
  BY <1>1, Unchanged DEF RetireProof
<1>2. CASE s.completed
  BY <1>2 DEF RetireProof, VariantReset, Idle, Shaped, Fields, Recedes, Fades, Halts
<1> QED
  BY <1>1, <1>2

(* A scene begun is under way with nothing seen, or over.                    *)
LEMMA BeginsOrHalts ==
  ASSUME NEW s, NEW able, Shaped(s)
  PROVE  /\ Fades(s, BeginScene(s, able))
         /\ ~BeginScene(s, able).completed
         /\ BeginScene(s, able).active => BeginScene(s, able).candidate = s.candidate
         /\ BeginScene(s, able).active => BeginScene(s, able).variant = s.variant
<1> DEFINE begun == IF s.active THEN Idle(s)
                    ELSE [s EXCEPT !.armed = TRUE, !.completed = FALSE]
<1>1. Fades(s, begun) /\ ~begun.completed
       /\ begun.candidate = s.candidate /\ begun.variant = s.variant
  BY DEF Shaped, Fields, Fades, Idle
<1>2. BeginScene(s, able) =
        IF able /\ begun.phase \in {"IDLE", "REJECTED"}
        THEN [begun EXCEPT !.phase = "ENTRY", !.active = TRUE]
        ELSE AbortActive(begun)
  BY DEF BeginScene
<1> HIDE DEF begun
<1>3. Shaped(begun)
  BY <1>1, FadesShaped
<1>4. CASE able /\ begun.phase \in {"IDLE", "REJECTED"}
  <2>1. Fades(begun, BeginScene(s, able)) /\ ~BeginScene(s, able).completed
        /\ BeginScene(s, able).candidate = begun.candidate
        /\ BeginScene(s, able).variant = begun.variant
    BY <1>1, <1>2, <1>3, <1>4 DEF Shaped, Fields, Fades
  <2> QED
    BY <1>1, <2>1, FadesTwice
<1>5. CASE ~(able /\ begun.phase \in {"IDLE", "REJECTED"})
  BY <1>1, <1>2, <1>3, <1>5, AbortHalts, FadesTwice DEF Halts
<1> QED
  BY <1>4, <1>5

----------------------------------------------------------------------------
(***************************************************************************)
(* A write of the guest.                                                   *)
(***************************************************************************)
(* What a write leaves has nothing to do with what it wrote.                 *)
Spared(s, range) ==
  /\ s.pending # None => s.pending.kind \notin range
  /\ \A k \in Kinds \cap range : s.authorities[k] # s.scene
  /\ \A r \in s.artifacts : Current(s, r) => r.code \cap range = {}
  /\ AuthenticationMutation(range) => s.producer = 0

(* The range of an artifact holds its code.                                  *)
Held(A) == \A r \in A : r.code \subseteq r.range /\ r.code \subseteq CodePlaces

LEMMA SparedFades ==
  ASSUME NEW s, NEW t, NEW range, Shaped(s), Spared(s, range), Fades(s, t)
  PROVE  Spared(t, range)
<1>1. t.pending # None => t.pending.kind \notin range
  BY DEF Spared, Fades
<1>2. \A k \in Kinds \cap range : t.authorities[k] # t.scene
  BY DEF Spared, Fades, Shaped
<1>3. \A r \in t.artifacts : Current(t, r) => r.code \cap range = {}
  BY DEF Spared, Fades, Current
<1>4. AuthenticationMutation(range) => t.producer = 0
  BY DEF Spared, Fades
<1> QED
  BY <1>1, <1>2, <1>3, <1>4 DEF Spared

LEMMA WriteSpares ==
  ASSUME NEW s, NEW range, Shaped(s), Held(s.artifacts)
  PROVE  /\ Recedes(s, WriteDispatched(s, range))
         /\ Spared(WriteDispatched(s, range), range)
<1> DEFINE s1 == IF AuthenticationMutation(range) THEN InvalidateAuthority(s)
                 ELSE IF ArtifactMutation(s, range)
                 THEN RemoveArtifacts(s, Overlapping(s, range)) ELSE s
           s2 == IF Watched(range) THEN LocalInvalidate(s1, range) ELSE s1
<1>1. Recedes(s, s1) /\ (AuthenticationMutation(range) => s1.producer = 0)
  BY AuthorityRecedes, ArtifactsRecede, Unchanged
<1>2. \A r \in s1.artifacts : Current(s1, r) => r.code \cap range = {}
  <2>1. CASE AuthenticationMutation(range)
    BY <2>1, AuthorityRecedes
  <2>2. CASE ~AuthenticationMutation(range) /\ ArtifactMutation(s, range)
    <3>1. s1.artifacts = s.artifacts \ Overlapping(s, range)
      BY <2>2, ArtifactsRecede
    <3> QED
      BY <3>1 DEF Held, Overlapping
  <2>3. CASE ~AuthenticationMutation(range) /\ ~ArtifactMutation(s, range)
    BY <2>3 DEF ArtifactMutation
  <2> QED
    BY <2>1, <2>2, <2>3
<1> HIDE DEF s1
<1>3. Shaped(s1)
  BY <1>1, FadesShaped DEF Recedes
<1>4. Recedes(s1, s2)
  BY <1>3, LocalInvalidateRecedes, Unchanged
<1>5. Spared(s2, range)
  <2>1. s2.artifacts = s1.artifacts /\ s2.producer = s1.producer
    BY <1>3, LocalInvalidateRecedes
  <2>2. CASE Watched(range)
    <3>1. s2.pending # None => s2.pending.kind \notin range
      BY <1>3, <1>4, <2>2, LocalInvalidateRecedes DEF Recedes, Fades
    <3>2. \A k \in Kinds \cap range : s2.authorities[k] # s2.scene
      <4>1. \A k \in Kinds \cap range : s2.authorities[k] = 0
        BY <1>3, <2>2, LocalInvalidateRecedes
      <4>2. s2.scene # 0
        BY <1>3, <1>4 DEF Recedes, Fades, Shaped
      <4> QED
        BY <4>1, <4>2
    <3> QED
      BY <1>1, <1>2, <1>4, <2>1, <3>1, <3>2
      DEF Spared, Current, Recedes, Fades
  <2>3. CASE ~Watched(range)
    <3>1. Kinds \cap range = {}
      BY <2>3 DEF Watched, DescriptorPlaces
    <3>2. s2.pending # None => s2.pending.kind \notin range
      BY <1>3, <2>3, <3>1 DEF Shaped, Lifecycles
    <3> QED
      BY <1>1, <1>2, <2>3, <3>1, <3>2 DEF Spared
  <2> QED
    BY <2>2, <2>3
<1> HIDE DEF s2
<1>6. Recedes(s, s2) /\ Shaped(s2)
  BY <1>1, <1>3, <1>4, RecedesTwice, FadesShaped DEF Recedes
<1>7. WriteDispatched(s, range) =
        IF Watched(range) \/ s.completed THEN VariantReset(s2) ELSE s2
  BY DEF WriteDispatched, s1, s2
<1>8. Recedes(s2, VariantReset(s2)) /\ Spared(VariantReset(s2), range)
  BY <1>5, <1>6, VariantRecedes, SparedFades DEF Recedes
<1> QED
  BY <1>5, <1>6, <1>7, <1>8, RecedesTwice

(* The same is true once the transaction has heard of it, and what was under *)
(* way on the code that was written is over.                                 *)
LEMMA CodeWriteSpares ==
  ASSUME NEW s, NEW range, Shaped(s), Held(s.artifacts)
  PROVE  /\ Recedes(s, NoteCodeWrite(s, range))
         /\ Spared(NoteCodeWrite(s, range), range)
         /\ AuthenticationMutation(range) => ~NoteCodeWrite(s, range).active
<1> DEFINE t == WriteDispatched(s, range)
<1>1. Recedes(s, t) /\ Spared(t, range) /\ Shaped(t)
  BY WriteSpares, FadesShaped DEF Recedes
<1>2. NoteCodeWrite(s, range) =
        IF t.completed THEN RetireProof(t)
        ELSE IF t.active /\ AuthenticationMutation(range) THEN AbortActive(t)
        ELSE IF t.active \/ ~Watched(range) THEN t
        ELSE IF t.sequence # None THEN AbortActive(BeginScene(t, TRUE))
        ELSE [t EXCEPT !.candidate = None]
  BY DEF NoteCodeWrite
<1> HIDE DEF t
<1>4. CASE t.completed
  <2>1. NoteCodeWrite(s, range) = RetireProof(t)
    BY <1>2, <1>4
  <2>2. Recedes(t, RetireProof(t)) /\ Halts(RetireProof(t))
    BY <1>1, <1>4, RetireRecedes
  <2> QED
    BY <1>1, <2>1, <2>2, RecedesTwice, SparedFades DEF Recedes, Halts
<1>5. CASE ~t.completed /\ t.active /\ AuthenticationMutation(range)
  <2>1. NoteCodeWrite(s, range) = AbortActive(t)
    BY <1>2, <1>5
  <2>2. Recedes(t, AbortActive(t)) /\ Halts(AbortActive(t))
    BY <1>1, AbortHalts
  <2> QED
    BY <1>1, <2>1, <2>2, RecedesTwice, SparedFades DEF Recedes, Halts
<1>6. CASE ~t.completed /\ ~t.active /\ Watched(range) /\ t.sequence # None
  <2> DEFINE b == BeginScene(t, TRUE)
  <2>1. NoteCodeWrite(s, range) = AbortActive(b)
    BY <1>2, <1>6
  <2>2. Fades(t, b)
    BY <1>1, BeginsOrHalts
  <2> HIDE DEF b
  <2>3. Shaped(b) /\ Fades(b, AbortActive(b)) /\ Halts(AbortActive(b))
    BY <1>1, <2>2, FadesShaped, AbortHalts
  <2>4. Recedes(t, AbortActive(b))
    BY <2>2, <2>3, FadesTwice DEF Recedes
  <2> QED
    BY <1>1, <2>1, <2>3, <2>4, RecedesTwice, SparedFades DEF Recedes, Halts
<1>7. CASE ~t.completed /\ ~t.active /\ Watched(range) /\ t.sequence = None
  <2>1. NoteCodeWrite(s, range) = [t EXCEPT !.candidate = None]
    BY <1>2, <1>7
  <2>2. Fades(t, [t EXCEPT !.candidate = None]) /\ Halts([t EXCEPT !.candidate = None])
    BY <1>1, <1>7 DEF Shaped, Fields, Fades, Halts
  <2> QED
    BY <1>1, <2>1, <2>2, RecedesTwice, SparedFades DEF Recedes, Halts
<1>8. CASE /\ ~t.completed /\ ~(t.active /\ AuthenticationMutation(range))
           /\ ~(~t.active /\ Watched(range))
  <2>1. NoteCodeWrite(s, range) = t
    BY <1>2, <1>8
  <2> QED
    BY <1>1, <1>8, <2>1
<1> QED
  BY <1>4, <1>5, <1>6, <1>7, <1>8

LEMMA MismatchRecedes ==
  ASSUME NEW s, NEW p, Shaped(s)
  PROVE  /\ Recedes(s, NoteMismatch(s, p))
         /\ p \in FieldPlaces => ~NoteMismatch(s, p).active
<1> DEFINE s1 == IF ArtifactAt(s, p) THEN RemoveArtifacts(s, Overlapping(s, {p}))
                 ELSE IF p \in FieldPlaces THEN InvalidateAuthority(s) ELSE s
           s2 == VariantReset(LocalClear(s1))
           told == p \in FieldPlaces \/ ArtifactAt(s, p) \/ LocalAuthorizes(s, p)
                     \/ PendingAuthorizes(s, p)
<1>1. NoteMismatch(s, p) =
        IF ~told THEN s
        ELSE IF s2.active \/ s2.completed THEN AbortActive(s2)
        ELSE [s2 EXCEPT !.candidate = None, !.sequence = None]
  BY DEF NoteMismatch
<1>2. p \in FieldPlaces => told
  OBVIOUS
<1>3. Recedes(s, s1)
  BY ArtifactsRecede, AuthorityRecedes, Unchanged
<1> HIDE DEF s1, told
<1>4. Shaped(s1)
  BY <1>3, FadesShaped DEF Recedes
<1>5. Recedes(s1, LocalClear(s1)) /\ Shaped(LocalClear(s1))
  BY <1>4, LocalRecedes, FadesShaped DEF Recedes
<1>6. Recedes(s, s2) /\ Shaped(s2)
  <2>1. Recedes(LocalClear(s1), s2)
    BY <1>5, VariantRecedes
  <2> QED
    BY <1>3, <1>5, <2>1, RecedesTwice, FadesShaped DEF Recedes
<1> HIDE DEF s2
<1>7. CASE ~told
  BY <1>1, <1>2, <1>7, Unchanged
<1>8. CASE told /\ (s2.active \/ s2.completed)
  BY <1>1, <1>6, <1>8, AbortHalts, RecedesTwice DEF Halts
<1>9. CASE told /\ ~(s2.active \/ s2.completed)
  <2> DEFINE u == [s2 EXCEPT !.candidate = None, !.sequence = None]
  <2>1. Recedes(s2, u) /\ Halts(u)
    BY <1>6, <1>9 DEF Shaped, Fields, Recedes, Fades, Halts
  <2>2. NoteMismatch(s, p) = u
    BY <1>1, <1>9
  <2> HIDE DEF u
  <2> QED
    BY <1>6, <2>1, <2>2, RecedesTwice DEF Halts
<1> QED
  BY <1>7, <1>8, <1>9

----------------------------------------------------------------------------
(***************************************************************************)
(* A hook: what it may come to.                                            *)
(***************************************************************************)
(* The transaction starts, sees the capture, or is completed.                *)
Enters(s, t, h) ==
  /\ Fades(s, t) /\ t.variant = s.variant /\ h.fit = "fit"
  /\ t.active /\ ~t.completed /\ t.candidate = None
  /\ t.phase = "CAPTURE" /\ t.tier = h.tier /\ t.dispatched = (h.tier = "warm")
Captures(s, t, h) ==
  /\ Fades(s, t) /\ t.variant = s.variant /\ h.fit = "fit"
  /\ s.active /\ s.phase = "CAPTURE" /\ s.tier = h.tier
  /\ t.active /\ t.completed = s.completed /\ t.candidate = s.candidate
  /\ t.phase = "RETURN" /\ t.tier = s.tier /\ t.dispatched = s.dispatched

(* Evidence fades in all but the producer, who may have been won.            *)
Returns(s, t, h) ==
  /\ Fades(s, [t EXCEPT !.producer = 0, !.completed = FALSE])
  /\ DOMAIN t = Fields
  /\ s.active /\ s.phase = "RETURN" /\ s.tier = h.tier
  /\ t.active /\ t.completed /\ t.candidate = s.candidate
  /\ t.phase = "FINALIZED"
  /\ h.tier = "cold" \/ s.dispatched =>
       t.proof = [tier |-> h.tier, scene |-> s.scene, blocked |-> FALSE]

LEMMA EntryOutcome ==
  ASSUME NEW s, NEW h \in Hooks, NEW matched \in BOOLEAN, Shaped(s)
  PROVE  LET t == ObserveEntry(s, h, matched)
         IN Enters(s, t, h) \/ (Fades(s, t) /\ Halts(t))
<1> DEFINE z == [s EXCEPT !.candidate = None, !.dispatched = FALSE]
           begun == BeginScene(z, h.fit # "unable")
           t == ObserveEntry(s, h, matched)
           warm == h.tier = "warm"
<1>1. Fades(s, z) /\ z.candidate = None /\ z.variant = s.variant
  BY DEF Shaped, Fields, Fades
<1>2. t = IF warm /\ ~matched THEN AbortActive(begun)
          ELSE IF ~begun.active THEN begun
          ELSE IF h.fit = "fit"
          THEN [begun EXCEPT !.phase = "CAPTURE", !.tier = h.tier, !.dispatched = warm]
          ELSE AbortActive(begun)
  BY DEF ObserveEntry
<1> HIDE DEF z, t
<1>3. Shaped(z)
  BY <1>1, FadesShaped
<1>4. /\ Fades(z, begun) /\ ~begun.completed
      /\ begun.active => begun.candidate = None /\ begun.variant = s.variant
  BY <1>1, <1>3, BeginsOrHalts
<1> HIDE DEF begun
<1>5. Fades(s, begun) /\ Shaped(begun)
  BY <1>1, <1>3, <1>4, FadesTwice, FadesShaped
<1>6. CASE t = AbortActive(begun)
  BY <1>5, <1>6, AbortHalts, FadesTwice DEF t
<1>7. CASE ~begun.active /\ t = begun
  BY <1>4, <1>5, <1>7 DEF Halts, t
<1>8. CASE /\ begun.active /\ h.fit = "fit"
           /\ t = [begun EXCEPT !.phase = "CAPTURE", !.tier = h.tier, !.dispatched = warm]
  <2>1. /\ Fades(begun, t) /\ t.variant = begun.variant /\ t.active /\ ~t.completed
        /\ t.candidate = begun.candidate /\ t.phase = "CAPTURE" /\ t.tier = h.tier
        /\ t.dispatched = warm
    BY <1>4, <1>5, <1>8 DEF Shaped, Fields, Fades
  <2>2. Enters(s, t, h)
    BY <1>4, <1>5, <1>8, <2>1, FadesTwice DEF Enters
  <2> QED
    BY <2>2 DEF t
<1> QED
  BY <1>2, <1>6, <1>7, <1>8

LEMMA CaptureOutcome ==
  ASSUME NEW s, NEW h \in Hooks, Shaped(s)
  PROVE  LET t == ObserveCapture(s, h)
         IN \/ Captures(s, t, h)
            \/ Fades(s, t) /\ Halts(t)
            \/ ~s.active /\ t = s
<1>1. CASE ~s.active
  BY <1>1 DEF ObserveCapture
<1>2. CASE s.active /\ Accepts(s, h, "CAPTURE")
  BY <1>2 DEF ObserveCapture, Accepts, Captures, Shaped, Fields, Fades
<1>3. CASE s.active /\ ~Accepts(s, h, "CAPTURE")
  BY <1>3, AbortHalts DEF ObserveCapture
<1> QED
  BY <1>1, <1>2, <1>3

LEMMA ReturnOutcome ==
  ASSUME NEW s, NEW h \in Hooks, Shaped(s)
  PROVE  LET t == ObserveReturn(s, h)
         IN \/ Returns(s, t, h) /\ t.variant = s.variant /\ t.producer = s.producer
            \/ Fades(s, t) /\ Halts(t)
            \/ ~s.active /\ t = s
<1>1. CASE ~s.active
  BY <1>1 DEF ObserveReturn
<1>2. CASE s.active /\ ~Accepts(s, h, "RETURN")
  BY <1>2, AbortHalts DEF ObserveReturn
<1>3. CASE s.active /\ Accepts(s, h, "RETURN")
  <2> DEFINE f == [s EXCEPT !.phase = "FINALIZED", !.completed = TRUE, !.tier = None]
             g == Publish(f, h)
  <2>1. ObserveReturn(s, h) = g
    BY <1>3 DEF ObserveReturn
  <2>2. /\ DOMAIN f = Fields /\ f.scene = s.scene /\ f.dispatched = s.dispatched
        /\ f.phase = "FINALIZED" /\ f.completed /\ f.active = s.active
        /\ f.candidate = s.candidate /\ f.variant = s.variant
        /\ f.producer = s.producer /\ f.pending = s.pending
        /\ f.artifacts = s.artifacts /\ f.authorities = s.authorities
    BY DEF Shaped, Fields
  <2> HIDE DEF f
  <2>3. /\ DOMAIN g = Fields /\ g.scene = f.scene
        /\ g.phase = f.phase /\ g.completed = f.completed /\ g.active = f.active
        /\ g.candidate = f.candidate /\ g.variant = f.variant
        /\ g.producer = f.producer /\ g.pending = f.pending
        /\ g.artifacts = f.artifacts /\ g.authorities = f.authorities
        /\ h.tier = "cold" \/ f.dispatched =>
             g.proof = [tier |-> h.tier, scene |-> f.scene, blocked |-> FALSE]
    BY <2>2 DEF Publish, Fields
  <2> HIDE DEF g
  <2>4. Fades(s, [g EXCEPT !.producer = 0, !.completed = FALSE])
    BY <2>2, <2>3 DEF Shaped, Fields, Fades
  <2> QED
    BY <1>3, <2>1, <2>2, <2>3, <2>4 DEF Returns, Accepts
<1> QED
  BY <1>1, <1>2, <1>3

LEMMA CanonicalOutcome ==
  ASSUME NEW s, NEW h \in Hooks, Shaped(s), s.active => s.candidate = None
  PROVE  LET t == CanonicalHook(s, h)
         IN \/ Enters(s, t, h) /\ Seen(h, {"ENTRY"}, "entry")
            \/ Captures(s, t, h) /\ Seen(h, {"CAPTURE"}, "capture")
            \/ Returns(s, t, h) /\ t.variant = s.variant /\ t.producer = s.producer
            \/ Fades(s, t) /\ Halts(t)
            \/ /\ t = s
               /\ s.active => ~Seen(h, {"ENTRY"}, "entry")
               /\ s.active => ~(h.hook = "FOREIGN" /\ h.site # "outside")
<1> DEFINE t == CanonicalHook(s, h)
<1>1. CASE Seen(h, {"ENTRY"}, "entry")
  <2>1. t = IF h.tier = "warm" /\ ~CandidateEnters(s, Canon) /\ CandidateIs(s, Field)
            THEN s ELSE ObserveEntry(s, h, CandidateEnters(s, Canon))
    BY <1>1 DEF CanonicalHook, Seen
  <2>2. CandidateIs(s, Field) => ~s.active
    BY DEF CandidateIs
  <2>3. CASE h.tier = "warm" /\ ~CandidateEnters(s, Canon) /\ CandidateIs(s, Field)
    <3>1. t = s /\ ~s.active
      BY <2>1, <2>2, <2>3
    <3> QED
      BY <3>1
  <2>4. CASE ~(h.tier = "warm" /\ ~CandidateEnters(s, Canon) /\ CandidateIs(s, Field))
    <3>1. CandidateEnters(s, Canon) \in BOOLEAN
      BY DEF CandidateEnters
    <3>2. t = ObserveEntry(s, h, CandidateEnters(s, Canon))
      BY <2>1, <2>4
    <3>3. Enters(s, t, h) \/ (Fades(s, t) /\ Halts(t))
      BY <3>1, <3>2, EntryOutcome
    <3> QED
      BY <1>1, <3>3
  <2> QED
    BY <2>3, <2>4
<1>2. CASE Seen(h, {"CAPTURE"}, "capture")
  <2>1. t = ObserveCapture(s, h)
    BY <1>2 DEF CanonicalHook, Seen
  <2> QED
    BY <1>2, <2>1, CaptureOutcome
<1>3. CASE Seen(h, {"RETURN"}, "return")
  <2>1. t = ObserveReturn(s, h)
    BY <1>3 DEF CanonicalHook, Seen
  <2> QED
    BY <1>3, <2>1, ReturnOutcome
<1>4. CASE h.hook = "FOREIGN" /\ h.site # "outside"
  <2>1. t = AbortActive(s)
    BY <1>4 DEF CanonicalHook, Seen
  <2> QED
    BY <2>1, AbortHalts
<1>5. CASE /\ ~Seen(h, {"ENTRY"}, "entry") /\ ~Seen(h, {"CAPTURE"}, "capture")
           /\ ~Seen(h, {"RETURN"}, "return")
           /\ ~(h.hook = "FOREIGN" /\ h.site # "outside")
  BY <1>5 DEF CanonicalHook
<1> QED
  BY <1>1, <1>2, <1>3, <1>4, <1>5

LEMMA VariantOutcome ==
  ASSUME NEW s, NEW h \in Hooks, Shaped(s), s.completed => s.active
  PROVE  /\ Recedes(s, Activated(s))
         /\ \/ Enters(s, VariantEntry(s, h), h)
            \/ Fades(s, VariantEntry(s, h)) /\ Halts(VariantEntry(s, h))
         /\ \/ Captures(s, VariantCapture(s, h), h)
            \/ Fades(s, VariantCapture(s, h)) /\ Halts(VariantCapture(s, h))
         /\ \/ Returns(s, VariantReturn(s, h), h)
            \/ Fades(s, VariantReturn(s, h)) /\ Halts(VariantReturn(s, h))
         /\ VariantReturn(s, h).variant = NoVariant \/ ~VariantReturn(s, h).active
<1>1. Recedes(s, Activated(s))
  <2> DEFINE t == [s EXCEPT !.sequence = None, !.armed = @ \/ ~s.active]
  <2>1. Fades(s, t) /\ Stays(s, t)
    BY DEF Shaped, Fields, Fades, Stays
  <2>2. Activated(s) = t \/ Activated(s) = AbortActive(t)
    BY DEF Activated
  <2> HIDE DEF t
  <2>3. Shaped(t) /\ Recedes(s, t)
    BY <2>1, FadesShaped DEF Recedes
  <2> QED
    BY <2>2, <2>3, AbortHalts, RecedesTwice
<1>2. \/ Enters(s, VariantEntry(s, h), h)
      \/ Fades(s, VariantEntry(s, h)) /\ Halts(VariantEntry(s, h))
  <2> DEFINE t == [s EXCEPT !.sequence = [tier |-> h.tier, ready |-> FALSE]]
             matched == h.tier = "cold" \/ CandidateEnters(s, Field)
  <2>1. Fades(s, t) /\ t.variant = s.variant
    BY DEF Shaped, Fields, Fades
  <2>2. VariantEntry(s, h) = ObserveEntry(t, h, matched) /\ matched \in BOOLEAN
    BY DEF VariantEntry
  <2> HIDE DEF t, matched
  <2>3. Shaped(t)
    BY <2>1, FadesShaped
  <2>4. \/ Enters(t, VariantEntry(s, h), h)
        \/ Fades(t, VariantEntry(s, h)) /\ Halts(VariantEntry(s, h))
    BY <2>2, <2>3, EntryOutcome
  <2> QED
    BY <2>1, <2>4, FadesTwice DEF Enters
<1>3. \/ Captures(s, VariantCapture(s, h), h)
      \/ Fades(s, VariantCapture(s, h)) /\ Halts(VariantCapture(s, h))
  <2> DEFINE t == [s EXCEPT !.sequence.ready = TRUE]
  <2>1. /\ Fades(s, t) /\ t.variant = s.variant /\ t.active = s.active
        /\ t.phase = s.phase /\ t.tier = s.tier /\ t.completed = s.completed
        /\ t.candidate = s.candidate /\ t.dispatched = s.dispatched
    BY DEF Shaped, Fields, Fades
  <2>2. VariantCapture(s, h) = ObserveCapture(t, h) \/ VariantCapture(s, h) = AbortActive(s)
    BY DEF VariantCapture
  <2> HIDE DEF t
  <2>3. Shaped(t)
    BY <2>1, FadesShaped
  <2>4. CASE VariantCapture(s, h) = ObserveCapture(t, h)
    <3>1. \/ Captures(t, VariantCapture(s, h), h)
          \/ Fades(t, VariantCapture(s, h)) /\ Halts(VariantCapture(s, h))
          \/ ~t.active /\ VariantCapture(s, h) = t
      BY <2>3, <2>4, CaptureOutcome
    <3> QED
      BY <2>1, <3>1, FadesTwice DEF Captures, Halts
  <2> QED
    BY <2>2, <2>4, AbortHalts
<1>4. /\ \/ Returns(s, VariantReturn(s, h), h)
         \/ Fades(s, VariantReturn(s, h)) /\ Halts(VariantReturn(s, h))
      /\ VariantReturn(s, h).variant = NoVariant \/ ~VariantReturn(s, h).active
  <2> DEFINE t == ObserveReturn(s, h)
             u == [t EXCEPT !.sequence = None,
                            !.producer = IF t.completed THEN t.scene ELSE @]
             v == VariantReset(u)
  <2>1. VariantReturn(s, h) = v \/ VariantReturn(s, h) = AbortActive(s)
    BY DEF VariantReturn
  <2>2. \/ Returns(s, t, h)
        \/ Fades(s, t) /\ Halts(t)
        \/ ~s.active /\ t = s
    BY ReturnOutcome
  <2>3. Returns(s, t, h) \/ (Fades(s, t) /\ Halts(t))
    BY <2>2, Unchanged DEF Halts, Recedes
  <2> HIDE DEF t
  <2>4. CASE Returns(s, t, h)
    <3>1. /\ DOMAIN v = Fields
          /\ v.scene = t.scene /\ v.pending = t.pending /\ v.authorities = t.authorities
          /\ v.artifacts = t.artifacts /\ v.active = t.active /\ v.completed = t.completed
          /\ v.candidate = t.candidate /\ v.phase = t.phase /\ v.proof = t.proof
          /\ v.variant = NoVariant
      BY <2>4 DEF Returns, Fields, VariantReset
    <3> HIDE DEF v
    <3>2. Fades(s, [v EXCEPT !.producer = 0, !.completed = FALSE])
      BY <2>4, <3>1 DEF Returns, Fades, Fields
    <3> QED
      BY <2>1, <2>4, <3>1, <3>2, AbortHalts DEF Returns, Halts
  <2>5. CASE Fades(s, t) /\ Halts(t)
    <3>1. Fades(t, v) /\ Halts(v)
      BY <2>5 DEF Fades, Halts, Fields, VariantReset, Shaped
    <3> QED
      BY <2>1, <2>5, <3>1, AbortHalts, FadesTwice DEF Halts
  <2> QED
    BY <2>3, <2>4, <2>5
<1> QED
  BY <1>1, <1>2, <1>3, <1>4

----------------------------------------------------------------------------
(***************************************************************************)
(* What holds of every state.                                              *)
(***************************************************************************)
(* Evidence is of code that is in memory m.                                  *)
InMemory(s, m) ==
  /\ s.pending # None => m[s.pending.kind] = Field
  /\ \A k \in Kinds : s.authorities[k] = s.scene => m[k] = Field
  /\ \A r \in s.artifacts : Current(s, r) => \A p \in r.code : m[p] = r.art

(* The transaction is no further than what its tier has seen (pr), and warm  *)
(* only with the candidate it was dispatched for.  While the variant follows *)
(* it to the capture, no canonical hook moves it.                            *)
Course(s, pr) ==
  /\ s.completed => s.active /\ s.phase = "FINALIZED"
  /\ s.active => s.candidate = None
  /\ s.active /\ s.phase \in {"CAPTURE", "RETURN"} =>
       s.tier \in Tiers /\ (s.tier = "warm" => s.dispatched)
  /\ s.active /\ s.phase = "CAPTURE" => pr[s.tier] \in 1..2
  /\ s.active /\ s.phase = "RETURN" => pr[s.tier] = 2
  /\ s.active /\ s.variant.phase = "CAPTURE" => s.phase = "CAPTURE"

AuthenticationInv ==
  /\ Shaped(state) /\ Held(state.artifacts)
  /\ InMemory(state, mem)
  /\ state.producer = state.scene => ~dirty
  /\ progress \in [Tiers -> 0..2] /\ Course(state, progress)

LEMMA EvidenceFades ==
  ASSUME NEW s, NEW t, NEW m, Shaped(s), Held(s.artifacts), InMemory(s, m), Fades(s, t)
  PROVE  /\ Shaped(t) /\ Held(t.artifacts) /\ InMemory(t, m)
         /\ t.producer = t.scene => s.producer = s.scene
<1>1. Shaped(t)
  BY FadesShaped
<1>2. Held(t.artifacts) /\ (t.producer = t.scene => s.producer = s.scene)
  BY DEF Held, Fades, Shaped
<1>3. t.pending # None => m[t.pending.kind] = Field
  BY DEF InMemory, Fades
<1>4. \A k \in Kinds : t.authorities[k] = t.scene => m[k] = Field
  BY DEF InMemory, Fades, Shaped
<1>5. \A r \in t.artifacts : Current(t, r) => \A p \in r.code : m[p] = r.art
  BY DEF InMemory, Fades, Current
<1> QED
  BY <1>1, <1>2, <1>3, <1>4, <1>5 DEF InMemory

LEMMA CourseHalts ==
  ASSUME NEW t, NEW pr, Halts(t)
  PROVE  Course(t, pr)
BY DEF Halts, Course

LEMMA CourseStays ==
  ASSUME NEW s, NEW t, NEW pr, Course(s, pr), Recedes(s, t)
  PROVE  Course(t, pr)
<1>1. CASE Halts(t)
  BY <1>1, CourseHalts
<1>2. CASE Stays(s, t)
  BY <1>2 DEF Course, Stays, Recedes, Fades, NoVariant
<1> QED
  BY <1>1, <1>2 DEF Recedes

(* No call but the return of a proof completes one.                          *)
LEMMA NothingCompletes ==
  ASSUME state'.completed => state.completed
  PROVE  ~Completes
BY DEF Completes

LEMMA InitAuthentication == Init => AuthenticationInv
<1> SUFFICES ASSUME Init PROVE AuthenticationInv
  OBVIOUS
<1>1. /\ Shaped(state) /\ state.scene = 1 /\ state.pending = None /\ state.artifacts = {}
      /\ state.producer = 0 /\ ~state.active /\ ~state.completed
      /\ \A k \in Kinds : state.authorities[k] = 0
  BY DEF Init, Started, Shaped, Fields, Variants, NoVariant
<1>2. InMemory(state, mem) /\ Held(state.artifacts) /\ state.producer # state.scene
  BY <1>1 DEF InMemory, Held
<1>3. Course(state, progress)
  BY <1>1, CourseHalts DEF Halts
<1>4. progress \in [Tiers -> 0..2]
  BY DEF Init
<1> QED
  BY <1>1, <1>2, <1>3, <1>4 DEF AuthenticationInv

(* A step that only takes evidence away.                                     *)
LEMMA RecedingStep ==
  ASSUME AuthenticationInv, Recedes(state, state'), mem' = mem, dirty' = dirty,
         progress' = progress \/ (progress' = Broken /\ ~state'.active)
  PROVE  AuthenticationInv' /\ ~Completes
<1>1. Shaped(state') /\ Held(state'.artifacts) /\ InMemory(state', mem)
      /\ (state'.producer = state'.scene => state.producer = state.scene)
  BY EvidenceFades DEF AuthenticationInv, Recedes
<1>2. Course(state', progress)
  BY CourseStays DEF AuthenticationInv
<1>3. ~state'.active => ~state'.completed
  BY <1>2 DEF Course
<1>4. Course(state', progress')
  BY <1>2, <1>3, CourseHalts DEF Halts
<1>5. progress' \in [Tiers -> 0..2]
  BY DEF AuthenticationInv, Broken
<1>6. ~Completes
  BY NothingCompletes DEF Recedes, Fades
<1>7. InMemory(state, mem)' /\ Course(state, progress)'
  BY <1>1, <1>4 DEF InMemory, Current, Course
<1> QED
  BY <1>1, <1>5, <1>6, <1>7 DEF AuthenticationInv, Shaped, Held

----------------------------------------------------------------------------
(***************************************************************************)
(* Hooks.                                                                  *)
(***************************************************************************)
(* u is s once the variant has read the hook.                                *)
Reads(s, u) ==
  /\ DOMAIN u = Fields /\ u.variant \in Variants
  /\ u.scene = s.scene /\ u.pending = s.pending
  /\ u.authorities = s.authorities /\ u.artifacts = s.artifacts
  /\ u.producer = s.producer
  /\ Stays(s, u)

LEMMA EventSays ==
  ASSUME NEW s, NEW h \in Hooks, Shaped(s)
  PROVE  LET event == VariantEvent(s, h)
             after == VariantAfter(s, event)
         IN /\ after \in Variants
            /\ \/ /\ event = "IGNORE" /\ s.variant.phase = "NONE" /\ after = s.variant
               \/ /\ event = "ACTIVATED" /\ h.site = "activate" /\ h.hook = "CAPTURE"
                  /\ after.phase = "ENTRY"
               \/ /\ event = "ENTRY" /\ s.variant.phase = "ENTRY" /\ h.ok
                  /\ Seen(h, {"ENTRY"}, "ventry") /\ after.phase = "CAPTURE"
               \/ /\ event = "CAPTURE" /\ s.variant.phase = "CAPTURE" /\ h.ok
                  /\ Seen(h, {"CAPTURE"}, "vcapture") /\ after.phase = "RETURN"
               \/ /\ event = "RETURN" /\ after.phase = "RETURN"
               \/ event = "REJECT"
               \/ /\ event = "CONSUMED" /\ h.hook # "FOREIGN"
                  /\ ~Seen(h, {"ENTRY"}, "ventry")
                  /\ s.variant.phase = "CAPTURE" \/ h.site = "outside"
<1> DEFINE event == VariantEvent(s, h)
           phase == s.variant.phase
           after == VariantAfter(s, event)
<1>1. phase \in {"NONE", "ENTRY", "CAPTURE", "RETURN"} /\ s.scene \in Nat
  BY DEF Shaped, Variants
<1>2. CASE phase = "NONE" /\ Seen(h, {"CAPTURE"}, "activate")
  <2>1. event = "ACTIVATED" \/ event = "REJECT"
    BY <1>2 DEF VariantEvent
  <2> QED
    BY <1>1, <1>2, <2>1 DEF VariantAfter, Variants, NoVariant, Seen
<1>3. CASE phase = "NONE" /\ ~Seen(h, {"CAPTURE"}, "activate")
  <2>1. event = "IGNORE"
    BY <1>3 DEF VariantEvent
  <2> QED
    BY <1>1, <1>3, <2>1 DEF VariantAfter, Shaped
<1>4. CASE phase # "NONE" /\ s.variant.scene # s.scene
  <2>1. event = "REJECT"
    BY <1>4 DEF VariantEvent
  <2> QED
    BY <2>1 DEF VariantAfter, Variants, NoVariant
<1>5. CASE phase # "NONE" /\ s.variant.scene = s.scene
  <2>1. event =
          CASE phase = "ENTRY" /\ Seen(h, {"ENTRY"}, "ventry") /\ h.ok -> "ENTRY"
            [] phase = "CAPTURE" /\ Seen(h, {"ENTRY"}, "vcapture") -> "CONSUMED"
            [] phase = "CAPTURE" /\ Seen(h, {"CAPTURE"}, "vcapture") /\ h.ok ->
                 "CAPTURE"
            [] phase = "CAPTURE" /\ Followed(h) /\ h.site # "vcapture"
                 /\ ~Seen(h, {"ENTRY"}, "ventry")
                 /\ ~Seen(h, {"RETURN"}, "vreturn") -> "CONSUMED"
            [] phase = "RETURN" /\ Seen(h, {"ENTRY", "RETURN"}, "vreturn") /\ h.ok ->
                 "RETURN"
            [] phase \in {"ENTRY", "RETURN"} /\ Followed(h) /\ h.site = "outside" ->
                 "CONSUMED"
            [] OTHER -> "REJECT"
    BY <1>5 DEF VariantEvent
  <2>2. CASE phase = "ENTRY"
    <3>1. CASE Seen(h, {"ENTRY"}, "ventry") /\ h.ok
      <4>1. event = "ENTRY"
        BY <2>1, <2>2, <3>1 DEF Seen
      <4> QED
        BY <2>2, <3>1, <4>1 DEF VariantAfter, Shaped, Variants
    <3>2. CASE Followed(h) /\ h.site = "outside"
      <4>1. event = "CONSUMED"
        BY <2>1, <2>2, <3>2 DEF Seen
      <4> QED
        BY <3>2, <4>1 DEF VariantAfter, Shaped, Followed, Seen
    <3>3. CASE /\ ~(Seen(h, {"ENTRY"}, "ventry") /\ h.ok)
               /\ ~(Followed(h) /\ h.site = "outside")
      <4>1. event = "REJECT"
        BY <2>1, <2>2, <3>3
      <4> QED
        BY <4>1 DEF VariantAfter, Variants, NoVariant
    <3> QED
      BY <3>1, <3>2, <3>3
  <2>3. CASE phase = "CAPTURE"
    <3>1. CASE Seen(h, {"CAPTURE"}, "vcapture") /\ h.ok
      <4>1. event = "CAPTURE"
        BY <2>1, <2>3, <3>1 DEF Seen
      <4> QED
        BY <2>3, <3>1, <4>1 DEF VariantAfter, Shaped, Variants
    <3>2. CASE \/ Seen(h, {"ENTRY"}, "vcapture")
               \/ /\ Followed(h) /\ h.site # "vcapture"
                  /\ ~Seen(h, {"ENTRY"}, "ventry")
                  /\ ~Seen(h, {"RETURN"}, "vreturn")
      <4>1. event = "CONSUMED"
        BY <2>1, <2>3, <3>2 DEF Seen
      <4> QED
        BY <2>3, <3>2, <4>1 DEF VariantAfter, Shaped, Followed, Seen
    <3>3. CASE /\ ~(Seen(h, {"CAPTURE"}, "vcapture") /\ h.ok)
               /\ ~Seen(h, {"ENTRY"}, "vcapture")
               /\ ~(/\ Followed(h) /\ h.site # "vcapture"
                    /\ ~Seen(h, {"ENTRY"}, "ventry")
                    /\ ~Seen(h, {"RETURN"}, "vreturn"))
      <4>1. event = "REJECT"
        BY <2>1, <2>3, <3>3
      <4> QED
        BY <4>1 DEF VariantAfter, Variants, NoVariant
    <3> QED
      BY <3>1, <3>2, <3>3
  <2>4. CASE phase = "RETURN"
    <3>1. CASE Seen(h, {"ENTRY", "RETURN"}, "vreturn") /\ h.ok
      <4>1. event = "RETURN"
        BY <2>1, <2>4, <3>1 DEF Seen
      <4> QED
        BY <2>4, <4>1 DEF VariantAfter, Shaped, Variants
    <3>2. CASE Followed(h) /\ h.site = "outside"
      <4>1. event = "CONSUMED"
        BY <2>1, <2>4, <3>2 DEF Seen
      <4> QED
        BY <3>2, <4>1 DEF VariantAfter, Shaped, Followed, Seen
    <3>3. CASE /\ ~(Seen(h, {"ENTRY", "RETURN"}, "vreturn") /\ h.ok)
               /\ ~(Followed(h) /\ h.site = "outside")
      <4>1. event = "REJECT"
        BY <2>1, <2>4, <3>3
      <4> QED
        BY <4>1 DEF VariantAfter, Variants, NoVariant
    <3> QED
      BY <3>1, <3>2, <3>3
  <2> QED
    BY <1>1, <1>5, <2>2, <2>3, <2>4
<1> QED
  BY <1>2, <1>3, <1>4, <1>5

LEMMA HookReads ==
  ASSUME NEW s, NEW h \in Hooks, Shaped(s)
  PROVE  LET event == VariantEvent(s, h)
             u == DropCandidate([s EXCEPT !.variant = VariantAfter(s, event)], h, event)
         IN Reads(s, u) /\ Shaped(u) /\ u.variant = VariantAfter(s, event)
<1> DEFINE event == VariantEvent(s, h)
           after == VariantAfter(s, event)
           v == [s EXCEPT !.variant = after]
           u == DropCandidate(v, h, event)
<1>1. after \in Variants
  BY EventSays
<1> HIDE DEF after, event
<1>2. Reads(s, v) /\ v.variant = after
  BY <1>1 DEF Reads, Shaped, Fields, Stays
<1> HIDE DEF v
<1>3. Reads(s, u) /\ u.variant = after
  BY <1>2 DEF DropCandidate, Reads, Fields, Stays
<1> HIDE DEF u
<1>4. Shaped(u)
  BY <1>3 DEF Shaped, Reads
<1> QED
  BY <1>3, <1>4 DEF u, v, after, event

(* What a hook does to the evidence, but for a proof it may complete.        *)
LEMMA HookEvidence ==
  ASSUME NEW s, NEW u, NEW t, NEW m, Shaped(s), Held(s.artifacts), InMemory(s, m),
         Reads(s, u), Fades(u, t)
  PROVE  /\ Shaped(t) /\ Held(t.artifacts) /\ InMemory(t, m)
         /\ t.producer = t.scene => s.producer = s.scene
         /\ t.completed => s.completed
<1>1. Shaped(u) /\ Held(u.artifacts) /\ InMemory(u, m)
  BY DEF Shaped, Held, InMemory, Reads, Current
<1> QED
  BY <1>1, EvidenceFades DEF Reads, Stays, Fades

LEMMA ReturnEvidence ==
  ASSUME NEW s, NEW u, NEW t, NEW m, NEW h, Shaped(s), Held(s.artifacts), InMemory(s, m),
         Reads(s, u), Returns(u, t, h)
  PROVE  Shaped(t) /\ Held(t.artifacts) /\ InMemory(t, m)
<1> DEFINE v == [t EXCEPT !.producer = 0, !.completed = FALSE]
<1>1. /\ v.scene = t.scene /\ v.pending = t.pending /\ v.authorities = t.authorities
      /\ v.artifacts = t.artifacts /\ v.variant = t.variant
  BY DEF Returns, Fields
<1>2. DOMAIN t = Fields /\ Fades(u, v)
  BY DEF Returns
<1> HIDE DEF v
<1>3. Shaped(v) /\ Held(v.artifacts) /\ InMemory(v, m)
  BY <1>2, HookEvidence
<1> QED
  BY <1>1, <1>2, <1>3 DEF Shaped, Held, InMemory, Current

LEMMA HookAdvances ==
  ASSUME NEW h \in Hooks, progress \in [Tiers -> 0..2]
  PROVE  /\ Advanced(h) \in [Tiers -> 0..2]
         /\ ~Completes /\ ~(h.hook = "FOREIGN" /\ h.site # "outside") =>
              /\ \A t \in Tiers : progress[t] \in 1..2 => Advanced(h)[t] \in 1..2
              /\ ~Entered(h) \/ Stray(h) =>
                   \A t \in Tiers : progress[t] = 2 => Advanced(h)[t] = 2
              /\ h.ok /\ h.fit = "fit" /\ Entered(h) => Advanced(h)[h.tier] \in 1..2
              /\ h.ok /\ h.fit = "fit" /\ Captured(h) /\ progress[h.tier] \in 1..2 =>
                   Advanced(h)[h.tier] = 2
<1>1. h.tier \in Tiers
  BY DEF Hooks
<1>2. Broken \in [Tiers -> 0..2]
  BY DEF Broken
<1>3. ~(Captured(h) /\ Entered(h))
  BY DEF Captured, Entered, Seen
<1>4. Advanced(h) \in [Tiers -> 0..2]
  BY <1>1, <1>2 DEF Advanced
<1> QED
  BY <1>1, <1>3, <1>4 DEF Advanced

(* The proof a hook completes is of an execution its tier saw whole.         *)
LEMMA HookStep ==
  ASSUME AuthenticationInv, NEW h \in Hooks,
         state' = ObserveHook(state, h), progress' = Advanced(h),
         dirty' = (dirty /\ ~Completes), mem' = mem
  PROVE  AuthenticationInv' /\ (Completes => progress[state'.proof.tier] = 2)
<1> DEFINE event == VariantEvent(state, h)
           u == DropCandidate([state EXCEPT !.variant = VariantAfter(state, event)],
                              h, event)
<1>1. /\ Shaped(state) /\ Held(state.artifacts) /\ InMemory(state, mem)
      /\ state.producer = state.scene => ~dirty
      /\ progress \in [Tiers -> 0..2] /\ Course(state, progress)
  BY DEF AuthenticationInv
<1>2. Reads(state, u) /\ Shaped(u) /\ u.variant = VariantAfter(state, event)
  BY <1>1, HookReads
<1>3. state' = CASE event = "CONSUMED" -> state
                 [] event = "ACTIVATED" -> Activated(u)
                 [] event = "REJECT" -> AbortActive(u)
                 [] event = "ENTRY" -> VariantEntry(u, h)
                 [] event = "CAPTURE" -> VariantCapture(u, h)
                 [] event = "RETURN" -> VariantReturn(u, h)
                 [] event = "IGNORE" -> CanonicalHook(u, h)
  BY DEF ObserveHook
<1>4. \/ /\ event = "IGNORE" /\ state.variant.phase = "NONE" /\ u.variant = state.variant
      \/ /\ event = "ACTIVATED" /\ h.site = "activate" /\ h.hook = "CAPTURE"
         /\ u.variant.phase = "ENTRY"
      \/ /\ event = "ENTRY" /\ state.variant.phase = "ENTRY" /\ h.ok
         /\ Seen(h, {"ENTRY"}, "ventry") /\ u.variant.phase = "CAPTURE"
      \/ /\ event = "CAPTURE" /\ state.variant.phase = "CAPTURE" /\ h.ok
         /\ Seen(h, {"CAPTURE"}, "vcapture") /\ u.variant.phase = "RETURN"
      \/ /\ event = "RETURN" /\ u.variant.phase = "RETURN"
      \/ event = "REJECT"
      \/ /\ event = "CONSUMED" /\ h.hook # "FOREIGN"
         /\ ~Seen(h, {"ENTRY"}, "ventry")
         /\ state.variant.phase = "CAPTURE" \/ h.site = "outside"
  BY <1>1, <1>2, EventSays
<1> HIDE DEF event, u
<1>5. u.active => u.candidate = None
  BY <1>1, <1>2 DEF Reads, Stays, Course
<1>6. u.completed => u.active
  BY <1>1, <1>2 DEF Reads, Stays, Course
(* It is enough to know what became of the transaction.                      *)
<1>7. ASSUME Fades(u, state'), Course(state', progress')
      PROVE  AuthenticationInv' /\ ~Completes
  <2>1. /\ Shaped(state') /\ Held(state'.artifacts) /\ InMemory(state', mem)
        /\ state'.producer = state'.scene => state.producer = state.scene
        /\ state'.completed => state.completed
    BY <1>1, <1>2, <1>7, HookEvidence
  <2>2. ~Completes
    BY <2>1, NothingCompletes
  <2>3. InMemory(state, mem)' /\ Course(state, progress)'
    BY <2>1, <1>7 DEF InMemory, Current, Course
  <2>4. progress' \in [Tiers -> 0..2]
    BY <1>1, HookAdvances
  <2> QED
    BY <1>1, <2>1, <2>2, <2>3, <2>4 DEF AuthenticationInv, Shaped, Held
<1>8. ASSUME Enters(u, state', h), h.ok, Entered(h),
             event = "IGNORE" \/ event = "ENTRY"
      PROVE  AuthenticationInv' /\ ~Completes
  <2>1. ~Completes
    BY <1>8, NothingCompletes DEF Enters
  <2>2. progress'[h.tier] \in 1..2 /\ h.tier \in Tiers
    <3>1. h.hook = "ENTRY"
      BY <1>8 DEF Entered, Seen
    <3> QED
      BY <1>1, <1>8, <2>1, <3>1, HookAdvances DEF Enters, Hooks
  <2>3. Course(state', progress')
    BY <1>8, <2>2 DEF Enters, Course
  <2> QED
    BY <1>7, <1>8, <2>3 DEF Enters
<1>9. ASSUME Captures(u, state', h), h.ok, Captured(h),
             event = "IGNORE" \/ event = "CAPTURE"
      PROVE  AuthenticationInv' /\ ~Completes
  <2>1. /\ state.active /\ state.phase = "CAPTURE" /\ state.tier = h.tier
        /\ ~state.completed /\ ~state'.completed
    BY <1>1, <1>2, <1>9 DEF Captures, Reads, Stays, Course
  <2>2. ~Completes
    BY <2>1, NothingCompletes
  <2>3. progress[h.tier] \in 1..2 /\ h.tier \in Tiers
    BY <1>1, <2>1 DEF Course
  <2>4. progress'[h.tier] = 2
    <3>1. h.hook = "CAPTURE" /\ h.fit = "fit"
      BY <1>9 DEF Captured, Seen, Captures
    <3> QED
      BY <1>1, <1>9, <2>2, <2>3, <3>1, HookAdvances
  <2>5. state'.variant.phase # "CAPTURE"
    BY <1>4, <1>9 DEF Captures
  <2>6. Course(state', progress')
    BY <1>1, <1>2, <1>9, <2>1, <2>3, <2>4, <2>5 DEF Captures, Course, Reads, Stays
  <2> QED
    BY <1>7, <1>9, <2>6 DEF Captures
<1>10. ASSUME Returns(u, state', h), state'.variant.phase # "CAPTURE"
       PROVE  AuthenticationInv' /\ Completes /\ progress[state'.proof.tier] = 2
  <2>1. /\ state.active /\ state.phase = "RETURN" /\ state.tier = h.tier
        /\ ~state.completed /\ (h.tier = "cold" \/ state.dispatched)
        /\ state.candidate = None /\ h.tier \in Tiers /\ progress[h.tier] = 2
    BY <1>1, <1>2, <1>10 DEF Returns, Reads, Stays, Course, Tiers
  <2>2. state'.proof = [tier |-> h.tier, scene |-> state.scene, blocked |-> FALSE]
    BY <1>2, <1>10, <2>1 DEF Returns, Reads, Stays
  <2>3. state'.proof # None
    <3>1. h.tier \in Tiers /\ state.scene \in Nat
      BY <1>1, <2>1 DEF Shaped
    <3>2. [tier |-> h.tier, scene |-> state.scene, blocked |-> FALSE] \in Proofs
      BY <3>1 DEF Proofs
    <3> QED
      BY <2>2, <3>2, AuthenticationAssumption
  <2>4. Completes
    BY <1>10, <2>1, <2>2, <2>3 DEF Completes, Returns
  <2>5. Shaped(state') /\ Held(state'.artifacts) /\ InMemory(state', mem)
    BY <1>1, <1>2, <1>10, ReturnEvidence
  <2>6. Course(state', progress')
    BY <1>2, <1>10, <2>1 DEF Returns, Reads, Stays, Course
  <2>7. InMemory(state, mem)' /\ Course(state, progress)'
    BY <2>5, <2>6 DEF InMemory, Current, Course
  <2>8. progress' \in [Tiers -> 0..2]
    BY <1>1, HookAdvances
  <2>9. ~dirty'
    BY <2>4, Zenon
  <2>10. progress[state'.proof.tier] = 2
    BY <2>1, <2>2
  <2> QED
    BY <2>4, <2>5, <2>7, <2>8, <2>9, <2>10 DEF AuthenticationInv, Shaped, Held
<1>11. ASSUME Fades(u, state'), Halts(state')
       PROVE  AuthenticationInv' /\ ~Completes
  BY <1>7, <1>11, CourseHalts
(* Nothing moves: a transaction at its return is not entered again.          *)
<1>12. ASSUME Fades(u, state'), Stays(state, state'),
              state'.variant.phase = "CAPTURE" => state.variant.phase = "CAPTURE",
              state.active => ~(h.hook = "FOREIGN" /\ h.site # "outside"),
              state.active /\ state.phase = "RETURN" => ~Entered(h) \/ Stray(h)
       PROVE  AuthenticationInv' /\ ~Completes
  <2>1. ~Completes
    BY <1>12, NothingCompletes DEF Stays
  <2>2. CASE ~state.active
    BY <1>1, <1>11, <1>12, <2>2 DEF Stays, Course, Halts
  <2>3. CASE state.active
    <3>1. \A t \in Tiers : progress[t] \in 1..2 => progress'[t] \in 1..2
      BY <1>1, <1>12, <2>1, <2>3, HookAdvances
    <3>2. state.phase = "RETURN" =>
            \A t \in Tiers : progress[t] = 2 => progress'[t] = 2
      BY <1>1, <1>12, <2>1, <2>3, HookAdvances
    <3>3. Course(state', progress')
      BY <1>1, <1>12, <2>3, <3>1, <3>2 DEF Course, Stays
    <3> QED
      BY <1>7, <1>12, <3>3
  <2> QED
    BY <2>2, <2>3
<1>13. CASE event = "CONSUMED"
  <2>1. state' = state
    BY <1>3, <1>13
  <2>2. h.hook # "FOREIGN" /\ ~Seen(h, {"ENTRY"}, "ventry")
        /\ (state.variant.phase = "CAPTURE" \/ h.site = "outside")
    BY <1>4, <1>13
  <2>3. state.active /\ state.phase = "RETURN" => ~Entered(h)
    BY <1>1, <2>2 DEF Course, Entered, Seen
  <2>4. ~Completes
    BY <2>1 DEF Completes
  <2>5. CASE ~state.active
    BY <1>1, <1>11, <2>1, <2>4, <2>5, HookAdvances, CourseHalts
    DEF Course, Halts, AuthenticationInv, Shaped, Held, InMemory, Current
  <2>6. CASE state.active
    <3>1. \A t \in Tiers : progress[t] \in 1..2 => progress'[t] \in 1..2
      BY <1>1, <2>2, <2>4, HookAdvances
    <3>2. state.phase = "RETURN" =>
            \A t \in Tiers : progress[t] = 2 => progress'[t] = 2
      BY <1>1, <2>2, <2>3, <2>4, <2>6, HookAdvances
    <3>3. Course(state', progress')
      BY <1>1, <2>1, <2>6, <3>1, <3>2 DEF Course
    <3>4. progress' \in [Tiers -> 0..2]
      BY <1>1, HookAdvances
    <3>5. InMemory(state, mem)' /\ Course(state, progress)'
      BY <1>1, <2>1, <3>3 DEF InMemory, Current, Course
    <3> QED
      BY <1>1, <2>1, <2>4, <3>4, <3>5 DEF AuthenticationInv, Shaped, Held
  <2> QED
    BY <2>5, <2>6
<1>14. CASE event = "ACTIVATED"
  <2>1. state' = Activated(u)
    BY <1>3, <1>14
  <2>2. Recedes(u, state')
    BY <1>2, <1>6, <2>1, VariantOutcome
  <2>3. CASE Halts(state')
    BY <1>11, <2>2, <2>3 DEF Recedes
  <2>4. CASE Stays(u, state')
    <3>1. Stays(state, state')
      BY <1>2, <2>4 DEF Reads, Stays
    <3>2. h.site = "activate" /\ h.hook = "CAPTURE" /\ state'.variant.phase # "CAPTURE"
      BY <1>4, <1>14, <2>2 DEF Recedes, Fades, NoVariant
    <3> QED
      BY <1>12, <2>2, <3>1, <3>2 DEF Recedes, Entered, Seen
  <2> QED
    BY <2>2, <2>3, <2>4 DEF Recedes
<1>15. CASE event = "REJECT"
  BY <1>2, <1>3, <1>11, <1>15, AbortHalts
<1>16. CASE event = "ENTRY"
  <2>1. state' = VariantEntry(u, h)
    BY <1>3, <1>16
  <2>2. Entered(h) /\ h.ok
    BY <1>4, <1>16 DEF Entered
  <2> QED
    BY <1>2, <1>6, <1>8, <1>11, <1>16, <2>1, <2>2, VariantOutcome
<1>17. CASE event = "CAPTURE"
  <2>1. state' = VariantCapture(u, h)
    BY <1>3, <1>17
  <2>2. Captured(h) /\ h.ok
    BY <1>4, <1>17 DEF Captured
  <2> QED
    BY <1>2, <1>6, <1>9, <1>11, <1>17, <2>1, <2>2, VariantOutcome
<1>18. CASE event = "RETURN"
  <2>1. state' = VariantReturn(u, h)
    BY <1>3, <1>18
  <2>2. Returns(u, state', h) => state'.variant.phase # "CAPTURE"
    <3>1. state'.variant = NoVariant \/ ~state'.active
      BY <1>2, <1>6, <2>1, VariantOutcome
    <3> QED
      BY <3>1 DEF Returns, NoVariant
  <2> QED
    BY <1>2, <1>6, <1>10, <1>11, <2>1, <2>2, VariantOutcome
<1>19. CASE event = "IGNORE"
  <2>1. state' = CanonicalHook(u, h)
    BY <1>3, <1>19
  <2>2. state.variant.phase = "NONE" /\ u.variant = state.variant
    BY <1>4, <1>19
  <2>3. \/ Enters(u, state', h) /\ Seen(h, {"ENTRY"}, "entry")
        \/ Captures(u, state', h) /\ Seen(h, {"CAPTURE"}, "capture")
        \/ Returns(u, state', h) /\ state'.variant = u.variant
        \/ Fades(u, state') /\ Halts(state')
        \/ /\ state' = u
           /\ u.active => ~Seen(h, {"ENTRY"}, "entry")
           /\ u.active => ~(h.hook = "FOREIGN" /\ h.site # "outside")
    BY <1>2, <1>5, <2>1, CanonicalOutcome
  <2>4. Seen(h, {"ENTRY"}, "entry") \/ Seen(h, {"CAPTURE"}, "capture") => h.ok
    BY DEF Hooks, Canonical, OfVariant, Seen
  <2>5. CASE state' = u
    <3>1. Fades(u, state') /\ Stays(state, state')
      BY <1>2, <2>5, Unchanged DEF Recedes, Reads
    <3>2. h.site = "ventry" => Stray(h)
      BY <2>2 DEF Stray
    <3>3. \/ u.active => ~Seen(h, {"ENTRY"}, "entry")
             /\ ~(h.hook = "FOREIGN" /\ h.site # "outside")
          \/ Halts(state')
          \/ Enters(u, state', h) /\ Seen(h, {"ENTRY"}, "entry")
          \/ Captures(u, state', h) /\ Seen(h, {"CAPTURE"}, "capture")
          \/ Returns(u, state', h) /\ state'.variant = u.variant
      BY <2>3
    <3>4. CASE u.active => ~Seen(h, {"ENTRY"}, "entry")
                           /\ ~(h.hook = "FOREIGN" /\ h.site # "outside")
      <4>1. state.active => ~Entered(h) \/ Stray(h)
        BY <2>5, <3>1, <3>2, <3>4 DEF Entered, Seen, Stays
      <4>2. state'.variant.phase = "CAPTURE" => state.variant.phase = "CAPTURE"
        BY <2>2, <2>5
      <4> QED
        BY <1>12, <2>5, <3>1, <3>4, <4>1, <4>2 DEF Stays
    <3> QED
      BY <1>8, <1>9, <1>10, <1>11, <1>19, <2>2, <2>4, <3>1, <3>3, <3>4
      DEF Entered, Captured
  <2>6. CASE Returns(u, state', h) /\ state'.variant = u.variant
    BY <1>10, <2>2, <2>6
  <2> QED
    BY <1>8, <1>9, <1>11, <1>19, <2>3, <2>4, <2>5, <2>6 DEF Entered, Captured
<1> QED
  BY <1>4, <1>13, <1>14, <1>15, <1>16, <1>17, <1>18, <1>19

----------------------------------------------------------------------------
(***************************************************************************)
(* The other actions.                                                      *)
(***************************************************************************)
LEMMA PlainStep ==
  ASSUME Shaped(state'), Held(state'.artifacts), InMemory(state', mem'),
         state'.producer = state'.scene => ~dirty',
         progress' \in [Tiers -> 0..2], Course(state', progress'),
         state'.completed => state.completed
  PROVE  AuthenticationInv' /\ ~Completes
<1>1. ~Completes
  BY NothingCompletes
<1>2. InMemory(state, mem)' /\ Course(state, progress)'
  BY DEF InMemory, Current, Course
<1> QED
  BY <1>1, <1>2 DEF AuthenticationInv, Shaped, Held

LEMMA KindPlaces ==
  /\ Kinds \subseteq CodePlaces
  /\ \A c \in Artifacts : Code[c] \subseteq CodePlaces /\ Code[c] \subseteq Extent[c]
BY AuthenticationAssumption DEF CodePlaces

LEMMA CodeWriteStep ==
  ASSUME AuthenticationInv, CodeWrite
  PROVE  AuthenticationInv' /\ ~Completes
<1>1. PICK w \in Writes :
        /\ state' = NoteCodeWrite(state, w.range)
        /\ mem' = [p \in CodePlaces |-> IF p \in w.range THEN w.image ELSE mem[p]]
        /\ progress' = IF AuthenticationMutation(w.range) THEN Broken ELSE progress
        /\ dirty' = (state'.producer = state'.scene
                       /\ (dirty \/ AuthenticationMutation(w.range)))
  BY DEF CodeWrite
<1> DEFINE range == w.range
<1>2. Shaped(state) /\ Held(state.artifacts) /\ InMemory(state, mem)
      /\ progress \in [Tiers -> 0..2] /\ Course(state, progress)
  BY DEF AuthenticationInv
<1>3. /\ Recedes(state, state') /\ Spared(state', range)
      /\ AuthenticationMutation(range) => ~state'.active
  BY <1>1, <1>2, CodeWriteSpares
<1>4. /\ Shaped(state') /\ Held(state'.artifacts) /\ InMemory(state', mem)
      /\ state'.producer = state'.scene => state.producer = state.scene
  BY <1>2, <1>3, EvidenceFades DEF Recedes
<1>5. \A p \in CodePlaces : p \notin range => mem'[p] = mem[p]
  BY <1>1
<1>6. InMemory(state', mem')
  <2>1. state'.pending # None => mem'[state'.pending.kind] = Field
    <3>1. state'.pending # None => state'.pending.kind \in Kinds
      BY <1>4 DEF Shaped, Lifecycles
    <3> QED
      BY <1>3, <1>4, <1>5, <3>1, KindPlaces DEF InMemory, Spared
  <2>2. \A k \in Kinds : state'.authorities[k] = state'.scene => mem'[k] = Field
    BY <1>3, <1>4, <1>5, KindPlaces DEF InMemory, Spared
  <2>3. \A r \in state'.artifacts : Current(state', r) =>
          \A p \in r.code : mem'[p] = r.art
    BY <1>3, <1>4, <1>5 DEF InMemory, Spared, Held
  <2> QED
    BY <2>1, <2>2, <2>3 DEF InMemory
<1>7. state'.producer = state'.scene => ~dirty'
  <2>1. CASE AuthenticationMutation(range)
    BY <1>3, <1>4, <2>1 DEF Spared, Shaped
  <2>2. CASE ~AuthenticationMutation(range)
    <3>1. state'.producer = state'.scene => ~dirty
      BY <1>4 DEF AuthenticationInv
    <3>2. dirty' => dirty
      BY <1>1, <2>2, Zenon
    <3> QED
      BY <3>1, <3>2, Zenon
  <2> QED
    BY <2>1, <2>2
<1>8. Course(state', progress')
  <2>1. Course(state', progress)
    BY <1>2, <1>3, CourseStays
  <2>2. CASE AuthenticationMutation(range)
    BY <1>3, <2>1, <2>2, CourseHalts DEF Course, Halts
  <2>3. CASE ~AuthenticationMutation(range)
    BY <1>1, <2>1, <2>3
  <2> QED
    BY <2>2, <2>3
<1>9. progress' \in [Tiers -> 0..2]
  BY <1>1, <1>2 DEF Broken
<1> QED
  BY <1>3, <1>4, <1>6, <1>7, <1>8, <1>9, PlainStep DEF Recedes, Fades

(* Calls that only take evidence away.                                       *)
LEMMA RecedingSteps ==
  ASSUME AuthenticationInv,
         \/ LoaderMismatch \/ BadEntry \/ Disable
         \/ \E k \in Kinds : LocalBegin(k) \/ LocalReject(k)
  PROVE  AuthenticationInv' /\ ~Completes
<1>1. Shaped(state)
  BY DEF AuthenticationInv
<1>2. CASE LoaderMismatch
  <2>1. PICK p \in Places : /\ state' = NoteMismatch(state, p)
                            /\ progress' = IF p \in FieldPlaces THEN Broken ELSE progress
    BY <1>2 DEF LoaderMismatch
  <2> QED
    BY <1>1, <1>2, <2>1, MismatchRecedes, RecedingStep DEF LoaderMismatch
<1>3. CASE BadEntry
  BY <1>1, <1>3, AbortHalts, RecedingStep DEF BadEntry, Halts
<1>4. CASE Disable
  <2>1. Recedes(state, LocalClear(state)) /\ Shaped(LocalClear(state))
    BY <1>1, LocalRecedes, FadesShaped DEF Recedes
  <2>2. Recedes(state, state')
    BY <1>4, <2>1, VariantRecedes, RecedesTwice DEF Disable
  <2> QED
    BY <1>4, <2>2, RecedingStep DEF Disable, Quiet
<1>5. ASSUME NEW k \in Kinds, LocalBegin(k) \/ LocalReject(k)
      PROVE  AuthenticationInv' /\ ~Completes
  <2>1. state' = ClearPending(state) \/ state' = LocalClearKind(state, k)
    BY <1>5 DEF LocalBegin, LocalReject
  <2>2. Recedes(state, state')
    BY <1>1, <2>1, LocalRecedes
  <2> QED
    BY <1>5, <2>2, RecedingStep DEF LocalBegin, LocalReject, Quiet
<1> QED
  BY <1>2, <1>3, <1>4, <1>5

(* Evidence is added of code that was just compared with memory.             *)
LEMMA LocalSteps ==
  ASSUME AuthenticationInv, NEW k \in Kinds,
         LocalBegins(k) \/ LocalWriter(k) \/ LocalCommit(k)
  PROVE  AuthenticationInv' /\ ~Completes
<1>1. /\ Shaped(state) /\ Held(state.artifacts) /\ InMemory(state, mem)
      /\ state.producer = state.scene => ~dirty
      /\ progress \in [Tiers -> 0..2] /\ Course(state, progress)
  BY DEF AuthenticationInv
<1>2. ASSUME DOMAIN state' = Fields, state'.scene = state.scene,
             state'.variant = state.variant, state'.artifacts = state.artifacts,
             state'.producer = state.producer, Stays(state, state'),
             state'.pending \in {None} \cup Lifecycles,
             state'.pending # None => mem[state'.pending.kind] = Field,
             DOMAIN state'.authorities = Kinds,
             \A j \in Kinds : state'.authorities[j] = state.scene => mem[j] = Field,
             Quiet
      PROVE  AuthenticationInv' /\ ~Completes
  <2>1. Shaped(state') /\ Held(state'.artifacts)
    BY <1>1, <1>2 DEF Shaped
  <2>2. InMemory(state', mem')
    BY <1>1, <1>2 DEF InMemory, Current, Quiet
  <2>3. Course(state', progress')
    BY <1>1, <1>2 DEF Course, Stays, Quiet
  <2>4. state'.producer = state'.scene => ~dirty'
    <3>1. state'.producer = state'.scene => ~dirty
      BY <1>1, <1>2
    <3>2. dirty' = dirty
      BY <1>2 DEF Quiet
    <3> QED
      BY <3>1, <3>2, Zenon
  <2> QED
    BY <1>1, <1>2, <2>1, <2>2, <2>3, <2>4, PlainStep DEF Quiet, Stays
<1>3. CASE LocalBegins(k)
  <2>1. [kind |-> k, scene |-> state.scene, writers |-> 0] \in Lifecycles
    BY <1>1 DEF Shaped, Lifecycles
  <2>2. /\ state' = [state EXCEPT
                 !.pending = [kind |-> k, scene |-> state.scene, writers |-> 0]]
        /\ mem[k] = Field /\ Quiet
    BY <1>3 DEF LocalBegins
  <2>3. /\ DOMAIN state' = Fields /\ state'.scene = state.scene
        /\ state'.variant = state.variant /\ state'.artifacts = state.artifacts
        /\ state'.producer = state.producer /\ state'.authorities = state.authorities
        /\ state'.pending = [kind |-> k, scene |-> state.scene, writers |-> 0]
        /\ Stays(state, state')
    BY <1>1, <2>2 DEF Shaped, Fields, Stays
  <2> QED
    BY <1>1, <1>2, <2>1, <2>2, <2>3 DEF Shaped, InMemory
<1>4. CASE LocalWriter(k)
  <2>1. state.pending \in Lifecycles /\ state.pending # None /\ state.pending.kind = k
    BY <1>1, <1>4 DEF LocalWriter, MayWrite, PendingIs, Shaped
  <2> DEFINE p == [state.pending EXCEPT !.writers = @ + 1]
  <2>2. p \in Lifecycles /\ p.kind = state.pending.kind
    BY <2>1 DEF Lifecycles
  <2>3. state' = [state EXCEPT !.pending = p] /\ Quiet
    BY <1>4 DEF LocalWriter
  <2> HIDE DEF p
  <2>4. /\ DOMAIN state' = Fields /\ state'.scene = state.scene
        /\ state'.variant = state.variant /\ state'.artifacts = state.artifacts
        /\ state'.producer = state.producer /\ state'.authorities = state.authorities
        /\ state'.pending = p /\ Stays(state, state')
    BY <1>1, <2>3 DEF Shaped, Fields, Stays
  <2> QED
    BY <1>1, <1>2, <2>1, <2>2, <2>3, <2>4 DEF Shaped, InMemory
<1>5. CASE LocalCommit(k)
  <2>1. mem[k] = Field
    BY <1>1, <1>5 DEF LocalCommit, MayCommit, PendingIs, InMemory
  <2>2. state' = [ClearPending(state) EXCEPT !.authorities[k] = state.scene] /\ Quiet
    BY <1>5 DEF LocalCommit
  <2>3. /\ DOMAIN state' = Fields /\ state'.scene = state.scene
        /\ state'.variant = state.variant /\ state'.artifacts = state.artifacts
        /\ state'.producer = state.producer /\ state'.pending = None
        /\ state'.authorities = [state.authorities EXCEPT ![k] = state.scene]
        /\ Stays(state, state')
    BY <1>1, <2>2 DEF Shaped, Fields, Stays, ClearPending
  <2>4. /\ DOMAIN state'.authorities = Kinds
        /\ \A j \in Kinds : state'.authorities[j] = state.scene => mem[j] = Field
    BY <1>1, <2>1, <2>3 DEF Shaped, InMemory
  <2> QED
    BY <1>2, <2>2, <2>3, <2>4
<1> QED
  BY <1>3, <1>4, <1>5

(* t is s with the artifacts noted that memory m holds.                      *)
Notes(s, t, m) ==
  /\ Shaped(t) /\ Held(t.artifacts) /\ InMemory(t, m) /\ Stays(s, t)
  /\ t.scene = s.scene /\ t.variant = s.variant /\ t.producer \in {0, s.producer}

LEMMA ArtifactNoted ==
  ASSUME NEW s, NEW m, NEW c \in Artifacts, NEW at,
         Shaped(s), Held(s.artifacts), InMemory(s, m), \A p \in Code[c] : m[p] = c
  PROVE  Notes(s, NoteArtifact(s, c, at), m)
<1> DEFINE record == [art |-> c, range |-> Extent[c], code |-> Code[c],
                      static |-> FALSE, scene |-> s.scene]
           cleared == RemoveArtifacts(s, Overlapping(s, Extent[c]))
           t == NoteArtifact(s, c, at)
<1>1. ASSUME NEW gone
      PROVE  Notes(s, RemoveArtifacts(s, gone), m)
  <2> DEFINE r == RemoveArtifacts(s, gone)
  <2>1. Fades(s, r) /\ Stays(s, r)
    BY ArtifactsRecede DEF Recedes
  <2>2. r.variant = s.variant
    BY DEF RemoveArtifacts, Shaped, Fields
  <2> HIDE DEF r
  <2>3. Shaped(r) /\ Held(r.artifacts) /\ InMemory(r, m)
    BY <2>1, EvidenceFades
  <2>4. Notes(s, r, m)
    BY <2>1, <2>2, <2>3 DEF Notes, Fades
  <2> QED
    BY <2>4 DEF r
<1>2. Notes(s, s, m)
  BY DEF Notes, Stays
<1>3. Notes(s, cleared, m)
  BY <1>1
<1>4. Notes(s, [cleared EXCEPT !.artifacts = @ \cup {record}], m)
  <2> DEFINE n == [cleared EXCEPT !.artifacts = @ \cup {record}]
  <2>1. record.code \subseteq record.range /\ record.code \subseteq CodePlaces
        /\ \A p \in record.code : m[p] = record.art
    BY KindPlaces
  <2> HIDE DEF record, cleared
  <2>2. /\ DOMAIN n = Fields /\ n.scene = cleared.scene /\ n.variant = cleared.variant
        /\ n.pending = cleared.pending /\ n.authorities = cleared.authorities
        /\ n.producer = cleared.producer /\ n.active = cleared.active
        /\ n.completed = cleared.completed /\ n.phase = cleared.phase
        /\ n.tier = cleared.tier /\ n.dispatched = cleared.dispatched
        /\ n.candidate = cleared.candidate
        /\ n.artifacts = cleared.artifacts \cup {record}
    BY <1>3 DEF Notes, Shaped, Fields
  <2> HIDE DEF n
  <2>3. Shaped(n) /\ Stays(s, n)
    BY <1>3, <2>2 DEF Notes, Shaped, Stays
  <2>4. Held(n.artifacts) /\ InMemory(n, m)
    BY <1>3, <2>1, <2>2 DEF Notes, Held, InMemory, Current
  <2>5. Notes(s, n, m)
    BY <1>3, <2>2, <2>3, <2>4 DEF Notes
  <2> QED
    BY <2>5 DEF n
<1>5. t = IF c \notin Eligible THEN RemoveArtifacts(s, Overlapping(s, {at}))
          ELSE IF record \in s.artifacts THEN s
          ELSE IF Cardinality(cleared.artifacts) = ArtifactCapacity THEN cleared
          ELSE [cleared EXCEPT !.artifacts = @ \cup {record}]
  BY DEF NoteArtifact
<1> HIDE DEF t, record, cleared
<1>6. Notes(s, t, m)
  BY <1>1, <1>2, <1>3, <1>4, <1>5
<1> QED
  BY <1>6 DEF t

LEMMA NoteCandidateStep ==
  ASSUME AuthenticationInv, NoteCandidate
  PROVE  AuthenticationInv' /\ ~Completes
<1>0. PICK c \in Artifacts : \E at \in Code[c] :
        /\ \A p \in Code[c] : mem[p] = c
        /\ state' \in {NoteArtifact(state, c, at), NoteDispatch(state, c, at)}
  BY DEF NoteCandidate
<1>1. PICK at \in Code[c] :
        /\ \A p \in Code[c] : mem[p] = c
        /\ state' \in {NoteArtifact(state, c, at), NoteDispatch(state, c, at)}
  BY <1>0
<1>2. /\ Shaped(state) /\ Held(state.artifacts) /\ InMemory(state, mem)
      /\ state.producer = state.scene => ~dirty
      /\ progress \in [Tiers -> 0..2] /\ Course(state, progress)
  BY DEF AuthenticationInv
<1>3. mem' = mem /\ progress' = progress /\ dirty' = dirty
  BY DEF NoteCandidate, Quiet
<1> DEFINE s == NoteArtifact(state, c, at)
<1>4. Notes(state, s, mem)
  BY <1>1, <1>2, ArtifactNoted
<1> HIDE DEF s
<1>5. Course(s, progress)
  BY <1>2, <1>4 DEF Notes, Stays, Course
(* It is enough that what was noted stays, and that the course is kept.      *)
<1>6. ASSUME NEW t, Fades(s, t), Course(t, progress), DOMAIN state' = Fields,
             state'.scene = t.scene, state'.variant = t.variant,
             state'.pending = t.pending, state'.authorities = t.authorities,
             state'.artifacts = t.artifacts, state'.producer = t.producer,
             state'.completed = t.completed, Course(state', progress)
      PROVE  AuthenticationInv' /\ ~Completes
  <2>1. /\ Shaped(t) /\ Held(t.artifacts) /\ InMemory(t, mem)
        /\ t.producer = t.scene => s.producer = s.scene
    BY <1>4, <1>6, EvidenceFades DEF Notes
  <2>2. Shaped(state') /\ Held(state'.artifacts) /\ InMemory(state', mem')
    BY <1>3, <1>6, <2>1 DEF Shaped, InMemory, Current
  <2>3. state'.producer = state'.scene => state.producer = state.scene
    BY <1>2, <1>4, <1>6, <2>1 DEF Notes, Shaped
  <2>4. state'.producer = state'.scene => ~dirty
    BY <1>2, <2>3
  <2>5. state'.producer = state'.scene => ~dirty'
    BY <1>3, <2>4, Zenon
  <2>6. state'.completed => state.completed
    BY <1>4, <1>6 DEF Notes, Stays, Fades
  <2> QED
    BY <1>2, <1>3, <1>6, <2>2, <2>5, <2>6, PlainStep
<1>7. CASE state' = s
  <2>1. Fades(s, s)
    BY <1>4, Unchanged DEF Notes, Recedes
  <2> QED
    BY <1>5, <1>6, <1>7, <2>1 DEF Fades
<1>8. CASE state' = NoteDispatch(state, c, at)
  <2> DEFINE noted == [s EXCEPT !.candidate = None]
             retired == RetireProof(noted)
             enters == [retired EXCEPT !.candidate = [art |-> c, scene |-> state.scene,
                          entry |-> at = (IF c = Field THEN "variant" ELSE "canon")]]
  <2>1. Recedes(s, noted)
    BY <1>4 DEF Notes, Shaped, Fields, Recedes, Fades, Stays
  <2>2. \/ state' = noted \/ state' = retired
        \/ ~retired.active /\ state' = enters
    BY <1>8 DEF NoteDispatch, s
  <2> HIDE DEF noted
  <2>3. Shaped(noted)
    BY <1>4, <2>1, FadesShaped DEF Notes, Recedes
  <2>4. Recedes(s, retired)
    BY <2>1, <2>3, RetireRecedes, RecedesTwice
  <2> HIDE DEF retired
  <2>5. Course(noted, progress) /\ Course(retired, progress)
    BY <1>5, <2>1, <2>4, CourseStays
  <2>6. CASE state' = noted
    BY <1>6, <2>1, <2>5, <2>6 DEF Recedes, Fades
  <2>7. CASE state' = retired
    BY <1>6, <2>4, <2>5, <2>7 DEF Recedes, Fades
  <2>8. CASE ~retired.active /\ state' = enters
    <3>1. /\ DOMAIN state' = Fields /\ state'.scene = retired.scene
          /\ state'.variant = retired.variant /\ state'.pending = retired.pending
          /\ state'.authorities = retired.authorities
          /\ state'.artifacts = retired.artifacts /\ state'.producer = retired.producer
          /\ state'.completed = retired.completed /\ state'.active = retired.active
      BY <2>4, <2>8 DEF Recedes, Fades, Fields
    <3>2. Course(state', progress)
      BY <2>5, <2>8, <3>1, CourseHalts DEF Course, Halts
    <3> QED
      BY <1>6, <2>4, <2>5, <3>1, <3>2 DEF Recedes
  <2> QED
    BY <2>2, <2>6, <2>7, <2>8
<1> QED
  BY <1>1, <1>7, <1>8 DEF s

LEMMA StaticStep ==
  ASSUME AuthenticationInv, NEW k \in Kinds, StaticAuthority(k)
  PROVE  AuthenticationInv' /\ ~Completes
<1> DEFINE record == [art |-> Field, range |-> {k}, code |-> {k}, static |-> TRUE,
                      scene |-> state.scene]
<1>1. /\ Shaped(state) /\ Held(state.artifacts) /\ InMemory(state, mem)
      /\ state.producer = state.scene => ~dirty
      /\ progress \in [Tiers -> 0..2] /\ Course(state, progress)
  BY DEF AuthenticationInv
<1>2. /\ mem[k] = Field /\ state' = [state EXCEPT !.artifacts = @ \cup {record}]
      /\ mem' = mem /\ progress' = progress /\ dirty' = dirty
  BY DEF StaticAuthority, Quiet
<1>3. /\ record.code \subseteq record.range /\ record.code \subseteq CodePlaces
      /\ \A p \in record.code : mem[p] = record.art
  BY <1>2, KindPlaces
<1> HIDE DEF record
<1>4. /\ DOMAIN state' = Fields /\ state'.scene = state.scene
      /\ state'.variant = state.variant /\ state'.pending = state.pending
      /\ state'.authorities = state.authorities /\ state'.producer = state.producer
      /\ state'.artifacts = state.artifacts \cup {record} /\ Stays(state, state')
  BY <1>1, <1>2 DEF Shaped, Fields, Stays
<1>5. Shaped(state') /\ Held(state'.artifacts) /\ InMemory(state', mem')
  BY <1>1, <1>2, <1>3, <1>4 DEF Shaped, Held, InMemory, Current
<1>6. Course(state', progress') /\ (state'.completed => state.completed)
  BY <1>1, <1>2, <1>4 DEF Course, Stays
<1>7. state'.producer = state'.scene => ~dirty
  BY <1>1, <1>4
<1>8. state'.producer = state'.scene => ~dirty'
  BY <1>2, <1>7, Zenon
<1> QED
  BY <1>1, <1>2, <1>5, <1>6, <1>8, PlainStep

LEMMA BoundaryStep ==
  ASSUME AuthenticationInv, SceneBoundary
  PROVE  AuthenticationInv' /\ ~Completes
<1> DEFINE a == InvalidateAuthority(state)
           b == Idle(a)
           c == [b EXCEPT !.scene = @ + 1, !.candidate = None, !.sequence = None,
                          !.dispatched = FALSE]
           d == LocalClear(c)
<1>1. Shaped(state) /\ state.scene \in Nat \ {0} /\ state' = VariantReset(d)
  BY DEF AuthenticationInv, SceneBoundary, Shaped
<1>2. DOMAIN a = Fields /\ a.scene = state.scene /\ a.artifacts = {} /\ a.producer = 0
  BY <1>1 DEF Shaped, Fields, InvalidateAuthority
<1> HIDE DEF a
<1>3. /\ DOMAIN b = Fields /\ b.scene = state.scene /\ b.artifacts = {}
      /\ b.producer = 0 /\ ~b.active /\ ~b.completed
  BY <1>2 DEF Fields, Idle
<1> HIDE DEF b
<1>4. /\ DOMAIN c = Fields /\ c.scene = state.scene + 1 /\ c.artifacts = {}
      /\ c.producer = 0 /\ ~c.active /\ ~c.completed
  BY <1>3 DEF Fields
<1> HIDE DEF c
<1>5. /\ DOMAIN d = Fields /\ d.scene = state.scene + 1 /\ d.artifacts = {}
      /\ d.producer = 0 /\ ~d.active /\ ~d.completed /\ d.pending = None
      /\ d.authorities = [k \in Kinds |-> 0]
  BY <1>4 DEF Fields, LocalClear
<1> HIDE DEF d
<1>6. /\ DOMAIN state' = Fields /\ state'.scene = state.scene + 1
      /\ state'.artifacts = {} /\ state'.producer = 0 /\ ~state'.active
      /\ ~state'.completed /\ state'.pending = None
      /\ state'.authorities = [k \in Kinds |-> 0] /\ state'.variant = NoVariant
  BY <1>1, <1>5 DEF Fields, VariantReset
<1>7. Shaped(state')
  BY <1>1, <1>6 DEF Shaped, Variants, NoVariant
<1>8. Held(state'.artifacts) /\ InMemory(state', mem')
  BY <1>6, <1>7 DEF Held, InMemory, Shaped
<1>9. state'.producer # state'.scene
  BY <1>6, <1>7 DEF Shaped
<1>10. Course(state', progress')
  BY <1>6, CourseHalts DEF Halts
<1>11. progress' \in [Tiers -> 0..2]
  BY DEF SceneBoundary, Broken
<1> QED
  BY <1>6, <1>7, <1>8, <1>9, <1>10, <1>11, PlainStep

LEMMA ResetStep ==
  ASSUME AuthenticationInv, Reset
  PROVE  AuthenticationInv' /\ ~Completes
<1>1. state' = Started /\ progress' = Broken
  BY DEF Reset
<1>2. /\ Shaped(state') /\ state'.scene = 1 /\ state'.pending = None
      /\ state'.artifacts = {} /\ state'.producer = 0 /\ ~state'.active
      /\ ~state'.completed /\ \A k \in Kinds : state'.authorities[k] = 0
  BY <1>1 DEF Started, Shaped, Fields, Variants, NoVariant
<1>3. InMemory(state', mem') /\ Held(state'.artifacts) /\ state'.producer # state'.scene
  BY <1>2 DEF InMemory, Held
<1>4. Course(state', progress') /\ progress' \in [Tiers -> 0..2]
  BY <1>1, <1>2, CourseHalts DEF Halts, Broken
<1> QED
  BY <1>2, <1>3, <1>4, PlainStep

----------------------------------------------------------------------------
(***************************************************************************)
(* The theorems.                                                           *)
(***************************************************************************)
LEMMA NextAuthentication ==
  ASSUME AuthenticationInv, [Next]_vars
  PROVE  /\ AuthenticationInv'
         /\ vars' # vars => (Completes => progress[state'.proof.tier] = 2)
<1>1. CASE Next
  <2>1. CASE Hook
    BY <2>1, HookStep DEF Hook
  <2>2. CASE CodeWrite
    BY <2>2, CodeWriteStep
  <2>3. CASE LoaderMismatch \/ BadEntry \/ Disable
    BY <2>3, RecedingSteps
  <2>4. CASE NoteCandidate
    BY <2>4, NoteCandidateStep
  <2>5. CASE SceneBoundary \/ Reset
    BY <2>5, BoundaryStep, ResetStep
  <2>6. ASSUME NEW k \in Kinds,
               \/ LocalBegin(k) \/ LocalBegins(k) \/ LocalWriter(k) \/ LocalCommit(k)
               \/ LocalReject(k) \/ StaticAuthority(k)
        PROVE  AuthenticationInv' /\ ~Completes
    BY <2>6, RecedingSteps, LocalSteps, StaticStep
  <2> QED
    BY <1>1, <2>1, <2>2, <2>3, <2>4, <2>5, <2>6 DEF Next
<1>2. CASE vars' = vars
  BY <1>2 DEF vars, AuthenticationInv, Shaped, Held, InMemory, Current, Course
<1> QED
  BY <1>1, <1>2

(* Whatever hooks, candidates, writes, mismatches and scene changes come, in *)
(* any order: evidence is of code in memory, and the transaction of a scene  *)
(* is no further than what its tier has seen since the last break.           *)
THEOREM AuthenticationInvariant == Spec => []AuthenticationInv
BY InitAuthentication, NextAuthentication, PTL DEF Spec

(* Whoever is told that it may act for the guest's code acts for code that   *)
(* is still in memory: AuthorityIsIntact.                                    *)
THEOREM AuthorityHolds == Spec => []AuthorityIsIntact
<1>1. AuthenticationInv => AuthorityIsIntact
  BY DEF AuthenticationInv, AuthorityIsIntact, InMemory, LocalAuthorizes
<1> QED
  BY <1>1, AuthenticationInvariant, PTL

(* A proof is completed only for an execution that one tier saw whole and    *)
(* unbroken: ProofIsUnbroken.                                                *)
THEOREM ProofsAreUnbroken == Spec => ProofIsUnbroken
<1>1. AuthenticationInv /\ [Next]_vars =>
        [Completes => progress[state'.proof.tier] = 2]_vars
  BY NextAuthentication
<1> QED
  BY <1>1, AuthenticationInvariant, PTL DEF Spec, ProofIsUnbroken

----------------------------------------------------------------------------
(***************************************************************************)
(* Video memory: what the journal and the registry hold, typed.            *)
(***************************************************************************)
CopyOf(r) == [kind : ResourceKinds, rect : {r}, pix : [r -> Genuine]]
PubOf(r) ==
  [kind : ResourceKinds, rect : {r}, pix : [r -> Genuine], seq : Nat, live : BOOLEAN]
StagedOf(r) ==
  [kind : ResourceKinds, rect : {r}, pix : [r -> Genuine], seq : Nat, live : BOOLEAN,
   shared : BOOLEAN]
LoadOf(r) == [rect : {r}, pix : [r -> Genuine]]

Copies == UNION {CopyOf(r) : r \in Rects}
Publications == UNION {PubOf(r) : r \in Rects}
StagedOnes == UNION {StagedOf(r) : r \in Rects}
Loads == UNION {LoadOf(r) : r \in Rects}

(* No region twice, and no place of the order twice, all before n.           *)
Apart(P) == \A i, k \in DOMAIN P : i # k => ~SameRegion(P[i], P[k])
InSequence(P, n) ==
  /\ \A i \in DOMAIN P : P[i] # Absent => P[i].seq < n
  /\ \A i, k \in DOMAIN P :
       i # k /\ P[i] # Absent /\ P[k] # Absent => P[i].seq # P[k].seq

PubTable(P, n) ==
  /\ P \in [Slots -> Publications \cup {Absent}]
  /\ Apart(P) /\ InSequence(P, n)
CopyTable(C) == C \in [Slots -> Copies \cup {Absent}] /\ Apart(C)

(* The journal O, A, W of a memory m contradicts it nowhere.                 *)
Mirrors(W, O, A, m) ==
  /\ W \in [Cells -> Words \cup {Blank}] /\ m \in [Cells -> Words]
  /\ O \subseteq Cells /\ A \subseteq O
  /\ \A c \in O : W[c] = m[c]
  /\ \A c \in A : W[c] \in Genuine

Loaders ==
  [active : BOOLEAN, blocked : BOOLEAN, streaming : BOOLEAN,
   need : ResourceKinds \cup {Absent}, has : SUBSET ResourceKinds, start : Nat \ {0},
   strip : {<<>>} \cup {<<l>> : l \in Loads}]

(* What is published comes before what the loader under way stages.          *)
Floor == IF loader.active THEN loader.start ELSE next

LoaderInv ==
  /\ next \in Nat \ {0}
  /\ loader = NoLoader \/ (loader \in Loaders /\ loader.need \in ResourceKinds /\ loader.start <= next)
  /\ staged \in Seq(StagedOnes) /\ (staged # <<>> => loader.active)
  /\ \A i \in DOMAIN staged : Floor <= staged[i].seq
  /\ Apart(staged) /\ InSequence(staged, next)

RegistryInv ==
  PubTable(pubs, Floor) /\ CopyTable(cache) /\ LoaderInv /\ count \in Nat

SavedInv ==
  saved # Absent =>
    /\ saved = [kind |-> "checkpoint", vram |-> saved.vram, word |-> saved.word,
                observed |-> saved.observed, auth |-> saved.auth, next |-> saved.next,
                pubs |-> saved.pubs]
    /\ saved.next \in Nat \ {0} /\ PubTable(saved.pubs, saved.next)
    /\ Mirrors(saved.word, saved.observed, saved.auth, saved.vram)

(* Between a boot restore and its device event the journal is already that   *)
(* of the memory to come.                                                    *)
Memory == IF preapplied THEN saved.vram ELSE vram
Preapplied ==
  preapplied => /\ saved # Absent
                /\ observed = saved.observed /\ auth = saved.auth /\ pubs = saved.pubs

VramInv ==
  /\ preapplied \in BOOLEAN /\ vram \in [Cells -> Words] /\ owed \in Seq(Loads)
  /\ Mirrors(word, observed, auth, Memory)
  /\ RegistryInv /\ SavedInv /\ Preapplied

----------------------------------------------------------------------------
LEMMA SlotsFinite == IsFiniteSet(Slots) /\ Slots \subseteq Int
<1>1. Capacity \in Nat
  BY VramAssumption
<1>2. \A a, b \in Int : IsFiniteSet(a..b)
  BY FS_Interval
<1>3. IsFiniteSet(1..Capacity)
  BY <1>1, <1>2
<1>4. 1..Capacity \subseteq Int
  BY <1>1
<1> QED
  BY <1>3, <1>4 DEF Slots

(* Counting what comes before tells the members of a set apart.              *)
LEMMA BeforeGrows ==
  ASSUME NEW I \in SUBSET Int, IsFiniteSet(I), NEW i \in I, NEW k \in Int, i < k
  PROVE  Before(I, i) < Before(I, k) /\ Before(I, i) \in Nat /\ Before(I, k) \in Nat
<1> DEFINE A == {j \in I : j < i}
           B == {j \in I : j < k}
           C == A \cup {i}
<1>1. IsFiniteSet(A) /\ IsFiniteSet(B)
  BY FS_Subset
<1>2. i \notin A /\ C \subseteq B
  <2>1. \A j \in I : j \in Int
    OBVIOUS
  <2>2. ~(i < i) /\ \A j \in I : j < i => j < k
    BY <2>1
  <2> QED
    BY <2>2
<1> HIDE DEF A, B
<1>3. Cardinality(C) = Cardinality(A) + 1 /\ Cardinality(A) \in Nat
  BY <1>1, <1>2, FS_AddElement, FS_CardinalityType
<1>4. Cardinality(C) <= Cardinality(B) /\ Cardinality(B) \in Nat
  BY <1>1, <1>2, FS_Subset, FS_CardinalityType
<1> QED
  BY <1>3, <1>4 DEF A, B, Before

LEMMA BeforeApart ==
  ASSUME NEW I \in SUBSET Int, IsFiniteSet(I), NEW i \in I, NEW k \in I, i # k
  PROVE  Before(I, i) # Before(I, k)
<1>1. CASE i < k
  <2>1. Before(I, i) < Before(I, k) /\ Before(I, i) \in Nat /\ Before(I, k) \in Nat
    BY <1>1, BeforeGrows
  <2> QED
    BY <2>1
<1>2. CASE k < i
  <2>1. Before(I, k) < Before(I, i) /\ Before(I, i) \in Nat /\ Before(I, k) \in Nat
    BY <1>2, BeforeGrows
  <2> QED
    BY <2>1
<1> QED
  BY <1>1, <1>2

LEMMA BeforeAll ==
  ASSUME NEW I \in SUBSET Int, IsFiniteSet(I), NEW i \in I
  PROVE  Before(I, i) < Cardinality(I) /\ Before(I, i) \in Nat /\ Cardinality(I) \in Nat
<1> DEFINE A == {j \in I : j < i}
           C == A \cup {i}
<1>1. IsFiniteSet(A)
  BY FS_Subset
<1>2. i \notin A /\ C \subseteq I
  OBVIOUS
<1> HIDE DEF A
<1>3. Cardinality(C) = Cardinality(A) + 1 /\ Cardinality(A) \in Nat
  BY <1>1, <1>2, FS_AddElement, FS_CardinalityType
<1>4. Cardinality(C) <= Cardinality(I) /\ Cardinality(I) \in Nat
  BY <1>2, FS_Subset, FS_CardinalityType
<1> QED
  BY <1>3, <1>4 DEF A, Before

(* Where entries go.                                                         *)
LEMMA PlacedFacts ==
  ASSUME NEW P, NEW S
  PROVE  /\ DOMAIN Placed(P, S) = Slots
         /\ \A s \in Slots :
              \/ /\ Placed(P, S)[s] = P[s]
                 /\ \A i \in DOMAIN S : ~GoesTo(P, S, i, s)
              \/ \E i \in DOMAIN S : GoesTo(P, S, i, s) /\ Placed(P, S)[s] = S[i]
<1>1. ASSUME NEW s \in Slots
      PROVE  \/ /\ Placed(P, S)[s] = P[s]
                /\ \A i \in DOMAIN S : ~GoesTo(P, S, i, s)
             \/ \E i \in DOMAIN S : GoesTo(P, S, i, s) /\ Placed(P, S)[s] = S[i]
  <2> DEFINE G(i) == GoesTo(P, S, i, s)
  <2>1. Placed(P, S)[s] = IF \E i \in DOMAIN S : G(i)
                          THEN S[CHOOSE i \in DOMAIN S : G(i)] ELSE P[s]
    BY <1>1 DEF Placed
  <2> HIDE DEF G
  <2>2. CASE \E i \in DOMAIN S : G(i)
    <3>1. PICK j : j = CHOOSE i \in DOMAIN S : G(i)
      OBVIOUS
    <3>2. j \in DOMAIN S /\ G(j)
      BY <2>2, <3>1
    <3>3. Placed(P, S)[s] = S[j]
      BY <2>1, <2>2, <3>1
    <3> QED
      BY <3>2, <3>3 DEF G
  <2>3. CASE ~\E i \in DOMAIN S : G(i)
    BY <2>1, <2>3 DEF G
  <2> QED
    BY <2>2, <2>3
<1>2. DOMAIN Placed(P, S) = Slots
  BY DEF Placed
<1> QED
  BY <1>1, <1>2

LEMMA GoesOnce ==
  ASSUME NEW P, DOMAIN P = Slots, Apart(P), NEW S,
         NEW i \in DOMAIN S, NEW s \in Slots, NEW t \in Slots,
         GoesTo(P, S, i, s), GoesTo(P, S, i, t)
  PROVE  s = t
<1> DEFINE Free == Slots \ Occupied(P)
<1>1. IsFiniteSet(Free) /\ Free \in SUBSET Int
  BY SlotsFinite, FS_Subset
<1>2. CASE SameRegion(P[s], S[i]) /\ SameRegion(P[t], S[i])
  BY <1>2 DEF Apart, SameRegion
<1>3. CASE ~SameRegion(P[s], S[i]) /\ ~SameRegion(P[t], S[i])
  <2>1. s \in Free /\ t \in Free /\ Before(Free, s) = Before(Free, t)
    BY <1>3 DEF GoesTo, Occupied
  <2> HIDE DEF Free
  <2> QED
    BY <1>1, <2>1, BeforeApart
<1>4. ASSUME i \in Newcomers(P, S)
      PROVE  ~SameRegion(P[s], S[i]) /\ ~SameRegion(P[t], S[i])
  BY <1>4 DEF Newcomers
<1>5. SameRegion(P[s], S[i]) \/ i \in Newcomers(P, S)
  BY DEF GoesTo
<1>6. SameRegion(P[t], S[i]) \/ i \in Newcomers(P, S)
  BY DEF GoesTo
<1> QED
  BY <1>2, <1>3, <1>4, <1>5, <1>6

LEMMA PlacedApart ==
  ASSUME NEW P, DOMAIN P = Slots, Apart(P), NEW S, Apart(S)
  PROVE  Apart(Placed(P, S))
<1> DEFINE Q == Placed(P, S)
<1>1. /\ DOMAIN Q = Slots
      /\ \A s \in Slots : \/ Q[s] = P[s] /\ \A i \in DOMAIN S : ~GoesTo(P, S, i, s)
                          \/ \E i \in DOMAIN S : GoesTo(P, S, i, s) /\ Q[s] = S[i]
  BY PlacedFacts
<1>2. ASSUME NEW i \in DOMAIN S, NEW t \in Slots, ~GoesTo(P, S, i, t)
      PROVE  ~SameRegion(S[i], P[t]) /\ ~SameRegion(P[t], S[i])
  BY <1>2 DEF GoesTo, SameRegion
<1> HIDE DEF Q
<1>3. ASSUME NEW s \in Slots, NEW t \in Slots, s # t
      PROVE  ~SameRegion(Q[s], Q[t])
  <2>1. CASE Q[s] = P[s] /\ Q[t] = P[t]
    BY <1>3, <2>1 DEF Apart
  <2>2. ASSUME NEW i \in DOMAIN S, GoesTo(P, S, i, s), Q[s] = S[i],
               NEW k \in DOMAIN S, GoesTo(P, S, k, t), Q[t] = S[k]
        PROVE  ~SameRegion(Q[s], Q[t])
    BY <1>3, <2>2, GoesOnce DEF Apart
  <2> QED
    BY <1>1, <1>2, <2>1, <2>2
<1> QED
  BY <1>1, <1>3 DEF Apart, Q

(* Publishing entries that come later keeps the table, and its order.        *)
LEMMA PlacedTable ==
  ASSUME NEW P, NEW n \in Nat, NEW m \in Nat, n <= m, PubTable(P, n),
         NEW S, Apart(S), InSequence(S, m),
         \A i \in DOMAIN S : S[i] \in Publications /\ n <= S[i].seq
  PROVE  PubTable(Placed(P, S), m)
<1> DEFINE Q == Placed(P, S)
<1>1. /\ DOMAIN Q = Slots
      /\ \A s \in Slots : \/ Q[s] = P[s]
                          \/ \E i \in DOMAIN S : GoesTo(P, S, i, s) /\ Q[s] = S[i]
  BY PlacedFacts
<1>2. DOMAIN P = Slots /\ Apart(P) /\ InSequence(P, n)
      /\ \A s \in Slots : P[s] \in Publications \cup {Absent}
  BY DEF PubTable
<1>3. Apart(Q)
  BY <1>2, PlacedApart
<1>4. \A p \in Publications : p.seq \in Nat /\ p # Absent
  BY DEF Publications, PubOf, Absent
<1>5. Q \in [Slots -> Publications \cup {Absent}]
  <2>1. \A s \in Slots : Q[s] \in Publications \cup {Absent}
    BY <1>1, <1>2
  <2>2. Q = [s \in Slots |-> Q[s]]
    BY DEF Placed
  <2> QED
    BY <2>1, <2>2
<1> HIDE DEF Q
<1>6. ASSUME NEW s \in Slots, Q[s] # Absent
      PROVE  Q[s].seq < m
  <2>1. CASE Q[s] = P[s]
    BY <1>2, <1>4, <1>6, <2>1 DEF InSequence
  <2>2. CASE \E i \in DOMAIN S : Q[s] = S[i]
    BY <1>6, <2>2 DEF InSequence
  <2> QED
    BY <1>1, <2>1, <2>2
<1>7. ASSUME NEW s \in Slots, NEW t \in Slots, s # t, Q[s] # Absent, Q[t] # Absent
      PROVE  Q[s].seq # Q[t].seq
  <2>1. ASSUME NEW x \in Slots, P[x] # Absent, NEW i \in DOMAIN S
        PROVE  P[x].seq # S[i].seq
    <3>1. P[x].seq < n /\ P[x].seq \in Nat
      BY <1>2, <1>4, <2>1 DEF InSequence
    <3>2. n <= S[i].seq /\ S[i].seq \in Nat
      BY <1>4, <2>1
    <3> QED
      BY <3>1, <3>2
  <2>2. CASE Q[s] = P[s] /\ Q[t] = P[t]
    BY <1>2, <1>7, <2>2 DEF InSequence
  <2>3. ASSUME NEW i \in DOMAIN S, GoesTo(P, S, i, s), Q[s] = S[i],
               NEW k \in DOMAIN S, GoesTo(P, S, k, t), Q[t] = S[k]
        PROVE  Q[s].seq # Q[t].seq
    <3>1. i # k
      BY <1>2, <1>7, <2>3, GoesOnce
    <3>2. S[i] # Absent /\ S[k] # Absent
      BY <1>4
    <3> QED
      BY <2>3, <3>1, <3>2 DEF InSequence
  <2> QED
    BY <1>1, <1>7, <2>1, <2>2, <2>3
<1>8. InSequence(Q, m)
  BY <1>1, <1>6, <1>7 DEF InSequence
<1> QED
  BY <1>3, <1>5, <1>8 DEF PubTable, Q

LEMMA PlacedCopies ==
  ASSUME NEW C, CopyTable(C), NEW S, Apart(S), \A i \in DOMAIN S : S[i] \in Copies
  PROVE  CopyTable(Placed(C, S))
<1> DEFINE Q == Placed(C, S)
<1>1. \A s \in Slots : \/ Q[s] = C[s]
                       \/ \E i \in DOMAIN S : GoesTo(C, S, i, s) /\ Q[s] = S[i]
  BY PlacedFacts
<1>2. DOMAIN C = Slots /\ Apart(C) /\ \A s \in Slots : C[s] \in Copies \cup {Absent}
  BY DEF CopyTable
<1>3. Apart(Q)
  BY <1>2, PlacedApart
<1>4. \A s \in Slots : Q[s] \in Copies \cup {Absent}
  BY <1>1, <1>2
<1>5. Q = [s \in Slots |-> Q[s]]
  BY DEF Placed
<1> HIDE DEF Q
<1>6. Q \in [Slots -> Copies \cup {Absent}]
  BY <1>4, <1>5
<1> QED
  BY <1>3, <1>6 DEF CopyTable, Q

(* What staged or published entries become keeps region and bytes.           *)
LEMMA PublicTyped ==
  ASSUME NEW p \in StagedOnes
  PROVE  /\ Public(p) \in Publications /\ Cached(p) \in Copies
         /\ Public(p).seq = p.seq
         /\ Public(p).kind = p.kind /\ Public(p).rect = p.rect
         /\ Cached(p).kind = p.kind /\ Cached(p).rect = p.rect
BY DEF StagedOnes, StagedOf, Publications, PubOf, Copies, CopyOf, Public, Cached

LEMMA CachedTyped ==
  ASSUME NEW p \in Publications
  PROVE  /\ Cached(p) \in Copies
         /\ Cached(p).kind = p.kind /\ Cached(p).rect = p.rect /\ Cached(p).pix = p.pix
BY DEF Publications, PubOf, Copies, CopyOf, Cached

LEMMA TypesDiffer ==
  /\ \A p \in StagedOnes : p # Absent
  /\ \A p \in Publications : p # Absent
  /\ \A p \in Copies : p # Absent
BY DEF StagedOnes, StagedOf, Publications, PubOf, Copies, CopyOf, Absent

LEMMA ApartAs ==
  ASSUME NEW S, NEW T, DOMAIN T \subseteq DOMAIN S, Apart(S),
         \A i \in DOMAIN T : S[i] # Absent /\ T[i].kind = S[i].kind /\ T[i].rect = S[i].rect
  PROVE  Apart(T)
BY DEF Apart, SameRegion

(* The tail of a commit, for what may be staged.                             *)
Stageable(S, n, m) ==
  /\ \A i \in DOMAIN S : S[i] \in StagedOnes /\ n <= S[i].seq
  /\ Apart(S) /\ InSequence(S, m)

LEMMA PlaceAllTable ==
  ASSUME NEW P, NEW n \in Nat, NEW m \in Nat, n <= m, PubTable(P, n),
         NEW S, Stageable(S, n, m)
  PROVE  PubTable(PlaceAll(P, S), m)
<1> DEFINE T == [i \in DOMAIN S |-> Public(S[i])]
<1>1. /\ DOMAIN T = DOMAIN S
      /\ \A i \in DOMAIN T : /\ T[i] \in Publications /\ T[i].seq = S[i].seq
                             /\ T[i].kind = S[i].kind /\ T[i].rect = S[i].rect
                             /\ S[i] # Absent /\ n <= S[i].seq
  BY PublicTyped, TypesDiffer DEF Stageable
<1> HIDE DEF T
<1>2. Apart(T)
  BY <1>1, ApartAs DEF Stageable
<1>3. InSequence(T, m)
  BY <1>1 DEF InSequence, Stageable
<1>4. PubTable(Placed(P, T), m)
  BY <1>1, <1>2, <1>3, PlacedTable
<1> QED
  BY <1>4 DEF PlaceAll, T

LEMMA CacheAllTable ==
  ASSUME NEW C, CopyTable(C), NEW S, Apart(S),
         \A i \in DOMAIN S : S[i] \in StagedOnes \cup Publications
  PROVE  CopyTable(CacheAll(C, S))
<1> DEFINE T == [i \in DOMAIN S |-> Cached(S[i])]
<1>1. /\ DOMAIN T = DOMAIN S
      /\ \A i \in DOMAIN T : /\ T[i] \in Copies /\ S[i] # Absent
                             /\ T[i].kind = S[i].kind /\ T[i].rect = S[i].rect
  BY PublicTyped, CachedTyped, TypesDiffer
<1> HIDE DEF T
<1>2. Apart(T)
  BY <1>1, ApartAs
<1>3. CopyTable(Placed(C, T))
  BY <1>1, <1>2, PlacedCopies
<1> QED
  BY <1>3 DEF CacheAll, T

(* What a commit authenticates was observed and is genuine.                  *)
LEMMA AuthenticatedTrue ==
  ASSUME NEW m, Mirrors(word, observed, auth, m),
         NEW S, \A i \in DOMAIN S : S[i] \in StagedOnes
  PROVE  Mirrors(word, observed, Authenticated(S), m)
<1>1. ASSUME NEW c \in Authenticated(S), c \notin auth
      PROVE  c \in observed /\ word[c] \in Genuine
  <2>1. PICK i \in DOMAIN S : c \in S[i].rect /\ c \in observed /\ word[c] = S[i].pix[c]
    BY <1>1 DEF Authenticated
  <2>2. S[i].pix \in [S[i].rect -> Genuine]
    BY DEF StagedOnes, StagedOf
  <2> QED
    BY <2>1, <2>2
<1> QED
  BY <1>1 DEF Mirrors

(* An answer is a current publication that covers the request.               *)
LEMMA LookupFacts ==
  ASSUME NEW P, NEW n \in Nat, PubTable(P, n), NEW kind, NEW r,
         LookupIn(P, kind, r) # Absent
  PROVE  \E i \in Slots : /\ P[i] # Absent /\ LookupIn(P, kind, r) = P[i]
                          /\ P[i].kind = kind /\ r \subseteq P[i].rect
<1> DEFINE C == Covering(P, kind, r)
           Late(i) == \A k \in C : P[k].seq <= P[i].seq
           N == {n - P[i].seq : i \in C}
<1>1. C # {} /\ LookupIn(P, kind, r) = P[CHOOSE i \in C : Late(i)]
  BY DEF LookupIn
<1>2. \A i \in C : /\ i \in Slots /\ P[i] # Absent /\ P[i].kind = kind /\ r \subseteq P[i].rect
                   /\ P[i].seq \in Nat /\ P[i].seq < n
  <2>1. \A p \in Publications : p.seq \in Nat
    BY DEF Publications, PubOf
  <2> QED
    BY <2>1 DEF Covering, Occupied, PubTable, InSequence
<1> HIDE DEF C
<1>3. N # {} /\ N \subseteq Nat
  BY <1>1, <1>2
<1>4. PICK x \in N : \A y \in N : x <= y
  <2>1. IsWellFoundedOn(OpToRel(<, Nat), Nat)
    BY NatLessThanWellFounded
  <2> HIDE DEF N
  <2>2. \E x \in N : \A y \in N : ~(<<y, x>> \in OpToRel(<, Nat))
    BY <1>3, <2>1, WFMin
  <2>3. PICK x \in N : \A y \in N : ~(<<y, x>> \in OpToRel(<, Nat))
    BY <2>2
  <2>4. \A y \in N : ~(y < x)
    BY <1>3, <2>3 DEF OpToRel
  <2>5. \A y \in N : x <= y
    BY <1>3, <2>4
  <2> QED
    BY <2>5
<1>5. PICK i \in C : x = n - P[i].seq
  BY <1>4
<1>6. \A k \in C : n - P[i].seq <= n - P[k].seq
  BY <1>4, <1>5
<1>7. Late(i)
  BY <1>2, <1>5, <1>6
<1> HIDE DEF Late
<1>8. (CHOOSE k \in C : Late(k)) \in C
  BY <1>5, <1>7
<1> QED
  BY <1>1, <1>2, <1>8

----------------------------------------------------------------------------
(* What the device writes.                                                   *)
LEMMA JournalWriteMirrors ==
  ASSUME VramInv, ~preapplied, NEW r \in Rects, NEW pix \in [r -> Words], NEW genuine,
         genuine => pix \in [r -> Genuine],
         DeviceWrite(r, pix), JournalWrite(r, pix, genuine)
  PROVE  Mirrors(word', observed', auth', vram') /\ vram' \in [Cells -> Words]
<1>1. r \subseteq Cells /\ Genuine \subseteq Words
  BY VramAssumption
<1>2. Mirrors(word, observed, auth, vram)
  BY DEF VramInv, Memory
<1>3. vram' \in [Cells -> Words]
  BY <1>1, <1>2 DEF DeviceWrite, Mirrors
<1>4. word' \in [Cells -> Words \cup {Blank}]
  BY <1>1, <1>2 DEF JournalWrite, Mirrors
<1>5. observed' \subseteq Cells /\ auth' \subseteq observed'
  BY <1>1, <1>2 DEF JournalWrite, Mirrors
<1>6. \A c \in observed' : word'[c] = vram'[c]
  BY <1>1, <1>2 DEF JournalWrite, DeviceWrite, Mirrors
<1>7. \A c \in auth' : word'[c] \in Genuine
  BY <1>1, <1>2 DEF JournalWrite, Mirrors
<1> QED
  BY <1>3, <1>4, <1>5, <1>6, <1>7 DEF Mirrors

LEMMA JournalForgetMirrors ==
  ASSUME VramInv, ~preapplied, NEW r \in Rects, NEW pix \in [r -> Words],
         DeviceWrite(r, pix), JournalForget(r)
  PROVE  Mirrors(word', observed', auth', vram') /\ vram' \in [Cells -> Words]
<1>1. r \subseteq Cells
  BY VramAssumption
<1>2. Mirrors(word, observed, auth, vram)
  BY DEF VramInv, Memory
<1> QED
  BY <1>1, <1>2 DEF DeviceWrite, JournalForget, Mirrors

(* Retiring what a write touched leaves a table a table.                     *)
LEMMA SurvivorsTables ==
  ASSUME NEW r, NEW pix, NEW exact
  PROVE  /\ \A P, n : PubTable(P, n) => PubTable(Survivors(P, r, pix, exact), n)
         /\ \A C : CopyTable(C) => CopyTable(Survivors(C, r, pix, exact))
         /\ \A P : \A i \in Slots : Survivors(P, r, pix, exact)[i] \in {Absent, P[i]}
<1>1. ASSUME NEW P
      PROVE  /\ DOMAIN Survivors(P, r, pix, exact) = Slots
             /\ \A i \in Slots : Survivors(P, r, pix, exact)[i] \in {Absent, P[i]}
             /\ Survivors(P, r, pix, exact) = [i \in Slots |-> Survivors(P, r, pix, exact)[i]]
  BY DEF Survivors
<1>2. ASSUME NEW P, NEW Q, DOMAIN Q = Slots, DOMAIN P = Slots, Apart(P),
             \A i \in Slots : Q[i] \in {Absent, P[i]}
      PROVE  Apart(Q)
  BY <1>2 DEF Apart, SameRegion
<1>3. ASSUME NEW P, NEW n, PubTable(P, n)
      PROVE  PubTable(Survivors(P, r, pix, exact), n)
  <2> DEFINE Q == Survivors(P, r, pix, exact)
  <2>1. DOMAIN Q = Slots /\ (\A i \in Slots : Q[i] \in {Absent, P[i]}) /\ Q = [i \in Slots |-> Q[i]]
    BY <1>1
  <2>2. DOMAIN P = Slots /\ \A i \in Slots : P[i] \in Publications \cup {Absent}
    BY <1>3 DEF PubTable
  <2> HIDE DEF Q
  <2>3. Q \in [Slots -> Publications \cup {Absent}]
    BY <2>1, <2>2
  <2>4. Apart(Q)
    BY <1>2, <1>3, <2>1, <2>2 DEF PubTable
  <2>5. InSequence(Q, n)
    BY <1>3, <2>1, <2>2 DEF PubTable, InSequence
  <2> QED
    BY <2>3, <2>4, <2>5 DEF PubTable, Q
<1>4. ASSUME NEW P, CopyTable(P)
      PROVE  CopyTable(Survivors(P, r, pix, exact))
  <2> DEFINE Q == Survivors(P, r, pix, exact)
  <2>1. DOMAIN Q = Slots /\ (\A i \in Slots : Q[i] \in {Absent, P[i]}) /\ Q = [i \in Slots |-> Q[i]]
    BY <1>1
  <2>2. DOMAIN P = Slots /\ \A i \in Slots : P[i] \in Copies \cup {Absent}
    BY <1>4 DEF CopyTable
  <2> HIDE DEF Q
  <2>3. Q \in [Slots -> Copies \cup {Absent}]
    BY <2>1, <2>2
  <2>4. Apart(Q)
    BY <1>2, <1>4, <2>1, <2>2 DEF CopyTable
  <2> QED
    BY <2>3, <2>4 DEF CopyTable, Q
<1> QED
  BY <1>1, <1>3, <1>4

(* What is staged may die with what it shares, and is otherwise untouched.   *)
LEMMA BereftStaged ==
  ASSUME LoaderInv, NEW T, staged' = Bereft(T), UNCHANGED <<loader, next>>
  PROVE  LoaderInv'
<1>1. staged \in Seq(StagedOnes) /\ DOMAIN staged = 1..Len(staged) /\ Len(staged) \in Nat
  BY DEF LoaderInv
<1>2. DOMAIN staged' = DOMAIN staged
      /\ \A i \in DOMAIN staged :
           staged'[i] = [staged[i] EXCEPT !.live = @ /\ ~(/\ staged[i].shared
                            /\ \E k \in T : SameRegion(pubs[k], staged[i]))]
  BY DEF Bereft
<1>3. \A i \in DOMAIN staged : /\ staged'[i] \in StagedOnes /\ staged[i] # Absent
                               /\ staged'[i].seq = staged[i].seq
                               /\ staged'[i].kind = staged[i].kind
                               /\ staged'[i].rect = staged[i].rect
  <2>1. ASSUME NEW i \in DOMAIN staged
        PROVE  staged'[i] \in StagedOnes /\ staged'[i].seq = staged[i].seq
               /\ staged'[i].kind = staged[i].kind /\ staged'[i].rect = staged[i].rect
    <3> DEFINE b == staged[i].live /\ ~(/\ staged[i].shared
                                         /\ \E k \in T : SameRegion(pubs[k], staged[i]))
    <3>1. staged'[i] = [staged[i] EXCEPT !.live = b]
      BY <1>2
    <3>2. b \in BOOLEAN
      OBVIOUS
    <3>3. staged[i] \in StagedOnes
      BY <1>1
    <3> HIDE DEF b
    <3> QED
      BY <3>1, <3>2, <3>3 DEF StagedOnes, StagedOf
  <2> QED
    BY <1>1, <2>1, TypesDiffer
<1>4. staged' \in Seq(StagedOnes) /\ (staged' # <<>> => staged # <<>>)
  <2>1. staged' = [i \in 1..Len(staged) |-> staged'[i]]
    BY <1>1 DEF Bereft
  <2>2. staged' \in [1..Len(staged) -> StagedOnes]
    BY <1>1, <1>3, <2>1
  <2>3. staged' \in Seq(StagedOnes)
    BY <1>1, <2>2
  <2>4. staged = <<>> => DOMAIN staged' = {}
    BY <1>2
  <2> QED
    BY <2>3, <2>4
<1>5. Apart(staged')
  BY <1>2, <1>3, ApartAs DEF LoaderInv
<1>6. InSequence(staged', next)
  BY <1>2, <1>3, TypesDiffer DEF LoaderInv, InSequence
<1> QED
  BY <1>2, <1>3, <1>4, <1>5, <1>6 DEF LoaderInv, Floor

LEMMA NoteMutationKeeps ==
  ASSUME VramInv, NEW r, NEW pix, NEW exact, NoteMutation(r, pix, exact),
         UNCHANGED <<loader, next>>
  PROVE  RegistryInv'
<1>1. PubTable(pubs, Floor) /\ CopyTable(cache) /\ LoaderInv /\ count \in Nat
  BY DEF VramInv, RegistryInv
<1>2. PubTable(pubs', Floor) /\ CopyTable(cache')
  BY <1>1, SurvivorsTables DEF NoteMutation
<1>3. LoaderInv'
  BY <1>1, BereftStaged DEF NoteMutation
<1>4. count' \in Nat
  <2> DEFINE gone == {i \in Occupied(pubs) : Survivors(pubs, r, pix, exact)[i] = Absent}
  <2>1. gone \subseteq Slots
    BY DEF Occupied
  <2>2. count' = IF Cardinality(gone) < count THEN count - Cardinality(gone) ELSE 0
    BY DEF NoteMutation
  <2> HIDE DEF gone
  <2>3. Cardinality(gone) \in Nat
    BY <2>1, SlotsFinite, FS_Subset, FS_CardinalityType
  <2> QED
    BY <1>1, <2>2, <2>3
<1>5. Floor' = Floor
  BY DEF Floor
<1> QED
  BY <1>2, <1>3, <1>4, <1>5 DEF RegistryInv

(* A step of the device: only memory, journal and registry change.           *)
LEMMA WriteKeeps ==
  ASSUME VramInv, saved' = saved, UNCHANGED preapplied, ~preapplied, owed' \in Seq(Loads),
         Mirrors(word', observed', auth', vram'), vram' \in [Cells -> Words], RegistryInv'
  PROVE  VramInv'
BY DEF VramInv, Memory, Preapplied, SavedInv

LEMMA FloorTyped == ASSUME LoaderInv PROVE Floor \in Nat \ {0} /\ Floor <= next
BY DEF LoaderInv, Floor, Loaders, NoLoader

LEMMA MatchIsGenuine ==
  ASSUME VramInv, NEW r, NEW pix, MatchesPublication(r, pix)
  PROVE  pix \in [r -> Genuine]
<1>1. PubTable(pubs, Floor) /\ Floor \in Nat
  BY FloorTyped DEF VramInv, RegistryInv
<1>2. PICK kind \in ResourceKinds :
        LookupIn(pubs, kind, r) # Absent /\ LookupIn(pubs, kind, r).rect = r
        /\ LookupIn(pubs, kind, r).pix = pix
  BY DEF MatchesPublication, Lookup
<1>3. PICK i \in Slots : pubs[i] # Absent /\ pubs[i].rect = r /\ pubs[i].pix = pix
  BY <1>1, <1>2, LookupFacts
<1>4. pubs[i] \in Publications
  BY <1>1, <1>3 DEF PubTable
<1> QED
  BY <1>3, <1>4 DEF Publications, PubOf

LEMMA UploadEventKeeps ==
  ASSUME VramInv, ~preapplied, NEW r \in Rects, NEW pix \in [r -> Words], NEW mdec,
         mdec => pix \in [r -> Genuine], UploadEvent(r, pix, mdec),
         UNCHANGED <<loader, next, saved, preapplied>>, owed' \in Seq(Loads)
  PROVE  VramInv'
<1>1. mdec \/ MatchesPublication(r, pix) => pix \in [r -> Genuine]
  BY MatchIsGenuine
<1>2. Mirrors(word', observed', auth', vram') /\ vram' \in [Cells -> Words]
  BY <1>1, JournalWriteMirrors DEF UploadEvent
<1>3. RegistryInv'
  BY NoteMutationKeeps DEF UploadEvent
<1> QED
  BY <1>2, <1>3, WriteKeeps

LEMMA LandKeeps == ASSUME VramInv, ~preapplied, Land PROVE VramInv'
<1>1. Head(owed) \in Loads /\ Tail(owed) \in Seq(Loads)
  BY DEF Land, VramInv
<1>2. Head(owed).rect \in Rects /\ Head(owed).pix \in [Head(owed).rect -> Words]
  BY <1>1, VramAssumption DEF Loads, LoadOf
<1> QED
  BY <1>1, <1>2, UploadEventKeeps DEF Land

LEMMA GuestUploadKeeps ==
  ASSUME VramInv, ~preapplied, NEW r \in Rects, NEW pix \in Images(r, Words), NEW mdec \in BOOLEAN,
         GuestUpload(r, pix, mdec)
  PROVE  VramInv'
<1>1. pix \in [r -> Words]
  BY DEF Images
<1>2. mdec => pix \in [r -> Genuine]
  BY <1>1 DEF GuestUpload
<1> QED
  BY <1>1, <1>2, UploadEventKeeps DEF GuestUpload, VramInv

LEMMA ClearKeeps ==
  ASSUME VramInv, ~preapplied, NEW r \in Rects, NEW captured \in BOOLEAN, Clear(r, captured)
  PROVE  VramInv'
<1> DEFINE pix == [c \in r |-> ClearWord]
<1>1. pix \in [r -> Words] /\ pix \in [r -> Genuine]
  BY VramAssumption
<1>2. /\ DeviceWrite(r, pix) /\ JournalWrite(r, pix, captured)
      /\ NoteMutation(r, pix, FALSE) /\ UNCHANGED <<owed, loader, next, saved, preapplied>>
  BY DEF Clear
<1> HIDE DEF pix
<1>3. Mirrors(word', observed', auth', vram') /\ vram' \in [Cells -> Words]
  BY <1>1, <1>2, JournalWriteMirrors
<1>4. RegistryInv'
  BY <1>2, NoteMutationKeeps
<1> QED
  BY <1>2, <1>3, <1>4, WriteKeeps DEF VramInv

LEMMA RenderTargetKeeps ==
  ASSUME VramInv, ~preapplied, NEW r \in Rects, NEW pix \in Images(r, Words \ Genuine),
         RenderTargetWrite(r, pix)
  PROVE  VramInv'
<1>1. pix \in [r -> Words]
  BY DEF Images
<1>2. Mirrors(word', observed', auth', vram') /\ vram' \in [Cells -> Words]
  BY <1>1, JournalForgetMirrors DEF RenderTargetWrite
<1>3. RegistryInv'
  BY NoteMutationKeeps DEF RenderTargetWrite
<1> QED
  BY <1>2, <1>3, WriteKeeps DEF VramInv, RenderTargetWrite

LEMMA LowestIn == ASSUME NEW I \in SUBSET Nat, I # {} PROVE Lowest(I) \in I
<1>1. PICK x \in I : \A y \in I : ~(<<y, x>> \in OpToRel(<, Nat))
  BY NatLessThanWellFounded, WFMin
<1>2. \A y \in I : ~(y < x)
  BY <1>1 DEF OpToRel
<1>3. \A y \in I : x <= y
  BY <1>2
<1> QED
  BY <1>3 DEF Lowest

(* A move writes words of memory, and authenticated ones when it is genuine. *)
LEMMA MovedWords ==
  ASSUME VramInv, ~preapplied, NEW src \in Rects, NEW dst \in Rects, Movable(src, dst),
         NEW pix, pix = [c \in dst |-> vram[c - Shift(src, dst)]]
  PROVE  /\ pix \in [dst -> Words]
         /\ (/\ src \subseteq auth /\ \A c \in dst : word[c - Shift(src, dst)] = pix[c])
            => pix \in [dst -> Genuine]
<1>1. /\ src \subseteq Nat /\ src # {} /\ dst \subseteq Nat /\ dst # {} /\ src \subseteq Cells
      /\ Genuine \subseteq Words
  BY VramAssumption
<1>2. Lowest(src) \in Nat /\ Lowest(dst) \in Nat
  BY <1>1, LowestIn
<1>3. Shift(src, dst) \in Int
  BY <1>2 DEF Shift
<1>4. ASSUME NEW c \in dst PROVE c - Shift(src, dst) \in src
  <2>1. PICK k \in src : c = k + Shift(src, dst)
    BY DEF Movable
  <2>2. c - Shift(src, dst) = k
    BY <1>1, <1>3, <2>1
  <2> QED
    BY <2>2
<1>5. Mirrors(word, observed, auth, vram)
  BY DEF VramInv, Memory
<1>6. pix \in [dst -> Words]
  BY <1>1, <1>4, <1>5 DEF Mirrors
<1>7. ASSUME src \subseteq auth, \A c \in dst : word[c - Shift(src, dst)] = pix[c]
      PROVE  pix \in [dst -> Genuine]
  <2>1. \A c \in dst : pix[c] \in Genuine
    BY <1>4, <1>5, <1>7 DEF Mirrors
  <2>2. pix = [c \in dst |-> pix[c]]
    OBVIOUS
  <2> QED
    BY <2>1, <2>2
<1> QED
  BY <1>6, <1>7

LEMMA PatchedTyped ==
  ASSUME NEW p \in Publications, NEW r, NEW pix \in [r -> Genuine]
  PROVE  /\ Patched(p, r, pix) \in Publications
         /\ Patched(p, r, pix).kind = p.kind /\ Patched(p, r, pix).rect = p.rect
         /\ Patched(p, r, pix).seq = p.seq
<1>1. PICK q \in Rects : p \in PubOf(q)
  BY DEF Publications
<1> DEFINE f == [c \in p.rect |-> IF c \in r THEN pix[c] ELSE p.pix[c]]
<1>2. f \in [q -> Genuine]
  BY <1>1 DEF PubOf
<1>3. Patched(p, r, pix) = [p EXCEPT !.pix = f]
  BY DEF Patched
<1> HIDE DEF f
<1>4. Patched(p, r, pix) \in PubOf(q)
  BY <1>1, <1>2, <1>3 DEF PubOf
<1> QED
  BY <1>1, <1>3, <1>4 DEF Publications, PubOf

LEMMA PatchAllKeeps ==
  ASSUME VramInv, NEW r, NEW pix \in [r -> Genuine], PatchAll(r, pix),
         UNCHANGED <<loader, next>>
  PROVE  RegistryInv'
<1> DEFINE T == Touched(pubs, r)
           new == [i \in Slots |-> IF i \in T THEN Patched(pubs[i], r, pix) ELSE pubs[i]]
           S == [i \in T |-> new[i]]
<1>1. /\ pubs' = new /\ cache' = CacheAll(cache, S)
      /\ staged' = Bereft(T) /\ count' = count
  BY DEF PatchAll
<1>2. PubTable(pubs, Floor) /\ CopyTable(cache) /\ LoaderInv /\ count \in Nat
  BY DEF VramInv, RegistryInv
<1>3. \A i \in Slots : pubs[i] \in Publications \cup {Absent}
  BY <1>2 DEF PubTable
<1>4. T \subseteq Slots /\ \A i \in T : pubs[i] \in Publications
  BY <1>3 DEF Touched, Occupied
<1> HIDE DEF T
<1>5. \A i \in T : /\ new[i] \in Publications
                   /\ new[i].kind = pubs[i].kind /\ new[i].rect = pubs[i].rect
                   /\ new[i].seq = pubs[i].seq
  BY <1>4, PatchedTyped
<1>6. DOMAIN new = Slots /\ new = [i \in Slots |-> new[i]]
      /\ \A i \in Slots : i \notin T => new[i] = pubs[i]
  OBVIOUS
<1>7. DOMAIN S = T /\ \A i \in T : S[i] = new[i]
  BY <1>4
<1> HIDE DEF new, S
<1>8. \A i \in Slots : /\ new[i] \in Publications \cup {Absent}
                       /\ pubs[i] = Absent <=> new[i] = Absent
                       /\ pubs[i] # Absent => /\ new[i].kind = pubs[i].kind
                                              /\ new[i].rect = pubs[i].rect
                                              /\ new[i].seq = pubs[i].seq
  BY <1>3, <1>4, <1>5, <1>6, TypesDiffer
<1>9. new \in [Slots -> Publications \cup {Absent}]
  BY <1>6, <1>8
<1>10. Apart(new) /\ InSequence(new, Floor)
  <2>1. DOMAIN pubs = Slots /\ Apart(pubs) /\ InSequence(pubs, Floor)
    BY <1>2 DEF PubTable
  <2>2. Apart(new)
    BY <1>6, <1>8, <2>1 DEF Apart, SameRegion
  <2>3. InSequence(new, Floor)
    BY <1>6, <1>8, <2>1 DEF InSequence
  <2> QED
    BY <2>2, <2>3
<1>11. CopyTable(cache')
  <2>1. Apart(S)
    BY <1>4, <1>6, <1>7, <1>10 DEF Apart
  <2> QED
    BY <1>1, <1>2, <1>5, <1>7, <2>1, CacheAllTable
<1>12. LoaderInv'
  BY <1>1, <1>2, BereftStaged
<1>13. Floor' = Floor
  BY DEF Floor
<1>14. PubTable(pubs', Floor')
  BY <1>1, <1>9, <1>10, <1>13 DEF PubTable
<1> QED
  BY <1>1, <1>2, <1>11, <1>12, <1>14 DEF RegistryInv

LEMMA MoveKeeps ==
  ASSUME VramInv, ~preapplied, NEW src \in Rects, NEW dst \in Rects,
         NEW captured \in BOOLEAN, NEW surface \in BOOLEAN, NEW ok \in BOOLEAN,
         Move(src, dst, captured, surface, ok)
  PROVE  VramInv'
<1> DEFINE pix == [c \in dst |-> vram[c - Shift(src, dst)]]
           known == src \subseteq auth /\ \A c \in dst : word[c - Shift(src, dst)] = pix[c]
           genuine == captured /\ (known \/ (surface /\ ~(src \subseteq auth)))
<1>1. /\ Movable(src, dst)
      /\ surface => \A c \in dst : pix[c] \in Genuine
      /\ DeviceWrite(dst, pix) /\ JournalWrite(dst, pix, genuine)
      /\ IF ok /\ genuine /\ Patchable(dst) THEN PatchAll(dst, pix)
         ELSE NoteMutation(dst, pix, FALSE)
      /\ UNCHANGED <<owed, loader, next, saved, preapplied>>
  BY DEF Move
<1>3. pix = [c \in dst |-> pix[c]] /\ pix = [c \in dst |-> vram[c - Shift(src, dst)]]
  OBVIOUS
<1> HIDE DEF pix
<1>2. pix \in [dst -> Words] /\ (known => pix \in [dst -> Genuine])
  BY <1>1, <1>3, MovedWords
<1> HIDE DEF known
<1>4. genuine => pix \in [dst -> Genuine]
  BY <1>1, <1>2, <1>3
<1> HIDE DEF genuine
<1>5. Mirrors(word', observed', auth', vram') /\ vram' \in [Cells -> Words]
  BY <1>1, <1>2, <1>4, JournalWriteMirrors
<1>6. RegistryInv'
  BY <1>1, <1>4, PatchAllKeeps, NoteMutationKeeps
<1> QED
  BY <1>1, <1>5, <1>6, WriteKeeps DEF VramInv

----------------------------------------------------------------------------
(* The loader routes.                                                        *)
(* Steps under which memory and journal stay and no checkpoint waits.        *)
LEMMA LoaderKeeps ==
  ASSUME VramInv, saved = Absent, UNCHANGED <<vram, word, observed, saved, preapplied>>,
         owed' \in Seq(Loads), Mirrors(word, observed, auth', Memory), RegistryInv'
  PROVE  VramInv'
<1>1. ~preapplied
  BY DEF VramInv, Preapplied
<1> QED
  BY <1>1 DEF VramInv, Memory, Preapplied, SavedInv, Absent

LEMMA BlockedTyped == ASSUME LoaderInv, loader.active
  PROVE /\ Blocked \in Loaders /\ Blocked.need \in ResourceKinds /\ Blocked.active
        /\ Blocked.start = loader.start /\ loader # NoLoader /\ Blocked.start <= next
<1>1. loader # NoLoader
  BY DEF NoLoader
<1> QED
  BY <1>1 DEF Blocked, LoaderInv, Loaders

LEMMA BlockedKeeps ==
  ASSUME RegistryInv, loader.active, loader' = Blocked,
         UNCHANGED <<pubs, cache, staged, next, count>>
  PROVE  RegistryInv'
<1>1. LoaderInv
  BY DEF RegistryInv
<1>2. /\ loader' \in Loaders /\ loader'.need \in ResourceKinds /\ loader'.active
      /\ loader'.start = loader.start /\ loader'.start <= next
  BY <1>1, BlockedTyped
<1>3. Floor' = Floor
  BY <1>2 DEF Floor
<1> QED
  BY <1>1, <1>2, <1>3 DEF RegistryInv, LoaderInv

(* Nothing staged, nothing under way: the floor is the next number.          *)
LEMMA EmptyStaged ==
  \A m : <<>> \in Seq(StagedOnes) /\ Apart(<<>>) /\ InSequence(<<>>, m)
BY DEF Apart, InSequence

LEMMA DropKeeps ==
  ASSUME RegistryInv, DropLoader, UNCHANGED <<pubs, cache, count>>
  PROVE  RegistryInv'
<1>1. LoaderInv
  BY DEF RegistryInv
<1>2. ~NoLoader.active
  BY DEF NoLoader
<1>3. next' = Floor /\ Floor' = next' /\ Floor \in Nat \ {0}
  BY <1>1, <1>2, FloorTyped DEF DropLoader, Floor
<1>4. LoaderInv'
  BY <1>3, EmptyStaged DEF DropLoader, LoaderInv
<1> QED
  BY <1>3, <1>4 DEF RegistryInv, DropLoader

LEMMA BeginKeeps ==
  ASSUME VramInv, saved = Absent, NEW kind \in ResourceKinds, NEW streaming \in BOOLEAN,
         Begin(kind, streaming)
  PROVE  VramInv'
<1>1. RegistryInv /\ LoaderInv
  BY DEF VramInv, RegistryInv
<1>2. RegistryInv'
  <2>1. CASE loader.active
    BY <1>1, <2>1, BlockedKeeps DEF Begin
  <2>2. CASE ~loader.active
    <3>1. loader' = [NoLoader EXCEPT !.active = TRUE, !.streaming = streaming,
                                 !.need = kind, !.start = next]
      BY <2>2 DEF Begin
    <3>2. /\ loader' \in Loaders /\ loader'.need \in ResourceKinds /\ loader'.active
          /\ loader'.start = next
      BY <1>1, <3>1 DEF NoLoader, Loaders, LoaderInv
    <3>3. Floor = next /\ Floor' = next
      BY <2>2, <3>2 DEF Floor
    <3>4. LoaderInv'
      BY <1>1, <2>2, <3>2, <3>3, EmptyStaged DEF Begin, LoaderInv
    <3> QED
      BY <1>1, <3>3, <3>4 DEF RegistryInv, Begin
  <2> QED
    BY <2>1, <2>2
<1>3. Mirrors(word, observed, auth', Memory) /\ owed' \in Seq(Loads)
      /\ UNCHANGED <<vram, word, observed, saved, preapplied>>
  BY DEF VramInv, Begin, journal
<1> QED
  BY <1>2, <1>3, LoaderKeeps

LEMMA NewPubTyped ==
  ASSUME next \in Nat \ {0}, NEW kind \in ResourceKinds, NEW r \in Rects,
         NEW pix \in [r -> Genuine], NEW same \in BOOLEAN
  PROVE  /\ NewPub(kind, r, pix, same) \in StagedOnes
         /\ NewPub(kind, r, pix, same).seq = next
         /\ NewPub(kind, r, pix, same).kind = kind /\ NewPub(kind, r, pix, same).rect = r
<1> DEFINE b == same /\ Holding(kind, r, pix) # {}
<1>1. NewPub(kind, r, pix, same) = [kind |-> kind, rect |-> r, pix |-> pix, seq |-> next,
                                    live |-> TRUE, shared |-> b]
  BY DEF NewPub
<1>2. b \in BOOLEAN
  OBVIOUS
<1> HIDE DEF b
<1>3. NewPub(kind, r, pix, same) \in StagedOf(r)
  BY <1>1, <1>2 DEF StagedOf
<1> QED
  BY <1>1, <1>3 DEF StagedOnes

(* What stage_upload makes of the staged table.                              *)
StagedInv(T, n, m) ==
  /\ T \in Seq(StagedOnes) /\ \A i \in DOMAIN T : n <= T[i].seq
  /\ Apart(T) /\ InSequence(T, m)

LEMMA StageOver ==
  ASSUME NEW T, NEW n \in Nat, NEW m \in Nat, n <= m, StagedInv(T, n, m),
         NEW s \in DOMAIN T, NEW e \in StagedOnes,
         e.kind = T[s].kind, e.rect = T[s].rect, e.seq = m
  PROVE  StagedInv([T EXCEPT ![s] = e], n, m + 1)
<1> DEFINE U == [T EXCEPT ![s] = e]
<1>1. /\ DOMAIN U = DOMAIN T /\ U[s] = e
      /\ \A i \in DOMAIN T : i # s => U[i] = T[i]
  OBVIOUS
<1>2. U \in Seq(StagedOnes)
  BY DEF StagedInv
<1>3. \A i \in DOMAIN T : T[i] \in StagedOnes
  BY DEF StagedInv
<1>4. \A p \in StagedOnes : p.seq \in Nat
  BY DEF StagedOnes, StagedOf
<1> HIDE DEF U
<1>5. \A i \in DOMAIN T : U[i] # Absent /\ U[i].kind = T[i].kind /\ U[i].rect = T[i].rect
                          /\ T[i] # Absent
  BY <1>1, <1>3, TypesDiffer
<1>6. Apart(U)
  BY <1>1, <1>5, ApartAs DEF StagedInv
<1>7. \A i \in DOMAIN T : T[i].seq < m /\ T[i].seq \in Nat /\ n <= T[i].seq
  BY <1>3, <1>4, TypesDiffer DEF StagedInv, InSequence
<1>8. \A i \in DOMAIN T : U[i].seq < m + 1 /\ n <= U[i].seq
  BY <1>1, <1>7
<1>9. \A i, k \in DOMAIN T : i # k => U[i].seq # U[k].seq
  <2>1. \A i, k \in DOMAIN T : i # k => T[i].seq # T[k].seq
    BY <1>5 DEF StagedInv, InSequence
  <2>2. \A i \in DOMAIN T : T[i].seq # m
    BY <1>7
  <2> QED
    BY <1>1, <2>1, <2>2
<1> QED
  BY <1>1, <1>2, <1>6, <1>8, <1>9 DEF StagedInv, InSequence, U

LEMMA StageNew ==
  ASSUME NEW T, NEW n \in Nat, NEW m \in Nat, n <= m, StagedInv(T, n, m),
         NEW e \in StagedOnes, e.seq = m,
         \A i \in DOMAIN T : ~SameRegion(T[i], e)
  PROVE  StagedInv(Append(T, e), n, m + 1)
<1> DEFINE U == Append(T, e)
           l == Len(T) + 1
<1>1. T \in Seq(StagedOnes) /\ Len(T) \in Nat /\ DOMAIN T = 1..Len(T)
  BY DEF StagedInv
<1>2. /\ U \in Seq(StagedOnes) /\ DOMAIN U = 1..l /\ U[l] = e /\ l \notin DOMAIN T
      /\ \A i \in DOMAIN T : U[i] = T[i]
      /\ \A i \in DOMAIN U : i \in DOMAIN T \/ i = l
  BY <1>1
<1>3. \A p \in StagedOnes : p.seq \in Nat
  BY DEF StagedOnes, StagedOf
<1> HIDE DEF U, l
<1>4. \A i \in DOMAIN T : T[i] \in StagedOnes
  BY <1>1
<1>5. Apart(U)
  BY <1>2 DEF StagedInv, Apart, SameRegion
<1>6. \A i \in DOMAIN T : T[i].seq < m /\ T[i].seq \in Nat /\ n <= T[i].seq
  BY <1>3, <1>4, TypesDiffer DEF StagedInv, InSequence
<1>7. \A i \in DOMAIN U : U[i].seq < m + 1 /\ n <= U[i].seq
  BY <1>2, <1>6
<1>8. \A i, k \in DOMAIN U : i # k => U[i].seq # U[k].seq
  <2>1. \A i, k \in DOMAIN T : i # k => T[i].seq # T[k].seq
    BY <1>4, TypesDiffer DEF StagedInv, InSequence
  <2>2. \A i \in DOMAIN T : T[i].seq # m
    BY <1>6
  <2> QED
    BY <1>2, <2>1, <2>2
<1> QED
  BY <1>2, <1>5, <1>7, <1>8 DEF StagedInv, InSequence, U

LEMMA StagedWithKeeps ==
  ASSUME LoaderInv, NEW kind \in ResourceKinds, NEW r \in Rects,
         NEW pix \in [r -> Genuine], NEW same \in BOOLEAN, StageAdmitted(kind, r)
  PROVE  StagedInv(StagedWith(kind, r, pix, same), Floor, next + 1)
<1> DEFINE s == StagedSlot(kind, r)
           held == {i \in DOMAIN staged : staged[i].kind = kind /\ staged[i].rect = r}
           e == NewPub(kind, r, pix, same)
           f == [staged[s] EXCEPT !.seq = next]
<1>1. Floor \in Nat /\ Floor <= next /\ next \in Nat /\ next \in Nat \ {0}
  BY FloorTyped DEF LoaderInv
<1>2. StagedInv(staged, Floor, next)
  BY DEF StagedInv, LoaderInv
<1>3. e \in StagedOnes /\ e.seq = next /\ e.kind = kind /\ e.rect = r
  BY <1>1, NewPubTyped
<1>4. staged \in Seq(StagedOnes) /\ DOMAIN staged = 1..Len(staged) /\ Len(staged) \in Nat
  BY DEF LoaderInv
<1>5. s # 0 /\ s = IF held # {} THEN Lowest(held)
                   ELSE IF Len(staged) < Capacity THEN Len(staged) + 1 ELSE 0
  BY DEF StageAdmitted, StagedSlot
<1>6. StagedWith(kind, r, pix, same) =
        IF s > Len(staged) THEN Append(staged, e)
        ELSE IF staged[s].pix = pix /\ staged[s].live THEN [staged EXCEPT ![s].seq = next]
        ELSE [staged EXCEPT ![s] = e]
  BY DEF StagedWith
<1>7. [staged EXCEPT ![s].seq = next] = [staged EXCEPT ![s] = f]
  OBVIOUS
<1> HIDE DEF s, e
<1>8. CASE held # {}
  <2>1. held \in SUBSET Nat
    BY <1>4
  <2>2. s \in held
    BY <1>5, <1>8, <2>1, LowestIn
  <2>3. s \in DOMAIN staged /\ staged[s].kind = kind /\ staged[s].rect = r /\ ~(s > Len(staged))
        /\ staged[s] \in StagedOnes
    BY <1>4, <2>2
  <2>4. f \in StagedOnes /\ f.kind = staged[s].kind /\ f.rect = staged[s].rect /\ f.seq = next
    BY <1>1, <2>3 DEF StagedOnes, StagedOf
  <2> HIDE DEF f, held
  <2>5. StagedInv([staged EXCEPT ![s] = f], Floor, next + 1)
    BY <1>1, <1>2, <2>3, <2>4, StageOver
  <2>6. StagedInv([staged EXCEPT ![s] = e], Floor, next + 1)
    BY <1>1, <1>2, <1>3, <2>3, StageOver
  <2> QED
    BY <1>6, <1>7, <2>3, <2>5, <2>6
<1>9. CASE held = {}
  <2>1. s > Len(staged)
    BY <1>4, <1>5, <1>9
  <2>2. \A i \in DOMAIN staged : ~SameRegion(staged[i], e)
    BY <1>3, <1>9 DEF SameRegion
  <2> HIDE DEF held
  <2>3. StagedInv(Append(staged, e), Floor, next + 1)
    BY <1>1, <1>2, <1>3, <2>2, StageNew
  <2> QED
    BY <1>6, <2>1, <2>3
<1> QED
  BY <1>8, <1>9

LEMMA OweTyped ==
  ASSUME VramInv, NEW r \in Rects, NEW pix \in [r -> Genuine], Owe(r, pix)
  PROVE  owed' \in Seq(Loads)
<1>1. [rect |-> r, pix |-> pix] \in Loads
  BY DEF Loads, LoadOf
<1> QED
  BY <1>1 DEF Owe, VramInv

LEMMA UploadKeeps ==
  ASSUME VramInv, saved = Absent, NEW r \in Rects, NEW pix \in Images(r, Genuine),
         NEW kind \in ResourceKinds, NEW same \in BOOLEAN, NEW ok \in BOOLEAN,
         Upload(kind, r, pix, same, ok)
  PROVE  VramInv'
<1>1. RegistryInv /\ LoaderInv /\ loader.active
  BY DEF VramInv, RegistryInv, Upload
<1>2. pix \in [r -> Genuine]
  BY DEF Images
<1>3. RegistryInv'
  <2>1. CASE ok /\ ~loader.streaming /\ StageAdmitted(kind, r)
    <3>1. /\ staged' = StagedWith(kind, r, pix, same)
          /\ loader' = [loader EXCEPT !.has = @ \cup {kind}] /\ next' = next + 1
          /\ UNCHANGED <<pubs, cache, count>>
      BY <2>1 DEF Upload
    <3>2. StagedInv(staged', Floor, next')
      BY <1>1, <1>2, <2>1, <3>1, StagedWithKeeps
    <3>3. loader # NoLoader
      BY <1>1 DEF NoLoader
    <3>4. /\ loader' \in Loaders /\ loader'.need \in ResourceKinds /\ loader'.active
          /\ loader'.start = loader.start /\ loader'.start <= next'
      BY <1>1, <3>1, <3>3 DEF LoaderInv, Loaders
    <3>5. Floor' = Floor
      BY <1>1, <3>4 DEF Floor
    <3>6. next' \in Nat \ {0}
      BY <1>1, <3>1 DEF LoaderInv
    <3>7. LoaderInv'
      BY <3>2, <3>4, <3>5, <3>6 DEF LoaderInv, StagedInv
    <3> QED
      BY <1>1, <3>1, <3>5, <3>7 DEF RegistryInv
  <2>2. CASE ~(ok /\ ~loader.streaming /\ StageAdmitted(kind, r))
    BY <1>1, <2>2, BlockedKeeps DEF Upload
  <2> QED
    BY <2>1, <2>2
<1>4. Mirrors(word, observed, auth', Memory) /\ owed' \in Seq(Loads)
      /\ UNCHANGED <<vram, word, observed, saved, preapplied>>
  BY <1>2, OweTyped DEF VramInv, Upload, journal
<1> QED
  BY <1>3, <1>4, LoaderKeeps

LEMMA JoinedTyped ==
  ASSUME LoaderInv, loader.active, NEW r \in Rects, NEW pix \in [r -> Genuine], Follows(r)
  PROVE  Joined(r, pix) \in Loads
<1>1. loader \in Loaders
  BY DEF LoaderInv, NoLoader
<1>2. CASE loader.strip = <<>>
  BY <1>2 DEF Joined, Loads, LoadOf
<1>3. CASE loader.strip # <<>>
  <2>1. PICK l \in Loads : loader.strip = <<l>>
    BY <1>1, <1>3 DEF Loaders
  <2>2. l.pix \in [l.rect -> Genuine] /\ l.rect \in Rects
    BY DEF Loads, LoadOf
  <2>3. loader.strip[1] = l
    BY <2>1
  <2>4. r \cup l.rect \in Rects
    BY <1>3, <2>3 DEF Follows
  <2> DEFINE q == r \cup l.rect
             f == [c \in q |-> IF c \in r THEN pix[c] ELSE l.pix[c]]
  <2>5. f \in [q -> Genuine]
    BY <2>2
  <2>6. Joined(r, pix) = [rect |-> q, pix |-> f]
    BY <1>3, <2>3 DEF Joined
  <2> HIDE DEF q, f
  <2>7. q \in Rects
    BY <2>4 DEF q
  <2> QED
    BY <2>5, <2>6, <2>7 DEF Loads, LoadOf
<1> QED
  BY <1>2, <1>3

LEMMA StreamUploadKeeps ==
  ASSUME VramInv, saved = Absent, NEW r \in Rects, NEW pix \in Images(r, Genuine),
         StreamUpload(r, pix)
  PROVE  VramInv'
<1>1. RegistryInv /\ LoaderInv /\ loader.active
  BY DEF VramInv, RegistryInv, StreamUpload
<1>2. pix \in [r -> Genuine]
  BY DEF Images
<1>3. UNCHANGED <<pubs, cache, staged, next, count>>
  BY DEF StreamUpload
<1>4. RegistryInv'
  <2>1. CASE loader.streaming /\ ~loader.blocked /\ Follows(r)
    <3>1. loader' = [loader EXCEPT !.strip = <<Joined(r, pix)>>]
      BY <2>1 DEF StreamUpload
    <3>2. Joined(r, pix) \in Loads /\ loader # NoLoader
      BY <1>1, <1>2, <2>1, JoinedTyped DEF NoLoader
    <3>3. /\ loader' \in Loaders /\ loader'.need \in ResourceKinds /\ loader'.active
          /\ loader'.start = loader.start /\ loader'.start <= next
      BY <1>1, <3>1, <3>2 DEF LoaderInv, Loaders
    <3>4. Floor' = Floor
      BY <1>1, <3>3 DEF Floor
    <3> QED
      BY <1>1, <1>3, <3>3, <3>4 DEF LoaderInv, RegistryInv
  <2>2. CASE ~(loader.streaming /\ ~loader.blocked /\ Follows(r))
    BY <1>1, <1>3, <2>2, BlockedKeeps DEF StreamUpload
  <2> QED
    BY <2>1, <2>2
<1>5. Mirrors(word, observed, auth', Memory) /\ owed' \in Seq(Loads)
      /\ UNCHANGED <<vram, word, observed, saved, preapplied>>
  BY <1>2, OweTyped DEF VramInv, StreamUpload, journal
<1> QED
  BY <1>4, <1>5, LoaderKeeps

(* A commit publishes everything staged, or drops the loader.                *)
LEMMA PublishedKeeps ==
  ASSUME VramInv, NEW S, NEW ok \in BOOLEAN, NEW m \in Nat, next <= m,
         Stageable(S, Floor, m), IsFiniteSet(DOMAIN S), Published(S, ok),
         (ok /\ Committable(S)) => next' = m
  PROVE  RegistryInv' /\ Mirrors(word, observed, auth', Memory)
<1>1. RegistryInv /\ LoaderInv /\ Mirrors(word, observed, auth, Memory)
  BY DEF VramInv, RegistryInv
<1>2. Floor \in Nat \ {0} /\ Floor <= next /\ next \in Nat \ {0}
  BY <1>1, FloorTyped DEF LoaderInv
<1>3. CASE ok /\ Committable(S)
  <2>1. /\ pubs' = PlaceAll(pubs, S) /\ cache' = CacheAll(cache, S)
        /\ auth' = Authenticated(S) /\ count' = count + Counted(S)
        /\ staged' = <<>> /\ loader' = NoLoader /\ next' = m
    BY <1>3 DEF Published
  <2>2. PubTable(pubs', m)
    BY <1>1, <1>2, <2>1, PlaceAllTable DEF RegistryInv
  <2>3. CopyTable(cache')
    BY <1>1, <2>1, CacheAllTable DEF RegistryInv, Stageable
  <2>4. Mirrors(word, observed, auth', Memory)
    BY <1>1, <2>1, AuthenticatedTrue DEF Stageable
  <2>5. count' \in Nat
    <3>1. Counted(S) \in Nat
      BY FS_Subset, FS_CardinalityType DEF Counted
    <3> QED
      BY <1>1, <2>1, <3>1 DEF RegistryInv
  <2>6. Floor' = m /\ m \in Nat \ {0}
    BY <1>2, <2>1 DEF Floor, NoLoader
  <2>7. LoaderInv'
    BY <2>1, <2>6, EmptyStaged DEF LoaderInv
  <2> QED
    BY <2>2, <2>3, <2>4, <2>5, <2>6, <2>7 DEF RegistryInv
<1>4. CASE ~(ok /\ Committable(S))
  BY <1>1, <1>4, DropKeeps DEF Published
<1> QED
  BY <1>3, <1>4

LEMMA CommitKeeps ==
  ASSUME VramInv, saved = Absent, NEW ok \in BOOLEAN, Commit(ok)
  PROVE  VramInv'
<1>1. RegistryInv /\ LoaderInv /\ Mirrors(word, observed, auth, Memory) /\ loader.active
  BY DEF VramInv, RegistryInv, Commit
<1>2. RegistryInv' /\ Mirrors(word, observed, auth', Memory)
  <2>1. CASE loader.streaming
    BY <1>1, <2>1, BlockedKeeps DEF Commit
  <2>2. CASE ~loader.streaming /\ (loader.blocked \/ loader.need \notin loader.has)
    BY <1>1, <2>2, DropKeeps DEF Commit
  <2>3. CASE ~loader.streaming /\ ~(loader.blocked \/ loader.need \notin loader.has)
    <3>1. Published(staged, ok) /\ ((ok /\ Committable(staged)) => next' = next)
      BY <2>3 DEF Commit
    <3>2. Stageable(staged, Floor, next) /\ next \in Nat
      BY <1>1 DEF LoaderInv, Stageable
    <3>3. IsFiniteSet(DOMAIN staged)
      <4>1. DOMAIN staged = 1..Len(staged) /\ Len(staged) \in Int
        BY <1>1 DEF LoaderInv
      <4> QED
        BY <4>1, FS_Interval
    <3>4. next <= next
      BY <3>2
    <3> QED
      BY <3>1, <3>2, <3>3, <3>4, PublishedKeeps
  <2> QED
    BY <2>1, <2>2, <2>3
<1>3. owed' \in Seq(Loads) /\ UNCHANGED <<vram, word, observed, saved, preapplied>>
  BY DEF VramInv, Commit
<1> QED
  BY <1>2, <1>3, LoaderKeeps

LEMMA DropLoaderKeeps ==
  ASSUME VramInv, saved = Absent, DropLoader,
         UNCHANGED <<vram, owed, journal, pubs, cache, count, saved, preapplied>>
  PROVE  VramInv'
<1>1. RegistryInv'
  BY DropKeeps DEF VramInv
<1>2. Mirrors(word, observed, auth', Memory) /\ owed' \in Seq(Loads)
      /\ UNCHANGED <<vram, word, observed, saved, preapplied>>
  BY DEF VramInv, journal
<1> QED
  BY <1>1, <1>2, LoaderKeeps

LEMMA StreamFinishKeeps ==
  ASSUME VramInv, saved = Absent, NEW same \in BOOLEAN, NEW ok \in BOOLEAN,
         StreamFinish(same, ok)
  PROVE  VramInv'
<1>1. RegistryInv /\ LoaderInv /\ Mirrors(word, observed, auth, Memory) /\ loader.active
  BY DEF VramInv, RegistryInv, StreamFinish
<1>2. RegistryInv' /\ Mirrors(word, observed, auth', Memory)
  <2>1. CASE loader.streaming /\ ~loader.blocked /\ loader.strip # <<>>
    <3> DEFINE s == loader.strip[1]
               e == NewPub(loader.need, s.rect, s.pix, same)
               S == <<e>>
    <3>1. Published(S, ok) /\ ((ok /\ Committable(S)) => next' = next + 1)
      BY <2>1 DEF StreamFinish
    <3>2. loader \in Loaders /\ loader.need \in ResourceKinds /\ next \in Nat \ {0}
      BY <1>1 DEF LoaderInv, NoLoader
    <3>3. s \in Loads
      BY <2>1, <3>2 DEF Loaders
    <3>4. s.rect \in Rects /\ s.pix \in [s.rect -> Genuine]
      BY <3>3 DEF Loads, LoadOf
    <3>5. e \in StagedOnes /\ e.seq = next
      BY <3>2, <3>4, NewPubTyped
    <3>6. DOMAIN S = {1} /\ S[1] = e
      OBVIOUS
    <3> HIDE DEF e, S
    <3>7. Floor \in Nat /\ Floor <= next
      BY <1>1, FloorTyped
    <3>8. Stageable(S, Floor, next + 1)
      BY <3>2, <3>5, <3>6, <3>7 DEF Stageable, Apart, InSequence
    <3>9. IsFiniteSet(DOMAIN S)
      BY <3>6, FS_Singleton
    <3>10. next + 1 \in Nat /\ next <= next + 1
      BY <3>2
    <3> QED
      BY <3>1, <3>8, <3>9, <3>10, PublishedKeeps
  <2>2. CASE ~(loader.streaming /\ ~loader.blocked /\ loader.strip # <<>>)
    BY <1>1, <2>2, DropKeeps DEF StreamFinish
  <2> QED
    BY <2>1, <2>2
<1>3. owed' \in Seq(Loads) /\ UNCHANGED <<vram, word, observed, saved, preapplied>>
  BY DEF VramInv, StreamFinish
<1> QED
  BY <1>2, <1>3, LoaderKeeps

LEMMA LoaderStepKeeps == ASSUME VramInv, saved = Absent, LoaderStep PROVE VramInv'
<1>1. ASSUME NEW kind \in ResourceKinds, NEW streaming \in BOOLEAN, Begin(kind, streaming)
      PROVE  VramInv'
  BY <1>1, BeginKeeps
<1>2. ASSUME NEW r \in Rects, NEW pix \in Images(r, Genuine), NEW kind \in ResourceKinds,
             NEW same \in BOOLEAN, NEW ok \in BOOLEAN, Upload(kind, r, pix, same, ok)
      PROVE  VramInv'
  BY <1>2, UploadKeeps
<1>3. ASSUME NEW r \in Rects, NEW pix \in Images(r, Genuine), StreamUpload(r, pix)
      PROVE  VramInv'
  BY <1>3, StreamUploadKeeps
<1>4. ASSUME NEW ok \in BOOLEAN, Commit(ok) PROVE VramInv'
  BY <1>4, CommitKeeps
<1>5. CASE CommitOptional
  BY <1>5, DropLoaderKeeps DEF CommitOptional
<1>6. ASSUME NEW same \in BOOLEAN, NEW ok \in BOOLEAN, StreamFinish(same, ok) PROVE VramInv'
  BY <1>6, StreamFinishKeeps
<1>7. CASE Abort
  BY <1>7, DropLoaderKeeps DEF Abort
<1> QED
  BY <1>1, <1>2, <1>3, <1>4, <1>5, <1>6, <1>7 DEF LoaderStep

LEMMA DeviceStepKeeps == ASSUME VramInv, ~preapplied, DeviceStep PROVE VramInv'
<1>1. CASE Land
  BY <1>1, LandKeeps
<1>2. ASSUME NEW r \in Rects, NEW pix \in Images(r, Words), NEW mdec \in BOOLEAN,
             GuestUpload(r, pix, mdec)
      PROVE  VramInv'
  BY <1>2, GuestUploadKeeps
<1>3. ASSUME NEW r \in Rects, NEW captured \in BOOLEAN, Clear(r, captured) PROVE VramInv'
  BY <1>3, ClearKeeps
<1>4. ASSUME NEW r \in Rects, NEW pix \in Images(r, Words \ Genuine), RenderTargetWrite(r, pix)
      PROVE  VramInv'
  BY <1>4, RenderTargetKeeps
<1> QED
  BY <1>1, <1>2, <1>3, <1>4 DEF DeviceStep

----------------------------------------------------------------------------
(* The lifecycle.                                                            *)
LEMMA EmptyTables ==
  /\ \A n : PubTable(NoEntries, n)
  /\ CopyTable(NoEntries) /\ DOMAIN NoEntries = Slots
<1>1. DOMAIN NoEntries = Slots /\ \A i \in Slots : NoEntries[i] = Absent
  BY DEF NoEntries
<1>2. \A X : NoEntries \in [Slots -> X \cup {Absent}]
  BY DEF NoEntries
<1>3. Apart(NoEntries) /\ \A n : InSequence(NoEntries, n)
  BY <1>1 DEF Apart, SameRegion, InSequence
<1> QED
  BY <1>1, <1>2, <1>3 DEF PubTable, CopyTable

LEMMA IdleLoader ==
  ASSUME staged' = <<>>, loader' = NoLoader, next' \in Nat \ {0}
  PROVE  LoaderInv' /\ Floor' = next'
<1>1. Floor' = next'
  BY DEF Floor, NoLoader
<1> QED
  BY <1>1, EmptyStaged DEF LoaderInv

LEMMA ClearedKeeps ==
  ASSUME Cleared, NEW m \in [Cells -> Words]
  PROVE  RegistryInv' /\ Mirrors(word', observed', auth', m)
<1>1. LoaderInv' /\ Floor' = 1
  BY IdleLoader DEF Cleared
<1>2. RegistryInv'
  BY <1>1, EmptyTables DEF RegistryInv, Cleared
<1>3. Mirrors(word', observed', auth', m)
  BY DEF Cleared, Mirrors
<1> QED
  BY <1>2, <1>3

LEMMA TimelineResetKeeps == ASSUME VramInv, ~preapplied, TimelineReset PROVE VramInv'
<1>1. RegistryInv' /\ Mirrors(word', observed', auth', vram')
  BY ClearedKeeps DEF TimelineReset, VramInv
<1> QED
  BY <1>1, WriteKeeps DEF TimelineReset, VramInv

(* A retired entry keeps its region, its bytes and its place.                *)
LEMMA RetiredTyped ==
  /\ \A p \in Publications : /\ [p EXCEPT !.live = FALSE] \in Publications
                              /\ [p EXCEPT !.live = FALSE].kind = p.kind
                              /\ [p EXCEPT !.live = FALSE].rect = p.rect
                              /\ [p EXCEPT !.live = FALSE].seq = p.seq
  /\ \A p \in StagedOnes : /\ [p EXCEPT !.live = FALSE] \in StagedOnes
                            /\ [p EXCEPT !.live = FALSE].kind = p.kind
                            /\ [p EXCEPT !.live = FALSE].rect = p.rect
                            /\ [p EXCEPT !.live = FALSE].seq = p.seq
<1>1. ASSUME NEW r \in Rects, NEW p \in PubOf(r)
      PROVE  /\ [p EXCEPT !.live = FALSE] \in PubOf(r)
             /\ [p EXCEPT !.live = FALSE].kind = p.kind
             /\ [p EXCEPT !.live = FALSE].rect = p.rect
             /\ [p EXCEPT !.live = FALSE].seq = p.seq
  BY DEF PubOf
<1>2. ASSUME NEW r \in Rects, NEW p \in StagedOf(r)
      PROVE  /\ [p EXCEPT !.live = FALSE] \in StagedOf(r)
             /\ [p EXCEPT !.live = FALSE].kind = p.kind
             /\ [p EXCEPT !.live = FALSE].rect = p.rect
             /\ [p EXCEPT !.live = FALSE].seq = p.seq
  BY DEF StagedOf
<1> QED
  BY <1>1, <1>2 DEF Publications, StagedOnes

LEMMA SceneChangeKeeps == ASSUME VramInv, saved = Absent, SceneChange PROVE VramInv'
<1>1. PubTable(pubs, Floor) /\ CopyTable(cache) /\ LoaderInv /\ count \in Nat
  BY DEF VramInv, RegistryInv
<1>2. \A i \in Slots : /\ pubs'[i] = IF pubs[i] = Absent THEN Absent
                                     ELSE [pubs[i] EXCEPT !.live = FALSE]
                       /\ pubs[i] \in Publications \cup {Absent}
  BY <1>1 DEF SceneChange, PubTable
<1>4. \A i \in Slots : /\ pubs'[i] \in Publications \cup {Absent}
                       /\ pubs[i] = Absent <=> pubs'[i] = Absent
                       /\ pubs[i] # Absent => /\ pubs'[i].kind = pubs[i].kind
                                              /\ pubs'[i].rect = pubs[i].rect
                                              /\ pubs'[i].seq = pubs[i].seq
  BY <1>2, RetiredTyped, TypesDiffer
<1>5. DOMAIN pubs' = Slots /\ pubs' = [i \in Slots |-> pubs'[i]] /\ DOMAIN pubs = Slots
  BY <1>1 DEF SceneChange, PubTable
<1>6. PubTable(pubs', Floor)
  <2>1. pubs' \in [Slots -> Publications \cup {Absent}]
    BY <1>4, <1>5
  <2>2. Apart(pubs')
    BY <1>1, <1>4, <1>5 DEF PubTable, Apart, SameRegion
  <2>3. InSequence(pubs', Floor)
    BY <1>1, <1>4, <1>5 DEF PubTable, InSequence
  <2> QED
    BY <2>1, <2>2, <2>3 DEF PubTable
<1>7. Floor' = Floor
  BY DEF Floor, SceneChange
<1>8. LoaderInv'
  <2>1. staged \in Seq(StagedOnes) /\ DOMAIN staged = 1..Len(staged) /\ Len(staged) \in Nat
    BY <1>1 DEF LoaderInv
  <2>3. DOMAIN staged' = DOMAIN staged
        /\ \A i \in DOMAIN staged : staged'[i] = [staged[i] EXCEPT !.live = FALSE]
    BY DEF SceneChange
  <2>2. \A i \in DOMAIN staged : staged[i] \in StagedOnes
    BY <2>1
  <2>4. \A i \in DOMAIN staged : /\ staged[i] \in StagedOnes
                                 /\ staged'[i] \in StagedOnes /\ staged[i] # Absent
                                 /\ staged'[i].kind = staged[i].kind
                                 /\ staged'[i].rect = staged[i].rect
                                 /\ staged'[i].seq = staged[i].seq
    BY <2>2, <2>3, RetiredTyped, TypesDiffer
  <2>5. staged' = [i \in 1..Len(staged) |-> staged'[i]]
    BY <2>1 DEF SceneChange
  <2>6. staged' \in [1..Len(staged) -> StagedOnes]
    BY <2>1, <2>4, <2>5
  <2>7. staged' \in Seq(StagedOnes) /\ (staged' # <<>> => staged # <<>>)
    <3>1. staged' \in Seq(StagedOnes)
      BY <2>1, <2>6
    <3>2. staged = <<>> => DOMAIN staged' = {}
      BY <2>3
    <3> QED
      BY <3>1, <3>2
  <2>8. Apart(staged')
    BY <1>1, <2>3, <2>4, ApartAs DEF LoaderInv
  <2>9. InSequence(staged', next)
    BY <1>1, <2>3, <2>4 DEF LoaderInv, InSequence
  <2>10. UNCHANGED <<loader, next>>
    BY DEF SceneChange
  <2> QED
    BY <1>1, <1>7, <2>3, <2>4, <2>7, <2>8, <2>9, <2>10 DEF LoaderInv
<1>9. RegistryInv'
  BY <1>1, <1>6, <1>7, <1>8 DEF RegistryInv, SceneChange
<1>10. Mirrors(word, observed, auth', Memory) /\ owed' \in Seq(Loads)
       /\ UNCHANGED <<vram, word, observed, saved, preapplied>>
  BY DEF VramInv, SceneChange, journal
<1> QED
  BY <1>9, <1>10, LoaderKeeps

(* What a scene boundary stages anew is in order from one.                   *)
LEMMA CarriedStageable ==
  ASSUME CopyTable(cache)
  PROVE  /\ IsFiniteSet(DOMAIN Carried)
         /\ Cardinality(DOMAIN Carried) \in Nat
         /\ Stageable(Carried, 1, Cardinality(DOMAIN Carried) + 1)
<1> DEFINE C == Occupied(cache)
           S == Carried
<1>1. C \in SUBSET Int /\ IsFiniteSet(C) /\ C \subseteq Slots
  BY SlotsFinite, FS_Subset DEF Occupied
<1>2. DOMAIN S = C
      /\ \A i \in C : S[i] = [kind |-> cache[i].kind, rect |-> cache[i].rect,
                              pix |-> cache[i].pix, seq |-> 1 + Before(C, i),
                              live |-> TRUE, shared |-> FALSE]
  BY DEF Carried
<1>3. \A i \in C : cache[i] \in Copies /\ cache[i] # Absent
  BY DEF CopyTable, Occupied
<1> HIDE DEF C, S
<1>4. \A i \in C : Before(C, i) \in Nat /\ Before(C, i) < Cardinality(C)
  BY <1>1, BeforeAll
<1>5. Cardinality(C) \in Nat
  BY <1>1, FS_CardinalityType
<1>6. \A i \in C : /\ S[i] \in StagedOnes /\ S[i].seq = 1 + Before(C, i)
                   /\ S[i].kind = cache[i].kind /\ S[i].rect = cache[i].rect
  <2>1. ASSUME NEW i \in C
        PROVE  S[i] \in StagedOnes
    <3>1. PICK r \in Rects : cache[i] \in CopyOf(r)
      BY <1>3 DEF Copies
    <3>2. 1 + Before(C, i) \in Nat
      BY <1>4
    <3>3. /\ cache[i].kind \in ResourceKinds /\ cache[i].rect = r
          /\ cache[i].pix \in [r -> Genuine]
      BY <3>1 DEF CopyOf
    <3> DEFINE n == 1 + Before(C, i)
    <3>4. S[i] = [kind |-> cache[i].kind, rect |-> cache[i].rect, pix |-> cache[i].pix,
                  seq |-> n, live |-> TRUE, shared |-> FALSE] /\ n \in Nat
      BY <1>2, <3>2
    <3> HIDE DEF n
    <3>5. S[i] \in StagedOf(r)
      BY <3>3, <3>4 DEF StagedOf
    <3> QED
      BY <3>5 DEF StagedOnes
  <2> QED
    BY <1>2, <2>1
<1>7. Apart(S)
  <2>1. Apart(cache) /\ DOMAIN cache = Slots
    BY DEF CopyTable
  <2> QED
    BY <1>1, <1>2, <1>3, <1>6, <2>1, ApartAs
<1>8. \A i \in C : 1 <= S[i].seq /\ S[i].seq < Cardinality(C) + 1
  BY <1>4, <1>5, <1>6
<1>9. \A i, k \in C : i # k => S[i].seq # S[k].seq
  <2>1. \A i, k \in C : i # k => Before(C, i) # Before(C, k)
    BY <1>1, BeforeApart
  <2> QED
    BY <1>4, <1>6, <2>1
<1>10. Stageable(S, 1, Cardinality(C) + 1)
  BY <1>2, <1>6, <1>7, <1>8, <1>9 DEF Stageable, InSequence
<1> QED
  BY <1>1, <1>2, <1>5, <1>10 DEF S

LEMMA CarryOverKeeps ==
  ASSUME VramInv, saved = Absent, NEW ok \in BOOLEAN, CarryOver(ok)
  PROVE  VramInv'
<1>1. RegistryInv /\ LoaderInv /\ Mirrors(word, observed, auth, Memory) /\ CopyTable(cache)
  BY DEF VramInv, RegistryInv
<1> DEFINE S == Carried
           m == Cardinality(DOMAIN S) + 1
<1>2. IsFiniteSet(DOMAIN S) /\ Cardinality(DOMAIN S) \in Nat /\ Stageable(S, 1, m)
  BY <1>1, CarriedStageable
<1>3. /\ pubs' = IF Rebinds(ok) THEN PlaceAll(NoEntries, S) ELSE NoEntries
      /\ auth' = IF Rebinds(ok) THEN Authenticated(S) ELSE auth
      /\ next' = IF Rebinds(ok) THEN m ELSE 1
      /\ count' = IF Rebinds(ok) THEN Cardinality(DOMAIN S) ELSE 0
      /\ staged' = <<>> /\ loader' = NoLoader /\ cache' = cache
      /\ UNCHANGED <<vram, owed, word, observed, saved, preapplied>>
  BY DEF CarryOver
<1> HIDE DEF S
<1>4. m \in Nat /\ 1 <= m /\ next' \in Nat \ {0} /\ count' \in Nat
  BY <1>2, <1>3
<1>5. LoaderInv' /\ Floor' = next'
  BY <1>3, <1>4, IdleLoader
<1>6. PubTable(pubs', next')
  <2>1. PubTable(NoEntries, 1)
    BY EmptyTables
  <2>2. PubTable(PlaceAll(NoEntries, S), m)
    BY <1>2, <1>4, <2>1, PlaceAllTable
  <2> QED
    BY <1>3, <2>1, <2>2
<1>7. Mirrors(word, observed, auth', Memory)
  BY <1>1, <1>2, <1>3, AuthenticatedTrue DEF Stageable
<1>8. RegistryInv'
  BY <1>1, <1>3, <1>4, <1>5, <1>6 DEF RegistryInv
<1> QED
  BY <1>3, <1>7, <1>8, LoaderKeeps DEF VramInv

----------------------------------------------------------------------------
(* Checkpoints.                                                              *)
LEMMA PackedTable ==
  ASSUME NEW P, NEW n \in Nat, PubTable(P, n)
  PROVE  PubTable(Packed(P), n)
<1> DEFINE S == [i \in Occupied(P) |-> P[i]]
<1>1. \A p \in Publications : p.seq \in Nat /\ 0 <= p.seq
  BY DEF Publications, PubOf
<1>2. DOMAIN S = Occupied(P) /\ Occupied(P) \subseteq Slots
      /\ \A i \in DOMAIN S : S[i] = P[i] /\ P[i] \in Publications /\ P[i] # Absent
  BY DEF Occupied, PubTable
<1>3. DOMAIN P = Slots /\ Apart(P) /\ InSequence(P, n)
  BY DEF PubTable
<1> HIDE DEF S
<1>4. Apart(S)
  BY <1>2, <1>3, ApartAs
<1>5. InSequence(S, n)
  BY <1>2, <1>3 DEF InSequence
<1>6. PubTable(NoEntries, 0) /\ 0 <= n
  BY EmptyTables
<1>7. PubTable(Placed(NoEntries, S), n)
  BY <1>1, <1>2, <1>4, <1>5, <1>6, PlacedTable
<1> QED
  BY <1>7 DEF Packed, S

LEMMA CheckpointWriteKeeps ==
  ASSUME VramInv, saved = Absent, CheckpointWrite
  PROVE  VramInv'
<1>1. ~preapplied /\ Mirrors(word, observed, auth, vram)
  BY DEF VramInv, Preapplied, Memory
<1>2. PubTable(pubs, next) /\ next \in Nat \ {0}
  BY DEF VramInv, RegistryInv, LoaderInv, Floor, CheckpointWrite
<1>3. PubTable(Packed(pubs), next)
  BY <1>2, PackedTable
<1>4. saved' = [kind |-> "checkpoint", vram |-> vram, word |-> word,
                observed |-> observed, auth |-> auth, next |-> next,
                pubs |-> Packed(pubs)]
  BY DEF CheckpointWrite
<1>5. SavedInv'
  BY <1>1, <1>2, <1>3, <1>4 DEF SavedInv
<1>6. RegistryInv'
  BY DEF VramInv, CheckpointWrite, registry, RegistryInv, LoaderInv, Floor
<1>7. UNCHANGED <<vram, owed, word, observed, auth, preapplied>>
  BY DEF CheckpointWrite, journal
<1> QED
  BY <1>1, <1>5, <1>6, <1>7 DEF VramInv, Preapplied, Memory

LEMMA CopiesOf ==
  ASSUME NEW P, NEW n, PubTable(P, n)
  PROVE  CopyTable([i \in Slots |-> IF P[i] = Absent THEN Absent ELSE Cached(P[i])])
<1> DEFINE C == [i \in Slots |-> IF P[i] = Absent THEN Absent ELSE Cached(P[i])]
<1>1. \A i \in Slots : P[i] \in Publications \cup {Absent}
  BY DEF PubTable
<1>2. \A i \in Slots : /\ C[i] \in Copies \cup {Absent}
                       /\ P[i] = Absent => C[i] = Absent
                       /\ P[i] # Absent => C[i].kind = P[i].kind /\ C[i].rect = P[i].rect
  BY <1>1, CachedTyped
<1>3. C \in [Slots -> Copies \cup {Absent}]
  BY <1>2
<1>4. Apart(C)
  <2>1. DOMAIN C = Slots /\ DOMAIN P = Slots /\ Apart(P)
    BY DEF PubTable
  <2> HIDE DEF C
  <2> QED
    BY <1>2, <2>1 DEF Apart, SameRegion
<1> QED
  BY <1>3, <1>4 DEF CopyTable

LEMMA InstalledKeeps ==
  ASSUME SavedInv, saved # Absent, Installed
  PROVE  RegistryInv' /\ Mirrors(word', observed', auth', saved.vram)
<1>1. /\ saved.next \in Nat \ {0} /\ PubTable(saved.pubs, saved.next)
      /\ Mirrors(saved.word, saved.observed, saved.auth, saved.vram)
  BY DEF SavedInv
<1>2. LoaderInv' /\ Floor' = saved.next
  BY <1>1, IdleLoader DEF Installed
<1>3. CopyTable(cache')
  BY <1>1, CopiesOf DEF Installed
<1>4. count' \in Nat
  <2>1. IsFiniteSet(Occupied(saved.pubs))
    BY SlotsFinite, FS_Subset DEF Occupied
  <2> QED
    BY <2>1, FS_CardinalityType DEF Installed
<1>5. RegistryInv'
  BY <1>1, <1>2, <1>3, <1>4 DEF RegistryInv, Installed
<1>6. Mirrors(word', observed', auth', saved.vram)
  BY <1>1 DEF Mirrors, Installed
<1> QED
  BY <1>5, <1>6

LEMMA RestoreCheckpointKeeps == ASSUME VramInv, ~preapplied, RestoreCheckpoint PROVE VramInv'
<1>1. RegistryInv' /\ Mirrors(word', observed', auth', vram)
  BY InstalledKeeps DEF VramInv, RestoreCheckpoint
<1>2. saved' = Absent /\ owed' = <<>> /\ UNCHANGED <<vram, preapplied>>
  BY DEF RestoreCheckpoint
<1>3. <<>> \in Seq(Loads)
  OBVIOUS
<1> QED
  BY <1>1, <1>2, <1>3 DEF VramInv, Memory, Preapplied, SavedInv

LEMMA BootRestoreKeeps == ASSUME VramInv, ~preapplied, BootRestore PROVE VramInv'
<1>1. RegistryInv' /\ Mirrors(word', observed', auth', saved.vram)
  BY InstalledKeeps DEF VramInv, BootRestore
<1>2. /\ saved # Absent /\ owed' = <<>> /\ UNCHANGED <<vram, saved>> /\ preapplied' = TRUE
      /\ observed' = saved.observed /\ auth' = saved.auth /\ pubs' = saved.pubs
  BY DEF BootRestore, Installed
<1>3. <<>> \in Seq(Loads)
  OBVIOUS
<1> QED
  BY <1>1, <1>2, <1>3 DEF VramInv, Memory, Preapplied, SavedInv

LEMMA RestoreEventKeeps == ASSUME VramInv, RestoreEvent PROVE VramInv'
<1>1. saved # Absent /\ saved.vram \in [Cells -> Words]
  BY DEF VramInv, SavedInv, RestoreEvent, Mirrors
<1>2. RegistryInv' /\ Mirrors(word', observed', auth', saved.vram)
  <2>1. CASE preapplied
    <3>1. UNCHANGED <<word, observed, auth, pubs, cache, staged, loader, next, count>>
      BY <2>1 DEF RestoreEvent, journal, registry
    <3>2. RegistryInv'
      BY <3>1 DEF VramInv, RegistryInv, LoaderInv, Floor
    <3> QED
      BY <2>1, <3>1, <3>2 DEF VramInv, Memory
  <2>2. CASE ~preapplied
    BY <1>1, <2>2, ClearedKeeps DEF RestoreEvent
  <2> QED
    BY <2>1, <2>2 DEF VramInv
<1>3. vram' = saved.vram /\ owed' = <<>> /\ saved' = Absent /\ preapplied' = FALSE
  BY DEF RestoreEvent
<1>4. <<>> \in Seq(Loads)
  OBVIOUS
<1> QED
  BY <1>1, <1>2, <1>3, <1>4 DEF VramInv, Memory, Preapplied, SavedInv

----------------------------------------------------------------------------
LEMMA InitVram == VramInit => VramInv
<1> SUFFICES ASSUME VramInit PROVE VramInv
  OBVIOUS
<1>1. ClearWord \in Words
  BY VramAssumption
<1>2. Mirrors(word, observed, auth, vram)
  BY <1>1 DEF VramInit, Mirrors
<1>3. LoaderInv /\ Floor = 1
  BY EmptyStaged DEF VramInit, LoaderInv, Floor, NoLoader
<1>4. RegistryInv
  BY <1>3, EmptyTables DEF RegistryInv, VramInit
<1>5. vram \in [Cells -> Words] /\ owed \in Seq(Loads)
  BY <1>1 DEF VramInit
<1> QED
  BY <1>2, <1>4, <1>5 DEF VramInv, VramInit, Memory, SavedInv, Preapplied

LEMMA NextVram == VramInv /\ [VramNext]_vramVars => VramInv'
<1> SUFFICES ASSUME VramInv, [VramNext]_vramVars PROVE VramInv'
  OBVIOUS
<1>1. CASE saved = Absent /\ LoaderStep
  BY <1>1, LoaderStepKeeps
<1>2. CASE saved = Absent /\ LifecycleStep
  BY <1>2, SceneChangeKeeps, CarryOverKeeps, CheckpointWriteKeeps DEF LifecycleStep
<1>3. CASE saved = Absent /\ MoveStep
  <2>1. ~preapplied
    BY <1>3 DEF VramInv, Preapplied
  <2>2. PICK src \in Rects, dst \in Rects, captured \in BOOLEAN, surface \in BOOLEAN,
             ok \in BOOLEAN : Move(src, dst, captured, surface, ok)
    BY <1>3 DEF MoveStep
  <2> QED
    BY <2>1, <2>2, MoveKeeps
<1>4. CASE ~preapplied /\ DeviceStep
  BY <1>4, DeviceStepKeeps
<1>5. CASE ~preapplied /\ (TimelineReset \/ RestoreCheckpoint \/ BootRestore)
  BY <1>5, TimelineResetKeeps, RestoreCheckpointKeeps, BootRestoreKeeps
<1>6. CASE RestoreEvent
  BY <1>6, RestoreEventKeeps
<1>7. CASE UNCHANGED vramVars
  BY <1>7 DEF vramVars, journal, registry, VramInv, Memory, RegistryInv, LoaderInv, Floor,
              SavedInv, Preapplied
<1> QED
  BY <1>1, <1>2, <1>3, <1>4, <1>5, <1>6, <1>7 DEF VramNext

(* The inductive invariant holds of every reachable state.                   *)
THEOREM JournalInvariant == VramSpec => []VramInv
BY InitVram, NextVram, PTL DEF VramSpec

(* The journal never contradicts the device, and an authoritative word was   *)
(* earned from an authenticated source, whatever is loaded, drawn, moved,    *)
(* reset or restored, and in whatever order.                                 *)
THEOREM JournalAlwaysTrue == VramSpec => []JournalTrue
<1>1. VramInv => JournalTrue
  BY DEF VramInv, JournalTrue, Memory, Mirrors
<1> QED
  BY <1>1, JournalInvariant, PTL

(* A lookup has one answer: no region is published or cached twice, and no   *)
(* two publications have the same place in the order.                        *)
THEOREM RegistryKeepsShape == VramSpec => []RegistryShape
<1>1. VramInv => RegistryShape
  <2> SUFFICES ASSUME VramInv PROVE RegistryShape
    OBVIOUS
  <2>1. PubTable(pubs, Floor) /\ CopyTable(cache) /\ LoaderInv /\ count \in Nat
        /\ Floor \in Nat /\ Floor <= next /\ next \in Nat
    BY FloorTyped DEF VramInv, RegistryInv, LoaderInv
  <2>2. \A i \in Slots : pubs[i] = Absent \/ \E r \in Rects : pubs[i] \in Pubs(r)
    <3>2. Genuine \subseteq Words
      BY VramAssumption
    <3>3. ASSUME NEW r, NEW p \in PubOf(r) PROVE p \in Pubs(r)
      BY <3>2 DEF PubOf, Pubs
    <3> QED
      BY <2>1, <3>3 DEF PubTable, Publications
  <2>3. VramTypeOK
    BY <2>1, <2>2 DEF VramInv, VramTypeOK, Mirrors
  <2>4. \A i \in Slots : pubs[i] # Absent => pubs[i].seq < next /\ pubs[i].seq < Floor
    <3>1. \A p \in Publications : p.seq \in Nat
      BY DEF Publications, PubOf
    <3> QED
      BY <2>1, <3>1 DEF PubTable, InSequence
  <2> QED
    BY <2>1, <2>3, <2>4 DEF RegistryShape, PubTable, CopyTable, Apart, InSequence
<1> QED
  BY <1>1, JournalInvariant, PTL

LEMMA AnswerAfter == \A kind, r : Lookup(kind, r)' = LookupIn(pubs', kind, r)
BY DEF Lookup

(* A boot restore brings back what was saved.                                *)
THEOREM RestoreAlwaysRoundTrip == VramSpec => RestoreRoundTrip
<1> DEFINE Back ==
             preapplied /\ ~preapplied' =>
               /\ observed' = saved.observed /\ auth' = saved.auth
               /\ \A c \in saved.observed : word'[c] = saved.vram[c]
               /\ \A kind \in ResourceKinds, r \in Rects :
                    LET p == LookupIn(saved.pubs, kind, r)
                        q == Lookup(kind, r)'
                    IN  p # Absent => q # Absent /\ p.pix = q.pix
<1>1. ASSUME VramInv, [VramNext]_vramVars PROVE Back
  <2> SUFFICES ASSUME preapplied, ~preapplied' PROVE Back
    OBVIOUS
  <2>1. saved # Absent /\ observed = saved.observed /\ auth = saved.auth /\ pubs = saved.pubs
        /\ Mirrors(word, observed, auth, saved.vram)
    BY <1>1 DEF VramInv, Preapplied, Memory
  <2>2. RestoreEvent
    <3>1. preapplied' # preapplied
      OBVIOUS
    <3> QED
      BY <1>1, <2>1, <3>1 DEF VramNext, vramVars
  <2>3. UNCHANGED <<word, observed, auth, pubs>>
    BY <2>2 DEF RestoreEvent, journal, registry
  <2>4. \A c \in saved.observed : word'[c] = saved.vram[c]
    BY <2>1, <2>3 DEF Mirrors
  <2>5. \A kind, r : Lookup(kind, r)' = LookupIn(saved.pubs, kind, r)
    BY <2>1, <2>3, AnswerAfter
  <2> QED
    BY <2>1, <2>3, <2>4, <2>5
<1>2. VramInv /\ [VramNext]_vramVars => [Back]_vramVars
  BY <1>1
<1> QED
  BY <1>2, JournalInvariant, PTL DEF VramSpec, RestoreRoundTrip

----------------------------------------------------------------------------
(* What a write leaves holds what the write left in memory.                  *)
Tells(p, m, r) == \A c \in r : p.pix[c] = m[c]

LEMMA SpareTells ==
  ASSUME NEW w \in Rects, NEW pix, DeviceWrite(w, pix), NEW exact,
         NEW S, NEW i \in Slots, NEW r \in SUBSET Cells, r \subseteq S[i].rect,
         Tells(S[i], vram, r), Survivors(S, w, pix, exact)[i] # Absent
  PROVE  Survivors(S, w, pix, exact)[i] = S[i] /\ Tells(S[i], vram', r)
<1>1. Survivors(S, w, pix, exact)[i] =
        IF /\ S[i] # Absent /\ S[i].rect \cap w # {}
           /\ ~(exact /\ S[i].rect = w /\ S[i].pix = pix)
        THEN Absent ELSE S[i]
  BY DEF Survivors
<1>2. CASE S[i].rect \cap w = {}
  BY <1>1, <1>2 DEF DeviceWrite, Tells
<1>3. CASE S[i].rect = w /\ S[i].pix = pix
  BY <1>1, <1>3 DEF DeviceWrite, Tells
<1> QED
  BY <1>1, <1>2, <1>3

(* An answer with the same place in the order is the same entry.             *)
LEMMA SameAnswer ==
  ASSUME NEW P, NEW n \in Nat, PubTable(P, n), NEW Q, NEW m \in Nat, PubTable(Q, m),
         \A k \in Slots : Q[k] # Absent => P[k] # Absent /\ Q[k].seq = P[k].seq,
         NEW kind, NEW r, LookupIn(P, kind, r) # Absent, LookupIn(Q, kind, r) # Absent,
         LookupIn(P, kind, r).seq = LookupIn(Q, kind, r).seq
  PROVE  \E i \in Slots : /\ LookupIn(P, kind, r) = P[i] /\ LookupIn(Q, kind, r) = Q[i]
                          /\ P[i] # Absent /\ Q[i] # Absent /\ r \subseteq P[i].rect
<1>1. PICK i \in Slots : P[i] # Absent /\ LookupIn(P, kind, r) = P[i] /\ r \subseteq P[i].rect
  BY LookupFacts
<1>2. PICK k \in Slots : Q[k] # Absent /\ LookupIn(Q, kind, r) = Q[k]
  BY LookupFacts
<1>3. P[k] # Absent /\ P[k].seq = P[i].seq
  BY <1>1, <1>2
<1>4. i = k
  BY <1>1, <1>3 DEF PubTable, InSequence
<1> QED
  BY <1>1, <1>2, <1>4

(* The tables tell the memory after a step what they told of it before.      *)
StillTold ==
  /\ \A kind \in ResourceKinds, r \in Rects :
       LET p == LookupIn(pubs, kind, r)
           q == LookupIn(pubs', kind, r)
       IN  (/\ p # Absent /\ Tells(p, vram, r) /\ q # Absent /\ q.seq = p.seq)
           => Tells(q, vram', r)
  /\ \A i \in Slots :
       (SameRegion(cache[i], cache'[i]) /\ Tells(cache[i], vram, cache[i].rect))
       => Tells(cache'[i], vram', cache[i].rect)

LEMMA TablesOf ==
  ASSUME VramInv
  PROVE  /\ PubTable(pubs, Floor) /\ Floor \in Nat /\ CopyTable(cache)
         /\ \A i \in Slots : cache[i] # Absent => cache[i].rect \in SUBSET Cells
<1>1. PubTable(pubs, Floor) /\ Floor \in Nat /\ CopyTable(cache)
  BY FloorTyped DEF VramInv, RegistryInv
<1>2. \A p \in Copies : p.rect \in SUBSET Cells
  BY VramAssumption DEF Copies, CopyOf
<1> QED
  BY <1>1, <1>2 DEF CopyTable

LEMMA TablesAfter ==
  ASSUME VramInv'
  PROVE  PubTable(pubs', Floor') /\ Floor' \in Nat
<1>1. PubTable(pubs', Floor') /\ LoaderInv'
  BY DEF VramInv, RegistryInv
<1>2. Floor' \in Nat
  BY <1>1 DEF LoaderInv, Floor, Loaders, NoLoader
<1> QED
  BY <1>1, <1>2

LEMMA MutationTells ==
  ASSUME VramInv, VramInv', NEW w \in Rects, NEW pix, NEW exact,
         DeviceWrite(w, pix), NoteMutation(w, pix, exact)
  PROVE  StillTold
<1>1. pubs' = Survivors(pubs, w, pix, exact) /\ cache' = Survivors(cache, w, pix, exact)
  BY DEF NoteMutation
<1>2. PubTable(pubs, Floor) /\ Floor \in Nat
  BY TablesOf
<1>3. PubTable(pubs', Floor') /\ Floor' \in Nat
  BY TablesAfter
<1>4. \A k \in Slots : pubs'[k] \in {Absent, pubs[k]} /\ cache'[k] \in {Absent, cache[k]}
  BY <1>1, SurvivorsTables
<1>5. ASSUME NEW kind, NEW r \in Rects,
             LookupIn(pubs, kind, r) # Absent, Tells(LookupIn(pubs, kind, r), vram, r),
             LookupIn(pubs', kind, r) # Absent,
             LookupIn(pubs', kind, r).seq = LookupIn(pubs, kind, r).seq
      PROVE  Tells(LookupIn(pubs', kind, r), vram', r)
  <2>1. PICK i \in Slots :
          /\ LookupIn(pubs, kind, r) = pubs[i] /\ LookupIn(pubs', kind, r) = pubs'[i]
          /\ pubs[i] # Absent /\ pubs'[i] # Absent /\ r \subseteq pubs[i].rect
    BY <1>2, <1>3, <1>4, <1>5, SameAnswer
  <2>2. r \in SUBSET Cells
    BY VramAssumption
  <2> QED
    BY <1>1, <1>5, <2>1, <2>2, SpareTells
<1>6. ASSUME NEW i \in Slots, SameRegion(cache[i], cache'[i]),
             Tells(cache[i], vram, cache[i].rect)
      PROVE  Tells(cache'[i], vram', cache[i].rect)
  <2>1. cache[i] # Absent /\ cache'[i] # Absent
    BY <1>6 DEF SameRegion
  <2>2. cache[i].rect \in SUBSET Cells
    BY <2>1, TablesOf
  <2> QED
    BY <1>1, <1>6, <2>1, <2>2, SpareTells
<1> QED
  BY <1>5, <1>6 DEF StillTold

LEMMA PatchTells ==
  ASSUME VramInv, VramInv', NEW w \in Rects, NEW pix \in [w -> Words],
         DeviceWrite(w, pix), Patchable(w), PatchAll(w, pix)
  PROVE  StillTold
<1> DEFINE T == Touched(pubs, w)
           new == [i \in Slots |-> IF i \in T THEN Patched(pubs[i], w, pix) ELSE pubs[i]]
           S == [i \in T |-> new[i]]
           C == [i \in DOMAIN S |-> Cached(S[i])]
<1>1. pubs' = new /\ cache' = Placed(cache, C)
  BY DEF PatchAll, CacheAll
<1>2. PubTable(pubs, Floor) /\ Floor \in Nat /\ CopyTable(cache)
  BY TablesOf
<1>3. PubTable(pubs', Floor') /\ Floor' \in Nat
  BY TablesAfter
<1>4. /\ T \subseteq Slots /\ \A i \in T : pubs[i] # Absent
      /\ \A i \in Slots : pubs[i] # Absent /\ pubs[i].rect \cap w # {} => i \in T
  BY DEF Touched, Occupied
<1>5. DOMAIN C = T /\ \A i \in T : C[i] = Cached(Patched(pubs[i], w, pix))
  BY <1>4
<1>6. \A i \in Slots : pubs'[i] = IF i \in T THEN Patched(pubs[i], w, pix) ELSE pubs[i]
  BY <1>1
<1>7. /\ \A i \in T : \A k \in CacheOf(pubs[i]) : cache[k].pix = pubs[i].pix
      /\ \A k \in Touched(cache, w) : \E i \in T : k \in CacheOf(pubs[i])
  BY DEF Patchable
<1> HIDE DEF T, new, S, C
<1>8. \A i \in T : pubs[i] \in Publications
  BY <1>2, <1>4 DEF PubTable
<1>9. \A i \in T : LET q == Patched(pubs[i], w, pix)
                   IN  /\ q.kind = pubs[i].kind /\ q.rect = pubs[i].rect /\ q.seq = pubs[i].seq
                       /\ \A c \in pubs[i].rect :
                            q.pix[c] = IF c \in w THEN pix[c] ELSE pubs[i].pix[c]
  <2>1. \A p \in Publications :
          LET q == Patched(p, w, pix)
          IN  /\ q.kind = p.kind /\ q.rect = p.rect /\ q.seq = p.seq
              /\ \A c \in p.rect : q.pix[c] = IF c \in w THEN pix[c] ELSE p.pix[c]
    BY DEF Publications, PubOf, Patched
  <2> QED
    BY <1>8, <2>1
<1>10. \A c \in Cells : vram'[c] = IF c \in w THEN pix[c] ELSE vram[c]
  BY DEF DeviceWrite
<1>11. ASSUME NEW kind, NEW r \in Rects,
             LookupIn(pubs, kind, r) # Absent, Tells(LookupIn(pubs, kind, r), vram, r),
             LookupIn(pubs', kind, r) # Absent,
             LookupIn(pubs', kind, r).seq = LookupIn(pubs, kind, r).seq
      PROVE  Tells(LookupIn(pubs', kind, r), vram', r)
  <2>1. \A k \in Slots : pubs'[k] # Absent => pubs[k] # Absent /\ pubs'[k].seq = pubs[k].seq
    BY <1>4, <1>6, <1>9
  <2>2. PICK i \in Slots :
          /\ LookupIn(pubs, kind, r) = pubs[i] /\ LookupIn(pubs', kind, r) = pubs'[i]
          /\ pubs[i] # Absent /\ pubs'[i] # Absent /\ r \subseteq pubs[i].rect
    BY <1>2, <1>3, <1>11, <2>1, SameAnswer
  <2>3. r \subseteq Cells
    BY VramAssumption
  <2>4. \A c \in r : pubs[i].pix[c] = vram[c]
    BY <1>11, <2>2 DEF Tells
  <2>5. CASE i \in T
    BY <1>6, <1>9, <1>10, <2>2, <2>3, <2>4, <2>5 DEF Tells
  <2>6. CASE i \notin T
    <3>1. pubs[i].rect \cap w = {}
      BY <1>4, <2>2, <2>6
    <3> QED
      BY <1>6, <1>10, <2>2, <2>3, <2>4, <2>6, <3>1 DEF Tells
  <2> QED
    BY <2>5, <2>6
<1>12. ASSUME NEW i \in Slots, SameRegion(cache[i], cache'[i]),
             Tells(cache[i], vram, cache[i].rect)
      PROVE  Tells(cache'[i], vram', cache[i].rect)
  <2>1. cache[i] # Absent /\ cache'[i] # Absent
        /\ cache'[i].kind = cache[i].kind /\ cache'[i].rect = cache[i].rect
    BY <1>12 DEF SameRegion
  <2>2. cache[i].rect \subseteq Cells
    BY <2>1, TablesOf
  <2>3. \A c \in cache[i].rect : cache[i].pix[c] = vram[c]
    BY <1>12 DEF Tells
  <2>4. \/ cache'[i] = cache[i] /\ \A j \in T : ~GoesTo(cache, C, j, i)
        \/ \E j \in T : cache'[i] = C[j]
    BY <1>1, <1>5, PlacedFacts
  <2>5. CASE \E j \in T : cache'[i] = C[j]
    <3>1. PICK j \in T : cache'[i] = C[j]
      BY <2>5
    <3>2. /\ cache'[i].kind = pubs[j].kind /\ cache'[i].rect = pubs[j].rect
          /\ cache'[i].pix = Patched(pubs[j], w, pix).pix
      BY <1>5, <1>9, <3>1 DEF Cached
    <3>3. i \in CacheOf(pubs[j])
      BY <1>4, <2>1, <3>2 DEF CacheOf, SameRegion
    <3>4. cache[i].pix = pubs[j].pix
      BY <1>7, <3>3
    <3> QED
      BY <1>9, <1>10, <2>1, <2>2, <2>3, <3>2, <3>4 DEF Tells
  <2>6. CASE cache'[i] = cache[i] /\ \A j \in T : ~GoesTo(cache, C, j, i)
    <3>1. cache[i].rect \cap w = {}
      <4>1. SUFFICES ASSUME cache[i].rect \cap w # {} PROVE FALSE
        OBVIOUS
      <4>2. PICK j \in T : i \in CacheOf(pubs[j])
        BY <1>7, <2>1, <4>1 DEF Touched, Occupied
      <4>3. C[j].kind = pubs[j].kind /\ C[j].rect = pubs[j].rect
        BY <1>5, <1>9 DEF Cached
      <4>4. C[j] # Absent
        <5>1. DOMAIN C[j] = {"kind", "rect", "pix"} /\ DOMAIN Absent = {"kind"}
          BY <1>5 DEF Cached, Absent
        <5> QED
          BY <5>1
      <4>5. SameRegion(cache[i], C[j])
        BY <4>2, <4>3, <4>4 DEF CacheOf, SameRegion
      <4> QED
        BY <2>6, <4>5 DEF GoesTo
    <3> QED
      BY <1>10, <2>2, <2>3, <2>6, <3>1 DEF Tells
  <2> QED
    BY <2>4, <2>5, <2>6
<1> QED
  BY <1>11, <1>12 DEF StillTold

LEMMA MoveTells ==
  ASSUME VramInv, ~preapplied, VramInv', NEW src \in Rects, NEW dst \in Rects,
         NEW captured \in BOOLEAN, NEW surface \in BOOLEAN, NEW ok \in BOOLEAN,
         Move(src, dst, captured, surface, ok)
  PROVE  StillTold
<1> DEFINE pix == [c \in dst |-> vram[c - Shift(src, dst)]]
           known == src \subseteq auth /\ \A c \in dst : word[c - Shift(src, dst)] = pix[c]
           genuine == captured /\ (known \/ (surface /\ ~(src \subseteq auth)))
<1>1. /\ Movable(src, dst) /\ DeviceWrite(dst, pix)
      /\ IF ok /\ genuine /\ Patchable(dst) THEN PatchAll(dst, pix)
         ELSE NoteMutation(dst, pix, FALSE)
  BY DEF Move
<1>2. pix = [c \in dst |-> vram[c - Shift(src, dst)]]
  OBVIOUS
<1> HIDE DEF pix, genuine
<1>3. pix \in [dst -> Words]
  BY <1>1, <1>2, MovedWords
<1> QED
  BY <1>1, <1>3, PatchTells, MutationTells

LEMMA EventTells ==
  ASSUME VramInv, VramInv', RestoreEvent, ~preapplied
  PROVE  StillTold
<1>1. pubs' = NoEntries /\ cache' = NoEntries
  BY DEF RestoreEvent, Cleared
<1>2. \A i \in Slots : cache'[i] = Absent /\ pubs'[i] = Absent
  BY <1>1 DEF NoEntries
<1>3. \A kind, r : LookupIn(pubs', kind, r) = Absent
  <2>1. PubTable(pubs', 1)
    BY <1>1, EmptyTables
  <2> QED
    BY <1>2, <2>1, LookupFacts
<1> QED
  BY <1>2, <1>3 DEF StillTold, SameRegion

LEMMA StepTells ==
  ASSUME VramInv, [VramNext]_vramVars, vram' # vram, ~preapplied
  PROVE  StillTold
<1>1. VramInv'
  BY NextVram
<1>2. CASE LoaderStep
  BY <1>2 DEF LoaderStep, Begin, Upload, StreamUpload, Commit, CommitOptional, StreamFinish, Abort
<1>3. CASE LifecycleStep
  BY <1>3 DEF LifecycleStep, SceneChange, CarryOver, CheckpointWrite
<1>4. CASE MoveStep
  <2>1. PICK src \in Rects, dst \in Rects, captured \in BOOLEAN, surface \in BOOLEAN,
             ok \in BOOLEAN : Move(src, dst, captured, surface, ok)
    BY <1>4 DEF MoveStep
  <2> QED
    BY <1>1, <2>1, MoveTells
<1>5. CASE DeviceStep
  <2>1. CASE Land
    <3>1. Head(owed).rect \in Rects
      BY <2>1 DEF Land, VramInv, Loads, LoadOf
    <3> QED
      BY <1>1, <2>1, <3>1, MutationTells DEF Land, UploadEvent
  <2>2. ASSUME NEW r \in Rects, NEW pix \in Images(r, Words), NEW mdec \in BOOLEAN,
               GuestUpload(r, pix, mdec)
        PROVE  StillTold
    BY <1>1, <2>2, MutationTells DEF GuestUpload, UploadEvent
  <2>3. ASSUME NEW r \in Rects, NEW captured \in BOOLEAN, Clear(r, captured)
        PROVE  StillTold
    BY <1>1, <2>3, MutationTells DEF Clear
  <2>4. ASSUME NEW r \in Rects, NEW pix \in Images(r, Words \ Genuine),
               RenderTargetWrite(r, pix)
        PROVE  StillTold
    BY <1>1, <2>4, MutationTells DEF RenderTargetWrite
  <2> QED
    BY <1>5, <2>1, <2>2, <2>3, <2>4 DEF DeviceStep
<1>6. CASE TimelineReset \/ RestoreCheckpoint \/ BootRestore \/ UNCHANGED vramVars
  BY <1>6 DEF TimelineReset, RestoreCheckpoint, BootRestore, vramVars
<1>7. CASE RestoreEvent
  BY <1>1, <1>7, EventTells
<1> QED
  BY <1>2, <1>3, <1>4, <1>5, <1>6, <1>7 DEF VramNext

(* No write of the device leaves an answer, or a cached copy, wrong that was *)
(* right before it.                                                          *)
THEOREM AnswersAlwaysKeep == VramSpec => AnswersKeep
<1> DEFINE Kept ==
             vram' # vram /\ ~preapplied =>
               /\ \A kind \in ResourceKinds, r \in Rects :
                    LET p == Lookup(kind, r)
                        q == Lookup(kind, r)'
                    IN  (/\ p # Absent /\ Right(p, r) /\ q # Absent
                         /\ q.seq = p.seq /\ q.rect = p.rect)
                        => \A c \in r : q.pix[c] = vram'[c]
               /\ \A i \in Slots :
                    (SameRegion(cache[i], cache'[i]) /\ Right(cache[i], cache[i].rect))
                    => \A c \in cache[i].rect : cache'[i].pix[c] = vram'[c]
<1>1. ASSUME VramInv, [VramNext]_vramVars PROVE Kept
  <2> SUFFICES ASSUME vram' # vram, ~preapplied PROVE Kept
    OBVIOUS
  <2>1. StillTold
    BY <1>1, StepTells
  <2>2. \A kind, r : /\ Lookup(kind, r) = LookupIn(pubs, kind, r)
                     /\ Lookup(kind, r)' = LookupIn(pubs', kind, r)
    BY AnswerAfter DEF Lookup
  <2> QED
    BY <2>1, <2>2 DEF StillTold, Tells, Right
<1>2. VramInv /\ [VramNext]_vramVars => [Kept]_vramVars
  BY <1>1
<1> QED
  BY <1>2, JournalInvariant, PTL DEF VramSpec, AnswersKeep
=============================================================================
