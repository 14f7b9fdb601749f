---------------------------- MODULE Authentication ----------------------------
(***************************************************************************)
(* Who may speak for the guest's code.  The renderer replaces guest        *)
(* drawing only where the code that would draw is the code it was written  *)
(* for.  Four kinds of evidence say so: the proof that the producer's      *)
(* entry, capture and return were seen in order (xg_render_auth.c driven   *)
(* by xg_render_auth_runtime.c, for the canonical field image and for the  *)
(* variant of xg_render_runtime_variant_auth.c), the producer entry that   *)
(* a proof of the variant leaves behind, the table of authenticated        *)
(* artifacts, and the authorities of local producers                       *)
(* (xg_render_local_producer_auth.c).  Hooks, candidates, code writes,     *)
(* loader mismatches and scene changes come in any order.                  *)
(*                                                                         *)
(* The state of the four is one record, and what a call does to it an      *)
(* operator on records, so that an operator is a function of the code and  *)
(* a call within a call an operator applied to another's result.           *)
(***************************************************************************)
EXTENDS Integers, FiniteSets

CONSTANTS
  Kinds, ZoomKinds,   (* local producers, those that defer to an artifact    *)
  WriterCount,        (* writers a lifecycle of each must see                *)
  Artifacts,          (* images the guest may load                           *)
  Field, Canon,       (* of these, the field variant and the canonical field *)
  Eligible,           (* those an authenticated artifact may be              *)
  Extent, Code,       (* the places an image takes, those that are code      *)
  Junk, None,         (* what is no image; no value                          *)
  NativeWork,         (* native work is enabled                              *)
  ArtifactCapacity,   (* XG_RENDER_AUTH_ARTIFACT_CAPACITY                    *)
  SceneLimit          (* scene generations                                   *)

(* "canon" stands for the canonical entry and its instruction window,        *)
(* "variant" for the windows and sites of the variant's descriptor, a kind   *)
(* for the code range of its cutovers.  They make up the field range.        *)
DescriptorPlaces == {"variant"} \cup Kinds
FieldPlaces == {"canon"} \cup DescriptorPlaces
Places == UNION {Extent[c] : c \in Artifacts}
CodePlaces == UNION {Code[c] : c \in Artifacts}

Tiers == {"cold", "warm"}
Proofs == [tier : Tiers, scene : Nat, blocked : BOOLEAN]

ASSUME AuthenticationAssumption ==
  /\ ZoomKinds \subseteq Kinds /\ WriterCount \in [Kinds -> Nat]
  /\ {Field, Canon} \cup Eligible \subseteq Artifacts /\ Junk \notin Artifacts
  /\ Extent[Field] = FieldPlaces /\ Extent[Canon] = FieldPlaces
  /\ \A c \in Artifacts : Code[c] \subseteq Extent[c] /\ Code[c] # {}
  /\ Kinds \subseteq Code[Field] /\ None \notin Proofs
  /\ {ArtifactCapacity, SceneLimit} \subseteq Nat \ {0} /\ NativeWork \in BOOLEAN

VARIABLES
  state,      (* what the four modules hold                                  *)
  mem,        (* what is in guest memory at each place that holds code       *)
  progress,   (* history: how far each tier came since the last break        *)
  dirty       (* history: the field was written under a producer entry       *)

vars == <<state, mem, progress, dirty>>

NoVariant == [phase |-> "NONE", scene |-> 0]

(* active .. proof are those of xg_render_auth_runtime.c, phase and tier of  *)
(* the transaction, the tier while it matters; pending and authorities are   *)
(* the local producers'.  dispatched says that a candidate was matched and   *)
(* dispatched.  A producer or an authority is the scene it was won in, 0 for *)
(* none.  Cold hooks that are off do not come.                               *)
Started ==
  [active |-> FALSE, armed |-> TRUE, completed |-> FALSE,
   scene |-> 1, candidate |-> None, sequence |-> None,
   dispatched |-> FALSE, producer |-> 0, artifacts |-> {}, proof |-> None,
   phase |-> "IDLE", tier |-> None, variant |-> NoVariant,
   pending |-> None, authorities |-> [k \in Kinds |-> 0]]

Init ==
  /\ state = Started
  /\ mem = [p \in CodePlaces |-> IF p \in FieldPlaces THEN Field ELSE Junk]
  /\ progress = [t \in Tiers |-> 0]
  /\ dirty = FALSE

---------------------------------------------------------------------------
(* Local producers.                                                          *)
ClearPending(s) == [s EXCEPT !.pending = None]
LocalClear(s) == [s EXCEPT !.pending = None, !.authorities = [k \in Kinds |-> 0]]
LocalClearKind(s, k) ==
  [s EXCEPT !.authorities[k] = 0,
            !.pending = IF @ # None /\ @.kind = k THEN None ELSE @]

(* A write takes away the lifecycle and every authority it overlaps.         *)
LocalInvalidatePending(s, range) ==  (* broken variant *)
  [s EXCEPT !.pending = IF @ # None /\ @.kind \in range THEN None ELSE @]
LocalInvalidate(s, range) ==
  [s EXCEPT !.pending = IF @ # None /\ @.kind \in range THEN None ELSE @,
            !.authorities = [k \in Kinds |-> IF k \in range THEN 0 ELSE @[k]]]

(* The lifecycle is of this kind's code range and of this scene.             *)
PendingIs(s, k) ==
  s.pending # None /\ s.pending.kind = k /\ s.pending.scene = s.scene

LocalAuthorizes(s, p) == p \in Kinds /\ s.authorities[p] = s.scene
PendingAuthorizes(s, p) == s.pending # None /\ s.pending.kind = p

---------------------------------------------------------------------------
(* Authenticated artifacts.  A record of static text stands for one range of *)
(* the field image that the host compiled; the host says whether it still    *)
(* is what it compiled.                                                      *)
Current(s, r) == r.scene = s.scene
Authorizes(s, r, p) ==
  Current(s, r) /\ p \in r.range /\ (r.static => mem[p] = Field)
ArtifactAt(s, p) == \E r \in s.artifacts : Authorizes(s, r, p)

RemoveArtifacts(s, gone) ==
  [s EXCEPT !.artifacts = @ \ gone, !.producer = IF gone = {} THEN @ ELSE 0]
Overlapping(s, range) == {r \in s.artifacts : r.range \cap range # {}}
InvalidateAuthority(s) == [s EXCEPT !.artifacts = {}, !.producer = 0]

(* A candidate that is no artifact removes what it is dispatched in; one     *)
(* that is known stays, and a new one replaces what it overlaps.             *)
NoteArtifact(s, c, at) ==
  LET record == [art |-> c, range |-> Extent[c], code |-> Code[c],
                 static |-> FALSE, scene |-> s.scene]
      cleared == RemoveArtifacts(s, Overlapping(s, Extent[c]))
  IN IF c \notin Eligible THEN RemoveArtifacts(s, Overlapping(s, {at}))
     ELSE IF record \in s.artifacts THEN s
     ELSE IF Cardinality(cleared.artifacts) = ArtifactCapacity THEN cleared
     ELSE [cleared EXCEPT !.artifacts = @ \cup {record}]

---------------------------------------------------------------------------
(* Giving up.                                                                *)
VariantReset(s) == [s EXCEPT !.variant = NoVariant]
UnderWay == {"ENTRY", "CAPTURE", "RETURN", "FINALIZED"}

(* With native work the unused whole-scene protocol fails in silence.        *)
Disarm(s) ==
  [(IF NativeWork THEN s ELSE VariantReset(s)) EXCEPT
     !.active = FALSE, !.armed = FALSE, !.completed = FALSE,
     !.candidate = None, !.sequence = None]

(* The first rejection of an active scene blocks the completed proof; it is  *)
(* the first, because it ends the scene.                                     *)
AbortActive(s) ==
  IF ~s.active THEN Disarm(s)
  ELSE Disarm([s EXCEPT
         !.proof = IF @ = None THEN None ELSE [@ EXCEPT !.blocked = TRUE],
         !.phase = IF @ \in UnderWay THEN "REJECTED" ELSE @, !.tier = None])

(* What remains of a scene when its transaction is reset.                    *)
Idle(s) ==
  [s EXCEPT !.phase = "IDLE", !.tier = None, !.active = FALSE, !.armed = TRUE,
            !.completed = FALSE]
RetireProof(s) ==
  IF ~s.completed THEN s
  ELSE VariantReset([Idle(s) EXCEPT !.candidate = None, !.sequence = None,
                                    !.dispatched = FALSE])

---------------------------------------------------------------------------
(* The hooks that the code tells apart: what belongs at a site, a hook that  *)
(* belongs elsewhere, and hooks outside of the field's image.  ok is what    *)
(* the variant finds at its sites, fit what the transaction finds; a hook    *)
(* that fails either way is told from its twin in the other tier by nothing. *)
Canonical == {<<"ENTRY", "entry">>, <<"CAPTURE", "capture">>, <<"RETURN", "return">>}
OfVariant ==
  {<<"CAPTURE", "activate">>, <<"ENTRY", "ventry">>, <<"CAPTURE", "vcapture">>,
   <<"ENTRY", "vreturn">>, <<"RETURN", "vreturn">>}
Hooks ==
  {h \in [hook : {"ENTRY", "CAPTURE", "RETURN", "FOREIGN"},
          site : {"entry", "capture", "return", "outside",
                  "activate", "ventry", "vcapture", "vreturn"},
          tier : Tiers, ok : BOOLEAN, fit : {"fit", "inexact", "unable"}] :
     LET at == <<h.hook, h.site>>
     IN /\ at \in Canonical \cup OfVariant \cup
                  {<<"ENTRY", "vcapture">>, <<"CAPTURE", "ventry">>,
                   <<"ENTRY", "outside">>, <<"FOREIGN", "outside">>,
                   <<"FOREIGN", "entry">>}
        /\ ~h.ok => at \in OfVariant /\ h.fit = "fit" /\ h.tier = "cold"
        /\ h.fit # "fit" => at \in Canonical \cup OfVariant /\ h.site # "activate"
        /\ h.fit = "unable" => h.site \in {"entry", "ventry"} /\ h.tier = "cold"}

(* The transaction.  The bridge or the identities may refuse a scene; a hook *)
(* of another stage or tier than expected, or not exact, rejects it.         *)
BeginScene(s, able) ==
  LET begun == IF s.active THEN Idle(s)
               ELSE [s EXCEPT !.armed = TRUE, !.completed = FALSE]
  IN IF able /\ begun.phase \in {"IDLE", "REJECTED"}
     THEN [begun EXCEPT !.phase = "ENTRY", !.active = TRUE]
     ELSE AbortActive(begun)

AcceptsAnyTier(s, h, phase) ==  (* broken variant *)
  s.phase = phase /\ h.fit = "fit"
Accepts(s, h, phase) == s.phase = phase /\ s.tier = h.tier /\ h.fit = "fit"

ObserveEntry(s, h, matched) ==
  LET warm == h.tier = "warm"
      begun == BeginScene([s EXCEPT !.candidate = None, !.dispatched = FALSE],
                          h.fit # "unable")
  IN IF warm /\ ~matched THEN AbortActive(begun)
     ELSE IF ~begun.active THEN begun
     ELSE IF h.fit = "fit"
     THEN [begun EXCEPT !.phase = "CAPTURE", !.tier = h.tier, !.dispatched = warm]
     ELSE AbortActive(begun)

ObserveCapture(s, h) ==
  IF ~s.active THEN s
  ELSE IF Accepts(s, h, "CAPTURE") THEN [s EXCEPT !.phase = "RETURN"]
  ELSE AbortActive(s)

(* publish_completed_proof: a warm one needs its candidate dispatched.       *)
Publish(s, h) ==
  IF h.tier = "cold" \/ s.dispatched
  THEN [s EXCEPT !.proof = [tier |-> h.tier, scene |-> s.scene, blocked |-> FALSE]]
  ELSE s
ObserveReturn(s, h) ==
  IF ~s.active THEN s
  ELSE IF Accepts(s, h, "RETURN")
       THEN Publish([s EXCEPT !.phase = "FINALIZED", !.completed = TRUE,
                              !.tier = None], h)
       ELSE AbortActive(s)

---------------------------------------------------------------------------
(* xg_render_runtime_variant_observe: the event, and the phase it leads to.  *)
Seen(h, hooks, site) == h.hook \in hooks /\ h.site = site
Followed(h) == h.hook # "FOREIGN"
VariantEvent(s, h) ==
  LET phase == s.variant.phase
  IN CASE phase = "NONE" /\ Seen(h, {"CAPTURE"}, "activate") ->
            IF h.ok THEN "ACTIVATED" ELSE "REJECT"
       [] phase = "NONE" /\ ~Seen(h, {"CAPTURE"}, "activate") -> "IGNORE"
       [] phase # "NONE" /\ s.variant.scene # s.scene -> "REJECT"
       [] OTHER ->
          CASE phase = "ENTRY" /\ Seen(h, {"ENTRY"}, "ventry") /\ h.ok -> "ENTRY"
            [] phase = "CAPTURE" /\ Seen(h, {"ENTRY"}, "vcapture") -> "CONSUMED"
            [] phase = "CAPTURE" /\ Seen(h, {"CAPTURE"}, "vcapture") /\ h.ok ->
                 "CAPTURE"
            [] phase = "CAPTURE" /\ Followed(h) /\ h.site # "vcapture"
                 /\ ~Seen(h, {"ENTRY"}, "ventry")
                 /\ ~Seen(h, {"RETURN"}, "vreturn") -> "CONSUMED"
            [] phase = "RETURN" /\ Seen(h, {"ENTRY", "RETURN"}, "vreturn") /\ h.ok ->
                 "RETURN"
            [] phase \in {"ENTRY", "RETURN"} /\ Followed(h) /\ h.site = "outside" ->
                 "CONSUMED"
            [] OTHER -> "REJECT"
VariantAfter(s, event) ==
  CASE event = "ACTIVATED" -> [phase |-> "ENTRY", scene |-> s.scene]
    [] event = "ENTRY" -> [s.variant EXCEPT !.phase = "CAPTURE"]
    [] event = "CAPTURE" -> [s.variant EXCEPT !.phase = "RETURN"]
    [] event = "REJECT" -> NoVariant
    [] OTHER -> s.variant

---------------------------------------------------------------------------
(* observe_hook.                                                             *)
CandidateIs(s, c) ==
  s.candidate # None /\ s.candidate.scene = s.scene /\ s.candidate.art = c
CandidateEnters(s, c) == CandidateIs(s, c) /\ s.candidate.entry

SequenceIs(s, h) == s.sequence # None /\ s.sequence.tier = h.tier

Activated(s) ==
  LET t == [s EXCEPT !.sequence = None, !.armed = @ \/ ~s.active]
  IN IF ~t.armed \/ (t.active /\ ~t.completed /\ t.phase # "CAPTURE")
     THEN AbortActive(t) ELSE t
VariantEntry(s, h) ==
  ObserveEntry([s EXCEPT !.sequence = [tier |-> h.tier, ready |-> FALSE]],
               h, h.tier = "cold" \/ CandidateEnters(s, Field))
VariantCapture(s, h) ==
  IF SequenceIs(s, h)
  THEN ObserveCapture([s EXCEPT !.sequence.ready = TRUE], h) ELSE AbortActive(s)
VariantReturn(s, h) ==
  IF SequenceIs(s, h) /\ s.sequence.ready
  THEN LET t == ObserveReturn(s, h)
       IN VariantReset([t EXCEPT !.sequence = None,
                                 !.producer = IF t.completed THEN t.scene ELSE @])
  ELSE AbortActive(s)

CanonicalHook(s, h) ==
  CASE Seen(h, {"ENTRY"}, "entry") ->
         IF h.tier = "warm" /\ ~CandidateEnters(s, Canon) /\ CandidateIs(s, Field)
         THEN s ELSE ObserveEntry(s, h, CandidateEnters(s, Canon))
    [] Seen(h, {"CAPTURE"}, "capture") -> ObserveCapture(s, h)
    [] Seen(h, {"RETURN"}, "return") -> ObserveReturn(s, h)
    [] h.hook = "FOREIGN" /\ h.site # "outside" -> AbortActive(s)
    [] OTHER -> s

(* A warm hook that is not the entry the candidate is for uses it up.        *)
DropCandidate(s, h, event) ==
  IF h.tier = "warm" /\ s.sequence = None /\ event \notin {"ACTIVATED", "ENTRY"}
     /\ ~Seen(h, {"ENTRY"}, "entry")
  THEN [s EXCEPT !.candidate = None] ELSE s

ObserveHook(s, h) ==
  LET event == VariantEvent(s, h)
      t == DropCandidate([s EXCEPT !.variant = VariantAfter(s, event)], h, event)
  IN CASE event = "CONSUMED" -> s
       [] event = "ACTIVATED" -> Activated(t)
       [] event = "REJECT" -> AbortActive(t)
       [] event = "ENTRY" -> VariantEntry(t, h)
       [] event = "CAPTURE" -> VariantCapture(t, h)
       [] event = "RETURN" -> VariantReturn(t, h)
       [] event = "IGNORE" -> CanonicalHook(t, h)

(* What the guest did, for the history of the tier that saw it: an entry,    *)
(* then a capture.  Code that did not activate the variant may pass its      *)
(* entry in the middle of something else; a proof uses the history up.       *)
Broken == [t \in Tiers |-> 0]
Entered(h) == Seen(h, {"ENTRY"}, "entry") \/ Seen(h, {"ENTRY"}, "ventry")
Captured(h) == Seen(h, {"CAPTURE"}, "capture") \/ Seen(h, {"CAPTURE"}, "vcapture")
Stray(h) == h.site = "ventry" /\ state.variant.phase # "ENTRY"
Completes ==
  state'.proof # None /\ ~state'.proof.blocked /\ ~state.completed /\ state'.completed
Advanced(h) ==
  IF Completes \/ (h.hook = "FOREIGN" /\ h.site # "outside") THEN Broken
  ELSE IF h.ok /\ h.fit = "fit" /\ Entered(h) /\ ~(Stray(h) /\ progress[h.tier] = 2)
  THEN [progress EXCEPT ![h.tier] = 1]
  ELSE IF h.ok /\ h.fit = "fit" /\ Captured(h) /\ progress[h.tier] = 1
  THEN [progress EXCEPT ![h.tier] = 2]
  ELSE progress

Hook ==
  \E h \in Hooks :
    /\ state' = ObserveHook(state, h)
    /\ progress' = Advanced(h)
    /\ dirty' = (dirty /\ ~Completes)
    /\ UNCHANGED mem

---------------------------------------------------------------------------
(* A lifecycle of a local producer: begin hashes the code range, each writer *)
(* and the commit must follow in the same scene.  The handlers may refuse.   *)
Quiet == UNCHANGED <<mem, progress, dirty>>

LocalBegin(k) ==
  /\ state' =
       IF k \in ZoomKinds /\ ArtifactAt(state, k) THEN LocalClearKind(state, k)
       ELSE ClearPending(state)
  /\ Quiet
LocalBegins(k) ==
  /\ ~(k \in ZoomKinds /\ ArtifactAt(state, k)) /\ mem[k] = Field
  /\ state' = [state EXCEPT
                 !.pending = [kind |-> k, scene |-> state.scene, writers |-> 0]]
  /\ Quiet

MayWrite(k) == PendingIs(state, k) /\ state.pending.writers < WriterCount[k]
LocalWriter(k) ==
  /\ MayWrite(k)
  /\ state' = [state EXCEPT !.pending.writers = @ + 1]
  /\ Quiet
MayCommit(k) == PendingIs(state, k) /\ state.pending.writers = WriterCount[k]
LocalCommit(k) ==
  /\ MayCommit(k)
  /\ state' = [ClearPending(state) EXCEPT !.authorities[k] = state.scene]
  /\ Quiet

(* A writer or a commit that does not fit, or whose handler refuses, ends    *)
(* the lifecycle, also another kind's; a commit that is refused ends the     *)
(* authority of the kind as well.                                            *)
LocalReject(k) ==
  /\ \/ state' = ClearPending(state)
     \/ MayCommit(k) /\ state' = LocalClearKind(state, k)
  /\ Quiet

---------------------------------------------------------------------------
(* The guest writes memory: it loads an image or changes a place, code or    *)
(* data.  The runtime reports the write before anything else runs.           *)
Writes ==
  {[range |-> Extent[c], image |-> c] : c \in Artifacts}
  \cup {[range |-> {p}, image |-> Junk] : p \in Places}

Watched(range) == range \cap DescriptorPlaces # {}
AuthenticationMutation(range) == Watched(range) \/ "canon" \in range
ArtifactMutation(s, range) ==
  \E r \in s.artifacts : Current(s, r) /\ r.code \cap range # {}

(* The authority goes first, then the modules hear of the write.             *)
WriteDispatched(s, range) ==
  LET s1 == IF AuthenticationMutation(range) THEN InvalidateAuthority(s)
            ELSE IF ArtifactMutation(s, range)
            THEN RemoveArtifacts(s, Overlapping(s, range)) ELSE s
      s2 == IF Watched(range) THEN LocalInvalidate(s1, range) ELSE s1
  IN IF Watched(range) \/ s.completed THEN VariantReset(s2) ELSE s2

(* Then the transaction: a completed one is retired, one under way aborted.  *)
NoteCodeWrite(s, range) ==
  LET t == WriteDispatched(s, range)
  IN IF t.completed THEN RetireProof(t)
     ELSE IF t.active /\ AuthenticationMutation(range) THEN AbortActive(t)
     ELSE IF t.active \/ ~Watched(range) THEN t
     ELSE IF t.sequence # None THEN AbortActive(BeginScene(t, TRUE))
     ELSE [t EXCEPT !.candidate = None]

CodeWrite ==
  \E w \in Writes :
    /\ state' = NoteCodeWrite(state, w.range)
    /\ mem' = [p \in CodePlaces |-> IF p \in w.range THEN w.image ELSE mem[p]]
    /\ progress' = IF AuthenticationMutation(w.range) THEN Broken ELSE progress
    /\ dirty' = (state'.producer = state'.scene
                   /\ (dirty \/ AuthenticationMutation(w.range)))

---------------------------------------------------------------------------
(* The loader finds that the code at p is not what it compiled.              *)
NoteMismatch(s, p) ==
  LET s1 == IF ArtifactAt(s, p) THEN RemoveArtifacts(s, Overlapping(s, {p}))
            ELSE IF p \in FieldPlaces THEN InvalidateAuthority(s) ELSE s
      s2 == VariantReset(LocalClear(s1))
  IN IF ~(p \in FieldPlaces \/ ArtifactAt(s, p) \/ LocalAuthorizes(s, p)
          \/ PendingAuthorizes(s, p))
     THEN s
     ELSE IF s2.active \/ s2.completed THEN AbortActive(s2)
     ELSE [s2 EXCEPT !.candidate = None, !.sequence = None]
LoaderMismatch ==
  \E p \in Places :
    /\ state' = NoteMismatch(state, p)
    /\ progress' = IF p \in FieldPlaces THEN Broken ELSE progress
    /\ UNCHANGED <<mem, dirty>>

(* Compiled code was entered in the middle, in the field or in its producer. *)
BadEntry ==
  /\ state' = AbortActive(state) /\ progress' = Broken /\ UNCHANGED <<mem, dirty>>

---------------------------------------------------------------------------
(* The runtime is about to run compiled code: it has compared the image with *)
(* memory, and reports where it enters it.                                   *)
NoteDispatch(s, c, at) ==
  LET noted == [NoteArtifact(s, c, at) EXCEPT !.candidate = None]
      retired == RetireProof(noted)
  IN IF ~noted.armed THEN noted
     ELSE IF retired.active \/ ~(c = Field \/ (c = Canon /\ at = "canon"))
     THEN retired
     ELSE [retired EXCEPT !.candidate = [art |-> c, scene |-> s.scene,
             entry |-> at = (IF c = Field THEN "variant" ELSE "canon")]]
NoteCandidate ==
  /\ \E c \in Artifacts : \E at \in Code[c] :
       /\ \A p \in Code[c] : mem[p] = c
       /\ state' \in {NoteArtifact(state, c, at), NoteDispatch(state, c, at)}
  /\ Quiet

(* A cutover with no artifact asks for the static text it was compiled from. *)
StaticAuthority(k) ==
  /\ ~ArtifactAt(state, k) /\ mem[k] = Field
  /\ Cardinality(state.artifacts) < ArtifactCapacity
  /\ state' = [state EXCEPT !.artifacts = @ \cup
       {[art |-> Field, range |-> {k}, code |-> {k}, static |-> TRUE,
         scene |-> state.scene]}]
  /\ Quiet

---------------------------------------------------------------------------
SceneBoundary ==
  /\ state.scene < SceneLimit
  /\ state' = VariantReset(LocalClear(
       [Idle(InvalidateAuthority(state)) EXCEPT
          !.scene = @ + 1, !.candidate = None, !.sequence = None,
          !.dispatched = FALSE]))
  /\ progress' = Broken
  /\ UNCHANGED <<mem, dirty>>

(* Everything starts anew.                                                   *)
Reset ==
  /\ state' = Started
  /\ progress' = Broken
  /\ UNCHANGED <<mem, dirty>>

(* Cold hooks are turned off, at first or again; nothing is aborted.         *)
Disable == state' = VariantReset(LocalClear(state)) /\ Quiet

Next ==
  \/ Hook \/ CodeWrite \/ LoaderMismatch \/ BadEntry \/ NoteCandidate
  \/ \E k \in Kinds :
       \/ LocalBegin(k) \/ LocalBegins(k) \/ LocalWriter(k) \/ LocalCommit(k)
       \/ LocalReject(k) \/ StaticAuthority(k)
  \/ SceneBoundary \/ Reset \/ Disable

Spec == Init /\ [][Next]_vars

---------------------------------------------------------------------------
TypeOK ==
  /\ state.scene \in 1..SceneLimit
  /\ state.phase \in {"IDLE", "REJECTED"} \cup UnderWay
  /\ state.variant.phase \in {"NONE", "ENTRY", "CAPTURE", "RETURN"}
  /\ state.authorities \in [Kinds -> 0..SceneLimit]
  /\ Cardinality(state.artifacts) <= ArtifactCapacity
  /\ mem \in [CodePlaces -> Artifacts \cup {Junk}]
  /\ progress \in [Tiers -> 0..2] /\ dirty \in BOOLEAN

(* Whoever is told that it may act for the guest's code acts for code that   *)
(* is still in memory: a local producer, from the hash at its begin to the   *)
(* end of its authority; an artifact, wherever it has code; the producer a   *)
(* proof of the variant left behind.  A write, a loader or a scene change    *)
(* in between, whatever else it also disturbs, leaves nobody behind.         *)
AuthorityIsIntact ==
  /\ state.pending # None => mem[state.pending.kind] = Field
  /\ \A k \in Kinds : LocalAuthorizes(state, k) => mem[k] = Field
  /\ \A r \in state.artifacts :
       Current(state, r) => \A p \in r.code : mem[p] = r.art
  /\ state.producer = state.scene => ~dirty

(* A proof is completed only for an execution that one tier saw whole: its   *)
(* entry, its capture and its return in order and exact, with no write to    *)
(* the code it is about, no mismatch, no entry in the middle and no scene    *)
(* change between them, however the hooks of the other tier, of the other    *)
(* image and of aborted attempts are mixed in.                               *)
ProofIsUnbroken == [][Completes => progress[state'.proof.tier] = 2]_vars
=============================================================================
