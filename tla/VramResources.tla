--------------------------- MODULE VramResources ---------------------------
(***************************************************************************)
(* The canonical VRAM journal and the VRAM resource registry.              *)
(*                                                                         *)
(* The journal shadows the guest's video memory word by word: which words  *)
(* it has observed, what they hold, and which of them came from an         *)
(* authenticated source.  The registry publishes the images and palettes   *)
(* the guest's loaders upload, so that a draw can be resolved to immutable *)
(* bytes.  Every write of the device is noted in both; scene boundaries    *)
(* carry the registry's cache over, and checkpoints save and restore all   *)
(* of it.  The auth runtime drives both under one lock, from one thread,   *)
(* so every handler is a single step; what interleaves is the order in     *)
(* which the guest's loader calls, the device's writes and the lifecycle   *)
(* events arrive.                                                          *)
(***************************************************************************)
EXTENDS Integers, Sequences, FiniteSets

CONSTANTS
  Cells,         \* the words of video memory, by address
  Rects,         \* the rectangles the guest writes and loads
  ResourceKinds, \* the kinds of resource: "texture" and "clut"
  Words,         \* the contents of a word
  Genuine,       \* the contents authenticated sources carry
  ClearWord,     \* the word a fill command writes
  Capacity,      \* slots for publications, for cached ones and for staged ones
  SeqLimit,      \* bound on the publication sequence
  OwedLimit      \* bound on the uploads the device has yet to perform

ASSUME VramAssumption ==
  /\ Cells \subseteq Nat
  /\ Genuine \subseteq Words /\ ClearWord \in Genuine
  /\ \A r \in Rects : r \subseteq Cells /\ r # {}
  /\ Capacity \in Nat \ {0} /\ SeqLimit \in Nat /\ OwedLimit \in Nat

VARIABLES
  vram,        \* the device's memory, which the runtime only hears about
  owed,        \* uploads the loaders issued and the device has not performed
  word,        \* g_authoritative_vram
  observed,    \* g_observed_vram_bits
  auth,        \* g_authoritative_vram_bits
  pubs,        \* g_publications
  cache,       \* g_cached_publications
  staged,      \* g_staged_publications
  loader,      \* g_pending
  next,        \* g_next_sequence
  count,       \* publication_count of the snapshot
  saved,       \* the last checkpoint, with the device memory saved beside it
  preapplied   \* boot_restore_timeline_preapplied

journal  == <<word, observed, auth>>
registry == <<pubs, cache, staged, loader, next, count>>
vramVars     == <<vram, owed, journal, registry, saved, preapplied>>

Absent == [kind |-> "none"]
Slots == 1 .. Capacity
Blank == "blank"

\* The bytes of a rectangle written whole.
Images(r, ws) == {[c \in r |-> w] : w \in ws}

NoLoader == [active |-> FALSE, blocked |-> FALSE, streaming |-> FALSE,
         need |-> Absent, has |-> {}, start |-> 0, strip |-> <<>>]

Occupied(S) == {i \in Slots : S[i] # Absent}
SameRegion(p, q) == p # Absent /\ q # Absent /\ p.kind = q.kind /\ p.rect = q.rect

Lowest(I) == CHOOSE i \in I : \A k \in I : i <= k

Cached(p) == [kind |-> p.kind, rect |-> p.rect, pix |-> p.pix]

\* Entries S go to a table P one after another: an entry whose region has a
\* slot goes there, and each of the others to the first slot left free.
Newcomers(P, S) == {i \in DOMAIN S : \A k \in Slots : ~SameRegion(P[k], S[i])}

Before(I, i) == Cardinality({k \in I : k < i})

GoesTo(P, S, i, s) ==
  \/ SameRegion(P[s], S[i])
  \/ /\ P[s] = Absent /\ i \in Newcomers(P, S)
     /\ Before(Slots \ Occupied(P), s) = Before(Newcomers(P, S), i)

Placed(P, S) ==
  [s \in Slots |-> IF \E i \in DOMAIN S : GoesTo(P, S, i, s)
                   THEN S[CHOOSE i \in DOMAIN S : GoesTo(P, S, i, s)] ELSE P[s]]

NoEntries == [i \in Slots |-> Absent]
Packed(P) == Placed(NoEntries, [i \in Occupied(P) |-> P[i]])

----------------------------------------------------------------------------
(* Lookup: the newest publication that covers the request, unless a newer  *)
(* one of its kind overlaps the request or its resource is not current.    *)

Covering(P, kind, r) ==
  {i \in Occupied(P) : P[i].kind = kind /\ r \subseteq P[i].rect}

LookupIn(P, kind, r) ==
  LET C    == Covering(P, kind, r)
      best == P[CHOOSE i \in C : \A k \in C : P[k].seq <= P[i].seq]
      newer == {i \in Occupied(P) : /\ P[i].kind = kind
                                    /\ P[i].seq > best.seq
                                    /\ P[i].rect \cap r # {}}
  IN  IF C = {} THEN Absent
      ELSE IF newer # {} \/ ~best.live THEN Absent ELSE best

Lookup(kind, r) == LookupIn(pubs, kind, r)

\* A lookup's answer is right when it holds what the device holds.
Right(p, r) == \A c \in r : p.pix[c] = vram[c]

----------------------------------------------------------------------------
VramInit ==
  /\ vram = [c \in Cells |-> ClearWord]
  /\ owed = <<>>
  /\ word = [c \in Cells |-> Blank] /\ observed = {} /\ auth = {}
  /\ pubs = NoEntries /\ cache = NoEntries
  /\ staged = <<>> /\ loader = NoLoader /\ next = 1 /\ count = 0
  /\ saved = Absent /\ preapplied = FALSE

----------------------------------------------------------------------------
(* The loader routes.                                                      *)

\* reject_pending: a refused operation blocks the loader under way.
Blocked == [loader EXCEPT !.blocked = @ \/ loader.active]

\* clear_pending(FALSE): the staged imports are cancelled and their sequence
\* numbers given back.
DropLoader ==
  /\ next' = IF loader.active THEN loader.start ELSE next
  /\ staged' = <<>> /\ loader' = NoLoader

\* xg_render_vram_image_begin, clut_begin, stream_begin and
\* xg_render_vram_resources_begin.
Begin(kind, streaming) ==
  /\ loader' = IF loader.active THEN Blocked
               ELSE [NoLoader EXCEPT !.active = TRUE, !.streaming = streaming,
                                 !.need = kind, !.start = next]
  /\ staged' = IF loader.active THEN staged ELSE <<>>
  /\ UNCHANGED <<vram, owed, journal, pubs, cache, next, count, saved, preapplied>>

\* The place of a region among the staged ones: its own, or a new one at the
\* end; 0 when the table is full.
StagedSlot(kind, r) ==
  LET held == {i \in DOMAIN staged :
                 staged[i].kind = kind /\ staged[i].rect = r}
  IN  IF held # {} THEN Lowest(held)
      ELSE IF Len(staged) < Capacity THEN Len(staged) + 1 ELSE 0

StageAdmitted(kind, r) ==
  loader.active /\ ~loader.blocked /\ StagedSlot(kind, r) # 0

\* A current publication that already holds exactly these bytes.
Holding(kind, r, pix) ==
  {i \in Occupied(pubs) : /\ pubs[i].live /\ pubs[i].kind = kind
                          /\ pubs[i].rect = r /\ pubs[i].pix = pix}

\* A staged publication.  When its bytes and provenance (same) are those of a
\* current one, xg_render_resource_import_begin hands out that one's handle.
NewPub(kind, r, pix, same) ==
  [kind |-> kind, rect |-> r, pix |-> pix, seq |-> next, live |-> TRUE,
   shared |-> same /\ Holding(kind, r, pix) # {}]

\* The staged table after stage_upload: a live entry with the same bytes is
\* staged again under its own handle.
StagedWith(kind, r, pix, same) ==
  LET s == StagedSlot(kind, r)
  IN  IF s > Len(staged) THEN Append(staged, NewPub(kind, r, pix, same))
      ELSE IF staged[s].pix = pix /\ staged[s].live
      THEN [staged EXCEPT ![s].seq = next]
      ELSE [staged EXCEPT ![s] = NewPub(kind, r, pix, same)]

\* The guest's own call proceeds to the device whatever the route made of it.
Owe(r, pix) == Len(owed) < OwedLimit /\ owed' = Append(owed, [rect |-> r, pix |-> pix])

\* xg_render_vram_resources_upload and upload_region: a loader's image is
\* staged, or refused (a stream loader, a full table, a failed import).
Upload(kind, r, pix, same, ok) ==
  /\ loader.active /\ next < SeqLimit
  /\ Owe(r, pix)
  /\ IF ok /\ ~loader.streaming /\ StageAdmitted(kind, r)
     THEN /\ staged' = StagedWith(kind, r, pix, same)
          /\ loader' = [loader EXCEPT !.has = @ \cup {kind}]
          /\ next' = next + 1
     ELSE loader' = Blocked /\ UNCHANGED <<staged, next>>
  /\ UNCHANGED <<vram, journal, pubs, cache, count, saved, preapplied>>

\* Strips of a stream are stacked, each under the one before.
Follows(r) ==
  \/ loader.strip = <<>>
  \/ /\ r \cap loader.strip[1].rect = {}
     /\ r \cup loader.strip[1].rect \in Rects
     /\ \A a \in loader.strip[1].rect, b \in r : a < b

Joined(r, pix) ==
  IF loader.strip = <<>> THEN [rect |-> r, pix |-> pix]
  ELSE [rect |-> r \cup loader.strip[1].rect,
        pix  |-> [c \in r \cup loader.strip[1].rect |->
                    IF c \in r THEN pix[c] ELSE loader.strip[1].pix[c]]]

\* xg_render_vram_stream_upload
StreamUpload(r, pix) ==
  /\ loader.active /\ next < SeqLimit
  /\ Owe(r, pix)
  /\ loader' = IF loader.streaming /\ ~loader.blocked /\ Follows(r)
               THEN [loader EXCEPT !.strip = <<Joined(r, pix)>>]
               ELSE Blocked
  /\ UNCHANGED <<vram, journal, pubs, cache, staged, next, count, saved, preapplied>>

----------------------------------------------------------------------------
(* Commit.                                                                 *)

Room(P) == Cardinality(Slots \ Occupied(P))

\* Every staged region has a slot: its own or a free one.
Fits(P, S) == Cardinality(Newcomers(P, S)) <= Room(P)

\* What a staged publication becomes.
Public(p) == [kind |-> p.kind, rect |-> p.rect, pix |-> p.pix,
              seq |-> p.seq, live |-> TRUE]

PlaceAll(P, S) == Placed(P, [i \in DOMAIN S |-> Public(S[i])])

\* cache_publication for each: without a slot, it is not cached.
CacheAll(C, S) == Placed(C, [i \in DOMAIN S |-> Cached(S[i])])

\* xg_render_vram_journal_authenticate_rect for each staged region: words the
\* journal observed with exactly these bytes become authoritative.
Authenticated(S) ==
  auth \cup UNION {S[i].rect : i \in {k \in DOMAIN S :
     \A c \in S[k].rect : c \in observed /\ word[c] = S[k].pix[c]}}

\* xg_render_resource_import_commit_many refuses a handle that was retired.
Committable(S) == Fits(pubs, S) /\ \A i \in DOMAIN S : S[i].live

\* Publications the commit counts: all but those whose slot already holds the
\* same handle.
Counted(S) == Cardinality({i \in DOMAIN S : ~S[i].shared})

\* The tail of xg_render_vram_resources_commit for the staged table S.
Published(S, ok) ==
  IF ok /\ Committable(S)
  THEN /\ pubs' = PlaceAll(pubs, S) /\ cache' = CacheAll(cache, S)
       /\ auth' = Authenticated(S) /\ count' = count + Counted(S)
       /\ staged' = <<>> /\ loader' = NoLoader
  ELSE DropLoader /\ UNCHANGED <<pubs, cache, auth, count>>

\* xg_render_vram_resources_commit; ok is xg_render_resource_import_commit_many.
Commit(ok) ==
  /\ loader.active
  /\ IF loader.streaming
     THEN loader' = Blocked /\ UNCHANGED <<pubs, cache, auth, staged, next, count>>
     ELSE IF loader.blocked \/ loader.need \notin loader.has
     THEN DropLoader /\ UNCHANGED <<pubs, cache, auth, count>>
     ELSE /\ Published(staged, ok)
          /\ (ok /\ Committable(staged)) => UNCHANGED next
  /\ UNCHANGED <<vram, owed, word, observed, saved, preapplied>>

\* xg_render_vram_resources_commit_optional: a loader that loaded nothing ends
\* without a complaint.
CommitOptional ==
  /\ loader.active /\ ~loader.streaming /\ ~loader.blocked /\ staged = <<>>
  /\ DropLoader
  /\ UNCHANGED <<vram, owed, journal, pubs, cache, count, saved, preapplied>>

\* xg_render_vram_stream_finish: the strips are staged as one region, which is
\* committed at once.
StreamFinish(same, ok) ==
  /\ loader.active /\ next < SeqLimit
  /\ IF loader.streaming /\ ~loader.blocked /\ loader.strip # <<>>
     THEN LET s == loader.strip[1]
              S == <<NewPub(loader.need, s.rect, s.pix, same)>>
          IN  /\ Published(S, ok)
              /\ (ok /\ Committable(S)) => next' = next + 1
     ELSE DropLoader /\ UNCHANGED <<pubs, cache, auth, count>>
  /\ UNCHANGED <<vram, owed, word, observed, saved, preapplied>>

\* vram_resource_route_transaction_abort: the loader is poisoned and drained.
Abort ==
  /\ loader.active
  /\ DropLoader
  /\ UNCHANGED <<vram, owed, journal, pubs, cache, count, saved, preapplied>>

----------------------------------------------------------------------------
(* Device writes: psx_xg_render_auth_note_vram_event.                      *)

\* apply_authoritative_payload with the whole payload.
JournalWrite(r, pix, genuine) ==
  /\ word' = [c \in Cells |-> IF c \in r THEN pix[c] ELSE word[c]]
  /\ observed' = observed \cup r
  /\ auth' = IF genuine THEN auth \cup r ELSE auth \ r

\* Broken variant: a transfer that carries no words leaves the journal alone.
JournalForgetNothing(r) == UNCHANGED journal

\* The same without a payload (xg_render_vram_publish_digest): the words are
\* unobserved, and nothing reads what an unobserved word holds.
JournalForget(r) ==
  /\ observed' = observed \ r /\ auth' = auth \ r
  /\ word' = [c \in Cells |-> IF c \in r THEN Blank ELSE word[c]]

DeviceWrite(r, pix) == vram' = [c \in Cells |-> IF c \in r THEN pix[c] ELSE vram[c]]

\* Broken variant: any upload of the whole region spares what is there.
SurvivorsByRegion(S, r, pix, exact) ==
  [i \in Slots |->
     IF S[i] # Absent /\ S[i].rect \cap r # {} /\ ~(exact /\ S[i].rect = r)
     THEN Absent ELSE S[i]]

\* xg_render_vram_resources_note_vram_mutation_context: what the write touched
\* goes, unless an upload wrote exactly what is there.
Survivors(S, r, pix, exact) ==
  [i \in Slots |->
     IF /\ S[i] # Absent /\ S[i].rect \cap r # {}
        /\ ~(exact /\ S[i].rect = r /\ S[i].pix = pix)
     THEN Absent ELSE S[i]]

\* Staged handles that were those of the publications in T die with them.
Bereft(T) ==
  [i \in DOMAIN staged |->
     [staged[i] EXCEPT !.live = @ /\ ~(/\ staged[i].shared
                                       /\ \E k \in T : SameRegion(pubs[k], staged[i]))]]

NoteMutation(r, pix, exact) ==
  LET gone == {i \in Occupied(pubs) : Survivors(pubs, r, pix, exact)[i] = Absent}
  IN  /\ pubs' = Survivors(pubs, r, pix, exact)
      /\ cache' = Survivors(cache, r, pix, exact)
      /\ staged' = Bereft(gone)
      /\ count' = IF Cardinality(gone) < count THEN count - Cardinality(gone) ELSE 0

\* vram_upload_matches_authenticated_resource
MatchesPublication(r, pix) ==
  \E kind \in ResourceKinds : LET p == Lookup(kind, r)
                              IN  p # Absent /\ p.rect = r /\ p.pix = pix

UploadEvent(r, pix, mdec) ==
  /\ DeviceWrite(r, pix)
  /\ JournalWrite(r, pix, mdec \/ MatchesPublication(r, pix))
  /\ NoteMutation(r, pix, TRUE)

\* The device performs the oldest upload the loaders issued.
Land ==
  /\ owed # <<>>
  /\ UploadEvent(Head(owed).rect, Head(owed).pix, FALSE)
  /\ owed' = Tail(owed)
  /\ UNCHANGED <<loader, next, saved, preapplied>>

\* Uploads no loader announced; the movie decoder's are authenticated.
GuestUpload(r, pix, mdec) ==
  /\ owed = <<>> /\ (mdec => \A c \in r : pix[c] \in Genuine)
  /\ UploadEvent(r, pix, mdec)
  /\ UNCHANGED <<owed, loader, next, saved, preapplied>>

\* A fill; deterministic_vram_clear holds when the device wrote the colour of
\* the captured command.
Clear(r, captured) ==
  LET pix == [c \in r |-> ClearWord]
  IN  /\ owed = <<>>
      /\ DeviceWrite(r, pix) /\ JournalWrite(r, pix, captured)
      /\ NoteMutation(r, pix, FALSE)
      /\ UNCHANGED <<owed, loader, next, saved, preapplied>>

\* A draw into video memory: its event carries a digest and no words.
RenderTargetWrite(r, pix) ==
  /\ owed = <<>>
  /\ DeviceWrite(r, pix) /\ JournalForget(r)
  /\ NoteMutation(r, pix, FALSE)
  /\ UNCHANGED <<owed, loader, next, saved, preapplied>>

----------------------------------------------------------------------------
(* Moves: note_vram_rect_transfer and apply_authenticated_vram_move.       *)

\* The word of src that lands on cell c of dst.
Shift(src, dst) == Lowest(dst) - Lowest(src)
Movable(src, dst) == dst = {c + Shift(src, dst) : c \in src}

Touched(S, r) == {i \in Occupied(S) : S[i].rect \cap r # {}}

CacheOf(p) == {k \in Slots : SameRegion(cache[k], p)}

\* A publication's bytes with the moved words in place.
Patched(p, r, pix) ==
  [p EXCEPT !.pix = [c \in p.rect |-> IF c \in r THEN pix[c] ELSE p.pix[c]]]

\* Every publication the move touches is current and backed by a cache entry
\* with its bytes (or a free entry), and every cached entry it touches belongs
\* to one of them.
Patchable(r) ==
  LET T     == Touched(pubs, r)
      fresh == {i \in T : CacheOf(pubs[i]) = {}}
  IN  /\ T # {}
      /\ \A i \in T : /\ pubs[i].live
                      /\ \A k \in CacheOf(pubs[i]) : cache[k].pix = pubs[i].pix
      /\ Cardinality(fresh) <= Room(cache)
      /\ \A k \in Touched(cache, r) : \E i \in T : k \in CacheOf(pubs[i])

PatchAll(r, pix) ==
  LET T   == Touched(pubs, r)
      new == [i \in Slots |-> IF i \in T THEN Patched(pubs[i], r, pix) ELSE pubs[i]]
  IN  /\ pubs' = new
      /\ cache' = CacheAll(cache, [i \in T |-> new[i]])
      /\ staged' = Bereft(T) /\ UNCHANGED count

\* The source words are authenticated by the journal, or by a surface of the
\* surface graph that carries exactly them; ok is the capability and imports.
Move(src, dst, captured, surface, ok) ==
  LET pix     == [c \in dst |-> vram[c - Shift(src, dst)]]
      known   == src \subseteq auth /\ \A c \in dst : word[c - Shift(src, dst)] = pix[c]
      genuine == captured /\ (known \/ (surface /\ ~(src \subseteq auth)))
  IN  /\ owed = <<>> /\ src # dst /\ Movable(src, dst)
      /\ surface => \A c \in dst : pix[c] \in Genuine
      /\ DeviceWrite(dst, pix) /\ JournalWrite(dst, pix, genuine)
      /\ IF ok /\ genuine /\ Patchable(dst)
         THEN PatchAll(dst, pix)
         ELSE NoteMutation(dst, pix, FALSE)
      /\ UNCHANGED <<owed, loader, next, saved, preapplied>>

----------------------------------------------------------------------------
(* Lifecycle.                                                              *)

\* xg_render_vram_resources_reset and xg_render_vram_journal_reset.
Cleared ==
  /\ word' = [c \in Cells |-> Blank] /\ observed' = {} /\ auth' = {}
  /\ pubs' = NoEntries /\ cache' = NoEntries
  /\ staged' = <<>> /\ loader' = NoLoader /\ next' = 1 /\ count' = 0

\* timeline_invalidate_locked for a reset, a rollback, a disc change.
TimelineReset == Cleared /\ UNCHANGED <<vram, owed, saved, preapplied>>

\* timeline_invalidate_locked for a scene or artifact change: the repository
\* retires what scenes own, the tables keep their entries.
SceneChange ==
  /\ pubs' = [i \in Slots |-> IF pubs[i] = Absent THEN Absent
                              ELSE [pubs[i] EXCEPT !.live = FALSE]]
  /\ staged' = [i \in DOMAIN staged |-> [staged[i] EXCEPT !.live = FALSE]]
  /\ UNCHANGED <<vram, owed, journal, cache, loader, next, count, saved, preapplied>>

\* The cached publications, staged anew in the order of their slots.
Carried ==
  LET C == Occupied(cache)
  IN  [i \in C |-> [kind |-> cache[i].kind, rect |-> cache[i].rect, pix |-> cache[i].pix,
                    seq |-> 1 + Before(C, i), live |-> TRUE, shared |-> FALSE]]

\* rebind_cached_publications commits them as an image loader does, which must
\* have loaded a texture; ok is the carry capability and the imports.
Rebinds(ok) == ok /\ \E i \in Occupied(cache) : cache[i].kind = "texture"

\* scene_boundary_locked: every publication is retired, every loader dropped,
\* and the cache published again for the new scene.
CarryOver(ok) ==
  /\ pubs' = IF Rebinds(ok) THEN PlaceAll(NoEntries, Carried)
             ELSE NoEntries
  /\ auth' = IF Rebinds(ok) THEN Authenticated(Carried) ELSE auth
  /\ next' = IF Rebinds(ok) THEN Cardinality(DOMAIN Carried) + 1 ELSE 1
  /\ count' = IF Rebinds(ok) THEN Cardinality(DOMAIN Carried) ELSE 0
  /\ staged' = <<>> /\ loader' = NoLoader
  /\ UNCHANGED <<vram, owed, word, observed, cache, saved, preapplied>>

----------------------------------------------------------------------------
(* Checkpoints.                                                            *)

\* psx_xg_render_auth_checkpoint_size and checkpoint_write.
CheckpointWrite ==
  /\ owed = <<>> /\ ~loader.active /\ staged = <<>>
  /\ \A i \in Occupied(pubs) : pubs[i].live
  /\ count = Cardinality(Occupied(pubs))
  /\ saved' = [kind |-> "checkpoint", vram |-> vram, word |-> word,
               observed |-> observed, auth |-> auth, next |-> next,
               pubs |-> Packed(pubs)]
  /\ UNCHANGED <<vram, owed, journal, registry, preapplied>>

\* xg_render_vram_journal_checkpoint_commit and
\* xg_render_vram_resources_checkpoint_commit, in place of whatever the scene
\* boundary before them rebound.
Installed ==
  /\ word' = [c \in Cells |-> IF c \in saved.observed THEN saved.word[c] ELSE Blank]
  /\ observed' = saved.observed /\ auth' = saved.auth
  /\ pubs' = saved.pubs
  /\ cache' = [i \in Slots |-> IF saved.pubs[i] = Absent THEN Absent ELSE Cached(saved.pubs[i])]
  /\ next' = saved.next /\ count' = Cardinality(Occupied(saved.pubs))
  /\ staged' = <<>> /\ loader' = NoLoader

\* psx_xg_render_auth_checkpoint_commit, once the host has put the memory back.
RestoreCheckpoint ==
  /\ saved # Absent /\ vram = saved.vram
  /\ Installed /\ owed' = <<>> /\ saved' = Absent
  /\ UNCHANGED <<vram, preapplied>>

\* psx_xg_render_auth_checkpoint_commit_boot_restore, whose device event comes
\* after it.
BootRestore ==
  /\ saved # Absent
  /\ Installed /\ owed' = <<>> /\ preapplied' = TRUE
  /\ UNCHANGED <<vram, saved>>

\* Broken variant: the event of a boot restore is not recognised.
RestoreEventUnmarked ==
  /\ saved # Absent
  /\ vram' = saved.vram /\ owed' = <<>>
  /\ Cleared
  /\ preapplied' = FALSE /\ saved' = Absent

\* The device's whole memory is replaced (GPU_VRAM_EVENT_RESTORE): the marker
\* of a boot restore is consumed, otherwise nothing known survives.
RestoreEvent ==
  /\ saved # Absent
  /\ vram' = saved.vram /\ owed' = <<>>
  /\ IF preapplied THEN UNCHANGED <<journal, registry>> ELSE Cleared
  /\ preapplied' = FALSE /\ saved' = Absent

----------------------------------------------------------------------------
\* What the guest's loaders carry is authenticated; what it draws is not.
LoaderStep ==
  \/ \E kind \in ResourceKinds, streaming \in BOOLEAN : Begin(kind, streaming)
  \/ \E r \in Rects : \E pix \in Images(r, Genuine), kind \in ResourceKinds, same, ok \in BOOLEAN :
       Upload(kind, r, pix, same, ok)
  \/ \E r \in Rects : \E pix \in Images(r, Genuine) : StreamUpload(r, pix)
  \/ \E ok \in BOOLEAN : Commit(ok)
  \/ CommitOptional
  \/ \E same, ok \in BOOLEAN : StreamFinish(same, ok)
  \/ Abort

DeviceStep ==
  \/ Land
  \/ \E r \in Rects : \E pix \in Images(r, Words), mdec \in BOOLEAN : GuestUpload(r, pix, mdec)
  \/ \E r \in Rects, captured \in BOOLEAN : Clear(r, captured)
  \/ \E r \in Rects : \E pix \in Images(r, Words \ Genuine) : RenderTargetWrite(r, pix)
MoveStep ==
  \E src, dst \in Rects, captured, surface, ok \in BOOLEAN :
    Move(src, dst, captured, surface, ok)

LifecycleStep ==
  \/ SceneChange
  \/ \E ok \in BOOLEAN : CarryOver(ok)
  \/ CheckpointWrite

\* A restore replaces everything the model keeps but the memory, so a bound:
\* while a checkpoint waits to be restored only the device writes, without
\* moves, or all is reset.  The host raises the event of a boot restore before anything else.
VramNext ==
  \/ saved = Absent /\ (LoaderStep \/ LifecycleStep \/ MoveStep)
  \/ ~preapplied /\ (DeviceStep \/ TimelineReset \/ RestoreCheckpoint \/ BootRestore)
  \/ RestoreEvent

VramSpec == VramInit /\ [][VramNext]_vramVars

----------------------------------------------------------------------------
(* Properties.                                                             *)

Pubs(r) == [kind : ResourceKinds, rect : {r}, pix : [r -> Words], seq : Nat, live : BOOLEAN]

\* Types; a publication has one word for each cell of its rectangle.
VramTypeOK ==
  /\ vram \in [Cells -> Words] /\ word \in [Cells -> Words \cup {Blank}]
  /\ observed \subseteq Cells /\ auth \subseteq Cells
  /\ \A i \in Slots : pubs[i] = Absent \/ \E r \in Rects : pubs[i] \in Pubs(r)
  /\ count \in Nat /\ next \in Nat /\ preapplied \in BOOLEAN

\* Types, and that a lookup has one answer: no region is published or cached
\* twice, and no two publications have the same place in the order, nor has any
\* the place the next one will take.
RegistryShape ==
  /\ VramTypeOK
  /\ \A i, k \in Slots : i # k =>
       /\ ~SameRegion(pubs[i], pubs[k]) /\ ~SameRegion(cache[i], cache[k])
       /\ pubs[i] # Absent => /\ pubs[i].seq < next
                              /\ pubs[k] # Absent => pubs[i].seq # pubs[k].seq

\* The journal never contradicts the device: every word it has observed is the
\* word in video memory, through uploads, moves, draws that carry no words,
\* resets and restores; and authority is earned: an authoritative word was
\* observed and holds what some authenticated source carries.
JournalTrue ==
  ~preapplied =>
    /\ \A c \in observed : word[c] = vram[c]
    /\ auth \subseteq observed /\ \A c \in auth : word[c] \in Genuine

\* What is right stays right: no write of the device leaves a publication
\* answering a lookup with words the write replaced, nor a cached copy that a
\* scene boundary would publish again.
AnswersKeep ==
  [][vram' # vram /\ ~preapplied =>
       /\ \A kind \in ResourceKinds, r \in Rects :
            LET p == Lookup(kind, r)
                q == Lookup(kind, r)'
            IN  (/\ p # Absent /\ Right(p, r) /\ q # Absent
                 /\ q.seq = p.seq /\ q.rect = p.rect)
                => \A c \in r : q.pix[c] = vram'[c]
       /\ \A i \in Slots :
            (SameRegion(cache[i], cache'[i]) /\ Right(cache[i], cache[i].rect))
            => \A c \in cache[i].rect : cache'[i].pix[c] = vram'[c]]_vramVars

\* A boot restore brings back what was saved: when its device event has been
\* consumed, the journal and every lookup answer as they did at the checkpoint.
RestoreRoundTrip ==
  [][preapplied /\ ~preapplied' =>
       /\ observed' = saved.observed /\ auth' = saved.auth
       /\ \A c \in saved.observed : word'[c] = saved.vram[c]
       /\ \A kind \in ResourceKinds, r \in Rects :
            LET p == LookupIn(saved.pubs, kind, r)
                q == Lookup(kind, r)'
            IN  p # Absent => q # Absent /\ p.pix = q.pix]_vramVars

\* publication_count counts the publications.
CountIsExact == count = Cardinality(Occupied(pubs))

\* Draw resolution observes one order of mutations: with no loader under way and
\* no upload outstanding, an answer holds what the device holds.
OneMutationOrder ==
  (~loader.active /\ owed = <<>> /\ ~preapplied) =>
    \A kind \in ResourceKinds, r \in Rects :
      Lookup(kind, r) # Absent => Right(Lookup(kind, r), r)
=============================================================================
