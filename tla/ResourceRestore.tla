-------------------------- MODULE ResourceRestore --------------------------
(***************************************************************************)
(* Restoring a checkpoint over the resource repository                     *)
(* (psx_xg_render_auth_checkpoint_prepare, _commit and _cancel in          *)
(* xg_render_auth_runtime.c, with the repository's restore operations).    *)
(*                                                                         *)
(* Prepare takes every risk first: it reserves authority and a private     *)
(* generation for each saved resource.  Commit then crosses a scene        *)
(* boundary, which clears the old scene but must pass over what is         *)
(* reserved, makes the authority live for the new scene and installs the   *)
(* reservations one by one.  Cancel gives everything back.  The guest      *)
(* thread does nothing else meanwhile; the other holders go on taking and  *)
(* returning references between any two calls.  Each section of a          *)
(* checkpoint restores its resources in the same way; here the order in    *)
(* which resources are prepared is left open.                              *)
(***************************************************************************)
EXTENDS ResourceRepository

VARIABLES
  saved,     (* the checkpoint: one record per saved resource               *)
  restore,   (* the restore under way: phase, authority, reservations, rest  *)
  direct     (* history: the entries that were imported without a commit     *)

restoreVars == <<saved, restore>>
allVars == <<vars, restoreVars, direct>>

(* phase: idle, prepare, boot, commit, install or cancel; caps: the          *)
(* authority reserved for a saved resource; handles: its reserved            *)
(* generation; left: the reservations still to be installed.                 *)
Idle == [phase |-> "idle", caps |-> <<>>, handles |-> <<>>, left |-> {}]

RestoreInit == Init /\ saved = {} /\ restore = Idle /\ direct = {}

----------------------------------------------------------------------------
(* A saved resource: its import, with the capability id and the owner of     *)
(* then, and the receipt of that capability (the rest of the key follows).   *)
SavedOf(g) ==
  [import |-> entries[g].import,
   receipt |-> IF entries[g].import.cap = NoCap THEN NoCap
               ELSE caps[entries[g].import.cap].receipt]

Currents == {g \in DOMAIN entries : entries[g].current}

(* checkpoint_write, of what is current and authorised; one checkpoint.      *)
Save ==
  /\ restore.phase = "idle" /\ saved = {} /\ Currents # {}
  /\ \A g \in Currents : CapabilityMatches(entries[g].import.cap,
                                           entries[g].import.owner, FALSE)
  /\ saved' = {SavedOf(g) : g \in Currents}
  /\ UNCHANGED <<vars, restore>>

(* What is restored belongs to the scene that the commit will open.          *)
RestoredOwner(o) == IF o.rank >= SceneRank THEN [o EXCEPT !.gen = scene + 1] ELSE o

(* capability_restore_begin, once the checkpoint was found well-formed.      *)
RestoreBegin ==
  /\ restore.phase = "idle" /\ saved # {} /\ scene < SceneLimit
  /\ restore' = [Idle EXCEPT !.phase = "prepare"]
  /\ undo' = {}
  /\ UNCHANGED <<entries, caps, identity, nextGen, nextCap, scene, held, saved>>

Staged(c, owner) == [c EXCEPT !.staged = TRUE, !.restored = owner]
ConflictFree(c, owner) == caps[c].staged => caps[c].restored = owner

(* The capability a checkpoint means: its own if that is still live with the *)
(* same key, or the one this restore created for it earlier.                 *)
Originals(s) ==
  IF s.import.cap \in DOMAIN caps
  THEN {c \in {s.import.cap} : caps[c].live /\ KeyMatches(c, s.receipt, s.import.owner)}
  ELSE {c \in DOMAIN caps : /\ caps[c].staged /\ caps[c].origin = s.import.cap
                            /\ KeyMatches(c, s.receipt, s.import.owner)}

Authorise(s, c) ==
  restore' = [restore EXCEPT !.caps = Put(@, s, c)]

(* capability_checkpoint_restore_stage and the capability_restore_stage that *)
(* repeats it: authority that is there is reserved for the restored owner.   *)
AuthoriseKnown(s) ==
  \E c \in Originals(s) :
    /\ ConflictFree(c, RestoredOwner(s.import.owner))
    /\ caps' = [caps EXCEPT ![c] = Staged(@, RestoredOwner(s.import.owner))]
    /\ Authorise(s, c)
    /\ UNCHANGED nextCap

(* The same for authority that is gone: a new capability, not yet live.      *)
AuthoriseNew(s) ==
  /\ s.import.cap # NoCap
  /\ s.import.cap \notin DOMAIN caps /\ Originals(s) = {}
  /\ nextCap <= CapLimit
  /\ caps' = Put(caps, nextCap,
       Staged([Capability(s.receipt, s.import.owner) EXCEPT
                 !.live = FALSE, !.created = TRUE, !.origin = s.import.cap],
              RestoredOwner(s.import.owner)))
  /\ nextCap' = nextCap + 1
  /\ Authorise(s, nextCap)

AuthoriseNone(s) ==
  s.import.cap = NoCap /\ Authorise(s, NoCap) /\ UNCHANGED <<caps, nextCap>>

PrepareAuthority(s) ==
  /\ restore.phase = "prepare" /\ s \in saved \ DOMAIN restore.caps
  /\ AuthoriseKnown(s) \/ AuthoriseNew(s) \/ AuthoriseNone(s)
  /\ UNCHANGED <<entries, identity, nextGen, scene, held, undo, saved>>

(* resource_restore_stage; the UI also retains the atlas it reserved, which  *)
(* nobody else can reach before it is current.                               *)
Reservation(s) ==
  [s.import EXCEPT !.cap = restore.caps[s], !.owner = RestoredOwner(@)]

Reserve(s) ==
  /\ restore.phase = "prepare"
  /\ s \in DOMAIN restore.caps \ DOMAIN restore.handles
  /\ BeginImport(Reservation(s), TRUE)
  /\ restore' = [restore EXCEPT !.handles = Put(@, s, nextGen)]
  /\ UNCHANGED <<caps, nextCap, scene, held, undo, saved>>

RetainReserved(s) ==
  /\ restore.phase = "prepare" /\ s \in DOMAIN restore.handles
  /\ Retained(Guest, restore.handles[s])
  /\ UNCHANGED restoreVars

(* Any step of prepare may be refused, for want of memory, of room or of     *)
(* authority, and the caller may cancel what was prepared.                   *)
PrepareFails ==
  /\ restore.phase = "prepare"
  /\ restore' = [restore EXCEPT !.phase = "cancel"]
  /\ UNCHANGED <<vars, saved>>

(* Commit, with everything reserved.  When the machine boots into a saved    *)
(* state the timeline, down to the module owners, is invalidated first.      *)
ModuleRank == 2
Prepared == restore.phase = "prepare" /\ DOMAIN restore.handles = saved

BootInvalidate ==
  /\ Prepared
  /\ InvalidateFromOwner(ModuleRank)
  /\ restore' = [restore EXCEPT !.phase = "boot"]
  /\ UNCHANGED saved

(* Broken variant: the new scene is opened without clearing the old one. *)
RestoreBoundaryKeeps ==
  /\ Prepared \/ restore.phase = "boot"
  /\ scene < SceneLimit /\ scene' = scene + 1
  /\ restore' = [restore EXCEPT !.phase = "commit"]
  /\ UNCHANGED <<entries, caps, identity, nextGen, nextCap, held, undo, saved>>

RestoreBoundary ==
  /\ Prepared \/ restore.phase = "boot"
  /\ SceneBoundary
  /\ restore' = [restore EXCEPT !.phase = "commit"]
  /\ UNCHANGED saved

(* Broken variant: authority stays with the owner of the old scene. *)
RecommissionedForOld(c) ==
  [c EXCEPT !.live = TRUE, !.staged = FALSE, !.created = FALSE,
            !.pending = FALSE, !.origin = NoCap]

(* capability_restore_commit: everything reserved is live for its new owner. *)
Recommissioned(c) ==
  [c EXCEPT !.live = TRUE, !.owner = c.restored, !.staged = FALSE,
            !.created = FALSE, !.pending = FALSE, !.origin = NoCap]

CapabilityRestoreCommit ==
  /\ restore.phase = "commit"
  /\ caps' = [c \in DOMAIN caps |->
                IF caps[c].staged THEN Recommissioned(caps[c]) ELSE caps[c]]
  /\ restore' = [restore EXCEPT !.phase = "install", !.left = saved]
  /\ UNCHANGED <<entries, identity, nextGen, nextCap, scene, held, undo, saved>>

(* resource_restore_commit, for one reservation.                             *)
RestoreCommit(s) ==
  LET g == restore.handles[s]
  IN  /\ restore.phase = "install" /\ s \in restore.left
      /\ g \in DOMAIN entries /\ entries[g].staged /\ Committable(g)
      /\ MakeCurrent({g})
      /\ restore' = [restore EXCEPT !.left = @ \ {s}]
      /\ UNCHANGED <<scene, held, saved>>

RestoreDone ==
  /\ restore.phase = "install" /\ restore.left = {}
  /\ restore' = Idle
  /\ undo' = {}
  /\ UNCHANGED <<entries, caps, identity, nextGen, nextCap, scene, held, saved>>

(* resource_restore_cancel, after the UI has released what it retained.      *)
RestoreCancel(s) ==
  LET g == restore.handles[s]
      E == Without(entries, {g})
  IN  /\ restore.phase = "cancel" /\ s \in DOMAIN restore.handles
      /\ entries[g].staged /\ Committable(g)
      /\ entries' = E
      /\ caps' = Reclaim(E, caps, CapsOf({g}))
      /\ identity' = IdentityWithout(E, {g})
      /\ held' = held \ {<<Guest, g>>}
      /\ restore' = [restore EXCEPT !.handles = Without(@, {s})]
      /\ UNCHANGED <<nextGen, nextCap, scene, undo, saved>>

(* Broken variant: all that was reserved goes.                               *)
CancelErasesReserved ==
  /\ restore.phase = "cancel" /\ DOMAIN restore.handles = {}
  /\ caps' = Without(caps, {c \in DOMAIN caps : caps[c].staged})
  /\ restore' = Idle
  /\ UNCHANGED <<entries, identity, nextGen, nextCap, scene, held, undo, saved>>

(* capability_restore_cancel: what was created goes, what was reserved is as *)
(* before, and what only the reservation kept is reclaimed.                  *)
CapabilityRestoreCancel ==
  LET C == [c \in {c \in DOMAIN caps : ~caps[c].created} |->
              [caps[c] EXCEPT !.staged = FALSE]]
  IN  /\ restore.phase = "cancel" /\ DOMAIN restore.handles = {}
      /\ caps' = Reclaim(entries, C, DOMAIN C)
      /\ restore' = Idle
      /\ UNCHANGED <<entries, identity, nextGen, nextCap, scene, held, undo, saved>>

----------------------------------------------------------------------------
(* Nobody knows the handle of a reservation but who made it.                 *)
OtherHolders ==
  \E h \in Holders, g \in DOMAIN entries :
    /\ ~entries[g].staged
    /\ AcquireCurrent(h, g) \/ AcquireSnapshot(h, g) \/ Release(h, g)

RestoreStep ==
  \/ Save
  \/ RestoreBegin
  \/ \E s \in saved : PrepareAuthority(s)
  \/ \E s \in saved : Reserve(s)
  \/ \E s \in saved : RetainReserved(s)
  \/ PrepareFails
  \/ BootInvalidate
  \/ RestoreBoundary
  \/ CapabilityRestoreCommit
  \/ \E s \in saved : RestoreCommit(s)
  \/ RestoreDone
  \/ \E s \in saved : RestoreCancel(s)
  \/ CapabilityRestoreCancel

(* Only a direct import makes a generation current that was not there.       *)
Appeared == {g \in DOMAIN entries' \ DOMAIN entries : entries'[g].current}

RestoreNext ==
  /\ \/ restore.phase = "idle" /\ GuestStep /\ UNCHANGED restoreVars
     \/ OtherHolders /\ UNCHANGED restoreVars
     \/ RestoreStep
  /\ direct' = (direct \cup Appeared) \cap DOMAIN entries'

RestoreSpec == RestoreInit /\ [][RestoreNext]_allVars

----------------------------------------------------------------------------
(***************************************************************************)
(* Properties, besides those of ResourceRepository.                        *)
(***************************************************************************)
Waiting == IF restore.phase = "install" THEN restore.left ELSE DOMAIN restore.handles

(* Production resources require a registered capability: what is current is  *)
(* backed by live authority for its own owner, across commits, rollbacks,    *)
(* restores, invalidations and the retirement of authority.  A direct import *)
(* retires the predecessor first, and with it perhaps the authority that     *)
(* only the predecessor kept; it is not part of the promise.                 *)
CurrentIsAuthorised ==
  \A g \in DOMAIN entries \ direct : entries[g].current =>
    CapabilityMatches(entries[g].import.cap, entries[g].import.owner, FALSE)

(* When a restore is complete, every saved resource is current again with    *)
(* the bytes of the checkpoint, under live authority for the new scene.      *)
RestoreIsWhole ==
  restore.phase = "install" /\ restore.left = {} =>
    \A s \in saved :
      LET g == restore.handles[s]
      IN  /\ g \in DOMAIN entries /\ entries[g].current
          /\ entries[g].import.data = s.import.data
          /\ CapabilityMatches(entries[g].import.cap, entries[g].import.owner, FALSE)
          /\ s.import.owner.rank >= SceneRank => entries[g].import.owner.gen = scene

(* What prepare reserved survives until it is installed or cancelled: the    *)
(* boundary, a boot invalidation and whatever the other holders release in   *)
(* between take neither a reservation nor its authority.  And whether it was *)
(* committed or cancelled at whatever point, a restore leaves nothing        *)
(* reserved behind: no entry, and no authority that is not live.             *)
ReservationsSurvive ==
  /\ \A s \in Waiting :
       LET g == restore.handles[s]
       IN  /\ g \in DOMAIN entries /\ entries[g].staged
           /\ CapabilityMatches(entries[g].import.cap, entries[g].import.owner, TRUE)
  /\ restore.phase = "idle" =>
       /\ \A g \in DOMAIN entries : ~entries[g].staged
       /\ \A c \in DOMAIN caps : caps[c].live /\ ~caps[c].staged /\ ~caps[c].created

(* Until it commits, a restore can be abandoned: neither preparing nor       *)
(* cancelling it touches what is current, or the authority of that.          *)
CancelIsHarmless ==
  [][restore.phase \in {"prepare", "cancel"} /\ restore'.phase # "boot"
       /\ restore'.phase # "commit" =>
       /\ Currents' = Currents
       /\ \A g \in Currents \ direct :
            LET c == entries[g].import.cap
            IN  c # NoCap => /\ c \in DOMAIN caps'
                             /\ caps'[c].live /\ caps'[c].owner = caps[c].owner]_allVars
=============================================================================
