------------------------ MODULE ResourceRepository ------------------------
(***************************************************************************)
(* The resource repository (xg_render_resource_repository.c): immutable    *)
(* generations of textures, surfaces and meshes, at most one of which is   *)
(* current per resource, pinned by reference counts and backed by          *)
(* capabilities, the authority under which their bytes were produced.      *)
(*                                                                         *)
(* Every exported function runs under the repository's writer lock, so     *)
(* each is one action.  The guest thread (Guest) imports, commits, rolls   *)
(* back and invalidates; other holders only take and return references.    *)
(* An entry is named by its generation, which is never used again: an      *)
(* unoccupied slot is a generation outside DOMAIN entries.  Bytes, kind,   *)
(* descriptor and digest are one value of Data.                            *)
(*                                                                         *)
(* Module ResourceRestore adds the restoration of a checkpoint.            *)
(***************************************************************************)
EXTENDS Integers, FiniteSets, Functions

CONSTANTS
  Resources,     (* resource ids                                            *)
  Identities,    (* identity bytes an import may carry for its resource id  *)
  Data,          (* contents an import may carry                            *)
  Receipts,      (* receipts under which authority is registered            *)
  Ranks,         (* owner kinds in use, as numbers: static 0 ... batch 5     *)
  GenLimit,      (* bound: g_next_generation is exhausted after GenLimit     *)
  CapLimit,      (* bound: capability ids that can be minted                *)
  SceneLimit,    (* bound: scene generations                                *)
  Holders,       (* threads and components that keep references             *)
  Guest,         (* the holder that runs producer transactions              *)
  DirectGens     (* bound: generations xg_render_resource_import may make    *)

SceneRank == 3
Gens == 1..GenLimit
CapIds == 1..CapLimit
NoCap == 0
Owners == [rank : Ranks, gen : 1..(SceneLimit + 1)]

ASSUME RepositoryAssumption ==
  /\ GenLimit \in Nat /\ CapLimit \in Nat /\ SceneLimit \in Nat \ {0}
  /\ Ranks \subseteq 0..5
  /\ IsFiniteSet(Holders) /\ Guest \in Holders
  /\ DirectGens \subseteq Nat

VARIABLES
  entries,   (* g_entries: the occupied generations and their view          *)
  caps,      (* g_capabilities: the occupied capabilities                   *)
  identity,  (* g_identities: what each registered resource id stands for   *)
  nextGen,   (* g_next_generation                                           *)
  nextCap,   (* how many capability ids were minted so far, plus one        *)
  scene,     (* the scene generation producers import for                   *)
  held,      (* references the holders have not returned: <<holder, gen>>   *)
  undo       (* <<new, old>>: commits whose producer may still roll back    *)

vars == <<entries, caps, identity, nextGen, nextCap, scene, held, undo>>

(* What an import names, and what an entry keeps of it.                      *)
Imports == [res : Resources, ident : Identities, data : Data,
            cap : CapIds \cup {NoCap}, owner : Owners]

Entry(i, state, current, staged) ==
  [import |-> i, state |-> state, current |-> current, staged |-> staged,
   retains |-> 0]

Init ==
  /\ entries = <<>> /\ caps = <<>> /\ identity = <<>>
  /\ nextGen = 1 /\ nextCap = 1 /\ scene = 1
  /\ held = {} /\ undo = {}

----------------------------------------------------------------------------
(***************************************************************************)
(* Helpers of the code.                                                    *)
(***************************************************************************)
Put(f, k, v) == [x \in DOMAIN f \cup {k} |-> IF x = k THEN v ELSE f[x]]
Without(f, S) == Restrict(f, DOMAIN f \ S)

Res(g) == entries[g].import.res
Owned(g) == entries[g].state = "owned"

(* retire_pending_capability_if_unused_locked for each capability of S.      *)
Reclaim(E, C, S) ==
  Without(C, {c \in S \cap DOMAIN C :
                /\ C[c].live /\ C[c].pending /\ ~C[c].staged
                /\ \A g \in DOMAIN E : E[g].import.cap # c})

(* Entries of S stop being current and go unless they are retained; with the *)
(* last of them goes a capability that only waited for that.                 *)
Gone(S) == {g \in S : entries[g].retains = 0}
Dropped(S) == [g \in DOMAIN entries \ Gone(S) |->
                 IF g \in S THEN [entries[g] EXCEPT !.current = FALSE]
                 ELSE entries[g]]
CapsOf(S) == {entries[g].import.cap : g \in S}

(* reclaim_identity_if_unused for the resources of the entries in S.         *)
IdentityWithout(E, S) ==
  Without(identity, {Res(g) : g \in S} \ {E[g].import.res : g \in DOMAIN E})

Drop(S) ==
  /\ entries' = Dropped(S)
  /\ caps' = Reclaim(Dropped(S), caps, CapsOf(Gone(S)))
  /\ identity' = IdentityWithout(Dropped(S), Gone(S))

(* capability_matches_locked: live authority for this owner, or one that a   *)
(* restore has reserved for it.                                              *)
CapabilityMatches(c, owner, allowRestore) ==
  \/ c = NoCap
  \/ /\ c \in DOMAIN caps
     /\ \/ caps[c].live /\ caps[c].owner = owner
        \/ allowRestore /\ caps[c].staged /\ caps[c].restored = owner
        \/ allowRestore /\ caps[c].staged /\ caps[c].owner = owner

IdentityAgrees(i) == i.res \in DOMAIN identity => identity[i.res] = i.ident

Pending(r) == {g \in DOMAIN entries :
                 Res(g) = r /\ ~entries[g].current /\ entries[g].state = "importing"}
Duplicate(i) == \E g \in DOMAIN entries :
                  entries[g].current /\ Owned(g) /\ entries[g].import = i

(* Producers act for the running scene; longer-lived owners never change.    *)
OwnerOf(rank) == [rank |-> rank, gen |-> IF rank >= SceneRank THEN scene ELSE 1]

----------------------------------------------------------------------------
(***************************************************************************)
(* Capabilities.                                                           *)
(***************************************************************************)
Capability(receipt, owner) ==
  [receipt |-> receipt, owner |-> owner, live |-> TRUE, pending |-> FALSE,
   staged |-> FALSE, restored |-> owner, created |-> FALSE, origin |-> NoCap]

KeyMatches(c, receipt, owner) ==
  caps[c].receipt = receipt /\ caps[c].owner = owner

(* capability_register: a live capability with the same key is returned as   *)
(* it is, so only minting changes anything.                                  *)
Register(receipt, rank) ==
  /\ \A c \in DOMAIN caps : ~(caps[c].live /\ KeyMatches(c, receipt, OwnerOf(rank)))
  /\ nextCap <= CapLimit
  /\ caps' = Put(caps, nextCap, Capability(receipt, OwnerOf(rank)))
  /\ nextCap' = nextCap + 1
  /\ UNCHANGED <<entries, identity, nextGen, scene, held, undo>>

(* capability_revoke.  Producers call it for authority their own failed      *)
(* preparation minted, never for that of a predecessor they may still put    *)
(* back.                                                                     *)
Revoke(c) ==
  LET S == {g \in DOMAIN entries :
              entries[g].import.cap = c /\ ~entries[g].staged}
  IN  /\ caps[c].live
      /\ \A p \in undo : p[2] \in DOMAIN entries => entries[p[2]].import.cap # c
      /\ entries' = Dropped(S)
      /\ identity' = IdentityWithout(Dropped(S), Gone(S))
      /\ caps' = Without(caps, {c})
      /\ UNCHANGED <<nextGen, nextCap, scene, held, undo>>

(* capability_retire: gone at once, or with the last entry that uses it.     *)
RetireCapability(c) ==
  /\ caps[c].live
  /\ caps' = Reclaim(entries, [caps EXCEPT ![c].pending = TRUE], {c})
  /\ UNCHANGED <<entries, identity, nextGen, nextCap, scene, held, undo>>

----------------------------------------------------------------------------
(***************************************************************************)
(* Import transactions.                                                    *)
(***************************************************************************)
(* resource_import_begin, in a private generation.  An ordinary import whose *)
(* contents are current already only gets their handle: nothing changes.     *)
BeginImport(i, restoring) ==
  /\ CapabilityMatches(i.cap, i.owner, restoring)
  /\ IdentityAgrees(i)
  /\ restoring \/ ~Duplicate(i)
  /\ Pending(i.res) = {}
  /\ nextGen <= GenLimit
  /\ entries' = Put(entries, nextGen, Entry(i, "importing", FALSE, restoring))
  /\ identity' = Put(identity, i.res, i.ident)
  /\ nextGen' = nextGen + 1

ImportBegin(i) ==
  /\ BeginImport(i, FALSE)
  /\ UNCHANGED <<caps, nextCap, scene, held, undo>>

(* The generations that stop being current when those of P become current.   *)
Superseded(P) == {g \in DOMAIN entries \ P :
                    entries[g].current /\ \E h \in P : Res(h) = Res(g)}

(* The pending generations of P become current.  A predecessor the guest     *)
(* still holds can be put back by rollback_current.                          *)
MakeCurrent(P) ==
  LET S == Superseded(P)
      E == [g \in DOMAIN Dropped(S) |->
              IF g \in P
              THEN [entries[g] EXCEPT !.state = "owned", !.current = TRUE,
                                      !.staged = FALSE]
              ELSE Dropped(S)[g]]
  IN  /\ entries' = E
      /\ caps' = Reclaim(E, caps, CapsOf(Gone(S)))
      /\ undo' = undo \cup {p \in P \X S : Res(p[1]) = Res(p[2])
                                          /\ <<Guest, p[2]>> \in held}
      /\ UNCHANGED <<identity, nextGen, nextCap>>

(* Broken variant: a handle that was current once can be committed again. *)
CommittableOwned(g) == ~entries[g].current
Committable(g) == entries[g].state = "importing" /\ ~entries[g].current

ImportCommit(g) ==
  /\ Committable(g)
  /\ MakeCurrent({g})
  /\ UNCHANGED <<scene, held>>

(* import_commit_many: each handle pending, or current already; no two       *)
(* generations of a resource; authority that is still good.  All or none.    *)
BatchAccepted(G) ==
  /\ \A g \in G : Committable(g) \/ (entries[g].current /\ Owned(g))
  /\ \A g, h \in G : Res(g) = Res(h) => g = h
  /\ \A g \in G : CapabilityMatches(entries[g].import.cap,
                                    entries[g].import.owner, FALSE)

ImportCommitMany(G) ==
  /\ BatchAccepted(G)
  /\ MakeCurrent({g \in G : ~entries[g].current})
  /\ UNCHANGED <<scene, held>>

ImportCancel(g) ==
  /\ Committable(g) /\ entries[g].retains = 0
  /\ Drop({g})
  /\ UNCHANGED <<nextGen, nextCap, scene, held, undo>>

(* xg_render_resource_import: current at once.  The predecessor is retired   *)
(* before the new entry is there.                                            *)
Import(i) ==
  LET S == {g \in DOMAIN entries : entries[g].current /\ Res(g) = i.res}
  IN  /\ nextGen \in DirectGens
      /\ CapabilityMatches(i.cap, i.owner, FALSE)
      /\ IdentityAgrees(i)
      /\ ~Duplicate(i)
      /\ nextGen <= GenLimit
      /\ entries' = Put(Dropped(S), nextGen, Entry(i, "owned", TRUE, FALSE))
      /\ caps' = Reclaim(Dropped(S), caps, CapsOf(Gone(S)))
      /\ identity' = Put(identity, i.res, i.ident)
      /\ nextGen' = nextGen + 1
      /\ UNCHANGED <<nextCap, scene, held, undo>>

RetireCurrent(g) ==
  /\ entries[g].current
  /\ Drop({g})
  /\ UNCHANGED <<nextGen, nextCap, scene, held, undo>>

(* Broken variant: something else may have been installed since. *)
MayRollbackLate(n, o) ==
  /\ {n, o} \subseteq DOMAIN entries
  /\ ~entries[o].current /\ entries[o].retains # 0
  /\ Owned(n) /\ Owned(o)

(* rollback_current puts a retained predecessor back, provided nothing else  *)
(* was installed since.                                                      *)
MayRollback(n, o) ==
  /\ {n, o} \subseteq DOMAIN entries
  /\ entries[n].current /\ ~entries[o].current /\ entries[o].retains # 0
  /\ Owned(n) /\ Owned(o) /\ ~entries[n].staged /\ ~entries[o].staged
  /\ entries[n].import.ident = entries[o].import.ident

RollbackCurrent(p) ==
  LET E == [g \in DOMAIN Dropped({p[1]}) |->
              IF g = p[2] THEN [entries[g] EXCEPT !.current = TRUE]
              ELSE Dropped({p[1]})[g]]
  IN  /\ MayRollback(p[1], p[2])
      /\ entries' = E
      /\ caps' = Reclaim(E, caps, CapsOf(Gone({p[1]})))
      /\ undo' = undo \ {p}
      /\ UNCHANGED <<identity, nextGen, nextCap, scene, held>>

----------------------------------------------------------------------------
(***************************************************************************)
(* References.  Bound: a holder keeps at most one to a generation.         *)
(***************************************************************************)
Retained(h, g) ==
  /\ <<h, g>> \notin held
  /\ held' = held \cup {<<h, g>>}
  /\ entries' = [entries EXCEPT ![g].retains = @ + 1]
  /\ UNCHANGED <<caps, identity, nextGen, nextCap, scene, undo>>

(* acquire_current; retain, which its callers keep only on a current entry.  *)
AcquireCurrent(h, g) == entries[g].current /\ Retained(h, g)

Snapshotable(g) ==
  /\ entries[g].current \/ entries[g].retains # 0
  /\ Owned(g) /\ ~entries[g].staged

AcquireSnapshot(h, g) == Snapshotable(g) /\ Retained(h, g)

(* Broken variant: what is not current stays for good. *)
LastReleaseNever(g) == FALSE

(* release: the last one retires what is not current.                        *)
ReleasedEntries(g) == [entries EXCEPT ![g].retains = @ - 1]
LastRelease(g) == ~entries[g].current /\ entries[g].retains = 1

Release(h, g) ==
  LET S == IF LastRelease(g) THEN {g} ELSE {}
      E == Without(ReleasedEntries(g), S)
  IN  /\ <<h, g>> \in held
      /\ entries' = E
      /\ caps' = Reclaim(E, caps, CapsOf(S))
      /\ identity' = IdentityWithout(E, S)
      /\ held' = held \ {<<h, g>>}
      /\ undo' = {p \in undo : h # Guest \/ p[2] # g}
      /\ UNCHANGED <<nextGen, nextCap, scene>>

----------------------------------------------------------------------------
(***************************************************************************)
(* Invalidation.  Entries and capabilities that a restore has reserved are *)
(* passed over.  Producer transactions do not span an invalidation.        *)
(***************************************************************************)
(* Broken variant: reservations are invalidated too. *)
ProtectedNever(g) == FALSE
Protected(g) == entries[g].staged

Invalidate(owners) ==
  LET S == {g \in DOMAIN entries :
              entries[g].import.owner \in owners /\ ~Protected(g)}
      marked == {c \in DOMAIN caps :
                   caps[c].live /\ ~caps[c].staged /\ caps[c].owner \in owners}
      C == [c \in DOMAIN caps |-> IF c \in marked
                                  THEN [caps[c] EXCEPT !.pending = TRUE]
                                  ELSE caps[c]]
  IN  /\ entries' = Dropped(S)
      /\ caps' = Reclaim(Dropped(S), C, marked \cup CapsOf(Gone(S)))
      /\ identity' = IdentityWithout(Dropped(S), Gone(S))
      /\ undo' = {}
      /\ UNCHANGED <<nextGen, nextCap, held>>

InvalidateOwner(owner) == Invalidate({owner}) /\ UNCHANGED scene

InvalidateFromOwner(rank) ==
  Invalidate({o \in Owners : o.rank >= rank}) /\ UNCHANGED scene

(* scene_boundary_locked: the next scene generation, then the invalidation.  *)
SceneBoundary ==
  /\ scene < SceneLimit
  /\ Invalidate({o \in Owners : o.rank >= SceneRank})
  /\ scene' = scene + 1

(* repository_reset: its users must be quiescent.  Generations go on; ids of *)
(* a new capability session are new.                                         *)
Reset ==
  /\ held = {}
  /\ entries' = <<>> /\ caps' = <<>> /\ identity' = <<>>
  /\ undo' = {}
  /\ UNCHANGED <<nextGen, nextCap, scene, held>>

----------------------------------------------------------------------------
(* What the guest thread asks for: imports under authority it has, handles   *)
(* it was given, at most two of them in a batch.                             *)
GuestImports ==
  {i \in [res : Resources, ident : Identities, data : Data,
          cap : DOMAIN caps \cup {NoCap}, owner : {OwnerOf(r) : r \in Ranks}] :
     CapabilityMatches(i.cap, i.owner, FALSE)}

Batches == {G \in SUBSET DOMAIN entries : Cardinality(G) \in 1..2}

GuestStep ==
  \/ \E receipt \in Receipts, rank \in Ranks : Register(receipt, rank)
  \/ \E c \in DOMAIN caps : Revoke(c)
  \/ \E c \in DOMAIN caps : RetireCapability(c)
  \/ \E i \in GuestImports : ImportBegin(i)
  \/ \E i \in GuestImports : Import(i)
  \/ \E g \in DOMAIN entries : ImportCommit(g)
  \/ \E G \in Batches : ImportCommitMany(G)
  \/ \E g \in DOMAIN entries : ImportCancel(g)
  \/ \E g \in DOMAIN entries : RetireCurrent(g)
  \/ \E p \in undo : RollbackCurrent(p)
  \/ \E o \in {OwnerOf(r) : r \in Ranks} : InvalidateOwner(o)
  \/ \E rank \in Ranks : InvalidateFromOwner(rank)
  \/ SceneBoundary
  \/ Reset

HolderStep ==
  \E h \in Holders, g \in DOMAIN entries :
    AcquireCurrent(h, g) \/ AcquireSnapshot(h, g) \/ Release(h, g)

Next == GuestStep \/ HolderStep

Spec == Init /\ [][Next]_vars

----------------------------------------------------------------------------
(***************************************************************************)
(* Properties.                                                             *)
(***************************************************************************)
EntryType ==
  [import : Imports, state : {"importing", "owned"}, current : BOOLEAN,
   staged : BOOLEAN, retains : 0..Cardinality(Holders)]

CapabilityType ==
  [receipt : Receipts, owner : Owners, live : BOOLEAN, pending : BOOLEAN,
   staged : BOOLEAN, restored : Owners, created : BOOLEAN,
   origin : CapIds \cup {NoCap}]

(* Every table stays within its type, and each id within what was minted.    *)
TypeOK ==
  /\ DOMAIN entries \subseteq Gens /\ \A g \in DOMAIN entries : entries[g] \in EntryType
  /\ DOMAIN caps \subseteq CapIds /\ \A c \in DOMAIN caps : caps[c] \in CapabilityType
  /\ DOMAIN identity \subseteq Resources
  /\ \A r \in DOMAIN identity : identity[r] \in Identities
  /\ nextGen \in 1..(GenLimit + 1) /\ \A g \in DOMAIN entries : g < nextGen
  /\ nextCap \in 1..(CapLimit + 1) /\ \A c \in DOMAIN caps : c < nextCap
  /\ scene \in 1..SceneLimit
  /\ held \subseteq Holders \X Gens /\ undo \subseteq Gens \X Gens

(* A resource never has two current generations, nor a current one that is   *)
(* still being imported or reserved, whatever imports, batches, rollbacks    *)
(* and invalidations cross.                                                  *)
OneCurrent ==
  \A g \in DOMAIN entries : entries[g].current =>
    /\ Owned(g) /\ ~entries[g].staged
    /\ \A h \in DOMAIN entries : entries[h].current /\ Res(g) = Res(h) => g = h

(* Nothing goes before its use ends, and nothing outlasts it.  A generation  *)
(* someone holds is there, and its retain count is exactly the number of its *)
(* holders, through supersession, revocation and rollback.  An entry is      *)
(* current, held, or an import that somebody has still to commit or cancel;  *)
(* a resource id stands for its identity exactly while it has entries, which *)
(* all carry that identity; and retired authority is kept only for the       *)
(* entries that use it.                                                      *)
NothingLeaks ==
  /\ \A p \in held : p[2] \in DOMAIN entries
  /\ \A g \in DOMAIN entries :
       /\ entries[g].retains = Cardinality({h \in Holders : <<h, g>> \in held})
       /\ entries[g].current \/ entries[g].retains # 0 \/ entries[g].state = "importing"
  /\ DOMAIN identity = {Res(g) : g \in DOMAIN entries}
  /\ \A g \in DOMAIN entries : identity[Res(g)] = entries[g].import.ident
  /\ \A c \in DOMAIN caps : caps[c].live /\ caps[c].pending /\ ~caps[c].staged =>
       \E g \in DOMAIN entries : entries[g].import.cap = c

(* A generation that was superseded, invalidated or retired comes back only  *)
(* through the rollback of the commit that superseded it.                    *)
StaleStaysStale ==
  [][\A g \in DOMAIN entries \cap DOMAIN entries' :
       Owned(g) /\ ~entries[g].current /\ entries'[g].current
         => \E p \in undo : p[2] = g /\ entries[p[1]].current]_vars
=============================================================================
