---------------------- MODULE ResourceRepositoryProofs ----------------------
(***************************************************************************)
(* Proofs about the resource repository and its restores, for every set of *)
(* resources, identities, contents, receipts and holders and every bound:  *)
(* a resource never has two current generations, what was superseded comes *)
(* back only by the rollback of what superseded it, and nothing leaks;     *)
(* what is current has live authority of its own owner, what a restore     *)
(* reserved survives until it is installed or given back, a restore leaves *)
(* nothing out, and one that is abandoned has touched nothing.             *)
(***************************************************************************)
EXTENDS ResourceRestore, FiniteSetTheorems, TLAPS

----------------------------------------------------------------------------
(* The tables, typed.  Retain counts are integers here; that they are exact  *)
(* is a matter of NothingLeaks.                                              *)
Shape ==
  [import : Imports, state : {"importing", "owned"}, current : BOOLEAN,
   staged : BOOLEAN, retains : Int]

EntriesTyped ==
  /\ nextGen \in 1..(GenLimit + 1)
  /\ DOMAIN entries \subseteq Gens
  /\ \A g \in DOMAIN entries : entries[g] \in Shape /\ g < nextGen

CapsTyped == nextCap \in Nat \ {0} /\ DOMAIN caps \subseteq CapIds

Typed == EntriesTyped /\ CapsTyped /\ scene \in 1..SceneLimit

(* What the helpers on functions return.                                     *)
LEMMA WithoutFacts ==
  ASSUME NEW f, NEW S
  PROVE  /\ DOMAIN Without(f, S) = DOMAIN f \ S
         /\ \A x \in DOMAIN f \ S : Without(f, S)[x] = f[x]
BY DEF Without, Restrict

LEMMA PutFacts ==
  ASSUME NEW f, NEW k, NEW v
  PROVE  /\ DOMAIN Put(f, k, v) = DOMAIN f \cup {k}
         /\ Put(f, k, v)[k] = v
         /\ \A x \in DOMAIN f \ {k} : Put(f, k, v)[x] = f[x]
BY DEF Put

(* Reclaiming and dropping only take away.                                   *)
LEMMA ReclaimFacts ==
  ASSUME NEW E, NEW C, NEW S
  PROVE  /\ DOMAIN Reclaim(E, C, S) \subseteq DOMAIN C
         /\ \A c \in DOMAIN Reclaim(E, C, S) : Reclaim(E, C, S)[c] = C[c]
<1> DEFINE T == {c \in S \cap DOMAIN C :
                  /\ C[c].live /\ C[c].pending /\ ~C[c].staged
                  /\ \A g \in DOMAIN E : E[g].import.cap # c}
<1>1. Reclaim(E, C, S) = Without(C, T)
  BY DEF Reclaim
<1>2. /\ DOMAIN Without(C, T) = DOMAIN C \ T
      /\ \A x \in DOMAIN C \ T : Without(C, T)[x] = C[x]
  BY WithoutFacts
<1> HIDE DEF T
<1> QED
  BY <1>1, <1>2

LEMMA DroppedFacts ==
  ASSUME NEW S
  PROVE  /\ DOMAIN Dropped(S) = DOMAIN entries \ Gone(S)
         /\ \A g \in DOMAIN Dropped(S) :
              Dropped(S)[g] = IF g \in S THEN [entries[g] EXCEPT !.current = FALSE]
                              ELSE entries[g]
BY DEF Dropped

LEMMA UncurrentFacts ==
  ASSUME NEW e \in Shape, NEW d, d = [e EXCEPT !.current = FALSE]
  PROVE  /\ d \in Shape /\ d.current = FALSE
         /\ d.import = e.import /\ d.state = e.state
         /\ d.staged = e.staged /\ d.retains = e.retains
BY DEF Shape

LEMMA DroppedTyped ==
  ASSUME EntriesTyped, NEW S, NEW g \in DOMAIN Dropped(S)
  PROVE  /\ g \in DOMAIN entries /\ g \notin Gone(S)
         /\ Dropped(S)[g] \in Shape
         /\ Dropped(S)[g].import = entries[g].import
         /\ Dropped(S)[g].state = entries[g].state
         /\ Dropped(S)[g].staged = entries[g].staged
         /\ Dropped(S)[g].retains = entries[g].retains
         /\ Dropped(S)[g].current => entries[g].current /\ g \notin S
         /\ g \notin S => Dropped(S)[g] = entries[g]
<1>1. g \in DOMAIN entries /\ g \notin Gone(S)
  BY DroppedFacts
<1>2. entries[g] \in Shape
  BY <1>1 DEF EntriesTyped
<1>3. CASE g \in S
  <2>1. Dropped(S)[g] = [entries[g] EXCEPT !.current = FALSE]
    BY <1>3, DroppedFacts
  <2> QED
    BY <1>1, <1>2, <1>3, <2>1, UncurrentFacts
<1>4. CASE g \notin S
  BY <1>1, <1>2, <1>4, DroppedFacts
<1> QED
  BY <1>3, <1>4

----------------------------------------------------------------------------
(***************************************************************************)
(* The four things a step can do to the table of entries.                  *)
(***************************************************************************)
(* An entry that stays, and gains nothing.                                   *)
Stays(g) ==
  /\ g \in DOMAIN entries
  /\ entries'[g] \in Shape
  /\ entries'[g].import = entries[g].import

Wanes(g) ==
  /\ Stays(g)
  /\ entries'[g].state = entries[g].state /\ entries'[g].staged = entries[g].staged
  /\ entries'[g].current => entries[g].current

Shrinks == nextGen' = nextGen /\ \A g \in DOMAIN entries' : Wanes(g)

(* A generation that was never used enters, current at once or not at all.   *)
Adds ==
  /\ nextGen <= GenLimit /\ nextGen' = nextGen + 1
  /\ \A g \in DOMAIN entries' : g = nextGen \/ Wanes(g)
  /\ nextGen \in DOMAIN entries' /\ entries'[nextGen] \in Shape
  /\ entries'[nextGen].current =>
       /\ entries'[nextGen].state = "owned" /\ ~entries'[nextGen].staged
       /\ \A g \in DOMAIN entries' \ {nextGen} :
            entries'[g].current => entries'[g].import.res # entries'[nextGen].import.res

(* Pending generations become current in place of those of their resources.  *)
Installs ==
  /\ nextGen' = nextGen
  /\ \E P \in SUBSET DOMAIN entries :
       /\ \A g, h \in P : Res(g) = Res(h) => g = h
       /\ \A g \in P : entries[g].state = "importing" /\ ~entries[g].current
       /\ \A g \in DOMAIN entries' :
            \/ g \notin P /\ Wanes(g)
                 /\ (entries'[g].current => \A h \in P : Res(h) # Res(g))
            \/ g \in P /\ Stays(g) /\ entries'[g].state = "owned"
                 /\ ~entries'[g].staged

(* A superseded generation comes back for the one that superseded it.        *)
Reverts ==
  /\ nextGen' = nextGen
  /\ \E p \in undo :
       /\ {p[1], p[2]} \subseteq DOMAIN entries
       /\ entries[p[1]].current /\ entries[p[2]].state = "owned"
       /\ ~entries[p[2]].staged /\ ~entries[p[2]].current
       /\ \A g \in DOMAIN entries' :
            \/ g # p[2] /\ Wanes(g) /\ (entries'[g].current => g # p[1])
            \/ g = p[2] /\ Stays(g) /\ entries'[g].state = "owned"
                 /\ ~entries'[g].staged

(* What is dropped, released or erased only wanes.                           *)
LEMMA DropShrinks ==
  ASSUME EntriesTyped, NEW S, entries' = Dropped(S), nextGen' = nextGen
  PROVE  Shrinks
BY DroppedTyped DEF Shrinks, Wanes, Stays

LEMMA RetainedShrinks ==
  ASSUME EntriesTyped, NEW h, NEW g \in DOMAIN entries, Retained(h, g)
  PROVE  Shrinks
<1>1. \A x \in DOMAIN entries' :
        /\ x \in DOMAIN entries
        /\ entries'[x] = IF x = g THEN [entries[x] EXCEPT !.retains = @ + 1] ELSE entries[x]
  BY DEF Retained
<1>2. ASSUME NEW e \in Shape, NEW d, d = [e EXCEPT !.retains = @ + 1]
      PROVE  /\ d \in Shape /\ d.import = e.import /\ d.state = e.state
             /\ d.staged = e.staged /\ d.current = e.current
  BY <1>2 DEF Shape
<1>3. \A x \in DOMAIN entries : entries[x] \in Shape
  BY DEF EntriesTyped
<1>4. nextGen' = nextGen
  BY DEF Retained
<1> QED
  BY <1>1, <1>2, <1>3, <1>4 DEF Shrinks, Wanes, Stays

LEMMA ReleaseShrinks ==
  ASSUME EntriesTyped, NEW h, NEW g \in DOMAIN entries, Release(h, g)
  PROVE  Shrinks
<1> DEFINE S == IF LastRelease(g) THEN {g} ELSE {}
<1>1. entries' = Without(ReleasedEntries(g), S) /\ nextGen' = nextGen
  BY DEF Release
<1>2. \A x \in DOMAIN ReleasedEntries(g) :
        /\ x \in DOMAIN entries
        /\ ReleasedEntries(g)[x] = IF x = g THEN [entries[x] EXCEPT !.retains = @ - 1]
                                   ELSE entries[x]
  BY DEF ReleasedEntries
<1>3. \A x \in DOMAIN entries' :
        x \in DOMAIN ReleasedEntries(g) /\ entries'[x] = ReleasedEntries(g)[x]
  <2>1. /\ DOMAIN Without(ReleasedEntries(g), S) = DOMAIN ReleasedEntries(g) \ S
        /\ \A x \in DOMAIN ReleasedEntries(g) \ S :
             Without(ReleasedEntries(g), S)[x] = ReleasedEntries(g)[x]
    BY WithoutFacts
  <2> HIDE DEF S
  <2> QED
    BY <1>1, <2>1
<1>4. ASSUME NEW e \in Shape, NEW d, d = [e EXCEPT !.retains = @ - 1]
      PROVE  /\ d \in Shape /\ d.import = e.import /\ d.state = e.state
             /\ d.staged = e.staged /\ d.current = e.current
  BY <1>4 DEF Shape
<1>5. \A x \in DOMAIN entries : entries[x] \in Shape
  BY DEF EntriesTyped
<1> HIDE DEF S
<1> QED
  BY <1>1, <1>2, <1>3, <1>4, <1>5 DEF Shrinks, Wanes, Stays

LEMMA InvalidateShrinks ==
  ASSUME EntriesTyped, NEW owners, Invalidate(owners)
  PROVE  Shrinks
<1> DEFINE S == {g \in DOMAIN entries : entries[g].import.owner \in owners /\ ~Protected(g)}
<1>1. entries' = Dropped(S) /\ nextGen' = nextGen
  BY DEF Invalidate
<1> HIDE DEF S
<1> QED
  BY <1>1, DropShrinks

(* Imports of the guest are well-formed, and so is what they enter.          *)
LEMMA GuestImportsTyped ==
  ASSUME Typed, NEW i \in GuestImports
  PROVE  i \in Imports
<1>1. \A r \in Ranks : OwnerOf(r) \in Owners
  BY RepositoryAssumption DEF OwnerOf, Owners, SceneRank, Typed
<1>2. i \in [res : Resources, ident : Identities, data : Data,
             cap : DOMAIN caps \cup {NoCap}, owner : {OwnerOf(r) : r \in Ranks}]
  BY DEF GuestImports
<1>3. DOMAIN caps \subseteq CapIds
  BY DEF Typed, CapsTyped
<1> QED
  BY <1>1, <1>2, <1>3 DEF Imports

LEMMA EntryFacts ==
  ASSUME NEW i \in Imports, NEW state \in {"importing", "owned"},
         NEW current \in BOOLEAN, NEW staged \in BOOLEAN
  PROVE  /\ Entry(i, state, current, staged) \in Shape
         /\ Entry(i, state, current, staged).import = i
         /\ Entry(i, state, current, staged).state = state
         /\ Entry(i, state, current, staged).current = current
         /\ Entry(i, state, current, staged).staged = staged
         /\ Entry(i, state, current, staged).retains = 0
BY DEF Entry, Shape

LEMMA BeginImportAdds ==
  ASSUME EntriesTyped, NEW i \in Imports, NEW restoring \in BOOLEAN,
         BeginImport(i, restoring)
  PROVE  Adds
<1> DEFINE e == Entry(i, "importing", FALSE, restoring)
<1>1. /\ entries' = Put(entries, nextGen, e)
      /\ nextGen <= GenLimit /\ nextGen' = nextGen + 1
  BY DEF BeginImport
<1>2. e \in Shape /\ e.current = FALSE
  BY DEF Entry, Shape
<1> HIDE DEF e
<1>3. /\ DOMAIN entries' = DOMAIN entries \cup {nextGen} /\ entries'[nextGen] = e
      /\ \A g \in DOMAIN entries \ {nextGen} : entries'[g] = entries[g]
  <2>1. /\ DOMAIN Put(entries, nextGen, e) = DOMAIN entries \cup {nextGen}
        /\ Put(entries, nextGen, e)[nextGen] = e
        /\ \A g \in DOMAIN entries \ {nextGen} :
             Put(entries, nextGen, e)[g] = entries[g]
    BY DEF Put
  <2> QED
    BY <1>1, <2>1
<1> QED
  BY <1>1, <1>2, <1>3 DEF Adds, Wanes, Stays, EntriesTyped

LEMMA ImportAdds ==
  ASSUME EntriesTyped, NEW i \in Imports, Import(i)
  PROVE  Adds
<1> DEFINE e == Entry(i, "owned", TRUE, FALSE)
           S == {g \in DOMAIN entries : entries[g].current /\ Res(g) = i.res}
<1>1. /\ entries' = Put(Dropped(S), nextGen, e)
      /\ nextGen <= GenLimit /\ nextGen' = nextGen + 1
  BY DEF Import
<1>2. e \in Shape /\ e.import = i /\ e.state = "owned" /\ e.staged = FALSE
  BY EntryFacts
<1>3. \A g \in DOMAIN Dropped(S) :
        Dropped(S)[g].current => entries[g].import.res # i.res
  BY DroppedTyped DEF Res
<1> HIDE DEF e, S
<1>4. /\ DOMAIN entries' = DOMAIN Dropped(S) \cup {nextGen} /\ entries'[nextGen] = e
      /\ \A g \in DOMAIN Dropped(S) \ {nextGen} : entries'[g] = Dropped(S)[g]
  <2> DEFINE D == Dropped(S)
  <2> HIDE DEF D
  <2>1. /\ DOMAIN Put(D, nextGen, e) = DOMAIN D \cup {nextGen}
        /\ Put(D, nextGen, e)[nextGen] = e
        /\ \A g \in DOMAIN D \ {nextGen} : Put(D, nextGen, e)[g] = D[g]
    BY DEF Put
  <2> QED
    BY <1>1, <2>1 DEF D
<1>5. \A g \in DOMAIN entries' \ {nextGen} :
        Wanes(g) /\ (entries'[g].current => entries'[g].import.res # i.res)
  BY <1>3, <1>4, DroppedTyped DEF Wanes, Stays
<1> QED
  BY <1>1, <1>2, <1>4, <1>5 DEF Adds

LEMMA MakeCurrentInstalls ==
  ASSUME EntriesTyped, NEW P \in SUBSET DOMAIN entries,
         \A g, h \in P : Res(g) = Res(h) => g = h,
         \A g \in P : Committable(g), MakeCurrent(P)
  PROVE  Installs
<1> DEFINE S == Superseded(P)
           E == [g \in DOMAIN Dropped(S) |->
                   IF g \in P
                   THEN [entries[g] EXCEPT !.state = "owned", !.current = TRUE,
                                           !.staged = FALSE]
                   ELSE Dropped(S)[g]]
<1>1. entries' = E /\ nextGen' = nextGen
  BY DEF MakeCurrent
<1>2. \A g \in DOMAIN entries \ P : entries[g].current /\ (\E h \in P : Res(h) = Res(g)) => g \in S
  BY DEF Superseded
<1> HIDE DEF S
<1>3. ASSUME NEW e \in Shape, NEW d,
             d = [e EXCEPT !.state = "owned", !.current = TRUE, !.staged = FALSE]
      PROVE  d \in Shape /\ d.import = e.import /\ d.state = "owned" /\ d.staged = FALSE
  BY <1>3 DEF Shape
<1>4. \A g \in DOMAIN entries : entries[g] \in Shape
  BY DEF EntriesTyped
<1>5. ASSUME NEW g \in DOMAIN entries', g \in P
      PROVE  Stays(g) /\ entries'[g].state = "owned" /\ ~entries'[g].staged
  <2>1. entries'[g] = [entries[g] EXCEPT !.state = "owned", !.current = TRUE, !.staged = FALSE]
    BY <1>1, <1>5
  <2> QED
    BY <1>3, <1>4, <1>5, <2>1 DEF Stays
<1>6. ASSUME NEW g \in DOMAIN entries', g \notin P
      PROVE  Wanes(g) /\ (entries'[g].current => \A h \in P : Res(h) # Res(g))
  <2>1. g \in DOMAIN Dropped(S) /\ entries'[g] = Dropped(S)[g]
    BY <1>1, <1>6
  <2> QED
    BY <1>2, <1>6, <2>1, DroppedTyped DEF Wanes, Stays
<1>7. \A g \in P : entries[g].state = "importing" /\ ~entries[g].current
  BY DEF Committable
<1> QED
  BY <1>1, <1>5, <1>6, <1>7 DEF Installs

LEMMA RollbackReverts ==
  ASSUME EntriesTyped, NEW p \in undo, RollbackCurrent(p)
  PROVE  Reverts
<1> DEFINE S == {p[1]}
           E == [g \in DOMAIN Dropped(S) |->
                   IF g = p[2] THEN [entries[g] EXCEPT !.current = TRUE]
                   ELSE Dropped(S)[g]]
<1>1. entries' = E /\ nextGen' = nextGen
  BY DEF RollbackCurrent
<1>2. /\ {p[1], p[2]} \subseteq DOMAIN entries
      /\ entries[p[1]].current /\ ~entries[p[2]].current
      /\ entries[p[2]].state = "owned" /\ ~entries[p[2]].staged
  BY DEF RollbackCurrent, MayRollback, Owned
<1>3. ASSUME NEW e \in Shape, NEW d, d = [e EXCEPT !.current = TRUE]
      PROVE  d \in Shape /\ d.import = e.import /\ d.state = e.state /\ d.staged = e.staged
  BY <1>3 DEF Shape
<1>4. \A g \in DOMAIN entries : entries[g] \in Shape
  BY DEF EntriesTyped
<1>5. ASSUME NEW g \in DOMAIN entries', g = p[2]
      PROVE  Stays(g) /\ entries'[g].state = "owned" /\ ~entries'[g].staged
  <2>1. entries'[g] = [entries[g] EXCEPT !.current = TRUE]
    BY <1>1, <1>5
  <2> QED
    BY <1>2, <1>3, <1>4, <1>5, <2>1 DEF Stays
<1>6. ASSUME NEW g \in DOMAIN entries', g # p[2]
      PROVE  Wanes(g) /\ (entries'[g].current => g # p[1])
  <2>1. g \in DOMAIN Dropped(S) /\ entries'[g] = Dropped(S)[g]
    BY <1>1, <1>6
  <2> QED
    BY <2>1, DroppedTyped DEF Wanes, Stays
<1> QED
  BY <1>1, <1>2, <1>5, <1>6 DEF Reverts

----------------------------------------------------------------------------
(* Every step of the repository does one of the four.                        *)
LEMMA StepShape ==
  ASSUME Typed, Next
  PROVE  Shrinks \/ Adds \/ Installs \/ Reverts
<1> USE DEF Typed
<1>1. ASSUME UNCHANGED <<entries, nextGen>>
      PROVE  Shrinks
  BY <1>1 DEF Shrinks, Wanes, Stays, EntriesTyped
<1>2. ASSUME NEW receipt, NEW rank, Register(receipt, rank)
      PROVE  Shrinks
  BY <1>1, <1>2 DEF Register
<1>3. ASSUME NEW c, Revoke(c)
      PROVE  Shrinks
  <2> DEFINE S == {g \in DOMAIN entries :
                     entries[g].import.cap = c /\ ~entries[g].staged}
  <2>1. entries' = Dropped(S) /\ nextGen' = nextGen
    BY <1>3 DEF Revoke
  <2> HIDE DEF S
  <2> QED
    BY <2>1, DropShrinks
<1>4. ASSUME NEW c, RetireCapability(c)
      PROVE  Shrinks
  BY <1>1, <1>4 DEF RetireCapability
<1>5. ASSUME NEW i \in GuestImports, ImportBegin(i)
      PROVE  Adds
  BY <1>5, BeginImportAdds, GuestImportsTyped DEF ImportBegin
<1>6. ASSUME NEW i \in GuestImports, Import(i)
      PROVE  Adds
  BY <1>6, ImportAdds, GuestImportsTyped
<1>7. ASSUME NEW g \in DOMAIN entries, ImportCommit(g)
      PROVE  Installs
  <2>1. {g} \in SUBSET DOMAIN entries /\ Committable(g) /\ MakeCurrent({g})
    BY <1>7 DEF ImportCommit
  <2> QED
    BY <2>1, MakeCurrentInstalls
<1>8. ASSUME NEW G \in Batches, ImportCommitMany(G)
      PROVE  Installs
  <2> DEFINE P == {g \in G : ~entries[g].current}
  <2>1. G \subseteq DOMAIN entries
    BY DEF Batches
  <2>2. MakeCurrent(P) /\ BatchAccepted(G)
    BY <1>8 DEF ImportCommitMany
  <2>3. /\ P \in SUBSET DOMAIN entries
        /\ \A g, h \in P : Res(g) = Res(h) => g = h
        /\ \A g \in P : Committable(g)
    BY <2>1, <2>2 DEF BatchAccepted
  <2> HIDE DEF P
  <2> QED
    BY <2>2, <2>3, MakeCurrentInstalls
<1>9. ASSUME NEW g, ImportCancel(g) \/ RetireCurrent(g)
      PROVE  Shrinks
  BY <1>9, DropShrinks DEF ImportCancel, RetireCurrent, Drop
<1>10. ASSUME NEW p \in undo, RollbackCurrent(p)
       PROVE  Reverts
  BY <1>10, RollbackReverts
<1>11. ASSUME NEW o, InvalidateOwner(o)
       PROVE  Shrinks
  BY <1>11, InvalidateShrinks DEF InvalidateOwner
<1>12. ASSUME NEW rank, InvalidateFromOwner(rank)
       PROVE  Shrinks
  BY <1>12, InvalidateShrinks DEF InvalidateFromOwner
<1>13. ASSUME SceneBoundary
       PROVE  Shrinks
  BY <1>13, InvalidateShrinks DEF SceneBoundary
<1>14. ASSUME Reset
       PROVE  Shrinks
  BY <1>14 DEF Reset, Shrinks
<1>15. ASSUME HolderStep
       PROVE  Shrinks
  <2>1. PICK h \in Holders, g \in DOMAIN entries :
          AcquireCurrent(h, g) \/ AcquireSnapshot(h, g) \/ Release(h, g)
    BY <1>15 DEF HolderStep
  <2> QED
    BY <2>1, RetainedShrinks, ReleaseShrinks DEF AcquireCurrent, AcquireSnapshot
<1> QED
  BY <1>2, <1>3, <1>4, <1>5, <1>6, <1>7, <1>8, <1>9, <1>10, <1>11, <1>12, <1>13,
     <1>14, <1>15 DEF Next, GuestStep

(* The entries stay typed, whichever of the four it is.                      *)
LEMMA EntriesStayTyped ==
  ASSUME EntriesTyped, Shrinks \/ Adds \/ Installs \/ Reverts
  PROVE  EntriesTyped'
<1>1. GenLimit \in Nat
  BY RepositoryAssumption
<1>2. CASE Shrinks
  BY <1>2 DEF Shrinks, Wanes, Stays, EntriesTyped
<1>3. CASE Adds
  <2>1. \A g \in DOMAIN entries' :
          entries'[g] \in Shape /\ (g = nextGen \/ g \in DOMAIN entries)
    BY <1>3 DEF Adds, Wanes, Stays
  <2>2. nextGen \in Gens /\ nextGen' = nextGen + 1 /\ nextGen' \in 1..(GenLimit + 1)
    BY <1>1, <1>3 DEF Adds, EntriesTyped, Gens
  <2>3. \A g \in DOMAIN entries : g \in Gens /\ g < nextGen
    BY DEF EntriesTyped
  <2> QED
    BY <1>1, <2>1, <2>2, <2>3 DEF EntriesTyped, Gens
<1>4. CASE Installs
  <2>1. \A g \in DOMAIN entries' : Stays(g)
    BY <1>4 DEF Installs, Wanes
  <2> QED
    BY <1>4, <2>1 DEF Installs, Stays, EntriesTyped
<1>5. CASE Reverts
  <2>1. \A g \in DOMAIN entries' : Stays(g)
    BY <1>5 DEF Reverts, Wanes
  <2> QED
    BY <1>5, <2>1 DEF Reverts, Stays, EntriesTyped
<1> QED
  BY <1>2, <1>3, <1>4, <1>5

----------------------------------------------------------------------------
(***************************************************************************)
(* The inductive invariant.  That a rollback cannot make two generations   *)
(* of a resource current rests on the commits it may undo: each relates    *)
(* two generations of one resource, both handed out before.                *)
(***************************************************************************)
UndoMatches ==
  \A p \in undo :
    /\ p[1] \in Gens /\ p[2] \in Gens /\ p[1] < nextGen /\ p[2] < nextGen
    /\ p[1] \in DOMAIN entries /\ p[2] \in DOMAIN entries => Res(p[1]) = Res(p[2])

RepositoryInv == Typed /\ OneCurrent /\ UndoMatches

(* A rollback is possible only for what was, or is now being, superseded.    *)
LEMMA UndoGrows ==
  ASSUME Typed, Next, NEW p \in undo'
  PROVE  \/ p \in undo
         \/ p[1] \in DOMAIN entries /\ p[2] \in DOMAIN entries /\ Res(p[1]) = Res(p[2])
<1>1. ASSUME NEW P \in SUBSET DOMAIN entries, MakeCurrent(P), p \notin undo
      PROVE  p[1] \in DOMAIN entries /\ p[2] \in DOMAIN entries /\ Res(p[1]) = Res(p[2])
  <2> DEFINE S == Superseded(P)
  <2>1. p \in P \X S /\ Res(p[1]) = Res(p[2])
    BY <1>1 DEF MakeCurrent
  <2>2. S \subseteq DOMAIN entries
    BY DEF Superseded
  <2> QED
    BY <2>1, <2>2
<1>2. ASSUME NEW g \in DOMAIN entries, ImportCommit(g), p \notin undo
      PROVE  p[1] \in DOMAIN entries /\ p[2] \in DOMAIN entries /\ Res(p[1]) = Res(p[2])
  <2>1. {g} \in SUBSET DOMAIN entries /\ MakeCurrent({g})
    BY <1>2 DEF ImportCommit
  <2> QED
    BY <1>1, <1>2, <2>1
<1>3. ASSUME NEW G \in Batches, ImportCommitMany(G), p \notin undo
      PROVE  p[1] \in DOMAIN entries /\ p[2] \in DOMAIN entries /\ Res(p[1]) = Res(p[2])
  <2> DEFINE P == {g \in G : ~entries[g].current}
  <2>1. P \in SUBSET DOMAIN entries /\ MakeCurrent(P)
    BY <1>3 DEF ImportCommitMany, Batches
  <2> HIDE DEF P
  <2> QED
    BY <1>1, <1>3, <2>1
<1>4. ASSUME HolderStep
      PROVE  undo' \subseteq undo
  BY <1>4 DEF HolderStep, AcquireCurrent, AcquireSnapshot, Retained, Release
<1> QED
  BY <1>2, <1>3, <1>4 DEF Next, GuestStep, Register, Revoke, RetireCapability,
     ImportBegin, Import, ImportCancel, RetireCurrent, RollbackCurrent,
     InvalidateOwner, InvalidateFromOwner, SceneBoundary, Invalidate, Reset

(* The capability ids and the scene stay within what was handed out.         *)
LEMMA CapsStayTyped ==
  ASSUME Typed, Next
  PROVE  CapsTyped' /\ scene' \in 1..SceneLimit
<1> DEFINE Less == DOMAIN caps' \subseteq DOMAIN caps /\ nextCap' = nextCap
<1>1. ASSUME Less
      PROVE  CapsTyped'
  BY <1>1 DEF Typed, CapsTyped
<1>2. ASSUME NEW E, NEW S, caps' = Reclaim(E, caps, S), nextCap' = nextCap
      PROVE  CapsTyped'
  <2>1. DOMAIN Reclaim(E, caps, S) \subseteq DOMAIN caps
    BY ReclaimFacts
  <2> QED
    BY <1>1, <1>2, <2>1
<1>3. ASSUME NEW S, Drop(S), nextCap' = nextCap
      PROVE  CapsTyped'
  BY <1>2, <1>3 DEF Drop
<1>4. ASSUME NEW receipt, NEW rank, Register(receipt, rank)
      PROVE  CapsTyped'
  <2> DEFINE v == Capability(receipt, OwnerOf(rank))
  <2>1. caps' = Put(caps, nextCap, v) /\ nextCap' = nextCap + 1 /\ nextCap <= CapLimit
    BY <1>4 DEF Register
  <2> HIDE DEF v
  <2>2. DOMAIN Put(caps, nextCap, v) = DOMAIN caps \cup {nextCap}
    BY DEF Put
  <2>3. nextCap \in Nat \ {0} /\ CapLimit \in Nat /\ DOMAIN caps \subseteq CapIds
    BY RepositoryAssumption DEF Typed, CapsTyped
  <2>4. nextCap \in CapIds
    BY <2>1, <2>3 DEF CapIds
  <2> QED
    BY <2>1, <2>2, <2>3, <2>4 DEF CapsTyped
<1>5. ASSUME NEW c \in DOMAIN caps, Revoke(c)
      PROVE  CapsTyped'
  <2>1. caps' = Without(caps, {c}) /\ nextCap' = nextCap
    BY <1>5 DEF Revoke
  <2>2. DOMAIN Without(caps, {c}) = DOMAIN caps \ {c}
    BY WithoutFacts
  <2> QED
    BY <1>1, <2>1, <2>2
<1>6. ASSUME NEW c \in DOMAIN caps, RetireCapability(c)
      PROVE  CapsTyped'
  <2> DEFINE C == [caps EXCEPT ![c].pending = TRUE]
  <2>1. caps' = Reclaim(entries, C, {c}) /\ nextCap' = nextCap
    BY <1>6 DEF RetireCapability
  <2>2. DOMAIN C = DOMAIN caps
    OBVIOUS
  <2> HIDE DEF C
  <2>3. DOMAIN Reclaim(entries, C, {c}) \subseteq DOMAIN C
    BY ReclaimFacts
  <2> QED
    BY <1>1, <2>1, <2>2, <2>3
<1>7. ASSUME NEW owners, Invalidate(owners)
      PROVE  CapsTyped'
  <2> DEFINE marked == {c \in DOMAIN caps :
                 caps[c].live /\ ~caps[c].staged /\ caps[c].owner \in owners}
             C == [c \in DOMAIN caps |-> IF c \in marked
                                         THEN [caps[c] EXCEPT !.pending = TRUE]
                                         ELSE caps[c]]
  <2>1. PICK T : caps' = Reclaim(entries', C, T) /\ nextCap' = nextCap
    BY <1>7 DEF Invalidate
  <2>2. DOMAIN C = DOMAIN caps
    OBVIOUS
  <2> HIDE DEF C
  <2>3. DOMAIN Reclaim(entries', C, T) \subseteq DOMAIN C
    BY ReclaimFacts
  <2> QED
    BY <1>1, <2>1, <2>2, <2>3
<1>8. ASSUME NEW P, MakeCurrent(P)
      PROVE  CapsTyped'
  BY <1>2, <1>8 DEF MakeCurrent
<1>9. ASSUME HolderStep
      PROVE  CapsTyped'
  <2>1. PICK h \in Holders, g \in DOMAIN entries :
          AcquireCurrent(h, g) \/ AcquireSnapshot(h, g) \/ Release(h, g)
    BY <1>9 DEF HolderStep
  <2>2. CASE Release(h, g)
    BY <1>2, <2>2 DEF Release
  <2>3. CASE AcquireCurrent(h, g) \/ AcquireSnapshot(h, g)
    BY <1>1, <2>3 DEF AcquireCurrent, AcquireSnapshot, Retained
  <2> QED
    BY <2>1, <2>2, <2>3
<1>10. ASSUME NEW i, Import(i)
       PROVE  CapsTyped'
  BY <1>2, <1>10 DEF Import
<1>11. ASSUME NEW p, RollbackCurrent(p)
       PROVE  CapsTyped'
  BY <1>2, <1>11 DEF RollbackCurrent
<1>12. ASSUME NEW i, ImportBegin(i)
       PROVE  CapsTyped'
  BY <1>1, <1>12 DEF ImportBegin
<1>13. ASSUME Reset
       PROVE  CapsTyped'
  BY <1>1, <1>13 DEF Reset
<1>14. CapsTyped'
  BY <1>3, <1>4, <1>5, <1>6, <1>7, <1>8, <1>9, <1>10, <1>11, <1>12, <1>13
     DEF Next, GuestStep, ImportCommit, ImportCommitMany, ImportCancel, RetireCurrent,
         InvalidateOwner, InvalidateFromOwner, SceneBoundary
<1>15. scene' \in 1..SceneLimit
  <2>1. scene \in 1..SceneLimit /\ SceneLimit \in Nat
    BY RepositoryAssumption DEF Typed
  <2>2. SceneBoundary => scene' = scene + 1 /\ scene < SceneLimit
    BY DEF SceneBoundary
  <2>3. ~SceneBoundary => scene' = scene
    BY DEF Next, GuestStep, HolderStep, Register, Revoke, RetireCapability, ImportBegin,
       Import, ImportCommit, ImportCommitMany, ImportCancel, RetireCurrent,
       RollbackCurrent, InvalidateOwner, InvalidateFromOwner, Reset, AcquireCurrent,
       AcquireSnapshot, Retained, Release
  <2> QED
    BY <2>1, <2>2, <2>3
<1> QED
  BY <1>14, <1>15

(* One current generation at most, whichever of the four a step does.        *)
LEMMA OneStaysCurrent ==
  ASSUME RepositoryInv, Shrinks \/ Adds \/ Installs \/ Reverts
  PROVE  OneCurrent'
<1> DEFINE Alone(g) == \A h \in DOMAIN entries' :
             entries'[h].current /\ entries'[g].import.res = entries'[h].import.res => g = h
           Good(g) == entries'[g].state = "owned" /\ ~entries'[g].staged
<1>1. SUFFICES ASSUME NEW g \in DOMAIN entries', entries'[g].current
               PROVE  Good(g) /\ Alone(g)
  BY DEF OneCurrent, Owned, Res
<1>2. \A x \in DOMAIN entries : entries[x].current =>
        /\ entries[x].state = "owned" /\ ~entries[x].staged
        /\ \A h \in DOMAIN entries :
             entries[h].current /\ entries[x].import.res = entries[h].import.res => x = h
  BY DEF RepositoryInv, OneCurrent, Owned, Res
<1>3. CASE Shrinks
  BY <1>1, <1>2, <1>3 DEF Shrinks, Wanes, Stays
<1>4. CASE Adds
  <2>1. CASE g = nextGen
    BY <1>1, <1>4, <2>1 DEF Adds
  <2>2. CASE g # nextGen
    BY <1>1, <1>2, <1>4, <2>2 DEF Adds, Wanes, Stays
  <2> QED
    BY <2>1, <2>2
<1>5. CASE Installs
  <2>1. PICK P \in SUBSET DOMAIN entries :
          /\ \A x, y \in P : Res(x) = Res(y) => x = y
          /\ \A x \in DOMAIN entries' :
               \/ x \notin P /\ Wanes(x)
                    /\ (entries'[x].current => \A h \in P : Res(h) # Res(x))
               \/ x \in P /\ Stays(x) /\ Good(x)
    BY <1>5 DEF Installs
  <2>2. \A x \in DOMAIN entries' :
          x \in DOMAIN entries /\ entries'[x].import.res = Res(x)
    BY <2>1 DEF Wanes, Stays, Res
  <2>3. CASE g \in P
    BY <1>1, <2>1, <2>2, <2>3
  <2>4. CASE g \notin P
    BY <1>1, <1>2, <2>1, <2>2, <2>4 DEF Wanes, Res
  <2> QED
    BY <2>3, <2>4
<1>6. CASE Reverts
  <2>1. PICK p \in undo :
          /\ {p[1], p[2]} \subseteq DOMAIN entries /\ entries[p[1]].current
          /\ \A x \in DOMAIN entries' :
               \/ x # p[2] /\ Wanes(x) /\ (entries'[x].current => x # p[1])
               \/ x = p[2] /\ Stays(x) /\ Good(x)
    BY <1>6 DEF Reverts
  <2>2. Res(p[1]) = Res(p[2])
    BY <2>1 DEF RepositoryInv, UndoMatches
  <2>3. \A x \in DOMAIN entries' :
          x \in DOMAIN entries /\ entries'[x].import.res = Res(x)
    BY <2>1 DEF Wanes, Stays, Res
  <2>4. \A x \in DOMAIN entries' : entries'[x].current /\ x # p[2] => Res(x) # Res(p[1])
    BY <1>2, <2>1, <2>3 DEF Wanes, Res
  <2>5. CASE g = p[2]
    BY <1>1, <2>1, <2>2, <2>3, <2>4, <2>5
  <2>6. CASE g # p[2]
    BY <1>1, <1>2, <2>1, <2>2, <2>3, <2>4, <2>6 DEF Wanes, Res
  <2> QED
    BY <2>5, <2>6
<1> QED
  BY <1>3, <1>4, <1>5, <1>6

(* A commit keeps relating two generations of one resource: entries keep     *)
(* what was imported, and a generation handed out is never handed out again. *)
LEMMA UndoStaysMatched ==
  ASSUME RepositoryInv, Next, EntriesTyped', Shrinks \/ Adds \/ Installs \/ Reverts
  PROVE  UndoMatches'
<1>1. SUFFICES ASSUME NEW p \in undo'
      PROVE /\ p[1] \in Gens /\ p[2] \in Gens /\ p[1] < nextGen' /\ p[2] < nextGen'
            /\ p[1] \in DOMAIN entries' /\ p[2] \in DOMAIN entries'
                 => entries'[p[1]].import.res = entries'[p[2]].import.res
  BY DEF UndoMatches, Res
<1>2. /\ p[1] \in Gens /\ p[2] \in Gens /\ p[1] < nextGen /\ p[2] < nextGen
      /\ p[1] \in DOMAIN entries /\ p[2] \in DOMAIN entries => Res(p[1]) = Res(p[2])
  BY UndoGrows DEF RepositoryInv, UndoMatches, Typed, EntriesTyped
<1>3. /\ nextGen \in Int /\ nextGen' \in {nextGen, nextGen + 1}
      /\ p[1] \in Int /\ p[2] \in Int
  BY <1>2 DEF Shrinks, Adds, Installs, Reverts, RepositoryInv, Typed, EntriesTyped, Gens
<1>4. \A g \in DOMAIN entries' :
        \/ g = nextGen
        \/ g \in DOMAIN entries /\ entries'[g].import = entries[g].import
  BY DEF Shrinks, Adds, Installs, Reverts, Wanes, Stays
<1>5. p[1] # nextGen /\ p[2] # nextGen
  BY <1>2, <1>3
<1>6. p[1] < nextGen' /\ p[2] < nextGen'
  BY <1>2, <1>3
<1> QED
  BY <1>2, <1>4, <1>5, <1>6 DEF Res

(* The invariant holds at the start and through every step.                  *)
LEMMA InitInv == Init => RepositoryInv
BY RepositoryAssumption
   DEF Init, RepositoryInv, Typed, EntriesTyped, CapsTyped, OneCurrent, UndoMatches

LEMMA NextInv == RepositoryInv /\ [Next]_vars => RepositoryInv'
<1> SUFFICES ASSUME RepositoryInv, [Next]_vars
             PROVE  RepositoryInv'
  OBVIOUS
<1>1. CASE UNCHANGED vars
  BY <1>1 DEF vars, RepositoryInv, Typed, EntriesTyped, CapsTyped, OneCurrent,
     UndoMatches, Res, Owned
<1>2. CASE Next
  <2>1. Typed
    BY DEF RepositoryInv
  <2>2. Shrinks \/ Adds \/ Installs \/ Reverts
    BY <1>2, <2>1, StepShape
  <2>3. EntriesTyped'
    BY <2>1, <2>2, EntriesStayTyped DEF Typed
  <2>4. CapsTyped' /\ scene' \in 1..SceneLimit
    BY <1>2, <2>1, CapsStayTyped
  <2>5. OneCurrent'
    BY <2>2, OneStaysCurrent
  <2>6. UndoMatches'
    BY <1>2, <2>2, <2>3, UndoStaysMatched
  <2> QED
    BY <2>3, <2>4, <2>5, <2>6 DEF RepositoryInv, Typed
<1> QED
  BY <1>1, <1>2

THEOREM RepositoryInvariant == Spec => []RepositoryInv
BY InitInv, NextInv, PTL DEF Spec

(* A resource never has two current generations, and none that is still      *)
(* being imported or reserved is current, through every order of imports,    *)
(* batches, supersessions, rollbacks and invalidations.                      *)
THEOREM OneCurrentHolds == Spec => []OneCurrent
<1>1. RepositoryInv => OneCurrent
  BY DEF RepositoryInv
<1> QED
  BY <1>1, RepositoryInvariant, PTL

(* What was superseded, invalidated or retired becomes current again only by *)
(* the rollback of the very commit that superseded it, while that is current *)
(* still: no import, commit or release brings back a stale generation.       *)
THEOREM StaleNeverReturns == Spec => StaleStaysStale
<1> DEFINE Back == \A g \in DOMAIN entries \cap DOMAIN entries' :
                     Owned(g) /\ ~entries[g].current /\ entries'[g].current
                       => \E p \in undo : p[2] = g /\ entries[p[1]].current
<1>1. RepositoryInv /\ [Next]_vars => [Back]_vars
  <2> SUFFICES ASSUME RepositoryInv, Next,
                      NEW g \in DOMAIN entries \cap DOMAIN entries',
                      Owned(g), ~entries[g].current, entries'[g].current
               PROVE  \E p \in undo : p[2] = g /\ entries[p[1]].current
    OBVIOUS
  <2>1. Shrinks \/ Adds \/ Installs \/ Reverts
    BY StepShape DEF RepositoryInv
  <2>2. g # nextGen /\ entries[g].state = "owned"
    BY DEF RepositoryInv, Typed, EntriesTyped, Gens, Owned
  <2>3. ~Shrinks /\ ~Adds
    BY <2>2 DEF Shrinks, Adds, Wanes
  <2>4. ~Installs
    BY <2>2 DEF Installs, Wanes
  <2> QED
    BY <2>1, <2>3, <2>4 DEF Reverts, Wanes
<1> QED
  BY <1>1, RepositoryInvariant, PTL DEF Spec, StaleStaysStale

----------------------------------------------------------------------------
(***************************************************************************)
(* Nothing leaks: references, generations, identities and retired          *)
(* authority end with their last use, and not before.                      *)
(***************************************************************************)
(* The three accounts NothingLeaks keeps, as predicates on tables.           *)
Users(H, g) == {h \in Holders : <<h, g>> \in H}
Useful(e) == e.current \/ e.retains # 0 \/ e.state = "importing"

Accounted(E, H) ==
  /\ H \subseteq Holders \X Gens
  /\ \A p \in H : p[2] \in DOMAIN E
  /\ \A g \in DOMAIN E : E[g].retains = Cardinality(Users(H, g)) /\ Useful(E[g])

Identified(E, I) ==
  /\ DOMAIN I = {E[g].import.res : g \in DOMAIN E}
  /\ \A g \in DOMAIN E : I[E[g].import.res] = E[g].import.ident

InUse(E, C) ==
  \A c \in DOMAIN C : C[c].live /\ C[c].pending /\ ~C[c].staged =>
    \E g \in DOMAIN E : E[g].import.cap = c

LeakInv ==
  /\ RepositoryInv
  /\ Accounted(entries, held)
  /\ Identified(entries, identity)
  /\ InUse(entries, caps)

LEMMA UsersFinite ==
  ASSUME NEW H, NEW g
  PROVE  IsFiniteSet(Users(H, g)) /\ Cardinality(Users(H, g)) \in Nat
<1>1. IsFiniteSet(Holders) /\ Users(H, g) \subseteq Holders
  BY RepositoryAssumption DEF Users
<1>2. IsFiniteSet(Users(H, g))
  BY <1>1, FS_Subset
<1> QED
  BY <1>2, FS_CardinalityType

LEMMA NoUsers ==
  ASSUME NEW H, NEW g, Cardinality(Users(H, g)) = 0, NEW h \in Holders
  PROVE  <<h, g>> \notin H
<1>1. IsFiniteSet(Users(H, g))
  BY UsersFinite
<1>2. Users(H, g) = {}
  BY <1>1, FS_EmptySet
<1> QED
  BY <1>2 DEF Users

----------------------------------------------------------------------------
(***************************************************************************)
(* References.                                                             *)
(***************************************************************************)
(* References stay right when none is taken or returned, counts stay, what   *)
(* enters has none and what goes had none.                                   *)
LEMMA AccountKept ==
  ASSUME NEW E, NEW F, NEW H, Accounted(E, H),
         \A g \in DOMAIN F : Useful(F[g]),
         \A g \in DOMAIN F \cap DOMAIN E : F[g].retains = E[g].retains,
         \A g \in DOMAIN F \ DOMAIN E : F[g].retains = 0,
         \A g \in DOMAIN E \ DOMAIN F : E[g].retains = 0
  PROVE  Accounted(F, H)
<1>1. ASSUME NEW p \in H
      PROVE  p[2] \in DOMAIN F
  <2>1. p[1] \in Holders /\ p = <<p[1], p[2]>> /\ p[2] \in DOMAIN E
    BY <1>1 DEF Accounted
  <2>2. Cardinality(Users(H, p[2])) = E[p[2]].retains
    BY <2>1 DEF Accounted
  <2> SUFFICES ASSUME E[p[2]].retains = 0 PROVE FALSE
    BY <2>1
  <2>3. <<p[1], p[2]>> \notin H
    BY <2>1, <2>2, NoUsers
  <2> QED
    BY <2>1, <2>3, <1>1
<1>2. ASSUME NEW g \in DOMAIN F
      PROVE  F[g].retains = Cardinality(Users(H, g))
  <2>1. CASE g \in DOMAIN E
    BY <1>2, <2>1 DEF Accounted
  <2>2. CASE g \notin DOMAIN E
    <3>1. Users(H, g) = {}
      BY <2>2 DEF Users, Accounted
    <3> QED
      BY <1>2, <2>2, <3>1, FS_EmptySet
  <2> QED
    BY <2>1, <2>2
<1> QED
  BY <1>1, <1>2 DEF Accounted

(* Dropping entries keeps the counts of those that stay.                     *)
LEMMA DroppedAccount ==
  ASSUME EntriesTyped, Accounted(entries, held), NEW S
  PROVE  /\ \A g \in DOMAIN Dropped(S) :
              /\ g \in DOMAIN entries /\ Useful(Dropped(S)[g])
              /\ Dropped(S)[g].retains = entries[g].retains
         /\ \A g \in DOMAIN entries \ DOMAIN Dropped(S) :
              g \in S /\ entries[g].retains = 0
<1>1. \A g \in DOMAIN entries : Useful(entries[g])
  BY DEF Accounted
<1>2. \A g \in DOMAIN entries \ DOMAIN Dropped(S) : g \in S /\ entries[g].retains = 0
  BY DroppedFacts DEF Gone
<1>3. ASSUME NEW g \in DOMAIN Dropped(S)
      PROVE  /\ g \in DOMAIN entries /\ Useful(Dropped(S)[g])
             /\ Dropped(S)[g].retains = entries[g].retains
  <2>1. /\ g \in DOMAIN entries /\ g \notin Gone(S)
        /\ Dropped(S)[g].retains = entries[g].retains
        /\ g \notin S => Dropped(S)[g] = entries[g]
    BY DroppedTyped
  <2>2. CASE g \in S
    BY <2>1, <2>2 DEF Gone, Useful
  <2>3. CASE g \notin S
    BY <1>1, <2>1, <2>3
  <2> QED
    BY <2>1, <2>2, <2>3
<1> QED
  BY <1>2, <1>3

LEMMA DropAccounted ==
  ASSUME EntriesTyped, Accounted(entries, held), NEW S
  PROVE  Accounted(Dropped(S), held)
<1> DEFINE F == Dropped(S)
<1>1. /\ \A g \in DOMAIN F : Useful(F[g]) /\ g \in DOMAIN entries
      /\ \A g \in DOMAIN F \cap DOMAIN entries : F[g].retains = entries[g].retains
      /\ \A g \in DOMAIN entries \ DOMAIN F : entries[g].retains = 0
  BY DroppedAccount
<1>2. \A g \in DOMAIN F \ DOMAIN entries : F[g].retains = 0
  BY <1>1
<1> HIDE DEF F
<1>3. Accounted(F, held)
  BY <1>1, <1>2, AccountKept
<1> QED
  BY <1>3 DEF F

(* One more user, one more reference.                                        *)
LEMMA RetainedAccounted ==
  ASSUME EntriesTyped, Accounted(entries, held), NEW h \in Holders,
         NEW g \in DOMAIN entries, Retained(h, g)
  PROVE  Accounted(entries', held')
<1>1. /\ DOMAIN entries' = DOMAIN entries
      /\ held' = held \cup {<<h, g>>} /\ <<h, g>> \notin held
      /\ \A x \in DOMAIN entries \ {g} : entries'[x] = entries[x]
      /\ entries'[g] = [entries[g] EXCEPT !.retains = @ + 1]
  BY DEF Retained
<1>2. ASSUME NEW e \in Shape, NEW d, d = [e EXCEPT !.retains = @ + 1]
      PROVE  d.retains = e.retains + 1
  BY <1>2 DEF Shape
<1>3. entries'[g].retains = entries[g].retains + 1
  BY <1>1, <1>2 DEF EntriesTyped
<1>4. entries[g].retains = Cardinality(Users(held, g))
  BY DEF Accounted
<1>5. Cardinality(Users(held, g)) \in Nat
  BY UsersFinite
<1>6. Cardinality(Users(held', g)) = Cardinality(Users(held, g)) + 1
  <2>1. IsFiniteSet(Users(held, g))
    BY UsersFinite
  <2>2. h \notin Users(held, g) /\ Users(held', g) = Users(held, g) \cup {h}
    BY <1>1 DEF Users
  <2> QED
    BY <2>1, <2>2, FS_AddElement
<1>7. \A x \in DOMAIN entries \ {g} : Users(held', x) = Users(held, x)
  BY <1>1 DEF Users
<1>8. entries'[g].retains # 0
  BY <1>3, <1>4, <1>5
<1>9. \A x \in DOMAIN entries' :
        entries'[x].retains = Cardinality(Users(held', x)) /\ Useful(entries'[x])
  BY <1>1, <1>3, <1>4, <1>6, <1>7, <1>8 DEF Accounted, Useful
<1>10. /\ held' \subseteq Holders \X Gens
       /\ \A p \in held' : p[2] \in DOMAIN entries'
  BY <1>1 DEF Accounted, EntriesTyped
<1> QED
  BY <1>9, <1>10 DEF Accounted

(* One user less, one reference less; the last one takes what is not current.*)
LEMMA ReleaseAccounted ==
  ASSUME EntriesTyped, Accounted(entries, held), NEW h \in Holders,
         NEW g \in DOMAIN entries, Release(h, g)
  PROVE  Accounted(entries', held')
<1> DEFINE S == IF LastRelease(g) THEN {g} ELSE {}
<1>1. /\ entries' = Without(ReleasedEntries(g), S)
      /\ <<h, g>> \in held /\ held' = held \ {<<h, g>>}
  BY DEF Release
<1>2. /\ DOMAIN ReleasedEntries(g) = DOMAIN entries
      /\ \A x \in DOMAIN entries \ {g} : ReleasedEntries(g)[x] = entries[x]
      /\ ReleasedEntries(g)[g] = [entries[g] EXCEPT !.retains = @ - 1]
  BY DEF ReleasedEntries
<1>3. /\ DOMAIN entries' = DOMAIN entries \ S
      /\ \A x \in DOMAIN entries' : entries'[x] = ReleasedEntries(g)[x]
  <2>1. /\ DOMAIN Without(ReleasedEntries(g), S) = DOMAIN ReleasedEntries(g) \ S
        /\ \A x \in DOMAIN ReleasedEntries(g) \ S :
             Without(ReleasedEntries(g), S)[x] = ReleasedEntries(g)[x]
    BY WithoutFacts
  <2> HIDE DEF S
  <2> QED
    BY <1>1, <1>2, <2>1
<1>4. ASSUME NEW e \in Shape, NEW d, d = [e EXCEPT !.retains = @ - 1]
      PROVE  d.retains = e.retains - 1 /\ d.current = e.current /\ d.state = e.state
  BY <1>4 DEF Shape
<1>5. entries[g] \in Shape /\ entries[g].retains \in Int
  BY DEF EntriesTyped, Shape
<1>6. entries[g].retains = Cardinality(Users(held, g))
  BY DEF Accounted
<1>7. Cardinality(Users(held', g)) = entries[g].retains - 1
  <2>1. IsFiniteSet(Users(held, g))
    BY UsersFinite
  <2>2. h \in Users(held, g) /\ Users(held', g) = Users(held, g) \ {h}
    BY <1>1 DEF Users
  <2> QED
    BY <1>6, <2>1, <2>2, FS_RemoveElement
<1>8. \A x \in DOMAIN entries \ {g} : Users(held', x) = Users(held, x)
  BY <1>1 DEF Users
<1>9. ASSUME g \in DOMAIN entries'
      PROVE  entries'[g].retains = Cardinality(Users(held', g)) /\ Useful(entries'[g])
  <2>1. /\ entries'[g].retains = entries[g].retains - 1
        /\ entries'[g].current = entries[g].current
    BY <1>2, <1>3, <1>4, <1>5, <1>9
  <2>2. ~LastRelease(g)
    BY <1>3, <1>9
  <2> QED
    BY <1>5, <1>7, <2>1, <2>2 DEF LastRelease, Useful
<1>10. ASSUME NEW x \in DOMAIN entries' \ {g}
       PROVE  entries'[x].retains = Cardinality(Users(held', x)) /\ Useful(entries'[x])
  BY <1>2, <1>3, <1>8, <1>10 DEF Accounted
<1>11. ASSUME NEW p \in held'
       PROVE  p[2] \in DOMAIN entries'
  <2>1. p \in held /\ p # <<h, g>> /\ p \in Holders \X Gens /\ p[2] \in DOMAIN entries
    BY <1>1, <1>11 DEF Accounted
  <2> SUFFICES ASSUME p[2] = g, LastRelease(g) PROVE FALSE
    BY <1>3, <2>1
  <2>2. Cardinality(Users(held', g)) = 0
    BY <1>7 DEF LastRelease
  <2>3. <<p[1], g>> \notin held' /\ p = <<p[1], g>>
    BY <2>1, <2>2, NoUsers
  <2> QED
    BY <1>11, <2>3
<1>12. held' \subseteq Holders \X Gens
  BY <1>1 DEF Accounted
<1> QED
  BY <1>9, <1>10, <1>11, <1>12 DEF Accounted

(* Commits and rollbacks move no reference.                                  *)
LEMMA MakeCurrentAccounted ==
  ASSUME EntriesTyped, Accounted(entries, held), NEW P \in SUBSET DOMAIN entries,
         MakeCurrent(P)
  PROVE  Accounted(entries', held)
<1> DEFINE S == Superseded(P)
           D == Dropped(S)
<1>1. /\ DOMAIN entries' = DOMAIN D
      /\ \A g \in DOMAIN D \ P : entries'[g] = D[g]
      /\ \A g \in DOMAIN D \cap P :
           entries'[g] = [entries[g] EXCEPT !.state = "owned", !.current = TRUE,
                                            !.staged = FALSE]
  BY DEF MakeCurrent
<1>2. /\ \A g \in DOMAIN D : g \in DOMAIN entries /\ Useful(D[g])
                             /\ D[g].retains = entries[g].retains
      /\ \A g \in DOMAIN entries \ DOMAIN D : entries[g].retains = 0
  BY DroppedAccount
<1>3. ASSUME NEW e \in Shape, NEW d,
             d = [e EXCEPT !.state = "owned", !.current = TRUE, !.staged = FALSE]
      PROVE  d.retains = e.retains /\ d.current
  BY <1>3 DEF Shape
<1>4. \A g \in DOMAIN entries : entries[g] \in Shape
  BY DEF EntriesTyped
<1> HIDE DEF D
<1>5. ASSUME NEW g \in DOMAIN entries'
      PROVE  /\ g \in DOMAIN entries
             /\ entries'[g].retains = entries[g].retains /\ Useful(entries'[g])
  <2>1. g \in DOMAIN D /\ g \in DOMAIN entries /\ entries[g] \in Shape
    BY <1>1, <1>2, <1>4, <1>5
  <2>2. CASE g \in P
    <3>1. entries'[g] = [entries[g] EXCEPT !.state = "owned", !.current = TRUE,
                                           !.staged = FALSE]
      BY <1>1, <2>1, <2>2
    <3> QED
      BY <1>3, <2>1, <3>1 DEF Useful
  <2>3. CASE g \notin P
    BY <1>1, <1>2, <2>1, <2>3
  <2> QED
    BY <2>1, <2>2, <2>3
<1> DEFINE F == entries'
<1>6. /\ \A g \in DOMAIN F : Useful(F[g])
      /\ \A g \in DOMAIN F \cap DOMAIN entries : F[g].retains = entries[g].retains
      /\ \A g \in DOMAIN F \ DOMAIN entries : F[g].retains = 0
      /\ \A g \in DOMAIN entries \ DOMAIN F : entries[g].retains = 0
  BY <1>1, <1>2, <1>5
<1> HIDE DEF F
<1>7. Accounted(F, held)
  BY <1>6, AccountKept
<1> QED
  BY <1>7 DEF F

LEMMA RollbackAccounted ==
  ASSUME EntriesTyped, Accounted(entries, held), NEW p \in undo, RollbackCurrent(p)
  PROVE  Accounted(entries', held)
<1> DEFINE D == Dropped({p[1]})
<1>1. /\ DOMAIN entries' = DOMAIN D
      /\ \A g \in DOMAIN D \ {p[2]} : entries'[g] = D[g]
      /\ p[2] \in DOMAIN D => entries'[p[2]] = [entries[p[2]] EXCEPT !.current = TRUE]
  BY DEF RollbackCurrent
<1>2. /\ \A g \in DOMAIN D : g \in DOMAIN entries /\ Useful(D[g])
                             /\ D[g].retains = entries[g].retains
      /\ \A g \in DOMAIN entries \ DOMAIN D : entries[g].retains = 0
  BY DroppedAccount
<1>3. ASSUME NEW e \in Shape, NEW d, d = [e EXCEPT !.current = TRUE]
      PROVE  d.retains = e.retains /\ d.current
  BY <1>3 DEF Shape
<1>4. \A g \in DOMAIN entries : entries[g] \in Shape
  BY DEF EntriesTyped
<1> HIDE DEF D
<1>5. ASSUME NEW g \in DOMAIN entries'
      PROVE  /\ g \in DOMAIN entries
             /\ entries'[g].retains = entries[g].retains /\ Useful(entries'[g])
  BY <1>1, <1>2, <1>3, <1>4, <1>5 DEF Useful
<1> DEFINE F == entries'
<1>6. /\ \A g \in DOMAIN F : Useful(F[g])
      /\ \A g \in DOMAIN F \cap DOMAIN entries : F[g].retains = entries[g].retains
      /\ \A g \in DOMAIN F \ DOMAIN entries : F[g].retains = 0
      /\ \A g \in DOMAIN entries \ DOMAIN F : entries[g].retains = 0
  BY <1>1, <1>2, <1>5
<1> HIDE DEF F
<1>7. Accounted(F, held)
  BY <1>6, AccountKept
<1> QED
  BY <1>7 DEF F

(* What enters is current or pending, and nobody's yet.                      *)
LEMMA PutAccounted ==
  ASSUME NEW E, NEW H, Accounted(E, H), NEW g, g \notin DOMAIN E,
         NEW e, e.retains = 0, Useful(e)
  PROVE  Accounted(Put(E, g, e), H)
<1> DEFINE F == Put(E, g, e)
<1>1. /\ DOMAIN F = DOMAIN E \cup {g} /\ F[g] = e
      /\ \A x \in DOMAIN E \ {g} : F[x] = E[x]
  BY DEF Put
<1> HIDE DEF F
<1>2. /\ \A x \in DOMAIN F : Useful(F[x])
      /\ \A x \in DOMAIN F \cap DOMAIN E : F[x].retains = E[x].retains
      /\ \A x \in DOMAIN F \ DOMAIN E : F[x].retains = 0
      /\ \A x \in DOMAIN E \ DOMAIN F : E[x].retains = 0
  BY <1>1 DEF Accounted
<1>3. Accounted(F, H)
  BY <1>2, AccountKept
<1> QED
  BY <1>3 DEF F

----------------------------------------------------------------------------
(***************************************************************************)
(* Identities.                                                             *)
(***************************************************************************)
(* F is a part of E: what is left of it keeps what was imported.             *)
PartOf(F, E) ==
  \A g \in DOMAIN F : g \in DOMAIN E /\ F[g].import = E[g].import

LEMMA DroppedPart ==
  ASSUME EntriesTyped, NEW S
  PROVE  PartOf(Dropped(S), entries)
BY DroppedTyped DEF PartOf

(* An identity goes with the last entry of its resource.                     *)
LEMMA IdentityReclaimed ==
  ASSUME Identified(entries, identity), NEW F, PartOf(F, entries),
         NEW S \in SUBSET DOMAIN entries, DOMAIN entries \ DOMAIN F \subseteq S
  PROVE  Identified(F, IdentityWithout(F, S))
<1> DEFINE X == {Res(g) : g \in S} \ {F[g].import.res : g \in DOMAIN F}
           I == Without(identity, X)
<1>1. IdentityWithout(F, S) = I
  BY DEF IdentityWithout
<1>2. DOMAIN I = DOMAIN identity \ X /\ \A x \in DOMAIN identity \ X : I[x] = identity[x]
  <2>1. /\ DOMAIN Without(identity, X) = DOMAIN identity \ X
        /\ \A x \in DOMAIN identity \ X : Without(identity, X)[x] = identity[x]
    BY WithoutFacts
  <2> QED
    BY <2>1
<1>3. DOMAIN identity = {Res(g) : g \in DOMAIN entries}
  BY DEF Identified, Res
<1>4. \A g \in DOMAIN F : F[g].import = entries[g].import /\ g \in DOMAIN entries
  BY DEF PartOf
<1> HIDE DEF I
<1>5. DOMAIN identity \ X = {F[g].import.res : g \in DOMAIN F}
  BY <1>3, <1>4 DEF Res
<1> HIDE DEF X
<1>6. \A g \in DOMAIN F : I[F[g].import.res] = F[g].import.ident
  BY <1>2, <1>4, <1>5 DEF Identified
<1>7. Identified(F, I)
  BY <1>2, <1>5, <1>6 DEF Identified
<1> QED
  BY <1>1, <1>7

(* It stays when what goes leaves another entry of its resource behind.      *)
LEMMA IdentityKept ==
  ASSUME Identified(entries, identity), NEW F, PartOf(F, entries),
         \A g \in DOMAIN entries \ DOMAIN F : \E h \in DOMAIN F : Res(h) = Res(g)
  PROVE  Identified(F, identity)
<1>1. DOMAIN identity = {Res(g) : g \in DOMAIN entries}
  BY DEF Identified, Res
<1>2. \A g \in DOMAIN F : F[g].import = entries[g].import /\ g \in DOMAIN entries
  BY DEF PartOf
<1>3. DOMAIN identity = {F[g].import.res : g \in DOMAIN F}
  BY <1>1, <1>2 DEF Res
<1> QED
  BY <1>2, <1>3 DEF Identified

(* An import brings its identity, which nobody contests.                     *)
LEMMA IdentityEntered ==
  ASSUME Identified(entries, identity), NEW D, PartOf(D, entries),
         NEW i, IdentityAgrees(i),
         \A g \in DOMAIN entries \ DOMAIN D : Res(g) = i.res,
         NEW n, n \notin DOMAIN entries, NEW e, e.import = i
  PROVE  Identified(Put(D, n, e), Put(identity, i.res, i.ident))
<1> DEFINE F == Put(D, n, e)
           I == Put(identity, i.res, i.ident)
<1>1. /\ DOMAIN F = DOMAIN D \cup {n} /\ F[n] = e
      /\ \A x \in DOMAIN D : F[x] = D[x]
  BY DEF Put, PartOf
<1>2. /\ DOMAIN I = DOMAIN identity \cup {i.res} /\ I[i.res] = i.ident
      /\ \A r \in DOMAIN identity \ {i.res} : I[r] = identity[r]
  BY DEF Put
<1> HIDE DEF F, I
<1>3. DOMAIN identity = {Res(g) : g \in DOMAIN entries}
  BY DEF Identified, Res
<1>4. \A g \in DOMAIN D : D[g].import = entries[g].import /\ g \in DOMAIN entries
  BY DEF PartOf
<1>5. DOMAIN I = {F[g].import.res : g \in DOMAIN F}
  BY <1>1, <1>2, <1>3, <1>4 DEF Res
<1>6. \A g \in DOMAIN entries : identity[Res(g)] = entries[g].import.ident
  BY DEF Identified, Res
<1>7. i.res \in DOMAIN identity => identity[i.res] = i.ident
  BY DEF IdentityAgrees
<1>8. ASSUME NEW g \in DOMAIN D
      PROVE  I[F[g].import.res] = F[g].import.ident
  <2>1. F[g].import = entries[g].import /\ g \in DOMAIN entries
    BY <1>1, <1>4, <1>8
  <2>2. Res(g) \in DOMAIN identity /\ F[g].import.res = Res(g)
    BY <1>3, <2>1 DEF Res
  <2> QED
    BY <1>2, <1>6, <1>7, <2>1, <2>2
<1>9. I[F[n].import.res] = F[n].import.ident
  BY <1>1, <1>2
<1>10. Identified(F, I)
  BY <1>1, <1>5, <1>8, <1>9 DEF Identified
<1> QED
  BY <1>10 DEF F, I

----------------------------------------------------------------------------
(***************************************************************************)
(* Authority.                                                              *)
(***************************************************************************)
(* What is reclaimed is looked at: authority that loses an entry, or becomes *)
(* retired, is among what Reclaim is asked about.                            *)
LEMMA AuthorityReclaimed ==
  ASSUME InUse(entries, caps), NEW C, DOMAIN C = DOMAIN caps, NEW T,
         \A c \in DOMAIN caps \ T : C[c] = caps[c],
         NEW D, PartOf(D, entries),
         \A g \in DOMAIN entries \ DOMAIN D : entries[g].import.cap \in T
  PROVE  InUse(D, Reclaim(D, C, T))
<1> DEFINE R == {c \in T \cap DOMAIN C :
                   /\ C[c].live /\ C[c].pending /\ ~C[c].staged
                   /\ \A g \in DOMAIN D : D[g].import.cap # c}
           N == Reclaim(D, C, T)
<1>1. DOMAIN N = DOMAIN C \ R /\ \A c \in DOMAIN N : N[c] = C[c]
  <2>1. N = Without(C, R)
    BY DEF Reclaim
  <2>2. DOMAIN Without(C, R) = DOMAIN C \ R /\ \A c \in DOMAIN C \ R : Without(C, R)[c] = C[c]
    BY WithoutFacts
  <2> HIDE DEF R, N
  <2> QED
    BY <2>1, <2>2
<1> HIDE DEF N
<1>2. SUFFICES ASSUME NEW c \in DOMAIN N, C[c].live, C[c].pending, ~C[c].staged
               PROVE  \E g \in DOMAIN D : D[g].import.cap = c
  BY <1>1 DEF InUse, N
<1>3. CASE c \in T
  BY <1>1, <1>2, <1>3
<1>4. CASE c \notin T
  <2>1. PICK g \in DOMAIN entries : entries[g].import.cap = c
    BY <1>1, <1>2, <1>4 DEF InUse
  <2>2. g \in DOMAIN D
    BY <1>4, <2>1
  <2> QED
    BY <2>1, <2>2 DEF PartOf
<1> QED
  BY <1>3, <1>4

(* More entries leave no authority without use.                              *)
LEMMA InUseMore ==
  ASSUME NEW D, NEW E, NEW C, InUse(D, C), PartOf(D, E)
  PROVE  InUse(E, C)
BY DEF InUse, PartOf

----------------------------------------------------------------------------
(***************************************************************************)
(* Every step keeps all three.                                             *)
(***************************************************************************)
Books ==
  Accounted(entries, held) /\ Identified(entries, identity) /\ InUse(entries, caps)

(* Only what is gone, and so was retained by nobody, leaves the table.       *)
LEMMA DroppedGone ==
  ASSUME NEW S \in SUBSET DOMAIN entries
  PROVE  /\ DOMAIN entries \ DOMAIN Dropped(S) = Gone(S)
         /\ Gone(S) \in SUBSET DOMAIN entries /\ Gone(S) \subseteq S
<1>1. Gone(S) \in SUBSET DOMAIN entries /\ Gone(S) \subseteq S
  BY DEF Gone
<1>2. DOMAIN Dropped(S) = DOMAIN entries \ Gone(S)
  BY DroppedFacts
<1> QED
  BY <1>1, <1>2

(* Dropping entries: their identities and their authority are reclaimed.     *)
LEMMA DropBooks ==
  ASSUME LeakInv, NEW S \in SUBSET DOMAIN entries,
         NEW C, DOMAIN C = DOMAIN caps, NEW T,
         \A c \in DOMAIN caps \ T : C[c] = caps[c],
         CapsOf(Gone(S)) \subseteq T,
         entries' = Dropped(S), held' = held,
         identity' = IdentityWithout(Dropped(S), Gone(S)),
         caps' = Reclaim(Dropped(S), C, T)
  PROVE  Books'
<1> DEFINE D == Dropped(S)
<1>1. EntriesTyped /\ Books
  BY DEF LeakInv, Books, RepositoryInv, Typed
<1>2. DOMAIN entries \ DOMAIN D \subseteq Gone(S) /\ Gone(S) \in SUBSET DOMAIN entries
  BY DroppedGone
<1>3. PartOf(D, entries)
  BY <1>1, DroppedPart
<1>4. Accounted(D, held)
  BY <1>1, DropAccounted DEF Books
<1>5. \A g \in DOMAIN entries \ DOMAIN D : entries[g].import.cap \in T
  BY <1>2 DEF CapsOf
<1> HIDE DEF D
<1>6. Identified(D, IdentityWithout(D, Gone(S)))
  BY <1>1, <1>2, <1>3, IdentityReclaimed DEF Books
<1>7. InUse(D, Reclaim(D, C, T))
  BY <1>1, <1>3, <1>5, AuthorityReclaimed DEF Books
<1> QED
  BY <1>4, <1>6, <1>7 DEF Books, D

LEMMA DropActionBooks ==
  ASSUME LeakInv, NEW g \in DOMAIN entries, Drop({g}), held' = held
  PROVE  Books'
<1> DEFINE T == CapsOf(Gone({g}))
<1>1. /\ entries' = Dropped({g}) /\ caps' = Reclaim(Dropped({g}), caps, T)
      /\ identity' = IdentityWithout(Dropped({g}), Gone({g}))
  BY DEF Drop
<1> HIDE DEF T
<1>2. CapsOf(Gone({g})) \subseteq T
  BY DEF T
<1> QED
  BY <1>1, <1>2, DropBooks

LEMMA InvalidateBooks ==
  ASSUME LeakInv, NEW owners, Invalidate(owners)
  PROVE  Books'
<1> DEFINE S == {g \in DOMAIN entries :
                   entries[g].import.owner \in owners /\ ~Protected(g)}
           marked == {c \in DOMAIN caps :
                   caps[c].live /\ ~caps[c].staged /\ caps[c].owner \in owners}
           C == [c \in DOMAIN caps |-> IF c \in marked
                                       THEN [caps[c] EXCEPT !.pending = TRUE]
                                       ELSE caps[c]]
           T == marked \cup CapsOf(Gone(S))
<1>1. /\ entries' = Dropped(S) /\ held' = held
      /\ identity' = IdentityWithout(Dropped(S), Gone(S))
      /\ caps' = Reclaim(Dropped(S), C, T)
  BY DEF Invalidate
<1>2. /\ S \in SUBSET DOMAIN entries /\ DOMAIN C = DOMAIN caps
      /\ \A c \in DOMAIN caps \ T : C[c] = caps[c]
      /\ CapsOf(Gone(S)) \subseteq T
  OBVIOUS
<1> HIDE DEF S, C, T
<1> QED
  BY <1>1, <1>2, DropBooks

LEMMA RevokeBooks ==
  ASSUME LeakInv, NEW c \in DOMAIN caps, Revoke(c)
  PROVE  Books'
<1> DEFINE S == {g \in DOMAIN entries :
                   entries[g].import.cap = c /\ ~entries[g].staged}
           D == Dropped(S)
<1>1. /\ entries' = D /\ identity' = IdentityWithout(D, Gone(S))
      /\ caps' = Without(caps, {c}) /\ held' = held
  BY DEF Revoke
<1>2. EntriesTyped /\ Books
  BY DEF LeakInv, Books, RepositoryInv, Typed
<1>3. DOMAIN entries \ DOMAIN D \subseteq Gone(S) /\ Gone(S) \in SUBSET DOMAIN entries
  <2>1. S \in SUBSET DOMAIN entries
    OBVIOUS
  <2> HIDE DEF S
  <2> QED
    BY <2>1, DroppedGone
<1>4. PartOf(D, entries)
  BY <1>2, DroppedPart
<1>5. Accounted(D, held)
  BY <1>2, DropAccounted DEF Books
<1>6. \A g \in DOMAIN entries \ DOMAIN D : entries[g].import.cap = c
  BY <1>3 DEF Gone
<1> HIDE DEF D
<1>7. Identified(D, IdentityWithout(D, Gone(S)))
  BY <1>2, <1>3, <1>4, IdentityReclaimed DEF Books
<1>8. DOMAIN Without(caps, {c}) = DOMAIN caps \ {c}
      /\ \A x \in DOMAIN caps \ {c} : Without(caps, {c})[x] = caps[x]
  BY WithoutFacts
<1>9. InUse(D, Without(caps, {c}))
  BY <1>2, <1>4, <1>6, <1>8 DEF Books, InUse, PartOf
<1> QED
  BY <1>1, <1>5, <1>7, <1>9 DEF Books

(* Entries that stay as they are, with authority that is reclaimed or new.   *)
LEMMA RetireBooks ==
  ASSUME LeakInv, NEW c \in DOMAIN caps, RetireCapability(c)
  PROVE  Books'
<1> DEFINE C == [caps EXCEPT ![c].pending = TRUE]
           T == {c}
<1>1. /\ UNCHANGED <<entries, identity, held>>
      /\ caps' = Reclaim(entries, C, T)
  BY DEF RetireCapability
<1>2. DOMAIN C = DOMAIN caps /\ \A x \in DOMAIN caps \ T : C[x] = caps[x]
  OBVIOUS
<1> HIDE DEF C, T
<1>3. PartOf(entries, entries)
  BY DEF PartOf
<1>4. InUse(entries, Reclaim(entries, C, T))
  BY <1>2, <1>3, AuthorityReclaimed DEF LeakInv
<1> QED
  BY <1>1, <1>4 DEF LeakInv, Books

LEMMA RegisterBooks ==
  ASSUME LeakInv, NEW receipt, NEW rank, Register(receipt, rank)
  PROVE  Books'
<1> DEFINE v == Capability(receipt, OwnerOf(rank))
<1>1. UNCHANGED <<entries, identity, held>> /\ caps' = Put(caps, nextCap, v)
  BY DEF Register
<1>2. v.pending = FALSE
  BY DEF Capability
<1> HIDE DEF v
<1>3. /\ DOMAIN Put(caps, nextCap, v) = DOMAIN caps \cup {nextCap}
      /\ Put(caps, nextCap, v)[nextCap] = v
      /\ \A x \in DOMAIN caps \ {nextCap} : Put(caps, nextCap, v)[x] = caps[x]
  BY DEF Put
<1>4. InUse(entries, Put(caps, nextCap, v))
  BY <1>2, <1>3 DEF LeakInv, InUse
<1> QED
  BY <1>1, <1>4 DEF LeakInv, Books

(* A pending entry, and its identity.                                        *)
LEMMA ImportBeginBooks ==
  ASSUME LeakInv, NEW i \in GuestImports, ImportBegin(i)
  PROVE  Books'
<1> DEFINE e == Entry(i, "importing", FALSE, FALSE)
<1>1. /\ entries' = Put(entries, nextGen, e) /\ identity' = Put(identity, i.res, i.ident)
      /\ IdentityAgrees(i) /\ UNCHANGED <<caps, held>>
  BY DEF ImportBegin, BeginImport
<1>2. e.import = i /\ e.retains = 0 /\ Useful(e)
  BY DEF Entry, Useful
<1>3. Books /\ nextGen \notin DOMAIN entries
  BY DEF LeakInv, Books, RepositoryInv, Typed, EntriesTyped, Gens
<1> HIDE DEF e
<1>4. PartOf(entries, entries)
  BY DEF PartOf
<1>5. Accounted(Put(entries, nextGen, e), held)
  BY <1>2, <1>3, PutAccounted DEF Books
<1>6. Identified(Put(entries, nextGen, e), Put(identity, i.res, i.ident))
  BY <1>1, <1>2, <1>3, <1>4, IdentityEntered DEF Books
<1>7. PartOf(entries, Put(entries, nextGen, e))
  BY <1>3 DEF PartOf, Put
<1>8. InUse(Put(entries, nextGen, e), caps)
  BY <1>3, <1>7, InUseMore DEF Books
<1> QED
  BY <1>1, <1>5, <1>6, <1>8 DEF Books

(* A current entry takes the place of its predecessor.                       *)
LEMMA ImportBooks ==
  ASSUME LeakInv, NEW i \in GuestImports, Import(i)
  PROVE  Books'
<1> DEFINE e == Entry(i, "owned", TRUE, FALSE)
           S == {g \in DOMAIN entries : entries[g].current /\ Res(g) = i.res}
           D == Dropped(S)
           T == CapsOf(Gone(S))
<1>1. /\ entries' = Put(D, nextGen, e) /\ identity' = Put(identity, i.res, i.ident)
      /\ caps' = Reclaim(D, caps, T)
      /\ IdentityAgrees(i) /\ UNCHANGED held
  BY DEF Import
<1>2. e.import = i /\ e.retains = 0 /\ Useful(e)
  BY DEF Entry, Useful
<1>3. EntriesTyped /\ Books /\ nextGen \notin DOMAIN entries
  BY DEF LeakInv, Books, RepositoryInv, Typed, EntriesTyped, Gens
<1>4. S \in SUBSET DOMAIN entries /\ \A g \in S : Res(g) = i.res
  OBVIOUS
<1> HIDE DEF e, S
<1>5. DOMAIN entries \ DOMAIN D \subseteq Gone(S) /\ Gone(S) \subseteq S
  BY <1>4, DroppedGone
<1>6. PartOf(D, entries)
  BY <1>3, DroppedPart
<1>7. Accounted(D, held)
  BY <1>3, DropAccounted DEF Books
<1>8. \A g \in DOMAIN entries \ DOMAIN D : Res(g) = i.res /\ entries[g].import.cap \in T
  BY <1>4, <1>5 DEF CapsOf
<1> HIDE DEF D, T
<1>9. nextGen \notin DOMAIN D
  BY <1>3, <1>6 DEF PartOf
<1>10. Accounted(Put(D, nextGen, e), held)
  BY <1>2, <1>7, <1>9, PutAccounted
<1>11. Identified(Put(D, nextGen, e), Put(identity, i.res, i.ident))
  BY <1>1, <1>2, <1>3, <1>6, <1>8, IdentityEntered DEF Books
<1>12. PartOf(D, Put(D, nextGen, e))
  BY <1>9 DEF PartOf, Put
<1>13. InUse(D, Reclaim(D, caps, T))
  BY <1>3, <1>6, <1>8, AuthorityReclaimed DEF Books
<1>14. InUse(Put(D, nextGen, e), Reclaim(D, caps, T))
  BY <1>12, <1>13, InUseMore
<1> QED
  BY <1>1, <1>10, <1>11, <1>14 DEF Books

(* A commit leaves an entry for every resource it takes one from.            *)
LEMMA MakeCurrentBooks ==
  ASSUME LeakInv, NEW P \in SUBSET DOMAIN entries, MakeCurrent(P), held' = held
  PROVE  Books'
<1> DEFINE S == Superseded(P)
           D == Dropped(S)
           T == CapsOf(Gone(S))
<1>1. /\ DOMAIN entries' = DOMAIN D
      /\ \A g \in DOMAIN D \ P : entries'[g] = D[g]
      /\ \A g \in DOMAIN D \cap P :
           entries'[g] = [entries[g] EXCEPT !.state = "owned", !.current = TRUE,
                                            !.staged = FALSE]
      /\ caps' = Reclaim(entries', caps, T) /\ identity' = identity
  BY DEF MakeCurrent
<1>2. EntriesTyped /\ Books
  BY DEF LeakInv, Books, RepositoryInv, Typed
<1>3. S \in SUBSET DOMAIN entries /\ S \cap P = {}
      /\ \A g \in S : \E h \in P : Res(h) = Res(g)
  BY DEF Superseded
<1>4. DOMAIN entries \ DOMAIN D = Gone(S) /\ Gone(S) \subseteq S
  <2> HIDE DEF S
  <2> QED
    BY <1>3, DroppedGone
<1>5. PartOf(D, entries)
  BY <1>2, DroppedPart
<1>6. ASSUME NEW x \in Shape, NEW d,
             d = [x EXCEPT !.state = "owned", !.current = TRUE, !.staged = FALSE]
      PROVE  d.import = x.import
  BY <1>6 DEF Shape
<1>7. Accounted(entries', held)
  BY <1>2, MakeCurrentAccounted DEF Books
<1>8. \A g \in DOMAIN entries \ DOMAIN D : entries[g].import.cap \in T
  BY <1>4 DEF CapsOf
<1> DEFINE F == entries'
<1>9. PartOf(F, entries)
  <2> HIDE DEF D
  <2>1. ASSUME NEW g \in DOMAIN F
        PROVE  g \in DOMAIN entries /\ F[g].import = entries[g].import
    <3>1. g \in DOMAIN D /\ g \in DOMAIN entries /\ entries[g] \in Shape
      BY <1>1, <1>2, <1>5, <2>1 DEF PartOf, EntriesTyped
    <3>2. CASE g \in P
      BY <1>1, <1>6, <3>1, <3>2
    <3>3. CASE g \notin P
      BY <1>1, <1>5, <3>1, <3>3 DEF PartOf
    <3> QED
      BY <3>1, <3>2, <3>3
  <2> HIDE DEF F
  <2> QED
    BY <2>1 DEF PartOf
<1>10. \A g \in DOMAIN entries \ DOMAIN F : \E h \in DOMAIN F : Res(h) = Res(g)
  BY <1>1, <1>3, <1>4
<1>11. \A g \in DOMAIN entries \ DOMAIN F : entries[g].import.cap \in T
  BY <1>1, <1>8
<1> HIDE DEF F, T
<1>12. Identified(F, identity)
  BY <1>2, <1>9, <1>10, IdentityKept DEF Books
<1>13. InUse(F, Reclaim(F, caps, T))
  BY <1>2, <1>9, <1>11, AuthorityReclaimed DEF Books
<1> QED
  BY <1>1, <1>7, <1>12, <1>13 DEF Books, F

(* A rollback takes an entry and brings another of the same resource back.   *)
LEMMA RollbackBooks ==
  ASSUME LeakInv, NEW p \in undo, RollbackCurrent(p)
  PROVE  Books'
<1> DEFINE S == {p[1]}
           D == Dropped(S)
           T == CapsOf(Gone(S))
<1>1. /\ DOMAIN entries' = DOMAIN D
      /\ \A g \in DOMAIN D \ {p[2]} : entries'[g] = D[g]
      /\ p[2] \in DOMAIN D => entries'[p[2]] = [entries[p[2]] EXCEPT !.current = TRUE]
      /\ caps' = Reclaim(entries', caps, T) /\ identity' = identity /\ held' = held
  BY DEF RollbackCurrent
<1>2. EntriesTyped /\ Books
  BY DEF LeakInv, Books, RepositoryInv, Typed
<1>3. /\ p[1] \in DOMAIN entries /\ p[2] \in DOMAIN entries /\ p[1] # p[2]
      /\ Res(p[1]) = Res(p[2])
  BY DEF RollbackCurrent, MayRollback, LeakInv, RepositoryInv, UndoMatches
<1>4. DOMAIN entries \ DOMAIN D = Gone(S) /\ Gone(S) \subseteq S
  BY <1>3, DroppedGone
<1>5. PartOf(D, entries)
  BY <1>2, DroppedPart
<1>6. ASSUME NEW x \in Shape, NEW d, d = [x EXCEPT !.current = TRUE]
      PROVE  d.import = x.import
  BY <1>6 DEF Shape
<1>7. Accounted(entries', held)
  BY <1>2, RollbackAccounted DEF Books
<1>8. \A g \in DOMAIN entries \ DOMAIN D : entries[g].import.cap \in T
  BY <1>4 DEF CapsOf
<1> DEFINE F == entries'
<1>9. PartOf(F, entries)
  <2> HIDE DEF D
  <2>1. ASSUME NEW g \in DOMAIN F
        PROVE  g \in DOMAIN entries /\ F[g].import = entries[g].import
    <3>1. g \in DOMAIN D /\ g \in DOMAIN entries /\ entries[g] \in Shape
      BY <1>1, <1>2, <1>5, <2>1 DEF PartOf, EntriesTyped
    <3>2. CASE g = p[2]
      BY <1>1, <1>6, <3>1, <3>2
    <3>3. CASE g # p[2]
      BY <1>1, <1>5, <3>1, <3>3 DEF PartOf
    <3> QED
      BY <3>1, <3>2, <3>3
  <2> HIDE DEF F
  <2> QED
    BY <2>1 DEF PartOf
<1>10. p[2] \in DOMAIN D
  BY <1>3, <1>4
<1>11. \A g \in DOMAIN entries \ DOMAIN F : \E h \in DOMAIN F : Res(h) = Res(g)
  BY <1>1, <1>3, <1>4, <1>10
<1>12. \A g \in DOMAIN entries \ DOMAIN F : entries[g].import.cap \in T
  BY <1>1, <1>8
<1> HIDE DEF F, T
<1>13. Identified(F, identity)
  BY <1>2, <1>9, <1>11, IdentityKept DEF Books
<1>14. InUse(F, Reclaim(F, caps, T))
  BY <1>2, <1>9, <1>12, AuthorityReclaimed DEF Books
<1> QED
  BY <1>1, <1>7, <1>13, <1>14 DEF Books, F

(* A reference taken changes a count; the last one returned ends its entry.  *)
LEMMA RetainedBooks ==
  ASSUME LeakInv, NEW h \in Holders, NEW g \in DOMAIN entries, Retained(h, g)
  PROVE  Books'
<1>1. EntriesTyped /\ Books
  BY DEF LeakInv, Books, RepositoryInv, Typed
<1>2. Accounted(entries', held')
  BY <1>1, RetainedAccounted DEF Books
<1>3. /\ DOMAIN entries' = DOMAIN entries /\ UNCHANGED <<caps, identity>>
      /\ \A x \in DOMAIN entries \ {g} : entries'[x] = entries[x]
      /\ entries'[g] = [entries[g] EXCEPT !.retains = @ + 1]
  BY DEF Retained
<1>4. ASSUME NEW e \in Shape, NEW d, d = [e EXCEPT !.retains = @ + 1]
      PROVE  d.import = e.import
  BY <1>4 DEF Shape
<1>5. \A x \in DOMAIN entries : entries'[x].import = entries[x].import
  BY <1>1, <1>3, <1>4 DEF EntriesTyped
<1>6. Identified(entries', identity)
  BY <1>1, <1>3, <1>5 DEF Books, Identified
<1>7. InUse(entries', caps)
  BY <1>1, <1>3, <1>5 DEF Books, InUse
<1> QED
  BY <1>2, <1>3, <1>6, <1>7 DEF Books

LEMMA ReleaseBooks ==
  ASSUME LeakInv, NEW h \in Holders, NEW g \in DOMAIN entries, Release(h, g)
  PROVE  Books'
<1> DEFINE S == IF LastRelease(g) THEN {g} ELSE {}
           T == CapsOf(S)
           F == entries'
<1>1. /\ entries' = Without(ReleasedEntries(g), S)
      /\ caps' = Reclaim(F, caps, T) /\ identity' = IdentityWithout(F, S)
  BY DEF Release
<1>2. EntriesTyped /\ Books
  BY DEF LeakInv, Books, RepositoryInv, Typed
<1>3. Accounted(entries', held')
  BY <1>2, ReleaseAccounted DEF Books
<1>4. S \in SUBSET DOMAIN entries
  OBVIOUS
<1>5. DOMAIN F = DOMAIN entries \ S
  <2>1. DOMAIN ReleasedEntries(g) = DOMAIN entries
    BY DEF ReleasedEntries
  <2>2. DOMAIN Without(ReleasedEntries(g), S) = DOMAIN ReleasedEntries(g) \ S
    BY WithoutFacts
  <2> HIDE DEF S
  <2> QED
    BY <1>1, <2>1, <2>2
<1>6. PartOf(F, entries)
  BY <1>2, ReleaseShrinks DEF Shrinks, Wanes, Stays, PartOf
<1> HIDE DEF S, F
<1>7. \A x \in DOMAIN entries \ DOMAIN F : entries[x].import.cap \in T
  BY <1>4, <1>5 DEF CapsOf
<1> HIDE DEF T
<1>8. DOMAIN entries \ DOMAIN F \subseteq S
  BY <1>5
<1>9. Identified(F, IdentityWithout(F, S))
  BY <1>2, <1>4, <1>6, <1>8, IdentityReclaimed DEF Books
<1>10. InUse(F, Reclaim(F, caps, T))
  BY <1>2, <1>6, <1>7, AuthorityReclaimed DEF Books
<1> QED
  BY <1>1, <1>3, <1>9, <1>10 DEF Books, F

LEMMA ResetBooks ==
  ASSUME Reset
  PROVE  Books'
<1>1. entries' = <<>> /\ caps' = <<>> /\ identity' = <<>> /\ held' = {}
  BY DEF Reset
<1> QED
  BY <1>1 DEF Books, Accounted, Identified, InUse

----------------------------------------------------------------------------
(* The books are right after every step.                                     *)
LEMMA StepBooks ==
  ASSUME LeakInv, Next
  PROVE  Books'
<1>1. ASSUME NEW g \in DOMAIN entries, ImportCommit(g)
      PROVE  Books'
  <2>1. {g} \in SUBSET DOMAIN entries /\ MakeCurrent({g}) /\ held' = held
    BY <1>1 DEF ImportCommit
  <2> QED
    BY <2>1, MakeCurrentBooks
<1>2. ASSUME NEW G \in Batches, ImportCommitMany(G)
      PROVE  Books'
  <2> DEFINE P == {g \in G : ~entries[g].current}
  <2>1. P \in SUBSET DOMAIN entries /\ MakeCurrent(P) /\ held' = held
    BY <1>2 DEF ImportCommitMany, Batches
  <2> HIDE DEF P
  <2> QED
    BY <2>1, MakeCurrentBooks
<1>3. ASSUME NEW g \in DOMAIN entries, ImportCancel(g) \/ RetireCurrent(g)
      PROVE  Books'
  BY <1>3, DropActionBooks DEF ImportCancel, RetireCurrent
<1>4. ASSUME HolderStep
      PROVE  Books'
  <2>1. PICK h \in Holders, g \in DOMAIN entries :
          AcquireCurrent(h, g) \/ AcquireSnapshot(h, g) \/ Release(h, g)
    BY <1>4 DEF HolderStep
  <2> QED
    BY <2>1, RetainedBooks, ReleaseBooks DEF AcquireCurrent, AcquireSnapshot
<1>5. ASSUME NEW o, InvalidateOwner(o)
      PROVE  Books'
  BY <1>5, InvalidateBooks DEF InvalidateOwner
<1>6. ASSUME NEW rank, InvalidateFromOwner(rank)
      PROVE  Books'
  BY <1>6, InvalidateBooks DEF InvalidateFromOwner
<1>7. ASSUME SceneBoundary
      PROVE  Books'
  BY <1>7, InvalidateBooks DEF SceneBoundary
<1> QED
  BY <1>1, <1>2, <1>3, <1>4, <1>5, <1>6, <1>7, RevokeBooks, RetireBooks, RegisterBooks,
     ImportBeginBooks, ImportBooks, RollbackBooks, ResetBooks DEF Next, GuestStep

(* References, identities and authority end with their last use and not      *)
(* before: what someone holds is there, and nothing is there that is not     *)
(* current, held or being imported, through supersession, revocation,        *)
(* rollback, invalidation and direct imports that retire a predecessor.      *)
THEOREM NothingEverLeaks == Spec => []NothingLeaks
<1>1. Init => LeakInv
  <2> SUFFICES ASSUME Init PROVE LeakInv
    OBVIOUS
  <2>1. RepositoryInv
    BY InitInv
  <2>2. entries = <<>> /\ caps = <<>> /\ identity = <<>> /\ held = {}
    BY DEF Init
  <2> QED
    BY <2>1, <2>2 DEF LeakInv, Accounted, Identified, InUse
<1>2. LeakInv /\ [Next]_vars => LeakInv'
  <2> SUFFICES ASSUME LeakInv, [Next]_vars PROVE LeakInv'
    OBVIOUS
  <2>1. RepositoryInv'
    BY NextInv DEF LeakInv
  <2>2. Books'
    <3>1. CASE Next
      BY <3>1, StepBooks
    <3>2. CASE UNCHANGED vars
      BY <3>2 DEF vars, LeakInv, Books, Accounted, Identified, InUse, Useful, Users
    <3> QED
      BY <3>1, <3>2
  <2> QED
    BY <2>1, <2>2 DEF LeakInv, Books
<1>3. LeakInv => NothingLeaks
  BY DEF LeakInv, Accounted, Identified, InUse, NothingLeaks, Useful, Users, Res
<1> QED
  BY <1>1, <1>2, <1>3, PTL DEF Spec

----------------------------------------------------------------------------
(***************************************************************************)
(* Restoring a checkpoint.                                                 *)
(***************************************************************************)
(* What is ready to be current, or is, has live authority of its own owner,  *)
(* and so has what a rollback may put back; only a direct import may lack    *)
(* it.  References are to what was committed, or the guest's to what it has  *)
(* reserved.                                                                 *)
CapsShaped == \A c \in DOMAIN caps : caps[c] \in CapabilityType /\ c < nextCap

Backed(g) == CapabilityMatches(entries[g].import.cap, entries[g].import.owner, FALSE)
Ready(g) == entries[g].current \/ (entries[g].state = "importing" /\ ~entries[g].staged)

AuthorityInv ==
  /\ CapsShaped
  /\ \A g \in DOMAIN entries \ direct : Ready(g) => Backed(g)
  /\ \A p \in undo : p[2] \in DOMAIN entries \ direct => Backed(p[2])
  /\ direct \subseteq DOMAIN entries /\ \A g \in direct : Owned(g)
  /\ \A p \in held : Owned(p[2]) \/ (entries[p[2]].staged /\ p[1] = Guest)

(* The restore is in order: which tables it has, of what, in which phase.    *)
Uncommitted == {"prepare", "boot", "commit", "cancel"}
Phases == Uncommitted \cup {"idle", "install"}

RestoreShape ==
  /\ restore = [phase |-> restore.phase, caps |-> restore.caps,
                handles |-> restore.handles, left |-> restore.left]
  /\ restore.phase \in Phases
  /\ DOMAIN restore.handles \subseteq DOMAIN restore.caps
  /\ DOMAIN restore.caps \subseteq saved /\ restore.left \subseteq saved
  /\ restore.phase = "idle" => restore = Idle
  /\ restore.phase \in {"boot", "commit", "install"} => DOMAIN restore.handles = saved
  /\ restore.phase \in Uncommitted => undo = {}
  /\ restore.phase \in {"prepare", "boot", "cancel"} => scene < SceneLimit

SavedShape ==
  /\ \A s \in saved : /\ s.import \in Imports
                      /\ s.import.cap # NoCap => s.receipt \in Receipts
  /\ \A s, t \in saved : s.import.res = t.import.res => s = t

(* The owner of what is restored: of the scene the commit opens.             *)
OpenScene == IF restore.phase \in {"commit", "install"} THEN scene ELSE scene + 1
Target(o) == IF o.rank >= SceneRank THEN [o EXCEPT !.gen = OpenScene] ELSE o

(* Authority is live, or was created by this restore and waits for it.       *)
CapsLive ==
  \A c \in DOMAIN caps :
    /\ caps[c].live <=> ~caps[c].created
    /\ caps[c].created => caps[c].staged
    /\ caps[c].staged => /\ restore.phase \in Uncommitted
                         /\ caps[c].restored = Target(caps[c].owner)

ReservedCaps ==
  restore.phase \in Uncommitted =>
    \A s \in DOMAIN restore.caps :
      LET c == restore.caps[s]
      IN  c # NoCap => /\ c \in DOMAIN caps /\ caps[c].staged
                       /\ caps[c].restored = Target(s.import.owner)

ReservedEntries ==
  \A s \in DOMAIN restore.handles :
    LET g == restore.handles[s]
    IN  /\ g \in DOMAIN entries \ direct
        /\ entries[g].import = [s.import EXCEPT !.cap = restore.caps[s], !.owner = Target(@)]
        /\ s \in Waiting => /\ entries[g].staged /\ entries[g].state = "importing"
                            /\ ~entries[g].current
        /\ s \notin Waiting => entries[g].current
        /\ restore.phase = "install" => Backed(g)

StagedKnown ==
  \A g \in DOMAIN entries : entries[g].staged => \E s \in Waiting : restore.handles[s] = g

(* Nothing of the old scene is ready when the authority changes hands.       *)
OldSceneGone ==
  restore.phase = "commit" =>
    \A g \in DOMAIN entries : Ready(g) => ~(entries[g].import.owner.rank >= SceneRank)

InOrder ==
  /\ RestoreShape /\ SavedShape /\ CapsLive /\ ReservedCaps
  /\ ReservedEntries /\ StagedKnown /\ OldSceneGone

RestoreInv == LeakInv /\ AuthorityInv /\ InOrder

(* What a step may do to authority: some of it goes, none changes hands, and *)
(* what is reserved or in use stays.                                         *)
SameCap(c) ==
  /\ caps'[c] \in CapabilityType
  /\ caps'[c].live = caps[c].live /\ caps'[c].owner = caps[c].owner
  /\ caps'[c].staged = caps[c].staged /\ caps'[c].restored = caps[c].restored
  /\ caps'[c].created = caps[c].created

CapsWane ==
  /\ \A c \in DOMAIN caps' : c \in DOMAIN caps /\ SameCap(c)
  /\ \A c \in DOMAIN caps : caps[c].staged => c \in DOMAIN caps'
  /\ \A g \in DOMAIN entries \cap DOMAIN entries' :
       entries[g].import.cap \in DOMAIN caps => entries[g].import.cap \in DOMAIN caps'

(* Marking a capability for retirement changes nothing else of it.           *)
LEMMA PendingFacts ==
  ASSUME NEW r \in CapabilityType, NEW d, d = [r EXCEPT !.pending = TRUE]
  PROVE  /\ d \in CapabilityType /\ d.live = r.live /\ d.owner = r.owner
         /\ d.staged = r.staged /\ d.restored = r.restored /\ d.created = r.created
BY DEF CapabilityType

LEMMA ReclaimWanes ==
  ASSUME CapsShaped, NEW C, DOMAIN C = DOMAIN caps, NEW E, NEW T,
         \A c \in DOMAIN caps : C[c] = caps[c] \/ C[c] = [caps[c] EXCEPT !.pending = TRUE],
         \A g \in DOMAIN entries \cap DOMAIN entries' :
            g \in DOMAIN E /\ E[g].import = entries[g].import,
         caps' = Reclaim(E, C, T)
  PROVE  CapsWane
<1> DEFINE R == {c \in T \cap DOMAIN C :
                   /\ C[c].live /\ C[c].pending /\ ~C[c].staged
                   /\ \A g \in DOMAIN E : E[g].import.cap # c}
<1>1. DOMAIN caps' = DOMAIN C \ R /\ \A c \in DOMAIN caps' : caps'[c] = C[c]
  <2>1. caps' = Without(C, R)
    BY DEF Reclaim
  <2>2. /\ DOMAIN Without(C, R) = DOMAIN C \ R
        /\ \A c \in DOMAIN C \ R : Without(C, R)[c] = C[c]
    BY WithoutFacts
  <2> HIDE DEF R
  <2> QED
    BY <2>1, <2>2
<1>2. ASSUME NEW c \in DOMAIN caps
      PROVE  /\ C[c] \in CapabilityType
             /\ C[c].live = caps[c].live /\ C[c].owner = caps[c].owner
             /\ C[c].staged = caps[c].staged /\ C[c].restored = caps[c].restored
             /\ C[c].created = caps[c].created
  <2>1. caps[c] \in CapabilityType
    BY <1>2 DEF CapsShaped
  <2>2. CASE C[c] = caps[c]
    BY <2>1, <2>2
  <2>3. CASE C[c] = [caps[c] EXCEPT !.pending = TRUE]
    BY <2>1, <2>3, PendingFacts
  <2> QED
    BY <1>2, <2>2, <2>3
<1>3. \A c \in DOMAIN caps' : c \in DOMAIN caps /\ SameCap(c)
  <2> HIDE DEF R
  <2> QED
    BY <1>1, <1>2 DEF SameCap
<1>4. \A c \in DOMAIN caps : caps[c].staged => c \in DOMAIN caps'
  BY <1>1, <1>2
<1>5. \A g \in DOMAIN entries \cap DOMAIN entries' :
        entries[g].import.cap \in DOMAIN caps => entries[g].import.cap \in DOMAIN caps'
  <2>1. ASSUME NEW g \in DOMAIN entries \cap DOMAIN entries',
               entries[g].import.cap \in DOMAIN caps
        PROVE  entries[g].import.cap \in DOMAIN caps'
    <3>1. g \in DOMAIN E /\ E[g].import.cap = entries[g].import.cap
      BY <2>1
    <3>2. entries[g].import.cap \notin R
      BY <3>1
    <3> HIDE DEF R
    <3> QED
      BY <1>1, <2>1, <3>2
  <2> QED
    BY <2>1
<1> QED
  BY <1>3, <1>4, <1>5 DEF CapsWane

(* What an entry is backed by stays with it.                                 *)
LEMMA BackedStays ==
  ASSUME CapsWane, NEW g \in DOMAIN entries, g \in DOMAIN entries',
         entries'[g].import = entries[g].import, Backed(g)
  PROVE  Backed(g)'
BY DEF CapsWane, SameCap, Backed, CapabilityMatches

(* Nothing but a direct import adds to what may lack authority.              *)
DirectStep == direct' = (direct \cup Appeared) \cap DOMAIN entries'

LEMMA NothingAppears ==
  ASSUME AuthorityInv, DirectStep, \A g \in DOMAIN entries' : g \in DOMAIN entries
  PROVE  direct' = direct \cap DOMAIN entries'
BY DEF DirectStep, Appeared

(* Who holds what, when no entry changes but by waning.                      *)
HeldStep ==
  \A p \in held' : \/ p \in held
                   \/ p[2] \in DOMAIN entries /\ Owned(p[2])
                   \/ p[2] \in DOMAIN entries /\ entries[p[2]].staged /\ p[1] = Guest

LEMMA AuthorityWanes ==
  ASSUME LeakInv, AuthorityInv, Books', DirectStep, Shrinks, CapsWane,
         undo' \subseteq undo, nextCap' = nextCap, HeldStep
  PROVE  AuthorityInv'
<1>1. /\ \A g \in DOMAIN entries' : Wanes(g) /\ g \in DOMAIN entries
      /\ direct' = direct \cap DOMAIN entries'
  BY NothingAppears DEF Shrinks, Wanes, Stays
<1>2. CapsShaped'
  BY DEF AuthorityInv, CapsShaped, CapsWane, SameCap
<1>3. ASSUME NEW g \in DOMAIN entries' \ direct', Ready(g)'
      PROVE  Backed(g)'
  <2>1. Ready(g) /\ g \in DOMAIN entries \ direct
    BY <1>1, <1>3 DEF Wanes, Ready
  <2> QED
    BY <1>1, <1>3, <2>1, BackedStays DEF AuthorityInv, Wanes, Stays
<1>4. ASSUME NEW p \in undo', p[2] \in DOMAIN entries' \ direct'
      PROVE  CapabilityMatches(entries[p[2]].import.cap, entries[p[2]].import.owner, FALSE)'
  <2> DEFINE g == p[2]
  <2>1. g \in DOMAIN entries \ direct /\ Backed(g)
    BY <1>1, <1>4 DEF AuthorityInv
  <2>2. entries'[g].import = entries[g].import /\ g \in DOMAIN entries'
    BY <1>1, <1>4 DEF Wanes, Stays
  <2> HIDE DEF g
  <2>3. Backed(g)'
    BY <2>1, <2>2, BackedStays
  <2> QED
    BY <2>3 DEF Backed, g
<1>5. direct' \subseteq DOMAIN entries' /\ \A g \in direct' : Owned(g)'
  BY <1>1 DEF AuthorityInv, Wanes, Owned
<1>6. ASSUME NEW p \in held'
      PROVE  entries'[p[2]].state = "owned" \/ (entries'[p[2]].staged /\ p[1] = Guest)
  <2>1. p[2] \in DOMAIN entries'
    BY <1>6 DEF Books, Accounted
  <2> QED
    BY <1>1, <1>6, <2>1 DEF AuthorityInv, HeldStep, Wanes, Owned
<1> QED
  BY <1>2, <1>3, <1>4, <1>5, <1>6 DEF AuthorityInv, Backed, Owned

(* Capabilities that are not touched, or are reclaimed, only wane.           *)
LEMMA CapsStay ==
  ASSUME CapsShaped, caps' = caps
  PROVE  CapsWane
BY DEF CapsShaped, CapsWane, SameCap

LEMMA ReclaimHere ==
  ASSUME CapsShaped, NEW T, caps' = Reclaim(entries', caps, T),
         \A g \in DOMAIN entries \cap DOMAIN entries' : entries'[g].import = entries[g].import
  PROVE  CapsWane
<1> DEFINE E == entries'
<1>1. /\ \A g \in DOMAIN entries \cap DOMAIN entries' :
           g \in DOMAIN E /\ E[g].import = entries[g].import
      /\ caps' = Reclaim(E, caps, T)
  OBVIOUS
<1> HIDE DEF E
<1> QED
  BY <1>1, ReclaimWanes

LEMMA DropWanes ==
  ASSUME LeakInv, CapsShaped, NEW S, Drop(S)
  PROVE  CapsWane
<1>1. \A g \in DOMAIN Dropped(S) : Dropped(S)[g].import = entries[g].import
  BY DroppedTyped DEF LeakInv, RepositoryInv, Typed
<1>2. entries' = Dropped(S) /\ caps' = Reclaim(entries', caps, CapsOf(Gone(S)))
  BY DEF Drop
<1> QED
  BY <1>1, <1>2, ReclaimHere

LEMMA InvalidateWanes ==
  ASSUME LeakInv, CapsShaped, NEW owners, Invalidate(owners)
  PROVE  CapsWane
<1> DEFINE S == {g \in DOMAIN entries :
                   entries[g].import.owner \in owners /\ ~Protected(g)}
           marked == {c \in DOMAIN caps :
                   caps[c].live /\ ~caps[c].staged /\ caps[c].owner \in owners}
           C == [c \in DOMAIN caps |-> IF c \in marked
                                       THEN [caps[c] EXCEPT !.pending = TRUE]
                                       ELSE caps[c]]
           T == marked \cup CapsOf(Gone(S))
           E == Dropped(S)
<1>1. entries' = E /\ caps' = Reclaim(E, C, T)
  BY DEF Invalidate
<1>2. /\ DOMAIN C = DOMAIN caps
      /\ \A c \in DOMAIN caps : C[c] = caps[c] \/ C[c] = [caps[c] EXCEPT !.pending = TRUE]
  OBVIOUS
<1> HIDE DEF S, C, T
<1>3. \A g \in DOMAIN E : E[g].import = entries[g].import
  BY DroppedTyped DEF LeakInv, RepositoryInv, Typed
<1> HIDE DEF E
<1> QED
  BY <1>1, <1>2, <1>3, ReclaimWanes

LEMMA RetireWanes ==
  ASSUME CapsShaped, NEW c \in DOMAIN caps, RetireCapability(c)
  PROVE  CapsWane
<1> DEFINE C == [caps EXCEPT ![c].pending = TRUE]
           T == {c}
<1>1. entries' = entries /\ caps' = Reclaim(entries, C, T)
  BY DEF RetireCapability
<1>2. /\ DOMAIN C = DOMAIN caps
      /\ \A x \in DOMAIN caps : C[x] = caps[x] \/ C[x] = [caps[x] EXCEPT !.pending = TRUE]
  OBVIOUS
<1> HIDE DEF C, T
<1> QED
  BY <1>1, <1>2, ReclaimWanes

LEMMA ReleaseWanes ==
  ASSUME LeakInv, CapsShaped, NEW h, NEW g \in DOMAIN entries, Release(h, g)
  PROVE  CapsWane
<1>1. \A x \in DOMAIN entries' : entries'[x].import = entries[x].import
  BY ReleaseShrinks DEF LeakInv, RepositoryInv, Typed, Shrinks, Wanes, Stays
<1>2. PICK T : caps' = Reclaim(entries', caps, T)
  BY DEF Release
<1> QED
  BY <1>1, <1>2, ReclaimHere

LEMMA MakeCurrentWanes ==
  ASSUME LeakInv, CapsShaped, NEW P \in SUBSET DOMAIN entries,
         \A g, h \in P : Res(g) = Res(h) => g = h,
         \A g \in P : Committable(g), MakeCurrent(P)
  PROVE  CapsWane
<1>1. \A x \in DOMAIN entries' : entries'[x].import = entries[x].import
  BY MakeCurrentInstalls DEF LeakInv, RepositoryInv, Typed, Installs, Wanes, Stays
<1>2. PICK T : caps' = Reclaim(entries', caps, T)
  BY DEF MakeCurrent
<1> QED
  BY <1>1, <1>2, ReclaimHere

LEMMA RollbackWanes ==
  ASSUME LeakInv, CapsShaped, NEW p \in undo, RollbackCurrent(p)
  PROVE  CapsWane
<1>1. \A x \in DOMAIN entries' : entries'[x].import = entries[x].import
  BY RollbackReverts DEF LeakInv, RepositoryInv, Typed, Reverts, Wanes, Stays
<1>2. PICK T : caps' = Reclaim(entries', caps, T)
  BY DEF RollbackCurrent
<1> QED
  BY <1>1, <1>2, ReclaimHere

LEMMA ImportWanes ==
  ASSUME LeakInv, CapsShaped, NEW i \in Imports, Import(i)
  PROVE  CapsWane
<1> DEFINE S == {g \in DOMAIN entries : entries[g].current /\ Res(g) = i.res}
           E == Dropped(S)
           e == Entry(i, "owned", TRUE, FALSE)
<1>1. entries' = Put(E, nextGen, e) /\ caps' = Reclaim(E, caps, CapsOf(Gone(S)))
  BY DEF Import
<1>2. nextGen \notin DOMAIN entries
  BY DEF LeakInv, RepositoryInv, Typed, EntriesTyped, Gens
<1> HIDE DEF S
<1>3. \A g \in DOMAIN E : E[g].import = entries[g].import
  BY DroppedTyped DEF LeakInv, RepositoryInv, Typed
<1> HIDE DEF E, e
<1>4. DOMAIN Put(E, nextGen, e) = DOMAIN E \cup {nextGen}
  BY PutFacts
<1>5. \A g \in DOMAIN entries \cap DOMAIN entries' :
         g \in DOMAIN E /\ E[g].import = entries[g].import
  BY <1>1, <1>2, <1>3, <1>4
<1> QED
  BY <1>1, <1>5, ReclaimWanes

----------------------------------------------------------------------------
(* The actions that make entries current, one by one.                        *)
LEMMA InstallsAuthority ==
  ASSUME LeakInv, AuthorityInv, Books', DirectStep,
         NEW P \in SUBSET DOMAIN entries,
         \A g, h \in P : Res(g) = Res(h) => g = h,
         \A g \in P : Committable(g), \A g \in P : Backed(g), MakeCurrent(P),
         nextCap' = nextCap, held' = held
  PROVE  AuthorityInv'
<1> DEFINE S == Superseded(P)
<1>1. /\ DOMAIN entries' = DOMAIN Dropped(S)
      /\ \A g \in DOMAIN Dropped(S) \cap P :
           entries'[g] = [entries[g] EXCEPT !.state = "owned", !.current = TRUE, !.staged = FALSE]
      /\ \A g \in DOMAIN Dropped(S) \ P : entries'[g] = Dropped(S)[g]
      /\ undo' \subseteq undo \cup (P \X S)
  BY DEF MakeCurrent
<1>2. \A g \in S : g \in DOMAIN entries /\ entries[g].current
  BY DEF Superseded
<1> HIDE DEF S
<1>3. EntriesTyped
  BY DEF LeakInv, RepositoryInv, Typed
<1>4. CapsWane
  BY MakeCurrentWanes DEF AuthorityInv
<1>5. \A g \in DOMAIN entries' : g \in DOMAIN entries /\ entries'[g].import = entries[g].import
  BY <1>3, MakeCurrentInstalls DEF Installs, Wanes, Stays
<1>6. direct' = direct \cap DOMAIN entries'
  BY <1>5, NothingAppears
<1>7. ASSUME NEW g \in DOMAIN entries' \ P
      PROVE  Wanes(g)
  <2>1. g \in DOMAIN Dropped(S) /\ entries'[g] = Dropped(S)[g]
    BY <1>1, <1>7
  <2> QED
    BY <1>3, <1>7, <2>1, DroppedTyped DEF Wanes, Stays
<1>8. ASSUME NEW g \in DOMAIN entries' \cap P
      PROVE  Owned(g)'
  <2>1. entries[g] \in Shape
    BY <1>3, <1>8 DEF EntriesTyped
  <2>2. entries'[g] = [entries[g] EXCEPT !.state = "owned", !.current = TRUE, !.staged = FALSE]
    BY <1>1, <1>8
  <2>3. ASSUME NEW e \in Shape, NEW d,
               d = [e EXCEPT !.state = "owned", !.current = TRUE, !.staged = FALSE]
        PROVE  d.state = "owned"
    BY <2>3 DEF Shape
  <2> QED
    BY <2>1, <2>2, <2>3 DEF Owned
<1>9. ASSUME NEW g \in DOMAIN entries' \ direct', Ready(g)'
      PROVE  Backed(g)'
  <2>1. g \in DOMAIN entries \ direct
    BY <1>5, <1>6, <1>9
  <2>2. Backed(g)
    <3>1. CASE g \in P
      BY <3>1
    <3>2. CASE g \notin P
      BY <1>7, <1>9, <2>1, <3>2 DEF AuthorityInv, Ready, Wanes
    <3> QED
      BY <3>1, <3>2
  <2> QED
    BY <1>4, <1>5, <1>9, <2>1, <2>2, BackedStays
<1>10. ASSUME NEW p \in undo', p[2] \in DOMAIN entries' \ direct'
       PROVE  CapabilityMatches(entries[p[2]].import.cap, entries[p[2]].import.owner, FALSE)'
  <2> DEFINE g == p[2]
  <2>1. g \in DOMAIN entries \ direct /\ g \in DOMAIN entries'
        /\ entries'[g].import = entries[g].import
    BY <1>5, <1>6, <1>10
  <2>2. Backed(g)
    <3>1. CASE p \in undo
      BY <2>1, <3>1 DEF AuthorityInv
    <3>2. CASE p \in P \X S
      BY <1>2, <2>1, <3>2 DEF AuthorityInv, Ready
    <3> QED
      BY <1>1, <1>10, <3>1, <3>2
  <2> HIDE DEF g
  <2>3. Backed(g)'
    BY <1>4, <2>1, <2>2, BackedStays
  <2> QED
    BY <2>3 DEF Backed, g
<1>11. ASSUME NEW g \in DOMAIN entries', Owned(g)
       PROVE  Owned(g)'
  BY <1>7, <1>8, <1>11 DEF Wanes, Owned
<1>12. direct' \subseteq DOMAIN entries' /\ \A g \in direct' : Owned(g)'
  BY <1>6, <1>11 DEF AuthorityInv
<1>13. ASSUME NEW p \in held'
       PROVE  entries'[p[2]].state = "owned" \/ (entries'[p[2]].staged /\ p[1] = Guest)
  <2>1. p \in held /\ p[2] \in DOMAIN entries'
    BY <1>13 DEF Books, Accounted
  <2>2. CASE Owned(p[2])
    BY <1>11, <2>1, <2>2 DEF Owned
  <2>3. CASE p[2] \in P
    BY <1>8, <2>1, <2>3 DEF Owned
  <2>4. CASE ~Owned(p[2]) /\ p[2] \notin P
    BY <1>7, <2>1, <2>4 DEF AuthorityInv, Wanes
  <2> QED
    BY <2>2, <2>3, <2>4
<1>14. CapsShaped'
  BY <1>4 DEF AuthorityInv, CapsShaped, CapsWane, SameCap
<1> QED
  BY <1>9, <1>10, <1>12, <1>13, <1>14 DEF AuthorityInv, Backed, Owned

LEMMA RollbackAuthority ==
  ASSUME LeakInv, AuthorityInv, Books', DirectStep, NEW p \in undo, RollbackCurrent(p)
  PROVE  AuthorityInv'
<1>1. /\ p[2] \in DOMAIN entries /\ Owned(p[2])
      /\ undo' \subseteq undo /\ nextCap' = nextCap /\ held' = held
  BY DEF RollbackCurrent, MayRollback
<1>2. EntriesTyped
  BY DEF LeakInv, RepositoryInv, Typed
<1>3. CapsWane
  BY RollbackWanes DEF AuthorityInv
<1>4. \A g \in DOMAIN entries' :
        /\ g \in DOMAIN entries /\ entries'[g].import = entries[g].import
        /\ g # p[2] => Wanes(g)
        /\ g = p[2] => Owned(g)'
  <2>1. DOMAIN entries' = DOMAIN Dropped({p[1]})
        /\ \A g \in DOMAIN Dropped({p[1]}) :
             entries'[g] = IF g = p[2] THEN [entries[g] EXCEPT !.current = TRUE]
                           ELSE Dropped({p[1]})[g]
    BY DEF RollbackCurrent
  <2>2. ASSUME NEW g \in DOMAIN entries', g # p[2]
        PROVE  Wanes(g)
    <3>1. g \in DOMAIN Dropped({p[1]}) /\ entries'[g] = Dropped({p[1]})[g]
      BY <2>1, <2>2
    <3> QED
      BY <1>2, <2>2, <3>1, DroppedTyped DEF Wanes, Stays
  <2>3. ASSUME NEW g \in DOMAIN entries', g = p[2]
        PROVE  /\ g \in DOMAIN entries /\ entries'[g].import = entries[g].import /\ Owned(g)'
    <3>1. entries[g] \in Shape
      BY <1>1, <1>2, <2>3 DEF EntriesTyped
    <3> QED
      BY <1>1, <2>1, <2>3, <3>1 DEF Owned, Shape
  <2> QED
    BY <2>2, <2>3 DEF Wanes, Stays
<1>5. direct' = direct \cap DOMAIN entries'
  BY <1>4, NothingAppears
<1>6. ASSUME NEW g \in DOMAIN entries' \ direct', Ready(g)'
      PROVE  Backed(g)'
  <2>1. g \in DOMAIN entries \ direct
    BY <1>4, <1>5, <1>6
  <2>2. Backed(g)
    <3>1. CASE g = p[2]
      BY <2>1, <3>1 DEF AuthorityInv
    <3>2. CASE g # p[2]
      BY <1>4, <1>6, <2>1, <3>2 DEF AuthorityInv, Ready, Wanes
    <3> QED
      BY <3>1, <3>2
  <2> QED
    BY <1>3, <1>4, <1>6, <2>1, <2>2, BackedStays
<1>7. ASSUME NEW q \in undo', q[2] \in DOMAIN entries' \ direct'
      PROVE  CapabilityMatches(entries[q[2]].import.cap, entries[q[2]].import.owner, FALSE)'
  <2> DEFINE g == q[2]
  <2>1. g \in DOMAIN entries \ direct /\ Backed(g) /\ g \in DOMAIN entries'
        /\ entries'[g].import = entries[g].import
    BY <1>1, <1>4, <1>5, <1>7 DEF AuthorityInv
  <2> HIDE DEF g
  <2>2. Backed(g)'
    BY <1>3, <2>1, BackedStays
  <2> QED
    BY <2>2 DEF Backed, g
<1>8. \A g \in DOMAIN entries' : Owned(g) => Owned(g)'
  BY <1>4 DEF Wanes, Owned
<1>9. direct' \subseteq DOMAIN entries' /\ \A g \in direct' : Owned(g)'
  BY <1>5, <1>8 DEF AuthorityInv
<1>10. ASSUME NEW q \in held'
       PROVE  entries'[q[2]].state = "owned" \/ (entries'[q[2]].staged /\ q[1] = Guest)
  <2>1. q \in held /\ q[2] \in DOMAIN entries'
    BY <1>1, <1>10 DEF Books, Accounted
  <2> QED
    BY <1>4, <2>1 DEF AuthorityInv, Wanes, Owned
<1>11. CapsShaped'
  BY <1>1, <1>3 DEF AuthorityInv, CapsShaped, CapsWane, SameCap
<1> QED
  BY <1>6, <1>7, <1>9, <1>10, <1>11 DEF AuthorityInv, Backed, Owned

(* A new entry: what was there keeps its authority.                          *)
LEMMA AddsAuthority ==
  ASSUME LeakInv, AuthorityInv, Books', DirectStep, Adds, CapsWane,
         undo' = undo, nextCap' = nextCap, held' = held,
         NEW n, n = nextGen, entries'[n].current \/ (Ready(n)' => Backed(n)')
  PROVE  AuthorityInv'
<1>1. nextGen \notin DOMAIN entries /\ nextGen \in DOMAIN entries'
  BY DEF LeakInv, RepositoryInv, Typed, EntriesTyped, Gens, Adds
<1>2. \A g \in DOMAIN entries' : g = nextGen \/ (g \in DOMAIN entries /\ Wanes(g))
  BY DEF Adds, Wanes, Stays
<1>3. \A p \in undo : p[2] # nextGen
  BY DEF LeakInv, RepositoryInv, UndoMatches, Typed, EntriesTyped, Gens
<1>4. \A p \in held : p[2] # nextGen
  BY <1>1 DEF LeakInv, Accounted
<1>5. \A g \in DOMAIN entries : g \in DOMAIN entries' /\ g \notin direct' => g \notin direct
  BY DEF DirectStep
<1>6. direct' \subseteq DOMAIN entries' /\ direct' \subseteq direct \cup {nextGen}
      /\ (entries'[nextGen].current => nextGen \in direct')
      /\ (nextGen \in direct' => entries'[nextGen].current)
  BY <1>1, <1>2 DEF DirectStep, Appeared, AuthorityInv
<1>7. ASSUME NEW g \in DOMAIN entries' \ direct', Ready(g)'
      PROVE  Backed(g)'
  <2>1. CASE g = nextGen
    BY <1>6, <1>7, <2>1
  <2>2. CASE g # nextGen
    <3>1. Ready(g) /\ g \in DOMAIN entries \ direct /\ entries'[g].import = entries[g].import
      BY <1>2, <1>5, <1>7, <2>2 DEF Wanes, Stays, Ready
    <3>2. Backed(g) /\ g \in DOMAIN entries'
      BY <1>7, <3>1 DEF AuthorityInv
    <3> QED
      BY <3>1, <3>2, BackedStays
  <2> QED
    BY <2>1, <2>2
<1>8. ASSUME NEW p \in undo', p[2] \in DOMAIN entries' \ direct'
      PROVE  CapabilityMatches(entries[p[2]].import.cap, entries[p[2]].import.owner, FALSE)'
  <2> DEFINE g == p[2]
  <2>1. g \in DOMAIN entries \ direct /\ Backed(g)
    BY <1>2, <1>3, <1>5, <1>8 DEF AuthorityInv
  <2>2. entries'[g].import = entries[g].import /\ g \in DOMAIN entries'
    BY <1>1, <1>2, <1>8, <2>1 DEF Wanes, Stays
  <2> HIDE DEF g
  <2>3. Backed(g)'
    BY <2>1, <2>2, BackedStays
  <2> QED
    BY <2>3 DEF Backed, g
<1>9. \A g \in direct' : Owned(g)'
  <2>1. entries'[nextGen].current => entries'[nextGen].state = "owned"
    BY DEF Adds
  <2> QED
    BY <1>1, <1>2, <1>6, <2>1 DEF AuthorityInv, Wanes, Owned
<1>10. ASSUME NEW p \in held'
       PROVE  entries'[p[2]].state = "owned" \/ (entries'[p[2]].staged /\ p[1] = Guest)
  <2>1. p \in held /\ p[2] \in DOMAIN entries' /\ p[2] # nextGen
    BY <1>4, <1>10 DEF Books, Accounted
  <2> QED
    BY <1>2, <2>1 DEF AuthorityInv, Wanes, Owned
<1>11. CapsShaped'
  BY DEF AuthorityInv, CapsShaped, CapsWane, SameCap
<1> QED
  BY <1>6, <1>7, <1>8, <1>9, <1>10, <1>11 DEF AuthorityInv, Backed, Owned

(* An import begins private, under the authority it was asked for with.      *)
LEMMA BeginAuthority ==
  ASSUME LeakInv, AuthorityInv, Books', DirectStep, NEW i \in Imports,
         NEW restoring \in BOOLEAN, BeginImport(i, restoring),
         UNCHANGED <<caps, nextCap, held, undo>>
  PROVE  /\ AuthorityInv'
         /\ entries'[nextGen].staged = restoring
         /\ entries'[nextGen].import = i /\ entries'[nextGen].state = "importing"
         /\ ~entries'[nextGen].current
         /\ DOMAIN entries' = DOMAIN entries \cup {nextGen}
         /\ \A g \in DOMAIN entries : entries'[g] = entries[g]
<1> DEFINE e == Entry(i, "importing", FALSE, restoring)
<1>1. /\ entries' = Put(entries, nextGen, e)
      /\ CapabilityMatches(i.cap, i.owner, restoring)
  BY DEF BeginImport
<1>2. /\ e.import = i /\ e.staged = restoring /\ e.state = "importing" /\ ~e.current
  BY DEF Entry
<1> HIDE DEF e
<1>3. /\ DOMAIN entries' = DOMAIN entries \cup {nextGen} /\ entries'[nextGen] = e
      /\ \A g \in DOMAIN entries \ {nextGen} : entries'[g] = entries[g]
  <2>1. /\ DOMAIN Put(entries, nextGen, e) = DOMAIN entries \cup {nextGen}
        /\ Put(entries, nextGen, e)[nextGen] = e
        /\ \A g \in DOMAIN entries \ {nextGen} : Put(entries, nextGen, e)[g] = entries[g]
    BY DEF Put
  <2> QED
    BY <1>1, <2>1
<1>4. nextGen \notin DOMAIN entries
  BY DEF LeakInv, RepositoryInv, Typed, EntriesTyped, Gens
<1>5. ASSUME NEW n, n = nextGen
      PROVE  Ready(n)' => Backed(n)'
  <2>1. ASSUME Ready(n)' PROVE restoring = FALSE
    BY <1>2, <1>3, <1>5, <2>1 DEF Ready
  <2>2. ASSUME restoring = FALSE PROVE Backed(n)'
    BY <1>1, <1>2, <1>3, <1>5, <2>2 DEF Backed, CapabilityMatches
  <2> QED
    BY <2>1, <2>2
<1>6. Adds
  BY BeginImportAdds DEF LeakInv, RepositoryInv, Typed
<1>7. CapsWane
  BY CapsStay DEF AuthorityInv
<1>8. AuthorityInv'
  BY <1>5, <1>6, <1>7, AddsAuthority
<1> QED
  BY <1>2, <1>3, <1>4, <1>8

LEMMA ImportAuthority ==
  ASSUME LeakInv, AuthorityInv, Books', DirectStep, NEW i \in Imports, Import(i)
  PROVE  AuthorityInv'
<1>1. Adds /\ CapsWane
  BY ImportAdds, ImportWanes DEF LeakInv, RepositoryInv, Typed, AuthorityInv
<1>2. entries'[nextGen].current /\ UNCHANGED <<nextCap, held, undo>>
  <2> DEFINE D == Dropped({g \in DOMAIN entries : entries[g].current /\ Res(g) = i.res})
             e == Entry(i, "owned", TRUE, FALSE)
  <2>1. entries' = Put(D, nextGen, e) /\ UNCHANGED <<nextCap, held, undo>>
    BY DEF Import
  <2>2. e.current
    BY DEF Entry
  <2> HIDE DEF D, e
  <2>3. Put(D, nextGen, e)[nextGen] = e
    BY DEF Put
  <2> QED
    BY <2>1, <2>2, <2>3
<1> QED
  BY <1>1, <1>2, AddsAuthority

(* New authority, and authority that is taken away with all that uses it.    *)
LEMMA RegisterAuthority ==
  ASSUME LeakInv, AuthorityInv, Books', DirectStep,
         NEW receipt \in Receipts, NEW rank \in Ranks, Register(receipt, rank)
  PROVE  AuthorityInv' /\ caps'[nextCap] = Capability(receipt, OwnerOf(rank))
         /\ DOMAIN caps' = DOMAIN caps \cup {nextCap}
         /\ \A c \in DOMAIN caps : caps'[c] = caps[c]
<1> DEFINE v == Capability(receipt, OwnerOf(rank))
<1>1. caps' = Put(caps, nextCap, v) /\ nextCap' = nextCap + 1
      /\ UNCHANGED <<entries, held, undo>>
  BY DEF Register
<1>2. \A c \in DOMAIN caps : c # nextCap /\ c < nextCap /\ c \in Int
  BY DEF AuthorityInv, CapsShaped, LeakInv, RepositoryInv, Typed, CapsTyped, CapIds
<1>3. v \in CapabilityType
  <2>1. OwnerOf(rank) \in Owners
    BY RepositoryAssumption DEF OwnerOf, Owners, SceneRank, LeakInv, RepositoryInv, Typed
  <2> QED
    BY <2>1 DEF Capability, CapabilityType
<1> HIDE DEF v
<1>4. /\ DOMAIN caps' = DOMAIN caps \cup {nextCap} /\ caps'[nextCap] = v
      /\ \A c \in DOMAIN caps : caps'[c] = caps[c]
  <2>1. /\ DOMAIN Put(caps, nextCap, v) = DOMAIN caps \cup {nextCap}
        /\ Put(caps, nextCap, v)[nextCap] = v
        /\ \A c \in DOMAIN caps \ {nextCap} : Put(caps, nextCap, v)[c] = caps[c]
    BY DEF Put
  <2> QED
    BY <1>1, <1>2, <2>1
<1>5. CapsShaped'
  <2>1. nextCap \in Int
    BY DEF LeakInv, RepositoryInv, Typed, CapsTyped
  <2> QED
    BY <1>1, <1>2, <1>3, <1>4, <2>1 DEF AuthorityInv, CapsShaped
<1>6. direct' = direct
  BY <1>1 DEF DirectStep, Appeared, AuthorityInv
<1>7. \A g : Backed(g) => Backed(g)'
  BY <1>1, <1>4 DEF Backed, CapabilityMatches
<1>8. AuthorityInv'
  BY <1>1, <1>5, <1>6, <1>7 DEF AuthorityInv, Ready, Backed, Owned
<1> QED
  BY <1>4, <1>8 DEF v

LEMMA RevokeAuthority ==
  ASSUME LeakInv, AuthorityInv, Books', DirectStep, NEW c \in DOMAIN caps, Revoke(c)
  PROVE  AuthorityInv'
<1> DEFINE S == {g \in DOMAIN entries :
                   entries[g].import.cap = c /\ ~entries[g].staged}
<1>1. /\ entries' = Dropped(S) /\ caps' = Without(caps, {c})
      /\ nextGen' = nextGen /\ UNCHANGED <<nextCap, held, undo>>
      /\ \A p \in undo : p[2] \in DOMAIN entries => entries[p[2]].import.cap # c
  BY DEF Revoke
<1>2. EntriesTyped /\ Accounted(entries, held)
  BY DEF LeakInv, RepositoryInv, Typed
<1>3. \A g \in DOMAIN entries' : Wanes(g) /\ g \in DOMAIN entries
  BY <1>1, <1>2, DropShrinks DEF Shrinks, Wanes, Stays
<1>4. direct' = direct \cap DOMAIN entries'
  BY <1>3, NothingAppears
<1>5. DOMAIN caps' = DOMAIN caps \ {c} /\ \A x \in DOMAIN caps' : caps'[x] = caps[x]
  BY <1>1 DEF Without, Restrict
<1>6. ASSUME NEW g \in DOMAIN entries', Backed(g), entries[g].import.cap # c
      PROVE  Backed(g)'
  BY <1>3, <1>5, <1>6, RepositoryAssumption DEF Backed, CapabilityMatches, Wanes, Stays
<1>7. ASSUME NEW g \in DOMAIN entries' \ direct', Ready(g)'
      PROVE  Backed(g)'
  <2>1. Ready(g) /\ g \in DOMAIN entries \ direct
    BY <1>3, <1>4, <1>7 DEF Wanes, Ready
  <2>2. g \notin S
    <3>1. CASE entries'[g].current
      BY <1>1, <1>2, <1>7, <3>1, DroppedTyped
    <3>2. CASE entries[g].state = "importing" /\ ~entries[g].staged
      <4>1. Users(held, g) = {}
        BY <2>1, <3>2 DEF Users, AuthorityInv, Owned
      <4>2. entries[g].retains = 0
        BY <1>2, <2>1, <4>1, FS_EmptySet DEF Accounted
      <4>3. g \notin Gone(S)
        BY <1>1, <1>2, <1>7, DroppedTyped
      <4> QED
        BY <4>2, <4>3 DEF Gone
    <3>3. entries'[g].current \/ (entries[g].state = "importing" /\ ~entries[g].staged)
      BY <1>3, <1>7 DEF Ready, Wanes
    <3> QED
      BY <3>1, <3>2, <3>3
  <2>3. ~entries[g].staged
    BY <2>1 DEF Ready, LeakInv, RepositoryInv, OneCurrent
  <2> QED
    BY <1>6, <1>7, <2>1, <2>2, <2>3 DEF AuthorityInv
<1>8. ASSUME NEW p \in undo', p[2] \in DOMAIN entries' \ direct'
      PROVE  CapabilityMatches(entries[p[2]].import.cap, entries[p[2]].import.owner, FALSE)'
  <2> DEFINE g == p[2]
  <2>1. g \in DOMAIN entries' /\ Backed(g) /\ entries[g].import.cap # c
    BY <1>1, <1>3, <1>4, <1>8 DEF AuthorityInv
  <2> HIDE DEF g
  <2>2. Backed(g)'
    BY <1>6, <2>1
  <2> QED
    BY <2>2 DEF Backed, g
<1>9. direct' \subseteq DOMAIN entries' /\ \A g \in direct' : Owned(g)'
  BY <1>3, <1>4 DEF AuthorityInv, Wanes, Owned
<1>10. ASSUME NEW p \in held'
       PROVE  entries'[p[2]].state = "owned" \/ (entries'[p[2]].staged /\ p[1] = Guest)
  <2>1. p \in held /\ p[2] \in DOMAIN entries'
    BY <1>1, <1>10 DEF Books, Accounted
  <2> QED
    BY <1>3, <2>1 DEF AuthorityInv, Wanes, Owned
<1>11. CapsShaped'
  BY <1>1, <1>5 DEF AuthorityInv, CapsShaped
<1> QED
  BY <1>7, <1>8, <1>9, <1>10, <1>11 DEF AuthorityInv, Backed, Owned

LEMMA ResetAuthority ==
  ASSUME Reset, DirectStep
  PROVE  AuthorityInv'
<1>1. entries' = <<>> /\ caps' = <<>> /\ held' = {} /\ undo' = {} /\ direct' = {}
  BY DEF Reset, DirectStep
<1> QED
  BY <1>1 DEF AuthorityInv, CapsShaped

(* Every step of the repository proper keeps authority intact.               *)
LEMMA WanesAuthority ==
  ASSUME LeakInv, AuthorityInv, Books', DirectStep, Shrinks, CapsWane,
         undo' \subseteq undo, nextCap' = nextCap, held' \subseteq held
  PROVE  AuthorityInv'
<1>1. HeldStep
  BY DEF HeldStep
<1> QED
  BY <1>1, AuthorityWanes

LEMMA InvalidateAuthority ==
  ASSUME LeakInv, AuthorityInv, Books', DirectStep, NEW owners, Invalidate(owners)
  PROVE  AuthorityInv' /\ CapsWane
<1>1. CapsWane /\ Shrinks
  BY InvalidateWanes, InvalidateShrinks DEF LeakInv, RepositoryInv, Typed, AuthorityInv
<1>2. undo' = {} /\ nextCap' = nextCap /\ held' = held
  BY DEF Invalidate
<1> QED
  BY <1>1, <1>2, WanesAuthority

LEMMA RetainedAuthority ==
  ASSUME LeakInv, AuthorityInv, Books', DirectStep, NEW h \in Holders,
         NEW g \in DOMAIN entries, Retained(h, g),
         Owned(g) \/ (entries[g].staged /\ h = Guest)
  PROVE  AuthorityInv' /\ CapsWane
<1>1. CapsWane /\ Shrinks
  BY CapsStay, RetainedShrinks DEF Retained, LeakInv, RepositoryInv, Typed, AuthorityInv
<1>2. undo' \subseteq undo /\ nextCap' = nextCap
  BY DEF Retained
<1>3. HeldStep
  <2>1. held' = held \cup {<<h, g>>}
    BY DEF Retained
  <2> QED
    BY <2>1 DEF HeldStep
<1> QED
  BY <1>1, <1>2, <1>3, AuthorityWanes

LEMMA ReleaseAuthority ==
  ASSUME LeakInv, AuthorityInv, Books', DirectStep, NEW h \in Holders,
         NEW g \in DOMAIN entries, Release(h, g)
  PROVE  AuthorityInv' /\ CapsWane
<1>1. CapsWane /\ Shrinks
  BY ReleaseWanes, ReleaseShrinks DEF LeakInv, RepositoryInv, Typed, AuthorityInv
<1>2. undo' \subseteq undo /\ nextCap' = nextCap /\ held' \subseteq held
  BY DEF Release
<1> QED
  BY <1>1, <1>2, WanesAuthority

LEMMA GuestAuthority ==
  ASSUME LeakInv, AuthorityInv, GuestStep, DirectStep,
         \A g \in DOMAIN entries : ~entries[g].staged
  PROVE  AuthorityInv'
<1>1. Books' /\ Typed /\ EntriesTyped /\ CapsShaped
  BY StepBooks DEF Next, LeakInv, RepositoryInv, Typed, AuthorityInv
<1>2. ASSUME NEW c \in DOMAIN caps, RetireCapability(c)
      PROVE  AuthorityInv'
  <2>1. CapsWane
    BY <1>1, <1>2, RetireWanes
  <2>2. Shrinks
    BY <1>1, <1>2 DEF RetireCapability, Shrinks, Wanes, Stays, EntriesTyped
  <2> QED
    BY <1>1, <1>2, <2>1, <2>2, WanesAuthority DEF RetireCapability
<1>3. ASSUME NEW g, ImportCancel(g) \/ RetireCurrent(g)
      PROVE  AuthorityInv'
  <2>1. Drop({g}) /\ UNCHANGED <<nextGen, nextCap, held, undo>>
    BY <1>3 DEF ImportCancel, RetireCurrent
  <2>2. CapsWane
    BY <1>1, <2>1, DropWanes
  <2>3. Shrinks
    BY <1>1, <2>1, DropShrinks DEF Drop
  <2> QED
    BY <1>1, <2>1, <2>2, <2>3, WanesAuthority
<1>4. ASSUME NEW i \in GuestImports, ImportBegin(i) \/ Import(i)
      PROVE  AuthorityInv'
  <2>1. i \in Imports
    BY <1>1, GuestImportsTyped
  <2>2. CASE ImportBegin(i)
    <3>1. BeginImport(i, FALSE) /\ UNCHANGED <<caps, nextCap, held, undo>>
      BY <2>2 DEF ImportBegin
    <3> QED
      BY <1>1, <2>1, <3>1, BeginAuthority
  <2>3. CASE Import(i)
    BY <1>1, <2>1, <2>3, ImportAuthority
  <2> QED
    BY <1>4, <2>2, <2>3
<1>5. ASSUME NEW g \in DOMAIN entries, ImportCommit(g)
      PROVE  AuthorityInv'
  <2>1. /\ {g} \in SUBSET DOMAIN entries /\ Committable(g) /\ MakeCurrent({g})
        /\ nextCap' = nextCap /\ held' = held
    BY <1>5 DEF ImportCommit, MakeCurrent
  <2>2. Backed(g)
    BY <1>5, <2>1 DEF AuthorityInv, Ready, Committable, Owned
  <2> QED
    BY <1>1, <2>1, <2>2, InstallsAuthority
<1>6. ASSUME NEW G \in Batches, ImportCommitMany(G)
      PROVE  AuthorityInv'
  <2> DEFINE P == {g \in G : ~entries[g].current}
  <2>1. MakeCurrent(P) /\ BatchAccepted(G) /\ nextCap' = nextCap /\ held' = held
    BY <1>6 DEF ImportCommitMany, MakeCurrent
  <2>2. /\ P \in SUBSET DOMAIN entries
        /\ \A g, h \in P : Res(g) = Res(h) => g = h
        /\ \A g \in P : Committable(g)
        /\ \A g \in P : Backed(g)
    BY <2>1 DEF BatchAccepted, Batches, Backed
  <2> HIDE DEF P
  <2> QED
    BY <1>1, <2>1, <2>2, InstallsAuthority
<1>7. ASSUME NEW o, InvalidateOwner(o) \/ InvalidateFromOwner(o) \/ SceneBoundary
      PROVE  AuthorityInv'
  <2>1. PICK owners : Invalidate(owners)
    BY <1>7 DEF InvalidateOwner, InvalidateFromOwner, SceneBoundary
  <2> QED
    BY <1>1, <2>1, InvalidateAuthority
<1> QED
  BY <1>1, <1>2, <1>3, <1>4, <1>5, <1>6, <1>7, RegisterAuthority, RevokeAuthority,
     RollbackAuthority, ResetAuthority DEF GuestStep

----------------------------------------------------------------------------
(***************************************************************************)
(* The repository under the steps of a restore.                            *)
(***************************************************************************)
LEMMA RepositoryStays ==
  ASSUME RepositoryInv, Shrinks \/ Adds \/ Installs \/ Reverts, undo' \subseteq undo,
         CapsTyped', scene' \in 1..SceneLimit
  PROVE  RepositoryInv'
<1>1. EntriesTyped' /\ OneCurrent'
  BY EntriesStayTyped, OneStaysCurrent DEF RepositoryInv, Typed
<1>2. ASSUME NEW p \in undo'
      PROVE /\ p[1] \in Gens /\ p[2] \in Gens /\ p[1] < nextGen' /\ p[2] < nextGen'
            /\ p[1] \in DOMAIN entries' /\ p[2] \in DOMAIN entries'
                 => entries'[p[1]].import.res = entries'[p[2]].import.res
  <2>1. /\ p[1] \in Gens /\ p[2] \in Gens /\ p[1] < nextGen /\ p[2] < nextGen
        /\ p[1] \in DOMAIN entries /\ p[2] \in DOMAIN entries => Res(p[1]) = Res(p[2])
    BY <1>2 DEF RepositoryInv, UndoMatches
  <2>2. /\ nextGen \in Int /\ nextGen' \in {nextGen, nextGen + 1}
        /\ p[1] \in Int /\ p[2] \in Int
    BY <2>1 DEF Shrinks, Adds, Installs, Reverts, RepositoryInv, Typed, EntriesTyped, Gens
  <2>3. \A g \in DOMAIN entries' :
          \/ g = nextGen
          \/ g \in DOMAIN entries /\ entries'[g].import = entries[g].import
    BY DEF Shrinks, Adds, Installs, Reverts, Wanes, Stays
  <2>4. p[1] # nextGen /\ p[2] # nextGen /\ p[1] < nextGen' /\ p[2] < nextGen'
    BY <2>1, <2>2
  <2> QED
    BY <2>1, <2>3, <2>4 DEF Res
<1> QED
  BY <1>1, <1>2 DEF RepositoryInv, Typed, UndoMatches, Res

(* Only the table of capabilities changes.                                   *)
LEMMA CapsOnly ==
  ASSUME LeakInv, UNCHANGED <<entries, identity, nextGen, scene, held>>,
         undo' \subseteq undo, CapsTyped', InUse(entries, caps')
  PROVE  LeakInv'
<1>1. Shrinks
  BY DEF Shrinks, Wanes, Stays, LeakInv, RepositoryInv, Typed, EntriesTyped
<1>2. RepositoryInv'
  BY <1>1, RepositoryStays DEF LeakInv, RepositoryInv, Typed
<1> QED
  BY <1>2 DEF LeakInv

LEMMA WanesTyped ==
  ASSUME LeakInv, CapsWane, nextCap' = nextCap
  PROVE  CapsTyped'
BY DEF LeakInv, RepositoryInv, Typed, CapsTyped, CapsWane

LEMMA UndoForgotten ==
  ASSUME LeakInv, AuthorityInv, DirectStep,
         UNCHANGED <<entries, caps, identity, nextGen, nextCap, scene, held>>, undo' \subseteq undo
  PROVE  LeakInv' /\ AuthorityInv' /\ direct' = direct
<1>1. CapsTyped'
  BY DEF LeakInv, RepositoryInv, Typed, CapsTyped
<1>2. LeakInv'
  BY <1>1, CapsOnly DEF LeakInv
<1>3. direct' = direct
  BY DEF DirectStep, Appeared, AuthorityInv
<1> QED
  BY <1>2, <1>3 DEF AuthorityInv, CapsShaped, Ready, Backed, CapabilityMatches, Owned

LEMMA RetainedKeeps ==
  ASSUME LeakInv, AuthorityInv, DirectStep, NEW h \in Holders, NEW g \in DOMAIN entries,
         Retained(h, g), Owned(g) \/ (entries[g].staged /\ h = Guest)
  PROVE  LeakInv' /\ AuthorityInv' /\ CapsWane
<1>1. Books'
  BY RetainedBooks
<1>2. AuthorityInv' /\ CapsWane
  BY <1>1, RetainedAuthority
<1>3. Shrinks /\ undo' \subseteq undo /\ scene' = scene /\ nextCap' = nextCap
  BY RetainedShrinks DEF Retained, LeakInv, RepositoryInv, Typed
<1>4. RepositoryInv'
  BY <1>2, <1>3, WanesTyped, RepositoryStays DEF LeakInv, RepositoryInv, Typed
<1> QED
  BY <1>1, <1>2, <1>4 DEF LeakInv, Books

LEMMA InvalidateKeeps ==
  ASSUME LeakInv, AuthorityInv, DirectStep, NEW owners, Invalidate(owners),
         scene' \in 1..SceneLimit
  PROVE  LeakInv' /\ AuthorityInv' /\ CapsWane
<1>1. Books'
  BY InvalidateBooks
<1>2. AuthorityInv' /\ CapsWane
  BY <1>1, InvalidateAuthority
<1>3. Shrinks /\ undo' \subseteq undo /\ nextCap' = nextCap
  BY InvalidateShrinks DEF Invalidate, LeakInv, RepositoryInv, Typed
<1>4. RepositoryInv'
  BY <1>2, <1>3, WanesTyped, RepositoryStays DEF LeakInv
<1> QED
  BY <1>1, <1>2, <1>4 DEF LeakInv, Books

(* A reservation enters as an import does.                                   *)
LEMMA BeginKeeps ==
  ASSUME LeakInv, AuthorityInv, DirectStep, NEW i \in Imports, BeginImport(i, TRUE),
         UNCHANGED <<caps, nextCap, scene, held, undo>>
  PROVE  LeakInv' /\ AuthorityInv'
<1> DEFINE e == Entry(i, "importing", FALSE, TRUE)
<1>1. /\ entries' = Put(entries, nextGen, e) /\ identity' = Put(identity, i.res, i.ident)
      /\ IdentityAgrees(i)
  BY DEF BeginImport
<1>2. e.import = i /\ e.retains = 0 /\ Useful(e)
  BY DEF Entry, Useful
<1>3. Books /\ nextGen \notin DOMAIN entries
  BY DEF LeakInv, Books, RepositoryInv, Typed, EntriesTyped, Gens
<1> HIDE DEF e
<1>4. PartOf(entries, entries)
  BY DEF PartOf
<1>5. Accounted(Put(entries, nextGen, e), held)
  BY <1>2, <1>3, PutAccounted DEF Books
<1>6. Identified(Put(entries, nextGen, e), Put(identity, i.res, i.ident))
  BY <1>1, <1>2, <1>3, <1>4, IdentityEntered DEF Books
<1>7. PartOf(entries, Put(entries, nextGen, e))
  BY <1>3 DEF PartOf, Put
<1>8. InUse(Put(entries, nextGen, e), caps)
  BY <1>3, <1>7, InUseMore DEF Books
<1>9. Books'
  BY <1>1, <1>5, <1>6, <1>8 DEF Books
<1>10. Adds
  BY BeginImportAdds DEF LeakInv, RepositoryInv, Typed
<1>11. RepositoryInv'
  BY <1>10, RepositoryStays DEF LeakInv, RepositoryInv, Typed, CapsTyped
<1>12. AuthorityInv'
  BY <1>9, BeginAuthority
<1> QED
  BY <1>9, <1>11, <1>12 DEF LeakInv, Books

----------------------------------------------------------------------------
(* What a restore reserves.                                                  *)
LEMMA StagedFacts ==
  ASSUME NEW r \in CapabilityType, NEW owner \in Owners
  PROVE  /\ Staged(r, owner) \in CapabilityType
         /\ Staged(r, owner).staged = TRUE /\ Staged(r, owner).restored = owner
         /\ Staged(r, owner).live = r.live /\ Staged(r, owner).owner = r.owner
         /\ Staged(r, owner).created = r.created /\ Staged(r, owner).pending = r.pending
BY DEF Staged, CapabilityType

LEMMA RestoredTarget ==
  ASSUME restore.phase = "prepare"
  PROVE  \A o : RestoredOwner(o) = Target(o)
BY DEF RestoredOwner, Target, OpenScene

LEMMA RestoredTyped ==
  ASSUME Typed, NEW o \in Owners
  PROVE  RestoredOwner(o) \in Owners
BY RepositoryAssumption DEF RestoredOwner, Owners, Typed

CapPrepared(s, c) ==
  /\ restore' = [restore EXCEPT !.caps = Put(@, s, c)]
  /\ \A x \in DOMAIN caps :
       /\ x \in DOMAIN caps' /\ caps'[x] \in CapabilityType
       /\ caps'[x].live = caps[x].live /\ caps'[x].owner = caps[x].owner
       /\ caps'[x].created = caps[x].created /\ caps'[x].pending = caps[x].pending
       /\ caps[x].staged => caps'[x].staged /\ caps'[x].restored = caps[x].restored
       /\ caps'[x].staged /\ ~caps[x].staged => caps'[x].restored = Target(caps[x].owner)
  /\ \A x \in DOMAIN caps' \ DOMAIN caps :
       /\ x = nextCap /\ nextCap <= CapLimit /\ nextCap' = nextCap + 1
       /\ caps'[x] \in CapabilityType
       /\ ~caps'[x].live /\ caps'[x].created /\ caps'[x].staged
       /\ caps'[x].restored = Target(caps'[x].owner)
  /\ nextCap' \in {nextCap, nextCap + 1}
  /\ c # NoCap => /\ c \in DOMAIN caps' /\ caps'[c].staged
                  /\ caps'[c].restored = Target(s.import.owner)

LEMMA PreparedCap ==
  ASSUME RestoreInv, NEW s \in saved, PrepareAuthority(s)
  PROVE  \E c \in CapIds \cup {NoCap} : CapPrepared(s, c)
<1> DEFINE o == s.import.owner
<1>1. /\ Typed /\ CapsShaped /\ restore.phase = "prepare"
      /\ s.import \in Imports /\ (s.import.cap # NoCap => s.receipt \in Receipts)
  BY DEF RestoreInv, LeakInv, RepositoryInv, AuthorityInv, PrepareAuthority, InOrder, SavedShape
<1>2. o \in Owners /\ RestoredOwner(o) = Target(o) /\ RestoredOwner(o) \in Owners
  <2>1. o \in Owners
    BY <1>1 DEF Imports
  <2> QED
    BY <1>1, <2>1, RestoredTarget, RestoredTyped
<1>3. /\ DOMAIN caps \subseteq CapIds /\ nextCap \in Nat \ {0}
      /\ \A c \in DOMAIN caps : caps[c] \in CapabilityType /\ c # nextCap
  BY <1>1 DEF Typed, CapsTyped, CapsShaped, CapIds
<1>4. CASE AuthoriseKnown(s)
  <2>1. PICK c \in Originals(s) :
          /\ ConflictFree(c, RestoredOwner(o))
          /\ caps' = [caps EXCEPT ![c] = Staged(@, RestoredOwner(o))]
          /\ restore' = [restore EXCEPT !.caps = Put(@, s, c)]
          /\ nextCap' = nextCap
    BY <1>4 DEF AuthoriseKnown, Authorise
  <2>2. c \in DOMAIN caps /\ caps[c].owner = o
    BY <2>1 DEF Originals, KeyMatches
  <2> DEFINE r == Staged(caps[c], RestoredOwner(o))
  <2>3. /\ r \in CapabilityType /\ r.staged /\ r.restored = Target(o)
        /\ r.live = caps[c].live /\ r.owner = caps[c].owner
        /\ r.created = caps[c].created /\ r.pending = caps[c].pending
    BY <1>2, <1>3, <2>2, StagedFacts
  <2>4. caps[c].staged => caps[c].restored = Target(o)
    BY <1>2, <2>1 DEF ConflictFree
  <2>5. DOMAIN caps' = DOMAIN caps /\ caps'[c] = r
        /\ \A x \in DOMAIN caps \ {c} : caps'[x] = caps[x]
    BY <2>1, <2>2
  <2> HIDE DEF r, o
  <2>6. \A x \in DOMAIN caps :
          /\ x \in DOMAIN caps' /\ caps'[x] \in CapabilityType
          /\ caps'[x].live = caps[x].live /\ caps'[x].owner = caps[x].owner
          /\ caps'[x].created = caps[x].created /\ caps'[x].pending = caps[x].pending
          /\ caps[x].staged => caps'[x].staged /\ caps'[x].restored = caps[x].restored
          /\ caps'[x].staged /\ ~caps[x].staged => caps'[x].restored = Target(caps[x].owner)
    BY <1>3, <2>2, <2>3, <2>4, <2>5
  <2>7. c \in CapIds /\ c \in DOMAIN caps' /\ caps'[c].staged /\ caps'[c].restored = Target(o)
    BY <1>3, <2>2, <2>3, <2>5
  <2> QED
    BY <2>1, <2>5, <2>6, <2>7 DEF CapPrepared, o
<1>5. CASE AuthoriseNew(s)
  <2> DEFINE v == [Capability(s.receipt, o) EXCEPT
                     !.live = FALSE, !.created = TRUE, !.origin = s.import.cap]
             r == Staged(v, RestoredOwner(o))
  <2>1. /\ nextCap <= CapLimit /\ nextCap' = nextCap + 1 /\ s.import.cap # NoCap
        /\ caps' = Put(caps, nextCap, r)
        /\ restore' = [restore EXCEPT !.caps = Put(@, s, nextCap)]
    BY <1>5 DEF AuthoriseNew, Authorise
  <2>2. /\ v \in CapabilityType /\ v.live = FALSE /\ v.created = TRUE /\ v.owner = o
    <3>1. s.receipt \in Receipts /\ s.import.cap \in CapIds \cup {NoCap}
      BY <1>1, <2>1 DEF Imports
    <3> QED
      BY <1>2, <3>1 DEF Capability, CapabilityType
  <2> HIDE DEF v
  <2>3. /\ r \in CapabilityType /\ r.staged /\ r.restored = Target(o)
        /\ ~r.live /\ r.created /\ r.owner = o
    BY <1>2, <2>2, StagedFacts
  <2> HIDE DEF r, o
  <2>4. /\ DOMAIN caps' = DOMAIN caps \cup {nextCap} /\ caps'[nextCap] = r
        /\ \A x \in DOMAIN caps : caps'[x] = caps[x]
    <3>1. /\ DOMAIN Put(caps, nextCap, r) = DOMAIN caps \cup {nextCap}
          /\ Put(caps, nextCap, r)[nextCap] = r
          /\ \A x \in DOMAIN caps \ {nextCap} : Put(caps, nextCap, r)[x] = caps[x]
      BY DEF Put
    <3> QED
      BY <1>3, <2>1, <3>1
  <2>5. nextCap \in CapIds
    BY <1>3, <2>1, RepositoryAssumption DEF CapIds
  <2> QED
    BY <1>3, <2>1, <2>3, <2>4, <2>5 DEF CapPrepared, o
<1>6. CASE AuthoriseNone(s)
  <2>1. restore' = [restore EXCEPT !.caps = Put(@, s, NoCap)] /\ UNCHANGED <<caps, nextCap>>
    BY <1>6 DEF AuthoriseNone, Authorise
  <2> QED
    BY <1>3, <2>1 DEF CapPrepared
<1> QED
  BY <1>4, <1>5, <1>6 DEF PrepareAuthority

LEMMA PrepareKeeps ==
  ASSUME RestoreInv, DirectStep, NEW s \in saved, PrepareAuthority(s)
  PROVE  LeakInv' /\ AuthorityInv' /\ direct' = direct
<1>1. PICK c \in CapIds \cup {NoCap} : CapPrepared(s, c)
  BY PreparedCap
<1>2. UNCHANGED <<entries, identity, nextGen, scene, held, undo>>
  BY DEF PrepareAuthority
<1>3. LeakInv /\ AuthorityInv /\ CapsTyped /\ CapsShaped /\ InUse(entries, caps)
  BY DEF RestoreInv, LeakInv, RepositoryInv, Typed, AuthorityInv
<1>4. CapsTyped' /\ CapsShaped'
  <2>1. \A x \in DOMAIN caps' : x \in CapIds /\ caps'[x] \in CapabilityType /\ x < nextCap'
    <3>1. \A x \in DOMAIN caps' : x \in DOMAIN caps \/ (x = nextCap /\ nextCap <= CapLimit
                                                        /\ nextCap' = nextCap + 1)
      BY <1>1 DEF CapPrepared
    <3>2. \A x \in DOMAIN caps' : caps'[x] \in CapabilityType
      BY <1>1 DEF CapPrepared
    <3>3. nextCap' \in {nextCap, nextCap + 1} /\ CapLimit \in Nat
      BY <1>1, RepositoryAssumption DEF CapPrepared
    <3> QED
      BY <1>3, <3>1, <3>2, <3>3 DEF CapsTyped, CapsShaped, CapIds
  <2>2. nextCap' \in Nat \ {0}
    BY <1>1, <1>3 DEF CapPrepared, CapsTyped
  <2> QED
    BY <2>1, <2>2 DEF CapsTyped, CapsShaped
<1>5. InUse(entries, caps')
  <2> SUFFICES ASSUME NEW x \in DOMAIN caps', caps'[x].live, caps'[x].pending, ~caps'[x].staged
               PROVE  \E g \in DOMAIN entries : entries[g].import.cap = x
    BY DEF InUse
  <2>1. x \in DOMAIN caps /\ caps[x].live /\ caps[x].pending /\ ~caps[x].staged
    BY <1>1 DEF CapPrepared
  <2> QED
    BY <1>3, <2>1 DEF InUse
<1>6. LeakInv'
  BY <1>2, <1>3, <1>4, <1>5, CapsOnly
<1>7. direct' = direct
  BY <1>2, <1>3 DEF DirectStep, Appeared, AuthorityInv
<1>8. \A g : Backed(g) => Backed(g)'
  BY <1>1, <1>2 DEF Backed, CapabilityMatches, CapPrepared
<1>9. AuthorityInv'
  BY <1>2, <1>3, <1>4, <1>7, <1>8 DEF AuthorityInv, Ready, Backed, Owned
<1> QED
  BY <1>6, <1>7, <1>9

(* What capability_restore_commit makes of a reserved capability.            *)
LEMMA RecommissionedFacts ==
  ASSUME NEW r \in CapabilityType
  PROVE  /\ Recommissioned(r) \in CapabilityType /\ Recommissioned(r).live
         /\ Recommissioned(r).owner = r.restored /\ ~Recommissioned(r).staged
         /\ ~Recommissioned(r).created /\ ~Recommissioned(r).pending
BY DEF Recommissioned, CapabilityType

LEMMA TargetSame ==
  ASSUME NEW o, ~(o.rank >= SceneRank)
  PROVE  Target(o) = o
BY DEF Target

(* Authority changes hands, and what is ready keeps the authority it has.    *)
LEMMA CommitKeeps ==
  ASSUME RestoreInv, DirectStep, CapabilityRestoreCommit
  PROVE  /\ LeakInv' /\ AuthorityInv' /\ direct' = direct /\ DOMAIN caps' = DOMAIN caps
         /\ \A c \in DOMAIN caps :
              /\ caps'[c].live /\ ~caps'[c].staged /\ ~caps'[c].created
              /\ caps[c].staged => caps'[c].owner = caps[c].restored
<1>1. /\ LeakInv /\ AuthorityInv /\ CapsTyped /\ CapsShaped /\ InUse(entries, caps)
      /\ InOrder /\ OneCurrent
  BY DEF RestoreInv, LeakInv, RepositoryInv, Typed, AuthorityInv
<1>2. /\ restore.phase = "commit" /\ undo = {}
      /\ UNCHANGED <<entries, identity, nextGen, nextCap, scene, held, undo>>
      /\ DOMAIN caps' = DOMAIN caps
      /\ \A c \in DOMAIN caps : caps'[c] = IF caps[c].staged THEN Recommissioned(caps[c]) ELSE caps[c]
  BY <1>1 DEF CapabilityRestoreCommit, InOrder, RestoreShape, Uncommitted
<1>3. \A c \in DOMAIN caps : caps[c] \in CapabilityType
  BY <1>1 DEF CapsShaped
<1>4. ASSUME NEW c \in DOMAIN caps
      PROVE  /\ caps'[c] \in CapabilityType /\ caps'[c].live /\ ~caps'[c].staged
             /\ ~caps'[c].created
             /\ caps[c].staged => caps'[c].owner = caps[c].restored /\ ~caps'[c].pending
             /\ ~caps[c].staged => caps'[c] = caps[c]
  <2>1. CASE caps[c].staged
    BY <1>2, <1>3, <1>4, <2>1, RecommissionedFacts
  <2>2. CASE ~caps[c].staged
    BY <1>1, <1>2, <1>3, <1>4, <2>2 DEF InOrder, CapsLive
  <2> QED
    BY <2>1, <2>2
<1>5. CapsTyped' /\ CapsShaped'
  BY <1>1, <1>2, <1>4 DEF CapsTyped, CapsShaped
<1>6. InUse(entries, caps')
  BY <1>1, <1>2, <1>4 DEF InUse
<1>7. LeakInv'
  BY <1>1, <1>2, <1>5, <1>6, CapsOnly
<1>8. direct' = direct
  BY <1>1, <1>2 DEF DirectStep, Appeared, AuthorityInv
<1>9. ASSUME NEW g \in DOMAIN entries, Ready(g), Backed(g)
      PROVE  Backed(g)'
  <2> DEFINE c == entries[g].import.cap
             o == entries[g].import.owner
  <2>1. CASE c = NoCap
    BY <1>2, <2>1 DEF Backed, CapabilityMatches
  <2>2. CASE c # NoCap
    <3>1. c \in DOMAIN caps /\ caps[c].owner = o
      BY <1>9, <2>2 DEF Backed, CapabilityMatches
    <3>2. ~(o.rank >= SceneRank)
      BY <1>1, <1>2, <1>9 DEF InOrder, OldSceneGone
    <3>3. caps[c].staged => caps[c].restored = o
      BY <1>1, <3>1, <3>2, TargetSame DEF InOrder, CapsLive
    <3>4. caps'[c].live /\ caps'[c].owner = o /\ c \in DOMAIN caps'
      BY <1>2, <1>4, <3>1, <3>3
    <3> QED
      BY <1>2, <3>4 DEF Backed, CapabilityMatches
  <2> QED
    BY <2>1, <2>2
<1>10. AuthorityInv'
  BY <1>1, <1>2, <1>5, <1>8, <1>9 DEF AuthorityInv, Ready, Backed, Owned
<1> QED
  BY <1>2, <1>4, <1>7, <1>8, <1>10

(* Cancelling erases what was created, and only that.                        *)
LEMMA CancelKeeps ==
  ASSUME RestoreInv, DirectStep, CapabilityRestoreCancel
  PROVE  /\ LeakInv' /\ AuthorityInv' /\ direct' = direct
         /\ \A c \in DOMAIN caps' :
              c \in DOMAIN caps /\ caps'[c].live /\ ~caps'[c].staged /\ ~caps'[c].created
         /\ \A g \in DOMAIN entries : Ready(g) /\ Backed(g) => Backed(g)'
<1> DEFINE D == {c \in DOMAIN caps : ~caps[c].created}
           C == [c \in D |-> [caps[c] EXCEPT !.staged = FALSE]]
           R == {c \in DOMAIN C \cap DOMAIN C :
                   /\ C[c].live /\ C[c].pending /\ ~C[c].staged
                   /\ \A g \in DOMAIN entries : entries[g].import.cap # c}
<1>1. /\ LeakInv /\ AuthorityInv /\ CapsTyped /\ CapsShaped /\ InOrder
  BY DEF RestoreInv, LeakInv, RepositoryInv, Typed, AuthorityInv
<1>2. /\ caps' = Reclaim(entries, C, DOMAIN C) /\ undo = {}
      /\ UNCHANGED <<entries, identity, nextGen, nextCap, scene, held, undo>>
  BY <1>1 DEF CapabilityRestoreCancel, InOrder, RestoreShape, Uncommitted
<1>3. ASSUME NEW c \in D
      PROVE  /\ C[c] \in CapabilityType /\ ~C[c].staged /\ ~C[c].created /\ C[c].live
             /\ C[c].owner = caps[c].owner
  <2>1. caps[c] \in CapabilityType /\ ~caps[c].created /\ caps[c].live
    BY <1>1, <1>3 DEF CapsShaped, InOrder, CapsLive
  <2>2. ASSUME NEW r \in CapabilityType, NEW d, d = [r EXCEPT !.staged = FALSE]
        PROVE  /\ d \in CapabilityType /\ ~d.staged /\ d.created = r.created
               /\ d.live = r.live /\ d.owner = r.owner
    BY <2>2 DEF CapabilityType
  <2>3. C[c] = [caps[c] EXCEPT !.staged = FALSE]
    BY <1>3
  <2> HIDE DEF C, D
  <2> QED
    BY <2>1, <2>2, <2>3
<1>4. DOMAIN C = D /\ D \subseteq DOMAIN caps
  OBVIOUS
<1> HIDE DEF C
<1>5. DOMAIN caps' = D \ R /\ \A c \in DOMAIN caps' : caps'[c] = C[c]
  <2>1. caps' = Without(C, R)
    BY <1>2 DEF Reclaim
  <2>2. /\ DOMAIN Without(C, R) = DOMAIN C \ R
        /\ \A c \in DOMAIN C \ R : Without(C, R)[c] = C[c]
    BY WithoutFacts
  <2> HIDE DEF R, D
  <2> QED
    BY <1>4, <2>1, <2>2
<1>6. \A c \in DOMAIN caps' :
        /\ c \in DOMAIN caps /\ caps'[c] \in CapabilityType /\ caps'[c].live
        /\ ~caps'[c].staged /\ ~caps'[c].created /\ caps'[c].owner = caps[c].owner
  BY <1>3, <1>4, <1>5
<1>7. CapsTyped' /\ CapsShaped'
  BY <1>1, <1>2, <1>6 DEF CapsTyped, CapsShaped
<1>8. InUse(entries, caps')
  <2> SUFFICES ASSUME NEW c \in DOMAIN caps', caps'[c].live, caps'[c].pending, ~caps'[c].staged
               PROVE  \E g \in DOMAIN entries : entries[g].import.cap = c
    BY DEF InUse
  <2>1. c \in DOMAIN C /\ c \notin R /\ caps'[c] = C[c]
    BY <1>4, <1>5
  <2> QED
    BY <2>1
<1>9. LeakInv'
  BY <1>1, <1>2, <1>7, <1>8, CapsOnly
<1>10. direct' = direct
  BY <1>1, <1>2 DEF DirectStep, Appeared, AuthorityInv
<1>11. ASSUME NEW g \in DOMAIN entries, Ready(g), Backed(g)
       PROVE  Backed(g)'
  <2> DEFINE c == entries[g].import.cap
             o == entries[g].import.owner
  <2>1. CASE c = NoCap
    BY <1>2, <2>1 DEF Backed, CapabilityMatches
  <2>2. CASE c # NoCap
    <3>1. c \in DOMAIN caps /\ caps[c].owner = o /\ caps[c].live
      BY <1>11, <2>2 DEF Backed, CapabilityMatches
    <3>2. c \in D /\ c \notin R
      BY <1>1, <3>1 DEF InOrder, CapsLive
    <3>3. c \in DOMAIN caps'
      BY <1>5, <3>2
    <3> QED
      BY <1>2, <1>6, <3>1, <3>3 DEF Backed, CapabilityMatches
  <2> QED
    BY <2>1, <2>2
<1>12. AuthorityInv'
  BY <1>1, <1>2, <1>7, <1>10, <1>11 DEF AuthorityInv, Ready, Backed, Owned
<1> QED
  BY <1>6, <1>9, <1>10, <1>11, <1>12

(* A reservation that is installed is a commit like any other.               *)
LEMMA InstallKeeps ==
  ASSUME RestoreInv, DirectStep, NEW s \in saved, RestoreCommit(s)
  PROVE  /\ LeakInv' /\ AuthorityInv' /\ CapsWane
         /\ direct' = direct \cap DOMAIN entries'
<1> DEFINE g == restore.handles[s]
           P == {g}
<1>1. /\ LeakInv /\ AuthorityInv /\ InOrder /\ Typed /\ CapsShaped
  BY DEF RestoreInv, LeakInv, RepositoryInv, Typed, AuthorityInv
<1>2. /\ restore.phase = "install" /\ g \in DOMAIN entries /\ Committable(g)
      /\ MakeCurrent(P) /\ UNCHANGED <<scene, held>> /\ nextCap' = nextCap
  BY DEF RestoreCommit, MakeCurrent
<1>3. Backed(g)
  <2>1. s \in DOMAIN restore.handles
    BY <1>1, <1>2 DEF InOrder, RestoreShape
  <2> QED
    BY <1>1, <1>2, <2>1 DEF InOrder, ReservedEntries
<1>4. ImportCommit(g)
  BY <1>2 DEF ImportCommit
<1>5. Next
  BY <1>2, <1>4 DEF Next, GuestStep
<1>6. Books' /\ RepositoryInv'
  BY <1>1, <1>5, StepBooks, NextInv DEF LeakInv
<1>7. /\ P \in SUBSET DOMAIN entries /\ \A x, y \in P : Res(x) = Res(y) => x = y
      /\ (\A x \in P : Committable(x)) /\ (\A x \in P : Backed(x))
  BY <1>2, <1>3
<1> HIDE DEF g, P
<1>8. AuthorityInv'
  BY <1>1, <1>2, <1>6, <1>7, InstallsAuthority
<1>9. CapsWane /\ Installs
  BY <1>1, <1>2, <1>7, MakeCurrentWanes, MakeCurrentInstalls DEF Typed
<1>10. direct' = direct \cap DOMAIN entries'
  BY <1>1, <1>9, NothingAppears DEF Installs, Wanes, Stays
<1> QED
  BY <1>6, <1>8, <1>9, <1>10 DEF LeakInv, Books

(* A reservation that is given back leaves no trace.                         *)
LEMMA GiveBackKeeps ==
  ASSUME RestoreInv, DirectStep, NEW s \in saved, RestoreCancel(s)
  PROVE  /\ LeakInv' /\ AuthorityInv' /\ CapsWane /\ direct' = direct
         /\ DOMAIN entries' = DOMAIN entries \ {restore.handles[s]}
         /\ \A x \in DOMAIN entries' : entries'[x] = entries[x]
<1> DEFINE g == restore.handles[s]
           S == {g}
           F == Without(entries, S)
           T == CapsOf(S)
<1>1. /\ LeakInv /\ AuthorityInv /\ InOrder /\ EntriesTyped /\ CapsShaped
      /\ Accounted(entries, held) /\ Identified(entries, identity) /\ InUse(entries, caps)
      /\ RepositoryInv
  BY DEF RestoreInv, LeakInv, RepositoryInv, Typed, AuthorityInv
<1>2. /\ restore.phase = "cancel" /\ s \in DOMAIN restore.handles
      /\ entries[g].staged /\ Committable(g)
      /\ entries' = F /\ caps' = Reclaim(F, caps, T) /\ identity' = IdentityWithout(F, S)
      /\ held' = held \ {<<Guest, g>>} /\ UNCHANGED <<nextGen, nextCap, scene, undo>>
  BY DEF RestoreCancel
<1>3. g \in DOMAIN entries \ direct
  BY <1>1, <1>2 DEF InOrder, ReservedEntries
<1>4. DOMAIN F = DOMAIN entries \ S /\ \A x \in DOMAIN F : F[x] = entries[x]
  BY DEF Without, Restrict
<1>5. S \in SUBSET DOMAIN entries
  BY <1>3
<1> HIDE DEF F
<1>6. PartOf(F, entries) /\ DOMAIN entries \ DOMAIN F \subseteq S
      /\ \A x \in DOMAIN entries \ DOMAIN F : entries[x].import.cap \in T
  BY <1>3, <1>4 DEF PartOf, CapsOf
<1>7. Identified(F, IdentityWithout(F, S))
  BY <1>1, <1>5, <1>6, IdentityReclaimed
<1> HIDE DEF T
<1>8. InUse(F, Reclaim(F, caps, T))
  BY <1>1, <1>6, AuthorityReclaimed
<1>9. \A h : <<h, g>> \notin held'
  <2>1. \A h : <<h, g>> \in held => h = Guest
    BY <1>1, <1>2 DEF AuthorityInv, Committable, Owned
  <2> QED
    BY <1>2, <2>1
<1>10. Accounted(F, held')
  <2>1. \A x \in DOMAIN F : Users(held', x) = Users(held, x)
    BY <1>2, <1>4 DEF Users
  <2>2. held' \subseteq held /\ \A p \in held' : p = <<p[1], p[2]>> /\ p[2] \in DOMAIN entries
    BY <1>1, <1>2 DEF Accounted
  <2>3. \A p \in held' : p[2] # g
    BY <1>9, <2>2
  <2> QED
    BY <1>1, <1>4, <2>1, <2>2, <2>3 DEF Accounted
<1>11. Books'
  BY <1>2, <1>7, <1>8, <1>10 DEF Books
<1>12. Shrinks
  BY <1>1, <1>2, <1>4 DEF Shrinks, Wanes, Stays, EntriesTyped
<1>13. CapsWane
  BY <1>1, <1>2, <1>4, ReclaimHere
<1>14. RepositoryInv'
  BY <1>1, <1>2, <1>12, <1>13, WanesTyped, RepositoryStays DEF RepositoryInv, Typed
<1>15. held' \subseteq held /\ undo' \subseteq undo
  BY <1>2
<1>16. AuthorityInv'
  BY <1>1, <1>2, <1>11, <1>12, <1>13, <1>15, WanesAuthority
<1>17. direct' = direct
  BY <1>1, <1>2, <1>3, <1>4, NothingAppears DEF AuthorityInv
<1> QED
  BY <1>2, <1>4, <1>11, <1>13, <1>14, <1>16, <1>17 DEF LeakInv, Books

----------------------------------------------------------------------------
(***************************************************************************)
(* The restore stays in order.                                             *)
(***************************************************************************)
(* The reservations stay as they are.                                        *)
Persists(g) ==
  /\ g \in DOMAIN entries' /\ entries'[g].import = entries[g].import
  /\ entries'[g].state = entries[g].state /\ entries'[g].staged = entries[g].staged
  /\ entries'[g].current = entries[g].current

NothingReserved ==
  \A g \in DOMAIN entries' : entries'[g].staged => g \in DOMAIN entries /\ entries[g].staged

(* What is reserved is the saved import, under a new authority and owner.    *)
LEMMA ReservedImport ==
  ASSUME InOrder, NEW s \in DOMAIN restore.handles
  PROVE  LET g == restore.handles[s]
         IN  /\ g \in DOMAIN entries \ direct
             /\ entries[g].import.cap = restore.caps[s]
             /\ entries[g].import.owner = Target(s.import.owner)
             /\ entries[g].import.res = s.import.res
             /\ entries[g].import.data = s.import.data
<1> DEFINE i == s.import
           g == restore.handles[s]
           c == restore.caps[s]
           o == Target(i.owner)
           d == entries[g].import
<1>1. i \in Imports
  BY DEF InOrder, RestoreShape, SavedShape
<1>3. g \in DOMAIN entries \ direct /\ d = [i EXCEPT !.cap = c, !.owner = o]
  BY <1>1 DEF InOrder, ReservedEntries, Imports
<1> HIDE DEF i, g, c, o, d
<1>4. d.res = i.res /\ d.data = i.data /\ d.cap = c /\ d.owner = o
  BY <1>1, <1>3 DEF Imports
<1> QED
  BY <1>3, <1>4 DEF i, g, c, o, d

(* Distinct resources were saved, so distinct generations are reserved.      *)
LEMMA HandlesApart ==
  ASSUME InOrder, NEW s \in DOMAIN restore.handles, NEW t \in DOMAIN restore.handles,
         restore.handles[s] = restore.handles[t]
  PROVE  s = t
<1>1. s \in saved /\ t \in saved
  BY DEF InOrder, RestoreShape
<1>2. s.import.res = t.import.res
  BY ReservedImport
<1> QED
  BY <1>1, <1>2 DEF InOrder, SavedShape

(* A step of the other holders, and whatever else leaves the restore alone.  *)
LEMMA OrderKept ==
  ASSUME InOrder, AuthorityInv, UNCHANGED <<saved, restore, scene>>, undo' \subseteq undo,
         CapsWane, direct' \subseteq direct, NothingReserved,
         \A s \in DOMAIN restore.handles : Persists(restore.handles[s]),
         \A g \in DOMAIN entries' : Wanes(g)
  PROVE  InOrder'
<1>1. RestoreShape' /\ SavedShape'
  BY DEF InOrder, RestoreShape, SavedShape, Uncommitted, Phases
<1>2. \A o : Target(o)' = Target(o)
  BY DEF Target, OpenScene
<1>3. Waiting' = Waiting
  BY DEF Waiting
<1>4. CapsLive'
  BY <1>2 DEF InOrder, CapsLive, CapsWane, SameCap
<1>5. ReservedCaps'
  <2> SUFFICES ASSUME restore.phase \in Uncommitted, NEW s \in DOMAIN restore.caps,
                      restore.caps[s] # NoCap
               PROVE  /\ restore.caps[s] \in DOMAIN caps' /\ caps'[restore.caps[s]].staged
                      /\ caps'[restore.caps[s]].restored = Target(s.import.owner)
    BY <1>2 DEF ReservedCaps
  <2>1. /\ restore.caps[s] \in DOMAIN caps /\ caps[restore.caps[s]].staged
        /\ caps[restore.caps[s]].restored = Target(s.import.owner)
    BY DEF InOrder, ReservedCaps
  <2> QED
    BY <2>1 DEF CapsWane, SameCap
<1>6. ReservedEntries'
  <2> SUFFICES ASSUME NEW s \in DOMAIN restore.handles, NEW g, g = restore.handles[s]
               PROVE  /\ g \in DOMAIN entries' \ direct'
                      /\ entries'[g].import = [s.import EXCEPT !.cap = restore.caps[s],
                                                               !.owner = Target(@)]
                      /\ s \in Waiting => /\ entries'[g].staged
                                          /\ entries'[g].state = "importing"
                                          /\ ~entries'[g].current
                      /\ s \notin Waiting => entries'[g].current
                      /\ restore.phase = "install" => Backed(g)'
    BY <1>2, <1>3 DEF ReservedEntries, Backed
  <2>1. Persists(g)
    OBVIOUS
  <2>2. /\ g \in DOMAIN entries \ direct
        /\ entries[g].import = [s.import EXCEPT !.cap = restore.caps[s], !.owner = Target(@)]
        /\ s \in Waiting => /\ entries[g].staged /\ entries[g].state = "importing"
                            /\ ~entries[g].current
        /\ s \notin Waiting => entries[g].current
        /\ restore.phase = "install" => Backed(g)
    BY DEF InOrder, ReservedEntries
  <2>3. restore.phase = "install" => Backed(g)'
    BY <2>1, <2>2, BackedStays DEF Persists
  <2> QED
    BY <2>1, <2>2, <2>3 DEF Persists
<1>7. StagedKnown'
  BY <1>3 DEF InOrder, StagedKnown, NothingReserved
<1>8. OldSceneGone'
  BY DEF InOrder, OldSceneGone, Ready, Wanes, Stays
<1> QED
  BY <1>1, <1>4, <1>5, <1>6, <1>7, <1>8 DEF InOrder

LEMMA OthersInOrder ==
  ASSUME RestoreInv, DirectStep, OtherHolders, UNCHANGED restoreVars
  PROVE  LeakInv' /\ AuthorityInv' /\ InOrder'
<1>1. /\ LeakInv /\ AuthorityInv /\ InOrder /\ RepositoryInv /\ EntriesTyped /\ CapsShaped
      /\ OneCurrent
  BY DEF RestoreInv, LeakInv, RepositoryInv, Typed, AuthorityInv
<1>2. PICK h \in Holders, g \in DOMAIN entries :
        ~entries[g].staged /\ (AcquireCurrent(h, g) \/ AcquireSnapshot(h, g) \/ Release(h, g))
  BY DEF OtherHolders
<1>3. Next
  BY <1>2 DEF Next, HolderStep
<1>4. Books' /\ RepositoryInv'
  BY <1>1, <1>3, StepBooks, NextInv DEF LeakInv
<1>5. CapsWane /\ AuthorityInv' /\ undo' \subseteq undo /\ scene' = scene /\ Shrinks
  <2>1. CASE Release(h, g)
    BY <1>1, <1>4, <2>1, ReleaseAuthority, ReleaseShrinks DEF Release
  <2>2. CASE AcquireCurrent(h, g) \/ AcquireSnapshot(h, g)
    <3>1. Retained(h, g) /\ Owned(g)
      BY <1>1, <2>2 DEF AcquireCurrent, AcquireSnapshot, Snapshotable, OneCurrent
    <3> QED
      BY <1>1, <1>4, <3>1, RetainedAuthority, RetainedShrinks DEF Retained
  <2> QED
    BY <1>2, <2>1, <2>2
<1>6. direct' \subseteq direct
  BY <1>1, <1>5, NothingAppears DEF Shrinks, Wanes, Stays
<1>7. NothingReserved /\ \A x \in DOMAIN entries' : Wanes(x)
  BY <1>5 DEF Shrinks, Wanes, Stays, NothingReserved
<1>8. ASSUME NEW x \in DOMAIN entries, entries[x].current \/ entries[x].staged
      PROVE  Persists(x)
  <2>1. ASSUME NEW e \in Shape, NEW k \in Int, NEW d, d = [e EXCEPT !.retains = k]
        PROVE  /\ d.import = e.import /\ d.state = e.state
               /\ d.staged = e.staged /\ d.current = e.current
    BY <2>1 DEF Shape
  <2>2. x \in DOMAIN entries'
        /\ (entries'[x] = entries[x] \/ \E k \in Int : entries'[x] = [entries[x] EXCEPT !.retains = k])
    <3>1. entries[x].retains \in Int /\ entries[x] \in Shape
      BY <1>1, <1>8 DEF EntriesTyped, Shape
    <3>2. CASE Release(h, g)
      <4> DEFINE S == IF LastRelease(g) THEN {g} ELSE {}
      <4>1. entries' = Without(ReleasedEntries(g), S) /\ x \notin S
        BY <1>2, <1>8, <3>2 DEF Release, LastRelease
      <4>2. /\ DOMAIN ReleasedEntries(g) = DOMAIN entries
            /\ ReleasedEntries(g)[x] = IF x = g THEN [entries[x] EXCEPT !.retains = @ - 1]
                                       ELSE entries[x]
        BY <1>8 DEF ReleasedEntries
      <4>3. /\ DOMAIN Without(ReleasedEntries(g), S) = DOMAIN ReleasedEntries(g) \ S
            /\ \A y \in DOMAIN ReleasedEntries(g) \ S :
                 Without(ReleasedEntries(g), S)[y] = ReleasedEntries(g)[y]
        BY WithoutFacts
      <4> HIDE DEF S
      <4>4. x \in DOMAIN entries' /\ entries'[x] = ReleasedEntries(g)[x]
        BY <1>8, <4>1, <4>2, <4>3
      <4> QED
        BY <3>1, <4>2, <4>4
    <3>3. CASE Retained(h, g)
      <4>1. /\ x \in DOMAIN entries'
            /\ entries'[x] = IF x = g THEN [entries[x] EXCEPT !.retains = @ + 1] ELSE entries[x]
        BY <1>8, <3>3 DEF Retained
      <4> QED
        BY <3>1, <4>1
    <3> QED
      BY <1>2, <3>2, <3>3 DEF AcquireCurrent, AcquireSnapshot
  <2>3. entries[x] \in Shape
    BY <1>1, <1>8 DEF EntriesTyped
  <2> QED
    BY <2>1, <2>2, <2>3 DEF Persists
<1>9. \A s \in DOMAIN restore.handles : Persists(restore.handles[s])
  <2>1. \A s \in DOMAIN restore.handles :
          /\ restore.handles[s] \in DOMAIN entries
          /\ entries[restore.handles[s]].current \/ entries[restore.handles[s]].staged
    BY <1>1 DEF InOrder, ReservedEntries
  <2> QED
    BY <1>8, <2>1
<1>10. UNCHANGED <<saved, restore, scene>>
  BY <1>5 DEF restoreVars
<1>11. InOrder'
  BY <1>1, <1>5, <1>6, <1>7, <1>9, <1>10, OrderKept
<1> QED
  BY <1>4, <1>5, <1>11 DEF LeakInv, Books

(* While no restore is under way, nothing is reserved.                       *)
Plain == \A c \in DOMAIN caps : caps[c].live /\ ~caps[c].staged /\ ~caps[c].created
NoneStaged == \A g \in DOMAIN entries : ~entries[g].staged

LEMMA IdleFacts ==
  ASSUME InOrder, restore.phase = "idle"
  PROVE  Plain /\ NoneStaged /\ restore = Idle
<1>1. restore = Idle
  BY DEF InOrder, RestoreShape
<1>2. Waiting = {}
  BY <1>1 DEF Waiting, Idle
<1> QED
  BY <1>1, <1>2 DEF InOrder, CapsLive, StagedKnown, Plain, NoneStaged, Uncommitted

LEMMA PlainInOrder ==
  ASSUME restore' = Idle, SavedShape', Plain', NoneStaged'
  PROVE  InOrder'
<1>1. /\ restore'.phase = "idle" /\ restore'.caps = <<>> /\ restore'.handles = <<>>
      /\ restore'.left = {} /\ DOMAIN restore'.caps = {} /\ DOMAIN restore'.handles = {}
  BY DEF Idle
<1>2. RestoreShape'
  BY <1>1 DEF RestoreShape, Phases, Uncommitted, Idle
<1>3. CapsLive'
  BY DEF CapsLive, Plain
<1>4. ReservedCaps' /\ ReservedEntries' /\ OldSceneGone'
  BY <1>1 DEF ReservedCaps, ReservedEntries, OldSceneGone, Uncommitted
<1>5. StagedKnown'
  BY DEF StagedKnown, NoneStaged
<1> QED
  BY <1>2, <1>3, <1>4, <1>5 DEF InOrder

LEMMA WanesPlain ==
  ASSUME CapsWane, Plain
  PROVE  Plain'
BY DEF CapsWane, SameCap, Plain

(* The checkpoint stays what it is.                                          *)
LEMMA SavedStays ==
  ASSUME SavedShape, saved' = saved
  PROVE  SavedShape'
BY DEF SavedShape

(* The guest, too, leaves nothing reserved.                                  *)
LEMMA GuestPlain ==
  ASSUME LeakInv, AuthorityInv, Plain, GuestStep, DirectStep, Books'
  PROVE  Plain'
<1>1. /\ Typed /\ EntriesTyped /\ CapsShaped
  BY DEF LeakInv, RepositoryInv, Typed, AuthorityInv
<1>2. ASSUME NEW receipt \in Receipts, NEW rank \in Ranks, Register(receipt, rank)
      PROVE  Plain'
  <2>1. /\ caps'[nextCap] = Capability(receipt, OwnerOf(rank))
        /\ DOMAIN caps' = DOMAIN caps \cup {nextCap}
        /\ \A c \in DOMAIN caps : caps'[c] = caps[c]
    BY <1>2, RegisterAuthority
  <2> QED
    BY <2>1 DEF Plain, Capability
<1>3. ASSUME NEW c \in DOMAIN caps, Revoke(c)
      PROVE  Plain'
  <2>1. DOMAIN caps' = DOMAIN caps \ {c} /\ \A x \in DOMAIN caps' : caps'[x] = caps[x]
    BY <1>3 DEF Revoke, Without, Restrict
  <2> QED
    BY <2>1 DEF Plain
<1>4. ASSUME NEW c \in DOMAIN caps, RetireCapability(c)
      PROVE  Plain'
  BY <1>1, <1>4, RetireWanes, WanesPlain
<1>5. ASSUME NEW i \in GuestImports, ImportBegin(i) \/ Import(i)
      PROVE  Plain'
  <2>1. CASE ImportBegin(i)
    BY <1>1, <2>1, CapsStay, WanesPlain DEF ImportBegin
  <2>2. CASE Import(i)
    BY <1>1, <2>2, GuestImportsTyped, ImportWanes, WanesPlain
  <2> QED
    BY <1>5, <2>1, <2>2
<1>6. ASSUME NEW g, ImportCancel(g) \/ RetireCurrent(g)
      PROVE  Plain'
  <2>1. Drop({g})
    BY <1>6 DEF ImportCancel, RetireCurrent
  <2> QED
    BY <1>1, <2>1, DropWanes, WanesPlain
<1>7. ASSUME NEW g \in DOMAIN entries, ImportCommit(g)
      PROVE  Plain'
  <2>1. {g} \in SUBSET DOMAIN entries /\ Committable(g) /\ MakeCurrent({g})
    BY <1>7 DEF ImportCommit
  <2> QED
    BY <1>1, <2>1, MakeCurrentWanes, WanesPlain
<1>8. ASSUME NEW G \in Batches, ImportCommitMany(G)
      PROVE  Plain'
  <2> DEFINE P == {g \in G : ~entries[g].current}
  <2>1. MakeCurrent(P) /\ BatchAccepted(G)
    BY <1>8 DEF ImportCommitMany
  <2>2. /\ P \in SUBSET DOMAIN entries
        /\ \A g, h \in P : Res(g) = Res(h) => g = h
        /\ \A g \in P : Committable(g)
    BY <2>1 DEF BatchAccepted, Batches
  <2> HIDE DEF P
  <2> QED
    BY <1>1, <2>1, <2>2, MakeCurrentWanes, WanesPlain
<1>9. ASSUME NEW p \in undo, RollbackCurrent(p)
      PROVE  Plain'
  BY <1>1, <1>9, RollbackWanes, WanesPlain
<1>10. ASSUME NEW o, InvalidateOwner(o) \/ InvalidateFromOwner(o) \/ SceneBoundary
       PROVE  Plain'
  <2>1. PICK owners : Invalidate(owners)
    BY <1>10 DEF InvalidateOwner, InvalidateFromOwner, SceneBoundary
  <2> QED
    BY <1>1, <2>1, InvalidateWanes, WanesPlain
<1>11. ASSUME Reset
       PROVE  Plain'
  BY <1>11 DEF Reset, Plain
<1> QED
  BY <1>2, <1>3, <1>4, <1>5, <1>6, <1>7, <1>8, <1>9, <1>10, <1>11 DEF GuestStep

LEMMA GuestUnstaged ==
  ASSUME LeakInv, AuthorityInv, NoneStaged, GuestStep, DirectStep, Books'
  PROVE  NoneStaged'
<1>1. Typed /\ EntriesTyped
  BY DEF LeakInv, RepositoryInv, Typed
<1>2. ASSUME NEW i \in GuestImports, ImportBegin(i)
      PROVE  NoneStaged'
  <2>1. BeginImport(i, FALSE) /\ UNCHANGED <<caps, nextCap, held, undo>> /\ i \in Imports
    BY <1>1, <1>2, GuestImportsTyped DEF ImportBegin
  <2>2. /\ entries'[nextGen].staged = FALSE
        /\ DOMAIN entries' = DOMAIN entries \cup {nextGen}
        /\ \A g \in DOMAIN entries : entries'[g] = entries[g]
    BY <2>1, BeginAuthority
  <2> QED
    BY <2>2 DEF NoneStaged
<1>3. ASSUME NEW i \in GuestImports, Import(i)
      PROVE  NoneStaged'
  <2> DEFINE D == Dropped({g \in DOMAIN entries : entries[g].current /\ Res(g) = i.res})
             e == Entry(i, "owned", TRUE, FALSE)
  <2>1. entries' = Put(D, nextGen, e) /\ ~e.staged
    BY <1>3 DEF Import, Entry
  <2>2. \A g \in DOMAIN D : ~D[g].staged
    BY <1>1, DroppedTyped DEF NoneStaged
  <2> HIDE DEF D, e
  <2>3. /\ DOMAIN Put(D, nextGen, e) = DOMAIN D \cup {nextGen}
        /\ Put(D, nextGen, e)[nextGen] = e
        /\ \A g \in DOMAIN D \ {nextGen} : Put(D, nextGen, e)[g] = D[g]
    BY DEF Put
  <2> QED
    BY <2>1, <2>2, <2>3 DEF NoneStaged
<1>4. ASSUME Shrinks \/ Installs \/ Reverts
      PROVE  NoneStaged'
  BY <1>4 DEF Shrinks, Installs, Reverts, Wanes, Stays, NoneStaged
<1>5. CASE \E i \in GuestImports : ImportBegin(i) \/ Import(i)
  BY <1>2, <1>3, <1>5
<1>6. CASE ~\E i \in GuestImports : ImportBegin(i) \/ Import(i)
  <2>1. Shrinks \/ Adds \/ Installs \/ Reverts
    BY <1>1, StepShape DEF Next
  <2>2. ASSUME Adds PROVE FALSE
    <3>1. nextGen' # nextGen
      BY <1>1, <2>2 DEF Adds, EntriesTyped
    <3>2. nextGen' = nextGen
      BY <1>6 DEF GuestStep, Register, Revoke, RetireCapability, ImportCommit, ImportCommitMany,
         MakeCurrent, ImportCancel, RetireCurrent, RollbackCurrent, InvalidateOwner,
         InvalidateFromOwner, SceneBoundary, Invalidate, Reset
    <3> QED
      BY <3>1, <3>2
  <2> QED
    BY <1>4, <2>1, <2>2
<1> QED
  BY <1>5, <1>6

LEMMA GuestInOrder ==
  ASSUME RestoreInv, DirectStep, restore.phase = "idle", GuestStep, UNCHANGED restoreVars
  PROVE  RestoreInv'
<1>1. /\ LeakInv /\ AuthorityInv /\ InOrder /\ RepositoryInv /\ SavedShape
  BY DEF RestoreInv, LeakInv, InOrder
<1>2. Plain /\ NoneStaged /\ restore = Idle
  BY <1>1, IdleFacts
<1>3. Books' /\ RepositoryInv'
  BY <1>1, StepBooks, NextInv DEF Next
<1>4. AuthorityInv'
  BY <1>1, <1>2, GuestAuthority DEF NoneStaged
<1>5. Plain' /\ NoneStaged'
  BY <1>1, <1>2, <1>3, GuestPlain, GuestUnstaged
<1>6. restore' = Idle /\ SavedShape'
  BY <1>1, <1>2, SavedStays DEF restoreVars
<1>7. InOrder'
  BY <1>5, <1>6, PlainInOrder
<1> QED
  BY <1>3, <1>4, <1>7 DEF RestoreInv, LeakInv, Books

(* The restore moves on and what it reserved stays reserved.                 *)
LEMMA OrderMoves ==
  ASSUME InOrder, RestoreShape', OldSceneGone', saved' = saved,
         restore'.caps = restore.caps, restore'.handles = restore.handles,
         restore.phase \in Uncommitted, restore'.phase \in Uncommitted,
         OpenScene' = OpenScene, CapsWane, direct' \subseteq direct, NothingReserved,
         \A s \in DOMAIN restore.handles : Persists(restore.handles[s])
  PROVE  InOrder'
<1>1. \A o : Target(o)' = Target(o)
  BY DEF Target
<1>2. /\ Waiting = DOMAIN restore.handles /\ Waiting' = DOMAIN restore.handles
      /\ restore'.phase # "install"
  BY DEF Waiting, Uncommitted
<1>3. CapsLive'
  BY <1>1 DEF InOrder, CapsLive, CapsWane, SameCap
<1>4. ReservedCaps'
  <2> SUFFICES ASSUME NEW s \in DOMAIN restore.caps, restore.caps[s] # NoCap
               PROVE  /\ restore.caps[s] \in DOMAIN caps' /\ caps'[restore.caps[s]].staged
                      /\ caps'[restore.caps[s]].restored = Target(s.import.owner)
    BY <1>1 DEF ReservedCaps
  <2>1. /\ restore.caps[s] \in DOMAIN caps /\ caps[restore.caps[s]].staged
        /\ caps[restore.caps[s]].restored = Target(s.import.owner)
    BY DEF InOrder, ReservedCaps
  <2> QED
    BY <2>1 DEF CapsWane, SameCap
<1>5. ReservedEntries'
  <2> SUFFICES ASSUME NEW s \in DOMAIN restore'.handles, NEW g, g = restore'.handles[s]
               PROVE  /\ g \in DOMAIN entries' \ direct'
                      /\ entries'[g].import = [s.import EXCEPT !.cap = restore'.caps[s],
                                                               !.owner = Target(s.import.owner)']
                      /\ s \in Waiting' => /\ entries'[g].staged
                                           /\ entries'[g].state = "importing"
                                           /\ ~entries'[g].current
                      /\ s \notin Waiting' => entries'[g].current
                      /\ restore'.phase = "install" => Backed(g)'
    BY DEF ReservedEntries, Backed
  <2>1. Persists(g) /\ s \in DOMAIN restore.handles /\ g = restore.handles[s]
    OBVIOUS
  <2>2. /\ g \in DOMAIN entries \ direct
        /\ entries[g].import = [s.import EXCEPT !.cap = restore.caps[s], !.owner = Target(@)]
        /\ entries[g].staged /\ entries[g].state = "importing" /\ ~entries[g].current
    BY <1>2, <2>1 DEF InOrder, ReservedEntries
  <2>3. entries'[g].import = [s.import EXCEPT !.cap = restore'.caps[s], !.owner = Target(s.import.owner)']
    BY <1>1, <2>1, <2>2 DEF Persists
  <2> QED
    BY <1>2, <2>1, <2>2, <2>3 DEF Persists
<1>6. StagedKnown'
  BY <1>2 DEF InOrder, StagedKnown, NothingReserved
<1>7. SavedShape'
  BY SavedStays DEF InOrder
<1> QED
  BY <1>3, <1>4, <1>5, <1>6, <1>7 DEF InOrder

LEMMA PhaseFacts ==
  ASSUME RestoreShape, NEW ph, restore' = [restore EXCEPT !.phase = ph]
  PROVE  /\ restore'.phase = ph /\ restore'.caps = restore.caps
         /\ restore'.handles = restore.handles /\ restore'.left = restore.left
         /\ restore' = [phase |-> ph, caps |-> restore.caps,
                        handles |-> restore.handles, left |-> restore.left]
<1>1. restore = [phase |-> restore.phase, caps |-> restore.caps,
                 handles |-> restore.handles, left |-> restore.left]
  BY DEF RestoreShape
<1> DEFINE a == restore.phase
           b == restore.caps
           c == restore.handles
           d == restore.left
<1>2. restore = [phase |-> a, caps |-> b, handles |-> c, left |-> d]
  BY <1>1
<1> HIDE DEF a, b, c, d
<1>3. restore' = [phase |-> ph, caps |-> b, handles |-> c, left |-> d]
  BY <1>2
<1> QED
  BY <1>3 DEF b, c, d

----------------------------------------------------------------------------
(* A checkpoint is saved; a restore begins, is given up, and is done.        *)
LEMMA SaveInOrder ==
  ASSUME RestoreInv, DirectStep, Save
  PROVE  RestoreInv'
<1>1. /\ LeakInv /\ AuthorityInv /\ InOrder /\ EntriesTyped /\ CapsShaped /\ OneCurrent
  BY DEF RestoreInv, LeakInv, RepositoryInv, Typed, AuthorityInv
<1>2. /\ restore.phase = "idle" /\ restore' = restore /\ UNCHANGED vars
      /\ saved' = {SavedOf(g) : g \in Currents}
      /\ \A g \in Currents : Backed(g)
  BY DEF Save, Backed
<1>3. Plain /\ NoneStaged /\ restore = Idle
  BY <1>1, <1>2, IdleFacts
<1>4. UNCHANGED <<entries, caps, identity, nextGen, nextCap, scene, held>> /\ undo' \subseteq undo
  BY <1>2 DEF vars
<1>5. LeakInv' /\ AuthorityInv'
  BY <1>1, <1>4, UndoForgotten
<1>6. SavedShape'
  <2>1. ASSUME NEW s \in saved'
        PROVE  /\ s.import \in Imports
               /\ s.import.cap # NoCap => s.receipt \in Receipts
    <3>1. PICK g \in Currents : s = SavedOf(g)
      BY <1>2, <2>1
    <3>2. g \in DOMAIN entries /\ entries[g] \in Shape /\ Backed(g)
      BY <1>1, <1>2, <3>1 DEF Currents, EntriesTyped
    <3>3. s.import = entries[g].import /\ entries[g].import \in Imports
      BY <3>1, <3>2 DEF SavedOf, Shape
    <3>4. ASSUME entries[g].import.cap # NoCap
          PROVE  s.receipt \in Receipts
      <4>1. entries[g].import.cap \in DOMAIN caps
        BY <3>2, <3>4 DEF Backed, CapabilityMatches
      <4>2. caps[entries[g].import.cap].receipt \in Receipts
        BY <1>1, <4>1 DEF CapsShaped, CapabilityType
      <4> QED
        BY <3>1, <3>4, <4>2 DEF SavedOf
    <3> QED
      BY <3>3, <3>4
  <2>2. ASSUME NEW s \in saved', NEW t \in saved', s.import.res = t.import.res
        PROVE  s = t
    <3>1. PICK g \in Currents : s = SavedOf(g)
      BY <1>2, <2>2
    <3>2. PICK h \in Currents : t = SavedOf(h)
      BY <1>2, <2>2
    <3>3. Res(g) = Res(h)
      BY <2>2, <3>1, <3>2 DEF SavedOf, Res
    <3> QED
      BY <1>1, <3>1, <3>2, <3>3 DEF Currents, OneCurrent
  <2> QED
    BY <2>1, <2>2 DEF SavedShape
<1>7. Plain' /\ NoneStaged'
  BY <1>3, <1>4 DEF Plain, NoneStaged
<1>8. InOrder'
  BY <1>2, <1>3, <1>6, <1>7, PlainInOrder
<1> QED
  BY <1>5, <1>8 DEF RestoreInv

LEMMA BeginInOrder ==
  ASSUME RestoreInv, DirectStep, RestoreBegin
  PROVE  RestoreInv'
<1>1. LeakInv /\ AuthorityInv /\ InOrder
  BY DEF RestoreInv
<1>2. /\ restore.phase = "idle" /\ scene < SceneLimit /\ undo' = {}
      /\ restore' = [Idle EXCEPT !.phase = "prepare"]
      /\ UNCHANGED <<entries, caps, identity, nextGen, nextCap, scene, held, saved>>
  BY DEF RestoreBegin
<1>3. Plain /\ NoneStaged
  BY <1>1, <1>2, IdleFacts
<1>4. LeakInv' /\ AuthorityInv'
  BY <1>1, <1>2, UndoForgotten
<1>5. /\ restore' = [phase |-> "prepare", caps |-> <<>>, handles |-> <<>>, left |-> {}]
      /\ restore'.phase = "prepare" /\ restore'.caps = <<>> /\ restore'.handles = <<>>
      /\ restore'.left = {}
      /\ DOMAIN restore'.caps = {} /\ DOMAIN restore'.handles = {}
  <2>1. restore' = [phase |-> "prepare", caps |-> <<>>, handles |-> <<>>, left |-> {}]
    BY <1>2 DEF Idle
  <2>2. /\ restore'.phase = "prepare" /\ restore'.caps = <<>> /\ restore'.handles = <<>>
        /\ restore'.left = {}
    BY <2>1
  <2>3. DOMAIN restore'.caps = {} /\ DOMAIN restore'.handles = {}
    BY <2>2
  <2> QED
    BY <2>1, <2>2, <2>3
<1>6. RestoreShape'
  <2>1. /\ restore' = [phase |-> restore'.phase, caps |-> restore'.caps,
                       handles |-> restore'.handles, left |-> restore'.left]
        /\ restore'.phase \in Phases
    BY <1>5 DEF Phases, Uncommitted
  <2> QED
    BY <1>2, <1>5, <2>1 DEF RestoreShape
<1>7. SavedShape'
  BY <1>1, <1>2, SavedStays DEF InOrder
<1>8. CapsLive' /\ StagedKnown'
  BY <1>2, <1>3 DEF CapsLive, StagedKnown, Plain, NoneStaged
<1>9. ReservedCaps' /\ ReservedEntries' /\ OldSceneGone'
  BY <1>5 DEF ReservedCaps, ReservedEntries, OldSceneGone
<1> QED
  BY <1>4, <1>6, <1>7, <1>8, <1>9 DEF RestoreInv, InOrder

LEMMA FailsInOrder ==
  ASSUME RestoreInv, DirectStep, PrepareFails
  PROVE  RestoreInv'
<1>1. LeakInv /\ AuthorityInv /\ InOrder /\ RestoreShape /\ CapsShaped /\ EntriesTyped
  BY DEF RestoreInv, InOrder, AuthorityInv, LeakInv, RepositoryInv, Typed
<1>2. /\ restore.phase = "prepare" /\ restore' = [restore EXCEPT !.phase = "cancel"]
      /\ UNCHANGED <<entries, caps, identity, nextGen, nextCap, scene, held, undo, saved>>
  BY DEF PrepareFails, vars
<1>3. LeakInv' /\ AuthorityInv' /\ direct' = direct
  BY <1>1, <1>2, UndoForgotten
<1>4. /\ restore'.phase = "cancel" /\ restore'.caps = restore.caps
      /\ restore'.handles = restore.handles /\ restore'.left = restore.left
      /\ restore' = [phase |-> "cancel", caps |-> restore.caps,
                     handles |-> restore.handles, left |-> restore.left]
  BY <1>1, <1>2, PhaseFacts
<1>5. RestoreShape' /\ OldSceneGone'
  BY <1>1, <1>2, <1>4 DEF RestoreShape, Phases, Uncommitted, OldSceneGone
<1>6. OpenScene' = OpenScene /\ restore.phase \in Uncommitted /\ restore'.phase \in Uncommitted
  BY <1>2, <1>4 DEF OpenScene, Uncommitted
<1>7. CapsWane /\ NothingReserved
  BY <1>1, <1>2, CapsStay DEF NothingReserved
<1>8. \A s \in DOMAIN restore.handles : Persists(restore.handles[s])
  BY <1>1, <1>2 DEF InOrder, ReservedEntries, Persists
<1>9. InOrder'
  BY <1>1, <1>2, <1>3, <1>4, <1>5, <1>6, <1>7, <1>8, OrderMoves
<1> QED
  BY <1>3, <1>9 DEF RestoreInv

LEMMA DoneInOrder ==
  ASSUME RestoreInv, DirectStep, RestoreDone
  PROVE  RestoreInv'
<1>1. LeakInv /\ AuthorityInv /\ InOrder
  BY DEF RestoreInv
<1>2. /\ restore.phase = "install" /\ restore.left = {} /\ undo' = {} /\ restore' = Idle
      /\ UNCHANGED <<entries, caps, identity, nextGen, nextCap, scene, held, saved>>
  BY DEF RestoreDone
<1>3. Plain /\ NoneStaged
  BY <1>1, <1>2 DEF InOrder, CapsLive, StagedKnown, Plain, NoneStaged, Uncommitted, Waiting
<1>4. LeakInv' /\ AuthorityInv'
  BY <1>1, <1>2, UndoForgotten
<1>5. Plain' /\ NoneStaged' /\ SavedShape'
  BY <1>1, <1>2, <1>3, SavedStays DEF Plain, NoneStaged, InOrder
<1>6. InOrder'
  BY <1>2, <1>5, PlainInOrder
<1> QED
  BY <1>4, <1>6 DEF RestoreInv

LEMMA CancelInOrder ==
  ASSUME RestoreInv, DirectStep, CapabilityRestoreCancel
  PROVE  RestoreInv'
<1>1. InOrder
  BY DEF RestoreInv
<1>2. /\ restore.phase = "cancel" /\ DOMAIN restore.handles = {} /\ restore' = Idle
      /\ entries' = entries /\ saved' = saved
  BY DEF CapabilityRestoreCancel
<1>3. LeakInv' /\ AuthorityInv' /\ Plain'
  BY CancelKeeps DEF Plain
<1>4. NoneStaged'
  BY <1>1, <1>2 DEF InOrder, StagedKnown, NoneStaged, Waiting
<1>5. SavedShape'
  BY <1>1, <1>2, SavedStays DEF InOrder
<1>6. InOrder'
  BY <1>2, <1>3, <1>4, <1>5, PlainInOrder
<1> QED
  BY <1>3, <1>6 DEF RestoreInv

----------------------------------------------------------------------------
(***************************************************************************)
(* Preparing, resource by resource.                                        *)
(***************************************************************************)
LEMMA CapsFieldFacts ==
  ASSUME RestoreShape, NEW C, restore' = [restore EXCEPT !.caps = C]
  PROVE  /\ restore'.phase = restore.phase /\ restore'.caps = C
         /\ restore'.handles = restore.handles /\ restore'.left = restore.left
         /\ restore' = [phase |-> restore.phase, caps |-> C,
                        handles |-> restore.handles, left |-> restore.left]
<1>1. restore = [phase |-> restore.phase, caps |-> restore.caps,
                 handles |-> restore.handles, left |-> restore.left]
  BY DEF RestoreShape
<1> DEFINE a == restore.phase
           b == restore.caps
           c == restore.handles
           d == restore.left
<1>2. restore = [phase |-> a, caps |-> b, handles |-> c, left |-> d]
  BY <1>1
<1> HIDE DEF a, b, c, d
<1>3. restore' = [phase |-> a, caps |-> C, handles |-> c, left |-> d]
  BY <1>2
<1> QED
  BY <1>3 DEF a, c, d

LEMMA HandlesFieldFacts ==
  ASSUME RestoreShape, NEW H, restore' = [restore EXCEPT !.handles = H]
  PROVE  /\ restore'.phase = restore.phase /\ restore'.caps = restore.caps
         /\ restore'.handles = H /\ restore'.left = restore.left
         /\ restore' = [phase |-> restore.phase, caps |-> restore.caps,
                        handles |-> H, left |-> restore.left]
<1>1. restore = [phase |-> restore.phase, caps |-> restore.caps,
                 handles |-> restore.handles, left |-> restore.left]
  BY DEF RestoreShape
<1> DEFINE a == restore.phase
           b == restore.caps
           c == restore.handles
           d == restore.left
<1>2. restore = [phase |-> a, caps |-> b, handles |-> c, left |-> d]
  BY <1>1
<1> HIDE DEF a, b, c, d
<1>3. restore' = [phase |-> a, caps |-> b, handles |-> H, left |-> d]
  BY <1>2
<1> QED
  BY <1>3 DEF a, b, d

LEMMA LeftFieldFacts ==
  ASSUME RestoreShape, NEW L, restore' = [restore EXCEPT !.left = L]
  PROVE  /\ restore'.phase = restore.phase /\ restore'.caps = restore.caps
         /\ restore'.handles = restore.handles /\ restore'.left = L
         /\ restore' = [phase |-> restore.phase, caps |-> restore.caps,
                        handles |-> restore.handles, left |-> L]
<1>1. restore = [phase |-> restore.phase, caps |-> restore.caps,
                 handles |-> restore.handles, left |-> restore.left]
  BY DEF RestoreShape
<1> DEFINE a == restore.phase
           b == restore.caps
           c == restore.handles
           d == restore.left
<1>2. restore = [phase |-> a, caps |-> b, handles |-> c, left |-> d]
  BY <1>1
<1> HIDE DEF a, b, c, d
<1>3. restore' = [phase |-> a, caps |-> b, handles |-> c, left |-> L]
  BY <1>2
<1> QED
  BY <1>3 DEF a, b, c

LEMMA PrepareInOrder ==
  ASSUME RestoreInv, DirectStep, NEW s \in saved, PrepareAuthority(s)
  PROVE  RestoreInv'
<1>1. LeakInv' /\ AuthorityInv' /\ direct' = direct
  BY PrepareKeeps
<1>2. PICK c \in CapIds \cup {NoCap} : CapPrepared(s, c)
  BY PreparedCap
<1>3. /\ restore.phase = "prepare" /\ s \notin DOMAIN restore.caps
      /\ UNCHANGED <<entries, scene, undo, saved>>
  BY DEF PrepareAuthority
<1>4. InOrder /\ RestoreShape
  BY DEF RestoreInv, InOrder
<1> DEFINE C == Put(restore.caps, s, c)
<1>5. /\ DOMAIN C = DOMAIN restore.caps \cup {s} /\ C[s] = c
      /\ \A t \in DOMAIN restore.caps : C[t] = restore.caps[t]
  BY <1>3 DEF Put
<1>6. restore' = [restore EXCEPT !.caps = C]
  BY <1>2 DEF CapPrepared
<1> HIDE DEF C
<1>7. /\ restore'.phase = "prepare" /\ restore'.caps = C
      /\ restore'.handles = restore.handles /\ restore'.left = restore.left
      /\ restore' = [phase |-> "prepare", caps |-> C,
                     handles |-> restore.handles, left |-> restore.left]
  BY <1>3, <1>4, <1>6, CapsFieldFacts
<1>8. RestoreShape'
  <2>1. /\ DOMAIN restore.handles \subseteq DOMAIN restore.caps /\ DOMAIN restore.caps \subseteq saved
        /\ restore.left \subseteq saved /\ undo = {} /\ scene < SceneLimit
    BY <1>3, <1>4 DEF RestoreShape, Uncommitted
  <2>2. /\ DOMAIN restore'.handles \subseteq DOMAIN restore'.caps
        /\ DOMAIN restore'.caps \subseteq saved' /\ restore'.left \subseteq saved'
    BY <1>3, <1>5, <1>7, <2>1
  <2>3. restore'.phase \in Phases
    BY <1>7 DEF Phases, Uncommitted
  <2> QED
    BY <1>3, <1>7, <2>1, <2>2, <2>3 DEF RestoreShape
<1>9. SavedShape'
  BY <1>3, <1>4, SavedStays DEF InOrder
<1>10. \A o : Target(o)' = Target(o)
  BY <1>3, <1>7 DEF Target, OpenScene
<1>11. CapsLive'
  <2> SUFFICES ASSUME NEW x \in DOMAIN caps'
               PROVE  /\ caps'[x].live <=> ~caps'[x].created
                      /\ caps'[x].created => caps'[x].staged
                      /\ caps'[x].staged => caps'[x].restored = Target(caps'[x].owner)
    BY <1>7, <1>10 DEF CapsLive, Uncommitted
  <2>1. CASE x \in DOMAIN caps
    <3>1. /\ caps[x].live <=> ~caps[x].created
          /\ caps[x].created => caps[x].staged
          /\ caps[x].staged => caps[x].restored = Target(caps[x].owner)
      BY <1>4, <2>1 DEF InOrder, CapsLive
    <3>2. /\ caps'[x].live = caps[x].live /\ caps'[x].owner = caps[x].owner
          /\ caps'[x].created = caps[x].created
          /\ caps[x].staged => caps'[x].staged /\ caps'[x].restored = caps[x].restored
          /\ caps'[x].staged /\ ~caps[x].staged => caps'[x].restored = Target(caps[x].owner)
      BY <1>2, <2>1 DEF CapPrepared
    <3> QED
      BY <3>1, <3>2
  <2>2. CASE x \notin DOMAIN caps
    BY <1>2, <2>2 DEF CapPrepared
  <2> QED
    BY <2>1, <2>2
<1>12. ReservedCaps'
  <2> SUFFICES ASSUME NEW t \in DOMAIN C, C[t] # NoCap
               PROVE  /\ C[t] \in DOMAIN caps' /\ caps'[C[t]].staged
                      /\ caps'[C[t]].restored = Target(t.import.owner)
    BY <1>7, <1>10 DEF ReservedCaps
  <2>1. CASE t = s
    BY <1>2, <1>5, <2>1 DEF CapPrepared
  <2>2. CASE t # s
    <3>1. /\ t \in DOMAIN restore.caps /\ C[t] = restore.caps[t]
      BY <1>5, <2>2
    <3>2. /\ C[t] \in DOMAIN caps /\ caps[C[t]].staged
          /\ caps[C[t]].restored = Target(t.import.owner)
      BY <1>3, <1>4, <3>1 DEF InOrder, ReservedCaps, Uncommitted
    <3> QED
      BY <1>2, <3>2 DEF CapPrepared
  <2> QED
    BY <2>1, <2>2
<1>13. Waiting = DOMAIN restore.handles /\ Waiting' = DOMAIN restore.handles
  BY <1>3, <1>7 DEF Waiting
<1>14. ReservedEntries'
  <2> SUFFICES ASSUME NEW t \in DOMAIN restore.handles, NEW g, g = restore.handles[t]
               PROVE  /\ g \in DOMAIN entries \ direct
                      /\ entries[g].import = [t.import EXCEPT !.cap = C[t], !.owner = Target(@)]
                      /\ entries[g].staged /\ entries[g].state = "importing"
                      /\ ~entries[g].current
    BY <1>1, <1>3, <1>7, <1>10, <1>13 DEF ReservedEntries
  <2>1. t \in DOMAIN restore.caps /\ C[t] = restore.caps[t]
    BY <1>4, <1>5 DEF RestoreShape
  <2> QED
    BY <1>4, <1>13, <2>1 DEF InOrder, ReservedEntries
<1>15. StagedKnown' /\ OldSceneGone'
  BY <1>3, <1>4, <1>7, <1>13 DEF InOrder, StagedKnown, OldSceneGone
<1> QED
  BY <1>1, <1>8, <1>9, <1>11, <1>12, <1>14, <1>15 DEF RestoreInv, InOrder

LEMMA ReserveInOrder ==
  ASSUME RestoreInv, DirectStep, NEW s \in saved, Reserve(s)
  PROVE  RestoreInv'
<1> DEFINE H == Put(restore.handles, s, nextGen)
           i == Reservation(s)
           c == restore.caps[s]
           o == Target(s.import.owner)
<1>1. /\ LeakInv /\ AuthorityInv /\ InOrder /\ RestoreShape /\ CapsTyped /\ Typed
      /\ EntriesTyped /\ SavedShape
  BY DEF RestoreInv, InOrder, LeakInv, RepositoryInv, Typed
<1>2. /\ restore.phase = "prepare" /\ s \in DOMAIN restore.caps \ DOMAIN restore.handles
      /\ BeginImport(i, TRUE) /\ UNCHANGED <<caps, nextCap, scene, held, undo, saved>>
      /\ restore' = [restore EXCEPT !.handles = H]
  BY DEF Reserve
<1>3. i = [s.import EXCEPT !.cap = c, !.owner = o] /\ i \in Imports
  <2>1. s.import \in Imports /\ s.import.owner \in Owners
    BY <1>1 DEF SavedShape, Imports
  <2>2. RestoredOwner(s.import.owner) = o /\ o \in Owners
    BY <1>1, <1>2, <2>1, RestoredTarget, RestoredTyped
  <2>3. c \in CapIds \cup {NoCap}
    BY <1>1, <1>2 DEF InOrder, ReservedCaps, CapsTyped, Uncommitted
  <2>4. i = [s.import EXCEPT !.cap = c, !.owner = RestoredOwner(@)]
    BY DEF Reservation
  <2>5. i = [s.import EXCEPT !.cap = c, !.owner = o]
    BY <2>1, <2>2, <2>4 DEF Imports
  <2> HIDE DEF i, c, o
  <2> QED
    BY <2>1, <2>2, <2>3, <2>5 DEF Imports
<1>4. LeakInv' /\ AuthorityInv'
  BY <1>1, <1>2, <1>3, BeginKeeps
<1>5. /\ entries'[nextGen].staged /\ entries'[nextGen].import = i
      /\ entries'[nextGen].state = "importing" /\ ~entries'[nextGen].current
      /\ DOMAIN entries' = DOMAIN entries \cup {nextGen}
      /\ \A g \in DOMAIN entries : entries'[g] = entries[g]
  BY <1>1, <1>2, <1>3, <1>4, BeginAuthority DEF LeakInv, Books
<1>6. nextGen \notin DOMAIN entries
  BY <1>1 DEF EntriesTyped, Gens
<1>7. direct' = direct /\ nextGen \notin direct
  BY <1>1, <1>5, <1>6 DEF DirectStep, Appeared, AuthorityInv
<1>8. /\ DOMAIN H = DOMAIN restore.handles \cup {s} /\ H[s] = nextGen
      /\ \A t \in DOMAIN restore.handles : H[t] = restore.handles[t]
  BY <1>2 DEF Put
<1> HIDE DEF H, i, c, o
<1>9. /\ restore'.phase = "prepare" /\ restore'.caps = restore.caps
      /\ restore'.handles = H /\ restore'.left = restore.left
      /\ restore' = [phase |-> "prepare", caps |-> restore.caps,
                     handles |-> H, left |-> restore.left]
  BY <1>1, <1>2, HandlesFieldFacts
<1>10. RestoreShape'
  <2>1. /\ DOMAIN restore.handles \subseteq DOMAIN restore.caps /\ DOMAIN restore.caps \subseteq saved
        /\ restore.left \subseteq saved /\ undo = {} /\ scene < SceneLimit
    BY <1>1, <1>2 DEF RestoreShape, Uncommitted
  <2>2. /\ DOMAIN restore'.handles \subseteq DOMAIN restore'.caps
        /\ DOMAIN restore'.caps \subseteq saved' /\ restore'.left \subseteq saved'
    BY <1>2, <1>8, <1>9, <2>1
  <2>3. restore'.phase \in Phases
    BY <1>9 DEF Phases, Uncommitted
  <2> QED
    BY <1>2, <1>9, <2>1, <2>2, <2>3 DEF RestoreShape
<1>11. SavedShape'
  BY <1>1, <1>2, SavedStays
<1>12. \A x : Target(x)' = Target(x)
  BY <1>2, <1>9 DEF Target, OpenScene
<1>13. CapsLive' /\ ReservedCaps'
  BY <1>1, <1>2, <1>9, <1>12 DEF InOrder, CapsLive, ReservedCaps
<1>14. Waiting = DOMAIN restore.handles /\ Waiting' = DOMAIN H
  BY <1>2, <1>9 DEF Waiting
<1>15. ReservedEntries'
  <2> SUFFICES ASSUME NEW t \in DOMAIN restore'.handles, NEW g, g = restore'.handles[t]
               PROVE  /\ g \in DOMAIN entries' \ direct'
                      /\ entries'[g].import = [t.import EXCEPT !.cap = restore'.caps[t],
                                                               !.owner = Target(t.import.owner)']
                      /\ t \in Waiting' => /\ entries'[g].staged
                                           /\ entries'[g].state = "importing"
                                           /\ ~entries'[g].current
                      /\ t \notin Waiting' => entries'[g].current
                      /\ restore'.phase = "install" => Backed(g)'
    BY DEF ReservedEntries, Backed
  <2>1. t \in DOMAIN H /\ g = H[t]
    BY <1>9
  <2>2. CASE t = s
    <3>1. i = [s.import EXCEPT !.cap = restore.caps[s], !.owner = Target(@)]
      BY <1>1, <1>3 DEF c, o, SavedShape, Imports
    <3>2. i = [t.import EXCEPT !.cap = restore'.caps[t], !.owner = Target(t.import.owner)']
      BY <1>9, <1>12, <2>2, <3>1
    <3> QED
      BY <1>5, <1>6, <1>7, <1>8, <1>9, <1>14, <2>1, <2>2, <3>2
  <2>3. CASE t # s
    <3>1. t \in DOMAIN restore.handles /\ g = restore.handles[t]
      BY <1>8, <2>1, <2>3
    <3>2. /\ g \in DOMAIN entries \ direct
          /\ entries[g].import = [t.import EXCEPT !.cap = restore.caps[t], !.owner = Target(@)]
          /\ entries[g].staged /\ entries[g].state = "importing"
          /\ ~entries[g].current
      BY <1>1, <1>14, <3>1 DEF InOrder, ReservedEntries
    <3>3. entries[g].import = [t.import EXCEPT !.cap = restore'.caps[t], !.owner = Target(t.import.owner)']
      BY <1>9, <1>12, <3>2
    <3> QED
      BY <1>5, <1>7, <1>9, <1>14, <2>1, <3>2, <3>3
  <2> QED
    BY <2>2, <2>3
<1>16. StagedKnown'
  <2> SUFFICES ASSUME NEW g \in DOMAIN entries', entries'[g].staged
               PROVE  \E t \in DOMAIN H : H[t] = g
    BY <1>9, <1>14 DEF StagedKnown
  <2>1. CASE g = nextGen
    BY <1>8, <2>1
  <2>2. CASE g # nextGen
    <3>1. \E t \in DOMAIN restore.handles : restore.handles[t] = g
      BY <1>1, <1>5, <1>14, <2>2 DEF InOrder, StagedKnown
    <3> QED
      BY <1>8, <3>1
  <2> QED
    BY <2>1, <2>2
<1>17. OldSceneGone'
  BY <1>9 DEF OldSceneGone
<1> QED
  BY <1>4, <1>10, <1>11, <1>13, <1>15, <1>16, <1>17 DEF RestoreInv, InOrder

LEMMA RetainInOrder ==
  ASSUME RestoreInv, DirectStep, NEW s \in saved, RetainReserved(s)
  PROVE  RestoreInv'
<1> DEFINE g == restore.handles[s]
<1>1. /\ LeakInv /\ AuthorityInv /\ InOrder /\ EntriesTyped
  BY DEF RestoreInv, LeakInv, RepositoryInv, Typed
<1>2. /\ restore.phase = "prepare" /\ s \in DOMAIN restore.handles /\ Retained(Guest, g)
      /\ UNCHANGED <<saved, restore, scene>>
  BY DEF RetainReserved, Retained, restoreVars
<1>3. g \in DOMAIN entries /\ entries[g].staged /\ Guest \in Holders
  BY <1>1, <1>2, RepositoryAssumption DEF InOrder, ReservedEntries, Waiting
<1> HIDE DEF g
<1>4. LeakInv' /\ AuthorityInv' /\ CapsWane
  BY <1>1, <1>2, <1>3, RetainedKeeps
<1>5. Shrinks /\ undo' \subseteq undo
  BY <1>1, <1>2, <1>3, RetainedShrinks DEF Retained
<1>6. NothingReserved /\ \A x \in DOMAIN entries' : Wanes(x)
  BY <1>5 DEF Shrinks, Wanes, Stays, NothingReserved
<1>7. direct' \subseteq direct
  BY <1>1, <1>6, NothingAppears DEF Wanes, Stays
<1>8. ASSUME NEW x \in DOMAIN entries
      PROVE  Persists(x)
  <2>1. ASSUME NEW e \in Shape, NEW d, d = [e EXCEPT !.retains = @ + 1]
        PROVE  /\ d.import = e.import /\ d.state = e.state
               /\ d.staged = e.staged /\ d.current = e.current
    BY <2>1 DEF Shape
  <2>2. /\ x \in DOMAIN entries'
        /\ entries'[x] = IF x = g THEN [entries[x] EXCEPT !.retains = @ + 1] ELSE entries[x]
    BY <1>2, <1>8 DEF Retained
  <2>3. entries[x] \in Shape
    BY <1>1, <1>8 DEF EntriesTyped
  <2> QED
    BY <2>1, <2>2, <2>3 DEF Persists
<1>9. \A t \in DOMAIN restore.handles : Persists(restore.handles[t])
  BY <1>1, <1>8 DEF InOrder, ReservedEntries
<1>10. InOrder'
  BY <1>1, <1>2, <1>4, <1>5, <1>6, <1>7, <1>9, OrderKept
<1> QED
  BY <1>4, <1>10 DEF RestoreInv

----------------------------------------------------------------------------
(***************************************************************************)
(* Committing: the timeline is cleared around what is reserved.            *)
(***************************************************************************)
LEMMA InvalidatePassesOver ==
  ASSUME RestoreInv, DirectStep, NEW owners, Invalidate(owners)
  PROVE  /\ CapsWane /\ NothingReserved /\ direct' \subseteq direct /\ undo' = {}
         /\ \A g \in DOMAIN entries : entries[g].staged => Persists(g)
         /\ \A g \in DOMAIN entries' : Ready(g)' => entries'[g].import.owner \notin owners
<1> DEFINE S == {g \in DOMAIN entries :
                   entries[g].import.owner \in owners /\ ~Protected(g)}
<1>1. /\ LeakInv /\ AuthorityInv /\ EntriesTyped /\ CapsShaped /\ OneCurrent
      /\ Accounted(entries, held)
  BY DEF RestoreInv, LeakInv, RepositoryInv, Typed, AuthorityInv
<1>2. entries' = Dropped(S) /\ undo' = {}
  BY DEF Invalidate
<1>3. \A g \in DOMAIN entries : /\ entries[g].staged => g \notin S
                                /\ g \notin S /\ ~entries[g].staged
                                     => entries[g].import.owner \notin owners
  BY DEF Protected
<1> HIDE DEF S
<1>4. CapsWane /\ Shrinks
  BY <1>1, InvalidateWanes, InvalidateShrinks
<1>5. NothingReserved /\ direct' \subseteq direct
  BY <1>1, <1>4, NothingAppears DEF Shrinks, Wanes, Stays, NothingReserved
<1>6. ASSUME NEW g \in DOMAIN entries, entries[g].staged
      PROVE  Persists(g)
  <2>1. g \in DOMAIN Dropped(S) /\ g \notin S
    BY <1>3, <1>6, DroppedFacts DEF Gone
  <2>2. Dropped(S)[g] = entries[g]
    BY <1>1, <2>1, DroppedTyped
  <2> QED
    BY <1>2, <2>1, <2>2 DEF Persists
<1>7. ASSUME NEW g \in DOMAIN entries', Ready(g)'
      PROVE  entries'[g].import.owner \notin owners
  <2>1. g \in DOMAIN Dropped(S)
    BY <1>2, <1>7
  <2>2. /\ g \in DOMAIN entries /\ g \notin Gone(S)
        /\ entries'[g].import = entries[g].import
        /\ entries'[g].state = entries[g].state /\ entries'[g].staged = entries[g].staged
        /\ entries'[g].current => entries[g].current /\ g \notin S
    BY <1>1, <1>2, <2>1, DroppedTyped
  <2>3. ~entries[g].staged /\ g \notin S
    <3>1. CASE entries'[g].current
      BY <1>1, <2>2, <3>1 DEF OneCurrent
    <3>2. CASE entries'[g].state = "importing" /\ ~entries'[g].staged
      <4>1. Users(held, g) = {}
        BY <1>1, <2>2, <3>2 DEF Users, AuthorityInv, Owned
      <4>2. entries[g].retains = 0
        BY <1>1, <2>2, <4>1, FS_EmptySet DEF Accounted
      <4> QED
        BY <2>2, <3>2, <4>2 DEF Gone
    <3>3. entries'[g].current \/ (entries'[g].state = "importing" /\ ~entries'[g].staged)
      BY <1>7 DEF Ready
    <3> QED
      BY <3>1, <3>2, <3>3
  <2> QED
    BY <1>3, <2>2, <2>3
<1> QED
  BY <1>2, <1>4, <1>5, <1>6, <1>7

LEMMA BootInOrder ==
  ASSUME RestoreInv, DirectStep, BootInvalidate
  PROVE  RestoreInv'
<1>1. /\ LeakInv /\ AuthorityInv /\ InOrder /\ RestoreShape /\ Typed
  BY DEF RestoreInv, InOrder, LeakInv, RepositoryInv
<1>2. /\ restore.phase = "prepare" /\ DOMAIN restore.handles = saved
      /\ restore' = [restore EXCEPT !.phase = "boot"] /\ saved' = saved /\ scene' = scene
      /\ scene' \in 1..SceneLimit /\ scene < SceneLimit
  BY <1>1 DEF BootInvalidate, Prepared, InvalidateFromOwner, Typed, RestoreShape
<1>3. PICK owners : Invalidate(owners)
  BY DEF BootInvalidate, InvalidateFromOwner
<1>4. LeakInv' /\ AuthorityInv'
  BY <1>1, <1>2, <1>3, InvalidateKeeps
<1>5. /\ CapsWane /\ NothingReserved /\ direct' \subseteq direct /\ undo' = {}
      /\ \A g \in DOMAIN entries : entries[g].staged => Persists(g)
  BY <1>3, InvalidatePassesOver
<1>6. /\ restore'.phase = "boot" /\ restore'.caps = restore.caps
      /\ restore'.handles = restore.handles /\ restore'.left = restore.left
      /\ restore' = [phase |-> "boot", caps |-> restore.caps,
                     handles |-> restore.handles, left |-> restore.left]
  BY <1>1, <1>2, PhaseFacts
<1>7. RestoreShape' /\ OldSceneGone'
  <2>1. /\ DOMAIN restore.handles \subseteq DOMAIN restore.caps
        /\ DOMAIN restore.caps \subseteq saved /\ restore.left \subseteq saved
    BY <1>1 DEF RestoreShape
  <2> QED
    BY <1>2, <1>5, <1>6, <2>1 DEF RestoreShape, Phases, Uncommitted, OldSceneGone
<1>8. /\ OpenScene' = OpenScene /\ restore.phase \in Uncommitted /\ restore'.phase \in Uncommitted
      /\ Waiting = DOMAIN restore.handles
  BY <1>2, <1>6 DEF OpenScene, Uncommitted, Waiting
<1>9. \A s \in DOMAIN restore.handles : Persists(restore.handles[s])
  BY <1>1, <1>5, <1>8 DEF InOrder, ReservedEntries
<1>10. InOrder'
  BY <1>1, <1>2, <1>5, <1>6, <1>7, <1>8, <1>9, OrderMoves
<1> QED
  BY <1>4, <1>10 DEF RestoreInv

LEMMA BoundaryInOrder ==
  ASSUME RestoreInv, DirectStep, RestoreBoundary
  PROVE  RestoreInv'
<1> DEFINE old == {o \in Owners : o.rank >= SceneRank}
<1>1. /\ LeakInv /\ AuthorityInv /\ InOrder /\ RestoreShape /\ Typed
  BY DEF RestoreInv, InOrder, LeakInv, RepositoryInv
<1>2. /\ restore.phase \in {"prepare", "boot"} /\ DOMAIN restore.handles = saved
      /\ restore' = [restore EXCEPT !.phase = "commit"] /\ saved' = saved
      /\ scene < SceneLimit /\ scene' = scene + 1 /\ Invalidate(old)
  BY <1>1 DEF RestoreBoundary, Prepared, SceneBoundary, RestoreShape
<1> HIDE DEF old
<1>3. scene' \in 1..SceneLimit
  BY <1>1, <1>2, RepositoryAssumption DEF Typed
<1>4. LeakInv' /\ AuthorityInv'
  BY <1>1, <1>2, <1>3, InvalidateKeeps
<1>5. /\ CapsWane /\ NothingReserved /\ direct' \subseteq direct /\ undo' = {}
      /\ \A g \in DOMAIN entries : entries[g].staged => Persists(g)
      /\ \A g \in DOMAIN entries' : Ready(g)' => entries'[g].import.owner \notin old
  BY <1>2, InvalidatePassesOver
<1>6. /\ restore'.phase = "commit" /\ restore'.caps = restore.caps
      /\ restore'.handles = restore.handles /\ restore'.left = restore.left
      /\ restore' = [phase |-> "commit", caps |-> restore.caps,
                     handles |-> restore.handles, left |-> restore.left]
  BY <1>1, <1>2, PhaseFacts
<1>7. RestoreShape'
  <2>1. /\ DOMAIN restore.handles \subseteq DOMAIN restore.caps
        /\ DOMAIN restore.caps \subseteq saved /\ restore.left \subseteq saved
    BY <1>1 DEF RestoreShape
  <2> QED
    BY <1>2, <1>5, <1>6, <2>1 DEF RestoreShape, Phases, Uncommitted
<1>8. OldSceneGone'
  <2> SUFFICES ASSUME NEW g \in DOMAIN entries', Ready(g)'
               PROVE  ~(entries'[g].import.owner.rank >= SceneRank)
    BY DEF OldSceneGone, Ready
  <2>1. entries'[g].import.owner \in Owners
    BY <1>4 DEF LeakInv, RepositoryInv, Typed, EntriesTyped, Shape, Imports
  <2> QED
    BY <1>5, <2>1 DEF old
<1>9. /\ OpenScene' = OpenScene /\ restore.phase \in Uncommitted /\ restore'.phase \in Uncommitted
      /\ Waiting = DOMAIN restore.handles
  BY <1>2, <1>6 DEF OpenScene, Uncommitted, Waiting
<1>10. \A s \in DOMAIN restore.handles : Persists(restore.handles[s])
  BY <1>1, <1>5, <1>9 DEF InOrder, ReservedEntries
<1>11. InOrder'
  BY <1>1, <1>2, <1>5, <1>6, <1>7, <1>8, <1>9, <1>10, OrderMoves
<1> QED
  BY <1>4, <1>11 DEF RestoreInv

(* Authority becomes live: what is reserved is backed from now on.           *)
LEMMA CommitInOrder ==
  ASSUME RestoreInv, DirectStep, CapabilityRestoreCommit
  PROVE  RestoreInv'
<1>1. InOrder /\ RestoreShape /\ SavedShape
  BY DEF RestoreInv, InOrder
<1>2. /\ restore.phase = "commit" /\ entries' = entries /\ scene' = scene /\ saved' = saved
      /\ undo' = undo /\ restore' = [restore EXCEPT !.phase = "install", !.left = saved]
  BY DEF CapabilityRestoreCommit
<1>3. /\ LeakInv' /\ AuthorityInv' /\ direct' = direct /\ DOMAIN caps' = DOMAIN caps
      /\ \A c \in DOMAIN caps :
           /\ caps'[c].live /\ ~caps'[c].staged /\ ~caps'[c].created
           /\ caps[c].staged => caps'[c].owner = caps[c].restored
  BY CommitKeeps
<1>4. /\ restore' = [phase |-> "install", caps |-> restore.caps,
                     handles |-> restore.handles, left |-> saved]
  <2>1. restore = [phase |-> restore.phase, caps |-> restore.caps,
                   handles |-> restore.handles, left |-> restore.left]
    BY <1>1 DEF RestoreShape
  <2> DEFINE a == restore.phase
             b == restore.caps
             c == restore.handles
             d == restore.left
  <2>2. restore = [phase |-> a, caps |-> b, handles |-> c, left |-> d]
    BY <2>1
  <2> HIDE DEF a, b, c, d
  <2>3. restore' = [phase |-> "install", caps |-> b, handles |-> c, left |-> saved]
    BY <1>2, <2>2
  <2> QED
    BY <2>3 DEF b, c
<1>5. /\ restore'.phase = "install" /\ restore'.caps = restore.caps
      /\ restore'.handles = restore.handles /\ restore'.left = saved
      /\ DOMAIN restore.handles = saved
  <2>1. DOMAIN restore.handles = saved
    BY <1>1, <1>2 DEF RestoreShape
  <2> QED
    BY <1>4, <2>1
<1>6. RestoreShape'
  <2>1. /\ DOMAIN restore.handles \subseteq DOMAIN restore.caps
        /\ DOMAIN restore.caps \subseteq saved
    BY <1>1 DEF RestoreShape
  <2> QED
    BY <1>2, <1>4, <1>5, <2>1 DEF RestoreShape, Phases, Uncommitted
<1>7. Waiting = saved /\ Waiting' = saved
  BY <1>2, <1>5 DEF Waiting
<1>8. \A o : Target(o)' = Target(o)
  BY <1>2, <1>5 DEF Target, OpenScene
<1>9. CapsLive' /\ ReservedCaps' /\ OldSceneGone'
  BY <1>3, <1>5 DEF CapsLive, ReservedCaps, OldSceneGone, Uncommitted
<1>10. ReservedEntries'
  <2> SUFFICES ASSUME NEW s \in DOMAIN restore'.handles, NEW g, g = restore'.handles[s]
               PROVE  /\ g \in DOMAIN entries' \ direct'
                      /\ entries'[g].import = [s.import EXCEPT !.cap = restore'.caps[s],
                                                               !.owner = Target(s.import.owner)']
                      /\ s \in Waiting' => /\ entries'[g].staged
                                           /\ entries'[g].state = "importing"
                                           /\ ~entries'[g].current
                      /\ s \notin Waiting' => entries'[g].current
                      /\ restore'.phase = "install" => Backed(g)'
    BY DEF ReservedEntries, Backed
  <2>1. s \in DOMAIN restore.handles /\ g = restore.handles[s] /\ s \in DOMAIN restore.caps
    BY <1>1, <1>5 DEF RestoreShape
  <2>2. /\ g \in DOMAIN entries \ direct
        /\ entries[g].import = [s.import EXCEPT !.cap = restore.caps[s], !.owner = Target(@)]
        /\ s \in Waiting => /\ entries[g].staged /\ entries[g].state = "importing"
                            /\ ~entries[g].current
        /\ s \notin Waiting => entries[g].current
    BY <1>1, <2>1 DEF InOrder, ReservedEntries
  <2>3. entries'[g].import = [s.import EXCEPT !.cap = restore'.caps[s], !.owner = Target(s.import.owner)']
    BY <1>2, <1>5, <1>8, <2>2
  <2>4. Backed(g)'
    <3>1. /\ entries[g].import.cap = restore.caps[s]
          /\ entries[g].import.owner = Target(s.import.owner)
      BY <1>1, <2>1, ReservedImport
    <3>2. CASE restore.caps[s] = NoCap
      BY <1>2, <3>1, <3>2 DEF Backed, CapabilityMatches
    <3>3. CASE restore.caps[s] # NoCap
      <4>1. /\ restore.caps[s] \in DOMAIN caps /\ caps[restore.caps[s]].staged
            /\ caps[restore.caps[s]].restored = Target(s.import.owner)
        BY <1>1, <1>2, <2>1, <3>3 DEF InOrder, ReservedCaps, Uncommitted
      <4>2. /\ restore.caps[s] \in DOMAIN caps' /\ caps'[restore.caps[s]].live
            /\ caps'[restore.caps[s]].owner = Target(s.import.owner)
        BY <1>3, <4>1
      <4> QED
        BY <1>2, <3>1, <4>2 DEF Backed, CapabilityMatches
    <3> QED
      BY <3>2, <3>3
  <2> QED
    BY <1>2, <1>3, <1>7, <2>2, <2>3, <2>4
<1>11. StagedKnown'
  BY <1>1, <1>2, <1>5, <1>7 DEF InOrder, StagedKnown
<1>12. SavedShape'
  BY <1>1, <1>2, SavedStays
<1> QED
  BY <1>3, <1>6, <1>9, <1>10, <1>11, <1>12 DEF RestoreInv, InOrder

----------------------------------------------------------------------------
(***************************************************************************)
(* Installing, and giving back, one reservation.                           *)
(***************************************************************************)
LEMMA InstalledFacts ==
  ASSUME EntriesTyped, NEW g \in DOMAIN entries, MakeCurrent({g})
  PROVE  /\ g \in DOMAIN entries' /\ entries'[g].import = entries[g].import
         /\ entries'[g].current /\ ~entries'[g].staged
         /\ \A x \in DOMAIN entries' \ {g} :
              x \in DOMAIN entries /\ entries'[x].staged = entries[x].staged
         /\ \A x \in DOMAIN entries \ {g} : Res(x) # Res(g) => Persists(x)
<1> DEFINE P == {g}
           S == Superseded(P)
           E == [x \in DOMAIN Dropped(S) |->
                   IF x \in P
                   THEN [entries[x] EXCEPT !.state = "owned", !.current = TRUE,
                                           !.staged = FALSE]
                   ELSE Dropped(S)[x]]
<1>1. entries' = E
  BY DEF MakeCurrent
<1>2. g \notin S /\ \A x \in S : Res(x) = Res(g)
  BY DEF Superseded
<1> HIDE DEF S
<1>3. DOMAIN Dropped(S) = DOMAIN entries \ Gone(S) /\ Gone(S) \subseteq S
  BY DroppedFacts DEF Gone
<1>4. /\ g \in DOMAIN entries'
      /\ entries'[g] = [entries[g] EXCEPT !.state = "owned", !.current = TRUE, !.staged = FALSE]
  BY <1>1, <1>2, <1>3
<1>5. /\ entries'[g].import = entries[g].import /\ entries'[g].current /\ ~entries'[g].staged
  <2>1. entries[g] \in Shape
    BY DEF EntriesTyped
  <2>2. ASSUME NEW e \in Shape, NEW d,
               d = [e EXCEPT !.state = "owned", !.current = TRUE, !.staged = FALSE]
        PROVE  d.import = e.import /\ d.current /\ ~d.staged
    BY <2>2 DEF Shape
  <2> QED
    BY <1>4, <2>1, <2>2
<1>6. ASSUME NEW x \in DOMAIN entries' \ {g}
      PROVE  x \in DOMAIN entries /\ entries'[x].staged = entries[x].staged
  <2>1. x \in DOMAIN Dropped(S) /\ entries'[x] = Dropped(S)[x]
    BY <1>1, <1>6
  <2> QED
    BY <2>1, DroppedTyped
<1>7. ASSUME NEW x \in DOMAIN entries \ {g}, Res(x) # Res(g)
      PROVE  Persists(x)
  <2>1. x \notin S /\ x \in DOMAIN Dropped(S) /\ x \in DOMAIN entries'
        /\ entries'[x] = Dropped(S)[x]
    BY <1>1, <1>2, <1>3, <1>7
  <2>2. Dropped(S)[x] = entries[x]
    BY <2>1, DroppedTyped
  <2> QED
    BY <2>1, <2>2 DEF Persists
<1> QED
  BY <1>4, <1>5, <1>6, <1>7

LEMMA InstallInOrder ==
  ASSUME RestoreInv, DirectStep, NEW s \in saved, RestoreCommit(s)
  PROVE  RestoreInv'
<1> DEFINE g == restore.handles[s]
           L == restore.left \ {s}
<1>1. /\ LeakInv /\ InOrder /\ EntriesTyped /\ RestoreShape /\ SavedShape /\ OneCurrent
  BY DEF RestoreInv, InOrder, LeakInv, RepositoryInv, Typed
<1>2. /\ restore.phase = "install" /\ s \in restore.left /\ g \in DOMAIN entries
      /\ MakeCurrent({g}) /\ scene' = scene /\ saved' = saved
      /\ restore' = [restore EXCEPT !.left = L]
  <2>1. restore' = [restore EXCEPT !.left = @ \ {s}]
    BY DEF RestoreCommit
  <2> QED
    BY <2>1 DEF RestoreCommit
<1>3. /\ LeakInv' /\ AuthorityInv' /\ CapsWane
      /\ direct' = direct \cap DOMAIN entries'
  BY InstallKeeps
<1>4. /\ g \in DOMAIN entries' /\ entries'[g].import = entries[g].import
      /\ entries'[g].current /\ ~entries'[g].staged
      /\ \A x \in DOMAIN entries' \ {g} :
           x \in DOMAIN entries /\ entries'[x].staged = entries[x].staged
      /\ \A x \in DOMAIN entries \ {g} : Res(x) # Res(g) => Persists(x)
  BY <1>1, <1>2, InstalledFacts
<1> HIDE DEF L
<1>5. /\ restore'.phase = "install" /\ restore'.caps = restore.caps
      /\ restore'.handles = restore.handles /\ restore'.left = L
      /\ restore' = [phase |-> "install", caps |-> restore.caps,
                     handles |-> restore.handles, left |-> L]
  BY <1>1, <1>2, LeftFieldFacts
<1>6. /\ DOMAIN restore.handles \subseteq DOMAIN restore.caps
      /\ DOMAIN restore.caps \subseteq saved /\ restore.left \subseteq saved
      /\ DOMAIN restore.handles = saved
  BY <1>1, <1>2 DEF RestoreShape
<1>7. L \subseteq saved /\ \A t : t \in L <=> t \in restore.left /\ t # s
  BY <1>6 DEF L
<1>8. RestoreShape'
  <2>1. restore'.phase \in Phases /\ restore'.phase \notin Uncommitted
    BY <1>5 DEF Phases, Uncommitted
  <2> QED
    BY <1>2, <1>5, <1>6, <1>7, <2>1 DEF RestoreShape
<1>9. Waiting = restore.left /\ Waiting' = L
  BY <1>2, <1>5 DEF Waiting
<1>10. \A o : Target(o)' = Target(o)
  BY <1>2, <1>5 DEF Target, OpenScene
<1>11. CapsLive'
  BY <1>1, <1>2, <1>3, <1>5 DEF InOrder, CapsLive, CapsWane, SameCap, Uncommitted
<1>12. ReservedCaps' /\ OldSceneGone'
  BY <1>5 DEF ReservedCaps, OldSceneGone, Uncommitted
<1>13. ASSUME NEW t \in DOMAIN restore.handles, t # s
       PROVE  Persists(restore.handles[t])
  <2>1. restore.handles[t] # g
    BY <1>1, <1>6, <1>13, HandlesApart
  <2>2. /\ restore.handles[t] \in DOMAIN entries
        /\ Res(restore.handles[t]) = t.import.res /\ Res(g) = s.import.res
    BY <1>1, <1>6, <1>13, ReservedImport DEF Res
  <2>3. t.import.res # s.import.res
    BY <1>1, <1>6, <1>13 DEF SavedShape
  <2> QED
    BY <1>4, <2>1, <2>2, <2>3
<1>14. ReservedEntries'
  <2> SUFFICES ASSUME NEW t \in DOMAIN restore'.handles, NEW h, h = restore'.handles[t]
               PROVE  /\ h \in DOMAIN entries' \ direct'
                      /\ entries'[h].import = [t.import EXCEPT !.cap = restore'.caps[t],
                                                               !.owner = Target(t.import.owner)']
                      /\ t \in Waiting' => /\ entries'[h].staged
                                           /\ entries'[h].state = "importing"
                                           /\ ~entries'[h].current
                      /\ t \notin Waiting' => entries'[h].current
                      /\ restore'.phase = "install" => Backed(h)'
    BY DEF ReservedEntries, Backed
  <2>1. t \in DOMAIN restore.handles /\ h = restore.handles[t]
    BY <1>5
  <2>2. /\ h \in DOMAIN entries \ direct
        /\ entries[h].import = [t.import EXCEPT !.cap = restore.caps[t], !.owner = Target(@)]
        /\ t \in Waiting => /\ entries[h].staged /\ entries[h].state = "importing"
                            /\ ~entries[h].current
        /\ t \notin Waiting => entries[h].current
        /\ Backed(h)
    BY <1>1, <1>2, <2>1 DEF InOrder, ReservedEntries
  <2>3. /\ h \in DOMAIN entries' /\ entries'[h].import = entries[h].import
        /\ t \in Waiting' => /\ entries'[h].staged
                             /\ entries'[h].state = "importing"
                             /\ ~entries'[h].current
        /\ t \notin Waiting' => entries'[h].current
    <3>1. CASE t = s
      BY <1>4, <1>7, <1>9, <2>1, <3>1
    <3>2. CASE t # s
      <4>1. Persists(h)
        BY <1>13, <2>1, <3>2
      <4> QED
        BY <1>7, <1>9, <2>2, <3>2, <4>1 DEF Persists
    <3> QED
      BY <3>1, <3>2
  <2>4. Backed(h)'
    BY <1>3, <2>2, <2>3, BackedStays
  <2>5. entries'[h].import = [t.import EXCEPT !.cap = restore'.caps[t], !.owner = Target(t.import.owner)']
    BY <1>5, <1>10, <2>2, <2>3
  <2> QED
    BY <1>3, <2>2, <2>3, <2>4, <2>5
<1>15. StagedKnown'
  <2> SUFFICES ASSUME NEW x \in DOMAIN entries', entries'[x].staged
               PROVE  \E t \in L : restore.handles[t] = x
    BY <1>5, <1>9 DEF StagedKnown
  <2>1. x # g /\ x \in DOMAIN entries /\ entries[x].staged
    BY <1>4
  <2>2. PICK t \in restore.left : restore.handles[t] = x
    BY <1>1, <1>9, <2>1 DEF InOrder, StagedKnown
  <2> QED
    BY <1>7, <2>1, <2>2
<1>16. SavedShape'
  BY <1>1, <1>2, SavedStays
<1> QED
  BY <1>3, <1>8, <1>11, <1>12, <1>14, <1>15, <1>16 DEF RestoreInv, InOrder

LEMMA GiveBackInOrder ==
  ASSUME RestoreInv, DirectStep, NEW s \in saved, RestoreCancel(s)
  PROVE  RestoreInv'
<1> DEFINE g == restore.handles[s]
           H == Without(restore.handles, {s})
<1>1. InOrder /\ RestoreShape /\ SavedShape
  BY DEF RestoreInv, InOrder
<1>2. /\ restore.phase = "cancel" /\ s \in DOMAIN restore.handles
      /\ scene' = scene /\ saved' = saved /\ undo' = undo
      /\ restore' = [restore EXCEPT !.handles = H]
  <2>1. restore' = [restore EXCEPT !.handles = Without(@, {s})]
    BY DEF RestoreCancel
  <2> QED
    BY <2>1 DEF RestoreCancel
<1>3. /\ LeakInv' /\ AuthorityInv' /\ CapsWane /\ direct' = direct
      /\ DOMAIN entries' = DOMAIN entries \ {g}
      /\ \A x \in DOMAIN entries' : entries'[x] = entries[x]
  BY GiveBackKeeps
<1>4. /\ DOMAIN H = DOMAIN restore.handles \ {s}
      /\ \A t \in DOMAIN restore.handles \ {s} : H[t] = restore.handles[t]
  BY WithoutFacts
<1> HIDE DEF H
<1>5. /\ restore'.phase = "cancel" /\ restore'.caps = restore.caps
      /\ restore'.handles = H /\ restore'.left = restore.left
      /\ restore' = [phase |-> "cancel", caps |-> restore.caps,
                     handles |-> H, left |-> restore.left]
  BY <1>1, <1>2, HandlesFieldFacts
<1>6. RestoreShape'
  <2>1. /\ DOMAIN restore.handles \subseteq DOMAIN restore.caps
        /\ DOMAIN restore.caps \subseteq saved /\ restore.left \subseteq saved
        /\ undo = {} /\ scene < SceneLimit
    BY <1>1, <1>2 DEF RestoreShape, Uncommitted
  <2>2. restore'.phase \in Phases
    BY <1>5 DEF Phases, Uncommitted
  <2>3. DOMAIN restore'.handles \subseteq DOMAIN restore'.caps
    BY <1>4, <1>5, <2>1
  <2> QED
    BY <1>2, <1>5, <2>1, <2>2, <2>3 DEF RestoreShape
<1>7. Waiting = DOMAIN restore.handles /\ Waiting' = DOMAIN H
  BY <1>2, <1>5 DEF Waiting
<1>8. \A o : Target(o)' = Target(o)
  BY <1>2, <1>5 DEF Target, OpenScene
<1>9. CapsLive'
  BY <1>1, <1>2, <1>3, <1>5, <1>8 DEF InOrder, CapsLive, CapsWane, SameCap
<1>10. ReservedCaps'
  <2> SUFFICES ASSUME NEW t \in DOMAIN restore.caps, restore.caps[t] # NoCap
               PROVE  /\ restore.caps[t] \in DOMAIN caps' /\ caps'[restore.caps[t]].staged
                      /\ caps'[restore.caps[t]].restored = Target(t.import.owner)
    BY <1>5, <1>8 DEF ReservedCaps
  <2>1. /\ restore.caps[t] \in DOMAIN caps /\ caps[restore.caps[t]].staged
        /\ caps[restore.caps[t]].restored = Target(t.import.owner)
    BY <1>1, <1>2 DEF InOrder, ReservedCaps, Uncommitted
  <2> QED
    BY <1>3, <2>1 DEF CapsWane, SameCap
<1>11. ReservedEntries'
  <2> SUFFICES ASSUME NEW t \in DOMAIN restore'.handles, NEW h, h = restore'.handles[t]
               PROVE  /\ h \in DOMAIN entries' \ direct'
                      /\ entries'[h].import = [t.import EXCEPT !.cap = restore'.caps[t],
                                                               !.owner = Target(t.import.owner)']
                      /\ t \in Waiting' => /\ entries'[h].staged
                                           /\ entries'[h].state = "importing"
                                           /\ ~entries'[h].current
                      /\ t \notin Waiting' => entries'[h].current
                      /\ restore'.phase = "install" => Backed(h)'
    BY DEF ReservedEntries, Backed
  <2>1. t \in DOMAIN restore.handles \ {s} /\ h = restore.handles[t] /\ t \in Waiting'
    BY <1>4, <1>5, <1>7
  <2>2. h # g
    BY <1>1, <1>2, <2>1, HandlesApart
  <2>3. /\ h \in DOMAIN entries \ direct
        /\ entries[h].import = [t.import EXCEPT !.cap = restore.caps[t], !.owner = Target(@)]
        /\ entries[h].staged /\ entries[h].state = "importing" /\ ~entries[h].current
    BY <1>1, <1>7, <2>1 DEF InOrder, ReservedEntries
  <2>4. h \in DOMAIN entries' /\ entries'[h] = entries[h]
    BY <1>3, <2>2, <2>3
  <2>5. entries'[h].import = [t.import EXCEPT !.cap = restore'.caps[t], !.owner = Target(t.import.owner)']
    BY <1>5, <1>8, <2>3, <2>4
  <2> QED
    BY <1>3, <1>5, <2>1, <2>3, <2>4, <2>5
<1>12. StagedKnown'
  <2> SUFFICES ASSUME NEW x \in DOMAIN entries', entries'[x].staged
               PROVE  \E t \in DOMAIN H : H[t] = x
    BY <1>5, <1>7 DEF StagedKnown
  <2>1. x # g /\ x \in DOMAIN entries /\ entries[x].staged
    BY <1>3
  <2>2. PICK t \in DOMAIN restore.handles : restore.handles[t] = x
    BY <1>1, <1>7, <2>1 DEF InOrder, StagedKnown
  <2> QED
    BY <1>4, <2>1, <2>2
<1>13. SavedShape' /\ OldSceneGone'
  BY <1>1, <1>2, <1>5, SavedStays DEF OldSceneGone
<1> QED
  BY <1>3, <1>6, <1>9, <1>10, <1>11, <1>12, <1>13 DEF RestoreInv, InOrder

----------------------------------------------------------------------------
(***************************************************************************)
(* The invariant of the repository with its restores.                      *)
(***************************************************************************)
LEMMA RestoreInitInv == RestoreInit => RestoreInv
<1> SUFFICES ASSUME RestoreInit PROVE RestoreInv
  OBVIOUS
<1>1. /\ entries = <<>> /\ caps = <<>> /\ identity = <<>> /\ held = {} /\ undo = {}
      /\ saved = {} /\ restore = Idle /\ direct = {}
  BY DEF RestoreInit, Init
<1>2. LeakInv
  <2>1. RepositoryInv
    BY InitInv DEF RestoreInit
  <2> QED
    BY <1>1, <2>1 DEF LeakInv, Accounted, Identified, InUse
<1>3. AuthorityInv
  BY <1>1 DEF AuthorityInv, CapsShaped
<1>4. InOrder
  <2>1. /\ restore.phase = "idle" /\ restore.caps = <<>> /\ restore.handles = <<>>
        /\ restore.left = {} /\ DOMAIN restore.caps = {} /\ DOMAIN restore.handles = {}
    BY <1>1 DEF Idle
  <2>2. RestoreShape
    BY <1>1, <2>1 DEF RestoreShape, Phases, Uncommitted, Idle
  <2>3. SavedShape /\ CapsLive /\ StagedKnown
    BY <1>1 DEF SavedShape, CapsLive, StagedKnown
  <2>4. ReservedCaps /\ ReservedEntries /\ OldSceneGone
    BY <2>1 DEF ReservedCaps, ReservedEntries, OldSceneGone, Uncommitted
  <2> QED
    BY <2>2, <2>3, <2>4 DEF InOrder
<1> QED
  BY <1>2, <1>3, <1>4 DEF RestoreInv

LEMMA RestoreStepInv ==
  ASSUME RestoreInv, RestoreNext
  PROVE  RestoreInv'
<1>1. DirectStep
  BY DEF RestoreNext, DirectStep
<1>2. CASE restore.phase = "idle" /\ GuestStep /\ UNCHANGED restoreVars
  BY <1>1, <1>2, GuestInOrder
<1>3. CASE OtherHolders /\ UNCHANGED restoreVars
  BY <1>1, <1>3, OthersInOrder DEF RestoreInv
<1>4. CASE RestoreStep
  BY <1>1, <1>4, SaveInOrder, BeginInOrder, PrepareInOrder, ReserveInOrder, RetainInOrder,
     FailsInOrder, BootInOrder, BoundaryInOrder, CommitInOrder, InstallInOrder,
     DoneInOrder, GiveBackInOrder, CancelInOrder DEF RestoreStep
<1> QED
  BY <1>2, <1>3, <1>4 DEF RestoreNext

LEMMA RestoreStutter ==
  ASSUME RestoreInv, UNCHANGED allVars
  PROVE  RestoreInv'
<1>1. /\ UNCHANGED <<entries, caps, identity, nextGen, nextCap, scene, held, undo>>
      /\ UNCHANGED <<saved, restore, direct>>
  BY DEF allVars, vars, restoreVars
<1>2. /\ LeakInv /\ AuthorityInv /\ InOrder /\ CapsTyped /\ InUse(entries, caps)
  BY DEF RestoreInv, LeakInv, RepositoryInv, Typed
<1>3. LeakInv'
  <2>1. CapsTyped' /\ InUse(entries, caps') /\ undo' \subseteq undo
    BY <1>1, <1>2 DEF CapsTyped
  <2> QED
    BY <1>1, <1>2, <2>1, CapsOnly
<1>4. AuthorityInv'
  BY <1>1, <1>2 DEF AuthorityInv, CapsShaped, Ready, Backed, CapabilityMatches, Owned
<1>5. InOrder'
  <2>1. \A o : Target(o)' = Target(o)
    BY <1>1 DEF Target, OpenScene
  <2>2. RestoreShape' /\ SavedShape'
    BY <1>1, <1>2 DEF InOrder, RestoreShape, SavedShape, Phases, Uncommitted, Idle
  <2>3. CapsLive' /\ ReservedCaps'
    BY <1>1, <1>2, <2>1 DEF InOrder, CapsLive, ReservedCaps
  <2>4. Waiting' = Waiting /\ \A g : Backed(g)' <=> Backed(g)
    BY <1>1 DEF Waiting, Backed, CapabilityMatches
  <2>5. ReservedEntries'
    BY <1>1, <1>2, <2>1, <2>4 DEF InOrder, ReservedEntries
  <2>6. StagedKnown' /\ OldSceneGone'
    BY <1>1, <1>2, <2>4 DEF InOrder, StagedKnown, OldSceneGone, Ready
  <2> QED
    BY <2>2, <2>3, <2>5, <2>6 DEF InOrder
<1> QED
  BY <1>3, <1>4, <1>5 DEF RestoreInv

(* The books, the authority and the order of a restore are kept together:   *)
(* each needs the others, as authority changes hands only where nothing of   *)
(* the old scene is ready to use it.                                         *)
THEOREM RestoreInvariant == RestoreSpec => []RestoreInv
<1>1. RestoreInv /\ [RestoreNext]_allVars => RestoreInv'
  BY RestoreStepInv, RestoreStutter
<1> QED
  BY <1>1, RestoreInitInv, PTL DEF RestoreSpec

(* Restores included, a resource has one current generation at most.         *)
THEOREM RestoreKeepsOneCurrent == RestoreSpec => []OneCurrent
<1>1. RestoreInv => OneCurrent
  BY DEF RestoreInv, LeakInv, RepositoryInv
<1> QED
  BY <1>1, RestoreInvariant, PTL

(* Restores included, references, identities and authority end with their    *)
(* last use, whether what was reserved is installed or given back.           *)
THEOREM RestoreNeverLeaks == RestoreSpec => []NothingLeaks
<1>1. RestoreInv => NothingLeaks
  BY DEF RestoreInv, LeakInv, Accounted, Identified, InUse, NothingLeaks, Useful, Users, Res
<1> QED
  BY <1>1, RestoreInvariant, PTL

(* What is current, but for direct imports, is backed by live authority of   *)
(* its own owner: through supersession, rollback, the retirement and the     *)
(* revocation of authority, invalidation, and authority that a restore hands *)
(* from the scene of the checkpoint to the one it opens.                     *)
THEOREM CurrentAlwaysAuthorised == RestoreSpec => []CurrentIsAuthorised
<1>1. RestoreInv => CurrentIsAuthorised
  BY DEF RestoreInv, AuthorityInv, CurrentIsAuthorised, Ready, Backed
<1> QED
  BY <1>1, RestoreInvariant, PTL

(* What a restore reserved is there, with its authority, until it is         *)
(* installed or given back; and nothing stays reserved when it is over.      *)
THEOREM ReservationsAlwaysSurvive == RestoreSpec => []ReservationsSurvive
<1>1. ASSUME RestoreInv, NEW s \in Waiting, NEW g, g = restore.handles[s]
      PROVE  /\ g \in DOMAIN entries /\ entries[g].staged
             /\ CapabilityMatches(entries[g].import.cap, entries[g].import.owner, TRUE)
  <2>1. InOrder /\ RestoreShape
    BY <1>1 DEF RestoreInv, InOrder
  <2>2. s \in DOMAIN restore.handles /\ s \in DOMAIN restore.caps
    BY <1>1, <2>1 DEF Waiting, RestoreShape
  <2>3. /\ g \in DOMAIN entries /\ entries[g].staged
        /\ entries[g].import.cap = restore.caps[s]
        /\ entries[g].import.owner = Target(s.import.owner)
        /\ restore.phase = "install" => Backed(g)
    BY <1>1, <2>1, <2>2, ReservedImport DEF InOrder, ReservedEntries
  <2>4. CASE restore.phase = "install"
    BY <2>3, <2>4 DEF Backed, CapabilityMatches
  <2>5. CASE restore.phase \in Uncommitted
    BY <2>1, <2>2, <2>3, <2>5 DEF InOrder, ReservedCaps, CapabilityMatches
  <2>6. restore.phase # "idle"
    <3>1. restore.phase = "idle" => DOMAIN restore.handles = {}
      BY <2>1, IdleFacts DEF Idle
    <3> QED
      BY <2>2, <3>1
  <2> QED
    BY <2>1, <2>3, <2>4, <2>5, <2>6 DEF RestoreShape, Phases
<1>2. RestoreInv => ReservationsSurvive
  BY <1>1, IdleFacts DEF RestoreInv, ReservationsSurvive, Plain, NoneStaged
<1> QED
  BY <1>2, RestoreInvariant, PTL

(* A restore that has installed everything left nothing out: each saved      *)
(* resource is current with the bytes of the checkpoint, under live          *)
(* authority of the scene that the commit opened.                            *)
THEOREM RestoreAlwaysWhole == RestoreSpec => []RestoreIsWhole
<1>1. ASSUME RestoreInv, restore.phase = "install", restore.left = {}, NEW s \in saved,
             NEW g, g = restore.handles[s]
      PROVE  /\ g \in DOMAIN entries /\ entries[g].current
             /\ entries[g].import.data = s.import.data
             /\ CapabilityMatches(entries[g].import.cap, entries[g].import.owner, FALSE)
             /\ s.import.owner.rank >= SceneRank => entries[g].import.owner.gen = scene
  <2>1. InOrder /\ RestoreShape /\ SavedShape
    BY <1>1 DEF RestoreInv, InOrder
  <2>2. s \in DOMAIN restore.handles /\ Waiting = {}
    BY <1>1, <2>1 DEF RestoreShape, Waiting
  <2>3. g \in DOMAIN entries /\ entries[g].current /\ Backed(g)
    BY <1>1, <2>1, <2>2 DEF InOrder, ReservedEntries
  <2>4. /\ entries[g].import.data = s.import.data
        /\ entries[g].import.owner = Target(s.import.owner)
    BY <1>1, <2>1, <2>2, ReservedImport
  <2>5. s.import.owner \in Owners
    BY <2>1 DEF SavedShape, Imports
  <2>6. s.import.owner.rank >= SceneRank => Target(s.import.owner).gen = scene
    BY <1>1, <2>5 DEF Target, OpenScene, Owners
  <2> QED
    BY <2>3, <2>4, <2>6 DEF Backed
<1>2. RestoreInv => RestoreIsWhole
  BY <1>1 DEF RestoreIsWhole
<1> QED
  BY <1>2, RestoreInvariant, PTL

----------------------------------------------------------------------------
(***************************************************************************)
(* What a step of a restore may never do.                                  *)
(***************************************************************************)
LEMMA OthersShrink ==
  ASSUME RestoreInv, OtherHolders
  PROVE  Next /\ Shrinks /\ Currents' = Currents
<1>1. EntriesTyped /\ OneCurrent
  BY DEF RestoreInv, LeakInv, RepositoryInv, Typed
<1>2. PICK h \in Holders, g \in DOMAIN entries :
        AcquireCurrent(h, g) \/ AcquireSnapshot(h, g) \/ Release(h, g)
  BY DEF OtherHolders
<1>3. Next
  BY <1>2 DEF Next, HolderStep
<1>4. Shrinks
  BY <1>1, <1>2, RetainedShrinks, ReleaseShrinks DEF AcquireCurrent, AcquireSnapshot
<1>5. ASSUME NEW x \in DOMAIN entries, entries[x].current
      PROVE  x \in DOMAIN entries' /\ entries'[x].current
  <2>1. entries[x] \in Shape
    BY <1>1, <1>5 DEF EntriesTyped
  <2>2. ASSUME NEW e \in Shape, NEW k, NEW d, d = [e EXCEPT !.retains = k]
        PROVE  d.current = e.current
    BY <2>2 DEF Shape
  <2>3. CASE Release(h, g)
    <3> DEFINE S == IF LastRelease(g) THEN {g} ELSE {}
    <3>1. entries' = Without(ReleasedEntries(g), S) /\ x \notin S
      BY <1>5, <2>3 DEF Release, LastRelease
    <3>2. /\ DOMAIN ReleasedEntries(g) = DOMAIN entries
          /\ ReleasedEntries(g)[x] = IF x = g THEN [entries[x] EXCEPT !.retains = @ - 1]
                                     ELSE entries[x]
      BY <1>5 DEF ReleasedEntries
    <3>3. /\ DOMAIN Without(ReleasedEntries(g), S) = DOMAIN ReleasedEntries(g) \ S
          /\ \A y \in DOMAIN ReleasedEntries(g) \ S :
               Without(ReleasedEntries(g), S)[y] = ReleasedEntries(g)[y]
      BY WithoutFacts
    <3> HIDE DEF S
    <3>4. x \in DOMAIN entries' /\ entries'[x] = ReleasedEntries(g)[x]
      BY <1>5, <3>1, <3>2, <3>3
    <3> QED
      BY <1>5, <2>1, <2>2, <3>2, <3>4
  <2>4. CASE Retained(h, g)
    <3>1. /\ x \in DOMAIN entries'
          /\ entries'[x] = IF x = g THEN [entries[x] EXCEPT !.retains = @ + 1] ELSE entries[x]
      BY <1>5, <2>4 DEF Retained
    <3> QED
      BY <1>5, <2>1, <2>2, <3>1
  <2> QED
    BY <1>2, <2>3, <2>4 DEF AcquireCurrent, AcquireSnapshot
<1>6. \A x \in DOMAIN entries' : entries'[x].current => x \in DOMAIN entries /\ entries[x].current
  BY <1>4 DEF Shrinks, Wanes, Stays
<1> QED
  BY <1>3, <1>4, <1>5, <1>6 DEF Currents

(* Until the commit, what is current stays so, and as it was.                *)
LEMMA CurrentsStay ==
  ASSUME RestoreInv, RestoreNext, restore.phase \in {"prepare", "cancel"},
         restore'.phase # "boot", restore'.phase # "commit"
  PROVE  /\ Currents' = Currents
         /\ \A g \in Currents : entries'[g].import = entries[g].import
         /\ \A g \in Currents : g \notin direct => g \notin direct'
<1> DEFINE Kept == /\ Currents' = Currents
                   /\ \A g \in Currents : entries'[g].import = entries[g].import
<1>1. /\ LeakInv /\ AuthorityInv /\ InOrder /\ EntriesTyped /\ RestoreShape
      /\ DirectStep /\ LeakInv' /\ OneCurrent
  BY RestoreStepInv DEF RestoreInv, LeakInv, RepositoryInv, Typed, InOrder, RestoreNext,
     DirectStep
<1>2. ASSUME entries' = entries
      PROVE  Kept
  BY <1>2 DEF Currents
<1>3. ASSUME OtherHolders
      PROVE  Kept
  BY <1>3, OthersShrink DEF Shrinks, Wanes, Stays, Currents
<1>4. ASSUME \E s \in saved : Reserve(s)
      PROVE  Kept
  <2>1. PICK s \in saved : Reserve(s)
    BY <1>4
  <2> DEFINE e == Entry(Reservation(s), "importing", FALSE, TRUE)
  <2>2. entries' = Put(entries, nextGen, e) /\ ~e.current
    BY <2>1 DEF Reserve, BeginImport, Entry
  <2> HIDE DEF e
  <2>3. /\ DOMAIN Put(entries, nextGen, e) = DOMAIN entries \cup {nextGen}
        /\ Put(entries, nextGen, e)[nextGen] = e
        /\ \A g \in DOMAIN entries \ {nextGen} : Put(entries, nextGen, e)[g] = entries[g]
    BY DEF Put
  <2>4. nextGen \notin DOMAIN entries
    BY <1>1 DEF EntriesTyped, Gens
  <2> QED
    BY <2>2, <2>3, <2>4 DEF Currents
<1>5. ASSUME \E s \in saved : RetainReserved(s)
      PROVE  Kept
  <2>1. PICK g : Retained(Guest, g)
    BY <1>5 DEF RetainReserved
  <2>2. /\ DOMAIN entries' = DOMAIN entries
        /\ \A x \in DOMAIN entries :
             entries'[x] = IF x = g THEN [entries[x] EXCEPT !.retains = @ + 1] ELSE entries[x]
    BY <2>1 DEF Retained
  <2>3. ASSUME NEW e \in Shape, NEW d, d = [e EXCEPT !.retains = @ + 1]
        PROVE  d.current = e.current /\ d.import = e.import
    BY <2>3 DEF Shape
  <2>4. \A x \in DOMAIN entries : entries[x] \in Shape
    BY <1>1 DEF EntriesTyped
  <2> QED
    BY <2>2, <2>3, <2>4 DEF Currents
<1>6. ASSUME \E s \in saved : RestoreCancel(s)
      PROVE  Kept
  <2>1. PICK s \in saved : RestoreCancel(s)
    BY <1>6
  <2>2. /\ DOMAIN entries' = DOMAIN entries \ {restore.handles[s]}
        /\ \A x \in DOMAIN entries' : entries'[x] = entries[x]
    BY <1>1, <2>1, GiveBackKeeps
  <2>3. ~entries[restore.handles[s]].current
    BY <2>1 DEF RestoreCancel, Committable
  <2> QED
    BY <2>2, <2>3 DEF Currents
<1>7. ASSUME (\E s \in saved : PrepareAuthority(s)) \/ PrepareFails \/ CapabilityRestoreCancel
      PROVE  Kept
  <2>1. entries' = entries
    BY <1>7 DEF PrepareAuthority, PrepareFails, CapabilityRestoreCancel, vars
  <2> QED
    BY <1>2, <2>1
<1>8. ~BootInvalidate /\ ~RestoreBoundary
  <2>1. ASSUME NEW ph, restore' = [restore EXCEPT !.phase = ph]
        PROVE  restore'.phase = ph
    BY <1>1, <2>1, PhaseFacts
  <2> QED
    BY <2>1 DEF BootInvalidate, RestoreBoundary
<1>9. Kept
  <2>1. \/ OtherHolders
        \/ \E s \in saved : PrepareAuthority(s)
        \/ \E s \in saved : Reserve(s)
        \/ \E s \in saved : RetainReserved(s)
        \/ PrepareFails
        \/ \E s \in saved : RestoreCancel(s)
        \/ CapabilityRestoreCancel
    BY <1>8 DEF RestoreNext, RestoreStep, Save, RestoreBegin, CapabilityRestoreCommit,
       RestoreCommit, RestoreDone
  <2> QED
    BY <1>3, <1>4, <1>5, <1>6, <1>7, <2>1
<1>10. \A g \in Currents : g \notin direct => g \notin direct'
  BY <1>1 DEF DirectStep, Appeared, Currents
<1> QED
  BY <1>9, <1>10

(* A restore that has not been committed can be abandoned: neither a step of *)
(* its preparation nor of its cancellation, nor what the other holders do    *)
(* meanwhile, touches what is current or the authority behind it.            *)
THEOREM CancelAlwaysHarmless == RestoreSpec => CancelIsHarmless
<1> DEFINE Harmless ==
      restore.phase \in {"prepare", "cancel"} /\ restore'.phase # "boot"
        /\ restore'.phase # "commit" =>
        /\ Currents' = Currents
        /\ \A g \in Currents \ direct :
             LET c == entries[g].import.cap
             IN  c # NoCap => /\ c \in DOMAIN caps'
                              /\ caps'[c].live /\ caps'[c].owner = caps[c].owner
<1>1. ASSUME RestoreInv, RestoreNext, restore.phase \in {"prepare", "cancel"},
             restore'.phase # "boot", restore'.phase # "commit"
      PROVE  /\ Currents' = Currents
             /\ \A g \in Currents \ direct :
                  LET c == entries[g].import.cap
                  IN  c # NoCap => /\ c \in DOMAIN caps'
                                   /\ caps'[c].live /\ caps'[c].owner = caps[c].owner
  <2>1. /\ Currents' = Currents
        /\ \A g \in Currents : entries'[g].import = entries[g].import
        /\ \A g \in Currents : g \notin direct => g \notin direct'
    BY <1>1, CurrentsStay
  <2>2. AuthorityInv /\ AuthorityInv'
    BY <1>1, RestoreStepInv DEF RestoreInv
  <2>3. ASSUME NEW g \in Currents \ direct, entries[g].import.cap # NoCap
        PROVE  /\ entries[g].import.cap \in DOMAIN caps'
               /\ caps'[entries[g].import.cap].live
               /\ caps'[entries[g].import.cap].owner = caps[entries[g].import.cap].owner
    <3>1. Backed(g) /\ g \in DOMAIN entries
      BY <2>2, <2>3 DEF AuthorityInv, Ready, Currents
    <3>2. g \in DOMAIN entries' /\ entries'[g].current
      BY <2>1, <2>3 DEF Currents
    <3>3. g \notin direct' /\ entries'[g].import = entries[g].import
      BY <2>1, <2>3
    <3>4. Backed(g)'
      BY <2>2, <3>2, <3>3 DEF AuthorityInv, Ready
    <3> QED
      BY <2>3, <3>1, <3>3, <3>4 DEF Backed, CapabilityMatches
  <2> QED
    BY <2>1, <2>3
<1>2. RestoreInv /\ [RestoreNext]_allVars => [Harmless]_allVars
  BY <1>1
<1> QED
  BY <1>2, RestoreInvariant, PTL DEF RestoreSpec, CancelIsHarmless

(* With restores, too, each step does one of four things to the entries.     *)
LEMMA RestoreStepShape ==
  ASSUME RestoreInv, RestoreNext
  PROVE  Shrinks \/ Adds \/ Installs \/ Reverts
<1>1. /\ Typed /\ EntriesTyped /\ InOrder /\ RestoreShape /\ SavedShape
  BY DEF RestoreInv, LeakInv, RepositoryInv, Typed, InOrder
<1>2. ASSUME UNCHANGED <<entries, nextGen>>
      PROVE  Shrinks
  BY <1>1, <1>2 DEF Shrinks, Wanes, Stays, EntriesTyped
<1>3. CASE GuestStep \/ OtherHolders
  BY <1>1, <1>3, StepShape, OthersShrink DEF Next
<1>4. CASE \E s \in saved : Reserve(s)
  <2>1. PICK s \in saved : Reserve(s)
    BY <1>4
  <2>2. /\ nextGen <= GenLimit /\ nextGen' = nextGen + 1
        /\ entries' = Put(entries, nextGen, Entry(Reservation(s), "importing", FALSE, TRUE))
    BY <2>1 DEF Reserve, BeginImport
  <2>3. RestoreInv'
    BY RestoreStepInv
  <2>4. nextGen \notin DOMAIN entries /\ \A g \in DOMAIN entries : entries[g] \in Shape
    BY <1>1 DEF EntriesTyped, Gens
  <2> DEFINE e == Entry(Reservation(s), "importing", FALSE, TRUE)
  <2>5. ~e.current
    BY DEF Entry
  <2> HIDE DEF e
  <2>6. /\ DOMAIN Put(entries, nextGen, e) = DOMAIN entries \cup {nextGen}
        /\ Put(entries, nextGen, e)[nextGen] = e
        /\ \A g \in DOMAIN entries \ {nextGen} : Put(entries, nextGen, e)[g] = entries[g]
    BY DEF Put
  <2>7. entries' = Put(entries, nextGen, e)
    BY <2>2 DEF e
  <2>8. e \in Shape
    <3>1. nextGen \in DOMAIN entries' /\ entries'[nextGen] = e
      BY <2>6, <2>7
    <3> QED
      BY <2>3, <3>1 DEF RestoreInv, LeakInv, RepositoryInv, Typed, EntriesTyped
  <2> QED
    BY <2>2, <2>4, <2>5, <2>6, <2>7, <2>8 DEF Adds, Wanes, Stays
<1>5. CASE \E s \in saved : RetainReserved(s)
  <2>1. PICK s \in saved : RetainReserved(s)
    BY <1>5
  <2>2. restore.handles[s] \in DOMAIN entries
    BY <1>1, <2>1 DEF RetainReserved, InOrder, ReservedEntries
  <2> QED
    BY <1>1, <2>1, <2>2, RetainedShrinks DEF RetainReserved
<1>6. CASE \E s \in saved : RestoreCommit(s)
  <2>1. PICK s \in saved : RestoreCommit(s)
    BY <1>6
  <2> DEFINE g == restore.handles[s]
             P == {g}
  <2>2. P \in SUBSET DOMAIN entries /\ Committable(g) /\ MakeCurrent(P)
    BY <2>1 DEF RestoreCommit
  <2>3. (\A x, y \in P : Res(x) = Res(y) => x = y) /\ (\A x \in P : Committable(x))
    BY <2>2
  <2> HIDE DEF g, P
  <2> QED
    BY <1>1, <2>2, <2>3, MakeCurrentInstalls
<1>7. CASE \E s \in saved : RestoreCancel(s)
  <2>1. PICK s \in saved : RestoreCancel(s)
    BY <1>7
  <2>2. nextGen' = nextGen
    BY <2>1 DEF RestoreCancel
  <2>3. \A x \in DOMAIN entries' : x \in DOMAIN entries /\ entries'[x] = entries[x]
    <3>1. DirectStep
      BY DEF RestoreNext, DirectStep
    <3> QED
      BY <2>1, <3>1, GiveBackKeeps
  <2> QED
    BY <1>1, <2>2, <2>3 DEF Shrinks, Wanes, Stays, EntriesTyped
<1>8. CASE BootInvalidate \/ RestoreBoundary
  BY <1>1, <1>8, InvalidateShrinks DEF BootInvalidate, InvalidateFromOwner, RestoreBoundary,
     SceneBoundary
<1>9. CASE \/ Save \/ RestoreBegin \/ PrepareFails \/ CapabilityRestoreCommit
           \/ RestoreDone \/ CapabilityRestoreCancel
           \/ \E s \in saved : PrepareAuthority(s)
  BY <1>2, <1>9 DEF Save, RestoreBegin, PrepareFails, CapabilityRestoreCommit, RestoreDone,
     CapabilityRestoreCancel, PrepareAuthority, vars
<1> QED
  BY <1>3, <1>4, <1>5, <1>6, <1>7, <1>8, <1>9 DEF RestoreNext, RestoreStep

(* A restore brings back no stale generation either: what it installs was    *)
(* reserved by it and has never been current.                                *)
THEOREM RestoreStaleNeverReturns == RestoreSpec => StaleStaysStale
<1> DEFINE Back == \A g \in DOMAIN entries \cap DOMAIN entries' :
                     Owned(g) /\ ~entries[g].current /\ entries'[g].current
                       => \E p \in undo : p[2] = g /\ entries[p[1]].current
<1>1. RestoreInv /\ [RestoreNext]_allVars => [Back]_vars
  <2> SUFFICES ASSUME RestoreInv, [RestoreNext]_allVars, ~UNCHANGED vars,
                      NEW g \in DOMAIN entries \cap DOMAIN entries',
                      Owned(g), ~entries[g].current, entries'[g].current
               PROVE  \E p \in undo : p[2] = g /\ entries[p[1]].current
    OBVIOUS
  <2>1. RestoreNext
    BY DEF allVars
  <2>2. Shrinks \/ Adds \/ Installs \/ Reverts
    BY <2>1, RestoreStepShape
  <2>3. g # nextGen /\ entries[g].state = "owned"
    BY DEF RestoreInv, LeakInv, RepositoryInv, Typed, EntriesTyped, Gens, Owned
  <2>4. ~Shrinks /\ ~Adds
    BY <2>3 DEF Shrinks, Adds, Wanes
  <2>5. ~Installs
    BY <2>3 DEF Installs, Wanes
  <2> QED
    BY <2>2, <2>4, <2>5 DEF Reverts, Wanes
<1> QED
  BY <1>1, RestoreInvariant, PTL DEF RestoreSpec, StaleStaysStale
=============================================================================
