------------------------- MODULE SemanticCompositor -------------------------
(***************************************************************************)
(* The banked compositor of xg_render_semantic_compositor.c and the frame  *)
(* state of xg_render_fragment_runtime.c that drives it when the native    *)
(* work collector is off.                                                  *)
(*                                                                         *)
(* Producers add fragments to the building bank g_pending.  At a VBlank    *)
(* boundary one bank is prepared (materialised into the source frame) and  *)
(* installed as g_retained once the frame is published.  In a field scene  *)
(* drawing may take several VBlanks: the building bank is sealed into a    *)
(* completed slot when the DMA list that drew it has finished, and waits   *)
(* there for the display to show its page; replaced pictures are kept as   *)
(* displayed pages.                                                        *)
(*                                                                         *)
(* All calls come from the guest thread.  Two owners are told apart: the   *)
(* scene's own and a movie's.  A page stands for a display state, for the  *)
(* draw area on it and for the surface that is its target.  A scene keeps  *)
(* its module: a change of scene arrives as an invalidation.               *)
(***************************************************************************)
EXTENDS Integers, Sequences, SequencesExt, FiniteSetsExt

CONSTANTS
    Pages,              \* displays, their draw areas and target surfaces
    Textures,           \* the other resources a fragment may name
    CompletedCapacity,  \* XG_RENDER_FIELD_COMPLETED_CAPACITY, 3 in the code
    DisplayedCapacity,  \* XG_RENDER_FIELD_DISPLAYED_CAPACITY, 3 in the code
    NoPage,             \* no boundary description
    FlipWhileBuilding,  \* bound: whether the display may change between the
                        \* fragments of one building bank
    UpdateLimit         \* bound: fragments and rebinds of one scene

ASSUME CapacityAssumption ==
    /\ CompletedCapacity \in Nat \ {0}
    /\ DisplayedCapacity \in Nat \ {0}
    /\ NoPage \notin Pages
    /\ FlipWhileBuilding \in BOOLEAN
    /\ UpdateLimit \in Nat

VARIABLES
    module,     \* "field" or "other": scene.module of the running scene
    pending,    \* g_pending
    retained,   \* g_retained
    root,       \* g_display_root
    completed,  \* g_completed_field: slot -> [bank, area]
    submitted,  \* the active completed slots, by rising sequence
    displayed,  \* g_displayed_field: slot -> bank
    replaced,   \* the active displayed slots, by rising sequence
    prepared,   \* g_prepared_kind and g_prepared_bank_kind with its index
    stage,      \* "open", or "closing" between finalize and boundary_end
    frame,      \* the fragment runtime's frame state
    updates,    \* updates of this scene, for the bound only
    refs        \* retain counts of the repository that come from here

vars == <<module, pending, retained, root, completed, submitted, displayed,
          replaced, prepared, stage, frame, updates, refs>>

Handles == Pages \union Textures
Owners == {"main", "movie"}

(***************************************************************************)
(* Draws of the scene's owner: "open" while their submission or VBlank is  *)
(* not complete, "whole" afterwards, "spoilt" when the boundary of their   *)
(* VBlank was rejected.  Only properties read these.                       *)
(***************************************************************************)
Draws == {"open", "whole", "spoilt"}

NoBank == [active |-> FALSE, blocked |-> FALSE, required |-> FALSE,
           touched |-> {}, drawn |-> {}, uses |-> [h \in Handles |-> {}],
           page |-> NoPage]

(* frame_owned and boundary_description: a claimed frame has the page of   *)
(* the fragment that claimed it.                                           *)
NoFrame == [page |-> NoPage, terminal |-> FALSE]
NoSubmission == [bank |-> NoBank, area |-> NoPage]
NotPrepared == [kind |-> "none", bank |-> "none", slot |-> 0]

IsField == module = "field"
CompletedSlots == 1..CompletedCapacity
DisplayedSlots == 1..DisplayedCapacity

Held(bank) == {h \in Handles : bank.uses[h] # {}}
Acquired(counts, hs) == [h \in Handles |-> counts[h] + IF h \in hs THEN 1 ELSE 0]
Released(counts, hs) == [h \in Handles |-> counts[h] - IF h \in hs THEN 1 ELSE 0]

(* What a bank that is no longer built keeps: touched_owners is only read  *)
(* in g_pending, and the display of a completed bank never.                *)
Moved(bank) == [bank EXCEPT !.touched = {}]

Settled(bank, from, to) ==
    [bank EXCEPT !.drawn = IF from \in @ THEN (@ \ {from}) \union {to} ELSE @]

Without(slots, slot) ==
    IF slot \in ToSet(slots)
    THEN RemoveAt(slots, CHOOSE i \in DOMAIN slots : slots[i] = slot)
    ELSE slots

(* Every bank has a place: a variable of its own, or a slot of a table.    *)
Places == ({"pending", "retained", "root"} \X {0})
          \union ({"completed"} \X CompletedSlots)
          \union ({"displayed"} \X DisplayedSlots)

BankAt(name, slot) ==
    CASE name = "pending" -> pending
      [] name = "retained" -> retained
      [] name = "root" -> root
      [] name = "completed" -> completed[slot].bank
      [] name = "displayed" -> displayed[slot]
      [] OTHER -> NoBank

(* The places whose bank holds a resource. *)
Holders(h) == {p \in Places : h \in Held(BankAt(p[1], p[2]))}

-----------------------------------------------------------------------------
Init ==
    /\ module \in {"field", "other"}
    /\ pending = NoBank
    /\ retained = NoBank
    /\ root = NoBank
    /\ completed = [s \in CompletedSlots |-> NoSubmission]
    /\ submitted = <<>>
    /\ displayed = [s \in DisplayedSlots |-> NoBank]
    /\ replaced = <<>>
    /\ prepared = NotPrepared
    /\ stage = "open"
    /\ frame = NoFrame
    /\ updates = 0
    /\ refs = [h \in Handles |-> 0]

-----------------------------------------------------------------------------
(* Building. *)

Cloned(bank) == [Moved(bank) EXCEPT !.required = FALSE]

(* The bank pending_begin starts from. *)
Origin ==
    IF IsField /\ submitted # <<>> THEN completed[Last(submitted)].bank
    ELSE IF retained.active THEN retained ELSE NoBank

Begun(bank, page) ==
    IF bank.active THEN [bank EXCEPT !.page = page]
    ELSE [Cloned(Origin) EXCEPT !.active = TRUE, !.page = page]

(* The first update of an owner replaces what it drew before. *)
Taken(bank, owner) ==
    IF owner \in bank.touched THEN bank
    ELSE [bank EXCEPT
            !.touched = @ \union {owner},
            !.drawn = IF owner = "main" THEN {} ELSE @,
            !.uses = [h \in Handles |-> @[h] \ {owner}]]

Appended(bank, owner, hs, draws) ==
    [bank EXCEPT
        !.drawn = IF draws /\ owner = "main" THEN @ \union {"open"} ELSE @,
        !.uses = [h \in Handles |->
                    IF h \in hs THEN @[h] \union {owner} ELSE @[h]]]

(* update_owner, accepted: the bank and the counts it leaves. *)
Upserted(given, owner, page, hs, draws) ==
    LET begun == Begun(given.bank, page)
        taken == Taken(begun, owner)
        full == Appended(taken, owner, hs, draws)
        started == IF given.bank.active THEN given.refs
                   ELSE Acquired(given.refs, Held(begun))
        removed == Released(started, Held(begun) \ Held(taken))
    IN [bank |-> [full EXCEPT
                    !.required = @ \/ (IsField /\ draws /\ owner = "main")],
        refs |-> Acquired(removed, Held(full) \ Held(taken))]

Counted == updates < UpdateLimit /\ updates' = updates + 1

Building == [bank |-> pending, refs |-> refs]

Claimed(page) ==
    IF frame.page # NoPage THEN frame ELSE [frame EXCEPT !.page = page]

(* ingress_production_fragment, accepted. *)
Ingress(page, hs, draws) ==
    LET done == Upserted(Building, "main", page, hs, draws) IN
    /\ stage = "open"
    /\ Counted
    /\ ~frame.terminal
    /\ frame' = Claimed(page)
    /\ pending' = done.bank
    /\ refs' = done.refs
    /\ UNCHANGED <<module, retained, root, completed, submitted, displayed,
                   replaced, prepared, stage>>

(***************************************************************************)
(* A fragment is refused on its way: the bank it would begin from cannot   *)
(* be cloned ("begin"), it does not fit ("capacity"), or a resource of it  *)
(* cannot be retained ("resource"), after its draws and the resources      *)
(* before that one went in.  The bank is blocked and the frame terminal.   *)
(***************************************************************************)
IngressFails(page, hs, draws, where) ==
    LET taken == Upserted(Building, "main", page, {}, FALSE)
        partly == Upserted(Building, "main", page, hs, draws)
    IN
    /\ stage = "open"
    /\ Counted
    /\ ~frame.terminal
    /\ frame' = [Claimed(page) EXCEPT !.terminal = TRUE]
    /\ \/ /\ where = "begin"
          /\ ~pending.active /\ Origin.active
          /\ pending' = [NoBank EXCEPT !.blocked = TRUE]
          /\ UNCHANGED refs
       \/ /\ where = "capacity"
          /\ pending' = [taken.bank EXCEPT !.blocked = TRUE]
          /\ refs' = taken.refs
       \/ /\ where = "resource"
          /\ pending' = [partly.bank EXCEPT !.blocked = TRUE,
                                            !.required = taken.bank.required]
          /\ refs' = partly.refs
    /\ UNCHANGED <<module, retained, root, completed, submitted, displayed,
                   replaced, prepared, stage>>

(***************************************************************************)
(* A complete movie frame: a pass of the scene's owner, then the movie's   *)
(* picture, inside one transaction.  Any failure rolls both halves back,   *)
(* and nothing else of the compositor runs between, so that it leaves no   *)
(* trace: only the accepted frame is a step.                               *)
(***************************************************************************)
MovieFrame(page, picture) ==
    LET pass == Upserted(Building, "main", page, {page}, FALSE)
        done == Upserted(pass, "movie", page, {picture}, FALSE)
    IN
    /\ stage = "open"
    /\ Counted
    /\ ~frame.terminal
    /\ frame' = Claimed(page)
    /\ pending' = done.bank
    /\ refs' = done.refs
    /\ UNCHANGED <<module, retained, root, completed, submitted, displayed,
                   replaced, prepared, stage>>

(* reject_source_frame, and a refusal before the fragment is looked at;    *)
(* reject_standalone_source claims the frame first.                        *)
RejectFrame(page) ==
    /\ stage = "open"
    /\ ~frame.terminal
    /\ frame' = [(IF page = NoPage THEN frame ELSE Claimed(page))
                    EXCEPT !.terminal = TRUE]
    /\ UNCHANGED <<module, pending, retained, root, completed, submitted,
                   displayed, replaced, prepared, stage, updates, refs>>

(* rebind_mutated_resource: draws that follow VRAM go over to the          *)
(* replacement; the previous resource stays until its owner draws again.   *)
Rebound(bank, owners, next) ==
    [bank EXCEPT !.uses[next] = @ \union owners]

Rebind(previous, next) ==
    LET building == pending.active
        bank == IF building THEN pending ELSE retained
    IN
    /\ stage = "open"
    /\ Counted
    /\ bank.active /\ ~bank.blocked
    /\ previous \in Held(bank) /\ previous # next
    /\ \/ \E owners \in SUBSET bank.uses[previous] \ {{}} :
            LET new == Rebound(bank, owners, next) IN
            /\ refs' = Acquired(refs, Held(new) \ Held(bank))
            /\ IF building THEN pending' = new /\ UNCHANGED retained
               ELSE retained' = new /\ UNCHANGED pending
       \/ LET new == [bank EXCEPT !.blocked = TRUE] IN
            /\ IF building THEN pending' = new /\ UNCHANGED retained
               ELSE retained' = new /\ UNCHANGED pending
            /\ UNCHANGED refs
    /\ UNCHANGED <<module, root, completed, submitted, displayed, replaced,
                   prepared, stage, frame>>

-----------------------------------------------------------------------------
(* Sealing a field submission. *)

(* The slot both tables take: the first that is free or holds the same     *)
(* page, and the oldest when there is none.                                *)
SlotFor(slots, inUse, same) ==
    LET fit == same \union (slots \ ToSet(inUse))
    IN IF fit # {} THEN Min(fit) ELSE Head(inUse)

Complete(area) ==
    LET slot == SlotFor(CompletedSlots, submitted,
                        {s \in CompletedSlots : completed[s].area = area})
    IN
    /\ stage = "open"
    /\ IsField /\ pending.active /\ pending.required
    /\ refs' = Released(refs, Held(completed[slot].bank))
    /\ completed' = [completed EXCEPT ![slot] =
         [bank |-> [Settled(Moved(pending), "open", "whole")
                      EXCEPT !.required = FALSE, !.page = NoPage],
          area |-> area]]
    /\ submitted' = Append(Without(submitted, slot), slot)
    /\ pending' = NoBank
    /\ UNCHANGED <<module, retained, root, displayed, replaced, prepared,
                   stage, frame, updates>>

-----------------------------------------------------------------------------
(* The boundary of a VBlank: what is prepared. *)

(* The newest of the slots in use that fit, 0 if there is none. *)
NewestOf(inUse, fits) ==
    LET fit == {i \in DOMAIN inUse : inUse[i] \in fits}
    IN IF fit = {} THEN 0 ELSE inUse[Max(fit)]

(* field_candidate_for_display, displayed_field_for_display *)
Candidate(page) == NewestOf(submitted, {s \in CompletedSlots : completed[s].area = page})
DisplayedFor(page) == NewestOf(replaced, {s \in DisplayedSlots : displayed[s].page = page})

Found(bank, slot) == [kind |-> "endpoint", bank |-> bank, slot |-> slot]

(* Broken variant: a building bank that still waits for its DMA list.        *)
PendingIsTouched == pending.active /\ pending.touched # {}

PendingIsWhole == pending.active /\ ~pending.required /\ pending.touched # {}

(* Where a boundary finds the picture for a display. *)
FieldChoice(page) ==
    IF page = NoPage THEN NotPrepared
    ELSE IF PendingIsWhole THEN Found("pending", 0)
    ELSE IF Candidate(page) # 0 THEN Found("completed", Candidate(page))
    ELSE IF DisplayedFor(page) # 0 THEN Found("displayed", DisplayedFor(page))
    ELSE IF /\ ~(pending.active /\ pending.required)
            /\ submitted = <<>>
            /\ retained.active /\ retained.page # page
         THEN Found("root", 0)
    ELSE NotPrepared

SceneChoice(page) ==
    IF pending.active THEN Found("pending", 0)
    ELSE IF retained.active /\ page \notin {NoPage, retained.page}
         THEN Found("root", 0)
         ELSE NotPrepared

Choice(page) == IF IsField THEN FieldChoice(page) ELSE SceneChoice(page)

BankOf(choice) ==
    IF choice.bank = "root" THEN Cloned(retained)
    ELSE BankAt(choice.bank, choice.slot)

(* bank_retarget_display: the one surface the picture goes to is exchanged *)
(* for the surface of the display.                                         *)
Targets(bank) == Held(bank) \intersect Pages

Retargeted(bank, page) ==
    LET old == CHOOSE t \in Targets(bank) : TRUE
        exchanged == [bank.uses EXCEPT ![old] = {}, ![page] = bank.uses[old]]
    IN [bank EXCEPT !.page = page, !.uses = exchanged]

(* The prepared bank is changed in its place. *)
Put(choice, bank) ==
    /\ pending' = IF choice.bank = "pending" THEN bank ELSE pending
    /\ root' = IF choice.bank = "root" THEN bank ELSE root
    /\ completed' = IF choice.bank = "completed"
                    THEN [completed EXCEPT ![choice.slot] =
                            IF bank = NoBank THEN NoSubmission
                            ELSE [@ EXCEPT !.bank = bank]]
                    ELSE completed
    /\ displayed' = IF choice.bank = "displayed"
                    THEN [displayed EXCEPT ![choice.slot] = bank]
                    ELSE displayed

(* The description the boundary has: that of the fragment that claimed the *)
(* frame, or what the display says now, if that can be told.               *)
BoundaryPages ==
    IF frame.page # NoPage THEN {frame.page} ELSE Pages \union {NoPage}

Closing(kind, choice) ==
    /\ stage' = "closing"
    /\ prepared' = [choice EXCEPT !.kind = kind]

(* A terminal frame: finalize does not reach the compositor. *)
PrepareTerminal ==
    /\ stage = "open" /\ frame.terminal
    /\ Closing("none", NotPrepared)
    /\ UNCHANGED <<module, pending, retained, root, completed, submitted,
                   displayed, replaced, frame, updates, refs>>

Prepares(page) ==
    /\ stage = "open" /\ ~frame.terminal
    /\ page \in BoundaryPages
    /\ UNCHANGED <<module, retained, submitted, replaced, frame, updates>>

NeedsTarget(choice) == IsField /\ choice.bank \in {"completed", "root"}

(* Nothing to show, or the surface of the display is not known, or a       *)
(* retained picture does not reach the display.                            *)
PrepareHold(page) ==
    /\ Prepares(page)
    /\ Choice(page).bank = "none" \/ NeedsTarget(Choice(page))
    /\ Closing("hold", NotPrepared)
    /\ UNCHANGED <<pending, root, completed, displayed, refs>>

(* The bank is prepared, a copy of the retained one with references of its *)
(* own.  A blocked bank is refused, and materialising it can fail.         *)
PrepareBank(page) ==
    LET choice == Choice(page)
        bank == BankOf(choice)
        own == IF choice.bank = "root" THEN Acquired(refs, Held(bank)) ELSE refs
        moved == IF NeedsTarget(choice) THEN Retargeted(bank, page)
                 ELSE [bank EXCEPT !.page = IF choice.bank = "root" THEN page
                                            ELSE @]
        new == Held(moved) \ Held(bank)
        old == Held(bank) \ Held(moved)
    IN
    /\ Prepares(page)
    /\ choice.bank # "none"
    /\ NeedsTarget(choice) => Cardinality(Targets(bank)) = 1
    /\ Put(choice, moved)
    /\ refs' = Released(Acquired(own, new), old)
    /\ \/ ~bank.blocked /\ Closing("endpoint", choice)
       \/ Closing("rejected", choice)

(* The bank cannot be given the surface of the display. *)
PrepareWithoutTarget(page) ==
    LET choice == Choice(page)
        bank == BankOf(choice)
    IN
    /\ Prepares(page)
    /\ NeedsTarget(choice)
    /\ Put(choice, bank)
    /\ refs' = IF choice.bank = "root" THEN Acquired(refs, Held(bank)) ELSE refs
    /\ Closing("rejected", choice)

(* The copy of the retained bank fails. *)
PrepareCopyFails(page) ==
    /\ Prepares(page)
    /\ Choice(page).bank = "root"
    /\ Closing("rejected", NotPrepared)
    /\ UNCHANGED <<pending, root, completed, displayed, refs>>

Prepare ==
    \/ PrepareTerminal
    \/ \E page \in Pages \union {NoPage} :
         \/ PrepareHold(page)
         \/ PrepareBank(page)
         \/ PrepareWithoutTarget(page)
         \/ PrepareCopyFails(page)

-----------------------------------------------------------------------------
(* The boundary of a VBlank: what becomes of it. *)

(* finish_boundary and boundary_end *)
Closed ==
    /\ stage = "closing"
    /\ stage' = "open"
    /\ prepared' = NotPrepared
    /\ frame' = NoFrame
    /\ UNCHANGED <<module, updates>>

(* Nothing was prepared.  What a terminal frame had accepted stays in the  *)
(* building bank.                                                          *)
FinishNothing ==
    /\ Closed
    /\ prepared.bank = "none"
    /\ pending' = IF prepared.kind = "none" /\ ~IsField
                  THEN Settled(pending, "open", "spoilt") ELSE pending
    /\ UNCHANGED <<retained, root, completed, submitted, displayed, replaced,
                   refs>>

FreedSlot(name, inUse) ==
    IF prepared.bank = name THEN Without(inUse, prepared.slot) ELSE inUse

(* Not published, or refused: the bank is given up. *)
FinishDiscarded ==
    /\ Closed
    /\ prepared.kind \in {"endpoint", "rejected"} /\ prepared.bank # "none"
    /\ refs' = Released(refs, Held(BankAt(prepared.bank, prepared.slot)))
    /\ Put(prepared, NoBank)
    /\ submitted' = FreedSlot("completed", submitted)
    /\ replaced' = FreedSlot("displayed", replaced)
    /\ UNCHANGED retained

(* Published: the bank is retained, and in a field scene the picture it    *)
(* replaces is kept as the displayed page of its own display.              *)
FinishPublished ==
    LET bank == BankAt(prepared.bank, prepared.slot)
        table == IF prepared.bank = "displayed"
                 THEN [displayed EXCEPT ![prepared.slot] = NoBank] ELSE displayed
        inUse == FreedSlot("displayed", replaced)
        slot == SlotFor(DisplayedSlots, inUse,
                        {s \in DisplayedSlots : table[s].page = retained.page})
        keeps == retained.active /\ IsField
    IN
    /\ Closed
    /\ prepared.kind = "endpoint"
    /\ retained' = IF IsField THEN Moved(bank)
                   ELSE Settled(Moved(bank), "open", "whole")
    /\ pending' = IF prepared.bank = "pending" THEN NoBank ELSE pending
    /\ root' = NoBank
    /\ completed' = IF prepared.bank = "completed"
                    THEN [completed EXCEPT ![prepared.slot] = NoSubmission]
                    ELSE completed
    /\ submitted' = FreedSlot("completed", submitted)
    /\ displayed' = IF keeps THEN [table EXCEPT ![slot] = retained] ELSE table
    /\ replaced' = IF keeps THEN Append(Without(inUse, slot), slot) ELSE inUse
    /\ refs' = Released(refs, IF keeps THEN Held(table[slot]) ELSE Held(retained))

-----------------------------------------------------------------------------
(* Invalidation. *)

(* Broken variant: the bank is wiped without giving its resources back.     *)
InvalidateBuildingLeaks ==
    /\ stage = "open"
    /\ frame' = NoFrame
    /\ pending' = NoBank
    /\ root' = NoBank
    /\ UNCHANGED <<module, retained, completed, submitted, displayed, replaced,
                   prepared, stage, updates, refs>>

InvalidateBuilding ==
    /\ stage = "open"
    /\ frame' = NoFrame
    /\ pending' = NoBank
    /\ root' = NoBank
    /\ refs' = Released(Released(refs, Held(pending)), Held(root))
    /\ UNCHANGED <<module, retained, completed, submitted, displayed, replaced,
                   prepared, stage, updates>>

(* A new scene, an artifact that is not a movie's, a reset: everything     *)
(* goes, and with it the module may change.                                *)
Invalidate ==
    /\ stage = "open"
    /\ module' \in {"field", "other"}
    /\ frame' = NoFrame
    /\ updates' = 0
    /\ pending' = NoBank
    /\ retained' = NoBank
    /\ root' = NoBank
    /\ completed' = [s \in CompletedSlots |-> NoSubmission]
    /\ submitted' = <<>>
    /\ displayed' = [s \in DisplayedSlots |-> NoBank]
    /\ replaced' = <<>>
    /\ refs' = [h \in Handles |-> refs[h] - Cardinality(Holders(h))]
    /\ UNCHANGED <<prepared, stage>>

-----------------------------------------------------------------------------
(* Fragments name the surface of their page, and perhaps a texture. *)
Fragments(page) == {{page}} \union {{page, t} : t \in Textures}

(* The displays fragments are made for. *)
Drawable == IF FlipWhileBuilding \/ pending.touched = {} THEN Pages
            ELSE {pending.page}

Next ==
    \/ \E page \in Drawable : \E hs \in Fragments(page), draws \in BOOLEAN :
         \/ Ingress(page, hs, draws)
         \/ \E where \in {"begin", "capacity", "resource"} :
              \E part \in SUBSET hs :
                IngressFails(page, part, draws, where)
    \/ \E page \in Drawable, picture \in Textures : MovieFrame(page, picture)
    \/ \E page \in Pages \union {NoPage} : RejectFrame(page)
    \/ \E previous, next \in Textures : Rebind(previous, next)
    \/ \E area \in Pages : Complete(area)
    \/ Prepare
    \/ FinishNothing
    \/ FinishDiscarded
    \/ FinishPublished
    \/ InvalidateBuilding
    \/ Invalidate

Spec == Init /\ [][Next]_vars

-----------------------------------------------------------------------------
Bank == [active : BOOLEAN, blocked : BOOLEAN, required : BOOLEAN,
         touched : SUBSET Owners, drawn : SUBSET Draws,
         uses : [Handles -> SUBSET Owners], page : Pages \union {NoPage}]

(* The variables keep their types: at most one picture per slot, and an    *)
(* empty bank wherever a slot is not in use.                               *)
TypeOK ==
    /\ module \in {"field", "other"}
    /\ {pending, retained, root} \subseteq Bank
    /\ \A s \in CompletedSlots :
         /\ completed[s].bank \in Bank
         /\ s \notin ToSet(submitted) => completed[s].bank = NoBank
    /\ \A s \in DisplayedSlots :
         /\ displayed[s] \in Bank
         /\ s \notin ToSet(replaced) => displayed[s] = NoBank
    /\ refs \in [Handles -> Nat]

(* Every bank holds one reference to each resource it names and gives it   *)
(* back once: through refused fragments, sealed and superseded             *)
(* submissions, pages that come back, discarded boundaries and             *)
(* invalidations the counts in the repository stay exact                   *)
(* (bank_clear, bank_clone, displayed_field_store, finish_boundary).       *)
RefsBalanced ==
    \A h \in Handles : refs[h] = Cardinality(Holders(h))

(* In a field scene nothing drawn by a submission that has not completed   *)
(* is ever shown or kept for showing, although a VBlank can fall between   *)
(* any two fragments (complete_field_submission "seals Field updates only  *)
(* after the corresponding DMA2 linked list has completed").               *)
FieldIsSealed ==
    IsField => \A p \in Places \ {<<"pending", 0>>} :
                   "open" \notin BankAt(p[1], p[2]).drawn

(* Outside field scenes a VBlank whose boundary was rejected leaves        *)
(* nothing behind: the next one replaces what its owner drew, as the       *)
(* header says of UPSERT, and no partial frame is shown.                   *)
RejectedIsGone == ~IsField => "spoilt" \notin retained.drawn
=============================================================================
