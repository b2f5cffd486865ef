----------------------------- MODULE RowDialogs -----------------------------
(***************************************************************************)
(* The dialogs in which a row is created, edited or removed: a page opens  *)
(* one on a row, it is filled from the row or by a load of its own, a save *)
(* is sent while the dialog stays on the screen, and its answer is applied *)
(* to whatever the page shows by then.  The dialogs (AdminPages,           *)
(* MemberPages, FrontPages) differ in the record "kind".                   *)
(*                                                                         *)
(* Only one dialog is open at a time: it covers the rows.  What is loaded  *)
(* stands for all a save writes that is not typed: the fields copied from  *)
(* the row, its translations, its categories, its assets.                  *)
(***************************************************************************)
EXTENDS Naturals, FiniteSets, PageKinds

CONSTANTS
  Rows,
  New,      \* stands for the row a create form is about, and for blank fields
  Created,  \* the row the form has created
  None,
  Kinds,    \* the dialogs
  MaxActs   \* bound: dialogs opened and requests sent

ASSUME KindsAssumption == Kinds \subseteq DialogKind
ASSUME NamesAssumption == {New, Created, None} \cap Rows = {} /\ New # Created /\ None \notin {New, Created}
\* A form that goes on after a save, because it loads its row again or because
\* a later step failed, goes on with the row it created.
ASSUME ResumesAssumption ==
  \A k \in Kinds : k.save.creates = "again" => k.save.after # "reloads" /\ ~ k.save.steps
\* Late answers are dropped by the cleanup of an effect, in dialogs a save does
\* not turn to another row.
ASSUME GuardedAssumption ==
  \A k \in Kinds : k.fill.guarded => k.fill.fills = "effect" /\ k.save.after # "returns"
ASSUME BoundsAssumption == MaxActs \in Nat

VARIABLES
  kind,     \* the dialog; it never changes
  dialog,   \* which dialog is open
  formMode, \* whether the form creates or edits
  selected, \* the row the dialogs of the page are about
  holds,    \* the row whose data the form holds
  loads,    \* the loads under way
  loading,
  saves,    \* the requests under way
  saving,
  made,     \* history: rows created by the form since it was opened
  strayed,  \* history: a load was overtaken, failed or not waited for, or a request left alone
  acts      \* dialogs opened and requests sent so far

vars == <<kind, dialog, formMode, selected, holds, loads, loading, saves, saving, made, strayed, acts>>

-----------------------------------------------------------------------------

Targets == Rows \cup {New, Created}
Loads == [of: Targets, dropped: BOOLEAN]
Saves == [does: {"save", "remove"}, of: Targets, content: Targets, applied: BOOLEAN]

\* The row a save of the open form is sent for.
Target == IF formMode = "create" THEN New ELSE selected

Init ==
  /\ kind \in Kinds
  /\ dialog = "none" /\ formMode = "edit" /\ selected = None /\ holds = New
  /\ loads = {} /\ loading = FALSE
  /\ saves = {} /\ saving = FALSE
  /\ made = 0 /\ strayed = FALSE /\ acts = 0

-----------------------------------------------------------------------------
(* Opening and closing. *)

\* Start without the cleanup of the earlier load.
StartUnguarded(r) == loads \cup {[of |-> r, dropped |-> FALSE]}

\* The loads once one of row r has started.
Start(r) ==
  {[l EXCEPT !.dropped = l.dropped \/ kind.fill.guarded] : l \in loads} \cup {[of |-> r, dropped |-> FALSE]}

Acts == acts < MaxActs /\ acts' = acts + 1
Opens == dialog = "none" /\ Acts

\* Another dialog while something of an earlier one is under way.
Strays == strayed' = (strayed \/ saves # {} \/ \E l \in loads : ~l.dropped)

OpenCreate ==
  /\ kind.save.creates # "no" /\ Opens /\ Strays
  /\ dialog' = "form" /\ formMode' = "create" /\ selected' = None /\ holds' = New
  /\ loads' = {[l EXCEPT !.dropped = l.dropped \/ (kind.fill.guarded /\ kind.fill.fills = "effect")] : l \in loads}
  /\ loading' = (loading /\ \E l \in loads' : ~l.dropped)
  /\ made' = 0
  /\ UNCHANGED <<kind, saves, saving>>

OpenEdit(r) ==
  /\ Opens /\ Strays
  /\ formMode' = "edit"
  /\ made' = 0
  /\ CASE kind.fill.fills = "row" ->
            dialog' = "form" /\ selected' = r /\ holds' = r /\ UNCHANGED <<loads, loading>>
       [] kind.fill.fills = "effect" ->
            /\ dialog' = "form" /\ selected' = r
            /\ holds' = IF kind.fill.blanks THEN New ELSE holds
            /\ loads' = Start(r) /\ loading' = TRUE
       [] kind.fill.fills = "fetch" ->
            UNCHANGED <<dialog, selected, holds>> /\ loads' = Start(r) /\ loading' = TRUE
  /\ UNCHANGED <<kind, saves, saving>>

OpenRemove(r) ==
  /\ kind.frame.removes /\ Opens /\ Strays
  /\ dialog' = "confirm" /\ selected' = r
  /\ UNCHANGED <<kind, formMode, holds, loads, loading, saves, saving, made>>

Close ==
  /\ dialog # "none"
  /\ dialog' = "none"
  /\ loads' = {[l EXCEPT !.dropped = l.dropped \/ (kind.fill.guarded /\ kind.fill.fills = "effect")] : l \in loads}
  /\ loading' = (loading /\ \E l \in loads' : ~l.dropped)
  /\ strayed' = (strayed \/ saves # {})
  /\ UNCHANGED <<kind, formMode, selected, holds, saves, saving, made, acts>>

-----------------------------------------------------------------------------
(* The loads. *)

Loaded(l) ==
  /\ loads' = loads \ {l}
  /\ IF l.dropped
     THEN UNCHANGED <<dialog, selected, holds, loading>>
     ELSE /\ loading' = FALSE
          /\ holds' = l.of
          /\ IF kind.fill.fills = "fetch"
             THEN dialog' = "form" /\ selected' = l.of
             ELSE UNCHANGED <<dialog, selected>>
  /\ UNCHANGED <<kind, formMode, saves, saving, made, strayed, acts>>

LoadFails(l) ==
  /\ loads' = loads \ {l}
  /\ loading' = (loading /\ l.dropped)
  /\ strayed' = (strayed \/ ~l.dropped)
  /\ UNCHANGED <<kind, dialog, formMode, selected, holds, saves, saving, made, acts>>
-----------------------------------------------------------------------------
(* Saving and removing. *)

Sent(does) == [does |-> does, of |-> IF does = "remove" THEN selected ELSE Target,
               content |-> holds, applied |-> FALSE]

Save ==
  /\ dialog = "form" /\ Target # None /\ Acts
  /\ ~saving /\ (kind.fill.waits => ~loading)
  /\ saves' = saves \cup {Sent("save")}
  /\ saving' = TRUE
  /\ strayed' = (strayed \/ (loading /\ ~kind.fill.blanks))
  /\ UNCHANGED <<kind, dialog, formMode, selected, holds, loads, loading, made>>

\* A page that has forgotten the row sends nothing, and closes the form as if
\* it had or reports an error.
SaveNothing ==
  /\ dialog = "form" /\ Target = None /\ ~saving
  /\ dialog' \in {"none", "form"}
  /\ UNCHANGED <<kind, formMode, selected, holds, loads, loading, saves, saving, made, strayed, acts>>

Remove ==
  /\ dialog = "confirm" /\ selected # None /\ Acts
  /\ ~saving
  /\ saves' = saves \cup {Sent("remove")}
  /\ saving' = TRUE
  /\ UNCHANGED <<kind, dialog, formMode, selected, holds, loads, loading, made, strayed>>

Apply(s) ==
  /\ ~s.applied
  /\ saves' = (saves \ {s}) \cup {[s EXCEPT !.applied = TRUE]}
  /\ made' = IF s.of = New /\ s.does = "save" THEN made + 1 ELSE made
  /\ UNCHANGED <<kind, dialog, formMode, selected, holds, loads, loading, saving, strayed, acts>>

\* Forget whatever the page does.
ForgetAlways(does) == selected' = None

\* The page forgets the selected row, which the dialog open by then may need.
Forget(does) == selected' = IF does \in kind.save.forgets THEN None ELSE selected

\* The form remembers the row it has created, and the next save updates it
\* (ContinueCreating: it does not).
Continues(s) == s.of = New /\ kind.save.creates \in {"once", "takes"}
ContinueCreating == UNCHANGED <<formMode, selected>>

Continue ==
  IF formMode = "create" \/ kind.save.creates = "takes"
  THEN formMode' = "edit" /\ selected' = Created
  ELSE UNCHANGED <<formMode, selected>>

\* What the answer to a save does to the form that is open when it arrives.
Applied(s) ==
  CASE Continues(s) ->
         Continue /\ UNCHANGED <<dialog, holds, loads, loading>>
    [] ~Continues(s) /\ kind.save.after = "closes" ->
         /\ dialog' = IF dialog = "form" THEN "none" ELSE dialog
         /\ Forget("save")
         /\ UNCHANGED <<formMode, holds, loads, loading>>
    [] ~Continues(s) /\ kind.save.after = "reloads" ->
         /\ loads' = Start(s.of) /\ loading' = TRUE
         /\ UNCHANGED <<dialog, formMode, selected, holds>>
    [] ~Continues(s) /\ kind.save.after = "returns" ->
         /\ formMode' = "edit"
         /\ selected' = IF s.of = New THEN Created ELSE s.of
         /\ holds' = selected'
         /\ UNCHANGED <<dialog, loads, loading>>

Saved(s) ==
  /\ s.applied /\ s.does = "save"
  /\ saves' = saves \ {s} /\ saving' = FALSE
  /\ Applied(s)
  /\ UNCHANGED <<kind, made, strayed, acts>>

Removed(s) ==
  /\ s.applied /\ s.does = "remove"
  /\ saves' = saves \ {s} /\ saving' = FALSE
  /\ dialog' = IF dialog = "confirm" THEN "none" ELSE dialog
  /\ Forget("remove")
  /\ UNCHANGED <<kind, formMode, holds, loads, loading, made, strayed, acts>>

\* The server refuses: the error is shown and the dialog stays.
Refused(s) ==
  /\ ~s.applied
  /\ saves' = saves \ {s} /\ saving' = FALSE
  /\ UNCHANGED <<kind, dialog, formMode, selected, holds, loads, loading, made, strayed, acts>>

\* A later request of the save fails; what the first one did remains, and the
\* form goes on with the row if it remembers it.
UploadFails(s) ==
  /\ s.applied /\ s.does = "save" /\ kind.save.steps
  /\ saves' = saves \ {s} /\ saving' = FALSE
  /\ IF Continues(s)
     THEN Continue
     ELSE UNCHANGED <<formMode, selected>>
  /\ UNCHANGED <<kind, dialog, holds, loads, loading, made, strayed, acts>>

\* The answer is lost: the user is shown an error for what was done.
Lost(s) ==
  /\ s.applied
  /\ saves' = saves \ {s} /\ saving' = FALSE
  /\ strayed' = TRUE
  /\ UNCHANGED <<kind, dialog, formMode, selected, holds, loads, loading, made, acts>>

-----------------------------------------------------------------------------
Next ==
  \/ OpenCreate \/ Close \/ Save \/ SaveNothing \/ Remove
  \/ \E r \in Rows : OpenEdit(r) \/ OpenRemove(r)
  \/ \E l \in loads : Loaded(l) \/ LoadFails(l)
  \/ \E s \in saves : Apply(s) \/ Saved(s) \/ Removed(s) \/ Refused(s) \/ UploadFails(s) \/ Lost(s)

Spec == Init /\ [][Next]_vars

-----------------------------------------------------------------------------
(* Properties *)

TypeOK ==
  /\ kind \in Kinds
  /\ dialog \in {"none", "form", "confirm"} /\ formMode \in {"create", "edit"}
  /\ selected \in Targets \cup {None} /\ holds \in Targets
  /\ loads \in SUBSET Loads /\ loading \in BOOLEAN
  /\ saves \in SUBSET Saves /\ saving \in BOOLEAN
  /\ made \in Nat /\ strayed \in BOOLEAN /\ acts \in 0 .. MaxActs

\* Dialogs that cannot be filled with what was loaded for another row, not even
\* by the load after a save that was left under way, and are not turned to the
\* row another form has created.
Sound ==
  /\ kind.save.creates # "takes"
  /\ kind.save.after # "reloads"
  /\ kind.fill.fills = "row" \/ (kind.fill.guarded /\ (kind.fill.blanks \/ kind.fill.fills = "fetch"))

\* A save never writes one row's data into another: what the form holds when
\* Save is pressed is of the row the save is for, or blank.  A load that was
\* overtaken by another dialog, that failed, or that Save did not wait for can
\* break this in the dialogs that do not drop late answers or empty the form.
SavesOwnContent ==
  Sound \/ ~strayed => \A s \in saves : s.does = "save" => s.content \in {s.of, New}

\* A dialog on the screen knows its row: the end of a save does not make the
\* page forget the row a confirmation is about, nor the end of a removal the row
\* a form is about.  Where they do, it takes a dialog opened while the request
\* of an earlier one was left alone.
KnowsItsRow ==
  /\ "remove" \notin kind.save.forgets \/ ~strayed => (dialog = "form" => Target # None)
  /\ "save" \notin kind.save.forgets \/ ~strayed => (dialog = "confirm" => selected # None)

\* One press of "create" makes one row: a create whose upload fails is resumed
\* on the row it made.  Only a lost answer makes the user create twice.
CreatesOnce == ~strayed => made <= 1
=============================================================================
