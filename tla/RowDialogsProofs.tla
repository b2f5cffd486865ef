-------------------------- MODULE RowDialogsProofs --------------------------
(***************************************************************************)
(* What RowDialogs promises of a dialog's row and of the rows a form       *)
(* creates, for any rows and any dialogs of the assumed kinds.             *)
(***************************************************************************)
EXTENDS RowDialogs, TLAPS

Known == Rows \cup {Created}
KnownLoads == [of: Known, dropped: BOOLEAN]

Types ==
  /\ kind \in Kinds
  /\ dialog \in {"none", "form", "confirm"} /\ formMode \in {"create", "edit"}
  /\ selected \in Known \cup {None} /\ holds \in Targets
  /\ loads \subseteq KnownLoads
  /\ saves \subseteq Saves
  /\ made \in Nat /\ strayed \in BOOLEAN

\* There is one request at a time, and a form that does not create does not ask
\* for a new row.
OneSave ==
  /\ saves # {} => saving
  /\ \A s, t \in saves : s = t
  /\ kind.save.creates = "no" => formMode = "edit"
  /\ \A s \in saves : s.of = New => s.does = "save" /\ kind.save.creates # "no"

\* Unless something was left alone, a request is of the dialog on the screen,
\* and a form that has created its row is finished with creating.
Attended ==
  /\ \A s \in saves : s.does = "save" => dialog = "form" /\ (s.of = New <=> formMode = "create")
  /\ \A s \in saves : s.does = "remove" => dialog = "confirm"
  /\ \A l \in loads : ~ l.dropped => dialog # "confirm" /\ (kind.fill.fills = "fetch" => formMode = "edit")
  /\ \A s \in saves : s.of = New /\ ~ s.applied => made = 0
  /\ dialog = "form" /\ formMode = "create" /\ saves = {} => made = 0
  /\ made <= 1

Inv == Types /\ OneSave /\ (~ strayed => Attended) /\ KnowsItsRow

-----------------------------------------------------------------------------
USE KindsAssumption, NamesAssumption

\* What another dialog finds when nothing has been left alone.
LEMMA Alone ==
  ASSUME Types, Strays, ~ strayed'
  PROVE  ~ strayed /\ saves = {} /\ \A l \in loads : l.dropped
BY DEF Strays, Types

LEMMA KindFields ==
  ASSUME kind \in Kinds
  PROVE  /\ kind.fill.fills \in {"row", "fetch", "effect"}
         /\ kind.save.after \in {"closes", "reloads", "returns"}
         /\ kind.save.creates \in {"no", "once", "takes", "again"}
BY DEF DialogKind, FillKind, SaveKind

LEMMA AppliedFields ==
  ASSUME NEW s \in Saves
  PROVE  /\ [s EXCEPT !.applied = TRUE] \in Saves
         /\ [s EXCEPT !.applied = TRUE].does = s.does
         /\ [s EXCEPT !.applied = TRUE].of = s.of
         /\ [s EXCEPT !.applied = TRUE].applied
BY DEF Saves

LEMMA DroppedFields ==
  ASSUME NEW l \in KnownLoads, NEW b \in BOOLEAN
  PROVE  /\ [l EXCEPT !.dropped = l.dropped \/ b] \in KnownLoads
         /\ l.dropped => [l EXCEPT !.dropped = l.dropped \/ b].dropped
BY DEF KnownLoads

\* Dropping loads, whichever of them, puts none under way.
LEMMA Dropping ==
  ASSUME loads \subseteq KnownLoads, NEW b \in BOOLEAN,
         NEW L, L = {[l EXCEPT !.dropped = l.dropped \/ b] : l \in loads}
  PROVE  /\ L \subseteq KnownLoads
         /\ \A k \in L : ~ k.dropped => \E l \in loads : ~ l.dropped
<1> SUFFICES ASSUME NEW k \in L
             PROVE  k \in KnownLoads /\ (~ k.dropped => \E l \in loads : ~ l.dropped)
  OBVIOUS
<1>1. PICK l \in loads : k = [l EXCEPT !.dropped = l.dropped \/ b]
  OBVIOUS
<1>2. l \in KnownLoads
  OBVIOUS
<1> QED BY <1>1, <1>2, DroppedFields

LEMMA Starting ==
  ASSUME Types, NEW r \in Known
  PROVE  /\ Start(r) \subseteq KnownLoads
         /\ \A k \in Start(r) : ~ k.dropped => k.of = r \/ \E l \in loads : ~ l.dropped
<1> DEFINE L == {[l EXCEPT !.dropped = l.dropped \/ kind.fill.guarded] : l \in loads}
<1>1. kind.fill.guarded \in BOOLEAN
  BY DEF Types, DialogKind, FillKind
<1>2. /\ L \subseteq KnownLoads
      /\ \A k \in L : ~ k.dropped => \E l \in loads : ~ l.dropped
  BY <1>1, Dropping DEF Types
<1>3. Start(r) = L \cup {[of |-> r, dropped |-> FALSE]}
  BY DEF Start
<1>4. [of |-> r, dropped |-> FALSE] \in KnownLoads /\ [of |-> r, dropped |-> FALSE].of = r
  BY DEF KnownLoads
<1> HIDE DEF L
<1> QED BY <1>2, <1>3, <1>4

LEMMA InitInv == Init => Inv
<1> SUFFICES ASSUME Init PROVE Inv
  OBVIOUS
<1>1. Types
  BY DEF Init, Types, Targets
<1>2. OneSave
  BY DEF Init, OneSave
<1>3. Attended
  BY DEF Init, Attended
<1>4. KnowsItsRow
  BY DEF Init, KnowsItsRow
<1> QED BY <1>1, <1>2, <1>3, <1>4 DEF Inv

LEMMA OpenCreateInv ==
  ASSUME Inv, OpenCreate
  PROVE  Inv'
<1> USE DEF Inv
<1>1. PICK b \in BOOLEAN : loads' = {[l EXCEPT !.dropped = l.dropped \/ b] : l \in loads}
  <2> DEFINE g == kind.fill.guarded /\ kind.fill.fills = "effect"
  <2>1. loads' = {[l EXCEPT !.dropped = l.dropped \/ g] : l \in loads}
    BY DEF OpenCreate
  <2>2. g \in BOOLEAN
    OBVIOUS
  <2> HIDE DEF g
  <2> QED BY <2>1, <2>2
<1>2. loads' \subseteq KnownLoads /\ \A k \in loads' : ~ k.dropped => \E l \in loads : ~ l.dropped
  BY <1>1, Dropping DEF Types
<1>3. /\ dialog' = "form" /\ formMode' = "create" /\ selected' = None /\ holds' = New
      /\ made' = 0 /\ saves' = saves /\ saving' = saving /\ kind' = kind
      /\ Strays /\ kind.save.creates # "no"
  BY DEF OpenCreate
<1>4. ~ strayed' => ~ strayed /\ saves = {} /\ \A l \in loads : l.dropped
  BY <1>3, Alone
<1>5. strayed' \in BOOLEAN
  BY <1>3 DEF Strays
<1>6. Types'
  BY <1>2, <1>3, <1>5 DEF Types, Targets
<1>7. OneSave'
  BY <1>3 DEF OneSave
<1>8. ~ strayed' => Attended'
  BY <1>2, <1>3, <1>4 DEF Attended
<1>9. KnowsItsRow'
  BY <1>3 DEF KnowsItsRow, Target
<1> QED BY <1>6, <1>7, <1>8, <1>9

LEMMA OpenEditInv ==
  ASSUME Inv, NEW r \in Rows, OpenEdit(r)
  PROVE  Inv'
<1> USE DEF Inv
<1>1. /\ formMode' = "edit" /\ made' = 0 /\ saves' = saves /\ saving' = saving /\ kind' = kind
      /\ Strays /\ dialog = "none"
  BY DEF OpenEdit, Opens
<1>2. \/ dialog' = "form" /\ selected' = r /\ loads' \in {loads, Start(r)}
      \/ dialog' = dialog /\ selected' = selected /\ loads' \in {loads, Start(r)}
  BY KindFields DEF OpenEdit, Types
<1>3. holds' \in Targets
  BY KindFields DEF OpenEdit, Types, Targets
<1>4. loads' \subseteq KnownLoads
  BY <1>2, Starting DEF Types, Known
<1>5. ~ strayed' => ~ strayed /\ saves = {} /\ \A l \in loads : l.dropped
  BY <1>1, Alone
<1>6. strayed' \in BOOLEAN
  BY <1>1 DEF Strays
<1>7. Types'
  BY <1>1, <1>2, <1>3, <1>4, <1>6 DEF Types, Known
<1>8. OneSave'
  BY <1>1 DEF OneSave
<1>9. ~ strayed' => Attended'
  BY <1>1, <1>2, <1>5 DEF Attended
<1>10. KnowsItsRow'
  BY <1>1, <1>2 DEF KnowsItsRow, Target
<1> QED BY <1>7, <1>8, <1>9, <1>10

LEMMA OpenRemoveInv ==
  ASSUME Inv, NEW r \in Rows, OpenRemove(r)
  PROVE  Inv'
<1> USE DEF Inv
<1>1. /\ dialog' = "confirm" /\ selected' = r /\ Strays
      /\ UNCHANGED <<kind, formMode, holds, loads, loading, saves, saving, made>>
  BY DEF OpenRemove
<1>2. ~ strayed' => ~ strayed /\ saves = {} /\ \A l \in loads : l.dropped
  BY <1>1, Alone
<1>3. strayed' \in BOOLEAN
  BY <1>1 DEF Strays
<1>4. Types'
  BY <1>1, <1>3 DEF Types, Known
<1>5. OneSave'
  BY <1>1 DEF OneSave
<1>6. ~ strayed' => Attended'
  BY <1>1, <1>2 DEF Attended
<1>7. KnowsItsRow'
  BY <1>1 DEF KnowsItsRow
<1> QED BY <1>4, <1>5, <1>6, <1>7

LEMMA CloseInv ==
  ASSUME Inv, Close
  PROVE  Inv'
<1> USE DEF Inv
<1>1. PICK b \in BOOLEAN : loads' = {[l EXCEPT !.dropped = l.dropped \/ b] : l \in loads}
  <2> DEFINE g == kind.fill.guarded /\ kind.fill.fills = "effect"
  <2>1. loads' = {[l EXCEPT !.dropped = l.dropped \/ g] : l \in loads}
    BY DEF Close
  <2>2. g \in BOOLEAN
    OBVIOUS
  <2> HIDE DEF g
  <2> QED BY <2>1, <2>2
<1>2. loads' \subseteq KnownLoads /\ \A k \in loads' : ~ k.dropped => \E l \in loads : ~ l.dropped
  BY <1>1, Dropping DEF Types
<1>3. /\ dialog' = "none" /\ strayed' = (strayed \/ saves # {})
      /\ UNCHANGED <<kind, formMode, selected, holds, saves, saving, made>>
  BY DEF Close
<1>4. Types'
  BY <1>2, <1>3 DEF Types
<1>5. OneSave'
  BY <1>3 DEF OneSave
<1>6. ~ strayed' => Attended'
  BY <1>2, <1>3 DEF Attended, Types
<1>7. KnowsItsRow'
  BY <1>3 DEF KnowsItsRow
<1> QED BY <1>4, <1>5, <1>6, <1>7

LEMMA LoadInv ==
  ASSUME Inv, NEW l \in loads, Loaded(l) \/ LoadFails(l)
  PROVE  Inv'
<1> USE DEF Inv
<1>1. /\ loads' = loads \ {l} /\ l.of \in Known
      /\ UNCHANGED <<kind, formMode, saves, saving, made>>
  BY DEF Loaded, LoadFails, Types, KnownLoads
<1>2. \/ UNCHANGED <<dialog, selected>> /\ holds' \in {holds, l.of}
      \/ /\ ~ l.dropped /\ kind.fill.fills = "fetch"
         /\ dialog' = "form" /\ selected' = l.of /\ holds' = l.of /\ strayed' = strayed
  BY DEF Loaded, LoadFails
<1>3. strayed' \in BOOLEAN /\ (strayed => strayed')
  BY DEF Loaded, LoadFails, Types
<1>4. Types'
  BY <1>1, <1>2, <1>3 DEF Types, Known, Targets
<1>5. OneSave'
  BY <1>1 DEF OneSave
<1>6. ~ strayed' => Attended'
  BY <1>1, <1>2, <1>3 DEF Attended
<1>7. KnowsItsRow'
  BY <1>1, <1>2, <1>3 DEF KnowsItsRow, Target, Known, Types
<1> QED BY <1>4, <1>5, <1>6, <1>7

LEMMA SaveInv ==
  ASSUME Inv, NEW does \in {"save", "remove"},
         dialog = (IF does = "save" THEN "form" ELSE "confirm"),
         Sent(does).of # None, ~ saving,
         saves' = saves \cup {Sent(does)}, saving' = TRUE,
         strayed' \in BOOLEAN, strayed => strayed',
         UNCHANGED <<kind, dialog, formMode, selected, holds, loads, made>>
  PROVE  Inv'
<1> USE DEF Inv
<1> DEFINE n == Sent(does)
<1>1. /\ n.does = does /\ ~ n.applied /\ n.of = IF does = "remove" THEN selected ELSE Target
      /\ n \in Saves
  BY DEF Sent, Saves, Types, Targets, Known, Target
<1>2. saves = {} /\ saves' = {n}
  BY DEF OneSave
<1>3. n.of = New <=> does = "save" /\ formMode = "create"
  BY <1>1 DEF Target, Types, Known
<1> HIDE DEF n
<1>4. Types'
  BY <1>1, <1>2 DEF Types
<1>5. OneSave'
  BY <1>1, <1>2, <1>3 DEF OneSave
<1>6. ~ strayed' => Attended'
  BY <1>1, <1>2, <1>3 DEF Attended
<1>7. KnowsItsRow'
  BY DEF KnowsItsRow, Target
<1> QED BY <1>4, <1>5, <1>6, <1>7

LEMMA PressInv ==
  ASSUME Inv, Save \/ SaveNothing \/ Remove
  PROVE  Inv'
<1>1. CASE Save
  <2>1. Sent("save").of = Target
    BY DEF Sent
  <2>2. strayed' \in BOOLEAN /\ (strayed => strayed')
    BY <1>1 DEF Save
  <2> QED BY <1>1, <2>1, <2>2, SaveInv DEF Save
<1>2. CASE Remove
  <2>1. Sent("remove").of = selected
    BY DEF Sent
  <2> QED BY <1>2, <2>1, SaveInv DEF Remove, Inv, Types
<1>3. CASE SaveNothing
  <2>1. /\ dialog' \in {"none", "form"} /\ dialog = "form" /\ saves = {} /\ Target = None
        /\ UNCHANGED <<kind, formMode, selected, holds, loads, saves, saving, made, strayed>>
    BY <1>3 DEF SaveNothing, Inv, OneSave
  <2>2. Types'
    BY <2>1 DEF Inv, Types
  <2>3. OneSave'
    BY <2>1 DEF Inv, OneSave
  <2>4. ~ strayed' => Attended'
    BY <2>1 DEF Inv, Attended
  <2>5. KnowsItsRow'
    BY <2>1 DEF Inv, KnowsItsRow, Target
  <2> QED BY <2>2, <2>3, <2>4, <2>5 DEF Inv
<1> QED BY <1>1, <1>2, <1>3

LEMMA ApplyInv ==
  ASSUME Inv, NEW s \in saves, Apply(s)
  PROVE  Inv'
<1> USE DEF Inv
<1> DEFINE t == [s EXCEPT !.applied = TRUE]
<1>1. s \in Saves
  BY DEF Types
<1>2. t \in Saves /\ t.does = s.does /\ t.of = s.of /\ t.applied
  BY <1>1, AppliedFields
<1>3. saves' = {t} /\ saving
  BY DEF Apply, OneSave
<1> HIDE DEF t
<1>4. /\ ~ s.applied /\ made' = (IF s.of = New /\ s.does = "save" THEN made + 1 ELSE made)
      /\ UNCHANGED <<kind, dialog, formMode, selected, holds, loads, loading, saving, strayed>>
  BY DEF Apply
<1>5. Types'
  BY <1>2, <1>3, <1>4 DEF Types
<1>6. OneSave'
  BY <1>2, <1>3, <1>4 DEF OneSave
<1>7. ~ strayed' => Attended'
  BY <1>2, <1>3, <1>4 DEF Attended, Types
<1>8. KnowsItsRow'
  BY <1>4 DEF KnowsItsRow, Target
<1> QED BY <1>5, <1>6, <1>7, <1>8

\* The end of a save: the form goes on with the row it created, closes, loads
\* its row again or shows it.
LEMMA SavedInv ==
  ASSUME Inv, NEW s \in saves, Saved(s)
  PROVE  Inv'
<1> USE DEF Inv
<1>1. /\ s \in Saves /\ s.does = "save" /\ s.applied /\ saves' = {} /\ saving' = FALSE
      /\ UNCHANGED <<kind, made, strayed>>
  BY DEF Saved, OneSave, Types
<1>2. s.of \in Known \cup {New}
  BY <1>1 DEF Saves, Targets, Known
<1>3. ~ strayed => dialog = "form" /\ (s.of = New <=> formMode = "create")
  BY <1>1 DEF Attended
<1>4. CASE Continues(s)
  <2>1. /\ UNCHANGED <<dialog, holds, loads>>
        /\ \/ formMode' = "edit" /\ selected' = Created
           \/ UNCHANGED <<formMode, selected>> /\ formMode # "create"
    BY <1>4 DEF Saved, Applied, Continue
  <2>2. Types'
    BY <1>1, <2>1 DEF Types, Known
  <2>3. OneSave'
    BY <1>1, <2>1 DEF OneSave
  <2>4. ~ strayed' => Attended'
    BY <1>1, <2>1 DEF Attended, Types
  <2>5. KnowsItsRow'
    BY <1>1, <1>3, <2>1 DEF KnowsItsRow, Target, Types
  <2> QED BY <2>2, <2>3, <2>4, <2>5
<1>5. CASE ~ Continues(s) /\ kind.save.after = "closes"
  <2>1. /\ dialog' = (IF dialog = "form" THEN "none" ELSE dialog)
        /\ selected' = (IF "save" \in kind.save.forgets THEN None ELSE selected)
        /\ UNCHANGED <<formMode, holds, loads>>
    BY <1>5 DEF Saved, Applied, Forget
  <2>2. Types'
    BY <1>1, <2>1 DEF Types
  <2>3. OneSave'
    BY <1>1, <2>1 DEF OneSave
  <2>4. ~ strayed' => Attended'
    BY <1>1, <1>3, <2>1 DEF Attended
  <2>5. KnowsItsRow'
    BY <1>1, <1>3, <2>1 DEF KnowsItsRow, Target, Types
  <2> QED BY <2>2, <2>3, <2>4, <2>5
<1>6. CASE ~ Continues(s) /\ kind.save.after = "reloads"
  <2>1. loads' = Start(s.of) /\ UNCHANGED <<dialog, formMode, selected, holds>>
    BY <1>6 DEF Saved, Applied
  <2>2. s.of # New
    BY <1>6, KindFields, ResumesAssumption DEF OneSave, Continues, Types
  <2>3. loads' \subseteq KnownLoads
    BY <1>2, <2>1, <2>2, Starting
  <2>4. Types'
    BY <1>1, <2>1, <2>3 DEF Types
  <2>5. OneSave'
    BY <1>1, <2>1 DEF OneSave
  <2>6. ~ strayed' => Attended'
    BY <1>1, <1>3, <2>1, <2>2 DEF Attended, Types
  <2>7. KnowsItsRow'
    BY <1>1, <2>1 DEF KnowsItsRow, Target
  <2> QED BY <2>4, <2>5, <2>6, <2>7
<1>7. CASE ~ Continues(s) /\ kind.save.after = "returns"
  <2>1. /\ formMode' = "edit" /\ selected' \in Known /\ holds' = selected'
        /\ UNCHANGED <<dialog, loads>>
    BY <1>2, <1>7 DEF Saved, Applied, Known
  <2>2. Types'
    BY <1>1, <2>1 DEF Types, Targets, Known
  <2>3. OneSave'
    BY <1>1, <2>1 DEF OneSave
  <2>4. ~ strayed' => Attended'
    BY <1>1, <2>1 DEF Attended, Types
  <2>5. KnowsItsRow'
    BY <1>1, <2>1 DEF KnowsItsRow, Target, Known
  <2> QED BY <2>2, <2>3, <2>4, <2>5
<1> QED BY <1>4, <1>5, <1>6, <1>7, KindFields DEF Types

LEMMA EndInv ==
  ASSUME Inv, NEW s \in saves,
         Removed(s) \/ Refused(s) \/ UploadFails(s) \/ Lost(s)
  PROVE  Inv'
<1> USE DEF Inv
<1>1. /\ s \in Saves /\ saves' = {} /\ saving' = FALSE
      /\ UNCHANGED <<kind, holds, loads, made>>
  BY DEF Removed, Refused, UploadFails, Lost, OneSave, Types
<1>2. CASE Removed(s)
  <2>1. /\ s.does = "remove" /\ strayed' = strayed /\ formMode' = formMode
        /\ dialog' = (IF dialog = "confirm" THEN "none" ELSE dialog)
        /\ selected' = (IF "remove" \in kind.save.forgets THEN None ELSE selected)
    BY <1>2 DEF Removed, Forget
  <2>2. ~ strayed => dialog = "confirm"
    BY <2>1 DEF Attended
  <2>3. Types'
    BY <1>1, <2>1 DEF Types
  <2>4. OneSave'
    BY <1>1, <2>1 DEF OneSave
  <2>5. ~ strayed' => Attended'
    BY <1>1, <2>1, <2>2 DEF Attended
  <2>6. KnowsItsRow'
    BY <1>1, <2>1, <2>2 DEF KnowsItsRow, Target
  <2> QED BY <2>3, <2>4, <2>5, <2>6
<1>3. CASE Refused(s)
  <2>1. /\ ~ s.applied /\ UNCHANGED <<dialog, formMode, selected, strayed>>
    BY <1>3 DEF Refused
  <2>2. ~ strayed /\ dialog = "form" /\ formMode = "create" => s.of = New
    BY <1>1 DEF Attended, Saves
  <2>3. Types'
    BY <1>1, <2>1 DEF Types
  <2>4. OneSave'
    BY <1>1, <2>1 DEF OneSave
  <2>5. ~ strayed' => Attended'
    BY <1>1, <2>1, <2>2 DEF Attended
  <2>6. KnowsItsRow'
    BY <1>1, <2>1 DEF KnowsItsRow, Target
  <2> QED BY <2>3, <2>4, <2>5, <2>6
<1>4. CASE UploadFails(s)
  <2>1. /\ UNCHANGED <<dialog, strayed>> /\ s.does = "save" /\ kind.save.steps
        /\ \/ formMode' = "edit" /\ selected' = Created
           \/ UNCHANGED <<formMode, selected>> /\ (Continues(s) => formMode # "create")
    BY <1>4 DEF UploadFails, Continue
  <2>2. s.of = New => Continues(s)
    BY <2>1, KindFields, ResumesAssumption DEF Continues, OneSave, Types
  <2>3. ~ strayed => (s.of = New <=> formMode = "create")
    BY <2>1 DEF Attended
  <2>4. Types'
    BY <1>1, <2>1 DEF Types, Known
  <2>5. OneSave'
    BY <1>1, <2>1 DEF OneSave
  <2>6. ~ strayed' => Attended'
    BY <1>1, <2>1, <2>2, <2>3 DEF Attended, Types
  <2>7. KnowsItsRow'
    BY <1>1, <2>1 DEF KnowsItsRow, Target
  <2> QED BY <2>4, <2>5, <2>6, <2>7
<1>5. CASE Lost(s)
  <2>1. strayed' = TRUE /\ UNCHANGED <<dialog, formMode, selected>>
    BY <1>5 DEF Lost
  <2>2. Types'
    BY <1>1, <2>1 DEF Types
  <2>3. OneSave'
    BY <1>1, <2>1 DEF OneSave
  <2>4. KnowsItsRow'
    BY <1>1, <2>1 DEF KnowsItsRow, Target
  <2> QED BY <2>1, <2>2, <2>3, <2>4
<1> QED BY <1>2, <1>3, <1>4, <1>5

LEMMA NextInv ==
  ASSUME Inv, [Next]_vars
  PROVE  Inv'
<1>1. CASE Next
  BY <1>1, OpenCreateInv, CloseInv, PressInv, OpenEditInv, OpenRemoveInv, LoadInv, ApplyInv, SavedInv, EndInv
     DEF Next
<1>2. CASE UNCHANGED vars
  BY <1>2 DEF vars, Inv, Types, OneSave, Attended, KnowsItsRow, Target
<1> QED BY <1>1, <1>2

-----------------------------------------------------------------------------
\* However many rows and dialogs a page has: a dialog on the screen knows its
\* row, but for pages whose answers make them forget the selected row, and there
\* only if a request was left alone.
THEOREM DialogsKnowTheirRow == Spec => []KnowsItsRow
<1>1. Init => Inv
  BY InitInv
<1>2. Inv /\ [Next]_vars => Inv'
  BY NextInv
<1>3. Inv => KnowsItsRow
  BY DEF Inv
<1> QED BY <1>1, <1>2, <1>3, PTL DEF Spec

\* A form makes at most one row each time it is opened to create, whatever
\* fails, unless an answer was lost or a request left alone.
THEOREM FormsCreateOnce == Spec => []CreatesOnce
<1>1. Init => Inv
  BY InitInv
<1>2. Inv /\ [Next]_vars => Inv'
  BY NextInv
<1>3. Inv => CreatesOnce
  BY DEF Inv, Types, Attended, CreatesOnce
<1> QED BY <1>1, <1>2, <1>3, PTL DEF Spec

-----------------------------------------------------------------------------
(* Whose data a save writes. *)

OwnContent == \A s \in saves : s.does = "save" => s.content \in {s.of, New}

\* The form holds data of the row a save would write, or none.
OwnForm == dialog = "form" /\ Target # None => holds \in {Target, New}

\* Where late answers are dropped, a load that is not is of the form's row.
OwnLoads ==
  /\ kind.fill.fills = "row" => loads = {}
  /\ \A l \in loads : ~ l.dropped /\ dialog = "form" => formMode = "edit" /\ selected \in {l.of, None}

\* Where they are not, but nothing was left alone: all loads are of one row, the
\* form's if there is one, and only in a form that is not emptied they are missed.
CalmLoads ==
  /\ \A k, l \in loads : ~ k.dropped /\ ~ l.dropped => k = l
  /\ \A l \in loads : ~ l.dropped /\ dialog = "form" => formMode = "edit" /\ selected = l.of
  /\ \A s \in saves : s.does = "save" => s.of = Target
  /\ dialog = "form" => holds \in {Target, New}
                         \/ (loading /\ ~ kind.fill.blanks /\ \E l \in loads : ~ l.dropped)

SoundInv == OwnContent /\ OwnForm /\ OwnLoads
CalmInv == OwnContent /\ CalmLoads
Content == Inv /\ (Sound => SoundInv) /\ (~ strayed => CalmInv)

LEMMA ContentInit == Init => Content
<1> SUFFICES ASSUME Init PROVE Content
  OBVIOUS
<1>1. OwnContent /\ OwnForm /\ OwnLoads /\ CalmLoads
  BY DEF Init, OwnContent, OwnForm, OwnLoads, CalmLoads
<1> QED BY <1>1, InitInv DEF Content, SoundInv, CalmInv

\* The kinds of dialogs that are sound drop what was loaded for another row.
LEMMA SoundFields ==
  ASSUME Types, Sound
  PROVE  /\ kind.save.creates \in {"no", "once", "again"} /\ kind.save.after \in {"closes", "returns"}
         /\ kind.fill.fills = "row" \/ (kind.fill.fills = "effect" /\ kind.fill.guarded /\ kind.fill.blanks)
         /\ kind.fill.fills # "row" => kind.save.after = "closes"
BY KindFields, GuardedAssumption DEF Types, Sound

\* Dropping makes no load of another row: what is left is a load there was.
LEMMA LeftLoads ==
  ASSUME loads \subseteq KnownLoads, NEW b \in BOOLEAN,
         NEW L, L = {[l EXCEPT !.dropped = l.dropped \/ b] : l \in loads}
  PROVE  /\ \A k \in L : ~ k.dropped => k \in loads /\ ~ b
         /\ loads = {} => L = {}
<1> SUFFICES ASSUME NEW k \in L, ~ k.dropped
             PROVE  k \in loads /\ ~ b
  OBVIOUS
<1>1. PICK l \in loads : k = [l EXCEPT !.dropped = l.dropped \/ b]
  OBVIOUS
<1>2. l \in KnownLoads
  OBVIOUS
<1>3. ~ l.dropped /\ ~ b
  BY <1>1, <1>2 DEF KnownLoads
<1>4. [l EXCEPT !.dropped = FALSE] = l
  BY <1>2, <1>3 DEF KnownLoads
<1> QED BY <1>1, <1>3, <1>4

LEMMA StartedLoads ==
  ASSUME Types, NEW r \in Known
  PROVE  LET n == [of |-> r, dropped |-> FALSE]
         IN /\ n \in Start(r) /\ n.of = r /\ ~ n.dropped
            /\ \A k \in Start(r) : ~ k.dropped => k = n \/ (k \in loads /\ ~ kind.fill.guarded)
<1> DEFINE L == {[l EXCEPT !.dropped = l.dropped \/ kind.fill.guarded] : l \in loads}
<1>1. kind.fill.guarded \in BOOLEAN
  BY DEF Types, DialogKind, FillKind
<1>2. \A k \in L : ~ k.dropped => k \in loads /\ ~ kind.fill.guarded
  BY <1>1, LeftLoads DEF Types
<1>3. Start(r) = L \cup {[of |-> r, dropped |-> FALSE]}
  BY DEF Start
<1> HIDE DEF L
<1> QED BY <1>2, <1>3

LEMMA OpenCreateContent ==
  ASSUME Content, OpenCreate
  PROVE  Content'
<1> USE DEF Content
<1>1. Inv'
  BY OpenCreateInv
<1>2. /\ dialog' = "form" /\ formMode' = "create" /\ selected' = None /\ holds' = New
      /\ saves' = saves /\ kind' = kind /\ Strays
      /\ loads' = {[l EXCEPT !.dropped = l.dropped \/ (kind.fill.guarded /\ kind.fill.fills = "effect")] : l \in loads}
  BY DEF OpenCreate
<1>3. ~ strayed' => ~ strayed /\ saves = {} /\ \A l \in loads : l.dropped
  BY <1>2, Alone DEF Inv
<1>4. (\A l \in loads : l.dropped) => \A l \in loads' : l.dropped
  <2> DEFINE g == kind.fill.guarded /\ kind.fill.fills = "effect"
  <2>1. loads' = {[l EXCEPT !.dropped = l.dropped \/ g] : l \in loads} /\ g \in BOOLEAN
    BY <1>2
  <2> HIDE DEF g
  <2> QED BY <2>1, Dropping DEF Inv, Types
<1>5. ASSUME Sound PROVE SoundInv'
  <2>1. \A l \in loads' : l.dropped
    BY <1>2, <1>5, SoundFields DEF Inv, Types, KnownLoads, SoundInv, OwnLoads
  <2>2. kind.fill.fills = "row" => loads' = {}
    BY <1>2, <1>5 DEF SoundInv, OwnLoads
  <2> QED BY <1>2, <1>5, <2>1, <2>2 DEF SoundInv, OwnContent, OwnForm, OwnLoads, Target
<1>6. ASSUME ~ strayed' PROVE CalmInv'
  BY <1>2, <1>3, <1>4, <1>6 DEF CalmInv, OwnContent, CalmLoads, Target
<1> QED BY <1>1, <1>2, <1>5, <1>6 DEF Sound

LEMMA OpenEditContent ==
  ASSUME Content, NEW r \in Rows, OpenEdit(r)
  PROVE  Content'
<1> USE DEF Content
<1> DEFINE n == [of |-> r, dropped |-> FALSE]
<1>1. Inv'
  BY OpenEditInv
<1>2. formMode' = "edit" /\ saves' = saves /\ kind' = kind /\ Strays /\ dialog = "none"
  BY DEF OpenEdit, Opens
<1>3. \/ /\ kind.fill.fills = "row" /\ dialog' = "form" /\ selected' = r /\ holds' = r
         /\ UNCHANGED <<loads, loading>>
      \/ /\ kind.fill.fills = "effect" /\ dialog' = "form" /\ selected' = r
         /\ holds' = (IF kind.fill.blanks THEN New ELSE holds)
         /\ loads' = Start(r) /\ loading' = TRUE
      \/ /\ kind.fill.fills = "fetch" /\ UNCHANGED dialog /\ loads' = Start(r)
  BY KindFields DEF OpenEdit, Inv, Types
<1>4. /\ n \in Start(r) /\ n.of = r /\ ~ n.dropped
      /\ \A k \in Start(r) : ~ k.dropped => k = n \/ (k \in loads /\ ~ kind.fill.guarded)
  BY StartedLoads DEF Inv, Types, Known
<1>5. ~ strayed' => ~ strayed /\ saves = {} /\ \A l \in loads : l.dropped
  BY <1>2, Alone DEF Inv
<1> HIDE DEF n
<1>6. ASSUME Sound PROVE SoundInv'
  <2>1. OwnContent'
    BY <1>2, <1>6 DEF SoundInv, OwnContent
  <2>2. OwnForm'
    BY <1>2, <1>3, <1>6, SoundFields DEF OwnForm, Target, Inv
  <2>3. OwnLoads'
    BY <1>2, <1>3, <1>4, <1>6, SoundFields DEF SoundInv, OwnLoads, Inv
  <2> QED BY <2>1, <2>2, <2>3 DEF SoundInv
<1>7. ASSUME ~ strayed' PROVE CalmInv'
  <2>1. OwnContent'
    BY <1>2, <1>5, <1>7 DEF OwnContent
  <2>2. \A k \in loads' : ~ k.dropped => k = n /\ kind.fill.fills # "row"
    BY <1>3, <1>4, <1>5, <1>7
  <2>3. CalmLoads'
    BY <1>2, <1>3, <1>4, <1>5, <1>7, <2>2 DEF CalmLoads, Target
  <2> QED BY <2>1, <2>3 DEF CalmInv
<1> QED BY <1>1, <1>2, <1>6, <1>7 DEF Sound

LEMMA OpenRemoveContent ==
  ASSUME Content, NEW r \in Rows, OpenRemove(r)
  PROVE  Content'
<1> USE DEF Content
<1>1. Inv'
  BY OpenRemoveInv
<1>2. /\ dialog' = "confirm" /\ Strays
      /\ UNCHANGED <<kind, formMode, holds, loads, loading, saves>>
  BY DEF OpenRemove
<1>3. ~ strayed' => ~ strayed /\ saves = {} /\ \A l \in loads : l.dropped
  BY <1>2, Alone DEF Inv
<1>4. ASSUME Sound PROVE SoundInv'
  BY <1>2, <1>4 DEF SoundInv, OwnContent, OwnForm, OwnLoads
<1>5. ASSUME ~ strayed' PROVE CalmInv'
  BY <1>2, <1>3, <1>5 DEF CalmInv, OwnContent, CalmLoads
<1> QED BY <1>1, <1>2, <1>4, <1>5 DEF Sound

LEMMA CloseContent ==
  ASSUME Content, Close
  PROVE  Content'
<1> USE DEF Content
<1>1. Inv'
  BY CloseInv
<1>2. /\ dialog' = "none" /\ strayed' = (strayed \/ saves # {})
      /\ UNCHANGED <<kind, formMode, selected, holds, saves>>
  BY DEF Close
<1>3. (\A k \in loads' : ~ k.dropped => k \in loads) /\ (loads = {} => loads' = {})
  <2> DEFINE g == kind.fill.guarded /\ kind.fill.fills = "effect"
  <2>1. loads' = {[l EXCEPT !.dropped = l.dropped \/ g] : l \in loads} /\ g \in BOOLEAN
    BY DEF Close
  <2> HIDE DEF g
  <2> QED BY <2>1, LeftLoads DEF Inv, Types
<1>4. ASSUME Sound PROVE SoundInv'
  BY <1>2, <1>3, <1>4 DEF SoundInv, OwnContent, OwnForm, OwnLoads
<1>5. ASSUME ~ strayed' PROVE CalmInv'
  BY <1>2, <1>3, <1>5 DEF CalmInv, OwnContent, CalmLoads, Inv, Types
<1> QED BY <1>1, <1>2, <1>4, <1>5 DEF Sound

LEMMA LoadContent ==
  ASSUME Content, NEW l \in loads, Loaded(l) \/ LoadFails(l)
  PROVE  Content'
<1> USE DEF Content
<1>1. Inv'
  BY LoadInv
<1>2. loads' = loads \ {l} /\ l.of \in Known /\ UNCHANGED <<kind, formMode, saves>>
  BY DEF Loaded, LoadFails, Inv, Types, KnownLoads
<1>3. \/ l.dropped /\ UNCHANGED <<dialog, selected, holds, strayed>> /\ (loading' <=> loading)
      \/ ~ l.dropped /\ UNCHANGED <<dialog, selected, holds>> /\ strayed'
      \/ /\ ~ l.dropped /\ holds' = l.of /\ strayed' = strayed
         /\ \/ kind.fill.fills = "fetch" /\ dialog' = "form" /\ selected' = l.of
            \/ kind.fill.fills # "fetch" /\ UNCHANGED <<dialog, selected>>
  <2>1. strayed \in BOOLEAN /\ l.dropped \in BOOLEAN
    BY DEF Inv, Types, KnownLoads
  <2>2. CASE Loaded(l)
    BY <2>2 DEF Loaded
  <2>3. CASE LoadFails(l)
    <3>1. /\ UNCHANGED <<dialog, selected, holds>> /\ loading' = (loading /\ l.dropped)
          /\ strayed' = (strayed \/ ~ l.dropped)
      BY <2>3 DEF LoadFails
    <3> QED BY <2>1, <3>1
  <2> QED BY <2>2, <2>3
<1>4. ASSUME Sound PROVE SoundInv'
  <2>1. OwnContent'
    BY <1>2, <1>4 DEF SoundInv, OwnContent
  <2>2. OwnForm'
    BY <1>2, <1>3, <1>4, SoundFields DEF SoundInv, OwnForm, OwnLoads, Target, Inv
  <2>3. OwnLoads'
    BY <1>2, <1>3, <1>4, SoundFields DEF SoundInv, OwnLoads, Inv
  <2> QED BY <2>1, <2>2, <2>3 DEF SoundInv
<1>5. ASSUME ~ strayed' PROVE CalmInv'
  <2>1. CalmInv
    BY <1>3, <1>5 DEF Inv, Types
  <2>2. OwnContent'
    BY <1>2, <2>1 DEF CalmInv, OwnContent
  <2>3. ~ l.dropped => \A k \in loads' : k.dropped
    BY <1>2, <2>1 DEF CalmInv, CalmLoads
  <2>4. ~ l.dropped /\ kind.fill.fills = "fetch" => formMode = "edit"
    BY <1>3, <1>5 DEF Inv, Types, Attended
  <2>5. CASE l.dropped
    BY <1>2, <1>3, <1>5, <2>1, <2>2, <2>5 DEF CalmInv, CalmLoads, Target
  <2>6. CASE ~ l.dropped
    <3>1. \/ kind.fill.fills = "fetch" /\ dialog' = "form" /\ selected' = l.of
          \/ UNCHANGED <<dialog, selected>>
      BY <1>3, <2>6
    <3>2. dialog' = "form" => Target' = l.of
      BY <1>2, <2>1, <2>4, <2>6, <3>1 DEF CalmInv, CalmLoads, Target
    <3>3. \A s \in saves' : s.does = "save" => s.of = Target'
      BY <1>2, <1>3, <1>5, <2>1, <2>6, <3>1 DEF CalmInv, CalmLoads, Target, Inv, Attended
    <3> QED BY <1>2, <1>3, <1>5, <2>2, <2>3, <2>6, <3>2, <3>3 DEF CalmInv, CalmLoads
  <2> QED BY <2>5, <2>6
<1> QED BY <1>1, <1>2, <1>4, <1>5 DEF Sound

LEMMA PressContent ==
  ASSUME Content, Save \/ SaveNothing \/ Remove
  PROVE  Content'
<1> USE DEF Content
<1>1. Inv'
  BY PressInv
<1>2. CASE Save
  <2>1. /\ dialog = "form" /\ Target # None /\ saves' = saves \cup {Sent("save")}
        /\ strayed' = (strayed \/ (loading /\ ~ kind.fill.blanks))
        /\ UNCHANGED <<kind, dialog, formMode, selected, holds, loads, loading>>
    BY <1>2 DEF Save
  <2>2. Sent("save").does = "save" /\ Sent("save").of = Target /\ Sent("save").content = holds
    BY DEF Sent
  <2>3. ASSUME Sound PROVE SoundInv'
    BY <2>1, <2>2, <2>3 DEF SoundInv, OwnContent, OwnForm, OwnLoads, Target
  <2>4. ASSUME ~ strayed' PROVE CalmInv'
    BY <2>1, <2>2, <2>4 DEF CalmInv, OwnContent, CalmLoads, Target
  <2> QED BY <1>1, <2>1, <2>3, <2>4 DEF Sound
<1>3. CASE Remove
  <2>1. /\ dialog = "confirm" /\ saves' = saves \cup {Sent("remove")}
        /\ UNCHANGED <<kind, dialog, formMode, selected, holds, loads, loading, strayed>>
    BY <1>3 DEF Remove
  <2>2. Sent("remove").does = "remove"
    BY DEF Sent
  <2>3. SoundInv => SoundInv'
    BY <2>1, <2>2 DEF SoundInv, OwnContent, OwnForm, OwnLoads
  <2>4. CalmInv => CalmInv'
    BY <2>1, <2>2 DEF CalmInv, OwnContent, CalmLoads, Target
  <2> QED BY <1>1, <2>1, <2>3, <2>4 DEF Sound
<1>4. CASE SaveNothing
  <2>1. /\ dialog = "form" /\ Target = None
        /\ UNCHANGED <<kind, formMode, selected, holds, loads, loading, saves, strayed>>
    BY <1>4 DEF SaveNothing
  <2>2. SoundInv => SoundInv'
    BY <2>1 DEF SoundInv, OwnContent, OwnForm, OwnLoads, Target
  <2>3. CalmInv => CalmInv'
    BY <2>1 DEF CalmInv, OwnContent, CalmLoads, Target
  <2> QED BY <1>1, <2>1, <2>2, <2>3 DEF Sound
<1> QED BY <1>2, <1>3, <1>4

LEMMA ApplyContent ==
  ASSUME Content, NEW s \in saves, Apply(s)
  PROVE  Content'
<1> USE DEF Content
<1> DEFINE t == [s EXCEPT !.applied = TRUE]
<1>1. Inv'
  BY ApplyInv
<1>2. s \in Saves
  BY DEF Inv, Types
<1>3. t.does = s.does /\ t.of = s.of /\ t.content = s.content
  BY <1>2 DEF Saves
<1>4. saves' = (saves \ {s}) \cup {t}
  BY DEF Apply
<1> HIDE DEF t
<1>5. UNCHANGED <<kind, dialog, formMode, selected, holds, loads, loading, strayed>>
  BY DEF Apply
<1>6. SoundInv => SoundInv'
  BY <1>3, <1>4, <1>5 DEF SoundInv, OwnContent, OwnForm, OwnLoads, Target
<1>7. CalmInv => CalmInv'
  BY <1>3, <1>4, <1>5 DEF CalmInv, OwnContent, CalmLoads, Target
<1> QED BY <1>1, <1>5, <1>6, <1>7 DEF Sound

\* A form that goes on with the row it created holds nothing of another one.
LEMMA ContinueContent ==
  ASSUME Content, NEW s \in saves, s.does = "save", Continues(s), Continue,
         saves' = {}, UNCHANGED <<kind, dialog, holds, loads, loading, strayed>>
  PROVE  /\ Sound => SoundInv'
         /\ ~ strayed' => CalmInv'
<1> USE DEF Content
<1>1. \/ formMode' = "edit" /\ selected' = Created /\ (formMode = "create" \/ kind.save.creates = "takes")
      \/ UNCHANGED <<formMode, selected>>
  BY DEF Continue
<1>2. ASSUME Sound PROVE SoundInv'
  <2>1. kind.save.creates # "takes"
    BY <1>2 DEF Sound
  <2> QED BY <1>1, <1>2, <2>1 DEF SoundInv, OwnContent, OwnForm, OwnLoads, Target
<1>3. ASSUME ~ strayed' PROVE CalmInv'
  <2>1. CalmInv /\ dialog = "form" /\ formMode = "create"
    BY <1>3 DEF Inv, Attended, Continues
  <2>2. formMode' = "edit" /\ selected' = Created
    BY <2>1 DEF Continue
  <2>3. \A l \in loads : l.dropped
    BY <2>1 DEF CalmInv, CalmLoads
  <2>4. holds = New
    BY <2>1, <2>3 DEF CalmInv, CalmLoads, Target
  <2> QED BY <2>1, <2>2, <2>3, <2>4 DEF CalmInv, OwnContent, CalmLoads
<1> QED BY <1>2, <1>3

LEMMA SavedContent ==
  ASSUME Content, NEW s \in saves, Saved(s)
  PROVE  Content'
<1> USE DEF Content
<1>1. Inv'
  BY SavedInv
<1>2. /\ s \in Saves /\ s.does = "save" /\ saves' = {} /\ UNCHANGED <<kind, strayed>>
  BY DEF Saved, Inv, OneSave, Types
<1>3. s.of \in Known \cup {New}
  BY <1>2 DEF Saves, Targets, Known
<1>4. ~ strayed => dialog = "form" /\ (s.of = New <=> formMode = "create") /\ s.of = Target
  BY <1>2 DEF Inv, Attended, CalmInv, CalmLoads
<1>5. CASE Continues(s)
  <2>1. Continue /\ UNCHANGED <<dialog, holds, loads, loading>>
    BY <1>5 DEF Saved, Applied
  <2> QED BY <1>1, <1>2, <1>5, <2>1, ContinueContent DEF Sound
<1>6. CASE ~ Continues(s) /\ kind.save.after = "closes"
  <2>1. /\ dialog' = (IF dialog = "form" THEN "none" ELSE dialog)
        /\ UNCHANGED <<formMode, holds, loads>>
    BY <1>6 DEF Saved, Applied
  <2>2. dialog' # "form"
    BY <2>1
  <2>3. SoundInv => SoundInv'
    BY <1>2, <2>1, <2>2 DEF SoundInv, OwnContent, OwnForm, OwnLoads
  <2>4. CalmInv => CalmInv'
    BY <1>2, <2>1, <2>2 DEF CalmInv, OwnContent, CalmLoads
  <2> QED BY <1>1, <1>2, <2>3, <2>4 DEF Sound
<1>7. CASE ~ Continues(s) /\ kind.save.after = "reloads"
  <2> DEFINE n == [of |-> s.of, dropped |-> FALSE]
  <2>1. loads' = Start(s.of) /\ loading' = TRUE /\ UNCHANGED <<dialog, formMode, selected, holds>>
    BY <1>7 DEF Saved, Applied
  <2>2. s.of # New
    BY <1>7, KindFields, ResumesAssumption DEF Inv, OneSave, Continues, Types
  <2>3. /\ n \in Start(s.of) /\ n.of = s.of /\ ~ n.dropped
        /\ \A k \in Start(s.of) : ~ k.dropped => k = n \/ (k \in loads /\ ~ kind.fill.guarded)
    BY <1>3, <2>2, StartedLoads DEF Inv
  <2>4. \A k \in loads : ~ k.dropped /\ k.of = s.of => k = n
    BY DEF Inv, Types, KnownLoads
  <2> HIDE DEF n
  <2>5. ~ Sound
    BY <1>7 DEF Sound
  <2>6. ASSUME ~ strayed' PROVE CalmInv'
    <3>1. CalmInv /\ dialog = "form" /\ formMode = "edit" /\ selected = s.of
      BY <1>2, <1>4, <2>2, <2>6 DEF Target, Inv, Types
    <3>2. \A k \in loads' : ~ k.dropped => k = n
      BY <2>1, <2>3, <2>4, <3>1 DEF CalmInv, CalmLoads
    <3>3. OwnContent'
      BY <1>2 DEF OwnContent
    <3>4. dialog' = "form" => holds' \in {Target', New}
                              \/ (loading' /\ ~ kind'.fill.blanks /\ \E l \in loads' : ~ l.dropped)
      BY <1>2, <2>1, <2>3, <3>1 DEF CalmInv, CalmLoads, Target
    <3> QED BY <1>2, <2>1, <2>3, <3>1, <3>2, <3>3, <3>4 DEF CalmInv, CalmLoads
  <2> QED BY <1>1, <1>2, <2>5, <2>6 DEF Sound
<1>8. CASE ~ Continues(s) /\ kind.save.after = "returns"
  <2>1. /\ formMode' = "edit" /\ selected' = (IF s.of = New THEN Created ELSE s.of) /\ holds' = selected'
        /\ UNCHANGED <<dialog, loads, loading>>
    BY <1>8 DEF Saved, Applied
  <2>2. ASSUME Sound PROVE SoundInv'
    <3>1. loads = {}
      BY <1>8, <2>2, SoundFields DEF Inv, SoundInv, OwnLoads
    <3> QED BY <1>2, <2>1, <3>1 DEF SoundInv, OwnContent, OwnForm, OwnLoads, Target
  <2>3. ASSUME ~ strayed' PROVE CalmInv'
    <3>1. CalmInv /\ dialog = "form"
      BY <1>2, <1>4, <2>3
    <3>2. \A l \in loads : ~ l.dropped => selected = l.of /\ formMode = "edit"
      BY <3>1 DEF CalmInv, CalmLoads
    <3>3. formMode = "edit" => selected' = selected
      BY <1>2, <1>4, <2>1, <2>3 DEF Target
    <3> QED BY <1>2, <2>1, <3>1, <3>2, <3>3 DEF CalmInv, OwnContent, CalmLoads, Target
  <2> QED BY <1>1, <1>2, <2>2, <2>3 DEF Sound
<1> QED BY <1>5, <1>6, <1>7, <1>8, KindFields DEF Inv, Types

LEMMA EndContent ==
  ASSUME Content, NEW s \in saves,
         Removed(s) \/ Refused(s) \/ UploadFails(s) \/ Lost(s)
  PROVE  Content'
<1> USE DEF Content
<1>1. Inv'
  BY EndInv
<1>2. s \in Saves /\ saves' = {} /\ UNCHANGED <<kind, holds, loads, loading>>
  BY DEF Removed, Refused, UploadFails, Lost, Inv, OneSave, Types
<1>3. CASE Removed(s)
  <2>1. /\ s.does = "remove" /\ UNCHANGED <<formMode, strayed>>
        /\ dialog' = (IF dialog = "confirm" THEN "none" ELSE dialog)
        /\ selected' \in {selected, None}
    BY <1>3 DEF Removed, Forget
  <2>2. SoundInv => SoundInv'
    BY <1>2, <2>1 DEF SoundInv, OwnContent, OwnForm, OwnLoads, Target
  <2>3. ASSUME ~ strayed' PROVE CalmInv'
    <3>1. CalmInv /\ dialog = "confirm"
      BY <2>1, <2>3 DEF Inv, Attended
    <3> QED BY <1>2, <2>1, <3>1 DEF CalmInv, OwnContent, CalmLoads
  <2> QED BY <1>1, <1>2, <2>1, <2>2, <2>3 DEF Sound
<1>4. CASE Refused(s)
  <2>1. UNCHANGED <<dialog, formMode, selected, strayed>>
    BY <1>4 DEF Refused
  <2>2. SoundInv => SoundInv'
    BY <1>2, <2>1 DEF SoundInv, OwnContent, OwnForm, OwnLoads, Target
  <2>3. CalmInv => CalmInv'
    BY <1>2, <2>1 DEF CalmInv, OwnContent, CalmLoads, Target
  <2> QED BY <1>1, <1>2, <2>1, <2>2, <2>3 DEF Sound
<1>5. CASE UploadFails(s)
  <2>1. s.does = "save" /\ UNCHANGED <<dialog, strayed>>
    BY <1>5 DEF UploadFails
  <2>2. CASE Continues(s)
    <3>1. Continue
      BY <1>5, <2>2 DEF UploadFails
    <3> QED BY <1>1, <1>2, <2>1, <2>2, <3>1, ContinueContent DEF Sound
  <2>3. CASE ~ Continues(s)
    <3>1. UNCHANGED <<formMode, selected>>
      BY <1>5, <2>3 DEF UploadFails
    <3>2. SoundInv => SoundInv'
      BY <1>2, <2>1, <3>1 DEF SoundInv, OwnContent, OwnForm, OwnLoads, Target
    <3>3. CalmInv => CalmInv'
      BY <1>2, <2>1, <3>1 DEF CalmInv, OwnContent, CalmLoads, Target
    <3> QED BY <1>1, <1>2, <2>1, <3>2, <3>3 DEF Sound
  <2> QED BY <2>2, <2>3
<1>6. CASE Lost(s)
  <2>1. strayed' = TRUE /\ UNCHANGED <<dialog, formMode, selected>>
    BY <1>6 DEF Lost
  <2>2. SoundInv => SoundInv'
    BY <1>2, <2>1 DEF SoundInv, OwnContent, OwnForm, OwnLoads, Target
  <2> QED BY <1>1, <1>2, <2>1, <2>2 DEF Sound
<1> QED BY <1>3, <1>4, <1>5, <1>6

LEMMA ContentNext ==
  ASSUME Content, [Next]_vars
  PROVE  Content'
<1>1. CASE Next
  BY <1>1, OpenCreateContent, CloseContent, PressContent, OpenEditContent, OpenRemoveContent, LoadContent,
     ApplyContent, SavedContent, EndContent DEF Next
<1>2. CASE UNCHANGED vars
  <2>1. Inv'
    BY <1>2, NextInv DEF Content
  <2>2. UNCHANGED <<kind, dialog, formMode, selected, holds, loads, loading, saves, strayed>>
    BY <1>2 DEF vars
  <2> QED BY <2>1, <2>2
          DEF Content, Sound, SoundInv, CalmInv, OwnContent, OwnForm, OwnLoads, CalmLoads, Target
<1> QED BY <1>1, <1>2

\* However many rows there are and whatever is late: a save writes no row's data
\* into another, in the dialogs that drop late answers always, in the others
\* unless something was left alone.
THEOREM SavesAreOwn == Spec => []SavesOwnContent
<1>1. Init => Content
  BY ContentInit
<1>2. Content /\ [Next]_vars => Content'
  BY ContentNext
<1>3. Content => SavesOwnContent
  BY DEF Content, SoundInv, CalmInv, OwnContent, SavesOwnContent
<1> QED BY <1>1, <1>2, <1>3, PTL DEF Spec
=============================================================================
