----------------------------- MODULE PageKinds -----------------------------
(***************************************************************************)
(* What the pages of the web application differ in: the records ListPages  *)
(* and RowDialogs take as a page's or a dialog's "kind", and the records   *)
(* most pages share.  AdminPages, MemberPages and FrontPages name the      *)
(* record of every page.                                                   *)
(***************************************************************************)

LoadKind == [
  \* an answer to a query that is no longer asked is dropped
  drops: BOOLEAN,
  \* a failed load leaves no rows
  clears: BOOLEAN,
  \* another filter returns to page 1: in the same render, in an effect after
  \* the first load has started, or not
  resets: {"with", "after", "never"}]

ActKind == [
  \* after an operation the rows are asked again with the query of the click
  \* ("closure"), its answer brings the rows ("answer"), only the row shown is
  \* changed ("patch"), or there are no operations
  again: {"closure", "answer", "patch", "none"},
  \* some operation removes the row
  removes: BOOLEAN,
  \* a removed row is restored where it is shown, or by its number
  restores: {"no", "shown", "typed"}]

ViewKind == [
  filters: BOOLEAN,   \* there is a filter
  deleted: BOOLEAN,   \* there is a switch that shows the removed rows too
  types: BOOLEAN,     \* the filter is a keyword, asked when its typing pauses
  pages: BOOLEAN,     \* there are pages
  waits: BOOLEAN]     \* turning pages waits for the answer

TableKind == [
  hides: BOOLEAN]     \* rows are hidden while they are loaded

PageKind == [load: LoadKind, acts: ActKind, view: ViewKind, table: TableKind]

-----------------------------------------------------------------------------

FillKind == [
  \* the fields are copied from the row the page has, the dialog opens once the
  \* row's detail has been fetched, or an effect of the open dialog loads them
  fills: {"row", "fetch", "effect"},
  \* the answer of a load made for an earlier dialog is dropped
  guarded: BOOLEAN,
  \* opening empties what a load will fill
  blanks: BOOLEAN,
  \* saving waits for the load
  waits: BOOLEAN]

SaveKind == [
  \* a finished save closes the dialog, loads its row again, or ends by showing
  \* the row it saved
  after: {"closes", "reloads", "returns"},
  \* the requests whose end forgets which row is selected
  forgets: SUBSET {"save", "remove"},
  \* there is no create form; it remembers the row it created, for the steps
  \* that follow, as long as it creates ("once") or whatever it has been opened
  \* on by then ("takes"); it does not remember it
  creates: {"no", "once", "takes", "again"},
  \* a save is several requests: one that fails leaves what was saved before
  steps: BOOLEAN]

\* Every dialog can be closed while its save is under way.
FrameKind == [
  removes: BOOLEAN]   \* there is a confirmation of removals

DialogKind == [fill: FillKind, save: SaveKind, frame: FrameKind]

-----------------------------------------------------------------------------
(* The records most pages share. *)

\* A callback of the query run by an effect: what arrives is shown, whatever is
\* on the screen by then, and every handler of a filter sets page 1.
PlainLoad == [drops |-> FALSE, clears |-> FALSE, resets |-> "with"]

\* The handler's own copy of the loader asks again.
PlainActs == [again |-> "closure", removes |-> TRUE, restores |-> "no"]
AnswerActs == [again |-> "answer", removes |-> TRUE, restores |-> "no"]
NoActs == [again |-> "none", removes |-> FALSE, restores |-> "no"]

TableView == [filters |-> TRUE, pages |-> TRUE, waits |-> FALSE, deleted |-> FALSE, types |-> FALSE]
ButtonsView == [filters |-> FALSE, pages |-> TRUE, waits |-> FALSE, deleted |-> FALSE, types |-> FALSE]
WholeView == [filters |-> FALSE, pages |-> FALSE, waits |-> FALSE, deleted |-> FALSE, types |-> FALSE]

\* "Loading..." stands in the place of the rows.
PlainTable == [hides |-> TRUE]
OpenTable == [hides |-> FALSE]

\* The dialog copies the row it is opened on, or loads what the row lacks.
RowFill == [fills |-> "row", guarded |-> FALSE, blanks |-> TRUE, waits |-> FALSE]
LateFill == [fills |-> "effect", guarded |-> FALSE, blanks |-> TRUE, waits |-> FALSE]
FetchFill == [fills |-> "fetch", guarded |-> FALSE, blanks |-> TRUE, waits |-> FALSE]
TranslationFill == [fills |-> "effect", guarded |-> FALSE, blanks |-> FALSE, waits |-> TRUE]

RowSave == [after |-> "closes", forgets |-> {"save", "remove"}, creates |-> "again", steps |-> FALSE]
UploadSave == [after |-> "closes", forgets |-> {"save", "remove"}, creates |-> "takes", steps |-> TRUE]
EditSave == [after |-> "closes", forgets |-> {"save"}, creates |-> "no", steps |-> FALSE]
TranslationSave == [after |-> "reloads", forgets |-> {}, creates |-> "no", steps |-> FALSE]

PageFrame == [removes |-> TRUE]
PlainFrame == [removes |-> FALSE]
=============================================================================
