------------------------------ MODULE ListPages ------------------------------
(***************************************************************************)
(* A page of the web application that lists rows: it asks the server for   *)
(* the rows of its query (filter and page number), shows the answer, and   *)
(* runs operations on single rows, after which it asks again.  The pages   *)
(* (AdminPages, MemberPages, FrontPages) differ in what they do with a     *)
(* late or failed answer, with which query they ask again, and what the    *)
(* view lets the user do meanwhile: the record "kind" of the page.         *)
(*                                                                         *)
(* Rows are listed in the order of their numbers, one to a page where the  *)
(* list has pages; a removed row stays on the server, and some pages have  *)
(* a switch that lists it too, and restore it.  A page whose filter is a   *)
(* typed keyword asks when the typing has paused: it searches for what the *)
(* keyword finds, and then asks for those rows.  Forms and dialogs, whose  *)
(* content may belong to another row, are the subject of RowDialogs.       *)
(***************************************************************************)
EXTENDS Naturals, FiniteSets, PageKinds

CONSTANTS
  Rows,     \* numbers of the rows
  Hits,     \* the rows the filter "some" matches
  Kinds,    \* the pages
  Slots,    \* bound: the requests for rows under way
  MaxPage,  \* bound: the page numbers the user turns to
  MaxOps,   \* bound: the operations under way
  MaxActs,  \* bound: what the user does
  None

ASSUME RowsAssumption == Rows \subseteq Nat /\ IsFiniteSet(Rows) /\ Hits \subseteq Rows
\* A page with a typed keyword drops what is late and has no operations.
ASSUME KindsAssumption ==
  /\ Kinds \subseteq PageKind
  /\ \A k \in Kinds : k.view.types => k.load.drops /\ k.acts.again = "none"
ASSUME BoundsAssumption == MaxPage \in Nat \ {0} /\ MaxOps \in Nat /\ MaxActs \in Nat /\ Slots \subseteq Nat

VARIABLES
  kind,     \* the page; it never changes
  live,     \* the rows on the server that are not removed
  query,    \* the query on the screen
  loads,    \* the requests for rows under way
  shown,    \* the rows shown and the query they answer
  loading,
  error,
  box,      \* the keyword typed and what it waits for
  ops,      \* the operations under way
  mixed,    \* history: requests for rows overlapped since the page was last at rest
  gone,     \* history: the rows this page knows it removed
  acts      \* what the user has done so far

vars == <<kind, live, query, loads, shown, loading, error, box, ops, mixed, gone, acts>>

-----------------------------------------------------------------------------

\* "rest" is another keyword, "deleted" is all rows, those removed too.
Filters == {"all", "some", "rest", "deleted"}
Keywords == {"all", "some", "rest"}
Query == [filter: Filters, page: 1 .. MaxPage]
Matches(rows, f) ==
  CASE f = "some" -> rows \cap Hits
    [] f = "rest" -> rows \ Hits
    [] f = "deleted" -> Rows
    [] OTHER -> rows

\* What the page's controls can ask for, where nothing is typed.
Offered ==
  IF kind.view.types THEN {}
  ELSE {"all"} \cup (IF kind.view.filters THEN {"some"} ELSE {}) \cup (IF kind.view.deleted THEN {"deleted"} ELSE {})

\* What a server that has these rows answers: those of a page of the list, and
\* how many pages there are.
Answer(rows, q) ==
  LET found == Matches(rows, q.filter)
  IN {r \in found : kind.view.pages => Cardinality({s \in found : s <= r}) = q.page}
Total(f) == Cardinality(Matches(live, f))

Load == [query: Query, served: BOOLEAN, rows: SUBSET Rows, pages: Nat, dropped: BOOLEAN, effect: BOOLEAN,
         search: BOOLEAN]
ASSUME NoneAssumption == None \notin Load

Busy(i) == loads[i] # None
NextFree(i) == ~Busy(i) /\ \A j \in Slots : j < i => Busy(j)
Awaited(i) == Busy(i) /\ ~loads[i].dropped
Searching == \E i \in Slots : Awaited(i) /\ loads[i].search
AtRest == (\A i \in Slots : ~Busy(i)) /\ ops = {} /\ ~box.pending

\* The keyword in the box, the timer that waits for a pause, the flag a
\* keystroke raises, and (history) the timer has ended on the keyword already
\* applied, when nothing was being searched.
Box == [typed: Keywords, timer: BOOLEAN, pending: BOOLEAN, same: BOOLEAN]

\* An operation on a row, asked for when the query was "at".
Does == {"remove", "edit", "restore"}
Op == [row: Rows, does: Does, at: Query, applied: BOOLEAN, left: SUBSET Rows]

Fresh(q, effect) ==
  [query |-> q, served |-> FALSE, rows |-> {}, pages |-> 0, dropped |-> FALSE, effect |-> effect,
   search |-> FALSE]

\* Start without the effect's cleanup.
StartUnguarded(q, effect, i) == [loads EXCEPT ![i] = Fresh(q, effect)]

\* The loads once another one, of query q, has started.  A load that an effect
\* starts runs the cleanup of the effect's previous one.
Start(q, effect, i) ==
  [j \in Slots |->
     CASE j = i -> Fresh(q, effect)
       [] j # i /\ Busy(j) /\ kind.load.drops /\ effect /\ loads[j].effect -> [loads[j] EXCEPT !.dropped = TRUE]
       [] OTHER -> loads[j]]

\* Whether a load that starts now overlaps with what is under way.
Overlaps == ops # {} \/ \E i \in Slots : Awaited(i)

Init ==
  /\ kind \in Kinds
  /\ live = Rows
  /\ query = [filter |-> "all", page |-> 1]
  /\ \E i \in Slots :
       /\ \A j \in Slots : i <= j
       /\ loads = [j \in Slots |-> IF j = i THEN Fresh(query, TRUE) ELSE None]
  /\ shown = [query |-> query, rows |-> {}, pages |-> 0]
  /\ loading = TRUE
  /\ error = FALSE
  /\ box = [typed |-> "all", timer |-> FALSE, pending |-> FALSE, same |-> FALSE]
  /\ ops = {}
  /\ mixed = FALSE
  /\ gone = {}
  /\ acts = 0

-----------------------------------------------------------------------------
(* The user's query. *)

\* The user does something.
Acts == acts < MaxActs /\ acts' = acts + 1

Ask(q) ==
  /\ Acts
  /\ query' = q
  /\ \E i \in Slots : NextFree(i) /\ loads' = Start(q, TRUE, i)
  /\ loading' = TRUE
  /\ error' = FALSE
  /\ mixed' = Overlaps
  /\ UNCHANGED <<kind, live, shown, box, ops, gone>>

Filter(f) ==
  /\ f \in Offered \ {query.filter}
  /\ kind.load.resets = "after" => query.page = 1
  /\ Ask([filter |-> f, page |-> IF kind.load.resets = "with" THEN 1 ELSE query.page])

\* The render of the new filter starts a load of the old page number, and an
\* effect sets page 1, whose render starts the load of page 1.
FilterThenReset(f) ==
  /\ Acts
  /\ f \in Offered \ {query.filter}
  /\ kind.load.resets = "after" /\ query.page # 1
  /\ query' = [filter |-> f, page |-> 1]
  /\ \E i, j \in Slots :
       /\ NextFree(i) /\ i # j /\ ~Busy(j)
       /\ loads' = [Start(query', TRUE, i) EXCEPT
            ![j] = [Fresh([query EXCEPT !.filter = f], TRUE) EXCEPT !.dropped = kind.load.drops]]
  /\ loading' = TRUE
  /\ error' = FALSE
  /\ mixed' = TRUE
  /\ UNCHANGED <<kind, live, shown, box, ops, gone>>

Turn(p) ==
  /\ kind.view.pages /\ p \in 1 .. MaxPage
  /\ p + 1 = query.page \/ (p = query.page + 1 /\ p <= shown.pages)
  /\ kind.view.waits => ~loading
  /\ Ask([query EXCEPT !.page = p])

-----------------------------------------------------------------------------
(* The typed keyword. *)

\* A load of the rows of this filter starts in the place of any other.
Again(f) ==
  /\ query' = [query EXCEPT !.filter = f]
  /\ \E i \in Slots : NextFree(i) /\ loads' = Start(query', TRUE, i)
  /\ loading' = TRUE
  /\ error' = FALSE
  /\ mixed' = Overlaps

\* An empty keyword is applied at once.
Clear ==
  /\ Acts
  /\ kind.view.types /\ box.typed # "all"
  /\ box' = [typed |-> "all", timer |-> FALSE, pending |-> FALSE, same |-> FALSE]
  /\ Again("all")
  /\ UNCHANGED <<kind, live, shown, ops, gone>>

\* The first keystroke after a rest takes back the request for rows: they are
\* asked for again without a keyword, and with one not before its search ends.
Type(f) ==
  /\ Acts
  /\ kind.view.types /\ f \in Keywords \ {"all", box.typed}
  /\ box' = [typed |-> f, timer |-> TRUE, pending |-> TRUE, same |-> FALSE]
  /\ \/ box.pending /\ UNCHANGED <<query, loads, loading, error, mixed>>
     \/ ~box.pending /\ query.filter = "all" /\ Again("all")
     \/ /\ ~box.pending /\ query.filter # "all"
        /\ loads' = [j \in Slots |-> IF Busy(j) THEN [loads[j] EXCEPT !.dropped = TRUE] ELSE None]
        /\ UNCHANGED <<query, loading, error, mixed>>
  /\ UNCHANGED <<kind, live, shown, ops, gone>>

\* Another keyword is applied, and searched for.
Search ==
  /\ query' = [query EXCEPT !.filter = box.typed]
  /\ \E i \in Slots : NextFree(i) /\ loads' = [Start(query', TRUE, i) EXCEPT ![i].search = TRUE]
  /\ loading' = TRUE
  /\ error' = FALSE
  /\ mixed' = Overlaps

\* The keyword already applied is not applied again: nothing is searched.
TimerEnds ==
  /\ kind.view.types /\ box.timer
  /\ \/ /\ box.typed = query.filter
        /\ box' = [box EXCEPT !.timer = FALSE, !.same = box.pending /\ ~Searching]
        /\ UNCHANGED <<query, loads, loading, error, mixed>>
     \/ /\ box.typed # query.filter
        /\ box' = [box EXCEPT !.timer = FALSE]
        /\ Search
  /\ UNCHANGED <<kind, live, shown, ops, gone, acts>>

\* The button applies the keyword at once and leaves the timer running.
Submit ==
  /\ Acts
  /\ kind.view.types /\ box.typed # query.filter
  /\ Search
  /\ UNCHANGED <<kind, live, shown, box, ops, gone>>

-----------------------------------------------------------------------------
(* The answers. *)

Serve(i) ==
  /\ Busy(i) /\ ~loads[i].served
  /\ loads' = [loads EXCEPT ![i].served = TRUE, ![i].rows = Answer(live, loads[i].query),
                            ![i].pages = Total(loads[i].query.filter)]
  /\ UNCHANGED <<kind, live, query, shown, loading, error, box, ops, mixed, gone, acts>>

\* loading is one flag: the first load to end puts it out for all.
Ends(i) ==
  /\ loads' = [loads EXCEPT ![i] = None]
  /\ loading' = FALSE

\* The flag of the keystrokes goes out with any search that ends.
Found(i) ==
  /\ Busy(i) /\ loads[i].search /\ ~loads[i].dropped /\ loads[i].served
  /\ loads' = [loads EXCEPT ![i] = Fresh(loads[i].query, TRUE)]
  /\ box' = [box EXCEPT !.pending = FALSE]
  /\ UNCHANGED <<kind, live, query, shown, loading, error, ops, mixed, gone, acts>>

Receive(i) ==
  LET l == loads[i]
  IN /\ Busy(i) /\ l.served
     /\ \/ /\ l.dropped
           /\ loads' = [loads EXCEPT ![i] = None]
           /\ UNCHANGED <<shown, loading>>
        \/ /\ ~l.dropped /\ ~l.search
           /\ shown' = [query |-> l.query, rows |-> l.rows, pages |-> l.pages]
           /\ Ends(i)
     /\ UNCHANGED <<kind, live, query, error, box, ops, mixed, gone, acts>>

\* Fail without the "finally" that puts the flag out.
FailSilently(i) ==
  /\ Busy(i)
  /\ loads' = [loads EXCEPT ![i] = None]
  /\ error' = (error \/ ~loads[i].dropped)
  /\ UNCHANGED <<kind, live, query, shown, loading, box, ops, mixed, gone, acts>>

\* Where a search fails nothing is found.
Fail(i) ==
  LET l == loads[i]
  IN /\ Busy(i)
     /\ \/ /\ l.dropped
           /\ loads' = [loads EXCEPT ![i] = None]
           /\ UNCHANGED <<shown, loading, error, box>>
        \/ /\ ~l.dropped
           /\ Ends(i)
           /\ error' = TRUE
           /\ shown' = IF kind.load.clears \/ l.search THEN [shown EXCEPT !.rows = {}, !.pages = 0] ELSE shown
           /\ box' = [box EXCEPT !.pending = @ /\ ~l.search]
     /\ UNCHANGED <<kind, live, query, ops, mixed, gone, acts>>

-----------------------------------------------------------------------------
(* Operations on a row: a click, the server's work, and the answer. *)

RowsVisible == kind.table.hides => ~loading

\* What the page lets the user do to a row: to one it shows, or to restore the
\* one whose number is typed in.
Acting(r, does) ==
  \/ does = "restore" /\ kind.acts.restores = "typed"
  \/ /\ RowsVisible /\ r \in shown.rows
     /\ does = "remove" => kind.acts.removes
     /\ does = "restore" => kind.acts.restores = "shown" /\ shown.query.filter = "deleted"

Act(r, does) ==
  /\ Acts
  /\ kind.acts.again # "none" /\ Acting(r, does)
  /\ Cardinality(ops) < MaxOps
  /\ \A o \in ops : o.row # r
  /\ ops' = ops \cup {[row |-> r, does |-> does, at |-> query, applied |-> FALSE, left |-> {}]}
  /\ UNCHANGED <<kind, live, query, loads, shown, loading, error, box, mixed, gone>>

Apply(o) ==
  /\ ~o.applied /\ (o.does = "restore" <=> o.row \notin live)
  /\ live' = CASE o.does = "remove" -> live \ {o.row}
              [] o.does = "restore" -> live \cup {o.row}
              [] OTHER -> live
  /\ gone' = gone \ live'
  /\ ops' = (ops \ {o}) \cup {[o EXCEPT !.applied = TRUE,
                                         !.left = IF kind.acts.again = "answer" THEN Answer(live', o.at) ELSE {}]}
  /\ UNCHANGED <<kind, query, loads, shown, loading, error, box, mixed, acts>>

\* The handler's copy of the loader asks what was asked when it was clicked.
Reload(o, i) ==
  /\ NextFree(i)
  /\ loads' = Start(o.at, FALSE, i)
  /\ loading' = TRUE
  /\ error' = FALSE
  /\ mixed' = (mixed \/ o.at # query \/ ops # {o} \/ \E j \in Slots : Awaited(j))
  /\ UNCHANGED shown

\* Patch of an edit only.
PatchEdited(o) ==
  /\ mixed' = (mixed \/ \E j \in Slots : Awaited(j))
  /\ UNCHANGED <<shown, loads, loading, error>>

Patch(o) ==
  /\ shown' = IF o.does = "remove" THEN [shown EXCEPT !.rows = @ \ {o.row}] ELSE shown
  /\ mixed' = (mixed \/ \E j \in Slots : Awaited(j))
  /\ UNCHANGED <<loads, loading, error>>

\* The answer to an operation is the list it left.
ShowLeft(o) ==
  /\ shown' = [shown EXCEPT !.query = o.at, !.rows = o.left]
  /\ mixed' = (mixed \/ o.at # query \/ ops # {o} \/ \E j \in Slots : Awaited(j))
  /\ UNCHANGED <<loads, loading, error>>

Done(o) ==
  /\ o.applied
  /\ ops' = ops \ {o}
  /\ gone' = IF o.does = "remove" THEN gone \cup ({o.row} \ live) ELSE gone
  /\ \/ kind.acts.again = "patch" /\ Patch(o)
     \/ kind.acts.again = "answer" /\ ShowLeft(o)
     \/ kind.acts.again = "closure" /\ \E i \in Slots : Reload(o, i)
  /\ UNCHANGED <<kind, live, query, box, acts>>

\* The server refuses, or its answer is lost: the user is told, nothing is asked again.
Refused(o) ==
  /\ ops' = ops \ {o}
  /\ UNCHANGED <<kind, live, query, loads, shown, loading, error, box, mixed, gone, acts>>

\* Another user removes a row, or restores one.
OtherUser(r) ==
  /\ r \in live \/ kind.acts.restores # "no"
  /\ live' = IF r \in live THEN live \ {r} ELSE live \cup {r}
  /\ gone' = gone \ live'
  /\ UNCHANGED <<kind, query, loads, shown, loading, error, box, ops, mixed, acts>>

-----------------------------------------------------------------------------
Next ==
  \/ \E f \in Filters : Filter(f) \/ FilterThenReset(f)
  \/ \E p \in 1 .. MaxPage : Turn(p)
  \/ Clear \/ Submit \/ TimerEnds \/ \E f \in Keywords : Type(f)
  \/ \E i \in Slots : Serve(i) \/ Found(i) \/ Receive(i) \/ Fail(i)
  \/ \E r \in Rows : OtherUser(r) \/ \E does \in Does : Act(r, does)
  \/ \E o \in ops : Apply(o) \/ Done(o) \/ Refused(o)

\* The browser ends every request, with an answer or an error, and every timer.
Fairness ==
  /\ \A i \in Slots : WF_vars(Found(i) \/ Receive(i) \/ Fail(i))
  /\ WF_vars(TimerEnds)

Spec == Init /\ [][Next]_vars /\ Fairness

-----------------------------------------------------------------------------
(* Properties *)

TypeOK ==
  /\ kind \in Kinds
  /\ live \in SUBSET Rows /\ gone \in SUBSET Rows
  /\ query \in Query
  /\ loads \in [Slots -> Load \cup {None}]
  /\ shown \in [query: Query, rows: SUBSET Rows, pages: Nat]
  /\ loading \in BOOLEAN /\ error \in BOOLEAN /\ mixed \in BOOLEAN
  /\ box \in Box
  /\ ops \in SUBSET Op
  /\ acts \in 0 .. MaxActs

\* Requests that overlap can end in any order, unless late answers are dropped
\* and no operation's answer or reload comes between.
Robust == kind.load.drops /\ kind.acts.again = "none"
Orderly == Robust \/ ~mixed

\* When nothing is under way, the rows on the screen answer the query on the
\* screen: only requests that overlapped can leave the rows of an earlier
\* filter or page under the controls of another, and never where late answers
\* are dropped (the guard of a loader, the dependencies of its effect).
RowsAnswerQuery == AtRest /\ ~error /\ Orderly => shown.query = query

\* A row this page removed, and nobody restored, does not stay among rows asked
\* for without the removed ones: the reload after the operation reads what the
\* operation left.
RemovedIsGone ==
  AtRest /\ ~error /\ Orderly /\ shown.query.filter # "deleted" => shown.rows \cap gone = {}

\* A page does not show "loading" forever: once the user asks nothing more,
\* every way a load can end puts the flag out, but for rows acted on meanwhile.
\* One way leaves it up: a keyword typed back to the one already applied before
\* the timer ends, for then nothing is searched, and only the end of a search
\* puts out the flag the keystrokes raised.
LoadingShown == loading \/ box.pending
LoadingEnds == LoadingShown ~> ~LoadingShown \/ ops # {} \/ box.same
=============================================================================
