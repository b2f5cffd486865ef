----------------------------- MODULE PosDrafts -----------------------------
(***************************************************************************)
(* The point-of-sale pages, on which an administrator or a member builds   *)
(* an order for a customer: the first operation creates a draft order,     *)
(* every operation changes the draft on the server, and the page shows     *)
(* what it reads back.  Three busy flags guard the buttons, each only some *)
(* of them, so operations overlap.  The items of a sale are cleared one    *)
(* request after the other, and the extra charges are sent as a whole list *)
(* made from the draft on the screen.                                      *)
(***************************************************************************)
EXTENDS Naturals, Sequences, FiniteSets, PosPages

CONSTANTS
  Pages,       \* the point-of-sale pages
  Businesses,
  None,
  MaxDrafts,   \* bound: drafts created
  MaxItems,    \* bound: the items that are cleared
  MaxFailures, \* bound: the loads that fail
  MaxActs      \* bound: what the user does

ASSUME PagesAssumption == Pages \subseteq PosPage
ASSUME NoneAssumption == None \notin Businesses \cup Nat \cup SaleOp \cup [id: Nat, v: Nat]
ASSUME BoundsAssumption ==
  {MaxDrafts, MaxItems} \subseteq Nat \ {0} /\ {MaxFailures, MaxActs} \subseteq Nat
\* The lists of charges have a busy flag of their own, which their buttons wait
\* for, and the draft that was changed is shown next.
ASSUME ChargesAssumption ==
  \A p \in Pages : \A op \in p.ops :
    /\ op.replaces <=> op.flag = "charge"
    /\ op.replaces => /\ "charge" \in op.waits /\ op.starts # "new"
                      /\ op.times = "once" /\ ~op.leaves
                      /\ op.answers \/ p.reads = "order"
\* What is cleared item by item is the draft there is, and read back at the end.
ASSUME ItemsAssumption ==
  \A p \in Pages : \A op \in p.ops :
    op.times # "once" => op.starts = "work" /\ ~op.answers /\ ~op.leaves

VARIABLES
  page,      \* the page; it never changes
  server,    \* the drafts: their business, and how often each has changed
  business,  \* the business on the screen
  draft,     \* the draft shown: its number and version
  order,     \* the number of the draft the page works on
  busy,      \* the busy flags that are up
  reqs,      \* the requests under way
  acked,     \* history: the version of each draft the page knows it has written
  charged,   \* history: that of the last list of charges it knows to be accepted
  unread,    \* history: drafts whose first operation was not read back
  twice,     \* history: a draft was created although another one was shown or loaded
  crossed,   \* history: an answer was applied after its business or draft had been left
  reordered, \* history: an answer replaced a newer one
  partly,    \* history: an item could not be cleared after another one had been
  failed,    \* how many loads have failed
  acts

vars == <<page, server, business, draft, order, busy, reqs, acked, charged, unread,
          twice, crossed, reordered, partly, failed, acts>>

-----------------------------------------------------------------------------

Numbers == 1 .. MaxDrafts
Known == DOMAIN server
Request(n, op, phase, id) ==
  [n |-> n, op |-> op, phase |-> phase, id |-> id, at |-> order, business |-> business,
   base |-> None, part |-> 1, served |-> FALSE, v |-> 0, left |-> FALSE]
Nothing == [d \in Numbers |-> 0]

\* A page is opened on a draft (by its address) or on none.
Init ==
  /\ page \in Pages /\ business \in Businesses
  /\ draft = None
  /\ \/ server = <<>> /\ order = None /\ reqs = {}
     \/ /\ server = <<[business |-> business, v |-> 0]>>
        /\ order = IF page.reads = "known" THEN 1 ELSE None
        /\ reqs = {Request(0, None, "reload", 1)}
  /\ busy = {} /\ acked = Nothing /\ charged = Nothing /\ unread = {}
  /\ twice = FALSE /\ crossed = FALSE /\ reordered = FALSE /\ partly = FALSE
  /\ failed = 0 /\ acts = 0

-----------------------------------------------------------------------------
(* The user. *)

Acts == acts < MaxActs /\ acts' = acts + 1

\* ensureDraftOrder: the draft shown, the one the page works on once it has
\* been loaded, or a new one.
Ensures ==
  IF draft # None /\ server[draft.id].business = business THEN [phase |-> "work", id |-> draft.id]
  ELSE IF page.reads = "known" /\ order # None THEN [phase |-> "refresh", id |-> order]
  ELSE [phase |-> "create", id |-> None]

\* What an operation asks for first.  There may be no items to clear.
Firsts(op) ==
  CASE op.starts = "new" -> {[phase |-> "create", id |-> None]}
    [] op.starts = "ensure" -> {Ensures}
    [] op.starts = "work" -> {[phase |-> "work", id |-> order]}
                             \cup IF op.times = "any" THEN {[phase |-> "reload", id |-> order]} ELSE {}

\* A button is pressed.  A list of charges is made from the draft shown, before
\* anything else is done.
Press(op) ==
  /\ op \in page.ops /\ op.waits \cap busy = {} /\ Acts
  /\ op.needs => draft # None
  /\ op.starts = "work" => order # None
  /\ busy' = busy \cup {op.flag}
  /\ \E first \in Firsts(op) :
       reqs' = reqs \cup {[Request(acts', op, first.phase, first.id) EXCEPT
                           !.base = IF op.replaces THEN draft ELSE None]}
  /\ UNCHANGED <<page, server, business, draft, order, acked, charged, unread,
                 twice, crossed, reordered, partly, failed>>

Leave(rs) == {[r EXCEPT !.left = TRUE] : r \in rs}

\* handleBusinessChange
ChangeBusiness(b) ==
  /\ page.changes /\ b # business /\ Acts
  /\ business' = b /\ draft' = None /\ order' = None
  /\ reqs' = Leave(reqs) /\ acked' = Nothing /\ charged' = Nothing
  /\ UNCHANGED <<page, server, busy, unread, twice, crossed, reordered, partly, failed>>

-----------------------------------------------------------------------------
(* The server. *)

Serve(r) ==
  /\ ~r.served
  /\ server' = CASE r.phase = "create" -> Append(server, [business |-> r.business, v |-> 0])
                 [] r.phase = "work" -> [server EXCEPT ![r.id].v = @ + 1]
                 [] OTHER -> server
  /\ Len(server') <= MaxDrafts
  \* a draft is found only under its own business
  /\ r.phase # "create" => server[r.id].business = r.business
  /\ LET id == IF r.phase = "create" THEN Len(server') ELSE r.id
     IN reqs' = (reqs \ {r}) \cup {[r EXCEPT !.served = TRUE, !.id = id, !.v = server'[id].v]}
  /\ UNCHANGED <<page, business, draft, order, busy, acked, charged, unread,
                 twice, crossed, reordered, partly, failed, acts>>

-----------------------------------------------------------------------------
(* The answers. *)

\* The draft an answer shows, in the place of the one shown before.
Shows(r) ==
  /\ draft' = [id |-> r.id, v |-> r.v]
  /\ crossed' = (crossed \/ r.left)
  /\ reordered' = (reordered \/ (draft # None /\ draft.id = r.id /\ r.v < draft.v))

Ends(r) == IF r.op = None THEN busy ELSE busy \ {r.op.flag}

\* The next request of r's operation.
Then(r, phase, id) == [r EXCEPT !.phase = phase, !.id = id, !.served = FALSE, !.v = 0]

\* An effect loads the draft the page works on where another business is shown.
Effect(r) ==
  IF page.reads = "known" /\ business # r.business
  THEN {[Request(r.n, None, "reload", r.id) EXCEPT !.left = TRUE]} ELSE {}

\* A draft has been created: for an operation that goes on with it, or by the
\* button that starts another one.
Created(r) ==
  /\ r.phase = "create" /\ r.served
  /\ Shows(r) /\ order' = r.id
  /\ IF r.op.starts = "new"
     THEN /\ reqs' = Leave(reqs \ {r}) \cup Effect(r)
          /\ busy' = Ends(r) /\ acked' = Nothing /\ charged' = Nothing /\ UNCHANGED twice
     ELSE /\ reqs' = (reqs \ {r}) \cup {Then(r, "work", r.id)} \cup Effect(r)
          /\ twice' = (twice \/ draft # None \/ \E q \in reqs : q.op = None /\ ~q.left)
          /\ UNCHANGED <<busy, acked, charged>>
  /\ UNCHANGED <<page, server, business, unread, partly, failed, acts>>

\* refreshDraftOrder, loadOrderDetail: what is read selects its draft and its business.
Loaded(r) ==
  /\ r.phase \in {"refresh", "reload"} /\ r.served
  /\ Shows(r) /\ order' = r.id /\ business' = server[r.id].business
  /\ unread' = IF r.v >= acked[r.id] THEN unread \ {r.id} ELSE unread
  /\ IF r.phase = "refresh"
     THEN reqs' = (reqs \ {r}) \cup {Then(r, "work", r.id)} /\ UNCHANGED busy
     ELSE reqs' = reqs \ {r} /\ busy' = Ends(r)
  /\ UNCHANGED <<page, server, acked, charged, twice, partly, failed, acts>>

\* Mutant of ReadBack: every page reads the draft it had when the button was pressed.
ReadKnown(r) == r.at

\* The draft read after an operation: the one it worked on, or the one the page
\* had when the button was pressed, if any.
ReadBack(r) == IF page.reads = "order" THEN r.id ELSE r.at

\* What the page learns from the answer to its change of a draft.
Acknowledged(r) ==
  /\ acked' = IF r.left THEN acked ELSE [acked EXCEPT ![r.id] = IF r.v > @ THEN r.v ELSE @]
  /\ charged' = IF r.left \/ ~r.op.replaces THEN charged ELSE [charged EXCEPT ![r.id] = r.v]

\* handleClearItems: an item is cleared after the other.
NextItem(r) ==
  /\ r.phase = "work" /\ r.served /\ r.op.times # "once" /\ r.part < MaxItems
  /\ Acknowledged(r)
  /\ reqs' = (reqs \ {r}) \cup {[Then(r, "work", r.id) EXCEPT !.part = @ + 1]}
  /\ UNCHANGED <<page, server, business, draft, order, busy, unread,
                 twice, crossed, reordered, partly, failed, acts>>

Worked(r) ==
  /\ r.phase = "work" /\ r.served
  /\ UNCHANGED <<page, server, business, twice, partly, failed, acts>>
  /\ IF r.op.leaves
     THEN \* finalized: the page is left, and opened anew for the next sale
          /\ draft' = None /\ order' = None /\ busy' = {} /\ reqs' = {} /\ unread' = {}
          /\ acked' = Nothing /\ charged' = Nothing
          /\ UNCHANGED <<crossed, reordered>>
     ELSE /\ Acknowledged(r)
          /\ UNCHANGED order
          /\ IF r.op.answers
             THEN /\ Shows(r) /\ reqs' = reqs \ {r} /\ busy' = Ends(r)
                  /\ unread' = IF r.v >= acked[r.id] THEN unread \ {r.id} ELSE unread
             ELSE LET id == ReadBack(r)
                  IN /\ UNCHANGED <<draft, crossed, reordered>>
                     /\ IF id # None
                        THEN reqs' = (reqs \ {r}) \cup {Then(r, "reload", id)} /\ UNCHANGED <<busy, unread>>
                        ELSE /\ reqs' = reqs \ {r} /\ busy' = Ends(r)
                             /\ unread' = IF page.reads = "known" THEN unread \cup {r.id} ELSE unread

\* The server refuses, or its answer is lost: the operation ends, and what it had
\* cleared before is not read back.
Refused(r) ==
  /\ r.phase \in {"create", "work"}
  /\ reqs' = reqs \ {r} /\ busy' = Ends(r)
  /\ partly' = (partly \/ r.part > 1)
  /\ UNCHANGED <<page, server, business, draft, order, acked, charged, unread,
                 twice, crossed, reordered, failed, acts>>

\* A failed load makes the member's page forget its draft, and an operation
\* that was waiting for it creates another one.
LoadFails(r) ==
  /\ r.phase \in {"refresh", "reload"}
  /\ failed < MaxFailures \/ server[r.id].business # r.business
  /\ failed' = IF failed < MaxFailures THEN failed + 1 ELSE failed
  /\ IF page.forgets THEN draft' = None /\ order' = None ELSE UNCHANGED <<draft, order>>
  /\ IF r.phase = "refresh"
     THEN reqs' = (reqs \ {r}) \cup {Then(r, "create", None)} /\ UNCHANGED busy
     ELSE reqs' = reqs \ {r} /\ busy' = Ends(r)
  /\ UNCHANGED <<page, server, business, acked, charged, unread,
                 twice, crossed, reordered, partly, acts>>

-----------------------------------------------------------------------------
Next ==
  \/ \E op \in page.ops : Press(op)
  \/ \E b \in Businesses : ChangeBusiness(b)
  \/ \E r \in reqs : \/ Serve(r) \/ Created(r) \/ Loaded(r) \/ NextItem(r) \/ Worked(r)
                     \/ Refused(r) \/ LoadFails(r)

Spec == Init /\ [][Next]_vars

-----------------------------------------------------------------------------
(* Properties *)

\* All acknowledged operations went to the draft shown, and the page has read
\* them back.
AddedIsShown ==
  \A d \in Numbers \ unread : acked[d] > 0 => draft # None /\ draft.id = d /\ draft.v >= acked[d]

\* A list of charges on its way was made from the draft it goes to, as it was
\* when it had every charge accepted before.
ChargesAreKept ==
  \A r \in reqs : r.op # None /\ r.phase = "work" /\ ~r.left =>
    /\ r.base # None => r.base.id = r.id
    /\ r.op.replaces /\ charged[r.id] > 0 => r.base # None /\ r.base.v >= charged[r.id]

\* What the seller has added is on the screen once everything is answered, and a
\* list of charges that replaces another takes up all that were accepted from
\* this page.  Only five things break it: a load that failed, items that were
\* cleared before one that could not be, a second draft created by two first
\* operations under different busy flags or before the page's own draft has been
\* loaded, an answer asked for before another business or draft was chosen, and
\* an answer that overtook a newer one; and on the member's page the operation
\* that created the draft is not read back.  The charges a draft had when the
\* page was opened on it are not among those kept: a list sent before they have
\* been loaded replaces them.
LinesAreShown ==
  failed = 0 /\ ~partly /\ ~twice /\ ~crossed /\ ~reordered =>
    (reqs = {} => AddedIsShown) /\ ChargesAreKept
=============================================================================
