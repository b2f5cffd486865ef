---------------------------- MODULE OrderScreens ----------------------------
(***************************************************************************)
(* The screens of the web application that show one order and work on it:  *)
(* the detail dialogs of the administrators' and the members' order lists, *)
(* the two delivery pages, the customer's order page and the guest's       *)
(* checkout.  OrderPages lists what each of them does.                     *)
(*                                                                         *)
(* An operation goes to the order on the screen, with fields some of which *)
(* were filled from an order, and is followed by loads of the order and of *)
(* its shipments.  Nothing orders the answers: those of an operation       *)
(* arrive while another is under way, and in the dialogs after the dialog  *)
(* has been opened on another order.                                       *)
(***************************************************************************)
EXTENDS Naturals, Sequences, SequencesExt, OrderPages

CONSTANTS
  Orders,
  Screens,   \* the screens
  None,
  MaxUnderWay, \* bound: the requests under way when the user acts
  MaxFailures, \* bound: the requests that fail
  MaxActs      \* bound: dialogs opened, operations sent, changes made elsewhere

ASSUME ScreensAssumption == Screens \subseteq Screen
\* The page that polls is no dialog and has one copy of the order; one that
\* shows no shipments does not change them either.  An operation of several
\* requests changes the order, on a page that does not poll.
ASSUME PartsAssumption ==
  \A s \in Screens : /\ s.polls => ~s.frame.modal /\ ~s.copies
                     /\ s.panel.loads = "none" => \A op \in s.ops : ~op.panel
                     /\ \A op \in s.ops : op.parts > 1 => op.order /\ ~op.panel /\ ~s.polls
ASSUME OrdersAssumption == None \notin Orders \cup Operation \cup [of : Orders, v : Nat]
ASSUME BoundsAssumption == {MaxActs, MaxUnderWay, MaxFailures} \subseteq Nat

VARIABLES
  screen,    \* the screen; it never changes
  server,    \* how often each order, and its shipments, have changed
  asked,     \* the order the dialog is open on
  held,      \* the order as the page has loaded it
  local,     \* the dialog's own copy of it
  panel,     \* the shipments shown
  forms,     \* the order each form that is open was filled from
  loading,
  reqs,      \* the requests under way, in the order they were started
  saved,     \* history: the versions this screen knows it has written
  crossed,   \* history: an answer asked for before the dialog was closed was applied
  reordered, \* history: an answer was applied after that of a later request
  partly,    \* history: a request of an operation failed after an earlier one of it
  failed,    \* how many loads have failed
  acts

vars == <<screen, server, asked, held, local, panel, forms, loading, reqs, saved,
          crossed, reordered, partly, failed, acts>>

-----------------------------------------------------------------------------

Versions == [order: Nat, panel: Nat]
Zero == [order |-> 0, panel |-> 0]
Copy == [of: Orders, v: Nat]
IdOf(x) == IF x = None THEN None ELSE x.of

\* The order the page gives the dialog, and the one the dialog shows.
Prop(a, h) == IF a = None THEN None ELSE h
Shown(p, l) == IF l # None THEN l ELSE p
prop == Prop(asked, held)
shown == Shown(prop, local)

\* Where a request comes from: the dialog's order, the page's copy and the order
\* shown at the moment the user acted, which its closures keep.
Here == [page |-> asked, own |-> IdOf(prop), at |-> IdOf(shown), left |-> FALSE]
Request(what, of, op, from, then) ==
  [what |-> what, of |-> of, op |-> op, page |-> from.page, own |-> from.own, at |-> from.at, left |-> from.left,
   then |-> then, fields |-> None, part |-> 1, served |-> FALSE, v |-> Zero, rows |-> FALSE,
   dropped |-> FALSE, late |-> FALSE]
Detail(o) == Request("detail", o, None, [page |-> o, own |-> None, at |-> None, left |-> FALSE], <<>>)

\* What the user does is counted, an operation twice.
Acts(n) == acts + n <= MaxActs /\ acts' = acts + n /\ Len(reqs) <= MaxUnderWay

\* What remains of the requests once the order on the screen is another one,
\* and the load of its shipments that an effect starts.
Follows(rs, a, d, from) ==
  IF screen.panel.loads # "effect" \/ (d = IdOf(shown) /\ (a = None) = (asked = None)) THEN rs
  ELSE [j \in DOMAIN rs |->
          [rs[j] EXCEPT !.dropped = @ \/ (rs[j].what = "panel" /\ rs[j].op = None /\ screen.panel.guards)]]
       \o IF a = None \/ d = None THEN <<>> ELSE <<Request("panel", d, None, from, <<>>)>>

\* The page shows order h in a dialog open on a, whose own copy is l: an effect
\* of the order's id replaces that copy, another loads the shipments.
Renders(a, h, l, rs) ==
  LET p == Prop(a, h)
      copy == IF ~screen.copies THEN None ELSE IF IdOf(p) # IdOf(prop) THEN p ELSE l
  IN /\ asked' = a /\ held' = h /\ local' = copy
     /\ reqs' = Follows(rs, a, IdOf(Shown(p, copy)), [page |-> a, own |-> IdOf(p), at |-> None, left |-> FALSE])

\* A dialog can be opened by the page's address, too.
Init ==
  /\ screen \in Screens
  /\ server = [o \in Orders |-> Zero] /\ saved = server
  /\ asked \in Orders /\ held = None /\ local = None /\ panel = None
  /\ forms = [op \in screen.ops |-> None]
  /\ reqs = <<Detail(asked)>>
  /\ loading = TRUE
  /\ crossed = FALSE /\ reordered = FALSE /\ partly = FALSE /\ failed = 0 /\ acts = 0

-----------------------------------------------------------------------------
(* The user. *)

\* Mutant of Open: the rows can still be clicked behind the dialog.
OpensOver(o) ==
  /\ screen.frame.modal /\ Acts(1)
  /\ Renders(o, held, local, Append(reqs, Detail(o)))
  /\ loading' = TRUE
  /\ UNCHANGED <<screen, server, panel, forms, saved, crossed, reordered, partly, failed>>

\* openDetailByID
Open(o) ==
  /\ screen.frame.modal /\ asked = None /\ Acts(1)
  /\ Renders(o, held, local, Append(reqs, Detail(o)))
  /\ loading' = TRUE
  /\ UNCHANGED <<screen, server, panel, forms, saved, crossed, reordered, partly, failed>>

\* The dialog is closed, which a form over it prevents while it can be seen; what
\* is under way is answered later.
Leaves(rs) == [j \in DOMAIN rs |-> [rs[j] EXCEPT !.left = TRUE]]

Close ==
  /\ screen.frame.modal /\ asked # None
  /\ (screen.frame.hides /\ loading) \/ \A op \in DOMAIN forms : forms[op] = None
  /\ UNCHANGED <<screen, server, loading, saved, crossed, reordered, partly, failed, acts>>
  /\ Renders(None, None, None, Leaves(reqs))
  /\ panel' = None
  /\ forms' = [op \in DOMAIN forms |-> None]

\* Whether the order is on the screen, with nothing over it but the form of op.
Visible(op) ==
  /\ asked # None /\ shown # None /\ (screen.frame.hides => ~loading)
  /\ \A f \in DOMAIN forms : forms[f] # None => f = op

\* The form of op is opened and filled: from the order, from a row of the
\* shipments, or (openCreateShipmentModal) once the items to ship are known.
OpenForm(op) ==
  /\ op \in screen.ops /\ Visible(op) /\ forms[op] = None
  /\ \/ op.form = "opened" /\ forms' = [forms EXCEPT ![op] = shown.of] /\ reqs' = reqs
     \/ op.form \in {"row", "shipment"} /\ panel # None /\ forms' = [forms EXCEPT ![op] = panel.of] /\ reqs' = reqs
     \/ /\ op.form = "awaited" /\ Len(reqs) <= MaxUnderWay /\ forms' = forms
        /\ reqs' = Append(reqs, Request("form", shown.of, op, Here, <<>>))
  /\ UNCHANGED <<screen, server, asked, held, local, panel, loading, saved, crossed, reordered, partly, failed, acts>>

CloseForm(op) ==
  /\ op \in screen.ops /\ Visible(op) /\ forms[op] # None
  /\ forms' = [forms EXCEPT ![op] = None]
  /\ UNCHANGED <<screen, server, asked, held, local, panel, loading, reqs, saved, crossed, reordered, partly, failed, acts>>

\* A button is out of use while its operation and the loads after it are under
\* way; the operations differ in whether closing the dialog puts it back.
Pressable(op) ==
  op.flag # "" => \A i \in DOMAIN reqs :
    reqs[i].op = op /\ reqs[i].what # "form" => (op.forgets /\ reqs[i].left) \/ reqs[i].dropped

\* The order an operation goes to, and the one its fields were filled from: an
\* effect refills those of some forms with the page's copy.
Target(op) == IF op.form = "shipment" THEN forms[op] ELSE shown.of
Fields(op) == CASE op.form = "none" -> None [] op.form = "follows" -> IdOf(prop) [] OTHER -> forms[op]

Sent(op) == [Request("op", Target(op), op, Here, <<>>) EXCEPT !.fields = Fields(op)]

Operate(op) ==
  /\ op \in screen.ops /\ Visible(op) /\ Pressable(op) /\ Acts(2)
  /\ op.form \notin {"none", "follows"} => forms[op] # None
  /\ reqs' = Append(reqs, Sent(op))
  /\ UNCHANGED <<screen, server, asked, held, local, panel, forms, loading, saved, crossed, reordered, partly, failed>>

\* The order changes elsewhere, most often by its payment, which the page that
\* polls notices.
OtherUser(o) ==
  /\ screen.polls /\ Acts(1)
  /\ server' = [server EXCEPT ![o].order = @ + 1]
  /\ UNCHANGED <<screen, asked, held, local, panel, forms, loading, reqs, saved, crossed, reordered, partly, failed>>

\* The customer's page asks for the payment's outcome every ten seconds, and
\* loads itself again when there is one.  What was sent is still worked on.
Polled ==
  /\ screen.polls /\ shown # None /\ server[asked].order > shown.v
  /\ held' = None /\ panel' = None /\ loading' = TRUE
  /\ forms' = [op \in DOMAIN forms |-> None]
  /\ LET sent == SetToSeq({j \in DOMAIN reqs : reqs[j].what = "op"})
     IN reqs' = Append([k \in DOMAIN sent |-> [reqs[sent[k]] EXCEPT !.dropped = TRUE]], Detail(asked))
  /\ UNCHANGED <<screen, server, asked, local, saved, crossed, reordered, partly, failed, acts>>

-----------------------------------------------------------------------------
(* The server. *)

\* The answer to a load tells whether the order is completed.
Serve(i) ==
  LET r == reqs[i]
  IN /\ ~r.served
     /\ server' = IF r.what = "op"
                  THEN [server EXCEPT ![r.of].order = IF r.op.order THEN @ + 1 ELSE @,
                                      ![r.of].panel = IF r.op.panel THEN @ + 1 ELSE @]
                  ELSE server
     /\ \E rows \in IF screen.panel.loads = "after" /\ r.what \in {"detail", "refresh"} THEN BOOLEAN ELSE {FALSE} :
          reqs' = [reqs EXCEPT ![i].served = TRUE, ![i].v = server'[r.of], ![i].rows = rows]
     /\ UNCHANGED <<screen, asked, held, local, panel, forms, loading, saved, crossed, reordered, partly, failed, acts>>

-----------------------------------------------------------------------------
(* The answers. *)

LoadsOrder(r) == r.what \in {"detail", "refresh"}

\* The answer to the page's load of the order carries the shipments, or says that
\* there is nothing to show in their place.
Carries(r) == LoadsOrder(r) /\ screen.panel.loads = "with"
Empties(r) == LoadsOrder(r) /\ screen.panel.loads = "after" /\ r.served /\ ~r.rows

\* The parts of the screen the answer of r fills.
Fills(r) == (IF r.what \in {"detail", "refresh", "copy"} THEN {"order"} ELSE {})
            \cup IF r.what = "panel" \/ Carries(r) \/ Empties(r) THEN {"panel"} ELSE {}

\* The requests still under way once the i-th is answered; those started before
\* it that fill the same part are late now.
Others(i) ==
  [j \in 1 .. Len(reqs) - 1 |->
     IF j < i THEN [reqs[j] EXCEPT !.late = @ \/ Fills(reqs[j]) \cap Fills(reqs[i]) # {}] ELSE reqs[j + 1]]

\* What the answer of r is applied over.
Applies(r) == crossed' = (crossed \/ r.left) /\ reordered' = (reordered \/ r.late)

\* The rest of what the operation of r has to do, one step after the other.
Continues(r) ==
  IF r.then = <<>> THEN <<>>
  ELSE LET next == Head(r.then)
           of == CASE next = "copy" -> r.own [] next = "refresh" -> r.page [] next = "panel" -> r.at
       IN IF of = None THEN <<>> ELSE <<Request(next, of, r.op, r, Tail(r.then))>>

\* The page's load of the order (openDetailByID, refreshSelectedOrder, loadDetail,
\* refreshAll).  The customer's page asks for the items to review of a completed
\* order next, and is loading until it has them.
Rows(r) == IF r.rows THEN <<Request("panel", r.of, r.op, r, <<>>)>> ELSE <<>>

OrderArrives(i) ==
  LET r == reqs[i]
  IN /\ LoadsOrder(r) /\ r.served /\ ~r.dropped
     /\ Renders(asked, [of |-> r.of, v |-> r.v.order], local, Others(i) \o Rows(r))
     /\ panel' = CASE Carries(r) -> [of |-> r.of, v |-> r.v.panel] [] Empties(r) -> None [] OTHER -> panel
     /\ loading' = r.rows
     /\ Applies(r)
     /\ UNCHANGED <<screen, server, forms, saved, partly, failed, acts>>

\* The dialog's own load of the order (refreshOrder), which then has the page load it too.
CopyArrives(i) ==
  LET r == reqs[i]
  IN /\ r.what = "copy" /\ r.served
     /\ Renders(asked, held, [of |-> r.of, v |-> r.v.order], Others(i) \o Continues(r))
     /\ loading' = TRUE
     /\ Applies(r)
     /\ UNCHANGED <<screen, server, panel, forms, saved, partly, failed, acts>>

\* The items to review end the page's load, not those a review is followed by.
EndsLoad(r) == r.what = "panel" /\ screen.panel.loads = "after" /\ (r.op = None \/ r.op.order)

PanelArrives(i) ==
  LET r == reqs[i]
  IN /\ r.what = "panel" /\ r.served
     /\ reqs' = Others(i) \o Continues(r)
     /\ IF r.dropped THEN UNCHANGED <<panel, crossed, reordered>>
        ELSE panel' = [of |-> r.of, v |-> r.v.panel] /\ Applies(r)
     /\ loading' = (loading /\ ~EndsLoad(r))
     /\ UNCHANGED <<screen, server, asked, held, local, forms, saved, partly, failed, acts>>

\* The items to ship are known: the form opens over whatever is shown by then.
FormArrives(i) ==
  LET r == reqs[i]
  IN /\ r.what = "form" /\ r.served
     /\ forms' = [forms EXCEPT ![r.op] = r.of]
     /\ reqs' = Others(i)
     /\ Applies(r)
     /\ UNCHANGED <<screen, server, asked, held, local, panel, loading, saved, partly, failed, acts>>

\* Mutant of Steps: an operation on the shipments leaves the order unread.
OnlyPanel(op) == <<IF op.panel THEN <<"panel">> ELSE IF op.order THEN <<"refresh">> ELSE <<>>, <<>> >>

\* The loads that follow an operation, as two chains that start at once: one
\* after the other in the dialog that has its own copy, at once in the others.
Steps(op) ==
  IF screen.copies
  THEN <<(IF op.panel THEN <<"panel">> ELSE <<>>) \o (IF op.order THEN <<"copy", "refresh">> ELSE <<>>), <<>> >>
  ELSE <<IF op.panel /\ (screen.panel.loads = "effect" \/ ~op.order) THEN <<"panel">> ELSE <<>>,
         IF op.order THEN <<"refresh">> ELSE <<>> >>

Larger(s, t) == [order |-> IF s.order > t.order THEN s.order ELSE t.order,
                 panel |-> IF s.panel > t.panel THEN s.panel ELSE t.panel]

\* What the page knows to be saved once an operation's request is answered.
Wrote(r) == [order |-> IF r.op.order THEN r.v.order ELSE 0, panel |-> IF r.op.panel THEN r.v.panel ELSE 0]
Saves(r) == saved' = [saved EXCEPT ![r.of] = Larger(@, Wrote(r))]

\* An operation of several requests (uploadProofsForPayment) sends one after the
\* answer to the other.
NextPart(r) == [Request("op", r.of, r.op, r, <<>>) EXCEPT !.fields = r.fields, !.part = r.part + 1]

PartDone(i) ==
  LET r == reqs[i]
  IN /\ r.what = "op" /\ r.served /\ ~r.dropped /\ r.part < r.op.parts
     /\ Saves(r)
     /\ reqs' = Append(Others(i), NextPart(r))
     /\ UNCHANGED <<screen, server, asked, held, local, panel, forms, loading, crossed, reordered, partly, failed, acts>>

OpDone(i) ==
  LET r == reqs[i]
      steps == Steps(r.op)
  IN /\ r.what = "op" /\ r.served
     /\ IF r.dropped
        THEN reqs' = Others(i) /\ UNCHANGED <<loading, saved, forms>>
        ELSE /\ r.part = r.op.parts
             /\ Saves(r)
             /\ reqs' = Others(i) \o Continues([r EXCEPT !.then = steps[1]]) \o Continues([r EXCEPT !.then = steps[2]])
             /\ loading' = (loading \/ (screen.frame.hides /\ <<"refresh">> \in Range(steps)))
             /\ forms' = [forms EXCEPT ![r.op] = None]
     /\ UNCHANGED <<screen, server, asked, held, local, panel, crossed, reordered, partly, failed, acts>>

\* A request of an operation fails, and with it the rest: what the earlier ones
\* wrote is not loaded.  A form stays open.
OpFails(i) ==
  /\ reqs[i].what = "op" /\ ~reqs[i].dropped
  /\ reqs' = Others(i)
  /\ partly' = (partly \/ reqs[i].part > 1)
  /\ UNCHANGED <<screen, server, asked, held, local, panel, forms, loading, saved, crossed, reordered, failed, acts>>

\* A load fails.  An order that cannot be loaded closes the dialog, whatever it
\* shows by then; a dialog's own copy that cannot be loaded ends the chain.

LoadFails(i) ==
  LET r == reqs[i]
  IN /\ r.what # "op" /\ ~r.dropped /\ failed < MaxFailures
     /\ failed' = failed + 1
     /\ crossed' = (crossed \/ (r.what = "detail" /\ r.left))
     /\ IF r.what = "detail" /\ screen.frame.modal
        THEN /\ asked' = None /\ held' = None /\ local' = None /\ panel' = None
             /\ forms' = [op \in DOMAIN forms |-> None]
             /\ reqs' = Follows(Leaves(Others(i)), None, None, Here)
        ELSE /\ reqs' = Others(i) \o (IF r.what = "panel" THEN Continues(r) ELSE <<>>)
             /\ panel' = IF r.what = "panel" /\ screen.panel.loads = "effect" /\ (r.op = None \/ screen.copies)
                         THEN None ELSE panel
             /\ UNCHANGED <<asked, held, local, forms>>
     /\ loading' = (loading /\ ~LoadsOrder(r) /\ ~EndsLoad(r))
     /\ UNCHANGED <<screen, server, saved, reordered, partly, acts>>

-----------------------------------------------------------------------------
Next ==
  \/ \E o \in Orders : Open(o) \/ OtherUser(o)
  \/ Close \/ Polled
  \/ \E op \in screen.ops : OpenForm(op) \/ CloseForm(op) \/ Operate(op)
  \/ \E i \in DOMAIN reqs :
       \/ Serve(i) \/ OrderArrives(i) \/ CopyArrives(i) \/ PanelArrives(i) \/ FormArrives(i)
       \/ PartDone(i) \/ OpDone(i) \/ OpFails(i) \/ LoadFails(i)

Spec == Init /\ [][Next]_vars

-----------------------------------------------------------------------------
(* Properties *)

\* An operation goes to the order the screen was opened on, and the fields it
\* sends (the shipping quote, the extra charges, a shipment's carrier) are of
\* that order, though the form was filled some time ago.  Only an answer asked
\* for in an earlier dialog breaks it: it turns the dialog to another order
\* under an open form, or opens a form over another order.
OperationsHitTheirOrder ==
  \A r \in Range(reqs) : r.what = "op" /\ ~crossed =>
    r.of = r.page /\ r.fields \in {None, r.of}

\* What the user saved is on the screen once everything is answered: the loads
\* after an operation read what it wrote.  Only failed loads, an operation of
\* several requests that fails after the first, and answers that overtook each
\* other or come from an earlier dialog leave something older there.
ShowsWhatWasSaved ==
  reqs = <<>> /\ shown # None /\ failed = 0 /\ ~partly /\ ~reordered /\ ~crossed =>
    /\ shown.v >= saved[shown.of].order
    /\ panel # None => panel.of = shown.of /\ panel.v >= saved[shown.of].panel
=============================================================================
