----------------------------- MODULE OrderPages -----------------------------
(***************************************************************************)
(* The screens OrderScreens is about: what each of them does when it       *)
(* loads its order, and the operations it offers, by the part of the       *)
(* screen that offers them.                                                *)
(***************************************************************************)
EXTENDS Naturals

Operation == [
  flag: STRING,     \* the busy flag that puts its button out of use until the loads after it
                    \* are answered, "" if there is none or one for each of several rows
  forgets: BOOLEAN, \* closing the dialog resets that flag
  form: {"none", "follows", "opened", "awaited", "row", "shipment"},
  order: BOOLEAN,   \* it changes the order, which is loaded again
  panel: BOOLEAN,   \* it changes the shipments, which are loaded again
  parts: Nat \ {0}] \* the requests it sends, one after the other
\* Its form has no field of the order; an effect fills it again with each order
\* the page loads ("follows"); it is a dialog filled when it is opened, from the
\* order shown, at once or when a request is answered ("awaited"), or from a row
\* of the shipments, and then goes to the order shown ("row") or to the order of
\* that shipment ("shipment").

Screen == [
  \* a dialog over a list; loading the order hides it
  frame: [modal: BOOLEAN, hides: BOOLEAN],
  copies: BOOLEAN,  \* it keeps a copy of the order the page gives it
  \* the shipments are loaded by an effect of the order's id, with the order,
  \* after it or not at all; the cleanup of that effect drops their late answer
  panel: [loads: {"effect", "with", "after", "none"}, guards: BOOLEAN],
  polls: BOOLEAN,   \* it asks for the outcome of its payment
  ops: SUBSET Operation]

Clicks == [flag |-> "", forgets |-> FALSE, form |-> "none", order |-> TRUE, panel |-> FALSE, parts |-> 1]

-----------------------------------------------------------------------------
(* The administrators' dialog.                                             *)

\* The page's loading flag hides the whole dialog.
AdminFrame == [modal |-> TRUE, hides |-> TRUE]
\* A copy of its own; closing resets no busy flag.
AdminCopies == TRUE
AdminPanel == [loads |-> "effect", guards |-> FALSE]
AdminValidates == Clicks
AdminRechecks == Clicks
AdminApproves == Clicks
AdminRejects == Clicks
AdminDeletesProof == Clicks
AdminUploadsProofs == [Clicks EXCEPT !.flag = "proofs", !.parts = 2]
AdminDecides == [Clicks EXCEPT !.flag = "deciding"]
AdminQuotes == [Clicks EXCEPT !.flag = "quote", !.form = "follows"]
AdminSetsAddress == [Clicks EXCEPT !.flag = "address"]
AdminShips == [Clicks EXCEPT !.flag = "shipping", !.form = "awaited", !.panel = TRUE]
AdminEditsShipment == [Clicks EXCEPT !.flag = "shipment", !.form = "shipment", !.panel = TRUE]
AdminMarksProcessing == Clicks
\* What each part of the dialog offers.
AdminDispute == {AdminDecides}
AdminPayments == {AdminValidates, AdminRechecks, AdminApproves, AdminRejects, AdminDeletesProof}
AdminAddress == {AdminSetsAddress}
AdminQuote == {AdminQuotes}
AdminProofs == {AdminUploadsProofs, AdminDeletesProof}
AdminNewShipment == {AdminShips}
AdminShipment == {AdminEditsShipment}
AdminStatus == {AdminMarksProcessing}
AdminDialog ==
  [frame |-> AdminFrame, copies |-> AdminCopies, panel |-> AdminPanel, polls |-> FALSE,
   ops |-> AdminDispute \cup AdminPayments \cup AdminAddress \cup AdminQuote \cup AdminProofs
          \cup AdminNewShipment \cup AdminShipment \cup AdminStatus]

-----------------------------------------------------------------------------
(* The members' dialog.                                                    *)

MemberFrame == [modal |-> TRUE, hides |-> TRUE]
\* No copy of its own; closing resets most of the busy flags.
MemberCopies == FALSE
MemberPanel == [loads |-> "effect", guards |-> TRUE]
MemberValidates == Clicks
MemberQuotes == [Clicks EXCEPT !.flag = "quote", !.form = "follows", !.forgets = TRUE]
MemberSetsAddress == [Clicks EXCEPT !.flag = "address", !.form = "follows", !.forgets = TRUE]
MemberSetsCharges == [Clicks EXCEPT !.flag = "charges", !.form = "follows", !.forgets = TRUE]
MemberShips == [Clicks EXCEPT !.flag = "shipping", !.form = "opened", !.panel = TRUE, !.forgets = TRUE]
MemberEditsShipment == [Clicks EXCEPT !.flag = "shipment", !.form = "row", !.panel = TRUE, !.forgets = TRUE]
MemberDeletesShipment == [Clicks EXCEPT !.panel = TRUE]
MemberAsksCustomer == [Clicks EXCEPT !.flag = "asking", !.form = "follows"]
MemberNotesDispute == [Clicks EXCEPT !.flag = "noting", !.form = "follows"]
\* What each part of the dialog offers.
MemberConfirmation == {MemberAsksCustomer, MemberNotesDispute}
MemberPayments == {MemberValidates}
MemberDelivery == {MemberSetsAddress, MemberQuotes, MemberDeletesShipment}
MemberNewShipment == {MemberShips}
MemberShipment == {MemberEditsShipment}
MemberCharges == {MemberSetsCharges}
MemberDialog ==
  [frame |-> MemberFrame, copies |-> MemberCopies, panel |-> MemberPanel, polls |-> FALSE,
   ops |-> MemberConfirmation \cup MemberPayments \cup MemberDelivery \cup MemberNewShipment
          \cup MemberShipment \cup MemberCharges]

-----------------------------------------------------------------------------
(* The delivery pages, of one order each.                                  *)

\* Only the first load hides the page.
AdminDeliveryFrame == [modal |-> FALSE, hides |-> FALSE]
AdminDeliveryPanel == [loads |-> "with", guards |-> TRUE]
AdminDeliveryShips == [Clicks EXCEPT !.flag = "shipping", !.form = "opened", !.panel = TRUE]
AdminDeliveryEdits == [Clicks EXCEPT !.flag = "shipment", !.form = "shipment", !.panel = TRUE]
AdminDeliveryForms == {AdminDeliveryShips, AdminDeliveryEdits}
AdminDelivery ==
  [frame |-> AdminDeliveryFrame, copies |-> FALSE, panel |-> AdminDeliveryPanel, polls |-> FALSE,
   ops |-> AdminDeliveryForms]
MemberDeliveryFrame == [modal |-> FALSE, hides |-> FALSE]
MemberDeliveryPanel == [loads |-> "with", guards |-> TRUE]
MemberDeliveryShips == [Clicks EXCEPT !.flag = "shipping", !.form = "opened", !.panel = TRUE]
MemberDeliveryEdits == [Clicks EXCEPT !.flag = "shipment", !.form = "row", !.panel = TRUE]
MemberDeliveryDeletes == [Clicks EXCEPT !.panel = TRUE]
MemberDeliveryForms == {MemberDeliveryShips, MemberDeliveryEdits, MemberDeliveryDeletes}
MemberDeliveryPage ==
  [frame |-> MemberDeliveryFrame, copies |-> FALSE, panel |-> MemberDeliveryPanel, polls |-> FALSE,
   ops |-> MemberDeliveryForms]

-----------------------------------------------------------------------------
(* The customer's and the guest's page, of one order each.                 *)

CustomerFrame == [modal |-> FALSE, hides |-> TRUE]
\* The shipments' part is taken by the items to review of a completed order.
CustomerPanel == [loads |-> "after", guards |-> FALSE]
CustomerPolls == TRUE
CustomerReviews == [Clicks EXCEPT !.order = FALSE, !.panel = TRUE]
CustomerSetsAddress == [Clicks EXCEPT !.flag = "address"]
CustomerApproves == [Clicks EXCEPT !.flag = "confirming"]
CustomerRejects == [Clicks EXCEPT !.flag = "confirming"]
CustomerPays == [Clicks EXCEPT !.flag = "paying"]
CustomerReviewForms == {CustomerReviews}
CustomerAddress == {CustomerSetsAddress}
CustomerConfirmation == {CustomerApproves, CustomerRejects}
CustomerPayment == {CustomerPays}
CustomerPage ==
  [frame |-> CustomerFrame, copies |-> FALSE, panel |-> CustomerPanel, polls |-> CustomerPolls,
   ops |-> CustomerReviewForms \cup CustomerAddress \cup CustomerConfirmation \cup CustomerPayment]
\* Only the first load hides the page.
GuestFrame == [modal |-> FALSE, hides |-> FALSE]
GuestPanel == [loads |-> "none", guards |-> FALSE]
GuestSetsAddress == [Clicks EXCEPT !.flag = "applying"]
GuestAddsAddress == [Clicks EXCEPT !.flag = "creating"]
\* The browser leaves the page with the answer.
GuestPays == [Clicks EXCEPT !.flag = "paying", !.order = FALSE]
GuestAddress == {GuestSetsAddress, GuestAddsAddress}
GuestPayment == {GuestPays}
GuestPage ==
  [frame |-> GuestFrame, copies |-> FALSE, panel |-> GuestPanel, polls |-> FALSE,
   ops |-> GuestAddress \cup GuestPayment]

-----------------------------------------------------------------------------

AllScreens == {AdminDialog, MemberDialog, AdminDelivery, MemberDeliveryPage, CustomerPage, GuestPage}
=============================================================================
