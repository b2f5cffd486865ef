---------------------------- MODULE OrderPayment ----------------------------
(***************************************************************************)
(* One web order from checkout to a paid and confirmed order: the shipping *)
(* quote, the payments and their notifications (payment_service.go,        *)
(* order_service.go, the order handlers), and the customer's page of the   *)
(* order (CustomerOrderPage.tsx), which shows a snapshot, sends requests,  *)
(* reloads after each and polls for the end of a payment.                  *)
(*                                                                         *)
(* What changes the order's total or its metadata reads the row without a  *)
(* lock, decides, and writes later: those edits are two steps, and others  *)
(* commit in between.  The handler that starts a payment is several        *)
(* transactions and a call to the gateway.  The other transactions are one *)
(* step; their unlocked reads are the subject of OrderFulfilment.  The     *)
(* gateway is external: it may report any state a payment has had, once,   *)
(* again, late or never.  Of the total, which items, discounts, coupons,   *)
(* extra charges and shipping make up, the model keeps what it comes to.   *)
(***************************************************************************)
EXTENDS Naturals, FiniteSets

CONSTANTS
  Addresses,  \* the customer's addresses
  Payments,   \* ids of payments
  Totals,     \* what the order may come to
  ManualStatuses, \* order statuses the staff sets by hand
  None,
  Asked,      \* a read that has not been served yet
  MaxActs     \* bound: decisions of the staff and payments started

ASSUME PaymentsFinite == IsFiniteSet(Payments)
ASSUME NoneAssumption == None \notin Addresses \cup Payments /\ None # Asked
ASSUME TotalsAssumption == Totals # {} /\ MaxActs \in Nat

VARIABLES
  order,    \* the orders row
  payment,  \* the payments rows
  newer,    \* <<p, q>>: p was updated after q (updated_at)
  charge,   \* external: what the gateway has seen of each payment
  req,      \* the customer's requests on the server
  edit,     \* an edit of the staff's between its read and its write
  bypassed, \* history: the staff went past the checks, or an edit was overtaken
  acts,     \* decisions of the staff and payments started so far
  page      \* the state of CustomerOrderPage

vars == <<order, payment, newer, charge, req, edit, bypassed, acts, page>>

-----------------------------------------------------------------------------
(* The order and its payments. *)

OrderStatus == {"pending", "awaiting_quote", "quote_ready", "draft", "processing",
                "waiting_customer_confirmation", "completed", "in_dispute", "cancelled"}
PayStatus == {"pending", "payment_verification", "paid", "expired"}
PaymentStatus == {"none", "pending", "pending_verification", "succeeded", "failed",
                  "cancelled", "rejected"}
Requests == {"address", "payment", "confirm"}
EditKind == {"address", "quote", "pickup", "reprice", "finalize"}

\* What the page is told of the order.
View == [status : OrderStatus, pay : PayStatus, addr : Addresses \cup {None},
         quote : BOOLEAN, latest : PaymentStatus]

ASSUME StatusesAssumption == ManualStatuses \subseteq OrderStatus

ASSUME ViewAssumption == None \notin View /\ Asked \notin View

NoPayment == [status |-> "none", gateway |-> FALSE, sent |-> FALSE, proof |-> "none", paidAt |-> FALSE]

Exists(p) == payment[p].status # "none"
\* The id of a new payment: one is as good as another.
Fresh(p) == ~ Exists(p) /\ p = CHOOSE q \in Payments : ~ Exists(q)
Active(p) == payment[p].status \in {"pending", "pending_verification"}
IsOrderExpiredOrCancelled == order.status = "cancelled"
IsOrderLocked == order.paidAt \/ order.status = "cancelled" \/ order.pay \in {"paid", "expired"}
HasShippingAddress == order.addr # None

\* A bug: only payment_status is asked whether the order was paid.
PaidByStatusOnly == order.pay = "paid" \/ order.status = "completed"

IsPaidOrder == order.paidAt \/ order.pay = "paid" \/ order.status = "completed"

\* A bug: a status that is none of the order's.
NextPaidPlain == IF order.status \in {"draft", "pending"} THEN "paid" ELSE order.status

NextPaidOrderStatus ==
  IF order.status \in {"draft", "pending"} THEN "processing" ELSE order.status

\* payment_status paid, paid_at, and the status that follows
Paid == [order EXCEPT !.pay = "paid", !.paidAt = TRUE, !.status = NextPaidOrderStatus]

\* The payments of T are the last updated now, among themselves in the order
\* they had.
TouchAll(T) ==
  newer' = (newer \ ((Payments \ T) \X T)) \cup (T \X (Payments \ T))
Touch(p) == TouchAll({p})

IsLatest(p) == Exists(p) /\ \A q \in Payments \ {p} : Exists(q) => <<p, q>> \in newer
LatestPayment == IF \E p \in Payments : IsLatest(p)
                 THEN CHOOSE p \in Payments : IsLatest(p) ELSE None

\* The page when it is opened, reloaded or returned to: its first load is out.
Mounted ==
  [view |-> None, failed |-> FALSE, loading |-> TRUE, polling |-> FALSE, poll |-> None,
   load |-> [l \in Requests \cup {"mount"} |-> IF l = "mount" THEN Asked ELSE None],
   busy |-> {}]

Init ==
  /\ \E a \in Addresses \cup {None} :
       order = [status |-> "pending", pay |-> "pending", paidAt |-> FALSE,
                addr |-> a, quote |-> FALSE, total |-> CHOOSE n \in Totals : TRUE]
  /\ payment = [p \in Payments |-> NoPayment]
  /\ newer = {}
  /\ charge = [p \in Payments |-> "open"]
  /\ req = [r \in Requests |-> [pc |-> "idle", with |-> None]]
  /\ edit = None /\ bypassed = FALSE
  /\ acts = 0
  /\ page = Mounted

-----------------------------------------------------------------------------
(* Edits of the order: an unlocked read that decides, and a later write. *)

\* A bug: a ready quote does not lock the address.
AcceptsAddressUnlocked == ~ IsOrderLocked

AcceptsAddress == ~ IsOrderLocked /\ ~ order.quote

\* FinalizeOrder asks only whether the order was paid.
Accepts(kind) ==
  CASE kind = "address" -> AcceptsAddress
    [] kind = "quote" -> ~ IsOrderExpiredOrCancelled /\ order.pay # "expired"
    [] kind = "finalize" -> order.pay # "paid" /\ ~ order.paidAt
    [] OTHER -> ~ IsOrderLocked

\* What an edit takes to its write: the new address, or of the metadata that
\* is written back as a whole the one it has read, and whether it found the
\* order paid.  History: whether paid_at was set when it read.
Edit(kind, addr) ==
  [kind |-> kind, addr |-> IF kind \in {"address", "quote"} THEN addr ELSE None,
   paid |-> IsPaidOrder, late |-> order.paidAt]

UpdateShippingAddress(a, total) ==
  [order EXCEPT !.addr = a, !.quote = FALSE, !.total = total,
                !.status = "awaiting_quote", !.pay = "pending"]

\* Of an order that was paid when it was read the quote changes no amount.
UpdateShippingQuote(e, total) ==
  LET quoted == [order EXCEPT !.quote = TRUE, !.addr = e.addr]
  IN  IF e.paid THEN quoted
      ELSE [quoted EXCEPT !.total = total, !.status = "quote_ready", !.pay = "pending"]

\* Items, discounts, coupons and extra charges, then recalculateOrderTotalsTx.
Reprice(total) == [order EXCEPT !.total = total]

\* UpdateOrderCustomerAndFulfillment, of an order that is to be picked up
MoveToPickup(total) == [Reprice(total) EXCEPT !.addr = None, !.quote = FALSE]

FinalizeOrder(total) == [Reprice(total) EXCEPT !.status = "pending"]

\* Every edit computes the total again, from what it read or reads again then:
\* it may come to anything.
Written(e, total) ==
  CASE e.kind = "address" -> UpdateShippingAddress(e.addr, total)
    [] e.kind = "quote" -> UpdateShippingQuote(e, total)
    [] e.kind = "pickup" -> MoveToPickup(total)
    [] e.kind = "finalize" -> FinalizeOrder(total)
    [] e.kind = "reprice" -> Reprice(total)

\* What was decided on, or is written back, is not what the row holds now.
Overtaken(e) ==
  \/ ~ Accepts(e.kind)
  \/ e.kind = "quote" /\ (e.addr # order.addr \/ e.paid # IsPaidOrder)

\* Edits of the staff come one after another (a bound); the customer's change
\* of the address is beside them.
EditRead ==
  /\ edit = None /\ acts < MaxActs /\ acts' = acts + 1
  /\ \E kind \in EditKind :
       /\ Accepts(kind)
       /\ \E a \in IF kind = "address" THEN Addresses ELSE {order.addr} : edit' = Edit(kind, a)
  /\ UNCHANGED <<order, payment, newer, charge, req, bypassed, page>>

\* Where a shipping quote and an address go, a payment may be left without.
EditWrite ==
  /\ edit # None /\ edit' = None
  /\ \E total \in Totals : order' = Written(edit, total)
  /\ bypassed' = (bypassed \/ edit.kind = "pickup" \/ Overtaken(edit))
  /\ UNCHANGED <<payment, newer, charge, req, acts, page>>

\* The transaction is rolled back.
EditFails ==
  /\ edit # None /\ edit' = None
  /\ UNCHANGED <<order, payment, newer, charge, req, bypassed, acts, page>>

-----------------------------------------------------------------------------
(* Transactions on the order. *)

\* expireStalePendingOrders, which every read of an order starts with
Expire ==
  /\ order.status = "pending" /\ order.pay = "pending"
  /\ order' = [order EXCEPT !.status = "cancelled", !.pay = "expired"]
  /\ UNCHANGED <<payment, newer, charge, req, edit, bypassed, acts, page>>

-----------------------------------------------------------------------------
(* Transactions on a payment. *)

Succeeded(p) == [payment EXCEPT ![p].status = "succeeded", ![p].paidAt = TRUE]

\* The administrator's status, which brings no paid_at of its own: a success
\* does not set the order's.
UpdatePaymentStatus(p, status) ==
  /\ Exists(p) /\ ~ (status = "succeeded" /\ IsOrderExpiredOrCancelled)
  /\ payment' = [payment EXCEPT ![p].status = status]
  /\ order' = IF status = "succeeded" THEN [Paid EXCEPT !.paidAt = order.paidAt] ELSE order
  /\ Touch(p)

ValidateOrderPaymentFromHistory(p) ==
  /\ payment[p].status = "succeeded" /\ ~ IsOrderExpiredOrCancelled
  /\ payment' = Succeeded(p) /\ order' = Paid /\ Touch(p)

UploadPaymentProof(p) ==
  /\ Exists(p) /\ ~ payment[p].gateway
  /\ payment' = [payment EXCEPT ![p].proof = "uploaded", ![p].status = "pending_verification"]
  /\ order' = [order EXCEPT !.pay = "payment_verification"]
  /\ Touch(p)

ApprovePaymentProof(p) ==
  /\ payment[p].proof # "none" /\ ~ IsOrderExpiredOrCancelled
  /\ payment' = [Succeeded(p) EXCEPT ![p].proof = "approved"]
  /\ order' = Paid /\ Touch(p)

RejectPaymentProof(p) ==
  /\ payment[p].proof # "none"
  /\ payment' = [payment EXCEPT ![p].proof = "rejected", ![p].status = "rejected"]
  /\ order' = [order EXCEPT !.pay = "pending"]
  /\ Touch(p)

\* The last proof of a payment goes: whatever it was, it is pending again.
DeletePaymentProof(p) ==
  /\ payment[p].proof # "none"
  /\ payment' = [payment EXCEPT ![p].proof = "none", ![p].status = "pending"]
  /\ Touch(p) /\ UNCHANGED order

\* A notification, and the administrator's recheck; anything but a success
\* makes the order's payment pending.
RecheckGatewayPayment(p, status) ==
  /\ payment[p].gateway /\ ~ (status = "succeeded" /\ IsOrderExpiredOrCancelled)
  /\ payment' = IF status = "succeeded" THEN Succeeded(p)
                ELSE [payment EXCEPT ![p].status = status]
  /\ order' = IF status = "succeeded" THEN Paid ELSE [order EXCEPT !.pay = "pending"]
  /\ Touch(p)

CancelPayment(p) ==
  /\ Active(p) /\ ~ payment[p].sent
  /\ payment' = [payment EXCEPT ![p].status = "cancelled"]
  /\ order' = [order EXCEPT !.status = "draft", !.pay = "pending"]
  /\ Touch(p)

RejectPayment(p) ==
  /\ Active(p)
  /\ payment' = [payment EXCEPT ![p].status = "rejected"]
  /\ Touch(p) /\ UNCHANGED order

RequestCustomerConfirmation ==
  /\ order.status \notin {"cancelled", "completed"} /\ order.pay = "paid"
  /\ order' = [order EXCEPT !.status = "waiting_customer_confirmation"]
  /\ UNCHANGED <<payment, newer>>

\* SetStatus: whatever the staff says, of whatever order.
UpdateOrderStatus(s) ==
  /\ order' = [order EXCEPT !.status = s]
  /\ UNCHANGED <<payment, newer>>

\* PaymentHandler.Create asks nothing of the order.
AdminCreatePayment(p, gateway) ==
  /\ Fresh(p)
  /\ payment' = [payment EXCEPT ![p] = [NoPayment EXCEPT !.status = "pending", !.gateway = gateway]]
  /\ Touch(p) /\ UNCHANGED order

Staff ==
  /\ acts < MaxActs /\ acts' = acts + 1
  /\ \/ /\ \/ RequestCustomerConfirmation
           \/ \E p \in Payments :
                \/ UpdatePaymentStatus(p, "succeeded") \/ RecheckGatewayPayment(p, "succeeded")
                \/ ValidateOrderPaymentFromHistory(p)
                \/ UploadPaymentProof(p) \/ ApprovePaymentProof(p) \/ RejectPaymentProof(p)
                \/ DeletePaymentProof(p) \/ CancelPayment(p) \/ RejectPayment(p)
        /\ UNCHANGED bypassed
     \/ /\ \/ \E s \in ManualStatuses : UpdateOrderStatus(s)
           \/ \E p \in Payments, gateway \in BOOLEAN : AdminCreatePayment(p, gateway)
        /\ bypassed' = TRUE
  /\ UNCHANGED <<charge, req, edit, page>>

-----------------------------------------------------------------------------
(* The gateway. *)

Settle(p, end) ==
  /\ payment[p].sent /\ charge[p] = "open"
  /\ charge' = [charge EXCEPT ![p] = end]
  /\ UNCHANGED <<order, payment, newer, req, edit, bypassed, acts, page>>

\* A notification of a state the payment has or had; a refused one is answered
\* like any other and not sent again.
Webhook(p) ==
  /\ payment[p].sent
  /\ \E status \in {"pending"} \cup ({charge[p]} \ {"open"}) : RecheckGatewayPayment(p, status)
  /\ UNCHANGED <<charge, req, edit, bypassed, acts, page>>

-----------------------------------------------------------------------------
(* The customer's requests on the server. *)

Goto(r, pc) == req' = [req EXCEPT ![r].pc = pc]

ReadAddress ==
  /\ req["address"].pc = "sent"
  /\ Goto("address", IF AcceptsAddress THEN "read" ELSE "refused")
  /\ UNCHANGED <<order, payment, newer, charge, edit, bypassed, acts, page>>

WriteAddress ==
  /\ req["address"].pc = "read" /\ Goto("address", "served")
  /\ \E total \in Totals : order' = UpdateShippingAddress(req["address"].with, total)
  /\ bypassed' = (bypassed \/ ~ AcceptsAddress)
  /\ UNCHANGED <<payment, newer, charge, edit, acts, page>>

\* ApproveCustomerConfirmation and RejectCustomerConfirmation
ServeConfirm ==
  /\ req["confirm"].pc = "sent"
  /\ IF order.status = "waiting_customer_confirmation"
     THEN /\ \E s \in {"completed", "in_dispute"} : order' = [order EXCEPT !.status = s]
          /\ Goto("confirm", "served")
     ELSE Goto("confirm", "refused") /\ UNCHANGED order
  /\ UNCHANGED <<payment, newer, charge, edit, bypassed, acts, page>>

AcceptsPayment ==
  /\ order.pay # "expired" /\ HasShippingAddress
  /\ order.status # "awaiting_quote"
  /\ order.status = "pending" => order.quote
  /\ order.pay # "paid" /\ ~ order.paidAt

CheckPayment ==
  /\ req["payment"].pc = "sent"
  /\ Goto("payment", IF AcceptsPayment THEN "checked" ELSE "refused")
  /\ UNCHANGED <<order, payment, newer, charge, edit, bypassed, acts, page>>

CancelPendingPaymentsByOrder ==
  /\ req["payment"].pc = "checked" /\ Goto("payment", "cancelled")
  /\ payment' = [p \in Payments |-> IF Active(p) THEN [payment[p] EXCEPT !.status = "cancelled"]
                                                 ELSE payment[p]]
  /\ order' = IF \E p \in Payments : Active(p) THEN [order EXCEPT !.pay = "pending"] ELSE order
  /\ TouchAll({p \in Payments : Active(p)})
  /\ UNCHANGED <<charge, edit, bypassed, acts, page>>

CreatePayment ==
  /\ req["payment"].pc = "cancelled"
  /\ acts < MaxActs /\ acts' = acts + 1
  /\ \E p \in Payments, g \in BOOLEAN :
       /\ Fresh(p)
       /\ payment' = [payment EXCEPT ![p] = [NoPayment EXCEPT !.status = "pending", !.gateway = g]]
       /\ req' = [req EXCEPT !["payment"] = [pc |-> "created", with |-> p]]
       /\ Touch(p)
  /\ UNCHANGED <<order, charge, edit, bypassed, page>>

\* The gateway accepts, and its transaction id is stored.
SendToGateway ==
  LET p == req["payment"].with
  IN  /\ req["payment"].pc = "created" /\ payment[p].gateway /\ Goto("payment", "served")
      /\ payment' = [payment EXCEPT ![p].sent = TRUE]
      /\ Touch(p)
      /\ UNCHANGED <<order, charge, edit, bypassed, acts, page>>

\* The proof sent with a bank transfer.
StoreProof ==
  /\ req["payment"].pc = "created" /\ UploadPaymentProof(req["payment"].with)
  /\ Goto("payment", "served")
  /\ UNCHANGED <<charge, edit, bypassed, acts, page>>

\* The gateway or the upload fails: the row is deleted.  An upload that had
\* stored some of the files has left the order in verification.
DropPayment ==
  LET p == req["payment"].with
  IN  /\ req["payment"].pc = "created" /\ Goto("payment", "refused")
      /\ payment' = [payment EXCEPT ![p] = NoPayment]
      /\ newer' = newer \ ({p} \X Payments)
      /\ \/ UNCHANGED order
         \/ ~ payment[p].gateway /\ order' = [order EXCEPT !.pay = "payment_verification"]
      /\ UNCHANGED <<charge, edit, bypassed, acts, page>>

Serve == ReadAddress \/ WriteAddress \/ ServeConfirm \/ CheckPayment \/ CancelPendingPaymentsByOrder
         \/ CreatePayment \/ SendToGateway \/ StoreProof \/ DropPayment

-----------------------------------------------------------------------------
(* CustomerOrderPage. *)

\* What GET /orders/me/:id answers, as far as the page looks at it.
Snapshot ==
  [status |-> order.status, pay |-> order.pay, addr |-> order.addr, quote |-> order.quote,
   latest |-> IF LatestPayment = None THEN "none" ELSE payment[LatestPayment].status]

TerminalPaymentStatuses ==
  {"paid", "succeeded", "failed", "cancelled", "expired", "rejected", "completed", "refunded"}

IsTerminal(v) == {v.status, v.pay, v.latest} \cap TerminalPaymentStatuses # {}

\* A bug: a draft, with its quote, is taken for an order that waits for one.
AwaitingUntilReady(v) == v.addr = None \/ v.status # "quote_ready"

IsAwaitingShippingQuote(v) ==
  v.addr = None \/ v.status = "awaiting_quote" \/ (v.status = "pending" /\ ~ v.quote)

\* Under the spinner nothing can be clicked.
Shows == page.view # None /\ ~ page.loading

OffersAddress(a) ==
  Shows /\ "address" \notin page.busy /\ a # page.view.addr /\ ~ page.view.quote

OffersConfirmation ==
  Shows /\ "confirm" \notin page.busy /\ page.view.status = "waiting_customer_confirmation"

CanSubmit == ~ IsAwaitingShippingQuote(page.view) /\ page.view.pay # "paid"

OffersPayment == Shows /\ "payment" \notin page.busy /\ CanSubmit

\* A bug: a payment under verification is not monitored.
MonitorsUntilShown(v) == v # None /\ v.latest = "pending" /\ ~ IsTerminal(v)

Monitored(v) == v # None /\ ~ IsTerminal(v)

\* The polling effect runs again when what it depends on changes: a poll in
\* flight is cancelled.
Watched(pg) == IF pg.view = None THEN None
               ELSE <<pg.polling, pg.view.status, pg.view.pay, pg.view.latest>>
Render(pg) == page' = IF Watched(pg) = Watched(page) THEN pg ELSE [pg EXCEPT !.poll = None]

\* A handler sends its request; another of the kind waits for the server to be
\* done with one that a reload left behind (a bound).
Send(r, with) ==
  /\ req[r].pc = "idle"
  /\ req' = [req EXCEPT ![r] = [pc |-> "sent", with |-> with]]
  /\ Render([page EXCEPT !.busy = @ \cup {r}])
  /\ UNCHANGED <<order, payment, newer, charge, edit, bypassed, acts>>

handleApplyShippingAddress == \E a \in Addresses : OffersAddress(a) /\ Send("address", a)
handleCustomerConfirmation == OffersConfirmation /\ Send("confirm", None)
handleStartPayment == OffersPayment /\ Send("payment", None)

\* loadDetail of a handler
Reloading(r) == [page EXCEPT !.load[r] = Asked, !.loading = TRUE, !.failed = FALSE,
                             !.polling = @ \/ r = "payment"]

\* The page is answered: after a success it loads the order again, or leaves
\* for the gateway's own page to return later.
Answered(r) ==
  /\ req[r].pc \in {"served", "refused"}
  /\ req' = [req EXCEPT ![r] = [pc |-> "idle", with |-> None]]
  /\ \/ r \notin page.busy /\ UNCHANGED page
     \/ r \in page.busy /\ req[r].pc = "refused" /\ Render([page EXCEPT !.busy = @ \ {r}])
     \/ r \in page.busy /\ req[r].pc = "served" /\ Render(Reloading(r))
     \/ r \in page.busy /\ req[r].pc = "served" /\ r = "payment" /\ page' = Mounted
  /\ UNCHANGED <<order, payment, newer, charge, edit, bypassed, acts>>

\* The connection fails: the server may serve the request all the same.
Unanswered(r) ==
  /\ r \in page.busy /\ page.load[r] = None
  /\ Render([page EXCEPT !.busy = @ \ {r}])
  /\ UNCHANGED <<order, payment, newer, charge, req, edit, bypassed, acts>>

LoadServed(l) ==
  /\ page.load[l] = Asked
  /\ page' = [page EXCEPT !.load[l] = Snapshot]
  /\ UNCHANGED <<order, payment, newer, charge, req, edit, bypassed, acts>>

\* Loads that overlap write the page in the order they arrive.
LoadArrives(l) ==
  /\ page.load[l] \notin {None, Asked}
  /\ Render([page EXCEPT !.view = page.load[l], !.load[l] = None, !.loading = FALSE, !.busy = @ \ {l},
                         !.polling = @ \/ page.load[l].latest # "none"])
  /\ UNCHANGED <<order, payment, newer, charge, req, edit, bypassed, acts>>

LoadFails(l) ==
  /\ page.load[l] = Asked
  /\ Render([page EXCEPT !.load[l] = None, !.loading = FALSE, !.busy = @ \ {l}, !.failed = TRUE])
  /\ UNCHANGED <<order, payment, newer, charge, req, edit, bypassed, acts>>

Load(l) == LoadServed(l) \/ LoadArrives(l) \/ LoadFails(l)

PollAsked ==
  /\ page.polling /\ Monitored(page.view) /\ page.poll = None
  /\ page' = [page EXCEPT !.poll = Asked]
  /\ UNCHANGED <<order, payment, newer, charge, req, edit, bypassed, acts>>

PollServed ==
  /\ page.poll = Asked
  /\ page' = [page EXCEPT !.poll = Snapshot]
  /\ UNCHANGED <<order, payment, newer, charge, req, edit, bypassed, acts>>

\* window.location.reload()
PollArrives ==
  /\ page.poll \notin {None, Asked}
  /\ page' = IF IsTerminal(page.poll) THEN Mounted ELSE [page EXCEPT !.poll = None]
  /\ UNCHANGED <<order, payment, newer, charge, req, edit, bypassed, acts>>

PollFails ==
  /\ page.poll = Asked
  /\ page' = [page EXCEPT !.poll = None]
  /\ UNCHANGED <<order, payment, newer, charge, req, edit, bypassed, acts>>

-----------------------------------------------------------------------------
Next ==
  \/ Staff \/ EditRead \/ EditWrite \/ EditFails \/ Expire \/ Serve
  \/ handleApplyShippingAddress \/ handleCustomerConfirmation \/ handleStartPayment
  \/ \E p \in Payments : Webhook(p) \/ \E end \in {"succeeded", "failed"} : Settle(p, end)
  \/ \E r \in Requests : Answered(r) \/ Unanswered(r)
  \/ \E l \in Requests \cup {"mount"} : Load(l)
  \/ PollAsked \/ PollServed \/ PollArrives \/ PollFails

\* A load settles, the timer ticks, and the server answers a poll again and
\* again.  Nobody owes the order a payment or a notification.
Fairness ==
  /\ \A l \in Requests \cup {"mount"} : WF_vars(Load(l))
  /\ WF_vars(PollAsked) /\ SF_vars(PollServed) /\ WF_vars(PollArrives)

Spec == Init /\ [][Next]_vars /\ Fairness

-----------------------------------------------------------------------------
(* Properties *)

TypeOK ==
  /\ order \in [status : OrderStatus, pay : PayStatus, paidAt : BOOLEAN,
                addr : Addresses \cup {None}, quote : BOOLEAN, total : Totals]
  /\ payment \in [Payments -> [status : PaymentStatus, gateway : BOOLEAN, sent : BOOLEAN,
                               proof : {"none", "uploaded", "approved", "rejected"}, paidAt : BOOLEAN]]
  /\ newer \subseteq Payments \X Payments
  /\ charge \in [Payments -> {"open", "succeeded", "failed"}]
  /\ edit = None \/ edit.kind \in EditKind
  /\ bypassed \in BOOLEAN /\ acts \in Nat
  /\ page.busy \subseteq Requests

\* A payment exists only for an order that has an address and a shipping
\* quote, however long its start took and whatever the gateway reports and the
\* staff does with payments meanwhile: nobody is charged a total without
\* shipping.  It does not hold where the staff went past the checks (entered a
\* payment or a status, moved the order to pickup), or where an edit was
\* overtaken between its read and its write.
QuotedBeforePayment ==
  ~ bypassed => \A p \in Payments : Exists(p) => order.quote /\ HasShippingAddress

\* An edit read the order before paid_at was set, and is not over yet.
EditUnderway == req["address"].pc = "read" \/ (edit # None /\ ~ edit.late)

\* Once paid_at is set, and the edits that had read the order before are over,
\* the total is never touched again, though late notifications, rejected proofs
\* and those very edits turn payment_status back to pending.
PaidOrderKeepsTotal ==
  [][order.paidAt /\ ~ EditUnderway => order'.total = order.total /\ order'.paidAt]_vars

\* An order the server takes payments for is never a dead end for a customer
\* who sees it as it is: the page offers the payment.
PayableIsOffered ==
  page.view = Snapshot /\ ~ page.loading /\ AcceptsPayment /\ "payment" \notin page.busy
    => OffersPayment

\* If the order or its payment has come to an end, an open page that polls
\* ends up showing that, although loads that overlap can put an older state
\* back and polls fail.
OutcomeIsShown ==
  <>[]IsTerminal(Snapshot) => <>[](page.polling /\ page.view # None => IsTerminal(page.view))
=============================================================================
