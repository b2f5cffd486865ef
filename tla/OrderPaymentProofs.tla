------------------------- MODULE OrderPaymentProofs -------------------------
(***************************************************************************)
(* What OrderPayment promises about the money of an order, for any         *)
(* addresses, payments and amounts: no payment without a quoted shipping   *)
(* unless the staff goes past the checks, no change of the total of a paid *)
(* order but by an edit begun before, and a page that offers the payment   *)
(* whenever the server takes one.                                          *)
(***************************************************************************)
EXTENDS OrderPayment, TLAPS

OrderType == [status : OrderStatus, pay : PayStatus, paidAt : BOOLEAN,
              addr : Addresses \cup {None}, quote : BOOLEAN, total : Totals]
PaymentType == [status : PaymentStatus, gateway : BOOLEAN, sent : BOOLEAN,
                proof : {"none", "uploaded", "approved", "rejected"}, paidAt : BOOLEAN]
Starting == {"checked", "cancelled", "created"}
ReqType == [pc : {"idle", "sent", "read", "refused", "served"} \cup Starting,
            with : Addresses \cup Payments \cup {None}]

RowsInv ==
  /\ order \in OrderType
  /\ payment \in [Payments -> PaymentType]
  /\ req \in [Requests -> ReqType]
  /\ req["payment"].pc = "created" => req["payment"].with \in Payments
  /\ req["address"].pc \in {"sent", "read"} => req["address"].with \in Addresses

EditType == [kind : EditKind, addr : Addresses \cup {None}, paid : BOOLEAN, late : BOOLEAN]

\* Of a paid order no edit but a quote gets past its read, and that one leaves
\* the amounts alone.
EditOK ==
  edit # None =>
    /\ edit \in EditType
    /\ edit.kind = "address" => edit.addr \in Addresses
    /\ edit.late => edit.kind = "quote" /\ edit.paid

Ready == order.quote /\ HasShippingAddress

\* Before its shipping is quoted nothing has happened to an order but that it
\* may have expired or been put back to pending, and no payment has passed the
\* checks of its start.
Unready ==
  /\ \A p \in Payments : payment[p] = NoPayment
  /\ req["payment"].pc \notin Starting
  /\ order.pay \in {"pending", "expired"}
  /\ order.quote \/ order.addr = None \/ order.pay = "expired"
       \/ order.status \in {"pending", "awaiting_quote"}

QuoteInv == bypassed \/ Ready \/ Unready

IInv == RowsInv /\ EditOK /\ QuoteInv /\ bypassed \in BOOLEAN

-----------------------------------------------------------------------------
USE DEF OrderType, PaymentType, ReqType, Starting, Requests, NoPayment, HasShippingAddress

LEMMA InitInv == Init => IInv
<1> SUFFICES ASSUME Init PROVE IInv
  OBVIOUS
<1>0. (CHOOSE n \in Totals : TRUE) \in Totals
  BY TotalsAssumption
<1> PICK a \in Addresses \cup {None} :
      order = [status |-> "pending", pay |-> "pending", paidAt |-> FALSE,
               addr |-> a, quote |-> FALSE, total |-> CHOOSE n \in Totals : TRUE]
  BY DEF Init
<1>1. RowsInv BY <1>0 DEF Init, RowsInv, OrderStatus, PayStatus, PaymentStatus
<1>2. QuoteInv BY DEF Init, QuoteInv, Unready
<1>3. EditOK /\ bypassed \in BOOLEAN BY DEF Init, EditOK
<1> QED BY <1>1, <1>2, <1>3 DEF IInv

LEMMA PaymentFields ==
  ASSUME NEW r \in PaymentType, NEW s \in PaymentStatus, NEW b \in BOOLEAN
  PROVE  [r EXCEPT !.status = s, !.paidAt = b] \in PaymentType
  OBVIOUS

LEMMA ProofFields ==
  ASSUME NEW r \in PaymentType, NEW s \in PaymentStatus,
         NEW f \in {"none", "uploaded", "approved", "rejected"}
  PROVE  [r EXCEPT !.proof = f, !.status = s] \in PaymentType
  OBVIOUS

\* Changing the row of one payment, whatever to.
LEMMA RowChanges ==
  ASSUME NEW q \in Payments, NEW r \in PaymentType, payment \in [Payments -> PaymentType]
  PROVE  [payment EXCEPT ![q] = r] \in [Payments -> PaymentType]
<1> HIDE DEF PaymentType
<1> QED OBVIOUS

LEMMA SentFields ==
  ASSUME NEW q \in Payments, NEW b \in BOOLEAN, payment \in [Payments -> PaymentType]
  PROVE  [payment EXCEPT ![q].sent = b] \in [Payments -> PaymentType]
<1>1. [payment EXCEPT ![q].sent = b] = [payment EXCEPT ![q] = [payment[q] EXCEPT !.sent = b]]
  OBVIOUS
<1>2. \A r \in PaymentType : [r EXCEPT !.sent = b] \in PaymentType
  OBVIOUS
<1> QED BY <1>1, <1>2

\* The decisions of the staff and of the gateway's notifications about a payment.
PaymentStep(p) ==
  \/ UpdatePaymentStatus(p, "succeeded")
  \/ \E status \in {"pending", "succeeded", "failed"} : RecheckGatewayPayment(p, status)
  \/ ValidateOrderPaymentFromHistory(p)
  \/ UploadPaymentProof(p) \/ ApprovePaymentProof(p) \/ RejectPaymentProof(p)
  \/ DeletePaymentProof(p) \/ CancelPayment(p) \/ RejectPayment(p)

\* They touch only a payment that exists, keep address, quote and total,
\* and never take paid_at back.
LEMMA PaymentSteps ==
  ASSUME RowsInv, NEW p \in Payments, PaymentStep(p)
  PROVE  /\ order' \in OrderType /\ payment' \in [Payments -> PaymentType]
         /\ payment[p] # NoPayment
         /\ order'.addr = order.addr /\ order'.quote = order.quote
         /\ order'.total = order.total
         /\ order.paidAt => order'.paidAt
<1> USE DEF RowsInv, OrderStatus, PayStatus, PaymentStatus
<1>0. order \in OrderType /\ payment[p] \in PaymentType /\ payment \in [Payments -> PaymentType]
  OBVIOUS
<1>1. Paid \in OrderType /\ Paid.addr = order.addr /\ Paid.quote = order.quote /\ Paid.total = order.total /\ Paid.paidAt
  BY DEF Paid, NextPaidOrderStatus
<1>2. Succeeded(p) \in [Payments -> PaymentType]
  <2>1. Succeeded(p) = [payment EXCEPT ![p] = [payment[p] EXCEPT !.status = "succeeded", !.paidAt = TRUE]]
    BY DEF Succeeded
  <2>2. [payment[p] EXCEPT !.status = "succeeded", !.paidAt = TRUE] \in PaymentType
    <3>1. payment[p] \in PaymentType
      OBVIOUS
    <3>2. "succeeded" \in PaymentStatus /\ TRUE \in BOOLEAN
      OBVIOUS
    <3> HIDE DEF PaymentType, PaymentStatus
    <3> QED BY <3>1, <3>2, PaymentFields
  <2>3. payment \in [Payments -> PaymentType]
    OBVIOUS
  <2> HIDE DEF PaymentType
  <2> QED BY <2>1, <2>2, <2>3
<1>3. CASE UpdatePaymentStatus(p, "succeeded") BY <1>1, <1>3 DEF UpdatePaymentStatus, Exists
<1>4. ASSUME NEW status \in {"pending", "succeeded", "failed"}, RecheckGatewayPayment(p, status)
      PROVE  /\ order' \in OrderType /\ payment' \in [Payments -> PaymentType]
             /\ payment[p] # NoPayment
             /\ order'.addr = order.addr /\ order'.quote = order.quote
             /\ order'.total = order.total
             /\ order.paidAt => order'.paidAt
  <2>1. payment[p] # NoPayment
    BY <1>4 DEF RecheckGatewayPayment
  <2>2. /\ payment' = Succeeded(p) \/ payment' = [payment EXCEPT ![p] = [payment[p] EXCEPT !.status = status]]
        /\ order' = Paid \/ order' = [order EXCEPT !.pay = "pending"]
    BY <1>4 DEF RecheckGatewayPayment
  <2>3. [payment[p] EXCEPT !.status = status] \in PaymentType
    BY <1>0
  <2>4. payment' \in [Payments -> PaymentType]
    <3> HIDE DEF PaymentType
    <3> QED BY <1>0, <1>2, <2>2, <2>3, RowChanges
  <2>5. /\ order' \in OrderType /\ order'.addr = order.addr /\ order'.quote = order.quote
        /\ order'.total = order.total /\ (order.paidAt => order'.paidAt)
    BY <1>0, <1>1, <2>2
  <2> QED BY <2>1, <2>4, <2>5
<1>5. CASE ValidateOrderPaymentFromHistory(p) BY <1>1, <1>2, <1>5 DEF ValidateOrderPaymentFromHistory
<1>6. CASE UploadPaymentProof(p)
  <2>1. payment' = [payment EXCEPT ![p] = [payment[p] EXCEPT !.proof = "uploaded", !.status = "pending_verification"]]
    BY <1>6 DEF UploadPaymentProof
  <2>2. [payment[p] EXCEPT !.proof = "uploaded", !.status = "pending_verification"] \in PaymentType
    <3>1. {"pending", "pending_verification", "rejected"} \subseteq PaymentStatus
      OBVIOUS
    <3> HIDE DEF PaymentType, PaymentStatus
    <3> QED BY <1>0, <3>1, ProofFields
  <2>3. payment' \in [Payments -> PaymentType]
    <3> HIDE DEF PaymentType
    <3> QED BY <1>0, <2>1, <2>2, RowChanges
  <2>4. payment[p] # NoPayment
    BY <1>6 DEF UploadPaymentProof, Exists
  <2>5. order' = [order EXCEPT !.pay = "payment_verification"]
    BY <1>6 DEF UploadPaymentProof
  <2>6. /\ order' \in OrderType /\ order'.addr = order.addr /\ order'.quote = order.quote
        /\ order'.total = order.total /\ (order.paidAt => order'.paidAt)
    BY <1>0, <2>5
  <2> QED BY <2>3, <2>4, <2>6
<1>7. CASE ApprovePaymentProof(p)
  <2>1. payment' = [Succeeded(p) EXCEPT ![p] = [Succeeded(p)[p] EXCEPT !.proof = "approved"]]
    BY <1>7 DEF ApprovePaymentProof
  <2>2. [Succeeded(p)[p] EXCEPT !.proof = "approved"] \in PaymentType
    <3>1. Succeeded(p)[p] \in PaymentType
      BY <1>2
    <3>2. \A r \in PaymentType : [r EXCEPT !.proof = "approved"] \in PaymentType
      OBVIOUS
    <3> HIDE DEF PaymentType
    <3> QED BY <3>1, <3>2
  <2>3. payment[p] # NoPayment
    BY <1>7 DEF ApprovePaymentProof
  <2>4. order' = Paid
    BY <1>7 DEF ApprovePaymentProof
  <2>5. payment' \in [Payments -> PaymentType]
    <3> HIDE DEF PaymentType
    <3> QED BY <1>2, <2>1, <2>2
  <2> QED BY <1>1, <2>3, <2>4, <2>5
<1>8. CASE RejectPaymentProof(p)
  <2>1. payment' = [payment EXCEPT ![p] = [payment[p] EXCEPT !.proof = "rejected", !.status = "rejected"]]
    BY <1>8 DEF RejectPaymentProof
  <2>2. [payment[p] EXCEPT !.proof = "rejected", !.status = "rejected"] \in PaymentType
    <3>1. {"pending", "pending_verification", "rejected"} \subseteq PaymentStatus
      OBVIOUS
    <3> HIDE DEF PaymentType, PaymentStatus
    <3> QED BY <1>0, <3>1, ProofFields
  <2>3. payment' \in [Payments -> PaymentType]
    <3> HIDE DEF PaymentType
    <3> QED BY <1>0, <2>1, <2>2, RowChanges
  <2>4. payment[p] # NoPayment
    BY <1>8 DEF RejectPaymentProof
  <2>5. order' = [order EXCEPT !.pay = "pending"]
    BY <1>8 DEF RejectPaymentProof
  <2>6. /\ order' \in OrderType /\ order'.addr = order.addr /\ order'.quote = order.quote
        /\ order'.total = order.total /\ (order.paidAt => order'.paidAt)
    BY <1>0, <2>5
  <2> QED BY <2>3, <2>4, <2>6
<1>9. CASE DeletePaymentProof(p)
  <2>1. payment' = [payment EXCEPT ![p] = [payment[p] EXCEPT !.proof = "none", !.status = "pending"]]
    BY <1>9 DEF DeletePaymentProof
  <2>2. [payment[p] EXCEPT !.proof = "none", !.status = "pending"] \in PaymentType
    <3>1. {"pending", "pending_verification", "rejected"} \subseteq PaymentStatus
      OBVIOUS
    <3> HIDE DEF PaymentType, PaymentStatus
    <3> QED BY <1>0, <3>1, ProofFields
  <2>3. payment' \in [Payments -> PaymentType]
    <3> HIDE DEF PaymentType
    <3> QED BY <1>0, <2>1, <2>2, RowChanges
  <2>4. payment[p] # NoPayment
    BY <1>9 DEF DeletePaymentProof
  <2>5. order' = order
    BY <1>9 DEF DeletePaymentProof
  <2>6. /\ order' \in OrderType /\ order'.addr = order.addr /\ order'.quote = order.quote
        /\ order'.total = order.total /\ (order.paidAt => order'.paidAt)
    BY <1>0, <2>5
  <2> QED BY <2>3, <2>4, <2>6
<1>10. CASE CancelPayment(p)
  <2>1. /\ payment' = [payment EXCEPT ![p] = [payment[p] EXCEPT !.status = "cancelled"]]
        /\ payment[p] # NoPayment
    BY <1>10 DEF CancelPayment, Active
  <2>2. order' = [order EXCEPT !.status = "draft", !.pay = "pending"]
    BY <1>10 DEF CancelPayment
  <2>3. payment' \in [Payments -> PaymentType]
    <3>1. [payment[p] EXCEPT !.status = "cancelled"] \in PaymentType
      BY <1>0
    <3> HIDE DEF PaymentType
    <3> QED BY <1>0, <2>1, <3>1, RowChanges
  <2>4. /\ order' \in OrderType /\ order'.addr = order.addr /\ order'.quote = order.quote
        /\ order'.total = order.total
        /\ order.paidAt => order'.paidAt
    BY <2>2
  <2> QED BY <2>1, <2>3, <2>4
<1>11. CASE RejectPayment(p) BY <1>11 DEF RejectPayment, Active
<1> QED BY <1>3, <1>4, <1>5, <1>6, <1>7, <1>8, <1>9, <1>10, <1>11 DEF PaymentStep

-----------------------------------------------------------------------------
(* Every step keeps the invariant and, of a paid order, the total. *)

KeepsTotal == order.paidAt /\ ~ EditUnderway => order'.total = order.total /\ order'.paidAt

LEMMA Untouched ==
  ASSUME IInv, UNCHANGED <<order, payment, req, edit, bypassed>>
  PROVE  IInv' /\ KeepsTotal
BY DEF IInv, RowsInv, EditOK, QuoteInv, Ready, Unready, KeepsTotal

\* Where a request of the customer has got to.
LEMMA GotoType ==
  ASSUME RowsInv, NEW r \in Requests, NEW pc \in {"idle", "sent", "read", "refused", "served"} \cup Starting,
         Goto(r, pc),
         r = "payment" /\ pc = "created" => req[r].with \in Payments,
         r = "address" /\ pc \in {"sent", "read"} => req[r].with \in Addresses
  PROVE  /\ req' \in [Requests -> ReqType]
         /\ req'["payment"].pc = "created" => req'["payment"].with \in Payments
         /\ req'["address"].pc \in {"sent", "read"} => req'["address"].with \in Addresses
         /\ req'[r].pc = pc
         /\ \A q \in Requests \ {r} : req'[q] = req[q]
BY DEF Goto, RowsInv

LEMMA PaymentStepInv ==
  ASSUME IInv, NEW p \in Payments, PaymentStep(p), UNCHANGED <<req, edit, bypassed>>
  PROVE  IInv' /\ KeepsTotal
<1>1. /\ order' \in OrderType /\ payment' \in [Payments -> PaymentType]
      /\ payment[p] # NoPayment
      /\ order'.addr = order.addr /\ order'.quote = order.quote
      /\ order'.total = order.total
      /\ order.paidAt => order'.paidAt
  BY PaymentSteps DEF IInv
<1>2. bypassed \/ Ready
  BY <1>1 DEF IInv, QuoteInv, Unready
<1>3. QuoteInv'
  BY <1>1, <1>2 DEF QuoteInv, Ready
<1>4. RowsInv' /\ EditOK'
  BY <1>1 DEF IInv, RowsInv, EditOK
<1> QED BY <1>1, <1>3, <1>4 DEF IInv, KeepsTotal

\* The new address goes in where there was no quote, or the edit was overtaken.
LEMMA AddressInv ==
  ASSUME IInv, NEW a \in Addresses, NEW total \in Totals,
         order' = UpdateShippingAddress(a, total), UNCHANGED payment,
         req'["payment"] = req["payment"],
         bypassed' = (bypassed \/ ~ AcceptsAddress)
  PROVE  order' \in OrderType /\ QuoteInv'
<1>1. /\ order' = [order EXCEPT !.addr = a, !.quote = FALSE, !.total = total,
                                !.status = "awaiting_quote", !.pay = "pending"]
      /\ order \in OrderType
  BY DEF UpdateShippingAddress, IInv, RowsInv
<1>2. order' \in OrderType
  BY <1>1 DEF OrderStatus, PayStatus
<1>3. CASE bypassed \/ ~ AcceptsAddress
  <2>1. bypassed'
    BY <1>3
  <2> QED BY <1>2, <2>1 DEF QuoteInv
<1>4. CASE ~ bypassed /\ AcceptsAddress
  <2>1. Unready
    BY <1>4 DEF IInv, QuoteInv, Ready, AcceptsAddress
  <2>2. Unready'
    BY <1>1, <2>1 DEF Unready
  <2> QED BY <1>2, <2>2 DEF QuoteInv
<1> QED BY <1>2, <1>3, <1>4

\* An edit of the staff's reads the order, and writes it later or never.
LEMMA ReadInv ==
  ASSUME IInv, EditRead
  PROVE  IInv' /\ KeepsTotal
<1>1. PICK kind \in EditKind : /\ Accepts(kind)
                              /\ \E a \in IF kind = "address" THEN Addresses ELSE {order.addr} :
                                   edit' = Edit(kind, a)
  BY DEF EditRead
<1>2. PICK a \in IF kind = "address" THEN Addresses ELSE {order.addr} : edit' = Edit(kind, a)
  BY <1>1
<1>3. a \in Addresses \cup {None} /\ order.paidAt \in BOOLEAN /\ order.pay \in PayStatus
  BY <1>2 DEF IInv, RowsInv
<1>4. IsPaidOrder \in BOOLEAN /\ (order.paidAt => IsPaidOrder)
  BY <1>3 DEF IsPaidOrder
<1>5. order.paidAt => kind = "quote"
  BY <1>1 DEF Accepts, AcceptsAddress, IsOrderLocked, EditKind
<1>6. edit' = [kind |-> kind, addr |-> IF kind \in {"address", "quote"} THEN a ELSE None,
               paid |-> IsPaidOrder, late |-> order.paidAt]
  BY <1>2 DEF Edit
<1>7. EditOK'
  <2>1. edit'.kind = kind /\ edit'.paid = IsPaidOrder /\ edit'.late = order.paidAt
    BY <1>6
  <2>2. edit'.addr = IF kind \in {"address", "quote"} THEN a ELSE None
    BY <1>6
  <2>3. edit' \in EditType
    BY <1>3, <1>4, <1>6 DEF EditType
  <2>4. kind = "address" => a \in Addresses
    BY <1>2
  <2> QED BY <1>4, <1>5, <2>1, <2>2, <2>3, <2>4 DEF EditOK
<1>8. UNCHANGED <<order, payment, req, bypassed>>
  BY DEF EditRead
<1> QED BY <1>7, <1>8 DEF IInv, RowsInv, QuoteInv, Ready, Unready, KeepsTotal

LEMMA QuotedInv ==
  ASSUME IInv, edit # None, edit.kind = "quote", NEW total \in Totals,
         order' = UpdateShippingQuote(edit, total), UNCHANGED <<payment, req>>,
         bypassed' = (bypassed \/ Overtaken(edit))
  PROVE  /\ order' \in OrderType /\ QuoteInv'
         /\ edit.paid => order'.total = order.total /\ order'.paidAt = order.paidAt
<1>1. /\ order' = IF edit.paid THEN [order EXCEPT !.quote = TRUE, !.addr = edit.addr]
                 ELSE [order EXCEPT !.quote = TRUE, !.addr = edit.addr, !.total = total,
                                    !.status = "quote_ready", !.pay = "pending"]
      /\ order \in OrderType /\ edit.addr \in Addresses \cup {None}
  BY DEF UpdateShippingQuote, IInv, RowsInv, EditOK, EditType
<1>2. /\ order' \in OrderType /\ order'.quote /\ order'.addr = edit.addr
      /\ edit.paid => order'.total = order.total /\ order'.paidAt = order.paidAt
      /\ order'.pay \in {order.pay, "pending"}
  BY <1>1 DEF OrderStatus, PayStatus
<1>3. CASE bypassed \/ Overtaken(edit)
  <2>1. bypassed'
    BY <1>3
  <2> QED BY <1>2, <2>1 DEF QuoteInv
<1>4. CASE ~ bypassed /\ ~ Overtaken(edit)
  <2>1. edit.addr = order.addr
    BY <1>4 DEF Overtaken
  <2>2. CASE order.addr # None
    BY <1>2, <2>1, <2>2 DEF QuoteInv, Ready
  <2>3. CASE order.addr = None
    <3>1. Unready
      BY <1>4, <2>3 DEF IInv, QuoteInv, Ready
    <3>2. Unready'
      BY <1>2, <3>1 DEF Unready
    <3> QED BY <1>2, <3>2 DEF QuoteInv
  <2> QED BY <1>2, <2>2, <2>3
<1> QED BY <1>2, <1>3, <1>4

\* An edit that leaves address, quote and payment_status alone, or another one
\* that only puts the order back to pending.
LEMMA RepricedInv ==
  ASSUME IInv, NEW total \in Totals,
         order' = Reprice(total) \/ order' = FinalizeOrder(total),
         UNCHANGED <<payment, req>>, bypassed => bypassed', bypassed' \in BOOLEAN
  PROVE  order' \in OrderType /\ QuoteInv'
<1>1. /\ \/ order' = [order EXCEPT !.total = total]
         \/ order' = [order EXCEPT !.total = total, !.status = "pending"]
      /\ order \in OrderType
  BY DEF Reprice, FinalizeOrder, IInv, RowsInv
<1>2. /\ order' \in OrderType /\ order'.quote = order.quote /\ order'.addr = order.addr
      /\ order'.pay = order.pay /\ order'.status \in {order.status, "pending"}
  BY <1>1 DEF OrderStatus
<1>3. Ready => Ready'
  BY <1>2 DEF Ready
<1>4. Unready => Unready'
  BY <1>2 DEF Unready
<1> QED BY <1>2, <1>3, <1>4 DEF IInv, QuoteInv

LEMMA WriteInv ==
  ASSUME IInv, EditWrite
  PROVE  IInv' /\ KeepsTotal
<1>1. PICK total \in Totals : order' = Written(edit, total)
  BY DEF EditWrite
<1>2. /\ edit # None /\ edit' = None /\ UNCHANGED <<payment, req>>
      /\ bypassed' = (bypassed \/ edit.kind = "pickup" \/ Overtaken(edit))
  BY DEF EditWrite
<1>3. bypassed' \in BOOLEAN /\ (bypassed => bypassed')
  BY <1>2 DEF IInv
<1>4. edit.kind \in EditKind /\ EditOK'
  BY <1>2 DEF IInv, EditOK, EditType
<1>5. edit.kind # "quote" => KeepsTotal
  BY <1>2 DEF IInv, EditOK, KeepsTotal, EditUnderway
<1>6. order' \in OrderType /\ QuoteInv' => RowsInv' /\ QuoteInv'
  BY <1>2 DEF IInv, RowsInv
<1>7. CASE edit.kind = "address"
  <2>1. order' = UpdateShippingAddress(edit.addr, total) /\ edit.addr \in Addresses
    BY <1>1, <1>2, <1>7 DEF Written, IInv, EditOK
  <2>2. Overtaken(edit) = ~ AcceptsAddress
    BY <1>7 DEF Overtaken, Accepts
  <2>3. bypassed' = (bypassed \/ ~ AcceptsAddress)
    BY <1>2, <1>7, <2>2
  <2>4. order' \in OrderType /\ QuoteInv'
    BY <1>2, <2>1, <2>3, AddressInv
  <2> QED BY <1>3, <1>4, <1>5, <1>6, <1>7, <2>4 DEF IInv
<1>8. CASE edit.kind = "quote"
  <2>1. order' = UpdateShippingQuote(edit, total)
    BY <1>1, <1>8 DEF Written
  <2>2. bypassed' = (bypassed \/ Overtaken(edit))
    BY <1>2, <1>8
  <2>3. /\ order' \in OrderType /\ QuoteInv'
        /\ edit.paid => order'.total = order.total /\ order'.paidAt = order.paidAt
    BY <1>2, <1>8, <2>1, <2>2, QuotedInv
  <2>4. KeepsTotal
    BY <1>2, <2>3 DEF IInv, EditOK, KeepsTotal, EditUnderway
  <2> QED BY <1>3, <1>4, <1>6, <2>3, <2>4 DEF IInv
<1>9. CASE edit.kind = "pickup"
  <2>1. order' = [order EXCEPT !.total = total, !.addr = None, !.quote = FALSE]
    BY <1>1, <1>9 DEF Written, MoveToPickup, Reprice
  <2>2. order' \in OrderType
    BY <2>1 DEF IInv, RowsInv
  <2>3. QuoteInv'
    BY <1>2, <1>9 DEF QuoteInv
  <2> QED BY <1>3, <1>4, <1>5, <1>6, <1>9, <2>2, <2>3 DEF IInv
<1>10. CASE edit.kind \in {"finalize", "reprice"}
  <2>1. order' = Reprice(total) \/ order' = FinalizeOrder(total)
    BY <1>1, <1>10 DEF Written
  <2>2. order' \in OrderType /\ QuoteInv'
    BY <1>2, <1>3, <2>1, RepricedInv
  <2> QED BY <1>3, <1>4, <1>5, <1>6, <1>10, <2>2 DEF IInv
<1> QED BY <1>4, <1>7, <1>8, <1>9, <1>10 DEF EditKind

LEMMA EditInv ==
  ASSUME IInv, EditRead \/ EditWrite \/ EditFails
  PROVE  IInv' /\ KeepsTotal
<1>1. CASE EditFails
  BY <1>1 DEF EditFails, IInv, RowsInv, EditOK, QuoteInv, Ready, Unready, KeepsTotal
<1> QED BY <1>1, ReadInv, WriteInv

LEMMA StaffInv ==
  ASSUME IInv, Staff
  PROVE  IInv' /\ KeepsTotal
<1>1. UNCHANGED <<req, edit>>
  BY DEF Staff
<1>2. CASE RequestCustomerConfirmation /\ UNCHANGED bypassed
  <2>1. /\ order' = [order EXCEPT !.status = "waiting_customer_confirmation"]
        /\ order.pay = "paid" /\ UNCHANGED payment
    BY <1>2 DEF RequestCustomerConfirmation
  <2> QED BY <1>1, <1>2, <2>1
          DEF IInv, RowsInv, EditOK, QuoteInv, Ready, Unready, KeepsTotal, OrderStatus, PayStatus
<1>3. ASSUME NEW p \in Payments, PaymentStep(p), UNCHANGED bypassed
      PROVE  IInv' /\ KeepsTotal
  BY <1>1, <1>3, PaymentStepInv
<1>4. ASSUME bypassed' = TRUE, order' \in OrderType, payment' \in [Payments -> PaymentType],
             order'.total = order.total, order'.paidAt = order.paidAt
      PROVE  IInv' /\ KeepsTotal
  BY <1>1, <1>4 DEF IInv, RowsInv, EditOK, QuoteInv, KeepsTotal
<1>5. ASSUME NEW s \in ManualStatuses, UpdateOrderStatus(s), bypassed' = TRUE
      PROVE  IInv' /\ KeepsTotal
  <2>1. order' = [order EXCEPT !.status = s] /\ UNCHANGED payment /\ s \in OrderStatus
    BY <1>5, StatusesAssumption DEF UpdateOrderStatus
  <2> QED BY <1>4, <1>5, <2>1 DEF IInv, RowsInv
<1>6. ASSUME NEW p \in Payments, NEW g \in BOOLEAN, AdminCreatePayment(p, g), bypassed' = TRUE
      PROVE  IInv' /\ KeepsTotal
  <2>1. /\ payment' = [payment EXCEPT ![p] = [NoPayment EXCEPT !.status = "pending", !.gateway = g]]
        /\ UNCHANGED order
    BY <1>6 DEF AdminCreatePayment
  <2>2. payment' \in [Payments -> PaymentType]
    BY <2>1 DEF IInv, RowsInv, PaymentStatus
  <2> QED BY <1>4, <1>6, <2>1, <2>2 DEF IInv, RowsInv
<1> QED BY <1>2, <1>3, <1>5, <1>6 DEF Staff, PaymentStep

\* The server's part of a request; it may be served long after it was checked.
LEMMA ServeInv ==
  ASSUME IInv, Serve
  PROVE  IInv' /\ KeepsTotal
<1> USE DEF IInv
<1>0. EditOK' /\ (WriteAddress \/ UNCHANGED bypassed)
  BY DEF EditOK, Serve, ReadAddress, WriteAddress, ServeConfirm, CheckPayment,
         CancelPendingPaymentsByOrder, CreatePayment, SendToGateway, StoreProof, DropPayment
<1>1. CASE ReadAddress
  <2>1. /\ req["address"].with \in Addresses
        /\ UNCHANGED <<order, payment, bypassed>>
    BY <1>1 DEF ReadAddress, RowsInv
  <2>2. PICK pc \in {"refused", "read"} : Goto("address", pc)
    BY <1>1 DEF ReadAddress
  <2>3. /\ req' \in [Requests -> ReqType] /\ req'["payment"] = req["payment"]
        /\ req'["address"].pc \in {"sent", "read"} => req'["address"].with \in Addresses
    BY <2>1, <2>2, GotoType
  <2> QED BY <1>0, <2>1, <2>3 DEF RowsInv, QuoteInv, Ready, Unready, KeepsTotal
<1>13. CASE WriteAddress
  <2>1. /\ req["address"].with \in Addresses /\ req["address"].pc = "read"
        /\ UNCHANGED payment /\ Goto("address", "served")
        /\ bypassed' = (bypassed \/ ~ AcceptsAddress)
    BY <1>13 DEF WriteAddress, RowsInv
  <2>2. PICK total \in Totals : order' = UpdateShippingAddress(req["address"].with, total)
    BY <1>13 DEF WriteAddress
  <2>3. /\ req' \in [Requests -> ReqType] /\ req'["address"].pc = "served"
        /\ \A q \in Requests \ {"address"} : req'[q] = req[q]
    BY <2>1, GotoType
  <2>4. order' \in OrderType /\ QuoteInv'
    BY <2>1, <2>2, <2>3, AddressInv
  <2>5. RowsInv' /\ bypassed' \in BOOLEAN
    BY <2>1, <2>3, <2>4 DEF RowsInv
  <2> QED BY <1>0, <2>1, <2>4, <2>5 DEF KeepsTotal, EditUnderway
<1>2. CASE ServeConfirm
  <2>1. PICK pc \in {"refused", "served"} : Goto("confirm", pc)
    BY <1>2 DEF ServeConfirm
  <2>2. /\ req' \in [Requests -> ReqType]
        /\ \A q \in Requests \ {"confirm"} : req'[q] = req[q]
    BY <2>1, GotoType
  <2>3. \/ UNCHANGED order
        \/ /\ order.status = "waiting_customer_confirmation"
           /\ \E s \in {"completed", "in_dispute"} : order' = [order EXCEPT !.status = s]
    BY <1>2 DEF ServeConfirm
  <2>4. UNCHANGED payment
    BY <1>2 DEF ServeConfirm
  <2>5. UNCHANGED bypassed
    BY <1>2 DEF ServeConfirm
  <2>6. order' \in OrderType /\ QuoteInv'
    BY <2>2, <2>3, <2>4, <2>5 DEF RowsInv, QuoteInv, Ready, Unready, OrderStatus
  <2> QED BY <1>0, <2>2, <2>3, <2>4, <2>5, <2>6 DEF RowsInv, KeepsTotal
<1>3. CASE CheckPayment
  <2>1. PICK pc \in {"checked", "refused"} : Goto("payment", pc) /\ (pc = "checked" => AcceptsPayment)
    BY <1>3 DEF CheckPayment
  <2>2. /\ req' \in [Requests -> ReqType] /\ req'["payment"].pc = pc
        /\ \A q \in Requests \ {"payment"} : req'[q] = req[q]
    BY <2>1, GotoType
  <2>3. UNCHANGED <<order, payment>>
    BY <1>3 DEF CheckPayment
  <2>4. UNCHANGED bypassed
    BY <1>3 DEF CheckPayment
  <2>5. QuoteInv'
    <3>1. Unready /\ ~ Ready => pc = "refused"
      BY <2>1 DEF AcceptsPayment, Ready, Unready
    <3> QED BY <2>2, <2>3, <2>4, <3>1 DEF QuoteInv, Ready, Unready
  <2> QED BY <1>0, <2>2, <2>3, <2>4, <2>5 DEF RowsInv, KeepsTotal
<1>4. CASE CancelPendingPaymentsByOrder
  <2>1. Goto("payment", "cancelled") /\ req["payment"].pc = "checked"
    BY <1>4 DEF CancelPendingPaymentsByOrder
  <2>2. /\ req' \in [Requests -> ReqType] /\ req'["payment"].pc = "cancelled"
        /\ \A q \in Requests \ {"payment"} : req'[q] = req[q]
    BY <2>1, GotoType
  <2>3. bypassed \/ Ready
    BY <2>1 DEF QuoteInv, Unready
  <2>4. payment' = [p \in Payments |-> IF Active(p) THEN [payment[p] EXCEPT !.status = "cancelled"]
                                                    ELSE payment[p]]
    BY <1>4 DEF CancelPendingPaymentsByOrder
  <2>5. payment' \in [Payments -> PaymentType]
    BY <2>4 DEF RowsInv, PaymentStatus
  <2>6. order' = order \/ order' = [order EXCEPT !.pay = "pending"]
    BY <1>4 DEF CancelPendingPaymentsByOrder
  <2>7. UNCHANGED bypassed
    BY <1>4 DEF CancelPendingPaymentsByOrder
  <2> QED BY <1>0, <2>2, <2>3, <2>5, <2>6, <2>7 DEF RowsInv, QuoteInv, Ready, KeepsTotal, PayStatus
<1>5. CASE CreatePayment
  <2>1. PICK p \in Payments, g \in BOOLEAN :
          /\ payment' = [payment EXCEPT ![p] = [NoPayment EXCEPT !.status = "pending", !.gateway = g]]
          /\ req' = [req EXCEPT !["payment"] = [pc |-> "created", with |-> p]]
    BY <1>5 DEF CreatePayment
  <2>2. order' = order /\ (bypassed \/ Ready) /\ UNCHANGED bypassed
    BY <1>5 DEF CreatePayment, QuoteInv, Unready
  <2>3. payment' \in [Payments -> PaymentType]
    BY <2>1 DEF RowsInv, PaymentStatus
  <2> QED BY <1>0, <2>1, <2>2, <2>3 DEF RowsInv, QuoteInv, Ready, KeepsTotal
<1>6. ASSUME req["payment"].pc = "created", NEW pc \in {"served", "refused"}, Goto("payment", pc),
             order' \in OrderType, payment' \in [Payments -> PaymentType],
             order'.addr = order.addr, order'.quote = order.quote, KeepsTotal,
             UNCHANGED bypassed
      PROVE  IInv' /\ KeepsTotal
  <2>1. bypassed \/ Ready
    BY <1>6 DEF QuoteInv, Unready
  <2>2. /\ req' \in [Requests -> ReqType] /\ req'["payment"].pc = pc
        /\ \A q \in Requests \ {"payment"} : req'[q] = req[q]
    BY <1>6, GotoType
  <2> QED BY <1>0, <1>6, <2>1, <2>2 DEF RowsInv, QuoteInv, Ready
<1>7. CASE SendToGateway
  <2>1. /\ req["payment"].pc = "created" /\ Goto("payment", "served") /\ order' = order
        /\ payment' = [payment EXCEPT ![req["payment"].with].sent = TRUE]
    BY <1>7 DEF SendToGateway
  <2>2. payment' \in [Payments -> PaymentType]
    BY <2>1, SentFields DEF RowsInv
  <2>3. UNCHANGED bypassed
    BY <1>7 DEF SendToGateway
  <2> QED BY <1>6, <2>1, <2>2, <2>3 DEF RowsInv, KeepsTotal
<1>8. CASE StoreProof
  <2> DEFINE p == req["payment"].with
  <2>1. p \in Payments /\ PaymentStep(p)
    BY <1>8 DEF StoreProof, RowsInv, PaymentStep
  <2>2. order' \in OrderType /\ payment' \in [Payments -> PaymentType]
        /\ order'.addr = order.addr /\ order'.quote = order.quote /\ KeepsTotal
    <3> HIDE DEF p
    <3> QED BY <2>1, PaymentSteps DEF KeepsTotal
  <2> QED BY <1>6, <1>8, <2>2 DEF StoreProof
<1>9. CASE DropPayment
  <2>1. /\ req["payment"].pc = "created" /\ Goto("payment", "refused")
        /\ payment' = [payment EXCEPT ![req["payment"].with] = NoPayment]
        /\ \/ order' = order
           \/ order' = [order EXCEPT !.pay = "payment_verification"]
    BY <1>9 DEF DropPayment
  <2>2. payment' \in [Payments -> PaymentType]
    BY <2>1 DEF RowsInv, PaymentStatus
  <2>3. UNCHANGED bypassed
    BY <1>9 DEF DropPayment
  <2> QED BY <1>6, <2>1, <2>2, <2>3 DEF RowsInv, KeepsTotal, PayStatus
<1> QED BY <1>1, <1>13, <1>2, <1>3, <1>4, <1>5, <1>7, <1>8, <1>9 DEF Serve

\* The page sends a request, or takes the answer of one.
LEMMA PageInv ==
  ASSUME IInv,
         \/ handleApplyShippingAddress \/ handleCustomerConfirmation \/ handleStartPayment
         \/ \E r \in Requests : Answered(r)
  PROVE  IInv' /\ KeepsTotal
<1>1. ASSUME NEW r \in Requests, NEW x \in {"sent", "idle"}, NEW w \in Addresses \cup {None},
             req' = [req EXCEPT ![r] = [pc |-> x, with |-> w]],
             r = "address" /\ x = "sent" => w \in Addresses,
             UNCHANGED <<order, payment, edit, bypassed>>
      PROVE  IInv' /\ KeepsTotal
  BY <1>1 DEF IInv, RowsInv, EditOK, QuoteInv, Ready, Unready, KeepsTotal
<1>2. CASE handleApplyShippingAddress
  BY <1>1, <1>2 DEF handleApplyShippingAddress, Send
<1>3. CASE handleCustomerConfirmation
  BY <1>1, <1>3 DEF handleCustomerConfirmation, Send
<1>4. CASE handleStartPayment
  BY <1>1, <1>4 DEF handleStartPayment, Send
<1>5. CASE \E r \in Requests : Answered(r)
  BY <1>1, <1>5 DEF Answered
<1> QED BY <1>2, <1>3, <1>4, <1>5

\* The gateway reports no other end of a payment than these.
ChargeOK == charge \in [Payments -> {"open", "succeeded", "failed"}]

LEMMA ChargeNext ==
  ASSUME ChargeOK, [Next]_vars
  PROVE  ChargeOK'
<1>1. ASSUME NEW p \in Payments, NEW end \in {"succeeded", "failed"}, Settle(p, end)
      PROVE  ChargeOK'
  BY <1>1 DEF Settle, ChargeOK
<1>2. CASE UNCHANGED charge
  BY <1>2 DEF ChargeOK
<1>3. Staff \/ EditRead \/ EditWrite \/ EditFails \/ Expire \/ Serve => UNCHANGED charge
  BY DEF Staff, EditRead, EditWrite, EditFails, Expire, Serve, ReadAddress, WriteAddress, ServeConfirm, CheckPayment, CancelPendingPaymentsByOrder,
         CreatePayment, SendToGateway, StoreProof, DropPayment
<1>4. handleApplyShippingAddress \/ handleCustomerConfirmation \/ handleStartPayment => UNCHANGED charge
  BY DEF handleApplyShippingAddress, handleCustomerConfirmation, handleStartPayment, Send
<1>5. \A p \in Payments : Webhook(p) => UNCHANGED charge
  BY DEF Webhook
<1>6. \A r \in Requests : Answered(r) \/ Unanswered(r) => UNCHANGED charge
  BY DEF Answered, Unanswered
<1>7. \A l \in Requests \cup {"mount"} : Load(l) => UNCHANGED charge
  BY DEF Load, LoadServed, LoadArrives, LoadFails
<1>8. PollAsked \/ PollServed \/ PollArrives \/ PollFails => UNCHANGED charge
  BY DEF PollAsked, PollServed, PollArrives, PollFails
<1>9. UNCHANGED vars => UNCHANGED charge
  BY DEF vars
<1> QED BY <1>1, <1>2, <1>3, <1>4, <1>5, <1>6, <1>7, <1>8, <1>9 DEF Next

LEMMA NextInv ==
  ASSUME IInv, ChargeOK, [Next]_vars
  PROVE  IInv' /\ KeepsTotal
<1>1. CASE Expire
  <2>1. /\ order.status = "pending" /\ order.pay = "pending"
        /\ order' = [order EXCEPT !.status = "cancelled", !.pay = "expired"]
        /\ UNCHANGED <<payment, req, edit, bypassed>>
    BY <1>1 DEF Expire
  <2> QED BY <2>1 DEF IInv, RowsInv, EditOK, QuoteInv, Ready, Unready, KeepsTotal, OrderStatus, PayStatus
<1>2. ASSUME NEW p \in Payments, Webhook(p)
      PROVE  IInv' /\ KeepsTotal
  <2>1. PICK status \in {"pending", "succeeded", "failed"} : RecheckGatewayPayment(p, status)
    BY <1>2 DEF Webhook, ChargeOK
  <2>2. UNCHANGED <<req, edit, bypassed>>
    BY <1>2 DEF Webhook
  <2> QED BY <2>1, <2>2, PaymentStepInv DEF PaymentStep
<1>3. ASSUME NEW p \in Payments, NEW end \in {"succeeded", "failed"}, Settle(p, end)
      PROVE  UNCHANGED <<order, payment, req, edit, bypassed>>
  BY <1>3 DEF Settle
<1>4. ASSUME NEW r \in Requests, Unanswered(r)
      PROVE  UNCHANGED <<order, payment, req, edit, bypassed>>
  BY <1>4 DEF Unanswered
<1>5. ASSUME NEW l \in Requests \cup {"mount"}, Load(l)
      PROVE  UNCHANGED <<order, payment, req, edit, bypassed>>
  BY <1>5 DEF Load, LoadServed, LoadArrives, LoadFails
<1>6. PollAsked \/ PollServed \/ PollArrives \/ PollFails => UNCHANGED <<order, payment, req, edit, bypassed>>
  BY DEF PollAsked, PollServed, PollArrives, PollFails
<1>7. UNCHANGED vars => UNCHANGED <<order, payment, req, edit, bypassed>>
  BY DEF vars
<1> HIDE DEF Requests
<1> QED BY <1>1, <1>2, <1>3, <1>4, <1>5, <1>6, <1>7, Untouched, StaffInv, EditInv, ServeInv, PageInv DEF Next

-----------------------------------------------------------------------------
\* A payment exists only for an order with an address and a shipping quote: no
\* request that was checked earlier, late notification or decision of the staff
\* about a payment gets one in before.  It takes a payment or a status entered
\* by the staff, an order moved to pickup, or an edit that was overtaken between
\* its read and its write (MeStartPayment and UpdateShippingAddress against
\* PaymentHandler.Create, UpdateOrderCustomerAndFulfillment, SetStatus).
THEOREM QuotedFirst == Spec => []QuotedBeforePayment
<1>1. Init => IInv /\ ChargeOK
  BY InitInv DEF Init, ChargeOK
<1>2. IInv /\ ChargeOK /\ [Next]_vars => (IInv /\ ChargeOK)'
  BY NextInv, ChargeNext
<1>3. IInv => QuotedBeforePayment
  BY DEF IInv, QuoteInv, Ready, Unready, QuotedBeforePayment, Exists
<1> QED BY <1>1, <1>2, <1>3, PTL DEF Spec

\* A paid order keeps its total and its paid_at, whatever arrives after and
\* whatever is edited then: only an edit that had read the order before it was
\* paid still writes (isOrderLocked and isPaidOrder of order_service.go, and
\* every payment handler).
THEOREM PaidTotalStays == Spec => PaidOrderKeepsTotal
<1>1. Init => IInv /\ ChargeOK
  BY InitInv DEF Init, ChargeOK
<1>2. IInv /\ ChargeOK /\ [Next]_vars => (IInv /\ ChargeOK)'
  BY NextInv, ChargeNext
<1>3. IInv /\ ChargeOK /\ [Next]_vars
        => [order.paidAt /\ ~ EditUnderway => order'.total = order.total /\ order'.paidAt]_vars
  BY NextInv DEF KeepsTotal
<1> QED BY <1>1, <1>2, <1>3, PTL DEF Spec, PaidOrderKeepsTotal

-----------------------------------------------------------------------------
(* The types, the page's among them: what it holds of the order is always  *)
(* something the server has answered.                                      *)

Loads == Requests \cup {"mount"}
PageType == [view : View \cup {None}, failed : BOOLEAN, loading : BOOLEAN, polling : BOOLEAN,
             poll : View \cup {None, Asked}, load : [Loads -> View \cup {None, Asked}],
             busy : SUBSET Requests]
NewerOK == newer \subseteq Payments \X Payments

HIDE DEF OrderType, PaymentType, ReqType, Starting, Requests, NoPayment

LEMMA TouchType ==
  ASSUME NewerOK, NEW T \in SUBSET Payments, TouchAll(T)
  PROVE  NewerOK'
BY DEF NewerOK, TouchAll

LEMMA PaymentTouches ==
  ASSUME NEW p \in Payments, PaymentStep(p)
  PROVE  TouchAll({p})
BY DEF PaymentStep, UpdatePaymentStatus, RecheckGatewayPayment, ValidateOrderPaymentFromHistory,
       UploadPaymentProof, ApprovePaymentProof, RejectPaymentProof, DeletePaymentProof,
       CancelPayment, RejectPayment, Touch

LEMMA NewerNext ==
  ASSUME RowsInv, ChargeOK, NewerOK, [Next]_vars
  PROVE  NewerOK'
<1>1. CASE UNCHANGED newer
  BY <1>1 DEF NewerOK
<1>2. ASSUME NEW p \in Payments, PaymentStep(p)
      PROVE  NewerOK'
  BY <1>2, PaymentTouches, TouchType
<1>3. ASSUME NEW p \in Payments, Touch(p)
      PROVE  NewerOK'
  BY <1>3, TouchType DEF Touch
<1>4. req["payment"].pc = "created" => req["payment"].with \in Payments
  BY DEF RowsInv
<1>5. CASE Staff
  <2>1. \/ UNCHANGED newer
        \/ \E p \in Payments : PaymentStep(p)
        \/ \E p \in Payments : Touch(p)
    BY <1>5 DEF Staff, UpdateOrderStatus, AdminCreatePayment, RequestCustomerConfirmation, PaymentStep
  <2> QED BY <1>1, <1>2, <1>3, <2>1
<1>6. CASE Serve
  <2>1. CASE ReadAddress \/ WriteAddress \/ ServeConfirm \/ CheckPayment
    BY <1>1, <2>1 DEF ReadAddress, WriteAddress, ServeConfirm, CheckPayment
  <2>2. CASE CancelPendingPaymentsByOrder
    BY <2>2, TouchType DEF CancelPendingPaymentsByOrder
  <2>3. CASE CreatePayment
    BY <1>3, <2>3 DEF CreatePayment
  <2>4. CASE SendToGateway
    BY <1>3, <1>4, <2>4 DEF SendToGateway
  <2>5. CASE StoreProof
    BY <1>2, <1>4, <2>5 DEF StoreProof, PaymentStep
  <2>6. CASE DropPayment
    BY <2>6 DEF DropPayment, NewerOK
  <2> QED BY <1>6, <2>1, <2>2, <2>3, <2>4, <2>5, <2>6 DEF Serve
<1>7. ASSUME NEW p \in Payments, Webhook(p)
      PROVE  NewerOK'
  <2>1. PICK status \in {"pending", "succeeded", "failed"} : RecheckGatewayPayment(p, status)
    BY <1>7 DEF Webhook, ChargeOK
  <2> QED BY <1>2, <2>1 DEF PaymentStep
<1>8. Expire \/ EditRead \/ EditWrite \/ EditFails \/ UNCHANGED vars => UNCHANGED newer
  BY DEF Expire, EditRead, EditWrite, EditFails, vars
<1>9. handleApplyShippingAddress \/ handleCustomerConfirmation \/ handleStartPayment => UNCHANGED newer
  BY DEF handleApplyShippingAddress, handleCustomerConfirmation, handleStartPayment, Send
<1>10. \A p \in Payments, end \in {"succeeded", "failed"} : Settle(p, end) => UNCHANGED newer
  BY DEF Settle
<1>11. \A r \in Requests : Answered(r) \/ Unanswered(r) => UNCHANGED newer
  BY DEF Answered, Unanswered
<1>12. \A l \in Requests \cup {"mount"} : Load(l) => UNCHANGED newer
  BY DEF Load, LoadServed, LoadArrives, LoadFails
<1>13. PollAsked \/ PollServed \/ PollArrives \/ PollFails => UNCHANGED newer
  BY DEF PollAsked, PollServed, PollArrives, PollFails
<1> QED BY <1>1, <1>5, <1>6, <1>7, <1>8, <1>9, <1>10, <1>11, <1>12, <1>13 DEF Next

\* What the server answers is a view of the order: it never looks like an
\* answer that has not come.
LEMMA SnapshotType ==
  ASSUME RowsInv
  PROVE  Snapshot \in View
<1>1. LatestPayment \in Payments \cup {None}
  BY DEF LatestPayment
<1>2. (IF LatestPayment = None THEN "none" ELSE payment[LatestPayment].status) \in PaymentStatus
  BY <1>1 DEF RowsInv, PaymentType, PaymentStatus
<1>3. /\ order.status \in OrderStatus /\ order.pay \in PayStatus
      /\ order.addr \in Addresses \cup {None} /\ order.quote \in BOOLEAN
  BY DEF RowsInv, OrderType
<1> QED BY <1>2, <1>3 DEF Snapshot, View

LEMMA MountedType == Mounted \in PageType
<1>1. [l \in Requests \cup {"mount"} |-> IF l = "mount" THEN Asked ELSE None]
        \in [Loads -> View \cup {None, Asked}]
  BY DEF Loads
<1> HIDE DEF View, Loads
<1> QED BY <1>1 DEF Mounted, PageType

LEMMA LoadType ==
  ASSUME NEW pg \in PageType, NEW l \in Loads, NEW v \in View \cup {None, Asked}
  PROVE  [pg.load EXCEPT ![l] = v] \in [Loads -> View \cup {None, Asked}]
BY DEF PageType

LEMMA RenderType ==
  ASSUME page \in PageType, NEW pg \in PageType, Render(pg)
  PROVE  page' \in PageType
<1>1. [pg EXCEPT !.poll = None] \in PageType
  BY DEF PageType
<1> QED BY <1>1 DEF Render

\* The fields of the page the actions set together.
LEMMA PageFields ==
  ASSUME NEW pg \in PageType, NEW x \in View \cup {None}, NEW f \in BOOLEAN, NEW g \in BOOLEAN,
         NEW h \in BOOLEAN, NEW b \in SUBSET Requests,
         NEW m \in [Loads -> View \cup {None, Asked}]
  PROVE  [pg EXCEPT !.view = x, !.load = m, !.loading = f, !.busy = b, !.polling = g, !.failed = h]
           \in PageType
BY DEF PageType

LEMMA BusyType ==
  ASSUME NEW pg \in PageType, NEW b \in SUBSET Requests
  PROVE  [pg EXCEPT !.busy = b] \in PageType
BY DEF PageType

LEMMA PollType ==
  ASSUME NEW pg \in PageType, NEW v \in View \cup {None, Asked}
  PROVE  [pg EXCEPT !.poll = v] \in PageType
BY DEF PageType

LEMMA LoadsType ==
  ASSUME NEW pg \in PageType, NEW l \in Loads, NEW v \in View \cup {None, Asked}
  PROVE  [pg EXCEPT !.load[l] = v] \in PageType
<1>1. [pg.load EXCEPT ![l] = v] \in [Loads -> View \cup {None, Asked}]
  BY LoadType
<1>2. [pg EXCEPT !.load[l] = v] = [pg EXCEPT !.load = [pg.load EXCEPT ![l] = v]]
  BY DEF PageType
<1> QED BY <1>1, <1>2 DEF PageType

\* A request goes out, or its answer comes, or never comes.
LEMMA RequestPage ==
  ASSUME page \in PageType, NEW r \in Requests,
         (\E w : Send(r, w)) \/ Answered(r) \/ Unanswered(r)
  PROVE  page' \in PageType
<1>1. page.busy \in SUBSET Requests /\ page.polling \in BOOLEAN
  BY DEF PageType
<1>2. CASE \E w : Send(r, w)
  <2>1. [page EXCEPT !.busy = page.busy \cup {r}] \in PageType
    BY <1>1, BusyType
  <2>2. Render([page EXCEPT !.busy = page.busy \cup {r}])
    BY <1>2 DEF Send
  <2> QED BY <2>1, <2>2, RenderType
<1>3. [page EXCEPT !.busy = page.busy \ {r}] \in PageType
  BY <1>1, BusyType
<1>4. CASE Unanswered(r)
  <2>1. Render([page EXCEPT !.busy = page.busy \ {r}])
    BY <1>4 DEF Unanswered
  <2> QED BY <1>3, <2>1, RenderType
<1>5. Reloading(r) \in PageType
  <2> DEFINE p == page.polling \/ r = "payment"
  <2>1. p \in BOOLEAN /\ r \in Loads
    BY DEF Loads
  <2>2. [page EXCEPT !.load[r] = Asked] \in PageType
    BY <2>1, LoadsType
  <2>3. \A pg \in PageType, b \in BOOLEAN :
          [pg EXCEPT !.loading = TRUE, !.failed = FALSE, !.polling = b] \in PageType
    BY DEF PageType
  <2>4. Reloading(r) = [[page EXCEPT !.load[r] = Asked]
                          EXCEPT !.loading = TRUE, !.failed = FALSE, !.polling = p]
    BY DEF Reloading, PageType
  <2> HIDE DEF p
  <2> QED BY <2>1, <2>2, <2>3, <2>4
<1>6. CASE Answered(r)
  <2>1. \/ UNCHANGED page
        \/ Render([page EXCEPT !.busy = page.busy \ {r}])
        \/ Render(Reloading(r))
        \/ page' = Mounted
    BY <1>6 DEF Answered
  <2> QED BY <1>3, <1>5, <2>1, RenderType, MountedType
<1> QED BY <1>2, <1>4, <1>6

\* A load of the order is answered, or fails.
LEMMA LoadPage ==
  ASSUME RowsInv, page \in PageType, NEW l \in Loads, Load(l)
  PROVE  page' \in PageType
<1>1. /\ page.load[l] \in View \cup {None, Asked} /\ page.busy \in SUBSET Requests
      /\ page.view \in View \cup {None} /\ page.loading \in BOOLEAN
      /\ page.polling \in BOOLEAN /\ page.failed \in BOOLEAN
  BY DEF PageType
<1>2. CASE LoadServed(l)
  BY <1>2, LoadsType, SnapshotType DEF LoadServed
<1>3. [page EXCEPT !.load[l] = None] \in PageType
  BY LoadsType
<1>4. page.busy \ {l} \in SUBSET Requests
  BY <1>1
<1>5. CASE LoadArrives(l)
  <2> DEFINE p == page.polling \/ page.load[l].latest # "none"
             pg == [page EXCEPT !.load[l] = None]
             new == [page EXCEPT !.view = page.load[l], !.load[l] = None, !.loading = FALSE,
                                 !.busy = page.busy \ {l}, !.polling = p]
  <2>1. p \in BOOLEAN /\ page.load[l] \in View
    BY <1>1, <1>5 DEF LoadArrives
  <2>2. \A q \in PageType, v \in View, b \in SUBSET Requests, g \in BOOLEAN :
          [q EXCEPT !.view = v, !.loading = FALSE, !.busy = b, !.polling = g] \in PageType
    BY DEF PageType
  <2>3. new = [pg EXCEPT !.view = page.load[l], !.loading = FALSE, !.busy = page.busy \ {l}, !.polling = p]
    BY DEF PageType
  <2>4. Render(new)
    BY <1>5 DEF LoadArrives
  <2> HIDE DEF p, pg, new
  <2>5. pg \in PageType
    BY <1>3 DEF pg
  <2>6. new \in PageType
    BY <1>4, <2>1, <2>2, <2>3, <2>5
  <2> QED BY <2>4, <2>6, RenderType
<1>6. CASE LoadFails(l)
  <2> DEFINE pg == [page EXCEPT !.load[l] = None]
             new == [page EXCEPT !.load[l] = None, !.loading = FALSE, !.busy = page.busy \ {l}, !.failed = TRUE]
  <2>1. \A q \in PageType, b \in SUBSET Requests :
          [q EXCEPT !.loading = FALSE, !.busy = b, !.failed = TRUE] \in PageType
    BY DEF PageType
  <2>2. new = [pg EXCEPT !.loading = FALSE, !.busy = page.busy \ {l}, !.failed = TRUE]
    BY DEF PageType
  <2>3. Render(new)
    BY <1>6 DEF LoadFails
  <2> HIDE DEF pg, new
  <2>4. pg \in PageType
    BY <1>3 DEF pg
  <2>5. new \in PageType
    BY <1>4, <2>1, <2>2, <2>4
  <2> QED BY <2>3, <2>5, RenderType
<1> QED BY <1>2, <1>5, <1>6 DEF Load

\* The poll writes nothing: it reloads the page when it sees an end.
LEMMA PollPage ==
  ASSUME RowsInv, page \in PageType, PollAsked \/ PollServed \/ PollArrives \/ PollFails
  PROVE  page' \in PageType
<1>1. CASE PollAsked
  BY <1>1, PollType DEF PollAsked
<1>2. CASE PollServed
  BY <1>2, PollType, SnapshotType DEF PollServed
<1>3. CASE PollArrives
  BY <1>3, PollType, MountedType DEF PollArrives
<1>4. CASE PollFails
  BY <1>4, PollType DEF PollFails
<1> QED BY <1>1, <1>2, <1>3, <1>4

LEMMA PageNext ==
  ASSUME RowsInv, page \in PageType, [Next]_vars
  PROVE  page' \in PageType
<1>1. Staff \/ EditRead \/ EditWrite \/ EditFails \/ Expire \/ Serve \/ UNCHANGED vars => UNCHANGED page
  BY DEF Staff, EditRead, EditWrite, EditFails, Expire, Serve, ReadAddress, WriteAddress, ServeConfirm, CheckPayment, CancelPendingPaymentsByOrder,
         CreatePayment, SendToGateway, StoreProof, DropPayment, vars
<1>2. handleApplyShippingAddress => \E w : Send("address", w)
  BY DEF handleApplyShippingAddress
<1>3. handleCustomerConfirmation => \E w : Send("confirm", w)
  BY DEF handleCustomerConfirmation
<1>4. handleStartPayment => \E w : Send("payment", w)
  BY DEF handleStartPayment
<1>5. {"address", "confirm", "payment"} \subseteq Requests
  BY DEF Requests
<1>6. \A p \in Payments : Webhook(p) => UNCHANGED page
  BY DEF Webhook
<1>7. \A p \in Payments, end \in {"succeeded", "failed"} : Settle(p, end) => UNCHANGED page
  BY DEF Settle
<1>8. CASE handleApplyShippingAddress \/ handleCustomerConfirmation \/ handleStartPayment
  BY <1>2, <1>3, <1>4, <1>5, <1>8, RequestPage
<1>9. CASE \E r \in Requests : Answered(r) \/ Unanswered(r)
  BY <1>9, RequestPage
<1>10. CASE \E l \in Requests \cup {"mount"} : Load(l)
  BY <1>10, LoadPage DEF Loads
<1>11. CASE PollAsked \/ PollServed \/ PollArrives \/ PollFails
  BY <1>11, PollPage
<1> QED BY <1>1, <1>6, <1>7, <1>8, <1>9, <1>10, <1>11 DEF Next

LEMMA ActsNext ==
  ASSUME acts \in Nat, [Next]_vars
  PROVE  acts' \in Nat
<1>1. Staff \/ EditRead \/ CreatePayment => acts' = acts + 1
  BY DEF Staff, EditRead, CreatePayment
<1>2. Expire \/ EditWrite \/ EditFails \/ UNCHANGED vars => UNCHANGED acts
  BY DEF Expire, EditWrite, EditFails, vars
<1>3. ReadAddress \/ WriteAddress \/ ServeConfirm \/ CheckPayment \/ CancelPendingPaymentsByOrder \/ SendToGateway
        \/ StoreProof \/ DropPayment => UNCHANGED acts
  BY DEF ReadAddress, WriteAddress, ServeConfirm, CheckPayment, CancelPendingPaymentsByOrder, SendToGateway,
         StoreProof, DropPayment
<1>4. handleApplyShippingAddress \/ handleCustomerConfirmation \/ handleStartPayment => UNCHANGED acts
  BY DEF handleApplyShippingAddress, handleCustomerConfirmation, handleStartPayment, Send
<1>5. \A p \in Payments : Webhook(p) \/ (\E end \in {"succeeded", "failed"} : Settle(p, end)) => UNCHANGED acts
  BY DEF Webhook, Settle
<1>6. \A r \in Requests : Answered(r) \/ Unanswered(r) => UNCHANGED acts
  BY DEF Answered, Unanswered
<1>7. \A l \in Requests \cup {"mount"} : Load(l) => UNCHANGED acts
  BY DEF Load, LoadServed, LoadArrives, LoadFails
<1>8. PollAsked \/ PollServed \/ PollArrives \/ PollFails => UNCHANGED acts
  BY DEF PollAsked, PollServed, PollArrives, PollFails
<1> QED BY <1>1, <1>2, <1>3, <1>4, <1>5, <1>6, <1>7, <1>8 DEF Next, Serve

TypeInv == IInv /\ ChargeOK /\ NewerOK /\ page \in PageType /\ acts \in Nat

LEMMA TypeInit == Init => TypeInv
<1>1. Init => IInv
  BY InitInv
<1>2. Init => ChargeOK
  BY DEF Init, ChargeOK
<1>3. Init => NewerOK /\ page \in PageType /\ acts \in Nat
  BY MountedType DEF Init, NewerOK
<1> QED BY <1>1, <1>2, <1>3 DEF TypeInv

LEMMA TypeNext == TypeInv /\ [Next]_vars => TypeInv'
BY NextInv, ChargeNext, NewerNext, PageNext, ActsNext DEF TypeInv, IInv

\* The order, its payments, what the gateway has seen and what the page keeps
\* busy stay what they are declared to be.
THEOREM PaymentTypes == Spec => []TypeOK
<1>1. TypeInv => TypeOK
  BY DEF TypeInv, IInv, RowsInv, EditOK, EditType, ChargeOK, NewerOK, PageType, OrderType, PaymentType, TypeOK
<1> QED BY <1>1, TypeInit, TypeNext, PTL DEF Spec

\* The page's own conditions for offering a payment agree with the server's
\* for taking one (CustomerOrderPage's isAwaitingShippingQuote against the
\* checks of the payment handler), in every state the order can be in: a
\* customer who sees the order as it is can pay whenever it can be paid.
THEOREM PayableOffered == Spec => []PayableIsOffered
<1>1. TypeInv => Snapshot \in View
  BY SnapshotType DEF TypeInv, IInv
<1>2. Snapshot \in View => Snapshot # None
  BY ViewAssumption
<1>3. Snapshot.addr = order.addr /\ Snapshot.status = order.status /\ Snapshot.quote = order.quote
      /\ Snapshot.pay = order.pay
  BY DEF Snapshot
<1>4. ASSUME Snapshot # None, page.view = Snapshot, ~ page.loading, AcceptsPayment, "payment" \notin page.busy
      PROVE  OffersPayment
  <2>1. ~ IsAwaitingShippingQuote(page.view) /\ page.view.pay # "paid"
    BY <1>3, <1>4 DEF AcceptsPayment, HasShippingAddress, IsAwaitingShippingQuote
  <2> QED BY <1>4, <2>1 DEF OffersPayment, Shows, CanSubmit
<1>5. TypeInv => PayableIsOffered
  BY <1>1, <1>2, <1>4 DEF PayableIsOffered
<1> QED BY <1>5, TypeInit, TypeNext, PTL DEF Spec
=============================================================================
