------------------------ MODULE OrderFulfilmentProofs ------------------------
(***************************************************************************)
(* Theorems about OrderFulfilment for any items, shipments, number of      *)
(* concurrent requests, input and administrator's statuses and number of   *)
(* payment successes, whether requests overlap or not.                     *)
(***************************************************************************)
EXTENDS OrderFulfilment, FiniteSetTheorems, TLAPS

\* A request that writes a shipment names it.
OpNamesShipment ==
  \A k \in Workers : op[k].kind \in {"updating", "saved", "counted"} => op[k].ship \in Shipments

\* Whoever saw the order paid saw a success that was committed before; the
\* status "paid" itself may be gone by the time the request acts on it.
PaidBySuccess ==
  /\ order.pay = "paid" => successes > 0
  /\ \A k \in Workers : op[k].seen.pay = "paid" => successes > 0

\* The order's settlement and everything a settlement may be created from.
SettledInv == SettledWasPaid /\ PaidBySuccess

LEMMA IdleType == Idle \in Op /\ Idle.kind = "idle" /\ Idle.seen.pay = "pending"
  BY DEF Idle, Op, OpKind, Row, Absent, Placed, Order, Target, NoTarget,
         OrderStatus, PaymentStatus, DeliveryStatus

\* The status flow returns statuses.
LEMMA NextOrderStatusType ==
  ASSUME NEW o \in Order, NEW ship
  PROVE  NextOrderStatus(o, ship) \in OrderStatus
  BY DEF NextOrderStatus, Order, OrderStatus

LEMMA NextDeliveryStatusType ==
  ASSUME NEW ship
  PROVE  NextDeliveryStatus(ship) \in DeliveryStatus
  BY DEF NextDeliveryStatus, DeliveryStatus

LEMMA OrderFields ==
  ASSUME NEW o \in Order
  PROVE  /\ o.status \in OrderStatus /\ o.pay \in PaymentStatus /\ o.delivery \in DeliveryStatus
         /\ \A s \in OrderStatus :
              /\ [o EXCEPT !.status = s] \in Order
              /\ [o EXCEPT !.status = s].pay = o.pay
         /\ \A s \in OrderStatus, p \in PaymentStatus :
              /\ [o EXCEPT !.status = s, !.pay = p] \in Order
              /\ [o EXCEPT !.pay = p, !.status = s] \in Order
              /\ [o EXCEPT !.status = s, !.pay = p].pay = p
              /\ [o EXCEPT !.pay = p, !.status = s].pay = p
         /\ \A s \in OrderStatus, d \in DeliveryStatus :
              /\ [o EXCEPT !.status = s, !.delivery = d] \in Order
              /\ [o EXCEPT !.status = s, !.delivery = d].pay = o.pay
  BY DEF Order

LEMMA OpFields ==
  ASSUME NEW r \in Op
  PROVE  /\ r.kind \in OpKind
         /\ r.row \in Row
         /\ r.seen \in Order
         /\ r.target.status \in OrderStatus
         /\ r.target.delivery \in DeliveryStatus
  BY DEF Op, Target

\* A request that starts or goes on stays well formed.
LEMMA BeginType ==
  ASSUME TypeOK, OpNamesShipment, NEW k \in Workers, NEW r \in Op,
         r.kind \in {"updating", "saved", "counted"} => r.ship \in Shipments,
         op' = [op EXCEPT ![k] = r]
  PROVE  op' \in [Workers -> Op] /\ OpNamesShipment'
  BY DEF TypeOK, OpNamesShipment

LEMMA FinishType ==
  ASSUME TypeOK, OpNamesShipment, NEW k \in Workers, Finish(k)
  PROVE  op' \in [Workers -> Op] /\ OpNamesShipment' /\ overlapped' \subseteq Workers
  <1>1. overlapped' \subseteq Workers
    BY DEF Finish, TypeOK
  <1>2. QED
    BY <1>1, IdleType, BeginType DEF Finish

LEMMA SaveType ==
  ASSUME TypeOK, OpNamesShipment, NEW k \in Workers, NEW s \in Shipments, NEW r \in Row, Save(k, s, r)
  PROVE  TypeOK' /\ OpNamesShipment'
  <1> DEFINE n == [kind |-> "saved", ship |-> s, row |-> r, seen |-> order, target |-> NoTarget]
  <1>1. n \in Op /\ n.ship \in Shipments
    BY DEF TypeOK, Op, OpKind, NoTarget, Target, OrderStatus, DeliveryStatus
  <1>2. op' = [op EXCEPT ![k] = n]
    BY DEF Save
  <1>3. op' \in [Workers -> Op] /\ OpNamesShipment'
    BY <1>1, <1>2, BeginType
  <1>4. overlapped' \subseteq Workers /\ drifted' \in BOOLEAN
    BY DEF Save, Syncing, TypeOK
  <1>5. QED
    BY <1>3, <1>4 DEF Save, TypeOK

LEMMA ReadOrderType ==
  ASSUME TypeOK, OpNamesShipment, NEW k \in Workers, NEW kind \in {"success", "admin"},
         NEW status \in OrderStatus, ReadOrder(k, kind, status)
  PROVE  TypeOK' /\ OpNamesShipment'
  <1> DEFINE n == [kind |-> kind, ship |-> "none", row |-> Absent, seen |-> order,
                   target |-> [status |-> status, delivery |-> "pending"]]
  <1>1. n \in Op /\ n.kind \notin {"updating", "saved", "counted"}
    BY DEF TypeOK, Op, OpKind, Row, Target, DeliveryStatus
  <1>2. op' = [op EXCEPT ![k] = n]
    BY DEF ReadOrder
  <1>3. op' \in [Workers -> Op] /\ OpNamesShipment'
    BY <1>1, <1>2, BeginType
  <1>4. QED
    BY <1>3 DEF ReadOrder, TypeOK

\* A row that exists keeps its items whatever status it is given.
LEMMA RowFields ==
  ASSUME NEW r \in Row, r # Absent
  PROVE  /\ r.status \in ShipmentStatus
         /\ \A status \in ShipmentStatus : [r EXCEPT !.status = status] \in Row
  BY DEF Row

LEMMA TypeInit ==
  ASSUME Init
  PROVE  TypeOK /\ OpNamesShipment
  <1>1. Placed \in Order
    BY DEF Placed, Order, OrderStatus, PaymentStatus, DeliveryStatus
  <1>2. op \in [Workers -> Op] /\ OpNamesShipment
    BY IdleType DEF Init, OpNamesShipment
  <1>3. shipment \in [Shipments -> Row]
    BY DEF Init, Row
  <1>4. settled \in BOOLEAN
    BY DEF Init
  <1>5. fulfilment \in {"delivery", "pickup"} /\ decision \in Decision /\ refunds \in Nat /\ successes \in Nat
    BY DEF Init, Decision
  <1>6. order \in Order
    BY <1>1 DEF Init
  <1>7. overlapped \subseteq Workers /\ drifted \in BOOLEAN
    BY DEF Init
  <1>8. QED
    BY <1>2, <1>3, <1>4, <1>5, <1>6, <1>7 DEF TypeOK

LEMMA ShipmentType ==
  ASSUME TypeOK, OpNamesShipment, ShipmentNext
  PROVE  TypeOK' /\ OpNamesShipment'
  <1>1. ASSUME NEW k \in Workers, NEW s \in Shipments, NEW items \in SUBSET Items,
               CreateShipment(k, s, items)
        PROVE  TypeOK' /\ OpNamesShipment'
    <2>1. [status |-> "pending", items |-> items] \in Row
      BY DEF Row, ShipmentStatus
    <2>2. QED
      BY <1>1, <2>1, SaveType DEF CreateShipment
  <1>2. ASSUME NEW k \in Workers, NEW s \in Shipments,
               NEW status \in InputStatuses \cup ({shipment[s].status} \ {"absent"}),
               UpdateShipmentRead(k, s, status)
        PROVE  TypeOK' /\ OpNamesShipment'
    <2> DEFINE n == [kind |-> "updating", ship |-> s, row |-> [shipment[s] EXCEPT !.status = status],
                     seen |-> Placed, target |-> NoTarget]
    <2>1. shipment[s] \in Row /\ shipment[s] # Absent
      BY <1>2 DEF TypeOK, UpdateShipmentRead
    <2>2. status \in ShipmentStatus
      BY <2>1, RowFields, StatusesAssumption
    <2>3. [shipment[s] EXCEPT !.status = status] \in Row
      BY <2>1, <2>2, RowFields
    <2>4. n \in Op /\ n.ship \in Shipments
      BY <2>3 DEF Op, OpKind, Placed, Order, NoTarget, Target, OrderStatus, PaymentStatus, DeliveryStatus
    <2>5. op' = [op EXCEPT ![k] = n]
      BY <1>2 DEF UpdateShipmentRead
    <2>6. op' \in [Workers -> Op] /\ OpNamesShipment'
      BY <2>4, <2>5, BeginType
    <2>7. QED
      BY <1>2, <2>6 DEF UpdateShipmentRead, TypeOK
  <1>3. ASSUME NEW k \in Workers, NEW s \in Shipments, DeleteShipment(k, s)
        PROVE  TypeOK' /\ OpNamesShipment'
    BY <1>3, SaveType DEF DeleteShipment, Row
  <1>4. ASSUME NEW k \in Workers, UpdateShipmentSave(k)
        PROVE  TypeOK' /\ OpNamesShipment'
    <2>1. op[k].ship \in Shipments /\ op[k].row \in Row
      BY <1>4, OpFields DEF UpdateShipmentSave, OpNamesShipment, TypeOK
    <2>2. QED
      BY <1>4, <2>1, SaveType DEF UpdateShipmentSave
  <1>5. ASSUME NEW k \in Workers, SyncCount(k)
        PROVE  TypeOK' /\ OpNamesShipment'
    <2> DEFINE ship == [shipment EXCEPT ![op[k].ship] = op[k].row]
               n == [kind |-> "counted", ship |-> op[k].ship, row |-> op[k].row, seen |-> op[k].seen,
                     target |-> [status |-> NextOrderStatus(op[k].seen, ship),
                                 delivery |-> NextDeliveryStatus(ship)]]
    <2>1. op[k].ship \in Shipments /\ op[k].row \in Row /\ op[k].seen \in Order
      BY <1>5, OpFields DEF SyncCount, OpNamesShipment, TypeOK
    <2>2. NextOrderStatus(op[k].seen, ship) \in OrderStatus /\ NextDeliveryStatus(ship) \in DeliveryStatus
      BY <2>1, NextOrderStatusType, NextDeliveryStatusType
    <2>3. n \in Op /\ n.ship \in Shipments
      BY <2>1, <2>2 DEF Op, OpKind, Target
    <2>4. op' = [op EXCEPT ![k] = n]
      BY <1>5 DEF SyncCount
    <2>5. op' \in [Workers -> Op] /\ OpNamesShipment'
      BY <2>3, <2>4, BeginType
    <2>6. QED
      BY <1>5, <2>5 DEF SyncCount, TypeOK
  <1>6. ASSUME NEW k \in Workers, SyncCommit(k)
        PROVE  TypeOK' /\ OpNamesShipment'
    <2>1. op[k] \in Op /\ op[k].ship \in Shipments
      BY <1>6 DEF SyncCommit, OpNamesShipment, TypeOK
    <2>2. order' \in Order
      BY <1>6, <2>1, OpFields, OrderFields DEF SyncCommit, TypeOK
    <2>3. shipment' \in [Shipments -> Row]
      BY <1>6, <2>1, OpFields DEF SyncCommit, TypeOK
    <2>4. op' \in [Workers -> Op] /\ OpNamesShipment' /\ overlapped' \subseteq Workers
      BY <1>6, FinishType DEF SyncCommit
    <2>5. drifted' \in BOOLEAN
      BY <1>6 DEF SyncCommit
    <2>6. QED
      BY <1>6, <2>2, <2>3, <2>4, <2>5 DEF SyncCommit, TypeOK
  <1>7. QED
    BY <1>1, <1>2, <1>3, <1>4, <1>5, <1>6 DEF ShipmentNext

LEMMA OrderType ==
  ASSUME TypeOK, OpNamesShipment, OrderNext
  PROVE  TypeOK' /\ OpNamesShipment'
  <1>1. ASSUME NEW k \in Workers, SuccessRead(k)
        PROVE  TypeOK' /\ OpNamesShipment'
    <2>1. NextPaidOrderStatus(order.status) \in OrderStatus
      BY OrderFields DEF TypeOK, NextPaidOrderStatus, OrderStatus
    <2>2. QED
      BY <1>1, <2>1, ReadOrderType DEF SuccessRead
  <1>2. ASSUME NEW k \in Workers, SuccessCommit(k)
        PROVE  TypeOK' /\ OpNamesShipment'
    <2>1. op[k] \in Op
      BY DEF TypeOK
    <2>2. order' \in Order
      <3> DEFINE s == IF op[k].target.status = op[k].seen.status THEN order.status ELSE op[k].target.status
      <3>1. s \in OrderStatus /\ "paid" \in PaymentStatus
        BY <2>1, OpFields, OrderFields DEF TypeOK, PaymentStatus
      <3>2. order' = [order EXCEPT !.pay = "paid", !.status = s]
        BY <1>2 DEF SuccessCommit, TypeOK, Order
      <3>3. QED
        BY <3>1, <3>2, OrderFields DEF TypeOK
    <2>3. op' \in [Workers -> Op] /\ OpNamesShipment' /\ overlapped' \subseteq Workers
      BY <1>2, FinishType DEF SuccessCommit
    <2>4. successes' \in Nat
      BY <1>2 DEF SuccessCommit, TypeOK
    <2>5. QED
      BY <1>2, <2>2, <2>3, <2>4 DEF SuccessCommit, TypeOK
  <1>3. ASSUME NEW k \in Workers, AdminCommit(k)
        PROVE  TypeOK' /\ OpNamesShipment'
    <2>1. op[k] \in Op
      BY DEF TypeOK
    <2>2. order' \in Order
      BY <1>3, <2>1, OpFields, OrderFields DEF AdminCommit, TypeOK
    <2>3. op' \in [Workers -> Op] /\ OpNamesShipment' /\ overlapped' \subseteq Workers
      BY <1>3, FinishType DEF AdminCommit
    <2>4. settled' \in BOOLEAN
      BY <1>3 DEF AdminCommit, TypeOK
    <2>5. QED
      BY <1>3, <2>2, <2>3, <2>4 DEF AdminCommit, TypeOK
  <1>4. ASSUME NEW k \in Workers, Rollback(k)
        PROVE  TypeOK' /\ OpNamesShipment'
    <2>1. op' \in [Workers -> Op] /\ OpNamesShipment' /\ overlapped' \subseteq Workers
      BY <1>4, FinishType DEF Rollback
    <2>2. QED
      BY <1>4, <2>1 DEF Rollback, TypeOK
  <1>5. ASSUME NEW k \in Workers, NEW status \in AdminStatuses, AdminRead(k, status)
        PROVE  TypeOK' /\ OpNamesShipment'
    BY <1>5, ReadOrderType, StatusesAssumption DEF AdminRead
  <1>6. ASSUME Expire
        PROVE  TypeOK' /\ OpNamesShipment'
    <2>1. order' \in Order
      <3>1. "cancelled" \in OrderStatus /\ "expired" \in PaymentStatus /\ order \in Order
        BY DEF TypeOK, OrderStatus, PaymentStatus
      <3>2. order' = [order EXCEPT !.status = "cancelled", !.pay = "expired"]
        BY <1>6 DEF Expire
      <3>3. QED
        BY <3>1, <3>2, OrderFields
    <2>2. QED
      BY <1>6, <2>1 DEF Expire, TypeOK, OpNamesShipment
  <1>7. QED
    BY <1>1, <1>2, <1>3, <1>4, <1>5, <1>6 DEF OrderNext

\* Every operation under the lock gives the order statuses of its own.
LEMMA ConfirmationType ==
  ASSUME TypeOK, OpNamesShipment, ConfirmationNext
  PROVE  TypeOK' /\ OpNamesShipment'
  <1>1. order' \in Order
    <2>1. CASE RequestCustomerConfirmation
      BY <2>1 DEF RequestCustomerConfirmation, TypeOK, Order, OrderStatus
    <2>2. CASE ApproveCustomerConfirmation
      BY <2>2 DEF ApproveCustomerConfirmation, TypeOK, Order, OrderStatus
    <2>3. CASE RejectCustomerConfirmation
      BY <2>3 DEF RejectCustomerConfirmation, TypeOK, Order, OrderStatus
    <2>4. CASE UpsertSellerDisputeNote
      BY <2>4 DEF UpsertSellerDisputeNote, TypeOK
    <2>5. CASE ResolveDisputeForSeller
      BY <2>5 DEF ResolveDisputeForSeller, TypeOK, Order, OrderStatus
    <2>6. CASE ResolveDisputeForCustomer
      BY <2>6 DEF ResolveDisputeForCustomer, TypeOK
    <2>7. CASE MarkDisputeRefundCompleted
      <3>1. "refunded" \in OrderStatus /\ "refunded" \in PaymentStatus /\ order \in Order
        BY DEF TypeOK, OrderStatus, PaymentStatus
      <3>2. order' = [order EXCEPT !.status = "refunded", !.pay = "refunded"]
        BY <2>7 DEF MarkDisputeRefundCompleted
      <3>3. QED
        BY <3>1, <3>2, OrderFields
    <2>8. QED
      BY <2>1, <2>2, <2>3, <2>4, <2>5, <2>6, <2>7 DEF ConfirmationNext
  <1>2. settled' \in BOOLEAN
    <2>1. SettlementCreated(order) \in BOOLEAN
      BY DEF SettlementCreated
    <2>2. settled' = settled \/ settled' = SettlementCreated(order)
      BY DEF ConfirmationNext,
       RequestCustomerConfirmation, ApproveCustomerConfirmation, RejectCustomerConfirmation,
       UpsertSellerDisputeNote, ResolveDisputeForSeller, ResolveDisputeForCustomer,
       MarkDisputeRefundCompleted
    <2>3. QED
      BY <2>1, <2>2 DEF TypeOK
  <1>3. /\ decision' \in Decision /\ refunds' \in Nat
        /\ UNCHANGED <<fulfilment, shipment, successes, op, overlapped, drifted>>
    BY DEF TypeOK, Decision, ConfirmationNext,
       RequestCustomerConfirmation, ApproveCustomerConfirmation, RejectCustomerConfirmation,
       UpsertSellerDisputeNote, ResolveDisputeForSeller, ResolveDisputeForCustomer,
       MarkDisputeRefundCompleted
  <1>4. QED
    BY <1>1, <1>2, <1>3 DEF TypeOK, OpNamesShipment

\* The rows and the requests in flight are well formed, for every step of
\* shipment_service.go, order_confirmation_service.go and the requests that
\* race with them.
THEOREM TypeCorrect == Spec => []TypeOK
  <1>1. TypeOK /\ OpNamesShipment /\ [Next]_vars => TypeOK' /\ OpNamesShipment'
    <2> SUFFICES ASSUME TypeOK, OpNamesShipment, [Next]_vars
                 PROVE  TypeOK' /\ OpNamesShipment'
      OBVIOUS
    <2>1. CASE Next
      BY <2>1, ShipmentType, OrderType, ConfirmationType DEF Next
    <2>2. CASE UNCHANGED vars
      BY <2>2 DEF vars, TypeOK, OpNamesShipment
    <2>3. QED
      BY <2>1, <2>2
  <1>2. Spec => [](TypeOK /\ OpNamesShipment)
    BY TypeInit, <1>1, PTL DEF Spec
  <1>3. QED
    BY <1>2, PTL

----------------------------------------------------------------------------
\* A step that pays no one and settles nothing leaves the argument alone: the
\* order is no more paid than it was, and what a request saw it saw before.
LEMMA SettledKept ==
  ASSUME TypeOK, SettledInv, NEW k \in Workers, NEW r,
         op' = [op EXCEPT ![k] = r], r.seen.pay = "paid" => successes > 0,
         order'.pay = "paid" => order.pay = "paid",
         settled' => settled \/ op[k].seen.pay = "paid", successes' = successes
  PROVE  SettledInv'
  BY DEF TypeOK, SettledInv, SettledWasPaid, PaidBySuccess

LEMMA SettledInit == Init => SettledInv
  BY IdleType DEF Init, SettledInv, SettledWasPaid, PaidBySuccess, Placed

LEMMA SettledStep ==
  ASSUME TypeOK, SettledInv, [Next]_vars
  PROVE  SettledInv'
  <1>1. ASSUME NEW k \in Workers, NEW s, NEW r, Save(k, s, r)
        PROVE  SettledInv'
    BY <1>1, SettledKept DEF Save, SettledInv, PaidBySuccess
  <1>2. ASSUME NEW k \in Workers, NEW kind, NEW status, ReadOrder(k, kind, status)
        PROVE  SettledInv'
    BY <1>2, SettledKept DEF ReadOrder, SettledInv, PaidBySuccess
  <1>3. CASE ShipmentNext
    <2>1. ASSUME NEW k \in Workers, NEW s \in Shipments, NEW status, UpdateShipmentRead(k, s, status)
          PROVE  SettledInv'
      BY <2>1, SettledKept DEF UpdateShipmentRead, Placed
    <2>2. ASSUME NEW k \in Workers, SyncCount(k)
          PROVE  SettledInv'
      BY <2>2, SettledKept DEF SyncCount, SettledInv, PaidBySuccess
    <2>3. ASSUME NEW k \in Workers, SyncCommit(k)
          PROVE  SettledInv'
      <3>1. order'.pay = order.pay
        BY <2>3 DEF SyncCommit, TypeOK, Order
      <3>2. QED
        BY <2>3, <3>1, IdleType, SettledKept DEF SyncCommit, Finish
    <2>4. QED
      BY <1>1, <1>3, <2>1, <2>2, <2>3
      DEF ShipmentNext, CreateShipment, DeleteShipment, UpdateShipmentSave
  <1>4. CASE OrderNext
    <2>1. ASSUME NEW k \in Workers, SuccessCommit(k)
          PROVE  SettledInv'
      <3>1. successes' > 0
        BY <2>1 DEF SuccessCommit, TypeOK
      <3>2. QED
        BY <3>1 DEF SettledInv, SettledWasPaid, PaidBySuccess
    <2>2. ASSUME NEW k \in Workers, AdminCommit(k)
          PROVE  SettledInv'
      <3>1. order'.pay = order.pay
        BY <2>2 DEF AdminCommit, TypeOK, Order
      <3>2. settled' => settled \/ op[k].seen.pay = "paid"
        BY <2>2 DEF AdminCommit
      <3>3. QED
        BY <2>2, <3>1, <3>2, IdleType, SettledKept DEF AdminCommit, Finish
    <2>3. ASSUME NEW k \in Workers, Rollback(k)
          PROVE  SettledInv'
      BY <2>3, IdleType, SettledKept DEF Rollback, Finish
    <2>4. CASE Expire
      <3>1. order'.pay = "expired"
        BY <2>4 DEF Expire, TypeOK, Order
      <3>2. QED
        BY <2>4, <3>1 DEF Expire, SettledInv, SettledWasPaid, PaidBySuccess
    <2>5. QED
      BY <1>2, <1>4, <2>1, <2>2, <2>3, <2>4 DEF OrderNext, SuccessRead, AdminRead
  <1>5. CASE ConfirmationNext
    <2>1. /\ order'.pay = "paid" => order.pay = "paid"
          /\ settled' => settled \/ order.pay = "paid"
          /\ UNCHANGED <<successes, op>>
      <3>1. CASE RequestCustomerConfirmation
        BY <3>1 DEF RequestCustomerConfirmation
      <3>2. CASE ApproveCustomerConfirmation
        BY <3>2 DEF ApproveCustomerConfirmation, SettlementCreated, TypeOK, Order
      <3>3. CASE RejectCustomerConfirmation
        BY <3>3 DEF RejectCustomerConfirmation, TypeOK, Order
      <3>4. CASE UpsertSellerDisputeNote
        BY <3>4 DEF UpsertSellerDisputeNote
      <3>5. CASE ResolveDisputeForSeller
        BY <3>5 DEF ResolveDisputeForSeller, SettlementCreated, TypeOK, Order
      <3>6. CASE ResolveDisputeForCustomer
        BY <3>6 DEF ResolveDisputeForCustomer
      <3>7. CASE MarkDisputeRefundCompleted
        BY <3>7 DEF MarkDisputeRefundCompleted, TypeOK, Order
      <3>8. QED
        BY <1>5, <3>1, <3>2, <3>3, <3>4, <3>5, <3>6, <3>7 DEF ConfirmationNext
    <2>2. QED
      BY <2>1 DEF SettledInv, SettledWasPaid, PaidBySuccess
  <1>6. CASE UNCHANGED vars
    BY <1>6 DEF vars, SettledInv, SettledWasPaid, PaidBySuccess
  <1>7. QED
    BY <1>3, <1>4, <1>5, <1>6 DEF Next

\* Nothing is owed to the seller of an order no payment of which succeeded,
\* for any administrator's statuses and any number of stale requests:
\* createPendingSettlementTx asks for payment_status "paid", and the
\* administrator's request asks it of the order it read.
THEOREM SettlementNeedsPayment == Spec => []SettledWasPaid
  <1>1. Spec => [](TypeOK /\ SettledInv)
    BY TypeCorrect, SettledInit, SettledStep, PTL DEF Spec
  <1>2. TypeOK /\ SettledInv => SettledWasPaid
    BY DEF SettledInv
  <1>3. QED
    BY <1>1, <1>2, PTL

----------------------------------------------------------------------------
\* What a step may do to the decision of a dispute.
DecisionStep ==
  decision' # decision =>
    \/ decision' = "open" /\ (decision = "none" \/ order.status = "waiting_customer_confirmation")
    \/ decision' \in {"seller_won", "customer_won"} /\ decision \in {"none", "open"}
    \/ decision' = "refunded" /\ decision = "customer_won"

\* Only the operations that hold the order FOR UPDATE write the decision, so no
\* stale request can reopen or turn one.
THEOREM DecisionsFlow == Spec => DecisionFlow
  <1>1. [Next]_vars => [DecisionStep]_vars
    <2> SUFFICES ASSUME Next PROVE DecisionStep
      OBVIOUS
    <2>1. CASE ShipmentNext
      BY <2>1 DEF ShipmentNext, CreateShipment, UpdateShipmentRead, DeleteShipment, UpdateShipmentSave,
                  Save, SyncCount, SyncCommit, DecisionStep
    <2>2. CASE OrderNext
      BY <2>2 DEF OrderNext, SuccessRead, AdminRead, ReadOrder, SuccessCommit, AdminCommit, Rollback,
                  Expire, DecisionStep
    <2>3. CASE ConfirmationNext
      BY <2>3 DEF ConfirmationNext, RequestCustomerConfirmation, ApproveCustomerConfirmation,
                  RejectCustomerConfirmation, UpsertSellerDisputeNote, ResolveDisputeForSeller,
                  ResolveDisputeForCustomer, MarkDisputeRefundCompleted, InOpenDispute, DecisionStep
    <2>4. QED
      BY <2>1, <2>2, <2>3 DEF Next
  <1>2. Spec => [][DecisionStep]_vars
    BY <1>1, PTL DEF Spec
  <1>3. QED
    BY <1>2 DEF DecisionFlow, DecisionStep

----------------------------------------------------------------------------
\* Requests one after another, an administrator who leaves the status alone
\* and a payment that succeeds at most once.
Serial == ~Overlap /\ AdminStatuses = {} /\ MaxSuccesses <= 1

Busy(k) == op[k].kind # "idle"

OneAtATime == \A j, k \in Workers : Busy(j) /\ Busy(k) => j = k

\* What a request in flight has read still holds and what it will write is
\* what the status flow allows from there.
RequestInv ==
  \A k \in Workers :
    /\ op[k].kind # "admin"
    /\ op[k].kind \in {"saved", "counted", "success"} => op[k].seen = order
    /\ op[k].kind = "success" =>
         /\ order.status # "cancelled" /\ successes = 0
         /\ op[k].target.status = NextPaidOrderStatus(order.status)
    /\ op[k].kind = "counted" =>
         \/ op[k].target.status = order.status
         \/ /\ order.pay = "paid" /\ order.status \in Managed
            /\ op[k].target.status \in {"processing", "shipped", "waiting_customer_confirmation"}

\* Before the success the order is pending or expired; after it the order is
\* paid until it is refunded, and ends where its money has gone.
OrderInv ==
  /\ successes = 0 =>
       \/ order.status = "pending" /\ order.pay = "pending"
       \/ order.status = "cancelled" /\ order.pay = "expired"
  /\ successes # 0 =>
       \/ order.pay = "refunded" /\ order.status = "refunded"
       \/ /\ order.pay = "paid"
          /\ order.status \in {"processing", "shipped", "waiting_customer_confirmation",
                               "completed", "in_dispute"}
  /\ refunds = IF order.status = "refunded" THEN 1 ELSE 0
  /\ settled <=> order.status = "completed"

SerialInv == OneAtATime /\ RequestInv /\ OrderInv

\* What order_status_constants.go:10 says of the terminal statuses, of a step.
EndStays == order.status \in {"completed", "cancelled", "refunded"} => order'.status = order.status

LEMMA AloneIdle ==
  ASSUME Serial, Alone
  PROVE  \A j \in Workers : ~Busy(j)
  BY DEF Serial, Alone, Busy

\* The only request in flight goes on, or one starts while there is none.
LEMMA RequestStep ==
  ASSUME TypeOK, OneAtATime, NEW k \in Workers, NEW r, op' = [op EXCEPT ![k] = r],
         Busy(k) \/ \A j \in Workers : ~Busy(j),
         r.kind # "admin",
         r.kind \in {"saved", "counted", "success"} => r.seen = order',
         r.kind = "success" =>
           /\ order'.status # "cancelled" /\ successes' = 0
           /\ r.target.status = NextPaidOrderStatus(order'.status),
         r.kind = "counted" =>
           \/ r.target.status = order'.status
           \/ /\ order'.pay = "paid" /\ order'.status \in Managed
              /\ r.target.status \in {"processing", "shipped", "waiting_customer_confirmation"}
  PROVE  OneAtATime' /\ RequestInv'
  <1>1. op'[k] = r /\ \A j \in Workers : j # k => op'[j] = op[j] /\ op'[j].kind = "idle"
    BY DEF TypeOK, OneAtATime, Busy
  <1>2. OneAtATime'
    BY <1>1 DEF OneAtATime, Busy
  <1>3. RequestInv'
    BY <1>1 DEF RequestInv, NextPaidOrderStatus, Managed
  <1>4. QED
    BY <1>2, <1>3

LEMMA FinishStep ==
  ASSUME TypeOK, OneAtATime, NEW k \in Workers, Busy(k), Finish(k)
  PROVE  OneAtATime' /\ RequestInv'
  BY IdleType, RequestStep DEF Finish

LEMMA OrderKept ==
  ASSUME OrderInv, UNCHANGED <<order, settled, refunds, successes>>
  PROVE  OrderInv' /\ EndStays
  BY DEF OrderInv, EndStays

LEMMA SaveStep ==
  ASSUME TypeOK, SerialInv, NEW k \in Workers, NEW s, NEW r, Save(k, s, r),
         Busy(k) \/ \A j \in Workers : ~Busy(j)
  PROVE  SerialInv' /\ EndStays
  <1> DEFINE n == [kind |-> "saved", ship |-> s, row |-> r, seen |-> order, target |-> NoTarget]
  <1>1. op' = [op EXCEPT ![k] = n] /\ UNCHANGED <<order, settled, refunds, successes>>
    BY DEF Save
  <1>2. n.kind = "saved" /\ n.seen = order'
    BY <1>1
  <1>3. OneAtATime' /\ RequestInv'
    <2> HIDE DEF n
    <2>1. QED
      BY <1>1, <1>2, RequestStep DEF SerialInv
  <1>4. QED
    BY <1>1, <1>3, OrderKept DEF SerialInv

LEMMA ShipmentStep ==
  ASSUME Serial, TypeOK, SerialInv, ShipmentNext
  PROVE  SerialInv' /\ EndStays
  <1>1. ASSUME NEW k \in Workers, NEW s, NEW items, CreateShipment(k, s, items)
        PROVE  SerialInv' /\ EndStays
    BY <1>1, AloneIdle, SaveStep DEF CreateShipment, CanStart
  <1>2. ASSUME NEW k \in Workers, NEW s, NEW status, UpdateShipmentRead(k, s, status)
        PROVE  SerialInv' /\ EndStays
    <2> DEFINE n == [kind |-> "updating", ship |-> s, row |-> [shipment[s] EXCEPT !.status = status],
                     seen |-> Placed, target |-> NoTarget]
    <2>1. op' = [op EXCEPT ![k] = n] /\ UNCHANGED <<order, settled, refunds, successes>>
      BY <1>2 DEF UpdateShipmentRead
    <2>2. n.kind = "updating" /\ \A j \in Workers : ~Busy(j)
      BY <1>2, AloneIdle DEF UpdateShipmentRead, CanStart
    <2>3. OneAtATime' /\ RequestInv'
      <3> HIDE DEF n
      <3>1. QED
        BY <2>1, <2>2, RequestStep DEF SerialInv
    <2>4. QED
      BY <2>1, <2>3, OrderKept DEF SerialInv
  <1>3. ASSUME NEW k \in Workers, NEW s, DeleteShipment(k, s)
        PROVE  SerialInv' /\ EndStays
    BY <1>3, AloneIdle, SaveStep DEF DeleteShipment, CanStart
  <1>4. ASSUME NEW k \in Workers, UpdateShipmentSave(k)
        PROVE  SerialInv' /\ EndStays
    BY <1>4, SaveStep DEF UpdateShipmentSave, Busy
  <1>5. ASSUME NEW k \in Workers, SyncCount(k)
        PROVE  SerialInv' /\ EndStays
    <2> DEFINE ship == [shipment EXCEPT ![op[k].ship] = op[k].row]
               n == [kind |-> "counted", ship |-> op[k].ship, row |-> op[k].row, seen |-> op[k].seen,
                     target |-> [status |-> NextOrderStatus(op[k].seen, ship),
                                 delivery |-> NextDeliveryStatus(ship)]]
    <2>1. op' = [op EXCEPT ![k] = n] /\ UNCHANGED <<order, settled, refunds, successes>>
      BY <1>5 DEF SyncCount
    <2>2. Busy(k) /\ op[k].seen = order
      BY <1>5 DEF SyncCount, Busy, SerialInv, RequestInv
    <2>3. \/ NextOrderStatus(order, ship) = order.status
          \/ /\ order.pay = "paid" /\ order.status \in Managed
             /\ NextOrderStatus(order, ship) \in {"processing", "shipped", "waiting_customer_confirmation"}
      BY DEF NextOrderStatus
    <2>4. OneAtATime' /\ RequestInv'
      <3> HIDE DEF ship
      <3>1. /\ n.kind = "counted" /\ n.seen = order'
            /\ n.target.status = NextOrderStatus(order, ship)
        BY <2>1, <2>2
      <3>2. QED
        BY <2>1, <2>2, <2>3, <3>1, RequestStep DEF SerialInv
    <2>5. QED
      BY <2>1, <2>4, OrderKept DEF SerialInv
  <1>6. ASSUME NEW k \in Workers, SyncCommit(k)
        PROVE  SerialInv' /\ EndStays
    <2>1. Busy(k) /\ OneAtATime' /\ RequestInv'
      BY <1>6, FinishStep DEF SyncCommit, Busy, SerialInv
    <2>2. /\ order'.pay = order.pay
          /\ \/ order'.status = order.status
             \/ /\ order.pay = "paid" /\ order.status \in Managed
                /\ order'.status \in {"processing", "shipped", "waiting_customer_confirmation"}
      BY <1>6 DEF SyncCommit, SerialInv, RequestInv, TypeOK, Order
    <2>3. UNCHANGED <<settled, refunds, successes>>
      BY <1>6 DEF SyncCommit
    <2>4. OrderInv' /\ EndStays
      BY <2>2, <2>3 DEF SerialInv, OrderInv, EndStays, Managed
    <2>5. QED
      BY <2>1, <2>4 DEF SerialInv
  <1>7. QED
    BY <1>1, <1>2, <1>3, <1>4, <1>5, <1>6 DEF ShipmentNext

\* The bound of the successes counts the ones in flight: none has committed
\* when one starts.
LEMMA FirstSuccess ==
  ASSUME Serial, TypeOK, NEW k \in Workers, SuccessRead(k)
  PROVE  successes = 0
  <1> DEFINE S == {j \in Workers : op[j].kind = "success"}
  <1>1. Cardinality(S) \in Nat
    BY ItemsAssumption, FS_Subset, FS_CardinalityType
  <1>2. QED
    BY <1>1, MaxSuccessesAssumption DEF SuccessRead, Serial, TypeOK

LEMMA OrderNextStep ==
  ASSUME Serial, TypeOK, SerialInv, OrderNext
  PROVE  SerialInv' /\ EndStays
  <1>1. ASSUME NEW k \in Workers, SuccessRead(k)
        PROVE  SerialInv' /\ EndStays
    <2> DEFINE n == [kind |-> "success", ship |-> "none", row |-> Absent, seen |-> order,
                     target |-> [status |-> NextPaidOrderStatus(order.status), delivery |-> "pending"]]
    <2>1. /\ op' = [op EXCEPT ![k] = n] /\ UNCHANGED <<order, settled, refunds, successes>>
          /\ order.status # "cancelled"
          /\ \A j \in Workers : ~Busy(j)
      BY <1>1, AloneIdle DEF SuccessRead, ReadOrder, CanStart
    <2>2. successes = 0
      BY <1>1, FirstSuccess
    <2>3. OneAtATime' /\ RequestInv'
      <3>1. /\ n.kind = "success" /\ n.seen = order'
            /\ n.target.status = NextPaidOrderStatus(order'.status)
            /\ order'.status # "cancelled" /\ successes' = 0
        BY <2>1, <2>2
      <3> HIDE DEF n
      <3>2. QED
        BY <2>1, <3>1, RequestStep DEF SerialInv
    <2>4. QED
      BY <2>1, <2>3, OrderKept DEF SerialInv
  <1>2. ASSUME NEW k \in Workers, SuccessCommit(k)
        PROVE  SerialInv' /\ EndStays
    <2>1. OneAtATime' /\ RequestInv'
      BY <1>2, FinishStep DEF SuccessCommit, Busy, SerialInv
    <2>2. /\ op[k].seen = order /\ order.status # "cancelled" /\ successes = 0
          /\ op[k].target.status = NextPaidOrderStatus(order.status)
      BY <1>2 DEF SuccessCommit, SerialInv, RequestInv
    <2>3. order.status = "pending"
      BY <2>2 DEF SerialInv, OrderInv
    <2>4. order'.pay = "paid" /\ order'.status = "processing"
      BY <1>2, <2>2, <2>3 DEF SuccessCommit, NextPaidOrderStatus, TypeOK, Order
    <2>5. successes' = 1 /\ UNCHANGED <<settled, refunds>>
      BY <1>2, <2>2 DEF SuccessCommit
    <2>6. OrderInv' /\ EndStays
      BY <2>3, <2>4, <2>5 DEF SerialInv, OrderInv, EndStays
    <2>7. QED
      BY <2>1, <2>6 DEF SerialInv
  <1>3. ASSUME NEW k \in Workers, AdminCommit(k)
        PROVE  SerialInv' /\ EndStays
    BY <1>3 DEF AdminCommit, SerialInv, RequestInv
  <1>4. ASSUME NEW k \in Workers, Rollback(k)
        PROVE  SerialInv' /\ EndStays
    <2>1. OneAtATime' /\ RequestInv'
      BY <1>4, FinishStep DEF Rollback, Busy, SerialInv
    <2>2. QED
      BY <1>4, <2>1, OrderKept DEF Rollback, SerialInv
  <1>5. ASSUME NEW k \in Workers, NEW status \in AdminStatuses, AdminRead(k, status)
        PROVE  SerialInv' /\ EndStays
    BY DEF Serial
  <1>6. ASSUME Expire
        PROVE  SerialInv' /\ EndStays
    <2>1. op' = op /\ \A j \in Workers : ~Busy(j)
      BY <1>6, AloneIdle DEF Expire
    <2>2. OneAtATime' /\ RequestInv'
      BY <2>1 DEF OneAtATime, RequestInv, Busy
    <2>3. order'.pay = "expired" /\ order'.status = "cancelled" /\ order.status = "pending"
      BY <1>6 DEF Expire, TypeOK, Order
    <2>4. UNCHANGED <<settled, refunds, successes>>
      BY <1>6 DEF Expire
    <2>5. OrderInv' /\ EndStays
      BY <2>3, <2>4 DEF SerialInv, OrderInv, EndStays
    <2>6. QED
      BY <2>2, <2>5 DEF SerialInv
  <1>7. QED
    BY <1>1, <1>2, <1>3, <1>4, <1>5, <1>6 DEF OrderNext

LEMMA ConfirmationStep ==
  ASSUME Serial, TypeOK, SerialInv, ConfirmationNext
  PROVE  SerialInv' /\ EndStays
  <1>1. Alone /\ op' = op
    BY DEF CanLockOrder, ConfirmationNext, RequestCustomerConfirmation, ApproveCustomerConfirmation,
           RejectCustomerConfirmation, UpsertSellerDisputeNote, ResolveDisputeForSeller,
           ResolveDisputeForCustomer, MarkDisputeRefundCompleted
  <1>2. OneAtATime' /\ RequestInv'
    BY <1>1, AloneIdle DEF OneAtATime, RequestInv, Busy
  <1>3. OrderInv' /\ EndStays
    <2>1. CASE RequestCustomerConfirmation
      <3>1. order'.pay = order.pay /\ order'.status = "waiting_customer_confirmation"
        BY <2>1 DEF RequestCustomerConfirmation, TypeOK, Order
      <3>2. /\ order.pay = "paid" /\ order.status \notin {"cancelled", "completed"}
            /\ UNCHANGED <<settled, refunds, successes>>
        BY <2>1 DEF RequestCustomerConfirmation
      <3>3. QED
        BY <3>1, <3>2 DEF SerialInv, OrderInv, EndStays
    <2>2. CASE ApproveCustomerConfirmation
      <3>1. order'.pay = order.pay /\ order'.status = "completed"
        BY <2>2 DEF ApproveCustomerConfirmation, TypeOK, Order
      <3>2. /\ order.status = "waiting_customer_confirmation"
            /\ settled' = (settled \/ order.pay = "paid") /\ UNCHANGED <<refunds, successes>>
        BY <2>2 DEF ApproveCustomerConfirmation, SettlementCreated
      <3>3. QED
        BY <3>1, <3>2 DEF SerialInv, OrderInv, EndStays
    <2>3. CASE RejectCustomerConfirmation
      <3>1. order'.pay = order.pay /\ order'.status = "in_dispute"
        BY <2>3 DEF RejectCustomerConfirmation, TypeOK, Order
      <3>2. /\ order.status = "waiting_customer_confirmation"
            /\ UNCHANGED <<settled, refunds, successes>>
        BY <2>3 DEF RejectCustomerConfirmation
      <3>3. QED
        BY <3>1, <3>2 DEF SerialInv, OrderInv, EndStays
    <2>4. CASE UpsertSellerDisputeNote
      BY <2>4, OrderKept DEF UpsertSellerDisputeNote, SerialInv
    <2>5. CASE ResolveDisputeForSeller
      <3>1. order'.pay = order.pay /\ order'.status = "completed"
        BY <2>5 DEF ResolveDisputeForSeller, TypeOK, Order
      <3>2. /\ order.status = "in_dispute"
            /\ settled' = (settled \/ order.pay = "paid") /\ UNCHANGED <<refunds, successes>>
        BY <2>5 DEF ResolveDisputeForSeller, InOpenDispute, SettlementCreated
      <3>3. QED
        BY <3>1, <3>2 DEF SerialInv, OrderInv, EndStays
    <2>6. CASE ResolveDisputeForCustomer
      BY <2>6, OrderKept DEF ResolveDisputeForCustomer, SerialInv
    <2>7. CASE MarkDisputeRefundCompleted
      <3>1. order'.pay = "refunded" /\ order'.status = "refunded"
        BY <2>7 DEF MarkDisputeRefundCompleted, TypeOK, Order
      <3>2. /\ order.status = "in_dispute" /\ refunds' = refunds + 1
            /\ UNCHANGED <<settled, successes>>
        BY <2>7 DEF MarkDisputeRefundCompleted
      <3>3. QED
        BY <3>1, <3>2 DEF SerialInv, OrderInv, EndStays
    <2>8. QED
      BY <2>1, <2>2, <2>3, <2>4, <2>5, <2>6, <2>7 DEF ConfirmationNext
  <1>4. QED
    BY <1>2, <1>3 DEF SerialInv

LEMMA SerialInit == Init => SerialInv
  BY DEF Init, SerialInv, OneAtATime, RequestInv, OrderInv, Busy, Idle, Placed

LEMMA SerialStep ==
  ASSUME Serial, TypeOK, SerialInv, [Next]_vars
  PROVE  SerialInv' /\ [EndStays]_vars
  <1>1. CASE Next
    BY <1>1, ShipmentStep, OrderNextStep, ConfirmationStep DEF Next
  <1>2. CASE UNCHANGED vars
    BY <1>2 DEF vars, SerialInv, OneAtATime, RequestInv, OrderInv, Busy
  <1>3. QED
    BY <1>1, <1>2

LEMMA SerialAlways ==
  ASSUME Serial
  PROVE  Spec => [](TypeOK /\ SerialInv)
  BY TypeCorrect, SerialInit, SerialStep, PTL DEF Spec

\* When requests do not overlap, no administrator sets the status by hand and
\* the payment succeeds once, an order is completed exactly when a settlement
\* of it exists and refunded exactly when its customer was credited, whatever
\* the shipments, confirmations and disputes in between.
THEOREM OutcomeIsBacked ==
  ASSUME Serial
  PROVE  Spec => []OutcomeBacked
  <1>1. SerialInv => OutcomeBacked
    BY DEF SerialInv, OrderInv, OutcomeBacked
  <1>2. QED
    BY <1>1, SerialAlways, PTL

\* Under the same conditions the customer's money leaves once: it is owed to
\* the seller or returned to the customer, never both and never twice.
THEOREM MoneyLeavesOnce ==
  ASSUME Serial
  PROVE  Spec => []PaidOutOnce
  <1>1. SerialInv => PaidOutOnce
    BY DEF SerialInv, OrderInv, PaidOutOnce
  <1>2. QED
    BY <1>1, SerialAlways, PTL

\* Under the same conditions completed, cancelled and refunded are terminal, as
\* order_status_constants.go:10 says; the runs that refute it need a race or a
\* repeated success.
THEOREM TerminalIsTerminal ==
  ASSUME Serial
  PROVE  Spec => TerminalStaysTerminal
  <1>1. TypeOK /\ SerialInv /\ [Next]_vars => [EndStays]_vars
    BY SerialStep
  <1>2. Spec => [][EndStays]_vars
    BY <1>1, SerialAlways, PTL DEF Spec
  <1>3. QED
    BY <1>2 DEF TerminalStaysTerminal, EndStays

----------------------------------------------------------------------------
(* What a shipment request has counted still holds when it commits, as     *)
(* long as requests do not overlap: whatever administrators set and        *)
(* however often the payment succeeds.                                     *)

\* The shipments as they are once worker k has committed.
After(k) == [shipment EXCEPT ![op[k].ship] = op[k].row]

CountedInv ==
  /\ OneAtATime
  /\ \A k \in Workers :
       /\ op[k].kind \in {"saved", "counted"} => op[k].seen.delivery = order.delivery
       /\ op[k].kind = "counted" =>
            /\ op[k].target.delivery = NextDeliveryStatus(After(k))
            /\ op[k].target.status = NextOrderStatus(op[k].seen, After(k))
       /\ op[k].kind = "success" => op[k].target.status \in {op[k].seen.status, "processing"}
       /\ op[k].kind = "admin" => op[k].target.status \in AdminStatuses

\* The only request in flight goes on, or one starts while there is none.
LEMMA CountedBegin ==
  ASSUME TypeOK, OneAtATime, NEW k \in Workers, NEW r, op' = [op EXCEPT ![k] = r],
         Busy(k) \/ \A j \in Workers : ~Busy(j),
         UNCHANGED <<fulfilment, order, shipment>>,
         r.kind \in {"saved", "counted"} => r.seen.delivery = order.delivery,
         r.kind = "counted" =>
           /\ r.target.delivery = NextDeliveryStatus([shipment EXCEPT ![r.ship] = r.row])
           /\ r.target.status = NextOrderStatus(r.seen, [shipment EXCEPT ![r.ship] = r.row]),
         r.kind = "success" => r.target.status \in {r.seen.status, "processing"},
         r.kind = "admin" => r.target.status \in AdminStatuses
  PROVE  CountedInv'
  <1>1. op'[k] = r /\ \A j \in Workers : j # k => op'[j] = op[j] /\ op'[j].kind = "idle"
    BY DEF TypeOK, OneAtATime, Busy
  <1>2. OneAtATime'
    BY <1>1 DEF OneAtATime, Busy
  <1>3. r.kind = "counted" => /\ r.target.delivery = NextDeliveryStatus(After(k))'
                              /\ r.target.status = NextOrderStatus(op[k].seen, After(k))'
    <2> DEFINE ship == [shipment EXCEPT ![r.ship] = r.row]
    <2>1. After(k)' = ship
      BY <1>1 DEF After
    <2>2. op[k]' = r /\ fulfilment' = fulfilment
      BY <1>1
    <2>3. (r.kind = "counted") => /\ r.target.delivery = NextDeliveryStatus(ship)
                                  /\ r.target.status = NextOrderStatus(r.seen, ship)
      OBVIOUS
    <2> HIDE DEF ship
    <2>4. NextDeliveryStatus(After(k))' = NextDeliveryStatus(ship)
      BY <2>1, <2>2 DEF NextDeliveryStatus
    <2>5. /\ AllDelivered(After(k))' = AllDelivered(ship)
          /\ AllAssigned(After(k))' = AllAssigned(ship)
          /\ Active(After(k))' = Active(ship)
          /\ ActiveStatuses(After(k))' = ActiveStatuses(ship)
      BY <2>1
    <2>6. NextOrderStatus(op[k].seen, After(k))' = NextOrderStatus(r.seen, ship)
      BY <2>2, <2>5 DEF NextOrderStatus
    <2>7. QED
      BY <2>3, <2>4, <2>6
  <1>4. QED
    BY <1>1, <1>2, <1>3 DEF CountedInv

LEMMA CountedFinish ==
  ASSUME TypeOK, OneAtATime, NEW k \in Workers, Busy(k), Finish(k)
  PROVE  CountedInv'
  <1>1. \A j \in Workers : op'[j].kind = "idle"
    BY IdleType DEF Finish, TypeOK, OneAtATime, Busy
  <1>2. QED
    BY <1>1 DEF CountedInv, OneAtATime, Busy

LEMMA NoneBusy ==
  ASSUME \A j \in Workers : ~Busy(j), op' = op
  PROVE  CountedInv'
  BY DEF CountedInv, OneAtATime, Busy

LEMMA AloneNow ==
  ASSUME ~Overlap, Alone
  PROVE  \A j \in Workers : ~Busy(j)
  BY DEF Alone, Busy

LEMMA CountedSave ==
  ASSUME TypeOK, OneAtATime, NEW k \in Workers, NEW s, NEW r, Save(k, s, r),
         Busy(k) \/ \A j \in Workers : ~Busy(j)
  PROVE  CountedInv'
  <1> DEFINE n == [kind |-> "saved", ship |-> s, row |-> r, seen |-> order, target |-> NoTarget]
  <1>1. op' = [op EXCEPT ![k] = n] /\ UNCHANGED <<fulfilment, order, shipment>>
    BY DEF Save
  <1>2. n.kind = "saved" /\ n.seen.delivery = order.delivery
    OBVIOUS
  <1> HIDE DEF n
  <1>3. QED
    BY <1>1, <1>2, CountedBegin

\* A count is of the shipments as they will be once it is committed.
LEMMA CountedCount ==
  ASSUME TypeOK, CountedInv, NEW k \in Workers, SyncCount(k)
  PROVE  CountedInv'
  <1> DEFINE n == [kind |-> "counted", ship |-> op[k].ship, row |-> op[k].row, seen |-> op[k].seen,
                   target |-> [status |-> NextOrderStatus(op[k].seen, After(k)),
                               delivery |-> NextDeliveryStatus(After(k))]]
  <1>1. op' = [op EXCEPT ![k] = n] /\ UNCHANGED <<fulfilment, order, shipment>> /\ op[k].kind = "saved"
    BY DEF SyncCount, After
  <1>2. /\ n.kind = "counted" /\ n.seen.delivery = order.delivery
        /\ n.target.delivery = NextDeliveryStatus([shipment EXCEPT ![n.ship] = n.row])
        /\ n.target.status = NextOrderStatus(n.seen, [shipment EXCEPT ![n.ship] = n.row])
    BY <1>1 DEF CountedInv, After
  <1> HIDE DEF n
  <1>3. QED
    BY <1>1, <1>2, CountedBegin DEF CountedInv, Busy

LEMMA CountedStep ==
  ASSUME ~Overlap, TypeOK, CountedInv, [Next]_vars
  PROVE  CountedInv'
  <1> USE DEF CountedInv
  <1>1. ASSUME NEW k \in Workers, NEW s \in Shipments, NEW items \in SUBSET Items,
               CreateShipment(k, s, items)
        PROVE  CountedInv'
    BY <1>1, AloneNow, CountedSave DEF CreateShipment, CanStart
  <1>2. ASSUME NEW k \in Workers, NEW s \in Shipments, NEW status, UpdateShipmentRead(k, s, status)
        PROVE  CountedInv'
    <2> DEFINE n == [kind |-> "updating", ship |-> s, row |-> [shipment[s] EXCEPT !.status = status],
                     seen |-> Placed, target |-> NoTarget]
    <2>1. op' = [op EXCEPT ![k] = n] /\ UNCHANGED <<fulfilment, order, shipment>>
      BY <1>2 DEF UpdateShipmentRead
    <2>2. n.kind = "updating" /\ \A j \in Workers : ~Busy(j)
      BY <1>2, AloneNow DEF UpdateShipmentRead, CanStart
    <2> HIDE DEF n
    <2>3. QED
      BY <2>1, <2>2, CountedBegin
  <1>3. ASSUME NEW k \in Workers, NEW s \in Shipments, DeleteShipment(k, s)
        PROVE  CountedInv'
    BY <1>3, AloneNow, CountedSave DEF DeleteShipment, CanStart
  <1>4. ASSUME NEW k \in Workers, UpdateShipmentSave(k)
        PROVE  CountedInv'
    BY <1>4, CountedSave DEF UpdateShipmentSave, Busy
  <1>5. ASSUME NEW k \in Workers, SyncCommit(k) \/ SuccessCommit(k) \/ AdminCommit(k) \/ Rollback(k)
        PROVE  CountedInv'
    BY <1>5, CountedFinish DEF SyncCommit, SuccessCommit, AdminCommit, Rollback, Busy
  <1>6. ASSUME NEW k \in Workers, NEW kind \in {"success", "admin"}, NEW status, ReadOrder(k, kind, status),
               kind = "success" => status \in {order.status, "processing"},
               kind = "admin" => status \in AdminStatuses
        PROVE  CountedInv'
    <2> DEFINE n == [kind |-> kind, ship |-> "none", row |-> Absent, seen |-> order,
                     target |-> [status |-> status, delivery |-> "pending"]]
    <2>1. op' = [op EXCEPT ![k] = n] /\ UNCHANGED <<fulfilment, order, shipment>>
      BY <1>6 DEF ReadOrder
    <2>2. n.kind = kind /\ n.target.status = status /\ n.seen.status = order.status
          /\ \A j \in Workers : ~Busy(j)
      BY <1>6, AloneNow DEF ReadOrder, CanStart
    <2> HIDE DEF n
    <2>3. QED
      BY <1>6, <2>1, <2>2, CountedBegin
  <1>7. ASSUME NEW k \in Workers, SuccessRead(k) \/ \E status \in AdminStatuses : AdminRead(k, status)
        PROVE  CountedInv'
    BY <1>6, <1>7 DEF SuccessRead, AdminRead, NextPaidOrderStatus
  <1>8. CASE Expire \/ ConfirmationNext
    <2>1. Alone /\ op' = op
      BY <1>8 DEF Expire, CanLockOrder, ConfirmationNext, RequestCustomerConfirmation,
           ApproveCustomerConfirmation, RejectCustomerConfirmation, UpsertSellerDisputeNote,
           ResolveDisputeForSeller, ResolveDisputeForCustomer, MarkDisputeRefundCompleted
    <2>2. QED
      BY <2>1, AloneNow, NoneBusy
  <1>9. CASE UNCHANGED vars
    <2>1. UNCHANGED <<fulfilment, order, shipment, op>>
      BY <1>9 DEF vars
    <2>2. QED
      BY <2>1 DEF OneAtATime, Busy, After, NextDeliveryStatus, NextOrderStatus
  <1>10. QED
    BY <1>1, <1>2, <1>3, <1>4, <1>5, <1>7, <1>8, <1>9, CountedCount DEF Next, ShipmentNext, OrderNext

LEMMA CountedInit == Init => CountedInv
  <1> SUFFICES ASSUME Init PROVE CountedInv
    OBVIOUS
  <1>1. \A k \in Workers : op[k].kind = "idle"
    BY IdleType DEF Init
  <1>2. QED
    BY <1>1 DEF CountedInv, OneAtATime, Busy

\* What a shipment request commits, of the order and the shipments.
LEMMA SyncEffect ==
  ASSUME TypeOK, OpNamesShipment, CountedInv, NEW k \in Workers, SyncCommit(k)
  PROVE  /\ shipment' = After(k) /\ fulfilment' = fulfilment
         /\ order'.delivery = NextDeliveryStatus(After(k))
         /\ order'.status \in {order.status, op[k].target.status}
         /\ order'.status = order.status \/ op[k].target.status # op[k].seen.status
         /\ op[k].target.status = NextOrderStatus(op[k].seen, After(k))
  <1>1. /\ op[k].kind = "counted" /\ shipment' = After(k) /\ fulfilment' = fulfilment
        /\ order' = [order EXCEPT
             !.status = IF op[k].target.status = op[k].seen.status THEN @ ELSE op[k].target.status,
             !.delivery = IF op[k].target.delivery = op[k].seen.delivery THEN @ ELSE op[k].target.delivery]
    BY DEF SyncCommit, After
  <1>2. /\ op[k].seen.delivery = order.delivery
        /\ op[k].target.delivery = NextDeliveryStatus(After(k))
        /\ op[k].target.status = NextOrderStatus(op[k].seen, After(k))
    BY <1>1 DEF CountedInv
  <1>3. /\ order'.status = IF op[k].target.status = op[k].seen.status THEN order.status ELSE op[k].target.status
        /\ order'.delivery = IF op[k].target.delivery = op[k].seen.delivery THEN order.delivery
                                                                             ELSE op[k].target.delivery
    BY <1>1 DEF TypeOK, Order
  <1>4. QED
    BY <1>1, <1>2, <1>3

\* TypeCorrect and the argument above, of every state.
LEMMA CountedAlways ==
  ASSUME ~Overlap
  PROVE  Spec => [](TypeOK /\ OpNamesShipment /\ CountedInv)
  <1>1. Init => TypeOK /\ OpNamesShipment /\ CountedInv
    BY TypeInit, CountedInit
  <1>2. ASSUME TypeOK, OpNamesShipment, CountedInv, [Next]_vars
        PROVE  TypeOK' /\ OpNamesShipment' /\ CountedInv'
    <2>1. TypeOK' /\ OpNamesShipment'
      <3>1. CASE Next
        BY <1>2, <3>1, ShipmentType, OrderType, ConfirmationType DEF Next
      <3>2. CASE UNCHANGED vars
        BY <1>2, <3>2 DEF vars, TypeOK, OpNamesShipment
      <3>3. QED
        BY <1>2, <3>1, <3>2
    <2>2. QED
      BY <1>2, <2>1, CountedStep
  <1>3. QED
    BY <1>1, <1>2, PTL DEF Spec

----------------------------------------------------------------------------
(* The delivery status, whatever overlaps                                  *)

\* Nothing but a shipment's commit writes the delivery status.
LEMMA NotSyncing ==
  ASSUME TypeOK, Expire \/ ConfirmationNext \/ UNCHANGED vars
  PROVE  order'.delivery = order.delivery
  <1>1. \/ order' = order
        \/ \E status : order' = [order EXCEPT !.status = status]
        \/ \E status, pay : order' = [order EXCEPT !.status = status, !.pay = pay]
    BY DEF vars, Expire, ConfirmationNext, RequestCustomerConfirmation, ApproveCustomerConfirmation,
           RejectCustomerConfirmation, UpsertSellerDisputeNote, ResolveDisputeForSeller,
           ResolveDisputeForCustomer, MarkDisputeRefundCompleted
  <1>2. QED
    BY <1>1 DEF TypeOK, Order

LEMMA SyncOnly ==
  ASSUME TypeOK, [Next]_vars
  PROVE  \/ \E k \in Workers : SyncCommit(k)
         \/ UNCHANGED <<fulfilment, shipment, drifted>> /\ order'.delivery = order.delivery
  <1>1. CASE ShipmentNext
    BY <1>1 DEF ShipmentNext, CreateShipment, UpdateShipmentRead, DeleteShipment, UpdateShipmentSave,
                Save, SyncCount
  <1>2. CASE \E k \in Workers : SuccessCommit(k) \/ AdminCommit(k)
    <2>1. UNCHANGED <<fulfilment, shipment, drifted>>
      BY <1>2 DEF SuccessCommit, AdminCommit
    <2>2. QED
      BY <1>2, <2>1 DEF SuccessCommit, AdminCommit, TypeOK, Order
  <1>3. CASE \E k \in Workers : SuccessRead(k) \/ Rollback(k) \/ \E status \in AdminStatuses : AdminRead(k, status)
    BY <1>3 DEF SuccessRead, Rollback, AdminRead, ReadOrder
  <1>4. CASE Expire \/ ConfirmationNext \/ UNCHANGED vars
    <2>1. UNCHANGED <<fulfilment, shipment, drifted>>
      BY <1>4 DEF vars, Expire, ConfirmationNext, RequestCustomerConfirmation,
           ApproveCustomerConfirmation, RejectCustomerConfirmation, UpsertSellerDisputeNote,
           ResolveDisputeForSeller, ResolveDisputeForCustomer, MarkDisputeRefundCompleted
    <2>2. QED
      BY <1>4, <2>1, NotSyncing
  <1>5. QED
    BY <1>1, <1>2, <1>3, <1>4 DEF Next, OrderNext

\* Two shipment transactions on their way at once have met, and one that met no
\* other has read the stored delivery status and counted what its commit leaves.
SyncInv ==
  /\ \A j, k \in Syncing : j # k => j \in overlapped
  /\ \A k \in Syncing \ overlapped :
       /\ op[k].seen.delivery = order.delivery
       /\ op[k].kind = "counted" => op[k].target.delivery = NextDeliveryStatus(After(k))

\* A request starts or goes on: alone it agrees with what is stored, beside
\* another both have met.
LEMMA SyncBegin ==
  ASSUME TypeOK, SyncInv, NEW k \in Workers, NEW r, op' = [op EXCEPT ![k] = r],
         UNCHANGED <<fulfilment, order, shipment>>, overlapped \subseteq overlapped',
         r.kind \in {"saved", "counted"} =>
           \/ Syncing \cup {k} \subseteq overlapped'
           \/ /\ Syncing \subseteq {k}
              /\ r.seen.delivery = order.delivery
              /\ r.kind = "counted" =>
                   r.target.delivery = NextDeliveryStatus([shipment EXCEPT ![r.ship] = r.row])
  PROVE  SyncInv'
  <1>1. op'[k] = r /\ \A j \in Workers \ {k} : op'[j] = op[j]
    BY DEF TypeOK
  <1>2. Syncing' \subseteq Syncing \cup {k} /\ (k \in Syncing' => r.kind \in {"saved", "counted"})
    BY <1>1 DEF Syncing
  <1>3. ASSUME NEW i \in Syncing', NEW j \in Syncing', i # j
        PROVE  i \in overlapped'
    <2>1. CASE i # k /\ j # k
      BY <1>2, <1>3, <2>1 DEF SyncInv
    <2>2. CASE i = k \/ j = k
      <3>1. r.kind \in {"saved", "counted"} /\ i \in Syncing \cup {k} /\ j \in Syncing \cup {k}
        BY <1>2, <1>3, <2>2
      <3>2. QED
        BY <1>3, <2>2, <3>1
    <2>3. QED
      BY <2>1, <2>2
  <1>4. ASSUME NEW j \in Syncing' \ overlapped', j # k
        PROVE  /\ op'[j].seen.delivery = order'.delivery
               /\ op'[j].kind = "counted" => op'[j].target.delivery = NextDeliveryStatus(After(j))'
    <2>1. j \in Syncing \ overlapped /\ op'[j] = op[j] /\ After(j)' = After(j)
      BY <1>1, <1>2, <1>4 DEF Syncing, After
    <2>2. NextDeliveryStatus(After(j))' = NextDeliveryStatus(After(j))
      BY <2>1 DEF NextDeliveryStatus
    <2>3. QED
      BY <2>1, <2>2 DEF SyncInv
  <1>5. ASSUME k \in Syncing' \ overlapped'
        PROVE  /\ op'[k].seen.delivery = order'.delivery
               /\ op'[k].kind = "counted" => op'[k].target.delivery = NextDeliveryStatus(After(k))'
    <2> DEFINE ship == [shipment EXCEPT ![r.ship] = r.row]
    <2>1. /\ r.seen.delivery = order.delivery
          /\ r.kind = "counted" => r.target.delivery = NextDeliveryStatus(ship)
      BY <1>2, <1>5
    <2>2. After(k)' = ship
      BY <1>1 DEF After
    <2> HIDE DEF ship
    <2>3. NextDeliveryStatus(After(k))' = NextDeliveryStatus(ship)
      BY <2>2 DEF NextDeliveryStatus
    <2>4. QED
      BY <1>1, <2>1, <2>3
  <1>6. QED
    BY <1>3, <1>4, <1>5 DEF SyncInv

\* A request that ends takes nobody's agreement away: whoever is still on its
\* way when a shipment commits has met it.
LEMMA SyncEnd ==
  ASSUME TypeOK, SyncInv, NEW k \in Workers, Finish(k),
         k \in Syncing \/ (UNCHANGED <<fulfilment, shipment>> /\ order'.delivery = order.delivery),
         fulfilment' = fulfilment
  PROVE  SyncInv'
  <1>1. op'[k].kind = "idle" /\ \A j \in Workers \ {k} : op'[j] = op[j]
    BY IdleType DEF Finish, TypeOK
  <1>2. Syncing' \subseteq Syncing \ {k} /\ overlapped' = overlapped \ {k}
    BY <1>1 DEF Syncing, Finish
  <1>3. \A i, j \in Syncing' : i # j => i \in overlapped'
    BY <1>2 DEF SyncInv
  <1>4. ASSUME NEW j \in Syncing' \ overlapped'
        PROVE  /\ op'[j].seen.delivery = order'.delivery
               /\ op'[j].kind = "counted" => op'[j].target.delivery = NextDeliveryStatus(After(j))'
    <2>1. j \in Syncing \ overlapped /\ j # k /\ op'[j] = op[j]
      BY <1>1, <1>2, <1>4 DEF Syncing
    <2>2. UNCHANGED <<fulfilment, shipment>> /\ order'.delivery = order.delivery
      BY <2>1 DEF SyncInv
    <2>3. After(j)' = After(j)
      BY <2>1, <2>2 DEF After
    <2>4. NextDeliveryStatus(After(j))' = NextDeliveryStatus(After(j))
      BY <2>2, <2>3 DEF NextDeliveryStatus
    <2>5. QED
      BY <2>1, <2>2, <2>4 DEF SyncInv
  <1>5. QED
    BY <1>3, <1>4 DEF SyncInv

LEMMA SyncSave ==
  ASSUME TypeOK, SyncInv, NEW k \in Workers, NEW s, NEW r, Save(k, s, r), k \notin Syncing
  PROVE  SyncInv'
  <1> DEFINE n == [kind |-> "saved", ship |-> s, row |-> r, seen |-> order, target |-> NoTarget]
  <1>1. op' = [op EXCEPT ![k] = n] /\ UNCHANGED <<fulfilment, order, shipment>>
    BY DEF Save
  <1>2. overlapped \subseteq overlapped' /\ (Syncing = {} \/ Syncing \cup {k} \subseteq overlapped')
    BY DEF Save
  <1>3. n.kind = "saved" /\ n.seen.delivery = order.delivery
    OBVIOUS
  <1> HIDE DEF n
  <1>4. QED
    BY <1>1, <1>2, <1>3, SyncBegin

\* Nothing but a shipment's commit writes the delivery status, so no step of
\* the others breaks the agreement.
LEMMA SyncStep ==
  ASSUME TypeOK, SyncInv, [Next]_vars
  PROVE  SyncInv'
  <1>1. ASSUME NEW k \in Workers, NEW s \in Shipments, NEW items \in SUBSET Items,
               CreateShipment(k, s, items)
        PROVE  SyncInv'
    BY <1>1, SyncSave DEF CreateShipment, CanStart, Syncing
  <1>2. ASSUME NEW k \in Workers, NEW s \in Shipments, NEW status, UpdateShipmentRead(k, s, status)
        PROVE  SyncInv'
    <2> DEFINE n == [kind |-> "updating", ship |-> s, row |-> [shipment[s] EXCEPT !.status = status],
                     seen |-> Placed, target |-> NoTarget]
    <2>1. op' = [op EXCEPT ![k] = n] /\ UNCHANGED <<fulfilment, order, shipment, overlapped>>
      BY <1>2 DEF UpdateShipmentRead
    <2>2. n.kind = "updating"
      OBVIOUS
    <2> HIDE DEF n
    <2>3. QED
      BY <2>1, <2>2, SyncBegin
  <1>3. ASSUME NEW k \in Workers, NEW s \in Shipments, DeleteShipment(k, s)
        PROVE  SyncInv'
    BY <1>3, SyncSave DEF DeleteShipment, CanStart, Syncing
  <1>4. ASSUME NEW k \in Workers, UpdateShipmentSave(k)
        PROVE  SyncInv'
    BY <1>4, SyncSave DEF UpdateShipmentSave, Syncing
  <1>5. ASSUME NEW k \in Workers, SyncCount(k)
        PROVE  SyncInv'
    <2> DEFINE n == [kind |-> "counted", ship |-> op[k].ship, row |-> op[k].row, seen |-> op[k].seen,
                     target |-> [status |-> NextOrderStatus(op[k].seen, After(k)),
                                 delivery |-> NextDeliveryStatus(After(k))]]
    <2>1. op' = [op EXCEPT ![k] = n] /\ UNCHANGED <<fulfilment, order, shipment, overlapped>>
          /\ k \in Syncing
      BY <1>5 DEF SyncCount, After, Syncing
    <2>2. /\ n.kind = "counted" /\ n.seen = op[k].seen
          /\ n.target.delivery = NextDeliveryStatus([shipment EXCEPT ![n.ship] = n.row])
      BY <2>1 DEF After
    <2> HIDE DEF n
    <2>3. CASE k \in overlapped
      <3>1. Syncing \cup {k} \subseteq overlapped
        BY <2>1, <2>3 DEF SyncInv
      <3>2. QED
        BY <2>1, <2>2, <3>1, SyncBegin
    <2>4. CASE k \notin overlapped
      <3>1. Syncing \subseteq {k} /\ n.seen.delivery = order.delivery
        BY <2>1, <2>2, <2>4 DEF SyncInv
      <3>2. QED
        BY <2>1, <2>2, <3>1, SyncBegin
    <2>5. QED
      BY <2>3, <2>4
  <1>6. ASSUME NEW k \in Workers, SyncCommit(k)
        PROVE  SyncInv'
    BY <1>6, SyncEnd DEF SyncCommit, Syncing
  <1>7. ASSUME NEW k \in Workers, SuccessCommit(k) \/ AdminCommit(k) \/ Rollback(k)
        PROVE  SyncInv'
    <2>1. order'.delivery = order.delivery
      BY <1>7 DEF SuccessCommit, AdminCommit, Rollback, TypeOK, Order
    <2>2. QED
      BY <1>7, <2>1, SyncEnd DEF SuccessCommit, AdminCommit, Rollback
  <1>8. ASSUME NEW k \in Workers, NEW kind \in {"success", "admin"}, NEW status, ReadOrder(k, kind, status)
        PROVE  SyncInv'
    <2> DEFINE n == [kind |-> kind, ship |-> "none", row |-> Absent, seen |-> order,
                     target |-> [status |-> status, delivery |-> "pending"]]
    <2>1. op' = [op EXCEPT ![k] = n] /\ UNCHANGED <<fulfilment, order, shipment, overlapped>>
      BY <1>8 DEF ReadOrder
    <2>2. n.kind \notin {"saved", "counted"}
      OBVIOUS
    <2> HIDE DEF n
    <2>3. QED
      BY <2>1, <2>2, SyncBegin
  <1>9. CASE Expire \/ ConfirmationNext \/ UNCHANGED vars
    <2>1. UNCHANGED <<fulfilment, shipment, op, overlapped>>
      BY <1>9 DEF vars, Expire, ConfirmationNext, RequestCustomerConfirmation,
           ApproveCustomerConfirmation, RejectCustomerConfirmation, UpsertSellerDisputeNote,
           ResolveDisputeForSeller, ResolveDisputeForCustomer, MarkDisputeRefundCompleted
    <2>2. order'.delivery = order.delivery
      BY <1>9, NotSyncing
    <2>3. QED
      BY <2>1, <2>2 DEF SyncInv, Syncing, After, NextDeliveryStatus
  <1>10. QED
    BY <1>1, <1>2, <1>3, <1>4, <1>5, <1>6, <1>7, <1>8, <1>9
    DEF Next, ShipmentNext, OrderNext, SuccessRead, AdminRead

LEMMA SyncAlways == Spec => [](TypeOK /\ SyncInv)
  <1>1. Init => SyncInv
    BY IdleType DEF Init, SyncInv, Syncing
  <1>2. QED
    BY <1>1, TypeCorrect, SyncStep, PTL DEF Spec

\* The order's delivery_status is that of its shipments after every create,
\* update and delete, in every interleaving with late successes, expiry,
\* administrators and disputes: syncOrderShipmentStatusTx counts them with its
\* own write, and skips the column only when it is right.  Two shipment
\* transactions that overlap may leave it wrong, and the next one alone puts it
\* right.
THEOREM DeliveryKeepsUp == Spec => []DeliveryFollowsShipments
  <1> DEFINE Kept == fulfilment = "delivery" /\ Items # {} /\ ~drifted
                       => order.delivery = NextDeliveryStatus(shipment)
  <1>1. ASSUME Init
        PROVE  Kept
    <2>1. \A s \in Shipments : shipment[s].status = "absent"
      BY <1>1 DEF Init, Absent
    <2>2. ActiveStatuses(shipment) = {}
      BY <2>1 DEF ActiveStatuses, Active
    <2>3. QED
      BY <1>1, <2>2 DEF NextDeliveryStatus, Init, Placed
  <1>2. ASSUME TypeOK, SyncInv, Kept, [Next]_vars
        PROVE  Kept'
    <2>1. ASSUME NEW k \in Workers, SyncCommit(k), ~drifted'
          PROVE  order'.delivery = NextDeliveryStatus(shipment)'
      <3> DEFINE ship == After(k)
      <3>1. k \in Syncing \ overlapped /\ shipment' = ship /\ fulfilment' = fulfilment
        BY <2>1 DEF SyncCommit, After, Syncing
      <3>2. order'.delivery = IF op[k].target.delivery = op[k].seen.delivery
                                THEN order.delivery ELSE op[k].target.delivery
        BY <1>2, <2>1 DEF SyncCommit, TypeOK, Order
      <3>3. op[k].seen.delivery = order.delivery /\ op[k].target.delivery = NextDeliveryStatus(ship)
        BY <1>2, <2>1, <3>1 DEF SyncInv, SyncCommit
      <3> HIDE DEF ship
      <3>4. QED
        BY <3>1, <3>2, <3>3 DEF NextDeliveryStatus
    <2>2. CASE \E k \in Workers : SyncCommit(k)
      <3>1. PICK k \in Workers : SyncCommit(k)
        BY <2>2
      <3>2. QED
        BY <2>1, <3>1
    <2>3. CASE UNCHANGED <<fulfilment, shipment, drifted>> /\ order'.delivery = order.delivery
      BY <1>2, <2>3 DEF NextDeliveryStatus
    <2>4. QED
      BY <1>2, <2>2, <2>3, SyncOnly
  <1>3. Kept => DeliveryFollowsShipments
    BY DEF DeliveryFollowsShipments
  <1>4. QED
    BY <1>1, <1>2, <1>3, SyncAlways, PTL DEF Spec

----------------------------------------------------------------------------
\* Every shipment that was not cancelled has been delivered.
Delivered(ship) == \A s \in Shipments : ship[s].status \in {"delivered", "cancelled", "absent"}

LEMMA AllDeliveredMeans ==
  ASSUME NEW ship, AllDelivered(ship)
  PROVE  Delivered(ship)
  BY DEF AllDelivered, ActiveStatuses, Active, Delivered

\* What a step may do to make an order wait for its customer.
WaitsOnceDelivered ==
  /\ fulfilment = "delivery" /\ Items # {}
  /\ order.status # "waiting_customer_confirmation"
  /\ order'.status = "waiting_customer_confirmation"
  => \A s \in Shipments : shipment'[s].status \in {"delivered", "cancelled", "absent"}

LEMMA WaitStep ==
  ASSUME ~Overlap, "waiting_customer_confirmation" \notin AdminStatuses,
         TypeOK, OpNamesShipment, CountedInv, [Next]_vars
  PROVE  [WaitsOnceDelivered]_vars
  <1>1. ASSUME NEW k \in Workers, SyncCommit(k), order.status # "waiting_customer_confirmation",
               order'.status = "waiting_customer_confirmation", fulfilment = "delivery"
        PROVE  Delivered(shipment')
    <2> DEFINE ship == After(k)
    <2>1. /\ shipment' = ship
          /\ op[k].target.status = "waiting_customer_confirmation"
          /\ op[k].seen.status # "waiting_customer_confirmation"
          /\ op[k].target.status = NextOrderStatus(op[k].seen, ship)
      BY <1>1, SyncEffect
    <2> HIDE DEF ship
    <2>2. AllDelivered(ship)
      BY <2>1 DEF NextOrderStatus
    <2>3. QED
      BY <2>1, <2>2, AllDeliveredMeans
  <1>2. ASSUME NEW k \in Workers, SuccessCommit(k) \/ AdminCommit(k),
               order.status # "waiting_customer_confirmation"
        PROVE  order'.status # "waiting_customer_confirmation"
    <2>1. CASE SuccessCommit(k)
      <3>1. op[k].target.status \in {op[k].seen.status, "processing"}
        BY <2>1 DEF SuccessCommit, CountedInv
      <3>2. order'.status = IF op[k].target.status = op[k].seen.status THEN order.status ELSE op[k].target.status
        BY <2>1 DEF SuccessCommit, TypeOK, Order
      <3>3. QED
        BY <1>2, <3>1, <3>2
    <2>2. CASE AdminCommit(k)
      <3>1. op[k].target.status \in AdminStatuses
        BY <2>2 DEF AdminCommit, CountedInv
      <3>2. order'.status = op[k].target.status
        BY <2>2 DEF AdminCommit, TypeOK, Order
      <3>3. QED
        BY <3>1, <3>2
    <2>3. QED
      BY <1>2, <2>1, <2>2
  <1>3. ASSUME RequestCustomerConfirmation, fulfilment = "delivery", Items # {}
        PROVE  Delivered(shipment')
    BY <1>3, AllDeliveredMeans DEF RequestCustomerConfirmation, CanRequestCustomerConfirmation
  <1>4. CASE \/ Expire \/ ApproveCustomerConfirmation \/ RejectCustomerConfirmation
             \/ ResolveDisputeForSeller \/ MarkDisputeRefundCompleted
    <2>1. order'.status \in {"cancelled", "completed", "in_dispute", "refunded"}
      BY <1>4 DEF Expire, ApproveCustomerConfirmation, RejectCustomerConfirmation,
                  ResolveDisputeForSeller, MarkDisputeRefundCompleted, TypeOK, Order
    <2>2. QED
      BY <2>1 DEF WaitsOnceDelivered
  <1>5. ASSUME order' = order
        PROVE  WaitsOnceDelivered
    BY <1>5 DEF WaitsOnceDelivered
  <1>6. CASE ShipmentNext
    <2>1. CASE \E k \in Workers : SyncCommit(k)
      BY <1>1, <2>1 DEF WaitsOnceDelivered, Delivered
    <2>2. CASE ~\E k \in Workers : SyncCommit(k)
      <3>1. order' = order
        BY <1>6, <2>2 DEF ShipmentNext, CreateShipment, UpdateShipmentRead, DeleteShipment,
                          UpdateShipmentSave, Save, SyncCount
      <3>2. QED
        BY <1>5, <3>1
    <2>3. QED
      BY <2>1, <2>2
  <1>7. CASE OrderNext
    <2>1. CASE \E k \in Workers : SuccessCommit(k) \/ AdminCommit(k)
      BY <1>2, <2>1 DEF WaitsOnceDelivered
    <2>2. CASE \E k \in Workers : SuccessRead(k) \/ Rollback(k) \/ \E status \in AdminStatuses : AdminRead(k, status)
      BY <1>5, <2>2 DEF SuccessRead, Rollback, AdminRead, ReadOrder
    <2>3. QED
      BY <1>4, <1>7, <2>1, <2>2 DEF OrderNext
  <1>8. CASE ConfirmationNext
    <2>1. CASE RequestCustomerConfirmation
      BY <1>3, <2>1 DEF WaitsOnceDelivered, Delivered
    <2>2. CASE UpsertSellerDisputeNote \/ ResolveDisputeForCustomer
      BY <1>5, <2>2 DEF UpsertSellerDisputeNote, ResolveDisputeForCustomer
    <2>3. QED
      BY <1>4, <1>8, <2>1, <2>2 DEF ConfirmationNext
  <1>9. QED
    BY <1>6, <1>7, <1>8 DEF Next

\* When requests do not overlap and no administrator asks for the confirmation
\* by hand, an order that is delivered starts to wait for its customer only
\* once every shipment that was not cancelled is delivered; a payment that
\* succeeds late or again cannot bring it there.
THEOREM WaitsOnlyWhenDelivered ==
  ASSUME ~Overlap, "waiting_customer_confirmation" \notin AdminStatuses
  PROVE  Spec => ConfirmationFollowsDelivery
  <1>1. TypeOK /\ OpNamesShipment /\ CountedInv /\ [Next]_vars => [WaitsOnceDelivered]_vars
    BY WaitStep
  <1>2. Spec => [][WaitsOnceDelivered]_vars
    BY <1>1, CountedAlways, PTL DEF Spec
  <1>3. QED
    BY <1>2 DEF ConfirmationFollowsDelivery, WaitsOnceDelivered
=============================================================================
