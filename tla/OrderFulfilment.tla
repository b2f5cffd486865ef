--------------------------- MODULE OrderFulfilment ---------------------------
(***************************************************************************)
(* One paid order on its way to its end: shipments and the aggregate       *)
(* status computed from them, the customer's confirmation, a dispute, and  *)
(* the money leaving to the seller (a settlement) or back to the customer  *)
(* (a wallet refund).  plugins/order/services/shipment_service.go,         *)
(* order_status_flow.go and order_confirmation_service.go, with the payment *)
(* success, the expiry and the administrator's status change that race     *)
(* with them.  The order has a seller, a customer and a positive total.    *)
(*                                                                         *)
(* The confirmation and dispute operations take the order FOR UPDATE: each *)
(* is one step.  The others read rows unlocked and are split there:        *)
(*   - a shipment request: for an update the row read before the           *)
(*     transaction, then the write of the shipment and the read of the     *)
(*     order, then the counts over the shipments, then the order's UPDATE  *)
(*     and COMMIT;                                                         *)
(*   - a payment success and an administrator's change: the read of the    *)
(*     order, then its UPDATE and COMMIT.                                  *)
(* The counts of loadOrderShipmentProgressTx are one read here, though     *)
(* each is a statement of its own.                                         *)
(*                                                                         *)
(* As in SellerLedger, an operator that stands just before an action and   *)
(* that no action uses is a bug the code does not have.                    *)
(***************************************************************************)
EXTENDS Integers, FiniteSets

CONSTANTS
  Items,          \* the order's items that are not digital
  Shipments,      \* shipment ids
  Workers,        \* concurrent requests that are not one step
  InputStatuses,  \* shipment statuses an update may name
  AdminStatuses,  \* order statuses an administrator may set; {} for none
  MaxSuccesses,   \* bound: payment success notifications that are processed
  Overlap         \* whether a request may start before another one has ended

ShipmentStatus == {"pending", "ready_to_ship", "shipped", "in_transit", "delivered",
                   "exception", "returned", "cancelled"}
OrderStatus == {"draft", "pending", "processing", "shipped", "waiting_customer_confirmation",
                "completed", "cancelled", "in_dispute", "refunded"}
PaymentStatus == {"pending", "paid", "expired", "refunded"}
DeliveryStatus == {"not_applicable", "pending", "ready_to_ship", "partially_shipped",
                   "shipped", "delivered", "exception", "returned"}
Decision == {"none", "open", "seller_won", "customer_won", "refunded"}
OpKind == {"idle", "updating", "saved", "counted", "success", "admin"}

ASSUME StatusesAssumption == InputStatuses \subseteq ShipmentStatus /\ AdminStatuses \subseteq OrderStatus
ASSUME MaxSuccessesAssumption == MaxSuccesses \in Nat
ASSUME OverlapAssumption == Overlap \in BOOLEAN
ASSUME ItemsAssumption == IsFiniteSet(Items) /\ IsFiniteSet(Workers)

VARIABLES
  fulfilment,  \* fulfillment_type of the order
  order,       \* its status, payment_status and delivery_status
  decision,    \* metadata: admin_decision of its dispute
  shipment,    \* order_shipments with the items of order_shipment_items
  settled,     \* whether a seller_settlements row exists for it
  refunds,     \* how often the customer's wallet was credited for it
  successes,   \* payment successes committed
  op,          \* what each worker is in the middle of
  overlapped,  \* history: shipment transactions that met another one on their way
  drifted      \* history: one of those committed, and none has run alone since

vars == <<fulfilment, order, decision, shipment, settled, refunds, successes, op,
          overlapped, drifted>>

Absent == [status |-> "absent", items |-> {}]
Row == [status : ShipmentStatus, items : SUBSET Items] \cup {Absent}
Order == [status : OrderStatus, pay : PaymentStatus, delivery : DeliveryStatus]
Target == [status : OrderStatus, delivery : DeliveryStatus]

\* A request in flight: the shipment row it writes, the order as it read it,
\* and the order status and delivery status it is going to write.
Op == [kind : OpKind, ship : Shipments \cup {"none"}, row : Row, seen : Order, target : Target]

NoTarget == [status |-> "pending", delivery |-> "pending"]
Placed == [status |-> "pending", pay |-> "pending", delivery |-> "pending"]
Idle == [kind |-> "idle", ship |-> "none", row |-> Absent, seen |-> Placed, target |-> NoTarget]

Finish(k) == op' = [op EXCEPT ![k] = Idle] /\ overlapped' = overlapped \ {k}
Alone == Overlap \/ \A j \in Workers : op[j].kind = "idle"
CanStart(k) == op[k].kind = "idle" /\ Alone

Init ==
  /\ fulfilment \in {"delivery", "pickup"}
  /\ order = Placed
  /\ decision = "none"
  /\ shipment = [s \in Shipments |-> Absent]
  /\ settled = FALSE
  /\ refunds = 0
  /\ successes = 0
  /\ op = [k \in Workers |-> Idle]
  /\ overlapped = {}
  /\ drifted = FALSE

----------------------------------------------------------------------------
(* The status flow: pure functions of the order and its shipments          *)

Active(ship) == {s \in Shipments : ship[s].status \notin {"absent", "cancelled"}}
ActiveStatuses(ship) == {ship[s].status : s \in Active(ship)}
AllAssigned(ship) == Items \subseteq UNION {ship[s].items : s \in Active(ship)}
AllDelivered(ship) == ActiveStatuses(ship) = {"delivered"}

OnTheWay == {"shipped", "in_transit"}
Managed == {"draft", "pending", "processing", "shipped"}

NextOrderStatus(o, ship) ==
  IF o.pay # "paid" \/ fulfilment = "pickup" \/ o.status \notin Managed
    THEN o.status
  ELSE IF AllDelivered(ship)
    THEN "waiting_customer_confirmation"
  ELSE IF /\ Active(ship) # {}
          /\ AllAssigned(ship)
          /\ ActiveStatuses(ship) \subseteq OnTheWay \cup {"delivered"}
    THEN "shipped"
  ELSE "processing"

\* The aggregate delivery_status; problems take priority.
NextDeliveryStatus(ship) ==
  LET S == ActiveStatuses(ship)
  IN  IF fulfilment = "pickup" \/ Items = {} THEN "not_applicable"
      ELSE IF S = {} THEN "pending"
      ELSE IF "exception" \in S THEN "exception"
      ELSE IF "returned" \in S THEN "returned"
      ELSE IF S = {"delivered"} THEN "delivered"
      ELSE IF S \subseteq OnTheWay \cup {"delivered"} THEN "shipped"
      ELSE IF S \cap (OnTheWay \cup {"delivered"}) # {} THEN "partially_shipped"
      ELSE "ready_to_ship"

CanRequestCustomerConfirmation ==
  \/ fulfilment = "pickup" \/ Items = {}
  \/ AllAssigned(shipment) /\ AllDelivered(shipment)

NextPaidOrderStatus(status) == IF status \in {"draft", "pending"} THEN "processing" ELSE status

----------------------------------------------------------------------------
(* Shipments                                                               *)

\* A row written by a transaction is locked until its end.
ShipmentLocked(s) == \E j \in Workers : op[j].ship = s /\ op[j].kind \in {"saved", "counted"}

\* The shipment transactions under way.
Syncing == {j \in Workers : op[j].kind \in {"saved", "counted"}}

\* Write row r of shipment s in the transaction and read the order.
Save(k, s, r) ==
  /\ ~ShipmentLocked(s)
  /\ op' = [op EXCEPT ![k] =
       [kind |-> "saved", ship |-> s, row |-> r, seen |-> order, target |-> NoTarget]]
  /\ overlapped' = IF Syncing = {} THEN overlapped ELSE overlapped \cup Syncing \cup {k}
  /\ UNCHANGED <<fulfilment, order, decision, shipment, settled, refunds, successes, drifted>>

\* The id is new: no row has it and no request works on it.
CreateShipment(k, s, items) ==
  /\ CanStart(k)
  /\ items # {}
  /\ shipment[s] = Absent
  /\ \A j \in Workers : op[j].ship # s
  /\ Save(k, s, [status |-> "pending", items |-> items])

\* UpdateShipment reads the row before its transaction; without a status in
\* the request the row keeps the one read here.
UpdateShipmentRead(k, s, status) ==
  /\ CanStart(k)
  /\ shipment[s] # Absent
  /\ op' = [op EXCEPT ![k] =
       [kind |-> "updating", ship |-> s, row |-> [shipment[s] EXCEPT !.status = status],
        seen |-> Placed, target |-> NoTarget]]
  /\ UNCHANGED <<fulfilment, order, decision, shipment, settled, refunds, successes,
                 overlapped, drifted>>

\* Save writes every column as it was read.  Of a shipment deleted meanwhile it
\* writes the items first, whose foreign key fails: only Rollback is left.
UpdateShipmentSave(k) ==
  /\ op[k].kind = "updating"
  /\ shipment[op[k].ship] # Absent
  /\ Save(k, op[k].ship, op[k].row)

DeleteShipment(k, s) ==
  /\ CanStart(k)
  /\ shipment[s] # Absent
  /\ Save(k, s, Absent)

\* loadOrderShipmentProgressTx sees the committed rows and its own write.
SyncCount(k) ==
  LET ship == [shipment EXCEPT ![op[k].ship] = op[k].row]
      seen == op[k].seen
  IN  /\ op[k].kind = "saved"
      /\ op' = [op EXCEPT ![k] =
           [kind |-> "counted", ship |-> op[k].ship, row |-> op[k].row, seen |-> seen,
            target |-> [status |-> NextOrderStatus(seen, ship),
                        delivery |-> NextDeliveryStatus(ship)]]]
      /\ UNCHANGED <<fulfilment, order, decision, shipment, settled, refunds, successes,
                     overlapped, drifted>>

SyncCommitOnStatusChange(k) ==
  LET seen == op[k].seen
      target == op[k].target
  IN  /\ op[k].kind = "counted"
      /\ order' = IF target.status = seen.status THEN order
                  ELSE [order EXCEPT !.status = target.status, !.delivery = target.delivery]
      /\ shipment' = [shipment EXCEPT ![op[k].ship] = op[k].row]
      /\ drifted' = (k \in overlapped)
      /\ Finish(k)
      /\ UNCHANGED <<fulfilment, decision, settled, refunds, successes>>

\* Only what differs from the order as it was read is written.
SyncCommit(k) ==
  LET seen == op[k].seen
      target == op[k].target
  IN  /\ op[k].kind = "counted"
      /\ order' = [order EXCEPT
           !.status = IF target.status = seen.status THEN @ ELSE target.status,
           !.delivery = IF target.delivery = seen.delivery THEN @ ELSE target.delivery]
      /\ shipment' = [shipment EXCEPT ![op[k].ship] = op[k].row]
      /\ drifted' = (k \in overlapped)
      /\ Finish(k)
      /\ UNCHANGED <<fulfilment, decision, settled, refunds, successes>>

----------------------------------------------------------------------------
(* Payment success, expiry and the administrator's status change           *)

ReadOrder(k, kind, status) ==
  /\ CanStart(k)
  /\ op' = [op EXCEPT ![k] =
       [kind |-> kind, ship |-> "none", row |-> Absent, seen |-> order,
        target |-> [status |-> status, delivery |-> "pending"]]]
  /\ UNCHANGED <<fulfilment, order, decision, shipment, settled, refunds, successes,
                 overlapped, drifted>>

\* A succeeded payment, told by the gateway or entered by an administrator,
\* possibly a second time: only the order's status is checked.
SuccessRead(k) ==
  /\ order.status # "cancelled"
  /\ successes + Cardinality({j \in Workers : op[j].kind = "success"}) < MaxSuccesses
  /\ ReadOrder(k, "success", NextPaidOrderStatus(order.status))

SuccessCommit(k) ==
  /\ op[k].kind = "success"
  /\ order' = [order EXCEPT
       !.pay = "paid",
       !.status = IF op[k].target.status = op[k].seen.status THEN @ ELSE op[k].target.status]
  /\ successes' = successes + 1
  /\ Finish(k)
  /\ UNCHANGED <<fulfilment, decision, shipment, settled, refunds, drifted>>

ExpireUntyped ==
  /\ Alone
  /\ order.status = "pending" /\ order.pay = "pending"
  /\ order' = [order EXCEPT !.status = "expired", !.pay = "expired"]
  /\ UNCHANGED <<fulfilment, decision, shipment, settled, refunds, successes, op, overlapped,
                 drifted>>

\* expireStalePendingOrders is one UPDATE; an order may be stale at any time.
Expire ==
  /\ Alone
  /\ order.status = "pending" /\ order.pay = "pending"
  /\ order' = [order EXCEPT !.status = "cancelled", !.pay = "expired"]
  /\ UNCHANGED <<fulfilment, decision, shipment, settled, refunds, successes, op, overlapped,
                 drifted>>

\* UpdateOrderStatus accepts any status and leaves transitions to the caller.
AdminRead(k, status) == ReadOrder(k, "admin", status)

AdminCommitUnpaid(k) ==
  /\ op[k].kind = "admin"
  /\ order' = [order EXCEPT !.status = op[k].target.status]
  /\ settled' = (settled \/ op[k].target.status = "completed")
  /\ Finish(k)
  /\ UNCHANGED <<fulfilment, decision, shipment, refunds, successes, drifted>>

AdminCommit(k) ==
  /\ op[k].kind = "admin"
  /\ order' = [order EXCEPT !.status = op[k].target.status]
  /\ settled' = (settled \/ (op[k].target.status = "completed" /\ op[k].seen.pay = "paid"))
  /\ Finish(k)
  /\ UNCHANGED <<fulfilment, decision, shipment, refunds, successes, drifted>>

----------------------------------------------------------------------------
(* Confirmation and dispute: the order is held FOR UPDATE, so one step each *)

\* The foreign key of a shipment being inserted holds the order until its
\* transaction ends, and FOR UPDATE waits for it; a plain UPDATE does not.
Inserting(j) == /\ op[j].kind \in {"saved", "counted"}
                /\ op[j].row # Absent /\ shipment[op[j].ship] = Absent
CanLockOrder == Alone /\ ~\E j \in Workers : Inserting(j)

RequestOnPartDelivery ==
  /\ CanLockOrder
  /\ order.status \notin {"cancelled", "completed"}
  /\ order.pay = "paid"
  /\ fulfilment = "pickup" \/ Items = {} \/ AllAssigned(shipment)
  /\ order' = [order EXCEPT !.status = "waiting_customer_confirmation"]
  /\ UNCHANGED <<fulfilment, decision, shipment, settled, refunds, successes, op, overlapped,
                 drifted>>

RequestWhenCompleted ==
  /\ CanLockOrder
  /\ order.status # "cancelled"
  /\ order.pay = "paid"
  /\ CanRequestCustomerConfirmation
  /\ order' = [order EXCEPT !.status = "waiting_customer_confirmation"]
  /\ UNCHANGED <<fulfilment, decision, shipment, settled, refunds, successes, op, overlapped,
                 drifted>>

\* The setting that enables it may be switched at any time.  An order in
\* dispute, or refunded, is not refused.
RequestCustomerConfirmation ==
  /\ CanLockOrder
  /\ order.status \notin {"cancelled", "completed"}
  /\ order.pay = "paid"
  /\ CanRequestCustomerConfirmation
  /\ order' = [order EXCEPT !.status = "waiting_customer_confirmation"]
  /\ UNCHANGED <<fulfilment, decision, shipment, settled, refunds, successes, op, overlapped,
                 drifted>>

\* createPendingSettlementTx of order o: an existing settlement is kept.
SettlementCreated(o) == settled \/ o.pay = "paid"

ApproveCustomerConfirmation ==
  /\ CanLockOrder
  /\ order.status = "waiting_customer_confirmation"
  /\ order' = [order EXCEPT !.status = "completed"]
  /\ settled' = SettlementCreated(order)
  /\ UNCHANGED <<fulfilment, decision, shipment, refunds, successes, op, overlapped, drifted>>

RejectCustomerConfirmation ==
  /\ CanLockOrder
  /\ order.status = "waiting_customer_confirmation"
  /\ order' = [order EXCEPT !.status = "in_dispute"]
  /\ decision' = "open"
  /\ UNCHANGED <<fulfilment, shipment, settled, refunds, successes, op, overlapped, drifted>>

InOpenDispute == order.status = "in_dispute" /\ decision \in {"none", "open"}

UpsertSellerDisputeNote ==
  /\ CanLockOrder
  /\ InOpenDispute
  /\ decision' = "open"
  /\ UNCHANGED <<fulfilment, order, shipment, settled, refunds, successes, op, overlapped, drifted>>

ResolveForSellerUnsettled ==
  /\ CanLockOrder
  /\ InOpenDispute
  /\ decision' = "seller_won"
  /\ order' = [order EXCEPT !.status = "completed"]
  /\ UNCHANGED <<fulfilment, shipment, settled, refunds, successes, op, overlapped, drifted>>

ResolveDisputeForSeller ==
  /\ CanLockOrder
  /\ InOpenDispute
  /\ decision' = "seller_won"
  /\ order' = [order EXCEPT !.status = "completed"]
  /\ settled' = SettlementCreated(order)
  /\ UNCHANGED <<fulfilment, shipment, refunds, successes, op, overlapped, drifted>>

ResolveDisputeForCustomer ==
  /\ CanLockOrder
  /\ InOpenDispute
  /\ decision' = "customer_won"
  /\ UNCHANGED <<fulfilment, order, shipment, settled, refunds, successes, op, overlapped, drifted>>

RefundKeepsPaid ==
  /\ CanLockOrder
  /\ order.status = "in_dispute" /\ decision = "customer_won"
  /\ decision' = "refunded"
  /\ order' = [order EXCEPT !.status = "refunded"]
  /\ refunds' = refunds + 1
  /\ UNCHANGED <<fulfilment, shipment, settled, successes, op, overlapped, drifted>>

RefundUndecided ==
  /\ CanLockOrder
  /\ order.status = "in_dispute"
  /\ decision' = "refunded"
  /\ order' = [order EXCEPT !.status = "refunded", !.pay = "refunded"]
  /\ refunds' = refunds + 1
  /\ UNCHANGED <<fulfilment, shipment, settled, successes, op, overlapped, drifted>>

\* The wallet is credited without looking for an earlier credit of the order.
MarkDisputeRefundCompleted ==
  /\ CanLockOrder
  /\ order.status = "in_dispute" /\ decision = "customer_won"
  /\ decision' = "refunded"
  /\ order' = [order EXCEPT !.status = "refunded", !.pay = "refunded"]
  /\ refunds' = refunds + 1
  /\ UNCHANGED <<fulfilment, shipment, settled, successes, op, overlapped, drifted>>

----------------------------------------------------------------------------
\* An error or a crash rolls the transaction back and drops its locks.
Rollback(k) ==
  /\ op[k].kind # "idle"
  /\ Finish(k)
  /\ UNCHANGED <<fulfilment, order, decision, shipment, settled, refunds, successes, drifted>>

ShipmentNext ==
  \/ \E k \in Workers, s \in Shipments :
       \/ \E items \in SUBSET Items : CreateShipment(k, s, items)
       \/ \E status \in InputStatuses \cup ({shipment[s].status} \ {"absent"}) :
            UpdateShipmentRead(k, s, status)
       \/ DeleteShipment(k, s)
  \/ \E k \in Workers : UpdateShipmentSave(k) \/ SyncCount(k) \/ SyncCommit(k)

OrderNext ==
  \/ \E k \in Workers : SuccessRead(k) \/ SuccessCommit(k) \/ AdminCommit(k) \/ Rollback(k)
  \/ \E k \in Workers, status \in AdminStatuses : AdminRead(k, status)
  \/ Expire

ConfirmationNext ==
  \/ RequestCustomerConfirmation \/ ApproveCustomerConfirmation \/ RejectCustomerConfirmation
  \/ UpsertSellerDisputeNote \/ ResolveDisputeForSeller \/ ResolveDisputeForCustomer
  \/ MarkDisputeRefundCompleted

Next == ShipmentNext \/ OrderNext \/ ConfirmationNext

Spec == Init /\ [][Next]_vars

----------------------------------------------------------------------------
(* Properties of every interleaving                                        *)

\* The rows and the requests in flight are well formed.
TypeOK ==
  /\ fulfilment \in {"delivery", "pickup"}
  /\ order \in Order
  /\ decision \in Decision
  /\ shipment \in [Shipments -> Row]
  /\ settled \in BOOLEAN
  /\ refunds \in Nat /\ successes \in Nat
  /\ op \in [Workers -> Op]
  /\ overlapped \subseteq Workers /\ drifted \in BOOLEAN

\* Nothing is owed to the seller of an order no payment of which succeeded,
\* whatever administrators and stale requests do to its status.
SettledWasPaid == settled => successes > 0

\* A decision is opened by a rejected confirmation, or by a note or a
\* resolution where there was none, is taken while it is open, and a refund
\* follows a decision for the customer.
DecisionFlow ==
  [][decision' # decision =>
       \/ decision' = "open" /\ (decision = "none" \/ order.status = "waiting_customer_confirmation")
       \/ decision' \in {"seller_won", "customer_won"} /\ decision \in {"none", "open"}
       \/ decision' = "refunded" /\ decision = "customer_won"]_vars

\* All the shipments of the order were cancelled: order_status_constants.go:56
\* names the status `cancelled` for it, which the code neither computes nor stores.
AllCancelled == /\ Active(shipment) = {}
                /\ \E s \in Shipments : shipment[s].status = "cancelled"

\* order_status_constants.go:43 "Computed from order_shipments rows; updated
\* whenever shipments change": the aggregate of an order to deliver follows every
\* create, update and delete, whatever else the requests do meanwhile, except
\* after two shipment transactions overlapped, where each counts without the
\* other's write; then it is right again from the next one that runs alone.
DeliveryFollowsShipments ==
  fulfilment = "delivery" /\ Items # {} /\ ~drifted /\ ~AllCancelled
    => order.delivery = NextDeliveryStatus(shipment)

----------------------------------------------------------------------------
(* Properties when requests do not overlap and the payment succeeds once   *)

\* The customer's money leaves once: to the seller or back to the customer.
PaidOutOnce == refunds + (IF settled THEN 1 ELSE 0) <= 1

\* order_status_constants.go:10 "Terminal states: completed | cancelled | refunded".
TerminalStaysTerminal ==
  [][order.status \in {"completed", "cancelled", "refunded"} => order'.status = order.status]_vars

\* An order is completed exactly when its seller is to be paid and refunded
\* exactly when its customer was.
OutcomeBacked ==
  /\ settled <=> order.status = "completed"
  /\ refunds > 0 <=> order.status = "refunded"

\* An order that is delivered waits for its customer only from a moment on at
\* which every shipment that was not cancelled had been delivered.
ConfirmationFollowsDelivery ==
  [][/\ fulfilment = "delivery" /\ Items # {}
     /\ order.status # "waiting_customer_confirmation"
     /\ order'.status = "waiting_customer_confirmation"
     => \A s \in Shipments : shipment'[s].status \in {"delivered", "cancelled", "absent"}]_vars
=============================================================================
