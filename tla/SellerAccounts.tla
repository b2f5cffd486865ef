---------------------------- MODULE SellerAccounts ----------------------------
(***************************************************************************)
(* What a seller is promised: an account on which every operation happens  *)
(* in one step, on the account as it is.  A withdrawal takes its amount    *)
(* out as it is made, a rejection puts it back, a release pays what it     *)
(* says, and no debit takes more than there is.  There are no requests, no *)
(* unlocked reads and no log here: SellerLedger has them, and implements   *)
(* this as long as no two requests of one seller overlap.                  *)
(***************************************************************************)
EXTENDS Integers

CONSTANTS
  Sellers, Orders, Withdrawals,
  Amounts,      \* amounts in cents a request may name
  SellerOf,     \* the business an order belongs to
  None          \* no seller

VARIABLES
  balance,      \* what each seller may dispose of
  settlement,   \* of an order: decided how, and how much of it is released
  withdrawal    \* its status, whose it is, and of how much

vars == <<balance, settlement, withdrawal>>

Init ==
  /\ balance = [s \in Sellers |-> 0]
  /\ settlement = [o \in Orders |-> [status |-> "none", gross |-> 0, released |-> 0]]
  /\ withdrawal = [w \in Withdrawals |-> [status |-> "none", seller |-> None, amount |-> 0]]

Pay(s, a) == balance' = [balance EXCEPT ![s] = @ + a]

Take(s, a) ==
  /\ balance[s] >= a
  /\ balance' = [balance EXCEPT ![s] = @ - a]

Adjust(s, a) ==
  /\ Pay(s, a) \/ Take(s, a)
  /\ UNCHANGED <<settlement, withdrawal>>

Undecided == {"pending", "held", "partially_released"}

Settle(o, g) ==
  /\ settlement[o].status = "none"
  /\ settlement' = [settlement EXCEPT ![o] = [status |-> "pending", gross |-> g, released |-> 0]]
  /\ UNCHANGED <<balance, withdrawal>>

HoldOrRefund(o, status) ==
  /\ settlement[o].status \in Undecided
  /\ status = "refunded" => settlement[o].released = 0
  /\ settlement' = [settlement EXCEPT ![o].status = status]
  /\ UNCHANGED <<balance, withdrawal>>

Release(o, a) ==
  LET total == settlement[o].released + a
  IN  /\ settlement[o].status \in Undecided
      /\ a > 0 /\ total <= settlement[o].gross
      /\ settlement' = [settlement EXCEPT
           ![o].released = total,
           ![o].status = IF total = settlement[o].gross THEN "released" ELSE "partially_released"]
      /\ Pay(SellerOf[o], a)
      /\ UNCHANGED withdrawal

Request(w, s, a) ==
  /\ withdrawal[w].status = "none"
  /\ Take(s, a)
  /\ withdrawal' = [withdrawal EXCEPT ![w] = [status |-> "pending", seller |-> s, amount |-> a]]
  /\ UNCHANGED settlement

Reject(w) ==
  /\ withdrawal[w].status \in {"pending", "approved"}
  /\ Pay(withdrawal[w].seller, withdrawal[w].amount)
  /\ withdrawal' = [withdrawal EXCEPT ![w].status = "rejected"]
  /\ UNCHANGED settlement

\* Approval and transfer: the money left the balance with the request.
Promote(w, from, to) ==
  /\ withdrawal[w].status = from
  /\ withdrawal' = [withdrawal EXCEPT ![w].status = to]
  /\ UNCHANGED <<balance, settlement>>

Next ==
  \/ \E s \in Sellers, a \in Amounts : Adjust(s, a)
  \/ \E o \in Orders, g \in Amounts : Settle(o, g)
  \/ \E o \in Orders : HoldOrRefund(o, "held") \/ HoldOrRefund(o, "refunded")
  \/ \E o \in Orders : \E a \in 1 .. settlement[o].gross : Release(o, a)
  \/ \E w \in Withdrawals, s \in Sellers, a \in Amounts : Request(w, s, a)
  \/ \E w \in Withdrawals :
       Reject(w) \/ Promote(w, "pending", "approved") \/ Promote(w, "approved", "processed")

Spec == Init /\ [][Next]_vars
=============================================================================
