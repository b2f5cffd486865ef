---------------------------- MODULE SellerLedger ----------------------------
(***************************************************************************)
(* The money a marketplace seller owns: balances, the mutation log,        *)
(* settlements of completed orders and withdrawals                         *)
(* (plugins/order/services/seller_balance_service.go,                      *)
(* seller_settlement_service.go and seller_withdrawal_service.go).         *)
(*                                                                         *)
(* Every request is served by a worker (a goroutine of the HTTP server).   *)
(* The database runs READ COMMITTED, so a request is split where another   *)
(* one can slip in:                                                        *)
(*   - XRead: the plain SELECT of the balance row (no lock is taken), with *)
(*     the checks made on what it returned;                                *)
(*   - XCommit: the UPDATE that writes the balance computed from that      *)
(*     read, the rows inserted with it, and COMMIT.  The UPDATE holds the  *)
(*     row until COMMIT and plain reads see committed rows only, so one    *)
(*     step stands for both;                                               *)
(*   - XCheck: the status of a withdrawal, read before the transaction.    *)
(* A row taken with FOR UPDATE, or updated, is locked until the end of the *)
(* transaction: that is what SettlementLocked and WithdrawalLocked say.    *)
(*                                                                         *)
(* An operator that stands just before an action and differs from it by a  *)
(* guard or an assignment (DebitReadUnchecked, HoldAnyStatus, ...) is a    *)
(* bug the code does not have: no action uses it.  It shows that the       *)
(* property it would break is not true of any ledger whatever.             *)
(***************************************************************************)
EXTENDS Integers, Sequences, FiniteSets

CONSTANTS
  Sellers,      \* business ids that own a balance
  Orders,       \* order ids: at most one settlement each (order_id is UNIQUE)
  Withdrawals,  \* withdrawal ids
  Workers,      \* concurrent requests
  Amounts,      \* amounts in cents a request may name
  SellerOf,     \* the business an order belongs to
  Handles,      \* Handles[k]: the sellers worker k may serve.  Sellers for
                \* every k is the real server; pairwise disjoint sets are the
                \* schedules where requests of one seller never overlap
  MaxEntries,   \* bound: no admin adjustment once a log is this long
  None          \* no reference, no id

ASSUME AmountsAssumption == Amounts \subseteq Nat \ {0}
ASSUME SellerOfAssumption == SellerOf \in [Orders -> Sellers]
ASSUME HandlesAssumption == Handles \in [Workers -> SUBSET Sellers]
ASSUME MaxEntriesAssumption == MaxEntries \in Nat
ASSUME NoneAssumption == None \notin Orders \cup Withdrawals
ASSUME RowsAssumption == IsFiniteSet(Orders) /\ IsFiniteSet(Withdrawals)

VARIABLES
  opened,       \* sellers that have a seller_balances row
  balance,      \* its balance column (0 while there is no row)
  ledger,       \* seller_balance_mutations of a seller, in commit order
  settlement,   \* seller_settlements, by order
  withdrawal,   \* seller_withdrawals
  audit,        \* status_to of a withdrawal's seller_withdrawal_audits
  op            \* what each worker is in the middle of

vars == <<opened, balance, ledger, settlement, withdrawal, audit, op>>

SettlementStatus == {"none", "pending", "held", "partially_released", "released", "refunded"}
WithdrawalStatus == {"none", "pending", "approved", "rejected", "processed"}
OpKind == {"idle", "credit", "debet", "release", "request", "reject_checked",
           "reject", "approve_checked", "process_checked"}

\* A row of seller_balance_mutations.  reference_id is an order with the
\* released total of its tranche, a withdrawal, or null.
Mutation == [type : {"credit", "debet"}, amount : Nat,
             source : {"settlement", "withdraw", "admin_adjust"},
             ref : Orders \cup Withdrawals \cup {None}, upto : Nat, after : Int]

Settlement == [status : SettlementStatus, gross : Nat, released : Nat]

Withdrawal == [status : WithdrawalStatus, seller : Sellers \cup {None}, amount : Nat]

\* A request in flight: the seller and row it works on, the amount, the
\* balance it read, whether it found no balance row, the settlement's released
\* amount it read, and whether it found its tranche credited already.
Op == [kind : OpKind, seller : Sellers \cup {None}, id : Orders \cup Withdrawals \cup {None},
       amount : Nat, seen : Int, fresh : BOOLEAN, base : Nat, dup : BOOLEAN]

Idle == [kind |-> "idle", seller |-> None, id |-> None, amount |-> 0,
         seen |-> 0, fresh |-> FALSE, base |-> 0, dup |-> FALSE]

\* Begin the transaction `kind` of seller s, reading the balance row unlocked.
Begin(kind, s, id, a) ==
  [kind |-> kind, seller |-> s, id |-> id, amount |-> a,
   seen |-> balance[s], fresh |-> s \notin opened, base |-> 0, dup |-> FALSE]

Finish(k) == op' = [op EXCEPT ![k] = Idle]

SettlementLocked(o) == \E k \in Workers : op[k].kind = "release" /\ op[k].id = o
WithdrawalLocked(w) == \E k \in Workers : op[k].kind = "reject" /\ op[k].id = w

Init ==
  /\ opened = {}
  /\ balance = [s \in Sellers |-> 0]
  /\ ledger = [s \in Sellers |-> <<>>]
  /\ settlement = [o \in Orders |-> [status |-> "none", gross |-> 0, released |-> 0]]
  /\ withdrawal = [w \in Withdrawals |-> [status |-> "none", seller |-> None, amount |-> 0]]
  /\ audit = [w \in Withdrawals |-> <<>>]
  /\ op = [k \in Workers |-> Idle]

----------------------------------------------------------------------------
(* Balance and mutation log                                                *)

PostBalanceBefore(k, type, source, id, upto) ==
  LET o == op[k]
      after == IF type = "credit" THEN o.seen + o.amount ELSE o.seen - o.amount
  IN  /\ o.fresh => o.seller \notin opened
      /\ opened' = opened \cup {o.seller}
      /\ balance' = [balance EXCEPT ![o.seller] = after]
      /\ ledger' = [ledger EXCEPT ![o.seller] =
           Append(@, [type |-> type, amount |-> o.amount, source |-> source,
                      ref |-> id, upto |-> upto, after |-> o.seen])]

\* Write the balance row and its mutation.  A worker that saw no row INSERTs
\* it, which the unique index refuses once another one has committed it.
Post(k, type, source, id, upto) ==
  LET o == op[k]
      after == IF type = "credit" THEN o.seen + o.amount ELSE o.seen - o.amount
  IN  /\ o.fresh => o.seller \notin opened
      /\ opened' = opened \cup {o.seller}
      /\ balance' = [balance EXCEPT ![o.seller] = after]
      /\ ledger' = [ledger EXCEPT ![o.seller] =
           Append(@, [type |-> type, amount |-> o.amount, source |-> source,
                      ref |-> id, upto |-> upto, after |-> after])]

InitializeSellerBalance(s) ==
  /\ s \notin opened
  /\ opened' = opened \cup {s}
  /\ UNCHANGED <<balance, ledger, settlement, withdrawal, audit, op>>

Idling(k, s) == op[k].kind = "idle" /\ s \in Handles[k]

\* CreditBalance, as the admin endpoint calls it: no reference, so no
\* idempotency check.  The admin names the source; here it is "admin_adjust".
CreditRead(k, s, a) ==
  /\ Idling(k, s)
  /\ Len(ledger[s]) < MaxEntries
  /\ op' = [op EXCEPT ![k] = Begin("credit", s, None, a)]
  /\ UNCHANGED <<opened, balance, ledger, settlement, withdrawal, audit>>

CreditCommit(k) ==
  /\ op[k].kind = "credit"
  /\ Post(k, "credit", "admin_adjust", None, 0)
  /\ Finish(k)
  /\ UNCHANGED <<settlement, withdrawal, audit>>

DebitReadUnchecked(k, s, a) ==
  /\ Idling(k, s)
  /\ Len(ledger[s]) < MaxEntries
  /\ s \in opened
  /\ op' = [op EXCEPT ![k] = Begin("debet", s, None, a)]
  /\ UNCHANGED <<opened, balance, ledger, settlement, withdrawal, audit>>

DebitRead(k, s, a) ==
  /\ Idling(k, s)
  /\ Len(ledger[s]) < MaxEntries
  /\ s \in opened
  /\ balance[s] >= a
  /\ op' = [op EXCEPT ![k] = Begin("debet", s, None, a)]
  /\ UNCHANGED <<opened, balance, ledger, settlement, withdrawal, audit>>

DebitCommit(k) ==
  /\ op[k].kind = "debet"
  /\ Post(k, "debet", "admin_adjust", None, 0)
  /\ Finish(k)
  /\ UNCHANGED <<settlement, withdrawal, audit>>

----------------------------------------------------------------------------
(* Settlements                                                             *)

Finalized == {"released", "refunded"}
Undecided == {"pending", "held", "partially_released"}

CreatePendingSettlement(o, g) ==
  /\ settlement[o].status = "none"
  /\ settlement' = [settlement EXCEPT ![o] = [status |-> "pending", gross |-> g, released |-> 0]]
  /\ UNCHANGED <<opened, balance, ledger, withdrawal, audit, op>>

HoldAnyStatus(o) ==
  /\ settlement[o].status # "none"
  /\ ~SettlementLocked(o)
  /\ settlement' = [settlement EXCEPT ![o].status = "held"]
  /\ UNCHANGED <<opened, balance, ledger, withdrawal, audit, op>>

HoldSettlement(o) ==
  /\ settlement[o].status \in Undecided
  /\ ~SettlementLocked(o)
  /\ settlement' = [settlement EXCEPT ![o].status = "held"]
  /\ UNCHANGED <<opened, balance, ledger, withdrawal, audit, op>>

RefundStoresDecision(o) ==
  /\ settlement[o].status \in Undecided
  /\ ~SettlementLocked(o)
  /\ settlement[o].released = 0
  /\ settlement' = [settlement EXCEPT ![o].status = "refund"]
  /\ UNCHANGED <<opened, balance, ledger, withdrawal, audit, op>>

RefundSettlement(o) ==
  /\ settlement[o].status \in Undecided
  /\ ~SettlementLocked(o)
  /\ settlement[o].released = 0
  /\ settlement' = [settlement EXCEPT ![o].status = "refunded"]
  /\ UNCHANGED <<opened, balance, ledger, withdrawal, audit, op>>

Remaining(o) == settlement[o].gross - settlement[o].released

SettlementOnlyRef(base, a) == 0

\* The part of a release's reference_id that tells its tranches apart.
TrancheRef(base, a) == base + a

TrancheCredited(o, upto) ==
  \E i \in 1 .. Len(ledger[SellerOf[o]]) :
    LET m == ledger[SellerOf[o]][i]
    IN  m.type = "credit" /\ m.source = "settlement" /\ m.ref = o /\ m.upto = upto

\* Begin a release of a cents for order o from what its settlement row says.
BeginRelease(o, a) ==
  LET base == settlement[o].released
  IN  [kind |-> "release", seller |-> SellerOf[o], id |-> o, amount |-> a,
       seen |-> balance[SellerOf[o]], fresh |-> SellerOf[o] \notin opened,
       base |-> base, dup |-> TrancheCredited(o, TrancheRef(base, a))]

ReleaseReadUnlocked(k, o, a) ==
  /\ Idling(k, SellerOf[o])
  /\ settlement[o].status \in Undecided
  /\ a > 0 /\ a <= Remaining(o)
  /\ op' = [op EXCEPT ![k] = BeginRelease(o, a)]
  /\ UNCHANGED <<opened, balance, ledger, settlement, withdrawal, audit>>

\* release and partial_release: the settlement row is locked FOR UPDATE, the
\* balance row is not.
ReleaseRead(k, o, a) ==
  /\ Idling(k, SellerOf[o])
  /\ ~SettlementLocked(o)
  /\ settlement[o].status \in Undecided
  /\ a > 0 /\ a <= Remaining(o)
  /\ op' = [op EXCEPT ![k] = BeginRelease(o, a)]
  /\ UNCHANGED <<opened, balance, ledger, settlement, withdrawal, audit>>

ReleaseCommit(k) ==
  LET o == op[k].id
      next == op[k].base + op[k].amount
  IN  /\ op[k].kind = "release"
      /\ IF op[k].dup
           THEN UNCHANGED <<opened, balance, ledger>>
           ELSE Post(k, "credit", "settlement", o, TrancheRef(op[k].base, op[k].amount))
      /\ settlement' = [settlement EXCEPT
           ![o].released = next,
           ![o].status = IF next >= settlement[o].gross THEN "released" ELSE "partially_released"]
      /\ Finish(k)
      /\ UNCHANGED <<withdrawal, audit>>

----------------------------------------------------------------------------
(* Withdrawals                                                             *)

RequestRead(k, s, a) ==
  /\ Idling(k, s)
  /\ s \in opened
  /\ balance[s] >= a
  /\ op' = [op EXCEPT ![k] = Begin("request", s, None, a)]
  /\ UNCHANGED <<opened, balance, ledger, settlement, withdrawal, audit>>

RequestCommitUnlogged(k, w) ==
  /\ op[k].kind = "request"
  /\ withdrawal[w].status = "none"
  /\ withdrawal' = [withdrawal EXCEPT ![w] =
       [status |-> "pending", seller |-> op[k].seller, amount |-> op[k].amount]]
  /\ balance' = [balance EXCEPT ![op[k].seller] = op[k].seen - op[k].amount]
  /\ audit' = [audit EXCEPT ![w] = Append(@, "pending")]
  /\ Finish(k)
  /\ UNCHANGED <<opened, ledger, settlement>>

RequestCommit(k, w) ==
  /\ op[k].kind = "request"
  /\ withdrawal[w].status = "none"
  /\ withdrawal' = [withdrawal EXCEPT ![w] =
       [status |-> "pending", seller |-> op[k].seller, amount |-> op[k].amount]]
  /\ Post(k, "debet", "withdraw", w, 0)
  /\ audit' = [audit EXCEPT ![w] = Append(@, "pending")]
  /\ Finish(k)
  /\ UNCHANGED settlement

\* The status of a withdrawal is checked on a row read before the transaction.
Check(k, w, kind) ==
  /\ op[k].kind = "idle"
  /\ withdrawal[w].seller \in Handles[k]
  /\ op' = [op EXCEPT ![k] =
       [kind |-> kind, seller |-> withdrawal[w].seller, id |-> w, amount |-> withdrawal[w].amount,
        seen |-> 0, fresh |-> FALSE, base |-> 0, dup |-> FALSE]]
  /\ UNCHANGED <<opened, balance, ledger, settlement, withdrawal, audit>>

\* The transaction then updates the row by id, whatever its status is by now.
SetStatus(k, status) ==
  /\ withdrawal' = [withdrawal EXCEPT ![op[k].id].status = status]
  /\ audit' = [audit EXCEPT ![op[k].id] = Append(@, status)]

RejectCheckAny(k, w) ==
  /\ withdrawal[w].status # "none"
  /\ Check(k, w, "reject_checked")

RejectCheck(k, w) ==
  /\ withdrawal[w].status \in {"pending", "approved"}
  /\ Check(k, w, "reject_checked")

\* Inside the transaction the row is updated (and so locked), then the balance read.
RejectRead(k) ==
  /\ op[k].kind = "reject_checked"
  /\ ~WithdrawalLocked(op[k].id)
  /\ op' = [op EXCEPT ![k] = Begin("reject", op[k].seller, op[k].id, op[k].amount)]
  /\ UNCHANGED <<opened, balance, ledger, settlement, withdrawal, audit>>

RejectCommitNoCredit(k) ==
  /\ op[k].kind = "reject"
  /\ SetStatus(k, "rejected")
  /\ Finish(k)
  /\ UNCHANGED <<opened, balance, ledger, settlement>>

RejectCommitNoAudit(k) ==
  /\ op[k].kind = "reject"
  /\ withdrawal' = [withdrawal EXCEPT ![op[k].id].status = "rejected"]
  /\ Post(k, "credit", "withdraw", op[k].id, 0)
  /\ Finish(k)
  /\ UNCHANGED <<settlement, audit>>

RejectCommit(k) ==
  /\ op[k].kind = "reject"
  /\ SetStatus(k, "rejected")
  /\ Post(k, "credit", "withdraw", op[k].id, 0)
  /\ Finish(k)
  /\ UNCHANGED settlement

ApproveCheck(k, w) ==
  /\ withdrawal[w].status = "pending"
  /\ Check(k, w, "approve_checked")

ApproveCommit(k) ==
  /\ op[k].kind = "approve_checked"
  /\ ~WithdrawalLocked(op[k].id)
  /\ SetStatus(k, "approved")
  /\ Finish(k)
  /\ UNCHANGED <<opened, balance, ledger, settlement>>

ProcessCheckUnreviewed(k, w) ==
  /\ withdrawal[w].status \in {"pending", "approved"}
  /\ Check(k, w, "process_checked")

ProcessCheck(k, w) ==
  /\ withdrawal[w].status = "approved"
  /\ Check(k, w, "process_checked")

ProcessCommit(k) ==
  /\ op[k].kind = "process_checked"
  /\ ~WithdrawalLocked(op[k].id)
  /\ SetStatus(k, "processed")
  /\ Finish(k)
  /\ UNCHANGED <<opened, balance, ledger, settlement>>

----------------------------------------------------------------------------
\* An error, a cancelled request or a crash between two steps rolls the
\* transaction back and drops its locks.
Rollback(k) ==
  /\ op[k].kind # "idle"
  /\ Finish(k)
  /\ UNCHANGED <<opened, balance, ledger, settlement, withdrawal, audit>>

BalanceNext ==
  \/ \E s \in Sellers : InitializeSellerBalance(s)
  \/ \E k \in Workers, s \in Sellers, a \in Amounts : CreditRead(k, s, a) \/ DebitRead(k, s, a)
  \/ \E k \in Workers : CreditCommit(k) \/ DebitCommit(k) \/ Rollback(k)

SettlementNext ==
  \/ \E o \in Orders, g \in Amounts : CreatePendingSettlement(o, g)
  \/ \E o \in Orders : HoldSettlement(o) \/ RefundSettlement(o)
  \/ \E k \in Workers, o \in Orders : \E a \in Amounts \cup {Remaining(o)} : ReleaseRead(k, o, a)
  \/ \E k \in Workers : ReleaseCommit(k)

WithdrawalNext ==
  \/ \E k \in Workers, s \in Sellers, a \in Amounts : RequestRead(k, s, a)
  \/ \E k \in Workers, w \in Withdrawals :
       RequestCommit(k, w) \/ RejectCheck(k, w) \/ ApproveCheck(k, w) \/ ProcessCheck(k, w)
  \/ \E k \in Workers : RejectRead(k) \/ RejectCommit(k) \/ ApproveCommit(k) \/ ProcessCommit(k)

Next == BalanceNext \/ SettlementNext \/ WithdrawalNext

Spec == Init /\ [][Next]_vars

----------------------------------------------------------------------------
(* Properties of every interleaving                                        *)

\* The rows and the requests in flight are well formed.
TypeOK ==
  /\ opened \subseteq Sellers
  /\ balance \in [Sellers -> Int]
  /\ ledger \in [Sellers -> Seq(Mutation)]
  /\ settlement \in [Orders -> Settlement]
  /\ withdrawal \in [Withdrawals -> Withdrawal]
  /\ audit \in [Withdrawals -> Seq(WithdrawalStatus)]
  /\ op \in [Workers -> Op]

\* However the unlocked reads interleave, no balance and no balance_after goes
\* below zero: every debit is checked against the very read it is computed from.
NeverOverdrawn ==
  \A s \in Sellers :
    /\ balance[s] >= 0
    /\ \A i \in 1 .. Len(ledger[s]) : ledger[s][i].after >= 0

\* The balance row always shows what the last committed mutation says
\* (seller_balance.go: "saldo setelah mutasi ini"), whatever was overwritten.
BalanceIsLastEntry ==
  \A s \in Sellers :
    balance[s] = IF ledger[s] = <<>> THEN 0 ELSE ledger[s][Len(ledger[s])].after

IsTranche(m, o) == m.type = "credit" /\ m.source = "settlement" /\ m.ref = o

Tranches(log, o) == {i \in 1 .. Len(log) : IsTranche(log[i], o)}

\* Each tranche starts at zero or where another ends, no two end at the same
\* point, none ends past `total` and, once something is released, one ends there.
Telescope(log, o, total) ==
  LET T == Tranches(log, o)
  IN  /\ \A i \in T : log[i].upto <= total
      /\ \A i, j \in T : log[i].upto = log[j].upto => i = j
      /\ \A i \in T : \/ log[i].upto = log[i].amount
                      \/ \E j \in T : log[j].upto = log[i].upto - log[i].amount
      /\ total > 0 => \E i \in T : log[i].upto = total

\* The tranches credited for a settlement telescope up to released_amount, so
\* their amounts add up to it: each release was paid to the seller exactly once,
\* and never more than the gross amount in all.
TranchesTelescope ==
  \A o \in Orders :
    /\ settlement[o].released <= settlement[o].gross
    /\ Telescope(ledger[SellerOf[o]], o, settlement[o].released)

Debits(log, w) == {i \in 1 .. Len(log) : log[i].type = "debet" /\ log[i].ref = w}

\* Every withdrawal that exists was taken from its seller's balance by one
\* mutation of its amount, and no other mutation debits it.
WithdrawalDebitedOnce ==
  \A w \in Withdrawals, s \in Sellers :
    LET D == Debits(ledger[s], w)
    IN  IF withdrawal[w].status # "none" /\ withdrawal[w].seller = s
          THEN \E i \in D : D = {i} /\ ledger[s][i].amount = withdrawal[w].amount
          ELSE D = {}

IsRefund(m, w) == m.type = "credit" /\ m.source = "withdraw" /\ m.ref = w

Refunds(log, w) == {i \in 1 .. Len(log) : IsRefund(log[i], w)}

Rejections(rows) == {i \in 1 .. Len(rows) : rows[i] = "rejected"}

\* A rejected withdrawal has been paid back, whatever raced with the rejection.
RejectedIsRefunded ==
  \A w \in Withdrawals :
    withdrawal[w].status = "rejected" =>
      LET log == ledger[withdrawal[w].seller]
      IN  \E i \in Refunds(log, w) : log[i].amount = withdrawal[w].amount

\* Every refund has its audit row and every audit row of a rejection its refund,
\* paid to the seller the withdrawal is of and to no one else.
RefundsAreAudited ==
  \A w \in Withdrawals, s \in Sellers :
    Cardinality(Refunds(ledger[s], w)) =
      IF withdrawal[w].seller = s THEN Cardinality(Rejections(audit[w])) ELSE 0

\* The sum of the natural numbers f[x] over a finite set S, counted cent by
\* cent: a cent is told by the element it belongs to and its number there.
Cents(S, f) == UNION {{x} \X (1 .. f[x]) : x \in S}
Total(S, f) == Cardinality(Cents(S, f))

EntryAmount(log) == [i \in 1 .. Len(log) |-> log[i].amount]

\* released_amount of a settlement is the sum of the credits its releases
\* posted: a release is never skipped as a duplicate and never posted twice.
ReleasedEqualsCredits ==
  \A o \in Orders :
    LET log == ledger[SellerOf[o]]
    IN  settlement[o].released = Total(Tranches(log, o), EntryAmount(log))

\* A finalized settlement never changes again, and nothing takes back what
\* was released (the code has no compensating ledger flow).
FinalizedStaysFinal ==
  [][\A o \in Orders :
       /\ settlement[o].status \in Finalized => settlement'[o] = settlement[o]
       /\ settlement'[o].released >= settlement[o].released]_vars

----------------------------------------------------------------------------
(* What a request in flight knows: with the properties above, inductive    *)

\* A settlement's row lock keeps what its release read true until it commits.
ReleaseInFlight(k) ==
  LET o == op[k].id
  IN  /\ o \in Orders
      /\ op[k].seller = SellerOf[o]
      /\ settlement[o].status \in Undecided
      /\ op[k].base = settlement[o].released
      /\ op[k].base + op[k].amount <= settlement[o].gross
      /\ ~op[k].dup
      /\ \A j \in Workers : op[j].kind = "release" /\ op[j].id = o => j = k

\* A review was told the seller and the amount of a withdrawal that exists.
ReviewInFlight(k) ==
  LET w == op[k].id
  IN  /\ w \in Withdrawals
      /\ withdrawal[w].status # "none"
      /\ op[k].seller = withdrawal[w].seller
      /\ op[k].amount = withdrawal[w].amount

RequestsOK ==
  \A k \in Workers :
    /\ op[k].kind # "idle" => op[k].seller \in Handles[k] /\ op[k].amount > 0
    /\ op[k].seen >= 0
    /\ op[k].kind \in {"debet", "request"} => op[k].seen >= op[k].amount
    /\ op[k].kind = "release" => ReleaseInFlight(k)
    /\ op[k].kind \in {"reject_checked", "reject", "approve_checked", "process_checked"} =>
         ReviewInFlight(k)

RowsOK ==
  /\ \A w \in Withdrawals :
       withdrawal[w].status # "none" => withdrawal[w].seller \in Sellers /\ withdrawal[w].amount > 0
  /\ \A s \in Sellers : s \notin opened => balance[s] = 0 /\ ledger[s] = <<>>
  /\ \A o \in Orders : settlement[o].status = "none" => settlement[o].released = 0

IInv ==
  TypeOK /\ RequestsOK /\ RowsOK /\ NeverOverdrawn /\ BalanceIsLastEntry /\ TranchesTelescope

----------------------------------------------------------------------------
(* Properties of the schedules where requests of one seller do not overlap *)

Signed(m) == IF m.type = "credit" THEN m.amount ELSE -m.amount

\* balance_after is the running total of the signed amounts before it: no
\* mutation is computed from a balance another one has overwritten.
LedgerChain ==
  \A s \in Sellers : \A i \in 1 .. Len(ledger[s]) :
    ledger[s][i].after = Signed(ledger[s][i]) + (IF i = 1 THEN 0 ELSE ledger[s][i - 1].after)

OrdersOf(s) == {o \in Orders : SellerOf[o] = s}
ReleasedAmount == [o \in Orders |-> settlement[o].released]

\* The withdrawals whose money is with the platform or was transferred.
Held(s) == {w \in Withdrawals : /\ withdrawal[w].seller = s
                                /\ withdrawal[w].status \notin {"none", "rejected"}}
HeldAmount == [w \in Withdrawals |-> withdrawal[w].amount]

Adjusted(log, type) == {i \in 1 .. Len(log) : log[i].source = "admin_adjust" /\ log[i].type = type}

\* No money appears or vanishes: a seller's balance, the withdrawals held for or
\* paid to it and what the admin took are what its settlements released plus
\* what the admin gave.
MoneyConserved ==
  \A s \in Sellers :
    LET log == ledger[s]
    IN  balance[s] + Total(Held(s), HeldAmount) + Total(Adjusted(log, "debet"), EntryAmount(log))
          = Total(OrdersOf(s), ReleasedAmount) + Total(Adjusted(log, "credit"), EntryAmount(log))

\* No withdrawal is paid back twice, nor paid back and also transferred.
RefundedAtMostOnce ==
  \A w \in Withdrawals, s \in Sellers :
    /\ \A i, j \in Refunds(ledger[s], w) : i = j
    /\ withdrawal[w].status # "rejected" => Refunds(ledger[s], w) = {}

\* A withdrawal moves pending -> approved -> processed, or to rejected from
\* either of the first two, and never leaves rejected or processed.
WithdrawalFlow ==
  [][\A w \in Withdrawals :
       withdrawal'[w].status # withdrawal[w].status =>
         <<withdrawal[w].status, withdrawal'[w].status>> \in
           {<<"none", "pending">>, <<"pending", "approved">>, <<"pending", "rejected">>,
            <<"approved", "rejected">>, <<"approved", "processed">>}]_vars

\* What a request has read stays true until it commits.
FreshReads ==
  \A k \in Workers :
    op[k].kind \in {"credit", "debet", "release", "request", "reject"} =>
      op[k].seen = balance[op[k].seller]

\* A request that adjusts or withdraws commits an amount it was named.
AmountsNamed ==
  \A k \in Workers : op[k].kind \in {"credit", "debet", "request"} => op[k].amount \in Amounts

\* The ledger is as good as one with no interleaving at all: with the requests,
\* their reads and the log left out, every commit is one operation of an account,
\* made on the account as it is at that moment.
Accounts == INSTANCE SellerAccounts

RequestsAreAtomic == Accounts!Spec

----------------------------------------------------------------------------
(* What the comments of the code say of it                                 *)

\* seller_withdrawal_service.go:249 "Deduct balance immediately (hold funds)":
\* the step that creates a withdrawal lowers the balance by its amount.
RequestHoldsFunds ==
  [][\A w \in Withdrawals :
       withdrawal[w].status = "none" /\ withdrawal'[w].status = "pending" =>
         LET s == withdrawal'[w].seller
         IN  balance'[s] = balance[s] - withdrawal'[w].amount]_vars
=============================================================================
