------------------------- MODULE SellerLedgerProofs -------------------------
(***************************************************************************)
(* Theorems about SellerLedger for any sellers, orders, withdrawals,       *)
(* amounts and number of concurrent requests.                              *)
(***************************************************************************)
EXTENDS SellerLedger, FiniteSetTheorems, TLAPS

\* A request in flight works for a seller, on a settlement or a withdrawal of it.
ServesSeller ==
  \A k \in Workers :
    /\ op[k].kind # "idle" => op[k].seller \in Sellers
    /\ op[k].kind = "release" => op[k].id \in Orders
    /\ op[k].kind \in {"reject_checked", "reject", "approve_checked", "process_checked"} =>
         op[k].id \in Withdrawals

LEMMA BeginType ==
  ASSUME balance \in [Sellers -> Int], NEW kind \in OpKind, NEW s \in Sellers,
         NEW id \in Orders \cup Withdrawals \cup {None}, NEW a \in Nat
  PROVE  /\ Begin(kind, s, id, a) \in Op
         /\ Begin(kind, s, id, a).kind = kind
         /\ Begin(kind, s, id, a).seller = s
         /\ Begin(kind, s, id, a).id = id
         /\ Begin(kind, s, id, a).amount = a
         /\ Begin(kind, s, id, a).seen = balance[s]
  BY DEF Begin, Op

LEMMA SetStatusType ==
  ASSUME TypeOK, NEW k \in Workers, op[k].id \in Withdrawals,
         NEW status \in WithdrawalStatus, SetStatus(k, status)
  PROVE  /\ withdrawal' = [withdrawal EXCEPT ![op[k].id] =
              [status |-> status, seller |-> withdrawal[op[k].id].seller,
               amount |-> withdrawal[op[k].id].amount]]
         /\ withdrawal' \in [Withdrawals -> Withdrawal]
         /\ audit' \in [Withdrawals -> Seq(WithdrawalStatus)]
  <1> DEFINE w == op[k].id
  <1>1. withdrawal[w] \in Withdrawal
    BY DEF TypeOK
  <1>2. [withdrawal[w] EXCEPT !.status = status] =
          [status |-> status, seller |-> withdrawal[w].seller, amount |-> withdrawal[w].amount]
    BY <1>1 DEF Withdrawal
  <1>3. [status |-> status, seller |-> withdrawal[w].seller, amount |-> withdrawal[w].amount] \in Withdrawal
    BY <1>1 DEF Withdrawal
  <1>4. withdrawal' = [withdrawal EXCEPT ![w] = [withdrawal[w] EXCEPT !.status = status]]
    BY DEF SetStatus
  <1>5. withdrawal' = [withdrawal EXCEPT ![w] =
          [status |-> status, seller |-> withdrawal[w].seller, amount |-> withdrawal[w].amount]]
    BY <1>2, <1>4
  <1>6. withdrawal' \in [Withdrawals -> Withdrawal]
    BY <1>3, <1>5 DEF TypeOK
  <1>7. Append(audit[w], status) \in Seq(WithdrawalStatus)
    BY DEF TypeOK
  <1>8. audit' \in [Withdrawals -> Seq(WithdrawalStatus)]
    BY <1>7 DEF TypeOK, SetStatus
  <1>9. QED
    BY <1>5, <1>6, <1>8

LEMMA UpdateReleased ==
  ASSUME NEW r \in Settlement, NEW n \in Nat, NEW x
  PROVE  [[r EXCEPT !.released = n] EXCEPT !.status = x] = [status |-> x, gross |-> r.gross, released |-> n]
  <1>1. [r EXCEPT !.released = n] = [status |-> r.status, gross |-> r.gross, released |-> n]
    BY DEF Settlement
  <1>2. ASSUME NEW q, q = [status |-> r.status, gross |-> r.gross, released |-> n]
        PROVE  [q EXCEPT !.status = x] = [status |-> x, gross |-> r.gross, released |-> n]
    BY <1>2
  <1>3. QED
    BY <1>1, <1>2

LEMMA ReleaseRow ==
  ASSUME TypeOK, NEW k \in Workers, ReleaseCommit(k), op[k].id \in Orders
  PROVE  LET o == op[k].id
             next == op[k].base + op[k].amount
         IN  /\ next \in Nat
             /\ settlement' = [settlement EXCEPT ![o] =
                  [status |-> IF next >= settlement[o].gross THEN "released" ELSE "partially_released",
                   gross |-> settlement[o].gross, released |-> next]]
             /\ settlement' \in [Orders -> Settlement]
             /\ settlement'[o].status \in {"released", "partially_released"}
             /\ settlement'[o].released = next
             /\ settlement'[o].gross = settlement[o].gross
             /\ \A p \in Orders : p # o => settlement'[p] = settlement[p]
  <1> DEFINE o == op[k].id
             next == op[k].base + op[k].amount
             status == IF next >= settlement[o].gross THEN "released" ELSE "partially_released"
             row == [status |-> status, gross |-> settlement[o].gross, released |-> next]
  <1>1. settlement[o] \in Settlement /\ next \in Nat
    BY DEF TypeOK, Op
  <1>2. [[settlement[o] EXCEPT !.released = next] EXCEPT !.status = status] = row
    BY <1>1, UpdateReleased
  <1>3. row \in Settlement
    BY <1>1 DEF Settlement, SettlementStatus
  <1>4. settlement' = [settlement EXCEPT ![o].released = next, ![o].status = status]
    BY DEF ReleaseCommit
  <1>5. settlement' = [settlement EXCEPT ![o] = [[settlement[o] EXCEPT !.released = next] EXCEPT !.status = status]]
    BY <1>4 DEF TypeOK
  <1>6. settlement' = [settlement EXCEPT ![o] = row]
    BY <1>2, <1>5
  <1>7. settlement' \in [Orders -> Settlement]
    BY <1>3, <1>6 DEF TypeOK
  <1>8. /\ settlement'[o].status \in {"released", "partially_released"}
        /\ settlement'[o].released = next
        /\ settlement'[o].gross = settlement[o].gross
        /\ \A p \in Orders : p # o => settlement'[p] = settlement[p]
    BY <1>6 DEF TypeOK
  <1>9. QED
    BY <1>1, <1>6, <1>7, <1>8

LEMMA IdleType == Idle \in Op /\ Idle.kind = "idle" /\ Idle.seen = 0
  BY DEF Idle, Op, OpKind

LEMMA PostType ==
  ASSUME TypeOK, NEW k \in Workers, NEW type \in {"credit", "debet"},
         NEW source \in {"settlement", "withdraw", "admin_adjust"},
         NEW id \in Orders \cup Withdrawals \cup {None}, NEW upto \in Nat,
         op[k].seller \in Sellers, Post(k, type, source, id, upto)
  PROVE  /\ opened' \subseteq Sellers
         /\ balance' \in [Sellers -> Int]
         /\ ledger' \in [Sellers -> Seq(Mutation)]
  <1> DEFINE after == IF type = "credit" THEN op[k].seen + op[k].amount ELSE op[k].seen - op[k].amount
             m == [type |-> type, amount |-> op[k].amount, source |-> source,
                   ref |-> id, upto |-> upto, after |-> after]
  <1>1. op[k] \in Op
    BY DEF TypeOK
  <1>2. after \in Int
    BY <1>1 DEF Op
  <1>3. m \in Mutation
    BY <1>1, <1>2 DEF Op, Mutation
  <1>4. Append(ledger[op[k].seller], m) \in Seq(Mutation)
    BY <1>3 DEF TypeOK
  <1>5. QED
    BY <1>2, <1>4 DEF TypeOK, Post

TypeInv == TypeOK /\ ServesSeller

LEMMA TypeInit == Init => TypeInv
  BY IdleType, SellerOfAssumption, HandlesAssumption
     DEF Init, TypeInv, TypeOK, ServesSeller, Settlement, Withdrawal, SettlementStatus, WithdrawalStatus

LEMMA TypeStep ==
  ASSUME TypeInv, [Next]_vars
  PROVE  TypeInv'
  <1> USE AmountsAssumption, SellerOfAssumption, HandlesAssumption, IdleType DEF TypeInv
  <1>1. ASSUME NEW s \in Sellers, InitializeSellerBalance(s)
        PROVE  TypeInv'
    BY <1>1 DEF InitializeSellerBalance, TypeOK, ServesSeller
  <1>2. ASSUME NEW k \in Workers, NEW s \in Sellers, NEW a \in Amounts,
               CreditRead(k, s, a) \/ DebitRead(k, s, a) \/ RequestRead(k, s, a)
        PROVE  TypeInv'
    <2>1. PICK kind \in {"credit", "debet", "request"} : op' = [op EXCEPT ![k] = Begin(kind, s, None, a)]
      BY <1>2 DEF CreditRead, DebitRead, RequestRead
    <2>5. kind \in OpKind /\ a \in Nat /\ balance \in [Sellers -> Int]
          /\ None \in Orders \cup Withdrawals \cup {None}
      BY DEF OpKind, TypeOK
    <2>2. /\ Begin(kind, s, None, a) \in Op
          /\ Begin(kind, s, None, a).seller = s
          /\ Begin(kind, s, None, a).kind = kind
      BY <2>5 DEF Begin, Op
    <2>3. UNCHANGED <<opened, balance, ledger, settlement, withdrawal, audit>>
      BY <1>2 DEF CreditRead, DebitRead, RequestRead
    <2>4. QED
      BY <2>1, <2>2, <2>3 DEF TypeOK, ServesSeller
  <1>3. ASSUME NEW k \in Workers, CreditCommit(k) \/ DebitCommit(k)
        PROVE  TypeInv'
    <2>1. op[k].seller \in Sellers
      BY <1>3 DEF ServesSeller, CreditCommit, DebitCommit
    <2>2. PICK type \in {"credit", "debet"} : Post(k, type, "admin_adjust", None, 0)
      BY <1>3 DEF CreditCommit, DebitCommit
    <2>3. opened' \subseteq Sellers /\ balance' \in [Sellers -> Int] /\ ledger' \in [Sellers -> Seq(Mutation)]
      BY <2>1, <2>2, PostType
    <2>4. QED
      BY <1>3, <2>3 DEF TypeOK, ServesSeller, CreditCommit, DebitCommit, Finish
  <1>4. ASSUME NEW k \in Workers, Rollback(k)
        PROVE  TypeInv'
    BY <1>4 DEF Rollback, Finish, TypeOK, ServesSeller
  <1>5. ASSUME NEW o \in Orders, NEW g \in Amounts, CreatePendingSettlement(o, g)
        PROVE  TypeInv'
    BY <1>5 DEF CreatePendingSettlement, TypeOK, ServesSeller, Settlement, SettlementStatus
  <1>6. ASSUME NEW o \in Orders, HoldSettlement(o) \/ RefundSettlement(o)
        PROVE  TypeInv'
    <2>1. PICK status \in {"held", "refunded"} :
            settlement' = [settlement EXCEPT ![o].status = status]
      BY <1>6 DEF HoldSettlement, RefundSettlement
    <2>2. UNCHANGED <<opened, balance, ledger, withdrawal, audit, op>>
      BY <1>6 DEF HoldSettlement, RefundSettlement
    <2>3. QED
      BY <2>1, <2>2 DEF TypeOK, ServesSeller, Settlement, SettlementStatus
  <1>7. ASSUME NEW k \in Workers, NEW o \in Orders, NEW a \in Amounts \cup {Remaining(o)},
               ReleaseRead(k, o, a)
        PROVE  TypeInv'
    <2>1. settlement[o] \in Settlement /\ a \in Nat
      BY <1>7 DEF ReleaseRead, TypeOK, Settlement, Remaining
    <2>2. BeginRelease(o, a) \in Op /\ BeginRelease(o, a).seller \in Sellers
          /\ BeginRelease(o, a).kind = "release" /\ BeginRelease(o, a).id = o
      BY <2>1 DEF BeginRelease, Op, OpKind, TypeOK, Settlement, TrancheCredited
    <2>3. QED
      BY <1>7, <2>2 DEF ReleaseRead, TypeOK, ServesSeller
  <1>8. ASSUME NEW k \in Workers, ReleaseCommit(k)
        PROVE  TypeInv'
    <2>1. op[k] \in Op /\ op[k].seller \in Sellers /\ op[k].kind = "release" /\ op[k].id \in Orders
      BY <1>8 DEF ReleaseCommit, TypeOK, ServesSeller
    <2>2. TrancheRef(op[k].base, op[k].amount) \in Nat
      BY <2>1 DEF TrancheRef, Op
    <2>3. settlement' \in [Orders -> Settlement]
      BY <1>8, <2>1, ReleaseRow
    <2>4. opened' \subseteq Sellers /\ balance' \in [Sellers -> Int] /\ ledger' \in [Sellers -> Seq(Mutation)]
      <3>1. CASE op[k].dup
        BY <1>8, <3>1 DEF ReleaseCommit, TypeOK
      <3>2. CASE ~op[k].dup
        <4>1. Post(k, "credit", "settlement", op[k].id, TrancheRef(op[k].base, op[k].amount))
          BY <1>8, <3>2 DEF ReleaseCommit
        <4>2. QED
          BY <2>1, <2>2, <4>1, PostType
      <3>3. QED
        BY <3>1, <3>2
    <2>5. op' \in [Workers -> Op] /\ ServesSeller'
      BY <1>8 DEF ReleaseCommit, Finish, ServesSeller, TypeOK
    <2>6. QED
      BY <1>8, <2>3, <2>4, <2>5 DEF ReleaseCommit, TypeOK
  <1>9. ASSUME NEW k \in Workers, NEW w \in Withdrawals, RequestCommit(k, w)
        PROVE  TypeInv'
    <2>1. op[k] \in Op /\ op[k].seller \in Sellers
      BY <1>9 DEF RequestCommit, TypeOK, ServesSeller
    <2>2. opened' \subseteq Sellers /\ balance' \in [Sellers -> Int] /\ ledger' \in [Sellers -> Seq(Mutation)]
      BY <1>9, <2>1, PostType DEF RequestCommit
    <2>3. withdrawal' \in [Withdrawals -> Withdrawal] /\ audit' \in [Withdrawals -> Seq(WithdrawalStatus)]
      BY <1>9, <2>1 DEF RequestCommit, TypeOK, Op, Withdrawal, WithdrawalStatus
    <2>4. QED
      BY <1>9, <2>2, <2>3 DEF RequestCommit, TypeOK, ServesSeller, Finish
  <1>10. ASSUME NEW k \in Workers, NEW w \in Withdrawals,
                RejectCheck(k, w) \/ ApproveCheck(k, w) \/ ProcessCheck(k, w)
         PROVE  TypeInv'
    <2>1. PICK kind \in {"reject_checked", "approve_checked", "process_checked"} : Check(k, w, kind)
      BY <1>10 DEF RejectCheck, ApproveCheck, ProcessCheck
    <2>2. withdrawal[w] \in Withdrawal /\ withdrawal[w].seller \in Sellers
      BY <2>1 DEF Check, TypeOK
    <2>3. QED
      BY <2>1, <2>2 DEF Check, TypeOK, ServesSeller, Op, OpKind, Withdrawal
  <1>11. ASSUME NEW k \in Workers, RejectRead(k)
         PROVE  TypeInv'
    <2> DEFINE b == Begin("reject", op[k].seller, op[k].id, op[k].amount)
    <2>1. op[k].seller \in Sellers /\ op[k].id \in Withdrawals /\ op[k].amount \in Nat
      BY <1>11 DEF RejectRead, TypeOK, ServesSeller, Op
    <2>4. "reject" \in OpKind /\ balance \in [Sellers -> Int]
      BY DEF OpKind, TypeOK
    <2>2. b \in Op /\ b.kind = "reject" /\ b.seller = op[k].seller /\ b.id = op[k].id
      BY <2>1, <2>4, BeginType
    <2>5. op' = [op EXCEPT ![k] = b]
      BY <1>11 DEF RejectRead
    <2>6. UNCHANGED <<opened, balance, ledger, settlement, withdrawal, audit>>
      BY <1>11 DEF RejectRead
    <2> HIDE DEF b
    <2>3. QED
      BY <2>1, <2>2, <2>5, <2>6 DEF TypeOK, ServesSeller
  <1>12. ASSUME NEW k \in Workers, NEW status \in {"rejected", "approved", "processed"},
                op[k].id \in Withdrawals, SetStatus(k, status)
         PROVE  withdrawal' \in [Withdrawals -> Withdrawal] /\ audit' \in [Withdrawals -> Seq(WithdrawalStatus)]
    <2>1. status \in WithdrawalStatus
      BY DEF WithdrawalStatus
    <2>2. QED
      BY <1>12, <2>1, SetStatusType
  <1>13. ASSUME NEW k \in Workers, RejectCommit(k)
         PROVE  TypeInv'
    <2>1. op[k].seller \in Sellers /\ op[k].id \in Withdrawals
      BY <1>13 DEF RejectCommit, ServesSeller
    <2>2. opened' \subseteq Sellers /\ balance' \in [Sellers -> Int] /\ ledger' \in [Sellers -> Seq(Mutation)]
      BY <1>13, <2>1, PostType DEF RejectCommit
    <2>3. QED
      BY <1>12, <1>13, <2>1, <2>2 DEF RejectCommit, TypeOK, ServesSeller, Finish
  <1>14. ASSUME NEW k \in Workers, ApproveCommit(k) \/ ProcessCommit(k)
         PROVE  TypeInv'
    BY <1>12, <1>14 DEF ApproveCommit, ProcessCommit, TypeOK, ServesSeller, Finish
  <1>15. CASE UNCHANGED vars
    BY <1>15 DEF vars, TypeOK, ServesSeller
  <1>16. QED
    BY <1>1, <1>2, <1>3, <1>4, <1>5, <1>6, <1>7, <1>8, <1>9, <1>10, <1>11, <1>13, <1>14, <1>15
       DEF Next, BalanceNext, SettlementNext, WithdrawalNext

\* Every reachable state of SellerLedger is well typed: balances stay integers,
\* the log a sequence of mutations and each request in flight a record of a
\* seller's transaction, for any instance.
THEOREM TypeCorrect == Spec => []TypeOK
  <1>1. TypeInv => TypeOK
    BY DEF TypeInv
  <1>2. QED
    BY <1>1, TypeInit, TypeStep, PTL DEF Spec

-----------------------------------------------------------------------------
(* What a step does to the money and to the requests, once for all theorems *)

\* The transactions that have read a balance and will write it.
MoneyKind == {"credit", "debet", "release", "request", "reject"}

\* A posting of worker k: withdrawals and debits take money, all else gives it.
Posting(k, type, source, id, upto) ==
  /\ op[k].kind \in MoneyKind /\ op[k].seller \in Sellers
  /\ Post(k, type, source, id, upto)
  /\ type = "debet" => op[k].kind \in {"debet", "request"}
  /\ source = "settlement" =>
       /\ type = "credit" /\ id \in Orders /\ id = op[k].id
       /\ op[k].kind = "release" /\ ~op[k].dup
       /\ upto = op[k].base + op[k].amount
       /\ ReleaseCommit(k)
  /\ source # "settlement" => UNCHANGED settlement
  /\ op' = [op EXCEPT ![k] = Idle]

Ids == Orders \cup Withdrawals \cup {None}

LEMMA OpSteps ==
  ASSUME [Next]_vars
  PROVE  \/ UNCHANGED op
         \/ \E k \in Workers : Finish(k)
         \/ \E k \in Workers, s \in Sellers, a \in Amounts :
              CreditRead(k, s, a) \/ DebitRead(k, s, a) \/ RequestRead(k, s, a)
         \/ \E k \in Workers, o \in Orders : \E a \in Amounts \cup {Remaining(o)} : ReleaseRead(k, o, a)
         \/ \E k \in Workers : RejectRead(k)
         \/ \E k \in Workers, w \in Withdrawals : RejectCheck(k, w) \/ ApproveCheck(k, w) \/ ProcessCheck(k, w)
  BY DEF Next, BalanceNext, SettlementNext, WithdrawalNext, vars, InitializeSellerBalance,
         CreditCommit, DebitCommit, Rollback, CreatePendingSettlement, HoldSettlement,
         RefundSettlement, ReleaseCommit, RequestCommit, RejectCommit, ApproveCommit, ProcessCommit

LEMMA MoneyMoves ==
  ASSUME TypeInv, [Next]_vars
  PROVE  \/ UNCHANGED <<balance, ledger>>
         \/ \E k \in Workers, type \in {"credit", "debet"},
               source \in {"settlement", "withdraw", "admin_adjust"}, id \in Ids, upto \in Nat :
                 Posting(k, type, source, id, upto)
  <1> USE DEF TypeInv, Ids, MoneyKind
  <1>1. ASSUME NEW k \in Workers, CreditCommit(k)
        PROVE  Posting(k, "credit", "admin_adjust", None, 0)
    BY <1>1 DEF CreditCommit, Posting, ServesSeller, Finish
  <1>2. ASSUME NEW k \in Workers, DebitCommit(k)
        PROVE  Posting(k, "debet", "admin_adjust", None, 0)
    BY <1>2 DEF DebitCommit, Posting, ServesSeller, Finish
  <1>3. ASSUME NEW k \in Workers, ReleaseCommit(k), ~op[k].dup
        PROVE  Posting(k, "credit", "settlement", op[k].id, op[k].base + op[k].amount)
    BY <1>3 DEF ReleaseCommit, Posting, ServesSeller, Finish, TrancheRef
  <1>4. ASSUME NEW k \in Workers, NEW w \in Withdrawals, RequestCommit(k, w)
        PROVE  Posting(k, "debet", "withdraw", w, 0)
    BY <1>4 DEF RequestCommit, Posting, ServesSeller, Finish
  <1>5. ASSUME NEW k \in Workers, RejectCommit(k)
        PROVE  op[k].id \in Withdrawals /\ Posting(k, "credit", "withdraw", op[k].id, 0)
    BY <1>5 DEF RejectCommit, Posting, ServesSeller, Finish
  <1>6. ASSUME NEW k \in Workers, ReleaseCommit(k)
        PROVE  op[k].id \in Orders /\ op[k].base + op[k].amount \in Nat
    BY <1>6 DEF ReleaseCommit, ServesSeller, TypeOK, Op
  <1>7. ASSUME NEW k \in Workers, ReleaseCommit(k), op[k].dup
        PROVE  UNCHANGED <<balance, ledger>>
    BY <1>7 DEF ReleaseCommit
  <1>8. CASE \E s \in Sellers : InitializeSellerBalance(s)
    BY <1>8 DEF InitializeSellerBalance
  <1>9. CASE \E k \in Workers, s \in Sellers, a \in Amounts :
               CreditRead(k, s, a) \/ DebitRead(k, s, a) \/ RequestRead(k, s, a)
    BY <1>9 DEF CreditRead, DebitRead, RequestRead
  <1>10. CASE \E k \in Workers : Rollback(k) \/ RejectRead(k) \/ ApproveCommit(k) \/ ProcessCommit(k)
    BY <1>10 DEF Rollback, RejectRead, ApproveCommit, ProcessCommit
  <1>11. CASE \E o \in Orders : \/ \E g \in Amounts : CreatePendingSettlement(o, g)
                                \/ HoldSettlement(o) \/ RefundSettlement(o)
    BY <1>11 DEF CreatePendingSettlement, HoldSettlement, RefundSettlement
  <1>12. CASE \E k \in Workers, o \in Orders : \E a \in Amounts \cup {Remaining(o)} : ReleaseRead(k, o, a)
    BY <1>12 DEF ReleaseRead
  <1>13. CASE \E k \in Workers, w \in Withdrawals : RejectCheck(k, w) \/ ApproveCheck(k, w) \/ ProcessCheck(k, w)
    BY <1>13 DEF RejectCheck, ApproveCheck, ProcessCheck, Check
  <1>14. CASE \E k \in Workers : CreditCommit(k) \/ DebitCommit(k)
    BY <1>1, <1>2, <1>14
  <1>15. CASE \E k \in Workers : ReleaseCommit(k)
    BY <1>3, <1>6, <1>7, <1>15
  <1>16. CASE \E k \in Workers, w \in Withdrawals : RequestCommit(k, w)
    BY <1>4, <1>16
  <1>17. CASE \E k \in Workers : RejectCommit(k)
    BY <1>5, <1>17
  <1>18. CASE UNCHANGED vars
    BY <1>18 DEF vars
  <1>19. QED
    BY <1>8, <1>9, <1>10, <1>11, <1>12, <1>13, <1>14, <1>15, <1>16, <1>17, <1>18
       DEF Next, BalanceNext, SettlementNext, WithdrawalNext

\* The log of the seller served grows by one entry that says the new balance;
\* the other sellers keep theirs.
Posted(k, type, source, id, upto) ==
  LET s == op[k].seller
      n == Len(ledger[s])
      after == IF type = "credit" THEN op[k].seen + op[k].amount ELSE op[k].seen - op[k].amount
  IN  /\ n \in Nat
      /\ after \in Int
      /\ Len(ledger'[s]) = n + 1
      /\ \A i \in 1 .. n : ledger'[s][i] = ledger[s][i]
      /\ ledger'[s][n + 1] = [type |-> type, amount |-> op[k].amount, source |-> source,
                              ref |-> id, upto |-> upto, after |-> after]
      /\ balance'[s] = after
      /\ \A t \in Sellers : t # s => ledger'[t] = ledger[t] /\ balance'[t] = balance[t]

LEMMA PostEffect ==
  ASSUME TypeOK, NEW k \in Workers, NEW type \in {"credit", "debet"},
         NEW source \in {"settlement", "withdraw", "admin_adjust"},
         NEW id \in Ids, NEW upto \in Nat,
         op[k].seller \in Sellers, Post(k, type, source, id, upto)
  PROVE  Posted(k, type, source, id, upto)
  <1> DEFINE s == op[k].seller
             after == IF type = "credit" THEN op[k].seen + op[k].amount ELSE op[k].seen - op[k].amount
             m == [type |-> type, amount |-> op[k].amount, source |-> source,
                   ref |-> id, upto |-> upto, after |-> after]
  <1>1. op[k] \in Op /\ ledger[s] \in Seq(Mutation)
    BY DEF TypeOK
  <1>2. after \in Int
    BY <1>1 DEF Op
  <1>3. m \in Mutation
    BY <1>1, <1>2 DEF Op, Mutation, Ids
  <1>4. ledger' = [ledger EXCEPT ![s] = Append(ledger[s], m)] /\ balance' = [balance EXCEPT ![s] = after]
    BY DEF Post
  <1>5. ledger'[s] = Append(ledger[s], m) /\ balance'[s] = after
    BY <1>4 DEF TypeOK
  <1>6. \A t \in Sellers : t # s => ledger'[t] = ledger[t] /\ balance'[t] = balance[t]
    BY <1>4 DEF TypeOK
  <1> HIDE DEF m, after
  <1>7. /\ Len(ledger[s]) \in Nat
        /\ Len(ledger'[s]) = Len(ledger[s]) + 1
        /\ \A i \in 1 .. Len(ledger[s]) : ledger'[s][i] = ledger[s][i]
        /\ ledger'[s][Len(ledger[s]) + 1] = m
    BY <1>1, <1>3, <1>5
  <1>8. QED
    BY <1>2, <1>5, <1>6, <1>7 DEF m, after, Posted

-----------------------------------------------------------------------------
(* The balance row and the last entry of the log                           *)

LEMMA LastEntryStep ==
  ASSUME TypeInv, BalanceIsLastEntry, [Next]_vars
  PROVE  BalanceIsLastEntry'
  <1>1. CASE UNCHANGED <<balance, ledger>>
    BY <1>1 DEF BalanceIsLastEntry
  <1>2. CASE \E k \in Workers, type \in {"credit", "debet"},
               source \in {"settlement", "withdraw", "admin_adjust"}, id \in Ids, upto \in Nat :
                 Posting(k, type, source, id, upto)
    <2>1. PICK k \in Workers, type \in {"credit", "debet"},
            source \in {"settlement", "withdraw", "admin_adjust"}, id \in Ids, upto \in Nat :
              Posting(k, type, source, id, upto)
      BY <1>2
    <2> DEFINE s == op[k].seller
    <2>2. TypeOK /\ s \in Sellers /\ Post(k, type, source, id, upto)
      BY <2>1 DEF Posting, TypeInv
    <2>3. /\ Len(ledger[s]) \in Nat
          /\ Len(ledger'[s]) = Len(ledger[s]) + 1
          /\ ledger'[s][Len(ledger[s]) + 1].after = balance'[s]
          /\ \A t \in Sellers : t # s => ledger'[t] = ledger[t] /\ balance'[t] = balance[t]
      <3>1. Posted(k, type, source, id, upto)
        BY <2>2, PostEffect
      <3>2. QED
        BY <3>1 DEF Posted
    <2>4. ledger'[s] # <<>>
      BY <2>3
    <2> HIDE DEF s
    <2>5. QED
      BY <2>3, <2>4 DEF BalanceIsLastEntry
  <1>3. QED
    BY <1>1, <1>2, MoneyMoves

\* However many unlocked reads interleave, the balance row is what the last
\* committed mutation of the seller says: the UPDATE's row lock orders both.
THEOREM BalanceFollowsLedger == Spec => []BalanceIsLastEntry
  <1>1. Init => BalanceIsLastEntry
    BY DEF Init, BalanceIsLastEntry
  <1>2. QED
    BY <1>1, TypeInit, TypeStep, LastEntryStep, PTL DEF Spec

-----------------------------------------------------------------------------
(* No balance below zero                                                   *)

\* A debit in flight has read a balance that covers it.
Funded ==
  \A k \in Workers :
    /\ op[k].seen >= 0
    /\ op[k].kind \in {"debet", "request"} => op[k].seen >= op[k].amount

LEMMA FundedStep ==
  ASSUME TypeInv, NeverOverdrawn, Funded, [Next]_vars
  PROVE  Funded'
  <1> USE AmountsAssumption DEF TypeInv
  <1>1. ASSUME NEW k \in Workers, NEW s \in Sellers, NEW a \in Amounts,
               CreditRead(k, s, a) \/ DebitRead(k, s, a) \/ RequestRead(k, s, a)
        PROVE  Funded'
    <2>1. PICK kind \in {"credit", "debet", "request"} :
            /\ op' = [op EXCEPT ![k] = Begin(kind, s, None, a)]
            /\ kind \in {"debet", "request"} => balance[s] >= a
      BY <1>1 DEF CreditRead, DebitRead, RequestRead
    <2>2. balance[s] >= 0
      BY DEF NeverOverdrawn
    <2>3. QED
      BY <2>1, <2>2 DEF Begin, Funded, TypeOK
  <1>2. ASSUME NEW k \in Workers, NEW o \in Orders, NEW a \in Amounts \cup {Remaining(o)}, ReleaseRead(k, o, a)
        PROVE  Funded'
    <2>1. op' = [op EXCEPT ![k] = BeginRelease(o, a)]
      BY <1>2 DEF ReleaseRead
    <2>2. BeginRelease(o, a).kind = "release" /\ BeginRelease(o, a).seen >= 0
      BY SellerOfAssumption DEF BeginRelease, NeverOverdrawn
    <2>3. QED
      BY <2>1, <2>2 DEF Funded, TypeOK
  <1>3. ASSUME NEW k \in Workers, RejectRead(k)
        PROVE  Funded'
    <2>1. op' = [op EXCEPT ![k] = Begin("reject", op[k].seller, op[k].id, op[k].amount)]
      BY <1>3 DEF RejectRead
    <2>2. balance[op[k].seller] >= 0
      BY <1>3 DEF RejectRead, ServesSeller, NeverOverdrawn
    <2>3. QED
      BY <2>1, <2>2 DEF Begin, Funded, TypeOK
  <1>4. ASSUME NEW k \in Workers, NEW w \in Withdrawals,
               RejectCheck(k, w) \/ ApproveCheck(k, w) \/ ProcessCheck(k, w)
        PROVE  Funded'
    <2>1. PICK kind \in {"reject_checked", "approve_checked", "process_checked"} : Check(k, w, kind)
      BY <1>4 DEF RejectCheck, ApproveCheck, ProcessCheck
    <2>2. QED
      BY <2>1 DEF Check, Funded, TypeOK
  <1>5. ASSUME NEW k \in Workers, Finish(k)
        PROVE  Funded'
    BY <1>5, IdleType DEF Finish, Funded, TypeOK
  <1>6. ASSUME UNCHANGED op
        PROVE  Funded'
    BY <1>6 DEF Funded
  <1>7. QED
    BY <1>1, <1>2, <1>3, <1>4, <1>5, <1>6, OpSteps

LEMMA OverdrawnStep ==
  ASSUME TypeInv, NeverOverdrawn, Funded, [Next]_vars
  PROVE  NeverOverdrawn'
  <1>1. CASE UNCHANGED <<balance, ledger>>
    BY <1>1 DEF NeverOverdrawn
  <1>2. CASE \E k \in Workers, type \in {"credit", "debet"},
               source \in {"settlement", "withdraw", "admin_adjust"}, id \in Ids, upto \in Nat :
                 Posting(k, type, source, id, upto)
    <2>1. PICK k \in Workers, type \in {"credit", "debet"},
            source \in {"settlement", "withdraw", "admin_adjust"}, id \in Ids, upto \in Nat :
              Posting(k, type, source, id, upto)
      BY <1>2
    <2> DEFINE s == op[k].seller
               after == IF type = "credit" THEN op[k].seen + op[k].amount ELSE op[k].seen - op[k].amount
    <2>2. TypeOK /\ s \in Sellers /\ Post(k, type, source, id, upto)
      BY <2>1 DEF Posting, TypeInv
    <2>3. op[k].amount \in Nat /\ op[k].seen \in Int
      BY <2>2 DEF TypeOK, Op
    <2>4. after >= 0
      BY <2>1, <2>3 DEF Posting, Funded
    <2>5. /\ Len(ledger[s]) \in Nat
          /\ Len(ledger'[s]) = Len(ledger[s]) + 1
          /\ \A i \in 1 .. Len(ledger[s]) : ledger'[s][i] = ledger[s][i]
          /\ ledger'[s][Len(ledger[s]) + 1].after = after
          /\ balance'[s] = after
          /\ \A t \in Sellers : t # s => ledger'[t] = ledger[t] /\ balance'[t] = balance[t]
      <3>1. Posted(k, type, source, id, upto)
        BY <2>2, PostEffect
      <3>2. QED
        BY <3>1 DEF Posted
    <2> HIDE DEF s, after
    <2>6. QED
      BY <2>4, <2>5 DEF NeverOverdrawn
  <1>3. QED
    BY <1>1, <1>2, MoneyMoves

\* No seller's balance, and no balance_after, is ever negative, although two
\* debits may both be computed from one balance: each is checked against its own read.
THEOREM NoOverdraft == Spec => []NeverOverdrawn
  <1>1. Init => NeverOverdrawn /\ Funded
    BY DEF Init, NeverOverdrawn, Funded, Idle
  <1>2. QED
    BY <1>1, TypeInit, TypeStep, FundedStep, OverdrawnStep, PTL DEF Spec

-----------------------------------------------------------------------------
(* Settlements pay exactly what they release                               *)

\* `new` is `old` with m appended.
Grown(new, old, m) ==
  /\ Len(old) \in Nat
  /\ Len(new) = Len(old) + 1
  /\ \A i \in 1 .. Len(old) : new[i] = old[i]
  /\ new[Len(old) + 1] = m

LEMMA GrownTranches ==
  ASSUME NEW new, NEW old, NEW m, NEW o, Grown(new, old, m)
  PROVE  /\ \A i \in Tranches(old, o) : i \in Tranches(new, o) /\ new[i] = old[i]
         /\ \A i \in Tranches(new, o) : i \in Tranches(old, o) \/ (i = Len(old) + 1 /\ IsTranche(m, o))
         /\ IsTranche(m, o) => Len(old) + 1 \in Tranches(new, o)
         /\ ~IsTranche(m, o) => Tranches(new, o) = Tranches(old, o)
  <1>1. \A i \in Tranches(old, o) : i \in Tranches(new, o) /\ new[i] = old[i]
    BY DEF Grown, Tranches
  <1>2. \A i \in Tranches(new, o) : i \in Tranches(old, o) \/ (i = Len(old) + 1 /\ IsTranche(m, o))
    BY DEF Grown, Tranches
  <1>3. IsTranche(m, o) => Len(old) + 1 \in Tranches(new, o)
    BY DEF Grown, Tranches
  <1>4. ~IsTranche(m, o) => Tranches(new, o) = Tranches(old, o)
    BY <1>1, <1>2 DEF Tranches
  <1>5. QED
    BY <1>1, <1>2, <1>3, <1>4

LEMMA TelescopeSkip ==
  ASSUME NEW new, NEW old, NEW m, NEW o, NEW total \in Nat,
         Grown(new, old, m), ~IsTranche(m, o), Telescope(old, o, total)
  PROVE  Telescope(new, o, total)
  <1>1. Tranches(new, o) = Tranches(old, o) /\ \A i \in Tranches(old, o) : new[i] = old[i]
    BY GrownTranches
  <1>2. QED
    BY <1>1 DEF Telescope

LEMMA TelescopeExtend ==
  ASSUME NEW new \in Seq(Mutation), NEW old \in Seq(Mutation), NEW m \in Mutation, NEW o,
         NEW total \in Nat, NEW a \in Nat, a > 0,
         Grown(new, old, m), IsTranche(m, o), m.amount = a, m.upto = total + a,
         Telescope(old, o, total)
  PROVE  Telescope(new, o, total + a)
  <1> DEFINE n == Len(old) + 1
             T == Tranches(old, o)
  <1>1. /\ \A i \in T : i \in Tranches(new, o) /\ new[i] = old[i]
        /\ \A i \in Tranches(new, o) : i \in T \/ i = n
        /\ n \in Tranches(new, o)
    BY GrownTranches
  <1>2. new[n] = m /\ n \notin T
    BY DEF Grown, Tranches
  <1>3. \A i \in T : old[i].upto \in Nat /\ old[i].amount \in Nat
    <2>1. \A i \in T : old[i] \in Mutation
      BY DEF Tranches
    <2>2. QED
      BY <2>1 DEF Mutation
  <1>4. \A i \in T : old[i].upto <= total
    BY DEF Telescope
  <1>5. \A i \in Tranches(new, o) : new[i].upto <= total + a
    BY <1>1, <1>2, <1>3, <1>4
  <1>6. \A i, j \in Tranches(new, o) : new[i].upto = new[j].upto => i = j
    <2>1. \A i, j \in T : old[i].upto = old[j].upto => i = j
      BY DEF Telescope
    <2>2. \A i \in T : new[i].upto # new[n].upto
      BY <1>1, <1>2, <1>3, <1>4
    <2>3. QED
      BY <1>1, <2>1, <2>2
  <1>7. \A i \in Tranches(new, o) : \/ new[i].upto = new[i].amount
                                   \/ \E j \in Tranches(new, o) : new[j].upto = new[i].upto - new[i].amount
    <2>1. \A i \in T : \/ old[i].upto = old[i].amount
                      \/ \E j \in T : old[j].upto = old[i].upto - old[i].amount
      BY DEF Telescope
    <2>2. ASSUME NEW i \in T
          PROVE  \/ new[i].upto = new[i].amount
                 \/ \E j \in Tranches(new, o) : new[j].upto = new[i].upto - new[i].amount
      BY <1>1, <2>1
    <2>3. \/ new[n].upto = new[n].amount
          \/ \E j \in Tranches(new, o) : new[j].upto = new[n].upto - new[n].amount
      <3>1. CASE total = 0
        BY <1>2, <3>1
      <3>2. CASE total > 0
        <4>1. PICK j \in T : old[j].upto = total
          BY <3>2 DEF Telescope
        <4>2. new[n].upto - new[n].amount = total
          BY <1>2
        <4>3. QED
          BY <1>1, <4>1, <4>2
      <3>3. QED
        BY <3>1, <3>2
    <2>4. QED
      BY <1>1, <2>2, <2>3
  <1>8. \E i \in Tranches(new, o) : new[i].upto = total + a
    BY <1>1, <1>2
  <1>9. QED
    BY <1>5, <1>6, <1>7, <1>8 DEF Telescope

\* A release in flight holds its settlement's row lock: what it read is still so.
ReleasesOK ==
  /\ \A o \in Orders : settlement[o].status = "none" => settlement[o].released = 0
  /\ \A k \in Workers : op[k].kind = "release" => ReleaseInFlight(k) /\ op[k].amount > 0

\* No step of another kind touches a settlement or starts a release.
Aside ==
  /\ UNCHANGED settlement
  /\ \A j \in Workers : op'[j].kind = "release" => op'[j] = op[j]

LEMMA SettlementSteps ==
  ASSUME TypeInv, [Next]_vars
  PROVE  \/ \E k \in Workers, o \in Orders : \E a \in Amounts \cup {Remaining(o)} : ReleaseRead(k, o, a)
         \/ \E k \in Workers : ReleaseCommit(k)
         \/ \E o \in Orders : HoldSettlement(o) \/ RefundSettlement(o)
         \/ \E o \in Orders, g \in Amounts : CreatePendingSettlement(o, g)
         \/ Aside
  <1> USE DEF TypeInv
  <1>1. ASSUME NEW k \in Workers, NEW s \in Sellers, NEW a \in Amounts,
               CreditRead(k, s, a) \/ DebitRead(k, s, a) \/ RequestRead(k, s, a)
        PROVE  Aside
    BY <1>1 DEF CreditRead, DebitRead, RequestRead, Begin, Aside, TypeOK
  <1>2. ASSUME NEW k \in Workers, Finish(k), UNCHANGED settlement
        PROVE  Aside
    BY <1>2, IdleType DEF Finish, Aside, TypeOK
  <1>3. ASSUME NEW k \in Workers,
               CreditCommit(k) \/ DebitCommit(k) \/ RejectCommit(k) \/ ApproveCommit(k) \/ ProcessCommit(k) \/ Rollback(k)
        PROVE  Aside
    BY <1>2, <1>3 DEF CreditCommit, DebitCommit, RejectCommit, ApproveCommit, ProcessCommit, Rollback
  <1>4. ASSUME NEW k \in Workers, NEW w \in Withdrawals, RequestCommit(k, w)
        PROVE  Aside
    BY <1>2, <1>4 DEF RequestCommit
  <1>5. ASSUME NEW k \in Workers, NEW w \in Withdrawals,
               RejectCheck(k, w) \/ ApproveCheck(k, w) \/ ProcessCheck(k, w)
        PROVE  Aside
    <2>1. PICK kind \in {"reject_checked", "approve_checked", "process_checked"} : Check(k, w, kind)
      BY <1>5 DEF RejectCheck, ApproveCheck, ProcessCheck
    <2>2. QED
      BY <2>1 DEF Check, Aside, TypeOK
  <1>6. ASSUME NEW k \in Workers, RejectRead(k)
        PROVE  Aside
    BY <1>6 DEF RejectRead, Begin, Aside, TypeOK
  <1>7. ASSUME NEW s \in Sellers, InitializeSellerBalance(s)
        PROVE  Aside
    BY <1>7 DEF InitializeSellerBalance, Aside
  <1>8. CASE UNCHANGED vars
    BY <1>8 DEF vars, Aside
  <1>9. QED
    BY <1>1, <1>3, <1>4, <1>5, <1>6, <1>7, <1>8 DEF Next, BalanceNext, SettlementNext, WithdrawalNext

LEMMA ReleasesStep ==
  ASSUME TypeInv, TranchesTelescope, ReleasesOK, [Next]_vars
  PROVE  ReleasesOK'
  <1> USE DEF TypeInv
  <1>1. ASSUME NEW k \in Workers, NEW o \in Orders, NEW a \in Amounts \cup {Remaining(o)}, ReleaseRead(k, o, a)
        PROVE  ReleasesOK'
    <2>1. /\ settlement[o] \in Settlement
          /\ a \in Nat /\ a > 0 /\ a <= settlement[o].gross - settlement[o].released
          /\ ~SettlementLocked(o) /\ settlement[o].status \in Undecided
          /\ op' = [op EXCEPT ![k] = BeginRelease(o, a)] /\ UNCHANGED settlement
      BY <1>1, AmountsAssumption DEF ReleaseRead, TypeOK, Settlement, Remaining
    <2>2. ~TrancheCredited(o, TrancheRef(settlement[o].released, a))
      <3>1. \A i \in Tranches(ledger[SellerOf[o]], o) : ledger[SellerOf[o]][i].upto <= settlement[o].released
        BY DEF TranchesTelescope, Telescope
      <3>2. \A i \in 1 .. Len(ledger[SellerOf[o]]) : ledger[SellerOf[o]][i] \in Mutation
        BY SellerOfAssumption DEF TypeOK
      <3>3. settlement[o].released \in Nat
        BY <2>1 DEF Settlement
      <3>4. QED
        BY <2>1, <3>1, <3>2, <3>3 DEF TrancheCredited, TrancheRef, Tranches, IsTranche, Mutation
    <2>3. \A j \in Workers : j # k => op'[j] = op[j]
      BY <2>1 DEF TypeOK
    <2>4. /\ op'[k].kind = "release" /\ op'[k].id = o /\ op'[k].seller = SellerOf[o]
          /\ op'[k].base = settlement[o].released /\ op'[k].amount = a
          /\ ~op'[k].dup
      BY <2>1, <2>2 DEF BeginRelease, TypeOK
    <2>5. \A j \in Workers : op[j].kind = "release" => op[j].id # o
      BY <2>1 DEF SettlementLocked
    <2>6. ASSUME NEW j \in Workers, op'[j].kind = "release"
          PROVE  ReleaseInFlight(j)' /\ op'[j].amount > 0
      <3>1. CASE j = k
        <4>1. \A i \in Workers : op'[i].kind = "release" /\ op'[i].id = o => i = k
          BY <2>3, <2>5
        <4>2. settlement[o].released + a <= settlement[o].gross
          BY <2>1 DEF Settlement
        <4>3. QED
          BY <2>1, <2>4, <3>1, <4>1, <4>2 DEF ReleaseInFlight
      <3>2. CASE j # k
        <4>1. op'[j] = op[j] /\ op[j].id # o /\ ReleaseInFlight(j) /\ op[j].amount > 0
          BY <2>3, <2>5, <2>6, <3>2 DEF ReleasesOK
        <4>2. QED
          BY <2>1, <2>3, <2>4, <4>1 DEF ReleaseInFlight
      <3>3. QED
        BY <3>1, <3>2
    <2>7. QED
      BY <2>1, <2>6 DEF ReleasesOK
  <1>2. ASSUME NEW k \in Workers, ReleaseCommit(k)
        PROVE  ReleasesOK'
    <2> DEFINE o == op[k].id
    <2>1. o \in Orders /\ op[k].kind = "release" /\ ReleaseInFlight(k)
      BY <1>2 DEF ReleaseCommit, ReleasesOK, ServesSeller
    <2>2. /\ \A p \in Orders : p # o => settlement'[p] = settlement[p]
          /\ settlement'[o].status \in {"released", "partially_released"}
      BY <1>2, <2>1, ReleaseRow
    <2>3. \A j \in Workers : op'[j].kind = "release" => op'[j] = op[j] /\ j # k
      BY <1>2, IdleType DEF ReleaseCommit, Finish, TypeOK
    <2>4. ASSUME NEW j \in Workers, op'[j].kind = "release"
          PROVE  ReleaseInFlight(j)' /\ op'[j].amount > 0
      <3>1. op'[j] = op[j] /\ j # k /\ ReleaseInFlight(j) /\ op[j].amount > 0
        BY <2>3, <2>4 DEF ReleasesOK
      <3>2. op[j].id # o
        BY <2>1, <2>3, <2>4, <3>1 DEF ReleaseInFlight
      <3>3. QED
        BY <2>2, <2>3, <3>1, <3>2 DEF ReleaseInFlight
    <2> HIDE DEF o
    <2>5. QED
      BY <2>2, <2>4 DEF ReleasesOK
  <1>3. ASSUME NEW o \in Orders, HoldSettlement(o) \/ RefundSettlement(o)
        PROVE  ReleasesOK'
    <2>1. /\ \A p \in Orders : p # o => settlement'[p] = settlement[p]
          /\ settlement'[o].status \in {"held", "refunded"}
          /\ UNCHANGED op /\ ~SettlementLocked(o)
      BY <1>3 DEF HoldSettlement, RefundSettlement, TypeOK, Settlement
    <2>2. \A j \in Workers : op[j].kind = "release" => op[j].id # o
      BY <2>1 DEF SettlementLocked
    <2>3. QED
      BY <2>1, <2>2 DEF ReleasesOK, ReleaseInFlight
  <1>4. ASSUME NEW o \in Orders, NEW g \in Amounts, CreatePendingSettlement(o, g)
        PROVE  ReleasesOK'
    <2>1. /\ \A p \in Orders : p # o => settlement'[p] = settlement[p]
          /\ settlement'[o].status = "pending"
          /\ UNCHANGED op /\ settlement[o].status \notin Undecided
      BY <1>4 DEF CreatePendingSettlement, TypeOK, Undecided
    <2>2. \A j \in Workers : op[j].kind = "release" => op[j].id # o
      BY <2>1 DEF ReleasesOK, ReleaseInFlight
    <2>3. QED
      BY <2>1, <2>2 DEF ReleasesOK, ReleaseInFlight
  <1>5. CASE Aside
    BY <1>5 DEF Aside, ReleasesOK, ReleaseInFlight
  <1>6. QED
    BY <1>1, <1>2, <1>3, <1>4, <1>5, SettlementSteps

LEMMA TranchesStep ==
  ASSUME TypeInv, TranchesTelescope, ReleasesOK, [Next]_vars
  PROVE  TranchesTelescope'
  <1> USE SellerOfAssumption DEF TypeInv
  <1>1. ASSUME NEW k \in Workers, ReleaseCommit(k)
        PROVE  TranchesTelescope'
    <2> DEFINE o == op[k].id
               s == SellerOf[o]
               base == settlement[o].released
               a == op[k].amount
               m == [type |-> "credit", amount |-> a, source |-> "settlement",
                     ref |-> o, upto |-> base + a, after |-> op[k].seen + a]
    <2>1. /\ o \in Orders /\ s \in Sellers /\ op[k].seller = s
          /\ op[k].base = base /\ base + a <= settlement[o].gross /\ ~op[k].dup /\ a > 0
      BY <1>1 DEF ReleaseCommit, ReleasesOK, ReleaseInFlight, ServesSeller
    <2>2. op[k] \in Op /\ a \in Nat /\ base \in Nat
      BY <2>1 DEF TypeOK, Op, Settlement
    <2>3. /\ settlement'[o].released = base + a
          /\ settlement'[o].gross = settlement[o].gross
          /\ \A p \in Orders : p # o => settlement'[p] = settlement[p]
      BY <1>1, <2>1, ReleaseRow
    <2>4. Post(k, "credit", "settlement", o, base + a)
      BY <1>1, <2>1 DEF ReleaseCommit, TrancheRef
    <2>5. Posted(k, "credit", "settlement", o, base + a)
      <3>1. base + a \in Nat /\ o \in Ids
        BY <2>1, <2>2 DEF Ids
      <3>2. QED
        BY <2>1, <2>4, <3>1, PostEffect
    <2>6. Grown(ledger'[s], ledger[s], m) /\ \A t \in Sellers : t # s => ledger'[t] = ledger[t]
      BY <2>1, <2>5 DEF Posted, Grown
    <2>7. m \in Mutation /\ IsTranche(m, o) /\ m.amount = a /\ m.upto = base + a
          /\ \A p \in Orders : p # o => ~IsTranche(m, p)
      BY <2>1, <2>2 DEF Mutation, IsTranche, Op
    <2>8. ledger[s] \in Seq(Mutation) /\ ledger'[s] \in Seq(Mutation)
      BY <2>1, TypeStep DEF TypeOK
    <2>9. Telescope(ledger[s], o, base)
      BY <2>1 DEF TranchesTelescope
    <2> HIDE DEF m, a, base, s, o
    <2>10. Telescope(ledger'[s], o, base + a)
      BY <2>1, <2>2, <2>6, <2>7, <2>8, <2>9, TelescopeExtend
    <2>11. ASSUME NEW p \in Orders, p # o
           PROVE  Telescope(ledger'[SellerOf[p]], p, settlement[p].released)
      <3>1. Telescope(ledger[SellerOf[p]], p, settlement[p].released) /\ settlement[p].released \in Nat
        BY DEF TranchesTelescope, TypeOK, Settlement
      <3>2. CASE SellerOf[p] = s
        BY <2>6, <2>7, <2>11, <3>1, <3>2, TelescopeSkip
      <3>3. CASE SellerOf[p] # s
        BY <2>6, <3>1, <3>3
      <3>4. QED
        BY <3>2, <3>3
    <2>12. QED
      BY <2>1, <2>3, <2>10, <2>11 DEF TranchesTelescope, s
  <1>2. ASSUME \A o \in Orders : /\ settlement'[o].released = settlement[o].released
                                /\ settlement'[o].released <= settlement'[o].gross,
               ~\E k \in Workers : ReleaseCommit(k)
        PROVE  TranchesTelescope'
    <2>1. ASSUME NEW o \in Orders
          PROVE  Telescope(ledger'[SellerOf[o]], o, settlement[o].released)
      <3>1. Telescope(ledger[SellerOf[o]], o, settlement[o].released) /\ settlement[o].released \in Nat
        BY DEF TranchesTelescope, TypeOK, Settlement
      <3>2. CASE UNCHANGED <<balance, ledger>>
        BY <3>1, <3>2
      <3>3. CASE \E k \in Workers, type \in {"credit", "debet"},
                   source \in {"settlement", "withdraw", "admin_adjust"}, id \in Ids, upto \in Nat :
                     Posting(k, type, source, id, upto)
        <4>1. PICK k \in Workers, type \in {"credit", "debet"},
                source \in {"settlement", "withdraw", "admin_adjust"}, id \in Ids, upto \in Nat :
                  Posting(k, type, source, id, upto)
          BY <3>3
        <4> DEFINE s == op[k].seller
                   after == IF type = "credit" THEN op[k].seen + op[k].amount ELSE op[k].seen - op[k].amount
                   m == [type |-> type, amount |-> op[k].amount, source |-> source,
                         ref |-> id, upto |-> upto, after |-> after]
        <4>2. source # "settlement" /\ s \in Sellers /\ Post(k, type, source, id, upto)
          BY <1>2, <4>1 DEF Posting
        <4>3. Posted(k, type, source, id, upto)
          BY <4>2, PostEffect
        <4>4. Grown(ledger'[s], ledger[s], m) /\ \A t \in Sellers : t # s => ledger'[t] = ledger[t]
          BY <4>2, <4>3 DEF Posted, Grown
        <4>5. ~IsTranche(m, o)
          BY <4>2 DEF IsTranche
        <4> HIDE DEF m, s
        <4>6. CASE SellerOf[o] = s
          BY <3>1, <4>4, <4>5, <4>6, TelescopeSkip
        <4>7. CASE SellerOf[o] # s
          BY <3>1, <4>4, <4>7
        <4>8. QED
          BY <4>6, <4>7
      <3>4. QED
        BY <3>2, <3>3, MoneyMoves
    <2>2. QED
      BY <1>2, <2>1 DEF TranchesTelescope
  <1>3. ASSUME NEW o \in Orders,
               HoldSettlement(o) \/ RefundSettlement(o) \/ \E g \in Amounts : CreatePendingSettlement(o, g)
        PROVE  \A p \in Orders : /\ settlement'[p].released = settlement[p].released
                                /\ settlement'[p].released <= settlement'[p].gross
    <2>1. \A p \in Orders : settlement[p] \in Settlement /\ settlement[p].released <= settlement[p].gross
      BY DEF TypeOK, TranchesTelescope
    <2>2. CASE \E g \in Amounts : CreatePendingSettlement(o, g)
      <3>1. settlement[o].released = 0
        BY <2>2 DEF CreatePendingSettlement, ReleasesOK
      <3>2. QED
        BY <2>1, <2>2, <3>1, AmountsAssumption DEF CreatePendingSettlement, TypeOK
    <2>3. CASE HoldSettlement(o) \/ RefundSettlement(o)
      <3>1. PICK status : settlement' = [settlement EXCEPT ![o].status = status]
        BY <2>3 DEF HoldSettlement, RefundSettlement
      <3>2. QED
        BY <2>1, <3>1 DEF TypeOK, Settlement
    <2>4. QED
      BY <1>3, <2>2, <2>3
  <1>4. ASSUME UNCHANGED settlement
        PROVE  \A p \in Orders : /\ settlement'[p].released = settlement[p].released
                                /\ settlement'[p].released <= settlement'[p].gross
    BY <1>4 DEF TranchesTelescope
  <1>5. QED
    BY <1>1, <1>2, <1>3, <1>4, SettlementSteps DEF ReleaseRead, Aside

LEMMA ReleasesInit == Init => TranchesTelescope /\ ReleasesOK
  <1> SUFFICES ASSUME Init PROVE TranchesTelescope /\ ReleasesOK
    OBVIOUS
  <1>1. \A o \in Orders : /\ ledger[SellerOf[o]] = <<>>
                         /\ settlement[o] = [status |-> "none", gross |-> 0, released |-> 0]
    BY SellerOfAssumption DEF Init
  <1>2. \A o \in Orders : Tranches(ledger[SellerOf[o]], o) = {}
    BY <1>1 DEF Tranches
  <1>3. \A o \in Orders : settlement[o].released = 0 /\ settlement[o].gross = 0
    BY <1>1
  <1>4. \A k \in Workers : op[k].kind # "release"
    BY DEF Init, Idle
  <1>5. ReleasesOK
    BY <1>3, <1>4 DEF ReleasesOK
  <1>6. \A o \in Orders : Telescope(ledger[SellerOf[o]], o, 0)
    BY <1>2 DEF Telescope
  <1>7. QED
    BY <1>3, <1>5, <1>6 DEF TranchesTelescope

\* In any interleaving the tranches credited for a settlement add up to its
\* released_amount and never exceed its gross amount: releases race with holds,
\* refunds and each other on the row lock, and the idempotency check never
\* swallows one.
THEOREM ReleasesPaidOnce == Spec => []TranchesTelescope
  BY TypeInit, TypeStep, ReleasesInit, ReleasesStep, TranchesStep, PTL DEF Spec

LEMMA FinalStep ==
  ASSUME TypeInv, TranchesTelescope, ReleasesOK, [Next]_vars, NEW o \in Orders
  PROVE  /\ settlement[o].status \in Finalized => settlement'[o] = settlement[o]
         /\ settlement'[o].released >= settlement[o].released
  <1> USE DEF TypeInv
  <1>1. settlement[o] \in Settlement
    BY DEF TypeOK
  <1>2. ASSUME NEW p \in Orders, HoldSettlement(p) \/ RefundSettlement(p)
        PROVE  /\ settlement[o].status \in Finalized => settlement'[o] = settlement[o]
               /\ settlement'[o].released >= settlement[o].released
    <2>1. PICK status : settlement' = [settlement EXCEPT ![p].status = status]
      BY <1>2 DEF HoldSettlement, RefundSettlement
    <2>2. settlement[p].status \in Undecided
      BY <1>2 DEF HoldSettlement, RefundSettlement
    <2>3. QED
      BY <1>1, <2>1, <2>2 DEF TypeOK, Settlement, Undecided, Finalized
  <1>3. ASSUME NEW p \in Orders, NEW g \in Amounts, CreatePendingSettlement(p, g)
        PROVE  /\ settlement[o].status \in Finalized => settlement'[o] = settlement[o]
               /\ settlement'[o].released >= settlement[o].released
    BY <1>1, <1>3 DEF CreatePendingSettlement, TypeOK, Settlement, ReleasesOK, Finalized
  <1>4. ASSUME NEW k \in Workers, ReleaseCommit(k)
        PROVE  /\ settlement[o].status \in Finalized => settlement'[o] = settlement[o]
               /\ settlement'[o].released >= settlement[o].released
    <2>1. /\ op[k].id \in Orders /\ op[k].amount \in Nat
          /\ settlement[op[k].id].status \in Undecided
          /\ op[k].base = settlement[op[k].id].released
      BY <1>4 DEF ReleaseCommit, ReleasesOK, ReleaseInFlight, ServesSeller, TypeOK, Op
    <2>2. /\ settlement'[op[k].id].released = op[k].base + op[k].amount
          /\ \A p \in Orders : p # op[k].id => settlement'[p] = settlement[p]
      BY <1>4, <2>1, ReleaseRow
    <2>3. QED
      BY <1>1, <2>1, <2>2 DEF Settlement, Undecided, Finalized
  <1>5. CASE UNCHANGED settlement
    BY <1>1, <1>5 DEF Settlement
  <1>6. QED
    BY <1>2, <1>3, <1>4, <1>5, SettlementSteps DEF ReleaseRead, Aside

\* Once released or refunded a settlement row never changes, and released_amount
\* never goes down: the row lock makes the "already finalized" check hold to the commit.
THEOREM SettlementsStayFinal == Spec => FinalizedStaysFinal
  <1>1. TypeInv /\ TranchesTelescope /\ ReleasesOK /\ [Next]_vars =>
          [\A o \in Orders :
             /\ settlement[o].status \in Finalized => settlement'[o] = settlement[o]
             /\ settlement'[o].released >= settlement[o].released]_vars
    BY FinalStep
  <1>2. QED
    BY <1>1, TypeInit, TypeStep, ReleasesInit, ReleasesStep, TranchesStep, PTL DEF Spec, FinalizedStaysFinal

-----------------------------------------------------------------------------
(* Without overlap on a seller, the log adds up                            *)

\* No two workers may serve one seller.
Partitioned == \A j, k \in Workers : j # k => Handles[j] \cap Handles[k] = {}

\* A request in flight works for a seller of its worker.
OwnSeller == \A k \in Workers : op[k].kind # "idle" => op[k].seller \in Handles[k]

LEMMA OwnSellerStep ==
  ASSUME TypeInv, OwnSeller, [Next]_vars
  PROVE  OwnSeller'
  <1> USE DEF TypeInv
  <1>1. ASSUME NEW k \in Workers, NEW s \in Sellers, NEW a \in Amounts,
               CreditRead(k, s, a) \/ DebitRead(k, s, a) \/ RequestRead(k, s, a)
        PROVE  OwnSeller'
    <2>1. PICK kind \in OpKind : op' = [op EXCEPT ![k] = Begin(kind, s, None, a)]
      BY <1>1 DEF CreditRead, DebitRead, RequestRead, OpKind
    <2>2. s \in Handles[k] /\ Begin(kind, s, None, a).seller = s
      BY <1>1 DEF CreditRead, DebitRead, RequestRead, Idling, Begin
    <2>3. QED
      BY <2>1, <2>2 DEF OwnSeller, TypeOK
  <1>2. ASSUME NEW k \in Workers, NEW o \in Orders, NEW a \in Amounts \cup {Remaining(o)}, ReleaseRead(k, o, a)
        PROVE  OwnSeller'
    BY <1>2 DEF ReleaseRead, Idling, BeginRelease, OwnSeller, TypeOK
  <1>3. ASSUME NEW k \in Workers, RejectRead(k)
        PROVE  OwnSeller'
    BY <1>3 DEF RejectRead, Begin, OwnSeller, TypeOK
  <1>4. ASSUME NEW k \in Workers, NEW w \in Withdrawals,
               RejectCheck(k, w) \/ ApproveCheck(k, w) \/ ProcessCheck(k, w)
        PROVE  OwnSeller'
    <2>1. PICK kind : Check(k, w, kind)
      BY <1>4 DEF RejectCheck, ApproveCheck, ProcessCheck
    <2>2. QED
      BY <2>1 DEF Check, OwnSeller, TypeOK
  <1>5. ASSUME NEW k \in Workers, Finish(k)
        PROVE  OwnSeller'
    BY <1>5, IdleType DEF Finish, OwnSeller, TypeOK
  <1>6. QED
    BY <1>1, <1>2, <1>3, <1>4, <1>5, OpSteps DEF OwnSeller

\* Under Partitioned, what a transaction has read is still the balance when it
\* commits, and so the new entry continues the chain.
LEMMA FreshReadsStep ==
  ASSUME Partitioned, TypeInv, OwnSeller, FreshReads, [Next]_vars
  PROVE  FreshReads'
  <1> USE DEF TypeInv
  <1>1. CASE UNCHANGED <<balance, ledger>>
    <2>1. ASSUME NEW k \in Workers, NEW s \in Sellers, NEW a \in Amounts,
                 CreditRead(k, s, a) \/ DebitRead(k, s, a) \/ RequestRead(k, s, a)
          PROVE  FreshReads'
      <3>1. PICK kind \in OpKind : op' = [op EXCEPT ![k] = Begin(kind, s, None, a)]
        BY <2>1 DEF CreditRead, DebitRead, RequestRead, OpKind
      <3>2. Begin(kind, s, None, a).seller = s /\ Begin(kind, s, None, a).seen = balance[s]
        BY DEF Begin
      <3>3. QED
        BY <1>1, <3>1, <3>2 DEF FreshReads, TypeOK
    <2>2. ASSUME NEW k \in Workers, NEW o \in Orders, NEW a \in Amounts \cup {Remaining(o)}, ReleaseRead(k, o, a)
          PROVE  FreshReads'
      BY <1>1, <2>2 DEF ReleaseRead, BeginRelease, FreshReads, TypeOK
    <2>3. ASSUME NEW k \in Workers, RejectRead(k)
          PROVE  FreshReads'
      BY <1>1, <2>3 DEF RejectRead, Begin, FreshReads, TypeOK
    <2>4. ASSUME NEW k \in Workers, NEW w \in Withdrawals,
                 RejectCheck(k, w) \/ ApproveCheck(k, w) \/ ProcessCheck(k, w)
          PROVE  FreshReads'
      <3>1. PICK kind \in {"reject_checked", "approve_checked", "process_checked"} : Check(k, w, kind)
        BY <2>4 DEF RejectCheck, ApproveCheck, ProcessCheck
      <3>2. QED
        BY <1>1, <3>1 DEF Check, FreshReads, TypeOK
    <2>5. ASSUME NEW k \in Workers, Finish(k)
          PROVE  FreshReads'
      BY <1>1, <2>5, IdleType DEF Finish, FreshReads, TypeOK
    <2>6. ASSUME UNCHANGED op
          PROVE  FreshReads'
      BY <1>1, <2>6 DEF FreshReads
    <2>7. QED
      BY <2>1, <2>2, <2>3, <2>4, <2>5, <2>6, OpSteps
  <1>2. CASE \E k \in Workers, type \in {"credit", "debet"},
               source \in {"settlement", "withdraw", "admin_adjust"}, id \in Ids, upto \in Nat :
                 Posting(k, type, source, id, upto)
    <2>1. PICK k \in Workers, type \in {"credit", "debet"},
            source \in {"settlement", "withdraw", "admin_adjust"}, id \in Ids, upto \in Nat :
              Posting(k, type, source, id, upto)
      BY <1>2
    <2>2. Posted(k, type, source, id, upto)
      BY <2>1, PostEffect DEF Posting
    <2>3. \A t \in Sellers : t # op[k].seller => balance'[t] = balance[t]
      BY <2>2 DEF Posted
    <2>4. op'[k].kind = "idle" /\ \A j \in Workers : j # k => op'[j] = op[j]
      BY <2>1, IdleType DEF Posting, TypeOK
    <2>5. ASSUME NEW j \in Workers, j # k, op[j].kind # "idle"
          PROVE  op[j].seller \in Sellers /\ op[j].seller # op[k].seller
      BY <2>1, <2>5 DEF Partitioned, OwnSeller, ServesSeller, Posting, MoneyKind
    <2>6. QED
      BY <2>3, <2>4, <2>5 DEF FreshReads
  <1>3. QED
    BY <1>1, <1>2, MoneyMoves

LEMMA ChainStep ==
  ASSUME TypeInv, BalanceIsLastEntry, FreshReads, LedgerChain, [Next]_vars
  PROVE  LedgerChain'
  <1>1. CASE UNCHANGED <<balance, ledger>>
    BY <1>1 DEF LedgerChain
  <1>2. CASE \E k \in Workers, type \in {"credit", "debet"},
               source \in {"settlement", "withdraw", "admin_adjust"}, id \in Ids, upto \in Nat :
                 Posting(k, type, source, id, upto)
    <2>1. PICK k \in Workers, type \in {"credit", "debet"},
            source \in {"settlement", "withdraw", "admin_adjust"}, id \in Ids, upto \in Nat :
              Posting(k, type, source, id, upto)
      BY <1>2
    <2> DEFINE s == op[k].seller
               n == Len(ledger[s])
               before == IF n = 0 THEN 0 ELSE ledger[s][n].after
    <2>2. TypeOK /\ s \in Sellers /\ Post(k, type, source, id, upto)
      BY <2>1 DEF Posting, TypeInv
    <2>3. Posted(k, type, source, id, upto)
      BY <2>2, PostEffect
    <2>4. ledger[s] \in Seq(Mutation) /\ n \in Nat /\ op[k].seen \in Int /\ op[k].amount \in Nat
      BY <2>2 DEF TypeOK, Op
    <2>5. op[k].seen = before
      <3>1. op[k].seen = balance[s]
        BY <2>1 DEF FreshReads, Posting, MoneyKind
      <3>2. ledger[s] = <<>> <=> n = 0
        BY <2>4
      <3>3. QED
        BY <2>2, <3>1, <3>2 DEF BalanceIsLastEntry
    <2>6. /\ Len(ledger'[s]) = n + 1
          /\ \A i \in 1 .. n : ledger'[s][i] = ledger[s][i]
          /\ ledger'[s][n + 1].after = Signed(ledger'[s][n + 1]) + before
          /\ \A t \in Sellers : t # s => ledger'[t] = ledger[t]
      <3> DEFINE m == ledger'[s][n + 1]
      <3>1. /\ m.type = type /\ m.amount = op[k].amount
            /\ m.after = IF type = "credit" THEN before + op[k].amount ELSE before - op[k].amount
        BY <2>3, <2>5 DEF Posted
      <3>2. before \in Int
        BY <2>4, <2>5
      <3> HIDE DEF m, before
      <3>3. m.after = Signed(m) + before
        BY <2>4, <3>1, <3>2 DEF Signed
      <3>4. QED
        BY <2>3, <3>3 DEF Posted, m
    <2>7. ASSUME NEW t \in Sellers, NEW i \in 1 .. Len(ledger'[t])
          PROVE  ledger'[t][i].after
                   = Signed(ledger'[t][i]) + (IF i = 1 THEN 0 ELSE ledger'[t][i - 1].after)
      <3>1. CASE t # s
        BY <2>6, <3>1 DEF LedgerChain
      <3>2. CASE t = s /\ i \in 1 .. n
        <4>1. ledger'[s][i] = ledger[s][i] /\ (i # 1 => ledger'[s][i - 1] = ledger[s][i - 1])
          BY <2>4, <2>6, <3>2
        <4>2. QED
          BY <2>2, <3>2, <4>1 DEF LedgerChain
      <3>3. CASE t = s /\ i = n + 1
        <4>1. CASE n = 0
          BY <2>6, <3>3, <4>1
        <4>2. CASE n # 0
          <5>1. ledger'[s][n] = ledger[s][n]
            <6>1. n \in 1 .. n
              BY <2>4, <4>2
            <6>2. QED
              BY <2>6, <6>1
          <5>2. QED
            BY <2>4, <2>6, <3>3, <4>2, <5>1
        <4>3. QED
          BY <4>1, <4>2
      <3>4. QED
        BY <2>4, <2>6, <3>1, <3>2, <3>3
    <2>8. QED
      BY <2>7 DEF LedgerChain, Signed
  <1>3. QED
    BY <1>1, <1>2, MoneyMoves

\* When no two requests of a seller overlap, balance_after is the running total
\* of the log: lost updates of the balance come from overlapping requests only.
THEOREM LogAddsUp ==
  ASSUME Partitioned
  PROVE  Spec => []LedgerChain
  <1>1. Init => OwnSeller /\ FreshReads /\ LedgerChain /\ BalanceIsLastEntry
    BY IdleType DEF Init, OwnSeller, FreshReads, LedgerChain, BalanceIsLastEntry
  <1>2. TypeInv /\ OwnSeller /\ FreshReads /\ [Next]_vars => FreshReads'
    BY FreshReadsStep
  <1>3. QED
    BY <1>1, <1>2, TypeInit, TypeStep, OwnSellerStep, LastEntryStep, ChainStep, PTL DEF Spec

-----------------------------------------------------------------------------
(* Withdrawals: what each step does to the rows and to their log entries   *)

ReviewKind == {"reject_checked", "reject", "approve_checked", "process_checked"}

\* A review in flight was told of a withdrawal that exists, one without a row
\* has no audit.
ReviewsOK ==
  /\ \A k \in Workers : op[k].kind \in ReviewKind => ReviewInFlight(k)
  /\ \A w \in Withdrawals :
       IF withdrawal[w].status = "none" THEN audit[w] = <<>> ELSE withdrawal[w].seller \in Sellers

\* A log entry that is no withdrawal's.
Unrelated(m) == m.source # "withdraw" /\ (m.type = "debet" => m.ref = None)

LogAside ==
  \A s \in Sellers :
    ledger'[s] = ledger[s] \/ \E m : Unrelated(m) /\ Grown(ledger'[s], ledger[s], m)

\* The row of w gets a status and one audit row; its seller and amount stay.
StatusSet(w, status) ==
  /\ withdrawal'[w].status = status
  /\ withdrawal'[w].seller = withdrawal[w].seller
  /\ withdrawal'[w].amount = withdrawal[w].amount
  /\ \A v \in Withdrawals : v # w => withdrawal'[v] = withdrawal[v] /\ audit'[v] = audit[v]
  /\ Grown(audit'[w], audit[w], status)

\* A request of worker k takes the amount of the new withdrawal w.
Requested(k, w) ==
  /\ op[k].kind = "request" /\ op[k].seller \in Sellers
  /\ withdrawal[w].status = "none"
  /\ withdrawal'[w] = [status |-> "pending", seller |-> op[k].seller, amount |-> op[k].amount]
  /\ \A v \in Withdrawals : v # w => withdrawal'[v] = withdrawal[v] /\ audit'[v] = audit[v]
  /\ Grown(audit'[w], audit[w], "pending")
  /\ Posted(k, "debet", "withdraw", w, 0)
  /\ Finish(k)

\* A rejection by worker k gives the amount back.
Rejected(k) ==
  /\ op[k].kind = "reject" /\ op[k].id \in Withdrawals /\ op[k].seller \in Sellers
  /\ StatusSet(op[k].id, "rejected")
  /\ Posted(k, "credit", "withdraw", op[k].id, 0)
  /\ Finish(k)

\* An approval or a completion by worker k leaves the money alone.
Promoted(k) ==
  /\ op[k].id \in Withdrawals
  /\ \/ op[k].kind = "approve_checked" /\ StatusSet(op[k].id, "approved")
     \/ op[k].kind = "process_checked" /\ StatusSet(op[k].id, "processed")
  /\ UNCHANGED ledger
  /\ Finish(k)

RowsAside == UNCHANGED <<withdrawal, audit>> /\ LogAside

WithdrawalStep ==
  \/ \E k \in Workers, w \in Withdrawals : Requested(k, w)
  \/ \E k \in Workers : Rejected(k)
  \/ \E k \in Workers : Promoted(k)
  \/ \E k \in Workers, w \in Withdrawals :
       (RejectCheck(k, w) \/ ApproveCheck(k, w) \/ ProcessCheck(k, w)) /\ RowsAside
  \/ \E k \in Workers : RejectRead(k) /\ RowsAside
  \/ RowsAside /\ \A j \in Workers : op'[j].kind \in ReviewKind => op'[j] = op[j]

LEMMA StatusEffect ==
  ASSUME TypeOK, NEW k \in Workers, op[k].id \in Withdrawals,
         NEW status \in WithdrawalStatus, SetStatus(k, status)
  PROVE  StatusSet(op[k].id, status)
  <1> DEFINE w == op[k].id
             row == [status |-> status, seller |-> withdrawal[w].seller, amount |-> withdrawal[w].amount]
  <1>1. withdrawal' = [withdrawal EXCEPT ![w] = row]
    BY SetStatusType
  <1>2. row.status = status /\ row.seller = withdrawal[w].seller /\ row.amount = withdrawal[w].amount
    OBVIOUS
  <1> HIDE DEF row
  <1>3. withdrawal'[w] = row /\ \A v \in Withdrawals : v # w => withdrawal'[v] = withdrawal[v]
    BY <1>1 DEF TypeOK
  <1>4. audit'[w] = Append(audit[w], status) /\ \A v \in Withdrawals : v # w => audit'[v] = audit[v]
    BY DEF SetStatus, TypeOK
  <1>5. Grown(audit'[w], audit[w], status)
    <2>1. audit[w] \in Seq(WithdrawalStatus)
      BY DEF TypeOK
    <2>2. QED
      BY <1>4, <2>1 DEF Grown
  <1>6. QED
    BY <1>2, <1>3, <1>4, <1>5 DEF StatusSet

LEMMA RequestEffect ==
  ASSUME TypeInv, NEW k \in Workers, NEW w \in Withdrawals, RequestCommit(k, w)
  PROVE  Requested(k, w)
  <1> DEFINE row == [status |-> "pending", seller |-> op[k].seller, amount |-> op[k].amount]
  <1>1. TypeOK /\ op[k].kind = "request" /\ op[k].seller \in Sellers
    BY DEF RequestCommit, TypeInv, ServesSeller
  <1>2. withdrawal' = [withdrawal EXCEPT ![w] = row] /\ withdrawal[w].status = "none"
    BY DEF RequestCommit
  <1>3. Post(k, "debet", "withdraw", w, 0) /\ Finish(k)
    BY DEF RequestCommit
  <1>4. Posted(k, "debet", "withdraw", w, 0)
    <2>1. w \in Ids /\ 0 \in Nat
      BY DEF Ids
    <2>2. QED
      BY <1>1, <1>3, <2>1, PostEffect
  <1>5. audit'[w] = Append(audit[w], "pending") /\ \A v \in Withdrawals : v # w => audit'[v] = audit[v]
    BY <1>1 DEF RequestCommit, TypeOK
  <1>6. Grown(audit'[w], audit[w], "pending")
    <2>1. audit[w] \in Seq(WithdrawalStatus) /\ "pending" \in WithdrawalStatus
      BY <1>1 DEF TypeOK, WithdrawalStatus
    <2>2. QED
      BY <1>5, <2>1 DEF Grown
  <1> HIDE DEF row
  <1>7. withdrawal'[w] = row /\ \A v \in Withdrawals : v # w => withdrawal'[v] = withdrawal[v]
    BY <1>1, <1>2 DEF TypeOK
  <1>8. QED
    BY <1>1, <1>2, <1>3, <1>4, <1>5, <1>6, <1>7 DEF Requested, row

LEMMA RejectEffect ==
  ASSUME TypeInv, NEW k \in Workers, RejectCommit(k)
  PROVE  Rejected(k)
  <1>1. TypeOK /\ op[k].kind = "reject" /\ op[k].id \in Withdrawals /\ op[k].seller \in Sellers
    BY DEF RejectCommit, TypeInv, ServesSeller
  <1>2. SetStatus(k, "rejected") /\ Post(k, "credit", "withdraw", op[k].id, 0) /\ Finish(k)
    BY DEF RejectCommit
  <1>3. "rejected" \in WithdrawalStatus /\ op[k].id \in Ids /\ 0 \in Nat
    BY <1>1 DEF WithdrawalStatus, Ids
  <1>4. StatusSet(op[k].id, "rejected")
    BY <1>1, <1>2, <1>3, StatusEffect
  <1>5. Posted(k, "credit", "withdraw", op[k].id, 0)
    BY <1>1, <1>2, <1>3, PostEffect
  <1>6. QED
    BY <1>1, <1>2, <1>4, <1>5 DEF Rejected

LEMMA PromoteEffect ==
  ASSUME TypeInv, NEW k \in Workers, ApproveCommit(k) \/ ProcessCommit(k)
  PROVE  Promoted(k)
  <1>1. TypeOK /\ op[k].id \in Withdrawals /\ UNCHANGED ledger /\ Finish(k)
    BY DEF ApproveCommit, ProcessCommit, TypeInv, ServesSeller
  <1>2. "approved" \in WithdrawalStatus /\ "processed" \in WithdrawalStatus
    BY DEF WithdrawalStatus
  <1>3. CASE ApproveCommit(k)
    BY <1>1, <1>2, <1>3, StatusEffect DEF ApproveCommit, Promoted
  <1>4. CASE ProcessCommit(k)
    BY <1>1, <1>2, <1>4, StatusEffect DEF ProcessCommit, Promoted
  <1>5. QED
    BY <1>3, <1>4

LEMMA PostAside ==
  ASSUME TypeInv, NEW k \in Workers, op[k].seller \in Sellers,
         NEW type \in {"credit", "debet"}, NEW source \in {"settlement", "admin_adjust"},
         NEW id \in Ids, NEW upto \in Nat, Post(k, type, source, id, upto),
         type = "debet" => id = None
  PROVE  LogAside
  <1> DEFINE s == op[k].seller
             m == [type |-> type, amount |-> op[k].amount, source |-> source, ref |-> id, upto |-> upto,
                   after |-> IF type = "credit" THEN op[k].seen + op[k].amount ELSE op[k].seen - op[k].amount]
  <1>1. Posted(k, type, source, id, upto)
    BY PostEffect DEF TypeInv
  <1>2. Grown(ledger'[s], ledger[s], m) /\ \A t \in Sellers : t # s => ledger'[t] = ledger[t]
    BY <1>1 DEF Posted, Grown
  <1>3. Unrelated(m)
    BY DEF Unrelated
  <1> HIDE DEF m
  <1>4. QED
    BY <1>2, <1>3 DEF LogAside

LEMMA WithdrawalSteps ==
  ASSUME TypeInv, [Next]_vars
  PROVE  WithdrawalStep
  <1> DEFINE Other == \A j \in Workers : op'[j].kind \in ReviewKind => op'[j] = op[j]
  <1> USE DEF TypeInv
  <1>1. ASSUME NEW k \in Workers, Finish(k)
        PROVE  Other
    BY <1>1, IdleType DEF Finish, TypeOK, ReviewKind
  <1>2. ASSUME NEW k \in Workers, NEW b, op' = [op EXCEPT ![k] = b],
               b.kind \in {"credit", "debet", "request", "release"}
        PROVE  Other
    BY <1>2 DEF TypeOK, ReviewKind
  <1>3. ASSUME UNCHANGED <<ledger, withdrawal, audit>>
        PROVE  RowsAside
    BY <1>3 DEF RowsAside, LogAside
  <1> HIDE DEF Other
  <1>4. ASSUME NEW k \in Workers, NEW s \in Sellers, NEW a \in Amounts,
               CreditRead(k, s, a) \/ DebitRead(k, s, a) \/ RequestRead(k, s, a)
        PROVE  RowsAside /\ Other
    <2>1. PICK kind \in {"credit", "debet", "request"} : op' = [op EXCEPT ![k] = Begin(kind, s, None, a)]
      BY <1>4 DEF CreditRead, DebitRead, RequestRead
    <2>2. Begin(kind, s, None, a).kind = kind
      BY DEF Begin
    <2>3. QED
      BY <1>2, <1>3, <1>4, <2>1, <2>2 DEF CreditRead, DebitRead, RequestRead
  <1>5. ASSUME NEW k \in Workers, NEW o \in Orders, NEW a \in Amounts \cup {Remaining(o)}, ReleaseRead(k, o, a)
        PROVE  RowsAside /\ Other
    <2>1. BeginRelease(o, a).kind = "release"
      BY DEF BeginRelease
    <2>2. QED
      BY <1>2, <1>3, <1>5, <2>1 DEF ReleaseRead
  <1>6. ASSUME NEW k \in Workers, CreditCommit(k) \/ DebitCommit(k)
        PROVE  RowsAside /\ Other
    <2>1. op[k].seller \in Sellers /\ Finish(k) /\ UNCHANGED <<withdrawal, audit>>
      BY <1>6 DEF ServesSeller, CreditCommit, DebitCommit
    <2>2. PICK type \in {"credit", "debet"} : Post(k, type, "admin_adjust", None, 0)
      BY <1>6 DEF CreditCommit, DebitCommit
    <2>3. None \in Ids /\ 0 \in Nat
      BY DEF Ids
    <2>4. QED
      BY <1>1, <2>1, <2>2, <2>3, PostAside DEF RowsAside
  <1>7. ASSUME NEW k \in Workers, ReleaseCommit(k)
        PROVE  RowsAside /\ Other
    <2>1. op[k].seller \in Sellers /\ op[k].id \in Ids /\ Finish(k) /\ UNCHANGED <<withdrawal, audit>>
      BY <1>7 DEF ServesSeller, ReleaseCommit, Ids
    <2>2. TrancheRef(op[k].base, op[k].amount) \in Nat
      BY DEF TrancheRef, TypeOK, Op
    <2>3. CASE op[k].dup
      BY <1>1, <1>3, <1>7, <2>1, <2>3 DEF ReleaseCommit
    <2>4. CASE ~op[k].dup
      <3>1. Post(k, "credit", "settlement", op[k].id, TrancheRef(op[k].base, op[k].amount))
        BY <1>7, <2>4 DEF ReleaseCommit
      <3>2. QED
        BY <1>1, <2>1, <2>2, <3>1, PostAside DEF RowsAside
    <2>5. QED
      BY <2>3, <2>4
  <1>8. ASSUME NEW k \in Workers, Rollback(k)
        PROVE  RowsAside /\ Other
    BY <1>1, <1>3, <1>8 DEF Rollback
  <1>9. ASSUME UNCHANGED <<ledger, withdrawal, audit, op>>
        PROVE  RowsAside /\ Other
    BY <1>3, <1>9 DEF Other
  <1>10. CASE UNCHANGED vars \/ (\E s \in Sellers : InitializeSellerBalance(s))
           \/ \E o \in Orders : \/ \E g \in Amounts : CreatePendingSettlement(o, g)
                                \/ HoldSettlement(o) \/ RefundSettlement(o)
    <2>1. UNCHANGED <<ledger, withdrawal, audit, op>>
      BY <1>10 DEF vars, InitializeSellerBalance, CreatePendingSettlement, HoldSettlement, RefundSettlement
    <2>2. QED
      BY <1>9, <2>1 DEF WithdrawalStep, Other
  <1>11. ASSUME NEW k \in Workers, NEW w \in Withdrawals,
                RejectCheck(k, w) \/ ApproveCheck(k, w) \/ ProcessCheck(k, w)
         PROVE  RowsAside
    BY <1>3, <1>11 DEF RejectCheck, ApproveCheck, ProcessCheck, Check
  <1>12. ASSUME NEW k \in Workers, RejectRead(k)
         PROVE  RowsAside
    BY <1>3, <1>12 DEF RejectRead
  <1>13. QED
    BY <1>4, <1>5, <1>6, <1>7, <1>8, <1>10, <1>11, <1>12, RequestEffect, RejectEffect, PromoteEffect
       DEF Next, BalanceNext, SettlementNext, WithdrawalNext, WithdrawalStep, Other

-----------------------------------------------------------------------------
(* Withdrawals: what every interleaving keeps                              *)

LEMMA GrownKeeps ==
  ASSUME NEW new, NEW old, NEW m, Grown(new, old, m)
  PROVE  \A i \in 1 .. Len(old) : i \in 1 .. Len(new) /\ new[i] = old[i]
  BY DEF Grown

\* The set of entries that are marked gains the new one if it is marked, too.
LEMMA GrownRefunds ==
  ASSUME NEW new, NEW old, NEW m, NEW w, Grown(new, old, m)
  PROVE  /\ IsRefund(m, w) => Refunds(new, w) = Refunds(old, w) \cup {Len(old) + 1}
         /\ ~IsRefund(m, w) => Refunds(new, w) = Refunds(old, w)
         /\ Len(old) + 1 \notin Refunds(old, w)
  <1> DEFINE n == Len(old) + 1
             L == 1 .. Len(old)
  <1>1. 1 .. Len(new) = L \cup {n} /\ n \notin L /\ new[n] = m /\ \A i \in L : new[i] = old[i]
    BY DEF Grown
  <1> HIDE DEF n, L
  <1>2. IsRefund(m, w) => Refunds(new, w) = Refunds(old, w) \cup {n}
    BY <1>1 DEF Refunds, L
  <1>3. ~IsRefund(m, w) => Refunds(new, w) = Refunds(old, w)
    BY <1>1 DEF Refunds, L
  <1>4. n \notin Refunds(old, w)
    BY <1>1 DEF Refunds, L
  <1>5. QED
    BY <1>2, <1>3, <1>4 DEF n

LEMMA GrownDebits ==
  ASSUME NEW new, NEW old, NEW m, NEW w, Grown(new, old, m)
  PROVE  /\ m.type = "debet" /\ m.ref = w => Debits(new, w) = Debits(old, w) \cup {Len(old) + 1}
         /\ ~(m.type = "debet" /\ m.ref = w) => Debits(new, w) = Debits(old, w)
  <1> DEFINE n == Len(old) + 1
             L == 1 .. Len(old)
  <1>1. 1 .. Len(new) = L \cup {n} /\ n \notin L /\ new[n] = m /\ \A i \in L : new[i] = old[i]
    BY DEF Grown
  <1> HIDE DEF n, L
  <1>2. m.type = "debet" /\ m.ref = w => Debits(new, w) = Debits(old, w) \cup {n}
    BY <1>1 DEF Debits, L
  <1>3. ~(m.type = "debet" /\ m.ref = w) => Debits(new, w) = Debits(old, w)
    BY <1>1 DEF Debits, L
  <1>4. QED
    BY <1>2, <1>3 DEF n

LEMMA GrownRejections ==
  ASSUME NEW new, NEW old, NEW m, Grown(new, old, m)
  PROVE  /\ m = "rejected" => Rejections(new) = Rejections(old) \cup {Len(old) + 1}
         /\ m # "rejected" => Rejections(new) = Rejections(old)
         /\ Len(old) + 1 \notin Rejections(old)
  <1> DEFINE n == Len(old) + 1
             L == 1 .. Len(old)
  <1>1. 1 .. Len(new) = L \cup {n} /\ n \notin L /\ new[n] = m /\ \A i \in L : new[i] = old[i]
    BY DEF Grown
  <1> HIDE DEF n, L
  <1>2. m = "rejected" => Rejections(new) = Rejections(old) \cup {n}
    BY <1>1 DEF Rejections, L
  <1>3. m # "rejected" => Rejections(new) = Rejections(old)
    BY <1>1 DEF Rejections, L
  <1>4. n \notin Rejections(old)
    BY <1>1 DEF Rejections, L
  <1>5. QED
    BY <1>2, <1>3, <1>4 DEF n

\* What a step does to the refunds and debits of a withdrawal, as sets.
SameEntries(s, w) ==
  /\ Refunds(ledger'[s], w) = Refunds(ledger[s], w)
  /\ Debits(ledger'[s], w) = Debits(ledger[s], w)

LogKept == \A s \in Sellers : \A i \in 1 .. Len(ledger[s]) :
             i \in 1 .. Len(ledger'[s]) /\ ledger'[s][i] = ledger[s][i]

LEMMA AsideEntries ==
  ASSUME LogAside
  PROVE  LogKept /\ \A s \in Sellers, w \in Withdrawals : SameEntries(s, w)
  <1>1. ASSUME NEW s \in Sellers, NEW w \in Withdrawals
        PROVE  /\ SameEntries(s, w)
               /\ \A i \in 1 .. Len(ledger[s]) : i \in 1 .. Len(ledger'[s]) /\ ledger'[s][i] = ledger[s][i]
    <2>1. CASE ledger'[s] = ledger[s]
      BY <2>1 DEF SameEntries
    <2>2. CASE \E m : Unrelated(m) /\ Grown(ledger'[s], ledger[s], m)
      <3>1. PICK m : Unrelated(m) /\ Grown(ledger'[s], ledger[s], m)
        BY <2>2
      <3>2. ~IsRefund(m, w) /\ ~(m.type = "debet" /\ m.ref = w)
        BY <3>1, NoneAssumption DEF Unrelated, IsRefund
      <3>3. QED
        BY <3>1, <3>2, GrownKeeps, GrownRefunds, GrownDebits DEF SameEntries
    <2>3. QED
      BY <2>1, <2>2 DEF LogAside
  <1>2. ASSUME NEW s \in Sellers, NEW i \in 1 .. Len(ledger[s])
        PROVE  i \in 1 .. Len(ledger'[s]) /\ ledger'[s][i] = ledger[s][i]
    BY GrownKeeps DEF LogAside
  <1>3. QED
    BY <1>1, <1>2 DEF LogKept

\* A request adds one debit, of the amount of its withdrawal, and nothing else.
LEMMA RequestedEntries ==
  ASSUME TypeInv, NEW k \in Workers, NEW w \in Withdrawals, Requested(k, w)
  PROVE  LET s == op[k].seller
             n == Len(ledger[s]) + 1
         IN  /\ LogKept
             /\ \A t \in Sellers, v \in Withdrawals : Refunds(ledger'[t], v) = Refunds(ledger[t], v)
             /\ \A t \in Sellers, v \in Withdrawals :
                  Debits(ledger'[t], v) = IF t = s /\ v = w THEN Debits(ledger[t], v) \cup {n}
                                                            ELSE Debits(ledger[t], v)
             /\ ledger'[s][n].amount = op[k].amount
  <1> DEFINE s == op[k].seller
             m == [type |-> "debet", amount |-> op[k].amount, source |-> "withdraw", ref |-> w,
                   upto |-> 0, after |-> op[k].seen - op[k].amount]
  <1>1. Grown(ledger'[s], ledger[s], m) /\ \A t \in Sellers : t # s => ledger'[t] = ledger[t]
    BY DEF Requested, Posted, Grown
  <1>2. /\ ledger'[s][Len(ledger[s]) + 1] = m /\ m.amount = op[k].amount /\ m.type = "debet"
        /\ \A v \in Withdrawals : ~IsRefund(m, v) /\ (m.ref = v <=> v = w)
    BY <1>1 DEF Grown, IsRefund
  <1> HIDE DEF m
  <1>3. LogKept
    <2>1. \A i \in 1 .. Len(ledger[s]) : i \in 1 .. Len(ledger'[s]) /\ ledger'[s][i] = ledger[s][i]
      BY <1>1, GrownKeeps
    <2>2. QED
      BY <1>1, <2>1 DEF LogKept
  <1>4. \A v \in Withdrawals :
          /\ Refunds(ledger'[s], v) = Refunds(ledger[s], v)
          /\ Debits(ledger'[s], v) = IF v = w THEN Debits(ledger[s], v) \cup {Len(ledger[s]) + 1}
                                              ELSE Debits(ledger[s], v)
    <2> SUFFICES ASSUME NEW v \in Withdrawals
                 PROVE  /\ Refunds(ledger'[s], v) = Refunds(ledger[s], v)
                        /\ v = w => Debits(ledger'[s], v) = Debits(ledger[s], v) \cup {Len(ledger[s]) + 1}
                        /\ v # w => Debits(ledger'[s], v) = Debits(ledger[s], v)
      OBVIOUS
    <2>1. ~IsRefund(m, v) /\ m.type = "debet" /\ (m.ref = v <=> v = w)
      BY <1>2
    <2>2. Refunds(ledger'[s], v) = Refunds(ledger[s], v)
      BY <1>1, <2>1, GrownRefunds
    <2>3. v = w => Debits(ledger'[s], v) = Debits(ledger[s], v) \cup {Len(ledger[s]) + 1}
      BY <1>1, <2>1, GrownDebits
    <2>4. v # w => Debits(ledger'[s], v) = Debits(ledger[s], v)
      BY <1>1, <2>1, GrownDebits
    <2>5. QED
      BY <2>2, <2>3, <2>4
  <1>5. QED
    BY <1>1, <1>2, <1>3, <1>4

\* A rejection adds one refund, of the amount the request in flight was told.
LEMMA RejectedEntries ==
  ASSUME TypeInv, NEW k \in Workers, Rejected(k)
  PROVE  LET s == op[k].seller
             n == Len(ledger[s]) + 1
         IN  /\ LogKept
             /\ \A t \in Sellers, v \in Withdrawals : Debits(ledger'[t], v) = Debits(ledger[t], v)
             /\ \A t \in Sellers, v \in Withdrawals :
                  Refunds(ledger'[t], v) = IF t = s /\ v = op[k].id THEN Refunds(ledger[t], v) \cup {n}
                                                                    ELSE Refunds(ledger[t], v)
             /\ ledger'[s][n].amount = op[k].amount
             /\ \A v \in Withdrawals : n \notin Refunds(ledger[s], v)
             /\ \A v \in Withdrawals :
                  Rejections(audit'[v]) = IF v = op[k].id THEN Rejections(audit[v]) \cup {Len(audit[v]) + 1}
                                                          ELSE Rejections(audit[v])
             /\ Len(audit[op[k].id]) + 1 \notin Rejections(audit[op[k].id])
  <1> DEFINE s == op[k].seller
             m == [type |-> "credit", amount |-> op[k].amount, source |-> "withdraw", ref |-> op[k].id,
                   upto |-> 0, after |-> op[k].seen + op[k].amount]
  <1>1. Grown(ledger'[s], ledger[s], m) /\ \A t \in Sellers : t # s => ledger'[t] = ledger[t]
    BY DEF Rejected, Posted, Grown
  <1>2. /\ ledger'[s][Len(ledger[s]) + 1] = m /\ m.amount = op[k].amount /\ m.type # "debet"
        /\ \A v \in Withdrawals : IsRefund(m, v) <=> v = op[k].id
    BY <1>1 DEF Grown, IsRefund
  <1> HIDE DEF m
  <1>3. LogKept
    <2>1. \A i \in 1 .. Len(ledger[s]) : i \in 1 .. Len(ledger'[s]) /\ ledger'[s][i] = ledger[s][i]
      BY <1>1, GrownKeeps
    <2>2. QED
      BY <1>1, <2>1 DEF LogKept
  <1>4. \A v \in Withdrawals :
          /\ Debits(ledger'[s], v) = Debits(ledger[s], v)
          /\ Refunds(ledger'[s], v) = IF v = op[k].id THEN Refunds(ledger[s], v) \cup {Len(ledger[s]) + 1}
                                                      ELSE Refunds(ledger[s], v)
          /\ Len(ledger[s]) + 1 \notin Refunds(ledger[s], v)
    <2> SUFFICES ASSUME NEW v \in Withdrawals
                 PROVE  /\ Debits(ledger'[s], v) = Debits(ledger[s], v)
                        /\ v = op[k].id => Refunds(ledger'[s], v) = Refunds(ledger[s], v) \cup {Len(ledger[s]) + 1}
                        /\ v # op[k].id => Refunds(ledger'[s], v) = Refunds(ledger[s], v)
                        /\ Len(ledger[s]) + 1 \notin Refunds(ledger[s], v)
      OBVIOUS
    <2>1. ~(m.type = "debet" /\ m.ref = v) /\ (IsRefund(m, v) <=> v = op[k].id)
      BY <1>2
    <2>2. Debits(ledger'[s], v) = Debits(ledger[s], v)
      BY <1>1, <2>1, GrownDebits
    <2>3. IsRefund(m, v) => Refunds(ledger'[s], v) = Refunds(ledger[s], v) \cup {Len(ledger[s]) + 1}
      BY <1>1, GrownRefunds
    <2>4. v # op[k].id => Refunds(ledger'[s], v) = Refunds(ledger[s], v)
      BY <1>1, <2>1, GrownRefunds
    <2>5. Len(ledger[s]) + 1 \notin Refunds(ledger[s], v)
      BY <1>1, GrownRefunds
    <2>6. QED
      BY <2>1, <2>2, <2>3, <2>4, <2>5
  <1>5. /\ Rejections(audit'[op[k].id]) = Rejections(audit[op[k].id]) \cup {Len(audit[op[k].id]) + 1}
        /\ Len(audit[op[k].id]) + 1 \notin Rejections(audit[op[k].id])
        /\ \A v \in Withdrawals : v # op[k].id => audit'[v] = audit[v]
    <2>1. /\ Grown(audit'[op[k].id], audit[op[k].id], "rejected")
          /\ \A v \in Withdrawals : v # op[k].id => audit'[v] = audit[v]
      BY DEF Rejected, StatusSet
    <2>2. QED
      BY <2>1, GrownRejections
  <1>6. QED
    BY <1>1, <1>2, <1>3, <1>4, <1>5

LEMMA PromotedEntries ==
  ASSUME NEW k \in Workers, Promoted(k)
  PROVE  /\ LogKept /\ LogAside
         /\ \A v \in Withdrawals : Rejections(audit'[v]) = Rejections(audit[v])
         /\ \E status \in {"approved", "processed"} : StatusSet(op[k].id, status)
  <1>1. LogKept /\ LogAside
    BY DEF Promoted, LogKept, LogAside
  <1>2. PICK status \in {"approved", "processed"} : StatusSet(op[k].id, status)
    BY DEF Promoted
  <1>3. \A v \in Withdrawals : Rejections(audit'[v]) = Rejections(audit[v])
    <2>1. /\ Grown(audit'[op[k].id], audit[op[k].id], status) /\ status # "rejected"
          /\ \A v \in Withdrawals : v # op[k].id => audit'[v] = audit[v]
      BY <1>2 DEF StatusSet
    <2>2. Rejections(audit'[op[k].id]) = Rejections(audit[op[k].id])
      BY <2>1, GrownRejections
    <2>3. QED
      BY <2>1, <2>2
  <1>4. QED
    BY <1>1, <1>2, <1>3

LEMMA ReviewsInit == Init => ReviewsOK
  <1> SUFFICES ASSUME Init PROVE ReviewsOK
    OBVIOUS
  <1>1. \A k \in Workers : op[k].kind \notin ReviewKind
    BY DEF Init, Idle, ReviewKind
  <1>2. \A w \in Withdrawals : withdrawal[w].status = "none" /\ audit[w] = <<>>
    BY DEF Init
  <1>3. QED
    BY <1>1, <1>2 DEF ReviewsOK

\* A row that gets a status is one that exists.
LEMMA StatusSetExists ==
  ASSUME ReviewsOK, NEW k \in Workers, Rejected(k) \/ Promoted(k)
  PROVE  /\ op[k].kind \in ReviewKind /\ ReviewInFlight(k)
         /\ \E status \in {"rejected", "approved", "processed"} : StatusSet(op[k].id, status)
  <1>1. op[k].kind \in ReviewKind
    BY DEF Rejected, Promoted, ReviewKind
  <1>2. ReviewInFlight(k)
    BY <1>1 DEF ReviewsOK
  <1>3. \E status \in {"rejected", "approved", "processed"} : StatusSet(op[k].id, status)
    BY DEF Rejected, Promoted
  <1>4. QED
    BY <1>1, <1>2, <1>3

\* Rows keep their seller and amount once they exist.
RowsKept ==
  \A w \in Withdrawals :
    withdrawal[w].status # "none" =>
      /\ withdrawal'[w].status # "none"
      /\ withdrawal'[w].seller = withdrawal[w].seller
      /\ withdrawal'[w].amount = withdrawal[w].amount

LEMMA RowsKeptStep ==
  ASSUME ReviewsOK, WithdrawalStep
  PROVE  RowsKept
  <1>1. ASSUME NEW k \in Workers, NEW w \in Withdrawals, Requested(k, w)
        PROVE  RowsKept
    BY <1>1 DEF Requested, RowsKept
  <1>2. ASSUME NEW k \in Workers, Rejected(k) \/ Promoted(k)
        PROVE  RowsKept
    <2>1. PICK status \in {"rejected", "approved", "processed"} : StatusSet(op[k].id, status)
      BY <1>2, StatusSetExists
    <2>2. ASSUME NEW w \in Withdrawals, withdrawal[w].status # "none"
          PROVE  /\ withdrawal'[w].status # "none"
                 /\ withdrawal'[w].seller = withdrawal[w].seller
                 /\ withdrawal'[w].amount = withdrawal[w].amount
      BY <2>1, <2>2 DEF StatusSet
    <2>3. QED
      BY <2>2 DEF RowsKept
  <1>3. ASSUME RowsAside
        PROVE  RowsKept
    BY <1>3 DEF RowsAside, RowsKept
  <1>4. QED
    BY <1>1, <1>2, <1>3 DEF WithdrawalStep

LEMMA ReviewsStep ==
  ASSUME TypeInv, ReviewsOK, [Next]_vars
  PROVE  ReviewsOK'
  <1>1. WithdrawalStep /\ RowsKept
    BY WithdrawalSteps, RowsKeptStep
  <1>2. ASSUME NEW j \in Workers, op[j].kind \in ReviewKind, op'[j] = op[j]
        PROVE  ReviewInFlight(j)'
    BY <1>1, <1>2 DEF ReviewsOK, ReviewInFlight, RowsKept
  <1>3. ASSUME NEW k \in Workers, Finish(k)
        PROVE  \A j \in Workers : op'[j].kind \in ReviewKind => op'[j] = op[j]
    BY <1>3, IdleType DEF Finish, TypeInv, TypeOK, ReviewKind
  <1>4. ASSUME NEW k \in Workers, NEW w \in Withdrawals,
               RejectCheck(k, w) \/ ApproveCheck(k, w) \/ ProcessCheck(k, w), RowsAside
        PROVE  \A j \in Workers : op'[j].kind \in ReviewKind => ReviewInFlight(j)'
    <2>1. PICK kind : Check(k, w, kind) /\ withdrawal[w].status # "none"
      BY <1>4 DEF RejectCheck, ApproveCheck, ProcessCheck
    <2>2. \A j \in Workers : j # k => op'[j] = op[j]
      BY <2>1 DEF Check, TypeInv, TypeOK
    <2>3. op'[k].id = w /\ op'[k].seller = withdrawal[w].seller /\ op'[k].amount = withdrawal[w].amount
      BY <2>1 DEF Check, TypeInv, TypeOK
    <2>4. ReviewInFlight(k)'
      BY <1>1, <2>1, <2>3 DEF ReviewInFlight, RowsKept
    <2>5. QED
      BY <1>2, <2>2, <2>4
  <1>5. ASSUME NEW k \in Workers, RejectRead(k), RowsAside
        PROVE  \A j \in Workers : op'[j].kind \in ReviewKind => ReviewInFlight(j)'
    <2>1. /\ op[k].kind \in ReviewKind /\ \A j \in Workers : j # k => op'[j] = op[j]
          /\ op'[k] = Begin("reject", op[k].seller, op[k].id, op[k].amount)
      BY <1>5 DEF RejectRead, TypeInv, TypeOK, ReviewKind
    <2>2. op'[k].id = op[k].id /\ op'[k].seller = op[k].seller /\ op'[k].amount = op[k].amount
      BY <2>1 DEF Begin
    <2>3. ReviewInFlight(k)'
      BY <1>1, <2>1, <2>2 DEF ReviewsOK, ReviewInFlight, RowsKept
    <2>4. QED
      BY <1>2, <2>1, <2>3
  <1>6. \A j \in Workers : op'[j].kind \in ReviewKind => ReviewInFlight(j)'
    <2>1. CASE \A j \in Workers : op'[j].kind \in ReviewKind => op'[j] = op[j]
      BY <1>2, <2>1
    <2>2. QED
      BY <1>1, <1>3, <1>4, <1>5, <2>1 DEF WithdrawalStep, Requested, Rejected, Promoted
  <1>7. ASSUME NEW w \in Withdrawals
        PROVE  IF withdrawal'[w].status = "none" THEN audit'[w] = <<>> ELSE withdrawal'[w].seller \in Sellers
    <2>1. CASE withdrawal'[w] = withdrawal[w] /\ audit'[w] = audit[w]
      BY <2>1 DEF ReviewsOK
    <2>2. ASSUME NEW k \in Workers, NEW v \in Withdrawals, Requested(k, v)
          PROVE  IF withdrawal'[w].status = "none" THEN audit'[w] = <<>> ELSE withdrawal'[w].seller \in Sellers
      BY <2>1, <2>2 DEF Requested
    <2>3. ASSUME NEW k \in Workers, Rejected(k) \/ Promoted(k)
          PROVE  IF withdrawal'[w].status = "none" THEN audit'[w] = <<>> ELSE withdrawal'[w].seller \in Sellers
      <3>1. CASE w = op[k].id
        <4>1. withdrawal[w].status # "none"
          BY <2>3, <3>1, StatusSetExists DEF ReviewInFlight
        <4>2. QED
          BY <1>1, <4>1 DEF RowsKept, ReviewsOK
      <3>2. CASE w # op[k].id
        BY <2>1, <2>3, <3>2 DEF Rejected, Promoted, StatusSet
      <3>3. QED
        BY <3>1, <3>2
    <2>4. QED
      BY <1>1, <2>1, <2>2, <2>3 DEF WithdrawalStep, RowsAside
  <1>8. QED
    BY <1>6, <1>7 DEF ReviewsOK

\* One case for each way a step can touch the log of a withdrawal.
LEMMA EntrySteps ==
  ASSUME TypeInv, ReviewsOK, [Next]_vars
  PROVE  \/ \E k \in Workers, w \in Withdrawals : Requested(k, w)
         \/ \E k \in Workers : Rejected(k)
         \/ \E k \in Workers : Promoted(k)
         \/ RowsAside
  BY WithdrawalSteps DEF WithdrawalStep

\* The entry that debits withdrawal w of seller s, if there is to be one.
DebitedOnce(log, w, s) ==
  IF withdrawal[w].status # "none" /\ withdrawal[w].seller = s
    THEN \E i \in Debits(log, w) : Debits(log, w) = {i} /\ log[i].amount = withdrawal[w].amount
    ELSE Debits(log, w) = {}

LEMMA DebitedStep ==
  ASSUME TypeInv, ReviewsOK, WithdrawalDebitedOnce, [Next]_vars
  PROVE  WithdrawalDebitedOnce'
  <1>1. RowsKept
    BY WithdrawalSteps, RowsKeptStep
  <1>2. \A w \in Withdrawals, s \in Sellers : DebitedOnce(ledger[s], w, s)
    BY DEF WithdrawalDebitedOnce, DebitedOnce
  <1>3. ASSUME NEW w \in Withdrawals, NEW s \in Sellers, LogKept,
               Debits(ledger'[s], w) = Debits(ledger[s], w),
               withdrawal'[w].status = "none" <=> withdrawal[w].status = "none"
        PROVE  DebitedOnce(ledger[s], w, s)'
    <2>1. \A i \in Debits(ledger[s], w) : ledger'[s][i] = ledger[s][i]
      BY <1>3 DEF LogKept, Debits
    <2>2. CASE withdrawal[w].status # "none"
      BY <1>1, <1>2, <1>3, <2>1, <2>2 DEF DebitedOnce, RowsKept
    <2>3. CASE withdrawal[w].status = "none"
      BY <1>2, <1>3, <2>3 DEF DebitedOnce
    <2>4. QED
      BY <2>2, <2>3
  <1>4. ASSUME NEW w \in Withdrawals, NEW s \in Sellers
        PROVE  DebitedOnce(ledger[s], w, s)'
    <2>1. ASSUME NEW k \in Workers, NEW v \in Withdrawals, Requested(k, v)
          PROVE  DebitedOnce(ledger[s], w, s)'
      <3> DEFINE n == Len(ledger[op[k].seller]) + 1
      <3>1. /\ LogKept
            /\ Debits(ledger'[s], w) = IF s = op[k].seller /\ w = v THEN Debits(ledger[s], w) \cup {n}
                                                                     ELSE Debits(ledger[s], w)
            /\ ledger'[op[k].seller][n].amount = op[k].amount
        <4>1. /\ LogKept /\ ledger'[op[k].seller][n].amount = op[k].amount
              /\ \A t \in Sellers, u \in Withdrawals :
                   Debits(ledger'[t], u) = IF t = op[k].seller /\ u = v THEN Debits(ledger[t], u) \cup {n}
                                                                       ELSE Debits(ledger[t], u)
          BY <2>1, RequestedEntries
        <4> HIDE DEF n
        <4>2. QED
          BY <4>1
      <3> HIDE DEF n
      <3>2. CASE w # v
        BY <1>3, <2>1, <3>1, <3>2 DEF Requested
      <3>3. CASE w = v
        <4>1. /\ withdrawal[w].status = "none" /\ withdrawal'[w].status = "pending"
              /\ withdrawal'[w].seller = op[k].seller /\ withdrawal'[w].amount = op[k].amount
          BY <2>1, <3>3 DEF Requested
        <4>2. Debits(ledger[s], w) = {}
          BY <1>2, <4>1 DEF DebitedOnce
        <4>3. CASE s = op[k].seller
          <5>1. Debits(ledger'[s], w) = {n}
            BY <3>1, <3>3, <4>2, <4>3
          <5>2. QED
            BY <3>1, <4>1, <4>3, <5>1 DEF DebitedOnce
        <4>4. CASE s # op[k].seller
          BY <3>1, <4>1, <4>2, <4>4 DEF DebitedOnce
        <4>5. QED
          BY <4>3, <4>4
      <3>4. QED
        BY <3>2, <3>3
    <2>2. ASSUME NEW k \in Workers, Rejected(k) \/ Promoted(k)
          PROVE  DebitedOnce(ledger[s], w, s)'
      <3>1. LogKept /\ Debits(ledger'[s], w) = Debits(ledger[s], w)
        <4>1. CASE Rejected(k)
          BY <4>1, RejectedEntries
        <4>2. CASE Promoted(k)
          BY <4>2, PromotedEntries, AsideEntries DEF SameEntries
        <4>3. QED
          BY <2>2, <4>1, <4>2
      <3>2. withdrawal'[w].status = "none" <=> withdrawal[w].status = "none"
        <4>1. CASE w = op[k].id
          BY <1>1, <2>2, <4>1, StatusSetExists DEF ReviewInFlight, RowsKept
        <4>2. CASE w # op[k].id
          BY <2>2, <4>2 DEF Rejected, Promoted, StatusSet
        <4>3. QED
          BY <4>1, <4>2
      <3>3. QED
        BY <1>3, <3>1, <3>2
    <2>3. CASE RowsAside
      <3>1. LogKept /\ Debits(ledger'[s], w) = Debits(ledger[s], w) /\ withdrawal'[w] = withdrawal[w]
        BY <2>3, AsideEntries DEF RowsAside, SameEntries
      <3>2. QED
        BY <1>3, <3>1
    <2>4. QED
      BY <2>1, <2>2, <2>3, EntrySteps
  <1>5. QED
    BY <1>4 DEF WithdrawalDebitedOnce, DebitedOnce

LEMMA DebitedInit == Init => WithdrawalDebitedOnce
  <1> SUFFICES ASSUME Init PROVE WithdrawalDebitedOnce
    OBVIOUS
  <1>1. \A w \in Withdrawals, s \in Sellers : withdrawal[w].status = "none" /\ Debits(ledger[s], w) = {}
    BY DEF Init, Debits
  <1>2. QED
    BY <1>1 DEF WithdrawalDebitedOnce

\* However requests and reviews interleave and whichever of them roll back, a
\* withdrawal exists exactly when its amount has been taken from its seller's
\* balance, once and from no other: the row and the debit are one transaction.
THEOREM WithdrawalsAreDebited == Spec => []WithdrawalDebitedOnce
  BY TypeInit, TypeStep, ReviewsInit, ReviewsStep, DebitedInit, DebitedStep, PTL DEF Spec

\* Withdrawal w has been paid back to its seller.
PaidBack(w) ==
  \E i \in Refunds(ledger[withdrawal[w].seller], w) :
    ledger[withdrawal[w].seller][i].amount = withdrawal[w].amount

LEMMA PaidBackKept ==
  ASSUME ReviewsOK, LogKept, RowsKept, NEW w \in Withdrawals,
         withdrawal[w].status = "rejected", PaidBack(w)
  PROVE  PaidBack(w)'
  <1> DEFINE s == withdrawal[w].seller
  <1>1. s \in Sellers
    BY DEF ReviewsOK
  <1>2. withdrawal'[w].seller = s /\ withdrawal'[w].amount = withdrawal[w].amount
    BY DEF RowsKept
  <1>3. PICK i \in Refunds(ledger[s], w) : ledger[s][i].amount = withdrawal[w].amount
    BY DEF PaidBack
  <1>4. i \in 1 .. Len(ledger[s]) /\ IsRefund(ledger[s][i], w)
    BY <1>3 DEF Refunds
  <1>5. i \in 1 .. Len(ledger'[s]) /\ ledger'[s][i] = ledger[s][i]
    BY <1>1, <1>4 DEF LogKept
  <1>6. i \in Refunds(ledger'[s], w)
    BY <1>4, <1>5 DEF Refunds
  <1>7. QED
    BY <1>2, <1>3, <1>5, <1>6 DEF PaidBack

LEMMA RefundedStep ==
  ASSUME TypeInv, ReviewsOK, RejectedIsRefunded, [Next]_vars
  PROVE  RejectedIsRefunded'
  <1>1. RowsKept
    BY WithdrawalSteps, RowsKeptStep
  <1>2. \A w \in Withdrawals : withdrawal[w].status = "rejected" => PaidBack(w)
    BY DEF RejectedIsRefunded, PaidBack
  <1>3. ASSUME NEW w \in Withdrawals, LogKept, withdrawal[w].status = "rejected"
        PROVE  PaidBack(w)'
    BY <1>1, <1>2, <1>3, PaidBackKept
  <1>4. ASSUME NEW w \in Withdrawals, withdrawal'[w].status = "rejected"
        PROVE  PaidBack(w)'
    <2>1. ASSUME NEW k \in Workers, NEW v \in Withdrawals, Requested(k, v)
          PROVE  PaidBack(w)'
      <3>1. LogKept
        BY <2>1, RequestedEntries
      <3>2. withdrawal'[v].status = "pending" /\ (w # v => withdrawal'[w] = withdrawal[w])
        BY <2>1 DEF Requested
      <3>3. QED
        BY <1>3, <1>4, <3>1, <3>2
    <2>2. ASSUME NEW k \in Workers, Rejected(k)
          PROVE  PaidBack(w)'
      <3> DEFINE s == op[k].seller
                 n == Len(ledger[s]) + 1
      <3>1. CASE w = op[k].id
        <4>1. Refunds(ledger'[s], w) = Refunds(ledger[s], w) \cup {n} /\ ledger'[s][n].amount = op[k].amount
          <5>1. s \in Sellers
            BY <2>2 DEF Rejected
          <5>2. QED
            BY <2>2, <3>1, <5>1, RejectedEntries
        <4>2. s = withdrawal[w].seller /\ op[k].amount = withdrawal[w].amount /\ withdrawal[w].status # "none"
          BY <2>2, <3>1, StatusSetExists DEF ReviewInFlight
        <4>3. withdrawal'[w].seller = s /\ withdrawal'[w].amount = op[k].amount
          BY <1>1, <4>2 DEF RowsKept
        <4> HIDE DEF n, s
        <4>4. n \in Refunds(ledger'[s], w)
          BY <4>1
        <4>5. QED
          BY <4>1, <4>3, <4>4 DEF PaidBack
      <3>2. CASE w # op[k].id
        <4>1. withdrawal'[w] = withdrawal[w]
          BY <2>2, <3>2 DEF Rejected, StatusSet
        <4>2. LogKept
          BY <2>2, RejectedEntries
        <4>3. QED
          BY <1>3, <1>4, <4>1, <4>2
      <3>3. QED
        BY <3>1, <3>2
    <2>3. ASSUME NEW k \in Workers, Promoted(k)
          PROVE  PaidBack(w)'
      <3>1. LogKept
        BY <2>3, PromotedEntries
      <3>2. withdrawal'[op[k].id].status # "rejected" /\ (w # op[k].id => withdrawal'[w] = withdrawal[w])
        BY <2>3 DEF Promoted, StatusSet
      <3>3. QED
        BY <1>3, <1>4, <3>1, <3>2
    <2>4. CASE RowsAside
      <3>1. LogKept /\ withdrawal'[w] = withdrawal[w]
        BY <2>4, AsideEntries DEF RowsAside
      <3>2. QED
        BY <1>3, <1>4, <3>1
    <2>5. QED
      BY <2>1, <2>2, <2>3, <2>4, EntrySteps
  <1>5. QED
    BY <1>4 DEF RejectedIsRefunded, PaidBack

\* A withdrawal whose row says rejected has been paid back to its seller in
\* full, although its status was checked before the transaction and may since
\* have been changed by another review.
THEOREM RejectedArePaidBack == Spec => []RejectedIsRefunded
  <1>1. Init => RejectedIsRefunded
    <2> SUFFICES ASSUME Init PROVE RejectedIsRefunded
      OBVIOUS
    <2>1. \A w \in Withdrawals : withdrawal[w].status = "none"
      BY DEF Init
    <2>2. QED
      BY <2>1 DEF RejectedIsRefunded
  <1>2. QED
    BY <1>1, TypeInit, TypeStep, ReviewsInit, ReviewsStep, RefundedStep, PTL DEF Spec

\* The cardinalities are those of finite sets.
MarksFinite ==
  \A w \in Withdrawals :
    /\ IsFiniteSet(Rejections(audit[w]))
    /\ \A s \in Sellers : IsFiniteSet(Refunds(ledger[s], w))

LEMMA Marks ==
  ASSUME TypeOK
  PROVE  MarksFinite
  <1>1. ASSUME NEW w \in Withdrawals
        PROVE  IsFiniteSet(Rejections(audit[w]))
    <2>1. audit[w] \in Seq(WithdrawalStatus)
      BY DEF TypeOK
    <2>2. IsFiniteSet(1 .. Len(audit[w]))
      BY <2>1, FS_Interval
    <2>3. Rejections(audit[w]) \subseteq 1 .. Len(audit[w])
      BY DEF Rejections
    <2>4. QED
      BY <2>2, <2>3, FS_Subset
  <1>2. ASSUME NEW w \in Withdrawals, NEW s \in Sellers
        PROVE  IsFiniteSet(Refunds(ledger[s], w))
    <2>1. ledger[s] \in Seq(Mutation)
      BY DEF TypeOK
    <2>2. IsFiniteSet(1 .. Len(ledger[s]))
      BY <2>1, FS_Interval
    <2>3. Refunds(ledger[s], w) \subseteq 1 .. Len(ledger[s])
      BY DEF Refunds
    <2>4. QED
      BY <2>2, <2>3, FS_Subset
  <1>3. QED
    BY <1>1, <1>2 DEF MarksFinite

\* The refunds of w in the log of s are as many as the audit says.
Audited(w, s) ==
  Cardinality(Refunds(ledger[s], w)) =
    IF withdrawal[w].seller = s THEN Cardinality(Rejections(audit[w])) ELSE 0

LEMMA AuditedStep ==
  ASSUME TypeInv, ReviewsOK, RefundsAreAudited, [Next]_vars
  PROVE  RefundsAreAudited'
  <1>1. RowsKept
    BY WithdrawalSteps, RowsKeptStep
  <1>2. \A w \in Withdrawals, s \in Sellers : Audited(w, s)
    BY DEF RefundsAreAudited, Audited
  <1>3. ASSUME NEW w \in Withdrawals, NEW s \in Sellers,
               Refunds(ledger'[s], w) = Refunds(ledger[s], w),
               Rejections(audit'[w]) = Rejections(audit[w]),
               withdrawal'[w].seller = withdrawal[w].seller
        PROVE  Audited(w, s)'
    BY <1>2, <1>3 DEF Audited
  <1>4. ASSUME NEW w \in Withdrawals, NEW s \in Sellers
        PROVE  Audited(w, s)'
    <2>1. ASSUME NEW k \in Workers, NEW v \in Withdrawals, Requested(k, v)
          PROVE  Audited(w, s)'
      <3>1. Refunds(ledger'[s], w) = Refunds(ledger[s], w)
        BY <2>1, RequestedEntries
      <3>2. CASE w # v
        BY <1>3, <2>1, <3>1, <3>2 DEF Requested
      <3>3. CASE w = v
        <4>1. audit[w] = <<>> /\ Grown(audit'[w], audit[w], "pending")
          BY <2>1, <3>3 DEF Requested, ReviewsOK
        <4>2. Rejections(audit[w]) = {}
          BY <4>1 DEF Rejections
        <4>3. Rejections(audit'[w]) = {}
          BY <4>1, <4>2, GrownRejections
        <4>4. Cardinality(Rejections(audit[w])) = 0 /\ Cardinality(Rejections(audit'[w])) = 0
          BY <4>2, <4>3, FS_EmptySet
        <4>5. QED
          BY <1>2, <3>1, <4>4 DEF Audited
      <3>4. QED
        BY <3>2, <3>3
    <2>2. ASSUME NEW k \in Workers, Rejected(k)
          PROVE  Audited(w, s)'
      <3> DEFINE n == Len(ledger[op[k].seller]) + 1
                 i == Len(audit[op[k].id]) + 1
      <3>1. /\ Refunds(ledger'[s], w) = IF s = op[k].seller /\ w = op[k].id THEN Refunds(ledger[s], w) \cup {n}
                                                                            ELSE Refunds(ledger[s], w)
            /\ Rejections(audit'[w]) = IF w = op[k].id THEN Rejections(audit[w]) \cup {i} ELSE Rejections(audit[w])
        <4>1. \A t \in Sellers, u \in Withdrawals :
                 Refunds(ledger'[t], u) = IF t = op[k].seller /\ u = op[k].id THEN Refunds(ledger[t], u) \cup {n}
                                                                              ELSE Refunds(ledger[t], u)
          BY <2>2, RejectedEntries
        <4>2. \A u \in Withdrawals :
                 Rejections(audit'[u]) = IF u = op[k].id THEN Rejections(audit[u]) \cup {i} ELSE Rejections(audit[u])
          BY <2>2, RejectedEntries
        <4> HIDE DEF n, i
        <4>3. QED
          BY <4>1, <4>2
      <3>2. n \notin Refunds(ledger[op[k].seller], op[k].id) /\ i \notin Rejections(audit[op[k].id])
        <4>1. op[k].id \in Withdrawals
          BY <2>2 DEF Rejected
        <4>2. QED
          BY <2>2, <4>1, RejectedEntries
      <3>3. /\ withdrawal[op[k].id].seller = op[k].seller
            /\ withdrawal'[w].seller = withdrawal[w].seller
        <4>1. withdrawal[op[k].id].seller = op[k].seller
          BY <2>2, StatusSetExists DEF ReviewInFlight
        <4>2. withdrawal'[w].seller = withdrawal[w].seller
          BY <2>2 DEF Rejected, StatusSet
        <4>3. QED
          BY <4>1, <4>2
      <3> HIDE DEF n, i
      <3>4. CASE w = op[k].id /\ s = op[k].seller
        <4>1. IsFiniteSet(Refunds(ledger[s], w)) /\ IsFiniteSet(Rejections(audit[w]))
          BY Marks DEF MarksFinite, TypeInv
        <4>2. /\ Cardinality(Refunds(ledger[s], w) \cup {n}) = Cardinality(Refunds(ledger[s], w)) + 1
              /\ Cardinality(Rejections(audit[w]) \cup {i}) = Cardinality(Rejections(audit[w])) + 1
          BY <3>2, <3>4, <4>1, FS_AddElement
        <4>3. Cardinality(Refunds(ledger[s], w)) = Cardinality(Rejections(audit[w]))
          BY <1>2, <3>3, <3>4 DEF Audited
        <4>4. QED
          BY <3>1, <3>3, <3>4, <4>2, <4>3 DEF Audited
      <3>5. CASE w = op[k].id /\ s # op[k].seller
        BY <1>2, <3>1, <3>3, <3>5 DEF Audited
      <3>6. CASE w # op[k].id
        BY <1>3, <3>1, <3>3, <3>6
      <3>7. QED
        BY <3>4, <3>5, <3>6
    <2>3. ASSUME NEW k \in Workers, Promoted(k)
          PROVE  Audited(w, s)'
      <3>1. Rejections(audit'[w]) = Rejections(audit[w]) /\ Refunds(ledger'[s], w) = Refunds(ledger[s], w)
        BY <2>3, PromotedEntries DEF Promoted
      <3>2. withdrawal'[w].seller = withdrawal[w].seller
        BY <2>3 DEF Promoted, StatusSet
      <3>3. QED
        BY <1>3, <3>1, <3>2
    <2>4. CASE RowsAside
      <3>1. Refunds(ledger'[s], w) = Refunds(ledger[s], w) /\ withdrawal' = withdrawal /\ audit' = audit
        BY <2>4, AsideEntries DEF RowsAside, SameEntries
      <3>2. QED
        BY <1>3, <3>1
    <2>5. QED
      BY <2>1, <2>2, <2>3, <2>4, EntrySteps
  <1>5. QED
    BY <1>4 DEF RefundsAreAudited, Audited

LEMMA AuditedInit == Init => RefundsAreAudited
  <1> SUFFICES ASSUME Init PROVE RefundsAreAudited
    OBVIOUS
  <1>1. \A w \in Withdrawals, s \in Sellers : Rejections(audit[w]) = {} /\ Refunds(ledger[s], w) = {}
    BY DEF Init, Rejections, Refunds
  <1>2. Cardinality({}) = 0
    BY FS_EmptySet
  <1>3. QED
    BY <1>1, <1>2 DEF RefundsAreAudited

\* The refunds of a withdrawal are as many as its audit rows of a rejection and
\* all are its seller's, in any interleaving: what two racing reviews pay twice
\* is at least on record twice.
THEOREM RefundsHaveAudit == Spec => []RefundsAreAudited
  BY AuditedInit, TypeInit, TypeStep, ReviewsInit, ReviewsStep, AuditedStep, PTL DEF Spec

-----------------------------------------------------------------------------
(* Without overlap on a seller, a review acts on the status it has checked *)

\* The statuses from which the code allows what worker k has begun.
AllowedFrom(kind) ==
  CASE kind = "approve_checked" -> {"pending"}
    [] kind = "process_checked" -> {"approved"}
    [] OTHER -> {"pending", "approved"}

ReviewsFresh ==
  \A k \in Workers :
    op[k].kind \in ReviewKind => withdrawal[op[k].id].status \in AllowedFrom(op[k].kind)

\* Two reviews of one withdrawal are one seller's, and so one worker's.
LEMMA OneReview ==
  ASSUME Partitioned, OwnSeller, ReviewsOK, NEW j \in Workers, NEW k \in Workers,
         op[j].kind \in ReviewKind, op[k].kind \in ReviewKind, op[j].id = op[k].id
  PROVE  j = k
  <1>1. op[j].seller = op[k].seller
    BY DEF ReviewsOK, ReviewInFlight
  <1>2. op[j].seller \in Handles[j] /\ op[k].seller \in Handles[k]
    BY DEF OwnSeller, ReviewKind
  <1>3. QED
    BY <1>1, <1>2 DEF Partitioned

LEMMA ReviewsFreshStep ==
  ASSUME Partitioned, TypeInv, OwnSeller, ReviewsOK, ReviewsFresh, [Next]_vars
  PROVE  ReviewsFresh'
  <1>1. ASSUME NEW k \in Workers, Finish(k)
        PROVE  \A j \in Workers : op'[j].kind \in ReviewKind => op'[j] = op[j] /\ j # k
    BY <1>1, IdleType DEF Finish, TypeInv, TypeOK, ReviewKind
  <1>2. ASSUME NEW j \in Workers, op[j].kind \in ReviewKind, op'[j] = op[j],
               withdrawal'[op[j].id] = withdrawal[op[j].id]
        PROVE  withdrawal'[op'[j].id].status \in AllowedFrom(op'[j].kind)
    BY <1>2 DEF ReviewsFresh
  <1>3. ASSUME NEW k \in Workers, NEW w \in Withdrawals, Requested(k, w)
        PROVE  ReviewsFresh'
    <2>1. ASSUME NEW j \in Workers, op'[j].kind \in ReviewKind
          PROVE  withdrawal'[op'[j].id].status \in AllowedFrom(op'[j].kind)
      <3>1. op'[j] = op[j]
        BY <1>1, <1>3, <2>1 DEF Requested
      <3>2. op[j].id \in Withdrawals /\ op[j].id # w
        BY <1>3, <2>1, <3>1 DEF ReviewsOK, ReviewInFlight, Requested
      <3>3. QED
        BY <1>2, <1>3, <2>1, <3>1, <3>2 DEF Requested
    <2>2. QED
      BY <2>1 DEF ReviewsFresh
  <1>4. ASSUME NEW k \in Workers, Rejected(k) \/ Promoted(k)
        PROVE  ReviewsFresh'
    <2>1. ASSUME NEW j \in Workers, op'[j].kind \in ReviewKind
          PROVE  withdrawal'[op'[j].id].status \in AllowedFrom(op'[j].kind)
      <3>1. op'[j] = op[j] /\ j # k
        BY <1>1, <1>4, <2>1 DEF Rejected, Promoted
      <3>2. op[j].id \in Withdrawals /\ op[j].id # op[k].id
        BY <1>4, <2>1, <3>1, OneReview, StatusSetExists DEF ReviewsOK, ReviewInFlight
      <3>3. withdrawal'[op[j].id] = withdrawal[op[j].id]
        BY <1>4, <3>2 DEF Rejected, Promoted, StatusSet
      <3>4. QED
        BY <1>2, <2>1, <3>1, <3>3
    <2>2. QED
      BY <2>1 DEF ReviewsFresh
  <1>5. ASSUME NEW k \in Workers, NEW w \in Withdrawals,
               RejectCheck(k, w) \/ ApproveCheck(k, w) \/ ProcessCheck(k, w), RowsAside
        PROVE  ReviewsFresh'
    <2>1. PICK kind \in {"reject_checked", "approve_checked", "process_checked"} :
            Check(k, w, kind) /\ withdrawal[w].status \in AllowedFrom(kind)
      BY <1>5 DEF RejectCheck, ApproveCheck, ProcessCheck, AllowedFrom
    <2>2. \A j \in Workers : j # k => op'[j] = op[j]
      BY <2>1 DEF Check, TypeInv, TypeOK
    <2>3. op'[k].kind = kind /\ op'[k].id = w
      BY <2>1 DEF Check, TypeInv, TypeOK
    <2>4. withdrawal' = withdrawal
      BY <1>5 DEF RowsAside
    <2>5. QED
      BY <2>1, <2>2, <2>3, <2>4 DEF ReviewsFresh
  <1>6. ASSUME NEW k \in Workers, RejectRead(k), RowsAside
        PROVE  ReviewsFresh'
    <2>1. /\ op[k].kind = "reject_checked" /\ \A j \in Workers : j # k => op'[j] = op[j]
          /\ op'[k].kind = "reject" /\ op'[k].id = op[k].id
      BY <1>6 DEF RejectRead, Begin, TypeInv, TypeOK
    <2>2. withdrawal' = withdrawal
      BY <1>6 DEF RowsAside
    <2>3. AllowedFrom("reject") = AllowedFrom("reject_checked")
      BY DEF AllowedFrom
    <2>4. withdrawal[op[k].id].status \in AllowedFrom("reject")
      BY <2>1, <2>3 DEF ReviewsFresh, ReviewKind
    <2>5. QED
      BY <2>1, <2>2, <2>4 DEF ReviewsFresh
  <1>7. CASE RowsAside /\ \A j \in Workers : op'[j].kind \in ReviewKind => op'[j] = op[j]
    BY <1>7 DEF RowsAside, ReviewsFresh
  <1>8. QED
    BY <1>3, <1>4, <1>5, <1>6, <1>7, WithdrawalSteps DEF WithdrawalStep

LEMMA ReviewsFreshInit == Init => OwnSeller /\ ReviewsFresh
  <1> SUFFICES ASSUME Init PROVE OwnSeller /\ ReviewsFresh
    OBVIOUS
  <1>1. \A k \in Workers : op[k].kind = "idle"
    BY DEF Init, Idle
  <1>2. QED
    BY <1>1 DEF OwnSeller, ReviewsFresh, ReviewKind

\* One refund of w at most, and none while it is not rejected.
AtMostOnce(w, s) ==
  /\ \A i, j \in Refunds(ledger[s], w) : i = j
  /\ withdrawal[w].status # "rejected" => Refunds(ledger[s], w) = {}

LEMMA AtMostOnceStep ==
  ASSUME TypeInv, ReviewsOK, ReviewsFresh, RefundedAtMostOnce, [Next]_vars
  PROVE  RefundedAtMostOnce'
  <1>1. \A w \in Withdrawals, s \in Sellers : AtMostOnce(w, s)
    BY DEF RefundedAtMostOnce, AtMostOnce
  <1>2. ASSUME NEW w \in Withdrawals, NEW s \in Sellers,
               Refunds(ledger'[s], w) = Refunds(ledger[s], w),
               withdrawal[w].status = "rejected" => withdrawal'[w].status = "rejected"
        PROVE  AtMostOnce(w, s)'
    BY <1>1, <1>2 DEF AtMostOnce
  <1>3. ASSUME NEW w \in Withdrawals, NEW s \in Sellers
        PROVE  AtMostOnce(w, s)'
    <2>1. ASSUME NEW k \in Workers, NEW v \in Withdrawals, Requested(k, v)
          PROVE  AtMostOnce(w, s)'
      <3>1. Refunds(ledger'[s], w) = Refunds(ledger[s], w)
        BY <2>1, RequestedEntries
      <3>2. withdrawal[w].status = "rejected" => withdrawal'[w].status = "rejected"
        BY <2>1 DEF Requested
      <3>3. QED
        BY <1>2, <3>1, <3>2
    <2>2. ASSUME NEW k \in Workers, Rejected(k)
          PROVE  AtMostOnce(w, s)'
      <3> DEFINE n == Len(ledger[op[k].seller]) + 1
      <3>1. Refunds(ledger'[s], w) = IF s = op[k].seller /\ w = op[k].id THEN Refunds(ledger[s], w) \cup {n}
                                                                         ELSE Refunds(ledger[s], w)
        <4>1. \A t \in Sellers, u \in Withdrawals :
                 Refunds(ledger'[t], u) = IF t = op[k].seller /\ u = op[k].id THEN Refunds(ledger[t], u) \cup {n}
                                                                              ELSE Refunds(ledger[t], u)
          BY <2>2, RejectedEntries
        <4> HIDE DEF n
        <4>2. QED
          BY <4>1
      <3> HIDE DEF n
      <3>2. CASE w = op[k].id
        <4>1. withdrawal[w].status # "rejected"
          BY <2>2, <3>2, StatusSetExists DEF ReviewsFresh, AllowedFrom
        <4>2. withdrawal'[w].status = "rejected"
          BY <2>2, <3>2 DEF Rejected, StatusSet
        <4>3. Refunds(ledger[s], w) = {}
          BY <1>1, <4>1 DEF AtMostOnce
        <4>4. \A i, j \in Refunds(ledger'[s], w) : i = j
          BY <3>1, <4>3
        <4>5. QED
          BY <4>2, <4>4 DEF AtMostOnce
      <3>3. CASE w # op[k].id
        <4>1. withdrawal'[w] = withdrawal[w]
          BY <2>2, <3>3 DEF Rejected, StatusSet
        <4>2. QED
          BY <1>2, <3>1, <3>3, <4>1
      <3>4. QED
        BY <3>2, <3>3
    <2>3. ASSUME NEW k \in Workers, Promoted(k)
          PROVE  AtMostOnce(w, s)'
      <3>1. withdrawal[op[k].id].status # "rejected"
        BY <2>3, StatusSetExists DEF ReviewsFresh, AllowedFrom
      <3>2. withdrawal[w].status = "rejected" => withdrawal'[w].status = "rejected"
        BY <2>3, <3>1 DEF Promoted, StatusSet
      <3>3. QED
        BY <1>2, <2>3, <3>2 DEF Promoted
    <2>4. CASE RowsAside
      <3>1. Refunds(ledger'[s], w) = Refunds(ledger[s], w) /\ withdrawal' = withdrawal
        BY <2>4, AsideEntries DEF RowsAside, SameEntries
      <3>2. QED
        BY <1>2, <3>1
    <2>5. QED
      BY <2>1, <2>2, <2>3, <2>4, EntrySteps
  <1>4. QED
    BY <1>3 DEF RefundedAtMostOnce, AtMostOnce

\* When no two requests of a seller overlap no withdrawal is paid back twice,
\* and none that has been or may yet be transferred is paid back: the status
\* checked before the transaction is then still the row's.
THEOREM NoDoubleRefund ==
  ASSUME Partitioned
  PROVE  Spec => []RefundedAtMostOnce
  <1>1. Init => RefundedAtMostOnce
    <2> SUFFICES ASSUME Init PROVE RefundedAtMostOnce
      OBVIOUS
    <2>1. \A w \in Withdrawals, s \in Sellers : Refunds(ledger[s], w) = {}
      BY DEF Init, Refunds
    <2>2. QED
      BY <2>1 DEF RefundedAtMostOnce
  <1>2. TypeInv /\ OwnSeller /\ ReviewsOK /\ ReviewsFresh /\ [Next]_vars => ReviewsFresh'
    BY ReviewsFreshStep
  <1>3. QED
    BY <1>1, <1>2, TypeInit, TypeStep, OwnSellerStep, ReviewsInit, ReviewsStep, ReviewsFreshInit,
       AtMostOnceStep, PTL DEF Spec

\* Where one step may take the status of a withdrawal.
StatusMoves ==
  \A w \in Withdrawals :
    withdrawal'[w].status # withdrawal[w].status =>
      <<withdrawal[w].status, withdrawal'[w].status>> \in
        {<<"none", "pending">>, <<"pending", "approved">>, <<"pending", "rejected">>,
         <<"approved", "rejected">>, <<"approved", "processed">>}

LEMMA FlowStep ==
  ASSUME TypeInv, ReviewsOK, ReviewsFresh, [Next]_vars
  PROVE  StatusMoves
  <1>1. ASSUME NEW k \in Workers, NEW w \in Withdrawals, Requested(k, w)
        PROVE  StatusMoves
    <2>1. withdrawal[w].status = "none" /\ withdrawal'[w].status = "pending"
      BY <1>1 DEF Requested
    <2>2. \A v \in Withdrawals : v # w => withdrawal'[v] = withdrawal[v]
      BY <1>1 DEF Requested
    <2>3. QED
      BY <2>1, <2>2 DEF StatusMoves
  <1>2. ASSUME NEW k \in Workers, Rejected(k)
        PROVE  StatusMoves
    <2>1. withdrawal[op[k].id].status \in {"pending", "approved"}
      BY <1>2, StatusSetExists DEF Rejected, ReviewsFresh, AllowedFrom
    <2>2. /\ withdrawal'[op[k].id].status = "rejected"
          /\ \A v \in Withdrawals : v # op[k].id => withdrawal'[v] = withdrawal[v]
      BY <1>2 DEF Rejected, StatusSet
    <2>3. QED
      BY <2>1, <2>2 DEF StatusMoves
  <1>3. ASSUME NEW k \in Workers, Promoted(k)
        PROVE  StatusMoves
    <2>1. \/ withdrawal[op[k].id].status = "pending" /\ withdrawal'[op[k].id].status = "approved"
          \/ withdrawal[op[k].id].status = "approved" /\ withdrawal'[op[k].id].status = "processed"
      BY <1>3, StatusSetExists DEF Promoted, StatusSet, ReviewsFresh, AllowedFrom
    <2>2. \A v \in Withdrawals : v # op[k].id => withdrawal'[v] = withdrawal[v]
      BY <1>3 DEF Promoted, StatusSet
    <2>3. QED
      BY <2>1, <2>2 DEF StatusMoves
  <1>4. CASE RowsAside
    BY <1>4 DEF RowsAside, StatusMoves
  <1>5. QED
    BY <1>1, <1>2, <1>3, <1>4, EntrySteps

\* Under the same condition the status of a withdrawal only moves along the
\* flow: a processed one is never rejected, a rejected one never processed.
THEOREM WithdrawalsFlow ==
  ASSUME Partitioned
  PROVE  Spec => WithdrawalFlow
  <1>1. TypeInv /\ ReviewsOK /\ ReviewsFresh /\ [Next]_vars =>
          [\A w \in Withdrawals :
             withdrawal'[w].status # withdrawal[w].status =>
               <<withdrawal[w].status, withdrawal'[w].status>> \in
                 {<<"none", "pending">>, <<"pending", "approved">>, <<"pending", "rejected">>,
                  <<"approved", "rejected">>, <<"approved", "processed">>}]_vars
    BY FlowStep DEF StatusMoves
  <1>2. TypeInv /\ OwnSeller /\ ReviewsOK /\ ReviewsFresh /\ [Next]_vars => ReviewsFresh'
    BY ReviewsFreshStep
  <1>3. QED
    BY <1>1, <1>2, TypeInit, TypeStep, OwnSellerStep, ReviewsInit, ReviewsStep, ReviewsFreshInit,
       PTL DEF Spec, WithdrawalFlow

-----------------------------------------------------------------------------
(* Sums: what a settlement released is what its credits add up to, and no  *)
(* money of a seller appears or vanishes.  A sum is a set of counted       *)
(* cents, so that what a step adds to it is a fact about the cardinality   *)
(* of finite sets and needs no induction.                                  *)

LEMMA CentsOfOne ==
  ASSUME NEW x, NEW n \in Nat
  PROVE  IsFiniteSet({x} \X (1 .. n)) /\ Cardinality({x} \X (1 .. n)) = n
  <1>1. IsFiniteSet({x}) /\ Cardinality({x}) = 1
    BY FS_Singleton
  <1>2. IsFiniteSet(1 .. n) /\ Cardinality(1 .. n) = n
    BY FS_Interval
  <1>3. /\ IsFiniteSet({x} \X (1 .. n))
        /\ Cardinality({x} \X (1 .. n)) = Cardinality({x}) * Cardinality(1 .. n)
    BY <1>1, <1>2, FS_Product
  <1>4. QED
    BY <1>1, <1>2, <1>3

LEMMA CentsMembers ==
  ASSUME NEW S, NEW f
  PROVE  /\ \A p \in Cents(S, f) : \E x \in S : p \in {x} \X (1 .. f[x])
         /\ \A x \in S : {x} \X (1 .. f[x]) \subseteq Cents(S, f)
  BY DEF Cents

LEMMA CentsFinite ==
  ASSUME NEW S, IsFiniteSet(S), NEW f, \A x \in S : f[x] \in Nat
  PROVE  IsFiniteSet(Cents(S, f)) /\ Total(S, f) \in Nat
  <1> DEFINE g == [x \in S |-> {x} \X (1 .. f[x])]
             T == {g[x] : x \in S}
  <1>1. g \in Surjection(S, T)
    BY DEF Surjection
  <1>2. IsFiniteSet(T)
    BY <1>1, FS_Surjection
  <1>3. \A P \in T : IsFiniteSet(P)
    <2>1. \A x \in S : IsFiniteSet({x} \X (1 .. f[x]))
      BY CentsOfOne
    <2>2. \A x \in S : g[x] = {x} \X (1 .. f[x])
      OBVIOUS
    <2>3. \A x \in S : IsFiniteSet(g[x])
      BY <2>1, <2>2
    <2> HIDE DEF g
    <2>4. QED
      BY <2>3
  <1>4. IsFiniteSet(UNION T)
    BY <1>2, <1>3, FS_UNION
  <1>5. Cents(S, f) = UNION T
    BY DEF Cents
  <1>6. QED
    BY <1>4, <1>5, FS_CardinalityType DEF Total

LEMMA TotalEmpty == ASSUME NEW f PROVE Total({}, f) = 0
  <1>1. Cents({}, f) = {}
    BY DEF Cents
  <1>2. QED
    BY <1>1, FS_EmptySet DEF Total

\* A sum grows by what the new element is worth.
LEMMA TotalAdd ==
  ASSUME NEW S, IsFiniteSet(S), NEW f, NEW x, x \notin S, \A y \in S \cup {x} : f[y] \in Nat
  PROVE  Total(S \cup {x}, f) = Total(S, f) + f[x]
  <1> DEFINE P == {x} \X (1 .. f[x])
  <1>1. IsFiniteSet(P) /\ Cardinality(P) = f[x]
    BY CentsOfOne
  <1>2. IsFiniteSet(Cents(S, f)) /\ Total(S, f) \in Nat
    BY CentsFinite
  <1>3. Cents(S \cup {x}, f) = Cents(S, f) \cup P
    BY DEF Cents
  <1>4. Cents(S, f) \cap P = {}
    <2>1. \A p \in P : p[1] = x
      OBVIOUS
    <2>2. \A p \in Cents(S, f) : p[1] \in S
      <3>1. ASSUME NEW p \in Cents(S, f)
            PROVE  p[1] \in S
        <4>1. PICK y \in S : p \in {y} \X (1 .. f[y])
          BY CentsMembers
        <4>2. QED
          BY <4>1
      <3>2. QED
        BY <3>1
    <2> HIDE DEF P
    <2>3. QED
      BY <2>1, <2>2
  <1> HIDE DEF P
  <1>5. Cardinality(Cents(S, f) \cup P)
          = Cardinality(Cents(S, f)) + Cardinality(P) - Cardinality(Cents(S, f) \cap P)
    BY <1>1, <1>2, FS_Union
  <1>6. Cardinality(Cents(S, f) \cap P) = 0
    BY <1>4, FS_EmptySet
  <1>7. f[x] \in Nat
    OBVIOUS
  <1> HIDE DEF Cents
  <1>8. Cardinality(Cents(S, f) \cup P) = Cardinality(Cents(S, f)) + f[x]
    BY <1>1, <1>2, <1>5, <1>6, <1>7 DEF Total
  <1>9. QED
    BY <1>3, <1>8 DEF Total

LEMMA TotalSame ==
  ASSUME NEW S, NEW f, NEW g, \A x \in S : f[x] = g[x]
  PROVE  Total(S, f) = Total(S, g)
  <1>1. ASSUME NEW h, NEW e, \A x \in S : h[x] = e[x]
        PROVE  Cents(S, h) \subseteq Cents(S, e)
    <2>1. ASSUME NEW p \in Cents(S, h)
          PROVE  p \in Cents(S, e)
      <3>1. PICK x \in S : p \in {x} \X (1 .. h[x])
        BY CentsMembers
      <3>2. p \in {x} \X (1 .. e[x])
        BY <1>1, <3>1
      <3>3. QED
        BY <3>2, CentsMembers
    <2>2. QED
      BY <2>1
  <1>2. Cents(S, f) = Cents(S, g)
    BY <1>1
  <1>3. QED
    BY <1>2 DEF Total

LEMMA TotalSplit ==
  ASSUME NEW S, IsFiniteSet(S), NEW f, NEW x \in S, \A y \in S : f[y] \in Nat
  PROVE  /\ Total(S, f) = Total(S \ {x}, f) + f[x]
         /\ Total(S \ {x}, f) \in Nat
  <1>1. PICK R : R = S \ {x}
    OBVIOUS
  <1>2. S = R \cup {x} /\ x \notin R
    BY <1>1
  <1>3. IsFiniteSet(R)
    BY <1>1, FS_Difference
  <1>4. \A y \in R \cup {x} : f[y] \in Nat
    BY <1>2
  <1>5. Total(R \cup {x}, f) = Total(R, f) + f[x]
    BY <1>2, <1>3, <1>4, TotalAdd
  <1>6. Total(R, f) \in Nat
    BY <1>3, <1>4, CentsFinite
  <1>7. QED
    BY <1>1, <1>2, <1>5, <1>6

\* When one element becomes worth something else, the sum differs by as much.
LEMMA TotalDiffers ==
  ASSUME NEW S, IsFiniteSet(S), NEW f, NEW g, NEW x \in S,
         \A y \in S : f[y] \in Nat, \A y \in S : g[y] \in Nat, \A y \in S : y # x => g[y] = f[y]
  PROVE  /\ Total(S, g) + f[x] = Total(S, f) + g[x]
         /\ Total(S, f) \in Nat /\ Total(S, g) \in Nat
  <1>1. Total(S, f) = Total(S \ {x}, f) + f[x] /\ Total(S \ {x}, f) \in Nat
    BY TotalSplit
  <1>2. Total(S, g) = Total(S \ {x}, g) + g[x]
    BY TotalSplit
  <1>3. Total(S \ {x}, g) = Total(S \ {x}, f)
    BY TotalSame
  <1>4. f[x] \in Nat /\ g[x] \in Nat
    OBVIOUS
  <1>5. QED
    BY <1>1, <1>2, <1>3, <1>4

\* The entries T of a log, and the same ones with the entry the log gained.
LEMMA GrownTotal ==
  ASSUME NEW new \in Seq(Mutation), NEW old \in Seq(Mutation), NEW m \in Mutation,
         Grown(new, old, m), NEW T \in SUBSET (1 .. Len(old))
  PROVE  /\ Total(T, EntryAmount(new)) = Total(T, EntryAmount(old))
         /\ Total(T \cup {Len(old) + 1}, EntryAmount(new)) = Total(T, EntryAmount(old)) + m.amount
         /\ Total(T, EntryAmount(old)) \in Nat
  <1> DEFINE n == Len(old) + 1
  <1>1. IsFiniteSet(T)
    <2>1. IsFiniteSet(1 .. Len(old))
      BY FS_Interval
    <2>2. QED
      BY <2>1, FS_Subset
  <1>2. /\ \A i \in T : i \in 1 .. Len(old) /\ i \in 1 .. Len(new) /\ new[i] = old[i]
        /\ n \in 1 .. Len(new) /\ new[n] = m
    BY DEF Grown
  <1>3. \A i \in T : EntryAmount(new)[i] = EntryAmount(old)[i]
    BY <1>2 DEF EntryAmount
  <1>4. \A i \in T : EntryAmount(old)[i] \in Nat
    <2>1. \A i \in T : old[i] \in Mutation
      BY <1>2
    <2>2. \A i \in T : old[i].amount \in Nat
      BY <2>1 DEF Mutation
    <2>3. \A i \in T : EntryAmount(old)[i] = old[i].amount
      BY <1>2 DEF EntryAmount
    <2>4. QED
      BY <2>2, <2>3
  <1>5. EntryAmount(new)[n] = m.amount /\ m.amount \in Nat
    BY <1>2 DEF EntryAmount, Mutation
  <1>6. n \notin T
    OBVIOUS
  <1> HIDE DEF n
  <1>7. Total(T, EntryAmount(new)) = Total(T, EntryAmount(old)) /\ Total(T, EntryAmount(old)) \in Nat
    BY <1>1, <1>3, <1>4, TotalSame, CentsFinite
  <1>8. Total(T \cup {n}, EntryAmount(new)) = Total(T, EntryAmount(new)) + EntryAmount(new)[n]
    <2>1. \A i \in T \cup {n} : EntryAmount(new)[i] \in Nat
      BY <1>3, <1>4, <1>5
    <2>2. QED
      BY <1>1, <1>6, <2>1, TotalAdd
  <1>9. QED
    BY <1>5, <1>7, <1>8 DEF n

-----------------------------------------------------------------------------
(* What a settlement released is the sum of its credits                    *)

\* One step, seen from the settlement of o and the log of its seller: a release
\* of o adds what it credits, and nothing else does either.
Paid(o) ==
  LET s == SellerOf[o]
  IN  \/ \E m \in Mutation : /\ IsTranche(m, o) /\ Grown(ledger'[s], ledger[s], m)
                             /\ settlement'[o].released = settlement[o].released + m.amount
      \/ /\ settlement'[o].released = settlement[o].released
         /\ \/ ledger'[s] = ledger[s]
            \/ \E m \in Mutation : ~IsTranche(m, o) /\ Grown(ledger'[s], ledger[s], m)

\* The entry a posting appends, and the logs it leaves alone.
LEMMA PostGrows ==
  ASSUME TypeOK, NEW k \in Workers, NEW type \in {"credit", "debet"},
         NEW source \in {"settlement", "withdraw", "admin_adjust"},
         NEW id \in Ids, NEW upto \in Nat,
         op[k].seller \in Sellers, Posted(k, type, source, id, upto)
  PROVE  /\ \A t \in Sellers : t # op[k].seller => ledger'[t] = ledger[t] /\ balance'[t] = balance[t]
         /\ balance'[op[k].seller] =
              IF type = "credit" THEN op[k].seen + op[k].amount ELSE op[k].seen - op[k].amount
         /\ \E m \in Mutation : /\ Grown(ledger'[op[k].seller], ledger[op[k].seller], m)
                                /\ m.type = type /\ m.amount = op[k].amount
                                /\ m.source = source /\ m.ref = id
  <1> DEFINE s == op[k].seller
             after == IF type = "credit" THEN op[k].seen + op[k].amount ELSE op[k].seen - op[k].amount
             m == [type |-> type, amount |-> op[k].amount, source |-> source,
                   ref |-> id, upto |-> upto, after |-> after]
  <1>1. Grown(ledger'[s], ledger[s], m)
    BY DEF Posted, Grown
  <1>2. after \in Int
    BY DEF Posted
  <1>3. op[k].amount \in Nat
    BY DEF TypeOK, Op
  <1> HIDE DEF after
  <1>4. m \in Mutation
    BY <1>2, <1>3 DEF Mutation, Ids
  <1>5. m.type = type /\ m.amount = op[k].amount /\ m.source = source /\ m.ref = id
    OBVIOUS
  <1> HIDE DEF m
  <1>6. \E e \in Mutation : /\ Grown(ledger'[s], ledger[s], e)
                            /\ e.type = type /\ e.amount = op[k].amount
                            /\ e.source = source /\ e.ref = id
    BY <1>1, <1>4, <1>5
  <1>7. QED
    BY <1>6 DEF Posted

LEMMA PaidStep ==
  ASSUME TypeInv, ReleasesOK, [Next]_vars, NEW o \in Orders
  PROVE  Paid(o)
  <1> DEFINE s == SellerOf[o]
  <1>1. s \in Sellers /\ TypeOK
    BY SellerOfAssumption DEF TypeInv
  <1>2. ASSUME NEW k \in Workers, ReleaseCommit(k)
        PROVE  Paid(o)
    <2> DEFINE p == op[k].id
               a == op[k].amount
    <2>1. /\ p \in Orders /\ op[k].seller = SellerOf[p] /\ op[k].seller \in Sellers
          /\ op[k].base = settlement[p].released /\ ~op[k].dup
      BY <1>2, SellerOfAssumption DEF ReleaseCommit, ReleasesOK, ReleaseInFlight
    <2>2. op[k].base + a \in Nat /\ p \in Ids
      BY <1>1, <2>1 DEF TypeOK, Op, Ids
    <2>3. /\ settlement'[p].released = settlement[p].released + a
          /\ \A q \in Orders : q # p => settlement'[q] = settlement[q]
      BY <1>1, <1>2, <2>1, ReleaseRow
    <2>4. Posted(k, "credit", "settlement", p, op[k].base + a)
      <3>1. Post(k, "credit", "settlement", p, op[k].base + a)
        BY <1>2, <2>1 DEF ReleaseCommit, TrancheRef
      <3>2. QED
        BY <1>1, <2>1, <2>2, <3>1, PostEffect
    <2>5. /\ \A t \in Sellers : t # op[k].seller => ledger'[t] = ledger[t]
          /\ \E m \in Mutation : /\ Grown(ledger'[op[k].seller], ledger[op[k].seller], m)
                                 /\ m.type = "credit" /\ m.amount = a
                                 /\ m.source = "settlement" /\ m.ref = p
      BY <1>1, <2>1, <2>2, <2>4, PostGrows
    <2>6. PICK m \in Mutation : /\ Grown(ledger'[op[k].seller], ledger[op[k].seller], m)
                                /\ m.type = "credit" /\ m.amount = a
                                /\ m.source = "settlement" /\ m.ref = p
      BY <2>5
    <2> HIDE DEF p, a
    <2>7. CASE o = p
      BY <2>1, <2>3, <2>6, <2>7 DEF Paid, IsTranche
    <2>8. CASE o # p /\ s = op[k].seller
      BY <2>3, <2>6, <2>8 DEF Paid, IsTranche
    <2>9. CASE o # p /\ s # op[k].seller
      BY <1>1, <2>3, <2>5, <2>9 DEF Paid
    <2>10. QED
      BY <2>7, <2>8, <2>9
  <1>3. ASSUME ~\E k \in Workers : ReleaseCommit(k),
               settlement'[o].released = settlement[o].released
        PROVE  Paid(o)
    <2>1. CASE UNCHANGED <<balance, ledger>>
      BY <1>3, <2>1 DEF Paid
    <2>2. CASE \E k \in Workers, type \in {"credit", "debet"},
                 source \in {"settlement", "withdraw", "admin_adjust"}, id \in Ids, upto \in Nat :
                   Posting(k, type, source, id, upto)
      <3>1. PICK k \in Workers, type \in {"credit", "debet"},
              source \in {"settlement", "withdraw", "admin_adjust"}, id \in Ids, upto \in Nat :
                Posting(k, type, source, id, upto)
        BY <2>2
      <3>2. source # "settlement" /\ op[k].seller \in Sellers /\ Post(k, type, source, id, upto)
        BY <1>3, <3>1 DEF Posting
      <3>3. Posted(k, type, source, id, upto)
        BY <1>1, <3>2, PostEffect
      <3>4. /\ \A t \in Sellers : t # op[k].seller => ledger'[t] = ledger[t]
            /\ \E m \in Mutation : /\ Grown(ledger'[op[k].seller], ledger[op[k].seller], m)
                                   /\ m.source = source
        BY <1>1, <3>2, <3>3, PostGrows
      <3>5. CASE s = op[k].seller
        BY <1>3, <3>2, <3>4, <3>5 DEF Paid, IsTranche
      <3>6. CASE s # op[k].seller
        BY <1>1, <1>3, <3>4, <3>6 DEF Paid
      <3>7. QED
        BY <3>5, <3>6
    <2>3. QED
      BY <2>1, <2>2, MoneyMoves
  <1>4. ASSUME NEW p \in Orders, HoldSettlement(p) \/ RefundSettlement(p)
        PROVE  settlement'[o].released = settlement[o].released
    <2>1. PICK status : settlement' = [settlement EXCEPT ![p].status = status]
      BY <1>4 DEF HoldSettlement, RefundSettlement
    <2>2. settlement[p] \in Settlement
      BY <1>1 DEF TypeOK
    <2>3. QED
      BY <1>1, <2>1, <2>2 DEF TypeOK, Settlement
  <1>5. ASSUME NEW p \in Orders, NEW g \in Amounts, CreatePendingSettlement(p, g)
        PROVE  settlement'[o].released = settlement[o].released
    <2>1. settlement[p].released = 0
      BY <1>5 DEF CreatePendingSettlement, ReleasesOK
    <2>2. QED
      BY <1>1, <1>5, <2>1 DEF CreatePendingSettlement, TypeOK
  <1>6. QED
    BY <1>2, <1>3, <1>4, <1>5, SettlementSteps DEF ReleaseRead, Aside

LEMMA CreditsStep ==
  ASSUME TypeInv, ReleasesOK, ReleasedEqualsCredits, [Next]_vars
  PROVE  ReleasedEqualsCredits'
  <1> SUFFICES ASSUME NEW o \in Orders
               PROVE  settlement'[o].released
                        = Total(Tranches(ledger'[SellerOf[o]], o), EntryAmount(ledger'[SellerOf[o]]))
    BY DEF ReleasedEqualsCredits
  <1> DEFINE s == SellerOf[o]
             old == ledger[s]
             new == ledger'[s]
             T == Tranches(old, o)
  <1>1. s \in Sellers
    BY SellerOfAssumption
  <1>2. TypeOK /\ TypeOK'
    BY TypeStep DEF TypeInv
  <1>3. old \in Seq(Mutation) /\ new \in Seq(Mutation)
    BY <1>1, <1>2 DEF TypeOK
  <1>4. T \in SUBSET (1 .. Len(old)) /\ Len(old) + 1 \notin T
    BY <1>3 DEF Tranches
  <1>5. settlement[o].released = Total(T, EntryAmount(old))
    BY DEF ReleasedEqualsCredits
  <1>6. Paid(o)
    BY PaidStep
  <1>7. CASE \E m \in Mutation : /\ IsTranche(m, o) /\ Grown(new, old, m)
                                 /\ settlement'[o].released = settlement[o].released + m.amount
    <2>1. PICK m \in Mutation : /\ IsTranche(m, o) /\ Grown(new, old, m)
                                /\ settlement'[o].released = settlement[o].released + m.amount
      BY <1>7
    <2> HIDE DEF old, new
    <2>2. Tranches(new, o) = T \cup {Len(old) + 1}
      <3>1. /\ \A i \in T : i \in Tranches(new, o)
            /\ \A i \in Tranches(new, o) : i \in T \/ i = Len(old) + 1
            /\ Len(old) + 1 \in Tranches(new, o)
        BY <2>1, GrownTranches
      <3> HIDE DEF T
      <3>2. QED
        BY <3>1
    <2> HIDE DEF T
    <2>3. Total(T \cup {Len(old) + 1}, EntryAmount(new)) = Total(T, EntryAmount(old)) + m.amount
      BY <1>3, <1>4, <2>1, GrownTotal
    <2>4. settlement'[o].released = Total(Tranches(new, o), EntryAmount(new))
      BY <1>5, <2>1, <2>2, <2>3
    <2>5. QED
      BY <2>4 DEF new
  <1>8. CASE settlement'[o].released = settlement[o].released /\ new = old
    BY <1>5, <1>8
  <1>9. CASE settlement'[o].released = settlement[o].released
             /\ \E m \in Mutation : ~IsTranche(m, o) /\ Grown(new, old, m)
    <2>1. PICK m \in Mutation : ~IsTranche(m, o) /\ Grown(new, old, m)
      BY <1>9
    <2> HIDE DEF old, new
    <2>2. Tranches(new, o) = T
      BY <2>1, GrownTranches
    <2> HIDE DEF T
    <2>3. Total(T, EntryAmount(new)) = Total(T, EntryAmount(old))
      BY <1>3, <1>4, <2>1, GrownTotal
    <2>4. settlement'[o].released = Total(Tranches(new, o), EntryAmount(new))
      BY <1>5, <1>9, <2>2, <2>3
    <2>5. QED
      BY <2>4 DEF new
  <1>10. QED
    BY <1>6, <1>7, <1>8, <1>9 DEF Paid

\* In any interleaving released_amount is the sum of the credits the releases
\* of the order posted: the reference built from the running total neither
\* swallows a tranche as a retry nor lets one through twice.
THEOREM ReleasedIsCredited == Spec => []ReleasedEqualsCredits
  <1>1. Init => ReleasedEqualsCredits
    <2> SUFFICES ASSUME Init, NEW o \in Orders
                 PROVE  settlement[o].released
                          = Total(Tranches(ledger[SellerOf[o]], o), EntryAmount(ledger[SellerOf[o]]))
      BY DEF ReleasedEqualsCredits
    <2>1. ledger[SellerOf[o]] = <<>> /\ settlement[o].released = 0
      BY SellerOfAssumption DEF Init
    <2>2. Tranches(ledger[SellerOf[o]], o) = {}
      BY <2>1 DEF Tranches
    <2>3. QED
      BY <2>1, <2>2, TotalEmpty
  <1>2. QED
    BY <1>1, TypeInit, TypeStep, ReleasesInit, ReleasesStep, TranchesStep, CreditsStep, PTL DEF Spec

-----------------------------------------------------------------------------
(* Without overlap on a seller no money appears or vanishes                *)

\* The five parts of MoneyConserved.
HeldMoney(s) == Total(Held(s), HeldAmount)
ReleasedMoney(s) == Total(OrdersOf(s), ReleasedAmount)
AdjustedMoney(s, type) == Total(Adjusted(ledger[s], type), EntryAmount(ledger[s]))

Conserved(s) ==
  balance[s] + HeldMoney(s) + AdjustedMoney(s, "debet") = ReleasedMoney(s) + AdjustedMoney(s, "credit")

LEMMA PartsType ==
  ASSUME TypeOK, NEW s \in Sellers
  PROVE  /\ balance[s] \in Int /\ HeldMoney(s) \in Nat /\ ReleasedMoney(s) \in Nat
         /\ AdjustedMoney(s, "debet") \in Nat /\ AdjustedMoney(s, "credit") \in Nat
  <1>1. HeldMoney(s) \in Nat
    <2>1. IsFiniteSet(Held(s))
      <3>1. Held(s) \in SUBSET Withdrawals
        BY DEF Held
      <3>2. QED
        BY <3>1, RowsAssumption, FS_Subset
    <2>2. \A w \in Held(s) : HeldAmount[w] \in Nat
      <3>1. \A w \in Withdrawals : withdrawal[w] \in Withdrawal
        BY DEF TypeOK
      <3>2. QED
        BY <3>1 DEF Held, HeldAmount, Withdrawal
    <2>3. QED
      BY <2>1, <2>2, CentsFinite DEF HeldMoney
  <1>2. ReleasedMoney(s) \in Nat
    <2>1. IsFiniteSet(OrdersOf(s))
      <3>1. OrdersOf(s) \in SUBSET Orders
        BY DEF OrdersOf
      <3>2. QED
        BY <3>1, RowsAssumption, FS_Subset
    <2>2. \A o \in OrdersOf(s) : ReleasedAmount[o] \in Nat
      <3>1. \A o \in Orders : settlement[o] \in Settlement
        BY DEF TypeOK
      <3>2. QED
        BY <3>1 DEF OrdersOf, ReleasedAmount, Settlement
    <2>3. QED
      BY <2>1, <2>2, CentsFinite DEF ReleasedMoney
  <1>3. ASSUME NEW type
        PROVE  AdjustedMoney(s, type) \in Nat
    <2> DEFINE log == ledger[s]
               T == Adjusted(log, type)
    <2>1. log \in Seq(Mutation)
      BY DEF TypeOK
    <2>2. T \in SUBSET (1 .. Len(log))
      BY DEF Adjusted
    <2>3. IsFiniteSet(T)
      <3>1. IsFiniteSet(1 .. Len(log))
        BY <2>1, FS_Interval
      <3>2. QED
        BY <2>2, <3>1, FS_Subset
    <2>4. \A i \in T : EntryAmount(log)[i] \in Nat
      <3>1. \A i \in T : i \in 1 .. Len(log) /\ log[i] \in Mutation
        BY <2>1, <2>2
      <3> HIDE DEF T, log
      <3>2. QED
        BY <3>1 DEF EntryAmount, Mutation
    <2>5. Total(T, EntryAmount(log)) \in Nat
      BY <2>3, <2>4, CentsFinite
    <2>6. QED
      BY <2>5 DEF AdjustedMoney
  <1>4. QED
    BY <1>1, <1>2, <1>3 DEF TypeOK

\* The same after a step that keeps the rows typed.
LEMMA PartsNext ==
  ASSUME TypeOK', NEW s \in Sellers
  PROVE  HeldMoney(s)' \in Nat
  <1>1. IsFiniteSet(Held(s)')
    <2>1. Held(s)' \in SUBSET Withdrawals
      BY DEF Held
    <2>2. QED
      BY <2>1, RowsAssumption, FS_Subset
  <1>2. \A w \in Held(s)' : HeldAmount'[w] \in Nat
    <2>1. \A w \in Withdrawals : withdrawal'[w] \in Withdrawal
      BY DEF TypeOK
    <2>2. QED
      BY <2>1 DEF Held, HeldAmount, Withdrawal
  <1>3. Total(Held(s)', HeldAmount') \in Nat
    BY <1>1, <1>2, CentsFinite
  <1>4. QED
    BY <1>3 DEF HeldMoney

LEMMA HeldKept ==
  ASSUME NEW s \in Sellers, Held(s)' = Held(s),
         \A w \in Held(s) : withdrawal'[w].amount = withdrawal[w].amount
  PROVE  HeldMoney(s)' = HeldMoney(s)
  <1>1. \A w \in Held(s) : HeldAmount'[w] = HeldAmount[w]
    BY DEF Held, HeldAmount
  <1>2. Total(Held(s), HeldAmount') = Total(Held(s), HeldAmount)
    BY <1>1, TotalSame
  <1>3. QED
    BY <1>2 DEF HeldMoney

LEMMA ReleasedKept ==
  ASSUME NEW s \in Sellers, \A o \in Orders : settlement'[o].released = settlement[o].released
  PROVE  ReleasedMoney(s)' = ReleasedMoney(s)
  <1>1. \A o \in OrdersOf(s) : ReleasedAmount'[o] = ReleasedAmount[o]
    BY DEF OrdersOf, ReleasedAmount
  <1>2. Total(OrdersOf(s), ReleasedAmount') = Total(OrdersOf(s), ReleasedAmount)
    BY <1>1, TotalSame
  <1>3. OrdersOf(s)' = OrdersOf(s)
    BY DEF OrdersOf
  <1>4. QED
    BY <1>2, <1>3 DEF ReleasedMoney

LEMMA AdjustedKept ==
  ASSUME NEW s \in Sellers, NEW type, ledger'[s] = ledger[s]
  PROVE  AdjustedMoney(s, type)' = AdjustedMoney(s, type)
  BY DEF AdjustedMoney

\* The adjustments of a log that gained the entry m.
LEMMA AdjustedGrows ==
  ASSUME TypeOK, TypeOK', NEW s \in Sellers, NEW type, NEW m \in Mutation,
         Grown(ledger'[s], ledger[s], m)
  PROVE  AdjustedMoney(s, type)' =
           IF m.source = "admin_adjust" /\ m.type = type THEN AdjustedMoney(s, type) + m.amount
                                                         ELSE AdjustedMoney(s, type)
  <1> DEFINE old == ledger[s]
             new == ledger'[s]
             n == Len(old) + 1
             T == Adjusted(old, type)
             marked == m.source = "admin_adjust" /\ m.type = type
  <1>1. old \in Seq(Mutation) /\ new \in Seq(Mutation) /\ Grown(new, old, m)
    BY DEF TypeOK
  <1>2. T \in SUBSET (1 .. Len(old))
    BY DEF Adjusted
  <1> HIDE DEF old, new
  <1>3. Adjusted(new, type) = IF marked THEN T \cup {n} ELSE T
    <2> DEFINE L == 1 .. Len(old)
    <2>1. 1 .. Len(new) = L \cup {n} /\ new[n] = m /\ \A i \in L : new[i] = old[i]
      BY <1>1 DEF Grown
    <2>2. n \notin L
      BY <1>1
    <2> HIDE DEF n, L
    <2>3. Adjusted(new, type) = {i \in L \cup {n} : new[i].source = "admin_adjust" /\ new[i].type = type}
      BY <2>1 DEF Adjusted
    <2>4. T = {i \in L : old[i].source = "admin_adjust" /\ old[i].type = type}
      BY DEF Adjusted, L
    <2>5. CASE marked
      BY <2>1, <2>2, <2>3, <2>4, <2>5
    <2>6. CASE ~marked
      BY <2>1, <2>2, <2>3, <2>4, <2>6
    <2>7. QED
      BY <2>5, <2>6
  <1> HIDE DEF T
  <1>4. /\ Total(T, EntryAmount(new)) = Total(T, EntryAmount(old))
        /\ Total(T \cup {n}, EntryAmount(new)) = Total(T, EntryAmount(old)) + m.amount
    BY <1>1, <1>2, GrownTotal
  <1> HIDE DEF n, marked
  <1>5. Total(Adjusted(new, type), EntryAmount(new))
          = IF marked THEN Total(T, EntryAmount(old)) + m.amount ELSE Total(T, EntryAmount(old))
    BY <1>3, <1>4
  <1>6. QED
    BY <1>5 DEF AdjustedMoney, T, new, old, marked

\* What a posting of a request that read the balance as it still is does to the
\* money of s.
LEMMA PostedMoney ==
  ASSUME TypeOK, TypeOK', FreshReads, NEW k \in Workers, NEW type \in {"credit", "debet"},
         NEW source \in {"settlement", "withdraw", "admin_adjust"}, NEW id \in Ids, NEW upto \in Nat,
         op[k].seller \in Sellers, op[k].kind \in MoneyKind, Posted(k, type, source, id, upto),
         NEW s \in Sellers
  PROVE  /\ s # op[k].seller =>
              /\ balance'[s] = balance[s]
              /\ \A t \in {"credit", "debet"} : AdjustedMoney(s, t)' = AdjustedMoney(s, t)
         /\ s = op[k].seller =>
              /\ balance'[s] = IF type = "credit" THEN balance[s] + op[k].amount
                                                  ELSE balance[s] - op[k].amount
              /\ \A t \in {"credit", "debet"} :
                   AdjustedMoney(s, t)' = IF source = "admin_adjust" /\ type = t
                                            THEN AdjustedMoney(s, t) + op[k].amount
                                            ELSE AdjustedMoney(s, t)
  <1>1. /\ \A t \in Sellers : t # op[k].seller => ledger'[t] = ledger[t] /\ balance'[t] = balance[t]
        /\ balance'[op[k].seller] =
             IF type = "credit" THEN op[k].seen + op[k].amount ELSE op[k].seen - op[k].amount
        /\ \E m \in Mutation : /\ Grown(ledger'[op[k].seller], ledger[op[k].seller], m)
                               /\ m.type = type /\ m.amount = op[k].amount
                               /\ m.source = source /\ m.ref = id
    BY PostGrows
  <1>2. op[k].seen = balance[op[k].seller]
    BY DEF FreshReads, MoneyKind
  <1>3. CASE s # op[k].seller
    BY <1>1, <1>3, AdjustedKept
  <1>4. CASE s = op[k].seller
    <2>1. PICK m \in Mutation : /\ Grown(ledger'[s], ledger[s], m)
                                /\ m.type = type /\ m.amount = op[k].amount
                                /\ m.source = source
      BY <1>1, <1>4
    <2>2. \A t \in {"credit", "debet"} :
            AdjustedMoney(s, t)' = IF m.source = "admin_adjust" /\ m.type = t
                                     THEN AdjustedMoney(s, t) + m.amount ELSE AdjustedMoney(s, t)
      BY <2>1, AdjustedGrows
    <2>3. \A t \in {"credit", "debet"} :
            AdjustedMoney(s, t)' = IF source = "admin_adjust" /\ type = t
                                     THEN AdjustedMoney(s, t) + op[k].amount ELSE AdjustedMoney(s, t)
      BY <2>1, <2>2
    <2>4. QED
      BY <1>1, <1>2, <1>4, <2>3
  <1>5. QED
    BY <1>3, <1>4

\* A request moves money from the balance to the new withdrawal.
LEMMA RequestMoney ==
  ASSUME TypeOK, TypeOK', NEW k \in Workers, NEW w \in Withdrawals, Requested(k, w), NEW s \in Sellers
  PROVE  HeldMoney(s)' = IF s = op[k].seller THEN HeldMoney(s) + op[k].amount ELSE HeldMoney(s)
  <1>1. /\ withdrawal[w].status = "none"
        /\ withdrawal'[w].status = "pending" /\ withdrawal'[w].seller = op[k].seller
        /\ withdrawal'[w].amount = op[k].amount
        /\ \A v \in Withdrawals : v # w => withdrawal'[v] = withdrawal[v]
    BY DEF Requested
  <1>2. w \notin Held(s) /\ \A v \in Held(s) : v \in Withdrawals
    BY <1>1 DEF Held
  <1>3. \A v \in Held(s) : withdrawal'[v].amount = withdrawal[v].amount
    BY <1>1, <1>2
  <1>4. CASE s = op[k].seller
    <2>1. Held(s)' = Held(s) \cup {w}
      BY <1>1, <1>4 DEF Held
    <2>2. IsFiniteSet(Held(s))
      <3>1. Held(s) \in SUBSET Withdrawals
        BY DEF Held
      <3>2. QED
        BY <3>1, RowsAssumption, FS_Subset
    <2>3. \A v \in Held(s) : HeldAmount'[v] = HeldAmount[v]
      BY <1>2, <1>3 DEF HeldAmount
    <2>4. \A v \in Held(s) \cup {w} : HeldAmount'[v] \in Nat
      <3>1. \A v \in Withdrawals : withdrawal'[v] \in Withdrawal
        BY DEF TypeOK
      <3>2. \A v \in Withdrawals : HeldAmount'[v] = withdrawal'[v].amount
        BY DEF HeldAmount
      <3>3. QED
        BY <1>2, <3>1, <3>2 DEF Withdrawal
    <2>5. HeldAmount'[w] = op[k].amount
      BY <1>1 DEF HeldAmount
    <2>6. Total(Held(s) \cup {w}, HeldAmount') = Total(Held(s), HeldAmount') + HeldAmount'[w]
      BY <1>2, <2>2, <2>4, TotalAdd
    <2>7. Total(Held(s), HeldAmount') = Total(Held(s), HeldAmount)
      BY <2>3, TotalSame
    <2>8. QED
      BY <1>4, <2>1, <2>5, <2>6, <2>7 DEF HeldMoney
  <1>5. CASE s # op[k].seller
    <2>1. Held(s)' = Held(s)
      BY <1>1, <1>5 DEF Held
    <2>2. QED
      BY <1>3, <1>5, <2>1, HeldKept
  <1>6. QED
    BY <1>4, <1>5

\* A rejection moves the amount of the withdrawal back, which it could only take
\* from one still held: hence ReviewsFresh.
LEMMA RejectMoney ==
  ASSUME TypeOK, TypeOK', ReviewsOK, ReviewsFresh, NEW k \in Workers, Rejected(k), NEW s \in Sellers
  PROVE  HeldMoney(s) = IF s = op[k].seller THEN HeldMoney(s)' + op[k].amount ELSE HeldMoney(s)'
  <1> DEFINE w == op[k].id
  <1>1. /\ w \in Withdrawals /\ withdrawal[w].seller = op[k].seller /\ withdrawal[w].amount = op[k].amount
        /\ withdrawal[w].status \in {"pending", "approved"}
    BY StatusSetExists DEF ReviewInFlight, ReviewsFresh, AllowedFrom, Rejected
  <1>2. /\ withdrawal'[w].status = "rejected" /\ withdrawal'[w].seller = withdrawal[w].seller
        /\ withdrawal'[w].amount = withdrawal[w].amount
        /\ \A v \in Withdrawals : v # w => withdrawal'[v] = withdrawal[v]
    BY DEF Rejected, StatusSet
  <1> HIDE DEF w
  <1>3. \A v \in Withdrawals : withdrawal'[v].amount = withdrawal[v].amount
    BY <1>2
  <1>4. CASE s = op[k].seller
    <2>1. Held(s) = Held(s)' \cup {w} /\ w \notin Held(s)'
      BY <1>1, <1>2, <1>4 DEF Held
    <2>2. Held(s)' \in SUBSET Withdrawals
      BY DEF Held
    <2>3. IsFiniteSet(Held(s)')
      BY <2>2, RowsAssumption, FS_Subset
    <2>4. \A v \in Withdrawals : HeldAmount[v] = withdrawal[v].amount /\ HeldAmount'[v] = HeldAmount[v]
      BY <1>3 DEF HeldAmount
    <2>5. \A v \in Held(s)' \cup {w} : HeldAmount[v] \in Nat
      <3>1. \A v \in Withdrawals : withdrawal[v] \in Withdrawal
        BY DEF TypeOK
      <3>2. \A v \in Withdrawals : withdrawal[v].amount \in Nat
        BY <3>1 DEF Withdrawal
      <3>3. QED
        BY <1>1, <2>2, <2>4, <3>2
    <2>6. Total(Held(s)' \cup {w}, HeldAmount) = Total(Held(s)', HeldAmount) + HeldAmount[w]
      BY <2>1, <2>3, <2>5, TotalAdd
    <2>7. Total(Held(s)', HeldAmount') = Total(Held(s)', HeldAmount)
      <3>1. \A v \in Held(s)' : HeldAmount'[v] = HeldAmount[v]
        BY <2>2, <2>4
      <3>2. QED
        BY <3>1, TotalSame
    <2>8. QED
      BY <1>1, <1>4, <2>1, <2>4, <2>6, <2>7 DEF HeldMoney
  <1>5. CASE s # op[k].seller
    <2>1. Held(s)' = Held(s) /\ Held(s) \in SUBSET Withdrawals
      BY <1>1, <1>2, <1>5 DEF Held
    <2>2. QED
      BY <1>3, <1>5, <2>1, HeldKept
  <1>6. QED
    BY <1>4, <1>5

\* A release adds to what the settlements of its seller released.
LEMMA ReleaseMoney ==
  ASSUME TypeOK, TypeOK', NEW p \in Orders, NEW a \in Nat,
         \A q \in Orders : q # p => settlement'[q] = settlement[q], NEW s \in Sellers
  PROVE  settlement'[p].released = settlement[p].released + a =>
           ReleasedMoney(s)' = IF s = SellerOf[p] THEN ReleasedMoney(s) + a ELSE ReleasedMoney(s)
  <1>1. OrdersOf(s)' = OrdersOf(s) /\ OrdersOf(s) \in SUBSET Orders
    BY DEF OrdersOf
  <1>2. \A o \in Orders : ReleasedAmount[o] = settlement[o].released /\ ReleasedAmount'[o] = settlement'[o].released
    BY DEF ReleasedAmount
  <1>3. \A o \in Orders : ReleasedAmount[o] \in Nat /\ ReleasedAmount'[o] \in Nat
    <2>1. \A o \in Orders : settlement[o] \in Settlement /\ settlement'[o] \in Settlement
      BY DEF TypeOK
    <2>2. QED
      BY <1>2, <2>1 DEF Settlement
  <1>4. CASE s = SellerOf[p]
    <2>1. p \in OrdersOf(s) /\ IsFiniteSet(OrdersOf(s))
      BY <1>1, <1>4, RowsAssumption, FS_Subset DEF OrdersOf
    <2>2. /\ \A o \in OrdersOf(s) : ReleasedAmount[o] \in Nat
          /\ \A o \in OrdersOf(s) : ReleasedAmount'[o] \in Nat
      BY <1>1, <1>3
    <2>3. \A o \in OrdersOf(s) : o # p => ReleasedAmount'[o] = ReleasedAmount[o]
      BY <1>1, <1>2
    <2> DEFINE old == Total(OrdersOf(s), ReleasedAmount)
               new == Total(OrdersOf(s), ReleasedAmount')
    <2>4. new + ReleasedAmount[p] = old + ReleasedAmount'[p] /\ old \in Nat /\ new \in Nat
      BY <2>1, <2>2, <2>3, TotalDiffers
    <2> HIDE DEF old, new
    <2>5. settlement'[p].released = settlement[p].released + a => new = old + a
      BY <1>2, <1>3, <2>4
    <2>6. QED
      BY <1>1, <1>4, <2>5 DEF ReleasedMoney, old, new
  <1>5. CASE s # SellerOf[p]
    <2>1. \A o \in OrdersOf(s) : ReleasedAmount'[o] = ReleasedAmount[o]
      BY <1>2, <1>5 DEF OrdersOf
    <2>2. Total(OrdersOf(s), ReleasedAmount') = Total(OrdersOf(s), ReleasedAmount)
      BY <2>1, TotalSame
    <2>3. QED
      BY <1>1, <1>5, <2>2 DEF ReleasedMoney
  <1>6. QED
    BY <1>4, <1>5

LEMMA ConservedStep ==
  ASSUME TypeInv, ReleasesOK, FreshReads, ReviewsOK, ReviewsFresh, MoneyConserved, [Next]_vars
  PROVE  MoneyConserved'
  <1>1. TypeOK /\ TypeOK'
    BY TypeStep DEF TypeInv
  <1>2. \A s \in Sellers : Conserved(s)
    BY DEF MoneyConserved, Conserved, HeldMoney, ReleasedMoney, AdjustedMoney
  <1> SUFFICES ASSUME NEW s \in Sellers PROVE Conserved(s)'
    BY DEF MoneyConserved, Conserved, HeldMoney, ReleasedMoney, AdjustedMoney
  <1> DEFINE b == balance[s]
             h == HeldMoney(s)
             r == ReleasedMoney(s)
             d == AdjustedMoney(s, "debet")
             c == AdjustedMoney(s, "credit")
  <1>3. b \in Int /\ h \in Nat /\ r \in Nat /\ d \in Nat /\ c \in Nat
    BY <1>1, PartsType
  <1>4. b + h + d = r + c
    BY <1>2 DEF Conserved
  <1>5. ASSUME b' + h' + d' = r' + c'
        PROVE  Conserved(s)'
    BY <1>5 DEF Conserved
  <1> USE DEF MoneyKind, Ids
  <1>6. ASSUME NEW k \in Workers, CreditCommit(k) \/ DebitCommit(k)
        PROVE  Conserved(s)'
    <2>1. PICK type \in {"credit", "debet"} : Post(k, type, "admin_adjust", None, 0)
      BY <1>6 DEF CreditCommit, DebitCommit
    <2>2. op[k].kind \in MoneyKind /\ op[k].seller \in Sellers /\ UNCHANGED <<settlement, withdrawal>>
      BY <1>6 DEF CreditCommit, DebitCommit, TypeInv, ServesSeller
    <2>3. Posted(k, type, "admin_adjust", None, 0)
      BY <1>1, <2>1, <2>2, PostEffect
    <2>4. h' = h
      <3>1. Held(s)' = Held(s)
        BY <2>2 DEF Held
      <3>2. QED
        BY <2>2, <3>1, HeldKept
    <2>5. r' = r
      BY <2>2, ReleasedKept
    <2>6. op[k].amount \in Nat
      BY <1>1 DEF TypeOK, Op
    <2>7. /\ s # op[k].seller => b' = b /\ d' = d /\ c' = c
          /\ s = op[k].seller =>
               /\ b' = IF type = "credit" THEN b + op[k].amount ELSE b - op[k].amount
               /\ d' = IF type = "debet" THEN d + op[k].amount ELSE d
               /\ c' = IF type = "credit" THEN c + op[k].amount ELSE c
      BY <1>1, <2>2, <2>3, PostedMoney
    <2> HIDE DEF b, h, r, d, c
    <2>8. CASE s # op[k].seller
      BY <1>4, <1>5, <2>4, <2>5, <2>7, <2>8
    <2>9. CASE s = op[k].seller /\ type = "credit"
      <3>1. b' = b + op[k].amount /\ d' = d /\ c' = c + op[k].amount
        BY <2>7, <2>9
      <3>2. b' + h' + d' = r' + c'
        BY <1>3, <1>4, <2>4, <2>5, <2>6, <3>1
      <3>3. QED
        BY <1>5, <3>2
    <2>10. CASE s = op[k].seller /\ type = "debet"
      <3>1. b' = b - op[k].amount /\ d' = d + op[k].amount /\ c' = c
        BY <2>7, <2>10
      <3>2. b' + h' + d' = r' + c'
        BY <1>3, <1>4, <2>4, <2>5, <2>6, <3>1
      <3>3. QED
        BY <1>5, <3>2
    <2>11. QED
      BY <2>8, <2>9, <2>10
  <1>7. ASSUME NEW k \in Workers, ReleaseCommit(k)
        PROVE  Conserved(s)'
    <2> DEFINE p == op[k].id
               a == op[k].amount
    <2>1. /\ p \in Orders /\ op[k].seller = SellerOf[p] /\ op[k].seller \in Sellers
          /\ op[k].kind = "release" /\ op[k].base = settlement[p].released /\ ~op[k].dup
          /\ UNCHANGED withdrawal
      BY <1>7, SellerOfAssumption DEF ReleaseCommit, ReleasesOK, ReleaseInFlight
    <2>2. op[k].base + a \in Nat /\ a \in Nat
      <3>1. op[k] \in Op
        BY <1>1 DEF TypeOK
      <3>2. QED
        BY <3>1 DEF Op
    <2>3. /\ settlement'[p].released = settlement[p].released + a
          /\ \A q \in Orders : q # p => settlement'[q] = settlement[q]
      BY <1>1, <1>7, <2>1, ReleaseRow
    <2>4. Posted(k, "credit", "settlement", p, op[k].base + a)
      <3>1. Post(k, "credit", "settlement", p, op[k].base + a)
        BY <1>7, <2>1 DEF ReleaseCommit, TrancheRef
      <3>2. QED
        BY <1>1, <2>1, <2>2, <3>1, PostEffect
    <2>5. h' = h
      <3>1. Held(s)' = Held(s)
        BY <2>1 DEF Held
      <3>2. QED
        BY <2>1, <3>1, HeldKept
    <2>6. /\ s # op[k].seller => b' = b /\ d' = d /\ c' = c
          /\ s = op[k].seller => b' = b + a /\ d' = d /\ c' = c
      BY <1>1, <2>1, <2>2, <2>4, PostedMoney
    <2> HIDE DEF p, a
    <2>7. r' = IF s = op[k].seller THEN r + a ELSE r
      BY <1>1, <2>1, <2>2, <2>3, ReleaseMoney
    <2> HIDE DEF b, h, r, d, c
    <2>8. CASE s # op[k].seller
      BY <1>4, <1>5, <2>5, <2>6, <2>7, <2>8
    <2>9. CASE s = op[k].seller
      BY <1>3, <1>4, <1>5, <2>2, <2>5, <2>6, <2>7, <2>9
    <2>10. QED
      BY <2>8, <2>9
  <1>8. ASSUME NEW k \in Workers, NEW w \in Withdrawals, RequestCommit(k, w)
        PROVE  Conserved(s)'
    <2>1. Requested(k, w) /\ UNCHANGED settlement
      BY <1>8, RequestEffect DEF RequestCommit
    <2>2. op[k].amount \in Nat
      BY <1>1 DEF TypeOK, Op
    <2>3. h' = IF s = op[k].seller THEN h + op[k].amount ELSE h
      BY <1>1, <2>1, RequestMoney
    <2>4. r' = r
      BY <2>1, ReleasedKept
    <2>5. /\ s # op[k].seller => b' = b /\ d' = d /\ c' = c
          /\ s = op[k].seller => b' = b - op[k].amount /\ d' = d /\ c' = c
      BY <1>1, <2>1, PostedMoney DEF Requested
    <2> HIDE DEF b, h, r, d, c
    <2>6. CASE s # op[k].seller
      BY <1>4, <1>5, <2>3, <2>4, <2>5, <2>6
    <2>7. CASE s = op[k].seller
      BY <1>3, <1>4, <1>5, <2>2, <2>3, <2>4, <2>5, <2>7
    <2>8. QED
      BY <2>6, <2>7
  <1>9. ASSUME NEW k \in Workers, RejectCommit(k)
        PROVE  Conserved(s)'
    <2>1. Rejected(k) /\ UNCHANGED settlement
      BY <1>9, RejectEffect DEF RejectCommit
    <2>2. op[k].amount \in Nat
      BY <1>1 DEF TypeOK, Op
    <2>3. h = IF s = op[k].seller THEN h' + op[k].amount ELSE h'
      BY <1>1, <2>1, RejectMoney
    <2>4. r' = r
      BY <2>1, ReleasedKept
    <2>5. /\ s # op[k].seller => b' = b /\ d' = d /\ c' = c
          /\ s = op[k].seller => b' = b + op[k].amount /\ d' = d /\ c' = c
      BY <1>1, <2>1, PostedMoney DEF Rejected
    <2>6. h' \in Nat
      <3>1. HeldMoney(s)' \in Nat
        BY <1>1, PartsNext
      <3>2. QED
        BY <3>1
    <2> HIDE DEF b, h, r, d, c
    <2>7. CASE s # op[k].seller
      BY <1>4, <1>5, <2>3, <2>4, <2>5, <2>7
    <2>8. CASE s = op[k].seller
      BY <1>3, <1>4, <1>5, <2>2, <2>3, <2>4, <2>5, <2>6, <2>8
    <2>9. QED
      BY <2>7, <2>8
  <1>10. ASSUME Held(s)' = Held(s), \A w \in Held(s) : withdrawal'[w].amount = withdrawal[w].amount,
                \A o \in Orders : settlement'[o].released = settlement[o].released,
                UNCHANGED <<balance, ledger>>
         PROVE  Conserved(s)'
    <2>1. h' = h
      BY <1>10, HeldKept
    <2>2. r' = r
      BY <1>10, ReleasedKept
    <2>3. b' = b /\ d' = d /\ c' = c
      BY <1>10, AdjustedKept
    <2> HIDE DEF b, h, r, d, c
    <2>4. QED
      BY <1>4, <1>5, <2>1, <2>2, <2>3
  <1>11. ASSUME NEW k \in Workers, ApproveCommit(k) \/ ProcessCommit(k)
         PROVE  Conserved(s)'
    <2>1. Promoted(k) /\ UNCHANGED <<balance, ledger, settlement>>
      BY <1>11, PromoteEffect DEF ApproveCommit, ProcessCommit
    <2> DEFINE w == op[k].id
    <2>2. /\ w \in Withdrawals /\ withdrawal[w].status \in {"pending", "approved"}
          /\ withdrawal'[w].status \in {"approved", "processed"}
      BY <2>1 DEF Promoted, StatusSet, ReviewsFresh, ReviewKind, AllowedFrom
    <2>3. /\ withdrawal'[w].seller = withdrawal[w].seller
          /\ withdrawal'[w].amount = withdrawal[w].amount
          /\ \A v \in Withdrawals : v # w => withdrawal'[v] = withdrawal[v]
      BY <2>1 DEF Promoted, StatusSet
    <2> HIDE DEF w
    <2>4. Held(s)' = Held(s)
      BY <2>2, <2>3 DEF Held
    <2>5. \A v \in Held(s) : withdrawal'[v].amount = withdrawal[v].amount
      BY <2>3 DEF Held
    <2>6. QED
      BY <1>10, <2>1, <2>4, <2>5
  <1>12. ASSUME UNCHANGED <<balance, ledger, withdrawal>>,
                \A o \in Orders : settlement'[o].released = settlement[o].released
         PROVE  Conserved(s)'
    <2>1. Held(s)' = Held(s)
      BY <1>12 DEF Held
    <2>2. QED
      BY <1>10, <1>12, <2>1
  <1>13. ASSUME NEW o \in Orders,
                HoldSettlement(o) \/ RefundSettlement(o) \/ \E g \in Amounts : CreatePendingSettlement(o, g)
         PROVE  Conserved(s)'
    <2>1. UNCHANGED <<balance, ledger, withdrawal>>
      BY <1>13 DEF HoldSettlement, RefundSettlement, CreatePendingSettlement
    <2>2. CASE HoldSettlement(o) \/ RefundSettlement(o)
      <3>1. PICK status : settlement' = [settlement EXCEPT ![o].status = status]
        BY <2>2 DEF HoldSettlement, RefundSettlement
      <3>2. \A p \in Orders : settlement[p] \in Settlement
        BY <1>1 DEF TypeOK
      <3>3. \A p \in Orders : settlement'[p].released = settlement[p].released
        BY <1>1, <3>1, <3>2 DEF TypeOK, Settlement
      <3>4. QED
        BY <1>12, <2>1, <3>3
    <2>3. CASE \E g \in Amounts : CreatePendingSettlement(o, g)
      <3>1. settlement[o].released = 0
        BY <2>3 DEF CreatePendingSettlement, ReleasesOK
      <3>2. \A p \in Orders : settlement'[p].released = settlement[p].released
        BY <1>1, <2>3, <3>1 DEF CreatePendingSettlement, TypeOK
      <3>3. QED
        BY <1>12, <2>1, <3>2
    <2>4. QED
      BY <1>13, <2>2, <2>3
  <1>14. ASSUME UNCHANGED <<balance, ledger, settlement, withdrawal>>
         PROVE  Conserved(s)'
    BY <1>12, <1>14
  <1>15. CASE \E k \in Workers : Rollback(k) \/ RejectRead(k)
    BY <1>14, <1>15 DEF Rollback, RejectRead
  <1>16. CASE \E k \in Workers, t \in Sellers, a \in Amounts :
                CreditRead(k, t, a) \/ DebitRead(k, t, a) \/ RequestRead(k, t, a)
    BY <1>14, <1>16 DEF CreditRead, DebitRead, RequestRead
  <1>17. CASE \E k \in Workers, o \in Orders : \E a \in Amounts \cup {Remaining(o)} : ReleaseRead(k, o, a)
    BY <1>14, <1>17 DEF ReleaseRead
  <1>18. CASE \E k \in Workers, w \in Withdrawals : RejectCheck(k, w) \/ ApproveCheck(k, w) \/ ProcessCheck(k, w)
    BY <1>14, <1>18 DEF RejectCheck, ApproveCheck, ProcessCheck, Check
  <1>19. CASE UNCHANGED vars \/ \E t \in Sellers : InitializeSellerBalance(t)
    BY <1>14, <1>19 DEF vars, InitializeSellerBalance
  <1>20. QED
    BY <1>6, <1>7, <1>8, <1>9, <1>11, <1>13, <1>15, <1>16, <1>17, <1>18, <1>19
       DEF Next, BalanceNext, SettlementNext, WithdrawalNext

LEMMA ConservedInit == Init => MoneyConserved
  <1> SUFFICES ASSUME Init, NEW s \in Sellers PROVE Conserved(s)
    BY DEF MoneyConserved, Conserved, HeldMoney, ReleasedMoney, AdjustedMoney
  <1>1. balance[s] = 0 /\ ledger[s] = <<>>
    BY DEF Init
  <1>2. HeldMoney(s) = 0
    <2>1. Held(s) = {}
      BY DEF Init, Held
    <2>2. QED
      BY <2>1, TotalEmpty DEF HeldMoney
  <1>3. \A type : AdjustedMoney(s, type) = 0
    <2>1. \A type : Adjusted(ledger[s], type) = {}
      BY <1>1 DEF Adjusted
    <2>2. QED
      BY <2>1, TotalEmpty DEF AdjustedMoney
  <1>4. ReleasedMoney(s) = 0
    <2>1. \A o \in OrdersOf(s) : ReleasedAmount[o] = 0
      BY DEF Init, OrdersOf, ReleasedAmount
    <2>2. Cents(OrdersOf(s), ReleasedAmount) = {}
      BY <2>1 DEF Cents
    <2>3. QED
      BY <2>2, FS_EmptySet DEF Total, ReleasedMoney
  <1>5. QED
    BY <1>1, <1>2, <1>3, <1>4 DEF Conserved

\* When no two requests of a seller overlap, its balance, its open and paid
\* withdrawals and what the admin took are at every moment what its settlements
\* released plus what the admin gave: lost updates and double refunds, the ways
\* money could appear, need overlapping requests.
THEOREM NoMoneyAppears ==
  ASSUME Partitioned
  PROVE  Spec => []MoneyConserved
  <1>1. TypeInv /\ OwnSeller /\ FreshReads /\ [Next]_vars => FreshReads'
    BY FreshReadsStep
  <1>2. TypeInv /\ OwnSeller /\ ReviewsOK /\ ReviewsFresh /\ [Next]_vars => ReviewsFresh'
    BY ReviewsFreshStep
  <1>3. Init => FreshReads
    BY IdleType DEF Init, FreshReads
  <1>4. QED
    BY <1>1, <1>2, <1>3, TypeInit, TypeStep, ReleasesInit, ReleasesStep, TranchesStep, OwnSellerStep,
       ReviewsInit, ReviewsStep, ReviewsFreshInit, ConservedInit, ConservedStep, PTL DEF Spec

-----------------------------------------------------------------------------
(* Without overlap on a seller the ledger implements SellerAccounts: the   *)
(* accounts change in the commits only, and a commit finds the balance, the *)
(* settlement and the withdrawal as its request has read them.              *)

LEMMA NamedStep ==
  ASSUME TypeInv, AmountsNamed, [Next]_vars
  PROVE  AmountsNamed'
  <1> USE DEF TypeInv
  <1>1. ASSUME NEW k \in Workers, NEW s \in Sellers, NEW a \in Amounts,
               CreditRead(k, s, a) \/ DebitRead(k, s, a) \/ RequestRead(k, s, a)
        PROVE  AmountsNamed'
    <2>1. PICK kind \in OpKind : op' = [op EXCEPT ![k] = Begin(kind, s, None, a)]
      BY <1>1 DEF CreditRead, DebitRead, RequestRead, OpKind
    <2>2. Begin(kind, s, None, a).amount = a
      BY DEF Begin
    <2>3. QED
      BY <2>1, <2>2 DEF AmountsNamed, TypeOK
  <1>2. ASSUME NEW k \in Workers, NEW o \in Orders, NEW a \in Amounts \cup {Remaining(o)}, ReleaseRead(k, o, a)
        PROVE  AmountsNamed'
    BY <1>2 DEF ReleaseRead, BeginRelease, AmountsNamed, TypeOK
  <1>3. ASSUME NEW k \in Workers, RejectRead(k)
        PROVE  AmountsNamed'
    BY <1>3 DEF RejectRead, Begin, AmountsNamed, TypeOK
  <1>4. ASSUME NEW k \in Workers, NEW w \in Withdrawals,
               RejectCheck(k, w) \/ ApproveCheck(k, w) \/ ProcessCheck(k, w)
        PROVE  AmountsNamed'
    <2>1. PICK kind \in {"reject_checked", "approve_checked", "process_checked"} : Check(k, w, kind)
      BY <1>4 DEF RejectCheck, ApproveCheck, ProcessCheck
    <2>2. QED
      BY <2>1 DEF Check, AmountsNamed, TypeOK
  <1>5. ASSUME NEW k \in Workers, Finish(k)
        PROVE  AmountsNamed'
    BY <1>5, IdleType DEF Finish, AmountsNamed, TypeOK
  <1>6. QED
    BY <1>1, <1>2, <1>3, <1>4, <1>5, OpSteps DEF AmountsNamed

\* A posting whose read is still true adds to, or takes from, the balance as it is.
LEMMA PostOnAccount ==
  ASSUME TypeOK, FreshReads, Funded, NEW k \in Workers, op[k].kind \in MoneyKind,
         op[k].seller \in Sellers, NEW type \in {"credit", "debet"}, NEW source, NEW id, NEW upto,
         Post(k, type, source, id, upto)
  PROVE  /\ type = "credit" => Accounts!Pay(op[k].seller, op[k].amount)
         /\ type = "debet" /\ op[k].kind \in {"debet", "request"} =>
              Accounts!Take(op[k].seller, op[k].amount)
  <1> DEFINE s == op[k].seller
             a == op[k].amount
  <1>1. op[k].seen = balance[s]
    BY DEF FreshReads, MoneyKind
  <1>2. CASE type = "credit"
    <2>1. balance' = [balance EXCEPT ![s] = balance[s] + a]
      BY <1>1, <1>2 DEF Post
    <2>2. QED
      BY <1>2, <2>1 DEF Accounts!Pay
  <1>3. CASE type = "debet"
    <2>1. balance' = [balance EXCEPT ![s] = balance[s] - a]
      BY <1>1, <1>3 DEF Post
    <2>2. op[k].kind \in {"debet", "request"} => balance[s] >= a
      BY <1>1 DEF Funded
    <2>3. QED
      BY <1>3, <2>1, <2>2 DEF Accounts!Take
  <1>4. QED
    BY <1>2, <1>3

LEMMA AdjustIsAtomic ==
  ASSUME TypeInv, Funded, FreshReads, AmountsNamed, NEW k \in Workers, CreditCommit(k) \/ DebitCommit(k)
  PROVE  Accounts!Next
  <1>1. PICK type \in {"credit", "debet"} :
          /\ Post(k, type, "admin_adjust", None, 0)
          /\ type = "debet" => op[k].kind = "debet"
    BY DEF CreditCommit, DebitCommit
  <1>2. /\ op[k].kind \in MoneyKind /\ op[k].seller \in Sellers /\ op[k].amount \in Amounts
        /\ UNCHANGED <<settlement, withdrawal>>
    BY DEF CreditCommit, DebitCommit, TypeInv, ServesSeller, MoneyKind, AmountsNamed
  <1>3. Accounts!Pay(op[k].seller, op[k].amount) \/ Accounts!Take(op[k].seller, op[k].amount)
    BY <1>1, <1>2, PostOnAccount DEF TypeInv
  <1>4. Accounts!Adjust(op[k].seller, op[k].amount)
    BY <1>2, <1>3 DEF Accounts!Adjust
  <1>5. QED
    BY <1>2, <1>4 DEF Accounts!Next

LEMMA ReleaseIsAtomic ==
  ASSUME TypeInv, Funded, FreshReads, ReleasesOK, NEW k \in Workers, ReleaseCommit(k)
  PROVE  Accounts!Next
  <1> DEFINE o == op[k].id
             a == op[k].amount
             total == settlement[o].released + a
  <1>1. TypeOK /\ op[k].kind = "release" /\ op[k].kind \in MoneyKind
    BY DEF ReleaseCommit, TypeInv, MoneyKind
  <1>2. /\ o \in Orders /\ op[k].seller = SellerOf[o] /\ op[k].seller \in Sellers
        /\ settlement[o].status \in Undecided /\ op[k].base = settlement[o].released
        /\ op[k].base + a <= settlement[o].gross /\ ~op[k].dup /\ a > 0
    BY <1>1, SellerOfAssumption DEF ReleasesOK, ReleaseInFlight
  <1>3. op[k].base \in Nat /\ a \in Nat /\ settlement[o].gross \in Nat
    <2>1. op[k] \in Op /\ settlement[o] \in Settlement
      BY <1>1, <1>2 DEF TypeOK
    <2>2. QED
      BY <2>1 DEF Op, Settlement
  <1>4. settlement' = [settlement EXCEPT
          ![o].released = total,
          ![o].status = IF total >= settlement[o].gross THEN "released" ELSE "partially_released"]
    BY <1>2 DEF ReleaseCommit
  <1>5. (IF total >= settlement[o].gross THEN "released" ELSE "partially_released")
          = (IF total = settlement[o].gross THEN "released" ELSE "partially_released")
    BY <1>2, <1>3
  <1>6. settlement' = [settlement EXCEPT
          ![o].released = total,
          ![o].status = IF total = settlement[o].gross THEN "released" ELSE "partially_released"]
    BY <1>4, <1>5
  <1>7. Accounts!Pay(SellerOf[o], a)
    <2>1. Post(k, "credit", "settlement", o, TrancheRef(op[k].base, a))
      BY <1>2 DEF ReleaseCommit
    <2>2. QED
      BY <1>1, <1>2, <2>1, PostOnAccount
  <1>8. settlement[o].status \in Accounts!Undecided
    BY <1>2 DEF Undecided, Accounts!Undecided
  <1>9. UNCHANGED withdrawal
    BY DEF ReleaseCommit
  <1>10. Accounts!Release(o, a)
    BY <1>2, <1>6, <1>7, <1>8, <1>9 DEF Accounts!Release
  <1>11. a \in 1 .. settlement[o].gross
    BY <1>2, <1>3
  <1>12. QED
    BY <1>2, <1>10, <1>11 DEF Accounts!Next

LEMMA RequestIsAtomic ==
  ASSUME TypeInv, Funded, FreshReads, AmountsNamed, NEW k \in Workers, NEW w \in Withdrawals,
         RequestCommit(k, w)
  PROVE  Accounts!Next
  <1>1. /\ op[k].kind = "request" /\ op[k].kind \in MoneyKind
        /\ op[k].seller \in Sellers /\ op[k].amount \in Amounts
    BY DEF RequestCommit, TypeInv, ServesSeller, MoneyKind, AmountsNamed
  <1>2. Accounts!Take(op[k].seller, op[k].amount)
    <2>1. Post(k, "debet", "withdraw", w, 0)
      BY DEF RequestCommit
    <2>2. QED
      BY <1>1, <2>1, PostOnAccount DEF TypeInv
  <1>3. Accounts!Request(w, op[k].seller, op[k].amount)
    BY <1>2 DEF RequestCommit, Accounts!Request
  <1>4. QED
    BY <1>1, <1>3 DEF Accounts!Next

LEMMA RejectIsAtomic ==
  ASSUME TypeInv, Funded, FreshReads, ReviewsOK, ReviewsFresh, NEW k \in Workers, RejectCommit(k)
  PROVE  Accounts!Next
  <1> DEFINE w == op[k].id
  <1>1. /\ op[k].kind = "reject" /\ op[k].kind \in MoneyKind /\ op[k].kind \in ReviewKind
        /\ op[k].seller \in Sellers
    BY DEF RejectCommit, TypeInv, ServesSeller, MoneyKind, ReviewKind
  <1>2. /\ w \in Withdrawals /\ op[k].seller = withdrawal[w].seller
        /\ op[k].amount = withdrawal[w].amount
    BY <1>1 DEF ReviewsOK, ReviewInFlight
  <1>3. withdrawal[w].status \in {"pending", "approved"}
    BY <1>1 DEF ReviewsFresh, AllowedFrom
  <1>4. Accounts!Pay(withdrawal[w].seller, withdrawal[w].amount)
    <2>1. Post(k, "credit", "withdraw", w, 0)
      BY DEF RejectCommit
    <2>2. Accounts!Pay(op[k].seller, op[k].amount)
      BY <1>1, <2>1, PostOnAccount DEF TypeInv
    <2>3. QED
      BY <1>2, <2>2
  <1>5. Accounts!Reject(w)
    BY <1>3, <1>4 DEF RejectCommit, SetStatus, Accounts!Reject
  <1>6. QED
    BY <1>2, <1>5 DEF Accounts!Next

LEMMA PromoteIsAtomic ==
  ASSUME TypeInv, ReviewsOK, ReviewsFresh, NEW k \in Workers, ApproveCommit(k) \/ ProcessCommit(k)
  PROVE  Accounts!Next
  <1> DEFINE w == op[k].id
  <1>1. op[k].kind \in ReviewKind
    BY DEF ApproveCommit, ProcessCommit, ReviewKind
  <1>2. w \in Withdrawals
    BY <1>1 DEF ReviewsOK, ReviewInFlight
  <1>3. CASE ApproveCommit(k)
    <2>1. withdrawal[w].status = "pending"
      BY <1>1, <1>3 DEF ApproveCommit, ReviewsFresh, AllowedFrom
    <2>2. Accounts!Promote(w, "pending", "approved")
      BY <1>3, <2>1 DEF ApproveCommit, SetStatus, Accounts!Promote
    <2>3. QED
      BY <1>2, <2>2 DEF Accounts!Next
  <1>4. CASE ProcessCommit(k)
    <2>1. withdrawal[w].status = "approved"
      BY <1>1, <1>4 DEF ProcessCommit, ReviewsFresh, AllowedFrom
    <2>2. Accounts!Promote(w, "approved", "processed")
      BY <1>4, <2>1 DEF ProcessCommit, SetStatus, Accounts!Promote
    <2>3. QED
      BY <1>2, <2>2 DEF Accounts!Next
  <1>5. QED
    BY <1>3, <1>4

LEMMA DecisionIsAtomic ==
  ASSUME TypeInv, NEW o \in Orders,
         \/ \E g \in Amounts : CreatePendingSettlement(o, g)
         \/ HoldSettlement(o)
         \/ RefundSettlement(o)
  PROVE  Accounts!Next
  <1>1. CASE \E g \in Amounts : CreatePendingSettlement(o, g)
    <2>1. PICK g \in Amounts : CreatePendingSettlement(o, g)
      BY <1>1
    <2>2. Accounts!Settle(o, g)
      BY <2>1 DEF CreatePendingSettlement, Accounts!Settle
    <2>3. QED
      BY <2>2 DEF Accounts!Next
  <1>2. CASE HoldSettlement(o)
    <2>1. Accounts!HoldOrRefund(o, "held")
      BY <1>2 DEF HoldSettlement, Undecided, Accounts!HoldOrRefund, Accounts!Undecided
    <2>2. QED
      BY <2>1 DEF Accounts!Next
  <1>3. CASE RefundSettlement(o)
    <2>1. Accounts!HoldOrRefund(o, "refunded")
      BY <1>3 DEF RefundSettlement, Undecided, Accounts!HoldOrRefund, Accounts!Undecided
    <2>2. QED
      BY <2>1 DEF Accounts!Next
  <1>4. QED
    BY <1>1, <1>2, <1>3

LEMMA AccountStep ==
  ASSUME TypeInv, Funded, FreshReads, AmountsNamed, ReleasesOK, ReviewsOK, ReviewsFresh, [Next]_vars
  PROVE  [Accounts!Next]_Accounts!vars
  <1> SUFFICES Accounts!Next \/ UNCHANGED <<balance, settlement, withdrawal>>
    BY DEF Accounts!vars
  <1>1. CASE \E k \in Workers : CreditCommit(k) \/ DebitCommit(k)
    BY <1>1, AdjustIsAtomic
  <1>2. CASE \E k \in Workers : ReleaseCommit(k)
    BY <1>2, ReleaseIsAtomic
  <1>3. CASE \E k \in Workers, w \in Withdrawals : RequestCommit(k, w)
    BY <1>3, RequestIsAtomic
  <1>4. CASE \E k \in Workers : RejectCommit(k)
    BY <1>4, RejectIsAtomic
  <1>5. CASE \E k \in Workers : ApproveCommit(k) \/ ProcessCommit(k)
    BY <1>5, PromoteIsAtomic
  <1>6. CASE \E o \in Orders : \/ \E g \in Amounts : CreatePendingSettlement(o, g)
                               \/ HoldSettlement(o) \/ RefundSettlement(o)
    BY <1>6, DecisionIsAtomic
  <1>7. CASE \E k \in Workers : Rollback(k) \/ RejectRead(k)
    BY <1>7 DEF Rollback, RejectRead
  <1>8. CASE \E k \in Workers, t \in Sellers, a \in Amounts :
               CreditRead(k, t, a) \/ DebitRead(k, t, a) \/ RequestRead(k, t, a)
    BY <1>8 DEF CreditRead, DebitRead, RequestRead
  <1>9. CASE \E k \in Workers, o \in Orders : \E a \in Amounts \cup {Remaining(o)} : ReleaseRead(k, o, a)
    BY <1>9 DEF ReleaseRead
  <1>10. CASE \E k \in Workers, w \in Withdrawals : RejectCheck(k, w) \/ ApproveCheck(k, w) \/ ProcessCheck(k, w)
    BY <1>10 DEF RejectCheck, ApproveCheck, ProcessCheck, Check
  <1>11. CASE UNCHANGED vars \/ \E t \in Sellers : InitializeSellerBalance(t)
    BY <1>11 DEF vars, InitializeSellerBalance
  <1>12. QED
    BY <1>1, <1>2, <1>3, <1>4, <1>5, <1>6, <1>7, <1>8, <1>9, <1>10, <1>11
       DEF Next, BalanceNext, SettlementNext, WithdrawalNext

\* When no two requests of a seller overlap, the reads without a lock, the checks
\* before the transaction and the crashes between the two are not to be seen: the
\* accounts change as if every operation were one step on the rows as they are.
THEOREM LedgerIsAtomic ==
  ASSUME Partitioned
  PROVE  Spec => RequestsAreAtomic
  <1>1. TypeInv /\ OwnSeller /\ FreshReads /\ [Next]_vars => FreshReads'
    BY FreshReadsStep
  <1>2. TypeInv /\ OwnSeller /\ ReviewsOK /\ ReviewsFresh /\ [Next]_vars => ReviewsFresh'
    BY ReviewsFreshStep
  <1>3. Init => FreshReads /\ AmountsNamed /\ NeverOverdrawn /\ Funded
    BY IdleType DEF Init, FreshReads, AmountsNamed, NeverOverdrawn, Funded
  <1>4. Init => Accounts!Init
    BY DEF Init, Accounts!Init
  <1>5. TypeInv /\ Funded /\ FreshReads /\ AmountsNamed /\ ReleasesOK /\ ReviewsOK /\ ReviewsFresh
          /\ [Next]_vars => [Accounts!Next]_Accounts!vars
    BY AccountStep
  <1>6. QED
    BY <1>1, <1>2, <1>3, <1>4, <1>5, TypeInit, TypeStep, FundedStep, OverdrawnStep, NamedStep,
       ReleasesInit, ReleasesStep, TranchesStep, OwnSellerStep, ReviewsInit, ReviewsStep,
       ReviewsFreshInit, PTL DEF Spec, RequestsAreAtomic, Accounts!Spec
=============================================================================
