# Formal model of go-seller

go-seller is a multi-vendor shop: a Go backend of plugins over one SQL database
(`plugins/*`, `internal/*`, `cmd/*`) with a web application in TypeScript
(`sub_app/web_app`). This directory models the parts of it where a mistake costs
money or puts one customer's data in the place of another's: the seller's
ledger; an order from its quote and payment to its settlement or refund; and, in
the web application, the pages that list rows, the dialogs that save one, the
screens of one order, the point of sale and the cache every page render shares.
The modules are TLA+, checked by TLC on small instances; the safety properties
the runs check are also proved with TLAPS for every size.

| module | what it is | run (`.cfg`) | proofs |
|---|---|---|---|
| `SellerLedger` | balances, mutation log, settlements, withdrawals, in the steps requests interleave at | `ledger` (`MCSellerLedger`), `withdrawals` (`MCSellerWithdrawal`), `serial` (`MCSellerLedgerSerial`), `hold_funds_race` (`ViolRequestHoldsFunds`) | `SellerLedgerProofs` |
| `SellerAccounts` | abstract: an account on which every operation is one step, which `SellerLedger` implements where requests of a seller do not overlap | with `serial` | |
| `OrderFulfilment` | one order: shipments, status flow, confirmation, dispute, refund | `fulfilment` (`MCOrderFulfilment`), `fulfilment_race` (`MCOrderFulfilmentRace`) | `OrderFulfilmentProofs` |
| `OrderPayment` | one web order: address, quote, payments, notifications, and the customer's page of it | `payments` (`MCOrderPayment`) | `OrderPaymentProofs` |
| `MaintenanceAnswers` | abstract: what the maintenance helper promises | | |
| `MaintenanceCache` | the shared cache with its coalesced fetches, which implements it | `maintenance` (`MCMaintenanceCache`) | `MaintenanceCacheProofs` |
| `ListPages` | a page that lists rows: loads, filters, operations | `lists` (`MCListPages`) | `ListPagesProofs` |
| `RowDialogs` | dialogs that create, edit or remove a row | `dialogs` (`MCRowDialogs`) | `RowDialogsProofs` |
| `PageKinds`, `AdminPages`, `CatalogPages`, `MemberPages`, `FrontPages` | how each page and dialog of the web application differs: the records the two modules above are parameterised by | with `lists` and `dialogs` | |
| `OrderScreens`, `OrderPages` | the six screens that work on one order, and what each does | `orders` (`MCOrderScreens`) | `OrderScreensProofs` |
| `PosDrafts`, `PosPages` | the two point-of-sale pages, and what each does | `pos` (`MCPosDrafts`) | `PosDraftsProofs` |

Each run has an `MC...tla` module of the name of its main module. `PROJECT.json`
lists the components, the runs, for each property a mutant of the code that
breaks it, the map from definitions to source lines, the hazards and the theorems.

## 1. The system

Every HTTP request is served by a goroutine of its own; all shared state is in
the database. The services use gorm transactions at the database's default
isolation, READ COMMITTED: a plain SELECT takes no lock and sees committed rows
only, `FOR UPDATE` and UPDATE lock the row until the transaction ends. Which of
the two a service uses is what its correctness hangs on.

| component (source) | state | operations | interacts with | what is hard | what makes it correct |
|---|---|---|---|---|---|
| Seller balance (`plugins/order/services/seller_balance_service.go`) | `seller_balances`, `seller_balance_mutations` | initialise, credit, debit | settlements and withdrawals post to it | the balance row is read without a lock | the log adds up; no overdraft; the balance is the last entry |
| Settlements (`seller_settlement_service.go`) | `seller_settlements` | create pending, hold, release, partial release, refund | created by order completion, credits the balance | concurrent decisions, retried releases | what is released is credited once, never above gross; final decisions stay |
| Withdrawals (`seller_withdrawal_service.go`) | `seller_withdrawals`, audits | request, approve, reject, mark processed | debits and refunds the balance | status checked before the transaction | debited once, refunded once, pending → approved → processed |
| Transactions (`internal/db/tx.go`) | none | commit, rollback on error or panic | everything | a step of several failing | all or nothing |
| Shipments (`shipment_service.go`) | `order_shipments`, `order_shipment_items` | create, update, delete | recompute the order's status | unlocked counts and order read, row saved as it was read before | aggregate equals what the shipments say |
| Status flow (`order_status_flow.go`) | `orders.status`, `delivery_status` | pure functions and one UPDATE | shipments, payments | stale overwrites | terminal states stay |
| Confirmation and dispute (`order_confirmation_service.go`) | order status, dispute metadata | request, approve, reject, note, resolve, refund | settlement, customer wallet | repeated requests after an end | money leaves once, with the outcome |
| Orders (`order_service.go`) | `orders`, items, totals, coupons | draft, checkout, finalise, expire, set status | cart, payments, coupons | order numbers, double checkout, expiry race | unique numbers, a cart becomes one order |
| Payments (`payment_service.go`) | `payments`, events, proofs | create, status, proof upload and review, recheck, cancel, reject | gateways, orders | late, duplicated and reordered notifications | a paid order stays paid |
| Gateways and webhooks (`plugins/payment_gateway`) | provider rows | parse a webhook, recheck | payments | always answers 200: a failure is not retried | every success is eventually applied |
| Guest checkout (`guest_checkout_handler.go`, `guest_token_service.go`) | token keys in the key store | start, lock, release, revoke | payments, orders | gateway fails after the token was taken | a token starts one payment, and is never stuck |
| Callback (`callback_service.go`) | orders | set any status | orders | no settlement | completion settles |
| Cart, wishlist | `carts` | add, convert | orders | converted twice | converted once |
| Customer wallet (`plugins/finance`) | `customer_wallets` | credit, debit, withdraw | refunds | row created and locked | running total, no overdraft |
| Payouts (`plugins/finance`) | `payouts` | request, goroutine | bank accounts | lost at a restart | reaches an end |
| Catalog and teams, accounts and roles, reviews and complaints, marketing, notifications, search, maintenance, settings, seed data, reports and invoices | rows of their own | create, read, update, delete | mostly none | invitations, reminder job | see section 12 |
| Events, plugin registry, key store, storage, console | in memory | publish, request | plugins | reply after a timeout | one reply |

The web application renders its pages on a server of its own, which shares one
process among all visitors, and hydrates them in the browser. There every
handler is one turn of an event loop: nothing interrupts it, but between a
request and its answer anything the user may press can happen, the user may close
the dialog the answer is meant for, and answers arrive in any order.

| component (source below `sub_app/web_app/src`) | state | operations | what is hard | what makes it correct |
|---|---|---|---|---|
| Maintenance cache (`lib/storeMaintenance.ts`) | values with an expiry, fetches in flight, for the whole process | ask, store, time out | coalesced fetches that race their timers and outlive their entries | answers are recent; every render goes on |
| List pages (`components/admin`, `member`, `front`, ...) | rows, filter, page number, loading flag | load, filter, turn, operate on a row | late answers, reloads after operations | the rows are those asked for |
| Row dialogs (same) | form, selected row, loads and saves under way | open, fill, save, remove, close | an answer meant for a dialog closed since | a row is saved with its own content, once |
| Screens of one order (`OrderDetailModal`, `OrderDeliveryPage`, `CustomerOrderPage`, `GuestOrderCheckout`) | the order, a copy of it, shipments | the operations on the order, polls | loads that overlap operations | the operation hits the order on the screen |
| Point of sale (`PosPage`) | draft order, three busy flags | lines, coupons, charges, submit, another business | two first operations, a late answer | what was added is on the screen |
| Sign-in and set-up, settings and editors, storefront presentation, API clients and routes | one form, or none | one request | | see section 12 |

`PROJECT.json` lists every component with its status and, under `hazards`, each
place of this code that is hard to test, with the properties that watch it.

## 2. Seller ledger (`SellerLedger`)

| variable | code |
|---|---|
| `opened`, `balance` | the sellers with a `seller_balances` row, and its balance column in cents |
| `ledger` | `seller_balance_mutations` of a seller in commit order; `ref` and `upto` stand for `reference_id` (for a release the settlement and the released total of the tranche) |
| `settlement` | `seller_settlements` by order: status, gross and released amount |
| `withdrawal`, `audit` | `seller_withdrawals`, and the `status_to` of their audits |
| `op` | the request each worker is in the middle of, with what it has read |

A request is split exactly where another can come between: `CreditRead` /
`CreditCommit`, `DebitRead` / `DebitCommit`, `ReleaseRead` / `ReleaseCommit`,
`RequestRead` / `RequestCommit`, `RejectCheck` / `RejectRead` / `RejectCommit`,
`ApproveCheck` / `ApproveCommit`, `ProcessCheck` / `ProcessCommit`. A read
remembers the balance (`seen`), whether it found a row (`fresh`), the
settlement's released amount (`base`) and whether the tranche was found credited
already (`dup`); a commit writes what was computed from them. The UPDATE and the
COMMIT after it are one step: between them the row is locked and nobody can see
the new value, so nothing else can tell. `Rollback` ends any request at any
point, for an error, a closed connection or a crash.

The constant `Handles` says which sellers a worker serves. With all of them it
is the real server. With disjoint sets it describes the schedules in which no
two requests of one seller overlap; every property that needs this is kept in a
separate part of the module. That is the line the model draws through this
code: some rules hold in every interleaving because a row lock or the computation
itself enforces them, the others hold only as long as requests of a seller
happen not to overlap.

| run | instance | what it shows |
|---|---|---|
| `ledger` | 1 seller, 1 order, 2 workers, amounts 1..3, log limited to 2 adjustments before new ones stop, no withdrawal | in every interleaving: no negative balance (`NeverOverdrawn`), balance row = last entry (`BalanceIsLastEntry`), the tranches credited for a settlement telescope to its released amount (`TranchesTelescope`) and sum to it (`ReleasedEqualsCredits`), final settlements stay (`FinalizedStaysFinal`) |
| `withdrawals` | 1 seller, 2 withdrawals, 2 workers | in every interleaving: one debit per withdrawal (`WithdrawalDebitedOnce`), a rejected one is refunded (`RejectedIsRefunded`), every refund has its audit (`RefundsAreAudited`) |
| `serial` | 2 sellers with a worker each, 1 order, 1 withdrawal | without overlap: the log is a running total (`LedgerChain`), at most one refund and none of a transferred withdrawal (`RefundedAtMostOnce`), money in = balance + outstanding + released (`MoneyConserved`), and the ledger implements `SellerAccounts` (`RequestsAreAtomic`) |
| `hold_funds_race` | | refutes "Deduct balance immediately (hold funds)": a stale write undoes another transaction's change |

`SellerAccounts` is what a seller may expect, without requests, reads or a log:
`balance`, `settlement` and `withdrawal`, and each operation (`Adjust`, `Settle`,
`HoldOrRefund`, `Release`, `Request`, `Reject`, `Promote`) one step that tests and
changes the rows as they are. `SellerLedger` names it by
`Accounts == INSTANCE SellerAccounts`, each variable standing for itself: a commit is
the operation, every other step leaves the accounts alone. `RequestsAreAtomic` is
`Accounts!Spec`. It includes the flow of a withdrawal's status (`WithdrawalFlow`,
which is proved and has no run of its own): `Reject` and `Promote` name the statuses
they leave.

Bounds: `MaxEntries` only stops new administrator adjustments once a log has
that many entries; settlements and withdrawals are finite by themselves. Two
workers are enough for every race here, since each conflict is between one
read and one commit; amounts 1..3 let two equal partial releases, an unequal
pair and a full one all fit into one gross amount.

Two more places where the code and its comments differ came up while modelling
and are not runs of their own. `RejectWithdrawal` "rejects a pending withdrawal"
but takes an approved one too, which is what `WithdrawalFlow` allows.
`MarkProcessed` checks the status before its transaction, so that it can mark a
withdrawal as processed that was rejected and refunded meanwhile; that is why
`RefundedAtMostOnce`, `WithdrawalFlow` and `RequestsAreAtomic` are in the part without
overlap.

## 3. Order fulfilment (`OrderFulfilment`)

One order that has a seller, a customer and a positive total, placed and not yet
paid. `order` is its status, payment status and delivery status; `decision` the
`admin_decision` in its metadata; `shipment` the shipments with their items;
`settled` and `refunds` the two ways its money can leave; `successes` the
payment successes that were committed.

The operations under the order's row lock (`RequestCustomerConfirmation`,
`ApproveCustomerConfirmation`, `RejectCustomerConfirmation`,
`UpsertSellerDisputeNote`, `ResolveDisputeForSeller`,
`ResolveDisputeForCustomer`, `MarkDisputeRefundCompleted`) are one step each,
and so is the expiry, a single UPDATE. A shipment request takes up to four steps:
`UpdateShipmentRead` (before the transaction), the write of the row with the
unlocked read of the order, `SyncCount`, `SyncCommit`. A payment success and an
administrator's status change take two. Statuses that mean the same to every
guard (`""`, `unpaid`, `paid`, `confirmed` and `pending`) are represented by
`pending`; quotes are not modelled. The status functions keep the order of the code's
early returns.

`Overlap` decides whether a request may start while another is in flight.

| run | instance | what it shows |
|---|---|---|
| `fulfilment` | 2 items, 2 shipments, 5 input statuses, 1 success, no overlap | the money leaves at most once (`PaidOutOnce`), completed ⇔ settled and refunded ⇔ credited (`OutcomeBacked`), `TerminalStaysTerminal`, no confirmation before delivery (`ConfirmationFollowsDelivery`) |
| `fulfilment_race` | 1 item, 2 shipments, 2 workers, 1 success, an administrator who sets `completed` | in every interleaving: no settlement without a payment (`SettledWasPaid`), a dispute's decision moves only as the code under the lock says (`DecisionFlow`), the aggregate follows every create, update and delete but those whose transactions overlapped, and is right again after the next one that runs alone (`DeliveryFollowsShipments`) |

Two facts come from the schema rather than the Go code. The foreign key of a
shipment being created holds the order until that transaction ends, and the
`FOR UPDATE` of the confirmation operations waits for it (`CanLockOrder`; the
schema is `plugins/order/migrations/postgres/2026_05_03_000080_create_order_shipments.up.sql:7`).
And the save of a shipment deleted meanwhile fails on the foreign key of its
items (line 29), so that `UpdateShipmentSave` needs the row to exist.

Bounds: two shipments and two items give partial assignment, mixed statuses and
deleted shipments; `MaxSuccesses` bounds the successes that are processed. The
race run has two workers, as each conflict is between two transactions, and two
shipments, so that each can count without the other's write; one item and one
status an update may name keep it small. `overlapped` and `drifted` are history:
which shipment transactions have met another one, and whether one of those
committed since one last ran alone. The serial run leaves `ready_to_ship` and `in_transit` out of the inputs: the
first is treated as `pending` is and the second as `shipped`.

What the code does against its own comments, met while modelling and allowed by the
properties through the conditions they are checked under. "Terminal states:
completed | cancelled | refunded" does not hold under overlap, when a payment
success that read the order before it expired revives it, nor without it when a
success is processed a second time after a refund. The delivery status is not
"updated whenever shipments change" when two shipment transactions overlap:
each counts without the other's write. And the delivery status `cancelled`, which
`order_status_constants.go:56` names for "all shipments cancelled", is never
computed: `nextDeliveryStatusFromProgress` leaves cancelled shipments out of its counts
and answers `pending`. `DeliveryFollowsShipments` says nothing of such an order.

Two more things. An order in dispute may be
asked to be confirmed again, also after the administrator has decided for the
customer; if the customer then rejects again, the decision is reset to open. And
an order whose shipments are all delivered moves to waiting for the customer
even when some of its items are in no shipment, while a request made by hand
(`canRequestCustomerConfirmation`) demands that all are.

## 4. Order payment (`OrderPayment`)

One web order that is not paid yet, its payments, the gateway, and the customer's
page. Two things are split. What changes the order's total or its metadata (the
address, the quote, items, discounts, coupons, extra charges, finalising a draft,
the change to pickup) reads the order without a lock, decides, and writes later:
`EditRead` and `EditWrite` for the staff, `ReadAddress` and `WriteAddress` for the
customer. And the handler that starts a payment is several transactions and a call
to the gateway: `CheckPayment`, `CancelPendingPaymentsByOrder`, `CreatePayment`, then
`SendToGateway` or `StoreProof`, or `DropPayment` when either fails. Every other
transaction is one step.

| variable | code |
|---|---|
| `order` | the `orders` row: status, payment status, `paid_at`, address, quote, and what the total comes to |
| `payment` | the `payments` rows: status, whether a gateway has it, its proof, `paid_at` |
| `newer` | which payment's `updated_at` is later than which: the page shows the latest (`LatestPayment`) |
| `charge` | external: what the gateway has seen of each payment |
| `req` | how far the server is with the customer's three requests |
| `edit` | the staff's edit between its read and its write, with what it takes there |
| `bypassed` | history: the staff went past the checks, or an edit was overtaken |
| `page` | the state of `CustomerOrderPage.tsx`: snapshot, loading flag, loads and poll under way, busy buttons |

`Staff` are the operations of administrators and sellers on payments (proofs,
recheck, validation, status, cancel, reject, and `AdminCreatePayment`, which asks
nothing of the order) and on the order's status (request of confirmation, and
`UpdateOrderStatus`, any status of any order), `EditRead` and `EditWrite` their edits of
the order, one after another; `Expire` is the expiry job, `Webhook` a notification: of any state its payment has had at the gateway,
so that it may be late, repeated, out of order, or never come. The page loads the
order when it is mounted and after each request, polls while a payment is open,
and shows whatever answer arrives last.

| run | instance | what it shows |
|---|---|---|
| `payments` | 1 address, 2 payments, 2 totals, the staff may set the status `draft`, 3 decisions of the staff or payments started | `QuotedBeforePayment`: a payment exists only for an order with an address and a quote, however long its start took, unless the staff went past the checks or an edit was overtaken; `PaidOrderKeepsTotal`: after `paid_at` nothing changes the total or takes `paid_at` back, though late notifications turn `payment_status` back, but for an edit that had read the order before; `PayableIsOffered`: an order the server takes payments for is offered for payment; `OutcomeIsShown`: a page that is open and polls ends up showing an outcome that stays |

Bounds: a second payment is needed for a payment that replaces another and for
notifications about the one replaced; two totals tell whether the total changed;
three decisions are a quote, a payment and one more that disturbs them. Only
decisions and starts count: notifications, loads, polls and expiry are free. A new
payment takes the first id that is free (`Fresh`), as ids are interchangeable.
`draft` is the status set by hand because it is the one that makes an order payable
again; the proofs are for any set of them.

The items, discounts, coupons and charges themselves are left out: an edit of them
(`reprice`) makes the total come to anything. So are the adapters' HTTP formats. What
the unlocked reads let through is what the two properties exempt: an address
or a quote put back by a stale write (`order_service.go:949` and `:1004`, `:1023` and
`:1083`), a coupon applied to an order paid meanwhile (`:1423` and `:1546`), a payment
entered by an administrator for an order without a quote
(`payment_handler.go:42`), and the change of a quoted order to pickup, which takes
address and quote away under an existing payment (`order_service.go:1300`).

## 5. Maintenance cache (`MaintenanceCache` implements `MaintenanceAnswers`)

`fetchStoreMaintenanceInfo` is called by every page render. `cache` is
`maintenanceCache`, `fetch` is `pendingMaintenanceRequests` with its abort
timers, `call` and `waits` are the callers and the fetch each awaits. `retired`
is external: when each version of a switch was replaced on the backend. Storing a
result and waking those who wait is one step, as only microtasks run between
them. A call names a set of keys; only a call for exactly the same set joins a
fetch.

`MaintenanceAnswers` states what a page relies on: an answer is a value that the
backend held within the last `Bound` ticks or one of two substitutes.
`AnswersAreRecent` says that `MaintenanceCache` implements it with
`Bound = TTL + Timeout`: an expiry counts from the end of a fetch, which the
abort timer bounds. It is proved for any sets of keys, and model-checked.

The run `maintenance` has one key, two callers, entries that live one tick and a
timeout of two, two changes of the switch and no call after tick 5: a fetch may
outlive an entry, be aborted, be joined, and an entry expire and be fetched
again. `DefaultOnlyOnFailure` and `CacheGoesForward` hold when each call names one
key, as every page does. For calls that name several the documentation
(`docs/store-maintenance-function.md:41` and `:146`) is too optimistic: two calls
whose sets overlap are not coalesced, and the earlier answer may overwrite the
later one.

## 6. List pages (`ListPages`) and row dialogs (`RowDialogs`)

The list pages and dialogs of the web application are written by hand, each in
its file, along a few patterns. The two modules state the behaviour once; the record
`kind` says in what a page differs (`PageKinds`), and `AdminPages`,
`CatalogPages`, `MemberPages` and `FrontPages` give the record of every page and
dialog, each with the lines it was read from. `kind` is chosen in `Init` and never
changes, so that a run covers all of them.

`ListPages`: `Ask` is a load of the query on the screen, `Serve` the moment the server
reads the rows, `Receive`, `Fail` and `FailSilently` its end. `Filter`,
`FilterThenReset` and `Turn` are the user's; `Act` starts an operation on a row,
`Apply` is its effect on the server, and `Reload`, `Patch`, `ShowLeft` and
`Refused` are what the page does with the answer. `OtherUser` removes and restores
rows elsewhere. A removed row stays on the server: the query "deleted" of the pages
that have the switch (`UsersPage.tsx:44`) lists it, and the row can be restored
there. On the storefront's product page the filter is a typed keyword (`box`): a keystroke
raises `pending` and starts a timer, which ends in a search, and its answer in a
load. `mixed` remembers whether requests have overlapped since the page was
last at rest.

`RowDialogs`: `OpenCreate`, `OpenEdit`, `OpenRemove`, `Close`; `Loaded` and
`LoadFails` fill the form; `Save`, `SaveNothing` and `Remove` send; `Apply` is the
server's part; `Saved`, `Removed`, `Refused`, `UploadFails` and `Lost` are the
ends of a request, applied to whatever the page shows by then. `holds` is the row
whose data the form holds. `strayed` remembers whether anything was left alone:
a load overtaken, failed or not waited for, or a request whose dialog was closed.

| run | instance | what it shows |
|---|---|---|
| `lists` | every list page; 2 rows, 1 of which the filter matches, 2 loads and 2 operations under way, 2 pages, 3 user actions | `RowsAnswerQuery`, `RemovedIsGone`: at rest the rows are those of the query on the screen and no row this page removed is among rows asked for without the removed ones, unless requests overlapped on a page that does not drop late answers; `LoadingEnds`: "loading" ends, but for a keyword typed back to the applied one before the timer ends |
| `dialogs` | every dialog; 2 rows, 5 dialogs opened and requests sent | `SavesOwnContent`: one row's data is never saved into another; `KnowsItsRow`: an open dialog knows its row; `CreatesOnce`: one create makes one row |

Each property names the kinds for which it holds always and says what must have
happened for it to fail in the others: that is the outcome of reading the pages.
Most list pages drop no late answers: with two loads under way the rows
of an earlier filter may stay under a later one. The storefront stays "loading" when a
keyword is typed and taken back within the debounce: no search starts, and only the
end of a search puts out the flag (`StoreFrontProducts.tsx:124`); `same` remembers
that. Dialogs filled by an effect
without cleanup keep another row's texts when a load fails or is late
(`BusinessTranslationsModal.tsx:79`), and pages that forget the selected row at the
end of a request leave the dialog opened meanwhile without one
(`CouponsPage.tsx:441`).

Bounds: an overlap needs two requests, a wrong order two rows and two queries; a
dialog goes wrong with one left alone, a second opened, and a save: five steps
leave room for one more. The actions do not count the answers. The `lists` run has
980,000 distinct states and takes some two and a half minutes.

## 7. Screens of one order (`OrderScreens`) and point of sale (`PosDrafts`)

`OrderScreens` has the administrators' and the members' dialog, their two
delivery pages, the customer's page and the guest's checkout; `OrderPages` says
how each loads the order and its shipments and lists its operations by the part
of the screen that offers them. An operation (`Operate`) goes to the order shown
and is followed by loads (`Steps`, `Follows`) whose answers (`OrderArrives`,
`CopyArrives`, `PanelArrives`) are shown as they come. `server` counts the changes
of each order and of its shipments: what is on the screen is the version it was
read at. `panel` is the second thing a screen loads: the shipments, and on the
customer's page the review rows, which are asked for once a completed order has been
shown ("after").

What an operation sends of an order (the quote, the charges, the carrier) comes from
a form. Some forms an effect refills with each order loaded (`form` = "follows");
others are dialogs of their own (`forms`), filled when they are opened
(`OpenForm`): at once, or when an awaited request is answered (`FormArrives`),
which may be after the dialog under them was opened on another order. `Fields` is the order
a form was filled from, `Target` the one it is sent to. Every operation has a busy
flag of its own, or none, and the pages differ in whether closing the dialog resets it
(`Pressable`). Uploading the proofs of a payment is several requests, read back after
the last (`NextPart`, `PartDone`).

`crossed` and `reordered` remember that an answer was applied after its
dialog had been closed, or after that of a later request; `partly` that a request
of an operation failed after an earlier one of it.

`PosDrafts` has the administrators' and the members' point of sale. An operation
first makes sure of a draft order, then is sent, then the draft is read back;
`busy` holds the three busy flags, of which each button waits for some. Clearing a
sale deletes its items one request after the other (`NextItem`) and reads back after
the last. A list of extra charges replaces the server's: it is made from the draft
shown when the button is pressed (`base`), before `ensureDraftOrder` is awaited, and
`charged` remembers the version that took the last list accepted.
`twice`, `crossed`, `reordered` and `partly` name what the flags let through.

| run | instance | what it shows |
|---|---|---|
| `orders` | 6 screens, 2 orders, a budget of 4 user actions of which an operation takes 2, at most 1 request under way when the user acts, 1 failure | `OperationsHitTheirOrder`: an operation and the fields it sends are of the order the dialog was opened on, unless an answer of an earlier dialog was applied; `ShowsWhatWasSaved`: at rest the screen is not older than what this user saved, unless a load failed, an operation of several requests failed half-way, or answers came from an earlier dialog or overtook each other |
| `pos` | 2 pages, 2 businesses, 2 drafts, 2 items to clear, 3 presses, 1 failed load | `LinesAreShown`: at rest what was added is on the screen, and a list of charges takes up those accepted before it, but for a failed load, a clear that failed half-way, a second draft, and answers that crossed or overtook each other |

The orders, and the businesses, are interchangeable: both runs use symmetry, and
neither checks liveness. `orders` has 1.5 million distinct states and takes two to
three minutes, `pos` 3.6 million and as long. Two orders are enough for one to take the
place of the other; a budget of four is two operations, or one on an order and the
opening of another, and opening and filling a form costs nothing. In `pos` two presses make two drafts and
the third works on the wrong one, and two items are enough for the second to
fail.

What the conditions stand for in the code. `crossed`: the dialogs drop no late answer,
so that the administrators' own copy of the order (`admin OrderDetailModal.tsx:425`)
and the shipment form (`:480`, `member OrderDetailModal.tsx:562`) can belong to one
order under another's name. `partly`: when the second proof fails
(`:839`), or the second item (`member PosPage.tsx:450`, `admin PosPage.tsx:779`), the
first is saved and not shown. And `LinesAreShown` says nothing of the charges a
draft had when the page was opened on it: a list sent before they have been loaded
replaces them (`member PosPage.tsx:382`).

## 8. Fairness and liveness

- `MaintenanceCache`: time passes and a fetch is aborted when its timer fires
  (weak fairness of `Tick` and `Abort`). `EveryCallReturns` needs no more: the
  backend may never answer.
- `OrderPayment`: the browser ends every load, asks again while the page polls
  and delivers the answer (weak fairness of the `Load`s, `PollAsked` and
  `PollArrives`), and a poll that is asked again and again is served (strong
  fairness of `PollServed`). Nobody owes a payment, a decision or a notification,
  and `OutcomeIsShown` speaks of an outcome that has come and stays.
- `ListPages`: the browser ends each request, with an answer or a failure (weak
  fairness for each slot). `LoadingEnds` needs nothing of the user.
- `SellerLedger`, `OrderFulfilment`, `RowDialogs`, `OrderScreens`, `PosDrafts`:
  none. Their properties are of safety; a request may stop anywhere for ever, as
  one does when its connection drops, and what moves an order on is a person.

## 9. Proofs

### `SellerLedgerProofs`

Proved by TLAPS for any sets of sellers, orders, withdrawals and workers, any
positive amounts and any bound, from the ASSUMEs of `SellerLedger` alone:

| theorem | statement |
|---|---|
| `TypeCorrect` | `Spec => []TypeOK` |
| `NoOverdraft` | `Spec => []NeverOverdrawn` |
| `BalanceFollowsLedger` | `Spec => []BalanceIsLastEntry` |
| `ReleasesPaidOnce` | `Spec => []TranchesTelescope` |
| `SettlementsStayFinal` | `Spec => FinalizedStaysFinal` |
| `WithdrawalsAreDebited` | `Spec => []WithdrawalDebitedOnce` |
| `RejectedArePaidBack` | `Spec => []RejectedIsRefunded` |
| `RefundsHaveAudit` | `Spec => []RefundsAreAudited` |
| `ReleasedIsCredited` | `Spec => []ReleasedEqualsCredits` |
| `LogAddsUp` | `Spec => []LedgerChain`, assuming `Partitioned` (no two workers serve one seller) |
| `NoDoubleRefund` | `Spec => []RefundedAtMostOnce`, assuming `Partitioned` |
| `WithdrawalsFlow` | `Spec => WithdrawalFlow`, assuming `Partitioned` |
| `NoMoneyAppears` | `Spec => []MoneyConserved`, assuming `Partitioned` |
| `LedgerIsAtomic` | `Spec => RequestsAreAtomic`: the refinement of `SellerAccounts`, assuming `Partitioned` |

None of these is inductive alone. `NeverOverdrawn` needs that a debit in flight
is covered by the balance it read; `TranchesTelescope` needs that the settlement
row a release has locked still says what it read, and that no other release of
the order is in flight. `IInv` adds what requests in flight know (`RequestsOK`,
with `ReleaseInFlight` and `ReviewInFlight`) and what absent rows look like
(`RowsOK`). The proof has one lemma per fact used everywhere (`OpSteps`, what a
step may do to the requests in flight; `PostEffect`, what a posted mutation does
to the log; `MoneyMoves`, the three ways a step touches a balance), and the
invariance proof takes the conjuncts one at a time. `LogAddsUp` adds
`FreshReads`: under `Partitioned`, what a request has read stays true until it
commits, which is exactly what the missing row lock does not give.

The withdrawals rest on what the log says of each: `WithdrawalDebitedOnce` counts
its debits, which needs that an absent withdrawal has none while its request is
under way, and `RejectedIsRefunded` and `RefundsAreAudited` compare its refunds
with its row and its audits, on every row at once. `ReviewsOK` says that a review
in flight is of a withdrawal that exists and holds its seller, and that a
withdrawal without a row has no audit. Under `Partitioned`, every request works for
a seller of its worker (`OwnSeller`), so a withdrawal has one review at a time, and
the status this has checked still allows it (`ReviewsFresh`). Without that, two
reviewers who passed the same check refund twice, which the theorem's assumption
excludes and the code does not.

`ReleasedIsCredited` and `NoMoneyAppears` are about sums. `Total(S, f)` is the number of cents in them (`Cents`: the pairs of
an element of `S` and a number up to its amount), so that the sum after a step
differs from the one before by the cardinality of a set that the step adds or
removes, which `FiniteSetTheorems` gives; a sum by recursion would need an
induction the provers cannot do. TLC evaluates `TotalIsSum`, which compares `Total`
with the sum written as a fold. `ReleasedEqualsCredits` needs `ReleasesOK`, that a
release in flight still knows what its locked settlement row says. Its tranche then
ends beyond all that were credited, so the look-up of an earlier credit finds none:
what the settlement gains is always posted.
`MoneyConserved` needs `FreshReads` for the balance and `ReviewsFresh` for the
withdrawals.

`LedgerIsAtomic` maps every step to a step of `SellerAccounts` or to a stutter, one
lemma per commit. A posting adds to the balance as it is because its read is still
true (`FreshReads`), and a debit is covered by it (`Funded`); a release finds its
settlement as it read it (`ReleasesOK`), in every schedule, since the row is locked;
a review finds a status from which its operation is allowed (`ReviewsFresh`), and the
amount it was told of (`ReviewsOK`). `AmountsNamed` says that what is adjusted or
requested is an amount somebody named. Reads, checks and rollbacks are the stutters,
so a crash between the steps of a request is one too.

### `OrderFulfilmentProofs`

Proved for any items, shipments, workers and statuses of the inputs, from the
ASSUMEs of `OrderFulfilment` alone:

| theorem | statement |
|---|---|
| `TypeCorrect` | `Spec => []TypeOK` |
| `SettlementNeedsPayment` | `Spec => []SettledWasPaid` |
| `DecisionsFlow` | `Spec => DecisionFlow` |
| `OutcomeIsBacked` | `Spec => []OutcomeBacked`, assuming `Serial` |
| `MoneyLeavesOnce` | `Spec => []PaidOutOnce`, assuming `Serial` |
| `TerminalIsTerminal` | `Spec => TerminalStaysTerminal`, assuming `Serial` |
| `DeliveryKeepsUp` | `Spec => []DeliveryFollowsShipments`, in every interleaving |
| `WaitsOnlyWhenDelivered` | `Spec => ConfirmationFollowsDelivery`, assuming `~Overlap` and that no administrator sets `waiting_customer_confirmation` by hand |

`Serial` says that requests do not overlap, that no administrator sets a status
by hand and that at most one success is processed. `TerminalIsTerminal` needs the
first and the last part: section 3 has the two ways in which a terminal status is
revived without them.

`SettledWasPaid` is not inductive: a settlement may come from an order that an
administrator's request saw paid long ago, so `PaidBySuccess` says of the order
and of everything in flight that what is or was seen paid has a success behind
it. The theorems under `Serial` rest on `SerialInv`: `OneAtATime`;
`RequestInv`, that what the one request in flight has read still holds and what
it will write is what the status flow allows from there; and `OrderInv`, which
lists the pairs of order and payment status before and after the success and
ties the settlement and the refund to the final status. Each action keeps the
three (`ShipmentStep`, `OrderNextStep`, `ConfirmationStep`), and the same case
analysis shows that no step leaves a terminal status (`EndStays`).

`DeliveryKeepsUp` rests on `SyncInv`: a shipment transaction that has met no other one
has seen the delivery status that is stored, as only those transactions write it, and
what it has counted is what the shipments say with its own write. Neither successes nor
disputes change a shipment. `WaitsOnlyWhenDelivered` rests on `CountedInv`, which says
the same of the order status too, and needs for it that nothing else is in flight.

### `OrderPaymentProofs`

Proved for any payments, addresses and amounts.

| theorem | statement |
|---|---|
| `QuotedFirst` | `Spec => []QuotedBeforePayment` |
| `PaidTotalStays` | `Spec => PaidOrderKeepsTotal` |
| `PaymentTypes` | `Spec => []TypeOK` |
| `PayableOffered` | `Spec => []PayableIsOffered` |

`QuotedBeforePayment` is not inductive: a payment is created from checks made long
before. `QuoteInv` says that, unless the staff went past the checks or an edit was overtaken
(`bypassed`), the order is `Ready`, with an address and a quote, or has nothing an
order without them cannot have (`Unready`): a payment, a start past its checks, or a
status in which it could be paid. A quote locks the address, and only a change
to pickup, an edit that has been overtaken and a status set by hand take either away, so
that what a start has checked stays true until the payment is there; a quote may be
given before there is an address, and locks it then too. `Serve` is proved action by
action for that reason. `RowsInv` is the type of the rows, `EditOK` that of the edit
under way; `PaymentSteps` states once what the operations on a payment leave alone.
`PaidOrderKeepsTotal` needs of an edit that it accepted an unpaid order, so that one
that reads after `paid_at` was set changes no total.

The types need more than the declarations: that a payment under way is one of the
payments, that `newer` relates each two of them one way (`NewerOK`), so that there
is a latest one to show, and that what the page keeps is a snapshot an order can
have (`PageType`). `ViewAssumption` keeps the marks for "nothing loaded" and "asked"
apart from the snapshots. `PayableIsOffered` then compares the two conditions, the
server's and the page's, on any order.

### `MaintenanceCacheProofs`

| theorem | statement |
|---|---|
| `CacheTypeCorrect` | `Spec => []TypeOK` |
| `CacheImplementsAnswers` | `Spec => AnswersAreRecent`: each step is one of `MaintenanceAnswers` or a stutter |
| `CacheNeverGoesBack` | `Spec => CacheGoesForward`, assuming `OneKeyAsked` (each call names one key) |
| `FetchedIsShown` | `Spec => DefaultOnlyOnFailure`, assuming `OneKeyAsked` |

The invariant behind the refinement says of each entry that its value was held at
some time since its expiry minus `TTL + Timeout`, and of each fetch that what it
got was held at some time since it was sent, which is at most `Timeout` ago.
With one key a call, `SingleInv` adds that at most one fetch of a key is under way
and that those who wait for it ask for its key, and `NewerInv` that what this fetch has got
is no older than what the cache has.

### `OrderScreensProofs`

Proved for any screens that meet `PartsAssumption` (TLC evaluates it for the six of
the application), any orders, and any number of requests under way, failures and
dialogs opened.

| theorem | statement |
|---|---|
| `OperationsReachTheirOrder` | `Spec => []OperationsHitTheirOrder` |
| `SavedIsShown` | `Spec => []ShowsWhatWasSaved` |

`OrderInv` says of each request what it was made for (`ReqsInv`): one whose dialog is
still open was made for the order this is open on, and its own copy of the order was
of that order or had not come yet; of the screen, that until an answer of
an earlier dialog is applied it has nothing of another order (`ScreenInv`); and that
a dialog with a copy of its own does not work before the page has loaded the order
(`KeptInv`). `FormsInv`: until then no open form was filled from another order than the
one the dialog is open on.

`ShowsWhatWasSaved` speaks of a screen at rest, and most of its proof is about
the way there. `FollowInv`: as long as nothing has failed, no operation has failed
half-way and no answer has been applied out of turn, whatever is older than what was saved, be it on the screen
(`Stale`) or in an answer on its way to it (`Behind`), is followed by a request that
brings what was saved (`Brings`): one the server has not answered yet, or has answered since, or a load of
the shipments that the dialog's own load of the order follows. The order of the
requests matters, so the lemmas (`Image`, `BackAt`, `Overtakes`) follow every request
from its place before a step to its place after it: answered requests leave, those
overtaken become late, an effect's load of the shipments is appended and may drop
the ones before it. It is for that load that the invariant is stated for the order
and for the shipments separately. `WrittenInv` gives that nothing served now is
older than what was saved.

### `PosDraftsProofs`

| theorem | statement |
|---|---|
| `SaleIsShown` | `Spec => []LinesAreShown` |

For any pages, businesses and numbers of drafts, presses and failures, from the
assumptions of `PosDrafts`: `PagesAssumption`, `NoneAssumption` (`None` is no
business, number, operation or draft shown), `ChargesAssumption` (the operations that
replace the list of charges wait for their flag), `ItemsAssumption` (what is cleared
item by item is the draft there is) and `BoundsAssumption` (there may be at least one
draft, and one item). TLC evaluates them for the two pages. The invariant `Inv` adds to the types that no answer and nothing
acknowledged is ahead of the server (`Behind`), that one list of charges is under way at
a time (`OneList`), and, as long as nothing failed and no
answer was out of turn (`Undisturbed`):

- `OwnBusiness`: the draft worked on, and every draft a request names, is of the
  business it was asked under;
- `OneDraft`: the page works on the draft it shows, or on one that the load which opened
  the page is about to show; every operation not left behind works on that draft or
  creates it, and nothing else has been acknowledged;
- `Followed`: what was acknowledged is shown, or a load that brings it is under way, or
  more items are to be cleared before it;
- `Charges`: the list of charges accepted last is in the draft shown, or the operation
  that sent it is reading it back, and the list under way was made from it.

`Followed` is the property at rest. It is preserved because an acknowledgement sends
a load, which the server cannot serve with less than was acknowledged, and an answer
that would replace newer rows by older ones is by definition `reordered`. `OneDraft`
is what makes the load read the draft operated on: two operations that each create
one set `twice` (`NoDraftYet`: before, there is none), and an answer to what was asked
before a change of business sets `crossed` (`Timely`). `Charges` needs the busy flag of
the charges to cover the read-back too. There is a lemma for each action.

### `ListPagesProofs`

Proved for any rows, page numbers, and numbers of loads and operations under way.

| theorem | statement |
|---|---|
| `ListAnswersQuery` | `Spec => []RowsAnswerQuery` |
| `RemovedStaysAway` | `Spec => []RemovedIsGone` |

They assume `KindsAssumption`, that the pages with a typed keyword drop late answers
and have no operations, which TLC evaluates for every page. Neither is inductive, as
each speaks of a page at rest. `Answering`: while no late
answer can be shown, every load that is awaited asks the query on the screen, and
if there is none the rows answer it. `Removals`: what was removed is not on the
server, nor in a list an operation answered since. `Removing`: while requests
have not overlapped, nothing that is awaited or shown brings such a row back.

### `RowDialogsProofs`

Proved for any rows.

| theorem | statement |
|---|---|
| `SavesAreOwn` | `Spec => []SavesOwnContent` |
| `DialogsKnowTheirRow` | `Spec => []KnowsItsRow` |
| `FormsCreateOnce` | `Spec => []CreatesOnce` |

`Attended`: as long as nothing was left alone, the one request under way is that of
the dialog on the screen, and the form remembers what it has created. `SoundInv`
holds in the dialogs that are sound by their making, whatever is left alone:
what the form holds, and what a load that is not dropped will put there, is of the
row the form is about. `CalmInv` says the same of all others until something
strays. The two facts about the pages this needs are assumptions of the module
(`ResumesAssumption`, `GuardedAssumption`), and TLC evaluates them for every
dialog of the web application.

## 10. Only model-checked

Every safety property a run checks is stated by a theorem of section 9. What is left:

- What the theorems assume of the schedule (`Partitioned`, `Serial`, `~Overlap`,
  `OneKeyAsked`) is a choice of the run's constants, and what becomes of the
  properties without it is for the runs: `hold_funds_race` refutes one.
- Liveness (`EveryCallReturns`, `OutcomeIsShown`, `LoadingEnds`) and ENABLED are
  beyond the prover and stay with TLC. So is what a recursive definition computes:
  no module that is proved about has one.

## 11. What a run does not say

`ListPages`, `RowDialogs`, `OrderScreens` and `PosDrafts` talk to a server that
serves each request at one moment; what the server's transactions do to each other
is the subject of the backend modules. `OrderPayment` joins the two for the customer's page.
`mixed`, `strayed`, `crossed`, `reordered`, `partly`, `twice`, `bypassed`, `overlapped` and
`drifted` are history variables: no code has them, and no action's guard reads them.

## 12. Not modelled, and why

- Order callback, cart and checkout, guest checkout on the server, customer
  wallet, payouts, invitations, complaint reminders, the event bus: within reach and not written
  yet, see the plan. Their hazards are listed.
- Free-form metadata, descriptions, notifications, mail, invoices and reports: no
  decision reads them back. The dispute decision is the exception and is modelled.
- Floating-point totals: amounts are integers of cents; the truncation in
  `int64(GrandTotal*100)` is recorded as a hazard.
- `status_from` of a withdrawal's audit (`seller_withdrawal_service.go:344` reads it
  after the row has been updated): nothing reads it back.
- The counts of `loadOrderShipmentProgressTx` are one read in the model; as
  statements of their own they may even see different rows, so the real system has more
  interleavings than `SyncCount` allows.
- Accounts and roles, catalog rows, reviews, search, marketing, settings, seed
  data on the server: rows written and listed with no rule that spans steps. The
  pages that show them are modelled.
- Sign-in, registration, set-up and invitations in the web application: one form,
  one request, a redirect. Settings, editors, selectors and drop zones: one load
  and one save, or parts of the dialogs modelled. Storefront presentation, layouts,
  routes, translations and API clients: no state that outlives a render.
- Deadlock between row locks is the database's to detect; it aborts one
  transaction, which is `Rollback`.

## 13. Plan

1. `SellerLedger`, `OrderFulfilment`, `OrderPayment` and the web modules, with
   their runs and the proofs above: done.
2. `CustomerWallet`, with the `FOR UPDATE` its rows are taken with, refining an abstract
   account in every schedule, as `SellerLedger` does only without overlap. A composition
   of order, settlement and wallet: what was paid is what was settled or refunded.
3. `GuestCheckout` (token lock and gateway failure), `Checkout` (order numbers,
   cart conversion), the callback, payouts, invitations and the event bus.
4. An abstract escrow for `OrderFulfilment`: the customer's money is with the
   platform, then with the seller or back, and a refinement as `LedgerIsAtomic`.
