------------------------------ MODULE PosPages ------------------------------
(***************************************************************************)
(* What the two point-of-sale pages, the administrators' and the members', *)
(* do of what PosDrafts describes: an operation's busy flag, the flags its *)
(* button waits for, whether it first makes sure of a draft, the requests  *)
(* it makes, and where its answer goes; and how a page reads its draft     *)
(* back.                                                                   *)
(***************************************************************************)

Flags == {"saving", "coupon", "charge"}

SaleOp == [
  flag: Flags,            \* the busy flag that is up while it is under way
  waits: SUBSET Flags,    \* the flags that disable its button
  \* it starts another draft, first makes sure of one (ensureDraftOrder), or
  \* works on the one there is
  starts: {"new", "ensure", "work"},
  needs: BOOLEAN,         \* it is offered only where a draft is shown
  answers: BOOLEAN,       \* its answer is the draft that is shown next
  leaves: BOOLEAN,        \* it ends the sale and leaves the page
  \* it is one request, or one for each item of the draft, of which there must
  \* be some or may be none
  times: {"once", "some", "any"},
  replaces: BOOLEAN]      \* its request replaces the list of extra charges

PosPage == [
  \* what is read back: the draft worked on, or the one known to the handler
  reads: {"order", "known"},
  forgets: BOOLEAN,       \* a failed load forgets the draft
  changes: BOOLEAN,       \* another business starts anew
  ops: SUBSET SaleOp]

-----------------------------------------------------------------------------
(* The administrators' page. *)

AdminAddLine ==
  [flag |-> "saving", waits |-> {"saving"},
   starts |-> "ensure", needs |-> FALSE, answers |-> FALSE, leaves |-> FALSE,
   times |-> "once", replaces |-> FALSE]
AdminRemoveLine ==
  [flag |-> "saving", waits |-> {},
   starts |-> "work", needs |-> TRUE, answers |-> FALSE, leaves |-> FALSE,
   times |-> "once", replaces |-> FALSE]
AdminRemoveItemDiscount ==
  [flag |-> "saving", waits |-> {},
   starts |-> "work", needs |-> TRUE, answers |-> FALSE, leaves |-> FALSE,
   times |-> "once", replaces |-> FALSE]
AdminApplyItemDiscount == AdminRemoveLine
AdminSyncFields == AdminRemoveLine
AdminFields == AdminSyncFields
AdminApplyCoupon ==
  [flag |-> "coupon", waits |-> {},
   starts |-> "work", needs |-> TRUE, answers |-> FALSE, leaves |-> FALSE,
   times |-> "once", replaces |-> FALSE]
AdminRemoveCoupon ==
  [flag |-> "coupon", waits |-> {"coupon"},
   starts |-> "work", needs |-> TRUE, answers |-> FALSE, leaves |-> FALSE,
   times |-> "once", replaces |-> FALSE]
AdminAddCharge ==
  [flag |-> "charge", waits |-> {"charge", "saving"},
   starts |-> "ensure", needs |-> FALSE, answers |-> FALSE, leaves |-> FALSE,
   times |-> "once", replaces |-> TRUE]
AdminRemoveCharge ==
  [flag |-> "charge", waits |-> {"charge", "saving"},
   starts |-> "ensure", needs |-> TRUE, answers |-> FALSE, leaves |-> FALSE,
   times |-> "once", replaces |-> TRUE]
AdminClear ==
  [flag |-> "saving", waits |-> {"saving"},
   starts |-> "work", needs |-> TRUE, answers |-> FALSE, leaves |-> FALSE,
   times |-> "any", replaces |-> FALSE]
AdminFinalize ==
  [flag |-> "saving", waits |-> {"saving"},
   starts |-> "work", needs |-> TRUE, answers |-> FALSE, leaves |-> TRUE,
   times |-> "once", replaces |-> FALSE]

\* It reads the draft the operation worked on, and keeps what it shows when
\* that fails. Its business is of no consequence once there is a draft.
AdminPos == [reads |-> "order", forgets |-> FALSE, changes |-> FALSE,
  ops |-> {AdminAddLine, AdminRemoveLine, AdminRemoveItemDiscount,
           AdminApplyItemDiscount, AdminSyncFields, AdminFields,
           AdminApplyCoupon, AdminRemoveCoupon, AdminAddCharge,
           AdminRemoveCharge, AdminClear, AdminFinalize}]

(* The members' page. *)

MemberNewDraft ==
  [flag |-> "saving", waits |-> {"saving"},
   starts |-> "new", needs |-> FALSE, answers |-> FALSE, leaves |-> FALSE,
   times |-> "once", replaces |-> FALSE]
MemberAddLine ==
  [flag |-> "saving", waits |-> {"saving"},
   starts |-> "ensure", needs |-> FALSE, answers |-> FALSE, leaves |-> FALSE,
   times |-> "once", replaces |-> FALSE]
MemberRemoveLine ==
  [flag |-> "saving", waits |-> {},
   starts |-> "work", needs |-> TRUE, answers |-> FALSE, leaves |-> FALSE,
   times |-> "once", replaces |-> FALSE]
MemberApplyItemDiscount == MemberRemoveLine
MemberRemoveItemDiscount == MemberRemoveLine
MemberApplyCoupon ==
  [flag |-> "coupon", waits |-> {},
   starts |-> "ensure", needs |-> FALSE, answers |-> FALSE, leaves |-> FALSE,
   times |-> "once", replaces |-> FALSE]
MemberRemoveCoupon ==
  [flag |-> "coupon", waits |-> {"coupon"},
   starts |-> "work", needs |-> TRUE, answers |-> FALSE, leaves |-> FALSE,
   times |-> "once", replaces |-> FALSE]
MemberAddCharge ==
  [flag |-> "charge", waits |-> {"charge", "saving"},
   starts |-> "ensure", needs |-> FALSE, answers |-> TRUE, leaves |-> FALSE,
   times |-> "once", replaces |-> TRUE]
MemberRemoveCharge ==
  [flag |-> "charge", waits |-> {"charge", "saving"},
   starts |-> "work", needs |-> TRUE, answers |-> TRUE, leaves |-> FALSE,
   times |-> "once", replaces |-> TRUE]
MemberClear ==
  [flag |-> "saving", waits |-> {"saving"},
   starts |-> "work", needs |-> TRUE, answers |-> FALSE, leaves |-> FALSE,
   times |-> "some", replaces |-> FALSE]
MemberSelectCustomer ==
  [flag |-> "saving", waits |-> {},
   starts |-> "work", needs |-> TRUE, answers |-> FALSE, leaves |-> FALSE,
   times |-> "once", replaces |-> FALSE]
MemberClearCustomer ==
  [flag |-> "saving", waits |-> {"saving"},
   starts |-> "work", needs |-> TRUE, answers |-> FALSE, leaves |-> FALSE,
   times |-> "once", replaces |-> FALSE]
MemberFinalize ==
  [flag |-> "saving", waits |-> {"saving"},
   starts |-> "ensure", needs |-> TRUE, answers |-> FALSE, leaves |-> TRUE,
   times |-> "once", replaces |-> FALSE]

\* It reads the draft that was selected when the button was pressed
\* (reloadCurrentOrder), forgets the draft when that fails, and starts anew for
\* another business.
MemberPos == [reads |-> "known", forgets |-> TRUE, changes |-> TRUE,
  ops |-> {MemberNewDraft, MemberAddLine, MemberRemoveLine, MemberApplyItemDiscount,
           MemberRemoveItemDiscount, MemberApplyCoupon, MemberRemoveCoupon,
           MemberAddCharge, MemberRemoveCharge, MemberClear,
           MemberSelectCustomer, MemberClearCustomer, MemberFinalize}]

AllPages == {AdminPos, MemberPos}
=============================================================================
