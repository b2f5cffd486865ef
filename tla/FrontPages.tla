----------------------------- MODULE FrontPages -----------------------------
(***************************************************************************)
(* What each of the pages of visitors and customers (components/front,     *)
(* components/customer) and what all share does of what ListPages and      *)
(* RowDialogs describe: one record for its loads, operations, view and     *)
(* table, and one for what fills, saves and frames its dialogs. A page     *)
(* that does as most do names the common record of PageKinds.              *)
(***************************************************************************)
EXTENDS PageKinds


\* ComplaintThreadPage, complaints/ComplaintThreadPage.tsx
ComplaintCasesLoad == [PlainLoad EXCEPT !.clears = TRUE]
ComplaintCasesActs == [PlainActs EXCEPT !.removes = FALSE]
ComplaintCasesView == WholeView
ComplaintCasesTable == PlainTable

\* ComplaintThreadPage, complaints/ComplaintThreadPage.tsx
ComplaintThreadFill == [LateFill EXCEPT !.blanks = FALSE]
ComplaintThreadSave == [EditSave EXCEPT !.after = "returns", !.forgets = {}]
ComplaintThreadFrame == PlainFrame

\* ComplaintListPage, complaints/ComplaintListPage.tsx
ComplaintsLoad == [PlainLoad EXCEPT !.drops = TRUE, !.clears = TRUE]
ComplaintsView == WholeView
ComplaintsTable == PlainTable

\* CartsPage, front/CartsPage.tsx
CartsLoad == [PlainLoad EXCEPT !.clears = TRUE]
CartsActs == AnswerActs
CartsView == [TableView EXCEPT !.pages = FALSE]
CartsTable == PlainTable

\* CartPage, front/CartPage.tsx
CartLoad == PlainLoad
CartActs == AnswerActs
CartView == WholeView
CartTable == PlainTable

\* CustomerDashboard, customer/CustomerDashboard.tsx
MyOrdersLoad == [PlainLoad EXCEPT !.drops = TRUE, !.clears = TRUE]
MyOrdersView == WholeView
MyOrdersTable == PlainTable

\* CustomerDashboard, customer/CustomerDashboard.tsx
MyCartsLoad == [PlainLoad EXCEPT !.drops = TRUE, !.clears = TRUE]
MyCartsView == WholeView
MyCartsTable == PlainTable

\* CustomerDashboard, customer/CustomerDashboard.tsx
MyAddressesLoad == [PlainLoad EXCEPT !.drops = TRUE, !.clears = TRUE]
MyAddressesActs == PlainActs
MyAddressesView == WholeView
MyAddressesTable == OpenTable

\* CustomerDashboard, customer/CustomerDashboard.tsx
MyAddressFill == RowFill
MyAddressSave == [RowSave EXCEPT !.forgets = {"save"}]
MyAddressFrame == PlainFrame

\* CustomerWalletSection, customer/wallet/CustomerWalletSection.tsx
WalletWithdrawalsLoad == PlainLoad
WalletWithdrawalsView == TableView
WalletWithdrawalsTable == PlainTable

\* CategoryStoreFrontPage, front/categories/CategoryStoreFrontPage.tsx
CategoryProductsLoad == [PlainLoad EXCEPT !.clears = TRUE]
CategoryProductsView == TableView
CategoryProductsTable == PlainTable

\* StoreFrontProducts, front/StoreFrontProducts.tsx
StoreProductsLoad == [PlainLoad EXCEPT !.drops = TRUE]
StoreProductsView == [WholeView EXCEPT !.types = TRUE]
StoreProductsTable == PlainTable

\* ProductDetailPage, front/business/ProductDetailPage.tsx
ProductVariationsLoad == [PlainLoad EXCEPT !.drops = TRUE]

\* ProductDetailPage, front/business/ProductDetailPage.tsx
ProductReviewsLoad == [PlainLoad EXCEPT !.drops = TRUE, !.clears = TRUE]

\* The list pages.
FrontLists == {
  [load |-> ComplaintCasesLoad, acts |-> ComplaintCasesActs, view |-> ComplaintCasesView, table |-> ComplaintCasesTable],
  [load |-> ComplaintsLoad, acts |-> NoActs, view |-> ComplaintsView, table |-> ComplaintsTable],
  [load |-> CartsLoad, acts |-> CartsActs, view |-> CartsView, table |-> CartsTable],
  [load |-> CartLoad, acts |-> CartActs, view |-> CartView, table |-> CartTable],
  [load |-> MyOrdersLoad, acts |-> NoActs, view |-> MyOrdersView, table |-> MyOrdersTable],
  [load |-> MyCartsLoad, acts |-> NoActs, view |-> MyCartsView, table |-> MyCartsTable],
  [load |-> MyAddressesLoad, acts |-> MyAddressesActs, view |-> MyAddressesView, table |-> MyAddressesTable],
  [load |-> WalletWithdrawalsLoad, acts |-> NoActs, view |-> WalletWithdrawalsView, table |-> WalletWithdrawalsTable],
  [load |-> CategoryProductsLoad, acts |-> NoActs, view |-> CategoryProductsView, table |-> CategoryProductsTable],
  [load |-> StoreProductsLoad, acts |-> NoActs, view |-> StoreProductsView, table |-> StoreProductsTable],
  [load |-> ProductVariationsLoad, acts |-> NoActs, view |-> WholeView, table |-> OpenTable],
  [load |-> ProductReviewsLoad, acts |-> NoActs, view |-> WholeView, table |-> OpenTable]
}

\* The dialogs.
FrontDialogs == {
  [fill |-> ComplaintThreadFill, save |-> ComplaintThreadSave, frame |-> ComplaintThreadFrame],
  [fill |-> MyAddressFill, save |-> MyAddressSave, frame |-> MyAddressFrame]
}
=============================================================================
