---------------------------- MODULE MemberPages -----------------------------
(***************************************************************************)
(* What each of the members' pages (components/member), where sellers run  *)
(* their businesses does of what ListPages and RowDialogs describe: one    *)
(* record for its loads, operations, view and table, and one for what      *)
(* fills, saves and frames its dialogs. A page that does as most do names  *)
(* the common record of PageKinds.                                         *)
(***************************************************************************)
EXTENDS PageKinds


\* MemberVariationsPage, member/variations/VariationsPage.tsx
MemberVariationsLoad == PlainLoad
MemberVariationsActs == PlainActs
MemberVariationsView == [TableView EXCEPT !.pages = FALSE]
MemberVariationsTable == OpenTable

\* MemberVariationsPage, member/variations/VariationsPage.tsx
MemberVariationsFill == RowFill
MemberVariationsSave == RowSave
MemberVariationsFrame == PageFrame

\* MemberVariationsPage, member/variations/VariationsPage.tsx
MemberVariationProductsLoad == PlainLoad
MemberVariationProductsView == [TableView EXCEPT !.pages = FALSE]

\* MemberVariationsPage, member/variations/VariationsPage.tsx
MemberVariationAssetsFill == LateFill
MemberVariationAssetsSave == EditSave
MemberVariationAssetsFrame == PlainFrame

\* MemberProductsPage, member/products/ProductsPage.tsx
MemberProductsLoad == PlainLoad
MemberProductsActs == PlainActs
MemberProductsView == TableView
MemberProductsTable == PlainTable

\* MemberProductsPage, member/products/ProductsPage.tsx
MemberProductsFill == FetchFill
MemberProductsSave == [RowSave EXCEPT !.creates = "once", !.forgets = {"remove"}]
MemberProductsFrame == PageFrame

\* ProductFormModal, member/products/ProductFormModal.tsx
MemberProductCategoriesFill == LateFill
MemberProductCategoriesSave == [UploadSave EXCEPT !.creates = "once"]
MemberProductCategoriesFrame == PlainFrame

\* ProductFormModal, member/products/ProductFormModal.tsx
MemberProductFilesFill == [LateFill EXCEPT !.guarded = TRUE]
MemberProductFilesSave == [TranslationSave EXCEPT !.steps = TRUE]
MemberProductFilesFrame == PlainFrame

\* BusinessAssetsPage, member/business-assets/BusinessAssetsPage.tsx
MemberBusinessAssetsLoad == PlainLoad
MemberBusinessAssetsActs == PlainActs
MemberBusinessAssetsView == [TableView EXCEPT !.pages = FALSE]

\* BusinessesPage, member/businesses/BusinessesPage.tsx
MemberBusinessesLoad == PlainLoad
MemberBusinessesActs == PlainActs
MemberBusinessesView == ButtonsView
MemberBusinessesTable == PlainTable

\* BusinessesPage, member/businesses/BusinessesPage.tsx
MemberBusinessesFill == RowFill
MemberBusinessesSave == [RowSave EXCEPT !.forgets = {"remove"}, !.creates = "again"]
MemberBusinessesFrame == PageFrame

\* BusinessFormModal, member/businesses/BusinessFormModal.tsx
MemberBusinessFormFill == RowFill
MemberBusinessFormSave == [RowSave EXCEPT !.forgets = {"remove"}]
MemberBusinessFormFrame == PageFrame

\* MemberBusinessDiscountsPage, member/business-discounts/BusinessDiscountsPage.tsx
MemberBusinessDiscountsLoad == [PlainLoad EXCEPT !.clears = FALSE]
MemberBusinessDiscountsActs == PlainActs
MemberBusinessDiscountsView == TableView
MemberBusinessDiscountsTable == PlainTable

\* MemberBusinessDiscountsPage, member/business-discounts/BusinessDiscountsPage.tsx
MemberBusinessDiscountsFill == RowFill
MemberBusinessDiscountsSave == [RowSave EXCEPT !.forgets = {"remove"}]
MemberBusinessDiscountsFrame == PageFrame

\* MemberBusinessCouponsPage, member/business-coupons/BusinessCouponsPage.tsx
MemberBusinessCouponsLoad == [PlainLoad EXCEPT !.clears = FALSE]
MemberBusinessCouponsActs == PlainActs
MemberBusinessCouponsView == TableView
MemberBusinessCouponsTable == PlainTable

\* MemberBusinessCouponsPage, member/business-coupons/BusinessCouponsPage.tsx
MemberBusinessCouponsFill == RowFill
MemberBusinessCouponsSave == [RowSave EXCEPT !.forgets = {"remove"}]
MemberBusinessCouponsFrame == PageFrame

\* MemberOrdersPage, member/orders/OrdersPage.tsx
MemberOrdersLoad == PlainLoad
MemberOrdersView == TableView
MemberOrdersTable == PlainTable

\* BusinessDisclaimersManager, member/businesses/BusinessDisclaimersManager.tsx
MemberDisclaimersLoad == [PlainLoad EXCEPT !.clears = TRUE]
MemberDisclaimersActs == PlainActs
MemberDisclaimersView == [TableView EXCEPT !.pages = FALSE]
MemberDisclaimersTable == PlainTable

\* BusinessDisclaimersManager, member/businesses/BusinessDisclaimersManager.tsx
MemberDisclaimersFill == RowFill
MemberDisclaimersSave == [RowSave EXCEPT !.forgets = {"save"}]
MemberDisclaimersFrame == PlainFrame

\* MemberAttributesPage, member/attributes/AttributesPage.tsx
MemberAttributeGroupsLoad == [PlainLoad EXCEPT !.clears = TRUE]
MemberAttributeGroupsView == [TableView EXCEPT !.pages = FALSE]

\* NotificationGroupManager, member/notification-groups/NotificationGroupManager.tsx
MemberNotificationGroupsLoad == PlainLoad
MemberNotificationGroupsActs == [PlainActs EXCEPT !.again = "patch"]
MemberNotificationGroupsView == [TableView EXCEPT !.pages = FALSE]
MemberNotificationGroupsTable == PlainTable

\* GroupFormModal, member/notification-groups/NotificationGroupManager.tsx
MemberNotificationGroupsFill == RowFill
MemberNotificationGroupsSave == [RowSave EXCEPT !.forgets = {}]
MemberNotificationGroupsFrame == PlainFrame

\* ReportsPage, member/reports/ReportsPage.tsx
MemberReportOrdersLoad == [PlainLoad EXCEPT !.drops = TRUE, !.clears = TRUE]
MemberReportOrdersView == [TableView EXCEPT !.pages = FALSE]
MemberReportOrdersTable == PlainTable

\* MemberDashboardPage, member/dashboard/MemberDashboardPage.tsx
MemberDashboardOrdersLoad == [PlainLoad EXCEPT !.drops = TRUE, !.clears = TRUE]
MemberDashboardOrdersView == [TableView EXCEPT !.pages = FALSE]
MemberDashboardOrdersTable == PlainTable

\* MemberDashboardPage, member/dashboard/MemberDashboardPage.tsx
MemberDashboardBusinessesLoad == [PlainLoad EXCEPT !.drops = TRUE, !.clears = TRUE]
MemberDashboardBusinessesView == WholeView
MemberDashboardBusinessesTable == PlainTable

\* TeamSettingsPage, member/team/TeamSettingsPage.tsx
MemberTeamMembersLoad == [PlainLoad EXCEPT !.clears = TRUE]
MemberTeamMembersActs == PlainActs
MemberTeamMembersView == TableView
MemberTeamMembersTable == PlainTable

\* PayoutsPage, member/settings/PayoutsPage.tsx
MemberPayoutAccountsLoad == PlainLoad
MemberPayoutAccountsActs == PlainActs
MemberPayoutAccountsView == [TableView EXCEPT !.pages = FALSE]
MemberPayoutAccountsTable == OpenTable

\* PayoutsPage, member/settings/PayoutsPage.tsx
MemberPayoutsLoad == PlainLoad
MemberPayoutsActs == [PlainActs EXCEPT !.removes = FALSE]
MemberPayoutsTable == OpenTable

\* The list pages.
MemberLists == {
  [load |-> MemberVariationsLoad, acts |-> MemberVariationsActs, view |-> MemberVariationsView, table |-> MemberVariationsTable],
  [load |-> MemberVariationProductsLoad, acts |-> NoActs, view |-> MemberVariationProductsView, table |-> OpenTable],
  [load |-> MemberProductsLoad, acts |-> MemberProductsActs, view |-> MemberProductsView, table |-> MemberProductsTable],
  [load |-> MemberBusinessAssetsLoad, acts |-> MemberBusinessAssetsActs, view |-> MemberBusinessAssetsView, table |-> OpenTable],
  [load |-> MemberBusinessesLoad, acts |-> MemberBusinessesActs, view |-> MemberBusinessesView, table |-> MemberBusinessesTable],
  [load |-> MemberBusinessDiscountsLoad, acts |-> MemberBusinessDiscountsActs, view |-> MemberBusinessDiscountsView, table |-> MemberBusinessDiscountsTable],
  [load |-> MemberBusinessCouponsLoad, acts |-> MemberBusinessCouponsActs, view |-> MemberBusinessCouponsView, table |-> MemberBusinessCouponsTable],
  [load |-> MemberOrdersLoad, acts |-> NoActs, view |-> MemberOrdersView, table |-> MemberOrdersTable],
  [load |-> MemberDisclaimersLoad, acts |-> MemberDisclaimersActs, view |-> MemberDisclaimersView, table |-> MemberDisclaimersTable],
  [load |-> MemberAttributeGroupsLoad, acts |-> NoActs, view |-> MemberAttributeGroupsView, table |-> PlainTable],
  [load |-> MemberNotificationGroupsLoad, acts |-> MemberNotificationGroupsActs, view |-> MemberNotificationGroupsView, table |-> MemberNotificationGroupsTable],
  [load |-> MemberReportOrdersLoad, acts |-> NoActs, view |-> MemberReportOrdersView, table |-> MemberReportOrdersTable],
  [load |-> MemberDashboardOrdersLoad, acts |-> NoActs, view |-> MemberDashboardOrdersView, table |-> MemberDashboardOrdersTable],
  [load |-> MemberDashboardBusinessesLoad, acts |-> NoActs, view |-> MemberDashboardBusinessesView, table |-> MemberDashboardBusinessesTable],
  [load |-> MemberTeamMembersLoad, acts |-> MemberTeamMembersActs, view |-> MemberTeamMembersView, table |-> MemberTeamMembersTable],
  [load |-> MemberPayoutAccountsLoad, acts |-> MemberPayoutAccountsActs, view |-> MemberPayoutAccountsView, table |-> MemberPayoutAccountsTable],
  [load |-> MemberPayoutsLoad, acts |-> MemberPayoutsActs, view |-> [TableView EXCEPT !.pages = FALSE], table |-> MemberPayoutsTable]
}

\* The dialogs.
MemberDialogs == {
  [fill |-> MemberVariationsFill, save |-> MemberVariationsSave, frame |-> MemberVariationsFrame],
  [fill |-> MemberVariationAssetsFill, save |-> MemberVariationAssetsSave, frame |-> MemberVariationAssetsFrame],
  [fill |-> MemberProductsFill, save |-> MemberProductsSave, frame |-> MemberProductsFrame],
  [fill |-> MemberProductCategoriesFill, save |-> MemberProductCategoriesSave, frame |-> MemberProductCategoriesFrame],
  [fill |-> MemberProductFilesFill, save |-> MemberProductFilesSave, frame |-> MemberProductFilesFrame],
  [fill |-> MemberBusinessesFill, save |-> MemberBusinessesSave, frame |-> MemberBusinessesFrame],
  [fill |-> MemberBusinessFormFill, save |-> MemberBusinessFormSave, frame |-> MemberBusinessFormFrame],
  [fill |-> MemberBusinessDiscountsFill, save |-> MemberBusinessDiscountsSave, frame |-> MemberBusinessDiscountsFrame],
  [fill |-> MemberBusinessCouponsFill, save |-> MemberBusinessCouponsSave, frame |-> MemberBusinessCouponsFrame],
  [fill |-> MemberDisclaimersFill, save |-> MemberDisclaimersSave, frame |-> MemberDisclaimersFrame],
  [fill |-> MemberNotificationGroupsFill, save |-> MemberNotificationGroupsSave, frame |-> MemberNotificationGroupsFrame]
}
=============================================================================
