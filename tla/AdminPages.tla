----------------------------- MODULE AdminPages -----------------------------
(***************************************************************************)
(* What each of the administrators' other pages (components/admin) does of *)
(* what ListPages and RowDialogs describe: one record for its loads,       *)
(* operations, view and table, and one for what fills, saves and frames    *)
(* its dialogs. A page that does as most do names the common record of     *)
(* PageKinds.                                                              *)
(***************************************************************************)
EXTENDS PageKinds


\* UsersPage, admin/users/UsersPage.tsx
UsersLoad == PlainLoad
UsersActs == [PlainActs EXCEPT !.restores = "typed"]
UsersView == [TableView EXCEPT !.deleted = TRUE]
UsersTable == PlainTable

\* UsersPage, admin/users/UsersPage.tsx
UsersFill == RowFill
UsersSave == RowSave
UsersFrame == PageFrame

\* CouponsPage, admin/coupons/CouponsPage.tsx
CouponsLoad == PlainLoad
CouponsActs == PlainActs
CouponsView == TableView
CouponsTable == PlainTable

\* CouponsPage, admin/coupons/CouponsPage.tsx
CouponsFill == RowFill
CouponsSave == [RowSave EXCEPT !.forgets = {"remove"}]
CouponsFrame == PageFrame

\* CouponFormModal, admin/coupons/CouponFormModal.tsx
CouponFormFill == RowFill
CouponFormFrame == PageFrame

\* CustomersPage, admin/customers/CustomersPage.tsx
CustomersLoad == PlainLoad
CustomersActs == [PlainActs EXCEPT !.restores = "shown"]
CustomersView == [TableView EXCEPT !.deleted = TRUE]
CustomersTable == PlainTable

\* CustomersPage, admin/customers/CustomersPage.tsx
CustomersFill == RowFill
CustomersSave == RowSave
CustomersFrame == PageFrame

\* OrdersPage, admin/orders/OrdersPage.tsx
OrdersLoad == PlainLoad
OrdersView == TableView
OrdersTable == PlainTable

\* ReviewsPage, admin/reviews/ReviewsPage.tsx
ReviewsLoad == PlainLoad
ReviewsActs == [PlainActs EXCEPT !.removes = FALSE]
ReviewsView == TableView
ReviewsTable == PlainTable

\* BusinessCouponsPage, admin/business-coupons/BusinessCouponsPage.tsx
BusinessCouponsLoad == PlainLoad
BusinessCouponsActs == PlainActs
BusinessCouponsView == TableView

\* BusinessCouponsPage, admin/business-coupons/BusinessCouponsPage.tsx
BusinessCouponsFill == RowFill
BusinessCouponsSave == [RowSave EXCEPT !.forgets = {"remove"}]
BusinessCouponsFrame == PageFrame

\* BusinessDiscountsPage, admin/business-discounts/BusinessDiscountsPage.tsx
BusinessDiscountsLoad == PlainLoad
BusinessDiscountsActs == PlainActs
BusinessDiscountsView == TableView

\* BusinessDiscountsPage, admin/business-discounts/BusinessDiscountsPage.tsx
BusinessDiscountsFill == RowFill
BusinessDiscountsSave == [RowSave EXCEPT !.forgets = {"remove"}]
BusinessDiscountsFrame == PageFrame

\* DiscountsPage, admin/discounts/DiscountsPage.tsx
DiscountsLoad == PlainLoad
DiscountsActs == PlainActs
DiscountsView == TableView
DiscountsTable == PlainTable

\* DiscountsPage, admin/discounts/DiscountsPage.tsx
DiscountsFill == RowFill
DiscountsSave == [RowSave EXCEPT !.forgets = {"remove"}]
DiscountsFrame == PageFrame

\* DiscountFormModal, admin/discounts/DiscountFormModal.tsx
DiscountFormFill == RowFill
DiscountFormFrame == PageFrame

\* AdminUsersPanel, admin/admins/AdminUsersPanel.tsx
AdminsLoad == PlainLoad
AdminsActs == [PlainActs EXCEPT !.restores = "typed"]
AdminsView == TableView
AdminsTable == PlainTable

\* AdminUsersPanel, admin/admins/AdminUsersPanel.tsx
AdminsFill == RowFill
AdminsSave == RowSave
AdminsFrame == PageFrame

\* RolesPermissionsPanel, admin/admins/RolesPermissionsPanel.tsx
RolesFill == [LateFill EXCEPT !.blanks = FALSE]
RolesSave == [RowSave EXCEPT !.after = "returns", !.forgets = {"remove"}]
RolesFrame == PlainFrame

\* SellerBalanceAdminPage, admin/seller-balance/SellerBalanceAdminPage.tsx
BalanceSummaryLoad == PlainLoad
BalanceSummaryView == WholeView
BalanceSummaryTable == OpenTable

\* SellerBalanceAdminPage, admin/seller-balance/SellerBalanceAdminPage.tsx
WithdrawalsLoad == PlainLoad
WithdrawalsActs == PlainActs
WithdrawalsView == TableView
WithdrawalsTable == PlainTable

\* SellerBalanceAdminPage, admin/seller-balance/SellerBalanceAdminPage.tsx
WithdrawalDecisionFill == RowFill
WithdrawalDecisionFrame == PlainFrame

\* SellerBalanceAdminPage, admin/seller-balance/SellerBalanceAdminPage.tsx
SettlementsLoad == PlainLoad
SettlementsActs == PlainActs
SettlementsView == TableView
SettlementsTable == PlainTable

\* SellerBalanceAdminPage, admin/seller-balance/SellerBalanceAdminPage.tsx
SettlementDecisionFill == RowFill
SettlementDecisionFrame == PlainFrame

\* NotificationSettingsPage, admin/notifications/NotificationSettingsPage.tsx
NotificationTemplatesLoad == PlainLoad
NotificationTemplatesView == WholeView
NotificationTemplatesTable == OpenTable

\* NotificationSettingsPage, admin/notifications/NotificationSettingsPage.tsx
NotificationTemplatesFill == RowFill
NotificationTemplatesSave == [EditSave EXCEPT !.steps = TRUE]
NotificationTemplatesFrame == PlainFrame

\* BusinessSubscribersManagementPage, admin/marketing/BusinessSubscribersManagementPage.tsx
SubscribersLoad == PlainLoad
SubscribersActs == PlainActs
SubscribersView == TableView
SubscribersTable == OpenTable

\* ComplaintReminderLogsPage, admin/complaints/ComplaintReminderLogsPage.tsx
ReminderLogsLoad == [PlainLoad EXCEPT !.resets = "never"]
ReminderLogsView == TableView
ReminderLogsTable == PlainTable

\* BusinessCarouselManagementPage, admin/marketing/BusinessCarouselManagementPage.tsx
CarouselsLoad == PlainLoad
CarouselsActs == PlainActs
CarouselsView == [TableView EXCEPT !.pages = FALSE]
CarouselsTable == OpenTable

\* BusinessCarouselManagementPage, admin/marketing/BusinessCarouselManagementPage.tsx
CarouselsFill == RowFill
CarouselsSave == [RowSave EXCEPT !.forgets = {"save"}]
CarouselsFrame == PlainFrame

\* ProductPickerModal, admin/coupons/ProductPickerModal.tsx
PickedProductsLoad == [PlainLoad EXCEPT !.resets = "after"]
PickedProductsView == TableView
PickedProductsTable == PlainTable

\* CustomerFormModal, admin/customers/CustomerFormModal.tsx
CustomerFormFill == RowFill
CustomerFormSave == [RowSave EXCEPT !.creates = "again"]
CustomerFormFrame == PageFrame

\* CustomerFormModal, admin/customers/CustomerFormModal.tsx
CustomerAddressesLoad == [PlainLoad EXCEPT !.drops = TRUE, !.clears = TRUE]
CustomerAddressesActs == PlainActs
CustomerAddressesTable == OpenTable

\* CustomerFormModal, admin/customers/CustomerFormModal.tsx
CustomerAddressFormFill == RowFill
CustomerAddressFormSave == [RowSave EXCEPT !.forgets = {"save"}]
CustomerAddressFormFrame == PlainFrame

\* PaymentProvidersPage, admin/payment-providers/PaymentProvidersPage.tsx
PaymentProvidersLoad == PlainLoad
PaymentProvidersView == WholeView
PaymentProvidersTable == PlainTable

\* PaymentProvidersPage, admin/payment-providers/PaymentProvidersPage.tsx
PaymentReportLoad == PlainLoad
PaymentReportView == [TableView EXCEPT !.pages = FALSE]
PaymentReportTable == OpenTable

\* PaymentMethodsSection, admin/payment-providers/PaymentMethodsSection.tsx
PaymentMethodsLoad == PlainLoad
PaymentMethodsActs == PlainActs
PaymentMethodsView == WholeView
PaymentMethodsTable == PlainTable

\* PaymentProviderForm, admin/payment-providers/PaymentProviderForm.tsx
PaymentProviderFill == [LateFill EXCEPT !.blanks = FALSE, !.waits = TRUE]
PaymentProviderSave == [EditSave EXCEPT !.forgets = {}, !.creates = "again"]
PaymentProviderFrame == PlainFrame

\* PaymentMethodModal, admin/payment-providers/PaymentMethodForm.tsx
PaymentMethodFill == RowFill
PaymentMethodSave == [EditSave EXCEPT !.forgets = {}, !.creates = "again"]
PaymentMethodFrame == PlainFrame

\* The list pages.
AdminLists == {
  [load |-> UsersLoad, acts |-> UsersActs, view |-> UsersView, table |-> UsersTable],
  [load |-> CouponsLoad, acts |-> CouponsActs, view |-> CouponsView, table |-> CouponsTable],
  [load |-> CustomersLoad, acts |-> CustomersActs, view |-> CustomersView, table |-> CustomersTable],
  [load |-> OrdersLoad, acts |-> NoActs, view |-> OrdersView, table |-> OrdersTable],
  [load |-> ReviewsLoad, acts |-> ReviewsActs, view |-> ReviewsView, table |-> ReviewsTable],
  [load |-> BusinessCouponsLoad, acts |-> BusinessCouponsActs, view |-> BusinessCouponsView, table |-> CouponsTable],
  [load |-> BusinessDiscountsLoad, acts |-> BusinessDiscountsActs, view |-> BusinessDiscountsView, table |-> DiscountsTable],
  [load |-> DiscountsLoad, acts |-> DiscountsActs, view |-> DiscountsView, table |-> DiscountsTable],
  [load |-> AdminsLoad, acts |-> AdminsActs, view |-> AdminsView, table |-> AdminsTable],
  [load |-> BalanceSummaryLoad, acts |-> NoActs, view |-> BalanceSummaryView, table |-> BalanceSummaryTable],
  [load |-> WithdrawalsLoad, acts |-> WithdrawalsActs, view |-> WithdrawalsView, table |-> WithdrawalsTable],
  [load |-> SettlementsLoad, acts |-> SettlementsActs, view |-> SettlementsView, table |-> SettlementsTable],
  [load |-> NotificationTemplatesLoad, acts |-> NoActs, view |-> NotificationTemplatesView, table |-> NotificationTemplatesTable],
  [load |-> SubscribersLoad, acts |-> SubscribersActs, view |-> SubscribersView, table |-> SubscribersTable],
  [load |-> ReminderLogsLoad, acts |-> NoActs, view |-> ReminderLogsView, table |-> ReminderLogsTable],
  [load |-> CarouselsLoad, acts |-> CarouselsActs, view |-> CarouselsView, table |-> CarouselsTable],
  [load |-> PickedProductsLoad, acts |-> NoActs, view |-> PickedProductsView, table |-> PickedProductsTable],
  [load |-> CustomerAddressesLoad, acts |-> CustomerAddressesActs, view |-> WholeView, table |-> CustomerAddressesTable],
  [load |-> PaymentProvidersLoad, acts |-> NoActs, view |-> PaymentProvidersView, table |-> PaymentProvidersTable],
  [load |-> PaymentReportLoad, acts |-> NoActs, view |-> PaymentReportView, table |-> PaymentReportTable],
  [load |-> PaymentMethodsLoad, acts |-> PaymentMethodsActs, view |-> PaymentMethodsView, table |-> PaymentMethodsTable]
}

\* The dialogs.
AdminDialogs == {
  [fill |-> UsersFill, save |-> UsersSave, frame |-> UsersFrame],
  [fill |-> CouponsFill, save |-> CouponsSave, frame |-> CouponsFrame],
  [fill |-> CouponFormFill, save |-> [RowSave EXCEPT !.forgets = {"remove"}], frame |-> CouponFormFrame],
  [fill |-> CustomersFill, save |-> CustomersSave, frame |-> CustomersFrame],
  [fill |-> BusinessCouponsFill, save |-> BusinessCouponsSave, frame |-> BusinessCouponsFrame],
  [fill |-> BusinessDiscountsFill, save |-> BusinessDiscountsSave, frame |-> BusinessDiscountsFrame],
  [fill |-> DiscountsFill, save |-> DiscountsSave, frame |-> DiscountsFrame],
  [fill |-> DiscountFormFill, save |-> [RowSave EXCEPT !.forgets = {"remove"}], frame |-> DiscountFormFrame],
  [fill |-> AdminsFill, save |-> AdminsSave, frame |-> AdminsFrame],
  [fill |-> RolesFill, save |-> RolesSave, frame |-> RolesFrame],
  [fill |-> WithdrawalDecisionFill, save |-> EditSave, frame |-> WithdrawalDecisionFrame],
  [fill |-> SettlementDecisionFill, save |-> EditSave, frame |-> SettlementDecisionFrame],
  [fill |-> NotificationTemplatesFill, save |-> NotificationTemplatesSave, frame |-> NotificationTemplatesFrame],
  [fill |-> CarouselsFill, save |-> CarouselsSave, frame |-> CarouselsFrame],
  [fill |-> CustomerFormFill, save |-> CustomerFormSave, frame |-> CustomerFormFrame],
  [fill |-> CustomerAddressFormFill, save |-> CustomerAddressFormSave, frame |-> CustomerAddressFormFrame],
  [fill |-> PaymentProviderFill, save |-> PaymentProviderSave, frame |-> PaymentProviderFrame],
  [fill |-> PaymentMethodFill, save |-> PaymentMethodSave, frame |-> PaymentMethodFrame]
}
=============================================================================
