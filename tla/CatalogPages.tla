---------------------------- MODULE CatalogPages ----------------------------
(***************************************************************************)
(* What each of the administrators' pages of the catalog: products,        *)
(* categories, variations, attributes, tags, assets and businesses         *)
(* (components/admin) does of what ListPages and RowDialogs describe: one  *)
(* record for its loads, operations, view and table, and one for what      *)
(* fills, saves and frames its dialogs. A page that does as most do names  *)
(* the common record of PageKinds.                                         *)
(***************************************************************************)
EXTENDS PageKinds


\* CategoriesPage, admin/categories/CategoriesPage.tsx
CategoriesLoad == PlainLoad
CategoriesActs == [PlainActs EXCEPT !.restores = "shown"]
CategoriesView == [ButtonsView EXCEPT !.deleted = TRUE]
CategoriesTable == PlainTable

\* CategoriesPage, admin/categories/CategoriesPage.tsx
CategoriesFill == RowFill
CategoriesSave == RowSave
CategoriesFrame == PageFrame

\* BusinessesPage, admin/businesses/BusinessesPage.tsx
BusinessesLoad == PlainLoad
BusinessesActs == PlainActs
BusinessesView == ButtonsView
BusinessesTable == PlainTable

\* BusinessFormModal, admin/businesses/BusinessFormModal.tsx
BusinessFormFill == RowFill
BusinessFormSave == UploadSave
BusinessFormFrame == PageFrame

\* EntityCrudPage, admin/entities/EntityCrudPage.tsx
EntitiesLoad == PlainLoad
EntitiesActs == PlainActs
EntitiesView == ButtonsView

\* EntityCrudPage, admin/entities/EntityCrudPage.tsx
EntitiesFill == RowFill
EntitiesSave == RowSave
EntitiesFrame == PageFrame

\* EntityFormModal, admin/entities/EntityFormModal.tsx
EntityFormFill == RowFill
EntityFormSave == RowSave
EntityFormFrame == PageFrame

\* ProductsPage, admin/products/ProductsPage.tsx
ProductsLoad == PlainLoad
ProductsActs == PlainActs
ProductsView == TableView
ProductsTable == PlainTable

\* ProductFormModal, admin/products/ProductFormModal.tsx
ProductFormFill == [LateFill EXCEPT !.blanks = TRUE]
ProductFormSave == UploadSave
ProductFormFrame == PageFrame

\* ProductFormModal, admin/products/ProductFormModal.tsx
ProductCategoriesFill == [LateFill EXCEPT !.blanks = TRUE]
ProductCategoriesFrame == PageFrame

\* CategoryFormModal, admin/categories/CategoryFormModal.tsx
CategoryFormFill == RowFill
CategoryFormSave == RowSave
CategoryFormFrame == PageFrame

\* CategoryTranslationsModal, admin/categories/CategoryTranslationsModal.tsx
CategoryTranslationsFill == TranslationFill
CategoryTranslationsSave == TranslationSave
CategoryTranslationsFrame == PlainFrame

\* BusinessTranslationsModal, admin/businesses/BusinessTranslationsModal.tsx
BusinessTranslationsFill == TranslationFill
BusinessTranslationsSave == TranslationSave
BusinessTranslationsFrame == PlainFrame

\* ProductTranslationsModal, admin/products/ProductTranslationsModal.tsx
ProductTranslationsFill == TranslationFill
ProductTranslationsSave == TranslationSave
ProductTranslationsFrame == PlainFrame

\* TagsPage, admin/tags/TagsPage.tsx
TagsFill == RowFill

\* AttributeGroupsPage, admin/attribute-groups/AttributeGroupsPage.tsx
AttributeGroupsFill == RowFill

\* AttributesPage, admin/attributes/AttributesPage.tsx
AttributesLoad == PlainLoad
AttributesView == ButtonsView

\* AssetsPage, admin/assets/AssetsPage.tsx
AssetsLoad == PlainLoad
AssetsActs == PlainActs
AssetsView == ButtonsView
AssetsTable == PlainTable

\* BusinessAssetsPage, admin/business-assets/BusinessAssetsPage.tsx
BusinessAssetsLoad == PlainLoad
BusinessAssetsActs == PlainActs
BusinessAssetsView == [TableView EXCEPT !.pages = FALSE]

\* VariationsPage, admin/variations/VariationsPage.tsx
VariationsLoad == PlainLoad
VariationsActs == PlainActs
VariationsView == [TableView EXCEPT !.pages = FALSE]
VariationsTable == OpenTable

\* VariationsPage, admin/variations/VariationsPage.tsx
VariationsFill == RowFill
VariationsSave == RowSave
VariationsFrame == PageFrame

\* VariationsPage, admin/variations/VariationsPage.tsx
VariationProductsLoad == PlainLoad
VariationProductsView == [TableView EXCEPT !.pages = FALSE]

\* VariationsPage, admin/variations/VariationsPage.tsx
VariationAssetsFill == LateFill
VariationAssetsSave == EditSave
VariationAssetsFrame == PlainFrame

\* BusinessMembersPage, admin/businesses/BusinessMembersPage.tsx
BusinessMembersLoad == [PlainLoad EXCEPT !.clears = TRUE]
BusinessMembersActs == [PlainActs EXCEPT !.removes = FALSE]
BusinessMembersView == TableView
BusinessMembersTable == PlainTable

\* BusinessInviteModal, admin/businesses/BusinessInviteModal.tsx
BusinessInviteFill == [LateFill EXCEPT !.guarded = TRUE]
BusinessInviteSave == [EditSave EXCEPT !.forgets = {}]
BusinessInviteFrame == PlainFrame

\* BusinessInviteModal, admin/businesses/BusinessInviteModal.tsx
InviteCandidatesLoad == [PlainLoad EXCEPT !.drops = TRUE, !.clears = TRUE]
InviteCandidatesView == [TableView EXCEPT !.pages = FALSE]

\* BusinessTeamAuditModal, admin/businesses/BusinessTeamAuditModal.tsx
TeamAuditLoad == [PlainLoad EXCEPT !.drops = TRUE, !.clears = TRUE]
TeamAuditView == [ButtonsView EXCEPT !.waits = TRUE]
TeamAuditTable == PlainTable

\* BusinessDisclaimersManager, admin/businesses/BusinessDisclaimersManager.tsx
DisclaimersLoad == [PlainLoad EXCEPT !.clears = TRUE]
DisclaimersActs == PlainActs
DisclaimersView == [TableView EXCEPT !.pages = FALSE]
DisclaimersTable == PlainTable

\* BusinessDisclaimersManager, admin/businesses/BusinessDisclaimersManager.tsx
DisclaimersFill == RowFill
DisclaimersSave == [RowSave EXCEPT !.forgets = {"save"}]
DisclaimersFrame == PlainFrame

\* The list pages.
CatalogLists == {
  [load |-> CategoriesLoad, acts |-> CategoriesActs, view |-> CategoriesView, table |-> CategoriesTable],
  [load |-> BusinessesLoad, acts |-> BusinessesActs, view |-> BusinessesView, table |-> BusinessesTable],
  [load |-> EntitiesLoad, acts |-> EntitiesActs, view |-> EntitiesView, table |-> PlainTable],
  [load |-> ProductsLoad, acts |-> ProductsActs, view |-> ProductsView, table |-> ProductsTable],
  [load |-> AttributesLoad, acts |-> PlainActs, view |-> AttributesView, table |-> PlainTable],
  [load |-> AssetsLoad, acts |-> AssetsActs, view |-> AssetsView, table |-> AssetsTable],
  [load |-> BusinessAssetsLoad, acts |-> BusinessAssetsActs, view |-> BusinessAssetsView, table |-> OpenTable],
  [load |-> VariationsLoad, acts |-> VariationsActs, view |-> VariationsView, table |-> VariationsTable],
  [load |-> VariationProductsLoad, acts |-> NoActs, view |-> VariationProductsView, table |-> OpenTable],
  [load |-> BusinessMembersLoad, acts |-> BusinessMembersActs, view |-> BusinessMembersView, table |-> BusinessMembersTable],
  [load |-> InviteCandidatesLoad, acts |-> NoActs, view |-> InviteCandidatesView, table |-> PlainTable],
  [load |-> TeamAuditLoad, acts |-> NoActs, view |-> TeamAuditView, table |-> TeamAuditTable],
  [load |-> DisclaimersLoad, acts |-> DisclaimersActs, view |-> DisclaimersView, table |-> DisclaimersTable]
}

\* The dialogs.
CatalogDialogs == {
  [fill |-> CategoriesFill, save |-> CategoriesSave, frame |-> CategoriesFrame],
  [fill |-> BusinessFormFill, save |-> BusinessFormSave, frame |-> BusinessFormFrame],
  [fill |-> EntitiesFill, save |-> EntitiesSave, frame |-> EntitiesFrame],
  [fill |-> EntityFormFill, save |-> EntityFormSave, frame |-> EntityFormFrame],
  [fill |-> ProductFormFill, save |-> ProductFormSave, frame |-> ProductFormFrame],
  [fill |-> ProductCategoriesFill, save |-> UploadSave, frame |-> ProductCategoriesFrame],
  [fill |-> CategoryFormFill, save |-> CategoryFormSave, frame |-> CategoryFormFrame],
  [fill |-> CategoryTranslationsFill, save |-> CategoryTranslationsSave, frame |-> CategoryTranslationsFrame],
  [fill |-> BusinessTranslationsFill, save |-> BusinessTranslationsSave, frame |-> BusinessTranslationsFrame],
  [fill |-> ProductTranslationsFill, save |-> ProductTranslationsSave, frame |-> ProductTranslationsFrame],
  [fill |-> TagsFill, save |-> RowSave, frame |-> PageFrame],
  [fill |-> AttributeGroupsFill, save |-> RowSave, frame |-> PageFrame],
  [fill |-> VariationsFill, save |-> VariationsSave, frame |-> VariationsFrame],
  [fill |-> VariationAssetsFill, save |-> VariationAssetsSave, frame |-> VariationAssetsFrame],
  [fill |-> BusinessInviteFill, save |-> BusinessInviteSave, frame |-> BusinessInviteFrame],
  [fill |-> DisclaimersFill, save |-> DisclaimersSave, frame |-> DisclaimersFrame]
}
=============================================================================
