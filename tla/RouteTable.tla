-------------------------------- MODULE RouteTable --------------------------------
(***************************************************************************)
(* The permission each route of the API asks for, those its service asks   *)
(* for again inside the transaction, and the permissions for which         *)
(* src/apps/web offers a screen, the reads that screen makes and the       *)
(* commands on it.                                                         *)
(***************************************************************************)
EXTENDS Sequences

(***************************************************************************)
(* A route: the codes its guard accepts, any of them; the clauses its      *)
(* service checks, each one satisfied by any of its codes; the clauses     *)
(* checked again to answer, once the transaction has committed; the        *)
(* clauses docs/architecture/api-conventions.md asks for; and the codes    *)
(* its answer tells of.                                                    *)
(***************************************************************************)
Route(guard, checks, again, documented) ==
  [guard |-> guard, checks |-> checks, again |-> again, documented |-> documented,
   tells |-> {}]

Guarded(code) == Route(<<code>>, <<>>, <<>>, {{code}})
Checked(code) == Route(<<code>>, <<{code}>>, <<>>, {{code}})
CheckedTwice(code) == Route(<<code>>, <<{code}, {code}>>, <<>>, {{code}})
AndReads(code, domain) == Route(<<code>>, <<{domain}>>, <<>>, {{code}, {domain}})
AnySession == Route(<<>>, <<>>, <<>>, {})

SalesCreate == Checked("sales.create")
SalesConfirm == Checked("sales.confirm_in_transit")
SalesPayment == Checked("sales.record_payment")
SalesCancel == Checked("sales.cancel")
SalesVoid == Checked("sales.cancel")
SalesByNumber == Guarded("sales.read")
SalesList == Guarded("sales.read")
SalesDetail == Guarded("sales.read")

InventoryAdjust == CheckedTwice("inventory.adjust")
InventoryTransfer == Checked("transfers.create")
InventoryList == Guarded("inventory.read")
InventoryByProduct == Guarded("inventory.read")
InventoryByWarehouse == Guarded("inventory.read")
MovementList == Guarded("inventory.read")
MovementDetail == Guarded("inventory.read")
UnitList == Guarded("inventory.read")
WarehouseList == Guarded("inventory.read")

ProductList == Guarded("inventory.read")
ProductDetail == Guarded("inventory.read")
SpecificationsAccess ==
  [Checked("products.manage") EXCEPT !.tells = {"products.specifications.manage"}]
GroupList == Guarded("inventory.read")
GroupCreate == Checked("products.manage")
ProductEdit == Checked("products.manage")

\* Specifications that change, or come with a new product, ask for one more.
Specifying == <<{"products.manage"}, {"products.specifications.manage"}>>

ProductEditSpecified ==
  Route(<<"products.manage">>, <<{"products.manage"}>> \o Specifying, <<>>,
        {{"products.manage"}, {"products.specifications.manage"}})

\* A value on a receipt asks for two permissions more.
Valued == <<{"inventory.valuation.manage"}, {"finances.read"}>>
Creation == <<{"products.manage"}, {"inventory.read"}>>
Stocking == Creation \o <<{"stock-receipts.create"}>>

ProductCreate == Route(<<"products.manage">>, Creation, <<>>, {{"products.manage"}})

ProductCreateSpecified ==
  Route(<<"products.manage">>, Creation \o Specifying, <<>>, ProductEditSpecified.documented)

\* With stock the answer reads the receipt, which checks its reader again.
ProductCreateStocked ==
  Route(<<"products.manage">>, Stocking, <<{"inventory.read"}>>,
        {{"products.manage"}, {"stock-receipts.create"}})

ProductCreateValued ==
  Route(<<"products.manage">>, Stocking \o Valued, <<{"inventory.read"}>>,
        {{"products.manage"}, {"stock-receipts.create"},
         {"inventory.valuation.manage"}, {"finances.read"}})

\* Specifications, stock and a value, in the order they are looked at.
ProductCreateWhole ==
  Route(<<"products.manage">>, Stocking \o Specifying \o Valued, <<{"inventory.read"}>>,
        ProductCreateValued.documented \cup {{"products.specifications.manage"}})

Receiving == <<{"stock-receipts.create"}, {"inventory.read"}>>

ReceiptCreate ==
  Route(<<"stock-receipts.create">>, Receiving, <<{"inventory.read"}>>,
        {{"stock-receipts.create"}})

ReceiptCreateValued ==
  Route(<<"stock-receipts.create">>, Receiving \o Valued, <<{"inventory.read"}>>,
        {{"stock-receipts.create"}, {"inventory.valuation.manage"}, {"finances.read"}})

ReceiptList == Checked("inventory.read")
ReceiptDetail == Checked("inventory.read")

Valuation(checks) ==
  Route(<<"inventory.valuation.manage">>, checks, <<>>, {{"inventory.valuation.manage"}})

ValuationSearch == Valuation(<<{"finances.read"}, {"inventory.valuation.manage"}>>)
ValuationPending == Valuation(<<{"finances.read"}, {"inventory.valuation.manage"}>>)
ValuationUpdate == Valuation(Valued)

EntryCreate == Checked("finances.manual.create")
CategoryList == Guarded("finances.read")
ResponsibleList == Guarded("finances.read")
FinanceTotals == Guarded("finances.read")
FinanceLines == Guarded("finances.read")
ClosingPreview == Guarded("closings.read")
ClosingCreate == Checked("closings.create")
ClosingReopen == Checked("closings.reopen")
ClosingList == Guarded("closings.read")
ClosingDetail == Guarded("closings.read")

ReportInventory == AndReads("reports.read", "inventory.read")
ReportMovements == AndReads("reports.read", "inventory.read")
ReportSales == AndReads("reports.read", "sales.read")
ReportFinances == AndReads("reports.read", "finances.read")
AnalyticsInventory == AndReads("analytics.read", "inventory.read")
AnalyticsSales == AndReads("analytics.read", "sales.read")

Counting == {"inventory.audit.create", "inventory.audit.approve"}

\* A read of a count accepts either capability, in that order.
CountRead ==
  Route(<<"inventory.audit.create", "inventory.audit.approve">>, <<Counting>>, <<>>, {Counting})
CountCreate == Checked("inventory.audit.create")
CountCapture == Checked("inventory.audit.create")
CountCorrect == Checked("inventory.audit.create")
CountSubmit == Checked("inventory.audit.create")
CountApprove ==
  Route(<<"inventory.audit.approve">>, <<{"inventory.audit.approve"}, {"inventory.adjust"}>>,
        <<>>, {{"inventory.audit.approve"}, {"inventory.adjust"}})

\* The adjustment of every line that differs checks once more; here two differ.
CountApproveDiffering ==
  [CountApprove EXCEPT !.checks = @ \o <<{"inventory.adjust"}, {"inventory.adjust"}>>]

\* Who approves may stop a count that waits for approval, not an open one.
CountCancelOpen ==
  Route(CountRead.guard, <<{"inventory.audit.create"}>>, <<>>, {Counting})
CountCancelPending == CountRead

UserInvite == Guarded("users.invitations.create")
UserRevokeCredential == Guarded("users.credentials.revoke")
UserRevokeSessions == Guarded("users.sessions.revoke")
UserDeactivate == Guarded("users.status.manage")
UserReactivate == Guarded("users.status.manage")
UserRoles == Guarded("users.roles.manage")
UserPermissions == Guarded("users.roles.manage")
UserList == Guarded("users.read")
UserDetail == Guarded("users.read")
RoleCatalog == Guarded("users.read")
PermissionCatalog == Guarded("users.read")

KeyList == Guarded("integrations.manage")
KeyCreate == Guarded("integrations.manage")
KeyRevoke == Guarded("integrations.manage")

AlexaStatus == AnySession
AlexaRevoke == AnySession
AlexaAuthorize ==
  Route(<<>>, <<{"inventory.read"}, {"sales.read"}>>, <<>>,
        {{"inventory.read"}, {"sales.read"}})

Commands ==
  [SalesCreate |-> SalesCreate, SalesConfirm |-> SalesConfirm, SalesPayment |-> SalesPayment,
   SalesCancel |-> SalesCancel, SalesVoid |-> SalesVoid,
   InventoryAdjust |-> InventoryAdjust, InventoryTransfer |-> InventoryTransfer,
   GroupCreate |-> GroupCreate, ProductEdit |-> ProductEdit,
   ProductEditSpecified |-> ProductEditSpecified, ProductCreate |-> ProductCreate,
   ProductCreateSpecified |-> ProductCreateSpecified,
   ProductCreateStocked |-> ProductCreateStocked,
   ProductCreateValued |-> ProductCreateValued,
   ProductCreateWhole |-> ProductCreateWhole, ReceiptCreate |-> ReceiptCreate,
   ReceiptCreateValued |-> ReceiptCreateValued, ValuationUpdate |-> ValuationUpdate,
   EntryCreate |-> EntryCreate, ClosingCreate |-> ClosingCreate,
   ClosingReopen |-> ClosingReopen, CountCreate |-> CountCreate,
   CountCapture |-> CountCapture, CountCorrect |-> CountCorrect,
   CountSubmit |-> CountSubmit, CountApprove |-> CountApprove,
   CountApproveDiffering |-> CountApproveDiffering,
   CountCancelOpen |-> CountCancelOpen, CountCancelPending |-> CountCancelPending,
   UserInvite |-> UserInvite, UserRevokeCredential |-> UserRevokeCredential,
   UserRevokeSessions |-> UserRevokeSessions, UserDeactivate |-> UserDeactivate,
   UserReactivate |-> UserReactivate, UserRoles |-> UserRoles,
   UserPermissions |-> UserPermissions, KeyCreate |-> KeyCreate, KeyRevoke |-> KeyRevoke,
   AlexaRevoke |-> AlexaRevoke, AlexaAuthorize |-> AlexaAuthorize]

-----------------------------------------------------------------------------
(***************************************************************************)
(* A screen: the clauses for which a link leads to it, the reads it waits  *)
(* for, the clauses for which its page lets the person in, and for each of *)
(* its commands the clauses for which it is offered.                       *)
(***************************************************************************)
ScreenWith(linked, reads, admits, offers) ==
  [linked |-> linked, reads |-> reads, admits |-> admits, offers |-> offers]

Always == {}
Needs(code) == {{code}}
MayValue == {{"inventory.valuation.manage"}, {"finances.read"}}
MaySpecify == Needs("products.specifications.manage")
CanApprove == {{"inventory.audit.approve"}, {"inventory.adjust"}}
CanCapture == Needs("inventory.audit.create")

SalesScreen == ScreenWith(Needs("sales.read"), {SalesList, WarehouseList}, Always, <<>>)
NewSaleScreen ==
  ScreenWith(Needs("sales.create"), {InventoryList, WarehouseList}, Always,
         [SalesCreate |-> Needs("sales.create")])
SaleScreen ==
  ScreenWith(Needs("sales.read"), {SalesDetail}, Always,
         [SalesConfirm |-> Needs("sales.confirm_in_transit"),
          SalesPayment |-> Needs("sales.record_payment"),
          SalesCancel |-> Needs("sales.cancel")])
VoidScreen ==
  ScreenWith(Needs("sales.read"), {SalesDetail, SalesByNumber}, Always,
         [SalesVoid |-> Needs("sales.cancel")])

CatalogScreen ==
  ScreenWith(Needs("inventory.read"), {ProductList, InventoryList}, Always, <<>>)
ProductScreen == ScreenWith(Needs("inventory.read"), {InventoryByProduct}, Always, <<>>)
InventoryScreen ==
  ScreenWith(Needs("inventory.read"), {InventoryList, InventoryByWarehouse, WarehouseList}, Always,
         [InventoryAdjust |-> Needs("inventory.adjust"),
          InventoryTransfer |-> Needs("transfers.create")])
MovementScreen ==
  ScreenWith(Needs("inventory.read"), {MovementList, WarehouseList}, Always, <<>>)
AdjustmentScreen ==
  ScreenWith(Needs("inventory.adjust"), {ProductList, InventoryByProduct},
         Needs("inventory.adjust"), [InventoryAdjust |-> Always])

ReceiptsScreen == ScreenWith(Needs("inventory.read"), {ReceiptList}, Always, <<>>)
ReceiptScreen ==
  ScreenWith(Needs("stock-receipts.create"), {WarehouseList, ProductList, InventoryByProduct},
         Needs("stock-receipts.create"),
         [ReceiptCreate |-> Always, ReceiptCreateValued |-> MayValue])
ValuationScreen ==
  ScreenWith(Needs("inventory.valuation.manage"), {ValuationSearch, ValuationPending}, MayValue,
         [ValuationUpdate |-> Always])

NewProductScreen ==
  ScreenWith(Needs("products.manage"),
         {UnitList, GroupList, WarehouseList, SpecificationsAccess}, Needs("products.manage"),
         [ProductCreate |-> Always, GroupCreate |-> Always,
          ProductCreateSpecified |-> MaySpecify,
          ProductCreateStocked |-> Needs("stock-receipts.create"),
          ProductCreateValued |-> Needs("stock-receipts.create") \cup MayValue,
          ProductCreateWhole |-> Needs("stock-receipts.create") \cup MayValue \cup MaySpecify])
EditProductScreen ==
  ScreenWith(Needs("products.manage"),
         {UnitList, GroupList, WarehouseList, ProductDetail, InventoryByProduct,
          SpecificationsAccess},
         Needs("products.manage"),
         [ProductEdit |-> Always, ProductEditSpecified |-> MaySpecify])
ImportScreen ==
  ScreenWith(Needs("products.manage"), {UnitList, GroupList, WarehouseList},
         Needs("products.manage") \cup Needs("stock-receipts.create") \cup MayValue,
         [ProductCreateValued |-> Always, ReceiptCreateValued |-> Always])

CountsScreen ==
  ScreenWith({Counting}, {CountRead, WarehouseList}, Always, [CountCreate |-> CanCapture])
CountScreen ==
  ScreenWith({Counting}, {CountRead}, Always,
         [CountCapture |-> CanCapture, CountCorrect |-> CanCapture,
          CountSubmit |-> CanCapture, CountApprove |-> CanApprove,
          CountApproveDiffering |-> CanApprove,
          CountCancelOpen |-> {{"inventory.audit.create", c} : c \in UNION CanApprove},
          CountCancelPending |-> {{"inventory.audit.create", c} : c \in UNION CanApprove}])

FinancesScreen ==
  ScreenWith(Needs("finances.read"),
         {FinanceLines, FinanceTotals, CategoryList, ResponsibleList}, Always,
         [EntryCreate |-> Needs("finances.manual.create")])
ClosingsScreen ==
  ScreenWith(Needs("closings.read"), {ClosingList, ClosingPreview}, Always,
         [ClosingCreate |-> Needs("closings.create")])
ClosingScreen ==
  ScreenWith(Needs("closings.read"), {ClosingDetail}, Always,
         [ClosingReopen |-> Needs("closings.reopen")])

ReportScreen(domain, read) == ScreenWith({{"reports.read"}, {domain}}, {read}, Always, <<>>)
AnalyticsScreen == ScreenWith(Needs("analytics.read"), {AnalyticsSales}, Always, <<>>)
HomeScreen ==
  ScreenWith({{"analytics.read"}, {"inventory.read"}}, {AnalyticsInventory}, Always, <<>>)
PendingSales == ScreenWith(Needs("sales.read"), {SalesList}, Always, <<>>)
PendingCounts == ScreenWith({Counting}, {CountRead}, Always, <<>>)

UsersScreen ==
  ScreenWith(Needs("users.read"), {UserList}, Needs("users.read"),
         [UserInvite |-> Needs("users.invitations.create"),
          UserRevokeCredential |-> Needs("users.credentials.revoke"),
          UserRevokeSessions |-> Needs("users.sessions.revoke"),
          UserDeactivate |-> Needs("users.status.manage"),
          UserReactivate |-> Needs("users.status.manage")])
UserAccessScreen ==
  ScreenWith({{"users.read"}, {"users.roles.manage"}}, {UserDetail, RoleCatalog, PermissionCatalog},
         Always, [UserRoles |-> Always, UserPermissions |-> Always])
KeysScreen ==
  ScreenWith(Needs("integrations.manage"), {KeyList}, Needs("integrations.manage"),
         [KeyCreate |-> Always, KeyRevoke |-> Always])
AccountScreen == ScreenWith(Always, {AlexaStatus}, Always, [AlexaRevoke |-> Always])
ConsentScreen == ScreenWith(Always, {}, Always, [AlexaAuthorize |-> Always])

Screens ==
  [sales |-> SalesScreen, newSale |-> NewSaleScreen, sale |-> SaleScreen,
   voided |-> VoidScreen, catalog |-> CatalogScreen, product |-> ProductScreen,
   inventory |-> InventoryScreen, movements |-> MovementScreen,
   adjustment |-> AdjustmentScreen, receipts |-> ReceiptsScreen, receipt |-> ReceiptScreen,
   valuations |-> ValuationScreen, newProduct |-> NewProductScreen,
   editProduct |-> EditProductScreen, import |-> ImportScreen, counts |-> CountsScreen,
   count |-> CountScreen, finances |-> FinancesScreen, closings |-> ClosingsScreen,
   closing |-> ClosingScreen,
   reportInventory |-> ReportScreen("inventory.read", ReportInventory),
   reportMovements |-> ReportScreen("inventory.read", ReportMovements),
   reportSales |-> ReportScreen("sales.read", ReportSales),
   reportFinances |-> ReportScreen("finances.read", ReportFinances),
   analytics |-> AnalyticsScreen, home |-> HomeScreen, pendingSales |-> PendingSales,
   pendingCounts |-> PendingCounts, users |-> UsersScreen, access |-> UserAccessScreen,
   keys |-> KeysScreen, account |-> AccountScreen, consent |-> ConsentScreen]
=============================================================================
