-------------------------------- MODULE Screens --------------------------------
(***************************************************************************)
(* The web console: which queries each page makes, which rows a query      *)
(* shows, what the buttons do, and which queries a button's success        *)
(* invalidates (apps/web: the pages, hooks/use-domain.ts and               *)
(* hooks/use-gate.ts).                                                     *)
(*                                                                         *)
(* A query bears the name of the endpoint it calls; filters and pages of a *)
(* list are one query.  A family of queries, which share the head of their *)
(* key, is a record from each query to the rows that it shows.             *)
(***************************************************************************)
EXTENDS FiniteSets

(* What each read of the API takes its answer from                         *)
CaptureRows == {"capture"}
DeviceRows == {"device"}
VehicleListRows == {"vehicle"}
SearchRows == {"vehicle"}
VehicleRows == {"vehicle", "stay"}      \* with its newest stay
TimelineRows == {"timeline"}
StayListRows == {"stay", "vehicle"}
StayRows == {"stay", "vehicle"}
ChargeRows == {"stay"}                  \* an estimate, from the stay's own rate
ReleaseListRows == {"request"}
ReleaseRows == {"request", "invoice"}
EligibilityRows == {"stay", "vehicle", "request", "invoice"}
InvoiceListRows == {"invoice"}
InvoiceRows == {"invoice", "payment"}
DashboardRows == {"stay", "vehicle", "request", "capture", "invoice", "auction"}
OccupancyRows == {"stay"}               \* the stays of a site are counted
AgeingRows == {"stay"}
RevenueRows == {"invoice"}              \* collected too: the invoices' amountPaid
AuctionListRows == {"auction"}
AuctionRows == {"auction"}

AnprQueries ==
  [devices |-> DeviceRows, listEvents |-> CaptureRows, reviewQueue |-> CaptureRows]

VehicleQueries ==
  [vehicles |-> VehicleListRows, searchVehicles |-> SearchRows, vehicle |-> VehicleRows,
   timeline |-> TimelineRows]

StayQueries == [sessions |-> StayListRows, session |-> StayRows, charge |-> ChargeRows]

ReleaseQueries ==
  [releases |-> ReleaseListRows, release |-> ReleaseRows, eligibility |-> EligibilityRows]

InvoiceQueries == [invoices |-> InvoiceListRows, invoice |-> InvoiceRows]

ReportQueries ==
  [dashboard |-> DashboardRows, occupancy |-> OccupancyRows, ageing |-> AgeingRows,
   revenue |-> RevenueRows]

AuctionQueries == [auctions |-> AuctionListRows, auction |-> AuctionRows]

Families ==
  {AnprQueries, VehicleQueries, StayQueries, ReleaseQueries, InvoiceQueries,
   ReportQueries, AuctionQueries}

Queries == UNION {DOMAIN family : family \in Families}

Reads(query) == UNION {family[query] : family \in {f \in Families : query \in DOMAIN f}}

------------------------------------------------------------------------------
(* Pages                                                                   *)

GateScreen == {"devices", "listEvents", "reviewQueue", "vehicle"}
DashboardScreen == {"dashboard", "occupancy", "ageing", "revenue", "sessions", "releases"}
PortalScreen == {"dashboard", "vehicles", "sessions", "invoices"}
BillingScreen == {"invoices", "invoice"}
VehiclesScreen == {"vehicles"}
VehicleScreen == {"vehicle", "timeline", "charge"}
YardScreen == {"sessions"}
StayScreen == {"session", "charge", "eligibility", "releases", "release"}
AuctionsScreen == {"auctions", "auction"}

Screens ==
  {"/gate", "/dashboard", "/portal", "/billing", "/vehicles", "/vehicles/[id]", "/yard",
   "/yard/[id]", "/auctions"}

(* What a page asks the API for.                                           *)
Asks(screen) ==
  CASE screen = "/gate" -> GateScreen
    [] screen = "/dashboard" -> DashboardScreen
    [] screen = "/portal" -> PortalScreen
    [] screen = "/billing" -> BillingScreen
    [] screen = "/vehicles" -> VehiclesScreen
    [] screen = "/vehicles/[id]" -> VehicleScreen
    [] screen = "/yard" -> YardScreen
    [] screen = "/yard/[id]" -> StayScreen
    [] screen = "/auctions" -> AuctionsScreen
    [] OTHER -> {}

(* The query without which a page shows an error.                          *)
MainQuery(screen) ==
  CASE screen = "/gate" -> "listEvents"
    [] screen = "/dashboard" -> "dashboard"
    [] screen \in {"/portal", "/vehicles"} -> "vehicles"
    [] screen = "/billing" -> "invoices"
    [] screen = "/vehicles/[id]" -> "vehicle"
    [] screen = "/yard" -> "sessions"
    [] screen = "/yard/[id]" -> "session"
    [] screen = "/auctions" -> "auctions"

(* Only the dashboard's queries follow the chosen site.                    *)
FollowsSite(screen) == screen = "/dashboard"

------------------------------------------------------------------------------
(* Buttons.  Each is shown to who has a permission, on one page.           *)

GateButtons == {<<"anpr:event:review", "simulate">>, <<"anpr:event:review", "review">>}

StayButtons ==
  {<<"session:hold", "hold">>, <<"session:hold", "liftHold">>,
   <<"charge:recalculate", "attachRate">>}

ReleaseButtons ==
  {<<"release:request", "requestRelease">>, <<"release:approve", "decide">>,
   <<"release:execute", "complete">>}

BillingButtons == {<<"invoice:issue", "issue">>, <<"payment:record", "recordPayment">>}

Buttons == GateButtons \cup StayButtons \cup ReleaseButtons \cup BillingButtons

Calls(buttons) == {button[2] : button \in buttons}

ActionsOn(screen) ==
  CASE screen = "/gate" -> Calls(GateButtons)
    [] screen = "/yard/[id]" -> Calls(StayButtons \cup ReleaseButtons)
    [] screen = "/billing" -> Calls(BillingButtons)
    [] OTHER -> {}

(* The rows that an action changes                                         *)
CaptureChanges == {"device", "capture", "vehicle", "stay", "timeline"}
HoldChanges == {"stay", "vehicle", "timeline"}
RateChanges == {"stay", "timeline"}
RequestChanges == {"request", "vehicle", "timeline"}
DecisionChanges == {"request", "vehicle", "timeline"}
CompletionChanges == {"request", "stay", "vehicle", "invoice", "timeline"}
IssueChanges == {"invoice", "timeline"}
PaymentChanges == {"invoice", "payment", "timeline"}

Changes(action) ==
  CASE action \in {"simulate", "review"} -> CaptureChanges
    [] action \in {"hold", "liftHold"} -> HoldChanges
    [] action = "attachRate" -> RateChanges
    [] action = "requestRelease" -> RequestChanges
    [] action = "decide" -> DecisionChanges
    [] action = "complete" -> CompletionChanges
    [] action = "issue" -> IssueChanges
    [] action = "recordPayment" -> PaymentChanges

(* invalidateQueries in the onSuccess of each group of actions             *)
GateRefreshes(action) ==
  DOMAIN AnprQueries \cup DOMAIN StayQueries
    \cup (IF action = "simulate" THEN DOMAIN ReportQueries ELSE {})

StayRefreshes == DOMAIN StayQueries \cup DOMAIN VehicleQueries \cup DOMAIN ReportQueries

ReleaseRefreshes_AsStays == StayRefreshes    \* mutant: it refreshes what a hold does

ReleaseRefreshes == StayRefreshes \cup DOMAIN ReleaseQueries \cup DOMAIN InvoiceQueries

BillingRefreshes == DOMAIN InvoiceQueries \cup DOMAIN ReportQueries

Refreshes(action) ==
  CASE action \in Calls(GateButtons) -> GateRefreshes(action)
    [] action \in Calls(StayButtons) -> StayRefreshes
    [] action \in Calls(ReleaseButtons) -> ReleaseRefreshes
    [] action \in Calls(BillingButtons) -> BillingRefreshes

(* The refetch calls of the pages once a button has succeeded              *)
Refetches(action) ==
  CASE action \in Calls(StayButtons) -> {"session", "charge"}
    [] action \in {"requestRelease", "complete"} -> {"releases"}
    [] action = "decide" -> {"releases", "release"}
    [] action \in Calls(BillingButtons) -> {"invoice"}
    [] OTHER -> {}

(* What an action changes, its page shows and nothing refreshes: the       *)
(* vehicle beside the captures, and the eligibility beside the hold.       *)
Unrefreshed ==
  {<<"simulate", "vehicle">>, <<"review", "vehicle">>, <<"hold", "eligibility">>,
   <<"liftHold", "eligibility">>, <<"attachRate", "eligibility">>}

===============================================================================
