-------------------------------- MODULE Access --------------------------------
(***************************************************************************)
(* Who may do what: the permission bundles of the built-in roles           *)
(* (packages/contracts/src/permissions.ts), what each endpoint requires    *)
(* (the controllers' decorators and modules/identity/guards.ts), how       *)
(* accounts come by roles (users.service.ts), and what the console offers  *)
(* a user (app-shell, auth-errors and the pages).                          *)
(*                                                                         *)
(* A requirement is a set of alternatives, each a set of permissions.      *)
(***************************************************************************)
EXTENDS Screens, Naturals

CONSTANTS
  Users,       \* accounts, existing or not yet created
  MaxRoles     \* bound on the roles given to one account

VARIABLES account      \* users and user_roles

------------------------------------------------------------------------------
(* Role bundles                                                            *)

YardStaff ==
  {"site:read", "gate:read", "zone:read", "vehicle:read", "vehicle:write",
   "vehicle:timeline:read", "anpr:device:read", "anpr:event:read", "anpr:event:review",
   "registry:lookup", "registry:read", "financier:read", "contract:read", "rate:read",
   "session:read", "session:admit", "session:allocate", "session:hold", "charge:read",
   "release:read", "release:request", "release:execute", "document:read",
   "document:write", "report:operations"}

Management ==
  {"org:read", "user:read", "role:read", "setting:read", "audit:read", "job:read",
   "site:read", "site:access:all", "gate:read", "zone:read", "vehicle:read",
   "vehicle:pii:read", "vehicle:timeline:read", "anpr:device:read", "anpr:event:read",
   "registry:read", "financier:read", "contract:read", "rate:read", "billingrule:read",
   "session:read", "charge:read", "release:read", "release:approve", "invoice:read",
   "payment:read", "auction:read", "bidder:read", "bid:read", "settlement:read",
   "notification:read", "document:read", "report:operations", "report:finance",
   "report:auction", "report:financier", "report:export"}

FinanceOfficer ==
  {"site:read", "site:access:all", "vehicle:read", "vehicle:pii:read",
   "vehicle:timeline:read", "financier:read", "financier:write", "contract:read",
   "contract:write", "rate:read", "rate:write", "billingrule:read", "session:read",
   "charge:read", "charge:recalculate", "release:read", "invoice:read",
   "invoice:generate", "invoice:issue", "invoice:send", "invoice:void", "payment:read",
   "payment:record", "settlement:read", "notification:read", "document:read",
   "document:write", "report:finance", "report:operations", "report:export"}

AuctionAdministrator ==
  {"site:read", "site:access:all", "vehicle:read", "vehicle:timeline:read",
   "financier:read", "session:read", "charge:read", "auction:read", "auction:write",
   "auction:publish", "auction:open", "auction:close", "auction:selectwinner",
   "bidder:read", "bidder:write", "bidder:approve", "bid:read", "bid:place:onbehalf",
   "settlement:read", "settlement:write", "invoice:read", "invoice:generate",
   "document:read", "document:write", "report:auction"}

FinancierUser ==
  {"financier:portal:search", "vehicle:read", "vehicle:timeline:read", "session:read",
   "charge:read", "invoice:read", "payment:read", "contract:read", "rate:read",
   "document:read", "report:financier"}

Device == {"anpr:event:ingest"}

(* ALL_PERMISSIONS: what some role above has, and the rest of the list.    *)
Everything ==
  YardStaff \cup Management \cup FinanceOfficer \cup AuctionAdministrator
    \cup FinancierUser \cup Device
    \cup {"org:write", "user:write", "user:impersonate", "role:write", "setting:write",
          "integration:read", "integration:write", "job:trigger", "site:write",
          "gate:write", "zone:write", "anpr:device:write", "registry:verify:manual",
          "contract:approve", "billingrule:write", "session:close", "payment:refund",
          "bid:place", "notification:template:write", "notification:send"}

RoleCode ==
  {"SYSTEM_ADMINISTRATOR", "MANAGEMENT", "YARD_STAFF", "FINANCE_OFFICER",
   "AUCTION_ADMINISTRATOR", "FINANCIER_USER", "DEVICE_SERVICE_ACCOUNT"}

Granted(role) ==
  CASE role = "SYSTEM_ADMINISTRATOR" -> Everything
    [] role = "MANAGEMENT" -> Management
    [] role = "YARD_STAFF" -> YardStaff
    [] role = "FINANCE_OFFICER" -> FinanceOfficer
    [] role = "AUCTION_ADMINISTRATOR" -> AuctionAdministrator
    [] role = "FINANCIER_USER" -> FinancierUser
    [] role = "DEVICE_SERVICE_ACCOUNT" -> Device

FINANCIER_SCOPED_ROLES == {"FINANCIER_USER"}
MACHINE_ONLY_ROLES == {"DEVICE_SERVICE_ACCOUNT"}

(* buildProfile and JwtStrategy.validate: the union over the roles, read   *)
(* again for every request.                                                *)
Permissions(a) == UNION {Granted(r) : r \in a.roles}

------------------------------------------------------------------------------
(* What the endpoints require                                              *)

Every(permissions) == {permissions}
Either(permissions) == {{p} : p \in permissions}
One(permission) == {{permission}}
SignedIn == {{}}

AnprRoutes ==
  {<<"ingest", One("anpr:event:ingest")>>,     <<"simulate", One("anpr:event:review")>>,
   <<"listEvents", One("anpr:event:read")>>,   <<"reviewQueue", One("anpr:event:review")>>,
   <<"review", One("anpr:event:review")>>,     <<"devices", One("anpr:device:read")>>}

VehicleRoutes ==
  {<<"vehicles", One("vehicle:read")>>,        <<"searchVehicles", One("vehicle:read")>>,
   <<"vehicle", One("vehicle:read")>>,         <<"timeline", One("vehicle:timeline:read")>>,
   <<"requestLookup", One("registry:lookup")>>,
   <<"manualVerification", One("registry:verify:manual")>>}

ParkingRoutes ==
  {<<"sessions", One("session:read")>>,        <<"session", One("session:read")>>,
   <<"charge", One("charge:read")>>,           <<"chargeHistory", One("charge:read")>>,
   <<"hold", One("session:hold")>>,            <<"liftHold", One("session:hold")>>,
   <<"attachRate", One("charge:recalculate")>>}

ReleaseRoutes ==
  {<<"releases", One("release:read")>>,        <<"eligibility", One("release:read")>>,
   <<"release", One("release:read")>>,         <<"requestRelease", One("release:request")>>,
   <<"decide", One("release:approve")>>,       <<"complete", One("release:execute")>>,
   <<"cancelRelease", One("release:request")>>}

InvoiceRoutes ==
  {<<"invoices", One("invoice:read")>>,        <<"invoice", One("invoice:read")>>,
   <<"issue", One("invoice:issue")>>,          <<"void", One("invoice:void")>>}

PaymentRoutes ==
  {<<"payments", One("payment:read")>>,        <<"payment", One("payment:read")>>,
   <<"recordPayment", One("payment:record")>>}

AuctionRoutes ==
  {<<"auctions", One("auction:read")>>,        <<"auction", One("auction:read")>>,
   <<"createAuction", One("auction:write")>>,  <<"publish", One("auction:publish")>>,
   <<"open", One("auction:open")>>,            <<"close", One("auction:close")>>,
   <<"addLot", One("auction:write")>>,         <<"lot", One("auction:read")>>}

SaleRoutes ==
  {<<"placeBid", Either({"bid:place", "bid:place:onbehalf"})>>,
   <<"selectWinner", One("auction:selectwinner")>>,
   <<"createSettlement", One("settlement:write")>>,
   <<"recordReceipt", One("settlement:write")>>,
   <<"settlement", One("settlement:read")>>,   <<"bidders", One("bidder:read")>>,
   <<"createBidder", One("bidder:write")>>,    <<"approveBidder", One("bidder:approve")>>,
   <<"register", One("bidder:approve")>>}

ReportRoutes ==
  {<<"dashboard", Either({"report:operations", "report:finance", "report:financier"})>>,
   <<"occupancy", Either({"report:operations", "report:financier"})>>,
   <<"ageing", Either({"report:operations", "report:finance", "report:financier"})>>,
   <<"revenue", Either({"report:finance", "report:financier"})>>,
   <<"activity", Either({"report:operations", "report:financier"})>>,
   <<"auctionReport", Either({"report:auction", "report:finance"})>>}

UserRoutes ==
  {<<"users", One("user:read")>>,              <<"roles", One("role:read")>>,
   <<"user", One("user:read")>>,               <<"createUser", One("user:write")>>,
   <<"setRoles", Every({"user:write", "role:write"})>>,
   <<"setSiteAccess", One("user:write")>>,     <<"setStatus", One("user:write")>>,
   <<"resetPassword", One("user:write")>>}

AuthRoutes ==
  {<<"logout", SignedIn>>, <<"me", SignedIn>>, <<"changePassword", SignedIn>>}

Routes ==
  AnprRoutes \cup VehicleRoutes \cup ParkingRoutes \cup ReleaseRoutes \cup InvoiceRoutes
    \cup PaymentRoutes \cup AuctionRoutes \cup SaleRoutes \cup ReportRoutes
    \cup UserRoutes \cup AuthRoutes

Requires(name) == (CHOOSE route \in Routes : route[1] = name)[2]

AllowServiceAccount == {"ingest"}

(* JwtStrategy.validate and PermissionsGuard.canActivate                   *)
May(a, name) ==
  /\ a.active
  /\ a.service => name \in AllowServiceAccount
  /\ \E needed \in Requires(name) : needed \subseteq Permissions(a)

------------------------------------------------------------------------------
(* What the console offers                                                 *)

(* landingRouteFor                                                         *)
LandingRoute_RoleFirst(a) ==       \* mutant: the financier check no longer first
  LET has(p) == p \in Permissions(a) IN
  IF has("session:admit") THEN "/gate"
  ELSE IF has("invoice:read") THEN "/dashboard"
  ELSE "/vehicles"

LandingRoute(a) ==
  LET has(p) == p \in Permissions(a) IN
  IF a.linked /\ has("report:financier") THEN "/portal"
  ELSE IF has("session:admit") THEN "/gate"
  ELSE IF has("report:operations") \/ has("report:finance") THEN "/dashboard"
  ELSE IF has("invoice:read") THEN "/billing"
  ELSE IF has("vehicle:read") THEN "/vehicles"
  ELSE "/dashboard"

(* NAV of the shell and COMMANDS of the palette: a destination is offered  *)
(* to who has one of its permissions.  Both lead to /users, which has no   *)
(* page.                                                                   *)
Navigation ==
  {<<"/dashboard", {"report:operations", "report:finance", "report:financier"}>>,
   <<"/gate", {"session:admit", "anpr:event:read"}>>, <<"/yard", {"session:read"}>>,
   <<"/vehicles", {"vehicle:read"}>>, <<"/billing", {"invoice:read"}>>,
   <<"/billing", {"payment:read"}>>, <<"/auctions", {"auction:read"}>>,
   <<"/users", {"user:read"}>>, <<"/portal", {"report:financier"}>>}

Commands ==
  {<<"/gate", {"session:admit", "anpr:event:read"}>>, <<"/yard", {"session:read"}>>,
   <<"/vehicles", {"vehicle:read"}>>,
   <<"/dashboard", {"report:operations", "report:finance"}>>,
   <<"/billing", {"invoice:read", "payment:read"}>>, <<"/auctions", {"auction:read"}>>,
   <<"/users", {"user:read"}>>}

(* canAny                                                                  *)
Offered(a) ==
  {item[1] : item \in {i \in Navigation \cup Commands : i[2] \cap Permissions(a) # {}}}

------------------------------------------------------------------------------
(* Accounts                                                                *)

Absent == [roles |-> {}, linked |-> FALSE, service |-> FALSE, active |-> FALSE]

RoleSets == {rs \in SUBSET RoleCode : rs # {} /\ Cardinality(rs) <= MaxRoles}

AccountsTyped ==
  account \in [Users -> [roles : SUBSET RoleCode, linked : BOOLEAN, service : BOOLEAN,
                         active : BOOLEAN]]

(* The seed: an administrator account, and one of the cameras.             *)
AccessInit ==
  \E admin, camera \in Users :
    /\ admin # camera
    /\ account = [u \in Users |->
         CASE u = admin -> [roles |-> {"SYSTEM_ADMINISTRATOR"}, linked |-> FALSE,
                            service |-> FALSE, active |-> TRUE]
           [] u = camera -> [roles |-> MACHINE_ONLY_ROLES, linked |-> FALSE,
                             service |-> TRUE, active |-> TRUE]
           [] OTHER -> Absent]

(* assertRoleScopeConsistency                                              *)
Consistent_OneWay(roles, linked) ==      \* mutant: only the missing link is refused
  roles \cap FINANCIER_SCOPED_ROLES # {} => linked

Consistent(roles, linked) == roles \cap FINANCIER_SCOPED_ROLES # {} <=> linked

Create(u) ==
  /\ account[u] = Absent
  /\ \E a \in Users : May(account[a], "createUser")
  /\ \E roles \in RoleSets, linked \in BOOLEAN :
       /\ Consistent(roles, linked)
       /\ account' = [account EXCEPT ![u] = [roles |-> roles, linked |-> linked,
                                             service |-> FALSE, active |-> TRUE]]

SetRoles(u) ==
  /\ account[u].roles # {}
  /\ \E a \in Users : May(account[a], "setRoles")
  /\ \E roles \in RoleSets :
       /\ Consistent(roles, account[u].linked)
       /\ account[u].service => roles \subseteq MACHINE_ONLY_ROLES
       /\ account' = [account EXCEPT ![u].roles = roles]

(* setStatus: nobody changes their own to anything but active.             *)
SetStatus(u) ==
  /\ account[u].roles # {}
  /\ \E active \in BOOLEAN :
       /\ \E a \in Users : (a = u => active) /\ May(account[a], "setStatus")
       /\ account' = [account EXCEPT ![u].active = active]

AccessNext == \E u \in Users : Create(u) \/ SetRoles(u) \/ SetStatus(u)

AccessSpec == AccessInit /\ [][AccessNext]_account

------------------------------------------------------------------------------
(* A portal user is narrowed to one financier and nobody else is, whatever *)
(* the sequence of grants ("Two invariants are enforced here",             *)
(* users.service.ts).                                                      *)
PortalUsersAreLinked ==
  \A u \in Users : (account[u].roles \cap FINANCIER_SCOPED_ROLES # {}) <=> account[u].linked

(* Whatever roles a person holds, the page they land on is served every    *)
(* query it makes, a page they are offered, where there is one, is served  *)
(* its main query (the palette "never offers a destination that would      *)
(* 403"), and a button they are shown calls an endpoint they may use.      *)
ConsoleAgrees ==
  \A u \in Users :
    LET a == account[u] IN
    a.active /\ ~a.service /\ ~(a.roles \subseteq MACHINE_ONLY_ROLES) =>
      /\ \A name \in Asks(LandingRoute(a)) : May(a, name)
      /\ \A page \in Offered(a) \cap Screens : May(a, MainQuery(page))
      /\ \A button \in Buttons : button[1] \in Permissions(a) => May(a, button[2])

===============================================================================
