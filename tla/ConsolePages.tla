---------------------------- MODULE ConsolePages ----------------------------
(* What the web client shows and offers, page by page, next to what the API   *)
(* grants: the permissions of a role, the guards of the client's routes, the  *)
(* guards of the server's routes, what each page reads when it opens, which   *)
(* controls it then offers, and what each control asks of the server.         *)
(* A control is a page (a link) or an operation (a request). One event room   *)
(* and one managed team member stand for all of them.                         *)
EXTENDS FiniteSets

When(condition, S) == IF condition THEN S ELSE {}

-----------------------------------------------------------------------------
(* Roles and what they may do.                                                *)

Roles == {"admin", "event_manager", "volunteer"}

RolePermissionMap == [r \in Roles |->
    {"take_attendance", "view_live_session", "share_live_link"}
      \cup When(r # "volunteer", {"manage_rooms", "manage_live_session",
                                  "create_attendance_form", "view_reports"})
      \cup When(r = "admin", {"manage_users"})]

hasRolePermission(role, permission) ==
    role \in Roles /\ permission \in RolePermissionMap[role]

-----------------------------------------------------------------------------
(* The server: facts, the requests that read them and those that write them.  *)
(* "assigned" is the assignment the tab is about: its own user's for an event  *)
(* manager or a volunteer, the managed member's for an administrator.          *)

Statuses == {"scheduled", "live", "ended", "cancelled"}

Facts == [role: Roles, assigned: {"none", "active", "revoked"}, status: Statuses,
          form: {"f0", "f1"}, team: {"one", "two"},
          org: {"none", "o0", "o1"}, prefs: {"on", "off"}, name: {"n0", "n1"}]

canAccessRoomByAssignment(s) ==
    hasRolePermission(s.role, "manage_users") \/ s.assigned = "active"

\* GET /rooms answers only the rooms the user is assigned to.
listRooms(s) == IF canAccessRoomByAssignment(s) THEN s.status ELSE "absent"

Reads == {"list", "room", "form", "entries", "activities", "token", "team", "assigned",
          "log", "shared"}

Guarded(s, granted, answer) == IF granted THEN answer ELSE "refused"

\* What the API answers to a read, "f" being the filter a log is read with.
Answer(q, s, f) ==
    CASE q = "list"   -> listRooms(s)
      [] q = "shared" -> Guarded(s, s.status # "cancelled", s.status)
      [] q = "room"   -> Guarded(s, canAccessRoomByAssignment(s), s.status)
      [] q = "form"   -> Guarded(s, canAccessRoomByAssignment(s), s.form)
      [] q = "entries" ->
           Guarded(s, /\ canAccessRoomByAssignment(s)
                      /\ \/ hasRolePermission(s.role, "view_reports")
                         \/ hasRolePermission(s.role, "take_attendance"), "rows")
      [] q = "activities" ->
           Guarded(s, /\ canAccessRoomByAssignment(s)
                      /\ hasRolePermission(s.role, "take_attendance"), "rows")
      [] q = "token" ->
           Guarded(s, /\ canAccessRoomByAssignment(s)
                      /\ hasRolePermission(s.role, "view_live_session"), "rows")
      [] q = "team"     -> Guarded(s, hasRolePermission(s.role, "manage_users"), s.team)
      [] q = "assigned" -> Guarded(s, hasRolePermission(s.role, "manage_users"), s.assigned)
      [] q = "log"      -> Guarded(s, s.role = "admin", f)

Values == Statuses \cup {"unread", "refused", "absent", "rows", "f0", "f1", "one", "two",
                         "none", "active", "revoked", "all", "some", "o0", "o1", "on", "off",
                         "n0", "n1"}

\* Requests to the account routes, which the client never retries after a 401.
AuthOps == {"signIn", "signUp", "askReset", "resetPassword", "confirmEmail", "setPassword",
            "finishOnboarding",
            "logout", "togglePrefs", "saveDetails", "changePassword", "avatarUpload"}

\* Those that need no session.
PublicOps == {"signIn", "signUp", "askReset", "resetPassword", "confirmEmail", "logout",
              "joinShared"}

\* roomRouter: the permission each room operation needs.
RoomOps == [cancelRoom |-> "manage_rooms", saveForm |-> "create_attendance_form",
            start |-> "manage_live_session", stop |-> "manage_live_session",
            startRecording |-> "manage_live_session", stopRecording |-> "manage_live_session",
            report |-> "view_reports", photo |-> "take_attendance"]

\* adminRouter and settingsRouter: operations of administrators only.
AdminOps == {"createUser", "deleteUser", "deleteMe", "sendBroadcast", "saveOrg", "logoUpload"}

\* eventAssignmentRouter.
AssignmentOps == {"assign", "reassign", "revoke"}

Ops == AuthOps \cup PublicOps \cup AdminOps \cup AssignmentOps \cup DOMAIN RoomOps
         \cup {"createRoom", "sendFeedback", "reportBug"}

\* Whether the server's guards let the operation through.
Granted(op, s) ==
    /\ op \in DOMAIN RoomOps =>
         hasRolePermission(s.role, RoomOps[op]) /\ canAccessRoomByAssignment(s)
    /\ op \in AdminOps => s.role = "admin"
    /\ op \in AssignmentOps => hasRolePermission(s.role, "manage_users")
    /\ op = "createRoom" => hasRolePermission(s.role, "manage_rooms")
    /\ op = "joinShared" => s.status # "cancelled"

assignEventAdminToRoom(s) == [s EXCEPT !.assigned = "active"]
updateEventAssignment(s) == [s EXCEPT !.assigned = IF @ = "none" THEN @ ELSE "active"]
revokeEventAssignment(s) == [s EXCEPT !.assigned = IF @ = "active" THEN "revoked" ELSE @]
updateOrganization(s) == [s EXCEPT !.org = "o1"]
updatePreferences(s, to) == [s EXCEPT !.prefs = to]
\* The chosen role becomes the account's; an organisation is created for an
\* administrator only.
completeOnboarding(s, role) ==
    [s EXCEPT !.org = IF role = "admin" THEN "o0" ELSE "none", !.role = role]

\* What the operation leaves behind when it is granted; "to" is its argument.
Effect(op, s, to) ==
    CASE op = "cancelRoom" -> [s EXCEPT !.status = "cancelled"]
      [] op = "start"      -> [s EXCEPT !.status = "live"]
      [] op = "stop"       -> [s EXCEPT !.status = "ended"]
      [] op = "saveForm"   -> [s EXCEPT !.form = "f1"]
      [] op = "createUser" -> [s EXCEPT !.team = "two"]
      [] op = "deleteUser" -> [s EXCEPT !.team = "one"]
      [] op = "assign"     -> assignEventAdminToRoom(s)
      [] op = "reassign"   -> updateEventAssignment(s)
      [] op = "revoke"     -> revokeEventAssignment(s)
      [] op = "saveOrg"    -> updateOrganization(s)
      [] op = "togglePrefs" -> updatePreferences(s, to)
      [] op = "saveDetails" -> [s EXCEPT !.name = "n1"]
      [] op = "finishOnboarding" -> completeOnboarding(s, to)
      [] OTHER -> s

-----------------------------------------------------------------------------
(* The client's routes.                                                       *)

GuestPages == {"login", "register", "forgot", "reset"}
OpenPages == {"watch", "verify"}
DashboardPages == {"dashboard", "profile", "settings", "help", "feedback", "bug", "rooms",
                   "create", "builder", "forms", "reports", "attendance", "records", "live",
                   "users", "broadcast", "audit", "assignments"}
Pages == GuestPages \cup OpenPages \cup DashboardPages \cup {"onboarding"}

\* The permissions of which a page's route wants one; none when it wants none.
RouteNeeds(p) ==
    CASE p = "create"     -> {"manage_rooms"}
      [] p = "builder"    -> {"create_attendance_form"}
      [] p = "reports"    -> {"view_reports"}
      [] p = "attendance" -> {"take_attendance"}
      [] p = "records"    -> {"view_reports", "take_attendance"}
      [] p = "live"       -> {"view_live_session"}
      [] OTHER            -> {}

PermissionRoute(p, role) ==
    RouteNeeds(p) = {} \/ \E n \in RouteNeeds(p) : hasRolePermission(role, n)

RoleRoute(p, role) ==
    p \in {"users", "broadcast", "audit", "assignments"} => role = "admin"

\* What a page behind ProtectedRoute renders.
ProtectedRoute(p, status, me) ==
    CASE status = "loading"         -> "loading"
      [] status = "error"           -> "error"
      [] status = "unauthenticated" -> "login"
      [] OTHER -> IF me.org = "none" /\ p # "onboarding" THEN "onboarding"
                  ELSE IF PermissionRoute(p, me.role) /\ RoleRoute(p, me.role)
                  THEN "page" ELSE "denied"

\* Mutant: a signed-out tab is sent on to the dashboard, which sends it back.
MutantAuthRoute(status) ==
    CASE status = "loading" -> "loading"
      [] status = "error"   -> "error"
      [] OTHER              -> "dashboard"

AuthRoute(status) ==
    CASE status = "loading"       -> "loading"
      [] status = "error"         -> "error"
      [] status = "authenticated" -> "dashboard"
      [] OTHER                    -> "page"

\* The page itself, a notice in its place, or the page it redirects to.
Rendered(p, status, me) ==
    IF p \in OpenPages THEN "page"
    ELSE IF p \in GuestPages THEN AuthRoute(status)
    ELSE ProtectedRoute(p, status, me)

-----------------------------------------------------------------------------
(* Navigation: the lists every dashboard page carries.                         *)

\* MENU_ITEMS: "Create Room" names no permission.
MenuItems(role) ==
    {"dashboard", "rooms", "create"}
      \cup When(hasRolePermission(role, "manage_users"),
                {"users", "assignments", "broadcast", "audit"})

\* TOOLS_ITEMS name no permission at all.
ToolsItems == {"forms", "reports"}

\* The sidebar filters the tools itself.
SidebarTools(role) ==
    When(\/ hasRolePermission(role, "create_attendance_form")
         \/ hasRolePermission(role, "take_attendance"), {"forms"})
      \cup When(hasRolePermission(role, "view_reports"), {"reports"})

Sidebar(role) == MenuItems(role) \cup SidebarTools(role)

ProfileMenu == {"profile", "help", "feedback", "bug", "logout"}

AddonsMenu(role) ==
    When(hasRolePermission(role, "manage_rooms"), {"create"})
      \cup SidebarTools(role)
      \cup When(hasRolePermission(role, "manage_users"), {"assignments"})
      \cup {"settings"}

QuickAction(role) == When(hasRolePermission(role, "manage_rooms"), {"create"})

HeaderMenu == {"profile", "settings", "help", "feedback", "bug", "logout"}

\* The first four entries; the drawer holds the others and the account's.
MobileBar(role) ==
    {"dashboard", "rooms", "create"} \cup {IF role = "admin" THEN "users" ELSE "forms"}

MobileDrawer(role) == (Sidebar(role) \ MobileBar(role)) \cup ProfileMenu

Palette(role) == MenuItems(role) \cup ToolsItems \cup {"profile", "settings", "help", "logout"}

DashboardLayout(role) ==
    UNION {Sidebar(role), ProfileMenu, AddonsMenu(role), QuickAction(role), HeaderMenu,
           MobileBar(role), MobileDrawer(role), Palette(role)}

-----------------------------------------------------------------------------
(* Pages with rooms. "v" is what the page has read.                            *)

Listed(v) == v.list \in Statuses

\* Mutant: everyone is offered to cancel the event.
MutantRoomCard(role, v) ==
    When(v.list = "live" /\ hasRolePermission(role, "view_live_session"), {"live"})
      \cup When(hasRolePermission(role, "take_attendance"), {"attendance"})
      \cup {"builder", "records"}
      \cup When(v.list # "cancelled", {"cancelRoom"})

RoomCard(role, v) ==
    When(v.list = "live" /\ hasRolePermission(role, "view_live_session"), {"live"})
      \cup When(hasRolePermission(role, "take_attendance"), {"attendance"})
      \cup {"builder", "records"}
      \cup When(v.list # "cancelled" /\ hasRolePermission(role, "manage_rooms"), {"cancelRoom"})

RoomsPage(role, v) ==
    When(hasRolePermission(role, "manage_rooms"), {"create"})
      \cup When(Listed(v), RoomCard(role, v))

DashboardHero(role) == When(hasRolePermission(role, "manage_rooms"), {"create"})

DashboardRoom(role) ==
    When(hasRolePermission(role, "take_attendance"), {"attendance"})
      \cup When(hasRolePermission(role, "view_live_session"), {"live"})

QuickUtilities == {"forms", "reports"}

DashboardPage(role, v) ==
    DashboardHero(role) \cup QuickUtilities \cup When(Listed(v), DashboardRoom(role))

FormsPage(role, v) ==
    When(Listed(v), {"records"} \cup When(hasRolePermission(role, "manage_rooms"), {"builder"}))

ReportsPage(v) == When(v.list = "ended", {"report"})

\* The report button needs rows on the page, and nothing of the role.
RecordsExport(v) == When(v.entries = "rows", {"report"})

\* Without rows there is a link to the form in their place.
RecordsTable(v) == When(v.entries = "rows", {"attendance"})

RecordsPage(v) == {"dashboard"} \cup RecordsExport(v) \cup RecordsTable(v)

BuilderPage == {"dashboard", "attendance", "saveForm"}

CreateRoomPage == {"dashboard", "createRoom"}

canPublish(role, v) ==
    v.room \in Statuses /\ hasRolePermission(role, "manage_live_session")

StageControls(role, v) ==
    When(canPublish(role, v), IF v.room = "live" THEN {"stop"} ELSE {"start"})

\* Which of the two depends on whether a recording runs.
RecordingControls(role, v) ==
    When(canPublish(role, v) /\ v.room = "live", {"startRecording", "stopRecording"})

LivePage(role, v) == {"dashboard"} \cup StageControls(role, v) \cup RecordingControls(role, v)

\* The activity photos of the live page.
ActivityPanel(role, v) ==
    When(v.activities = "rows" /\ hasRolePermission(role, "take_attendance"), {"photo"})

\* The form to join is there whatever the status; only its caption differs.
WatchPage(v) == When(v.shared \in Statuses, {"joinShared"})

-----------------------------------------------------------------------------
(* Pages of administrators.                                                    *)

CreateUserModal == {"createUser"}

\* Opened by the Delete button that every member but oneself has.
DeleteUserModal(v) == When(v.team = "two", {"deleteUser"})

UsersPage(v) == {"assignments"} \cup CreateUserModal \cup DeleteUserModal(v)

\* Revoke is disabled for a revoked assignment, Update is not.
AssignmentsPage(v) ==
    When(v.team = "two" /\ v.list \in Statuses, {"assign"})
      \cup When(v.assigned \in {"active", "revoked"}, {"reassign"})
      \cup When(v.assigned = "active", {"revoke"})

BroadcastPage == {"sendBroadcast"}

-----------------------------------------------------------------------------
(* Pages of every account, and those before there is one.                      *)

OrganizationSection(role) == When(role = "admin", {"saveOrg"})
NotificationSection == {"togglePrefs"}

\* Offered to every role; the text promises it to every role.
AccountSection == {"deleteMe"}

SettingsPage(role) == OrganizationSection(role) \cup NotificationSection \cup AccountSection

PhotoPicker == {"avatarUpload"}
DetailsForm == {"saveDetails"}
PasswordForm == {"changePassword"}

\* Not limited to administrators.
LogoCard == {"logoUpload"}

ProfilePage == PhotoPicker \cup DetailsForm \cup PasswordForm \cup LogoCard

HelpPage == {"feedback", "bug"}
FeedbackPage == {"sendFeedback"}
ReportBugPage == {"reportBug"}
OnboardingPage == {"finishOnboarding", "logout"}
LoginPage == {"signIn", "forgot", "register"}
RegisterPage == {"signUp", "signIn", "login"}
PasswordSetupForm == {"setPassword"}
VerifyPage == {"dashboard", "login"} \cup PasswordSetupForm
ResetPage == {"resetPassword", "forgot", "login"}
ForgotPage == {"askReset", "login"}

-----------------------------------------------------------------------------
(* Every page: its content's controls, what it reads when it opens (each load  *)
(* a set of reads that end together) and what it then shows.                   *)

PageOffers(p, role, v) ==
    CASE p = "rooms"       -> RoomsPage(role, v)
      [] p = "dashboard"   -> DashboardPage(role, v)
      [] p = "forms"       -> FormsPage(role, v)
      [] p = "reports"     -> ReportsPage(v)
      [] p = "records"     -> RecordsPage(v)
      [] p = "builder"     -> BuilderPage
      [] p = "create"      -> CreateRoomPage
      [] p = "live"        -> LivePage(role, v) \cup ActivityPanel(role, v)
      [] p = "watch"       -> WatchPage(v)
      [] p = "users"       -> UsersPage(v)
      [] p = "assignments" -> AssignmentsPage(v)
      [] p = "broadcast"   -> BroadcastPage
      [] p = "settings"    -> SettingsPage(role)
      [] p = "profile"     -> ProfilePage
      [] p = "help"        -> HelpPage
      [] p = "feedback"    -> FeedbackPage
      [] p = "bug"         -> ReportBugPage
      [] p = "onboarding"  -> OnboardingPage
      [] p = "login"       -> LoginPage
      [] p = "register"    -> RegisterPage
      [] p = "verify"      -> VerifyPage
      [] p = "reset"       -> ResetPage
      [] p = "forgot"      -> ForgotPage
      [] OTHER             -> {}

InitialLoads(p, role) ==
    CASE p \in {"rooms", "forms", "reports"} -> {{"list"}}
      [] p = "dashboard"   -> {{"list"}} \cup When(hasRolePermission(role, "manage_users"),
                                                  {{"assigned", "team"}})
      [] p = "users"       -> {{"team", "assigned"}}
      [] p = "assignments" -> {{"team", "list", "assigned"}}
      [] p = "audit"       -> {{"log"}}
      [] p = "builder"     -> {{"form"}}
      [] p = "attendance"  -> {{"form", "room"}}
      [] p = "records"     -> {{"room", "entries", "form"}}
      [] p = "live"        -> {{"room"}}
      [] p = "watch"       -> {{"shared"}}
      [] OTHER             -> {}

\* The loads a page starts when one has succeeded: the live page reads the room, then
\* the activities, then the streaming token. (What it reads of a recording after
\* that, and of who is present, may fail unnoticed and decides nothing here.)
Follows(p, reads) ==
    CASE p = "live" /\ reads = {"room"}       -> {{"activities"}}
      [] p = "live" /\ reads = {"activities"} -> {{"token"}}
      [] OTHER                                -> {}

\* Reads that come with the signed-in user and not with the page.
UserReads == {"prefs", "org", "name"}

\* What the parts of the pages are drawn from.
memberRows(role) == When(hasRolePermission(role, "manage_users"), {"assigned", "team"})
DashboardShows(role) == {"list"} \cup memberRows(role)
enrichedUsers == {"team", "assigned"}
AssignmentRows == {"team", "list", "assigned"}
AuditLogRows == {"log"}
RecordRows == {"room", "entries", "form"}
LiveShows == {"room", "activities"}
SettingsShows(role) == {"prefs"} \cup When(role = "admin", {"org"})

Shows(p, role) ==
    CASE p = "dashboard"   -> DashboardShows(role)
      [] p = "users"       -> enrichedUsers
      [] p = "assignments" -> AssignmentRows
      [] p = "audit"       -> AuditLogRows
      [] p = "records"     -> RecordRows
      [] p = "live"        -> LiveShows
      [] p = "settings"    -> SettingsShows(role)
      [] p = "profile"     -> {"name"}
      [] OTHER             -> UNION InitialLoads(p, role)
=============================================================================
