----------------------------- MODULE AdminPages -----------------------------
(***************************************************************************)
(* The pages of the operator console (src/clients/admin): what each queries, *)
(* which mutations it offers, what those invalidate and close.               *)
(***************************************************************************)
EXTENDS Pages

-----------------------------------------------------------------------------
(* pages/tenants, components/tenants *)

Tenants == <<"tenants">>
Tenant == <<"tenant", "id">>
Provisioning == <<"tenant", "id", "provisioning">>
Theme == <<"tenant", "id", "theme">>
ActivePlans == Query(<<"billing", "plans", "active">>, {"plans"})

CreateTenantDialog ==
    Own("createTenant", {Leaves(Op("createTenant", {"tenants", "provisionings"}, {Tenants}))})
TenantsListPage == Screen("admin/TenantsListPage",
    {Query(<<"tenants", "page">>, {"tenants"}), On("createTenant", ActivePlans)},
    {CreateTenantDialog})

TenantOp(does, writes) == Op(does, writes, {Tenant, Tenants})
Activation ==
    [OwnConfirm("activation", {TenantOp("changeTenantActivation", {"tenants"})}) EXCEPT !.holds = TRUE]
ProvisioningPanel == Button("retry", {Op("retryTenantProvisioning", {"provisionings"}, {Provisioning})})

\* The plan chosen last time is still chosen when it opens again.
RenewTenantDialog ==
    [Own("renew", {TenantOp("renewTenant", {"tenants", "invoices"})}) EXCEPT !.row = TRUE, !.clears = {}]
\* Faulty: the dialog is not reset when it opens or closes.
AdjustKept ==
    [Own("adjust", {TenantOp("adjustTenantValidity", {"tenants"})})
        EXCEPT !.row = TRUE, !.live = TRUE, !.clears = {}]

AdjustValidityDialog ==
    [Own("adjust", {TenantOp("adjustTenantValidity", {"tenants"})})
        EXCEPT !.row = TRUE, !.live = TRUE, !.clears = {"open", "close", "success"}]

SaveTheme ==
    [Inline("saveTheme", {Op("updateTenantTheme", {"themes"}, {Theme})})
        EXCEPT !.row = TRUE, !.live = TRUE, !.clears = {}]
ResetTheme ==
    [Button("resetTheme", {Op("resetTenantTheme", {"themes"}, {Theme})}) EXCEPT !.also = {"saveTheme"}]

\* ConfigureStep holds the mutation and is mounted while the dialog is on it;
\* the token is handed to the dashboard in another window.
PickStep == Query(<<"impersonation", "users", "tenant">>, {"users"})
ImpersonateDialog(row) ==
    [Own("impersonate", {Op("startImpersonation", {"grants"}, {})})
        EXCEPT !.row = row, !.optional = TRUE, !.lives = "open"]
RevokeGrantDialog ==
    [Own("revokeGrant", {Op("revokeImpersonationGrant", {"grants"}, {<<"impersonation-grants">>})})
        EXCEPT !.row = TRUE, !.optional = TRUE, !.clears = {"open"}]
GrantRow == {RevokeGrantDialog, ImpersonateDialog(TRUE)}
ActiveGrantsCard == Polled(Query(<<"impersonation-grants", "tenant-active", "id">>, {"grants"}))

TenantActions == {Activation, RenewTenantDialog, AdjustValidityDialog, ImpersonateDialog(TRUE)}
TenantDetailPage == Screen("admin/TenantDetailPage",
    {Query(Tenant, {"tenants"}), Polled(Query(Provisioning, {"provisionings"})),
     Query(Theme, {"themes"}), ActiveGrantsCard,
     On("renew", ActivePlans), On("impersonate", PickStep)},
    TenantActions \cup GrantRow \cup {ProvisioningPanel, SaveTheme, ResetTheme})

\* Reopening a grant starts on ConfigureStep.
ReopenDialog == ImpersonateDialog(TRUE)
ImpersonationListPage == Screen("admin/ImpersonationListPage",
    {Polled(Query(<<"impersonation-grants", "all">>, {"grants"}))},
    {RevokeGrantDialog, ReopenDialog})

-----------------------------------------------------------------------------
(* pages/users, pages/roles, components/sessions *)

Users == <<"users">>
User == <<"user", "id">>
UserRoles == <<"user", "id", "roles">>
UserSessions == <<"admin", "user-sessions", "id">>

CreateUserDialog == Own("createUser", {Leaves(Op("registerUser", {"users"}, {Users}))})
UsersListPage == Screen("admin/UsersListPage",
    {Query(<<"users", "page">>, {"users"}), Query(<<"roles">>, {"roles"})}, {CreateUserDialog})

\* Faulty: the button is not disabled while pending.
ToggleUnguarded ==
    [Button("toggle", {Op("toggleUserStatus", {"users"}, {User, Users})}) EXCEPT !.guard = "none"]

ToggleUser == Button("toggle", {Op("toggleUserStatus", {"users"}, {User, Users})})
RolesEditor ==
    [Inline("roles", {Op("assignUserRoles", {"userRoles"}, {UserRoles, Users})})
        EXCEPT !.row = TRUE, !.live = TRUE, !.clears = {}]
UserSessionOp(does) == Op(does, {"sessions"}, {UserSessions})
UserSessionsCard ==
    {RowButton("revokeOne", "row", {UserSessionOp("adminRevokeUserSession")}),
     Button("revokeAll", {UserSessionOp("adminRevokeAllUserSessions")})}
UserDetailPage == Screen("admin/UserDetailPage",
    {Query(User, {"users"}), Query(UserRoles, {"userRoles"}), Query(UserSessions, {"sessions"})},
    {ToggleUser, RolesEditor} \cup UserSessionsCard)

Roles == <<"roles">>
Role == <<"roles", "id">>

CreateRoleDialog == Own("createRole", {Leaves(Op("upsertRole", {"roles"}, {Roles}))})
RolesListPage == Screen("admin/RolesListPage", {Query(Roles, {"roles"})}, {CreateRoleDialog})

\* The two editors follow the role's query; the name must be typed to delete it.
RoleForm(name, op) == [Inline(name, {op}) EXCEPT !.row = TRUE, !.live = TRUE, !.clears = {}]
ProfileSection == RoleForm("profile", Op("upsertRole", {"roles"}, {Roles, Role}))
PermissionEditor == RoleForm("permissions", Op("updateRolePermissions", {"roles"}, {Role}))
DangerZone == [Inline("delete", {Leaves(Op("deleteRole", {"roles"}, {Roles}))}) EXCEPT !.clears = {}]
RoleDetailPage == Screen("admin/RoleDetailPage",
    {Query(Role, {"roles"})}, {ProfileSection, PermissionEditor, DangerZone})

-----------------------------------------------------------------------------
(* pages/billing *)

Plans == <<"billing", "plans">>
Invoices == <<"billing", "invoices">>
Invoice == <<"billing", "invoice", "id">>
Topups == <<"billing", "topup-requests">>

PlanFormDialog ==
    [Own("plan", {Op("createPlan", {"plans"}, {Plans}), Op("updatePlan", {"plans"}, {Plans})})
        EXCEPT !.optional = TRUE, !.clears = {"open"}]
PlansListPage == Screen("admin/PlansListPage",
    {Query(<<"billing", "plans", "all">>, {"plans"})}, {PlanFormDialog})

InvoicesListPage == Screen("admin/InvoicesListPage",
    {Query(<<"billing", "invoices", "page">>, {"invoices"})}, {})

\* A success empties the input, which is locked until then.
InvoiceOp(does) == Op(does, {"invoices"}, {Invoice, Invoices})
\* Faulty: the input stays open to typing while pending.
IssueUnlocked ==
    [Inline("issue", {InvoiceOp("issueInvoice")})
        EXCEPT !.row = TRUE, !.optional = TRUE]

IssueInvoice ==
    [Inline("issue", {InvoiceOp("issueInvoice")})
        EXCEPT !.row = TRUE, !.optional = TRUE, !.locks = TRUE]
MarkInvoicePaid == Button("pay", {InvoiceOp("markInvoicePaid")})
VoidInvoice ==
    [Inline("void", {InvoiceOp("voidInvoice")})
        EXCEPT !.row = TRUE, !.optional = TRUE, !.locks = TRUE]
InvoiceDetailPage == Screen("admin/InvoiceDetailPage", {Query(Invoice, {"invoices"})},
    {IssueInvoice, MarkInvoicePaid, VoidInvoice, Button("download", {Op("downloadInvoicePdf", {}, {})})})

\* Approving a request also generates its invoice.
DecideTopup ==
    [Own("decide", {Op("approveTopupRequest", {"topups", "invoices"}, {Topups}),
                    Op("rejectTopupRequest", {"topups"}, {Topups})})
        EXCEPT !.row = TRUE, !.optional = TRUE, !.holds = TRUE, !.locks = TRUE, !.shuts = "editor",
               !.clears = {"open", "close", "success"}]
TopupsListPage == Screen("admin/TopupsListPage",
    {Query(<<"billing", "topup-requests", "page">>, {"topups"})}, {DecideTopup})

-----------------------------------------------------------------------------
(* pages/webhooks *)

Subscriptions == <<"webhooks", "subscriptions">>
Deliveries == <<"webhooks", "deliveries", "id">>

\* One busyId greys out a row for both of its buttons.
TestWebhook(refreshes) == Op("testWebhookSubscription", {"deliveries"}, refreshes)
RemoveWebhook == Op("deleteWebhookSubscription", {"webhooks"}, {Subscriptions})
WebhookRow ==
    {RowButton("test", "marker", {TestWebhook({})}), RowButton("remove", "marker", {RemoveWebhook})}
\* Cancel leaves the input where it is.
CreateWebhookDialog ==
    [Own("createWebhook", {Op("createWebhookSubscription", {"webhooks"}, {Subscriptions})})
        EXCEPT !.clears = {"success"}]
WebhooksListPage == Screen("admin/WebhooksListPage",
    {Query(<<"webhooks", "subscriptions", "page">>, {"webhooks"})}, {CreateWebhookDialog} \cup WebhookRow)
WebhookDetailPage == Screen("admin/WebhookDetailPage",
    {Query(<<"webhooks", "subscriptions", "all">>, {"webhooks"}), Polled(Query(Deliveries, {"deliveries"}))},
    {Button("test", {TestWebhook({Deliveries})}), Button("remove", {Leaves(RemoveWebhook)})})

-----------------------------------------------------------------------------
(* pages/settings, pages/notifications, components/notifications *)

Me == <<"identity", "profile">>
MySessions == <<"identity", "sessions", "me">>

ProfileImage ==
    [Button("image", {Op("setProfileImage", {"me"}, {Me})}) EXCEPT !.row = FALSE, !.guard = "none"]
ProfileSettings == Screen("admin/ProfileSettings", {Query(Me, {"me"})}, {ProfileImage})

ChangePasswordDialog ==
    [Own("password", {Op("changePassword", {}, {})}) EXCEPT !.clears = {"open"}]
BeginEnroll == Button("begin", {Op("enrollTwoFactor", {}, {})})
TwoFactorEnroll == Inline("verify", {Op("verifyEnrollTwoFactor", {"me"}, {Me})})
TwoFactorDisable == Inline("disable", {Op("disableTwoFactor", {"me"}, {Me})})
SecuritySettings == Screen("admin/SecuritySettings", {Query(Me, {"me"})},
    {ChangePasswordDialog, BeginEnroll, TwoFactorEnroll, TwoFactorDisable})

\* A set of busy rows: each waits for its own answer.
MySessionOp(does) == Op(does, {"sessions"}, {MySessions})
SessionRow == RowButton("revokeOne", "row", {MySessionOp("revokeMySession")})
SessionsSettings == Screen("admin/SessionsSettings", {Query(MySessions, {"sessions"})},
    {SessionRow, Button("revokeAll", {MySessionOp("revokeAllMySessions")})})

Notifications == <<"notifications">>
NotificationOp(does) == Op(does, {"notifications"}, {Notifications})
MarkOne == RowButton("markOne", "none", {NotificationOp("markNotificationRead")})
MarkAll == Button("markAll", {NotificationOp("markAllNotificationsRead")})
NotificationsInboxPage == Screen("admin/NotificationsInboxPage",
    {Query(<<"notifications", "inbox">>, {"notifications"})}, {MarkOne, MarkAll})

NotificationBell == [Dialog("bell", {}) EXCEPT !.shuts = "none", !.clears = {}]
BellRow == Within("bell", MarkOne)
AppShell == Screen("admin/AppShell",
    {Polled(Query(<<"notifications", "unread-count">>, {"notifications"})),
     On("bell", Query(<<"notifications", "recent">>, {"notifications"}))},
    {NotificationBell, BellRow, Within("bell", MarkAll)})

-----------------------------------------------------------------------------
(* pages/audits, pages/health, pages/dashboard, pages/login, pages/auth *)

AuditDetailSheet == [Dialog("sheet", {}) EXCEPT !.row = TRUE]
AuditsListPage == Screen("admin/AuditsListPage",
    {Query(<<"audits", "list">>, {"audits"}), On("sheet", Query(<<"audits", "id">>, {"audits"}))},
    {AuditDetailSheet})
HealthPage == Screen("admin/HealthPage",
    {Polled(Query(<<"health", "live">>, {"health"})), Polled(Query(<<"health", "ready">>, {"health"}))}, {})
DashboardPage == Screen("admin/DashboardPage",
    {Query(<<"tenants", "first">>, {"tenants"}), Query(<<"billing", "plans", "all">>, {"plans"}),
     Query(<<"billing", "invoices", "first">>, {"invoices"})}, {})

AuthForm(name, op) == [Inline(name, {op}) EXCEPT !.row = FALSE, !.clears = {}]
LoginPage == Screen("admin/LoginPage", {}, {AuthForm("login", Leaves(Op("login", {}, {})))})
ForgotPasswordPage == Screen("admin/ForgotPasswordPage", {},
    {AuthForm("forgot", Op("requestPasswordReset", {}, {}))})
ResetPasswordPage == Screen("admin/ResetPasswordPage", {},
    {AuthForm("reset", Leaves(Op("resetPassword", {}, {})))})
ConfirmEmailPage == Screen("admin/ConfirmEmailPage", {}, {Automatic("confirm", Op("confirmEmail", {}, {}))})

-----------------------------------------------------------------------------
AdminScreens ==
    Of("admin", {TenantsListPage, TenantDetailPage, ImpersonationListPage, UsersListPage, UserDetailPage,
        RolesListPage, RoleDetailPage, PlansListPage, InvoicesListPage, InvoiceDetailPage,
        TopupsListPage, WebhooksListPage, WebhookDetailPage, ProfileSettings, SecuritySettings,
        SessionsSettings, NotificationsInboxPage, AppShell, AuditsListPage, HealthPage, DashboardPage,
        LoginPage, ForgotPasswordPage, ResetPasswordPage, ConfirmEmailPage})
-----------------------------------------------------------------------------
(* Where the code falls short of a property of ViewForms or ViewCache. *)

\* Forms that can send again for a row before it was answered: unguarded buttons,
\* lists that grey out only the row sent last, and components that forget their
\* mutation when they close.
ResendableForms ==
    At("admin/AppShell", {"markOne"})
    \cup At("admin/ImpersonationListPage", {"impersonate"})
    \cup At("admin/NotificationsInboxPage", {"markOne"})
    \cup At("admin/ProfileSettings", {"image"})
    \cup At("admin/TenantDetailPage", {"impersonate"})
    \cup At("admin/WebhooksListPage", {"remove", "test"})

\* Forms emptied, or shut with what was typed, by the answer to an earlier request.
OverwrittenForms ==
    At("admin/ImpersonationListPage", {"impersonate", "revokeGrant"})
    \cup At("admin/PlansListPage", {"plan"})
    \cup At("admin/RolesListPage", {"createRole"})
    \cup At("admin/SecuritySettings", {"disable", "password", "verify"})
    \cup At("admin/TenantDetailPage", {"adjust", "impersonate", "revokeGrant"})
    \cup At("admin/TenantsListPage", {"createTenant"})
    \cup At("admin/UsersListPage", {"createUser"})
    \cup At("admin/WebhooksListPage", {"createWebhook"})

\* Dialogs that open with what was typed before they were closed.
RememberedForms ==
    At("admin/TenantDetailPage", {"renew"})
    \cup At("admin/WebhooksListPage", {"createWebhook"})

\* Forms whose input a changed refetch replaces.
ReseededForms ==
    At("admin/RoleDetailPage", {"permissions", "profile"})
    \cup At("admin/TenantDetailPage", {"adjust", "saveTheme"})
    \cup At("admin/UserDetailPage", {"roles"})

\* Entries a mutation leaves to staleTime or their interval; those of a created
\* row's kind show another row.
EntriesLeftToAge ==
    After({"adminRevokeAllUserSessions", "adminRevokeUserSession"},
          {<<"identity", "sessions", "me">>})
    \cup After({"approveTopupRequest", "renewTenant"}, {<<"billing", "invoice", "id">>,
               <<"billing", "invoices", "first">>, <<"billing", "invoices", "page">>})
    \cup After({"createTenant"}, {<<"tenant", "id", "provisioning">>, <<"tenant", "id">>})
    \cup After({"registerUser"}, {<<"impersonation", "users", "tenant">>,
               <<"user", "id">>})
    \cup After({"revokeAllMySessions", "revokeMySession"},
               {<<"admin", "user-sessions", "id">>})
    \cup After({"startImpersonation"}, {<<"impersonation-grants", "all">>,
               <<"impersonation-grants", "tenant-active", "id">>})
    \cup After({"testWebhookSubscription"}, {<<"webhooks", "deliveries", "id">>})
    \cup After({"toggleUserStatus"}, {<<"impersonation", "users", "tenant">>})
    \cup After({"updateRolePermissions"}, {<<"roles">>})
=============================================================================
