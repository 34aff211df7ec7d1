--------------------------- MODULE DashboardPages ---------------------------
(***************************************************************************)
(* The pages of the tenant dashboard (src/clients/dashboard): what each      *)
(* queries, which mutations it offers, what those invalidate and close.      *)
(***************************************************************************)
EXTENDS Pages

-----------------------------------------------------------------------------
(* pages/catalog *)

\* The soft-deleted rows of a kind, which only the trash shows.
Trashed == [brands |-> "trashed brands", categories |-> "trashed categories",
            products |-> "trashed products", tickets |-> "trashed tickets",
            files |-> "trashed files"]

CatalogOp(does, kind) == Op(does, {kind}, {<<"catalog", kind>>})
CatalogDelete(does, kind) ==
    Op(does, {kind, Trashed[kind]}, {<<"catalog", kind>>, <<"trash", kind>>})

BrandEditorDialog ==
    Prefilled(Editor("brand", {CatalogOp("createBrand", "brands"), CatalogOp("updateBrand", "brands")}))
DeleteBrandDialog == Confirm("delete", {CatalogDelete("deleteBrand", "brands")})
\* What a row opens; on a narrow screen the editor only.
BrandRow == {BrandEditorDialog, DeleteBrandDialog}
BrandsPage == Screen("BrandsPage",
    {Query(<<"catalog", "brands", "page">>, {"brands"})}, BrandRow)

\* The tree feeds the parent names and the parent picker.
CategoryEditorDialog ==
    Prefilled(Editor("category", {CatalogOp("createCategory", "categories"),
                                  CatalogOp("updateCategory", "categories")}))
DeleteCategoryDialog == Confirm("delete", {CatalogDelete("deleteCategory", "categories")})
CategoryRow == {CategoryEditorDialog, DeleteCategoryDialog}
CategoriesPage == Screen("CategoriesPage",
    {Query(<<"catalog", "categories", "page">>, {"categories"}),
     Query(<<"catalog", "categories", "tree">>, {"categories"})}, CategoryRow)

AllBrands == Query(<<"catalog", "brands", "all-for-products-filter">>, {"brands"})
AllCategories == Query(<<"catalog", "categories", "all-for-products-filter">>, {"categories"})

ProductEditorDialog ==
    Prefilled(Editor("product", {CatalogOp("createProduct", "products"),
                                 CatalogOp("updateProduct", "products")}))
PriceDialog == [Prefilled(Editor("price", {CatalogOp("changeProductPrice", "products")})) EXCEPT !.row = TRUE]
StockDialog == [Editor("stock", {CatalogOp("adjustProductStock", "products")}) EXCEPT !.row = TRUE]
DeleteProductDialog == Confirm("delete", {CatalogDelete("deleteProduct", "products")})
ProductRow == {ProductEditorDialog, PriceDialog, StockDialog, DeleteProductDialog}
ProductsPage == Screen("ProductsPage",
    {Query(<<"catalog", "products", "page">>, {"products"}), AllBrands, AllCategories}, ProductRow)

\* The same dialogs over one product follow its query: a refetch that brings a
\* changed product sets their inputs again, the stock delta excepted.
DetailEditorDialog ==
    [Prefilled(Editor("product", {CatalogOp("updateProduct", "products")}))
        EXCEPT !.row = TRUE, !.live = TRUE]
DetailPriceDialog == [PriceDialog EXCEPT !.live = TRUE]
DetailStockDialog == StockDialog
DetailDeleteDialog ==
    Confirm("delete", {Leaves(CatalogDelete("deleteProduct", "products"))})

\* Images refresh the product's own query only, not the lists that show covers.
ImageOp(does) == Op(does, {"products"}, {<<"catalog", "products", "id">>})
AttachImage == Button("attach", {ImageOp("addProductImage")})
ImageTile == [RowButton("cover", "mutation", {ImageOp("setProductThumbnail")})
                EXCEPT !.also = {"removeImage"}]
RemoveImageDialog ==
    [Dialog("removeImage", {ImageOp("removeProductImage")}) EXCEPT !.row = TRUE]
ProductHero == {DetailEditorDialog, DetailDeleteDialog}
PricingPanel == {DetailPriceDialog}
InventoryPanel == {DetailStockDialog}
ProductDetailPage == Screen("ProductDetailPage",
    {Query(<<"catalog", "products", "id">>, {"products"}),
     Query(<<"catalog", "brands", "id">>, {"brands"}),
     Query(<<"catalog", "categories", "id">>, {"categories"}),
     On("product", AllBrands), On("product", AllCategories)},
    ProductHero \cup PricingPanel \cup InventoryPanel
        \cup {AttachImage, ImageTile, RemoveImageDialog})

-----------------------------------------------------------------------------
(* pages/tickets *)

\* Faulty: the mutations of a ticket refresh its detail only.
TicketDetailOp(does) == Op(does, {"tickets"}, {<<"tickets", "detail">>})

TicketOp(does) == Op(does, {"tickets"}, {<<"tickets">>})

CreateTicketDialog == Editor("create", {TicketOp("createTicket")})
TicketsPage == Screen("TicketsPage",
    {Query(<<"tickets", "list", "page">>, {"tickets"})}, {CreateTicketDialog})

ResolveDialog ==
    [Editor("resolve", {TicketOp("resolveTicket")}) EXCEPT !.row = TRUE, !.optional = TRUE]
ReopenButton == [Button("reopen", {TicketOp("reopenTicket")}) EXCEPT !.guard = "none"]
AssignDialog ==
    [Prefilled(Editor("assign", {TicketOp("assignTicket")})) EXCEPT !.row = TRUE, !.live = TRUE]
CommentsSection ==
    Inline("comment", {Op("addTicketComment", {"comments"},
                          {<<"tickets", "comments", "id">>, <<"tickets", "detail", "id">>})})
UserPicker == Query(<<"identity", "users", "search">>, {"users"})
TicketDetailPage == Screen("TicketDetailPage",
    {Query(<<"tickets", "detail", "id">>, {"tickets", "comments"}),
     Query(<<"tickets", "comments", "id">>, {"comments"}), On("assign", UserPicker)},
    {ResolveDialog, ReopenButton, AssignDialog, CommentsSection})

-----------------------------------------------------------------------------
(* pages/identity *)

User == <<"identity", "users", "id">>
UserRoles == <<"identity", "users", "id", "roles">>
UserSessions == <<"identity", "users", "id", "sessions">>
Role == <<"identity", "roles", "id">>
Group == <<"identity", "groups", "id">>
Members == <<"identity", "groups", "id", "members">>
AllRoles == Query(<<"identity", "roles">>, {"roles"})

RegisterUserDialog == Own("register", {Op("registerUser", {"users"}, {<<"identity", "users">>})})
UsersPage == Screen("UsersPage",
    {Query(<<"identity", "users", "page">>, {"users"}), AllRoles}, {RegisterUserDialog})

\* The page keeps one state for its four dialogs.  Toggled roles are staged until
\* they are saved.
SaveRoles == [Inline("roles", {Op("assignUserRoles", {"userRoles"}, {UserRoles})}) EXCEPT !.row = TRUE]
UserOp(does) == Op(does, {"users"}, {User, <<"identity", "users">>})
ToggleStatusDialog == Confirm("toggleStatus", {UserOp("toggleUserStatus")})
ConfirmEmail == Button("confirmEmail", {UserOp("confirmUserEmail")})
ResendConfirmation == Button("resend", {Op("resendUserConfirmationEmail", {}, {})})
RemoveUserDialog ==
    Dropping(Confirm("deleteUser", {Leaves(Op("deleteUser", {"users"}, {<<"identity", "users">>}))}))
RevokeAllDialog ==
    Confirm("revokeAll", {Op("adminRevokeAllUserSessions", {"sessions"}, {UserSessions})})
SessionsCard ==
    RowButton("revokeOne", "latest", {Op("adminRevokeUserSession", {"sessions"}, {UserSessions})})
ImpersonateDialog ==
    [Editor("impersonate", {Leaves(Op("beginImpersonation", {"grants"}, {}))})
        EXCEPT !.row = TRUE, !.optional = TRUE, !.clears = {"success"}]
UserDetailPage == Screen("UserDetailPage",
    {Query(User, {"users"}), Query(UserRoles, {"userRoles"}), Query(UserSessions, {"sessions"})},
    {SaveRoles, ToggleStatusDialog, ConfirmEmail, ResendConfirmation, RemoveUserDialog,
     RevokeAllDialog, SessionsCard, ImpersonateDialog})

CreateRoleDialog == Own("create", {Leaves(Op("upsertRole", {"roles"}, {<<"identity", "roles">>}))})
RolesPage == Screen("RolesPage", {AllRoles}, {CreateRoleDialog})

\* Save sends the name, then the permissions; either is disabled by both.  What
\* the role query brings replaces the whole selection.
SaveMeta ==
    [Inline("meta", {Op("upsertRole", {"roles"}, {<<"identity", "roles">>, Role})})
        EXCEPT !.row = TRUE, !.live = TRUE, !.clears = {}, !.also = {"permissions"}]
SavePermissions ==
    [Inline("permissions", {Op("updateRolePermissions", {"roles"}, {Role})})
        EXCEPT !.row = TRUE, !.live = TRUE, !.clears = {}, !.also = {"meta"}]
RemoveRoleDialog ==
    Dropping(OwnConfirm("deleteRole", {Leaves(Op("deleteRole", {"roles"}, {<<"identity", "roles">>}))}))
RoleDetailPage == Screen("RoleDetailPage",
    {Query(Role, {"roles"}), Query(<<"identity", "permissions", "catalog">>, {})},
    {SaveMeta, SavePermissions, RemoveRoleDialog})

\* The list shows member counts.
GroupOp(does) == Op(does, {"groups"}, {<<"identity", "groups">>})
CreateGroupDialog == Own("create", {Leaves(GroupOp("createGroup"))})
GroupsPage == Screen("GroupsPage",
    {Query(<<"identity", "groups", "page">>, {"groups", "members"})}, {CreateGroupDialog})

SaveGroup ==
    [Inline("group", {GroupOp("updateGroup")}) EXCEPT !.row = TRUE, !.live = TRUE, !.clears = {}]
RemoveGroupDialog == Dropping(OwnConfirm("deleteGroup", {Leaves(GroupOp("deleteGroup"))}))
RemoveMember ==
    RowButton("removeMember", "mutation", {Op("removeUserFromGroup", {"members"}, {Members, Group})})
AddMembersDialog == Own("addMembers", {Op("addUsersToGroup", {"members"}, {Members, Group})})
GroupDetailPage == Screen("GroupDetailPage",
    {Query(Group, {"groups", "members"}), Query(Members, {"members"}), AllRoles,
     On("addMembers", UserPicker)},
    {SaveGroup, RemoveGroupDialog, RemoveMember, AddMembersDialog})

-----------------------------------------------------------------------------
(* pages/settings *)

Me == <<"identity", "me">>
MySessions == <<"identity", "sessions", "me">>
Theme == <<"tenant", "theme">>

\* Seeded once; the avatar is written apart and its control never waits.
MyOp(does) == Op(does, {"me", "names"}, {Me})
SaveProfile == [Inline("profile", {MyOp("updateMyProfile")}) EXCEPT !.clears = {}]
ProfileImage == [Button("image", {MyOp("setProfileImage")}) EXCEPT !.guard = "none", !.row = FALSE]
ProfileSettings == Screen("ProfileSettings", {Query(Me, {"me"})}, {SaveProfile, ProfileImage})

SaveBranding ==
    [Inline("save", {Op("updateTenantTheme", {"theme"}, {Theme})})
        EXCEPT !.row = TRUE, !.live = TRUE, !.clears = {}]
ResetBranding == [Button("reset", {Op("resetTenantTheme", {"theme"}, {Theme})}) EXCEPT !.also = {"save"}]
BrandingSettings == Screen("BrandingSettings", {Query(Theme, {"theme"})}, {SaveBranding, ResetBranding})

RevokeMine == RowButton("revokeOne", "latest", {Op("revokeSession", {"sessions"}, {MySessions})})
RevokeOthers == Button("revokeOthers", {Op("revokeAllOtherSessions", {"sessions"}, {MySessions})})
ChangePasswordDialog == [Dialog("password", {Op("changePassword", {}, {})}) EXCEPT !.typed = TRUE]
BeginEnroll == Button("begin", {Op("enrollTwoFactor", {}, {})})
VerifyEnroll == Inline("verify", {Op("verifyEnrollTwoFactor", {"me"}, {Me})})
TwoFactorDisable == Inline("disable", {Op("disableTwoFactor", {"me"}, {Me})})
PasswordCard == {ChangePasswordDialog}
TwoFactorCard == {BeginEnroll, VerifyEnroll, TwoFactorDisable}
SecuritySettings == Screen("SecuritySettings",
    {Query(Me, {"me"}), Query(MySessions, {"sessions"})},
    {RevokeMine, RevokeOthers} \cup PasswordCard \cup TwoFactorCard)

-----------------------------------------------------------------------------
(* pages/files, components/file, pages/system *)

FileLists == {<<"files", "mine">>, <<"files", "shared">>}

\* Who uploaded a file, wrote a message; kept for minutes.
UserDisplay == Query(<<"identity", "user", "id">>, {"names"})

\* The mutations live in the page's one preview, whichever file it shows.
FilePreviewDialog == [Dialog("preview", {}) EXCEPT !.row = TRUE]
DeleteFile ==
    [Within("preview", Button("deleteFile", {Op("deleteFile", {"files", "trashed files"}, FileLists)}))
        EXCEPT !.shuts = "editor"]
ChangeVisibility ==
    Within("preview", Button("visibility", {Op("changeFileVisibility", {"files"}, {<<"files", "meta">>})}))
FileRow == {FilePreviewDialog, DeleteFile, ChangeVisibility}
MyFilesPage == Screen("MyFilesPage",
    {Query(<<"files", "mine">>, {"files"}), Query(<<"files", "shared">>, {"files"}), UserDisplay,
     On("preview", Query(<<"files", "meta">>, {"files"})),
     On("preview", Query(<<"files", "download">>, {}))},
    FileRow)

\* Each tab is a component of its own.  The confirmation closes before the
\* request is sent.
TrashRow(restore) == RowButton("restore", "latest", {restore})
TrashTab(name, restore, kind, refreshes) ==
    Screen(name, {Query(<<"trash", kind, "page">>, {Trashed[kind]})},
        {TrashRow(Op(restore, {kind, Trashed[kind]}, {<<"trash", kind>>, refreshes}))})
ProductsTab == TrashTab("ProductsTab", "restoreProduct", "products", <<"catalog", "products">>)
BrandsTab == TrashTab("BrandsTab", "restoreBrand", "brands", <<"catalog", "brands">>)
CategoriesTab == TrashTab("CategoriesTab", "restoreCategory", "categories", <<"catalog", "categories">>)
TicketsTab == TrashTab("TicketsTab", "restoreTicket", "tickets", <<"tickets">>)
FilesTab == TrashTab("FilesTab", "restoreFile", "files", <<"files">>)

TenantSessions == <<"identity", "sessions", "tenant">>
SessionRevoke(does) == Op(does, {"sessions"}, {<<"identity", "sessions">>})
SessionRow ==
    {RowButton("revokeOne", "latest", {SessionRevoke("adminRevokeUserSessionById")}),
     RowButton("revokeAll", "latest", {SessionRevoke("adminRevokeAllUserSessionsOf")})}
SessionsPage == Screen("SessionsPage", {Polled(Query(TenantSessions, {"sessions"}))}, SessionRow)

-----------------------------------------------------------------------------
(* pages/wallet, subscription, invoices; overview, audits, health *)

MyStatus == Query(<<"tenant", "me", "status">>, {"tenants"})
Usage == Query(<<"billing", "usage">>, {"usage"})
MyInvoices == Query(<<"billing", "invoices", "me", "page">>, {"invoices"})

TopupRequestForm ==
    Inline("topup", {Op("createTopupRequest", {"topups"},
                        {<<"billing", "wallet", "me">>, <<"billing", "topup-requests", "me">>})})
WalletPage == Screen("WalletPage",
    {Query(<<"billing", "wallet", "me">>, {"wallets"}),
     Query(<<"billing", "topup-requests", "me", "page">>, {"topups"})},
    {TopupRequestForm})

SubscriptionPage == Screen("SubscriptionPage",
    {MyStatus, Query(<<"billing", "subscriptions", "me">>, {"subscriptions"}), Usage,
     Query(<<"billing", "invoices", "me", "first">>, {"invoices"})}, {})
InvoicesPage == Screen("InvoicesPage", {MyInvoices}, {})
InvoiceDetailPage == Screen("InvoiceDetailPage", {Query(<<"billing", "invoices", "id">>, {"invoices"})}, {})

\* The same subscription under another key.
RecentAudits == Query(<<"audits", "recent", "overview">>, {"audits"})
OverviewPage == Screen("OverviewPage",
    {RecentAudits, Usage, MyStatus, Query(<<"billing", "subscription", "me">>, {"subscriptions"})}, {})
AuditDetailDrawer == Query(<<"audit", "detail">>, {"audits"})
RelatedEvents == Query(<<"audit", "by-correlation">>, {"audits"})
AuditRow == [Dialog("drawer", {}) EXCEPT !.row = TRUE]
AuditsPage == Screen("AuditsPage",
    {Query(<<"audits", "list">>, {"audits"}), Query(<<"audits", "summary">>, {"audits"}),
     On("drawer", AuditDetailDrawer), On("drawer", RelatedEvents)}, {AuditRow})
HealthPage == Screen("HealthPage", {Polled(Query(<<"health", "ready">>, {"health"}))}, {})

-----------------------------------------------------------------------------
(* pages/chat: its lists and dialogs (the feed is ChatFeed) *)

MyChannels == <<"chat", "my-channels">>
Channel == <<"chat", "channel", "id">>
Messages == <<"chat", "messages", "id">>
Pinned == <<"chat", "pinned", "id">>
ChannelOp(does, writes) == Op(does, writes, {Channel, MyChannels})
UsersAs(use) == Query(<<"chat", use>>, {"users"})
ChatSearchOverlay == Query(<<"chat", "search", "id">>, {"messages"})
Presence == Polled(Query(<<"presence", "id">>, {"presence"}))
MessageOp(does) == Op(does, {"messages"}, {<<"chat", "messages">>})
ReactionOp(does) == Op(does, {"reactions"}, {<<"chat", "messages">>})

CreateChannelDialog ==
    [Dialog("createChannel", {Op("createChannel", {"channels"}, {MyChannels})})
        EXCEPT !.typed = TRUE, !.clears = {"success"}]
FindOrCreateDm == Op("findOrCreateDm", {"channels"}, {MyChannels})
NewDmDialog == Own("newDm", {FindOrCreateDm})
ChannelRail == {CreateChannelDialog, NewDmDialog}

\* The dialog stays open on save; archive and leave stand in it and close it.
ChannelSettingsDialog ==
    [Dialog("settings", {ChannelOp("updateChannel", {"channels"})})
        EXCEPT !.row = TRUE, !.typed = TRUE, !.live = TRUE, !.shuts = "none"]
LeavesChannel(does) ==
    Within("settings", Button(does, {Leaves(Op(does, {"channels"}, {MyChannels}))}))
ArchiveChannel == LeavesChannel("archiveChannel")
LeaveChannel == LeavesChannel("leaveChannel")
MemberRow ==
    [Within("settings", RowButton("removeMember", "row",
                                  {ChannelOp("removeChannelMember", {"chatMembers"})}))
        EXCEPT !.lives = "open"]
AddMembersRow ==
    [Within("settings", Inline("addMember", {ChannelOp("addChannelMembers", {"chatMembers"})}))
        EXCEPT !.lives = "open"]

\* Each message carries its own actions.
MarkRead ==
    [Button("markRead", {Op("markChannelRead", {"reads"},
                            {MyChannels, <<"notifications", "unread-count">>})})
        EXCEPT !.guard = "none"]
ReactionChip ==
    RowButton("react", "row", {ReactionOp("addReaction"), ReactionOp("removeReaction")})
PickReaction == RowButton("pick", "none", {ReactionOp("addReaction")})
PinMessage == RowButton("pin", "none",
    {Op(does, {"messages"}, {<<"chat", "messages">>, Pinned}) : does \in {"pinMessage", "unpinMessage"}})
DeleteMessageDialog == [OwnConfirm("deleteMessage", {MessageOp("deleteMessage")}) EXCEPT !.clears = {}]
EditMessageInline ==
    [Dialog("editMessage", {MessageOp("editMessage")})
        EXCEPT !.row = TRUE, !.typed = TRUE, !.lives = "open"]
MessageActions == {PickReaction, PinMessage, DeleteMessageDialog, EditMessageInline}
\* A mention opens its user's card, from where they can be written to.
MentionPill == RowButton("mention", "mutation", {Leaves(FindOrCreateDm)})
MentionedUser == Query(<<"identity", "by-username", "name">>, {"names"})
Message == MessageActions \cup {ReactionChip, MentionPill}
ChatPage == Screen("ChatPage",
    {Query(MyChannels, {"channels", "reads"}), Query(Channel, {"channels", "chatMembers"}),
     Query(Messages, {"messages", "reactions"}), Query(Pinned, {"messages"}),
     UserDisplay, MentionedUser, Presence, UsersAs("mention-search"), ChatSearchOverlay,
     On("newDm", UsersAs("user-suggested")), On("newDm", UsersAs("user-search")),
     On("settings", UsersAs("settings-add-search"))},
    {ChannelSettingsDialog, ArchiveChannel, LeaveChannel, MemberRow, AddMembersRow, MarkRead}
        \cup ChannelRail \cup Message)

-----------------------------------------------------------------------------
(* components/layout, components/notifications; pages/auth, pages/login *)

\* Opening the bell loads the inbox.  An item marks itself read each time it is
\* chosen; "mark all" patches the count to zero itself (Inbox).
Inbox == <<"notifications", "inbox">>
NotificationBell == [Dialog("bell", {}) EXCEPT !.row = FALSE]
MarkAll ==
    Within("bell", Button("markAll", {Op("markAllNotificationsRead", {"notifications"}, {Inbox})}))
MarkOne ==
    Within("bell", RowButton("markOne", "none",
        {Op("markNotificationRead", {"notifications"}, {Inbox, <<"notifications", "unread-count">>})}))
AppShell == Screen("AppShell",
    {Query(<<"notifications", "unread-count">>, {"notifications"}),
     On("bell", Query(Inbox, {"notifications"})),
     Query(Me, {"me"}), MyStatus, Query(MyChannels, {"channels", "reads"})},
    {NotificationBell, MarkAll, MarkOne})

LoginPage == Screen("LoginPage", {},
    {[Inline("login", {Leaves(Op("login", {}, {}))}) EXCEPT !.clears = {}, !.row = FALSE]})
ForgotPasswordPage == Screen("ForgotPasswordPage", {},
    {[Inline("forgot", {Op("requestPasswordReset", {}, {})}) EXCEPT !.clears = {}, !.row = FALSE]})
ResetPasswordPage == Screen("ResetPasswordPage", {},
    {[Inline("reset", {Leaves(Op("resetPassword", {}, {}))}) EXCEPT !.clears = {}, !.row = FALSE]})
ConfirmEmailPage == Screen("ConfirmEmailPage", {}, {Automatic("confirm", Op("confirmEmail", {}, {}))})

-----------------------------------------------------------------------------
DashboardScreens ==
    Of("dashboard", {BrandsPage, CategoriesPage, ProductsPage, ProductDetailPage, TicketsPage, TicketDetailPage,
        UsersPage, UserDetailPage, RolesPage, RoleDetailPage, GroupsPage, GroupDetailPage,
        ProfileSettings, BrandingSettings, SecuritySettings, MyFilesPage, ProductsTab, BrandsTab,
        CategoriesTab, TicketsTab, FilesTab, SessionsPage, WalletPage, SubscriptionPage, InvoicesPage,
        InvoiceDetailPage, OverviewPage, AuditsPage, HealthPage, ChatPage, AppShell, LoginPage,
        ForgotPasswordPage, ResetPasswordPage, ConfirmEmailPage})
-----------------------------------------------------------------------------
(* Where the code falls short of a property of ViewForms or ViewCache. *)

\* Forms that can send again for a row before it was answered: unguarded buttons,
\* lists that grey out only the row sent last, and components that forget their
\* mutation when they close.
ResendableForms ==
    At("AppShell", {"markOne"}) \cup At("BrandsTab", {"restore"})
    \cup At("CategoriesTab", {"restore"})
    \cup At("ChatPage", {"addMember", "editMessage", "markRead", "pick", "pin", "removeMember"})
    \cup At("FilesTab", {"restore"}) \cup At("ProductsTab", {"restore"})
    \cup At("ProfileSettings", {"image"}) \cup At("SecuritySettings", {"revokeOne"})
    \cup At("SessionsPage", {"revokeAll", "revokeOne"})
    \cup At("TicketDetailPage", {"reopen"}) \cup At("TicketsTab", {"restore"})
    \cup At("UserDetailPage", {"revokeOne"})

\* Forms emptied, or shut with what was typed, by the answer to an earlier request.
OverwrittenForms ==
    At("BrandsPage", {"brand"}) \cup At("CategoriesPage", {"category"})
    \cup At("ChatPage", {"addMember", "createChannel", "editMessage", "newDm"})
    \cup At("GroupDetailPage", {"addMembers"}) \cup At("GroupsPage", {"create"})
    \cup At("ProductDetailPage", {"price", "product", "stock"})
    \cup At("ProductsPage", {"price", "product", "stock"})
    \cup At("RolesPage", {"create"})
    \cup At("SecuritySettings", {"disable", "password", "verify"})
    \cup At("TicketDetailPage", {"assign", "comment", "resolve"})
    \cup At("TicketsPage", {"create"})
    \cup At("UserDetailPage", {"impersonate", "roles"}) \cup At("UsersPage", {"register"})
    \cup At("WalletPage", {"topup"})

\* Dialogs that open with what was typed before they were closed.
RememberedForms ==
    At("ChatPage", {"createChannel"}) \cup At("UserDetailPage", {"impersonate"})

\* Forms whose input a changed refetch replaces.
ReseededForms ==
    At("BrandingSettings", {"save"}) \cup At("ChatPage", {"settings"})
    \cup At("GroupDetailPage", {"group"}) \cup At("ProductDetailPage", {"price", "product"})
    \cup At("RoleDetailPage", {"meta", "permissions"})
    \cup At("TicketDetailPage", {"assign"})

\* Entries a mutation leaves to staleTime or their interval; those of a created
\* row's kind show another row.
EntriesLeftToAge ==
    After({"addProductImage", "removeProductImage", "setProductThumbnail"},
          {<<"catalog", "products", "page">>})
    \cup After({"addUsersToGroup", "removeUserFromGroup"},
               {<<"identity", "groups", "page">>})
    \cup After({"adminRevokeAllUserSessions", "adminRevokeUserSession"},
               {<<"identity", "sessions", "me">>, <<"identity", "sessions", "tenant">>})
    \cup After({"adminRevokeAllUserSessionsOf", "adminRevokeUserSessionById"},
               {<<"identity", "users", "id", "sessions">>})
    \cup After({"archiveChannel", "createChannel", "findOrCreateDm", "leaveChannel"},
               {<<"chat", "channel", "id">>})
    \cup After({"changeFileVisibility"}, {<<"files", "mine">>, <<"files", "shared">>})
    \cup After({"confirmUserEmail", "deleteUser", "registerUser", "toggleUserStatus"},
               {<<"chat", "mention-search">>, <<"chat", "settings-add-search">>,
               <<"chat", "user-search">>, <<"chat", "user-suggested">>})
    \cup After({"deleteFile"}, {<<"files", "meta">>, <<"trash", "files", "page">>})
    \cup After({"deleteMessage", "editMessage"}, {<<"chat", "pinned", "id">>,
               <<"chat", "search", "id">>})
    \cup After({"markAllNotificationsRead"}, {<<"notifications", "unread-count">>})
    \cup After({"pinMessage", "unpinMessage"}, {<<"chat", "search", "id">>})
    \cup After({"revokeAllOtherSessions", "revokeSession"},
               {<<"identity", "sessions", "tenant">>,
               <<"identity", "users", "id", "sessions">>})
    \cup After({"setProfileImage", "updateMyProfile"},
               {<<"identity", "by-username", "name">>, <<"identity", "user", "id">>})
    \cup After({"updateRolePermissions"}, {<<"identity", "roles">>})
=============================================================================
