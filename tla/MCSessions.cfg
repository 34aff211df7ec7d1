SPECIFICATION Spec
CONSTANTS
    t1 = t1
    t2 = t2
    u1 = u1
    u2 = u2
    Root = Root
    NoTab = NoTab
    NoUser = NoUser
    Tabs <- MCTabs
    Users <- MCUsers
    MaxTokens = 2
    MaxBegins = 1
    MaxBoots = 2
    MaxJobs = 2
    Faults = TRUE
INVARIANTS ImpersonationNeverRefreshed TabsAgree
PROPERTIES OwnRefreshNeverRefused PermissionsOfSession
SYMMETRY Symmetry
CHECK_DEADLOCK FALSE
