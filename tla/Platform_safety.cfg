SPECIFICATION Spec
CONSTANTS
    Focuses = {"content", "notifications", "tokens", "donations", "lists", "community", "social", "feed", "previews"}
    Donations = {"one", "two", "monthly"}
    Monthly = {"monthly"}
    Supporters = {"s1", "s2"}
    SupporterOf <- Supporter
    Workers = {"w1", "w2"}
    EarlyLimit = 1
    MaxInvoices = 2
    Setups <- DonationSetups
    Users = {"u1", "u2", "u3"}
    Admins = {"a1"}
    Posts = {"p"}
    Comments = {"c1", "c2"}
    ParentOf <- Parent
    MaxThreadDepth = 1
    AutoHideAt = 2
    Reasons = {"x", "y"}
    Scopes <- CommunityScopes
    Files = {"f"}
    Requests = {"r1", "r2"}
    CeleryWorkers = {"w1", "w2"}
    MaxRetries = 1
    Courses <- UploadCourses
    UserRequests = {"r1", "r2"}
    PostsToSave = {"p"}
    FolderNames = {"All", "n"}
    MaxFolders = 3
    MaxChanges = 4
    Others = {"o"}
    Conducts <- ConductsOfTwo
    Owners = {"u1", "u2"}
    Tokens = {"t1", "t2", "t3"}
    TokenKey <- Key
    Registrations = {"q1", "q2", "q3"}
    TokenLimit = 2
    MaxRegistrations = 2
    TokenSettings <- SettingsOfTokens
    Media = {"m1", "m2"}
    Makers = {"w1", "w2"}
    MaxEdits = 2
    Pictures <- PicturesOfAnchors
    Receivers = {"u1", "u2", "u3"}
    NotedPosts = {"p"}
    AuthorOf <- AuthorOfNoted
    MaxNotes = 3
    FanoutRetries = 1
    MaxCuts = 1
    PageSize = 1
    Parts <- PartsOfNotifications
    ListRows = {1, 2, 3}
    MaxRowTime = 2
    MaxListChanges = 2
    RowsPerPage = 1
    Circles = {"home", "other"}
    Names = {"name", "newName"}
    CircleUsers = {"u1", "u2"}
    CircleAdmins = {"a1", "a2"}
    CirclePosts = {"p"}
    CircleComments = {"c1", "c2"}
    Responses = {"r1", "r2"}
    Home = "home"
    CommentedPost <- PostOfComments
    Threads <- ThreadsOfResponses
    HidesAt = 2
    KeepsHidden = 1
    Extents <- ExtentsOfContent
    Hideables = {"a", "b", "c", "d"}
    HideRequests = {"r1", "r2"}
    HiddenLimit = 2
    MaxHides = 2
    Habits <- HabitsOfViewers
CHECK_DEADLOCK FALSE
INVARIANTS TypeOK CountsAreExactUnlessRaced ReportedIsHiddenUnlessRaced DecisionsStand NotificationsAreExact LimitHolds
    PagesAreExact AutoHideIsExact SessionsAreExact 
    DonationsAreConfirmedOnce DonationsAreReconciled
PROPERTIES SavesAndFollowsAreKept
