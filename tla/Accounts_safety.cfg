SPECIFICATION Spec
CONSTANTS
    CodeRequests = {"r1", "r2", "r3", "r4"}
    MaxAttempts = 2
    MaxResends = 2
    Setups <- SetupsOfCodes
    Users = {"u1", "u2"}
    Names = {"x", "y"}
    Spellings = {1, 2}
    NameRequests = {"r1", "r2"}
    GracePeriod = 1
    MaxGraceChanges = 1
    ChangeCooldown = 2
    ReservationPeriod = 2
    MaxTime = 3
    Populations <- PopulationsOfTwo
    Emails = {"e"}
    Providers = {"google", "apple"}
    Claims <- ClaimsOfFour
    Requests = {"r1", "r2"}
    MaxAccounts = 3
    MaxChanges = 5
    Courses <- CoursesOfThree
    Conversations = {1, 2}
    ClientIds = {"m"}
    Transactions = {"r1", "r2"}
    MaxMessages = 4
    MaxDecisions = 1
    PageSize = 1
    Visits <- VisitsOfTwo
    Translations = {"k", "w"}
    Last = 3
    Enough = 1
    Imports = {"i1", "i2"}
    MaxImports = 3
    Readers = {"r1", "r2", "r3"}
    Plans <- PlansOfThree
    Posts = {"p"}
    Window = 3
    Limit = 2
    Cooldown = 4
    MaxLag = 1
    MaxInstant = 8
    MaxCalls = 5
    Focuses = {"codes", "sign-up", "names", "scripture", "support", "limits"}
CHECK_DEADLOCK FALSE
INVARIANTS TypeOK CodesHold LimitsAreKept SignupPasswordsAreProved NamesAreKept
    TextsAreWhole ConversationsAreExact
PROPERTIES SentCodesStayUsable
