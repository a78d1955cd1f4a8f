SPECIFICATION SiteSpec
CONSTANTS
    Unused = Unused
    Null = Null
    Client = {c1, c2}
    Entry = {e1, e2}
    Slug = {"s1", "s2"}
    Same = Same
    Moments = 2
    EntryRequests = 3
    Operations = 1
    Thing = {1, 2, 3}
    Busyable = {1}
    Referable = {2}
    Batch = 2
    Kept = 1
    LastDay = 2
    Trashings = 1
    TrashChanges = 1
    ListedRow = {1, 2, 3}
    Limit = 1
    LastTime = 2
    LastPlace = 1
    Edits = 2
    Card = {1, 2, 3, 4}
    BoardList = {"A", "B", "C"}
    Holder = {"p"}
    NoCard = 0
    NoOne = "no one"
    Places <- MCPlaces
    BoardRequests = 2
    Plugin = {"core", "a", "b"}
    Core = "core"
    Depends <- MCDepends
    Preset = {"core", "a"}
    Process = {"s1", "s2"}
    Asker = {"r"}
    Switches = 2
    Readings = 1
    Term = {"t1", "t2", "t3"}
    Slugs <- MCSlugs
    Article = {"e"}
    Root = "root"
    TermOperations = 3
    Reader = {1, 2, 3}
    Email <- MCEmail
    AtFirst = {1, 2}
    Campaign = {"k"}
    Incident = {"v"}
    Posts = 3
    Submission = {1}
    Visitor = {"v"}
    Asked <- MCAsked
    Answers <- MCAnswers
    Days = {1, 2}
    FormDays = 2
    FormChanges = 2
    Person = {"p1", "p2"}
    Owner = "owner"
    Founder = "p1"
    Role = {"owner", "r"}
    Grant = {"manage", "other"}
    Manage = "manage"
    Token = {1, 2, 3}
    Session = {1, 2}
    ApiKey = {"k"}
    Lifetime = 1
    Window = 1
    MaxRequests = 2
    LastClock = 1
    AccountRequests = 3
    Module = {1, 2}
    Lesson = {1, 2}
    Student = {"s"}
    Instructor = {"i"}
    Grants <- MCGrants
    CourseRequests = 4
    Tag = {"en", "de", "at"}
    English = "en"
    Bases <- MCBases
    Title = {"title"}
    Url = {"url"}
    Senders <- MCSenders
    Blank = " "
    MaxDays = 2
    Windows <- MCWindows
    Periods = {2, 3}
    Standard <- MCStandard
    SettingsWrites = 3
    Place = {"home", "away"}
    Item = {"i"}
    Node = {"n1", "n2"}
    Tongue = {"en", "fr", "tr"}
    Spoken <- MCSpoken
    Speech <- MCSpeech
    Nowhere = "nowhere"
    LastRevision = 3
    Works = 4
    Exports = 1
    Imports = 2
    Rollup = {"yesterday", "today"}
    RollupDays <- MCRollupDays
    Batches <- MCBatches
    Policies <- MCPolicies
    FirstDate = 1
    LastDate = 4
    Records = 3
    Credential = {"i", "j"}
    Name = {"n"}
    Secret = {"x", "y"}
    Calls = 5
    FieldKey = {"k"}
    TypeEdits = 4
CHECK_DEADLOCK FALSE
SYMMETRY Names
INVARIANTS
    SiteTypeOK PathsLead ScheduleHasJob WalksAreComplete ActivationIsCoherent
    TokensHold RolesAreGivenAsRead SettingsHold ImportsHold RollupsHold FieldsFit
PROPERTIES
    PassesPurge MovesKeepOrder TreeHolds SuppressionHolds AnswersAreKeptInTime CoursesSettle CredentialsStep
