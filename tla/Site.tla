-------------------------------- MODULE Site --------------------------------
(***************************************************************************)
(* The parts of a site, checked apart: one of them moves in a behaviour,   *)
(* and the variables of the others stay Unused.  The steps of the services *)
(* touch the rows of their own part, but for an import, which writes rows  *)
(* of entries, types, terms and languages: it is a part of its own, and a  *)
(* step of ContentTypes and of Settings.  A name that two parts use for    *)
(* different things is renamed where a part is taken in.                   *)
(***************************************************************************)
EXTENDS Naturals

CONSTANTS
    Unused, Null,
    Client,                                                    \* requests that overlap, of any part
    Entry, Slug, Same, Moments, EntryRequests, Operations,                        \* Content
    Thing, Busyable, Referable, Batch, Kept, LastDay, Trashings, TrashChanges,    \* Retention
    ListedRow, Limit, LastTime, LastPlace, Edits,                                 \* Paging
    Card, BoardList, Holder, NoCard, NoOne, Places, BoardRequests,                \* Boards
    Plugin, Core, Depends, Preset, Process, Asker, Switches, Readings,            \* Plugins
    Term, Slugs, Article, Root, TermOperations,                                   \* Taxonomy
    Reader, Email, AtFirst, Campaign, Incident, Posts,                            \* MailReaders
    Submission, Visitor, Asked, Answers, Days, FormDays, FormChanges,             \* Forms
    Person, Owner, Founder, Role, Grant, Manage, Token, Session, ApiKey, Lifetime,
    Window, MaxRequests, LastClock, AccountRequests,                              \* Identity
    Module, Lesson, Student, Instructor, Grants, CourseRequests,                  \* Courses
    Tag, English, Bases, Title, Url, Senders, Blank, MaxDays, Windows, Periods,
    Standard, SettingsWrites,                                                     \* Settings
    Place, Item, Node, Tongue, Spoken, Speech, Nowhere, LastRevision, Works,
    Exports, Imports,                                                             \* Portable
    Rollup, RollupDays, Batches, Policies, FirstDate, LastDate, Records,          \* Analytics
    Credential, Name, Secret, Calls,                                              \* Credentials
    FieldKey, TypeEdits                                                           \* ContentTypes

VARIABLES
    part,                                                              \* the part that moves
    entry, revision, former, misfit, publishing, waiting, now, left,             \* Content
    thing, busy, referred, day, daily, sweep, trashings, changes,                \* Retention
    listing, row, time, parent, walk, edits,                                     \* Paging
    board, place, card, desk, requests,                                          \* Boards
    enabled, past, change, cache, snapshot, asker, notices, listening, excused,
    switches, readings,                                                          \* Plugins
    term, assigned, task, changed, operations,                                   \* Taxonomy
    reader, letter, shelf, event, call, posts,                                   \* MailReaders
    form, inbox, visit, today, pass, changesLeft,                                \* Forms
    people, role, token, session, key, throttle, office, clock, requestsLeft,    \* Identity
    course, module, lesson, student, signed, enrolled, progress, instructor,
    class, toCome,                                                               \* Courses
    sites, settings, language, lookup, shifted, writesLeft,                      \* Settings
    item, archive, publish, tree, label, tongues, reading, bundle, torn, behind,
    bounds,                                                                      \* Portable
    events, rollup, recorder, date, recordsLeft,                                 \* Analytics
    credential, counter, answers, callsLeft,                                     \* Credentials
    type, article, archived, author, editsLeft                                   \* ContentTypes

content   == <<entry, revision, former, misfit, publishing, waiting, now, left>>
trash     == <<thing, busy, referred, day, daily, sweep, trashings, changes>>
pages     == <<listing, row, time, parent, walk, edits>>
boards    == <<board, place, card, desk, requests>>
plugins   == <<enabled, past, change, cache, snapshot, asker, notices, listening, excused,
               switches, readings>>
terms     == <<term, assigned, task, changed, operations>>
readers   == <<reader, letter, shelf, event, call, posts>>
forms     == <<form, inbox, visit, today, pass, changesLeft>>
staff     == <<people, role, token, session, key, throttle, office, clock, requestsLeft>>
courses   == <<course, module, lesson, student, signed, enrolled, progress, instructor,
               class, toCome>>
languages == <<sites, settings, language, lookup, shifted, writesLeft>>
bundles   == <<item, archive, publish, tree, label, tongues, reading, bundle, torn, behind,
               bounds>>
figures   == <<events, rollup, recorder, date, recordsLeft>>
sealed    == <<credential, counter, answers, callsLeft>>
types     == <<type, article, archived, author, editsLeft>>

Writing == INSTANCE Content WITH LastTime <- Moments, Requests <- EntryRequests

Trashcan == INSTANCE Retention WITH Changes <- TrashChanges

Lists == INSTANCE Paging WITH Row <- ListedRow, now <- time

Board == INSTANCE Boards WITH List <- BoardList, Person <- Holder, Requests <- BoardRequests

Switchboard == INSTANCE Plugins WITH
    Default <- Preset, Reader <- Asker, Changes <- Switches, NotCached <- Null,
    reader <- asker, changes <- switches

Tags == INSTANCE Taxonomy WITH Editor <- Client, Operations <- TermOperations

Post == INSTANCE MailReaders WITH
    Key <- Campaign, Event <- Incident, Operations <- Posts, form <- call, operations <- posts

Inbox == INSTANCE Forms WITH LastDay <- FormDays, Changes <- FormChanges

Staff == INSTANCE Identity WITH
    Key <- ApiKey, LastTime <- LastClock, Requests <- AccountRequests, desk <- office

School == INSTANCE Courses

Tongues == INSTANCE Settings WITH Writes <- SettingsWrites

Copying == INSTANCE Portable

Counting == INSTANCE Analytics WITH
    Row <- Rollup, Days <- RollupDays, None <- Null, FirstDay <- FirstDate, LastDay <- LastDate,
    Requests <- Records, daily <- rollup, requestsLeft <- recordsLeft

Safe == INSTANCE Credentials

Kinds == INSTANCE ContentTypes WITH
    Key <- FieldKey, Entry <- Article, Author <- Client, Undeclared <- Null,
    Edits <- TypeEdits, content <- article

(* What each part assumes of its constants.                                *)
ASSUME SiteAssumption ==
       /\ Writing!ContentAssumption /\ Trashcan!RetentionAssumption
       /\ Lists!PagingAssumption /\ Board!BoardsAssumption
       /\ Switchboard!PluginsAssumption /\ Tags!TaxonomyAssumption
       /\ Post!ReadersAssumption /\ Inbox!FormsAssumption
       /\ Staff!IdentityAssumption /\ School!CoursesAssumption
       /\ Tongues!SettingsAssumption /\ Copying!PortableAssumption
       /\ Counting!AnalyticsAssumption /\ Safe!CredentialsAssumption
       /\ Kinds!TypesAssumption

-----------------------------------------------------------------------------
NoContent   == /\ entry = Unused /\ revision = Unused /\ former = Unused /\ misfit = Unused
               /\ publishing = Unused /\ waiting = Unused /\ now = Unused /\ left = Unused
NoTrash     == /\ thing = Unused /\ busy = Unused /\ referred = Unused /\ day = Unused
               /\ daily = Unused /\ sweep = Unused /\ trashings = Unused /\ changes = Unused
NoPages     == /\ listing = Unused /\ row = Unused /\ time = Unused /\ parent = Unused
               /\ walk = Unused /\ edits = Unused
NoBoards    == /\ board = Unused /\ place = Unused /\ card = Unused /\ desk = Unused
               /\ requests = Unused
NoPlugins   == /\ enabled = Unused /\ past = Unused /\ change = Unused /\ cache = Unused
               /\ snapshot = Unused /\ asker = Unused /\ notices = Unused /\ listening = Unused
               /\ excused = Unused /\ switches = Unused /\ readings = Unused
NoTerms     == /\ term = Unused /\ assigned = Unused /\ task = Unused /\ changed = Unused
               /\ operations = Unused
NoReaders   == /\ reader = Unused /\ letter = Unused /\ shelf = Unused /\ event = Unused
               /\ call = Unused /\ posts = Unused
NoForms     == /\ form = Unused /\ inbox = Unused /\ visit = Unused /\ today = Unused
               /\ pass = Unused /\ changesLeft = Unused
NoStaff     == /\ people = Unused /\ role = Unused /\ token = Unused /\ session = Unused
               /\ key = Unused /\ throttle = Unused /\ office = Unused /\ clock = Unused
               /\ requestsLeft = Unused
NoCourses   == /\ course = Unused /\ module = Unused /\ lesson = Unused /\ student = Unused
               /\ signed = Unused /\ enrolled = Unused /\ progress = Unused
               /\ instructor = Unused /\ class = Unused /\ toCome = Unused
NoLanguages == /\ sites = Unused /\ settings = Unused /\ language = Unused /\ lookup = Unused /\ shifted = Unused
               /\ writesLeft = Unused
NoBundles   == /\ item = Unused /\ archive = Unused /\ publish = Unused /\ tree = Unused
               /\ label = Unused /\ tongues = Unused /\ reading = Unused /\ bundle = Unused
               /\ torn = Unused /\ behind = Unused /\ bounds = Unused
NoFigures   == /\ events = Unused /\ rollup = Unused /\ recorder = Unused /\ date = Unused
               /\ recordsLeft = Unused
NoSealed    == /\ credential = Unused /\ counter = Unused /\ answers = Unused
               /\ callsLeft = Unused
NoTypes     == /\ type = Unused /\ article = Unused /\ archived = Unused /\ author = Unused
               /\ editsLeft = Unused

Is(p) == part = p

SiteInit ==
    /\ part \in {"content", "trash", "pages", "boards", "plugins", "terms", "readers", "forms",
                 "staff", "courses", "languages", "bundles", "figures", "sealed", "types"}
    /\ IF Is("content")   THEN Writing!Init     ELSE NoContent
    /\ IF Is("trash")     THEN Trashcan!Init    ELSE NoTrash
    /\ IF Is("pages")     THEN Lists!Init       ELSE NoPages
    /\ IF Is("boards")    THEN Board!Init       ELSE NoBoards
    /\ IF Is("plugins")   THEN Switchboard!Init ELSE NoPlugins
    /\ IF Is("terms")     THEN Tags!Init        ELSE NoTerms
    /\ IF Is("readers")   THEN Post!Init        ELSE NoReaders
    /\ IF Is("forms")     THEN Inbox!Init     ELSE NoForms
    /\ IF Is("staff")     THEN Staff!Init       ELSE NoStaff
    /\ IF Is("courses")   THEN School!Init      ELSE NoCourses
    /\ IF Is("languages") THEN Tongues!Init      ELSE NoLanguages
    /\ IF Is("bundles")   THEN Copying!Init     ELSE NoBundles
    /\ IF Is("figures")   THEN Counting!Init    ELSE NoFigures
    /\ IF Is("sealed")    THEN Safe!Init        ELSE NoSealed
    /\ IF Is("types")     THEN Kinds!Init       ELSE NoTypes

Others(p) ==
    /\ UNCHANGED part
    /\ IF p = "content"   THEN TRUE ELSE UNCHANGED content
    /\ IF p = "trash"     THEN TRUE ELSE UNCHANGED trash
    /\ IF p = "pages"     THEN TRUE ELSE UNCHANGED pages
    /\ IF p = "boards"    THEN TRUE ELSE UNCHANGED boards
    /\ IF p = "plugins"   THEN TRUE ELSE UNCHANGED plugins
    /\ IF p = "terms"     THEN TRUE ELSE UNCHANGED terms
    /\ IF p = "readers"   THEN TRUE ELSE UNCHANGED readers
    /\ IF p = "forms"     THEN TRUE ELSE UNCHANGED forms
    /\ IF p = "staff"     THEN TRUE ELSE UNCHANGED staff
    /\ IF p = "courses"   THEN TRUE ELSE UNCHANGED courses
    /\ IF p = "languages" THEN TRUE ELSE UNCHANGED languages
    /\ IF p = "bundles"   THEN TRUE ELSE UNCHANGED bundles
    /\ IF p = "figures"   THEN TRUE ELSE UNCHANGED figures
    /\ IF p = "sealed"    THEN TRUE ELSE UNCHANGED sealed
    /\ IF p = "types"     THEN TRUE ELSE UNCHANGED types

SiteNext ==
    \/ Is("content")   /\ Writing!Next     /\ Others("content")
    \/ Is("trash")     /\ Trashcan!Next    /\ Others("trash")
    \/ Is("pages")     /\ Lists!Next       /\ Others("pages")
    \/ Is("boards")    /\ Board!Next       /\ Others("boards")
    \/ Is("plugins")   /\ Switchboard!Next /\ Others("plugins")
    \/ Is("terms")     /\ Tags!Next        /\ Others("terms")
    \/ Is("readers")   /\ Post!Next        /\ Others("readers")
    \/ Is("forms")     /\ Inbox!Next     /\ Others("forms")
    \/ Is("staff")     /\ Staff!Next       /\ Others("staff")
    \/ Is("courses")   /\ School!Next      /\ Others("courses")
    \/ Is("languages") /\ Tongues!Next      /\ Others("languages")
    \/ Is("bundles")   /\ Copying!Next     /\ Others("bundles")
    \/ Is("figures")   /\ Counting!Next    /\ Others("figures")
    \/ Is("sealed")    /\ Safe!Next        /\ Others("sealed")
    \/ Is("types")     /\ Kinds!Next       /\ Others("types")

site == <<part, content, trash, pages, boards, plugins, terms, readers, forms, staff, courses,
          languages, bundles, figures, sealed, types>>

SiteSpec == SiteInit /\ [][SiteNext]_site

-----------------------------------------------------------------------------
(* The types of every part.                                                *)
SiteTypeOK ==
    CASE Is("content")   -> Writing!TypeOK
      [] Is("trash")     -> Trashcan!TypeOK
      [] Is("pages")     -> Lists!TypeOK
      [] Is("boards")    -> Board!TypeOK
      [] Is("plugins")   -> Switchboard!TypeOK
      [] Is("terms")     -> Tags!TypeOK
      [] Is("readers")   -> Post!TypeOK
      [] Is("forms")     -> Inbox!TypeOK
      [] Is("staff")     -> Staff!TypeOK
      [] Is("courses")   -> School!TypeOK
      [] Is("languages") -> Tongues!TypeOK
      [] Is("bundles")   -> Copying!TypeOK
      [] Is("figures")   -> Counting!TypeOK
      [] Is("sealed")    -> Safe!TypeOK
      [] Is("types")     -> Kinds!TypeOK

(* Every path a public entry ever had leads to one entry that has had it,  *)
(* whatever was renamed, restored, trashed or purged since: see Content.   *)
PathsLead == Is("content") => Writing!PathsLead

(* A time to come that an entry is scheduled for has a job: see Content.   *)
ScheduleHasJob == Is("content") => Writing!ScheduleHasJob

(* Batches of the retention pass spare what came into use or was restored, *)
(* and a day's pass leaves none of what had expired: see Retention.        *)
PassesPurge ==
    [][Is("trash") => Trashcan!SparesTheLive /\ Trashcan!LeavesNoneExpired]_trash

(* A list read page by page to its end has each row that stayed once and   *)
(* in order, while others come and go: see Paging.                         *)
WalksAreComplete == Is("pages") => Lists!WalksAreComplete

(* Moves, archives and additions of cards that overlap keep the order of   *)
(* the cards that nobody moves: see Boards.                                *)
MovesKeepOrder == [][Is("boards") => Board!KeepsOrder /\ Board!Lands]_boards

(* Overlapping changes keep the dependencies of plugins, and the processes *)
(* decide by sets that were committed and drop old ones: see Plugins.      *)
ActivationIsCoherent == Is("plugins") => Switchboard!ActivationIsCoherent

(* The tree of terms stays one, and assignments stay on rows, unless a     *)
(* change commits between a request's checks and its write: see Taxonomy.  *)
TreeHolds == [][Is("terms") => Tags!TreeStep]_terms

(* Who bounced or complained gets no campaign and is not subscribed again, *)
(* unless deleted and added again, however requests and the provider's     *)
(* events overlap: see MailReaders.                                        *)
SuppressionHolds == [][Is("readers") => Post!Withheld' /\ Post!Sticks]_readers

(* A pass leaves no answers that are too old, none outlive their form, and *)
(* what was redacted does not come back: see Forms.                        *)
AnswersAreKeptInTime ==
    [][Is("forms") => /\ Inbox!AnswersStayAway
                      /\ Inbox!NothingOutlives
                      /\ Inbox!PassLeavesNothingOld]_forms

(* Requests for a token and redemptions that overlap leave one token that  *)
(* works, so many in a window, each used once: see Identity.               *)
TokensHold == Is("staff") => Staff!TokensHold

(* Roles are given, and people added, while the roles are there and grant  *)
(* no more than the giver was found to hold when it was authenticated:     *)
(* see Identity.                                                           *)
RolesAreGivenAsRead == Is("staff") => Staff!RolesAreGivenAsRead

(* A closed course changes no more and takes nobody, and no progress is    *)
(* left without its lesson and student: see Courses.                       *)
CoursesSettle ==
    [][Is("courses") => /\ School!SettledStays
                        /\ School!EntersLearning
                        /\ School!ProgressIsOfSomething]_courses

(* There is one default language, a lookup that met no change of it finds  *)
(* a language, and the settings can be read and are those that were given  *)
(* as a whole: see Settings.                                               *)
SettingsHold == Is("languages") => Tongues!LanguagesHold /\ Tongues!SettingsAreRead

(* What an import leaves behind holds together, whatever was edited while  *)
(* the bundle was read: see Portable.                                      *)
ImportsHold == Is("bundles") => Copying!ImportsHold

(* The roll-up of a day counts the events stored of it, however batches,   *)
(* prunes and days follow each other: see Analytics.                       *)
RollupsHold == Is("figures") => Counting!RollupsHold

(* A version of a credential has one payload, a rotation replaced the      *)
(* version it named, and what is revoked does not change: see Credentials. *)
CredentialsStep == [][Is("sealed") => Safe!CredentialsStep]_sealed

(* An entry misfits its type only if it was imported, or its type declared *)
(* or imported, since its fields were last compared: see ContentTypes.     *)
FieldsFit == Is("types") => Kinds!FieldsFit
=============================================================================
