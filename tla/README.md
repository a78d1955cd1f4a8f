# Mavi verification

TLA+ specifications of Mavi's services: the durable workflow machinery, the shop's stock, the
publishing of a site's design, the sending of mail, the runs of flows, the bytes of uploaded files,
and the smaller services of a site, from its entries, their types and paths over boards, accounts,
courses, forms and mailing lists to languages, plugins, analytics, credentials and bundles.
Every definition is written from the source; docs and comments are quoted only as claims to compare
the code with. `PROJECT.json` lists the components, the TLC runs, a mutant for every property, the
source lines behind every definition, the hazards and the theorems.

Run a model with `tlc -config MCShop_stock.cfg MCShop.tla`, check the proofs with
`tlapm M.tla`, where `M` is `WorkflowProofs`, `ShopProofs`, `DesignProofs`, `MailProofs`,
`FlowsProofs`, `MediaProofs`, `SiteProofs` or `AccountProofs`.

## The system

Mavi serves one site from one PostgreSQL database. Rust crates under `src/server` hold one domain
each; `mavi-http` is the API, `mavi-worker` executes background work, and a small Go bridge
(`src/integrations/hatchet-worker`) connects both to Hatchet, the task scheduler. Every request and
every step of a worker is one or a few transactions at READ COMMITTED, scoped to a site by row
level security (`SiteTx`). Nothing is shared between processes but the database, the file store
and Hatchet.

| Component | State it keeps | Operations | Hard behaviour | What makes it correct |
|---|---|---|---|---|
| Workflow outbox and runs (`mavi-application/lib.rs`) | `workflow_outbox`, `workflow_runs` | enqueue, claim, mark published / failed / completed, cancel, pause, resume, replay | relay crash between claim and mark, lost bridge answers, operators racing deliveries | an intent is never lost; its mutation commits once per opening of the run |
| Scheduler (`jobs.rs`) | the run rows as jobs: claim token, attempts, due time | enqueue, claim, complete, defer, fail, retry | leases that lapse under a live executor, frozen `now()` | only the holder of the token changes the run |
| Relay and executor (`mavi-worker`) | none of its own | poll, publish, execute an intent | at-least-once delivery, two executors of one run | see above, and every intent ends |
| Endpoint and run control (`mavi-http`) | none | internal execute route, cancel / pause / resume / replay | check, execute and mark are separate transactions | nothing runs while it is withheld |
| Hatchet bridge (Go) | none | publish, schedule, control, dispatch | duplicate publishes, retries that run out | one run per idempotency key |
| Shop (`mavi-shop`) | products, holds, orders, coupons | checkout, pay / call off / ship / refund, sweep, edits | row locks in several orders, snapshots older than a lock | no piece sold twice or lost, coupon limits |
| Design (`mavi-design`) | changes, files, builds, artifacts in the file store | start, edit, build, publish, roll back | builds racing edits and publishes, artifacts outside transactions | one published change, and it is served whole |
| Mail (`mavi-mail`) | deliveries, attempts, readers, lists, templates | enqueue, campaign, claim, record, retry, suppress | a provider outside the transaction, leases fenced by process | every delivery ends, attempts are told apart |
| Media (`mavi-media`, `mavi-files`) | file rows, bytes in the store, deletion and variant jobs | upload, delete, restore, clean orphans | bytes outside the transaction | a committed row has its bytes |
| Plugins (`mavi-application`) | `site_plugins`, a cache per process | enable, disable, notify, gate | a cache filled after its invalidation, a listener that was not connected | dependencies hold, a stale cache is about to be dropped |
| Content (`mavi-content`) | entries, revisions, former paths, types, schedule jobs | edit, schedule, publish, trash, restore, declare a type | stale and repeated schedule jobs, paths that change hands, types that change under entries | paths lead on, schedules have jobs, fields fit the type they were compared with |
| Trash and retention (`mavi-application/trash.rs`) | rows in the trash across kinds, a policy, daily passes | restore, purge, the pass in batches | a batch read once and used after | a pass purges what expired and nothing else |
| Lists (every service) | none | read a page behind a cursor | rows come and go between two pages | who stayed is listed once, in order |
| Flows (`mavi-flows`) | runs with a copied definition, steps, step jobs | start, record a step, wait | repeated and late step results | a run goes through its steps once, in order |
| Boards (`mavi-boards`) | lists and cards with positions | add, move, archive, trash, restore | moves that race | cards nobody moves keep their order |
| Taxonomy (`mavi-taxonomy`) | terms with a parent, assignments | create, move, trash, assign | checks and writes in two statements, no lock | a tree, and assignments as asked |
| Identity (`mavi-identity`) | people, roles, sessions, keys, one-time tokens and their throttle | set up, sign in, reset, verify, suspend, give roles | redemptions and requests that overlap, roles that change while given | one working token, each used once; roles as the giver was found to have them |
| Courses (`mavi-courses`) | a course with modules and lessons, students, enrolments, progress, instructors | edit, enrol, complete, close, trash | completions and sign-ins without a lock | a closed course settles |
| Forms (`mavi-forms`) | a form, its submissions, daily redaction | submit, edit, close, trash, purge, redact | a submission under way while the form goes | answers are kept as long as the form says |
| Mailing lists (`mavi-mail`) | readers, templates, campaigns, unsubscribe tokens, provider events | add, campaign, unsubscribe, suppress, retry | events that repeat and overlap campaigns | who complained gets nothing |
| Settings (`mavi-settings`) | the settings row, languages | patch the row, create, delete, choose the default, look up | two reads of a lookup, a row written in parts | one default language, settings that can be read |
| Portability (`mavi-portable`) | none of its own | export, import (create, upsert) | an export of several statements while people work | what an import leaves holds together |
| Analytics (`mavi-analytics`) | events, daily roll-ups | record a batch, prune | batches and prunes that lock roll-ups in their own orders | a roll-up counts its events |
| Credentials (`mavi-secrets`) | sealed payloads with a version | create, rotate, revoke, unseal | reads without a lock before the write | a version has one payload, a revocation is final |
| Feedback, audit | rows of their own | one insert each | little | lists only |
| Authorization, contract, edge, panel, migrator | none durable | pure or I/O | none here | not modelled |

Components interact through calls inside one transaction (a domain change enqueues its workflow
intent in the transaction that commits it) and through the executor, which calls back into the
domain crates. So the workflow modules treat a job's mutation as one abstract effect, and the
domain modules treat a job's delivery as "some handler runs, perhaps twice, perhaps dies": the
former shows that this is what deliveries amount to.

## Modules

| Module | Models |
|---|---|
| `WorkflowRows` | the outbox row and the run row of an intent and every SQL statement that changes them, as operators on records |
| `Workflow` | relay, bridge and Hatchet, deliveries with the endpoint's and executor's transactions, operators and their requests, crashes |
| `RunPromise` | abstract specification: an intent is opened once, then commits exactly once or is stopped and never commits |
| `WorkflowRetries` | the same under Hatchet's retries: how many deliveries a task has left, and what is left of an intent when it has none |
| `WorkflowProps`, `MCWorkflow`, `MCSettles` | properties and instances |
| `WorkflowProofs`, `ShopProofs`, `DesignProofs`, `MailProofs`, `FlowsProofs` | the theorems below |
| `Shop`, `MCShop` | products, holds, orders and coupons, one action per stretch between two row-lock waits |
| `Design`, `MCDesign` | changes, builds, claims, artifacts in the store, publish and rollback requests |
| `Mail`, `MailRetries`, `MCMail` | deliveries, attempts, tasks and their handlers, the provider; the retries of a task |
| `Media`, `MediaProps`, `MCMedia`, `MediaProofs` | files from upload to purge, variants and their jobs, cleanup, the sweep for orphans, the store |
| `Flows`, `FlowRetries`, `MCFlows` | flows from authoring to purge, their runs and recorded steps, start and step jobs as `Workflow` delivers them, webhook calls; the retries of a job |
| `Content` | entries, their revisions and former paths, changes between their arrival and their row lock, publication jobs |
| `ContentTypes` | the declared fields of a kind, the entries compared with them, and imports of both, which compare nothing |
| `Retention` | the trash across kinds, things that are busy or referred to, the daily pass and its batches |
| `Paging` | every cursor list of the API: its order, what it shows, its cursor, and one walk through its pages |
| `Boards` | the lists and cards of a board, moves, archives and additions statement by statement |
| `Plugins` | rows, a cache and a policy snapshot per process, notifications and listeners |
| `Taxonomy` | the tree of categories and the terms of entries, checks apart from writes, deletions apart from their commit |
| `MailReaders` | readers, the letters of a campaign, templates, unsubscribe links, events of the provider |
| `Forms` | a form and its fields, visitors' answers, the daily redaction |
| `Identity` | set-up, people, roles and grants, sessions, keys with the grants they were made with, tokens and their throttle, with row locks and deadlock detection |
| `Courses` | the course's state and curriculum, students, invitations, sign-ins, enrolment, progress, instructors |
| `Settings` | set-up, patches of the settings row and its readers, languages, the lookup of a visitor's language |
| `Portable` | the export query by query, the bundle's checks, both strategies of the import, between two sites |
| `Analytics` | batches of events and prunes under the row locks of the roll-ups, a clock in days |
| `Credentials` | credentials, rotations and revocations between their read and their write |
| `Site` | each module from `Content` on as a part of one site. They are checked apart: a behaviour is one of one of them, and the properties of the site are those of its parts. The services keep to the rows of their own part, but for the import, which writes those of content, types, terms and languages; only `ContentTypes` and `Settings` have it among their writers (see the end) |
| `MCSite` | a small instance of every part |
| `SiteProofs`, `AccountProofs` | the theorems about the parts: those of what a site holds, and those of its people and what it exchanges with others |

How state corresponds to code. A table is a function from keys to records whose fields are the
columns that conditions read; a process in the middle of a handler is a record with a program
counter and the locals it still uses. A transaction that takes no row lock another one may hold is
one action. A handler of several transactions, or one that waits for a row lock, is one action per
stretch, with what it read before the wait kept in the record, as PostgreSQL keeps a statement's
snapshot. A lock is a field or a set; who waits for whom is derived from the program counters
(`Shop!WaitsFor`), and PostgreSQL's deadlock detection is an action (`Shop!Victim`). Timestamps
that are only compared with the clock are booleans that an action flips (`due`, `live`,
`expired`). Wording, payloads, prices, audit rows and receipts are left out. History
variables, which the code does not have, are named as such where they are declared; they count
mutations, provider calls and supplied stock.

PostgreSQL, Hatchet, the file store and the mail provider are external: they appear as the
operations the code uses, with their documented guarantees (atomic transactions, row locks, unique
indexes, delivery at least once) and no others.

## Runs

Bounds are constants of the MC modules: how many failures, crashes, lapses of a lease, duplicates,
operator requests or edits happen, and how often. They are spent by guards, so any interleaving of
the bounded events is explored. The type invariants of `Workflow`, `Design`, `Mail`, `Flows` and
`Media` are proved and not run.

| Run | Instance | Shows |
|---|---|---|
| `workflow_control` | one intent scheduled or not, two deliveries, two operators with every request; at most two of a failure, a lapse and a duplicate in one behaviour, or a crash, or a switch of the plugin, the last two and a failure with a duplicate under one request (`TwoFaults`) | the mutation commits at most once per opening, never while paused or cancelled; only an operator reopens an ended run |
| `workflow_settles` | no operators; at most three of a failure, crash, lapse, duplicate and plugin switch (`ThreeFaults`); four retries | intents are not lost and end, but for those whose retries a dead claim's lease used up; refinement of `RunPromise` |
| `workflow_executed` | one delivery, one operator who pauses | refuted: completed means executed |
| `shop_stock` | three checkouts, two of one attempt, a clerk, a sweep, an edit, two products | stock is accounted for and holds follow orders, one order per attempt, the stock stays in its column's range |
| `shop_live` | two checkouts with a coupon, a clerk, a sweep, an edit, a lost connection | every request ends, by an answer or as the victim of a deadlock that is detected |
| `shop_coupon` | two checkouts of different products, one single-use coupon | refuted: the limit of a coupon |
| `design_publish` | three changes, three builds, two overlapping publishes or rollbacks, a lapse | one published change, which points to a ready build of its own |
| `design_serial` | one change, no lapses, a crash, failures | served bytes are those recorded, every build ends |
| `mail_send` | a campaign message, two handlers in one or two processes, three attempts and three retries; at most four of one of each fault and one double hand-out (`FourFaults`) | one attempt is open at a time, attempts and delivery agree and sent is final, duplicates have a cause, deliveries end, but for those that deliveries before their time used up |
| `media_rows` | an image, two executions of its variant job, a cleanup, sweeps, a restore, one fault | rows keep their bytes but for named races, everything else is removed |
| `flows` | one flow of three steps or one, two workers, one change by its author, one replay, failure or crash, and lapse, one retry of each job | effects follow the steps in order and match the record, a repeated webhook has a cause, runs only advance, and end unless their job is given up |
| `site` | the fifteen parts below | what each promises under overlapping requests |

The parts of `site`, with what their property says (the names are those of `Site`):

| Part | Instance | Property |
|---|---|---|
| `Content` | two entries, two paths, three requests, a trash, replay or type change, three points in time | `PathsLead`: every path a public page had leads to it or to its successor; `ScheduleHasJob` |
| `Retention` | three things, one that may be busy and one referred to, batches of two, three days, one trashing, one change or crash | `PassesPurge`: a batch purges nothing restored or busy, a pass leaves nothing expired but what may be busy |
| `Paging` | every listing, three rows, pages of one, two edits | `WalksAreComplete`: who stayed comes once and in order |
| `Boards` | four cards, three lists, two clients, two requests | `MovesKeepOrder`: but for two races, only the moved card changes its order, and lands before the card that was named |
| `Plugins` | three plugins in a chain, two processes, two clients, a reader | `ActivationIsCoherent`: dependencies, committed sets, stale caches about to be dropped |
| `Taxonomy` | three terms, an entry, two editors, three operations | `TreeHolds`: a tree and the assignments asked for, unless a commit comes between check and write |
| `MailReaders` | three readers of two addresses, a campaign, an event, two clients | `SuppressionHolds`: who bounced or complained gets no campaign and is not subscribed again, but where the reader was deleted and the address added anew, and in the other cases the module names |
| `Forms` | a submission, three lists of fields (one that names a key twice), four sets of answers, three days, two changes | `AnswersAreKeptInTime` |
| `Identity` | two people, two roles, three tokens, two sessions, two clients, three requests | `TokensHold`: one working token, each used once, so many in a window; `RolesAreGivenAsRead`: a role is given while it is there and grants no more than the giver was found to hold when authenticated |
| `Courses` | two modules, two lessons, a student, an instructor, two clients, four requests | `CoursesSettle`: what is closed or trashed stays as it was, progress never outlives its lesson |
| `Settings` | three tags of two languages, a visitor, three writes, each a language, an import or a patch of any fields | `SettingsHold`: one default language, and a lookup finds a language unless the default changed under it; the settings row can be read, with a sender and retention windows that were given as a whole |
| `Portable` | two sites, an entry, two terms, three languages, four edits, an export, two imports | `ImportsHold`: current revisions are archived, assignments refer to what is there |
| `Analytics` | two roll-ups, three batches, two policies, two clients, four days | `RollupsHold`: a roll-up that no window has passed covers its stored events, exactly until the first may be pruned |
| `Credentials` | two of one name, two payloads, two clients, five calls | `CredentialsStep`: a version has one payload, a rotation replaced the version it named, revocations are final |
| `ContentTypes` | a key of three kinds, an entry, two authors, four edits or imports | `FieldsFit`: an entry misfits its type only if it was imported, or the type declared or imported, after the last comparison |

`SiteTypeOK` holds the type invariants of all of them. Clients are interchangeable, and so are the
entries of `Content`; the run uses that as its symmetry, which is sound since it checks no liveness.

The bounds are enough in this sense: every hazard is about two actors and one fault between two
steps of one of them. Each run has two of every actor that can race and at least one of each
fault, so every order of two actors' steps around one fault is reached; three checkouts, builds or
attempts let one of them be stale while two others meet. For each property a mutant in
`PROJECT.json` shows that the run reaches the case it is about. Deadlock checking is off where
everything may simply have ended.

## Fairness

Safety properties need none, and the theorems assume none: `Spec` of `Workflow`, `Mail` and `Flows` lets
Hatchet deliver a task any number of times, or never. Whatever holds of it holds under retries,
since a step of `RetryNext` is a step of `Next`, or changes nothing but counters.

For liveness `Fairness` of these three modules assumes that a worker which has begun goes on (weak
fairness of its steps: the executor awaits nothing but database, provider and webhook, all under
timeouts), that the relay polls (`run_once` in a loop), and that leases lapse and due times pass
(they are compared with the clock). It assumes nothing of Hatchet. `WorkflowRetries`, `MailRetries`
and `FlowRetries` add that: a task is handed out once and again after each answer that is an error,
`Retries` times (`maxTaskRetries`, 25, at `main.go:40, 83`), and `RetryFairSpec` has weak fairness of
handing out a task that has deliveries left. Then Hatchet gives it up. Its outbox row is published by
then, so no relay asks again; the polling loops of the worker have no caller
(`mavi-worker/src/lib.rs:391-393`). With a backoff of at most a minute all retries take about twenty
minutes. A lease lasts five by default and may be configured to a day (`jobs.rs:25`), and a mail
provider may ask for a wait of up to a day (`mavi-worker/src/lib.rs:1978-1985`): a delivery that comes
before that is answered with an error and spends a retry (`early`). So the liveness properties say
what is left over: an intent (`EveryIntentSettles`) or a message (`EveryDeliveryEnds`) may stay where it
is if its retries are gone and one of them came too early, and a run of a flow (`RunsEnd`) if its job's
retries are gone, for whatever reason, because a step that fails every time is never recorded as failed.
Without the excuse they are refuted (`ExhaustedIsFailed`, `RetriesCarryAttempts`, `FailureEndsRun`).

Instances have fewer retries than the code and fewer faults in proportion: four retries against three
faults of an intent, three retries and attempts of a message, as the code has 25 of both. Faults
alone would use up the retries if there were more of them than retries, as 26 crashes would in the
code; nothing is claimed of that. The constraints that bound how many faults meet in one behaviour cut
off no fair behaviour of those that remain, because no fair action spends them.

`Shop` assumes that a request goes on and that a row lock is granted to a waiter again and again
released to it (PostgreSQL queues waiters, hence strong fairness), and no fairness of buyers and clerks.
`Design` assumes the same of builds, `Media` of executions, sweeps and the maintenance tick, which recurs
and is enqueued anew each time; both assume also that their tasks are delivered until they are done,
with at most one or two faults where the code has 25 retries. `Content` and `Retention` state the same of
the clock, the maintenance tick and their jobs, for `ScheduledComesOut` and `ExpiredArePurged`,
which no run checks. The other parts of the site assume nothing: their properties are about what happens,
not that it does. Crashes, failures, lapses and requests are never fair; they are finite by their bounds.

## Disagreements between code and documentation

In the runs, with the quoted claim in `PROJECT.json`:

- A run that is paused while it waits for its executor is marked completed though its mutation never ran (`workflow_executed`).
- Two overlapping checkouts both use a coupon of a single use (`shop_coupon`).

A further one is refuted by a configuration beside the runs:

| Config | Property | What the code does |
|---|---|---|
| `MCWorkflow_block.cfg` | `PendingIsPublished` | a completed intent of a disabled plugin blocks the outbox |

Stated in the modules and refuted by TLC when they are added to the configuration named, or to that
of `MCSite`:

| Definition | What the code does |
|---|---|
| `WorkflowProps!LiveClaimIsKept` (`MCWorkflow_control.cfg`) | the error answer of a late delivery is recorded over the live claim of another |
| `WorkflowProps!PausedUntilOperator` (`MCWorkflow_control.cfg`) | a failing delivery that began before the pause ends it |
| `WorkflowRetries!ExhaustedIsFailed` (`MCSettles.cfg`, an invariant) | a run whose retries ran out under the live lease of a dead claim reads running, against `mavi-application/src/lib.rs:1479-1482` |
| `MailRetries!RetriesCarryAttempts` (`MCMail_send.cfg`) | deliveries that come before a wait the provider asked for use up Hatchet's retries, against `hatchet-worker/main.go:36-39` |
| `MailRetries!RequeuedIsTried` (`MCMail_send.cfg`) | a dead delivery that is queued again fails on the numbers of its earlier attempts for ever, though `mavi-mail/src/deliveries.rs:252` says it requeues it |
| `FlowRetries!FailureEndsRun` (`MCFlows_runs.cfg`, also with `Failures = 2` and no other fault) | a step that fails every time leaves its run running, though `docs/flows.md:51-52` says it stops the run and says why: the worker never records `StepOutcome::Failed` |
| `Shop!UnpaidLetsGo` (`MCShop_live.cfg` with `Sweeper = {}`) | nothing calls the sweep of unpaid orders |
| `Shop!WrittenIsAnswered` (`MCShop_stock.cfg`) | a retried checkout is refused for stock that its own first request holds |
| `MediaProps!RowHasBytes` (`MCMedia_rows.cfg`, an invariant) | the sweep for orphans removes the bytes of an upload that commits after the sweep has read the rows, against `server/FEATURE_MATRIX.md:133` |
| `MediaProps!CandidatesOnly` (`MCMedia_rows.cfg`) | a variant job done twice removes the bytes of the row it made, when its file is in the trash |
| `MediaProps!VariantsConverge` (`MCMedia_rows.cfg` with two files, one runner, no faults) | an image trashed while its job runs, and then restored, keeps every later image from being rendered |
| `Design!NeverNonePublished` (`MCDesign_serial.cfg`) | a second build of a change ends after the change was published and no site is published |
| `Design!ReadyBuildsImmutable` (`MCDesign_serial.cfg` with `Lapses = 1`) | a delivery whose lease lapsed removes or replaces artifacts of a ready build |
| `Design!BuildsItsSnapshot` (`MCDesign_publish.cfg`) | a build reads the files of when it runs, not of when it was asked for |
| `Content!NoScheduleIsLost` | an entry whose schedule commits after the job of that time was skipped, or that is restored after it, is never published; the job's key keeps a second one from being enqueued |
| `Retention!NothingIsInTheWay` | one file that a lesson shows, or a batch of busy things, keeps everything else in the trash, though `server/FEATURE_MATRIX.md:149` says the kinds are covered |
| `Retention!PurgedInTime` | what is restored and trashed again after a batch was read is purged before its days are over |
| `Paging!WalksGoOn` | the cursor of a list may be longer than `Cursor::parse` takes, and the next page is refused |
| `Paging!NothingCommittedIsPassed` | a row is stamped when its transaction starts and may be committed behind a walk |
| `Boards!OrderIsKept` | an archive whose list changed while it waited writes the order it had read |
| `Boards!MovesSucceed` | on its way into a longer list a card has a position that is taken, and the move fails |
| `Boards!TrashRestores` | a card added while the board went to the trash takes the place of the first, and the board cannot be restored |
| `Plugins!CachesConverge` | a reading under way at the commit fills the cache with what was before; a listener that is not connected hears nothing |
| `Taxonomy!NoCycles` | two overlapping moves close a cycle |
| `Taxonomy!NoUnion` | two overlapping replacements leave the union of both |
| `MailReaders!ComplaintsAreKept` | an unsubscription replaces a complaint |
| `MailReaders!LinksUnsubscribe` | the link in a letter to a reader who was deleted and added again does nothing |
| `MailReaders!OneTextPerCampaign` | the template may change while a campaign is queued |
| `Forms!ClosedIsClosed`, `Forms!AnswersFit` | a form read before it is closed or changed takes the submission after it |
| `Identity!LocksAreOrdered` | requests for a token and redemptions lock the person and the token in opposite orders; PostgreSQL aborts one |
| `Identity!GiversStillHold` | the giver of a role has lost the grants since it was authenticated, or its key never loses them |
| `Identity!SomebodyManages` | two managers may suspend each other, and an assistant its own person |
| `Courses!ClosedTakesNoProgress`, `Courses!ProgressIsOfTheEnrolled` | completions take no lock |
| `Settings!ResolverFindsALanguage` | the default that a lookup read is replaced and deleted before its second read, against the comment at `mavi-settings/src/lib.rs:929-932` |
| `Portable!EditsGoOn` | an upsert of an older bundle leaves an entry at a number whose successor is archived; it cannot be edited again |
| `Portable!SchedulesHaveJobs` | an import writes schedules and enqueues nothing |
| `Portable!SitesCanBeExported`, `Portable!BundlesCanBeImported` | an entry in a deleted language, or a category restored from under a trashed one, spoils the bundle |
| `Analytics!DroppedStayDropped` | an event that comes late makes the roll-up of a dropped day anew |
| `ContentTypes!OtherEditsGoOn` | an edit of another column is refused once the type has changed under the fields |

Nothing in the repository's sources calls `FlowService::emit`; the model lets any event be emitted at
any time.

## Proofs

`WorkflowProofs` proves for all intents, deliveries, relays, operators and budgets, from the
constants' assumption `WorkflowAssumption` alone:

- `TypeCorrect`: `Spec => []TypeOK`, by the invariant `TInv == TypeOK /\ KeysHeld`. `KeysHeld`
  (a busy relay, delivery or operator works on a key) is needed because what a busy process writes
  is indexed by it.
- `EffectOnce`: `Spec => []AtMostOneEffect`, and `WithheldStopsEffects`:
  `Spec => [][NoEffectWhileWithheld]_vars`, by `FInv == TInv /\ RowsFenced /\ EffectsCounted /\
  LockInv`. Counting effects alone is not inductive: what keeps the second mutation out is that a row
  carries a claim token only while its run is running and its outbox row is not withheld
  (`RowsFenced`, for every statement that writes a row), that a row locked by a claim in progress
  is not completed, paused or cancelled (`LockInv`), and that a completed run is one effect ahead
  of its openings at most (`EffectsCounted`).
- `EndedUntilOperator`: `Spec => TerminalUntilOperator`, from the same invariant: every statement
  that writes a row keeps an ended run's status unless it is an operator's, and the completion of a
  late delivery, which would not, cannot commit because an ended run carries no claim token.
- `ImplementsPromise`: where operators may only cancel, `Spec => RunPromise!Spec` under the mapping of
  `WorkflowProps`. `PInv == FInv /\ Opened /\ NeverPaused /\ OkIsEnded` adds what the
  mapping needs: rows exist before anything works on them, no run is paused, and a delivery
  that answers Ok does so for a run that is completed or cancelled.

`MediaProofs` proves for all files, runners, faults and restores, from `MediaAssumption`:

- `TypeCorrect`: `Spec => []TypeOK`, which says also that a variant has the row of its file.
- `RowsKept`: `Spec => []RowsKeepBytes`, by `TInv /\ BytesInv`. That owned keys have bytes is not
  inductive: it needs that the bytes of an upload stay until its row commits, that cleanups work on
  files that are gone, that what a sweep is about to remove is exposed, and that an execution
  whose key is not exposed is alone with it (`RunnersUndisturbed`). It names exactly what the
  code relies on and does not enforce: no upload commits across a sweep's two reads, and no
  variant job is done twice.

`DesignProofs` proves for all changes, builds, workers, editors and paths, from `DesignAssumption`:

- `TypeCorrect`, by `TInv == Tables /\ References`: whoever is busy works on rows that there are.
- `PublishedOnce`: `Spec => []OnePublishedReady`, by `PInv == TInv /\ ChangesReady /\ EditorsReady
  /\ AtMostOne`. The invariant must also speak of a request between its lock and its writes
  (`EditorsReady`): what it has read to publish stays a ready build of its change.
- `ServedAsRecorded`: where `Lapses = 0`, `Spec => []ReadyBuildsImmutable`, by `IInv == TInv /\ Claimed
  /\ PutSoFar /\ ReadyBuildsImmutable`: a build has one worker, its claim's owner, for as long as
  it is queued, and what that worker has put is in the store. The hypothesis is the one of
  `design_serial`, and it is needed: with one lapse that configuration refutes the property.

`MailProofs` proves for all messages, handlers, processes, attempts and faults, from
`MailAssumption` (handlers are finitely many):

- `OneIsOpen`: `Spec => []OneOpenAttempt`, and `SendsAccounted`: `Spec => SendsAreAccountedFor`, by
  `AInv == TInv /\ OpenIsCounted /\ NumbersUsed /\ SendsAreFresh /\ CurrentOwns /\ SentIsAccepted`.
  That calls carry fresh numbers needs that every number handed over and every number of an
  execution has an attempt row, which nothing deletes, and that no two executions share one
  (`NumbersUsed`); that sent is final needs that whoever passes the fence of the open attempt is
  its execution (`CurrentOwns`).
- `DuplicatesCaused`: `Spec => []DuplicatesHaveACause`, by `CInv == AInv /\ Counted`. The bound is
  inductive only when it also counts what may still be accepted: executions on their way to the
  provider, and the one that a delivery which is not at rest will have.

`ShopProofs` proves for all products, checkouts, baskets, coupons and stocks, from `ShopAssumption`
(products and checkouts are finitely many):

- `TypeCorrect` and `OneOrder`: `Spec => []OneOrderPerAttempt`, by `TInv == Tables /\ MovesHold /\
  NoneYet /\ HoldsFollow`: a mover between two waits holds the row locks of orders that may move
  (`MovesHold`), and a checkout that is not at its end has no order yet (`NoneYet`).
- `StockIsAccounted`: `Spec => []StockAccounted`, by `TInv /\ OnShelf`. What orders have taken is a
  fold over the checkouts, whose order the library leaves open. The first part of the module proves
  that such a sum exists and that changing one or several terms changes it by their difference.
  Induction over finite sets would need the library's induction theorem, which takes an operator;
  the proofs take a minimal counterexample instead, which there is since strict subsets of a finite
  set are well founded.

`FlowsProofs` proves for all flows, events, step lists, workers and faults, from `FlowsAssumption`
(there is a flow, an event and a step list; no list is empty, as `validate_steps` has it):

- `EffectsFollow`: `Spec => []EffectsFollowSteps`, by `EInv`. That effects follow the steps is kept
  by what holds of the work under way: a job exists only for a position whose predecessors are
  recorded (`JobsAreReady`), a worker past its load is at such a position, with its call arrived if it
  records a webhook, or its flow was purged under it (`WorkIsReady`), a purged flow has no rows and
  does not come back (`GoneIsEmpty`), and an ended run has recorded every step (`EndedIsDone`).
- `RepeatsCaused`: `Spec => []RepeatedPostHasCause`, by `CInv`: as long as nothing has failed,
  lapsed or been replayed, whoever works holds the live claim of its job, and a call that arrived is
  of a job that is completed or is being recorded.
- `RunsAdvance`: `Spec => RunsOnlyAdvance`, by `AInv`: a run stands at a recorded position, and without
  a replay the jobs of recorded positions are completed, so that a result is never one of an
  earlier step.

`SiteProofs` and `AccountProofs` prove the properties of the parts of `Site`, each as
`SiteSpec => []P` or `SiteSpec => [][A]_v` for all values of all constants, from `SiteAssumption`,
which is the conjunction of the parts' assumptions. The argument is the same in all: a step of the site is a
step of its one moving part or changes nothing (`PathsMove`, `TokensMove` and the like), and the invariant of that part
is kept by each of its actions. What the invariants add to the property, which alone is not inductive:

| Theorem | Property | Invariant, and why it is needed |
|---|---|---|
| `PathsLeadToEntries` | `PathsLead` | `PathsInv`: what an entry has had is where it is or was left behind by it, and who left a path is there and has had it. A path's latest leaver is found by its place in the table, so the proof follows one sequence that only grows |
| `SchedulesHaveJobs` | `ScheduleHasJob` | `ScheduleInv`: before its time comes no job of it is completed; so a schedule written again, whose job's key is taken, still has one to run |
| `FieldsHold` | `FieldsFit` | `FieldsInv`: the fields that an author has compared, and no declaration or import of the type came since, are those the type accepts |
| `ActivationHolds` | `ActivationIsCoherent` | `ActivationInv`: one change at a time has the rows, and its check holds until it commits (`OneHasTheRows`); what readers carry was committed (`ReadingsWereCommitted`) |
| `PassesArePurges` | `PassesPurge` | `TrashInv`: what a batch has deleted stays trashed and free until its commit, and what the last batch leaves out is younger than the site keeps |
| `WalksAreWhole` | `WalksAreComplete` | `WalkInv`: what was read is not behind the cursor, and what stayed is read or behind it (`NotBehind`). A page is a prefix of the order, so the proof needs that the order is total: the ranks of its rows are all different and fill the page (`Ranking`) |
| `TreeIsKept` | `TreeHolds` | `TreeInv`: what a request has checked holds unless another committed (`ChecksHold`), and a deletion keeps the rows it has changed until its commit. No cycle is closed because the ancestors of a term are the least set closed under parents, and such a set is found again after the move |
| `SettingsAreKept` | `SettingsHold` | `SettingsInv`: the columns of a sender and of a pair of windows come from one patch (`Whole`); who is between the two reads of a lookup has read the default there is, unless it changed |
| `CardsKeepOrder` | `MovesKeepOrder` | `BoardInv`: a move that has the board locked numbers the lists as they still are (`Ordered`), since every other commit that changes rows waits for it, and has written those numbers (`WroteMove`); what an archive has written of its list has the numbers it read (`WroteRest`). Each card is added by one request and no row is of a card that is not there, so an added card passes nobody |
| `ImportsAreWhole` | `ImportsHold` | `PortableInv`: a bundle that is being read has, once the revisions are read, none beyond the entry's number (`Abreast`), but for entries edited meanwhile |
| `CredentialsHold` | `CredentialsStep` | `CredentialsInv`: nobody was told of a version the row has yet to reach, and who was told of the row's version was told its payload (`AnswersFollow`) |
| `RolesHold` | `RolesAreGivenAsRead` | `RolesInv`: a request that gives a role comes from somebody, so set-up, which writes roles unread, is over (`SomebodyIsThere`). The grants it compares with are those it was authenticated with, of the person or of the key; that the giver has them still is not proved, nor true (`GiversStillHold`) |
| `TokensAreSafe` | `TokensHold` | `TokensInv`: the locks of the person and of the token, with what was read under them (`RequestHolds`), and that the throttle counts the tokens of its window (`WindowCounts`) |
| `CoursesAreSettled` | `CoursesSettle` | `CoursesInv`: edits and enrolments under way hold a course that takes them, and progress is of lessons and students that are there |
| `SuppressionIsKept` | `SuppressionHolds` | `SuppressionInv`: an address has one live reader, and no letter to a suppressed one may still be tried, a letter that is being sent included (`NoneIsOnItsWay`) |
| `AnswersAreKept` | `AnswersAreKeptInTime` | `AnswersInv`: a visitor under way has a row of its own that is not inserted yet, so nothing redacted or purged is inserted again |
| `RollupsAreExact` | `RollupsHold` | `FiguresInv`: a batch's own roll-ups are those committed with its own events added (`AddedUp`), which holds because the row locks are disjoint and no other batch has its number; what a prune is about to take is before a window (`Pruning`) |

Three things made these proofs possible, and are as close to the source as what they replaced. Where a
query orders rows, the models say how many rows come before each one (`Rank`) instead of calling a library sort, whose
recursion the prover cannot follow; `Ranking` proves by counting that ranks number a finite set through, and a
page or a batch is the rows of the first ranks; the order of a list of cards is such a numbering too. The ancestors of a term, which the code takes by
`with recursive ... union`, are the least closed set. The sum of the values of events is the number of
units in them, a cardinality, whose theorems the library has. In `Paging` the proof found two guards of
one `CASE` that overlapped; they are now told apart.

What the parts assume of their constants is what the code has: there is a process, a slug, a first
value of each kind; the windows of the throttle and of retention are positive, as the validation of
the settings says; a sender has an address and a name, a policy its two windows; the things in a
trash and the rows of a list are finitely many. A marker for what is not there is none of the values.

Each inductive invariant was first checked by TLC on the instance of a run (those of `Media` with
two faults). Only model-checked are all liveness (fairness and `ENABLED` are outside the prover)
and `SiteTypeOK`, of which the invariants above prove the parts they need.

## Not modelled, and the plan

Not modelled: evaluation of policies by Cedar (a pure library call), the HTTP router's parsing, the
generated contract and MCP descriptions, the edge, sealing (cryptography), the audit log and
feedback beyond their lists (one insert in the caller's transaction), the composition root, the
panel, the WordPress migrator and the scripts. Left out of modelled parts, as values of one row:
titles and texts of cards, names and slugs of tags, the time zone, expiry of
invitations, and wording, receipts and audit rows everywhere. What an import writes is checked within
`Portable`, among other edits of entries and their declared types in `ContentTypes`, and among other
writes of the settings row and the languages in `Settings`. It is no writer of `Content` (paths, schedules)
or `Taxonomy`, so `PathsLead`, `ScheduleHasJob` and `TreeHolds` say nothing of sites that import. An import may also bring a declaration that no request could have made
(`validate_content_types` looks at its size and that it is a list,
`mavi-portable/src/lib.rs:923-938`); nothing of it can be read then, and `ContentTypes` leaves it out.

Next, in order:

1. `PathsLead` as a refinement: a map from paths to entries that only renames change.
2. `SiteTypeOK`, part by part, from the invariants that are proved.
