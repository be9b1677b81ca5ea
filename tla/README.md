# A verification development of queue-flow

TLA+ models of queue-flow's queue engine and of the services around it, the TLC
configurations that check them on small instances, and TLAPS proofs of what
matters most for every size. Paths below are relative to `src/` unless they
begin with a service's name. PROJECT.json holds the same facts for tools: the
components, the lines each definition models, the hazards, the runs, a mutant
for every property, and the theorems.

## 1. The system

queue-flow runs a walk-in queue for a store: a kiosk issues numbered tickets,
staff at counters call, serve, skip and transfer them, a TV shows and speaks the
calls. One NestJS process (core-api) owns the state in PostgreSQL and broadcasts
events over a WebSocket (`/ws`); four React applications and a Python speech
service are its clients.

| Component (where) | State it keeps | Operations | Talks to |
|---|---|---|---|
| queue engine (`services/core-api/src/application/queue`, `domain/queue`) | rows of `tickets`, `archived_tickets`, `sequence_counters` | create, call next, apply transition, transfer, re-announce, daily reset, clean-up | PostgreSQL; the event dispatcher after a commit |
| re-queue position (`requeue-position.helper.ts`) | none | KEEP, TO_BACK, BACK_N with renumbering | the rows of one category |
| PostgreSQL persistence (`infrastructure/persistence/postgres`) | tables, row locks | `FOR UPDATE`, upserts, targeted UPDATEs, one transaction per command | everything above |
| store configuration (`application/store-config`, `domain/store-config`) | categories, routing rules, `system_configuration` | validate, save (replace all), read back, project | the scheduler, the broadcast |
| daily reset scheduler (`infrastructure/scheduler`) | the armed cron and its job | boot, re-arm, fire | store configuration, queue engine |
| realtime broadcast (`interface-adapters/websocket`) | connected clients | broadcast an event | all screens |
| identity (`application/identity`) | users, sessions | log in and out, create and delete users, first set-up | PostgreSQL |
| licensing (`application/licensing`, `infrastructure/licensing`) | the installed licence, the clock's high-water mark, a cached verdict | activate, evaluate, heartbeat | PostgreSQL, the command guard |
| reporting (`application/reporting`) | none | daily, counter and range reports over the tickets and their archive | PostgreSQL |
| tv-display-service | what is on the board, its in-flight refetch, the announcement queue | project events, refetch, play | broadcast, query API, tts-service |
| caller-service | a counter's lists, commands in flight | project events, refetch, send commands | broadcast, command API |
| kiosk-service, printing | the page shown, prints in the background | issue a ticket, print its receipt, return | command API, three kinds of printer |
| admin-service | a form, a canvas or a draft per page, a shared copy of the configuration | edit, save, read again; the wizard of the first run | configuration and user API |
| tts-service | a directory of clips, the settings it last fetched | synthesise, cache, evict | core-api's settings |
| in-memory persistence, audit log, bootstrap, gateway, licence tooling, scripts | see section 6 | | |

### What makes it hard

* **Concurrent commands.** Several counters press *Next* at once; transitions,
  transfers and re-announcements read a row without a lock and upsert the whole
  of it later. READ COMMITTED lets each statement see another world.
* **Locks taken one row at a time.** The archiving reset, the renumbering and
  the replacement of the configuration lock many rows in table order, and wait.
* **Crashes.** A power cut between two statements, between the commit and the
  broadcast, or between the two calls that end the first set-up.
* **Time.** Numbers are per day; a request can begin before midnight and write
  after it; the reset itself runs at midnight; a licence lapses while the clock
  of the host is turned back.
* **Two channels to each screen.** Events and answers overtake each other; a
  screen may miss any number of events while it is disconnected.
* **Checks that await.** The guard of a request, the evaluation of a licence and
  the count of administrators each read several times with awaits between.
* **State held twice.** The armed cron and the policy stored; the clips on disk
  and the settings they were rendered with; the canvas, its form and the flow
  stored; a page's draft, the shared copy and the document on the server.

### What makes each part correct

* *Queue engine*: a ticket is called by one counter only and in the counter's
  order; no number is given twice or skipped; no ticket disappears; an event is
  only about a committed change; every request is answered.
* *Re-queue position*: a renumbering changes orders and nothing else.
* *Store configuration*: rules name stored categories; a save replaces the
  previous configuration; overlapping saves end; a document is stored and read
  back as it was sent. *Scheduler*: it runs a policy that was saved, and between
  saves the stored one.
* *Identity*: a revoked session admits nothing; no session without a user.
  *Licensing*: turning the clock back gains nothing; once activated a store is
  never without a licence, and the cached verdict catches up.
* *TV*: the board converges to the queue; announcements are spoken one at a time
  and never stop for good. *Caller*: a counter's lists are the server's when all
  is quiet. *Speech*: a clip says what was asked, in recent settings. *Kiosk*: a
  visitor sees the ticket that was issued, for long enough, and it prints once.
* *Admin*: what the editors show is what is stored; what they save is accepted;
  a page reverts nothing another page saved; the first set-up ends with somebody
  able to sign in; a report adds up.

## 2. Modules

Each component has a module of its own; a module `...MC` gives constants their
values and may compose several components for one run. The composed components
have no state in common there, so the initial state says which of them runs and
the others stand still.

| Module | What it is | Composed in |
|---|---|---|
| `QueueTicket` | the aggregate: the row and what each command makes of it; the flow (`StateMachine`) | `TicketQueue` |
| `RequeuePosition` | `computeRepositionPlan` for BACK_N | `TicketQueue` |
| `TicketQueue` | the seven commands as concurrent requests over the three tables | `TicketQueueMC` |
| `StoreConfiguration` | concurrent saves of the configuration and the scheduler they re-arm | `StoreConfigurationMC`, `ConfigurationMC` |
| `ConfigBoundary` | the way of one document: guard, value objects, row, aggregate, projection | `ConfigurationMC` |
| `Announcer` | what the board relies on (`AudioProvider`): announcements are spoken one at a time, in order, and a stop silences them all. Abstract | `AudioQueue` |
| `AudioQueue` | `QueuedAudioProvider` over `RemoteAnnouncementAudioProvider` and the browser; INSTANCEs `Announcer` with a refinement mapping | `BoardsMC` |
| `TvBoard` | the TV's store and socket against a core-api that commits requests and broadcasts their events | `BoardsMC` |
| `CallerPanel` | one counter's workspace against a core-api that commits everybody's commands | `CallerPanelMC` |
| `Filter` | `Array.prototype.filter` on sequences, as an operator | `TvBoard`, `CallerPanel`, `ConfigPages` |
| `Identity` | users, sessions, the guard of a request | `ServicesMC` |
| `LicenceVerdict` | `HostFingerprint.match` and `evaluateLicense`, as operators | `Licensing` |
| `Licensing` | evaluations and activations over the licence tables and the cached verdict | `ServicesMC` |
| `Announcement` | the words of a ticket and the joining of its clips, as operators | `SurfacesMC` |
| `Synthesis` | the threads of the tts-service over the disk cache, and the browser's cache | `SurfacesMC` |
| `Receipt` | the accepted printers and `wrapStoreName`, as operators | `SurfacesMC` |
| `Kiosk` | the kiosk's pages, timers and prints | `SurfacesMC` |
| `TvLayout` | the editor of the TV board's layout | `SurfacesMC` |
| `FlowEditor` | the designer of the status flow: form, canvas, signature, save, read back | `AdminMC` |
| `FlowForm` | the same flow edited as the rows of the wizard; EXTENDS `FlowEditor` | `AdminMC` |
| `ConfigPages` | the configuration pages over their shared copy of the document | `AdminMC` |
| `Reports` | the statements of the reports while the queue goes on, and the range page | `AdminMC` |
| `SetupWizard` | the first run: wizard, setup endpoints and guards, in several browsers | `AdminMC` |
| `*_proofs` | the theorems of a component, or of the components of one run (section 5) | |

### How `TicketQueue` corresponds to the code

*State.* `tickets`, `archived` and `sequences` are the three tables as
committed. A transaction's own writes are kept by its request until `Commit`,
since nobody else can see them: `row[p]` is the aggregate it holds, `done[p]`
the other rows it has dealt with, `cmd[p]` the command with the clock it read.
`rowLock` and `seqLock` are the row locks. `announced` is what clients last
heard of a ticket; `issued`, `round` and `purged` are history, for the properties.

*Actions.* A request begins with the action named after its use case
(`CreateTicket`, `CallNext`, `ApplyTransition`, `Transfer`, `Reannounce`,
`ResetDaily`; `Cleanup` is one statement), which performs the unlocked reads and
checks at the beginning of that use case and sends it to its first writing statement:

| Action | Statement |
|---|---|
| `Reserve` | `nextTicketNumber`: the upsert of the day's counter |
| `LockNext` | one row of `findNextWaiting`'s `FOR UPDATE`, re-checked on the row as it is once locked |
| `NothingToCall` | no row left, or no WAITING→CALLING edge |
| `PlanRequeue` | `findWaitingByCategory` and `computeRepositionPlan` |
| `Save` | the whole-row upsert of the aggregate |
| `AssignOrder` | one sibling of `assignWaitingOrders` |
| `ArchiveRow`, `InsertArchived` | the `DELETE ... RETURNING` of `archiveTicketsBefore`, row by row, and its INSERT, whose primary key may clash |
| `ResetSequence` | `resetDaily`, counter by counter |
| `Commit`, `CommitReset` | COMMIT: the writes become visible and the locks are given back |
| `Dispatch` | the broadcast after the commit |
| `Abort`, `DeadlockVictim`, `Crash`, `Tick` | a failing statement, PostgreSQL's deadlock detector, a power cut, time |

*Abstractions.* Ids are model values; the three lifecycle timestamps are kept
as whether they are set; the printed number is its sequence value with the
category and day it was minted under. Reads the use cases make of the flow and
the routing are reads of constants: a configuration saved in the middle of a
command is not modelled here. Commands refused at once (unknown ids, illegal
transitions) change nothing and are not actions.

### How `StoreConfiguration` corresponds to the code

`configs` holds the rows of `system_configuration`; `stored` those of
`categories` and `counter_routing_rules`, each with its id, its unique column and
the categories it refers to; `armed` and `job` are `armedCron`/`armedTz` and the
registered `CronJob` with the policy its closure holds. A save is `Save` (its
form was validated) → `ReadOld` → for categories and then rules `Scan` (the
snapshot of the DELETE), `Clear` (its row locks), `Fill` (the INSERTs, with waits
and clashes on the unique columns) → `WriteConfig` → `Commit` → if the policy
changed `ReadPolicy`, `Arm` → `Broadcast`. `Boot` is `onModuleInit`. The INSERTs
of one table are one step, which hides the deadlocks two saves can have by
inserting the same keys in two orders; PostgreSQL fails one of them, which is
`Abort`. A failing re-read after the commit (the save then answers with an error
and the cron stays as it was) is not modelled. A draft is a configuration that
validation accepts.

### How `AudioQueue` corresponds to the code

`queue` and `running` are the fields of `QueuedAudioProvider`, the announcements
numbered in the order they are asked for. `live` holds the clips whose promise
in `RemoteAnnouncementAudioProvider.play` is unsettled, `starting` those whose
`HTMLMediaElement.play()` has not answered, `sounding` those that are playing;
`blocked` is the state reported to the board, `allowed` whether the browser has
seen a gesture. One step is one task of the event loop with the microtasks it
queues: when a clip settles, `drain` goes on in the same step (`Settle` is
`Drain`, the loop's next iteration).

| Action | Code |
|---|---|
| `PlayAnnouncement` | `playAnnouncement`: pushes, and drains unless a drain is running |
| `Begin`, `Refuse` | `play()` resolves, or rejects with `NotAllowedError` |
| `End`, `Fail` | the `ended` and `error` events, or any other rejection |
| `Stop` | `stop()` of both providers |
| `Unlock` | the silent probe: at mount, or on a tap while blocked |

A `play()` that a stop has interrupted rejects without effect and is dropped.
What is spoken and how loud, and the chime before it, are not modelled.

### How `TvBoard` corresponds to the code

`status`, `number`, `active` are the tickets as core-api has committed them
(`active`: the CALLING and SERVING rows ordered by `updated_at`); `outbox` holds
the events of each committed request until `Dispatch` broadcasts them,
`channel` the frames on their way to the board. `nowServing`, `recent` (the
history), `waiting`, `lastActive`, `countersServing` are the reducer's state;
`booted` says whether `counterNameById` has been filled. `fetch` is the read in
flight, with the part each of its two SELECTs has returned; `refetchDue` is the
debounce timer.

| Action | Code |
|---|---|
| `CreateTicket`, `Call`, `StartServing`, `Leave`, `Transfer`, `ResetDaily` | a request commits; its events are those the aggregate records |
| `Dispatch` | the gateway's broadcast to the clients that are open |
| `Deliver` | `onEvent`: the reducer's projection, and the debounce timer |
| `Connect`, `Disconnect` | the socket's `onopen` (which reads at once) and `onclose` |
| `DebounceFires`, `IntervalFires` | `scheduleRefetch`, the 30-second interval: `refetchBoard`, unless a read is in flight |
| `ReadActive`, `ReadWaiting` | the two SELECTs of `GetBoardStateUseCase`, in either order |
| `BoardLoaded`, `FetchFails` | the read is answered, or fails |
| `BootLoaded` | the configuration is answered |
| `ServerRestarts` | core-api dies between a commit and its broadcast |

*Abstractions.* The flow is the default one with one edge back to the queue
(CALLING to WAITING). A ticket's number is how often it was re-issued, and
names and layouts are left out, except whether a counter's name is known. The
generation counter of `refetchBoard` is left out because the in-flight guard
lets no second read start. A configuration that fails (`BOOT_ERROR`) leaves the
board like one that is not answered yet.

### How the other modules correspond to the code

*`CallerPanel`.* `row`, `queue` and `touched` are the tickets as core-api's
queries order them, `outbox` and `frames` as in `TvBoard`. `panel` is the state of
`queue-store.tsx`, `screen` the state React rendered last: a tap and the effect
that reads again see `screen`, an event changes `panel` (`Render` copies it). A
snapshot is read list by list (`ReadList`) and answered as one
(`SnapshotLoaded`). `Tap` starts a command unless its runner is busy,
`CommandCommits`/`CommandRefused` are the server's part, `Settle` the answer.

*`Filter`.* `Array.prototype.filter`, for the two stores and for the queries with a
WHERE: `Kept(seq, S)` is the sequence of the elements of `seq` in `S`, defined by the
increasing walk over their places. `SelectSeq` of the standard module is the same
function, but is defined by recursion on the sequence, of which nothing can be
proved here.

*`Identity`.* A request is a place in `served` with the statement it has reached:
`Arrive`, then one `Serve` per statement of the session guard, the licence and
role guards having no await of their own, and of the use case behind it.
Deleting a user is a transaction, whose row counts are those committed.
`overlapped` remembers that two removals of an administrator were open at once.

*`LicenceVerdict`, `Licensing`.* Time is in days, a licence a record of what its
verified payload says, a host the set of claims read from it. `Work(p)` is the
next statement of `GetLicenseStatusUseCase` or of the activation in place `p`;
`cached` is the verdict the guard consults, `lapsed` remembers the licences once
found expired past their grace.

*`Synthesis`, `Announcement`.* A thread's request goes through
`CoreApiConfigClient` (TTL and fetch), the comparison that clears the cache, the
lookup, the rendering, the write (`.part`, then rename) and the sweep; each
unlocked read and each file operation is a step. `PowerCut` loses what was not
synced. `Announcement` computes the words for numbers and letters and checks
them against a reference reading and the clips against their length.

*`Kiosk`, `Receipt`.* `screen` is the route, `timers` the timeouts of result
pages that were mounted, `jobs` the prints in the background, each over
Chrome's dialog, core-api's driver (`Post`, `Connect`, `Flush`, `CloseSocket`, or
`SocketFails` and its timer) or a serial port (`GetPorts` to `ClosePort`).
`rendered` is the issue state on screen, `inFlight` the ref that stops a second tap.

*`TvLayout`.* `layout` is the page's draft, `drag` the drag with its ghost; a tap
on a chip or a stepper is one action, a drag is `BeginDrag`, `PointerMove`,
`PointerUp`, and a save or a refresh may replace the draft in between. Widgets
are keyed by id: the order of the array is left out, and so are preview, focus
and labels.

*`FlowEditor`, `FlowForm`.* `form` is the part of the configuration draft about
the flow, `canvas` the nodes and edges of the mounted diagram, `emitted` the
signature it last reported. Coordinates are "laid" (by `autoLayout`) or "moved",
the handles of an edge "plain", "corner" or "absent", a label filled in or not.
An edit of the diagram commits form and signature together; whatever changes
the form otherwise has the diagram rebuilt. `Save` maps the form onto the wire,
the server checks it, and `ReRead` reads it back. `FlowForm` edits the same form
keystroke by keystroke.

*`ConfigPages`.* `doc` is the stored document, reduced to two settings, the
categories and the counter rules; `snapshot` is the shared copy, `generation` its
guard against late answers; `panel` and `fieldDraft` are drafts, `reads` and
`puts` the requests on their way, each served and answered in two steps.

*`ConfigBoundary`.* A body is a record with fields missing, of the wrong type or
well-formed. `Guarded` is the controller's shape guard, `Parts` the value objects
and `FitsTheFlow` what they ask of each other, `Execute` the use case with both;
`SaveBody` stores the row, `ReadRow` and `Projection` read it back, and what the
pages send again (`Resent`) is compared with what was sent.

*`Reports`.* `active` and `archived` are the two tables; a report is the
sequence of its statements (`Query`), between which tickets are called, archived
and purged. `range`, `loads` and `reportView` are the page; an answer is dropped
unless it belongs to the last range asked for.

*`SetupWizard`.* `tab` is what each browser holds: its step, its drafts, the
session and what it believes of the set-up. `Serve` is the server's part of
`PUT /configuration` and `POST /setup-admin`, in two steps each, since the guard
reads the status first; `Browse` is navigation, the guards of the routes and
the two writes of `finalize`; `EditForm` the steps' inputs.

## 3. Runs

Two processes (requests, threads, places) are what it takes for every race of
section 1: each is between two actors, one of which moves between two steps of
the other. `CHECK_DEADLOCK` is off because an instance whose bounds are used up
stops; that no request waits for ever is `EveryRequestEnds` and `EverySaveEnds`.

| Run | Question | Bounds | Shows |
|---|---|---|---|
| `call_next` | do two counters call in order, each ticket once? | 3 tickets, overlapping categories, one counter per policy, a clock tick (so ties happen) | `TakesTheFirstStillWaiting`, `ClaimIsExclusive` |
| `numbering` | are numbers unique and without gaps, over midnight, with rollbacks and resets to 1 or 5, and is every request answered? | 2 tickets, 2 categories, 2 days; fairness | `NumbersAreUnique`, `NoGaps`, `EveryRequestEnds` |
| `archive` | is any ticket lost between the stores, is anything announced that did not happen? | 2 tickets, 3 days (archived, then past retention), crashes | `NoTicketLost`, `OnlyCommittedAnnounced` |
| `back_n` | does a renumbering leave its neighbours alone and every row in shape? | one called and two waiting tickets; BACK_N with step 1, so most re-queues renumber; states past order 2, or without a waiting ticket, are not expanded | `RequeuesKeepTheRest` |
| `save_config` | do overlapping saves leave a usable configuration, does the armed cron run a saved policy, do they all end? and is a document of any shape stored or refused, read back and sent again unchanged? | 3 saves of 3 drafts that share, drop and re-create rows, crashes and boots, fairness; every body that differs from a good one in one field, over small sets of malformed and near-miss values | `StoreIsConsistent`, `ScheduleFollowsPolicy`, `LoneSaveReplaces`, `EverySaveEnds`, `DocumentTravels` |
| `services` | is a revoked session ever admitted, do the user tables stay whole, is a verdict ever improved by the clock, does the cached one catch up? | 3 requests, 2 in flight, 2 names, sessions of 1 tick; 3 licences (a trial, one bound to a host, a foreign one), 2 days, 2 activations, 1 fault | `RevokedNeverAdmitted`, `IdentityIsConsistent`, `VerdictsAreSound`, `OneLicenceStays`, `LicensingCatchesUp` |
| `boards` | does the board come to show what the server holds; are announcements spoken in order and never silenced for good? | 2 tickets, 1 counter, 1 row of history, 2 requests, 1 loss; 3 announcements, 2 probes, any number of stops; fairness | `BoardsAreConsistent`, `BoardConverges`, `ImplementsAnnouncer`, `TrackedAnnouncementEnds` |
| `caller_panel` | do a counter's lists stay well-formed and, when all is quiet, right? | 2 tickets, 2 counters, 3 categories; 2 requests (4 if each waits for the events of the one before), 2 taps, 1 loss | `PanelIsWellFormed`, `CalmPanelIsExact`, `StaleIsFetchedUnlessBatched` |
| `surfaces` | what visitors hear, take and see | 2 threads, 3 requests, a cache of 1 clip, 1 edit, 1 power cut; 3 tickets, 1 fault, 1 reload; a grid of 3 by 2, 2 edits; the spelling of every number to 2200 and around the powers of ten to 2^31-1 | `ClipIsAsAsked`, `CacheIsKept`, `SettingsAreRecent`, `KioskIsConsistent`, `TicketShownLongEnough`, `DraftIsAccepted`, `GhostIsHonoured`, `ReferencesAgree` |
| `admin` | does the flow survive its editors, the configuration its pages, the first set-up its failures; does a report add up? | 3 edits of a flow of at most 3 states and 3 transitions, the source view opened before the last and the flow saved after the second; 2 saves and 1 fault of the pages; 2 tickets over 2 days; 5 edits of one wizard, or 2 browsers racing with 3 | `EditorIsConsistent`, `SavingKeepsTheFlow`, `EditsKeepTheRest`, `DocumentSurvives`, `RangeAddsUp`, `NobodyIsLockedOut`, `SetupEndsInside` |

Why these bounds. Three calls race for three tickets so that a counter can lose
its first choice and still have a next one. A cache of one clip is at its limit
after the first. Three announcements are one spoken, one queued before a stop
and one after it; two probes are the one at mount and a tap. Two requests
suffice for the board because a read and the events of two requests already
meet in every order, and one history row because its limit is then reached by
the second call. `ScheduleFollowsPolicy` is about behaviours without overlapping
saves: of two that overlap, the second compares its policy with one it read
before the first committed, and may leave the cron unarmed.

Every property of a passing run has a mutant of the code's model that breaks it
(PROJECT.json): a dropped re-check after `FOR UPDATE`, a number reserved outside
the transaction, a lock not given back, an archive that only deletes, a zone not
compared, a refused clip that is never settled, a ghost judged on an older
layout, a guard that forgets to read the clock again, and so on.

### Disagreements between the code and what it says

| Run | The code's own claim, and what happens |
|---|---|
| `stale_transition` | "illegal transitions surface": two transitions check the same old row, and the second commit is along no edge |
| `last_admin` | the last-admin check is "serializable w.r.t. concurrent deletes": two administrators delete each other, both counts see two, none is left |

Further claims of this kind are stated as properties next to the code they are
about, without a run of their own, since they have the same causes: an unlocked
read, or a state that an event in flight has overtaken. TLC refutes each.

| Property | The claim |
|---|---|
| `ReannounceKeepsStatus` (`TicketQueue`) | a re-announcement is "without a state change" |
| `CompletedIsNotRequeued` (`TicketQueue`) | "a COMPLETED ticket cannot be re-queued" |
| `OtherCategoriesAreNeverWritten` (`TicketQueue`) | "other categories are NEVER written" |
| `ResetIsHonoured` (`TicketQueue`) | the number after a reset is `resetTo` (not for a day without a counter row, the case at midnight) |
| `EditTakesEffect` (`StoreConfiguration`) | "a policy edit takes effect immediately": `reArm` compares cron and zone only |
| `AuditIsAChain` (`StoreConfiguration`) | "a concurrent writer cannot interleave" |
| `FullyReplaced` (`StoreConfiguration`) | "fully replace" |
| `SingletonConfiguration` (`StoreConfiguration`) | "the one existing row" |
| `PendingFetchCovers` (`TvBoard`) | "a fetch is pending - it covers this tick": the pending read may be older than the event |
| `StaleIsFetched` (`CallerPanel`) | every signal is followed by a fetch: not when a snapshot and the next signal fall between two renders |
| `ActivationShowsAtOnce` (`Licensing`) | "never shows `not licensed' straight after a successful activation": an older evaluation may finish last |
| `ChangeIsHeard` (`Synthesis`) | "changes apply within 30 seconds": the browser keeps a clip for longer, under a URL that does not name the settings |
| `DefaultModeIsBare` (`FlowEditor`) | "in default mode the canvas carries no node actions" |

Met while modelling and not stated as properties:

* *Caller*: a ticket re-queued at another counter does not appear until the next
  snapshot; nothing is read again on reconnection; a custom in-progress status
  vanishes on reload; `SNAPSHOT_ERROR` hides the page and is not retried.
* *Configuration*: a rule whose counter has no id or name passes the guard and
  fails at the column's NOT NULL, as a 500. The pages' `validity.ts` asks for a
  category of some rule, the server of each. Two saves from two browsers: the
  last writer wins.
* *Flow editor*: markers' sources are trimmed and states are not, so a name with
  spaces is refused (400); deleting the last status with automatic markers
  throws; edits made while a save is re-read are replaced. In the wizard's rows a
  rename may pass through another row's name and merges the two for good.
* *Wizard*: a lost answer to the last PUT leaves the browser on a 403 until it is
  reloaded; two browsers' first saves replace each other's categories. A wizard
  opened again after two failed reads of who is logged in (a token, no principal)
  can save and still end on the login page, so `EndsInside` speaks of a finalize
  that begins with a first run or a principal.
* *Reports*: windows of 24 hours on days that have 23 or 25; the SQL breakdown
  drops tickets of removed categories where the in-memory one shows `?`; counters
  with nothing served are listed although a comment omits them.
* *Speech*: the cache is wiped by the first request after a restart while
  core-api is down; a `.part` file orphaned by a power cut is never swept.
* *Kiosk*: a retry after a lost answer issues a second ticket; the timer of 5
  seconds covers the whole print, so an error may follow a receipt that came out.

## 4. Fairness

`TicketQueue!Fairness` is strong fairness of each request's next step and weak
fairness of the deadlock detector. PostgreSQL queues the waiters of a row in
order of arrival, so a request whose row becomes free again and again gets it
(strong, not weak: others take the lock in between); the event loop runs every
callback that is ready; a deadlock is broken after `deadlock_timeout`. No
client, crash, abort or clock tick is fair. `StoreConfiguration` needs weak
fairness of each request only, since a bounded number of saves leaves a waiter
alone in the end.

`AudioQueue`: weak fairness of `Progress`, the browser's steps taken together: a
media element given a source and told to play begins, ends, fails or is refused.
Calls, stops and taps are not fair. `TvBoard`: weak fairness of what timers, the
server and the network do by themselves: the broadcast, the frames, the
reconnection (`QueueSocket` retries for ever), the debounce and the interval, the
two SELECTs and the answer. Requests, losses and the configuration's answer are
not fair; the number of losses is bounded, so `Converges` says: once they end.

`Licensing`: weak fairness of each evaluation's next statement and of the
timer that starts one. Activations, failures, restarts and changes of the clock
or the host are not fair and bounded, so `VerdictCatchesUp` says: once they end.
The other modules state no liveness and no fairness.

## 5. Proofs

Every theorem holds for all values of the constants that the named assumptions
allow (every set of requests, tickets, users, drafts, widgets; every flow, routing
and bound), and is proved to the last leaf.

**`TicketQueue_proofs`** (assumptions of `QueueTicket` and `TicketQueue`).

* `TypeCorrectness`, `TransactionsAreIsolated`, `NoDoubleClaim`:
  `Spec => []TypeOK`, `[]WritesAreLocked`, `[]ClaimIsExclusive`. The inductive
  invariant is their conjunction `Inv`. None is inductive alone: that a
  commit leaves other requests' claims alone needs the locks, and that a lock
  covers the right row needs `TypeOK`'s `RequestShape`. One lemma per action;
  `Others` and `ReleaseKeepsOthers` carry the argument they share: a step of one
  request that writes rows it has locked keeps every other request's part.
* `NoDuplicateNumbers`: `[]NumbersAreUnique`, from `Inv` and `NumberInv`, which
  bounds every issued number by its counter's committed value and says that a
  number a request holds is the next one of a counter it has locked.
* `NoNumberIsSkipped`: `[]NoGaps`. The strengthening says of each counter that
  the numbers issued in its round are an interval that ends at its committed
  value, and of each request that holds a number that it is one past it; no
  induction over the interval is needed, since a commit extends it by one.
* `OnlyTheCommittedIsHeard`: `[]OnlyCommittedAnnounced`. What is broadcast is
  kept by a request only after its commit, and what was issued is never taken
  back.
* `FirstComeFirstCalled`: `[]TakesTheFirstStillWaiting`, of the specification
  restricted to issuing, calling, re-announcing and cleaning up (the operations
  `call_next` runs; a re-queue writes orders under a call on purpose). The
  invariant carries the snapshot's order from the query to the commit.
* `CommitsKeepTheRest`: the action property `RequeuesKeepTheRest`, `RowShape` of
  every row being part of its invariant.
* `TicketsAreKept`: `[]NoTicketLost`, from `Inv`, action by action.

**`StoreConfiguration_proofs`.** `StoreStaysConsistent`, `CronFollowsPolicy`,
`LoneSavesReplace`: `[]StoreIsConsistent`, `[]ScheduleFollowsPolicy` and the action
property `LoneSaveReplaces`. The inductive invariant `ConfigurationInv` has four
parts:

* `ShapeInv`: the types, and what each statement of a save has established about
  the rows it has locked and inserted;
* `LockInv`: no row is locked by two saves, two open saves hold no clashing key,
  and whatever rules a save leaves in place name categories it leaves in place.
  That rules name stored categories needs both: a category is deleted only by a
  save that deletes or rewrites, in the same transaction, every rule it knew of,
  and a rule inserted by another save names that save's categories, which the
  first cannot have seen;
* `ArmInv`: as long as no two saves overlapped, the armed cron is that of the
  stored policy or the save that changed it is about to re-arm; the job's policy
  is in the audit log;
* `AloneInv`: a save nobody overlapped has locked every row of each table it is
  through with.

TLC checks `ConfigurationInv` on the instance of `save_config`.

**`Services_proofs`** (the two services of `ServicesMC`).

* `TablesStayConsistent`, `RevokedStaysOut`: `[]IdentityIsConsistent`,
  `[]RevokedNeverAdmitted`. The invariant says of each place what its request has
  read and whether that may have changed since: the count of administrators a
  deletion holds is still true unless another removal was open in between, and a
  guard that has found a live session was not late.
* `LapsedStaysRestricted`, `OneLicenceAtATime`: `[]VerdictsAreSound` and
  `OneLicenceStays`. A licence is restricted for good because the evaluation judges
  the later of the clock and the high-water mark: every lapsed licence is past its
  grace at the mark itself (`LapsedOK`), the mark never falls, and an evaluation
  judges a day at which whatever had lapsed when it began is past its grace
  (`JobOK`); `LadderClimbs` says that a later day never gives a better verdict. The
  second holds since the deactivation and the INSERT are one transaction.
* `ServicesStaySound`: the same of `ServicesSpec`, the specification TLC runs.

**`Surfaces_proofs`** (the three surfaces of `SurfacesMC`).

* `ClipStaysAsAsked`, `CacheStaysKept`, `SettingsStayRecent`: `[]ClipIsAsAsked`,
  `[]CacheIsKept`, `[]SettingsAreRecent`. That the cache ends within its bound is not
  an invariant of any one thread: several write after another's listing. The
  invariant `BoundInSight` says that the bound is kept or some thread will see to
  it, one about to list the entries, or one whose list leaves no more than the
  bound; the thread that wrote last is always such. Recent settings needed the
  case of a Ttl of zero to be told apart: what is fetched is then as old as the
  request, and not younger than the Ttl.
* `KioskStaysConsistent`, `TicketStaysLongEnough`: `[]KioskIsConsistent` and
  `TicketShownLongEnough`. A visitor gets one ticket since a request under way
  keeps the page from making another (`CreatesOK`). What a timer has left and the
  time its ticket was shown add up to AUTO_RETURN_MS (`TimersOK`), so none outlives
  its page. A print ends without a receipt only if it was excused, and two prints
  meet at the serial port only if both know it (`PrintsOK`).
* `DraftStaysAccepted`: `[]DraftIsAccepted`, with the invariant that the stored
  layout and every layout on its way is accepted too. `DropsFollowTheGhost`: the
  action property `GhostIsHonoured`. `SavesAreShown`: once a save is answered, and
  unless an edit was made since, the editor shows the layout the server holds.
* `SurfacesStaySound`: the same of `SurfacesSpec`.

**`Admin_proofs`** (parts of `AdminMC`).

* `SetupLeavesAnAccount`: `[]NobodyIsLockedOut`; the invariant `WizardInv` follows
  the order of `finalize` through calls that are lost or come late: the call that
  completes the setup is only ever sent once an account is there.
* `SetupEndsWell`: `[](EndsInside /\ GuardsSettle /\ DetourKeepsIds)`, and
  `SetupStaysInside`: `AdminSpec => []SetupEndsInside`, whichever part of the
  application steps. `WizardInv` says what a browser knows by each call of
  `finalize`: after the account's creation it has a token, after the login a
  principal, so that the guard it meets at the end lets it in. A detour over own
  categories keeps the ids since the standard codes are distinct, hence each has at
  most one row to take its id from.
* `ReportsAreOfOneInstant`: `[](ReportsTypeOK /\ ResetsAreNotNoticed /\ OneDayAgrees /\
  ViewIsOfTheRange)`. The invariant `ReportsInv` says of every load what its
  statements have returned so far, and of what state, or that something it counts
  was changed in between.
* `SettingsAndIdsSurvive`: `AdminSpec => []DocumentSurvives`. `PagesInv` has three
  parts. `ShapeOK`: every draft, answer and payload is a form, and every document one
  that the server could have stored; that a form of the document is one
  (`FormsAreSound`), that what the server stores of an accepted form is a document
  (`WrittenIsSound`), and what each edit keeps are lemmas of their own. `CopyOK`:
  without a fault, either a save is still to be followed by a read, or the last read
  is on its way with what is stored, or the shared copy is what is stored. `CalmOK`:
  as long as nothing was touched during a save, the draft, the payload and the answer
  agree with the document in every setting but the page's own and carry every id
  that was not removed. An assumption says what the proof needs of the constants: the
  blank code is no category's, a new form's first row has code 1, and the dashboard
  is no page of a setting.
* `EditorStaysConsistent`, `SavedFlowReturns`, `EditsAreLocal`: of `AdminSpec`,
  `[]EditorIsConsistent`, `[]SavingKeepsTheFlow` and the action property
  `EditsKeepTheRest`, from one invariant, `AdminEditorInv`. It says of the form, the
  canvas and the stored flow together:
  - the form (`FlowFormOK`): every edge is between two of its statuses, and whatever is
    keyed by a status (position, action, description, arrow from a marker) is keyed
    by one that is there; outside the rows (`Drawable`) no two statuses bear one name,
    no two edges have the same ends and an action leads to a status that is there;
  - the canvas (`CanvasOK`): its nodes and links are those of the form, each id is
    that of one link, and an id minted by the counter is below it, so that the
    next one is new. This is what makes a skipped redraw harmless: the canvas is
    redrawn only if the form's signature changed (`graphSignature`), and the
    proof goes through each edit to show that the canvas, when it is not redrawn,
    already shows the form;
  - the stored flow (`FlowDocOK`): one that the form can draw, also after a save of
    whatever the form let through.

  The lemmas on the way say what each operation keeps: renaming a key of a map and a
  name in every edge (`MapName`, `RenamedKey`), filtering edges and removing a row,
  and capturing the canvas back into the form (`flowToGraph`). The same lemmas give
  `EditKept`, what an edit may not take away, hence `EditsAreLocal`. The
  assumption `EditorAssumption` says what the code has settled before the editor
  opens: the default flow passes the editor's own validation, and each stored flow
  is one the save use case accepted, with its arrows' names trimmed by the value
  objects. Its first conjunct only keeps the model's two kinds of link ids
  apart, as the code does by their form (`from->to#i` and `sm-edge-N`).

**`Boards_proofs`** (the two parts of `BoardsMC`).

* `TypeCorrect`, `OneVoiceAlways`, `NothingOldIsSpokenEver`: `[]AudioTypeOK`,
  `[]OneVoice`, `[]NothingOldIsSpoken`. The invariant `IInv` adds that at most one
  announcement is live (`OneLive`, which is what `running` guards), that only live
  clips sound (`ClipsAreLive`) and that what is queued or live was asked for after
  the last stop (`NumbersAreCurrent`).
* `AnnouncerImplemented`: `ImplementsAnnouncer`; each action is a step of `Announcer`
  or leaves `Pending` and `Voice` as they are, and `OneLive` makes the CHOOSEs of the
  mapping definite. `BoardsAnnounce` states it of `BoardsSpec`.
* `PanelStaysCurrent`: `[]PanelIsCurrent`, by `BoardIInv`: what the tables, the events
  on their way, the answer in flight and the display may hold. Its steps rest on
  what a filtered list is (`Filter_proofs`).
* `BoardsStayConsistent`: `[]BoardsAreConsistent` of `BoardsSpec`, the conjunction.

**`Filter_proofs`.** What `Kept` returns: a sequence over the elements that pass,
each from a place of its own, so no longer than what was filtered; and that the
increasing walk over a bounded set of numbers reaches each of them once, so that
what passes is all there and in its order (`KeptIsWalk`). The walk
exists by induction on the length; the provers cannot instantiate the library's
induction theorems, so the property is given as a set (`Induction`), which
follows from the well-foundedness of `<` on the naturals.

**`CallerPanel_proofs`.** `PanelStaysWellFormed`, `StaleIsAlwaysFetched`:
`[]PanelIsWellFormed`, `[]StaleIsFetchedUnlessBatched`. One lemma per operation of the
reducer on a list (off, append, prepend, replace, keep) says that the result
holds each ticket once and only lines of its kind; the invariant then says where
such lists are: in the tables' orders, in the store, on the screen and in every
snapshot on its way, and of every event that an update in it names a state of the
flow. Nothing is assumed of the order in which snapshots and events arrive.
For `OnUpdated` the proof needed the reducer's early return as an IF before the
CASE: with overlapping guards a CASE may choose either branch, which TLC, taking
the first, does not show.

`CalmPanelStaysExact`: `[]CalmPanelIsExact`, for a panel opened on an empty day
(`CallerSpec`) or on any tables that agree with each other (`OpenedSpec`, which
includes the start of the run). Its hypothesis `PlainFlow` says that
there are no custom states, that WAITING is left by the call only and that
COMPLETED is not left; the default flow of the wizard and the flow of the run are
such. The invariant `CalmIInv` follows a request from its commit to its last
event, beside the first one:

- `RowsOK`: a ticket is in the queue exactly while it is WAITING, and one at a counter
  or skipped there is among the others;
- every snapshot on its way has read what the tables have (`IsCurrent`), since no
  request commits while one is;
- of every ticket but the request's the panel shows what the tables have, in their
  order (`Agrees`); of the request's ticket it shows some earlier row `was`, and the
  events still to come tell the difference between `was` and the row (`IsTold`,
  `Tell`). A call is told in two events, so `was` changes on the way; a transfer's
  first event says too little, so between its two events the panel is stale or
  right about the other tickets (`IsHalfTold`); a panel that is stale need not
  agree with anything, for the next snapshot replaces it.

`OthersTell` establishes this for each request and `DeliverTells` keeps it through
each case of the reducer. That the lists are then equal, and not only alike, is
`OrderTellsAll`: two sequences of the same tickets, each once, ordered as one table
orders them, are the same.

### Only model-checked

* Everything under fairness, which is out of the prover's reach:
  `EveryRequestEnds`, `EverySaveEnds`, `BoardConverges`, `TrackedAnnouncementEnds`,
  `LicensingCatchesUp`.
* What is computed by folds or recursion over data: of `RangeAddsUp` the part
  `PartsAddUp` (sums over rows), `ReferencesAgree` (spelling, wrapping) and
  `DocumentTravels`.
* `CalmPanelIsExact` for flows that are not plain (custom states, another edge out of
  WAITING than the call, one out of COMPLETED). The run's flow is plain too, so of
  these flows nothing is claimed: the reducer drops an update of a ticket that its
  counter has not called or skipped, so the panel learns of such an edge at the next
  snapshot only.

## 6. What is not modelled

* The in-memory repositories: a development profile without concurrency. The
  audit log: one INSERT in the transaction of the audited command. Bootstrap,
  seeds and migrations: before anything is served. The gateway, the licence
  tools and the scripts: no state of their own.
* The pages of users and of the audit log. The users page reads again after each
  change without a guard against late answers; its operations on the server are
  `Identity`'s.
* Login, layout, theme and wording of the screens; speech engines and samples;
  signatures (a licence is what its verified payload says); the bytes of a
  receipt but for its header; the spreadsheet export.
* Within the modules: INSERTs of one table of a configuration save are one step;
  a failing re-read after a commit, leaving the layout editor's page, a torn read
  of the configuration (its SELECTs are one step in `ConfigPages`), the POLICY
  value of BACK_N in the flow editor, and the licence guard in `SetupWizard` are
  left out. Each module's comments name its bounds.
