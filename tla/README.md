# Docker Commander: TLA+ models, checks and proofs

Docker Commander is one Go binary that watches any number of Docker hosts,
raises and delivers alerts, deploys Compose projects and keeps their history,
backs up volumes and itself, routes domains to containers, and lets people and
AI tools in through several kinds of sign-in. Its state is an SQLite database
behind a single connection, a few directories (project folders, revision
archives, templates, backups) and the memory of the process. Nearly everything
that is hard about it comes from three facts: several goroutines and HTTP
handlers share that state, the process can stop between any two writes, and the
things it talks to (Docker daemons, webhooks, SMTP servers, registries) answer
late, twice or not at all.

The models are translated from the Go source. They cover the alert engine and
its delivery, the windows that silence it, Compose projects and stacks, the
connections to hosts and what runs on them in the background, sign-in, accounts
and tokens, and the parts that restore, replace or route: bundles, backups,
templates, the proxy and self-update. `PROJECT.json` maps every definition to the
lines it stands for, and lists the runs, the mutants, the hazards and the
theorems.

Contents: [1 Inventory](#1-inventory) ·
[2 Modules and code](#2-modules-and-code) · [3 Runs](#3-runs) ·
[4 Fairness](#4-fairness) · [5 Proofs](#5-proofs) ·
[6 Where code and documentation part](#6-where-code-and-documentation-part) ·
[7 Plan](#7-plan) · [8 Not modelled](#8-not-modelled)

To check a run: `tlc -config Hosts.cfg MCHosts`. To check the proofs of a module:
`tlapm AlertConditionsProofs.tla`.

## 1. Inventory

### 1.1 The parts, their state and what is hard about them

**Threshold conditions** (`internal/monitor/monitor.go`, `store/alerts.go`).
State: the rows of `alert_states` (one for each condition that is going on: its
severity, the time somebody was last told), the map `overSince` and the last
snapshot in memory, the rules. Operations: a poll lists and samples containers,
decides which rule speaks for each condition, announces each winner and resolves
the conditions nobody wins; rules are saved and deleted meanwhile. It calls
`emit`, which asks for maintenance windows, stores the event and hands it to the
delivery. Hard: `evalResourceRules` asks for a window, and `emit` asks again a
few statements later; a host may be unreachable, a metric unreadable; the
process may stop between the event and its row. Correct when an incident is
paged once, repeated only after its cooldown, delivered after a window closes,
and ended only when it ended.

**Maintenance windows** (`store/maintenance.go`, `api/maintenance_handlers.go`,
`monitor/maintenance_log.go`). State: the rows; the set of windows the log loop
last saw. Operations: create, update, end, delete, the silence a deploy opens,
the loop that logs windows coming and going. Read by `emit`, by the threshold
evaluation and by the retry sweep. Hard: update, end and delete read the row,
check it and write in another statement; occurrences cross midnight and changes
of clocks; a cheap SQL filter precedes the exact test. Correct when an
occurrence silences its span, an ended window stays ended, and the log agrees
with the windows.

**Delivery and retries** (`monitor/webhook.go`, `email.go`,
`delivery_retry.go`, `store/delivery_retry.go`). State: the queue
`alert_delivery_retries`, the delivery history, the event rows. Operations: a
goroutine makes the first attempt, records it and queues a retry; a ticker
takes a batch of due rows and works through its snapshot of them; retention
purges events beneath both. Hard: a stop between sending and recording, windows
that open in the middle of a sweep, the budget at its last attempt. Correct when
attempts stay within their budget and backoff, nothing goes out under a window,
and nothing is lost without a trace.

**Edge-triggered rules** (`monitor.go`: `handleEvent`, `recordRestart`,
`restartCount`, `fire`). State: `cooldowns`, `restarts`. One watcher thread for
each host, two scanner threads for each log follower, all calling `fire`, which
tests the cooldown, emits, and stores it only when the event went out. Hard: the
test and the store are apart; all restart rules of a container share one pruned
list. Correct when a suppressed firing starts no cooldown and no rule counts a
start twice.

**Log followers** (`monitor.go`: `reconcileLogFollowers`, `ensureFollower`,
`runFollower`, `stopAllFollowers`). State: the table `logCancels`; the follower
goroutines. A pass reads the rules, lists each host, starts what is missing and
cancels what is not wanted. Hard: a follower cleans up on its own goroutine,
whenever its stream returns; a listing may fail. Correct when what is wanted is
followed, nothing is blocked, and shutdown ends everything.

**Compose projects** (`api/project_*.go`, `mcp_projects.go`, `retention.go`,
`store/projects.go`, `store/project_revisions.go`). State: the project's row, its
folder, two scratch folders, the revision rows and their archives, the stacks on
the hosts, the per-project lock in memory. Operations: save, deploy (web and
MCP), down, change of host, delete, restore; the daily trim and the orphan sweep.
Hard: handlers load the row before they claim the project; a restore swaps
folders with two renames; the process may stop at any of these. Correct when a
snapshot is what its deploy brought up, what a request answered stays on disk,
and the lock comes back.

**Seeded volumes** (`docker/compose_binds.go`, `seed_snapshot.go`,
`volumefiles.go`). State: the volumes that stand in for a project's bind mounts
on a remote host, and the helper container of each. Operations: a deploy names,
creates and fills them; a restore saves what they held and puts it back when a
later step fails; the volume browser reads through the same helpers. Hard: the
undo empties and refills one volume after another, and any call may fail. Correct
when "put back" is said only of volumes that are.

**Stacks edited in place** (`docker/stacks_edit.go`, `stacks.go`,
`api/stack_handlers.go`). State: a compose file on its host, its backup, the temp
files. Operations: save with validation, redeploy, locally or as one script over
ssh. Hard: no lock; the script goes on after its handler gave up; the operator of
the host edits the file too. Correct when the file is one compose accepted and
the previous one is beside it.

**Hosts, health and watchers** (`docker/manager.go`, `ssh.go`, `probe.go`,
`api/host_handlers.go`, `monitor.go`). State: host rows with their pinned key,
the cached clients and ssh connections, `health`, the table of watchers.
Operations: dial and cache, verify and pin, edit, disable, delete, disconnect;
health rounds; one watcher per host with its backoff. Hard: a dial works with a
row that changes under it; an unreadable table turns the whole set of watchers
over. Correct when the cache follows the row, a pin is one somebody reviewed, an
alert says what health is, and every watcher can be stopped.

**Live streams** (`ws/hub.go`, `api/ws_handler.go`, `docker/stream.go`). State:
subscriptions with generations, one goroutine or three per stream. Hard: a stream
winds down while its id is subscribed again. Correct when every running stream
can be stopped, nothing follows its "end", and a closed socket ends all.

**Backup jobs** (`backupjobs/scheduler.go`, `store/backupjobs.go`,
`docker/volumebackup.go`). State: job rows with the last result, run rows, the
semaphore, helper containers. Operations: tick, run now, record and prune, edit,
delete. Hard: the due list is stale when a job's turn comes; deletion during a
run. Correct when the badge is the newest run and the schedule keeps its interval.

**Image updates** (`api/image_update_poller.go`,
`store/project_image_updates.go`). State: the last digest announced for each
service. Hard: every statement around a notification can fail. Correct when each
new digest is told once and none is missed.

**Retention** (`api/retention.go`, `store/retention.go`). State: the policy, the
tables and snapshots it trims, the record of the last run. Hard: a run in batches
that a timeout, a failure or a stop cuts short. Correct when only what is old
enough goes and the record is true.

**Sign-in** (`internal/auth`, `api/auth_handlers.go`, `passkey_handlers.go`,
`session_handlers.go`, `store/factors.go`). State: the account, sessions with
their epoch, second factors, and in memory the failure windows, the spent
challenges, the used codes and the open ceremonies. Operations: password, code,
passkey and passwordless sign-in, step-up, password change, pairing and removal
of factors. Hard: each call is a step of its own, and the tables forget. Correct
when a challenge buys one attempt, a code signs in once, a password change ends
what is older, and a protected account stays protected.

**Accounts, roles and grants** (`store/users.go`, `roles.go`, `access.go`,
`ldap.go`, `api/user_handlers.go`, `role_handlers.go`, `access_middleware.go`).
State: users, roles with their sections and hosts, assignments, the fallback of
the directory. Hard: guards that count and then write; grants that combine.
Correct when an administrator remains, a deleted role grants nothing, and the
gate, the menu and the explanation of a grant agree.

**Start-up and reset** (`cmd/dockercmd/main.go`, `store.Open` and its
migrations, `--reset-password`). Hard: killed between any two statements, with an
older database or beside the reset command. Correct when every later start gets
through, factors survive, and no code or key is lost or valid twice.

**MCP** (`internal/mcp`, `api/oauth_handlers.go`, `mcp_token_handlers.go`,
`store/oauth.go`, `mcp_sessions.go`, `api_tokens.go`, `mcp_policy.go`). State:
clients, codes, refresh tokens, sessions; API tokens with scope, hosts and
expiry; a bucket per user. Hard: rotation beside revocation and sweeps; a batch
charged in two parts; a lifetime that overflows. Correct when a session ends once
and for good, a token never widens, and a runaway client is held.

**Proxy and domains** (`internal/proxy`, `api/domain_handlers.go`,
`store/domain_mappings.go`). State: mappings, the backend cache, its flights.
Hard: a lookup shared by several clients while the mapping is edited. Correct
when an answer is of the mapping as it is, and one client's failure is nobody
else's.

**Recovery bundles and installation backup** (`api/recovery_*.go`,
`internal/backup`, `internal/passphrase`, `store/snapshot.go`). Hard: many
tables and folders, no lock, any step may fail. Correct when what is restored is
whole, nothing is overwritten and nothing unsealed is kept.

**Templates and the compose builder** (`api/template_handlers.go`,
`store/templates.go`, `internal/templates`). Hard: folders copied file by file
under edits and caps; names made unique by numbering. Correct when no half
template is seeded from, and services, aliases and volumes stay apart.

**Self-update** (`internal/selfupdate`, `internal/version`,
`api/update_handlers.go`, `selfupdate_policy.go`). Hard: three initiators, a
package manager and a kill around one executable. Correct when only a verified
release runs, within the policy, and never an older one.

Section 8 names what is left out.

### 1.2 How the parts meet

`evalResourceRules`, `handleEvent` and the log followers all end in `emit`, which
reads the maintenance windows, writes `alert_events` and starts a delivery. The
retry sweep reads events and windows again. Retention deletes what the retry
queue points at. A deploy opens a window. The models cut at these places: a
window is a set of what it matches (`AlertConditions`), a flag per delivery
(`DeliveryRetry`) or per rule and container (`EdgeRules`) that the environment
may change at any moment, which allows every schedule `MaintenanceWindows` can
produce and more. Likewise `DeliveryRetry` and `ProjectOps` have the purge as an
action of their environment, and `Retention` has a sending delivery and a
snapshot being captured as one of its own; `ProjectOps` takes a remote deploy as
one outcome, and `RemoteSeed` takes it apart; `McpGate` starts where `verifyToken`
of `McpSessions` ends. One connection to SQLite makes a statement, or a
transaction, one atomic step; anything between two of them is a point where
others run.

## 2. Modules and code

| Module | Models | Instance | Proofs |
|---|---|---|---|
| `AlertConditions` | `pollStats`, `evalResourceRules`, `saveState`, `emit` | `MCAlertConditions`, `MCLive` | `AlertConditionsProofs` |
| `RecurringSpan` | `Active`, `ActiveSpan`, `Closed`, `recurringSpanAt` over a calendar | with the next | `MonitorProofs` |
| `MaintenanceWindows` | the handlers, the rows, the log loop (EXTENDS `RecurringSpan`) | `MCRules`, `MCLive` | `MonitorProofs` |
| `DeliveryRetry` | `dispatch`, `emailNotify`, `enqueueRetry`, `sweepDeliveryRetries`, `retryOne` | the module itself, `MCLive` | `DeliveryRetryProofs` |
| `EdgeConfig`, `EdgeRules` | the rules and their threads; `handleEvent`, `recordRestart`, `restartCount`, `fire` | `MCRules` | `MonitorProofs` |
| `LogFollowers` | `reconcileLogFollowers`, `ensureFollower`, `runFollower`, `stopAllFollowers` | `MCLive` | `MonitorProofs` |
| `ProjectOps` | the project handlers, `captureRevision`, `TrimRevisions`, `sweepOrphanRevisionFiles` | `MCProjectOps` | `ProjectOpsProofs` |
| `Throttle`, `SignIn` | the limiter and the tables of sign-in; the sign-in, step-up and password handlers | `MCAccess` | `AccessProofs` |
| `Enrolment` | pairing and removal of second factors | `MCAccess` | `AccessProofs` |
| `Accounts` | setup, users, roles, directory logins, the access check | `MCAccess` | `AccessProofs` |
| `StartUp` | the migrations, seeded roles, secrets and `--reset-password` | `MCAccess` | `AccessProofs` |
| `SessionLife` | what a connector session promises, abstractly | `MCMcp` | `McpProofs` |
| `McpSessions` | registration, consent, exchange, rotation, revocation, sweeps | `MCMcp` | `McpProofs` |
| `McpGate` | tokens, policy, `verifyToken`'s principal, `authorize`, the charge of a batch | `MCMcp` | `McpProofs` |
| `HostWatch` | `healthLoop`, `recordHealth`, `watchManagerLoop`, `watchHost` | `MCHosts`, `MCLive` | `HostsProofs` |
| `StreamHub` | `subscribe`, `finish`, `closeAll` and the streams | `MCHosts`, `MCLive` | `HostsProofs` |
| `HostClients` | `Client`, `Disconnect`, `sshClientFor`, the host handlers | `MCHosts` | `HostsProofs` |
| `BackupJobs` | the scheduler, `RunJob`, recording, edits, helpers | `MCHosts` | `HostsProofs` |
| `ImageUpdates` | one poll of a project's images | `MCHosts` | `HostsProofs` |
| `RemoteSeed` | naming, snapshot, seed, undo and removal of volumes | `MCHosts` | `HostsProofs` |
| `Retention` | the policy and the run over every area | `MCHosts` | `HostsProofs` |
| `StackEdit` | saving and redeploying a stack's own file | `MCHosts` | `HostsProofs` |
| `DomainRoutes` | mappings, handshake, routing, `backendCache` | `MCSystem` | `SystemProofs` |
| `RecoveryBundle` | export and import of a bundle | `MCSystem` | `SystemProofs` |
| `InstallBackup` | `--backup`, `--restore` | `MCSystem` | `SystemProofs` |
| `UserTemplates`, `ComposeBuilder` | saved templates; `AssembleCompose` and what it reads | `MCSystem` | `SystemProofs` |
| `SelfUpdate` | check, policy, download, verify, replace, restart | `MCSystem` | `SystemProofs` |

The composite instances (`MCRules`, `MCLive`, `MCAccess`, `MCMcp`, `MCHosts`,
`MCSystem`) hold several modules that share no state. `part`, chosen in the
initial state, says which of them moves; the others stand still, so the state
spaces add up instead of multiplying, and an invariant speaks of its own part.
`Parts` in a cfg picks the modules to explore. `MonitorProofs`,
`AccessProofs`, `McpProofs`, `HostsProofs` and `SystemProofs` extend these instances
(the first of them `MCRules`), so that their theorems are about the very
specification and properties the run checks, for every value of the constants the
cfg fixes.

In each module a comment marks the mutants: definitions that differ from the one
below them as a plausible slip in that code would. They are used by no action;
replacing the real definition by its mutant shows that a property notices.

**AlertConditions.** `rows`, `severity` and `notified` are the columns of
`alert_states`; `overSince` and `snapshot` are the monitor's memory and are lost
by `Restart`. `Poll` is everything up to the winners: sampling, `overSince`,
the choice of the most severe rule with the lowest id. `StayQuiet`,
`NotSilencedNow` and `Announce` are one winner: the window lookup that
`evalResourceRules` makes, and the second one inside `emit`, are separate
actions, so a window may open or close between them. `SkipBlind` and `Resolve`
are the sweep. `CrashBeforeSave` and `CrashBeforeDelete` are a stop between the
event and its row. Times are ages that saturate at `AgeCap`, which is at least
every duration, so no comparison changes. Observers: `told`, `quiet`,
`feedOpen`, `last`.

**MaintenanceWindows, RecurringSpan.** `req[h]` is a request between its check
and its write (`UpdateChecks`, `UpdateWrites` and so on). The clock moves inside
a finite calendar; `DayLen` gives each day its length, so a change of clocks is
a shorter or longer day and `WallClock` is what `time.Date` does with it.
`Silencing` is what the SQL filter lets through, `ActiveIds` what really covers
the instant. `LogPass` is one pass of the log loop with its memory `known`.

**DeliveryRetry.** A delivery is an event on one channel. `pc` is the goroutine
of the first attempt; `queue` the table; `batch`, `current` and `step` the
sweep's snapshot and where `retryOne` is. `due` counts down; a row that is due
waits at most `Late` ticks, the bound on how late the sweep gets to it. Every
store call may fail (`StoreCall`) and `Crash` may happen at any step; both are
charged to `faults`, so the properties can say exactly what a fault excuses.

**EdgeRules.** `thread[t]` is a watcher in the middle of an event or a scanner
in the middle of a line. `FireCheck`, `FireEmit` and `FireStore` are the three
parts of `fire`. Starts are numbered, so what a rule counts can be compared with
what happened. Two of a rule's deliveries are told apart by their age.

**LogFollowers.** `follower[f]` is a goroutine with the rule it captured.
`pass` is the pass in progress: the rules it read, the hosts it has still to
list, what it wants. `cleanup` is the deferred function and removes whatever
entry is under its key, as the code does. `late` remembers which keys lost an
entry that way.

**ProjectOps.** A folder's content is a number each save makes anew. `req[r]` is
a handler: `loadProject` reads the row, `beginProjectOp` claims the lock, then
one action for each write to disk, store or host. `staging` and `backup` are
`root.restore-staging` and `root.restore-backup`. A revision is `pending` until
its snapshot is published and `SetRevisionValid` ran. A compose run that fails
half-way leaves `Mixed` on its host. Observers: `want` (the folder as the last
answered request left it), `what` (the content each revision's deploy brought
up), `hurt`.

**Access.** In `SignIn` a request is a process whose calls on the limiter, the
in-memory tables and the database are separate steps; passwords are version
numbers, a code is the time step that made it, an assertion a signature counter.
`Scenarios` says which handlers a behaviour may use. `Throttle` holds the
operators of the bounded tables, where an entry is the ticks it has left.
`Enrolment` has the pending secret in the user's row and the factors table;
`Accounts` has a statement per step (`Count`, then `Write`) and computes grants
with the operators the gate, the menu and the explanation use, each translated
from its own function, so that their agreement is something to check. `StartUp`
walks the statements of `Open` and the start that follows over four databases
older versions left, beside the reset command.

**MCP.** `McpSessions` has one action per statement or transaction of a handler;
tables are sets of rows. `SessionLife` is the abstract session: unused, alive or
ended, where ending is final. `LifeOnce` is its specification under the mapping
that reads `alive` off the sessions table and off what has been handed out: every
step of the detailed module is a step of it or a stutter. `McpGate` has the
lifetimes with the width at which days overflow (`WrapDays`), and a batch that is
charged in `authorize` and again for the rest.

**Hosts.** In `HostClients` a caller is at one of the points between which the
manager's lock is free; a key is what the machine presents. `HostWatch` has two
loops that read the hosts table on their own clocks, and `StreamHub` a generation
per subscription. `BackupJobs` has the scheduler and the manual runs as workers;
`ImageUpdates` one fault in any statement; `RemoteSeed` volumes as versions of
files, and a snapshot's directory as the one of the operation under way and what
crashes have left behind; `Retention` ages in days; `StackEdit` a file that is whole or only its
beginning, and the script over there as a process of its own.

**System.** `DomainRoutes` has the clients' handshakes and requests, the cache
and the one flight per key. `RecoveryBundle` works table by table and file by
file against users and a second import; `InstallBackup` beside a running or a
killed server; `UserTemplates` file by file; `ComposeBuilder` with names as
sequences of parts, since numbering them is what can go wrong; `SelfUpdate` with
an administrator, the policy loop and the command line.


## 3. Runs

Ten runs pass; `projects_crash` and `mcp_token_hosts` are counterexamples
(section 6). Counts are distinct states.

| Run | Bounds | Properties |
|---|---|---|
| `conditions` (1.2 M) | one container, a warning and a critical rule on one metric with three levels, two windows (all, criticals only), one edit, one restart or crash | `IncidentsHonest`, `PagedInTurn` |
| `delivery` (2.6 M) | two deliveries, two retries, batch of one, one fault each | `AttemptsAccounted`, `RetriesWellTimed` |
| `rules` (940 k) | *schedule*: five days of half hours with both changes of clocks, 256 schedules, valid and not; *edges*: a restart, a state and a log rule, two starts; *loops*: two restart rules, two containers, two starts, one window longer than the retention | `SilenceIsScheduled`, `CooldownHolds`, `RestartsCounted` |
| `live` (370 k) | *followers*: one key, four goroutines, two changes, one failed listing; *conditions*: one rule on a rate that cannot always be read, a host that comes and goes; *delivery*: a backlog of two and a batch of one; *windows*: one window, two requests, one restart; *watch*: one host, two edits, one fault, four watchers; *streams*: two ids, two generations | `FollowersOwned`, `FollowersSettle`, `ConditionsSettle`, `QueueDrains`, `WindowsHold`, `WatchersSettle`, `ClosedSocketEndsStreams` |
| `projects` (1.8 M) | two requests, two saves, three revisions, one fault | `FilesHold`, `EveryDeployIsRecorded` |
| `projects_hosts` (619 k) | two requests, two hosts, two revisions, one stop | `HistoryOnlyGrows`, `ProjectIsReleased` |
| `access` (923 k) | *signin*: two requests in each of four ways to sign in, one restart; *enrolment*: two pairings, two factors; *accounts*: two users, two roles, races of two; *startup*: four older databases, starts and resets cut short | `SignInIsSound`, `FactorsAreSound`, `AdminsRemain`, `GrantsAgree`, `StartsAreSafe` |
| `mcp` (479 k) | *sessions*: one client, two requests, one code, two sessions, three tokens; *gate*: two calls, batches of one to four against a burst of three | `SessionsEndForGood`, `LifeOnce`, `TokensStayNarrow` |
| `hosts` (1.4 M) | *watch*: three watchers; *streams*: two ids; *clients*: two callers, one administrator, two keys, one edit of a row, one reinstall; *backups*: one job, two requests, one slot; *updates*: two services, two digests, one fault; *seeds*: two volumes, two faults; *purge*, *stacks* | `WatchFollowsHosts`, `StreamsAreOwned`, `ConnectionsFollowRows`, `RunsAreRecorded`, `UpdatesAreTold`, `SeedsAreTrue`, `PurgeIsTrue`, `StackFileIsWhole` |
| `system` (2.0 M) | *update*: three releases, one administrator, two starts, one kill; *domains*: one domain, two targets, two clients; *bundle*: two slugs, one import, one fault, one crash; *backup*: one kill; *templates*: two templates, two requests; *builder*: three instances | `OnlyVerifiedRuns`, `RoutesFollowMappings`, `ImportIsWhole`, `RestoreIsWhole`, `TemplatesAreWhole`, `BuiltFileIsSound` |

What the properties say. Each is a conjunction of parts named in its module.

- `IncidentsHonest`: the notify time of a row is the last time somebody was told
  and nobody was told before a silenced condition (`GateHonest`); every open
  incident in the feed has its row and the other way round (`FeedMatchesRows`).
- `PagedInTurn`: one `firing` per incident, and a repeat only when the cooldown
  has passed since the last delivery or the severity rose.
- `AttemptsAccounted`: the budget is kept, a delivered alert is not sent again,
  and a delivery that is nowhere any more was delivered, silenced, refused for
  good, exhausted or hit by a fault. `RetriesWellTimed`: the backoff is kept and
  nothing is sent under a window.
- `SilenceIsScheduled`: an instant is silent exactly when an occurrence covers it,
  except on a day that follows a shortened one. `CooldownHolds`: a firing is dropped only
  because somebody was told. `RestartsCounted`: no rule counts more starts than
  happened, and the rule with the shortest window counts exactly.
- `FollowersOwned`: an entry's follower is alive; a follower without an entry lost
  it to a late cleanup. `FollowersSettle`, `ConditionsSettle`, `QueueDrains`,
  `WatchersSettle`, `ClosedSocketEndsStreams`: what must happen does.
  `WindowsHold`: an ended window stays ended, the SQL filter loses no active
  window, the log catches up.
- `FilesHold`: a snapshot is what its deploy brought up; what a request answered
  is still on disk. `EveryDeployIsRecorded`, `HistoryOnlyGrows`,
  `ProjectIsReleased`: a web deploy leaves a revision, numbers are not used
  twice, the lock comes back.
- `SignInIsSound`: a code signs in once, a challenge buys one attempt (while it is
  remembered), a password change ends older sessions, the failure budget holds
  under concurrent attempts. `FactorsAreSound`: one factor per pairing secret,
  further factors only after a proof, never more than the cap, and a protected
  account is not left without a factor by anybody but an administrator.
- `AdminsRemain`: setup happens once; one request alone never removes the last
  administrator; a deleted role grants nothing; the directory's fallback exists
  and stands in only for users without a mapped group; nobody is promoted
  unasked. `GrantsAgree`: gate, menu, visible hosts and explanation are the same
  union of grants. `StartsAreSafe`: through every interrupted start the factors
  survive, keys stay readable, no code is valid twice, a reset ends sessions.
- `SessionsEndForGood`: a revoked session issues and opens nothing, one live
  refresh token per session, one session per code, scope never grows. `LifeOnce`
  is the refinement of `SessionLife`. `TokensStayNarrow`: a token never allows
  what its owner may not, lifetimes stay within the policy across overflow,
  narrowing never widens, a refused batch changed nothing, a runaway is marked.
- `WatchFollowsHosts`, `StreamsAreOwned`, `ConnectionsFollowRows`: what the table,
  the socket or the row says is what runs, everything that runs can be stopped,
  and a pinned key is one an administrator saw. `RunsAreRecorded`: the badge is
  the newest run, helpers have an owner, the schedule keeps its interval.
  `UpdatesAreTold`: each digest once, none missed. `SeedsAreTrue`: "put back" is
  true, a volume holds its own project's files, helpers are removed, and a
  snapshot stays within `maxSeedSnapshotBytes` and is gone when the restore is over;
  each crash leaves at most that much behind.
  `PurgeIsTrue`: only what is old enough goes, the record is true, valid revisions
  keep their files. `StackFileIsWhole`: the file in place is one compose accepted,
  its predecessor is kept, a refused edit changed nothing.
- `OnlyVerifiedRuns`: no unverified binary in place, packages respected within a
  request, temp files owned, the policy's ceiling kept, no step back from inside
  the application. `RoutesFollowMappings`: an answer is of the mapping at some
  moment of its request, a client's failure is not cached for others, listings are
  shared, the sweep keeps up. `ImportIsWhole`, `RestoreIsWhole`,
  `TemplatesAreWhole`: rows have their files, staging has an owner, secrets are
  sealed, a second import adds nothing, nothing existing is overwritten, no half
  template counts as whole. `BuiltFileIsSound`: aliases resolve, no service is
  dropped, clusters keep volumes of their own.

Why the bounds are enough:

- *Two of everything that races.* The races in this code are between two parties:
  two requests, a sweep and a goroutine, a pass and a follower. Four goroutines
  let earlier followers of a key wind down while their successors run. One key
  is enough: followers of different keys share nothing but the pass.
- *Rules.* Two rules on one metric are what makes a winner, an escalation and a
  change of speaker possible; a warning with a longer cooldown than the critical
  makes the re-notify gate depend on who speaks.
- *Budgets.* Two retries have a first, a last and the transition between them;
  `backoffFor` reaches its cap at the second. A batch of one is smaller than the
  backlog. Batches of changes go one past the burst. `MaxRetries` is 5, `Batch` 20
  in the code: the proofs cover every value.
- *Faults.* One fault per delivery, one per project run or one stop, two for an
  undo that fails after the step it undoes: the properties compare the number of
  faults with the damage, so that one fault hides only what one fault may hide.
- *Calendar.* Half hours over five days contain an ordinary day, a day of 23 h,
  the day after, a day of 25 h and the day after; occurrences start before, at
  and after the change and last up to 24 h.
- *Symmetry* is used only where no liveness is checked: deliveries, the requests
  of `MCAccess`, the containers of *loops*, the callers of the client cache, and
  clients and targets of `MCSystem`.

`conditions`, `delivery`, `projects` and `projects_hosts` check that something can
always happen. The other runs allow deadlock: their behaviours end when requests,
edits, ticks or the calendar are used up, and a behaviour of one part ends while
the others stand still. `live` says with fairness what deadlock checking would.

In the parts *windows* and *schedule* the calendar ends: in the last instant
nothing but requests and log passes happen, which is what lets `LogCatchesUp`
speak of windows that stay active or stay over.

## 4. Fairness

Fairness is weak everywhere and only on what a goroutine does by itself. In
`MCLive` each condition is that of its module, restricted to the behaviours of its
part.

- `AlertConditions`: the ticker and the steps of a poll. `statsLoop` is a loop
  over a ticker and every store call in the evaluation has a timeout of its own.
- `DeliveryRetry`: the sweep, the steps of `retryOne`, the clock. Sends and
  store calls have deadlines. First attempts, windows and retention are not fair.
- `MaintenanceWindows`: the log loop, a ticker with a bounded query. No request
  is ever fair.
- `LogFollowers`: the pass (a listing that fails is a step, a successful reading
  of the rules must come again: failures are bounded), a stream that returns once
  its context is cancelled or its container stopped, the deferred cleanup. A
  stream need not return while its container runs.
- `HostWatch`: a pass of the watch manager that can read the table, a watcher's
  retry after its backoff, and the return of a stream whose context is cancelled.
  A stream need not break, a host need not answer.
- `StreamHub`: writes and returns of a stream once it is cancelled, `finish` and
  its "end". A write to a socket has a deadline. No client has to do anything.
- `ProjectOps`: each handler's steps once it is under way, because every compose
  run has a timeout and the release is deferred. No request has to be made.

## 5. Proofs

All theorems hold for every value of the constants that satisfies the named
assumptions, none of which restricts the code: topology and bounds are numbers
and functions of the right type, sets that are counted are finite, `AgeCap` is at
least every duration, a placeholder (`NoFollower`, `NoOne`) is none of the real
values, `Keep`, `MaxRetries`, `Base`, `MaxGap` and `Batch` are positive, as the
constants in the source are, and `DefaultRetention` passes its own validation.
Modules that a composite instance holds state what
they assume as `BoundsOK`; the instance assumes it (`ASSUME StreamBounds ==
S!BoundsOK`), so TLC evaluates it on the run's values.

A component's theorem has the form `ASSUME X!BoundsOK PROVE X!Spec => []Inv`.
`RunsTheParts` then shows that a behaviour of the instance is a behaviour of each
of its components, whatever part was chosen, and the property the run checks
follows.

**AlertConditionsProofs.** `TypeCorrect`, `GateIsHonest`, `FeedMatches`, together
`HonestIncidents`, and the two action properties `FiringOnce` and `RepeatWaits`,
together `PagesInTurn`. `GateHonest` is not inductive: an announcement writes the
notify time of the winner a poll chose earlier, and a resolution deletes a row the
sweep picked earlier. `PollShape` supplies what ties them: the loop visits
winners, the sweep visits rows that are still there, and a condition without a row
has no notify time. `IndInv` is the conjunction of the types, `PollShape`,
`GateHonest` and `FeedMatchesRows`; one lemma for each group of actions shows it
is kept. The action properties follow from `IndInv` in the state before the step
and from `WhoEmits`: only `Announce` and `Resolve` (or a crash just after them)
produce an event. `BlindPollsKeep`, the part of `ConditionsSettle` that is about
steps, needs `WinnersSeen`: what a running poll announces is on a host it listed.

**DeliveryRetryProofs.** `BudgetHolds`, `DeliveredOnce` and `NothingIsLost`,
together `AttemptsAccount`; `BackoffHolds` and `SilenceHolds`, together
`RetriesInTime`. The queue's row, the sweep's snapshot of it and the attempts
really made disagree at almost every step. `RowsCount`, `BatchRows` and
`BatchSent` say by how much: a row's attempt is one less than the attempts made,
plus one while the sweep holds a result it has not written back, plus at most what
faults hid. `BatchWaits` says the same of the backoff: what is left of it is at
most the row's due time. `FirstAttempt` separates the goroutine of the first
attempt from the sweep.

**MonitorProofs.** Of the parts of the monitor that `live` and `rules` hold:

- *Log followers.* `EntriesAlive` and `OnlyLateOrphans`, together `OwnedFollowers`,
  are inductive with the types and `CancelledAreLive` (only live followers are marked
  as cancelled, so a goroutine that is reused does not start out cancelled).
- *Schedules.* `SilenceStaysScheduled` is about any calendar: a sequence of days of any
  lengths, changes of clocks at any time of day. `DayStart` is a recursive function;
  that it exists (`DaysBegin`), what it computes (`DayStartIs`) and that it grows
  (`DaysInOrder`) are shown by a smallest day for which it would not, and so is that
  every instant has one day (`DayOfIs`). `OccursThatDay` says that an occurrence
  begins on its own day, also when its time is skipped or repeated. From there
  `TwoDaysSuffice`: what covers an instant began that day or the day before, unless
  the day before was shortened. The assumption `ClocksAssumption` is that what a
  change of clocks skips lies within the day it shortens: no time zone puts its
  clocks forward past the end of the day.
- *Windows.* `WindowInv`: rows, and bodies of updates past their check, are schedules
  `validateMaintenanceWindow` accepts, ids are not handed out twice, and an ended
  window's row says so while it is there. `EndIsFinal` follows, and
  `SilenceStaysScheduled` uses it. The proof needs that a time of day is one
  (`time.Parse("15:04")` in the handler).
- *Edge rules.* `EdgeInv` has three parts. `EdgeTypes` says where each thread stands:
  a watcher handles events of its own containers, a scanner lines of log rules.
  `EdgeKept` is about the list of starts that every restart rule prunes to its own
  window: no start of a window that is within the retention and no longer than any
  rule's is ever pruned; `StartsAreCounted` follows at the step that counts.
  `EdgeCool` relates the cooldown stored for a rule and container to the last
  delivery: what is stored was told no earlier; for a key fired by events one
  watcher does both, so the two agree except between its delivery and its store,
  and what passed the test still would. `CooldownsKept` follows. The second instance
  in `rules` (*loops*) has a proof of the same shape for its two rules
  (`LoopTypes`, `LoopKept`).

**ProjectOpsProofs.** `TypeCorrect` contains mutual exclusion: the request that
holds the project is the only one past its claim. `SnapshotsMatch` needs
`Capturing`: between a deploy and the end of its capture, the folder is still
what was brought up, and the revision being written is the one that says so;
mutual exclusion is what keeps the other requests from disturbing it.
`FilesKept` needs `Folder`: at each step of a restore, the answered content is
in the folder or in the backup beside it, until a stop of the process.
`FilesAreHeld` joins the two.
`HistoryGrows` says that no number is given twice until a delete begins: a new
revision takes the number after the newest, and retention never trims the newest.
`DeploysAreRecorded` assumes `Recording`: no MCP deploy,
which records no revision (section 6), and no change of host, which the run leaves
out as well. Under it, and without faults, what runs when nobody holds the project
is what its newest revision brought up.

**McpProofs.** *Gate*: `GateInv` adds to `TokensStayNarrow` that ids are dense,
that the policy in force has its ceiling, that a call carries the narrowing of its
own token, and that a bucket, what was spent and the units a call still holds add
up. *Sessions*: `SessionInv` is what `SessionsEndForGood` needs: every id in a
table was issued (`IdsWereIssued`), a code in the table has not been spent
(`CodesAreUnspent`), what one request minted no other holds (`MintedAlone`), scope
comes down from the consent (`FromConsent`), and a request on its way to a session
that has ended is refused (`RefusedOnTheWay`). `LivesOnce` is the refinement: under
that invariant each step of `McpSessions` is a step of `SessionLife` or leaves its
state alone.

**HostsProofs.**

- *Streams.* `StreamsAreOwned` is inductive with the entries naming the stream of
  their generation, the frames of a replaced one being counted by its goroutines
  that still write, and "end" being a stream's last word.
- *Clients.* `ClientInv` follows a connection from the dial: it is numbered, was
  verified against the key it met, belongs to the caller that built it until it is
  cached (`BuiltIsItsOwn`), the probe holds the lock (`ProbeHoldsLock`), what is
  cached is fresh unless a dial raced the last `Disconnect` (`Fresh`), and a pin
  was reviewed (`PinsAreTrusted`).
- *Watch.* `SeenIsTold`: the changes of health since the last alert are what the
  next one will say; a watcher nobody cancelled is the one its entry names.
- *Backups.* `ClocksAgree` relates a job's interval to the runs begun;
  `ListedIsDue` says what is left of the due list; `HelperHasWorker` gives every
  helper a run under way or a crash. The number of helpers is bounded by the slots
  by counting their workers.
- *Image updates.* `RowTells` (a stored digest was announced, or a statement about
  that service failed), `PreviewAgrees` and `ReadIsFresh` (what a poll holds is
  still so).
- *Stacks.* Of a content that is begun there is a cut upload or a big file;
  content past `compose config` is accepted; a request has replaced the file only
  when it has ended, and says "ok" if anybody listens; while no save overlapped, one
  request saves, and what it read or copied is what is there (`AloneInv`).
- *Purge.* `PurgeInv`: the policy of a run is the usable one saved when it began;
  what it has counted is what it deleted, the revisions excepted, which are counted
  when their list is done (`RunInv`); a row on the list has as many newer ones that
  no list names as the policy keeps. That last part is why trimming row by row, cut
  off anywhere, never reaches the newest: among the rows behind, the one with the
  fewest newer rows has only kept ones above it (`NewestAreKept`). `CleanInv` says
  what a run without an error has left clean at each stage.
- *Seeds.* `SeedInv` says of each project where its operation stands
  (`SeedStands`) and what follows for its volumes, those apart that others wrote
  to (`SoundSeed`): while the snapshot is taken they are as they were; what is saved
  is what was there; the volumes the copy is through with hold the files; those the
  undo is through with, and did not fail on, are as they were. The copy on disk and
  the budget left add up to the bound (`Spaced`), a helper has an operation that will
  close it or a user (`HelpersOwned`), and a crash leaves no more than one copy
  (`LeftBounded`). `Untouched` carries a project through the steps of the others: it
  needs that no two projects share a volume, so `SeedsStayTrue` assumes
  `NamesApart`, that slugs still differ once `sanitizeVolumeSlug` has cut them to 40
  characters. The code does not see to that, and without it the property is false
  (section 6, `ShortSame`); it is a hypothesis of the theorem and no `ASSUME`.

**AccessProofs.** `RunsTheParts` for all four parts, and:

- *Sign-in.* `SignInv`: what a request has passed (`RequestsInv`), a failure window
  that counts the attempts under way as well (`BudgetInv`), sessions of the epoch
  or older (`EpochInv`), codes and challenges used once as long as they are
  remembered (`CodeInv`, `TriesInv`). The lemmas of the bounded tables count
  attempts, so `Cardinality` is reasoned about throughout.
- *Enrolment.* `EnrolInv`: secrets are handed out in order and no two factors share
  one; a first pairing without proof is a first pairing still; the cap holds
  counting the requests past its test.
- *Accounts.* `AccountInv`: a request's rights are those of the row it read
  (`HeldInv`); setup is open only while there is nobody (`SetupInv`); without an
  overlap one request is open, and what it read still holds (`AloneInv`): that is
  why counting administrators before a write is enough when nobody races.
  `GrantsSound` is about pure operators: the fold that `EffectiveGrant` makes over
  the rows is the union of their grants. It is shown by exhibiting the union as a
  fixpoint of the fold and looking at a smallest set of rows where they differ.
- *Start-up.* `StartInv`: at each statement of a start (`StageInv`) it says which
  migrations a database has behind it (`RowsInv`, `HadInv`), which recovery codes
  are valid (`CodesInv`), that the audit trail, the keys and the sessions agree with
  the account (`AuditInv`, `KeysInv`, `SessionInv`). It assumes of the databases a
  start may find what an earlier version can have left (`DatabaseOK`).

**SystemProofs.** `RunsTheParts` for all six parts, and:

- *Self-update.* `UpdateInv`: `applyMu` is held by the one upgrade of the server that
  is at work, which compares with the running version (`LockIsHeld`); an installer
  past the verification has a good file and none of a package (`WorkIsKnown`); the
  policy's upgrade is within its ceiling (`AutoIsAllowed`). That upgrades from the
  app never go back needs `NewestIsLatest`: what the app installed, and what it is
  installing, is no newer than the latest release, and what it is installing no
  older than what is in place; the lock keeps it so. On Windows the executable is
  away between two renames (`OneAside`), and the copy set aside is a good one.
- *Routes.* `RoutesInv` follows an answer of the daemon from the flight through the
  cache to the client that dials (`FlightsOK`, `CacheOK`, `ConnsOK`): it is of the
  mapping in its key, and no older than the time the request and the entry allow,
  so that what is left of an entry and the age of its answer are bounded together.
  There is one flight per key (`OneFlight`), and a handshake in progress is for a
  name that has a certificate.
- *Bundles.* `BundleInv`: an import carries what its bundle names, the bytes still
  declared are within the budget left (`Known`), the webhooks it has met or lost
  (`HooksKnown`), the host of the project it made (`Follows`). `Quiet` is the
  argument that a second import adds nothing: what it found when it began cannot be
  taken away by anything short of a deletion, also not by another import taking its
  own row back, since a row that is still in hand was not there to be found.
- *Installation backup.* `InstallInv`: a restore works alone (`OneAtATime`), and while
  nothing pruned beside it a backup has covered the valid rows of its snapshot with
  zips, walked or still to be walked (`SnapshotIsCovered`).
- *Templates.* `TemplateInv`: where each request stands and what it then holds, with
  the two properties, which are inductive together with it; the cap counts files in
  the order of the archive.
- *Builder.* `BuilderInv` is about a request; the heart is about the operators:
  `FreeIsFree`, `KeysOfIs` and `KeysAreDistinct` show for every list of wanted keys that the numbers
  `AssembleCompose` puts behind a taken key keep all keys apart, also when a numbered
  key was itself asked for.

Induction over data is out of the provers' reach as a rule, but a smallest
counterexample is not: `NatLessThanWellFounded` and `WFMin` give one, and the
lemmas on finite sets of numbers (`FiniteBelow`, `MaxIs`, `ListIs`,
`GreatestNumber`), the fold of grants, the keys of the builder and the calendar use
it.

Only model-checked:

- every liveness property (`ConditionsSettle`, `QueueDrains`, `FollowersSettle`,
  `WatchersSettle`, `ClosedSocketEndsStreams`, `ProjectIsReleased`, the log's part of
  `WindowsHold`): the prover handles neither fairness nor ENABLED. The parts of
  `ConditionsSettle` and `WindowsHold` that are about every state or step are proved of their
  modules, in `AlertConditionsProofs` and `MonitorProofs`.

## 6. Where code and documentation part

While modelling we met places where the code does something else than a comment
or a page of the manual says. A property in this list states the sentence quoted,
and TLC refutes it. Two are runs of the project:

| Run | Property | What happens |
|---|---|---|
| `projects_crash` | `CrashKeepsFiles` | The process stops between a restore's two renames: the only copy of the files is the backup folder. The next restore removes it as a leftover of an earlier attempt (`project_revisions_handlers.go:505`). |
| `mcp_token_hosts` | `TokenHostsRespected` | `scanAPITokenRow` reads the host_ids column into a local variable and never decodes it into the token, so verifyToken hands narrowed an empty host list and a token created for one host is accepted for every host of its owner; `docs/mcp.md:82` says "A token can also be limited to a **subset of Docker hosts**" and `store/api_tokens.go:17` "HostIDs, when non-empty, restricts the token to a subset of Docker hosts." (`store/api_tokens.go:185`) |

The others are reproduced from a passing run: take the configuration named, set
`Parts` to the one part in italics, change the constants listed, and put the
property in place of the run's own, with `CHECK_DEADLOCK FALSE` (an invariant under
`INVARIANT`, a temporal formula under `PROPERTY`). Most are narrow races or a stop
at one particular statement; they are listed because a sentence in the repository
promises otherwise, not because of their weight.

| Configuration | Property | Changes | What happens |
|---|---|---|---|
| `AlertConditions` | `ResolvedMeansStopped` | `Levels <- Levels2`, `RuleIds = {1}`, `Configs <- OneRule`, `SavedRules <- WarningSaved`, `Scopes <- NoScopes`, `MaxEdits = 0` | `overSince` is in memory only and a duration is at least a second, so the first poll after a restart has no winner for a condition it measures over its threshold: it records `resolved`, and a new `firing` later. `docs/alerts.md:114`: "It stopped." |
| `AlertConditions` | `ResolvedMeansRead` | the same, `MaxRestarts = 0` | `metric()` answers 0 with ok for cpu and mem when the stats call failed, so one timeout resolves an ongoing condition. The comment at `monitor.go:427` says a failed sample is treated as a host that was not sampled. |
| `AlertConditions` | `FiringMeansHeld` | the same with `SlowRule`, `SlowSaved` | A stopped container is skipped before `overSince` is cleared, so its first busy poll after a start fires at once. `docs/alerts.md:110`: "held for the rule's duration". |
| `DeliveryRetry` | `TransientIsRetried` | `Deliveries = {d1}` | An event whose insert failed keeps the id 0; its retry is queued under that id and dropped. `docs/alerts.md:191`: "Transient failures are retried". |
| `Rules` | `LookbackSuffices` | *schedule*, `Bodies <- LateOccurrence` | A 24 h occurrence that starts late on the day before a 23 h day runs past the two days looked at; its last hour is not silenced. `store/maintenance.go:96`: the two days "together always contain" it. `OccurrenceIsSilent` says what does hold. |
| `Rules` | `EveryWindowIsExact` | *loops* | `restartCount` writes the list it pruned to its own window back for all rules, so a short window erases what a longer one has to count. |
| `Rules` | `LogCooldownKept` | *edges*, `RuleIds = {1}`, `Rule <- LogOnly`, `Scanners = {"stdout", "stderr"}` | The scanners of stdout and stderr both pass the cooldown's test before either stores. `docs/alerts.md:24`. |
| `Live` | `ClosedIsHistory` | *windows* | An update that passed its check before the window closed rewrites it afterwards. `store/maintenance.go:64`: a closed window can be "deleted but not edited". |
| `Live` | `RunningIsNotDeleted` | *windows* | A series is active from midnight of its first date, the delete handler takes it for a plan until `StartsAt`. `maintenance_handlers.go:406`: "A window that is running is ended first". |
| `Live` | `UnwantedStops` | *followers* | The late cleanup of a cancelled follower removes its successor's entry; the successor then follows a disabled rule for good. `monitor.go:972`: "Stop followers no longer wanted." |
| `Live` | `EditTakesEffect` | *followers* | A running follower keeps the rule it was started with; an edit reaches it only when the container restarts. |
| `ProjectOps` | `EveryDeployIsRecorded` | `Requests = {r1}`, `Kinds = {"deploy", "mcpdeploy", "save"}`, `MaxFaults = 0` | A deploy through MCP leaves no revision. `docs/projects.md:193`: "Every successful deploy as a revision". |
| `ProjectOps` | `NoStrandedStack` | `Kinds = {"deploy", "settings"}`, `Hosts = {"h1", "h2"}`, `MaxSaves = 0`, `MaxFaults = 0` | A deploy that loaded the row before a change of host brings the stack up on the old host. `docs/projects.md:357`. |
| `ProjectOps` | `DeleteRefusedWhileDeployed` | `Requests = {r1}`, `Kinds = {"deploy", "delete"}`, `MaxSaves = 0` | When the stacks cannot be listed, a deployed project counts as not deployed. `docs/projects.md:196`: "Refused while deployed". |
| `ProjectOps` | `DeletedLeavesNothing` | `Kinds = {"save", "delete"}`, `MaxSaves = 1`, `MaxFaults = 0` | A save that loaded the row before a delete makes the folder anew after it. |
| `ProjectOps` | `ValidHasSnapshot` | `Requests = {r1}`, `Kinds = {"deploy"}`, `MaxSaves = 0`, `MaxFaults = 0` | The orphan sweep reads the rows and then the directory; a revision captured in between loses its snapshot. `retention.go:139`: such a file "is never one in the middle of being created". |
| `Access` | `AdminAlwaysRemains` | *accounts*, `AccountWays <- Races` | Two requests that demote or delete the last two administrators both count two; `user_handlers.go:108` says "Guard against demoting the last admin (would lock everyone out)" (`api/user_handlers.go:111`) |
| `Access` | `DeletedRoleNeverGrants` | *accounts*, `AccountWays <- Races` | An assignment that looked the role up before the delete inserts after it; `roles.go:347` says "removes a user-defined role and any assignments of it" (`store/roles.go:370`) |
| `Access` | `RoleStaysAsSet` | *accounts*, `AccountWays <- Races` | A directory login writes back the role of the row it read before an administrator changed it; `service.go:576` says "Role and read-only stay as set locally" (`auth/service.go:579`) |
| `Access` | `ChallengeNeverBuysTwo` | *signin*, `SignInWays <- CodeOnly` | A request that parsed its challenge just before it expired spends it after the sweep has dropped the mark of the first attempt; `challenge.go:9` says "each one buys exactly one attempt" (`auth/challenge.go:20`) |
| `Access` | `CounterMovesForward` | *signin*, `SignInWays <- PasswordlessOnly`, `MaxSig = 2` | Two logins with one passkey store their counters in either order, so the stored one can go back; `passwordless.go:245` says "the counter moves forward or the login fails" |
| `Access` | `BuiltinsAreWhole` | *startup* | A start that ends between the INSERT of a built-in role and its sections leaves a role that grants nothing, and every later start takes it for present; `roles.go:80` says "creates the built-in roles if absent" (`store/roles.go:105`) |
| `Mcp` | `RemovedClientHoldsNothing` | *sessions* | A client removed while its code is being exchanged, or its consent answered, gets its refresh token, session or code written after the purge, and tokenFromRefresh goes on rotating it; `oauth.go:73` says "de-registering a client immediately severs every credential derived from it" (the access tokens are refused all the same) (`api/oauth_handlers.go:390`) |
| `Mcp` | `OneMarkPerRunaway` | *gate* | `authorize`'s one unit puts a batch call back under the limit and clears tripped before the rest of the batch is refused, so every refused batch leaves a mark; `ratelimit.go:79` says "exactly one clear mark per time it runs away, rather than none or thousands" (`mcp/tools_parity.go:261`) |
| `Hosts` | `SeedsAreLabelled` | *seeds* | A volume the browser's helper brought into being carries no label and VolumeCreate leaves it as it is, so it is never listed or removed; `compose_binds.go:278` says the volumes are "found by the label the seeding stamps on them" (`docker/compose_binds.go:257`) |
| `Hosts` | `VolumeMirrorsDirectory` | *seeds* | A file that left the project stays in its volume on a redeploy; `compose_binds.go:330` says "so the volume mirrors the directory" (`docker/compose_binds.go:270`) |
| `Hosts` | `SeededIsShipped` | *seeds*, `Projects = {p1, p2}`, `Short <- ShortSame`, `Rels = {1}`, `MaxUser = 0`, `MaxWrites = 0`, `SeedFaults = 0` | Two projects whose slugs agree in their first 40 characters share their volumes; `compose_binds.go:164` calls the name "collision-resistant" (`docker/compose_binds.go:190`) |
| `Hosts` | `RaceIsOneFrameWide` | *streams* | A log stream writes from two scanners, so two frames of a replaced stream can follow; `hub.go:228` says "that race is one frame wide" (`ws/hub.go:232`) |
| `Hosts` | `EndNamesNoLiveSubscription` | *streams* | `finish` releases the lock before it writes "end", so a subscription made in between is told it ended; `hub.go:188` names "the client is told its live subscription ended" as what comparing generations prevents (`ws/hub.go:200`) |
| `Hosts` | `GateIsLive` | *streams*, `Rights <- AnyRights` | The users row is loaded once when the socket opens, so an administrator demoted later keeps subscribing; `ws_handler.go:14` says "checked against the user's live permissions" (`api/ws_handler.go:22`) |
| `Hosts` | `NextUseIsFresh` | *clients* | A dial that read the row before the change caches its client after Disconnect; `manager.go:131` says "so the next use reconnects with fresh settings" (`docker/manager.go:76`) |
| `Hosts` | `TunnelIsOwned` | *clients* | Nothing closes the ssh connection under an ssh host's client when the client is closed; `manager.go:87` says "close the loser rather than leaking its connection" (`docker/ssh.go:55`) |
| `Hosts` | `NoDialUnderTheLock` | *clients* | `sshClientFor` dials with the manager's lock held; `manager.go:74` calls holding it across a dial what "stalls every other host" (`docker/probe.go:233`) |
| `Hosts` | `NoOrphanRuns` | *backups* | A run recorded between DeleteBackupJob's two statements outlives the job; `backupjobs.go:248` rolls back "rather than leaving history for a job that no longer exists" (`store/backupjobs.go:153`) |
| `Hosts` | `EmptyEnvKeepsTheStored` | *backups*, `JobEdits = 2` | An edit without an environment reads and rewrites the stored one in two statements and undoes a concurrent change; `backupjobs.go:111` says "leaves the stored one untouched" (`store/backupjobs.go:125`) |
| `Hosts` | `NoHelperPersists` | *backups* | A process killed during a run leaves its helper container and nothing removes it later; `volumebackup.go:57` says "removed unconditionally — nothing about it persists" (`docker/volumebackup.go:117`) |
| `Hosts` | `NoHalfFile` | *stacks* | On an ssh host the content is the standard input of the script: when the handler gives up meanwhile, `cat` ends with what it has, compose may accept the beginning, and the script moves it into place; `stacks_edit.go:125` says "an interrupted write cannot leave a half-file" (`docker/stacks_edit.go:310`) |
| `Hosts` | `EveryPreviousIsKept` | *stacks* | The backup is what resolveStack read before compose was run, so of two saves, or of a save and an edit on the host, the earlier one is in neither file; `stacks_edit.go:123` says "The previous contents are kept alongside" (`docker/stacks_edit.go:242`) |
| `Hosts` | `PreviousOfAnySize` | *stacks* | Of a local file beyond 1 MiB only the beginning is read, shown and kept as the backup; `stacks_edit.go:123` says "The previous contents are kept alongside" (`docker/stacks.go:318`) |
| `Hosts` | `NotAppliedIsTrue` | *stacks* | Closing the session does not end the script on the host, which goes on to replace the file; `stacks_edit.go:318` answers "the edit was not applied on the host" (`docker/stacks_edit.go:421`) |
| `System` | `NoOrphanMappings` | *domains*, `Editors = {e1, e2}` | A creation that loaded its project before the delete inserts the mapping after it; `store.go:520` says "DeleteProject removes matching rows itself" (`api/domain_handlers.go:82`) |
| `System` | `ExportIsImportable` | *bundle*, `MaxProjectFiles = 2`, `MaxTotalFiles = 3`, `MaxTotalBytes = 2` | Only the import bounds the number of files, so an export can be too large to import; `recovery_bundle.go:43` says "Anything this app itself exports must always be importable again" (`api/recovery_import.go:504`) |
| `System` | `OnlyForgedBundlesStop` | *bundle* | An honest bundle whose files fill the budget exactly makes the import stop; `recovery_import.go:504` takes it that "declared metadata lied" |
| `System` | `WholeOrNothing` | *bundle* | A process killed between the row and the rename leaves a project without its files; `recovery_import.go:487` says "either the whole validated staging directory becomes the project" |
| `System` | `NamesStayUnique` | *bundle*, `Importers = {i1, i2}` | Two imports at once both list before either creates, and both create; `recovery_import.go:240` says "created new or skipped by name/slug collision" |
| `System` | `NoOrphans` | *bundle* | A project deleted while its import is at the rename leaves a directory, secrets and a mapping without a row; `recovery_import.go:487` as above. |
| `System` | `ArchiveIsConsistent` | *backup* | A revision pruned after the snapshot of the database is in the archive without its zip, although it is archived so that no restored database can "report a revision as valid while its snapshot is gone" (`backup.go:51`) (`backup/backup.go:79`) |
| `System` | `ReplacedWholesale` | *backup* | The -wal a killed server left is replayed into the restored database, although `backup.go:279` says "the database is replaced wholesale" (`backup/backup.go:277`) |
| `System` | `FolderIsItsProjects` | *backup* | A restore keeps or brings folders of ids its database has yet to hand out; a new project starts with another one's files (`backup/backup.go:277`) |
| `System` | `SnapshotIsLiteral` | *templates*, `SourceEdits = 2` | A template saved while its project is edited holds files of different moments; `template_handlers.go:436` says "User templates are literal snapshots" (`api/template_handlers.go:527`) |
| `System` | `SeededFromWhole` | *templates*, `SourceEdits = 2` | A template is listed before its files are there and can seed a project with half of them (`api/template_handlers.go:638`) |
| `System` | `TemplateWithinCap` | *templates*, `SourceEdits = 2` | A file that grows between the walk and the copy takes a template past the caps; `template_handlers.go:527` says "the same count/size caps as the editor" |
| `System` | `DeletedLeavesNothing` | *templates*, `SourceEdits = 2` | A write or a seeding under way brings the folder of a deleted template back (`api/template_handlers.go:638`) |
| `System` | `NoSharedVolumes` | *builder* | A renamed volume can meet another block's volume of that very name; `templates.go:372` says "else clustered services would share — and corrupt — one volume" |
| `System` | `NoEmptyVariable` | *builder* | `ResolveVars` never returns that error, so a required variable left blank is rendered as nothing; `templates.go:269` says it "errors if a non-generated variable ends up empty and had no default" (`templates/templates.go:267`) |
| `System` | `NeverGoesBack` | *update* | `--self-upgrade` takes no lock and can install an older release over a newer one; `update_handlers.go:72` says "serialises apply so two upgrades can't race" |
| `System` | `ReplyIsFlushed` | *update* | The goroutine that stops the server does not wait for the handler; `update_handlers.go:332` says "so the response is flushed" |
| `System` | `ReplaceIsAtomic` | *update* | On Windows a process killed between the two renames leaves no executable; `selfupdate.go:272` says "atomically replace the running binary" (`selfupdate/selfupdate.go:466`) |
| `System` | `NoticeIsTrue` | *update* | The notice is stored before the restart that makes it true, which may not come; `access.go:107` says "you're now on vX.Y.Z" |
| `System` | `PackageIsNeverReplaced` | *update* | A package installed between the check and the rename is replaced; `selfupdate.go:92` says "So it is never attempted" |

`EveryDeployIsRecorded` also stands in the passing run `projects`: with MCP
deploys left out it holds.

## 7. Plan

Done:

1. The alert engine and its surroundings: `AlertConditions`, `MaintenanceWindows`
   with `RecurringSpan`, `DeliveryRetry`, `EdgeRules`, `LogFollowers`, with the
   proofs of section 5.
2. `ProjectOps`, with proofs; `RemoteSeed`, `StackEdit`, `ImageUpdates`,
   `Retention`.
3. What runs on hosts: `HostClients`, `HostWatch`, `StreamHub`, `BackupJobs`.
4. Who may do what: `SignIn`, `Enrolment`, `Accounts`, `StartUp`, `McpGate`,
   `McpSessions` with the abstract `SessionLife` and the refinement.
5. What restores, replaces or routes: `RecoveryBundle`, `InstallBackup`,
   `UserTemplates`, `ComposeBuilder`, `DomainRoutes`, `SelfUpdate`.
6. Proofs of everything the runs check that is not liveness.

Left, in this order:

1. A composition of the windows, the conditions and the delivery: an abstract
   promise (a lasting, unsilenced condition reaches its recipient or leaves a
   failed delivery on record) that the three implement.
2. The network rules of the monitor and the metric history they read.
3. The document comparisons before a deploy (policy rules, preview, drift) as pure
   operators against a reference definition.

## 8. Not modelled

- Adapters: the Docker API calls for containers, images, networks, volumes,
  listings of stacks, builds and scans; compose itself (its outcome is a choice of
  the environment). They keep no state of their own.
- Policy rules, preview and drift of a deploy: pure comparisons of two documents. A
  refused deploy changes nothing, which `ProjectOps` has as a refused request.
- Metric history: points behind one lock, or in Redis. `AlertConditions` takes a
  rate as readable or not; the network rules that read more are left out.
- Diagnostics and host probes: read-only checks rendered for people.
- HTTP routing, the audit log's storage, configuration, encryption at rest. What
  the models use of them is that SQLite has one connection, so a statement or a
  transaction is atomic.
- Certificates and ACME: which names may be asked for is the handshake of
  `DomainRoutes`; the exchange belongs to a library.
- Service integration: one straight line of calls to the operating system.
- Parse rules, ignored CVEs, preferences, settings, mail and directory settings:
  single rows with no ordering between them.
- Libraries and cryptography: WebAuthn, TOTP, LDAP, JWT, password hashing; a proof
  of a secret is right or wrong.
- Of the modelled parts: message texts and rendering, scope and pattern matching
  (sets chosen by the instance), incident durations, owners and modes of files,
  the content of frames, the catalogue of templates.
- The web client.
