# Verification of the field service backend

A dispatcher creates jobs for the customers of an organization, assigns them to
field agents, and everybody concerned follows the job's status and the agents'
positions live. The program is a Django REST API with Channels consumers, Celery
workers, PostgreSQL and Redis. This directory holds TLA+ models of its core, the
TLC configurations that check them and TLAPS proofs about them.

Run a configuration with `tlc -config X.cfg M`, where M is the module
`PROJECT.json` names for it, and the proofs of a `*Proofs` module M with
`tlapm M.tla`.

## 1. The system

| component | source | state | operations |
|---|---|---|---|
| Status graph | `apps/jobs/state_machine.py` | none | `validate_transition` |
| Accounts and tenants | `apps/accounts/models.py`, `apps/common/permissions.py`, `querysets.py`, `apps/jobs/permissions.py` | User (role, organization, superuser), Organization | `for_organization`, `visible_to`, the permission classes; edits through the admin only |
| Jobs API | `apps/jobs/views.py`, `serializers.py`, `services.py`, `models.py` | Job, JobEvent | create, assign, transition; list, retrieve |
| Broadcast | `apps/common/realtime.py`, `apps/realtime/groups.py` | Redis groups `org.<id>`, `job.<id>`, `user.<id>` | `send_to_group` |
| Sockets | `apps/jobs/consumers.py`, `apps/accounts/ws_auth.py` | group memberships | connect, `receive_json`, disconnect, forwarding |
| Presence | `apps/accounts/services.py`, `expire_stale_locations` | AgentProfile (status, position, last_ping_at) | `record_location`, the sweep |
| Notifications | `notify_status_change` | Notification, the broker's queue, retries | the task |
| Reminders | `send_upcoming_reminders` | Notification | beat every 15 minutes |
| Daily report | `daily_ops_report` | none (a log line) | beat once a day |
| Job admin | `apps/jobs/admin.py` | Job | add, change and delete forms that save the row directly |
| User admin | `apps/accounts/admin.py` | User, AgentProfile | the profile inline in the user's form |
| Tokens | `apps/accounts/views.py`, `serializers.py` | simplejwt's | obtain, refresh |
| Bootstrap and seed | `bootstrap_superuser.py`, `scripts/seed.py` | the tables | both meant to be run again |
| Chat | `apps/chat` | empty package | none |

How they interact. A request is a thread that reads the job and checks
permissions (`views.py`), then locks the row, validates, saves the job and its
JobEvent and commits (`services.py`). After the commit, and after the lock is
gone, the `on_commit` callback sends `job.update` to two groups and schedules
`notify_status_change` with the job's id. A worker takes that message later,
reads the job again and writes at most one Notification per kind. Independently,
an agent's socket turns `location.ping` into an update of its AgentProfile and a
broadcast to its organization; the sweep turns silent profiles offline.

What is hard here: the permission is checked on a row read before the lock; the
callback runs outside both transaction and lock, so that callbacks overtake each
other and may be cut short; tasks read the state of another moment, run twice,
retry and race; timed tasks come late or not at all; profiles change under pings,
sweeps and forms at once; the admin writes rows it read long ago past the services;
sockets join a group between a read and a handshake; scripts are cut short and run
again. The claims the documents make of all this are seldom what a unit test on
one thread can see.
`PROJECT.json` lists these hazards line by line.

## 2. The modules

| module | models | builds on |
|---|---|---|
| `StateMachine` | the status graph and its check | |
| `Accounts` | users, roles, organizations as constants | |
| `JobLedger` | **abstract**: what the jobs API promises, one atomic permitted step per successful request | both |
| `JobService` | the server: threads, row locks, commits, callbacks, failures | `JobLedger`, which it refines |
| `JobFeed` | the consumers' sockets: connecting, groups, mailboxes, what each client is sent | `JobService` |
| `JobAdmin` | the add, change and delete forms next to the API | `JobService` |
| `NotificationLedger` | **abstract**: what the Notification table promises | |
| `Notifier` | the workers of `notify_status_change` next to the server | `JobService`; implements `NotificationLedger` |
| `Reminders` | `send_upcoming_reminders` under beat, next to the API | `JobLedger`; implements `NotificationLedger` |
| `Seed` | `scripts/seed.py` next to the API, cut short and run again | `JobLedger`, which it implements |
| `Bootstrap` | overlapping runs of `bootstrap_superuser` | |
| `OpsReport` | `daily_ops_report`, its window under late and lost runs | |
| `AgentPresence` | pings, organization groups, the expiry sweep, a clock in minutes | `Accounts` |
| `ProfileWriters` | all writers of one AgentProfile row, on a finer clock | |
| `MC*` | the users, roles and symmetries of the runs | |
| `JobLedgerProofs`, `JobServiceProofs`, `JobAdminProofs`, `ProfileWritersProofs`, `SeedProofs` | theorems | the module they name |
| `FanoutProofs` | theorems | `JobFeed` and `Notifier` |
| `ScheduledTasksProofs` | theorems | `Reminders` and `OpsReport` |
| `AccountsProofs` | theorems | `AgentPresence` and `Bootstrap` |

In a module, a mutant (a plausible bug, named in `PROJECT.json` under `mutants`)
stands directly before the definition it would replace. No specification uses
one: each shows that a property would notice that bug.

**JobLedger.** One variable per column the rules read (`status`, `agent`,
`customer`, `org`) and `events`, the JobEvent rows per job in creation order.
`Create`, `Assign`, `Transition` are the three endpoints; their guards are the
view's scoped queryset (`VisibleTo`), the permission (`IsDispatcher`,
`CanTransitionStatus`), the serializer's checks (`AgentFits`, `CustomerFits`) and
the state machine. A request the code refuses changes nothing and is no step.
`Transition` accepts `assigned`, because the serializer's choice field does.

**JobService.** A thread is `idle`, `begin` (the view is done, on a row read
without lock), `locked`, `written` (saved, uncommitted), then `org`, `job`,
`delay` for the three statements of `_on_status_committed`. `Write` publishes
nothing: READ COMMITTED hides it until `Commit`, which updates the tables,
releases the lock and enters the callback. `Rollback` and `CutCallback` are a
crash or an exception before and after the commit. The lock is not a variable: a
row is free when no thread in a transaction works on it, which is what PostgreSQL
guarantees. The broker's queue is a count per job, since the message is just the
id, and unordered. `orgFeed` and `jobFeed` are the statuses sent to the two
groups, in order. `CreateJob` is one step: a single INSERT and no callback.

`JobService` has the variables of `JobLedger` among its own, so the refinement
mapping is the identity and `LedgerSpec` itself is the property: each commit is
an `Assign` or a `Transition` permitted by the row it changes, and every other
step is a stutter.

**Notifier.** A worker takes a message (Celery acknowledges early, the default
that `settings` leaves), reads the job, looks the notification up, inserts it,
sends it: the two statements of `get_or_create` are separate steps and the unique
constraint decides between racing inserts. `Raise` is any exception with
`autoretry_for`; `Crash` loses the task; `Duplicate` delivers a message twice.
The recipient is the job's customer, so a row is a (job, kind).

**AgentPresence.** A profile has a `presence` and a `pingAge`: instants are ages
counted up to `MaxAge`, beyond which nothing is distinguished, so that behaviours
go on forever with finitely many states. `Ping` is `receive_json` up to its await
and `Broadcast` what follows it; `Disconnect` may come between them. `Tick`
passes a minute and lets beat schedule the sweep, `ExpireStaleLocations` is the
task's one UPDATE. Positions are left out: no property tells two of them apart.
The row a behaviour starts from is any that staff may have left: online, busy or
offline, with `last_ping_at` blank or an instant of their choice (`Entered`).

**NotificationLedger.** An item is recorded once and for good, sent at most once,
and not before it was recorded; nothing says that it is sent. `Notifier` implements
it with the (job, kind) pairs as items (`NotificationPromise`), `Reminders` with
the jobs (`ReminderPromise`).

**JobFeed.** `OpenSocket` is a consumer's `connect` up to its one check
(`Authenticated`, then `MayOpenFleet` or `Participant`), `JoinGroup` is `group_add`,
`AcceptSocket` is `accept`, `CloseSocket` the client's leaving or its replica's end. A
step of the server that sends to a group puts the message into the mailboxes of the
group's members (`Sent`, computed from what the step appended to the two feeds);
`Forward` is `job_update`. A mailbox is a set: the order of messages is not modelled,
and a status is announced to a group once. `base` remembers how long the trail was at
`accept`.

**JobAdmin.** Django's `ModelAdmin`, nothing overridden: a form shows a row
(`OpenForm`). Its POST looks the job up and puts in place of the columns what staff
made of those they saw (`PostForm`, with `Edits` the columns they change), then
saves all of them (`SaveForm`): the UPDATE waits for the row lock but reads nothing
again, and where it matches no row there is an INSERT. So a job that is deleted
between the two is back. A deletion is confirmed and checked (`ConfirmDelete`,
refused while the job has events, because `JobEventAdmin.has_delete_permission` is
False), then collects the rows once more and deletes them (`DeleteJob`, with
`Cascade`).

**Reminders.** A clock of a few minutes per unit, `due` as the units to
`scheduled_for`. `StartRun` evaluates the queryset once, `Remind` is
`get_or_create` for one job of that snapshot, `SendReminder` the message after a
row that was created. A run may be lost (`LoseRun`), cut short (`CutRun`: the task
has no retries) or delivered twice; `waiting` is the time it spends in the queue.

**Seed.** `EnsureRow` is one of the five `get_or_create`s, `CheckJobs` the early
exit, `MakeJob` and `DriveJob` one statement each: `main` has no transaction
around them. `Crash` ends a run anywhere, `Refused` is `validate_transition`
raising because the API was faster; `Request` is the API used by those of the
users that exist by then. A key is given to one job (`Unused`, `Fresh`), as a primary
key is.

**Bootstrap.** `Lookup`, `FullClean` and `Save` are the three queries of the
command and of `_create_user`; `Normalize` is `normalize_email`. `get_or_create_user`
of the seed is the same sequence.

**OpsReport.** A day is `Day` units, `HourPasses` the clock. `DailyOpsReport` counts
the events whose age is within the window; `wait` is the time until a worker takes
the run that beat has put into the queue, and `LoseReport` the run that nobody takes
or that fails: the task has no retry and does not know where the last report ended.
`missed` counts, per event, the lost runs in whose window it was.

**ProfileWriters.** `Stamp` is the call of `now()` in the defaults of
`update_or_create`, `SaveLocation` the save after the row's lock was granted;
`Sweep` is the sweep's UPDATE; `OpenForm` and `SaveForm` are the profile inline of
the user's admin page, where every column can be edited: the status is any, and
`last_ping_at` what the form showed, NULL, or any instant up to `MaxAhead` in the
future. `newest` and `entered` are the history that properties compare with: the
newest ping ever saved and the newest instant staff ever entered.

## 3. The runs

Passing runs:

| run | question | bounds |
|---|---|---|
| `job_service` | do concurrent, failing requests implement the ledger, keep its promises, and get answered and announced? `LedgerSpec`, `AuditTrail`, `EntitledActor`, `TenantIsolation`, `NoOverwrite`, `StillPermitted`, `ValidatedRowIsCurrent`, `FanoutFollowsCommit`, `FanoutComplete`, `RequestAnswered`, `ChangeAnnounced` | 2 threads, 1 job, 2 agents and one of another tenant, 1 failure |
| `notifier` | is a notification sent twice, and does the customer hear of the status that counts? `NotificationPromise`, `CurrentStatusNotified`, `LostByFailure`, `EndIsNotified` | 1 thread, 2 workers, 1 crash or duplicate, 2 exceptions, 2 retries |
| `job_feed` | does an open socket miss a change, and who is sent what with one check at connect? `NothingMissed`, `RoomIsForParticipants`, `HeardInTenant` | 2 threads, 1 job, the target `en_route`; 2 tenants with their dispatchers, agents and customers; an agent's fleet socket, another agent's in the job's room, a socket without token |
| `job_admin` | do events lie, or deleted jobs come back, when staff save and delete rows under running requests? `EventsTellTruth`, `OnlyFormsRevive` | 2 threads, 1 job, 2 tabs, 1 form posted, the status edited |
| `reminders` | is everyone reminded in time, once, and not too late? `RemindedInTime`, `NoLateReminder`, `ReminderPromise` | 1 job, 2 workers, units of 7.5 minutes: window 8, period 2, a wait of 1, leads up to 9; 2 faults |
| `seed_reruns` | does the seed do what its users may, and seed once? `LedgerSpec`, `SeededOnce` | 9 primary keys for its 6 jobs and the API's, 1 crash, 2 requests |
| `bootstrap` | is the account there, and do reruns succeed? `AccountIsThere`, `RerunIsSafe` | 4 processes, 2 spellings of one mailbox and another mailbox, 2 crashes |
| `ops_report` | is each event in the window of one report? `CountedOnce` | 3 events, a day of 5 units, a wait of up to 2, any run lost |
| `presence` | does the sweep expire the silent, in time, and who sees their positions? `OnlineIsFresh`, `SilentGoesOffline`, `LocationStaysInTenant` | 2 tenants, 5 connections, two of them of one agent; profiles as staff left them, with a ping entered by hand 5 or 9 minutes old |
| `profile_writers` | how far back or ahead may connections and forms take a profile, does the sweep come too early, and is a silent agent expired? `LastPingKept`, `HeardIsOnline`, `NeverTooFresh`, `ExpiredAllTheSame` | 2 connections, 1 tab, 3 units until stale, 1 unit of stall, entries up to 1 unit ahead |

`job_service`, `notifier`, `job_feed`, `job_admin` and `presence` check their module's
type invariant too. `JobLedger` has no run of its own:
its properties are checked of the server that implements it, and its actions are
steps of `reminders` and `seed_reruns`.

What the properties say.
- *The server.* `AuditTrail`: the events of a job are one walk of the graph from `new`
  to the current status. `EntitledActor`: everyone named in it was a dispatcher of the
  organization or the agent, and still is. `StillPermitted`: the permission checked on
  a stale row still holds on the current one when the request commits.
  `ValidatedRowIsCurrent`: of two transactions on one job at most one has read it, and
  its reading is current. `FanoutFollowsCommit`: groups hear only of committed
  changes, of each at most once, and in the job's room of none that was not sent to
  the organization. `FanoutComplete`: a failure between commit and queue costs one
  change its broadcasts or its task, and never a second one; without failures nothing
  is skipped.
- *Notifications.* `LostByFailure`: a message that is recorded and will not be sent,
  because the retry finds the row and leaves, is the work of a crash or an exception
  between the two, each of which costs one message at most.
- *Presence.* `OnlineIsFresh` bounds the sweep from one side (nobody who has pinged is
  online for too long), `HeardIsOnline` from the other: until a form is saved, whoever
  was heard of within the threshold, less the time a save may be held up, is online.
  `LastPingKept`: out-of-order saves of two connections cost at most the time a save
  is held up, by which the sweep may come early. `NeverTooFresh` and
  `ExpiredAllTheSame`: a form may put an expired agent online again, with what it
  showed or any instant entered, and the sweep undoes it as long as no ping and no new
  entry comes, unless the form cleared `last_ping_at`.
- *Sockets.* `NothingMissed`: while no process fails, what was committed since a
  socket's `accept` has been heard, waits in its mailbox or is still to be announced
  by a running callback; so a client that reads the state after the handshake misses
  nothing. It depends on `group_add` coming before `accept`. `RoomIsForParticipants`:
  one check at connect is enough, because nothing the API does takes a participant out
  of a job. `HeardInTenant`: no socket but a superuser's is sent a change of another
  organization's job, nor one that was not committed, and a room none of another job.
- *Job admin.* `EventsTellTruth`: whatever staff do between two statements of a
  request, a new event tells the step the row takes, since `services.py` reads under
  the lock. `OnlyFormsRevive`: a request under way does not bring back a job that is
  deleted meanwhile; a posted form does.
- *Timed tasks and scripts.* `RemindedInTime`: a job booked `Notice` ahead, the time
  for `MaxFaults` failed runs and a late one, has its reminder; the code's window of
  60 minutes and period of 15 have room for a late run after two that fail.
  `NoLateReminder`: a job that is settled is not reminded of by a run that had not
  read it before. `CountedOnce`: only events of a day's first units, those a late run
  shifts its window over, can be in two windows; every other event is in one, and in
  the report unless that very run was lost. `AccountIsThere`: a process that ended, be
  it by losing a race, has left the mailbox with an account under the e-mail that
  people log in with. `LedgerSpec` in `seed_reruns`: the seed, which asks for no
  permission, makes permitted steps only.

Why the bounds are enough.
- *Jobs, threads.* Nothing relates two jobs but the agent they share, which
  `agent_grabbed_twice` has two jobs for, and the tenant. Two threads give one that
  holds the lock and one that waits for it or is in its callback, and a thread
  serves any number of requests in turn. The theorems have no such bound.
- *`Targets`*, the statuses clients ask for, is cut per run: `job_service` has the
  fork `en_route`/`cancelled` and a PATCH to `assigned` against a POST to assign.
  Whatever else is asked goes through the same guard.
- *`MaxFaults`, `MaxErrors`* count failures, since each multiplies the states;
  one failure may come at any point. `notifier` has as many exceptions
  (2) as one task has retries (2), the most for which its properties can hold;
  the code has 5 retries. `MaxCrashes`, `MaxRequests` and `MaxPosts` are the same
  for the scripts and the forms. One post is enough for a stale form, or for one that
  races the other tab's deletion.
- *Clocks.* Ages and delays stop being distinguished beyond the last comparison
  the code makes with them (`MaxAge`, `MaxLead`); a run waits less than its period,
  so that two due runs of one task never merge. `Tick` requires a reminder run to
  be through within a unit, 7.5 minutes.
- *`Sockets`.* Connections do not interact; `job_feed` has one for each of the two
  groups a job is announced to, of two agents who may or may not get the job, and one
  that is refused.
- *`StaleAfter` = 5, `SweepEvery` = 2* in `presence` are the program's values; of the
  instants staff enter before (`Entered`), one is at the threshold and one is where
  ages stop being distinguished. *`MaxLate`* = 1 is the time a due sweep may wait for a
  worker. `profile_writers` needs only a threshold beyond the stall: 3 against 1, and
  entries `MaxAhead` = 1 to come.
- *Symmetry* (`Permutations` of the threads, tabs or events) is used in `job_feed`,
  `job_admin` and `ops_report` and nowhere else: runs with liveness have none.
- `CHECK_DEADLOCK FALSE` is set in `job_admin` only, where the one primary key may
  be deleted and is never given again.

Fairness. `SF(SelectForUpdate)`: PostgreSQL grants a row lock to its waiters in
turn, so that a thread whose row becomes free again and again gets it; weak
fairness would say nothing, as the row may be taken again each time. `WF(Serve)`:
a thread that runs goes on with its request. Arriving requests and failures have
no fairness. `WF` of `Work`, of taking a message and of taking a retry: a worker
pool that is up. `WF` of `Tick`, `ExpireStaleLocations`, `Broadcast`: time passes,
beat and a worker are up, an awaiting consumer is resumed. `WritersFairness` is the
same for `ProfileWriters`: time passes, a save that was begun ends, the sweep runs
again and again. Pings and forms have none: an agent may fall silent at any moment.
The other modules have safety properties only.

### What the documents say and the code does not do

Two runs state a docstring of the repository and find a behaviour of the code that
violates it (`findings` in `PROJECT.json` quotes them):

| run | sentence | what happens |
|---|---|---|
| `agent_grabbed_twice` | `services.assign`: no two dispatchers grab one agent for two jobs at once | the lock is on the job; both transactions write the agent |
| `seed_cut_short` | `scripts/seed.py`: a job in every status; safe to re-run | after an interrupted run the next one finds a job and leaves |

`seed_cut_short` needs the interruption: a run that gets to its own end has taken a job
through every status (theorem `OwnEndIsComplete`).

Of the other disagreements met while modelling, a passing property states what
does hold; they are described here for the reader of the code:

- `docs/data-model.md` has an agent on every job from `assigned` on; a PATCH to
  `assigned` is a legal edge and leaves a job assigned to nobody, for good: no later
  request gives it an agent (theorems `OrphansStay`, `ServiceOrphansStay`).
- `docs/README.md` has everyone see a change the instant it happens; two callbacks
  may overtake each other, so that the last status sent is the older one.
  `ChangeAnnounced` is what remains.
- `JobEvent.from_status` is "blank on the very first event"; a creation writes no
  event, and the first one is from `new` (`AuditTrail`).
- `docs/architecture.md` #7 has a notification for each transition; a status that
  has passed when the task runs gets none (`CurrentStatusNotified`: the last one
  does, if nothing crashed and the exceptions are no more than the retries). A failure
  between row and message is not made good by the retry, though
  `docs/data-flow-diagram.md` has the delivery retried (`LostByFailure`: nothing but
  such a failure loses a message).
- `docs/system-design.md` has an agent never see "other agents' jobs", as does
  `docs/architecture.md`: an agent "cannot see" them. `GET` keeps to that; the agent's
  socket does not. It is in the organization's group, which hears of every job, and
  `AgentConsumer.job_update` passes each message on. `HeardInTenant` is what holds: the
  organization is the limit.
- `docs/architecture.md` #7 has the sweep broadcast; it updates the table and sends
  nothing. Agents are to go offline by their last ping; a profile that staff set online
  and leave with a blank `last_ping_at` stays online for good, since NULL is not less
  than the threshold, and one dated ahead by hand until that instant is past the
  threshold (`SilentGoesOffline` and `ExpiredAllTheSame` name both).
- `docs/data-model.md` calls a status without its JobEvent a bug; a change form
  opened before a transition and saved after it restores the old status. An event
  committed between a deletion's check and the deletion goes with its job, though the
  trail is "append-only"; and a form whose job is deleted between its lookup and its
  save inserts the job again, with the status it had and without a trail
  (`EventsTellTruth` and `OnlyFormsRevive` are what forms leave standing).
- `bootstrap_superuser` is "idempotent" for normalized e-mails only (`RerunIsSafe`): the
  lookup takes the e-mail as given and the row has it normalized, so that the second
  run with a capital in the domain fails. The account is there (`AccountIsThere`).
- The report of "the day" is of the 24 hours before the run, and a lost run is not made
  up for by the next (`CountedOnce`). "Per organization" is per name: the name is not
  unique, and organizations that share it share an entry.
- `record_location` calls itself the only writer of the location; the admin's
  profile form is another (`LastPingKept`, `NeverTooFresh`).

## 4. The proofs

All are machine-checked, for any number of users, organizations, jobs, threads,
workers, sockets, tabs and failures, and any periods and thresholds. The assumptions
are those of the modules, and TLC evaluates them in the runs: `AccountsAssumption`
(the schema and `User.clean`: everybody but a superuser has an organization);
`LedgerAssumption`, `ServiceAssumption`, `AdminAssumption`, `NotifierAssumption`,
`PresenceAssumption` and `WritersAssumption` (bounds are numbers, markers like
`Absent` and `Never` no values they could be mistaken for); `FeedAssumption` (a
socket's URL names a job or a fleet feed, its token a user or nobody);
`RemindersAssumption` and `ReportAssumption` (a due run is taken before the next is
due); `BootstrapAssumption` (normalizing an e-mail twice changes nothing more);
`SeedAssumption` (the script's three users have the roles and the organization that
`get_or_create_user` gives them: the database had nobody else with their e-mails). One
theorem has a hypothesis of its own, `RemindersInTime`, named below. Each inductive
invariant was checked by TLC on its module's run before it was proved.

*Ledger.* Inductive is `LedgerInv`: types, `AuditTrail`, `EntitledActor`,
`TenantIsolation` and the strengthening `Untouched`: a job that is absent or new has
neither an agent nor events. It is needed because an agent named in the trail must
stay the job's agent: an assignment requires the edge into `assigned`, which starts
only at `new`, where `Untouched` says there is no agent to replace and no trail to
invalidate. `Assign` and `Transition` are cases of one `Change`, for which the
invariant is proved once (`ChangeKeeps`). `NothingIsOverwritten` follows from the
invariant and the edges. Since each edge leads deeper into the graph (`Depth`), a trail
is as long as its status is deep, and no job sees more changes than the graph has levels
(`TrailsStayShort`). `OrphansStay` is the other side of the same rule: the edge into
`assigned` starts only at `new`, so a job that went on without an agent stays without.

*Server.* Inductive is `ServiceInv`: its types, `LedgerInv` and, of the threads,
`RequestsSound` (a request is about an existing job, an assign asks for `assigned`),
`RequestsPermitted` (from the unlocked read to the commit the permission still holds),
`WritesValid` and `ValidatedRowIsCurrent`. The lemmas are `ThreadMoves` (a step moves
one thread), `LockedRowStays` (no step of another thread changes a locked row) and
`PermissionLasts`: a permission once given outlives every step, as the agent of a job
is written once and roles and organizations do not change. With it
`ServiceImplementsLedger` shows that a commit is a permitted atomic step though its
permission was checked on a stale row; the ledger's theorems then hold of the server
(`ServiceAuditTrail`, `ServiceOverwritesNothing`, `ServiceTrailsStayShort`,
`ServiceOrphansStay`).

*Callbacks.* `FanoutFollowsCommit` and `FanoutComplete` rest on `FanoutInv`, next to
`ServiceInv`. `StatusPassed`: a job's status lies at least as deep in the graph as
whatever its trail names, and each edge leads deeper (`Depth`), so that no status is
entered twice and no feed repeats one. `CallbacksApart`: of two callbacks for one job
each has a change of its own, sent as far as it has got. `QueueBounded`: the threads
about to call `delay` count as messages, since the job's group has heard of their
changes already. `OnlyFailuresSkip`: a change without its task has a callback on its way
there, or a failure that cut it; both are counted, so that `FanoutComplete` follows once
no callback runs. The groups come before the queue and hear no less (`RoomHearsNoMore`).

*Sockets.* Inductive is `FeedInv`: `ServiceInv`, who is in a group, and
`RoomsChecked`: whoever has passed the check of a job's room, joined or not yet, is a
participant. `RoomIsForParticipants` itself is not inductive, as between the check and
`group_add` the job may change under a connection that is no member.
`ParticipantLasts` carries it through every commit: customer and organization of a job
never change, an agent it has got does not either, and an agent may join only the room
of a job that has that agent.

`HeardInTenant` and `NothingMissed` follow from `MailFeedInv`, the conjunction of
`FeedInv`, `FanoutInv`, `MailInv` (mailboxes hold what `HeardInTenant` allows, and are
empty before the socket has joined its group) and `AllFollowed` (what was committed
since `accept` has reached the socket, or has a callback yet to send it to the
socket's group).

*Job admin.* `LedgerInv` is lost with the first form that is saved, and
`EventsTellTruth` needs little of it. Inductive is `AdminInv`: types, `RequestsServed`
(the job of a running request exists or was deleted: its key is given to no other
job), `FormsServed` (the same of the job that a form shows), `WritesValid` and
`ValidatedRowIsCurrent`. Saving and deleting wait for the row lock, so they change no
row that a transaction has read (`UnlockedRowChanges`); a commit is therefore the step
its event tells (`CommitTellsTruth`), of a row that exists, which is why no request
revives one (`OnlyFormsRevive`). `JobServiceProofs` states the lemmas both use without
`LedgerInv`.

*Notifications.* Inductive is `NotifierInv`: the server's invariant, types, and
`OneSender`: a worker about to send inserted the row, nobody else is about to send the
same, and it has not been sent. That makes each step of `Notifier` a step or a stutter
of `NotificationLedger`. For `CurrentStatusNotified`, `LastStatusSeenTo` says who will
see to a job's current status: a callback, a message, a retry or a worker that has not
read the job yet or has read this status; `AttemptsCounted` that a retry has been paid
for with an exception, so that the retries are not used up. `LossesCounted` is
`LostByFailure` with the set of lost messages finite: of the steps of `Notifier` only a
crash or an exception of a worker about to send adds to it, and one message at most
(`OneLossAtATime`, by `OneSender`).

*Reminders.* `RemindersInv` has the types, `ClockInv` (a run that waits or is at work
began when beat fired, at most `MaxLate` units ago) and again `OneSender`, for
`ReminderPromise`. `RemindersInTime` needs `TimeLeft`: a pending job booked in time
that has no reminder yet is at least `Needed` units ahead, the time of all runs that
may still fail (`Spare`) and of the one after them. A failed run costs one period and
leaves one failure less; a run that starts either takes the job into its snapshot or
finds it more than `Window` ahead. Here the theorem has its hypothesis, `Notice <=
Window`: the window is as long as `MaxFaults` failed runs and a late one take. The run
meets it (7 units of 8), as do 60 minutes and a beat of 15 with a wait of less than
15. `NoLateReminder` is `SettledStays`: a job that is neither pending nor in the
snapshot of a run never gets into one.

*Presence.* Inductive is `PresenceInv`. Its `Fresh` bounds the age of the ping of an
online agent who was ever heard of by `SilenceAllowed`, the threshold and the time
since the sweep was last due; the sweep sets that back, the clock moves both by one. Of
a profile that only staff have touched nothing of the kind holds, and nothing is
claimed. `GroupsApart` (a group's members belong to its organization) and
`SavedByAgents` give `LocationStaysInTenant`.

*Profile writers.* `WritersInv` adds to the properties what is true of values read
earlier: the row that a form shows is no fresher than the newest ping or the newest
entry (`FormsTrue`), and the stamp of a save in progress is at most `MaxStall` old (in
`WritersTypeOK`). `OnlineUntilStale`, that since the last ping only the sweep has
written the status, gives `HeardIsOnline` together with `LastPingKept`.

*Bootstrap.* Inductive is `BootInv`: the table holds normalized e-mails
(`Normalized`); who has ended has left a row (`AccountIsThere`), so that with a
normalized e-mail his next lookup ends him (`EndedRunsFind`); and a process with a
mailbox of its own is between its queries only while the row is not there
(`LoneRunsFind`), so that its insertion cannot fail (`RerunIsSafe`).

*Seed.* Inductive is `SeedInv`: `LedgerInv`, `SeededInDemo` (whatever any run made
belongs to the demo organization, so that the next run's check finds it) and
`ScriptSound`: while a run makes jobs, those it made are all that were ever made, and
the one it is at has the seed's agent once its first step is done, whatever requests
came between. Hence `SeededOnce`; and hence each statement of the script is a step its
users were permitted to make though `services.py` does not ask (`SeedImplementsLedger`).
`OwnEndIsComplete` adds `DriveSound`: each job made so far names in its trail the
statuses it was driven through, and a trail only grows (`EnteredGrows`).

*Daily report.* Inductive is `ReportInv`. `DueAtMidnight`: a run that waits is the one
beat fired at hour 0, at most `MaxWait` ago. `Dated`: the hour of an event's birth and
its age tell how many midnights lie between. `CountedTwice` and `CountedNextDay` then
say per day what the counter holds: an event of the first hours may be in the report
of its own day, which came late, and in the next one, never in a third; one that is
younger than any late run is in exactly one (`EventsCountedOnce`). A run that is lost
ends like one that counts, so that both are one lemma (`EndOfRunKeeps`).

All invariants and step properties of the passing runs are proved. Only model-checked is
liveness (`RequestAnswered`, `ChangeAnnounced`, `EndIsNotified`, `SilentGoesOffline`,
`ExpiredAllTheSame`): fairness and ENABLED are out of the prover's reach.

## 5. What is not modelled

- Accounts are constants: only the admin changes roles and organizations.
  `PermissionLasts`, and with it everything proved of permissions, is about
  accounts that stay as they are while a request runs or a socket is open.
- The theorems are about the API. What the job admin leaves of its properties is
  `JobAdmin`'s subject: events stay true; `AuditTrail` does not survive a form.
- The forms are not composed with the sockets: `JobFeed` has the API's changes only. A
  form that gives a job to another agent or customer leaves the former one's socket in
  the job's room, where it goes on hearing of the job until it closes, since the check
  is made at connect and never again.
- What a report holds but the count: the grouping by name is a GROUP BY, and nothing
  reads its result.
- The life cycle of tokens (obtain, refresh, expiry) is simplejwt's; a socket is
  authenticated once, by the outcome of that check (`TokenUser`).
- The channel layer: the order and the capacity of a mailbox, and the membership
  that a dead replica leaves in Redis until it expires. Nobody reads that mailbox.
- Two seeds at once: they are started by hand.
- An agent's skills and position, a job's reference, priority and address decide
  nothing modelled here. Groups of one user carry nothing at this commit.
- The read endpoints and the read-only admins change no state.
- Chat is empty; settings, deployment, migrations and factories are configuration,
  whose numbers (periods, queues, retries, window) the constants have.

## 6. What is left

Every part of the system with state of its own is modelled, and every safety property of
the runs is proved. What the code may yet call for:

1. Accounts that change while a request runs or a socket is open. `PermissionLasts` and
   what rests on it would be lost; a model of it has to say what remains.
2. The order of messages: of two notifications of one job, and within a mailbox. Nothing
   in the code fixes either.
3. A sweep that broadcasts, once the code has it do so: `AgentPresence` then has to tell
   what a group has heard from what the table says.
