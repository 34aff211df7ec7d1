# DreamTeam in TLA+

A formal model of the core of the DreamTeam platform: a multi-tenant .NET
application of four modules (Identity, Multitenancy, Files, Forms) on a set of
building blocks (eventing, persistence, storage, quota, jobs, web), with two
React clients, the tenant dashboard and the operators' admin console. The models
are translated from the C# and TypeScript sources under `src/`, read with the
rules in `.agents/rules/` and the tests. TLC checks them on small instances;
TLAPS proves every invariant and action property of theirs for all instances.

To check a model, `tlc -config <run>.cfg <module>.tla`; to check the proofs,
`tlapm <module>Proofs.tla`. `PROJECT.json` has the list of runs, the map from
every definition to the lines it stands for, and the hazards.

## 1. The system

| Part | State it keeps | Operations | What makes it hard |
|---|---|---|---|
| Eventing (`BuildingBlocks/Eventing`) | `OutboxMessages`, `InboxMessages`; the tracked entities of each dispatcher | add, claim, dispatch, mark processed or failed, redrive | several dispatchers, leases, crashes between commits, stale copies |
| Forms (`Modules/Forms`) | templates, versions with `IsCurrent`, instances, submissions | create template, publish version, schedule, submit, complete, skip | check-then-act over single statements, two unique indexes, no transaction |
| Files (`Modules/Files`, `Storage`, `Quota`) | `FileAssets`, the object store, the StorageBytes meter, the outbox | request URL, upload, finalize, delete, restore, two purge jobs | three stores without a transaction, whole-row writes, jobs that work on ids read earlier |
| Tenant provisioning (`Modules/Multitenancy`, `IdentityDbInitializer`) | tenant, provisioning runs with steps, password buffer, Hangfire queue | create, retry, activate, deactivate, the job | at-least-once jobs, retries, stale copies, several hosts, memory lost in restarts |
| Tenant validity and caches | tenant row, tenant cache, expiry notices, themes | renew, adjust, scan, theme update | whole-row writes, cache refreshed after the save |
| Identity tokens and sessions | one refresh token per user, sessions, impersonation grants and their cache | login, refresh, revoke, impersonate | rotation races, revocation against use, cache refill |
| Quota | counters in Redis or memory | check, record, check-and-record | increment and roll-back |
| Web | idempotency cache, SSE tokens and connections, presence counts | requests, streams, hub connections | concurrent duplicates, aborted requests |
| Jobs | Hangfire's queue and locks (external) | enqueue, recurring jobs | redelivery, stale locks |
| Hosts, migrator, migrations | none of their own | start-up | two migrators |
| Clients: session (`auth/`, `lib/api-client.ts`) | tokens, permissions and the operator's stash in localStorage, shared by all tabs; per tab the user shown, the refresh in flight | sign in and out, call, refresh, impersonate, fetch permissions | answers that come after the session they were asked for was replaced, by this tab or another |
| Clients: realtime (`realtime/`) | a hub connection, its builds, starts and delays | build, start, stop, reconnect, rebuild on each change of token | one "stopped" flag shared by overlapping runs of an effect |
| Clients: chat feed (`pages/chat`) | a page of messages per channel in the query cache, replies per thread, optimistic messages, the read mark | fetch, receive, send, load older, mark read, switch channel | events, fetches, older pages and answers in any order |
| Clients: uploads (`hooks/use-file-upload.ts`, `components/file`) | one progress snapshot, request and cancel flag per hook; the component's own requests | pick, cancel, dismiss, hand over | several uploads in one hook, cancels that come early or late |
| Clients: pages (`pages/`) | dialogs, inputs and pending mutations per page; the query cache all pages share | open, type, send, close, leave; fetch, invalidate, poll | late answers, refetches under a user who types, entries a mutation forgets to refresh |
| Clients: SSE, inactivity, theme, kit | a stream, a clock, settings | open, read, show | little of their own |

How they interact. HTTP handlers run concurrently, on one or more hosts, each
with its own DbContext. Nothing opens a transaction around a handler (there is
no such pipeline behaviour, and Npgsql is configured without a retrying
strategy), so **every SaveChanges, ExecuteUpdate and ExecuteDelete is a commit
of its own**: this is the grain of the server models. Handlers that announce
something call `IOutboxWriter.AddAsync`, which saves by itself; the hosted
service `OutboxDispatcherHostedService` publishes the stored events through the
bus, in process by default, and the inbox makes handlers idempotent. Long work
(provisioning, purges) runs as Hangfire jobs, which are delivered at least once
and retried when they throw. Files talk to an object store through a decorator
that keeps the tenant's meter.

The clients talk to the API through one wrapper that refreshes the tokens once
per tab when a call is refused. What a page shows lives in TanStack Query's
cache: queries fill it, mutations name the entries to fetch again, the hub's
events patch the chat's. JavaScript runs one handler at a time, so the grain of
the client models is the synchronous stretch between two awaits, **and whatever
a handler has read before an await may be stale after it**.

What could go wrong, line by line, is the list `hazards` in `PROJECT.json`; the
properties below are aimed at it.

## 2. Modules

| Module | What it is |
|---|---|
| `EventDelivery` | abstract: what the outbox promises the module that writes an event |
| `Outbox`, `MCOutbox`, `OutboxProofs` | outbox store, dispatchers, in-process bus, inbox; implements `EventDelivery`; seven theorems |
| `Forms`, `FormsProofs` | the Forms module and three theorems |
| `Files`, `FilesProofs` | the Files module, its jobs, the object store and the meter; five theorems |
| `Provisioning`, `MCProvisioning`, `ProvisioningProofs` | tenant provisioning and four theorems |
| `Sessions`, `MCSessions`, `SessionsProofs` | the session of a browser's tabs and the server's refresh tokens; five theorems |
| `Realtime`, `MCRealtime` | the hub connections of a tab; its three theorems are at the end of `SessionsProofs`, whose token store is what every rebuild answers to |
| `ChatFeed`, `MCChatFeed`, `ChatFeedProofs` | the feed of the chat; seven theorems |
| `Uploads`, `MCUploads`, `UploadsProofs` | the upload hook in each component that uses it; five theorems |
| `Pages` | the vocabulary in which a page of a client is described |
| `Visits` | what the next machines have in common: the page, and its user's visits to it |
| `DashboardPages`, `AdminPages` | the pages of the two clients, as data |
| `ViewForms`, `MCViewForms` | what users and late answers do to the dialogs and forms of a page |
| `ViewCache`, `MCViewCache` | what a page shows of the query cache after its user's writes |
| `PagesProofs` | five theorems about `ViewForms` and `ViewCache`, for any tables of pages |

Definitions whose comment begins with "Faulty" are not used by any
specification. Each is the definition below it with a plausible bug; putting it
in the place of that definition makes TLC report one of the properties, which
shows that the property depends on the code (`mutants` in `PROJECT.json`).

### 2.1 Outbox

State. `stored` and `row` are the table, `inbox` the inbox table, `ran` counts
the committed effects of each handler (a history variable, and what repeated
delivery is judged by). Per dispatcher, `pc`, `batch`, `copy`, `cur` and `at`
are its position, its unfinished messages, **the entities as it claimed them**,
the current message and the current handler. `redriving` holds the rows an
operator's redrive has read. Absolute times are kept as the ticks that remain,
in the table and in the copies alike: the state space stays finite and no clock
is bounded.

Actions. `Add` is `AddAsync`. `Claim` is the `UPDATE ... FOR UPDATE SKIP LOCKED
... RETURNING` statement: the oldest eligible rows, up to the batch size, atomic
and disjoint from other claims. `Take` is the next turn of the `foreach`, in any
order because `RETURNING` promises none; a payload that does not deserialize is
poison. `CheckInbox`, `RunHandler`, `AckInbox` are the bus per handler, with
`AckSwallowed` for the inbox's catch of any `DbUpdateException`, `HandlerThrows`
and `AckThrows` for exceptions before and after the handler's effect. `Settle`
is the mark, with the row as **claimed** plus the change; `SettleThrows` is a
failing save, after which the code calls `MarkAsFailedAsync` on the same entity
or, in the catch clause, leaves `DispatchAsync`. `Crash` stops an instance.
`RedriveRead` and `RedriveSave` are the operator's redrive, which saves only
the columns it changed. `Tick` lets time pass.

Choices. `SkipLocked = FALSE` is any provider but Npgsql, where the batch is read
without a claim. `LeaseCoversBatch` is the assumption a deployment makes when it
sets the lease: with it, time does not outrun a batch in flight; without it, any
lease may run out at any moment. `SavesFail` allows failing saves. The inbox
lookup and the handler are one position apart, so a redelivery may fall between
them.

### 2.2 Forms

State: the four tables and, per request, `pc` and what it has read (`arg`). A
template is identified by its slug. The two unique indexes of `FormVersions`
(template and number; one current per template) are `Refused`.

Actions: one per query that decides and per statement that writes.
`ReadMaxVersion`, `FlipCurrent`, `InsertVersion` are `CreateFormVersion`;
`ReadVersion`, `Schedule` are `CreateProcessInstance`; `AcceptSubmission`,
`CloseSubmitted`, `InsertSubmission` are `CreateSubmission`; `ReadStatus`,
`WriteStatus` are the two handlers that close an instance; `Die` is a request
cut off at any point. In `AcceptSubmission` the reads of the instance and of the
prior submission are one step: submissions are never removed, so the second read
commutes with everything others do. The folder `PublishFormVersion` is an empty
stub that `CreateFormVersion` superseded. `UpdateProcessTemplate` writes content
only and is left out, and so are `IsArchived`, `Running` and `IsDeleted`, which
nothing sets.

### 2.3 Files

State: `row` (status, trash flag), `object` (what lies under the key), `overdue`
and `aged` (deadline and retention passed), `usage` (the meter), `announced`
(events in the outbox), the requests with the row **as loaded** and what they read
of the bytes, the two jobs with the ids they read and the objects still to remove.
History: `reused` (files PUT again after somebody read their bytes to judge them)
and `unsaid` (files whose finalizer died before it added the event).

Actions: `RequestUpload` (the quota check and the insert are one step: the
check's answer may be stale only towards the limit, about which nothing is
claimed); `Upload`, a PUT to the URL, which `GenerateUploadUrlAsync` signs for a
time and not for one use: it may come **at any moment until the deadline, any number
of times, also after the file was finalized**; `Finalize` (the load), `Head`,
`Scan`, `Debit`, `SaveFinalized`, `Announce`, each a call to another system, with
the bytes read twice; `Probe`, `RemoveRejected`, `SaveTrashed` for uploads of
another size or type; `Delete`, `SaveTrashed`; `Restore`, `SaveRestored`; per job
`JobRead`, `JobRemove` per object, `JobPurge`, `JobDies`; `Close` and `Age` for
time. The soft-delete interceptor turns a removal into an update of *all* columns,
hence `SaveTrashed` writes the loaded row; the other saves write the changed
columns. An update by key that finds no row throws (`Save`). The object store's
`RemoveAsync` logs and swallows failures, so bytes may stay. Every file weighs
1. Retention is much longer than the upload window, so `Age` requires `overdue`.
The jobs run without a tenant: Hangfire's activator sets one only if the job was
enqueued with one, and the recurring jobs are not. So what a job removes is not
metered (`JobRemove`), and the refund before `JobPurge` throws, is logged and
changes nothing. `ChangeVisibility` sets a flag nothing here reads.

### 2.4 Provisioning

State: the tenant's activity, the runs (oldest first, each with four steps),
Hangfire's `queue` and the retries `left`, whether schema and admin exist,
`buffered` (hosts whose `TenantInitialPasswordBuffer` has the password), the
requests, and per worker its position and execution: run, step, **the copy of the
run its DbContext tracks**, and a password taken out of the buffer.

Actions: `CreateTenant`, `BufferPassword`, then `StartAsync` as `CheckLatest`,
`InsertRun`, `Enqueue`; `Retry` enters at `StartAsync`; `ReadInactive`,
`SaveActive`, `Deactivate`; for the job `Fetch`, `MarkRunning` (skips what the
copy calls completed), `Migrate`, `Seed` and `CreateAdmin`, `StepThrows`,
`MarkStepCompleted`, `MarkCompleted`, `MarkFailed`, `JobEnds` (Hangfire's
retry); `Redeliver` and `HostRestart` for Hangfire's at-least-once delivery.
`SaveCopy` is EF Core's change tracking: the columns changed in the copy are
written, over whatever the row has become.

Reads and saves may throw. `Fetch` may find the tenant unreadable, which is outside
the job's `try`; `MarkThrows` is any of the four `Mark...Async` throwing, before or
in its save. From the `try` that leads to `MarkFailed`; **from the catch clause, and
from the read of the tenant, the job throws with nothing in the log**. The changes a
failed save was to write stay in the tracked copy and are written by the next one
(`Unsaved`). History: `abandoned` (runs nobody will work on: the request ended between
insert and enqueue, or the last attempt Hangfire makes recorded nothing) and
`disturbed` (runs delivered while worked on, or in which an execution that finds
them completed could not use the log).

Left out: the fallback that runs the job inline when job storage is missing;
roles, groups and other seeds, which are idempotent; the job id saved after
enqueueing, which nothing reads. `CreatedUtc` order is run order.

### 2.5 Sessions

State. `store` is localStorage, shared by the tabs: access and refresh token,
the permissions, and the operator's tokens stashed by an impersonation. An
access token is its claims (whose it is, who impersonates); a refresh token is a
number. Per tab, `tab[t]` is the `AuthProvider`: the session shown, the one the next
render is to show (`next`, `due`), the subject last asked permissions for, whether
they are there, whether start-up is over.
`unseen` holds the tabs with a storage event to handle, `jobs` the requests in
flight **with the tokens they were sent with**; `slot[u]` is the one refresh token
the server accepts of a user.

Actions. `Boot` (a page load, with the refresh it may begin with), `Handoff`
(an impersonation token in the URL), `CloseTab`, `See` (a storage event), `Visible`
(the user comes back to the tab), `Login`, `Logout`, `Unauthorized` (a call is refused; calls refused
together share one refresh, which is the module variable `refreshPromise`),
`Begin` and `Stop` (impersonation), and the settling of each request: refresh,
login, permissions, begin, end. On the server, `Check` and `Answer` are apart,
because two requests with one token both pass the check before either stores its
successor (`RefreshTokenCommandHandler`); `Refuse` and, with `Faults`, `Fail` at
any moment (a login or an end that is refused is a failure to the tab, so `Fail` stands for both). Every change of the store ends in `Rebuilt`: the tab's own listener
sets its user at once, and other tabs get an event. React comes later: `Rendered`
shows the user that was set, cleans up the hydration effect, **which only now cancels
the fetch of permissions**, and runs it again. In between, any answer may come, the
permissions of the session before included; they are then stored beside the new one.
`PermissionsOfSession` is therefore about tabs that have rendered.

`stacked` records that an impersonation was begun over another one, from the
page of another user; the stash then mixes two sessions, and
`ImpersonationNeverRefreshed` says so. The admin console has simpler variants of
these files and is the source of the token in `Handoff`.

### 2.6 Realtime

State: the SignalR connections by state, `ref` (`connectionRef`), `mounted`
(the complement of `stoppedRef`), `token`, what components are told, and the
*number* of builds and delays that wait. Actions: `Rebuild` (the token store
changed: the effect's cleanup, then its body), `Unmount`, `Built`, `Started`,
`StartFails`, `Waited`, `Lost`, `Reconnected`, `OnClose`. A continuation looks at
`stoppedRef`, which is one flag for all runs of the effect: that a rebuild lowers
it at once is why attempts of an earlier run go on beside the new one.

### 2.7 ChatFeed

State: `posted` (the server's messages), `inbox` (events on their way), the
route, per channel the cache entry (a list, newest first, of messages and
negative temporary ones) and its fetch, per thread an entry, the requests for
older pages with the two flags `loadingOlder`, `hasMore`, the composer's sends,
the read marks. An entry's `upto` is the newest message of the last answer put
into it: what "all the older messages" is measured by. History variables record
what a property has to excuse: `overtaken` (messages taken away by a fetch older
than their event), `strayed` (the channel changed under a send), `torn` (an older
page came back to a feed that had been refetched), `lagged` (an event or an answer
brought a message older than all the feed shows, which it put on top), `crowded`
(a message was sent while the feed showed another one's temp, so an echo may
replace the wrong temp), `cut` (a full page replaced a feed that had stopped asking
for older messages, or another channel's last page stopped it).

`Ascending`, `Newest` and `Without` place each element by its rank, the number of
elements that are not above it, rather than by a sort or a filter: their
results are then facts about cardinalities, which can be proved.
`ChatFeedAssumption` says that the start is a sequence of messages of channels,
threads hang on some of those, and pages are not empty.

Actions: `Receive` of an event (created here or elsewhere, again or once),
fetches of the page and of threads with their answers and failures, `Switch`,
`Send`, `SendSettle`, the server's storing, refusing or losing of a send
(`Serve`), `ScrollUp`, `OlderSettle`, `OlderFail`, `LinkLost`, and messages of
others (`Elsewhere`). `Rendered` is what React does after a change: the observed threads and
the read mark's effect. Edits, deletions of content, reactions and typing notices
patch one field of one message and are left out.

### 2.8 Uploads

State: `up[k]`, where the k-th upload stands; its file on the server; the hook's
snapshot, cancel flag and request; the component's own mutation, delayed resets,
staged attachment; `given`, what was handed over. `host` is the component:
dropzone, the two image inputs, the composer, the product's image manager, which
differ in what they ask for after the upload, what disables their button and what
they can cancel. `cancel()` and `reset()` are called in one handler everywhere, so
`Cancel` does both: the flag is down again before anyone looks at it, and only
bytes on their way are really stopped. On the server, `finalize` answers with success
when the scanner quarantines the file, too (`Final`); the hook looks at the answer,
not at the status in it. `Continue` is a batch that goes on with the next file, after
one that was refused or failed as well. History: `adrift` (uploads a reset let go
of), `gaps` (uploads begun while the component was still busy with the URL of
another, one that a batch goes on with included), `met`, `aborted`.

### 2.9 Pages

`DashboardPages` and `AdminPages` describe every page of the two clients: its
queries (key, what the endpoint reads, whether an interval repeats it), its
mutations (what they write, which keys `onSuccess` invalidates), its dialogs,
buttons and inline forms (by what disabled, whether they can be closed while
pending, when their input is emptied or set again, which answers shut them). They
are data in the words of `Pages`, 35 screens and 25 screens, 129 forms, 113
queries; two machines run them, each one page at a time (`Visits`). In which
statuses of its row a page offers a form is left out, so every form can be met in
any status: what a page shows may be behind its row anyway, and the server decides.

`ViewForms` is a page with one form, or two that can meet (`Casts`): `Open`,
`Close`, `Type`, `Submit`, the server's `Answer`, `Settle` (`onSuccess`,
`onError`, which run also when the page is gone), `Leave`, `Return`, `Refetch`,
and changes by somebody else. A dialog can be closed and opened again while its
request is out, and the answer then shuts the second opening; what stood in it is
gone when the dialog opens blank. An answer that leaves the page takes the whole page
along and is not meant by `InputSurvives`. `ViewCache` is a page with *one* cache entry: one
it shows, or one another page shows of what it writes. Entries do not affect
each other, so following one at a time is enough; the fetch, invalidation,
polling and staleness are TanStack Query's, modelled from their use.

Where the code does less than a property says, the page modules name the form
or the entry: `ResendableForms`, `OverwrittenForms`, `RememberedForms`,
`ReseededForms`, `EntriesLeftToAge`. The properties then say
that these are *all*: a new page, or a new button without its guard, must be
added to the list by somebody who decides that this is right. Beside each
property stands what keeps it true of a page that is not listed, as a condition
on the tables alone (`GuardedPages`, `BlankPages`, `KeptInputPages`,
`RefreshedPages`). The theorems of section 5 assume these
conditions; that the tables of both clients satisfy them TLC evaluates, those
of ViewForms in `MCViewCache` (`FormsFit`) and that of ViewCache in
`MCViewForms` (`EntriesFit`): each run so still shows a fault of the pages as a
behaviour that breaks its own property. That the sets are no larger than they have to
be was found by TLC as well, with each of them empty: it reports exactly the
81 pairs of the first four.

## 3. Runs

Names as in `PROJECT.json`. Deadlock is not checked (`CHECK_DEADLOCK FALSE`)
because every model may come to rest: all events settled and no faults left, all
requests served, a bound reached, or a user who does nothing more. What must
happen is stated as liveness. The type invariants are theorems (section 5) and
take no run of their own.

| Run | Properties | Bounds |
|---|---|---|
| `outbox_lease` | `ExclusiveInFlight`, `RepeatsAreFaults`, `RowsNeverRegress`, `ImplementsDelivery` | 2 dispatchers, 2 messages (1 poison), 2 handlers, 2 attempts, 1 fault; leases cover batches |
| `outbox_faults` | `ProcessedOnlyAfterHandled`, `PendingWithinBudget`, `EventuallySettled` | 2 dispatchers, 1 message, 2 handlers, 2 attempts, 1 fault; leases that run out at any moment, failing saves |
| `forms` | `VersionsInOrder`, `InstancesAgree` | 2 templates, 1 instance, 3 requests, 2 versions, 2 submissions; any request may die |
| `files` | `AvailableIsClean`, `AvailableIsAnnounced`, `OnlyJobsTakeBytes`, `LeftoversArePurged` | 1 file whose URL stays good, 2 requests, both jobs, 1 death |
| `files_event` | `CrashLosesNoEvent`, **violated** | as `files` |
| `provisioning` | `CompletedIsReady`, `InProgressIsWorkedOn`, `CompletedStays`, `SettledInTheEnd` | 2 hosts, 1 request, 2 workers, 2 runs, 1 retry by Hangfire, 1 fault: a restart, a redelivery, a request cut off, or a read or save that throws |
| `sessions` | `ImpersonationNeverRefreshed`, `TabsAgree`, `OwnRefreshNeverRefused`, `PermissionsOfSession` | 2 tabs, 2 users, 2 refresh tokens, 1 impersonation, 2 page loads, closings or returns to a tab, 2 requests at once, requests that fail |
| `realtime` | `StatusHonest`, `OnePerRebuild`, `EndsConnected` | 4 connections, 3 changes of the token store, 2 failures |
| `chat_feed` | `EachOnce`, `TempsGoAway`, `StaysShown`, `RepliesShown`, `OlderReachable`, `StaysInChannel` | 2 channels, 1 thread, 3 messages to begin with and 5 in the end, 2 sends, pages of 2 and 1, 1 upset (a change of channel, a failure or a repeated event) |
| `uploads` | `GivenIsFinalized`, `OneAtATime`, `ProgressHonest`, `CancelStopsBytes`, `EndsIdle` | each of the 5 components, 3 files, batches of 2, 2 cancels or dismissals |
| `view_forms` | `SentOnce`, `OpensBlank`, `InputSurvives` | all pages; 3 openings, 2 requests (3 on the rows of a list), 2 visits, 1 change by somebody else |
| `view_cache` | `OwnWritesShown` | all pages and entries; 2 writes, 2 visits |

What they show, beyond the comment above each property:

* Outbox. With the lease longer than a batch two dispatchers partition the work
  and the outbox implements at-least-once delivery (`EventDelivery`, by the
  refinement mapping at the end of `Outbox`). Without that assumption exclusive
  delivery is lost but no event is, and the retry budget still holds although
  stale dispatchers write old rows back.
* Forms. Although publishing is four statements without a transaction, the two
  indexes suffice: a current version is the latest, hence the only one, and
  numbers have no gap. Overlapping closers never leave `CompletedAt` and the
  status in disagreement.
* Files. No interleaving of finalizing, deleting, restoring and purging makes an
  upload available that was unfit or infected when it was judged, or takes the bytes
  of a finalized one. Both end where the URL is used again after the check: bytes
  replaced then are looked at by nobody, and a second finalizer that reads them may
  remove them from under the first one's row. An event is lost by one crash only,
  that of a finalizer between its save and its event.
* `files_event` is that crash. The comment at `FinalizeUploadCommandHandler.cs:87`
  ("Outbox rather than the bus: a crash between the SaveChanges above and delivery
  would otherwise leave the file marked available with no consumer ever told about
  it") claims that it is excluded; but `outbox.AddAsync` saves by itself, after
  the status was saved, and a second finalize is refused. TLC's counterexample is
  an upload, a finalize up to its save, and the death (`findings`).
* Provisioning. A retry trusts the log it finds, and executions with stale
  copies write to it; even so the log never calls completed what has not
  happened. A run in progress is in somebody's hands but in the two cases that
  `abandoned` names, a completed one stays as it is but for those of `disturbed`.
* Sessions. Tabs that have handled their storage events and rendered show one session,
  whatever refreshes, impersonations and sign-outs were in flight. An
  impersonation token never reaches the refresh endpoint, with one exception the
  invariant names.
* Realtime. However often the token store changes while connections are built,
  a tab that stays signed in ends up connected and says so; attempts do not
  multiply without a rebuild.
* Chat feed. Echo, answer, refetch and older page may come in any order: the feed
  has each message once and no ghost, and nothing is missing in the middle but
  what the history variables of 2.7 record: a fetch answered before an event and
  settled after it, an older page that comes back to a refetched feed, an event the
  feed had been refetched past. The last, and an echo that takes the temp of
  another send, need more messages than this run has; simulation with 9 messages, 3
  threads and 4 sends met them, and the theorems of section 5 hold for any number.
* Uploads. Several uploads in one hook get into each other's way only after a
  `reset()`; even then a component is given only files that were finalized.
* Pages. The exception sets are the whole difference between what a careful
  page does and what these pages do (they are listed below, by cause).

Why these bounds. The races are between two actors on one row, or between an
answer and the next thing its user does: two openings, visits, tabs or requests
are the least for which one is late; the third opening in `view_forms` shows what a
late answer that shut the second one leaves behind. In `forms` a third request adds the one that
acts between the other two; in `realtime` the third rebuild meets two earlier runs
that go on; in `uploads` a third file comes while a batch of two has one left. A
second message, template, channel or host is there where actors on one might
disturb the other. Two attempts are the least for which "retry, then dead" has
both; pages of 2 and 1 the least for which an older page is full or short. One
fault is enough to reach each recovery path (steps of a job throw without counting
as one, so the last attempt is reached before a save of it throws); what two combine to is left to the
theorems of section 5, for which the bounds play no part. Both Outbox runs have
`SkipLocked = TRUE`, the configured provider; the theorems `NoEventLost` and
`RetryBudget` hold for the other value too. In `view_forms` any two forms of a
page that share a dialog or a busy marker are taken together, in every pairing; a
third has nothing left to share.

### Behaviour to know of

The models also reach states that a reader of the code may not expect, some
against a comment in the code. No property excludes them; where one holds but
for them, it names them.

Server:

* Outbox: a dispatcher whose lease ran out writes its whole row back, and so
  clears the lease of its successor. A row dead-lettered after a failed
  `MarkAsProcessedAsync` keeps `ProcessedOnUtc`; redriven, it is eligible for
  nobody (against the comment at `IOutboxStore.cs:30`).
* Forms: between the flip and the insert of a publisher, and for good if it dies
  there, a template has no current version. Two overlapping submissions to one
  instance are both stored, and a handler that read an instance open overwrites
  one terminal status with another. An amending submission to a closed instance
  is refused. A request that dies between its saves leaves an instance completed
  and its submission not stored (against the comment at
  `CreateSubmissionCommand.cs:97`).
* Files: two overlapping finalize requests both succeed and both debit the meter.
  The bytes of a finalized file can be replaced for as long as its upload URL is good.
  The event of an available file is lost by a crash (`files_event`, against
  `FinalizeUploadCommandHandler.cs:87`).
  A file finalized while the orphan job runs, or restored while the trash job
  runs, is purged. A delete that overlaps finalizing sets the status back to
  pending. A rejected upload is refunded although it was never charged; the
  refund of a purged one throws under the empty tenant id and is swallowed.
* Provisioning: a worker on another host than the one that buffered the password
  seeds the default one, if there is one; after a failed creation of the admin no
  retry has the password, which was taken out of the buffer. A request cut off
  before it enqueues the job blocks provisioning for good. So does a last attempt
  that cannot read the tenant (`TenantProvisioningJob.cs:36`, outside the `try`) or
  whose save in the catch clause throws (86): the run stays in progress with no job,
  against the comment at 81 that any failure is recorded before the rethrow. Hangfire's retry of a
  failed run goes on beside the run an operator started meanwhile. A tenant may
  be activated while a retry that began after the check is running.

Session and realtime:

* A session rebuilt while permissions are being fetched (a visibility or storage
  event is enough) cancels the fetch at the next render and, where permissions were
  there before, does not repeat it: the flag `permissionsHydrated` stays up through
  an impersonation swap, and the effect returns early. The user is without
  permissions, or has those stored before, until a reload (against the comment at
  `auth-context.tsx:157`, "whenever the signed-in subject changes").
* An answer with permissions that comes between a swap of the session and the render
  after it is stored beside the new session.
* A visibility or storage event during start-up with an expired token shows the
  expired session (against the comment at `auth-context.tsx:102`); a call then
  refreshes with the token that start-up is exchanging, is refused and signs out.
* The user has one refresh slot: a tab whose refresh is refused because another
  tab exchanged the token clears the tokens the other has just stored. A refresh
  in flight over a sign-out brings the session back; one in flight over the
  beginning of an impersonation replaces it; a second impersonation mixes two
  stashes; one that settles after another tab signed out has nothing to stash. A
  call without a token clears the store. `refreshPermissions` has no callers.
* Realtime: a rebuild during a handshake leaves a second live connection (against
  the comment at `realtime-context.tsx:42`); events are handled twice, and it
  outlives a sign-out.

Chat and uploads:

* A fetch answered before an event and settled after it erases the message; a
  reply event during the first fetch of its thread is missing there (against
  `message-list.tsx:183`). A refetch collapses older pages and the feed then
  believes to be at its end; so does one whose first entry was an event, and a
  channel that gets the late, short older page of another. A refetch during a
  request for an older page leaves a gap.
* The callbacks of a pending send follow a change of channel. A send whose answer
  was lost, sent again, is posted twice: its key is fresh. The composer puts a
  sent reply into the channel's feed. Nothing is fetched again after the hub
  reconnects. The read mark can go back.
* `cancel()` and `reset()` in one handler: a cancel during preparing or finalizing
  stops nothing. The delayed reset of an image input wipes the progress of the
  next upload. The image manager and the composer are enabled between finalizing
  and their own request. An attachment uploaded for one channel can be sent in
  another; a send that fails restores its attachment over a newer one.
* `finalize` answers with success for a file the scanner has quarantined, and the hook
  hands that file to the component, against the comment at `file-dropzone.tsx:12`
  ("Fires after the server finalizes the upload to Available").

Pages:

* A late answer shuts whichever opening of its dialog is there, with what is being
  typed in it (`OverwrittenForms`: most editors of both clients), and on pages that
  navigate away takes the user off the page.
* A refetch resets the roles, permissions, profile or theme a user has staged
  (`ReseededForms`); the role page does it to itself when its second request
  fails. `CreateTenantDialog` of the console sends no plan from its second opening.
* Entries left to age (`EntriesLeftToAge`): the pinned bar after a pinned message
  is deleted or edited, chat searches after edits and after changes of users,
  author names after a profile change, member counts of the group list, file
  lists after a change of visibility, invoice lists after a renewal; the overview's
  subscription, which is kept under another key than the subscription page's.
* A list page past its last page, after deletions, shows "empty" without a pager.

## 4. Fairness

* `Outbox!FairSpec`: weak fairness of each dispatcher's `Claim` and `Work`, and of
  `Tick`. The hosted service polls for ever and survives exceptions
  (`OutboxDispatcherHostedService`), handlers return or throw, time passes.
  Nothing is assumed of producers, of the operator, of crashes or failing saves:
  these are bounded in number (`MaxFaults`), because a system in which every save
  fails settles nothing. `HandlerThrows` is not bounded; a handler that always
  throws leads to the dead-letter list.
* `Files!FairSpec`: weak fairness of each job's next step (Hangfire runs the
  recurring jobs again and again) and of time. Requests are *not* fair: the jobs
  must clean up after clients that never come back. Deaths of jobs are bounded.
  The row of an overdue upload stays a candidate until it is purged, whatever
  requests do, so weak fairness is enough; a file in the trash may be restored
  and deleted again and again, which satisfies `LeftoversArePurged` each time.
* `Provisioning!FairSpec`: weak fairness of each request's handler (requests are
  served) and of each worker (Hangfire's workers run). Weak fairness does not
  force a migration or a seed to succeed: `StepThrows` is always an alternative,
  and the retries run out.
* `LinkSpec`: weak fairness of continuations and timers, which the browser
  runs, and of the end of a handshake and of a reconnect, one way or the other.
  Failures are bounded (a server that refuses every handshake connects nobody),
  rebuilds and the user are not fair.
* `Uploads!Spec`: weak fairness of the delayed reset and of each upload's next
  answer. An answer may be a failure: `withTimeout` and the request's own error
  events end a request the server never answers. Nothing is assumed of the user or
  of the server.

## 5. Proofs

TLAPS proves the following for every value of the constants that satisfies the
named assumption of the module (`...Assumption`: types and non-zero sizes only).

| Theorem | Statement | Argument |
|---|---|---|
| Outbox: `TypeCorrect` | `Spec => []TypeOK` | with `Busy`: a dispatcher that is working has a current message of its own batch and a handler number in range |
| `NoEventLost` | `Spec => []ProcessedOnlyAfterHandled` | the invariant `Evidence`: rows *and copies* marked processed, inbox entries, and handlers a dispatcher has passed all have committed effects; copies must be included because they are written back |
| `RetryBudget` | `Spec => []PendingWithinBudget` | every row and every copy that is not dead has budget left; the mark preserves it because the dead flag and the count are computed from the same copy |
| `ClaimsAreExclusive` | `Spec => []ExclusiveInFlight`, assuming `SkipLocked`, `LeaseCoversBatch`, `~SavesFail` | exclusive flight is inductive over the types: a claim takes unleased rows, a batch in flight is leased, time stops short of the end of a lease |
| `NoRowRegresses` | `Spec => RowsNeverRegress`, under the same | `Owned`: while a row is in flight, its one copy agrees with the table (`CopiesCurrent`), and rows that are dead are in nobody's batch (`DeadRows`) |
| `OutboxImplementsDelivery` | `Spec => ImplementsDelivery`, under the same | the refinement mapping of `Outbox`, step by step from `Owned` and `Evidence`: a mark is the abstract acknowledgement because every handler's effect is committed by then, all else is an effect, a dead letter, a redrive or a stutter |
| `RepetitionsNeedFaults` | `Spec => []RepeatsAreFaults`, under the same | `RunsCounted`: effects beyond the first, and the one whose inbox entry is still to be written, are paid for by a fault each |
| Forms: `FormsTypeCorrect` | `Spec => []TypeOK` | part of `IInv` |
| `PublishingIsOrdered` | `Spec => []VersionsInOrder` | `IInv` with `Memory`: the number a publisher read is one above a version that exists, and rows are never removed; that a late, lower number cannot become current is the two indexes' work |
| `SubmissionsFit` | `Spec => []InstancesAgree` | `Memory`: the instance a request checked stays bound to its version, and a request about to insert has closed it; nothing reopens an instance |
| Files: `TypeCorrect` | `Spec => []TypeOK` | direct |
| `AvailableFilesAreClean`, `BytesAreTakenByJobs` | `Spec => []AvailableIsClean`; `Spec => OnlyJobsTakeBytes` | `Verdicts`: of a file that was not PUT again after somebody judged it, the verdict agrees with the bytes, in the table and in *every row a request has loaded*, because a late `SaveTrashed` writes all its columns back |
| `AvailableFilesAreAnnounced` | `Spec => []AvailableIsAnnounced` | `AllTold`: a file available in the table, or in a row some request has loaded, is announced, about to be, or in `unsaid`, whose only source is a finalizer's death between its save and its event |
| `PurgedRowsStayGone` | `Spec => PurgedStaysGone` | no save inserts a row it loaded |
| Provisioning: `ProvisioningTypeCorrect` | `Spec => []TypeOK` | direct, with lemmas on the endings shared by the worker's steps |
| `CompletedRunsAreReady` | `Spec => []CompletedIsReady` | `LogIsTrue`, and `Knows`: what an execution's copy calls completed, and every step behind it, has had its effect; effects are never undone |
| `RunsInProgressAreWorkedOn` | `Spec => []InProgressIsWorkedOn` | `HInv`: a run in progress, unless abandoned, is enqueued, about to be, or held by a worker that is sure to write an outcome, to throw again, or to give it up: its own copy says "in progress", or has a status that was not saved; the plain property is not inductive |
| `CompletedRunsStay` | `Spec => CompletedStays` | `CInv`: a run that is not disturbed is in one place, the queue, its request or one worker (`InOnePlace`), whose copy agrees with the table for as long as its saves succeed (`UpToDate`); the next run has the next number (`Numbered`), so a request inserts over no run; a completed run has all steps completed (`Whole`) |
| Sessions: `TypeCorrect`, `ImpersonationIsNotRefreshed`, `TabsConverge`, `PermissionsAreOfTheSession` | `Spec => []TypeOK`, `[]ImpersonationNeverRefreshed`, `[]TabsAgree`, `PermissionsOfSession` | `IInv` = `Shape /\ Guarded /\ ImpersonationNeverRefreshed /\ PermsFresh /\ TabsShow`: the store never holds an impersonation with a refresh token; what a tab shows, or is to show at its next render, is what it saw of the store; a fetch that is awaited by a tab that has seen its events *and rendered* was made for the session the store holds |
| `OwnRefreshesAreAccepted` | `Spec => OwnRefreshNeverRefused` | `RInv`, below |
| Realtime: `LinkTypeCorrect` | `LinkSpec => []LinkTypeOK` | direct |
| `StatusIsHonest` | `LinkSpec => []StatusHonest` | inductive: whatever takes a connection away sets the status, or another is connected |
| `RebuildsBound` | `LinkSpec => []OnePerRebuild` | a rebuild adds one to both sides, every continuation turns one kind of attempt into another |
| ChatFeed: `TypeCorrect`, `ShownOnce`, `OwnChannelOnly` | `Spec => []TypeOK`, `[]EachOnce`, `[]StaysInChannel` | `Entries` = `TypeOK /\ Sent /\ Feeds /\ Answers`: what a list shows, and what an *answer on its way* would put there, is of its channel or thread and without repetition; the message of a send exists as soon as the send is answered, in its channel |
| `ToldRepliesShown` | `Spec => []RepliesShown` | inductive over `Entries`: a reply comes with an event that puts it into a loaded thread; only a fetch can take it away, and `overtaken` has it then |
| `NoTempStays` | `Spec => []TempsGoAway` | `Temps`: while it has no other temp beside it, a temp's message, once stored, is not shown, and is newer than the end of the list and than all that is asked for as older: no page can bring it |
| `NothingDropsOut` | `Spec => []StaysShown` | `MissingOlder`: what a feed knows and does not show is older than all it shows; and `AnswersWhole`: an answer on its way leaves out only what is older than all of it, or newer |
| `OlderReached` | `Spec => []OlderReachable` | `Pages`: a feed that does not reach down to the oldest message is at least as long as a page, so the code's "shorter than a page" is right about it; `Reached`, and `Awaited` for the flag of the request |
| Uploads: `TypeCorrect` | `Spec => []TypeOK` | every step is one `Moves` or the server's |
| `OnlyFinalizedIsGiven`, `StoppedBytesStayOut` | `Spec => []GivenIsFinalized`, `[]CancelStopsBytes` | `Fits`: how far an upload is and what its file is on the server agree; what was given or stopped is over, and stays over |
| `UploadsKeptApart`, `SnapshotIsHonest` | `Spec => []OneAtATime`, `[]ProgressHonest` | `Company`: uploads in flight together have met, and where nothing was let go of and nothing met, one that is being handed over is alone; `Shown`: an upload that was not let go of and met no other owns the snapshot |
| ViewForms: `TypeCorrect` | `Spec => []TypeOK` | direct |
| `WatchedFormsAreSentOnce` | `Spec => []SentOnce`, assuming `GuardedPages` | `Observing`: of a form watched by a hook of its page, the unanswered request of this visit is the one that hook observes. Older requests of the hook are answered, because the button waited for them |
| `DialogsOpenBlank` | `Spec => OpensBlank`, assuming `BlankPages` | `ClosedBlank`: a dialog emptied on closing is blank while it is not open, whichever way, answers to older requests included, it was closed; one emptied on opening needs no more |
| `InputsSurvive` | `Spec => InputSurvives`, assuming `KeptInputPages` | `LockedInput`: what is typed into a form that locks was typed with no request of its hook pending; and no other form's answer shuts the dialog it stands in (`ShutByOthers`) |
| ViewCache: `FreshEntriesShowOwnWrites` | `CacheSpec => []OwnWritesShown`, assuming `RefreshedPages` | `CacheInv`: besides the data, the answer that is about to replace it has the last settled write, or that write overtook it |

`RInv` is the longest argument. A tab has one refresh of its calls and one of its
page load in flight, and calls that meet the latter are *early* (`RequestsApart`).
Until an impersonation begins, refresh tokens do not come back: an answer under
way and the stash hold tokens that nobody has sent and the store does not hold
(`NewTokens`, with `Numbered`). If the token in the store was exchanged, the tab
that did so is about to be answered, by a refresh it has in flight (`Learning`);
hence it will not send that token again, and what it has sent and is not checked
yet it did not exchange (`NotRepeated`). After a close or a failure a tab
learns of no exchange, and the property asks nothing. That it stops at the first
impersonation is necessary: a token that returns from the stash may have been
exchanged, and without that condition TLC finds a refusal.

Each condition on the page tables (2.9) says of the forms not listed what guards,
empties, locks or refreshes them, and no listed form has it: there is no other way
by which a page of these clients does without a listing. `PagesProofs` extends
`ViewForms` and `ViewCache`, and `SessionsProofs` extends `Sessions` and `Realtime`;
they share a proof module only, and no theorem is about two machines at once. Hence
the names of one of each pair begin with `Cache` or `Link`. The conditions on
constants of `Outbox` are those of the run that checks the same properties: the
configured provider, a lease that is long enough, a database that accepts writes.
No other theorem has one; what `Files`, `Provisioning` and `Sessions` cannot promise
their properties name by a history variable, state by state.

Hardly any of these is inductive as it stands; the strengthenings add what the
actors remember, since stale copies and late answers are the danger everywhere.

What `ChatFeed` does to its lists is stated first (`AscendingIs`, `RangeSize` and
the lemmas beside them: what ranking a set, taking a page of it, taking elements out
of a list and putting one on top return, in which order, of which length). From
there on the proofs speak of an action by what it does to each feed, thread and
request (the lemmas named `...Follows`), and only these open its definition. The
parts of the strengthening were run as invariants by TLC before they were proved,
on the bounds of `chat_feed` and by simulation on larger ones. That, and the
attempts to prove them, corrected the statements of three properties which had
held only because few messages and sends were allowed: a message that arrives late
is put on top and ends the order `StaysShown` relies on (`lagged`); with two temps
in one feed an echo can replace the wrong one (`crowded`); and a feed told of new
messages while its first page is under way has "all older messages" only up to the
last answer (`upto`).

Only model-checked: the liveness properties (`EventuallySettled`,
`LeftoversArePurged`, `SettledInTheEnd`, `EndsConnected`, `EndsIdle`; fairness and
ENABLED are outside the prover's reach). Every invariant and every action property
the runs check is a theorem, and so is the refinement. No module declares a
RECURSIVE operator.

## 6. Not modelled

The components with status `not_modelled` or `partly` in `PROJECT.json` carry a
note each. In short:

* I/O and configuration: mailing, storage providers, caching (a metrics
  decorator), the web framework's settings, module loading, hosts, generated
  migrations, the clients' API wrappers, layout and kit.
* Administration of users, roles and groups on the server: single statements over
  ASP.NET Core Identity. The drain over several databases repeats the dispatch loop
  of `Outbox` per database; the RabbitMQ bus takes the place of the in-process one
  where it is configured, and adds a channel that its publishers share and reopen.
* Code whose races have no property that holds, because nothing in it excludes
  them and nothing claims to: the whole-row writes of tenant validity, the refill
  of the theme and grant caches, the quota's increment and roll-back, the
  idempotency filter. The first and the last are in the list of hazards, with the
  reason why no property covers them.
* An instance may be bound to a version that was current when it was read and no
  longer is when the instance is inserted; nothing in the code claims otherwise, and
  `Forms` models it without a property.
* In which statuses the pages offer a form (2.9).
* Of the clients: server-sent events and inactivity (the pattern of `Realtime`, and
  a comparison of two times); the console's own session and realtime connection,
  simpler variants of the dashboard's; filters, paging and validation of the pages;
  edits, reactions and typing notices of the chat; the unmounting of a component
  with an upload under way, which nothing in the hook reacts to.
