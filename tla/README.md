# Formal models of ts-backend

TLA+ models of the parts of this NestJS backend whose correctness depends on
the order of things: sessions made of rotating refresh tokens, user accounts
behind a unique index, the two of them together, files kept in two stores,
background tasks that go through SQS, a Lambda and Bull, and the way of an HTTP
request through guards, interceptor, handler and exception filter. Each model is
translated from the TypeScript source, checked with TLC on small instances, and most of what the checks say is
proved with TLAPS for every value of the constants.

Paths below start at the repository, so that `auth.service.ts:158` stands for
`src/src/modules/auth/auth.service.ts`, line 158. `PROJECT.json` holds the
exact line range of every definition.

    tlc -workers 2 -config RefreshSessions.cfg MCRefreshSessions
    tlapm RefreshSessionsProofs.tla

## 1. Inventory

### Components

| Component | State it keeps | Operations | Talks to |
|---|---|---|---|
| AuthService (`modules/auth`) | table `user_refresh_tokens` | login, refresh, logout, logout-all | UsersService (find by e-mail), table `users` by join |
| UsersService (`modules/users`) | table `users`, unique index on `email`, soft deletion | create, update, updateStatus, remove, finds | its two controllers |
| FilesService, StorageService (`modules/files`, `shared/services/storage.service.ts`) | table `files`; objects in a bucket or a directory; presigned POSTs | upload, presigned upload, complete, soft delete, remove, reads | S3 or the local disk |
| QueueService, `taskHandler`, processors (`shared/services/queue.service.ts`, `lambda.ts`, `shared/modules/queue`) | the Bull queue `default` in Redis; the SQS queue | add, addEmailTask, addFileTask, processMessage, the handlers `email:send`, `email:verify`, `file:process` | EmailService, FileProcessingService (both stubs) |
| Guards (`shared/guards`) | none; they read `users.role` anew on each call | JwtAuthGuard with JwtStrategy, RolesGuard | passport, table `users` |
| Tracing (`shared/services/tracing.service.ts`, `logging.interceptor.ts`) | one AsyncLocalStorage context per request or job; trace headers of request and response | extractFromHeaders, runWithContext, getters, intercept | everything that logs, adds tasks or calls out |
| TracedHttpService | interceptors of a shared axios instance | get, post, ..., getAxiosRef | external HTTP services |
| Exception filter (`global-exception.filter.ts`) | none; reads the context or the request's headers | catch | the response |
| Logger, configuration, migration, seeder, AppController, queue UI | none that changes while the server runs | | |

All state that matters is in PostgreSQL, in the object store, in SQS or in
Redis. **No operation of the services opens a transaction**, so every `await`
of a database or storage call is a point where other requests run, on the same
event loop or in another process, and where a failure leaves the earlier
statements in place.

### What is hard, and what correctness means there

* **Sessions.** refresh is find, check, remove, insert, without a lock and
  without looking at how many rows the remove touched. Correct: a session has
  one token that can be presented; logout and logout-all end sessions; disabled
  accounts gain nothing; a token value that is gone never comes back.
* **Accounts.** check-then-insert against an index that also sees soft-deleted
  rows, and TypeORM's `save`, which reloads the row and writes the columns in
  which a possibly old entity differs. Correct: the looks leave to the index only
  what they cannot see; a change is one somebody asked for; removed accounts stay
  removed.
* **Files.** two stores without a common transaction, plus clients that write
  to one of them directly. Correct: row and object agree except during an
  operation, and dead files stay dead.
* **Tasks.** at-least-once delivery twice in a row (SQS to Lambda, Bull to
  worker), batches that fail as a whole, workers whose lock may run out while
  they are stopped. Correct: nothing accepted is lost, duplicates have a bound
  and a cause, late answers change nothing, every task ends.
* **Accounts and sessions together.** Neither service tells the other anything:
  a ban or a removal leaves the token rows alone, and its effect on sessions
  rests on checks that read the account at another moment. Correct: who was
  banned or removed gains no session, except through races that have a name.
* **Requests.** The account is loaded by each guard and acted upon later; all
  requests share one thread, one context storage and one axios instance; the
  filter runs outside the context. Correct: a handler acts in a role its caller
  had at the last look; everything a request leaves behind names its own trace.

The `hazards` of `PROJECT.json` list each of these at its line together with the
properties that watch it.

## 2. The modules

| Module | Models |
|---|---|
| `RefreshSessions` | AuthService and its table |
| `SessionLifecycle` | abstract: what the tokens and sessions of that table promise |
| `AccountRecords` | UsersService and its table |
| `StoredFiles` | FilesService and StorageService over table and bucket |
| `FileLifecycle` | abstract: what the two stores together promise of each file |
| `JobQueue` | QueueService, `taskHandler`, the processors, and SQS, Lambda and Bull as the code uses them |
| `TaskExecution` | abstract: what background tasks promise to whoever adds one |
| `AccountSessions` | UsersService and AuthService over one table `users`: composes `AccountRecords` and `RefreshSessions` |
| `RequestPipeline` | guards, interceptor, tracing contexts, outgoing calls and exception filter around a handler, on the server and on the Lambda |
| `MC...` | symmetry sets for TLC |
| `...Proofs` | theorems and proofs about the module they extend |

In the modules of the HTTP services the server is a set of `Requests`
slots. `pc[r]` says which statement a request executes next; each action is one
awaited statement together with the synchronous code up to the next one.
Because nothing is transactional, `Fail(r)` can end a request anywhere: a
statement that throws and a process that dies leave the same tables behind. (A
database call that takes effect and whose answer is lost is the step followed
by `Fail`.) Requests that are refused, and reads, change nothing and are not
steps; the conditions under which they are refused are the negated guards.
Operators named "Faulty variant of ..." are not part of the specifications:
each is a plausible bug of the definition it stands before, used to make sure
that the properties notice.

### RefreshSessions

`rows` is the table. A row carries the value, the owner, `expiresAt`, and the
history field `family`, the value issued by the login the row descends from:
that is the identity of the session, which the code does not store. `entity[r]`
is the object a request holds between statements, so a stale read is just an
`entity` whose row is not in `rows` any more.

| Action | Code |
|---|---|
| `LoginFind`, `LoginCompare`, `LoginMismatch`, `InsertToken` | `validateUser`, then `login` with `generateRefreshToken` and its save |
| `RefreshFind`, `DropExpired`, `Revoke`, `Renew`, `InsertToken` | `refresh`: the find with its joined user and the two checks; the removal of an expired token; the removal of the old one; `login` |
| `LogoutFind`, `LogoutRemove` | `logout` |
| `LogoutAllAuth`, `LogoutAllDelete` | `JwtStrategy.validate`, `logoutAll` |
| `ChangeAccount` | any write of UsersService to `status` or `deletedAt`, in both directions: a superset of what `AccountRecords` does to these columns (`AccountSessions` shows that it is one) |
| `Tick` | the clock, so that tokens expire between any two statements |

Tokens are drawn fresh (40 random bytes); access tokens are left out, being
stateless JWTs nothing stores. `misses`, `ended`, `escaped` and `overtaken` are
history variables, written and never read by the guards, through which the
properties name the races.

`SessionLifecycle` has no requests, rows or clock: a value is fresh, pending,
live, dead, in that order; a session opens once and closes once. `Drop` takes
any set of values and sessions to their ends at once, as a failed request or a
logout-all does. Accounts may be in any state at the start. The refinement
`tokenBar`, `sessionBar` computes both from `rows`, `issued` and the requests in
flight.

### AccountRecords

`users` maps ids to rows or `None`. Of a row the address, the status and
`deletedAt` are kept: the address because of the index, the status as the
representative of all other columns, which `merge` and `save` treat alike.
`SaveLoad` and `SaveWrite` are TypeORM's `save`: it selects the row by id,
soft-deleted or not, and sets the columns in which entity and selected row
differ. `IndexRefuses` is the unique violation, which the global exception
filter answers with 500. That addresses are unique is the index's doing, whatever
the service does, and no property of the model; what the service adds is that the
index has little to refuse. `stale` and `raced` are history variables: the
requests whose user, or whose address, was written by somebody else since they
looked. Password hashing is left out.

### AccountSessions

The composition has the variables of both modules and one new idea: the sets
`active` and `deleted`, which `RefreshSessions` has as variables, are here
computed from `users` (`active == {u : users[u] is a row with status ACTIVE}`).
A step is a step of one service; `SaveAccount`, `RemoveAccount` and
`ServeAccount` are those of UsersService with the histories they write,
`ServeSession` and `Elapse` those of AuthService, and `Overtakes` marks the
requests of AuthService past their check whose user a write bars.

`SessionsRefined` is `RefreshSessions!Spec` under that mapping: each write of the
table is a `ChangeAccount` or changes nothing AuthService sees. So everything
shown of `RefreshSessions` holds of the two services together. `barred` holds
the users last asked to be banned, deactivated or removed, `undone` those of them
whom a save with an overtaken entity has written since.

### RequestPipeline

A request is in one `stage`: `guards` (looking for the account), `admitted`,
`handler`, `raised` (an exception on its way to a filter), `answered`.

| Action | Code |
|---|---|
| `Arrive` | the router and, for `@Public()` routes, the guards' early return; what middleware answers in front of the router (CORS preflight, served files, Swagger, the queue dashboard) is answered at once |
| `GuardLook`, `GuardRefuse` | JwtAuthGuard with `JwtStrategy.validate`, then RolesGuard; run twice, since both are `APP_GUARD`s and named by `@UseGuards` again |
| `ChangeRole` | UsersService: another role, or a removal, at any moment |
| `Intercept` | `LoggingInterceptor.intercept`: ids from the headers or new ones, written to the headers of request and response, handler run in their context |
| `LogOrAdd` | a line by LoggerService or a task by QueueService, with the ids of the context (`docs/distributed-tracing.md:14` speaks of "all logs"; the lines most services write through Nest's own `Logger` carry no ids and are left out) |
| `PrepareCall`, `SendCall` | `TracedHttpService.get`, ...: headers are put together by the call, the request goes out on subscription, inside or outside the context, any number of times |
| `GetAxiosRef`, `SendDirect` | one more pair of hooks on the shared instance; a call through it |
| `Return`, `Throw`, `Filter` | the end of the handler; `GlobalExceptionFilter.catch` |
| `Enter`, `DefaultFilter` | the Lambda's application, which installs neither interceptor nor filter |

One id stands for three: `x-request-id` and `x-correlation-id` go the way of
`x-trace-id`. No handler of the repository calls TracedHttpService yet; the model
has every handler that might, except one that hands an Observable to another
request, in whose context it would then be subscribed. `updateContext` has no caller and no action: one
who calls it makes later log lines differ from the headers already sent.

### StoredFiles

Row and object of a file share a name, the key drawn with a uuid. `row[f]` is
`none`, `live`, `soft` or `gone`; `objects` is the bucket or the upload
directory; `grants` are presigned POSTs still valid.

| Action | Code |
|---|---|
| `UploadPut`, `UploadSave` | `uploadFile`, `StorageService.upload` |
| `PresignSign`, `PresignSave`, `ClientPost`, `GrantExpire` | `getPresignedUploadUrl`; the client, and S3's expiry |
| `CompleteFind`, `CompleteLoad`, `CompleteWrite` | `completeUpload` with TypeORM's `save` |
| `DeleteFind`, `EraseObject`, `DropRow` | `deleteFile` (soft) and `remove` (hard) |

The presigned upload, its completion and the soft delete belong to a controller
no module mounts. The variable `direct`, chosen at the start and fixed from then
on, says whether they can be called: the run and the theorems cover both kinds of
deployment, and `MountedStoresAgree` says how much more is true of the one the
repository builds.

`FileLifecycle` knows of each file only whether it is absent, listed with its
object (full), listed without it (empty) or ended, which clients may fill which
files, and which files have a completion under way. As mounted a file goes
absent, full, empty, ended and never back; the direct routes add the offer of an
empty file, its filling under a grant, and the return of an ended one by a
completion that began while it was listed. `phaseBar` and `Completing` compute
this from the table, the bucket and the requests in flight.

### JobQueue

`accepted`, `inbox`, `hidden`, `receives`, `batch`, `todo` are the SQS side;
`status`, `of`, `stalls`, `holder` the Bull jobs; `doing`, `ran` the workers and
`frozen` the processes they belong to.

| Action | Code |
|---|---|
| `Submit` (with `AddJob`) | `QueueService.add`: a Bull job, or an SQS message |
| `ReceiveBatch`, `Forward`, `FinishBatch`, `AbortBatch` | Lambda's poll; one turn of the loop of `taskHandler`; its return; a throw or timeout in it, after which the whole batch becomes visible |
| `VisibilityExpire` | SQS shows a message whose batch is still being worked on |
| `Take`, `Run`, `Return`, `Throw` | Bull calls a handler; the handler's own work; its end |
| `Crash`, `Freeze`, `Thaw`, `StalledCheck` | a process dies with all its workers, or stops for longer than its locks last, and may go on; Bull finds a job stalled |

SQS, Lambda and Bull are libraries and services, modelled from how the code uses
them: default job options (one attempt, `maxStalledCount` 1), no redrive policy,
one message per task with no deduplication. `Processes` are sets of
workers, one worker per registered processor; a worker has one job at a time. A
lock belongs to the process, because Bull gives all processors of one queue
object the same token: a worker that stalled may come back and settle a job that
its own process has taken again, while the second worker is still at it. No
other process's worker can. `delaySeconds` and explicit job ids, which no caller passes,
are left out, and so is the failure of `add` itself towards its caller. The
server and the Lambda read `queue.driver` from environments of their own, so the
model has two constants, `Driver` and `LambdaDriver`: a Lambda whose driver is
`bull` takes the other branch of `processMessage`, which adds no job. `Forwards`
says that this is not so; what is shown of the SQS driver is shown under it, and
the run `jobs_mixed` shows what happens otherwise.

`TaskExecution` has neither queues nor jobs: a task is accepted, carried out,
completed, failed, and none of it is taken back. The mapping reads
`carriedOut`, `completed` and `failed` off the jobs of a task. With
`Redelivered` false, which is what the driver `bull` is mapped to, a task also
has one outcome only.

## 3. The runs

| Run | Instance | Checks |
|---|---|---|
| `sessions` | 1 user, 3 token values, 3 requests, clock 0..1, lifetime 0 | `TypeOK`, `TokensBoundedByMisses`, `LogoutAllExplained`, `DisabledGainOnlyOvertaken`, `LifecycleRefined` |
| `logout_all_race` (violation) | the same | `LoggedOutFromAllDevices` |
| `accounts` | 2 users, 2 addresses, 2 statuses, 2 requests | `TypeOK`, `RefusalExplained`, `ReturnOnlyByStaleSave`, `ChangeAskedOrStale` |
| `accounts_conflict` (violation) | the same | `TakenEmailIsConflict` |
| `account_sessions` | 1 user, 1 address, 2 statuses, 2 account requests, 1 session request, 2 token values, clock 0..1 | `TypeOK`, `SessionsRefined`, `RevokedAccessExplained` |
| `pipeline` | 2 requests, 1 user, 2 roles, 3 ids, 1 pair of hooks, each request on either server | `TypeOK`, `OneTrace`, `TracesApart`, `UntoldIsRefused`, `ActsInRole` |
| `pipeline_headers` (violation) | the same | `ErrorResponsesIncludeHeaders` |
| `files` | 2 files, 3 requests, with and without the direct routes | `TypeOK`, `OrphanExplained`, `DanglingExplained`, `MountedStoresAgree`, `DeadStaysDead`, `FilesRefined` |
| `jobs_bull` | 2 tasks, 2 processes (one with 2 workers, freezable), 2 jobs, 3 faults | `EffectsBounded`, `OutcomeExplained`, `SettledStays`, `EveryTaskSettles`, `TasksRefined` |
| `jobs_sqs` | the same with 2 invocations, 4 jobs, 1 fault | `TypeOK`, `NothingLost`, `JobsBoundedByDeliveries`, `CarriedOutBounded`, `RepeatsTakeFaults`, `EveryTaskSettles`, `TasksRefined` |
| `jobs_data` (violation) | Bull, an e-mail task and a file task, 2 processes of one worker | `HandlersFindTheirData` |
| `jobs_mixed` (violation) | the server with `sqs`, the Lambda with `bull` | `HandledAutomatically` |

What they show:

* **`TokensBoundedByMisses`.** A session forks only when a refresh removed
  nothing and went on all the same: two refreshes, or a refresh and a logout,
  that had read the same row. That is the only hole in the rotation, and each
  passage through it is worth one token: no mixture of refreshes, logouts,
  expiries and failures leaves more tokens than one and one per miss.
* **`LogoutAllExplained`.** What logout-all was to end is gone unless a refresh
  of it was between its find and its insert. The violation run shows that this
  case occurs.
* **`DisabledGainOnlyOvertaken`.** Only a request already past its status check
  stores a token for an account disabled since.
* **`RefusalExplained`.** create and update look for an address before they write
  it. The index then refuses only what such a look cannot see: an address that
  another row got after it, or one that a removed user still holds. The violation
  run shows that this happens, and is answered with 500.
* **`ReturnOnlyByStaleSave`, `ChangeAskedOrStale`.** Lost updates and
  resurrections have one cause, a save of an entity that was overtaken between
  find and save.
* **`OrphanExplained`, `DanglingExplained`, `DeadStaysDead`.** The complete list
  of ways in which table and bucket disagree: an upload under way or dead
  between put and save, a delete under way or dead between object and row, a
  client posting late or not at all, a completion that overtakes a delete. Once
  dead, with no completion in flight, a file stays dead for good.
* **`MountedStoresAgree`, `FilesRefined`.** As the service is mounted only the
  first two of these ways are left; no file is listed before its object is there,
  and none is seen again once a delete has taken its object.
* **`NothingLost`, `JobsBoundedByDeliveries`.** The hand-over from SQS to Bull
  loses nothing at any failure, and the price is at most one job per delivery of
  the message.
* **`CarriedOutBounded`, `RepeatsTakeFaults`.** How often a task can be carried
  out, end to end: at most once per delivery of its message and once per stall of
  one of its jobs. No message is delivered again, and no job stalls, more often
  than there were crashes, freezes, throws and expired visibilities (one crash may
  stall several jobs). Without faults a task is carried out once (theorem
  `OnceWithoutFaults`).
* **`EffectsBounded`, `SettledStays`, `OutcomeExplained`.** A job runs at most
  once more than it was found stalled, a worker that comes back late cannot move
  a job that is settled, and if it settles the one its own process took again,
  the report is still true of the job.
* **`EveryTaskSettles`.** With finitely many faults every accepted task ends in
  a completed or failed job and leaves SQS.
* **`TasksRefined`.** Both drivers keep one promise: nothing is carried out that
  was not added, nothing is reported completed before it was carried out, no
  report is taken back by a late worker, and with Bull alone completed and failed
  exclude each other.
* **`LifecycleRefined`.** No token value is stored twice, no closed session opens
  again.
* **`SessionsRefined`, `RevokedAccessExplained`.** With the real accounts in
  place of arbitrary ones: who was asked to be banned or removed gains a token
  only from a request already past its check, or because an update that had read
  the account before wrote it back.
* **`OneTrace`, `TracesApart`.** The headers of the answer, LoggerService's lines, tasks,
  outgoing calls and the body of an error name one trace, whoever has installed
  hooks on the shared instance and wherever the filter runs; two requests share
  an id only if a client sent it.
* **`UntoldIsRefused`.** Of the requests that reach Nest's router, the server omits
  the headers only where the request was refused before the interceptor; no
  handler has run then, and the body names the id. The documentation promises the
  headers on error responses too, which the violation run refutes.
* **`ActsInRole`.** A role taken away before the last guard's look is never acted
  in; one taken away later is.

### Bounds, and why they are enough

* The races of the sessions are between two requests on one row, observed by a
  third (a logout-all, or a second refresh): hence three requests. Three values
  are a login and two successors, or two sessions and one successor. Users do
  not interact except through logout-all's filter on the owner, which the proof
  covers for any number of them. Lifetime 0 with a clock of two instants makes a
  token valid in the instant of its expiry and expired in the next.
* Two users and two addresses give every collision: a creation against a
  creation, an update against either, a holder that has been removed.
* Files are independent of each other, so two are already more than needed; the
  three requests are the delete, the completion and the removal of one file.
* Jobs: `MaxJobs` is Bull's job counter and `MaxFaults` bounds crashes, freezes,
  throws and redeliveries. With Bull two jobs are all there can be, and three
  faults are enough to stall a job past `MaxStalls` = 1. With SQS and one fault
  no more than four jobs can arise (one redelivery of a batch of two), so
  `AddJob` is never cut short by the bound. Two workers in the process that can
  stop are what it takes for a late worker and its successor to share a lock. Raising `MaxFaults` raises the
  number of duplicates and nothing else; the theorems hold for any bounds.
* Accounts and sessions: a lost update needs two requests on one account, and
  its effect on a session one request of AuthService. Two values are a login and
  its renewal. A second user or address adds nothing that `accounts` and the
  proofs do not cover.
* Requests: mixing needs two; three ids are one per request and one for the
  error of a request that was refused. One pair of hooks is as good as more, for
  each runs the same code on every call.
* Liveness is checked without symmetry. `CHECK_DEADLOCK FALSE` is set where an
  instance ends because keys, tokens, jobs and tasks are finite; in
  `RequestPipeline` roles can always change.

### Fairness

Only `JobQueue` states fairness; the other modules have safety properties only,
and a request there may stop at any point.

* `WF(Invocation(i))`: Lambda keeps polling, and a handler that was called runs
  on until it ends or is aborted.
* `WF(Work(w))`: a process that is not frozen keeps its event loop turning. The
  three handlers have no loop and no unbounded wait.
* `WF(StalledCheck(j))`: Bull's stalled check runs on a timer in every worker.

Nothing is assumed about tasks being submitted, about a frozen worker ever going
on, or about a particular invocation or worker getting a message. In the
instances one process is never frozen: with every process stopped no task could
end. `MaxFaults` is the
assumption that faults do not go on for ever.

### Findings

Five runs expect a violation: they check what a document, a message or a comment
of the repository says.

1. `auth.controller.ts:88` answers 'User logged out from all devices'; a refresh
   in flight keeps its session (`logout_all_race`).
2. `docs/queue-system.md:41` lists the data fields of `file:process`; with the
   Bull driver they are one level deeper than the handler looks (`jobs_data`).
   Neither does it set up a trace, although `docs/distributed-tracing.md:17` says
   "Queue processors maintain trace context". With the SQS driver the e-mail
   handlers lose the trace as well, since `processMessage` stores the bare payload
   and they look one level deeper (`TraceFound`).
3. `queue.service.ts:111` says of a message that comes to a process with the
   driver `bull` that "the processors will handle it automatically"; there is no
   job for it and the message is deleted (`jobs_mixed`). `serverless.yml` sets no
   `QUEUE_DRIVER` for its functions, and `queue.config.ts:4` takes `bull` then.
4. `admin-users.controller.ts:34` documents 409 for an address in use; when two
   creations race, or the holder was soft-deleted, the answer is 500
   (`accounts_conflict`).
5. `docs/distributed-tracing.md:73` says "Error responses include tracing
   headers", and `:267` that all three "are returned in responses"; a request
   refused by a guard or matched by no route gets an error without them
   (`pipeline_headers`).

Not checked by a run of its own: `email.processor.ts:48` rethrows "to let Bull
handle retry logic", while `add` passes no `attempts`, so that `Throw` settles the
job as failed at its first attempt.

## 4. The proofs

Every safety property of the passing runs is a theorem (`NothingLost` under
`Forwards`). The assumptions on constants are as small as the types need: `TtlAssumption` and `TimeAssumption`
(naturals), `DriverAssumption` (one of the two
drivers), `BoundsAssumption` (naturals), `WorkersAssumption` (finitely many
workers, each in one process; what may be frozen is a process), `NoneAssumption` ("undefined" is
no user, address, status or row), `RolesAssumption` and `IdsAssumption` (admin
roles are roles; "none" is neither role nor id), `HooksAssumption` and
`ClockAssumption` (naturals), `ActiveAssumption` (ACTIVE is a status). The sets are otherwise arbitrary, infinite
ones included. TLC evaluates all of them.

Each invariant `Inv` is proved from an inductive strengthening by the usual
three facts, with one step per action.

| Theorem | Strengthening, and why it is needed |
|---|---|
| `RefreshSessionsProofs!TokensBounded` | `SessionInv`: of each session the stored rows and the requests that have removed a row, or opened the session, and will store one are finitely many and together at most one more than its misses. `TokensBoundedByMisses` alone does not see the request between its remove and its insert. Three lemmas say what a login, an insert and a remove do to the two numbers, `NothingGained` covers all other steps. `Rotation` (values in use were issued; a value is in one place) keeps a new session apart from all others. |
| `LogoutAllEnds` | `LogoutAllInv`: values in use were issued, a session has one owner, a login's first token is alone in its session until it is stored, and what ended without an escape has no row and no carrier |
| `DisabledGain` | `OvertakenInv`: a request past its status check works for a usable account or is recorded as overtaken |
| `Refinement` | uses the invariants above; each action is mapped to `Open`, `Renew`, `Store`, `Drop` or a stutter. `OnlyDrops` is the common lemma for all steps that only lose tokens. |
| `AccountSessionsProofs!SessionsImplemented` | each step of UsersService writes one row, hence is a `ChangeAccount` or a stutter (`AccountStepIsChange`); the types it needs come from the theorems about `AccountRecords`, which hold here because the composition implements it (`AccountsKept`) |
| `PromisesKept`, `LifecycleKept` | the theorems about each service alone, through `SessionsImplemented` and `AccountsKept`: rotation, logout-all and `SessionLifecycle` hold of the composition |
| `RevokedAccess` | `BarredInv`: a barred account that no stale save has touched is unusable. A save by a request nobody overtook writes the row with its DTO merged in, by `EntityCurrent` below, so it cannot bring the old status back; the rest is `DisabledGain`, which holds here by `SessionsImplemented` |
| `AccountRecordsProofs!RefusalsExplained` | `AddressLooked`: an address that a request is to write, and did not read with its row, is held by no visible row, or the request is marked in `raced`; `EmailsUnique`, that no two rows hold one address, is what makes it true of an update that keeps the address of its row |
| `RemovedComeBackStale`, `ChangesAskedFor` | `EntityCurrent`: the entity of a request nobody overtook is the row with its DTO merged in, so a difference between what it writes and the row is the DTO's; and `InsertFresh`: an insert never meets a row |
| `StoredFilesProofs!Orphans`, `Dangling` | `StoresInv`: a file whose upload is being saved has no row and no other request, and a request that is to drop a row has erased the object unless a late post renewed it |
| `DeadForGood` | an action property: only `CompleteWrite` takes a row back, no completion starts on a dead row, and uploads work on keys without a row |
| `MountedAgree` | `MountedInv`: without the direct routes no completion, grant or soft delete ever exists, so that of the causes in `StoresInv` two are left |
| `StoredFilesProofs!Refinement` | `KeysInv`: nothing is stored or granted for a key before it is drawn (of a presigned upload, before its row is saved), and a delete works on a file with a row; with `StoresInv` and `MountedInv` each step is one of `FileLifecycle` or a stutter, one lemma per step that shows |
| `JobQueueProofs!Outcomes`, `SettledForGood` | `JobInv`: a lock is only on an active job, and a worker that has run its handler left an effect |
| `NoTaskLost` | `QueueInv`: a task still to forward has a message, or a job already. It assumes `Forwards`, without which `jobs_mixed` loses tasks |
| `JobsPerDelivery` | `DeliveryInv`: the jobs of a task and the batches that have yet to forward it (`Carriers`) are together at most its deliveries, or one for its add with the Bull driver (`Due`); `JobsBoundedByDeliveries` alone does not see the batches |
| `JobDeliveryProofs!RepeatsHaveFaults` | `MessageFaults`, `JobFaults`: a message that is visible has had a fault for each of its deliveries, and a job that the next stalled check will find has one more fault than stalls |
| `CarriedOut`, `OnceWithoutFaults` | no invariant of their own: `EffectInv` bounds the effects per job, `JobsPerDelivery` the jobs per task, and `CarryingsCharged` adds them up by an injection that charges the first carrying of a job to the job and each later one to the stall before it |
| `Effects` | `EffectInv`: the effects of a job and the workers that may still cause one (`Pending`, a finite set) are together at most `stalls + 1`; the bound on effects alone is not inductive because of late workers |
| `JobExecutionProofs!ExecutionImplemented` | `TravelInv`: only accepted tasks are in SQS, in batches or behind jobs, only jobs in use are held or have effects, and with Bull SQS delivers nothing. With `JobInv` a job that is settled was active and, if completed, carried out; with `DeliveryInv` a task under Bull has one job, hence one outcome |
| `RequestPipelineProofs!OneTraceHolds`, `TracesApartHolds` | `IInv`: per request, the context equals the answer's header, the request's header is the client's id until the interceptor has run and the answer's id after, prepared calls carry it already; and ids of two requests meet only in one a client sent |
| `UntoldIsRefusedHolds`, `ActsInRoleHolds` | `ToldOK` and `LookOK`, conjuncts of `IInv`: what has not happened yet at each stage, and that a request let on by a look has the role unless it changed since |

Only model-checked: `EveryTaskSettles`, since liveness under fairness is beyond
the prover, and the five violations.

## 5. Not modelled

* **OAuth login**: the strategy is registered in no module and nothing calls
  `validateOAuthUser`. Its writes are a creation and a save of an entity just
  read, which `AccountRecords` has.
* **parseExpirationTime**, **pagination**: pure functions of settings or query
  parameters; the models take their results as numbers.
* **Access tokens**: stateless. A token that outlives a ban is admitted by the
  guards as long as its account exists, because JwtStrategy looks for the row
  and not for its status; the model says the same and no document denies it.
* **updateContext**, **redaction and wording of log lines**, **levels and
  transports**: no caller, or output only.
* **Liveness of requests**: no request waits for another, and a request may
  always be cut short, so there is nothing to promise.
* **Purging expired tokens**: the code has none.
* **Start-up**: the order of `init` and `cachedApp` in `taskHandler`
  (`lambda.ts:38-42`) is listed as a hazard. A process whose `init` failed
  forwards messages and has no processors; in `JobQueue` it is an invocation
  without a worker.
* **Configuration, migration, seeder, AppController, queue UI, cache and
  throttler modules**: wiring that runs once, constant answers, or modules
  nothing uses.

## 6. Plan

Done, in this order: `RefreshSessions` with `SessionLifecycle`, `StoredFiles`,
`JobQueue`, `AccountRecords`, `RequestPipeline`, `AccountSessions`,
`TaskExecution`, `FileLifecycle`, each with its proofs.

Next:

1. `TokenLifetime`: `parseExpirationTime` as an operator on (number, unit)
   forms, against what the JWT library makes of the same setting.
2. `RequestPipeline` with `AccountRecords` in place of `ChangeRole`, as
   `AccountSessions` does for `ChangeAccount`.
