# Verification of pear-nest

TLA+ models of the NestJS admin backend in this repository, the TLC runs that
check them, and theorems about them that TLAPS proves. Paths below are relative
to `src/src/` unless they begin with `deploy/` or `src/`.

The program is a set of identical Node processes (PM2 cluster) over one MySQL
database and one Redis. Nothing in a process is shared with the others, and no
handler takes a lock: every `await` is a point where another handler, of this
process or of another, may run. Almost every property below is about what two
handlers, a restart or the clock do to each other between two awaited calls.

## Modules

| module | what it models |
| --- | --- |
| `Session` | logins, the JWT guard and its refresh path, logout, kick, password change, disabling, deletion, the nightly sweep, expiry, crashes |
| `SessionAbs` | what sessions promise, without handlers; `Session` implements it |
| `SessionExpelled` | `Session` with a memory of password changes, for one run |
| `PermCache` | roles, menus, role assignment and the cached permissions the RBAC guard reads |
| `TaskScheduler` | scheduled tasks over `sys_task` and Bull's repeat configurations |
| `Jobs` | what is inside one run of a task: the service it names, the missions, the rows of the log |
| `Presence` | event streams, the online-user keys and the count pushed to the streams |
| `OneTimeCode` | image captchas, verification mails and their limits |
| `MenuTree` | the rows of `sys_menu` as a tree: edits, deletion, the page, the routes of a user |
| `Departments` | `sys_dept` with its materialized paths, and the users in departments |
| `Accounts` | overlapping edits of one user and its roles |
| `Dictionaries` | dictionary types and items, and the constraint `IsUnique` |
| `Requests` | the way of a request through hook, guards, interceptors, pipes and handler; todos |
| `Paging` | the eleven paginated lists and a client that walks through one |
| `Storage` | uploads, their rows and their files |
| `NetDisk`, `Overview` | the listing of the bucket by markers; its statistics behind a cache |
| `SessionProofs`, `SessionEndProofs`, `PermCacheProofs`, `TaskProofs`, `PresenceProofs`, `OneTimeCodeProofs` | theorems about one component each, with their proofs |
| `AdministrationProofs`, `ServicesProofs` | the same for the components that `MCAdministration` and `MCServices` put together |
| `MCSession`, `MCPermCache`, `MCTaskScheduler`, `MCPresence`, `MCOneTimeCode` | symmetry sets and constants for TLC |
| `MCPermTwo`, `MCAdministration`, `MCServices` | several components or instances in one run; they share no state, so a behaviour is one of theirs and the others do not move |

All component modules are written alike. A handler in flight is a record
(`job[p]`, `req[r]`, `conn[c]` for a stream) whose `pc` or `at` names the awaited
call it is about to make, together with the local variables that survive the
await. One action is one awaited call with all the synchronous code up to the
next; calls nobody else can observe are merged into their neighbour. Variables
that only properties read ("remembered") are declared apart and no guard reads
them. A definition named `Action_Variant` is the action with a plausible mistake;
it is not part of the specification and serves to show that a property would
notice.

## Inventory

### Sessions (`modules/auth`, `modules/system/user`, `shared/helper/cron.service.ts`)

State: `sys_user.status`; one row of `user_access_tokens` per login with a row of
`user_refresh_tokens` that cascades; Redis `auth:token:<uid>` (the newest token),
`auth:passwordVersion:<uid>`, `token:blacklist:<token>`; the JWT itself, which
carries its expiry and `pv: 1`.

Operations: `AuthService.login`, `JwtAuthGuard.canActivate` with
`TokenService.refreshToken`, `AuthService.clearLoginStatus` (logout),
`OnlineService.kickUser`, `UserService.updatePassword`, `update`, `delete`,
`forbidden`, `upgradePasswordV`, `CronService.deleteExpiredJWT`.

Hard: a login writes a row and two keys one after the other while an admin clears
them; the guard reads the blacklist, the row and the password version one after
the other; the refresh path returns before the other checks; keys expire by
themselves with a rounded TTL; `update` calls `forbidden` and writes the password
inside a transaction that may hold the row's lock; a process dies anywhere.

Correct when: who logged out, was kicked, deleted, disabled or changed the
password is refused afterwards; nobody else is thrown out; with
`MULTI_DEVICE_LOGIN` off only the newest device is admitted; every handler ends.

### Roles, menus and permissions (`modules/system/role`, `modules/system/menu`, `modules/auth/guards/rbac.guard.ts`)

State: `sys_role`, `sys_menu`, the join tables `sys_user_roles` and
`sys_role_menus`, Redis `auth:permission:<uid>`. Operations: create, update and
delete of roles and menus, the role assignment in `UserService.update`,
`MenuService.refreshPerms` and `refreshOnlineUserPerms`, `RbacGuard.canActivate`.
Hard: a refresh reads roles, then menus, then writes, beside other changes and
refreshes; TypeORM's `save()` loads the join rows and writes the difference;
checks and DELETEs are separate. Correct when: the cache of an online user holds
the permissions of the roles; a disabled user has none; no user has a role, and
no role a menu, that does not exist.

### Scheduled tasks (`modules/system/task`, `modules/task`)

State: `sys_task` with `jobOpts` (the repeat configuration Bull was given),
`sys_task_log`, Bull's repeat set, its delayed and waiting jobs, the key
`task:init`. Operations: create, update, start, stop, delete, once, the consumer
and its `onCompleted` handler, `initTask` when an instance starts. Hard: `start`
is stop, then add, then an UPDATE; the completion handler runs beside requests
and is not awaited; restarts of several instances; failures between any two
calls. Correct when: a stopped task stays stopped, an activated one is repeated,
queued and executed, one instance initialises at a time, and the row names the
configuration that is repeated.

### Online users and event streams (`modules/sse`, `modules/system/online`)

State: per instance `clientMap`, `replyMap` and a throttle; in Redis one
online-user key per access token. Operations: `SseController.sse` and its close
handler, `addOnlineUser`, `removeOnlineUser`, `updateOnlineUserCount`,
`closeAllConnect`. Hard: both key operations are started without being awaited,
each reads the row of the token first, several streams share a key. Correct when:
who logged out is not listed, who is connected is, and the count shown is right.

### The other components

| part | state and operations | hard | correct when | module |
| --- | --- | --- | --- | --- |
| captcha and e-mail codes (`captcha.service.ts`, `mailer.service.ts`, `email.controller.ts`) | one key per image captcha, counters per address and ip; check, send, log | get, compare and del apart; check and log apart; counters read under another name than written | a captcha serves once; no two mails within a minute, at most five a day | `OneTimeCode` |
| menu tree (`system/menu`, `permission.util.ts`, `list2tree.util.ts`) | rows with `parentId`, without a foreign key | any PUT may move any row anywhere; children are read before the DELETE | the page and the routes show exactly what the parents say | `MenuTree` |
| departments (`system/dept`) | `parentId` and `mpath`; create, update, delete | two counts, then DELETE; moves rewrite paths of subtrees | paths follow parents; no user loses its department | `Departments` |
| users (`system/user`, `auth/controllers/account.controller.ts`) | the row and `sys_user_roles`; profile, administrator's edit | a transaction that reads on another connection | roles and columns are those of one edit each | `Accounts`, `Departments` |
| dictionaries, `IsUnique` (`system/dict-*`, `unique.constraint.ts`) | types and items; check, then INSERT | check and INSERT apart | no duplicate; a row's own values pass | `Dictionaries` |
| todos, guards, filters (`todo`, `auth/guards`, `common`) | rows with an owner; three guards before a handler | rows come and go between guard and handler; a timed-out handler goes on | who is not allowed writes nothing | `Requests` |
| lists (`helper/paginate` and eleven services) | none | page and count are two queries | a walk shows every row | `Paging` |
| storage and uploads (`tools`, `file.util.ts`) | rows and files | the file is written without being awaited | each row has its file | `Storage` |
| network disk (`netdisk`) | the bucket at Qiniu; a cache | the bucket changes between pages; four statistics of four moments | a walk is complete; figures are recent | `NetDisk`, `Overview` |
| runs of tasks (`modules/task`) | `sys_task_log`; three missions | the INSERT of a success is inside the service's `try` | a completed job has a row, a success a call | `Jobs` |
| system parameters, sockets, pub/sub, health, server statistics, `device` | see "Not modelled" | | | |

Components touch each other here: disabling and deletion (`UserService`) clear
the keys of sessions and of permissions; kick, logout and refresh end a token and
with it its online key (`TokenService.removeAccessToken`); changes of roles and
menus push to event streams; the nightly sweep and scheduled tasks run without a
request; the guards of every request read what sessions and permissions left in
Redis. Each module has the part of the other side it needs (`Presence` its token
rows, `PermCache` its `auth:token` keys), with every order of the two sides'
calls.

## Session

| TLA+ | code |
| --- | --- |
| `account`, `owner`, `rows`, `refreshRows` | `sys_user.status`, whom a JWT was signed for, the two token tables |
| `age` | how far a token is in its life: `Fresh`, `Closing` (last half second of the JWT, where `toFixed(0)` yields 0), `Expired` (refresh token still good), `Dead` |
| `black`, `pv`, `authTok` | the three kinds of Redis keys; `black` also says how the TTL was rounded |
| `LoginStart`, `LoginInsert` ... `LoginReply` | `AuthService.login` |
| `RequestStart`, `Recheck`, `Verify`, `Lookup`, `Reissue` ... `CheckDevice`, `Passed` | `JwtAuthGuard.canActivate` and `refreshToken`; account routes run it twice, because `AccountController` names the guard again |
| `Logout`, `Kick`, `Blacklist`, `RemoveRow`, `LogoutPv`, `LogoutTok` | `clearLoginStatus`, `kickUser`, `forbidden` |
| `ChangePassword`, `AdminUpdate`, `PwUpdate`, `PvGet`, `PvSet`, `LockRow`, `Disable*` | `updatePassword`, `forceUpdatePassword`, `update` with InnoDB's row lock |
| `Delete`, `DeletePv`, `DeleteTok` | `delete` |
| `Age`, `BlacklistExpires`, `AuthTokExpires`, `CronRemove`, `Abort` | time, TTLs, the sweep, a crash or a failed call |

Two sign calls for one user are assumed never to fall in the same second (the
JWT would be the same string). Wrong passwords, captchas, the login log and the
root account, which cannot be disabled, change nothing the module speaks of.

Properties. `LoggedOutRefused`, `EndedSessionsRefused`, `DeletedRefused` say who
is refused; each names the precondition under which the code keeps it (no login
of the user overlapped; not in the last half second; not by a refresh, for the
password version). `SessionsEndForACause` says nobody else is.
`NewestDeviceOnly` is the single-device mode. `ImplementsSessionAbs` says that a
token only moves forward through its stages and that only a login under way opens
the gate in front of a user's tokens. `EveryHandlerEnds` is liveness under
`Fairness`: strong fairness of each handler's steps, since Node runs what is
ready, the stores answer, and InnoDB grants a row lock in the order of requests,
so a waiting handler is not passed over forever. Weak fairness would let two
admins exchange the lock while a third waits.

## PermCache

`userRoles`, `role`, `roleMenus` and `menu` are the tables, `online` is whether
`auth:token:<uid>` exists, `cache` is `auth:permission:<uid>` with `Absent` for no
key. `RoleFind`, `RoleLoad`, `RoleWrite` are `findOne`, the load inside `save()`
and its writes; `Keys` is KEYS `auth:token:*`; `ReadRoles`, `ReadMenus`,
`CheckOnline`, `SetCache` are the awaits of `refreshPerms` and of each branch of
`refreshOnlineUserPerms`, which run concurrently for all users. `Allowed` is what
the guard reads. `getPermissions` looks at neither `role.status` nor
`menu.status`, and a menu update without a type refreshes nothing: the model does
the same.

`RefreshedAlone`: after a change that overlapped no other, the cache of everyone
online all the while is exactly what the roles permit. `DisabledHoldsNothing`: a
disabled user's cache stays empty until the next login, whichever refreshes are
under way. `NoOrphans`: referential integrity across the check-then-act pairs.

`MCPermTwo` restricts one instance to two small parts, a behaviour being of one of
them: all users and roles under one handler at a time, without disabling and
deleting, for `RefreshedAlone`; and one user and few roles under every handler,
several at a time, with crashes, for the other two.

## TaskScheduler

`row` is `sys_task` (with `jobOpts` reduced to its cron expression), `repeat`,
`due`, `queue` and `once` are Bull's repeat configurations, those whose next time
has come, those whose next instance is queued, and jobs added by hand. `Exist`,
`Remove`, `Mark` are `stop`; `Add`, `AddRefused`, `Save` the rest of `start`;
`Drop` the DELETE; `Boot`, `Purge`, `Load`, `BootNext` are `initTask`; `Take`,
`Finish`, `Late`, `Find` are the worker, the consumer and
`updateTaskCompleteStatus`.

Abstractions: Bull moves a job to active and adds the next instance in one step;
reading the repeat set in `Late` is one step; each worker has at most one
completion handler under way; the `task:init` key (30 minutes) does not expire
under a running `initTask` (seconds). A bounded task may run out of next times at
any moment; an interval task gets no repeat configuration, because `queue.add`
stands inside the branch for cron tasks.

`StoppedStaysStopped` covers stops beside completions, deletions, crashes and
restarts; `ActivatedIsScheduled` relates row, repeat set and queue after a start
that nothing overlapped; `KnownSchedules` says `jobOpts` names the configuration
that is repeated (without overlapping handlers; see below); `ActivatedRuns` is
liveness under `Fairness` (weak fairness of handlers, workers and time: each
is continuously enabled until taken); `OneInit` is mutual exclusion of `initTask`.

## Jobs

`run[r]` is a job: it copies the service and the arguments of the task when it is
queued. `Refuse` and `Call` are `callService` with `checkHasMissionMeta`,
`EmailJob`, `HttpRequestJob` and `LogClearJob` the three missions, `LogSuccess` to
`FailureUnlogged` the two INSERTs of `TaskConsumer.handle` with what happens when
they fail or only their answer is lost, `Stalled` Bull's second attempt after a
worker is gone. The SQL file holds tasks that nobody validated, so `Init` allows
any service. `RunsAreLogged`: a job Bull calls completed has left a row; a row of
success, and an emptied login log, stand for the call of a mission.

## Presence

`conn` holds each stream with the progress of its two detached calls: `add`
(`find` the token row, `set` the key) and `remove`. `Start`, `ConnectAborted` and
`Closed` are `SseController.sse` and its close handler; an aborted request is one
whose close event came while the guards were at work. `CountCall` and `TimerEnds`
are lodash's `throttle` with leading and trailing calls, `ReadKeys` and `Send`
the awaited KEYS and the push. `RemoveToken` and `RemoveRow` are
`removeAccessToken`; `DeleteUser` is the cascade. A stream's `uid` is taken to be
that of its token's owner, and the KEYS of a count does not fail.

`ExpelledStaysOffline`: who logged out is off the list for good, however many
streams are open or about to be added. `OnlineWhileOpen`: a token's only stream is
listed until it closes. `CountIsCurrent`: whatever falls into the throttle's
window, the last change of an instance's own streams is told.

## OneTimeCode

`img` are the keys of captchas, `minute`, `limitDay`, `countDay` those of the
limits, under the names the code reads and writes, `throttle` is the memory of the
`ThrottlerGuard`. `LoginComes`, `CheckImgCaptcha`, `DelImgCaptcha` are the login's
check; `SendEmailCode`, `CheckIp` ... `LogDay` the calls of `checkLimit`, the
transport and `log`. `before` remembers which requests were answered when one
came. `CaptchaOnce` and `MinuteGap` hold between requests that do not overlap;
`FivePerDay` does not hold at all (run `mail_day`).

## MenuTree

`FilterMenuToTable` and `FilterAsyncRoutes` are the recursive functions of
`permission.util.ts` over the rows of a query, written as recursive functions on
the number of levels left, which is never more than the number of rows. `Create`
and `Save`, `Update` and `UpdateRow`, `Delete`, `FindChildMenus` and
`DeleteMenuItem` are the handlers. `check` looks at the parent of a menu only, and
the -1 a PUT sends for the root passes it, so tables with permissions at the root,
rows below permissions and circles are reachable and part of the model.
`TreeIsComplete` and `RoutesAreReachable` define, by ancestors, what the two
functions return for every set of rows a search or a role may select, over every
such table; `DeleteIsExact` says what a deletion takes, alone.

## Departments

`dept[i]` has the parent and the path `mpath`. `Insert` and `Save` are TypeORM's
`save()` with the rewriting of the subtree's paths, which is one transaction;
`CountUserByDeptId`, `CountChildDept`, `DeleteRow` the deletion, whose DELETE the
foreign key of `sys_user` may refuse. `PathsFollowParents` is claimed as long as
no two edits overlapped and no department was put below itself (`calm`), as the
code protects neither; `UsersAreSound` is claimed always.

## Accounts

`lock` is the row lock InnoDB gives the first UPDATE of a transaction; reads do
not wait for it. `Write` is a statement that is its own transaction
(`updateAccountInfo`, `forceUpdatePassword`), `UpdateRow`, `ReadRoles`, `Commit`
are the transaction of `UserService.update`. `last` remembers what the last
request that sent a thing set it to. `EditsAreWhole`: the row and its roles are
`last`. The roles are read outside of the transaction, which is harmless only
because the UPDATE comes first: the variant without its lock violates the
property.

## Dictionaries

`Validate` is one SELECT of `UniqueConstraint`, `Create` and `Update` the handler's
statement, where the unique index of the code may refuse. `operateId` is the id of
the route. `NamesDiffer`: only overlapping requests make two types of one name;
`OwnValuesPass`: saving a row as it is works. Roles, tasks and parameters use the
constraint in the same way.

## Requests

`Answered418` is the hook of the Fastify adapter, `JwtAuthGuard`, `RbacGuard`,
`ResourceGuard` the guards in their order, `Pipes` the validation, `List` to
`Remove` the handlers, `Timeout` the interceptor, which answers while the handler
goes on, `Throw` and `Return` the exception filter and the transform interceptor.
How a token is judged is in `Session`, where permissions come from in
`PermCache`. `WritesAreAllowed` relates every write to who asked, at the time of
the write; `DeletedStaysDeleted` says that no late statement brings a row back.

## Paging

`List` describes each of the eleven lists by its order, by how a page is cut and by
how the total is counted; `ReadItems` and `Count` are the two queries, `Skip`,
`TotalPages` and `Resolved` the arithmetic of `paginate` and `PagerDto`. The client
asks for page after page until `totalPages`. A page is cut by the ranks of its rows:
`Rank` counts the matching rows up to a position. `PagesCover` is about walks nobody
writes into, `NothingSkipped` about walks beside inserts.

## Storage, NetDisk, Overview

`Storage`: `SaveFile`, `ToBuffer`, `SaveRow` are the upload, `Stat` to `Write` the
`saveLocalFile` it does not wait for, `DeleteRows`, `FindByIds`, `DeleteFile` the
deletion. `RowsHaveFiles`: a row's file is there with its own bytes, except for a
second file of the same name and millisecond.

`NetDisk`: `ListPrefix` is what Qiniu's `listPrefix` replies for a prefix, a
delimiter, a limit and a marker; `GetFileList` is the service's use of it. `Keys` are
the keys a bucket may hold, in their order, and `Searches` says which names include
each search key; the run takes six keys, some of them two directories deep
(`SomeKeys`, `SomeSearches`).
`WalkIsComplete`: following the markers shows all that stayed, nothing that never
was, nothing twice.

`Overview`: `LookUp`, `Call`, `Store`, `Reply` are `CacheInterceptor` around the four
statistics, under `TimeoutInterceptor`. `OverviewIsRecent` bounds the age of every
figure, also when overlapping requests overwrite each other.

## Runs

| run | configuration | shows |
| --- | --- | --- |
| `session_multi` | 1 user, 2 tokens, 2 handlers, several devices; logout, delete, crash | `LoggedOutRefused`, `DeletedRefused`, `SessionsEndForACause`, `ImplementsSessionAbs` |
| `session_single` | the same, one device; kick, password change | `TypeOK`, `NewestDeviceOnly`, `EndedSessionsRefused` |
| `session_ends` | 1 user, 1 token, 2 handlers, several devices; update and disabling, delete; fair | `EndedSessionsRefused`, `EveryHandlerEnds` |
| `perm` | 2 users, roles 1 (root) and 2, 1 handler at a time; or 1 user, role 2, 2 handlers, every call, crashes | `RefreshedAlone`, `NoOrphans`, `DisabledHoldsNothing` |
| `task_races` | 1 task with an end, a cron expression or an interval, 2 handlers, 1 worker; every request, restarts, crashes | `TypeOK`, `StoppedStaysStopped`, `ActivatedIsScheduled`, `OneInit` |
| `presence` | 2 streams, 2 tokens of one user, 2 instances, logout, delete, failure, restart | `TypeOK`, `ExpelledStaysOffline`, `OnlineWhileOpen`, `CountIsCurrent` |
| `codes` | 3 requests, 1 captcha, 1 address, 2 ips, 2 ticks | `CaptchaOnce`, `MinuteGap` |
| `administration` | 3 menus and 2 handlers; 3 departments and 2 users; 3 types and 1 item; edits of a user with 2 roles | `TreeIsSound`, `RoutesAreReachable`, `DeleteIsExact`, `PathsFollowParents`, `UsersAreSound`, `NamesDiffer`, `OwnValuesPass`, `EditsAreWhole` |
| `services` | 2 requests over 2 todos; 3 rows in each list; 2 uploads and a deletion; 6 keys in the bucket; 2 requests for the overview; 2 runs of a task; 1 task, 2 cron expressions, 1 handler, 1 worker, every request, fair | `WritesAreAllowed`, `DeletedStaysDeleted`, `PagesCover`, `NothingSkipped`, `RowsHaveFiles`, `WalkIsComplete`, `OverviewIsRecent`, `RunsAreLogged`, `KnownSchedules`, `ActivatedRuns` |
| `old_token` | 1 handler, password changes | violates `OldTokensStayOut` |
| `mail_day` | `LIMIT_TIME` 2, 3 requests | violates `FivePerDay` |
| `perm_first` | 1 handler, assignments | violates `GrantedIsAllowed` |

Three more configurations reproduce departures that are not among the runs:
`DisabledUser.cfg` (of `MCSession`: `DisabledRefused`), `TaskSlow.cfg` (of
`MCTaskScheduler`: `CompletedIsOver`) and `FilesStay.cfg` (of `Storage`:
`DeletedFilesGo`); TLC finds each violated. `TaskCrons.cfg` (of `MCTaskScheduler`)
is `task_races` with two cron expressions and a task without an end, which leaves
room for creations, updates, restarts and crashes only; it passes in 4.7 million
states.

Distinct states, in millions: `session_multi` 1.4, `session_single` 6.1,
`session_ends` 0.2, `perm` 2.5, `task_races` 2.6, `presence` 2.1, `codes` 1.3,
`administration` 1.7, `services` 1.6 (of which the tasks 0.1).

Bounds. The sets of handlers, tokens, streams and ids bound every model, and the
counters `Max...`, `Crowd` and `Month` where there is a counter or a clock; each is
named in its module's CONSTANTS with the word "bound". Two handlers are the least
that overlap, and every hazard listed in `PROJECT.json` is between two parties (a
handler and a handler, the clock or a crash; a worker counts as a handler of its
own). Users do not interact except through an admin, so one user suffices where
the properties are per user; two tokens are needed for a predecessor and a
successor, two devices, or a refresh. `perm` has two users because a refresh goes
over all of them. An update changes the schedule between two cron expressions in
`services` and between one and an interval in `task_races`. Three menus are the least with a row that has rows above and below it;
handlers of menus and departments overlap while no more than `Crowd` rows were
inserted, which is enough for a row between find and DELETE. Three rows make two
pages, the last of them short. `MaxTime` covers two months and a cached value of
the first in the second. `LIMIT_TIME` is 2 instead of 5 where only its being
exceeded matters. The theorems lift these bounds where they were proved.
`CHECK_DEADLOCK FALSE` is set everywhere: with all tokens issued and expired, all
streams closed or all requests answered, nothing is left to happen.

Fairness. `Fairness` of `Session` is strong fairness of each handler's steps: Node
runs what is ready, the stores answer, and InnoDB grants a row lock in the order
of requests, so a waiting handler is not passed over forever; weak fairness would
let two admins exchange the lock while a third waits. `Fairness` of
`TaskScheduler` is weak fairness of handlers, workers and time, each of which is
enabled until taken. `session_ends` assumes the first, `services` the second; there
an action of a part that does not run is never a step of the behaviour, and as that
part stays in its initial state, none of its fair actions is enabled: the fairness
asks nothing of it.

## What is proved

TLAPS checks these for every value of the constants that satisfies the named
assumptions. The assumptions say only that bounds are numbers and that sets are
disjoint where they must be: `None` and the other markers are none of the values
they stand beside (a row of `dept`, a schedule of `repeat`, a part of a file's path),
a handler is no worker, an address no ip; and that the keys of the bucket are in an
order strings can have. `Presence` also has finitely many tokens.
TLC evaluates each of them.

The components of `MCAdministration` and `MCServices` are proved about inside these
modules, for `PartsSpec`, because their properties are stated there; with the other
parts at rest a step of the whole is a step of the part or none. What is proved
of `TaskScheduler` reaches `MCServices` by instantiating `TaskProofs`.

Each proof has the same form: an inductive invariant that implies the property, a
lemma for `Init`, one per action or per group of actions that disturb the same
parts, and the temporal step last.

### Session

`SessionProofs`
- `TypeCorrect`: `Spec => []TypeOK`. `TypeInv` adds what typing needs: a handler
  that works on a token has one (`JobBound`), every token in a row or with a client
  has an owner, and a login works on a token of its user.
- `Refinement`: `Spec => ImplementsSessionAbs`. `AgeInv` ties each call of the guard
  to how old its token can be (`JobAge`) and keeps unissued tokens untouched;
  then every step moves each token's stage as `SessionAbs` allows, and opens a gate
  only while a login of the user is under way.
- `EndsForACause`: the action property `SessionsEndForACause`. What a step takes from
  a usable token is its age, its own blacklist entry, or the password version of
  its user (`Cause`), each of which is one of the causes the property names.

`SessionEndProofs`
- `EndedSessions`: `Spec => []EndedSessionsRefused`. The property speaks only of
  admitted requests, so it is strengthened to `EndInv`: the gate of a closed user
  is shut and no login of the user is under way (`ClosedShut`); an operation whose
  user is still calm has shut the gate by the time it is past the password
  version, and a request that began when the user was closed can only reach
  `admitted` by a refresh (`JobEnd`).
- `DeletedUsers`: `Spec => []DeletedRefused`, from `EndInv` and `GoneInv`: rows
  belong to existing users, so a request that began after the deletion finds
  neither a gate nor a row, and gets no further than the lookup.
- `LoggedOut`: with several devices, `LoggedOutRefused`, from `OutInv`: a token
  that is out has no row, and its blacklist entry lasts as long as it is fresh.
- `NewestDevice`: with a single device, `NewestDeviceOnly`, from `DeviceInv`: logins
  under way have tokens of their own that no client holds (`TokensApart`), so no
  login can make a superseded token the newest device again (`Barred`), and a
  request that presented one passes only by a refresh (`JobDevice`).

### PermCache

`TypeInv` adds that a role update knows its role.
- `NothingOrphaned`: `Spec => []NoOrphans`, which is inductive by itself: every write
  of a join row and every DELETE keeps it, whatever the checks before them saw.
- `DisabledForGood`: `Spec => []DisabledHoldsNothing`. `AloneInv` says that beside a
  handler that is alone no other runs, `ShutInv` that a disabled user is offline
  without a cache and no refresh under way is going to write one (`Barred`), and
  how far the disabling has come (`Disabling`).
- `AloneReachesAll`: `Spec => []RefreshedAlone`. `FreshInv`: a refresh that is alone
  has read, of each user who was online all along, what the database still says
  (`Abreast`), and while anybody counts as refreshed nothing runs (`Settled`).

### TaskScheduler

`TaskProofs`
- `TypeCorrect`, and `SingleInit`: `Spec => []OneInit`. `BootInv` adds that the key
  exists whenever some `initTask` runs; it needs that the one which deletes the key
  is an `initTask`, hence the only one.
- `StoppedTasks`: `Spec => []StoppedStaysStopped`. `Stopping` adds what happens between
  the calls of a stop: a calm stop holds the `jobOpts` that are in the row until it
  has removed that configuration (`JobsLinked`, `Held`); beside a calm handler there
  is no `initTask` and no other request that may start the task (`Calm`); and once
  the task is stopped nobody is about to start it (`Off`). A step of any other
  handler only ever turns tasks off (`Frozen`), except the task that its own request
  may start.
- `ActivatedTasks`: `Spec => []ActivatedIsScheduled`. `SettledInv`: a handler no other
  overlapped works on the configuration in the row and is alone on its task
  (`AloneOK`); a settled task is handled by workers only, with its configuration in
  hand, and is queued, or its last run is under way, or it is about to be marked
  (`SettledOK`); nothing is settled while some `initTask` empties Bull.
- `KnownWhileQuiet`: `KnownSchedules` when there is one request at a time and no
  process is killed (`OneAtATime`); the workers go on beside it, and any call may
  fail. `KnownInv` says which configurations of its task are left at each call of
  the handler (`Holding`), and that what is repeated is in the row or about to be
  saved. Without these two hypotheses the property is false: see "Tasks" below.
  `ServicesProofs` states it again as `SchedulesKnown`, of the property that the run
  checks.

### Presence

`TypeInv` adds that an open stream has a token and an instance.
- `ExpelledOffline`: `Spec => []ExpelledStaysOffline`. `OutInv` adds that no stream of
  an expelled token, nor of one whose removal is under way undisturbed, is about to
  SET, and that an expelled token has no row for a later stream to find.
- `OnlineStays`: `Spec => []OnlineWhileOpen`, with `StreamInv`: a stream not yet opened
  has had no step, one being removed is shut, an instance has only its own streams.
- `CountsArrive`: `Spec => []CountIsCurrent`. `CountInv`: unless a KEYS is on its way or
  the window will bring one (`Pending`), the number read last, or else the number
  last sent to each stream, is that of the keys there are.

### OneTimeCode

`TypeInv` adds what a request has at each stage, `DoneBefore` that who was answered
when another came stays so.
- `OneCaptcha`: `Spec => []CaptchaOnce`. `CaptchaInv`: a captcha that let somebody in is
  gone and its uuid is not drawn again, so who came later is past no GET.
- `MinuteBetween`: `Spec => []MinuteGap`. `GapInv`: once `log` is through, the keys of
  the ip and of the address live at least a minute from the mail (`Guards`, `Timed`),
  and who came afterwards and got past a key did so after that minute (`Apart`).

### Administration

`AdministrationProofs`
- `PathsHold`, `UsersSound`: `PathsFollowParents` and `UsersAreSound`, from `DeptInv`: ids
  were given, parents exist, a handler's department did (`FoundOK`), and, while calm,
  every path is its parent's with the id at its end (`TreeOK`) and a department at
  its DELETE has none below it (`Childless`). The move is the hard case: that the
  rows found by the prefix of the old path are the subtree, and that replacing the
  prefix gives the subtree its new paths. The lemmas about paths and prefixes at
  the head of the module say so for paths of any length; that a row below the
  moved one is found rests on the least counterexample by length.
- `NamesApart`, `OwnValues`: `NamesDiffer` and `OwnValuesPass`, from `DictInv`: what the
  constraint looked up for a request that overlaps no other is still so when its
  statement comes (`StillFree`), and codes differ because the index says so.
- `WholeEdits`: `EditsAreWhole`. `LockHeld` adds that a transaction between its UPDATE
  and its end has the row, and `ReadsHold` that what it has read of the roles is
  still what there is when it commits: that is what makes "remove what was read, add
  what was sent" the set that was sent.
- `NothingLeftBehind`: the types of `MenuTree`, and of `DeleteIsExact` the half
  `LeavesNoChild`. `FoundBelow`: of a delete no write came between, all children of
  the rows it has looked at are found.

### Services

`ServicesProofs`
- `TypeCorrect`, `AllowedWrites`: `WritesAreAllowed`, and `DeletedForGood`:
  `DeletedStaysDeleted`. `Passed` says what each stage of a request knows from the
  stages before (the handler's input is valid, a creation is permitted, an entity's
  id was given and its row, if it is still there, is the user's); `IdsInv`, that ids
  are never given twice, carries the last of these over the deletion and creation of
  rows by others.
- `LoggedRuns`: `RunsAreLogged`. `CalledFirst` adds that a run inside a method, or about
  to log a success, has called the mission its job names; without it a success
  could be logged for nothing.
- `FilesKept`: `RowsHaveFiles`. `Holds`: an upload that is alone with its name and named
  by no delete has its file from the moment it was opened, empty until it is
  written; it needs that different uploads have different paths unless they are
  alike, which is a lemma about `Path`.
- `WalksComplete`: `WalkIsComplete`. `DiskInv`: a walk under way has shown what stayed
  up to its marker, and nothing but what ends there (`Walking`). That the next page
  continues it is about what a reply's marker says of what it leaves out: entries
  with the same last key are the same (`LastKeyApart`), so as many entries as the
  limit, the first by their last keys, are all there are up to the marker; and two
  entries are not shown as one (`ViewApart`). The keys and the searches are any that
  meet `NetDiskAssumption`: keys differ, none is empty or the delimiter alone, and
  those with a common directory follow each other, as in the order of strings.
- `PagesCovered`, `NoneSkipped`: `PagesCover` (with the types of `Paging`) and
  `NothingSkipped`, from `PageInv`, which says of a walk under way where the rows that
  were there at its start stand now, by their rank among the rows that match. In a
  list nobody writes, those up to the end of the last page were shown once (`Still`);
  where new rows come last, ranks do not change (`Placed`, `RankKept`); in the logs they
  only grow (`RankGrows`), so a row not yet shown is ahead, and the total, counted
  after the rows, says so (`Ahead`). That the last page is reached rests on two facts
  about ranks: they are 1 to the number of matching rows, each once (`RanksAre`), and a
  page that is short but not empty is the last (`ShortIsLast`).
- `OverviewFresh`: `OverviewIsRecent`. `OvInv` gives each cached value and each reply one
  moment that none of its figures is older than (`CacheOK`, `Recent`), and bounds the
  age of what a request has read by its time limit (`Reading`).
- `SchedulesKnown`: see above.

### Only model-checked

- `TreeIsSound` (but for the types), `RoutesAreReachable` and the half of
  `DeleteIsExact` about the page: what the recursive functions of
  `permission.util.ts` return for every table is induction over the tree.
- Liveness: `EveryHandlerEnds`, `ActivatedRuns`.


## Where the code departs from what it says

Shown by a run or a configuration:
- A login sets the password version back to 1 and every token is signed with
  `pv: 1`, so tokens from before a password change are good again after the next
  login (`auth.service.ts` 67; run `old_token`).
- The limits of a day are read under names nobody writes and the count is not
  incremented (`mailer.service.ts` 108; run `mail_day`).
- A user who has just logged in has no cached permissions and the fallback to
  MySQL is dead code, as `[]` is not nullish (`rbac.guard.ts` 46; run `perm_first`).
- A disabled user's expired token is refreshed and admitted
  (`jwt-auth.guard.ts` 98; `DisabledUser.cfg`).
- A run that outlasts its task's period is taken for the last one and the task is
  stopped (`task.service.ts` 359; `TaskSlow.cfg`).
- The deletion of files deletes their rows first and then looks the paths up in
  the rows, so the files stay (`storage.service.ts` 82; `FilesStay.cfg`).

Seen while modelling. The models contain each of these where they concern a
module, and the properties are stated so as to hold beside them:
- Sessions: with a single device a logout leaves the rows, so the token can be
  refreshed (`auth.service.ts` 116), and the refresh path does not look for a newer
  device (`jwt-auth.guard.ts` 98). The sweep removes rows whose refresh token is
  good for 29 more days (`cron.service.ts` 23). The token a refresh issues is never
  handed to the client; concurrent refreshes issue two. In the last half second of
  a JWT a logout fails, as Redis refuses a TTL of 0, and a TTL rounded down ends
  half a second early. A crash between the blacklist entry and the removal of
  the row leaves a token that can be refreshed the next day. A login under way
  reopens the gate an admin has just shut.
- Permissions: overlapping refreshes may write the older reading last
  (`menu.service.ts` 196). `auth:permission` has no TTL, so a later login finds
  what an earlier session left. A role deleted between `findOne` and `save()` comes
  back (`role.service.ts` 112). `checkRoleByMenuId` compares the id with role ids,
  so menus in use are deleted (`menu.service.ts` 216).
- Tasks: `initTask` starts tasks from a list that may be stale (82-84); two
  overlapping updates leave a configuration no row names, which stays
  (241); a crash in `initTask` leaves the key, and each further start renews its
  TTL (54-63); interval tasks are never enqueued (160-174); a task that has ever
  run cannot be deleted but is left disabled (289-293).
- Runs of tasks: `HttpRequestJob.handle` makes an Observable nobody subscribes to,
  so nothing is sent and a success is logged; a run whose INSERT of the success
  fails is logged as a failure; the duration is handed over as `time`, which is not
  a column, and never stored; the third task of the SQL file names
  `LogClearJob.clearTaskLog`, which does not exist, so each of its runs fails;
  of a run that outlives its task no row is left.
- Presence: a SET that comes after the DEL of the same stream leaves a key for
  30*24*60*60*1000 seconds; closing one of several streams of a token takes it off
  the list; the key of a deleted user stays (`online.service.ts` 82); a logout and
  the other instances' streams do not push the count; `replyMap` keeps one stream
  per user for shutdown (`sse.controller.ts` 61); a request aborted before its
  handler runs leaves its client in the map (78).
- Codes: two overlapping logins spend one captcha; overlapping requests pass
  `checkLimit` together.
- Menus: a PUT with `parentId` -1 makes a permission at the root, one without
  `parentId` moves the row there; updates may close a circle, whose deletion
  never ends (`menu.service.ts` 233); rows below what was moved under a permission
  or deleted meanwhile are on no page.
- Departments: `POST /dept/move` hands plain objects to `save()` and is always
  refused; a user created without `deptId` gets the first department, as
  `findOneBy({ id: undefined })` finds any; a subtree moved below itself keeps
  paths that follow no parent.
- Users: registration and creation check the name before the INSERT, with only
  the index to keep two apart; `PUT /account/update` cannot clear a field; a
  `PUT /user/:id` that is refused after its first statement has changed the password
  (`user.service.ts` 306); a profile of a user deleted meanwhile is error 1017.
- Requests: `user_id` of a todo is set by no code, so nobody but an administrator
  can change one. A `BusinessException` is answered with HTTP status 200. After the
  timeout's 408 the handler may still write.
- Lists: pages of the login log contain all rows, as a raw query with a join is
  not cut; dictionary items tie on `orderNo`, so their pages are unspecified; the
  files of a user name nobody has are everybody's; deletions during a walk, and
  counts taken beside the rows, skip rows.
- Files: a file whose write fails or is cut off by a crash leaves its row;
  `storage/static` and `list2` call methods a Fastify reply does not have;
  `FileUploadDto` is never evaluated.
- Cache: `CacheModule` is given a Redis store in a form the installed version does
  not read, so it caches in the process's memory, where the TTL of 3600 are
  milliseconds.

## Not modelled

- Socket gateways, pub/sub and the cache client (`socket`, `shared/redis`): nothing in
  the repository emits `TokenExpired`, broadcasts to a namespace, or calls the
  pub/sub; no other state depends on them.
- System parameters: one statement per request. `UserService.create` reads the
  initial password from them, which no property tells apart.
- Health, server statistics, Swagger, configuration, `device`: reads and constants.
- The two files of mock menus (`mockReactAdminMenu.ts`, `mockEpAdminMenu.ts`): data.
- The free-form mail of `tools/email`, the export of users, the address look-up of
  the online list, the pushes of `updatePermsAndMenus`: one outgoing call each, of
  which nothing depends.
- DTOs of the network disk without handlers.

Hazards that no property covers, besides those of `PROJECT.json`: the sweep's
cascade (`cron.service.ts` 23), the endless `findChildMenus` (`menu.service.ts` 233),
the role that comes back (`role.service.ts` 112), the files that stay
(`storage.service.ts` 82), the slow run and the refused deletion of tasks
(`task.service.ts` 359, 292), the two maps of the streams (`sse.controller.ts` 61,
78), the key of a deleted user (`online.service.ts` 82) and the password of a
refused edit (`user.service.ts` 306). The code does go wrong there and no comment or
test promises otherwise; where a module has the state, it contains the behaviour.

## What could follow

1. Composition: `PermCache` and `Presence` over the session actions they share
   (disable, delete, `removeAccessToken`) instead of their own copies.
2. Proofs: the route of a single row in `MenuTree`; `KnownSchedules` with a second
   handler for another task.
