# Formal models of the MOGAK API

TLA+ models of the NestJS backend in `src/`, checked with TLC on small
instances, and theorems about them checked with TLAPS for every instance.
Paths below are relative to `src/`; "handoff" is
`docs/migration/2026-07-23-nestjs-migration-handoff.md`.

## 1. The system

One Node.js process (or several) serves an HTTP API and keeps all its state in
PostgreSQL. A user owns *modarats*, a modarat holds *mogaks* (goals), a mogak
*jogaks* (habits) with schedules; a jogak on a date has at most one *execution*
(IN_PROGRESS, SUCCESS or FAIL) and an execution at most one *post*. Posts have
comments and likes, users follow each other.

Three things make it concurrent. Requests interleave at every `await` of a
service method. A repository method that writes is one transaction at READ
COMMITTED, so what a service read in an earlier method may be stale. Inside
transactions, rows are locked one by one, by explicit `SELECT ... FOR`, by
foreign keys and by `DELETE`. The process may die and an answer may be lost at
any point; a failed await ends its request and rolls its transaction back.

### Components

| Component | Code | State | Operations | Interacts by |
|---|---|---|---|---|
| Authentication, sessions | `core/auth`, `infrastructure/auth`, guards | `users.role`, `social_accounts`, `auth_sessions`; tokens at the clients | login, refresh, logout, join, withdraw, authenticated call | rows of the user; tokens |
| Row locks | `infrastructure/database/transactionLocks.ts`, every repository | PostgreSQL row locks, one advisory lock | all writes | lock conflicts |
| Withdrawal | `AuthRepository.deleteUser`, `accountDeletionPurge.query.ts` | all rows of a user | withdraw | locks on everybody's posts it commented on |
| Executions | `JogaksService.commandExecution`, `MogakRepository` | `jogak_executions` | complete, skip, start by a post | unique key, compare-and-set |
| Hierarchy | `MogakService`, `JogaksService`, `MogakRepository` | modarats, mogaks, jogaks, schedules | create, patch, delete, reschedule | counts, parent locks |
| Schedules, projections | `jogakSchedule.policy.ts`, `JogaksService`, `MogakService.getProgress` | none of their own | day views, routines, mogak lists, details, progress | several reads of the hierarchy's rows |
| Posts, comments, likes | `PostService`, `PostRepository` | posts, images, comments, likes | create, update, delete, toggle | locks, executions |
| Social graph | `SocialService`, `SocialRepository` | follows | follow, unfollow, lists | locks of both users |
| Profiles, registration | `UserService`, `UserRepository` | users | join, profile updates | session succession, unique nicknames |
| Profile images | `UserService.updateProfileImage`, `DisabledStorageAdapter` | object storage | replace, delete | storage, then the row |
| Consents | `ConsentService`, `ConsentRepository` | user_consents | all consents, marketing consents, registration | a shared lock on the user, the rows of the items |
| Request limiter | `BoundedThrottlerStorage` | a Map in memory, timers | increment | timers of the event loop |
| Metadata; identity verification; HTTP layer; alerting, logging; configuration, health, deployment | see `PROJECT.json` | none of their own | reads, checks, mapping | - |

### What is hard, and what correctness means

* **Sessions.** Two first logins of one identity must end in one account; a
  login that is in flight when the user withdraws must leave no session; a
  login on one device must not end another's session. A refresh token that was
  exchanged must stay dead. Two joins, or a join and a logout, on one session
  must not both give it a successor. A token's role is trusted without asking
  the database, so it must never run ahead of it.
* **Locks.** Every two writes, a withdrawal included, must lock in compatible
  orders, also where a foreign key or a `DELETE` takes locks the code does not
  spell out. Rows that refer to others by a value and no foreign key (the
  execution of a post) need the locks as their only protection.
* **Executions.** An insert that may do nothing, a read, a compare-and-set and
  one retry must together look atomic to the client.
* **Capacities** are counted twice, before and inside the transaction, and not
  at all when a schedule changes.
* **Views** are put together from two to four reads, one `await` each, and the
  occurrences of a schedule are computed in four ways (a policy, a loop over
  rows, two conditions in SQL). One answer should fit together, and the four
  should agree.
* **Members and posts.** Two changes of one user's consents upsert item by
  item under a lock they share. A like is toggled by an insert that may do
  nothing and a delete that is not asked what it found. A nickname is verified,
  then written; a post is found, then commented on. Feeds are read by OFFSET
  while posts come and go.
* **The limiter** compares two clocks, and must stay bounded.

`PROJECT.json` lists each hazard at its line with the properties that watch it.

## 2. Modules

| Module | Role |
|---|---|
| `AuthSession` | accounts, sessions and tokens, one step per await |
| `AuthSessionProofs` | types, references and roles of `AuthSession` |
| `AuthSafetyProofs` | accounts, logins, succession of sessions and exchanged tokens |
| `TransactionLocks` | row locks and row changes of all write transactions |
| `TransactionLocksProofs` | types, references and which deadlocks are left |
| `ExecutionRegister` | abstract: one atomic register per occurrence |
| `JogakExecution` | the command and post paths, one step per await; refines it |
| `JogakExecutionProofs` | types, the refinement, lost races and finished occurrences |
| `HierarchyCapacity` | limits of mogaks and jogaks, schedules, days going by |
| `HierarchyCapacityProofs` | types and both limits |
| `ScheduleViews` | what the owner is shown of the schedules, one step per read |
| `ScheduleViewsProofs` | all its invariants |
| `Members` | nicknames, consents and follows of registered users |
| `Community` | composes `Members` with posts, likes, comments and a paged feed |
| `CommunityProofs` | all invariants of `Community` and of `Members` within it |
| `BoundedThrottler` | the store of the limiter with its timeouts |
| `BoundedThrottlerProofs` | all its safety properties |
| `MC...` | instances for TLC, each with its `.cfg` files |

`AuthSession`, `JogakExecution`, `HierarchyCapacity` and `ScheduleViews` take a
repository transaction as one step; `Community` splits the two (toggles and
consents) whose statements other transactions can come between.
`TransactionLocks` is the level below: it has the locks that make those steps
atomic, and no requests. A mutation of a definition (marked "Mutation" where it
is defined) is a plausible bug; it is used by no specification and shows that a
property can fail.

### AuthSession

State: `role` (the users table: free, a role, deleted), `accounts`,
`sessions`, `now` in whole seconds, `req` (each request with its local
variables and program counter), and histories: `granted` (pairs clients
hold), `exchanges` (old and new refresh token), `lineage` (which session
succeeded which), `loggedOut`.

| Action | Code |
|---|---|
| `FindUserBySocialIdentity`, `CreateAccount`, `FindWinner`, `RejectDuplicate`, `Issue`, `CreateSession` | `AuthService.login`, `issueSession`, `AuthRepository` |
| `FindUserById`, `Issue`, `RotateSession` | `AuthService.refresh` |
| `IsSessionActive`, `DeleteSession`, `DeleteUser` | `AccessTokenGuard`, logout, withdraw; a feature call is authenticated and guarded |
| `FindById`, `CompleteRegistration`, `ReissueRegisteredSession` | `UserService.join`, `replaceSession` |
| `Reply`, `LoseReply`, `Finish`, `Crash`, `Tick` | environment |

A grant is what `JwtTokenService.issue` signs. A token is its claims: equal
claims sign equal tokens, and the hash of a refresh token is only compared.
The branch that normalises a null role is left out: `users.role` is NOT NULL.

### TransactionLocks

A transaction (`tx`) runs the statements of its `Program`, the tables it locks
in the order of the code. A statement takes the rows visible when it starts
(`Wanted`), then locks them one by one: in id order where the code sorts or
the query says `ORDER BY`, in any order where it does not (`NextRows`).
`BlockedOn` is PostgreSQL's conflict table for row locks, and the gate is the
transaction-scoped advisory lock of withdrawals. A row deleted meanwhile is
passed over, and a call whose required row was not returned gives up
(`Found`, `GiveUp`). `RollBack` may happen at any time.

Rows reached only under the lock of their parent are left out: weekdays and
schedules (jogak), images (post), consents and social accounts (user).

A `DELETE` of several rows, such as the sweep of a login
(`auth.repository.ts:153`), meets them in any order: PostgreSQL promises none.
For deletes below a row that is held exclusively this does not matter; logins
of one user share its lock, and their sweeps may cross (finding 3). PostgreSQL
then fails one of the two after its deadlock timeout, which the model has as
`RollBack`; that login ends with an `AuthPersistenceException` and no session.

### JogakExecution and ExecutionRegister

`JogakExecution` has the await steps of `commandExecution`:
`FindOwnedJogak`, `LoadSchedules`, `InsertExecution` (ON CONFLICT DO NOTHING),
`FindExecution`, `UpdateExecutionStatus` (compare-and-set) and the retry, with
`CreateForOccurrence` of the posts, and with schedules replaced
(`PatchOwnedJogak`), jogaks and posts deleted in between. `writes` counts, up
to `EnoughWrites`, the changes others made to the occurrence of a pending
command. `ExecutionRegister` invokes a command, decides it in one step, and
answers it. The deletion of a jogak keeps its posts (`DeleteOwnedJogak`), as the
comment at `post.table.ts:10` has it; handoff:574 says that it deletes them. The
refinement maps an occurrence to its status (`gone` after its jogak) and a
request to its call; the decision is the step that settles the outcome.

### HierarchyCapacity

Creations count, then lock, count again and insert (`CountMogaks`,
`CreateMogak`, `CountJogaks`, `CreateJogakWithSchedule`). An update of a
schedule reads it on the day the request came and writes it later
(`ListSchedules`, `PatchOwnedJogak`); `NextDay` may come between. A jogak has
one schedule, as `createJogakWithSchedule` inserts one and no operation adds
another; weekdays do not matter to the limit. `revived` remembers the jogaks
whose schedule was over and was brought back.

### ScheduleViews

State: `mogaks`, `jogaks` with their schedule, `executions`, `today`, and `req`,
each request with what it has read. `scheduled` is a history of the occurrences
a jogak ever had. Days are numbers, day 0 a Sunday.

| Action | Code |
|---|---|
| `FindOwnedMogak`, `LoadSchedules`, `LoadExecutions`, `AnswerView` | `listDay`, `listOneTime`, `listRoutines`, `listMogakDay`, `projectOccurrences` |
| `FindOwnedMogak`, `LoadMogakSchedules`, `AnswerList` | `listMogakJogaks` without a date |
| `FindOwnedJogak`, `LoadScheduleRows`, `AnswerDetail` | `getDetail` |
| `ListMogaks`, `ListJogakParents`, `ListWeekSchedules`, `AnswerProgress` | `MogakService.getProgress` |
| `ResolveOccurrence`, `Command` | `resolveOwnedOccurrence`, then the command or the post (`JogakExecution` has its steps) |
| `CreateMogak`, `CreateJogakWithSchedule`, `UpdateJogak`, `DeleteOwned...`, `NextDay`, `Fail` | the writes of the hierarchy, midnight, failed awaits |

The last read of a request and its answer are one step, as nothing comes
between them. The readings of a schedule are operators of their own: `OccursOn`
(policy), `RowOccursOn` (progress), `InRange` and `CurrentOrFuture` (SQL). A
read returns rows of a join, one per weekday (`RowsOf`), which
`GroupScheduleRows` puts back together. `Command` writes over a status as the
policy allows (`TransitionUpdates`): a success may be taken back by a `/fail` and
a failure become a success. `undone`, a history in the request of a view,
notes the successes taken back while it is between its last two reads.
A jogak has one schedule, as no
operation adds another, so the operators that choose among several
(`jogakSchedule.policy.ts:61-96`) have nothing to choose and are left out, as
are titles, categories and the capacity, which `HierarchyCapacity` has.

### Members and Community

`Members` has `nickname` (of a registered user; `None` while PENDING, `Gone`
after a withdrawal), `consents` (per item whether agreed, and which request
decided it), `follows`, and `req`. `Community` adds `posts`, `likes`, `comments`
and `feed`, the clients in the middle of a feed.

| Action | Code |
|---|---|
| `SendConsents`, `LockUser`, `Upsert` per item, `CommitConsents` | `ConsentService.update`, `updateMarketing`, `ConsentRepository` |
| `Join`, `CompleteRegistration` | `UserService.join`, `completeRegistration` |
| `VerifyNickname`, `UpdateNickname` | `UserService.updateNickname` |
| `FindUserByNickname`, `CreateFollow`, `DeleteFollow` | `SocialService.follow`, `unfollow` |
| `BeginPost`, `InsertPost`, `DeleteOwnedPost` | `PostService.createPost`, `PostRepository` |
| `FindPost`, `LockPost`, `InsertLike`, `DeleteLike` | `PostService.toggleLike`, `PostRepository.toggleLike` |
| `BeginComment`, `CreateComment`, `ChangeComment` | comments |
| `ReadPage`, `EndFeed` | `SocialService.listNetworkPosts`, `PostService.listMogakPosts` |
| `DeleteUser`, `Fail` | withdrawal; a failed or rolled back request |

A request locks what the properties need: the user's row in a shared mode while
consents are upserted, the post exclusively while a like is toggled; an upsert
waits for a row another transaction wrote and did not commit (`Written`).
`writes` numbers the writing requests as they begin: it is the `Date` that
stamps consents and posts, and the bound on a behaviour. Histories: `asked`
(the items a request decided), `likings` and `followings` (answers CREATED less
answers REMOVED), and in a feed what was displaced while it was read. The
consent catalogue is constant, as nothing in the code writes it; the seed of the
repository requires no item, and the instance has one that is required, which
`validateConsentSelections` provides for.

### BoundedThrottler

`buckets` is the Map as a function on its keys, `older` its insertion order as
a relation, `timers` the armed timeouts, each with the bucket object it closes
over. `Increment` is the whole call: expiry, block, space, eviction, hit,
timeout. `Fire` is the callback; it may run `Skew` ticks early by `Date.now()`
(the event loop counts delays with a clock of its own, both cut to whole
milliseconds, so one tick is possible), and any time later. Time does not run
backwards; a restart, which empties the store, is not modelled. `admitted` is a
history: the requests of a key that passed less than a window ago, each with its
moment and a number that tells it from the others of that moment.

## 3. Runs

| Run | Question | Bounds |
|---|---|---|
| `auth_accounts` | do logins, joins, logouts and withdrawals leave orphans, two accounts, a wrong role, a session with two successors or one that comes back? | 2 users, 2 identities (one not valid for a new account), 3 sessions, 2 requests, no time |
| `auth_rotation` | can a refresh token that was exchanged be stored again, or a login end a live session? | 1 user, 2 sessions, 2 requests, 2 ticks, access for 1, refresh for 2 |
| `auth_single_use` | is a used refresh token refused (handoff:547)? **No** | 1 user, 1 session, 2 requests, 2 ticks, clock tolerance 1 |
| `locks_hierarchy` | dangling rows, or transactions that stop ending other than by crossing sweeps, in the hierarchy and the sessions, with the creation of a post and a withdrawal? | 12 rows, 2 transactions |
| `locks_social` | deadlock or dangling rows around one post of two users who follow each other? | 10 rows, 3 transactions |
| `locks_logins` | do ordered locks keep two writes apart (the locking design)? **No** | 1 user, 2 expired sessions, 2 logins |
| `execution_races` | does the command path implement the atomic register, and answer? | 1 occurrence, 2 requests |
| `capacity_races` | what can exceed the limits? | 2 mogaks, 2 jogaks, limits of 1, 2 days, 2 requests |
| `schedule_views` | does one answer fit together, and do the readings of a schedule agree? | 2 mogaks, 2 jogaks, a Saturday and the Sunday after it, statuses SUCCESS and FAIL, 1 execution, 1 reader, 1 writer |
| `community` | are consents mixed, members registered without a required one, likes answered wrongly, posts missed in a feed? | 3 users (1 not registered), 3 nicknames, 3 items, 2 posts and 1 to come, pages of 1, 2 writers with 3 writes, 1 reader |
| `throttler_limits` | quota, blocks, eviction, memory and timeouts that are early or late | 3 keys in a store for 2, limits 2 and 1, windows of 2 ticks, 5 ticks |
| `throttler_early_timeouts` | do expired buckets always leave? **No** | 2 keys, 4 ticks, timeouts one tick early |

Why the bounds suffice: the races here are between two requests and an
environment step (a crash, a withdrawal, midnight), so two requests meet every
pair of code paths at every await; a request slot is used again, so sequences
are longer than two. Three transactions run where three users of one post can wait
in a circle (`locks_social`). Limits are 1 or 2 so
that "one place left" occurs. Two executions or three requests exceed what TLC
finishes in minutes; occurrences are independent of each other in the code, and
the theorem covers any number. In `auth_rotation` two seconds give a token of
the same second and one of the next; the clock tolerance, which only lets
tokens live longer, is in `auth_single_use`. In `schedule_views` the two days
are the last of a week and the first of the next, so each boundary of a week, a
weekly schedule with two weekdays and a midnight occur; one execution suffices
as the properties compare one execution with the schedules or its own count.
An execution IN_PROGRESS counts and plans as one that failed, and which status may
follow which is the subject of `execution_races`.
In `community` a page of one post makes every new, removed or liked post move a
page boundary; three writes allow two that race and one before or after.

### Properties that need a word

* `OnlySweepsDeadlock`: whatever set of transactions waits within itself, whichever
  row each may turn to next, there are logins of one user among them that wait in
  a circle in their sweeps. In `locks_social` nobody sweeps, so no set waits within
  itself at all; TLC's own deadlock would not see two stuck among three. A
  refresh or a logout of a swept session waits for nothing once it holds its row,
  a withdrawal of the user is kept out by the lock of the user, and every other
  pair of writes locks in one order.
* `NoDeadlock` is the same without the exception, as the locking design has it;
  `locks_logins` refutes it.
* `CallsKeepEnding` covers deadlock in `locks_hierarchy`, which has logins with two
  sessions to sweep: under fairness, with nothing that makes a transaction roll
  back, transactions keep ending unless some stay for good in a circle of
  sweeps. In the code PostgreSQL ends that circle.
* `DescentNeverWaits`: once a deletion or withdrawal holds the top of what it
  deletes, it is never kept waiting, which is what lets its later deletes go
  without an order.
* `ConflictNeedsThreeWrites`: the 409 of a command needs three changes by
  others during it. The first race lost is always repaired by the retry.
* `ExcessIsRevived`: the plain limit of jogaks is *not* kept by the code: an
  update that read a schedule before midnight may bring an ended jogak back
  without counting. handoff:551-554 calls the limits product rules and accepts
  rare races, so this is no finding; the property bounds the excess by exactly
  those jogaks.
* `DoneWithinPlanned`: the executions of a progress are read last, so one may
  have lost its schedule or come from a command after the schedules were read;
  each is then planned as well as done. A mogak that is deleted or a jogak
  created between two reads must not break it either.
* `AnswersFitTogether`: a view counts the successes of a jogak after it read its
  executions (`projectOccurrences`), so the two need not agree: a success that
  comes between is counted and not shown, and one that a `/fail` takes back in
  between is shown and not counted. The property says that nothing else sets
  them apart: every success shown is counted but those a command failed between
  the two reads (`undone`), and unless the jogak is gone. No reschedule, other
  command or deletion of another jogak costs a success. A view may therefore show
  SUCCESS with an achievement count of 0; nothing in the repository promises
  otherwise. A detail without a schedule is possible only when its jogak is gone.
* `ExecutionsWereScheduled`: a reschedule may overtake a command or a post, so an
  execution may be on a day that is not scheduled any more; that it is on a day
  that never was would be a fault.
* `SchedulesReadAlike`: the four readings of a schedule agree on every day, and
  the capacity counts whatever is still to come.
* `ConsentsAreWhole`: two requests that both decide the same two items never
  leave one item of each. They share the user's lock; what keeps them apart is
  that the first row written is held until its transaction ends.
* `AnswersAddUp`: CREATED and REMOVED alternate for a like, whatever requests of
  its user run at the same time: only the exclusive lock on the post makes it so.
* `PagesMissOnlyWhatMoved`: OFFSET pages may skip a post for each one removed
  before them, or for each like that changes the order; new posts never hide one.
* `TimeoutsCoverTheirBuckets`: until a bucket's end is due there is a timeout
  for just that end; a block that outlives its window must have moved it.
* `QuotaHolds`: a fixed window opens with a request, so any span of one window
  meets at most two and passes fewer than twice the limit.

### Findings

1. `auth_single_use`: two refreshes within one second exchange a token for
   itself, so a used refresh token is accepted again within that second,
   against handoff:547.
2. `throttler_early_timeouts`: a timeout that fires one millisecond early by
   the wall clock leaves its bucket in the map without a timeout, against
   `docs/superpowers/plans/2026-07-24-bounded-throttler-storage.md:22`. The
   bucket goes with the next request of its key or the next sweep of a full map,
   so the bound on memory holds.
3. `locks_logins`: two logins of one user that find the same two expired sessions
   may each hold one and wait for the other, against
   `docs/reviews/api-resource-concurrency-guardrails-design.html`, which has the
   rows of one layer locked in the order of their keys (line 74), the session
   paths among the writers it covers (line 92) and two writes kept apart by it
   (line 103). The document does not claim that the whole database is free of
   deadlocks (line 107); this is one within its own list of writers.

### Fairness

* `CallsKeepEnding`: weak fairness of `Advance` per connection. PostgreSQL runs
  a statement that is not blocked; nothing is assumed of who gets a lock first,
  and nothing makes a connection roll back.
* `RequestsAreAnswered`: weak fairness of `Serve` per request. The event loop
  resumes a request whose await has settled; environment steps and new requests
  need not happen.
* `ExpiredBucketsLeave`: weak fairness of each timeout. The event loop runs a
  timer that stays due. Time and requests need not go on.

## 4. Proofs

Every safety property of the passing runs, invariant or action property, is a
theorem, for all values of the constants:

| Module | Theorems (property) |
|---|---|
| `AuthSessionProofs` | `TypeCorrect` (`TypeOK`), `NoOrphans` (`OwnersExist`), `GuardIsSound` (`UserTokensAreOfRegisteredUsers`) |
| `AuthSafetyProofs` | `LoginsFailOnlyByWithdrawal` (`LoginFailsOnlyByWithdrawal`), `AccountsAreUnique` (`OneAccountPerIdentity`), `SessionsSucceedOnce` (`SuccessionIsLinear`), `GoneSessionsStayGone` (`SessionsNeverReturn`), `LiveSessionsLast` (`LiveSessionsSurviveLogins`), `ExchangedTokensStayDead` (`SupersededTokensStayDead`) |
| `TransactionLocksProofs` | `LocksTypeCorrect` (`TypeOK`), `NoRowIsOrphaned` (`ReferencesHold`), `PostsFindTheirOccurrence` (`PostsStartOnLiveOccurrences`), `DescentsAreFree` (`DescentNeverWaits`), `OnlySweepsCanDeadlock` (`OnlySweepsDeadlock`) |
| `JogakExecutionProofs` | `ExecutionTypeCorrect` (`TypeOK`), `ExecutionImplementsRegister` (`ImplementsRegister`), `ConflictsTakeThreeWrites` (`ConflictNeedsThreeWrites`), `FinishedOnesStay` (`FinishedStaysFinished`) |
| `HierarchyCapacityProofs` | `CapacityTypeCorrect` (`TypeOK`), `MogaksStayWithinLimit` (`MogaksWithinLimit`), `OnlyRevivedExceed` (`ExcessIsRevived`) |
| `ScheduleViewsProofs` | `ViewsTypeCorrect` (`TypeOK`), `ExecutionsHadOccurrences` (`ExecutionsWereScheduled`), `ReadingsOfSchedulesAgree` (`SchedulesReadAlike`), `ProgressStaysWithinPlan` (`DoneWithinPlanned`), `AnswersStayTogether` (`AnswersFitTogether`) |
| `CommunityProofs` | `CommunityTypeCorrect` (`TypeOK`), `ConsentsStayWhole` (`ConsentsAreWhole`), `RequiredConsentsRemain` (`RequiredConsentsStand`), `AnswersMatchTables` (`AnswersAddUp`), `PagesMissNoMore` (`PagesMissOnlyWhatMoved`) |
| `BoundedThrottlerProofs` | `ThrottlerTypeCorrect` (`TypeOK`), `MemoryStaysBounded` (`MemoryIsBounded`), `BucketsHaveTheirTimeouts` (`TimeoutsCoverTheirBuckets`), `BlocksStand` (`BlocksLast`), `OnlyIdleKeysLeave` (`OnlyTheIdleAreEvicted`), `QuotaStands` (`QuotaHolds`) |

### Assumptions

The constants are arbitrary but for the named assumptions of the modules, which
TLC evaluates on every run:

* `LivesAssumption`, `NoneAssumption`: lifetimes and clock are naturals, and the
  null value is not an id.
* `RowsAssumption`, `CallsAssumption`, `SchemaAssumption`: rows have a table and
  an id, unique in it; they refer as the foreign keys of the migrations say
  (`ForeignKeys`), to one row of each table, a follow to two users; a post names
  an execution; the committed rows at first are closed under references; calls
  are those the repositories offer; there are finitely many connections.
* `SchedulesAssumption`, `CapacityAssumption`, `CalendarAssumption`: schedules are
  of the dates there are, days and limits are naturals, the null value is not a
  weekday.
* `MembersAssumption`, `CommunityAssumption`: ids are ordered, the catalogue's
  required items are active and no marketing items, the null values are no
  nicknames and no rows, and the rows at first are finitely many, unique and of
  registered users.
* `ThrottlerAssumption`: limits and durations are positive and there are more
  identities of buckets than buckets.

Two theorems say more. `QuotaStands` assumes `Ttl <= BlockDuration`: the
application configures a ttl and a limit only, and the guard of
`@nestjs/throttler` then passes the ttl as the duration of a block. With shorter
blocks the claim is false, as a blocked key would get a fresh window early.
Bounds (`MaxTime`, `MaxWrites`, `LastDay`, `EnoughWrites`) are constants like
others, so the theorems hold for all of them.

### Arguments

* **AuthSession.** `Inv` is `TypeOK`, `Shape` (what a request holds at each
  program counter) and `OwnersExist`. `Shape` is needed because the step that
  inserts a session takes user and id from the request; `OwnersExist` is
  inductive with it, as `CreateSession` looks at the user under its lock.
  `GuardIsSound` adds `Trust`: a USER role that is granted, remembered or
  presented belongs to a registered user. Without the part about requests a
  role read before it is signed would be unconstrained. It rests on the lemma
  that no step demotes a user.
* **AuthSession, two requests at a time.** While no withdrawal has touched it, a
  login that resumes a user still finds it, and one that lost the race for an
  account still finds the winner's (`Unhindered`). `Timely` bounds the times in
  tokens by the clock. `Succession` says that a stored session was inserted and
  has not ended, and that the id a request has drawn is nobody else's: a session
  is inserted one await after its id was drawn. `Exchange` says that the token a
  session stores is never older than one it was exchanged for, so an exchanged
  token is the stored one only if it was exchanged for itself.
* **TransactionLocks.** `TInv` adds to `TypeOK` that a running transaction is at a
  statement of its program. That an idle connection holds no lock, the advisory
  one included, is part of `TypeOK`: all locks are scoped to the transaction.
  `Locked` is what the rest needs: a running transaction (`Fine`) holds rows that
  are committed and lie in the order of tables and ids (`Placed`, `Holds`), has
  every row required so far (`Got`), holds nothing its call has no reason for
  (`Asked`), and, when it deletes a tree, has missed no row of it (`Whole`); two
  transactions hold no conflicting locks on a row; and the committed rows are
  closed under references. `Whole` survives the commits of others because whoever
  adds a row holds the rows it names, while the deletion holds those exclusively;
  so `ReferencesHold` is inductive only together with it. A deletion that holds
  its top is then never kept waiting (`DescentNeverWaits`). For
  `OnlySweepsDeadlock`, a login that waits in its sweep waits only for another
  login of its user in its sweep (`SweeperWaits`): a refresh or a logout that
  holds a session has all it needs, and whoever holds the user exclusively keeps
  sweeps out. So if a waiting set has a sweeping login, those of its user that
  sweep wait within themselves. If it has none, whoever waits, waits for a row
  that comes, by table and then by id, after every row it holds (`WaitsRise`);
  of finitely many transactions one waits for the last such row, and whoever
  holds that row could only wait for a later one (`NoCircle`). Other rows deleted
  without an order are no exception: only a deletion that holds the row above
  them gets there, and it does not wait.
* **JogakExecution.** `IInv` adds to `TypeOK`: a command past its insertion has
  an execution unless its jogak is gone (`Started`), and one about to update
  expects a status its command may change (`Expecting`). Both are needed for the
  refinement: the decision of the register must be enabled where the service
  answers. Every step is then a register step or a stutter, one lemma per
  action. The 409 needs a third invariant (`Counts`): every lost UPDATE was lost
  to one write, and the second such write leaves the row in the very status the
  command wants, as there are only two that can be written over another. So it
  takes a third write to find it otherwise.
* **HierarchyCapacity.** `Typed` has the tables finite and no request ahead of the
  calendar. The limit on jogaks is not inductive; that of those that count and
  were never revived is (`RegularWithinLimit`).
* **ScheduleViews.** Ids are not handed out twice, so the tables only evolve
  (`Evolves`): a jogak that was read is not replaced or moved, and it loses no
  success but the one a command takes back, which the step names and every view
  between its reads notes (`Continues`). What a request has read therefore stays
  right until it answers, up to what it noted (`Fits`). That the four readings agree is a fact about schedules and days
  alone (`ReadingsAgree`), proved for every calendar.
* **Community.** Each request in flight knows whose rows its locks hold, what it
  was checked for and what it found (`Fits`); numbers of requests differ and no
  two toggle one post (`Apart`). Toggles alternate because one about to delete
  has a like to delete. For feeds, `Paged` compares ranks: rows that neither go
  nor change their key keep their order, so they move up only into places that
  others left.
* **BoundedThrottler.** `Base` has the insertion order equal to the order of last
  uses, so that the evicted key is the least recently used one, the timeout and
  the promise of each bucket. `Quotas` counts what passed from the start of the
  open window, and what is left of the one before by its end.

### Model-checked only

* Liveness (`CallsKeepEnding`, `RequestsAreAnswered`, and the refuted
  `ExpiredBucketsLeave`): fairness and `ENABLED` are out of reach of the prover. `OnlySweepsCanDeadlock`
  proves the part of `CallsKeepEnding` that locks decide.
* The other violations.

## 5. Not modelled

* Profile images: the only `StoragePort` is the disabled adapter, which refuses
  every call. Metadata, identity verification, HTTP mapping, alerting, logging,
  configuration, health and deployment keep no state of the program.
* Values: titles, contents (so `updateOwnedPost`, but for its locks), colours,
  jobs, addresses, and the spelling of nicknames.
* Other reads: the follow lists, a profile, the comments of a post and the
  marketing consents see one state of the tables. The pacemaker feed and the
  detail of a post read posts with their counts, then images and comments;
  these may differ by what changed in between, and nothing promises otherwise.
* The posts of a mogak are read through inner joins down to the mogak
  (`post.repository.ts:238-246`), so the deletion of a jogak takes its posts off
  that list although they stay in the table. `Community` has no jogaks: its pages
  lose a post only by its removal, and `PagesMissOnlyWhatMoved` says nothing of
  jogaks deleted while that list is read.
* Several schedules of one jogak, and so the choice of the representative and the
  successor: `createJogakWithSchedule` inserts one and nothing adds another.
* Several processes are covered where state is in PostgreSQL (requests do not
  say which process runs them; a crash of all of them is one behaviour). The
  limiter is per process.
* Lock waits that time out, and serialization failures beyond READ COMMITTED,
  are covered by `RollBack` and by failing awaits.

## 6. Plan

Done, in order of importance: sessions; locks; executions with their register;
capacities; limiter; schedules and what is shown of them; members, posts, likes,
comments and feeds; and all their safety properties as theorems.

Next:

1. An abstract session store, one cell per session that is replaced, renewed or
   ended in one step, and the proof that `AuthSession` implements it, as
   `JogakExecution` implements its register.
2. The abstract consents and likes of a member (all items of a request at once, a
   toggle in one step), and the proof that `Community`, which splits both over
   statements, implements them under its locks.
3. The abstract limiter: a quota per key in any span of a window, independent of
   buckets and timeouts, with eviction as the only way to lose count.
