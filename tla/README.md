# Verification of the YeHub platform

YeHub manages influencer campaigns: staff create projects and campaigns, add the
posts that key opinion leaders published on TikTok, Instagram, Facebook,
YouTube or Threads, and the platform polls the metrics and comments of those
posts through scraping services until the campaign ends. The repository holds a
NestJS API and worker (`yehub-be`), a React frontend (`yehub-fe`), a static demo
(`yehub-demo`) and browser tests (`yehub-e2e`).

This directory holds TLA+ models of the parts where the order of events
matters, TLC configurations that check them, and TLAPS proofs. All of it is
translated from the code; the documentation is only used as a source of claims
to check the code against.

## 1. Inventory

| Component | State | Operations | What is hard about it | Status |
|---|---|---|---|---|
| Polling schedules (`polling-scheduler.service.ts`) | BullMQ job schedulers in Redis, one per post and dimension, id `campaign:post:dimension` | scheduleCampaign, removeCampaign, rescheduleCampaignInheritedPosts, schedulePost, removePost | derived from Postgres rows with no transaction over both stores; several awaits per operation; calls sent together by `Promise.all` | modelled |
| Campaign life cycle (`campaigns.service.ts`) | status, `deleted_at`, intervals, members, objectives | create, update, changeStatus, remove, members | status is read, validated and written without a lock; schedulers follow the write | partly |
| Posts (`posts.service.ts`) | post rows, overrides, metrics, sync results | addPost, bulkUpload, updateSettings, remove, syncNow | a campaign read at the start decides what happens after long awaits | partly |
| Dispatch and work queue (`polling-dispatch.processor.ts`, `polling-job.util.ts`, `scraper.processor.ts`) | dispatch jobs, work jobs under stable ids, attempts and delays | dispatch, syncNow / triggerImmediate, process, retry | three separate probes decide "pending"; at-least-once delivery; a stable id deduplicates | modelled |
| Polling runner (`polling-runner.service.ts`) | metrics, comments, profiles and social accounts it links | metrics and comments branches, saveComment, ensureAuthorLinked | rows may vanish while a scraper answers; find-then-create, with and without a unique index | partly |
| Account polling (`account-polling.service.ts`, `account-polling-runner.service.ts`) | account work jobs, social account rows | enqueue, process: fetch, detect a conflict, update | account unlinked during the fetch; the real id belongs to another account by now | modelled |
| Apify runs (`apify.client.ts`, `apify-run.recorder.ts`, `apify-usage-refresher.ts`) | remote Actor runs, recorded runs and cost | start, wait until a deadline, abort, record, fetch, refresh usage | a run that ends as the deadline passes; record exactly once on every path | modelled |
| Platform adapters | none | payload mapping, what is filtered by the cursor | replies and equal dates | partly |
| Authentication (`auth.service.ts`, `jwt.strategy.ts`) | users, sessions, reset and invitation tokens, failed-attempt counter | login, refresh, logout, change and reset of the password, invitation | verify-then-write; lock-out counter; revocation against requests in flight | modelled |
| User administration (`admin.service.ts`) | role, status | invite, change role, disable, enable, remove | the last-administrator rule is a count followed by a write | modelled |
| Projects and membership (`projects.service.ts`, `campaigns.service.ts`, `auth/guards/`) | projects, members of projects and of campaigns | archive, unarchive, members; guards and listings | archive requires that all campaigns be completed while another request creates one; one access rule in eight places | modelled |
| Profiles and social accounts (`profiles.service.ts`) | profiles, accounts, links from posts | create, link, move, unlink, remove, poll | counts first and deletes later; the database cascades; runs link at the same time | partly |
| Campaign analytics, cost explorer | none | buckets, zero-filled series | boundaries of days, weeks and windows | partly |
| Frontend API client (`client.ts`, `auth.store.ts`) | tokens, `isRefreshing`, queue of refused requests | request, refresh, retry, sign-out | concurrent 401 answers must share one refresh and none may wait for ever | modelled |
| Comments listing | none | filters and pages over stored rows | who may open it | partly |
| Reference data, uploads, mail | single rows or none | create, rename, delete; external calls | nothing beyond one statement | not modelled |
| Frontend pages, demo, e2e tests, bootstrap | presentation and wiring | | nothing to check here | not modelled |

Interactions. The API process writes rows with Prisma and then calls the
polling scheduler, which upserts or removes job schedulers in Redis. BullMQ
turns a scheduler's ticks into dispatch jobs; the dispatcher (worker process)
loads the rows, drops the tick when the campaign is not active, and adds a work
job. The scraper processor runs it through the runner, which calls an adapter
(Apify or a scraping proxy), writes the result, links the author and marks the
post. The API's manual sync and the account polls add to the same work queue.
The frontend keeps a pair of tokens per tab; the API looks up session and user
on every request and the memberships in a guard in front of each handler.

What makes each part correct:

* schedules: at rest they are exactly what the rows call for; a campaign that
  is not active, or deleted, has none; another campaign's are never touched.
* campaign life cycle: only the transitions of `VALID_TRANSITIONS`.
* dispatch and work: an id frees up eventually; an accepted manual sync is
  carried out; a paused campaign falls silent; a removed post drains.
* comments: threads hang together, no more rows of one than runs at work at
  once, the cursor skips nobody but in two known ways.
* sessions: what revokes sessions ends all there were; wrong passwords are
  counted; a spent reset token is gone.
* users: at least one active administrator.
* projects: nothing runs in an archived project and nobody joins it; every
  place that decides on access decides alike.
* accounts: no profile without a reason, no link lost unseen, every post linked
  to its author in the end.
* Apify: a run is recorded once, whichever way it ends, with the outcome it had.
* charts: the points add up to what they are about, and so does the figure read
  before them as long as nothing is written in between.
* frontend client: one refresh at a time; every queued request is answered.

## 2. Modules

| Module | Content |
|---|---|
| `CampaignStatus` | the status life cycle of a campaign, shared by `PollingDefs` and `Projects` |
| `PollingDefs` | intervals, the interval precedence and `Plan`, which says what a scheduler should be |
| `PollingSchedule` | campaign life cycle, posts and the polling scheduler service: every await of every request handler that writes a row or a scheduler |
| `PollQueue` | abstract: what the work queue promises of a poll |
| `PollingWork` | dispatch, manual sync, the work queue, the workers that run it and the fate of each attempt; implements `PollQueue` |
| `CommentSync` | the comments of one post: the cursor, what the adapters return for it, threads, find-then-create, runs that die or overlap |
| `SocialAccounts` | profiles, accounts and links: by hand, by the runs of the metrics poll, by account polls |
| `SpendLedger` | abstract: what the recording of Apify runs promises |
| `ApifyRun` | one call of `runSync` with its run, its row and its refresh job; implements `SpendLedger` |
| `TimeSeries` | the charts as functions of the rows, and the requests that ask for them while rows arrive, are rewritten and leave |
| `AuthSessions` | one account and its sessions |
| `UserAdmin` | all accounts, and the rule of the last administrator |
| `Projects` | one project, its campaigns and its members |
| `ProjectAccess` | the guards and listings in front of `Projects` |
| `TokenRefresh` | one tab of the frontend against the server's sessions |
| `MC*` | instances for TLC; `MCCommentSync` also holds a claim of the documentation |
| `*_proofs` | theorems: `PollingSchedule_proofs`, `PollingWork_proofs`, `CommentSync_proofs`, `ApifyRun_proofs` (with `TimeSeries`), `SocialAccounts_proofs`, `AuthSessions_proofs`, `Access_proofs` (`Projects`, `ProjectAccess`, `UserAdmin`), `TokenRefresh_proofs` |

The modules meet where one hands over to the next. `PollingSchedule` and
`PollingWork` meet at the tick: `PollingSchedule` says which
schedulers exist, `PollingWork` lets a tick of any post and dimension arrive at
any time, also after its scheduler was removed, and lets the rows change under
it at any time. What holds there holds for every sequence of ticks and row
changes the schedules can produce. `PollingWork` meets `CommentSync` and
`SocialAccounts` at the run: `OneRunPerId` says when two runs of one poll can be
at work at once, `CommentSync` lets any number of workers be, and tells what the
store of comments owes to it (`peak`) and what does not depend on it, and
`AloneWhileLocked` (section 4) says when there is no such overlap: while no lock
expires under its worker;
`SocialAccounts` has the runs of several posts of one author side by side.
`ApifyRun` is what a Fetch of `PollingWork` or a LoadAndFetch of
`SocialAccounts` does when the adapter uses Apify: it answers with items or an
error, or dies with its process. `AuthSessions` and `UserAdmin` look at the same
user row from two sides: one account with its sessions, and all accounts with
their roles; what administrators write is an action without history in the
first and the subject of the second. `ProjectAccess` extends `Projects` with
the readers of its rows. `TokenRefresh` sees of `AuthSessions` what a client
can: a session that may end at any time, and tokens that expire.

### PollingSchedule

State. `status`, `deleted`, `interval` are columns of `campaign`; `row` and
`override` are the rows of `post` (`post.deleted_at` is only ever read by the
code, deletion is a `DELETE`, so a row is `unborn`, `live` or `gone`); `sched`
is the content of BullMQ's scheduler store, `sched[p][d]` the cron pattern under
id `CampaignOf[p]:p:d`. `req[h]` is a request handler: a promise suspended at an
await (`at`), the campaign it works on and exactly the values it has read and
will still use. Nothing else survives an await in the code.

Actions. One per stretch of code between two awaits.

| Code | Actions |
|---|---|
| `CampaignsService.changeStatus` | ChangeStatus, StatusRead, StatusWrite, then ListPosts (scheduleCampaign) or ListSchedulers (removeCampaign) |
| `CampaignsService.update` | UpdateCampaign, UpdateRead, UpdateWrite, then ListInherited |
| `CampaignsService.remove` | RemoveCampaign, RemoveRead, RemoveWrite, then ListSchedulers |
| `PostsService.addPost` | AddPost, AddRead, AddCommit, then LoadPost (schedulePost) |
| `PostsService.bulkUpload` | BulkUpload, BulkRead, BulkCommit, then ListPosts |
| `PostsService.updateSettings` | UpdateSettings, SettingsRead, SettingsWrite, then LoadPost |
| `PostsService.remove` | DeletePost, DeleteRead, DeleteLoad (removePost), the calls, DeleteRow |
| `applyDimension`, `Promise.all` | ApplyDimension, once per scheduler call, in any order; Applied, Purged when all have answered |
| a failing query, a failing Redis call, a restart | QueryFails, SchedulerCallFails, ApiRestarts |

Abstractions, and why they lose nothing the properties tell apart:

* A `findUnique` or `findMany` with nested selects is one read. An upsert or a
  removal of a scheduler is one atomic call (BullMQ runs it as a Lua script).
* A request that fails validation before it touches a row in scope (bad URL,
  missing role, bad date) is a request that did not start. The post ids of a
  request are nondeterministic; an id is used once, as a database id is. A
  duplicate (platform, platform post id) is the branch of AddCommit that creates
  nothing and the rows BulkCommit leaves out.
* `update` writes `undefined` intervals as null, so a request names both
  (`Settings`); `updateSettings` keeps a column left undefined, so a request
  names a subset of them (`Overrides`).
* A write that commits and then fails to answer is the write followed by
  QueryFails.
* A failing `Promise.all` rejects at once while the other calls are still on
  their way: SchedulerCallFails leaves them pending, and what would have
  followed (deleting the row) does not happen.
* The interval 0 ("manual") is the value `Manual`, null is `Unset`, and every
  interval with a cron pattern is a member of `Recurring`.

Three history variables, read by no guard of the system. `crowded` holds the
handlers that overlapped another handler of the same campaign; `disturbed` the
campaigns for which rows and schedulers may have come apart, by an overlap or
by a handler abandoned between its write and its last scheduler call; a purge
(deactivation or deletion) that nobody crowded takes the campaign out again.
`revived` holds the posts whose settings were edited after their campaign was
deleted. They let the properties say precisely what the code guarantees and
when, in place of a property that the code breaks under any overlap.

### PollingWork

State. `live` and `active` are the rows as this part reads them: the posts that
exist, and those whose campaign reads ACTIVE. `ask[a]` is a dispatch job or a
sync request suspended at an await, with the next call to make for each of its
dimensions; `job[id]` is the work job BullMQ holds under the stable id of
`workJobId` (`NoJob` when it holds none); `run[w]` is a slot of the scraper
processor, with the job it runs and whether it still holds the job's lock. A
slot is one unit of the processor's concurrency, in whichever process.

| Code | Actions |
|---|---|
| `PollingDispatchProcessor.process` | Tick, Load, GetJob, IsJobPending, Add, Answer |
| `PostsService.syncNow`, `triggerImmediate`, `enqueueManualPoll` | SyncNow, Load, then GetJob, IsJobPending, Add for each dimension side by side, Answer |
| `isJobPending` | GetJob, then one IsJobPending per probe, in the order the calls are sent over the one connection |
| `PollingRunner.process` | LoadPost, Fetch, Store |
| `workJobOptions` (attempts, removeOnComplete, removeOnFail) | Complete, Fail |
| `platformBackoffStrategy` | BackoffOver |
| BullMQ: handing out a job, its lock, the stalled check | Take, LockExpires, Stalled (external) |
| a failing query, a dying process | AskFails, AskerRestarts, WorkerCrashes, the failing branches of LoadPost and Store |
| rows written by other requests | DeletePost, ChangeStatus |

Abstractions. A scraped payload, the columns a poll writes and
`last_poll_status` are left out: no guard here reads them. The length of a
backoff is left out, a delayed job comes back at some time. A row update that
fails because the post is gone throws, as Prisma's `update` does, and so does
the update that would mark the poll failed; both leave the attempt failed. The
runner's early return for a post without a URL or of a paused campaign
completes the job. A job whose campaign is paused during the fetch stores its
result, as the code does.

`PollQueue` is the abstract view of one id: free, waiting or running, with the
number of starts it has left and the workers that hold it. The refinement reads
the phase off the state of the job, the holders off `run`, and counts as left
the attempts not made and the stalls not used up, less the start that is under
way. So a poll is started at most `Attempts + StallLimit` times for each ask
that was accepted, however attempts fail and workers die.

Two history variables: `owed` holds the polls that a sync accepted and no
worker began since, `begun` the dimensions whose poll began while the ask was
still in flight (a sync answered by such a poll is not owed another).

### CommentSync

State. The platform has a clock, `now`, and the date of every comment that has
appeared, `published`. `rows[c]` is the sequence of rows stored for a comment,
each given by the row of its parent (there should be one row, and no index of
the database says so). `run[w]` is a run of the comments branch suspended at an
await, with the cursor, the list still to save and the `idByPlatformCommentId`
map (`saved`).

| Code | Actions |
|---|---|
| `PollingRunner.process`, comments branch | Start, ReadNewest (the cursor), Fetch, Finish |
| `toRawComments` of the adapters | `Returned`, in Fetch |
| `persistComments`, `saveComment`, `findCommentId` | Find (the next comment, its row, its parent's row), then Update or Create |
| a failing query or scraper, the death of the process | Abandon |
| external: comments appear | Publish, Tick |

Abstractions. Two families of adapters differ in one thing: Facebook and
YouTube list replies beside their parents and filter each by its own date,
TikTok, Instagram and Threads nest them and filter the parents only (`Nested`).
Comments come in any order the scraper likes. Threads are one level deep.
`saveComment` of a reply asks for its parent's row and for its own in two
awaits; rows never go away, so one step stands for both. Texts and like counts
are left out, and so is `comment_count`, which the metrics branch overwrites.
Comments are taken to appear on the platform at their own date and to stay; the
limit of 500 results of the scrapers is not reached.

Two history variables: `peak`, the most runs that were ever at work at once, and
`lost`, the comments that were on the list of a run that died.

### SocialAccounts

State. `acct` and `prof` are the rows of `social_accounts` and `profiles` of one
platform; `known` tells an account under its real `platform_user_id` from one
under the id made up of its handle. `link[p]` is the row of
`social_account_posts` that links a post. `run[p]` is `ensureAuthorLinked`
suspended at an await, `job[x]` the account work job under the id of the
account, `req[r]` a deletion that has counted.

| Code | Actions |
|---|---|
| `PollingRunner.ensureAuthorLinked` | FindLink, FindAccount, CreateAccount (the nested create, or the conflict and its second look), EnqueueNew, CreateLink |
| `AccountPollingRunner.process` | LoadAndFetch, FindOwner, UpdateAccount |
| `AccountPollingService.enqueue`, `enqueueSafe` | `Enqueued`, in the actions that call it |
| `ProfilesService.create`, `linkAccount`, `moveAccount`, `pollAccount` | CreateProfile, LinkAccount, MoveAccount, PollAccount |
| `unlinkAccount`, `remove` | CountPosts, UnlinkAccount; CountAccounts, RemoveProfile |
| a failing statement of a run | RunFails |

Abstractions. `create`, `linkAccount` and `moveAccount` look before they write;
what they saw is checked again by the unique index and the foreign keys with
the write, so one step stands for both. `create` adds at most one account.
`last_poll_status`, avatars and the numbers of an account are left out.
`unlinkAccount` and `remove` are two steps each, since the database checks
nothing again: it cascades (`Drop`).

`prof[f]` remembers how a profile came to be, so that `NoStrayProfile` can tell
one left behind by a run from one a user emptied; `req[r].stale` remembers that
something was added to what a deletion had counted.

### ApifyRun and SpendLedger

State. `remote[c]` is the status of the Actor run at Apify, `call[c]` the local
variables of `runSync` at an await (`seen` is `run`), `row[c]` and `job[c]` the
recorded row and its refresh job, `answer[c]` what the caller got.

| Code | Actions |
|---|---|
| `runSync` | Start or Refused, Wait, DeadlinePasses, RunEnded, Check, FetchItems, Catch |
| `abortRun` | Abort: the abort works at once, later or not at all, and its reply may get lost |
| `ApifyRunRecorder.record` | CreateRow, Enqueue |
| `ApifyUsageRefresher.process` | GetRun, UpdateUsage, RefreshFails |
| Apify, the worker process | RemoteEnds, Crash (external) |

Abstractions. `FAILED` stands for FAILED, TIMED-OUT and ABORTED, which the code
treats alike but for the message; figures are left out. `record` sets its flag
before it writes, so the flag is part of the step that calls it. A crash ends
the call: the job of the poll runs anew with a run of its own.

`SpendLedger` is the abstract view: runs begin and end, are entered once and
finalised once, and callers are answered. The refinement maps a row to "none",
"preliminary" or "final" by `usage_finalized`.

### TimeSeries

State. `stored[t]` is what the rows a request's filters admit, dated at `t`, add
up to: a number of comments, or the dollars of runs. `page` is a request for a
chart with what it has so far.

`pickGranularity`, `bucketStart` and `zeroFillBuckets` are functions, with
`Grouped` for the query (`date_trunc`, the sum per bucket, the window in its
WHERE clause). Days are numbers and day 0 is a Monday, so that a week starts at
a multiple of seven; the code's `(getUTCDay() + 6) % 7` is the number of days
since. The reference definition is `TotalIn`, the sum over the window without
buckets.

| Code | Actions |
|---|---|
| `getCommentVolume` (campaign page) | GetCommentVolume: one query, no figure |
| `getSpending` (campaign page) | GetSpending (the figure: all runs of the campaign), GetSeries (those of the window) |
| `getOverview` (cost explorer) | GetSummary (the figure: the window), GetSeries |
| rows created by runs and comment polls | RowArrives |
| `ApifyRunRecorder.updateUsage` | AmountUpdated: higher, lower or none |
| the deletion of a post, `onDelete` of its comments and runs | RowLeaves |

Abstractions. Amounts are whole numbers; a null amount adds nothing. Two rows
of the same instant are one sum. The filters by platform, KOL and campaign are
what makes `stored` the rows of one request; a row that no longer passes them
(its run lost the post) has left. The tables beside the charts are queries of
their own that no property relates.

One history variable, `moved`: whether something was written between the two
queries of a page. There is no transaction around them.

### AuthSessions

State. The user row (`failed` is `failed_login_attempts`, `token` the reset
token in it), the session rows (`ready` once the hash replaced the placeholder,
`idle` once the idle timeout has passed), and `req[r]`, a handler at an await
with what it read before.

| Code | Actions |
|---|---|
| `login` | LoginRead, then WrongPassword and LockOut, or RightPassword, SetHash, Finish |
| `refreshToken` | RefreshRead, Touch or Expire; GoesIdle (time) |
| `logout`, `revokeSession`, `revokeAllOtherSessions`, `updateProfile` | SignOut |
| `changePassword` | ChangeRead, ChangeWrite, PurgeOthers |
| `forgotPassword`, `resetPassword` | ForgotRead, ForgotWrite; ResetRead, ResetWrite, Purge |
| `acceptInvitation` | AcceptRead, AcceptWrite |
| `disableUser`, `enableUser`, `removeUser` | Disable, Enable, Remove |
| a row that is gone, a failing statement, a restart | UpdateThrows, Fail |

Abstractions. Passwords are right or wrong; a token is a number. A transaction
is one step. `JwtStrategy.validate` is the guard `SignedIn` of the handlers that
need a session.

History. `user.epoch` counts the writes that revoke sessions and `born` is the
epoch of a session: a session of an earlier epoch is one that should have
ended. `spent` holds the tokens a password was set with, `guesses` the wrong
passwords since the counter was last zero, `torn` what a handler that died or
came late left undone: a lock-out, a purge, an account revived by a late
acceptance of its invitation.

### UserAdmin

State. Status and role of every user (`standing`, `globalRole`), and `asked[r]`,
a request of an administrator at an await. The module has no name in common with
`Projects`, so that `Access_proofs` and a reader can put the two side by side.
Ask is the guard (some other active administrator asks), Find `findUserOrThrow`,
EnsureNotLastAdmin the count, Write the update, deletion or transaction of the
four operations. Invite, Accept and LockOut are the other writers of the two
columns. `overtaken` records that a removal was written while another had its
count behind it, `lockedOut` that the lock-out of a login hit an administrator:
nothing in `login` spares the last one.

### Projects and ProjectAccess

State. `active` of one project, the status of its campaigns, `member` and
`direct`, the roles in `project_memberships` and `campaign_memberships`. A
request has checked and will write: one Check action per operation, and four
Write actions for the four kinds of rows. An operation that reads twice before
it writes does both in its Check, the reads being of rows no other step of it
depends on. RemoveUserMembership (administration) checks nothing of the
project. `raced` records that a request wrote while another was under way that
had checked what it wrote (`Conflict`).

`ProjectAccess` has one operator for each of the four guards, the three listings
and `campaigns/:id/me`, each translated from its own source. They are
evaluated in every state of `Projects`. Administrators pass all guards and are
left out; so is a membership of a user who is removed, which goes with him.

### TokenRefresh

State. `store` is the auth store of one tab, `call[r]` a request with the token
it carries and `_retry`, `isRefreshing` and the requests that are `queued` are
the variables of `client.ts`, `refresh` the call of `/auth/refresh-token`. The
server keeps `session`; `issued` and `expired` number access tokens.

| Code | Actions |
|---|---|
| request interceptor | Send |
| response interceptor | Receive; Refused: Enqueue, StartRefresh, or the error; Refreshed, NotRefreshed |
| `forceLogout` | `forceLogout`: toast, clear, leave the page |
| `nav-user.tsx`, `MyAccountPage`, `login.tsx` | Settle of the sign-out call or of a failed one (`Clears`), SignIn |
| storage event | SignedOutElsewhere |
| server and network | Serve, ServeRefresh, EndSession, Expire, Lose |

Abstractions. Leaving the page drops all script in memory: requests under way
are `gone`. Refresh tokens do not change and stand for their session; their
seven days are a session that ends. One tab; of another one only its sign-out is
seen.

## 3. Runs

| Run | Instance | Shows |
|---|---|---|
| `schedule_serial` | 1 campaign, 1 post, 2 dimensions, 2 patterns, 1 handler, failures | with one request at a time, the schedulers at rest are those the rows call for, for a post that inherits only one interval too; an abandoned request is repaired by the next deactivation |
| `schedule_overlap` | 1 campaign, 1 post, 2 handlers, failures, fairness | every interleaving of two requests: campaigns without overlap stay in step and on legal transitions, a deactivation alone repairs the rest (the schedulers of deleted posts included), a draft is never scheduled; a pattern the rows of an undisturbed campaign keep asking for reaches the scheduler store and stays |
| `work_drains` | 1 post, 1 dimension, 1 ask, 2 workers, 2 attempts, 1 stall, failures, fairness | two workers never run one poll while both hold its lock; `PollQueue` is implemented (no poll is accepted twice, held twice or started more often than its attempts and stalls allow); an id frees up, the retries of a deleted post run out, a paused post that nobody syncs falls silent, under any number of crashes, stalls and failed attempts |
| `work_syncs` | 1 post, 1 dimension, 2 asks, 1 worker, fairness, no failures | an accepted sync leads to a scrape begun after it was asked for, whatever dispatch or finishing job it races |
| `comments_overlap` | an undated comment with a dated reply and two dated comments, 2 workers, 2 instants, failures | replies hang on their parents; never more rows of a comment than runs were at work at once; the cursor passes over a comment only with a run that died or with a twin of the same date |
| `comments` | the same comments, 1 worker, 3 instants, failures, fairness | a comment that was not passed over in one of these two ways is stored in the end |
| `apify` | 1 call, 3 attempts, fairness; windows within 9 days, amounts up to 2 in all, days up to 2 | a run goes to the recorder once on every path, rows never tell a wrong outcome, the ledger is implemented with its liveness; three charts add up, and agree with the figure above them unless something was written between the queries |
| `sessions` | 2 requests, 2 sessions, limit 2, 2 revocations, 2 reset tokens | every interleaving of two requests on one account: revocation, the budget of wrong passwords, spent tokens |
| `projects` | 2 campaigns, 1 user, 2 roles, 2 requests; 3 users of the platform, 2 requests of administrators | archived projects are quiet and closed, direct members are outsiders, guards, listings and told roles agree; an active administrator is left unless a removal was written after another's count |
| `social` | 2 posts of 1 author, 2 accounts, 2 profiles, 1 deletion, 2 attempts, 1 failure, fairness | no stray profile, nothing lost unseen, account polls end, posts get linked |
| `signin` | 2 requests and a sign-out, 2 sessions, 1 expiry, fairness | one refresh with those that wait for it, every request settles, sign-outs have a cause |
| `claim_replies` | 1 worker, no failures | a statement of the documentation that the code does not keep (section 5) |

Bounds of `PollingSchedule`. Nothing is counted in this model, so no action
needs a bound: the state space is finite once the constants are. Two handlers
are enough for every race between two requests; three requests add states and
no new kind of pair. Two patterns let an old one be told from a new one; two
dimensions let a post inherit one of them. That a purge by prefix spares the
campaign next door, and every larger instance, is in the theorems of section 4.

Bounds of `PollingWork`. `Attempts` is 2 where the code has
`POLLING_JOB_ATTEMPTS = 3`: one attempt that is not the last and one that is.
`StallLimit` is 1, BullMQ's default. Ids do not interact except through the two
dimensions of one sync, so one post and one dimension give every race for an
id; two asks give a dispatch against a sync and a sync against a sync, two
workers a run beside one that lost its lock.

Bounds of `CommentSync`. The thread with an undated parent and a dated reply
takes every branch of the filter. The two dated comments beside it are what a
cursor can pass over, and what can make it: a run that fetched both may die
between them after storing the newer one (the older is then `lost`), and one of
them may appear in the second in which the other was fetched (a twin). With
either exception taken out of `CursorSkipsNone` or of `CommentsArrive`, TLC finds
the property violated in these instances; so both are reached. Two workers show
every overlap of two runs. Two workers, four comments and a date older than
another (`MaxTime` 2) are 5 million states, which is what the safety properties
get; the liveness of `comments` has one worker and a third instant (a cursor with
dates on both sides). Overlapping runs can only lose a comment in a way
`CursorSkipsNone` would show, and that one is checked, and proved, with them.
`claim_replies` has dated comments only.

Bounds of the others. `ApifyRun`: calls share nothing, so one is enough;
`Attempts` is the code's. `TimeSeries`: `DailyMaxDays` 2 for 90 and two ticks a
day bring both granularities and windows that start or end within a day and
within a week into the days from a Sunday afternoon to the Monday of the week
after next; the cost explorer asks for whole days, a campaign may start and end
at each of the seven instants of `CampaignDate`, which lie before, on and after
those Mondays and `Now`. `MaxTotal` 2 puts two amounts into one bucket or two,
lets one inside a window be rewritten or leave, and puts one outside of it.
`MCApifyRun` and `MCProjects` each join two systems without a common variable
and leave out their mixed behaviours. `AuthSessions`: `MaxFailed` 2 for 5, `MaxGuesses` 4 is one more than what `GuessBudget` allows,
`MaxEpoch` 2 and `MaxToken` 2 tell an old revocation or token from a new one;
rows are used up, so the instance may stop and deadlock is not checked there.
`UserAdmin`: two administrators and one more user, who may be invited, promoted
or locked. `Projects`: one user suffices, as no operation relates two; two
campaigns let one stand in the way of archiving. `SocialAccounts`: users leave
the rows that runs still need (`Spare`), and `MaxFailures` bounds the failing
statements. `TokenRefresh`: two sessions tell a late answer from the sign-in it
does not belong to; with one expiry the second token of a session outlives the
first. `Session` in both modules and `Account`, `Profile` hold rows used once.
`apify`, `projects`, `sessions`, `social` and `signin` may come to an end
(calls answered, everything deleted, sessions or users used up) and say so with
CHECK_DEADLOCK FALSE; the others check deadlock.

Symmetry is declared for `sessions` (requests, sessions), `projects` (requests,
campaigns, users, requests of administrators) and `comments_overlap` (workers,
the two dated comments nobody answers), which check no liveness and whose
models and properties treat these sets as sets.

Fairness of `PollingSchedule`. `FairSpec` assumes weak fairness of
`Continues(h)` for each handler: a promise whose call returned is resumed by
Node's event loop, and a call that does not fail returns. No fairness is assumed
of the arrival of requests or of failures. `EventuallyInStep` is about
campaigns that are not disturbed from some time on: the code retries nothing
after a failure, and promises nothing.

Fairness of `PollingWork`. Weak fairness of each ask and each run (the event
loop and calls that return), of the end of a backoff (BullMQ's delayed set is
served by time) and of the stalled check (a timer in every worker). Strong
fairness of Take for each id: workers are busy off and on, and BullMQ hands out
waiting jobs in order of arrival, so a waiting job is not passed over for ever.
No fairness of ticks, syncs, failures, crashes or row changes. `work_syncs` has no
failures because the code gives an accepted sync up after its last failed
attempt.

Fairness of `CommentSync`. Weak fairness of `Continues(w)`: a run that is not
abandoned goes on. Whether polls come and how many die is left open;
`CommentsArrive` and `RepliesArrive` suppose in their premise that some run
finishes again and again, which `PollingSchedule` and `PollingWork` promise for
the posts of an active campaign whose polls do not fail for ever.

Fairness of `ApifyRun`. Weak fairness of the steps of a call (every request has
a time limit of its own) and of the passing of its deadline. None of the run at
Apify: a caller is answered though the run never ends.

Fairness of `SocialAccounts`. Weak fairness of the runs of each post, that is of
its next poll as well as of the steps of one: the schedule polls a post again
and again (`EventuallyInStep`, `IdFreesUp`). Weak fairness of account jobs, as in
`PollingWork`. None of users and failures; `PostsGetLinked` supposes that
deletions stop.

Fairness of `TokenRefresh`. Weak fairness of the serving and receiving of each
request and of the refresh: a request is answered, or lost, and the browser
reports both. None of sign-ins, expiry or the end of sessions.

## 4. Proofs

### PollingSchedule

For any sets of campaigns, posts, dimensions, patterns and handlers, with and
without failures, from `PollingAssumption` and `FailureAssumption` alone:

* `TypeCorrect`: `Spec => []TypeOK`.
* `DraftsUnscheduled`: `Spec => []DraftNeverScheduled`, overlaps and failures
  included. The invariant alone is not inductive: a handler may be about to
  upsert on the word of a record it read earlier. `DraftInv` adds that every
  record a handler holds is coherent with the row (`Coherent`): whoever read a
  status other than DRAFT can rely on the campaign having left it for good,
  since no transition leads back to DRAFT (`NoNewDraft`).
* `SchedulesInStep`: `Spec => []InStepAtRest`. `InStepAtRest` says nothing while
  a handler is between two awaits, so the inductive invariant `IInv` has to say
  how far each handler has got. Besides `DraftInv` and `InStepAtRest` it holds
  three parts: `Alone`, handlers that met no other are the only ones of their
  campaign, and those that did mark it disturbed; `Calm(req[h])` for each
  handler of an undisturbed campaign, the record it read is still the row and
  what rows and schedulers lack is exactly its pending calls; `Purging(req[h])`
  for each handler nobody crowded, whatever schedulers are left are among those
  it still has to remove, which is why a purge repairs a disturbed campaign.
  A step works on one campaign and leaves the others alone (`Elsewhere`), so
  there is one lemma per handler about its own campaign, and a frame argument
  for the rest.
* `StatusLawful`: `Spec => LawfulTransitions`, from the same invariant.

### PollingWork

For any posts, dimensions, asks and workers, any number of attempts and any
stall limit, from `WorkAssumption` alone:

* `PollsExclusive`: `Spec => []OneRunPerId`. The inductive invariant adds
  `HoldersActive`: the job a worker holds the lock of is active, so Take, which
  wants a waiting job, never hands out a second lock (`LockPassedOn`), and no
  ask can replace it (`LockKept`).
* `WorkTypeCorrect`: `Spec => []TypeOK`, with the bounds on attempts and
  stalls. It needs the same invariant: an attempt is charged to the job the
  worker holds, which must therefore still be there.
* `QueueKept`: `Spec => KeepsQueue`, the refinement of `PollQueue`. Each step of
  an id maps to one of Accept, Start, Lose, Again or End, or to a stutter, and
  leaves every other id alone. The invariant gives Start (the worker holds
  nothing else, nobody holds the id) and the bound behind Again: a job that is
  not on its last attempt, or was not stalled too often, has starts left.
* `AloneWhileLocked`: `Spec /\ NoLockExpires => []RunsAlone`. As long as no lock
  expires under its worker, no two workers run the same poll, locked or not.
  `OneRunPerId` alone speaks only of those with a lock; this is what makes
  the `peak` of `CommentSync` 1 in that case.

### CommentSync

For any comments, threads of one level, dates and workers, from
`CommentAssumption` alone:

* `RepliesHang`: `Spec => []ThreadsIntact`. `ThreadInv` adds that a reply on a
  list comes after its parent (`ParentFirst`: the parent is on the list as well
  or has been saved), which the filter of the adapters establishes and the order
  of `persistComments` keeps.
* `RowsBounded`: `Spec => []RowsWithinPeak`. `PeakInv` counts: the runs at work
  are at most `peak`, and so are, for each comment, its rows together with the
  runs about to create one. A run gets into the second set only when it found no
  row, and then that set, itself among it, is all there is; when it creates, a
  row takes its place. Repetitions after a death find the row and add none.
* `CursorSafe`: `Spec => []CursorSkipsNone`. `CursorInv` adds that a cursor is
  the date of a stored comment, that what is stored or listed has been published
  and not in the future, and that each comment on a list is already a safe mark:
  nobody older than it is passed over (`ListSkipsNone`), so that storing it
  harms nobody. The step that matters is the fetch (`FetchMark`): whoever is
  older than what it returns was returned too, or is older than the cursor, or
  is as old.
* `CommentsTypeCorrect`: `Spec => []TypeOK`.

### ApifyRun

For any calls and attempts, from `AttemptsAssumption`:

* `ApifyTypeCorrect`, `RunsRecorded`, `RowsFaithful`: `TypeOK`,
  `KnownRunRecorded` and `RowsTellTheRun` are invariant. `CallInv` relates a call
  to its run: what it has read is not ahead of the run (a terminal status it has
  seen is the run's), it is recorded from the loop's exit on, and the number of
  entries is its flag. `RowInv` relates row and job: a job that is still to run
  has a row not yet final, and what it has read is not ahead of the run either.
* `LedgerKept`: `Spec => Ledger!Safety`, the refinement of `SpendLedger`. Init
  maps to Init; each step maps to one of Begin, End, Enter, Finalise or Answer,
  or to a stutter. The invariant is what makes Enter happen once, Finalise only
  of a preliminary entry, and items only of a run that succeeded. That callers
  are answered in the end (`KeepsLedger`) is left to TLC.

### TimeSeries

For any length of a day, any number of days and weeks, any limit of daily
points and any stored amounts, from the assumptions of the module (in
`ApifyRun_proofs`, since the two share their runs' rows and their TLC instance):

* `ChartsComplete`: `SeriesSpec => []ChartsAddUp`. The heart is `SeriesAddsUp`: the
  points add up to the amounts in the window. Every day of the window lies in
  exactly one bucket (`Buckets`, `BucketsCover`), by days and by weeks,
  `PointCounts` says that a point has what is in its bucket, and `PartsAddUp` that
  the sizes of disjoint finite parts add up to that of their union. A sum of
  amounts is brought to that form by `SumIsSize`: it is the size of the set of
  its units (`Units`, an amount of three is three of them). The sum is the fold
  of the community modules. Its value for a set with one more element
  (`SumUnfolds`) follows from the definition, and what needs induction is shown by
  the least counterexample (`LeastNatural`), since the induction theorems of the
  library are out of the provers' reach. `PageKept` ties the page to it: as long
  as nothing was written since, the figure is that of the amounts as they are,
  the window's or the whole campaign's, and the latter is not less (`SumGrows`).

### AuthSessions

For any limit, any sessions and tokens and any finite set of requests, from the
assumptions of the module:

* `SessionsTypeCorrect`: `Spec => []TypeOK`.
* `RevocationsHold`: `Spec => []RevocationHolds`. `Revoked` strengthens it: the
  purge that will end a session must not be one that keeps it (`Doomed`), since
  `changePassword` spares the session it was asked in.
* `TokensSpentOnce`: `Spec => []SpentTokenGone`.
* `GuessesLimited`: `Spec => []GuessBudget`. `Budget` counts: the counter in the
  row is the number of guesses, which together with the logins that may still
  spend one stays below the limit plus all requests; and while the account is
  active, every guess from the limit on has left a request about to lock it. So a
  login that starts now finds a request that is not guessing. The proof moves
  requests in and out of two finite sets and compares cardinalities (`Sizes`).

### Projects, ProjectAccess and UserAdmin

`Access_proofs` holds the three modules that say who may do what. For any users,
campaigns and requests, `NullAssumption` being that no status, role, campaign or
user is the value `None`:

* `ProjectsTypeCorrect`: `Spec => []TypeOK`.
* `ArchiveHolds`: `Spec => []ArchivedMeansDone`; `ArchiveFreezesMembers`:
  `Spec => MembersFrozen`; `DirectMembersAreOutsiders`: `Spec => DirectForOutsiders`.
  None is inductive, because a request decides in one step and writes in
  another. `IInv` carries over what it found: `ChecksHold`, as long as nobody
  raced, what a request checked is still so when it writes (an archiving still
  finds every campaign done, a status change or a new member an active project,
  a direct member no membership), and an archived project has no request under
  way that would create, resume, add or change a role (`Quiet`).
* `ListsMatchGuards`: `Spec => []ListedIsOpen`; `RolesAgree`:
  `Spec => []RoleToldIsRoleHeld`. These need no invariant: the guards, listings
  and the role that is told agree whatever is in the rows, that is, the eight
  spellings of the rule are equivalent as formulas. So they hold of every
  project, not only of those the operations lead to.
* `UsersTypeCorrect` and `AdministratorLeft`: `UsersTyped` and `AdminLeft` of
  `UserAdmin` are invariant, for any accounts and handlers. The invariant adds
  that a request past its count still has an active administrator besides its
  user, as long as nobody wrote in between.

### SocialAccounts

For any posts, authors, accounts, profiles and requests, any number of attempts
and failures, from the assumptions of the module:

* `SocialTypeCorrect`: `Spec => []TypeOK`, foreign keys included.
* `NoProfileStrays`: `Spec => []NoStrayProfile`. `RefersTo` says what the ids held
  outside the tables refer to: a run that is about to link knows its account, a
  deletion the row it counted for, which is never a new one. An automatic
  profile comes with its account in one statement, and what removes an account from an automatic profile is
  therefore a step of a user, which changes how the profile is remembered.
* `NothingIsLost`: `Spec => NothingLost`. `CountsHold` says that a deletion that is
  past its count and not `stale` still has nothing linked to what it deletes;
  `RowsKept`, that no other step makes a row go; `StaleEnds`, that only the
  deletion itself takes the mark away.

### TokenRefresh

For any requests, sessions and expiries, from `TokenAssumption`:
`TabTypeCorrect`; `OneRefresh`: `Spec => []WaitersHaveRefresher`;
`ThrownOutForCause`: `Spec => ForcedForCause`. `RefreshInv` adds that a refresh is of
a session that was opened, that one which was denied is of a session that is
over for good, and that nobody is signed in while the message stands.

Left to TLC: `EventuallyInStep`, `IdFreesUp`, `DeletedPostDrains`,
`PausedFallsSilent`, `AcceptedSyncPolls`, `CommentsArrive`, the liveness in
`KeepsLedger`, `PollsSettle`, `PostsGetLinked` and `RequestsSettle`, since liveness
under fairness is out of the prover's reach; and the claim, which is a
counterexample. Every other property that a run checks is a theorem. The type
invariants of `AuthSessions`, `UserAdmin`, `TokenRefresh` and `PollingWork` are
proved and in no run.

## 5. Where code and documentation disagree

* A reply that appears after its parent was stored is never stored, on any
  platform, though `yehub-be/docs/polling.md:108-110` has replies find parents
  that were stored in earlier runs (`RepliesArrive`, run `claim_replies`).

`CursorSkipsNone` states what else is passed over: comments that a run had fetched and
died with after it stored a newer one (the retry starts from the newer date),
and comments of the same second as the newest stored one.

The history variables of the models mark what the code leaves to chance; each
stands for a behaviour of the code that TLC produces when the variable is taken
out of the property, and which the property therefore does not catch:

* Two runs of one post that overlap store a comment twice; each overlap can add
  one row, and later polls update one of them (`polling-runner.service.ts`, no
  unique index; `peak` in `RowsWithinPeak`).
* The figure above a chart and its points may differ, in either direction, when a
  run is recorded or refreshed or a post is deleted between the two queries
  (`moved` in `ChartsAddUp`).
* Two status changes that both read ACTIVE: the later write wins, and a
  completed campaign is paused or active again (`campaigns.service.ts:607`,
  `crowded` in `LawfulTransitions`).
* A post added while its campaign is activated may belong to an active campaign
  and have no scheduler (`posts.service.ts:155`, `disturbed`).
* An accepted manual sync may do nothing: its job lost to a scheduled one under
  the same id, and the campaign was paused before a worker loaded the post
  (`polling-scheduler.service.ts:221`; `AcceptedSyncPolls` supposes that the
  campaign is not paused).
* Settings edited after a campaign was deleted while ACTIVE bring its schedulers
  back (`revived`).
* Two administrators who remove each other's role at once can leave none
  (`overtaken` in `UserAdmin`), and so can wrong passwords (`lockedOut`).
* An invitation accepted while the account is disabled makes it active
  (`"revived"` in `torn`); a login that had read the account before its lock-out
  creates its session after it.
* A project can be archived with a campaign that was created or resumed
  meanwhile (`raced` in `Projects`).
* An account can be deleted with a post that was linked after the count
  (`stale`).
* A refresh that is answered after the tab signed out puts an access token back
  into the store, and one that was asked for an earlier sign-in replaces the
  token of a newer one or ends it (`Refreshed`, `ForcedForCause`).

Seen while reading, and not part of a run: `removeUserMembership` takes users out
of archived projects where `removeMember` refuses; the membership design calls
direct membership "exclusively for external users", while a direct member who
joins the project keeps both rows; the comment above `ensureAuthorLinked`
promises that automatic accounts meet those added by hand, which holds for those
entered with their platform id and, for the others, only until the account poll
reports a conflict; `usage_finalized` can be set by a refresh that still reads a
run which has not ended; `docs/polling.md` section 5.3 speaks of exponential
backoff where `polling-backoff.ts` waits a flat ten minutes.

## 6. What is not modelled, and what is next

Not modelled:

* Reference data (categories, objectives, tiers, settings): one statement per
  operation; names are compared without case by the service and with case by the
  unique index, which is visible in one line and needs no model.
* Uploads and mail: calls to external services whose outcome nothing depends on.
* Frontend pages: forms, tables and charts; their only state is a cache of the
  API's answers, and every rule they show is decided again by the server
  (`ProjectAccess` covers the role they are told).
* Parsing of uploads and URLs, formatting, sorting, search and pages of
  listings, mapping of scraped payloads, the SQL of top lists: data of one
  request, without a second step to go wrong. They are most of the lines of the
  services that are listed as partly modelled.
* Demo, end-to-end tests, seed data, bootstrap and infrastructure.

Next, in this order:

1. An abstract module for the rows and schedulers of a campaign (in step, out of
   step, repaired) that `PollingSchedule` implements, with its simulation proved.
2. `PollingWork` and `CommentSync` in one module, so that `peak` is derived
   from the queue, and one row per comment follows from `RowsWithinPeak` and
   `AloneWhileLocked` as a theorem of the composition.
