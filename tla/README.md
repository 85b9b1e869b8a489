# Formal models of the Ziona server

This directory holds TLA+ models of the parts of the Ziona backend (Django, PostgreSQL, Redis,
Celery, Google Cloud Storage, Stripe) in which several requests, workers, crashes or outside
services meet, the TLC configurations that check them on small instances, and TLAPS proofs of
the properties that matter most, for every size of instance.

- Part 1 is the inventory of the system.
- Part 2 describes the modules: what their state and actions stand for in the code.
- Part 3 lists the runs, their bounds, and the fairness they assume.
- Part 4 says what is proved, from which assumptions and how.
- Part 5 lists the places where the code and its own documentation disagree.
- Part 6 is what is not modelled, and the plan.

`PROJECT.json` maps every definition to the source lines it stands for, and lists the hazards
of the code with the properties that cover them.

## How to run

    tlc -workers 2 -config Platform_safety.cfg MCPlatform     # a run: the cfg and its module
    tlapm AccountLifecycleProofs.tla                          # a proof module

The module of a run is the one named `MC...` for its system (`AccountLifecycle` needs none).
Definitions that a comment marks *Mutant* are plausible bugs in the definition that follows
them. No specification uses them; putting one in the place of its definition makes TLC report
the property that `PROJECT.json` pairs it with, which shows that the property has teeth.

---

## 1. Inventory

### 1.1 The processes

- **Web workers** (gunicorn) run requests in parallel; nothing but row locks, unique
  constraints and single Redis commands orders two requests of one user. A mutation is a
  transaction only where the code says so (`transaction.atomic`): elsewhere every statement
  commits by itself.
- **Celery workers** run tasks. Most are acknowledged before they run and are lost with their
  worker. Those of anchors are acknowledged late and are delivered again. Redis is the broker, so
  messages with an ETA live in the memory of workers and revocations do too.
- **Cron services** (`render.yaml`) enqueue periodic tasks through a single-flight lock
  (`enqueue_scheduled_task`): the anchor check, the account purge, the anchor purge, the media
  cleanup, the token cleanup, digests.
- **Outside**: Stripe delivers webhooks until they are answered with success, in any order and
  more than once; the storage bucket is outside every transaction; mobile clients retry.

### 1.2 Components

| Component | State | Operations | Module |
|---|---|---|---|
| **Sessions and tokens** (`authentication/tokens.py`, `services.py`, `password_service.py`) | one Redis key per refresh token, a blacklist of access tokens, `users.token_invalid_before` | login, refresh (rotation with a grace period), logout, logout from all devices, password change and resets, cleanup | `Sessions` |
| **Account lifecycle** (`account_actions.py`, `admin_dashboard/user_services.py`, `users/tasks.py`) | columns of the users row; the deletion request; the files | deactivate, reactivate, delete, cancel; warn, suspend, delete, restore, delete for good; purge of due deletions | `AccountLifecycle`, `DeletionPromise` |
| **One-time codes** (`otp_service.py`, `password_service.py`) | Redis: code, attempts, resends, cooldown, reset tokens, each with its own lifetime | send, resend, verify, use for reset or password change | `Otp` |
| **Sign-up and sign-in with providers** (`services.py`, `oauth_service.py`, `otp_service.py`) | users rows, identities, codes | register, replace an unverified sign-up, verify, link, create, add or reset a password | `Registration` |
| **Usernames** (`users/services.py`, `username_policy.py`) | users rows, `UsernameReservation` | choose, change, give up, delete, expire | `Usernames` |
| **Rate limits** (`shared/redis_lua.py`) | Redis sorted sets, cooldowns | check a call, check a change of mind | `Limits` |
| **Support** (`admin_dashboard/help_conversations.py`, `contact_services.py`, `landing/`) | conversations, messages | submit, send, reply, decide, poll | `Support` |
| **Scripture** (`scripture/importer.py`, `services.py`) | verses, books, two locks, a cache | import, resume, fetch on demand | `Scripture` |
| **Donations** (`donations/`) | donation, subscription, payment ledger, numbers of early supporters, ledger of events | checkout, the events of Stripe, cancellation by an administrator | `StripeWebhooks` |
| **Anchors** (`circles/anchor_services.py`, `admin_dashboard/anchor_services.py`, `tasks.py`) | row of the anchor, task ids, broker queue | create, schedule, reschedule, cancel, send now, post, expire, hide, restore, purge | `Anchors` |
| **Media and previews** (`media/`) | row of the upload, object in the bucket, content that refers to it; the thumbnail of an anchor | sign URL, upload, confirm, verify, optimize, finalize, use, clean up; give, resolve, synchronise, generate, backfill | `MediaUploads`, `Previews` |
| **Circles and their content** (`circles/`, `admin_dashboard/circle_*`) | circles, members, rows with denormalised counts, reports | create, join, leave; write, mark, delete, report, hide, review, restore | `Circles`, `CircleContent` |
| **Community moderation** (`moderation/`, `admin_dashboard/moderation_services.py`) | posts, comments, reports | comment, report, hide automatically, review on the dashboard or through the API, restore | `Community` |
| **Notifications and push** (`notifications/`) | notifications, batches in Redis, device tokens | fan out, gather, digest, page, mute; register, trim, push | `Notifications`, `DeviceTokens` |
| **Engagement, follows** (`engagement/`, `follows/`) | saves, folders, follows, hidden content and its cache | save, create and delete folders, follow, hide, take back | `Social`, `Hiding` |
| **Feed** (`feed/`) | cursors, the served history of a user | a page of each feed | `Feed` |
| **Lists** (all paginated queries) | cursors | a page of each list | `Lists` |
| **Scheduled tasks, mail, analytics, profiles, GraphQL types, settings** | locks, templates, queries | mostly queries and formatting | see part 6 |

### 1.3 What is hard, and what makes each part correct

- **Sessions.** A rotation is six separate accesses to Redis, PostgreSQL and the clock. Two
  rotations of one token, a logout or a revocation can come between any two of them, and in
  non-strict mode Redis may fail at each while the request goes on. *Correct:* what was revoked
  stays revoked, what is signed after a revocation is not caught by it, a replay is answered
  within its own session.
- **Account lifecycle.** Ten operations write three columns that must agree; the purge is
  not one transaction (it deletes files first), may fail or die at every step and is claimed,
  counted and reclaimed; it locks two rows in the order opposite to a cancellation. *Correct:*
  the columns agree; an account is purged only when its owner let the window pass; nothing that
  can come back has lost its files; attempts are bounded and exclusive; due deletions end.
- **One-time codes.** Check-then-act over several keys with different lifetimes. *Correct:* a
  code succeeds once, an old one never, attempts and resends are limited, a code in the mail
  is not lost.
- **Sign-up.** A sign-up that nobody proved may be replaced by anybody, while its owner proves the
  address or signs in with a provider, in statements that commit one by one. *Correct:* a password
  typed at sign-up opens no account whose address was proved by other means.
- **Usernames, limits, support, scripture.** Names looked for before they are taken; scripts run
  in another order than the times they carry; messages sent again; imports cut off and resumed.
  *Correct:* names are kept for who gave them up, no window holds too many calls, polls miss
  nothing, imports leave no gap but where a server answered without verses.
- **Donations.** Events out of order, twice, in parallel, with crashes between a commit and the
  mark that it happened. *Correct:* the state agrees with Stripe once everything is
  delivered; one confirmation; distinct numbers of early supporters.
- **Anchors.** The message that posts an anchor outlives its schedule; a revocation is best
  effort; the manager of anchors hides those of a creator who is away, from tasks too. *Correct:* members are told once, an anchor is posted at its time, expires after its
  time, and is posted in the end while its creator is there.
- **Media and previews.** No operation locks the row; every step saves a status it read earlier,
  next to a cleanup that deletes objects; a thumbnail is made of what the anchor was. *Correct:*
  what is ready has its object, what is used is spared, what ended stays ended, everything ends; a
  preview is one of the media its anchor has.
- **Circle content and community.** Counts kept next to what they count, reports that read without
  a lock, reviews that lock each other's reports, a deletion that does not say whose it was.
  *Correct:* counts agree, what enough people reported is hidden and nothing else is, lists show
  nothing that is hidden, what a review decided stands.
- **Notifications, tokens, hiding, saves, follows.** Looked for before they are added, with no
  constraint behind it; tasks that fail in the middle and start again; a cache that is filled from
  rows read before. *Correct:* each is told once, limits hold, stale answers end, nothing saved is lost.
- **Feed and lists.** The next page is computed from a cursor while rows come, go and change
  their rank. *Correct:* who reads to the end has seen everything once.

---

## 2. Modules

| Module | Stands for |
|---|---|
| `Sessions`, `MCSessions` | the token service and the requests that use it, for one user |
| `AccountLifecycle` | accounts, owners, administrators, purge workers |
| `DeletionPromise` | the abstract specification that `AccountLifecycle` implements |
| `Anchors`, `MCAnchors` | the anchors of one circle, Celery and the broker |
| `Otp`, `Registration`, `Usernames`, `Limits`, `Support`, `Scripture` | what precedes a session, and what shares no state with it; composed in `MCAccounts` |
| `Circles`, `CircleContent` | circles and what is in them (`CircleContent` extends `Circles`) |
| `Notifications`, `DeviceTokens`, `Community`, `Social`, `Hiding`, `Feed`, `Lists` | what users see, save and report |
| `MediaUploads`, `Previews` | uploads, bucket, tasks and cleanup; thumbnails of anchors |
| `StripeWebhooks`, `MCStripeWebhooks` | donations, the events of Stripe, the webhook workers |
| `MCPlatform`, `MCAccounts` | compositions of instances of the above |
| `SessionsProofs`, `AccountLifecycleProofs`, `AnchorsProofs`, `StripeWebhooksProofs`, `MediaUploadsProofs`, `NotificationsProofs` | theorems about the module of the name; those of `DeletionPromise` are in `AccountLifecycleProofs` |
| `AccountsProofs` | theorems about `Registration`, `Support`, `Otp`, `Usernames`, `Scripture` and `Limits`, a part for each |
| `PlatformProofs` | theorems about `Community`, `Social`, `DeviceTokens`, `Previews`, `Lists`, `Circles` with `CircleContent`, and `Hiding`, a part for each |

Conventions. A *request* is a process with a record that holds its step (`pc`) and its local
variables; one step is what the code does at once for the others to see: a statement that
commits, a Redis command, a transaction on a locked row. `Init` of most modules picks
circumstances such as "strict Redis" or "requests overlap" (`setup`, `scope`, `part`, `plan`), so that
one run covers several of them and a property can say under which it holds. Variables marked
*history* are read by properties only. Many of them name an excuse: `raced`, `crossed`, `twins`,
`rushed`, `overlapped`, `crowded`, `merged` are set by the very interleaving that breaks the promise,
so the property says what holds in every behaviour in which that did not happen, and the hazards
of `PROJECT.json` say what happens otherwise.

`MCPlatform` and `MCAccounts` compose components that share no state: they extend those that
theorems are about, so that a run and a theorem speak of one definition, and `MCPlatform` instantiates
the one that has none, `Feed`. A `focus`, fixed from the start, says which of them moves; the others stay in one initial state. The run explores the sum
of their state spaces instead of the product, and asks all their questions at once.

### 2.1 Sessions

One account; a pair of JWTs is named after the request that signs it. `key[p]` is
`refresh:{uid}:{jti}` (absent, valid, in rotation grace, or inactive), `cached[p]` the pair that a
key in grace answers with, `iat[t]` the `iat_us` claim, `cutoff` the column
`token_invalid_before`, `blacklist` the blacklisted access tokens. One step is one access to
Redis, to the users row or to the clock. A read of the clock may return the microsecond of the read
before (`Readings`); signing takes the later of the stamp and `cutoff + 1`
(`_issued_at_us_after_user_cutoff`), which may lie ahead of the clock. Nothing orders two
revocations: each stamps (`RevokeNow`) and writes its stamp later, whatever the row holds
(`RevokeCommit`). `Mixes` says which operations run together, `LoggedIn` whose logins are over at the start.
The histories say what a committed revocation was to end (`revoked`), which of it had a microsecond of its
own (`alone`), which stamp was committed last and which is the newest, and whether an older one ever replaced a later one.

The steps follow `validate_refresh_token` (get, cutoff check, drop of what is inactive),
`rotate_refresh_token` (get again, read the old key, blacklist, sign access, sign refresh, store,
write grace), `logout` (delete the key, blacklist), `revoke_all_user_tokens` (stamp, commit the
cutoff, scan, delete), the three ways to set a password, and the cleanup. Every Redis call of an
`Unlucky` request may raise; `StrictRedis` decides whether that ends the request.

### 2.2 AccountLifecycle and DeletionPromise

`account[u]` is the users row and the deletion request: the columns, the storage (`files`),
`due` (the recovery window is over), `stale` (the claim is an hour old), `retries`, `attempts`
(history) and `reported`. Every operation of an owner or an administrator runs in one
transaction on the locked row and is one action; `AvailableActions` is `_available_actions`.
`cancel_account_deletion` takes two steps because it locks two rows, and so does the purge, in
the other order: `cancelling` is the set of accounts whose row a cancellation holds. A worker
goes through claim, unlocked read, deletion of the files, lock of the request, lock of the row
with the purge itself, or through the record of a failure and its report; it may raise (`Fail`)
or be killed (`Die`) at any of them. `AbortDeadlock` is PostgreSQL choosing either victim.

`DeletionPromise` has no requests, workers, claims, retries, or locks: an account is kept, waits
for its deletion, is due, is being deleted, is deleted; it is open or closed, and its files are
there or not. A deletion for good by an administrator may fail with the files gone (`FailToRemove`;
finding 2): nothing else costs an account that is kept its files. `AccountLifecycle!Promise` instantiates it with `Phase` (from whether
the account is anonymized, the status of the request and its due date), `CanAuthenticate`, and `files`.

### 2.3 Otp

`otp`, `attempts`, `resends`, `cooldown`, `tokens` are Redis keys; codes are numbered in the
order in which they are generated, so that "the newer code" can be said. One step is one command
or pipeline, before which Redis may raise. The unified flow (`unified_send_otp`,
`unified_verify_otp`), account actions, password change, the older email verification and the
older one-step reset differ in what they check, count and clear, and are separate
operations. Each key expires on its own. `wrong` and `delivered` count, next to the counters of Redis, what
the limits are about: answers of the flows that count attempts, and codes of the flows that limit
them which the user was told are sent. The older resend counts after it has sent (`IncrResends`, `IncrResendsFails`):
if that fails under strict Redis, a code is out that nothing counted, and the answer is an error. The purposes of the
older flow and of the unified one differ, and so do their counters; no setup has both.

### 2.4 StripeWebhooks

Stripe's side (`session`, `plan`, `invoice`, `events`) emits events; the server's side is the six
tables and the workers. A handler is one transaction in steps that matter to other handlers:
it reads the donation without a lock, makes its first write (the row lock), reads what else it
needs, commits; then marks the event processed, and only then is the event gone. A crash or
deadlock in between leaves it to be delivered again. `CancelSubscription` of an administrator
calls Stripe inside its transaction. `Normalized` is what `_upsert_subscription` makes of Stripe's
status: the two spellings of cancelled, and `incomplete` for a status it does not know. Of the
statuses that the code does know, the unpaid and the trialing are left out: it only copies them.

### 2.5 Anchors

`row[a]` is the row (status, time due, published, expiry, id of the task that will post it),
`queue` the messages of the broker with their ETA, `revoked` the ids that workers remember as
revoked, `worker` what a worker still has to do after its transaction (tell the members, send
the expiry). An operation that locks a row is one step; what it sends to the broker stays sent
if its transaction rolls back. `Restart` loses what workers hold in memory. With a setup that is
not `failing`, transactions commit, revocations work, and messages are run once and in time.
`away` are the anchors whose creator's account is not active. The dashboard, the tasks, the check, the
purge and the test for overlaps go through `ActiveCreatorContentManager` and do not see them (`Seen`):
a post message or an expiry that comes meanwhile is acknowledged and does nothing. Moderators take
down and restore such anchors, and the purge of the creator's account takes them down and makes them nobody's.

### 2.6 MediaUploads

`upload` is the row, `stored` the object (original or optimized), `held` and `posted` the
content that refers to the upload by URL or by id, `stale` whether the row has not been saved
for `MEDIA_STALE_UPLOAD_MINUTES`. Requests confirm, upload directly or post; tasks form the chain
process, optimize, thumbnail, finalize; the cleanup selects a batch, resolves references
once, and then deletes or marks one by one (`Sweep`). The thumbnail is a stage of the chain but
its file is left out.

### 2.7 Registration and Usernames

`Registration`: `row[a]` is a users row (address, verified, whether it has a password, the identities
linked to it). A request reads, then writes only the columns it names, statement by statement,
on what it read first: a sign-up (`Register`, `ReplaceUnverified`, `CreateUser`, `SendOtp`), a verification, a
reset, an added password, a sign-in with a provider (`SignInWith`, `LinkAccount`, `CreateWithIdentity` and
the second save of the new row with all its columns, `SaveCreated`). `typed` is the history of rows whose
password was typed at a sign-up that the address's owner has not proved by its own code.

`Usernames`: `user[u]` holds the name in its spelling, the time of the last change and how many were
made in the first days; `claim[n]` the reservations of a name. A change holds the lock of its row from
look-up to commit, a sign-up does not. `given` and `early` say who gave a name up and who took it meanwhile.

### 2.8 Limits, Support, Scripture

`Limits`: a bucket is the sorted set of a Redis key; `CheckRateLimit(now)` and `CheckSpam(p, now)` are
the two Lua scripts, each one step, run with a clock reading that is up to `MaxLag` old. The
members of a set are named by their time, so two calls of one microsecond are one member (`merged`).

`Support`: the transaction of whoever writes holds the row of the conversation, and what it adds
is seen at its commit, with the time at which it was created. `Poll` reads one page after the cursor.

`Scripture`: one book that servers know under one of two names; an import goes translation by
translation, chapter by chapter (`NextTranslation`, `BeginBook`, `DeleteLatest`, `FetchChapterData`,
`SaveVersesBulk`, `EndOfBook`), may be cut off anywhere, and is resumed from the latest chapter. An answer
without verses (no `data`, or only verses that do not parse) counts as a chapter and leaves a gap that no resume
fills (`PassOver`); the history `blank` remembers such chapters until one is saved. Readers of a text
that is not imported take turns through a lock that expires.

### 2.9 Circles and CircleContent

`content[t]` is the row of a post, comment or response, `comments` and `counted` the denormalised
counts, `marks` the rows of likes, prayers and reactions. Authors and those who mark hold the
row, so each of their operations is a step. `ReportCircleContent` reads and `CommitReport` writes; `OpenReview`
locks one report, and `CommitReview` waits for reviews that hold another pending one (`AwaitsReview`); of two that wait for
each other the database aborts one. `hiddenRows[u]` are the rows that hide from a member what the member reported, of
which the newest `KeepsHidden` are kept (`Hides`); who reports again (`ReportAgain`) gets the old report and a new row.
`FeedOfCircle`, `CommentsOfPost`, `AnchorResponses` and
`ResponseReplies` are what the four queries show. Histories: `restored` is the content that a review
put back, `decided` what the last review of each target decided, `since` what was hidden from a member after each target was.

### 2.10 Notifications, DeviceTokens

`Notifications` has four parts that meet in the rows: the fan-out task (retried from the first member,
lost with its worker), likes gathered for five minutes (set in Redis, then the rows read, then
written), the digest (fetch, queue, mark), and a recipient who pages. `Insert` is `create_notification`
with its look for a duplicate within the hour. What a recipient who pages is owed (`page.owed`, history)
is what was visible at the start and was not muted since.

`DeviceTokens`: a registration locks the rows its query found, in the order of their keys, looks
again at each it waited for, adds or updates the token, and trims what it sees beyond the limit. Rows
that another deletes drop out of what it is to lock or delete, even if the token is added again.

### 2.11 Community, Social, Hiding

`Community`: reports file, hide, count and take down statement by statement; the dashboard decides in one
transaction on the locked report, the API in two statements without. `Social`: two requests of a
user look for folders and create, save, empty and delete them; follow, and tell the other.
`Hiding`: rows in order, a set in Redis with its sentinel (`cache = {}` means that there is none), and every
command to Redis may fail. A request that marks a target adds it to the set and gives the set its lifetime by two
commands (`MarkHidden`, `SetLifetime`): `lifetime` is `due` between them and `lost` once the second failed for a set
that had none, and such a set does not expire (`SetExpires`) until a later request gives it a lifetime; a set that is
filled from the rows gets both by one transaction (`WarmCache`). A row has an id (`rowsMade` numbers them): a trim deletes the rows it has
listed by their ids, so a target that was hidden anew in the meantime keeps its new row.

### 2.12 Feed and Lists

`Feed`: a page is read in one step (`ReadPage`: history, streams, assembly) and recorded and answered in
another (`AnswerPage`), so that two devices overlap. `AssemblePage` puts a page together from what
waits and what is next so that neighbours differ; `Blend` mixes discovery and followed creators; the cursor carries
the position in each stream and the posts that wait. Scores are numbers times a factor that the session draws.

`Lists`: 22 lists, each with its order, what its cursor names (a row, a checked row, a time, a number) and
whether rows are erased. Everything else about them is the same.

### 2.13 Previews

`anchor` is the row with its three media fields and its thumbnail, `edit` the transaction that holds
it, `maker` what a task has read. Updates of tasks join the creator, so PostgreSQL chooses their row
before it waits for the lock; `mishaps` records when that made a difference, and what got lost.

---

## 3. What is checked

### 3.1 Runs

| Run | Instance | Distinct states | What it shows |
|---|---|---|---|
| `Sessions_safety` | an open session and up to 3 requests at once in ten mixes, 2 microseconds; Redis strict and not, reuse revoking and not, failing anywhere in one request | 2.5 million | four properties of sessions |
| `AccountLifecycle_accounts` | 2 accounts, 2 workers, 1 retry, batches of 2, an administrator's deletion that may fail, fairness | 201,000 | columns, exclusivity, `KeepsThePromise` (the refinement), liveness, and that a run of two requests that is killed strands only the one in flight |
| `Anchors_lives` | 1 or 2 anchors, 2 workers, times 0..2 or 0..4, 3 setups, fairness | 958,000 | told once, on time, in the end, with creators who go away and return |
| `Accounts_safety` | `codes` 1.98 million, `sign-up` 80,000, `names` 61,000, `scripture` 783,000, `support` 62,000, `limits` 226,000 | 3.19 million | what precedes a session |
| `Platform_safety` | `content` 230,000, `notifications` 192,000, `tokens` 191,000, `donations` 550,000, `lists` 26,000, `community` 137,000, `social` 56,000, `feed` 51,000, `previews` 297,000 | 1.73 million | what users see, save, report, pay |
| `Platform_progress` | `media` 7,300, `hiding` 27,000, fairness | 34,000 | what must come to an end does |
| `Sessions_password` | an open session, refresh, password change | | finding 1 |
| `Sessions_revocations` | two resets and a login between them | | finding 5 |
| `AccountLifecycle_restore` | 1 account, failing permanent deletion | | finding 2 |
| `StripeWebhooks_ledger` | 1 subscription, events in any order | | finding 3 |
| `Anchors_purge` | 1 anchor, long wait | | finding 4 |
| `Platform_feed` | 5 posts, 2 sessions of a user | | finding 6 |

The properties of a composite run are conjunctions of the properties of its components; a conjunct
about a component that does not move holds in its initial state. Under which circumstances a
property holds is part of its statement:

- `RevocationIsFinal` (Sessions) holds whenever the last revocation to commit is the newest, and for
  revocations that do not share their microsecond with the newest committed one; `RevokedPairsOpenNothing` as
  long as no older stamp has replaced a later one. Finding 5 is what happens otherwise.
  `FreshTokensOutliveTheCutoff` and `ReplaysStayInTheSession` hold in every behaviour.
- `CodesAreUsedOnce`, `SentCodesStayUsable` (Otp) hold for requests of a user that come one by
  one; `CodeLimitsHold`, with `CodesAreUsedOnce` a part of `CodesHold`, also needs strict Redis, because otherwise a failed
  increment is ignored, and is about the flows that limit: the first code of a verification and the older reset
  are sent without a limit, and a resend that answers with an error is not counted though its code is out.
  `ReplacedCodesAreRejected` holds for overlapping requests, too.
- `SubscriptionsAreReconciled` (StripeWebhooks) needs the events of a donation in order;
  `CheckoutsAreReconciled` holds in any order and with overlap. That numbers are distinct
  and within the limit (`EarlyNumbersAreDistinct`) does too; that none is given out in vain, and that
  confirmations are sent once (`ConfirmedOnce`), needs handlers that do not overlap.
- `PostedWhenScheduled`, `ExpiresAfterItsTime` (Anchors) hold while nothing fails;
  `ToldOnce` and `ScheduledIsPosted` hold whatever fails. `ScheduledIsPosted` asks nothing while the
  creator is away, and starts again when the creator returns. That what is posted expires in the end
  is not claimed: an expiry that comes while the creator is away is lost.
- `ReadyIsUsable`, `EndedIsFinal` (MediaUploads) hold while an upload is confirmed by one request
  at a time and no task or client is at work on an upload that is already stale;
  `CleanupSparesWhatIsUsed` needs the latter only for what content holds by its URL;
  `EveryUploadEnds` needs neither (`UploadsEnd` is `EveryUploadEnds` and `EndedIsFinal`). What a post
  holds by its id the cleanup does not look for (`PostMediaThrough` is not among its `_REFERENCING_FIELDS`), and spares only
  because it is ready. With three requests and an upload that is confirmed twice this fails: the slower
  confirmation saves "processing" over "ready" after the post was made and dies, the row gets stale, and
  the cleanup deletes the object of the post. `CleanupSparesWhatIsUsed` therefore leaves out what is
  only posted when an upload is confirmed twice at a time.
- The properties of AccountLifecycle assume `TimeLimitHolds`: the task is killed after 300
  seconds, long before its claim is an hour old.
- `SignupPasswordsAreProved` (Registration) and `ChangesAreLimited` (Usernames) hold however requests
  overlap; `ReleasedNamesAreKeptUnlessRaced` unless a name changes hands under a request.
- `CountsAreExactUnlessRaced` (CircleContent) holds while no report or review decides on a state that
  changed since it read it, and no account is torn down: `user_teardown.py` leaves counts alone.
- `LikesAreGathered`, a part of `NotificationsAreExact` (Notifications), needs likes of a post that do not overlap, `LimitHolds`
  (DeviceTokens) registrations that find a row in common, `LookingSuffices` (Social) requests that do not look
  for the same thing at a time; `FanoutReachesEachOnce`, `PagesMissNothing`, `SavesAreKept` and
  `AutoHideIsExact` hold in every interleaving, the last for reports whose request does not die.
- `ShowsNothingHidden` (CircleContent) is about what a member reported until as many other targets were hidden from the
  member as rows are kept (1,000; 1 in the run): then the row of the report is gone, and the content is
  shown to the member again. `DecisionsStand` leaves out, where content was to be kept, reviews that decided on what
  had changed since they read it, and behaviours in which an account is torn down, with its reports.
- `NewestStayHidden` (Hiding) needs a viewer who takes nothing back, and no request that
  lists its overflow after another trimmed; that answers catch up with the rows
  (`AnswersCatchUp`) needs neither, but a set with a lifetime: one that was left without (`lost`) answers
  as it is until a request gives it one, which need not happen. `StaleAnswersEnd` is both.
- `PagesAreExact` (Lists) holds for a cursor that names a row always, for a time if no two rows share
  it, for a number if moreover nothing changes: the dashboard's lists, the circle feed and the
  comments of a circle repeat and skip rows.
- `SessionsAreExact` (Feed) leaves out posts that another session of the user showed again (finding 6).
- `PreviewsAreOfTheirMedia`, `NoPreviewIsMissing` (Previews) leave out what `mishaps` names.
- `ImportsAreWhole` (Scripture) leaves out imports that overlap and chapters whose last answer had no verses, and expects all that is on offer from none
  that resumed a book known under its other name; `SpansAreLimited` (Limits) grants the lag of the workers' clocks.

What holds in one of these circumstances and fails outside it is a hazard of the code; each is
in the list of hazards with its line.

### 3.2 Why the bounds are enough

- **Sessions**: the hazards are races of two or three requests over an open session: a rotation in
  flight, a revocation that deletes its key before the grace value is written over it, and a third
  request that presents the old token; or two revocations and a login between them, in one microsecond
  or two, committed in either order. The theorems cover any number of requests and microseconds.
- **AccountLifecycle**: accounts share nothing but the batch of a run; two workers race for one account
  and a batch of both shows which of its requests a killed run strands. One retry has a first failure, a
  retry, and the failure after the last one; the theorems cover any limit.
- **Otp**: four requests exceed limits of two by two: the limit, the first refusal and what
  follows it happen.
- **StripeWebhooks**: a limit of one early supporter with two supporters makes the counter
  run out; two invoices let a renewal overtake the first one; two handlers overlap pairwise.
- **Anchors**: with a duration of 1 and the instants 0..4 an anchor can be scheduled, posted,
  expire, be scheduled again and posted a second time (`MaxPosts` 2) while messages of its first
  life are still in the queue. Creators come and go as often as they like; of two anchors
  one has a creator who does.
- **MediaUploads**: uploads share nothing but the batch of the cleanup, and the properties are
  about one upload each. Two requests confirm at once or confirm and post; the theorems of 4.11 hold for any number.
- **CircleContent, Community**: hiding at two reporters instead of three, with two members (three in
  Community), has the report that reaches the threshold, one after it, and a race of the two; two comments of
  one post tell a count that is off from one that is right by chance; two reviews deadlock. One row of what is
  hidden is kept, so the second target that a member reports crowds out the first.
- **Notifications**: pages of one row with three rows have a first, a middle and a last page, between which a sender is muted and unmuted; one retry
  repeats every member; one cut of the digest repeats a queued one. **DeviceTokens**: a limit of two,
  three tokens and three requests make each trim what another adds; three first registrations of a
  user run past each other and exceed it, and one of another user takes a token away.
- **Hiding**: a limit of two and four targets overflow twice; **Social**: two requests are what
  races, three folders let each of them create one and the default come too.
- **Lists**: three rows in pages of one, all orders of equal and different times, two changes while
  reading: the cursor's row can go, come back or be replaced by a new one; the theorems of 4.18 hold for any number.
- **Feed**: five posts of two authors and two types in pages of three make posts wait, be carried over a
  page and come back; two sessions overlap, and a session can grow too old.
- **Previews**: two media and two workers: a task can work on the old media while the new one is
  announced. **Registration**: three rows and five requests, two at a time, let a sign-up be
  replaced while it is proved, linked, and replaced again. **Usernames**: two users exchange a name
  within and beyond the time it is kept. **Limits**: five calls exceed a limit of two twice within
  a window of three instants, two of which remain when a lag of one is granted. **Support**: two writers and a poll in pages of one. **Scripture**: three
  chapters have a first, one in the middle and a last; two imports or three readers overlap.

`CHECK_DEADLOCK FALSE` is set where the modelled world ends: requests that run once, a clock
that stops, changes that are counted. `Sessions` (with `Quiescent`, which stutters when everything is done) and
`AccountLifecycle` are checked for deadlock. Deadlocks of the database are actions of the models.

### 3.3 Fairness

Liveness is checked where the system has something that must end and a process that ends it; the
other components answer a request or do not.

- **AccountLifecycle** (`FairSpec`): time passes and cancellations and the database's deadlock
  detection proceed (weak); the cron starts and ends runs (weak); a run gets its claim and the
  locks it asks for infinitely often (strong), because owners and administrators may take the
  row again and again between two tries. Nothing makes a failure or a kill happen or stop: that
  `DueDeletionsEnd` holds is due to the count of retries.
- **Anchors**: time passes and workers finish (weak); messages are delivered only in setups that do
  not fail. `CheckScheduled`, which cron starts every five minutes, finds a free worker and the
  unlocked row again and again (strong), and it is all that `ScheduledIsPosted` rests on when
  the broker loses messages.
- **MediaUploads** (`MediaIsServed` in MCPlatform): uploads get stale, requests and tasks end, messages
  are taken (weak); the cleanup, started every few minutes, selects, resolves and gets to each upload
  (strong), as one run may die before it gets there.
- **Hiding** (`SetsExpire`): requests end, and Redis drops a set that has a lifetime (weak). That Redis
  commands succeed is not assumed.

Requests of users, failures and crashes are never fair.

### 3.4 Stated in the modules, not part of a run

Under "What the code says and does not do" some modules keep statements of comments and docstrings
that TLC refutes; the comment above each quotes its source.

- Sessions: `DuplicatesShareOnePair` (two refreshes both read the key before either stores the grace
  value), `LoggedOutStaysOut` (a logout between the read of the key and the write of the grace value).
- AccountLifecycle: `ExhaustedIsReported` (a worker dies between the record of the last failure and the alert).
- CircleContent: `CountsNeverRace`, `WhatItsAuthorDeletedStaysDeleted` (a restore un-deletes whatever is deleted),
  `MarksCanBeTakenBack` (a mark on a comment cannot).
- Notifications: `NotesOfDeletedPostsAreHidden` (posts are deleted by a time in their row, for which no
  signal is sent), `LastCountIsComplete`.
- DeviceTokens: `NoLockCycle` (the row that is added is locked out of order).
- Community: `OrderedDeletionsHappen`. "delete_content: Hard-delete the reported content"
  (`review_report`) never happens: the deletion leaves the post or comment, without its id, on the report,
  which is saved next; Django refuses, and the transaction is rolled back.
- Hiding: `HiddenStaysHidden` (a set that a hide creates in Redis holds one member and is taken for complete),
  `OnlyOldestAreTrimmed`.

`WhatReturnsHasItsFiles`, `AttemptsAreBounded`, `PurgesAreNotUndone`, `CompletedIsFinal` and
`OnlyDueAccountsArePurged` (AccountLifecycle) follow from `KeepsThePromise` or are theorems for every instance, and so is
`TypeOK` of Sessions and AccountLifecycle.

---

## 4. What is proved

`tlapm` checks all eight proof modules; no step is left without a proof. The theorems hold for any
sets of requests, accounts, workers, anchors, uploads and so on and any limits that satisfy the `ASSUME`s
of their modules, all of which TLC evaluates in the runs. The invariants were first checked by TLC on the
instances of the runs. Where a property has a condition (`TimeLimitHolds`, `~ Overlap`, `Orderly`) it is one of
3.1, part of the statement and met by behaviours of the runs.

### 4.1 Sessions (`SessionsProofs`)

| Theorem | Statement | Further assumption |
|---|---|---|
| `TypeCorrect` | `Spec => []TypeOK` | |
| `RevocationHolds` | `Spec => []RevocationIsFinal` | |
| `FreshTokensHold` | `Spec => []FreshTokensOutliveTheCutoff` | |
| `ReplaysHold` | `Spec => []ReplaysStayInTheSession` | |
| `RevokedPairsHold` | `Spec => []RevokedPairsOpenNothing` | |

`RevocationIsFinal` alone is not inductive: a revocation stamps the clock, other requests sign
before it commits, and other revocations stamp and commit meanwhile. The invariant adds that every stamp
is in the past and no JWT is marked more than a microsecond past the newest cutoff
(`StampsArePast`), that a request signs each JWT once (`SignsOnce`), that the JWTs a pending revocation
covers are no newer than its stamp if it has its microsecond to itself (`CoveredIsOlder`: that is where
the marks ahead of the clock would do harm), that what such revocations covered is no newer than the
newest stamp (`AloneIsOlder`), and that the column holds the stamp that was committed last
(`CutoffIsLast`). Whether Redis fails, and what it holds, occurs nowhere in it: the guarantee rests on the column alone.

Both properties of refreshes follow from what one step does to the request that takes it (`Shape`, shown
once for every action). `ReplaysHold`: what the replay cache holds for a pair is a rotation of that
pair, made by a refresh that is over, and a rotation stays in the session of its pair (`RInv`). `RevokedPairsHold`
combines the invariant above with `LateRefreshesStop`: a refresh of a pair that was revoked before the
request began is behind the cutoff, which has not been set back, and so stays among the steps that end
in a refusal, wherever Redis sends it.

### 4.2 AccountLifecycle (`AccountLifecycleProofs`)

`TypeCorrect`, `ColumnsHold`, `FilesHold`, `SuspensionsHold`, `AttemptsHold`, `ClaimsHold`
(invariants) and `PurgesStay`, `CompletedStays`, `PurgesAreDue`, `StrandedWasInFlight` (steps), all under
`TimeLimitHolds`; `FilesHold` also needs `~ AdminPurgeMayFail` (see finding 2).

The invariant has a part about each row (`RowOK`): the columns agree, what can return has its
files, what recovery opens is not suspended, and `attempts` is paid for with `retries`. And a
part about rows and workers: a request that is worked on is PURGING and not stale
(`WorkIsLive`), and is worked on by one worker (`OneWorkerPerRequest`). The second is needed because
`_record_purge_failure` writes FAILED without a look at the status: only exclusivity keeps
a slow worker from overwriting COMPLETED. The proof is arranged by rows: a lemma says what each operation
makes of a row, and three lemmas (`RowStep`, `WorkerStep`, `BothStep`) lift that to states.

### 4.3 The refinement (`AccountLifecycleProofs`, second half)

`PromiseIsKept`: under `TimeLimitHolds`, `Spec => KeepsThePromise`, that
is, every behaviour of `AccountLifecycle` is one of `DeletionPromise` under the mapping of 2.2. `Allowed(a, b)`
says what the promise lets become of one row; `AllowedStep` shows that a step that changes
one row as allowed maps to a step or a stutter of `DeletionPromise`, and one lemma per group of
actions shows that they change rows as allowed. One more invariant is needed, `ErasedFirst`: who
holds or waits for the locks of the purge has deleted the files before, and files do not come
back; it is what makes `Purge` a `Finish`.

### 4.4 Anchors (`AnchorsProofs`)

`ToldOnceHolds`: `Spec => []ToldOnce` without further assumptions, for any anchors, workers and
setups, whatever fails. What a worker still has to tell is on the list of no other worker
(`PendingIsExclusive`), was counted as a posting and was told to nobody (`PendingIsUntold`); and
postings to come were told to nobody (`FutureIsUntold`).

`ExpiriesHold`: `Spec => []ExpiresAfterItsTime`, and `PostingsHold`: `Spec => PostedWhenScheduled`, both about setups that do not
fail. The invariant `Timely` says what is on its way: a post message that is not revoked is the one its
anchor waits for, or its anchor was posted this instant; an expiry in the queue is that of the last
posting; a worker that is still to send an expiry posted this instant. Time does not pass while a message
is due. The steps are sorted by what they do to one anchor (`TaskStep`, `StatusStep`, `Sent`, `Posts`).

### 4.5 Registration (`AccountsProofs`, first part)

`PasswordsAreProved`: `RegistrationSpec => []SignupPasswordsAreProved`, and type correctness. A row whose password nobody
proved has that password still, is unverified and has no identity (`TypedAreUnproved`); and it was so when
a request read it that is to link an identity, whose claim the provider proved (`RequestsAreSafe`), so that
the link clears the password. Addresses are unique among the rows (`AddressesAreUnique`).

### 4.6 Support (`AccountsProofs`, second part)

`ConversationsHold`: `SupportSpec => []ConversationsAreExact`, and type correctness. Who adds a message holds the row
(`OneWorksOnEach`), so the message is newer than what the conversation has and than the app's cursor, has an id the
conversation has not, and leaves a row that fits the messages with the one it adds (`WorkIsSound`). That the
cursor is the time of a message, and that times are distinct, make a page end where the next begins.

### 4.7 Otp (`AccountsProofs`, third part)

`CodesUsedOnce`: `OtpSpec => []CodesAreUsedOnce`; `CodeLimitsKept`: `OtpSpec => []CodeLimitsHold`, together `CodesKept`; `CodesStayUsable`:
`OtpSpec => SentCodesStayUsable`; and type correctness, for any requests, limits and setups. Without overlap one
request at a time is under way (`OneByOne`). A code that was used is not the stored one, nor the one that
another is about to delete (`SpentOnce`), and codes only grow, so that no later request is compared with it. A reset names the code
of a verification that has answered (`TokensOnce`), and once it has succeeded the token is gone for good. What a request was let
through to count is below its limit until it counts it (`MayCount`), since no window ends under it and nobody else
counts. `Effect` says what any step of a request does to these parts, and one lemma per action shows that it does. The attempt
to prove the limits showed that an earlier statement of them had held only because no setup let a resend fail to be counted, or
mixed limited with unlimited flows under strict Redis; it led to the statement above and to the setups that now do both.

### 4.8 Usernames (`AccountsProofs`, fourth part)

`NamesKept`: `UsernamesSpec => []NamesAreKept`, and type correctness, for any users, names, requests at a time, periods and
limits. A name that was given up less than the period ago has one claim, that of who gave it up (`GivenNamesAreKept`),
so a request that found the name acceptable is its owner's or found no such gift (`AllAsked`). A request changes
one user and a user is in one (`OneForEach`: the lock of the row); who changes may still do so when the
change is saved (`AllReady`), so the checks at its start are enough however many come at a time. The columns count the changes
(`ChangesAreCounted`): `inGrace` is how many were made in the first days, and `last` is no earlier than any later
one. That no two residents share a name at the start is an assumption; the constraint of the table makes it so.

### 4.9 StripeWebhooks (`StripeWebhooksProofs`)

`DonationsHold`: `DonationsSpec => []DonationsAreConfirmedOnce`, for any donations, events, deliveries, workers and crashes. A handler may
write back a number it read long ago, so `NumbersAreOwned` speaks of the numbers in rows and in the hands
of handlers: each is below the counter and belongs to one supporter. What an event tells of a payment is
true and stays so (`StripeIsTruthful`). While handlers do not overlap, what one read is so when it commits (`InTurn`),
and as many numbers were given as there are early supporters.

`ReconciliationHolds`: `DonationsSpec => []DonationsAreReconciled`, for any donations, workers, overlaps, retries and crashes. Stripe's log
is true (`LogIsTrue`: an event tells what was so, and what it tells is not taken back), complete (`LogIsComplete`: what is so was
told) and in order (`LogIsInOrder`: it ends with what the subscription is, a subscription comes before its invoices, a
payment after the failures of its invoice). A handler that is through has done what its event asks for, whatever the order
(`CheckoutsAreDone`), and in order what a subscription needs, too (`PlansAreDone`): no event of the donation that
is done comes after the one at hand (`OneByOne`), so a late "failed" does not cover a "paid", an invoice finds
its donation linked, and only the last event has the last word. That an event is answered without a write is
proved harmless where the code does it (`ReadingReconciles`). A subscription starts with a paid
invoice, hence the assumption that there is room for one (`MaxInvoices > 0`).

### 4.10 Community (`PlatformProofs`)

`AutoHideHolds`: `CommunitySpec => []AutoHideIsExact`, for any finite set of users, any nesting of comments and any threshold. Reports are
not taken back, so who counted enough has enough (`TakenForEnough`); and what is shown in spite of enough
reporters has a report whose count is to come (`CountIsToCome`): the last to be created counts them all.

### 4.11 MediaUploads (`MediaUploadsProofs`)

`UploadsAreUsable`: `MediaSpec => []ReadyIsUsable`; `CleanupSpares`: `MediaSpec => CleanupSparesWhatIsUsed`; `EndsAreFinal`: `MediaSpec => EndedIsFinal`. No
operation locks the row, so the invariant says why none need to in an orderly course: one request, message or
worker at a time carries an upload (`OneAtATime`), at a step that agrees with the row and the object (`OnItsWay`);
nothing is at work on an upload that is stale, and the cleanup has stale ones only and knows which of
them content holds (`Calm`). `Calm` needs only that no work outlives the limit, and is all that `CleanupSpares` rests on
for what content holds by its URL. The attempt to prove it for what is posted, too, led to the case described in 3.1.

### 4.12 Social (`PlatformProofs`)

`SavesAndFollowsHold`: `SocialSpec => SavesAndFollowsAreKept`, and type correctness, for any requests, posts, names and others. A
folder there is was created and not deleted (`FoldersAreCreated`); a post is saved once, in one folder there is or in none
(`SavedInOne`), so that putting out what is in a deleted folder leaves nothing behind. Unless two looked at a time, one
request creates a folder of a name that none has (`OneCreates`), and one tells somebody who was not told (`OneTells`): each part
of `LookingSuffices` names what two must do at a time to break it. Whether the hour has passed says nothing about
the limit of one a day: `create_notification`'s look within the hour is not needed for it.

### 4.13 DeviceTokens (`PlatformProofs`)

`TheLimitHolds` is `LimitHolds` for any users, tokens, keys, requests and limit. It was first stated for
every user who had a token to begin with; the induction did not go through, and with one more token
TLC shows why: two registrations wait for a row, a third deletes it, and both go on with nothing
locked in common. The property now names that case (`apart`). `FoundIsLocked`: what a registration
found and what is still of its user is locked by it, or to be; so two of one user that found a row
in common are never both past their locks (`PastAlone`), and what one leaves when it commits is
within the limit whatever other users take from it meanwhile (`LeavesWithin`). The order of the keys is not used:
it matters for deadlocks only.

### 4.14 Previews (`PlatformProofs`)

`PreviewsStayExact`: `PreviewsSpec => []PreviewsAreExact`, for any media, workers, number of edits and types of anchors. That a preview
is of the media of its anchor needs that tasks start from an anchor without one and make it of what
they have seen (`MakersAreSound`), and that an edit keeps an older thumbnail only with the media it was given
for (`EditIsSound`, which the row's lock keeps true until the commit). That none is missing needs an account of
who will make it: for an anchor that wants one, a task is queued or has read the anchor as it is, and
each of its media that is ready is to be announced or an update waits for the row (`WorkIsKnown`); the same holds of
the row an open edit is about to write (`EditIsKnown`). The lemmas on `NormaliseMediaFields`, `Edited` and `Resolved` say
what becomes of the fields: a row that was just normalised has a usable thumbnail, or none and no media that is ready.

### 4.15 Notifications (`NotificationsProofs`)

`NotificationsStayExact`: `NotificationsSpec => []NotificationsAreExact`, for any members, posts, rows, retries, cuts and size of
pages. Nothing but the order of steps keeps duplicates out, and each part has its own reason. *Fan-out*
(`FanoutOf`): a row stays recent while its fan-out may be tried again, so `create_notification` finds it; whom
a try has passed was told, or did not want to be. *Likes* (`LikeOf`): a like that found no unread row is, unless
it crossed another, the only one that may add one, and what it counted were likers of the post. *Digest*
(`DigestOf`): each cut can make a row be sent once more, and none other can. *Pages* (`OwedTo`): what is owed was
listed, or comes after the last row that was; turning read moves a row towards the end only, and what is not
among the first of a page comes after all of them (`TheRestIsAfter`). The last part was first stated for what is
visible at the end; the induction did not go through, since a sender who is muted on one page and
unmuted on the next hides rows from the page they belong to. What is owed now leaves them out.

### 4.16 Scripture (`AccountsProofs`, fifth part)

`TextsStayWhole`: `ScriptureSpec => []TextsAreWhole`, for any translations, chapters on offer, imports and readers.
The invariant says what an import knows at each step (`Knows`): the chapters before the one it fetches
are there or had no verses when they were asked for, and the one it deletes is the last, which is why a cut leaves no gap; one that met no failure ends a
book because the servers have no more of it, or know it by its other name, and takes the other name only
if they had nothing under the first. Unless imports overlap nobody else touches the chapters in the meantime.
A reader that fetches in its turn holds the lock until it gives it back (`InTurns`).

### 4.17 Limits (`AccountsProofs`, sixth part)

`LimitsStayKept`: `LimitsSpec => []LimitsAreKept`, for any posts, windows, limits, cooldowns and lags. Scripts
drop calls by the times they carry, in whatever order they run. But a time is no later than the clock, so a
call that was let through is either a member still or a whole window old (`Remembered`), also when its set
expires (`Timed`); and who calls now is late by the lag at most, so that all members of a span that the call is in are
counted (`SpanIsCounted`). A set never has more members than the limit (`NotOverfull`), so one of them going is enough
for a call. A cooldown lasts longer than a window and the lag, an assumption on the constants (60 seconds after 10, `spam.py`).

### 4.18 Lists (`PlatformProofs`)

`ListsAreExact`: `ListsSpec => []PagesAreExact`, and type correctness, for any rows, times, size of pages and changes. Where a
cursor names a row, or a time that no two rows share, what the reader is owed and was not shown follows
the last row of its last page (`OwedFollow`), and unless the list began anew nothing that was shown does
(`ShownPrecede`); so a page repeats nothing, and the one that ends the list leaves nothing owed. Where it
names a number and nothing changes, what was shown is the first part of the list, with as many
rows as the pages read (`NumberedInv`): two first parts of one size are the same.

### 4.19 Circles and CircleContent (`PlatformProofs`)

`CountsStayExact`: `ContentSpec => []CountsAreExactUnlessRaced`; `ReportedStaysHidden`:
`ContentSpec => []ReportedIsHiddenUnlessRaced`; `DecisionsHold`: `ContentSpec => []DecisionsStand`; and type
correctness of both modules, for any members, administrators, circles, posts, comments, responses, threshold and number
of rows kept. Counts of comments follow from what
transactions that lock only a report still know when they commit: unless something was raced or
torn down, the target of a report is live and what a review found is so (`FreshReportsKnow`,
`FreshReviewsKnow`). No mark goes uncounted, whatever happens (`MarksAreCounted`). What is shown has fewer pending reporters than hide it (`PendingAreFew`), a
report that is to commit included: it read, as every fresh one does, whether it is the one that hides
(`FreshReportsHide`). The attempt to prove what becomes of the content of erased users showed that a review
may put it back and a later teardown of the one whose report was resolved erases the evidence;
the history `restored` keeps it.

What a member has hidden is in order (`HiddenInOrder`): each row was made since every row before it, so
when the oldest is dropped all that are left, as many as are kept, were hidden since, and the target of the dropped row
was crowded out (`KeptOrCrowdedOut`). Decisions stand because a review holds a report that stays pending until
the review ends (`ReviewIsSound`), and no two hold the same one (`HeldByOne`): whoever is to
resolve every report of a target waits for every other review of it, so nobody puts back what a review found removed.

### 4.20 Hiding (`PlatformProofs`)

`NewestStay`: `HidingSpec => NewestStayHidden`, and type correctness, for any targets, requests, limit and number of changes. Under
its conditions the rows are a queue: their ids follow one another up to the last row made (`RowsInOrder`), and
what a request has left to trim begins no later than the oldest row (`OldestFirst`) and ends before the newest that
are to stay (`OldRows`). So each deletion finds the oldest row, or none, because another request trimmed
it first. The attempt showed that the model deleted rows by their targets, where the code
deletes them by their ids: with more changes than the run has, TLC then lost one of the newest rows. Rows have ids since.

### 4.21 Only model-checked

Liveness under fairness (`DueDeletionsEnd`, `CancellationsAreAnswered`, `ScheduledIsPosted`,
`EveryUploadEnds`, `AnswersCatchUp`) is out of the prover's reach, as are formulas with
ENABLED. Feed has no theorems: its pages are put together by folds, and what those compute is shown
by induction over the data, which the prover cannot do; `SessionsAreExact` is checked on the instances of part 3. `TypeOK` of
`MCPlatform` and `MCAccounts` is put together from the type invariants of their components, each of which
but that of Feed is a theorem. No module declares a RECURSIVE operator, and no theorem is by induction over data.

---

## 5. Where code and documentation disagree

1. **A refresh in flight survives a password change** (`Sessions_password`). It passed validation before
   the cutoff was written and signs above it afterwards; its key is stored after the scan.
   `password_service.py` says that password changes always invalidate all existing sessions.
2. **A failed permanent deletion loses files** (`AccountLifecycle_restore`). The files are
   deleted inside a transaction that may still roll back; a later restore does not bring the account
   back "exactly as it was".
3. **A paid invoice may be missing from the ledger** (`StripeWebhooks_ledger`). If `invoice.paid`
   comes before the event that links donation and subscription it is dropped and
   answered with success.
4. **The purge removes anchors that wait to be posted** (`Anchors_purge`). It looks at
   `expires_at` only, which for a draft is 24 hours after its creation and is not moved by
   scheduling.
5. **Revocations that overlap, or share a microsecond, leave sessions open** (`Sessions_revocations`). The
   cutoff is stamped before it is written, so the older of two stamps may be written last; and a pair
   that is signed in the microsecond of a revocation is marked one past it, and so outlives a second revocation
   of that microsecond. `tokens.py` says that access tokens issued before the call are invalidated.
6. **A second session makes the first lose a post** (`Platform_feed`). It shows the post again and stamps
   it anew; the first session, which had demoted it, then ranks it above its own position.

---

## 6. What is not modelled, and the plan

### 6.1 Out of scope

GraphQL types and REST views beyond the calls they make (parsing and formatting around the
services), mail templates, dashboards, statistics and search, providers of scripture and identity,
seeds, settings. `PROJECT.json` has every component with the reason. Within the modelled parts:

- Sessions and accounts: the content of passwords and codes; clocks that run backwards; a weak
  password costs the code or token that was to set it; the tables that the purge empties one by one
  are one step.
- Registration: the nonce of Apple, the verification of identity tokens.
- Content: that the managers leave out content of deactivated authors (Lists has it, as `GoAway`);
  the media of posts; likes and shares of posts. The cached counters (`counter_cache.py`) are written
  and never read. `rate_limit` on `report_content` is never applied, because the resolver passes
  `reporter_id` by a keyword that the decorator does not look at.
- Notifications: the types of notification that only create one.
- Feed: what the score is made of, the limit of 300 posts in the history, the window of
  the queries, cursors of older versions of the app, a user who stops being new in the middle of a session.
- Scripture: a cache that fails, look-ups that only read, the parsing of references.
- Support: a notification or mail after the commit; workers whose clocks differ.
- Limits: what a limit answers when Redis fails (it lets through).
- Previews: the work on pixels, the bucket.
- Donations: amounts, the customer portal, and the older GraphQL flow (`donations/services.py`).
- Media: resumable uploads, download URLs.
- The single-flight lock of cron entries: its tasks may run next to themselves here.

### 6.2 Plan

1. **Proofs** about Feed: `SessionsAreExact`, once what its folds compute is stated without them.
2. **Composition**: sessions together with the account lifecycle (a suspended or deleted account
   opens no session), and an abstract register of sessions that `Sessions` implements.
3. **SingleFlight**: the lock of `enqueue_scheduled_task`, composed with the runs it starts.
4. **Engagement**: likes and shares of posts with their cached counts.
