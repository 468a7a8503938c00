# A TLA+ model of the movie API

This directory holds a verification development of the FastAPI service under
`src/app` and its two helpers under `src/ops`: modules that model its
components, TLC configurations that check them on small instances, and proofs
that TLAPS checks for every value of the constants. `PROJECT.json` lists the
components, the runs, the mutants, the source lines behind every definition, the
hazards and the theorems.

## The system

The service is an HTTP API over PostgreSQL (asynchronous SQLAlchemy, READ
COMMITTED). Two Uvicorn workers run the same code, Redis is optional, NBC's
Bakong service is asked whether a KHQR code has been paid, files lie in a bucket,
and a transcoding service runs jobs and live streams. There is no message queue:
components meet in table rows, in row locks, in unique indexes and in a few
caches.

| component | state | operations | hard parts | correct means | modules |
|---|---|---|---|---|---|
| Checkout and settlement (`app/billing`) | intents, purchases, approvals | create, poll, settle at playback, fulfil by hand, sweep | overlapping fulfillers, stale rows, replaced codes, lock order | money once in, one receipt once out | `Checkout`, `Receipts` |
| Bakong checks | answer cache, budgets, breaker, quota | ask, remember, be silent | workers that share a key, late answers | NBC is spared as it demands | `Probes` |
| Subscription periods | `subscriptions`, plans | extend | stacked payments, edited plans | no paid day is lost | `Periods` |
| Sessions and passwords | `sessions`, `users` | sign in, refresh, revoke, reset, delete | device limit, rotation, lock order | no device too many, revoked stays revoked | `Sessions`, `Identities` |
| Guest claim | `guest_id` columns | move rows to an account | a settlement in flight | nothing bought is lost | `Access` |
| Pairing, Telegram, reset links | one-time codes | start, approve, poll, redeem | lost answers, two redeemers | good once | `SignIn` |
| TV codes and channels | codes, channel rows, streams | create, edit, delete, start, stop | edits beside sign-ins, another service | disabled is locked out, no orphan | `TvCodes`, `Channels` |
| Distributed lock | Redis key or lock file | acquire, refresh, release | check-then-act, crashes | one loop | `Leader` |
| Publishing | status, schedule, assets | create, PATCH, release, delete | saves from stale rows | no asset lost, no early release | `Titles` |
| Uploads | bucket keys, rows | start, complete, replace | slugs, half-done conversions | a row's files are its own | `Uploads` |
| Catalogue caches | entries per worker and in Redis | get, set, delete | refills after deletions | bounded staleness | `Caches` |
| Content access, playback, lists | reads | decide, sign, list | two computations of one thing, two layers of cache | what is shown plays | `Access`, `Playback`, `Shelves` |
| Home page | sections, picks, slides, banners | edit, resolve | counts before inserts, stale checks | no dead link, no empty slide | `Curation`, `Home` |
| Comments and ratings | comments, votes, stars | write, hide, list, delete | levels read at different moments | a deletion erases | `Comments` |
| Database connection | probe, pool | warm up, retry | single flight, two connections each | every request is answered | `Database` |
| Alert relay, watchdog | folded alerts, counts | report, fold, send | losses, restarts | every alert told or counted | `Alerts` |
| Payment alerts | messages of a session, dates in files | queue, send after the commit, claim a day | rollbacks, many workers, midnight | told once, and only what happened | `Notices` |

## Modules

Each component is one module with its variables, `Init`, one action per step of a
handler, `Next`, `Spec` and its properties. `Checkout` and `Sessions`, the core,
have runs of their own (`MCCheckout`, `MCSessions`). The others are instantiated
by two composed modules, `MCAccounts` (what surrounds an account, and what its
visitor is shown) and `MCPlatform` (what serves and edits the content). A module `XProofs` holds the proofs about `X`;
`AccountsProofs` and `PlatformProofs` are about the composed modules. `Lists` is a
library of `Shelves` and `Home`: a list in order, filtered and cut.

`Parts` is how they are composed. The machines share nothing at the granularity
of the models, so their product would only multiply their states. The variable
`part` says which instance a behaviour runs; an instance of *n* variables takes
the slots `s1`..`sn` as its variables, the other slots are empty, and TLC explores
the sum of the instances. Every property is guarded by the parts that it is about.
The two composed runs use symmetry over `r1` and `r2`, which only ever stand for
interchangeable requests, handlers, TVs, readers, processes or editors (and, in
the part "player", for two workers with one request each).

A handler is cut into actions where the code awaits something that another
transaction, process or service can change: an unlocked read, an answer, a row
lock, a commit. What a request has read stays in its record `req[r]`; an
uncommitted write is only there, so an error, a crash or a rollback is one action
(`End`, `Abort`, `Fail`). An UPDATE of a row object writes only the columns that
differ from what was loaded: `Titles`, `Identities`, `Channels`, `Home` and
`TvCodes` compute it that way, and several results depend on it.

### Checkout and the code

Rows are functions of the intent's primary key: `status`, `cur` and `prev`
(`bakong_md5`, `bakong_prev_md5`, by the number of issue), `stale` (older than
`bakong_qr_ttl_minutes`), `grants` (the number of receipts: a purchase row, or
an extension of a subscription), `approvals` (`payment_approvals`). `paid`,
`fresh` and `onTime` describe the outside world: what NBC would answer, which
payments are younger than the cached "unpaid" answers, and, as a history
variable, which payments hit the code that was current. `intentLock`, `userLock`
and `userShare` are the row locks of PostgreSQL. `req[r]` is a request: its
program counter `at`, the values it read before (`i`, `own`, `qrs`, `left`) and
what it wrote but did not commit (`won`, the intents it set to succeeded, and
`gave`, the receipts it inserted).

| code | actions |
|---|---|
| `create_or_reuse_{movie,series,subscription}_bakong_intent` | `StartCreate`, `LockBuyer`, `FindPending`, `TakePending`, `InsertIntent` |
| `_commit_new_intent_or_reuse` | `InsertIntent`, `InsertConflict`, `RetryLookup` |
| `_reuse_or_refresh_pending`, `bakong_qr_confirmed_unpaid`, `regenerate_bakong_qr` | `ReusePending`, `ConfirmUnpaid`, `Regenerate` |
| `mark_succeeded_if_already_purchased` | `OwnedBy`, `CloseOwned` |
| `load_buyer_intent`, `settle_pending_intent_on_poll` | `StartPoll`, `PollOwned`, `PollProbe`, `CommitSibling` |
| `settle_pending_movie_bakong_for_buyer` (playback) | `StartPlay`, `AskBank` |
| `admin_fulfill_payment` | `StartAdmin`, `CommitApproval` |
| `fulfill_payment_intent` | `FulfillLock`, `GrantExisting`, `GrantTitle`, `GrantPeriod`, `GrantFails` |
| `sweep_pending_bakong_intents` | `StartSweep`, `SweepNext`, `SweepEnd` |
| `commit_with_telegram`, `db.commit()` | `Commit` and the actions that commit |

Decisions worth knowing:

- A lookup with `FOR UPDATE` is two steps. Its snapshot picks a row; once the
  lock is granted PostgreSQL evaluates the condition again, so a row resolved
  meanwhile drops out of the result (`TakePending`), though it stays locked.
- A foreign key to `users` takes `KEY SHARE`, which conflicts with `FOR UPDATE`
  only. Intent rows written without a lock are written under the implicit lock of
  the `UPDATE`, which the guards `Free` of `Regenerate`, `CloseOwned` and
  `CommitSibling` stand for.
- `fulfill_payment_intent` reloads the row under the lock and proceeds for any
  status but succeeded: a superseded intent that turns out paid gets its receipt.
- NBC never says "paid" of an unpaid code. "Unpaid" may come from the cache
  (eight seconds). No answer is always possible, so the not-paid branch of each
  caller is always enabled; the sweeper's filters (window, recently polled,
  blocked) are inside that branch. `Probes` models when NBC is asked at all.
- `plansOn` stands for "the plan of the intent is active, or some plan is": all
  plans are switched together; `Periods` has them one by one. The refusal of a
  series checkout for a subscriber depends on the time left, so it may or may not
  happen, and refusing changes nothing.
- The unique index allows one pending intent per buyer and item, so playback's
  `limit(2)` finds at most one, and `StartPlay` takes it.
- `bakong_nbc_settle_enabled` is true, its default. Without it nothing settles
  but by hand, and a code is replaced without asking.
- `QrExpires` assumes that ten minutes are longer than the cached answers live,
  and longer than one request takes between its two lookups.
- A buyer in `Users` has a row that checkout locks; a guest has none, and only
  the unique index keeps two of its checkouts apart.

### Sessions and the code

The module follows one account; requests of different accounts share nothing.
Session rows are functions of the primary key: `state` (`revoked_at` is NULL or
not, or the row is gone), `exp`, `ver` (`token_version`), `refreshed`
(`refreshed_at`). `active`, `erased` and `pw` are the account: `is_active`,
whether its identities were emptied, and its password by the number of its
reset, where 0 is the account of a TV code, which has none. `issued` holds the
access tokens that exist, `opened` (history) the password a session was opened
with. `now` is the clock: the code compares times that it read at different
moments of one request, so a time once read stays in `req[r].t`.

| code | actions |
|---|---|
| `authenticate_user`, the Google, Apple and Telegram sign-ins | `StartLogin` |
| `create_session` and the caller's commit | `LoginLock`, `LoginCount`, `LoginCommit` |
| `refresh_session` | `StartRefresh`, `RefreshLock`, `RefreshRefused`, `RefreshReuse`, `RefreshSlot`, `RefreshCommit` |
| `revoke_session` | `StartRevoke`, `RevokeCommit` |
| `reset_password` | `StartReset`, `ResetLock`, `TakeRow`, `ResetCommit` |
| `login_with_tv_access_code`, `_revoke_all_sessions` | `StartTv`, `TakeRow`, `TvRevoke`, then as a sign-in |
| `delete_user_account` | `StartDelete`, `TakeRow`, `DeleteRows`, `DeleteCommit` |
| `admin_update_user_status` | `ToggleActive` |

Decisions worth knowing:

- An UPDATE or DELETE of all sessions takes its snapshot when it starts (`todo`)
  and locks the rows one after another (`TakeRow`), waiting where it must. A row
  deleted meanwhile is skipped; the planner chooses the order, so any order is
  possible. The writes become visible at the commit (`Write`).
- `reset_password` assigns the hash first and then executes the UPDATE of the
  sessions. SQLAlchemy flushes before it executes, so the account is locked
  before the sessions (`ResetLock`). `delete_user_account` assigns after its
  DELETEs, so it locks the account last.
- The TV sign-in commits the subscription, commits the revocation and only then
  creates its session: the two commits matter here, the first is merged into
  `StartTv`, since it touches neither the sessions nor the account.
- The suspension writes the account's row in one statement and commits: it waits
  for the row's lock, and is one action.
- A lost answer needs no action of its own: every token ever issued may come
  back at any time (`issued` never shrinks).

### The other modules and the code

| module | state | what its actions are |
|---|---|---|
| `Identities` | rows of `users` (address, identities by kind, password, `is_active`), who signed in where, links made beside another | `register_user`; the lookups, link or insert of `authenticate_google`, `authenticate_apple`, `login_telegram_identity`; `update_me`, `delete_user_account`, `admin_update_user_status`, `admin_delete_user`, `reset_password` |
| `SignIn` | one-time codes of four kinds (bot login, pairing, widget nonce, reset link), their row locks, sessions opened and tokens handed out | start, tap, approve, cancel, poll, redeem, expiry; each handler under the lock its code takes, or without where it takes none |
| `TvCodes` | one TV code, its account and subscription | create, PATCH in its three commits, delete, the TV's sign-in on a stale read |
| `Access` | receipts and intents by owner, cookie, free titles, subscribers | the three UPDATEs of `claim_guest_purchases`, a fulfilment beside them, `can_access_content` |
| `Periods` | subscription rows, plans, fulfilled intents | the plan and days of an intent, the account lock, the stacked period, an operator who switches plans |
| `Probes` | answer cache, budgets, breaker in the process and in Redis | a caller's decision, the question, the answer and what is remembered, or the alert that a call awaits with the answer in hand; the sweeper's batch; new codes and their budgets |
| `Titles` | rows of movies, series, episodes, podcasts; release schedule | create, PATCH on a loaded row, asset uploads, transcoding, delete, the two release sweeps |
| `Uploads` | slugs, open uploads, files of the bucket, rows | draft, sign, send, complete, assemble, convert, save, replace, remove, for six kinds of titles |
| `Channels` | rows of TV channels and streams at the service | create, update, start, stop, status, delete, each from an unlocked row |
| `Playback` | a playlist in the bucket or at the live service, two cache layers, tokens | grant, read, rewrite with signed addresses, serve |
| `Shelves` | what is out, free, priced, listed, sold, seen; one cached list and its age | the lists, pages, related titles and episodes as operators over it; a list is read, kept, dropped, expires |
| `Curation` | sections, picks, orders, limits, genres, the legacy tables | each check and, later, each commit; a genre renamed unchecked, with a limit or without |
| `Home` | one section, slides, releases, posters | picks, limits, slide PATCHes; `resolve_public_sections` and `resolve_hero_slides` as operators |
| `Comments` | comments, votes, reports, stars and their average, blocks | write, reply, edit, hide, vote, rate in two commits, PATCH the rating, fail between, list a thread level by level, delete an account |
| `Caches` | one answer in each worker's dictionary and in Redis | read, refill, store, delete, expire, fail |
| `Leader` | the Redis key, the lock files, the processes | `try_acquire`, `refresh`, `release` in their GET and SET steps, crash, restart |
| `Database` | pool, warm-up probe, a page and its count | `try_connect`, `paginate_query` and its retry |
| `Alerts` | watchdog conditions, the API's throttle and queue, the relay's folds and counts | observe, report, admit, fold, drop, deliver, restart |
| `Notices` | settlements with their queued messages; the dates in two locked files | fulfil and queue, commit and flush, playback's plain commit, the failing sweep; notice, claim, send, die, midnight |

Some properties have an exception that the code does not rule out. It is a named
history flag, so that the model says exactly when it applies: `excused` (Leader: a
pass outlived the key, or Redis lost it), `raced` (Identities: an identity linked
while another of its kind was being linked to the same account), `right`
(Comments: the ratings that overlapping raters, an admin or a failure may leave),
`loose` (Comments: a request under way when the account was deleted; Uploads: a
picture of two requests or one that was never confirmed), `mixed` (Uploads: two
titles had a key at once, or a draft took the slug of a deleted title whose video
was left behind; Home: two PATCHes of one slide overlapped), `missed`
(Alerts: a report was dropped or lost), `untold` (Notices: playback settled it,
it had no plan, or Telegram or the worker failed), `late` (Notices: a day was
claimed after it had passed), `clean` (Curation: none of the changes
that `Overtaken` names came in between), `adrift` (Channels: an answer was lost
or came after a later start or stop).

## What the runs show

| run | instance | shows |
|---|---|---|
| `checkout_guest` | 3 requests, a guest, two intents for one movie, 2 codes each | no receipt without money; succeeded means delivered; superseded means owned; a delivered intent is never pending again; an approval stands beside a receipt |
| `checkout_plan` | 2 requests, a series and a plan of one account, swept in one batch | the inductive invariant of the proofs (one receipt per intent among it); `Receipts` is implemented |
| `checkout_ends` | 2 requests, one intent of an account, 2 codes | every request ends, deadlocks included; a payment that is remembered settles while the buyer polls |
| `sessions_limit` | 2 requests, 2 sessions, one slot, time to 3 | the inductive invariant; a sign-in never exceeds the limit; a refresh never prolongs a dead session; a reset leaves none |
| `sessions_copy` | 2 requests, one session of either kind of account, 3 versions | a copied token brings the session down; every request ends, deadlocks included |
| `accounts` | 23 parts | codes are good once; a bot login signs in who confirmed; an identity keeps its one account, two of one address among them; a TV code that is off locks out; TV boxes do not add up; a guest's code paid while current is kept; a sign-in loses no title and a payment no day; playlists are in time; no stream without a row; what is shown plays, a cached list but for a bounded time; the home page has no dead link and no empty slide |
| `platform` | 25 parts | one loop; releases only what is due; assets survive saves; NBC is spared, but for the moment of an alert; staleness is bounded; alerts arrive, payments and limits are told once; requests are answered; a deletion erases, a hidden thread stays hidden, the rating shown is right; the free rail is free; curated changes are whole; files are a title's own |

A guest is the harder buyer: nothing but the unique index serialises its
checkouts, so `checkout_guest` has the interleavings of an account and more; the
steps that only an account has run in the other two.

Five runs find what a comment or a docstring rules out:

- `superseded_receipt`: a poll loads its intent as pending, another request
  fulfils that intent, the poll's ownership query finds the new purchase and
  closes the intent as superseded. The title is owned (`SupersededOwned` holds),
  but a paid intent is booked as unpaid.
- `plan_not_extended`: with no active plan `fulfill_payment_intent` raises after
  it set the status; the sweeper goes on and commits the status together with
  another intent of the batch.
- `lapsed_slot`: a refresh reads the clock and then waits for its locks. The
  session lapses meanwhile, a login that holds the account lock does not count
  it and takes the last slot, and the refresh, which still believes in its old
  time, skips the count: one device too many. What does hold is
  `LoginWithinLimit`: a sign-in itself never goes over the limit.
- `old_password`: a login has verified the old password and waits for the lock
  of the reset. The reset signs everybody out (`ResetSignsOut`), then the login
  opens its session.
- `draft_is_live`: an editor loads a scheduled movie and sets it to draft; the
  sweeper releases it before the UPDATE, which does not write `is_published`,
  because it was already false in the row that was loaded.

Documented claims that do not hold either, and have no run of their own. Where
the module states the claim, its name is given; it can be checked by naming it in
a configuration.

- "The email and sign-in IDs are freed, so the person can sign up again as a new
  account" (`services/account.py:44`, `Identities!IdentitiesFreed`): a link to
  Google committed between the deletion's load and its commit was NULL in the
  loaded row, so the deletion does not write it. The identity stays on the
  disabled row, and this person is "disabled" at every later sign-in.
- "must prove they know it before setting a new one" (`routers/users.py:38`): a
  PATCH that loaded an account without password overwrites the one set meanwhile.
- "Re-assign anonymous guest purchases to a real account" (`services/guest.py:1`,
  `Access!ReceiptFollowsIntent`): a receipt committed between the statements of
  the claim stays with the cookie, while its intent moves.
- "only the newest link works" (`services/auth.py:402`, `SignIn!OneLinkWorks`):
  two requests delete before either inserts.
- "matches expires_at" (`services/tv_access_codes.py:3`, `TvCodes!EndMatches`): a
  sign-in that read the code before an edit writes the old end over the new.
- "one timeout cannot suspend every buyer for an hour"
  (`billing/bakong_quota.py:8`, `Probes!TimeoutIsBrief`): the sweeper takes any
  unknown answer for an exhausted quota; and the shared deadline may be shortened
  by a worker that writes later, although "the longer" is to be kept
  (`bakong_quota.py:85`). "Paid is terminal" (`bakong_check_cache.py:16`), but a
  question that was asked earlier may still overwrite it.
- "only one process runs each loop" (`services/distributed_lock.py:3`): a process
  that found Redis down holds the file lock beside the one that holds the key.
  `OneLoop` states what is left. A process that found the lock taken at its start
  never asks again, so after a crash of the holder no loop may run until a
  restart.
- "up to the TTL" (`services/response_cache.py:10`) is up to two: a refill from
  Redis starts anew, and a slow reader stores what was replaced. `StalenessBounded` has the real bound.
- "resolved" always goes out (`ops/alert_relay/main.py:13`), but for the rate
  limit; and "reported once and again when it clears"
  (`ops/watchdog/watchdog.py:5`) holds for one run of the watchdog.
- "At most one message per ICT day" (`services/telegram.py:190`): the date is read
  before the file is locked (`:168`). A call that read it before midnight and
  claims after another worker writes the old date back, and the new day is told
  again. `OnceADay` excepts such alarms (`late`).
- A settlement's message is sent after its commit, but playback commits with
  `db.commit()` (`routers/playback.py:82`), so what it settles is never told.
- "Apply a full rail order, or nothing" (`catalog/home_sections.py:257`): two
  overlapping orders mix. A `banners` section shows a picked banner outside its
  schedule; two overlapping PATCHes may leave a custom slide without media.
- An administrator's edit that loaded a comment before its author's account was
  deleted brings its text back.

Behaviours that a reader may not expect, and that the properties leave room for:
an owned intent is closed without a probe of its codes, so a second payment of
an owned title is closed without a trace; after two regenerations the first code
is no longer probed; two boxes that sign in with one TV code at the same moment
both stay (`TvBoxesOverlap` bounds their number); a login that overlaps the
deletion of its account leaves a session row behind, which the account check of
every request refuses. And of the composed runs:

- The call that is told of NBC's daily limit sends the day's Telegram message and
  only then closes the breaker (`billing/bakong.py:282`, `:363`, before `:209`);
  other calls of the process ask NBC meanwhile. `Lag` is the time Telegram may
  take; httpx's ten seconds are counted for each phase of the request, so `Lag` may
  be more than ten. `QuotaHeard` excepts just that time.
- A new code empties the intent's budget, and the code it replaces is still asked
  for on it (`bakong_settle.py:55`): `ChecksBounded` allows two budgets in a
  stretch, because the windows are fixed, and one more for each new code in it. The
  sweeper asks without an intent (`bakong_sweeper.py:88`), so its checks count
  against no budget; they are bounded by its passes and its batch.
- A title's rating is not the average of its stars after two people rated at once,
  after a failure between the commit of the star (`catalog/ratings.py:51`) and that
  of the average (`:32`), after the deletion of an account, or after a PATCH of
  `rating`, until someone rates alone. `AverageShown` says what it may be instead.
- A movie's or podcast's draft that takes the slug of a deleted title finds that
  title's video at its key, and a `complete` without an upload makes it the draft's
  (`routers/admin/movies.py:256`). `mixed` marks such a key.
- A PATCH renames the genre of a rail without a look at the other rails
  (`admin/home_sections.py:168`), so two rails of one genre can stand side by side;
  what `ChangesAreWhole` keeps is that none is made beside one that is there.
- Two identities of one kind whose tokens carry one address, linked at the same
  moment, both pass the check of `services/auth.py:122`; both are signed in to the
  account and it keeps the one committed last. The other finds a "different
  account" at its next sign-in.
- A list of the catalogue is answered from a cache. The PATCHes of a movie drop it,
  the PATCHes and deletions of series and episodes do not
  (`routers/series.py:196`, `:520`), so it may link to a page that answers 404, or
  show as free what is not, until it expires: `Stale` later at most, the bound that
  `StalenessBounded` proves of `Caches`. The lists of podcasts, of related titles
  and of episodes, the libraries and the pages of titles are not cached.
  The rails of the home page are cached likewise: `RailIsFree` and
  `HomeWhole` are about what is worked out, and its age is the subject of `Caches`.

## Bounds

`Requests`: two requests give every pairwise overlap; the third of
`checkout_guest` adds a holder of the lock that two others wait for. `Intents`:
two keys let a buyer own a title and hold a second pending intent for it, let an
account own a series and a plan, and let the sweeper take a batch. `MaxQr`: two
codes exercise one replacement, three (in `accounts`) lose the first; when the
codes or the keys are used up, a request gives up as it does when no code can be
generated. `Batch = 2` is the default of `bakong_sweeper_batch_size`.

In `Sessions`, two requests give every overlap of two operations, and the steps
of one request already interleave with the clock, the administrator and lost
answers. `Limit = 1` makes the second session the one too many; `Ttl = 2` and
`MaxNow = 3` let a session lapse and be revived; `Window = 2` lets a retry fall
in and out of the window. `MaxVer = 2` gives a token that was replaced twice.
`Grace` is beyond the clock (the default, no limit) in the limit run and 1 in the
copy run. When keys, versions or resets are used up, the request fails.

In the composed runs each part is the smallest instance in which the hazard
occurs: two who act at once, the one or two rows they meet in, and, where there
is a clock (`MaxTime`), lifetimes of one or two units and a clock that passes each
of them. Quotas, limits and queues are 1 or 2, so that they fill. Where one
component has several kinds of rows, each kind has a part (films, series,
episodes and podcasts of `Titles`; six kinds of `Uploads`; the sections of
`Home`). `MaxReports` bounds the alerts of one behaviour, `MaxResets` the new codes of an
intent, `Stale` is a constant of the proof and 3 in the run, `MaxVersion` the
changes of a cached value, `MaxRows` the subscription rows.

Deadlock checking is off because a bounded instance does stop: all intents
resolved, all codes paid, no key left, the clock at its bound. The runs with
liveness use no symmetry; `checkout_guest`, `sessions_limit` and the composed
runs do.

## Fairness

`Running` gives each request strong fairness of its own steps: handlers run while
their worker lives, and PostgreSQL queues lock waiters. Its deadlock detector is
weakly fair; without it `RequestEnds` fails, so the deadlocks are real.
`PaidSettles` needs more, and says so in `KeepsPolling`: the client polls again
and again, NBC gives an answer again and again, and deadlocks are not for ever.
Without these the code promises nothing.

The runs with liveness use `CalmSpec`, in which a request does not die between
two steps. A request that dies ends by that; but a poll that dies settles
nothing, and a refresh that dies has not refused its token, and whoever holds
the copy need not try again.

Where a promise of the other modules is about time, it is a bound on the clock
rather than liveness (`AnsweredInTime`, `StalenessBounded`, `PlaylistsInTime`), so it
needs no fairness: the clock of the model does not pass a deadline that the code
enforces with a timeout.

## Proofs

`CheckoutProofs` proves, for all constants that satisfy `CheckoutConstants`:

- `Invariance`: `IInv` is invariant. `GrantOnce` and `GrantBacked` are not
  inductive: whether a commit breaks them depends on what the request holds.
  `Draft(r)` says it. An intent the request marked is locked by it, so no two
  drafts overlap; a receipt in a draft is the first of its intent and backed; a
  request on its way to a grant has a paid code in hand or is the operator's. The
  proof follows `Next`: a few general lemmas (`MoveInv` for a step that changes
  one request, `EndInv`, `CommitInv`), then one lemma for each group of actions.
- `TypeCorrect`, `ReceiptsBacked` and `OneReceipt` are its parts, and
- `Implementation`: `Spec => Ledger!Spec`. `Effects` sorts the steps into those
  that only extend the money, those that issue receipts and those that do
  neither; `LedgerStep` maps each to an action of `Receipts`.

`SessionsProofs` proves, for all constants that satisfy `SessionConstants`:

- `Invariance`: `IInv` of `Sessions`. `Draft(r)` says what a request relies on
  between two steps: a refresh past its first lock has its session live and at
  the version it read; between the count and the commit of a sign-in the account
  is locked, so the counted room stays free; a reset holds the account and has
  locked or still lists every live session. `LeavesOthers(r)` is what a step
  leaves to the other requests, and `OthersKeep` is the argument that their
  drafts survive it; each action then has to show its own draft.
- `TypeCorrect` and `VersionsKept` (no token is newer than its session's
  version) are its parts.
- `DeviceLimit`, `RefreshedAlive` and `ResetComplete` are the action properties
  `LoginWithinLimit`, `RefreshAlive` and `ResetSignsOut`. `Effects` shows that
  every step but three commits is tame, and the drafts of those three give the
  rest.

- `BoxesOverlap`: `TvBoxesOverlap`, for finitely many requests. The bound counts,
  and a count is not inductive; `Owned` is: there is a one-to-one assignment of
  the live sessions to requests that may still own them.

A second half of `CheckoutProofs` proves what is in the library and what is still
tracked:

- `DeliveredWhenSucceeded`, `OwnedWhenSuperseded`, `DeliveredWhenApproved` and
  `ClosedWhenDelivered` need each other and `Promise(r)`: a title that a request
  marked has its receipt, unless that is the very step the request is at, and
  whatever a request is about to close is owned. Their conjunction is `Delivery`.
- `TrackedWhilePending` is `PaidCodeKept`. `Codes` says what the rows say: one
  pending intent for a buyer and an item, codes numbered as they are issued, none
  of an expired intent's earlier codes paid in time and still unseen. `Search(r)`
  says what a purchase in the making has seen: no expired intent where it is
  about to insert, and none of the codes it gives up was paid in time.

The other proofs are of components that the composed runs instantiate. Each has
an inductive `IInv`, and its constants a named predicate of hypotheses.

- `SignInProofs`: `Once` (`GoodOnce`) and `ByConsent` (`SignedInByConsent`).
  `Judged(h)`: a handler that passed its checks holds the row and what it judged
  is still so. `Tally(c)` and `Consent(c)`: what a code's status says of the
  sessions it opened and of who agreed.
- `IdentitiesProofs`: `OneAccount` (`OneAccountEach`), from the unique index
  (`Unique`) and from `Knows(r)`, what a request goes by: who is to link an identity
  found the account without one of its kind, and if one has been linked there since,
  it was beside a rival (`Overtaken`).
  Nothing is assumed of addresses: identities may share them.
- `LeaderProofs`: `OneLeader` (`OneLoop`). `Kept`: unless somebody overstayed or
  Redis lost the key, whoever goes by the key holds it and knows its end.
- `TitlesProofs`: `PosterSurvives` (`PosterKept`) and `SweepOnTime`
  (`ReleasedOnTime`). `Adds(r)`: a request writes the columns that differ from
  the row it loaded, so it never writes "no poster"; and what the sweeper has
  locked stays due.

`AccountsProofs` and `PlatformProofs` are about the composed modules: each
property they prove is the one the run checks, so what TLC finds on the small
instances holds for them in general. `Next` of a composition gives a step of the
part that is on, and the invariants of the parts make up one `IInv`. What they
assume of the parts' constants is `PartConstants`, which TLC evaluates. A
component with one instance is proved there directly, with its constants as they
are named in the composition, which TLC gives values and the proof does not:

- `TvLockedOut` (`DisabledLocksOut`): while a code is off, every box has been
  signed out or is about to be refused (`ShutOut`). For any number of TVs, and
  one administrator at a time, as the module has it.
- `TitlesClaimed` (`SignInKeepsTitles`): `Settling` (a settlement locks an intent
  without a receipt) and `Claims`: a title the guest had when a sign-in began has
  a receipt that is an account's (`Kept`), or which a statement still to come
  will move (`WillMove`).
- `PeriodsAdd` (`PaymentsStack`): `Computed(r)`, the end that a request computed
  is still computed from the latest row when it commits, because it holds the
  account. That the rows have a latest is shown by a least counterexample (`Least`,
  from the well-foundedness of the natural numbers).
- `StreamsKnown` (`NoOrphan`): a running stream is shown by its row or a start
  that has yet to write (`Known`), and an answer that is not out of date is true
  (`Told`).
- `AnswersExpire` (`StalenessBounded`): every place has a deadline, counted from
  the replacement: a request carries a value for `Lag`, Redis keeps it for `Ttl`
  more, and a worker that copied it for another `Lag` and `Ttl` (`Fresh`,
  `Prompt`).
- `PlaylistsTimely` (`PlaylistsInTime`): the same for four layers of copies, one
  refilled from the next. `EndsBy` says how old the text and the addresses of a
  copy will be when it ends, so the bound of a layer is that of the one below, a
  lifetime and a lag; `InTime` says what a request has in hand besides its own age.
  It is proved once for `Stream(live)`, the instance of `Playback` for titles
  (`FALSE`) and for channels (`TRUE`), for any lifetimes, lag, workers and requests.
- `DatabaseInTime` (`DatabaseAnswers`): the k-th attempt of a request begins within
  k - 1 waits and statements of its arrival, and no wait of it, nor of a count it
  left behind, outlasts its timeout (`Timely`). For any timeouts, attempts, size of
  the pool and number of requests.
- `DeletionLeavesNothing` (`DeletionErases`) and `NothingHiddenListed`
  (`NothingBelowHidden`), for the instances `Forum(name)`. `Draft` says what a
  request may rely on between two steps: an editor who finds the author's account
  deleted has found a late comment, and what the reader of a list may not see is
  deleted or by a person blocked when it began, and stays so. `Threads`, what is
  reachable from the roots, is stated as the largest set in which every reply has
  its parent, so no induction over the depth of a thread is needed.
- `ChangesKept` (`ChangesAreWhole`), for the instances `Curated(name)`: what a
  request checked is still so at its commit unless it was overtaken (`Draft`), and
  two that make sections of one kind or genre never both keep a clean check
  (`Alone`); whoever renames a rail spoils the checks for its new genre (`Rivals`).
  Limits are counted, so the proof compares cardinalities of finite lists.
- `RailFree` (`RailIsFree`): the rail and the entitlement are two computations over
  the same rows; that the first stays within the second holds in every state, so
  the theorem needs no invariant.
- `AlertsHeard` (`AlertsArrive`). Alerts: what the relay holds and what is on its
  way are cardinalities of sets of pieces (`Pieces`), so that `Accounted` changes
  with one value of a function, as `FiniteSetTheorems` counts, and needs no
  induction. That the chat agrees with the watchdog takes `Says` (a report under
  way tells what the watchdog found) and `Remembers`: a problem the relay folds has
  been told or is being told, which is what makes it safe to swallow a repeat.
  Notices: `Draft` (a request queues an intent once and holds it until it commits;
  a settled one is queued by one request only), `Open` (who holds an intent found it
  pending) and, of the alarms, `Claims` and `Claimed` (at most one caller is to send
  the notice of a day, only if the day was claimed, and none once it was sent). For any number of conditions, errors, requests, intents, workers and days.
- `ChecksSpared` (`QuotaHeard`): this process's own deadline is never before the
  silence NBC asked for, whatever the shared key says, since `Block` takes the later
  of two (`Noted`: what NBC asked for is noted, or about to be, by a call that is not
  later than `Lag`). The budget counts in windows fixed at their first check, the
  property over any stretch of that length: `Within(i, t)` says, of every stretch still
  of interest, that the checks since `t` are those counted in the running window, a
  budget for each new code since `t`, and less than one for what began before. It
  assumes a window and a budget of
  at least 1 (`max(1, int(max_checks))`, `bakong_check_cache.py:152`).
- `UploadsStayWhole` (`UploadsWhole`), for the instances `Upload(name)`. Of two
  titles with one video key, one is out of it for good (`Alone`, `Dead`: no row, no
  open upload, no signed address and no request that could still write), unless
  both had it at once (`mixed`); so the video under a title's key is its own
  (`Owned`), and so is the stream a row took from it (`Streams`). A picture that a
  row names was asked for under a name of its own and is in the bucket
  (`Pictured`), and `Drafts` says what a request knows of the picture it holds: no
  row but its own names it yet, and what it will name is there.
- `AveragesRight` (`AverageShown`), for the instances `Forum(name)`. The sum of the
  stars is the number of `Pieces`, one per star, so that a vote changes a
  cardinality. `right` holds what the stars have averaged to since the first of those
  who are rating began, and what an admin or a failure left; `Rating(r)`: what a
  request is about to write is in it; `Averaging`: so is what is shown, unless all of
  those rating loaded it. Without overlap, failure and admin, `right` is the average
  of the stars there are.
- `ShelvesStayTrue` (`ShelvesAgree`) and `HomeStaysWhole` (`HomeWhole`). Lists are
  filtered by rank (`Keep`): its k-th element is the one with k kept places up to
  it. `RanksCount` says that every k up to their number is some place's rank; what
  a filtered and cut list shows, that it names nothing twice, how long it is and
  that it keeps the order follow, for lists of any length. What is worked out over the
  rows then agrees in every state; of a cached list, `IInv` of `Shelves` says that a
  title it names is on it still or has been off it for no longer than the answer is
  old. Of the home page, the picks differ and fit the section
  (`SectionPicks`), and a slide is valid unless two edits of it overlapped
  (`SlideRows`): a PATCH that nobody overtook finds the row it loaded, or none
  (`Patch`).
- `CodesOnce`, `BotConsent`, `AccountEach`, `BoxesKicked`, `PaidCodeTracked`,
  `OneInLoop`, `PostersStay` and `ReleasesDue` carry over what the modules above
  prove of each instance.

Every invariant and every action property that the passing runs check is a theorem,
but for the inductive invariants, which are theorems by the name `Invariance`.

What stays with TLC:

- Liveness under fairness (`RequestEnds`, `PaidSettles`, `CopyRevokes`) is outside
  the prover's reach.
- `Keep` is the filter of the language's own `SelectSeq`, whose definition is
  recursive: that the two agree takes induction over the list. TLC evaluates
  `KeepSelects`, an assumption of `MCAccounts`, on all short lists. No proof uses it.
- That the instances' constants satisfy the hypotheses of the proofs
  (`PartConstants` and those of the other modules) is evaluated by TLC.

## Plan

All the components with state that more than one actor changes are modelled, and
the safety properties of the runs are proved. A change of the code starts with the
lines in `map`: change the definitions, run TLC, then repair the lemma of the action
that changed. What could be added is what "Not modelled" lists below.

## Not modelled

- Amounts, formatting, texts, HTTP shapes, rate limits of routes, signatures and
  hashes: data that no property tells apart.
- `Checkout`: the mode without NBC; plans switched one by one (in `Periods`);
  `scripts/grant_subscription.py`.
- `Probes`: the pruning of the budget table above 2000 intents and its loss at a
  restart, after which a budget begins anew; more than one worker that asks at a
  time, except through the shared key.
- `Notices`: a fulfilment that finds its receipt already there and sends nothing.
- `Alerts`: pruning above 500 folds; crash reports, which are sent once each.
- `Identities`: names, pictures, the verification of tokens (a token is vouched
  for), account locks of `create_session` (in `Sessions`).
- `TvCodes`: two administrators editing one code at the same time.
- `Uploads`: one picture per title stands for poster and banner; thumbnails and
  the conversion itself.
- `Curation`: visibility set in the PATCH of a limit, here a step of its own; a check
  reads one snapshot, though some are two queries; the key of
  a deleted section is not used again.
- `Shelves`: a request reads in one step; search ranking, pages and columns; the two
  layers of the cache, which are `Caches`' subject: here one cached list is followed,
  with its age. That the PATCHes of movies drop it is one of the moments of `Forget`.
- `Home`: a PATCH that moves a slide drops only the cached list of its new
  placement; that cache is `Caches`' subject. The trending rail skips its first
  ten movies, here `Offset`.
- The code of the transcoding and live services, of storage and of Redis is not
  in the repository: they are modelled by what the clients here rely on.
- The disabled Baray checkout and webhooks answer 503. The dashboard only reads.
  Configuration, schemas, migrations and seeds are declarations and one-off
  scripts; the unique indexes the code relies on are modelled where they bite.
