# Verification of new_app_backend

TLA+ models of the backend of a tourist marketplace (transfers by drivers, excursions by
guides): FastAPI handlers and Celery workers over PostgreSQL, Redis, RabbitMQ and two banks.
TLC checks the models on small instances; TLAPS proves their main theorems for every value
of the constants.  Source paths are relative to the repository's root.

## Inventory

| Component | State it keeps | Operations | What is hard, and what must hold |
|---|---|---|---|
| Payments and refunds (`services/payment_service.py`, `workers/payments`) | `orders.status`, `order_status_logs`, `transactions` | bank webhooks, cancellation, refund task | webhooks come twice, late, or while the order is being cancelled; a worker is lost and its task runs again, or a task fails and never does; the process dies between commit and send.  The accounts must follow the bank, a hold is refunded once, a cancelled order's money goes back unless a recorded failure ends its refund |
| Transfer orders (`services/transfer_service.py`) | `orders`, Redis `payment_url:*` | create, accept, cancel, poll for the link | several drivers race for one order |
| Excursions (`services/excursion_service.py`) | `excursions`, `excursion_slots`, `orders` | open slot, book, cancel by guide, delete | bookings and cancellations race for one counter; a booking races with the deletion |
| Payment links (`workers/transfers`, `workers/excursions`) | the bank's payments, Redis | generate a link | a lost worker asks the bank twice; a task that fails leaves the client polling |
| Sessions and codes (`services/auth_service.py`, `core/jwt.py`) | Redis sessions, grace keys, codes, limits | request and verify a code, refresh, logout, logout all | concurrent refreshes of one token, eviction over the limit, a code used twice |
| Onboarding (`services/onboarding_service.py`) | `onboarding_applications`, documents in S3 | start, bank's webhook, survey, upload, cancel, purge | the bank's answer to a cancelled application, a survey sent beside a cancellation, photos half moved, a restart that deletes what the old survey names |
| Administration (`services/admin_service.py`) | roles, bans, applications, `admin_logs` | set role, ban, approve, reject | approval beside rejection, the hierarchy of roles |
| Users (`services/user_service.py`) | `users`, profiles, duty status, avatars | register, update, go on and off duty, delete, purge | going off duty while taking an order, purge of a user who came back, files deleted before their row |
| Reviews (`services/review_service.py`) | `reviews`, the performer's rating | add a review | nothing reachable: no code completes an order, so every review is refused |
| Storage (`services/s3_service.py`, `core/storage.py`) | S3 objects | presigned links, deletion by prefix | which key belongs to whom |

How they interact: a handler owns one database session (`infra/db_depends.py`), commits once,
and sends Celery tasks afterwards; workers open sessions of their own; the banks call back
through `api/v1/payments.py`; the clients poll Redis.  PostgreSQL runs at READ COMMITTED and
SQLAlchemy objects keep what they read (`infra/db.py`, `expire_on_commit=False`), so every
handler is a read, a gap, and a commit, except where it selects FOR UPDATE NOWAIT.

## Modules

| Module | What it is |
|---|---|
| `Billing` | orders, their audit rows, payments, refunds, banks and the refund queue |
| `HoldLedger` | the abstract specification of the accounts: hold, book, release, refund |
| `Billing_proofs` | theorems about `Billing`, and that it implements `HoldLedger` |
| `MCBilling` | instances for TLC |
| `Excursions` | one excursion programme with its slots, composed with `Billing` |
| `Excursions_proofs` | theorems about `Excursions`, and that it implements `Billing` |
| `MCExcursions` | instances for TLC |
| `Sessions` | the login sessions of one user in Redis, and the flags of his row |
| `SessionLife` | the abstract specification: a session begins once, and ends once |
| `Sessions_proofs` | theorems about `Sessions`, and that it implements `SessionLife` |
| `MCSessions` | instances for TLC |
| `Otp` | the one-time codes of one phone, with their limits, in Redis |
| `Otp_proofs` | theorems about `Otp` |
| `MCOtp` | instances for TLC |
| `Links` | orders on their way to a payment: the link task, its redelivery, the Redis key, the polling client |
| `Links_proofs` | theorems about `Links`, and that it implements `Billing` |
| `MCLinks` | instances for TLC |
| `Onboarding` | one user's application, photos and avatar, and the administrators who decide |
| `Partnership` | the abstract specification: a role and its profile come together, once |
| `Onboarding_proofs` | theorems about `Onboarding`, and that it implements `Partnership` |
| `MCOnboarding` | instances for TLC |
| `Accounts` | the rows of `users`: login, duty, roles, bans, deletion, and the purge with its files |
| `Accounts_proofs` | theorems about `Accounts` |
| `MCAccounts` | instances for TLC |

### Billing

An API request is a record in `req`: its operation, the order, the payment or driver, and
`seen`, the status it read.  The handlers correspond as follows.

- `process_bank_webhook`: `WebhookRepeated` when the order is already on the exchange (the
  code's only idempotence check), else `WebhookRead` and then `WebhookCommit`, which writes the
  status, the audit row and the PAYMENT transaction at once.  `external_payment_id` is unique, so
  `WebhookConflict` rolls back and the bank, which saw a 500, will repeat.
- `cancel_and_refund_order_hold`, for drivers (who may cancel any order) and guides:
  `CancelRead`, `CancelCommit`, and `CancelEnqueue`, the send after the commit.
- `accept_order_by_driver`: `AcceptLock` (FOR UPDATE NOWAIT and the status check) and
  `AcceptCommit`.  Commits of the other handlers wait while `lock` is held.
- `execute_bank_api_refund` in a worker: `RefundTake`, `RefundFind` or `RefundNotFound`,
  `BankReleases` or `BankRefuses`, `RefundCommit` or `RefundConflict`.
- A worker fails in two ways.  With `task_acks_late` (`infra/celery_app.py:21-30`) the message of a
  worker that dies as a whole, or is cut off, returns to the queue (`WorkerLost`), perhaps while the
  worker goes on (`Redelivered`).  But `task_reject_on_worker_lost` is not set and the pool is
  Celery's default one of child processes (`docker-compose.yml:51`): when only the child is killed, or the
  task raises (a refusal of the bank, two holds, any database error), the task is acknowledged and gone, with the
  bank perhaps released (`TaskFails`, `BankRefuses`, `RefundNotFound`).
- `RequestLost` is a process that dies, a commit that raises or a broker that refuses a task.

`forgotten` is history: the holds whose refund ended in such a failure, or was never sent, since the last
cancellation of their order.  It lets `RefundUnderWay` and `CancelledIsReleased` say that nothing else
loses a refund; that those failures do lose it is listed under the disagreements below.

A webhook carries the order and the user that the backend gave the bank: `payments.py:30-31` answers OK and
books nothing when one is missing, which the model takes the banks not to do, and as the route
authenticates nobody, that the caller is a bank that holds the money is an assumption too
(`bank[p] # "none"`).

`Faults` says which of the API, the banks, whole workers and single tasks may fail.  A second payment of one
order exists in the code because the link task is delivered again after a lost worker and asks
the bank for another payment; `OrderOf` maps payments to orders.

Of `order_status_logs` only the newest row is kept, since no code reads older ones.  Amounts are
left out: they are copied from the order and no decision depends on them.

### Excursions

`Excursions` extends `Billing` and adds the calendar: `seats` (`available_slots`), `slotLock`,
the slot of each order, bookings, and what a cancelling guide has read.  `BookLock` holds the
slot's row from its SELECT FOR UPDATE NOWAIT to `BookCommit`; a guide's request reads the order
(`GuideRead`), then the slot by its date (`GuideFindSlot`, or `GuideTwoSlots` when two slots share
the date), and `GuideCommit` writes back the counter it computed together with Billing's
`CancelCommit`.  A deletion is `DeleteCheck`, then `DeleteCommit` or `DeleteRefused` by the foreign
key, then `DeleteClean`.  `OtherStep` is everything Billing does to the same orders.

The UPDATE of the slot is flushed before the order is selected a second time; since no other
request can write the row until the commit, flush and commit are one step.  `get_by_id` is taken
to return the programme's card (it joins a collection and calls `scalar_one_or_none` without
`unique()`; what the library makes of that is not modelled).  A slot whose date has passed
refuses bookings, which changes nothing, so time is left out.

`returned` and `amiss` are history: the orders whose places a guide's cancellation has given back, and the
slots whose counter it has set wrong, by writing over one that had changed or for an order given back before.
A driver's cancellation, a refund or a webhook of an order on an excursion gives no place back, so
`SeatsAddUp` counts every order booked on a slot that no guide gave back, whatever became of it
(`Counted`), on every slot that is not amiss.  Places are counted as a set of pairs
of an order and a number of its tourists, not as a sum over orders: the provers count sets by lemmas of
the library, where a sum would need induction over data.  `NoOverbooking`, which the code breaks, counts
the orders that still hold their places (`Taken`).

### Sessions

One user's keys: `data` are the sessions with a `refresh:*` key, `index` the members of the sorted
set `user_sessions:*`, `grace` the pairs kept under `grace_period:*`.  A session id is the rank of
its creation time, which is its score in the set, so `Newest` is a comparison.  Redis runs one
command at a time: each call is an action, a MULTI pipeline is one action (`Store`), and a request
carries what an earlier call returned (`picked`).

- `create_tokens`: `NewSession` (id and time), `AddToIndex` (ZADD), `Pick` (ZRANGE of the ids over
  the limit), `Store` (SET, DEL and ZREM in one transaction).
- `validate_user_access` and its callers: `Refresh` or `AskAsUser`, `KeyExists` or `KeyMissing`, then
  `AdmitRefresh`, `Admit` or `Reject` by what the row says at that moment.
- `_rotate_session`: after `Store`, `SetGrace`, then `logout` of the old session.
- `logout`: `DropKeys`, `Unindex`.  `logout_all`: `ListIndex`, `Wipe` (one DEL), `Sweep` (SCAN, which
  returns every key present when it began and perhaps newer ones).
- `Ban`, `Reset` (another role or phone) and `DeleteCommit` change the row and then do logout_all.
- `RequestLost` at any step: the process dies or Redis does not answer.

`issued` are the sessions whose tokens a client may hold.  `stored` (sessions ever completed) and
`due` (what a logout_all is to end) are history, read by properties only.  Left out: the lifetime
of 30 days, which only deletes keys, and the payload of the tokens.

### Otp

One phone's keys: `code` (`otp:*`), `waiting` (`limit:otp_req_phone:*`), `daily` and `retries` (the
two counters), each with a lifetime that `CodeEnds`, `WaitEnds`, `DayEnds` and `LockEnds` may end at
any moment.  A counter is incremented by one call and gets its lifetime by the next, so `dailyEnds`
and `retryEnds` say whether that has happened.

- `request_otp`: `Ask`, `ReadLimits` (MGET; the address's own limit may refuse too), `ReadCount`,
  `SetCode`, `SetWait`, `IncrDaily`, `ExpireDaily` (EXPIRE NX), and the flash call is ordered.
- `verify_otp_code`: `Verify`, `ReadRetries`, `Compare`, then `Miss` and for the first failure
  `SetLock`, or `Clear`, which deletes attempts and code at once.
- `RequestLost` as in Sessions.

`spent` (codes that admitted somebody and were not given out again) and `torn` (a request died
between an INCR and its EXPIRE) are history.  A later call repeats EXPIRE NX for the day, but no
later attempt repeats it for the attempts: a request lost at that one call locks the phone for good,
and `LocksEnd` says it is the only way.  Left out: `workers/auth/tasks.py`, which places the call and
touches none of these keys.

### Links

A request is where its order is (`stage`): `CreateOrder` commits it, `SendTask` sends the link task and
answers, and between the two the process may die (`RequestLost`), which leaves an order no client
knows.  A worker's task is a record in `work`:

- `Take` (the "critical" queue), `Price` or `NoPrice` (a free excursion raises, and so do a route or
  tariff that is gone, `transfer_service.py:207-213`), then the bank's
  request: `BankOpens`, `BankFails`, or `NoBank` when `provider` is a word nobody knows and `""` is
  stored, which reads as no link; then `StoreLink` (SETEX), and `LinkExpires` at any moment.
- `WorkerLost` and `Redelivered` as in Billing: `task_acks_late` returns the message, and the task,
  which remembers nothing, asks the bank for another payment.  `losses` counts that; `MaxLosses` is
  its bound.
- `TaskFails` as in Billing: Redis, the database or the pool process fails at any step, SETEX included,
  and the task is acknowledged, with a payment opened and no link.  A refusal is acknowledged too, although
  the bank may have opened the payment all the same.  `failed`, which is history, has the orders this has
  befallen.
- `Poll` shows a page, and what was shown may be paid (`Pay`) also after the key has expired.

`Bill` is Billing with no requests and no workers: an order of Links is one that is pending there, a
payment made here is one held there.  `FeedsBilling` thus says that Billing's assumptions about
where orders and held payments come from (`CreateOrder`, `HoldPlaced`) are met by the code.

### Onboarding

`app` is the user's row of `onboarding_applications`; requests are records that keep what they read.

- `create_application`: `CreateRead`, for an archived application `CreateClean`, then the upsert
  (`CreateCommit`), which overwrites whatever the row
  has become, or `CreateRefused`: the INSERT gives no `target_region_id`, which models and migration
  make NOT NULL.  Both are explored, so that the handlers behind it are reached.
- `process_bank_webhook`: `BankRead`, then `BankAccept` or `BankRefuse`, by an UPDATE of the user's
  row that looks at no status.  `cancel_current_application`: `CancelRead`, `CancelCommit`, whose
  UPDATE does look.
- `get_onboarding_upload_url`: `Grant`; the client uploads (`Upload`) with a form that here is valid for
  ever, where S3 takes it for 15 minutes: more behaviours, none less.  `submit_survey`: `SubmitRead`, for each photo `Copy` and `Drop`, then `SubmitCommit`;
  `CopyFails` ends the request and leaves what was moved.  Of a photo's link the model keeps whether it
  is moved, left as it is, or taken for another key: the links handed out are path-style
  (`<endpoint>/<bucket>/<key>`), the key is cut after `.net/`, and so it begins with the bucket.
- A photo's field is an unchecked string, and what is no link to tmp is stored as it came: `links` are
  the fields that name a permanent document or an avatar of this user in path style.  A restart has
  exactly those deleted (`CreateClean`): `delete_files_batch` looks for `<bucket>/`, which the links set by the
  service, with the bucket in their host, do not contain.  `linked` is history: the files so named.
  `PhotosKept` and `AvatarAlive` except them, because the code does delete them.
- `approve_partner_application`: `ApproveRead`, `ApproveCommit` (profile, role, status and a driver's
  avatar at once) or `ApproveConflict` (the profile's `user_id` is unique); `RejectRead`,
  `RejectCommit`; `SetRole` is an administrator's change of the role, which keeps the profile.
- `update_avatar`: `AvatarRead`, `AvatarCommit`, `AvatarWipe` after the commit.

`checked` and `uploaded` are history too.  Partners of both kinds have profiles that never go while the
user stays.

### Accounts

`row` is what the handlers decide by: state, role, `is_superuser`, ban, first name, availability.  An
id names one row for ever: a phone that registers again after a purge gets another.

- `Login` is the upsert of `create_with_phone`; it locks the row until its commit, so it is one step.
  Requests of a logged-in user (`Authenticated`) read (`Ask`) and write later by id (`Update`, which
  finds nothing when the row is gone).
- `set_user_role`, `toggle_user_ban`: `RoleRead` and `BanRead` check the hierarchy (`Outranks`,
  `Level`), `RoleCommit` and `BanCommit` write what was decided.  `Promote` is `scripts/create_admin.py`.
- `toggle_work_status`: `DutyRead`, `DutyCheck` (or `Refused`), `DutyCommit`; a driver's acceptance is
  `AcceptRead` and `AcceptCommit`, with the order itself in Billing.
- `delete_account`: `DeleteRead`, `DeleteCommit`.
- `purge_abandoned_and_deleted_users`: `PurgeSelect` (with the excursions found by ids of *users*),
  `PurgeCommit` or `PurgeRefused` (orders, logs and reviews RESTRICT), and `PurgeSend` after the commit;
  `WipeFolder`, `WipeTours` and `FoldersStay` are the S3 task.  30 and 180 days may be over at any moment.

`own`, `owners` and `looked` of a request are history, for the properties.  The sessions a ban or a
purge ends are in Sessions; the rows of `admin_logs`, which go in the same commit, are left out.

## Runs

Passing runs:

| Run | Question | Instance |
|---|---|---|
| `billing_safety` | do the accounts and the exchange stay right under every fault, and is a refund lost by recorded failures only? | one order, a T-Bank and a Sber payment of it, 2 drivers, 2 requests, 2 workers, all faults; about 373 000 states |
| `billing_single` | when an order is paid once, is it booked, given back when it is cancelled unless its refund fails, and kept by its driver? | one payment, 2 requests, one worker, all faults, fairness; about 12 000 states |
| `tour_safety` | do bookings, guides, drivers and a deletion respect the calendar, and is the composed system an implementation of Billing? | 2 orders of 2 people, 2 slots of 2 places and one date, 2 bookings, 1 request, driver, worker and deletion, all faults; about 111 000 states |
| `otp_safety` | do the limits of calls and attempts hold, do locks end, and does a spent code admit nobody who looks it up later? | 2 requests, 2 codes, limits of 2; about 90 000 states |
| `sessions_safety` | do the limit of completed sessions in the index, logout_all and the life of a session survive overlapping and lost requests? | 2 requests, 3 sessions, a limit of one; about 1.3 million states |
| `links_safety` | is a bank asked once per delivery, does a waiting task end in a link or an error of its own, and do orders begin as Billing assumes? | 3 orders (3 payments of the first, one free, one for an unknown bank), 2 workers, one loss per order, all faults, fairness; about 138 000 states |
| `onboarding_safety` | what holds of applications, documents, partners and avatars when requests overlap and fail? | 2 requests, one document, which a driver has and a guide has not, 2 avatars, one file named by links, lost requests, failing S3; about 2.7 million states |
| `accounts_safety` | are owners, files and duty safe from overlapping requests and purges? | 2 users (one may be the owner, one may become a partner), 2 requests or purges, losses; about 1.1 million states |

In `links_safety` one loss makes a second delivery, and that is all there is to count: with it a bank can
be asked twice for one order, and the three payments leave one more than `OpenedPerDelivery` allows.  No
symmetry, because of the liveness property.  In `onboarding_safety` two requests are what a read, another
request's commit and a stale commit need; a document is moved on its own, so that one, the selfie, shows
every order of copy, deletion, failure and commit, and the proofs hold for any number.  One file named by a link
of the user's own (`MaxLinks`) is what an approval, a restart or an avatar needs to meet it, and one role an administrator gives
(`OtherRoles`) stands for both: nothing tells a customer from an administrator here.  In
`accounts_safety` user 2 may become a driver or a guide and user 1 may be made the owner, so that each
request has a target of another level, and an administrator and a purge meet over both; profiles are
numbered the other way round than users, as it happens when the later user was approved first.

`links_safety`, `accounts_safety` and `v_wrong_guide` switch deadlock checking off: a system whose orders
all have their links, or whose users are all purged, has nothing left to do.

In `otp_safety`, two requests overlap in every way, and the limits of 2 leave room for a call or an
attempt that is counted before the last one is checked; more of either only repeats them.

In `sessions_safety`, `MaxSid` = 3 with a limit of 1 is the smallest instance where an eviction
meets another login's eviction, and where a rotated session's id can be evicted while it is being
logged out.

One order is enough in Billing because handlers touch one order each and orders share only the
queue; two payments, requests, drivers and workers are the smallest numbers at which two of a
kind interleave.  `queue` needs no bound: a cancellation needs a live order, and an order is revived only by
a new payment.  In `tour_safety` two orders do not fit on a slot together, so that both bookings
race for the same places, and the second slot is there for the lookup by date.  Requests, workers, drivers and bookings are symmetric in the safety
runs; `billing_single` uses no symmetry.  The runs of `Excursions` switch deadlock checking off: when
every order is served or the programme is deleted, nothing is left to happen.

Runs that end in a violation, each a disagreement between the code and what the repository says:

| Run | What happens |
|---|---|
| `v_late_webhook` | an order is cancelled before its payment's webhook, which reads the cancelled order and puts it on the exchange; the refund task of the cancellation, still queued, then releases its money |
| `v_overbooking` | a guide's cancellation overwrites a concurrent booking's counter |
| `v_grace` | a refresh deletes the pair it has just kept for repeated requests |
| `v_wrong_guide` | the purge deletes the photos of the guide whose profile has a purged user's number |

Other disagreements the models reach, which have no run of their own:

- A second payment of an order (a link task delivered twice) sends an order that a driver has taken
  back to the exchange: the webhook's guard knows only its own status (`payment_service.py:36`).
- A process that dies between a cancellation's commit and the send of its refund loses the refund
  (`payment_service.py:128`); so does a task that raises or whose pool process is killed; a refund of a Sber
  payment goes to T-Bank, because a uuid has no underscore (`:163`), is refused and not retried.
  `forgotten` records them all.
- A link task that raises, or whose pool process is killed, leaves its client polling for ever (`failed`).
- A session stored after logout_all's scan survives it, also when logout_all ends a ban; the row then
  refuses its requests.
- A driver who takes an order between the look for his orders and the commit is off the line with an
  order, and `cancel_order_by_driver` refuses him there (`transfer_service.py:472`).
- A user restored between the purge's selection and its DELETE is purged; one user with an order
  makes the database refuse the purge of all, every night, after their sessions were ended.
- Two overlapping toggles of a ban or of the line write the same value; a deletion writes back the role
  it read.  A superuser who sets his own role to `admin` loses `is_superuser` (`admin_service.py:100`),
  although the check at `:51-54` is there to keep him from that.
- A survey, or the bank's answer, that read an application before it was cancelled or started again
  writes over it; two starts at a time wipe an application that is under way.
- A second approval for a role the user already has a profile of is answered 500 for ever; the cleanup
  of an archived application's photos finds none of those the service has filed, because it looks for
  `bucket/` in links that name the bucket in their host, and it deletes what the user has linked by hand:
  his avatar, or his permanent documents, while his row or a profile still names them.

## Fairness

`FairSpec` assumes that a handler that has read reaches its commit (weak fairness), that a bank
repeats a webhook until it is answered "OK", that a queued refund is taken, and that the steps of
a refund succeed in the end even if workers are lost now and then (strong fairness, since other
requests and losses disable these steps for a while).  The code justifies them: handlers have no
wait but the row's lock, the answer to a failed webhook is a 500, and `task_acks_late` returns the
messages of lost workers.  A task that fails is not delivered again, and no fairness pretends it:
what is promised then ends with `forgotten`.  Nothing makes a client pay, a driver accept or anyone cancel.

`Links` assumes that a queued task is taken (strong fairness: workers may be busy or lost in between)
and that a worker that is not lost goes on (weak fairness of its own steps); `MaxLosses` bounds the
losses, so that a task is not lost for ever.  A bank may refuse and a task may fail, and `LinkArrives` says so.
`Onboarding` and `Accounts` state no fairness and promise no progress: nothing in the code makes a user,
a bank or an administrator go on.

## Proofs

`Billing_proofs` assumes `BillingAssumption` only (types of the constants), `Excursions_proofs`
also `ExcursionsAssumption` and that requests may fail (`"api" \in Faults`), since a guide's request
on two slots raises.

- `TypeCorrect`: `TypeOK` is inductive.
- `LedgerInvariant` carries `RefundOnce`, `BooksFollowBank` and `ImplementsLedger`.  The promises
  alone are not inductive: the invariant adds what a webhook in flight and a refund task at each
  step know of the bank, so that a task that books a refund has seen the release.
- `ImplementsLedger`: each step of Billing is a step of `HoldLedger` on (`bank`, `BooksOf`) or a
  stutter; only `HoldPlaced`, `WebhookCommit`, the bank's steps and `RefundCommit` are not stutters.
- `ExchangeInvariant` carries `PaidFirst`, `TakenOnce` and `NewPaymentReopens`: a request that
  accepts holds the row's lock and the order is still on the exchange.
- `RefundNotForgotten` follows the tasks: a hold of a cancelled order is on its way until it is released or
  until one of the failures that `forgotten` records.  It needs no assumption on banks, payments or
  faults, and so says that those failures are the only ways to lose a refund.
- `DriverKeepsOrder` assumes one payment per order (`PaidOnce`), which the disagreements listed above
  show to be needed; `PaidTwiceOnlyAfterLoss` of Links says when it holds: as long as no link task is lost.
- `AckedMeansPaid`: an order of an answered webhook has a payment in the books (`AckedIsPaid`).  It rests on
  `ExchangeInvariant`: the webhook's only check, an order on the exchange, implies a payment.  That it is
  the very payment of the webhook (`AckedIsBooked`) needs `PaidOnce`: the webhook of a second payment is
  answered OK and not booked.
- `RefundNeedsCancellation` is about the behaviours in which an order is never seen cancelled (`Standing`):
  a refund task looks for a hold by the order's id alone, so the invariant `Untouched` says that such
  an order has no request about to send a refund, no message, no task and no release.
- `OnlyRevivalUnfunds` assumes of the behaviour that no handler writes over a cancellation (`CancelledForGood`),
  which the code does not ensure (`v_late_webhook`), and shows that nothing else is wrong: then what
  `models/orders.py` says of the exchange (`SearchingHasHold`) is true, and so it is of assigned orders.
  By `Untouched`, with what the accounts know of the bank.
- `TourInvariant` joins types, the ownership of locked slots (`BookingInv`) and deletions
  (`DeletionInv`), by induction on `TourNext`; `NoOrderOrphaned` and `PhotosStay` follow from it.
  `StepIsBillings` maps each step to Billing's, so `ExcursionsImplementBilling` and, through it, all that
  Billing promises (`ExcursionsKeepAccounts`, `ExcursionsKeepPromises`).
- `SeatsAreCounted` needs `SeatsInv`, which adds that only orders that were created are on a slot, that the slot is
  open, and that the places on it are finitely many; that a booking writes a counter nobody else has
  written since its SELECT comes from `BookingInv`.  The lemmas `PlacesOfOrder` and `PlacesAdd` count an order's places and
  those of a set with one order more; they hold for any number of orders and of tourists in each.
  `OverbookingCauses` concludes that a slot is oversold in two ways only: its counter is amiss, which
  `v_overbooking` shows, or an order whose places were given back stands again, as a late webhook has it.

`Sessions_proofs` assumes `SessionsAssumption` only.

- `SessionTypes`: `TypeOK`, with what a request knows at each step (`Sound`).
- `SessionsImplementLife` needs `FreshInv`: the id a request is about to store was given to no
  other request and never stored, so `Store` can only begin a session and every other step can
  only end one.
- `EarlierSessionsEnd` needs `DueInv`: what is due and still alive when the scan begins is among the
  keys it must return.
- `RefusalIsFinal` (`RefusedForGood`) needs `TokenInv`: tokens are handed out, kept for repeated
  requests and rotated only of sessions that were stored, and by `FreshInv` what was stored once is not
  stored again.
- `DevicesLimited` needs `CapInv`: take the completed members of the index together with the new
  sessions of any requests that wait to store; without what those requests have picked, at most
  `MaxSessions` remain.  The cap alone is not inductive, because a request's pick may be old when
  it stores.

`Otp_proofs` assumes `OtpAssumption` only.

- `OtpTypes`: `TypeOK`; the lemma `Moves` says for each action which request moves from which step
  to which, and the other theorems use it instead of the actions.
- `CallsHold` and `AttemptsHold` need `LimitInv`: the count together with the requests that have passed
  its check and not counted yet.
- `LocksAreTemporary` needs `LockInv`: any counter, not only one that refuses, has a lifetime or a
  request about to set it.
- `SpentCodesGone`: a spent code is not stored (`SpentIsGone`), so no lookup finds it any more.  Of two
  requests that found it before it was deleted, both are admitted: the theorem speaks of later lookups.

`Links_proofs` assumes `LinksAssumption` only.

- `LinkTypes`: `TypeOK`, with what a task knows at each step.
- `OrdersFirst` is the invariant `LinksHaveOrders`, which needs that queued and running tasks belong to
  committed orders.
- `OncePerDelivery` needs a count: payments opened for an order, together with its messages that are
  queued and the tasks that still may ask the bank, exceed the losses by one at most; a task that was
  redelivered while it runs is in the count, its message no longer.  A client pays what was opened, so
  `PaidTwiceOnlyAfterLoss` follows.
- `TasksAreKept` (`TaskNotForgotten`) is what safety there is in `LinkArrives`: a delivery that the broker still
  answers for (`Owed`) stays in the queue or with a worker until the link is there or the task has ended with an
  error of its own (`failed`).
- `ImplementsBilling`: `CreateOrder` and `Pay` are Billing's `CreateOrder` and `HoldPlaced`, all other steps
  stutter.

`Onboarding_proofs` assumes `OnboardingAssumption` only.

- `BankFirst`: a status past the bank's answer, or a request that has read one, means `checked`.
- `DocumentsKept`: a request that has moved a photo knows that it is in the permanent place (`Kept`), from
  which only a restart and an avatar's change delete, and only what the user has linked by hand; a file
  leaves the temporary place only after its copy.
- `AvatarsLive`: the key of an avatar not yet committed belongs to one request and nobody has linked it, so that
  what a request is about to delete is not the row's unless a survey has named it.
- `PartnersReal`: a partner's role, however it came about, has its profile behind it (from `Partnership`,
  through the refinement) and a confirmed phone (from `BankFirst`).
- `ImplementsPartnership`: the commit of an approval is `Join`, a change of role is `Assign`.

`Accounts_proofs` assumes `AccountsAssumption` only.

- `FilesOutlive`: a purge that is about to send has deleted its rows, and a purged id stays purged.
- `OwnersKeep` needs what a request knows of its target: when it was an owner as it was read, the
  request is his own.
- `LineLeftFree`: a request that takes its user off the line has looked for his orders.
- `WipedByNumberOnly` needs `ToursInv`: the excursions a purge has on its list are of guides whose profile
  has the number of a selected user.  `SameNumbersSpare` assumes that profiles have their users' numbers,
  which the code does not ensure (`v_wrong_guide`), and shows that nothing else is wrong with the purge
  of excursions: then what the comment in the code says of it is true.

Only model-checked: liveness (`HeldIsBooked`, `CancelledIsReleased`, `LinkArrives`), since strong and weak
fairness speak of ENABLED, which the provers do not expand.  Every invariant and action property
that a passing run checks is a theorem.

## Plan

1. Proofs about the other disagreements of the kind of `OverbookingCauses`, `OnlyRevivalUnfunds` and
   `SameNumbersSpare`, which say how far a fault reaches: survivors of logout_all.
2. One composition of `Accounts` with `Billing`: the order a driver takes while he leaves the line, and
   the orders that keep a purge from its users.
3. The nightly purge of applications, once the code can run it (see below), and `Reviews`, once an
   order can be completed.

## Not modelled

- Reviews: `create_review` wants an order in COMPLETED, a status no code sets (`in_progress`, `rejected` and
  `dispute` likewise appear in guards only), so that every review is refused.
- The nightly purge of applications (`onboarding_service.py:353`): `infra/celery_app.py:9` names
  `app.workers.onboarding.tasks` while the directory is `onbording`, so that no worker loads it, and its loop
  reads `app.user`, a lazy relation, which an asynchronous session refuses.  The models of other components
  assume workers that start.
- The registry of countries and audit rows of administrators; links that a survey gives in its text fields or
  to files of other users.
- Uniqueness of usernames and emails, a change of phone beyond its sessions, and `last_active`.
- Wording, logging and field formats; searches, drafts and price lists, which only read;
  `create_order_and_get_payment_url`, which no route calls; signatures and amounts sent to the banks
  (`int(price * 100)` of a float price may be a kopeck short; no decision depends on it).
- Configuration and migrations; `cli/remove_user.py`, whose lines are all commented out.
