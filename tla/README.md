# LORO-S: models, checks and proofs

This directory holds a TLA+ model of the core of the LORO-S server (NestJS and
TypeORM over PostgreSQL, `src/src`), the TLC configurations that check it on
small instances, and theorems about it that TLAPS proves for every value of the
constants. Paths below are relative to `src/src`.

## 1. The system

The server is one Node process: handlers run to their next `await`, so two
requests interleave exactly at database calls, at other I/O and at
`setImmediate`. State lives in the database, in the in-memory cache-manager
store, in maps of singleton services, and in listeners' queues (EventEmitter2).
Almost nothing runs in a transaction: an operation typically reads an object
(perhaps from the cache), checks it, changes it, saves it, inserts related rows,
and emits an event, each in a database call of its own.

| Component (code) | State | Operations | Interacts with | Correct when |
|---|---|---|---|---|
| Approvals (`approvals/`) | `approvals`, `approval_history`, `approval_signatures` rows; copies cached per user | create, update, submit, decide (approve, reject, request info, delegate, escalate), sign, withdraw, archive, remove, bulk | emits `approval.action.performed` to leave, claims, clients | a decision is final, recorded and announced after it is recorded |
| Leave (`leave/`) | `leave` rows, cached copies | create with conflict check, update, approve, reject, cancel, remove; listener | opens approvals in the background, hears their decisions | a leave is approved or rejected for a cause; a decision reaches it; cancelling closes its approval |
| Claims (`claims/`) | `claims` rows, the amount of their approvals | create, update, remove, restore; listener | approvals, as leave; products and points after the answer | a claim is approved by a decision; a pending approval has its amount; a decision is not amended |
| Attendance (`attendance/attendance.service.ts`) | `attendance` rows (a shift with its breaks) | check in, check out, start and end a break, automatic close, records of clocking machines | runInTransaction, organisation hours, rewards and notifications after the answer | one open shift, consistent breaks, a closed shift stays closed |
| Attendance reminders, reports, hours | sets of what was sent, in memory | cron jobs | attendance rows, notifications | a reminder is sent once |
| Quotations (`shop/shop.service.ts`, `products/`) | `quotation` rows, product analytics | status by staff and by token, send, edit, recordSale | event queue, e-mail, analytics | fulfilled only after approval; one sale per approval |
| Event queue (`lib/services/event-queue.service.ts`, `shop/listeners/`) | queues per priority in the cache | queue, tick, retry, dead letter; the PDF listener | shop, e-mail | an event is emitted once and in order; a mail follows its PDF |
| Licence usage (`licensing/license-usage.service.ts`) | a buffer of calls per licence, usage rows | count, flush on a threshold and on a timer | HTTP interceptor | no call is lost or counted twice |
| ERP connections (`erp/services/erp-connection-manager.service.ts`) | connections and promises of them, per country | get, create, close all | ERP queries | one live connection per country, none leaked |
| ERP queries (`erp/services/erp-data.service.ts`) | breaker, counters, semaphore; caches of results | every query, protected by them | ERP database | the breaker opens for failures, is not stuck, and every query is answered |
| Users and targets (`user/`), authentication (`clerk/`, `guards/`) | users, `user_targets` rows, running calculations | CRUD, calculation, recurrence, update of targets, sync | clerk, ERP, leads, shop | nothing counted twice, a recurrence not undone |
| Devices (`iot/iot.service.ts`) | `device_records` rows, three caches of them | record an opening or closing event, create or update a record | tracking of devices, reports | duplicates found, pairs far enough apart, complete records kept |
| Experience (`rewards/rewards.service.ts`) | `user_rewards`, `xp_transaction` rows | awardXP | tasks, leads, logins, check-ins, claims, journals | experience is what the transactions account for |
| Loyalty (`rewards/loyalty.service.ts`) | profiles, points transactions, claims of rewards, conversions, `client.creditLimit` | enrol, award, complete, claim, convert, follow up | clients, SMS, e-mail | credit is what was converted, and a conversion takes its points |
| Clients, leads, tasks, orders, projects, competitors, resellers | rows of their own | CRUD, scoring, reminders | approvals (clients), e-mail, ERP | - |
| Tracking, check-ins, map | readings | append, aggregate | attendance, Google Maps | - |
| Journals, interactions, warnings, payslips, docs, assets, news, feedback, organisation, branch, tips | rows | CRUD | e-mail | - |
| Notifications, e-mail, storage, PDF, reports | logs, de-duplication map | send, render | providers | one message per event |

What is hard here is the same thing in several places: a status is read
(often from a stale copy), checked, and written some awaits later, while another
user, tab, listener or machine does the same; and one logical change is several
database calls, any of which may fail or be the last before a restart. The list
of such places, each with its line and the properties aimed at it, is `hazards`
in `PROJECT.json`.

## 2. Plan

Done, in the order of importance:

1. `Approvals`, which leave, claims and clients depend on, with its abstract
   specification `ApprovalLifecycle`, and the proofs about both.
2. `Leave`, composed with approvals through `ApprovalLifecycle`'s behaviour,
   with the proofs of its safety properties.
3. `Attendance`, with the proofs of its safety properties.
4. `Claims` with their approval; `Quotations` and the `EventQueue` behind them;
   the counters that are read, added to and saved (`LicenseUsage`, `Targets`,
   `Rewards`, `Loyalty`); the protection of the ERP (`ErpConnections`,
   `ErpBreaker`); `DeviceRecords`; with proofs about all of them, and about the
   instance that holds them.

Left, in the order in which it would be taken up: the guards of the scheduled
attendance notices (a report is sent inside a window of ten minutes, checked by
a job that runs every ten, and marked as sent after an await; break reminders
are looked for every half hour in a window of one minute, so most are never
sent); the setting of targets from the ERP; the sync with clerk.

Every module keeps to recursive functions and library folds where it needs
recursion, so that all of them can be proved about.

| Module | Role |
|---|---|
| `ApprovalLifecycle` | abstract specification of one approval |
| `Approvals` | the approvals service for one approval |
| `Leave` | the leave service with its approvals |
| `Attendance` | the attendance service for one user |
| `Claims` | one claim and its approval |
| `Quotations` | one quotation: status, sales, editing |
| `EventQueue` | the queues, their processor, the PDF listener |
| `LicenseUsage` | the usage buffer and its flushes |
| `ErpConnections` | the connection manager for one country |
| `ErpBreaker` | breaker, retries, timeouts and semaphore around a query |
| `Targets` | progress towards one target |
| `DeviceRecords` | one device's records on one day, and their caches |
| `Rewards` | the experience of one user |
| `Loyalty` | one client's loyalty profile and credit |
| `ApprovalsProofs` | typing, inductive invariant, finality, refinement and audit of `Approvals` |
| `LeaveProofs`, `AttendanceProofs`, `DeviceProofs` | inductive invariants and safety of these services |
| `ClaimsShopProofs` | `Claims`; `Quotations` and `EventQueue` |
| `ErpProofs` | `ErpBreaker` and `ErpConnections` |
| `CountingProofs` | `Targets`, `LicenseUsage`, `Rewards`, `Loyalty` |
| `ServicesProofs` | `MCServices` implements each of its ten components |
| `MCApprovals`, `MCLeave`, `MCAttendance`, `MCServices` | values of the constants for TLC; `MCServices` holds the ten modules from `Claims` to `Loyalty` |

## 3. Approvals

**State.** `row` is the row of the approval (the columns a guard reads or that
tell two writes apart); `hist` and `sigs` are its history rows and the number of
its signature rows; `cache[u]` is the copy `findOne` keeps under
`findOne_{id}_{u}`. For each request: `pc`, `call`, the entity object it holds
(`copy`, or the cached object itself when `shared`), the columns selected by its
save (`base`), and the history entry it will insert (`entry`). `events` are the
emitted `approval.action.performed`.

**Steps.** A request is split at its awaits:
`findOne` (`HitRefuse`, `HitProceed`, or `Miss` and then `FillRefuse`,
`FillProceed`), the insertion of a signature (`AddSignature`), the save
(`Compare`, `Write`), the history entry (`Record`), invalidation and event
(`Announce`). `Fail` is a failing database call, `Restart` a restart of the
process, `Evict` the end of a cache entry. The per-operation differences (who,
from which status, to what, with which history entry) are the operators
`Permits`, `StatusAfter`, `Assign` and `EntryFor`.

**What comes from libraries** (marked external in the map). cache-manager's
memory store clones on `set` and returns the stored object on `get`: a request
that hits the cache assigns to the cached object. TypeORM's `save` selects the
row and the ids of the cascaded collections, and updates, in a transaction, the
columns that differ; a child row the object lacks is an orphan whose foreign key
is set to NULL, which `approval_history.approvalUid` and the signatures' column
refuse, so that the save is rolled back (`CompareOrphans`). This is what makes
decisions final: every operation that changes a status also inserts a history
row, after which any copy loaded before is refused.

**Runs.** `Approvals_all`: three requests of any operation, by requester,
approver, a delegate who is a manager, and an administrator, signature and
reason required, failures and restarts. `Approvals_race`: four requests
(create, approve, reject, withdraw, remove), no failures. Requests are symmetric.
Three requests are the smallest number for an interference between two that
follow a creation, and are enough for a stale copy (one to load it, one to
decide, one to use it); the fourth allows two
decisions to overlap a withdrawal. Each request is performed once, hence no
deadlock check.

* `DecisionIsFinal`: once `Decided` (the status is closing, every object a save
  would accept shows it, no overlapping save is about to change it), the status
  never changes and `Decided` holds for ever.
* `RecordDecides`: inserting a history entry is what makes a closing status
  decided.
* `LifecycleSpec`: the refinement of `ApprovalLifecycle`, with
  `final` mapped to `Decided`.
* `AnnouncedIsRecorded`: an announced action is in the history.
* `RestingStatusIsAudited`: without failures, at rest, some history entry ends
  in the stored status. It is checked and proved for the operations other than
  update, submit and delegate. With any of these, two requests of one user that
  share the cached object (a draft submitted in one window and withdrawn in
  another) can leave a row that is withdrawn and a history that says submitted.

What the documentation says and the code does not keep (each a run that finds
the violation): `CacheIsCurrent` (`Approvals_stale_cache`),
`WithdrawalIsIrreversible` (`Approvals_withdraw`), `SignatureCompletes`
(`Approvals_sign`). One more disagreement has no run, since a single guard shows
it (section 8): an approval about which information was requested can, by the
documentation, be withdrawn, and `withdraw` refuses it. `Closing`, the statuses
that are meant to be final, therefore leaves `additional_info_required` out,
although no operation leaves it. The model also has these behaviours: a removed
approval can be updated through a user's stale copy; two updates may write the
same `version`; `escalated` is left by no operation, and `submitted`,
`under_review`, `completed` and `cancelled` are never set.

**Abstractions.** One approval, one organisation; `type` and
`requiresSignature` are constants; requests carry the fields their DTOs declare;
a user's requests use the role the guard saw.

## 4. Leave

`row` are the leaves of one employee, `cache` the status of the copy `findOne`
cached (callers of another branch would have a copy of their own), `approval`
the approvals opened for them. A request is one HTTP call together with what it
leaves behind in the background: `Insert`, `Check` and `AutoReject` for
`create`; `Hit`, or `Query` and `Fill`, then `Revoke`, `Reset`, `Write` for the
others; after either `Reread` (the background reads the leave again) and
`Submit` (it opens an approval for what it has read); `Decide`, `Hear`, `Apply`
for a decision on an approval and the listener. An approval behaves as
`ApprovalLifecycle` allows: it may be decided again until its decision is final,
which is what overlapping requests on it may do.

`Leave_all` checks two leaves on two days, two approvals, three requests of any
operation. An update may carry a status (`UpdateLeaveDto` inherits it, and
no validation strips it), and then writes it. `ApprovedIsDecided`: a leave is
approved only by a manager's approval of it, by one of its own approvals, or by
an update that carried the status. `RejectedHasCause`: a rejection is
somebody's, or follows a booking of another leave. `DecisionReachesLeave`
(liveness): an announced decision reaches the leave unless the listener fails.
Fairness is weak fairness of each request's continuation: an awaited promise, a
`setImmediate` callback and a listener are run by the event loop once they can
be. No fairness is assumed of new requests, of evictions or of failures.
`Leave_cancelled` finds that a cancelled leave keeps its open approval.

The dates are sets of days; durations, half days and notifications are left out.

## 5. Attendance

`shift` are the rows of one user. Each device performs one call at a time:
`Begin`, a select (`LookIn`, `LookOld`, `LookShift`, or a refusal), and an insert
or update computed from the row as it was selected (`Insert`, `AutoClose`,
`CheckOut`, `StartBreak`, `EndBreak`), under READ COMMITTED without locks.
`AutoClose` is saved outside the transaction of its check-in. Of a break the
model keeps what the two ways of counting its minutes tell apart: `endBreak` adds
its whole minutes to `totalBreakTime` (`differenceInMinutes`, 4464), a check-out
rounds each break of `breakDetails` (`time-calculator.util.ts:157`). Four lengths,
from no minute, a half, one, and one and a half on, are all combinations of the
two below two minutes; whole minutes beyond are the same in both.

`Attendance_all`: two devices, two days, check-ins that carry `present` or
another status, six calls (the longest interesting sequence is check-in, two
breaks, check-out). `MaxCalls` bounds the calls. The properties are stated for
histories without overlapping calls (the variable `overlapped` remembers one);
with overlapping calls the code keeps none of them, see the hazards.

* `OneOpenShift`: at most one open shift, unless a check-in was made beside a
  shift that `checkIn` does not look for (`unseen`).
* `BreaksAgree`: count, list and total of the breaks agree.
* `DeductsBreaks`: a check-out deducts the total, and one minute more for each
  break that left half a minute or more over: the shift's row and its hours
  worked differ by that, at most by one minute for each break, and by nothing
  else.
* `ClosedIsUntouched`: nothing changes a shift once it is closed.

`Attendance_duplicate` finds that a second check-in on the same day can be
accepted.

## 6. The ten services of MCServices

The ten components below share no state that is modelled, and the code joins
them only through calls whose answer they do not wait for. `MCServices`
therefore runs them side by side without interleaving them: `part` names the
component of a behaviour, `Alone(p)` holds the others still. A product of the
ten would reach no further state of any of them. `Services_all` checks all their
properties over the ten (some 800,000 states, in about three minutes),
`Events_retry` and `Loyalty_convert` one finding each.

Each module follows the same pattern: a call is split at its awaits, what it has
read is kept in the call's record, and a history variable (`disturbed`,
`overlaps`, `checksRaced`, `savesCrossed`, `callsCrossed`, ...) remembers
whether calls met. A property that holds whatever overlaps is stated without
it; one that the code keeps only for calls that do not meet says so.

**`Claims`.** A claim, the approval `create` opens for it in a `setImmediate`
callback, and the copy of the approval cached for its approver. Three requests
among create, update, remove, restore, view, delegate, approve and reject; a
failing database call; eviction. `ClaimApprovedByDecision` holds whatever
overlaps. Without overlap, `DecidedApprovalIsKept` (an amendment does not touch
a decided approval), `OutcomesAgree`, and `PendingShowsClaim`: the row of a
pending approval has the claim's amount. The last is about the row. An approver
whose copy was cached (`approverCopy`) is shown the copy, for nothing clears it,
and a delegation from such a copy saves the old amount over the new one: the one
exception the property makes, for the very amount that was saved. The status
check of `update` is empty; `UpdateClaimDto`'s default status is not applied,
since no global `ValidationPipe` transforms.

**`Quotations`.** A quotation's status by staff (within the table of
transitions), by review token, by sending, and the editing of its items, by two
users at once. `FulfilledWasApproved` holds whatever overlaps,
`SalesMatchApprovals` while calls do not. Of the editing no property is checked:
without overlap the guard `canEditQuotation` says all there is to say, with it an
edit lands in whatever status the quotation has by then (section 8).
`MaxApprovals` (2) bounds the counters: two are needed for an approval that is
taken back and given again, which records the sale twice. The conversion of a
quotation has no action: its query loads no items, so it is always refused, and
its rollback commits nothing (`quotation-conversion.service.ts` 149, 376).

**`EventQueue`.** Two quotations, one with a mail, one placed by staff; ticks,
the two runs of the PDF listener (an emitted and a queued event), eviction of a
queue, restart. The batch is one, so that a queue outlasts a tick. The cache
answers within the turn of the event loop, so `queueEvent` and a whole tick are
one step each. `NothingLost` relates what each queue was given to what was
emitted; `MailedIsStored` relates the two runs to the row; `QueuesDrain` is
liveness under weak fairness of the tick (a `setInterval`) and of what the
listener awaits (an answer or an error comes); nothing is assumed of
publications, evictions, failures or restarts. `Events_retry` finds that a PDF
that failed is not retried: Nest catches what a listener throws.

**`LicenseUsage`.** Two licences, one of whose ids begins with the other's (the
flush on the threshold looks keys up by a prefix), two flushes, three calls with a
threshold of two, failure and restart. A row may be saved and the answer be lost
(`LoseAnswer`): the flush takes it for a failure, keeps the buffer, and counts
its calls once more (`recounted`; `MaxRecounted`, 1, bounds it: a second lost
answer repeats the first). `NeverOvercharged` and `EveryCallCounted` count a
licence's calls and these.

**`ErpConnections`.** Four callers of `getConnection`: a cached source that is
open, closes on its own, or is found stale; its destruction; a creation that
others wait for, fails or succeeds. A destruction may fail: the error is ignored,
and the connection deleted from the map though it is open (`DestroyFails`).
`OneOpening` holds whatever overlaps, `OpenIsCached` unless two callers check one
connection at once, and for all but those sources (`undestroyed`).

**`ErpBreaker`.** Three queries with two attempts each, two places in the
semaphore, thresholds of two. An attempt that times out is abandoned and goes on
holding its place; `MaxAbandoned` (1) bounds those that still wait in line. The
counts of network and SQL failures cannot reach their thresholds before the
total does, and are left out. `HalfOpenIsTested`, `OpenAfterFailures`;
`QueryIsAnswered` is liveness under weak fairness of the two timers, the timeout
of an attempt and the delay before a retry. Of the database nothing is assumed:
it may never answer.

**`Targets`.** One user's progress: activities, whose `createdAt` is the start of
a transaction that commits later; calculation, recurrence and update, each of
which loads an entity, and later reloads the row and updates the columns that
differ. `MaxClock` (5) and `MaxPeriods` (2) bound the events and the recurrences:
enough for a calculation, a recurrence, and a second calculation of the new
period. An update may carry the progress itself (`update-user-target.dto.ts`
25-149 declares the progress columns, `user.service.ts` 3702-3766 writes them):
`Given` remembers by how much the updates a row goes back to have changed it, and
`NeverOvercounted` allows for that much and no more. `ProgressSet` has a value
below zero, which a calculation may refuse to save, and one above what was earned.
`NeverOvercounted` allows jobs that overlap unless a save falls between
the two halves of another's; `ArchiveIsKept` needs jobs that do not overlap.

**`DeviceRecords`.** Three calls, two of them at a time (`MaxDeviceCalls`), so
that two closing calls can overlap on a record a third has opened; single events
and both times at once, with either, both or neither given, as the DTO allows;
times that are duplicates, too close, and far enough apart. `MayAsk` spreads
these over the callers. `Since` is what `getRecentEvent` takes for recent (497):
one of the closing events comes when the first update is no longer so. The three
caches are filled and cleared inside transactions, with expiry; a written row is
locked. Failures fall anywhere, also between the commit and its answer and in
the clearing after it. The clearing after the commit may leave the copy of the
latest record (`Clear`): it deletes a key made of the UTC day of `createdAt`
(240-246), the caches use that of the server's midnight (352, 398), and these
differ when the server is not in UTC.

* `CopiesAreCurrent`: without overlap, every copy is what the database would
  answer. The latest record alone may be another than the one remembered, and
  then that one is complete, so nothing is added to it.
* `CompleteIsKept`: without overlap, a record with both its times stays.
* `ClosedApart`: whatever overlaps or fails, an opened record that was inserted
  with a time is not given a closing time within five minutes. A record inserted
  with neither time is left out, because it can be closed too early (section 8);
  a row remembers which it is (`timed`).

A record closed too early is removed in a transaction that is rolled back;
`updateRecord` and `removeRecord` are always refused and have no action.

**`Rewards`.** Two overlapping awards to one user: find or create the row,
insert the transaction, save the row, or fail at any of these. Levels are scaled
down to ranges that awards of one and two cross. An amount is any number:
`CreateRewardDto` asks for one and no `ValidationPipe` is installed, so a
negative award passes `POST rewards/award-xp` (fractions too; the integer
columns refuse them). `MaxLogged` (3, fines counted without their sign) reaches
into the last range. `XPIsLogged`: the experience is never more than the awards
granted, nor less than the fines, whatever overlaps or fails, and is equal to
their difference if no awards overlapped and none failed between its two saves.
It may exceed that difference, when a fine is lost. The model also shows that
the first award of a category which a new breakdown lacks ("task" beside
"tasks") is lost in the breakdown: undefined plus a number is NaN, stored as
null.

**`Loyalty`.** Two calls on one client's profile. The points are decimal columns
read as text, so an award appends its digits, which the column rounds
(`Appended`), `claimReward` compares texts (`TextLess`), and its deduction is
refused after the claim was saved. `CreditIsRecorded` relates the credit limit
to the conversions: never more, and equal if no calls overlapped and none failed
half-way. `Loyalty_convert` finds that a conversion takes its points twice.
Bounds: one conversion of 100 points, one voucher, hundredths up to `MaxEarned`,
which leaves the welcome and completion awards and one more. A save is one step
here: TypeORM's reading of the row just before its update is not split off, as
it is in `Targets`.

## 7. Proofs

Each theorem below holds for every value of the constants that satisfies the
assumption named in its module, and rests on an inductive invariant with three
facts: initial states have it, every step keeps it, it implies the property. TLC
evaluates the assumptions in every run of those modules.

`ApprovalsProofs` proves `Typing`, one step per action, and then `Finality`,
`RecordingDecides`, `Refinement` (every step is an `Open`, a `Move` or a stutter
of `ApprovalLifecycle`) and `Announcing`, from `Inv` (typing, and which of
`copy`, `shared`, `base`, `entry` and `call` a request holds at each `pc`) with
`Behind`: no object holds more history entries or signatures than the database.
Finality rests on counting: both tables only grow, so an object that lacks an
entry once lacks one for ever, and one that lacks none was loaded after the last
entry and shows the decided status. `StatusAlwaysAudited` is about services
without failures, update, submit and delegate (`~Failures` and
`Ops \cap LeavesOpen = {}`, as in `Approvals_race`, which checks the property).
Its `Audited` says that the stored status is `Sure` (some entry ends in it) or
about to be recorded by the request that saved it, and, for every request, that
what it holds does not undo that (`AuditOf`).

`AttendanceProofs` proves the five properties of `Attendance_all`. `Inv` adds to
the typing `Alone` (while no calls have overlapped, the row a call has read is
the row in the table), `AllConsistent` (the properties row by row, with what an
open shift's breaks look like) and `Single` (one open shift, and none that is
active when a check-in inserts; this also needs `unseen` to be false).
`BreaksDeducted` adds lemmas that count the breaks of a list by their length
after one is added or ended.

`LeaveProofs` proves `LeaveTyping`, `ApprovedAlwaysDecided` and
`RejectedAlwaysCaused`. The second is inductive once typing says what a request
holds at each place (`Holds`); the third needs that every booking has a cause
and that a request about to reject has seen one (`Causes`).

`ClaimsShopProofs`, for `Claims`: `ClaimsTyping`, `ApprovedOnlyByDecision`,
`DecisionAlwaysKept`, `PendingAlwaysShowsClaim` and `OutcomesAlwaysAgree`.
`DecisionAlwaysKept` needs `KeptInv`: one request is in progress, it is
`Careful` (one about to amend has seen the approval pending), and the approver's
copy is behind the row once the row was decided, so that saving it is refused.
The last two rest on `SettleInv`, which follows the only request: what it has
read is the row, a pending approval has the claim's amount, or that of a
delegation, except between the save of the claim and the amendment, and a
decided one its status except until the listener has heard of it.

`ErpProofs`: `HalfOpenAlwaysTested` and `OpensOnlyAfterFailures` are inductive
with the typing, which itself needs that running and abandoned attempts together
fill at most the semaphore (`BreakerTyping`). `AlwaysOneOpening` and
`NoConnectionLeft` need `CreationKept` (a source is opening only for the caller
whose creation is known), `UseKept`, and, while no checks have met, `Sole`: an
open source is the cached one or one of which a destruction failed, and a
closing one has its caller.

For `Quotations` and `EventQueue`: `AlwaysApprovedFirst` needs that a call about
to write a status of fulfilment read one that needed an approval, and that no
quotation is ever "pending" or "inprogress", which the table would let pass.
`OneSalePerApproval` follows the sale through each step of the only call
(`SaleInStep`). `NothingEverLost` and `AlwaysStoredFirst` from `EventsInv`, with
lemmas on cutting and concatenating sequences.

`CountingProofs`: `NeverCountedTwice` needs that every loaded entity is `Honest`
too, with what updates have given it, and that the columns a job will update are
those in which it differs; `ArchiveAlwaysKept` that the only job started from
the row. `NeverChargedTwice` and `NoCallForgotten` follow a flush through its
array and its total, lost answers included. `XPAlwaysLogged` assumes nothing of
the amounts: what a call read and what it will add lie between fines and grants
(`Within`), and for a lone call are their difference (`LoneCall`);
`CreditAlwaysRecorded` the same of limit and points from the moment a conversion
is recorded.

`DeviceProofs`: `DevicesTyping` with `DevicesInv`, which says that no copy and no
call refers to a record there is not. `CopiesAlwaysCurrent` and
`CompleteAlwaysKept` follow the only call (`CurrentInv`): until it writes, every
copy in the cache is what the database would answer (`Current`; the latest record
may be another complete one, `LatestComplete`), and what it is about to change or
remove is not complete. `ClosedAlwaysApart` has no hypothesis: calls overlap, fail
and ask for anything the DTO allows. Every record that was inserted with a time
was opened first or closed first (`KindInv`). Of one opened first (`OpenedFirst`),
every copy a call may still plan on, and every write under way, has that opening
and no closing too close to it; one closed first (`ClosedFirst`) has its closing
in all of these, so that it is never open without being complete.

`ServicesProofs`: `InstanceIsEach`, the instance that `Services_all` checks
implements the specification of each of its ten components, fairness included,
so every theorem about a component is one about the instance; `ServicesTyping`
puts their types together.

Every invariant and every action property of the passing runs is stated by a
theorem. Only model-checked: the liveness properties `DecisionReachesLeave`,
`QueuesDrain` and `QueryIsAnswered`, which the proof system does not reach.
`RestingStatusIsAudited` is proved under the hypotheses above, which are those
of its run.

## 8. What the runs found

Each of these is a run that expects the violation, with the quoted line in
`PROJECT.json`.

* `Approvals_stale_cache`: a decision leaves the cached copies of an approval.
* `Approvals_withdraw`: a decision that overlaps a withdrawal undoes it.
* `Approvals_sign`: a signature is inserted and the signed approval not saved.
* `Leave_cancelled`: a cancelled leave keeps its approval open.
* `Attendance_duplicate`: a second check-in of a day can be accepted.
* `Events_retry`: a PDF that failed is not generated again.
* `Loyalty_convert`: a conversion takes its points twice from the balance.

Disagreements with the documentation that have no run, one call or two being
enough to see each:

* `approvals.controller.ts:3444` says "Can only withdraw pending, under review, or
  info-required approvals", 3616 lists `ADDITIONAL_INFO_REQUIRED` among the
  `withdrawableStatuses`, and so does `getValidStatusesForAction`
  (`approvals.service.ts:2492`); `withdraw` (1936) accepts pending and under
  review only, so that such an approval is left as it is for good.
* `shop.service.ts:2549` says "Check if quotation can be edited (before major
  stages)", and the refusal at 2593 "Editing is only allowed before SOURCING,
  PACKING, or IN_FULFILLMENT stages": the list of statuses lacks "returned", so a
  returned quotation, which was fulfilled, can be edited; so can a rejected or an
  approved one; and an edit that overlaps a change of status replaces the items
  of a quotation that is already being sourced.
* `claims.service.ts:2062` says "Cache invalidation will be handled by the approval
  update flow if needed": nothing handles it. An approver who views an approval,
  and views it again after the claim was updated, is shown the old amount while
  the copy lasts.
* `iot.service.ts:2411` and 3264 say "If open and close are within 5 minutes, delete
  the record instead of updating". The removal at 2411 is rolled back. An opening
  time added to a record that has only a closing time is not checked at all: two
  calls, the second with an opening a minute before the closing, leave a record
  that is too short. And a record inserted with neither time can be closed too early
  by calls that overlap: one closes it, a second opens it from its older copy and
  so takes the closing back, a third adds the same opening, unchecked, to the copy
  the first left. `ClosedApart` is about the records and writes that remain.
* `iot.service.ts:2383` returns from an open transaction: neither committed nor
  rolled back, its connection goes back to the pool with the transaction open.

Observed while modelling, without a document to hold them against: a quotation
that goes back to negotiation and is approved again records its sale twice; the
row and the hours worked of a shift count its breaks differently, by up to a
minute for each; the mail with the PDF is queued once per
run of the listener, with one object where `communication.service.ts:453` takes
positional arguments; the flush on the timer serves only the first buffer that is
not empty; any `QueryFailedError` of the ERP counts as worth a retry; a target's
window excludes an order completed after the calculation whose window held its
creation, and an event during a running calculation is dropped; the hourly
loyalty follow-up saves rows it read before sending the mails, and so takes back
what happened meanwhile; `timesRedeemed` never rises and no claim becomes
`REDEEMED`, so the limits on rewards never bite.

## 9. Not modelled

The components with status `not_modelled` in `PROJECT.json`, each with its
reason. They are of three kinds:

* reading and rendering: lists with their caches, statistics, reports, analytics,
  PDF and mail templates, most of the lines of the largest services and all of
  those of the controllers, whose text is mostly API documentation. There is no
  state for a property to be about;
* CRUD over single rows with no protocol between them (journals, assets, news,
  organisations and so on): the model of one would say only what its assignments
  say;
* adapters of outside services (clerk, mail, SMS, maps, storage), whose behaviour
  is theirs.

Of the modelled components, left out are: `leave` and `approvals` lists and
messages; bulk consolidation, scheduled closing and reminders of attendance;
`closeAllConnections`, which nothing calls at run time; `licensing/lib` and
`event-retry.service.ts`, which nothing injects; the setting and deletion of
targets and their update from the ERP (`user.service.ts` 4785-5240); devices'
own rows, logs and analytics; virtual cards, tiers, broadcasts and the other
writers of `creditLimit`.

The map covers a small share of the repository's lines, since the logic
that interleaves is a small share of them; the model is of that share.
