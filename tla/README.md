# Formal verification of the hotel booking server

TLA+ models of the server under `src/`, TLC runs that check them on small
instances, and TLAPS proofs of their main properties for every instance.

## 1. The system

A NestJS monolith over PostgreSQL (Prisma) and Redis. Guests book rooms by the
hour or the day, pay through a gateway, check in with a QR code; owners onboard
properties; administrators moderate, refund, void and extend; scheduled jobs
drive whatever depends on the time. Every HTTP request and every job is a chain
of database round trips with an `await` between any two of them; nothing locks a
row across an `await`. Almost every change of a row is a conditional UPDATE
(`updateIfStatus`) that names the status it expects and nothing else, so what a
request *read* may be stale in every other column when it *writes*. That is the
central difficulty of this code, and what the models are about.

| component | state | operations | talks to | hard behaviour | what makes it correct |
|---|---|---|---|---|---|
| Booking lifecycle (`bookings.service.ts`) | `bookings` rows | create, check in, check out, cancel, 3 sweeps | payments (confirmation), notifications (events) | stale reads, races of guest, administrator and job | the status machine; deadlines; refunds only of money received; every booking ends |
| Room inventory (`bookings.repository.ts`) | rows of one room type, its `count` | serializable count-and-insert, extension check, owner's count | lifecycle | write skew; check-then-update | no instant sold more often than there are rooms |
| Payments (`payments.service.ts`) | `payments` rows | order, hosted checkout, verify and capture | gateway, ledger, lifecycle | several orders, repeated verification, the payment timeout | one capture per paid booking, all three tables or none |
| Ledger (`finance/ledger.service.ts`) | `ledger_entries` | post a balanced set of legs | payments, payouts | being posted twice, or without its row | balanced; says of a booking what its row says |
| Admin bookings (`admin-bookings.service.ts`) | the booking, `booking_admin_actions` | void, cancel, refund, force check-out, extend, flag | inventory, notifications | two administrators; crash before the log | the log is true; refunds add up |
| Booking scheduler | cron | every 5 minutes, 3 jobs | lifecycle | stale result sets | acts on due rows only, and eventually on each |
| Disputes (`disputes/`) | `disputes`, wallet credits | file, first look, request and submit a response, resolve, auto-close (Redis lock) | bookings (refund), payouts | find-then-create, crash between status and refund, lock that expires under its holder | one status machine, a refund or a credit applied once, no dispute left open |
| Payouts (`payouts/`) | batches, items, booking links | generate, release a batch or an item, hold | ledger, bookings, disputes | reads outside the transaction, concurrent releases, refunds after generation | each booking counted once, the ledger behind every released item |
| Sessions and tokens (`auth/`) | sessions, refresh hashes, `login:fail` | login, refresh, logout, cleanup (Redis lock) | Redis | concurrent refresh, logout beside refresh, INCR without EXPIRE | of the refreshes that read one row one rotates; a session ends for good; a lockout ends |
| One-time codes (`otp.service.ts`) | Redis keys | send, verify, consume and register | Redis WATCH | a watch that belongs to a shared connection, attempts, expiry at any time | a code verifies once, never after its attempts; a number is registered once |
| Properties and moderation (`properties/`) | property, draft, compliance, rooms, photos | wizard, submit, revise; approve, reject, request revision | notifications | check-then-update by id, four statements per submission | what is reviewed is one submission; the revision cap |
| Reviews (`reviews/`) | reviews, flags, the property's rating | open, submit, report, flag, reply, moderate, delete, expire | bookings, properties | updates by id alone, rating recalculated from a stale aggregate | published is written and counted; written is kept |
| Anomalies (`admin-anomalies.service.ts`) | anomalies | detect (nine rules), review | bookings, payments, disputes | find-then-create without lock or index | one unresolved anomaly per cause |
| Notifications (`notifications/`) | inbox rows, messages | listeners, delivery, mark read, reminders | every emitter | nothing is retried, a process takes what it had in flight with it | no message without a row, none twice |
| Support, super admin, search, common | rows of their own | tickets, settings, queries | - | none that changes another part | - |

`PROJECT.json` lists the same components with their sources and status, and the
hazards of the code, each at its line with the properties that cover it.

## 2. The modules

* **`BookingStatus`** – the abstract specification: the moves a booking's status
  may make (`Moves`), and nothing else. `BookingLifecycle` implements it and
  `RoomInventory` uses it as the environment of the rooms.
* **`BookingLifecycle`** – bookings, payments, ledger, administrators' log, the
  three jobs and the clock. Every operation is a `...Read` action, which leaves
  what the handler remembers in `req[h]`, and a `...Write` action, which uses it
  however stale it is. An administrator's action has a third step, `Audit`,
  taken only when the UPDATE matched. The capture's transaction is one action,
  with everything or nothing of its three writes. `Crash(h)` ends a request
  between two round trips (end of process, lost connection, time-out).
  * `booking[b]` – the columns that a guard or a property reads; `payStatus` is
    `paymentStatus`, `qr` says whether `qrCode` is set, `checkedInAt = 0` stands
    for NULL; a row that does not exist has status `absent`.
  * `payment[o]` – the row of gateway order `o`; `signed` – the orders whose
    hosted checkout has produced a valid signature (a signature the guest does
    not hold cannot be presented; `forged` is any other one).
  * `ledger[b][a]` – credit minus debit per account of the entries that refer to
    `b`, which is what `balances` adds up.
  * `issued[b]` – the refund announced by events, from which the notification
    and any later transfer would be made. `logged[b]` – audit rows by kind.
  * The jobs handle the rows of a query one after another and independently, so
    a job invocation is modelled per row, and any number of them may overlap.
* **`RoomInventory`** – one room type: `createBooking` as read (the room count is
  read here), count and commit, with serializable isolation as the rule that of
  two transactions that would each miss the other's insertion one aborts
  (`dirty`); the extension as read, check and write outside any transaction; the
  owner's change of the count; and every later move of a booking.
* **`DisputeStatus`** – the abstract specification of a dispute: absent, open in one
  of three ways, decided for good. `Disputes` implements it.
* **`Disputes`** – the disputes of some bookings and the refunds they compete for.
  `refunded[g]` says how often grant `g` (a dispute, or an administrators' refund) is
  part of its booking's `refundAmountPaise`: a sum that is read and written back is
  modelled by the grants it is the sum of, so that a lost update loses a grant and a
  repeated one counts twice. The auto-close job is `SweepStart` (lock and query),
  `SweepClose`, `SweepRead`, `SweepBook` per dispute, and `SweepEnd`; `SweepStop` is a
  failure or the end of the process at any of these points, and `LockExpire` frees the
  lock whether or not its holder is done.
* **`Payouts`** – bookings that complete and are refunded, generations (`GenerateRead`,
  then the transaction `CreateBatch`, which does not look at the bookings again) and the
  requests that release and hold. `before[e]` is history: which batches existed when
  batch `e` was computed.
* **`PropertyReview`** – the owner's requests (`work[q]`) and the administrators'
  (`moderation[m]`), statement by statement. `submissions`, `rooms` and `photos` say
  which submission the three tables hold; `crossed`, `contested` and `cut` are the
  histories under which the code gives no guarantee.
* **`PropertyStatus`** – the abstract specification of a property under review: the moves
  of its status and the number of revisions asked for, with the cap. `PropertyReview`
  implements it; two requests of one side that overlap on a property end what is promised
  of it (`Overlap`).
* **`Sessions`** – the sessions of a user: refresh (`RefreshRead`, then the conditional
  `RefreshRotate`), binding, logout, and the cleanup job on several instances behind its
  lock. The refresh tokens of a session are numbered as they are issued, and the row's
  `hash` is the number of the last. A refresh presents any token issued for the session
  and remembers the hash it has read, which need not be that token's: `Accepts` is what
  `bcrypt.compare` tells apart in the 72 bytes it reads, and that is users, not the
  tokens of one. Two histories are therefore kept apart: `replaced` counts refreshes by the
  hash they replaced, `exchanged` by the token they presented.
* **`OneTimeCodes`** – every Redis command of `send`, `verify` and the registration is an
  action, each key may expire at any time its TTL allows, and `watch[c]` is the state of
  connection `c`, which all requests of an instance share.
* **`LoginLockout`** – the counter of failed logins: GET, INCR, EXPIRE, DEL.
* **`Notifications`** – the event, its listener, the row, the messages and the gateway;
  the reply reminders of `reviews.service.ts`.
* **`Anomalies`** – the nine rules in the order of `runDetection`, the search for a
  duplicate and the insertion; the administrators' moves; `flag` and `unflag`.
* **`Reviews`** – the reviews of one property, the requests in flight (`task[c]`), the
  expiry job and the rating, which is the set of reviews it averages.
* **`MCBookingLifecycle`, `MCBookings`, `MCRoomInventory`, `MCOwners`, `MCPlatform`,
  `MCBackOffice`** – the instances for TLC. `MCBookings` explores two instances of the
  booking lifecycle that are too large for one, and `part` says which: two payment orders
  without refunds and extensions, and every operation with one order at a time. The last
  three put components into one run that share no
  variable: `part` names the one a behaviour explores (in `MCOwners` each
  configuration names the parts it explores). As the components do not touch
  each other's state, this loses no behaviour of any of them, and a state of the run is a
  state of one component, not a product. The review of a property and the rule engine are
  explored in two parts each, one for each of the two small instances they need.
* **`BookingLifecycle_proofs`, `RoomInventory_proofs`, `Disputes_proofs`,
  `Payouts_proofs`, `Accounts_proofs`, `Owners_proofs`, `Reviews_proofs`,
  `Platform_proofs`** – the theorems. `Accounts_proofs` is about `Sessions`,
  `OneTimeCodes` and `LoginLockout`, `Owners_proofs` about `PropertyReview` and the
  composition of `MCOwners`, `Reviews_proofs` about `Reviews` and that of `MCBackOffice`,
  `Platform_proofs` about `Notifications`, `Anomalies` and that of `MCPlatform`.

How they meet: a dispute's refund and an administrators' refund of the lifecycle write
one column, so `Disputes` has the administrators' refund too; `Payouts` has the refund as
a step of its environment, whoever makes it; `RoomInventory` has `updateRoom` of the
onboarding; `Anomalies` reads flags that administrators of bookings set.

The gateway is external: only what `sandbox-payment-gateway.ts` returns to its
callers matters. Times are natural numbers and every constant of the code
(`NO_SHOW_GRACE_MINUTES`, ...) is a CONSTANT; amounts are paise.

## 3. The runs

| run | instance | shows |
|---|---|---|
| `bookings` | 1 booking, 2 requests, 1 job; with 2 orders, an hourly booking without commission or a full day with it, no refunds or extensions; with 1 order at a time, full days, all operations | `TypeOK`, `LedgerMatchesBooking`, `OneCapture`, `RefundBacked`, `AuditTruthful`, `DeadlinesHonoured`, and `StatusSpec` (implements `BookingStatus`) |
| `booking_liveness` | 1 booking, 1 request, 1 job, fairness | `EveryBookingEnds` |
| `booking_refunds` | as the second of `bookings` | **violates** `RefundsAccumulate`: concurrent refunds lose an update |
| `booking_auto_checkout` | as the second of `bookings` | **violates** `StayNotCutShort`: the job completes an extended stay |
| `room_sales` | 3 bookings, 0 to 2 rooms, 2 extensions | `TypeOK`, `NoDoubleSale`, `SoldStayKept` |
| `room_extension` | 2 bookings, 1 room, 1 extension | **violates** `NoOverbooking`: the extension is checked and written outside a transaction |
| `owners` | 1 property, 2 owner requests, 2 moderations; 2 properties without administrators; 2 disputes and 1 refund of a booking, the job on 2 instances; 2 generations and 2 clerks over 2 cycles | `ListingIsOneSubmission`, `RevisionsCapped`, `ReferencesNumbered`, `ImplementsPropertyStatus` (implements `PropertyStatus`); `RefundedOnce`, `CreditedOnce`, `ClosedAfterDeadline`, `ResolutionBooked`, `ImplementsDisputeStatus`; `CountedIsLinked`, `CountedTwiceOnlyIfConcurrent`, `PaidMatchesStatus`, `ReleasedBatchSettled` |
| `payout_refunds` | 1 generation, 1 clerk, 2 bookings of 2 owners' properties | **violates** `PaidNetOfRefunds`: a refund after the generation is paid out |
| `submission_retry` | 2 properties, 2 owner requests | **violates** `NextReferenceFree`: a double submission takes the next reference for good |
| `platform` | 1 session, 2 refreshes; 2 verifications on 2 instances, 2 registrations; 2 logins; 2 events, 2 reminder runs; 2 detections on one rule, 1 on all nine | `PlatformTypeOK`; `OneRefreshWins`, `RevokedForReason`, `SessionEndsForGood`; `CodeVerifiesOnce`, `LiveCodeHasAttempts`, `RegisteredOnce`; `CountersEnd`, `FailsBounded`; `ToldOnce`; `ReportedOnce` |
| `refresh_replay` | 1 session, 1 refresh at a time | **violates** `RotatedOnce`: an exchanged token is accepted and exchanged again |
| `back_office` | 1 review, 2 requests, the expiry job; 1 dispute and 1 session with their jobs on 2 instances, fairness | `PublishedIsCounted`, `WrittenIsKept`, `PublishedWasWritten`; `EveryDisputeDecided`, `ExpiredIsRevoked` |

Why these bounds are enough. The properties speak of one booking at a time and
the rows of two bookings share nothing but the room count, so one booking is the
interesting instance of the lifecycle, and the proofs cover any number. A race is
of two requests, or of a request and a job; a third only repeats one of them.
The clock runs to `MaxTime = 3` with windows of one unit, so that before, in and
after each window occur and a stay (two units) can be extended once. `RefundCap`
stops refunds after the first has been announced; two may still overlap.
`Horizon`, `StayLengths`, `RefundAmounts` and `ExtensionFees` are the inputs
enumerated. In `RoomInventory` three bookings compete for two rooms, the
smallest instance in which two transactions may both see a room free that only one
can have; `MaxSlot = 3` gives stays that touch, overlap and lie apart. Handlers,
orders, bookings and administrators are symmetric where a run has no liveness
property.

The kind of a booking decides only its refund and the price only the legs of its capture,
so the instance with two orders pairs them instead of multiplying them (`PaymentsNext`).
`OneRefreshWins` says what the conditional UPDATE gives: of refreshes in flight
together, those that read the row before another replaced its hash lose, as the test of
the parallel replay expects (`auth.service.spec.ts:391`). It says nothing of a token that is
presented after its exchange; `refresh_replay` shows that it is taken.

In `MCOwners`, `MCPlatform` and `MCBackOffice` the rows of two properties, sessions, phones or
reviews share nothing, so one of each is explored, with two of every request and job
that can race on it. Two disputes of one booking are needed because they share the
booking's sum, and two properties (the part `numbers` of `owners`, and
`submission_retry`) because they share the numbering and the unique index that refuses a
number twice; administrators do not number anything and are left out there. Windows of 0
and 1 day and `MaxNow = 2` let a dispute be filed, answered in time or late, and expire.
`RevisionCap = 1` and `MaxAttempts = 2` are the smallest at which both the last
permitted and the first refused occur; `RequestLimit = 1` refuses the second sending of
a window. `BatchSize` is 1 in `platform`, where the cleanup takes several batches, and 2
in `back_office`, where its last batch is short. `MaxStops`, `MaxFailures`, `MaxPosts`,
`MaxSubmissions`, `MaxCodes`, `MaxHash`, `MaxReports` and `MaxAnomalies` cap what the
code does not; `CanSend` keeps the two ways of verifying a number, by code and by
Firebase, in separate behaviours. Two runs of the nine rules race with the cancellation
rule on either side of its threshold (`TwoRuns`), and one run meets every count at its
limit, then each count one beyond it (`OneRun`), so that every rule both fires and does
not.

Deadlock is checked in `RoomInventory`. `BookingLifecycle` stops at the end of
its bounded clock, an approved property is not moved again and a used-up session rests;
the runs concerned say so.

Each property of a passing run has a mutant in the module (marked `MUTANT`): a
small bug of the code under which TLC finds that property violated.

**Fairness.** `EveryBookingEnds` assumes that time passes (`WF` of `Tick`) and
that the cron, which fires every five minutes for as long as the server runs,
keeps finding a row that stays due (`SF` of `SweepRead`) and is not cut off
between read and write every single time (`SF` of `SweepWrite`). A due row may
stop being due when an extension moves its check-out, hence strong fairness. No
guest, administrator or gateway is assumed to do anything. That extensions end is
due to the bounded clock; without it a stay extended for ever never ends, as in
the code.

`EveryDisputeDecided` and `ExpiredIsRevoked` assume that time passes, that the cron of
some instance fires again and again, that a run which is not stopped takes its next step,
and that Redis drops a lock whose time to live is over (weak fairness of each). Runs that
fail or whose process ends are bounded in number by `MaxStops` and `MaxFailures`: a job
that failed every time would decide nothing. In `back_office` the fairness of a component
is that of the behaviours that explore it (`part`). No administrator, owner or guest is
assumed to act. A lock left behind by a process that ended delays the job by its time to
live and no longer; without that the mutant of `ExpiredIsRevoked` shows that one crash
stops the job for ever.

**Findings.** The six violated runs are disagreements between code and
documents, quoted in `PROJECT.json`: a lost update of `refundAmountPaise`
(M5 §3.5), a stay completed before its extended check-out (M3, auto-checkout job),
a room given twice by an extension (M5 §8), a refund that the owner is told will be
deducted from the next payout and never is (`disputes.service.ts:506`), a
reference collision that no retry resolves (`properties.repository.ts:276`), and a refresh
token that is exchanged again after its rotation (`src/README.md:14`, and the test
"rejects refresh token reuse after rotation", whose comparison is a mock).

Some properties hold only outside a condition, which is then named and recorded as
history: `ListingIsOneSubmission` (two submissions at once, or one cut short),
`RevisionsCapped` (two moderations at once), `ImplementsPropertyStatus` (either),
`ReferencesNumbered` (two submissions at once), `CountedTwiceOnlyIfConcurrent`,
`ResolutionBooked` (another grant wrote over the sum), `WrittenIsKept` (a submission in
flight as its time ran out), `PublishedIsCounted` (overlapping recalculations),
`CountersEnd` (a process that ended between two commands), `ReportedOnce` and `ToldOnce`
(overlapping runs). Each exception is a race the code does not close; each property says
that it is the only one, and does not catch that race itself. The hazards of
`PROJECT.json` say so where it applies.

Disagreements met while modelling that have no run of their own:

* Auto-flagging a review with personal data inserts `flaggedBy = 'system'` into a UUID
  column (`reviews.service.ts:174-179`, `schema.prisma:868`): the review is updated and
  the request then fails, and no administrator is told (M7 §8).
* The owner's flag looks at no status (M7 §2.4), so a pending or removed review can be
  flagged and later published; that is the exception in `PublishedWasWritten`. Neither it
  nor a removal by an administrator recalculates the rating.
* A published review notifies its owner twice, through the listener and through
  `reviews.service.ts:194`.
* ANO-003 reports any two overlapping bookings of a room type, however many rooms it has.
* The comment at `payouts-lifecycle.scheduler.ts:11-19` describes a cycle from Monday to
  Sunday; at Sunday 20:30 UTC the code takes Sunday to Saturday.
* `createDraft` inserts the property and the OWNER role in two statements; a draft whose
  role is missing can be opened by nobody. Step 5 of the wizard writes the compliance row
  and the documents in two as well.
* `approve`, `reject` and `requestRevision` check the status of the property they read and
  then update it by its id alone (`admin-properties.service.ts:99-219`): of two
  administrators who read one property under review, the later verdict is written over
  the earlier, so that an escalated property can become approved, although `escalated`
  is terminal (`M2-notifications-and-admin-moderation-spec.md:179`). That is the `Overlap`
  of `PropertyStatus`.
* A booking may be in the sums of two payout items, although "a booking is included in at
  most one payout item ever" (`M8-payouts-spec.md:85`): two generations whose cycles overlap
  read it before either has linked it (`payouts.service.ts:75`), the second adds it to its
  item all the same, and the unique index only drops the second link (`ON CONFLICT ... DO
  NOTHING`). That is the exception in `CountedTwiceOnlyIfConcurrent`.
* Two disputes of one booking may be filed, although M6 has "one dispute per booking" and a
  409 for the second (`M6-disputes-spec.md:218`, `:380`): `fileDispute` looks for one and
  then creates it (`disputes.service.ts:115-140`), and `bookingId` has no unique index. The
  disputes in `Disputes` are therefore any number per booking.
* Escalating a support ticket may overwrite one that was resolved meanwhile
  (`support.service.ts:37-59`).

## 4. The proofs

All of them hold for any sets of bookings, orders, requests, jobs and
administrators, any prices, windows and lengths that satisfy the assumptions in
the modules: amounts are natural numbers, a commission is at most the base
(`update-settings.dto.ts` allows 30 %), a rate is positive, a stay is longer than
the grace period, order ids differ from no order, jobs differ from requests. TLC
evaluates these assumptions on the instances it runs.

**`BookingLifecycle_proofs`.** No property is inductive by itself, because a write
uses what a request remembers. The invariant `IInv` therefore says

* `RowSane(b)`: row, journal and log of `b` agree and the row has waited as long
  as its status says;
* `Fits(req[h])`: what a request in flight remembers is still true *where its
  write relies on it*. This is the heart: a verification's price and total are
  the row's, because neither changes before the first check-in; a refund's row
  was refundable; a void's amount is the total as long as the void can still
  succeed; a no-show stays due because a check-in time never changes;
* `OrdersApart`: two requests never record the same order id;
* `OneCapture` and `TypeOK`.

`RowStep(b)` says what a conditional UPDATE may do to its row, with one lemma
for each of the eleven writes; `Evolves(b)` says which facts about a row survive
any step, and `FitsKept` that a request keeps fitting a row that evolves.
`RequestsStep` splits a step by what it does to the requests in flight: nothing,
begin, finish, or go on to the audit row. From `Invariance` follow `TypeCorrect`,
`LedgerMatches`, `CapturedOnce`, `RefundsBacked`, `AuditsTruthful` and
`Deadlines`; with `MoveStep` it yields the refinement `ImplementsStatus`
(`Spec => StatusSpec`).

**`RoomInventory_proofs`.** `NoDoubleSale` needs `CountCovers`: a transaction that
may still commit has counted every sale it competes with and found fewer than the
rooms it was told of; `RequestsSane` says that this number never exceeded `peak`.
`SoldStayKept` needs `ExtensionsSane`: an extension in flight ends no earlier than
the stay that was sold. The cardinalities come from `FiniteSetTheorems`.

**`Disputes_proofs`.** A booking's sum is in the row and in every snapshot a request in
flight will write back, so the invariant speaks of `Sums(d)`, the counts of `d` in all of
them: `SumsOnce` says they are 0 or 1, and 1 only of a dispute decided by a refund.
`BookedByOne` says that a run which has closed a dispute is the only one that will book
it and that nobody has; it holds because the conditional UPDATE lets one run through,
not because of the lock, which the proof never uses. `FilingAbsent` keeps a dispute
that is being filed from having a status. `CreditInv` and `DeadlineInv` strengthen
`CreditedOnce` and `ClosedAfterDeadline` by what is in flight. The refinement
`ImplementsStatusMachine` follows from `StatusMoves`, one lemma over all actions.

**`Payouts_proofs`.** `CountInv`: what a generation in flight has read was counted in none
of the batches it saw, batches stay, and links and counts agree. `ItemInv`: no request is
about a batch that does not exist, and a release of a batch still has all its pending
items before it.

**`Accounts_proofs`.** `SessionsInv` adds that a replaced hash is older than the row's
(which gives `HashReplacedOnce`), that a request remembers a session that exists,
and that what a cleanup has found is expired. `CodesInv` joins the four code
properties with `Traced`: tokens, users and registrations exist only after a
verification. `LoginInv` bounds the failures together with the logins past the check,
which is what makes `FailsBounded` inductive.

In these modules the assumptions are those on the bounds and windows (natural numbers,
positive limits), that `BookingOf`, `PropertyOf` and `ConnectionOf` are functions, that
the sets of requests are finite where they are counted, and that the values for "nobody"
are not among the holders of a lock.

**`Owners_proofs`.** The handlers of `PropertyReview` check and then update by id alone, so
nothing can be inductive of a property on which requests of one side have overlapped.
`ReviewInv` says, of the others, what a request in flight may rely on:
`SubmissionAlone(p)` and `SubmissionInTurn(p)` – one submission of `p` is under way, it has
the number of the columns, and nothing else stands between them and the rooms and photos;
`ModerationAlone(p)` – one moderation of `p` is under way and the `revisionCount` it read
is still the row's, which makes the cap inductive; `Numbered` – whoever is about to
write a reference was told a number that has been given out since, or the next, so that
the unique index leaves no gap (the cardinality of the references grows by one with each,
from `FiniteSetTheorems`). From it follow `ListedIsOneSubmission`, `RevisionsAreCapped` and
`ReferencesAreNumbered`. For the refinement `ReviewImplementsStatus` a second invariant,
`TurnInv`, says that the *status* a request has read is still the row's when it writes: an
owner's submission and an administrator's verdict on one property exclude each other
because they wait for different statuses, although no lock keeps them apart.
`OwnerMoves` and `ModeratorMoves` reduce the twenty actions to what each does to the
status, and `MachineStep` lifts a change of one property to a step of the machine.

**`Reviews_proofs`.** `VouchedInv`: who is about to publish has a review that was written or
flagged too early. `ExpiryInv`: what a run of the expiry job has found was not written
then, and if it is now then its submission was in flight (`late`). `CountInv`: while no
two recalculations overlapped and none stopped, one at most is about to write, and whatever
was published since it aggregated has a recalculation still to come; it is what makes
`PublishedIsCounted` inductive.

**`Platform_proofs`.** `PassageInv` follows an event from the listener to the row, to the
messages and out: a message is asked for after the row, and before it is sent.
`ReminderInv` says that a review two runs did not find at once is in the hands of one of
them, which has marked it before it reminds. From both follows `EveryoneToldOnce`.
`DetectionInv` says of a run that found no duplicate that every row there was then is
resolved and, because administrators never reopen one, still is; hence
`IssuesReportedOnce`.

**Compositions.** `OwnersCompose`, `BackOfficeComposes` and `PlatformComposes` prove that a
behaviour of the modules for TLC is a behaviour of each component's specification, so
that what the runs check is an instance of what is proved; `PlatformTypeCorrect` and
`CountsEnd` (the lockout's counter and the codes' together) are stated of the composition.
The types of `PropertyReview`, `Disputes`, `Payouts` and `Reviews` are proved
(`ReviewTypeCorrect`, `DisputesTypeCorrect`, `PayoutsTypeCorrect`, `ReviewsTypeCorrect`)
and not checked by the runs again. `MCBookings` only adds conjuncts to `Next`.

`TurnInv`, `ReviewInv`, `ReviewsInv`, `NotificationsInv` and `AnomaliesInv` were
model-checked on the instances of the runs before they were proved.

Only model-checked: the liveness properties `EveryBookingEnds`, `EveryDisputeDecided` and
`ExpiredIsRevoked`, as TLAPS has no rules for `ENABLED`, on which fairness rests; and the
six violations. Every other property of a passing run is the conclusion of a theorem.

## 5. Not modelled

Validation of input that only ends in a 400, authorisation, listings, analytics,
availability and search queries, the timeline of a dispute, and the wording of events and
messages; times finer than the bound; the loss of an
announcement after a guest's cancellation (it would only remove from `issued`).
`isActive`-like administrative state of a property is read once by
`createBooking` and never again, so a property that is taken down keeps its
bookings, as in the model.

`updateSettings`, and the columns of `updateRoom` other than the count, are single-row
updates whose result no guard reads. `sendReviewPrompts` has the shape of the reply
reminders. Support tickets and the settings and accounts of the super administrators are
edited one row at a time and no modelled part waits for them; the settings they change
(commission, TDS) are constants here, as each handler reads them once. Column encryption,
guards, throttling, the hashing of passwords and the signatures of tokens are functions
without state. The bookings of an anomaly are a set, also where the code stores them as pairs
(ANO-003). TDS is left out of a payout item: it is a fixed share of the gross.

## 6. Plan

1. Done: the booking lifecycle, payments, ledger and rooms; disputes, payouts, sessions,
   codes and the lockout; property review, reviews, notifications and anomalies, each
   with its runs and its proofs; the refinements of `BookingStatus`, `DisputeStatus` and
   `PropertyStatus`; the compositions.
2. Still of interest: an abstract specification of the two ledgers of a booking (what was
   refunded, what was paid out) that `Disputes` and `Payouts` would implement, with the
   lost updates as steps of its own.
3. A composition of disputes and payouts on the money of one booking, if the deduction
   from the next payout is ever implemented; today nothing flows between them.
