# Notary Day backend: a TLA+ verification project

Notary Day is a NestJS API for mobile notaries with separate worker processes.
The API and the workers share a PostgreSQL database (Prisma), a Redis (Bull
queues, locks, caches) and, for marketing, a MongoDB. Almost every operation has
the same shape: read a row, `await` something else, then write by id. Between
two awaits any other request, worker or cron may run, and a queue delivers a job
at least once. The modules here model the parts where that shape can go wrong,
and state what must hold anyway.

## The system

Paths are below `src/src/`. "Hard" says what a test hardly reaches.

| Component | State | Operations | Talks to | Hard |
| --- | --- | --- | --- | --- |
| Jobs `modules/jobs` | job row: status, times, fee, deleted_at | create, update, updateStatus, remove | journal, invoices, calendar and notification queues | status written by id after a check on an older read |
| Journal `modules/journal` | entries | automatic entry on completion, manual edits | called by jobs | look-up, then create |
| Invoices `modules/invoices`, `workers/invoice.processor.ts` | invoice row, PDF in R2 | generate, update, markPaid, sync from a job, PDF worker | jobs, invoice queue, object store | numbering, paid lock, stale PDFs |
| Invoice email `send`, `handleSendEmail`, `invoice-retry-cron` | email_* columns, queue jobs | send, attempt, retry | invoice queue, mail provider | double delivery, resends, crashes |
| Booking page `modules/booking` | booking row, its job | create, approve, decline, cancel, slots | jobs, mail | double booking, racing reviews, slot edges |
| Calendar `workers/calendar-sync` | Google events | sync, delete, retries | jobs, Google | order of tasks, look-up by the new time |
| Job import `modules/job-import`, its worker | import row | inbound, upload, parse, confirm, decline | jobs, queue, extraction | redelivery, worker against user |
| CITT, planner `modules/citt`, `modules/planner` | sequence and legs on job rows | check an offer, show a day, optimise | jobs, router | minutes between signings, stale legs |
| Reports `modules/reports`, `modules/expenses` | stored tax PDFs | earnings, mileage, tax, rebuild | jobs, journal, expenses | rows that change while they are read, ranges |
| Billing `modules/billing`, `workers/billing*`, trial cron | plan, subscription, stored events | webhooks, end of trials | Lemon Squeezy, users | lost and reordered events |
| Accounts `modules/users`, `modules/auth`, `modules/admin`, purge | user row, defaults, reset token | register, reset, signing defaults, delete, restore, purge | everything a user owns | foreign keys, half-done requests |
| Session `modules/auth` | black list in Redis, verdicts remembered per server | login, use, logout | Redis | a verdict remembered after a logout |
| Onboarding mail `workers/email-sequence*` | dayNSentAt, queue | schedule, cron, worker | mail providers | two sources of one mail, crashes |
| Reminders `workers/notification*` | notifications, queue | crons, worker | jobs, mail | a band visited several times, moved signings |
| Campaigns `modules/marketing/campaigns`, `workers/marketing` | campaign, recipient rows, provider counter | schedule, pause, resume, cancel, dispatch, send, maintenance, bounces | MongoDB, Bull, providers | overlapping ticks, late jobs, budgets |
| Lead imports `modules/marketing/imports`, `import-ingest` | import, leads, messages | mapping, start, run, rerun | MongoDB, Bull | several queue jobs of one import, reruns |

Not modelled at all: marketing analytics, mailer, encryption, tracking and the
digest; templates and rendering; analytics, health and the HTTP
layer. `PROJECT.json` gives the reason for each, and what is left out of the
components marked "partly".

What makes each correct, in a sentence: a job moves along its transition table
and its completion leaves a journal entry and an invoice; invoices are numbered
without gaps, bill what the job says until paid and never change afterwards; an
attempt of an invoice email reaches the client at most once and every send is
tried; two bookings never hold overlapping times and a slot on offer can be
taken; the calendar shows the live jobs, once; an import becomes one job, a lead
id one lead; what CITT accepts fits the day, and a silent plan has no conflict;
no event of a subscription is lost or undone; a purge takes what was deleted and
nothing else; no campaign mails a lead twice, after it left or beyond the day's
budget, and none completes with a lead forgotten.

## The modules

| Module | Models | Proofs |
| --- | --- | --- |
| `InvoiceDelivery` | one invoice's emails: `send`, `handleSendEmail`, the retry cron, the queue | `InvoiceDelivery_proofs` |
| `BookingSlots` | blocks, windows and offered slots, as arithmetic | through `Agenda_proofs` |
| `Booking` | `create`, `approve`, `decline`, `cancel` of one notary, beside jobs entered by hand | `Agenda_proofs` |
| `CalendarSync` | the Google event of one job under edits, removal and two workers | `Agenda_proofs` |
| `Campaign` | one marketing campaign: the admin, the dispatch, send and maintenance ticks, the sends, the leads | `Campaign_proofs` |
| `Billing` | the plan of one user: webhooks, their queue and handlers, the end of trials | `Accounts_proofs` |
| `LeadBook` | the abstract promise of an import: a book of leads whose texts are never overwritten | |
| `MarketingImport` | the import of leads, write by write, its queue and the maintenance tick; implements `LeadBook` | `Imports_proofs` |
| `JobLifecycle` | one job under concurrent `updateStatus`, `update`, `remove`, with journal, invoice and calendar queue | `WorkingDay_proofs` |
| `DayPlan` | the jobs of a day against CITT's answers and the planner's plan | `WorkingDay_proofs` |
| `Invoicing` | `generate`, numbering, both fee edits, `markPaid`, the PDF worker | `Books_proofs` |
| `Reports` | the reports, the rows they are made of, and the stored tax PDF | `Books_proofs` |
| `Account`, `Session` | an account from registration to purge; a token on several servers | `Accounts_proofs` |
| `JobImport` | reception, parse worker, `confirm` and `decline` of job imports | `Imports_proofs` |
| `EmailSequence`, `Reminders` | the onboarding mails; the reminders of a signing | `Mailings_proofs` |

`Agenda` (Booking, CalendarSync), `WorkingDay` (JobLifecycle, DayPlan), `Books`
(Invoicing, Reports), `Accounts` (Billing, Account, Session), `Imports`
(JobImport, MarketingImport) and `Mailings` (EmailSequence, Reminders) put
together the components that work for one purpose. What one of them writes the
others do not decide by, or they have that write themselves (closing and restoring
an account is in `Account` with the rows it hides and in `Billing` with the plan it
writes), so a behaviour of such a module follows one of them (`followed`) while the
others stay as they began; exploring the product would only multiply states. In
`Mailings` both halves share the outages of the mail providers. Interactions that do matter are
inside the modules: a job's completion with its invoice and its calendar task
in `JobLifecycle`, a booking with its job in `Booking`, an import with its job in
`JobImport`, a bounce, an unsubscribe or a conversion with a campaign's rows in
`Campaign`.
The `MC*` modules define the values of constants, constraints and symmetries.

How state and actions correspond to the code:

* A variable is a row (or its columns that matter), a queue, or the set of calls
  under way. A call, worker or tick is a record with a program counter and what
  the code keeps in local variables across an await. Each database or queue call
  is one action; its guard is the code's condition, and what runs between two
  awaits belongs to the action before.
* Error paths are actions too (`JournalThrows`, `DraftThrows`, `PdfThrows`,
  `RecordThrows`, `DispatchThrows`, `SendThrows`, the `CallFails` of a call between
  its writes, the lost branches of the enqueues), and so are
  crashes: `Die` (an API process), `Crash` (a worker), `LoseLock` and `Stalled`
  (Bull's lock and stalled check).
* PostgreSQL is READ COMMITTED, except `BookingService.create`, which is
  SERIALIZABLE: `SerializationConflict` aborts the second of two transactions
  that each insert into what the other has read. Unique and foreign keys are
  conjuncts of the statements they guard. MongoDB writes are atomic per document.
* Bull is modelled from its use: adding a custom job id that is present is a
  no-op, an active job cannot be removed, a stalled job runs again, a crashed
  process gives its jobs back.
* History variables (`claims`, `mails`, `twice`, `lost`, `stopped`, ...) record what
  no row does; no step of the program depends on them.

### Races the code accepts

Several modules carry a history variable `raced` (`crossed`, `overlapped`,
`overtaken`, `disturbed`, `overrun`). It becomes true when a call changes a row that another
has read and is about to write by, or as its module says. Properties the code
keeps only without such a race carry the exception, so that one run checks both
that they hold for all other interleavings (side effects still running, calls on
other rows, workers, faults) and that nothing but the race breaks them. What the
races do, seen while modelling:

* Of two status changes the later write takes a job out of `COMPLETE` or
  `CANCELLED` (`jobs.service.ts:530`); a decline that read a booking under review
  writes over its approval and leaves the confirmed job (`booking.service.ts:467`);
  two confirmations of an import make two jobs (`job-import.service.ts:336`), and a
  parse worker that finishes late takes a confirmed or declined import back.
* `updated` handled after `cancelled` writes a renewal date back, one handled
  before `created` is lost after three attempts, and the cron takes the plan of a
  user who subscribed while it had him in hand (`notification-cron.service.ts:248`).
* Two renders of one invoice can overlap, since the queue runs a job of each of its
  two named processors at a time and either may be a PDF: the one that read the older
  amount may store last (`invoice.processor.ts:473`).
* In a campaign (`workers/marketing`): a second dispatch deletes rows a send has
  in hand; a late job under a requeued row mails twice, and so does a send whose
  `SENT` was not written; the budget is read, then written as read plus one;
  `CONTACTED` is written over a reply that came during the send; rows claimed
  while the campaign is paused or in dispatch are skipped for good, and rows
  skipped for a suppression stay so when it is lifted, although the comment at
  `suppress.service.ts:88` says that they are unblocked.
* In lead imports the queue holds an import several times and only the status
  read at the start of a run keeps runs apart (`imports.service.ts:182`); leads
  with neither id nor email are made again by a rerun.
* A call has no transaction around its writes, and one that fails or dies between two
  leaves the first: a confirmed job whose slot was written while the sync of its
  invoice threw gets no calendar task (`jobs.service.ts:426`); a removal that queued
  the deletion of its event and then fails leaves a live job without event
  (`jobs.service.ts:657`); the fee of the job and the amount of its unpaid invoice
  stay different (`jobs.service.ts:415`, `invoices.service.ts:451`). `faults`, `lost`
  and `cut` record it.
* Somebody undoes what a property relies on. Closing an account writes the free plan
  beside a subscription that goes on, restoring it leaves that so, and an admin sets
  any plan (`user.by = "hand"`, `users.service.ts:129`, `admin.service.ts:296`). Bulk
  include and status, a `PATCH`, a new import, lifting a suppression and a conversion
  take back what stopped the mail to a lead (`stopped` shrinks, `leads.service.ts:356`).
  A lead can be given any id by hand (`byHand`, `leads.service.ts:294`).
* A campaign is found, counted and completed in three steps; a mailing that a
  dispatch queues between the last two is forgotten (`revived`,
  `maintenance-tick.service.ts:66`).
* In sessions other servers admit a revoked token for up to a minute, all admit
  it while Redis does not answer, and a look-up in flight at the logout may
  remember its verdict after it.

## Runs

TLC explores every run completely; deadlock checking is off since all models may
stop when their bounded inputs are used up. Symmetry is used for calls, workers,
ticks and requests only, and never with a liveness property.

| Run | Shows | Bounds, and why they are enough |
| --- | --- | --- |
| `InvoiceDelivery` | `OneMailPerAttempt`, `AttemptsInOrder`; `OrderlySendStartsCycle`, `OrderlyPendingSettles` (liveness) | 2 worker slots, 2 cycles, 1 fault: an attempt of the first cycle that lands in the second. The two invariants are proved for all bounds |
| `InvoiceResend` | violated: a resend during an active attempt starts nothing | 1 slot, no fault |
| `WorkingDay` | `CompletionOwed`, `CalendarFollowsSlot`, `LiveCountdown`, `ForwardUnlessRaced`; `CheckedDayFits`, `SilentPlanFits`, `RouteIsDrivable` | 2 calls at a time and 3 in all, from every status a job can be created with, each fault once; 3 jobs of a day, one of them shorter than the planner's tolerance, at places whose drives just fit or just do not, 2 requests of the planner at a time, 2 changes, lost routes or lost writes |
| `Agenda` | `NoDoubleBooking`, `OneConfirmation`, `RefusedHasNoJob`, `OfferedIsAccepted`; `OneEvent`, `CalendarShowsJob` | 2 bookings, 2 calls, a long job by hand, times on both sides of midnight of which two collide; or 2 slots, 2 edits, 2 workers, 3 tasks, 2 events, 2 faults; not explored after tasks overtook each other (`InOrder`), of which the calendar's properties say nothing |
| `CalendarDuplicate` | violated: a failed look-up makes a second event | 1 edit, 1 worker, 1 fault |
| `Accounts` | `SubscriberKeepsPlan`, `PlanFollowsSubscription`; `RequestsTakeEffect`, `PurgeTakesTheDeleted`; `OverdueEnds` (liveness) | 2 subscriptions and 4 events: the first opened, ended and replaced, with an old event after it, 1 fault, the plan written by hand once, not explored after events overtook one another, of which the properties say nothing; an update without news comes once, and then, as where a plan was written by hand, there are 3 events, and in the latter case no fault (`Bounded`); 2 users, 2 requests at a time, 1 fault; 2 servers, 2 requests, 1 fault of Redis. `Types` has one member since the properties speak of each type alone |
| `AccountPurge` | violated: a deleted account with an email sequence is never purged | 2 users |
| `Campaign` | `MailedOnce`, `NoneForgotten`, `BudgetKept`, `StopHeeded` | 1 lead, 2 steps, 2 sends and 2 ticks at a time, 2 dispatches, 2 attempts, any 2 faults or interventions, a budget of 1 mail a day; after the last fault the maintenance tick looks at campaigns without open rows only (`Bounded`). All four are proved for all bounds |
| `Mailings` | `TwicePerDay`, `RemindedOnce`; `EveryDaySent` (liveness) | days 0 and 1, 2 faults; 2 slots a reminder band apart, 1 move, 1 fault |
| `Imports` | `OneJobPerImport`, `ConfirmedIsParsedJob`; `OneLeadPerId`; `ImportSettles` (liveness), `ImplementsLeadBook` (refinement) | 1 import, 2 workers, 3 reviews, 3 faults, which are the queue's attempts; a file of 1 row run by 2 slots at once, a file of 3 kinds of row run by one slot, 1 requeue, 2 events, 2 leads entered or changed by hand |
| `Books` | `NumbersDense`, `PdfCurrent`, `UnpaidFollowsFee`, `PaidAmountLocked`; `RebuiltIsCurrent`, `PartsAddUp` | 3 jobs of 2 owners, 2 calls, 3 in all, 2 renders, 1 fault; or 1 row of each kind at the end of a month, 2 requests, 2 rebuilds, 1 edit |
| `WeeklyReport` | violated: weeks of different months are one period | 2 jobs, 1 request |

The violated runs are disagreements of the code with its own comments or
schema; `PROJECT.json` quotes them under "findings".

### Fairness

`Fairness` in `InvoiceDelivery` is weak fairness of what runs on its own: a send
that has begun, the worker slots, the queue's stalled check, the cron and the
clock. Nobody has to call `send`, no fault has to happen, and the liveness
properties promise nothing after one, because the code does not: a worker that
dies between its claim and its record leaves a row neither the rerun (refused by
the claim) nor the cron (no recorded error) picks up. The orderly environment of
`MCInvoiceDelivery` adds that a notary does not resend before the last delivery
settled and that an attempt ends within the fifteen minutes the cron waits.

`Imports` assumes weak fairness of one action, that the system (receptions that
have begun, workers, queue, stalled check, maintenance tick) takes some step
while it can; no user has to do anything. `Mailings` assumes it of a
registration that has begun, the queue, the worker and the cron. `Accounts`
assumes that the trial cron and the purge run, that a request which has begun
goes on, and that remembered verdicts expire. `Campaign`, `WorkingDay`,
`Agenda` and `Books` state no liveness.

## Proofs

Each proof module proves, for every value of the constants, `Spec => []TypeOK` and
the properties of its runs. The invariants are seldom inductive; what had to be
added says why the code works.

`InvoiceDelivery_proofs`: `MailsAtMostOnce`, `ClaimsInOrder`. `CounterInv` says
that the row's `attempts` is exactly the highest attempt of the cycle that was
claimed and every attempt up to it was claimed once, so that the compare-and-set
of `Claim` finds an unclaimed attempt. `OwnerInv` says that a slot that mails or
records owns its claim alone and that nothing was mailed under it before.

`Agenda_proofs`, of `Booking`: `ConfirmedOnce`, `RefusedReleases`,
`WindowMissesLongOnes` (a block that overlaps a candidate outside the window that is
read is longer than four hours, whoever entered it: those bookings and jobs are missed,
and no others) and, under conditions the code needs and does not check, `NoTimeTwice`
(no service's block is longer than the window, `ShortBlocks`) and `OfferIsGood` (the
active hours and the buffer end within the day, `RoomyDay`); hours that end at midnight
falsify it. `ConfirmInv` counts confirmations by the link between booking and job;
`ViewInv` says that what a reviewer read is still so while nothing raced;
`SlotInv` that a candidate about to be inserted meets none of the bookings its
transaction saw, the others being kept out by `SerializationConflict`.

`Accounts_proofs`, of `Billing`: `SubscriberKeeps`, `PlanFollows`. `OrderInv` (nothing is
persisted, queued or run that was not emitted) and `LockInv` (one slot holds a job's lock)
give the types; `PlanInv` says that the cron has only users without a subscription in hand,
and that a user with a subscription has a paid plan unless the plan was last written by
hand; a handler writes a paid plan with every subscription. `PlanFollows` needs both sides.
`SellerInv`: Lemon Squeezy's state is that of its last event, an expiry ends a
subscription's events, and only a creation or an update brings another plan. `TurnInv`: who
handles an event has the last that was ever taken, those before it are over, and nobody else
is at work. `UserInv`: an event of the subscription opened last shows in the user once it is
written, if those before it are processed, and while it is under way either it or the one
before it shows, so that a rerun finds what a first run found (as long as the plan was not
written by hand); an older subscription's event finds nobody.

`Accounts_proofs`, of `Account` and `Session` as `Accounts` composes them:
`RequestsHaveEffect`, `PurgesTheDeleted`. `AloneOK`: an unraced user has one request.
`DefaultsOK`: what that request has still to write makes the defaults the ones last
asked for (between the deletion and the last upsert they are neither the old nor the
new ones). `UsesOK`: a token that set a password and is still open is in the hands of
the request about to mark it; `TokenOK` carries it past the purge, which takes a user's
tokens with the user, and no token is issued twice. `RevokedFirst`: the key is in Redis
before a logout is answered; `Forgotten`: from then on no lookup that had read it absent
is left at that server, unless one was under way.

`Imports_proofs`, of `MarketingImport`: `Implements` (the import implements `LeadBook`: initial
states map to initial states and every step to a step or a stutter), through
`Invariance`: what a run holds are its rows' leads, every row that is not left to
do is settled, and a lead a row found is found by it again unless a user or
another row's email disturbed it. Without it the step `Complete`, which `LeadBook`
allows only when every row has its lead and every lead its texts, does not map.
`OneLeadForAnId`: a lead keeps the id of the row that found it for as long as it is
there, unless a user changes it (`HomeIds`, by the steps of the book), one run is under
way (`SoloInv`, from the status each run reads), and so the id a row did not find is
still free, but for leads entered by hand, when its lead is inserted (`SeekInv`).

`Books_proofs`, of `Invoicing`: `NumbersStayDense`, `PaidStaysLocked`, `UnpaidBillsTheFee`,
`PdfsCatchUp`. `DenseInv` says that an owner's numbers are 0 to n for some n, so
that a number that is free and not above n + 1 is n + 1; with `KnowsInv` (each try
was lost to a number given since the call began, and the number about to be
written is at most one above the last) a create leaves them dense. `ViewInv`: what a
call read of the job and the invoice is so until the job is raced. `FeeInv`: the
amount is the job's fee, or a call between its two writes is about to make it so, unless
such a call was cut off. `PdfInv`: once no render
of an invoice is queued or about to be, its PDF is current or the render under way
will make it so; this needs `AloneInv`, that a render that began alone stays alone
until the next one begins.

`Books_proofs`, of `Reports` as `Books` composes it: `RebuildsShowTheBooks`,
`ReportsAddUp`. `ReadInv`: what a request that nothing overtook has read is what the books
still say, each part once it is read and the mileage by the rate read before it, and a
rebuild never looks in the store; a write of the books clears the mark of every request
under way, so what a marked one stores is the report. `ReportsAddUp` needs of the state
only that rows have instants (`RowsInv`); that each falls into one of two adjoining
ranges, by each of the four ways a report counts, is arithmetic (`InstantsSplit`).
`BooksKeepInvoices`: the books implement `Invoicing`, whose theorems so hold of them.

`Agenda_proofs`, of `CalendarSync`: `OneEventKept`, `CalendarShowsJobKept`, if every slot is
within an hour of every other (`AllNear`: the look-up finds the job's event) and the mark of
a removed slot is none of the slots (`NoneIsNoSlot`). The argument is an order on tasks.
`OrderInv`: tasks are added in the order of the writes they follow, the last write has its
task, and a task that is not the last can only be overtaken if `overtaken` says so; a
removal that fails after its task is `lost`. `EventInv`: one handler has the job in hand,
and shown events are at most one. `ShowInv`: what the last task has read is the job, what it
found is what is shown, and when it is done the calendar is right.

`Campaign_proofs`: `MailsOnce`, `NobodyIsForgotten`, `StopsAreHeeded`,
`BudgetHolds`.

* `BudgetInv`: while no sends overlapped, at most one is past its gate, and the
  count it read there is right until it is written back.
* `StopInv`: a lead that left and was not taken back is on the list, excluded or
  REPLIED, which is what the gate reads, and no send of it is past the gate unless it
  already was. A send that ends writes CONTACTED, but never over the only reason of a
  stopped lead; two reasons are taken back one by one.
* `DispatchInv`: one dispatch is under way at a time, and until it inserts, no row
  is its. With `GoneInv` (what rows and leads say of themselves is true),
  `AudienceInv` (who is not in a dispatch's audience left, and once it is to set
  the campaign running all its rows are written) and `ReachInv` (from then on
  every mailing is mailed, left, or in a row that is unsettled or failed) no lead
  is forgotten. `RevivedInv` carries the count over to the write: once the
  maintenance tick has counted no open row, every open row has been queued since.
* `OnceInv`: a mailing no fault touched has one live row (queued, claimed or in a
  send's hand), that row has one job or one send, it belongs to the newest
  dispatch while one is building, a row that dispatch has not yet written was not
  mailed, and a row that was mailed and is still live is held by the send about to
  record it. `RowTurns` reduces every step to one of nine turns of a row; one
  lemma per conjunct then goes through the turns.

`WorkingDay_proofs`, of `JobLifecycle`: `UnracedGoesForward`, `CountdownStaysLive`,
`SlotsReachTheCalendar`, `CompletionsAreSeenTo`. `AskInv` says that the status a call is
about to write was allowed for the row it read, and `ViewInv` that, until the row is raced,
the row it read is the row: together they carry the check of `updateStatus` over to its
write. The other two theorems need no such view, races included. `SyncInv`: a confirmed job
with an untold change of time or place has a call about to queue the sync, or one that
failed on the way (`DraftThrows`). `InvoiceOwed`, `EntryOwed`: a completion has its invoice
and its entry, or a call on the way to it. `EntryInv`: of an unraced row only one call is
ever on the way to the journal, and none before the row is COMPLETE. `DayKeepsJob`: the
day's two halves do not meet, so that a behaviour of both is one of `JobLifecycle`.

`WorkingDay_proofs`, of `DayPlan`: `CheckedJobsFit`. `RowsAreJobs`: jobs are numbered as
they come and only a live one is checked. `AnswersHold`: an answer that is not out of date
still has the gaps before and after that it promised. CITT looks at the neighbours of a
time only; that this is enough for all pairs rests on signings that take time
(`DayAssumption`): the last of the jobs before is the only one there (`NeighboursAre`, by a
least natural number), and between it and the others there is already the time
`CheckedDayFits` demands. It does not hold of the drive to a job that is not a neighbour:
a job between two others may begin to scan or be moved, which leaves them next to each
other at places CITT never compared, and the property excepts them.

`WorkingDay_proofs`, of the planner: `SilenceMeansFits`, `RoutesCanBeDriven`, both from
`DayInv` and `PlanInv`; and `DayTypeCorrect`. `RequestsRun`: a request holds the stops it
has still to write, with the time read of each; those of an optimise that is fresh (nobody
else, another request included, changed the day since its read) are a route (`IsRoute`):
every job of the day once, with its present time and the drive from the stop before, and the
stops written so far are in the rows. `WindowsHold`: the stored window of a job that is not
`misdated`, or its signing if none is stored, ends when the notary is done with it.
`RouteHolds`: after an undisturbed optimise every job has a place of its own in the route,
the leg of each is the drive from the one before, and the places are in the order of the
times, or each stop is reached within the tolerance of `isFeasibleOrder`. A feasible order
need not be in the order of the times: after a signing shorter than the tolerance one that
begins earlier may follow. The plan's list is what `InOrder` makes of the order of its rows:
a job stands behind as many as come before it, and that each place is taken once is a matter
of counting finite sets (`InOrderIs`), with no induction. That steps which never go down
climb (`Climbs`) rests on least natural numbers. That the plan compares neighbours of its
list only is enough because without a conflict the list itself is in the order of the times
(`SilenceHolds`).

`Imports_proofs`, of `JobImport`: `OneJobMade`, `ConfirmedHasJob`. `JobOrder`: details come
first, then a confirmation, its job and its mark; it needs no hypothesis and carries the
second. `JobFirstRun`: the first run of the parse has the import alone and writes the
details last, so that no confirmation begins before that run is over. `JobReady`, until a
confirmation is overtaken or cut off: one under way finds the status it checked, and an
import that can still be confirmed has no job, or the confirmation that made it is about to
mark it.

`Mailings_proofs`: `TwiceAtMost`, `RemindsOnce`, by counting. `TwiceInv`: what was mailed
of a day, one more if the call or the scheduled job may still mail it (`First`) and one
more if the cron's may (`Second`), is at most two and the faults; `QueueOK` says that a
day is scheduled only behind the call that has it, so that these two are one source. A
job that mailed and did not mark the day is back in the count when it is run again, and
the failed mark or the crash has paid for that. `OnceInv` does the same with the set of
queue ids of a kind that may still mail (`MayCome`), where the id of the signing's present
time belongs as long as there is no notification: moving the signing exchanges that id
for another, and leaves one more only if the old one is on its way.

Assumptions on constants are those named in the modules (`BoundsAssumption`,
`ConstantsAssumption`, `FiniteAssumption`, `SettingsAssumption`,
`PlansAssumption`, `ReportsAssumption`, `DayAssumption`), which TLC evaluates,
and the conditions above.

### Only model-checked

Liveness is out of the prover's reach: `OrderlySendStartsCycle`,
`OrderlyPendingSettles`, `OverdueEnds`, `ImportSettles` and `EveryDaySent` are checked by
TLC only. Every invariant of the passing runs is the statement of a theorem.

## Not modelled

Amounts beyond fees and mileage, recipient details, rendering of emails and PDFs,
time zones and daylight saving, caches of routes and geocodes. In particular:

* In `Invoicing` numbers are numbers: their order as strings, which breaks after 9999 in a year
  (`invoices.service.ts:136`), is not modelled, nor that two owners' PDFs of one
  number share an address (`invoice.processor.ts:482`).
* `CalendarSync` follows one job in a calendar that stays connected; the refresh
  lock, connecting and the ICS feed are left out. Slots farther apart than an
  hour, or another address, make a second event (`calendar-sync.processor.ts:57`).
* `Campaign` leaves out audiences of users, drafts, edits, direct sends and
  `stopOnReply` switched off. `MarketingImport` leaves out what a mapping reads,
  the initial status, tasks and playbooks, and a change of a lead's email between a
  run's bulk write and its second look-up.
* `Billing` leaves out checkout, portal and cancellation, and a second subscription
  beside one that renews.
* `DayPlan` takes drives from a table; the cached CITT verdict of five minutes is
  one an upset may leave stale.
* `Reports` leaves out the comparison of years and top clients.
* `Account` leaves out profile, settings and uploads; `Session` hashing and
  signatures.

Hazards known and not stated as properties: a failed PDF upload leaves
`pdf_pending` true for ever (`invoice.processor.ts:507`); `remove` leaves the
calendar event of a SCANNING job (`jobs.service.ts:651`); a lost enqueue after an
event is persisted loses the event (`billing.webhook.controller.ts:70`); a worker
that dies between claim and record (`invoice.processor.ts:553`); a job of more
than four hours that began before the window (`booking.service.ts:1070`).

Smaller disagreements seen while modelling:

* Income ends with the first instant of a range's last day while the miles of
  that day are deducted, and expenses of the day after are counted; the PDF's net
  ignores other expenses and manual mileage (`reports.service.ts`).
* CITT's gap ignores the previous job's scanback and the drive to the next, and
  `scanback_conflict` is always false (`citt.service.ts:191`); `optimise` hardly
  ever reorders, and `applyRoute` writes over the countdown of a SCANNING job
  (`planner.service.ts:436`).
* The 10:00 cron asks for every day not marked sent, so that a day's onboarding
  mail is sent twice as a rule; the worker never looks at `dayNSentAt`, and day 0
  of an existing user is never marked (`email-sequence.cron.service.ts:62`).
* A restored account does not get its plan back, and a later webhook gives a
  deleted one a plan; a deleted account's email stays taken; a crash during
  registration leaves an account without all its defaults.
* An edit of the signing type or of the scanback minutes moves the end of a
  confirmed job without a calendar task (`jobs.service.ts:442`), and `approve` and
  `cancel` of a booking queue none (`booking.service.ts:806`).
* Confirming an import with an address but no time throws
  (`job-import.service.ts:313`).

## What comes next

To model: `GoogleTokens` (the refresh lock: its expiry under its holder, a refresh that
writes after a disconnect) and the notifications left out of `Reminders`.
